----------------------------- MODULE MCSuperBuf -----------------------------
(* Small instances of SuperBuf for TLC. *)
EXTENDS SuperBuf
=============================================================================
