---------------------------- MODULE MCMsgTask ----------------------------
(* Two senders and the two kinds of thread of MsgTask, for TLC. *)
EXTENDS MsgTask
CONSTANTS s1, s2
SendersDef == {s1, s2}
==========================================================================
