---------------------------- MODULE MCCameraEvents ----------------------------
(* Instances of CameraEvents for model checking. *)
EXTENDS CameraEvents

Photo == [zsl |-> FALSE, hint |-> FALSE, raw |-> FALSE]
Zsl   == [Photo EXCEPT !.zsl = TRUE]
Video == [Photo EXCEPT !.hint = TRUE]
Raw   == [Photo EXCEPT !.raw = TRUE]
ZslVideo == [Zsl EXCEPT !.hint = TRUE]

MCAll == {Photo, Zsl, Video, Raw, ZslVideo}
MCFour == {Photo, Zsl, Video, Raw}

\* The queries are answered alike in every state, so two stand for all.
MCCommands == (ApiEvents \ Queries) \cup {"GET_PARAMS", "RELEASE_RECORIDNG_FRAME"}
MCFixed == MCCommands \ {"SET_PARAMS"}
MCPlain == MCCommands \ {"LONGSHOT_ON", "LONGSHOT_OFF"}

\* No step reads what an earlier step signalled, so states that differ only in
\* "out" need not be told apart.
EView == <<smVars, hwVars, msgVars, confVars, bRetroPicture, pending, wanted>>
=============================================================================
