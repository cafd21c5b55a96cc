------------------------------ MODULE MCCameraApi ------------------------------
(* Instances of CameraApi for model checking. *)
EXTENDS CameraApi

Photo == [zsl |-> FALSE, hint |-> FALSE, raw |-> FALSE]
Zsl   == [Photo EXCEPT !.zsl = TRUE]
Video == [Photo EXCEPT !.hint = TRUE]

MCModes == {Photo, Video, Zsl}
MCRecording == {"START_NODISPLAY_PREVIEW", "STOP_PREVIEW", "START_RECORDING", "STOP_RECORDING",
                "TAKE_PICTURE", "CANCEL_PICTURE"}
=============================================================================
