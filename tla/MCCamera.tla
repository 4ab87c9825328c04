------------------------------- MODULE MCCamera -------------------------------
(***************************************************************************)
(* Instances of QCamera2HWI for TLC: which calls the application makes.    *)
(***************************************************************************)
EXTENDS QCamera2HWI, TLC

CONSTANTS c1, c2   \* callers

Plain(evts)  == {Cmd(e) : e \in evts}
Params(ps)   == {CmdWith("SET_PARAMS", p) : p \in ps}
Window       == {CmdWith("SET_PREVIEW_WINDOW", w) : w \in {"window", "null"}}

\* Still pictures, with and without zero shutter lag, from the first call of a
\* session to the last.
StillCalls == Plain({"START_PREVIEW", "STOP_PREVIEW", "TAKE_PICTURE", "CANCEL_PICTURE",
                     "PREVIEW_ENABLED", "RELEASE"})
                \cup Params({"zsl_on", "zsl_off", "resize"}) \cup Window

\* Recording, live snapshots and, from a camera preview, ordinary pictures.
VideoCalls == Plain({"START_NODISPLAY_PREVIEW", "STOP_PREVIEW", "START_RECORDING",
                     "STOP_RECORDING", "TAKE_PICTURE", "CANCEL_PICTURE"})
                \cup Params({"hint_off"})

\* The same, with the camera's mode changed on the way.
ModeCalls == VideoCalls \cup Params({"hint_on", "zsl_on", "zsl_off"})

\* What two callers overlap: the preview, pictures and focus.
SharedCalls == Plain({"START_NODISPLAY_PREVIEW", "STOP_PREVIEW", "TAKE_PICTURE",
                      "CANCEL_PICTURE", "START_AUTO_FOCUS"})

\* TLC checks invariants only under it: no liveness property is symmetric.
CallerSymmetry == Permutations(Clients)

=============================================================================
