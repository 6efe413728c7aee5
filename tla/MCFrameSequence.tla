-------------------------- MODULE MCFrameSequence --------------------------
(* Small instances of FrameSequence: four frames of intro and three of sleep *)
(* at three frames per second, and seven units of time in a second, so that  *)
(* no frame takes a whole number of them.                                    *)
EXTENDS FrameSequence, TLC

MCClips == {"intro", "sleep"}
MCFrames == ("intro" :> 4) @@ ("sleep" :> 3)

\* The last frame of the intro is missing.
MCVideoFrames == ("intro" :> 3) @@ ("sleep" :> 3)
=============================================================================
