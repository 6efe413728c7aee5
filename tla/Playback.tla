------------------------------ MODULE Playback ------------------------------
(* What the overlay promises to show: the intro once, then the sleep clip    *)
(* over and over until sleep_seconds have passed (DESIGN.md:145-159, the     *)
(* arithmetic of src/overlay/FrameSequence.cpp:120-147).                     *)
EXTENDS Naturals

CONSTANTS fps,           \* frames per second
          Second,        \* units of time per second, 1000 in the code
          Frames,        \* Frames[c]: the frames of clip c in the manifest
          sleepSeconds   \* how long the sleep clip is shown

VARIABLES time,   \* when the picture was last seen to
          shown,  \* the frame that is shown
          finished

Nothing == [clip |-> "none", frame |-> 0]

\* The n-th frame after start is due at t.
DueSince(n, start, t) ==
    /\ start <= t
    /\ (n - 1) * Second <= (t - start) * fps
    /\ (t - start) * fps < n * Second

IntroEnds == (Frames["intro"] * Second) \div fps

End == IntroEnds + sleepSeconds * Second

\* The intro is over at t.
Asleep(t) == t * fps >= Frames["intro"] * Second

\* The frame of the sleep clip that the n-th frame of the sleep is.
SleepFrame(n) == ((n - 1) % Frames["sleep"]) + 1

Due(image, t) ==
    /\ t < End
    /\ image.clip = "intro" => ~Asleep(t) /\ DueSince(image.frame, 0, t)
    /\ image.clip = "sleep" =>
           /\ Asleep(t)
           /\ \E n \in 1..(t + 1) * fps :
                  /\ DueSince(n, IntroEnds, t)
                  /\ image.frame = SleepFrame(n)

Init ==
    /\ time = 0
    /\ shown = Nothing
    /\ finished = FALSE

Show ==
    /\ ~finished
    /\ time' \in Nat /\ time' >= time
    /\ shown'.clip \in {"intro", "sleep"}
    /\ Due(shown', time')
    /\ UNCHANGED finished

Finish ==
    /\ ~finished
    /\ time' \in Nat /\ time' >= time /\ time' >= End
    /\ finished' = TRUE
    /\ UNCHANGED shown

Next == Show \/ Finish

Spec == Init /\ [][Next]_<<time, shown, finished>>
=============================================================================
