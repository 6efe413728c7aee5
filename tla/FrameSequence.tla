--------------------------- MODULE FrameSequence ---------------------------
(* The picture the overlay shows (src/overlay/FrameSequence.cpp), driven by  *)
(* the 16 ms timer of src/overlay/OverlayWindow.cpp:173-191.  Time passes    *)
(* while a frame is decoded and between two timeouts.                        *)
EXTENDS VideoFrameDecoder

CONSTANTS fps,           \* m_assets.fps
          Second,        \* units of time per second, 1000 in the code
          Frames,        \* Frames[c]: m_assets.clip1.frames, m_assets.clip2.frames
          sleepSeconds,
          MaxElapsed     \* bound: where the clock of the model stops

ASSUME SequenceAssumption ==
    /\ {fps, Second, sleepSeconds} \subseteq Nat \ {0}
    /\ Clips = {"intro", "sleep"}
    /\ Frames \in [Clips -> Nat \ {0}]
    /\ MaxElapsed \in Nat

\* The assets are videos or images; "cached" are images of which those of the sleep
\* fit into memory (m_cacheSleepFrames).
Formats == {"video", "png", "cached"}

VARIABLES format,        \* m_assets.format
          m_elapsed,     \* the clock of the overlay, started once frame 1 is there
          elapsedMs,     \* its value at the latest call of update
          updated,       \* its value at the latest call that has returned
          shown,         \* m_currentClip and m_currentImage
          m_lastFrame,   \* m_lastIntroFrame and m_lastSleepFrame, 0 for -1
          m_finished

clockVars == <<elapsedMs, updated>>
vars == <<decoderVars, frameNumber, error, format, m_elapsed, clockVars, shown,
          m_lastFrame, m_finished>>

Nothing == [clip |-> None, frame |-> 0]

Init ==
    /\ DecoderInit
    /\ format \in Formats
    /\ m_elapsed = 0 /\ elapsedMs = 0 /\ updated = 0
    /\ shown = Nothing
    /\ m_lastFrame = [c \in Clips |-> 0]
    /\ m_finished = FALSE

Running == error = None /\ ~m_finished
Idle == Running /\ frameNumber = 0
Prepared == shown # Nothing

-----------------------------------------------------------------------------
\* m_currentClip, m_currentImage and the number of the frame are set.
Loaded(picture, clip, number) ==
    /\ shown' = picture
    /\ m_lastFrame' = [m_lastFrame EXCEPT ![clip] = number]

\* loadIntroFrame, loadSleepFrame at time t: the frame is there already, or it is
\* an image file, which may be unreadable, or the video has to be decoded, and has
\* to be opened first if the other one is open.
Load(clip, number, t) ==
    \/ /\ number = m_lastFrame[clip]
       /\ updated' = t
       /\ UNCHANGED <<decoderVars, frameNumber, error, shown, m_lastFrame>>
    \/ /\ number # m_lastFrame[clip] /\ format # "video"
       /\ Loaded([clip |-> clip, frame |-> number], clip, number)
       /\ updated' = t
       /\ UNCHANGED <<decoderVars, frameNumber, error>>
    \/ /\ number # m_lastFrame[clip] /\ format # "video"
       /\ Fail("corrupt")
       /\ UNCHANGED <<updated, shown, m_lastFrame>>
    \/ /\ number # m_lastFrame[clip] /\ format = "video"
       /\ IF m_path = clip THEN Read(number) ELSE OpenAndRead(clip, number)
       /\ UNCHANGED <<updated, shown, m_lastFrame>>

\* prepare: the first frame, before the clock is started.
Prepare ==
    /\ Idle /\ ~Prepared
    /\ Load("intro", 1, 0)
    /\ UNCHANGED <<format, m_elapsed, elapsedMs, m_finished>>

\* readFrame returns the frame: update is done.
FrameLoaded ==
    /\ ReturnFrame
    /\ Loaded(image, m_path, frameNumber)
    /\ updated' = elapsedMs
    /\ UNCHANGED <<format, m_elapsed, elapsedMs, m_finished>>

\* A video cannot be opened or decoded: update returns false.
LoadFails ==
    /\ DecodingFails
    /\ UNCHANGED <<format, m_elapsed, clockVars, shown, m_lastFrame, m_finished>>

-----------------------------------------------------------------------------
(* update                                                                    *)

introFrame(t) == (t * fps) \div Second + 1
introDuration == (Frames["intro"] * Second) \div fps
sleepElapsed(t) == t - introDuration
sleepIndex(t) == ((sleepElapsed(t) * fps) \div Second) % Frames["sleep"]

\* Mutant: the last frame of the intro is not shown.
InIntroShort(t) == introFrame(t) < Frames["intro"]

InIntro(t) == introFrame(t) <= Frames["intro"]

UpdateIntro(t) ==
    /\ InIntro(t)
    /\ Load("intro", introFrame(t), t)
    /\ UNCHANGED m_finished

UpdateFinished(t) ==
    /\ ~InIntro(t) /\ sleepElapsed(t) >= sleepSeconds * Second
    /\ m_finished' = TRUE
    /\ updated' = t
    /\ UNCHANGED <<decoderVars, frameNumber, error, shown, m_lastFrame>>

\* Mutant: the frames of the sleep are counted from zero.
UpdateSleepFromZero(t) ==
    /\ ~InIntro(t) /\ sleepElapsed(t) < sleepSeconds * Second
    /\ format # "cached"
    /\ Load("sleep", sleepIndex(t), t)
    /\ UNCHANGED m_finished

UpdateSleep(t) ==
    /\ ~InIntro(t) /\ sleepElapsed(t) < sleepSeconds * Second
    /\ format # "cached"
    /\ Load("sleep", sleepIndex(t) + 1, t)
    /\ UNCHANGED m_finished

\* The frame comes from memory; m_lastSleepFrame is left alone.
UpdateSleepCached(t) ==
    /\ ~InIntro(t) /\ sleepElapsed(t) < sleepSeconds * Second
    /\ format = "cached"
    /\ shown' = [clip |-> "sleep", frame |-> sleepIndex(t) + 1]
    /\ updated' = t
    /\ UNCHANGED <<decoderVars, frameNumber, error, m_lastFrame, m_finished>>

\* The timer fires: update(m_elapsed.elapsed()).
TimerFires ==
    /\ Idle /\ Prepared
    /\ elapsedMs' = m_elapsed
    /\ \/ UpdateIntro(m_elapsed)
       \/ UpdateSleep(m_elapsed)
       \/ UpdateSleepCached(m_elapsed)
       \/ UpdateFinished(m_elapsed)
    /\ UNCHANGED <<format, m_elapsed>>

Decode ==
    /\ DecoderStep
    /\ UNCHANGED <<format, m_elapsed, clockVars, shown, m_lastFrame, m_finished>>

Tick ==
    /\ Running /\ Prepared /\ m_elapsed < MaxElapsed
    /\ m_elapsed' = m_elapsed + 1
    /\ UNCHANGED <<decoderVars, frameNumber, error, format, clockVars, shown,
                   m_lastFrame, m_finished>>

Next == Prepare \/ FrameLoaded \/ LoadFails \/ TimerFires \/ Decode \/ Tick

\* The overlay runs: the event loop delivers the timer, a call of update returns,
\* and time passes.
Fairness ==
    /\ WF_vars(Prepare) /\ WF_vars(TimerFires) /\ WF_vars(Tick)
    /\ WF_vars(Decode \/ FrameLoaded)

Spec == Init /\ [][Next]_vars /\ Fairness

-----------------------------------------------------------------------------
(* The countdown that OverlayWindow.cpp:250-263 paints next to the picture   *)

totalDuration == introDuration + sleepSeconds * Second

\* Mutant: the rest is rounded down.
remainingSecondsDown(t) ==
    LET remaining == IF t < totalDuration THEN totalDuration - t ELSE 0
    IN  remaining \div Second

remainingSeconds(t) ==
    LET remaining == IF t < totalDuration THEN totalDuration - t ELSE 0
    IN  (remaining + Second - 1) \div Second

-----------------------------------------------------------------------------
(* Properties                                                                *)

TypeOK ==
    /\ DecoderTypeOK
    /\ format \in Formats
    /\ m_elapsed \in Nat /\ elapsedMs \in Nat /\ updated \in Nat
    /\ shown \in [clip : Clips, frame : Nat \ {0}] \union {Nothing}
    /\ m_lastFrame \in [Clips -> Nat]
    /\ m_finished \in BOOLEAN

\* The number of the frame that update loads at t.
FrameAt(t) == IF InIntro(t) THEN introFrame(t) ELSE sleepIndex(t) + 1

\* The overlay gives up because a video has ended only when the frame that is due
\* is not in it: never in the middle, at a rewind or when the other clip begins
\* (FrameSequence.cpp:126-146, VideoFrameDecoder.cpp:365-378).
EndsOnlyIfTooShort == error = "ended" => FrameAt(elapsedMs) > VideoFrames[m_path]

Played == INSTANCE Playback WITH time <- updated, finished <- m_finished

\* Every frame is shown in its time, none before, and the overlay is finished at
\* the end of the sleep and not earlier (DESIGN.md:159, FrameSequence.cpp:120-147).
PlaysOnTime == Played!Spec

\* The countdown reaches zero exactly when the overlay is due to end, although the
\* one is painted by its own reading of the clock, with its own rounding, and the
\* other decided by update (OverlayWindow.cpp:173-187, 250-263,
\* FrameSequence.cpp:126-136).
CountdownIsHonest ==
    /\ Prepared =>
           (remainingSeconds(m_elapsed) = 0
                <=> ~InIntro(m_elapsed) /\ sleepElapsed(m_elapsed) >= sleepSeconds * Second)
    /\ m_finished => remainingSeconds(m_elapsed) = 0

\* The overlay ends by itself, or gives up (OverlayWindow.cpp:173-187).
OverlayEnds == <>(m_finished \/ error # None)
=============================================================================
