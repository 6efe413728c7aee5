------------------------ MODULE FrameSequenceProofs ------------------------
(* Proofs about FrameSequence: the decoder counts right, the overlay shows   *)
(* what Playback promises, the countdown agrees with it, and a video ends    *)
(* early only if it is too short.                                            *)
(*                                                                           *)
(* The arithmetic of update comes first (IntroIsDue, SleepIsDue, EndIsDue);  *)
(* the invariant then says that the frame being decoded is the one that is   *)
(* due, and that the numbers of the frames loaded last tell what is shown.   *)
EXTENDS FrameSequence, TLAPS

USE DEF None

-----------------------------------------------------------------------------
(* Arithmetic                                                                *)

\* Integer division, as the code's int64 division of positive numbers.
LEMMA Division ==
    ASSUME NEW x \in Nat, NEW d \in Nat \ {0}
    PROVE  /\ x \div d \in Nat
           /\ d * (x \div d) <= x
           /\ x < d * (x \div d) + d
  BY SMTT(20)

LEMMA Remainder ==
    ASSUME NEW x \in Nat, NEW d \in Nat \ {0}
    PROVE  x % d \in 0..(d - 1)
  BY SMTT(20)

LEMMA Products ==
    ASSUME NEW a \in Nat, NEW b \in Nat, NEW k \in Nat \ {0}
    PROVE  /\ a * k \in Nat
           /\ a * k = k * a
           /\ a <= b => a * k <= b * k
           /\ a * k <= b * k => a <= b
           /\ a * k < b * k => a < b
           /\ a <= a * k
  BY SMTT(20)

LEMMA Constants ==
    /\ fps \in Nat \ {0} /\ Second \in Nat \ {0} /\ sleepSeconds \in Nat \ {0}
    /\ Frames["intro"] \in Nat \ {0} /\ Frames["sleep"] \in Nat \ {0}
    /\ Clips = {"intro", "sleep"}
    /\ None \notin Clips
    /\ VideoFrames["intro"] \in Nat /\ VideoFrames["sleep"] \in Nat
    /\ VideoFrames \in [Clips -> Nat]
    /\ HeldBack \in Nat
  BY SequenceAssumption, DecoderAssumption, NoneAssumption

\* Where the intro ends.
LEMMA IntroDuration ==
    /\ introDuration \in Nat
    /\ introDuration = Played!IntroEnds
    /\ introDuration * fps <= Frames["intro"] * Second
    /\ Frames["intro"] * Second < (introDuration + 1) * fps
<1> DEFINE x == Frames["intro"] * Second
<1>1. x \in Nat
  BY Constants, Products
<1>2. /\ introDuration \in Nat
      /\ fps * introDuration <= x
      /\ x < fps * introDuration + fps
  BY <1>1, Constants, Division DEF introDuration
<1>3. /\ introDuration * fps = fps * introDuration
      /\ (introDuration + 1) * fps = fps * introDuration + fps
  BY <1>2, Constants, SMTT(20)
<1> QED
  BY <1>2, <1>3 DEF introDuration, Played!IntroEnds

\* The frame of the intro that update loads is the one that is due.
LEMMA IntroIsDue ==
    ASSUME NEW t \in Nat, InIntro(t)
    PROVE  /\ introFrame(t) \in 1..Frames["intro"]
           /\ ~Played!Asleep(t)
           /\ t < Played!End
           /\ Played!Due([clip |-> "intro", frame |-> introFrame(t)], t)
<1> DEFINE q == (t * fps) \div Second
<1>1. t * fps \in Nat
  BY Constants, Products
<1>2. q \in Nat /\ Second * q <= t * fps /\ t * fps < Second * q + Second
  BY <1>1, Constants, Division
<1>3. introFrame(t) = q + 1 /\ q + 1 <= Frames["intro"]
  BY DEF introFrame, InIntro
<1>4. /\ (q + 1) * Second = Second * q + Second
      /\ ((q + 1) - 1) * Second = Second * q
  BY <1>2, Constants, SMTT(20)
<1>5. (q + 1) * Second <= Frames["intro"] * Second
  BY <1>2, <1>3, Constants, Products
<1>6. ~Played!Asleep(t)
  <2>1. Frames["intro"] * Second \in Nat /\ (q + 1) * Second \in Nat
    BY <1>2, Constants, Products
  <2> QED
    BY <1>1, <1>2, <1>4, <1>5, <2>1, Constants DEF Played!Asleep
<1>7. t < Played!End
  <2>1. t * fps < (introDuration + 1) * fps
    <3>1. Frames["intro"] * Second \in Nat /\ (introDuration + 1) * fps \in Nat
      BY IntroDuration, Constants, Products
    <3> QED
      BY <1>1, <1>6, <3>1, IntroDuration DEF Played!Asleep
  <2>2. t < introDuration + 1
    BY <2>1, IntroDuration, Constants, Products
  <2>3. sleepSeconds * Second \in Nat /\ sleepSeconds <= sleepSeconds * Second
    BY Constants, Products
  <2> QED
    BY <2>2, <2>3, IntroDuration, Constants DEF Played!End
<1>8. Played!DueSince(q + 1, 0, t)
  <2>1. t - 0 = t
    OBVIOUS
  <2> QED
    BY <1>1, <1>2, <1>4, <2>1 DEF Played!DueSince
<1> QED
  BY <1>2, <1>3, <1>6, <1>7, <1>8, Constants DEF Played!Due

\* After the intro the clock of the sleep runs forward from its end.
LEMMA IntroIsOver ==
    ASSUME NEW t \in Nat, ~InIntro(t)
    PROVE  Played!Asleep(t) /\ introDuration <= t /\ sleepElapsed(t) \in Nat
<1> DEFINE q == (t * fps) \div Second
<1>1. t * fps \in Nat
  BY Constants, Products
<1>2. q \in Nat /\ Second * q <= t * fps
  BY <1>1, Constants, Division
<1>3. Frames["intro"] <= q
  BY <1>2, Constants DEF introFrame, InIntro
<1>4. Frames["intro"] * Second <= q * Second /\ q * Second = Second * q
  BY <1>2, <1>3, Constants, Products
<1>5. Frames["intro"] * Second \in Nat /\ q * Second \in Nat
  BY <1>2, Constants, Products
<1>6. Played!Asleep(t)
  BY <1>1, <1>2, <1>4, <1>5 DEF Played!Asleep
<1>7. introDuration * fps <= t * fps
  <2>1. introDuration * fps \in Nat
    BY IntroDuration, Constants, Products
  <2> QED
    BY <1>1, <1>2, <1>4, <1>5, <2>1, IntroDuration
<1>8. introDuration <= t
  BY <1>7, IntroDuration, Constants, Products
<1> QED
  BY <1>6, <1>8, IntroDuration DEF sleepElapsed

\* The frame of the sleep that update loads is the one that is due.
LEMMA SleepIsDue ==
    ASSUME NEW t \in Nat, ~InIntro(t), sleepElapsed(t) < sleepSeconds * Second
    PROVE  /\ sleepIndex(t) + 1 \in Nat \ {0}
           /\ Played!Asleep(t)
           /\ Played!Due([clip |-> "sleep", frame |-> sleepIndex(t) + 1], t)
<1> DEFINE e == sleepElapsed(t)
           q == (e * fps) \div Second
<1>1. e \in Nat /\ e = t - Played!IntroEnds /\ Played!IntroEnds <= t /\ e <= t
  BY IntroIsOver, IntroDuration DEF sleepElapsed
<1>2. e * fps \in Nat
  BY <1>1, Constants, Products
<1>3. q \in Nat /\ Second * q <= e * fps /\ e * fps < Second * q + Second
  BY <1>2, Constants, Division
<1>4. /\ (q + 1) * Second = Second * q + Second
      /\ ((q + 1) - 1) * Second = Second * q
  BY <1>3, Constants, SMTT(20)
<1>5. Played!DueSince(q + 1, Played!IntroEnds, t)
  BY <1>1, <1>2, <1>3, <1>4 DEF Played!DueSince
<1>6. q + 1 \in 1..(t + 1) * fps
  <2>1. q <= q * Second /\ q * Second = Second * q /\ q * Second \in Nat
    BY <1>3, Constants, Products
  <2>2. e * fps <= t * fps /\ t * fps \in Nat
    BY <1>1, Constants, Products
  <2>3. (t + 1) * fps = t * fps + fps
    BY Constants, SMTT(20)
  <2> QED
    BY <1>2, <1>3, <2>1, <2>2, <2>3, Constants
<1>7. /\ sleepIndex(t) + 1 = Played!SleepFrame(q + 1)
      /\ sleepIndex(t) + 1 \in Nat \ {0}
  <2>1. (q + 1) - 1 = q
    BY <1>3
  <2>2. q % Frames["sleep"] \in 0..(Frames["sleep"] - 1)
    BY <1>3, Constants, Remainder
  <2> QED
    BY <2>1, <2>2, Constants DEF sleepIndex, Played!SleepFrame
<1>8. t < Played!End
  <2>1. sleepSeconds * Second \in Nat
    BY Constants, Products
  <2> QED
    BY <1>1, <2>1, IntroDuration DEF Played!End
<1> QED
  BY <1>5, <1>6, <1>7, <1>8, IntroIsOver DEF Played!Due

\* update finishes at the end and not earlier.
LEMMA EndIsDue ==
    ASSUME NEW t \in Nat, ~InIntro(t), sleepElapsed(t) >= sleepSeconds * Second
    PROVE  t >= Played!End
<1>1. sleepSeconds * Second \in Nat
  BY Constants, Products
<1> QED
  BY <1>1, IntroIsOver, IntroDuration DEF sleepElapsed, Played!End

\* Nobody wakes up again.
LEMMA StaysAsleep ==
    ASSUME NEW s \in Nat, NEW t \in Nat, s <= t, Played!Asleep(s)
    PROVE  Played!Asleep(t)
<1>1. /\ s * fps <= t * fps /\ s * fps \in Nat /\ t * fps \in Nat
      /\ Frames["intro"] * Second \in Nat
  BY Constants, Products
<1> QED
  BY <1>1 DEF Played!Asleep

-----------------------------------------------------------------------------
(* The invariant                                                             *)

\* While readFrame is busy: it is after the frame that is due.
Loading ==
    frameNumber # 0 =>
        /\ frameNumber > m_currentFrame
        /\ m_path \in Clips
        /\ Played!Due([clip |-> m_path, frame |-> frameNumber], elapsedMs)
        /\ format = "video"
        /\ ~m_finished
        /\ m_path = "intro" => shown.clip # "sleep"

\* What is shown is the frame loaded last.
Showing ==
    /\ updated <= elapsedMs /\ elapsedMs <= m_elapsed
    /\ shown.clip = "sleep" => Played!Asleep(updated)
    /\ shown = Nothing => m_lastFrame = [c \in Clips |-> 0] /\ elapsedMs = 0
    /\ shown.clip = "intro" =>
           shown.frame = m_lastFrame["intro"] /\ m_lastFrame["sleep"] = 0
    /\ shown.clip = "sleep" /\ format # "cached" =>
           shown.frame = m_lastFrame["sleep"]
    /\ format = "cached" => m_lastFrame["sleep"] = 0

IInv == TypeOK /\ InStep /\ Loading /\ Showing

\* What one step owes the invariant and the promise.
Kept == IInv' /\ [Played!Next]_<<updated, shown, m_finished>>

LEMMA Initially == Init => IInv
<1> SUFFICES ASSUME Init PROVE IInv
  OBVIOUS
<1> USE Constants DEF Init, DecoderInit
<1>1. TypeOK
  <2>1. <<>> \in Seq(Nat)
    OBVIOUS
  <2>2. DecoderTypeOK
    BY <2>1 DEF DecoderTypeOK
  <2>3. m_lastFrame \in [Clips -> Nat]
    OBVIOUS
  <2> QED
    BY <2>2, <2>3 DEF TypeOK, Formats
<1>2. InStep
  BY DEF InStep
<1>3. Loading
  BY DEF Loading
<1>4. Showing
  <2>1. /\ shown.clip = "none" /\ m_lastFrame = [c \in Clips |-> 0]
        /\ elapsedMs = 0
    BY DEF Nothing
  <2>2. m_lastFrame["sleep"] = 0
    BY <2>1
  <2> QED
    BY <2>1, <2>2 DEF Showing
<1> QED
  BY <1>1, <1>2, <1>3, <1>4 DEF IInv

-----------------------------------------------------------------------------
(* The decoder                                                               *)

\* The image readFrame returns is the one it was asked for.
LEMMA HeadOfCodec ==
    ASSUME TypeOK, InStep, codec # <<>>
    PROVE  /\ Head(codec) = m_currentFrame + 1
           /\ Len(codec) \in Nat \ {0}
           /\ Tail(codec) \in Seq(Nat)
           /\ Len(Tail(codec)) = Len(codec) - 1
           /\ \A i \in 1..Len(Tail(codec)) : Tail(codec)[i] = codec[i + 1]
  BY DEF TypeOK, DecoderTypeOK, InStep

\* Decoding a frame keeps the count.
LEMMA ReceiveInStep ==
    ASSUME TypeOK, InStep, Receive
    PROVE  InStep' /\ m_currentFrame' \in Nat /\ codec' \in Seq(Nat)
<1>1. codec # <<>> /\ codec' = Tail(codec) /\ m_currentFrame' = m_currentFrame + 1
      /\ UNCHANGED <<m_path, m_draining, packets>>
  BY DEF Receive
<1>2. m_currentFrame \in Nat /\ packets \in Nat
  BY DEF TypeOK, DecoderTypeOK
<1>3. \A i \in 1..Len(codec') : codec'[i] = m_currentFrame' + i
  BY <1>1, <1>2, HeadOfCodec DEF InStep
<1> QED
  BY <1>1, <1>2, <1>3, HeadOfCodec DEF InStep

\* So does feeding it.
LEMMA SendInStep ==
    ASSUME TypeOK, InStep, SendPacket, m_path \in Clips
    PROVE  InStep' /\ packets' \in Nat /\ codec' \in Seq(Nat)
<1>1. /\ ~m_draining /\ packets < VideoFrames[m_path]
      /\ packets' = packets + 1 /\ codec' = Append(codec, packets + 1)
      /\ UNCHANGED <<m_path, m_currentFrame, m_draining>>
  BY DEF SendPacket, WantsPacket
<1>2. /\ m_currentFrame \in Nat /\ packets \in Nat /\ codec \in Seq(Nat)
      /\ m_draining \in BOOLEAN /\ VideoFrames[m_path] \in Nat
  BY Constants DEF TypeOK, DecoderTypeOK
<1>3. codec' \in Seq(Nat) /\ Len(codec') = Len(codec) + 1
  BY <1>1, <1>2
<1>4. Len(codec) = packets - m_currentFrame /\ packets >= m_currentFrame
  BY DEF InStep
<1>5. ASSUME NEW i \in 1..Len(codec')
      PROVE  codec'[i] = m_currentFrame' + i
  <2>1. CASE i = Len(codec) + 1
    BY <1>1, <1>2, <1>4, <2>1
  <2>2. CASE i # Len(codec) + 1
    <3>1. i \in 1..Len(codec) /\ codec'[i] = codec[i]
      BY <1>1, <1>2, <1>3, <2>2
    <3> QED
      BY <1>1, <3>1 DEF InStep
  <2> QED
    BY <2>1, <2>2
<1> QED
  BY <1>1, <1>2, <1>3, <1>4, <1>5 DEF InStep

-----------------------------------------------------------------------------
(* The steps                                                                 *)

\* A picture is shown in its time: a step of Playback.
LEMMA ShowStep ==
    ASSUME IInv, ~m_finished, UNCHANGED m_finished,
           updated' \in Nat, updated' >= updated,
           shown'.clip \in Clips, Played!Due(shown', updated')
    PROVE  [Played!Next]_<<updated, shown, m_finished>>
  BY Constants DEF Played!Next, Played!Show

\* What has been loaded: nothing, or a frame of a clip.
LEMMA ShownIs ==
    ASSUME IInv
    PROVE  /\ shown # Nothing =>
                /\ shown.clip \in Clips /\ shown.frame \in Nat \ {0}
                /\ shown = [clip |-> shown.clip, frame |-> shown.frame]
           /\ shown = Nothing => shown.clip = "none"
           /\ m_lastFrame \in [Clips -> Nat]
           /\ updated \in Nat /\ elapsedMs \in Nat /\ m_elapsed \in Nat
  BY DEF IInv, TypeOK, Nothing

\* loadIntroFrame and loadSleepFrame, called for the frame that is due.
LEMMA LoadStep ==
    ASSUME IInv, NEW clip \in Clips, NEW number \in Nat \ {0}, NEW t \in Nat,
           Idle, Load(clip, number, t), UNCHANGED <<format, m_elapsed, m_finished>>,
           elapsedMs' = t, elapsedMs <= t, t <= m_elapsed, shown = Nothing => t = 0,
           Played!Due([clip |-> clip, frame |-> number], t),
           clip = "intro" => shown.clip # "sleep",
           clip = "sleep" => Played!Asleep(t) /\ format # "cached" /\ shown # Nothing
    PROVE  Kept
<1> USE Constants
<1>1. frameNumber = 0 /\ ~m_finished /\ error = None
  BY DEF Idle, Running
<1>2. TypeOK /\ InStep /\ Loading /\ Showing
  BY DEF IInv
<1>3. updated <= t /\ t \in Nat
  BY <1>2, ShownIs DEF Showing
<1>4. CASE /\ number = m_lastFrame[clip] /\ updated' = t
           /\ UNCHANGED <<decoderVars, frameNumber, error, shown, m_lastFrame>>
  <2>1. shown # Nothing
    BY <1>2, <1>4 DEF Showing
  <2>2. shown.clip = clip /\ shown.frame = number
    BY <1>2, <1>4, <2>1, ShownIs DEF Showing
  <2>3. Played!Due(shown', updated') /\ shown'.clip \in Clips
    BY <1>4, <2>1, <2>2, ShownIs
  <2>4. TypeOK'
    BY <1>2, <1>3, <1>4 DEF TypeOK, DecoderTypeOK, decoderVars
  <2>5. InStep'
    BY <1>2, <1>4 DEF InStep, decoderVars
  <2>6. Loading'
    BY <1>1, <1>4 DEF Loading
  <2>7. Showing'
    BY <1>2, <1>3, <1>4, <2>1, <2>2 DEF Showing
  <2> QED
    BY <1>1, <1>3, <1>4, <2>3, <2>4, <2>5, <2>6, <2>7, ShowStep DEF Kept, IInv
<1>5. CASE /\ number # m_lastFrame[clip] /\ format # "video"
           /\ Loaded([clip |-> clip, frame |-> number], clip, number)
           /\ updated' = t
           /\ UNCHANGED <<decoderVars, frameNumber, error>>
  <2>1. /\ shown' = [clip |-> clip, frame |-> number] /\ shown' # Nothing
        /\ m_lastFrame' = [m_lastFrame EXCEPT ![clip] = number]
        /\ m_lastFrame'[clip] = number
    BY <1>5, ShownIs DEF Loaded, Nothing
  <2>2. TypeOK'
    BY <1>2, <1>3, <1>5, <2>1 DEF TypeOK, DecoderTypeOK, decoderVars
  <2>3. InStep'
    BY <1>2, <1>5 DEF InStep, decoderVars
  <2>4. Loading'
    BY <1>1, <1>5 DEF Loading
  <2>5. clip = "intro" => m_lastFrame'["sleep"] = 0
    BY <1>2, <2>1, ShownIs DEF Showing
  <2>6. Showing'
    BY <1>2, <1>3, <1>5, <2>1, <2>5 DEF Showing
  <2> QED
    BY <1>1, <1>3, <1>5, <2>1, <2>2, <2>3, <2>4, <2>6, ShowStep DEF Kept, IInv
<1>6. CASE /\ number # m_lastFrame[clip] /\ format # "video"
           /\ Fail("corrupt")
           /\ UNCHANGED <<updated, shown, m_lastFrame>>
  <2>1. TypeOK'
    BY <1>2, <1>6 DEF TypeOK, DecoderTypeOK, decoderVars, Fail
  <2>2. InStep'
    BY <1>2, <1>6 DEF InStep, decoderVars, Fail
  <2>3. Loading'
    BY <1>6 DEF Loading, Fail
  <2>4. Showing'
    BY <1>2, <1>3, <1>6 DEF Showing, Nothing
  <2> QED
    BY <1>6, <2>1, <2>2, <2>3, <2>4 DEF Kept, IInv
<1>7. CASE /\ number # m_lastFrame[clip] /\ format = "video"
           /\ IF m_path = clip THEN Read(number) ELSE OpenAndRead(clip, number)
           /\ UNCHANGED <<updated, shown, m_lastFrame>>
  <2>1. /\ frameNumber' = number /\ UNCHANGED error /\ m_path' = clip
        /\ \/ /\ m_currentFrame' = 0 /\ m_draining' = FALSE
              /\ packets' = 0 /\ codec' = <<>>
           \/ number > m_currentFrame /\ UNCHANGED decoderVars
    BY <1>2, <1>7 DEF Read, Rewind, OpenAndRead, TypeOK, DecoderTypeOK, decoderVars
  <2>2. TypeOK'
    <3>1. DecoderTypeOK'
      <4>1. <<>> \in Seq(Nat)
        OBVIOUS
      <4>2. DecoderTypeOK /\ m_draining' \in BOOLEAN
        BY <1>2, <2>1 DEF TypeOK, DecoderTypeOK, decoderVars
      <4>3. /\ m_currentFrame' \in Nat /\ packets' \in Nat
            /\ codec' \in Seq(Nat)
        <5>1. CASE m_currentFrame' = 0 /\ packets' = 0 /\ codec' = <<>>
          BY <4>1, <5>1
        <5>2. CASE UNCHANGED decoderVars
          BY <4>2, <5>2 DEF DecoderTypeOK, decoderVars
        <5> QED
          BY <2>1, <5>1, <5>2
      <4> QED
        BY <2>1, <4>2, <4>3 DEF DecoderTypeOK
    <3> QED
      BY <1>2, <1>7, <3>1 DEF TypeOK
  <2>3. InStep'
    BY <1>2, <2>1 DEF InStep, decoderVars
  <2>4. Loading'
    BY <1>1, <1>7, <2>1 DEF Loading, decoderVars
  <2>5. Showing'
    BY <1>2, <1>3, <1>7 DEF Showing, Nothing
  <2> QED
    BY <1>7, <2>2, <2>3, <2>4, <2>5 DEF Kept, IInv
<1> QED
  BY <1>4, <1>5, <1>6, <1>7 DEF Load

LEMMA PrepareStep == IInv /\ Prepare => Kept
<1> SUFFICES ASSUME IInv, Prepare PROVE Kept
  OBVIOUS
<1>1. /\ Idle /\ shown = Nothing /\ Load("intro", 1, 0)
      /\ UNCHANGED <<format, m_elapsed, elapsedMs, m_finished>>
  BY DEF Prepare, Prepared
<1>2. elapsedMs = 0 /\ m_elapsed \in Nat /\ shown.clip = "none"
  BY <1>1, ShownIs DEF IInv, Showing
<1>3. InIntro(0) /\ introFrame(0) = 1
  <2>1. 0 * fps = 0 /\ 0 \div Second = 0
    BY Constants, SMTT(20)
  <2> QED
    BY <2>1, Constants DEF InIntro, introFrame
<1>4. Played!Due([clip |-> "intro", frame |-> 1], 0)
  BY <1>3, IntroIsDue
<1> QED
  BY <1>1, <1>2, <1>4, LoadStep, Constants

LEMMA TimerStep == IInv /\ TimerFires => Kept
<1> SUFFICES ASSUME IInv, TimerFires PROVE Kept
  OBVIOUS
<1> DEFINE t == m_elapsed
<1>1. /\ Idle /\ shown # Nothing /\ elapsedMs' = t
      /\ UNCHANGED <<format, m_elapsed>>
  BY DEF TimerFires, Prepared
<1>2. t \in Nat /\ elapsedMs <= t /\ updated <= t /\ updated \in Nat
  BY ShownIs DEF IInv, Showing
<1>3. frameNumber = 0 /\ ~m_finished
  BY <1>1 DEF Idle, Running
<1>4. TypeOK /\ InStep /\ Showing
  BY DEF IInv
<1>5. CASE UpdateIntro(t)
  <2>1. InIntro(t) /\ Load("intro", introFrame(t), t) /\ UNCHANGED m_finished
    BY <1>5 DEF UpdateIntro
  <2>2. shown.clip # "sleep"
    BY <1>2, <1>4, <2>1, IntroIsDue, StaysAsleep DEF Showing
  <2>3. /\ introFrame(t) \in Nat \ {0}
        /\ Played!Due([clip |-> "intro", frame |-> introFrame(t)], t)
    BY <1>2, <2>1, IntroIsDue, Constants
  <2> QED
    BY <1>1, <1>2, <2>1, <2>2, <2>3, LoadStep, Constants
<1>6. CASE UpdateSleep(t)
  <2>1. /\ ~InIntro(t) /\ sleepElapsed(t) < sleepSeconds * Second
        /\ format # "cached"
        /\ Load("sleep", sleepIndex(t) + 1, t) /\ UNCHANGED m_finished
    BY <1>6 DEF UpdateSleep
  <2>2. /\ sleepIndex(t) + 1 \in Nat \ {0}
        /\ Played!Asleep(t)
        /\ Played!Due([clip |-> "sleep", frame |-> sleepIndex(t) + 1], t)
    BY <1>2, <2>1, SleepIsDue
  <2> QED
    BY <1>1, <1>2, <2>1, <2>2, LoadStep, Constants
<1>7. CASE UpdateSleepCached(t)
  <2>1. /\ ~InIntro(t) /\ sleepElapsed(t) < sleepSeconds * Second
        /\ format = "cached"
        /\ shown' = [clip |-> "sleep", frame |-> sleepIndex(t) + 1]
        /\ updated' = t
        /\ UNCHANGED <<decoderVars, frameNumber, error, m_lastFrame, m_finished>>
    BY <1>7 DEF UpdateSleepCached
  <2>2. /\ sleepIndex(t) + 1 \in Nat \ {0}
        /\ Played!Asleep(t)
        /\ Played!Due([clip |-> "sleep", frame |-> sleepIndex(t) + 1], t)
    BY <1>2, <2>1, SleepIsDue
  <2>3. TypeOK'
    BY <1>1, <1>2, <1>4, <2>1, <2>2, Constants DEF TypeOK, DecoderTypeOK, decoderVars
  <2>4. InStep'
    BY <1>4, <2>1 DEF InStep, decoderVars
  <2>5. Loading'
    BY <1>3, <2>1 DEF Loading
  <2>6. Showing'
    BY <1>1, <1>2, <1>4, <2>1, <2>2 DEF Showing, Nothing
  <2>7. Played!Due(shown', updated') /\ shown'.clip \in Clips
    BY <2>1, <2>2, Constants
  <2> QED
    BY <1>2, <1>3, <2>1, <2>3, <2>4, <2>5, <2>6, <2>7, ShowStep DEF Kept, IInv
<1>8. CASE UpdateFinished(t)
  <2>1. /\ ~InIntro(t) /\ sleepElapsed(t) >= sleepSeconds * Second
        /\ m_finished' = TRUE /\ updated' = t
        /\ UNCHANGED <<decoderVars, frameNumber, error, shown, m_lastFrame>>
    BY <1>8 DEF UpdateFinished
  <2>2. t >= Played!End
    BY <1>2, <2>1, EndIsDue
  <2>3. Played!Next
    BY <1>2, <1>3, <2>1, <2>2 DEF Played!Next, Played!Finish
  <2>4. TypeOK'
    BY <1>1, <1>2, <1>4, <2>1 DEF TypeOK, DecoderTypeOK, decoderVars
  <2>5. InStep'
    BY <1>4, <2>1 DEF InStep, decoderVars
  <2>6. Loading'
    BY <1>3, <2>1 DEF Loading
  <2>7. Showing'
    BY <1>1, <1>2, <1>4, <2>1, StaysAsleep DEF Showing
  <2> QED
    BY <2>3, <2>4, <2>5, <2>6, <2>7 DEF Kept, IInv
<1> QED
  BY <1>5, <1>6, <1>7, <1>8 DEF TimerFires

LEMMA FrameLoadedStep == IInv /\ FrameLoaded => Kept
<1> SUFFICES ASSUME IInv, FrameLoaded PROVE Kept
  OBVIOUS
<1> USE Constants
<1>1. /\ Receive /\ m_currentFrame + 1 = frameNumber /\ frameNumber' = 0
      /\ shown' = [clip |-> m_path, frame |-> Head(codec)]
      /\ m_lastFrame' = [m_lastFrame EXCEPT ![m_path] = frameNumber]
      /\ updated' = elapsedMs
      /\ UNCHANGED <<format, m_elapsed, elapsedMs, m_finished>>
  BY DEF FrameLoaded, ReturnFrame, Loaded, image
<1>2. TypeOK /\ InStep /\ Loading /\ Showing
  BY DEF IInv
<1>3. /\ frameNumber \in Nat \ {0} /\ m_currentFrame \in Nat
      /\ codec # <<>> /\ UNCHANGED <<m_path, m_draining, packets, error>>
  BY <1>1, <1>2 DEF Receive, TypeOK, DecoderTypeOK
<1>4. /\ m_path \in Clips /\ format = "video" /\ ~m_finished
      /\ Played!Due([clip |-> m_path, frame |-> frameNumber], elapsedMs)
      /\ m_path = "intro" => shown.clip # "sleep"
  BY <1>2, <1>3 DEF Loading
<1>5. shown' = [clip |-> m_path, frame |-> frameNumber] /\ shown' # Nothing
  BY <1>1, <1>2, <1>3, <1>4, HeadOfCodec DEF Nothing
<1>6. /\ m_lastFrame' \in [Clips -> Nat] /\ m_lastFrame'[m_path] = frameNumber
      /\ m_path = "intro" => m_lastFrame'["sleep"] = 0
  BY <1>1, <1>2, <1>3, <1>4, ShownIs DEF Showing
<1>7. InStep' /\ m_currentFrame' \in Nat /\ codec' \in Seq(Nat)
  BY <1>1, <1>2, ReceiveInStep
<1>8. TypeOK'
  BY <1>1, <1>2, <1>3, <1>4, <1>5, <1>6, <1>7 DEF TypeOK, DecoderTypeOK
<1>9. Loading'
  BY <1>1 DEF Loading
<1>10. m_path = "sleep" => Played!Asleep(elapsedMs)
  BY <1>4 DEF Played!Due
<1>11. Showing'
  BY <1>1, <1>2, <1>4, <1>5, <1>6, <1>10, ShownIs DEF Showing
<1>12. [Played!Next]_<<updated, shown, m_finished>>
  BY <1>1, <1>2, <1>4, <1>5, ShownIs, ShowStep DEF Showing
<1> QED
  BY <1>7, <1>8, <1>9, <1>11, <1>12 DEF Kept, IInv

\* The steps that show nothing.
LEMMA QuietStep ==
    IInv /\ (LoadFails \/ Decode \/ Tick \/ UNCHANGED vars) => Kept
<1> SUFFICES ASSUME IInv, LoadFails \/ Decode \/ Tick \/ UNCHANGED vars
             PROVE  Kept
  OBVIOUS
<1> USE Constants
<1>1. UNCHANGED <<updated, shown, m_finished>>
  BY DEF LoadFails, Decode, Tick, vars, clockVars
<1>2. TypeOK /\ InStep /\ Loading /\ Showing
  BY DEF IInv
<1>3. CASE LoadFails \/ (VideoEnds /\ Decode)
  <2>1. /\ frameNumber' = 0 /\ error' \in {"ended", "corrupt"}
        /\ UNCHANGED <<decoderVars, format, m_elapsed, clockVars, shown,
                       m_lastFrame, m_finished>>
    BY <1>3 DEF LoadFails, DecodingFails, VideoEnds, Fail, Decode
  <2>2. TypeOK'
    BY <1>2, <2>1 DEF TypeOK, DecoderTypeOK, decoderVars, clockVars
  <2>3. InStep'
    BY <1>2, <2>1 DEF InStep, decoderVars
  <2>4. Loading'
    BY <2>1 DEF Loading
  <2>5. Showing'
    BY <1>2, <2>1 DEF Showing, clockVars
  <2> QED
    BY <1>1, <2>2, <2>3, <2>4, <2>5 DEF Kept, IInv
<1>4. CASE Decode /\ ~VideoEnds
  <2>1. UNCHANGED <<format, m_elapsed, clockVars, shown, m_lastFrame, m_finished>>
    BY <1>4 DEF Decode
  <2>2. Decoding /\ UNCHANGED <<m_path, frameNumber, error>>
    BY <1>4 DEF Decode, DecoderStep, SkipFrame, Receive, SendPacket, Drain,
                WantsPacket
  <2>3. m_path \in Clips /\ frameNumber \in Nat /\ m_currentFrame \in Nat
    BY <1>2, <2>2 DEF Loading, Decoding, TypeOK, DecoderTypeOK
  <2>4. /\ InStep' /\ m_currentFrame' \in Nat /\ codec' \in Seq(Nat)
        /\ packets' \in Nat /\ m_draining' \in BOOLEAN
        /\ m_currentFrame' < frameNumber
    <3>1. CASE SkipFrame
      <4>1. InStep' /\ m_currentFrame' \in Nat /\ codec' \in Seq(Nat)
        BY <1>2, <3>1, ReceiveInStep DEF SkipFrame
      <4>2. UNCHANGED <<packets, m_draining>>
        BY <3>1 DEF SkipFrame, Receive
      <4>3. m_currentFrame' < frameNumber
        BY <2>2, <2>3, <3>1 DEF SkipFrame, Receive, Decoding
      <4> QED
        BY <1>2, <4>1, <4>2, <4>3 DEF TypeOK, DecoderTypeOK
    <3>2. CASE SendPacket
      <4>1. InStep' /\ packets' \in Nat /\ codec' \in Seq(Nat)
        BY <1>2, <2>3, <3>2, SendInStep
      <4>2. UNCHANGED <<m_currentFrame, m_draining>>
        BY <3>2 DEF SendPacket
      <4> QED
        BY <1>2, <2>2, <2>3, <4>1, <4>2 DEF Decoding, TypeOK, DecoderTypeOK
    <3>3. CASE Drain
      <4>1. /\ packets = VideoFrames[m_path] /\ m_draining' = TRUE
            /\ UNCHANGED <<m_path, m_currentFrame, packets, codec>>
        BY <3>3 DEF Drain
      <4>2. InStep'
        BY <1>2, <4>1 DEF InStep
      <4> QED
        BY <1>2, <2>2, <2>3, <4>1, <4>2 DEF Decoding, TypeOK, DecoderTypeOK
    <3> QED
      BY <1>4, <3>1, <3>2, <3>3 DEF Decode, DecoderStep
  <2>5. TypeOK'
    BY <1>2, <2>1, <2>2, <2>4 DEF TypeOK, DecoderTypeOK, clockVars
  <2>6. Loading'
    BY <1>2, <2>1, <2>2, <2>3, <2>4 DEF Loading, Decoding, clockVars
  <2>7. Showing'
    BY <1>2, <2>1 DEF Showing, clockVars
  <2> QED
    BY <1>1, <2>4, <2>5, <2>6, <2>7 DEF Kept, IInv
<1>5. CASE Tick
  <2>1. /\ m_elapsed' = m_elapsed + 1
        /\ UNCHANGED <<decoderVars, frameNumber, error, format, clockVars, shown,
                       m_lastFrame, m_finished>>
    BY <1>5 DEF Tick
  <2>2. TypeOK'
    BY <1>2, <2>1 DEF TypeOK, DecoderTypeOK, decoderVars, clockVars
  <2>3. InStep'
    BY <1>2, <2>1 DEF InStep, decoderVars
  <2>4. Loading'
    BY <1>2, <2>1 DEF Loading, decoderVars, clockVars
  <2>5. Showing'
    BY <1>2, <2>1, ShownIs DEF Showing, clockVars
  <2> QED
    BY <1>1, <2>2, <2>3, <2>4, <2>5 DEF Kept, IInv
<1>6. CASE UNCHANGED vars
  <2>1. UNCHANGED <<decoderVars, frameNumber, error, format, m_elapsed, clockVars,
                    shown, m_lastFrame, m_finished>>
    BY <1>6 DEF vars
  <2>2. TypeOK'
    BY <1>2, <2>1 DEF TypeOK, DecoderTypeOK, decoderVars, clockVars
  <2>3. InStep'
    BY <1>2, <2>1 DEF InStep, decoderVars
  <2>4. Loading'
    BY <1>2, <2>1 DEF Loading, decoderVars, clockVars
  <2>5. Showing'
    BY <1>2, <2>1 DEF Showing, clockVars
  <2> QED
    BY <1>1, <2>2, <2>3, <2>4, <2>5 DEF Kept, IInv
<1> QED
  BY <1>3, <1>4, <1>5, <1>6

LEMMA Step == IInv /\ [Next]_vars => Kept
  BY PrepareStep, TimerStep, FrameLoadedStep, QuietStep DEF Next

-----------------------------------------------------------------------------
(* The theorems                                                              *)

\* The overlay stays in states of the right types, and shows no frame number 0
\* (FrameSequence.cpp:73-118).
THEOREM TypeCorrect == Spec => []TypeOK
<1>1. IInv /\ [Next]_vars => IInv'
  BY Step DEF Kept
<1>2. IInv => TypeOK
  BY DEF IInv
<1> QED
  BY Initially, <1>1, <1>2, PTL DEF Spec

\* The count the decoder keeps is the number of the frame it is at, whatever the
\* codec holds back and however often the video is rewound
\* (VideoFrameDecoder.cpp:303-364).
THEOREM DecoderCounts == Spec => []InStep
<1>1. IInv /\ [Next]_vars => IInv'
  BY Step DEF Kept
<1>2. IInv => InStep
  BY DEF IInv
<1> QED
  BY Initially, <1>1, <1>2, PTL DEF Spec

\* The overlay shows every frame in its time and finishes at the end, for every
\* frame rate, length of the clips and duration of the sleep
\* (FrameSequence.cpp:120-147, DESIGN.md:159).
THEOREM OverlayPlaysOnTime == Spec => PlaysOnTime
<1>1. Init => Played!Init
  BY DEF Init, Played!Init, Nothing, Played!Nothing
<1>2. IInv /\ [Next]_vars => IInv' /\ [Played!Next]_<<updated, shown, m_finished>>
  BY Step DEF Kept
<1> QED
  BY Initially, <1>1, <1>2, PTL DEF Spec, PlaysOnTime, Played!Spec

-----------------------------------------------------------------------------
(* The countdown                                                             *)

\* The intro is shorter than the whole.
LEMMA DueToEnd ==
    ASSUME NEW t \in Nat
    PROVE  /\ totalDuration \in Nat
           /\ t >= totalDuration
                  <=> ~InIntro(t) /\ sleepElapsed(t) >= sleepSeconds * Second
<1>1. /\ sleepSeconds * Second \in Nat
      /\ introDuration \in Nat /\ totalDuration = Played!End
      /\ totalDuration = introDuration + sleepSeconds * Second
  BY Constants, Products, IntroDuration DEF totalDuration, Played!End
<1>2. InIntro(t) => t < totalDuration
  BY <1>1, IntroIsDue
<1> QED
  BY <1>1, <1>2 DEF sleepElapsed

\* Rounding up leaves zero only of nothing.
LEMMA CountdownAtZero ==
    ASSUME NEW t \in Nat
    PROVE  remainingSeconds(t) = 0 <=> t >= totalDuration
<1> DEFINE remaining == IF t < totalDuration THEN totalDuration - t ELSE 0
           x == remaining + Second - 1
           q == x \div Second
<1>1. /\ remaining \in Nat /\ x \in Nat /\ x = remaining + Second - 1
      /\ remaining = 0 <=> t >= totalDuration
      /\ remainingSeconds(t) = q
  BY DueToEnd, Constants DEF remainingSeconds
<1> HIDE DEF remaining, x
<1>2. q \in Nat /\ Second * q <= x /\ x < Second * q + Second
  BY <1>1, Constants, Division
<1> HIDE DEF q
<1>3. CASE q = 0
  <2>1. Second * q = 0
    BY <1>3, Constants
  <2>2. remaining = 0
    BY <1>1, <1>2, <2>1, Constants
  <2> QED
    BY <1>1, <1>3, <2>2
<1>4. CASE q # 0
  <2>1. Second <= Second * q
    BY <1>2, <1>4, Constants, Products
  <2>2. remaining # 0
    BY <1>1, <1>2, <2>1, Constants
  <2> QED
    BY <1>1, <1>4, <2>2
<1> QED
  BY <1>3, <1>4

\* The countdown reaches zero exactly when the overlay is due to end, for every
\* length of the intro and of the sleep (OverlayWindow.cpp:250-263,
\* FrameSequence.cpp:126-136).
THEOREM CountdownEndsInTime == Spec => []CountdownIsHonest
<1> DEFINE Ended == m_finished => m_elapsed >= totalDuration
           CInv == IInv /\ Ended
<1>1. Init => CInv
  BY Initially DEF Init
<1>2. CInv /\ [Next]_vars => CInv'
  <2> SUFFICES ASSUME CInv, [Next]_vars PROVE CInv'
    OBVIOUS
  <2>1. IInv /\ IInv' /\ m_elapsed \in Nat /\ m_elapsed' \in Nat
    BY Step DEF Kept, IInv, TypeOK
  <2>2. CASE Tick
    BY <2>1, <2>2 DEF Tick, Running
  <2>3. CASE TimerFires
    <3>1. m_elapsed' = m_elapsed /\ totalDuration' = totalDuration
      BY <2>3 DEF TimerFires, totalDuration, introDuration
    <3>2. CASE UNCHANGED m_finished
      BY <2>1, <3>1, <3>2
    <3>3. CASE UpdateFinished(m_elapsed)
      BY <2>1, <3>1, <3>3, DueToEnd DEF UpdateFinished
    <3> QED
      BY <2>3, <3>2, <3>3
      DEF TimerFires, UpdateIntro, UpdateSleep, UpdateSleepCached
  <2>4. CASE Prepare \/ FrameLoaded \/ LoadFails \/ Decode \/ UNCHANGED vars
    <3>1. UNCHANGED <<m_elapsed, m_finished>>
      BY <2>4 DEF Prepare, FrameLoaded, LoadFails, Decode, vars
    <3> QED
      BY <2>1, <3>1 DEF totalDuration, introDuration
  <2> QED
    BY <2>2, <2>3, <2>4 DEF Next
<1>3. CInv => CountdownIsHonest
  BY DueToEnd, CountdownAtZero DEF CountdownIsHonest, IInv, TypeOK
<1> QED
  BY <1>1, <1>2, <1>3, PTL DEF Spec

-----------------------------------------------------------------------------
(* The end of a video                                                        *)

\* readFrame is after the frame of the latest call of update, until it returns.
Fetching == frameNumber # 0 => frameNumber = FrameAt(elapsedMs)

\* The frame that is due is a matter of the clock alone.
LEMMA FrameAtIsFixed ==
    UNCHANGED elapsedMs => FrameAt(elapsedMs)' = FrameAt(elapsedMs)
  BY DEF FrameAt, InIntro, introFrame, sleepIndex, sleepElapsed, introDuration

\* A frame is asked for when it is due.
LEMMA Fetched ==
    ASSUME NEW clip, NEW number, NEW t, Load(clip, number, t)
    PROVE  frameNumber' \in {frameNumber, 0, number} /\ error' \in {error, "corrupt"}
  BY DEF Load, Fail, Read, OpenAndRead

\* What a step of update does to the frame that is asked for and the error.
LEMMA UpdateFetches ==
    ASSUME IInv, TimerFires
    PROVE  /\ frameNumber' # 0 => frameNumber' = FrameAt(elapsedMs)'
           /\ error' \in {error, "corrupt"}
<1> DEFINE t == m_elapsed
<1>1. frameNumber = 0 /\ elapsedMs' = t
  BY DEF TimerFires, Idle
<1>2. FrameAt(elapsedMs)' = FrameAt(t)
  BY <1>1 DEF FrameAt, InIntro, introFrame, sleepIndex, sleepElapsed, introDuration
<1>3. CASE UpdateIntro(t)
  BY <1>1, <1>2, <1>3, Fetched DEF UpdateIntro, FrameAt
<1>4. CASE UpdateSleep(t)
  BY <1>1, <1>2, <1>4, Fetched DEF UpdateSleep, FrameAt
<1>5. CASE UpdateSleepCached(t) \/ UpdateFinished(t)
  BY <1>1, <1>5 DEF UpdateSleepCached, UpdateFinished
<1> QED
  BY <1>3, <1>4, <1>5 DEF TimerFires

\* An overlay gives up because a video has ended only when that video is too short
\* for the frame that is due, for every length, frame rate, codec delay and clock
\* (FrameSequence.cpp:126-146, VideoFrameDecoder.cpp:365-378).
THEOREM VideoEndsTooShort == Spec => []EndsOnlyIfTooShort
<1> DEFINE EInv == IInv /\ Fetching /\ EndsOnlyIfTooShort
<1>1. Init => EInv
  BY Initially, NoneAssumption DEF Init, DecoderInit, EndsOnlyIfTooShort, Fetching, None
<1>2. EInv /\ [Next]_vars => EInv'
  <2> SUFFICES ASSUME EInv, [Next]_vars PROVE Fetching' /\ EndsOnlyIfTooShort'
    BY Step DEF Kept
  <2>1. /\ m_currentFrame \in Nat /\ frameNumber \in Nat
        /\ frameNumber # 0 => frameNumber > m_currentFrame /\ m_path \in Clips
    BY DEF IInv, TypeOK, DecoderTypeOK, Loading
  <2>2. CASE Prepare
    <3>1. UNCHANGED elapsedMs /\ elapsedMs = 0 /\ error = None /\ frameNumber = 0
      BY <2>2 DEF Prepare, IInv, Showing, Prepared, Idle, Running
    <3>2. FrameAt(elapsedMs) = 1
      <4>1. 0 * fps = 0 /\ 0 \div Second = 0
        BY Constants, SMTT(20)
      <4> QED
        BY <3>1, <4>1, Constants DEF FrameAt, InIntro, introFrame
    <3>3. frameNumber' \in {0, 1} /\ error' \in {None, "corrupt"}
      BY <2>2, <3>1, Fetched DEF Prepare
    <3> QED
      BY <3>1, <3>2, <3>3, FrameAtIsFixed DEF Fetching, EndsOnlyIfTooShort, None
  <2>3. CASE TimerFires
    <3>1. error = None
      BY <2>3 DEF TimerFires, Idle, Running
    <3> QED
      BY <2>3, <3>1, UpdateFetches DEF Fetching, EndsOnlyIfTooShort, None
  <2>4. CASE UNCHANGED elapsedMs /\ UNCHANGED m_path /\ UNCHANGED error
             /\ frameNumber' \in {0, frameNumber}
    BY <2>4, FrameAtIsFixed DEF Fetching, EndsOnlyIfTooShort
  <2>5. CASE LoadFails
    BY <2>5 DEF LoadFails, DecodingFails, Fail, Fetching, EndsOnlyIfTooShort
  <2>6. CASE Decode /\ VideoEnds
    <3>1. /\ frameNumber > m_currentFrame /\ frameNumber = FrameAt(elapsedMs)
          /\ m_draining /\ codec = <<>> /\ m_path \in Clips
      BY <2>1, <2>6 DEF VideoEnds, Decoding, Fetching
    <3>2. packets \in Nat /\ Len(codec) = 0
      BY <3>1 DEF IInv, TypeOK, DecoderTypeOK
    <3>3. m_currentFrame = VideoFrames[m_path]
      BY <2>1, <3>1, <3>2 DEF IInv, InStep
    <3>4. UNCHANGED <<elapsedMs, m_path>> /\ frameNumber' = 0
      BY <2>6 DEF Decode, VideoEnds, Fail, decoderVars, clockVars
    <3> QED
      BY <3>1, <3>3, <3>4, FrameAtIsFixed DEF Fetching, EndsOnlyIfTooShort
  <2>7. CASE Decode /\ ~VideoEnds
    <3>1. /\ UNCHANGED <<elapsedMs, m_path, error>>
          /\ frameNumber' \in {0, frameNumber}
      BY <2>7 DEF Decode, DecoderStep, SkipFrame, Receive, SendPacket, Drain,
                  decoderVars, clockVars
    <3> QED
      BY <2>4, <3>1
  <2>8. CASE FrameLoaded \/ Tick \/ UNCHANGED vars
    <3>1. /\ UNCHANGED <<elapsedMs, m_path, error>>
          /\ frameNumber' \in {0, frameNumber}
      BY <2>8 DEF FrameLoaded, ReturnFrame, Receive, Tick, vars, decoderVars, clockVars
    <3> QED
      BY <2>4, <3>1
  <2> QED
    BY <2>2, <2>3, <2>5, <2>6, <2>7, <2>8 DEF Next
<1>3. EInv => EndsOnlyIfTooShort
  OBVIOUS
<1> QED
  BY <1>1, <1>2, <1>3, PTL DEF Spec
=============================================================================
