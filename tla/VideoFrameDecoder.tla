------------------------- MODULE VideoFrameDecoder -------------------------
(* The video decoder of the overlay (src/overlay/VideoFrameDecoder.cpp): the *)
(* frame that readFrame asks for is reached by decoding forward from where   *)
(* the decoder is, or from the start of the video if that lies behind.       *)
(*                                                                           *)
(* FFmpeg is modelled by what the code relies on: the demuxer hands out one  *)
(* packet per frame, in order; the codec keeps some frames back because it   *)
(* decodes in several threads, and gives them up when it is drained.         *)
EXTENDS Naturals, Sequences

CONSTANTS Clips,
          VideoFrames,  \* VideoFrames[c]: how many frames the video of c holds
          HeldBack      \* how many frames the codec may keep back

ASSUME DecoderAssumption ==
    /\ VideoFrames \in [Clips -> Nat]
    /\ HeldBack \in Nat

None == "none"
ASSUME NoneAssumption == None \notin Clips

VARIABLES m_path,          \* the clip that is open, or None
          m_currentFrame,  \* the number of the frame decoded last
          m_draining,      \* the codec has been told that no packet follows
          packets,         \* how many packets the demuxer has handed out
          codec,           \* the frames inside the codec
          frameNumber,     \* the frame readFrame is after, 0 when it is not called
          error            \* why the overlay gives up

decoderVars == <<m_path, m_currentFrame, m_draining, packets, codec>>

DecoderInit ==
    /\ m_path = None
    /\ m_currentFrame = 0
    /\ m_draining = FALSE
    /\ packets = 0
    /\ codec = <<>>
    /\ frameNumber = 0
    /\ error = None

Fail(reason) ==
    /\ error' = reason
    /\ frameNumber' = 0
    /\ UNCHANGED decoderVars

-----------------------------------------------------------------------------
\* open of a clip and the first readFrame, which has nothing to rewind.
OpenAndRead(clip, number) ==
    /\ m_path' = clip
    /\ m_currentFrame' = 0
    /\ m_draining' = FALSE
    /\ packets' = 0
    /\ codec' = <<>>
    /\ frameNumber' = number
    /\ UNCHANGED error

\* Mutant: only the demuxer is taken back.
SeekOnly ==
    /\ m_currentFrame' = 0
    /\ m_draining' = FALSE
    /\ packets' = 0
    /\ UNCHANGED <<m_path, codec>>

\* Mutant: the codec is still being drained.
RewindKeepsDraining ==
    /\ m_currentFrame' = 0
    /\ packets' = 0
    /\ codec' = <<>>
    /\ UNCHANGED <<m_path, m_draining>>

\* The demuxer seeks to the start and the codec is flushed; a video that cannot
\* seek is closed and opened again, to the same effect.
Rewind ==
    /\ m_currentFrame' = 0
    /\ m_draining' = FALSE
    /\ packets' = 0
    /\ codec' = <<>>
    /\ UNCHANGED m_path

\* readFrame up to its loop.
Read(number) ==
    /\ IF number <= m_currentFrame THEN Rewind ELSE UNCHANGED decoderVars
    /\ frameNumber' = number
    /\ UNCHANGED error

-----------------------------------------------------------------------------
(* decodeNextFrame, once round its loop                                      *)

Decoding == frameNumber > m_currentFrame

\* The codec yields a frame.
Receive ==
    /\ Decoding /\ codec # <<>>
    /\ m_currentFrame' = m_currentFrame + 1
    /\ codec' = Tail(codec)
    /\ UNCHANGED <<m_path, m_draining, packets, error>>

\* It is not yet the one that is asked for.
SkipFrame ==
    /\ Receive
    /\ m_currentFrame + 1 # frameNumber
    /\ UNCHANGED frameNumber

\* It is: the frame is converted, composed and returned as the image.
ReturnFrame ==
    /\ Receive
    /\ m_currentFrame + 1 = frameNumber
    /\ frameNumber' = 0

image == [clip |-> m_path, frame |-> Head(codec)]

\* The codec wants another packet before it yields a frame.
WantsPacket == Decoding /\ ~m_draining /\ Len(codec) <= HeldBack

SendPacket ==
    /\ WantsPacket /\ packets < VideoFrames[m_path]
    /\ packets' = packets + 1
    /\ codec' = Append(codec, packets + 1)
    /\ UNCHANGED <<m_path, m_currentFrame, m_draining, frameNumber, error>>

\* Mutant: nobody remembers that the codec is being drained.
DrainForgotten ==
    /\ WantsPacket /\ packets = VideoFrames[m_path]
    /\ UNCHANGED <<decoderVars, frameNumber, error>>

\* There is none left: the codec is drained.
Drain ==
    /\ WantsPacket /\ packets = VideoFrames[m_path]
    /\ m_draining' = TRUE
    /\ UNCHANGED <<m_path, m_currentFrame, packets, codec, frameNumber, error>>

\* "video decoder reached EOF", "video ended before requested frame".
VideoEnds ==
    /\ Decoding /\ m_draining /\ codec = <<>>
    /\ Fail("ended")

\* FFmpeg reports an error, or a frame of the wrong size or without alpha.
DecodingFails ==
    /\ Decoding
    /\ Fail("corrupt")

\* What happens between the call of readFrame and its return.
DecoderStep == SkipFrame \/ SendPacket \/ Drain \/ VideoEnds

-----------------------------------------------------------------------------
DecoderTypeOK ==
    /\ m_path \in Clips \union {None}
    /\ m_currentFrame \in Nat
    /\ m_draining \in BOOLEAN
    /\ packets \in Nat
    /\ codec \in Seq(Nat)
    /\ frameNumber \in Nat
    /\ error \in {None, "ended", "corrupt"}

\* What the codec holds are the frames between the one decoded last and the packet
\* read last, in order: readFrame may count instead of looking at the frame it gets
\* (VideoFrameDecoder.cpp:332-345, 352-353).
InStep ==
    /\ Len(codec) = packets - m_currentFrame
    /\ \A i \in 1..Len(codec) : codec[i] = m_currentFrame + i
    /\ packets >= m_currentFrame
    /\ m_path # None => packets <= VideoFrames[m_path]
    /\ m_draining => packets = VideoFrames[m_path]
=============================================================================
