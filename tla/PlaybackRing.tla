---------------------------- MODULE PlaybackRing ----------------------------
(***************************************************************************)
(* The host's local player (desktop/src/DesktopAudioPlayer.cpp): a         *)
(* prefetch thread decodes the file into a ring that the audio device's    *)
(* callback drains, without a lock.  The caller's thread starts segments   *)
(* with playFrom and ends them with stop.                                  *)
(*                                                                         *)
(* A memory copy is not atomic: a slot that is being written holds Junk    *)
(* until the copy is complete, and a copy out of the ring takes what the   *)
(* slots hold when it completes.  Loads and stores of the atomics are      *)
(* steps in program order (they are acquire and release operations).       *)
(***************************************************************************)
EXTENDS Integers, Sequences

CONSTANTS
    TotalFrames,  \* frames of the source
    Capacity,     \* frames of the ring
    Chunk,        \* frames the prefetch thread decodes at most in one go
    Period,       \* frames the device asks for at most
    Prefill,      \* frames decoded before the device starts
    MaxSegments,  \* bound: calls of playFrom
    Junk          \* the content of a slot that is being written

ASSUME RingAssumption ==
    /\ TotalFrames \in Nat
    /\ Capacity \in Nat \ {0}
    /\ Chunk \in Nat \ {0}
    /\ Period \in Nat \ {0}
    /\ Prefill \in 0..Capacity
    /\ MaxSegments \in Nat
    /\ Junk \notin Nat

VARIABLES
    phase,            \* the caller: idle, prefill, running, uninit, join
    segments,         \* calls of playFrom so far
    firstFrame,       \* segmentStartFrame_
    due,              \* the segment's start time has passed
    ring,             \* ring_: slot -> frame
    writtenFrame,     \* writtenFrame_
    readFrame,        \* readFrame_
    decoderFinished,  \* decoderFinished_
    prefetchRunning,  \* prefetchRunning_
    prefetchPc,       \* the prefetch thread
    requested,        \* its local request
    callbackPc,       \* the device callback
    written,          \* its local copy of writtenFrame_
    framesRead,       \* its local framesRead
    endReached,       \* endReached_
    playing,          \* playing_
    heard             \* history: the frames this segment handed to the device

callerVars == <<phase, segments, firstFrame, due>>
prefetchVars == <<prefetchPc, requested>>
callbackVars == <<callbackPc, written, framesRead, endReached, heard>>
vars == <<callerVars, ring, writtenFrame, readFrame, decoderFinished,
          prefetchRunning, prefetchVars, callbackVars, playing>>

Slots == 0..(Capacity - 1)

(* The types; framesRead is never more than what the device asked for. *)
TypeOK ==
    /\ phase \in {"idle", "prefill", "running", "uninit", "join"}
    /\ segments \in 0..MaxSegments
    /\ firstFrame \in 0..TotalFrames
    /\ due \in BOOLEAN
    /\ ring \in [Slots -> Nat \cup {Junk}]
    /\ writtenFrame \in Nat /\ readFrame \in Nat
    /\ decoderFinished \in BOOLEAN /\ prefetchRunning \in BOOLEAN
    /\ prefetchPc \in {"off", "loop", "decode", "finish"}
    /\ requested \in 0..Capacity
    /\ callbackPc \in {"idle", "copy", "check"}
    /\ written \in Nat /\ framesRead \in 0..Period
    /\ endReached \in BOOLEAN /\ playing \in BOOLEAN
    /\ heard \in Seq(Nat \cup {Junk})

Init ==
    /\ phase = "idle" /\ segments = 0 /\ firstFrame = 0 /\ due = FALSE
    /\ ring = [s \in Slots |-> Junk]
    /\ writtenFrame = 0 /\ readFrame = 0
    /\ decoderFinished = FALSE /\ prefetchRunning = FALSE
    /\ prefetchPc = "off" /\ requested = 0
    /\ callbackPc = "idle" /\ written = 0 /\ framesRead = 0
    /\ endReached = FALSE /\ playing = FALSE
    /\ heard = <<>>

Least(a, b) == IF a <= b THEN a ELSE b

-----------------------------------------------------------------------------
(* The caller's thread. *)

(* playFrom: seek, reset the ring, start the prefetch thread.  stop() has  *)
(* ended the earlier segment.                                              *)
PlayFrom(f) ==
    /\ phase = "idle"
    /\ segments < MaxSegments
    /\ segments' = segments + 1
    /\ firstFrame' = f
    /\ due' = FALSE
    /\ writtenFrame' = 0
    /\ readFrame' = 0
    /\ decoderFinished' = FALSE
    /\ prefetchRunning' = TRUE
    /\ prefetchPc' = "loop"
    /\ phase' = "prefill"
    /\ UNCHANGED <<ring, requested, callbackVars, playing>>

(* The device starts once a quarter of a second, or the whole source, is   *)
(* decoded.                                                                *)
StartDevice ==
    /\ phase = "prefill"
    /\ writtenFrame >= Prefill \/ decoderFinished
    /\ phase' = "running"
    /\ endReached' = FALSE
    /\ playing' = TRUE
    /\ heard' = <<>>
    /\ UNCHANGED <<segments, firstFrame, due, ring, writtenFrame, readFrame,
                   decoderFinished, prefetchRunning, prefetchVars, callbackPc,
                   written, framesRead>>

(* The device cannot be opened, or cannot be started once endReached_ is   *)
(* reset: the prefetch thread is ended and joined.                         *)
DeviceFails ==
    /\ phase = "prefill"
    /\ writtenFrame >= Prefill \/ decoderFinished
    /\ phase' = "join"
    /\ prefetchRunning' = FALSE
    /\ endReached' \in {endReached, FALSE}
    /\ UNCHANGED <<segments, firstFrame, due, ring, writtenFrame, readFrame,
                   decoderFinished, prefetchVars, callbackPc, written, framesRead,
                   heard, playing>>

StartTimePasses ==
    /\ phase = "running"
    /\ ~due
    /\ due' = TRUE
    /\ UNCHANGED <<phase, segments, firstFrame, ring, writtenFrame, readFrame,
                   decoderFinished, prefetchRunning, prefetchVars,
                   callbackVars, playing>>

(* stop: playing is cleared, then the device is closed, which waits for a  *)
(* callback in progress ...                                                *)
Stop ==
    /\ phase = "running"
    /\ playing' = FALSE
    /\ phase' = "uninit"
    /\ UNCHANGED <<segments, firstFrame, due, ring, writtenFrame, readFrame,
                   decoderFinished, prefetchRunning, prefetchVars, callbackVars>>

CloseDevice ==
    /\ phase = "uninit"
    /\ callbackPc = "idle"
    /\ prefetchRunning' = FALSE
    /\ phase' = "join"
    /\ UNCHANGED <<segments, firstFrame, due, ring, writtenFrame, readFrame,
                   decoderFinished, prefetchVars, callbackVars, playing>>

(* ... and the prefetch thread is joined. *)
JoinPrefetch ==
    /\ phase = "join"
    /\ prefetchPc = "off"
    /\ phase' = "idle"
    /\ UNCHANGED <<segments, firstFrame, due, ring, writtenFrame, readFrame,
                   decoderFinished, prefetchRunning, prefetchVars,
                   callbackVars, playing>>

-----------------------------------------------------------------------------
(* The prefetch thread. *)

(* Fault: the ring is taken to be empty when it is full. *)
AvailableIgnoringReader == Capacity

Available == Capacity - (writtenFrame - readFrame)

Contiguous == Capacity - (writtenFrame % Capacity)

(* Slots that n frames from position p occupy. *)
SlotsOf(p, n) == {(p + i) % Capacity : i \in 0..(n - 1)}

PrefetchStops ==
    /\ prefetchPc = "loop"
    /\ ~prefetchRunning
    /\ prefetchPc' = "off"
    /\ UNCHANGED <<callerVars, ring, writtenFrame, readFrame, decoderFinished,
                   prefetchRunning, requested, callbackVars, playing>>

(* The free space is computed and the decoder starts to fill it.  With no  *)
(* space the thread sleeps and looks again: no step.                       *)
BeginDecode ==
    /\ prefetchPc = "loop"
    /\ prefetchRunning
    /\ Available > 0
    /\ requested' = Least(Least(Available, Contiguous), Chunk)
    /\ ring' = [s \in Slots |-> IF s \in SlotsOf(writtenFrame, requested')
                                THEN Junk ELSE ring[s]]
    /\ prefetchPc' = "decode"
    /\ UNCHANGED <<callerVars, writtenFrame, readFrame, decoderFinished,
                   prefetchRunning, callbackVars, playing>>

(* The decoder returns n frames: fewer than requested at the end of the    *)
(* source or on an error, which may also come with the last frame.         *)
EndDecode(n) ==
    /\ prefetchPc = "decode"
    /\ n <= requested
    /\ n <= TotalFrames - (firstFrame + writtenFrame)
    /\ ring' = [s \in Slots |->
                  IF \E i \in 0..(n - 1) : s = (writtenFrame + i) % Capacity
                  THEN firstFrame + writtenFrame
                         + (CHOOSE i \in 0..(n - 1) : s = (writtenFrame + i) % Capacity)
                  ELSE ring[s]]
    /\ writtenFrame' = writtenFrame + n
    /\ requested' = 0
    /\ prefetchPc' \in IF n < requested THEN {"finish"} ELSE {"loop", "finish"}
    /\ UNCHANGED <<callerVars, readFrame, decoderFinished, prefetchRunning,
                   callbackVars, playing>>

(* Fault: the thread ends without telling the callback. *)
FinishDecodingSilently ==
    /\ prefetchPc = "finish"
    /\ prefetchPc' = "off"
    /\ UNCHANGED <<callerVars, ring, writtenFrame, readFrame, decoderFinished,
                   prefetchRunning, requested, callbackVars, playing>>

FinishDecoding ==
    /\ prefetchPc = "finish"
    /\ decoderFinished' = TRUE
    /\ prefetchPc' = "off"
    /\ UNCHANGED <<callerVars, ring, writtenFrame, readFrame, prefetchRunning,
                   requested, callbackVars, playing>>

-----------------------------------------------------------------------------
(* The device callback. *)

(* Fault: more is copied than the device asked for. *)
CopyableBeyondRequest(n) == writtenFrame - readFrame

Copyable(n) == Least(n, writtenFrame - readFrame)

(* Before the start time it leaves silence: no step.  After the end has    *)
(* been reached it clears playing; else it loads writtenFrame_ and starts  *)
(* to copy.                                                                *)
CallbackAtEnd ==
    /\ phase \in {"running", "uninit"}
    /\ callbackPc = "idle"
    /\ due
    /\ endReached
    /\ playing' = FALSE
    /\ UNCHANGED <<callerVars, ring, writtenFrame, readFrame, decoderFinished,
                   prefetchRunning, prefetchVars, callbackVars>>

CallbackLoads(n) ==
    /\ phase \in {"running", "uninit"}
    /\ callbackPc = "idle"
    /\ due
    /\ ~endReached
    /\ written' = writtenFrame
    /\ framesRead' = Copyable(n)
    /\ callbackPc' = "copy"
    /\ UNCHANGED <<callerVars, ring, writtenFrame, readFrame, decoderFinished,
                   prefetchRunning, prefetchVars, endReached, playing, heard>>

(* The copy, in two pieces when it wraps, then readFrame_ is advanced. *)
CallbackCopies ==
    /\ callbackPc = "copy"
    /\ heard' = heard \o [i \in 1..framesRead |-> ring[(readFrame + i - 1) % Capacity]]
    /\ readFrame' = readFrame + framesRead
    /\ callbackPc' = "check"
    /\ UNCHANGED <<callerVars, ring, writtenFrame, decoderFinished,
                   prefetchRunning, prefetchVars, written, framesRead,
                   endReached, playing>>

(* decoderFinished_ is loaded here, writtenFrame_ was loaded before the    *)
(* copy.                                                                   *)
Drained == decoderFinished /\ readFrame = written

CallbackChecksEnd ==
    /\ callbackPc = "check"
    /\ endReached' = (endReached \/ Drained)
    /\ callbackPc' = "idle"
    /\ written' = 0
    /\ framesRead' = 0
    /\ UNCHANGED <<callerVars, ring, writtenFrame, readFrame, decoderFinished,
                   prefetchRunning, prefetchVars, playing, heard>>

-----------------------------------------------------------------------------
PrefetchStep ==
    \/ PrefetchStops
    \/ BeginDecode
    \/ \E n \in 0..Chunk : EndDecode(n)
    \/ FinishDecoding

CallbackStep ==
    \/ CallbackAtEnd
    \/ \E n \in 1..Period : CallbackLoads(n)
    \/ CallbackCopies
    \/ CallbackChecksEnd

CallerStep ==
    \/ \E f \in 0..TotalFrames : PlayFrom(f)
    \/ StartDevice \/ DeviceFails \/ StartTimePasses
    \/ Stop \/ CloseDevice \/ JoinPrefetch

Next == PrefetchStep \/ CallbackStep \/ CallerStep

Spec == Init /\ [][Next]_vars

(* Threads run, the device calls back, and the start time comes.  Nothing  *)
(* makes the caller stop a segment.                                        *)
FairSpec ==
    /\ Spec
    /\ WF_vars(PrefetchStep)
    /\ WF_vars(CallbackStep)
    /\ WF_vars(StartDevice)
    /\ WF_vars(StartTimePasses)
    /\ WF_vars(CloseDevice)
    /\ WF_vars(JoinPrefetch)

-----------------------------------------------------------------------------
(* Properties. *)

(* What the device hears is the source from the segment's first frame on,  *)
(* in order, without a gap, a repetition or a slot that was being written: *)
(* the two threads never meet in the ring, also after a restart.           *)
HeardInOrder ==
    phase \in {"running", "uninit"} =>
        \A i \in 1..Len(heard) : heard[i] = firstFrame + i - 1

(* The player falls silent by itself: a segment that is not stopped comes  *)
(* to its end, and a stopped one is joined.                                *)
SegmentEnds ==
    /\ (phase = "running") ~> ~playing
    /\ (phase = "uninit") ~> (phase = "idle")

(* DesktopAudioPlayer.cpp:317 says of the end: "One silent callback allows *)
(* the final decoded buffer to drain to the device".  The end is reached   *)
(* only when all that was decoded has been handed over.                    *)
EndAfterLastFrame == endReached /\ phase = "running" => readFrame = writtenFrame
=============================================================================
