-------------------------- MODULE PlaybackTimeline --------------------------
(***************************************************************************)
(* PlaybackClock (core/src/PlaybackClock.cpp): frames of a stream as       *)
(* instants of the monotonic clock, and back.                              *)
(***************************************************************************)
EXTENDS Integers

CONSTANTS
    NanosecondsPerSecond,   \* ticks of the monotonic clock in a second
    SampleRate              \* frames in a second

ASSUME TimelineAssumption ==
    /\ NanosecondsPerSecond \in Nat \ {0}
    /\ SampleRate \in 1 .. NanosecondsPerSecond

(* The boundary of a frame, rounded up to a tick.                          *)
FrameToDurationDown(frame) == (frame * NanosecondsPerSecond) \div SampleRate
FrameToDuration(frame) ==
    (frame \div SampleRate) * NanosecondsPerSecond
        + ((frame % SampleRate) * NanosecondsPerSecond + SampleRate - 1) \div SampleRate

FrameToTimestamp(startTime, frame) == startTime + FrameToDuration(frame)

(* The frame that is being played at an instant.                           *)
TimestampToFrame(startTime, timestamp) ==
    LET nanoseconds == timestamp - startTime
    IN  IF nanoseconds <= 0
        THEN 0
        ELSE (nanoseconds \div NanosecondsPerSecond) * SampleRate
               + ((nanoseconds % NanosecondsPerSecond) * SampleRate) \div NanosecondsPerSecond
=============================================================================
