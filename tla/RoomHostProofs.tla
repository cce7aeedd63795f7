--------------------------- MODULE RoomHostProofs ---------------------------
(***************************************************************************)
(* The room host keeps its promises for any number of control connections, *)
(* any source, packet size, latency and stream identifiers.  CutoffRespected *)
(* looks at one moment, after the command was taken.  The argument starts  *)
(* where the command is scheduled: up to the time a handler was held up,   *)
(* its effective time lies behind every time the host still works towards, *)
(* and no packet is prepared further ahead of the clock than the           *)
(* send-ahead and one packet.                                              *)
(***************************************************************************)
EXTENDS RoomHost, PlaybackTimelineProofs, TLAPS

(* The thread is where the command it carries says it is. *)
CommandCarried ==
    /\ hostPc = "take" => pendingAction # None
    /\ hostPc \in {"cut", "apply", "resume", "seekWait", "stopWait"} => command # None
    /\ hostPc \notin {"cut", "apply", "resume", "seekWait", "stopWait", "finish"} => command = None
    /\ hostPc = "resume" => command.action = "Play"
    /\ hostPc = "seekWait" => command.action = "Seek"
    /\ hostPc = "stopWait" => command.action = "Stop"
    /\ hostPc = "finish" =>
         \/ command = None /\ playbackState = "Playing"
         \/ command # None /\ command.action = "Stop"

(* What is announced follows the thread. *)
Announced ==
    /\ hostPc \in {"announce", "begin", "stream", "send"} => welcomeStreamId = streamId
    /\ hostPc \in {"begin", "stream", "send", "drain"} => playbackState = "Playing"
    /\ hostPc \in {"stream", "send"} => playing = TRUE

(* A handler that has read the clock schedules before HandlerStall is over. *)
ReadingsFresh ==
    \A h \in Handlers :
        effective[h] # None =>
            /\ request[h] # None
            /\ effective[h] <= now + CommandDelay
            /\ now <= effective[h] - CommandDelay + HandlerStall

(* A command takes effect after everything that was decided before it, up  *)
(* to the stall of its handler.                                            *)
DeadlinesOrdered ==
    /\ segmentStart <= now + CommandDelay
    /\ command # None => command.effective <= now + CommandDelay
    /\ pendingAction # None =>
         /\ pendingAction.effective <= now + CommandDelay
         /\ segmentStart <= pendingAction.effective + HandlerStall
         /\ command # None => command.effective <= pendingAction.effective + HandlerStall

(* The two clocks of a segment are set from the same start and the same    *)
(* frame, and the packets follow theirs.                                   *)
ClocksInStep ==
    /\ hostPc \in {"announce", "begin"} =>
         playerStart = segmentStart - FrameToDuration(frame)
    /\ hostPc \in {"stream", "send"} =>
         /\ playerStart = segmentStart - FrameToDuration(initialFrame)
         /\ initialFrame <= frame
         /\ presentation = PresentationAt(frame)

(* All but the first packet of a segment are prepared when the one before  *)
(* was sent, and that one was not sent early.                              *)
SentAhead ==
    hostPc \in {"stream", "send"} =>
        \/ sequenceNumber = 0 /\ presentation = segmentStart + HostLatency
        \/ sequenceNumber >= 1 /\ presentation <= now + SendAhead + FrameToDuration(FramesPerPacket)

(* The segment has not outrun the cutoff of the pending command. *)
NotPastCutoff ==
    (hostPc \in {"stream", "take"} /\ pendingAction # None) =>
        \/ presentation < Cutoff(pendingAction) + FrameToDuration(1)
        \/ /\ sequenceNumber <= 1
           /\ presentation <= pendingAction.effective + HostLatency
                                + FrameToDuration(FramesPerPacket) + HandlerStall

(* Nor will it with the packet that waits. *)
WaitingPacketFits ==
    (hostPc = "send" /\ pendingAction # None) =>
        \/ presentation + FrameToDuration(packetFrames)
              < Cutoff(pendingAction) + FrameToDuration(1)
        \/ /\ sequenceNumber = 0
           /\ presentation <= pendingAction.effective + HostLatency + HandlerStall

HostInv ==
    /\ TypeOK
    /\ CommandCarried
    /\ Announced
    /\ ReadingsFresh
    /\ ClocksInStep
    /\ DeadlinesOrdered
    /\ SentAhead
    /\ NotPastCutoff
    /\ WaitingPacketFits
    /\ CutoffRespected

-----------------------------------------------------------------------------
(* The type invariant.  That the thread carries a command where it reads   *)
(* one is needed for the fields it reads.                                  *)

(* The host starts well typed. *)
LEMMA TypeInit == Init => TypeOK
<1> SUFFICES ASSUME Init PROVE TypeOK
  OBVIOUS
<1> USE HostAssumption
<1>1. /\ playing \in BOOLEAN
      /\ request \in [Handlers -> Request \cup {None}]
      /\ effective \in [Handlers -> Int \cup {None}]
  BY Zenon DEF Init
<1> QED
  BY <1>1 DEF Init, TypeOK, StreamIds

(* What is left of the segment, in whole frames, when it is not much.      *)
LEMMA FramesUntilCutoff ==
    ASSUME TypeOK, pendingAction # None, EndsWithin(FramesPerPacket), ~EndsWithin(1)
    PROVE  LET left == Cutoff(pendingAction) - presentation
               n == (left * SampleRate) \div NanosecondsPerSecond
           IN  /\ n \in 1 .. FramesPerPacket
               /\ left \in Int
               /\ n * NanosecondsPerSecond <= left * SampleRate
<1> DEFINE N == NanosecondsPerSecond
           R == SampleRate
           left == Cutoff(pendingAction) - presentation
           y == left * R
           n == y \div N
<1>1. N \in Nat \ {0} /\ R \in Nat \ {0} /\ FramesPerPacket \in Nat
  BY TimelineAssumption, HostAssumption
<1>2. left \in Int
  BY HostAssumption DEF TypeOK, ScheduledRoomAction, Cutoff
<1>3. N <= y /\ y < FramesPerPacket * N
  BY <1>1, <1>2 DEF EndsWithin
<1> HIDE DEF left
<1>4. y \in Int
  BY <1>1, <1>2
<1> HIDE DEF y
<1>5. n \in Int /\ (y % N) \in 0 .. N - 1 /\ y = N * n + (y % N)
  BY <1>1, <1>4, Euclid
<1> HIDE DEF n
<1>6. N * n <= y
  BY <1>1, <1>5
<1>7. n >= 1
  <2>1. SUFFICES ASSUME n <= 0 PROVE FALSE
    BY <1>5
  <2>2. N * n <= 0
    BY <2>1, <1>1, <1>5
  <2> QED
    BY <2>2, <1>1, <1>3, <1>5
<1>8. n <= FramesPerPacket
  <2>1. SUFFICES ASSUME n >= FramesPerPacket PROVE n <= FramesPerPacket
    BY <1>1, <1>5
  <2>2. N * n >= N * FramesPerPacket
    BY <2>1, <1>1, <1>5
  <2> QED
    BY <2>2, <1>1, <1>3, <1>4, <1>5, <1>6
<1>9. n * N <= y
  BY <1>1, <1>5, <1>6
<1> QED
  BY <1>2, <1>5, <1>7, <1>8, <1>9 DEF n, y, left

(* At least one frame and at most a full packet is requested. *)
LEMMA RequestedFramesType ==
    ASSUME TypeOK
    PROVE  RequestedFrames \in 1..FramesPerPacket
<1>1. CASE pendingAction = None \/ ~EndsWithin(FramesPerPacket) \/ EndsWithin(1)
  BY <1>1, HostAssumption DEF RequestedFrames
<1>2. CASE pendingAction # None /\ EndsWithin(FramesPerPacket) /\ ~EndsWithin(1)
  BY <1>2, FramesUntilCutoff DEF RequestedFrames
<1> QED
  BY <1>1, <1>2

(* A packet has between none and FramesPerPacket frames (decoder.read). *)
LEMMA ReadFramesType ==
    ASSUME TypeOK
    PROVE  ReadFrames \in 0..FramesPerPacket
<1>1. FramesLeft \in Nat
  BY HostAssumption DEF TypeOK, FramesLeft
<1> QED
  BY <1>1, RequestedFramesType, HostAssumption DEF ReadFrames

(* The presentation moves on by the packet's frames, rounded.              *)
LEMMA NextPresentation ==
    ASSUME TypeOK, ClocksInStep, hostPc = "send"
    PROVE  /\ PresentationAt(frame + packetFrames) \in Int
           /\ PresentationAt(frame + packetFrames)
                <= presentation + FrameToDuration(packetFrames)
           /\ FrameToDuration(packetFrames) \in Nat
           /\ FrameToDuration(packetFrames) <= FrameToDuration(FramesPerPacket)
<1> DEFINE sent == frame - initialFrame
<1>1. sent \in Nat /\ packetFrames \in Nat /\ packetFrames <= FramesPerPacket
  BY HostAssumption DEF TypeOK, ClocksInStep
<1>2. (frame + packetFrames) - initialFrame = sent + packetFrames
  BY <1>1 DEF TypeOK
<1>3. presentation = segmentStart + HostLatency + FrameToDuration(sent)
  BY DEF ClocksInStep, PresentationAt, FrameToTimestamp
<1> HIDE DEF sent
<1>4. PresentationAt(frame + packetFrames)
        = segmentStart + HostLatency + FrameToDuration(sent + packetFrames)
  <2>1. PresentationAt(frame + packetFrames)
          = segmentStart + HostLatency + FrameToDuration((frame + packetFrames) - initialFrame)
    BY Zenon DEF PresentationAt, FrameToTimestamp
  <2>2. FrameToDuration((frame + packetFrames) - initialFrame)
          = FrameToDuration(sent + packetFrames)
    BY <1>2, Zenon
  <2> QED
    BY <2>1, <2>2, Zenon
<1>5. /\ FrameToDuration(sent) \in Nat
      /\ FrameToDuration(packetFrames) \in Nat
      /\ FrameToDuration(sent + packetFrames) \in Nat
      /\ FrameToDuration(sent + packetFrames)
           <= FrameToDuration(sent) + FrameToDuration(packetFrames)
  <2>1. sent + packetFrames \in Nat
    BY <1>1
  <2>2. FrameToDuration(sent + packetFrames) \in Nat
    BY <2>1, DurationBounds
  <2>3. FrameToDuration(sent) \in Nat /\ FrameToDuration(packetFrames) \in Nat
    BY <1>1, DurationBounds
  <2>4. FrameToDuration(sent + packetFrames)
          <= FrameToDuration(sent) + FrameToDuration(packetFrames)
    BY <1>1, DurationSum
  <2> QED
    BY <2>2, <2>3, <2>4
<1>6. FrameToDuration(packetFrames) <= FrameToDuration(FramesPerPacket)
  BY <1>1, DurationGrows, HostAssumption
<1>7. segmentStart \in Int /\ HostLatency \in Int
  BY HostAssumption DEF TypeOK
<1> QED
  BY <1>3, <1>4, <1>5, <1>6, <1>7

(* Every step of the handlers and of the host keeps the types. *)
LEMMA TypeStep ==
    TypeOK /\ CommandCarried /\ ReadingsFresh /\ ClocksInStep /\ [Next]_vars => TypeOK'
<1> SUFFICES ASSUME TypeOK, CommandCarried, ReadingsFresh, ClocksInStep, [Next]_vars
             PROVE  TypeOK'
  OBVIOUS
<1> USE HostAssumption DEF TypeOK, roomVars, handlerVars, controlVars, hostVars, streamVars
<1>1. ASSUME NEW h \in Handlers, NEW a \in ActionNames, NEW f \in SeekFrames, CheckRequest(h, a, f)
      PROVE  TypeOK'
  <2>1. NextStream(streamId) \in StreamIds
    BY DEF NextStream, StreamIds
  <2>2. [action |-> a, seekFrame |-> IF a = "Seek" THEN f ELSE 0,
         nextStreamId |-> IF a = "Seek" THEN NextStream(streamId) ELSE streamId] \in Request
    BY <2>1 DEF Request
  <2>3. request' \in [Handlers -> Request \cup {None}]
    BY <1>1, <2>2 DEF CheckRequest
  <2> QED
    BY <1>1, <2>3 DEF CheckRequest
<1>2. ASSUME NEW h \in Handlers, ScheduleRequest(h) PROVE TypeOK'
  <2>1. request[h] \in Request /\ effective[h] \in Int
    BY <1>2 DEF ScheduleRequest, ReadingsFresh
  <2>2. [action |-> request[h].action, effective |-> effective[h],
         seekFrame |-> request[h].seekFrame,
         nextStreamId |-> request[h].nextStreamId] \in ScheduledRoomAction
    BY <2>1 DEF Request, ScheduledRoomAction
  <2> QED
    BY <1>2, <2>2 DEF ScheduleRequest, ScheduleAction
<1>3. CASE OpenSegment
  <2>1. PlayerClock(frame, segmentStart) \in Int
    BY DurationBounds DEF PlayerClock
  <2> QED
    BY <1>3, <2>1 DEF OpenSegment
<1>4. CASE AnnouncePlaying
  BY <1>4 DEF AnnouncePlaying, SetPlaybackState
<1>5. CASE BeginStream
  BY <1>5 DEF BeginStream
<1>6. CASE PreparePacket
  BY <1>6, ReadFramesType DEF PreparePacket
<1>7. CASE SendPacket
  <2>1. hostPc = "send" /\ frame' = frame + packetFrames /\ presentation' = PresentationAt(frame')
    BY <1>7 DEF SendPacket
  <2>2. presentation' \in Int
    BY <2>1, NextPresentation
  <2> QED
    BY <1>7, <2>2 DEF SendPacket, SendTimeReached
<1>8. CASE DrainPlayer
  BY <1>8 DEF DrainPlayer
<1>9. CASE TakeCommand
  BY <1>9 DEF TakeCommand, TakeAction
<1>10. CASE CutPlayer
  BY <1>10 DEF CutPlayer
<1>11. CASE ApplyStop
  BY <1>11 DEF ApplyStop
<1>12. CASE ApplySeek
  BY <1>12 DEF ApplySeek, SetStreamId, ScheduledRoomAction, CommandCarried
<1>13. CASE ApplyPause
  BY <1>13 DEF ApplyPause, SetPlaybackState
<1>14. CASE ApplyPlay
  BY <1>14 DEF ApplyPlay
<1>15. CASE TakeWhilePaused
  BY <1>15 DEF TakeWhilePaused, TakeAction, PausedBranches
<1>16. CASE Resume
  BY <1>16 DEF Resume, ScheduledRoomAction, CommandCarried
<1>17. CASE SeekWhilePaused
  BY <1>17 DEF SeekWhilePaused, SetStreamId, ScheduledRoomAction, CommandCarried
<1>18. CASE StopWhilePaused
  BY <1>18 DEF StopWhilePaused
<1>19. CASE FinishRoom
  BY <1>19 DEF FinishRoom, SetPlaybackState
<1>20. CASE QuitHost
  BY <1>20 DEF QuitHost
<1>21. CASE RouteChanged
  BY <1>21 DEF RouteChanged
<1>22. CASE Tick
  BY <1>22 DEF Tick
<1>23. CASE UNCHANGED vars
  BY <1>23 DEF vars
<1>24. ASSUME NEW h \in Handlers, ReadClock(h) PROVE TypeOK'
  BY <1>24 DEF ReadClock
<1> QED
  BY <1>1, <1>2, <1>3, <1>4, <1>5, <1>6, <1>7, <1>8, <1>9, <1>10, <1>11, <1>12, <1>13,
     <1>14, <1>15, <1>16, <1>17, <1>18, <1>19, <1>20, <1>21, <1>22, <1>23, <1>24
     DEF Next, HostStep

-----------------------------------------------------------------------------
(* Where the thread is, what it carries and what the room announces go     *)
(* together: only the host's thread changes any of it, except that a       *)
(* handler may fill an empty slot.                                         *)
LEMMA ControlStep ==
    TypeOK /\ CommandCarried /\ Announced /\ [Next]_vars => CommandCarried' /\ Announced'
<1> SUFFICES ASSUME TypeOK, CommandCarried, Announced, [Next]_vars
             PROVE  CommandCarried' /\ Announced'
  OBVIOUS
<1> USE NoneAssumption
    DEF CommandCarried, Announced, roomVars, handlerVars, controlVars, hostVars, streamVars
<1>1. ASSUME NEW h \in Handlers, NEW a \in ActionNames, NEW f \in SeekFrames, CheckRequest(h, a, f)
      PROVE  CommandCarried' /\ Announced'
  BY <1>1 DEF CheckRequest
<1>2. ASSUME NEW h \in Handlers, ScheduleRequest(h) PROVE CommandCarried' /\ Announced'
  BY <1>2 DEF ScheduleRequest, ScheduleAction
<1>3. CASE OpenSegment
  BY <1>3 DEF OpenSegment
<1>4. CASE AnnouncePlaying
  BY <1>4 DEF AnnouncePlaying, SetPlaybackState
<1>5. CASE BeginStream
  BY <1>5 DEF BeginStream
<1>6. CASE PreparePacket
  BY <1>6 DEF PreparePacket, ReachedCutoff
<1>7. CASE SendPacket
  BY <1>7 DEF SendPacket
<1>8. CASE DrainPlayer
  BY <1>8 DEF DrainPlayer
<1>9. CASE TakeCommand
  BY <1>9 DEF TakeCommand, TakeAction
<1>10. CASE CutPlayer
  BY <1>10 DEF CutPlayer
<1>11. CASE ApplyStop
  BY <1>11 DEF ApplyStop
<1>12. CASE ApplySeek
  BY <1>12 DEF ApplySeek, SetStreamId
<1>13. CASE ApplyPause
  BY <1>13 DEF ApplyPause, SetPlaybackState
<1>14. CASE ApplyPlay
  BY <1>14 DEF ApplyPlay
<1>15. CASE TakeWhilePaused
  BY <1>15 DEF TakeWhilePaused, TakeAction, PausedBranches
<1>16. CASE Resume
  BY <1>16 DEF Resume
<1>17. CASE SeekWhilePaused
  BY <1>17 DEF SeekWhilePaused, SetStreamId
<1>18. CASE StopWhilePaused
  BY <1>18 DEF StopWhilePaused
<1>19. CASE FinishRoom
  BY <1>19 DEF FinishRoom, SetPlaybackState
<1>20. CASE QuitHost
  BY <1>20 DEF QuitHost
<1>21. CASE RouteChanged
  BY <1>21 DEF RouteChanged
<1>22. CASE Tick
  BY <1>22 DEF Tick
<1>23. CASE UNCHANGED vars
  BY <1>23 DEF vars
<1>24. ASSUME NEW h \in Handlers, ReadClock(h) PROVE CommandCarried' /\ Announced'
  BY <1>24 DEF ReadClock
<1> QED
  BY <1>1, <1>2, <1>3, <1>4, <1>5, <1>6, <1>7, <1>8, <1>9, <1>10, <1>11, <1>12, <1>13,
     <1>14, <1>15, <1>16, <1>17, <1>18, <1>19, <1>20, <1>21, <1>22, <1>23, <1>24
     DEF Next, HostStep

-----------------------------------------------------------------------------
(* The times.  Effective times are accepted CommandDelay ahead of a clock  *)
(* that only goes forward, and DelayAssumption leaves room for the packets *)
(* that are already under way.                                             *)

Timed ==
    /\ DeadlinesOrdered
    /\ SentAhead
    /\ NotPastCutoff
    /\ WaitingPacketFits
    /\ CutoffRespected

(* The cutoff of a command is its effective time, or earlier by no more    *)
(* than the send-ahead.                                                    *)
LEMMA CutoffType ==
    ASSUME NEW a \in ScheduledRoomAction
    PROVE  /\ Cutoff(a) \in Int
           /\ a.effective \in Int
           /\ Cutoff(a) <= a.effective
           /\ Cutoff(a) >= a.effective - SendAhead
  BY HostAssumption DEF ScheduledRoomAction, Cutoff

(* A packet prepared before the cutoff ends less than a frame past it.     *)
LEMMA ReadFramesFits ==
    ASSUME TypeOK, pendingAction # None, ~ReachedCutoff
    PROVE  presentation + FrameToDuration(ReadFrames)
             < Cutoff(pendingAction) + FrameToDuration(1)
<1> DEFINE left == Cutoff(pendingAction) - presentation
<1>1. left \in Nat \ {0} /\ presentation \in Int /\ Cutoff(pendingAction) \in Int
  BY CutoffType DEF TypeOK, ReachedCutoff
<1>2. FrameToDuration(1) \in Nat \ {0}
  BY DurationOfOne
<1>3. RequestedFrames \in Nat /\ ReadFrames \in Nat /\ ReadFrames <= RequestedFrames
  <2>1. RequestedFrames \in Nat /\ FramesLeft \in Nat
    BY RequestedFramesType, HostAssumption DEF TypeOK, FramesLeft
  <2> QED
    BY <2>1 DEF ReadFrames
<1>4. /\ FrameToDuration(ReadFrames) \in Nat
      /\ FrameToDuration(RequestedFrames) \in Nat
      /\ FrameToDuration(ReadFrames) <= FrameToDuration(RequestedFrames)
  BY <1>3, DurationBounds, DurationGrows
<1>5. FrameToDuration(RequestedFrames) <= left \/ RequestedFrames = 1
  <2>1. CASE ~EndsWithin(FramesPerPacket)
    <3>1. FramesPerPacket * NanosecondsPerSecond <= left * SampleRate
      BY <2>1, <1>1, HostAssumption, TimelineAssumption DEF EndsWithin
    <3> QED
      BY <2>1, <3>1, <1>1, DurationFits, HostAssumption DEF RequestedFrames
  <2>2. CASE EndsWithin(FramesPerPacket) /\ ~EndsWithin(1)
    BY <2>2, <1>1, FramesUntilCutoff, DurationFits, HostAssumption DEF RequestedFrames
  <2>3. CASE EndsWithin(FramesPerPacket) /\ EndsWithin(1)
    BY <2>3 DEF RequestedFrames
  <2> QED
    BY <2>1, <2>2, <2>3
<1>6. FrameToDuration(RequestedFrames) < left + FrameToDuration(1)
  BY <1>1, <1>2, <1>4, <1>5
<1> QED
  BY <1>1, <1>2, <1>4, <1>6

(* The clocks of a segment stay in step: they are set when it begins, and  *)
(* only sending a packet moves its frame and its presentation.             *)
LEMMA ClocksStep == TypeOK /\ ClocksInStep /\ [Next]_vars => ClocksInStep'
<1> SUFFICES ASSUME TypeOK, ClocksInStep, [Next]_vars PROVE ClocksInStep'
  OBVIOUS
<1> USE HostAssumption
<1>1. CASE OpenSegment
  BY <1>1 DEF OpenSegment, ClocksInStep, PlayerClock
<1>2. CASE AnnouncePlaying
  BY <1>2 DEF AnnouncePlaying, ClocksInStep, streamVars
<1>3. CASE BeginStream
  <2>1. /\ hostPc = "begin" /\ hostPc' = "stream"
        /\ initialFrame' = frame /\ frame' = frame
        /\ presentation' = segmentStart + HostLatency
        /\ UNCHANGED <<playerStart, segmentStart>>
    BY <1>3 DEF BeginStream
  <2>2. PresentationAt(frame)' = segmentStart + HostLatency + FrameToDuration(frame - frame)
    BY <2>1 DEF PresentationAt, FrameToTimestamp
  <2>3. PresentationAt(frame)' = segmentStart + HostLatency
    BY <2>2, DurationOfNone DEF TypeOK
  <2> QED
    BY <2>1, <2>3 DEF TypeOK, ClocksInStep
<1>4. CASE PreparePacket
  BY <1>4 DEF PreparePacket, ClocksInStep, PresentationAt
<1>5. CASE SendPacket
  <2>1. /\ hostPc = "send" /\ hostPc' = "stream"
        /\ frame' = frame + packetFrames
        /\ presentation' = PresentationAt(frame')
        /\ UNCHANGED <<playerStart, segmentStart, initialFrame>>
    BY <1>5 DEF SendPacket
  <2>2. initialFrame' <= frame'
    BY <2>1 DEF TypeOK, ClocksInStep
  <2>3. presentation' = PresentationAt(frame)'
    BY <2>1 DEF PresentationAt
  <2> QED
    BY <2>1, <2>2, <2>3 DEF ClocksInStep
<1>6. CASE UNCHANGED <<hostPc, frame, segmentStart, streamVars>>
  BY <1>6 DEF ClocksInStep, PresentationAt, streamVars
<1>7. ASSUME NEW h \in Handlers, NEW a \in ActionNames, NEW f \in SeekFrames, CheckRequest(h, a, f)
      PROVE  UNCHANGED <<hostPc, frame, segmentStart, streamVars>>
  BY <1>7 DEF CheckRequest, hostVars
<1>8. ASSUME NEW h \in Handlers, ReadClock(h) \/ ScheduleRequest(h)
      PROVE  UNCHANGED <<hostPc, frame, segmentStart, streamVars>>
  BY <1>8 DEF ReadClock, ScheduleRequest, hostVars
<1>9. CASE Tick \/ UNCHANGED vars
  BY <1>6, <1>9 DEF Tick, vars, hostVars
<1>10. CASE DrainPlayer \/ TakeCommand \/ CutPlayer \/ ApplyStop \/ ApplyPause \/ ApplyPlay
            \/ StopWhilePaused \/ FinishRoom \/ QuitHost \/ RouteChanged
  <2>1. hostPc' \notin {"announce", "begin", "stream", "send"}
    BY <1>10 DEF DrainPlayer, TakeCommand, CutPlayer, ApplyStop, ApplyPause, ApplyPlay,
       StopWhilePaused, FinishRoom, QuitHost, RouteChanged
  <2> QED
    BY <2>1 DEF ClocksInStep
<1>11. CASE ApplySeek \/ TakeWhilePaused \/ Resume \/ SeekWhilePaused
  <2>1. hostPc' \notin {"announce", "begin", "stream", "send"}
    BY <1>11 DEF ApplySeek, TakeWhilePaused, PausedBranches, Resume, SeekWhilePaused
  <2> QED
    BY <2>1 DEF ClocksInStep
<1> QED
  BY <1>1, <1>2, <1>3, <1>4, <1>5, <1>6, <1>7, <1>8, <1>9, <1>10, <1>11 DEF Next, HostStep

(* Every step keeps the times in order: the steps that matter schedule a   *)
(* command, prepare a packet, send it or take the command.                 *)
LEMMA TimedStep == HostInv /\ [Next]_vars => Timed'
<1> SUFFICES ASSUME HostInv, [Next]_vars PROVE Timed'
  OBVIOUS
<1> USE HostAssumption, NoneAssumption DEF HostInv, Timed
<1>t. FrameToDuration(1) \in Nat \ {0} /\ FrameToDuration(FramesPerPacket) \in Nat
  BY DurationOfOne, DurationBounds
<1>1. ASSUME NEW h \in Handlers, ScheduleRequest(h) PROVE Timed'
  <2>1. UNCHANGED <<now, hostPc, frame, segmentStart, command, presentation,
                    sequenceNumber, packetFrames>>
    BY <1>1 DEF ScheduleRequest, hostVars, streamVars
  <2>2. CASE pendingAction # None
    <3>1. pendingAction' = pendingAction
      BY <1>1, <2>2 DEF ScheduleRequest, ScheduleAction
    <3> QED
      BY <2>1, <3>1 DEF DeadlinesOrdered, SentAhead, NotPastCutoff, WaitingPacketFits,
         CutoffRespected, Cutoff
  <2>3. CASE pendingAction = None
    <3>1. /\ pendingAction' \in ScheduledRoomAction
          /\ pendingAction'.effective \in Int
          /\ pendingAction'.effective <= now + CommandDelay
          /\ now + CommandDelay <= pendingAction'.effective + HandlerStall
      <4>1. request[h] \in Request /\ effective[h] \in Int
        BY <1>1 DEF TypeOK, ScheduleRequest, ReadingsFresh
      <4>2. /\ effective[h] <= now + CommandDelay
            /\ now + CommandDelay <= effective[h] + HandlerStall
        BY <1>1, <4>1 DEF TypeOK, ScheduleRequest, ReadingsFresh
      <4>3. pendingAction' = [action |-> request[h].action, effective |-> effective[h],
                              seekFrame |-> request[h].seekFrame,
                              nextStreamId |-> request[h].nextStreamId]
        BY <1>1, <2>3 DEF ScheduleRequest, ScheduleAction
      <4> QED
        BY <4>1, <4>2, <4>3
           DEF Request, ScheduledRoomAction
    <3>2. /\ Cutoff(pendingAction)' \in Int
          /\ Cutoff(pendingAction)' >= now + CommandDelay - SendAhead - HandlerStall
      BY <3>1 DEF TypeOK, ScheduledRoomAction, Cutoff
    <3>3. DeadlinesOrdered'
      <4>1. command # None => command.effective \in Int
        BY CutoffType DEF TypeOK
      <4> QED
        BY <2>1, <3>1, <4>1 DEF TypeOK, DeadlinesOrdered
    <3>6. SentAhead' /\ CutoffRespected'
      BY <2>1 DEF SentAhead, CutoffRespected, Cutoff
    <3>4. NotPastCutoff'
      <4>1. hostPc # "take"
        BY <2>3 DEF CommandCarried
      <4>2. CASE hostPc = "stream" /\ sequenceNumber = 0
        BY <2>1, <3>1, <4>1, <4>2, <1>t DEF TypeOK, DeadlinesOrdered, SentAhead, NotPastCutoff
      <4>3. CASE hostPc = "stream" /\ sequenceNumber # 0
        <5>1. presentation \in Int /\ presentation <= now + SendAhead + FrameToDuration(FramesPerPacket)
          BY <4>3 DEF TypeOK, SentAhead
        <5>2. presentation < Cutoff(pendingAction)' + FrameToDuration(1)
          BY <5>1, <3>2, <1>t, DelayAssumption DEF TypeOK
        <5> QED
          BY <2>1, <5>2 DEF NotPastCutoff
      <4> QED
        BY <2>1, <4>1, <4>2, <4>3 DEF NotPastCutoff
    <3>5. WaitingPacketFits'
      <4>1. CASE hostPc = "send"
        BY <2>1, <3>1, <3>2, <4>1, <1>t, NextPresentation, DelayAssumption
           DEF TypeOK, DeadlinesOrdered, SentAhead, WaitingPacketFits
      <4> QED
        BY <2>1, <4>1 DEF WaitingPacketFits
    <3> QED
      BY <3>3, <3>4, <3>5, <3>6
  <2> QED
    BY <2>2, <2>3
<1>2. CASE PreparePacket
  <2>1. UNCHANGED <<now, pendingAction, segmentStart, command, presentation, sequenceNumber>>
    BY <1>2 DEF PreparePacket, roomVars
  <2>2. hostPc = "stream" /\ hostPc' \in {"take", "drain", "send"}
    BY <1>2 DEF PreparePacket
  <2>3. DeadlinesOrdered' /\ SentAhead' /\ CutoffRespected'
    BY <2>1, <2>2 DEF DeadlinesOrdered, SentAhead, CutoffRespected
  <2>4. NotPastCutoff'
    BY <2>1, <2>2 DEF NotPastCutoff, Cutoff
  <2>5. WaitingPacketFits'
    <3> SUFFICES ASSUME hostPc' = "send", pendingAction # None
                 PROVE  presentation + FrameToDuration(packetFrames')
                          < Cutoff(pendingAction) + FrameToDuration(1)
      BY <2>1 DEF WaitingPacketFits, Cutoff
    <3> QED
      BY <1>2, ReadFramesFits DEF PreparePacket
  <2> QED
    BY <2>3, <2>4, <2>5
<1>3. CASE SendPacket
  <2>1. /\ UNCHANGED <<now, pendingAction, segmentStart, command>>
        /\ hostPc = "send" /\ hostPc' = "stream"
        /\ sequenceNumber' = sequenceNumber + 1
        /\ presentation' = PresentationAt(frame + packetFrames)
        /\ presentation <= now + SendAhead
    BY <1>3 DEF TypeOK, SendPacket, SendTimeReached, roomVars
  <2>5. /\ presentation' \in Int
        /\ presentation' <= presentation + FrameToDuration(packetFrames)
        /\ FrameToDuration(packetFrames) \in Nat
        /\ FrameToDuration(packetFrames) <= FrameToDuration(FramesPerPacket)
    BY <2>1, NextPresentation
  <2>2. DeadlinesOrdered' /\ WaitingPacketFits' /\ CutoffRespected'
    BY <2>1 DEF DeadlinesOrdered, WaitingPacketFits, CutoffRespected
  <2>3. SentAhead'
    BY <2>1, <2>5, <1>t DEF TypeOK, SentAhead
  <2>4. NotPastCutoff'
    <3> SUFFICES ASSUME pendingAction # None
                 PROVE  \/ presentation' < Cutoff(pendingAction) + FrameToDuration(1)
                        \/ /\ sequenceNumber' <= 1
                           /\ presentation' <= pendingAction.effective + HostLatency
                                               + FrameToDuration(FramesPerPacket) + HandlerStall
      BY <2>1 DEF NotPastCutoff, Cutoff
    <3>1. pendingAction.effective \in Int /\ Cutoff(pendingAction) \in Int
      BY CutoffType DEF TypeOK
    <3> QED
      BY <2>1, <2>5, <3>1, <1>t DEF TypeOK, WaitingPacketFits
  <2> QED
    BY <2>2, <2>3, <2>4
<1>4. CASE TakeCommand
  <2>1. /\ UNCHANGED <<now, segmentStart, presentation, sequenceNumber>>
        /\ hostPc = "take" /\ hostPc' = "cut"
        /\ pendingAction' = None /\ command' = pendingAction /\ pendingAction # None
    BY <1>4 DEF TakeCommand, TakeAction, CommandCarried, streamVars
  <2>2. DeadlinesOrdered' /\ SentAhead' /\ NotPastCutoff' /\ WaitingPacketFits'
    BY <2>1 DEF DeadlinesOrdered, SentAhead, NotPastCutoff, WaitingPacketFits
  <2>3. CutoffRespected'
    BY <2>1 DEF NotPastCutoff, CutoffRespected, Cutoff
  <2> QED
    BY <2>2, <2>3
<1>5. CASE TakeWhilePaused
  <2>1. /\ UNCHANGED <<now, segmentStart, presentation, sequenceNumber>>
        /\ hostPc' \in {"resume", "seekWait", "stopWait"}
        /\ pendingAction' = None /\ command' = pendingAction /\ pendingAction # None
    BY <1>5 DEF TakeWhilePaused, TakeAction, PausedBranches, streamVars
  <2> QED
    BY <2>1 DEF DeadlinesOrdered, SentAhead, NotPastCutoff, WaitingPacketFits, CutoffRespected
<1> USE DEF TypeOK, CommandCarried, DeadlinesOrdered, SentAhead, NotPastCutoff,
            WaitingPacketFits, CutoffRespected, roomVars, handlerVars, controlVars,
            hostVars, streamVars
<1>6. ASSUME NEW h \in Handlers, NEW a \in ActionNames, NEW f \in SeekFrames, CheckRequest(h, a, f)
      PROVE  Timed'
  BY <1>6 DEF CheckRequest, Cutoff
<1>7. CASE OpenSegment
  BY <1>7 DEF OpenSegment
<1>8. CASE AnnouncePlaying
  BY <1>8 DEF AnnouncePlaying, SetPlaybackState
<1>9. CASE BeginStream
  BY <1>9, <1>t, CutoffType DEF BeginStream
<1>10. CASE DrainPlayer
  BY <1>10 DEF DrainPlayer
<1>11. CASE CutPlayer
  BY <1>11, CutoffType DEF CutPlayer
<1>12. CASE ApplyStop
  BY <1>12 DEF ApplyStop
<1>13. CASE ApplySeek
  BY <1>13 DEF ApplySeek, SetStreamId
<1>14. CASE ApplyPause
  BY <1>14 DEF ApplyPause, SetPlaybackState
<1>15. CASE ApplyPlay
  BY <1>15 DEF ApplyPlay
<1>16. CASE Resume
  BY <1>16 DEF Resume
<1>17. CASE SeekWhilePaused
  BY <1>17 DEF SeekWhilePaused, SetStreamId
<1>18. CASE StopWhilePaused
  BY <1>18 DEF StopWhilePaused
<1>19. CASE FinishRoom
  BY <1>19 DEF FinishRoom, SetPlaybackState
<1>20. CASE QuitHost
  BY <1>20 DEF QuitHost
<1>21. CASE RouteChanged
  BY <1>21 DEF RouteChanged
<1>22. CASE Tick
  BY <1>22, <1>t, CutoffType DEF Tick, Cutoff
<1>23. CASE UNCHANGED vars
  BY <1>23 DEF Cutoff, vars
<1>24. ASSUME NEW h \in Handlers, ReadClock(h) PROVE Timed'
  BY <1>24 DEF ReadClock, Cutoff
<1> QED
  BY <1>1, <1>2, <1>3, <1>4, <1>5, <1>6, <1>7, <1>8, <1>9, <1>10, <1>11, <1>12, <1>13,
     <1>14, <1>15, <1>16, <1>17, <1>18, <1>19, <1>20, <1>21, <1>22, <1>23, <1>24
     DEF Next, HostStep

(* Only its own handler moves a reading, and the clock waits for it. *)
LEMMA ReadingsStep == TypeOK /\ ReadingsFresh /\ [Next]_vars => ReadingsFresh'
<1> SUFFICES ASSUME TypeOK, ReadingsFresh, [Next]_vars PROVE ReadingsFresh'
  OBVIOUS
<1> USE HostAssumption, NoneAssumption DEF TypeOK, ReadingsFresh
<1>1. ASSUME NEW h \in Handlers, NEW a \in ActionNames, NEW f \in SeekFrames, CheckRequest(h, a, f)
      PROVE  ReadingsFresh'
  BY <1>1 DEF CheckRequest
<1>2. ASSUME NEW h \in Handlers, ReadClock(h) PROVE ReadingsFresh'
  BY <1>2 DEF ReadClock
<1>3. ASSUME NEW h \in Handlers, ScheduleRequest(h) PROVE ReadingsFresh'
  BY <1>3 DEF ScheduleRequest
<1>4. CASE Tick
  BY <1>4 DEF Tick, handlerVars
<1>5. CASE UNCHANGED <<now, request, effective>>
  BY <1>5
<1>6. HostStep \/ RouteChanged => UNCHANGED <<now, request, effective>>
  BY DEF HostStep, OpenSegment, AnnouncePlaying, BeginStream, PreparePacket, SendPacket,
     DrainPlayer, TakeCommand, CutPlayer, ApplyStop, ApplySeek, ApplyPause, ApplyPlay,
     TakeWhilePaused, Resume, SeekWhilePaused, StopWhilePaused, FinishRoom, QuitHost,
     RouteChanged, handlerVars
<1>7. CASE UNCHANGED vars
  BY <1>5, <1>7 DEF vars, handlerVars
<1> QED
  BY <1>1, <1>2, <1>3, <1>4, <1>5, <1>6, <1>7 DEF Next

-----------------------------------------------------------------------------
(* The invariant holds when runHost enters its first segment. *)
LEMMA HostInit == Init => HostInv
<1> SUFFICES ASSUME Init PROVE HostInv
  OBVIOUS
<1>1. CommandCarried /\ Announced
  BY DEF Init, CommandCarried, Announced
<1>2. ReadingsFresh /\ DeadlinesOrdered
  BY HostAssumption, DelayAssumption, DurationBounds DEF Init, ReadingsFresh, DeadlinesOrdered
<1>3. ClocksInStep /\ SentAhead /\ NotPastCutoff /\ WaitingPacketFits /\ CutoffRespected
  BY DEF Init, ClocksInStep, SentAhead, NotPastCutoff, WaitingPacketFits, CutoffRespected
<1> QED
  BY <1>1, <1>2, <1>3, TypeInit DEF HostInv

(* Every step keeps the invariant. *)
LEMMA HostStepInv == HostInv /\ [Next]_vars => HostInv'
  BY TypeStep, ControlStep, ReadingsStep, ClocksStep, TimedStep DEF HostInv, Timed

(* The invariant holds throughout. *)
LEMMA HostAlways == Spec => []HostInv
  BY HostInit, HostStepInv, PTL DEF Spec

(* The room, the control state and the host's thread stay well typed; in   *)
(* particular no stream identifier is ever zero (ControlChannel.cpp).      *)
THEOREM TypeCorrect == Spec => []TypeOK
<1>1. HostInv => TypeOK
  BY DEF HostInv
<1> QED
  BY <1>1, HostAlways, PTL

(* streamFile sends nothing that begins at the cutoff of the command it    *)
(* stops for, and ends less than a frame past it, up to the first packet   *)
(* of the segment: whatever the interleaving of the control connections,   *)
(* for any sample rate, latency and sizes with 2 * SendAhead               *)
(* + 2 * FrameToDuration(FramesPerPacket) + HandlerStall <= CommandDelay.  *)
THEOREM CutoffAlwaysRespected == Spec => []CutoffRespected
<1>1. HostInv => CutoffRespected
  BY DEF HostInv
<1> QED
  BY <1>1, HostAlways, PTL

(* What the host plays and what it sends agree in every segment, from      *)
(* whichever frame and at whichever instant a resume or a seek starts it:  *)
(* the player's clock and the packets' clock, rounded apart, name the same *)
(* frame.                                                                  *)
THEOREM PlayerAlwaysAtPresentedFrame == Spec => []PlayerAtPresentedFrame
<1>1. HostInv => PlayerAtPresentedFrame
  <2> SUFFICES ASSUME HostInv, hostPc \in {"stream", "send"}
               PROVE  TimestampToFrame(playerStart, presentation - HostLatency) = frame
    BY DEF PlayerAtPresentedFrame
  <2> DEFINE sent == frame - initialFrame
             e == FrameToDuration(sent) + FrameToDuration(initialFrame)
  <2>1. /\ sent \in Nat /\ initialFrame \in Nat /\ frame = sent + initialFrame
        /\ segmentStart \in Int /\ HostLatency \in Int /\ frame \in Nat
    BY HostAssumption DEF HostInv, TypeOK, ClocksInStep
  <2>2. /\ playerStart = segmentStart - FrameToDuration(initialFrame)
        /\ presentation = segmentStart + HostLatency + FrameToDuration(sent)
    BY DEF HostInv, ClocksInStep, PresentationAt, FrameToTimestamp
  <2> HIDE DEF sent
  <2>3. FrameToDuration(sent) \in Nat /\ FrameToDuration(initialFrame) \in Nat
    BY <2>1, DurationBounds
  <2>4. /\ playerStart \in Int /\ presentation - HostLatency \in Int
        /\ (presentation - HostLatency) - playerStart = e
    BY <2>1, <2>2, <2>3
  <2>5. /\ frame * NanosecondsPerSecond <= e * SampleRate
        /\ e * SampleRate <= frame * NanosecondsPerSecond + 2 * SampleRate - 2
    BY <2>1, DurationSum
  <2>6. e * SampleRate < frame * NanosecondsPerSecond + NanosecondsPerSecond
    BY <2>1, <2>3, <2>5, HostAssumption, TimelineAssumption
  <2> QED
    BY <2>1, <2>4, <2>5, <2>6, FrameAtElapsed
<1> QED
  BY <1>1, HostAlways, PTL

(* While runHost sends packets, WELCOME and HOST_STATE tell the truth.     *)
THEOREM AnnouncementAlwaysMatches == Spec => []AnnouncementMatchesStream
<1>1. HostInv => AnnouncementMatchesStream
  BY DEF HostInv, Announced, AnnouncementMatchesStream
<1> QED
  BY <1>1, HostAlways, PTL

-----------------------------------------------------------------------------
(* Refinement: a step of the handlers or of the host's thread is a step of *)
(* RoomContract, or leaves what the contract sees alone.                   *)

(* A room starts stopped, with no command. *)
LEMMA ContractInit == Init => Contract!Init
  BY DEF Init, Contract!Init

(* Every step is a step of the contract or invisible to it. *)
LEMMA ContractStep == HostInv /\ [Next]_vars => [Contract!Next]_(Contract!vars)
<1> SUFFICES ASSUME HostInv, [Next]_vars PROVE [Contract!Next]_(Contract!vars)
  OBVIOUS
<1> USE NoneAssumption DEF HostInv, Contract!vars
<1>1. ASSUME NEW h \in Handlers, ScheduleRequest(h) PROVE [Contract!Next]_(Contract!vars)
  <2>1. CASE pendingAction # None
    BY <1>1, <2>1 DEF ScheduleRequest, ScheduleAction, hostVars
  <2>2. CASE pendingAction = None
    <3>1. request[h] \in Request /\ effective[h] \in Int
      BY <1>1 DEF TypeOK, ScheduleRequest, ReadingsFresh
    <3>2. pendingAction' \in ScheduledRoomAction
      BY <1>1, <2>2, <3>1
         DEF ScheduleRequest, ScheduleAction, Request, ScheduledRoomAction
    <3> QED
      BY <1>1, <2>2, <3>2
         DEF ScheduleRequest, ScheduleAction, hostVars, Contract!Next, Contract!Announce
  <2> QED
    BY <2>1, <2>2
<1>2. CASE AnnouncePlaying
  BY <1>2 DEF AnnouncePlaying, SetPlaybackState, CommandCarried, Contract!Next,
     Contract!Playing
<1>3. CASE TakeCommand
  BY <1>3 DEF TakeCommand, TakeAction, CommandCarried, Contract!Next, Contract!Begin
<1>4. CASE TakeWhilePaused
  BY <1>4 DEF TakeWhilePaused, TakeAction, CommandCarried, Contract!Next, Contract!Begin
<1>5. CASE ApplySeek
  BY <1>5 DEF ApplySeek, SetStreamId, CommandCarried, Contract!Next, Contract!Effect
<1>6. CASE ApplyPause
  BY <1>6 DEF ApplyPause, SetPlaybackState, CommandCarried, Contract!Next, Contract!Effect
<1>7. CASE ApplyPlay
  BY <1>7 DEF ApplyPlay, CommandCarried, roomVars, Contract!Next, Contract!Effect
<1>8. CASE Resume
  BY <1>8 DEF Resume, CommandCarried, roomVars, Contract!Next, Contract!Effect
<1>9. CASE SeekWhilePaused
  BY <1>9 DEF SeekWhilePaused, SetStreamId, CommandCarried, Contract!Next, Contract!Effect
<1>10. CASE FinishRoom
  BY <1>10 DEF FinishRoom, SetPlaybackState, CommandCarried, Contract!Next, Contract!Effect,
     Contract!Ended
<1>11. CASE UNCHANGED <<roomVars, command>>
  BY <1>11 DEF roomVars
<1>12. ASSUME NEW h \in Handlers, NEW a \in ActionNames, NEW f \in SeekFrames, CheckRequest(h, a, f)
       PROVE  UNCHANGED <<roomVars, command>>
  BY <1>12 DEF CheckRequest, hostVars
<1>16. ASSUME NEW h \in Handlers, ReadClock(h) PROVE UNCHANGED <<roomVars, command>>
  BY <1>16 DEF ReadClock, hostVars
<1>13. CASE OpenSegment \/ BeginStream \/ PreparePacket \/ SendPacket \/ DrainPlayer
  BY <1>11, <1>13 DEF OpenSegment, BeginStream, PreparePacket, SendPacket, DrainPlayer
<1>14. CASE CutPlayer \/ ApplyStop \/ StopWhilePaused \/ QuitHost \/ RouteChanged
  BY <1>11, <1>14 DEF CutPlayer, ApplyStop, StopWhilePaused, QuitHost, RouteChanged
<1>15. CASE Tick \/ UNCHANGED vars
  BY <1>11, <1>15 DEF Tick, vars, hostVars
<1> QED
  BY <1>1, <1>2, <1>3, <1>4, <1>5, <1>6, <1>7, <1>8, <1>9, <1>10, <1>11, <1>12, <1>13,
     <1>14, <1>15, <1>16 DEF Next, HostStep

(* The threads implement the contract a room makes with its members: one   *)
(* command announced and one executed at a time, and no change of state or *)
(* stream but as the effect of a command, the start or the end of play.    *)
THEOREM HostImplementsContract == Spec => ImplementsContract
  BY ContractInit, ContractStep, HostAlways, PTL DEF Spec, ImplementsContract, Contract!Spec
=============================================================================
