------------------------------ MODULE RoomHost ------------------------------
(***************************************************************************)
(* The room host: Room's command slot (core/src/Room.cpp), the command    *)
(* handler of the TCP control server (desktop/src/ControlChannel.cpp), the *)
(* host's main thread (runHost in desktop/src/main.cpp) and the packet     *)
(* loop it runs (DesktopNetworkHost::streamFile).                          *)
(*                                                                         *)
(* Every access to the Room is one critical section of its mutex, hence    *)
(* one step.  The handler reads a snapshot, reads the clock and schedules  *)
(* in three steps, and every control connection has a handler thread:      *)
(* these are the interleavings that matter.  Time is a counter that any    *)
(* number of ticks may advance between two steps of a thread.  A frame     *)
(* lasts several ticks, and a fraction of one, so that a command takes     *)
(* effect within a frame as a rule (PlaybackTimeline has the conversions). *)
(***************************************************************************)
EXTENDS PlaybackTimeline, FiniteSets

CONSTANTS
    Handlers,         \* the threads that serve control connections
    TotalFrames,      \* length of the source in frames
    SeekFrames,       \* the frames that SEEK may name
    FramesPerPacket,  \* frames of a full packet
    SendAhead,        \* how long before presentation a packet is sent
    CommandDelay,     \* the effective time of a command is this much ahead
    HostLatency,      \* manual output latency of the host, may be negative
    HandlerStall,     \* longest a handler is held up before it schedules
    MaxStreamId,      \* largest stream identifier (2^32 - 1 in the code)
    LastCommandAt,    \* bound: no command is accepted after this time
    MaxTime,          \* bound: where the clock stops
    None              \* no command

ASSUME HostAssumption ==
    /\ TotalFrames \in Nat \ {0}
    /\ SeekFrames \subseteq 0..(TotalFrames - 1)
    /\ FramesPerPacket \in Nat \ {0}
    /\ SendAhead \in Nat
    /\ CommandDelay \in Nat
    /\ HostLatency \in Int
    /\ HandlerStall \in Nat
    /\ 2 * SampleRate <= NanosecondsPerSecond + 1
    /\ MaxStreamId \in Nat \ {0}
    /\ LastCommandAt \in Nat
    /\ MaxTime \in Nat

(* 2 s of command delay leave room for 500 ms of send-ahead on each side   *)
(* of the cutoff and for two packets of 10 ms; the rest is what a handler  *)
(* may lose between reading the clock and scheduling.                      *)
ASSUME DelayAssumption ==
    2 * SendAhead + 2 * FrameToDuration(FramesPerPacket) + HandlerStall <= CommandDelay

ActionNames == {"Play", "Pause", "Seek", "Stop"}
StreamIds == 1..MaxStreamId

(* struct ScheduledRoomAction *)
ScheduledRoomAction ==
    [action : ActionNames, effective : Int, seekFrame : Nat, nextStreamId : StreamIds]

(* What a handler keeps between its snapshot and scheduleAction. *)
Request == [action : ActionNames, seekFrame : Nat, nextStreamId : StreamIds]

ASSUME NoneAssumption ==
    None \notin ScheduledRoomAction /\ None \notin Request /\ None \notin Int

VARIABLES
    now,             \* the host's steady clock
    playbackState,   \* Room: state_.playbackState
    streamId,        \* Room: state_.streamId
    pendingAction,   \* Room: state_.pendingAction
    recentAction,    \* Room: state_.recentAction
    request,         \* handlers: the checked request not yet scheduled
    effective,       \* handlers: the effective time computed for it
    playing,         \* ControlStreamState.playing
    currentFrame,    \* ControlStreamState.currentFrame
    welcomeStreamId, \* ControlStreamState.streamId, which WELCOME announces
    hostPc,          \* where the host's main thread is
    frame,           \* runHost's frame; streamFile's startFrame while it runs
    segmentStart,    \* runHost's segmentStart
    command,         \* the action runHost took and has not completed, or None
    playerStart,     \* the player's playbackClock_: its startTime, or None
    initialFrame,    \* streamFile's initialFrame, the segment's first frame
    presentation,    \* streamFile's presentationTimestamp of startFrame
    sequenceNumber,  \* streamFile's sequenceNumber: packets of this segment
    packetFrames,    \* frames of the packet that waits for its send time
    usedStreamIds    \* history: identifiers that packets were sent under

roomVars == <<playbackState, streamId, pendingAction, recentAction>>
controlVars == <<playing, currentFrame, welcomeStreamId>>
streamVars == <<playerStart, initialFrame, presentation, sequenceNumber, packetFrames,
                usedStreamIds>>
hostVars == <<hostPc, frame, segmentStart, command>>
handlerVars == <<request, effective>>
vars == <<now, roomVars, handlerVars, controlVars, hostVars, streamVars>>

TypeOK ==
    /\ now \in Nat
    /\ playbackState \in {"Stopped", "Playing", "Paused"}
    /\ streamId \in StreamIds
    /\ pendingAction \in ScheduledRoomAction \cup {None}
    /\ recentAction \in ScheduledRoomAction \cup {None}
    /\ request \in [Handlers -> Request \cup {None}]
    /\ effective \in [Handlers -> Int \cup {None}]
    /\ playing \in BOOLEAN
    /\ currentFrame \in Nat
    /\ welcomeStreamId \in StreamIds
    /\ hostPc \in {"segment", "announce", "begin", "stream", "send", "drain",
                   "take", "cut", "apply", "paused", "resume", "seekWait",
                   "stopWait", "finish", "quit", "done", "failed"}
    /\ frame \in Nat
    /\ segmentStart \in Int
    /\ command \in ScheduledRoomAction \cup {None}
    /\ playerStart \in Int \cup {None}
    /\ initialFrame \in Nat
    /\ presentation \in Int
    /\ sequenceNumber \in Nat
    /\ packetFrames \in 0..FramesPerPacket
    /\ usedStreamIds \subseteq StreamIds

Init ==
    /\ now = 0
    /\ playbackState = "Stopped"
    /\ streamId \in StreamIds
    /\ pendingAction = None
    /\ recentAction = None
    /\ request = [h \in Handlers |-> None]
    /\ effective = [h \in Handlers |-> None]
    /\ playing = FALSE
    /\ currentFrame = 0
    /\ welcomeStreamId = streamId
    /\ hostPc = "segment"
    /\ frame = 0
    /\ segmentStart = SendAhead
    /\ command = None
    /\ playerStart = None
    /\ initialFrame = 0
    /\ presentation = 0
    /\ sequenceNumber = 0
    /\ packetFrames = 0
    /\ usedStreamIds = {}

-----------------------------------------------------------------------------
(* Room: each operator is one critical section. *)

(* Fault: a later command replaces the pending one. *)
ScheduleActionReplacing(a) ==
    /\ pendingAction' = a
    /\ UNCHANGED <<playbackState, streamId, recentAction>>

(* The slot holds one action; the caller answers command-pending when it   *)
(* is taken.                                                               *)
ScheduleAction(a) ==
    /\ pendingAction' = IF pendingAction = None THEN a ELSE pendingAction
    /\ UNCHANGED <<playbackState, streamId, recentAction>>

TakeAction ==
    /\ recentAction' = IF pendingAction # None THEN pendingAction ELSE recentAction
    /\ pendingAction' = None
    /\ UNCHANGED <<playbackState, streamId>>

SetPlaybackState(s) ==
    /\ playbackState' = s
    /\ UNCHANGED <<streamId, pendingAction, recentAction>>

SetStreamId(id) ==
    /\ streamId' = id
    /\ UNCHANGED <<playbackState, pendingAction, recentAction>>

-----------------------------------------------------------------------------
(* The PLAY, PAUSE, STOP and SEEK handler. *)

(* The commands that the snapshot's playback state admits. *)
Admissible(a) ==
    /\ a = "Play" => playbackState # "Playing"
    /\ a = "Pause" => playbackState = "Playing"
    /\ a = "Seek" => playbackState # "Stopped"

(* Fault: the identifier wraps to zero. *)
NextStreamThroughZero(id) == (id + 1) % (MaxStreamId + 1)

(* ++nextStream, skipping zero when it wraps. *)
NextStream(id) == IF id = MaxStreamId THEN 1 ELSE id + 1

(* First critical section: snapshot, then the checks that use it.  A       *)
(* request that fails a check is answered and forgotten: no step.          *)
CheckRequest(h, a, f) ==
    /\ request[h] = None
    /\ hostPc \notin {"done", "failed"}
    /\ now <= LastCommandAt
    /\ Admissible(a)
    /\ request' = [request EXCEPT ![h] =
                     [action |-> a,
                      seekFrame |-> IF a = "Seek" THEN f ELSE 0,
                      nextStreamId |-> IF a = "Seek" THEN NextStream(streamId) ELSE streamId]]
    /\ UNCHANGED <<now, roomVars, effective, controlVars, hostVars, streamVars>>

(* The effective time is computed from the clock. *)
ReadClock(h) ==
    /\ request[h] # None
    /\ effective[h] = None
    /\ hostPc \notin {"done", "failed"}
    /\ now <= LastCommandAt
    /\ effective' = [effective EXCEPT ![h] = now + CommandDelay]
    /\ UNCHANGED <<now, roomVars, request, controlVars, hostVars, streamVars>>

(* Second critical section: the action is scheduled, or refused when       *)
(* another one is pending.                                                 *)
ScheduleRequest(h) ==
    /\ effective[h] # None
    /\ hostPc \notin {"done", "failed"}
    /\ ScheduleAction([action |-> request[h].action,
                       effective |-> effective[h],
                       seekFrame |-> request[h].seekFrame,
                       nextStreamId |-> request[h].nextStreamId])
    /\ request' = [request EXCEPT ![h] = None]
    /\ effective' = [effective EXCEPT ![h] = None]
    /\ UNCHANGED <<now, controlVars, hostVars, streamVars>>

-----------------------------------------------------------------------------
(* streamFile: the packet loop of one segment. *)

(* The presentation time at which a segment ends for a pending action. *)
Cutoff(a) == a.effective - (IF a.action = "Seek" THEN SendAhead ELSE 0)

(* The clock of the packets: it maps the first frame of the segment to     *)
(* segmentStart plus the host's output latency.                            *)
PresentationAt(f) == FrameToTimestamp(segmentStart + HostLatency, f - initialFrame)

(* What is left of the segment, in frames and parts of a frame, is less    *)
(* than n frames.                                                          *)
EndsWithin(n) ==
    (Cutoff(pendingAction) - presentation) * SampleRate < n * NanosecondsPerSecond

(* Fault: a frame too many is read before the cutoff.                      *)
RequestedFramesOneMore ==
    IF pendingAction = None \/ ~EndsWithin(FramesPerPacket)
    THEN FramesPerPacket
    ELSE 1 + ((Cutoff(pendingAction) - presentation) * SampleRate) \div NanosecondsPerSecond

(* The frames to read for the next packet: as many whole ones as end       *)
(* before the cutoff of a pending action, but never none.  (The code       *)
(* computes in double, which can only cut a whole number short by one: the *)
(* frame is then the next packet.)                                         *)
RequestedFrames ==
    IF pendingAction = None \/ ~EndsWithin(FramesPerPacket)
    THEN FramesPerPacket
    ELSE IF EndsWithin(1)
         THEN 1
         ELSE ((Cutoff(pendingAction) - presentation) * SampleRate) \div NanosecondsPerSecond

FramesLeft == IF frame < TotalFrames THEN TotalFrames - frame ELSE 0

(* What decoder.read returns. *)
ReadFrames ==
    IF RequestedFrames <= FramesLeft THEN RequestedFrames ELSE FramesLeft

ReachedCutoff == pendingAction # None /\ presentation >= Cutoff(pendingAction)

(* The head of the loop: the segment ends for a command, ends with the     *)
(* source, or reads a packet that then waits for its send time.            *)
PreparePacket ==
    /\ hostPc = "stream"
    /\ \/ /\ ReachedCutoff
          /\ hostPc' = "take"
          /\ UNCHANGED packetFrames
       \/ /\ ~ReachedCutoff
          /\ ReadFrames = 0
          /\ hostPc' = "drain"
          /\ UNCHANGED packetFrames
       \/ /\ ~ReachedCutoff
          /\ ReadFrames > 0
          /\ hostPc' = "send"
          /\ packetFrames' = ReadFrames
    /\ UNCHANGED <<now, roomVars, handlerVars, controlVars, frame, segmentStart,
                   command, playerStart, initialFrame, presentation, sequenceNumber,
                   usedStreamIds>>

SendTimeReached == now >= presentation - SendAhead

(* The rest of the loop: sleep until the send time, send, advance. *)
SendPacket ==
    /\ hostPc = "send"
    /\ SendTimeReached
    /\ sequenceNumber' = sequenceNumber + 1
    /\ frame' = frame + packetFrames
    /\ presentation' = PresentationAt(frame')
    /\ currentFrame' = frame'
    /\ packetFrames' = 0
    /\ usedStreamIds' = usedStreamIds \cup {welcomeStreamId}
    /\ hostPc' = "stream"
    /\ UNCHANGED <<now, roomVars, handlerVars, playing, welcomeStreamId,
                   segmentStart, command, playerStart, initialFrame>>

(* The output route changed: streamFile throws and the process ends. *)
RouteChanged ==
    /\ hostPc = "stream"
    /\ hostPc' = "failed"
    /\ UNCHANGED <<now, roomVars, handlerVars, controlVars, frame, segmentStart,
                   command, streamVars>>

-----------------------------------------------------------------------------
(* runHost: the main thread. *)

(* Fault: the player's clock does not know that it begins within the source. *)
PlayerClockFromZero(f, start) == start

(* playFrom: the player's clock has frame f at the start it is given.      *)
PlayerClock(f, start) == start - FrameToDuration(f)

(* Fault: the control channel is not told of the new stream identifier. *)
OpenSegmentUnpublished ==
    /\ hostPc = "segment"
    /\ playerStart' = PlayerClock(frame, segmentStart)
    /\ hostPc' = "announce"
    /\ UNCHANGED <<now, roomVars, handlerVars, controlVars, frame, segmentStart,
                   command, initialFrame, presentation, sequenceNumber,
                   packetFrames, usedStreamIds>>

(* The head of a segment: its stream identifier is published for WELCOME   *)
(* and playFrom opens the audio device, which takes long.                  *)
OpenSegment ==
    /\ hostPc = "segment"
    /\ welcomeStreamId' = streamId
    /\ playerStart' = PlayerClock(frame, segmentStart)
    /\ hostPc' = "announce"
    /\ UNCHANGED <<now, roomVars, handlerVars, playing, currentFrame, frame,
                   segmentStart, command, initialFrame, presentation,
                   sequenceNumber, packetFrames, usedStreamIds>>

AnnouncePlaying ==
    /\ hostPc = "announce"
    /\ SetPlaybackState("Playing")
    /\ hostPc' = "begin"
    /\ UNCHANGED <<now, handlerVars, controlVars, frame, segmentStart, command, streamVars>>

(* playing is set and streamFile starts: its clock maps the segment's      *)
(* first frame to segmentStart plus the host's output latency.             *)
BeginStream ==
    /\ hostPc = "begin"
    /\ playing' = TRUE
    /\ initialFrame' = frame
    /\ presentation' = segmentStart + HostLatency
    /\ sequenceNumber' = 0
    /\ packetFrames' = 0
    /\ hostPc' = "stream"
    /\ UNCHANGED <<now, roomVars, handlerVars, currentFrame, welcomeStreamId,
                   frame, segmentStart, command, playerStart, usedStreamIds>>

(* The source is exhausted: wait until the player has drained. *)
DrainPlayer ==
    /\ hostPc = "drain"
    /\ hostPc' = "finish"
    /\ UNCHANGED <<now, roomVars, handlerVars, controlVars, frame, segmentStart,
                   command, streamVars>>

TakeCommand ==
    /\ hostPc = "take"
    /\ TakeAction
    /\ command' = pendingAction
    /\ hostPc' = "cut"
    /\ UNCHANGED <<now, handlerVars, controlVars, frame, segmentStart, streamVars>>

(* Sleep until the local player has to fall silent, and stop it. *)
CutPlayer ==
    /\ hostPc = "cut"
    /\ now >= Cutoff(command) - HostLatency
    /\ playing' = FALSE
    /\ currentFrame' = frame
    /\ hostPc' = "apply"
    /\ UNCHANGED <<now, roomVars, handlerVars, welcomeStreamId, frame, segmentStart,
                   command, streamVars>>

ApplyStop ==
    /\ hostPc = "apply"
    /\ command.action = "Stop"
    /\ hostPc' = "finish"
    /\ UNCHANGED <<now, roomVars, handlerVars, controlVars, frame, segmentStart,
                   command, streamVars>>

ApplySeek ==
    /\ hostPc = "apply"
    /\ command.action = "Seek"
    /\ frame' = command.seekFrame
    /\ SetStreamId(command.nextStreamId)
    /\ currentFrame' = frame'
    /\ segmentStart' = command.effective
    /\ command' = None
    /\ hostPc' = "segment"
    /\ UNCHANGED <<now, handlerVars, playing, welcomeStreamId, streamVars>>

ApplyPause ==
    /\ hostPc = "apply"
    /\ command.action = "Pause"
    /\ SetPlaybackState("Paused")
    /\ command' = None
    /\ hostPc' = "paused"
    /\ UNCHANGED <<now, handlerVars, controlVars, frame, segmentStart, streamVars>>

(* No branch of the loop body is for Play: the next segment starts with    *)
(* the old segmentStart.                                                   *)
ApplyPlay ==
    /\ hostPc = "apply"
    /\ command.action = "Play"
    /\ command' = None
    /\ hostPc' = "segment"
    /\ UNCHANGED <<now, roomVars, handlerVars, controlVars, frame, segmentStart,
                   streamVars>>

(* Faults: STOP, or SEEK, is not looked for while the room is paused. *)
PausedBranchesWithoutStop == [Play |-> "resume", Seek |-> "seekWait"]
PausedBranchesWithoutSeek == [Play |-> "resume", Stop |-> "stopWait"]

(* The pause loop: the branch is chosen by a snapshot, and only this       *)
(* thread empties the slot, so that the action taken is the one looked at. *)
(* A pending Pause matches no branch: the loop polls on.                   *)
PausedBranches == [Play |-> "resume", Seek |-> "seekWait", Stop |-> "stopWait"]

TakeWhilePaused ==
    /\ hostPc = "paused"
    /\ pendingAction # None
    /\ pendingAction.action \in DOMAIN PausedBranches
    /\ TakeAction
    /\ command' = pendingAction
    /\ hostPc' = PausedBranches[pendingAction.action]
    /\ UNCHANGED <<now, handlerVars, controlVars, frame, segmentStart, streamVars>>

Resume ==
    /\ hostPc = "resume"
    /\ segmentStart' = command.effective
    /\ command' = None
    /\ hostPc' = "segment"
    /\ UNCHANGED <<now, roomVars, handlerVars, controlVars, frame, streamVars>>

SeekWhilePaused ==
    /\ hostPc = "seekWait"
    /\ now >= command.effective
    /\ frame' = command.seekFrame
    /\ SetStreamId(command.nextStreamId)
    /\ welcomeStreamId' = command.nextStreamId
    /\ currentFrame' = frame'
    /\ command' = None
    /\ hostPc' = "paused"
    /\ UNCHANGED <<now, handlerVars, playing, segmentStart, streamVars>>

StopWhilePaused ==
    /\ hostPc = "stopWait"
    /\ now >= command.effective
    /\ hostPc' = "finish"
    /\ UNCHANGED <<now, roomVars, handlerVars, controlVars, frame, segmentStart,
                   command, streamVars>>

FinishRoom ==
    /\ hostPc = "finish"
    /\ SetPlaybackState("Stopped")
    /\ command' = None
    /\ hostPc' = "quit"
    /\ UNCHANGED <<now, handlerVars, controlVars, frame, segmentStart, streamVars>>

(* The last store, after which runHost returns and its objects are gone. *)
QuitHost ==
    /\ hostPc = "quit"
    /\ playing' = FALSE
    /\ hostPc' = "done"
    /\ UNCHANGED <<now, roomVars, handlerVars, currentFrame, welcomeStreamId, frame,
                   segmentStart, command, streamVars>>

HostStep ==
    \/ OpenSegment \/ AnnouncePlaying \/ BeginStream
    \/ PreparePacket \/ SendPacket \/ DrainPlayer
    \/ TakeCommand \/ CutPlayer
    \/ ApplyStop \/ ApplySeek \/ ApplyPause \/ ApplyPlay
    \/ TakeWhilePaused \/ Resume \/ SeekWhilePaused \/ StopWhilePaused
    \/ FinishRoom \/ QuitHost

(* Time passes, but not while a handler has been held up for long enough. *)
Tick ==
    /\ now < MaxTime
    /\ \A h \in Handlers : effective[h] # None => now < effective[h] - CommandDelay + HandlerStall
    /\ now' = now + 1
    /\ UNCHANGED <<roomVars, handlerVars, controlVars, hostVars, streamVars>>

Next ==
    \/ \E h \in Handlers, a \in ActionNames, f \in SeekFrames : CheckRequest(h, a, f)
    \/ \E h \in Handlers : ReadClock(h) \/ ScheduleRequest(h)
    \/ HostStep
    \/ RouteChanged
    \/ Tick

Spec == Init /\ [][Next]_vars

(* The main thread is never blocked but by its sleeps, and a handler that  *)
(* has read the clock goes on to schedule.  Time passes; strong fairness,  *)
(* because handlers that are held up one after the other disable Tick      *)
(* again and again.                                                        *)
FairSpec ==
    /\ Spec
    /\ WF_vars(HostStep)
    /\ SF_vars(Tick)
    /\ \A h \in Handlers : WF_vars(ScheduleRequest(h))

-----------------------------------------------------------------------------
(* Properties. *)

(* A command that streamFile stopped for cut the segment where it had to:  *)
(* nothing is sent that begins at the cutoff, and what is sent ends less   *)
(* than a frame past it.  The one exception is the first packet of a       *)
(* segment: it may already wait for its send time when the command is      *)
(* accepted, and then overruns by no more than the host's output latency,  *)
(* one packet and the handler's stall past the effective time.             *)
CutoffRespected ==
    hostPc \in {"cut", "apply"} =>
        \/ presentation < Cutoff(command) + FrameToDuration(1)
        \/ /\ sequenceNumber <= 1
           /\ presentation <= command.effective + HostLatency
                                + FrameToDuration(FramesPerPacket) + HandlerStall

(* The host plays what it sends: at the instant a packet is presented,     *)
(* less the host's output latency, the clock of the host's own player is   *)
(* at the packet's first frame.  The two clocks are set in different       *)
(* places, count from different frames and round apart.                    *)
PlayerAtPresentedFrame ==
    hostPc \in {"stream", "send"} =>
        TimestampToFrame(playerStart, presentation - HostLatency) = frame

(* While packets are sent, what the control channel tells a joining client *)
(* is true: the room plays, and both WELCOME and HOST_STATE name the       *)
(* stream the packets are sent under.                                      *)
AnnouncementMatchesStream ==
    hostPc \in {"stream", "send"} =>
        /\ playing
        /\ playbackState = "Playing"
        /\ welcomeStreamId = streamId

(* An accepted STOP ends the room: it is never lost to a concurrent        *)
(* command, to a pause or to the end of the source.                        *)
StopHonoured ==
    (pendingAction # None /\ pendingAction.action = "Stop")
        ~> hostPc \in {"done", "failed"}

(* An accepted SEEK rotates the room to the stream it announced, unless    *)
(* the room ends first.                                                    *)
SeekHonoured ==
    \A id \in StreamIds :
        (/\ pendingAction # None
         /\ pendingAction.action = "Seek"
         /\ pendingAction.nextStreamId = id)
            ~> (streamId = id \/ hostPc \in {"done", "failed"})

(* Every accepted command is executed: the slot becomes free again.        *)
(* docs/ROOMS.md:19 says that accepted commands are scheduled.             *)
AcceptedCommandTaken ==
    pendingAction # None ~> (pendingAction = None \/ hostPc \in {"done", "failed"})

(* docs/ROOMS.md:22: "Seek rotates the stream identifier to keep old       *)
(* packets out of the new segment": when a seek takes effect, nothing has  *)
(* been sent under the identifier it moves to.                             *)
SeekKeepsOldPacketsOut ==
    [][(ApplySeek \/ SeekWhilePaused) => command.nextStreamId \notin usedStreamIds]_vars

(* The threads implement the contract of RoomContract. *)
Contract == INSTANCE RoomContract WITH
    Commands <- ScheduledRoomAction,
    state <- playbackState,
    stream <- streamId,
    announced <- pendingAction,
    executing <- command

ImplementsContract == Contract!Spec
=============================================================================
