----------------------------- MODULE RoomClient -----------------------------
(***************************************************************************)
(* A desktop that joins a room: the loop of runRoomClient                  *)
(* (desktop/src/main.cpp), the control connection it keeps and the thread  *)
(* that polls it (RoomJoinClient.cpp), the HOST_STATE lines of the host's  *)
(* handler (ControlChannel.cpp), and the host as far as these lines show   *)
(* it.                                                                     *)
(*                                                                         *)
(* The handler reads the host's state in three steps while the host's main *)
(* thread goes on.  The client looks at the state it polled last, and not  *)
(* at all while DesktopAudioClient::run plays.  The host may crash and be  *)
(* started again, and the network may fail for a while.                    *)
(***************************************************************************)
EXTENDS Naturals, FiniteSets

CONSTANTS
    MaxCommands,     \* bound: room commands the host executes
    MaxSessions,     \* bound: times the host is started
    MaxOutages,      \* bound: times the network fails
    MaxFailures,     \* bound: runs that end with an exception of their own
    FirstStream      \* the stream a new room starts with

ASSUME RoomClientAssumption ==
    /\ MaxCommands \in Nat
    /\ MaxSessions \in Nat
    /\ MaxOutages \in Nat
    /\ MaxFailures \in Nat
    /\ FirstStream \in Nat \ {0}

VARIABLES
    \* the host
    up,            \* the process runs
    session,       \* sessionId of its room
    hostPc,        \* where its main thread is
    playing,       \* ControlStreamState: playing
    roomState,     \* Room: playbackState
    roomStream,    \* Room: streamId
    welcomeStream, \* ControlStreamState: streamId
    line,          \* the HOST_STATE line its handler is putting together
    \* the network
    reachable,     \* datagrams and connections get through
    \* the client
    clientPc,      \* runRoomClient and the run it is in
    pollPc,        \* the thread of RoomJoinClient
    state,         \* RoomJoinClient: state_
    lastStream,    \* runRoomClient: lastStream
    observedInactive, \* runRoomClient: observedInactive
    entered,       \* history: streams entered by a fresh line in the current segment
    \* bounds
    commands, outages, failures

hostVars == <<up, session, hostPc, playing, roomState, roomStream, welcomeStream, commands>>
clientVars == <<clientPc, state, lastStream, observedInactive, entered, failures>>
vars == <<hostVars, line, reachable, clientVars, pollPc, outages>>

Streams == FirstStream .. FirstStream + MaxCommands
Playbacks == {"PLAYING", "PAUSED", "STOPPED"}

(* struct JoinedRoomState.  "fresh" is a history field: the line was asked *)
(* for since the host began its current segment.                           *)
JoinedRoomState ==
    [session : 0 .. MaxSessions, stream : Streams \cup {0}, playback : Playbacks, connected : BOOLEAN, fresh : BOOLEAN]

NoState == [session |-> 0, stream |-> 0, playback |-> "STOPPED", connected |-> FALSE, fresh |-> FALSE]
NoLine == [step |-> "idle", playback |-> "STOPPED", stream |-> 0, fresh |-> FALSE]

Init ==
    /\ up = FALSE
    /\ session = 0
    /\ hostPc = "gone"
    /\ playing = FALSE
    /\ roomState = "Stopped"
    /\ roomStream = FirstStream
    /\ welcomeStream = FirstStream
    /\ line = NoLine
    /\ reachable = TRUE
    /\ clientPc = "connect"
    /\ pollPc = "ended"
    /\ state = NoState
    /\ lastStream = 0
    /\ observedInactive = TRUE
    /\ entered = {}
    /\ commands = 0
    /\ outages = 0
    /\ failures = 0
-----------------------------------------------------------------------------
(* The host: runHost, one action per store the handlers can see.           *)

StartHost ==
    /\ ~up
    /\ session < MaxSessions
    /\ up' = TRUE
    /\ session' = session + 1
    /\ hostPc' = "open"
    /\ playing' = FALSE
    /\ roomState' = "Stopped"
    /\ roomStream' = FirstStream
    /\ welcomeStream' = FirstStream
    /\ UNCHANGED <<commands, line, reachable, clientVars, pollPc, outages>>

(* The process ends, of itself or not, and its connections with it.        *)
HostDies ==
    /\ up' = FALSE
    /\ hostPc' = "gone"
    /\ line' = NoLine
    /\ UNCHANGED <<session, playing, roomState, roomStream, welcomeStream, commands,
                   reachable, clientVars, pollPc, outages>>

HostCrashes == up /\ hostPc # "quit" /\ session < MaxSessions /\ HostDies

HostQuits == up /\ hostPc = "quit" /\ HostDies

HostMoves(from, to) ==
    /\ up
    /\ hostPc = from
    /\ hostPc' = to
    /\ UNCHANGED <<up, session, reachable, pollPc, outages>>

HostGoes(from, to) == HostMoves(from, to) /\ UNCHANGED <<line, clientVars>>

OpenSegment ==
    /\ HostGoes("open", "announce")
    /\ welcomeStream' = roomStream
    /\ UNCHANGED <<playing, roomState, roomStream, commands>>

AnnouncePlaying ==
    /\ HostGoes("announce", "begin")
    /\ roomState' = "Playing"
    /\ UNCHANGED <<playing, roomStream, welcomeStream, commands>>

BeginStream ==
    /\ HostMoves("begin", "stream")
    /\ playing' = TRUE
    /\ line' = [line EXCEPT !.fresh = FALSE]
    /\ state' = [state EXCEPT !.fresh = FALSE]
    /\ entered' = {}
    /\ UNCHANGED <<roomState, roomStream, welcomeStream, commands>>
    /\ UNCHANGED <<clientPc, lastStream, observedInactive, failures>>

(* The source is exhausted: no more packets, but the host plays to the end.*)
ExhaustSource ==
    /\ HostGoes("stream", "drain")
    /\ UNCHANGED <<playing, roomState, roomStream, welcomeStream, commands>>

FinishPlayback ==
    /\ HostGoes("drain", "end")
    /\ UNCHANGED <<playing, roomState, roomStream, welcomeStream, commands>>

(* The segment ends for a command; the host waits for the command's time.  *)
TakeCommand(command) ==
    /\ commands < MaxCommands
    /\ HostGoes("stream", command)
    /\ commands' = commands + 1
    /\ UNCHANGED <<playing, roomState, roomStream, welcomeStream>>

(* What follows the cut: the branches of the main loop.                    *)
CutPlayer(command, next) ==
    /\ HostGoes(command, next)
    /\ playing' = FALSE
    /\ UNCHANGED <<roomState, roomStream, welcomeStream, commands>>

ApplySeek ==
    /\ HostGoes("seek", "open")
    /\ roomStream' = roomStream + 1
    /\ UNCHANGED <<playing, roomState, welcomeStream, commands>>

ApplyPause ==
    /\ HostGoes("pause", "paused")
    /\ roomState' = "Paused"
    /\ UNCHANGED <<playing, roomStream, welcomeStream, commands>>

TakeWhilePaused(next) ==
    /\ commands < MaxCommands
    /\ HostGoes("paused", next)
    /\ commands' = commands + 1
    /\ UNCHANGED <<playing, roomState, roomStream, welcomeStream>>

SeekWhilePaused ==
    /\ HostGoes("pausedSeek", "pausedSeekPublish")
    /\ roomStream' = roomStream + 1
    /\ UNCHANGED <<playing, roomState, welcomeStream, commands>>

PublishSeekWhilePaused ==
    /\ HostGoes("pausedSeekPublish", "paused")
    /\ welcomeStream' = roomStream
    /\ UNCHANGED <<playing, roomState, roomStream, commands>>

FinishRoom ==
    /\ HostGoes("end", "clear")
    /\ roomState' = "Stopped"
    /\ UNCHANGED <<playing, roomStream, welcomeStream, commands>>

ClearPlaying ==
    /\ HostGoes("clear", "quit")
    /\ playing' = FALSE
    /\ UNCHANGED <<roomState, roomStream, welcomeStream, commands>>

HostStep ==
    \/ OpenSegment \/ AnnouncePlaying \/ BeginStream
    \/ FinishPlayback
    \/ CutPlayer("cutStop", "end") \/ CutPlayer("cutSeek", "seek") \/ CutPlayer("cutPause", "pause")
    \/ ApplySeek \/ ApplyPause
    \/ SeekWhilePaused \/ PublishSeekWhilePaused
    \/ FinishRoom \/ ClearPlaying \/ HostQuits

RoomIsControlled ==
    \/ ExhaustSource
    \/ \E command \in {"cutStop", "cutSeek", "cutPause"} : TakeCommand(command)
    \/ \E next \in {"open", "pausedSeek", "end"} : TakeWhilePaused(next)
-----------------------------------------------------------------------------
(* The host's handler: hostStateLine, one action per read.                 *)

Reading(step, next, playback, stream) ==
    /\ line.step = step
    /\ line' = [line EXCEPT !.step = next, !.playback = playback, !.stream = stream]
    /\ UNCHANGED <<hostVars, reachable, clientVars, pollPc, outages>>

ReadPlaying == Reading("asked", "room", IF playing THEN "PLAYING" ELSE "STOPPED", 0)

ReadRoomState ==
    Reading("room", "stream", IF roomState = "Paused" THEN "PAUSED" ELSE line.playback, 0)

ReadStream == Reading("stream", "sent", line.playback, roomStream)

HandlerStep == ReadPlaying \/ ReadRoomState \/ ReadStream
-----------------------------------------------------------------------------
(* RoomJoinClient: the constructor joins and reads the first line, then    *)
(* the thread polls.                                                       *)

Connect ==
    /\ clientPc = "connect"
    /\ up /\ reachable
    /\ state' = [NoState EXCEPT !.session = session, !.stream = welcomeStream]
    /\ line' = [NoLine EXCEPT !.step = "asked", !.fresh = TRUE]
    /\ pollPc' = "await"
    /\ clientPc' = "joining"
    /\ UNCHANGED <<hostVars, reachable, lastStream, observedInactive, entered, failures, outages>>

(* connect fails, or no answer to JOIN: the exception is caught in         *)
(* runRoomClient, which tries again two seconds later.                     *)
ConnectFails ==
    /\ clientPc \in {"connect", "joining"}
    /\ ~(up /\ reachable) \/ (clientPc = "joining" /\ line.step = "idle")
    /\ clientPc' = "connect"
    /\ pollPc' = "ended"
    /\ state' = NoState
    /\ line' = NoLine
    /\ UNCHANGED <<hostVars, reachable, lastStream, observedInactive, entered, failures, outages>>

UpdateStateUnparsed(isConnected) ==
    state' = [state EXCEPT !.playback = line.playback, !.stream = 0,
                           !.connected = isConnected, !.fresh = line.fresh]
UpdateState(isConnected) ==
    state' = [state EXCEPT !.playback = line.playback, !.stream = line.stream,
                           !.connected = isConnected, !.fresh = line.fresh]

(* A new connection: the locals of the loop start afresh.                  *)
Joined ==
    /\ clientPc = "joining"
    /\ line.step = "sent" /\ reachable
    /\ UpdateState(TRUE)
    /\ line' = NoLine
    /\ pollPc' = "ask"
    /\ clientPc' = "loop"
    /\ lastStream' = 0
    /\ observedInactive' = TRUE
    /\ entered' = {}
    /\ UNCHANGED <<hostVars, reachable, failures, outages>>

PollAsks ==
    /\ pollPc = "ask"
    /\ up /\ reachable /\ session = state.session
    /\ pollPc' = "await"
    /\ line' = [NoLine EXCEPT !.step = "asked", !.fresh = TRUE]
    /\ UNCHANGED <<hostVars, reachable, clientVars, outages>>

PollReads ==
    /\ pollPc = "await"
    /\ clientPc # "joining"
    /\ line.step = "sent" /\ reachable
    /\ UpdateState(TRUE)
    /\ line' = NoLine
    /\ pollPc' = "ask"
    /\ UNCHANGED <<hostVars, reachable, clientPc, lastStream, observedInactive, entered, failures, outages>>

(* send or recv fails, or recv times out: the connection is given up.      *)
ConnectionBroken ==
    \/ ~(up /\ reachable /\ session = state.session)
    \/ pollPc = "await" /\ line.step = "idle"

PollFailsSilently ==
    /\ pollPc \in {"ask", "await"}
    /\ clientPc # "joining"
    /\ ConnectionBroken
    /\ pollPc' = "ended"
    /\ line' = NoLine
    /\ UNCHANGED <<hostVars, reachable, clientVars, outages>>
PollFails ==
    /\ pollPc \in {"ask", "await"}
    /\ clientPc # "joining"
    /\ ConnectionBroken
    /\ state' = [state EXCEPT !.connected = FALSE]
    /\ pollPc' = "ended"
    /\ line' = NoLine
    /\ UNCHANGED <<hostVars, reachable, clientPc, lastStream, observedInactive, entered, failures, outages>>
-----------------------------------------------------------------------------
(* runRoomClient: one round of its loop.                                   *)

LoopDisconnects ==
    /\ clientPc = "loop"
    /\ ~state.connected
    /\ clientPc' = "connect"
    /\ state' = NoState
    /\ UNCHANGED <<hostVars, line, reachable, pollPc, lastStream, observedInactive, entered, failures, outages>>

ShouldEnterInactive(inactive) == state.playback = "PLAYING" /\ inactive
ShouldEnter(inactive) == state.playback = "PLAYING" /\ (inactive \/ state.stream # lastStream)

LoopIdles ==
    LET inactive == observedInactive \/ state.playback # "PLAYING"
    IN  /\ clientPc = "loop"
        /\ state.connected
        /\ ~ShouldEnter(inactive)
        /\ observedInactive' = inactive
        /\ UNCHANGED <<hostVars, line, reachable, pollPc, clientPc, state, lastStream, entered, failures, outages>>

EnterRunStillInactive ==
    /\ clientPc = "loop"
    /\ state.connected
    /\ ShouldEnter(observedInactive)
    /\ lastStream' = state.stream
    /\ clientPc' = "measure"
    /\ entered' = IF state.fresh THEN entered \cup {state.stream} ELSE entered
    /\ UNCHANGED <<hostVars, line, reachable, pollPc, state, observedInactive, failures, outages>>
EnterRun ==
    /\ clientPc = "loop"
    /\ state.connected
    /\ ShouldEnter(observedInactive)
    /\ lastStream' = state.stream
    /\ observedInactive' = FALSE
    /\ clientPc' = "measure"
    /\ entered' = IF state.fresh THEN entered \cup {state.stream} ELSE entered
    /\ UNCHANGED <<hostVars, line, reachable, pollPc, state, failures, outages>>
-----------------------------------------------------------------------------
(* DesktopAudioClient::run, as far as it decides when the loop goes on:    *)
(* it measures the clock, waits for packets of its stream and plays them   *)
(* until they stay away.                                                   *)

(* The host sends every packet to every member of the room.                *)
Delivered == up /\ reachable /\ hostPc = "stream"

(* The receiver takes those of its session and stream.                     *)
Arriving == Delivered /\ session = state.session /\ welcomeStream = lastStream

RunGoes(from, to) ==
    /\ clientPc = from
    /\ clientPc' = to
    /\ UNCHANGED <<hostVars, line, reachable, pollPc, state, lastStream, observedInactive, entered, outages>>

ClockMeasured == up /\ reachable /\ RunGoes("measure", "format") /\ UNCHANGED failures

PacketsArrive == Arriving /\ RunGoes("format", "playing") /\ UNCHANGED failures

(* The deadline of the measurement (30 s) or of the wait for packets (5 s);*)
(* without the host or the network a poll has given up before (2 s).       *)
RunTimesOut ==
    /\ ~(up /\ reachable) => pollPc = "ended"
    /\ \/ ~(up /\ reachable) /\ RunGoes("measure", "loop")
       \/ ~Arriving /\ RunGoes("format", "loop")
    /\ UNCHANGED failures

(* No packet for more than 200 ms, and everything buffered was played.     *)
RunEnds == ~Arriving /\ RunGoes("playing", "loop") /\ UNCHANGED failures

(* The output route changed, or the port could not be bound.               *)
RunThrows ==
    /\ failures < MaxFailures
    /\ failures' = failures + 1
    /\ \E from \in {"measure", "format", "playing"} : RunGoes(from, "loop")
-----------------------------------------------------------------------------
NetworkFails ==
    /\ reachable
    /\ outages < MaxOutages
    /\ reachable' = FALSE
    /\ outages' = outages + 1
    /\ UNCHANGED <<hostVars, line, clientVars, pollPc>>

NetworkRecovers ==
    /\ ~reachable
    /\ reachable' = TRUE
    /\ UNCHANGED <<hostVars, line, clientVars, pollPc, outages>>

ClientStep ==
    \/ Connect \/ ConnectFails \/ Joined
    \/ LoopDisconnects \/ LoopIdles \/ EnterRun
    \/ ClockMeasured \/ PacketsArrive \/ RunTimesOut \/ RunEnds

PollStep == PollAsks \/ PollReads \/ PollFails

Next ==
    \/ StartHost \/ HostCrashes \/ HostStep \/ RoomIsControlled
    \/ HandlerStep
    \/ ClientStep \/ PollStep \/ RunThrows
    \/ NetworkFails \/ NetworkRecovers

Spec == Init /\ [][Next]_vars

(* Every thread runs when it can.  Nothing is assumed of the commands, of  *)
(* the network or of the host's start and end.                             *)
FairSpec ==
    /\ Spec
    /\ WF_vars(HostStep)
    /\ WF_vars(HandlerStep)
    /\ WF_vars(PollStep)
    /\ WF_vars(ClientStep)
-----------------------------------------------------------------------------
TypeOK ==
    /\ up \in BOOLEAN /\ reachable \in BOOLEAN /\ playing \in BOOLEAN
    /\ session \in 0 .. MaxSessions
    /\ hostPc \in {"gone", "open", "announce", "begin", "stream", "drain", "cutStop", "cutSeek", "cutPause",
                   "seek", "pause", "paused", "pausedSeek", "pausedSeekPublish", "end", "clear", "quit"}
    /\ roomState \in {"Stopped", "Playing", "Paused"}
    /\ roomStream \in Streams /\ welcomeStream \in Streams
    /\ line \in [step : {"idle", "asked", "room", "stream", "sent"}, playback : Playbacks, stream : Streams \cup {0}, fresh : BOOLEAN]
    /\ clientPc \in {"connect", "joining", "loop", "measure", "format", "playing"}
    /\ pollPc \in {"ask", "await", "ended"}
    /\ state \in JoinedRoomState
    /\ state.connected => state.session # 0 /\ state.stream # 0
    /\ lastStream \in Streams \cup {0} /\ entered \subseteq Streams
    /\ observedInactive \in BOOLEAN
    /\ commands \in 0 .. MaxCommands /\ outages \in 0 .. MaxOutages /\ failures \in 0 .. MaxFailures

(* A client that has entered run for a segment, by a line that was asked   *)
(* for in this segment, does not enter it for the same segment again,      *)
(* however the reads of later lines fall between the host's stores and     *)
(* however the run ended: at the end of the source it does not wait for    *)
(* packets once more while the host still plays.                           *)
EntersSegmentOnce ==
    [][clientPc = "loop" /\ clientPc' = "measure" => state.stream \notin entered]_vars

Steady(s) == up /\ reachable /\ hostPc = "stream" /\ roomStream = s

(* A room that goes on playing a stream is followed: the client enters run *)
(* for this stream, whatever it missed of the commands that led to it,     *)
(* and whatever host and network did before.                               *)
FollowsRoom == \A s \in Streams : <>[]Steady(s) => <>[](lastStream = s)

Attached == state.connected /\ state.session = session

Hearing == clientPc = "playing" /\ Arriving

(* A client whose host or network was away finds its way back to the room  *)
(* that is there: it keeps polling the session of the running host, or is  *)
(* still playing what this host sends.                                     *)
Reconnects == <>[](up /\ reachable) => <>[](Attached \/ Hearing)

(* A room that goes on playing is heard.                                   *)
HearsSteadyRoom == \A s \in Streams : <>[]Steady(s) => <>[]Hearing
=============================================================================
