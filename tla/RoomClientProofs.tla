--------------------------- MODULE RoomClientProofs ---------------------------
(***************************************************************************)
(* A desktop in a room enters run at most once for a segment it knows of,  *)
(* for any number of commands, restarts, outages and failures.  The        *)
(* argument is about the lines of the host: a line that was asked for in a *)
(* segment and does not say PLAYING was read after the segment's player    *)
(* was cut, and then no later one says it until the next segment begins;   *)
(* and the streams that the lines of a connection name never decrease.     *)
(***************************************************************************)
EXTENDS RoomClient, TLAPS

-----------------------------------------------------------------------------
(* The inductive invariant.                                                *)

(* The host has counted the command of a seek before it uses a new stream. *)
StreamsCounted ==
    roomStream + (IF hostPc \in {"cutSeek", "seek", "pausedSeek"} THEN 1 ELSE 0)
        <= FirstStream + commands

(* A line is put together in the session its connection belongs to.        *)
Connections ==
    /\ up => session # 0
    /\ state.session <= session
    /\ line.step # "idle" => pollPc = "await" /\ up /\ session = state.session
    /\ clientPc = "joining" => state.session # 0
    /\ clientPc \in {"connect", "joining"} => ~state.connected
    /\ clientPc = "connect" => pollPc = "ended"
    /\ clientPc # "joining" /\ pollPc # "ended" => state.connected

(* The playback of the line has been read.                                 *)
HasPlayback == line.step \in {"room", "stream", "sent"}

(* A paused room does not play, nor does one about to be paused, and no    *)
(* segment begins in a room that is announced as paused.                   *)
PausedIsSilent ==
    /\ roomState = "Paused" \/ hostPc = "pause" => ~playing
    /\ hostPc = "begin" => roomState = "Playing"

(* Once a fresh line, or the state it became, does not say PLAYING, the    *)
(* host has cut its player, and no line after it says PLAYING.             *)
FreshLinesTrue ==
    /\ state.fresh /\ line.step # "idle" => line.fresh
    /\ line.fresh /\ HasPlayback /\ line.playback # "PLAYING" => ~playing
    /\ state.fresh /\ state.playback # "PLAYING" =>
        ~playing /\ (HasPlayback => line.playback # "PLAYING")

(* The streams of a connection's lines do not decrease.                    *)
StreamsInOrder ==
    /\ state.connected /\ state.session = session => state.stream <= roomStream
    /\ line.step = "sent" =>
        /\ line.stream # 0 /\ line.stream <= roomStream
        /\ state.connected => state.stream <= line.stream

(* What the client remembers of the streams it has entered: the last one   *)
(* is the latest, and it was not seen inactive since while it played.      *)
EnteredRemembered ==
    entered # {} /\ state.connected =>
        /\ state.fresh
        /\ observedInactive => state.playback # "PLAYING"
        /\ \A stream \in entered : stream <= lastStream
        /\ lastStream <= state.stream

ClientInv ==
    /\ TypeOK
    /\ StreamsCounted
    /\ PausedIsSilent
    /\ Connections
    /\ FreshLinesTrue
    /\ StreamsInOrder
    /\ EnteredRemembered

-----------------------------------------------------------------------------
(* A room starts with no process, and the client with no connection.       *)
LEMMA ClientInit == Init => ClientInv
<1> SUFFICES ASSUME Init PROVE ClientInv
  OBVIOUS
<1> USE RoomClientAssumption DEF Init
<1>1. TypeOK
  <2>1. NoState \in JoinedRoomState /\ ~NoState.connected
    BY DEF Playbacks, JoinedRoomState, NoState
  <2>2. NoLine \in [step : {"idle", "asked", "room", "stream", "sent"}, playback : Playbacks,
                    stream : Streams \cup {0}, fresh : BOOLEAN]
    BY DEF Playbacks, NoLine
  <2>3. FirstStream \in Streams
    BY DEF Streams
  <2>4. /\ up \in BOOLEAN /\ reachable \in BOOLEAN /\ playing \in BOOLEAN
        /\ observedInactive \in BOOLEAN
    OBVIOUS
  <2>5. /\ session \in 0 .. MaxSessions /\ commands \in 0 .. MaxCommands
        /\ outages \in 0 .. MaxOutages /\ failures \in 0 .. MaxFailures
    OBVIOUS
  <2>6. /\ lastStream \in Streams \cup {0} /\ entered \subseteq Streams
        /\ roomStream \in Streams /\ welcomeStream \in Streams
    BY <2>3
  <2>7. state \in JoinedRoomState /\ (state.connected => state.session # 0 /\ state.stream # 0)
    BY <2>1
  <2>8. line \in [step : {"idle", "asked", "room", "stream", "sent"}, playback : Playbacks,
                  stream : Streams \cup {0}, fresh : BOOLEAN]
    BY <2>2
  <2> QED
    BY <2>4, <2>5, <2>6, <2>7, <2>8 DEF TypeOK
<1>2. StreamsCounted /\ PausedIsSilent /\ Connections
  BY DEF StreamsCounted, PausedIsSilent, Connections, NoState, NoLine
<1>3. FreshLinesTrue /\ StreamsInOrder /\ EnteredRemembered
  BY DEF FreshLinesTrue, HasPlayback, StreamsInOrder, EnteredRemembered, NoState, NoLine
<1> QED
  BY <1>1, <1>2, <1>3 DEF ClientInv

-----------------------------------------------------------------------------
(* The host's main thread.                                                 *)

Host == StartHost \/ HostCrashes \/ HostStep \/ RoomIsControlled

HostLeaves ==
    UNCHANGED <<reachable, clientPc, pollPc, lastStream, observedInactive, failures, outages>>

Dies == HostDies /\ UNCHANGED <<state, entered>>

(* It starts, dies, begins to stream, or moves on without a word to the    *)
(* client; its player stays silent but for BeginStream.                    *)
LEMMA HostEffects ==
    ASSUME TypeOK, Host
    PROVE  /\ HostLeaves
           /\ \/ StartHost \/ Dies \/ BeginStream
              \/ /\ UNCHANGED <<up, session, line, state, entered>>
                 /\ roomStream' \in {roomStream, roomStream + 1}
                 /\ playing' => playing
<1> USE DEF HostLeaves, clientVars
<1>1. CASE StartHost
  BY <1>1 DEF StartHost
<1>2. CASE HostCrashes \/ HostQuits
  BY <1>2 DEF HostCrashes, HostQuits, HostDies, Dies
<1>3. CASE BeginStream
  BY <1>3 DEF BeginStream, HostMoves
<1>4. CASE OpenSegment \/ AnnouncePlaying \/ FinishPlayback
           \/ CutPlayer("cutStop", "end") \/ CutPlayer("cutSeek", "seek")
           \/ CutPlayer("cutPause", "pause")
  BY <1>4 DEF OpenSegment, AnnouncePlaying, FinishPlayback, CutPlayer, HostGoes, HostMoves
<1>5. CASE ApplySeek \/ ApplyPause \/ SeekWhilePaused \/ PublishSeekWhilePaused
           \/ FinishRoom \/ ClearPlaying
  BY <1>5 DEF ApplySeek, ApplyPause, SeekWhilePaused, PublishSeekWhilePaused, FinishRoom,
     ClearPlaying, HostGoes, HostMoves
<1>6. CASE RoomIsControlled
  BY <1>6 DEF RoomIsControlled, ExhaustSource, TakeCommand, TakeWhilePaused, HostGoes, HostMoves
<1> QED
  BY <1>1, <1>2, <1>3, <1>4, <1>5, <1>6 DEF Host, HostStep

(* All other steps leave the host alone.                                   *)
LEMMA OthersLeaveHost ==
    [Next]_vars => \/ Host
                   \/ /\ HandlerStep \/ ClientStep \/ PollStep \/ RunThrows
                         \/ UNCHANGED <<line, clientVars, pollPc>>
                      /\ UNCHANGED hostVars
<1> SUFFICES ASSUME [Next]_vars, ~Host
             PROVE  /\ HandlerStep \/ ClientStep \/ PollStep \/ RunThrows
                       \/ UNCHANGED <<line, clientVars, pollPc>>
                    /\ UNCHANGED hostVars
  OBVIOUS
<1>1. CASE NetworkFails \/ NetworkRecovers \/ UNCHANGED vars
  BY <1>1 DEF NetworkFails, NetworkRecovers, vars
<1>2. CASE HandlerStep \/ ClientStep \/ PollStep \/ RunThrows
  BY <1>2 DEF HandlerStep, ReadPlaying, ReadRoomState, ReadStream, Reading, ClientStep,
     Connect, ConnectFails, Joined, LoopDisconnects, LoopIdles, EnterRun, ClockMeasured,
     PacketsArrive, RunTimesOut, RunEnds, RunGoes, PollStep, PollAsks, PollReads, PollFails,
     RunThrows
<1> QED
  BY <1>1, <1>2 DEF Next, Host

(* Commands, and nothing else, take the host to new streams, and the room  *)
(* is paused after the player was cut.                                     *)
LEMMA HostOnlyStep ==
    TypeOK /\ StreamsCounted /\ PausedIsSilent /\ [Next]_vars
        => StreamsCounted' /\ PausedIsSilent'
<1> SUFFICES ASSUME TypeOK, StreamsCounted, PausedIsSilent, [Next]_vars
             PROVE  StreamsCounted' /\ PausedIsSilent'
  OBVIOUS
<1>1. FirstStream \in Nat /\ roomStream \in Nat /\ commands \in Nat
  BY RoomClientAssumption DEF TypeOK, Streams
<1> USE DEF StreamsCounted, PausedIsSilent
<1>2. CASE UNCHANGED hostVars
  BY <1>2 DEF hostVars
<1>3. CASE StartHost
  BY <1>1, <1>3 DEF StartHost
<1>4. CASE HostCrashes \/ HostQuits
  BY <1>1, <1>4 DEF HostCrashes, HostQuits, HostDies
<1>5. CASE OpenSegment \/ AnnouncePlaying \/ BeginStream \/ FinishPlayback
           \/ CutPlayer("cutStop", "end") \/ CutPlayer("cutSeek", "seek")
           \/ CutPlayer("cutPause", "pause")
  BY <1>1, <1>5 DEF OpenSegment, AnnouncePlaying, BeginStream, FinishPlayback, CutPlayer,
     HostGoes, HostMoves
<1>6. CASE ApplySeek \/ ApplyPause \/ SeekWhilePaused \/ PublishSeekWhilePaused
           \/ FinishRoom \/ ClearPlaying
  BY <1>1, <1>6 DEF ApplySeek, ApplyPause, SeekWhilePaused, PublishSeekWhilePaused, FinishRoom,
     ClearPlaying, HostGoes, HostMoves
<1>7. CASE RoomIsControlled
  BY <1>1, <1>7 DEF RoomIsControlled, ExhaustSource, TakeCommand, TakeWhilePaused, HostGoes,
     HostMoves
<1> QED
  BY <1>2, <1>3, <1>4, <1>5, <1>6, <1>7, OthersLeaveHost DEF Host, HostStep

-----------------------------------------------------------------------------
(* The connection and its lines.                                           *)

(* A line lives as long as the connection and the host's process.          *)
LEMMA ConnectionsStep == TypeOK /\ Connections /\ [Next]_vars => Connections'
<1> SUFFICES ASSUME TypeOK, Connections, [Next]_vars PROVE Connections'
  OBVIOUS
<1> USE DEF Connections, hostVars, clientVars
<1>1. session \in Nat /\ state.session \in Nat /\ state.connected \in BOOLEAN
  <2>1. state \in JoinedRoomState /\ session \in 0 .. MaxSessions
    BY DEF TypeOK
  <2> QED
    BY <2>1, RoomClientAssumption DEF JoinedRoomState
<1>2. CASE Host
  <2>1. HostLeaves
    BY <1>2, HostEffects
  <2>2. CASE StartHost
    BY <1>1, <2>1, <2>2 DEF StartHost, HostLeaves
  <2>3. CASE Dies
    BY <2>1, <2>3 DEF Dies, HostDies, HostLeaves, NoLine
  <2>4. CASE BeginStream
    <3>1. /\ line' = [line EXCEPT !.fresh = FALSE] /\ state' = [state EXCEPT !.fresh = FALSE]
          /\ UNCHANGED <<up, session>>
      BY <2>4 DEF BeginStream, HostMoves
    <3>2. /\ line'.step = line.step /\ state'.session = state.session
          /\ state'.connected = state.connected
      BY <3>1 DEF TypeOK, JoinedRoomState
    <3> QED
      BY <2>1, <3>1, <3>2 DEF HostLeaves
  <2>5. CASE UNCHANGED <<up, session, line, state, entered>>
    BY <2>1, <2>5 DEF HostLeaves
  <2> QED
    BY <1>2, <2>2, <2>3, <2>4, <2>5, HostEffects
<1>3. CASE HandlerStep
  <2>1. /\ line.step # "idle" /\ UNCHANGED <<up, session, state, clientPc, pollPc>>
    BY <1>3 DEF HandlerStep, ReadPlaying, ReadRoomState, ReadStream, Reading
  <2> QED
    BY <2>1
<1>4. CASE Connect
  <2>1. /\ state'.session = session /\ ~state'.connected /\ up /\ UNCHANGED <<up, session>>
        /\ pollPc' = "await" /\ clientPc' = "joining"
    BY <1>4 DEF Connect, NoState
  <2> QED
    BY <1>1, <2>1
<1>5. CASE ConnectFails
  BY <1>1, <1>5 DEF ConnectFails, NoState, NoLine
<1>6. CASE Joined
  <2>1. /\ state'.session = state.session /\ state'.connected = TRUE
        /\ line'.step = "idle" /\ pollPc' = "ask" /\ clientPc' = "loop"
        /\ UNCHANGED <<up, session>>
    BY <1>6 DEF Joined, UpdateState, NoLine, TypeOK, JoinedRoomState
  <2> QED
    BY <1>1, <2>1
<1>7. CASE LoopDisconnects
  BY <1>1, <1>7 DEF LoopDisconnects, NoState
<1>8. CASE LoopIdles \/ EnterRun \/ ClockMeasured \/ PacketsArrive \/ RunTimesOut \/ RunEnds
           \/ RunThrows
  <2>1. /\ UNCHANGED <<up, session, state, line, pollPc>>
        /\ clientPc \notin {"connect", "joining"} /\ clientPc' \notin {"connect", "joining"}
    BY <1>8 DEF LoopIdles, EnterRun, ClockMeasured, PacketsArrive, RunTimesOut, RunEnds, RunThrows,
       RunGoes
  <2> QED
    BY <2>1
<1>9. CASE PollAsks
  BY <1>9 DEF PollAsks, NoLine
<1>10. CASE PollReads
  <2>1. /\ state'.session = state.session /\ state'.connected = TRUE
        /\ line'.step = "idle" /\ pollPc # "ended" /\ clientPc # "joining"
        /\ UNCHANGED <<up, session, clientPc>>
    BY <1>10 DEF PollReads, UpdateState, NoLine, TypeOK, JoinedRoomState
  <2> QED
    BY <1>1, <2>1
<1>11. CASE PollFails
  <2>1. /\ state'.session = state.session /\ state'.connected = FALSE
        /\ line'.step = "idle" /\ pollPc' = "ended" /\ clientPc # "joining"
        /\ UNCHANGED <<up, session, clientPc>>
    BY <1>11 DEF PollFails, NoLine, TypeOK, JoinedRoomState
  <2> QED
    BY <1>1, <2>1
<1>12. CASE UNCHANGED hostVars /\ UNCHANGED <<line, clientVars, pollPc>>
  BY <1>12
<1> QED
  BY <1>2, <1>3, <1>4, <1>5, <1>6, <1>7, <1>8, <1>9, <1>10, <1>11, <1>12, OthersLeaveHost
     DEF ClientStep, PollStep

(* The fields of the client's state and of the line are what they should.  *)
LEMMA FieldTypes ==
    TypeOK =>
        /\ state.session \in Nat /\ state.stream \in Nat
        /\ state.connected \in BOOLEAN /\ state.fresh \in BOOLEAN
        /\ line.stream \in Nat /\ line.fresh \in BOOLEAN
        /\ line.step \in {"idle", "asked", "room", "stream", "sent"}
        /\ roomStream \in Nat /\ lastStream \in Nat /\ entered \subseteq Nat
        /\ session \in Nat
<1> SUFFICES ASSUME TypeOK
             PROVE  /\ state.session \in Nat /\ state.stream \in Nat
                    /\ state.connected \in BOOLEAN /\ state.fresh \in BOOLEAN
                    /\ line.stream \in Nat /\ line.fresh \in BOOLEAN
                    /\ line.step \in {"idle", "asked", "room", "stream", "sent"}
                    /\ roomStream \in Nat /\ lastStream \in Nat /\ entered \subseteq Nat
                    /\ session \in Nat
  OBVIOUS
<1>1. Streams \subseteq Nat /\ MaxSessions \in Nat
  BY RoomClientAssumption DEF Streams
<1>2. state \in JoinedRoomState
  BY DEF TypeOK
<1>3. line \in [step : {"idle", "asked", "room", "stream", "sent"}, playback : Playbacks,
                stream : Streams \cup {0}, fresh : BOOLEAN]
  BY DEF TypeOK
<1>4. /\ state.session \in Nat /\ state.stream \in Nat
      /\ state.connected \in BOOLEAN /\ state.fresh \in BOOLEAN
  <2>1. /\ state.session \in 0 .. MaxSessions /\ state.stream \in Streams \cup {0}
        /\ state.connected \in BOOLEAN /\ state.fresh \in BOOLEAN
    BY <1>2 DEF JoinedRoomState
  <2>2. state.session \in Nat
    BY <1>1, <2>1
  <2>3. state.stream \in Nat
    <3>1. CASE state.stream \in Streams
      BY <3>1, RoomClientAssumption DEF Streams
    <3>2. CASE state.stream = 0
      BY <3>2
    <3> QED
      BY <2>1, <3>1, <3>2
  <2> QED
    BY <2>1, <2>2, <2>3
<1>5. /\ line.stream \in Nat /\ line.fresh \in BOOLEAN
      /\ line.step \in {"idle", "asked", "room", "stream", "sent"}
  <2>1. /\ line.stream \in Streams \cup {0} /\ line.fresh \in BOOLEAN
        /\ line.step \in {"idle", "asked", "room", "stream", "sent"}
    BY <1>3
  <2>2. line.stream \in Nat
    <3>1. CASE line.stream \in Streams
      BY <3>1, RoomClientAssumption DEF Streams
    <3>2. CASE line.stream = 0
      BY <3>2
    <3> QED
      BY <2>1, <3>1, <3>2
  <2> QED
    BY <2>1, <2>2
<1>6. /\ roomStream \in Nat /\ lastStream \in Nat /\ entered \subseteq Nat
      /\ session \in Nat
  BY <1>1 DEF TypeOK
<1> QED
  BY <1>4, <1>5, <1>6

(* What a poll makes of a complete line.                                   *)
LEMMA StateOfLine ==
    ASSUME TypeOK, NEW isConnected \in BOOLEAN, UpdateState(isConnected)
    PROVE  /\ state'.session = state.session /\ state'.stream = line.stream
           /\ state'.playback = line.playback /\ state'.connected = isConnected
           /\ state'.fresh = line.fresh
  BY DEF UpdateState, TypeOK, JoinedRoomState

(* A new connection, or none, starts from nothing.                         *)
LEMMA StateForgotten ==
    ASSUME Connect \/ ConnectFails \/ LoopDisconnects
    PROVE  /\ ~state'.fresh /\ ~state'.connected
           /\ line' = line \/ line'.step \in {"idle", "asked"}
           /\ UNCHANGED hostVars
<1>1. CASE Connect
  BY <1>1 DEF Connect, NoState, NoLine
<1>2. CASE ConnectFails
  BY <1>2 DEF ConnectFails, NoState, NoLine
<1>3. CASE LoopDisconnects
  BY <1>3 DEF LoopDisconnects, NoState
<1> QED
  BY <1>1, <1>2, <1>3

(* What BeginStream makes of them.                                         *)
LEMMA NothingFresh ==
    ASSUME TypeOK, BeginStream
    PROVE  /\ ~line'.fresh /\ line'.step = line.step
           /\ line'.playback = line.playback /\ line'.stream = line.stream
           /\ ~state'.fresh /\ state'.connected = state.connected
           /\ state'.session = state.session /\ state'.stream = state.stream
           /\ state'.playback = state.playback
  BY DEF BeginStream, TypeOK, JoinedRoomState

(* Fresh lines: only BeginStream starts the host's player, and then no     *)
(* line is fresh.                                                          *)
LEMMA FreshStep ==
    TypeOK /\ PausedIsSilent /\ Connections /\ FreshLinesTrue /\ [Next]_vars => FreshLinesTrue'
<1> SUFFICES ASSUME TypeOK, PausedIsSilent, Connections, FreshLinesTrue, [Next]_vars
             PROVE  FreshLinesTrue'
  OBVIOUS
<1> USE DEF FreshLinesTrue, HasPlayback, hostVars, clientVars
<1>1. CASE Host
  <2>1. CASE StartHost
    BY <2>1 DEF StartHost
  <2>2. CASE Dies
    BY <2>2 DEF Dies, HostDies, NoLine
  <2>3. CASE BeginStream
    BY <2>3, NothingFresh
  <2>4. CASE UNCHANGED <<up, session, line, state, entered>> /\ (playing' => playing)
    BY <2>4
  <2> QED
    BY <1>1, <2>1, <2>2, <2>3, <2>4, HostEffects
<1>2. CASE HandlerStep /\ UNCHANGED hostVars
  <2>1. UNCHANGED <<playing, state>> /\ line'.fresh = line.fresh /\ line.step # "idle"
    BY <1>2 DEF HandlerStep, ReadPlaying, ReadRoomState, ReadStream, Reading, TypeOK
  <2>2. CASE ReadPlaying
    <3>1. line'.playback = IF playing THEN "PLAYING" ELSE "STOPPED"
      BY <2>2 DEF ReadPlaying, Reading, TypeOK
    <3> QED
      BY <2>1, <3>1
  <2>3. CASE ReadRoomState
    <3>1. /\ line'.playback = IF roomState = "Paused" THEN "PAUSED" ELSE line.playback
          /\ line.step = "room"
      BY <2>3 DEF ReadRoomState, Reading, TypeOK
    <3> QED
      BY <2>1, <3>1 DEF PausedIsSilent
  <2>4. CASE ReadStream
    <3>1. line'.playback = line.playback /\ line.step = "stream"
      BY <2>4 DEF ReadStream, Reading, TypeOK
    <3> QED
      BY <2>1, <3>1
  <2> QED
    BY <1>2, <2>2, <2>3, <2>4 DEF HandlerStep
<1>3. CASE Connect \/ ConnectFails \/ LoopDisconnects
  <2>1. ~state'.fresh
    BY <1>3, StateForgotten
  <2>2. line' = line \/ line'.step \in {"idle", "asked"}
    BY <1>3, StateForgotten
  <2>3. UNCHANGED playing
    BY <1>3, StateForgotten
  <2> QED
    BY <2>1, <2>2, <2>3
<1>4. CASE Joined \/ PollReads
  <2>1. line'.step = "idle" /\ UNCHANGED playing /\ line.step = "sent"
    BY <1>4 DEF Joined, PollReads, UpdateState, NoLine
  <2>2. UpdateState(TRUE)
    BY <1>4 DEF Joined, PollReads
  <2> QED
    BY <2>1, <2>2, StateOfLine
<1>5. CASE PollAsks
  BY <1>5 DEF PollAsks, NoLine
<1>6. CASE PollFails
  BY <1>6 DEF PollFails, NoLine, TypeOK, JoinedRoomState
<1>7. CASE LoopIdles \/ EnterRun \/ ClockMeasured \/ PacketsArrive \/ RunTimesOut \/ RunEnds
           \/ RunThrows
  BY <1>7 DEF LoopIdles, EnterRun, ClockMeasured, PacketsArrive, RunTimesOut, RunEnds, RunThrows,
     RunGoes
<1>8. CASE UNCHANGED hostVars /\ UNCHANGED <<line, clientVars, pollPc>>
  BY <1>8
<1> QED
  BY <1>1, <1>2, <1>3, <1>4, <1>5, <1>6, <1>7, <1>8, OthersLeaveHost DEF ClientStep, PollStep

(* The stream of the room only grows while the host lives.                 *)
LEMMA OrderStep == TypeOK /\ Connections /\ StreamsInOrder /\ [Next]_vars => StreamsInOrder'
<1> SUFFICES ASSUME TypeOK, Connections, StreamsInOrder, [Next]_vars PROVE StreamsInOrder'
  OBVIOUS
<1> USE DEF StreamsInOrder, hostVars, clientVars
<1>1. /\ state.stream \in Nat /\ line.stream \in Nat /\ roomStream \in Nat
      /\ state.session \in Nat /\ session \in Nat
  BY FieldTypes
<1>2. CASE Host
  <2>1. CASE StartHost
    BY <1>1, <2>1 DEF StartHost, Connections
  <2>2. CASE Dies
    BY <2>2 DEF Dies, HostDies, NoLine
  <2>3. CASE BeginStream
    <3>1. UNCHANGED <<roomStream, session>>
      BY <2>3 DEF BeginStream, HostMoves
    <3> QED
      BY <2>3, <3>1, NothingFresh
  <2>4. CASE /\ UNCHANGED <<up, session, line, state, entered>>
             /\ roomStream' \in {roomStream, roomStream + 1}
    BY <1>1, <2>4
  <2> QED
    BY <1>2, <2>1, <2>2, <2>3, <2>4, HostEffects
<1>3. CASE HandlerStep /\ UNCHANGED hostVars
  <2>1. UNCHANGED <<roomStream, session, state>>
    BY <1>3 DEF HandlerStep, ReadPlaying, ReadRoomState, ReadStream, Reading
  <2>2. CASE ReadPlaying \/ ReadRoomState
    <3>1. line'.step # "sent"
      BY <2>2 DEF ReadPlaying, ReadRoomState, Reading, TypeOK
    <3> QED
      BY <2>1, <3>1
  <2>3. CASE ReadStream
    <3>1. line'.stream = roomStream /\ line.step = "stream"
      BY <2>3 DEF ReadStream, Reading, TypeOK
    <3>2. roomStream # 0
      BY RoomClientAssumption DEF TypeOK, Streams
    <3>3. session = state.session
      BY <3>1 DEF Connections
    <3> QED
      BY <1>1, <2>1, <3>1, <3>2, <3>3
  <2> QED
    BY <1>3, <2>2, <2>3 DEF HandlerStep
<1>4. CASE Connect \/ ConnectFails \/ LoopDisconnects
  <2>1. ~state'.connected /\ UNCHANGED roomStream
    BY <1>4, StateForgotten
  <2>2. line' = line \/ line'.step \in {"idle", "asked"}
    BY <1>4, StateForgotten
  <2> QED
    BY <2>1, <2>2
<1>5. CASE Joined \/ PollReads
  <2>1. line'.step = "idle" /\ UNCHANGED <<roomStream, session>> /\ line.step = "sent"
    BY <1>5 DEF Joined, PollReads, UpdateState, NoLine
  <2>2. UpdateState(TRUE)
    BY <1>5 DEF Joined, PollReads
  <2> QED
    BY <2>1, <2>2, StateOfLine
<1>6. CASE PollAsks
  BY <1>6 DEF PollAsks, NoLine
<1>7. CASE PollFails
  BY <1>7 DEF PollFails, NoLine, TypeOK, JoinedRoomState
<1>8. CASE LoopIdles \/ EnterRun \/ ClockMeasured \/ PacketsArrive \/ RunTimesOut \/ RunEnds
           \/ RunThrows
  BY <1>8 DEF LoopIdles, EnterRun, ClockMeasured, PacketsArrive, RunTimesOut, RunEnds, RunThrows,
     RunGoes
<1>9. CASE UNCHANGED hostVars /\ UNCHANGED <<line, clientVars, pollPc>>
  BY <1>9
<1> QED
  BY <1>2, <1>3, <1>4, <1>5, <1>6, <1>7, <1>8, <1>9, OthersLeaveHost DEF ClientStep, PollStep

(* What is remembered: Joined and BeginStream forget it, EnterRun adds the *)
(* stream of a fresh line, and a later line brings the same stream or a    *)
(* later one.                                                              *)
LEMMA RememberedStep ==
    ClientInv /\ [Next]_vars => EnteredRemembered'
<1> SUFFICES ASSUME ClientInv, [Next]_vars PROVE EnteredRemembered'
  OBVIOUS
<1> USE DEF EnteredRemembered, clientVars
<1>1. /\ state.stream \in Nat /\ line.stream \in Nat /\ lastStream \in Nat
      /\ entered \subseteq Nat
  BY FieldTypes DEF ClientInv
<1>2. CASE entered' = {} \/ ~state'.connected
  BY <1>2
<1>3. CASE Host
  <2>1. CASE StartHost
    BY <2>1 DEF StartHost, ClientInv
  <2>2. CASE Dies
    BY <1>3, <2>2, HostEffects DEF Dies, HostLeaves, ClientInv
  <2>3. CASE BeginStream
    BY <1>2, <2>3 DEF BeginStream
  <2>4. CASE UNCHANGED <<up, session, line, state, entered>>
    BY <1>3, <2>4, HostEffects DEF HostLeaves, ClientInv
  <2> QED
    BY <1>3, <2>1, <2>2, <2>3, <2>4, HostEffects DEF ClientInv
<1>4. CASE HandlerStep
  BY <1>4 DEF HandlerStep, ReadPlaying, ReadRoomState, ReadStream, Reading, ClientInv
<1>5. CASE Connect \/ ConnectFails \/ LoopDisconnects
  BY <1>2, <1>5, StateForgotten
<1>6. CASE Joined
  BY <1>2, <1>6 DEF Joined
<1>7. CASE PollReads
  <2>1. /\ UpdateState(TRUE) /\ line.step = "sent" /\ pollPc = "await" /\ clientPc # "joining"
        /\ UNCHANGED <<lastStream, observedInactive, entered>>
    BY <1>7 DEF PollReads
  <2>2. state.connected
    BY <2>1 DEF ClientInv, Connections
  <2>3. /\ state'.stream = line.stream /\ state'.playback = line.playback
        /\ state'.fresh = line.fresh
    BY <2>1, StateOfLine DEF ClientInv
  <2>4. state.stream <= line.stream
    BY <2>1, <2>2 DEF ClientInv, StreamsInOrder
  <2>5. state.fresh => line.fresh
    BY <2>1 DEF ClientInv, FreshLinesTrue
  <2>6. state.fresh /\ state.playback # "PLAYING" => line.playback # "PLAYING"
    BY <2>1 DEF ClientInv, FreshLinesTrue, HasPlayback
  <2> QED
    BY <1>1, <2>1, <2>2, <2>3, <2>4, <2>5, <2>6 DEF ClientInv
<1>8. CASE PollAsks
  BY <1>8 DEF PollAsks, ClientInv
<1>9. CASE PollFails
  <2>1. ~state'.connected
    BY <1>9 DEF PollFails, ClientInv, TypeOK, JoinedRoomState
  <2> QED
    BY <1>2, <2>1
<1>10. CASE LoopIdles
  BY <1>10 DEF LoopIdles, ClientInv
<1>11. CASE EnterRun
  <2>1. /\ lastStream' = state.stream /\ observedInactive' = FALSE /\ UNCHANGED state
        /\ state.connected
        /\ entered' = IF state.fresh THEN entered \cup {state.stream} ELSE entered
    BY <1>11 DEF EnterRun
  <2>2. \A stream \in entered : stream <= state.stream
    BY <1>1, <2>1 DEF ClientInv
  <2>3. entered' # {} => state.fresh
    BY <2>1 DEF ClientInv
  <2> QED
    BY <1>1, <2>1, <2>2, <2>3
<1>12. CASE ClockMeasured \/ PacketsArrive \/ RunTimesOut \/ RunEnds \/ RunThrows
  BY <1>12 DEF ClockMeasured, PacketsArrive, RunTimesOut, RunEnds, RunThrows, RunGoes, ClientInv
<1>13. CASE UNCHANGED <<line, clientVars, pollPc>>
  BY <1>13 DEF ClientInv
<1> QED
  BY <1>3, <1>4, <1>5, <1>6, <1>7, <1>8, <1>9, <1>10, <1>11, <1>12, <1>13, OthersLeaveHost
     DEF ClientStep, PollStep

-----------------------------------------------------------------------------
(* Types.                                                                  *)

Lines == [step : {"idle", "asked", "room", "stream", "sent"}, playback : Playbacks,
          stream : Streams \cup {0}, fresh : BOOLEAN]

HostTypes ==
    /\ up \in BOOLEAN /\ playing \in BOOLEAN
    /\ session \in 0 .. MaxSessions
    /\ hostPc \in {"gone", "open", "announce", "begin", "stream", "drain", "cutStop", "cutSeek", "cutPause",
                   "seek", "pause", "paused", "pausedSeek", "pausedSeekPublish", "end", "clear", "quit"}
    /\ roomState \in {"Stopped", "Playing", "Paused"}
    /\ roomStream \in Streams /\ welcomeStream \in Streams
    /\ commands \in 0 .. MaxCommands

ControlTypes ==
    /\ reachable \in BOOLEAN
    /\ clientPc \in {"connect", "joining", "loop", "measure", "format", "playing"}
    /\ pollPc \in {"ask", "await", "ended"}
    /\ observedInactive \in BOOLEAN
    /\ outages \in 0 .. MaxOutages /\ failures \in 0 .. MaxFailures

ClientTypes ==
    /\ state \in JoinedRoomState
    /\ state.connected => state.session # 0 /\ state.stream # 0
    /\ lastStream \in Streams \cup {0} /\ entered \subseteq Streams

(* The types are those of the host, the line, the control and the client.  *)
LEMMA TypesSplit ==
    /\ TypeOK <=> HostTypes /\ line \in Lines /\ ControlTypes /\ ClientTypes
    /\ TypeOK' <=> HostTypes' /\ line' \in Lines /\ ControlTypes' /\ ClientTypes'
<1>1. TypeOK <=> HostTypes /\ line \in Lines /\ ControlTypes /\ ClientTypes
  BY DEF TypeOK, HostTypes, Lines, ControlTypes, ClientTypes
<1>2. TypeOK' <=> HostTypes' /\ line' \in Lines /\ ControlTypes' /\ ClientTypes'
  BY DEF TypeOK, HostTypes, Lines, ControlTypes, ClientTypes
<1> QED
  BY <1>1, <1>2

(* Every step keeps the types of the host.                                 *)
LEMMA HostTypesStep == ClientInv /\ StreamsCounted' /\ [Next]_vars => HostTypes'
<1> SUFFICES ASSUME ClientInv, StreamsCounted', [Next]_vars PROVE HostTypes'
  OBVIOUS
<1>1. HostTypes
  BY TypesSplit DEF ClientInv
<1>2. /\ MaxCommands \in Nat /\ MaxSessions \in Nat /\ FirstStream \in Nat \ {0}
  BY RoomClientAssumption
<1> USE <1>2 DEF HostTypes
<1>3. CASE UNCHANGED hostVars
  BY <1>1, <1>3 DEF hostVars
<1>4. CASE StartHost
  <2>1. /\ session < MaxSessions /\ up' = TRUE /\ session' = session + 1 /\ hostPc' = "open"
        /\ playing' = FALSE /\ roomState' = "Stopped"
        /\ roomStream' = FirstStream /\ welcomeStream' = FirstStream /\ UNCHANGED commands
    BY <1>4 DEF StartHost
  <2>2. FirstStream \in Streams
    BY DEF Streams
  <2>3. session' \in 0 .. MaxSessions
    BY <1>1, <2>1
  <2> QED
    BY <1>1, <2>1, <2>2, <2>3
<1>5. CASE HostCrashes \/ HostQuits
  BY <1>1, <1>5 DEF HostCrashes, HostQuits, HostDies
<1>6. CASE OpenSegment \/ AnnouncePlaying \/ BeginStream \/ FinishPlayback
           \/ CutPlayer("cutStop", "end") \/ CutPlayer("cutSeek", "seek")
           \/ CutPlayer("cutPause", "pause")
  BY <1>1, <1>6 DEF OpenSegment, AnnouncePlaying, BeginStream, FinishPlayback, CutPlayer,
     HostGoes, HostMoves
<1>7. CASE ApplySeek \/ SeekWhilePaused
  <2>1. /\ roomStream' = roomStream + 1 /\ commands' = commands
        /\ hostPc' \in {"open", "pausedSeekPublish"}
        /\ UNCHANGED <<up, playing, session, roomState, welcomeStream>>
    BY <1>7 DEF ApplySeek, SeekWhilePaused, HostGoes, HostMoves
  <2>2. roomStream' <= FirstStream + commands
    BY <1>1, <2>1 DEF StreamsCounted, Streams
  <2>3. roomStream' \in Streams
    BY <1>1, <2>1, <2>2 DEF Streams
  <2> QED
    BY <1>1, <2>1, <2>3
<1>8. CASE ApplyPause \/ PublishSeekWhilePaused \/ FinishRoom \/ ClearPlaying
  BY <1>1, <1>8 DEF ApplyPause, PublishSeekWhilePaused, FinishRoom, ClearPlaying, HostGoes, HostMoves
<1>9. CASE RoomIsControlled
  BY <1>1, <1>9 DEF RoomIsControlled, ExhaustSource, TakeCommand, TakeWhilePaused, HostGoes,
     HostMoves
<1> QED
  BY <1>3, <1>4, <1>5, <1>6, <1>7, <1>8, <1>9, OthersLeaveHost DEF Host, HostStep

(* Every step keeps the type of the line.                                  *)
LEMMA LineTypesStep == ClientInv /\ [Next]_vars => line' \in Lines
<1> SUFFICES ASSUME ClientInv, [Next]_vars PROVE line' \in Lines
  OBVIOUS
<1>1. line \in Lines /\ HostTypes
  BY TypesSplit DEF ClientInv
<1>2. NoLine \in Lines /\ [NoLine EXCEPT !.step = "asked", !.fresh = TRUE] \in Lines
  BY DEF NoLine, Lines, Playbacks
<1>3. CASE UNCHANGED line
  BY <1>1, <1>3
<1>4. CASE line' = NoLine \/ line' = [NoLine EXCEPT !.step = "asked", !.fresh = TRUE]
  BY <1>2, <1>4
<1>5. CASE Host
  <2>1. CASE BeginStream
    BY <1>1, <2>1 DEF BeginStream, Lines
  <2> QED
    BY <1>3, <1>4, <1>5, <2>1, HostEffects DEF ClientInv, StartHost, Dies, HostDies
<1>6. CASE HandlerStep
  <2>1. line.playback \in Playbacks /\ roomStream \in Streams
    BY <1>1 DEF Lines, HostTypes
  <2>2. CASE ReadPlaying
    BY <1>1, <2>2 DEF ReadPlaying, Reading, Lines, Playbacks
  <2>3. CASE ReadRoomState
    BY <1>1, <2>1, <2>3 DEF ReadRoomState, Reading, Lines, Playbacks
  <2>4. CASE ReadStream
    BY <1>1, <2>1, <2>4 DEF ReadStream, Reading, Lines
  <2> QED
    BY <1>6, <2>2, <2>3, <2>4 DEF HandlerStep
<1>7. CASE ClientStep \/ PollStep \/ RunThrows
  BY <1>3, <1>4, <1>7 DEF ClientStep, Connect, ConnectFails, Joined, LoopDisconnects, LoopIdles,
     EnterRun, ClockMeasured, PacketsArrive, RunTimesOut, RunEnds, RunGoes, PollStep, PollAsks,
     PollReads, PollFails, RunThrows
<1> QED
  BY <1>3, <1>5, <1>6, <1>7, OthersLeaveHost

(* Every step keeps the types of the threads, the network and the counters. *)
LEMMA ControlTypesStep == ClientInv /\ [Next]_vars => ControlTypes'
<1> SUFFICES ASSUME ClientInv, [Next]_vars PROVE ControlTypes'
  OBVIOUS
<1>1. ControlTypes
  BY TypesSplit DEF ClientInv
<1>2. MaxOutages \in Nat /\ MaxFailures \in Nat
  BY RoomClientAssumption
<1> USE <1>2 DEF ControlTypes
<1>3. CASE Host
  BY <1>1, <1>3, HostEffects DEF HostLeaves, ClientInv
<1>4. CASE HandlerStep
  BY <1>1, <1>4 DEF HandlerStep, ReadPlaying, ReadRoomState, ReadStream, Reading, clientVars
<1>5. CASE Connect \/ ConnectFails \/ Joined \/ LoopDisconnects
  BY <1>1, <1>5 DEF Connect, ConnectFails, Joined, LoopDisconnects
<1>6. CASE LoopIdles \/ EnterRun
  BY <1>1, <1>6 DEF LoopIdles, EnterRun
<1>7. CASE ClockMeasured \/ PacketsArrive \/ RunTimesOut \/ RunEnds \/ RunThrows
  <2>1. /\ clientPc' \in {"format", "playing", "loop"}
        /\ failures' = failures \/ (failures < MaxFailures /\ failures' = failures + 1)
        /\ UNCHANGED <<reachable, pollPc, observedInactive, outages>>
    BY <1>7 DEF ClockMeasured, PacketsArrive, RunTimesOut, RunEnds, RunThrows, RunGoes
  <2> QED
    BY <1>1, <2>1
<1>8. CASE PollStep
  BY <1>1, <1>8 DEF PollStep, PollAsks, PollReads, PollFails, clientVars
<1>9. CASE NetworkFails
  <2>1. /\ reachable' = FALSE /\ outages < MaxOutages /\ outages' = outages + 1
        /\ UNCHANGED <<clientPc, observedInactive, failures, pollPc>>
    BY <1>9 DEF NetworkFails, clientVars
  <2>2. outages' \in 0 .. MaxOutages
    BY <1>1, <2>1
  <2>3. reachable' \in BOOLEAN
    BY <2>1
  <2> QED
    BY <1>1, <2>1, <2>2, <2>3
<1>10. CASE NetworkRecovers
  <2>1. /\ reachable' = TRUE
        /\ UNCHANGED <<clientPc, observedInactive, failures, pollPc, outages>>
    BY <1>10 DEF NetworkRecovers, clientVars
  <2> QED
    BY <1>1, <2>1
<1>11. CASE UNCHANGED vars
  BY <1>1, <1>11 DEF vars, clientVars
<1> QED
  BY <1>3, <1>4, <1>5, <1>6, <1>7, <1>8, <1>9, <1>10, <1>11 DEF Next, Host, ClientStep

(* Every step keeps the types of what the client remembers.                *)
LEMMA ClientTypesStep == ClientInv /\ [Next]_vars => ClientTypes'
<1> SUFFICES ASSUME ClientInv, [Next]_vars PROVE ClientTypes'
  OBVIOUS
<1>1. ClientTypes /\ HostTypes /\ line \in Lines
  BY TypesSplit DEF ClientInv
<1> USE DEF ClientTypes
<1>2. CASE UNCHANGED <<state, lastStream, entered>>
  BY <1>1, <1>2
<1>3. CASE UNCHANGED <<lastStream, entered>> /\ state' = NoState
  <2>1. NoState \in JoinedRoomState /\ ~NoState.connected
    BY RoomClientAssumption DEF NoState, JoinedRoomState, Playbacks
  <2> QED
    BY <1>1, <1>3, <2>1
<1>4. CASE Host
  <2>1. CASE BeginStream
    <3>1. state' \in JoinedRoomState
      BY <1>1, <2>1 DEF BeginStream, JoinedRoomState
    <3>2. entered' = {} /\ lastStream' = lastStream
      BY <2>1 DEF BeginStream
    <3> QED
      BY <1>1, <2>1, <3>1, <3>2, NothingFresh DEF ClientInv
  <2> QED
    BY <1>2, <1>4, <2>1, HostEffects DEF HostLeaves, Dies, StartHost, clientVars, ClientInv
<1>5. CASE HandlerStep
  BY <1>2, <1>5 DEF HandlerStep, ReadPlaying, ReadRoomState, ReadStream, Reading, clientVars
<1>6. CASE Connect
  <2>1. /\ state' = [NoState EXCEPT !.session = session, !.stream = welcomeStream]
        /\ UNCHANGED <<lastStream, entered>>
    BY <1>6 DEF Connect
  <2>2. session \in 0 .. MaxSessions /\ welcomeStream \in Streams
    BY <1>1 DEF HostTypes
  <2>3. state' \in JoinedRoomState /\ ~state'.connected
    BY <2>1, <2>2 DEF NoState, JoinedRoomState, Playbacks
  <2> QED
    BY <1>1, <2>1, <2>3
<1>7. CASE ConnectFails \/ LoopDisconnects
  BY <1>3, <1>7 DEF ConnectFails, LoopDisconnects
<1>8. CASE Joined \/ PollReads
  <2>1. UpdateState(TRUE) /\ line.step = "sent"
    BY <1>8 DEF Joined, PollReads
  <2>2. lastStream' \in {0, lastStream} /\ entered' \in {{}, entered}
    BY <1>8 DEF Joined, PollReads
  <2>3. line.stream # 0 /\ state.session # 0
    <3>1. line.stream # 0
      BY <2>1 DEF ClientInv, StreamsInOrder
    <3>2. state.session # 0
      <4>1. CASE Joined
        BY <4>1 DEF Joined, ClientInv, Connections
      <4>2. CASE PollReads
        BY <1>1, <4>2 DEF PollReads, ClientInv, Connections
      <4> QED
        BY <1>8, <4>1, <4>2
    <3> QED
      BY <3>1, <3>2
  <2>4. /\ line.stream \in Streams \cup {0} /\ line.playback \in Playbacks /\ line.fresh \in BOOLEAN
    BY <1>1 DEF Lines
  <2>5. state' \in JoinedRoomState
    BY <1>1, <2>1, <2>4 DEF UpdateState, JoinedRoomState
  <2>6. state'.session = state.session /\ state'.stream = line.stream
    BY <2>1, StateOfLine DEF ClientInv
  <2> QED
    BY <1>1, <2>2, <2>3, <2>5, <2>6
<1>9. CASE PollFails
  <2>1. /\ state' = [state EXCEPT !.connected = FALSE] /\ UNCHANGED <<lastStream, entered>>
    BY <1>9 DEF PollFails
  <2>2. state' \in JoinedRoomState /\ ~state'.connected
    BY <1>1, <2>1 DEF JoinedRoomState
  <2> QED
    BY <1>1, <2>1, <2>2
<1>10. CASE EnterRun
  <2>1. /\ state.connected /\ UNCHANGED state /\ lastStream' = state.stream
        /\ entered' \subseteq entered \cup {state.stream}
    BY <1>10 DEF EnterRun
  <2>2. state.stream \in Streams
    <3>1. state.stream \in Streams \cup {0}
      BY <1>1 DEF JoinedRoomState
    <3> QED
      BY <1>1, <2>1, <3>1
  <2> QED
    BY <1>1, <2>1, <2>2
<1>11. CASE LoopIdles \/ ClockMeasured \/ PacketsArrive \/ RunTimesOut \/ RunEnds \/ RunThrows
  BY <1>2, <1>11 DEF LoopIdles, ClockMeasured, PacketsArrive, RunTimesOut, RunEnds, RunThrows, RunGoes
<1>12. CASE PollAsks
  BY <1>2, <1>12 DEF PollAsks, clientVars
<1>13. CASE UNCHANGED <<line, clientVars, pollPc>>
  BY <1>2, <1>13 DEF clientVars
<1> QED
  BY <1>4, <1>5, <1>6, <1>7, <1>8, <1>9, <1>10, <1>11, <1>12, <1>13, OthersLeaveHost
     DEF ClientStep, PollStep

-----------------------------------------------------------------------------
(* The invariant holds throughout, and the properties follow.              *)

(* Every step keeps the whole invariant.                                   *)
LEMMA ClientStepKeeps == ClientInv /\ [Next]_vars => ClientInv'
<1> SUFFICES ASSUME ClientInv, [Next]_vars PROVE ClientInv'
  OBVIOUS
<1>1. StreamsCounted' /\ PausedIsSilent'
  BY HostOnlyStep DEF ClientInv
<1>2. TypeOK'
  BY <1>1, TypesSplit, HostTypesStep, LineTypesStep, ControlTypesStep, ClientTypesStep
<1>3. Connections' /\ FreshLinesTrue' /\ StreamsInOrder' /\ EnteredRemembered'
  BY ConnectionsStep, FreshStep, OrderStep, RememberedStep DEF ClientInv
<1> QED
  BY <1>1, <1>2, <1>3 DEF ClientInv

(* Host, line and client stay well typed; a connected client has the       *)
(* session and the stream of its host.                                     *)
THEOREM TypeCorrect == Spec => []TypeOK
<1>1. ClientInv => TypeOK
  BY DEF ClientInv
<1> QED
  BY <1>1, ClientInit, ClientStepKeeps, PTL DEF Spec

(* runRoomClient enters run at most once for a segment that it knows of:   *)
(* not again at the end of the source, nor after a run that was cut short, *)
(* nor by a line whose reads fell between the host's stores.               *)
THEOREM EntersAlwaysOnce == Spec => EntersSegmentOnce
<1>1. ClientInv /\ [Next]_vars =>
        [clientPc = "loop" /\ clientPc' = "measure" => state.stream \notin entered]_vars
  <2> SUFFICES ASSUME ClientInv, [Next]_vars, clientPc = "loop", clientPc' = "measure"
               PROVE  state.stream \notin entered
    OBVIOUS
  <2>1. EnterRun
    <3>1. ~Host
      BY HostEffects DEF HostLeaves, ClientInv
    <3>2. ~HandlerStep
      BY DEF HandlerStep, ReadPlaying, ReadRoomState, ReadStream, Reading, clientVars
    <3>3. ~PollStep
      BY DEF PollStep, PollAsks, PollReads, PollFails, clientVars
    <3>4. ~(RunThrows \/ Connect \/ ConnectFails \/ Joined \/ LoopDisconnects \/ LoopIdles
            \/ ClockMeasured \/ PacketsArrive \/ RunTimesOut \/ RunEnds)
      BY DEF RunThrows, Connect, ConnectFails, Joined, LoopDisconnects, LoopIdles, ClockMeasured,
         PacketsArrive, RunTimesOut, RunEnds, RunGoes
    <3> QED
      BY <3>1, <3>2, <3>3, <3>4, OthersLeaveHost DEF ClientStep, clientVars
  <2>2. /\ state.connected /\ state.playback = "PLAYING"
        /\ observedInactive \/ state.stream # lastStream
    BY <2>1 DEF EnterRun, ShouldEnter
  <2>3. CASE entered # {}
    <3>1. /\ state.stream # lastStream /\ lastStream <= state.stream
          /\ \A stream \in entered : stream <= lastStream
      BY <2>2, <2>3 DEF ClientInv, EnteredRemembered
    <3>2. state.stream \in Nat /\ lastStream \in Nat /\ entered \subseteq Nat
      BY FieldTypes DEF ClientInv
    <3> QED
      BY <3>1, <3>2
  <2> QED
    BY <2>3
<1> QED
  BY <1>1, ClientInit, ClientStepKeeps, PTL DEF Spec, EntersSegmentOnce
=============================================================================
