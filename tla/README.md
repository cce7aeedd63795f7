# Formal verification of the room, the host and the receivers

TLA+ models of `sync-bluetooth-devices`: a desktop host that plays an audio
file and streams timestamped PCM over UDP to the members of a room, which play
it at the same time. TLC checks the models on small instances; TLAPS proves
every safety property that a passing run checks, and the refinement, for every
value of the constants.

## Inventory

| Part | State | Operations | Interacts with |
| --- | --- | --- | --- |
| Room (`core/src/Room.cpp`) | playback state, stream identifier, one pending and one recent action, member table, next token | join, leave, updateMember, setPlaybackState, setStreamId, scheduleAction, takeAction, snapshot; each under one mutex | control workers, host thread, packet loop |
| Control server (`desktop/src/ControlChannel.cpp`) | listener, up to 32 workers with `active` flags, per worker the joined device and its token | accept loop, HELLO, JOIN, CLIENT_STATE, MEMBERS, HOST_STATE, PLAY/PAUSE/STOP/SEEK, LEAVE | Room, `ControlStreamState` atomics, TCP peers |
| Host thread (`runHost` in `desktop/src/main.cpp`) | frame, segment start, command being executed | play a segment, take a command, pause loop, finish | Room, player, packet loop |
| Packet loop (`DesktopNetworkHost::streamFile`) | start frame, sequence number, presentation time | size, read and send packets; end for a command or with the source | Room snapshot, UDP, member table |
| Host player (`desktop/src/DesktopAudioPlayer.cpp`) | ring, read and write positions, flags | playFrom, stop, prefetch thread, device callback | host thread |
| Jitter buffer (`core/src/JitterBuffer.cpp`) | packets by start frame, latest read and end frame, format, metrics | push, readFrames, firstPacketAtOrAfter | receiver thread, audio callback |
| Desktop receiver (`desktop/src/DesktopAudioClient.cpp`) | expected stream, sequence statistics, playback position | receive, render, select the start packet, end | jitter buffer, clock estimate |
| Room client (`runRoomClient`, `RoomJoinClient`) | last stream, observedInactive, reported host state | join, poll, run the receiver, reconnect | control server, receiver |
| Clock synchronisation (`ClockSync`, `ClockSyncTransport`) | samples, best estimate | probe, answer, estimate | receivers |
| Phone receiver (`ios/SyncAudioReceiver`) | control session, packet accumulator, queue, scheduled action, player | join, reconnect, receive, schedule, apply actions | control server, host stream |
| Playback clock, drift correction, latency, packet format, impairment, discovery, sockets, user interfaces | see `PROJECT.json` | | |

What is hard here: commands are accepted by many threads while one thread
executes them and a packet loop looks ahead; a device reconnects while the
worker of its old connection still runs; a lock-free ring and a callback that
must not block; a network that loses, duplicates and reorders; decisions made
from values read at different times. `PROJECT.json` lists these hazards, each
at the line where it bites, with the properties that watch it.

The room client looks at a room that goes on without it, and the host may die
and come back; the clock exchange must make sense of late and lopsided answers.

What makes each part correct: a segment ends where its command says, within a
frame, and the host's own player is where its packets say; a command is neither
lost nor doubled; announcements match the stream; an entry of the
member table belongs to the newest session of its device and goes away with it;
the device hears the source in order; a receiver plays everything that can
still be played, reports loss honestly and ends after the last frame; the clock
offset is as good as the network allows, and a receiver starts with the host; a
room client follows its room and finds it again.

## Modules

* `RoomContract` - what a room promises its members about commands: at most one
  announced, at most one executed, no change of state or stream but as the
  effect of one, the start of play or the end of the source.
* `RoomHost` - Room's command slot, the command handlers, `runHost` and
  `streamFile`. One action per step of a thread between two accesses to shared
  state: a handler takes a snapshot (`CheckRequest`), reads the clock
  (`ReadClock`) and schedules (`ScheduleRequest`); the host thread's program
  counter `hostPc` follows the loop of `runHost`. Time is a counter of ticks, of
  which a frame lasts several and a fraction (`PlaybackTimeline`), as it does
  nanoseconds: a cutoff lies within a frame as a rule, and `RequestedFrames`
  rounds what is left of the segment down, and then up to one. `HandlerStall`
  bounds how long a handler is held up between the clock and the slot. The
  segment has the code's two clocks: the one of the packets (`PresentationAt`)
  starts at `initialFrame` and includes the output latency, the one of the
  player (`playerStart`) starts at frame zero of the file and does not. The
  module implements `RoomContract` (`ImplementsContract`).
* `RoomMembers` - member table and control sessions: the accept thread with its
  bounded worker list and one worker per connection. JOIN and CLIENT_STATE take
  two critical sections, hence two steps.
* `PlaybackRing` - the host player's ring. A slot being written holds `Junk`
  until the copy is complete, so that an overlap of the two threads is seen.
* `DesktopReceiver` - jitter buffer, receiver thread, audio callback and the
  loop that ends playback. `Sent` is what the network may deliver, in any order
  and number; a failed try_lock is the second disjunct of `ChunkReads`.
* `PlaybackTimeline` - the playback clock's conversions between frames and
  timestamps, as operators.
* `ClockExchange` - `ClockSyncClient::measure`, the thread of `ClockSyncServer`,
  the estimate of one exchange, the choice among exchanges, and the part of
  `DesktopAudioClient::run` that measures, selects the start packet and measures
  again. `DeviceCallback` is the player's callback up to its first frame: the
  device calls for the first time within `DeviceStart`, and then again within
  `Period`; a callback before the scheduled instant is silent, the first one at
  or after it plays, which `heard` records. Both clocks advance together,
  `HostAhead` apart: the drift over one
  measurement is far below its round trip. `measure` sends one probe and reads
  one datagram per round; a datagram that answers an earlier probe is read in
  the place of the right one and thrown away. `std::sort` is not stable, so
  `Measured` is the set of results that any order of equal keys gives. The
  estimator enters with what decides about control: the order of its samples and
  the offset of the first. Packets are on the host's packet clock, the output
  latency and `InitialFrame` included.
* `RoomClient` - `runRoomClient`, `RoomJoinClient` with its polling thread, and
  the host as far as the HOST_STATE line shows it. The line is read in three
  steps (`ReadPlaying`, `ReadRoomState`, `ReadStream`) while `runHost` goes on
  store by store. `DesktopAudioClient::run` is one control state per wait:
  measuring, waiting for packets, playing; `Arriving` says whether packets of
  its stream reach it. The host may crash and restart with the same stream
  identifiers, and the network may fail for a while.
* `PhoneReceiver` - the phone's `UDPStreamReceiver` and the filter of its
  `StreamAccumulator`, against a host that pauses, resumes and seeks. `segment`
  is a history variable: packets do not carry it, and that is the point.
* `RoomHostProofs`, `RoomMembersProofs`, `DesktopReceiverProofs`,
  `PlaybackRingProofs`, `PlaybackTimelineProofs`, `ClockExchangeProofs` and
  `RoomClientProofs` - the theorems about the module each is named for.
* `MC*` - instances for TLC; the cfg files give the constants.

Definitions whose comment starts with "Fault", and those whose name extends the
name of the definition below them, are mistakes of the kind a change of the code
could make. No specification uses them; they show that the properties notice
(`mutants` in `PROJECT.json`).

## Runs

| Run | Shows | Bounds |
| --- | --- | --- |
| `room_host` | types, `CutoffRespected`, `PlayerAtPresentedFrame`, `AnnouncementMatchesStream`, refinement of `RoomContract` | two handlers, 3 ticks for 2 frames, 10 frames in packets of 3 (5 ticks), delay 13 = 2·1 + 2·5 + stall 1, stream identifiers wrap after 2, commands until time 12, clock until 26: several commands of every kind, the end of the source and the wrap all happen; cutoffs fall on and between frames, leave one frame, two or a part of one, and segments begin at the frame of a seek and at the one of a pause |
| `room_host_live` | `StopHonoured`, `SeekHonoured` | one handler (the slot is single), 5 frames in packets of 1, negative host latency, commands until 7, clock until 16 |
| `pause_in_window` | violated: `AcceptedCommandTaken` | as above with 7 frames, positive latency, commands until 6 |
| `seek_in_window` | violated: `SeekKeepsOldPacketsOut` | 7 frames in packets of 2, delay 8, three stream identifiers, commands until 11, clock until 29 |
| `room_members` | types, `EveryMemberHasASession`, `NewestJoinWins`, `OnlyTheOwnerTouches`, `ClosedSessionsLeave` | two devices, three connections, two workers, three tokens: a device joins again while its old session ends, a connection changes its device, the worker list is full |
| `playback_ring` | types, `HeardInOrder`, `SegmentEnds` | 6 frames, ring of 4, chunks of 2, periods of up to 3, two segments: the ring wraps, fills and is reused |
| `ring_end` | violated: `EndAfterLastFrame` | same |
| `desktop_receiver` | types, `AcceptedUntilPlayed`, `RefusedOnlyWhenPassed`, `LossNotUnderReported`, `EndsAfterLastFrame`, `PlaybackEnds` | a buffer of 2 packets, 3 packets of the stream with a gap, one of another stream, one of another format, remembered gaps of 1 |
| `client_clock` | types, `SamplesAreFresh`, `OffsetErrorBounded`, `EstimatorAccepts`, `StartsTogether`, `StartIsAhead`, `MeasurementEnds` | three answers per measurement (the code asks for eight and uses the best three), 4 ticks, 4 datagrams, 2 of them on their way at a time: answers of an earlier measurement arrive in a later one, measurements end with no, one, two and three samples. The device takes 3 ticks to its first callback and 2 between callbacks, the largest `LeadAssumption` allows: playback begins on time, one tick late and a whole period late, after callbacks in silence and without |
| `room_client` | types, `EntersSegmentOnce`, `FollowsRoom`, `Reconnects` | two commands, two lives of the host, one interruption of the network, one failing run: a pause and resume between two polls, a seek during a run, a restart during a poll |
| `room_client_outage` | violated: `HearsSteadyRoom` | no command, one life of the host, one interruption |
| `phone_resume` | violated: `OnlyDuplicatesDiscarded` | a window of 2, segments of 2 packets, two commands, one reconnection |

Deadlock is checked in `room_client` only, where the client loops for ever.
Elsewhere it is not: the host ends, sessions run out of tokens, segments
out of calls, receivers return and time stops, by design or by a named bound.

The five violations are disagreements between the code and its documents or
comments; `findings` in `PROJECT.json` quotes the lines.

* A PAUSE accepted while an earlier one is being executed stays pending for
  ever: the pause loop of `runHost` has no branch for it.
* A SEEK accepted while an earlier one is being executed reuses its stream
  identifier.
* The player's callback may end a segment before the last decoded frames.
* A room client whose packets stay away for longer than the buffer lasts leaves
  `run` and does not enter it again while the room plays the same stream:
  `observedInactive` is false and the stream identifier is the last one. A PAUSE
  and PLAY that both fall between two polls, and a run that ends with an
  exception, end the same way. `FollowsRoom` is what does hold: the client has
  entered `run` for the stream the room settles on.
* After a pause the phone discards the packets of the resumed segment as
  duplicates, until their sequence numbers pass those it has seen.

`CutoffRespected` does not say that nothing is presented past the cutoff: it is
not so. The frames that are left are rounded down, and when less than one is left
one more is read all the same, as a packet of its own, so that a segment that a
command ends goes on up to a frame past the cutoff; at 48 kHz this is 21
microseconds. `StartsTogether` adds
the device: a receiver is heard up to the error of its clock early, and up to
that and one period of its device (10 ms) late. The code measures this lateness
(`startLateness`) and reports it.

`AcceptedUntilPlayed` judges an eviction by what the buffer holds afterwards,
not by the operator that evicts: a packet that can still be heard may leave only
a buffer that stays full of later ones.

`OffsetErrorBounded` is about the second shortest round trip, not about the
shortest, which is the one `measure` reports: among three samples the middle
offset lies between two others, and of any two the worse one is as bad as half
the second shortest round trip allows. The reported round trip therefore does
not bound the error (TLC shows this at once when `second` is replaced by `rtt`).

## Fairness

* `RoomHost!FairSpec`: the host thread only ever waits in sleeps, so it is
  weakly fair; a handler that has read the clock goes on. The clock is strongly
  fair, since a stalled handler disables `Tick`, which is how `HandlerStall` is
  a bound and not an assumption about when commands come.
* `RoomMembers!FairSpec`: a worker whose peer closed, or whose server stops,
  leaves its loop. Strong, because lines that were already on their way may be
  served first. Nothing is assumed about peers that vanish.
* `PlaybackRing!FairSpec`: threads run, the device calls back, the start time
  comes. The caller need never stop a segment.
* `DesktopReceiver!FairSpec`: the device calls back, chunks advance (the ratio
  is close to one), the try_lock does not fail for ever, `run` polls. Nothing
  is assumed about the network.
* `ClockExchange!FairSpec`: the measuring thread runs, the device calls back and
  the clock goes on; a read with a receive timeout returns. Every datagram may be lost. The clock
  stands still while the thread runs between two waits, which is short against
  a tick.
* `RoomClient!FairSpec`: the host's main thread, its handler, the polling thread
  and the client's loop run. Commands, crashes, restarts and the network are not
  fair: they happen or not.

## Proofs

Constants are assumed to be what their names say (`HostAssumption`,
`MembersAssumption`, `ReceiverAssumption`, `RingAssumption`, `ClockAssumption`,
`RoomClientAssumption`). Four assumptions say more:

* `DelayAssumption`: `2 * SendAhead + 2 * FrameToDuration(FramesPerPacket) +
  HandlerStall <= CommandDelay`. The code has 500 ms, 10 ms and 2 s, which leaves
  almost a second for the stall.
* `HostAssumption` has `2 * SampleRate <= NanosecondsPerSecond + 1`: a frame
  lasts two ticks, or a fraction of a tick less, for the player's clock and the
  packets' round apart by up to two ticks.
* `LeadAssumption`: `DeviceStart <= StartupLead + Period`. The device, opened
  before the start packet is chosen, calls back for the first time no later than
  a period after the startup lead (40 ms and 10 ms): without this the lateness
  has no bound.
* `TimelineAssumption`: a frame is not shorter than a tick of the clock. Ticks
  are nanoseconds, and audio has far fewer than 10^9 frames a second.

The offset between the clocks, the latency, every timeout and the times and
losses of the network are arbitrary. Each inductive invariant was first checked
by TLC, as an invariant of the component's run.

* `RoomHostProofs`: `TypeCorrect`, `CutoffAlwaysRespected`,
  `PlayerAlwaysAtPresentedFrame`, `AnnouncementAlwaysMatches`,
  `HostImplementsContract`. `CutoffRespected` looks
  at the moment after a command was taken and is not inductive. `HostInv` adds
  where the thread carries a command (`CommandCarried`), what is announced
  (`Announced`), that a handler's reading of the clock is fresh
  (`ReadingsFresh`), that the two clocks of a
  segment were set from one start and one frame (`ClocksInStep`), that a pending
  command's effective time lies behind every time the host works towards
  (`DeadlinesOrdered`), that no packet but the first
  of a segment is prepared further ahead than the send-ahead and one packet
  (`SentAhead`), and that neither the segment nor the waiting packet passes the
  cutoff (`NotPastCutoff`, `WaitingPacketFits`). The first packet of a segment
  is the exception: it can be prepared up to the command delay ahead.
  `ReadFramesFits` is the step at the cutoff: the packet's frames, rounded down,
  end before it, and each sum of rounded durations is less than a frame above
  the rounded sum (`DurationSum`). `PlayerAlwaysAtPresentedFrame` follows from
  `ClocksInStep`: the durations of the frames before and after `initialFrame`,
  rounded up one by one, exceed the time of their sum by less than two ticks,
  which is less than a frame.
* `RoomMembersProofs`: `TypeCorrect`, `MembersHaveSessions`,
  `NewestJoinAlwaysWins`, `OnlyTheOwnerEverTouches`. The invariant `Sound` says
  that tokens are handed out once, that every entry has the session that holds
  its token, and what a worker carries between two critical sections.
* `DesktopReceiverProofs`: `AcceptedAlwaysUntilPlayed`,
  `RefusedAlwaysWhenPassed`, `EndsAlwaysAfterLastFrame`. `ReceiverInv` orders
  three positions: what counts as read is at most what the callback consumed,
  and nothing is read before the player is scheduled. `EndInv` adds that the
  sampled position lags behind the callback and that the end of the buffer
  covers everything accepted. `AcceptedAlwaysUntilPlayed` is about one step:
  what the cleanup takes has been consumed (`ExpiredArePlayed`), and what makes
  room is the earliest of one packet too many (`InsertedOne`, `TrimEvicts`).
  `TypeCorrect` and `LossNeverUnderReported` rest on `CountInv`. The types are
  not inductive alone: that `packetsLost` is not decremented below zero needs
  that a sequence number in `missing` is one of those not yet seen (`Unseen`)
  and that there are at most `packetsLost` of these. A new highest number adds
  exactly the gap before it; a late one leaves `Unseen` when it arrives. That
  the buffer keeps to its limit needs that the packet to evict exists, the
  least start of a nonempty set.
* `PlaybackRingProofs`: `TypeCorrect`, `AlwaysHeardInOrder`. `RingInv` says that
  every frame between `readFrame` and `writtenFrame` is complete in its slot
  (`Buffered`), that the space the prefetch thread saw free is still free and
  the frames the callback saw written are still there (`Positions`), that the
  device has heard as many frames as were read (`HeardAll`), and when the two
  threads run at all (`Threads`). The one fact about numbers is
  `SlotsDistinct`: positions less than the capacity apart have different
  remainders.
* `PlaybackTimelineProofs`: `FrameOfItsTimestamp`. `FrameToDuration` is the time
  of a frame rounded up, although the code divides twice (`DurationBounds`), and
  an instant within a frame converts to this frame (`FrameAtElapsed`); both rest
  on the uniqueness of quotient and remainder.
* `ClockExchangeProofs`: `TypeCorrect`, `SamplesAlwaysFresh`,
  `OffsetErrorAlwaysBounded`, `EstimatorAlwaysAccepts`, `StartsAlwaysTogether`,
  `StartAlwaysAhead`. `ClockInv` orders the four
  readings of an exchange on the host's clock (`ReadingsInOrder`: the host's two
  lie between the client's, for a request, the request being served and an
  answer alike), which bounds the error of one sample by its round trip. The
  middle offset of three lies between those of two others, and of any two
  samples the better has at most the second shortest round trip: either the
  middle sample is itself one of the two best, or it lies between them.
  `SamplesOfMeasurement` and `Stages` say which probe and
  which measurement a sample and an estimate belong to: identifiers grow, so no
  answer counts twice, and a measurement starts after the last one's time.
  `CallbacksInTime` bounds the instant of the first frame: the last callback in
  silence was before the scheduled instant and the next comes within a period;
  when the first callback plays at once, `StartIsAhead` and `LeadAssumption` are
  what bounds it.
* `RoomClientProofs`: `TypeCorrect`, `EntersAlwaysOnce`. `ClientInv` is about the
  lines of the host: one that was asked for in the current segment and does not
  say PLAYING was read after the player was cut, and then no later line says it
  (`FreshLinesTrue`); the streams that a connection's lines name never decrease
  (`StreamsInOrder`); `EnteredRemembered` ties this to what the client keeps:
  the last stream it entered is the latest one, and it was not seen inactive
  while it played.

Only model-checked: liveness, which is out of the prover's reach
(`StopHonoured`, `SeekHonoured`, `ClosedSessionsLeave`, `SegmentEnds`,
`PlaybackEnds`, `MeasurementEnds`, `FollowsRoom`, `Reconnects`), and the five
violations, which are counterexamples.

## Not modelled, and the plan

Not modelled, with the reason:

* which stream a receiver outside a room takes: the first packet decides
  (DesktopAudioClient.cpp:124), also a delayed one of an earlier run of the host.
  `DesktopReceiver` lets it be either, and the repository promises neither;
* user interfaces, discovery, sockets, printed statistics: input and output;
* the byte layout of audio and clock messages: one function each way, which the
  repository's own tests cover field by field;
* regression, outlier filter and resampling ratio of the drift correction:
  floating-point arithmetic. Clocks of different rates are not modelled either,
  so that the age of an estimate makes no difference here;
* `framesUntilCutoff` is a double in the code: `RequestedFrames` has the exact
  quotient. A whole number may come out one frame short, which is then one more
  packet; timestamps past the largest count, where `frameToTimestamp` throws,
  are modelled where the receiver reads them (`HasTimestamp`), not in the host,
  which would need to run for centuries;
* the phone's playback controller, control channel and view model: their order
  depends on the system's queues and on the audio engine's clock. Two hazards of
  theirs are listed without a property: one slot for the scheduled action, and
  SYNC_AT that may arrive before its session is set up.

Next, proofs:

1. What does hold at the end of a segment in `PlaybackRing`: the frames that
   `EndAfterLastFrame` may miss are those decoded between the callback's two
   loads.
2. The safety half of `FollowsRoom`: a client that settles on an older stream
   has a line of the host still to come.
3. What does hold of duplicates in `PhoneReceiver`: nothing that is new is
   discarded before the first resume.
4. A contract for the member table that `RoomMembers` refines, as `RoomHost`
   does `RoomContract`.
