---------------------------- MODULE PhoneReceiver ---------------------------
(***************************************************************************)
(* The phone's stream receiver (ios/SyncAudioReceiver): the queue of       *)
(* UDPStreamReceiver, the packets its StreamAccumulator lets through to    *)
(* the playback controller, and the host as far as its segments show in    *)
(* the packets.  The phone stays in one session; the format of the stream  *)
(* does not change.  The accumulator's statistics are left out: nothing    *)
(* depends on them but the display and the buffer target.  The host        *)
(* executes one command at a time.                                         *)
(*                                                                         *)
(* The network loses, delays, reorders and duplicates datagrams: a packet  *)
(* that was received may be received again, one that never is was lost.    *)
(***************************************************************************)
EXTENDS Naturals, Sequences

CONSTANTS
    WindowSize,      \* sequence numbers the accumulator remembers (4096)
    FirstStream,     \* the stream a new room starts with
    MaxPackets,      \* bound: packets of a segment
    MaxCommands,     \* bound: room commands the host executes
    MaxRejoins       \* bound: times the phone joins the session again

VARIABLES
    playing,         \* host: a segment is being sent, the room is not paused
    stream,          \* host: streamId
    segment,         \* host: number of the segment, which packets do not carry
    nextSequence,    \* host: streamFile's sequenceNumber
    announced,       \* host: the stream of the last accepted SEEK
    sent,            \* network: the packets sent so far
    expected,        \* UDPStreamReceiver: expectedStreamID
    recent,          \* StreamAccumulator: recentSequenceOrder
    passed,          \* history: packets handed to the playback controller
    discarded,       \* history: packets discarded as duplicates
    commands, rejoins  \* bounds

hostVars == <<playing, stream, segment, nextSequence, announced, sent, commands>>
phoneVars == <<expected, recent, passed, discarded, rejoins>>
vars == <<hostVars, phoneVars>>

Init ==
    /\ playing = TRUE
    /\ stream = FirstStream
    /\ segment = 1
    /\ nextSequence = 0
    /\ announced = FirstStream
    /\ sent = {}
    /\ expected = FirstStream
    /\ recent = <<>>
    /\ passed = {}
    /\ discarded = {}
    /\ commands = 0
    /\ rejoins = 0
-----------------------------------------------------------------------------
(* The host.                                                               *)

SendPacket ==
    /\ playing
    /\ nextSequence < MaxPackets
    /\ sent' = sent \cup {[stream |-> stream, segment |-> segment, sequence |-> nextSequence]}
    /\ nextSequence' = nextSequence + 1
    /\ UNCHANGED <<playing, stream, segment, announced, commands, phoneVars>>

(* streamFile is called again: its sequence numbers start at zero.         *)
BeginSegment == segment' = segment + 1 /\ nextSequence' = 0

Pause ==
    /\ playing
    /\ announced = stream
    /\ commands < MaxCommands
    /\ playing' = FALSE
    /\ commands' = commands + 1
    /\ UNCHANGED <<stream, segment, nextSequence, announced, sent, phoneVars>>

(* PLAY keeps the stream identifier.                                       *)
Resume ==
    /\ ~playing
    /\ announced = stream
    /\ playing' = TRUE
    /\ BeginSegment
    /\ UNCHANGED <<stream, announced, sent, commands, phoneVars>>

(* SEEK is announced two seconds before it is executed.                    *)
AnnounceSeek ==
    /\ announced = stream
    /\ commands < MaxCommands
    /\ announced' = stream + 1
    /\ commands' = commands + 1
    /\ UNCHANGED <<playing, stream, segment, nextSequence, sent, phoneVars>>

ExecuteSeek ==
    /\ announced # stream
    /\ stream' = announced
    /\ IF playing THEN BeginSegment ELSE UNCHANGED <<segment, nextSequence>>
    /\ UNCHANGED <<playing, announced, sent, commands, phoneVars>>
-----------------------------------------------------------------------------
(* The phone: every action is one block of the receiver's serial queue.    *)

(* WELCOME of a reconnection.                                              *)
Start ==
    /\ rejoins < MaxRejoins
    /\ rejoins' = rejoins + 1
    /\ expected' = stream
    /\ recent' = <<>>
    /\ UNCHANGED <<hostVars, passed, discarded>>

(* Shortly before a SEEK takes effect, by the phone's estimate of the      *)
(* host's clock.                                                           *)
ExpectStream ==
    /\ expected < announced
    /\ expected' = announced
    /\ recent' = <<>>
    /\ UNCHANGED <<hostVars, passed, discarded, rejoins>>

Remembered(sequence) == \E i \in DOMAIN recent : recent[i] = sequence

Remember(sequence) ==
    LET order == Append(recent, sequence)
    IN  recent' = IF Len(order) > WindowSize THEN Tail(order) ELSE order

(* Packets of other streams are ignored.  All that is recorded since the   *)
(* last reset is of the expected stream.                                   *)
Receive(packet) ==
    /\ packet \in sent
    /\ packet.stream = expected
    /\ IF Remembered(packet.sequence)
       THEN discarded' = discarded \cup {packet} /\ UNCHANGED <<recent, passed>>
       ELSE Remember(packet.sequence) /\ passed' = passed \cup {packet} /\ UNCHANGED discarded
    /\ UNCHANGED <<hostVars, expected, rejoins>>

Next ==
    \/ SendPacket \/ Pause \/ Resume \/ AnnounceSeek \/ ExecuteSeek
    \/ Start \/ ExpectStream
    \/ \E packet \in sent : Receive(packet)

Spec == Init /\ [][Next]_vars
-----------------------------------------------------------------------------
(* What is discarded as a duplicate was received before:                   *)
(* docs/FAILURE_MODES.md:15 says that the sequence set detects datagrams   *)
(* the network resends, and that duplicates are what is discarded.         *)
OnlyDuplicatesDiscarded == discarded \subseteq passed
=============================================================================
