--------------------------- MODULE DesktopReceiver ---------------------------
(***************************************************************************)
(* The desktop receiver: JitterBuffer (core/src/JitterBuffer.cpp) between  *)
(* the thread that receives datagrams (PacketReceiverWorker), the audio    *)
(* callback that renders them (ScheduledStreamPlayer) and the thread that  *)
(* starts and ends playback (DesktopAudioClient::run), all in              *)
(* desktop/src/DesktopAudioClient.cpp.                                     *)
(*                                                                         *)
(* The network delivers the packets the host sent in any order, any number *)
(* of times or never.  The callback must not block: it gives up on the     *)
(* buffer's mutex when the receiver holds it, and renders silence.  A      *)
(* packet is the range of frames it holds; times only decide when the      *)
(* steps happen.                                                           *)
(***************************************************************************)
EXTENDS Integers, FiniteSets

CONSTANTS
    Sent,           \* the packets that were sent to this receiver's port
    MaxPackets,     \* packets the buffer keeps (1024 in the code)
    MaxAdvance,     \* most source frames one chunk consumes (257 in the code)
    MaxGap,         \* longest gap whose sequence numbers are remembered (100000)
    LastFrame,      \* bound: the callback's position goes no further, past every packet
    None            \* no format, stream, sequence number or sample yet

(* What the receiver looks at in a datagram of the host. *)
Packet == [sequence : Nat, start : Nat, count : Nat \ {0}, stream : Nat, format : STRING]

ASSUME ReceiverAssumption ==
    /\ Sent \subseteq Packet
    /\ MaxPackets \in Nat \ {0}
    /\ MaxAdvance \in Nat
    /\ MaxGap \in Nat
    /\ LastFrame \in Nat
    /\ \A p \in Sent : p.start + p.count <= LastFrame
    /\ None \notin Nat \cup STRING

(* readFrames is asked for two frames more than a chunk consumes, for the  *)
(* interpolation, and keeps them for the next chunk.                       *)
Lookahead == 2

VARIABLES
    packets,      \* JitterBuffer: packets_, by their start
    latestRead,   \* JitterBuffer: latestReadFrame_
    latestEnd,    \* JitterBuffer: latestEndFrame_
    format,       \* JitterBuffer: format_
    streamId,     \* receiver: streamId_ (and sessionId_)
    highest,      \* receiver: highestSequence_
    missing,      \* receiver: missingSequences_
    packetsLost,  \* receiver: packetsLost_
    quiet,        \* no packet was inserted for more than 200 ms
    clientPc,     \* run: where it is
    sampled,      \* run: the currentFrame of this iteration, or None
    callbackPc,   \* the audio callback: idle, chunk or read
    started,      \* player: started_
    sourceFrame,  \* player: sourceFrame_
    advance,      \* player: advancedFrames of the chunk being rendered
    currentFrame, \* player: currentFrame_, published after each callback
    accepted,     \* history: the packets that were inserted
    firstSeen,    \* history: the first sequence number received
    seen          \* history: the sequence numbers received

bufferVars == <<packets, latestRead, latestEnd, format, accepted>>
statVars == <<highest, missing, packetsLost, firstSeen, seen>>
clientVars == <<clientPc, sampled>>
playerVars == <<callbackPc, started, sourceFrame, advance, currentFrame>>
vars == <<bufferVars, streamId, statVars, quiet, clientVars, playerVars>>

End(p) == p.start + p.count

TypeOK ==
    /\ packets \subseteq Sent
    /\ Cardinality(packets) <= MaxPackets
    /\ \A p, q \in packets : p.start = q.start => p = q
    /\ latestRead \in Nat
    /\ latestEnd \in Nat
    /\ format \in STRING \cup {None}
    /\ streamId \in Nat \cup {None}
    /\ highest \in Nat \cup {None}
    /\ missing \subseteq Nat
    /\ packetsLost \in Nat
    /\ quiet \in BOOLEAN
    /\ clientPc \in {"format", "select", "playing", "deciding", "stopping", "ended",
                     "failed"}
    /\ sampled \in Nat \cup {None}
    /\ callbackPc \in {"idle", "chunk", "read"}
    /\ started \in BOOLEAN
    /\ sourceFrame \in Nat
    /\ advance \in 0..MaxAdvance
    /\ currentFrame \in Nat
    /\ accepted \subseteq Sent
    /\ firstSeen \in Nat \cup {None}
    /\ seen \subseteq Nat

(* In a room the stream to play is given, else the first packet decides. *)
Init ==
    /\ packets = {}
    /\ latestRead = 0
    /\ latestEnd = 0
    /\ format = None
    /\ streamId \in {None} \cup {p.stream : p \in Sent}
    /\ highest = None
    /\ missing = {}
    /\ packetsLost = 0
    /\ quiet = FALSE
    /\ clientPc = "format"
    /\ sampled = None
    /\ callbackPc = "idle"
    /\ started = FALSE
    /\ sourceFrame = 0
    /\ advance = 0
    /\ currentFrame = 0
    /\ accepted = {}
    /\ firstSeen = None
    /\ seen = {}

-----------------------------------------------------------------------------
(* JitterBuffer. *)

Late(p) == End(p) <= latestRead

(* Fault: a packet is taken for read as soon as its first frame is. *)
ExpiredByStart == {p \in packets : p.start < latestRead}

(* The prefix, in the order of the starts, of the packets that were read:  *)
(* a packet behind one that is still wanted stays.                         *)
Expired == {p \in packets : \A q \in packets : q.start <= p.start => Late(q)}

First(S) == CHOOSE p \in S : \A q \in S : p.start <= q.start

(* Fault: the buffer has no limit. *)
TrimUnbounded(S) == S

(* Fault: at the limit the packet that starts last makes room. *)
TrimLatest(S) ==
    IF Cardinality(S) > MaxPackets
    THEN S \ {CHOOSE p \in S : \A q \in S : q.start <= p.start}
    ELSE S

(* At the limit the packet that starts first makes room. *)
Trim(S) == IF Cardinality(S) > MaxPackets THEN S \ {First(S)} ELSE S

Insertable(p) ==
    /\ ~Late(p)
    /\ format \in {None, p.format}
    /\ \A q \in packets \ Expired : q.start # p.start

(* Fault: every datagram counts as a sign that the stream goes on. *)
PushAlwaysLoud(p) ==
    LET kept == (packets \ Expired) \cup {p}
    IN  /\ quiet' = FALSE
        /\ IF Insertable(p)
           THEN /\ packets' = Trim(kept)
                /\ accepted' = accepted \cup {p}
                /\ latestEnd' = IF End(p) > latestEnd THEN End(p) ELSE latestEnd
                /\ format' = p.format
           ELSE /\ packets' = packets \ Expired
                /\ UNCHANGED <<accepted, latestEnd, format>>

(* push: false or an exception leaves only the cleanup behind. *)
Push(p) ==
    LET kept == (packets \ Expired) \cup {p}
    IN  IF Insertable(p)
        THEN /\ packets' = Trim(kept)
             /\ accepted' = accepted \cup {p}
             /\ latestEnd' = IF End(p) > latestEnd THEN End(p) ELSE latestEnd
             /\ format' = p.format
             /\ quiet' = FALSE
        ELSE /\ packets' = packets \ Expired
             /\ UNCHANGED <<accepted, latestEnd, format, quiet>>

(* Fault: the frames read ahead count as consumed. *)
ReadUpToForgetful(n) == sourceFrame + n + Lookahead

(* readFrames marks everything but the lookahead as read. *)
ReadUpTo(n) == sourceFrame + n

-----------------------------------------------------------------------------
(* PacketReceiverWorker. *)

(* Fault: every packet out of order is taken for one that was missing. *)
UpdateSequenceStatisticsAnyOld(s) ==
    /\ highest' = IF highest = None \/ s > highest THEN s ELSE highest
    /\ packetsLost' = IF highest = None THEN 0
                      ELSE IF s > highest THEN packetsLost + (s - highest - 1)
                      ELSE IF packetsLost > 0 THEN packetsLost - 1 ELSE 0
    /\ missing' = missing \ {s}

UpdateSequenceStatistics(s) ==
    \/ /\ highest = None
       /\ highest' = s
       /\ UNCHANGED <<missing, packetsLost>>
    \/ /\ highest # None /\ s > highest
       /\ packetsLost' = packetsLost + (s - highest - 1)
       /\ missing' = IF s - highest - 1 <= MaxGap
                     THEN missing \cup ((highest + 1)..(s - 1))
                     ELSE missing
       /\ highest' = s
    \/ /\ highest # None /\ s <= highest
       /\ packetsLost' = IF s \in missing THEN packetsLost - 1 ELSE packetsLost
       /\ missing' = missing \ {s}
       /\ UNCHANGED highest

(* A datagram arrives.  Those of another stream are ignored. *)
Receive(p) ==
    /\ clientPc \notin {"ended", "failed"}
    /\ streamId \in {None, p.stream}
    /\ streamId' = p.stream
    /\ UpdateSequenceStatistics(p.sequence)
    /\ firstSeen' = IF firstSeen = None THEN p.sequence ELSE firstSeen
    /\ seen' = seen \cup {p.sequence}
    /\ Push(p)
    /\ UNCHANGED <<latestRead, clientVars, playerVars>>

(* 200 ms have passed since the last packet was inserted. *)
FallQuiet ==
    /\ ~quiet
    /\ accepted # {}
    /\ quiet' = TRUE
    /\ UNCHANGED <<bufferVars, streamId, statVars, clientVars, playerVars>>

-----------------------------------------------------------------------------
(* The audio callback. *)

(* The device calls; silence until the start time. *)
CallbackStarts ==
    /\ clientPc \in {"playing", "deciding", "stopping"}
    /\ callbackPc = "idle"
    /\ callbackPc' = "chunk"
    /\ started' = TRUE
    /\ UNCHANGED <<bufferVars, streamId, statVars, quiet, clientVars,
                   sourceFrame, advance, currentFrame>>

(* readFrames: what is buffered is copied and everything before the        *)
(* lookahead becomes late, unless the receiver holds the mutex.            *)
ChunkReads(n) ==
    /\ callbackPc = "chunk"
    /\ sourceFrame + n <= LastFrame
    /\ callbackPc' = "read"
    /\ advance' = n
    /\ \/ latestRead' = IF ReadUpTo(n) > latestRead THEN ReadUpTo(n) ELSE latestRead
       \/ UNCHANGED latestRead
    /\ UNCHANGED <<packets, latestEnd, format, accepted, streamId, statVars,
                   quiet, clientVars, started, sourceFrame, currentFrame>>

(* The chunk is interpolated and the position moves on, whether anything   *)
(* was copied or not; the callback renders another chunk or returns.       *)
ChunkAdvances ==
    /\ callbackPc = "read"
    /\ sourceFrame' = sourceFrame + advance
    /\ advance' = 0
    /\ \/ /\ callbackPc' = "chunk"
          /\ UNCHANGED currentFrame
       \/ /\ callbackPc' = "idle"
          /\ currentFrame' = sourceFrame'
    /\ UNCHANGED <<bufferVars, streamId, statVars, quiet, clientVars, started>>

-----------------------------------------------------------------------------
(* run: the thread that plays one stream. *)

FormatKnown ==
    /\ clientPc = "format"
    /\ format # None
    /\ clientPc' = "select"
    /\ UNCHANGED <<bufferVars, streamId, statVars, quiet, sampled, playerVars>>

(* The first buffered packet whose time is still to come is where playback *)
(* starts: which one depends on the clocks.                                *)
SchedulePlayer(p) ==
    /\ clientPc = "select"
    /\ p \in packets
    /\ ~Late(p)
    /\ sourceFrame' = p.start
    /\ currentFrame' = p.start
    /\ clientPc' = "playing"
    /\ UNCHANGED <<bufferVars, streamId, statVars, quiet, sampled, callbackPc,
                   started, advance>>

(* No format or no packet within 5 s, the receiver thread failed, or the   *)
(* output route changed: run throws.                                       *)
RunThrows ==
    /\ clientPc \in {"format", "select", "playing"}
    /\ sampled = None
    /\ callbackPc = "idle"
    /\ clientPc' = "failed"
    /\ UNCHANGED <<bufferVars, streamId, statVars, quiet, sampled, playerVars>>

(* An iteration of the loop: the position is sampled first ... *)
SampleProgress ==
    /\ clientPc = "playing"
    /\ sampled = None
    /\ sampled' = currentFrame
    /\ UNCHANGED <<bufferVars, streamId, statVars, quiet, clientPc, playerVars>>

(* ... nothing ends before playback has started and the sender is quiet ... *)
CheckQuiet ==
    /\ clientPc = "playing"
    /\ sampled # None
    /\ clientPc' = IF started /\ quiet THEN "deciding" ELSE "playing"
    /\ sampled' = IF started /\ quiet THEN sampled ELSE None
    /\ UNCHANGED <<bufferVars, streamId, statVars, quiet, playerVars>>

(* Fault: playback ends when the sender falls silent, not when it is played. *)
DecideWhenQuiet ==
    /\ clientPc = "deciding"
    /\ sampled' = None
    /\ clientPc' = "stopping"
    /\ UNCHANGED <<bufferVars, streamId, statVars, quiet, playerVars>>

(* ... and the sample is compared with the end of what has been received   *)
(* by now.                                                                 *)
Decide ==
    /\ clientPc = "deciding"
    /\ sampled' = None
    /\ clientPc' = IF sampled >= latestEnd THEN "stopping" ELSE "playing"
    /\ UNCHANGED <<bufferVars, streamId, statVars, quiet, playerVars>>

(* player.stop waits for the callback. *)
StopPlayer ==
    /\ clientPc = "stopping"
    /\ callbackPc = "idle"
    /\ clientPc' = "ended"
    /\ UNCHANGED <<bufferVars, streamId, statVars, quiet, sampled, playerVars>>

CallbackStep ==
    \/ CallbackStarts
    \/ \E n \in 0..MaxAdvance : ChunkReads(n)
    \/ ChunkAdvances

ClientStep ==
    \/ FormatKnown
    \/ \E p \in Sent : SchedulePlayer(p)
    \/ SampleProgress
    \/ CheckQuiet
    \/ Decide
    \/ StopPlayer

Next ==
    \/ \E p \in Sent : Receive(p)
    \/ FallQuiet
    \/ CallbackStep
    \/ ClientStep
    \/ RunThrows

Spec == Init /\ [][Next]_vars

(* The device keeps calling; a callback ends and, the ratio being close to *)
(* one, its chunks advance; the receiver does not hold the mutex whenever  *)
(* the callback tries it; run polls.                                       *)
FairSpec ==
    /\ Spec
    /\ WF_vars(CallbackStep)
    /\ SF_vars(ChunkAdvances /\ callbackPc' = "idle")
    /\ SF_vars(\E n \in 1..MaxAdvance : ChunkReads(n))
    /\ SF_vars(\E n \in 0..MaxAdvance : ChunkReads(n) /\ latestRead' >= ReadUpTo(n))
    /\ WF_vars(SampleProgress)
    /\ WF_vars(CheckQuiet)
    /\ WF_vars(Decide)
    /\ SF_vars(StopPlayer)
    /\ WF_vars(FallQuiet)

-----------------------------------------------------------------------------
(* Properties. *)

(* The first frame the callback has yet to copy. *)
Position == sourceFrame + advance

(* Nothing is dropped too early, however the cleanup of push, the lookahead *)
(* and the overlapping calls fall: an inserted packet that is not in the    *)
(* buffer, and was not dropped by an earlier step, has no frame the         *)
(* callback has yet to consume; or the buffer is full of packets that start *)
(* later than this one, and it made room.                                   *)
AcceptedUntilPlayed ==
    [][\A p \in accepted' :
         \/ p \in packets' \cup (accepted \ packets)
         \/ End(p) <= Position'
         \/ /\ Cardinality(packets') = MaxPackets
            /\ \A q \in packets' : p.start < q.start]_vars

(* What is refused as late really is: by the time a frame counts as read   *)
(* the callback has moved to or past it, so that no packet which could     *)
(* still be heard is refused.                                              *)
RefusedOnlyWhenPassed == latestRead <= Position

(* Loss is never under-reported: every sequence number between the first   *)
(* and the highest one that was received and that has not arrived counts   *)
(* as lost, whatever was reordered or duplicated, and one that is still    *)
(* expected has not arrived.                                               *)
LossNotUnderReported ==
    highest # None =>
        /\ Cardinality((firstSeen..highest) \ seen) <= packetsLost
        /\ missing \cap seen = {}

(* When playback ends, all of it has been rendered: no accepted packet has *)
(* frames past the published position.  Packets that arrive after the      *)
(* decision are refused by nobody, so the decision itself is looked at.    *)
EndsAfterLastFrame ==
    [][(clientPc = "deciding" /\ clientPc' = "stopping") =>
         \A p \in accepted : End(p) <= sourceFrame]_vars

(* A run that has started to play comes to its end when nothing new        *)
(* arrives, even if old packets keep arriving.                             *)
PlaybackEnds == clientPc = "playing" ~> clientPc \in {"ended", "failed"}
=============================================================================
