------------------------ MODULE DesktopReceiverProofs ------------------------
(***************************************************************************)
(* The jitter buffer drops and refuses nothing that could still be heard,  *)
(* for any packets, any buffer size and any chunk sizes.  The argument is  *)
(* about three positions: what counts as read never gets ahead of what the *)
(* callback has consumed, and the callback only moves forward.             *)
(*                                                                         *)
(* The buffer's limit and the count of lost packets are about the sizes of *)
(* finite sets: what is buffered, and what has not arrived.                *)
(***************************************************************************)
EXTENDS DesktopReceiver, FiniteSetTheorems, WellFoundedInduction, TLAPS

(* The part of the types that the positions need. *)
PositionTypes ==
    /\ packets \subseteq Sent
    /\ accepted \subseteq Sent
    /\ latestRead \in Nat
    /\ sourceFrame \in Nat
    /\ advance \in Nat

(* Nothing is read before the player is scheduled. *)
UnreadUntilScheduled ==
    clientPc \in {"format", "select"} =>
        latestRead = 0 /\ sourceFrame = 0 /\ advance = 0 /\ callbackPc = "idle"

(* Only a chunk that was read and not yet rendered is under way. *)
ChunkUnderWay == callbackPc # "read" => advance = 0

ReceiverInv ==
    /\ PositionTypes
    /\ UnreadUntilScheduled
    /\ ChunkUnderWay
    /\ RefusedOnlyWhenPassed

-----------------------------------------------------------------------------
(* A receiver starts with nothing read and nothing accepted. *)
LEMMA ReceiverInit == Init => ReceiverInv
  BY DEF Init, ReceiverInv, PositionTypes, UnreadUntilScheduled, ChunkUnderWay,
     RefusedOnlyWhenPassed, Position

(* The cleanup of JitterBuffer::push takes only what the callback has      *)
(* consumed.                                                               *)
LEMMA ExpiredArePlayed ==
    ASSUME ReceiverInv, NEW q \in Expired
    PROVE  End(q) <= Position
<1>1. q \in packets /\ End(q) <= latestRead
  BY ReceiverAssumption DEF Expired, Late, ReceiverInv, PositionTypes, Packet
<1> QED
  BY <1>1, ReceiverAssumption
     DEF ReceiverInv, PositionTypes, RefusedOnlyWhenPassed, Position, End, Packet

(* Every step keeps the positions in order. *)
LEMMA ReceiverStep == ReceiverInv /\ [Next]_vars => ReceiverInv'
<1> SUFFICES ASSUME ReceiverInv, [Next]_vars PROVE ReceiverInv'
  OBVIOUS
<1> USE ReceiverAssumption
        DEF ReceiverInv, PositionTypes, UnreadUntilScheduled, ChunkUnderWay,
            RefusedOnlyWhenPassed, bufferVars, clientVars, playerVars
<1>1. ASSUME NEW p \in Sent, Receive(p) PROVE ReceiverInv'
  <2>1. UNCHANGED <<latestRead, sourceFrame, advance, clientPc, callbackPc>>
    BY <1>1 DEF Receive
  <2>2. packets' \subseteq Sent /\ accepted' \subseteq Sent
    BY <1>1 DEF Receive, Push, Trim
  <2> QED
    BY <2>1, <2>2 DEF Position
<1>2. ASSUME NEW n \in 0..MaxAdvance, ChunkReads(n) PROVE ReceiverInv'
  <2>1. /\ UNCHANGED <<packets, accepted, sourceFrame, clientPc>>
        /\ callbackPc' = "read" /\ advance = 0 /\ advance' = n
        /\ latestRead' \in {latestRead, sourceFrame + n}
    BY <1>2 DEF ChunkReads, ReadUpTo
  <2>2. Position' >= Position /\ Position' = sourceFrame + n /\ Position \in Nat
    BY <2>1 DEF Position
  <2>3. callbackPc # "idle"
    BY <1>2 DEF ChunkReads
  <2> QED
    BY <2>1, <2>2, <2>3
<1>3. CASE ChunkAdvances
  <2>1. /\ UNCHANGED <<packets, accepted, latestRead, clientPc>>
        /\ sourceFrame' = sourceFrame + advance /\ advance' = 0
        /\ callbackPc = "read"
    BY <1>3 DEF ChunkAdvances
  <2>2. Position' = Position
    BY <2>1 DEF Position
  <2> QED
    BY <2>1, <2>2
<1>4. ASSUME NEW p \in Sent, SchedulePlayer(p) PROVE ReceiverInv'
  <2>1. /\ UNCHANGED <<packets, accepted, latestRead, advance, callbackPc>>
        /\ sourceFrame' = p.start /\ clientPc' = "playing" /\ clientPc = "select"
    BY <1>4 DEF SchedulePlayer
  <2>2. p.start \in Nat /\ Position = 0 /\ Position' = p.start
    BY <2>1 DEF Position, Packet
  <2> QED
    BY <2>1, <2>2
<1>5. CASE UNCHANGED <<packets, accepted, latestRead, sourceFrame, advance, callbackPc>>
           /\ (clientPc' \in {"format", "select"} => clientPc \in {"format", "select"})
  BY <1>5 DEF Position
<1>6. CASE CallbackStarts
  BY <1>6 DEF CallbackStarts, Position
<1>7. CASE FallQuiet \/ FormatKnown \/ RunThrows \/ SampleProgress \/ CheckQuiet
           \/ Decide \/ StopPlayer
  BY <1>5, <1>7 DEF FallQuiet, FormatKnown, RunThrows, SampleProgress, CheckQuiet, Decide,
     StopPlayer
<1>8. CASE UNCHANGED vars
  BY <1>5, <1>8 DEF vars
<1> QED
  BY <1>1, <1>2, <1>3, <1>4, <1>6, <1>7, <1>8 DEF Next, CallbackStep, ClientStep

(* The positions are in order throughout. *)
LEMMA ReceiverAlways == Spec => []ReceiverInv
  BY ReceiverInit, ReceiverStep, PTL DEF Spec

(* JitterBuffer::push refuses as late only what the callback has passed.   *)
THEOREM RefusedAlwaysWhenPassed == Spec => []RefusedOnlyWhenPassed
<1>1. ReceiverInv => RefusedOnlyWhenPassed
  BY DEF ReceiverInv
<1> QED
  BY <1>1, ReceiverAlways, PTL

-----------------------------------------------------------------------------
(* The end of playback.  What run compares when it decides was read at     *)
(* different times: the sample lags behind the callback, and the end of    *)
(* the buffer covers all that was accepted.                                *)

EndCovered == latestEnd \in Nat /\ \A p \in accepted : End(p) <= latestEnd

SampleBehind ==
    /\ currentFrame \in Nat
    /\ currentFrame <= sourceFrame
    /\ sampled # None => sampled \in Nat /\ sampled <= sourceFrame
    /\ clientPc \in {"format", "select"} => sampled = None
    /\ clientPc = "deciding" => sampled # None

EndInv == ReceiverInv /\ EndCovered /\ SampleBehind

(* Every step keeps the sample behind the callback and the end covered. *)
LEMMA EndStep == EndInv /\ [Next]_vars => EndCovered' /\ SampleBehind'
<1> SUFFICES ASSUME EndInv, [Next]_vars PROVE EndCovered' /\ SampleBehind'
  OBVIOUS
<1> USE ReceiverAssumption
        DEF EndInv, ReceiverInv, PositionTypes, UnreadUntilScheduled, EndCovered,
            SampleBehind, End, bufferVars, clientVars, playerVars
<1>1. ASSUME NEW p \in Sent, Receive(p) PROVE EndCovered' /\ SampleBehind'
  <2>1. UNCHANGED <<sourceFrame, currentFrame, sampled, clientPc>>
    BY <1>1 DEF Receive
  <2>2. p.start + p.count \in Nat
    BY DEF Packet
  <2>3. \A q \in accepted : q.start + q.count \in Nat
    BY DEF Packet
  <2>4. EndCovered'
    <3>1. CASE Insertable(p)
      <4>1. /\ accepted' \subseteq accepted \cup {p}
            /\ latestEnd' = IF End(p) > latestEnd THEN End(p) ELSE latestEnd
        BY <1>1, <3>1 DEF Receive, Push
      <4> QED
        BY <2>2, <2>3, <4>1
    <3>2. CASE ~Insertable(p)
      BY <1>1, <3>2 DEF Receive, Push
    <3> QED
      BY <3>1, <3>2
  <2> QED
    BY <2>1, <2>4
<1>2. ASSUME NEW n \in 0..MaxAdvance, ChunkReads(n) PROVE EndCovered' /\ SampleBehind'
  BY <1>2 DEF ChunkReads
<1>3. CASE ChunkAdvances
  BY <1>3 DEF ChunkAdvances
<1>4. ASSUME NEW p \in Sent, SchedulePlayer(p) PROVE EndCovered' /\ SampleBehind'
  <2>1. p.start \in Nat
    BY DEF Packet
  <2> QED
    BY <1>4, <2>1 DEF SchedulePlayer
<1>5. CASE CallbackStarts
  BY <1>5 DEF CallbackStarts
<1>6. CASE FallQuiet \/ FormatKnown \/ RunThrows \/ StopPlayer
  BY <1>6 DEF FallQuiet, FormatKnown, RunThrows, StopPlayer
<1>7. CASE SampleProgress \/ CheckQuiet \/ Decide
  BY <1>7 DEF SampleProgress, CheckQuiet, Decide
<1>8. CASE UNCHANGED vars
  BY <1>8 DEF vars
<1> QED
  BY <1>1, <1>2, <1>3, <1>4, <1>5, <1>6, <1>7, <1>8 DEF Next, CallbackStep, ClientStep

(* DesktopAudioClient::run stops the player only when every accepted frame *)
(* has been rendered, although it reads the position, the silence of the   *)
(* sender and the end of the buffer at three different times.              *)
THEOREM EndsAlwaysAfterLastFrame == Spec => EndsAfterLastFrame
<1>1. Init => EndInv
  BY ReceiverInit DEF Init, EndInv, EndCovered, SampleBehind
<1>2. EndInv /\ [Next]_vars => EndInv'
  BY ReceiverStep, EndStep DEF EndInv
<1>3. EndInv /\ [Next]_vars =>
        [(clientPc = "deciding" /\ clientPc' = "stopping") =>
            \A p \in accepted : End(p) <= sourceFrame]_vars
  <2> SUFFICES ASSUME EndInv, [Next]_vars, clientPc = "deciding", clientPc' = "stopping"
               PROVE  \A p \in accepted : End(p) <= sourceFrame
    OBVIOUS
  <2>1. Decide
    BY DEF Next, CallbackStep, ClientStep, Receive, FallQuiet, CallbackStarts, ChunkReads,
       ChunkAdvances, FormatKnown, SchedulePlayer, SampleProgress, CheckQuiet, StopPlayer,
       RunThrows, vars, clientVars
  <2>2. sampled >= latestEnd
    BY <2>1 DEF Decide
  <2>3. \A p \in accepted : p.start + p.count \in Nat
    BY ReceiverAssumption DEF EndInv, ReceiverInv, PositionTypes, Packet
  <2> QED
    BY <2>2, <2>3, ReceiverAssumption
       DEF EndInv, EndCovered, SampleBehind, ReceiverInv, PositionTypes, End
<1> QED
  BY <1>1, <1>2, <1>3, PTL DEF Spec, EndsAfterLastFrame

-----------------------------------------------------------------------------
(* The limit of the buffer, the count of lost packets, and the types, which *)
(* rest on both.                                                            *)

(* A set of naturals has a least member.                                   *)
LEMMA Smallest ==
    ASSUME NEW S, S \subseteq Nat, S # {}
    PROVE  \E m \in S : \A n \in S : m <= n
<1> DEFINE R == OpToRel(<, Nat)
<1>1. IsWellFoundedOn(R, Nat)
  BY NatLessThanWellFounded
<1>2. \A x, y \in Nat : y < x => <<y, x>> \in R
  BY DEF OpToRel
<1> HIDE DEF R
<1>3. PICK m \in S : \A n \in S : <<n, m>> \notin R
  BY <1>1, WFMin
<1>4. \A n \in S : ~(n < m)
  BY <1>2, <1>3
<1> QED
  BY <1>4

(* packets_.erase(packets_.begin()) finds a packet to erase. *)
LEMMA FirstBelongs ==
    ASSUME NEW S \in SUBSET Sent, S # {}
    PROVE  First(S) \in S /\ \A q \in S : First(S).start <= q.start
<1> DEFINE Starts == {q.start : q \in S}
<1>1. \A q \in S : q.start \in Nat
  BY ReceiverAssumption DEF Packet
<1>2. Starts \subseteq Nat /\ Starts # {}
  BY <1>1
<1>3. PICK m \in Starts : \A n \in Starts : m <= n
  BY <1>2, Smallest
<1>4. PICK q \in S : q.start = m
  BY <1>3
<1>5. \A r \in S : q.start <= r.start
  BY <1>3, <1>4
<1> QED
  BY <1>5 DEF First

(* What an insertion into the full buffer leaves is no larger than the limit. *)
LEMMA TrimBounds ==
    ASSUME NEW S \in SUBSET Sent, IsFiniteSet(S), Cardinality(S) <= MaxPackets + 1
    PROVE  /\ IsFiniteSet(Trim(S)) /\ Cardinality(Trim(S)) <= MaxPackets
           /\ Trim(S) \subseteq S
<1>1. Cardinality(S) \in Nat /\ MaxPackets \in Nat \ {0}
  BY FS_CardinalityType, ReceiverAssumption
<1>2. CASE Cardinality(S) > MaxPackets
  <2>1. S # {}
    BY <1>1, <1>2, FS_EmptySet
  <2>2. First(S) \in S
    BY <2>1, FirstBelongs
  <2>3. IsFiniteSet(S \ {First(S)}) /\ Cardinality(S \ {First(S)}) = Cardinality(S) - 1
    BY <2>2, FS_RemoveElement
  <2> QED
    BY <1>1, <1>2, <2>3 DEF Trim
<1>3. CASE ~(Cardinality(S) > MaxPackets)
  BY <1>1, <1>3 DEF Trim
<1> QED
  BY <1>2, <1>3

(* What makes room is earlier than what stays, and the buffer stays full.  *)
LEMMA TrimEvicts ==
    ASSUME NEW S \in SUBSET Sent, IsFiniteSet(S), Cardinality(S) <= MaxPackets + 1,
           \A q, r \in S : q.start = r.start => q = r,
           NEW p \in S, p \notin Trim(S)
    PROVE  Cardinality(Trim(S)) = MaxPackets /\ \A q \in Trim(S) : p.start < q.start
<1>1. Cardinality(S) \in Nat /\ MaxPackets \in Nat
  BY FS_CardinalityType, ReceiverAssumption
<1>2. First(S) \in S /\ \A q \in S : First(S).start <= q.start
  BY FirstBelongs
<1>3. Cardinality(S) > MaxPackets /\ Trim(S) = S \ {First(S)} /\ p = First(S)
  BY DEF Trim
<1>4. Cardinality(Trim(S)) = Cardinality(S) - 1
  BY <1>2, <1>3, FS_RemoveElement
<1>5. \A q \in S : q.start \in Nat
  BY ReceiverAssumption DEF Packet
<1>6. \A q \in Trim(S) : p.start < q.start
  BY <1>2, <1>3, <1>5
<1> QED
  BY <1>1, <1>3, <1>4, <1>6

(* Where each packet starts is the key of packets_. *)
BufferTypes ==
    /\ packets \subseteq Sent /\ IsFiniteSet(packets)
    /\ Cardinality(packets) <= MaxPackets
    /\ \A p, q \in packets : p.start = q.start => p = q
    /\ accepted \subseteq Sent
    /\ latestEnd \in Nat
    /\ format \in STRING \cup {None}
    /\ quiet \in BOOLEAN

(* An insertion puts at most one packet too many into the map, under a key *)
(* of its own.                                                             *)
LEMMA InsertedOne ==
    ASSUME BufferTypes, NEW p \in Sent
    PROVE  LET rest == packets \ Expired
               kept == rest \cup {p}
           IN  /\ IsFiniteSet(rest) /\ Cardinality(rest) <= MaxPackets
               /\ kept \subseteq Sent /\ IsFiniteSet(kept)
               /\ Cardinality(kept) <= MaxPackets + 1
               /\ Insertable(p) => \A q, r \in kept : q.start = r.start => q = r
<1> DEFINE rest == packets \ Expired
           kept == rest \cup {p}
<1>1. rest \in SUBSET packets
  OBVIOUS
<1>2. IsFiniteSet(rest) /\ Cardinality(rest) <= Cardinality(packets)
  BY <1>1, FS_Subset DEF BufferTypes
<1>3. IsFiniteSet(kept) /\ Cardinality(kept) <= Cardinality(rest) + 1
  <2>1. Cardinality(rest) \in Nat
    BY <1>2, FS_CardinalityType
  <2> HIDE DEF rest
  <2>2. /\ IsFiniteSet(rest \cup {p})
        /\ Cardinality(rest \cup {p}) = IF p \in rest THEN Cardinality(rest)
                                         ELSE Cardinality(rest) + 1
    BY <1>2, FS_AddElement
  <2> QED
    BY <2>1, <2>2
<1>4. /\ Cardinality(kept) \in Nat /\ Cardinality(rest) \in Nat /\ Cardinality(packets) \in Nat
      /\ Cardinality(packets) <= MaxPackets /\ MaxPackets \in Nat
  BY <1>2, <1>3, FS_CardinalityType, ReceiverAssumption DEF BufferTypes
<1>5. Cardinality(rest) <= MaxPackets /\ Cardinality(kept) <= MaxPackets + 1
  BY <1>2, <1>3, <1>4
<1>6. ASSUME Insertable(p) PROVE \A q, r \in kept : q.start = r.start => q = r
  <2>1. \A q \in rest : q.start # p.start
    BY <1>6 DEF Insertable
  <2> QED
    BY <2>1 DEF BufferTypes
<1>7. kept \subseteq Sent
  BY DEF BufferTypes
<1> QED
  BY <1>2, <1>3, <1>5, <1>6, <1>7

(* JitterBuffer::push respects the limit and the key. *)
LEMMA PushTypes == ASSUME BufferTypes, NEW p \in Sent, Push(p) PROVE BufferTypes'
<1> DEFINE rest == packets \ Expired
           kept == rest \cup {p}
<1>1. /\ IsFiniteSet(rest) /\ Cardinality(rest) <= MaxPackets
      /\ kept \in SUBSET Sent /\ IsFiniteSet(kept) /\ Cardinality(kept) <= MaxPackets + 1
      /\ Insertable(p) => \A q, r \in kept : q.start = r.start => q = r
  BY InsertedOne
<1>2. End(p) \in Nat /\ p.format \in STRING
  BY ReceiverAssumption DEF End, Packet
<1>3. CASE Insertable(p)
  <2>1. /\ packets' = Trim(kept) /\ accepted' = accepted \cup {p}
        /\ latestEnd' = IF End(p) > latestEnd THEN End(p) ELSE latestEnd
        /\ format' = p.format /\ quiet' = FALSE
    BY <1>3 DEF Push
  <2> HIDE DEF kept
  <2>2. /\ IsFiniteSet(packets') /\ Cardinality(packets') <= MaxPackets
        /\ packets' \subseteq kept
    BY <1>1, <2>1, TrimBounds
  <2>3. \A q, r \in packets' : q.start = r.start => q = r
    BY <1>1, <1>3, <2>2
  <2>4. packets' \subseteq Sent /\ accepted' \subseteq Sent
    BY <1>1, <2>1, <2>2 DEF BufferTypes
  <2> QED
    BY <1>2, <2>1, <2>2, <2>3, <2>4 DEF BufferTypes
<1>4. CASE ~Insertable(p)
  <2>1. packets' = rest /\ UNCHANGED <<accepted, latestEnd, format, quiet>>
    BY <1>4 DEF Push
  <2> QED
    BY <1>1, <2>1 DEF BufferTypes
<1> QED
  BY <1>3, <1>4

(* The sequence numbers that have not arrived. *)
Unseen == (firstSeen .. highest) \ seen

(* What updateSequenceStatistics knows of them. *)
LossInv ==
    /\ packetsLost \in Nat
    /\ highest = None =>
         firstSeen = None /\ missing = {} /\ seen = {}
    /\ highest # None =>
         /\ highest \in Nat /\ firstSeen \in Nat
         /\ seen \subseteq 0 .. highest
         /\ firstSeen \in seen /\ highest \in seen
         /\ missing \subseteq Unseen
         /\ Cardinality(Unseen) <= packetsLost

(* Every datagram keeps the count at or above what has not arrived, and a  *)
(* count that is decremented was positive.                                 *)
LEMMA LossStep ==
    ASSUME LossInv, NEW s \in Nat, UpdateSequenceStatistics(s),
           firstSeen' = IF firstSeen = None THEN s ELSE firstSeen,
           seen' = seen \cup {s}
    PROVE  LossInv'
<1>1. CASE highest = None
  <2>1. /\ highest' = s /\ firstSeen' = s /\ seen' = {s} /\ missing' = {}
        /\ packetsLost' = packetsLost
    BY <1>1 DEF UpdateSequenceStatistics, LossInv
  <2>2. Unseen' = {}
    BY <2>1 DEF Unseen
  <2>3. Cardinality(Unseen') = 0
    BY <2>2, FS_EmptySet
  <2>4. s # None
    BY ReceiverAssumption
  <2> QED
    BY <2>1, <2>2, <2>3, <2>4 DEF LossInv
<1>2. CASE highest # None
  <2>1. /\ highest \in Nat /\ firstSeen \in Nat /\ seen \subseteq 0 .. highest
        /\ firstSeen \in seen /\ highest \in seen /\ missing \subseteq Unseen
        /\ Cardinality(Unseen) <= packetsLost /\ packetsLost \in Nat
        /\ firstSeen' = firstSeen
    BY <1>2, ReceiverAssumption DEF LossInv
  <2>2. firstSeen <= highest
    BY <2>1
  <2>3. IsFiniteSet(firstSeen .. highest)
    BY <2>1, FS_Interval
  <2>4. IsFiniteSet(Unseen) /\ Cardinality(Unseen) \in Nat
    <3>1. Unseen \in SUBSET (firstSeen .. highest)
      BY DEF Unseen
    <3>2. IsFiniteSet(Unseen)
      BY <2>3, <3>1, FS_Subset
    <3> QED
      BY <3>2, FS_CardinalityType
  <2>5. CASE s > highest
    <3> DEFINE gap == (highest + 1) .. (s - 1)
    <3>1. highest' = s /\ packetsLost' = packetsLost + (s - highest - 1)
          /\ missing' \subseteq missing \cup gap
      BY <1>2, <2>1, <2>5 DEF UpdateSequenceStatistics
    <3>2. Unseen' = Unseen \cup gap
      <4>1. \A x : x \in (firstSeen .. s) \ (seen \cup {s})
                    <=> x \in ((firstSeen .. highest) \ seen) \cup gap
        BY <2>1, <2>2, <2>5
      <4>2. Unseen' = (firstSeen .. s) \ (seen \cup {s})
        BY <2>1, <3>1 DEF Unseen
      <4> QED
        BY <4>1, <4>2 DEF Unseen
    <3>3. IsFiniteSet(gap) /\ Cardinality(gap) = s - highest - 1
      <4>1. highest + 1 \in Int /\ s - 1 \in Int
        BY <2>1
      <4>2. /\ IsFiniteSet(gap)
            /\ Cardinality(gap) = IF highest + 1 > s - 1 THEN 0
                                  ELSE (s - 1) - (highest + 1) + 1
        BY <4>1, FS_Interval
      <4> HIDE DEF gap
      <4> QED
        BY <2>1, <2>5, <4>2
    <3>4. Cardinality(Unseen \cup gap) = Cardinality(Unseen) + Cardinality(gap)
      <4>1. Unseen \cap gap = {}
        BY <2>1 DEF Unseen
      <4> HIDE DEF gap
      <4>2. Cardinality(Unseen \cup gap)
              = Cardinality(Unseen) + Cardinality(gap) - Cardinality(Unseen \cap gap)
        BY <2>4, <3>3, FS_Union
      <4>3. Cardinality(gap) \in Nat /\ Cardinality(Unseen \cap gap) = 0
        BY <3>3, <4>1, FS_EmptySet, FS_CardinalityType
      <4> QED
        BY <2>4, <4>2, <4>3
    <3> HIDE DEF gap
    <3>5. Cardinality(Unseen') <= packetsLost' /\ packetsLost' \in Nat
      <4>1. Cardinality(Unseen') = Cardinality(Unseen) + (s - highest - 1)
        BY <3>2, <3>3, <3>4
      <4> QED
        BY <2>1, <2>4, <2>5, <3>1, <4>1
    <3>6. missing' \subseteq Unseen'
      BY <2>1, <3>1, <3>2
    <3>7. seen' \subseteq 0 .. highest' /\ firstSeen' \in seen' /\ highest' \in seen'
      BY <2>1, <2>5, <3>1
    <3>8. highest' # None
      BY <3>1, ReceiverAssumption
    <3> QED
      BY <2>1, <3>1, <3>5, <3>6, <3>7, <3>8 DEF LossInv
  <2>6. CASE s <= highest
    <3>1. /\ highest' = highest /\ missing' = missing \ {s}
          /\ packetsLost' = IF s \in missing THEN packetsLost - 1 ELSE packetsLost
      BY <1>2, <2>1, <2>6 DEF UpdateSequenceStatistics
    <3>2. Unseen' = Unseen \ {s}
      BY <2>1, <3>1 DEF Unseen
    <3>3. Cardinality(Unseen') = IF s \in Unseen THEN Cardinality(Unseen) - 1
                                 ELSE Cardinality(Unseen)
      BY <2>4, <3>2, FS_RemoveElement
    <3>4. Cardinality(Unseen') \in Nat
      <4>1. IsFiniteSet(Unseen \ {s})
        BY <2>4, FS_RemoveElement
      <4> QED
        BY <3>2, <4>1, FS_CardinalityType
    <3>5. Cardinality(Unseen') <= packetsLost' /\ packetsLost' \in Nat
      <4>1. CASE s \in missing
        <5>1. s \in Unseen
          BY <2>1, <4>1
        <5> QED
          BY <2>1, <2>4, <3>1, <3>3, <3>4, <4>1, <5>1
      <4>2. CASE s \notin missing
        BY <2>1, <2>4, <3>1, <3>3, <4>2
      <4> QED
        BY <4>1, <4>2
    <3>6. missing' \subseteq Unseen'
      BY <2>1, <3>1, <3>2
    <3>7. seen' \subseteq 0 .. highest' /\ firstSeen' \in seen' /\ highest' \in seen'
      BY <2>1, <2>6, <3>1
    <3> QED
      BY <1>2, <2>1, <3>1, <3>5, <3>6, <3>7 DEF LossInv
  <2> QED
    BY <2>1, <2>5, <2>6
<1> QED
  BY <1>1, <1>2

-----------------------------------------------------------------------------
(* The rest of the types. *)
ThreadTypes ==
    /\ latestRead \in Nat
    /\ streamId \in Nat \cup {None}
    /\ clientPc \in {"format", "select", "playing", "deciding", "stopping", "ended",
                     "failed"}
    /\ sampled \in Nat \cup {None}
    /\ callbackPc \in {"idle", "chunk", "read"}
    /\ started \in BOOLEAN
    /\ sourceFrame \in Nat
    /\ advance \in 0 .. MaxAdvance
    /\ currentFrame \in Nat

CountInv == BufferTypes /\ LossInv /\ ThreadTypes

(* A receiver starts with an empty buffer and no loss.                     *)
LEMMA CountInit == Init => CountInv
<1> SUFFICES ASSUME Init PROVE CountInv
  OBVIOUS
<1>1. IsFiniteSet(packets) /\ Cardinality(packets) = 0
  BY FS_EmptySet DEF Init
<1>2. BufferTypes
  <2>1. Cardinality(packets) <= MaxPackets
    BY <1>1, ReceiverAssumption
  <2>2. packets = {} /\ accepted = {} /\ latestEnd = 0 /\ format = None /\ quiet = FALSE
    BY DEF Init
  <2> QED
    BY <1>1, <2>1, <2>2 DEF BufferTypes
<1>3. streamId \in Nat \cup {None}
  BY ReceiverAssumption DEF Init, Packet
<1>4. advance \in 0 .. MaxAdvance
  BY ReceiverAssumption DEF Init
<1>5. LossInv /\ ThreadTypes
  BY <1>3, <1>4 DEF Init, LossInv, ThreadTypes
<1> QED
  BY <1>2, <1>5 DEF CountInv

(* Every step keeps the limit, the count and the types.                    *)
LEMMA CountStep == CountInv /\ [Next]_vars => CountInv'
<1> SUFFICES ASSUME CountInv, [Next]_vars PROVE CountInv'
  OBVIOUS
<1>1. ASSUME NEW p \in Sent, Receive(p) PROVE CountInv'
  <2>1. p.sequence \in Nat /\ p.stream \in Nat
    BY ReceiverAssumption DEF Packet
  <2>2. LossInv'
    BY <1>1, <2>1, LossStep DEF Receive, CountInv
  <2>3. BufferTypes'
    BY <1>1, PushTypes DEF Receive, CountInv
  <2>4. ThreadTypes'
    BY <1>1, <2>1 DEF Receive, CountInv, ThreadTypes, clientVars, playerVars
  <2> QED
    BY <2>2, <2>3, <2>4 DEF CountInv
<1>2. ASSUME UNCHANGED <<packets, latestEnd, format, accepted, quiet, statVars>> \/
             (FallQuiet /\ UNCHANGED <<bufferVars, statVars>>), ThreadTypes'
      PROVE  CountInv'
  <2>1. UNCHANGED <<packets, latestEnd, format, accepted, statVars>> /\ quiet' \in BOOLEAN
    BY <1>2 DEF CountInv, BufferTypes, FallQuiet, bufferVars
  <2>2. BufferTypes'
    BY <2>1 DEF CountInv, BufferTypes
  <2>3. LossInv'
    BY <2>1 DEF CountInv, LossInv, Unseen, statVars
  <2> QED
    BY <1>2, <2>2, <2>3 DEF CountInv
<1>3. CASE FallQuiet
  BY <1>2, <1>3 DEF FallQuiet, CountInv, ThreadTypes, bufferVars, clientVars, playerVars
<1>4. CASE CallbackStarts
  <2>1. ThreadTypes'
    BY <1>4 DEF CallbackStarts, CountInv, ThreadTypes, bufferVars, clientVars
  <2> QED
    BY <1>2, <1>4, <2>1 DEF CallbackStarts, bufferVars
<1>5. ASSUME NEW n \in 0 .. MaxAdvance, ChunkReads(n) PROVE CountInv'
  <2>1. n \in Nat /\ latestRead' \in {latestRead, sourceFrame + n}
    BY <1>5, ReceiverAssumption DEF ChunkReads, ReadUpTo
  <2>2. latestRead' \in Nat
    BY <2>1 DEF CountInv, ThreadTypes
  <2>3. ThreadTypes'
    BY <1>5, <2>2 DEF ChunkReads, CountInv, ThreadTypes, clientVars
  <2> QED
    BY <1>2, <1>5, <2>3 DEF ChunkReads
<1>6. CASE ChunkAdvances
  <2>1. /\ sourceFrame' = sourceFrame + advance /\ advance' = 0
        /\ currentFrame' \in {currentFrame, sourceFrame'} /\ callbackPc' \in {"chunk", "idle"}
        /\ UNCHANGED <<bufferVars, streamId, statVars, quiet, clientVars, started>>
    BY <1>6 DEF ChunkAdvances
  <2>2. sourceFrame' \in Nat /\ currentFrame' \in Nat /\ advance' \in 0 .. MaxAdvance
    BY <2>1, ReceiverAssumption DEF CountInv, ThreadTypes
  <2>3. ThreadTypes'
    BY <2>1, <2>2 DEF CountInv, ThreadTypes, bufferVars, clientVars
  <2> QED
    BY <1>2, <2>1, <2>3 DEF bufferVars
<1>7. ASSUME NEW p \in Sent, SchedulePlayer(p) PROVE CountInv'
  <2>1. p.start \in Nat
    BY ReceiverAssumption DEF Packet
  <2>2. ThreadTypes'
    BY <1>7, <2>1 DEF SchedulePlayer, CountInv, ThreadTypes, bufferVars
  <2> QED
    BY <1>2, <1>7, <2>2 DEF SchedulePlayer, bufferVars
<1>8. CASE FormatKnown \/ RunThrows \/ StopPlayer \/ SampleProgress
  <2>1. ThreadTypes'
    BY <1>8 DEF FormatKnown, RunThrows, StopPlayer, SampleProgress, CountInv, ThreadTypes,
       bufferVars, playerVars
  <2> QED
    BY <1>2, <1>8, <2>1 DEF FormatKnown, RunThrows, StopPlayer, SampleProgress, bufferVars
<1>9. CASE CheckQuiet \/ Decide
  <2>1. ThreadTypes'
    BY <1>9 DEF CheckQuiet, Decide, CountInv, ThreadTypes, bufferVars, playerVars
  <2> QED
    BY <1>2, <1>9, <2>1 DEF CheckQuiet, Decide, bufferVars
<1>10. CASE UNCHANGED vars
  <2>1. ThreadTypes'
    BY <1>10 DEF vars, CountInv, ThreadTypes, bufferVars, clientVars, playerVars
  <2> QED
    BY <1>2, <1>10, <2>1 DEF vars, bufferVars
<1> QED
  BY <1>1, <1>3, <1>4, <1>5, <1>6, <1>7, <1>8, <1>9, <1>10 DEF Next, CallbackStep, ClientStep

(* The limit, the count and the types hold throughout.                     *)
LEMMA CountAlways == Spec => []CountInv
  BY CountInit, CountStep, PTL DEF Spec

(* The receiver's and the buffer's fields keep their types; packets_ never *)
(* holds more than its limit, nor two packets with one start, and          *)
(* packetsLost_ is decremented only when it is positive.                   *)
THEOREM TypeCorrect == Spec => []TypeOK
<1>1. CountInv => TypeOK
  <2> SUFFICES ASSUME CountInv PROVE TypeOK
    OBVIOUS
  <2>1. highest \in Nat \cup {None} /\ firstSeen \in Nat \cup {None}
    BY DEF CountInv, LossInv
  <2>2. missing \subseteq Nat /\ seen \subseteq Nat /\ packetsLost \in Nat
    <3>1. CASE highest = None
      BY <3>1 DEF CountInv, LossInv
    <3>2. CASE highest # None
      <4>1. firstSeen .. highest \subseteq Nat /\ 0 .. highest \subseteq Nat
        BY <3>2 DEF CountInv, LossInv
      <4> QED
        BY <3>2, <4>1 DEF CountInv, LossInv, Unseen
    <3> QED
      BY <3>1, <3>2
  <2> QED
    BY <2>1, <2>2 DEF CountInv, BufferTypes, ThreadTypes, TypeOK
<1> QED
  BY <1>1, CountAlways, PTL

(* A packet that JitterBuffer::push inserted stays until the callback has  *)
(* consumed its last frame, unless it starts before all packets of a full  *)
(* buffer.                                                                 *)
THEOREM AcceptedAlwaysUntilPlayed == Spec => AcceptedUntilPlayed
<1> DEFINE Leaves(p) ==
             \/ p \in packets' \cup (accepted \ packets)
             \/ End(p) <= Position'
             \/ /\ Cardinality(packets') = MaxPackets
                /\ \A q \in packets' : p.start < q.start
<1>1. ReceiverInv /\ CountInv /\ [Next]_vars => [\A p \in accepted' : Leaves(p)]_vars
  <2> SUFFICES ASSUME ReceiverInv, CountInv, [Next]_vars, NEW p \in accepted'
               PROVE  Leaves(p)
    OBVIOUS
  <2>1. CASE UNCHANGED <<packets, accepted>>
    BY <2>1
  <2>2. ASSUME NEW r \in Sent, Receive(r) PROVE Leaves(p)
    <3> DEFINE kept == (packets \ Expired) \cup {r}
    <3>1. Push(r) /\ UNCHANGED <<sourceFrame, advance>>
      BY <2>2 DEF Receive, playerVars
    <3>2. Position' = Position
      BY <3>1 DEF Position
    <3>3. CASE p \in Expired
      BY <3>2, <3>3, ExpiredArePlayed
    <3>4. CASE p \notin Expired /\ ~Insertable(r)
      BY <3>1, <3>4 DEF Push
    <3>5. CASE p \notin Expired /\ Insertable(r)
      <4>1. packets' = Trim(kept) /\ accepted' = accepted \cup {r}
        BY <3>1, <3>5 DEF Push
      <4>2. p \in kept \/ p \in accepted \ packets
        BY <3>5, <4>1
      <4>3. /\ kept \in SUBSET Sent /\ IsFiniteSet(kept) /\ Cardinality(kept) <= MaxPackets + 1
            /\ \A q, t \in kept : q.start = t.start => q = t
        BY <3>5, InsertedOne DEF CountInv
      <4> HIDE DEF kept
      <4>4. p \in kept => p \in Trim(kept) \/ Leaves(p)
        BY <4>1, <4>3, TrimEvicts
      <4> QED
        BY <4>1, <4>2, <4>4
    <3> QED
      BY <3>3, <3>4, <3>5
  <2>3. CASE \/ FallQuiet \/ CallbackStarts \/ ChunkAdvances \/ RunThrows
             \/ \E n \in 0 .. MaxAdvance : ChunkReads(n)
    BY <2>1, <2>3 DEF FallQuiet, CallbackStarts, ChunkAdvances, RunThrows, ChunkReads, bufferVars
  <2>4. CASE ClientStep \/ UNCHANGED vars
    BY <2>1, <2>4 DEF ClientStep, FormatKnown, SchedulePlayer, SampleProgress, CheckQuiet,
       Decide, StopPlayer, vars, bufferVars
  <2> QED
    BY <2>2, <2>3, <2>4 DEF Next, CallbackStep
<1> QED
  BY <1>1, ReceiverAlways, CountAlways, PTL DEF Spec, AcceptedUntilPlayed

(* PacketReceiverWorker::updateSequenceStatistics never reports less loss  *)
(* than there is, for any order, repetition and gap of sequence numbers.   *)
THEOREM LossNeverUnderReported == Spec => []LossNotUnderReported
<1>1. CountInv => LossNotUnderReported
  BY DEF CountInv, LossInv, Unseen, LossNotUnderReported
<1> QED
  BY <1>1, CountAlways, PTL
=============================================================================
