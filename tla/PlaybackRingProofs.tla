------------------------- MODULE PlaybackRingProofs -------------------------
(***************************************************************************)
(* The host's player hands the device the source's frames in order, for    *)
(* any ring, chunk, period and source.  The argument is the one the code   *)
(* relies on without a lock: the frames between readFrame_ and             *)
(* writtenFrame_ are complete and in their slots; the prefetch thread only *)
(* writes slots behind writtenFrame_ that it saw free, and the callback    *)
(* only reads slots before the writtenFrame_ it saw; since each position   *)
(* is advanced by one thread only, both views stay valid however the       *)
(* threads are interleaved.                                                *)
(***************************************************************************)
EXTENDS PlaybackRing, SequenceTheorems, TLAPS

(* The threads of a segment run only while it exists. *)
Threads ==
    /\ phase = "idle" => prefetchPc = "off"
    /\ phase \notin {"running", "uninit"} => callbackPc = "idle"
    /\ phase = "prefill" => readFrame = 0

(* The positions, and what each thread has seen of the other's. *)
Positions ==
    /\ readFrame <= writtenFrame
    /\ writtenFrame - readFrame <= Capacity
    /\ prefetchPc = "decode" => requested <= Available
    /\ callbackPc = "copy" => readFrame + framesRead <= writtenFrame

(* Every frame that was decoded and not yet handed over is in its slot. *)
Buffered ==
    \A p \in readFrame .. writtenFrame - 1 : ring[p % Capacity] = firstFrame + p

(* The device has heard as many frames as were read. *)
HeardAll == phase \in {"running", "uninit"} => Len(heard) = readFrame

RingInv == TypeOK /\ Threads /\ Positions /\ Buffered /\ HeardAll /\ HeardInOrder

-----------------------------------------------------------------------------
(* A position is a number of whole rings and its slot. *)
LEMMA SlotOf ==
    ASSUME NEW p \in Nat
    PROVE  /\ p % Capacity \in Slots /\ p \div Capacity \in Int
           /\ p = Capacity * (p \div Capacity) + (p % Capacity)
  BY RingAssumption, SMT DEF Slots

(* Positions less than a ring apart have slots of their own. *)
LEMMA SlotsDistinct ==
    ASSUME NEW p \in Nat, NEW q \in Nat, p < q, q - p < Capacity
    PROVE  p % Capacity # q % Capacity
<1> DEFINE a == p \div Capacity
           b == q \div Capacity
<1>1. SUFFICES ASSUME p % Capacity = q % Capacity PROVE FALSE
  OBVIOUS
<1>2. /\ a \in Int /\ b \in Int /\ Capacity \in Nat \ {0}
      /\ q - p = Capacity * b - Capacity * a
  BY <1>1, SlotOf, RingAssumption DEF Slots
<1> HIDE DEF a, b
<1>3. q - p = Capacity * (b - a)
  BY <1>2
<1>4. CASE b - a <= 0
  BY <1>2, <1>3, <1>4
<1>5. CASE b - a >= 1
  BY <1>2, <1>3, <1>5
<1> QED
  BY <1>2, <1>4, <1>5

(* A player starts idle, with an empty ring. *)
LEMMA RingInit == Init => RingInv
<1> SUFFICES ASSUME Init PROVE RingInv
  OBVIOUS
<1>1. heard = <<>> /\ Len(heard) = 0 /\ heard \in Seq(Nat \cup {Junk})
  BY DEF Init
<1>2. ring \in [Slots -> Nat \cup {Junk}]
  BY DEF Init
<1>3. TypeOK
  <2>1. firstFrame \in 0 .. TotalFrames /\ segments \in 0 .. MaxSegments
    BY RingAssumption DEF Init
  <2>2. requested \in 0 .. Capacity /\ framesRead \in 0 .. Period
    BY RingAssumption DEF Init
  <2> QED
    BY <1>1, <1>2, <2>1, <2>2 DEF Init, TypeOK
<1>4. Threads /\ Positions /\ Buffered
  BY RingAssumption DEF Init, Threads, Positions, Buffered, Available
<1> QED
  BY <1>3, <1>4 DEF Init, RingInv, HeardAll, HeardInOrder

-----------------------------------------------------------------------------
(* The prefetch thread.  Marking free slots disturbs no buffered frame ... *)
LEMMA BeginDecodeKeeps == RingInv /\ BeginDecode => RingInv'
<1> SUFFICES ASSUME RingInv, BeginDecode PROVE RingInv'
  OBVIOUS
<1> USE RingAssumption
<1>1. /\ UNCHANGED <<phase, segments, firstFrame, due, writtenFrame, readFrame,
                     decoderFinished, prefetchRunning, callbackPc, written,
                     framesRead, endReached, heard, playing>>
      /\ prefetchPc = "loop" /\ prefetchPc' = "decode" /\ Available > 0
      /\ requested' = Least(Least(Available, Contiguous), Chunk)
      /\ ring' = [s \in Slots |-> IF s \in SlotsOf(writtenFrame, requested')
                                  THEN Junk ELSE ring[s]]
  BY DEF BeginDecode, callerVars, callbackVars
<1>2. /\ writtenFrame \in Nat /\ readFrame \in Nat /\ readFrame <= writtenFrame
      /\ ring \in [Slots -> Nat \cup {Junk}]
  BY DEF RingInv, TypeOK, Positions
<1> DEFINE asked == requested'
<1>3. asked \in 0 .. Capacity /\ asked <= Available
  <2>1. writtenFrame % Capacity \in Slots
    BY <1>2, SlotOf
  <2>2. Contiguous \in 1 .. Capacity
    BY <2>1 DEF Contiguous, Slots
  <2>3. Available \in 1 .. Capacity
    BY <1>1, <1>2 DEF Available
  <2> QED
    BY <1>1, <2>2, <2>3 DEF Least
<1>4. ring' \in [Slots -> Nat \cup {Junk}]
  BY <1>1, <1>2
<1>5. Available' = Available
  BY <1>1 DEF Available
<1>6. \A s \in Slots : s \notin SlotsOf(writtenFrame, asked) => ring'[s] = ring[s]
  BY <1>1
<1>7. TypeOK'
  BY <1>1, <1>3, <1>4 DEF RingInv, TypeOK
<1>8. Threads' /\ Positions'
  BY <1>1, <1>3, <1>5 DEF RingInv, Threads, Positions
<1>9. HeardAll' /\ HeardInOrder'
  BY <1>1 DEF RingInv, HeardAll, HeardInOrder
<1> HIDE DEF asked
<1>10. Buffered'
  <2> SUFFICES ASSUME NEW p \in readFrame .. writtenFrame - 1
               PROVE  ring'[p % Capacity] = firstFrame + p
    BY <1>1 DEF Buffered
  <2>1. p \in Nat /\ p % Capacity \in Slots
    BY <1>2, SlotOf
  <2>2. ASSUME NEW i \in 0 .. asked - 1 PROVE p % Capacity # (writtenFrame + i) % Capacity
    <3> DEFINE q == writtenFrame + i
    <3>1. q \in Nat /\ p < q /\ q - p < Capacity
      BY <1>2, <1>3, <2>1, <2>2 DEF Available
    <3> HIDE DEF q
    <3>2. p % Capacity # q % Capacity
      BY <2>1, <3>1, SlotsDistinct
    <3> QED
      BY <3>2 DEF q
  <2>3. p % Capacity \notin SlotsOf(writtenFrame, asked)
    BY <2>2 DEF SlotsOf
  <2>4. ring'[p % Capacity] = ring[p % Capacity]
    BY <1>6, <2>1, <2>3
  <2> QED
    BY <2>4 DEF RingInv, Buffered
<1> QED
  BY <1>7, <1>8, <1>9, <1>10 DEF RingInv

(* ... and the decoded frames are complete before writtenFrame_ says so.   *)
LEMMA EndDecodeKeeps == ASSUME NEW n \in 0 .. Chunk, RingInv, EndDecode(n) PROVE RingInv'
<1> USE RingAssumption
<1> DEFINE Written(s) == \E i \in 0 .. n - 1 : s = (writtenFrame + i) % Capacity
           offset(s) == CHOOSE i \in 0 .. n - 1 : s = (writtenFrame + i) % Capacity
<1>1. /\ UNCHANGED <<phase, segments, firstFrame, due, readFrame, decoderFinished,
                     prefetchRunning, callbackPc, written, framesRead, endReached,
                     heard, playing>>
      /\ prefetchPc = "decode" /\ prefetchPc' \in {"loop", "finish"}
      /\ n <= requested /\ requested' = 0
      /\ writtenFrame' = writtenFrame + n
      /\ ring' = [s \in Slots |-> IF Written(s) THEN firstFrame + writtenFrame + offset(s)
                                  ELSE ring[s]]
  BY DEF EndDecode, callerVars, callbackVars
<1>2. /\ writtenFrame \in Nat /\ readFrame \in Nat /\ readFrame <= writtenFrame
      /\ firstFrame \in Nat /\ framesRead \in Nat /\ requested \in 0 .. Capacity
      /\ ring \in [Slots -> Nat \cup {Junk}]
  BY DEF RingInv, TypeOK, Positions
<1>3. n \in Nat /\ n <= Available
  BY <1>1, <1>2 DEF RingInv, Positions, Available
<1>4. \A s \in Slots : Written(s) =>
        offset(s) \in 0 .. n - 1 /\ s = (writtenFrame + offset(s)) % Capacity
  OBVIOUS
<1> HIDE DEF offset, Written
<1>5. ring' \in [Slots -> Nat \cup {Junk}]
  <2> SUFFICES ASSUME NEW s \in Slots
               PROVE  (IF Written(s) THEN firstFrame + writtenFrame + offset(s) ELSE ring[s])
                        \in Nat \cup {Junk}
    BY <1>1
  <2>1. CASE Written(s)
    <3>1. offset(s) \in Nat
      BY <1>3, <1>4, <2>1
    <3> QED
      BY <1>2, <2>1, <3>1
  <2>2. CASE ~Written(s)
    BY <1>2, <2>2
  <2> QED
    BY <2>1, <2>2
<1>6. Buffered'
  <2>1. SUFFICES ASSUME NEW p \in readFrame .. writtenFrame + n - 1
                 PROVE  ring'[p % Capacity] = firstFrame + p
    <3>1. readFrame' = readFrame /\ writtenFrame' = writtenFrame + n /\ firstFrame' = firstFrame
      BY <1>1
    <3>2. writtenFrame' - 1 = writtenFrame + n - 1
      BY <1>2, <1>3, <3>1
    <3>3. \A p \in readFrame .. writtenFrame' - 1 : ring'[p % Capacity] = firstFrame + p
      BY <2>1, <3>2, Zenon
    <3> QED
      BY <3>1, <3>3, Zenon DEF Buffered
  <2>2. p \in Nat /\ p % Capacity \in Slots
    <3>1. p \in Nat
      BY <1>2, <1>3
    <3> QED
      BY <3>1, SlotOf
  <2>3. ASSUME NEW i \in 0 .. n - 1, p % Capacity = (writtenFrame + i) % Capacity
        PROVE  p = writtenFrame + i
    <3> DEFINE q == writtenFrame + i
    <3>1. /\ q \in Nat /\ q - p < Capacity /\ p - q < Capacity
          /\ p % Capacity = q % Capacity
      BY <1>2, <1>3, <2>2, <2>3 DEF Available
    <3> HIDE DEF q
    <3>2. ~(p < q) /\ ~(q < p)
      BY <2>2, <3>1, SlotsDistinct
    <3>3. p = q
      BY <2>2, <3>1, <3>2
    <3> QED
      BY <3>3 DEF q
  <2>4. CASE p < writtenFrame
    <3>1. ~Written(p % Capacity)
      <4>1. SUFFICES ASSUME NEW i \in 0 .. n - 1, p % Capacity = (writtenFrame + i) % Capacity
                     PROVE  FALSE
        BY DEF Written
      <4>2. p = writtenFrame + i
        BY <2>3, <4>1
      <4> QED
        BY <1>2, <1>3, <2>4, <4>2
    <3>2. ring'[p % Capacity] = ring[p % Capacity]
      BY <1>1, <2>2, <3>1
    <3>3. p \in readFrame .. writtenFrame - 1
      BY <1>2, <1>3, <2>4
    <3>4. ring[p % Capacity] = firstFrame + p
      BY <3>3 DEF RingInv, Buffered
    <3> QED
      BY <3>2, <3>4
  <2>5. CASE p >= writtenFrame
    <3>1. p - writtenFrame \in 0 .. n - 1 /\ p = writtenFrame + (p - writtenFrame)
      BY <1>2, <1>3, <2>2, <2>5
    <3>2. Written(p % Capacity)
      BY <3>1 DEF Written
    <3>3. offset(p % Capacity) \in 0 .. n - 1 /\ p = writtenFrame + offset(p % Capacity)
      BY <1>4, <2>2, <2>3, <3>2
    <3>4. ring'[p % Capacity] = firstFrame + writtenFrame + offset(p % Capacity)
      BY <1>1, <2>2, <3>2
    <3> QED
      BY <1>2, <1>3, <3>3, <3>4
  <2> QED
    BY <1>2, <2>2, <2>4, <2>5
<1>7. TypeOK'
  <2>1. writtenFrame' \in Nat /\ requested' \in 0 .. Capacity
    BY <1>1, <1>2, <1>3
  <2> QED
    BY <1>1, <1>5, <2>1 DEF RingInv, TypeOK
<1>8. Threads' /\ Positions'
  BY <1>1, <1>2, <1>3 DEF RingInv, Threads, Positions, Available
<1>9. HeardAll' /\ HeardInOrder'
  BY <1>1 DEF RingInv, HeardAll, HeardInOrder
<1> QED
  BY <1>6, <1>7, <1>8, <1>9 DEF RingInv

-----------------------------------------------------------------------------
(* The callback.  It takes no more than it saw written ... *)
LEMMA CallbackLoadsKeeps == ASSUME NEW n \in 1 .. Period, RingInv, CallbackLoads(n) PROVE RingInv'
<1> USE RingAssumption
<1>1. /\ UNCHANGED <<phase, segments, firstFrame, due, ring, writtenFrame, readFrame,
                     decoderFinished, prefetchRunning, prefetchPc, requested,
                     endReached, playing, heard>>
      /\ phase \in {"running", "uninit"} /\ callbackPc' = "copy"
      /\ written' = writtenFrame /\ framesRead' = Least(n, writtenFrame - readFrame)
  BY DEF CallbackLoads, Copyable, callerVars, prefetchVars
<1>2. writtenFrame \in Nat /\ readFrame \in Nat /\ readFrame <= writtenFrame
  BY DEF RingInv, TypeOK, Positions
<1>3. framesRead' \in 0 .. Period /\ framesRead' <= writtenFrame - readFrame
  BY <1>1, <1>2 DEF Least
<1>4. TypeOK'
  BY <1>1, <1>2, <1>3 DEF RingInv, TypeOK
<1>5. Threads' /\ Positions'
  BY <1>1, <1>2, <1>3 DEF RingInv, Threads, Positions, Available
<1>6. Buffered' /\ HeardAll' /\ HeardInOrder'
  BY <1>1 DEF RingInv, Buffered, HeardAll, HeardInOrder
<1> QED
  BY <1>4, <1>5, <1>6 DEF RingInv

(* ... so what it copies are the next frames of the source. *)
LEMMA CallbackCopiesKeeps == RingInv /\ CallbackCopies => RingInv'
<1> SUFFICES ASSUME RingInv, CallbackCopies PROVE RingInv'
  OBVIOUS
<1> USE RingAssumption
<1> DEFINE copied == [i \in 1 .. framesRead |-> ring[(readFrame + i - 1) % Capacity]]
<1>1. /\ UNCHANGED <<phase, segments, firstFrame, due, ring, writtenFrame, decoderFinished,
                     prefetchRunning, prefetchPc, requested, written, framesRead,
                     endReached, playing>>
      /\ callbackPc = "copy" /\ callbackPc' = "check"
      /\ heard' = heard \o copied /\ readFrame' = readFrame + framesRead
  BY DEF CallbackCopies, callerVars, prefetchVars
<1>2. /\ writtenFrame \in Nat /\ readFrame \in Nat /\ firstFrame \in Nat
      /\ framesRead \in Nat /\ readFrame + framesRead <= writtenFrame
      /\ writtenFrame - readFrame <= Capacity
  BY <1>1 DEF RingInv, TypeOK, Positions
<1>3. \A i \in 1 .. framesRead : copied[i] = firstFrame + readFrame + i - 1
  <2> SUFFICES ASSUME NEW i \in 1 .. framesRead
               PROVE  ring[(readFrame + i - 1) % Capacity] = firstFrame + readFrame + i - 1
    OBVIOUS
  <2>1. readFrame + i - 1 \in readFrame .. writtenFrame - 1
    BY <1>2
  <2>2. ring[(readFrame + i - 1) % Capacity] = firstFrame + (readFrame + i - 1)
    BY <2>1 DEF RingInv, Buffered
  <2> QED
    BY <1>2, <2>2
<1>4. copied \in Seq(Nat) /\ Len(copied) = framesRead
  <2>1. \A i \in 1 .. framesRead : ring[(readFrame + i - 1) % Capacity] \in Nat
    <3> SUFFICES ASSUME NEW i \in 1 .. framesRead
                 PROVE  ring[(readFrame + i - 1) % Capacity] \in Nat
      OBVIOUS
    <3>1. ring[(readFrame + i - 1) % Capacity] = firstFrame + readFrame + i - 1
      BY <1>3
    <3>2. firstFrame + readFrame + i - 1 \in Nat
      BY <1>2
    <3> QED
      BY <3>1, <3>2
  <2>2. copied \in [1 .. framesRead -> Nat]
    BY <2>1
  <2> HIDE DEF copied
  <2>3. copied \in Seq(Nat)
    BY <1>2, <2>2
  <2> QED
    BY <1>2, <2>2, <2>3, LenProperties
<1> HIDE DEF copied
<1>5. heard \in Seq(Nat \cup {Junk})
  BY DEF RingInv, TypeOK
<1>6. /\ heard' \in Seq(Nat \cup {Junk})
      /\ Len(heard') = Len(heard) + framesRead
      /\ \A i \in 1 .. Len(heard') :
           heard'[i] = IF i <= Len(heard) THEN heard[i] ELSE copied[i - Len(heard)]
  <2>1. copied \in Seq(Nat \cup {Junk})
    BY <1>4
  <2> QED
    BY <1>1, <1>4, <1>5, <2>1, ConcatProperties
<1>7. phase \in {"running", "uninit"} /\ Len(heard) = readFrame
  BY <1>1 DEF RingInv, Threads, HeardAll
<1>8. HeardInOrder'
  <2> SUFFICES ASSUME NEW i \in 1 .. Len(heard') PROVE heard'[i] = firstFrame + i - 1
    BY <1>1 DEF HeardInOrder
  <2>1. CASE i <= Len(heard)
    BY <1>6, <1>7, <2>1 DEF RingInv, HeardInOrder
  <2>2. CASE i > Len(heard)
    <3>1. i - readFrame \in 1 .. framesRead
      BY <1>2, <1>6, <1>7, <2>2
    <3>2. heard'[i] = copied[i - readFrame]
      BY <1>2, <1>6, <1>7, <2>2
    <3>3. copied[i - readFrame] = firstFrame + readFrame + (i - readFrame) - 1
      BY <1>3, <3>1
    <3> QED
      BY <1>2, <3>2, <3>3
  <2> QED
    BY <1>2, <1>7, <2>1, <2>2
<1>9. HeardAll'
  BY <1>1, <1>6, <1>7 DEF HeardAll
<1>10. TypeOK'
  BY <1>1, <1>2, <1>6 DEF RingInv, TypeOK
<1>11. Threads' /\ Positions'
  <2>1. Available' >= Available
    BY <1>1, <1>2 DEF Available
  <2>2. /\ Available \in Int /\ Available' \in Int /\ requested \in Int
        /\ prefetchPc = "decode" => requested <= Available
    BY <1>1, <1>2 DEF RingInv, TypeOK, Positions, Available
  <2> QED
    BY <1>1, <1>2, <1>7, <2>1, <2>2 DEF RingInv, Threads, Positions
<1>12. Buffered'
  <2> SUFFICES ASSUME NEW p \in readFrame' .. writtenFrame' - 1
               PROVE  ring'[p % Capacity] = firstFrame' + p
    BY DEF Buffered
  <2>1. p \in readFrame .. writtenFrame - 1
    BY <1>1, <1>2
  <2> QED
    BY <1>1, <2>1 DEF RingInv, Buffered
<1> QED
  BY <1>8, <1>9, <1>10, <1>11, <1>12 DEF RingInv

(* The other steps touch neither the ring nor the positions. *)
LEMMA QuietKeeps ==
    ASSUME RingInv, TypeOK', Threads',
           UNCHANGED <<firstFrame, ring, writtenFrame, readFrame, requested, framesRead, heard>>,
           prefetchPc' = "decode" => prefetchPc = "decode",
           callbackPc' = "copy" => callbackPc = "copy",
           phase' \in {"running", "uninit"} => phase \in {"running", "uninit"}
    PROVE  RingInv'
  BY DEF RingInv, Positions, Available, Buffered, HeardAll, HeardInOrder

(* A new segment starts with empty positions, and its first callback with  *)
(* nothing heard.                                                          *)
LEMMA SegmentBegins ==
    ASSUME RingInv, (\E f \in 0 .. TotalFrames : PlayFrom(f)) \/ StartDevice
    PROVE  RingInv'
<1> USE RingAssumption
<1>1. ASSUME NEW f \in 0 .. TotalFrames, PlayFrom(f) PROVE RingInv'
  <2>1. TypeOK'
    <3>1. /\ UNCHANGED <<ring, requested, callbackPc, written, framesRead, endReached,
                         heard, playing>>
          /\ phase' = "prefill" /\ prefetchPc' = "loop" /\ due' = FALSE
          /\ decoderFinished' = FALSE /\ prefetchRunning' = TRUE
          /\ writtenFrame' = 0 /\ readFrame' = 0
      BY <1>1 DEF PlayFrom, callbackVars
    <3>2. segments' \in 0 .. MaxSegments /\ firstFrame' \in 0 .. TotalFrames
      BY <1>1 DEF PlayFrom, RingInv, TypeOK
    <3> QED
      BY <3>1, <3>2 DEF RingInv, TypeOK
  <2>2. Threads' /\ Positions' /\ HeardAll' /\ HeardInOrder'
    BY <1>1 DEF PlayFrom, RingInv, Threads, Positions, HeardAll, HeardInOrder, callbackVars
  <2>3. Buffered'
    BY <1>1 DEF PlayFrom, Buffered
  <2> QED
    BY <2>1, <2>2, <2>3 DEF RingInv
<1>2. CASE StartDevice
  <2>1. heard' = <<>> /\ Len(heard') = 0 /\ heard' \in Seq(Nat \cup {Junk})
    BY <1>2 DEF StartDevice
  <2>2. TypeOK'
    BY <1>2, <2>1 DEF StartDevice, RingInv, TypeOK, prefetchVars
  <2>3. Threads' /\ Positions'
    BY <1>2 DEF StartDevice, RingInv, Threads, Positions, Available, prefetchVars
  <2>4. HeardAll' /\ HeardInOrder'
    BY <1>2, <2>1 DEF StartDevice, RingInv, Threads, HeardAll, HeardInOrder
  <2>5. Buffered'
    BY <1>2 DEF StartDevice, RingInv, Buffered
  <2> QED
    BY <2>2, <2>3, <2>4, <2>5 DEF RingInv
<1> QED
  BY <1>1, <1>2

(* Every step of the three threads keeps the views valid.                  *)
LEMMA RingStep == RingInv /\ [Next]_vars => RingInv'
<1> SUFFICES ASSUME RingInv, [Next]_vars PROVE RingInv'
  OBVIOUS
<1> USE RingAssumption
<1>1. CASE PrefetchStops \/ FinishDecoding
  <2>1. TypeOK' /\ Threads'
    BY <1>1 DEF PrefetchStops, FinishDecoding, RingInv, TypeOK, Threads, callerVars, callbackVars
  <2> QED
    BY <1>1, <2>1, QuietKeeps DEF PrefetchStops, FinishDecoding, callerVars, callbackVars
<1>2. CASE CallbackAtEnd
  <2>1. TypeOK' /\ Threads'
    BY <1>2 DEF CallbackAtEnd, RingInv, TypeOK, Threads, callerVars, callbackVars, prefetchVars
  <2> QED
    BY <1>2, <2>1, QuietKeeps DEF CallbackAtEnd, callerVars, callbackVars, prefetchVars
<1>3. CASE CallbackChecksEnd
  <2>1. /\ UNCHANGED <<phase, segments, firstFrame, due, ring, writtenFrame, readFrame,
                       decoderFinished, prefetchRunning, prefetchPc, requested, playing, heard>>
        /\ callbackPc = "check" /\ callbackPc' = "idle" /\ written' = 0 /\ framesRead' = 0
        /\ endReached' = (endReached \/ Drained)
    BY <1>3 DEF CallbackChecksEnd, callerVars, prefetchVars
  <2>2. endReached' \in BOOLEAN
    BY <2>1 DEF Drained, RingInv, TypeOK
  <2>3. TypeOK'
    BY <2>1, <2>2 DEF RingInv, TypeOK
  <2>4. Threads' /\ Positions'
    BY <2>1 DEF RingInv, Threads, Positions, Available
  <2>5. Buffered' /\ HeardAll' /\ HeardInOrder'
    BY <2>1 DEF RingInv, Buffered, HeardAll, HeardInOrder
  <2> QED
    BY <2>3, <2>4, <2>5 DEF RingInv
<1>4. CASE DeviceFails \/ StartTimePasses \/ Stop
  <2>1. TypeOK'
    BY <1>4 DEF DeviceFails, StartTimePasses, Stop, RingInv, TypeOK, callbackVars, prefetchVars
  <2>2. Threads'
    BY <1>4 DEF DeviceFails, StartTimePasses, Stop, RingInv, Threads, callbackVars, prefetchVars
  <2> QED
    BY <1>4, <2>1, <2>2, QuietKeeps DEF DeviceFails, StartTimePasses, Stop, callbackVars, prefetchVars
<1>5. CASE CloseDevice \/ JoinPrefetch
  <2>1. TypeOK'
    BY <1>5 DEF CloseDevice, JoinPrefetch, RingInv, TypeOK, callbackVars, prefetchVars
  <2>2. Threads'
    BY <1>5 DEF CloseDevice, JoinPrefetch, RingInv, Threads, callbackVars, prefetchVars
  <2> QED
    BY <1>5, <2>1, <2>2, QuietKeeps DEF CloseDevice, JoinPrefetch, callbackVars, prefetchVars
<1>6. CASE UNCHANGED vars
  <2>1. TypeOK' /\ Threads'
    BY <1>6 DEF RingInv, TypeOK, Threads, vars, callerVars, callbackVars, prefetchVars
  <2> QED
    BY <1>6, <2>1, QuietKeeps DEF vars, callerVars, callbackVars, prefetchVars
<1> QED
  BY <1>1, <1>2, <1>3, <1>4, <1>5, <1>6, BeginDecodeKeeps, EndDecodeKeeps, CallbackLoadsKeeps,
     CallbackCopiesKeeps, SegmentBegins DEF Next, PrefetchStep, CallbackStep, CallerStep

(* The ring's views are valid throughout. *)
LEMMA RingAlways == Spec => []RingInv
  BY RingInit, RingStep, PTL DEF Spec

(* The variables of DesktopAudioPlayer keep their types; the prefetch      *)
(* thread never asks for more frames than the ring holds.                  *)
THEOREM TypeCorrect == Spec => []TypeOK
<1>1. RingInv => TypeOK
  BY DEF RingInv
<1> QED
  BY <1>1, RingAlways, PTL

(* The device callback of DesktopAudioPlayer hands over the segment's      *)
(* frames in order, without a gap, a repetition or a slot being written,   *)
(* whatever the two threads do meanwhile and after any number of restarts. *)
THEOREM AlwaysHeardInOrder == Spec => []HeardInOrder
<1>1. RingInv => HeardInOrder
  BY DEF RingInv
<1> QED
  BY <1>1, RingAlways, PTL
=============================================================================
