------------------------- MODULE ClockExchangeProofs -------------------------
(***************************************************************************)
(* A receiver knows the host's clock up to half a round trip and starts    *)
(* with the host up to this error, for every delay, loss, duplication and  *)
(* reordering of datagrams and every number of samples.  The argument      *)
(* follows a datagram: the host's readings lie between the client's, and   *)
(* the middle of three offsets lies between two others.                    *)
(***************************************************************************)
EXTENDS ClockExchange, PlaybackTimelineProofs, SequenceTheorems

-----------------------------------------------------------------------------
(* The inductive invariant.                                                *)

(* Every reading of a clock was taken in the order of the exchange.        *)
RequestsInThePast == \A request \in requests : request.sent <= now

ServedInOrder ==
    serving # None =>
        /\ serving.sent + HostAhead <= serving.received
        /\ serving.received <= HostNow

AnswersInOrder ==
    \A answer \in answers :
        /\ answer.sent + HostAhead <= answer.received
        /\ answer.received <= answer.replied
        /\ answer.replied <= HostNow

ReadingsInOrder == RequestsInThePast /\ ServedInOrder /\ AnswersInOrder

(* The error of a sample is at most half its round trip, and rounding.     *)
ErrorWithin(sample) == 2 * Distance(sample.offset, HostAhead) <= sample.rtt + 1

(* A sample belongs to a probe of this measurement that is not waited for  *)
(* any more.                                                               *)
SamplesOfMeasurement ==
    /\ pc = "wait" => started <= probe.sent /\ Len(samples) < DesiredSamples
    /\ \A i \in DOMAIN samples :
        /\ ErrorWithin(samples[i])
        /\ samples[i].sent <= samples[i].time /\ samples[i].time <= now
        /\ samples[i].id <= probe.id
        /\ pc = "wait" => samples[i].id < probe.id

(* Where run is tells what it has estimated, and that the next measurement *)
(* begins after the time of the last estimate.                             *)
Stages ==
    /\ pc = "stopped" => estimates = <<>> /\ start = None
    /\ pc = "select" => start = None /\ Len(estimates) = 1 /\ Last(estimates).time <= now
    /\ pc = "play" => start # None /\ Last(estimates).time < nextMeasure
    /\ pc \in {"send", "wait"} =>
        /\ start = None => estimates = <<>>
        /\ estimates # <<>> => Last(estimates).time < started
    /\ start # None => estimates # <<>>

(* The start is the instant of the packet, corrected by the first estimate.*)
StartFromFirstEstimate ==
    start # None =>
        /\ start.frame \in PacketStarts
        /\ start.presentation = Presentation(start.frame)
        /\ start.local = start.presentation - estimates[1].offset + PlaybackDelay - OutputLatency

(* The device calls back in time, and plays from the first callback that   *)
(* is not too early.                                                       *)
CallbacksInTime ==
    /\ start = None => callback = None /\ heard = None
    /\ (start # None /\ heard = None /\ callback = None) =>
         start.chosen <= now /\ now <= start.chosen + DeviceStart
    /\ (start # None /\ heard = None /\ callback # None) =>
         callback < start.local /\ callback <= now /\ now <= callback + Period
    /\ heard # None => start.local <= heard /\ heard <= start.local + Period

ClockInv ==
    /\ TypeOK
    /\ ReadingsInOrder
    /\ SamplesOfMeasurement
    /\ SamplesAreFresh
    /\ Stages
    /\ OffsetErrorBounded
    /\ EstimatorAccepts
    /\ StartFromFirstEstimate
    /\ StartIsAhead
    /\ CallbacksInTime

-----------------------------------------------------------------------------
(* One exchange and the choice among several.                              *)

(* llround is off by at most a half.                                       *)
LEMMA HalveRounds ==
    ASSUME NEW x \in Int
    PROVE  Halve(x) \in Int /\ 2 * Halve(x) <= x + 1 /\ x <= 2 * Halve(x) + 1
  BY DEF Halve

(* ClockSync::estimate: the offset is wrong by at most half the round trip *)
(* when the host's readings lie between the client's.                      *)
LEMMA EstimateBounded ==
    ASSUME NEW answer \in Answer, NEW t4 \in Nat, Plausible(answer, t4),
           answer.sent + HostAhead <= answer.received,
           answer.replied <= t4 + HostAhead
    PROVE  LET sample == Estimate(answer, t4)
           IN  /\ sample \in Sample
               /\ ErrorWithin(sample)
               /\ sample.sent <= sample.time /\ sample.time <= t4
<1> DEFINE x == (answer.received - answer.sent) + (answer.replied - t4)
           sample == Estimate(answer, t4)
<1>1. /\ answer.id \in Nat /\ answer.sent \in Nat
      /\ answer.received \in Int /\ answer.replied \in Int /\ HostAhead \in Int
  BY ClockAssumption DEF Answer
<1>2. x \in Int
  BY <1>1
<1> HIDE DEF x
<1>3. Halve(x) \in Int /\ 2 * Halve(x) <= x + 1 /\ x <= 2 * Halve(x) + 1
  BY <1>2, HalveRounds
<1>4. /\ sample.id = answer.id /\ sample.sent = answer.sent /\ sample.offset = Halve(x)
      /\ sample.rtt = RoundTrip(answer, t4)
      /\ sample.time = answer.sent + (t4 - answer.sent) \div 2
  BY DEF Estimate, x
<1>5. RoundTrip(answer, t4) \in Nat /\ t4 >= answer.sent
  BY <1>1 DEF Plausible, RoundTrip
<1>6. sample \in Sample
  BY <1>1, <1>3, <1>5 DEF Estimate, Sample, x
<1>7. ErrorWithin(sample)
  BY <1>1, <1>2, <1>3, <1>4 DEF ErrorWithin, Distance, RoundTrip, x
<1> QED
  BY <1>1, <1>4, <1>5, <1>6, <1>7

(* What lies between two numbers is no further from a point than both.     *)
LEMMA DistanceBetween ==
    ASSUME NEW low \in Int, NEW middle \in Int, NEW high \in Int, NEW bound \in Int,
           low <= middle, middle <= high,
           2 * Distance(low, HostAhead) <= bound, 2 * Distance(high, HostAhead) <= bound
    PROVE  2 * Distance(middle, HostAhead) <= bound
<1>1. HostAhead \in Int
  BY ClockAssumption
<1> QED
  BY <1>1 DEF Distance

(* The middle sample of the three with the shortest round trips is as good *)
(* as the second best of them, whichever of the three it is: its offset    *)
(* lies between those of two others when it is the worst itself.           *)
LEMMA MiddleBounded ==
    ASSUME NEW s \in Seq(Sample), s # <<>>, \A i \in DOMAIN s : ErrorWithin(s[i]),
           NEW p \in ByRoundTrip(s), NEW middle \in MiddleOf(Best(s, p))
    PROVE  LET second == s[p[IF Len(s) = 1 THEN 1 ELSE 2]].rtt
           IN  /\ second \in Nat
               /\ 2 * Distance(middle.offset, HostAhead) <= second + 1
               /\ \E i \in DOMAIN s : middle = s[i]
<1> DEFINE n == SelectedCount(Len(s))
           best == Best(s, p)
           second == s[p[IF Len(s) = 1 THEN 1 ELSE 2]].rtt
<1>1. /\ Len(s) \in Nat \ {0} /\ DOMAIN s = 1 .. Len(s)
      /\ \A i \in 1 .. Len(s) : s[i] \in Sample /\ ErrorWithin(s[i])
  OBVIOUS
<1>2. /\ p \in [1 .. Len(s) -> 1 .. Len(s)]
      /\ \A i, j \in 1 .. Len(s) : i < j => s[p[i]].rtt <= s[p[j]].rtt
  BY DEF ByRoundTrip, Orders
<1>3. n \in 1 .. Len(s) /\ n <= 3 /\ (n = 1 <=> Len(s) = 1)
  BY <1>1 DEF SelectedCount
<1>4. DOMAIN best = 1 .. n /\ \A i \in 1 .. n : best[i] = s[p[i]]
  BY <1>2, <1>3 DEF Best
<1>5. Len(best) = n
  BY <1>3, <1>4
<1>6. second = best[IF n = 1 THEN 1 ELSE 2].rtt
  BY <1>3, <1>4
<1> HIDE DEF n, best, second
<1>7. /\ \A i \in 1 .. n : /\ ErrorWithin(best[i])
                           /\ best[i].rtt \in Nat /\ best[i].offset \in Int
      /\ \A i, j \in 1 .. n : i < j => best[i].rtt <= best[j].rtt
      /\ second \in Nat
  <2>1. \A i \in 1 .. n : best[i] = s[p[i]] /\ p[i] \in 1 .. Len(s)
    BY <1>2, <1>3, <1>4
  <2>2. \A i \in 1 .. Len(s) : s[i].rtt \in Nat /\ s[i].offset \in Int
    BY <1>1 DEF Sample
  <2>3. \A i \in 1 .. n : best[i].rtt \in Nat
    BY <2>1, <2>2
  <2>4. second \in Nat
    BY <1>3, <1>6, <2>3
  <2>5. \A i \in 1 .. n : ErrorWithin(best[i])
    BY <1>1, <2>1
  <2>6. \A i, j \in 1 .. n : i < j => best[i].rtt <= best[j].rtt
    BY <1>2, <1>3, <2>1
  <2> QED
    BY <2>1, <2>2, <2>4, <2>5, <2>6
<1>8. PICK q \in Orders(n) :
        /\ middle = best[q[n \div 2 + 1]]
        /\ \A i, j \in 1 .. n : i < j => best[q[i]].offset <= best[q[j]].offset
  BY <1>5 DEF MiddleOf, best
<1>9. q \in [1 .. n -> 1 .. n] /\ \A i, j \in 1 .. n : i # j => q[i] # q[j]
  BY <1>8 DEF Orders
<1>10. \E i \in 1 .. n : middle = best[i]
  BY <1>3, <1>8, <1>9
<1>11. \A i \in 1 .. n : i <= 2 => 2 * Distance(best[i].offset, HostAhead) <= second + 1
  <2> SUFFICES ASSUME NEW i \in 1 .. n, i <= 2
               PROVE  2 * Distance(best[i].offset, HostAhead) <= second + 1
    OBVIOUS
  <2>1. best[i].rtt <= second
    <3>1. CASE i = 1 /\ n # 1
      BY <1>3, <1>6, <1>7, <3>1
    <3>2. CASE i = 2 \/ n = 1
      BY <1>3, <1>6, <1>7, <3>2
    <3> QED
      BY <3>1, <3>2
  <2>2. 2 * Distance(best[i].offset, HostAhead) <= best[i].rtt + 1
    BY <1>7 DEF ErrorWithin
  <2>3. best[i].rtt \in Nat /\ Distance(best[i].offset, HostAhead) \in Int
    BY <1>7, ClockAssumption DEF Distance
  <2> QED
    BY <1>7, <2>1, <2>2, <2>3
<1>12. 2 * Distance(middle.offset, HostAhead) <= second + 1
  <2>1. CASE n <= 2
    BY <1>3, <1>10, <1>11, <2>1
  <2>2. CASE n = 3
    <3>1. middle = best[q[2]] /\ q[1] \in 1 .. 3 /\ q[2] \in 1 .. 3 /\ q[3] \in 1 .. 3
      BY <1>8, <1>9, <2>2
    <3>2. CASE q[2] # 3
      BY <1>11, <2>2, <3>1, <3>2
    <3>3. CASE q[2] = 3
      <4>1. q[1] \in 1 .. 2 /\ q[3] \in 1 .. 2
        BY <1>9, <2>2, <3>1, <3>3
      <4>2. /\ 2 * Distance(best[q[1]].offset, HostAhead) <= second + 1
            /\ 2 * Distance(best[q[3]].offset, HostAhead) <= second + 1
        BY <1>11, <2>2, <4>1
      <4>3. best[q[1]].offset <= middle.offset /\ middle.offset <= best[q[3]].offset
        BY <1>8, <2>2, <3>1
      <4>4. best[q[1]].offset \in Int /\ best[q[3]].offset \in Int /\ middle.offset \in Int
        BY <1>7, <1>10, <2>2, <4>1
      <4> QED
        BY <1>7, <4>2, <4>3, <4>4, DistanceBetween
    <3> QED
      BY <3>2, <3>3
  <2> QED
    BY <1>3, <2>1, <2>2
<1>13. \E i \in DOMAIN s : middle = s[i]
  BY <1>1, <1>2, <1>3, <1>4, <1>10
<1> QED
  BY <1>7, <1>12, <1>13 DEF second

(* ClockSyncClient::measure: its result is a sample's offset and time, and *)
(* the offset is as good as the second shortest round trip.                *)
LEMMA MeasuredSound ==
    ASSUME NEW s \in Seq(Sample), s # <<>>, \A i \in DOMAIN s : ErrorWithin(s[i]),
           NEW result \in Measured(s)
    PROVE  /\ result \in Measurement
           /\ 2 * Distance(result.offset, HostAhead) <= result.second + 1
           /\ \E i \in DOMAIN s : result.time = s[i].time
<1> DEFINE ResultOf(p, middle) ==
             [ offset |-> middle.offset,
               time   |-> middle.time,
               rtt    |-> s[p[1]].rtt,
               second |-> s[p[IF Len(s) = 1 THEN 1 ELSE 2]].rtt ]
           ResultsOf(p) == { ResultOf(p, middle) : middle \in MiddleOf(Best(s, p)) }
<1>1. PICK p \in ByRoundTrip(s) : result \in ResultsOf(p)
  <2>1. result \in UNION { ResultsOf(p) : p \in ByRoundTrip(s) }
    BY DEF Measured
  <2> QED
    BY <2>1
<1>2. PICK middle \in MiddleOf(Best(s, p)) : result = ResultOf(p, middle)
  BY <1>1
<1>3. /\ result.second \in Nat
      /\ 2 * Distance(middle.offset, HostAhead) <= result.second + 1
      /\ \E i \in DOMAIN s : middle = s[i]
  BY <1>2, MiddleBounded
<1>4. s[p[1]].rtt \in Nat
  <2>1. p[1] \in 1 .. Len(s)
    BY DEF ByRoundTrip, Orders
  <2>2. s[p[1]] \in Sample
    BY <2>1
  <2> QED
    BY <2>2 DEF Sample
<1>5. middle.offset \in Int /\ middle.time \in Nat
  <2>1. middle \in Sample
    BY <1>3
  <2> QED
    BY <2>1 DEF Sample
<1>6. /\ result.offset = middle.offset /\ result.time = middle.time
      /\ result.rtt = s[p[1]].rtt
  BY <1>2
<1>7. result \in Measurement
  BY <1>2, <1>3, <1>4, <1>5 DEF Measurement
<1> QED
  BY <1>3, <1>6, <1>7

(* A packet of the segment has an instant on the host's clock.             *)
LEMMA PresentationType ==
    ASSUME NEW frame \in PacketStarts
    PROVE  frame \in Nat /\ Presentation(frame) \in Int
<1>1. frame \in Nat /\ frame - InitialFrame \in Nat /\ HostStart + HostLatency \in Int
  BY ClockAssumption
<1>2. FrameToDuration(frame - InitialFrame) \in Nat
  BY <1>1, DurationBounds
<1> QED
  BY <1>1, <1>2 DEF Presentation, FrameToTimestamp

-----------------------------------------------------------------------------
(* Every step keeps the invariant.                                         *)

(* A receiver starts before it measured anything.                          *)
LEMMA ClockInit == Init => ClockInv
<1> USE ClockAssumption DEF Init, ClockInv
<1>1. Init => TypeOK
  BY DEF TypeOK, NoProbe
<1>2. Init => ReadingsInOrder
  BY DEF ReadingsInOrder, RequestsInThePast, ServedInOrder, AnswersInOrder
<1>3. Init => SamplesOfMeasurement /\ SamplesAreFresh
  BY DEF SamplesOfMeasurement, SamplesAreFresh
<1>4. Init => Stages /\ OffsetErrorBounded /\ EstimatorAccepts
  BY DEF Stages, OffsetErrorBounded, EstimatorAccepts
<1>5. Init => StartFromFirstEstimate /\ StartIsAhead
  BY DEF StartFromFirstEstimate, StartIsAhead
<1>6. Init => CallbacksInTime
  BY DEF CallbacksInTime
<1> QED
  BY <1>1, <1>2, <1>3, <1>4, <1>5, <1>6

(* The actions that leave the datagrams alone, or only take some away.     *)
LEMMA ReadingsStep == TypeOK /\ ReadingsInOrder /\ [Next]_vars => ReadingsInOrder'
<1> SUFFICES ASSUME TypeOK, ReadingsInOrder, [Next]_vars PROVE ReadingsInOrder'
  OBVIOUS
<1> USE DEF ReadingsInOrder, RequestsInThePast, ServedInOrder, AnswersInOrder, HostNow
<1>1. HostAhead \in Int /\ now \in Nat /\ None \notin ServedRequest
  BY ClockAssumption DEF TypeOK
<1>2. CASE UNCHANGED <<now, serving>> /\ requests' \subseteq requests /\ answers' \subseteq answers
  BY <1>2
<1>3. CASE SendProbe
  BY <1>1, <1>3 DEF SendProbe
<1>4. CASE Tick
  <2>1. now' = now + 1 /\ UNCHANGED <<requests, serving, answers>>
    BY <1>4 DEF Tick, networkVars
  <2>2. \A request \in requests : request.sent \in Nat
    BY DEF TypeOK, Request
  <2>3. serving # None => serving.received \in Int
    BY DEF TypeOK, ServedRequest
  <2>4. \A answer \in answers : answer.replied \in Int
    BY DEF TypeOK, Answer
  <2> QED
    BY <1>1, <2>1, <2>2, <2>3, <2>4
<1>5. ASSUME NEW request \in requests, ServerReceive(request) PROVE ReadingsInOrder'
  <2>1. /\ serving' = [id |-> request.id, sent |-> request.sent, received |-> now + HostAhead]
        /\ requests' \subseteq requests /\ UNCHANGED <<now, answers>>
    BY <1>5 DEF ServerReceive
  <2>2. request.sent \in Nat /\ request.sent <= now
    BY DEF TypeOK, Request
  <2>3. serving'.sent = request.sent /\ serving'.received = now + HostAhead
    BY <2>1
  <2> QED
    BY <1>1, <2>1, <2>2, <2>3
<1>6. CASE ServerAnswer
  <2>1. /\ serving # None /\ serving' = None /\ UNCHANGED <<now, requests>>
        /\ answers' = answers \cup
             {[ id |-> serving.id, sent |-> serving.sent,
                received |-> serving.received, replied |-> now + HostAhead ]}
    BY <1>6 DEF ServerAnswer
  <2> QED
    BY <1>1, <2>1
<1>7. CASE StartRun \/ Remeasure \/ ReceiveTimesOut \/ MeasureThrows \/ MeasureReturns \/ EndRun
  BY <1>2, <1>7 DEF StartRun, Remeasure, ReceiveTimesOut, MeasureThrows, MeasureReturns, EndRun,
     networkVars
<1>8. ASSUME NEW answer \in answers, ReceiveAnswer(answer) PROVE ReadingsInOrder'
  BY <1>2, <1>8 DEF ReceiveAnswer
<1>9. ASSUME NEW frame \in PacketStarts, SelectStart(frame) PROVE ReadingsInOrder'
  BY <1>2, <1>9 DEF SelectStart, networkVars
<1>10. CASE DeviceCallback \/ UNCHANGED vars
  BY <1>2, <1>10 DEF DeviceCallback, vars, networkVars
<1> QED
  BY <1>3, <1>4, <1>5, <1>6, <1>7, <1>8, <1>9, <1>10 DEF Next, Client, Server

(* BeginMeasure and LeaveMeasure start from no samples; in between, only   *)
(* the answer to the probe that is waited for adds one.                    *)
LEMMA SamplesStep ==
    ClockInv /\ [Next]_vars => SamplesOfMeasurement' /\ SamplesAreFresh'
<1> SUFFICES ASSUME ClockInv, [Next]_vars PROVE SamplesOfMeasurement' /\ SamplesAreFresh'
  OBVIOUS
<1>1. /\ TypeOK /\ ReadingsInOrder /\ SamplesOfMeasurement /\ SamplesAreFresh
      /\ now \in Nat /\ samples \in Seq(Sample)
      /\ \A i \in DOMAIN samples : samples[i].id \in Nat /\ samples[i].time \in Nat
      /\ probe.id \in Nat /\ probe.sent \in Nat /\ started \in Nat
  <2>1. /\ now \in Nat /\ samples \in Seq(Sample) /\ started \in Nat
        /\ probe \in [id : Nat, sent : 0 .. now]
    BY DEF ClockInv, TypeOK
  <2>2. \A i \in DOMAIN samples : samples[i] \in Sample
    BY <2>1
  <2>3. \A i \in DOMAIN samples : samples[i].id \in Nat /\ samples[i].time \in Nat
    BY <2>2 DEF Sample
  <2>4. probe.id \in Nat /\ probe.sent \in Nat
    BY <2>1
  <2> QED
    BY <2>1, <2>3, <2>4 DEF ClockInv
<1>2. CASE samples' = <<>> /\ pc' # "wait"
  BY <1>2 DEF SamplesOfMeasurement, SamplesAreFresh
<1>3. CASE /\ UNCHANGED <<samples, probe, started>>
           /\ now' \in Nat /\ now <= now'
           /\ pc' = "wait" => pc = "wait"
  BY <1>1, <1>3 DEF SamplesOfMeasurement, SamplesAreFresh
<1>4. CASE SendProbe
  <2>1. /\ UNCHANGED <<samples, started, now>> /\ Len(samples) < DesiredSamples
        /\ probe'.id = probe.id + 1 /\ probe'.sent = now
    BY <1>4 DEF SendProbe, KeepsMeasuring
  <2>2. started <= now
    BY DEF ClockInv, TypeOK
  <2> QED
    BY <1>1, <2>1, <2>2 DEF SamplesOfMeasurement, SamplesAreFresh
<1>5. ASSUME NEW answer \in answers, ReceiveAnswer(answer)
      PROVE  SamplesOfMeasurement' /\ SamplesAreFresh'
  <2> DEFINE sample == Estimate(answer, now)
  <2>1. /\ pc = "wait" /\ pc' = "send" /\ UNCHANGED <<probe, started, now>>
        /\ samples' = IF Accepts(answer) THEN Append(samples, sample) ELSE samples
    BY <1>5 DEF ReceiveAnswer
  <2>2. CASE ~Accepts(answer)
    BY <1>3, <1>1, <2>1, <2>2
  <2>3. CASE Accepts(answer)
    <3>1. answer \in Answer
      BY DEF ClockInv, TypeOK
    <3>2. /\ sample \in Sample /\ ErrorWithin(sample)
          /\ sample.sent <= sample.time /\ sample.time <= now
      BY <1>1, <2>3, <3>1, EstimateBounded
         DEF Accepts, ReadingsInOrder, AnswersInOrder, HostNow
    <3>3. sample.id = probe.id /\ sample.sent = probe.sent
      BY <2>3 DEF Accepts, Estimate
    <3> HIDE DEF sample
    <3>4. /\ DOMAIN samples' = DOMAIN samples \cup {Len(samples) + 1}
          /\ \A i \in DOMAIN samples : samples'[i] = samples[i] /\ i # Len(samples) + 1
          /\ samples'[Len(samples) + 1] = sample
      BY <1>1, <2>1, <2>3, <3>2
    <3>5. started <= probe.sent /\ \A i \in DOMAIN samples : samples[i].id < probe.id
      BY <1>1, <2>1 DEF SamplesOfMeasurement
    <3>6. SamplesOfMeasurement'
      BY <1>1, <2>1, <3>2, <3>3, <3>4 DEF SamplesOfMeasurement, ErrorWithin
    <3>7. SamplesAreFresh'
      BY <1>1, <2>1, <3>3, <3>4, <3>5 DEF SamplesAreFresh
    <3> QED
      BY <3>6, <3>7
  <2> QED
    BY <2>2, <2>3
<1>6. CASE StartRun \/ Remeasure
  BY <1>2, <1>6 DEF StartRun, Remeasure, BeginMeasure
<1>7. CASE MeasureThrows
  BY <1>2, <1>7 DEF MeasureThrows, LeaveMeasure
<1>8. CASE MeasureReturns
  <2>1. \/ samples' = <<>> /\ pc' # "wait"
        \/ UNCHANGED <<samples, probe, started>> /\ pc' = "failed"
    BY <1>8 DEF MeasureReturns, LeaveMeasure
  <2> QED
    BY <1>1, <1>2, <1>3, <1>8, <2>1 DEF MeasureReturns
<1>9. CASE ReceiveTimesOut \/ EndRun \/ DeviceCallback \/ Server \/ UNCHANGED vars
  BY <1>1, <1>3, <1>9
     DEF ReceiveTimesOut, EndRun, DeviceCallback, Server, ServerAnswer, ServerReceive, vars, clientVars
<1>10. CASE Tick
  BY <1>1, <1>3, <1>10 DEF Tick, clientVars
<1>11. ASSUME NEW frame \in PacketStarts, SelectStart(frame)
       PROVE  SamplesOfMeasurement' /\ SamplesAreFresh'
  BY <1>1, <1>3, <1>11 DEF SelectStart
<1> QED
  BY <1>4, <1>5, <1>6, <1>7, <1>8, <1>9, <1>10, <1>11 DEF Next, Client

(* A start is chosen with one estimate and is an instant after time zero.  *)
LEMMA SelectedStart ==
    ASSUME ClockInv, NEW frame \in PacketStarts, SelectStart(frame)
    PROVE  /\ OffsetNow \in Int /\ OffsetNow = estimates[1].offset
           /\ LocalPresentation(frame) \in Nat
           /\ start' \in [frame : Nat, presentation : Int, local : Nat, chosen : Nat]
           /\ start' # None
<1>1. /\ estimates \in Seq(Measurement) /\ Len(estimates) = 1 /\ now \in Nat
      /\ PlaybackDelay \in Int /\ OutputLatency \in Int
  BY ClockAssumption DEF ClockInv, Stages, TypeOK, SelectStart
<1>2. frame \in Nat /\ Presentation(frame) \in Int
  BY PresentationType
<1>3. OffsetNow \in Int /\ OffsetNow = estimates[1].offset
  <2>1. estimates[1] \in Measurement
    BY <1>1, ElementOfSeq
  <2> QED
    BY <1>1, <2>1 DEF OffsetNow, Last, Measurement
<1>4. LocalPresentation(frame) \in Nat
  BY <1>1, <1>2, <1>3 DEF LocalPresentation, SelectStart
<1>5. start' \in [frame : Nat, presentation : Int, local : Nat, chosen : Nat]
  BY <1>1, <1>2, <1>4 DEF SelectStart
<1>6. start' # None
  <2>1. start' \in [frame : Nat, presentation : Int, local : Int, chosen : Nat]
    BY <1>5
  <2> QED
    BY <2>1, ClockAssumption
<1> QED
  BY <1>3, <1>4, <1>5, <1>6

(* A measurement is over before the next one begins, and its samples were  *)
(* sent within it: their times are in order.                               *)
LEMMA EstimatesStep ==
    ClockInv /\ [Next]_vars => Stages' /\ OffsetErrorBounded' /\ EstimatorAccepts'
<1> SUFFICES ASSUME ClockInv, [Next]_vars
             PROVE  Stages' /\ OffsetErrorBounded' /\ EstimatorAccepts'
  OBVIOUS
<1> USE DEF ClockInv
<1>1. /\ now \in Nat /\ started \in Nat /\ started <= now /\ nextMeasure \in Nat
      /\ estimates \in Seq(Measurement) /\ samples \in Seq(Sample)
      /\ pc \in {"stopped", "send", "wait", "select", "play", "failed"} /\ pc # "failed"
  BY DEF TypeOK, EstimatorAccepts
<1>2. \A i \in DOMAIN estimates :
        estimates[i].time \in Nat /\ estimates[i].offset \in Int /\ estimates[i].second \in Nat
  <2>1. \A i \in DOMAIN estimates : estimates[i] \in Measurement
    BY <1>1
  <2> QED
    BY <2>1 DEF Measurement
<1>3. /\ estimates # <<>> => Last(estimates).time \in Nat
      /\ Len(estimates) = 1 => estimates # <<>>
  <2>1. estimates # <<>> => Len(estimates) \in DOMAIN estimates
    BY <1>1
  <2>2. estimates # <<>> => Last(estimates).time \in Nat
    BY <1>2, <2>1 DEF Last
  <2>3. Len(estimates) = 1 => estimates # <<>>
    <3>1. Len(<<>>) # 1
      OBVIOUS
    <3> QED
      BY <3>1
  <2> QED
    BY <2>2, <2>3
<1>4. ASSUME UNCHANGED estimates, pc' # "failed"
      PROVE  OffsetErrorBounded' /\ EstimatorAccepts'
  <2>1. OffsetErrorBounded'
    BY <1>4 DEF OffsetErrorBounded, Distance
  <2>2. EstimatorAccepts'
    BY <1>4 DEF EstimatorAccepts
  <2> QED
    BY <2>1, <2>2
<1>5. CASE estimates' = <<>> /\ pc' = "stopped" /\ start' = None
  BY <1>5 DEF OffsetErrorBounded, EstimatorAccepts, Stages
<1>6. CASE StartRun \/ Remeasure
  <2>1. /\ UNCHANGED <<estimates, start, now>> /\ pc' = "send" /\ started' = now
        /\ pc = "stopped" \/ (pc = "play" /\ nextMeasure <= now)
    BY <1>1, <1>6 DEF StartRun, Remeasure, BeginMeasure, playerVars
  <2>2. Stages'
    BY <1>1, <1>3, <2>1 DEF Stages, Last
  <2> QED
    BY <1>4, <2>1, <2>2
<1>7. CASE SendProbe \/ ReceiveTimesOut \/ \E answer \in answers : ReceiveAnswer(answer)
  <2>1. /\ UNCHANGED <<estimates, start, now, started, nextMeasure>>
        /\ pc \in {"send", "wait"} /\ pc' \in {"send", "wait"}
    BY <1>7 DEF SendProbe, ReceiveTimesOut, ReceiveAnswer, playerVars
  <2>2. Stages'
    BY <1>1, <2>1 DEF Stages, Last
  <2> QED
    BY <1>4, <2>1, <2>2
<1>8. CASE MeasureThrows
  <2>1. /\ UNCHANGED <<estimates, start, now>> /\ pc \in {"send", "wait"}
        /\ pc' = IF start = None THEN "stopped" ELSE "play"
        /\ nextMeasure' = IF start = None THEN nextMeasure ELSE now + MeasureGap
    BY <1>8 DEF MeasureThrows, LeaveMeasure, playerVars
  <2>2. MeasureGap \in Nat
    BY ClockAssumption
  <2>3. Stages'
    BY <1>1, <1>3, <2>1, <2>2 DEF Stages, Last
  <2> QED
    BY <1>4, <2>1, <2>3
<1>9. CASE MeasureReturns
  <2>1. PICK result \in Measured(samples) :
          IF Refuses(result)
          THEN pc' = "failed" /\ UNCHANGED <<started, nextMeasure, probe, samples, estimates>>
          ELSE LeaveMeasure("select") /\ estimates' = Append(estimates, result)
    BY <1>9 DEF MeasureReturns
  <2>2. pc = "send" /\ samples # <<>> /\ UNCHANGED <<now, start>>
    BY <1>9 DEF MeasureReturns, playerVars
  <2>3. /\ result \in Measurement
        /\ 2 * Distance(result.offset, HostAhead) <= result.second + 1
        /\ \E i \in DOMAIN samples : result.time = samples[i].time
    BY <1>1, <2>2, MeasuredSound DEF SamplesOfMeasurement
  <2>4. result.time \in Nat
    BY <2>3 DEF Measurement
  <2>5. started <= result.time /\ result.time <= now
    <3>1. \A i \in DOMAIN samples :
            /\ started <= samples[i].sent /\ samples[i].sent <= samples[i].time
            /\ samples[i].time <= now
      BY DEF SamplesOfMeasurement, SamplesAreFresh
    <3>2. \A i \in DOMAIN samples : samples[i].sent \in Nat
      <4>1. \A i \in DOMAIN samples : samples[i] \in Sample
        BY <1>1
      <4> QED
        BY <4>1 DEF Sample
    <3> QED
      BY <1>1, <2>3, <2>4, <3>1, <3>2
  <2>6. estimates # <<>> => Last(estimates).time < result.time
    BY <1>1, <1>3, <2>2, <2>4, <2>5 DEF Stages
  <2>7. ~Refuses(result)
    BY <1>3, <2>4, <2>6 DEF Refuses
  <2>8. /\ estimates' = Append(estimates, result)
        /\ pc' = IF start = None THEN "select" ELSE "play"
        /\ nextMeasure' = IF start = None THEN nextMeasure ELSE now + MeasureGap
    BY <2>1, <2>7 DEF LeaveMeasure
  <2>9. /\ estimates' # <<>> /\ Last(estimates') = result
        /\ Len(estimates') = Len(estimates) + 1
        /\ \A i \in DOMAIN estimates : estimates'[i] = estimates[i]
        /\ estimates'[Len(estimates) + 1] = result
        /\ DOMAIN estimates' = DOMAIN estimates \cup {Len(estimates) + 1}
    BY <1>1, <2>3, <2>8 DEF Last
  <2>10. MeasureGap \in Nat \ {0}
    BY ClockAssumption
  <2>11. Stages'
    BY <1>1, <2>2, <2>4, <2>5, <2>8, <2>9, <2>10 DEF Stages
  <2>12. OffsetErrorBounded'
    BY <2>3, <2>9 DEF OffsetErrorBounded, Distance
  <2>13. EstimatorAccepts'
    <3>1. \A i \in DOMAIN estimates : estimates[i].time < result.time
      <4> SUFFICES ASSUME NEW i \in DOMAIN estimates PROVE estimates[i].time < result.time
        OBVIOUS
      <4>1. i = Len(estimates) \/ estimates[i].time < estimates[Len(estimates)].time
        BY <1>1 DEF EstimatorAccepts
      <4>2. estimates[i].time \in Nat /\ estimates[Len(estimates)].time \in Nat
        BY <1>1, <1>2
      <4> QED
        BY <1>1, <2>4, <2>6, <4>1, <4>2 DEF Last
    <3>2. \A i, j \in DOMAIN estimates : i < j => estimates[i].time < estimates[j].time
      BY DEF EstimatorAccepts
    <3>3. \A i \in DOMAIN estimates : i \in 1 .. Len(estimates)
      BY <1>1
    <3>4. pc' # "failed"
      BY <2>8
    <3> QED
      BY <1>1, <2>9, <3>1, <3>2, <3>3, <3>4 DEF EstimatorAccepts
  <2> QED
    BY <2>11, <2>12, <2>13
<1>10. ASSUME NEW frame \in PacketStarts, SelectStart(frame)
       PROVE  Stages' /\ OffsetErrorBounded' /\ EstimatorAccepts'
  <2>1. /\ UNCHANGED <<estimates, now>> /\ pc = "select" /\ pc' = "play"
        /\ nextMeasure' = now + MeasureGap
    BY <1>10 DEF SelectStart
  <2>2. start' # None
    BY <1>10, SelectedStart
  <2>3. MeasureGap \in Nat \ {0}
    BY ClockAssumption
  <2>4. Len(estimates) = 1 /\ estimates # <<>> /\ Last(estimates).time <= now
    BY <1>3, <2>1 DEF Stages
  <2>5. Last(estimates).time < nextMeasure' /\ Last(estimates)' = Last(estimates)
    BY <1>1, <1>3, <2>1, <2>3, <2>4 DEF Last
  <2>6. Stages'
    BY <2>1, <2>2, <2>4, <2>5 DEF Stages
  <2> QED
    BY <1>4, <2>1, <2>6
<1>11. CASE EndRun
  BY <1>5, <1>11 DEF EndRun
<1>12. CASE Tick
  <2>1. UNCHANGED <<pc, started, nextMeasure, estimates, start>> /\ now' = now + 1
    BY <1>12 DEF Tick, clientVars, playerVars
  <2>2. Last(estimates)' = Last(estimates)
    BY <2>1 DEF Last
  <2>3. Stages'
    BY <1>1, <1>3, <2>1, <2>2 DEF Stages
  <2> QED
    BY <1>1, <1>4, <2>1, <2>3
<1>13. CASE DeviceCallback \/ Server \/ UNCHANGED vars
  <2>1. UNCHANGED <<now, pc, started, nextMeasure, estimates, start>>
    BY <1>13 DEF DeviceCallback, Server, ServerReceive, ServerAnswer, vars, clientVars, playerVars
  <2>2. Stages'
    BY <2>1 DEF Stages, Last
  <2> QED
    BY <1>1, <1>4, <2>1, <2>2
<1> QED
  BY <1>6, <1>7, <1>8, <1>9, <1>10, <1>11, <1>12, <1>13 DEF Next, Client

(* The start is computed from the only estimate there is, and this one     *)
(* stays the first.                                                        *)
LEMMA StartStep ==
    ClockInv /\ [Next]_vars => StartFromFirstEstimate' /\ StartIsAhead'
<1> SUFFICES ASSUME ClockInv, [Next]_vars PROVE StartFromFirstEstimate' /\ StartIsAhead'
  OBVIOUS
<1> USE DEF ClockInv
<1>1. estimates \in Seq(Measurement)
  BY DEF TypeOK
<1>2. CASE start' = None
  BY <1>2 DEF StartFromFirstEstimate, StartIsAhead
<1>3. CASE /\ UNCHANGED start
           /\ UNCHANGED estimates \/ \E result : estimates' = Append(estimates, result)
  <2>1. CASE start # None
    <3>1. estimates # <<>>
      BY <2>1 DEF Stages
    <3>2. estimates'[1] = estimates[1]
      BY <1>1, <1>3, <3>1
    <3> QED
      BY <1>3, <3>2 DEF StartFromFirstEstimate, StartIsAhead, Presentation
  <2> QED
    BY <1>2, <1>3, <2>1
<1>4. ASSUME NEW frame \in PacketStarts, SelectStart(frame)
      PROVE  StartFromFirstEstimate' /\ StartIsAhead'
  <2>1. /\ start' = [ frame        |-> frame,
                      presentation |-> Presentation(frame),
                      local        |-> LocalPresentation(frame),
                      chosen       |-> now ]
        /\ UNCHANGED <<now, estimates>> /\ pc = "select"
        /\ Presentation(frame) >= HostThreshold
    BY <1>4 DEF SelectStart, AtOrAfter
  <2>2. PlaybackDelay \in Int /\ OutputLatency \in Int /\ StartupLead \in Int
    BY ClockAssumption
  <2>3. Presentation(frame) \in Int
    BY PresentationType
  <2>4. OffsetNow \in Int /\ OffsetNow = estimates[1].offset /\ now \in Int
    BY <1>4, SelectedStart DEF TypeOK
  <2>5. /\ LocalPresentation(frame) = Presentation(frame) - OffsetNow + PlaybackDelay - OutputLatency
        /\ LocalPresentation(frame) >= now + StartupLead
    BY <2>1, <2>2, <2>3, <2>4 DEF LocalPresentation, HostThreshold
  <2>6. StartFromFirstEstimate'
    BY <2>1, <2>4, <2>5 DEF StartFromFirstEstimate, Presentation
  <2>7. StartIsAhead'
    BY <2>1, <2>5 DEF StartIsAhead
  <2> QED
    BY <2>6, <2>7
<1>5. CASE StartRun \/ Remeasure \/ SendProbe \/ ReceiveTimesOut \/ MeasureThrows
           \/ DeviceCallback \/ Server \/ Tick \/ UNCHANGED vars
  BY <1>3, <1>5
     DEF StartRun, Remeasure, SendProbe, ReceiveTimesOut, MeasureThrows, DeviceCallback, Server,
         ServerReceive, ServerAnswer, Tick, vars, clientVars, playerVars
<1>6. CASE MeasureReturns
  BY <1>3, <1>6 DEF MeasureReturns, playerVars
<1>7. CASE EndRun
  BY <1>2, <1>7 DEF EndRun
<1>8. ASSUME NEW answer \in answers, ReceiveAnswer(answer)
      PROVE  StartFromFirstEstimate' /\ StartIsAhead'
  BY <1>3, <1>8 DEF ReceiveAnswer, playerVars
<1> QED
  BY <1>4, <1>5, <1>6, <1>7, <1>8 DEF Next, Client

(* The device is not late for its first callback by more than the lead     *)
(* allows, and not for the next by more than a period.                     *)
LEMMA CallbackStep ==
    ClockInv /\ [Next]_vars => CallbacksInTime'
<1> SUFFICES ASSUME ClockInv, [Next]_vars PROVE CallbacksInTime'
  OBVIOUS
<1>1. CallbacksInTime /\ StartIsAhead /\ now \in Nat
  BY DEF ClockInv, TypeOK
<1>2. /\ start # None => start.local \in Nat /\ start.chosen \in Nat
      /\ callback # None => callback \in Nat
  BY DEF ClockInv, TypeOK
<1>3. /\ DeviceStart \in Nat /\ Period \in Nat /\ StartupLead \in Nat /\ None \notin Nat
      /\ DeviceStart <= StartupLead + Period
  BY ClockAssumption, LeadAssumption
<1>4. CASE UNCHANGED <<now, start, callback, heard>>
  BY <1>1, <1>4 DEF CallbacksInTime
<1>5. CASE DeviceCallback
  <2>1. start # None /\ heard = None /\ UNCHANGED <<now, start>>
    BY <1>5 DEF DeviceCallback
  <2>2. CASE Begins
    <3>1. heard' = now /\ heard' # None /\ start.local <= now
      BY <1>1, <1>3, <1>5, <2>2 DEF DeviceCallback, Begins
    <3>2. now <= start.local + Period
      BY <1>1, <1>2, <1>3, <2>1 DEF CallbacksInTime, StartIsAhead
    <3> QED
      BY <2>1, <3>1, <3>2 DEF CallbacksInTime
  <2>3. CASE ~Begins
    <3>1. callback' = now /\ callback' # None /\ UNCHANGED heard /\ now < start.local
      BY <1>1, <1>2, <1>3, <1>5, <2>1, <2>3 DEF DeviceCallback, Begins
    <3> QED
      BY <1>1, <1>3, <2>1, <3>1 DEF CallbacksInTime
  <2> QED
    BY <2>2, <2>3
<1>6. CASE Tick
  <2>1. /\ now' = now + 1 /\ UNCHANGED <<start, callback, heard>>
        /\ (start # None /\ heard = None) => now < CallbackDue
    BY <1>6 DEF Tick, clientVars, playerVars
  <2> QED
    BY <1>1, <1>2, <1>3, <2>1 DEF CallbacksInTime, CallbackDue
<1>7. ASSUME NEW frame \in PacketStarts, SelectStart(frame) PROVE CallbacksInTime'
  <2>1. /\ pc = "select" /\ start'.chosen = now /\ start' # None
        /\ UNCHANGED <<now, callback, heard>>
    BY <1>7, SelectedStart DEF SelectStart
  <2>2. start = None
    BY <2>1 DEF ClockInv, Stages
  <2> QED
    BY <1>1, <1>3, <2>1, <2>2 DEF CallbacksInTime
<1>8. CASE EndRun
  BY <1>8 DEF EndRun, CallbacksInTime
<1>9. CASE \/ StartRun \/ Remeasure \/ SendProbe \/ ReceiveTimesOut \/ MeasureThrows
           \/ MeasureReturns \/ Server \/ UNCHANGED vars
  BY <1>4, <1>9
     DEF StartRun, Remeasure, SendProbe, ReceiveTimesOut, MeasureThrows, MeasureReturns, Server,
         ServerReceive, ServerAnswer, vars, clientVars, playerVars
<1>10. ASSUME NEW answer \in answers, ReceiveAnswer(answer) PROVE CallbacksInTime'
  BY <1>4, <1>10 DEF ReceiveAnswer, playerVars
<1> QED
  BY <1>5, <1>6, <1>7, <1>8, <1>9, <1>10 DEF Next, Client

-----------------------------------------------------------------------------
(* Types.                                                                  *)

(* Every step keeps the types.                                             *)
LEMMA TypeStep == ClockInv /\ [Next]_vars => TypeOK'
<1> SUFFICES ASSUME ClockInv, [Next]_vars PROVE TypeOK'
  OBVIOUS
<1>1. TypeOK /\ SamplesOfMeasurement /\ Stages /\ ReadingsInOrder
  BY DEF ClockInv
<1> DEFINE Numbers == /\ now \in 0 .. MaxTime /\ started \in 0 .. now /\ nextMeasure \in Nat
                      /\ probe \in [id : Nat, sent : 0 .. now] /\ datagrams \in 0 .. MaxDatagrams
           Network == /\ requests \subseteq Request
                      /\ serving \in ServedRequest \cup {None}
                      /\ answers \subseteq Answer
           Measuring == /\ Len(samples) <= DesiredSamples /\ samples \in Seq(Sample)
           Outcome == /\ estimates \in Seq(Measurement)
                      /\ start \in [frame : Nat, presentation : Int, local : Nat, chosen : Nat] \cup {None}
                      /\ callback \in Nat \cup {None} /\ heard \in Nat \cup {None}
           Control == pc \in {"stopped", "send", "wait", "select", "play", "failed"}
<1>2. TypeOK <=> Numbers /\ Network /\ Measuring /\ Outcome /\ Control
  BY DEF TypeOK
<1>3. TypeOK' <=> Numbers' /\ Network' /\ Measuring' /\ Outcome' /\ Control'
  BY DEF TypeOK
<1>4. Numbers /\ Network /\ Measuring /\ Outcome /\ Control
  BY <1>1, <1>2
<1>5. /\ MaxTime \in Nat /\ MaxDatagrams \in Nat /\ DesiredSamples \in Nat
      /\ MeasureGap \in Nat /\ HostAhead \in Int
  BY ClockAssumption
<1>6. UNCHANGED <<now, started, nextMeasure, probe, datagrams>> => Numbers'
  BY <1>4
<1>7. UNCHANGED <<requests, serving, answers>> => Network'
  BY <1>4
<1>8. UNCHANGED samples => Measuring'
  BY <1>4
<1>9. UNCHANGED <<estimates, playerVars>> => Outcome'
  BY <1>4 DEF playerVars
<1>10. samples' = <<>> => Measuring'
  BY <1>5
<1>11. CASE StartRun \/ Remeasure
  <2>1. Numbers'
    BY <1>4, <1>11 DEF StartRun, Remeasure, BeginMeasure, NoProbe, networkVars
  <2> QED
    BY <1>3, <1>7, <1>9, <1>10, <1>11, <2>1 DEF StartRun, Remeasure, BeginMeasure, networkVars
<1>12. CASE SendProbe
  <2>1. /\ probe' = [id |-> probe.id + 1, sent |-> now] /\ probe.id \in Nat /\ now \in Nat
        /\ UNCHANGED <<now, started, nextMeasure, samples, serving, answers, estimates, playerVars>>
        /\ pc' = "wait"
    BY <1>4, <1>12 DEF SendProbe
  <2>2. probe' \in Request
    BY <2>1 DEF Request
  <2>3. Numbers'
    BY <1>4, <1>5, <1>12, <2>1 DEF SendProbe
  <2>4. Network'
    BY <1>4, <1>12, <2>1, <2>2 DEF SendProbe
  <2> QED
    BY <1>3, <1>8, <1>9, <2>1, <2>3, <2>4
<1>13. ASSUME NEW answer \in answers, ReceiveAnswer(answer) PROVE TypeOK'
  <2>1. /\ UNCHANGED <<now, started, nextMeasure, probe, requests, serving, estimates, playerVars>>
        /\ samples' = IF Accepts(answer) THEN Append(samples, Estimate(answer, now)) ELSE samples
        /\ pc = "wait" /\ pc' = "send"
    BY <1>13 DEF ReceiveAnswer
  <2>2. Numbers'
    BY <1>4, <1>5, <1>13, <2>1 DEF ReceiveAnswer
  <2>3. Network'
    BY <1>4, <1>13, <2>1 DEF ReceiveAnswer
  <2>4. Accepts(answer) => Estimate(answer, now) \in Sample
    BY <1>1, <1>4, EstimateBounded DEF Accepts, ReadingsInOrder, AnswersInOrder, HostNow
  <2>5. Len(samples) < DesiredSamples
    BY <1>1, <2>1 DEF SamplesOfMeasurement
  <2>6. Measuring'
    BY <1>4, <1>5, <2>1, <2>4, <2>5
  <2> QED
    BY <1>3, <1>9, <2>1, <2>2, <2>3, <2>6
<1>14. CASE ReceiveTimesOut
  BY <1>3, <1>6, <1>7, <1>8, <1>9, <1>14 DEF ReceiveTimesOut, networkVars
<1>15. ASSUME NEW next \in {"stopped", "select"}, LeaveMeasure(next), UNCHANGED <<now, networkVars>>,
              Outcome'
       PROVE  TypeOK'
  <2>1. Numbers'
    BY <1>4, <1>5, <1>15 DEF LeaveMeasure, NoProbe, networkVars
  <2>2. Control' /\ samples' = <<>>
    BY <1>15 DEF LeaveMeasure
  <2> QED
    BY <1>3, <1>7, <1>10, <1>15, <2>1, <2>2 DEF networkVars
<1>16. CASE MeasureThrows
  BY <1>9, <1>15, <1>16 DEF MeasureThrows
<1>17. CASE MeasureReturns
  <2>1. PICK result \in Measured(samples) :
          IF Refuses(result)
          THEN pc' = "failed" /\ UNCHANGED <<started, nextMeasure, probe, samples, estimates>>
          ELSE LeaveMeasure("select") /\ estimates' = Append(estimates, result)
    BY <1>17 DEF MeasureReturns
  <2>2. samples # <<>> /\ UNCHANGED <<now, playerVars, networkVars>>
    BY <1>17 DEF MeasureReturns
  <2>3. result \in Measurement
    BY <1>1, <1>4, <2>2, MeasuredSound DEF SamplesOfMeasurement
  <2>4. CASE Refuses(result)
    BY <1>3, <1>6, <1>7, <1>8, <1>9, <2>1, <2>2, <2>4 DEF networkVars
  <2>5. CASE ~Refuses(result)
    <3>1. Outcome'
      <4>1. estimates' \in Seq(Measurement)
        <5>1. estimates' = Append(estimates, result)
          BY <2>1, <2>5
        <5>2. estimates \in Seq(Measurement)
          BY <1>4
        <5> QED
          BY <2>3, <5>1, <5>2
      <4>2. UNCHANGED <<start, callback, heard>>
        BY <2>2 DEF playerVars
      <4> QED
        BY <1>4, <4>1, <4>2
    <3> QED
      BY <1>15, <2>1, <2>2, <2>5, <3>1
  <2> QED
    BY <2>4, <2>5
<1>18. ASSUME NEW frame \in PacketStarts, SelectStart(frame) PROVE TypeOK'
  <2>1. /\ UNCHANGED <<now, started, probe, samples, estimates, callback, heard, networkVars>>
        /\ nextMeasure' = now + MeasureGap /\ pc' = "play"
    BY <1>18 DEF SelectStart
  <2>2. Numbers'
    BY <1>4, <1>5, <2>1 DEF networkVars
  <2>3. start' \in [frame : Nat, presentation : Int, local : Nat, chosen : Nat]
    BY <1>18, SelectedStart
  <2> QED
    BY <1>3, <1>4, <1>7, <1>8, <2>1, <2>2, <2>3 DEF networkVars
<1>19. CASE EndRun
  <2>1. Numbers' /\ Outcome' /\ Control'
    BY <1>4, <1>19 DEF EndRun, networkVars
  <2> QED
    BY <1>3, <1>7, <1>8, <1>19, <2>1 DEF EndRun, networkVars
<1>20. ASSUME NEW request \in requests, ServerReceive(request) PROVE TypeOK'
  <2>1. UNCHANGED <<now, answers, clientVars>> /\ requests' \subseteq requests
    BY <1>20 DEF ServerReceive
  <2>2. Numbers'
    BY <1>4, <1>5, <1>20, <2>1 DEF ServerReceive, clientVars
  <2>3. serving' \in ServedRequest
    <3>1. request.id \in Nat /\ request.sent \in Nat
      BY <1>4 DEF Request
    <3> QED
      BY <1>4, <1>5, <1>20, <3>1 DEF ServerReceive, ServedRequest, HostNow
  <2> QED
    BY <1>3, <1>4, <1>8, <1>9, <2>1, <2>2, <2>3 DEF clientVars
<1>21. CASE ServerAnswer
  <2>1. UNCHANGED <<now, requests, datagrams, clientVars>> /\ serving # None /\ serving' = None
    BY <1>21 DEF ServerAnswer
  <2>2. serving.id \in Nat /\ serving.sent \in Nat /\ serving.received \in Int
    BY <1>4, <2>1 DEF ServedRequest
  <2>3. answers' \subseteq Answer
    <3>1. [ id |-> serving.id, sent |-> serving.sent,
            received |-> serving.received, replied |-> HostNow ] \in Answer
      BY <1>4, <1>5, <2>2 DEF Answer, HostNow
    <3> QED
      BY <1>4, <1>21, <3>1 DEF ServerAnswer
  <2> QED
    BY <1>3, <1>4, <1>6, <1>8, <1>9, <2>1, <2>3 DEF clientVars
<1>22. CASE Tick
  <2>1. now < MaxTime /\ now' = now + 1 /\ UNCHANGED <<clientVars, networkVars>>
    BY <1>22 DEF Tick
  <2>2. Numbers'
    BY <1>4, <1>5, <2>1 DEF clientVars, networkVars
  <2> QED
    BY <1>3, <1>4, <1>7, <1>8, <1>9, <2>1, <2>2 DEF clientVars, networkVars
<1>23. CASE DeviceCallback
  <2>1. /\ UNCHANGED <<now, pc, started, nextMeasure, probe, samples, estimates, start, networkVars>>
        /\ callback' \in {callback, now} /\ heard' \in {heard, now}
    BY <1>23 DEF DeviceCallback
  <2>2. Outcome'
    BY <1>4, <2>1
  <2>3. Control' /\ UNCHANGED <<now, started, nextMeasure, probe, datagrams, requests, serving,
                               answers, samples>>
    BY <1>4, <2>1 DEF networkVars
  <2> QED
    BY <1>3, <1>6, <1>7, <1>8, <2>2, <2>3
<1>24. CASE UNCHANGED vars
  BY <1>3, <1>4, <1>6, <1>7, <1>8, <1>9, <1>24 DEF vars, clientVars, networkVars
<1> QED
  BY <1>11, <1>12, <1>13, <1>14, <1>16, <1>17, <1>18, <1>19, <1>20, <1>21, <1>22, <1>23, <1>24
     DEF Next, Client, Server

-----------------------------------------------------------------------------
(* The invariant holds throughout, and the properties follow.              *)

(* The invariant of the clocks holds throughout.                           *)
LEMMA ClockAlways == Spec => []ClockInv
<1>1. ClockInv /\ [Next]_vars => ClockInv'
  BY ReadingsStep, SamplesStep, EstimatesStep, StartStep, CallbackStep, TypeStep DEF ClockInv
<1> QED
  BY <1>1, ClockInit, PTL DEF Spec

(* The exchange keeps its types, the fields of a datagram included, and    *)
(* measure never takes more samples than it asked for.                     *)
THEOREM TypeCorrect == Spec => []TypeOK
<1>1. ClockInv => TypeOK
  BY DEF ClockInv
<1> QED
  BY <1>1, ClockAlways, PTL

(* ClockSyncClient::measure builds a measurement of exchanges of its own,  *)
(* each counted once, although old and repeated answers arrive.            *)
THEOREM SamplesAlwaysFresh == Spec => []SamplesAreFresh
<1>1. ClockInv => SamplesAreFresh
  BY DEF ClockInv
<1> QED
  BY <1>1, ClockAlways, PTL

(* What measure returns is wrong by at most half the second shortest round *)
(* trip, for any number of samples and any delays of either direction.     *)
THEOREM OffsetErrorAlwaysBounded == Spec => []OffsetErrorBounded
<1>1. ClockInv => OffsetErrorBounded
  BY DEF ClockInv
<1> QED
  BY <1>1, ClockAlways, PTL

(* DriftEstimator::addSample is never given a time that it refuses.        *)
THEOREM EstimatorAlwaysAccepts == Spec => []EstimatorAccepts
<1>1. ClockInv => EstimatorAccepts
  BY DEF ClockInv
<1> QED
  BY <1>1, ClockAlways, PTL

(* The first frame that ScheduledStreamPlayer::dataCallback plays is heard *)
(* PlaybackDelay after the host's: no earlier than the error of the first  *)
(* estimate allows, and no later than that and one period of the device.   *)
THEOREM StartsAlwaysTogether == Spec => []StartsTogether
<1>1. ClockInv => StartsTogether
  <2> DEFINE error == (heard + OutputLatency + HostAhead) - (start.presentation + PlaybackDelay)
  <2> SUFFICES ASSUME ClockInv, heard # None
               PROVE  /\ -(estimates[1].second + 1) <= 2 * error
                      /\ 2 * error <= estimates[1].second + 1 + 2 * Period
    BY DEF StartsTogether
  <2>1. start # None /\ start.local <= heard /\ heard <= start.local + Period
    BY DEF ClockInv, CallbacksInTime
  <2>2. estimates # <<>> /\ estimates \in Seq(Measurement)
    BY <2>1 DEF ClockInv, Stages, TypeOK
  <2>3. estimates[1] \in Measurement /\ 1 \in DOMAIN estimates
    BY <2>2
  <2>4. 2 * Distance(estimates[1].offset, HostAhead) <= estimates[1].second + 1
    BY <2>3 DEF ClockInv, OffsetErrorBounded
  <2>5. start.local = start.presentation - estimates[1].offset + PlaybackDelay - OutputLatency
    BY <2>1 DEF ClockInv, StartFromFirstEstimate
  <2>6. estimates[1].offset \in Int /\ estimates[1].second \in Nat
    BY <2>3 DEF Measurement
  <2>7. start.presentation \in Int /\ start.local \in Int /\ heard \in Int
    BY <2>1 DEF ClockInv, TypeOK
  <2>8. HostAhead \in Int /\ PlaybackDelay \in Int /\ OutputLatency \in Int /\ Period \in Nat
    BY ClockAssumption
  <2> QED
    BY <2>1, <2>4, <2>5, <2>6, <2>7, <2>8 DEF Distance
<1> QED
  BY <1>1, ClockAlways, PTL

(* The first packet is chosen so that its start lies ahead.                *)
THEOREM StartAlwaysAhead == Spec => []StartIsAhead
<1>1. ClockInv => StartIsAhead
  BY DEF ClockInv
<1> QED
  BY <1>1, ClockAlways, PTL
=============================================================================
