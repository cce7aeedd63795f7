--------------------------- MODULE ClockExchange ----------------------------
(***************************************************************************)
(* How a desktop receiver finds the host's clock and starts on it: the     *)
(* probes of ClockSyncClient::measure and the thread of ClockSyncServer    *)
(* (desktop/src/ClockSyncTransport.cpp), the estimates the receiver feeds  *)
(* to its DriftEstimator, the instant it schedules the first packet for    *)
(* (DesktopAudioClient::run) and the device callback that starts to play   *)
(* (ScheduledStreamPlayer::dataCallback).                                  *)
(*                                                                         *)
(* Both monotonic clocks advance at the same rate, HostAhead apart.  The   *)
(* network and the operating systems delay, lose, reorder and duplicate    *)
(* datagrams; an answer that is never received is a lost one.  The host's  *)
(* packets are on the timeline of streamFile's PlaybackClock.              *)
(***************************************************************************)
EXTENDS PlaybackTimeline, Sequences, FiniteSets

CONSTANTS
    HostAhead,         \* host clock minus client clock: what is to be estimated
    DesiredSamples,    \* answers a measurement asks for (8 in the code)
    FirstTimeout,      \* deadline of the measurement before playback (30 s)
    LaterTimeout,      \* deadline of the measurements during playback (2 s)
    ReceiveTimeout,    \* a read of the socket gives up after it (200 ms)
    MeasureGap,        \* between two measurements (5 s)
    HostStart,         \* the start of the host's segment, on its clock
    HostLatency,       \* the host's output latency
    InitialFrame,      \* the first frame of the host's segment
    PacketStarts,      \* first frames of the segment's packets
    MaxCount,          \* largest count of Duration::rep
    PlaybackDelay,     \* playbackDelay of the receiver's configuration
    OutputLatency,     \* effectiveLatency of its output route
    StartupLead,       \* startupLead of the receiver's configuration
    DeviceStart,       \* longest time the started device takes to its first callback
    Period,            \* longest time between two callbacks (10 ms periods)
    MaxTime,           \* bound: the client's clock goes no further
    MaxDatagrams,      \* bound: requests the network takes, and copies it makes
    MaxInFlight,       \* bound: datagrams on their way when it takes a request
    None

(* struct ClockSyncMessage: a request, while it is served, and answered.   *)
(* The serializer keeps these fields; other datagrams are thrown away.     *)
Request == [id : Nat, sent : Nat]
ServedRequest == [id : Nat, sent : Nat, received : Int]
Answer == [id : Nat, sent : Nat, received : Int, replied : Int]

(* struct ClockSyncEstimate of one exchange, and what measure returns.     *)
Sample == [id : Nat, sent : Nat, offset : Int, rtt : Nat, time : Nat]
Measurement == [offset : Int, time : Nat, rtt : Nat, second : Nat]

ASSUME ClockAssumption ==
    /\ HostAhead \in Int
    /\ DesiredSamples \in Nat \ {0}
    /\ FirstTimeout \in Nat \ {0} /\ LaterTimeout \in Nat \ {0}
    /\ ReceiveTimeout \in Nat \ {0}
    /\ MeasureGap \in Nat \ {0}
    /\ HostStart \in Int /\ HostLatency \in Int /\ MaxCount \in Nat
    /\ InitialFrame \in Nat
    /\ PacketStarts \subseteq Nat /\ \A frame \in PacketStarts : InitialFrame <= frame
    /\ PlaybackDelay \in Nat /\ OutputLatency \in Int /\ StartupLead \in Nat
    /\ MaxTime \in Nat /\ MaxDatagrams \in Nat /\ MaxInFlight \in Nat
    /\ DeviceStart \in Nat \ {0} /\ Period \in Nat \ {0}
    /\ None \notin ServedRequest /\ None \notin Nat
    /\ None \notin [frame : Nat, presentation : Int, local : Int, chosen : Nat]

(* startupLead covers the start of the device; opening it takes longer and *)
(* is done before.                                                         *)
ASSUME LeadAssumption == DeviceStart <= StartupLead + Period

VARIABLES
    now,           \* the client's monotonic clock
    pc,            \* run: stopped, send, wait, select, play or failed
    started,       \* measure: when it was called
    nextMeasure,   \* run: nextClockMeasurement
    probe,         \* measure: the request it waits to be answered
    samples,       \* measure: the accepted answers
    requests,      \* requests on their way to the host
    serving,       \* the request the server has received and not answered
    answers,       \* answers on their way to the client
    estimates,     \* the measurements the DriftEstimator was given
    start,         \* what the player was scheduled with, or None
    callback,      \* device: when it last called back in silence, or None
    heard,         \* device: when it began to play, or None
    datagrams      \* bound: requests taken and copies made so far

playerVars == <<start, callback, heard>>
clientVars == <<pc, started, nextMeasure, probe, samples, estimates, playerVars>>
networkVars == <<requests, serving, answers, datagrams>>
vars == <<now, clientVars, networkVars>>

HostNow == now + HostAhead
-----------------------------------------------------------------------------
(* llround(x / 2): half away from zero.                                    *)
Halve(x) == IF x >= 0 THEN (x + 1) \div 2 ELSE -((1 - x) \div 2)

(* The four timestamps of an exchange.  estimate throws for the exchanges  *)
(* that are not plausible.                                                 *)
RoundTrip(answer, t4) == (t4 - answer.sent) - (answer.replied - answer.received)

Plausible(answer, t4) ==
    /\ t4 >= answer.sent
    /\ answer.replied >= answer.received
    /\ RoundTrip(answer, t4) >= 0

Estimate(answer, t4) ==
    [ id     |-> answer.id,
      sent   |-> answer.sent,
      offset |-> Halve((answer.received - answer.sent) + (answer.replied - t4)),
      rtt    |-> RoundTrip(answer, t4),
      time   |-> answer.sent + (t4 - answer.sent) \div 2 ]

(* std::sort is not stable: any order of the positions of s that does not  *)
(* decrease the key.                                                       *)
Orders(n) == { p \in [1 .. n -> 1 .. n] : \A i, j \in 1 .. n : i # j => p[i] # p[j] }

ByRoundTrip(s) ==
    { p \in Orders(Len(s)) : \A i, j \in 1 .. Len(s) : i < j => s[p[i]].rtt <= s[p[j]].rtt }

SelectedCount(n) == IF n < 3 THEN n ELSE 3

(* The element at selectedCount / 2 of the best samples sorted by offset.  *)
MiddleOfLargest(best) ==
    { best[i] : i \in { i \in DOMAIN best : \A j \in DOMAIN best : best[j].offset <= best[i].offset } }
MiddleOf(best) ==
    LET n == Len(best)
    IN  { best[q[n \div 2 + 1]] : q \in
            { q \in Orders(n) : \A i, j \in 1 .. n : i < j => best[q[i]].offset <= best[q[j]].offset } }

Best(s, p) == [i \in 1 .. SelectedCount(Len(s)) |-> s[p[i]]]

(* What measure may return: the offset and the time are those of the       *)
(* middle sample, the round trip is the shortest.  "second" records the    *)
(* second shortest round trip, which the code does not report.             *)
Measured(s) ==
    UNION { { [ offset |-> middle.offset,
                time   |-> middle.time,
                rtt    |-> s[p[1]].rtt,
                second |-> s[p[IF Len(s) = 1 THEN 1 ELSE 2]].rtt ] : middle \in MiddleOf(Best(s, p)) }
            : p \in ByRoundTrip(s) }
-----------------------------------------------------------------------------
NoProbe == [id |-> 0, sent |-> 0]

Init ==
    /\ now = 0
    /\ pc = "stopped"
    /\ started = 0
    /\ nextMeasure = 0
    /\ probe = NoProbe
    /\ samples = <<>>
    /\ requests = {}
    /\ serving = None
    /\ answers = {}
    /\ estimates = <<>>
    /\ start = None
    /\ callback = None
    /\ heard = None
    /\ datagrams = 0

Timeout == IF start = None THEN FirstTimeout ELSE LaterTimeout

(* The bound on the time leaves room for the whole measurement.            *)
BeginMeasure ==
    /\ now + Timeout + ReceiveTimeout <= MaxTime
    /\ pc' = "send"
    /\ started' = now
    /\ probe' = NoProbe
    /\ samples' = <<>>

(* run measures once before it looks at a packet, with an empty estimator, *)
StartRun ==
    /\ pc = "stopped"
    /\ BeginMeasure
    /\ UNCHANGED <<now, nextMeasure, estimates, playerVars, networkVars>>

(* and again every few seconds while it plays.                             *)
Remeasure ==
    /\ pc = "play"
    /\ now >= nextMeasure
    /\ BeginMeasure
    /\ UNCHANGED <<now, nextMeasure, estimates, playerVars, networkVars>>

KeepsMeasuringOneMore == Len(samples) <= DesiredSamples /\ now < started + Timeout
KeepsMeasuring == Len(samples) < DesiredSamples /\ now < started + Timeout

SendProbe ==
    /\ pc = "send"
    /\ KeepsMeasuring
    /\ probe' = [id |-> probe.id + 1, sent |-> now]
    /\ \/ /\ datagrams < MaxDatagrams
          /\ Cardinality(requests) + Cardinality(answers) < MaxInFlight
          /\ datagrams' = datagrams + 1
          /\ requests' = requests \cup {probe'}
       \/ UNCHANGED <<datagrams, requests>>
    /\ pc' = "wait"
    /\ UNCHANGED <<now, started, nextMeasure, samples, serving, answers, estimates, playerVars>>

AcceptsAny(answer) == Plausible(answer, now)
AcceptsById(answer) == answer.id = probe.id /\ Plausible(answer, now)
Accepts(answer) ==
    /\ answer.id = probe.id
    /\ answer.sent = probe.sent
    /\ Plausible(answer, now)

(* One datagram is read for every request, whether or not it answers it.   *)
ReceiveAnswer(answer) ==
    /\ pc = "wait"
    /\ answer \in answers
    /\ samples' = IF Accepts(answer) THEN Append(samples, Estimate(answer, now)) ELSE samples
    /\ pc' = "send"
    /\ \/ answers' = answers \ {answer} /\ UNCHANGED datagrams
       \/ datagrams < MaxDatagrams /\ datagrams' = datagrams + 1 /\ UNCHANGED answers
    /\ UNCHANGED <<now, started, nextMeasure, probe, requests, serving, estimates, playerVars>>

ReceiveBlocks == FALSE /\ UNCHANGED vars
ReceiveTimesOut ==
    /\ pc = "wait"
    /\ now >= probe.sent + ReceiveTimeout
    /\ pc' = "send"
    /\ UNCHANGED <<now, started, nextMeasure, probe, samples, estimates, playerVars, networkVars>>

(* Back to run, which goes on to "next" when it does not play yet.  The    *)
(* locals of measure are gone.                                             *)
LeaveMeasure(next) ==
    /\ pc' = IF start = None THEN next ELSE "play"
    /\ nextMeasure' = IF start = None THEN nextMeasure ELSE now + MeasureGap
    /\ started' = 0
    /\ probe' = NoProbe
    /\ samples' = <<>>

(* The socket fails, or no sample was accepted before the deadline: before *)
(* playback the exception ends run, during playback it is caught.          *)
MeasureThrows ==
    /\ \/ pc = "wait"
       \/ pc = "send" /\ KeepsMeasuring
       \/ pc = "send" /\ ~KeepsMeasuring /\ samples = <<>>
    /\ LeaveMeasure("stopped")
    /\ UNCHANGED <<now, estimates, playerVars, networkVars>>

Last(s) == s[Len(s)]

(* addSample throws for a time that is not later than the last one, and    *)
(* nothing in run catches that.  (The code compares with the last sample   *)
(* it kept, which is this one unless it was an outlier to four others.)    *)
Refuses(result) == estimates # <<>> /\ result.time <= Last(estimates).time

MeasureReturns ==
    /\ pc = "send"
    /\ ~KeepsMeasuring
    /\ samples # <<>>
    /\ \E result \in Measured(samples) :
         IF Refuses(result)
         THEN pc' = "failed" /\ UNCHANGED <<started, nextMeasure, probe, samples, estimates>>
         ELSE LeaveMeasure("select") /\ estimates' = Append(estimates, result)
    /\ UNCHANGED <<now, playerVars, networkVars>>
-----------------------------------------------------------------------------
(* The clock of the segment's packets maps its first frame to its start    *)
(* plus the host's output latency.  frameToTimestamp throws beyond the     *)
(* largest count, and there is no such packet.                             *)
Presentation(frame) == FrameToTimestamp(HostStart + HostLatency, frame - InitialFrame)
HasTimestamp(frame) == Presentation(frame) <= MaxCount

(* One sample is in the estimator, so that its line is flat.               *)
OffsetNow == Last(estimates).offset

HostThresholdLate == now + StartupLead + OffsetNow - PlaybackDelay - OutputLatency
HostThreshold == now + StartupLead + OffsetNow - PlaybackDelay + OutputLatency

LocalPresentation(frame) == Presentation(frame) - OffsetNow + PlaybackDelay - OutputLatency

(* firstPacketAtOrAfter: the first of the packets the jitter buffer holds  *)
(* by now, whichever these are, that is presented late enough.             *)
AtOrAfter(timestamp) ==
    { frame \in PacketStarts : HasTimestamp(frame) /\ Presentation(frame) >= timestamp }

(* The player is scheduled and its device started; until it calls back for *)
(* the first time the device is silent.                                    *)
SelectStart(frame) ==
    /\ pc = "select"
    /\ HostThreshold >= 0
    /\ frame \in AtOrAfter(HostThreshold)
    /\ LocalPresentation(frame) >= 0
    /\ start' = [ frame        |-> frame,
                  presentation |-> Presentation(frame),
                  local        |-> LocalPresentation(frame),
                  chosen       |-> now ]
    /\ pc' = "play"
    /\ nextMeasure' = now + MeasureGap
    /\ UNCHANGED <<now, started, probe, samples, estimates, callback, heard, networkVars>>

(* Fault: the first callback plays, before its time or after.              *)
BeginsAtOnce == TRUE

(* The callback begins to play when it is called at the scheduled instant  *)
(* or after it; startLateness_ is how long after.                          *)
Begins == now >= start.local

(* The device calls back.  Callbacks that come after it began to play feed *)
(* on the jitter buffer and change nothing here.                           *)
DeviceCallback ==
    /\ start # None
    /\ heard = None
    /\ pc # "failed"
    /\ IF Begins
       THEN heard' = now /\ UNCHANGED callback
       ELSE callback' = now /\ UNCHANGED heard
    /\ UNCHANGED <<now, pc, started, nextMeasure, probe, samples, estimates, start, networkVars>>

CallbackDue == IF callback = None THEN start.chosen + DeviceStart ELSE callback + Period

(* run ends: no packet in time, the device does not start, the stream is   *)
(* over, or the route changed.                                             *)
EndRun ==
    /\ pc \in {"select", "play"}
    /\ pc' = "stopped"
    /\ nextMeasure' = 0
    /\ estimates' = <<>>
    /\ start' = None
    /\ callback' = None
    /\ heard' = None
    /\ UNCHANGED <<now, started, probe, samples, networkVars>>
-----------------------------------------------------------------------------
(* The thread of ClockSyncServer: t2 when recvfrom returns, t3 just before *)
(* the answer is sent.                                                     *)
ServerReceive(request) ==
    /\ serving = None
    /\ request \in requests
    /\ serving' = [id |-> request.id, sent |-> request.sent, received |-> HostNow]
    /\ \/ requests' = requests \ {request} /\ UNCHANGED datagrams
       \/ datagrams < MaxDatagrams /\ datagrams' = datagrams + 1 /\ UNCHANGED requests
    /\ UNCHANGED <<now, answers, clientVars>>

ServerAnswer ==
    /\ serving # None
    /\ answers' = answers \cup
         {[ id |-> serving.id, sent |-> serving.sent,
            received |-> serving.received, replied |-> HostNow ]}
    /\ serving' = None
    /\ UNCHANGED <<now, requests, datagrams, clientVars>>

(* Time passes while the client waits; a read that has timed out returns,  *)
(* and a callback that is due comes, before it goes on.                    *)
Tick ==
    /\ now < MaxTime
    /\ pc \in {"wait", "select", "play"}
    /\ pc = "wait" => now < probe.sent + ReceiveTimeout
    /\ (start # None /\ heard = None) => now < CallbackDue
    /\ now' = now + 1
    /\ UNCHANGED <<clientVars, networkVars>>

Client ==
    \/ StartRun
    \/ Remeasure
    \/ SendProbe
    \/ \E answer \in answers : ReceiveAnswer(answer)
    \/ ReceiveTimesOut
    \/ MeasureThrows
    \/ MeasureReturns
    \/ \E frame \in PacketStarts : SelectStart(frame)
    \/ EndRun

Server == ServerAnswer \/ \E request \in requests : ServerReceive(request)

Next == Client \/ DeviceCallback \/ Server \/ Tick

Spec == Init /\ [][Next]_vars

(* The threads run, the device calls back and the clock goes on.  Nothing  *)
(* is assumed of the network: every datagram may be lost.                  *)
Fairness ==
    /\ WF_vars(Tick)
    /\ WF_vars(DeviceCallback)
    /\ WF_vars(SendProbe)
    /\ WF_vars(ReceiveTimesOut)
    /\ WF_vars(MeasureThrows /\ ~KeepsMeasuring)
    /\ WF_vars(MeasureReturns)

FairSpec == Spec /\ Fairness
-----------------------------------------------------------------------------
TypeOK ==
    /\ now \in 0 .. MaxTime
    /\ pc \in {"stopped", "send", "wait", "select", "play", "failed"}
    /\ started \in 0 .. now
    /\ nextMeasure \in Nat
    /\ probe \in [id : Nat, sent : 0 .. now]
    /\ Len(samples) <= DesiredSamples
    /\ samples \in Seq(Sample)
    /\ requests \subseteq Request
    /\ serving \in ServedRequest \cup {None}
    /\ answers \subseteq Answer
    /\ estimates \in Seq(Measurement)
    /\ start \in [frame : Nat, presentation : Int, local : Nat, chosen : Nat] \cup {None}
    /\ callback \in Nat \cup {None}
    /\ heard \in Nat \cup {None}
    /\ datagrams \in 0 .. MaxDatagrams

(* Every sample of a measurement is an exchange of its own, of this        *)
(* measurement, whatever the network does with the datagrams.              *)
SamplesAreFresh ==
    \A i \in DOMAIN samples :
        /\ samples[i].sent >= started
        /\ \A j \in DOMAIN samples : samples[j].id = samples[i].id => i = j

Distance(a, b) == IF a >= b THEN a - b ELSE b - a

(* The offset is wrong by at most half the second shortest round trip of   *)
(* the measurement (half of the only one when there is one), so that one   *)
(* exchange with a path that is slow in one direction cannot bias it.      *)
OffsetErrorBounded ==
    \A i \in DOMAIN estimates :
        2 * Distance(estimates[i].offset, HostAhead) <= estimates[i].second + 1

(* Measurements reach the estimator in the order of their times: addSample *)
(* never throws at a receiver that plays.                                  *)
EstimatorAccepts ==
    /\ pc # "failed"
    /\ \A i, j \in DOMAIN estimates : i < j => estimates[i].time < estimates[j].time

(* The first frame leaves the speaker PlaybackDelay after the instant the  *)
(* host presents it: not earlier than the error of the offset allows, and  *)
(* not later than this and one period of the device.  So any two receivers *)
(* are together within half the sum of their round trips and one period.   *)
StartsTogether ==
    heard # None =>
        LET error == (heard + OutputLatency + HostAhead) - (start.presentation + PlaybackDelay)
        IN  /\ -(estimates[1].second + 1) <= 2 * error
            /\ 2 * error <= estimates[1].second + 1 + 2 * Period

(* The start lies ahead of the moment it was chosen, so that the device    *)
(* does not open after the first frame was due.                            *)
StartIsAhead == start # None => start.local >= start.chosen + StartupLead

(* A measurement ends, however many of its datagrams are lost or late.     *)
MeasurementEnds == (pc \in {"send", "wait"}) ~> (pc \notin {"send", "wait"})
=============================================================================
