----------------------- MODULE PlaybackTimelineProofs -----------------------
(***************************************************************************)
(* The conversions of PlaybackClock are inverse to each other on frames,   *)
(* for every sample rate up to one frame per tick of the clock.            *)
(***************************************************************************)
EXTENDS PlaybackTimeline, TLAPS

(* Division with remainder. *)
LEMMA Euclid ==
    ASSUME NEW a \in Int, NEW b \in Nat \ {0}
    PROVE  /\ a \div b \in Int /\ a % b \in 0 .. b - 1
           /\ a = b * (a \div b) + (a % b)
  BY SMT

(* Only one quotient leaves a remainder below the divisor. *)
LEMMA QuotientUnique ==
    ASSUME NEW b \in Nat \ {0}, NEW p \in Int, NEW q \in Int,
           NEW r \in 0 .. b - 1, NEW s \in 0 .. b - 1, b * p + r = b * q + s
    PROVE  p = q /\ r = s
<1>1. CASE p < q
  <2>1. b * (q - p) >= b
    BY <1>1
  <2>2. b * (q - p) = r - s
    OBVIOUS
  <2> QED
    BY <2>1, <2>2
<1>2. CASE q < p
  <2>1. b * (p - q) >= b
    BY <1>2
  <2>2. b * (p - q) = s - r
    OBVIOUS
  <2> QED
    BY <2>1, <2>2
<1>3. CASE p = q
  BY <1>3
<1> QED
  BY <1>1, <1>2, <1>3

(* The division of a multiple plus a remainder. *)
LEMMA QuotientOf ==
    ASSUME NEW b \in Nat \ {0}, NEW q \in Int, NEW r \in 0 .. b - 1
    PROVE  (b * q + r) \div b = q /\ (b * q + r) % b = r
<1> DEFINE a == b * q + r
<1>1. a \in Int
  OBVIOUS
<1>2. a \div b \in Int /\ a % b \in 0 .. b - 1 /\ a = b * (a \div b) + (a % b)
  BY <1>1, Euclid
<1> QED
  BY <1>2, QuotientUnique

-----------------------------------------------------------------------------
(* FrameToDuration rounds the boundary of a frame up to a tick.            *)
LEMMA DurationBounds ==
    ASSUME NEW frame \in Nat
    PROVE  /\ FrameToDuration(frame) \in Nat
           /\ frame * NanosecondsPerSecond <= FrameToDuration(frame) * SampleRate
           /\ FrameToDuration(frame) * SampleRate < frame * NanosecondsPerSecond + SampleRate
<1> DEFINE N == NanosecondsPerSecond
           R == SampleRate
           q == frame \div R
           r == frame % R
           x == r * N + R - 1
           c == x \div R
           d == FrameToDuration(frame)
<1>1. N \in Nat \ {0} /\ R \in Nat \ {0}
  BY TimelineAssumption
<1>2. q \in Int /\ r \in 0 .. R - 1 /\ frame = R * q + r
  BY <1>1, Euclid
<1>3. q \in Nat
  BY <1>1, <1>2
<1>4. d = q * N + c
  BY DEF FrameToDuration
<1> HIDE DEF q, r, d
<1>5. x \in Nat
  BY <1>1, <1>2
<1> HIDE DEF x
<1>6. c \in Int /\ (x % R) \in 0 .. R - 1 /\ x = R * c + (x % R)
  BY <1>1, <1>5, Euclid
<1> HIDE DEF c
<1>7. c \in Nat /\ r * N <= c * R /\ c * R < r * N + R
  BY <1>1, <1>2, <1>5, <1>6 DEF x
<1>8. frame * N = q * N * R + r * N
  BY <1>1, <1>2
<1>9. d \in Nat /\ d * R = q * N * R + c * R
  BY <1>1, <1>3, <1>4, <1>7
<1> QED
  BY <1>1, <1>2, <1>3, <1>7, <1>8, <1>9 DEF d

(* The tick at which a frame begins is the first one after its boundary.   *)
LEMMA DurationFits ==
    ASSUME NEW frame \in Nat, NEW d \in Int,
           frame * NanosecondsPerSecond <= d * SampleRate
    PROVE  FrameToDuration(frame) <= d
<1> DEFINE N == NanosecondsPerSecond
           R == SampleRate
           e == FrameToDuration(frame)
<1>1. N \in Nat \ {0} /\ R \in Nat \ {0}
  BY TimelineAssumption
<1>2. e \in Nat /\ e * R < frame * N + R
  BY DurationBounds
<1> HIDE DEF e
<1>3. SUFFICES ASSUME d <= e - 1 PROVE FALSE
  BY <1>2 DEF e
<1>4. d * R <= (e - 1) * R
  BY <1>1, <1>2, <1>3
<1>5. (e - 1) * R = e * R - R
  BY <1>1, <1>2
<1> QED
  BY <1>1, <1>2, <1>4, <1>5

(* Later frames do not begin earlier. *)
LEMMA DurationGrows ==
    ASSUME NEW a \in Nat, NEW b \in Nat, a <= b
    PROVE  FrameToDuration(a) <= FrameToDuration(b)
<1>1. NanosecondsPerSecond \in Nat /\ SampleRate \in Nat
  BY TimelineAssumption
<1>2. a * NanosecondsPerSecond <= b * NanosecondsPerSecond
  BY <1>1
<1>3. /\ FrameToDuration(b) \in Nat
      /\ b * NanosecondsPerSecond <= FrameToDuration(b) * SampleRate
  BY DurationBounds
<1>4. a * NanosecondsPerSecond <= FrameToDuration(b) * SampleRate
  BY <1>1, <1>2, <1>3
<1> QED
  BY <1>3, <1>4, DurationFits

(* The first frame begins at once. *)
LEMMA DurationOfNone == FrameToDuration(0) = 0
<1>1. 0 * NanosecondsPerSecond <= 0 * SampleRate
  BY TimelineAssumption
<1> QED
  BY <1>1, DurationFits, DurationBounds

(* A frame lasts. *)
LEMMA DurationOfOne == FrameToDuration(1) \in Nat \ {0}
<1>1. /\ FrameToDuration(1) \in Nat
      /\ 1 * NanosecondsPerSecond <= FrameToDuration(1) * SampleRate
  BY DurationBounds
<1> QED
  BY <1>1, TimelineAssumption

(* Rounding up: frames counted apart last no less than counted together,   *)
(* and less than two ticks longer than they are long.                      *)
LEMMA DurationSum ==
    ASSUME NEW a \in Nat, NEW b \in Nat
    PROVE  /\ FrameToDuration(a + b) <= FrameToDuration(a) + FrameToDuration(b)
           /\ (a + b) * NanosecondsPerSecond
                <= (FrameToDuration(a) + FrameToDuration(b)) * SampleRate
           /\ (FrameToDuration(a) + FrameToDuration(b)) * SampleRate
                <= (a + b) * NanosecondsPerSecond + 2 * SampleRate - 2
<1> DEFINE N == NanosecondsPerSecond
           R == SampleRate
           c == FrameToDuration(a)
           d == FrameToDuration(b)
<1>1. N \in Nat \ {0} /\ R \in Nat \ {0}
  BY TimelineAssumption
<1>2. c \in Nat /\ a * N <= c * R /\ c * R < a * N + R
  BY DurationBounds
<1>3. d \in Nat /\ b * N <= d * R /\ d * R < b * N + R
  BY DurationBounds
<1> HIDE DEF c, d
<1>4. (a + b) * N = a * N + b * N /\ (c + d) * R = c * R + d * R
  BY <1>1, <1>2, <1>3
<1>5. (a + b) * N <= (c + d) * R /\ (c + d) * R <= (a + b) * N + 2 * R - 2
  BY <1>1, <1>2, <1>3, <1>4
<1>6. FrameToDuration(a + b) <= c + d
  BY <1>2, <1>3, <1>5, DurationFits
<1> QED
  BY <1>5, <1>6 DEF c, d

-----------------------------------------------------------------------------
(* timestampToFrame rounds down to a frame.                                *)
LEMMA FrameAtElapsed ==
    ASSUME NEW startTime \in Int, NEW timestamp \in Int, NEW frame \in Nat,
           frame * NanosecondsPerSecond <= (timestamp - startTime) * SampleRate,
           (timestamp - startTime) * SampleRate
             < frame * NanosecondsPerSecond + NanosecondsPerSecond
    PROVE  TimestampToFrame(startTime, timestamp) = frame
<1> DEFINE N == NanosecondsPerSecond
           R == SampleRate
           e == timestamp - startTime
           q == e \div N
           t == e % N
           y == t * R
           g == y \div N
<1>1. N \in Nat \ {0} /\ R \in Nat \ {0}
  BY TimelineAssumption
<1>2. e \in Int /\ frame * N <= e * R /\ e * R < frame * N + N
  OBVIOUS
<1> HIDE DEF e
<1>3. CASE e <= 0
  <2>1. e * R <= 0
    BY <1>1, <1>2, <1>3
  <2>2. frame * N <= 0
    BY <1>1, <1>2, <2>1
  <2>3. frame = 0
    BY <1>1, <2>2
  <2> QED
    BY <1>3, <2>3 DEF TimestampToFrame, e
<1>4. CASE e > 0
  <2>1. q \in Int /\ t \in 0 .. N - 1 /\ e = N * q + t
    BY <1>1, <1>2, Euclid
  <2>2. TimestampToFrame(startTime, timestamp) = q * R + g
    BY <1>2, <1>4 DEF TimestampToFrame, e
  <2> HIDE DEF q, t
  <2>3. y \in Int
    BY <1>1, <2>1
  <2> HIDE DEF y
  <2>4. g \in Int /\ (y % N) \in 0 .. N - 1 /\ y = N * g + (y % N)
    BY <1>1, <2>3, Euclid
  <2> HIDE DEF g
  <2>5. e * R = N * (q * R) + y
    BY <1>1, <2>1 DEF y
  <2>6. N * (q * R) + N * g = N * (q * R + g)
    BY <1>1, <2>1, <2>4
  <2>7. e * R = N * (q * R + g) + (y % N)
    BY <1>1, <1>2, <2>1, <2>3, <2>4, <2>5, <2>6
  <2>8. e * R - N * frame \in 0 .. N - 1 /\ e * R = N * frame + (e * R - N * frame)
    BY <1>1, <1>2
  <2>9. q * R + g \in Int
    BY <1>1, <2>1, <2>4
  <2> DEFINE z == q * R + g
             v == y % N
             w == e * R - N * frame
  <2>10. /\ N \in Nat \ {0} /\ z \in Int /\ frame \in Int
         /\ v \in 0 .. N - 1 /\ w \in 0 .. N - 1 /\ N * z + v = N * frame + w
    BY <1>1, <2>4, <2>7, <2>8, <2>9
  <2> HIDE DEF z, v, w
  <2>11. z = frame
    BY <2>10, QuotientUnique
  <2> QED
    BY <2>2, <2>11 DEF z
<1> QED
  BY <1>2, <1>3, <1>4

(* PlaybackClock::timestampToFrame after PlaybackClock::frameToTimestamp   *)
(* is the identity: rounding up to a tick and down to a frame lose nothing *)
(* at any rate the constructor allows, up to one frame per tick.           *)
THEOREM FrameOfItsTimestamp ==
    ASSUME NEW startTime \in Int, NEW frame \in Nat
    PROVE  TimestampToFrame(startTime, FrameToTimestamp(startTime, frame)) = frame
<1> DEFINE d == FrameToDuration(frame)
<1>1. /\ d \in Nat
      /\ frame * NanosecondsPerSecond <= d * SampleRate
      /\ d * SampleRate < frame * NanosecondsPerSecond + SampleRate
  BY DurationBounds
<1>2. FrameToTimestamp(startTime, frame) = startTime + d
  BY DEF FrameToTimestamp
<1> HIDE DEF d
<1>3. (startTime + d) - startTime = d
  BY <1>1
<1>4. d * SampleRate < frame * NanosecondsPerSecond + NanosecondsPerSecond
  BY <1>1, TimelineAssumption
<1>5. startTime + d \in Int
  BY <1>1
<1> QED
  BY <1>1, <1>2, <1>3, <1>4, <1>5, FrameAtElapsed
=============================================================================
