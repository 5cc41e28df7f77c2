---------------------------- MODULE PlayoutProofs ----------------------------
(***************************************************************************)
(* Proofs about the playout: the timestamps stay ordered, so that the      *)
(* unsigned subtractions of checkstall never wrap, and the stalls that are *)
(* reported account for the whole time since the video started.  The last  *)
(* part says how far packets may be ahead of the playout (Fits), which the *)
(* proofs about both programs share.                                       *)
(***************************************************************************)
EXTENDS Playout, TLAPS

(* The inductive invariant, part by part, of metrics m at time t.          *)

Ordered(m) ==
    /\ 0 <= m.TS0 /\ m.TS0 <= m.TSnow
    /\ m.TSnow <= m.TSlist[0] /\ m.TSnow <= m.TSlist[1]

\* Nothing has arrived yet.
Untouched(m) ==
    /\ m.TSlist[0] = 0 /\ m.TSlist[1] = 0 /\ m.TSnow = 0
    /\ m.initialprebuftime < 0

\* Until the video starts there is nothing to account for.
Silent(m) == m.TS0 = 0 /\ m.totalstalltime = 0 /\ m.numofstalls = 0

\* The time at which playout last started or ran dry.
Reference(m) == IF m.Tmin >= 0 THEN m.Tmin ELSE m.Tmin0

Accounted(m) ==
    Reference(m) - (m.stime + m.initialprebuftime) = m.TS0 + m.totalstalltime

NotAhead(m, t) == m.Tmin <= t /\ m.Tmin0 <= t /\ m.stime <= t

StallsCounted(m) ==
    /\ m.totalstalltime >= 0 /\ m.numofstalls >= 0
    /\ m.numofstalls = 0 => m.totalstalltime = 0

\* What holds of the metrics, also between the two parts of checkstall.
Sound(m, t) ==
    /\ m \in Metric
    /\ Ordered(m) /\ NotAhead(m, t) /\ StallsCounted(m)
    /\ m.initialprebuftime < 0 => Silent(m)
    /\ m.initialprebuftime >= 0 => Accounted(m)

\* An attempt that has begun to buffer does not look as if it played.
NotYet(m) == m.T0 >= 0 /\ m.initialprebuftime < 0 => m.Tmin < 0

IInv ==
    /\ now \in Nat
    /\ minbuffer \in {MinPrebuffer, MinStallbuffer}
    /\ errorcode \in ErrorCodes
    /\ Sound(metric, now)
    /\ metric.T0 < 0 => Untouched(metric)
    /\ NotYet(metric)
-----------------------------------------------------------------------------
(* The parts of checkstall. *)

\* The first packet starts the prebuffering at the timestamp zero.
LEMMA FirstPacketSound ==
    ASSUME NEW m \in Metric, now \in Nat, Sound(m, now),
           m.T0 < 0 => m.TSnow = 0 /\ m.initialprebuftime < 0
    PROVE  /\ Sound(FirstPacket(m), now)
           /\ FirstPacket(m).T0 >= 0
           /\ FirstPacket(m).initialprebuftime = m.initialprebuftime
           /\ FirstPacket(m).Tmin = m.Tmin
           /\ FirstPacket(m).TSnow = m.TSnow
           /\ FirstPacket(m).TSlist = m.TSlist
<1>1. CASE m.T0 < 0
  <2> DEFINE f == [m EXCEPT !.T0 = now, !.Tmin0 = now, !.TS0 = m.TSnow]
  <2>1. FirstPacket(m) = f
    BY <1>1 DEF FirstPacket
  <2>2. f \in Metric
    <3>1. now \in Int /\ m.TSnow \in Int
      BY DEF Metric
    <3> QED
      BY <3>1, Zenon DEF Metric
  <2>3. /\ f.T0 = now /\ f.Tmin0 = now /\ f.TS0 = m.TSnow /\ f.Tmin = m.Tmin
        /\ f.initialprebuftime = m.initialprebuftime /\ f.TSnow = m.TSnow
        /\ f.TSlist = m.TSlist /\ f.stime = m.stime
        /\ f.totalstalltime = m.totalstalltime /\ f.numofstalls = m.numofstalls
    BY DEF Metric
  <2> QED
    BY <1>1, <2>1, <2>2, <2>3
    DEF Metric, Sound, Ordered, NotAhead, StallsCounted, Silent, Accounted, Reference
<1>2. CASE ~(m.T0 < 0)
  BY <1>2 DEF FirstPacket, Metric
<1> QED
  BY <1>1, <1>2

\* A stall moves the reference from the start of the playout to the moment it ran
\* dry, and what was played in between into TS0.
LEMMA StallSound ==
    ASSUME NEW m \in Metric, now \in Nat, Sound(m, now), Stalls(m),
           m.initialprebuftime < 0 => m.TSnow = 0
    PROVE  Sound(Stall(m), now) /\ Stall(m).Tmin < 0 /\ Stall(m).T0 = m.T0
<1> DEFINE s == Stall(m)
<1>1. s \in Metric
  <2>1. m.Tmin + (m.TSnow - m.TS0) \in Int /\ -1 \in Int /\ m.TSnow \in Int
    BY DEF Metric
  <2> QED
    BY <2>1, Zenon DEF Stall, Metric
<1>2. /\ s.Tmin0 = m.Tmin + (m.TSnow - m.TS0) /\ s.Tmin = -1 /\ s.TS0 = m.TSnow
      /\ s.T0 = m.T0 /\ s.initialprebuftime = m.initialprebuftime
      /\ s.TSnow = m.TSnow /\ s.TSlist = m.TSlist /\ s.stime = m.stime
      /\ s.totalstalltime = m.totalstalltime /\ s.numofstalls = m.numofstalls
  BY DEF Stall, Metric
<1>3. m.Tmin >= 0 /\ m.TSnow - m.TS0 <= now - m.Tmin
  BY DEF Stalls
<1> HIDE DEF s
<1>4. Ordered(s) /\ NotAhead(s, now) /\ StallsCounted(s)
  BY <1>1, <1>2, <1>3 DEF Metric, Sound, Ordered, NotAhead, StallsCounted
<1>5. s.initialprebuftime < 0 => Silent(s)
  BY <1>2 DEF Sound, Silent
<1>6. s.initialprebuftime >= 0 => Accounted(s)
  BY <1>2, <1>3 DEF Metric, Sound, Accounted, Reference
<1> QED
  BY <1>1, <1>2, <1>4, <1>5, <1>6 DEF s, Sound

\* What playout waited for is added to the stall time; before the video started it
\* is the prebuffering.
LEMMA StartSound ==
    ASSUME NEW m \in Metric, now \in Nat, Sound(m, now), m.Tmin < 0
    PROVE  /\ Sound(StartPlayout(m), now)
           /\ StartPlayout(m).initialprebuftime >= 0
           /\ StartPlayout(m).T0 = m.T0
<1> DEFINE s == StartPlayout(m)
<1>1. CASE m.initialprebuftime < 0
  <2>1. s = [m EXCEPT !.Tmin = now, !.initialprebuftime = now - m.stime]
    BY <1>1 DEF StartPlayout
  <2>2. s \in Metric
    <3>1. now \in Int /\ now - m.stime \in Int
      BY DEF Metric
    <3> QED
      BY <2>1, <3>1, Zenon DEF Metric
  <2>3. /\ s.Tmin = now /\ s.initialprebuftime = now - m.stime
        /\ s.Tmin0 = m.Tmin0 /\ s.TS0 = m.TS0 /\ s.T0 = m.T0
        /\ s.TSnow = m.TSnow /\ s.TSlist = m.TSlist /\ s.stime = m.stime
        /\ s.totalstalltime = m.totalstalltime /\ s.numofstalls = m.numofstalls
    BY <2>1 DEF Metric
  <2> HIDE DEF s
  <2> QED
    BY <1>1, <2>2, <2>3
    DEF s, Metric, Sound, Ordered, NotAhead, StallsCounted, Silent, Accounted, Reference
<1>2. CASE m.initialprebuftime >= 0
  <2>1. s = [m EXCEPT !.Tmin = now, !.numofstalls = m.numofstalls + 1,
                      !.totalstalltime = m.totalstalltime + (now - m.Tmin0)]
    BY <1>2 DEF StartPlayout, Metric
  <2>2. s \in Metric
    <3>1. /\ now \in Int /\ m.numofstalls + 1 \in Int
          /\ m.totalstalltime + (now - m.Tmin0) \in Int
      BY DEF Metric
    <3> QED
      BY <2>1, <3>1, Zenon DEF Metric
  <2>3. /\ s.Tmin = now /\ s.initialprebuftime = m.initialprebuftime
        /\ s.Tmin0 = m.Tmin0 /\ s.TS0 = m.TS0 /\ s.T0 = m.T0
        /\ s.TSnow = m.TSnow /\ s.TSlist = m.TSlist /\ s.stime = m.stime
        /\ s.totalstalltime = m.totalstalltime + (now - m.Tmin0)
        /\ s.numofstalls = m.numofstalls + 1
    BY <2>1 DEF Metric
  <2> HIDE DEF s
  <2> QED
    BY <1>2, <2>2, <2>3
    DEF s, Metric, Sound, Ordered, NotAhead, StallsCounted, Silent, Accounted, Reference
<1> QED
  BY <1>1, <1>2 DEF Metric
-----------------------------------------------------------------------------
(* checkstall as a whole. *)

\* Whatever timestamps arrive, as long as none goes back, checkstall leaves sound
\* metrics, and a playout that has not started does not look as if it ran.
LEMMA CheckstallSound ==
    ASSUME IInv, NEW list \in [Streams -> Int], NEW end \in BOOLEAN,
           \A i \in Streams : list[i] >= metric.TSlist[i],
           metric.T0 < 0 => Least(list) = 0
    PROVE  /\ Sound(CheckedMetric(list, end), now)
           /\ CheckedMetric(list, end).T0 >= 0
           /\ NotYet(CheckedMetric(list, end))
<1> DEFINE b == [metric EXCEPT !.TSlist = list, !.TSnow = Least(list)]
           a == Arrived(list)
           j == Judged(list)
<1>1. Sound(metric, now) /\ metric \in Metric /\ now \in Nat /\ NotYet(metric)
  BY DEF IInv, Sound
<1>2. Least(list) \in Int /\ list[0] \in Int /\ list[1] \in Int
  BY DEF Least, Streams
<1>3. Least(list) <= list[0] /\ Least(list) <= list[1] /\ Least(list) >= metric.TSnow
  BY <1>1, <1>2 DEF Least, Streams, Sound, Ordered, Metric
<1>4. b \in Metric
  BY <1>1, <1>2, Zenon DEF Metric
<1>5. /\ b.TSlist = list /\ b.TSnow = Least(list) /\ b.TS0 = metric.TS0
      /\ b.T0 = metric.T0 /\ b.Tmin = metric.Tmin /\ b.Tmin0 = metric.Tmin0
      /\ b.stime = metric.stime /\ b.initialprebuftime = metric.initialprebuftime
      /\ b.numofstalls = metric.numofstalls /\ b.totalstalltime = metric.totalstalltime
  BY <1>1 DEF Metric
<1>6. a = FirstPacket(b)
  BY DEF Arrived
<1> HIDE DEF b
<1>7. Sound(b, now)
  <2>1. Ordered(b)
    BY <1>1, <1>2, <1>3, <1>5 DEF Sound, Ordered, Metric
  <2>2. NotAhead(b, now) /\ StallsCounted(b)
    BY <1>1, <1>5 DEF Sound, NotAhead, StallsCounted
  <2>3. b.initialprebuftime < 0 => Silent(b)
    BY <1>1, <1>5 DEF Sound, Silent
  <2>4. b.initialprebuftime >= 0 => Accounted(b)
    BY <1>1, <1>5 DEF Sound, Accounted, Reference
  <2> QED
    BY <1>4, <2>1, <2>2, <2>3, <2>4 DEF Sound
<1>8. b.T0 < 0 => b.TSnow = 0 /\ b.initialprebuftime < 0
  BY <1>5 DEF IInv, Untouched
<1>9. /\ Sound(a, now) /\ a.T0 >= 0 /\ a.Tmin = metric.Tmin
      /\ a.initialprebuftime = metric.initialprebuftime /\ a.TSnow = Least(list)
  BY <1>1, <1>4, <1>5, <1>6, <1>7, <1>8, FirstPacketSound
<1> HIDE DEF a
<1>10. a \in Metric /\ (a.initialprebuftime < 0 => a.TS0 = 0)
  BY <1>9 DEF Sound, Silent
<1>11. a.initialprebuftime < 0 /\ a.Tmin >= 0 => a.TSnow = 0 /\ Stalls(a)
  <2> SUFFICES ASSUME a.initialprebuftime < 0, a.Tmin >= 0
               PROVE  a.TSnow = 0 /\ Stalls(a)
    OBVIOUS
  <2>1. metric.T0 < 0
    BY <1>1, <1>9, <1>10 DEF NotYet, Metric
  <2>2. a.TSnow = 0 /\ a.TS0 = 0
    BY <1>9, <1>10, <2>1
  <2>3. a.Tmin <= now
    BY <1>9 DEF Sound, NotAhead
  <2> QED
    BY <1>1, <1>10, <2>2, <2>3 DEF Stalls, Metric
<1>12. Sound(j, now) /\ j.T0 >= 0 /\ (j.initialprebuftime < 0 => j.Tmin < 0)
  <2>1. CASE Stalls(a)
    <3>1. j = Stall(a)
      BY <2>1 DEF Judged, a
    <3>2. a.initialprebuftime < 0 => a.TSnow = 0
      BY <1>11, <2>1 DEF Stalls
    <3> QED
      BY <1>1, <1>9, <1>10, <2>1, <3>1, <3>2, StallSound
  <2>2. CASE ~Stalls(a)
    <3>1. j = a
      BY <2>2 DEF Judged, a
    <3> QED
      BY <1>9, <1>10, <1>11, <2>2, <3>1 DEF Metric
  <2> QED
    BY <2>1, <2>2
<1>13. j \in Metric
  BY <1>12 DEF Sound
<1>14. CASE Starts(list, end)
  <2>1. CheckedMetric(list, end) = StartPlayout(j) /\ j.Tmin < 0
    BY <1>14 DEF CheckedMetric, Starts
  <2> HIDE DEF j
  <2>2. /\ Sound(StartPlayout(j), now) /\ StartPlayout(j).T0 = j.T0
        /\ StartPlayout(j).initialprebuftime >= 0
    BY <1>1, <1>12, <1>13, <2>1, StartSound
  <2> QED
    BY <1>12, <2>1, <2>2 DEF NotYet, Sound, Metric
<1>15. CASE ~Starts(list, end)
  <2>1. CheckedMetric(list, end) = j
    BY <1>15 DEF CheckedMetric
  <2> QED
    BY <1>12, <2>1 DEF NotYet
<1> QED
  BY <1>14, <1>15
\* checkstall leaves the timestamps of the streams as they arrived.
LEMMA CheckedList ==
    ASSUME metric \in Metric, NEW list, NEW end
    PROVE  CheckedMetric(list, end).TSlist = list
<1>1. Arrived(list).TSlist = list
  BY DEF Arrived, FirstPacket, Metric
<1>2. Judged(list).TSlist = list
  BY <1>1 DEF Judged, Stall
<1> QED
  BY <1>2 DEF CheckedMetric, StartPlayout

-----------------------------------------------------------------------------
(* The steps of the playout. *)

\* Metrics that were cleared for an attempt are sound and untouched.
LEMMA RestartSound ==
    ASSUME IInv, NEW fail \in BOOLEAN
    PROVE  /\ Sound(RestartMetrics(metric, now, fail), now)
           /\ Untouched(RestartMetrics(metric, now, fail))
           /\ RestartMetrics(metric, now, fail).T0 < 0
<1> DEFINE r == RestartMetrics(metric, now, fail)
<1>1. Sound(metric, now) /\ metric \in Metric /\ now \in Nat
  BY DEF IInv, Sound
<1>2. r \in Metric
  <2>1. /\ now \in Int /\ 0 \in Int /\ -1 \in Int
        /\ [i \in Streams |-> 0] \in [Streams -> Int]
    BY <1>1
  <2> QED
    BY <1>1, <2>1, Zenon DEF RestartMetrics, Metric
<1>3. /\ r.T0 = -1 /\ r.Tmin0 = -1 /\ r.initialprebuftime = -1 /\ r.Tmin = metric.Tmin
      /\ r.TSnow = 0 /\ r.TS0 = 0 /\ r.stime = now
      /\ r.numofstalls = 0 /\ r.totalstalltime = 0
      /\ r.TSlist = [i \in Streams |-> 0]
  BY <1>1 DEF RestartMetrics, Metric
<1>4. r.TSlist[0] = 0 /\ r.TSlist[1] = 0
  BY <1>3 DEF Streams
<1> HIDE DEF r
<1>5. Sound(r, now) /\ Untouched(r) /\ r.T0 < 0
  <2>1. Ordered(r) /\ Silent(r) /\ StallsCounted(r) /\ Untouched(r)
    BY <1>3, <1>4 DEF Ordered, Silent, StallsCounted, Untouched
  <2>2. NotAhead(r, now)
    BY <1>1, <1>3 DEF Sound, NotAhead
  <2> QED
    BY <1>2, <1>3, <2>1, <2>2 DEF Sound
<1> QED
  BY <1>5 DEF r

\* The invariant holds of the metrics that init_metrics cleared.
LEMMA InitInvariant == PlayoutInit => IInv
<1> SUFFICES ASSUME PlayoutInit PROVE IInv
  OBVIOUS
<1> DEFINE m == InitMetrics(Epoch)
<1>1. Epoch \in Nat /\ metric = m /\ now = Epoch
  BY PlayoutAssumption DEF PlayoutInit
<1>2. m \in Metric
  <2>1. /\ Epoch \in Int /\ 0 \in Int /\ -1 \in Int /\ TRUE \in BOOLEAN
        /\ [i \in Streams |-> 0] \in [Streams -> Int]
    BY <1>1
  <2> QED
    BY <2>1, Zenon DEF InitMetrics, Metric
<1>3. /\ m.T0 = -1 /\ m.Tmin0 = -1 /\ m.initialprebuftime = -1 /\ m.Tmin = 0
      /\ m.TSnow = 0 /\ m.TS0 = 0 /\ m.stime = Epoch
      /\ m.numofstalls = 0 /\ m.totalstalltime = 0
      /\ m.TSlist[0] = 0 /\ m.TSlist[1] = 0
  BY DEF InitMetrics, Streams
<1> HIDE DEF m
<1>4. Sound(m, Epoch) /\ Untouched(m) /\ NotYet(m)
  BY <1>1, <1>2, <1>3
  DEF Sound, Ordered, NotAhead, StallsCounted, Silent, Untouched, NotYet
<1>5. minbuffer \in {MinPrebuffer, MinStallbuffer} /\ errorcode \in ErrorCodes
  BY DEF PlayoutInit, ErrorCodes
<1> QED
  BY <1>1, <1>4, <1>5 DEF IInv

\* Every step of the playout keeps the invariant.
LEMMA NextInvariant == IInv /\ [PlayoutNext]_playoutVars => IInv'
<1> SUFFICES ASSUME IInv, [PlayoutNext]_playoutVars PROVE IInv'
  OBVIOUS
<1> USE DEF IInv
<1>0. metric \in Metric /\ now \in Nat
  BY DEF Sound
<1>1. ASSUME NEW i \in Streams, Frame(i, metric'.TSlist[i]) PROVE IInv'
  <2> DEFINE ts == metric'.TSlist[i]
             list == [metric.TSlist EXCEPT ![i] = ts]
  <2>1. /\ ts \in Nat /\ ts >= metric.TSlist[i] /\ now' = now
        /\ Checkstall(list, FALSE)
    BY <1>1 DEF Frame
  <2> HIDE DEF ts
  <2>2. metric.TSlist \in [Streams -> Int]
    BY <1>0 DEF Metric
  <2>3. /\ list \in [Streams -> Int]
        /\ \A k \in Streams : list[k] >= metric.TSlist[k]
    BY <2>1, <2>2
  <2>4. metric.T0 < 0 => Least(list) = 0
    BY <1>1, <2>1, <2>2 DEF Untouched, Least, Streams
  <2> HIDE DEF list
  <2>5. /\ metric' = CheckedMetric(list, FALSE)
        /\ minbuffer' \in {MinPrebuffer, MinStallbuffer} /\ errorcode' \in ErrorCodes
    BY <2>1 DEF Checkstall, CheckedMinbuffer, ErrorCodes
  <2>6. Sound(metric', now) /\ metric'.T0 >= 0 /\ NotYet(metric')
    BY <2>3, <2>4, <2>5, CheckstallSound
  <2>7. ~(metric'.T0 < 0)
    BY <2>6 DEF Sound, Metric
  <2>8. Sound(metric', now') /\ now' \in Nat
    BY <1>0, <2>1, <2>6
  <2> QED
    BY <2>5, <2>6, <2>7, <2>8, Zenon
<1>2. CASE EndOfVideo
  <2> DEFINE list == metric.TSlist
  <2>1. now' = now /\ Checkstall(list, TRUE)
    BY <1>2 DEF EndOfVideo
  <2>2. list \in [Streams -> Int] /\ \A k \in Streams : list[k] >= metric.TSlist[k]
    BY <1>0 DEF Metric
  <2>3. metric.T0 < 0 => Least(list) = 0
    BY DEF Untouched, Least
  <2> HIDE DEF list
  <2>4. /\ metric' = CheckedMetric(list, TRUE)
        /\ minbuffer' \in {MinPrebuffer, MinStallbuffer} /\ errorcode' \in ErrorCodes
    BY <2>1 DEF Checkstall, CheckedMinbuffer, ErrorCodes
  <2>5. Sound(metric', now) /\ metric'.T0 >= 0 /\ NotYet(metric')
    BY <2>2, <2>3, <2>4, CheckstallSound
  <2>6. ~(metric'.T0 < 0)
    BY <2>5 DEF Sound, Metric
  <2>7. Sound(metric', now') /\ now' \in Nat
    BY <1>0, <2>1, <2>5
  <2> QED
    BY <2>4, <2>5, <2>6, <2>7, Zenon
<1>3. ASSUME NEW fail \in BOOLEAN, NewAttempt(fail) PROVE IInv'
  <2>1. /\ metric' = RestartMetrics(metric, now, fail) /\ now' = now
        /\ minbuffer' = minbuffer /\ errorcode' \in ErrorCodes
    BY <1>3 DEF NewAttempt, ErrorCodes
  <2>2. Sound(metric', now) /\ Untouched(metric') /\ metric'.T0 < 0
    BY <2>1, RestartSound
  <2> QED
    BY <1>0, <2>1, <2>2 DEF NotYet, Sound, Metric
<1>4. CASE TimePasses(now' - now)
  <2>1. /\ now' - now \in Nat /\ now' = now + (now' - now)
        /\ metric' = metric /\ minbuffer' = minbuffer /\ errorcode' = errorcode
    BY <1>4 DEF TimePasses
  <2>2. now' \in Nat /\ now' >= now
    BY <1>0, <2>1
  <2>3. Sound(metric, now')
    BY <1>0, <2>2 DEF Sound, NotAhead, Metric
  <2>4. metric'.T0 < 0 => Untouched(metric')
    BY <2>1, Zenon
  <2>5. NotYet(metric')
    BY <2>1, Zenon
  <2> QED
    BY <2>1, <2>2, <2>3, <2>4, <2>5
<1>5. CASE ReportCode
  <2>1. now' = now /\ metric' = metric /\ minbuffer' = minbuffer /\ errorcode' \in ErrorCodes
    BY <1>5 DEF ReportCode
  <2> QED
    BY <2>1, Zenon
<1>6. CASE UNCHANGED playoutVars
  <2>1. /\ now' = now /\ metric' = metric
        /\ minbuffer' = minbuffer /\ errorcode' = errorcode
    BY <1>6 DEF playoutVars
  <2> QED
    BY <2>1, Zenon
<1> QED
  BY <1>1, <1>2, <1>3, <1>4, <1>5, <1>6 DEF PlayoutNext

\* The invariant contains the properties that the runs check.
LEMMA InvariantImplies ==
    IInv => PlayoutTypeOK /\ TimestampsOrdered /\ StallAccounting /\ StallsInThePast
<1> SUFFICES ASSUME IInv
             PROVE  PlayoutTypeOK /\ TimestampsOrdered /\ StallAccounting /\ StallsInThePast
  OBVIOUS
<1>1. PlayoutTypeOK
  BY DEF IInv, Sound, PlayoutTypeOK
<1>2. TimestampsOrdered
  BY DEF IInv, Sound, Ordered, TimestampsOrdered, Streams
<1>3. StallAccounting
  BY DEF IInv, Sound, Accounted, Reference, StallAccounting, Started
<1>4. StallsInThePast
  BY DEF IInv, Sound, NotAhead, StallsCounted, StallsInThePast
<1> QED
  BY <1>1, <1>2, <1>3, <1>4
-----------------------------------------------------------------------------
(* How far ahead of the playout the streams may get.  goal says up to which *)
(* timestamp each stream was asked for, dry of which nothing more will come. *)

Paused(m) == m.initialprebuftime < 0 \/ m.Tmin < 0

\* A paused playout may start on top of what was asked for, unless it never starts: a
\* stream that ran dry holds it back.
Fits(m, t, buffer, goal, dry, cap) ==
    IF Paused(m)
    THEN \/ \E s \in dry : m.TSlist[s] - m.TS0 < buffer
         \/ \A s \in Streams : goal[s] - m.TS0 <= cap
    ELSE \A s \in Streams : goal[s] - m.TS0 - (t - m.Tmin) <= cap

\* A playout is paused because there is not enough to play.
Buffering ==
    /\ metric.TSnow = Least(metric.TSlist)
    /\ Paused(metric) => metric.TSnow - metric.TS0 < minbuffer
    /\ metric.initialprebuftime >= 0 => minbuffer = MinStallbuffer

\* What checkstall can do: it goes on waiting, starts the playout, lets it run, or sees a
\* stall.
LEMMA CheckstallCases ==
    ASSUME IInv, NEW list \in [Streams -> Int], NEW end \in BOOLEAN,
           \A i \in Streams : list[i] >= metric.TSlist[i],
           metric.T0 < 0 => Least(list) = 0,
           end => metric.Tmin < 0
    PROVE  LET m == CheckedMetric(list, end)
               b == CheckedMinbuffer(list, end)
           IN  /\ m.TSlist = list /\ m.TSnow = Least(list)
               /\ \/ /\ Paused(metric) /\ Paused(m) /\ m.TS0 = metric.TS0 /\ b = minbuffer
                     /\ m.TSnow - m.TS0 < b /\ m.initialprebuftime = metric.initialprebuftime
                  \/ /\ Paused(metric) /\ ~Paused(m) /\ m.TS0 = metric.TS0 /\ m.Tmin = now
                     /\ end \/ m.TSnow - m.TS0 >= minbuffer
                     /\ b = IF metric.initialprebuftime < 0 THEN MinStallbuffer ELSE minbuffer
                  \/ /\ ~Paused(metric) /\ ~Paused(m) /\ m.TS0 = metric.TS0
                     /\ m.Tmin = metric.Tmin /\ b = minbuffer
                  \/ /\ ~Paused(metric) /\ Paused(m) /\ m.TS0 = m.TSnow /\ b = minbuffer
                     /\ m.initialprebuftime = metric.initialprebuftime
<1> DEFINE a == Arrived(list)
           j == Judged(list)
<1>1. Sound(metric, now) /\ metric \in Metric /\ now \in Nat /\ NotYet(metric)
  BY DEF IInv, Sound
<1>2. /\ metric.TSnow \in Int /\ metric.TS0 \in Int /\ metric.T0 \in Int
      /\ metric.Tmin \in Int /\ metric.initialprebuftime \in Int /\ metric.stime \in Int
      /\ metric.Tmin <= now /\ metric.stime <= now
      /\ metric.initialprebuftime < 0 => metric.TS0 = 0
  BY <1>1 DEF Sound, Metric, NotAhead, Silent
<1>3. Least(list) \in Int
  BY DEF Least, Streams
<1>4. minbuffer \in Nat \ {0}
  BY PlayoutAssumption DEF IInv
<1>5. /\ a.TSlist = list /\ a.TSnow = Least(list) /\ a.Tmin = metric.Tmin
      /\ a.initialprebuftime = metric.initialprebuftime
      /\ a.stime = metric.stime
      /\ a.TS0 = IF metric.T0 < 0 THEN Least(list) ELSE metric.TS0
  BY <1>1 DEF Arrived, FirstPacket, Metric
<1>6. a.TS0 = metric.TS0
  <2>1. metric.T0 < 0 => metric.TS0 = 0
    BY <1>2 DEF IInv, Untouched
  <2> QED
    BY <1>5, <2>1
<1>7. a \in Metric
  <2>1. /\ now \in Int /\ Least(list) \in Int /\ list \in [Streams -> Int]
    BY <1>1, <1>3
  <2>2. [metric EXCEPT !.TSlist = list, !.TSnow = Least(list)] \in Metric
    BY <1>1, <2>1, Zenon DEF Metric
  <2> QED
    BY <2>1, <2>2 DEF Arrived, FirstPacket, Metric
<1>8. CASE Stalls(a)
  <2>1. /\ j.TSlist = list /\ j.TSnow = Least(list) /\ j.Tmin = -1
        /\ j.initialprebuftime = metric.initialprebuftime /\ j.TS0 = Least(list)
        /\ j.stime = metric.stime
    <3>1. j = Stall(a)
      BY <1>8 DEF Judged
    <3>2. a = [metric EXCEPT !.TSlist = list, !.TSnow = Least(list)]
          \/ a = [metric EXCEPT !.TSlist = list, !.TSnow = Least(list),
                                !.T0 = now, !.Tmin0 = now, !.TS0 = Least(list)]
      BY <1>1, <1>5 DEF Arrived, FirstPacket, Metric
    <3> QED
      BY <1>1, <1>5, <3>1, <3>2 DEF Stall, Metric
  <2>2. metric.Tmin >= 0 /\ ~end
    BY <1>2, <1>5, <1>8 DEF Stalls
  <2> HIDE DEF j
  <2>3. ~Starts(list, end)
    BY <1>3, <1>4, <2>1, <2>2 DEF Starts, j
  <2>4. CheckedMetric(list, end) = j /\ CheckedMinbuffer(list, end) = minbuffer
    BY <2>3 DEF CheckedMetric, CheckedMinbuffer, j
  <2>5. metric.initialprebuftime < 0 => Least(list) = metric.TS0
    BY <1>2, <2>2 DEF NotYet, IInv
  <2> QED
    BY <1>2, <1>3, <1>4, <2>1, <2>2, <2>4, <2>5 DEF Paused
<1>9. CASE ~Stalls(a)
  <2>1. j = a
    BY <1>9 DEF Judged
  <2>2. metric.initialprebuftime < 0 => metric.Tmin < 0
    <3> SUFFICES ASSUME metric.initialprebuftime < 0, metric.Tmin >= 0 PROVE FALSE
      BY <1>2
    <3>1. metric.T0 < 0
      BY <1>1, <1>2 DEF NotYet
    <3>2. a.TSnow = 0 /\ a.TS0 = 0
      BY <1>2, <1>5, <1>6, <3>1
    <3> QED
      BY <1>2, <1>5, <1>9, <3>2, <1>1 DEF Stalls
  <2>3. CASE Starts(list, end)
    <3>1. /\ a.Tmin < 0
          /\ a.TSnow - a.TS0 >= minbuffer \/ end
      BY <2>1, <2>3 DEF Starts
    <3>2. CheckedMetric(list, end) = StartPlayout(a)
      BY <2>1, <2>3 DEF CheckedMetric
    <3>3. /\ StartPlayout(a).TSlist = list /\ StartPlayout(a).TSnow = Least(list)
          /\ StartPlayout(a).TS0 = metric.TS0 /\ StartPlayout(a).Tmin = now
          /\ StartPlayout(a).initialprebuftime \in Nat
      <4>1. a \in Metric
        BY <1>7
      <4> HIDE DEF a
      <4> QED
        BY <1>1, <1>2, <1>5, <1>6, <4>1 DEF StartPlayout, Metric
    <3>4. CheckedMinbuffer(list, end)
              = IF metric.initialprebuftime < 0 THEN MinStallbuffer ELSE minbuffer
      BY <1>5, <2>1, <2>3 DEF CheckedMinbuffer
    <3> HIDE DEF a
    <3> QED
      BY <1>1, <1>2, <1>3, <1>5, <1>6, <3>1, <3>2, <3>3, <3>4 DEF Paused
  <2>4. CASE ~Starts(list, end)
    <3>1. CheckedMetric(list, end) = a /\ CheckedMinbuffer(list, end) = minbuffer
      BY <2>1, <2>4 DEF CheckedMetric, CheckedMinbuffer
    <3>2. a.Tmin >= 0 \/ (a.TSnow - a.TS0 < minbuffer /\ ~end)
      BY <1>2, <1>3, <1>4, <1>5, <1>6, <2>1, <2>4 DEF Starts
    <3> HIDE DEF a
    <3> QED
      BY <1>2, <1>3, <1>4, <1>5, <1>6, <2>2, <3>1, <3>2 DEF Paused
  <2> QED
    BY <2>3, <2>4
<1> QED
  BY <1>8, <1>9

\* A packet of a stream that was not dry.
LEMMA FrameFits ==
    ASSUME IInv, NEW i \in Streams, NEW ts, Frame(i, ts),
           NEW goal \in [Streams -> Int], NEW cap \in Int,
           NEW dry \in SUBSET Streams, NEW drier \in SUBSET Streams,
           i \notin dry, dry \subseteq drier,
           Fits(metric, now, minbuffer, goal, dry, cap),
           \A s, k \in Streams : k \in drier \/ goal[s] - metric'.TSlist[k] <= cap
    PROVE  Fits(metric', now', minbuffer', goal, drier, cap)
<1> DEFINE list == [metric.TSlist EXCEPT ![i] = ts]
           m == CheckedMetric(list, FALSE)
           b == CheckedMinbuffer(list, FALSE)
<1>1. metric \in Metric /\ now \in Nat /\ Sound(metric, now)
  BY DEF IInv, Sound
<1>2. /\ ts \in Nat /\ ts >= metric.TSlist[i] /\ now' = now
      /\ metric' = m /\ minbuffer' = b
  BY DEF Frame, Checkstall
<1>3. metric.TSlist \in [Streams -> Int] /\ metric.TS0 \in Int /\ metric.Tmin \in Int
  BY <1>1 DEF Metric
<1>4. /\ list \in [Streams -> Int]
      /\ \A k \in Streams : list[k] >= metric.TSlist[k] /\ (k # i => list[k] = metric.TSlist[k])
  BY <1>2, <1>3
<1>5. metric.T0 < 0 => Least(list) = 0
  BY <1>2, <1>3 DEF IInv, Untouched, Least, Streams
<1> HIDE DEF list
<1>6. Least(list) \in Int /\ \E k \in Streams : Least(list) = list[k]
  BY <1>4 DEF Least, Streams
<1>7. \A k \in Streams : Least(list) <= list[k]
  BY <1>4 DEF Least, Streams
<1>8. minbuffer \in Nat \ {0}
  BY PlayoutAssumption DEF IInv
<1>9. /\ m.TSlist = list /\ m.TSnow = Least(list)
      /\ \/ /\ Paused(metric) /\ Paused(m) /\ m.TS0 = metric.TS0 /\ b = minbuffer
         \/ /\ Paused(metric) /\ ~Paused(m) /\ m.TS0 = metric.TS0 /\ m.Tmin = now
            /\ m.TSnow - m.TS0 >= minbuffer
         \/ /\ ~Paused(metric) /\ ~Paused(m) /\ m.TS0 = metric.TS0 /\ m.Tmin = metric.Tmin
         \/ /\ ~Paused(metric) /\ Paused(m) /\ m.TS0 = m.TSnow /\ b = minbuffer
  BY <1>4, <1>5, CheckstallCases
<1> HIDE DEF m, b
<1>10. Fits(m, now, b, goal, drier, cap)
  <2>1. CASE Paused(metric) /\ Paused(m) /\ m.TS0 = metric.TS0 /\ b = minbuffer
    <3>1. CASE \E s \in dry : metric.TSlist[s] - metric.TS0 < minbuffer
      BY <1>4, <1>9, <2>1, <3>1 DEF Fits
    <3>2. CASE \A s \in Streams : goal[s] - metric.TS0 <= cap
      BY <2>1, <3>2 DEF Fits
    <3> QED
      BY <2>1, <3>1, <3>2 DEF Fits
  <2>2. CASE /\ Paused(metric) /\ ~Paused(m) /\ m.TS0 = metric.TS0 /\ m.Tmin = now
             /\ m.TSnow - m.TS0 >= minbuffer
    <3>1. ~\E s \in dry : metric.TSlist[s] - metric.TS0 < minbuffer
      BY <1>3, <1>4, <1>6, <1>7, <1>8, <1>9, <2>2
    <3>2. \A s \in Streams : goal[s] - metric.TS0 <= cap
      BY <2>2, <3>1 DEF Fits
    <3> QED
      BY <1>1, <1>3, <2>2, <3>2 DEF Fits
  <2>3. CASE ~Paused(metric) /\ ~Paused(m) /\ m.TS0 = metric.TS0 /\ m.Tmin = metric.Tmin
    BY <2>3 DEF Fits
  <2>4. CASE ~Paused(metric) /\ Paused(m) /\ m.TS0 = m.TSnow /\ b = minbuffer
    <3>1. PICK k \in Streams : Least(list) = list[k]
      BY <1>6
    <3>2. m.TS0 = list[k] /\ m.TSlist[k] = list[k] /\ list[k] \in Int
      BY <1>4, <1>9, <2>4, <3>1
    <3>3. CASE k \in drier
      <4>1. m.TSlist[k] - m.TS0 < b
        BY <1>8, <2>4, <3>2
      <4> QED
        BY <2>4, <3>3, <4>1 DEF Fits
    <3>4. CASE k \notin drier
      <4>1. \A s \in Streams : goal[s] - m.TS0 <= cap
        BY <1>2, <1>9, <3>2, <3>4
      <4> QED
        BY <2>4, <4>1 DEF Fits
    <3> QED
      BY <3>3, <3>4
  <2> QED
    BY <1>9, <2>1, <2>2, <2>3, <2>4
<1> QED
  BY <1>2, <1>10

\* Fewer bytes to come, later, do not overfill the buffer.
LEMMA FitsLess ==
    ASSUME NEW m \in Metric, NEW t \in Int, NEW later \in Int, later >= t, NEW buffer,
           NEW goal \in [Streams -> Int], NEW less \in [Streams -> Int], NEW cap \in Int,
           NEW dry \in SUBSET Streams, NEW drier \in SUBSET Streams, dry \subseteq drier,
           \A s \in Streams : less[s] <= goal[s],
           Fits(m, t, buffer, goal, dry, cap)
    PROVE  Fits(m, later, buffer, less, drier, cap)
<1>1. m.TS0 \in Int /\ m.Tmin \in Int
  BY DEF Metric
<1>2. CASE Paused(m)
  BY <1>1, <1>2 DEF Fits
<1>3. CASE ~Paused(m)
  BY <1>1, <1>3 DEF Fits
<1> QED
  BY <1>2, <1>3

\* What checkstall leaves is what a paused playout waits for.
LEMMA BufferingNext == IInv /\ Buffering /\ [PlayoutNext]_playoutVars => Buffering'
<1> SUFFICES ASSUME IInv, Buffering, [PlayoutNext]_playoutVars PROVE Buffering'
  OBVIOUS
<1>0. metric \in Metric /\ now \in Nat /\ metric.TSlist \in [Streams -> Int]
  BY DEF IInv, Sound, Metric
<1>1. ASSUME NEW list \in [Streams -> Int], NEW end \in BOOLEAN, Checkstall(list, end),
             \A k \in Streams : list[k] >= metric.TSlist[k],
             metric.T0 < 0 => Least(list) = 0, end => metric.Tmin < 0
      PROVE  Buffering'
  <2> DEFINE m == CheckedMetric(list, end)
             b == CheckedMinbuffer(list, end)
  <2>1. metric' = m /\ minbuffer' = b
    BY <1>1 DEF Checkstall
  <2>2. /\ m.TSlist = list /\ m.TSnow = Least(list)
        /\ \/ /\ Paused(metric) /\ Paused(m) /\ m.TS0 = metric.TS0 /\ b = minbuffer
              /\ m.TSnow - m.TS0 < b /\ m.initialprebuftime = metric.initialprebuftime
           \/ /\ Paused(metric) /\ ~Paused(m)
              /\ b = IF metric.initialprebuftime < 0 THEN MinStallbuffer ELSE minbuffer
           \/ ~Paused(metric) /\ ~Paused(m) /\ b = minbuffer
           \/ /\ ~Paused(metric) /\ Paused(m) /\ m.TS0 = m.TSnow /\ b = minbuffer
              /\ m.initialprebuftime = metric.initialprebuftime
    BY <1>1, CheckstallCases
  <2>3. Least(list) \in Int /\ minbuffer \in Nat \ {0} /\ metric.initialprebuftime \in Int
    BY <1>0, PlayoutAssumption DEF Least, Streams, IInv, Metric
  <2> HIDE DEF m, b
  <2>4. m.TSnow = Least(m.TSlist) /\ (Paused(m) => m.TSnow - m.TS0 < b)
    BY <2>2, <2>3
  <2>5. m.initialprebuftime >= 0 => b = MinStallbuffer
    BY <2>2, <2>3 DEF Buffering, Paused
  <2> QED
    BY <2>1, <2>4, <2>5 DEF Buffering
<1>2. ASSUME NEW i \in Streams, Frame(i, metric'.TSlist[i]) PROVE Buffering'
  <2> DEFINE ts == metric'.TSlist[i]
             list == [metric.TSlist EXCEPT ![i] = ts]
  <2>1. ts \in Nat /\ ts >= metric.TSlist[i] /\ Checkstall(list, FALSE)
    BY <1>2 DEF Frame
  <2> HIDE DEF ts
  <2>2. list \in [Streams -> Int] /\ \A k \in Streams : list[k] >= metric.TSlist[k]
    BY <1>0, <2>1
  <2>3. metric.T0 < 0 => Least(list) = 0
    BY <1>0, <1>2, <2>1 DEF IInv, Untouched, Least, Streams
  <2> HIDE DEF list
  <2> QED
    BY <1>1, <2>1, <2>2, <2>3
<1>3. CASE EndOfVideo
  <2>1. metric.Tmin < 0 /\ Checkstall(metric.TSlist, TRUE)
    BY <1>3 DEF EndOfVideo
  <2>2. metric.T0 < 0 => Least(metric.TSlist) = 0
    BY DEF IInv, Untouched, Least
  <2>3. TRUE \in BOOLEAN /\ \A k \in Streams : metric.TSlist[k] >= metric.TSlist[k]
    BY <1>0
  <2> QED
    BY <1>0, <1>1, <2>1, <2>2, <2>3
<1>4. ASSUME NEW fail \in BOOLEAN, NewAttempt(fail) PROVE Buffering'
  <2>1. metric' = RestartMetrics(metric, now, fail) /\ minbuffer' = minbuffer
    BY <1>4 DEF NewAttempt
  <2>2. /\ metric'.TSlist = [i \in Streams |-> 0] /\ metric'.TSnow = 0 /\ metric'.TS0 = 0
        /\ metric'.initialprebuftime = -1
    BY <1>0, <2>1 DEF RestartMetrics, Metric
  <2>3. minbuffer > 0
    BY PlayoutAssumption DEF IInv
  <2> QED
    BY <2>1, <2>2, <2>3 DEF Buffering, Least, Streams
<1>5. CASE TimePasses(now' - now) \/ ReportCode \/ UNCHANGED playoutVars
  BY <1>5 DEF TimePasses, ReportCode, playoutVars, Buffering
<1> QED
  BY <1>2, <1>3, <1>4, <1>5 DEF PlayoutNext

LEMMA BufferingInit == PlayoutInit => Buffering
<1> SUFFICES ASSUME PlayoutInit PROVE Buffering
  OBVIOUS
<1>1. /\ metric.TSlist = [i \in Streams |-> 0] /\ metric.TSnow = 0 /\ metric.TS0 = 0
      /\ metric.initialprebuftime = -1 /\ minbuffer = MinPrebuffer
  BY DEF PlayoutInit, InitMetrics
<1> QED
  BY <1>1, PlayoutAssumption DEF Buffering, Least, Streams

\* load_streams asks for the next chunk of every stream that is not dry and has room: a
\* large one when it fits into the buffer, a small one otherwise.
Refilled(goal, later, length, dry, B, CM, CF) ==
    \A s \in Streams :
        LET ahead == PlayoutBuffer(metric.TSlist[s], later)
            full  == metric.TSlist[s] + (IF B - ahead >= CM THEN CM ELSE CF)
        IN  goal[s] = IF s \in dry \/ ahead > B THEN metric.TSlist[s]
                      ELSE IF full < length[s] THEN full ELSE length[s]

\* Streams that are not dry
\* are equally far when it does.  A playout that has not started received nothing or a
\* large chunk, and waits for no more than that; one that stalled waits for no more than a
\* small chunk.
LEMMA RefillFits ==
    ASSUME IInv, Buffering,
           NEW B \in Nat, NEW CM \in Nat \ {0}, NEW CF \in Nat \ {0}, CM <= B,
           MinPrebuffer <= CM, MinStallbuffer <= CF,
           NEW length \in [Streams -> Nat], NEW goal \in [Streams -> Int],
           NEW later \in Int, later >= now, NEW dry \in SUBSET Streams,
           Fits(metric, now, minbuffer, metric.TSlist, dry, B + CF),
           \A s, k \in Streams : k \in dry \/ metric.TSlist[s] <= metric.TSlist[k],
           ~Started =>
               \A s \in Streams : s \in dry \/ metric.TSlist[s] = 0 \/ metric.TSlist[s] >= CM,
           \A s \in Streams : s \notin dry => metric.TSlist[s] < length[s],
           Refilled(goal, later, length, dry, B, CM, CF)
    PROVE  /\ Fits(metric, later, minbuffer, goal, dry, B + CF)
           /\ \A s, k \in Streams :
                  k \in dry \/ goal[k] = length[k] \/ goal[s] <= goal[k]
           /\ \A s, k \in Streams : k \in dry \/ goal[s] - metric.TSlist[k] <= B + CF
<1> DEFINE list == metric.TSlist
           Ahead(s) == PlayoutBuffer(list[s], later)
           Chunk(s) == IF B - Ahead(s) >= CM THEN CM ELSE CF
<1>1. /\ metric \in Metric /\ now \in Nat /\ list \in [Streams -> Int]
      /\ metric.TS0 \in Int /\ metric.Tmin \in Int /\ metric.TSnow \in Int
      /\ metric.initialprebuftime \in Int /\ metric.T0 \in Int
  BY DEF IInv, Sound, Metric
<1>2. \A s \in Streams : list[s] \in Int /\ length[s] \in Nat /\ goal[s] \in Int
  BY <1>1
<1>3. \A s \in Streams : Ahead(s) \in Int
  BY <1>1, <1>2 DEF PlayoutBuffer
<1>4. \A s \in Streams : Chunk(s) \in {CM, CF}
  OBVIOUS
<1>5. \A s \in Streams :
          /\ s \in dry \/ Ahead(s) > B => goal[s] = list[s]
          /\ s \notin dry /\ Ahead(s) <= B =>
                 /\ goal[s] <= list[s] + Chunk(s) /\ goal[s] <= length[s]
                 /\ goal[s] = list[s] + Chunk(s) \/ goal[s] = length[s]
  BY <1>1, <1>2, <1>3, <1>4 DEF Refilled
<1>6. \A s, k \in Streams : k \in dry \/ list[s] <= list[k]
  OBVIOUS
<1>7. \A s \in Streams : s \notin dry => list[s] < length[s]
  OBVIOUS
<1>8. \A s \in Streams : goal[s] >= list[s]
  BY <1>2, <1>3, <1>4, <1>5, <1>7
<1>9. \A s, k \in Streams : list[s] = list[k] => Ahead(s) = Ahead(k) /\ Chunk(s) = Chunk(k)
  BY DEF PlayoutBuffer
<1> HIDE DEF Chunk
<1>10. \A s, k \in Streams : k \in dry \/ goal[k] = length[k] \/ goal[s] <= goal[k]
  <2> SUFFICES ASSUME NEW s \in Streams, NEW k \in Streams, k \notin dry, goal[k] # length[k]
               PROVE  goal[s] <= goal[k]
    OBVIOUS
  <2>1. CASE s \in dry
    BY <1>2, <1>5, <1>6, <1>8, <2>1
  <2>2. CASE s \notin dry
    <3>1. list[s] = list[k]
      BY <1>2, <1>6, <2>2
    <3>2. Ahead(s) = Ahead(k) /\ Chunk(s) = Chunk(k)
      BY <1>9, <3>1
    <3> QED
      BY <1>2, <1>3, <1>4, <1>5, <2>2, <3>1, <3>2
  <2> QED
    BY <2>1, <2>2
<1>11. \A s, k \in Streams : k \in dry \/ goal[s] - list[k] <= B + CF
  <2> SUFFICES ASSUME NEW s \in Streams, NEW k \in Streams, k \notin dry
               PROVE  goal[s] - list[k] <= B + CF
    OBVIOUS
  <2>1. goal[s] <= list[s] + CM \/ goal[s] <= list[s] + CF
    <3>1. goal[s] = list[s] \/ goal[s] <= list[s] + Chunk(s)
      BY <1>3, <1>5
    <3>2. Chunk(s) \in {CM, CF}
      BY <1>4
    <3> HIDE DEF list
    <3> QED
      BY <1>2, <3>1, <3>2
  <2>2. list[s] <= list[k]
    BY <1>6
  <2> HIDE DEF list
  <2> QED
    BY <1>2, <2>1, <2>2
<1>12. CASE ~Paused(metric)
  <2>1. \A s \in Streams : list[s] - metric.TS0 - (now - metric.Tmin) <= B + CF
    BY <1>12 DEF Fits
  <2>2. metric.Tmin >= 0
    BY <1>1, <1>12 DEF Paused
  <2>3. \A s \in Streams : Ahead(s) = (list[s] - metric.TS0) - (later - metric.Tmin)
    BY <1>1, <2>2 DEF PlayoutBuffer
  <2>4. ASSUME NEW s \in Streams
        PROVE  goal[s] - metric.TS0 - (later - metric.Tmin) <= B + CF
    <3>1. CASE s \in dry \/ Ahead(s) > B
      BY <1>1, <1>2, <1>5, <2>1, <3>1
    <3>2. CASE s \notin dry /\ Ahead(s) <= B
      <4>1. Chunk(s) <= B - Ahead(s) \/ Chunk(s) = CF
        BY <1>3 DEF Chunk
      <4>2. goal[s] <= list[s] + Chunk(s) /\ Chunk(s) \in Int
        BY <1>4, <1>5, <3>2
      <4> HIDE DEF Ahead
      <4> QED
        BY <1>1, <1>2, <1>3, <2>3, <3>2, <4>1, <4>2
    <3> QED
      BY <1>3, <3>1, <3>2
  <2>5. Fits(metric, later, minbuffer, goal, dry, B + CF)
    BY <1>12, <2>4 DEF Fits
  <2> QED
    BY <1>10, <1>11, <2>5
<1>13. CASE Paused(metric)
  <2>1. PICK k \in Streams : Least(list) = list[k]
    BY DEF Least, Streams
  <2>2. list[k] - metric.TS0 < minbuffer
    BY <1>13, <2>1 DEF Buffering
  <2>3. CASE k \in dry
    BY <1>10, <1>11, <1>13, <2>2, <2>3 DEF Fits
  <2>4. CASE k \notin dry
    <3>1. \A s \in Streams : list[s] = list[k]
      <4>1. \A s \in Streams : list[s] >= Least(list)
        BY <1>2 DEF Least, Streams
      <4> QED
        BY <1>2, <1>6, <2>1, <2>4, <4>1
    <3>2. ~Started /\ metric.Tmin >= 0 => list[k] = 0 /\ metric.TS0 = 0 /\ metric.Tmin <= now
      <4>1. metric.Tmin <= now
        BY DEF IInv, Sound, NotAhead
      <4>2. ~Started /\ metric.Tmin >= 0 => metric.T0 < 0
        BY <1>1 DEF IInv, NotYet, Started
      <4>3. metric.T0 < 0 => list[k] = 0
        BY DEF IInv, Untouched, Streams
      <4>4. ~Started => metric.TS0 = 0
        BY <1>1 DEF IInv, Sound, Silent, Started
      <4> QED
        BY <4>1, <4>2, <4>3, <4>4
    <3>3. \A s \in Streams : Ahead(s) <= 0
      <4>1. CASE metric.Tmin < 0
        BY <4>1 DEF PlayoutBuffer
      <4>2. CASE metric.Tmin >= 0
        BY <1>1, <1>13, <3>1, <3>2, <4>2 DEF Paused, Started, PlayoutBuffer
      <4> QED
        BY <1>1, <4>1, <4>2
    <3>4. \A s \in Streams : goal[s] <= list[k] + CM
      <4> SUFFICES ASSUME NEW s \in Streams PROVE goal[s] <= list[k] + CM
        OBVIOUS
      <4>1. Chunk(s) = CM
        BY <1>3, <3>3 DEF Chunk
      <4> QED
        BY <1>2, <1>3, <1>5, <3>1, <4>1
    <3>5. list[k] + CM - metric.TS0 <= B + CF
      <4>1. minbuffer \in {MinPrebuffer, MinStallbuffer}
        BY DEF IInv
      <4>2. CASE minbuffer = MinStallbuffer
        BY <1>1, <1>2, <2>2, <4>2, PlayoutAssumption
      <4>3. CASE minbuffer # MinStallbuffer
        <5>1. minbuffer = MinPrebuffer /\ metric.initialprebuftime < 0
          BY <1>1, <4>1, <4>3 DEF Buffering
        <5>2. metric.TS0 = 0
          BY <5>1 DEF IInv, Sound, Silent
        <5>3. list[k] = 0 \/ list[k] >= CM
          BY <1>1, <2>4, <5>1 DEF Started
        <5> QED
          BY <1>2, <2>2, <5>1, <5>2, <5>3, PlayoutAssumption
      <4> QED
        BY <4>2, <4>3
    <3>6. \A s \in Streams : goal[s] - metric.TS0 <= B + CF
      BY <1>1, <1>2, <3>4, <3>5
    <3>7. Fits(metric, later, minbuffer, goal, dry, B + CF)
      BY <1>13, <3>6 DEF Fits
    <3> QED
      BY <1>10, <1>11, <3>7
  <2> QED
    BY <2>3, <2>4
<1> QED
  BY <1>12, <1>13

-----------------------------------------------------------------------------
(* Ranges of bytes, packets of p bytes, and the timestamps they hold. *)

LEMMA ProductQuotient ==
    ASSUME NEW p \in Nat, NEW q \in Nat, NEW r \in Nat, r < p
    PROVE  (p * q + r) \div p = q
<1> DEFINE x == p * q + r
           d == x \div p
           e == x % p
<1>1. p > 0 /\ p * q \in Nat
  OBVIOUS
<1>2. x \in Nat
  BY <1>1
<1> HIDE DEF x
<1>3. d \in Nat /\ e \in Nat /\ e < p /\ x = p * d + e
  BY <1>1, <1>2
<1> HIDE DEF d, e
<1>4. \A a, b \in Nat : a < b => p * a + p <= p * b
  <2> SUFFICES ASSUME NEW a \in Nat, NEW b \in Nat, a < b PROVE p * a + p <= p * b
    OBVIOUS
  <2> DEFINE c == b - (a + 1)
  <2>1. c \in Nat /\ b = a + 1 + c
    OBVIOUS
  <2> HIDE DEF c
  <2>2. p * (a + 1 + c) = p * a + p + p * c /\ p * c \in Nat /\ p * a \in Nat
    BY <2>1
  <2> QED
    BY <2>1, <2>2
<1>5. p * q + r = p * d + e /\ p * d \in Nat
  BY <1>3 DEF x
<1>6. ~(d < q)
  BY <1>1, <1>3, <1>4, <1>5
<1>7. ~(q < d)
  BY <1>1, <1>3, <1>4, <1>5
<1> QED
  BY <1>3, <1>6, <1>7 DEF d

\* A range that ends with the first byte of a packet, or with the file, holds the packets
\* before that byte.
LEMMA PacketsOfRange ==
    ASSUME NEW p \in Nat \ {0, 1}, NEW a \in Nat, NEW l \in Nat
    PROVE  (IF p * a < p * l THEN p * a + 1 ELSE p * l) \div p = IF a < l THEN a ELSE l
<1>1. (p * a + 1) \div p = a
  BY ProductQuotient
<1>2. (p * l) \div p = l
  <2>1. (p * l + 0) \div p = l
    BY ProductQuotient
  <2>2. p * l + 0 = p * l
    OBVIOUS
  <2> QED
    BY <2>1, <2>2
<1>3. (p * a < p * l) = (a < l)
  OBVIOUS
<1> QED
  BY <1>1, <1>2, <1>3

\* More bytes hold no fewer packets.
LEMMA PacketsGrow ==
    ASSUME NEW p \in Nat \ {0}, NEW x \in Nat, NEW y \in Nat, x <= y
    PROVE  x \div p <= y \div p /\ x \div p \in Nat
OBVIOUS

\* A packet that ends in a file of l packets is one of them.
LEMMA PacketInFile ==
    ASSUME NEW p \in Nat \ {0}, NEW n \in Nat, NEW l \in Nat, n * p <= p * l
    PROVE  n <= l
OBVIOUS

\* The timestamp of track k after n packets of its file, which holds both tracks or not.
Reached(both, length, k, n) ==
    IF ~both THEN n
    ELSE IF n > 2 * Least(length) THEN length[k]
    ELSE IF k = 0 THEN (n + 1) \div 2 ELSE n \div 2

\* The tracks of a file that holds both end at most one packet apart.
EndTogether(length) == length[0] <= length[1] + 1 /\ length[1] <= length[0] + 1

Packets(both, length, k) == IF both THEN length[0] + length[1] ELSE length[k]

\* The timestamp of a track after the chunks of u units of playing time.
LEMMA ReachedChunks ==
    ASSUME NEW both \in BOOLEAN, NEW length \in [Streams -> Nat], NEW k \in Streams,
           both => EndTogether(length), NEW u \in Nat, NEW a \in Nat,
           a = IF both THEN 2 * u ELSE u
    PROVE  Reached(both, length, k, IF a < Packets(both, length, k) THEN a
                                    ELSE Packets(both, length, k))
               = IF u < length[k] THEN u ELSE length[k]
<1>1. length[0] \in Nat /\ length[1] \in Nat /\ length[k] \in Nat
  BY DEF Streams
<1>2. CASE ~both
  BY <1>1, <1>2 DEF Reached, Packets
<1>3. CASE both
  <2>1. (2 * u) \div 2 = u /\ (2 * u + 1) \div 2 = u
    OBVIOUS
  <2>2. a = 2 * u
    BY <1>3
  <2>3. CASE a < length[0] + length[1]
    <3>1. ~(2 * u > 2 * Least(length)) /\ u <= length[k]
      BY <1>1, <1>3, <2>2, <2>3 DEF Least, EndTogether, Streams
    <3> QED
      BY <1>1, <1>3, <2>1, <2>2, <2>3, <3>1 DEF Reached, Packets
  <2>4. CASE ~(a < length[0] + length[1])
    <3>1. u >= length[k]
      BY <1>1, <1>3, <2>2, <2>4 DEF EndTogether, Streams
    <3>2. CASE length[0] + length[1] > 2 * Least(length)
      BY <1>1, <1>3, <2>4, <3>1, <3>2 DEF Reached, Packets
    <3>3. CASE ~(length[0] + length[1] > 2 * Least(length))
      <4>1. length[0] = length[1] /\ length[k] = length[0]
        BY <1>1, <3>3 DEF Least, Streams
      <4>2. length[0] + length[1] = 2 * length[k]
        BY <1>1, <4>1
      <4>3. (2 * length[k]) \div 2 = length[k] /\ (2 * length[k] + 1) \div 2 = length[k]
        BY <1>1
      <4> QED
        BY <1>1, <1>3, <2>4, <3>1, <3>3, <4>2, <4>3 DEF Reached, Packets
    <3> QED
      BY <3>2, <3>3
  <2> QED
    BY <2>3, <2>4
<1> QED
  BY <1>2, <1>3

\* More packets reach no less far.
LEMMA ReachedGrows ==
    ASSUME NEW both \in BOOLEAN, NEW length \in [Streams -> Nat], NEW k \in Streams,
           both => EndTogether(length), NEW n \in Nat, NEW m \in Nat, n <= m
    PROVE  Reached(both, length, k, n) <= Reached(both, length, k, m)
<1>1. length[0] \in Nat /\ length[1] \in Nat /\ length[k] \in Nat
  BY DEF Streams
<1>2. Least(length) \in Nat /\ length[k] >= Least(length)
  BY <1>1 DEF Least, Streams
<1>3. n <= 2 * Least(length) => (n + 1) \div 2 <= length[k] /\ n \div 2 <= length[k]
  BY <1>1, <1>2
<1>4. (n + 1) \div 2 <= (m + 1) \div 2 /\ n \div 2 <= m \div 2
  OBVIOUS
<1> QED
  BY <1>1, <1>2, <1>3, <1>4 DEF Reached

\* The nth packet moves the track that it is of, and no other.
LEMMA ReachedPacket ==
    ASSUME NEW both \in BOOLEAN, NEW length \in [Streams -> Nat],
           NEW t \in Streams, NEW ts, NEW n \in Nat \ {0}, n <= Packets(both, length, t),
           both => /\ EndTogether(length)
                   /\ t = IF n <= 2 * Least(length) THEN (n + 1) % 2
                          ELSE IF length[0] > length[1] THEN 0 ELSE 1,
           ts = IF ~both THEN n
                ELSE IF n <= 2 * Least(length) THEN (n + 1) \div 2 ELSE n - Least(length)
    PROVE  /\ Reached(both, length, t, n) = ts
           /\ Reached(both, length, t, n - 1) < length[t]
           /\ both => \A k \in Streams \ {t} :
                 Reached(both, length, k, n) = Reached(both, length, k, n - 1)
<1>1. length[0] \in Nat /\ length[1] \in Nat /\ length[t] \in Nat
  BY DEF Streams
<1>2. CASE ~both
  BY <1>1, <1>2 DEF Reached, Packets
<1>3. CASE both /\ n <= 2 * Least(length)
  <2>1. Least(length) \in Nat /\ \A k \in Streams : length[k] >= Least(length)
    BY <1>1 DEF Least, Streams
  <2>2. (n - 1) + 1 = n /\ n - 1 \in Nat /\ ~(n > 2 * Least(length)) /\ ~(n - 1 > 2 * Least(length))
    BY <1>3, <2>1
  <2>3. t = (n + 1) % 2 /\ ts = (n + 1) \div 2
    BY <1>3
  <2>4. CASE t = 0
    <3>1. (n + 1) \div 2 <= Least(length) /\ n \div 2 < (n + 1) \div 2
          /\ n \div 2 = (n - 1) \div 2
      BY <1>3, <2>1, <2>3, <2>4
    <3> QED
      BY <1>1, <1>3, <2>1, <2>2, <2>3, <2>4, <3>1 DEF Reached, Streams
  <2>5. CASE t = 1
    <3>1. n \div 2 <= Least(length) /\ (n - 1) \div 2 < n \div 2 /\ n \div 2 = (n + 1) \div 2
      BY <1>3, <2>1, <2>3, <2>5
    <3> QED
      BY <1>1, <1>3, <2>1, <2>2, <2>3, <2>5, <3>1 DEF Reached, Streams
  <2> QED
    BY <2>4, <2>5 DEF Streams
<1>4. CASE both /\ n > 2 * Least(length)
  <2>1. t = (IF length[0] > length[1] THEN 0 ELSE 1) /\ ts = n - Least(length)
    BY <1>1, <1>4 DEF Least
  <2>2. /\ Least(length) \in Nat /\ n = 2 * Least(length) + 1 /\ length[t] = Least(length) + 1
        /\ \A k \in Streams \ {t} : length[k] = Least(length)
    BY <1>1, <1>4, <2>1 DEF Least, Packets, EndTogether, Streams
  <2>3. n - 1 = 2 * Least(length) /\ ~(n - 1 > 2 * Least(length)) /\ (n - 1) + 1 = n
        /\ (n - 1) \div 2 = Least(length) /\ n \div 2 = Least(length)
    BY <2>2
  <2> QED
    BY <1>4, <2>1, <2>2, <2>3 DEF Reached
<1> QED
  BY <1>1, <1>2, <1>3, <1>4 DEF Least
-----------------------------------------------------------------------------
(* The theorems. *)

\* The invariant of the playout holds for ever.
LEMMA Invariant == PlayoutSpec => []IInv
BY InitInvariant, NextInvariant, PTL DEF PlayoutSpec

\* The uint64_t subtractions TSnow - TS0 of checkstall and ts - TS0 of
\* get_curr_playoutbuf_len_for_ts never wrap, however packets, stalls and attempts
\* follow each other.
THEOREM TimestampsStayOrdered == PlayoutSpec => []TimestampsOrdered
BY Invariant, InvariantImplies, PTL

\* initialprebuftime, TS0 and totalstalltime account for all the time up to the last
\* start of the playout or the moment it ran dry: no stall is lost or counted twice.
THEOREM StallsAccounted == PlayoutSpec => []StallAccounting
BY Invariant, InvariantImplies, PTL

\* The reported stall time is never negative, and comes from counted stalls.
THEOREM StallsHaveBegun == PlayoutSpec => []StallsInThePast
BY Invariant, InvariantImplies, PTL
=============================================================================
