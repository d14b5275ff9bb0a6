------------------------ MODULE ECHDegradationProofs ------------------------
(***************************************************************************)
(* The degradation monitor's invariants and action properties, for every   *)
(* set of hosts, every threshold that meets ThresholdAssumption and every  *)
(* number of results.                                                      *)
(***************************************************************************)
EXTENDS ECHDegradationHistory, FiniteSetTheorems, TLAPS

(***************************************************************************)
(* Truncating division against a bound: the test that ShouldDisableECH     *)
(* makes (ech_retry_handler.cc:226-228) is a test of the exact rate.       *)
(***************************************************************************)
LEMMA DivisionBound ==
    ASSUME NEW a \in Nat, NEW b \in Nat \ {0}, NEW r \in Nat
    PROVE  a \div b < r <=> a < r * b
<1> DEFINE q == a \div b
<1>1. q \in Nat /\ b * q <= a /\ a < b * q + b
  OBVIOUS
<1>2. CASE q < r
  <2>1. PICK k \in Nat : r = q + 1 + k
    <3>1. r - q - 1 \in Nat /\ r = q + 1 + (r - q - 1)
      BY <1>1, <1>2
    <3> QED BY <3>1
  <2>2. r * b = b * q + b + k * b
    BY <1>1, <2>1
  <2>3. k * b >= 0
    OBVIOUS
  <2> QED BY <1>1, <1>2, <2>2, <2>3
<1>3. CASE ~(q < r)
  <2>1. PICK k \in Nat : q = r + k
    <3>1. q - r \in Nat /\ q = r + (q - r)
      BY <1>1, <1>3
    <3> QED BY <3>1
  <2>2. b * q = r * b + k * b
    BY <2>1
  <2>3. k * b >= 0
    OBVIOUS
  <2> QED BY <1>1, <1>3, <2>2, <2>3
<1> QED BY <1>2, <1>3

(***************************************************************************)
(* The rate rule without its division.                                     *)
(***************************************************************************)
LEMMA LowRateExact ==
    ASSUME NEW s \in HostStats
    PROVE  LowRate(s) <=> s.total >= MinAttempts /\ s.successes * 100 < MinRate * s.total
<1>1. s.total \in Nat /\ s.successes * 100 \in Nat /\ MinRate \in Nat /\ MinAttempts \in Nat \ {0}
  BY ThresholdAssumption DEF ThresholdAssumption, HostStats
<1>2. CASE s.total >= MinAttempts
  <2>1. s.total \in Nat \ {0}
    BY <1>1, <1>2
  <2>2. (s.successes * 100) \div s.total < MinRate <=> s.successes * 100 < MinRate * s.total
    BY <1>1, <2>1, DivisionBound
  <2> QED BY <1>2, <2>2 DEF LowRate
<1>3. CASE ~(s.total >= MinAttempts)
  BY <1>3 DEF LowRate
<1> QED BY <1>2, <1>3

-----------------------------------------------------------------------------
\* Recording a result leaves counters that are natural numbers.
LEMMA AfterResultType ==
    ASSUME NEW s \in HostStats, NEW success \in BOOLEAN
    PROVE  AfterResult(s, success) \in HostStats
BY DEF AfterResult, HostStats

\* So are those of a host without an entry.
LEMMA NoStatsType == NoStats \in HostStats
BY DEF NoStats, HostStats

\* Every operation of the monitor keeps them so.
LEMMA TypeStep == MonitorTypeOK /\ [MonitorNext]_stats => MonitorTypeOK'
<1> SUFFICES ASSUME MonitorTypeOK, [MonitorNext]_stats
             PROVE  MonitorTypeOK'
  OBVIOUS
<1>1. ASSUME NEW h \in Host, NEW success \in BOOLEAN, RecordResult(h, success)
      PROVE  MonitorTypeOK'
  <2>1. AfterResult(stats[h], success) \in HostStats
    BY AfterResultType DEF MonitorTypeOK
  <2> QED BY <1>1, <2>1 DEF RecordResult, MonitorTypeOK
<1>2. ASSUME NEW h \in Host, Reset(h)
      PROVE  MonitorTypeOK'
  BY <1>2, NoStatsType DEF Reset, MonitorTypeOK
<1>3. CASE ClearAll
  BY <1>3, NoStatsType DEF ClearAll, MonitorTypeOK
<1>4. CASE UNCHANGED stats
  BY <1>4 DEF MonitorTypeOK
<1> QED BY <1>1, <1>2, <1>3, <1>4 DEF MonitorNext

(***************************************************************************)
(* The counters are natural numbers in every reachable state.              *)
(***************************************************************************)
THEOREM MonitorTypeCorrect == MonitorSpec => []MonitorTypeOK
<1>1. MonitorInit => MonitorTypeOK
  BY NoStatsType DEF MonitorInit, MonitorTypeOK
<1> QED BY <1>1, TypeStep, PTL DEF MonitorSpec

(***************************************************************************)
(* No sequence of results, resets and network switches lets the three      *)
(* counters of ech_retry_handler.cc:250-255 contradict one another.        *)
(***************************************************************************)
THEOREM CountersAlwaysAgree == MonitorSpec => []CountersAgree
<1>1. MonitorInit => CountersAgree
  <2> SUFFICES ASSUME MonitorInit, NEW h \in Host
               PROVE  stats[h].consecutive_failures <= Failures(h)
    BY DEF CountersAgree
  <2>1. stats[h] = NoStats
    BY DEF MonitorInit
  <2> QED BY <2>1 DEF Failures, NoStats
<1>2. MonitorTypeOK /\ CountersAgree /\ [MonitorNext]_stats => CountersAgree'
  <2> SUFFICES ASSUME MonitorTypeOK, CountersAgree, [MonitorNext]_stats, NEW g \in Host
               PROVE  (stats[g].consecutive_failures <= Failures(g))'
    BY DEF CountersAgree
  <2>0. stats[g].consecutive_failures <= Failures(g)
    BY DEF CountersAgree
  <2>1. ASSUME NEW h \in Host, NEW success \in BOOLEAN, RecordResult(h, success)
        PROVE  (stats[g].consecutive_failures <= Failures(g))'
    <3>1. stats'[g] = IF g = h THEN AfterResult(stats[g], success) ELSE stats[g]
      BY <2>1 DEF RecordResult, MonitorTypeOK
    <3>2. stats[g] \in HostStats
      BY DEF MonitorTypeOK
    <3> QED BY <2>0, <3>1, <3>2 DEF AfterResult, Failures, HostStats
  <2>2. ASSUME NEW h \in Host, Reset(h)
        PROVE  (stats[g].consecutive_failures <= Failures(g))'
    <3>1. stats'[g] = IF g = h THEN NoStats ELSE stats[g]
      BY <2>2 DEF Reset, MonitorTypeOK
    <3> QED BY <2>0, <3>1 DEF NoStats, Failures
  <2>3. CASE ClearAll
    BY <2>3 DEF ClearAll, NoStats, Failures
  <2>4. CASE UNCHANGED stats
    BY <2>0, <2>4 DEF Failures
  <2> QED BY <2>1, <2>2, <2>3, <2>4 DEF MonitorNext
<1> QED BY <1>1, <1>2, MonitorTypeCorrect, PTL DEF MonitorSpec

-----------------------------------------------------------------------------
\* The two rules of ShouldDisableECH both rest on FailureLimit failures: a low
\* rate over MinAttempts results leaves room for no fewer.
LEMMA EvidenceFromCounters == MonitorTypeOK /\ CountersAgree => DisabledOnEvidence
<1> SUFFICES ASSUME MonitorTypeOK, CountersAgree, NEW h \in Host, ShouldDisableECH(h)
             PROVE  Failures(h) >= FailureLimit
  BY DEF DisabledOnEvidence
<1> DEFINE t == stats[h].total
           s == stats[h].successes
<1>1. stats[h] \in HostStats /\ t \in Nat /\ s \in Nat /\ stats[h].consecutive_failures \in Nat
  BY DEF MonitorTypeOK, HostStats
<1>2. CASE stats[h].consecutive_failures >= FailureLimit
  <2>1. stats[h].consecutive_failures <= Failures(h) /\ Failures(h) \in Int
    BY <1>1 DEF CountersAgree, Failures
  <2>2. FailureLimit \in Nat
    BY ThresholdAssumption DEF ThresholdAssumption
  <2> QED BY <1>1, <1>2, <2>1, <2>2
<1>3. CASE LowRate(stats[h])
  <2>1. t >= MinAttempts /\ s * 100 < MinRate * t
    BY <1>1, <1>3, LowRateExact
  <2>2. /\ MinRate \in 0..100 /\ MinAttempts \in Nat /\ FailureLimit \in Nat
        /\ 100 * FailureLimit <= (100 - MinRate) * MinAttempts
    BY ThresholdAssumption DEF ThresholdAssumption
  <2>3. PICK k \in Nat : t = MinAttempts + k
    <3>1. t - MinAttempts \in Nat /\ t = MinAttempts + (t - MinAttempts)
      BY <1>1, <2>1, <2>2
    <3> QED BY <3>1
  <2> DEFINE m == 100 - MinRate
  <2>4. m \in Nat /\ MinRate = 100 - m
    BY <2>2
  <2> HIDE DEF m
  <2>5. MinRate * t = 100 * t - m * t
    BY <1>1, <2>4
  <2>6. m * t = m * MinAttempts + m * k /\ m * k >= 0
    BY <2>2, <2>3, <2>4
  <2>7. 100 * FailureLimit <= m * MinAttempts
    BY <2>2, <2>4 DEF m
  <2>8. /\ m * t \in Int /\ m * MinAttempts \in Int /\ m * k \in Int /\ MinRate * t \in Int
    BY <1>1, <2>2, <2>3, <2>4
  <2>9. 100 * FailureLimit < 100 * (t - s)
    BY <1>1, <2>1, <2>2, <2>5, <2>6, <2>7, <2>8
  <2> QED BY <1>1, <2>2, <2>9 DEF Failures
<1> QED BY <1>2, <1>3 DEF ShouldDisableECH, Disable

(***************************************************************************)
(* A host is never disabled with less than FailureLimit failures, whatever *)
(* the thresholds, as long as ThresholdAssumption holds of them.           *)
(***************************************************************************)
THEOREM DisabledOnlyOnEvidence == MonitorSpec => []DisabledOnEvidence
BY MonitorTypeCorrect, CountersAlwaysAgree, EvidenceFromCounters, PTL

-----------------------------------------------------------------------------
\* A failure, one more attempt with the same successes, never lifts a low rate.
LEMMA MoreAttemptsLowerRate ==
    ASSUME NEW s \in HostStats, LowRate(s)
    PROVE  LowRate(AfterResult(s, FALSE))
<1>1. s.total >= MinAttempts /\ s.successes * 100 < MinRate * s.total
  BY LowRateExact
<1>2. AfterResult(s, FALSE) \in HostStats
  BY AfterResultType
<1>3. s.total \in Nat /\ s.successes \in Nat /\ MinRate \in Nat /\ MinAttempts \in Nat
  BY ThresholdAssumption DEF ThresholdAssumption, HostStats
<1>4. MinRate * (s.total + 1) = MinRate * s.total + MinRate
  BY <1>3
<1>5. s.total + 1 >= MinAttempts /\ s.successes * 100 < MinRate * (s.total + 1)
  BY <1>1, <1>3, <1>4
<1> QED BY <1>2, <1>5, LowRateExact DEF AfterResult

(***************************************************************************)
(* Once a host is disabled, another failure keeps it disabled: neither the *)
(* run of failures nor the truncated rate can recover by failing.          *)
(***************************************************************************)
THEOREM FailuresNeverReadmit == MonitorSpec => FailureNeverReadmits
<1>1. MonitorTypeOK /\ [MonitorNext]_stats =>
        [\A h \in Host :
           ShouldDisableECH(h) /\ RecordResult(h, FALSE) => ShouldDisableECH(h)']_stats
  <2> SUFFICES ASSUME MonitorTypeOK, NEW h \in Host,
                      ShouldDisableECH(h), RecordResult(h, FALSE)
               PROVE  ShouldDisableECH(h)'
    OBVIOUS
  <2>1. stats'[h] = AfterResult(stats[h], FALSE)
    BY DEF RecordResult, MonitorTypeOK
  <2>2. stats[h] \in HostStats
    BY DEF MonitorTypeOK
  <2>3. CASE stats[h].consecutive_failures >= FailureLimit
    <3>1. stats'[h].consecutive_failures >= FailureLimit
      BY <2>1, <2>2, <2>3, ThresholdAssumption
         DEF AfterResult, HostStats, ThresholdAssumption
    <3> QED BY <3>1 DEF ShouldDisableECH, Disable
  <2>4. CASE LowRate(stats[h])
    <3>1. LowRate(stats'[h])
      BY <2>1, <2>2, <2>4, MoreAttemptsLowerRate
    <3> QED BY <3>1 DEF ShouldDisableECH, Disable
  <2> QED BY <2>3, <2>4 DEF ShouldDisableECH, Disable
<1> QED BY <1>1, MonitorTypeCorrect, PTL DEF MonitorSpec, FailureNeverReadmits

\* A success never makes a rate low that the rule already applied to.
LEMMA SuccessRaisesTheRate ==
    ASSUME NEW s \in HostStats, s.total >= MinAttempts, ~LowRate(s)
    PROVE  ~LowRate(AfterResult(s, TRUE))
<1>1. s.total \in Nat /\ s.successes \in Nat /\ MinRate \in 0..100
  BY ThresholdAssumption DEF ThresholdAssumption, HostStats
<1>2. ~(s.successes * 100 < MinRate * s.total)
  BY LowRateExact
<1>3. MinRate * (s.total + 1) = MinRate * s.total + MinRate /\ MinRate * s.total \in Nat
  BY <1>1
<1>4. ~((s.successes + 1) * 100 < MinRate * (s.total + 1))
  BY <1>1, <1>2, <1>3
<1>5. AfterResult(s, TRUE) \in HostStats
  BY AfterResultType
<1> QED BY <1>4, <1>5, LowRateExact DEF AfterResult

(***************************************************************************)
(* A success disables a host only as the MinAttempts-th result, when the   *)
(* rate rule comes into force; no later success can.                       *)
(***************************************************************************)
THEOREM SuccessDisablesOnce == MonitorSpec => SuccessDisablesOnlyWhenTheRateFirstCounts
<1>1. MonitorTypeOK /\ [MonitorNext]_stats =>
        [\A h \in Host :
           /\ ~ShouldDisableECH(h)
           /\ RecordResult(h, TRUE)
           /\ ShouldDisableECH(h)'
           => stats[h].total + 1 = MinAttempts]_stats
  <2> SUFFICES ASSUME MonitorTypeOK, NEW h \in Host, ~ShouldDisableECH(h),
                      RecordResult(h, TRUE), ShouldDisableECH(h)'
               PROVE  stats[h].total + 1 = MinAttempts
    OBVIOUS
  <2>1. stats'[h] = AfterResult(stats[h], TRUE)
    BY DEF RecordResult, MonitorTypeOK
  <2>2. stats[h] \in HostStats /\ stats[h].total \in Nat
    BY DEF MonitorTypeOK, HostStats
  <2>3. FailureLimit \in Nat \ {0} /\ MinAttempts \in Nat
    BY ThresholdAssumption DEF ThresholdAssumption
  <2>4. ~(stats'[h].consecutive_failures >= FailureLimit)
    BY <2>1, <2>3 DEF AfterResult
  <2>5. LowRate(stats'[h])
    BY <2>4 DEF ShouldDisableECH, Disable
  <2>6. stats[h].total + 1 >= MinAttempts
    BY <2>1, <2>5 DEF LowRate, AfterResult
  <2>7. ~LowRate(stats[h])
    BY DEF ShouldDisableECH, Disable
  <2>8. ~(stats[h].total >= MinAttempts)
    BY <2>1, <2>2, <2>5, <2>7, SuccessRaisesTheRate
  <2> QED BY <2>2, <2>3, <2>6, <2>8
<1> QED BY <1>1, MonitorTypeCorrect, PTL
        DEF MonitorSpec, SuccessDisablesOnlyWhenTheRateFirstCounts

-----------------------------------------------------------------------------
\* What the counters s keep of the results r: their number, the successes among
\* them, and the length of the run of failures they end in.
Summarises(s, r) ==
    /\ s.total = Len(r)
    /\ s.successes = Successes(r)
    /\ s.consecutive_failures <= Len(r)
    /\ \A i \in 1..Len(r) : i > Len(r) - s.consecutive_failures => ~r[i]
    /\ s.consecutive_failures < Len(r) => r[Len(r) - s.consecutive_failures]

HistoryInv ==
    /\ MonitorTypeOK
    /\ results \in [Host -> Seq(BOOLEAN)]
    /\ \A h \in Host : Summarises(stats[h], results[h])

\* One more result.
LEMMA SuccessesOfAppend ==
    ASSUME NEW r \in Seq(BOOLEAN), NEW success \in BOOLEAN
    PROVE  Successes(Append(r, success)) = Successes(r) + IF success THEN 1 ELSE 0
<1> DEFINE S == {i \in DOMAIN r : r[i]}
           T == {i \in DOMAIN Append(r, success) : Append(r, success)[i]}
<1>1. /\ DOMAIN r = 1..Len(r) /\ DOMAIN Append(r, success) = 1..(Len(r) + 1)
      /\ Append(r, success)[Len(r) + 1] = success
      /\ \A i \in 1..Len(r) : Append(r, success)[i] = r[i]
      /\ Len(r) \in Nat
  OBVIOUS
<1>2. IsFiniteSet(S) /\ Cardinality(S) \in Nat
  <2>1. S \subseteq 1..Len(r) /\ IsFiniteSet(1..Len(r))
    BY <1>1, FS_Interval
  <2> QED BY <2>1, FS_Subset, FS_CardinalityType
<1>3. T = IF success THEN S \cup {Len(r) + 1} ELSE S
  BY <1>1
<1>4. Len(r) + 1 \notin S
  BY <1>1
<1>5. Cardinality(T) = Cardinality(S) + IF success THEN 1 ELSE 0
  <2> HIDE DEF S, T
  <2>1. CASE success
    <3>1. Cardinality(S \cup {Len(r) + 1}) = Cardinality(S) + 1
      BY <1>2, <1>4, FS_AddElement
    <3> QED BY <1>3, <2>1, <3>1
  <2>2. CASE ~success
    BY <1>2, <1>3, <2>2
  <2> QED BY <2>1, <2>2
<1> QED BY <1>5 DEF Successes

\* The counters summarise the results after one more as they did before.
LEMMA SummaryStep ==
    ASSUME NEW s \in HostStats, NEW r \in Seq(BOOLEAN), NEW success \in BOOLEAN,
           Summarises(s, r)
    PROVE  Summarises(AfterResult(s, success), Append(r, success))
<1> DEFINE q == Append(r, success)
           t == AfterResult(s, success)
<1>1. /\ Len(r) \in Nat /\ Len(q) = Len(r) + 1 /\ q[Len(r) + 1] = success
      /\ \A i \in 1..Len(r) : q[i] = r[i]
  OBVIOUS
<1>2. s.consecutive_failures \in Nat /\ s.total \in Nat /\ s.successes \in Nat
  BY DEF HostStats
<1>3. Successes(q) = Successes(r) + IF success THEN 1 ELSE 0
  BY SuccessesOfAppend
<1>4. t.total = Len(q)
  BY <1>1 DEF AfterResult, Summarises
<1>5. t.successes = Successes(q)
  BY <1>2, <1>3 DEF AfterResult, Summarises
<1>6. /\ t.consecutive_failures <= Len(q)
      /\ \A i \in 1..Len(q) : i > Len(q) - t.consecutive_failures => ~q[i]
      /\ t.consecutive_failures < Len(q) => q[Len(q) - t.consecutive_failures]
  <2> HIDE DEF q
  <2>1. CASE success
    <3>1. t.consecutive_failures = 0
      BY <2>1 DEF AfterResult
    <3> HIDE DEF t
    <3>2. Len(q) - t.consecutive_failures = Len(q) /\ Len(q) \in Nat
      BY <1>1, <3>1
    <3>3. q[Len(q)]
      BY <1>1, <2>1
    <3>4. \A i \in 1..Len(q) : ~(i > Len(q))
      BY <1>1
    <3> QED BY <3>1, <3>2, <3>3, <3>4
  <2>2. CASE ~success
    <3>1. t.consecutive_failures = s.consecutive_failures + 1
      BY <2>2 DEF AfterResult
    <3> HIDE DEF t
    <3>2. Len(q) - t.consecutive_failures = Len(r) - s.consecutive_failures
      BY <1>1, <1>2, <3>1
    <3>3. t.consecutive_failures <= Len(q)
      BY <1>1, <1>2, <3>1 DEF Summarises
    <3>4. ASSUME NEW i \in 1..Len(q), i > Len(q) - t.consecutive_failures PROVE ~q[i]
      BY <1>1, <1>2, <2>2, <3>2, <3>4 DEF Summarises
    <3>5. ASSUME t.consecutive_failures < Len(q) PROVE q[Len(q) - t.consecutive_failures]
      <4>1. Len(r) - s.consecutive_failures \in 1..Len(r)
        BY <1>1, <1>2, <3>1, <3>5
      <4>2. r[Len(r) - s.consecutive_failures]
        BY <1>1, <1>2, <3>1, <3>5 DEF Summarises
      <4> QED BY <1>1, <3>2, <4>1, <4>2
    <3> QED BY <3>3, <3>4, <3>5
  <2> QED BY <2>1, <2>2
<1> QED BY <1>4, <1>5, <1>6 DEF Summarises

\* A host without results.
LEMMA SummaryOfNothing == <<>> \in Seq(BOOLEAN) /\ Summarises(NoStats, <<>>)
<1>1. <<>> \in Seq(BOOLEAN) /\ Len(<<>>) = 0 /\ DOMAIN <<>> = {}
  OBVIOUS
<1>2. Successes(<<>>) = 0
  <2>1. {i \in DOMAIN <<>> : <<>>[i]} = {}
    BY <1>1
  <2> QED BY <2>1, FS_EmptySet DEF Successes
<1> QED BY <1>1, <1>2 DEF Summarises, NoStats

\* Every step keeps the counters a summary of the results.
LEMMA HistoryInvStep == HistoryInv /\ [Next]_vars => HistoryInv'
<1> SUFFICES ASSUME HistoryInv, [Next]_vars PROVE HistoryInv'
  OBVIOUS
<1>0. /\ stats \in [Host -> HostStats] /\ results \in [Host -> Seq(BOOLEAN)]
      /\ \A h \in Host : Summarises(stats[h], results[h])
  BY DEF HistoryInv, MonitorTypeOK
<1>1. ASSUME NEW h \in Host, NEW s \in HostStats, NEW r \in Seq(BOOLEAN), Summarises(s, r),
             stats' = [stats EXCEPT ![h] = s], results' = [results EXCEPT ![h] = r]
      PROVE  HistoryInv'
  <2>1. stats' \in [Host -> HostStats] /\ results' \in [Host -> Seq(BOOLEAN)]
    BY <1>0, <1>1
  <2>2. ASSUME NEW g \in Host PROVE Summarises(stats'[g], results'[g])
    <3>1. stats'[g] = (IF g = h THEN s ELSE stats[g]) /\ results'[g] = IF g = h THEN r ELSE results[g]
      BY <1>0, <1>1
    <3> QED BY <1>0, <1>1, <3>1
  <2> QED BY <2>1, <2>2 DEF HistoryInv, MonitorTypeOK, Summarises
<1>2. ASSUME NEW h \in Host, NEW success \in BOOLEAN, Record(h, success) PROVE HistoryInv'
  <2>1. Summarises(AfterResult(stats[h], success), Append(results[h], success))
    BY <1>0, SummaryStep
  <2>2. AfterResult(stats[h], success) \in HostStats /\ Append(results[h], success) \in Seq(BOOLEAN)
    BY <1>0, AfterResultType
  <2> QED BY <1>1, <1>2, <2>1, <2>2 DEF Record, RecordResult
<1>3. ASSUME NEW h \in Host, ResetHost(h) PROVE HistoryInv'
  BY <1>1, <1>3, SummaryOfNothing, NoStatsType DEF ResetHost, Reset
<1>4. CASE ClearHosts
  <2>1. stats' = [h \in Host |-> NoStats] /\ results' = [h \in Host |-> <<>>]
    BY <1>4 DEF ClearHosts, ClearAll
  <2>2. stats' \in [Host -> HostStats] /\ results' \in [Host -> Seq(BOOLEAN)]
    BY <2>1, SummaryOfNothing, NoStatsType
  <2>3. \A g \in Host : Summarises(stats'[g], results'[g])
    BY <2>1, SummaryOfNothing
  <2> QED BY <2>2, <2>3 DEF HistoryInv, MonitorTypeOK, Summarises
<1>5. CASE UNCHANGED vars
  BY <1>5 DEF vars, HistoryInv, MonitorTypeOK, Summarises
<1> QED BY <1>2, <1>3, <1>4, <1>5 DEF Next

(***************************************************************************)
(* The three counters are a faithful summary of the results recorded since *)
(* the last reset: the verdict they give is the verdict the results        *)
(* deserve, for any thresholds and any number of results                   *)
(* (ech_retry_handler.cc:221-229 and 249-255).                             *)
(***************************************************************************)
THEOREM VerdictIsDeserved == Spec => []VerdictMatchesResults
<1>1. Init => HistoryInv
  <2> SUFFICES ASSUME Init PROVE HistoryInv
    OBVIOUS
  <2>1. stats = [h \in Host |-> NoStats] /\ results = [h \in Host |-> <<>>]
    BY DEF Init, MonitorInit
  <2> QED BY <2>1, SummaryOfNothing, NoStatsType DEF HistoryInv, MonitorTypeOK
<1>2. HistoryInv => VerdictMatchesResults
  <2> SUFFICES ASSUME HistoryInv, NEW h \in Host
               PROVE  ShouldDisableECH(h) <=>
                        \/ EndsInFailures(results[h], FailureLimit)
                        \/ /\ Len(results[h]) >= MinAttempts
                           /\ 100 * Successes(results[h]) < MinRate * Len(results[h])
    BY DEF VerdictMatchesResults
  <2> DEFINE s == stats[h]
             r == results[h]
  <2>1. /\ s \in HostStats /\ r \in Seq(BOOLEAN) /\ Len(r) \in Nat /\ Summarises(s, r)
        /\ s.consecutive_failures \in Nat /\ s.successes \in Nat
    BY DEF HistoryInv, MonitorTypeOK, HostStats
  <2>2. FailureLimit \in Nat \ {0}
    BY ThresholdAssumption DEF ThresholdAssumption
  <2> HIDE DEF s, r
  <2>3. s.consecutive_failures >= FailureLimit <=> EndsInFailures(r, FailureLimit)
    <3>1. CASE s.consecutive_failures >= FailureLimit
      BY <2>1, <2>2, <3>1 DEF EndsInFailures, Summarises
    <3>2. CASE ~(s.consecutive_failures >= FailureLimit)
      <4>1. CASE s.consecutive_failures < Len(r)
        <5>1. r[Len(r) - s.consecutive_failures]
          BY <2>1, <4>1 DEF Summarises
        <5>2. Len(r) - s.consecutive_failures \in Len(r) - FailureLimit + 1 .. Len(r)
          BY <2>1, <2>2, <3>2
        <5> QED BY <3>2, <5>1, <5>2 DEF EndsInFailures
      <4>2. CASE ~(s.consecutive_failures < Len(r))
        BY <2>1, <2>2, <3>2, <4>2 DEF EndsInFailures, Summarises
      <4> QED BY <4>1, <4>2
    <3> QED BY <3>1, <3>2
  <2>4. LowRate(s) <=> Len(r) >= MinAttempts /\ 100 * Successes(r) < MinRate * Len(r)
    <3>1. s.total = Len(r) /\ s.successes = Successes(r)
      BY <2>1 DEF Summarises
    <3>2. s.successes * 100 = 100 * s.successes
      BY <2>1
    <3> QED BY <2>1, <3>1, <3>2, LowRateExact
  <2> QED BY <2>3, <2>4 DEF ShouldDisableECH, Disable, s, r
<1> QED BY <1>1, <1>2, HistoryInvStep, PTL DEF Spec

=============================================================================
