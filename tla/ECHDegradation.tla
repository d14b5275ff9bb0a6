--------------------------- MODULE ECHDegradation ---------------------------
(***************************************************************************)
(* ECHDegradationMonitor, ech_retry_handler.cc:188-260: per-host counters  *)
(* of ECH handshake results and the verdict that a host's ECH should be    *)
(* disabled.  Each member function holds lock_ throughout: one action.     *)
(*                                                                         *)
(* The map stats_ has an entry for a host only after a RecordResult, which *)
(* leaves total > 0; a host without an entry is a host whose counters are  *)
(* all zero.                                                               *)
(***************************************************************************)
EXTENDS Integers

CONSTANTS
    Host,
    FailureLimit,   \* 5: consecutive failures that disable a host
    MinAttempts,    \* 10: attempts before the success rate counts
    MinRate,        \* 30: the success rate, in percent, below which it does
    MaxTotal        \* bound on the results recorded for a host

\* The second line holds of the code's numbers (100 * 5 <= 70 * 10): the rate
\* rule never needs fewer failures than the consecutive rule.
ASSUME ThresholdAssumption ==
    /\ FailureLimit \in Nat \ {0} /\ MinAttempts \in Nat \ {0}
    /\ MinRate \in 0..100
    /\ 100 * FailureLimit <= (100 - MinRate) * MinAttempts
    /\ MaxTotal \in Nat

VARIABLE stats      \* stats_

HostStats == [total : Nat, successes : Nat, consecutive_failures : Nat]

NoStats == [total |-> 0, successes |-> 0, consecutive_failures |-> 0]

\* The three counters of a host are natural numbers (lines 249-253).
MonitorTypeOK == stats \in [Host -> HostStats]

MonitorInit == stats = [h \in Host |-> NoStats]

-----------------------------------------------------------------------------
\* Faulty variants of AfterResult: a success takes one from the run of failures,
\* leaves the run alone, or is mistaken for a failure in counting it.
AfterResultDecays(s, success) ==
    [total |-> s.total + 1,
     successes |-> IF success THEN s.successes + 1 ELSE s.successes,
     consecutive_failures |-> s.consecutive_failures + IF success THEN -1 ELSE 1]

AfterResultKeepsRun(s, success) ==
    [total |-> s.total + 1,
     successes |-> IF success THEN s.successes + 1 ELSE s.successes,
     consecutive_failures |->
         IF success THEN s.consecutive_failures ELSE s.consecutive_failures + 1]

AfterResultSwapped(s, success) ==
    [total |-> s.total + 1,
     successes |-> IF success THEN s.successes + 1 ELSE s.successes,
     consecutive_failures |-> IF success THEN s.consecutive_failures + 1 ELSE 0]

AfterResult(s, success) ==
    [total |-> s.total + 1,
     successes |-> IF success THEN s.successes + 1 ELSE s.successes,
     consecutive_failures |-> IF success THEN 0 ELSE s.consecutive_failures + 1]

RecordResult(h, success) ==
    /\ stats[h].total < MaxTotal
    /\ stats' = [stats EXCEPT ![h] = AfterResult(@, success)]

\* Faulty variant of Reset: the run of failures survives.
ResetKeepsRun(h) ==
    stats' = [stats EXCEPT ![h] = [@ EXCEPT !.total = 0, !.successes = 0]]

Reset(h) == stats' = [stats EXCEPT ![h] = NoStats]

ClearAll == stats' = [h \in Host |-> NoStats]

\* Faulty variant of LowRate: the rate counts from the first attempt on.
LowRateFromTheFirst(s) == s.total > 0 /\ (s.successes * 100) \div s.total < MinRate

\* The verdict; its division truncates, as int division does.
LowRate(s) ==
    s.total >= MinAttempts /\ (s.successes * 100) \div s.total < MinRate

\* Faulty variant of Disable: only the failure that reaches the limit counts.
DisableAtTheLimit(s) == s.consecutive_failures = FailureLimit \/ LowRate(s)

Disable(s) == s.consecutive_failures >= FailureLimit \/ LowRate(s)

ShouldDisableECH(h) == Disable(stats[h])

MonitorNext ==
    \/ \E h \in Host, success \in BOOLEAN : RecordResult(h, success)
    \/ \E h \in Host : Reset(h)
    \/ ClearAll

MonitorSpec == MonitorInit /\ [][MonitorNext]_stats

-----------------------------------------------------------------------------
Failures(h) == stats[h].total - stats[h].successes

(***************************************************************************)
(* The three counters never contradict one another: a run of failures is   *)
(* part of the failures counted, and successes never exceed attempts,      *)
(* across any mix of results, resets and network switches.                 *)
(***************************************************************************)
CountersAgree == \A h \in Host : stats[h].consecutive_failures <= Failures(h)

(***************************************************************************)
(* A host is disabled only on evidence: at least FailureLimit failures     *)
(* were recorded for it since its counters were last reset, whichever of   *)
(* the two rules of ShouldDisableECH fired.                                *)
(***************************************************************************)
DisabledOnEvidence ==
    \A h \in Host : ShouldDisableECH(h) => Failures(h) >= FailureLimit

(***************************************************************************)
(* A failure never lifts the verdict.  Only a success, a Reset or a        *)
(* ClearAll readmits a host.                                               *)
(***************************************************************************)
FailureNeverReadmits ==
    [][\A h \in Host :
         ShouldDisableECH(h) /\ RecordResult(h, FALSE) => ShouldDisableECH(h)']_stats

(***************************************************************************)
(* A success can disable a host in one case only: it is the result that    *)
(* completes MinAttempts, so that the rate rule applies for the first      *)
(* time.  (It does happen there: four failures, a success, four failures   *)
(* and a success disable a host that none of the first nine did.)          *)
(***************************************************************************)
SuccessDisablesOnlyWhenTheRateFirstCounts ==
    [][\A h \in Host :
         /\ ~ShouldDisableECH(h)
         /\ RecordResult(h, TRUE)
         /\ ShouldDisableECH(h)'
         => stats[h].total + 1 = MinAttempts]_stats
=============================================================================
