----------------------- MODULE ECHDegradationHistory ------------------------
(***************************************************************************)
(* ECHDegradationMonitor with the list of results themselves as a history  *)
(* variable, so that the verdict reached through three counters can be     *)
(* compared with the verdict the results deserve.                          *)
(***************************************************************************)
EXTENDS ECHDegradation, Sequences, FiniteSets

VARIABLE results    \* results[h]: the results recorded since the last reset

vars == <<stats, results>>

Init ==
    /\ MonitorInit
    /\ results = [h \in Host |-> <<>>]

Record(h, success) ==
    /\ RecordResult(h, success)
    /\ results' = [results EXCEPT ![h] = Append(@, success)]

ResetHost(h) ==
    /\ Reset(h)
    /\ results' = [results EXCEPT ![h] = <<>>]

ClearHosts ==
    /\ ClearAll
    /\ results' = [h \in Host |-> <<>>]

Next ==
    \/ \E h \in Host, success \in BOOLEAN : Record(h, success)
    \/ \E h \in Host : ResetHost(h)
    \/ ClearHosts

Spec == Init /\ [][Next]_vars

-----------------------------------------------------------------------------
Successes(r) == Cardinality({i \in DOMAIN r : r[i]})

EndsInFailures(r, n) ==
    Len(r) >= n /\ \A i \in Len(r) - n + 1 .. Len(r) : ~r[i]

(***************************************************************************)
(* The verdict is the one the results deserve: the host is disabled        *)
(* exactly when its last FailureLimit results all failed, or at least      *)
(* MinAttempts are known and fewer than MinRate percent of them succeeded  *)
(* (ech_retry_handler.cc:221-229).                                         *)
(***************************************************************************)
VerdictMatchesResults ==
    \A h \in Host :
        LET r == results[h] IN
        ShouldDisableECH(h) <=>
            \/ EndsInFailures(r, FailureLimit)
            \/ Len(r) >= MinAttempts /\ 100 * Successes(r) < MinRate * Len(r)
=============================================================================
