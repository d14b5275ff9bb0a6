-------------------------- MODULE TLSInterception ---------------------------
(***************************************************************************)
(* TLSInterceptionDetector and AdjustForProxyEnvironment, proxy_tls_       *)
(* interception.cc:95-199 and 262-296: one suspicion score for the whole   *)
(* process, set to zero before a connection is made and added to when its  *)
(* SSLInfo is judged.  Between the two lies a handshake, in which other    *)
(* connections are begun and judged.                                       *)
(*                                                                         *)
(* Both functions run to completion on the network thread, so each is one  *)
(* action.  HandleInterception calls a function that does not exist        *)
(* (ECHDegradationMonitor::ForceDisableECH) and is not modelled.           *)
(***************************************************************************)
EXTENDS Integers, FiniteSets

CONSTANTS
    Conn,
    MaxScore        \* bound: no connection is judged from this score on

ASSUME ScoreAssumption == MaxScore \in Nat

VARIABLES
    suspicion_score,
    pc,             \* pc[c]: "new", "connecting", "judged"
    evidence,       \* evidence[c]: what its SSLInfo will show
    verdict,        \* verdict[c]: what IsConnectionIntercepted returned
    disturbed       \* history: disturbed[c], another touched the score since c's reset

vars == <<suspicion_score, pc, evidence, verdict, disturbed>>

Evidence == [ech_accepted : BOOLEAN, has_retry_config : BOOLEAN,
             authority_invalid : BOOLEAN, name_invalid : BOOLEAN,
             ocsp_provided : BOOLEAN]

Init ==
    /\ suspicion_score = 0
    /\ pc = [c \in Conn |-> "new"]
    /\ evidence \in [Conn -> Evidence]
    /\ verdict = [c \in Conn |-> FALSE]
    /\ disturbed = [c \in Conn |-> FALSE]

\* The code looks at two certificate status flags.
IsEnterpriseCA(e) == e.authority_invalid /\ ~e.name_invalid

\* Faulty variant of Points: a stapled response speaks for the connection.
PointsDiscount(e) ==
    (IF ~e.ech_accepted /\ ~e.has_retry_config THEN 30 ELSE 0)
    + (IF IsEnterpriseCA(e) THEN 40 ELSE 0)
    + (IF ~e.ocsp_provided THEN 20 ELSE -20)

Points(e) ==
    (IF ~e.ech_accepted /\ ~e.has_retry_config THEN 30 ELSE 0)
    + (IF IsEnterpriseCA(e) THEN 40 ELSE 0)
    + (IF ~e.ocsp_provided THEN 20 ELSE 0)

DisturbOthers(c) ==
    [d \in Conn |-> IF d = c THEN FALSE ELSE disturbed[d] \/ pc[d] = "connecting"]

\* Faulty variant: ResetSuspicion is left out.
AdjustWithoutReset(c) ==
    /\ pc[c] = "new"
    /\ pc' = [pc EXCEPT ![c] = "connecting"]
    /\ disturbed' = DisturbOthers(c)
    /\ UNCHANGED <<suspicion_score, evidence, verdict>>

\* Direct or through a proxy, the score is reset first; no proxy type is
\* incompatible (GetProxyEchCompatibility), so nothing else changes.
AdjustForProxyEnvironment(c) ==
    /\ pc[c] = "new"
    /\ pc' = [pc EXCEPT ![c] = "connecting"]
    /\ suspicion_score' = 0
    /\ disturbed' = DisturbOthers(c)
    /\ UNCHANGED <<evidence, verdict>>

\* Faulty variant: the score is compared before it is added to.
IsConnectionInterceptedStale(c) ==
    /\ pc[c] = "connecting"
    /\ suspicion_score < MaxScore
    /\ pc' = [pc EXCEPT ![c] = "judged"]
    /\ suspicion_score' = suspicion_score + Points(evidence[c])
    /\ verdict' = [verdict EXCEPT ![c] = suspicion_score >= 60]
    /\ disturbed' = [DisturbOthers(c) EXCEPT ![c] = disturbed[c]]
    /\ evidence' = evidence

IsConnectionIntercepted(c) ==
    /\ pc[c] = "connecting"
    /\ suspicion_score < MaxScore
    /\ pc' = [pc EXCEPT ![c] = "judged"]
    /\ suspicion_score' = suspicion_score + Points(evidence[c])
    /\ verdict' = [verdict EXCEPT ![c] = suspicion_score' >= 60]
    /\ disturbed' = [DisturbOthers(c) EXCEPT ![c] = disturbed[c]]
    /\ evidence' = evidence

Next == \E c \in Conn : AdjustForProxyEnvironment(c) \/ IsConnectionIntercepted(c)

Spec == Init /\ [][Next]_vars

-----------------------------------------------------------------------------
\* The score stays within one judgement of the bound: a judgement adds between 0
\* and 90 points.
InterceptionTypeOK ==
    /\ suspicion_score \in 0..MaxScore + 90
    /\ pc \in [Conn -> {"new", "connecting", "judged"}]
    /\ evidence \in [Conn -> Evidence]
    /\ verdict \in [Conn -> BOOLEAN]

Own(c) == Points(evidence[c]) >= 60

(***************************************************************************)
(* However connections overlap, one whose own evidence reaches the         *)
(* threshold is reported: sharing the score can add to it, never take from *)
(* it between a connection's evidence and its verdict.                     *)
(***************************************************************************)
InterceptionIsNeverMissed ==
    \A c \in Conn : pc[c] = "judged" /\ Own(c) => verdict[c]

(***************************************************************************)
(* A connection during which no other was begun or judged is judged by its *)
(* own evidence: what earlier connections left behind is gone.             *)
(***************************************************************************)
JudgedAloneWhenUndisturbed ==
    \A c \in Conn : pc[c] = "judged" /\ ~disturbed[c] => (verdict[c] <=> Own(c))
=============================================================================
