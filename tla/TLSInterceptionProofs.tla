----------------------- MODULE TLSInterceptionProofs ------------------------
(***************************************************************************)
(* What the shared suspicion score does and does not do to verdicts, for   *)
(* any number of connections.                                              *)
(***************************************************************************)
EXTENDS TLSInterception, TLAPS

\* One judgement adds at most 90 points.
LEMMA PointsBounds ==
    ASSUME NEW e \in Evidence
    PROVE  Points(e) \in 0..90
BY DEF Evidence, Points, IsEnterpriseCA

\* Both handlers keep the score within its bound.
LEMMA InterceptionTypeStep ==
    InterceptionTypeOK /\ [Next]_vars => InterceptionTypeOK'
<1> SUFFICES ASSUME InterceptionTypeOK, [Next]_vars
             PROVE  InterceptionTypeOK'
  OBVIOUS
<1>1. ASSUME NEW c \in Conn, AdjustForProxyEnvironment(c)
      PROVE  InterceptionTypeOK'
  BY <1>1, ScoreAssumption DEF AdjustForProxyEnvironment, InterceptionTypeOK, ScoreAssumption
<1>2. ASSUME NEW c \in Conn, IsConnectionIntercepted(c)
      PROVE  InterceptionTypeOK'
  <2>1. Points(evidence[c]) \in 0..90
    BY PointsBounds DEF InterceptionTypeOK
  <2>2. suspicion_score' \in 0..MaxScore + 90
    BY <1>2, <2>1, ScoreAssumption
       DEF IsConnectionIntercepted, InterceptionTypeOK, ScoreAssumption
  <2>3. verdict' \in [Conn -> BOOLEAN]
    BY <1>2 DEF IsConnectionIntercepted, InterceptionTypeOK
  <2> QED BY <1>2, <2>2, <2>3 DEF IsConnectionIntercepted, InterceptionTypeOK
<1>3. CASE UNCHANGED vars
  BY <1>3 DEF vars, InterceptionTypeOK
<1> QED BY <1>1, <1>2, <1>3 DEF Next

(***************************************************************************)
(* The score stays a natural number within the points of one judgement     *)
(* above the bound of the model.                                           *)
(***************************************************************************)
THEOREM InterceptionTypeCorrect == Spec => []InterceptionTypeOK
<1>1. Init => InterceptionTypeOK
  BY ScoreAssumption DEF Init, InterceptionTypeOK, ScoreAssumption
<1> QED BY <1>1, InterceptionTypeStep, PTL DEF Spec

-----------------------------------------------------------------------------
(***************************************************************************)
(* Sharing the score hides nothing: a connection whose own evidence        *)
(* reaches the threshold is reported, however others interleave with it.   *)
(***************************************************************************)
THEOREM NothingIsMissed == Spec => []InterceptionIsNeverMissed
<1>1. Init => InterceptionIsNeverMissed
  BY DEF Init, InterceptionIsNeverMissed
<1>2. InterceptionTypeOK /\ InterceptionIsNeverMissed /\ [Next]_vars
        => InterceptionIsNeverMissed'
  <2> SUFFICES ASSUME InterceptionTypeOK, InterceptionIsNeverMissed, [Next]_vars,
                      NEW d \in Conn, pc'[d] = "judged", Own(d)'
               PROVE  verdict'[d]
    BY DEF InterceptionIsNeverMissed
  <2>1. ASSUME NEW c \in Conn, AdjustForProxyEnvironment(c)
        PROVE  verdict'[d]
    <3>1. pc[d] = "judged" /\ Own(d) /\ verdict' = verdict
      BY <2>1 DEF AdjustForProxyEnvironment, InterceptionTypeOK, Own
    <3> QED BY <3>1 DEF InterceptionIsNeverMissed
  <2>2. ASSUME NEW c \in Conn, IsConnectionIntercepted(c)
        PROVE  verdict'[d]
    <3>1. CASE c = d
      <4>1. Points(evidence[d]) \in 0..90 /\ Points(evidence[d]) >= 60
        BY <2>2, PointsBounds DEF InterceptionTypeOK, IsConnectionIntercepted, Own
      <4>2. suspicion_score' >= 60
        BY <2>2, <3>1, <4>1, ScoreAssumption
           DEF IsConnectionIntercepted, InterceptionTypeOK, ScoreAssumption
      <4> QED BY <2>2, <3>1, <4>2 DEF IsConnectionIntercepted, InterceptionTypeOK
    <3>2. CASE c # d
      <4>1. pc[d] = "judged" /\ Own(d) /\ verdict'[d] = verdict[d]
        BY <2>2, <3>2 DEF IsConnectionIntercepted, InterceptionTypeOK, Own
      <4> QED BY <4>1 DEF InterceptionIsNeverMissed
    <3> QED BY <3>1, <3>2
  <2>3. CASE UNCHANGED vars
    BY <2>3 DEF vars, InterceptionIsNeverMissed, Own
  <2> QED BY <2>1, <2>2, <2>3 DEF Next
<1> QED BY <1>1, <1>2, InterceptionTypeCorrect, PTL DEF Spec

-----------------------------------------------------------------------------
\* The strengthening: while an undisturbed connection waits for its handshake
\* the score is the zero it was reset to.
ScoreIsZeroWhileAlone ==
    \A c \in Conn : pc[c] = "connecting" /\ ~disturbed[c] => suspicion_score = 0

AloneInv ==
    /\ InterceptionTypeOK
    /\ disturbed \in [Conn -> BOOLEAN]
    /\ ScoreIsZeroWhileAlone
    /\ JudgedAloneWhenUndisturbed

\* Both handlers keep the verdict of an undisturbed connection its own: while it
\* is alone the score is still the zero of its reset.
LEMMA AloneStep == AloneInv /\ [Next]_vars => AloneInv'
<1> SUFFICES ASSUME AloneInv, [Next]_vars
             PROVE  AloneInv'
  OBVIOUS
<1>0. InterceptionTypeOK /\ InterceptionTypeOK' /\ disturbed \in [Conn -> BOOLEAN]
  BY InterceptionTypeStep DEF AloneInv
<1>1. ASSUME NEW c \in Conn, AdjustForProxyEnvironment(c)
      PROVE  AloneInv'
  <2>1. disturbed' \in [Conn -> BOOLEAN] /\ suspicion_score' = 0
    BY <1>0, <1>1 DEF AdjustForProxyEnvironment, DisturbOthers, InterceptionTypeOK
  <2>2. ScoreIsZeroWhileAlone'
    BY <2>1 DEF ScoreIsZeroWhileAlone
  <2>3. \A d \in Conn : pc'[d] = "judged" /\ ~disturbed'[d] =>
          pc[d] = "judged" /\ ~disturbed[d]
    BY <1>0, <1>1 DEF AdjustForProxyEnvironment, DisturbOthers, InterceptionTypeOK
  <2>4. JudgedAloneWhenUndisturbed'
    BY <1>1, <2>3 DEF AdjustForProxyEnvironment, AloneInv, JudgedAloneWhenUndisturbed, Own
  <2> QED BY <1>0, <2>1, <2>2, <2>4 DEF AloneInv
<1>2. ASSUME NEW c \in Conn, IsConnectionIntercepted(c)
      PROVE  AloneInv'
  <2>1. /\ disturbed' \in [Conn -> BOOLEAN]
        /\ disturbed'[c] = disturbed[c]
        /\ pc' = [pc EXCEPT ![c] = "judged"]
        /\ \A d \in Conn : d # c => disturbed'[d] = (disturbed[d] \/ pc[d] = "connecting")
    BY <1>0, <1>2 DEF IsConnectionIntercepted, DisturbOthers, InterceptionTypeOK
  <2>2. ScoreIsZeroWhileAlone'
    BY <1>0, <2>1 DEF ScoreIsZeroWhileAlone, InterceptionTypeOK
  <2>3. ASSUME NEW d \in Conn, pc'[d] = "judged", ~disturbed'[d]
        PROVE  verdict'[d] <=> Own(d)'
    <3>1. CASE d = c
      <4>1. suspicion_score = 0
        BY <1>2, <2>1, <2>3, <3>1 DEF IsConnectionIntercepted, AloneInv, ScoreIsZeroWhileAlone
      <4>2. Points(evidence[c]) \in 0..90
        BY <1>0, PointsBounds DEF InterceptionTypeOK
      <4>3. suspicion_score' = Points(evidence[c]) /\ evidence' = evidence
        BY <1>2, <4>1, <4>2 DEF IsConnectionIntercepted
      <4>4. verdict'[c] = (suspicion_score' >= 60)
        BY <1>0, <1>2 DEF IsConnectionIntercepted, InterceptionTypeOK
      <4> QED BY <3>1, <4>3, <4>4 DEF Own
    <3>2. CASE d # c
      <4>1. pc[d] = "judged" /\ ~disturbed[d] /\ verdict'[d] = verdict[d]
        BY <1>0, <1>2, <2>1, <2>3, <3>2 DEF IsConnectionIntercepted, InterceptionTypeOK
      <4> QED BY <1>2, <4>1 DEF IsConnectionIntercepted, AloneInv, JudgedAloneWhenUndisturbed, Own
    <3> QED BY <3>1, <3>2
  <2>4. JudgedAloneWhenUndisturbed'
    BY <2>3 DEF JudgedAloneWhenUndisturbed
  <2> QED BY <1>0, <2>1, <2>2, <2>4 DEF AloneInv
<1>3. CASE UNCHANGED vars
  BY <1>0, <1>3 DEF vars, AloneInv, ScoreIsZeroWhileAlone, JudgedAloneWhenUndisturbed, Own
<1> QED BY <1>1, <1>2, <1>3 DEF Next

(***************************************************************************)
(* A connection during which no other was begun or judged gets the verdict *)
(* its own evidence deserves: the reset of proxy_tls_interception.cc:188   *)
(* leaves nothing of earlier connections.                                  *)
(***************************************************************************)
THEOREM UndisturbedIsJudgedAlone == Spec => []JudgedAloneWhenUndisturbed
<1>1. Init => AloneInv
  BY ScoreAssumption
     DEF Init, AloneInv, InterceptionTypeOK, ScoreIsZeroWhileAlone,
         JudgedAloneWhenUndisturbed, ScoreAssumption
<1>2. AloneInv => JudgedAloneWhenUndisturbed
  BY DEF AloneInv
<1> QED BY <1>1, <1>2, AloneStep, PTL DEF Spec
=============================================================================
