------------------------ MODULE ResolveContextProofs ------------------------
(***************************************************************************)
(* What requests get from DNS answers, for any number of hosts and         *)
(* anonymization keys, any answers and either setting of the features.     *)
(* What Parse computes plays no part: the proofs hold of any parser.       *)
(***************************************************************************)
EXTENDS ResolveContext, TLAPS

Domains ==
    /\ DOMAIN ech_config = Nak /\ DOMAIN http3 = Nak /\ DOMAIN applied = Nak
    /\ DOMAIN hints = Nak /\ DOMAIN port = Nak
    /\ DOMAIN answers = Host /\ \A h \in Host : DOMAIN answers[h] = Nak

EchWasApplied(n, ech) ==
    ech # {} => \E raw \in applied[n] : Parsed[raw].valid /\ Parsed[raw].ech_config = ech

Http3WasApplied(n) == \E raw \in applied[n] : Parsed[raw].valid /\ "h3" \in Parsed[raw].alpn

\* The answer's first valid record reports HTTP/3.
Reports(answer) ==
    \E i \in DOMAIN answer :
        IsFirstValid(answer, i) /\ SvcbEnabled /\ "h3" \in Parsed[answer[i]].alpn

\* The context holds what some applied record said, and a key under which some
\* applied record or some host's answer reports HTTP/3 supports it.
ContextInv ==
    \A n \in Nak :
        /\ EchWasApplied(n, ech_config[n])
        /\ http3[n] = TRUE \/ http3[n] = FALSE
        /\ http3[n] = TRUE => Http3WasApplied(n) /\ SvcbEnabled
        /\ \A raw \in applied[n] : "h3" \in Parsed[raw].alpn => http3[n] = TRUE
        /\ \A h \in Host : Reports(answers[h][n]) => http3[n] = TRUE

Inv == Domains /\ ContextInv /\ RequestsUseValidRecordsOnly /\ Http3FollowsDns

-----------------------------------------------------------------------------
\* An answer has at most one first valid record.
LEMMA OneFirstValid ==
    ASSUME NEW answer \in Answer, NEW i \in DOMAIN answer, NEW j \in DOMAIN answer,
           IsFirstValid(answer, i), IsFirstValid(answer, j)
    PROVE  i = j
<1>1. answer \in Seq(RawRecord)
  BY AnswerAssumption
<1>2. i \in 1..Len(answer) /\ j \in 1..Len(answer)
  BY <1>1
<1>3. ValidAt(answer, i) /\ ValidAt(answer, j)
  BY DEF IsFirstValid
<1>4. (\A k \in 1..i - 1 : ~ValidAt(answer, k)) /\ (\A k \in 1..j - 1 : ~ValidAt(answer, k))
  BY DEF IsFirstValid
<1>5. Len(answer) \in Nat
  BY <1>1
<1> HIDE DEF IsFirstValid
<1> QED BY <1>2, <1>3, <1>4, <1>5

\* In the initial state nothing was resolved or requested.
LEMMA InvInit == Init => Inv
<1> SUFFICES ASSUME Init PROVE Inv
  OBVIOUS
<1>1. Domains
  BY DEF Init, Domains
<1>2. ContextInv
  BY DEF Init, ContextInv, EchWasApplied, Reports, NoAnswer
<1>3. RequestsUseValidRecordsOnly /\ Http3FollowsDns
  BY DEF Init, RequestsUseValidRecordsOnly, Http3FollowsDns
<1> QED BY <1>1, <1>2, <1>3 DEF Inv

\* What an answer may change: the fields of one key, to those of its first valid
\* record, which is then the one record applied anew.
LEMMA ResolveEffect ==
    ASSUME Domains, NEW h \in Host, NEW n \in Nak, NEW answer \in Answer,
           Resolve(h, n, answer)
    PROVE  /\ Domains'
           /\ \A m \in Nak : m # n => ech_config'[m] = ech_config[m] /\ http3'[m] = http3[m]
           /\ \A m \in Nak : m # n => hints'[m] = hints[m] /\ port'[m] = port[m]
           /\ \A m \in Nak : applied[m] \subseteq applied'[m]
           /\ \A m \in Nak : m # n => applied'[m] = applied[m]
           /\ \A raw \in applied'[n] \ applied[n] : "h3" \in Parsed[raw].alpn => http3'[n] = TRUE
           /\ http3'[n] = http3[n] \/ (http3'[n] = TRUE /\ SvcbEnabled)
           /\ \/ ech_config'[n] = ech_config[n]
              \/ EchWasApplied(n, ech_config[n])'
           /\ \/ http3'[n] = http3[n]
              \/ Http3WasApplied(n)'
           /\ Reports(answer) => http3'[n] = TRUE
           /\ answers' = [answers EXCEPT ![h][n] = answer]
           /\ request' = NoRequest
<1>1. answers' = [answers EXCEPT ![h][n] = answer] /\ request' = NoRequest
  BY DEF Resolve
<1>2. CASE /\ SvcbEnabled
           /\ \E i \in DOMAIN answer :
                /\ IsFirstValid(answer, i)
                /\ Apply(n, Parsed[answer[i]])
                /\ applied' = [applied EXCEPT ![n] = @ \cup {answer[i]}]
  <2>1. PICK i \in DOMAIN answer :
               /\ IsFirstValid(answer, i)
               /\ Apply(n, Parsed[answer[i]])
               /\ applied' = [applied EXCEPT ![n] = @ \cup {answer[i]}]
    BY <1>2
  <2> DEFINE p == Parsed[answer[i]]
  <2>2. /\ p.valid
        /\ ech_config' = IF p.ech_config # {}
                           THEN [ech_config EXCEPT ![n] = p.ech_config] ELSE ech_config
        /\ http3' = IF "h3" \in p.alpn THEN [http3 EXCEPT ![n] = TRUE] ELSE http3
        /\ hints' = IF p.ipv4_hints \cup p.ipv6_hints # {}
                      THEN [hints EXCEPT ![n] = p.ipv4_hints \cup p.ipv6_hints] ELSE hints
        /\ port' = IF p.port # {} THEN [port EXCEPT ![n] = p.port] ELSE port
    BY <2>1 DEF Apply, ApplyHintsAndPort, IsFirstValid, ValidAt
  <2>3. /\ applied'[n] = applied[n] \cup {answer[i]}
        /\ \A m \in Nak : applied[m] \subseteq applied'[m]
        /\ \A m \in Nak : m # n => applied'[m] = applied[m]
    BY <2>1 DEF Domains
  <2>4. Domains'
    BY <1>1, <2>1, <2>2 DEF Domains
  <2>5. Reports(answer) => "h3" \in p.alpn
    <3> SUFFICES ASSUME NEW j \in DOMAIN answer, IsFirstValid(answer, j),
                        "h3" \in Parsed[answer[j]].alpn
                 PROVE  j = i
      BY DEF Reports
    <3> QED BY <2>1, OneFirstValid
  <2>6. ech_config'[n] = ech_config[n] \/ EchWasApplied(n, ech_config[n])'
    BY <2>2, <2>3 DEF Domains, EchWasApplied
  <2>7. http3'[n] = http3[n] \/ Http3WasApplied(n)'
    BY <2>2, <2>3 DEF Http3WasApplied
  <2>8. \A raw \in applied'[n] \ applied[n] : "h3" \in Parsed[raw].alpn => http3'[n] = TRUE
    BY <2>2, <2>3 DEF Domains
  <2>9. \A m \in Nak : m # n => /\ ech_config'[m] = ech_config[m] /\ http3'[m] = http3[m]
                               /\ hints'[m] = hints[m] /\ port'[m] = port[m]
    BY <2>2 DEF Domains
  <2>10. http3'[n] = http3[n] \/ (http3'[n] = TRUE /\ SvcbEnabled)
    BY <1>2, <2>2 DEF Domains
  <2>11. Reports(answer) => http3'[n] = TRUE
    BY <2>2, <2>5 DEF Domains
  <2> HIDE DEF p
  <2> QED BY <1>1, <2>3, <2>4, <2>6, <2>7, <2>8, <2>9, <2>10, <2>11
<1>3. CASE /\ ~SvcbEnabled \/ \A i \in DOMAIN answer : ~ValidAt(answer, i)
           /\ UNCHANGED <<context, applied>>
  <2>1. ~Reports(answer)
    BY <1>3 DEF Reports, IsFirstValid
  <2>2. Domains'
    BY <1>1, <1>3 DEF Domains, context
  <2> QED BY <1>1, <1>3, <2>1, <2>2 DEF context
<1> QED BY <1>2, <1>3 DEF Resolve, ProcessHttpsRecord

\* An answer for one host and key leaves every key's fields accounted for.
LEMMA ResolveStep ==
    ASSUME Inv, NEW h \in Host, NEW n \in Nak, NEW answer \in Answer,
           Resolve(h, n, answer)
    PROVE  Inv'
<1>1. Domains
  BY DEF Inv
<1>2. /\ Domains'
      /\ \A m \in Nak : m # n => ech_config'[m] = ech_config[m] /\ http3'[m] = http3[m]
      /\ \A m \in Nak : m # n => hints'[m] = hints[m] /\ port'[m] = port[m]
      /\ \A m \in Nak : applied[m] \subseteq applied'[m]
      /\ \A m \in Nak : m # n => applied'[m] = applied[m]
      /\ \A raw \in applied'[n] \ applied[n] : "h3" \in Parsed[raw].alpn => http3'[n] = TRUE
      /\ http3'[n] = http3[n] \/ (http3'[n] = TRUE /\ SvcbEnabled)
      /\ ech_config'[n] = ech_config[n] \/ EchWasApplied(n, ech_config[n])'
      /\ http3'[n] = http3[n] \/ Http3WasApplied(n)'
      /\ Reports(answer) => http3'[n] = TRUE
      /\ answers' = [answers EXCEPT ![h][n] = answer]
      /\ request' = NoRequest
  BY ONLY <1>1, ResolveEffect, Resolve(h, n, answer), h \in Host, n \in Nak, answer \in Answer
<1>3. ContextInv'
  <2> SUFFICES ASSUME NEW m \in Nak
               PROVE  /\ EchWasApplied(m, ech_config[m])'
                      /\ http3'[m] = TRUE \/ http3'[m] = FALSE
                      /\ http3'[m] = TRUE => Http3WasApplied(m)' /\ SvcbEnabled
                      /\ \A raw \in applied'[m] : "h3" \in Parsed[raw].alpn => http3'[m] = TRUE
                      /\ \A g \in Host : Reports(answers[g][m])' => http3'[m] = TRUE
    BY DEF ContextInv, Parsed
  <2>1. /\ EchWasApplied(m, ech_config[m])
        /\ http3[m] = TRUE => Http3WasApplied(m) /\ SvcbEnabled
        /\ \A raw \in applied[m] : "h3" \in Parsed[raw].alpn => http3[m] = TRUE
    BY DEF Inv, ContextInv
  <2>2. EchWasApplied(m, ech_config[m])'
    BY <1>2, <2>1 DEF EchWasApplied
  <2>3. http3'[m] = TRUE => Http3WasApplied(m)' /\ SvcbEnabled
    BY <1>2, <2>1 DEF Http3WasApplied
  <2>6. \A raw \in applied'[m] : "h3" \in Parsed[raw].alpn => http3'[m] = TRUE
    <3>1. CASE m = n
      BY <1>2, <2>1, <3>1
    <3>2. CASE m # n
      BY <1>2, <2>1, <3>2
    <3> QED BY <3>1, <3>2
  <2>4. http3'[m] = TRUE \/ http3'[m] = FALSE
    BY <1>2 DEF Inv, ContextInv
  <2>5. ASSUME NEW g \in Host, Reports(answers[g][m])'
        PROVE  http3'[m] = TRUE
    <3>1. Reports(answers'[g][m])
      BY <2>5 DEF Reports, IsFirstValid, ValidAt, Parsed
    <3>2. CASE g = h /\ m = n
      BY <1>1, <1>2, <3>1, <3>2 DEF Domains
    <3>3. CASE ~(g = h /\ m = n)
      <4>1. answers'[g][m] = answers[g][m]
        BY <1>1, <1>2, <3>3 DEF Domains
      <4>2. http3[m] = TRUE
        BY <3>1, <4>1 DEF Inv, ContextInv
      <4> QED BY <1>2, <4>2
    <3> QED BY <3>2, <3>3
  <2> QED BY <2>2, <2>3, <2>4, <2>5, <2>6
<1>4. RequestsUseValidRecordsOnly' /\ Http3FollowsDns'
  BY <1>2 DEF RequestsUseValidRecordsOnly, Http3FollowsDns, NoRequest
<1> QED BY <1>2, <1>3, <1>4 DEF Inv

\* A request copies what the context holds under its own key.
LEMMA RequestStep ==
    ASSUME Inv, NEW h \in Host, NEW n \in Nak, Request(h, n)
    PROVE  Inv'
<1>1. /\ request'.host = h /\ request'.nak = n
      /\ request'.ech = GetEchConfigForRequest(n)
      /\ request'.protocol = SelectProtocolFromDnsResult(n)
      /\ request'.upgrade = ShouldUpgradeHttpToHttps(answers[h][n])
  BY DEF Request
<1>2. UNCHANGED <<ech_config, http3, hints, port, applied, answers>>
  BY DEF Request, context
<1>3. Domains' /\ ContextInv'
  <2>1. Domains'
    BY <1>2 DEF Inv, Domains
  <2>2. ContextInv'
    BY <1>2 DEF Inv, ContextInv, EchWasApplied, Http3WasApplied, Reports, IsFirstValid,
                ValidAt, Parsed
  <2> QED BY <2>1, <2>2
<1>4. RequestsUseValidRecordsOnly'
  <2>1. request'.ech # {} => EchWasApplied(n, request'.ech)
    BY <1>1 DEF Inv, ContextInv, GetEchConfigForRequest
  <2>2. request'.protocol = "h3" => Http3WasApplied(n)
    BY <1>1 DEF Inv, ContextInv, SelectProtocolFromDnsResult
  <2> QED BY <1>1, <1>2, <2>1, <2>2
          DEF RequestsUseValidRecordsOnly, EchWasApplied, Http3WasApplied, Parsed
<1>5. Http3FollowsDns'
  <2>1. ASSUME Reports(answers[h][n])
        PROVE  request'.protocol = "h3" /\ request'.upgrade
    <3>1. http3[n] = TRUE /\ SvcbEnabled
      BY <2>1 DEF Inv, ContextInv, Reports
    <3>2. ShouldUpgradeHttpToHttps(answers[h][n])
      BY <2>1 DEF Reports, IsFirstValid, ShouldUpgradeHttpToHttps
    <3> QED BY <1>1, <3>1, <3>2 DEF SelectProtocolFromDnsResult
  <2>2. request'.protocol = "h3" <=> \E raw \in applied[n] : "h3" \in Parsed[raw].alpn
    BY <1>1 DEF Inv, ContextInv, Http3WasApplied, SelectProtocolFromDnsResult
  <2> QED BY <1>1, <1>2, <2>1, <2>2
          DEF Http3FollowsDns, Reports, IsFirstValid, ValidAt, Parsed
<1> QED BY <1>3, <1>4, <1>5 DEF Inv

\* Every step keeps the invariant.
LEMMA InvStep == Inv /\ [Next]_vars => Inv'
<1> SUFFICES ASSUME Inv, [Next]_vars PROVE Inv'
  OBVIOUS
<1>1. ASSUME NEW h \in Host, NEW n \in Nak, NEW answer \in Answer, Resolve(h, n, answer)
      PROVE  Inv'
  BY <1>1, ResolveStep
<1>2. ASSUME NEW h \in Host, NEW n \in Nak, Request(h, n)
      PROVE  Inv'
  BY <1>2, RequestStep
<1>3. CASE UNCHANGED vars
  <2>1. UNCHANGED <<ech_config, http3, hints, port, applied, answers, request>>
    BY <1>3 DEF vars
  <2>2. Domains'
    BY <2>1 DEF Inv, Domains
  <2>3. ContextInv'
    BY <2>1 DEF Inv, ContextInv, EchWasApplied, Http3WasApplied, Reports, IsFirstValid,
                ValidAt, Parsed
  <2>4. RequestsUseValidRecordsOnly'
    BY <2>1 DEF Inv, RequestsUseValidRecordsOnly, Parsed
  <2>5. Http3FollowsDns'
    BY <2>1 DEF Inv, Http3FollowsDns, IsFirstValid, ValidAt, Parsed
  <2> QED BY <2>2, <2>3, <2>4, <2>5 DEF Inv
<1> QED BY <1>1, <1>2, <1>3 DEF Next

\* The context is accounted for in every reachable state.
THEOREM ContextInvariant == Spec => []Inv
BY InvInit, InvStep, PTL DEF Spec

(***************************************************************************)
(* What a request gets was read from a valid record resolved under its own *)
(* anonymization key.                                                      *)
(***************************************************************************)
THEOREM RequestsGetValidRecords == Spec => []RequestsUseValidRecordsOnly
<1>1. Inv => RequestsUseValidRecordsOnly
  BY DEF Inv
<1> QED BY <1>1, ContextInvariant, PTL

(***************************************************************************)
(* Requests under a key go over HTTP/3 exactly from the first record       *)
(* applied there that reports it, whichever host it was for, and a host    *)
(* whose own answer reports it is upgraded too.                            *)
(***************************************************************************)
THEOREM Http3IsAsReported == Spec => []Http3FollowsDns
<1>1. Inv => Http3FollowsDns
  BY DEF Inv
<1> QED BY <1>1, ContextInvariant, PTL

(***************************************************************************)
(* An answer without a valid record changes nothing, one with a valid      *)
(* record puts every field it carries in force under its key and leaves    *)
(* every other field and key alone.                                        *)
(***************************************************************************)
THEOREM EveryAnswerTakesEffect == Spec => AnswersTakeEffect
<1> DEFINE Fields(n, p) ==
      LET addresses == p.ipv4_hints \cup p.ipv6_hints
      IN  /\ ech_config'[n] = IF p.ech_config # {} THEN p.ech_config ELSE ech_config[n]
          /\ hints'[n] = IF addresses # {} THEN addresses ELSE hints[n]
          /\ port'[n] = IF p.port # {} THEN p.port ELSE port[n]
          /\ http3'[n] = ("h3" \in p.alpn \/ http3[n])
    Effect(h, n, answer) ==
      /\ ~SvcbEnabled \/ (\A i \in DOMAIN answer : ~Parsed[answer[i]].valid)
           => context' = context
      /\ \A i \in DOMAIN answer :
           SvcbEnabled /\ IsFirstValid(answer, i) => Fields(n, Parsed[answer[i]])
      /\ \A m \in Nak \ {n} : /\ ech_config'[m] = ech_config[m] /\ http3'[m] = http3[m]
                              /\ hints'[m] = hints[m] /\ port'[m] = port[m]
<1>1. ASSUME Inv, NEW h \in Host, NEW n \in Nak, NEW answer \in Answer, Resolve(h, n, answer)
      PROVE  Effect(h, n, answer)
  <2>1. Domains /\ (http3[n] = TRUE \/ http3[n] = FALSE)
    BY <1>1 DEF Inv, ContextInv
  <2>2. ~SvcbEnabled \/ (\A i \in DOMAIN answer : ~Parsed[answer[i]].valid)
          => context' = context
    BY <1>1 DEF Resolve, ProcessHttpsRecord, IsFirstValid, ValidAt
  <2>3. ASSUME NEW i \in DOMAIN answer, IsFirstValid(answer, i), SvcbEnabled
        PROVE  Fields(n, Parsed[answer[i]])
    <3>1. ValidAt(answer, i)
      BY <2>3 DEF IsFirstValid
    <3>2. PICK j \in DOMAIN answer : IsFirstValid(answer, j) /\ Apply(n, Parsed[answer[j]])
      BY <1>1, <2>3, <3>1 DEF Resolve, ProcessHttpsRecord
    <3>3. j = i
      BY <2>3, <3>2, OneFirstValid
    <3>4. Apply(n, Parsed[answer[i]])
      BY <3>2, <3>3
    <3>5. ASSUME NEW p, Apply(n, p) PROVE Fields(n, p)
      BY <2>1, <3>5 DEF Apply, ApplyHintsAndPort, Domains
    <3> QED BY <3>4, <3>5
  <2>4. \A m \in Nak \ {n} : /\ ech_config'[m] = ech_config[m] /\ http3'[m] = http3[m]
                            /\ hints'[m] = hints[m] /\ port'[m] = port[m]
    BY <1>1, <2>1, ResolveEffect
  <2> QED BY <2>2, <2>3, <2>4
<1>2. Inv /\ [Next]_vars => [\A h \in Host, n \in Nak, answer \in Answer :
                                Resolve(h, n, answer) => Effect(h, n, answer)]_vars
  BY <1>1
<1> QED BY <1>2, ContextInvariant, PTL DEF Spec, AnswersTakeEffect
=============================================================================
