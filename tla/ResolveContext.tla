--------------------------- MODULE ResolveContext ---------------------------
(***************************************************************************)
(* From DNS answers to requests: ProcessHttpsRecord and                    *)
(* ShouldUpgradeHttpToHttps (host_resolver_manager.cc:352-442) fill and    *)
(* read; GetEchConfigForRequest, SelectProtocolFromDnsResult and           *)
(* ConfigureSSLForRequest (url_request_http_job.cc) read.  What they share *)
(* is the ResolveContext, whose fields the code keys by                    *)
(* NetworkAnonymizationKey.                                                *)
(*                                                                         *)
(* Answers to different hosts arrive in any order, and any number of hosts *)
(* may be resolved under one key.  The ResolveContext itself is Chromium's *)
(* and external; its fields are the setters the code calls.                *)
(***************************************************************************)
EXTENDS HttpsRecord

CONSTANTS
    Host,
    Nak,            \* network anonymization keys
    Answer,         \* the lists of HTTPS records DNS may return
    SvcbEnabled,    \* features::kUseDnsHttpsSvcb
    EchEnabled      \* features::kEncryptedClientHello

ASSUME AnswerAssumption == Answer \subseteq Seq(RawRecord)

VARIABLES
    ech_config,     \* ech_config[n]: SetEchConfig / GetEchConfig
    http3,          \* http3[n]: SetSupportsHttp3 / SupportsHttp3
    hints, port,    \* SetAddressHints, SetAlternativePort
    answers,        \* history: answers[h][n], the latest answer, or NoAnswer
    applied,        \* history: applied[n], the records ever applied under n
    request         \* the last request prepared

context == <<ech_config, http3, hints, port>>

vars == <<ech_config, http3, hints, port, answers, applied, request>>

NoAnswer == <<>>    \* no https_records()

NoRequest == [host |-> "none", nak |-> "none", ech |-> {}, protocol |-> "", upgrade |-> FALSE]

Init ==
    /\ ech_config = [n \in Nak |-> {}]
    /\ http3 = [n \in Nak |-> FALSE]
    /\ hints = [n \in Nak |-> {}]
    /\ port = [n \in Nak |-> {}]
    /\ answers = [h \in Host |-> [n \in Nak |-> NoAnswer]]
    /\ applied = [n \in Nak |-> {}]
    /\ request = NoRequest

-----------------------------------------------------------------------------
\* What the parser makes of each record.
Parsed == [raw \in UNION {ToSet(answer) : answer \in Answer} |-> Parse(raw)]

\* Faulty variant of ValidAt: the result's valid flag is not looked at.
ValidAtUnchecked(answer, i) == i \in DOMAIN answer

ValidAt(answer, i) == i \in DOMAIN answer /\ Parsed[answer[i]].valid

\* Only the first valid record of an answer counts.
IsFirstValid(answer, i) ==
    ValidAt(answer, i) /\ \A j \in 1..i - 1 : ~ValidAt(answer, j)

\* Each field is set only by a record that carries it, and is never unset.
ApplyHintsAndPort(n, parsed) ==
    /\ hints' = IF parsed.ipv4_hints \cup parsed.ipv6_hints # {}
                  THEN [hints EXCEPT ![n] = parsed.ipv4_hints \cup parsed.ipv6_hints]
                  ELSE hints
    /\ port' = IF parsed.port # {} THEN [port EXCEPT ![n] = parsed.port] ELSE port

\* Faulty variants of Apply: a configuration that is there is kept; support for
\* HTTP/3 is assigned rather than set.
ApplyKeepsOld(n, parsed) ==
    /\ ech_config' = IF parsed.ech_config # {} /\ ech_config[n] = {}
                       THEN [ech_config EXCEPT ![n] = parsed.ech_config]
                       ELSE ech_config
    /\ http3' = IF "h3" \in parsed.alpn THEN [http3 EXCEPT ![n] = TRUE] ELSE http3
    /\ ApplyHintsAndPort(n, parsed)

ApplyAssignsHttp3(n, parsed) ==
    /\ ech_config' = IF parsed.ech_config # {}
                       THEN [ech_config EXCEPT ![n] = parsed.ech_config]
                       ELSE ech_config
    /\ http3' = [http3 EXCEPT ![n] = "h3" \in parsed.alpn]
    /\ ApplyHintsAndPort(n, parsed)

Apply(n, parsed) ==
    /\ ech_config' = IF parsed.ech_config # {}
                       THEN [ech_config EXCEPT ![n] = parsed.ech_config]
                       ELSE ech_config
    /\ http3' = IF "h3" \in parsed.alpn THEN [http3 EXCEPT ![n] = TRUE] ELSE http3
    /\ ApplyHintsAndPort(n, parsed)

\* What ProcessHttpsRecord does with an answer, applied to the context.
ProcessHttpsRecord(n, answer) ==
    \/ /\ SvcbEnabled
       /\ \E i \in DOMAIN answer :
            /\ IsFirstValid(answer, i)
            /\ Apply(n, Parsed[answer[i]])
            /\ applied' = [applied EXCEPT ![n] = @ \cup {answer[i]}]
    \/ /\ ~SvcbEnabled \/ \A i \in DOMAIN answer : ~ValidAt(answer, i)
       /\ UNCHANGED <<context, applied>>

Resolve(h, n, answer) ==
    /\ ProcessHttpsRecord(n, answer)
    /\ answers' = [answers EXCEPT ![h][n] = answer]
    /\ request' = NoRequest

GetEchConfigForRequest(n) == IF EchEnabled THEN ech_config[n] ELSE {}

SelectProtocolFromDnsResult(n) == IF SvcbEnabled /\ http3[n] THEN "h3" ELSE ""

ShouldUpgradeHttpToHttps(answer) ==
    /\ SvcbEnabled
    /\ \E i \in DOMAIN answer : ValidAt(answer, i) /\ Parsed[answer[i]].alpn # {}

\* A request to h under n: ConfigureSSLForRequest, the protocol and the
\* upgrade decision.
Request(h, n) ==
    /\ answers[h][n] # NoAnswer
    /\ request' = [host |-> h, nak |-> n,
                   ech |-> GetEchConfigForRequest(n),
                   protocol |-> SelectProtocolFromDnsResult(n),
                   upgrade |-> ShouldUpgradeHttpToHttps(answers[h][n])]
    /\ UNCHANGED <<context, answers, applied>>

Next ==
    \/ \E h \in Host, n \in Nak, answer \in Answer : Resolve(h, n, answer)
    \/ \E h \in Host, n \in Nak : Request(h, n)

Spec == Init /\ [][Next]_vars

-----------------------------------------------------------------------------
(***************************************************************************)
(* Whatever a request is given was read from one valid record that was     *)
(* resolved under its own anonymization key: nothing comes from a record   *)
(* with an unsupported mandatory parameter, wherever in the record that    *)
(* parameter stands, from an alias record, or from another key.            *)
(***************************************************************************)
RequestsUseValidRecordsOnly ==
    LET n == request.nak IN
    request # NoRequest =>
        /\ request.ech # {} =>
             \E raw \in applied[n] : Parsed[raw].valid /\ Parsed[raw].ech_config = request.ech
        /\ request.protocol = "h3" =>
             \E raw \in applied[n] : Parsed[raw].valid /\ "h3" \in Parsed[raw].alpn

(***************************************************************************)
(* An answer takes effect at once and completely: every field its first    *)
(* valid record carries replaces what was in force under the key, whatever *)
(* host it was for, every field the record does not carry stays, support   *)
(* for HTTP/3 is never taken back, and no other key is touched.  Records   *)
(* that cannot be used leave no trace.                                     *)
(***************************************************************************)
AnswersTakeEffect ==
    [][\A h \in Host, n \in Nak, answer \in Answer :
         Resolve(h, n, answer) =>
            /\ ~SvcbEnabled \/ (\A i \in DOMAIN answer : ~Parsed[answer[i]].valid)
                 => context' = context
            /\ \A i \in DOMAIN answer :
                 SvcbEnabled /\ IsFirstValid(answer, i) =>
                   LET p == Parsed[answer[i]]
                       addresses == p.ipv4_hints \cup p.ipv6_hints
                   IN  /\ ech_config'[n] = IF p.ech_config # {} THEN p.ech_config ELSE ech_config[n]
                       /\ hints'[n] = IF addresses # {} THEN addresses ELSE hints[n]
                       /\ port'[n] = IF p.port # {} THEN p.port ELSE port[n]
                       /\ http3'[n] = ("h3" \in p.alpn \/ http3[n])
            /\ \A m \in Nak \ {n} : /\ ech_config'[m] = ech_config[m] /\ http3'[m] = http3[m]
                                    /\ hints'[m] = hints[m] /\ port'[m] = port[m]]_vars

(***************************************************************************)
(* A request is sent over HTTP/3 exactly if a record applied under its key *)
(* reported HTTP/3: never without the word of DNS, and from then on for    *)
(* good, for every host resolved under that key, whatever later answers    *)
(* say or leave out (host_resolver_manager.cc:377-387 sets the flag and    *)
(* nothing unsets it).  A host whose own answer reports it is also         *)
(* upgraded to HTTPS, although the upgrade looks at other records of the   *)
(* answer than the context does.                                           *)
(***************************************************************************)
Http3FollowsDns ==
    request # NoRequest =>
        LET n == request.nak
            answer == answers[request.host][n]
        IN  /\ request.protocol = "h3" <=> \E raw \in applied[n] : "h3" \in Parsed[raw].alpn
            /\ (\E i \in DOMAIN answer :
                   IsFirstValid(answer, i) /\ SvcbEnabled /\ "h3" \in Parsed[answer[i]].alpn)
                 => request.protocol = "h3" /\ request.upgrade

-----------------------------------------------------------------------------
Carried(answer, field) ==
    UNION { Parsed[answer[i]][field] : i \in {j \in DOMAIN answer : ValidAt(answer, j)} }

(***************************************************************************)
(* url_request_http_job.cc:42 and 69: the ECH configuration of a request   *)
(* comes from the DNS HTTPS record (of the host it goes to).               *)
(***************************************************************************)
EchConfigIsTheHostsOwn ==
    request # NoRequest =>
        request.ech \subseteq Carried(answers[request.host][request.nak], "ech_config")
=============================================================================
