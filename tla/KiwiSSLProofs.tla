--------------------------- MODULE KiwiSSLProofs ----------------------------
(***************************************************************************)
(* What a connection offers, records and retries, for any number of        *)
(* connections, keys, lists, features and rotations.  That a list yields   *)
(* keys and nothing else comes from ReadersProofs.                         *)
(***************************************************************************)
EXTENDS KiwiSSL, ReadersProofs, FiniteSetTheorems, TLAPS

SSLFields == {"keys", "grease", "early", "key_update_interval"}

Shape ==
    /\ honest \in BOOLEAN /\ rotations \in Nat
    /\ retries \in [Conn -> Nat]
    /\ recorded \in [Conn -> Seq(Result)]
    /\ DOMAIN phase = Conn /\ DOMAIN sslConfig = Conn /\ DOMAIN intended = Conn
    /\ DOMAIN ssl = Conn /\ \A c \in Conn : DOMAIN ssl[c] = SSLFields
    /\ DOMAIN info = Conn

(***************************************************************************)
(* The invariant of one connection, in parts.  Before the SSL object is    *)
(* configured, nothing is offered or recorded and, in whatever process,    *)
(* what was prepared is there but for the key-update interval.             *)
(***************************************************************************)
Before(c) ==
    /\ phase[c] \in {"new", "prepared", "crossed", "quic"} =>
         retries[c] = 0 /\ recorded[c] = <<>> /\ info[c].ech_accepted = FALSE
    /\ phase[c] \in {"prepared", "crossed"} =>
         /\ sslConfig[c].list = intended[c].list
         /\ sslConfig[c].early = intended[c].early
         /\ sslConfig[c].key_update_interval \in {0, intended[c].key_update_interval}

Greased(c) ==
    phase[c] = "handshake" =>
        /\ ssl[c].grease <=> "ECH" \in features
        /\ ssl[c].keys # {} => "ECH" \in features

Offered(c) ==
    phase[c] = "handshake" /\ retries[c] = 0 =>
        /\ ssl[c].keys \in {{}, ConfiguredKeys(intended[c].list)}
        /\ ssl[c].keys = {} /\ "ECH" \in features /\ intended[c].list # NoList =>
             recorded[c] = <<"FailedFallback">>
        /\ ssl[c].early <=> "EarlyData" \in features /\ intended[c].early
        /\ ssl[c].key_update_interval \in {0, intended[c].key_update_interval}

\* The samples are one FailedRetry for each retry, and perhaps one more.
Samples(r, n) ==
    /\ \A i \in 1..n : r[i] = "FailedRetry"
    /\ Len(r) \in {n, n + 1}
    /\ Len(r) = n + 1 => r[n + 1] \in Result \ {"FailedRetry", "Success"}

Sampled(c) ==
    LET r == recorded[c]
        n == retries[c]
    IN  /\ Samples(r, n)
        /\ Len(r) = n + 1 =>
             \/ ssl[c].keys = {} /\ n = 0 /\ phase[c] \in {"handshake", "established"}
             \/ ssl[c].keys # {} /\ phase[c] = "aborted" /\ r[n + 1] = "FailedFallback"
        /\ n > 0 => ssl[c].keys # {}
        /\ info[c].ech_accepted => ssl[c].keys # {} /\ phase[c] = "established"

\* With an honest server a connection that already offers the server's key has
\* used up the retry the last rotation may cause.
Budget(c) ==
    honest =>
        /\ retries[c] <= rotations + 1
        /\ serverKey \notin ssl[c].keys => retries[c] <= rotations

ConnInv(c) == Before(c) /\ Greased(c) /\ Offered(c) /\ Sampled(c) /\ Budget(c)

SSLInv == Shape /\ \A c \in Conn : ConnInv(c)

\* A step of c: every other connection is as it was.
OnlyAt(c) ==
    /\ UNCHANGED <<features, honest, serverKey, rotations>>
    /\ \A d \in Conn : d # c =>
         /\ ssl'[d] = ssl[d] /\ phase'[d] = phase[d] /\ recorded'[d] = recorded[d]
         /\ info'[d] = info[d] /\ retries'[d] = retries[d]
         /\ sslConfig'[d] = sslConfig[d] /\ intended'[d] = intended[d]

-----------------------------------------------------------------------------
\* What is true of a connection stays true while others take steps.
LEMMA OthersKept ==
    ASSUME NEW c \in Conn, NEW d \in Conn, d # c, OnlyAt(c), ConnInv(d)
    PROVE  ConnInv(d)'
<1>1. Before(d)' /\ Greased(d)' /\ Offered(d)'
  BY DEF OnlyAt, ConnInv, Before, Greased, Offered
<1>2. Sampled(d)' /\ Budget(d)'
  BY DEF OnlyAt, ConnInv, Sampled, Budget
<1> QED BY <1>1, <1>2 DEF ConnInv

\* One sample more keeps the samples in order.
LEMMA SampleAdded ==
    ASSUME NEW r \in Seq(Result), NEW n \in Nat, Samples(r, n), Len(r) = n, NEW x \in Result
    PROVE  /\ Append(r, x) \in Seq(Result) /\ Len(Append(r, x)) = n + 1
           /\ Append(r, x)[n + 1] = x
           /\ x = "FailedRetry" => Samples(Append(r, x), n + 1)
           /\ x \in Result \ {"FailedRetry", "Success"} => Samples(Append(r, x), n)
<1>1. /\ Append(r, x) \in Seq(Result) /\ Len(Append(r, x)) = n + 1
      /\ Append(r, x)[n + 1] = x
      /\ \A i \in 1..n : Append(r, x)[i] = r[i]
  OBVIOUS
<1> QED BY <1>1 DEF Samples

\* The retries counted and the last sample, read off the samples.
LEMMA SamplesRead ==
    ASSUME NEW r \in Seq(Result), NEW n \in Nat, Samples(r, n)
    PROVE  /\ Cardinality({i \in DOMAIN r : r[i] = "FailedRetry"}) = n
           /\ \A i \in 1..Len(r) - 1 : r[i] = "FailedRetry"
           /\ r # <<>> => Len(r) > 0 /\ Last(r) = r[Len(r)]
           /\ r # <<>> /\ n = 0 => Len(r) = 1
           /\ Len(r) = n => \A i \in DOMAIN r : r[i] = "FailedRetry"
<1>1. Len(r) \in Nat /\ DOMAIN r = 1..Len(r) /\ (r # <<>> => Len(r) > 0)
  OBVIOUS
<1>2. /\ \A i \in 1..n : r[i] = "FailedRetry"
      /\ Len(r) = n \/ Len(r) = n + 1
      /\ Len(r) = n + 1 => r[n + 1] # "FailedRetry"
  BY DEF Samples
<1>0. Len(r) = n \/ Len(r) = n + 1
  BY <1>2
<1>3. {i \in 1..Len(r) : r[i] = "FailedRetry"} = 1..n
  <2>1. CASE Len(r) = n
    BY <1>2, <2>1
  <2>2. CASE Len(r) = n + 1
    <3>1. 1..Len(r) = (1..n) \cup {n + 1}
      BY <2>2
    <3> QED BY <1>2, <2>2, <3>1
  <2> QED BY <1>2, <2>1, <2>2
<1>4. Cardinality(1..n) = n
  BY FS_Interval
<1>5. ASSUME NEW i \in 1..Len(r) - 1 PROVE r[i] = "FailedRetry"
  <2>1. CASE Len(r) = n
    BY <1>2, <2>1
  <2>2. CASE Len(r) = n + 1
    BY <1>2, <2>2
  <2> QED BY <1>0, <2>1, <2>2
<1>6. r # <<>> => Last(r) = r[Len(r)]
  BY DEF Last
<1>7. {i \in DOMAIN r : r[i] = "FailedRetry"} = 1..n
  BY <1>1, <1>3
<1>8. r # <<>> /\ n = 0 => Len(r) = 1
  BY <1>0, <1>1
<1>9. Len(r) = n => \A i \in DOMAIN r : r[i] = "FailedRetry"
  BY <1>1, <1>2
<1> QED BY <1>1, <1>4, <1>5, <1>6, <1>7, <1>8, <1>9

-----------------------------------------------------------------------------
LEMMA PrepareStep ==
    ASSUME Shape, NEW c \in Conn, ConnInv(c), NEW list, NEW p, Prepare(c, list, p)
    PROVE  Shape' /\ OnlyAt(c) /\ ConnInv(c)'
<1>1. /\ phase[c] = "new" /\ phase' = [phase EXCEPT ![c] = "prepared"]
      /\ sslConfig' = [sslConfig EXCEPT ![c] = WithProfile(WithList(sslConfig[c], list), p)]
      /\ intended' = [intended EXCEPT ![c] = sslConfig'[c]]
      /\ UNCHANGED <<features, honest, ssl, recorded, info, serverKey, rotations, retries>>
  BY DEF Prepare, boot
<1>2. Shape' /\ OnlyAt(c) /\ phase'[c] = "prepared" /\ intended'[c] = sslConfig'[c]
  BY <1>1 DEF Shape, OnlyAt
<1> QED BY <1>1, <1>2 DEF ConnInv, Before, Greased, Offered, Sampled, Budget

LEMMA CrossStep ==
    ASSUME Shape, NEW c \in Conn, ConnInv(c), CrossToNetworkService(c)
    PROVE  Shape' /\ OnlyAt(c) /\ ConnInv(c)'
<1>1. /\ phase[c] = "prepared" /\ phase' = [phase EXCEPT ![c] = "crossed"]
      /\ sslConfig' = [sslConfig EXCEPT
            ![c] = DeserializeSSLConfig(SerializeSSLConfig(sslConfig[c]), DefaultConfig)]
      /\ UNCHANGED <<features, honest, intended, ssl, recorded, info, serverKey,
                     rotations, retries>>
  BY DEF CrossToNetworkService, boot
<1>2. Shape' /\ OnlyAt(c) /\ phase'[c] = "crossed"
  BY <1>1 DEF Shape, OnlyAt
<1>3. /\ sslConfig'[c].list = sslConfig[c].list
      /\ sslConfig'[c].early = sslConfig[c].early
      /\ sslConfig'[c].key_update_interval = 0
  BY <1>1 DEF Shape, DeserializeSSLConfig, SerializeSSLConfig, DefaultConfig
<1> QED BY <1>1, <1>2, <1>3 DEF ConnInv, Before, Greased, Offered, Sampled, Budget

\* What ConfigureECH leaves behind, whichever of its steps failed.
LEMMA ConfigureECHFacts ==
    ASSUME NEW list, NEW newOk \in BOOLEAN, NEW setOk \in BOOLEAN
    PROVE  LET ech == ConfigureECH(list, newOk, setOk) IN
           /\ ech.grease \in BOOLEAN /\ (ech.grease => "ECH" \in features)
           /\ ech.keys \in {{}, ConfiguredKeys(list)}
           /\ ech.keys # {} => "ECH" \in features /\ ech.results = <<>>
           /\ \/ ech.results = <<>>
              \/ ech.results = <<"NotAttempted">> \/ ech.results = <<"NoConfig">>
              \/ ech.results = <<"FailedFallback">>
           /\ ech.keys = {} /\ "ECH" \in features /\ list # NoList =>
                ech.results = <<"FailedFallback">>
  BY DEF ConfigureECH

LEMMA ConfigureStep ==
    ASSUME Shape, NEW c \in Conn, ConnInv(c), NEW newOk \in BOOLEAN, NEW setOk \in BOOLEAN,
           NEW groupsOk \in BOOLEAN, ConfigureKiwiSSL(c, newOk, setOk, groupsOk)
    PROVE  Shape' /\ OnlyAt(c) /\ ConnInv(c)'
<1> DEFINE config == sslConfig[c]
           ech == ConfigureECH(config.list, newOk, setOk)
<1>1. /\ phase[c] \in {"prepared", "crossed"}
      /\ phase' = [phase EXCEPT ![c] = "handshake"]
      /\ ssl' = [ssl EXCEPT ![c] =
                   [keys |-> ech.keys,
                    grease |-> EnableECHGrease(ech.grease),
                    early |-> "EarlyData" \in features /\ config.early,
                    key_update_interval |->
                        IF "KeyUpdate" \in features THEN config.key_update_interval ELSE 0]]
      /\ recorded' = [recorded EXCEPT ![c] = @ \o ech.results]
      /\ UNCHANGED <<features, honest, sslConfig, intended, info, serverKey,
                     rotations, retries>>
  BY DEF ConfigureKiwiSSL, boot, configs
<1>2. /\ ech.grease \in BOOLEAN /\ (ech.grease => "ECH" \in features)
      /\ ech.keys \in {{}, ConfiguredKeys(config.list)}
      /\ ech.keys # {} => "ECH" \in features /\ ech.results = <<>>
      /\ \/ ech.results = <<>>
         \/ ech.results = <<"NotAttempted">> \/ ech.results = <<"NoConfig">>
         \/ ech.results = <<"FailedFallback">>
      /\ ech.keys = {} /\ "ECH" \in features /\ config.list # NoList =>
           ech.results = <<"FailedFallback">>
  BY ConfigureECHFacts
<1> HIDE DEF ech
<1>3. /\ recorded[c] = <<>> /\ retries[c] = 0 /\ info[c].ech_accepted = FALSE
      /\ config.list = intended[c].list /\ config.early = intended[c].early
      /\ config.key_update_interval \in {0, intended[c].key_update_interval}
  BY <1>1 DEF ConnInv, Before
<1>4. /\ ssl'[c].keys = ech.keys
      /\ ssl'[c].grease = EnableECHGrease(ech.grease)
      /\ ssl'[c].early = ("EarlyData" \in features /\ config.early)
      /\ ssl'[c].key_update_interval =
            IF "KeyUpdate" \in features THEN config.key_update_interval ELSE 0
      /\ DOMAIN ssl'[c] = SSLFields
      /\ phase'[c] = "handshake"
  BY <1>1 DEF Shape, SSLFields
<1>5. ech.results \in Seq(Result) /\ Len(ech.results) \in {0, 1}
      /\ (Len(ech.results) = 1 => ech.results[1] \in Result \ {"FailedRetry", "Success"})
  <2>1. ASSUME NEW x \in Result
        PROVE  <<x>> \in Seq(Result) /\ Len(<<x>>) = 1 /\ <<x>>[1] = x
    BY <2>1
  <2>2. <<>> \in Seq(Result) /\ Len(<<>>) = 0
    OBVIOUS
  <2>3. {"NotAttempted", "NoConfig", "FailedFallback"} = Result \ {"FailedRetry", "Success"}
    BY DEF Result
  <2>4. ech.results = <<>> \/ \E x \in Result \ {"FailedRetry", "Success"} : ech.results = <<x>>
    BY <1>2, <2>3
  <2>5. CASE ech.results = <<>>
    BY <2>2, <2>5
  <2>6. ASSUME NEW x \in Result \ {"FailedRetry", "Success"}, ech.results = <<x>>
        PROVE  /\ ech.results \in Seq(Result) /\ Len(ech.results) = 1
               /\ ech.results[1] \in Result \ {"FailedRetry", "Success"}
    <3>1. <<x>> \in Seq(Result) /\ Len(<<x>>) = 1 /\ <<x>>[1] = x
      BY <2>1
    <3> QED BY <2>6, <3>1
  <2> QED BY <2>4, <2>5, <2>6
<1>6. recorded'[c] = ech.results
  BY <1>1, <1>3, <1>5 DEF Shape
<1>7. Shape' /\ OnlyAt(c)
  <2>1. recorded' \in [Conn -> Seq(Result)]
    BY <1>1, <1>5, <1>6 DEF Shape
  <2>2. DOMAIN ssl' = Conn /\ \A d \in Conn : d # c => ssl'[d] = ssl[d]
    BY <1>1 DEF Shape
  <2> QED BY <1>1, <1>4, <2>1, <2>2 DEF Shape, OnlyAt
<1>8. Before(c)'
  BY <1>4 DEF Before
<1>9. Greased(c)'
  BY <1>1, <1>2, <1>4 DEF Greased, EnableECHGrease
<1>10. Offered(c)'
  <2>1. ssl'[c].keys \in {{}, ConfiguredKeys(intended'[c].list)}
    BY <1>1, <1>2, <1>3, <1>4
  <2>2. ssl'[c].keys = {} /\ "ECH" \in features' /\ intended'[c].list # NoList =>
          recorded'[c] = <<"FailedFallback">>
    BY <1>1, <1>2, <1>3, <1>4, <1>6
  <2>3. ssl'[c].early <=> "EarlyData" \in features' /\ intended'[c].early
    BY <1>1, <1>3, <1>4, Zenon
  <2>4. ssl'[c].key_update_interval \in {0, intended'[c].key_update_interval}
    BY <1>1, <1>3, <1>4
  <2> QED BY <2>1, <2>2, <2>3, <2>4 DEF Offered
<1>11. Sampled(c)'
  BY <1>1, <1>2, <1>3, <1>4, <1>5, <1>6 DEF Sampled, Samples
<1>12. Budget(c)'
  BY <1>1, <1>3 DEF Budget, Shape
<1> QED BY <1>7, <1>8, <1>9, <1>10, <1>11, <1>12 DEF ConnInv

LEMMA QuicStep ==
    ASSUME Shape, NEW c \in Conn, ConnInv(c), NEW newOk \in BOOLEAN, NEW setOk \in BOOLEAN,
           ConfigureQuic(c, newOk, setOk)
    PROVE  Shape' /\ OnlyAt(c) /\ ConnInv(c)'
<1>1. /\ phase[c] \in {"prepared", "crossed"}
      /\ phase' = [phase EXCEPT ![c] = "quic"]
      /\ DOMAIN ssl' = Conn /\ \A d \in Conn : d # c => ssl'[d] = ssl[d]
      /\ DOMAIN ssl'[c] = DOMAIN ssl[c]
      /\ UNCHANGED <<features, honest, sslConfig, intended, recorded, info, serverKey,
                     rotations, retries>>
  BY DEF ConfigureQuic, boot, configs, Shape
<1>2. Shape' /\ OnlyAt(c) /\ phase'[c] = "quic"
  BY <1>1 DEF Shape, OnlyAt
<1>3. recorded[c] = <<>> /\ retries[c] = 0 /\ info[c].ech_accepted = FALSE
  BY <1>1 DEF ConnInv, Before
<1> QED BY <1>1, <1>2, <1>3
        DEF ConnInv, Before, Greased, Offered, Sampled, Samples, Budget, Shape

LEMMA AbortStep ==
    ASSUME Shape, NEW c \in Conn, ConnInv(c), NEW list, NEW newOk, NEW setOk,
           RetryAbort(c, list, newOk, setOk)
    PROVE  Shape' /\ OnlyAt(c) /\ ConnInv(c)'
<1>1. /\ phase[c] = "handshake" /\ ssl[c].keys # {}
      /\ phase' = [phase EXCEPT ![c] = "aborted"]
      /\ \/ recorded' = recorded
         \/ recorded' = [recorded EXCEPT ![c] = Append(recorded[c], "FailedFallback")]
      /\ UNCHANGED <<features, honest, sslConfig, intended, ssl, info, serverKey,
                     rotations, retries>>
  BY DEF RetryAbort, Rejected, boot, configs
<1>2. /\ recorded[c] \in Seq(Result) /\ retries[c] \in Nat
      /\ Samples(recorded[c], retries[c]) /\ Len(recorded[c]) = retries[c]
      /\ "FailedFallback" \in Result \ {"FailedRetry", "Success"}
  BY <1>1 DEF ConnInv, Sampled, Samples, Shape, Result
<1>3. /\ Append(recorded[c], "FailedFallback") \in Seq(Result)
      /\ Len(Append(recorded[c], "FailedFallback")) = retries[c] + 1
      /\ Append(recorded[c], "FailedFallback")[retries[c] + 1] = "FailedFallback"
      /\ Samples(Append(recorded[c], "FailedFallback"), retries[c])
  BY <1>2, SampleAdded
<1>4. Shape' /\ OnlyAt(c) /\ phase'[c] = "aborted"
  BY <1>1, <1>3 DEF Shape, OnlyAt
<1>5. Sampled(c)'
  <2>1. recorded'[c] = recorded[c] \/ recorded'[c] = Append(recorded[c], "FailedFallback")
    BY <1>1 DEF Shape
  <2> QED BY <1>1, <1>2, <1>3, <1>4, <2>1 DEF ConnInv, Sampled
<1> QED BY <1>1, <1>4, <1>5 DEF ConnInv, Before, Greased, Offered, Budget

\* A retry is one more, it is counted, and it offers the key the server has.
LEMMA RetryStep ==
    ASSUME Shape, NEW c \in Conn, ConnInv(c), NEW list, RetryRetry(c, list)
    PROVE  /\ Shape' /\ OnlyAt(c) /\ ConnInv(c)'
           /\ retries' = [retries EXCEPT ![c] = retries[c] + 1]
           /\ honest => serverKey \in ssl'[c].keys
<1>1. /\ phase[c] = "handshake" /\ ssl[c].keys # {} /\ serverKey \notin ssl[c].keys
      /\ honest => serverKey \in RetryKeys(list)
      /\ RetryKeys(list) # {}
      /\ ssl' = [ssl EXCEPT ![c].keys = RetryKeys(list)]
      /\ recorded' = [recorded EXCEPT ![c] = Append(recorded[c], "FailedRetry")]
      /\ retries' = [retries EXCEPT ![c] = retries[c] + 1]
      /\ UNCHANGED <<features, honest, sslConfig, intended, phase, info, serverKey, rotations>>
  BY DEF RetryRetry, Rejected, boot, configs
<1>2. /\ recorded[c] \in Seq(Result) /\ retries[c] \in Nat
      /\ Samples(recorded[c], retries[c]) /\ Len(recorded[c]) = retries[c]
      /\ "FailedRetry" \in Result
  BY <1>1 DEF ConnInv, Sampled, Samples, Shape, Result
<1>3. /\ Append(recorded[c], "FailedRetry") \in Seq(Result)
      /\ Len(Append(recorded[c], "FailedRetry")) = retries[c] + 1
      /\ Samples(Append(recorded[c], "FailedRetry"), retries[c] + 1)
  BY <1>2, SampleAdded
<1>4. /\ ssl'[c].keys = RetryKeys(list) /\ ssl'[c].grease = ssl[c].grease
      /\ DOMAIN ssl'[c] = DOMAIN ssl[c]
      /\ DOMAIN ssl' = Conn /\ \A d \in Conn : d # c => ssl'[d] = ssl[d]
      /\ recorded'[c] = Append(recorded[c], "FailedRetry")
      /\ retries'[c] = retries[c] + 1
  BY <1>1 DEF Shape, SSLFields
<1>5. Shape'
  BY <1>1, <1>3, <1>4 DEF Shape
<1>6. OnlyAt(c)
  BY <1>1, <1>4 DEF Shape, OnlyAt
<1>7. Sampled(c)'
  BY <1>1, <1>2, <1>3, <1>4 DEF ConnInv, Sampled
<1>8. Budget(c)'
  BY <1>1, <1>2, <1>4 DEF ConnInv, Budget, Shape
<1>9. Before(c)' /\ Greased(c)' /\ Offered(c)'
  BY <1>1, <1>2, <1>4 DEF ConnInv, Before, Greased, Offered
<1> QED BY <1>1, <1>4, <1>5, <1>6, <1>7, <1>8, <1>9 DEF ConnInv

LEMMA QuicRejectedStep ==
    ASSUME Shape, NEW c \in Conn, ConnInv(c), QuicRejected(c)
    PROVE  Shape' /\ OnlyAt(c) /\ ConnInv(c)'
<1>1. /\ phase[c] = "quic" /\ phase' = [phase EXCEPT ![c] = "aborted"]
      /\ UNCHANGED <<features, honest, sslConfig, intended, ssl, recorded, info, serverKey,
                     rotations, retries>>
  BY DEF QuicRejected, boot, configs
<1>2. Shape' /\ OnlyAt(c) /\ phase'[c] = "aborted"
  BY <1>1 DEF Shape, OnlyAt
<1> QED BY <1>1, <1>2 DEF ConnInv, Before, Greased, Offered, Sampled, Budget

LEMMA EstablishStep ==
    ASSUME Shape, NEW c \in Conn, ConnInv(c), NEW group, Establish(c, group)
    PROVE  Shape' /\ OnlyAt(c) /\ ConnInv(c)'
<1>1. /\ phase[c] \in {"handshake", "quic"}
      /\ phase' = [phase EXCEPT ![c] = "established"]
      /\ info' = [info EXCEPT ![c] = [ech_accepted |-> ssl[c].keys # {},
                                      post_quantum |-> group = Kyber]]
      /\ UNCHANGED <<features, honest, sslConfig, intended, ssl, recorded, serverKey,
                     rotations, retries>>
  BY DEF Establish, boot, configs
<1>2. Shape' /\ OnlyAt(c) /\ phase'[c] = "established"
      /\ info'[c].ech_accepted = (ssl[c].keys # {})
  BY <1>1 DEF Shape, OnlyAt
<1>3. Sampled(c)'
  BY <1>1, <1>2 DEF ConnInv, Before, Sampled, Samples
<1> QED BY <1>1, <1>2, <1>3 DEF ConnInv, Before, Greased, Offered, Budget

-----------------------------------------------------------------------------
\* A step of one connection keeps the invariant of all.
LEMMA OneConnection ==
    ASSUME SSLInv, NEW c \in Conn, Shape' /\ OnlyAt(c) /\ ConnInv(c)'
    PROVE  SSLInv'
<1>1. ASSUME NEW d \in Conn PROVE ConnInv(d)'
  BY OthersKept DEF SSLInv
<1> QED BY <1>1 DEF SSLInv

LEMMA SSLInvStep == SSLInv /\ [Next]_vars => SSLInv'
<1> SUFFICES ASSUME SSLInv, [Next]_vars PROVE SSLInv'
  OBVIOUS
<1>0. Shape /\ \A c \in Conn : ConnInv(c)
  BY DEF SSLInv
<1>1. ASSUME NEW c \in Conn, Configure(c)
      PROVE  SSLInv'
  <2>1. ASSUME NEW list, NEW p, Prepare(c, list, p) PROVE SSLInv'
    BY <1>0, <2>1, PrepareStep, OneConnection
  <2>2. CASE CrossToNetworkService(c)
    BY <1>0, <2>2, CrossStep, OneConnection
  <2>3. ASSUME NEW newOk \in BOOLEAN, NEW setOk \in BOOLEAN, NEW groupsOk \in BOOLEAN,
               ConfigureKiwiSSL(c, newOk, setOk, groupsOk)
        PROVE  SSLInv'
    BY <1>0, <2>3, ConfigureStep, OneConnection
  <2>4. ASSUME NEW newOk \in BOOLEAN, NEW setOk \in BOOLEAN, ConfigureQuic(c, newOk, setOk)
        PROVE  SSLInv'
    BY <1>0, <2>4, QuicStep, OneConnection
  <2> QED BY <1>1, <2>1, <2>2, <2>3, <2>4 DEF Configure
<1>2. ASSUME NEW c \in Conn, Handshake(c)
      PROVE  SSLInv'
  <2>1. ASSUME NEW list, NEW newOk, NEW setOk, RetryAbort(c, list, newOk, setOk)
        PROVE  SSLInv'
    BY <1>0, <2>1, AbortStep, OneConnection
  <2>2. ASSUME NEW list, RetryRetry(c, list) PROVE SSLInv'
    BY <1>0, <2>2, RetryStep, OneConnection
  <2>3. CASE QuicRejected(c)
    BY <1>0, <2>3, QuicRejectedStep, OneConnection
  <2>4. ASSUME NEW group, Establish(c, group) PROVE SSLInv'
    BY <1>0, <2>4, EstablishStep, OneConnection
  <2> QED BY <1>2, <2>1, <2>2, <2>3, <2>4 DEF Handshake
<1>3. ASSUME NEW k, RotateKey(k)
      PROVE  SSLInv'
  <2>1. /\ rotations' = rotations + 1
        /\ UNCHANGED <<features, honest, sslConfig, intended, ssl, phase, recorded, info, retries>>
    BY <1>3 DEF RotateKey, boot, configs
  <2>2. Shape'
    BY <1>0, <2>1 DEF Shape
  <2>3. ASSUME NEW c \in Conn PROVE ConnInv(c)'
    <3>1. Budget(c)'
      BY <1>0, <2>1 DEF ConnInv, Budget, Shape
    <3> QED BY <1>0, <2>1, <3>1 DEF ConnInv, Before, Greased, Offered, Sampled
  <2> QED BY <2>2, <2>3 DEF SSLInv
<1>4. CASE UNCHANGED vars
  BY <1>4 DEF vars, boot, configs, SSLInv, Shape, ConnInv, Before, Greased, Offered, Sampled, Budget
<1> QED BY <1>1, <1>2, <1>3, <1>4 DEF Next

LEMMA SSLInvInit == Init => SSLInv
<1> SUFFICES ASSUME Init PROVE SSLInv
  OBVIOUS
<1>1. Shape
  BY DEF Init, Shape, FreshSSL, SSLFields
<1>2. ASSUME NEW c \in Conn PROVE ConnInv(c)
  <2>1. /\ phase[c] = "new" /\ recorded[c] = <<>> /\ retries[c] = 0
        /\ info[c].ech_accepted = FALSE /\ rotations = 0
    BY DEF Init
  <2> QED BY <2>1 DEF ConnInv, Before, Greased, Offered, Sampled, Samples, Budget
<1> QED BY <1>1, <1>2 DEF SSLInv

\* The invariant of every connection holds in every reachable state.
THEOREM SSLInvariant == Spec => []SSLInv
BY SSLInvInit, SSLInvStep, PTL DEF Spec

-----------------------------------------------------------------------------
(***************************************************************************)
(* A TLS connection carries an ECH extension exactly when ECH is enabled,  *)
(* whichever steps of its configuration failed.                            *)
(***************************************************************************)
THEOREM GreaseIsComplete == Spec => []GreaseExactlyWhenEnabled
<1>1. SSLInv => GreaseExactlyWhenEnabled
  BY DEF SSLInv, ConnInv, Greased, GreaseExactlyWhenEnabled
<1> QED BY <1>1, SSLInvariant, PTL

(***************************************************************************)
(* What was prepared for a connection is what it offers, in whichever      *)
(* process it is made.                                                     *)
(***************************************************************************)
THEOREM PreparedIsOffered == Spec => []OffersWhatWasPrepared
<1>1. SSLInv => OffersWhatWasPrepared
  BY DEF SSLInv, ConnInv, Offered, OffersWhatWasPrepared
<1> QED BY <1>1, SSLInvariant, PTL

(***************************************************************************)
(* The samples of a connection tell one story.                             *)
(***************************************************************************)
THEOREM SamplesTellOneStory == Spec => []SamplesAreConsistent
<1>1. ASSUME SSLInv, NEW c \in Conn
      PROVE  LET r == recorded[c] IN
             /\ \A i \in 1..Len(r) - 1 : r[i] = "FailedRetry"
             /\ Cardinality({i \in DOMAIN r : r[i] = "FailedRetry"}) = retries[c]
             /\ r # <<>> /\ ssl[c].keys = {} =>
                  Len(r) = 1 /\ r[1] \in {"NotAttempted", "NoConfig", "FailedFallback"}
             /\ r # <<>> /\ Last(r) = "FailedFallback" /\ ssl[c].keys # {} =>
                  phase[c] = "aborted"
             /\ info[c].ech_accepted => \A i \in DOMAIN r : r[i] = "FailedRetry"
  <2> DEFINE r == recorded[c]
             n == retries[c]
  <2>1. r \in Seq(Result) /\ n \in Nat /\ Samples(r, n) /\ DOMAIN r = 1..Len(r)
    BY <1>1 DEF SSLInv, ConnInv, Shape, Sampled
  <2>2. /\ \A i \in 1..n : r[i] = "FailedRetry"
        /\ Len(r) = n \/ Len(r) = n + 1
        /\ Len(r) = n + 1 => r[n + 1] \in {"NotAttempted", "NoConfig", "FailedFallback"}
        /\ Len(r) = n + 1 =>
             \/ ssl[c].keys = {} /\ n = 0 /\ phase[c] \in {"handshake", "established"}
             \/ ssl[c].keys # {} /\ phase[c] = "aborted" /\ r[n + 1] = "FailedFallback"
        /\ n > 0 => ssl[c].keys # {}
        /\ info[c].ech_accepted => ssl[c].keys # {} /\ phase[c] = "established"
    BY <1>1, <2>1 DEF SSLInv, ConnInv, Sampled, Samples, Result
  <2> HIDE DEF r, n
  <2>3. /\ Cardinality({i \in DOMAIN r : r[i] = "FailedRetry"}) = n
        /\ \A i \in 1..Len(r) - 1 : r[i] = "FailedRetry"
        /\ r # <<>> => Len(r) > 0 /\ Last(r) = r[Len(r)]
        /\ r # <<>> /\ n = 0 => Len(r) = 1
        /\ Len(r) = n => \A i \in DOMAIN r : r[i] = "FailedRetry"
    BY <2>1, SamplesRead
  <2>4. r # <<>> /\ ssl[c].keys = {} =>
          Len(r) = 1 /\ r[1] \in {"NotAttempted", "NoConfig", "FailedFallback"}
    BY <2>1, <2>2, <2>3
  <2>5. r # <<>> /\ Last(r) = "FailedFallback" /\ ssl[c].keys # {} => phase[c] = "aborted"
    <3>1. CASE Len(r) = n
      BY <2>1, <2>3, <3>1
    <3> QED BY <2>2, <3>1
  <2>6. info[c].ech_accepted => \A i \in DOMAIN r : r[i] = "FailedRetry"
    BY <2>2, <2>3
  <2> QED BY <2>3, <2>4, <2>5, <2>6 DEF r, n
<1>2. SSLInv => SamplesAreConsistent
  BY <1>1 DEF SamplesAreConsistent
<1> QED BY <1>2, SSLInvariant, PTL

(***************************************************************************)
(* However often ECHRetryCallback runs (the code counts no retries), an    *)
(* honest server makes a connection retry at most once more than it        *)
(* rotates its key.                                                        *)
(***************************************************************************)
THEOREM RetriesAreBounded == Spec => []RetriesBoundedByRotations
<1>1. SSLInv => RetriesBoundedByRotations
  BY DEF SSLInv, ConnInv, Budget, RetriesBoundedByRotations
<1> QED BY <1>1, SSLInvariant, PTL

-----------------------------------------------------------------------------
\* Whatever a list holds, the loop hands on keys that SSL_ECH_KEYS_add accepted.
LEMMA OnlyKeysAreRead ==
    ASSUME NEW list \in Seq(ListItem), NEW vs
    PROVE  ReadList(list, vs) \subseteq Key
<1>1. ReadList(list, vs) = {list[j].contents : j \in Good(list, vs, DOMAIN list)}
  BY Fold DEF After
<1>2. ASSUME NEW j \in Good(list, vs, DOMAIN list) PROVE list[j].contents \in Key
  <2>1. j \in DOMAIN list /\ list[j] \in ListItem
    BY LenProperties, ElementOfSeq DEF Good
  <2>2. Accepts(list[j], vs)
    BY DEF Good
  <2>3. list[j] # Broken /\ list[j].contents # Garbage
    BY <2>2 DEF Accepts, Broken
  <2> QED BY <2>1, <2>3 DEF ListItem, ConfigItem
<1> QED BY <1>1, <1>2

\* Those of DNS and those a server returns.
LEMMA ListsYieldKeys ==
    /\ \A list \in Lists \cup {NoList} : ConfiguredKeys(list) \subseteq Key
    /\ \A list \in RetryLists : RetryKeys(list) \subseteq Key
<1>1. NoList \in Seq(ListItem)
  BY EmptySeq DEF NoList
<1> QED BY <1>1, ListsAssumption, OnlyKeysAreRead DEF ConfiguredKeys, RetryKeys

Interval == {0, 50, 100}

ConfigType ==
    [list : Lists \cup {NoList}, grease : BOOLEAN, early : BOOLEAN,
     key_update_interval : Interval, groups : Seq({Kyber, X25519})]

\* What SSLTypeOK says of a connection, and the SSLConfig its settings come from.
Typed(c) ==
    /\ sslConfig[c] \in ConfigType
    /\ ssl[c].keys \subseteq Key
    /\ ssl[c].grease \in BOOLEAN /\ ssl[c].early \in BOOLEAN
    /\ ssl[c].key_update_interval \in Interval
    /\ phase[c] \in {"new", "prepared", "crossed", "handshake", "quic", "aborted", "established"}
    /\ retries[c] <= MaxRejections

TypeInv ==
    /\ features \subseteq FeatureName
    /\ serverKey \in Key /\ rotations <= MaxRotations
    /\ \A c \in Conn : Typed(c)

LEMMA TypeInvInit == Init => TypeInv
<1> SUFFICES ASSUME Init PROVE TypeInv
  OBVIOUS
<1>1. features \subseteq FeatureName /\ serverKey \in Key /\ rotations <= MaxRotations
  BY ListsAssumption, BoundAssumption DEF Init
<1>2. DefaultConfig \in ConfigType
  <2>1. <<>> \in Seq({Kyber, X25519})
    BY EmptySeq
  <2> QED BY <2>1 DEF DefaultConfig, ConfigType, Interval
<1>3. ASSUME NEW c \in Conn PROVE Typed(c)
  <2>1. /\ sslConfig[c] = DefaultConfig /\ phase[c] = "new" /\ retries[c] = 0
        /\ ssl[c] = [keys |-> {}, grease |-> FALSE, early |-> FALSE, key_update_interval |-> 0]
    BY DEF Init, FreshSSL
  <2>2. retries[c] <= MaxRejections /\ 0 \in Interval
    BY <2>1, BoundAssumption DEF Interval
  <2> QED BY <1>2, <2>1, <2>2 DEF Typed
<1> QED BY <1>1, <1>3 DEF TypeInv

\* The profile and the list of a request keep an SSLConfig one.
LEMMA PreparedConfig ==
    ASSUME NEW config \in ConfigType, NEW list \in Lists \cup {NoList}, NEW p \in Profile
    PROVE  WithProfile(WithList(config, list), p) \in ConfigType
<1>1. WithList(config, list) \in ConfigType
  BY DEF WithList, ConfigType
<1>2. /\ <<Kyber, X25519>> \in Seq({Kyber, X25519}) /\ <<Kyber>> \in Seq({Kyber, X25519})
      /\ <<X25519>> \in Seq({Kyber, X25519})
  OBVIOUS
<1>3. ASSUME NEW d \in ConfigType PROVE WithProfile(d, p) \in ConfigType
  BY <1>2 DEF WithProfile, Profile, ConfigType, Interval
<1> QED BY <1>1, <1>3

\* A step of c that keeps the type of c keeps the types.
LEMMA TypedStep ==
    ASSUME TypeInv, NEW c \in Conn, OnlyAt(c), Typed(c)'
    PROVE  TypeInv'
<1>1. ASSUME NEW d \in Conn, d # c PROVE Typed(d)'
  BY <1>1 DEF TypeInv, OnlyAt, Typed
<1> QED BY <1>1 DEF TypeInv, OnlyAt

LEMMA TypeInvStep == SSLInv /\ TypeInv /\ [Next]_vars => TypeInv'
<1> SUFFICES ASSUME SSLInv, TypeInv, [Next]_vars PROVE TypeInv'
  OBVIOUS
<1>0. Shape /\ \A c \in Conn : ConnInv(c) /\ Typed(c)
  BY DEF SSLInv, TypeInv
<1>1. ASSUME NEW c \in Conn, Configure(c)
      PROVE  TypeInv'
  <2>1. ASSUME NEW list \in Lists \cup {NoList}, NEW p \in Profile, Prepare(c, list, p)
        PROVE TypeInv'
    <3>1. OnlyAt(c)
      BY <1>0, <2>1, PrepareStep
    <3>2. sslConfig'[c] \in ConfigType
      <4>1. sslConfig'[c] = WithProfile(WithList(sslConfig[c], list), p)
        BY <1>0, <2>1 DEF Prepare, Shape
      <4> QED BY <1>0, <4>1, PreparedConfig DEF Typed
    <3>3. Typed(c)'
      BY <1>0, <2>1, <3>2 DEF Typed, Prepare, Shape
    <3> QED BY <3>1, <3>3, TypedStep
  <2>2. CASE CrossToNetworkService(c)
    <3>1. OnlyAt(c)
      BY <1>0, <2>2, CrossStep
    <3>2. sslConfig'[c] = DeserializeSSLConfig(SerializeSSLConfig(sslConfig[c]), DefaultConfig)
          /\ sslConfig[c] \in ConfigType
      BY <1>0, <2>2 DEF CrossToNetworkService, Shape, Typed
    <3>3. sslConfig'[c] \in ConfigType
      BY <3>2 DEF DeserializeSSLConfig, SerializeSSLConfig, DefaultConfig, ConfigType, Interval
    <3>4. Typed(c)'
      BY <1>0, <2>2, <3>3 DEF Typed, CrossToNetworkService, Shape
    <3> QED BY <3>1, <3>4, TypedStep
  <2>3. ASSUME NEW newOk \in BOOLEAN, NEW setOk \in BOOLEAN, NEW groupsOk \in BOOLEAN,
               ConfigureKiwiSSL(c, newOk, setOk, groupsOk)
        PROVE  TypeInv'
    <3> DEFINE config == sslConfig[c]
               ech == ConfigureECH(config.list, newOk, setOk)
    <3>1. OnlyAt(c)
      BY <1>0, <2>3, ConfigureStep
    <3>2. config.list \in Lists \cup {NoList} /\ config.early \in BOOLEAN
          /\ config.key_update_interval \in Interval
      BY <1>0 DEF Typed, ConfigType
    <3>3. ech.keys \subseteq Key /\ ech.grease \in BOOLEAN
      BY <3>2, ConfigureECHFacts, ListsYieldKeys
    <3>4. /\ ssl'[c].keys = ech.keys
          /\ ssl'[c].grease = EnableECHGrease(ech.grease)
          /\ ssl'[c].early = ("EarlyData" \in features /\ config.early)
          /\ ssl'[c].key_update_interval =
                IF "KeyUpdate" \in features THEN config.key_update_interval ELSE 0
          /\ phase'[c] = "handshake" /\ retries' = retries /\ sslConfig' = sslConfig
      BY <1>0, <2>3 DEF ConfigureKiwiSSL, Shape, configs
    <3> HIDE DEF ech, config
    <3>5. ssl'[c].keys \subseteq Key /\ ssl'[c].grease \in BOOLEAN
      BY <3>3, <3>4 DEF EnableECHGrease
    <3>6. ssl'[c].early \in BOOLEAN
      BY <3>4, Zenon
    <3>7. ssl'[c].key_update_interval \in Interval
      BY <3>2, <3>4 DEF Interval
    <3>8. Typed(c)'
      BY <1>0, <3>4, <3>5, <3>6, <3>7 DEF Typed
    <3> QED BY <3>1, <3>8, TypedStep
  <2>4. ASSUME NEW newOk \in BOOLEAN, NEW setOk \in BOOLEAN, ConfigureQuic(c, newOk, setOk)
        PROVE  TypeInv'
    <3>1. OnlyAt(c)
      BY <1>0, <2>4, QuicStep
    <3>2. /\ ssl'[c].keys \in {{}, ConfiguredKeys(sslConfig[c].list)}
          /\ ssl'[c].grease \in BOOLEAN
          /\ ssl'[c].early = ssl[c].early
          /\ ssl'[c].key_update_interval = ssl[c].key_update_interval
          /\ phase'[c] = "quic" /\ retries' = retries /\ sslConfig' = sslConfig
      BY <1>0, <2>4 DEF ConfigureQuic, Shape, SSLFields, configs
    <3>3. sslConfig[c].list \in Lists \cup {NoList}
      BY <1>0 DEF Typed, ConfigType
    <3>4. ssl'[c].keys \subseteq Key
      BY <3>2, <3>3, ListsYieldKeys
    <3>5. Typed(c)'
      BY <1>0, <3>2, <3>4 DEF Typed
    <3> QED BY <3>1, <3>5, TypedStep
  <2> QED BY <1>1, <2>1, <2>2, <2>3, <2>4 DEF Configure
<1>2. ASSUME NEW c \in Conn, Handshake(c)
      PROVE  TypeInv'
  <2>1. ASSUME NEW list, NEW newOk \in BOOLEAN, NEW setOk \in BOOLEAN,
               RetryAbort(c, list, newOk, setOk)
        PROVE  TypeInv'
    <3>1. OnlyAt(c)
      BY <1>0, <2>1, AbortStep
    <3>2. Typed(c)'
      BY <1>0, <2>1 DEF RetryAbort, Typed, Shape, configs
    <3> QED BY <3>1, <3>2, TypedStep
  <2>2. ASSUME NEW list \in RetryLists, RetryRetry(c, list) PROVE TypeInv'
    <3>1. OnlyAt(c)
      BY <1>0, <2>2, RetryStep
    <3>2. /\ ssl'[c].keys = RetryKeys(list) /\ ssl'[c].grease = ssl[c].grease
          /\ ssl'[c].early = ssl[c].early
          /\ ssl'[c].key_update_interval = ssl[c].key_update_interval
          /\ phase' = phase /\ retries'[c] = retries[c] + 1 /\ sslConfig' = sslConfig
          /\ retries[c] < MaxRejections /\ retries[c] \in Nat
      BY <1>0, <2>2 DEF RetryRetry, Rejected, Shape, SSLFields, configs
    <3>3. ssl'[c].keys \subseteq Key
      BY <3>2, ListsYieldKeys
    <3>4. retries'[c] <= MaxRejections
      BY <3>2, BoundAssumption
    <3>5. Typed(c)'
      BY <1>0, <3>2, <3>3, <3>4 DEF Typed
    <3> QED BY <3>1, <3>5, TypedStep
  <2>3. CASE QuicRejected(c)
    <3>1. OnlyAt(c)
      BY <1>0, <2>3, QuicRejectedStep
    <3>2. Typed(c)'
      BY <1>0, <2>3 DEF QuicRejected, Typed, Shape, configs
    <3> QED BY <3>1, <3>2, TypedStep
  <2>4. ASSUME NEW group, Establish(c, group) PROVE TypeInv'
    <3>1. OnlyAt(c)
      BY <1>0, <2>4, EstablishStep
    <3>2. Typed(c)'
      BY <1>0, <2>4 DEF Establish, Typed, Shape, configs
    <3> QED BY <3>1, <3>2, TypedStep
  <2> QED BY <1>2, <2>1, <2>2, <2>3, <2>4 DEF Handshake
<1>3. ASSUME NEW k \in Key, RotateKey(k)
      PROVE  TypeInv'
  <2>1. /\ serverKey' = k /\ rotations < MaxRotations /\ rotations' = rotations + 1
        /\ rotations \in Nat
        /\ UNCHANGED <<features, sslConfig, ssl, phase, retries>>
    BY <1>0, <1>3 DEF RotateKey, boot, configs, Shape
  <2>2. rotations' <= MaxRotations
    BY <2>1, BoundAssumption
  <2> QED BY <2>1, <2>2 DEF TypeInv, Typed
<1>4. CASE UNCHANGED vars
  BY <1>4 DEF vars, boot, configs, TypeInv, Typed
<1> QED BY <1>1, <1>2, <1>3, <1>4 DEF Next

(***************************************************************************)
(* The settings, samples and phases of a connection are of their types; in *)
(* particular its keys are ones SSL_ECH_KEYS_add accepted, whatever the    *)
(* lists hold and wherever they break off.                                 *)
(***************************************************************************)
THEOREM SSLTypes == Spec => []SSLTypeOK
<1>1. SSLInv /\ TypeInv => SSLTypeOK
  <2> SUFFICES ASSUME SSLInv, TypeInv PROVE SSLTypeOK
    OBVIOUS
  <2>1. ASSUME NEW c \in Conn
        PROVE  recorded[c] \in Seq(Result) /\ retries[c] \in 0..MaxRejections
    BY BoundAssumption DEF SSLInv, Shape, TypeInv, Typed
  <2>2. rotations \in 0..MaxRotations
    BY BoundAssumption DEF SSLInv, Shape, TypeInv
  <2> QED BY <2>1, <2>2 DEF TypeInv, Typed, SSLTypeOK, Interval
<1>2. Spec => [](SSLInv /\ TypeInv)
  BY SSLInvInit, SSLInvStep, TypeInvInit, TypeInvStep, PTL DEF Spec
<1> QED BY <1>1, <1>2, PTL
=============================================================================
