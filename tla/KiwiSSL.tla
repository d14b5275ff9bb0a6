------------------------------ MODULE KiwiSSL -------------------------------
(***************************************************************************)
(* ssl_client_socket.cc: how an SSLConfig becomes the settings of an SSL   *)
(* object and of the SSL_CTX its connections share, what the retry         *)
(* callback does when a server rejects ECH, and what is recorded.          *)
(* quic_ech_integration.cc:35-90 configures the SSL object of a QUIC       *)
(* session and is the other way a connection gets its ECH settings.        *)
(*                                                                         *)
(* The SSLConfig is prepared in one process and may cross to the network   *)
(* service before it is used: mojo_ipc_integration.cc:90-133 copies it     *)
(* field by field, and not all of them.                                    *)
(*                                                                         *)
(* A connection is one SSL object, from SSL_new to the end of its          *)
(* handshake.  BoringSSL and the server are external: the server holds one *)
(* key, accepts a ClientHello encrypted to it and rejects any other.       *)
(***************************************************************************)
EXTENDS ECHConfigList, FiniteSets

CONSTANTS
    Conn,           \* connections made from the one SSL_CTX
    Lists,          \* ECH configuration lists that DNS may have delivered
    RetryLists,     \* retry configurations a server may return
    FeatureSets,    \* sets of features that may be enabled at start-up
    MaxRotations,   \* bound on the server's key rotations
    MaxRejections   \* bound on the rejections of one connection

ASSUME BoundAssumption == MaxRotations \in Nat /\ MaxRejections \in Nat

NoList == <<>>      \* no configuration: the empty string

Kyber == "X25519Kyber768Draft00"
X25519 == "X25519"

VARIABLES
    features,       \* enabled base::Features, fixed at start-up
    honest,         \* TRUE: every retry configuration returned has the current key
    sslConfig,      \* sslConfig[c]: the SSLConfig of connection c
    intended,       \* history: intended[c], the SSLConfig as it was prepared
    ssl,            \* ssl[c]: settings of its SSL object
    ctx,            \* settings of the SSL_CTX
    phase,          \* phase[c]: how far connection c is
    recorded,       \* recorded[c]: Net.ECH.Result samples c gave rise to
    info,           \* info[c]: its SSLInfo
    serverKey, rotations,
    retries         \* retries[c]: how often c sent another ClientHello

boot == <<features, honest>>

configs == <<sslConfig, intended>>

vars == <<boot, configs, ssl, ctx, phase, recorded, info,
          serverKey, rotations, retries>>

FeatureName == {"ECH", "PQ", "EarlyData", "Permute", "KeyUpdate"}

Result == {"Success", "FailedRetry", "FailedFallback", "NoConfig", "NotAttempted"}

Profile == {"Balanced", "Secure", "Compatible"}

ASSUME ListsAssumption ==
    /\ Lists \subseteq Seq(ListItem)
    /\ RetryLists \subseteq Seq(ListItem)
    /\ FeatureSets \subseteq SUBSET FeatureName

DefaultConfig ==
    [list |-> NoList, grease |-> FALSE, early |-> FALSE,
     key_update_interval |-> 0, groups |-> <<>>]

FreshSSL == [keys |-> {}, grease |-> FALSE, early |-> FALSE, key_update_interval |-> 0]

Init ==
    /\ features \in FeatureSets
    /\ honest \in BOOLEAN
    /\ sslConfig = [c \in Conn |-> DefaultConfig]
    /\ intended = sslConfig
    /\ ssl = [c \in Conn |-> FreshSSL]
    /\ ctx = [groups |-> <<X25519>>, callback |-> FALSE, permute |-> FALSE]
    /\ phase = [c \in Conn |-> "new"]
    /\ recorded = [c \in Conn |-> <<>>]
    /\ info = [c \in Conn |-> [ech_accepted |-> FALSE, post_quantum |-> FALSE]]
    /\ serverKey \in Key
    /\ rotations = 0
    /\ retries = [c \in Conn |-> 0]

-----------------------------------------------------------------------------
\* ConfigureKiwiSSLProfile.
WithProfile(config, p) ==
    [config EXCEPT
        !.grease = p # "Compatible",
        !.early = p # "Compatible",
        !.key_update_interval =
            CASE p = "Balanced" -> 100 [] p = "Secure" -> 50 [] p = "Compatible" -> 0,
        !.groups =
            CASE p = "Balanced" -> <<Kyber, X25519>>
              [] p = "Secure" -> <<Kyber>>
              [] p = "Compatible" -> <<X25519>>]

WithList(config, list) == IF list = NoList THEN config ELSE [config EXCEPT !.list = list]

\* ConfigureSSLForRequest when p is Balanced; an embedder may call
\* ConfigureKiwiSSLProfile with another profile.
Prepare(c, list, p) ==
    /\ phase[c] = "new"
    /\ phase' = [phase EXCEPT ![c] = "prepared"]
    /\ sslConfig' = [sslConfig EXCEPT ![c] = WithProfile(WithList(@, list), p)]
    /\ intended' = [intended EXCEPT ![c] = sslConfig'[c]]
    /\ UNCHANGED <<boot, ssl, ctx, recorded, info, serverKey, rotations, retries>>

\* What of an SSLConfig the Mojo message carries, and what the network service
\* takes from it: GREASE, the key-update interval and the permutation are not.
SerializeSSLConfig(config) ==
    [list |-> config.list, groups |-> config.groups, early |-> config.early,
     permute |-> "Permute" \in features]

\* Faulty variant of DeserializeSSLConfig: the list is not copied.
DeserializeForgetsList(mojo, config) ==
    [config EXCEPT !.groups = mojo.groups, !.early = mojo.early]

DeserializeSSLConfig(mojo, config) ==
    [config EXCEPT !.list = mojo.list, !.groups = mojo.groups, !.early = mojo.early]

\* The request crosses to the network service, whose own SSLConfig for it is new.
CrossToNetworkService(c) ==
    /\ phase[c] = "prepared"
    /\ phase' = [phase EXCEPT ![c] = "crossed"]
    /\ sslConfig' = [sslConfig EXCEPT
          ![c] = DeserializeSSLConfig(SerializeSSLConfig(@), DefaultConfig)]
    /\ UNCHANGED <<boot, intended, ssl, ctx, recorded, info, serverKey, rotations, retries>>

(***************************************************************************)
(* ECHManager::ConfigureECH: what it leaves in the SSL object and which    *)
(* sample it records.  newOk and setOk are the outcomes of SSL_ECH_KEYS_   *)
(* new and SSL_set_ech_keys.                                               *)
(***************************************************************************)
ConfigureECH(list, newOk, setOk) ==
    CASE "ECH" \notin features ->
           [keys |-> {}, grease |-> FALSE, results |-> <<"NotAttempted">>]
      [] "ECH" \in features /\ list = NoList ->
           [keys |-> {}, grease |-> TRUE, results |-> <<"NoConfig">>]
      [] "ECH" \in features /\ list # NoList /\ ~newOk ->
           [keys |-> {}, grease |-> FALSE, results |-> <<"FailedFallback">>]
      [] "ECH" \in features /\ list # NoList /\ newOk
           /\ (ConfiguredKeys(list) = {} \/ ~setOk) ->
           [keys |-> {}, grease |-> TRUE, results |-> <<"FailedFallback">>]
      [] OTHER ->
           [keys |-> ConfiguredKeys(list), grease |-> FALSE, results |-> <<>>]

\* Faulty variant of EnableECHGrease: the second step of ConfigureKiwiSSL is lost.
EnableECHGreaseSkipped(grease) == grease

EnableECHGrease(grease) == grease \/ "ECH" \in features

\* ConfigureKyber; SSL_CTX_set1_groups_list may fail and then changes nothing.
ConfigureKyber(groups, groupsOk) ==
    IF "PQ" \in features /\ groupsOk THEN <<Kyber, X25519>> ELSE groups

ConfigureKiwiSSL(c, newOk, setOk, groupsOk) ==
    LET config == sslConfig[c]
        ech == ConfigureECH(config.list, newOk, setOk)
    IN  /\ phase[c] \in {"prepared", "crossed"}
        /\ phase' = [phase EXCEPT ![c] = "handshake"]
        /\ ssl' = [ssl EXCEPT ![c] =
                     [keys |-> ech.keys,
                      grease |-> EnableECHGrease(ech.grease),
                      early |-> "EarlyData" \in features /\ config.early,
                      key_update_interval |->
                          IF "KeyUpdate" \in features THEN config.key_update_interval ELSE 0]]
        /\ recorded' = [recorded EXCEPT ![c] = @ \o ech.results]
        /\ ctx' = [groups |-> ConfigureKyber(ctx.groups, groupsOk),
                   callback |-> TRUE,
                   permute |-> ctx.permute \/ "Permute" \in features]
        /\ UNCHANGED <<boot, configs, info, serverKey, rotations, retries>>

\* ConfigureECHForQuicSession: GREASE only together with real keys, and no
\* sample recorded.
ConfigureQuic(c, newOk, setOk) ==
    LET list == sslConfig[c].list
        configured == "ECH" \in features /\ newOk /\ setOk /\ ConfiguredKeys(list) # {}
    IN  /\ phase[c] \in {"prepared", "crossed"}
        /\ phase' = [phase EXCEPT ![c] = "quic"]
        /\ ssl' = [ssl EXCEPT ![c].keys = IF configured THEN ConfiguredKeys(list) ELSE {},
                              ![c].grease = configured]
        /\ UNCHANGED <<boot, configs, ctx, recorded, info, serverKey, rotations, retries>>

-----------------------------------------------------------------------------
\* The server rejects ECH and returns list (NoList: nothing).
Rejected(c, list) ==
    /\ phase[c] = "handshake"
    /\ ssl[c].keys # {}
    /\ serverKey \notin ssl[c].keys
    /\ ctx.callback
    /\ honest => list # NoList /\ serverKey \in RetryKeys(list)
    /\ retries[c] < MaxRejections

\* Faulty variant of RetryAbort: the retry is counted before it is known to go out.
RetryAbortCountsRetry(c, list, newOk, setOk) ==
    /\ Rejected(c, list)
    /\ list = NoList \/ ~newOk \/ RetryKeys(list) = {} \/ ~setOk
    /\ phase' = [phase EXCEPT ![c] = "aborted"]
    /\ recorded' = [recorded EXCEPT ![c] =
                      Append(@, IF list = NoList THEN "FailedFallback" ELSE "FailedRetry")]
    /\ UNCHANGED <<boot, configs, ssl, ctx, info, serverKey, rotations, retries>>

\* ECHRetryCallback returns ssl_ech_retry_abort.
RetryAbort(c, list, newOk, setOk) ==
    /\ Rejected(c, list)
    /\ list = NoList \/ ~newOk \/ RetryKeys(list) = {} \/ ~setOk
    /\ phase' = [phase EXCEPT ![c] = "aborted"]
    /\ recorded' = IF list = NoList
                     THEN [recorded EXCEPT ![c] = Append(@, "FailedFallback")]
                     ELSE recorded
    /\ UNCHANGED <<boot, configs, ssl, ctx, info, serverKey, rotations, retries>>

\* Faulty variant of RetryRetry: the new keys are read but not set.
RetryRetryKeepsKeys(c, list) ==
    /\ Rejected(c, list)
    /\ list # NoList
    /\ RetryKeys(list) # {}
    /\ recorded' = [recorded EXCEPT ![c] = Append(@, "FailedRetry")]
    /\ retries' = [retries EXCEPT ![c] = @ + 1]
    /\ UNCHANGED <<boot, configs, ssl, ctx, phase, info, serverKey, rotations>>

\* ECHRetryCallback returns ssl_ech_retry_retry: the keys are replaced and
\* another ClientHello goes out.
RetryRetry(c, list) ==
    /\ Rejected(c, list)
    /\ list # NoList
    /\ RetryKeys(list) # {}
    /\ ssl' = [ssl EXCEPT ![c].keys = RetryKeys(list)]
    /\ recorded' = [recorded EXCEPT ![c] = Append(@, "FailedRetry")]
    /\ retries' = [retries EXCEPT ![c] = @ + 1]
    /\ UNCHANGED <<boot, configs, ctx, phase, info, serverKey, rotations>>

\* ConfigureECHForQuicSession installs no callback: a rejection ends it.
QuicRejected(c) ==
    /\ phase[c] = "quic"
    /\ ssl[c].keys # {}
    /\ serverKey \notin ssl[c].keys
    /\ phase' = [phase EXCEPT ![c] = "aborted"]
    /\ UNCHANGED <<boot, configs, ssl, ctx, recorded, info, serverKey, rotations, retries>>

\* The handshake completes with one of the groups on offer and
\* AnalyzeKiwiSSLResult reads it.
Establish(c, group) ==
    /\ phase[c] \in {"handshake", "quic"}
    /\ ssl[c].keys = {} \/ serverKey \in ssl[c].keys
    /\ phase' = [phase EXCEPT ![c] = "established"]
    /\ info' = [info EXCEPT ![c] = [ech_accepted |-> ssl[c].keys # {},
                                    post_quantum |-> group = Kyber]]
    /\ UNCHANGED <<boot, configs, ssl, ctx, recorded, serverKey, rotations, retries>>

RotateKey(k) ==
    /\ rotations < MaxRotations
    /\ k # serverKey
    /\ serverKey' = k
    /\ rotations' = rotations + 1
    /\ UNCHANGED <<boot, configs, ssl, ctx, phase, recorded, info, retries>>

Handshake(c) ==
    \/ \E list \in RetryLists \cup {NoList}, newOk, setOk \in BOOLEAN :
          RetryAbort(c, list, newOk, setOk)
    \/ \E list \in RetryLists : RetryRetry(c, list)
    \/ QuicRejected(c)
    \/ \E group \in ToSet(ctx.groups) : Establish(c, group)

Configure(c) ==
    \/ \E list \in Lists \cup {NoList}, p \in Profile : Prepare(c, list, p)
    \/ CrossToNetworkService(c)
    \/ \E newOk, setOk, groupsOk \in BOOLEAN : ConfigureKiwiSSL(c, newOk, setOk, groupsOk)
    \/ \E newOk, setOk \in BOOLEAN : ConfigureQuic(c, newOk, setOk)

Next ==
    \/ \E c \in Conn : Configure(c) \/ Handshake(c)
    \/ \E k \in Key : RotateKey(k)

Spec == Init /\ [][Next]_vars

-----------------------------------------------------------------------------
\* What the settings, samples and phases are; in particular the keys of an SSL
\* object are ones SSL_ECH_KEYS_add accepted.
SSLTypeOK ==
    /\ features \subseteq FeatureName
    /\ \A c \in Conn :
         /\ ssl[c].keys \subseteq Key
         /\ ssl[c].grease \in BOOLEAN /\ ssl[c].early \in BOOLEAN
         /\ ssl[c].key_update_interval \in {0, 50, 100}
         /\ phase[c] \in {"new", "prepared", "crossed", "handshake", "quic", "aborted", "established"}
         /\ recorded[c] \in Seq(Result)
         /\ retries[c] \in 0..MaxRejections
    /\ serverKey \in Key
    /\ rotations \in 0..MaxRotations

(***************************************************************************)
(* A TLS connection made while ECH is enabled always carries an ECH        *)
(* extension, real or GREASE, whichever step of its configuration failed   *)
(* (ssl_client_socket.cc:191-192 and 402); with ECH disabled it never      *)
(* does.                                                                   *)
(***************************************************************************)
GreaseExactlyWhenEnabled ==
    \A c \in Conn :
        phase[c] = "handshake" =>
            /\ ssl[c].grease <=> "ECH" \in features
            /\ ssl[c].keys # {} => ssl[c].grease

(***************************************************************************)
(* The samples a connection leaves in Net.ECH.Result tell one story: any   *)
(* number of retries, then at most one fallback; a connection counted as   *)
(* having no configuration, no attempt or a failed configuration offered   *)
(* no ECH and is counted no further; one whose ECH was accepted is counted *)
(* for its retries only, whatever other connections of the shared SSL_CTX  *)
(* do and however the server answers.                                      *)
(***************************************************************************)
SamplesAreConsistent ==
    \A c \in Conn :
        LET r == recorded[c] IN
        /\ \A i \in 1..Len(r) - 1 : r[i] = "FailedRetry"
        /\ Cardinality({i \in DOMAIN r : r[i] = "FailedRetry"}) = retries[c]
        /\ r # <<>> /\ ssl[c].keys = {} =>
             Len(r) = 1 /\ r[1] \in {"NotAttempted", "NoConfig", "FailedFallback"}
        /\ r # <<>> /\ Last(r) = "FailedFallback" /\ ssl[c].keys # {} =>
             phase[c] = "aborted"
        /\ info[c].ech_accepted => \A i \in DOMAIN r : r[i] = "FailedRetry"

(***************************************************************************)
(* With an honest server a connection sends at most one extra ClientHello  *)
(* for each key the server has had: retries are caused by rotations and by *)
(* nothing else.                                                           *)
(***************************************************************************)
RetriesBoundedByRotations ==
    honest => \A c \in Conn : retries[c] <= rotations + 1

(***************************************************************************)
(* Whatever process a connection is made in, it offers what was prepared   *)
(* for it: the keys of the prepared list, or none and a recorded failure   *)
(* (ssl_client_socket.cc:129-187), never the sample of a connection for    *)
(* which there was no list; and 0-RTT as prepared.  Of the settings the    *)
(* Mojo message leaves out, only the key-update interval reaches an SSL    *)
(* object, and it is lost or whole.                                        *)
(***************************************************************************)
OffersWhatWasPrepared ==
    \A c \in Conn :
        phase[c] = "handshake" /\ retries[c] = 0 =>
            /\ ssl[c].keys \in {{}, ConfiguredKeys(intended[c].list)}
            /\ ssl[c].keys = {} /\ "ECH" \in features /\ intended[c].list # NoList =>
                 recorded[c] = <<"FailedFallback">>
            /\ ssl[c].early <=> "EarlyData" \in features /\ intended[c].early
            /\ ssl[c].key_update_interval \in {0, intended[c].key_update_interval}

-----------------------------------------------------------------------------
(***************************************************************************)
(* security_threat_model.md (T5, 3.2): at most three retries, then         *)
(* fallback - said here of a server that does nothing but rotate its key   *)
(* and return the current one.                                             *)
(***************************************************************************)
AtMostThreeRetries == honest => \A c \in Conn : retries[c] <= 3
=============================================================================
