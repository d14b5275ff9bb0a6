--------------------------- MODULE ECHConnections ---------------------------
(***************************************************************************)
(* Connections, the retry cache, the degradation monitor and the Android   *)
(* network observer at work together.                                      *)
(*                                                                         *)
(* Several connections run HandleECHRetry (ech_retry_handler.cc:127-173)   *)
(* at once, each from its own sequence; the cache and the monitor lock     *)
(* only themselves, so the steps of different connections, and the two     *)
(* clearing steps of AndroidNetworkStateObserver (android_network_config.  *)
(* cc:45-83), interleave between critical sections.  A QUIC session asks   *)
(* the cache whether it may send early data (quic_ech_integration.cc:105)  *)
(* and shakes hands afterwards.                                            *)
(*                                                                         *)
(* ECH is enabled (kEncryptedClientHello): without it HandleECHRetry       *)
(* returns at once and nothing is stored or recorded.                      *)
(*                                                                         *)
(* External: SSLClientSocket, which the comments say calls these functions *)
(* (configuration before the handshake, HandleECHRetry after a failed one, *)
(* RecordResult at its end), and QuicSessionPool in its place; the         *)
(* servers, whose ECH keys rotate; DNS, whose records may lag behind them. *)
(***************************************************************************)
EXTENDS Integers, Sequences, FiniteSets

CONSTANTS
    Host, Conn,
    Nak,                \* network anonymization keys, by which requests find what DNS said
    NoConfig, NoReply, Capacity, TTL, MaxNow,       \* of the cache
    FailureLimit, MinAttempts, MinRate,             \* of the monitor
    NetworkType,        \* the connection types the platform may report
    MaxRotations,       \* bound on the key rotations of a server
    MaxAttempts,        \* bound on the connections attempted in a run
    MaxChanges          \* bound on the network changes of a run

\* The n-th ECH configuration of a host's server.
Config == Host \X (0..MaxRotations)

ASSUME ConnectionsAssumption ==
    /\ Capacity \in Nat \ {0} /\ TTL \in Nat /\ MaxNow \in Nat
    /\ MaxRotations \in Nat /\ MaxChanges \in Nat
    /\ IsFiniteSet(Conn)
    /\ FailureLimit \in Nat \ {0} /\ MinAttempts \in Nat \ {0} /\ MinRate \in 0..100
    /\ 100 * FailureLimit <= (100 - MinRate) * MinAttempts /\ MaxAttempts \in Nat
    /\ NoConfig \notin Config \cup Host \cup Conn

\* The types OnNetworkChanged passes on (lines 47-49).
HandledType == {"WIFI", "4G", "5G"}

VARIABLES
    entries, now, reply,    \* ECHRetryConfigCache
    stats,                  \* ECHDegradationMonitor
    rotation,               \* rotation[h]: the key h's server has now
    dns,                    \* dns[k]: what requests under k are configured with
    conn,                   \* conn[c]: the connection in progress
    attempts,
    network,                \* the connection type the platform reports
    current_connection,     \* the observer's current_connection_
    observer,               \* where OnActiveNetworkChanged is
    changes,
    switches,               \* history: switches the observer has acted on
    stored,                 \* history: stored[h]: the switches when h's entry was stored, and
                            \* by which connection, if one of an older network
    counted                 \* history: the results counted in stats[h]

Cache == INSTANCE ECHRetryCache
Monitor == INSTANCE ECHDegradation WITH MaxTotal <- MaxAttempts

cacheVars == <<entries, now, reply>>
observerVars == <<network, current_connection, observer, changes, switches>>

vars == <<cacheVars, stats, rotation, dns, conn, attempts, observerVars,
          stored, counted>>

Idle == [pc |-> "idle", host |-> NoConfig, key |-> NoConfig, retry |-> NoConfig,
         early |-> FALSE, started |-> 0]

ServerConfig(h) == <<h, rotation[h]>>

Init ==
    /\ Cache!CacheInit
    /\ Monitor!MonitorInit
    /\ rotation = [h \in Host |-> 0]
    /\ dns = [k \in Nak |-> NoConfig]
    /\ conn = [c \in Conn |-> Idle]
    /\ attempts = 0
    /\ network \in NetworkType
    /\ current_connection = network
    /\ observer = "idle"
    /\ changes = 0
    /\ switches = 0
    /\ stored = [h \in Host |-> [switch |-> 0, late |-> {}]]
    /\ counted = [h \in Host |-> <<>>]

At(c, pc) == conn[c].pc = pc

-----------------------------------------------------------------------------
(***************************************************************************)
(* ConfigureSSLForRequest and ConfigureKiwiSSL: the key offered is what    *)
(* the resolve context holds for the request's anonymization key           *)
(* (GetEchConfigForRequest), whichever host it was stored for.  Neither    *)
(* the cache nor the monitor is asked.                                     *)
(***************************************************************************)
Connect(c, h, k) ==
    /\ At(c, "idle")
    /\ attempts < MaxAttempts
    /\ attempts' = attempts + 1
    /\ conn' = [conn EXCEPT ![c] =
                  [pc |-> "hello", host |-> h, key |-> dns[k], retry |-> NoConfig,
                   early |-> FALSE, started |-> switches]]
    /\ UNCHANGED <<cacheVars, stats, rotation, dns, observerVars, stored, counted>>

\* Faulty variant of CanUse0RttWithECH: the cached configuration is looked up
\* and not compared.
CanUse0RttUncompared(h, current, can) ==
    \/ current = NoConfig /\ can /\ UNCHANGED cacheVars
    \/ current # NoConfig /\ can /\ (Cache!GetMiss(h) \/ Cache!GetExpired(h) \/ Cache!GetHit(h))

(***************************************************************************)
(* can is the answer for a session that would use current: yes unless the  *)
(* cache holds another configuration.  The lookup refreshes the entry, or  *)
(* drops it when it has expired.                                           *)
(***************************************************************************)
CanUse0RttWithECH(h, current, can) ==
    \/ current = NoConfig /\ can /\ UNCHANGED cacheVars
    \/ /\ current # NoConfig
       /\ Cache!GetMiss(h) \/ Cache!GetExpired(h) \/ Cache!GetHit(h)
       /\ can <=> reply' \in {NoConfig, current}

\* QuicSessionPool creates a session: the 0-RTT check, then the configuration.
ConnectQuic(c, h, k) ==
    /\ At(c, "idle")
    /\ attempts < MaxAttempts
    /\ attempts' = attempts + 1
    /\ \E can \in BOOLEAN :
         /\ CanUse0RttWithECH(h, dns[k], can)
         /\ conn' = [conn EXCEPT ![c] =
                       [pc |-> "quic", host |-> h, key |-> dns[k], retry |-> NoConfig,
                        early |-> can, started |-> switches]]
    /\ UNCHANGED <<stats, rotation, dns, observerVars, stored, counted>>

\* The server accepts ECH, rejects it (another host's key, or an old one of its
\* own) with or without a retry configuration, or, offered none, completes a
\* handshake without it.
ServerAnswer(c) ==
    /\ At(c, "hello")
    /\ LET h == conn[c].host IN
       \/ /\ conn[c].key = NoConfig
          /\ conn' = [conn EXCEPT ![c].pc = "plain"]
       \/ /\ conn[c].key = ServerConfig(h)
          /\ conn' = [conn EXCEPT ![c].pc = "accepted"]
       \/ /\ conn[c].key \notin {NoConfig, ServerConfig(h)}
          /\ \E retry \in {NoConfig, ServerConfig(h)} :
               conn' = [conn EXCEPT ![c].pc = "rejected", ![c].retry = retry]
    /\ UNCHANGED <<cacheVars, stats, rotation, dns, attempts, observerVars,
                   stored, counted>>

\* A QUIC session has no retry callback: a rejection is its end.
QuicAnswer(c) ==
    /\ At(c, "quic")
    /\ LET h == conn[c].host IN
       conn' = [conn EXCEPT ![c].pc = CASE conn[c].key = NoConfig -> "plain"
                                        [] conn[c].key = ServerConfig(h) -> "accepted"
                                        [] OTHER -> "error"]
    /\ UNCHANGED <<cacheVars, stats, rotation, dns, attempts, observerVars,
                   stored, counted>>

\* ECHRetryCallback applies the configuration and retries (the cache is not
\* told), or aborts: it has none or cannot use it.
ECHRetryCallback(c) ==
    /\ At(c, "rejected")
    /\ \/ /\ conn[c].retry # NoConfig
          /\ conn' = [conn EXCEPT ![c].pc = "hello", ![c].key = conn[c].retry,
                                  ![c].retry = NoConfig]
       \/ conn' = [conn EXCEPT ![c].pc = "failed"]
    /\ UNCHANGED <<cacheVars, stats, rotation, dns, attempts, observerVars,
                   stored, counted>>

\* Faulty variant of HandleECHRetryFallback: the same key is tried again.
FallbackTriesAgain(c) ==
    /\ At(c, "failed")
    /\ conn[c].retry = NoConfig
    /\ conn' = [conn EXCEPT ![c].pc = "hello"]
    /\ UNCHANGED <<cacheVars, stats, rotation, dns, attempts, observerVars,
                   stored, counted>>

\* HandleECHRetry, first part: ERR_ECH_FALLBACK without a retry
\* configuration, otherwise the Store, which comes before the keys are tried.
HandleECHRetryFallback(c) ==
    /\ At(c, "failed")
    /\ conn[c].retry = NoConfig
    /\ conn' = [conn EXCEPT ![c].pc = "fallback"]
    /\ UNCHANGED <<cacheVars, stats, rotation, dns, attempts, observerVars,
                   stored, counted>>

InFlightAtSwitch(c) == ~At(c, "idle") /\ conn[c].started < switches

StoredNow(c) == [switch |-> switches, late |-> {d \in {c} : InFlightAtSwitch(d)}]

\* Faulty variants of HandleECHRetryStore: the configuration is cached for the
\* host whose key was offered; an empty one is cached.
StoreForTheKeysHost(c) ==
    LET h == conn[c].key[1] IN
    /\ At(c, "failed")
    /\ conn[c].retry # NoConfig
    /\ Cache!Store(h, conn[c].retry)
    /\ stored' = [stored EXCEPT ![h] = StoredNow(c)]
    /\ conn' = [conn EXCEPT ![c].pc = "apply"]
    /\ UNCHANGED <<stats, rotation, dns, attempts, observerVars, counted>>

StoreEvenNothing(c) ==
    LET h == conn[c].host IN
    /\ At(c, "failed")
    /\ Cache!Store(h, conn[c].retry)
    /\ stored' = [stored EXCEPT ![h] = StoredNow(c)]
    /\ conn' = [conn EXCEPT ![c].pc = "apply"]
    /\ UNCHANGED <<stats, rotation, dns, attempts, observerVars, counted>>

HandleECHRetryStore(c) ==
    LET h == conn[c].host IN
    /\ At(c, "failed")
    /\ conn[c].retry # NoConfig
    /\ Cache!Store(h, conn[c].retry)
    /\ stored' = [stored EXCEPT ![h] = StoredNow(c)]
    /\ conn' = [conn EXCEPT ![c].pc = "apply"]
    /\ UNCHANGED <<stats, rotation, dns, attempts, observerVars, counted>>

\* Faulty variant of HandleECHRetryApply: the configuration is read again from
\* the front of the shared cache.
ApplyFromFront(c) ==
    /\ At(c, "apply")
    /\ entries # <<>>
    /\ conn' = [conn EXCEPT ![c].pc = "hello", ![c].key = Head(entries).config,
                            ![c].retry = NoConfig]
    /\ UNCHANGED <<cacheVars, stats, rotation, dns, attempts, observerVars,
                   stored, counted>>

\* Second part: the keys are created, filled and set (OK, the caller shakes
\* hands again), or one of the three fails (ERR_FAILED).
HandleECHRetryApply(c) ==
    /\ At(c, "apply")
    /\ \/ conn' = [conn EXCEPT ![c].pc = "hello", ![c].key = conn[c].retry,
                               ![c].retry = NoConfig]
       \/ conn' = [conn EXCEPT ![c].pc = "error"]
    /\ UNCHANGED <<cacheVars, stats, rotation, dns, attempts, observerVars,
                   stored, counted>>

\* Faulty variant of RecordResult: the connection may report its end twice.
RecordResultAgain(c) ==
    LET h == conn[c].host
        success == At(c, "accepted")
    IN  /\ conn[c].pc \in {"accepted", "fallback", "error"}
        /\ Monitor!RecordResult(h, success)
        /\ counted' = [counted EXCEPT ![h] =
                         Append(@, [conn |-> c, started |-> conn[c].started, switch |-> switches])]
        /\ UNCHANGED <<cacheVars, rotation, dns, conn, attempts, observerVars, stored>>

\* The end of a connection that attempted ECH: its result is recorded.
RecordResult(c) ==
    LET h == conn[c].host
        success == At(c, "accepted")
    IN  /\ conn[c].pc \in {"accepted", "fallback", "error"}
        /\ Monitor!RecordResult(h, success)
        /\ counted' = [counted EXCEPT ![h] =
                         Append(@, [conn |-> c, started |-> conn[c].started, switch |-> switches])]
        /\ conn' = [conn EXCEPT ![c] = Idle]
        /\ UNCHANGED <<cacheVars, rotation, dns, attempts, observerVars, stored>>

FinishPlain(c) ==
    /\ At(c, "plain")
    /\ conn' = [conn EXCEPT ![c] = Idle]
    /\ UNCHANGED <<cacheVars, stats, rotation, dns, attempts, observerVars,
                   stored, counted>>

-----------------------------------------------------------------------------
\* OnNetworkChanged and the first part of OnActiveNetworkChanged.  A switch
\* to a type that is not handled, or to the one last handled, does nothing.
OnNetworkChanged(type) ==
    /\ observer = "idle"
    /\ changes < MaxChanges
    /\ type # network
    /\ network' = type
    /\ changes' = changes + 1
    /\ IF type \in HandledType /\ type # current_connection
         THEN /\ current_connection' = type
              /\ switches' = switches + 1
              /\ Monitor!ClearAll
              /\ counted' = [h \in Host |-> <<>>]
              /\ observer' = "stats cleared"
         ELSE UNCHANGED <<current_connection, switches, stats, counted, observer>>
    /\ UNCHANGED <<cacheVars, rotation, dns, conn, attempts, stored>>

\* Faulty variant of ObserverClearCache: only the statistics are cleared.
ObserverKeepsCache ==
    /\ observer = "stats cleared"
    /\ observer' = "idle"
    /\ UNCHANGED <<cacheVars, stats, rotation, dns, conn, attempts, network,
                   current_connection, changes, switches, stored, counted>>

\* Its second part.
ObserverClearCache ==
    /\ observer = "stats cleared"
    /\ Cache!Clear
    /\ observer' = "idle"
    /\ UNCHANGED <<stats, rotation, dns, conn, attempts, network,
                   current_connection, changes, switches, stored, counted>>

\* OnQuicConnectionMigrationWithECH.
OnQuicConnectionMigrationWithECH(h) ==
    /\ Monitor!Reset(h)
    /\ counted' = [counted EXCEPT ![h] = <<>>]
    /\ UNCHANGED <<cacheVars, rotation, dns, conn, attempts, observerVars, stored>>

\* The server's key and the DNS record that carries it.
RotateKey(h) ==
    /\ rotation[h] < MaxRotations
    /\ rotation' = [rotation EXCEPT ![h] = @ + 1]
    /\ UNCHANGED <<cacheVars, stats, dns, conn, attempts, observerVars,
                   stored, counted>>

\* ProcessHttpsRecord, for h resolved under k.
RefreshDns(h, k) ==
    /\ dns' = [dns EXCEPT ![k] = ServerConfig(h)]
    /\ UNCHANGED <<cacheVars, stats, rotation, conn, attempts, observerVars,
                   stored, counted>>

\* The clock, by which cached configurations expire.
Tick ==
    /\ Cache!Tick
    /\ UNCHANGED <<stats, rotation, dns, conn, attempts, observerVars, stored, counted>>

Progress(c) ==
    \/ ServerAnswer(c)
    \/ QuicAnswer(c)
    \/ ECHRetryCallback(c)
    \/ HandleECHRetryFallback(c)
    \/ HandleECHRetryStore(c)
    \/ HandleECHRetryApply(c)
    \/ RecordResult(c)
    \/ FinishPlain(c)

Next ==
    \/ \E c \in Conn : \/ Progress(c)
                       \/ \E h \in Host, k \in Nak : Connect(c, h, k) \/ ConnectQuic(c, h, k)
    \/ \E type \in NetworkType : OnNetworkChanged(type)
    \/ ObserverClearCache
    \/ Tick
    \/ \E h \in Host : \/ OnQuicConnectionMigrationWithECH(h)
                       \/ RotateKey(h)
                       \/ \E k \in Nak : RefreshDns(h, k)

Spec == Init /\ [][Next]_vars

\* A connection once begun, and the observer once called, run on; nothing
\* obliges anyone to connect, a network to change or a server to rotate.
FairSpec ==
    /\ Spec
    /\ \A c \in Conn : WF_vars(Progress(c))
    /\ WF_vars(ObserverClearCache)

-----------------------------------------------------------------------------
\* What cache, monitor, connections and observer hold; in particular nothing but
\* a configuration is ever cached (HandleECHRetry stores after its check).
ConnectionsTypeOK ==
    /\ Cache!CacheTypeOK
    /\ Monitor!MonitorTypeOK
    /\ rotation \in [Host -> 0..MaxRotations]
    /\ dns \in [Nak -> Config \cup {NoConfig}]
    /\ \A c \in Conn :
         /\ conn[c].pc \in {"idle", "hello", "quic", "plain", "accepted", "rejected",
                            "failed", "fallback", "apply", "error"}
         /\ conn[c].key \in Config \cup {NoConfig}
         /\ conn[c].retry \in Config \cup {NoConfig}
    /\ network \in NetworkType /\ current_connection \in NetworkType
    /\ observer \in {"idle", "stats cleared"}

(***************************************************************************)
(* The connections, the observer and the 0-RTT check use the cache and the *)
(* monitor as those are specified: whatever interleaves, what happens to   *)
(* entries and counters is a behaviour of ECHRetryConfigCache and one of   *)
(* ECHDegradationMonitor, so all that is shown of these holds here.        *)
(***************************************************************************)
PartsAreImplemented == Cache!CacheSpec /\ Monitor!MonitorSpec

(***************************************************************************)
(* A switch the observer acts on is complete: once it is idle, no cached   *)
(* configuration and no counted result is older than the last switch, even *)
(* though statistics and cache are cleared in two critical sections and    *)
(* connections store and record between them (android_network_config.cc:   *)
(* 72-80).                                                                 *)
(***************************************************************************)
SwitchLeavesNothingOld ==
    /\ \A h \in Host : \A i \in DOMAIN counted[h] : counted[h][i].switch = switches
    /\ observer = "idle" =>
         \A i \in DOMAIN entries : stored[entries[i].host].switch = switches

OldEntries(c) ==
    {i \in DOMAIN entries : c \in stored[entries[i].host].late}

(***************************************************************************)
(* A handshake that began on the network before may store its retry        *)
(* configuration between the two clearing steps or after them, and so      *)
(* bring what was learned there into the cache of the new network.  It     *)
(* does so for the host it is connected to only: one configuration per     *)
(* connection in flight at the switch, however often it retries            *)
(* (android_network_config.cc:74-79, ech_retry_handler.cc:149).            *)
(***************************************************************************)
OneOldConfigurationPerConnectionInFlight ==
    observer = "idle" =>
        \A c \in Conn :
            /\ \A i, j \in OldEntries(c) : i = j
            /\ InFlightAtSwitch(c) =>
                  \A i \in OldEntries(c) : entries[i].host = conn[c].host

\* A QUIC session may be sending early data under another configuration than the
\* one the cache holds for its host.
StaleEarlyData(c) ==
    /\ At(c, "quic") /\ conn[c].early /\ conn[c].key # NoConfig
    /\ \E i \in DOMAIN entries : entries[i].host = conn[c].host
                               /\ entries[i].config # conn[c].key

(***************************************************************************)
(* The 0-RTT check (quic_ech_integration.cc:105-124) is made before the    *)
(* session shakes hands, and what it read may change in between.  The one  *)
(* way early data becomes stale is a retry of a connection to the same     *)
(* host that stores the newer configuration meanwhile: no lookup,          *)
(* eviction, network switch, migration or DNS answer makes it so, and no   *)
(* session begins that way.                                                *)
(***************************************************************************)
EarlyDataGoesStaleOnlyByAStore ==
    [][\A c \in Conn :
         StaleEarlyData(c)' /\ ~StaleEarlyData(c) =>
            \E d \in Conn \ {c} :
               At(d, "failed") /\ At(d, "apply")' /\ conn[d].host = conn[c].host]_vars

Old(h, c) ==
    {i \in DOMAIN counted[h] : counted[h][i].conn = c /\ counted[h][i].started < switches}

(***************************************************************************)
(* Results of handshakes that began on the network before do reach the     *)
(* statistics of the new one, but at most one per connection that was in   *)
(* flight at the switch: less than FailureLimit connections in flight      *)
(* cannot disable a host that way.                                         *)
(***************************************************************************)
OneOldResultPerConnectionInFlight ==
    \A c \in Conn :
        /\ \A g, h \in Host : Old(g, c) # {} /\ Old(h, c) # {} => g = h
        /\ \A h \in Host : Cardinality(Old(h, c)) <= IF InFlightAtSwitch(c) THEN 0 ELSE 1

Served(h) == {h} \X (0..rotation[h])

(***************************************************************************)
(* Retrying makes progress: whenever a connection shakes hands again,      *)
(* whether the callback or HandleECHRetry made it, it offers a             *)
(* configuration of its own server, and a newer one when the rejected      *)
(* configuration was its server's too, which it need not be                *)
(* (ssl_client_socket.cc:264, ech_retry_handler.cc:162-170).               *)
(***************************************************************************)
RetriesMoveForward ==
    [][\A c \in Conn : ~At(c, "idle") /\ ~At(c, "hello") /\ At(c, "hello")' =>
         LET rejected == conn[c].key
             offered == conn'[c].key
             own == Served(conn[c].host)
         IN  offered \in own /\ (rejected \in own => offered[2] > rejected[2])]_vars

(***************************************************************************)
(* Every connection that begins ends, whatever is cleared, stored or       *)
(* switched meanwhile: neither path of the retry can go on for ever once   *)
(* the server's rotations have stopped.                                    *)
(***************************************************************************)
ConnectionsEnd == \A c \in Conn : ~At(c, "idle") ~> At(c, "idle")

=============================================================================
