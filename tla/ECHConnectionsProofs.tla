------------------------ MODULE ECHConnectionsProofs ------------------------
(***************************************************************************)
(* Connections over the shared cache and monitor, for any number of hosts, *)
(* connections, rotations and network changes.  What the cache does with   *)
(* its list is taken from its own proofs, of which Proved is the instance  *)
(* for this cache.                                                         *)
(***************************************************************************)
EXTENDS ECHConnections, FiniteSetTheorems, TLAPS

\* Only what is proved of cache and monitor themselves is cited; the histories
\* their modules keep for their own theorems have no part in it.
Proved == INSTANCE ECHRetryCacheProofs WITH last <- now, usedSince <- now, asked <- now
ProvedMonitor == INSTANCE ECHDegradationProofs WITH MaxTotal <- MaxAttempts, results <- stats

Pc == {"idle", "hello", "quic", "plain", "accepted", "rejected", "failed",
       "fallback", "apply", "error"}

ConnRecord ==
    [pc : Pc, host : Host \cup {NoConfig}, key : Config \cup {NoConfig},
     retry : Config \cup {NoConfig}, early : BOOLEAN, started : Nat]

Counted == [conn : Conn, started : Nat, switch : Nat]

Stored == [switch : Nat, late : SUBSET Conn]

Typed ==
    /\ Proved!CacheInv
    /\ Monitor!MonitorTypeOK
    /\ rotation \in [Host -> 0..MaxRotations]
    /\ dns \in [Nak -> Config \cup {NoConfig}]
    /\ conn \in [Conn -> ConnRecord]
    /\ network \in NetworkType /\ current_connection \in NetworkType
    /\ observer \in {"idle", "stats cleared"}
    /\ switches \in Nat
    /\ stored \in [Host -> Stored]
    /\ counted \in [Host -> Seq(Counted)]

\* A configuration that its own host's server has served.
WasServed(key) == key # NoConfig => key \in Served(key[1])

\* A connection in progress: the configuration it offers may be any host's, the
\* one it retries with is its server's.
Own(r) ==
    r.pc # "idle" =>
        /\ r.host \in Host
        /\ WasServed(r.key)
        /\ r.retry \in Served(r.host) \cup {NoConfig}
        /\ r.started <= switches

Hosted ==
    /\ \A i \in DOMAIN entries : entries[i].config \in Served(entries[i].host)
    /\ \A k \in Nak : WasServed(dns[k])
    /\ \A c \in Conn : Own(conn[c])

\* The counted results of c that began before the last switch.
OldAt(h, i, c) ==
    /\ h \in Host /\ i \in DOMAIN counted[h]
    /\ counted[h][i].conn = c /\ counted[h][i].started < switches

\* A connection that has an old result among those counted is no longer in
\* flight, and it has one.
Late ==
    \A c \in Conn :
        /\ \A h, i : OldAt(h, i, c) => ~InFlightAtSwitch(c)
        /\ \A g, h, i, j : OldAt(g, i, c) /\ OldAt(h, j, c) => g = h /\ i = j

\* The last store for h was made by c, for a handshake begun before the switch.
OldStore(h, c) == h \in Host /\ c \in stored[h].late /\ stored[h].switch = switches

\* A connection has made such a store for one host at most: while it is still in
\* flight, for the one it is connected to.
LateStores ==
    /\ \A h \in Host : stored[h].switch <= switches
    /\ \A c \in Conn :
         /\ \A h : OldStore(h, c) /\ InFlightAtSwitch(c) => h = conn[c].host
         /\ \A g, h : OldStore(g, c) /\ OldStore(h, c) => g = h

ConnectionsInv == Typed /\ Hosted /\ SwitchLeavesNothingOld /\ Late /\ LateStores

-----------------------------------------------------------------------------
\* The operations of the cache are those its proofs are about.
LEMMA SameCache ==
    /\ \A h, c : Cache!Store(h, c) <=> Proved!Store(h, c)
    /\ \A h : Cache!GetMiss(h) <=> Proved!GetMiss(h)
    /\ \A h : Cache!GetExpired(h) <=> Proved!GetExpired(h)
    /\ \A h : Cache!GetHit(h) <=> Proved!GetHit(h)
    /\ Cache!Clear <=> Proved!Clear
    /\ Cache!Tick <=> Proved!Tick
    /\ Cache!CacheInit <=> Proved!CacheInit
    /\ Cache!CacheTypeOK <=> Proved!CacheTypeOK
<1> USE DEF Cache!Holds, Proved!Holds, Cache!EntryOf, Proved!EntryOf,
            Cache!PositionOf, Proved!PositionOf, Cache!Erase, Proved!Erase,
            Cache!Cons, Proved!Cons, Cache!RemoveAt, Proved!RemoveAt
<1>1. \A h, c : Cache!Store(h, c) <=> Proved!Store(h, c)
  BY DEF Cache!Store, Proved!Store, Cache!Put, Proved!Put,
         Cache!ShrinkToSize, Proved!ShrinkToSize
<1>2. \A h : Cache!GetMiss(h) <=> Proved!GetMiss(h)
  BY DEF Cache!GetMiss, Proved!GetMiss
<1>3. \A h : Cache!GetExpired(h) <=> Proved!GetExpired(h)
  BY DEF Cache!GetExpired, Proved!GetExpired, Cache!Expired, Proved!Expired,
         Cache!Touch, Proved!Touch
<1>4. \A h : Cache!GetHit(h) <=> Proved!GetHit(h)
  BY DEF Cache!GetHit, Proved!GetHit, Cache!Expired, Proved!Expired,
         Cache!Touch, Proved!Touch
<1>5. (Cache!Clear <=> Proved!Clear) /\ (Cache!Tick <=> Proved!Tick)
  BY DEF Cache!Clear, Proved!Clear, Cache!Tick, Proved!Tick
<1>6. (Cache!CacheInit <=> Proved!CacheInit) /\ (Cache!CacheTypeOK <=> Proved!CacheTypeOK)
  BY DEF Cache!CacheInit, Proved!CacheInit, Cache!CacheTypeOK, Proved!CacheTypeOK,
         Cache!Entry, Proved!Entry
<1> QED BY <1>1, <1>2, <1>3, <1>4, <1>5, <1>6

\* What the cache needs to know of its parameters.
LEMMA CacheParameters ==
    /\ Capacity \in Nat \ {0}
    /\ NoConfig \notin Config /\ TTL \in Nat /\ MaxNow \in Nat
BY ConnectionsAssumption

\* Entries of a typed cache have a host and a configuration.
LEMMA EntryTyped ==
    ASSUME Typed, NEW i \in DOMAIN entries
    PROVE  entries[i].host \in Host /\ entries[i].config \in Config
<1>1. entries \in Seq(Proved!Entry)
  BY DEF Typed, Proved!CacheInv, Proved!CacheTypeOK
<1>2. entries[i] \in Proved!Entry
  BY <1>1
<1> QED BY <1>2 DEF Proved!Entry

LEMMA StoreStep ==
    ASSUME Typed, NEW h \in Host, NEW k \in Config, Cache!Store(h, k)
    PROVE  /\ Proved!CacheInv'
           /\ \A i \in DOMAIN entries' :
                \/ entries'[i].host = h /\ entries'[i].config = k
                \/ \E j \in DOMAIN entries : entries'[i] = entries[j]
<1>1. Proved!CacheInv /\ Proved!Store(h, k)
  BY SameCache DEF Typed
<1>2. Proved!CacheInv'
  BY <1>1, CacheParameters, Proved!CacheInvStep DEF Proved!CacheNext
<1>3. \A i \in DOMAIN entries' :
        \/ entries'[i] = [host |-> h, config |-> k, stored_at |-> now]
        \/ \E j \in DOMAIN entries : entries'[i] = entries[j]
  BY <1>1, CacheParameters, Proved!StoreElements
<1> QED BY <1>2, <1>3

LEMMA LookupStep ==
    ASSUME Typed, NEW h \in Host,
           Cache!GetMiss(h) \/ Cache!GetExpired(h) \/ Cache!GetHit(h)
    PROVE  /\ Proved!CacheInv'
           /\ \A i \in DOMAIN entries' :
                /\ \E j \in DOMAIN entries : entries'[i] = entries[j]
                /\ entries'[i].host = h => entries'[i].config = reply'
<1>1. Proved!CacheInv /\ (Proved!GetMiss(h) \/ Proved!GetExpired(h) \/ Proved!GetHit(h))
  BY SameCache DEF Typed
<1>2. Proved!CacheInv'
  BY <1>1, CacheParameters, Proved!CacheInvStep DEF Proved!CacheNext
<1>3. \A i \in DOMAIN entries' :
        /\ \E j \in DOMAIN entries : entries'[i] = entries[j]
        /\ entries'[i].host = h => entries'[i].config = reply'
  BY <1>1, CacheParameters, Proved!LookupElements
<1> QED BY <1>2, <1>3

-----------------------------------------------------------------------------
(***************************************************************************)
(* A step of a connection that neither begins it, stores nor records:      *)
(* only its own record changes, to one of the same host and start, or to   *)
(* Idle.                                                                   *)
(***************************************************************************)
OwnStep(c) ==
    /\ \E r \in ConnRecord :
         /\ conn' = [conn EXCEPT ![c] = r]
         /\ \/ r.pc = "idle"
            \/ /\ r.host = conn[c].host /\ r.started = conn[c].started
               /\ r.pc \notin {"idle", "quic"}
               /\ r.key \in {conn[c].key, conn[c].retry}
               /\ r.retry \in {conn[c].retry, ServerConfig(conn[c].host), NoConfig}
    /\ conn[c].pc # "idle"
    /\ UNCHANGED <<cacheVars, stats, rotation, dns, attempts, observerVars, stored, counted>>

\* What a host's server has served is that host's.
LEMMA ServedHere ==
    ASSUME NEW h, NEW x \in Served(h)
    PROVE  x[1] = h /\ x[2] \in 0..rotation[h] /\ WasServed(x)
<1>1. PICK n \in 0..rotation[h] : x = <<h, n>>
  BY DEF Served
<1>2. x[1] = h /\ x[2] = n
  BY <1>1
<1> QED BY <1>1, <1>2 DEF WasServed

\* A step without a store or a switch, in which connections stay with their host,
\* leaves the late stores what they are.
LEMMA LateStoresKept ==
    ASSUME LateStores, UNCHANGED <<stored, switches>>,
           \A d \in Conn : InFlightAtSwitch(d)' =>
              InFlightAtSwitch(d) /\ conn'[d].host = conn[d].host
    PROVE  LateStores'
BY DEF LateStores, OldStore

\* A host's server has served the key it has now.
LEMMA ServerServes ==
    ASSUME Typed, NEW h \in Host
    PROVE  /\ ServerConfig(h) \in Served(h) /\ Served(h) \subseteq Config
           /\ ServerConfig(h) \in Config /\ WasServed(ServerConfig(h))
<1>1. rotation[h] \in 0..MaxRotations
  BY DEF Typed
<1>2. rotation[h] \in 0..rotation[h] /\ 0..rotation[h] \subseteq 0..MaxRotations
  BY <1>1, ConnectionsAssumption
<1>3. ServerConfig(h) \in Served(h) /\ Served(h) \subseteq Config
  BY <1>2 DEF ServerConfig, Served, Config
<1> QED BY <1>3, ServedHere

LEMMA OwnSteps ==
    ASSUME Typed, Hosted, NEW c \in Conn,
           \/ ServerAnswer(c) \/ QuicAnswer(c) \/ ECHRetryCallback(c)
           \/ HandleECHRetryFallback(c) \/ HandleECHRetryApply(c) \/ FinishPlain(c)
    PROVE  OwnStep(c)
<1>1. conn \in [Conn -> ConnRecord] /\ conn[c] \in ConnRecord
  BY DEF Typed
<1>2. conn[c].pc # "idle" => conn[c].host \in Host /\ ServerConfig(conn[c].host) \in Config
  BY ServerServes DEF Hosted, Own
<1>3. ASSUME NEW r \in ConnRecord, conn' = [conn EXCEPT ![c] = r], conn[c].pc # "idle",
             r.host = conn[c].host, r.started = conn[c].started,
             r.pc \notin {"idle", "quic"},
             r.key \in {conn[c].key, conn[c].retry},
             r.retry \in {conn[c].retry, ServerConfig(conn[c].host), NoConfig},
             UNCHANGED <<cacheVars, stats, rotation, dns, attempts, observerVars, stored, counted>>
      PROVE  OwnStep(c)
  BY <1>3 DEF OwnStep
<1>4. CASE ServerAnswer(c)
  <2> DEFINE h == conn[c].host
  <2>1. conn[c].pc = "hello"
    BY <1>4 DEF ServerAnswer, At
  <2>2. PICK pc \in {"plain", "accepted", "rejected"},
             retry \in {conn[c].retry, NoConfig, ServerConfig(h)} :
               conn' = [conn EXCEPT ![c] = [conn[c] EXCEPT !.pc = pc, !.retry = retry]]
    <3>1. CASE conn' = [conn EXCEPT ![c].pc = "plain"]
      <4>1. [conn[c] EXCEPT !.pc = "plain", !.retry = conn[c].retry] = [conn[c] EXCEPT !.pc = "plain"]
        BY <1>1 DEF ConnRecord
      <4> QED BY <3>1, <4>1
    <3>2. CASE conn' = [conn EXCEPT ![c].pc = "accepted"]
      <4>1. [conn[c] EXCEPT !.pc = "accepted", !.retry = conn[c].retry]
              = [conn[c] EXCEPT !.pc = "accepted"]
        BY <1>1 DEF ConnRecord
      <4> QED BY <3>2, <4>1
    <3>3. CASE \E retry \in {NoConfig, ServerConfig(h)} :
                 conn' = [conn EXCEPT ![c].pc = "rejected", ![c].retry = retry]
      BY <1>1, <3>3
    <3> QED BY <1>4, <3>1, <3>2, <3>3 DEF ServerAnswer
  <2> DEFINE r == [conn[c] EXCEPT !.pc = pc, !.retry = retry]
  <2>3. /\ r \in ConnRecord /\ r.host = conn[c].host /\ r.started = conn[c].started
        /\ r.pc = pc /\ r.key = conn[c].key /\ r.retry = retry
    BY <1>1, <1>2, <2>1 DEF ConnRecord, Pc
  <2> HIDE DEF r
  <2>4. conn' = [conn EXCEPT ![c] = r]
    BY <2>2 DEF r
  <2> QED BY <1>3, <1>4, <2>1, <2>3, <2>4 DEF ServerAnswer
<1>5. CASE QuicAnswer(c)
  <2>1. conn[c].pc = "quic"
    BY <1>5 DEF QuicAnswer, At
  <2> DEFINE outcome == CASE conn[c].key = NoConfig -> "plain"
                          [] conn[c].key = ServerConfig(conn[c].host) -> "accepted"
                          [] OTHER -> "error"
  <2>2. PICK pc \in {"plain", "accepted", "error"} : conn' = [conn EXCEPT ![c].pc = pc]
    <3>1. outcome \in {"plain", "accepted", "error"}
      OBVIOUS
    <3>2. conn' = [conn EXCEPT ![c].pc = outcome]
      BY <1>5 DEF QuicAnswer
    <3> HIDE DEF outcome
    <3> QED BY <3>1, <3>2
  <2> DEFINE r == [conn[c] EXCEPT !.pc = pc]
  <2>3. /\ r \in ConnRecord /\ r.host = conn[c].host /\ r.started = conn[c].started
        /\ r.pc = pc /\ r.key = conn[c].key /\ r.retry = conn[c].retry
    BY <1>1 DEF ConnRecord, Pc
  <2>4. conn' = [conn EXCEPT ![c] = r]
    BY <2>2
  <2> HIDE DEF r
  <2> QED BY <1>3, <1>5, <2>1, <2>3, <2>4 DEF QuicAnswer
<1>6. ASSUME NEW pc \in {"hello", "failed", "error", "fallback"},
             \/ conn' = [conn EXCEPT ![c].pc = pc]
             \/ conn' = [conn EXCEPT ![c].pc = pc, ![c].key = conn[c].retry, ![c].retry = NoConfig],
             conn[c].pc # "idle",
             UNCHANGED <<cacheVars, stats, rotation, dns, attempts, observerVars, stored, counted>>
      PROVE  OwnStep(c)
  <2>1. CASE conn' = [conn EXCEPT ![c].pc = pc]
    <3> DEFINE r == [conn[c] EXCEPT !.pc = pc]
    <3>1. /\ r \in ConnRecord /\ r.host = conn[c].host /\ r.started = conn[c].started
          /\ r.pc = pc /\ r.key = conn[c].key /\ r.retry = conn[c].retry
      BY <1>1, <1>6 DEF ConnRecord, Pc
    <3>2. conn' = [conn EXCEPT ![c] = r]
      BY <2>1
    <3> HIDE DEF r
    <3> QED BY <1>3, <1>6, <3>1, <3>2
  <2>2. CASE conn' = [conn EXCEPT ![c].pc = pc, ![c].key = conn[c].retry, ![c].retry = NoConfig]
    <3> DEFINE r == [conn[c] EXCEPT !.pc = pc, !.key = conn[c].retry, !.retry = NoConfig]
    <3>1. /\ r \in ConnRecord /\ r.host = conn[c].host /\ r.started = conn[c].started
          /\ r.pc = pc /\ r.key = conn[c].retry /\ r.retry = NoConfig
      BY <1>1, <1>6 DEF ConnRecord, Pc
    <3>2. conn' = [conn EXCEPT ![c] = r]
      BY <1>1, <2>2
    <3> HIDE DEF r
    <3> QED BY <1>3, <1>6, <3>1, <3>2
  <2> QED BY <1>6, <2>1, <2>2
<1>7. CASE ECHRetryCallback(c)
  BY <1>6, <1>7 DEF ECHRetryCallback, At
<1>8. CASE HandleECHRetryFallback(c)
  BY <1>6, <1>8 DEF HandleECHRetryFallback, At
<1>9. CASE HandleECHRetryApply(c)
  BY <1>6, <1>9 DEF HandleECHRetryApply, At
<1>10. CASE FinishPlain(c)
  <2>1. Idle \in ConnRecord /\ Idle.pc = "idle"
    BY DEF Idle, ConnRecord, Pc
  <2> QED BY <1>10, <2>1 DEF FinishPlain, OwnStep, At
<1> QED BY <1>4, <1>5, <1>7, <1>8, <1>9, <1>10

-----------------------------------------------------------------------------
\* Such a step keeps all parts of the invariant.
LEMMA OwnStepKeeps ==
    ASSUME ConnectionsInv, NEW c \in Conn, OwnStep(c)
    PROVE  ConnectionsInv'
<1>1. /\ Typed /\ Hosted /\ SwitchLeavesNothingOld /\ Late /\ LateStores
      /\ conn \in [Conn -> ConnRecord] /\ conn[c].pc # "idle" /\ Own(conn[c])
  BY DEF ConnectionsInv, Typed, Hosted, OwnStep
<1>2. PICK r \in ConnRecord :
         /\ conn' = [conn EXCEPT ![c] = r]
         /\ \/ r.pc = "idle"
            \/ /\ r.host = conn[c].host /\ r.started = conn[c].started
               /\ r.pc \notin {"idle", "quic"}
               /\ r.key \in {conn[c].key, conn[c].retry}
               /\ r.retry \in {conn[c].retry, ServerConfig(conn[c].host), NoConfig}
  BY DEF OwnStep
<1>3. /\ UNCHANGED <<entries, now, reply, stats, rotation, dns, network, current_connection,
                     observer, switches, stored, counted>>
      /\ conn' \in [Conn -> ConnRecord] /\ conn'[c] = r
      /\ \A d \in Conn : d # c => conn'[d] = conn[d]
  BY <1>1, <1>2 DEF OwnStep, cacheVars, observerVars
<1>4. Typed'
  BY <1>1, <1>3 DEF Typed, Proved!CacheInv, Proved!CacheTypeOK, Proved!BoundedMap,
                    Proved!OneEntryPerHost, Monitor!MonitorTypeOK
<1>5. Hosted'
  <2>1. Own(r)
    <3>1. ASSUME r.pc # "idle" PROVE ServerConfig(conn[c].host) \in Served(conn[c].host)
      BY <1>1, ServerServes DEF Own
    <3>2. conn[c].host \in Host /\ WasServed(conn[c].key) /\ WasServed(conn[c].retry)
      BY <1>1, ServedHere DEF Own, WasServed
    <3> QED BY <1>1, <1>2, <3>1, <3>2 DEF Own
  <2>2. ASSUME NEW d \in Conn PROVE Own(conn[d])'
    BY <1>1, <1>3, <2>1 DEF Hosted, Own, Served, WasServed
  <2> QED BY <1>1, <1>3, <2>2 DEF Hosted, Served, WasServed
<1>6. SwitchLeavesNothingOld'
  BY <1>1, <1>3 DEF SwitchLeavesNothingOld
<1>8. \A d \in Conn : InFlightAtSwitch(d)' => InFlightAtSwitch(d) /\ conn'[d].host = conn[d].host
  BY <1>1, <1>2, <1>3 DEF InFlightAtSwitch, At
<1>9. LateStores'
  BY <1>1, <1>3, <1>8, LateStoresKept
<1>7. Late'
  <2>1. \A d \in Conn : InFlightAtSwitch(d)' => InFlightAtSwitch(d)
    BY <1>8
  <2>2. \A h, i, d : OldAt(h, i, d)' <=> OldAt(h, i, d)
    BY <1>3 DEF OldAt
  <2> QED BY <1>1, <2>1, <2>2 DEF Late
<1> QED BY <1>4, <1>5, <1>6, <1>7, <1>9 DEF ConnectionsInv

\* What begins a connection: its record is new, and the cache at most looked up.
LEMMA BeginKeeps ==
    ASSUME ConnectionsInv, NEW c \in Conn, NEW h \in Host, NEW k \in Nak, NEW early \in BOOLEAN,
           NEW pc \in {"hello", "quic"}, At(c, "idle"),
           conn' = [conn EXCEPT ![c] =
                      [pc |-> pc, host |-> h, key |-> dns[k], retry |-> NoConfig,
                       early |-> early, started |-> switches]],
           Proved!CacheInv',
           \A i \in DOMAIN entries' : \E j \in DOMAIN entries : entries'[i] = entries[j],
           UNCHANGED <<stats, rotation, dns, observerVars, stored, counted>>
    PROVE  ConnectionsInv'
<1> DEFINE r == [pc |-> pc, host |-> h, key |-> dns[k], retry |-> NoConfig,
                 early |-> early, started |-> switches]
<1>1. Typed /\ Hosted /\ SwitchLeavesNothingOld /\ Late /\ LateStores /\ conn \in [Conn -> ConnRecord]
  BY DEF ConnectionsInv, Typed
<1>2. r \in ConnRecord /\ Own(r)
  <2>1. /\ dns[k] \in Config \cup {NoConfig} /\ WasServed(dns[k])
        /\ switches \in Nat /\ pc \in Pc
    BY <1>1 DEF Typed, Hosted, Pc
  <2>2. r \in ConnRecord
    BY <2>1 DEF ConnRecord
  <2>3. r.host = h /\ r.key = dns[k] /\ r.retry = NoConfig /\ r.started = switches
    OBVIOUS
  <2> HIDE DEF r
  <2>4. Own(r)
    BY <2>1, <2>3 DEF Own
  <2> QED BY <2>2, <2>4
<1>3. /\ r.pc # "idle" /\ r.started = switches /\ conn' = [conn EXCEPT ![c] = r]
  OBVIOUS
<1> HIDE DEF r
<1>4. /\ UNCHANGED <<stats, rotation, dns, network, current_connection,
                     observer, switches, stored, counted>>
      /\ conn' \in [Conn -> ConnRecord] /\ conn'[c] = r
      /\ \A d \in Conn : d # c => conn'[d] = conn[d]
  BY <1>1, <1>2, <1>3 DEF observerVars
<1>5. Typed'
  BY <1>1, <1>4 DEF Typed, Monitor!MonitorTypeOK
<1>6. Hosted'
  <2>1. ASSUME NEW d \in Conn PROVE Own(conn[d])'
    BY <1>1, <1>2, <1>4 DEF Hosted, Own, Served, WasServed
  <2>2. \A i \in DOMAIN entries' : entries'[i].config \in Served(entries'[i].host)
    BY <1>1 DEF Hosted
  <2> QED BY <1>1, <1>4, <2>1, <2>2 DEF Hosted, Served, WasServed
<1>7. SwitchLeavesNothingOld'
  <2>1. \A g \in Host : \A i \in DOMAIN counted'[g] : counted'[g][i].switch = switches'
    BY <1>1, <1>4 DEF SwitchLeavesNothingOld
  <2>2. observer' = "idle" =>
          \A i \in DOMAIN entries' : stored'[entries'[i].host].switch = switches'
    BY <1>1, <1>4 DEF SwitchLeavesNothingOld
  <2> QED BY <2>1, <2>2 DEF SwitchLeavesNothingOld
<1>9. \A d \in Conn : InFlightAtSwitch(d)' => InFlightAtSwitch(d) /\ conn'[d].host = conn[d].host
  <2>1. switches \in Nat
    BY <1>1 DEF Typed
  <2> QED BY <1>3, <1>4, <2>1 DEF InFlightAtSwitch, At
<1>10. LateStores'
  BY <1>1, <1>4, <1>9, LateStoresKept
<1>8. Late'
  <2>1. \A d \in Conn : InFlightAtSwitch(d)' => InFlightAtSwitch(d)
    BY <1>9
  <2>2. \A g, i, d : OldAt(g, i, d)' <=> OldAt(g, i, d)
    BY <1>4 DEF OldAt
  <2> QED BY <1>1, <2>1, <2>2 DEF Late
<1> QED BY <1>5, <1>6, <1>7, <1>8, <1>10 DEF ConnectionsInv

LEMMA ConnectKeeps ==
    ASSUME ConnectionsInv, NEW c \in Conn, NEW h \in Host, NEW k \in Nak, Connect(c, h, k)
    PROVE  ConnectionsInv'
<1>1. Proved!CacheInv'
  BY DEF Connect, cacheVars, ConnectionsInv, Typed, Proved!CacheInv, Proved!CacheTypeOK,
         Proved!BoundedMap, Proved!OneEntryPerHost
<1>2. /\ At(c, "idle") /\ entries' = entries
      /\ conn' = [conn EXCEPT ![c] =
                    [pc |-> "hello", host |-> h, key |-> dns[k], retry |-> NoConfig,
                     early |-> FALSE, started |-> switches]]
      /\ UNCHANGED <<stats, rotation, dns, observerVars, stored, counted>>
  BY DEF Connect, cacheVars
<1>3. \A i \in DOMAIN entries' : \E j \in DOMAIN entries : entries'[i] = entries[j]
  BY <1>2
<1> QED BY <1>1, <1>2, <1>3, BeginKeeps

\* The 0-RTT check is a lookup, or nothing when there is no configuration.
LEMMA CheckEffect ==
    ASSUME Typed, NEW h \in Host, NEW current, NEW can \in BOOLEAN,
           CanUse0RttWithECH(h, current, can)
    PROVE  /\ Proved!CacheInv'
           /\ \A i \in DOMAIN entries' :
                /\ \E j \in DOMAIN entries : entries'[i] = entries[j]
                /\ current # NoConfig /\ can /\ entries'[i].host = h =>
                     entries'[i].config \in {NoConfig, current}
<1>1. CASE current = NoConfig /\ can /\ UNCHANGED cacheVars
  <2>1. Proved!CacheInv'
    BY <1>1 DEF cacheVars, Typed, Proved!CacheInv, Proved!CacheTypeOK, Proved!BoundedMap,
                Proved!OneEntryPerHost
  <2> QED BY <1>1, <2>1 DEF cacheVars
<1>2. CASE /\ current # NoConfig
           /\ Cache!GetMiss(h) \/ Cache!GetExpired(h) \/ Cache!GetHit(h)
           /\ can <=> reply' \in {NoConfig, current}
  <2>1. /\ Proved!CacheInv'
        /\ \A i \in DOMAIN entries' :
             /\ \E j \in DOMAIN entries : entries'[i] = entries[j]
             /\ entries'[i].host = h => entries'[i].config = reply'
    BY <1>2, LookupStep
  <2> QED BY <1>2, <2>1
<1> QED BY <1>1, <1>2 DEF CanUse0RttWithECH

LEMMA ConnectQuicKeeps ==
    ASSUME ConnectionsInv, NEW c \in Conn, NEW h \in Host, NEW k \in Nak, ConnectQuic(c, h, k)
    PROVE  ConnectionsInv'
<1>1. PICK can \in BOOLEAN :
         /\ CanUse0RttWithECH(h, dns[k], can)
         /\ conn' = [conn EXCEPT ![c] =
                       [pc |-> "quic", host |-> h, key |-> dns[k], retry |-> NoConfig,
                        early |-> can, started |-> switches]]
  BY DEF ConnectQuic
<1>2. Typed
  BY DEF ConnectionsInv
<1>3. /\ Proved!CacheInv'
      /\ \A i \in DOMAIN entries' : \E j \in DOMAIN entries : entries'[i] = entries[j]
  BY <1>1, <1>2, CheckEffect
<1>4. At(c, "idle") /\ UNCHANGED <<stats, rotation, dns, observerVars, stored, counted>>
  BY DEF ConnectQuic
<1> QED BY <1>1, <1>3, <1>4, BeginKeeps

-----------------------------------------------------------------------------
\* HandleECHRetry stores what the server returned to this connection.
LEMMA StoreKeeps ==
    ASSUME ConnectionsInv, NEW c \in Conn, HandleECHRetryStore(c)
    PROVE  ConnectionsInv'
<1> DEFINE h == conn[c].host
           k == conn[c].retry
           r == [conn[c] EXCEPT !.pc = "apply"]
<1>1. /\ Typed /\ Hosted /\ SwitchLeavesNothingOld /\ Late /\ LateStores
      /\ conn \in [Conn -> ConnRecord] /\ conn[c] \in ConnRecord /\ Own(conn[c])
  BY DEF ConnectionsInv, Typed, Hosted
<1>2. /\ conn[c].pc = "failed" /\ k # NoConfig /\ Cache!Store(h, k)
      /\ stored' = [stored EXCEPT ![h] = StoredNow(c)]
      /\ conn' = [conn EXCEPT ![c] = r]
      /\ UNCHANGED <<stats, rotation, dns, network, current_connection, observer,
                     changes, switches, counted>>
  BY DEF HandleECHRetryStore, At, observerVars
<1>3. h \in Host /\ k \in Config /\ k \in Served(h)
  BY <1>1, <1>2 DEF Own, ConnRecord
<1>4. /\ Proved!CacheInv'
      /\ \A i \in DOMAIN entries' :
           \/ entries'[i].host = h /\ entries'[i].config = k
           \/ \E j \in DOMAIN entries : entries'[i] = entries[j]
  BY <1>1, <1>2, <1>3, StoreStep
<1>5. /\ r \in ConnRecord /\ r.pc = "apply" /\ r.host = h /\ r.started = conn[c].started
      /\ r.key = conn[c].key /\ r.retry = k
  BY <1>1 DEF ConnRecord, Pc
<1>6. /\ conn' \in [Conn -> ConnRecord] /\ conn'[c] = r
      /\ \A d \in Conn : d # c => conn'[d] = conn[d]
  BY <1>1, <1>2, <1>5
<1> HIDE DEF r
<1>11. /\ StoredNow(c) \in Stored /\ StoredNow(c).switch = switches
       /\ \A d : d \in StoredNow(c).late <=> d = c /\ InFlightAtSwitch(c)
  <2>1. switches \in Nat
    BY <1>1 DEF Typed
  <2> QED BY <2>1 DEF StoredNow, Stored
<1>12. /\ stored'[h] = StoredNow(c)
       /\ \A g \in Host : g # h => stored'[g] = stored[g]
  BY <1>1, <1>2, <1>3 DEF Typed
<1>7. Typed'
  <2>1. stored' \in [Host -> Stored]
    BY <1>1, <1>2, <1>3, <1>11 DEF Typed
  <2> QED BY <1>1, <1>2, <1>4, <1>6, <2>1 DEF Typed, Monitor!MonitorTypeOK
<1>8. Hosted'
  <2>1. ASSUME NEW d \in Conn PROVE Own(conn[d])'
    BY <1>1, <1>2, <1>5, <1>6 DEF Hosted, Own, Served, WasServed
  <2>2. \A i \in DOMAIN entries' : entries'[i].config \in Served(entries'[i].host)
    BY <1>1, <1>3, <1>4 DEF Hosted
  <2> QED BY <1>1, <1>2, <2>1, <2>2 DEF Hosted, Served, WasServed
<1>9. SwitchLeavesNothingOld'
  <2>1. \A g \in Host : \A i \in DOMAIN counted'[g] : counted'[g][i].switch = switches'
    BY <1>1, <1>2 DEF SwitchLeavesNothingOld
  <2>2. ASSUME observer' = "idle", NEW i \in DOMAIN entries'
        PROVE  stored'[entries'[i].host].switch = switches'
    <3>1. CASE entries'[i].host = h
      BY <1>2, <1>11, <1>12, <3>1
    <3>2. CASE entries'[i].host # h
      <4>1. PICK j \in DOMAIN entries : entries'[i] = entries[j]
        BY <1>4, <3>2
      <4>2. entries[j].host \in Host /\ stored[entries[j].host].switch = switches
        BY <1>1, <1>2, <2>2, EntryTyped DEF SwitchLeavesNothingOld
      <4> QED BY <1>2, <1>12, <3>2, <4>1, <4>2
    <3> QED BY <3>1, <3>2
  <2> QED BY <2>1, <2>2 DEF SwitchLeavesNothingOld
<1>13. \A d \in Conn : InFlightAtSwitch(d)' => InFlightAtSwitch(d) /\ conn'[d].host = conn[d].host
  BY <1>2, <1>5, <1>6 DEF InFlightAtSwitch, At
<1>14. LateStores'
  <2>1. \A g \in Host : stored'[g].switch <= switches'
    <3>1. switches \in Nat
      BY <1>1 DEF Typed
    <3> QED BY <1>1, <1>2, <1>11, <1>12, <3>1 DEF LateStores
  <2>2. ASSUME NEW g, NEW d, OldStore(g, d)'
        PROVE  \/ OldStore(g, d) /\ g # h
               \/ g = h /\ d = c /\ InFlightAtSwitch(c)
    BY <1>2, <1>11, <1>12, <2>2 DEF OldStore
  <2>3. ASSUME NEW d \in Conn, NEW g, OldStore(g, d)', InFlightAtSwitch(d)'
        PROVE  g = conn'[d].host
    BY <1>1, <1>13, <2>2, <2>3 DEF LateStores
  <2>4. ASSUME NEW d \in Conn, NEW g, NEW f, OldStore(g, d)', OldStore(f, d)'
        PROVE  g = f
    BY <1>1, <2>2, <2>4 DEF LateStores
  <2> QED BY <2>1, <2>3, <2>4 DEF LateStores
<1>10. Late'
  <2>1. \A d \in Conn : InFlightAtSwitch(d)' => InFlightAtSwitch(d)
    BY <1>13
  <2>2. \A g, i, d : OldAt(g, i, d)' <=> OldAt(g, i, d)
    BY <1>2 DEF OldAt
  <2> QED BY <1>1, <2>1, <2>2 DEF Late
<1> QED BY <1>7, <1>8, <1>9, <1>10, <1>14 DEF ConnectionsInv

\* The end of a connection: a result that began before the last switch is
\* counted for a connection that had none, and that is over now.
LEMMA RecordKeeps ==
    ASSUME ConnectionsInv, NEW c \in Conn, RecordResult(c)
    PROVE  ConnectionsInv'
<1> DEFINE h == conn[c].host
           x == [conn |-> c, started |-> conn[c].started, switch |-> switches]
<1>1. /\ Typed /\ Hosted /\ SwitchLeavesNothingOld /\ Late /\ LateStores
      /\ conn \in [Conn -> ConnRecord] /\ conn[c] \in ConnRecord /\ Own(conn[c])
  BY DEF ConnectionsInv, Typed, Hosted
<1>2. /\ conn[c].pc \in {"accepted", "fallback", "error"}
      /\ \E success \in BOOLEAN : Monitor!RecordResult(h, success)
      /\ counted' = [counted EXCEPT ![h] = Append(counted[h], x)]
      /\ conn' = [conn EXCEPT ![c] = Idle]
      /\ UNCHANGED <<entries, now, reply, rotation, dns, network, current_connection,
                     observer, changes, switches, stored>>
  <2>1. At(c, "accepted") \in BOOLEAN
    BY DEF At
  <2>2. Monitor!RecordResult(h, At(c, "accepted"))
    BY DEF RecordResult
  <2> QED BY <2>1, <2>2 DEF RecordResult, cacheVars, observerVars
<1>3. /\ h \in Host /\ x \in Counted /\ x.conn = c /\ x.started = conn[c].started
      /\ x.switch = switches /\ counted[h] \in Seq(Counted)
      /\ conn[c].started <= switches
  BY <1>1, <1>2 DEF Own, Counted, ConnRecord, Typed
<1> HIDE DEF x
<1>4. /\ Append(counted[h], x) \in Seq(Counted)
      /\ DOMAIN Append(counted[h], x) = DOMAIN counted[h] \cup {Len(counted[h]) + 1}
      /\ Len(counted[h]) + 1 \notin DOMAIN counted[h]
      /\ Append(counted[h], x)[Len(counted[h]) + 1] = x
      /\ \A i \in DOMAIN counted[h] : Append(counted[h], x)[i] = counted[h][i]
  BY <1>3
<1> DEFINE last == Len(counted[h]) + 1
<1>5. /\ \A g \in Host : g # h => counted'[g] = counted[g]
      /\ counted'[h] \in Seq(Counted)
      /\ DOMAIN counted'[h] = DOMAIN counted[h] \cup {last}
      /\ last \notin DOMAIN counted[h] /\ counted'[h][last] = x
      /\ \A i \in DOMAIN counted[h] : counted'[h][i] = counted[h][i]
  BY <1>1, <1>2, <1>3, <1>4 DEF Typed
<1> HIDE DEF last
<1>6. /\ Idle \in ConnRecord /\ Idle.pc = "idle"
      /\ conn' \in [Conn -> ConnRecord] /\ conn'[c] = Idle
      /\ \A d \in Conn : d # c => conn'[d] = conn[d]
  <2>1. Idle \in ConnRecord /\ Idle.pc = "idle"
    BY DEF Idle, ConnRecord, Pc
  <2> QED BY <1>1, <1>2, <2>1
<1>7. Typed'
  <2>1. counted' \in [Host -> Seq(Counted)]
    BY <1>1, <1>2, <1>3, <1>4 DEF Typed
  <2>2. Monitor!MonitorTypeOK'
    <3>1. PICK success \in BOOLEAN : Monitor!RecordResult(h, success)
      BY <1>2
    <3>2. stats' = [stats EXCEPT ![h] = Monitor!AfterResult(stats[h], success)]
      BY <3>1 DEF Monitor!RecordResult
    <3>3. stats \in [Host -> Monitor!HostStats] /\ stats[h] \in Monitor!HostStats
      BY <1>1, <1>3 DEF Typed, Monitor!MonitorTypeOK
    <3>4. Monitor!AfterResult(stats[h], success) \in Monitor!HostStats
      BY <3>3 DEF Monitor!AfterResult, Monitor!HostStats
    <3> QED BY <1>3, <3>2, <3>3, <3>4 DEF Monitor!MonitorTypeOK
  <2>3. Proved!CacheInv'
    BY <1>1, <1>2 DEF Typed, Proved!CacheInv, Proved!CacheTypeOK, Proved!BoundedMap,
                      Proved!OneEntryPerHost
  <2> QED BY <1>1, <1>2, <1>6, <2>1, <2>2, <2>3 DEF Typed
<1>8. Hosted'
  <2>1. ASSUME NEW d \in Conn PROVE Own(conn[d])'
    BY <1>1, <1>2, <1>6 DEF Hosted, Own, Served, WasServed
  <2> QED BY <1>1, <1>2, <2>1 DEF Hosted, Served, WasServed
<1>9. SwitchLeavesNothingOld'
  <2>1. ASSUME NEW g \in Host, NEW i \in DOMAIN counted'[g]
        PROVE  counted'[g][i].switch = switches'
    BY <1>1, <1>2, <1>3, <1>5 DEF SwitchLeavesNothingOld
  <2> QED BY <1>1, <1>2, <2>1 DEF SwitchLeavesNothingOld
<1>11. \A d \in Conn : InFlightAtSwitch(d)' => InFlightAtSwitch(d) /\ conn'[d].host = conn[d].host
  BY <1>2, <1>6 DEF InFlightAtSwitch, At
<1>12. LateStores'
  BY <1>1, <1>2, <1>11, LateStoresKept
<1>10. Late'
  <2>1. ~InFlightAtSwitch(c)' /\ \A d \in Conn : InFlightAtSwitch(d)' => InFlightAtSwitch(d)
    BY <1>2, <1>6 DEF InFlightAtSwitch, At
  <2>2. \A g, i, d : OldAt(g, i, d)' =>
          OldAt(g, i, d) \/ (g = h /\ i = last /\ d = c /\ InFlightAtSwitch(c))
    <3> SUFFICES ASSUME NEW g, NEW i, NEW d, OldAt(g, i, d)', ~OldAt(g, i, d)
                 PROVE  g = h /\ i = last /\ d = c /\ InFlightAtSwitch(c)
      OBVIOUS
    <3>1. g \in Host /\ i \in DOMAIN counted'[g] /\ counted'[g][i].conn = d
          /\ counted'[g][i].started < switches
      BY <1>2 DEF OldAt
    <3>2. g = h /\ i = last
      BY <1>5, <3>1 DEF OldAt
    <3>3. d = c /\ conn[c].started < switches
      BY <1>3, <1>5, <3>1, <3>2
    <3> QED BY <1>2, <3>2, <3>3 DEF InFlightAtSwitch, At
  <2>3. ASSUME NEW d \in Conn, NEW g, NEW i, OldAt(g, i, d)' PROVE ~InFlightAtSwitch(d)'
    BY <1>1, <2>1, <2>2, <2>3 DEF Late
  <2>4. ASSUME NEW d \in Conn, NEW g, NEW f, NEW i, NEW j, OldAt(g, i, d)', OldAt(f, j, d)'
        PROVE  g = f /\ i = j
    BY <1>1, <2>2, <2>4 DEF Late
  <2> QED BY <2>3, <2>4 DEF Late
<1> QED BY <1>7, <1>8, <1>9, <1>10, <1>12 DEF ConnectionsInv

-----------------------------------------------------------------------------
\* The observer clears the statistics: every result counted is gone with them.
LEMMA NetworkKeeps ==
    ASSUME ConnectionsInv, NEW type \in NetworkType, OnNetworkChanged(type)
    PROVE  ConnectionsInv'
<1>1. /\ Typed /\ Hosted /\ SwitchLeavesNothingOld /\ Late /\ LateStores
      /\ UNCHANGED <<entries, now, reply, rotation, dns, conn, stored>>
      /\ network' = type /\ observer = "idle"
  BY DEF ConnectionsInv, OnNetworkChanged, cacheVars
<1>2. Proved!CacheInv'
  BY <1>1 DEF Typed, Proved!CacheInv, Proved!CacheTypeOK, Proved!BoundedMap,
              Proved!OneEntryPerHost
<1>3. CASE UNCHANGED <<current_connection, switches, stats, counted, observer>>
  <2>1. Typed'
    BY <1>1, <1>2, <1>3 DEF Typed, Monitor!MonitorTypeOK
  <2>2. Hosted' /\ SwitchLeavesNothingOld'
    BY <1>1, <1>3 DEF Hosted, Own, Served, WasServed, SwitchLeavesNothingOld
  <2>3. Late'
    <3>1. \A d \in Conn : InFlightAtSwitch(d)' => InFlightAtSwitch(d)
      BY <1>1, <1>3 DEF InFlightAtSwitch, At
    <3>2. \A g, i, d : OldAt(g, i, d)' <=> OldAt(g, i, d)
      BY <1>3 DEF OldAt
    <3> QED BY <1>1, <3>1, <3>2 DEF Late
  <2>4. LateStores'
    <3>1. \A d \in Conn : InFlightAtSwitch(d)' => InFlightAtSwitch(d) /\ conn'[d].host = conn[d].host
      BY <1>1, <1>3 DEF InFlightAtSwitch, At
    <3> QED BY <1>1, <1>3, <3>1, LateStoresKept
  <2> QED BY <2>1, <2>2, <2>3, <2>4 DEF ConnectionsInv
<1>4. CASE /\ current_connection' = type /\ switches' = switches + 1 /\ Monitor!ClearAll
           /\ counted' = [h \in Host |-> <<>>] /\ observer' = "stats cleared"
  <2>1. Monitor!MonitorTypeOK'
    BY <1>4 DEF Monitor!ClearAll, Monitor!MonitorTypeOK, Monitor!NoStats, Monitor!HostStats
  <2>7. switches \in Nat /\ switches' \in Nat /\ switches < switches'
    <3>1. switches \in Nat
      BY <1>1 DEF Typed
    <3>2. switches' = switches + 1
      BY <1>4
    <3> QED BY <3>1, <3>2
  <2>8. \A g \in Host : counted'[g] = <<>> /\ DOMAIN counted'[g] = {}
    <3>1. DOMAIN <<>> = {}
      OBVIOUS
    <3> QED BY <1>4, <3>1
  <2>9. counted' \in [Host -> Seq(Counted)]
    <3>1. <<>> \in Seq(Counted)
      OBVIOUS
    <3> QED BY <1>4, <3>1
  <2>0. /\ \A g \in Host : counted'[g] = <<>> /\ DOMAIN counted'[g] = {}
        /\ counted' \in [Host -> Seq(Counted)]
        /\ switches' \in Nat /\ switches < switches'
        /\ UNCHANGED stored /\ observer' = "stats cleared"
    BY <1>1, <1>4, <2>7, <2>8, <2>9
  <2>2. Typed'
    <3>1. current_connection' \in NetworkType /\ network' \in NetworkType
      BY <1>1, <1>4
    <3> QED BY <1>1, <1>2, <2>0, <2>1, <3>1 DEF Typed
  <2>3. Hosted'
    <3>1. switches \in Nat /\ \A c \in Conn : conn[c] \in ConnRecord
      BY <1>1 DEF Typed
    <3>2. \A c \in Conn : conn[c].started \in Nat
      BY <3>1 DEF ConnRecord
    <3>3. ASSUME NEW c \in Conn PROVE Own(conn[c])'
      <4>1. Own(conn[c]) /\ conn' = conn /\ rotation' = rotation
        BY <1>1 DEF Hosted
      <4>2. conn[c].started <= switches => conn[c].started <= switches'
        BY <2>7, <3>2
      <4> QED BY <4>1, <4>2 DEF Own, Served, WasServed
    <3> QED BY <1>1, <3>3 DEF Hosted, Served, WasServed
  <2>4. SwitchLeavesNothingOld'
    BY <2>0 DEF SwitchLeavesNothingOld
  <2>5. Late'
    BY <2>0 DEF Late, OldAt
  <2>6. LateStores'
    <3>1. \A h \in Host : stored[h].switch \in Nat /\ stored[h].switch <= switches
      <4>1. \A h \in Host : stored[h] \in Stored
        BY <1>1 DEF Typed
      <4> QED BY <1>1, <4>1 DEF LateStores, Stored
    <3>2. ASSUME NEW h \in Host
          PROVE  stored'[h].switch <= switches' /\ stored'[h].switch # switches'
      <4>1. stored'[h] = stored[h]
        BY <2>0
      <4> QED BY <2>7, <3>1, <4>1
    <3> QED BY <3>2 DEF LateStores, OldStore
  <2> QED BY <2>2, <2>3, <2>4, <2>5, <2>6 DEF ConnectionsInv
<1> QED BY <1>3, <1>4 DEF OnNetworkChanged

\* Its second part empties the cache.
LEMMA ClearKeeps ==
    ASSUME ConnectionsInv, ObserverClearCache
    PROVE  ConnectionsInv'
<1>1. /\ Typed /\ Hosted /\ SwitchLeavesNothingOld /\ Late /\ LateStores
      /\ UNCHANGED <<stats, rotation, dns, conn, network, current_connection, switches,
                     stored, counted>>
      /\ Cache!Clear /\ observer' = "idle"
  BY DEF ConnectionsInv, ObserverClearCache
<1>2. Proved!CacheInv'
  <2>1. Proved!CacheInv /\ Proved!Clear
    BY <1>1, SameCache DEF Typed
  <2> QED BY <2>1, CacheParameters, Proved!CacheInvStep DEF Proved!CacheNext
<1>3. entries' = <<>>
  BY <1>1 DEF Cache!Clear
<1>4. Typed'
  BY <1>1, <1>2 DEF Typed, Monitor!MonitorTypeOK
<1>5. Hosted' /\ SwitchLeavesNothingOld'
  BY <1>1, <1>3 DEF Hosted, Own, Served, WasServed, SwitchLeavesNothingOld
<1>7. \A d \in Conn : InFlightAtSwitch(d)' => InFlightAtSwitch(d) /\ conn'[d].host = conn[d].host
  BY <1>1 DEF InFlightAtSwitch, At
<1>8. LateStores'
  BY <1>1, <1>7, LateStoresKept
<1>6. Late'
  <2>1. \A d \in Conn : InFlightAtSwitch(d)' => InFlightAtSwitch(d)
    BY <1>7
  <2>2. \A g, i, d : OldAt(g, i, d)' <=> OldAt(g, i, d)
    BY <1>1 DEF OldAt
  <2> QED BY <1>1, <2>1, <2>2 DEF Late
<1> QED BY <1>4, <1>5, <1>6, <1>8 DEF ConnectionsInv

\* A QUIC migration forgets the results of one host.
LEMMA MigrationKeeps ==
    ASSUME ConnectionsInv, NEW h \in Host, OnQuicConnectionMigrationWithECH(h)
    PROVE  ConnectionsInv'
<1>1. /\ Typed /\ Hosted /\ SwitchLeavesNothingOld /\ Late /\ LateStores
      /\ UNCHANGED <<entries, now, reply, rotation, dns, conn, network, current_connection,
                     observer, switches, stored>>
      /\ Monitor!Reset(h) /\ counted' = [counted EXCEPT ![h] = <<>>]
  BY DEF ConnectionsInv, OnQuicConnectionMigrationWithECH, cacheVars, observerVars
<1>2. Monitor!MonitorTypeOK'
  BY <1>1 DEF Typed, Monitor!Reset, Monitor!MonitorTypeOK, Monitor!NoStats, Monitor!HostStats
<1>3. Proved!CacheInv'
  BY <1>1 DEF Typed, Proved!CacheInv, Proved!CacheTypeOK, Proved!BoundedMap,
              Proved!OneEntryPerHost
<1>4. /\ counted' \in [Host -> Seq(Counted)] /\ counted'[h] = <<>>
      /\ \A g \in Host : g # h => counted'[g] = counted[g]
  <2>1. <<>> \in Seq(Counted)
    OBVIOUS
  <2>2. counted \in [Host -> Seq(Counted)]
    BY <1>1 DEF Typed
  <2> QED BY <1>1, <2>1, <2>2
<1>5. Typed'
  BY <1>1, <1>2, <1>3, <1>4 DEF Typed
<1>6. Hosted' /\ SwitchLeavesNothingOld'
  BY <1>1, <1>4 DEF Hosted, Own, Served, WasServed, SwitchLeavesNothingOld
<1>8. \A d \in Conn : InFlightAtSwitch(d)' => InFlightAtSwitch(d) /\ conn'[d].host = conn[d].host
  BY <1>1 DEF InFlightAtSwitch, At
<1>9. LateStores'
  BY <1>1, <1>8, LateStoresKept
<1>7. Late'
  <2>1. \A d \in Conn : InFlightAtSwitch(d)' => InFlightAtSwitch(d)
    BY <1>8
  <2>2. \A g, i, d : OldAt(g, i, d)' => OldAt(g, i, d)
    BY <1>1, <1>4 DEF OldAt
  <2> QED BY <1>1, <2>1, <2>2 DEF Late
<1> QED BY <1>5, <1>6, <1>7, <1>9 DEF ConnectionsInv

\* A server rotates its key: what it served before it still has served.
LEMMA RotateKeeps ==
    ASSUME ConnectionsInv, NEW h \in Host, RotateKey(h)
    PROVE  ConnectionsInv'
<1>1. /\ Typed /\ Hosted /\ SwitchLeavesNothingOld /\ Late /\ LateStores
      /\ UNCHANGED <<entries, now, reply, stats, dns, conn, network, current_connection,
                     observer, switches, stored, counted>>
      /\ rotation[h] < MaxRotations /\ rotation' = [rotation EXCEPT ![h] = rotation[h] + 1]
  BY DEF ConnectionsInv, RotateKey, cacheVars, observerVars
<1>2. /\ rotation' \in [Host -> 0..MaxRotations]
      /\ \A g \in Host : Served(g) \subseteq {g} \X (0..rotation'[g])
  <2>1. rotation \in [Host -> 0..MaxRotations] /\ MaxRotations \in Nat
    BY <1>1, ConnectionsAssumption DEF Typed
  <2>2. rotation' \in [Host -> 0..MaxRotations]
    BY <1>1, <2>1
  <2>3. \A g \in Host : 0..rotation[g] \subseteq 0..rotation'[g]
    BY <1>1, <2>1
  <2> QED BY <2>2, <2>3 DEF Served
<1>7. ASSUME NEW x \in Config \cup {NoConfig}, WasServed(x) PROVE WasServed(x)'
  BY <1>2, <1>7 DEF WasServed, Config, Served
<1>3. Typed'
  BY <1>1, <1>2 DEF Typed, Monitor!MonitorTypeOK, Proved!CacheInv, Proved!CacheTypeOK,
                    Proved!BoundedMap, Proved!OneEntryPerHost
<1>4. Hosted'
  <2>1. ASSUME NEW i \in DOMAIN entries
        PROVE  entries[i].config \in {entries[i].host} \X (0..rotation'[entries[i].host])
    BY <1>1, <1>2, EntryTyped DEF Hosted
  <2>2. ASSUME NEW c \in Conn PROVE Own(conn[c])'
    <3>1. Own(conn[c]) /\ conn[c].key \in Config \cup {NoConfig} /\ conn' = conn
      BY <1>1 DEF Hosted, Typed, ConnRecord
    <3>2. ASSUME conn[c].pc # "idle"
          PROVE  Served(conn[c].host) \subseteq {conn[c].host} \X (0..rotation'[conn[c].host])
      BY <1>2, <3>1, <3>2 DEF Own
    <3>3. conn[c].pc # "idle" =>
            /\ conn[c].host \in Host
            /\ WasServed(conn[c].key)'
            /\ conn[c].retry \in ({conn[c].host} \X (0..rotation'[conn[c].host])) \cup {NoConfig}
            /\ conn[c].started <= switches
      BY <1>1, <1>7, <3>1, <3>2 DEF Own
    <3> QED BY <1>1, <3>3 DEF Own, Served, WasServed
  <2>3. \A k \in Nak : WasServed(dns[k])'
    <3>1. \A k \in Nak : dns[k] \in Config \cup {NoConfig} /\ WasServed(dns[k]) /\ dns'[k] = dns[k]
      BY <1>1 DEF Hosted, Typed
    <3>2. \A k \in Nak : dns'[k] \in Config \cup {NoConfig} /\ WasServed(dns[k])'
      BY <1>7, <3>1
    <3> QED BY <3>2
  <2> QED BY <1>1, <2>1, <2>2, <2>3 DEF Hosted, Served
<1>5. SwitchLeavesNothingOld'
  BY <1>1 DEF SwitchLeavesNothingOld
<1>8. \A d \in Conn : InFlightAtSwitch(d)' => InFlightAtSwitch(d) /\ conn'[d].host = conn[d].host
  BY <1>1 DEF InFlightAtSwitch, At
<1>9. LateStores'
  BY <1>1, <1>8, LateStoresKept
<1>6. Late'
  <2>1. \A d \in Conn : InFlightAtSwitch(d)' => InFlightAtSwitch(d)
    BY <1>8
  <2>2. \A g, i, d : OldAt(g, i, d)' <=> OldAt(g, i, d)
    BY <1>1 DEF OldAt
  <2> QED BY <1>1, <2>1, <2>2 DEF Late
<1> QED BY <1>3, <1>4, <1>5, <1>6, <1>9 DEF ConnectionsInv

\* DNS catches up with a server, and time passes.
LEMMA RefreshOrTickKeeps ==
    ASSUME ConnectionsInv, Tick \/ \E h \in Host, k \in Nak : RefreshDns(h, k)
    PROVE  ConnectionsInv'
<1>1. /\ Typed /\ Hosted /\ SwitchLeavesNothingOld /\ Late /\ LateStores
      /\ UNCHANGED <<entries, stats, rotation, conn, network, current_connection,
                     observer, switches, stored, counted>>
  BY DEF ConnectionsInv, RefreshDns, Tick, Cache!Tick, cacheVars, observerVars
<1>2. /\ dns' \in [Nak -> Config \cup {NoConfig}]
      /\ \A j \in Nak : WasServed(dns'[j])
  <2>1. CASE Tick
    BY <1>1, <2>1 DEF Tick, Typed, Hosted
  <2>2. ASSUME NEW h \in Host, NEW k \in Nak, RefreshDns(h, k)
        PROVE  /\ dns' \in [Nak -> Config \cup {NoConfig}]
               /\ \A j \in Nak : WasServed(dns'[j])
    <3>1. dns' = [dns EXCEPT ![k] = ServerConfig(h)]
      BY <2>2 DEF RefreshDns
    <3>2. WasServed(ServerConfig(h)) /\ ServerConfig(h) \in Config
      BY <1>1, ServerServes
    <3> QED BY <1>1, <3>1, <3>2 DEF Typed, Hosted
  <2> QED BY <2>1, <2>2
<1>3. Proved!CacheInv'
  <2>1. CASE Tick
    <3>1. Proved!CacheInv /\ Proved!Tick
      BY <1>1, <2>1, SameCache DEF Tick, Typed
    <3> QED BY <3>1, CacheParameters, Proved!CacheInvStep DEF Proved!CacheNext
  <2>2. CASE \E h \in Host, k \in Nak : RefreshDns(h, k)
    BY <1>1, <2>2 DEF RefreshDns, cacheVars, Typed, Proved!CacheInv, Proved!CacheTypeOK,
                      Proved!BoundedMap, Proved!OneEntryPerHost
  <2> QED BY <2>1, <2>2
<1>4. Typed'
  BY <1>1, <1>2, <1>3 DEF Typed, Monitor!MonitorTypeOK
<1>5. Hosted' /\ SwitchLeavesNothingOld'
  BY <1>1, <1>2 DEF Hosted, Own, Served, WasServed, SwitchLeavesNothingOld
<1>7. \A d \in Conn : InFlightAtSwitch(d)' => InFlightAtSwitch(d) /\ conn'[d].host = conn[d].host
  BY <1>1 DEF InFlightAtSwitch, At
<1>8. LateStores'
  BY <1>1, <1>7, LateStoresKept
<1>6. Late'
  <2>1. \A d \in Conn : InFlightAtSwitch(d)' => InFlightAtSwitch(d)
    BY <1>7
  <2>2. \A g, i, d : OldAt(g, i, d)' <=> OldAt(g, i, d)
    BY <1>1 DEF OldAt
  <2> QED BY <1>1, <2>1, <2>2 DEF Late
<1> QED BY <1>4, <1>5, <1>6, <1>8 DEF ConnectionsInv

-----------------------------------------------------------------------------
\* With nothing cached, counted or under way, everything holds.
LEMMA ConnectionsInvInit == Init => ConnectionsInv
<1> SUFFICES ASSUME Init PROVE ConnectionsInv
  OBVIOUS
<1>1. /\ rotation = [h \in Host |-> 0] /\ conn = [c \in Conn |-> Idle]
      /\ dns = [k \in Nak |-> NoConfig]
      /\ network \in NetworkType /\ current_connection = network
      /\ observer = "idle" /\ switches = 0
      /\ stored = [h \in Host |-> [switch |-> 0, late |-> {}]]
      /\ counted = [h \in Host |-> <<>>]
  BY DEF Init
<1>2. Proved!CacheInv /\ entries = <<>>
  <2>1. Cache!CacheInit /\ Proved!CacheInit
    BY SameCache DEF Init
  <2> QED BY <2>1, CacheParameters, Proved!CacheInvInit DEF Cache!CacheInit
<1>3. Monitor!MonitorTypeOK
  BY DEF Init, Monitor!MonitorInit, Monitor!MonitorTypeOK, Monitor!NoStats, Monitor!HostStats
<1>4. Idle \in ConnRecord /\ Idle.pc = "idle"
  BY DEF Idle, ConnRecord, Pc
<1>5. rotation \in [Host -> 0..MaxRotations] /\ 0 \in 0..MaxRotations
  BY <1>1, ConnectionsAssumption
<1>6. \A k \in Nak : WasServed(dns[k])
  BY <1>1 DEF WasServed
<1>7. dns \in [Nak -> Config \cup {NoConfig}]
  BY <1>1
<1>12. /\ stored \in [Host -> Stored]
       /\ \A h \in Host : stored[h].switch = 0 /\ stored[h].late = {}
  BY <1>1 DEF Stored
<1>8. counted \in [Host -> Seq(Counted)] /\ \A h \in Host : DOMAIN counted[h] = {}
  <2>1. <<>> \in Seq(Counted) /\ DOMAIN <<>> = {}
    OBVIOUS
  <2> QED BY <1>1, <2>1
<1>9. Typed
  BY <1>1, <1>2, <1>3, <1>4, <1>5, <1>7, <1>8, <1>12 DEF Typed
<1>10. Hosted
  BY <1>1, <1>2, <1>4, <1>6 DEF Hosted, Own
<1>11. SwitchLeavesNothingOld /\ Late /\ LateStores
  BY <1>1, <1>2, <1>8, <1>12 DEF SwitchLeavesNothingOld, Late, OldAt, LateStores, OldStore
<1> QED BY <1>9, <1>10, <1>11 DEF ConnectionsInv

\* Every step keeps the invariant.
LEMMA ConnectionsInvStep == ConnectionsInv /\ [Next]_vars => ConnectionsInv'
<1> SUFFICES ASSUME ConnectionsInv, [Next]_vars
             PROVE  ConnectionsInv'
  OBVIOUS
<1>1. ASSUME NEW c \in Conn, Progress(c) PROVE ConnectionsInv'
  <2>1. CASE \/ ServerAnswer(c) \/ QuicAnswer(c) \/ ECHRetryCallback(c)
             \/ HandleECHRetryFallback(c) \/ HandleECHRetryApply(c) \/ FinishPlain(c)
    BY <2>1, OwnSteps, OwnStepKeeps DEF ConnectionsInv
  <2>2. CASE HandleECHRetryStore(c)
    BY <2>2, StoreKeeps
  <2>3. CASE RecordResult(c)
    BY <2>3, RecordKeeps
  <2> QED BY <1>1, <2>1, <2>2, <2>3 DEF Progress
<1>2. ASSUME NEW c \in Conn, NEW h \in Host, NEW k \in Nak, Connect(c, h, k) \/ ConnectQuic(c, h, k)
      PROVE  ConnectionsInv'
  BY <1>2, ConnectKeeps, ConnectQuicKeeps
<1>3. ASSUME NEW type \in NetworkType, OnNetworkChanged(type) PROVE ConnectionsInv'
  BY <1>3, NetworkKeeps
<1>4. CASE ObserverClearCache
  BY <1>4, ClearKeeps
<1>5. CASE Tick
  BY <1>5, RefreshOrTickKeeps
<1>6. ASSUME NEW h \in Host, OnQuicConnectionMigrationWithECH(h) PROVE ConnectionsInv'
  BY <1>6, MigrationKeeps
<1>7. ASSUME NEW h \in Host, RotateKey(h) PROVE ConnectionsInv'
  BY <1>7, RotateKeeps
<1>8. ASSUME NEW h \in Host, NEW k \in Nak, RefreshDns(h, k) PROVE ConnectionsInv'
  BY <1>8, RefreshOrTickKeeps
<1>9. CASE UNCHANGED vars
  <2>1. UNCHANGED <<entries, now, reply, stats, rotation, dns, conn, network,
                    current_connection, observer, switches, stored, counted>>
    BY <1>9 DEF vars, cacheVars, observerVars
  <2>2. Typed'
    BY <2>1 DEF ConnectionsInv, Typed, Monitor!MonitorTypeOK, Proved!CacheInv,
                Proved!CacheTypeOK, Proved!BoundedMap, Proved!OneEntryPerHost
  <2>3. Hosted' /\ SwitchLeavesNothingOld'
    BY <2>1 DEF ConnectionsInv, Hosted, Own, Served, WasServed, SwitchLeavesNothingOld
  <2>4. Late' /\ LateStores'
    BY <2>1 DEF ConnectionsInv, Late, OldAt, LateStores, OldStore, InFlightAtSwitch, At
  <2> QED BY <2>2, <2>3, <2>4 DEF ConnectionsInv
<1> QED BY <1>1, <1>2, <1>3, <1>4, <1>5, <1>6, <1>7, <1>8, <1>9 DEF Next

(***************************************************************************)
(* The strengthened invariant of connections, cache, monitor and observer  *)
(* (ech_retry_handler.cc:127-173, android_network_config.cc:45-83).        *)
(***************************************************************************)
THEOREM ConnectionsInvariant == Spec => []ConnectionsInv
<1> QED BY ConnectionsInvInit, ConnectionsInvStep, PTL DEF Spec

(***************************************************************************)
(* Whatever connections, servers and networks do, what is cached is a      *)
(* configuration, of a host, and never the empty string that Get returns   *)
(* for nothing (ech_retry_handler.cc:137 before 149).                      *)
(***************************************************************************)
THEOREM ConnectionsAreTyped == Spec => []ConnectionsTypeOK
<1>1. ConnectionsInv => ConnectionsTypeOK
  <2> SUFFICES ASSUME ConnectionsInv PROVE ConnectionsTypeOK
    OBVIOUS
  <2>1. Typed
    BY DEF ConnectionsInv
  <2>2. Cache!CacheTypeOK
    BY <2>1, SameCache DEF Typed, Proved!CacheInv
  <2>3. ASSUME NEW c \in Conn
        PROVE  /\ conn[c].pc \in Pc
               /\ conn[c].key \in Config \cup {NoConfig}
               /\ conn[c].retry \in Config \cup {NoConfig}
    BY <2>1 DEF Typed, ConnRecord
  <2> QED BY <2>1, <2>2, <2>3 DEF ConnectionsTypeOK, Typed, Pc
<1> QED BY <1>1, ConnectionsInvariant, PTL

(***************************************************************************)
(* A switch is complete although it is made in two critical sections       *)
(* (android_network_config.cc:72-80).                                      *)
(***************************************************************************)
THEOREM SwitchesAreComplete == Spec => []SwitchLeavesNothingOld
<1>1. ConnectionsInv => SwitchLeavesNothingOld
  BY DEF ConnectionsInv
<1> QED BY <1>1, ConnectionsInvariant, PTL

(***************************************************************************)
(* A connection in flight at a switch adds one result of the old network   *)
(* to the new statistics, and no more (android_network_config.cc:74).      *)
(***************************************************************************)
THEOREM OldResultsAreBounded == Spec => []OneOldResultPerConnectionInFlight
<1>1. ConnectionsInv => OneOldResultPerConnectionInFlight
  <2> SUFFICES ASSUME ConnectionsInv, NEW c \in Conn
               PROVE  /\ \A g, h \in Host : Old(g, c) # {} /\ Old(h, c) # {} => g = h
                      /\ \A h \in Host : Cardinality(Old(h, c)) <= IF InFlightAtSwitch(c) THEN 0 ELSE 1
    BY DEF OneOldResultPerConnectionInFlight
  <2>1. \A h \in Host : \A i \in Old(h, c) : OldAt(h, i, c)
    BY DEF Old, OldAt
  <2>2. ASSUME NEW g \in Host, NEW h \in Host, Old(g, c) # {}, Old(h, c) # {} PROVE g = h
    BY <2>1, <2>2 DEF ConnectionsInv, Late
  <2>3. ASSUME NEW h \in Host
        PROVE  Cardinality(Old(h, c)) <= IF InFlightAtSwitch(c) THEN 0 ELSE 1
    <3>1. CASE Old(h, c) = {}
      <4>1. Cardinality(Old(h, c)) = 0
        BY <3>1, FS_EmptySet
      <4> QED BY <4>1
    <3>2. CASE Old(h, c) # {}
      <4>1. PICK i : Old(h, c) = {i} /\ OldAt(h, i, c)
        BY <2>1, <3>2 DEF ConnectionsInv, Late
      <4>2. ~InFlightAtSwitch(c)
        BY <4>1 DEF ConnectionsInv, Late
      <4>3. Cardinality(Old(h, c)) = 1
        BY <4>1, FS_Singleton
      <4> QED BY <4>2, <4>3
    <3> QED BY <3>1, <3>2
  <2> QED BY <2>2, <2>3
<1> QED BY <1>1, ConnectionsInvariant, PTL

(***************************************************************************)
(* A connection in flight at a switch brings one configuration of the old  *)
(* network into the new cache at most, its own host's, however often it    *)
(* retries and wherever between the two clearing steps it stores           *)
(* (android_network_config.cc:74-79, ech_retry_handler.cc:149).            *)
(***************************************************************************)
THEOREM OldConfigurationsAreBounded == Spec => []OneOldConfigurationPerConnectionInFlight
<1>1. ConnectionsInv => OneOldConfigurationPerConnectionInFlight
  <2> SUFFICES ASSUME ConnectionsInv, observer = "idle", NEW c \in Conn
               PROVE  /\ \A i, j \in OldEntries(c) : i = j
                      /\ InFlightAtSwitch(c) =>
                            \A i \in OldEntries(c) : entries[i].host = conn[c].host
    BY DEF OneOldConfigurationPerConnectionInFlight
  <2>1. Typed /\ SwitchLeavesNothingOld /\ LateStores
    BY DEF ConnectionsInv
  <2>2. ASSUME NEW i \in OldEntries(c)
        PROVE  i \in DOMAIN entries /\ OldStore(entries[i].host, c)
    <3>1. i \in DOMAIN entries /\ c \in stored[entries[i].host].late
      BY DEF OldEntries
    <3>2. entries[i].host \in Host
      BY <2>1, <3>1, EntryTyped
    <3> QED BY <2>1, <3>1, <3>2 DEF OldStore, SwitchLeavesNothingOld
  <2>3. ASSUME NEW i \in OldEntries(c), NEW j \in OldEntries(c) PROVE i = j
    <3>1. entries[i].host = entries[j].host
      BY <2>1, <2>2 DEF LateStores
    <3> QED BY <2>1, <2>2, <3>1 DEF Typed, Proved!CacheInv, Proved!BoundedMap, Proved!OneEntryPerHost
  <2>4. ASSUME InFlightAtSwitch(c), NEW i \in OldEntries(c) PROVE entries[i].host = conn[c].host
    BY <2>1, <2>2, <2>4 DEF LateStores
  <2> QED BY <2>3, <2>4
<1> QED BY <1>1, ConnectionsInvariant, PTL

-----------------------------------------------------------------------------
\* Early data does not become stale where a session and its configuration stay,
\* and the cache gains nothing.
LEMMA StaysFresh ==
    ASSUME NEW c \in Conn, conn'[c] = conn[c], StaleEarlyData(c)',
           \A i \in DOMAIN entries' : entries'[i].host = conn[c].host =>
              \E j \in DOMAIN entries : entries'[i] = entries[j]
    PROVE  StaleEarlyData(c)
<1>1. /\ conn[c].pc = "quic" /\ conn[c].early /\ conn[c].key # NoConfig
      /\ \E i \in DOMAIN entries' : entries'[i].host = conn[c].host
                                  /\ entries'[i].config # conn[c].key
  BY DEF StaleEarlyData, At
<1> QED BY <1>1 DEF StaleEarlyData, At

\* A step that makes early data stale is the store of a retry for the host.
LEMMA StaleByAStore ==
    ASSUME ConnectionsInv, Next, NEW c \in Conn, StaleEarlyData(c)', ~StaleEarlyData(c)
    PROVE  \E d \in Conn \ {c} :
              At(d, "failed") /\ At(d, "apply")' /\ conn[d].host = conn[c].host
<1>1. Typed /\ Hosted /\ conn \in [Conn -> ConnRecord]
  BY DEF ConnectionsInv, Typed
<1>2. conn'[c].pc = "quic"
  BY DEF StaleEarlyData, At
<1>3. ASSUME entries' = entries, conn'[c] = conn[c] PROVE FALSE
  BY <1>3, StaysFresh
<1>4. ASSUME NEW d \in Conn, OwnStep(d) PROVE FALSE
  <2>1. PICK r \in ConnRecord : conn' = [conn EXCEPT ![d] = r] /\ r.pc # "quic"
    BY <1>4 DEF OwnStep
  <2>2. entries' = entries
    BY <1>4 DEF OwnStep, cacheVars
  <2> QED BY <1>1, <1>2, <1>3, <2>1, <2>2
<1>5. ASSUME NEW d \in Conn, RecordResult(d) PROVE FALSE
  <2>1. conn' = [conn EXCEPT ![d] = Idle] /\ entries' = entries /\ Idle.pc # "quic"
    BY <1>5 DEF RecordResult, cacheVars, Idle
  <2> QED BY <1>1, <1>2, <1>3, <2>1
<1>6. ASSUME NEW d \in Conn, NEW h \in Host, NEW k \in Nak, Connect(d, h, k) PROVE FALSE
  <2> DEFINE r == [pc |-> "hello", host |-> h, key |-> dns[k], retry |-> NoConfig,
                   early |-> FALSE, started |-> switches]
  <2>1. conn' = [conn EXCEPT ![d] = r] /\ r.pc = "hello"
    BY <1>6 DEF Connect
  <2> HIDE DEF r
  <2>2. entries' = entries
    BY <1>6 DEF Connect, cacheVars
  <2> QED BY <1>1, <1>2, <1>3, <2>1, <2>2
<1>7. ASSUME NEW d \in Conn, NEW h \in Host, NEW k \in Nak, ConnectQuic(d, h, k) PROVE FALSE
  <2>0. PICK can \in BOOLEAN :
           /\ CanUse0RttWithECH(h, dns[k], can)
           /\ conn' = [conn EXCEPT ![d] =
                         [pc |-> "quic", host |-> h, key |-> dns[k], retry |-> NoConfig,
                          early |-> can, started |-> switches]]
    BY <1>7 DEF ConnectQuic
  <2> DEFINE r == [pc |-> "quic", host |-> h, key |-> dns[k], retry |-> NoConfig,
                   early |-> can, started |-> switches]
  <2>1. /\ CanUse0RttWithECH(h, dns[k], can)
        /\ conn' = [conn EXCEPT ![d] = r]
        /\ r.host = h /\ r.key = dns[k] /\ r.early = can
    BY <2>0
  <2> HIDE DEF r
  <2>2. \A i \in DOMAIN entries' :
           /\ \E j \in DOMAIN entries : entries'[i] = entries[j]
           /\ dns[k] # NoConfig /\ can /\ entries'[i].host = h =>
                entries'[i].config \in {NoConfig, dns[k]}
    BY <1>1, <2>1, CheckEffect
  <2>3. CASE d = c
    <3>1. conn'[c] = r
      BY <1>1, <2>1, <2>3
    <3>2. PICK i \in DOMAIN entries' : entries'[i].host = h /\ entries'[i].config # dns[k]
      BY <2>1, <3>1 DEF StaleEarlyData
    <3>3. can /\ dns[k] # NoConfig
      BY <2>1, <3>1 DEF StaleEarlyData
    <3>4. entries'[i].config = NoConfig
      BY <2>2, <3>2, <3>3
    <3>5. entries'[i].config \in Config
      BY <1>1, <2>2, EntryTyped
    <3> QED BY <3>4, <3>5, CacheParameters
  <2>4. CASE d # c
    <3>1. conn'[c] = conn[c]
      BY <1>1, <2>1, <2>4
    <3> QED BY <2>2, <3>1, StaysFresh
  <2> QED BY <2>3, <2>4
<1>8. ASSUME NEW d \in Conn, HandleECHRetryStore(d)
      PROVE  d # c /\ At(d, "failed") /\ At(d, "apply")' /\ conn[d].host = conn[c].host
  <2> DEFINE h == conn[d].host
             k == conn[d].retry
             r == [conn[d] EXCEPT !.pc = "apply"]
  <2>1. /\ At(d, "failed") /\ k # NoConfig /\ Cache!Store(h, k)
        /\ conn' = [conn EXCEPT ![d] = r]
    BY <1>8 DEF HandleECHRetryStore
  <2>2. conn[d] \in ConnRecord /\ h \in Host /\ k \in Config /\ r.pc = "apply"
    BY <1>1, <2>1 DEF Hosted, Own, At, ConnRecord
  <2> HIDE DEF r
  <2>3. conn'[d] = r /\ \A e \in Conn : e # d => conn'[e] = conn[e]
    BY <1>1, <2>1
  <2>4. d # c /\ At(d, "apply")'
    BY <1>2, <2>2, <2>3 DEF At
  <2>5. \A i \in DOMAIN entries' :
          \/ entries'[i].host = h
          \/ \E j \in DOMAIN entries : entries'[i] = entries[j]
    BY <1>1, <2>1, <2>2, StoreStep
  <2>6. h = conn[c].host
    BY <2>3, <2>4, <2>5, StaysFresh
  <2> QED BY <2>1, <2>4, <2>6
<1>9. ASSUME NEW d \in Conn, Progress(d)
      PROVE  \E e \in Conn \ {c} :
                At(e, "failed") /\ At(e, "apply")' /\ conn[e].host = conn[c].host
  <2>1. CASE \/ ServerAnswer(d) \/ QuicAnswer(d) \/ ECHRetryCallback(d)
             \/ HandleECHRetryFallback(d) \/ HandleECHRetryApply(d) \/ FinishPlain(d)
    BY <1>1, <1>4, <2>1, OwnSteps
  <2> QED BY <1>5, <1>8, <1>9, <2>1 DEF Progress
<1>10. ASSUME NEW type \in NetworkType, OnNetworkChanged(type) PROVE FALSE
  BY <1>3, <1>10 DEF OnNetworkChanged, cacheVars
<1>11. ASSUME ObserverClearCache PROVE FALSE
  <2>1. entries' = <<>> /\ conn' = conn
    BY <1>11 DEF ObserverClearCache, Cache!Clear
  <2> QED BY <2>1 DEF StaleEarlyData
<1>12. ASSUME Tick PROVE FALSE
  BY <1>3, <1>12 DEF Tick, Cache!Tick
<1>13. ASSUME NEW h \in Host, OnQuicConnectionMigrationWithECH(h) \/ RotateKey(h) PROVE FALSE
  BY <1>3, <1>13 DEF OnQuicConnectionMigrationWithECH, RotateKey, cacheVars
<1>14. ASSUME NEW h \in Host, NEW k \in Nak, RefreshDns(h, k) PROVE FALSE
  BY <1>3, <1>14 DEF RefreshDns, cacheVars
<1> QED BY <1>6, <1>7, <1>9, <1>10, <1>11, <1>12, <1>13, <1>14 DEF Next

(***************************************************************************)
(* The answer of the 0-RTT check, read before a session shakes hands, is   *)
(* made false only by a retry that stores the newer configuration          *)
(* (quic_ech_integration.cc:105-124, ech_retry_handler.cc:149).            *)
(***************************************************************************)
THEOREM EarlyDataIsFreshUntilAStore == Spec => EarlyDataGoesStaleOnlyByAStore
<1>1. ConnectionsInv /\ [Next]_vars =>
        [\A c \in Conn :
           StaleEarlyData(c)' /\ ~StaleEarlyData(c) =>
              \E d \in Conn \ {c} :
                 At(d, "failed") /\ At(d, "apply")' /\ conn[d].host = conn[c].host]_vars
  BY StaleByAStore
<1> QED BY <1>1, ConnectionsInvariant, PTL DEF Spec, EarlyDataGoesStaleOnlyByAStore

-----------------------------------------------------------------------------
(***************************************************************************)
(* Retries.  A rejected connection offered a key that is behind the        *)
(* server's, another host's being behind all of them, and what it was      *)
(* given to retry with is its server's and newer.                          *)
(***************************************************************************)
Behind(r) ==
    CASE r.key = NoConfig -> 0
      [] r.key # NoConfig /\ r.key[1] = r.host -> rotation[r.host] - r.key[2]
      [] r.key # NoConfig /\ r.key[1] # r.host -> rotation[r.host] + 1

Retrying(r) ==
    /\ r.pc \in {"rejected", "failed", "apply"} =>
         /\ r.key # NoConfig /\ Behind(r) >= 1
         /\ r.retry # NoConfig /\ r.key[1] = r.host => r.retry[2] > r.key[2]
    /\ r.pc = "apply" => r.retry # NoConfig

RetriesInv == ConnectionsInv /\ \A c \in Conn : Retrying(conn[c])

\* How many steps a connection has left while no server rotates its key: an
\* answer and an end, and five for every key it may still be given.
StepsLeft(r) ==
    CASE r.pc \in {"hello", "quic"} -> 5 * Behind(r) + 2
      [] r.pc = "rejected" -> 5 * Behind(r) + 1
      [] r.pc = "failed" -> 5 * Behind(r)
      [] r.pc = "apply" -> 5 * Behind(r) - 1
      [] r.pc \in {"plain", "accepted", "fallback", "error"} -> 1
      [] r.pc = "idle" -> 0

(***************************************************************************)
(* A step of a connection, by its record before and after.                 *)
(***************************************************************************)
RecordStep(q, r) ==
    \/ r.pc \in {"plain", "accepted", "fallback", "error", "idle"}
         /\ q.pc \notin {"plain", "accepted", "fallback", "error", "idle"}
    \/ q.pc \in {"plain", "accepted", "fallback", "error"} /\ r.pc = "idle"
    \/ /\ q.pc = "hello" /\ r.pc = "rejected" /\ r.host = q.host /\ r.key = q.key
       /\ q.key \notin {NoConfig, ServerConfig(q.host)}
       /\ r.retry \in {NoConfig, ServerConfig(q.host)}
    \/ /\ q.pc = "rejected" /\ r.pc = "failed"
       /\ r.host = q.host /\ r.key = q.key /\ r.retry = q.retry
    \/ /\ q.pc = "failed" /\ r.pc = "apply" /\ q.retry # NoConfig
       /\ r.host = q.host /\ r.key = q.key /\ r.retry = q.retry
    \/ /\ q.pc \in {"rejected", "apply"} /\ r.pc = "hello" /\ q.retry # NoConfig
       /\ r.host = q.host /\ r.key = q.retry

LEMMA ProgressByRecord ==
    ASSUME Typed, NEW c \in Conn, Retrying(conn[c]), Progress(c)
    PROVE  /\ RecordStep(conn[c], conn'[c])
           /\ conn[c].pc # "idle"
           /\ \A d \in Conn : d # c => conn'[d] = conn[d]
           /\ rotation' = rotation
<1>1. conn \in [Conn -> ConnRecord] /\ conn[c] \in ConnRecord
  BY DEF Typed
<1>2. CASE ServerAnswer(c)
  BY <1>1, <1>2 DEF ServerAnswer, At, RecordStep, ConnRecord
<1>3. CASE QuicAnswer(c)
  BY <1>1, <1>3 DEF QuicAnswer, At, RecordStep, ConnRecord
<1>4. CASE ECHRetryCallback(c)
  BY <1>1, <1>4 DEF ECHRetryCallback, At, RecordStep, ConnRecord
<1>5. CASE HandleECHRetryFallback(c)
  BY <1>1, <1>5 DEF HandleECHRetryFallback, At, RecordStep, ConnRecord
<1>6. CASE HandleECHRetryStore(c)
  BY <1>1, <1>6 DEF HandleECHRetryStore, At, RecordStep, ConnRecord
<1>7. CASE HandleECHRetryApply(c)
  BY <1>1, <1>7 DEF HandleECHRetryApply, At, RecordStep, ConnRecord, Retrying
<1>8. CASE RecordResult(c)
  BY <1>1, <1>8 DEF RecordResult, RecordStep, Idle
<1>9. CASE FinishPlain(c)
  BY <1>1, <1>9 DEF FinishPlain, At, RecordStep, Idle
<1> QED BY <1>2, <1>3, <1>4, <1>5, <1>6, <1>7, <1>8, <1>9 DEF Progress

\* How far a key that was served lies behind: not below zero, and not at all
\* only if it is the current one.
LEMMA BehindTyped ==
    ASSUME Typed, NEW h \in Host, NEW r, r.host = h, WasServed(r.key)
    PROVE  /\ Behind(r) \in 0..(MaxRotations + 1)
           /\ r.key # NoConfig /\ r.key[1] = h => /\ r.key[2] \in 0..rotation[h]
                                                 /\ Behind(r) = rotation[h] - r.key[2]
           /\ r.key # NoConfig /\ r.key[1] # h => Behind(r) = rotation[h] + 1
           /\ r.key \notin {NoConfig, ServerConfig(h)} => Behind(r) >= 1
<1>1. rotation[h] \in 0..MaxRotations /\ MaxRotations \in Nat
  BY ConnectionsAssumption DEF Typed
<1>2. CASE r.key = NoConfig
  BY <1>1, <1>2 DEF Behind
<1>3. CASE r.key # NoConfig /\ r.key[1] = h
  <2>1. r.key \in Served(h)
    BY <1>3 DEF WasServed
  <2>2. PICK n \in 0..rotation[h] : r.key = <<h, n>>
    BY <2>1 DEF Served
  <2>3. r.key[2] = n /\ Behind(r) = rotation[h] - n
    BY <1>3, <2>2 DEF Behind
  <2> QED BY <1>1, <1>3, <2>2, <2>3 DEF ServerConfig
<1>4. CASE r.key # NoConfig /\ r.key[1] # h
  <2>1. Behind(r) = rotation[h] + 1
    BY <1>4 DEF Behind
  <2> QED BY <1>1, <1>4, <2>1
<1> QED BY <1>2, <1>3, <1>4

\* What a step of a connection does to its record: the retry is forward, what
\* it goes on with lies ahead of what it had, and fewer steps are left.
LEMMA StepForward ==
    ASSUME Typed, NEW q, NEW r, Own(q), q.pc \in Pc, r.pc \in Pc,
           Retrying(q), RecordStep(q, r), q.pc # "idle"
    PROVE  /\ Retrying(r)
           /\ r.pc = "hello" =>
                /\ r.key \in Served(q.host)
                /\ q.key \in Served(q.host) => r.key[2] > q.key[2]
           /\ StepsLeft(r) < StepsLeft(q)
<1>1. /\ q.host \in Host /\ WasServed(q.key)
      /\ q.retry \in Served(q.host) \cup {NoConfig}
  BY DEF Own
<1>2. /\ Behind(q) \in Nat
      /\ q.key # NoConfig /\ q.key[1] = q.host =>
           q.key[2] \in 0..rotation[q.host] /\ Behind(q) = rotation[q.host] - q.key[2]
      /\ q.key # NoConfig /\ q.key[1] # q.host => Behind(q) = rotation[q.host] + 1
      /\ q.key \notin {NoConfig, ServerConfig(q.host)} => Behind(q) >= 1
  <2> DEFINE h == q.host
  <2> QED BY <1>1, BehindTyped, ConnectionsAssumption
<1>3. rotation[q.host] \in Nat
  <2>1. rotation[q.host] \in 0..MaxRotations
    BY <1>1 DEF Typed
  <2> QED BY <2>1
<1>4. CASE \/ /\ r.pc \in {"plain", "accepted", "fallback", "error", "idle"}
              /\ q.pc \notin {"plain", "accepted", "fallback", "error", "idle"}
           \/ q.pc \in {"plain", "accepted", "fallback", "error"} /\ r.pc = "idle"
  BY <1>2, <1>4 DEF StepsLeft, Retrying, Pc
<1>5. CASE /\ q.pc = "hello" /\ r.pc = "rejected" /\ r.host = q.host /\ r.key = q.key
           /\ q.key \notin {NoConfig, ServerConfig(q.host)}
           /\ r.retry \in {NoConfig, ServerConfig(q.host)}
  <2>1. Behind(r) = Behind(q)
    BY <1>5 DEF Behind
  <2>2. ServerConfig(q.host)[2] = rotation[q.host]
    BY DEF ServerConfig
  <2> QED BY <1>2, <1>3, <1>5, <2>1, <2>2 DEF StepsLeft, Retrying
<1>6. CASE \/ q.pc = "rejected" /\ r.pc = "failed"
           \/ q.pc = "failed" /\ r.pc = "apply"
  <2>1. r.host = q.host /\ r.key = q.key /\ r.retry = q.retry
        /\ (r.pc = "apply" => q.retry # NoConfig)
    BY <1>6 DEF RecordStep
  <2>2. Behind(r) = Behind(q)
    BY <2>1 DEF Behind
  <2> QED BY <1>2, <1>6, <2>1, <2>2 DEF StepsLeft, Retrying
<1>7. CASE /\ q.pc \in {"rejected", "apply"} /\ r.pc = "hello" /\ q.retry # NoConfig
           /\ r.host = q.host /\ r.key = q.retry
  <2> DEFINE h == q.host
  <2>1. /\ q.key # NoConfig /\ Behind(q) >= 1
        /\ q.key[1] = h => q.retry[2] > q.key[2]
    BY <1>7 DEF Retrying
  <2>2. r.key \in Served(h) /\ r.key # NoConfig /\ r.key[1] = h /\ WasServed(r.key)
    BY <1>1, <1>7, ServedHere
  <2>3. /\ Behind(r) \in Nat /\ r.key[2] \in 0..rotation[h]
        /\ Behind(r) = rotation[h] - r.key[2]
    BY <1>1, <1>7, <2>2, BehindTyped, ConnectionsAssumption
  <2>4. Behind(r) < Behind(q)
    <3>1. CASE q.key[1] = h
      BY <1>2, <1>3, <1>7, <2>1, <2>3, <3>1
    <3>2. CASE q.key[1] # h
      BY <1>2, <1>3, <2>1, <2>3, <3>2
    <3> QED BY <3>1, <3>2
  <2>5. q.key \in Served(h) => r.key[2] > q.key[2]
    BY <1>7, <2>1, ServedHere
  <2>6. Retrying(r) /\ StepsLeft(r) < StepsLeft(q)
    BY <1>2, <1>7, <2>1, <2>3, <2>4 DEF StepsLeft, Retrying
  <2> QED BY <2>2, <2>5, <2>6
<1> QED BY <1>4, <1>5, <1>6, <1>7 DEF RecordStep

\* A connection that does not step keeps its record, but a rotation may leave
\* it further behind.
LEMMA RestKeeps ==
    ASSUME Typed, Typed', NEW r, Own(r), r.pc \in Pc, Retrying(r),
           \A h \in Host : rotation'[h] >= rotation[h]
    PROVE  Retrying(r)' /\ (rotation'[r.host] = rotation[r.host] => StepsLeft(r)' = StepsLeft(r))
<1>1. CASE r.pc = "idle"
  BY <1>1 DEF Retrying, StepsLeft
<1>2. CASE r.pc # "idle"
  <2>1. r.host \in Host /\ WasServed(r.key)
    BY <1>2 DEF Own
  <2>2. rotation[r.host] \in Nat /\ rotation'[r.host] \in Nat
    <3>1. rotation[r.host] \in 0..MaxRotations
      BY <2>1 DEF Typed
    <3>2. rotation'[r.host] \in 0..MaxRotations
      BY <2>1 DEF Typed
    <3> QED BY <3>1, <3>2
  <2>3. r.key # NoConfig /\ r.key[1] = r.host => r.key[2] \in 0..rotation[r.host]
    BY <2>1, BehindTyped
  <2>4. Behind(r)' >= Behind(r) /\ (rotation'[r.host] = rotation[r.host] => Behind(r)' = Behind(r))
    BY <2>1, <2>2, <2>3 DEF Behind
  <2>5. Behind(r) \in Int /\ Behind(r)' \in Int
    BY <2>2, <2>3 DEF Behind
  <2>6. Retrying(r)'
    BY <2>4, <2>5 DEF Retrying
  <2>7. Behind(r)' = Behind(r) => StepsLeft(r)' = StepsLeft(r)
    BY <1>2 DEF StepsLeft, Pc
  <2> QED BY <2>4, <2>6, <2>7
<1> QED BY <1>1, <1>2

\* What a step of the system is to one connection: nothing, or a rotation; a
\* step of its own; or its beginning.
LEMMA StepOfOne ==
    ASSUME RetriesInv, Next, NEW c \in Conn
    PROVE  \/ conn'[c] = conn[c] /\ \A h \in Host : rotation'[h] >= rotation[h]
           \/ conn[c].pc # "idle" /\ RecordStep(conn[c], conn'[c]) /\ rotation' = rotation
           \/ conn[c].pc = "idle" /\ conn'[c].pc \in {"hello", "quic"}
<1>1. Typed /\ conn \in [Conn -> ConnRecord] /\ \A h \in Host : rotation[h] \in Nat
  <2>1. \A h \in Host : rotation[h] \in 0..MaxRotations
    BY DEF RetriesInv, ConnectionsInv, Typed
  <2>2. 0..MaxRotations \subseteq Nat
    BY ConnectionsAssumption
  <2>3. Typed
    BY DEF RetriesInv, ConnectionsInv
  <2>4. conn \in [Conn -> ConnRecord]
    BY <2>3 DEF Typed
  <2> QED BY <2>1, <2>2, <2>3, <2>4
<1>2. CASE conn' = conn /\ rotation' = rotation
  BY <1>1, <1>2
<1>3. ASSUME NEW d \in Conn, Progress(d)
      PROVE  \/ conn'[c] = conn[c] /\ rotation' = rotation
             \/ conn[c].pc # "idle" /\ RecordStep(conn[c], conn'[c]) /\ rotation' = rotation
  BY <1>1, <1>3, ProgressByRecord DEF RetriesInv
<1>4. ASSUME NEW d \in Conn, NEW h \in Host, NEW k \in Nak,
             Connect(d, h, k) \/ ConnectQuic(d, h, k)
      PROVE  \/ conn'[c] = conn[c] /\ rotation' = rotation
             \/ conn[c].pc = "idle" /\ conn'[c].pc \in {"hello", "quic"}
  BY <1>1, <1>4 DEF Connect, ConnectQuic, At
<1>5. ASSUME NEW type \in NetworkType, OnNetworkChanged(type) PROVE UNCHANGED <<conn, rotation>>
  BY <1>5 DEF OnNetworkChanged
<1>6. ASSUME ObserverClearCache \/ Tick PROVE UNCHANGED <<conn, rotation>>
  BY <1>6 DEF ObserverClearCache, Tick
<1>7. ASSUME \E h \in Host : \/ OnQuicConnectionMigrationWithECH(h)
                             \/ \E k \in Nak : RefreshDns(h, k)
      PROVE  UNCHANGED <<conn, rotation>>
  BY <1>7 DEF OnQuicConnectionMigrationWithECH, RefreshDns
<1>8. ASSUME NEW h \in Host, RotateKey(h)
      PROVE  conn' = conn /\ \A g \in Host : rotation'[g] >= rotation[g]
  <2>1. rotation' = [rotation EXCEPT ![h] = @ + 1] /\ conn' = conn
    BY <1>8 DEF RotateKey
  <2>2. DOMAIN rotation = Host
    BY <1>1 DEF Typed
  <2> QED BY <1>1, <2>1, <2>2
<1> QED BY <1>1, <1>2, <1>3, <1>4, <1>5, <1>6, <1>7, <1>8 DEF Next

\* A connection shakes hands again, with a newer configuration of its server.
Again(c) == ~At(c, "idle") /\ ~At(c, "hello") /\ At(c, "hello")'

Forward(c) ==
    /\ conn'[c].key \in Served(conn[c].host)
    /\ conn[c].key \in Served(conn[c].host) => conn'[c].key[2] > conn[c].key[2]

\* The same, for the record's place in its retries.
LEMMA RetryStep ==
    ASSUME RetriesInv, ConnectionsInv', [Next]_vars, NEW c \in Conn
    PROVE  /\ Retrying(conn[c])'
           /\ Again(c) => Forward(c)
           /\ ~At(c, "idle") =>
                \/ StepsLeft(conn[c])' < StepsLeft(conn[c])
                \/ /\ conn'[c] = conn[c]
                   /\ rotation'[conn[c].host] = rotation[conn[c].host] =>
                        StepsLeft(conn[c])' = StepsLeft(conn[c])
<1>1. PICK q, r : q = conn[c] /\ r = conn'[c]
  OBVIOUS
<1>2. /\ Typed /\ Typed' /\ Retrying(q) /\ Own(q)
      /\ q \in ConnRecord /\ r \in ConnRecord /\ q.pc \in Pc /\ r.pc \in Pc
  <2>1. Typed /\ Typed' /\ Retrying(q) /\ Own(q)
    BY <1>1 DEF RetriesInv, ConnectionsInv, Hosted
  <2>3. conn[c] \in ConnRecord /\ conn'[c] \in ConnRecord
    BY <2>1 DEF Typed
  <2> QED BY <1>1, <2>1, <2>3 DEF ConnRecord
<1>3. CASE q = r /\ \A h \in Host : rotation'[h] >= rotation[h]
  <2>1. Retrying(q)' /\ (rotation'[q.host] = rotation[q.host] => StepsLeft(q)' = StepsLeft(q))
    BY <1>2, <1>3, RestKeeps
  <2>2. ~Again(c)
    BY <1>1, <1>3 DEF Again, At
  <2> QED BY <1>1, <1>3, <2>1, <2>2 DEF Retrying, StepsLeft, Behind
<1>4. CASE q.pc # "idle" /\ RecordStep(q, r) /\ rotation' = rotation
  <2>1. /\ Retrying(r)
        /\ r.pc = "hello" =>
             /\ r.key \in Served(q.host)
             /\ q.key \in Served(q.host) => r.key[2] > q.key[2]
        /\ StepsLeft(r) < StepsLeft(q)
    BY <1>2, <1>4, StepForward
  <2>2. Retrying(r)' /\ StepsLeft(r)' = StepsLeft(r)
    BY <1>4, <2>1 DEF Retrying, StepsLeft, Behind
  <2>3. Retrying(conn[c])' /\ StepsLeft(conn[c])' = StepsLeft(r)'
    BY <1>1, <2>2 DEF Retrying, StepsLeft, Behind
  <2>4. Again(c) => Forward(c)
    BY <1>1, <2>1 DEF Again, Forward, At
  <2> QED BY <1>1, <2>1, <2>2, <2>3, <2>4
<1>5. CASE q.pc = "idle" /\ r.pc \in {"hello", "quic"}
  BY <1>1, <1>5 DEF Retrying, At, Again
<1>6. CASE UNCHANGED vars
  <2>1. conn' = conn /\ rotation' = rotation
    BY <1>6 DEF vars
  <2>2. \A h \in Host : rotation[h] \in Int
    <3>1. \A h \in Host : rotation[h] \in 0..MaxRotations
      BY <1>2 DEF Typed
    <3> QED BY <3>1
  <2> QED BY <1>1, <1>3, <2>1, <2>2
<1> QED BY <1>1, <1>3, <1>4, <1>5, <1>6, StepOfOne

(***************************************************************************)
(* The invariant of retries: a rejected connection offered an older key of *)
(* its server's or another host's, and retries with a newer of its server's *)
(* (ech_retry_handler.cc:127-173, ssl_client_socket.cc:209-264).           *)
(***************************************************************************)
THEOREM RetriesInvariant == Spec => []RetriesInv
<1>1. Init => RetriesInv
  <2> SUFFICES ASSUME Init PROVE RetriesInv
    OBVIOUS
  <2>1. conn = [c \in Conn |-> Idle]
    BY DEF Init
  <2> QED BY <2>1, ConnectionsInvInit DEF RetriesInv, Retrying, Idle
<1>2. RetriesInv /\ ConnectionsInv' /\ [Next]_vars => RetriesInv'
  BY RetryStep DEF RetriesInv
<1> QED BY <1>1, <1>2, ConnectionsInvariant, PTL DEF Spec

(***************************************************************************)
(* Every handshake of a connection after its first offers a configuration  *)
(* of its own server, and a newer one if the rejected one was that         *)
(* server's, whatever DNS had it begin with (ssl_client_socket.cc:264,     *)
(* ech_retry_handler.cc:152-170).                                          *)
(***************************************************************************)
THEOREM RetriesGoForward == Spec => RetriesMoveForward
<1>1. RetriesInv /\ ConnectionsInv' /\ [Next]_vars =>
        [\A c \in Conn : Again(c) => Forward(c)]_vars
  BY RetryStep
<1>2. [\A c \in Conn : Again(c) => Forward(c)]_vars =>
        [\A c \in Conn : ~At(c, "idle") /\ ~At(c, "hello") /\ At(c, "hello")' =>
           LET rejected == conn[c].key
               offered == conn'[c].key
               own == Served(conn[c].host)
           IN  offered \in own /\ (rejected \in own => offered[2] > rejected[2])]_vars
  BY DEF Again, Forward
<1> QED
  BY <1>1, <1>2, RetriesInvariant, ConnectionsInvariant, PTL DEF Spec, RetriesMoveForward

(***************************************************************************)
(* A connection runs down: it is never more than two steps, and five for   *)
(* every key of its server it may be given (all, when it begins with       *)
(* another host's), from its end; each step  *)
(* of its own brings it nearer, and of all the others only a rotation of   *)
(* its server's key takes it further away.  What ConnectionsEnd needs      *)
(* beyond this is that its steps are taken.                                *)
(***************************************************************************)
StepsBounded ==
    \A c \in Conn :
        /\ StepsLeft(conn[c]) \in 0..(5 * (MaxRotations + 1) + 2)
        /\ StepsLeft(conn[c]) = 0 <=> At(c, "idle")

StepsRunDown ==
    [][\A c \in Conn :
         ~At(c, "idle") =>
            \/ StepsLeft(conn[c])' < StepsLeft(conn[c])
            \/ /\ conn'[c] = conn[c]
               /\ rotation'[conn[c].host] = rotation[conn[c].host] =>
                    StepsLeft(conn[c])' = StepsLeft(conn[c])]_vars

THEOREM ConnectionsRunDown == Spec => []StepsBounded /\ StepsRunDown
<1>1. RetriesInv => StepsBounded
  <2> SUFFICES ASSUME RetriesInv, NEW c \in Conn
               PROVE  /\ StepsLeft(conn[c]) \in 0..(5 * (MaxRotations + 1) + 2)
                      /\ StepsLeft(conn[c]) = 0 <=> conn[c].pc = "idle"
    BY DEF StepsBounded, At
  <2>1. /\ Typed /\ Own(conn[c]) /\ Retrying(conn[c]) /\ conn[c].pc \in Pc
        /\ MaxRotations \in Nat
    BY ConnectionsAssumption DEF RetriesInv, ConnectionsInv, Hosted, Typed, ConnRecord
  <2>2. CASE conn[c].pc = "idle"
    BY <2>1, <2>2 DEF StepsLeft
  <2>3. CASE conn[c].pc # "idle"
    <3>1. Behind(conn[c]) \in 0..(MaxRotations + 1)
      BY <2>1, <2>3, BehindTyped DEF Own
    <3> QED BY <2>1, <2>3, <3>1 DEF StepsLeft, Retrying, Pc
  <2> QED BY <2>2, <2>3
<1>2. RetriesInv /\ ConnectionsInv' /\ [Next]_vars =>
        [\A c \in Conn :
           ~At(c, "idle") =>
              \/ StepsLeft(conn[c])' < StepsLeft(conn[c])
              \/ /\ conn'[c] = conn[c]
                 /\ rotation'[conn[c].host] = rotation[conn[c].host] =>
                      StepsLeft(conn[c])' = StepsLeft(conn[c])]_vars
  BY RetryStep
<1> QED BY <1>1, <1>2, RetriesInvariant, ConnectionsInvariant, PTL DEF Spec, StepsRunDown

-----------------------------------------------------------------------------
(***************************************************************************)
(* The parts.  Every step of the composition is a step of the cache, or    *)
(* leaves it alone, and the same for the monitor.                          *)
(***************************************************************************)
LEMMA OwnStepOfParts ==
    ASSUME ConnectionsInv, NEW c \in Conn, Progress(c)
    PROVE  [Cache!CacheNext]_cacheVars /\ [Monitor!MonitorNext]_stats
<1>1. conn[c] \in ConnRecord /\ Own(conn[c])
  BY DEF ConnectionsInv, Typed, Hosted
<1>2. CASE HandleECHRetryStore(c)
  <2>1. conn[c].host \in Host /\ conn[c].retry \in Config
    BY <1>1, <1>2 DEF HandleECHRetryStore, At, Own, ConnRecord
  <2>2. Cache!Store(conn[c].host, conn[c].retry) /\ stats' = stats
    BY <1>2 DEF HandleECHRetryStore
  <2> QED BY <2>1, <2>2 DEF Cache!CacheNext
<1>3. CASE RecordResult(c)
  <2>1. conn[c].host \in Host /\ At(c, "accepted") \in BOOLEAN
    BY <1>1, <1>3 DEF RecordResult, At, Own
  <2>2. Monitor!RecordResult(conn[c].host, At(c, "accepted")) /\ UNCHANGED cacheVars
    BY <1>3 DEF RecordResult
  <2> QED BY <2>1, <2>2 DEF Monitor!MonitorNext
<1>4. CASE UNCHANGED <<cacheVars, stats>>
  BY <1>4
<1>5. ServerAnswer(c) \/ QuicAnswer(c) \/ ECHRetryCallback(c) \/ HandleECHRetryFallback(c)
        \/ HandleECHRetryApply(c) \/ FinishPlain(c) => UNCHANGED <<cacheVars, stats>>
  BY DEF ServerAnswer, QuicAnswer, ECHRetryCallback, HandleECHRetryFallback,
         HandleECHRetryApply, FinishPlain
<1> QED BY <1>2, <1>3, <1>4, <1>5 DEF Progress

LEMMA StepOfParts ==
    ASSUME ConnectionsInv, [Next]_vars
    PROVE  [Cache!CacheNext]_cacheVars /\ [Monitor!MonitorNext]_stats
<1>1. ASSUME NEW c \in Conn, Progress(c)
      PROVE  [Cache!CacheNext]_cacheVars /\ [Monitor!MonitorNext]_stats
  BY <1>1, OwnStepOfParts
<1>2. ASSUME NEW c \in Conn, NEW h \in Host, NEW k \in Nak, Connect(c, h, k)
      PROVE  UNCHANGED <<cacheVars, stats>>
  BY <1>2 DEF Connect
<1>3. ASSUME NEW c \in Conn, NEW h \in Host, NEW k \in Nak, ConnectQuic(c, h, k)
      PROVE  [Cache!CacheNext]_cacheVars /\ stats' = stats
  <2>1. PICK can \in BOOLEAN : CanUse0RttWithECH(h, dns[k], can)
    BY <1>3 DEF ConnectQuic
  <2>2. UNCHANGED cacheVars \/ Cache!GetMiss(h) \/ Cache!GetExpired(h) \/ Cache!GetHit(h)
    BY <2>1 DEF CanUse0RttWithECH
  <2>3. stats' = stats
    BY <1>3 DEF ConnectQuic
  <2> QED BY <2>2, <2>3 DEF Cache!CacheNext
<1>4. ASSUME NEW type \in NetworkType, OnNetworkChanged(type)
      PROVE  UNCHANGED cacheVars /\ [Monitor!MonitorNext]_stats
  BY <1>4 DEF OnNetworkChanged, Monitor!MonitorNext
<1>5. CASE ObserverClearCache
  BY <1>5 DEF ObserverClearCache, Cache!CacheNext
<1>6. CASE Tick
  BY <1>6 DEF Tick, Cache!CacheNext
<1>7. ASSUME NEW h \in Host, OnQuicConnectionMigrationWithECH(h)
      PROVE  UNCHANGED cacheVars /\ Monitor!MonitorNext
  BY <1>7 DEF OnQuicConnectionMigrationWithECH, Monitor!MonitorNext
<1>8. ASSUME \E h \in Host : RotateKey(h) \/ \E k \in Nak : RefreshDns(h, k)
      PROVE  UNCHANGED <<cacheVars, stats>>
  BY <1>8 DEF RotateKey, RefreshDns
<1>9. UNCHANGED vars => UNCHANGED <<cacheVars, stats>>
  BY DEF vars
<1> QED BY <1>1, <1>2, <1>3, <1>4, <1>5, <1>6, <1>7, <1>8, <1>9 DEF Next

(***************************************************************************)
(* Cache and monitor behave in the composition as they are specified,      *)
(* whatever interleaves (ech_retry_handler.cc:127-173, android_network_    *)
(* config.cc:72-80, quic_ech_integration.cc:105-132): in particular what   *)
(* is stored is a configuration of a host, on each path that stores.       *)
(***************************************************************************)
THEOREM PartsKeepTheirSpecifications == Spec => PartsAreImplemented
<1>1. Init => Cache!CacheInit /\ Monitor!MonitorInit
  BY DEF Init
<1>2. ConnectionsInv /\ [Next]_vars => [Cache!CacheNext]_cacheVars /\ [Monitor!MonitorNext]_stats
  BY StepOfParts
<1> QED
  BY <1>1, <1>2, ConnectionsInvariant, PTL
  DEF Spec, PartsAreImplemented, Cache!CacheSpec, Monitor!MonitorSpec, Cache!cacheVars, cacheVars
-----------------------------------------------------------------------------
(***************************************************************************)
(* The verdict and the network.  A disabled host has FailureLimit results  *)
(* at least, and of these no more than one for each connection that was in *)
(* flight at the last switch belongs to the network before.                *)
(***************************************************************************)
OfOldNetwork(h) == {i \in DOMAIN counted[h] : counted[h][i].started < switches}
OfThisNetwork(h) == {i \in DOMAIN counted[h] : counted[h][i].started = switches}

DisabledOnNewEvidence ==
    \A h \in Host : Monitor!ShouldDisableECH(h) =>
        FailureLimit - Cardinality(Conn) <= Cardinality(OfThisNetwork(h))

\* What is counted is what the monitor has counted, and of no network to come.
CountedInv ==
    \A h \in Host : /\ Len(counted[h]) = stats[h].total
                    /\ \A i \in DOMAIN counted[h] : counted[h][i].started <= switches

\* The monitor's theorem, for this monitor.
LEMMA EvidenceHere == Spec => []Monitor!DisabledOnEvidence
<1>1. ProvedMonitor!MonitorSpec => []ProvedMonitor!DisabledOnEvidence
  <2>1. /\ FailureLimit \in Nat \ {0} /\ MinAttempts \in Nat \ {0} /\ MinRate \in 0..100
        /\ 100 * FailureLimit <= (100 - MinRate) * MinAttempts /\ MaxAttempts \in Nat
    BY ConnectionsAssumption
  <2> QED BY <2>1, ProvedMonitor!DisabledOnlyOnEvidence
<1>2. Monitor!MonitorInit => ProvedMonitor!MonitorInit
  BY DEF Monitor!MonitorInit, ProvedMonitor!MonitorInit, Monitor!NoStats, ProvedMonitor!NoStats
<1>3. [Monitor!MonitorNext]_stats => [ProvedMonitor!MonitorNext]_stats
  BY DEF Monitor!MonitorNext, ProvedMonitor!MonitorNext, Monitor!RecordResult,
         ProvedMonitor!RecordResult, Monitor!AfterResult, ProvedMonitor!AfterResult,
         Monitor!Reset, ProvedMonitor!Reset, Monitor!ClearAll, ProvedMonitor!ClearAll,
         Monitor!NoStats, ProvedMonitor!NoStats
<1>4. ProvedMonitor!DisabledOnEvidence => Monitor!DisabledOnEvidence
  BY DEF ProvedMonitor!DisabledOnEvidence, Monitor!DisabledOnEvidence,
         ProvedMonitor!ShouldDisableECH, Monitor!ShouldDisableECH, ProvedMonitor!Disable,
         Monitor!Disable, ProvedMonitor!LowRate, Monitor!LowRate, ProvedMonitor!Failures,
         Monitor!Failures
<1> QED
  BY <1>1, <1>2, <1>3, <1>4, PartsKeepTheirSpecifications, PTL
  DEF PartsAreImplemented, Monitor!MonitorSpec, ProvedMonitor!MonitorSpec

LEMMA CountedElement ==
    ASSUME NEW s \in Seq(Counted), NEW i \in DOMAIN s
    PROVE  s[i] \in Counted /\ s[i].conn \in Conn /\ s[i].started \in Nat
<1>1. s[i] \in Counted
  OBVIOUS
<1> QED BY <1>1 DEF Counted

LEMMA CountedInvStep ==
    ASSUME ConnectionsInv, ConnectionsInv', CountedInv, [Next]_vars
    PROVE  CountedInv'
<1>1. /\ Typed /\ Hosted /\ switches \in Nat
      /\ \A h \in Host : counted[h] \in Seq(Counted)
      /\ counted \in [Host -> Seq(Counted)] /\ stats \in [Host -> Monitor!HostStats]
  BY DEF ConnectionsInv, Typed, Monitor!MonitorTypeOK
<1>2. ASSUME UNCHANGED <<stats, counted>>, switches' \in {switches, switches + 1}
      PROVE  CountedInv'
  <2>1. \A h \in Host : \A i \in DOMAIN counted[h] : counted[h][i].started \in Nat
    BY <1>1, CountedElement
  <2> QED BY <1>1, <1>2, <2>1 DEF CountedInv
<1>3. ASSUME NEW h \in Host, counted' = [counted EXCEPT ![h] = <<>>], Monitor!Reset(h),
             UNCHANGED switches
      PROVE  CountedInv'
  <2>1. \A g \in Host : /\ counted'[g] = (IF g = h THEN <<>> ELSE counted[g])
                        /\ stats'[g] = IF g = h THEN Monitor!NoStats ELSE stats[g]
    BY <1>1, <1>3 DEF Monitor!Reset
  <2> QED BY <1>3, <2>1 DEF CountedInv, Monitor!NoStats
<1>4. ASSUME counted' = [h \in Host |-> <<>>], Monitor!ClearAll PROVE CountedInv'
  <2>1. \A g \in Host : counted'[g] = <<>> /\ stats'[g].total = 0
    BY <1>4 DEF Monitor!ClearAll, Monitor!NoStats
  <2> QED BY <2>1 DEF CountedInv
<1>5. ASSUME NEW c \in Conn, RecordResult(c) PROVE CountedInv'
  <2> DEFINE h == conn[c].host
             x == [conn |-> c, started |-> conn[c].started, switch |-> switches]
  <2>1. h \in Host /\ conn[c].started <= switches /\ conn[c] \in ConnRecord
    BY <1>1, <1>5 DEF RecordResult, Hosted, Own, Typed
  <2>2. x \in Counted /\ x.started <= switches
    BY <1>1, <2>1 DEF Counted, ConnRecord
  <2>3. /\ Monitor!RecordResult(h, At(c, "accepted")) /\ switches' = switches
        /\ counted' = [counted EXCEPT ![h] = Append(counted[h], x)]
    BY <1>5 DEF RecordResult, observerVars
  <2> HIDE DEF x
  <2>4. /\ \A g \in Host : g # h => counted'[g] = counted[g] /\ stats'[g] = stats[g]
        /\ counted'[h] = Append(counted[h], x)
        /\ stats'[h].total = stats[h].total + 1
    BY <1>1, <2>1, <2>3 DEF Monitor!RecordResult, Monitor!AfterResult
  <2>5. /\ Len(Append(counted[h], x)) = Len(counted[h]) + 1
        /\ DOMAIN Append(counted[h], x) = DOMAIN counted[h] \cup {Len(counted[h]) + 1}
        /\ Append(counted[h], x)[Len(counted[h]) + 1] = x
        /\ \A i \in DOMAIN counted[h] : Append(counted[h], x)[i] = counted[h][i]
    BY <1>1, <2>1, <2>2
  <2> HIDE DEF h
  <2>6. ASSUME NEW g \in Host
        PROVE  /\ Len(counted'[g]) = stats'[g].total
               /\ \A i \in DOMAIN counted'[g] : counted'[g][i].started <= switches'
    <3>1. CASE g = h
      BY <2>2, <2>3, <2>4, <2>5, <3>1 DEF CountedInv
    <3>2. CASE g # h
      BY <2>3, <2>4, <3>2 DEF CountedInv
    <3> QED BY <3>1, <3>2
  <2> QED BY <2>6 DEF CountedInv
<1>6. ASSUME NEW c \in Conn, Progress(c) PROVE CountedInv'
  <2>1. RecordResult(c) \/ UNCHANGED <<stats, counted, switches>>
    BY <1>6 DEF Progress, ServerAnswer, QuicAnswer, ECHRetryCallback, HandleECHRetryFallback,
       HandleECHRetryStore, HandleECHRetryApply, FinishPlain, observerVars
  <2> QED BY <1>2, <1>5, <1>6, <2>1
<1>7. ASSUME NEW type \in NetworkType, OnNetworkChanged(type) PROVE CountedInv'
  <2>1. \/ counted' = [h \in Host |-> <<>>] /\ Monitor!ClearAll
        \/ UNCHANGED <<stats, counted, switches>>
    BY <1>7 DEF OnNetworkChanged
  <2> QED BY <1>2, <1>4, <2>1
<1>8. ASSUME NEW h \in Host, OnQuicConnectionMigrationWithECH(h) PROVE CountedInv'
  BY <1>3, <1>8 DEF OnQuicConnectionMigrationWithECH, observerVars
<1>9. ASSUME \/ ObserverClearCache \/ Tick \/ UNCHANGED vars
             \/ \E h \in Host : RotateKey(h) \/ \E k \in Nak : RefreshDns(h, k)
             \/ \E c \in Conn, h \in Host, k \in Nak : Connect(c, h, k) \/ ConnectQuic(c, h, k)
      PROVE  CountedInv'
  <2>1. UNCHANGED <<stats, counted, switches>>
    BY <1>9 DEF ObserverClearCache, Tick, RotateKey, RefreshDns, Connect, ConnectQuic, vars,
       observerVars
  <2> QED BY <1>2, <2>1
<1> QED BY <1>6, <1>7, <1>8, <1>9 DEF Next

\* One old result per connection at most: they are no more than connections.
LEMMA OldResultsAreFew ==
    ASSUME ConnectionsInv, NEW h \in Host
    PROVE  /\ IsFiniteSet(OfOldNetwork(h))
           /\ Cardinality(OfOldNetwork(h)) <= Cardinality(Conn)
<1> DEFINE S == OfOldNetwork(h)
           f == [i \in S |-> counted[h][i].conn]
<1>1. counted[h] \in Seq(Counted)
  BY DEF ConnectionsInv, Typed
<1>2. \A i \in S : counted[h][i].conn \in Conn /\ OldAt(h, i, counted[h][i].conn)
  BY <1>1, CountedElement DEF OfOldNetwork, OldAt
<1>3. \A i, j \in S : counted[h][i].conn = counted[h][j].conn => i = j
  BY <1>2 DEF ConnectionsInv, Late
<1> HIDE DEF S
<1>4. f \in Injection(S, Conn)
  BY <1>2, <1>3 DEF Injection, IsInjective
<1> QED BY <1>4, ConnectionsAssumption, FS_Injection DEF S

(***************************************************************************)
(* A switch does not disable a host by itself: of the FailureLimit results *)
(* a disabled host has at least, all but one for each connection are of    *)
(* handshakes that began on the network there is now, although statistics  *)
(* and cache are cleared one after the other and handshakes of the network *)
(* before report late (android_network_config.cc:72-80, ech_retry_handler. *)
(* cc:211-232).                                                            *)
(***************************************************************************)
THEOREM LateResultsDisableNoHost == Spec => []DisabledOnNewEvidence
<1>1. Init => CountedInv
  BY DEF Init, CountedInv, Monitor!MonitorInit, Monitor!NoStats
<1>2. ConnectionsInv /\ ConnectionsInv' /\ CountedInv /\ [Next]_vars => CountedInv'
  BY CountedInvStep
<1>3. ConnectionsInv /\ CountedInv /\ Monitor!DisabledOnEvidence => DisabledOnNewEvidence
  <2> SUFFICES ASSUME ConnectionsInv, CountedInv, Monitor!DisabledOnEvidence,
                      NEW h \in Host, Monitor!ShouldDisableECH(h)
               PROVE  FailureLimit - Cardinality(Conn) <= Cardinality(OfThisNetwork(h))
    BY DEF DisabledOnNewEvidence
  <2>1. /\ stats[h] \in Monitor!HostStats /\ counted[h] \in Seq(Counted) /\ switches \in Nat
    BY DEF ConnectionsInv, Typed, Monitor!MonitorTypeOK
  <2>2. FailureLimit <= stats[h].total
    <3>1. stats[h].total - stats[h].successes >= FailureLimit
      BY DEF Monitor!DisabledOnEvidence, Monitor!Failures
    <3> QED BY <2>1, <3>1, ConnectionsAssumption DEF Monitor!HostStats
  <2>3. /\ DOMAIN counted[h] = 1..stats[h].total /\ stats[h].total \in Nat
    BY <2>1 DEF CountedInv, Monitor!HostStats
  <2>4. OfOldNetwork(h) \cup OfThisNetwork(h) = DOMAIN counted[h]
    <3>1. \A i \in DOMAIN counted[h] : counted[h][i].started \in Nat
      BY <2>1, CountedElement
    <3> QED BY <2>1, <3>1 DEF OfOldNetwork, OfThisNetwork, CountedInv
  <2>5. IsFiniteSet(DOMAIN counted[h]) /\ Cardinality(DOMAIN counted[h]) = stats[h].total
    <3>1. PICK n \in Nat : n = stats[h].total
      BY <2>3
    <3>2. IsFiniteSet(1..n) /\ Cardinality(1..n) = n
      BY FS_Interval
    <3> QED BY <2>3, <3>1, <3>2
  <2>6. /\ IsFiniteSet(OfOldNetwork(h)) /\ IsFiniteSet(OfThisNetwork(h))
        /\ Cardinality(OfOldNetwork(h)) \in Nat /\ Cardinality(OfThisNetwork(h)) \in Nat
        /\ Cardinality(Conn) \in Nat
    BY <2>4, <2>5, ConnectionsAssumption, FS_Subset, FS_CardinalityType
  <2>7. stats[h].total <= Cardinality(OfOldNetwork(h)) + Cardinality(OfThisNetwork(h))
    <3> DEFINE S == OfOldNetwork(h)
               T == OfThisNetwork(h)
    <3>1. /\ IsFiniteSet(S) /\ IsFiniteSet(T) /\ Cardinality(S) \in Nat /\ Cardinality(T) \in Nat
          /\ Cardinality(S \cup T) = stats[h].total
      BY <2>4, <2>5, <2>6
    <3> HIDE DEF S, T
    <3>2. Cardinality(S \cap T) \in Nat
      <4>1. IsFiniteSet(S \cap T)
        BY <3>1, FS_Subset
      <4> QED BY <4>1, FS_CardinalityType
    <3>3. Cardinality(S \cup T) = Cardinality(S) + Cardinality(T) - Cardinality(S \cap T)
      BY <3>1, FS_Union
    <3>4. stats[h].total <= Cardinality(S) + Cardinality(T)
      BY <3>1, <3>2, <3>3
    <3> QED BY <3>4 DEF S, T
  <2>8. Cardinality(OfOldNetwork(h)) <= Cardinality(Conn)
    BY OldResultsAreFew
  <2> QED BY <2>2, <2>3, <2>6, <2>7, <2>8, ConnectionsAssumption
<1> QED BY <1>1, <1>2, <1>3, ConnectionsInvariant, EvidenceHere, PTL DEF Spec
=============================================================================
