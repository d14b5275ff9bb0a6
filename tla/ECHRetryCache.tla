--------------------------- MODULE ECHRetryCache ----------------------------
(***************************************************************************)
(* ECHRetryConfigCache, ech_retry_handler.cc:44-113: the process-wide      *)
(* cache of the retry configurations servers returned, one per host:port,  *)
(* bounded in size and in age.  Every public member function takes lock_   *)
(* for its whole body, so each is one action.                              *)
(*                                                                         *)
(* A host stands for a HostPortPair and a configuration for the bytes of a *)
(* retry_config.  Time is counted in ticks of the monotonic clock.         *)
(***************************************************************************)
EXTENDS LRUCache

CONSTANTS
    Host,           \* the (host, port) pairs
    Config,         \* retry configurations (never empty: line 137)
    NoConfig,       \* the empty string Get returns when it has nothing
    NoReply,        \* reply of the operations that return nothing
    TTL,            \* 24 hours, in ticks
    MaxNow          \* bound on the clock of a run

ASSUME CacheAssumption ==
    /\ NoConfig \notin Config
    /\ TTL \in Nat
    /\ MaxNow \in Nat

VARIABLES
    entries,        \* cache_: its ordering list, most recently used first
    now,            \* base::TimeTicks::Now()
    reply           \* what the last operation returned

cacheVars == <<entries, now, reply>>

Entry == [host : Host, config : Config, stored_at : 0..MaxNow]

\* Entries are complete and dated, and Get returns a stored configuration or the
\* empty string: an expired entry is never answered with (lines 65-80).
CacheTypeOK ==
    /\ entries \in Seq(Entry)
    /\ now \in 0..MaxNow
    /\ reply \in Config \cup {NoConfig, NoReply}

CacheInit ==
    /\ entries = <<>>
    /\ now = 0
    /\ reply = NoReply

-----------------------------------------------------------------------------
\* Faulty variant of Expired: off by one at the age limit.
ExpiredEarly(e) == now - e.stored_at >= TTL

Expired(e) == now - e.stored_at > TTL

\* Faulty variant of Store: an entry that is there is not replaced.
StoreKeepsOld(h, c) ==
    /\ entries' = IF Holds(entries, h) THEN entries
                  ELSE Put(entries, [host |-> h, config |-> c, stored_at |-> now])
    /\ reply' = NoReply
    /\ now' = now

Store(h, c) ==
    /\ entries' = Put(entries, [host |-> h, config |-> c, stored_at |-> now])
    /\ reply' = NoReply
    /\ now' = now

GetMiss(h) ==
    /\ ~Holds(entries, h)
    /\ reply' = NoConfig
    /\ UNCHANGED <<entries, now>>

\* Faulty variant of GetExpired: the entry is emptied, not erased.
GetExpiredEmpties(h) ==
    /\ Holds(entries, h)
    /\ Expired(EntryOf(entries, h))
    /\ entries' = Cons([EntryOf(entries, h) EXCEPT !.config = NoConfig], Erase(entries, h))
    /\ reply' = NoConfig
    /\ now' = now

\* An entry past its age is dropped by the lookup that finds it.
GetExpired(h) ==
    /\ Holds(entries, h)
    /\ Expired(EntryOf(entries, h))
    /\ entries' = Erase(Touch(entries, h), h)
    /\ reply' = NoConfig
    /\ now' = now

\* A hit refreshes the entry's recency but not its stored_at.
GetHit(h) ==
    /\ Holds(entries, h)
    /\ ~Expired(EntryOf(entries, h))
    /\ entries' = Touch(entries, h)
    /\ reply' = EntryOf(entries, h).config
    /\ now' = now

Invalidate(h) ==
    /\ entries' = Erase(entries, h)
    /\ reply' = NoReply
    /\ now' = now

Clear ==
    /\ entries' = <<>>
    /\ reply' = NoReply
    /\ now' = now

Tick ==
    /\ now < MaxNow
    /\ now' = now + 1
    /\ UNCHANGED <<entries, reply>>

CacheNext ==
    \/ \E h \in Host, c \in Config : Store(h, c)
    \/ \E h \in Host : GetMiss(h) \/ GetExpired(h) \/ GetHit(h) \/ Invalidate(h)
    \/ Clear
    \/ Tick

CacheSpec == CacheInit /\ [][CacheNext]_cacheVars

-----------------------------------------------------------------------------
(***************************************************************************)
(* The cache is a bounded map: no host:port has two entries, however       *)
(* stores, lookups that reorder the list, evictions and erasures follow    *)
(* one another, and the list never outgrows the limit given to its         *)
(* constructor (line 108).  No entry is dated in the future.               *)
(***************************************************************************)
BoundedMap ==
    /\ Len(entries) <= Capacity
    /\ OneEntryPerHost(entries)
    /\ \A i \in DOMAIN entries : entries[i].stored_at <= now
=============================================================================
