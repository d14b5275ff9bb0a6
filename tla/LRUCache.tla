------------------------------ MODULE LRUCache ------------------------------
(***************************************************************************)
(* base::LRUCache<HostPortPair, CacheEntry> as ECHRetryConfigCache uses it *)
(* (ech_retry_handler.cc:60-112): Put, Get, Erase, Clear and size.  The    *)
(* container is Chromium's and is not in the repository; what is modelled  *)
(* is its ordering list.                                                   *)
(*                                                                         *)
(* The list is a sequence of entries, most recently used first, each a     *)
(* record with a field host (its key).  A lookup moves an entry to the     *)
(* front; a Put of a new key first drops whatever lies beyond              *)
(* Capacity - 1 entries.                                                   *)
(***************************************************************************)
EXTENDS Integers, SequencesExt

CONSTANT Capacity        \* the limit given to the constructor (1000 in the code)

ASSUME CapacityAssumption == Capacity \in Nat \ {0}

Holds(s, h) == \E i \in DOMAIN s : s[i].host = h

PositionOf(s, h) == CHOOSE i \in DOMAIN s : s[i].host = h

EntryOf(s, h) == s[PositionOf(s, h)]

Erase(s, h) == IF Holds(s, h) THEN RemoveAt(s, PositionOf(s, h)) ELSE s

\* Faulty variant of Touch: a lookup that leaves the order alone (Peek).
TouchPeeks(s, h) == s

\* A successful Get: the entry, unchanged, becomes the most recently used.
Touch(s, h) == Cons(EntryOf(s, h), Erase(s, h))

ShrinkToSize(s, n) == IF Len(s) > n THEN SubSeq(s, 1, n) ELSE s

\* Faulty variants of Put: one entry too many; room made for a key already there.
PutKeepsOneMore(s, e) ==
    Cons(e, IF Holds(s, e.host) THEN Erase(s, e.host) ELSE ShrinkToSize(s, Capacity))

PutAlwaysShrinks(s, e) == Cons(e, Erase(ShrinkToSize(s, Capacity - 1), e.host))

\* An existing key is replaced and moved to the front, and nothing is evicted
\* for it; a new key makes room for itself first.
Put(s, e) ==
    Cons(e, IF Holds(s, e.host)
              THEN Erase(s, e.host)
              ELSE ShrinkToSize(s, Capacity - 1))

(***************************************************************************)
(* Every key occurs once: the index from keys to list positions is a       *)
(* function.                                                               *)
(***************************************************************************)
OneEntryPerHost(s) ==
    \A i, j \in DOMAIN s : s[i].host = s[j].host => i = j
=============================================================================
