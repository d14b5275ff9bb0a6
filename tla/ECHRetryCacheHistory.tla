------------------------ MODULE ECHRetryCacheHistory ------------------------
(***************************************************************************)
(* ECHRetryCache with three history variables that record what its callers   *)
(* did, so that its answers can be compared with what they are owed.  The  *)
(* history observes: it enables and disables no step of the cache.         *)
(***************************************************************************)
EXTENDS ECHRetryCache, FiniteSets

VARIABLES last, usedSince, asked

vars == <<entries, now, reply, last, usedSince, asked>>

Contract == INSTANCE RetryCacheContract

Init ==
    /\ CacheInit
    /\ last = [h \in Host |-> Contract!Nothing]
    /\ usedSince = [h \in Host |-> {}]
    /\ asked = NoReply

StoreH(h, c) ==
    /\ Store(h, c)
    /\ last' = [last EXCEPT ![h] = [config |-> c, at |-> now]]
    /\ usedSince' = Contract!Used(h)
    /\ asked' = asked

GetMissH(h) == GetMiss(h) /\ asked' = h /\ UNCHANGED <<last, usedSince>>

GetExpiredH(h) == GetExpired(h) /\ asked' = h /\ UNCHANGED <<last, usedSince>>

GetHitH(h) ==
    /\ GetHit(h)
    /\ asked' = h
    /\ last' = last
    /\ usedSince' = Contract!Used(h)

InvalidateH(h) ==
    /\ Invalidate(h)
    /\ last' = [last EXCEPT ![h] = Contract!Nothing]
    /\ UNCHANGED <<usedSince, asked>>

ClearH ==
    /\ Clear
    /\ last' = [h \in Host |-> Contract!Nothing]
    /\ UNCHANGED <<usedSince, asked>>

TickH == Tick /\ UNCHANGED <<last, usedSince, asked>>

Next ==
    \/ \E h \in Host, c \in Config : StoreH(h, c)
    \/ \E h \in Host : \/ GetMissH(h)
                       \/ GetExpiredH(h)
                       \/ GetHitH(h)
                       \/ InvalidateH(h)
    \/ ClearH
    \/ TickH

Spec == Init /\ [][Next]_vars

-----------------------------------------------------------------------------
Match(h) ==
    /\ EntryOf(entries, h).config = last[h].config
    /\ EntryOf(entries, h).stored_at = last[h].at

(***************************************************************************)
(* Whatever the cache holds for a host is the latest configuration stored  *)
(* for it: no replaced, invalidated or cleared configuration comes back.   *)
(***************************************************************************)
HoldsOnlyTheLatest ==
    \A h \in Host : Holds(entries, h) => last[h] # Contract!Nothing /\ Match(h)

(***************************************************************************)
(* A configuration that is neither expired nor crowded out by Capacity     *)
(* other hosts is still there: eviction takes the least recently used      *)
(* entry (a successful Get counts as a use), and only when a new host      *)
(* needs the room.                                                         *)
(***************************************************************************)
KeptUntilCrowdedOut ==
    \A h \in Host :
        Contract!Valid(h) /\ ~Contract!Crowded(h) => Holds(entries, h)

(***************************************************************************)
(* The order of the list is the order of use: every host in front of an    *)
(* entry was used after it.                                                *)
(***************************************************************************)
OrderedByUse ==
    \A i, j \in DOMAIN entries :
        i < j => entries[i].host \in usedSince[entries[j].host]

(***************************************************************************)
(* The cache implements its contract: each of its steps is a step the      *)
(* contract allows, with the same answer to every Get.                     *)
(***************************************************************************)
ImplementsContract == Contract!ContractSpec
=============================================================================
