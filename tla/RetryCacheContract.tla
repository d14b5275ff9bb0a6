------------------------- MODULE RetryCacheContract -------------------------
(***************************************************************************)
(* What ECHRetryConfigCache promises its callers, without saying how it    *)
(* stores anything (the policy of ech_retry_handler.cc:37-43 and 64, with  *)
(* the meaning the container gives to "at most 1000 entries"):             *)
(*   - a lookup returns the configuration of the last Store for that       *)
(*     host:port, or nothing; never one that was replaced, invalidated,    *)
(*     cleared or older than TTL;                                          *)
(*   - it returns nothing only for those reasons, or because at least      *)
(*     Capacity other hosts were stored or found since this host last was. *)
(***************************************************************************)
EXTENDS Integers, FiniteSets

CONSTANTS Host, Config, NoConfig, NoReply, TTL, MaxNow, Capacity

VARIABLES
    last,           \* last[h]: the latest Store for h not invalidated since
    usedSince,      \* usedSince[h]: the hosts used since h was last used
    asked,          \* the host of the last lookup, which reply may answer
    now, reply

contractVars == <<last, usedSince, asked, now, reply>>

Nothing == [config |-> NoConfig, at |-> 0]

ContractInit ==
    /\ last = [h \in Host |-> Nothing]
    /\ usedSince = [h \in Host |-> {}]
    /\ asked = NoReply
    /\ now = 0
    /\ reply = NoReply

\* h becomes the most recently used host.
Used(h) == [k \in Host |-> IF k = h THEN {} ELSE usedSince[k] \cup {h}]

Valid(h) == last[h] # Nothing /\ now - last[h].at <= TTL

Crowded(h) == Cardinality(usedSince[h]) >= Capacity

Store(h, c) ==
    /\ last' = [last EXCEPT ![h] = [config |-> c, at |-> now]]
    /\ usedSince' = Used(h)
    /\ reply' = NoReply
    /\ UNCHANGED <<asked, now>>

Found(h) ==
    /\ Valid(h)
    /\ asked' = h
    /\ reply' = last[h].config
    /\ usedSince' = Used(h)
    /\ UNCHANGED <<last, now>>

NotFound(h) ==
    /\ ~Valid(h) \/ Crowded(h)
    /\ asked' = h
    /\ reply' = NoConfig
    /\ UNCHANGED <<last, usedSince, now>>

Forget(H) ==
    /\ last' = [h \in Host |-> IF h \in H THEN Nothing ELSE last[h]]
    /\ reply' = NoReply
    /\ UNCHANGED <<usedSince, asked, now>>

Tick ==
    /\ now < MaxNow
    /\ now' = now + 1
    /\ UNCHANGED <<last, usedSince, asked, reply>>

ContractNext ==
    \/ \E h \in Host, c \in Config : Store(h, c)
    \/ \E h \in Host : Found(h) \/ NotFound(h) \/ Forget({h})
    \/ Forget(Host)
    \/ Tick

ContractSpec == ContractInit /\ [][ContractNext]_contractVars
=============================================================================
