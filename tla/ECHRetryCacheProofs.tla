------------------------ MODULE ECHRetryCacheProofs -------------------------
(***************************************************************************)
(* The retry cache is a bounded map and answers as its contract says, for  *)
(* every capacity, age limit, set of hosts (finite or not) and             *)
(* configurations.                                                         *)
(***************************************************************************)
EXTENDS ECHRetryCacheHistory, SequenceTheorems, FiniteSetTheorems, TLAPS

(***************************************************************************)
(* What the operations of LRUCache return, preserve and bound.  Every one  *)
(* of them makes a list from entries picked from the old one in their      *)
(* order, with at most one new entry in front.                             *)
(***************************************************************************)

\* t is s without some of its entries.
PicksBy(t, s, f) ==
    /\ Len(t) <= Len(s)
    /\ f \in [1..Len(t) -> 1..Len(s)]
    /\ \A i, j \in 1..Len(t) : i < j => f[i] < f[j]
    /\ \A i \in 1..Len(t) : t[i] = s[f[i]]

Picks(t, s) == \E f : PicksBy(t, s, f)

-----------------------------------------------------------------------------
\* The elements of a sequence with one more in front.
LEMMA ConsFacts ==
    ASSUME NEW S, NEW e \in S, NEW s \in Seq(S)
    PROVE  /\ Cons(e, s) \in Seq(S)
           /\ Len(Cons(e, s)) = Len(s) + 1
           /\ Cons(e, s)[1] = e
           /\ \A i \in 1..Len(s) : Cons(e, s)[i + 1] = s[i]
<1>1. <<e>> \in Seq(S) /\ Len(<<e>>) = 1 /\ <<e>>[1] = e
  OBVIOUS
<1>2. Len(s) \in Nat
  OBVIOUS
<1> QED BY <1>1, <1>2, ConcatProperties DEF Cons

\* The elements of a sequence with the p-th removed.
LEMMA RemoveAtFacts ==
    ASSUME NEW S, NEW s \in Seq(S), NEW p \in 1..Len(s)
    PROVE  /\ RemoveAt(s, p) \in Seq(S)
           /\ Len(RemoveAt(s, p)) = Len(s) - 1
           /\ \A i \in 1..Len(s) - 1 :
                RemoveAt(s, p)[i] = IF i < p THEN s[i] ELSE s[i + 1]
<1> DEFINE a == SubSeq(s, 1, p - 1)
           b == SubSeq(s, p + 1, Len(s))
<1>1. Len(s) \in Nat /\ p \in Int
  OBVIOUS
<1>2. /\ a \in Seq(S) /\ Len(a) = p - 1
      /\ \A i \in 1..p - 1 : a[i] = s[i]
  <2>1. \A i \in 1..p - 1 : s[i] \in S
    BY <1>1, ElementOfSeq
  <2> QED BY <1>1, <2>1, SubSeqProperties
<1>3. /\ b \in Seq(S) /\ Len(b) = Len(s) - p
      /\ \A i \in 1..Len(s) - p : b[i] = s[p + i]
  <2>1. \A i \in p + 1..Len(s) : s[i] \in S
    BY <1>1, ElementOfSeq
  <2>2. p + 1 \in Int /\ Len(s) \in Int
    BY <1>1
  <2>3. /\ b \in Seq(S)
        /\ Len(b) = IF p + 1 <= Len(s) THEN Len(s) - (p + 1) + 1 ELSE 0
        /\ \A i \in 1..Len(s) - (p + 1) + 1 : b[i] = s[p + 1 + i - 1]
    BY <2>1, <2>2, SubSeqProperties
  <2> QED BY <1>1, <2>3
<1> HIDE DEF a, b
<1>4. /\ a \o b \in Seq(S) /\ Len(a \o b) = Len(a) + Len(b)
      /\ \A i \in 1..Len(a) + Len(b) :
           (a \o b)[i] = IF i <= Len(a) THEN a[i] ELSE b[i - Len(a)]
  BY <1>2, <1>3, ConcatProperties
<1>5. \A i \in 1..Len(s) - 1 : (a \o b)[i] = IF i < p THEN s[i] ELSE s[i + 1]
  <2> TAKE i \in 1..Len(s) - 1
  <2>1. CASE i < p
    BY <1>1, <1>2, <1>3, <1>4, <2>1
  <2>2. CASE ~(i < p)
    <3>1. i - (p - 1) \in 1..Len(s) - p /\ p + (i - (p - 1)) = i + 1
      BY <1>1, <2>2
    <3>2. b[i - (p - 1)] = s[i + 1]
      BY <1>3, <3>1
    <3> QED BY <1>1, <1>2, <1>3, <1>4, <2>2, <3>2
  <2> QED BY <2>1, <2>2
<1>6. RemoveAt(s, p) = a \o b
  BY DEF RemoveAt, a, b
<1>7. Len(a \o b) = Len(s) - 1
  BY <1>1, <1>2, <1>3, <1>4
<1>8. a \o b \in Seq(S)
  BY <1>4
<1> QED BY <1>5, <1>6, <1>7, <1>8

-----------------------------------------------------------------------------
\* Where a host is in the list.
LEMMA PositionFacts ==
    ASSUME NEW S, NEW s \in Seq(S), NEW h, Holds(s, h)
    PROVE  /\ PositionOf(s, h) \in 1..Len(s)
           /\ EntryOf(s, h) = s[PositionOf(s, h)]
           /\ EntryOf(s, h) \in S
           /\ EntryOf(s, h).host = h
<1>1. PositionOf(s, h) \in DOMAIN s /\ s[PositionOf(s, h)].host = h
  BY DEF Holds, PositionOf
<1>2. DOMAIN s = 1..Len(s)
  BY LenProperties
<1> QED BY <1>1, <1>2, ElementOfSeq DEF EntryOf

\* A list picks from itself.
LEMMA PicksSelf ==
    ASSUME NEW S, NEW s \in Seq(S)
    PROVE  Picks(s, s)
<1> DEFINE f == [i \in 1..Len(s) |-> i]
<1>1. PicksBy(s, s, f)
  BY DEF PicksBy
<1> QED BY <1>1 DEF Picks

(***************************************************************************)
(* Erase: what is left was there before, in the same order, without h and  *)
(* with everything else.                                                   *)
(***************************************************************************)
LEMMA EraseFacts ==
    ASSUME NEW S, NEW s \in Seq(S), NEW h, OneEntryPerHost(s)
    PROVE  /\ Erase(s, h) \in Seq(S)
           /\ Len(Erase(s, h)) = IF Holds(s, h) THEN Len(s) - 1 ELSE Len(s)
           /\ Picks(Erase(s, h), s)
           /\ ~Holds(Erase(s, h), h)
           /\ \A j \in DOMAIN s : s[j].host # h =>
                \E i \in DOMAIN Erase(s, h) : Erase(s, h)[i] = s[j]
<1>1. CASE ~Holds(s, h)
  BY <1>1, PicksSelf DEF Erase, Holds
<1>2. CASE Holds(s, h)
  <2> DEFINE p == PositionOf(s, h)
             t == RemoveAt(s, p)
             f == [i \in 1..Len(t) |-> IF i < p THEN i ELSE i + 1]
  <2>1. p \in 1..Len(s) /\ s[p].host = h
    BY <1>2, PositionFacts
  <2> HIDE DEF p
  <2>2. /\ t \in Seq(S) /\ Len(t) = Len(s) - 1
        /\ \A i \in 1..Len(s) - 1 : t[i] = IF i < p THEN s[i] ELSE s[i + 1]
    BY <2>1, RemoveAtFacts
  <2>3. Erase(s, h) = t
    BY <1>2 DEF Erase, p
  <2> HIDE DEF t
  <2>4. DOMAIN s = 1..Len(s) /\ DOMAIN t = 1..Len(t) /\ Len(s) \in Nat
    BY <2>2, LenProperties
  <2>5. PicksBy(t, s, f)
    BY <2>1, <2>2, <2>4 DEF PicksBy
  <2>6. ~Holds(t, h)
    <3> SUFFICES ASSUME NEW i \in 1..Len(s) - 1, t[i].host = h
                 PROVE  FALSE
      BY <2>2, <2>4 DEF Holds
    <3>1. CASE i < p
      <4>1. s[i].host = h /\ i \in 1..Len(s)
        BY <2>2, <2>4, <3>1
      <4> QED BY <2>1, <2>4, <3>1, <4>1 DEF OneEntryPerHost
    <3>2. CASE ~(i < p)
      <4>1. s[i + 1].host = h /\ i + 1 \in 1..Len(s)
        BY <2>2, <2>4, <3>2
      <4> QED BY <2>1, <2>4, <3>2, <4>1 DEF OneEntryPerHost
    <3> QED BY <3>1, <3>2
  <2>7. \A j \in DOMAIN s : s[j].host # h => \E i \in DOMAIN t : t[i] = s[j]
    <3> SUFFICES ASSUME NEW j \in 1..Len(s), s[j].host # h
                 PROVE  \E i \in 1..Len(s) - 1 : t[i] = s[j]
      BY <2>2, <2>4
    <3>1. CASE j < p
      BY <2>1, <2>2, <2>4, <3>1
    <3>2. CASE j > p
      <4>1. j - 1 \in 1..Len(s) - 1 /\ ~(j - 1 < p) /\ (j - 1) + 1 = j
        BY <2>1, <2>4, <3>2
      <4> QED BY <2>2, <4>1
    <3>3. j # p
      BY <2>1
    <3> QED BY <2>1, <3>1, <3>2, <3>3
  <2> QED BY <1>2, <2>2, <2>3, <2>5, <2>6, <2>7 DEF Picks
<1> QED BY <1>1, <1>2

\* ShrinkToSize picks the first n entries.
LEMMA ShrinkFacts ==
    ASSUME NEW S, NEW s \in Seq(S), NEW n \in Nat
    PROVE  /\ ShrinkToSize(s, n) \in Seq(S)
           /\ Len(ShrinkToSize(s, n)) <= n
           /\ Len(ShrinkToSize(s, n)) = IF Len(s) > n THEN n ELSE Len(s)
           /\ Picks(ShrinkToSize(s, n), s)
           /\ \A i \in 1..Len(ShrinkToSize(s, n)) : ShrinkToSize(s, n)[i] = s[i]
<1>1. Len(s) \in Nat
  OBVIOUS
<1>2. CASE ~(Len(s) > n)
  BY <1>1, <1>2, PicksSelf DEF ShrinkToSize
<1>3. CASE Len(s) > n
  <2> DEFINE t == SubSeq(s, 1, n)
             f == [i \in 1..Len(t) |-> i]
  <2>1. \A i \in 1..n : s[i] \in S
    BY <1>1, <1>3, ElementOfSeq
  <2>2. /\ t \in Seq(S) /\ Len(t) = IF 1 <= n THEN n - 1 + 1 ELSE 0
        /\ \A i \in 1..n - 1 + 1 : t[i] = s[1 + i - 1]
    BY <2>1, SubSeqProperties
  <2>3. Len(t) = n /\ \A i \in 1..n : t[i] = s[i]
    BY <2>2
  <2>4. ShrinkToSize(s, n) = t
    BY <1>3 DEF ShrinkToSize
  <2> HIDE DEF t
  <2>5. PicksBy(t, s, f)
    BY <1>1, <1>3, <2>2, <2>3 DEF PicksBy
  <2> QED BY <1>3, <2>2, <2>3, <2>4, <2>5 DEF Picks
<1> QED BY <1>2, <1>3

-----------------------------------------------------------------------------
\* What is picked was there.
LEMMA PicksFrom ==
    ASSUME NEW S, NEW s \in Seq(S), NEW t \in Seq(S), Picks(t, s),
           NEW i \in DOMAIN t
    PROVE  \E j \in DOMAIN s : t[i] = s[j]
<1>1. PICK f : PicksBy(t, s, f)
  BY DEF Picks
<1>2. DOMAIN t = 1..Len(t) /\ DOMAIN s = 1..Len(s)
  BY LenProperties
<1>3. f[i] \in DOMAIN s /\ t[i] = s[f[i]]
  BY <1>1, <1>2 DEF PicksBy
<1> QED BY <1>3

\* Picking keeps one entry per host.
LEMMA PicksOneEntry ==
    ASSUME NEW S, NEW s \in Seq(S), NEW t \in Seq(S), Picks(t, s),
           OneEntryPerHost(s)
    PROVE  OneEntryPerHost(t)
<1>1. PICK f : PicksBy(t, s, f)
  BY DEF Picks
<1>2. DOMAIN t = 1..Len(t) /\ DOMAIN s = 1..Len(s) /\ Len(t) \in Nat /\ Len(s) \in Nat
  BY LenProperties
<1> SUFFICES ASSUME NEW i \in 1..Len(t), NEW j \in 1..Len(t), t[i].host = t[j].host
             PROVE  i = j
  BY <1>2 DEF OneEntryPerHost
<1>3. f[i] = f[j]
  <2>1. f[i] \in DOMAIN s /\ f[j] \in DOMAIN s /\ s[f[i]].host = s[f[j]].host
    BY <1>1, <1>2 DEF PicksBy
  <2> QED BY <2>1 DEF OneEntryPerHost
<1>4. f[i] \in Int /\ f[j] \in Int /\ (i < j => f[i] < f[j]) /\ (j < i => f[j] < f[i])
  BY <1>1, <1>2 DEF PicksBy
<1> QED BY <1>2, <1>3, <1>4

\* So does putting a host in front that the list has not.
LEMMA ConsOneEntry ==
    ASSUME NEW S, NEW e \in S, NEW t \in Seq(S), OneEntryPerHost(t), ~Holds(t, e.host)
    PROVE  OneEntryPerHost(Cons(e, t))
<1> DEFINE u == Cons(e, t)
<1>1. /\ u \in Seq(S) /\ Len(u) = Len(t) + 1 /\ u[1] = e
      /\ \A i \in 1..Len(t) : u[i + 1] = t[i]
  BY ONLY ConsFacts
<1> HIDE DEF u
<1>2. DOMAIN t = 1..Len(t) /\ DOMAIN u = 1..Len(t) + 1 /\ Len(t) \in Nat
  BY <1>1, LenProperties
<1>3. \A i \in 2..Len(t) + 1 : i - 1 \in DOMAIN t /\ u[i] = t[i - 1] /\ u[i].host # e.host
  <2> TAKE i \in 2..Len(t) + 1
  <2>1. i - 1 \in DOMAIN t /\ (i - 1) + 1 = i
    BY <1>2
  <2>2. u[i] = t[i - 1]
    BY <1>1, <1>2, <2>1
  <2> QED BY <2>1, <2>2 DEF Holds
<1> SUFFICES ASSUME NEW i \in DOMAIN u, NEW j \in DOMAIN u, u[i].host = u[j].host
             PROVE  i = j
  BY DEF OneEntryPerHost, u
<1>4. CASE i = 1 \/ j = 1
  BY <1>1, <1>2, <1>3, <1>4
<1>5. CASE i # 1 /\ j # 1
  <2>1. i \in 2..Len(t) + 1 /\ j \in 2..Len(t) + 1
    BY <1>2, <1>5
  <2>2. i - 1 = j - 1
    BY <1>3, <2>1 DEF OneEntryPerHost
  <2> QED BY <1>2, <2>2
<1> QED BY <1>4, <1>5

-----------------------------------------------------------------------------
(***************************************************************************)
(* Put: the new entry in front of entries picked from the old list, none   *)
(* of them for the same host, and never more than Capacity in all.         *)
(***************************************************************************)
LEMMA PutFacts ==
    ASSUME NEW S, NEW s \in Seq(S), NEW e \in S,
           OneEntryPerHost(s), Len(s) <= Capacity
    PROVE  \E t \in Seq(S) : /\ Put(s, e) = Cons(e, t)
                             /\ Picks(t, s)
                             /\ ~Holds(t, e.host)
                             /\ Len(t) <= Capacity - 1
<1>1. Len(s) \in Nat /\ Capacity \in Nat /\ Capacity - 1 \in Nat
  BY CapacityAssumption DEF CapacityAssumption
<1>2. CASE Holds(s, e.host)
  <2> DEFINE t == Erase(s, e.host)
  <2>1. t \in Seq(S) /\ Picks(t, s) /\ ~Holds(t, e.host) /\ Len(t) = Len(s) - 1
    BY <1>2, EraseFacts
  <2>2. Put(s, e) = Cons(e, t)
    BY <1>2 DEF Put
  <2> HIDE DEF t
  <2> QED BY <1>1, <2>1, <2>2
<1>3. CASE ~Holds(s, e.host)
  <2> DEFINE t == ShrinkToSize(s, Capacity - 1)
  <2>1. t \in Seq(S) /\ Picks(t, s) /\ Len(t) <= Capacity - 1
    BY <1>1, ShrinkFacts
  <2>2. Put(s, e) = Cons(e, t)
    BY <1>3 DEF Put
  <2> HIDE DEF t
  <2>3. ~Holds(t, e.host)
    BY <1>3, <2>1, PicksFrom DEF Holds
  <2> QED BY <2>1, <2>2, <2>3
<1> QED BY <1>2, <1>3

(***************************************************************************)
(* A lookup that finds an entry past its age moves it to the front and     *)
(* then erases it (ech_retry_handler.cc:65-77): in all, it erases it.      *)
(***************************************************************************)
LEMMA EraseAfterTouch ==
    ASSUME NEW S, NEW s \in Seq(S), NEW h, OneEntryPerHost(s), Holds(s, h)
    PROVE  Erase(Touch(s, h), h) = Erase(s, h)
<1> DEFINE e == EntryOf(s, h)
           t == Erase(s, h)
           u == Cons(e, t)
<1>1. e \in S /\ e.host = h
  BY PositionFacts
<1>2. t \in Seq(S) /\ ~Holds(t, h)
  BY EraseFacts
<1>3. Touch(s, h) = u
  BY DEF Touch
<1>4. /\ u \in Seq(S) /\ Len(u) = Len(t) + 1 /\ u[1] = e
      /\ \A i \in 1..Len(t) : u[i + 1] = t[i]
  <2> HIDE DEF e, t
  <2>1. \A x \in S, y \in Seq(S) :
          /\ Cons(x, y) \in Seq(S) /\ Len(Cons(x, y)) = Len(y) + 1 /\ Cons(x, y)[1] = x
          /\ \A i \in 1..Len(y) : Cons(x, y)[i + 1] = y[i]
    BY ConsFacts
  <2> QED BY <1>1, <1>2, <2>1
<1> HIDE DEF e, t
<1> HIDE DEF u
<1>5. DOMAIN t = 1..Len(t) /\ DOMAIN u = 1..Len(t) + 1 /\ Len(t) \in Nat
  BY <1>2, <1>4, LenProperties
<1>6. 1 \in DOMAIN u /\ u[1].host = h
  BY <1>1, <1>4, <1>5
<1>7. \A i \in DOMAIN u : u[i].host = h => i = 1
  <2> SUFFICES ASSUME NEW i \in 1..Len(t) + 1, u[i].host = h, i # 1
               PROVE  FALSE
    BY <1>5
  <2>1. i - 1 \in 1..Len(t) /\ (i - 1) + 1 = i
    BY <1>5
  <2>2. t[i - 1].host = h
    BY <1>4, <2>1
  <2> QED BY <1>2, <1>5, <2>1, <2>2 DEF Holds
<1>8. Holds(u, h) /\ PositionOf(u, h) = 1
  BY <1>6, <1>7 DEF Holds, PositionOf
<1>9. RemoveAt(u, 1) = t
  <2>1. 1 \in 1..Len(u)
    BY <1>4, <1>5
  <2>2. /\ RemoveAt(u, 1) \in Seq(S) /\ Len(RemoveAt(u, 1)) = Len(u) - 1
        /\ \A i \in 1..Len(u) - 1 : RemoveAt(u, 1)[i] = IF i < 1 THEN u[i] ELSE u[i + 1]
    BY <1>4, <2>1, RemoveAtFacts
  <2>3. \A i \in 1..Len(t) : RemoveAt(u, 1)[i] = t[i]
    BY <1>4, <1>5, <2>2
  <2> QED BY <1>2, <1>4, <1>5, <2>2, <2>3, SeqEqual
<1> QED BY <1>3, <1>8, <1>9 DEF Erase, t

(***************************************************************************)
(* Put drops nothing but the last entry of a full list, and that only for  *)
(* a new host.                                                             *)
(***************************************************************************)
LEMMA PutKeeps ==
    ASSUME NEW S, NEW s \in Seq(S), NEW e \in S,
           OneEntryPerHost(s), Len(s) <= Capacity,
           NEW j \in DOMAIN s, s[j].host # e.host
    PROVE  \/ \E i \in DOMAIN Put(s, e) : Put(s, e)[i] = s[j]
           \/ ~Holds(s, e.host) /\ j = Capacity /\ Len(s) = Capacity
<1>1. /\ Len(s) \in Nat /\ Capacity \in Nat /\ Capacity - 1 \in Nat
      /\ DOMAIN s = 1..Len(s) /\ j \in 1..Len(s)
  BY CapacityAssumption, LenProperties DEF CapacityAssumption
<1>2. ASSUME NEW t \in Seq(S), Put(s, e) = Cons(e, t), NEW i \in DOMAIN t, t[i] = s[j]
      PROVE  \E k \in DOMAIN Put(s, e) : Put(s, e)[k] = s[j]
  <2>1. /\ Cons(e, t) \in Seq(S) /\ Len(Cons(e, t)) = Len(t) + 1
        /\ \A k \in 1..Len(t) : Cons(e, t)[k + 1] = t[k]
    BY ConsFacts
  <2>2. /\ DOMAIN t = 1..Len(t) /\ DOMAIN Cons(e, t) = 1..Len(Cons(e, t))
        /\ Len(t) \in Nat
    BY <2>1, LenProperties
  <2>3. i + 1 \in DOMAIN Cons(e, t) /\ Cons(e, t)[i + 1] = s[j]
    BY <1>2, <2>1, <2>2
  <2> QED BY <1>2, <2>3
<1>3. CASE Holds(s, e.host)
  <2> DEFINE t == Erase(s, e.host)
  <2>1. t \in Seq(S) /\ \E i \in DOMAIN t : t[i] = s[j]
    BY EraseFacts
  <2>2. Put(s, e) = Cons(e, t)
    BY <1>3 DEF Put
  <2> HIDE DEF t
  <2> QED BY <1>2, <2>1, <2>2
<1>4. CASE ~Holds(s, e.host)
  <2> DEFINE t == ShrinkToSize(s, Capacity - 1)
  <2>1. /\ t \in Seq(S)
        /\ Len(t) = IF Len(s) > Capacity - 1 THEN Capacity - 1 ELSE Len(s)
        /\ \A i \in 1..Len(t) : t[i] = s[i]
    BY <1>1, ShrinkFacts
  <2>2. Put(s, e) = Cons(e, t)
    BY <1>4 DEF Put
  <2> HIDE DEF t
  <2>3. DOMAIN t = 1..Len(t)
    BY <2>1, LenProperties
  <2>4. CASE j <= Len(t)
    <3>1. j \in DOMAIN t /\ t[j] = s[j]
      BY <1>1, <2>1, <2>3, <2>4
    <3> QED BY <1>2, <2>1, <2>2, <3>1
  <2>5. CASE ~(j <= Len(t))
    <3>1. j = Capacity /\ Len(s) = Capacity
      BY <1>1, <2>1, <2>5
    <3> QED BY <1>4, <3>1
  <2> QED BY <2>4, <2>5
<1> QED BY <1>3, <1>4

-----------------------------------------------------------------------------

CacheInv == CacheTypeOK /\ BoundedMap

\* Every way in which the list changes: entries picked from it, and possibly
\* one, for a host not among them, put in front.
ListStep(new) ==
    \/ new \in Seq(Entry) /\ Picks(new, entries)
    \/ \E t \in Seq(Entry), e \in Entry :
         /\ new = Cons(e, t)
         /\ Picks(t, entries)
         /\ ~Holds(t, e.host)
         /\ Len(t) <= Capacity - 1
         /\ e.stored_at <= now

\* Erase only picks from the list.
LEMMA EraseIsListStep ==
    ASSUME CacheInv, NEW h \in Host
    PROVE  ListStep(Erase(entries, h))
<1>1. entries \in Seq(Entry) /\ OneEntryPerHost(entries)
  BY DEF CacheInv, CacheTypeOK, BoundedMap
<1>2. Erase(entries, h) \in Seq(Entry) /\ Picks(Erase(entries, h), entries)
  BY <1>1, EraseFacts
<1> QED BY <1>2 DEF ListStep

\* Put picks from the list and sets a new entry in front.
LEMMA PutIsListStep ==
    ASSUME CacheInv, NEW h \in Host, NEW c \in Config
    PROVE  ListStep(Put(entries, [host |-> h, config |-> c, stored_at |-> now]))
<1> DEFINE e == [host |-> h, config |-> c, stored_at |-> now]
<1>1. /\ entries \in Seq(Entry) /\ OneEntryPerHost(entries) /\ Len(entries) <= Capacity
      /\ now \in Int
  BY DEF CacheInv, CacheTypeOK, BoundedMap
<1>2. e \in Entry /\ e.stored_at <= now
  BY <1>1 DEF CacheInv, CacheTypeOK, Entry
<1> HIDE DEF e
<1>3. PICK t \in Seq(Entry) : /\ Put(entries, e) = Cons(e, t) /\ Picks(t, entries)
                              /\ ~Holds(t, e.host) /\ Len(t) <= Capacity - 1
  BY <1>1, <1>2, PutFacts
<1>4. ListStep(Put(entries, e))
  BY <1>2, <1>3 DEF ListStep
<1> QED BY <1>4 DEF e

\* Touch does so with an entry that was there.
LEMMA TouchIsListStep ==
    ASSUME CacheInv, NEW h \in Host, Holds(entries, h)
    PROVE  ListStep(Touch(entries, h))
<1> DEFINE e == EntryOf(entries, h)
           t == Erase(entries, h)
<1>1. /\ entries \in Seq(Entry) /\ OneEntryPerHost(entries) /\ Len(entries) <= Capacity
      /\ \A i \in DOMAIN entries : entries[i].stored_at <= now
  BY DEF CacheInv, CacheTypeOK, BoundedMap
<1>2. e \in Entry /\ e.host = h /\ e.stored_at <= now
  BY <1>1, PositionFacts, LenProperties
<1>3. t \in Seq(Entry) /\ Picks(t, entries) /\ ~Holds(t, h) /\ Len(t) = Len(entries) - 1
  BY <1>1, EraseFacts
<1>4. Len(t) <= Capacity - 1
  BY <1>1, <1>3, CapacityAssumption DEF CapacityAssumption
<1>5. Touch(entries, h) = Cons(e, t)
  BY DEF Touch
<1> HIDE DEF e, t
<1> QED BY <1>2, <1>3, <1>4, <1>5 DEF ListStep

\* Either way of changing the list keeps it a bounded map.
LEMMA ListStepKeepsTheMap ==
    ASSUME CacheInv, NEW new, ListStep(new)
    PROVE  /\ new \in Seq(Entry) /\ Len(new) <= Capacity /\ OneEntryPerHost(new)
           /\ \A i \in DOMAIN new : new[i].stored_at <= now
<1>1. /\ entries \in Seq(Entry) /\ OneEntryPerHost(entries) /\ Len(entries) <= Capacity
      /\ \A i \in DOMAIN entries : entries[i].stored_at <= now
      /\ Capacity \in Nat /\ Len(entries) \in Nat
  BY CapacityAssumption DEF CacheInv, CacheTypeOK, BoundedMap, CapacityAssumption
<1>2. ASSUME NEW t \in Seq(Entry), Picks(t, entries)
      PROVE  /\ Len(t) <= Len(entries) /\ OneEntryPerHost(t)
             /\ \A i \in DOMAIN t : t[i].stored_at <= now
  <2>1. Len(t) <= Len(entries)
    BY <1>2 DEF Picks, PicksBy
  <2>2. OneEntryPerHost(t)
    BY <1>1, <1>2, PicksOneEntry
  <2>3. \A i \in DOMAIN t : \E j \in DOMAIN entries : t[i] = entries[j]
    BY <1>1, <1>2, PicksFrom
  <2> QED BY <1>1, <2>1, <2>2, <2>3
<1>3. CASE new \in Seq(Entry) /\ Picks(new, entries)
  BY <1>1, <1>2, <1>3
<1>4. CASE \E t \in Seq(Entry), e \in Entry :
             /\ new = Cons(e, t) /\ Picks(t, entries) /\ ~Holds(t, e.host)
             /\ Len(t) <= Capacity - 1 /\ e.stored_at <= now
  <2>1. PICK t \in Seq(Entry), e \in Entry :
             /\ new = Cons(e, t) /\ Picks(t, entries) /\ ~Holds(t, e.host)
             /\ Len(t) <= Capacity - 1 /\ e.stored_at <= now
    BY <1>4
  <2>2. /\ new \in Seq(Entry) /\ Len(new) = Len(t) + 1 /\ new[1] = e
        /\ \A i \in 1..Len(t) : new[i + 1] = t[i]
    <3>1. /\ Cons(e, t) \in Seq(Entry) /\ Len(Cons(e, t)) = Len(t) + 1
          /\ Cons(e, t)[1] = e /\ \A i \in 1..Len(t) : Cons(e, t)[i + 1] = t[i]
      BY ConsFacts
    <3>2. new = Cons(e, t)
      BY <2>1
    <3> QED BY <3>1, <3>2
  <2>3. OneEntryPerHost(new)
    BY <1>2, <2>1, ConsOneEntry
  <2>4. Len(t) \in Nat /\ DOMAIN t = 1..Len(t) /\ DOMAIN new = 1..Len(t) + 1
    BY <2>2, LenProperties
  <2>5. \A i \in DOMAIN new : new[i].stored_at <= now
    <3> TAKE i \in DOMAIN new
    <3>1. CASE i = 1
      BY <2>1, <2>2, <3>1
    <3>2. CASE i # 1
      <4>1. i - 1 \in 1..Len(t) /\ (i - 1) + 1 = i
        BY <2>4, <3>2
      <4> QED BY <1>2, <2>1, <2>2, <2>4, <4>1
    <3> QED BY <3>1, <3>2
  <2> QED BY <1>1, <2>1, <2>2, <2>3, <2>4, <2>5
<1> QED BY <1>3, <1>4 DEF ListStep

-----------------------------------------------------------------------------
\* What the list may become while the clock stands still.
LEMMA ListStepStep ==
    ASSUME CacheInv, ListStep(entries'), now' = now,
           reply' \in Config \cup {NoConfig, NoReply}
    PROVE  CacheInv'
<1>1. /\ entries' \in Seq(Entry) /\ Len(entries') <= Capacity /\ OneEntryPerHost(entries')
      /\ \A i \in DOMAIN entries' : entries'[i].stored_at <= now
  BY ListStepKeepsTheMap
<1>2. now' \in 0..MaxNow
  BY DEF CacheInv, CacheTypeOK
<1> QED BY <1>1, <1>2 DEF CacheInv, CacheTypeOK, BoundedMap

\* The empty cache is a bounded map.
LEMMA CacheInvInit == CacheInit => CacheInv
<1> SUFFICES ASSUME CacheInit PROVE CacheInv
  OBVIOUS
<1>1. entries = <<>> /\ now = 0 /\ reply = NoReply
  BY DEF CacheInit
<1>2. CacheTypeOK
  BY <1>1, EmptySeq, CacheAssumption DEF CacheTypeOK, CacheAssumption
<1>3. BoundedMap
  BY <1>1, CapacityAssumption DEF BoundedMap, OneEntryPerHost, CapacityAssumption
<1> QED BY <1>2, <1>3 DEF CacheInv

\* Every operation of the cache keeps it one.
LEMMA CacheInvStep == CacheInv /\ [CacheNext]_cacheVars => CacheInv'
<1> SUFFICES ASSUME CacheInv, [CacheNext]_cacheVars
             PROVE  CacheInv'
  OBVIOUS
<1>1. /\ entries \in Seq(Entry) /\ OneEntryPerHost(entries)
      /\ now \in 0..MaxNow /\ reply \in Config \cup {NoConfig, NoReply}
  BY DEF CacheInv, CacheTypeOK, BoundedMap
<1>2. ASSUME NEW h \in Host, NEW c \in Config, Store(h, c)
      PROVE  CacheInv'
  <2>1. ListStep(entries') /\ now' = now /\ reply' = NoReply
    BY <1>2, PutIsListStep DEF Store
  <2> QED BY <2>1, ListStepStep
<1>3. ASSUME NEW h \in Host, GetMiss(h)
      PROVE  CacheInv'
  <2>1. ListStep(entries)
    BY <1>1, PicksSelf DEF ListStep
  <2> QED BY <1>3, <2>1, ListStepStep DEF GetMiss
<1>4. ASSUME NEW h \in Host, GetExpired(h)
      PROVE  CacheInv'
  <2>1. entries' = Erase(entries, h)
    BY <1>1, <1>4, EraseAfterTouch DEF GetExpired
  <2> QED BY <1>4, <2>1, EraseIsListStep, ListStepStep DEF GetExpired
<1>5. ASSUME NEW h \in Host, GetHit(h)
      PROVE  CacheInv'
  <2>1. EntryOf(entries, h).config \in Config
    <3>1. EntryOf(entries, h) \in Entry
      BY <1>1, <1>5, PositionFacts DEF GetHit
    <3> QED BY <3>1 DEF Entry
  <2>2. ListStep(entries')
    BY <1>5, TouchIsListStep DEF GetHit
  <2> QED BY <1>5, <2>1, <2>2, ListStepStep DEF GetHit
<1>6. ASSUME NEW h \in Host, Invalidate(h)
      PROVE  CacheInv'
  BY <1>6, EraseIsListStep, ListStepStep DEF Invalidate
<1>7. CASE Clear
  <2>1. entries' = <<>> /\ now' = now /\ reply' = NoReply
    BY <1>7 DEF Clear
  <2>2. entries' \in Seq(Entry) /\ Len(entries') <= Capacity /\ OneEntryPerHost(entries')
        /\ \A i \in DOMAIN entries' : entries'[i].stored_at <= now'
    BY <2>1, EmptySeq, CapacityAssumption DEF OneEntryPerHost, CapacityAssumption
  <2> QED BY <1>1, <2>1, <2>2 DEF CacheInv, CacheTypeOK, BoundedMap
<1>8. CASE Tick
  <2>1. entries' = entries /\ reply' = reply /\ now' = now + 1 /\ now' \in 0..MaxNow
    BY <1>1, <1>8, CacheAssumption DEF Tick, CacheAssumption
  <2>2. \A i \in DOMAIN entries : entries[i].stored_at \in Int /\ entries[i].stored_at <= now
    <3>1. \A i \in DOMAIN entries : entries[i] \in Entry
      BY <1>1, ElementOfSeq, LenProperties
    <3> QED BY <3>1 DEF Entry, CacheInv, BoundedMap
  <2>3. \A i \in DOMAIN entries : entries[i].stored_at <= now'
    BY <1>1, <2>1, <2>2
  <2> QED BY <2>1, <2>3 DEF CacheInv, CacheTypeOK, BoundedMap
<1>9. CASE UNCHANGED cacheVars
  BY <1>9 DEF CacheInv, CacheTypeOK, BoundedMap, cacheVars
<1> QED BY <1>2, <1>3, <1>4, <1>5, <1>6, <1>7, <1>8, <1>9 DEF CacheNext

-----------------------------------------------------------------------------
\* What a Store leaves in the list: the new entry, and entries that were there.
LEMMA StoreElements ==
    ASSUME CacheInv, NEW h \in Host, NEW c \in Config, Store(h, c)
    PROVE  \A i \in DOMAIN entries' :
              \/ entries'[i] = [host |-> h, config |-> c, stored_at |-> now]
              \/ \E j \in DOMAIN entries : entries'[i] = entries[j]
<1> DEFINE e == [host |-> h, config |-> c, stored_at |-> now]
<1>1. /\ entries \in Seq(Entry) /\ OneEntryPerHost(entries) /\ Len(entries) <= Capacity
      /\ e \in Entry /\ entries' = Put(entries, e)
  BY DEF CacheInv, CacheTypeOK, BoundedMap, Entry, Store
<1> HIDE DEF e
<1>2. PICK t \in Seq(Entry) : Put(entries, e) = Cons(e, t) /\ Picks(t, entries)
  BY <1>1, PutFacts
<1>3. /\ Cons(e, t) \in Seq(Entry) /\ Len(Cons(e, t)) = Len(t) + 1
      /\ Cons(e, t)[1] = e /\ \A i \in 1..Len(t) : Cons(e, t)[i + 1] = t[i]
  BY <1>1, ConsFacts
<1>4. /\ entries' \in Seq(Entry) /\ Len(entries') = Len(t) + 1
      /\ entries'[1] = e /\ \A i \in 1..Len(t) : entries'[i + 1] = t[i]
  BY <1>1, <1>2, <1>3
<1>5. DOMAIN entries' = 1..Len(t) + 1 /\ DOMAIN t = 1..Len(t) /\ Len(t) \in Nat
  BY <1>4, LenProperties
<1>6. ASSUME NEW i \in DOMAIN entries', i # 1
      PROVE  \E j \in DOMAIN entries : entries'[i] = entries[j]
  <2>1. i - 1 \in 1..Len(t) /\ (i - 1) + 1 = i
    BY <1>5, <1>6
  <2>2. entries'[i] = t[i - 1]
    BY <1>4, <2>1
  <2> QED BY <1>1, <1>2, <1>5, <2>1, <2>2, PicksFrom
<1> QED BY <1>4, <1>6 DEF e

\* ConsFacts for entries of the cache.
LEMMA ConsEntryFacts ==
    \A e \in Entry : \A t \in Seq(Entry) :
        /\ Cons(e, t) \in Seq(Entry) /\ Len(Cons(e, t)) = Len(t) + 1
        /\ Cons(e, t)[1] = e /\ \A i \in 1..Len(t) : Cons(e, t)[i + 1] = t[i]
<1> TAKE e \in Entry
<1> TAKE t \in Seq(Entry)
<1> QED BY ConsFacts

\* A lookup adds nothing, and what it leaves for its host is what it answers.
LEMMA LookupElements ==
    ASSUME CacheInv, NEW h \in Host, GetMiss(h) \/ GetExpired(h) \/ GetHit(h)
    PROVE  \A i \in DOMAIN entries' :
              /\ \E j \in DOMAIN entries : entries'[i] = entries[j]
              /\ entries'[i].host = h => entries'[i].config = reply'
<1>1. entries \in Seq(Entry) /\ OneEntryPerHost(entries)
  BY DEF CacheInv, CacheTypeOK, BoundedMap
<1>2. /\ Erase(entries, h) \in Seq(Entry) /\ Picks(Erase(entries, h), entries)
      /\ ~Holds(Erase(entries, h), h)
  BY <1>1, EraseFacts
<1>3. \A i \in DOMAIN Erase(entries, h) :
        \E j \in DOMAIN entries : Erase(entries, h)[i] = entries[j]
  BY <1>1, <1>2, PicksFrom
<1>4. CASE GetMiss(h)
  BY <1>4 DEF GetMiss, Holds
<1>5. CASE GetExpired(h)
  <2>1. entries' = Erase(entries, h)
    BY <1>1, <1>5, EraseAfterTouch DEF GetExpired
  <2> QED BY <1>2, <1>3, <2>1 DEF Holds
<1>6. CASE GetHit(h)
  <2> DEFINE e == EntryOf(entries, h)
             t == Erase(entries, h)
  <2>1. /\ e \in Entry /\ e.host = h
        /\ \E j \in DOMAIN entries : e = entries[j]
    BY <1>1, <1>6, PositionFacts, LenProperties DEF GetHit
  <2>2. reply' = e.config /\ entries' = Cons(e, t)
    BY <1>6 DEF GetHit, Touch
  <2> HIDE DEF e, t
  <2>3. t \in Seq(Entry) /\ ~Holds(t, h)
        /\ \A i \in DOMAIN t : \E j \in DOMAIN entries : t[i] = entries[j]
    BY <1>2, <1>3 DEF t
  <2>4. /\ Cons(e, t) \in Seq(Entry) /\ Len(Cons(e, t)) = Len(t) + 1
        /\ Cons(e, t)[1] = e /\ \A i \in 1..Len(t) : Cons(e, t)[i + 1] = t[i]
    <3>1. e \in Entry /\ t \in Seq(Entry)
      BY <2>1, <2>3
    <3> QED BY <3>1, ConsEntryFacts
  <2>5. /\ entries' \in Seq(Entry) /\ Len(entries') = Len(t) + 1
        /\ entries'[1] = e /\ \A i \in 1..Len(t) : entries'[i + 1] = t[i]
    BY <2>2, <2>4
  <2>6. DOMAIN entries' = 1..Len(t) + 1 /\ DOMAIN t = 1..Len(t) /\ Len(t) \in Nat
    BY <2>3, <2>5, LenProperties
  <2>7. ASSUME NEW i \in DOMAIN entries', i # 1
        PROVE  \E j \in DOMAIN t : entries'[i] = t[j]
    <3>1. i - 1 \in 1..Len(t) /\ (i - 1) + 1 = i
      BY <2>6, <2>7
    <3> QED BY <2>5, <2>6, <3>1
  <2>8. ASSUME NEW i \in DOMAIN entries'
        PROVE  /\ \E j \in DOMAIN entries : entries'[i] = entries[j]
               /\ entries'[i].host = h => entries'[i].config = reply'
    <3>1. CASE i = 1
      BY <2>1, <2>2, <2>5, <3>1
    <3>2. CASE i # 1
      BY <2>3, <2>7, <3>2 DEF Holds
    <3> QED BY <3>1, <3>2
  <2> QED BY <2>8
<1> QED BY <1>4, <1>5, <1>6

\* The cache is well typed and a bounded map in every reachable state: the two
\* facts need one another, so they are proved together.
THEOREM CacheInvariant == CacheSpec => []CacheInv
BY CacheInvInit, CacheInvStep, PTL DEF CacheSpec

(***************************************************************************)
(* The list holds entries of its type, and an answer is a configuration    *)
(* that was stored or one of the two empty answers.                        *)
(***************************************************************************)
THEOREM CacheTypeCorrect == CacheSpec => []CacheTypeOK
<1>1. CacheInv => CacheTypeOK
  BY DEF CacheInv
<1> QED BY <1>1, CacheInvariant, PTL

(***************************************************************************)
(* No host:port ever has two entries and there are never more than the     *)
(* limit of ech_retry_handler.cc:108, whatever stores, lookups, evictions  *)
(* and erasures follow one another.                                        *)
(***************************************************************************)
THEOREM CacheIsABoundedMap == CacheSpec => []BoundedMap
<1>1. CacheInv => BoundedMap
  BY DEF CacheInv
<1> QED BY <1>1, CacheInvariant, PTL

-----------------------------------------------------------------------------
(***************************************************************************)
(* The cache and its contract.                                             *)
(***************************************************************************)
LastStore == [config : Config \cup {NoConfig}, at : 0..MaxNow]

HistoryTypeOK ==
    /\ last \in [Host -> LastStore]
    /\ usedSince \in [Host -> SUBSET Host]
    /\ \A h \in Host : IsFiniteSet(usedSince[h])

OrderedIn(s, used) ==
    \A i, j \in DOMAIN s : i < j => s[i].host \in used[s[j].host]

LatestIn(s, stored) ==
    \A i \in DOMAIN s :
        stored[s[i].host] = [config |-> s[i].config, at |-> s[i].stored_at]

Inv ==
    /\ CacheInv
    /\ HistoryTypeOK
    /\ LatestIn(entries, last)
    /\ OrderedIn(entries, usedSince)
    /\ KeptUntilCrowdedOut

-----------------------------------------------------------------------------
\* The fields of an entry of the list.
LEMMA EntryType ==
    ASSUME NEW s \in Seq(Entry), NEW i \in DOMAIN s
    PROVE  /\ s[i] \in Entry /\ s[i].host \in Host /\ s[i].config \in Config
           /\ s[i].stored_at \in 0..MaxNow
<1>1. s[i] \in Entry
  BY ElementOfSeq, LenProperties
<1> QED BY <1>1 DEF Entry

\* An entry put in front of the list.
LEMMA ConsEntry ==
    ASSUME NEW t \in Seq(Entry), NEW e \in Entry
    PROVE  /\ Cons(e, t) \in Seq(Entry)
           /\ Len(Cons(e, t)) = Len(t) + 1
           /\ Cons(e, t)[1] = e
           /\ \A i \in 1..Len(t) : Cons(e, t)[i + 1] = t[i]
BY ConsFacts

\* What is picked from a list in the order of use is in the order of use.
LEMMA PicksOrdered ==
    ASSUME NEW s \in Seq(Entry), NEW t \in Seq(Entry), Picks(t, s),
           NEW used, OrderedIn(s, used)
    PROVE  OrderedIn(t, used)
<1>1. PICK f : PicksBy(t, s, f)
  BY DEF Picks
<1>2. DOMAIN t = 1..Len(t) /\ DOMAIN s = 1..Len(s)
  BY LenProperties
<1> SUFFICES ASSUME NEW i \in 1..Len(t), NEW j \in 1..Len(t), i < j
             PROVE  t[i].host \in used[t[j].host]
  BY <1>2 DEF OrderedIn
<1>3. /\ f[i] \in DOMAIN s /\ f[j] \in DOMAIN s /\ f[i] < f[j]
      /\ t[i] = s[f[i]] /\ t[j] = s[f[j]]
  BY <1>1, <1>2 DEF PicksBy
<1> QED BY <1>3 DEF OrderedIn

\* What is picked from a list of latest configurations is latest too.
LEMMA PicksLatest ==
    ASSUME NEW s \in Seq(Entry), NEW t \in Seq(Entry), Picks(t, s),
           NEW stored, LatestIn(s, stored)
    PROVE  LatestIn(t, stored)
BY PicksFrom DEF LatestIn

\* Putting an entry in front is a use of its host.
LEMMA FrontOrdered ==
    ASSUME HistoryTypeOK, NEW t \in Seq(Entry), NEW e \in Entry,
           ~Holds(t, e.host), OrderedIn(t, usedSince)
    PROVE  OrderedIn(Cons(e, t), Contract!Used(e.host))
<1>1. /\ Cons(e, t) \in Seq(Entry) /\ Len(Cons(e, t)) = Len(t) + 1 /\ Cons(e, t)[1] = e
      /\ \A i \in 1..Len(t) : Cons(e, t)[i + 1] = t[i]
  BY ConsEntry
<1> DEFINE u == Cons(e, t)
<1>2. DOMAIN t = 1..Len(t) /\ DOMAIN u = 1..Len(t) + 1 /\ Len(t) \in Nat
  BY <1>1, LenProperties
<1> SUFFICES ASSUME NEW i \in DOMAIN u, NEW j \in DOMAIN u, i < j
             PROVE  u[i].host \in Contract!Used(e.host)[u[j].host]
  BY DEF OrderedIn
<1>3. j - 1 \in DOMAIN t /\ u[j] = t[j - 1]
  <2>1. j - 1 \in 1..Len(t) /\ (j - 1) + 1 = j
    BY <1>2
  <2> QED BY <1>1, <1>2, <2>1
<1> DEFINE k == t[j - 1].host
<1>4. k \in Host /\ k # e.host /\ u[j].host = k
  BY <1>3, EntryType DEF Holds
<1>5. Contract!Used(e.host)[k] = usedSince[k] \cup {e.host}
  BY <1>4 DEF Contract!Used
<1>6. CASE i = 1
  BY <1>1, <1>4, <1>5, <1>6
<1>7. CASE i # 1
  <2>1. i - 1 \in 1..Len(t) /\ (i - 1) + 1 = i /\ i - 1 < j - 1
    BY <1>2, <1>7
  <2>2. u[i] = t[i - 1] /\ t[i - 1].host \in usedSince[k]
    BY <1>1, <1>2, <1>3, <2>1 DEF OrderedIn
  <2> QED BY <1>4, <1>5, <2>2
<1> QED BY <1>6, <1>7

\* A latest entry put in front leaves a list of latest entries.
LEMMA FrontLatest ==
    ASSUME NEW t \in Seq(Entry), NEW e \in Entry, NEW stored, LatestIn(t, stored),
           stored[e.host] = [config |-> e.config, at |-> e.stored_at]
    PROVE  LatestIn(Cons(e, t), stored)
<1>1. /\ Cons(e, t) \in Seq(Entry) /\ Len(Cons(e, t)) = Len(t) + 1 /\ Cons(e, t)[1] = e
      /\ \A i \in 1..Len(t) : Cons(e, t)[i + 1] = t[i]
  BY ConsEntry
<1>2. DOMAIN t = 1..Len(t) /\ DOMAIN Cons(e, t) = 1..Len(t) + 1 /\ Len(t) \in Nat
  BY <1>1, LenProperties
<1>3. \A i \in 1..Len(t) + 1 : i # 1 => i - 1 \in DOMAIN t /\ Cons(e, t)[i] = t[i - 1]
  <2> TAKE i \in 1..Len(t) + 1
  <2> HAVE i # 1
  <2>1. i - 1 \in 1..Len(t) /\ (i - 1) + 1 = i
    BY <1>2
  <2> QED BY <1>1, <1>2, <2>1
<1> SUFFICES ASSUME NEW i \in 1..Len(t) + 1
             PROVE  stored[Cons(e, t)[i].host] =
                      [config |-> Cons(e, t)[i].config, at |-> Cons(e, t)[i].stored_at]
  BY <1>2 DEF LatestIn
<1>4. CASE i = 1
  BY <1>1, <1>4
<1>5. CASE i # 1
  BY <1>3, <1>5 DEF LatestIn
<1> QED BY <1>4, <1>5

-----------------------------------------------------------------------------
\* What the invariant says of a host the cache holds.
LEMMA HeldFacts ==
    ASSUME Inv, NEW h \in Host, Holds(entries, h)
    PROVE  /\ EntryOf(entries, h) \in Entry
           /\ EntryOf(entries, h).host = h
           /\ last[h] = [config |-> EntryOf(entries, h).config,
                         at |-> EntryOf(entries, h).stored_at]
           /\ last[h] # Contract!Nothing
           /\ Expired(EntryOf(entries, h)) <=> ~Contract!Valid(h)
<1> DEFINE e == EntryOf(entries, h)
<1>1. entries \in Seq(Entry) /\ DOMAIN entries = 1..Len(entries)
  BY LenProperties DEF Inv, CacheInv, CacheTypeOK
<1>2. e \in Entry /\ e.host = h /\ \E i \in DOMAIN entries : e = entries[i]
  BY <1>1, PositionFacts
<1>3. last[h] = [config |-> e.config, at |-> e.stored_at]
  BY <1>2 DEF Inv, LatestIn
<1>4. e.config \in Config /\ e.stored_at \in Int
  BY <1>2 DEF Entry
<1> HIDE DEF e
<1>5. last[h].config = e.config /\ last[h].at = e.stored_at
  BY <1>3
<1>6. last[h] # Contract!Nothing
  BY <1>4, <1>5, CacheAssumption DEF Contract!Nothing, CacheAssumption
<1>7. Expired(e) <=> ~Contract!Valid(h)
  <2>1. now \in Int /\ TTL \in Int
    BY CacheAssumption DEF CacheAssumption, Inv, CacheInv, CacheTypeOK
  <2> QED BY <1>4, <1>5, <1>6, <2>1 DEF Expired, Contract!Valid
<1> QED BY <1>2, <1>3, <1>6, <1>7 DEF e

\* The contract's cardinality is the one the library's theorems are about.
LEMMA SameCardinality == \A T : Contract!Cardinality(T) = Cardinality(T)
BY DEF Contract!Cardinality, Cardinality, Contract!IsFiniteSet, IsFiniteSet

\* Hosts used since h was last used become no fewer when another is used.
LEMMA CrowdedStays ==
    ASSUME HistoryTypeOK, NEW h \in Host, NEW k \in Host, h # k, Contract!Crowded(k)
    PROVE  Cardinality(usedSince[k] \cup {h}) >= Capacity
<1>1. IsFiniteSet(usedSince[k]) /\ Capacity \in Nat
  BY CapacityAssumption DEF HistoryTypeOK, CapacityAssumption
<1>2. Cardinality(usedSince[k]) \in Nat
  BY <1>1, FS_CardinalityType
<1>3. Cardinality(usedSince[k] \cup {h}) =
        IF h \in usedSince[k] THEN Cardinality(usedSince[k]) ELSE Cardinality(usedSince[k]) + 1
  BY <1>1, FS_AddElement
<1> QED BY <1>1, <1>2, <1>3, SameCardinality DEF Contract!Crowded

\* The last host of a full list is crowded out by the use of a new one: all in
\* front of it, and the new one, were used after it.
LEMMA LastIsCrowdedOut ==
    ASSUME Inv, NEW h \in Host, ~Holds(entries, h), Len(entries) = Capacity
    PROVE  Cardinality(usedSince[entries[Capacity].host] \cup {h}) >= Capacity
<1> DEFINE k == entries[Capacity].host
           T == usedSince[k] \cup {h}
           f == [i \in 1..Capacity |-> IF i < Capacity THEN entries[i].host ELSE h]
<1>1. /\ Capacity \in Nat \ {0} /\ entries \in Seq(Entry) /\ DOMAIN entries = 1..Capacity
      /\ OneEntryPerHost(entries)
  BY CapacityAssumption, LenProperties
     DEF CapacityAssumption, Inv, CacheInv, CacheTypeOK, BoundedMap
<1>2. k \in Host /\ IsFiniteSet(usedSince[k])
  BY <1>1, EntryType DEF Inv, HistoryTypeOK
<1>3. \A i \in 1..Capacity : i < Capacity => entries[i].host \in usedSince[k]
  BY <1>1 DEF Inv, OrderedIn
<1>4. \A i \in 1..Capacity : entries[i].host # h
  BY <1>1 DEF Holds
<1>5. f \in Injection(1..Capacity, T)
  <2>1. f \in [1..Capacity -> T]
    BY <1>1, <1>3
  <2>2. ASSUME NEW i \in 1..Capacity, NEW j \in 1..Capacity, f[i] = f[j]
        PROVE  i = j
    BY <1>1, <1>4, <2>2 DEF OneEntryPerHost
  <2> QED BY <2>1, <2>2 DEF Injection, IsInjective
<1>6. IsFiniteSet(T)
  BY <1>2, FS_AddElement
<1>7. Cardinality(1..Capacity) <= Cardinality(T)
  BY <1>5, <1>6, FS_Injection
<1>8. Cardinality(1..Capacity) = Capacity
  BY <1>1, FS_Interval
<1> QED BY <1>1, <1>6, <1>7, <1>8, FS_CardinalityType

-----------------------------------------------------------------------------
\* Using a host keeps the sets of hosts used finite.
LEMMA UsedType ==
    ASSUME HistoryTypeOK, NEW h \in Host
    PROVE  /\ Contract!Used(h) \in [Host -> SUBSET Host]
           /\ \A k \in Host : IsFiniteSet(Contract!Used(h)[k])
<1>1. Contract!Used(h) \in [Host -> SUBSET Host]
  BY DEF HistoryTypeOK, Contract!Used
<1>2. ASSUME NEW k \in Host
      PROVE  IsFiniteSet(Contract!Used(h)[k])
  <2>1. CASE k = h
    BY <2>1, FS_EmptySet DEF Contract!Used
  <2>2. CASE k # h
    <3>1. IsFiniteSet(usedSince[k] \cup {h})
      BY FS_AddElement DEF HistoryTypeOK
    <3> QED BY <2>2, <3>1 DEF Contract!Used
  <2> QED BY <2>1, <2>2
<1> QED BY <1>1, <1>2

\* A host nothing is stored for.
LEMMA NothingType == Contract!Nothing \in LastStore
BY CacheAssumption DEF Contract!Nothing, LastStore, CacheAssumption

\* A host other than h that was held, or crowded out, still is.
LEMMA KeptForOthers ==
    ASSUME Inv, NEW h \in Host, NEW k \in Host, k # h, Contract!Valid(k),
           NEW new \in Seq(Entry),
           \A j \in DOMAIN entries : entries[j].host = k =>
             \/ \E i \in DOMAIN new : new[i] = entries[j]
             \/ Cardinality(usedSince[k] \cup {h}) >= Capacity
    PROVE  Holds(new, k) \/ Cardinality(usedSince[k] \cup {h}) >= Capacity
<1>1. CASE Contract!Crowded(k)
  BY <1>1, CrowdedStays DEF Inv
<1>2. CASE ~Contract!Crowded(k)
  <2>1. Holds(entries, k)
    BY <1>2 DEF Inv, KeptUntilCrowdedOut
  <2> QED BY <2>1 DEF Holds
<1> QED BY <1>1, <1>2

-----------------------------------------------------------------------------
\* Store keeps the order of use, the latest configurations, and every entry that
\* is not crowded out.
LEMMA StoreStep ==
    ASSUME Inv, CacheInv', NEW h \in Host, NEW c \in Config, StoreH(h, c)
    PROVE  Inv'
<1> DEFINE e == [host |-> h, config |-> c, stored_at |-> now]
<1>1. /\ entries \in Seq(Entry) /\ OneEntryPerHost(entries) /\ Len(entries) <= Capacity
      /\ entries' \in Seq(Entry) /\ HistoryTypeOK /\ now \in 0..MaxNow
  BY DEF Inv, CacheInv, CacheTypeOK, BoundedMap
<1>2. /\ entries' = Put(entries, e) /\ now' = now
      /\ last' = [last EXCEPT ![h] = [config |-> c, at |-> now]]
      /\ usedSince' = Contract!Used(h)
  BY DEF StoreH, Store
<1>3. e \in Entry /\ e.host = h /\ e.config = c /\ e.stored_at = now
  BY <1>1 DEF Entry
<1>4. HistoryTypeOK'
  <2>1. [config |-> c, at |-> now] \in LastStore
    BY <1>1 DEF LastStore
  <2> QED BY <1>1, <1>2, <2>1, UsedType DEF HistoryTypeOK
<1> HIDE DEF e
<1>5. PICK t \in Seq(Entry) : /\ entries' = Cons(e, t) /\ Picks(t, entries)
                              /\ ~Holds(t, e.host)
  BY <1>1, <1>2, <1>3, PutFacts
<1>6. LatestIn(entries', last')
  <2>1. LatestIn(t, last)
    BY <1>1, <1>5, PicksLatest DEF Inv
  <2>2. LatestIn(t, last')
    <3> SUFFICES ASSUME NEW i \in DOMAIN t
                 PROVE  last'[t[i].host] = [config |-> t[i].config, at |-> t[i].stored_at]
      BY DEF LatestIn
    <3>1. t[i].host \in Host /\ t[i].host # h
      BY <1>3, <1>5, EntryType DEF Holds
    <3>2. last'[t[i].host] = last[t[i].host]
      BY <1>1, <1>2, <3>1 DEF HistoryTypeOK
    <3> QED BY <2>1, <3>2 DEF LatestIn
  <2>3. last'[e.host] = [config |-> e.config, at |-> e.stored_at]
    BY <1>1, <1>2, <1>3 DEF HistoryTypeOK
  <2>4. LatestIn(Cons(e, t), last')
    BY <1>3, <2>2, <2>3, FrontLatest
  <2> QED BY <1>5, <2>4
<1>7. OrderedIn(entries', usedSince')
  <2>1. OrderedIn(t, usedSince)
    BY <1>1, <1>5, PicksOrdered DEF Inv
  <2>2. OrderedIn(Cons(e, t), Contract!Used(e.host))
    BY <1>1, <1>3, <1>5, <2>1, FrontOrdered
  <2> QED BY <1>2, <1>3, <1>5, <2>2
<1>8. KeptUntilCrowdedOut'
  <2> SUFFICES ASSUME NEW k \in Host, Contract!Valid(k)', ~Contract!Crowded(k)'
               PROVE  Holds(entries', k)
    BY DEF KeptUntilCrowdedOut
  <2>1. CASE k = h
    <3>1. 1 \in DOMAIN entries' /\ entries'[1] = e
      <4>1. Len(Cons(e, t)) = Len(t) + 1 /\ Cons(e, t)[1] = e
        BY <1>3, ConsEntry
      <4>2. DOMAIN entries' = 1..Len(entries') /\ Len(t) \in Nat
        BY <1>1, LenProperties
      <4> QED BY <1>5, <4>1, <4>2
    <3> QED BY <1>3, <2>1, <3>1 DEF Holds
  <2>2. CASE k # h
    <3>1. Contract!Valid(k)
      BY <1>1, <1>2, <2>2 DEF Contract!Valid, Contract!Nothing, HistoryTypeOK
    <3>2. ~(Cardinality(usedSince[k] \cup {h}) >= Capacity)
      BY <1>2, <2>2, SameCardinality DEF Contract!Crowded, Contract!Used
    <3>3. ASSUME NEW j \in DOMAIN entries, entries[j].host = k
          PROVE  \/ \E i \in DOMAIN entries' : entries'[i] = entries[j]
                 \/ Cardinality(usedSince[k] \cup {h}) >= Capacity
      <4>1. \/ \E i \in DOMAIN entries' : entries'[i] = entries[j]
            \/ ~Holds(entries, h) /\ j = Capacity /\ Len(entries) = Capacity
        BY <1>1, <1>2, <1>3, <2>2, <3>3, PutKeeps
      <4> QED BY <3>3, <4>1, LastIsCrowdedOut
    <3> QED BY <1>1, <2>2, <3>1, <3>2, <3>3, KeptForOthers
  <2> QED BY <2>1, <2>2
<1> QED BY <1>4, <1>6, <1>7, <1>8 DEF Inv

\* So does a Get that finds an entry.
LEMMA HitStep ==
    ASSUME Inv, CacheInv', NEW h \in Host, GetHitH(h)
    PROVE  Inv'
<1> DEFINE e == EntryOf(entries, h)
           t == Erase(entries, h)
<1>1. /\ entries \in Seq(Entry) /\ OneEntryPerHost(entries)
      /\ entries' \in Seq(Entry) /\ HistoryTypeOK
  BY DEF Inv, CacheInv, CacheTypeOK, BoundedMap
<1>2. /\ Holds(entries, h) /\ entries' = Cons(e, t) /\ now' = now /\ last' = last
      /\ usedSince' = Contract!Used(h)
  BY DEF GetHitH, GetHit, Touch
<1>3. /\ e \in Entry /\ e.host = h
      /\ last[h] = [config |-> e.config, at |-> e.stored_at]
  BY <1>2, HeldFacts
<1>4. /\ t \in Seq(Entry) /\ Picks(t, entries) /\ ~Holds(t, h)
      /\ \A j \in DOMAIN entries : entries[j].host # h =>
           \E i \in DOMAIN t : t[i] = entries[j]
  BY <1>1, EraseFacts
<1> HIDE DEF e, t
<1>5. HistoryTypeOK'
  BY <1>1, <1>2, UsedType DEF HistoryTypeOK
<1>6. LatestIn(entries', last')
  <2>1. LatestIn(t, last)
    BY <1>1, <1>4, PicksLatest DEF Inv
  <2>2. LatestIn(Cons(e, t), last)
    BY <1>3, <1>4, <2>1, FrontLatest
  <2> QED BY <1>2, <2>2
<1>7. OrderedIn(entries', usedSince')
  <2>1. OrderedIn(t, usedSince)
    BY <1>1, <1>4, PicksOrdered DEF Inv
  <2>2. OrderedIn(Cons(e, t), Contract!Used(e.host))
    BY <1>1, <1>3, <1>4, <2>1, FrontOrdered
  <2> QED BY <1>2, <1>3, <2>2
<1>8. /\ DOMAIN t = 1..Len(t) /\ DOMAIN entries' = 1..Len(t) + 1 /\ Len(t) \in Nat
      /\ entries'[1] = e /\ \A i \in 1..Len(t) : entries'[i + 1] = t[i]
  BY <1>1, <1>2, <1>3, <1>4, ConsEntry, LenProperties
<1>9. KeptUntilCrowdedOut'
  <2> SUFFICES ASSUME NEW k \in Host, Contract!Valid(k)', ~Contract!Crowded(k)'
               PROVE  Holds(entries', k)
    BY DEF KeptUntilCrowdedOut
  <2>1. CASE k = h
    BY <1>3, <1>8, <2>1 DEF Holds
  <2>2. CASE k # h
    <3>1. Contract!Valid(k)
      BY <1>2 DEF Contract!Valid, Contract!Nothing
    <3>2. ~(Cardinality(usedSince[k] \cup {h}) >= Capacity)
      BY <1>2, <2>2, SameCardinality DEF Contract!Crowded, Contract!Used
    <3>3. ASSUME NEW j \in DOMAIN entries, entries[j].host = k
          PROVE  \E i \in DOMAIN entries' : entries'[i] = entries[j]
      <4>1. PICK i \in 1..Len(t) : t[i] = entries[j]
        BY <1>4, <1>8, <2>2, <3>3
      <4>2. i + 1 \in DOMAIN entries' /\ entries'[i + 1] = entries[j]
        BY <1>8, <4>1
      <4> QED BY <4>2
    <3> QED BY <1>1, <2>2, <3>1, <3>2, <3>3, KeptForOthers
  <2> QED BY <2>1, <2>2
<1> QED BY <1>5, <1>6, <1>7, <1>9 DEF Inv

\* GetExpired and Invalidate: an erased host is one that is not owed an answer.
LEMMA EraseStep ==
    ASSUME Inv, CacheInv', NEW h \in Host, entries' = Erase(entries, h), now' = now,
           usedSince' = usedSince, HistoryTypeOK', ~Contract!Valid(h)',
           \A k \in Host : k # h => last'[k] = last[k]
    PROVE  Inv'
<1>1. /\ entries \in Seq(Entry) /\ OneEntryPerHost(entries)
      /\ entries' \in Seq(Entry) /\ HistoryTypeOK
  BY DEF Inv, CacheInv, CacheTypeOK, BoundedMap
<1>2. /\ Picks(entries', entries) /\ ~Holds(entries', h)
      /\ \A j \in DOMAIN entries : entries[j].host # h =>
           \E i \in DOMAIN entries' : entries'[i] = entries[j]
  BY <1>1, EraseFacts
<1>3. LatestIn(entries', last')
  <2>1. LatestIn(entries', last)
    BY <1>1, <1>2, PicksLatest DEF Inv
  <2>2. \A i \in DOMAIN entries' : entries'[i].host \in Host /\ entries'[i].host # h
    BY <1>1, <1>2, EntryType DEF Holds
  <2> QED BY <2>1, <2>2 DEF LatestIn
<1>4. OrderedIn(entries', usedSince')
  BY <1>1, <1>2, PicksOrdered DEF Inv
<1>5. KeptUntilCrowdedOut'
  <2> SUFFICES ASSUME NEW k \in Host, Contract!Valid(k)', ~Contract!Crowded(k)'
               PROVE  Holds(entries', k)
    BY DEF KeptUntilCrowdedOut
  <2>1. k # h
    OBVIOUS
  <2>2. Contract!Valid(k) /\ ~Contract!Crowded(k)
    BY <2>1 DEF Contract!Valid, Contract!Nothing, Contract!Crowded
  <2>3. Holds(entries, k)
    BY <2>2 DEF Inv, KeptUntilCrowdedOut
  <2> QED BY <1>2, <2>1, <2>3 DEF Holds
<1> QED BY <1>3, <1>4, <1>5 DEF Inv

-----------------------------------------------------------------------------
\* The invariant holds of the empty cache.
LEMMA InvInit == Init => Inv
<1> SUFFICES ASSUME Init PROVE Inv
  OBVIOUS
<1>1. CacheInv /\ entries = <<>>
  BY CacheInvInit DEF Init, CacheInit
<1>2. /\ last = [h \in Host |-> Contract!Nothing]
      /\ usedSince = [h \in Host |-> {}]
  BY DEF Init
<1>3. HistoryTypeOK
  BY <1>2, NothingType, FS_EmptySet DEF HistoryTypeOK
<1>4. LatestIn(entries, last) /\ OrderedIn(entries, usedSince)
  BY <1>1 DEF LatestIn, OrderedIn
<1>5. KeptUntilCrowdedOut
  BY <1>2 DEF KeptUntilCrowdedOut, Contract!Valid
<1> QED BY <1>1, <1>3, <1>4, <1>5 DEF Inv

\* Every step with history is a step of the cache without it.
LEMMA CacheStepOfNext == [Next]_vars => [CacheNext]_cacheVars
BY DEF Next, vars, StoreH, GetMissH, GetExpiredH, GetHitH, InvalidateH, ClearH, TickH,
       CacheNext, cacheVars

\* Every operation keeps the invariant.
LEMMA InvStep == Inv /\ [Next]_vars => Inv'
<1> SUFFICES ASSUME Inv, [Next]_vars
             PROVE  Inv'
  OBVIOUS
<1>1. CacheInv'
  BY CacheInvStep, CacheStepOfNext DEF Inv
<1>2. /\ entries \in Seq(Entry) /\ OneEntryPerHost(entries)
      /\ HistoryTypeOK /\ now \in 0..MaxNow
  BY DEF Inv, CacheInv, CacheTypeOK, BoundedMap
<1>3. ASSUME NEW h \in Host, NEW c \in Config, StoreH(h, c)
      PROVE  Inv'
  BY <1>1, <1>3, StoreStep
<1>4. ASSUME NEW h \in Host, GetMissH(h)
      PROVE  Inv'
  BY <1>1, <1>4 DEF GetMissH, GetMiss, Inv, HistoryTypeOK, LatestIn, OrderedIn,
                    KeptUntilCrowdedOut, Contract!Valid, Contract!Crowded, Contract!Nothing
<1>5. ASSUME NEW h \in Host, GetExpiredH(h)
      PROVE  Inv'
  <2>1. /\ entries' = Erase(entries, h) /\ UNCHANGED <<now, last, usedSince>>
    BY <1>2, <1>5, EraseAfterTouch DEF GetExpiredH, GetExpired
  <2>2. ~Contract!Valid(h)'
    <3>1. ~Contract!Valid(h)
      BY <1>5, HeldFacts DEF GetExpiredH, GetExpired
    <3> QED BY <2>1, <3>1 DEF Contract!Valid, Contract!Nothing
  <2>3. HistoryTypeOK'
    BY <1>2, <2>1 DEF HistoryTypeOK
  <2> QED BY <1>1, <2>1, <2>2, <2>3, EraseStep
<1>6. ASSUME NEW h \in Host, GetHitH(h)
      PROVE  Inv'
  BY <1>1, <1>6, HitStep
<1>7. ASSUME NEW h \in Host, InvalidateH(h)
      PROVE  Inv'
  <2>1. /\ entries' = Erase(entries, h) /\ UNCHANGED <<now, usedSince>>
        /\ last' = [last EXCEPT ![h] = Contract!Nothing]
    BY <1>7 DEF InvalidateH, Invalidate
  <2>2. HistoryTypeOK'
    BY <1>2, <2>1, NothingType DEF HistoryTypeOK
  <2>3. last'[h] = Contract!Nothing /\ \A k \in Host : k # h => last'[k] = last[k]
    BY <1>2, <2>1 DEF HistoryTypeOK
  <2>4. ~Contract!Valid(h)'
    BY <2>3 DEF Contract!Valid, Contract!Nothing
  <2> QED BY <1>1, <2>1, <2>2, <2>3, <2>4, EraseStep
<1>8. CASE ClearH
  <2>1. /\ entries' = <<>> /\ UNCHANGED <<now, usedSince>>
        /\ last' = [h \in Host |-> Contract!Nothing]
    BY <1>8 DEF ClearH, Clear
  <2>2. HistoryTypeOK'
    BY <1>2, <2>1, NothingType DEF HistoryTypeOK
  <2>3. LatestIn(entries', last') /\ OrderedIn(entries', usedSince')
    BY <2>1 DEF LatestIn, OrderedIn
  <2>4. KeptUntilCrowdedOut'
    BY <2>1 DEF KeptUntilCrowdedOut, Contract!Valid, Contract!Nothing
  <2> QED BY <1>1, <2>2, <2>3, <2>4 DEF Inv
<1>9. CASE TickH
  <2>1. UNCHANGED <<entries, last, usedSince>> /\ now' = now + 1
    BY <1>9 DEF TickH, Tick
  <2>2. HistoryTypeOK' /\ LatestIn(entries', last') /\ OrderedIn(entries', usedSince')
    BY <1>2, <2>1 DEF Inv, HistoryTypeOK, LatestIn, OrderedIn
  <2>3. KeptUntilCrowdedOut'
    <3> SUFFICES ASSUME NEW k \in Host, Contract!Valid(k)', ~Contract!Crowded(k)'
                 PROVE  Holds(entries', k)
      BY DEF KeptUntilCrowdedOut
    <3>1. ~Contract!Crowded(k)
      BY <2>1 DEF Contract!Crowded
    <3>2. last[k] # Contract!Nothing /\ (now + 1) - last[k].at <= TTL
      BY <2>1 DEF Contract!Valid, Contract!Nothing
    <3>3. last[k].at \in Int
      BY <1>2 DEF HistoryTypeOK, LastStore
    <3>4. Contract!Valid(k)
      BY <1>2, <3>2, <3>3, CacheAssumption DEF Contract!Valid, CacheAssumption
    <3> QED BY <2>1, <3>1, <3>4 DEF Inv, KeptUntilCrowdedOut
  <2> QED BY <1>1, <2>2, <2>3 DEF Inv
<1>10. CASE UNCHANGED vars
  BY <1>1, <1>10 DEF vars, Inv, HistoryTypeOK, LatestIn, OrderedIn,
                     KeptUntilCrowdedOut, Contract!Valid, Contract!Crowded, Contract!Nothing
<1> QED BY <1>3, <1>4, <1>5, <1>6, <1>7, <1>8, <1>9, <1>10 DEF Next

\* In every reachable state the list is in the order of use, holds the latest
\* configurations and has lost nothing that is not crowded out.
THEOREM HistoryInvariant == Spec => []Inv
BY InvInit, InvStep, PTL DEF Spec

(***************************************************************************)
(* What is held for a host is what was last stored for it and not          *)
(* invalidated or cleared since.                                           *)
(***************************************************************************)
THEOREM OnlyTheLatestIsHeld == Spec => []HoldsOnlyTheLatest
<1>1. Inv => HoldsOnlyTheLatest
  <2> SUFFICES ASSUME Inv, NEW h \in Host, Holds(entries, h)
               PROVE  last[h] # Contract!Nothing /\ Match(h)
    BY DEF HoldsOnlyTheLatest
  <2>1. /\ last[h] # Contract!Nothing
        /\ last[h] = [config |-> EntryOf(entries, h).config,
                      at |-> EntryOf(entries, h).stored_at]
    BY HeldFacts
  <2> QED BY <2>1 DEF Match
<1> QED BY <1>1, HistoryInvariant, PTL

(***************************************************************************)
(* Nothing unexpired is lost before Capacity other hosts were used.        *)
(***************************************************************************)
THEOREM NothingIsLostEarly == Spec => []KeptUntilCrowdedOut
<1>1. Inv => KeptUntilCrowdedOut
  BY DEF Inv
<1> QED BY <1>1, HistoryInvariant, PTL

(***************************************************************************)
(* The list is in the order of use, so the entry an eviction takes is the  *)
(* least recently used one.                                                *)
(***************************************************************************)
THEOREM ListIsOrderedByUse == Spec => []OrderedByUse
<1>1. Inv => OrderedByUse
  BY DEF Inv, OrderedIn, OrderedByUse
<1> QED BY <1>1, HistoryInvariant, PTL

-----------------------------------------------------------------------------
\* Every step of the cache is one the contract allows (GetExpired and GetMiss are
\* its NotFound, GetHit its Found) or leaves its variables alone.
LEMMA StepOfContract ==
    Inv /\ [Next]_vars => [Contract!ContractNext]_(Contract!contractVars)
<1> SUFFICES ASSUME Inv, [Next]_vars
             PROVE  Contract!ContractNext \/ UNCHANGED Contract!contractVars
  OBVIOUS
<1>0. HistoryTypeOK
  BY DEF Inv
<1>1. ASSUME NEW h \in Host, NEW c \in Config, StoreH(h, c)
      PROVE  Contract!ContractNext
  <2>1. Contract!Store(h, c)
    BY <1>1 DEF StoreH, Store, Contract!Store
  <2> QED BY <2>1 DEF Contract!ContractNext
<1>2. ASSUME NEW h \in Host, GetMissH(h)
      PROVE  Contract!ContractNext
  <2>1. ~Contract!Valid(h) \/ Contract!Crowded(h)
    BY <1>2 DEF GetMissH, GetMiss, Inv, KeptUntilCrowdedOut
  <2>2. Contract!NotFound(h)
    BY <1>2, <2>1 DEF GetMissH, GetMiss, Contract!NotFound
  <2> QED BY <2>2 DEF Contract!ContractNext
<1>3. ASSUME NEW h \in Host, GetExpiredH(h)
      PROVE  Contract!ContractNext
  <2>1. ~Contract!Valid(h)
    BY <1>3, HeldFacts DEF GetExpiredH, GetExpired
  <2>2. Contract!NotFound(h)
    BY <1>3, <2>1 DEF GetExpiredH, GetExpired, Contract!NotFound
  <2> QED BY <2>2 DEF Contract!ContractNext
<1>4. ASSUME NEW h \in Host, GetHitH(h)
      PROVE  Contract!ContractNext
  <2>1. Contract!Valid(h) /\ last[h].config = EntryOf(entries, h).config
    <3>1. Holds(entries, h) /\ ~Expired(EntryOf(entries, h))
      BY <1>4 DEF GetHitH, GetHit
    <3>2. /\ last[h] = [config |-> EntryOf(entries, h).config,
                        at |-> EntryOf(entries, h).stored_at]
          /\ Expired(EntryOf(entries, h)) <=> ~Contract!Valid(h)
      BY <3>1, HeldFacts
    <3> QED BY <3>1, <3>2
  <2>2. Contract!Found(h)
    BY <1>4, <2>1 DEF GetHitH, GetHit, Contract!Found
  <2> QED BY <2>2 DEF Contract!ContractNext
<1>5. ASSUME NEW h \in Host, InvalidateH(h)
      PROVE  Contract!ContractNext
  <2>1. last' = [k \in Host |-> IF k \in {h} THEN Contract!Nothing ELSE last[k]]
    BY <1>0, <1>5 DEF InvalidateH, HistoryTypeOK
  <2>2. Contract!Forget({h})
    BY <1>5, <2>1 DEF InvalidateH, Invalidate, Contract!Forget
  <2> QED BY <2>2 DEF Contract!ContractNext
<1>6. CASE ClearH
  <2>1. Contract!Forget(Host)
    BY <1>6 DEF ClearH, Clear, Contract!Forget
  <2> QED BY <2>1 DEF Contract!ContractNext
<1>7. CASE TickH
  <2>1. Contract!Tick
    BY <1>7 DEF TickH, Tick, Contract!Tick
  <2> QED BY <2>1 DEF Contract!ContractNext
<1>8. CASE UNCHANGED vars
  BY <1>8 DEF vars, Contract!contractVars
<1> QED BY <1>1, <1>2, <1>3, <1>4, <1>5, <1>6, <1>7, <1>8 DEF Next

(***************************************************************************)
(* ECHRetryConfigCache implements its contract: whatever its callers do,   *)
(* each of its answers is one the contract allows.                         *)
(***************************************************************************)
THEOREM CacheImplementsContract == Spec => ImplementsContract
<1>1. Init => Contract!ContractInit
  BY DEF Init, CacheInit, Contract!ContractInit
<1> QED BY <1>1, StepOfContract, HistoryInvariant, PTL
        DEF Spec, ImplementsContract, Contract!ContractSpec
=============================================================================
