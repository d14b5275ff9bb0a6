--------------------------- MODULE ReadersProofs ----------------------------
(***************************************************************************)
(* What the readers make of their input: the loops over configuration      *)
(* lists, for lists of any length, cut off anywhere, and the parser of     *)
(* HTTPS records, for any list of parameters.                              *)
(*                                                                         *)
(* Folds and concatenations of unknown length are unrolled by the least    *)
(* counterexample: a set of naturals that is not empty has a least element *)
(* (LeastNatural), and a value that FoldLeft or FlattenSeq computes is the *)
(* one their equations give at every step before it.                       *)
(***************************************************************************)
EXTENDS HttpsRecordParse, ECHWire, WellFoundedInduction, SequenceTheorems, TLAPS

\* The well-founded order on the naturals, as it is used below.
LEMMA LeastNatural ==
  ASSUME NEW T \in SUBSET Nat, T # {}
  PROVE \E n \in T : \A m \in T : n <= m
<1> DEFINE Less == {ss \in Nat \X Nat : ss[1] < ss[2]}
<1>0. IsWellFoundedOn(Less, Nat)
  BY NatLessThanWellFounded DEF OpToRel
<1>1. PICK n \in T : \A m \in T : ~(<<m, n>> \in Less)
  <2> HIDE DEF Less
  <2> QED BY WFMin, <1>0
<1>2. \A m \in T : ~(m < n)
  BY <1>1
<1> QED BY <1>2

\* f holds the concatenations of the first elements of q, up to the n-th.
Flat(f, q, i) == IF i = 1 THEN q[i] ELSE f[i - 1] \o q[i]

Flattens(f, q, n) == f = [i \in 1..n |-> Flat(f, q, i)]

\* There is such a function, and only one.
LEMMA FlattenExists ==
  ASSUME NEW q, NEW n \in Nat
  PROVE  \E f : Flattens(f, q, n)
<1> DEFINE Wrong == {m \in Nat : ~\E f : Flattens(f, q, m)}
<1> SUFFICES ASSUME Wrong # {} PROVE FALSE
  OBVIOUS
<1>1. PICK m \in Wrong : \A k \in Wrong : m <= k
  BY LeastNatural
<1>2. m # 0
  <2>1. Flattens([i \in 1..0 |-> 0], q, 0)
    BY DEF Flattens
  <2> QED BY <1>1, <2>1
<1>3. PICK f : Flattens(f, q, m - 1)
  <2>1. m - 1 \in Nat /\ ~(m <= m - 1)
    BY <1>2
  <2> QED BY <1>1, <2>1
<1>4. /\ \A i \in 1..m - 1 : f[i] = Flat(f, q, i)
  BY <1>3 DEF Flattens
<1> DEFINE g == [i \in 1..m |-> IF i = m THEN Flat(f, q, m) ELSE f[i]]
<1>5. ASSUME NEW i \in 1..m PROVE g[i] = Flat(g, q, i)
  <2>1. CASE i = 1
    BY <1>4, <2>1 DEF Flat
  <2>2. CASE i # 1
    <3>1. i - 1 \in 1..m /\ i - 1 # m
      BY <2>2
    <3>2. g[i - 1] = f[i - 1]
      BY <3>1
    <3> HIDE DEF g
    <3>3. g[i] = Flat(f, q, i)
      BY <1>4 DEF g
    <3> QED BY <2>2, <3>2, <3>3 DEF Flat
  <2> QED BY <2>1, <2>2
<1>6. Flattens(g, q, m)
  BY <1>5 DEF Flattens
<1> QED BY <1>6

\* That equation leaves one value at every step.
LEMMA FlattenUnique ==
  ASSUME NEW q, NEW m \in Nat, NEW n \in Nat, NEW f, NEW g,
         Flattens(f, q, m), Flattens(g, q, n), NEW i \in 1..m, i <= n
  PROVE  f[i] = g[i]
<1> DEFINE Wrong == {k \in Nat : k \in 1..m /\ k <= n /\ f[k] # g[k]}
<1> SUFFICES ASSUME Wrong # {} PROVE FALSE
  OBVIOUS
<1>1. PICK k \in Wrong : \A l \in Wrong : k <= l
  BY LeastNatural
<1>2. f[k] = Flat(f, q, k) /\ g[k] = Flat(g, q, k)
  <2>1. k \in 1..m /\ k \in 1..n
    BY <1>1
  <2>2. \A j \in 1..m : f[j] = Flat(f, q, j)
    BY DEF Flattens
  <2>3. \A j \in 1..n : g[j] = Flat(g, q, j)
    BY DEF Flattens
  <2> QED BY <2>1, <2>2, <2>3
<1>3. k # 1
  BY <1>1, <1>2 DEF Flat
<1>4. k - 1 \in 1..m /\ k - 1 \in Nat /\ k - 1 <= n /\ ~(k <= k - 1)
  BY <1>1, <1>3
<1>5. f[k - 1] = g[k - 1]
  BY <1>1, <1>4
<1> QED BY <1>1, <1>2, <1>3, <1>5 DEF Flat

\* What FlattenSeq computes is the last value of such a function.
LEMMA FlattenIs ==
  ASSUME NEW q, NEW n \in Nat \ {0}
  PROVE  \E f : Flattens(f, q, n) /\ FlattenSeq([i \in 1..n |-> q[i]]) = f[n]
<1> DEFINE Q == [i \in 1..n |-> q[i]]
           G(f) == [i \in 1..Len(Q) |-> IF i = 1 THEN Q[i] ELSE f[i - 1] \o Q[i]]
           I == CHOOSE f : f = G(f)
<1>1. Len(Q) = n
  OBVIOUS
<1>2. FlattenSeq(Q) = I[n]
  BY <1>1 DEF FlattenSeq
<1>3. ASSUME NEW f PROVE G(f) = [i \in 1..n |-> Flat(f, q, i)]
  BY <1>1 DEF Flat
<1>4. PICK f : f = G(f)
  <2>1. PICK f : Flattens(f, q, n)
    BY FlattenExists
  <2>2. f = G(f)
    <3> HIDE DEF G
    <3> QED BY <1>3, <2>1 DEF Flattens
  <2> HIDE DEF G
  <2> QED BY <2>2
<1>5. I = G(I)
  <2> HIDE DEF G
  <2> QED BY <1>4
<1>6. Flattens(I, q, n)
  <2> HIDE DEF G, I
  <2> QED BY <1>3, <1>5 DEF Flattens
<1> QED BY <1>2, <1>6

\* A sequence more is its elements more.
LEMMA FlattenAppend ==
  ASSUME NEW q, NEW n \in Nat, \A i \in 1..n + 1 : q[i] \in Seq(Nat)
  PROVE  FlattenSeq([i \in 1..n + 1 |-> q[i]]) = FlattenSeq([i \in 1..n |-> q[i]]) \o q[n + 1]
<1>1. PICK g : Flattens(g, q, n + 1) /\ FlattenSeq([i \in 1..n + 1 |-> q[i]]) = g[n + 1]
  <2>1. n + 1 \in Nat \ {0}
    OBVIOUS
  <2> QED BY <2>1, FlattenIs
<1>2. g[n + 1] = Flat(g, q, n + 1)
  <2>1. n + 1 \in 1..n + 1
    OBVIOUS
  <2> QED BY <1>1, <2>1 DEF Flattens
<1>3. CASE n = 0
  <2> DEFINE Q == [i \in 1..n |-> q[i]]
  <2>1. Q = <<>>
    BY <1>3
  <2>2. Len(Q) = 0
    BY <2>1
  <2>3. FlattenSeq(Q) = <<>>
    BY <2>1, <2>2 DEF FlattenSeq
  <2>4. g[n + 1] = q[n + 1] /\ q[n + 1] \in Seq(Nat)
    BY <1>2, <1>3 DEF Flat
  <2> HIDE DEF Q
  <2>5. <<>> \o q[n + 1] = q[n + 1]
    BY <2>4
  <2> QED BY <1>1, <2>3, <2>4, <2>5 DEF Q
<1>4. CASE n # 0
  <2>1. PICK f : Flattens(f, q, n) /\ FlattenSeq([i \in 1..n |-> q[i]]) = f[n]
    BY <1>4, FlattenIs
  <2>2. n \in 1..n /\ n <= n + 1 /\ n + 1 \in Nat
    BY <1>4
  <2>3. f[n] = g[n]
    BY <1>1, <2>1, <2>2, FlattenUnique
  <2>4. g[n + 1] = g[n] \o q[n + 1]
    <3>1. n + 1 # 1 /\ (n + 1) - 1 = n
      BY <1>4
    <3> QED BY <1>2, <3>1 DEF Flat
  <2> QED BY <1>1, <2>1, <2>3, <2>4
<1> QED BY <1>3, <1>4

\* The greatest of some positions, which Max chooses.
LEMMA MaxOfPositions ==
  ASSUME NEW n \in Nat, NEW s \in SUBSET (1..n), s # {}
  PROVE Max(s) \in s /\ \A y \in s : y <= Max(s)
<1> DEFINE Gaps == {k \in Nat : n - k \in s}
<1>1. Gaps # {}
  <2>1. PICK x \in s : TRUE
    OBVIOUS
  <2>2. n - x \in Nat /\ n - (n - x) = x
    OBVIOUS
  <2> QED BY <2>1, <2>2
<1>2. PICK m \in Gaps : \A k \in Gaps : m <= k
  <2>1. Gaps \in SUBSET Nat
    OBVIOUS
  <2> HIDE DEF Gaps
  <2> QED BY <1>1, <2>1, LeastNatural
<1>3. \A y \in s : n - m >= y
  <2> SUFFICES ASSUME NEW y \in s PROVE n - m >= y
    OBVIOUS
  <2>1. n - y \in Nat /\ n - (n - y) = y
    OBVIOUS
  <2>2. m <= n - y
    BY <1>2, <2>1
  <2> QED BY <2>2
<1>4. \A x, y \in s : x >= y /\ y >= x => x = y
  OBVIOUS
<1> QED BY <1>3 DEF Max

-----------------------------------------------------------------------------
(***************************************************************************)
(* What ReadList returns.  FoldLeft folds over sets of positions, so what  *)
(* the loop holds is given for any such set; that it gives what the set    *)
(* without its greatest position gave and then one turn (AfterOneMore)     *)
(* makes it the value of the fold.                                         *)
(***************************************************************************)
Accepts(item, vs) == item.version \in vs /\ item.contents # Garbage

Begin == [open |-> TRUE, keys |-> {}]

\* The positions whose contents are added: no broken item up to them.
Good(list, vs, s) ==
  {i \in s : /\ Accepts(list[i], vs)
             /\ \A k \in s : k <= i => list[k] # Broken}

\* What the loop holds when it has read the items at the positions in s.
After(list, vs, s) ==
    [open |-> \A j \in s : list[j] # Broken,
     keys |-> {list[j].contents : j \in Good(list, vs, s)}]

\* One position more is one turn more.
LEMMA AfterOneMore ==
  ASSUME NEW list \in Seq(ListItem), NEW vs, NEW s \in SUBSET DOMAIN list, s # {}
  PROVE After(list, vs, s) =
          ReadItem(After(list, vs, s \ {Max(s)}), list[Max(s)], vs)
<1> DEFINE m == Max(s)
           t == s \ {m}
           item == list[m]
           A == After(list, vs, t)
<1>1. m \in s /\ (\A y \in s : y <= m) /\ s \subseteq 1..Len(list)
  <2>1. s \in SUBSET (1..Len(list)) /\ Len(list) \in Nat
    OBVIOUS
  <2> QED BY <2>1, MaxOfPositions
<1> HIDE DEF m
<1> DEFINE o == \A j \in t : list[j] # Broken
           K == {list[j].contents : j \in Good(list, vs, t)}
<1>2. A = [open |-> o, keys |-> K] /\ A.open = o /\ A.keys = K
  BY DEF After
<1>3. Good(list, vs, s) = Good(list, vs, t) \cup
         (IF o /\ item # Broken /\ Accepts(item, vs) THEN {m} ELSE {})
  <2>1. m \in Good(list, vs, s) <=> o /\ item # Broken /\ Accepts(item, vs)
    BY <1>1 DEF Good
  <2>2. ASSUME NEW i \in t
        PROVE  i \in Good(list, vs, s) <=> i \in Good(list, vs, t)
    <3>1. i \in s /\ ~(m <= i)
      BY <1>1
    <3>2. (\A k \in s : k <= i => list[k] # Broken) <=> (\A k \in t : k <= i => list[k] # Broken)
      BY <1>1, <3>1
    <3> QED BY <3>1, <3>2 DEF Good
  <2>3. Good(list, vs, s) \subseteq s /\ Good(list, vs, t) \subseteq t /\ s = t \cup {m}
    BY <1>1 DEF Good
  <2> QED BY <2>1, <2>2, <2>3
<1>4. ~Accepts(Broken, vs)
  BY DEF Accepts, Broken
<1>5. (\A j \in s : list[j] # Broken) = (o /\ item # Broken)
  BY <1>1
<1>6. After(list, vs, s) =
        [open |-> o /\ item # Broken,
         keys |-> {list[j].contents : j \in Good(list, vs, s)}]
  BY <1>5 DEF After
<1>7. {list[j].contents : j \in Good(list, vs, s)} =
         K \cup (IF o /\ item # Broken /\ Accepts(item, vs) THEN {item.contents} ELSE {})
  BY <1>3
<1> HIDE DEF A, o, K
<1>8. CASE ~o \/ item = Broken
  <2>1. ReadItem(A, item, vs) = [open |-> FALSE, keys |-> K]
    BY <1>2, <1>8 DEF ReadItem
  <2> QED BY <1>4, <1>6, <1>7, <1>8, <2>1 DEF m, A
<1>9. CASE o /\ item # Broken /\ Accepts(item, vs)
  <2>1. ReadItem(A, item, vs) = [open |-> TRUE, keys |-> K \cup {item.contents}]
    BY <1>2, <1>9 DEF ReadItem, Accepts
  <2> QED BY <1>6, <1>7, <1>9, <2>1 DEF m, A
<1>10. CASE o /\ item # Broken /\ ~Accepts(item, vs)
  <2>1. ReadItem(A, item, vs) = [open |-> TRUE, keys |-> K]
    BY <1>2, <1>10 DEF ReadItem, Accepts
  <2> QED BY <1>6, <1>7, <1>10, <2>1 DEF m, A
<1> QED BY <1>8, <1>9, <1>10

\* ReadList returns the accepted contents in front of the first broken item.
LEMMA Fold ==
  ASSUME NEW list \in Seq(ListItem), NEW vs
  PROVE ReadList(list, vs) = After(list, vs, DOMAIN list).keys
<1> DEFINE S == DOMAIN list
           Turn(g, s) == IF s = {} THEN Begin ELSE ReadItem(g[s \ {Max(s)}], list[Max(s)], vs)
           F == [s \in SUBSET S |-> After(list, vs, s)]
           I == CHOOSE g : g = [s \in SUBSET S |-> Turn(g, s)]
<1>1. ReadList(list, vs) = I[S].keys
  BY DEF ReadList, FoldLeft, MapThenFoldSet, Begin
<1>2. F = [s \in SUBSET S |-> Turn(F, s)]
  <2> SUFFICES ASSUME NEW s \in SUBSET S PROVE After(list, vs, s) = Turn(F, s)
    OBVIOUS
  <2>1. CASE s = {}
    BY <2>1 DEF After, Begin, Good
  <2>2. CASE s # {}
    BY <2>2, AfterOneMore
  <2> QED BY <2>1, <2>2
<1>3. I = [s \in SUBSET S |-> Turn(I, s)]
  <2> HIDE DEF F, Turn
  <2> QED BY <1>2
<1> DEFINE Wrong == {n \in Nat : n <= Len(list) /\ I[1..n] # After(list, vs, 1..n)}
<1>4. Wrong = {}
  <2> SUFFICES ASSUME Wrong # {} PROVE FALSE
    OBVIOUS
  <2>1. PICK n \in Wrong : \A m \in Wrong : n <= m
    BY LeastNatural
  <2>2. 1..n \in SUBSET S
    BY <2>1
  <2>3. I[1..n] = Turn(I, 1..n)
    <3> HIDE DEF Turn, I
    <3> QED BY <1>3, <2>2
  <2>4. n # 0
    <3>1. After(list, vs, {}) = Begin
      BY DEF After, Begin, Good
    <3>2. Turn(I, {}) = Begin
      OBVIOUS
    <3> QED BY <2>1, <2>3, <3>1, <3>2
  <2>5. 1..n # {} /\ Max(1..n) = n
    <3>1. n \in 1..n
      BY <2>4
    <3>2. Max(1..n) \in 1..n /\ \A y \in 1..n : y <= Max(1..n)
      BY <3>1, MaxOfPositions
    <3> QED BY <3>1, <3>2
  <2>6. (1..n) \ {n} = 1..(n - 1)
    BY <2>4
  <2>7. I[1..(n - 1)] = After(list, vs, 1..(n - 1))
    <3> HIDE DEF I
    <3>1. n - 1 \in Nat /\ n - 1 < n /\ n - 1 <= Len(list)
      BY <2>1, <2>4
    <3>2. n - 1 \notin Wrong
      BY <2>1, <3>1
    <3> QED BY <3>1, <3>2
  <2>8. After(list, vs, 1..n) = ReadItem(After(list, vs, 1..(n-1)), list[n], vs)
    BY <2>2, <2>5, <2>6, AfterOneMore
  <2> HIDE DEF I
  <2> QED BY <2>1, <2>3, <2>5, <2>6, <2>7, <2>8
<1>5. I[1..Len(list)] = After(list, vs, 1..Len(list))
  <2> HIDE DEF I
  <2> QED BY <1>4
<1> HIDE DEF I
<1> QED BY <1>1, <1>5

-----------------------------------------------------------------------------
\* Bytes: a number written and read, and where concatenation puts things.
LEMMA U16RoundTrip ==
  ASSUME NEW n \in Word
  PROVE  U16(n) \in Seq(Octet) /\ Len(U16(n)) = 2 /\ U16(n)[1] * 256 + U16(n)[2] = n
<1>1. n \div 256 \in Octet /\ n % 256 \in Octet /\ (n \div 256) * 256 + (n % 256) = n
  BY DEF Octet, Word
<1> QED BY <1>1 DEF U16

\* Octets as numbers, for the lemmas about sequences of numbers.
LEMMA SeqInNat ==
  ASSUME NEW d \in Seq(Octet)
  PROVE d \in Seq(Nat) /\ Len(d) \in Nat
<1>1. Octet \subseteq Nat
  BY DEF Octet
<1> QED BY <1>1, SeqMonotonic, LenProperties

\* Which element of a concatenation comes from which side.
LEMMA Concatenation ==
  ASSUME NEW a \in Seq(Nat), NEW b \in Seq(Nat)
  PROVE /\ a \o b \in Seq(Nat) /\ Len(a \o b) = Len(a) + Len(b)
        /\ \A i \in 1..Len(a) : (a \o b)[i] = a[i]
        /\ \A i \in 1..Len(b) : (a \o b)[Len(a) + i] = b[i]
<1>1. Len(a) \in Nat /\ Len(b) \in Nat
  BY LenProperties
<1>2. /\ a \o b \in Seq(Nat) /\ Len(a \o b) = Len(a) + Len(b)
      /\ \A i \in 1..Len(a) + Len(b) : (a \o b)[i] = IF i <= Len(a) THEN a[i] ELSE b[i - Len(a)]
  BY ConcatProperties
<1>3. ASSUME NEW i \in 1..Len(a) PROVE (a \o b)[i] = a[i]
  <2>1. i \in 1..Len(a) + Len(b) /\ i <= Len(a)
    BY <1>1
  <2> QED BY <1>2, <2>1
<1>4. ASSUME NEW i \in 1..Len(b) PROVE (a \o b)[Len(a) + i] = b[i]
  <2>1. Len(a) + i \in 1..Len(a) + Len(b) /\ ~(Len(a) + i <= Len(a)) /\ (Len(a) + i) - Len(a) = i
    BY <1>1
  <2> QED BY <1>2, <2>1
<1> QED BY <1>2, <1>3, <1>4

\* The layout of a configuration: version, length, contents.
LEMMA Cat ==
  ASSUME NEW u \in Seq(Nat), NEW l \in Seq(Nat), NEW d \in Seq(Nat), Len(u) = 2, Len(l) = 2
  PROVE /\ (u \o l) \o d \in Seq(Nat) /\ Len((u \o l) \o d) = 4 + Len(d)
        /\ \A i \in 1..2 : ((u \o l) \o d)[i] = u[i] /\ ((u \o l) \o d)[2 + i] = l[i]
        /\ \A k \in 1..Len(d) : ((u \o l) \o d)[4 + k] = d[k]
<1> DEFINE h == u \o l
<1>1. /\ h \in Seq(Nat) /\ Len(h) = 4 
      /\ \A i \in 1..2 : h[i] = u[i] /\ h[2 + i] = l[i]
  <2>1. /\ h \in Seq(Nat) /\ Len(h) = Len(u) + Len(l)
        /\ \A i \in 1..Len(u) : h[i] = u[i]
        /\ \A i \in 1..Len(l) : h[Len(u) + i] = l[i]
    BY Concatenation
  <2> HIDE DEF h
  <2> QED BY <2>1
<1> HIDE DEF h
<1>2. /\ h \o d \in Seq(Nat) /\ Len(h \o d) = Len(h) + Len(d)
      /\ \A i \in 1..Len(h) : (h \o d)[i] = h[i]
      /\ \A i \in 1..Len(d) : (h \o d)[Len(h) + i] = d[i]
  BY <1>1, Concatenation
<1> DEFINE b == h \o d
<1> HIDE DEF b
<1>3. \A i \in 1..2 : b[i] = u[i] /\ b[2 + i] = l[i]
  <2> SUFFICES ASSUME NEW i \in 1..2 PROVE b[i] = u[i] /\ b[2 + i] = l[i]
    OBVIOUS
  <2>1. i \in 1..Len(h) /\ 2 + i \in 1..Len(h)
    BY <1>1
  <2> QED BY <1>1, <1>2, <2>1 DEF b
<1>4. \A k \in 1..Len(d) : b[4 + k] = d[k]
  BY <1>1, <1>2 DEF b
<1> QED BY <1>1, <1>2, <1>3, <1>4 DEF h, b

\* The bytes of a configuration, and what the two reads find in them.
LEMMA ConfigBytesAre ==
  ASSUME NEW c \in WireConfig, Len(c.contents) \in Word
  PROVE  /\ ConfigBytes(c) \in Seq(Nat)
         /\ Len(c.contents) \in Nat
         /\ Len(ConfigBytes(c)) = 4 + Len(c.contents)
         /\ ReadU16(ConfigBytes(c), 1) = c.version
         /\ ReadU16(ConfigBytes(c), 3) = Len(c.contents)
         /\ \A k \in 1..Len(c.contents) : ConfigBytes(c)[4 + k] = c.contents[k]
<1> DEFINE u == U16(c.version)
           l == U16(Len(c.contents))
           d == c.contents
           b == (u \o l) \o d
<1>1. c.version \in Word /\ d \in Seq(Octet)
  BY DEF WireConfig
<1>2. d \in Seq(Nat) /\ Len(d) \in Word /\ Len(d) \in Nat
  BY <1>1, SeqInNat
<1>3. /\ u \in Seq(Nat) /\ Len(u) = 2 /\ u[1] * 256 + u[2] = c.version
      /\ l \in Seq(Nat) /\ Len(l) = 2 /\ l[1] * 256 + l[2] = Len(d)
  BY <1>1, <1>2, U16RoundTrip, SeqInNat
<1>4. ConfigBytes(c) = b
  BY DEF ConfigBytes
<1> HIDE DEF u, l, d
<1>5. /\ b \in Seq(Nat) /\ Len(b) = 4 + Len(d)
      /\ \A i \in 1..2 : b[i] = u[i] /\ b[2 + i] = l[i]
      /\ \A k \in 1..Len(d) : b[4 + k] = d[k]
  <2> HIDE DEF b
  <2> QED BY <1>2, <1>3, Cat DEF b
<1> HIDE DEF b
<1>6. b[1] = u[1] /\ b[2] = u[2] /\ b[3] = l[1] /\ b[4] = l[2]
  <2>1. 1 \in 1..2 /\ 2 \in 1..2
    OBVIOUS
  <2>2. b[1] = u[1] /\ b[2 + 1] = l[1] /\ b[2] = u[2] /\ b[2 + 2] = l[2]
    BY <1>5, <2>1
  <2> QED BY <2>2
<1>7. ReadU16(b, 1) = c.version /\ ReadU16(b, 3) = Len(d)
  BY <1>3, <1>6 DEF ReadU16
<1>8. d = c.contents
  BY DEF d
<1> QED BY <1>2, <1>4, <1>5, <1>7, <1>8

\* The bytes of the first i configurations of a source.
Prefix(s, i) == ConfigsBytes(SubSeq(s, 1, i))

\* SourceAssumption, about one source.
LEMMA SourceItems ==
  ASSUME NEW s \in Source
  PROVE  /\ Len(s) \in Nat /\ s \in Seq(WireConfig)
         /\ \A i \in 1..Len(s) : s[i] \in WireConfig /\ Len(s[i].contents) \in Word
BY SourceAssumption, LenProperties, ElementOfSeq

\* The bytes of the first i configurations, written one after the other.
LEMMA PrefixIs ==
  ASSUME NEW s \in Source, NEW i \in 0..Len(s)
  PROVE  Prefix(s, i) = FlattenSeq([j \in 1..i |-> ConfigBytes(s[j])])
<1>1. SubSeq(s, 1, i) \in Seq(WireConfig) /\ DOMAIN SubSeq(s, 1, i) = 1..i
      /\ \A j \in 1..i : SubSeq(s, 1, i)[j] = s[j]
  BY SourceItems
<1>2. [j \in DOMAIN SubSeq(s, 1, i) |-> ConfigBytes(SubSeq(s, 1, i)[j])]
        = [j \in 1..i |-> ConfigBytes(s[j])]
  BY <1>1
<1> QED BY <1>2 DEF Prefix, ConfigsBytes

\* The bytes of the first i configurations are those of the first i - 1, and more.
LEMMA PrefixGrows ==
  ASSUME NEW s \in Source
  PROVE  /\ Prefix(s, 0) = <<>>
         /\ Prefix(s, Len(s)) = ConfigsBytes(s)
         /\ \A i \in 1..Len(s) : Prefix(s, i) = Prefix(s, i - 1) \o ConfigBytes(s[i])
         /\ \A i \in 0..Len(s) : Prefix(s, i) \in Seq(Nat)
<1>0. Len(s) \in Nat
  BY SourceItems
<1>1. Prefix(s, 0) = <<>>
  <2> DEFINE Q == [j \in 1..0 |-> ConfigBytes(s[j])]
  <2>1. Q = <<>> /\ Len(Q) = 0
    OBVIOUS
  <2>2. 0 \in 0..Len(s)
    BY <1>0
  <2>3. Prefix(s, 0) = FlattenSeq(Q)
    BY <2>2, PrefixIs
  <2> HIDE DEF Q
  <2> QED BY <2>1, <2>3 DEF FlattenSeq
<1>2. Prefix(s, Len(s)) = ConfigsBytes(s)
  <2>1. SubSeq(s, 1, Len(s)) = s
    BY SourceItems, SubSeqFull
  <2> QED BY <2>1 DEF Prefix
<1>3. \A i \in 1..Len(s) : ConfigBytes(s[i]) \in Seq(Nat)
  BY SourceItems, ConfigBytesAre
<1>4. ASSUME NEW i \in 1..Len(s) PROVE Prefix(s, i) = Prefix(s, i - 1) \o ConfigBytes(s[i])
  <2> DEFINE q == [j \in 1..i |-> ConfigBytes(s[j])]
             n == i - 1
  <2>1. n \in Nat /\ n + 1 = i /\ \A j \in 1..n + 1 : q[j] \in Seq(Nat)
    BY <1>3, <1>0
  <2>2. [j \in 1..n + 1 |-> q[j]] = [j \in 1..i |-> ConfigBytes(s[j])]
    BY <2>1
  <2>3. [j \in 1..n |-> q[j]] = [j \in 1..i - 1 |-> ConfigBytes(s[j])]
    BY <2>1
  <2>4. FlattenSeq([j \in 1..n + 1 |-> q[j]]) = FlattenSeq([j \in 1..n |-> q[j]]) \o q[n + 1]
    <3> HIDE DEF q, n
    <3> QED BY <2>1, FlattenAppend
  <2>5. q[n + 1] = ConfigBytes(s[i])
    BY <2>1
  <2>6. Prefix(s, i) = FlattenSeq([j \in 1..i |-> ConfigBytes(s[j])])
        /\ Prefix(s, i - 1) = FlattenSeq([j \in 1..i - 1 |-> ConfigBytes(s[j])])
    <3>1. i \in 0..Len(s) /\ i - 1 \in 0..Len(s)
      BY <1>0
    <3> QED BY <3>1, PrefixIs
  <2> HIDE DEF q, n
  <2> QED BY <2>2, <2>3, <2>4, <2>5, <2>6
<1> DEFINE Wrong == {i \in Nat : i <= Len(s) /\ Prefix(s, i) \notin Seq(Nat)}
<1>5. Wrong = {}
  <2> SUFFICES ASSUME Wrong # {} PROVE FALSE
    OBVIOUS
  <2>1. PICK i \in Wrong : \A j \in Wrong : i <= j
    BY LeastNatural
  <2>2. i # 0
    <3>1. Prefix(s, 0) \in Seq(Nat)
      BY <1>1, EmptySeq
    <3> QED BY <2>1, <3>1
  <2>3. i \in 1..Len(s) /\ i - 1 \in Nat /\ ~(i <= i - 1) /\ i - 1 <= Len(s)
    BY <2>1, <2>2, <1>0
  <2>4. Prefix(s, i - 1) \in Seq(Nat)
    BY <2>1, <2>3
  <2>5. Prefix(s, i) \in Seq(Nat)
    BY <1>3, <1>4, <2>3, <2>4, Concatenation
  <2> QED BY <2>1, <2>5
<1>6. \A i \in 0..Len(s) : Prefix(s, i) \in Seq(Nat)
  BY <1>0, <1>5
<1> QED BY <1>1, <1>2, <1>4, <1>6

\* One configuration more: its bytes follow those before.
LEMMA PrefixStep ==
  ASSUME NEW s \in Source, NEW i \in 1..Len(s)
  PROVE  /\ Len(Prefix(s, i - 1)) \in Nat
         /\ Len(Prefix(s, i)) = Len(Prefix(s, i - 1)) + (4 + Len(s[i].contents))
         /\ Len(s[i].contents) \in Nat
         /\ \A p \in 1..Len(Prefix(s, i - 1)) : Prefix(s, i)[p] = Prefix(s, i - 1)[p]
         /\ \A p \in 1..4 + Len(s[i].contents) :
              Prefix(s, i)[Len(Prefix(s, i - 1)) + p] = ConfigBytes(s[i])[p]
<1>1. i - 1 \in 0..Len(s)
  BY SourceItems
<1>2. Prefix(s, i - 1) \in Seq(Nat) /\ Prefix(s, i) = Prefix(s, i - 1) \o ConfigBytes(s[i])
  BY <1>1, PrefixGrows
<1>3. /\ ConfigBytes(s[i]) \in Seq(Nat) /\ Len(s[i].contents) \in Nat
      /\ Len(ConfigBytes(s[i])) = 4 + Len(s[i].contents)
  BY SourceItems, ConfigBytesAre
<1>4. Len(Prefix(s, i - 1)) \in Nat
  BY <1>2, LenProperties
<1> DEFINE a == Prefix(s, i - 1)
           b == ConfigBytes(s[i])
<1>5. /\ Len(a \o b) = Len(a) + Len(b)
      /\ \A p \in 1..Len(a) : (a \o b)[p] = a[p]
      /\ \A p \in 1..Len(b) : (a \o b)[Len(a) + p] = b[p]
  <2> HIDE DEF a, b
  <2> QED BY <1>2, <1>3, Concatenation DEF a, b
<1> QED BY <1>2, <1>3, <1>4, <1>5

\* Every prefix begins the later ones, and each is longer than the one before.
LEMMA PrefixBegins ==
  ASSUME NEW s \in Source, NEW i \in 0..Len(s), NEW j \in 0..Len(s), i <= j
  PROVE  /\ Len(Prefix(s, i)) <= Len(Prefix(s, j))
         /\ i < j => Len(Prefix(s, i)) < Len(Prefix(s, j))
         /\ \A p \in 1..Len(Prefix(s, i)) : Prefix(s, j)[p] = Prefix(s, i)[p]
<1> DEFINE P(k) == Prefix(s, k)
           L(k) == Len(P(k))
           OK(k) == /\ L(i) <= L(k)
                    /\ i < k => L(i) < L(k)
                    /\ \A p \in 1..L(i) : P(k)[p] = P(i)[p]
           Wrong == {k \in Nat : i <= k /\ k <= Len(s) /\ ~OK(k)}
<1>0. Len(s) \in Nat /\ i \in Nat /\ j \in Nat
  BY SourceItems
<1>1. \A k \in 0..Len(s) : L(k) \in Nat
  BY PrefixGrows, LenProperties
<1>2. \A k \in 1..Len(s) :
        L(k) >= L(k - 1) + 4 /\ \A p \in 1..L(k - 1) : P(k)[p] = P(k - 1)[p]
  <2> SUFFICES ASSUME NEW k \in 1..Len(s)
               PROVE  L(k) >= L(k - 1) + 4 /\ \A p \in 1..L(k - 1) : P(k)[p] = P(k - 1)[p]
    OBVIOUS
  <2>1. /\ L(k - 1) \in Nat /\ Len(s[k].contents) \in Nat
        /\ L(k) = L(k - 1) + (4 + Len(s[k].contents))
        /\ \A p \in 1..L(k - 1) : P(k)[p] = P(k - 1)[p]
    BY PrefixStep
  <2> HIDE DEF P, L
  <2> QED BY <2>1
<1> HIDE DEF P, L
<1>3. Wrong = {}
  <2> SUFFICES ASSUME Wrong # {} PROVE FALSE
    OBVIOUS
  <2>1. PICK k \in Wrong : \A l \in Wrong : k <= l
    BY LeastNatural
  <2>2. k # i
    <3>1. OK(i)
      BY <1>0, <1>1
    <3> QED BY <2>1, <3>1
  <2>3. /\ k \in 1..Len(s) /\ k - 1 \in 0..Len(s) /\ k - 1 \in Nat
        /\ i <= k - 1 /\ ~(k <= k - 1) /\ k - 1 <= Len(s)
    BY <1>0, <2>1, <2>2
  <2>4. OK(k - 1)
    BY <2>1, <2>3
  <2>5. OK(k)
    <3>1. L(k) >= L(k - 1) + 4 /\ L(k) \in Nat /\ L(k - 1) \in Nat /\ L(i) \in Nat
      BY <1>0, <1>1, <1>2, <2>3
    <3>2. \A p \in 1..L(i) : p \in 1..L(k - 1)
      BY <2>4, <3>1
    <3>3. \A p \in 1..L(i) : P(k)[p] = P(i)[p]
      BY <1>2, <2>3, <2>4, <3>2
    <3> QED BY <2>4, <3>1, <3>3
  <2> QED BY <2>1, <2>5
<1>4. OK(j)
  BY <1>0, <1>3
<1> QED BY <1>4 DEF P, L

-----------------------------------------------------------------------------
\* What is left of bytes from the i-th on, when the first j have arrived.
LEMMA Window ==
  ASSUME NEW b \in Seq(Nat), NEW i \in Nat, NEW j \in Nat, i <= j, j <= Len(b)
  PROVE  /\ SubSeq(b, i + 1, j) \in Seq(Nat)
         /\ Len(SubSeq(b, i + 1, j)) = j - i
         /\ \A p \in 1..j - i : SubSeq(b, i + 1, j)[p] = b[i + p]
<1>1. Len(b) \in Nat
  BY LenProperties
<1>2. \A k \in i + 1..j : b[k] \in Nat
  BY <1>1, ElementOfSeq
<1>3. /\ SubSeq(b, i + 1, j) \in Seq(Nat)
      /\ Len(SubSeq(b, i + 1, j)) = IF i + 1 <= j THEN j - (i + 1) + 1 ELSE 0
      /\ \A p \in 1..j - (i + 1) + 1 : SubSeq(b, i + 1, j)[p] = b[(i + 1) + p - 1]
  BY <1>2, SubSeqProperties
<1>4. j - (i + 1) + 1 = j - i /\ \A p \in 1..j - i : (i + 1) + p - 1 = i + p
  OBVIOUS
<1>5. i + 1 <= j \/ i = j
  OBVIOUS
<1>6. Len(SubSeq(b, i + 1, j)) = j - i
  BY <1>3, <1>4, <1>5
<1> QED BY <1>3, <1>4, <1>6

\* A window of a window.
LEMMA WindowInWindow ==
  ASSUME NEW b \in Seq(Nat), NEW i \in Nat, NEW j \in Nat, i <= j, j <= Len(b),
         NEW p \in Nat, NEW q \in Nat, p <= q, q <= j - i
  PROVE  SubSeq(SubSeq(b, i + 1, j), p + 1, q) = SubSeq(b, (i + p) + 1, i + q)
<1> DEFINE w == SubSeq(b, i + 1, j)
           u == SubSeq(w, p + 1, q)
           v == SubSeq(b, (i + p) + 1, i + q)
<1>0. Len(b) \in Nat
  BY LenProperties
<1>1. w \in Seq(Nat) /\ Len(w) = j - i /\ \A k \in 1..j - i : w[k] = b[i + k]
  BY Window
<1> HIDE DEF w
<1>2. u \in Seq(Nat) /\ Len(u) = q - p /\ \A k \in 1..q - p : u[k] = w[p + k]
  BY <1>1, Window
<1>3. i + p \in Nat /\ i + q \in Nat /\ i + p <= i + q /\ i + q <= Len(b)
      /\ (i + q) - (i + p) = q - p
  BY <1>0
<1>4. v \in Seq(Nat) /\ Len(v) = (i + q) - (i + p)
      /\ \A k \in 1..(i + q) - (i + p) : v[k] = b[(i + p) + k]
  BY <1>3, Window
<1> HIDE DEF u, v
<1>5. \A k \in 1..Len(u) : u[k] = v[k]
  <2> SUFFICES ASSUME NEW k \in 1..q - p PROVE u[k] = v[k]
    BY <1>2
  <2>1. p + k \in 1..j - i /\ i + (p + k) = (i + p) + k
    OBVIOUS
  <2> QED BY <1>1, <1>2, <1>3, <1>4, <2>1
<1>6. Len(u) = Len(v)
  BY <1>2, <1>3, <1>4
<1>7. u = v
  BY <1>2, <1>4, <1>5, <1>6, SeqEqual
<1> QED BY <1>7 DEF u, v, w

\* A window in which x stands is x.
LEMMA WindowIs ==
  ASSUME NEW b \in Seq(Nat), NEW i \in Nat, NEW x \in Seq(Nat), i + Len(x) <= Len(b),
         \A p \in 1..Len(x) : b[i + p] = x[p]
  PROVE  SubSeq(b, i + 1, i + Len(x)) = x
<1> DEFINE j == i + Len(x)
           w == SubSeq(b, i + 1, j)
<1>1. Len(x) \in Nat /\ j \in Nat /\ i <= j /\ j - i = Len(x)
  BY LenProperties
<1>2. w \in Seq(Nat) /\ Len(w) = j - i /\ \A p \in 1..j - i : w[p] = b[i + p]
  BY <1>1, Window
<1> HIDE DEF w, j
<1>3. w = x
  BY <1>1, <1>2, SeqEqual
<1> QED BY <1>3 DEF w, j

(***************************************************************************)
(* A turn of the loop at the end of the i-th configuration of a source of  *)
(* which k bytes have arrived.                                             *)
(***************************************************************************)
Left(s, i, k) == SubSeq(ConfigsBytes(s), Len(Prefix(s, i)) + 1, k)

\* Where it stands in the bytes, and how much it is.
LEMMA LeftIs ==
  ASSUME NEW s \in Source, NEW i \in 0..Len(s), NEW k \in 0..Len(ConfigsBytes(s)),
         Len(Prefix(s, i)) <= k
  PROVE  /\ ConfigsBytes(s) \in Seq(Nat) /\ k \in Nat
         /\ Len(Prefix(s, i)) \in Nat
         /\ Left(s, i, k) \in Seq(Nat)
         /\ Len(Left(s, i, k)) = k - Len(Prefix(s, i))
         /\ i = Len(s) => k = Len(Prefix(s, i))
         /\ \A p \in 1..k - Len(Prefix(s, i)) :
               Left(s, i, k)[p] = ConfigsBytes(s)[Len(Prefix(s, i)) + p]
<1>0. Len(s) \in Nat /\ Len(s) \in 0..Len(s)
  BY SourceItems
<1>1. ConfigsBytes(s) \in Seq(Nat) /\ Prefix(s, i) \in Seq(Nat) /\ ConfigsBytes(s) = Prefix(s, Len(s))
  BY <1>0, PrefixGrows
<1>2. Len(ConfigsBytes(s)) \in Nat /\ Len(Prefix(s, i)) \in Nat
  BY <1>1, LenProperties
<1>3. k \in Nat /\ k <= Len(ConfigsBytes(s))
  BY <1>2
<1>4. i = Len(s) => k = Len(Prefix(s, i))
  BY <1>1, <1>2, <1>3
<1> QED BY <1>1, <1>2, <1>3, <1>4, Window DEF Left

\* Such a turn reads the next configuration when it has arrived whole.
LEMMA TurnReads ==
  ASSUME NEW s \in Source, NEW i \in 1..Len(s), NEW k \in 0..Len(ConfigsBytes(s)),
         Len(Prefix(s, i - 1)) + 4 <= k
  PROVE  /\ ReadU16(Left(s, i - 1, k), 1) = s[i].version
         /\ ReadU16(Left(s, i - 1, k), 3) = Len(s[i].contents)
         /\ Len(Prefix(s, i)) <= k =>
              LET length == Len(s[i].contents) IN
              /\ SubSeq(Left(s, i - 1, k), 5, 4 + length) = s[i].contents
              /\ SubSeq(Left(s, i - 1, k), 5 + length, Len(Left(s, i - 1, k))) = Left(s, i, k)
<1> DEFINE all == ConfigsBytes(s)
           e == Len(Prefix(s, i - 1))
           f == Len(Prefix(s, i))
           d == s[i].contents
           c == ConfigBytes(s[i])
           w == Left(s, i - 1, k)
<1>0. Len(s) \in Nat /\ i \in 0..Len(s) /\ i - 1 \in 0..Len(s) /\ Len(s) \in 0..Len(s) /\ i <= Len(s)
  BY SourceItems
<1>1. /\ e \in Nat /\ Len(d) \in Nat /\ f = e + (4 + Len(d))
      /\ \A p \in 1..4 + Len(d) : Prefix(s, i)[e + p] = c[p]
  BY PrefixStep
<1>2. \A p \in 1..f : all[p] = Prefix(s, i)[p]
  BY <1>0, PrefixBegins, PrefixGrows
<1>3. d \in Seq(Nat) /\ ReadU16(c, 1) = s[i].version /\ ReadU16(c, 3) = Len(d)
      /\ \A p \in 1..Len(d) : c[4 + p] = d[p]
  <2>1. s[i] \in WireConfig /\ Len(s[i].contents) \in Word
    BY SourceItems
  <2>2. d \in Seq(Octet)
    BY <2>1 DEF WireConfig
  <2> QED BY <2>1, <2>2, ConfigBytesAre, SeqInNat
<1>4. f <= Len(all) /\ Len(all) \in Nat /\ all \in Seq(Nat)
  <2>1. Len(Prefix(s, i)) <= Len(Prefix(s, Len(s)))
    BY <1>0, PrefixBegins
  <2>2. all = Prefix(s, Len(s)) /\ all \in Seq(Nat)
    BY <1>0, PrefixGrows
  <2> QED BY <2>1, <2>2, LenProperties
<1>5. /\ k \in Nat /\ k <= Len(all) /\ e <= k
      /\ w \in Seq(Nat) /\ Len(w) = k - e /\ \A p \in 1..k - e : w[p] = all[e + p]
  <2>1. e <= k /\ k \in Nat /\ k <= Len(all)
    BY <1>1, <1>4
  <2> QED BY <1>0, <2>1, LeftIs
<1>6. w = SubSeq(all, e + 1, k) /\ Left(s, i, k) = SubSeq(all, f + 1, k)
  BY DEF Left
<1> HIDE DEF all, e, f, d, c, w
<1>7. \A p \in 1..4 + Len(d) : all[e + p] = c[p]
  BY <1>1, <1>2
<1>8. \A p \in 1..4 : w[p] = c[p]
  <2> SUFFICES ASSUME NEW p \in 1..4 PROVE w[p] = c[p]
    OBVIOUS
  <2>1. p \in 1..k - e /\ p \in 1..4 + Len(d)
    BY <1>1, <1>5 DEF e
  <2> QED BY <1>5, <1>7, <2>1
<1>9. ReadU16(w, 1) = s[i].version /\ ReadU16(w, 3) = Len(d)
  <2>1. w[1] = c[1] /\ w[1 + 1] = c[1 + 1] /\ w[3] = c[3] /\ w[3 + 1] = c[3 + 1]
    BY <1>8
  <2> QED BY <1>3, <2>1 DEF ReadU16
<1>10. ASSUME f <= k
       PROVE  /\ SubSeq(w, 5, 4 + Len(d)) = d
              /\ SubSeq(w, 5 + Len(d), Len(w)) = Left(s, i, k)
  <2> DEFINE p == 4
             q == 4 + Len(d)
             r == k - e
  <2>0. /\ p \in Nat /\ q \in Nat /\ r \in Nat /\ p <= q /\ q <= r /\ r <= k - e
        /\ q <= k - e /\ e \in Nat
    BY <1>1, <1>5, <1>10
  <2> HIDE DEF p, q, r
  <2>5. all \in Seq(Nat) /\ e \in Nat /\ k \in Nat /\ e <= k /\ k <= Len(all)
    BY <1>4, <1>5, <2>0
  <2>1. SubSeq(SubSeq(all, e + 1, k), p + 1, q) = SubSeq(all, (e + p) + 1, e + q)
    <3>1. p \in Nat /\ q \in Nat /\ p <= q /\ q <= k - e
      BY <2>0
    <3> QED BY ONLY <2>5, <3>1, WindowInWindow
  <2>2. SubSeq(all, (e + 4) + 1, (e + 4) + Len(d)) = d
    <3>1. e + 4 \in Nat /\ (e + 4) + Len(d) <= Len(all)
      BY <1>1, <1>4
    <3>2. \A x \in 1..Len(d) : all[(e + 4) + x] = d[x]
      <4> SUFFICES ASSUME NEW x \in 1..Len(d) PROVE all[(e + 4) + x] = d[x]
        OBVIOUS
      <4>1. 4 + x \in 1..4 + Len(d) /\ e + (4 + x) = (e + 4) + x
        BY <1>1
      <4> QED BY <1>3, <1>7, <4>1
    <3> QED BY <1>3, <1>4, <3>1, <3>2, WindowIs
  <2>3. SubSeq(SubSeq(all, e + 1, k), q + 1, r) = SubSeq(all, (e + q) + 1, e + r)
    <3>1. q \in Nat /\ r \in Nat /\ q <= r /\ r <= k - e
      BY <2>0
    <3> QED BY ONLY <2>5, <3>1, WindowInWindow
  <2>4. /\ p + 1 = 5 /\ e + p = e + 4 /\ e + q = (e + 4) + Len(d)
        /\ q + 1 = 5 + Len(d) /\ e + r = k /\ e + q = f /\ q = 4 + Len(d) /\ Len(w) = r
    BY <1>1, <1>5 DEF p, q, r
  <2> QED BY <1>1, <1>5, <1>6, <2>1, <2>2, <2>3, <2>4
<1> QED BY <1>5, <1>9, <1>10 DEF w, d, f

-----------------------------------------------------------------------------
\* What the loop has added when it has read the first i configurations.
Taken(s, vs, i) ==
    {s[j].contents : j \in {k \in 1..i : Version(s[k].version) \in vs /\ s[k].contents \in Key}}

\* Over a bare list the loop stands at the end of the i-th configuration.
Bare ==
    framing = "bare" =>
      \E i \in 0..Len(source) :
        /\ Len(Prefix(source, i)) <= cut
        /\ cbs = Left(source, i, cut)
        /\ keys = Taken(source, versions, i)
        /\ loop = "end" => Len(Prefix(source, i)) = cut
        /\ loop = "broken" => /\ Len(Prefix(source, i)) < cut
                              /\ i < Len(source) /\ cut < Len(Prefix(source, i + 1))

\* Over one in the documented framing it does not leave the beginning, unless
\* that list is longer than the number its first version is.
Outer ==
    framing = "outer" /\ source # <<>> /\ Len(ConfigsBytes(source)) <= source[1].version =>
        cbs = SubSeq(ListBytes(source, framing), 1, cut) /\ keys = {}

WireInv ==
    /\ source \in Source
    /\ framing \in {"bare", "outer"}
    /\ loop \in {"reading", "broken", "end"}
    /\ cut \in 0..Len(ListBytes(source, framing))
    /\ Bare /\ Outer

\* Init and the steps.
LEMMA WireInvInit == WireInit => WireInv
<1> SUFFICES ASSUME WireInit PROVE WireInv
  OBVIOUS
<1>1. /\ source \in Source /\ framing \in {"bare", "outer"}
      /\ cut \in 0..Len(ListBytes(source, framing))
      /\ cbs = SubSeq(ListBytes(source, framing), 1, cut)
      /\ keys = {} /\ loop = "reading"
  BY DEF WireInit
<1>2. Bare
  <2> SUFFICES ASSUME framing = "bare"
               PROVE  /\ Len(Prefix(source, 0)) <= cut
                      /\ cbs = Left(source, 0, cut)
                      /\ keys = Taken(source, versions, 0)
    <3>1. 0 \in 0..Len(source)
      BY <1>1, SourceItems
    <3> QED BY <1>1, <3>1 DEF Bare
  <2>1. ListBytes(source, framing) = ConfigsBytes(source)
    BY DEF ListBytes
  <2>2. Prefix(source, 0) = <<>> /\ Len(Prefix(source, 0)) = 0
    BY <1>1, PrefixGrows
  <2>3. ConfigsBytes(source) \in Seq(Nat) /\ Len(ConfigsBytes(source)) \in Nat
    <3>1. Len(source) \in 0..Len(source)
      BY <1>1, SourceItems
    <3> QED BY <1>1, <3>1, PrefixGrows, LenProperties
  <2>4. Taken(source, versions, 0) = {}
    BY DEF Taken
  <2> QED BY <1>1, <2>1, <2>2, <2>3, <2>4 DEF Left
<1> QED BY <1>1, <1>2 DEF WireInv, Outer

\* A turn finds whole exactly those configurations that arrived whole.
LEMMA WholeIs ==
  ASSUME NEW s \in Source, NEW i \in 0..Len(s), NEW k \in 0..Len(ConfigsBytes(s)),
         Len(Prefix(s, i)) <= k
  PROVE  Whole(Left(s, i, k)) <=> i < Len(s) /\ Len(Prefix(s, i + 1)) <= k
<1>0. Len(s) \in Nat
  BY SourceItems
<1>1. /\ k \in Nat /\ Len(Prefix(s, i)) \in Nat
      /\ Len(Left(s, i, k)) = k - Len(Prefix(s, i))
      /\ i = Len(s) => k = Len(Prefix(s, i))
  BY LeftIs
<1>2. CASE i = Len(s)
  BY <1>0, <1>1, <1>2 DEF Whole
<1>3. CASE i # Len(s)
  <2>1. i + 1 \in 1..Len(s) /\ (i + 1) - 1 = i /\ i < Len(s)
    BY <1>0, <1>3
  <2> DEFINE j == i + 1
  <2>0. j \in 1..Len(s) /\ j - 1 = i
    BY <2>1
  <2> HIDE DEF j
  <2>5. /\ Len(Prefix(s, j)) = Len(Prefix(s, j - 1)) + (4 + Len(s[j].contents))
        /\ Len(s[j].contents) \in Nat
    BY <2>0, PrefixStep
  <2>2. /\ Len(Prefix(s, i + 1)) = Len(Prefix(s, i)) + (4 + Len(s[i + 1].contents))
        /\ Len(s[i + 1].contents) \in Nat
    BY <2>0, <2>5 DEF j
  <2>3. CASE Len(Prefix(s, i)) + 4 <= k
    <3>2. ReadU16(Left(s, j - 1, k), 3) = Len(s[j].contents)
      BY <2>0, <2>3, TurnReads
    <3>1. ReadU16(Left(s, i, k), 3) = Len(s[i + 1].contents)
      BY <2>0, <3>2 DEF j
    <3> QED BY <1>1, <2>1, <2>2, <2>3, <3>1 DEF Whole
  <2>4. CASE ~(Len(Prefix(s, i)) + 4 <= k)
    BY <1>1, <2>1, <2>2, <2>4 DEF Whole
  <2> QED BY <2>3, <2>4
<1> QED BY <1>2, <1>3

\* A list in its documented framing: what stands where the loop looks for the
\* length of the contents is the version of the first configuration.
LEMMA OuterNotWhole ==
  ASSUME NEW s \in Source, s # <<>>, Len(ConfigsBytes(s)) <= s[1].version,
         NEW k \in 0..Len(ListBytes(s, "outer"))
  PROVE  ~Whole(SubSeq(ListBytes(s, "outer"), 1, k))
<1> DEFINE all == ConfigsBytes(s)
           u == U16(Len(all))
           b == u \o all
           w == SubSeq(b, 1, k)
<1>0. Len(s) \in Nat /\ 1 \in 1..Len(s) /\ Len(s) \in 0..Len(s) /\ 1 \in 0..Len(s) /\ 1 <= Len(s)
  BY SourceItems, EmptySeq
<1>1. all \in Seq(Nat) /\ Len(all) \in Nat
  BY <1>0, PrefixGrows, LenProperties
<1>2. u \in Seq(Nat) /\ Len(u) = 2
  <2>1. Len(all) \div 256 \in Nat /\ Len(all) % 256 \in Nat
    BY <1>1
  <2> HIDE DEF all
  <2> QED BY <2>1 DEF U16
<1> DEFINE c == ConfigBytes(s[1])
<1>3. /\ ReadU16(c, 1) = s[1].version /\ Len(c) >= 4
      /\ \A p \in 1..Len(c) : all[p] = c[p]
      /\ Len(all) >= Len(c) /\ Len(c) \in Nat
  <2>1. s[1] \in WireConfig /\ Len(s[1].contents) \in Word
    BY <1>0, SourceItems
  <2>2. ReadU16(c, 1) = s[1].version /\ Len(c) = 4 + Len(s[1].contents) /\ Len(s[1].contents) \in Nat
        /\ c \in Seq(Nat)
    BY <2>1, ConfigBytesAre
  <2>3. Prefix(s, 1) = c
    <3>1. Prefix(s, 1) = Prefix(s, 1 - 1) \o c /\ Prefix(s, 0) = <<>>
      BY <1>0, PrefixGrows
    <3> QED BY <2>2, <3>1, ConcatEmptySeq
  <2>4. all = Prefix(s, Len(s))
    BY PrefixGrows
  <2>5. Len(Prefix(s, 1)) <= Len(all) /\ \A p \in 1..Len(Prefix(s, 1)) : all[p] = Prefix(s, 1)[p]
    BY <1>0, <2>4, PrefixBegins
  <2> HIDE DEF c, all
  <2> QED BY <2>2, <2>3, <2>5
<1>4. ListBytes(s, "outer") = b
  BY DEF ListBytes
<1> HIDE DEF all, u, c
<1>5. /\ b \in Seq(Nat) /\ Len(b) = 2 + Len(all)
      /\ \A i \in 1..Len(all) : b[2 + i] = all[i]
  <2>1. /\ u \o all \in Seq(Nat) /\ Len(u \o all) = Len(u) + Len(all)
        /\ \A i \in 1..Len(all) : (u \o all)[Len(u) + i] = all[i]
    BY <1>1, <1>2, Concatenation
  <2> QED BY <1>2, <2>1
<1> HIDE DEF b
<1>6. k \in Nat /\ k <= Len(b) /\ Len(b) \in Nat
  BY <1>1, <1>4, <1>5
<1>7. Len(w) = k /\ \A p \in 1..k : w[p] = b[p]
  <2>1. w \in Seq(Nat) /\ Len(w) = k - 0 /\ \A p \in 1..k - 0 : w[p] = b[0 + p]
    <3>1. 0 \in Nat /\ 0 <= k
      BY <1>6
    <3>2. w = SubSeq(b, 0 + 1, k)
      OBVIOUS
    <3> HIDE DEF w
    <3> QED BY <1>5, <1>6, <3>1, <3>2, Window
  <2> HIDE DEF w
  <2> QED BY <1>6, <2>1
<1> HIDE DEF w
<1>8. ASSUME k >= 4 PROVE ReadU16(w, 3) = s[1].version
  <2>1. 3 \in 1..k /\ 4 \in 1..k /\ 1 \in 1..Len(all) /\ 2 \in 1..Len(all)
        /\ 1 \in 1..Len(c) /\ 2 \in 1..Len(c)
    BY <1>1, <1>3, <1>6, <1>8
  <2>2. w[3] = b[3] /\ w[4] = b[4] /\ b[2 + 1] = all[1] /\ b[2 + 2] = all[2]
        /\ all[1] = c[1] /\ all[2] = c[2]
    BY <1>3, <1>5, <1>7, <2>1
  <2>3. w[3] = c[1] /\ w[3 + 1] = c[1 + 1]
    BY <2>2
  <2> QED BY <1>3, <2>3 DEF ReadU16
<1>9. ~Whole(w)
  <2> SUFFICES ASSUME Whole(w) PROVE FALSE
    OBVIOUS
  <2>1. k >= 4 /\ k >= 4 + ReadU16(w, 3)
    BY <1>7 DEF Whole
  <2>2. k >= 4 + s[1].version
    BY <1>8, <2>1
  <2>3. k <= 2 + Len(all) /\ Len(all) <= s[1].version
    BY <1>5, <1>6 DEF all
  <2>4. s[1].version \in Int
    <3>1. s[1] \in WireConfig
      BY <1>0, SourceItems
    <3>2. s[1].version \in Word
      BY <3>1 DEF WireConfig
    <3>3. Word \subseteq Int
      BY DEF Word
    <3> QED BY <3>2, <3>3
  <2> QED BY <1>1, <1>6, <2>2, <2>3, <2>4
<1> QED BY <1>4, <1>9 DEF w

-----------------------------------------------------------------------------
\* Reading the configuration after the first i adds it or skips it.
LEMMA TakenGrows ==
  ASSUME NEW s \in Source, NEW vs, NEW j \in 1..Len(s)
  PROVE  Taken(s, vs, j) =
           IF Version(s[j].version) \in vs /\ s[j].contents \in Key
             THEN Taken(s, vs, j - 1) \cup {s[j].contents} ELSE Taken(s, vs, j - 1)
<1> DEFINE Ok(k) == Version(s[k].version) \in vs /\ s[k].contents \in Key
           T(m) == {k \in 1..m : Ok(k)}
<1>1. 1..j = (1..j - 1) \cup {j}
  BY SourceItems
<1>2. \A m : Taken(s, vs, m) = {s[k].contents : k \in T(m)}
  BY DEF Taken
<1> HIDE DEF Ok
<1>3. T(j) = IF Ok(j) THEN T(j - 1) \cup {j} ELSE T(j - 1)
  BY <1>1
<1> HIDE DEF T
<1>4. Taken(s, vs, j) = IF Ok(j) THEN Taken(s, vs, j - 1) \cup {s[j].contents}
                        ELSE Taken(s, vs, j - 1)
  <2>1. Taken(s, vs, j) = {s[k].contents : k \in T(j)}
        /\ Taken(s, vs, j - 1) = {s[k].contents : k \in T(j - 1)}
    BY <1>2
  <2>2. CASE Ok(j)
    <3>1. {s[k].contents : k \in T(j - 1) \cup {j}} =
            {s[k].contents : k \in T(j - 1)} \cup {s[j].contents}
      BY Zenon
    <3> QED BY <1>3, <2>1, <2>2, <3>1
  <2>3. CASE ~Ok(j)
    BY <1>3, <2>1, <2>3
  <2> QED BY <2>2, <2>3
<1> QED BY <1>4 DEF Ok

\* The steps of the loop, one by one: a turn that reads a configuration ...
LEMMA ReadConfigStep ==
  ASSUME WireInv, ReadConfig PROVE WireInv'
<1>0. /\ source \in Source /\ framing \in {"bare", "outer"} /\ cut \in 0..Len(ListBytes(source, framing))
      /\ Bare /\ Outer
  BY DEF WireInv
<1> DEFINE length == ReadU16(cbs, 3)
<1>1. /\ loop = "reading" /\ Whole(cbs)
      /\ keys' = Added(ReadU16(cbs, 1), SubSeq(cbs, 5, 4 + length))
      /\ cbs' = SubSeq(cbs, 5 + length, Len(cbs))
      /\ UNCHANGED <<source, framing, cut, versions, loop>>
  BY DEF ReadConfig
<1> HIDE DEF length
<1>2. Bare'
  <2> SUFFICES ASSUME framing = "bare"
               PROVE  \E j \in 0..Len(source) :
                        /\ Len(Prefix(source, j)) <= cut
                        /\ cbs' = Left(source, j, cut)
                        /\ keys' = Taken(source, versions, j)
    BY <1>1 DEF Bare
  <2>1. PICK i \in 0..Len(source) :
          /\ Len(Prefix(source, i)) <= cut
          /\ cbs = Left(source, i, cut) /\ keys = Taken(source, versions, i)
    BY <1>0 DEF Bare
  <2>2. cut \in 0..Len(ConfigsBytes(source))
    BY <1>0 DEF ListBytes
  <2>3. i < Len(source) /\ Len(Prefix(source, i + 1)) <= cut
    BY <1>0, <1>1, <2>1, <2>2, WholeIs
  <2> DEFINE j == i + 1
  <2>4. j \in 1..Len(source) /\ j \in 0..Len(source) /\ j - 1 = i /\ Len(Prefix(source, j)) <= cut
    BY <1>0, <2>1, <2>3, SourceItems
  <2> HIDE DEF j
  <2>5. Len(Prefix(source, j - 1)) + 4 <= cut
    <3>1. /\ Len(Prefix(source, j)) = Len(Prefix(source, j - 1)) + (4 + Len(source[j].contents))
          /\ Len(source[j].contents) \in Nat /\ Len(Prefix(source, j - 1)) \in Nat
      BY <1>0, <2>4, PrefixStep
    <3>2. cut \in Nat
      BY <2>2
    <3> QED BY <2>4, <3>1, <3>2
  <2>6. cbs = Left(source, j - 1, cut)
    BY <2>1, <2>4
  <2>7. /\ ReadU16(cbs, 1) = source[j].version
        /\ length = Len(source[j].contents)
        /\ SubSeq(cbs, 5, 4 + length) = source[j].contents
        /\ SubSeq(cbs, 5 + length, Len(cbs)) = Left(source, j, cut)
    BY <1>0, <2>2, <2>4, <2>5, <2>6, TurnReads DEF length
  <2>8. keys' = Taken(source, versions, j)
    <3>1. keys' = Added(source[j].version, source[j].contents)
      BY <1>1, <2>7
    <3>2. keys = Taken(source, versions, j - 1)
      BY <2>1, <2>4
    <3>3. Taken(source, versions, j) =
            IF Version(source[j].version) \in versions /\ source[j].contents \in Key
              THEN keys \cup {source[j].contents} ELSE keys
      BY <1>0, <2>4, <3>2, TakenGrows
    <3> QED BY <3>1, <3>3 DEF Added
  <2>9. cbs' = Left(source, j, cut)
    BY <1>1, <2>7
  <2> QED BY <2>4, <2>8, <2>9
<1>3. Outer'
  <2> SUFFICES ASSUME framing = "outer", source # <<>>,
                      Len(ConfigsBytes(source)) <= source[1].version
               PROVE  FALSE
    BY <1>1 DEF Outer
  <2>1. cbs = SubSeq(ListBytes(source, "outer"), 1, cut)
    BY <1>0 DEF Outer
  <2> QED BY <1>0, <1>1, <2>1, OuterNotWhole
<1> QED BY <1>0, <1>1, <1>2, <1>3 DEF WireInv

\* ... one that has met the cut ...
LEMMA BreakOffStep ==
  ASSUME WireInv, BreakOff PROVE WireInv'
<1>0. /\ source \in Source /\ framing \in {"bare", "outer"} /\ cut \in 0..Len(ListBytes(source, framing))
      /\ Bare /\ Outer
  BY DEF WireInv
<1>1. /\ cbs # <<>> /\ ~Whole(cbs) /\ loop' = "broken" /\ loop = "reading"
      /\ UNCHANGED <<source, framing, cut, versions, cbs, keys>>
  BY DEF BreakOff
<1>2. Bare'
  <2> SUFFICES ASSUME framing = "bare"
               PROVE  \E i \in 0..Len(source) :
                        /\ Len(Prefix(source, i)) < cut
                        /\ Len(Prefix(source, i)) <= cut
                        /\ cbs = Left(source, i, cut)
                        /\ keys = Taken(source, versions, i)
                        /\ i < Len(source) /\ cut < Len(Prefix(source, i + 1))
    BY <1>1 DEF Bare
  <2>1. PICK i \in 0..Len(source) :
          /\ Len(Prefix(source, i)) <= cut
          /\ cbs = Left(source, i, cut) /\ keys = Taken(source, versions, i)
    BY <1>0 DEF Bare
  <2>2. cut \in 0..Len(ConfigsBytes(source))
    BY <1>0 DEF ListBytes
  <2>3. ~(i < Len(source) /\ Len(Prefix(source, i + 1)) <= cut)
    BY <1>0, <1>1, <2>1, <2>2, WholeIs
  <2>4. /\ cut \in Nat /\ Len(Prefix(source, i)) \in Nat
        /\ cbs \in Seq(Nat) /\ Len(cbs) = cut - Len(Prefix(source, i))
        /\ i = Len(source) => cut = Len(Prefix(source, i))
    BY <1>0, <2>1, <2>2, LeftIs
  <2>5. Len(cbs) # 0
    BY <1>1, <2>4, EmptySeq
  <2>6. Len(Prefix(source, i)) < cut /\ i # Len(source)
    BY <2>1, <2>4, <2>5
  <2>7. i < Len(source) /\ i + 1 \in 0..Len(source)
    BY <1>0, <2>6, SourceItems
  <2>8. Len(Prefix(source, i + 1)) \in Nat
    BY <1>0, <2>7, PrefixGrows, LenProperties
  <2>9. cut < Len(Prefix(source, i + 1))
    BY <2>3, <2>4, <2>7, <2>8
  <2> QED BY <2>1, <2>6, <2>7, <2>9
<1> QED BY <1>0, <1>1, <1>2 DEF WireInv, Outer

\* ... and the end of the bytes.
LEMMA EndOfListStep ==
  ASSUME WireInv, EndOfList PROVE WireInv'
<1>0. /\ source \in Source /\ framing \in {"bare", "outer"} /\ cut \in 0..Len(ListBytes(source, framing))
      /\ Bare /\ Outer
  BY DEF WireInv
<1>1. /\ cbs = <<>> /\ loop' = "end" /\ loop = "reading"
      /\ UNCHANGED <<source, framing, cut, versions, cbs, keys>>
  BY DEF EndOfList
<1>2. Bare'
  <2> SUFFICES ASSUME framing = "bare"
               PROVE  \E i \in 0..Len(source) :
                        /\ Len(Prefix(source, i)) = cut
                        /\ Len(Prefix(source, i)) <= cut
                        /\ cbs = Left(source, i, cut)
                        /\ keys = Taken(source, versions, i)
    BY <1>1 DEF Bare
  <2>1. PICK i \in 0..Len(source) :
          /\ Len(Prefix(source, i)) <= cut
          /\ cbs = Left(source, i, cut) /\ keys = Taken(source, versions, i)
    BY <1>0 DEF Bare
  <2>2. cut \in 0..Len(ConfigsBytes(source))
    BY <1>0 DEF ListBytes
  <2>4. /\ cut \in Nat /\ Len(Prefix(source, i)) \in Nat
        /\ Len(cbs) = cut - Len(Prefix(source, i))
    BY <1>0, <2>1, <2>2, LeftIs
  <2>5. Len(cbs) = 0
    BY <1>1, EmptySeq
  <2> QED BY <2>1, <2>4, <2>5
<1> QED BY <1>0, <1>1, <1>2 DEF WireInv, Outer

LEMMA WireInvStep == WireInv /\ [WireNext]_wireVars => WireInv'
<1> SUFFICES ASSUME WireInv, [WireNext]_wireVars PROVE WireInv'
  OBVIOUS
<1>1. CASE UNCHANGED wireVars
  BY <1>1 DEF wireVars, WireInv, Bare, Outer
<1> QED BY <1>1, ReadConfigStep, BreakOffStep, EndOfListStep DEF WireNext

(***************************************************************************)
(* In every reachable state the loop stands at the end of a configuration  *)
(* and has added those before it; over a documented list it stands at the  *)
(* beginning.                                                              *)
(***************************************************************************)
THEOREM WireInvariant == WireSpec => []WireInv
BY WireInvInit, WireInvStep, PTL DEF WireSpec

-----------------------------------------------------------------------------
\* An item of ECHConfigList is accepted exactly when its configuration is.
LEMMA ItemIs ==
  ASSUME NEW c, NEW vs
  PROVE  /\ Item(c) \in ListItem /\ Item(c) # Broken
         /\ Accepts(Item(c), vs) <=> Version(c.version) \in vs /\ c.contents \in Key
         /\ c.contents \in Key => Item(c).contents = c.contents
<1>1. Version(c.version) \in AnyVersion
  BY DEF Version, AnyVersion
<1>2. Item(c).version = Version(c.version)
      /\ Item(c).contents = (IF c.contents \in Key THEN c.contents ELSE Garbage)
      /\ Item(c) \in [version : AnyVersion, contents : Key \cup {Garbage}]
  BY <1>1 DEF Item
<1>3. "broken" \notin AnyVersion
  BY DEF AnyVersion, Draft13, Draft12
<1>4. Item(c) # Broken
  BY <1>1, <1>2, <1>3 DEF Broken
<1>5. Accepts(Item(c), vs) <=> Version(c.version) \in vs /\ c.contents \in Key
  BY <1>2, GarbageAssumption DEF Accepts
<1> QED BY <1>2, <1>4, <1>5 DEF ListItem, ConfigItem

\* What the loop over items takes of the first n configurations, with or without
\* a broken item behind them.
LEMMA ItemsRead ==
  ASSUME NEW s \in Source, NEW vs, NEW n \in 0..Len(s),
         NEW tail \in {<<>>, <<Broken>>}
  PROVE  ReadList([i \in 1..n |-> Item(s[i])] \o tail, vs) = Taken(s, vs, n)
<1> DEFINE f == [i \in 1..n |-> Item(s[i])]
           list == f \o tail
<1>0. n \in Nat
  BY SourceItems
<1>1. f \in Seq(ListItem) /\ Len(f) = n /\ \A i \in 1..n : f[i] = Item(s[i])
  <2>1. \A i \in 1..n : Item(s[i]) \in ListItem
    BY ItemIs
  <2>2. f \in [1..n -> ListItem] /\ \A i \in 1..n : f[i] = Item(s[i])
    BY <2>1
  <2> HIDE DEF f
  <2>3. Len(f) = n /\ f \in Seq(ListItem)
    BY <1>0, <2>2
  <2> QED BY <2>2, <2>3
<1>2. tail \in Seq(ListItem) /\ Len(tail) \in Nat
      /\ \A i \in 1..Len(tail) : tail[i] = Broken
  <2>1. Broken \in ListItem
    BY DEF ListItem
  <2>2. tail = <<>> \/ tail = <<Broken>>
    OBVIOUS
  <2>3. CASE tail = <<>>
    BY <2>3
  <2>4. CASE tail = <<Broken>>
    BY <2>1, <2>4
  <2> QED BY <2>2, <2>3, <2>4
<1> HIDE DEF f
<1>3. /\ list \in Seq(ListItem) /\ Len(list) = n + Len(tail)
      /\ \A i \in 1..n + Len(tail) : list[i] = IF i <= n THEN f[i] ELSE tail[i - n]
  BY <1>0, <1>1, <1>2, ConcatProperties
<1> HIDE DEF list
<1>4. \A i \in 1..n : list[i] = Item(s[i])
  <2> SUFFICES ASSUME NEW i \in 1..n PROVE list[i] = Item(s[i])
    OBVIOUS
  <2>1. i \in 1..n + Len(tail) /\ i <= n
    BY <1>0, <1>2
  <2> QED BY <1>1, <1>3, <2>1
<1>5. \A i \in n + 1..n + Len(tail) : list[i] = Broken
  <2> SUFFICES ASSUME NEW i \in n + 1..n + Len(tail) PROVE list[i] = Broken
    OBVIOUS
  <2>1. i \in 1..n + Len(tail) /\ ~(i <= n) /\ i - n \in 1..Len(tail)
    BY <1>0, <1>2
  <2> QED BY <1>2, <1>3, <2>1
<1>6. DOMAIN list = 1..n + Len(tail)
  BY <1>3, LenProperties
<1> DEFINE Ok(i) == Version(s[i].version) \in vs /\ s[i].contents \in Key
<1>7. Good(list, vs, DOMAIN list) = {i \in 1..n : Ok(i)}
  <2>1. ASSUME NEW i \in 1..n
        PROVE  i \in DOMAIN list /\ (i \in Good(list, vs, DOMAIN list) <=> Ok(i))
    <3>1. i \in DOMAIN list
      BY <1>0, <1>2, <1>6
    <3>2. \A k \in DOMAIN list : k <= i => list[k] # Broken
      <4> SUFFICES ASSUME NEW k \in DOMAIN list, k <= i PROVE list[k] # Broken
        OBVIOUS
      <4>1. k \in 1..n
        BY <1>0, <1>2, <1>6
      <4> QED BY <1>4, <4>1, ItemIs
    <3>3. Accepts(list[i], vs) <=> Ok(i)
      BY <1>4, ItemIs
    <3> QED BY <3>1, <3>2, <3>3 DEF Good
  <2>2. ASSUME NEW i \in Good(list, vs, DOMAIN list) PROVE i \in 1..n
    <3>1. i \in DOMAIN list /\ list[i] # Broken
      <4>1. i \in DOMAIN list /\ \A k \in DOMAIN list : k <= i => list[k] # Broken
        BY DEF Good
      <4>2. i <= i
        BY <1>0, <1>2, <1>6, <4>1
      <4> QED BY <4>1, <4>2
    <3>2. i \notin n + 1..n + Len(tail)
      BY <1>5, <3>1
    <3> QED BY <1>0, <1>2, <1>6, <3>1, <3>2
  <2> HIDE DEF Ok
  <2> QED BY <2>1, <2>2
<1>8. After(list, vs, DOMAIN list).keys = {list[j].contents : j \in Good(list, vs, DOMAIN list)}
  BY DEF After
<1>9. \A j \in {i \in 1..n : Ok(i)} : list[j].contents = s[j].contents
  BY <1>4, ItemIs
<1>10. After(list, vs, DOMAIN list).keys = Taken(s, vs, n)
  <2> DEFINE G == {i \in 1..n : Ok(i)}
  <2>1. Taken(s, vs, n) = {s[j].contents : j \in G}
    BY DEF Taken
  <2> HIDE DEF G
  <2> QED BY <1>7, <1>8, <1>9, <2>1 DEF G
<1>11. ReadList(list, vs) = After(list, vs, DOMAIN list).keys
  BY <1>3, Fold
<1> QED BY <1>10, <1>11 DEF list, f

\* The items a list cut off after the i-th configuration, or in the next, holds.
LEMMA ItemsAre ==
  ASSUME NEW i \in 0..Len(source), source \in Source, cut \in 0..Len(ConfigsBytes(source)),
         \/ Len(Prefix(source, i)) = cut
         \/ /\ Len(Prefix(source, i)) < cut
            /\ i < Len(source) /\ cut < Len(Prefix(source, i + 1))
  PROVE  \E tail \in {<<>>, <<Broken>>} : Items = [j \in 1..i |-> Item(source[j])] \o tail
<1> DEFINE n == Len(source)
           L(j) == Len(Prefix(source, j))
           whole == {j \in DOMAIN source : EndOf(j) <= cut}
<1>0. n \in Nat /\ DOMAIN source = 1..n /\ cut \in Nat /\ i \in Nat /\ i <= n
  <2>1. Len(source) \in Nat /\ source \in Seq(WireConfig)
    BY SourceItems
  <2>2. Len(ConfigsBytes(source)) \in Nat
    BY <2>1, PrefixGrows, LenProperties
  <2> QED BY <2>1, <2>2, LenProperties
<1>1. \A j \in 0..n : L(j) \in Nat
  BY PrefixGrows, LenProperties
<1>2. \A j, k \in 0..n : j <= k => L(j) <= L(k)
  BY PrefixBegins
<1>3. \A j : EndOf(j) = L(j)
  BY DEF EndOf, Prefix
<1> HIDE DEF L
<1>4. L(i) <= cut /\ (i < n => cut < L(i + 1))
  <2>1. CASE L(i) = cut
    <3>1. ASSUME i < n PROVE L(i) < L(i + 1)
      <4>1. i + 1 \in 0..n /\ i <= i + 1 /\ i < i + 1
        BY <1>0, <3>1
      <4> QED BY <4>1, PrefixBegins DEF L
    <3> QED BY <2>1, <1>0, <3>1
  <2>2. CASE L(i) < cut /\ i < n /\ cut < L(i + 1)
    BY <1>0, <1>1, <2>2
  <2> QED BY <2>1, <2>2 DEF L
<1>5. whole = 1..i
  <2>1. ASSUME NEW j \in 1..n PROVE EndOf(j) <= cut <=> j <= i
    <3>1. j \in 0..n /\ L(j) \in Nat /\ L(i) \in Nat
      BY <1>0, <1>1
    <3>2. CASE j <= i
      BY <1>0, <1>2, <1>3, <1>4, <3>1, <3>2
    <3>3. CASE ~(j <= i)
      <4>1. i < n /\ i + 1 \in 0..n /\ i + 1 <= j
        BY <1>0, <3>3
      <4>2. L(i + 1) <= L(j) /\ L(i + 1) \in Nat
        BY <1>1, <1>2, <3>1, <4>1
      <4> QED BY <1>0, <1>3, <1>4, <3>1, <3>3, <4>1, <4>2
    <3> QED BY <3>2, <3>3
  <2> QED BY <1>0, <2>1
<1> HIDE DEF whole
<1> DEFINE tail == IF cut \in {EndOf(j) : j \in whole \cup {0}} THEN <<>> ELSE <<Broken>>
<1>6. Items = [j \in whole |-> Item(source[j])] \o tail
  BY DEF Items, whole
<1>7. tail \in {<<>>, <<Broken>>}
  OBVIOUS
<1> HIDE DEF tail
<1> QED BY <1>5, <1>6, <1>7

(***************************************************************************)
(* Whatever is cut off a bare list, the loop takes the configurations that *)
(* arrive whole.                                                           *)
(***************************************************************************)
THEOREM BytesAreItems == WireSpec => []BytesReadAsItems
<1>1. ASSUME WireInv PROVE BytesReadAsItems
  <2> SUFFICES ASSUME loop # "reading", framing = "bare"
               PROVE  keys = ReadList(Items, versions)
    BY DEF BytesReadAsItems
  <2>0. source \in Source /\ cut \in 0..Len(ConfigsBytes(source)) /\ loop \in {"broken", "end"}
    BY <1>1 DEF WireInv, ListBytes
  <2>1. PICK i \in 0..Len(source) :
          /\ Len(Prefix(source, i)) <= cut
          /\ keys = Taken(source, versions, i)
          /\ loop = "end" => Len(Prefix(source, i)) = cut
          /\ loop = "broken" => /\ Len(Prefix(source, i)) < cut
                                /\ i < Len(source) /\ cut < Len(Prefix(source, i + 1))
    BY <1>1 DEF WireInv, Bare
  <2>2. PICK tail \in {<<>>, <<Broken>>} : Items = [j \in 1..i |-> Item(source[j])] \o tail
    BY <2>0, <2>1, ItemsAre
  <2> QED BY <2>0, <2>1, <2>2, ItemsRead
<1> QED BY <1>1, WireInvariant, PTL

(***************************************************************************)
(* A list in its documented framing yields nothing, cut off or not, unless *)
(* it is longer than the number its first version is: the loop takes the   *)
(* outer length for a version and that version for a length.               *)
(***************************************************************************)
THEOREM DocumentedFormatYieldsNothing ==
    WireSpec => [](framing = "outer" /\ source # <<>>
                   /\ Len(ConfigsBytes(source)) <= source[1].version => keys = {})
<1>1. WireInv => (framing = "outer" /\ source # <<>>
                   /\ Len(ConfigsBytes(source)) <= source[1].version => keys = {})
  BY DEF WireInv, Outer
<1> QED BY <1>1, WireInvariant, PTL

-----------------------------------------------------------------------------
(***************************************************************************)
(* What the parser reads from the parameters at the positions in t, all of *)
(* them readable: lists are collected, and of a configuration and a port   *)
(* the latest counts.                                                      *)
(***************************************************************************)
Listed(ps, t, key) == UNION {ps[i].value : i \in {j \in t : ps[j].key = key}}

Latest(ps, at) == IF at = {} THEN {} ELSE ps[Max(at)].value

Ech(ps, t) == {i \in t : ps[i].key = "echconfig"}
Port(ps, t) == {i \in t : ps[i].key = "port" /\ ps[i].value # {}}

Collected(ps, t, alternative) ==
    [valid |-> FALSE,
     ech_config |-> Latest(ps, Ech(ps, t)),
     alpn |-> Listed(ps, t, "alpn"),
     ipv4_hints |-> Listed(ps, t, "ipv4hint"),
     ipv6_hints |-> Listed(ps, t, "ipv6hint"),
     port |-> Latest(ps, Port(ps, t)),
     mandatory_keys |-> Listed(ps, t, "mandatory"),
     alternative_service |-> alternative]

\* One parameter more behind the others.
LEMMA ListedMore ==
  ASSUME NEW ps, NEW t, NEW m, NEW key
  PROVE  Listed(ps, t \cup {m}, key) =
           IF ps[m].key = key THEN Listed(ps, t, key) \cup ps[m].value ELSE Listed(ps, t, key)
<1> DEFINE at == {j \in t : ps[j].key = key}
<1>1. CASE ps[m].key = key
  <2>1. {j \in t \cup {m} : ps[j].key = key} = at \cup {m}
    BY <1>1
  <2>2. UNION {ps[i].value : i \in at \cup {m}} = (UNION {ps[i].value : i \in at}) \cup ps[m].value
    <3> HIDE DEF at
    <3> QED OBVIOUS
  <2> QED BY <1>1, <2>1, <2>2 DEF Listed
<1>2. CASE ps[m].key # key
  <2>1. {j \in t \cup {m} : ps[j].key = key} = at
    BY <1>2
  <2> QED BY <1>2, <2>1 DEF Listed
<1> QED BY <1>1, <1>2

\* One more position, behind the others, is the latest.
LEMMA LatestMore ==
  ASSUME NEW ps, NEW n \in Nat, NEW at \in SUBSET (1..n), NEW m \in 1..n, \A i \in at : i < m
  PROVE  Latest(ps, at \cup {m}) = ps[m].value
<1>1. at \cup {m} \in SUBSET (1..n) /\ at \cup {m} # {}
  OBVIOUS
<1>2. Max(at \cup {m}) \in at \cup {m} /\ \A y \in at \cup {m} : y <= Max(at \cup {m})
  BY <1>1, MaxOfPositions
<1>3. m <= Max(at \cup {m})
  BY <1>2
<1>4. Max(at \cup {m}) = m
  <2> DEFINE x == Max(at \cup {m})
  <2> HIDE DEF x
  <2>1. x \in at \cup {m} /\ m <= x
    BY <1>2, <1>3 DEF x
  <2>2. x \in at => x \in 1..n /\ x < m
    OBVIOUS
  <2> QED BY <2>1, <2>2 DEF x
<1> QED BY <1>1, <1>4 DEF Latest

\* A turn of the switch adds one parameter to what is collected.
LEMMA OneParamMore ==
  ASSUME NEW n \in Nat, NEW ps \in [1..n -> Param], NEW t \in SUBSET (1..n), NEW m \in 1..n,
         \A i \in t : i < m, ps[m] # Truncated, NEW b
  PROVE  Collected(ps, t \cup {m}, b) = ParseOneParam(Collected(ps, t, b), ps[m])
<1> DEFINE c == Collected(ps, t, b)
           d == Collected(ps, t \cup {m}, b)
           v == ps[m].value
           k == ps[m].key
<1>1. k \in ParamKey
  BY DEF Param
<1>2. \A key : Listed(ps, t \cup {m}, key) =
                 IF k = key THEN Listed(ps, t, key) \cup v ELSE Listed(ps, t, key)
  BY ListedMore
<1>3. Latest(ps, Ech(ps, t \cup {m})) = IF k = "echconfig" THEN v ELSE Latest(ps, Ech(ps, t))
  <2>1. CASE k = "echconfig"
    <3>1. Ech(ps, t \cup {m}) = Ech(ps, t) \cup {m} /\ Ech(ps, t) \in SUBSET (1..n)
          /\ \A i \in Ech(ps, t) : i < m
      BY <2>1 DEF Ech
    <3> QED BY <2>1, <3>1, LatestMore
  <2>2. CASE k # "echconfig"
    <3>1. Ech(ps, t \cup {m}) = Ech(ps, t)
      BY <2>2 DEF Ech
    <3> QED BY <2>2, <3>1
  <2> QED BY <2>1, <2>2
<1>4. Latest(ps, Port(ps, t \cup {m})) =
        IF k = "port" /\ v # {} THEN v ELSE Latest(ps, Port(ps, t))
  <2>1. CASE k = "port" /\ v # {}
    <3>1. Port(ps, t \cup {m}) = Port(ps, t) \cup {m} /\ Port(ps, t) \in SUBSET (1..n)
          /\ \A i \in Port(ps, t) : i < m
      BY <2>1 DEF Port
    <3> QED BY <2>1, <3>1, LatestMore
  <2>2. CASE ~(k = "port" /\ v # {})
    <3>1. Port(ps, t \cup {m}) = Port(ps, t)
      BY <2>2 DEF Port
    <3> QED BY <2>2, <3>1
  <2> QED BY <2>1, <2>2
<1> HIDE DEF v, k
<1> DEFINE made(ech, alpn, v4, v6, port, mandatory) ==
              [valid |-> FALSE, ech_config |-> ech, alpn |-> alpn, ipv4_hints |-> v4,
               ipv6_hints |-> v6, port |-> port, mandatory_keys |-> mandatory,
               alternative_service |-> b]
           L(key) == Listed(ps, t, key)
           E == Latest(ps, Ech(ps, t))
           Q == Latest(ps, Port(ps, t))
<1>5. c = made(E, L("alpn"), L("ipv4hint"), L("ipv6hint"), Q, L("mandatory"))
  BY DEF Collected
<1>6. d = made(IF k = "echconfig" THEN v ELSE E,
               IF k = "alpn" THEN L("alpn") \cup v ELSE L("alpn"),
               IF k = "ipv4hint" THEN L("ipv4hint") \cup v ELSE L("ipv4hint"),
               IF k = "ipv6hint" THEN L("ipv6hint") \cup v ELSE L("ipv6hint"),
               IF k = "port" /\ v # {} THEN v ELSE Q,
               IF k = "mandatory" THEN L("mandatory") \cup v ELSE L("mandatory"))
  BY <1>2, <1>3, <1>4 DEF Collected
<1> HIDE DEF c, d, L, E, Q
<1>7. ParseOneParam(c, ps[m]) = d
  <2>1. CASE k = "mandatory"
    BY <1>5, <1>6, <2>1 DEF ParseOneParam, k, v
  <2>2. CASE k = "alpn"
    BY <1>5, <1>6, <2>2 DEF ParseOneParam, k, v
  <2>3. CASE k = "echconfig"
    BY <1>5, <1>6, <2>3 DEF ParseOneParam, k, v
  <2>4. CASE k = "ipv4hint"
    BY <1>5, <1>6, <2>4 DEF ParseOneParam, k, v
  <2>5. CASE k = "ipv6hint"
    BY <1>5, <1>6, <2>5 DEF ParseOneParam, k, v
  <2>6. CASE k = "port"
    BY <1>5, <1>6, <2>6 DEF ParseOneParam, k, v
  <2>7. CASE k = "unknown"
    BY <1>5, <1>6, <2>7 DEF ParseOneParam, k, v
  <2> QED BY <1>1, <2>1, <2>2, <2>3, <2>4, <2>5, <2>6, <2>7 DEF ParamKey
<1> QED BY <1>7 DEF c, d

-----------------------------------------------------------------------------
\* Of the positions in s those in front of the first parameter that cannot be read.
Reads(ps, s) == {i \in s : \A k \in s : k <= i => ps[k] # Truncated}

\* What the loop of the parser holds when it has been at the positions in s.
AfterParams(ps, s, b) ==
    [open |-> \A j \in s : ps[j] # Truncated, result |-> Collected(ps, Reads(ps, s), b)]

\* A turn of that loop.
ParamTurn(held, param) ==
    IF ~held.open \/ param = Truncated
      THEN [held EXCEPT !.open = FALSE]
      ELSE [held EXCEPT !.result = ParseOneParam(held.result, param)]

\* The closed form follows the loop turn by turn.
LEMMA AfterParamsOneMore ==
  ASSUME NEW n \in Nat, NEW ps \in [1..n -> Param], NEW s \in SUBSET (1..n), s # {}, NEW b
  PROVE  AfterParams(ps, s, b) = ParamTurn(AfterParams(ps, s \ {Max(s)}, b), ps[Max(s)])
<1> DEFINE m == Max(s)
           t == s \ {m}
           o == \A j \in t : ps[j] # Truncated
           A == AfterParams(ps, t, b)
           R == Collected(ps, Reads(ps, t), b)
<1>1. m \in s /\ \A y \in s : y <= m
  BY MaxOfPositions
<1> HIDE DEF m
<1>2. A = [open |-> o, result |-> R]
  BY DEF AfterParams
<1>3. (\A j \in s : ps[j] # Truncated) = (o /\ ps[m] # Truncated)
  BY <1>1
<1>4. Reads(ps, s) = IF o /\ ps[m] # Truncated THEN Reads(ps, t) \cup {m} ELSE Reads(ps, t)
  <2>1. m \in Reads(ps, s) <=> o /\ ps[m] # Truncated
    BY <1>1 DEF Reads
  <2>2. ASSUME NEW i \in t PROVE i \in Reads(ps, s) <=> i \in Reads(ps, t)
    <3>1. i \in s /\ ~(m <= i)
      BY <1>1
    <3>2. (\A k \in s : k <= i => ps[k] # Truncated) <=> (\A k \in t : k <= i => ps[k] # Truncated)
      BY <1>1, <3>1
    <3> QED BY <3>1, <3>2 DEF Reads
  <2>3. Reads(ps, s) \subseteq s /\ Reads(ps, t) \subseteq t /\ s = t \cup {m} /\ m \notin t
    BY <1>1 DEF Reads
  <2> DEFINE all == Reads(ps, s)
             before == Reads(ps, t)
             more == o /\ ps[m] # Truncated
  <2> HIDE DEF all, before, more, t
  <2>4. /\ m \in all <=> more
        /\ \A i \in t : i \in all <=> i \in before
        /\ all \subseteq t \cup {m} /\ before \subseteq t /\ m \notin t
    BY <2>1, <2>2, <2>3 DEF all, before, more
  <2>5. all = IF more THEN before \cup {m} ELSE before
    BY <2>4
  <2> QED BY <2>5 DEF all, before, more
<1>5. AfterParams(ps, s, b) = [open |-> o /\ ps[m] # Truncated,
                               result |-> Collected(ps, Reads(ps, s), b)]
  BY <1>3 DEF AfterParams
<1>6. Reads(ps, t) \in SUBSET (1..n) /\ m \in 1..n /\ \A i \in Reads(ps, t) : i < m
  <2>1. Reads(ps, t) \subseteq t
    BY DEF Reads
  <2>2. t \subseteq 1..n /\ m \in 1..n /\ \A i \in t : i <= m /\ i # m
    BY <1>1
  <2>3. \A i \in t : i < m
    <3> HIDE DEF t
    <3> QED BY <2>2
  <2> QED BY <2>1, <2>2, <2>3
<1> HIDE DEF A, R, o
<1>7. CASE o /\ ps[m] # Truncated
  <2> DEFINE q == Reads(ps, t)
  <2> HIDE DEF q
  <2>3. Collected(ps, q \cup {m}, b) = ParseOneParam(Collected(ps, q, b), ps[m])
    BY <1>6, <1>7, OneParamMore DEF q
  <2>1. Collected(ps, Reads(ps, s), b) = ParseOneParam(R, ps[m])
    BY <1>4, <1>7, <2>3 DEF R, q
  <2>2. ParamTurn(A, ps[m]) = [open |-> TRUE, result |-> ParseOneParam(R, ps[m])]
    BY <1>2, <1>7 DEF ParamTurn
  <2> QED BY <1>5, <1>7, <2>1, <2>2 DEF A, m
<1>8. CASE ~(o /\ ps[m] # Truncated)
  <2>1. ParamTurn(A, ps[m]) = [open |-> FALSE, result |-> R]
    BY <1>2, <1>8 DEF ParamTurn
  <2>2. Collected(ps, Reads(ps, s), b) = R
    BY <1>4, <1>8 DEF R
  <2> QED BY <1>5, <1>8, <2>1, <2>2 DEF A, m
<1> QED BY <1>7, <1>8

\* What ReadParams returns for a record.
LEMMA ParamsFold ==
  ASSUME NEW n \in Nat, NEW ps \in [1..n -> Param], NEW b
  PROVE  ReadParams([NoResult EXCEPT !.alternative_service = b], ps) =
           Collected(ps, Reads(ps, 1..n), b)
<1> DEFINE S == DOMAIN ps
           First == [open |-> TRUE, result |-> [NoResult EXCEPT !.alternative_service = b]]
           Turn(g, s) == IF s = {} THEN First ELSE ParamTurn(g[s \ {Max(s)}], ps[Max(s)])
           F == [s \in SUBSET S |-> AfterParams(ps, s, b)]
           I == CHOOSE g : g = [s \in SUBSET S |-> Turn(g, s)]
<1>0. S = 1..n
  OBVIOUS
<1>1. ReadParams([NoResult EXCEPT !.alternative_service = b], ps) = I[S].result
  BY DEF ReadParams, FoldLeft, MapThenFoldSet, ParamTurn
<1>2. AfterParams(ps, {}, b) = First
  <2>1. \A key : Listed(ps, {}, key) = {}
    BY DEF Listed
  <2>2. Latest(ps, Ech(ps, {})) = {} /\ Latest(ps, Port(ps, {})) = {} /\ Reads(ps, {}) = {}
    BY DEF Latest, Ech, Port, Reads
  <2>3. Collected(ps, {}, b) = [NoResult EXCEPT !.alternative_service = b]
    <3>1. /\ Listed(ps, {}, "alpn") = {} /\ Listed(ps, {}, "ipv4hint") = {}
          /\ Listed(ps, {}, "ipv6hint") = {} /\ Listed(ps, {}, "mandatory") = {}
      BY <2>1
    <3> DEFINE made(valid, none, alternative) ==
                 [valid |-> valid, ech_config |-> none, alpn |-> none, ipv4_hints |-> none,
                  ipv6_hints |-> none, port |-> none, mandatory_keys |-> none,
                  alternative_service |-> alternative]
    <3>2. Collected(ps, {}, b) = made(FALSE, {}, b)
      BY <2>2, <3>1 DEF Collected
    <3>3. NoResult = made(FALSE, {}, FALSE)
      BY DEF NoResult
    <3>4. ASSUME NEW x, NEW y, NEW z
          PROVE  [made(x, y, z) EXCEPT !.alternative_service = b] = made(x, y, b)
      OBVIOUS
    <3> HIDE DEF made
    <3> QED BY <3>2, <3>3, <3>4
  <2> QED BY <2>2, <2>3 DEF AfterParams
<1> HIDE DEF First
<1>3. F = [s \in SUBSET S |-> Turn(F, s)]
  <2> SUFFICES ASSUME NEW s \in SUBSET S PROVE AfterParams(ps, s, b) = Turn(F, s)
    OBVIOUS
  <2>1. CASE s = {}
    BY <1>2, <2>1
  <2>2. CASE s # {}
    BY <1>0, <2>2, AfterParamsOneMore
  <2> QED BY <2>1, <2>2
<1>4. I = [s \in SUBSET S |-> Turn(I, s)]
  <2> HIDE DEF F, Turn
  <2> QED BY <1>3
<1> DEFINE Wrong == {k \in Nat : k <= n /\ I[1..k] # AfterParams(ps, 1..k, b)}
<1>5. Wrong = {}
  <2> SUFFICES ASSUME Wrong # {} PROVE FALSE
    OBVIOUS
  <2>1. PICK k \in Wrong : \A l \in Wrong : k <= l
    BY LeastNatural
  <2>2. 1..k \in SUBSET S
    BY <1>0, <2>1
  <2>3. I[1..k] = Turn(I, 1..k)
    <3> HIDE DEF Turn, I
    <3> QED BY <1>4, <2>2
  <2>4. k # 0
    <3>1. Turn(I, {}) = First
      OBVIOUS
    <3> QED BY <1>2, <2>1, <2>3, <3>1
  <2>5. 1..k # {} /\ Max(1..k) = k
    <3>1. k \in 1..k
      BY <2>4
    <3>2. Max(1..k) \in 1..k /\ \A y \in 1..k : y <= Max(1..k)
      BY <3>1, MaxOfPositions
    <3> QED BY <3>1, <3>2
  <2>6. (1..k) \ {k} = 1..(k - 1)
    BY <2>4
  <2>7. I[1..(k - 1)] = AfterParams(ps, 1..(k - 1), b)
    <3> HIDE DEF I
    <3>1. k - 1 \in Nat /\ k - 1 < k /\ k - 1 <= n
      BY <2>1, <2>4
    <3>2. k - 1 \notin Wrong
      BY <2>1, <3>1
    <3> QED BY <3>1, <3>2
  <2>8. AfterParams(ps, 1..k, b) = ParamTurn(AfterParams(ps, 1..(k - 1), b), ps[k])
    BY <1>0, <2>2, <2>5, <2>6, AfterParamsOneMore
  <2> HIDE DEF I
  <2> QED BY <2>1, <2>3, <2>5, <2>6, <2>7, <2>8
<1>6. I[1..n] = AfterParams(ps, 1..n, b)
  <2> HIDE DEF I
  <2> QED BY <1>5
<1> HIDE DEF I
<1> QED BY <1>0, <1>1, <1>6 DEF AfterParams

-----------------------------------------------------------------------------
\* The positions the loop reads are those the format says can be read.
LEMMA ReadableIs ==
  ASSUME NEW n \in Nat, NEW ps \in [1..n -> Param]
  PROVE  Readable(ps) = Reads(ps, 1..n)
<1>1. ASSUME NEW i \in 1..n
      PROVE  (\A j \in 1..i : ps[j] # Truncated) <=>
             (\A k \in 1..n : k <= i => ps[k] # Truncated)
  <2>1. \A k : k \in 1..i <=> k \in 1..n /\ k <= i
    OBVIOUS
  <2> QED BY <2>1
<1>2. DOMAIN ps = 1..n
  OBVIOUS
<1> QED BY <1>1, <1>2 DEF Readable, Reads

\* A parameter's value is a set of atoms.
LEMMA ValuesAre ==
  ASSUME NEW p \in Param
  PROVE  p.value \in SUBSET Atom
BY DEF Param, Truncated

\* What Parse returns, as the format says it.
LEMMA ParseIs ==
  ASSUME NEW n \in Nat, NEW r, r.params \in [1..n -> Param],
         r.priority = "service", r.target # "short"
  PROVE  LET ps == r.params
             t == Reads(ps, 1..n)
         IN  Parse(r) = [Collected(ps, t, r.target = "other") EXCEPT
                            !.valid = Listed(ps, t, "mandatory") \subseteq SupportedKeys]
<1> DEFINE ps == r.params
           t == Reads(ps, 1..n)
           b == r.target = "other"
           c == Collected(ps, t, b)
<1>1. ReadParams([NoResult EXCEPT !.alternative_service = b], ps) = c
  BY ParamsFold
<1>2. c.mandatory_keys = Listed(ps, t, "mandatory")
  BY DEF Collected
<1>3. Parse(r) = [c EXCEPT !.valid = CheckMandatoryParams(c)]
  <2> HIDE DEF c
  <2> QED BY <1>1 DEF Parse
<1> QED BY <1>2, <1>3 DEF CheckMandatoryParams

\* A record that can be written: what ParseInit ranges over.
LEMMA RecordIs ==
  ASSUME NEW r \in [priority : {"short", "alias", "service"},
                    target : {"short", "self", "other"},
                    params : UNION {[1..k -> Params] : k \in 0..MaxParams}]
  PROVE  \E n \in Nat : r.params \in [1..n -> Param]
<1>1. PICK k \in 0..MaxParams : r.params \in [1..k -> Params]
  OBVIOUS
<1>2. k \in Nat /\ r.params \in [1..k -> Param]
  BY <1>1, ParamsAssumption
<1> QED BY <1>2

RecordInv ==
    raw \in [priority : {"short", "alias", "service"},
            target : {"short", "self", "other"},
            params : UNION {[1..k -> Params] : k \in 0..MaxParams}]

\* A record stays what it was while it is parsed.
LEMMA RecordInvariant == ParseSpec => []RecordInv
<1>1. ParseInit => RecordInv
  BY DEF ParseInit, RecordInv
<1>2. RecordInv /\ [ParseNext]_<<raw, parsed>> => RecordInv'
  BY DEF RecordInv, ParseNext, CallParse
<1> QED BY <1>1, <1>2, PTL DEF ParseSpec

(***************************************************************************)
(* HttpsRecordParser::Parse reads every record as its format says, however *)
(* many parameters it has, in whatever order, and wherever it breaks off.  *)
(***************************************************************************)
THEOREM ParserReadsTheFormat == ParseSpec => ParsesAsSpecified
<1> DEFINE usable == raw.priority = "service" /\ raw.target # "short"
           Said ==
             LET ps == raw.params IN
             /\ parsed'.valid <=> usable /\ UNION Values(ps, "mandatory") \subseteq SupportedKeys
             /\ usable =>
                  /\ parsed'.ech_config = LastValue(ps, "echconfig", SUBSET Atom)
                  /\ parsed'.alpn = UNION Values(ps, "alpn")
                  /\ parsed'.ipv4_hints = UNION Values(ps, "ipv4hint")
                  /\ parsed'.ipv6_hints = UNION Values(ps, "ipv6hint")
                  /\ parsed'.port = LastValue(ps, "port", (SUBSET Atom) \ {{}})
                  /\ parsed'.alternative_service <=> raw.target = "other"
             /\ ~usable => parsed' = NoResult
<1>1. ASSUME RecordInv, CallParse PROVE Said
  <2>1. parsed' = Parse(raw)
    BY <1>1 DEF CallParse
  <2>2. CASE ~usable
    <3>1. parsed' = NoResult /\ NoResult.valid = FALSE
      BY <2>1, <2>2 DEF Parse, NoResult
    <3> QED BY <2>2, <3>1
  <2>3. CASE usable
    <3>1. PICK n \in Nat : raw.params \in [1..n -> Param]
      BY <1>1, RecordIs DEF RecordInv
    <3> DEFINE ps == raw.params
               t == Reads(ps, 1..n)
               b == raw.target = "other"
               c == Collected(ps, t, b)
    <3>2. Readable(ps) = t /\ t \subseteq 1..n
      BY <3>1, ReadableIs DEF Reads
    <3>3. parsed' = [c EXCEPT !.valid = Listed(ps, t, "mandatory") \subseteq SupportedKeys]
      BY <2>1, <2>3, <3>1, ParseIs
    <3>4. \A key : UNION Values(ps, key) = Listed(ps, t, key)
      BY <3>2 DEF Values, Listed
    <3>5. \A i \in t : ps[i].value \in SUBSET Atom
      BY <3>1, <3>2, ValuesAre
    <3>6. LastValue(ps, "echconfig", SUBSET Atom) = Latest(ps, Ech(ps, t))
      <4>1. {i \in Readable(ps) : ps[i].key = "echconfig" /\ ps[i].value \in SUBSET Atom} = Ech(ps, t)
        BY <3>2, <3>5 DEF Ech
      <4> QED BY <4>1 DEF LastValue, Latest
    <3>7. LastValue(ps, "port", (SUBSET Atom) \ {{}}) = Latest(ps, Port(ps, t))
      <4>1. {i \in Readable(ps) : ps[i].key = "port" /\ ps[i].value \in (SUBSET Atom) \ {{}}} = Port(ps, t)
        BY <3>2, <3>5 DEF Port
      <4> QED BY <4>1 DEF LastValue, Latest
    <3>8. /\ parsed'.ech_config = Latest(ps, Ech(ps, t)) /\ parsed'.port = Latest(ps, Port(ps, t))
          /\ parsed'.alpn = Listed(ps, t, "alpn") /\ parsed'.ipv4_hints = Listed(ps, t, "ipv4hint")
          /\ parsed'.ipv6_hints = Listed(ps, t, "ipv6hint") /\ parsed'.alternative_service = b
      BY <3>3 DEF Collected
    <3>9. parsed'.valid = (Listed(ps, t, "mandatory") \subseteq SupportedKeys)
      BY <3>3 DEF Collected
    <3> HIDE DEF t, c
    <3> QED BY <2>3, <3>4, <3>6, <3>7, <3>8, <3>9
  <2> QED BY <2>2, <2>3
<1>2. RecordInv /\ [ParseNext]_<<raw, parsed>> => [Said]_<<raw, parsed>>
  BY <1>1 DEF ParseNext
<1> QED BY <1>2, RecordInvariant, PTL DEF ParseSpec, ParsesAsSpecified

-----------------------------------------------------------------------------
\* With at most one position, the latest value is all there is.
LEMMA LatestOfOne ==
  ASSUME NEW n \in Nat, NEW ps, NEW at \in SUBSET (1..n), \A i, j \in at : i = j
  PROVE  Latest(ps, at) = UNION {ps[i].value : i \in at}
<1>1. CASE at = {}
  BY <1>1 DEF Latest
<1>2. CASE at # {}
  <2>1. Max(at) \in at
    BY <1>2, MaxOfPositions
  <2>2. at = {Max(at)}
    BY <2>1
  <2>3. PICK m : m = Max(at) /\ at = {m}
    BY <2>2
  <2>4. UNION {ps[i].value : i \in at} = ps[m].value
    BY <2>3
  <2> QED BY <1>2, <2>3, <2>4 DEF Latest
<1> QED BY <1>1, <1>2

\* Two lists of n parameters, no key twice, with the same members.
Rearranged(qs, ps, n) ==
    /\ ps \in [1..n -> Param] /\ qs \in [1..n -> Param]
    /\ \A k, l \in 1..n : ps[k].key = ps[l].key => k = l
    /\ \A k, l \in 1..n : qs[k].key = qs[l].key => k = l
    /\ \A k \in 1..n : \E l \in 1..n : qs[k] = ps[l]
    /\ \A l \in 1..n : \E k \in 1..n : qs[k] = ps[l]

\* Where no key occurs twice, the order of the parameters does not matter.
LEMMA CollectedInAnyOrder ==
  ASSUME NEW n \in Nat, NEW ps, NEW qs, Rearranged(qs, ps, n), NEW b
  PROVE  Collected(qs, 1..n, b) = Collected(ps, 1..n, b)
<1> USE DEF Rearranged
<1>1. \A key : Listed(qs, 1..n, key) = Listed(ps, 1..n, key)
  <2> SUFFICES ASSUME NEW key PROVE Listed(qs, 1..n, key) = Listed(ps, 1..n, key)
    OBVIOUS
  <2>1. {qs[i].value : i \in {j \in 1..n : qs[j].key = key}} =
          {ps[i].value : i \in {j \in 1..n : ps[j].key = key}}
    <3>1. ASSUME NEW k \in 1..n, qs[k].key = key
          PROVE  \E l \in 1..n : ps[l].key = key /\ ps[l].value = qs[k].value
      <4>1. PICK l \in 1..n : qs[k] = ps[l]
        OBVIOUS
      <4> QED BY <3>1, <4>1
    <3>2. ASSUME NEW l \in 1..n, ps[l].key = key
          PROVE  \E k \in 1..n : qs[k].key = key /\ qs[k].value = ps[l].value
      <4>1. PICK k \in 1..n : qs[k] = ps[l]
        OBVIOUS
      <4> QED BY <3>2, <4>1
    <3> DEFINE A == {qs[i].value : i \in {j \in 1..n : qs[j].key = key}}
               B == {ps[i].value : i \in {j \in 1..n : ps[j].key = key}}
    <3>3. \A x : x \in A <=> \E k \in 1..n : qs[k].key = key /\ qs[k].value = x
      OBVIOUS
    <3>4. \A x : x \in B <=> \E l \in 1..n : ps[l].key = key /\ ps[l].value = x
      OBVIOUS
    <3> HIDE DEF A, B
    <3>5. \A x : x \in A <=> x \in B
      BY ONLY <3>1, <3>2, <3>3, <3>4
    <3> QED BY <3>5 DEF A, B
  <2> QED BY <2>1 DEF Listed
<1>2. ASSUME NEW us, \A i, j \in 1..n : us[i].key = us[j].key => i = j
      PROVE  /\ Latest(us, Ech(us, 1..n)) = Listed(us, 1..n, "echconfig")
             /\ Latest(us, Port(us, 1..n)) = Listed(us, 1..n, "port")
  <2>1. Latest(us, Ech(us, 1..n)) = UNION {us[i].value : i \in Ech(us, 1..n)}
    <3> DEFINE at == Ech(us, 1..n)
    <3>1. at \in SUBSET (1..n) /\ \A i, j \in at : i = j
      BY <1>2 DEF Ech
    <3> HIDE DEF at
    <3>2. Latest(us, at) = UNION {us[i].value : i \in at}
      BY ONLY <3>1, n \in Nat, LatestOfOne
    <3> QED BY <3>2 DEF at
  <2>2. Latest(us, Port(us, 1..n)) = UNION {us[i].value : i \in Port(us, 1..n)}
    <3> DEFINE at == Port(us, 1..n)
    <3>1. at \in SUBSET (1..n) /\ \A i, j \in at : i = j
      BY <1>2 DEF Port
    <3> HIDE DEF at
    <3>2. Latest(us, at) = UNION {us[i].value : i \in at}
      BY ONLY <3>1, n \in Nat, LatestOfOne
    <3> QED BY <3>2 DEF at
  <2>3. UNION {us[i].value : i \in Port(us, 1..n)} = Listed(us, 1..n, "port")
    <3> DEFINE A == UNION {us[i].value : i \in Port(us, 1..n)}
               B == Listed(us, 1..n, "port")
    <3>1. \A x : x \in A <=>
                \E i \in 1..n : us[i].key = "port" /\ us[i].value # {} /\ x \in us[i].value
      <4>1. \A i : i \in Port(us, 1..n) <=>
                      i \in 1..n /\ us[i].key = "port" /\ us[i].value # {}
        BY DEF Port
      <4> DEFINE at == Port(us, 1..n)
      <4>2. A = UNION {us[i].value : i \in at}
        OBVIOUS
      <4>3. \A i : i \in at <=> i \in 1..n /\ us[i].key = "port" /\ us[i].value # {}
        BY <4>1
      <4> HIDE DEF at, A
      <4>4. \A x : x \in A <=> \E i \in at : x \in us[i].value
        BY ONLY <4>2, ZenonT(30)
      <4> QED BY ONLY <4>3, <4>4
    <3>2. \A x : x \in B <=> \E i \in 1..n : us[i].key = "port" /\ x \in us[i].value
      <4> DEFINE at == {i \in 1..n : us[i].key = "port"}
      <4>1. \A i : i \in at <=> i \in 1..n /\ us[i].key = "port"
        OBVIOUS
      <4>2. B = UNION {us[i].value : i \in at}
        BY DEF Listed
      <4> HIDE DEF at, B
      <4>3. \A x : x \in B <=> \E i \in at : x \in us[i].value
        BY ONLY <4>2, ZenonT(30)
      <4> QED BY ONLY <4>1, <4>3
    <3> HIDE DEF A, B
    <3>3. \A x : x \in A <=> x \in B
      BY <3>1, <3>2
    <3> QED BY <3>3 DEF A, B
  <2> QED BY <2>1, <2>2, <2>3 DEF Ech, Listed
<1>3. /\ Latest(qs, Ech(qs, 1..n)) = Latest(ps, Ech(ps, 1..n))
      /\ Latest(qs, Port(qs, 1..n)) = Latest(ps, Port(ps, 1..n))
  <2>1. /\ Latest(ps, Ech(ps, 1..n)) = Listed(ps, 1..n, "echconfig")
        /\ Latest(ps, Port(ps, 1..n)) = Listed(ps, 1..n, "port")
    BY <1>2
  <2>2. /\ Latest(qs, Ech(qs, 1..n)) = Listed(qs, 1..n, "echconfig")
        /\ Latest(qs, Port(qs, 1..n)) = Listed(qs, 1..n, "port")
    BY <1>2
  <2> QED BY <1>1, <2>1, <2>2
<1> QED BY <1>1, <1>3 DEF Collected

(***************************************************************************)
(* Exchanging two parameters of a record that can be read to its end and   *)
(* repeats no key changes nothing in what the parser makes of it: the list *)
(* of mandatory keys may come before or after what it is about.            *)
(***************************************************************************)
THEOREM ParserIgnoresTheOrder == ParseSpec => OrderIsIrrelevant
<1> DEFINE Same ==
      \A i, j \in DOMAIN raw.params :
         /\ Readable(raw.params) = DOMAIN raw.params
         /\ \A k, l \in DOMAIN raw.params :
              k # l => raw.params[k].key # raw.params[l].key
         => Parse(Swapped(raw, i, j)) = parsed'
<1>1. ASSUME RecordInv, CallParse PROVE Same
  <2> SUFFICES ASSUME NEW i \in DOMAIN raw.params, NEW j \in DOMAIN raw.params,
                      Readable(raw.params) = DOMAIN raw.params,
                      \A k, l \in DOMAIN raw.params :
                         k # l => raw.params[k].key # raw.params[l].key
               PROVE  Parse(Swapped(raw, i, j)) = Parse(raw)
    BY <1>1 DEF CallParse
  <2> DEFINE ps == raw.params
             other == Swapped(raw, i, j)
             qs == other.params
  <2>1. PICK n \in Nat : ps \in [1..n -> Param]
    BY <1>1, RecordIs DEF RecordInv
  <2>2. DOMAIN ps = 1..n /\ i \in 1..n /\ j \in 1..n
    BY <2>1
  <2>3. /\ other.priority = raw.priority /\ other.target = raw.target
        /\ qs = [[ps EXCEPT ![i] = ps[j]] EXCEPT ![j] = ps[i]]
    BY <1>1 DEF Swapped, RecordInv
  <2> DEFINE f == [k \in 1..n |-> IF k = j THEN i ELSE IF k = i THEN j ELSE k]
  <2>4. qs = [k \in 1..n |-> ps[f[k]]]
    <3> HIDE DEF ps, qs
    <3> QED BY <2>1, <2>2, <2>3
  <2>5. /\ f \in [1..n -> 1..n]
        /\ \A k, l \in 1..n : k # l => f[k] # f[l]
        /\ \A l \in 1..n : \E k \in 1..n : f[k] = l
    <3>1. f \in [1..n -> 1..n] /\ \A k, l \in 1..n : k # l => f[k] # f[l]
      BY <2>2
    <3>2. \A l \in 1..n : f[l] \in 1..n /\ f[f[l]] = l
      BY <2>2
    <3> QED BY <3>1, <3>2
  <2> HIDE DEF f
  <2>6. CASE ~(raw.priority = "service" /\ raw.target # "short")
    BY <2>3, <2>6 DEF Parse
  <2>7. CASE raw.priority = "service" /\ raw.target # "short"
    <3> DEFINE b == raw.target = "other"
    <3>1. \A k \in 1..n : ps[k] # Truncated
      BY <2>2 DEF Readable
    <3>2. qs \in [1..n -> Param] /\ \A k \in 1..n : qs[k] # Truncated
      <4> HIDE DEF ps, qs
      <4> QED BY <2>1, <2>4, <2>5, <3>1
    <3>3. Reads(ps, 1..n) = 1..n /\ Reads(qs, 1..n) = 1..n
      BY <3>1, <3>2 DEF Reads
    <3>4. Collected(qs, 1..n, b) = Collected(ps, 1..n, b)
      <4>1. \A k, l \in 1..n : ps[k].key = ps[l].key => k = l
        BY <2>2
      <4> HIDE DEF ps, qs, b
      <4>2. \A k \in 1..n : f[k] \in 1..n /\ qs[k] = ps[f[k]]
        BY <2>4, <2>5
      <4>3. ASSUME NEW k \in 1..n, NEW l \in 1..n, qs[k].key = qs[l].key PROVE k = l
        <5>1. ps[f[k]].key = ps[f[l]].key /\ f[k] \in 1..n /\ f[l] \in 1..n
          BY <4>2, <4>3
        <5>2. f[k] = f[l]
          BY ONLY <4>1, <5>1
        <5> QED BY ONLY <2>5, <5>2
      <4>4. \A k \in 1..n : \E l \in 1..n : qs[k] = ps[l]
        BY <4>2
      <4>5. ASSUME NEW l \in 1..n PROVE \E k \in 1..n : qs[k] = ps[l]
        <5>1. PICK k \in 1..n : f[k] = l
          BY ONLY <2>5
        <5> QED BY <4>2, <5>1
      <4>6. PICK as, bs : as = ps /\ bs = qs
        OBVIOUS
      <4>7. Rearranged(bs, as, n)
        BY <2>1, <3>2, <4>1, <4>3, <4>4, <4>5, <4>6 DEF Rearranged
      <4>8. ASSUME NEW c PROVE Collected(bs, 1..n, c) = Collected(as, 1..n, c)
        BY ONLY n \in Nat, <4>7, CollectedInAnyOrder
      <4>9. \A c : Collected(qs, 1..n, c) = Collected(ps, 1..n, c)
        BY ONLY <4>6, <4>8
      <4> QED BY ONLY <4>9, Zenon
    <3>5. Listed(qs, 1..n, "mandatory") = Listed(ps, 1..n, "mandatory")
      <4>1. \A us : Collected(us, 1..n, b).mandatory_keys = Listed(us, 1..n, "mandatory")
        BY DEF Collected
      <4> QED BY <3>4, <4>1
    <3>6. Parse(raw) = [Collected(ps, 1..n, b) EXCEPT
                           !.valid = Listed(ps, 1..n, "mandatory") \subseteq SupportedKeys]
      BY <2>1, <2>7, <3>3, ParseIs
    <3>7. Parse(other) = [Collected(qs, 1..n, b) EXCEPT
                             !.valid = Listed(qs, 1..n, "mandatory") \subseteq SupportedKeys]
      <4> HIDE DEF other
      <4>1. Parse(other) = [Collected(qs, 1..n, other.target = "other") EXCEPT
                               !.valid = Listed(qs, 1..n, "mandatory") \subseteq SupportedKeys]
        <5>1. Parse(other) =
                [Collected(qs, Reads(qs, 1..n), other.target = "other") EXCEPT
                    !.valid = Listed(qs, Reads(qs, 1..n), "mandatory") \subseteq SupportedKeys]
          BY <2>3, <2>7, <3>2, ParseIs
        <5> HIDE DEF qs
        <5> QED BY <3>3, <5>1
      <4>2. (other.target = "other") = b
        BY <2>3
      <4> HIDE DEF b, qs
      <4> QED BY <4>1, <4>2
    <3> QED BY <3>4, <3>5, <3>6, <3>7
  <2> QED BY <2>6, <2>7
<1>2. RecordInv /\ [ParseNext]_<<raw, parsed>> => [Same]_<<raw, parsed>>
  BY <1>1 DEF ParseNext
<1> QED BY <1>2, RecordInvariant, PTL DEF ParseSpec, OrderIsIrrelevant
=============================================================================
