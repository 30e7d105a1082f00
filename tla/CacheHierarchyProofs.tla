------------------------ MODULE CacheHierarchyProofs ------------------------
(***************************************************************************)
(* Proofs about CacheHierarchy, for any cores, lines and sizes.            *)
(*                                                                         *)
(* A set of the functional cache keeps each of its entries once, in the    *)
(* list or on the stack, whatever is accessed, inserted and evicted; a     *)
(* line is only inserted into a private cache that does not have it,       *)
(* because its request came through there and missed.  So what a set of a  *)
(* private cache holds changes only as LruSets lets it.                    *)
(* What a cache may hold dirty is what was stored to, and what the cache   *)
(* below has put together of a victim and written back.                    *)
(***************************************************************************)
EXTENDS CacheHierarchy, SequenceTheorems, FiniteSetTheorems, WellFoundedInduction, TLAPS

-----------------------------------------------------------------------------
(* Lists.                                                                  *)

LEMMA LinkFirst ==
  ASSUME NEW S, NEW q \in Seq(S), NEW e \in S, IsInjective(q), e \notin ToSet(q)
  PROVE  /\ <<e>> \o q \in Seq(S) /\ IsInjective(<<e>> \o q)
         /\ ToSet(<<e>> \o q) = ToSet(q) \cup {e}
<1> DEFINE p == <<e>> \o q
<1>1. <<e>> \in Seq(S) /\ Len(<<e>>) = 1 /\ <<e>>[1] = e
  OBVIOUS
<1>2. /\ p \in Seq(S) /\ Len(p) = Len(q) + 1 /\ Len(q) \in Nat
      /\ \A i \in 1..Len(p) : p[i] = IF i = 1 THEN e ELSE q[i - 1]
  BY <1>1, ConcatProperties
<1>3. DOMAIN p = 1..(Len(q) + 1) /\ DOMAIN q = 1..Len(q)
  BY <1>2
<1> HIDE DEF p
<1>4. \A i \in DOMAIN p : (i = 1 /\ p[i] = e) \/ (i - 1 \in DOMAIN q /\ p[i] = q[i - 1])
  BY <1>2, <1>3
<1>5. \A i \in DOMAIN q : i + 1 \in DOMAIN p /\ p[i + 1] = q[i]
  BY <1>2, <1>3
<1>6. 1 \in DOMAIN p /\ p[1] = e
  BY <1>2, <1>3
<1>7. ToSet(p) = ToSet(q) \cup {e}
  BY <1>4, <1>5, <1>6 DEF ToSet
<1>8. IsInjective(p)
  <2> SUFFICES ASSUME NEW i \in DOMAIN p, NEW j \in DOMAIN p, p[i] = p[j] PROVE i = j
    BY DEF IsInjective
  <2>1. i \in Nat /\ j \in Nat
    BY <1>2, <1>3
  <2>2. CASE i = 1 \/ j = 1
    BY <1>4, <2>1, <2>2 DEF ToSet
  <2>3. CASE i # 1 /\ j # 1
    BY <1>4, <2>1, <2>3 DEF IsInjective
  <2> QED BY <2>2, <2>3
<1> QED BY <1>2, <1>7, <1>8 DEF p

\* The same at the other end, where the stack grows.
LEMMA PushLast ==
  ASSUME NEW S, NEW q \in Seq(S), NEW e \in S, IsInjective(q), e \notin ToSet(q)
  PROVE  /\ Append(q, e) \in Seq(S) /\ IsInjective(Append(q, e))
         /\ ToSet(Append(q, e)) = ToSet(q) \cup {e}
<1> DEFINE p == Append(q, e)
<1>1. /\ p \in Seq(S) /\ Len(p) = Len(q) + 1 /\ Len(q) \in Nat
      /\ \A i \in 1..Len(q) : p[i] = q[i]
      /\ p[Len(q) + 1] = e
  BY AppendProperties
<1>2. DOMAIN p = 1..(Len(q) + 1) /\ DOMAIN q = 1..Len(q)
  BY <1>1
<1> HIDE DEF p
<1>3. \A i \in DOMAIN p : (i = Len(q) + 1 /\ p[i] = e) \/ (i \in DOMAIN q /\ p[i] = q[i])
  BY <1>1, <1>2
<1>4. \A i \in DOMAIN q : i \in DOMAIN p /\ p[i] = q[i]
  BY <1>1, <1>2
<1>5. Len(q) + 1 \in DOMAIN p /\ p[Len(q) + 1] = e
  BY <1>1, <1>2
<1>6. ToSet(p) = ToSet(q) \cup {e}
  BY <1>3, <1>4, <1>5 DEF ToSet
<1>7. IsInjective(p)
  <2> SUFFICES ASSUME NEW i \in DOMAIN p, NEW j \in DOMAIN p, p[i] = p[j] PROVE i = j
    BY DEF IsInjective
  <2>1. CASE i = Len(q) + 1 \/ j = Len(q) + 1
    BY <1>3, <2>1 DEF ToSet
  <2>2. CASE i # Len(q) + 1 /\ j # Len(q) + 1
    BY <1>3, <2>2 DEF IsInjective
  <2> QED BY <2>1, <2>2
<1> QED BY <1>1, <1>6, <1>7 DEF p

\* What RemoveAt leaves.
Removed(p, q, k) ==
  Len(p) = Len(q) - 1 /\ \A i \in 1..(Len(q) - 1) : p[i] = IF i < k THEN q[i] ELSE q[i + 1]

LEMMA RemoveAtIs ==
  ASSUME NEW S, NEW q \in Seq(S), NEW k \in DOMAIN q
  PROVE  RemoveAt(q, k) \in Seq(S) /\ Removed(RemoveAt(q, k), q, k)
<1> DEFINE n == Len(q)
<1>2. n \in Nat /\ DOMAIN q = 1..n /\ k \in 1..n
  OBVIOUS
<1> DEFINE a == SubSeq(q, 1, k - 1)
           b == SubSeq(q, k + 1, n)
<1>4. /\ a \in Seq(S) /\ Len(a) = k - 1 /\ (\A i \in 1..(k - 1) : a[i] = q[i])
      /\ b \in Seq(S) /\ Len(b) = n - k /\ (\A i \in 1..(n - k) : b[i] = q[k + i])
  <2>1. /\ 1 \in Int /\ k - 1 \in Int /\ k + 1 \in Int /\ n \in Int
        /\ \A i \in 1..n : q[i] \in S
        /\ 1..(k - 1) \subseteq 1..n /\ (k + 1)..n \subseteq 1..n
    BY <1>2 DEF n
  <2>2. /\ a \in Seq(S) /\ Len(a) = IF 1 <= k - 1 THEN (k - 1) - 1 + 1 ELSE 0
        /\ \A i \in 1..((k - 1) - 1 + 1) : a[i] = q[1 + i - 1]
    BY <2>1, SubSeqProperties
  <2>3. /\ b \in Seq(S) /\ Len(b) = IF k + 1 <= n THEN n - (k + 1) + 1 ELSE 0
        /\ \A i \in 1..(n - (k + 1) + 1) : b[i] = q[k + 1 + i - 1]
    BY <2>1, SubSeqProperties
  <2> HIDE DEF a, b, n
  <2>4. Len(a) = k - 1 /\ \A i \in 1..(k - 1) : a[i] = q[i]
    BY <1>2, <2>2
  <2>5. Len(b) = n - k /\ \A i \in 1..(n - k) : b[i] = q[k + i]
    <3>1. Len(b) = n - k
      BY <1>2, <2>3
    <3>2. ASSUME NEW i \in 1..(n - k) PROVE b[i] = q[k + i]
      <4>1. i \in 1..(n - (k + 1) + 1) /\ k + 1 + i - 1 = k + i
        BY <1>2
      <4> QED BY <2>3, <4>1
    <3> QED BY <3>1, <3>2
  <2> QED BY <2>2, <2>3, <2>4, <2>5
<1> HIDE DEF a, b, n
<1>5. /\ a \o b \in Seq(S) /\ Len(a \o b) = n - 1
      /\ \A i \in 1..(n - 1) : (a \o b)[i] = IF i < k THEN q[i] ELSE q[i + 1]
  <2>1. /\ a \o b \in Seq(S) /\ Len(a \o b) = (k - 1) + (n - k)
        /\ \A i \in 1..((k - 1) + (n - k)) : (a \o b)[i] = IF i <= k - 1 THEN a[i] ELSE b[i - (k - 1)]
    <3>1. /\ a \o b \in Seq(S) /\ Len(a \o b) = Len(a) + Len(b)
          /\ \A i \in 1..(Len(a) + Len(b)) : (a \o b)[i] = IF i <= Len(a) THEN a[i] ELSE b[i - Len(a)]
      BY <1>4, ConcatProperties
    <3>2. Len(a) = k - 1 /\ Len(b) = n - k
      BY <1>4
    <3> QED BY <3>1, <3>2
  <2>2. ASSUME NEW i \in 1..(n - 1) PROVE (a \o b)[i] = IF i < k THEN q[i] ELSE q[i + 1]
    <3>1. CASE i < k
      BY <1>2, <1>4, <2>1, <3>1
    <3>2. CASE ~(i < k)
      <4>1. i - (k - 1) \in 1..(n - k) /\ k + (i - (k - 1)) = i + 1 /\ i \in 1..((k - 1) + (n - k)) /\ ~(i <= k - 1)
        BY <1>2, <3>2
      <4> QED BY <1>4, <2>1, <3>2, <4>1
    <3> QED BY <3>1, <3>2
  <2>3. (k - 1) + (n - k) = n - 1
    BY <1>2
  <2> QED BY <2>1, <2>2, <2>3
<1> QED BY <1>5 DEF Removed, RemoveAt, a, b, n

LEMMA UnlinkOne ==
  ASSUME NEW S, NEW q \in Seq(S), NEW e \in ToSet(q), IsInjective(q)
  PROVE  /\ Unlinked(q, e) \in Seq(S) /\ IsInjective(Unlinked(q, e))
         /\ ToSet(Unlinked(q, e)) = ToSet(q) \ {e}
<1> DEFINE k == CHOOSE i \in DOMAIN q : q[i] = e
           n == Len(q)
           p == RemoveAt(q, k)
<1>1. k \in DOMAIN q /\ q[k] = e
  BY DEF ToSet
<1>2. n \in Nat /\ DOMAIN q = 1..n /\ k \in 1..n
  BY <1>1
<1>3. Unlinked(q, e) = p
  BY DEF Unlinked
<1> HIDE DEF k
<1>4. p \in Seq(S) /\ Removed(p, q, k)
  BY <1>1, RemoveAtIs
<1> HIDE DEF p
<1>5. DOMAIN p = 1..(n - 1)
  BY <1>2, <1>4 DEF Removed
<1>6. p \in Seq(S) /\ DOMAIN p = 1..(n - 1) /\ \A i \in 1..(n - 1) : p[i] = IF i < k THEN q[i] ELSE q[i + 1]
  BY <1>4, <1>5 DEF Removed
<1> HIDE DEF n
<1>7. \A i \in DOMAIN p : \E j \in DOMAIN q \ {k} : p[i] = q[j] /\ j = (IF i < k THEN i ELSE i + 1)
  BY <1>2, <1>6
<1>8. \A j \in DOMAIN q \ {k} : \E i \in DOMAIN p : p[i] = q[j]
  <2> SUFFICES ASSUME NEW j \in 1..n, j # k PROVE \E i \in DOMAIN p : p[i] = q[j]
    BY <1>2
  <2>1. CASE j < k
    BY <1>2, <1>6, <2>1
  <2>2. CASE j > k
    <3>1. j - 1 \in 1..(n - 1) /\ ~(j - 1 < k) /\ (j - 1) + 1 = j
      BY <1>2, <2>2
    <3> QED BY <1>6, <3>1
  <2> QED BY <1>2, <2>1, <2>2
<1>9. \A j \in DOMAIN q : q[j] = e <=> j = k
  BY <1>1 DEF IsInjective
<1>10. ToSet(p) = ToSet(q) \ {e}
  BY <1>7, <1>8, <1>9 DEF ToSet
<1>11. IsInjective(p)
  <2> SUFFICES ASSUME NEW i \in DOMAIN p, NEW j \in DOMAIN p, p[i] = p[j] PROVE i = j
    BY DEF IsInjective
  <2> DEFINE at(x) == IF x < k THEN x ELSE x + 1
  <2>1. at(i) \in DOMAIN q /\ at(j) \in DOMAIN q /\ q[at(i)] = q[at(j)]
    BY <1>7
  <2>2. at(i) = at(j)
    BY <2>1 DEF IsInjective
  <2> QED BY <1>2, <1>6, <2>2
<1> QED BY <1>3, <1>6, <1>10, <1>11

LEMMA WithoutLast ==
  ASSUME NEW S, NEW q \in Seq(S), q # <<>>, IsInjective(q)
  PROVE  /\ Front(q) \in Seq(S) /\ IsInjective(Front(q)) /\ Last(q) \in ToSet(q)
         /\ ToSet(Front(q)) = ToSet(q) \ {Last(q)}
<1> DEFINE n == Len(q)
           p == SubSeq(q, 1, n - 1)
<1>1. n \in Nat \ {0} /\ DOMAIN q = 1..n
  BY EmptySeq
<1>2. p \in Seq(S) /\ DOMAIN p = 1..(n - 1) /\ \A i \in 1..(n - 1) : p[i] = q[i]
  BY <1>1, SubSeqProperties
<1> HIDE DEF p, n
<1>3. IsInjective(p)
  BY <1>1, <1>2 DEF IsInjective
<1>4. ToSet(p) = ToSet(q) \ {q[n]}
  BY <1>1, <1>2 DEF ToSet, IsInjective
<1>5. q[n] \in ToSet(q)
  BY <1>1 DEF ToSet
<1> QED BY <1>2, <1>3, <1>4, <1>5 DEF Front, Last, p, n

LEMMA JoinTwo ==
  ASSUME NEW S, NEW u \in Seq(S), NEW v \in Seq(S),
         IsInjective(u), IsInjective(v), ToSet(u) \cap ToSet(v) = {}
  PROVE  IsInjective(u \o v) /\ ToSet(u \o v) = ToSet(u) \cup ToSet(v)
<1>0. /\ u \o v \in Seq(S) /\ Len(u \o v) = Len(u) + Len(v)
      /\ \A i \in 1..(Len(u) + Len(v)) : (u \o v)[i] = IF i <= Len(u) THEN u[i] ELSE v[i - Len(u)]
  BY ConcatProperties
<1> DEFINE p == u \o v
           a == Len(u)
           b == Len(v)
<1>1. a \in Nat /\ b \in Nat /\ DOMAIN u = 1..a /\ DOMAIN v = 1..b
  OBVIOUS
<1>2. /\ p \in Seq(S) /\ Len(p) = a + b
      /\ \A i \in 1..(a + b) : p[i] = IF i <= a THEN u[i] ELSE v[i - a]
  BY <1>0
<1>3. DOMAIN p = 1..(a + b)
  BY <1>2
<1> HIDE DEF p, a, b
<1>4. \A i \in DOMAIN p : (i <= a /\ i \in DOMAIN u /\ p[i] = u[i])
                          \/ (~(i <= a) /\ i - a \in DOMAIN v /\ p[i] = v[i - a])
  BY <1>1, <1>2, <1>3
<1>5. \A i \in DOMAIN u : i \in DOMAIN p /\ p[i] = u[i]
  BY <1>1, <1>2, <1>3
<1>6. ASSUME NEW i \in DOMAIN v PROVE i + a \in DOMAIN p /\ p[i + a] = v[i]
  <2>1. i + a \in 1..(a + b) /\ ~(i + a <= a) /\ (i + a) - a = i
    BY <1>1
  <2> QED BY <1>2, <1>3, <2>1
<1>7. ToSet(p) = ToSet(u) \cup ToSet(v)
  BY <1>4, <1>5, <1>6 DEF ToSet
<1>8. IsInjective(p)
  <2> SUFFICES ASSUME NEW i \in DOMAIN p, NEW j \in DOMAIN p, p[i] = p[j] PROVE i = j
    BY DEF IsInjective
  <2>1. CASE i <= a /\ j <= a
    BY <1>4, <2>1 DEF IsInjective
  <2>2. CASE ~(i <= a) /\ ~(j <= a)
    <3>1. i - a = j - a
      BY <1>4, <2>2 DEF IsInjective
    <3> QED BY <1>1, <1>3, <3>1
  <2>3. CASE i <= a /\ ~(j <= a)
    BY <1>4, <2>3 DEF ToSet
  <2>4. CASE ~(i <= a) /\ j <= a
    BY <1>4, <2>4 DEF ToSet
  <2> QED BY <2>1, <2>2, <2>3, <2>4
<1> QED BY <1>7, <1>8 DEF p

-----------------------------------------------------------------------------
(* A set of a cache with n entries, for the lines of D.                    *)

SetType(s, D, n) ==
  /\ s = [list |-> s.list, free |-> s.free, map |-> s.map, addr |-> s.addr, dirty |-> s.dirty]
  /\ s.list \in Seq(1..n) /\ s.free \in Seq(1..n)
  /\ s.map \in [D -> {Absent, Null} \cup 1..n]
  /\ s.addr \in [1..n -> D \cup {Absent}]
  /\ s.dirty \in [1..n -> BOOLEAN]

\* Each entry is in the list or on the stack, once; those in the list have a
\* line, and a line that hits leads to its entry.
Linked(s, D, n) ==
  /\ IsInjective(s.list) /\ IsInjective(s.free)
  /\ ToSet(s.list) \cap ToSet(s.free) = {} /\ ToSet(s.list) \cup ToSet(s.free) = 1..n
  /\ \A e \in ToSet(s.list) : s.addr[e] \in D
  /\ \A l \in D : Hit(s, l) => s.map[l] \in ToSet(s.list) /\ s.addr[s.map[l]] = l

SetInv(s, D, n) == SetType(s, D, n) /\ Linked(s, D, n)

LEMMA InvIsSound ==
  ASSUME NEW s, NEW D, NEW n \in Nat, SetInv(s, D, n)
  PROVE  PointersSound(s)
<1>1. s.list \in Seq(1..n) /\ s.free \in Seq(1..n) /\ DOMAIN s.addr = 1..n /\ DOMAIN s.map = D
  BY DEF SetInv, SetType
<1>2. IsInjective(s.list \o s.free) /\ ToSet(s.list \o s.free) = ToSet(s.list) \cup ToSet(s.free)
  BY <1>1, JoinTwo DEF SetInv, Linked
<1> QED BY <1>1, <1>2 DEF PointersSound, SetInv, Linked

\* A new set has all its entries on the stack.
LEMMA NewSetInv ==
  ASSUME NEW D, NEW n \in Nat, D \subseteq Nat
  PROVE  SetInv(NewSet(n, D), D, n) /\ NoGhost(NewSet(n, D)) /\ ToSet(NewSet(n, D).list) = {}
<1> DEFINE s == NewSet(n, D)
           f == [e \in 1..n |-> e]
<1>1. /\ s = [list |-> <<>>, free |-> f, map |-> [l \in D |-> Absent],
               addr |-> [e \in 1..n |-> Absent], dirty |-> [e \in 1..n |-> FALSE]]
  BY DEF NewSet
<1>2. f \in Seq(1..n) /\ DOMAIN f = 1..n /\ IsInjective(f) /\ ToSet(f) = 1..n
  BY SeqDef DEF IsInjective, ToSet
<1>3. <<>> \in Seq(1..n) /\ IsInjective(<<>>) /\ ToSet(<<>>) = {}
  BY EmptySeq DEF IsInjective, ToSet
<1> HIDE DEF f
<1>4. /\ s.list = <<>> /\ s.free = f /\ s.map = [l \in D |-> Absent]
      /\ s.addr = [e \in 1..n |-> Absent] /\ s.dirty = [e \in 1..n |-> FALSE]
  BY <1>1
<1>5. s = [list |-> s.list, free |-> s.free, map |-> s.map, addr |-> s.addr, dirty |-> s.dirty]
  BY <1>1, <1>4
<1> HIDE DEF s
<1>6. SetType(s, D, n)
  BY <1>2, <1>3, <1>4, <1>5 DEF SetType
<1>7. \A l \in D : ~Hit(s, l)
  BY <1>4 DEF Hit
<1>8. Linked(s, D, n)
  BY <1>2, <1>3, <1>4, <1>7 DEF Linked
<1>9. NoGhost(s)
  BY <1>3, <1>4 DEF NoGhost
<1> QED BY <1>3, <1>4, <1>6, <1>8, <1>9 DEF SetInv, s

-----------------------------------------------------------------------------
(* What the operations do to a set.                                        *)

AccessedFrom(s, t, D, n, l, isLoad) ==
  /\ SetInv(t, D, n) /\ (NoGhost(s) => NoGhost(t))
  /\ ToSet(t.list) = ToSet(s.list) /\ t.addr = s.addr
  /\ \A x \in D : Hit(t, x) <=> Hit(s, x)
  /\ \A e \in 1..n : t.dirty[e] => s.dirty[e] \/ (~isLoad /\ s.addr[e] = l)

LEMMA AccessedInv ==
  ASSUME NEW D, D \subseteq Nat, NEW n \in Nat, NEW s, SetInv(s, D, n), NEW l \in D, NEW isLoad \in BOOLEAN
  PROVE  AccessedFrom(s, Accessed(s, l, isLoad), D, n, l, isLoad)
<1> DEFINE t == Accessed(s, l, isLoad)
<1>1. SetType(s, D, n) /\ Linked(s, D, n)
  BY DEF SetInv
<1>2. CASE Hit(s, l)
  <2> DEFINE e == s.map[l]
             q == <<e>> \o Unlinked(s.list, e)
  <2>1. e \in ToSet(s.list) /\ e \in 1..n /\ s.addr[e] = l
    BY <1>1, <1>2 DEF Linked
  <2>2. s.list \in Seq(1..n) /\ IsInjective(s.list)
    BY <1>1 DEF SetType, Linked
  <2>3. /\ Unlinked(s.list, e) \in Seq(1..n) /\ IsInjective(Unlinked(s.list, e))
        /\ ToSet(Unlinked(s.list, e)) = ToSet(s.list) \ {e}
    BY <2>1, <2>2, UnlinkOne
  <2>4. q \in Seq(1..n) /\ IsInjective(q) /\ ToSet(q) = ToSet(s.list)
    <3> HIDE DEF e
    <3>1. e \notin ToSet(Unlinked(s.list, e)) /\ (ToSet(s.list) \ {e}) \cup {e} = ToSet(s.list)
      BY <2>1, <2>3
    <3>2. /\ <<e>> \o Unlinked(s.list, e) \in Seq(1..n) /\ IsInjective(<<e>> \o Unlinked(s.list, e))
          /\ ToSet(<<e>> \o Unlinked(s.list, e)) = ToSet(Unlinked(s.list, e)) \cup {e}
      BY <2>1, <2>3, <3>1, LinkFirst
    <3> QED BY <2>3, <3>1, <3>2
  <2> HIDE DEF q
  <2>5. t = [list |-> q, free |-> s.free, map |-> s.map, addr |-> s.addr,
             dirty |-> [s.dirty EXCEPT ![e] = @ \/ ~isLoad]]
    BY <1>1, <1>2 DEF SetType, Accessed, q
  <2> HIDE DEF t
  <2>6. SetType(t, D, n)
    BY <1>1, <2>4, <2>5 DEF SetType
  <2>7. \A x \in D : Hit(t, x) <=> Hit(s, x)
    BY <2>5 DEF Hit
  <2>8. Linked(t, D, n)
    BY <1>1, <2>4, <2>5, <2>7 DEF Linked
  <2>9. NoGhost(s) => NoGhost(t)
    BY <2>4, <2>5 DEF NoGhost
  <2>10. \A x \in 1..n : t.dirty[x] => s.dirty[x] \/ (~isLoad /\ s.addr[x] = l)
    BY <1>1, <2>1, <2>5 DEF SetType
  <2> QED BY <2>4, <2>5, <2>6, <2>7, <2>8, <2>9, <2>10 DEF SetInv, AccessedFrom, t
<1>3. CASE ~Hit(s, l)
  <2>1. t = [list |-> s.list, free |-> s.free, map |-> [s.map EXCEPT ![l] = Null], addr |-> s.addr, dirty |-> s.dirty]
    BY <1>1, <1>3 DEF SetType, Accessed
  <2> HIDE DEF t
  <2>2. s.map \in [D -> {Absent, Null} \cup 1..n] /\ t.map = [s.map EXCEPT ![l] = Null]
    BY <1>1, <2>1 DEF SetType
  <2>3. SetType(t, D, n)
    BY <1>1, <2>1, <2>2 DEF SetType
  <2>4. \A x \in D : (Hit(t, x) <=> Hit(s, x)) /\ (Hit(t, x) => t.map[x] = s.map[x])
    BY <1>3, <2>2 DEF Hit
  <2>5. Linked(t, D, n)
    <3>1. t.list = s.list /\ t.free = s.free /\ t.addr = s.addr
      BY <2>1
    <3> QED BY <1>1, <2>4, <3>1 DEF Linked
  <2>6. NoGhost(s) => NoGhost(t)
    <3> SUFFICES ASSUME NoGhost(s), NEW e \in ToSet(s.list) PROVE t.map[s.addr[e]] = e
      BY <2>1 DEF NoGhost
    <3>1. s.map[s.addr[e]] = e /\ s.addr[e] \in D /\ e \in 1..n
      BY <1>1 DEF NoGhost, Linked
    <3>2. Hit(s, s.addr[e])
      BY <3>1 DEF Hit, Absent, Null
    <3> QED BY <1>3, <2>2, <3>1, <3>2
  <2>7. t.list = s.list /\ t.addr = s.addr /\ t.dirty = s.dirty
    BY <2>1
  <2> QED BY <2>3, <2>4, <2>5, <2>6, <2>7 DEF SetInv, AccessedFrom, t
<1> QED BY <1>2, <1>3

EvictedFrom(s, t, D, n) ==
  /\ SetInv(t, D, n) /\ (NoGhost(s) => NoGhost(t))
  /\ ToSet(t.list) \subseteq ToSet(s.list) /\ t.addr = s.addr /\ t.dirty = s.dirty
  /\ \A x \in D : Hit(t, x) => Hit(s, x)

LEMMA EvictedInv ==
  ASSUME NEW D, D \subseteq Nat, NEW n \in Nat, NEW s, SetInv(s, D, n), NEW l \in D
  PROVE  EvictedFrom(s, Evicted(s, l), D, n)
<1> DEFINE t == Evicted(s, l)
<1>1. SetType(s, D, n) /\ Linked(s, D, n)
  BY DEF SetInv
<1>2. CASE ~Hit(s, l)
  <2>1. t = s
    BY <1>2 DEF Evicted
  <2> QED BY <1>1, <2>1 DEF SetInv, EvictedFrom, t
<1>3. CASE Hit(s, l)
  <2> DEFINE e == s.map[l]
             q == Unlinked(s.list, e)
             f == Append(s.free, e)
  <2>1. e \in ToSet(s.list) /\ e \in 1..n /\ s.addr[e] = l
    BY <1>1, <1>3 DEF Linked
  <2>2. s.list \in Seq(1..n) /\ IsInjective(s.list) /\ s.free \in Seq(1..n) /\ IsInjective(s.free)
        /\ e \notin ToSet(s.free)
    BY <1>1, <2>1 DEF SetType, Linked
  <2>3. q \in Seq(1..n) /\ IsInjective(q) /\ ToSet(q) = ToSet(s.list) \ {e}
    BY <2>1, <2>2, UnlinkOne
  <2>4. f \in Seq(1..n) /\ IsInjective(f) /\ ToSet(f) = ToSet(s.free) \cup {e}
    BY <2>1, <2>2, PushLast
  <2> HIDE DEF q, f
  <2>5. t = [list |-> q, free |-> f, map |-> [s.map EXCEPT ![l] = Absent], addr |-> s.addr, dirty |-> s.dirty]
    BY <1>1, <1>3 DEF SetType, Evicted, q, f
  <2> HIDE DEF t
  <2>6. s.map \in [D -> {Absent, Null} \cup 1..n] /\ t.map = [s.map EXCEPT ![l] = Absent]
    BY <1>1, <2>5 DEF SetType
  <2>7. SetType(t, D, n)
    BY <1>1, <2>3, <2>4, <2>5, <2>6 DEF SetType
  <2>8. \A x \in D : Hit(t, x) => Hit(s, x) /\ t.map[x] = s.map[x] /\ x # l
    BY <2>6 DEF Hit
  <2>9. Linked(t, D, n)
    <3>1. t.list = q /\ t.free = f /\ t.addr = s.addr
      BY <2>5
    <3>2. ToSet(q) \cap ToSet(f) = {} /\ ToSet(q) \cup ToSet(f) = 1..n
      BY <1>1, <2>1, <2>3, <2>4 DEF Linked
    <3>3. \A x \in ToSet(q) : s.addr[x] \in D
      BY <1>1, <2>3 DEF Linked
    <3>4. ASSUME NEW x \in D, Hit(t, x) PROVE t.map[x] \in ToSet(q) /\ s.addr[t.map[x]] = x
      <4>1. s.map[x] \in ToSet(s.list) /\ s.addr[s.map[x]] = x /\ t.map[x] = s.map[x] /\ x # l
        BY <1>1, <2>8, <3>4 DEF Linked
      <4>2. s.map[x] # e
        BY <2>1, <4>1
      <4> QED BY <2>3, <4>1, <4>2
    <3> QED BY <2>3, <2>4, <3>1, <3>2, <3>3, <3>4 DEF Linked
  <2>10. NoGhost(s) => NoGhost(t)
    BY <1>1, <2>1, <2>3, <2>5, <2>6 DEF NoGhost, Linked
  <2> QED BY <2>3, <2>5, <2>7, <2>8, <2>9, <2>10 DEF SetInv, EvictedFrom, t
<1> QED BY <1>2, <1>3

\* The least recently used entry of a full set is in use, for a line.
LEMMA VictimInUse ==
  ASSUME NEW D, D \subseteq Nat, NEW n \in Nat \ {0}, NEW s, SetInv(s, D, n), Full(s)
  PROVE  /\ s.list # <<>> /\ ToSet(s.list) = 1..n
         /\ Victim(s) \in ToSet(s.list) /\ Victim(s) \in 1..n /\ s.addr[Victim(s)] \in D
         /\ Front(s.list) \in Seq(1..n) /\ IsInjective(Front(s.list))
         /\ ToSet(Front(s.list)) = ToSet(s.list) \ {Victim(s)}
<1>1. SetType(s, D, n) /\ Linked(s, D, n) /\ s.free = <<>>
  BY DEF SetInv, Full
<1>2. ToSet(<<>>) = {} /\ 1 \in 1..n
  BY DEF ToSet
<1>3. ToSet(s.list) = 1..n
  BY <1>1, <1>2 DEF Linked
<1>4. s.list # <<>> /\ s.list \in Seq(1..n) /\ IsInjective(s.list)
  BY <1>1, <1>2, <1>3 DEF SetType, Linked
<1>5. /\ Front(s.list) \in Seq(1..n) /\ IsInjective(Front(s.list))
      /\ Victim(s) \in ToSet(s.list) /\ ToSet(Front(s.list)) = ToSet(s.list) \ {Victim(s)}
  BY <1>4, WithoutLast DEF Victim
<1> QED BY <1>1, <1>3, <1>4, <1>5 DEF Linked

\* Where the entry of an insertion comes from: afterwards it is in use.
Taken(s) == IF Full(s) THEN Victim(s) ELSE Last(s.free)

TakenFor(s, t, l, isLoad, n) ==
  LET e == Taken(s)
  IN  /\ e \in 1..n
      /\ t = [list |-> t.list, free |-> t.free, map |-> [WithoutVictim(s) EXCEPT ![l] = e],
              addr |-> [s.addr EXCEPT ![e] = l], dirty |-> [s.dirty EXCEPT ![e] = ~isLoad]]
      /\ t.list \in Seq(1..n) /\ IsInjective(t.list) /\ ToSet(t.list) = ToSet(s.list) \cup {e}
      /\ t.free \in Seq(1..n) /\ IsInjective(t.free) /\ ToSet(t.free) = ToSet(s.free) \ {e}
      /\ Full(s) \/ e \notin ToSet(s.list)

LEMMA EntryTaken ==
  ASSUME NEW D, D \subseteq Nat, NEW n \in Nat \ {0}, NEW s, SetInv(s, D, n), NEW l \in D, NEW isLoad \in BOOLEAN
  PROVE  TakenFor(s, Inserted(s, l, isLoad), l, isLoad, n)
<1> DEFINE t == Inserted(s, l, isLoad)
           e == IF Full(s) THEN Victim(s) ELSE Last(s.free)
           q == IF Full(s) THEN Front(s.list) ELSE s.list
           f == IF Full(s) THEN <<>> ELSE Front(s.free)
<1>1. SetType(s, D, n) /\ Linked(s, D, n)
  BY DEF SetInv
<1>2. /\ e \in 1..n /\ q \in Seq(1..n) /\ IsInjective(q) /\ e \notin ToSet(q)
      /\ ToSet(q) \cup {e} = ToSet(s.list) \cup {e}
      /\ f \in Seq(1..n) /\ IsInjective(f) /\ ToSet(f) = ToSet(s.free) \ {e}
      /\ Full(s) \/ e \notin ToSet(s.list)
  <2>1. CASE Full(s)
    <3>1. <<>> \in Seq(1..n) /\ IsInjective(<<>>) /\ ToSet(<<>>) = {} /\ s.free = <<>>
      BY <2>1, EmptySeq DEF IsInjective, ToSet, Full
    <3>2. /\ Victim(s) \in ToSet(s.list) /\ Victim(s) \in 1..n
          /\ Front(s.list) \in Seq(1..n) /\ IsInjective(Front(s.list))
          /\ ToSet(Front(s.list)) = ToSet(s.list) \ {Victim(s)}
      BY <2>1, VictimInUse
    <3>3. e = Victim(s) /\ q = Front(s.list) /\ f = <<>>
      BY <2>1
    <3> HIDE DEF e, q, f
    <3> QED BY <2>1, <3>1, <3>2, <3>3
  <2>2. CASE ~Full(s)
    <3>1. s.free \in Seq(1..n) /\ s.free # <<>> /\ IsInjective(s.free)
      BY <1>1, <2>2 DEF SetType, Linked, Full
    <3>2. /\ Front(s.free) \in Seq(1..n) /\ IsInjective(Front(s.free))
          /\ Last(s.free) \in ToSet(s.free) /\ ToSet(Front(s.free)) = ToSet(s.free) \ {Last(s.free)}
      BY <3>1, WithoutLast
    <3>3. e = Last(s.free) /\ q = s.list /\ f = Front(s.free)
      BY <2>2
    <3>4. s.list \in Seq(1..n) /\ IsInjective(s.list) /\ e \in 1..n /\ e \notin ToSet(s.list)
      BY <1>1, <3>2, <3>3 DEF SetType, Linked
    <3> HIDE DEF e, q, f
    <3> QED BY <3>2, <3>3, <3>4
  <2> QED BY <2>1, <2>2
<1>3. t = [list |-> <<e>> \o q, free |-> f, map |-> [WithoutVictim(s) EXCEPT ![l] = e],
           addr |-> [s.addr EXCEPT ![e] = l], dirty |-> [s.dirty EXCEPT ![e] = ~isLoad]]
  BY DEF Inserted
<1> HIDE DEF e, q, f
<1>4. /\ <<e>> \o q \in Seq(1..n) /\ IsInjective(<<e>> \o q) /\ ToSet(<<e>> \o q) = ToSet(q) \cup {e}
  BY <1>2, LinkFirst
<1> HIDE DEF t
<1>5. t.list = <<e>> \o q /\ t.free = f
  BY <1>3
<1> QED BY <1>2, <1>3, <1>4, <1>5 DEF TakenFor, t, e, Taken

InsertedFrom(s, t, D, n, l, isLoad) ==
  /\ SetInv(t, D, n) /\ (NoGhost(s) /\ ~Hit(s, l) => NoGhost(t))
  /\ \A x \in D : Hit(t, x) => x = l \/ Hit(s, x)
  /\ \A x \in 1..n : t.dirty[x] => (s.dirty[x] /\ t.addr[x] = s.addr[x])
                                    \/ (~isLoad /\ t.addr[x] = l)
  /\ \A x \in 1..n : t.addr[x] \in {s.addr[x], l}

LEMMA InsertedInv ==
  ASSUME NEW D, D \subseteq Nat, NEW n \in Nat \ {0}, NEW s, SetInv(s, D, n), NEW l \in D, NEW isLoad \in BOOLEAN
  PROVE  InsertedFrom(s, Inserted(s, l, isLoad), D, n, l, isLoad)
<1> DEFINE t == Inserted(s, l, isLoad)
           e == Taken(s)
           m == WithoutVictim(s)
<1>1. SetType(s, D, n) /\ Linked(s, D, n)
  BY DEF SetInv
<1>2. /\ e \in 1..n
      /\ t = [list |-> t.list, free |-> t.free, map |-> [m EXCEPT ![l] = e],
              addr |-> [s.addr EXCEPT ![e] = l], dirty |-> [s.dirty EXCEPT ![e] = ~isLoad]]
      /\ t.list \in Seq(1..n) /\ IsInjective(t.list) /\ ToSet(t.list) = ToSet(s.list) \cup {e}
      /\ t.free \in Seq(1..n) /\ IsInjective(t.free) /\ ToSet(t.free) = ToSet(s.free) \ {e}
      /\ Full(s) \/ e \notin ToSet(s.list)
  <2>1. TakenFor(s, t, l, isLoad, n)
    BY EntryTaken
  <2> QED BY <2>1 DEF TakenFor
\* The key of the victim is taken away, so no key but the new one leads to e.
<1>3. /\ m \in [D -> {Absent, Null} \cup 1..n]
      /\ \A x \in D : m[x] = s.map[x] \/ m[x] = Absent
      /\ Full(s) => e \in ToSet(s.list) /\ m[s.addr[e]] = Absent
      /\ \A x \in D : m[x] # s.map[x] => Full(s) /\ x = s.addr[e]
  <2>1. s.map \in [D -> {Absent, Null} \cup 1..n]
    BY <1>1 DEF SetType
  <2>2. CASE Full(s)
    <3>1. e = Victim(s) /\ m = [s.map EXCEPT ![s.addr[Victim(s)]] = Absent]
      BY <2>2 DEF WithoutVictim, Taken
    <3>2. Victim(s) \in ToSet(s.list) /\ s.addr[Victim(s)] \in D
      BY <2>2, VictimInUse
    <3> HIDE DEF e, m
    <3> QED BY <2>1, <2>2, <3>1, <3>2
  <2>3. CASE ~Full(s)
    <3>1. m = s.map
      BY <2>3 DEF WithoutVictim
    <3> HIDE DEF m
    <3> QED BY <2>1, <2>3, <3>1
  <2> QED BY <2>2, <2>3
<1> HIDE DEF t, e, m
<1>4. /\ t.map = [m EXCEPT ![l] = e] /\ t.addr = [s.addr EXCEPT ![e] = l]
      /\ t.dirty = [s.dirty EXCEPT ![e] = ~isLoad]
  BY <1>2
<1>5. /\ s.addr \in [1..n -> D \cup {Absent}] /\ s.dirty \in [1..n -> BOOLEAN]
      /\ s.map \in [D -> {Absent, Null} \cup 1..n]
  BY <1>1 DEF SetType
<1>6. SetType(t, D, n)
  <2>1. t.map \in [D -> {Absent, Null} \cup 1..n]
    BY <1>2, <1>3, <1>4
  <2>2. t.addr \in [1..n -> D \cup {Absent}]
    BY <1>2, <1>4, <1>5
  <2>3. t.dirty \in [1..n -> BOOLEAN]
    BY <1>2, <1>4, <1>5
  <2>4. t = [list |-> t.list, free |-> t.free, map |-> t.map, addr |-> t.addr, dirty |-> t.dirty]
    BY <1>2, <1>4
  <2> QED BY <1>2, <2>1, <2>2, <2>3, <2>4 DEF SetType
<1>7. ASSUME NEW x \in D, x # l, Hit(t, x) PROVE Hit(s, x) /\ t.map[x] = s.map[x] /\ s.map[x] # e
  <2>1. t.map[x] = m[x] /\ m[x] # Absent /\ m[x] = s.map[x]
    BY <1>3, <1>4, <1>7 DEF Hit
  <2>2. Hit(s, x)
    BY <1>7, <2>1 DEF Hit
  <2>3. s.map[x] \in ToSet(s.list) /\ s.addr[s.map[x]] = x
    BY <1>1, <2>2 DEF Linked
  <2>4. s.map[x] # e
    BY <1>2, <1>3, <2>1, <2>3
  <2> QED BY <2>1, <2>2, <2>4
<1>8. Linked(t, D, n)
  <2>1. ToSet(t.list) \cap ToSet(t.free) = {} /\ ToSet(t.list) \cup ToSet(t.free) = 1..n
    BY <1>1, <1>2 DEF Linked
  <2>2. \A x \in ToSet(t.list) : t.addr[x] \in D
    BY <1>1, <1>2, <1>4, <1>5 DEF Linked
  <2>3. ASSUME NEW x \in D, Hit(t, x) PROVE t.map[x] \in ToSet(t.list) /\ t.addr[t.map[x]] = x
    <3>1. CASE x = l
      <4>1. t.map[x] = e /\ t.addr[e] = l
        BY <1>2, <1>3, <1>4, <1>5, <3>1
      <4> QED BY <1>2, <3>1, <4>1
    <3>2. CASE x # l
      <4>1. s.map[x] \in ToSet(s.list) /\ s.addr[s.map[x]] = x /\ t.map[x] = s.map[x] /\ s.map[x] # e
        BY <1>1, <1>7, <2>3, <3>2 DEF Linked
      <4>2. s.map[x] \in 1..n
        BY <1>1, <4>1 DEF Linked
      <4> QED BY <1>2, <1>4, <1>5, <4>1, <4>2
    <3> QED BY <3>1, <3>2
  <2> QED BY <1>2, <2>1, <2>2, <2>3 DEF Linked
<1>9. ASSUME NoGhost(s), ~Hit(s, l) PROVE NoGhost(t)
  <2> SUFFICES ASSUME NEW x \in ToSet(t.list) PROVE t.map[t.addr[x]] = x
    BY DEF NoGhost
  <2>1. CASE x = e
    BY <1>2, <1>3, <1>4, <1>5, <2>1
  <2>2. CASE x # e
    <3>1. x \in ToSet(s.list) /\ x \in 1..n /\ s.addr[x] \in D /\ s.map[s.addr[x]] = x
      BY <1>1, <1>2, <1>9, <2>2 DEF NoGhost, Linked
    <3>2. Hit(s, s.addr[x])
      BY <3>1 DEF Hit, Absent, Null
    <3>3. s.addr[x] # l
      BY <1>9, <3>2
    <3>4. Full(s) => s.addr[x] # s.addr[e]
      BY <1>3, <1>9, <2>2, <3>1 DEF NoGhost
    <3>5. m[s.addr[x]] = x
      BY <1>3, <3>1, <3>4
    <3>6. t.addr[x] = s.addr[x] /\ t.map[s.addr[x]] = m[s.addr[x]]
      BY <1>3, <1>4, <1>5, <2>2, <3>1, <3>3
    <3> QED BY <3>5, <3>6
  <2> QED BY <2>1, <2>2
<1>10. ASSUME NEW x \in 1..n, t.dirty[x]
       PROVE  \/ s.dirty[x] /\ t.addr[x] = s.addr[x]
              \/ ~isLoad /\ t.addr[x] = l
  <2>1. CASE x = e
    <3>1. t.dirty[x] = ~isLoad /\ t.addr[x] = l
      BY <1>4, <1>5, <2>1
    <3> QED BY <1>10, <3>1
  <2>2. CASE x # e
    <3>1. t.dirty[x] = s.dirty[x] /\ t.addr[x] = s.addr[x]
      BY <1>4, <1>5, <2>2
    <3> QED BY <1>10, <3>1
  <2> QED BY <2>1, <2>2
<1>11. SetInv(t, D, n)
  BY <1>6, <1>8 DEF SetInv
<1>12. \A x \in D : Hit(t, x) => x = l \/ Hit(s, x)
  BY <1>7
<1>13. \A x \in 1..n : t.addr[x] \in {s.addr[x], l}
  BY <1>4, <1>5
<1> QED BY <1>9, <1>10, <1>11, <1>12, <1>13 DEF InsertedFrom, t

-----------------------------------------------------------------------------
(* Caches.                                                                 *)

\* A set whose entries are of lines that are accessed, and in which only lines
\* of known may be dirty.
SetOK(s, D, n, known) ==
  /\ SetInv(s, D, n)
  /\ \A e \in 1..n : s.addr[e] \in Lines \cup {Absent} /\ (s.dirty[e] => s.addr[e] \in known)

CacheOK(C, m, n, known) ==
  /\ C = [k \in Sets(m) |-> C[k]]
  /\ \A k \in Sets(m) : SetOK(C[k], LinesOf(m, k), n, known)

\* The L1s, or the L2s, of all cores.
PrivateOK(L, m, n, known) ==
  /\ L = [c \in Cores |-> L[c]]
  /\ \A c \in Cores : CacheOK(L[c], m, n, known) /\ \A k \in Sets(m) : NoGhost(L[c][k])

\* A set of numbers from 1 to n has a greatest one.
LEMMA MaxIs ==
  ASSUME NEW n \in Nat, NEW P, P \subseteq 1..n, P # {}
  PROVE  Max(P) \in P /\ \A q \in P : q <= Max(P)
<1> DEFINE T == {n - q : q \in P}
           R == OpToRel(<, Nat)
<1>1. T \subseteq Nat /\ T # {} /\ \A q \in P : q \in Int
  <2>1. \A q \in P : q \in Int /\ n - q \in Nat
    OBVIOUS
  <2> QED BY <2>1
<1>2. IsWellFoundedOn(R, Nat)
  BY NatLessThanWellFounded
<1>3. \A x \in Nat, y \in Nat : y < x => <<y, x>> \in R
  BY DEF OpToRel
<1> HIDE DEF R
<1>4. PICK q \in P : \A y \in T : ~(<<y, n - q>> \in R)
  <2> HIDE DEF T
  <2>1. PICK x \in T : \A y \in T : ~(<<y, x>> \in R)
    BY <1>1, <1>2, WFMin
  <2> QED BY <2>1 DEF T
<1>5. ASSUME NEW x \in P PROVE x <= q
  <2>1. n - x \in Nat /\ n - q \in Nat /\ x \in Int /\ q \in Int
    BY <1>1
  <2>2. ~(n - x < n - q)
    BY <1>3, <1>4, <2>1
  <2> QED BY <2>1, <2>2
<1>6. \A x \in P : q >= x
  BY <1>1, <1>5
<1>7. Max(P) \in P /\ \A x \in P : Max(P) >= x
  BY <1>6 DEF Max
<1> QED BY <1>1, <1>7

\* extract names at least one set, and none that is not there.
LEMMA Indexed ==
  ASSUME NEW m \in Nat \ {0}
  PROVE  /\ IndexedSets(m) \in 1..m
         /\ \A log \in 0..m : m = 2 ^ log => IndexedSets(m) = m
<1> DEFINE P == {2 ^ log : log \in 0..m} \cap 1..m
<1>1. 1 \in P
  <2>1. 2 ^ 0 = 1 /\ 0 \in 0..m /\ 1 \in 1..m
    OBVIOUS
  <2> QED BY <2>1
<1>2. \A log \in 0..m : m = 2 ^ log => m \in P
  OBVIOUS
<1>3. P \subseteq 1..m
  OBVIOUS
<1>4. IndexedSets(m) = Max(P)
  BY DEF IndexedSets
<1> HIDE DEF P
<1>5. Max(P) \in P /\ \A q \in P : q <= Max(P)
  BY <1>1, <1>3, MaxIs
<1>6. Max(P) \in 1..m /\ (m \in P => m <= Max(P))
  BY <1>3, <1>5
<1> QED BY <1>2, <1>4, <1>6

LEMMA Sizes ==
  /\ L1Sets \in Nat \ {0} /\ L2Sets \in Nat \ {0} /\ LlcSets \in Nat \ {0}
  /\ L1Ways \in Nat \ {0} /\ L2Ways \in Nat \ {0} /\ LlcWays \in Nat \ {0}
BY CacheAssumption

\* A line put together is a number too, and the right one if every set has a
\* number of log2(set_count) bits.
LEMMA RebuiltIs ==
  ASSUME NEW m \in Nat \ {0}, NEW l \in Nat
  PROVE  /\ SetOf(m, l) \in Sets(m) /\ Rebuilt(m, l) \in Nat
         /\ IndexedSets(m) = m => Rebuilt(m, l) = l
<1> DEFINE i == IndexedSets(m)
<1>1. i \in Nat \ {0} /\ i <= m
  BY Indexed
<1>2. SetOf(m, l) = l % i /\ TagOf(m, l) = l \div i
  BY DEF SetOf, TagOf
<1>3. Rebuilt(m, l) = (l \div i) * m + (l % i)
  BY <1>2 DEF Rebuilt, LineOf
<1> HIDE DEF i
<1>4. l % i \in 0..(i - 1) /\ l \div i \in Nat /\ l = i * (l \div i) + (l % i)
  BY <1>1
<1>5. SetOf(m, l) \in Sets(m)
  BY <1>1, <1>2, <1>4 DEF Sets
<1>6. Rebuilt(m, l) \in Nat
  <2>1. (l \div i) * m \in Nat /\ l % i \in Nat
    BY <1>4
  <2> QED BY <1>3, <2>1
<1>7. ASSUME i = m PROVE Rebuilt(m, l) = l
  <2>1. (l \div m) * m = m * (l \div m)
    BY <1>4, <1>7
  <2> QED BY <1>3, <1>4, <1>7, <2>1
<1> QED BY <1>5, <1>6, <1>7 DEF i

LEMMA AddressesAre ==
  /\ Lines \subseteq Addresses /\ Addresses \subseteq Nat
  /\ \A m \in {L1Sets, L2Sets, LlcSets}, l \in Lines : Rebuilt(m, l) \in Addresses
<1>1. Lines \subseteq Nat
  BY CacheAssumption
<1> DEFINE counts == {L1Sets, L2Sets, LlcSets}
<1>2. \A m \in counts, l \in Lines : Rebuilt(m, l) \in Nat
  BY <1>1, Sizes, RebuiltIs
<1>3. Addresses = Lines \cup {Rebuilt(m, l) : m \in counts, l \in Lines}
  BY DEF Addresses
<1> HIDE DEF counts
<1>4. \A m \in counts, l \in Lines : Rebuilt(m, l) \in Addresses
  BY <1>3
<1>5. Lines \subseteq Addresses
  BY <1>3
<1>6. ASSUME NEW a \in Addresses, a \notin Lines PROVE a \in Nat
  <2>1. PICK m \in counts, l \in Lines : a = Rebuilt(m, l)
    BY <1>3, <1>6
  <2> QED BY <1>2, <2>1
<1> QED BY <1>1, <1>4, <1>5, <1>6 DEF counts

LEMMA SetOfLine ==
  ASSUME NEW m \in Nat \ {0}, NEW l \in Addresses
  PROVE  SetOf(m, l) \in Sets(m) /\ l \in LinesOf(m, SetOf(m, l)) /\ LinesOf(m, SetOf(m, l)) \subseteq Nat
<1>1. l \in Nat /\ Addresses \subseteq Nat
  BY AddressesAre
<1>2. SetOf(m, l) \in Sets(m)
  BY <1>1, RebuiltIs
<1> QED BY <1>1, <1>2 DEF LinesOf

LEMMA MoreKnown ==
  ASSUME NEW m, NEW n, NEW known, NEW known2, known \subseteq known2
  PROVE  /\ \A s, D : SetOK(s, D, n, known) => SetOK(s, D, n, known2)
         /\ \A C : CacheOK(C, m, n, known) => CacheOK(C, m, n, known2)
         /\ \A L : PrivateOK(L, m, n, known) => PrivateOK(L, m, n, known2)
<1>1. \A s, D : SetOK(s, D, n, known) => SetOK(s, D, n, known2)
  BY DEF SetOK
<1>2. \A C : CacheOK(C, m, n, known) => CacheOK(C, m, n, known2)
  BY <1>1 DEF CacheOK
<1>3. \A L : PrivateOK(L, m, n, known) => PrivateOK(L, m, n, known2)
  BY <1>2 DEF PrivateOK
<1> QED BY <1>1, <1>2, <1>3

\* One set of a cache is replaced.
PutInto(C, B, k, s, m, n, known) ==
  /\ CacheOK(B, m, n, known)
  /\ \A j \in Sets(m) : B[j] = IF j = k THEN s ELSE C[j]

LEMMA PutSet ==
  ASSUME NEW m, NEW n, NEW known, NEW C, CacheOK(C, m, n, known),
         NEW k \in Sets(m), NEW s, SetOK(s, LinesOf(m, k), n, known)
  PROVE  PutInto(C, [C EXCEPT ![k] = s], k, s, m, n, known)
<1> DEFINE B == [C EXCEPT ![k] = s]
<1>1. C = [j \in Sets(m) |-> C[j]]
  BY DEF CacheOK
<1>2. /\ B = [j \in Sets(m) |-> B[j]]
      /\ \A j \in Sets(m) : B[j] = IF j = k THEN s ELSE C[j]
  BY <1>1
<1> HIDE DEF B
<1>3. CacheOK(B, m, n, known)
  BY <1>2 DEF CacheOK
<1> QED BY <1>2, <1>3 DEF PutInto, B

PutOf(L, M, c, k, s, m, n, known) ==
  /\ PrivateOK(M, m, n, known)
  /\ \A d \in Cores, j \in Sets(m) : M[d][j] = IF d = c /\ j = k THEN s ELSE L[d][j]

LEMMA PutPrivate ==
  ASSUME NEW m, NEW n, NEW known, NEW L, PrivateOK(L, m, n, known),
         NEW c \in Cores, NEW k \in Sets(m), NEW s, SetOK(s, LinesOf(m, k), n, known), NoGhost(s)
  PROVE  PutOf(L, [L EXCEPT ![c][k] = s], c, k, s, m, n, known)
<1> DEFINE M == [L EXCEPT ![c][k] = s]
           B == [L[c] EXCEPT ![k] = s]
<1>1. L = [d \in Cores |-> L[d]] /\ CacheOK(L[c], m, n, known)
  BY DEF PrivateOK
<1>2. M = [d \in Cores |-> M[d]] /\ M[c] = B /\ \A d \in Cores : d # c => M[d] = L[d]
  BY <1>1
<1> HIDE DEF M
<1>3. PutInto(L[c], B, k, s, m, n, known)
  BY <1>1, PutSet
<1> HIDE DEF B
<1>4. \A d \in Cores, j \in Sets(m) : M[d][j] = IF d = c /\ j = k THEN s ELSE L[d][j]
  BY <1>2, <1>3 DEF PutInto
<1>5. \A d \in Cores : CacheOK(M[d], m, n, known)
  BY <1>2, <1>3 DEF PrivateOK, PutInto
<1>6. ASSUME NEW d \in Cores, NEW j \in Sets(m) PROVE NoGhost(M[d][j])
  <2>1. NoGhost(L[d][j])
    BY DEF PrivateOK
  <2>2. M[d][j] = s \/ M[d][j] = L[d][j]
    BY <1>4
  <2> QED BY <2>1, <2>2
<1>7. PrivateOK(M, m, n, known)
  BY <1>2, <1>5, <1>6 DEF PrivateOK
<1> QED BY <1>4, <1>7 DEF PutOf, M

\* What an access, a fill and an eviction do to the private caches.
SameHits(L, M, m) ==
  \A d \in Cores, x \in Lines : Hit(M[d][SetOf(m, x)], x) <=> Hit(L[d][SetOf(m, x)], x)
NewHitOnly(L, M, m, c, l) ==
  \A d \in Cores, x \in Lines :
     Hit(M[d][SetOf(m, x)], x) => Hit(L[d][SetOf(m, x)], x) \/ (d = c /\ x = l)
NoNewHit(L, M, m) ==
  \A d \in Cores, x \in Lines : Hit(M[d][SetOf(m, x)], x) => Hit(L[d][SetOf(m, x)], x)

LEMMA PrivateAccess ==
  ASSUME NEW m \in Nat \ {0}, NEW n \in Nat \ {0}, NEW known, NEW L, PrivateOK(L, m, n, known),
         NEW c \in Cores, NEW l \in Addresses, NEW isLoad \in BOOLEAN, isLoad \/ l \in known,
         NEW M, M = [L EXCEPT ![c][SetOf(m, l)] = Accessed(L[c][SetOf(m, l)], l, isLoad)]
  PROVE  PrivateOK(M, m, n, known) /\ SameHits(L, M, m)
<1> DEFINE k == SetOf(m, l)
           D == LinesOf(m, k)
           s == L[c][k]
           t == Accessed(s, l, isLoad)
<1>1. k \in Sets(m) /\ l \in D /\ D \subseteq Nat
  BY AddressesAre, SetOfLine
<1>2. SetOK(s, D, n, known) /\ NoGhost(s)
  BY <1>1 DEF PrivateOK, CacheOK
<1> HIDE DEF k, D, s
<1>3. /\ SetInv(t, D, n) /\ NoGhost(t) /\ t.addr = s.addr
      /\ \A x \in D : Hit(t, x) <=> Hit(s, x)
      /\ \A e \in 1..n : t.dirty[e] => s.dirty[e] \/ (~isLoad /\ s.addr[e] = l)
  <2>1. SetInv(s, D, n)
    BY <1>2 DEF SetOK
  <2>2. AccessedFrom(s, t, D, n, l, isLoad)
    BY <1>1, <2>1, AccessedInv
  <2> HIDE DEF t
  <2> QED BY <1>2, <2>2 DEF AccessedFrom
<1> HIDE DEF t
<1>4. SetOK(t, D, n, known)
  BY <1>2, <1>3 DEF SetOK
<1>5. M = [L EXCEPT ![c][k] = t]
  BY DEF k, s, t
<1>6. /\ PrivateOK(M, m, n, known)
      /\ \A d \in Cores, j \in Sets(m) : M[d][j] = IF d = c /\ j = k THEN t ELSE L[d][j]
  <2>1. PutOf(L, [L EXCEPT ![c][k] = t], c, k, t, m, n, known)
    BY <1>1, <1>3, <1>4, PutPrivate DEF D
  <2> QED BY <1>5, <2>1 DEF PutOf
<1>7. ASSUME NEW d \in Cores, NEW x \in Lines
      PROVE  Hit(M[d][SetOf(m, x)], x) <=> Hit(L[d][SetOf(m, x)], x)
  <2>1. SetOf(m, x) \in Sets(m) /\ x \in LinesOf(m, SetOf(m, x))
    BY AddressesAre, SetOfLine
  <2>2. CASE d = c /\ SetOf(m, x) = k
    <3>1. M[d][SetOf(m, x)] = t /\ L[d][SetOf(m, x)] = s /\ x \in D
      BY <1>6, <2>1, <2>2 DEF s, D
    <3> QED BY <1>3, <3>1
  <2>3. CASE ~(d = c /\ SetOf(m, x) = k)
    <3>1. M[d][SetOf(m, x)] = L[d][SetOf(m, x)]
      BY <1>6, <2>1, <2>3
    <3> QED BY <3>1
  <2> QED BY <2>2, <2>3
<1> QED BY <1>6, <1>7 DEF SameHits

LEMMA PrivateFill ==
  ASSUME NEW m \in Nat \ {0}, NEW n \in Nat \ {0}, NEW known, NEW L, PrivateOK(L, m, n, known),
         NEW c \in Cores, NEW l \in Lines, NEW isLoad \in BOOLEAN, isLoad \/ l \in known,
         ~Hit(L[c][SetOf(m, l)], l),
         NEW M, M = [L EXCEPT ![c][SetOf(m, l)] = Inserted(L[c][SetOf(m, l)], l, isLoad)]
  PROVE  PrivateOK(M, m, n, known) /\ NewHitOnly(L, M, m, c, l)
<1> DEFINE k == SetOf(m, l)
           D == LinesOf(m, k)
           s == L[c][k]
           t == Inserted(s, l, isLoad)
<1>1. k \in Sets(m) /\ l \in D /\ D \subseteq Nat
  BY AddressesAre, SetOfLine
<1>2. SetOK(s, D, n, known) /\ NoGhost(s) /\ ~Hit(s, l)
  BY <1>1 DEF PrivateOK, CacheOK
<1> HIDE DEF k, D, s
<1>3. /\ SetInv(t, D, n) /\ NoGhost(t)
      /\ \A x \in D : Hit(t, x) => x = l \/ Hit(s, x)
      /\ \A e \in 1..n : t.dirty[e] => (s.dirty[e] /\ t.addr[e] = s.addr[e]) \/ (~isLoad /\ t.addr[e] = l)
      /\ \A e \in 1..n : t.addr[e] \in {s.addr[e], l}
  <2>1. SetInv(s, D, n)
    BY <1>2 DEF SetOK
  <2>2. InsertedFrom(s, t, D, n, l, isLoad)
    BY <1>1, <2>1, InsertedInv
  <2> HIDE DEF t
  <2> QED BY <1>2, <2>2 DEF InsertedFrom
<1> HIDE DEF t
<1>4. SetOK(t, D, n, known)
  BY <1>2, <1>3 DEF SetOK
<1>5. M = [L EXCEPT ![c][k] = t]
  BY DEF k, s, t
<1>6. /\ PrivateOK(M, m, n, known)
      /\ \A d \in Cores, j \in Sets(m) : M[d][j] = IF d = c /\ j = k THEN t ELSE L[d][j]
  <2>1. PutOf(L, [L EXCEPT ![c][k] = t], c, k, t, m, n, known)
    BY <1>1, <1>3, <1>4, PutPrivate DEF D
  <2> QED BY <1>5, <2>1 DEF PutOf
<1>7. ASSUME NEW d \in Cores, NEW x \in Lines, Hit(M[d][SetOf(m, x)], x)
      PROVE  Hit(L[d][SetOf(m, x)], x) \/ (d = c /\ x = l)
  <2>1. SetOf(m, x) \in Sets(m) /\ x \in LinesOf(m, SetOf(m, x))
    BY AddressesAre, SetOfLine
  <2>2. CASE d = c /\ SetOf(m, x) = k
    <3>1. M[d][SetOf(m, x)] = t /\ L[d][SetOf(m, x)] = s /\ x \in D
      BY <1>6, <2>1, <2>2 DEF s, D
    <3> QED BY <1>3, <1>7, <2>2, <3>1
  <2>3. CASE ~(d = c /\ SetOf(m, x) = k)
    <3>1. M[d][SetOf(m, x)] = L[d][SetOf(m, x)]
      BY <1>6, <2>1, <2>3
    <3> QED BY <1>7, <3>1
  <2> QED BY <2>2, <2>3
<1> QED BY <1>6, <1>7 DEF NewHitOnly

LEMMA PrivateEvict ==
  ASSUME NEW m \in Nat \ {0}, NEW n \in Nat \ {0}, NEW known, NEW L, PrivateOK(L, m, n, known),
         NEW c \in Cores, NEW l \in Addresses,
         NEW M, M = [L EXCEPT ![c][SetOf(m, l)] = Evicted(L[c][SetOf(m, l)], l)]
  PROVE  PrivateOK(M, m, n, known) /\ NoNewHit(L, M, m)
<1> DEFINE k == SetOf(m, l)
           D == LinesOf(m, k)
           s == L[c][k]
           t == Evicted(s, l)
<1>1. k \in Sets(m) /\ l \in D /\ D \subseteq Nat
  BY AddressesAre, SetOfLine
<1>2. SetOK(s, D, n, known) /\ NoGhost(s)
  BY <1>1 DEF PrivateOK, CacheOK
<1> HIDE DEF k, D, s
<1>3. /\ SetInv(t, D, n) /\ NoGhost(t) /\ t.addr = s.addr /\ t.dirty = s.dirty
      /\ \A x \in D : Hit(t, x) => Hit(s, x)
  <2>1. SetInv(s, D, n)
    BY <1>2 DEF SetOK
  <2>2. EvictedFrom(s, t, D, n)
    BY <1>1, <2>1, EvictedInv
  <2> HIDE DEF t
  <2> QED BY <1>2, <2>2 DEF EvictedFrom
<1> HIDE DEF t
<1>4. SetOK(t, D, n, known)
  BY <1>2, <1>3 DEF SetOK
<1>5. M = [L EXCEPT ![c][k] = t]
  BY DEF k, s, t
<1>6. /\ PrivateOK(M, m, n, known)
      /\ \A d \in Cores, j \in Sets(m) : M[d][j] = IF d = c /\ j = k THEN t ELSE L[d][j]
  <2>1. PutOf(L, [L EXCEPT ![c][k] = t], c, k, t, m, n, known)
    BY <1>1, <1>3, <1>4, PutPrivate DEF D
  <2> QED BY <1>5, <2>1 DEF PutOf
<1>7. ASSUME NEW d \in Cores, NEW x \in Lines, Hit(M[d][SetOf(m, x)], x)
      PROVE  Hit(L[d][SetOf(m, x)], x)
  <2>1. SetOf(m, x) \in Sets(m) /\ x \in LinesOf(m, SetOf(m, x))
    BY AddressesAre, SetOfLine
  <2>2. CASE d = c /\ SetOf(m, x) = k
    <3>1. M[d][SetOf(m, x)] = t /\ L[d][SetOf(m, x)] = s /\ x \in D
      BY <1>6, <2>1, <2>2 DEF s, D
    <3> QED BY <1>3, <1>7, <3>1
  <2>3. CASE ~(d = c /\ SetOf(m, x) = k)
    <3>1. M[d][SetOf(m, x)] = L[d][SetOf(m, x)]
      BY <1>6, <2>1, <2>3
    <3> QED BY <1>7, <3>1
  <2> QED BY <2>2, <2>3
<1> QED BY <1>6, <1>7 DEF NoNewHit

\* The LLC may have a line twice, so less is said of it.
LEMMA SharedOK ==
  ASSUME NEW m \in Nat \ {0}, NEW n \in Nat \ {0}, NEW known, NEW C, CacheOK(C, m, n, known),
         NEW l \in Addresses, NEW isLoad \in BOOLEAN
  PROVE  /\ isLoad \/ l \in known =>
              /\ CacheOK([C EXCEPT ![SetOf(m, l)] = Accessed(C[SetOf(m, l)], l, isLoad)], m, n, known)
              /\ l \in Lines =>
                    CacheOK([C EXCEPT ![SetOf(m, l)] = Inserted(C[SetOf(m, l)], l, isLoad)], m, n, known)
         /\ CacheOK([C EXCEPT ![SetOf(m, l)] = Evicted(C[SetOf(m, l)], l)], m, n, known)
<1> DEFINE k == SetOf(m, l)
           D == LinesOf(m, k)
           s == C[k]
           a == Accessed(s, l, isLoad)
           i == Inserted(s, l, isLoad)
           v == Evicted(s, l)
<1>1. k \in Sets(m) /\ l \in D /\ D \subseteq Nat
  BY SetOfLine
<1>2. SetOK(s, D, n, known)
  BY <1>1 DEF CacheOK
<1> HIDE DEF k, D, s
<1>3. /\ SetInv(a, D, n) /\ a.addr = s.addr
      /\ \A e \in 1..n : a.dirty[e] => s.dirty[e] \/ (~isLoad /\ s.addr[e] = l)
  <2>1. SetInv(s, D, n)
    BY <1>2 DEF SetOK
  <2>2. AccessedFrom(s, a, D, n, l, isLoad)
    BY <1>1, <2>1, AccessedInv
  <2> HIDE DEF a
  <2> QED BY <2>2 DEF AccessedFrom
<1>4. /\ SetInv(i, D, n)
      /\ \A e \in 1..n : i.dirty[e] => (s.dirty[e] /\ i.addr[e] = s.addr[e]) \/ (~isLoad /\ i.addr[e] = l)
      /\ \A e \in 1..n : i.addr[e] \in {s.addr[e], l}
  <2>1. SetInv(s, D, n)
    BY <1>2 DEF SetOK
  <2>2. InsertedFrom(s, i, D, n, l, isLoad)
    BY <1>1, <2>1, InsertedInv
  <2> HIDE DEF i
  <2> QED BY <2>2 DEF InsertedFrom
<1>5. SetInv(v, D, n) /\ v.addr = s.addr /\ v.dirty = s.dirty
  <2>1. SetInv(s, D, n)
    BY <1>2 DEF SetOK
  <2>2. EvictedFrom(s, v, D, n)
    BY <1>1, <2>1, EvictedInv
  <2> HIDE DEF v
  <2> QED BY <2>2 DEF EvictedFrom
<1> HIDE DEF a, i, v
<1>6. isLoad \/ l \in known => SetOK(a, D, n, known) /\ (l \in Lines => SetOK(i, D, n, known))
  BY <1>2, <1>3, <1>4 DEF SetOK
<1>7. SetOK(v, D, n, known)
  BY <1>2, <1>5 DEF SetOK
<1>8. isLoad \/ l \in known => /\ CacheOK([C EXCEPT ![k] = a], m, n, known)
                               /\ l \in Lines => CacheOK([C EXCEPT ![k] = i], m, n, known)
  <2>1. SetOK(a, D, n, known) => PutInto(C, [C EXCEPT ![k] = a], k, a, m, n, known)
    BY <1>1, PutSet DEF D
  <2>2. SetOK(i, D, n, known) => PutInto(C, [C EXCEPT ![k] = i], k, i, m, n, known)
    BY <1>1, PutSet DEF D
  <2> QED BY <1>6, <2>1, <2>2 DEF PutInto
<1>9. CacheOK([C EXCEPT ![k] = v], m, n, known)
  <2>1. PutInto(C, [C EXCEPT ![k] = v], k, v, m, n, known)
    BY <1>1, <1>7, PutSet DEF D
  <2> QED BY <2>1 DEF PutInto
<1>10. (isLoad \/ l \in known) /\ l \in Lines => CacheOK([C EXCEPT ![k] = i], m, n, known)
  BY <1>8
<1>11. isLoad \/ l \in known => CacheOK([C EXCEPT ![k] = a], m, n, known)
  BY <1>8
<1>12. (isLoad \/ l \in known) /\ l \in Lines =>
          CacheOK([C EXCEPT ![SetOf(m, l)] = Inserted(C[SetOf(m, l)], l, isLoad)], m, n, known)
  BY <1>10 DEF k, s, i
<1>13. isLoad \/ l \in known =>
          CacheOK([C EXCEPT ![SetOf(m, l)] = Accessed(C[SetOf(m, l)], l, isLoad)], m, n, known)
  BY <1>11 DEF k, s, a
<1>14. CacheOK([C EXCEPT ![SetOf(m, l)] = Evicted(C[SetOf(m, l)], l)], m, n, known)
  BY <1>9 DEF k, s, v
<1> QED BY <1>12, <1>13, <1>14

\* Write-backs under way, of lines of known only.
Pending(known) == {p \in [Addresses -> Nat] : \A x \in Addresses \ known : p[x] = 0}

\* A dirty victim is a line of known, and written back to the line that is
\* put together for it.
LEMMA WriteBackOK ==
  ASSUME NEW m \in {L1Sets, L2Sets, LlcSets}, NEW n \in Nat \ {0}, NEW known, NEW C, CacheOK(C, m, n, known),
         NEW p \in Pending(RebuiltOf(m, known)), NEW l \in Lines
  PROVE  WriteBack(p, m, C[SetOf(m, l)], l) \in Pending(RebuiltOf(m, known))
<1> DEFINE k == SetOf(m, l)
           s == C[k]
           x == s.addr[Victim(s)]
<1>1. k \in Sets(m) /\ LinesOf(m, k) \subseteq Nat
  BY Sizes, AddressesAre, SetOfLine
<1>2. SetOK(s, LinesOf(m, k), n, known)
  BY <1>1 DEF CacheOK
<1>3. CASE ~LosesDirty(s)
  BY <1>3 DEF WriteBack
<1>4. CASE LosesDirty(s)
  <2>1. SetInv(s, LinesOf(m, k), n) /\ Full(s) /\ s.dirty[Victim(s)]
    BY <1>2, <1>4 DEF SetOK, LosesDirty
  <2>2. Victim(s) \in 1..n /\ x \in LinesOf(m, k)
    BY <1>1, <2>1, VictimInUse
  <2>3. x \in known /\ x \in Lines
    BY <1>1, <1>2, <2>1, <2>2 DEF SetOK, Absent
  <2>4. SetOf(m, x) = SetOf(m, l)
    BY <2>2 DEF LinesOf
  <2>5. LineOf(m, TagOf(m, x), SetOf(m, l)) = Rebuilt(m, x)
    BY <2>4 DEF Rebuilt
  <2>6. WriteBack(p, m, s, l) = [p EXCEPT ![LineOf(m, TagOf(m, x), SetOf(m, l))] = @ + 1]
    BY <1>4 DEF WriteBack
  <2> HIDE DEF x
  <2> DEFINE y == Rebuilt(m, x)
             B == RebuiltOf(m, known)
  <2>7. WriteBack(p, m, s, l) = [p EXCEPT ![y] = @ + 1]
    BY <2>5, <2>6
  <2>8. y \in Addresses /\ y \in B
    BY <2>3, AddressesAre DEF RebuiltOf
  <2> HIDE DEF y, B
  <2>9. p \in Pending(B)
    BY DEF B
  <2>10. [p EXCEPT ![y] = @ + 1] \in Pending(B)
    BY <2>8, <2>9 DEF Pending
  <2> QED BY <2>7, <2>10 DEF B
<1> QED BY <1>3, <1>4

-----------------------------------------------------------------------------
(* The hierarchy.                                                          *)

Stages == {"none", "L2", "LLC", "memory", "LLC fill", "L2 fill", "L1 fill"}
MissedL2 == {"LLC", "memory", "LLC fill", "L2 fill"}

TypeInv ==
  /\ stored \subseteq Lines
  /\ stage \in [Cores -> [Lines -> Stages]] /\ primary \in [Cores -> [Lines -> BOOLEAN]]

CachesInv ==
  /\ PrivateOK(l1, L1Sets, L1Ways, stored) /\ PrivateOK(l2, L2Sets, L2Ways, WrittenL2)
  /\ CacheOK(llc, LlcSets, LlcWays, WrittenLlc)

\* A request is for a line the caches it has missed in still do not have, so
\* its fill does not insert a line that is there.
RequestsInv ==
  \A c \in Cores, l \in Lines :
     /\ stage[c][l] # "none" => ~Hit(L1Of(c, l), l) /\ (primary[c][l] \/ l \in stored)
     /\ stage[c][l] \in MissedL2 => ~Hit(L2Of(c, l), l)

L1Pending == Pending(RebuiltOf(L1Sets, stored))
L2Pending == Pending(RebuiltOf(L2Sets, WrittenL2))
LlcPending == Pending(RebuiltOf(LlcSets, WrittenLlc))

WritebacksInv ==
  /\ l1Evict \in [Cores -> L1Pending] /\ l2Evict \in [Cores -> L2Pending]
  /\ memWrites \in LlcPending

IInv == TypeInv /\ CachesInv /\ RequestsInv /\ WritebacksInv

\* A store is known to all caches, and what one is sent to the next.
LEMMA Written ==
  /\ stored \subseteq WrittenL2 /\ stored \subseteq WrittenLlc
  /\ RebuiltOf(L1Sets, stored) \subseteq WrittenL2 /\ RebuiltOf(L2Sets, WrittenL2) \subseteq WrittenLlc
BY DEF WrittenL2, WrittenLlc

\* More stores, more lines that may be dirty or written back; and as many
\* otherwise.
LEMMA MoreWritten ==
  ASSUME stored \subseteq stored'
  PROVE  /\ WrittenL2 \subseteq WrittenL2' /\ WrittenLlc \subseteq WrittenLlc'
         /\ L1Pending \subseteq L1Pending' /\ L2Pending \subseteq L2Pending' /\ LlcPending \subseteq LlcPending'
<1>1. \A m, S, T : S \subseteq T => RebuiltOf(m, S) \subseteq RebuiltOf(m, T)
  BY DEF RebuiltOf
<1>2. WrittenL2' = stored' \cup RebuiltOf(L1Sets, stored')
  BY DEF WrittenL2, RebuiltOf
<1>3. WrittenLlc' = stored' \cup RebuiltOf(L2Sets, WrittenL2')
  BY DEF WrittenLlc, RebuiltOf
<1>4. WrittenL2 \subseteq WrittenL2'
  BY <1>1, <1>2 DEF WrittenL2
<1>5. WrittenLlc \subseteq WrittenLlc'
  BY <1>1, <1>3, <1>4 DEF WrittenLlc
<1>6. \A S, T : S \subseteq T => Pending(S) \subseteq Pending(T)
  BY DEF Pending
<1>7. /\ L1Pending' = Pending(RebuiltOf(L1Sets, stored'))
      /\ L2Pending' = Pending(RebuiltOf(L2Sets, WrittenL2'))
      /\ LlcPending' = Pending(RebuiltOf(LlcSets, WrittenLlc'))
  BY DEF L1Pending, L2Pending, LlcPending, Pending, RebuiltOf
<1>8. L1Pending \subseteq L1Pending'
  BY <1>1, <1>6, <1>7 DEF L1Pending
<1>9. L2Pending \subseteq L2Pending'
  BY <1>1, <1>4, <1>6, <1>7 DEF L2Pending
<1>10. LlcPending \subseteq LlcPending'
  BY <1>1, <1>5, <1>6, <1>7 DEF LlcPending
<1> QED BY <1>4, <1>5, <1>8, <1>9, <1>10

LEMMA SameWritten ==
  ASSUME stored' = stored
  PROVE  /\ WrittenL2' = WrittenL2 /\ WrittenLlc' = WrittenLlc
         /\ L1Pending' = L1Pending /\ L2Pending' = L2Pending /\ LlcPending' = LlcPending
BY DEF WrittenL2, WrittenLlc, RebuiltOf, L1Pending, L2Pending, LlcPending, Pending

LEMMA Kept ==
  ASSUME stored' = stored
  PROVE  /\ /\ PrivateOK(l1', L1Sets, L1Ways, stored) /\ PrivateOK(l2', L2Sets, L2Ways, WrittenL2)
            /\ CacheOK(llc', LlcSets, LlcWays, WrittenLlc)
            => CachesInv'
         /\ /\ l1Evict' \in [Cores -> L1Pending] /\ l2Evict' \in [Cores -> L2Pending]
            /\ memWrites' \in LlcPending
            => WritebacksInv'
<1>1. /\ WrittenL2' = WrittenL2 /\ WrittenLlc' = WrittenLlc
      /\ L1Pending' = L1Pending /\ L2Pending' = L2Pending /\ LlcPending' = LlcPending
  BY SameWritten
<1> QED BY <1>1 DEF CachesInv, WritebacksInv

LEMMA NewCacheOK ==
  ASSUME NEW m \in Nat \ {0}, NEW n \in Nat \ {0}, NEW known
  PROVE  CacheOK(NewCache(m, n), m, n, known) /\ \A k \in Sets(m) : NoGhost(NewCache(m, n)[k])
<1> DEFINE C == NewCache(m, n)
<1>1. C = [k \in Sets(m) |-> C[k]] /\ \A k \in Sets(m) : C[k] = NewSet(n, LinesOf(m, k))
  BY DEF NewCache
<1>2. ASSUME NEW k \in Sets(m) PROVE SetOK(C[k], LinesOf(m, k), n, known) /\ NoGhost(C[k])
  <2> DEFINE s == NewSet(n, LinesOf(m, k))
  <2>1. LinesOf(m, k) \subseteq Nat
    BY AddressesAre DEF LinesOf
  <2>2. SetInv(s, LinesOf(m, k), n) /\ NoGhost(s)
    BY <2>1, NewSetInv
  <2>3. \A e \in 1..n : s.addr[e] = Absent /\ ~s.dirty[e]
    BY DEF NewSet
  <2> HIDE DEF s
  <2>4. SetOK(s, LinesOf(m, k), n, known)
    BY <2>2, <2>3 DEF SetOK
  <2> QED BY <1>1, <2>2, <2>4 DEF s
<1> HIDE DEF C
<1> QED BY <1>1, <1>2 DEF CacheOK, C

LEMMA InitInv == Init => IInv
<1> SUFFICES ASSUME Init PROVE IInv
  OBVIOUS
<1>1. TypeInv
  BY DEF Init, TypeInv, Stages
<1>2. PrivateOK(l1, L1Sets, L1Ways, stored)
  <2>1. l1 = [c \in Cores |-> l1[c]] /\ \A c \in Cores : l1[c] = NewCache(L1Sets, L1Ways)
    BY DEF Init
  <2>2. CacheOK(NewCache(L1Sets, L1Ways), L1Sets, L1Ways, stored)
        /\ \A k \in Sets(L1Sets) : NoGhost(NewCache(L1Sets, L1Ways)[k])
    BY Sizes, NewCacheOK
  <2> QED BY <2>1, <2>2 DEF PrivateOK
<1>3. PrivateOK(l2, L2Sets, L2Ways, WrittenL2)
  <2>1. l2 = [c \in Cores |-> l2[c]] /\ \A c \in Cores : l2[c] = NewCache(L2Sets, L2Ways)
    BY DEF Init
  <2>2. CacheOK(NewCache(L2Sets, L2Ways), L2Sets, L2Ways, WrittenL2)
        /\ \A k \in Sets(L2Sets) : NoGhost(NewCache(L2Sets, L2Ways)[k])
    BY Sizes, NewCacheOK
  <2> QED BY <2>1, <2>2 DEF PrivateOK
<1>4. CacheOK(llc, LlcSets, LlcWays, WrittenLlc)
  BY Sizes, NewCacheOK DEF Init
<1>5. \A c \in Cores, l \in Lines : stage[c][l] = "none"
  BY DEF Init
<1>6. RequestsInv
  BY <1>5 DEF RequestsInv, MissedL2
<1>7. None \in L1Pending /\ None \in L2Pending /\ None \in LlcPending
  BY DEF None, Pending, L1Pending, L2Pending, LlcPending
<1>8. WritebacksInv
  BY <1>7 DEF Init, WritebacksInv
<1> QED BY <1>1, <1>2, <1>3, <1>4, <1>6, <1>8 DEF IInv, CachesInv

-----------------------------------------------------------------------------
(* Each action.                                                            *)

LEMMA L1AccessInv ==
  ASSUME IInv, NEW c \in Cores, NEW l \in Lines, NEW isLoad \in BOOLEAN, L1Access(c, l, isLoad)
  PROVE  IInv'
<1>1. stored \subseteq stored' /\ stored' \subseteq Lines /\ (isLoad \/ l \in stored')
  BY DEF IInv, TypeInv, L1Access
<1>2. /\ PrivateOK(l1, L1Sets, L1Ways, stored') /\ PrivateOK(l2, L2Sets, L2Ways, WrittenL2')
      /\ CacheOK(llc, LlcSets, LlcWays, WrittenLlc')
  BY <1>1, MoreWritten, MoreKnown DEF IInv, CachesInv
<1>3. l1' = [l1 EXCEPT ![c][SetOf(L1Sets, l)] = Accessed(l1[c][SetOf(L1Sets, l)], l, isLoad)]
  BY DEF L1Access, PutL1, L1Of
<1>4. PrivateOK(l1', L1Sets, L1Ways, stored') /\ SameHits(l1, l1', L1Sets)
  BY <1>1, <1>2, <1>3, Sizes, AddressesAre, PrivateAccess
<1>5. l2' = l2 /\ llc' = llc /\ l1Evict' = l1Evict /\ l2Evict' = l2Evict /\ memWrites' = memWrites
  BY DEF L1Access, writebackVars
<1>6. CachesInv'
  BY <1>2, <1>4, <1>5 DEF CachesInv
<1>7. WritebacksInv'
  <2>1. L1Pending \subseteq L1Pending' /\ L2Pending \subseteq L2Pending' /\ LlcPending \subseteq LlcPending'
    BY <1>1, MoreWritten
  <2>2. /\ l1Evict \in [Cores -> L1Pending] /\ l2Evict \in [Cores -> L2Pending] /\ memWrites \in LlcPending
    BY DEF IInv, WritebacksInv
  <2> HIDE DEF L1Pending, L2Pending, LlcPending
  <2>3. l1Evict' \in [Cores -> L1Pending'] /\ l2Evict' \in [Cores -> L2Pending'] /\ memWrites' \in LlcPending'
    BY <1>5, <2>1, <2>2
  <2> QED BY <2>3 DEF WritebacksInv
<1>8. \/ stage' = stage /\ primary' = primary
      \/ /\ ~Hit(L1Of(c, l), l)
         /\ stage[c][l] = "none" /\ stage' = [stage EXCEPT ![c][l] = "L2"]
         /\ primary' = [primary EXCEPT ![c][l] = isLoad]
  BY DEF L1Access, Moves, requestVars
<1>9. TypeInv'
  <2>1. stage \in [Cores -> [Lines -> Stages]] /\ primary \in [Cores -> [Lines -> BOOLEAN]] /\ "L2" \in Stages
    BY DEF IInv, TypeInv, Stages
  <2>2. CASE stage' = stage /\ primary' = primary
    BY <1>1, <2>1, <2>2 DEF TypeInv
  <2>3. CASE /\ stage' = [stage EXCEPT ![c][l] = "L2"]
             /\ primary' = [primary EXCEPT ![c][l] = isLoad]
    <3>1. stage' \in [Cores -> [Lines -> Stages]]
      BY <2>1, <2>3
    <3>2. primary' \in [Cores -> [Lines -> BOOLEAN]]
      BY <2>1, <2>3
    <3> QED BY <1>1, <3>1, <3>2 DEF TypeInv
  <2> QED BY <1>8, <2>2, <2>3
<1>10. ASSUME NEW d \in Cores, NEW x \in Lines
       PROVE  /\ stage'[d][x] # "none" => ~Hit(L1Of(d, x)', x) /\ (primary'[d][x] \/ x \in stored')
              /\ stage'[d][x] \in MissedL2 => ~Hit(L2Of(d, x)', x)
  <2>1. Hit(L1Of(d, x)', x) <=> Hit(L1Of(d, x), x)
    BY <1>4 DEF SameHits, L1Of
  <2>2. L2Of(d, x)' = L2Of(d, x)
    BY <1>5 DEF L2Of
  <2>3. /\ stage[d][x] # "none" => ~Hit(L1Of(d, x), x) /\ (primary[d][x] \/ x \in stored)
        /\ stage[d][x] \in MissedL2 => ~Hit(L2Of(d, x), x)
    BY DEF IInv, RequestsInv
  <2>4. CASE stage'[d][x] = stage[d][x] /\ primary'[d][x] = primary[d][x]
    BY <1>1, <2>1, <2>2, <2>3, <2>4
  <2>5. CASE ~(stage'[d][x] = stage[d][x] /\ primary'[d][x] = primary[d][x])
    <3>1. /\ d = c /\ x = l /\ ~Hit(L1Of(d, x), x)
          /\ stage'[d][x] = "L2" /\ primary'[d][x] = isLoad
      BY <1>8, <2>5 DEF IInv, TypeInv
    <3> QED BY <1>1, <2>1, <3>1 DEF MissedL2
  <2> QED BY <2>4, <2>5
<1>11. RequestsInv'
  BY <1>10 DEF RequestsInv
<1> QED BY <1>6, <1>7, <1>9, <1>11 DEF IInv

\* What a request's move leaves of the stages.
Moved(c, l, from, to) ==
  /\ stage' \in [Cores -> [Lines -> Stages]] /\ stage[c][l] = from
  /\ \A d \in Cores, x \in Lines : stage'[d][x] = IF d = c /\ x = l THEN to ELSE stage[d][x]

LEMMA MovesTo ==
  ASSUME TypeInv, NEW c \in Cores, NEW l \in Lines, NEW from, NEW to \in Stages, Moves(c, l, from, to)
  PROVE  Moved(c, l, from, to)
BY DEF TypeInv, Moves, Moved

\* A request stays below what it has missed in if no line comes in there.
Below(d, x) ==
  /\ stage'[d][x] # "none" => /\ stage[d][x] # "none" /\ primary'[d][x] = primary[d][x]
                              /\ Hit(L1Of(d, x)', x) => Hit(L1Of(d, x), x)
  /\ stage'[d][x] \in MissedL2 => /\ stage[d][x] \in MissedL2 \/ ~Hit(L2Of(d, x), x)
                                  /\ Hit(L2Of(d, x)', x) => Hit(L2Of(d, x), x)

LEMMA RequestsKept ==
  ASSUME IInv, stored' = stored, \A d \in Cores, x \in Lines : Below(d, x)
  PROVE  RequestsInv'
<1> SUFFICES ASSUME NEW d \in Cores, NEW x \in Lines
             PROVE  /\ stage'[d][x] # "none" => ~Hit(L1Of(d, x)', x) /\ (primary'[d][x] \/ x \in stored')
                    /\ stage'[d][x] \in MissedL2 => ~Hit(L2Of(d, x)', x)
  BY DEF RequestsInv
<1>1. /\ stage[d][x] # "none" => ~Hit(L1Of(d, x), x) /\ (primary[d][x] \/ x \in stored)
      /\ stage[d][x] \in MissedL2 => ~Hit(L2Of(d, x), x)
  BY DEF IInv, RequestsInv
<1> QED BY <1>1 DEF Below

\* Nothing happens to the private caches.
LEMMA PrivateSame ==
  ASSUME l1' = l1, l2' = l2
  PROVE  \A d \in Cores, x \in Lines : L1Of(d, x)' = L1Of(d, x) /\ L2Of(d, x)' = L2Of(d, x)
BY DEF L1Of, L2Of

LEMMA L2AccessInv ==
  ASSUME IInv, NEW c \in Cores, NEW l \in Lines, L2Access(c, l)
  PROVE  IInv'
<1> DEFINE to == IF Hit(L2Of(c, l), l) THEN "L1 fill" ELSE "LLC"
<1>1. /\ stage' \in [Cores -> [Lines -> Stages]] /\ stage[c][l] = "L2"
      /\ \A d \in Cores, x \in Lines : stage'[d][x] = IF d = c /\ x = l THEN to ELSE stage[d][x]
  <2>1. to \in Stages /\ TypeInv
    BY DEF Stages, IInv
  <2>2. Moves(c, l, "L2", to)
    BY DEF L2Access
  <2>3. Moved(c, l, "L2", to)
    BY <2>1, <2>2, MovesTo
  <2> QED BY <2>3 DEF Moved
<1>2. /\ l1' = l1 /\ llc' = llc /\ primary' = primary /\ stored' = stored
      /\ l1Evict' = l1Evict /\ l2Evict' = l2Evict /\ memWrites' = memWrites
  BY DEF L2Access, writebackVars
<1>3. primary[c][l] \in BOOLEAN /\ (primary[c][l] \/ l \in stored)
  BY <1>1 DEF IInv, TypeInv, RequestsInv
<1>4. l2' = [l2 EXCEPT ![c][SetOf(L2Sets, l)] = Accessed(l2[c][SetOf(L2Sets, l)], l, primary[c][l])]
  BY DEF L2Access, PutL2, L2Of
<1>5. PrivateOK(l2', L2Sets, L2Ways, WrittenL2) /\ SameHits(l2, l2', L2Sets)
  BY <1>3, <1>4, Sizes, AddressesAre, Written, PrivateAccess DEF IInv, CachesInv
<1>6. TypeInv' /\ CachesInv' /\ WritebacksInv'
  BY <1>1, <1>2, <1>5, Kept DEF IInv, TypeInv, CachesInv, WritebacksInv
<1>7. \A d \in Cores, x \in Lines : L1Of(d, x)' = L1Of(d, x) /\ (Hit(L2Of(d, x)', x) <=> Hit(L2Of(d, x), x))
  BY <1>2, <1>5 DEF L1Of, L2Of, SameHits
<1>8. RequestsInv'
  <2>1. \A d \in Cores, x \in Lines : Below(d, x)
    BY <1>1, <1>2, <1>7 DEF Below, MissedL2
  <2> QED BY <1>2, <2>1, RequestsKept
<1> QED BY <1>6, <1>8 DEF IInv

LEMMA LlcAccessInv ==
  ASSUME IInv, NEW c \in Cores, NEW l \in Lines, LlcAccess(c, l)
  PROVE  IInv'
<1> DEFINE to == IF Hit(LlcOf(l), l) THEN "L2 fill" ELSE "memory"
<1>1. /\ stage' \in [Cores -> [Lines -> Stages]] /\ stage[c][l] = "LLC"
      /\ \A d \in Cores, x \in Lines : stage'[d][x] = IF d = c /\ x = l THEN to ELSE stage[d][x]
  <2>1. to \in Stages /\ TypeInv
    BY DEF Stages, IInv
  <2>2. Moves(c, l, "LLC", to)
    BY DEF LlcAccess
  <2>3. Moved(c, l, "LLC", to)
    BY <2>1, <2>2, MovesTo
  <2> QED BY <2>3 DEF Moved
<1>2. /\ l1' = l1 /\ l2' = l2 /\ primary' = primary /\ stored' = stored
      /\ l1Evict' = l1Evict /\ l2Evict' = l2Evict /\ memWrites' = memWrites
  BY DEF LlcAccess, writebackVars
<1>3. primary[c][l] \in BOOLEAN /\ (primary[c][l] \/ l \in stored)
  BY <1>1 DEF IInv, TypeInv, RequestsInv
<1>4. llc' = [llc EXCEPT ![SetOf(LlcSets, l)] = Accessed(llc[SetOf(LlcSets, l)], l, primary[c][l])]
  BY DEF LlcAccess, PutLlc, LlcOf
<1>5. CacheOK(llc', LlcSets, LlcWays, WrittenLlc)
  BY <1>3, <1>4, Sizes, AddressesAre, Written, SharedOK DEF IInv, CachesInv
<1>6. TypeInv' /\ CachesInv' /\ WritebacksInv'
  BY <1>1, <1>2, <1>5, Kept DEF IInv, TypeInv, CachesInv, WritebacksInv
<1>7. \A d \in Cores, x \in Lines : L1Of(d, x)' = L1Of(d, x) /\ L2Of(d, x)' = L2Of(d, x)
  BY <1>2, PrivateSame
<1>8. RequestsInv'
  <2>1. \A d \in Cores, x \in Lines : Below(d, x)
    BY <1>1, <1>2, <1>7 DEF Below, MissedL2
  <2> QED BY <1>2, <2>1, RequestsKept
<1> QED BY <1>6, <1>8 DEF IInv

LEMMA MemoryReadInv ==
  ASSUME IInv, NEW l \in Lines, MemoryRead(l)
  PROVE  IInv'
<1>1. stage \in [Cores -> [Lines -> Stages]]
  BY DEF IInv, TypeInv
<1>2. stage' = [c \in Cores |-> [stage[c] EXCEPT ![l] = IF @ = "memory" THEN "LLC fill" ELSE @]]
  BY DEF MemoryRead
<1>3. ASSUME NEW d \in Cores, NEW x \in Lines
      PROVE  stage'[d][x] = IF x = l /\ stage[d][x] = "memory" THEN "LLC fill" ELSE stage[d][x]
  BY <1>1, <1>2
<1>4. stage' \in [Cores -> [Lines -> Stages]]
  <2>1. ASSUME NEW d \in Cores PROVE stage'[d] \in [Lines -> Stages]
    BY <1>1, <1>2 DEF Stages
  <2> QED BY <1>2, <2>1
<1>5. /\ l1' = l1 /\ l2' = l2 /\ llc' = llc /\ primary' = primary /\ stored' = stored
      /\ l1Evict' = l1Evict /\ l2Evict' = l2Evict /\ memWrites' = memWrites
  BY DEF MemoryRead, writebackVars
<1>6. TypeInv' /\ CachesInv' /\ WritebacksInv'
  BY <1>4, <1>5, Kept DEF IInv, TypeInv, CachesInv, WritebacksInv
<1>7. \A d \in Cores, x \in Lines : L1Of(d, x)' = L1Of(d, x) /\ L2Of(d, x)' = L2Of(d, x)
  BY <1>5, PrivateSame
<1>8. \A d \in Cores, x \in Lines : Below(d, x)
  BY <1>3, <1>5, <1>7 DEF Below, MissedL2
<1>9. RequestsInv'
  BY <1>5, <1>8, RequestsKept
<1> QED BY <1>6, <1>9 DEF IInv

LEMMA LlcFillInv ==
  ASSUME IInv, NEW c \in Cores, NEW l \in Lines, LlcFill(c, l)
  PROVE  IInv'
<1>1. /\ stage' \in [Cores -> [Lines -> Stages]] /\ stage[c][l] = "LLC fill"
      /\ \A d \in Cores, x \in Lines : stage'[d][x] = IF d = c /\ x = l THEN "L2 fill" ELSE stage[d][x]
  <2>1. "L2 fill" \in Stages /\ TypeInv
    BY DEF Stages, IInv
  <2>2. Moves(c, l, "LLC fill", "L2 fill")
    BY DEF LlcFill
  <2>3. Moved(c, l, "LLC fill", "L2 fill")
    BY <2>1, <2>2, MovesTo
  <2> QED BY <2>3 DEF Moved
<1>2. /\ l1' = l1 /\ l2' = l2 /\ primary' = primary /\ stored' = stored
      /\ l1Evict' = l1Evict /\ l2Evict' = l2Evict
  BY DEF LlcFill
<1>3. primary[c][l] \in BOOLEAN /\ (primary[c][l] \/ l \in stored)
  BY <1>1 DEF IInv, TypeInv, RequestsInv
<1>4. llc' = [llc EXCEPT ![SetOf(LlcSets, l)] = Inserted(llc[SetOf(LlcSets, l)], l, primary[c][l])]
  BY DEF LlcFill, PutLlc, LlcOf
<1>5. CacheOK(llc', LlcSets, LlcWays, WrittenLlc)
  BY <1>3, <1>4, Sizes, AddressesAre, Written, SharedOK DEF IInv, CachesInv
<1>6. memWrites' \in LlcPending
  <2>1. memWrites' = WriteBack(memWrites, LlcSets, llc[SetOf(LlcSets, l)], l)
    BY DEF LlcFill, LlcOf
  <2>2. memWrites \in Pending(RebuiltOf(LlcSets, WrittenLlc)) /\ CacheOK(llc, LlcSets, LlcWays, WrittenLlc)
    BY DEF IInv, CachesInv, WritebacksInv, LlcPending
  <2> QED BY <2>1, <2>2, Sizes, WriteBackOK DEF LlcPending
<1>7. TypeInv' /\ CachesInv' /\ WritebacksInv'
  BY <1>1, <1>2, <1>5, <1>6, Kept DEF IInv, TypeInv, CachesInv, WritebacksInv
<1>8. \A d \in Cores, x \in Lines : L1Of(d, x)' = L1Of(d, x) /\ L2Of(d, x)' = L2Of(d, x)
  BY <1>2, PrivateSame
<1>9. \A d \in Cores, x \in Lines : Below(d, x)
  BY <1>1, <1>2, <1>8 DEF Below, MissedL2
<1>10. RequestsInv'
  BY <1>2, <1>9, RequestsKept
<1> QED BY <1>7, <1>10 DEF IInv

\* A line comes into the L2 only for a request that has missed there.
LEMMA L2FillInv ==
  ASSUME IInv, NEW c \in Cores, NEW l \in Lines, L2Fill(c, l)
  PROVE  IInv'
<1>1. /\ stage' \in [Cores -> [Lines -> Stages]] /\ stage[c][l] = "L2 fill"
      /\ \A d \in Cores, x \in Lines : stage'[d][x] = IF d = c /\ x = l THEN "L1 fill" ELSE stage[d][x]
  <2>1. "L1 fill" \in Stages /\ TypeInv
    BY DEF Stages, IInv
  <2>2. Moves(c, l, "L2 fill", "L1 fill")
    BY DEF L2Fill
  <2>3. Moved(c, l, "L2 fill", "L1 fill")
    BY <2>1, <2>2, MovesTo
  <2> QED BY <2>3 DEF Moved
<1>2. /\ l1' = l1 /\ llc' = llc /\ primary' = primary /\ stored' = stored
      /\ l1Evict' = l1Evict /\ memWrites' = memWrites
  BY DEF L2Fill
<1>3. primary[c][l] \in BOOLEAN /\ (primary[c][l] \/ l \in stored)
  BY <1>1 DEF IInv, TypeInv, RequestsInv
<1>4. ~Hit(l2[c][SetOf(L2Sets, l)], l)
  BY <1>1 DEF IInv, RequestsInv, MissedL2, L2Of
<1>5. l2' = [l2 EXCEPT ![c][SetOf(L2Sets, l)] = Inserted(l2[c][SetOf(L2Sets, l)], l, primary[c][l])]
  BY DEF L2Fill, PutL2, L2Of
<1>6. PrivateOK(l2', L2Sets, L2Ways, WrittenL2) /\ NewHitOnly(l2, l2', L2Sets, c, l)
  BY <1>3, <1>4, <1>5, Sizes, Written, PrivateFill DEF IInv, CachesInv
<1>7. l2Evict' \in [Cores -> L2Pending]
  <2>1. l2Evict' = [l2Evict EXCEPT ![c] = WriteBack(l2Evict[c], L2Sets, l2[c][SetOf(L2Sets, l)], l)]
    BY DEF L2Fill, L2Of
  <2>2. l2Evict \in [Cores -> L2Pending] /\ CacheOK(l2[c], L2Sets, L2Ways, WrittenL2)
    BY DEF IInv, CachesInv, WritebacksInv, PrivateOK
  <2>3. WriteBack(l2Evict[c], L2Sets, l2[c][SetOf(L2Sets, l)], l) \in L2Pending
    <3>1. l2Evict[c] \in Pending(RebuiltOf(L2Sets, WrittenL2))
      BY <2>2 DEF L2Pending
    <3> QED BY <2>2, <3>1, Sizes, WriteBackOK DEF L2Pending
  <2> QED BY <2>1, <2>2, <2>3
<1>8. TypeInv' /\ CachesInv' /\ WritebacksInv'
  BY <1>1, <1>2, <1>6, <1>7, Kept DEF IInv, TypeInv, CachesInv, WritebacksInv
<1>9. \A d \in Cores, x \in Lines :
         /\ L1Of(d, x)' = L1Of(d, x)
         /\ Hit(L2Of(d, x)', x) => Hit(L2Of(d, x), x) \/ (d = c /\ x = l)
  BY <1>2, <1>6 DEF L1Of, L2Of, NewHitOnly
<1>10. \A d \in Cores, x \in Lines : Below(d, x)
  BY <1>1, <1>2, <1>9 DEF Below, MissedL2
<1>11. RequestsInv'
  BY <1>2, <1>10, RequestsKept
<1> QED BY <1>8, <1>11 DEF IInv

\* Likewise the L1, after which the request is over.
LEMMA L1FillInv ==
  ASSUME IInv, NEW c \in Cores, NEW l \in Lines, L1Fill(c, l)
  PROVE  IInv'
<1>1. /\ stage' \in [Cores -> [Lines -> Stages]] /\ stage[c][l] = "L1 fill"
      /\ \A d \in Cores, x \in Lines : stage'[d][x] = IF d = c /\ x = l THEN "none" ELSE stage[d][x]
  <2>1. "none" \in Stages /\ TypeInv
    BY DEF Stages, IInv
  <2>2. Moves(c, l, "L1 fill", "none")
    BY DEF L1Fill
  <2>3. Moved(c, l, "L1 fill", "none")
    BY <2>1, <2>2, MovesTo
  <2> QED BY <2>3 DEF Moved
<1>2. /\ l2' = l2 /\ llc' = llc /\ stored' = stored
      /\ l2Evict' = l2Evict /\ memWrites' = memWrites
  BY DEF L1Fill
<1>3. primary[c][l] \in BOOLEAN /\ (primary[c][l] \/ l \in stored)
  BY <1>1 DEF IInv, TypeInv, RequestsInv
<1>4. ~Hit(l1[c][SetOf(L1Sets, l)], l)
  BY <1>1 DEF IInv, RequestsInv, L1Of
<1>5. l1' = [l1 EXCEPT ![c][SetOf(L1Sets, l)] = Inserted(l1[c][SetOf(L1Sets, l)], l, primary[c][l])]
  BY DEF L1Fill, PutL1, L1Of
<1>6. PrivateOK(l1', L1Sets, L1Ways, stored) /\ NewHitOnly(l1, l1', L1Sets, c, l)
  BY <1>3, <1>4, <1>5, Sizes, Written, PrivateFill DEF IInv, CachesInv
<1>7. l1Evict' \in [Cores -> L1Pending]
  <2>1. l1Evict' = [l1Evict EXCEPT ![c] = WriteBack(l1Evict[c], L1Sets, l1[c][SetOf(L1Sets, l)], l)]
    BY DEF L1Fill, L1Of
  <2>2. l1Evict \in [Cores -> L1Pending] /\ CacheOK(l1[c], L1Sets, L1Ways, stored)
    BY DEF IInv, CachesInv, WritebacksInv, PrivateOK
  <2>3. WriteBack(l1Evict[c], L1Sets, l1[c][SetOf(L1Sets, l)], l) \in L1Pending
    <3>1. l1Evict[c] \in Pending(RebuiltOf(L1Sets, stored))
      BY <2>2 DEF L1Pending
    <3> QED BY <2>2, <3>1, Sizes, WriteBackOK DEF L1Pending
  <2> QED BY <2>1, <2>2, <2>3
<1>8. primary' = [primary EXCEPT ![c][l] = TRUE] /\ primary \in [Cores -> [Lines -> BOOLEAN]]
  BY DEF L1Fill, IInv, TypeInv
<1>9. primary' \in [Cores -> [Lines -> BOOLEAN]]
  BY <1>8
<1>10. \A d \in Cores, x \in Lines : ~(d = c /\ x = l) => primary'[d][x] = primary[d][x]
  BY <1>8
<1>11. TypeInv' /\ CachesInv' /\ WritebacksInv'
  BY <1>1, <1>2, <1>6, <1>7, <1>9, Kept DEF IInv, TypeInv, CachesInv, WritebacksInv
<1>12. \A d \in Cores, x \in Lines :
         /\ L2Of(d, x)' = L2Of(d, x)
         /\ Hit(L1Of(d, x)', x) => Hit(L1Of(d, x), x) \/ (d = c /\ x = l)
  BY <1>2, <1>6 DEF L1Of, L2Of, NewHitOnly
<1>13. \A d \in Cores, x \in Lines : Below(d, x)
  BY <1>1, <1>10, <1>12 DEF Below, MissedL2
<1>14. RequestsInv'
  BY <1>2, <1>13, RequestsKept
<1> QED BY <1>11, <1>14 DEF IInv

\* Only lines of known are written back, so a write-back may set a dirty bit.
LEMMA PendingKnown ==
  ASSUME NEW known, NEW l \in Addresses, NEW p \in Pending(known), p[l] > 0
  PROVE  l \in known /\ [p EXCEPT ![l] = @ - 1] \in Pending(known)
BY DEF Pending

\* The requests are not touched.
Idle == stage' = stage /\ primary' = primary /\ stored' = stored

LEMMA L2WriteInv ==
  ASSUME IInv, NEW c \in Cores, NEW l \in Addresses, L2Write(c, l)
  PROVE  IInv'
<1>1. l1' = l1 /\ llc' = llc /\ Idle /\ l2Evict' = l2Evict /\ memWrites' = memWrites
  BY DEF L2Write, Idle, requestVars
<1>2. l1Evict \in [Cores -> L1Pending] /\ l1Evict[c][l] > 0
  BY DEF L2Write, IInv, WritebacksInv
<1>3. l \in RebuiltOf(L1Sets, stored) /\ [l1Evict[c] EXCEPT ![l] = @ - 1] \in L1Pending
  <2>1. l1Evict[c] \in Pending(RebuiltOf(L1Sets, stored)) /\ l1Evict[c][l] > 0
    BY <1>2 DEF L1Pending
  <2> QED BY <2>1, PendingKnown DEF L1Pending
<1>4. l1Evict' = [l1Evict EXCEPT ![c] = [l1Evict[c] EXCEPT ![l] = @ - 1]]
  BY <1>2 DEF L2Write
<1>5. l1Evict' \in [Cores -> L1Pending]
  BY <1>2, <1>3, <1>4
<1>6. l2' = [l2 EXCEPT ![c][SetOf(L2Sets, l)] = Accessed(l2[c][SetOf(L2Sets, l)], l, FALSE)]
  BY DEF L2Write, PutL2, L2Of
<1>7. PrivateOK(l2', L2Sets, L2Ways, WrittenL2) /\ SameHits(l2, l2', L2Sets)
  BY <1>3, <1>6, Sizes, AddressesAre, Written, PrivateAccess DEF IInv, CachesInv
<1>8. TypeInv' /\ CachesInv' /\ WritebacksInv'
  BY <1>1, <1>5, <1>7, Kept DEF IInv, TypeInv, CachesInv, WritebacksInv, Idle
<1>9. \A d \in Cores, x \in Lines : L1Of(d, x)' = L1Of(d, x) /\ (Hit(L2Of(d, x)', x) <=> Hit(L2Of(d, x), x))
  BY <1>1, <1>7 DEF L1Of, L2Of, SameHits
<1>10. \A d \in Cores, x \in Lines : Below(d, x)
  BY <1>1, <1>9 DEF Below, Idle
<1>11. RequestsInv'
  BY <1>1, <1>10, RequestsKept DEF Idle
<1> QED BY <1>8, <1>11 DEF IInv

LEMMA LlcWriteInv ==
  ASSUME IInv, NEW c \in Cores, NEW l \in Addresses, LlcWrite(c, l)
  PROVE  IInv'
<1>1. l1' = l1 /\ l2' = l2 /\ Idle /\ l1Evict' = l1Evict /\ memWrites' = memWrites
  BY DEF LlcWrite, Idle, requestVars
<1>2. l2Evict \in [Cores -> L2Pending] /\ l2Evict[c][l] > 0
  BY DEF LlcWrite, IInv, WritebacksInv
<1>3. l \in RebuiltOf(L2Sets, WrittenL2) /\ [l2Evict[c] EXCEPT ![l] = @ - 1] \in L2Pending
  <2>1. l2Evict[c] \in Pending(RebuiltOf(L2Sets, WrittenL2)) /\ l2Evict[c][l] > 0
    BY <1>2 DEF L2Pending
  <2> QED BY <2>1, PendingKnown DEF L2Pending
<1>4. l2Evict' = [l2Evict EXCEPT ![c] = [l2Evict[c] EXCEPT ![l] = @ - 1]]
  BY <1>2 DEF LlcWrite
<1>5. l2Evict' \in [Cores -> L2Pending]
  BY <1>2, <1>3, <1>4
<1>6. llc' = [llc EXCEPT ![SetOf(LlcSets, l)] = Accessed(llc[SetOf(LlcSets, l)], l, FALSE)]
  BY DEF LlcWrite, PutLlc, LlcOf
<1>7. CacheOK(llc', LlcSets, LlcWays, WrittenLlc)
  BY <1>3, <1>6, Sizes, AddressesAre, Written, SharedOK DEF IInv, CachesInv
<1>8. TypeInv' /\ CachesInv' /\ WritebacksInv'
  BY <1>1, <1>5, <1>7, Kept DEF IInv, TypeInv, CachesInv, WritebacksInv, Idle
<1>9. \A d \in Cores, x \in Lines : L1Of(d, x)' = L1Of(d, x) /\ L2Of(d, x)' = L2Of(d, x)
  BY <1>1, PrivateSame
<1>10. \A d \in Cores, x \in Lines : Below(d, x)
  BY <1>1, <1>9 DEF Below, Idle
<1>11. RequestsInv'
  BY <1>1, <1>10, RequestsKept DEF Idle
<1> QED BY <1>8, <1>11 DEF IInv

LEMMA L1EvictsInv ==
  ASSUME IInv, NEW c \in Cores, NEW l \in Lines, L1Evicts(c, l)
  PROVE  IInv'
<1>1. /\ l2' = l2 /\ llc' = llc /\ Idle
      /\ l1Evict' = l1Evict /\ l2Evict' = l2Evict /\ memWrites' = memWrites
  BY DEF L1Evicts, Idle, requestVars, writebackVars
<1>2. l1' = [l1 EXCEPT ![c][SetOf(L1Sets, l)] = Evicted(l1[c][SetOf(L1Sets, l)], l)]
  BY DEF L1Evicts, PutL1, L1Of
<1>3. PrivateOK(l1', L1Sets, L1Ways, stored) /\ NoNewHit(l1, l1', L1Sets)
  BY <1>2, Sizes, AddressesAre, PrivateEvict DEF IInv, CachesInv
<1>4. TypeInv' /\ CachesInv' /\ WritebacksInv'
  BY <1>1, <1>3, Kept DEF IInv, TypeInv, CachesInv, WritebacksInv, Idle
<1>5. \A d \in Cores, x \in Lines : L2Of(d, x)' = L2Of(d, x) /\ (Hit(L1Of(d, x)', x) => Hit(L1Of(d, x), x))
  BY <1>1, <1>3 DEF L1Of, L2Of, NoNewHit
<1>6. \A d \in Cores, x \in Lines : Below(d, x)
  BY <1>1, <1>5 DEF Below, Idle
<1>7. RequestsInv'
  BY <1>1, <1>6, RequestsKept DEF Idle
<1> QED BY <1>4, <1>7 DEF IInv

LEMMA L2EvictsInv ==
  ASSUME IInv, NEW c \in Cores, NEW l \in Lines, L2Evicts(c, l)
  PROVE  IInv'
<1>1. /\ l1' = l1 /\ llc' = llc /\ Idle
      /\ l1Evict' = l1Evict /\ l2Evict' = l2Evict /\ memWrites' = memWrites
  BY DEF L2Evicts, Idle, requestVars, writebackVars
<1>2. l2' = [l2 EXCEPT ![c][SetOf(L2Sets, l)] = Evicted(l2[c][SetOf(L2Sets, l)], l)]
  BY DEF L2Evicts, PutL2, L2Of
<1>3. PrivateOK(l2', L2Sets, L2Ways, WrittenL2) /\ NoNewHit(l2, l2', L2Sets)
  BY <1>2, Sizes, AddressesAre, PrivateEvict DEF IInv, CachesInv
<1>4. TypeInv' /\ CachesInv' /\ WritebacksInv'
  BY <1>1, <1>3, Kept DEF IInv, TypeInv, CachesInv, WritebacksInv, Idle
<1>5. \A d \in Cores, x \in Lines : L1Of(d, x)' = L1Of(d, x) /\ (Hit(L2Of(d, x)', x) => Hit(L2Of(d, x), x))
  BY <1>1, <1>3 DEF L1Of, L2Of, NoNewHit
<1>6. \A d \in Cores, x \in Lines : Below(d, x)
  BY <1>1, <1>5 DEF Below, Idle
<1>7. RequestsInv'
  BY <1>1, <1>6, RequestsKept DEF Idle
<1> QED BY <1>4, <1>7 DEF IInv

LEMMA LlcEvictsInv ==
  ASSUME IInv, NEW l \in Lines, LlcEvicts(l)
  PROVE  IInv'
<1>1. /\ l1' = l1 /\ l2' = l2 /\ Idle
      /\ l1Evict' = l1Evict /\ l2Evict' = l2Evict /\ memWrites' = memWrites
  BY DEF LlcEvicts, Idle, requestVars, writebackVars
<1>2. llc' = [llc EXCEPT ![SetOf(LlcSets, l)] = Evicted(llc[SetOf(LlcSets, l)], l)]
  BY DEF LlcEvicts, PutLlc, LlcOf
<1>3. CacheOK(llc', LlcSets, LlcWays, WrittenLlc)
  BY <1>2, Sizes, AddressesAre, Written, SharedOK DEF IInv, CachesInv
<1>4. TypeInv' /\ CachesInv' /\ WritebacksInv'
  BY <1>1, <1>3, Kept DEF IInv, TypeInv, CachesInv, WritebacksInv, Idle
<1>5. \A d \in Cores, x \in Lines : L1Of(d, x)' = L1Of(d, x) /\ L2Of(d, x)' = L2Of(d, x)
  BY <1>1, PrivateSame
<1>6. \A d \in Cores, x \in Lines : Below(d, x)
  BY <1>1, <1>5 DEF Below, Idle
<1>7. RequestsInv'
  BY <1>1, <1>6, RequestsKept DEF Idle
<1> QED BY <1>4, <1>7 DEF IInv

LEMMA UnchangedInv ==
  ASSUME IInv, UNCHANGED vars
  PROVE  IInv'
<1>1. /\ l1' = l1 /\ l2' = l2 /\ llc' = llc /\ Idle
      /\ l1Evict' = l1Evict /\ l2Evict' = l2Evict /\ memWrites' = memWrites
  BY DEF vars, Idle, requestVars, writebackVars
<1>2. TypeInv' /\ CachesInv' /\ WritebacksInv'
  BY <1>1, Kept DEF IInv, TypeInv, CachesInv, WritebacksInv, Idle
<1>3. \A d \in Cores, x \in Lines : L1Of(d, x)' = L1Of(d, x) /\ L2Of(d, x)' = L2Of(d, x)
  BY <1>1, PrivateSame
<1>4. \A d \in Cores, x \in Lines : Below(d, x)
  BY <1>1, <1>3 DEF Below, Idle
<1>5. RequestsInv'
  BY <1>1, <1>4, RequestsKept DEF Idle
<1> QED BY <1>2, <1>5 DEF IInv

-----------------------------------------------------------------------------

\* The inductive invariant holds: a request stands for a line that the caches
\* it came through still lack, so no fill of a private cache duplicates a line
\* (L1Cache.cpp, L2Cache.cpp, FunctionalCache.cpp:66).
THEOREM InvHolds == Spec => []IInv
<1>1. Init => IInv
  BY InitInv
<1>2. IInv /\ [Next]_vars => IInv'
  <2> SUFFICES ASSUME IInv, [Next]_vars PROVE IInv'
    OBVIOUS
  <2>1. CASE UNCHANGED vars
    BY <2>1, UnchangedInv
  <2>2. ASSUME NEW c \in Cores, NEW l \in Lines, NEW isLoad \in BOOLEAN, L1Access(c, l, isLoad) PROVE IInv'
    BY <2>2, L1AccessInv
  <2>3. ASSUME NEW c \in Cores, NEW l \in Lines, Request(c, l) PROVE IInv'
    BY <2>3, L2AccessInv, LlcAccessInv, LlcFillInv, L2FillInv, L1FillInv DEF Request
  <2>4. ASSUME NEW c \in Cores, NEW l \in Lines, L1Evicts(c, l) \/ L2Evicts(c, l) PROVE IInv'
    BY <2>4, L1EvictsInv, L2EvictsInv
  <2>7. ASSUME NEW c \in Cores, NEW l \in Addresses, L2Write(c, l) \/ LlcWrite(c, l) PROVE IInv'
    BY <2>7, L2WriteInv, LlcWriteInv
  <2>5. ASSUME NEW l \in Lines, MemoryRead(l) \/ LlcEvicts(l) PROVE IInv'
    BY <2>5, MemoryReadInv, LlcEvictsInv
  <2>6. CASE Quiet
    BY <2>1, <2>6 DEF Quiet
  <2> QED BY <2>1, <2>2, <2>3, <2>4, <2>5, <2>6, <2>7 DEF Next
<1> QED BY <1>1, <1>2, PTL DEF Spec

LEMMA SetIsSound ==
  ASSUME NEW D, NEW n \in Nat, NEW known, NEW s, SetOK(s, D, n, known)
  PROVE  PointersSound(s) /\ DirtyWithin(s, known)
<1>1. SetInv(s, D, n) /\ s.list \in Seq(1..n)
  BY DEF SetOK, SetInv, SetType
<1>2. PointersSound(s)
  BY <1>1, InvIsSound
<1>3. ASSUME NEW i \in DOMAIN Contents(s), Contents(s)[i].dirty
      PROVE  Contents(s)[i].line \in known
  <2>1. /\ i \in DOMAIN s.list
        /\ Contents(s)[i] = [line |-> s.addr[s.list[i]], dirty |-> s.dirty[s.list[i]]]
    BY DEF Contents
  <2>2. s.list[i] \in 1..n
    BY <1>1, <2>1
  <2>3. s.dirty[s.list[i]] /\ Contents(s)[i].line = s.addr[s.list[i]]
    BY <1>3, <2>1
  <2> QED BY <2>2, <2>3 DEF SetOK
<1> QED BY <1>2, <1>3 DEF DirtyWithin

LEMMA PendingIsWithin ==
  ASSUME NEW known, NEW p \in Pending(known)
  PROVE  PendingWithin(p, known)
BY DEF Pending, PendingWithin

LEMMA InvGivesSetsSound == IInv => SetsSound
<1> SUFFICES ASSUME IInv PROVE SetsSound
  OBVIOUS
<1>1. ASSUME NEW c \in Cores, NEW k \in Sets(L1Sets)
      PROVE  PointersSound(l1[c][k]) /\ NoGhost(l1[c][k]) /\ DirtyWithin(l1[c][k], stored)
  <2>1. SetOK(l1[c][k], LinesOf(L1Sets, k), L1Ways, stored) /\ NoGhost(l1[c][k])
    BY DEF IInv, CachesInv, PrivateOK, CacheOK
  <2> QED BY <2>1, Sizes, SetIsSound
<1>2. ASSUME NEW c \in Cores, NEW k \in Sets(L2Sets)
      PROVE  PointersSound(l2[c][k]) /\ NoGhost(l2[c][k]) /\ DirtyWithin(l2[c][k], WrittenL2)
  <2>1. SetOK(l2[c][k], LinesOf(L2Sets, k), L2Ways, WrittenL2) /\ NoGhost(l2[c][k])
    BY DEF IInv, CachesInv, PrivateOK, CacheOK
  <2> QED BY <2>1, Sizes, SetIsSound
<1>3. ASSUME NEW k \in Sets(LlcSets) PROVE PointersSound(llc[k]) /\ DirtyWithin(llc[k], WrittenLlc)
  <2>1. SetOK(llc[k], LinesOf(LlcSets, k), LlcWays, WrittenLlc)
    BY DEF IInv, CachesInv, CacheOK
  <2> QED BY <2>1, Sizes, SetIsSound
<1>4. ASSUME NEW s \in PrivateSets PROVE PointersSound(s) /\ NoGhost(s)
  <2>1. PICK k \in PrivateSetIds : s = PrivateSet(k)
    BY DEF PrivateSets
  <2>2. CASE \E c \in Cores, j \in Sets(L1Sets) : k = <<"L1", c, j>>
    BY <1>1, <2>1, <2>2 DEF PrivateSet
  <2>3. CASE \E c \in Cores, j \in Sets(L2Sets) : k = <<"L2", c, j>>
    BY <1>2, <2>1, <2>3 DEF PrivateSet
  <2> QED BY <2>2, <2>3 DEF PrivateSetIds
<1>5. \A s \in AllSets : PointersSound(s)
  BY <1>3, <1>4 DEF AllSets
<1>6. \A c \in Cores : /\ PendingWithin(l1Evict[c], RebuiltOf(L1Sets, stored))
                       /\ PendingWithin(l2Evict[c], RebuiltOf(L2Sets, WrittenL2))
  <2>1. \A c \in Cores : /\ l1Evict[c] \in Pending(RebuiltOf(L1Sets, stored))
                         /\ l2Evict[c] \in Pending(RebuiltOf(L2Sets, WrittenL2))
    BY DEF IInv, WritebacksInv, L1Pending, L2Pending
  <2> QED BY <2>1, PendingIsWithin
<1>7. PendingWithin(memWrites, RebuiltOf(LlcSets, WrittenLlc))
  BY PendingIsWithin DEF IInv, WritebacksInv, LlcPending
<1> QED BY <1>1, <1>2, <1>3, <1>4, <1>5, <1>6, <1>7 DEF SetsSound

\* In every set of every cache, each entry is free or in use, once, and no key
\* leads to an entry of another line; a private cache has no line twice; what
\* is dirty or written back is a line that was written to, or one that was put
\* together for it, whatever is evicted meanwhile and whatever the set counts
\* (FunctionalCache.cpp:35-124 and 165-257).
THEOREM SetsAreSound == Spec => []SetsSound
BY InvHolds, InvGivesSetsSound, PTL

\* Only lines that were written to are dirty or written back.
WrittenSound ==
  /\ \A s \in AllSets : DirtyWithin(s, stored)
  /\ \A c \in Cores : PendingWithin(l1Evict[c], stored) /\ PendingWithin(l2Evict[c], stored)
  /\ PendingWithin(memWrites, stored)

PowersOfTwo == \A n \in {L1Sets, L2Sets, LlcSets} : \E log \in 0..n : n = 2 ^ log

LEMMA SameLines ==
  ASSUME PowersOfTwo, stored \subseteq Lines
  PROVE  /\ RebuiltOf(L1Sets, stored) = stored /\ WrittenL2 = stored
         /\ RebuiltOf(L2Sets, WrittenL2) = stored /\ WrittenLlc = stored
         /\ RebuiltOf(LlcSets, WrittenLlc) = stored
<1>1. ASSUME NEW m \in {L1Sets, L2Sets, LlcSets} PROVE RebuiltOf(m, stored) = stored
  <2>1. PICK log \in 0..m : m = 2 ^ log
    BY DEF PowersOfTwo
  <2>2. m \in Nat \ {0}
    BY Sizes
  <2>3. IndexedSets(m) = m
    BY <2>1, <2>2, Indexed
  <2>4. \A l \in stored : Rebuilt(m, l) = l
    BY <2>2, <2>3, RebuiltIs, CacheAssumption
  <2> QED BY <2>4 DEF RebuiltOf
<1>2. WrittenL2 = stored
  BY <1>1 DEF WrittenL2
<1>3. WrittenLlc = stored
  BY <1>1, <1>2 DEF WrittenLlc
<1> QED BY <1>1, <1>2, <1>3

\* If the set counts of all caches are powers of two, only lines that were
\* written to are ever dirty or written back: what FunctionalCache.cpp:221 puts
\* together of a victim is then the line of the victim.
THEOREM OnlyStoresWrittenBack == PowersOfTwo => (Spec => []WrittenSound)
<1> SUFFICES ASSUME PowersOfTwo PROVE Spec => []WrittenSound
  OBVIOUS
<1>1. IInv => WrittenSound
  <2> SUFFICES ASSUME IInv PROVE WrittenSound
    OBVIOUS
  <2>1. SetsSound /\ stored \subseteq Lines
    BY InvGivesSetsSound DEF IInv, TypeInv
  <2>2. /\ \A c \in Cores, k \in Sets(L1Sets) : DirtyWithin(l1[c][k], stored)
        /\ \A c \in Cores, k \in Sets(L2Sets) : DirtyWithin(l2[c][k], stored)
        /\ \A k \in Sets(LlcSets) : DirtyWithin(llc[k], stored)
        /\ \A c \in Cores : PendingWithin(l1Evict[c], stored) /\ PendingWithin(l2Evict[c], stored)
        /\ PendingWithin(memWrites, stored)
    BY <2>1, SameLines DEF SetsSound
  <2>3. ASSUME NEW s \in AllSets PROVE DirtyWithin(s, stored)
    <3>1. CASE \E k \in PrivateSetIds : s = PrivateSet(k)
      BY <2>2, <3>1 DEF PrivateSetIds, PrivateSet
    <3>2. CASE \E k \in Sets(LlcSets) : s = llc[k]
      BY <2>2, <3>2
    <3> QED BY <3>1, <3>2 DEF AllSets, PrivateSets
  <2> QED BY <2>2, <2>3 DEF WrittenSound
<1> QED BY <1>1, InvHolds, PTL

-----------------------------------------------------------------------------
(* What a set holds, seen as a list of lines.                              *)

Entry(addr, dirty, e) == [line |-> addr[e], dirty |-> dirty[e]]

\* The entries of q, with what the set says of each.
View(addr, dirty, q) == [i \in DOMAIN q |-> Entry(addr, dirty, q[i])]

Entries(addr, dirty, S) == {Entry(addr, dirty, e) : e \in S}
Views(v, addr, dirty, q, S) ==
  /\ v \in Seq(Entries(addr, dirty, S)) /\ DOMAIN v = DOMAIN q /\ Len(v) = Len(q)
  /\ \A i \in DOMAIN q : v[i] = Entry(addr, dirty, q[i])

LEMMA ViewIs ==
  ASSUME NEW S, NEW addr, NEW dirty, NEW q \in Seq(S)
  PROVE  Views(View(addr, dirty, q), addr, dirty, q, S)
<1> DEFINE v == View(addr, dirty, q)
           R == Entries(addr, dirty, S)
<1>1. DOMAIN q = 1..Len(q) /\ Len(q) \in Nat /\ \A i \in DOMAIN q : q[i] \in S
  OBVIOUS
<1>2. v = [i \in 1..Len(q) |-> Entry(addr, dirty, q[i])]
  BY <1>1 DEF View
<1>3. \A i \in 1..Len(q) : v[i] = Entry(addr, dirty, q[i]) /\ v[i] \in R
  BY <1>1, <1>2 DEF Entries
<1> HIDE DEF R
<1>4. v \in [1..Len(q) -> R]
  BY <1>2, <1>3
<1>5. v \in Seq(R) /\ Len(v) = Len(q)
  BY <1>1, <1>4, SeqDef, LenProperties
<1> QED BY <1>1, <1>2, <1>3, <1>5 DEF R, Views

LEMMA ViewRemoved ==
  ASSUME NEW S, NEW addr, NEW dirty, NEW q \in Seq(S), NEW k \in DOMAIN q
  PROVE  View(addr, dirty, RemoveAt(q, k)) = RemoveAt(View(addr, dirty, q), k)
<1> DEFINE R == Entries(addr, dirty, S)
           p == RemoveAt(q, k)
           v == View(addr, dirty, q)
           a == View(addr, dirty, p)
           b == RemoveAt(v, k)
<1>1. p \in Seq(S) /\ Removed(p, q, k)
  BY RemoveAtIs
<1>2. Views(v, addr, dirty, q, S)
  BY ViewIs
<1> HIDE DEF p, v, R
<1>3. b \in Seq(R) /\ Removed(b, v, k)
  BY <1>2, RemoveAtIs DEF R, Views
<1>4. Views(a, addr, dirty, p, S)
  BY <1>1, ViewIs
<1> HIDE DEF a, b
<1> USE DEF Views
<1>5. /\ Len(q) \in Nat /\ DOMAIN q = 1..Len(q) /\ k \in 1..Len(q)
      /\ Len(p) = Len(q) - 1 /\ DOMAIN p = 1..(Len(q) - 1) /\ Len(b) = Len(q) - 1
  BY <1>1, <1>2, <1>3 DEF Removed
<1>6. ASSUME NEW i \in 1..(Len(q) - 1) PROVE a[i] = b[i]
  <2>1. CASE i < k
    <3>1. i \in DOMAIN q /\ p[i] = q[i] /\ b[i] = v[i]
      BY <1>1, <1>2, <1>3, <1>5, <2>1 DEF Removed
    <3> QED BY <1>2, <1>4, <1>5, <3>1
  <2>2. CASE ~(i < k)
    <3>1. i + 1 \in DOMAIN q /\ p[i] = q[i + 1] /\ b[i] = v[i + 1]
      BY <1>1, <1>2, <1>3, <1>5, <2>2 DEF Removed
    <3> QED BY <1>2, <1>4, <1>5, <3>1
  <2> QED BY <2>1, <2>2
<1>7. a = b
  <2>1. a \in Seq(R) /\ Len(a) = Len(q) - 1
    BY <1>4, <1>5 DEF R
  <2> QED BY <1>3, <1>5, <1>6, <2>1, SeqEqual
<1> QED BY <1>7 DEF a, b, v, p

LEMMA ViewFirst ==
  ASSUME NEW S, NEW addr, NEW dirty, NEW q \in Seq(S), NEW e \in S
  PROVE  View(addr, dirty, <<e>> \o q) = <<Entry(addr, dirty, e)>> \o View(addr, dirty, q)
<1> DEFINE R == Entries(addr, dirty, S)
           r == Entry(addr, dirty, e)
           p == <<e>> \o q
           v == View(addr, dirty, q)
           a == View(addr, dirty, p)
           b == <<r>> \o v
<1>1. r \in R
  BY DEF Entries
<1>2. Views(v, addr, dirty, q, S)
  BY ViewIs
<1>3. p \in Seq(S) /\ Len(p) = Len(q) + 1 /\ \A i \in 1..(Len(q) + 1) : p[i] = IF i = 1 THEN e ELSE q[i - 1]
  <2>1. <<e>> \in Seq(S) /\ Len(<<e>>) = 1 /\ <<e>>[1] = e
    OBVIOUS
  <2> QED BY <2>1, ConcatProperties
<1> HIDE DEF v, R, r, p
<1>4. b \in Seq(R) /\ Len(b) = Len(q) + 1 /\ \A i \in 1..(Len(q) + 1) : b[i] = IF i = 1 THEN r ELSE v[i - 1]
  <2>1. <<r>> \in Seq(R) /\ Len(<<r>>) = 1 /\ <<r>>[1] = r
    BY <1>1
  <2>2. v \in Seq(R) /\ Len(v) = Len(q)
    BY <1>2 DEF Views, R
  <2> QED BY <2>1, <2>2, ConcatProperties
<1>5. Views(a, addr, dirty, p, S)
  BY <1>3, ViewIs
<1> HIDE DEF a, b
<1> USE DEF Views
<1>6. Len(q) \in Nat /\ DOMAIN q = 1..Len(q) /\ DOMAIN p = 1..(Len(q) + 1)
  BY <1>3
<1>7. ASSUME NEW i \in 1..(Len(q) + 1) PROVE a[i] = b[i]
  <2>1. CASE i = 1
    BY <1>3, <1>4, <1>5, <1>6, <2>1 DEF r
  <2>2. CASE i # 1
    <3>1. i - 1 \in DOMAIN q /\ p[i] = q[i - 1] /\ b[i] = v[i - 1]
      BY <1>3, <1>4, <1>6, <2>2
    <3> QED BY <1>2, <1>5, <1>6, <3>1
  <2> QED BY <2>1, <2>2
<1>8. a = b
  <2>1. a \in Seq(R) /\ Len(a) = Len(q) + 1
    BY <1>3, <1>5 DEF R
  <2> QED BY <1>4, <1>6, <1>7, <2>1, SeqEqual
<1> QED BY <1>8 DEF a, b, v, p, r

LEMMA ViewFront ==
  ASSUME NEW S, NEW addr, NEW dirty, NEW q \in Seq(S), q # <<>>
  PROVE  View(addr, dirty, Front(q)) = SubSeq(View(addr, dirty, q), 1, Len(q) - 1)
<1> DEFINE R == Entries(addr, dirty, S)
           n == Len(q)
           p == Front(q)
           v == View(addr, dirty, q)
           a == View(addr, dirty, p)
           b == SubSeq(v, 1, n - 1)
<1>1. n \in Nat \ {0} /\ DOMAIN q = 1..n
  BY EmptySeq
<1>2. Views(v, addr, dirty, q, S)
  BY ViewIs
<1>3. p \in Seq(S) /\ Len(p) = n - 1 /\ DOMAIN p = 1..(n - 1) /\ \A i \in 1..(n - 1) : p[i] = q[i]
  BY <1>1, SubSeqProperties DEF Front
<1> HIDE DEF n, v, R, p
<1>4. b \in Seq(R) /\ Len(b) = n - 1 /\ \A i \in 1..(n - 1) : b[i] = v[i]
  <2>1. v \in Seq(R) /\ Len(v) = n
    BY <1>2 DEF Views, R, n
  <2> QED BY <1>1, <2>1, SubSeqProperties
<1>5. Views(a, addr, dirty, p, S)
  BY <1>3, ViewIs
<1> HIDE DEF a, b
<1> USE DEF Views
<1>6. ASSUME NEW i \in 1..(n - 1) PROVE a[i] = b[i]
  <2>1. i \in DOMAIN q /\ i \in DOMAIN p /\ p[i] = q[i] /\ b[i] = v[i]
    BY <1>1, <1>3, <1>4
  <2> QED BY <1>2, <1>5, <2>1
<1>7. a = b
  <2>1. a \in Seq(R) /\ Len(a) = n - 1
    BY <1>3, <1>5 DEF R
  <2> QED BY <1>1, <1>4, <1>6, <2>1, SeqEqual
<1> QED BY <1>7 DEF a, b, v, p, n

LEMMA ViewSame ==
  ASSUME NEW S, NEW addr, NEW dirty, NEW addr2, NEW dirty2, NEW q \in Seq(S),
         \A e \in ToSet(q) : addr2[e] = addr[e] /\ dirty2[e] = dirty[e]
  PROVE  View(addr2, dirty2, q) = View(addr, dirty, q)
<1>1. \A i \in DOMAIN q : addr2[q[i]] = addr[q[i]] /\ dirty2[q[i]] = dirty[q[i]]
  BY DEF ToSet
<1> QED BY <1>1 DEF View, Entry

-----------------------------------------------------------------------------
(* What the operations do to the contents of a set of a private cache.     *)

LEMMA SetLength ==
  ASSUME NEW D, NEW n \in Nat \ {0}, NEW s, SetInv(s, D, n)
  PROVE  Len(s.list) <= n /\ (Len(s.list) = n <=> Full(s))
<1>1. SetType(s, D, n) /\ Linked(s, D, n)
  BY DEF SetInv
<1> DEFINE q == s.list
           T == ToSet(q)
<1>2. q \in Seq(1..n) /\ IsInjective(q) /\ DOMAIN q = 1..Len(q) /\ Len(q) \in Nat
  BY <1>1 DEF SetType, Linked
<1>3. q \in Surjection(1..Len(q), T) /\ q \in Injection(1..Len(q), T)
  <2>1. q \in [1..Len(q) -> T]
    BY <1>2 DEF ToSet
  <2>2. \A x \in T : \E i \in 1..Len(q) : q[i] = x
    BY <1>2 DEF ToSet
  <2> QED BY <1>2, <2>1, <2>2 DEF Surjection, Injection, IsInjective
<1>4. IsFiniteSet(1..Len(q)) /\ Cardinality(1..Len(q)) = Len(q) /\ IsFiniteSet(1..n) /\ Cardinality(1..n) = n
  BY <1>2, FS_Interval
<1> HIDE DEF T, q
<1>5. Cardinality(T) = Len(q)
  BY <1>3, <1>4, FS_Surjection
<1>6. T \in SUBSET (1..n)
  BY <1>1 DEF Linked, T, q
<1>7. Len(q) <= n /\ (n = Len(q) => T = 1..n)
  <2> DEFINE N == 1..n
  <2>1. IsFiniteSet(N) /\ T \in SUBSET N /\ Cardinality(N) = n
    BY <1>4, <1>6
  <2> HIDE DEF N
  <2>2. Cardinality(T) <= Cardinality(N) /\ (Cardinality(N) = Cardinality(T) => N = T)
    BY <2>1, FS_Subset
  <2> QED BY <1>5, <2>1, <2>2 DEF N
<1>8. ASSUME Full(s) PROVE Len(q) = n
  <2>1. s.free = <<>> /\ ToSet(<<>>) = {}
    BY <1>8 DEF Full, ToSet
  <2>2. T = 1..n
    BY <1>1, <2>1 DEF Linked, T, q
  <2> QED BY <1>4, <1>5, <2>2
<1>9. ASSUME T = 1..n PROVE Full(s)
  <2> SUFFICES ASSUME s.free # <<>> PROVE FALSE
    BY DEF Full
  <2>1. s.free \in Seq(1..n)
    BY <1>1 DEF SetType
  <2>2. Len(s.free) \in Nat \ {0} /\ DOMAIN s.free = 1..Len(s.free)
    BY <2>1, EmptySeq
  <2>3. s.free[1] \in ToSet(s.free)
    BY <2>2 DEF ToSet
  <2> QED BY <1>1, <1>9, <2>3 DEF Linked, T, q
<1> QED BY <1>7, <1>8, <1>9 DEF q

LEMMA ContentsView ==
  ASSUME NEW s
  PROVE  Contents(s) = View(s.addr, s.dirty, s.list)
BY DEF Contents, View, Entry

\* The entry of a line that hits is where the contents have the line.
PlaceOf(s, l) == Lru!Place(Contents(s), l)

Placed(s, l, k) ==
  /\ k = PlaceOf(s, l) /\ k \in DOMAIN s.list /\ s.list[k] = s.map[l]
  /\ Unlinked(s.list, s.map[l]) = RemoveAt(s.list, k)
  /\ Contents(s)[k] = [line |-> l, dirty |-> s.dirty[s.map[l]]]
  /\ l \in Lru!Held(Contents(s))

LEMMA HitHeld ==
  ASSUME NEW D, NEW n \in Nat \ {0}, NEW s, SetInv(s, D, n), NoGhost(s), NEW l \in D, Hit(s, l)
  PROVE  Placed(s, l, PlaceOf(s, l))
<1> DEFINE e == s.map[l]
           q == s.list
           c == Contents(s)
<1>1. e \in ToSet(q) /\ s.addr[e] = l /\ IsInjective(q)
  BY DEF SetInv, Linked
<1>2. PICK k \in DOMAIN q : q[k] = e
  BY <1>1 DEF ToSet
<1>3. \A i \in DOMAIN q : q[i] = e <=> i = k
  BY <1>1, <1>2 DEF IsInjective
<1>4. DOMAIN c = DOMAIN q /\ \A i \in DOMAIN q : c[i] = [line |-> s.addr[q[i]], dirty |-> s.dirty[q[i]]]
  BY DEF Contents
<1>5. \A i \in DOMAIN q : s.addr[q[i]] = l => q[i] = e
  BY DEF NoGhost, ToSet
<1> HIDE DEF q, c, e
<1>6. \A i \in DOMAIN c : c[i].line = l <=> i = k
  BY <1>1, <1>3, <1>4, <1>5
<1>7. (CHOOSE i \in DOMAIN c : c[i].line = l) = k
  BY <1>2, <1>4, <1>6
<1>8. (CHOOSE i \in DOMAIN q : q[i] = e) = k
  BY <1>2, <1>3
<1>9. Unlinked(q, e) = RemoveAt(q, k)
  BY <1>8 DEF Unlinked
<1>10. l \in Lru!Held(c)
  BY <1>2, <1>4, <1>6 DEF Lru!Held
<1>11. c[k] = [line |-> l, dirty |-> s.dirty[e]]
  BY <1>1, <1>2, <1>4
<1>12. PlaceOf(s, l) = k
  BY <1>7 DEF PlaceOf, Lru!Place, c
<1> QED BY <1>2, <1>9, <1>10, <1>11, <1>12 DEF Placed, q, e, c

LEMMA MissNotHeld ==
  ASSUME NEW D, NEW n \in Nat \ {0}, NEW s, SetInv(s, D, n), NoGhost(s), NEW l \in D, ~Hit(s, l)
  PROVE  l \notin Lru!Held(Contents(s))
<1> SUFFICES ASSUME NEW i \in DOMAIN s.list, s.addr[s.list[i]] = l PROVE FALSE
  BY DEF Lru!Held, Contents
<1>1. s.list[i] \in 1..n
  BY DEF SetInv, SetType
<1>2. s.map[l] = s.list[i]
  BY DEF NoGhost, ToSet
<1> QED BY <1>1, <1>2 DEF Hit, Absent, Null

\* A step of the promise, in one set of n lines.
LruStep(q, r, l, n) ==
  \/ r = q
  \/ l \in Lru!Held(q) /\ r = Lru!Without(q, l)
  \/ \E write \in BOOLEAN :
        \/ l \in Lru!Held(q) /\ r = Lru!Used(q, l, write)
        \/ l \notin Lru!Held(q) /\ r = Lru!With(q, l, write, n)

LEMMA AccessStep ==
  ASSUME NEW D, NEW n \in Nat \ {0}, NEW s, SetInv(s, D, n), NoGhost(s), NEW l \in D, NEW isLoad \in BOOLEAN
  PROVE  LruStep(Contents(s), Contents(Accessed(s, l, isLoad)), l, n)
<1> DEFINE t == Accessed(s, l, isLoad)
<1>1. SetType(s, D, n) /\ Linked(s, D, n)
  BY DEF SetInv
<1>2. CASE ~Hit(s, l)
  <2>1. t = [list |-> s.list, free |-> s.free, map |-> [s.map EXCEPT ![l] = Null], addr |-> s.addr, dirty |-> s.dirty]
    BY <1>1, <1>2 DEF SetType, Accessed
  <2>2. t.list = s.list /\ t.addr = s.addr /\ t.dirty = s.dirty
    BY <2>1
  <2> HIDE DEF t
  <2>3. Contents(t) = Contents(s)
    BY <2>2 DEF Contents
  <2> QED BY <2>3 DEF LruStep, t
<1>3. CASE Hit(s, l)
  <2> DEFINE e == s.map[l]
             k == PlaceOf(s, l)
             p == RemoveAt(s.list, k)
             d == [s.dirty EXCEPT ![e] = @ \/ ~isLoad]
             c == Contents(s)
  <2>1. Placed(s, l, k)
    BY <1>3, HitHeld
  <2>2. t = [list |-> <<e>> \o p, free |-> s.free, map |-> s.map, addr |-> s.addr, dirty |-> d]
    BY <1>1, <1>3, <2>1 DEF SetType, Accessed, Placed
  <2>3. t.list = <<e>> \o p /\ t.addr = s.addr /\ t.dirty = d
    BY <2>2
  <2>4. e \in ToSet(s.list) /\ e \in 1..n /\ s.addr[e] = l /\ s.list \in Seq(1..n) /\ s.dirty \in [1..n -> BOOLEAN]
    BY <1>1, <1>3 DEF Linked, SetType
  <2>5. p \in Seq(1..n) /\ e \notin ToSet(p)
    <3>1. Unlinked(s.list, e) \in Seq(1..n) /\ ToSet(Unlinked(s.list, e)) = ToSet(s.list) \ {e}
      BY <1>1, <2>4, UnlinkOne DEF Linked
    <3>2. Unlinked(s.list, e) = p
      BY <2>1 DEF Placed
    <3> QED BY <3>1, <3>2
  <2>6. View(s.addr, d, p) = View(s.addr, s.dirty, p)
    <3>1. \A x \in ToSet(p) : d[x] = s.dirty[x]
      <4>1. \A x \in ToSet(p) : x \in 1..n
        BY <2>5 DEF ToSet
      <4> QED BY <2>4, <2>5, <4>1
    <3> HIDE DEF d, p
    <3> QED BY <2>5, <3>1, ViewSame
  <2>7. View(s.addr, s.dirty, p) = RemoveAt(c, k)
    <3>1. k \in DOMAIN s.list
      BY <2>1 DEF Placed
    <3> HIDE DEF k
    <3> QED BY <2>4, <3>1, ViewRemoved, ContentsView DEF p
  <2>8. View(s.addr, d, <<e>> \o p) = <<Entry(s.addr, d, e)>> \o View(s.addr, d, p)
    <3> HIDE DEF d, p, e
    <3> QED BY <2>4, <2>5, ViewFirst
  <2>9. Entry(s.addr, d, e) = [line |-> l, dirty |-> s.dirty[e] \/ ~isLoad]
    <3>1. d[e] = (s.dirty[e] \/ ~isLoad)
      BY <2>4
    <3> HIDE DEF d, e
    <3> QED BY <2>4, <3>1 DEF Entry
  <2>10. Contents(t) = View(s.addr, d, <<e>> \o p)
    <3> HIDE DEF t, d, p, e
    <3> QED BY <2>3, ContentsView
  <2>11. c[k].dirty = s.dirty[e] /\ l \in Lru!Held(c)
    BY <2>1 DEF Placed
  <2> HIDE DEF t, e, p, d, c
  <2>12. Contents(t) = <<[line |-> l, dirty |-> c[k].dirty \/ ~isLoad]>> \o RemoveAt(c, k)
    BY <2>6, <2>7, <2>8, <2>9, <2>10, <2>11
  <2>13. Contents(t) = Lru!Used(c, l, ~isLoad)
    BY <2>12 DEF Lru!Used, Lru!Without, Lru!RemoveAt, RemoveAt, PlaceOf, c
  <2>14. (~isLoad) \in BOOLEAN
    OBVIOUS
  <2> QED BY <2>11, <2>13, <2>14 DEF LruStep, c, t
<1> QED BY <1>2, <1>3

LEMMA EvictStep ==
  ASSUME NEW D, NEW n \in Nat \ {0}, NEW s, SetInv(s, D, n), NoGhost(s), NEW l \in D
  PROVE  LruStep(Contents(s), Contents(Evicted(s, l)), l, n)
<1> DEFINE t == Evicted(s, l)
<1>1. SetType(s, D, n) /\ Linked(s, D, n)
  BY DEF SetInv
<1>2. CASE ~Hit(s, l)
  <2>1. t = s
    BY <1>2 DEF Evicted
  <2> QED BY <2>1 DEF LruStep
<1>3. CASE Hit(s, l)
  <2> DEFINE e == s.map[l]
             k == PlaceOf(s, l)
             p == RemoveAt(s.list, k)
             c == Contents(s)
  <2>1. Placed(s, l, k)
    BY <1>3, HitHeld
  <2>2. t = [list |-> p, free |-> Append(s.free, e), map |-> [s.map EXCEPT ![l] = Absent], addr |-> s.addr, dirty |-> s.dirty]
    BY <1>1, <1>3, <2>1 DEF SetType, Evicted, Placed
  <2>3. t.list = p /\ t.addr = s.addr /\ t.dirty = s.dirty
    BY <2>2
  <2>4. s.list \in Seq(1..n)
    BY <1>1 DEF SetType
  <2>5. View(s.addr, s.dirty, p) = RemoveAt(c, k)
    <3>1. k \in DOMAIN s.list
      BY <2>1 DEF Placed
    <3> HIDE DEF k
    <3> QED BY <2>4, <3>1, ViewRemoved, ContentsView DEF p
  <2>6. Contents(t) = View(s.addr, s.dirty, p)
    <3> HIDE DEF t, p
    <3> QED BY <2>3, ContentsView
  <2>7. l \in Lru!Held(c)
    BY <2>1 DEF Placed
  <2> HIDE DEF t, p, c
  <2>8. Contents(t) = Lru!Without(c, l)
    BY <2>5, <2>6 DEF Lru!Without, Lru!RemoveAt, RemoveAt, PlaceOf, c
  <2> QED BY <2>7, <2>8 DEF LruStep, c, t
<1> QED BY <1>2, <1>3

LEMMA InsertStep ==
  ASSUME NEW D, D \subseteq Nat, NEW n \in Nat \ {0}, NEW s, SetInv(s, D, n), NoGhost(s),
         NEW l \in D, NEW isLoad \in BOOLEAN, ~Hit(s, l)
  PROVE  LruStep(Contents(s), Contents(Inserted(s, l, isLoad)), l, n)
<1> DEFINE t == Inserted(s, l, isLoad)
           e == IF Full(s) THEN Victim(s) ELSE Last(s.free)
           p == IF Full(s) THEN Front(s.list) ELSE s.list
           a == [s.addr EXCEPT ![e] = l]
           d == [s.dirty EXCEPT ![e] = ~isLoad]
           c == Contents(s)
<1>1. SetType(s, D, n) /\ Linked(s, D, n)
  BY DEF SetInv
<1>2. s.list \in Seq(1..n) /\ s.addr \in [1..n -> D \cup {Absent}] /\ s.dirty \in [1..n -> BOOLEAN]
  BY <1>1 DEF SetType
<1>3. t.list = <<e>> \o p /\ t.addr = a /\ t.dirty = d
  BY DEF Inserted
<1>4. e \in 1..n /\ p \in Seq(1..n) /\ e \notin ToSet(p)
  <2> HIDE DEF t, e
  <2>1. TakenFor(s, t, l, isLoad, n)
    BY EntryTaken DEF t
  <2>2. e = Taken(s)
    BY DEF Taken, e
  <2>3. e \in 1..n /\ (Full(s) \/ e \notin ToSet(s.list))
    BY <2>1, <2>2 DEF TakenFor
  <2>4. CASE Full(s)
    <3>1. /\ Front(s.list) \in Seq(1..n)
          /\ ToSet(Front(s.list)) = ToSet(s.list) \ {Victim(s)}
      BY <2>4, VictimInUse
    <3>2. e = Victim(s) /\ p = Front(s.list)
      BY <2>2, <2>4 DEF Taken
    <3> HIDE DEF p
    <3> QED BY <2>3, <3>1, <3>2
  <2>5. CASE ~Full(s)
    BY <1>2, <2>3, <2>5
  <2> QED BY <2>4, <2>5
<1>5. a[e] = l /\ d[e] = ~isLoad /\ \A x \in ToSet(p) : a[x] = s.addr[x] /\ d[x] = s.dirty[x]
  <2> HIDE DEF e, p
  <2>1. \A x \in ToSet(p) : x \in 1..n /\ x # e
    BY <1>4 DEF ToSet
  <2> QED BY <1>2, <1>4, <2>1
<1>6. Contents(t) = View(a, d, <<e>> \o p)
  <2> HIDE DEF t, a, d, e, p
  <2> QED BY <1>3, ContentsView
<1> HIDE DEF t, a, d, e
<1>7. View(a, d, p) = IF Full(s) THEN SubSeq(c, 1, Len(c) - 1) ELSE c
  <2>1. c = View(s.addr, s.dirty, s.list) /\ Len(c) = Len(s.list)
    <3>1. c = View(s.addr, s.dirty, s.list)
      BY ContentsView
    <3>2. Views(View(s.addr, s.dirty, s.list), s.addr, s.dirty, s.list, 1..n)
      BY <1>2, ViewIs
    <3> HIDE DEF c
    <3> QED BY <1>2, <3>1, <3>2 DEF Views
  <2>2. View(a, d, p) = View(s.addr, s.dirty, p)
    <3> HIDE DEF p
    <3> QED BY <1>4, <1>5, ViewSame
  <2>3. CASE Full(s)
    <3>1. s.list # <<>> /\ p = Front(s.list)
      BY <2>3, VictimInUse
    <3> HIDE DEF p, c
    <3> QED BY <1>2, <2>1, <2>2, <2>3, <3>1, ViewFront
  <2>4. CASE ~Full(s)
    BY <2>1, <2>2, <2>4
  <2> QED BY <2>3, <2>4
<1>8. View(a, d, p) = Lru!Newest(c, n - 1)
  <2>1. Len(c) = Len(s.list) /\ Len(c) \in Nat
    <3>1. c = View(s.addr, s.dirty, s.list)
      BY ContentsView
    <3> HIDE DEF c
    <3>2. Views(View(s.addr, s.dirty, s.list), s.addr, s.dirty, s.list, 1..n)
      BY <1>2, ViewIs
    <3>3. Len(View(s.addr, s.dirty, s.list)) = Len(s.list)
      BY <3>2 DEF Views
    <3>4. Len(s.list) \in Nat
      BY <1>2
    <3> QED BY <3>1, <3>3, <3>4
  <2>2. (Len(c) = n <=> Full(s)) /\ Len(c) <= n
    BY <2>1, SetLength
  <2> HIDE DEF c, p
  <2> QED BY <1>7, <2>1, <2>2 DEF Lru!Newest
<1>9. Contents(t) = <<Entry(a, d, e)>> \o View(a, d, p)
  <2> HIDE DEF p, c
  <2>1. View(a, d, <<e>> \o p) = <<Entry(a, d, e)>> \o View(a, d, p)
    <3> DEFINE S == 1..n
    <3>1. e \in S /\ p \in Seq(S)
      BY <1>4
    <3> HIDE DEF S
    <3> QED BY <3>1, ViewFirst
  <2> QED BY <1>6, <2>1
<1>10. Entry(a, d, e) = [line |-> l, dirty |-> ~isLoad]
  BY <1>5 DEF Entry
<1> HIDE DEF p, c
<1>11. Contents(t) = Lru!With(c, l, ~isLoad, n)
  BY <1>8, <1>9, <1>10 DEF Lru!With
<1>12. l \notin Lru!Held(c)
  BY MissNotHeld DEF c
<1>13. (~isLoad) \in BOOLEAN
  OBVIOUS
<1> QED BY <1>11, <1>12, <1>13 DEF LruStep, c, t

-----------------------------------------------------------------------------
(* The private caches implement LruSets.                                   *)

\* The mapping, as CacheHierarchy gives it to LruSets.
ways == [k \in PrivateSetIds |-> IF k[1] = "L1" THEN L1Ways ELSE L2Ways]
contentsMap == [k \in PrivateSetIds |-> Contents(PrivateSet(k))]

\* One set changes, as LruSets lets it.
LEMMA OneSet ==
  ASSUME NEW k \in PrivateSetIds, NEW l, NEW q, NEW n, n = ways[k],
         l \in Lines \/ q = Contents(PrivateSet(k)),
         \A j \in PrivateSetIds : Contents(PrivateSet(j))' = IF j = k THEN q ELSE Contents(PrivateSet(j)),
         LruStep(Contents(PrivateSet(k)), q, l, n)
  PROVE  [Lru!Next]_contentsMap
<1>1. contentsMap' = [contentsMap EXCEPT ![k] = q] /\ contentsMap[k] = Contents(PrivateSet(k))
  BY DEF contentsMap
<1>2. CASE q = Contents(PrivateSet(k))
  <2>1. contentsMap' = contentsMap
    BY <1>2 DEF contentsMap
  <2> QED BY <2>1
<1>3. CASE l \in Lines /\ l \in Lru!Held(contentsMap[k]) /\ q = Lru!Without(contentsMap[k], l)
  <2>1. Lru!Discard(k, l)
    BY <1>1, <1>3 DEF Lru!Discard, Lru!Becomes, contentsMap
  <2> QED BY <1>3, <2>1 DEF Lru!Next
<1>4. ASSUME NEW write \in BOOLEAN, l \in Lines, l \in Lru!Held(contentsMap[k]), q = Lru!Used(contentsMap[k], l, write)
      PROVE  Lru!Next
  <2>1. Lru!Touch(k, l, write)
    BY <1>1, <1>4 DEF Lru!Touch, Lru!Becomes, contentsMap
  <2> QED BY <1>4, <2>1 DEF Lru!Next
<1>5. ASSUME NEW write \in BOOLEAN, l \in Lines, l \notin Lru!Held(contentsMap[k]), q = Lru!With(contentsMap[k], l, write, n)
      PROVE  Lru!Next
  <2>1. Lru!Fill(k, l, write)
    BY <1>1, <1>5 DEF Lru!Fill, Lru!Becomes, contentsMap, ways
  <2> QED BY <1>5, <2>1 DEF Lru!Next
<1> QED BY <1>1, <1>2, <1>3, <1>4, <1>5 DEF LruStep

LEMMA SetIds ==
  /\ \A c \in Cores, j \in Sets(L1Sets) :
        /\ <<"L1", c, j>> \in PrivateSetIds /\ ways[<<"L1", c, j>>] = L1Ways
        /\ PrivateSet(<<"L1", c, j>>) = l1[c][j] /\ PrivateSet(<<"L1", c, j>>)' = l1'[c][j]
  /\ \A c \in Cores, j \in Sets(L2Sets) :
        /\ <<"L2", c, j>> \in PrivateSetIds /\ ways[<<"L2", c, j>>] = L2Ways
        /\ PrivateSet(<<"L2", c, j>>) = l2[c][j] /\ PrivateSet(<<"L2", c, j>>)' = l2'[c][j]
  /\ \A k \in PrivateSetIds :
        \/ \E c \in Cores, j \in Sets(L1Sets) : k = <<"L1", c, j>>
        \/ \E c \in Cores, j \in Sets(L2Sets) : k = <<"L2", c, j>>
BY DEF PrivateSetIds, PrivateSet, ways

\* A set of an L1 is replaced, or one of an L2.
LEMMA L1Step ==
  ASSUME IInv, NEW c \in Cores, NEW l \in Addresses, NEW t, l2' = l2,
         l1' = [l1 EXCEPT ![c][SetOf(L1Sets, l)] = t],
         LruStep(Contents(l1[c][SetOf(L1Sets, l)]), Contents(t), l, L1Ways),
         l \in Lines \/ Contents(t) = Contents(l1[c][SetOf(L1Sets, l)])
  PROVE  [Lru!Next]_contentsMap
<1> DEFINE i == SetOf(L1Sets, l)
           k == <<"L1", c, i>>
<1>1. i \in Sets(L1Sets)
  BY Sizes, SetOfLine
<1> HIDE DEF i
<1>2. /\ l1 = [d \in Cores |-> l1[d]]
      /\ \A d \in Cores : l1[d] = [j \in Sets(L1Sets) |-> l1[d][j]]
  BY DEF IInv, CachesInv, PrivateOK, CacheOK
<1>3. \A d \in Cores, j \in Sets(L1Sets) : l1'[d][j] = IF d = c /\ j = i THEN t ELSE l1[d][j]
  BY <1>1, <1>2 DEF i
<1>4. k \in PrivateSetIds /\ L1Ways = ways[k] /\ PrivateSet(k) = l1[c][i]
  BY <1>1, SetIds
<1>5. ASSUME NEW j \in PrivateSetIds
      PROVE  Contents(PrivateSet(j))' = IF j = k THEN Contents(t) ELSE Contents(PrivateSet(j))
  <2>1. PrivateSet(j)' = IF j = k THEN t ELSE PrivateSet(j)
    <3>1. CASE \E d \in Cores, x \in Sets(L1Sets) : j = <<"L1", d, x>>
      <4>1. PICK d \in Cores, x \in Sets(L1Sets) : j = <<"L1", d, x>>
        BY <3>1
      <4>2. PrivateSet(j) = l1[d][x] /\ PrivateSet(j)' = l1'[d][x]
        BY <4>1, SetIds
      <4>3. j = k <=> d = c /\ x = i
        BY <4>1
      <4> QED BY <1>3, <4>2, <4>3
    <3>2. CASE \E d \in Cores, x \in Sets(L2Sets) : j = <<"L2", d, x>>
      <4>1. PICK d \in Cores, x \in Sets(L2Sets) : j = <<"L2", d, x>>
        BY <3>2
      <4>2. PrivateSet(j) = l2[d][x] /\ PrivateSet(j)' = l2'[d][x]
        BY <4>1, SetIds
      <4>3. j # k
        BY <4>1
      <4> QED BY <4>2, <4>3
    <3> QED BY <3>1, <3>2, SetIds
  <2> HIDE DEF k
  <2> QED BY <2>1 DEF Contents
<1>6. /\ LruStep(Contents(PrivateSet(k)), Contents(t), l, L1Ways)
      /\ l \in Lines \/ Contents(t) = Contents(PrivateSet(k))
  BY <1>4 DEF i
<1> HIDE DEF k
<1> QED BY <1>4, <1>5, <1>6, OneSet

LEMMA L2Step ==
  ASSUME IInv, NEW c \in Cores, NEW l \in Addresses, NEW t, l1' = l1,
         l2' = [l2 EXCEPT ![c][SetOf(L2Sets, l)] = t],
         LruStep(Contents(l2[c][SetOf(L2Sets, l)]), Contents(t), l, L2Ways),
         l \in Lines \/ Contents(t) = Contents(l2[c][SetOf(L2Sets, l)])
  PROVE  [Lru!Next]_contentsMap
<1> DEFINE i == SetOf(L2Sets, l)
           k == <<"L2", c, i>>
<1>1. i \in Sets(L2Sets)
  BY Sizes, SetOfLine
<1> HIDE DEF i
<1>2. /\ l2 = [d \in Cores |-> l2[d]]
      /\ \A d \in Cores : l2[d] = [j \in Sets(L2Sets) |-> l2[d][j]]
  BY DEF IInv, CachesInv, PrivateOK, CacheOK
<1>3. \A d \in Cores, j \in Sets(L2Sets) : l2'[d][j] = IF d = c /\ j = i THEN t ELSE l2[d][j]
  BY <1>1, <1>2 DEF i
<1>4. k \in PrivateSetIds /\ L2Ways = ways[k] /\ PrivateSet(k) = l2[c][i]
  BY <1>1, SetIds
<1>5. ASSUME NEW j \in PrivateSetIds
      PROVE  Contents(PrivateSet(j))' = IF j = k THEN Contents(t) ELSE Contents(PrivateSet(j))
  <2>1. PrivateSet(j)' = IF j = k THEN t ELSE PrivateSet(j)
    <3>1. CASE \E d \in Cores, x \in Sets(L1Sets) : j = <<"L1", d, x>>
      <4>1. PICK d \in Cores, x \in Sets(L1Sets) : j = <<"L1", d, x>>
        BY <3>1
      <4>2. PrivateSet(j) = l1[d][x] /\ PrivateSet(j)' = l1'[d][x]
        BY <4>1, SetIds
      <4>3. j # k
        BY <4>1
      <4> QED BY <4>2, <4>3
    <3>2. CASE \E d \in Cores, x \in Sets(L2Sets) : j = <<"L2", d, x>>
      <4>1. PICK d \in Cores, x \in Sets(L2Sets) : j = <<"L2", d, x>>
        BY <3>2
      <4>2. PrivateSet(j) = l2[d][x] /\ PrivateSet(j)' = l2'[d][x]
        BY <4>1, SetIds
      <4>3. j = k <=> d = c /\ x = i
        BY <4>1
      <4> QED BY <1>3, <4>2, <4>3
    <3> QED BY <3>1, <3>2, SetIds
  <2> HIDE DEF k
  <2> QED BY <2>1 DEF Contents
<1>6. /\ LruStep(Contents(PrivateSet(k)), Contents(t), l, L2Ways)
      /\ l \in Lines \/ Contents(t) = Contents(PrivateSet(k))
  BY <1>4 DEF i
<1> HIDE DEF k
<1> QED BY <1>4, <1>5, <1>6, OneSet

LEMMA PrivateAlike ==
  ASSUME l1' = l1, l2' = l2
  PROVE  contentsMap' = contentsMap
BY DEF contentsMap, PrivateSet, Contents

\* What the invariant says of the set of a line, in a private cache.
LEMMA SetThere ==
  ASSUME IInv, NEW c \in Cores, NEW l \in Addresses
  PROVE  /\ LET s == l1[c][SetOf(L1Sets, l)]
                D == LinesOf(L1Sets, SetOf(L1Sets, l))
            IN  SetOK(s, D, L1Ways, stored) /\ SetInv(s, D, L1Ways) /\ NoGhost(s) /\ l \in D /\ D \subseteq Nat
         /\ LET s == l2[c][SetOf(L2Sets, l)]
                D == LinesOf(L2Sets, SetOf(L2Sets, l))
            IN  SetOK(s, D, L2Ways, WrittenL2) /\ SetInv(s, D, L2Ways) /\ NoGhost(s) /\ l \in D /\ D \subseteq Nat
<1>1. /\ SetOf(L1Sets, l) \in Sets(L1Sets) /\ l \in LinesOf(L1Sets, SetOf(L1Sets, l))
      /\ LinesOf(L1Sets, SetOf(L1Sets, l)) \subseteq Nat
  BY Sizes, SetOfLine
<1>2. /\ SetOf(L2Sets, l) \in Sets(L2Sets) /\ l \in LinesOf(L2Sets, SetOf(L2Sets, l))
      /\ LinesOf(L2Sets, SetOf(L2Sets, l)) \subseteq Nat
  BY Sizes, SetOfLine
<1>3. PrivateOK(l1, L1Sets, L1Ways, stored) /\ PrivateOK(l2, L2Sets, L2Ways, WrittenL2)
  BY DEF IInv, CachesInv
<1> QED BY <1>1, <1>2, <1>3 DEF PrivateOK, CacheOK, SetOK

LEMMA L1AccessLru ==
  ASSUME IInv, NEW c \in Cores, NEW l \in Lines, NEW isLoad \in BOOLEAN, L1Access(c, l, isLoad)
  PROVE  [Lru!Next]_contentsMap
<1> DEFINE s == l1[c][SetOf(L1Sets, l)]
<1>1. l2' = l2 /\ l1' = [l1 EXCEPT ![c][SetOf(L1Sets, l)] = Accessed(s, l, isLoad)]
  BY DEF L1Access, PutL1, L1Of
<1>2. LruStep(Contents(s), Contents(Accessed(s, l, isLoad)), l, L1Ways)
  BY AddressesAre, SetThere, Sizes, AccessStep
<1> QED BY <1>1, <1>2, AddressesAre, L1Step

\* A write-back of a line that is never accessed does not hit.
LEMMA L2AccessLru ==
  ASSUME IInv, NEW c \in Cores, NEW l \in Addresses,
         (l \in Lines /\ L2Access(c, l)) \/ L2Write(c, l)
  PROVE  [Lru!Next]_contentsMap
<1> DEFINE s == l2[c][SetOf(L2Sets, l)]
<1>1. PICK isLoad \in BOOLEAN : l2' = [l2 EXCEPT ![c][SetOf(L2Sets, l)] = Accessed(s, l, isLoad)]
  <2>1. l \in Lines => primary[c][l] \in BOOLEAN
    BY DEF IInv, TypeInv
  <2> QED BY <2>1 DEF L2Access, L2Write, PutL2, L2Of
<1>2. l1' = l1
  BY DEF L2Access, L2Write
<1>3. LruStep(Contents(s), Contents(Accessed(s, l, isLoad)), l, L2Ways)
  BY AddressesAre, SetThere, Sizes, AccessStep
<1>4. l \in Lines \/ Contents(Accessed(s, l, isLoad)) = Contents(s)
  <2> DEFINE D == LinesOf(L2Sets, SetOf(L2Sets, l))
  <2>1. SetOK(s, D, L2Ways, WrittenL2) /\ l \in D /\ D \subseteq Nat
    BY SetThere
  <2> HIDE DEF s, D
  <2>2. CASE Hit(s, l)
    <3>1. s.map[l] \in 1..L2Ways /\ s.addr[s.map[l]] = l
      BY <2>1, <2>2 DEF SetOK, SetInv, Linked
    <3> QED BY <2>1, <3>1 DEF SetOK, Absent
  <2>3. CASE ~Hit(s, l)
    <3>1. s = [list |-> s.list, free |-> s.free, map |-> s.map, addr |-> s.addr, dirty |-> s.dirty]
      BY <2>1 DEF SetOK, SetInv, SetType
    <3>2. Accessed(s, l, isLoad) = [s EXCEPT !.map[l] = Null]
      BY <2>3 DEF Accessed
    <3>3. /\ Accessed(s, l, isLoad).list = s.list /\ Accessed(s, l, isLoad).addr = s.addr
          /\ Accessed(s, l, isLoad).dirty = s.dirty
      BY <3>1, <3>2
    <3> QED BY <3>3 DEF Contents
  <2> QED BY <2>2, <2>3
<1> QED BY <1>1, <1>2, <1>3, <1>4, L2Step

\* A request that fills a cache is for a line it does not have.
LEMMA L1FillLru ==
  ASSUME IInv, NEW c \in Cores, NEW l \in Lines, L1Fill(c, l)
  PROVE  [Lru!Next]_contentsMap
<1> DEFINE s == l1[c][SetOf(L1Sets, l)]
           isLoad == primary[c][l]
<1>1. l2' = l2 /\ l1' = [l1 EXCEPT ![c][SetOf(L1Sets, l)] = Inserted(s, l, isLoad)]
  BY DEF L1Fill, PutL1, L1Of
<1>2. isLoad \in BOOLEAN
  BY DEF IInv, TypeInv
<1>3. ~Hit(s, l)
  BY DEF IInv, RequestsInv, L1Of, L1Fill, Moves
<1> HIDE DEF isLoad
<1>4. LruStep(Contents(s), Contents(Inserted(s, l, isLoad)), l, L1Ways)
  BY <1>2, <1>3, AddressesAre, SetThere, Sizes, InsertStep
<1> QED BY <1>1, <1>4, AddressesAre, L1Step

LEMMA L2FillLru ==
  ASSUME IInv, NEW c \in Cores, NEW l \in Lines, L2Fill(c, l)
  PROVE  [Lru!Next]_contentsMap
<1> DEFINE s == l2[c][SetOf(L2Sets, l)]
           isLoad == primary[c][l]
<1>1. l1' = l1 /\ l2' = [l2 EXCEPT ![c][SetOf(L2Sets, l)] = Inserted(s, l, isLoad)]
  BY DEF L2Fill, PutL2, L2Of
<1>2. isLoad \in BOOLEAN
  BY DEF IInv, TypeInv
<1>3. ~Hit(s, l)
  BY DEF IInv, RequestsInv, L2Of, L2Fill, Moves, MissedL2
<1> HIDE DEF isLoad
<1>4. LruStep(Contents(s), Contents(Inserted(s, l, isLoad)), l, L2Ways)
  BY <1>2, <1>3, AddressesAre, SetThere, Sizes, InsertStep
<1> QED BY <1>1, <1>4, AddressesAre, L2Step

LEMMA EvictsLru ==
  ASSUME IInv, NEW c \in Cores, NEW l \in Lines, L1Evicts(c, l) \/ L2Evicts(c, l)
  PROVE  [Lru!Next]_contentsMap
<1>1. CASE L1Evicts(c, l)
  <2> DEFINE s == l1[c][SetOf(L1Sets, l)]
  <2>1. l2' = l2 /\ l1' = [l1 EXCEPT ![c][SetOf(L1Sets, l)] = Evicted(s, l)]
    BY <1>1 DEF L1Evicts, PutL1, L1Of
  <2>2. LruStep(Contents(s), Contents(Evicted(s, l)), l, L1Ways)
    BY AddressesAre, SetThere, Sizes, EvictStep
  <2> QED BY <2>1, <2>2, AddressesAre, L1Step
<1>2. CASE L2Evicts(c, l)
  <2> DEFINE s == l2[c][SetOf(L2Sets, l)]
  <2>1. l1' = l1 /\ l2' = [l2 EXCEPT ![c][SetOf(L2Sets, l)] = Evicted(s, l)]
    BY <1>2 DEF L2Evicts, PutL2, L2Of
  <2>2. LruStep(Contents(s), Contents(Evicted(s, l)), l, L2Ways)
    BY AddressesAre, SetThere, Sizes, EvictStep
  <2> QED BY <2>1, <2>2, AddressesAre, L2Step
<1> QED BY <1>1, <1>2

LEMMA StepLru == IInv /\ [Next]_vars => [Lru!Next]_contentsMap
<1> SUFFICES ASSUME IInv, [Next]_vars PROVE [Lru!Next]_contentsMap
  OBVIOUS
<1>1. CASE UNCHANGED vars
  <2>1. l1' = l1 /\ l2' = l2
    BY <1>1 DEF vars
  <2> QED BY <2>1, PrivateAlike
<1>2. ASSUME NEW c \in Cores, NEW l \in Lines, NEW isLoad \in BOOLEAN, L1Access(c, l, isLoad)
      PROVE  [Lru!Next]_contentsMap
  BY <1>2, L1AccessLru
<1>3. ASSUME NEW c \in Cores, NEW l \in Lines,
             L2Access(c, l) \/ L1Fill(c, l) \/ L2Fill(c, l) \/ L1Evicts(c, l) \/ L2Evicts(c, l)
      PROVE  [Lru!Next]_contentsMap
  BY <1>3, AddressesAre, L2AccessLru, L1FillLru, L2FillLru, EvictsLru
<1>6. ASSUME NEW c \in Cores, NEW l \in Addresses, L2Write(c, l) PROVE [Lru!Next]_contentsMap
  BY <1>6, L2AccessLru
\* What else happens does not touch the private caches.
<1>4. ASSUME NEW l, NEW c,
             LlcAccess(c, l) \/ LlcFill(c, l) \/ LlcWrite(c, l) \/ MemoryRead(l) \/ LlcEvicts(l)
      PROVE  [Lru!Next]_contentsMap
  <2>1. l1' = l1 /\ l2' = l2
    BY <1>4 DEF LlcAccess, LlcFill, LlcWrite, MemoryRead, LlcEvicts
  <2> QED BY <2>1, PrivateAlike
<1>5. CASE Quiet
  BY <1>1, <1>5 DEF Quiet
<1> QED BY <1>1, <1>2, <1>3, <1>4, <1>5, <1>6 DEF Next, Request

LEMMA InitLru == Init => Lru!Init
<1> SUFFICES ASSUME Init PROVE Lru!Init
  OBVIOUS
<1>1. ASSUME NEW k \in PrivateSetIds PROVE Contents(PrivateSet(k)) = <<>>
  <2>1. PICK n, D : PrivateSet(k) = NewSet(n, D)
    <3>1. CASE \E c \in Cores, j \in Sets(L1Sets) : k = <<"L1", c, j>>
      <4>1. PICK c \in Cores, j \in Sets(L1Sets) : k = <<"L1", c, j>>
        BY <3>1
      <4>2. PrivateSet(k) = l1[c][j]
        BY <4>1, SetIds
      <4> QED BY <4>2 DEF Init, NewCache
    <3>2. CASE \E c \in Cores, j \in Sets(L2Sets) : k = <<"L2", c, j>>
      <4>1. PICK c \in Cores, j \in Sets(L2Sets) : k = <<"L2", c, j>>
        BY <3>2
      <4>2. PrivateSet(k) = l2[c][j]
        BY <4>1, SetIds
      <4> QED BY <4>2 DEF Init, NewCache
    <3> QED BY <3>1, <3>2, SetIds
  <2>2. PrivateSet(k).list = <<>>
    BY <2>1 DEF NewSet
  <2>3. View(PrivateSet(k).addr, PrivateSet(k).dirty, <<>>) = <<>>
    <3>1. <<>> \in Seq({}) /\ Len(<<>>) = 0
      BY EmptySeq
    <3>2. Views(View(PrivateSet(k).addr, PrivateSet(k).dirty, <<>>), PrivateSet(k).addr, PrivateSet(k).dirty, <<>>, {})
      BY <3>1, ViewIs
    <3> QED BY <3>1, <3>2, EmptySeq DEF Views
  <2> QED BY <2>2, <2>3, ContentsView
<1> QED BY <1>1 DEF Lru!Init

\* Each set of a private cache holds the lines of it that were used last, as
\* many as it has entries, and knows which of them were written to, whatever
\* fills, write-backs and evictions the hierarchy interleaves
\* (FunctionalCache.cpp:30-118).
THEOREM SetsAreLru == Spec => ImplementsLru
<1>1. IInv /\ [Next]_vars => [Lru!Next]_contentsMap
  BY StepLru
<1> QED BY <1>1, InitLru, InvHolds, PTL DEF Spec, ImplementsLru, Lru!Spec, contentsMap
=============================================================================
