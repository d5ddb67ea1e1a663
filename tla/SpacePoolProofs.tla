-------------------------- MODULE SpacePoolProofs --------------------------
(***************************************************************************)
(* Proofs about SpacePool, for any finite or infinite set of first writes,  *)
(* any ranges of blocks, grants and ioctls.                                 *)
(*                                                                          *)
(* The pool's lists are walked by FoldLeft.  The first part proves, once,   *)
(* that a fold over a sequence is the last of a chain of values, one for    *)
(* every prefix, and states that for the folds of the model.                *)
(*                                                                          *)
(* The last part is about the overwrite queries of OvwQuery, whose queue    *)
(* needs the same lemmas about sequences.                                   *)
(***************************************************************************)
EXTENDS SpacePool, OvwQuery, FiniteSetTheorems, SequenceTheorems, WellFoundedInduction, TLAPS

(* Every set of natural numbers that is not empty has a least element.      *)
LEMMA LeastNumber ==
  ASSUME NEW T \in SUBSET Nat, T # {}
  PROVE  \E x \in T : \A y \in T : ~(y < x)
<1> DEFINE R == OpToRel(<, Nat)
<1>1. IsWellFoundedOn(R, Nat)
  BY NatLessThanWellFounded
<1>2. \A x, y \in Nat : <<y, x>> \in R <=> y < x
  BY DEF OpToRel
<1> HIDE DEF R
<1>3. PICK x \in T : \A y \in T : ~(<<y, x>> \in R)
  BY <1>1, WFMin
<1>4. x \in Nat /\ \A y \in T : y \in Nat
  OBVIOUS
<1> QED BY <1>2, <1>3, <1>4

(* A set that holds 0 and with k < n also k + 1 holds 0 .. n.               *)
LEMMA Reaches ==
  ASSUME NEW n \in Nat, NEW X, 0 \in X,
         \A k \in 0..n : k \in X /\ k < n => k + 1 \in X
  PROVE  \A k \in 0..n : k \in X
<1> DEFINE T == {k \in 0..n : k \notin X}
<1> SUFFICES ASSUME T # {} PROVE FALSE
  OBVIOUS
<1>1. T \in SUBSET Nat
  OBVIOUS
<1>2. PICK x \in T : \A y \in T : ~(y < x)
  BY <1>1, LeastNumber
<1>3. x \in 0..n /\ x # 0 /\ x \notin X
  BY <1>2
<1>4. x - 1 \in 0..n /\ x - 1 < n /\ x - 1 < x /\ (x - 1) + 1 = x
  BY <1>3
<1>5. x - 1 \in X
  BY <1>2, <1>4
<1> QED BY <1>3, <1>4, <1>5

(* The recursive function of a fold exists, here for a step that is given   *)
(* as a function G.                                                         *)
Taken(it, G, base, s, t) == IF t = {} THEN base ELSE G[<<it[t \ {Max(t)}], s[Max(t)]>>]
IsFold(it, A, G, base, n, s) ==
  /\ it \in [SUBSET (1..n) -> A]
  /\ \A t \in SUBSET (1..n) : it[t] = Taken(it, G, base, s, t)

LEMMA FoldExists ==
  ASSUME NEW A, NEW E, NEW G \in [A \X E -> A], NEW base \in A,
         NEW n \in Nat, NEW s \in [1..n -> E]
  PROVE  \E it : IsFold(it, A, G, base, n, s)
<1> DEFINE X == {k \in 0..n : \E it \in [SUBSET (1..k) -> A] :
                                \A t \in SUBSET (1..k) : it[t] = Taken(it, G, base, s, t)}
<1>1. 0 \in X
  <2> DEFINE it == [t \in SUBSET (1..0) |-> base]
  <2>1. \A t \in SUBSET (1..0) : t = {}
    OBVIOUS
  <2>2. it \in [SUBSET (1..0) -> A] /\ \A t \in SUBSET (1..0) : it[t] = Taken(it, G, base, s, t)
    BY <2>1 DEF Taken
  <2> HIDE DEF it
  <2>3. \E f \in [SUBSET (1..0) -> A] : \A t \in SUBSET (1..0) : f[t] = Taken(f, G, base, s, t)
    BY <2>2
  <2>4. 0 \in 0..n
    OBVIOUS
  <2> QED BY <2>3, <2>4, Zenon
<1>2. ASSUME NEW k \in 0..n, k \in X, k < n PROVE k + 1 \in X
  <2>1. PICK it \in [SUBSET (1..k) -> A] :
               \A t \in SUBSET (1..k) : it[t] = Taken(it, G, base, s, t)
    BY <1>2
  <2> DEFINE D == SUBSET (1..(k + 1))
             h == [t \in D |-> IF k + 1 \in t THEN G[<<it[t \ {k + 1}], s[k + 1]>>] ELSE it[t]]
  <2>2. \A t \in D : t \ {k + 1} \in SUBSET (1..k)
    BY <1>2
  <2>3. h \in [D -> A]
    <3>1. k + 1 \in 1..n
      BY <1>2
    <3> SUFFICES ASSUME NEW t \in D PROVE h[t] \in A
      OBVIOUS
    <3>2. CASE k + 1 \in t
      BY <2>2, <3>1, <3>2
    <3>3. CASE k + 1 \notin t
      <4>1. t \in SUBSET (1..k)
        BY <2>2, <3>3
      <4> QED BY <3>3, <4>1
    <3> QED BY <3>2, <3>3
  <2>4. ASSUME NEW t \in D PROVE h[t] = Taken(h, G, base, s, t)
    <3>1. CASE k + 1 \in t
      <4>1. t # {} /\ Max(t) = k + 1
        <5>1. \A y \in t : y \in Nat /\ k + 1 >= y
          BY <1>2
        <5>2. \A x \in t : (\A y \in t : x >= y) => x = k + 1
          BY <3>1, <5>1
        <5> QED BY <3>1, <5>1, <5>2 DEF Max
      <4>2. t \ {k + 1} \in D /\ k + 1 \notin t \ {k + 1}
        BY <2>2
      <4>3. h[t \ {k + 1}] = it[t \ {k + 1}]
        BY <4>2
      <4>4. h[t] = G[<<it[t \ {k + 1}], s[k + 1]>>]
        BY <3>1
      <4> HIDE DEF h
      <4> QED BY <4>1, <4>3, <4>4 DEF Taken
    <3>2. CASE k + 1 \notin t
      <4>1. t \in SUBSET (1..k) /\ h[t] = it[t]
        BY <2>2, <3>2
      <4>2. it[t] = Taken(it, G, base, s, t)
        BY <2>1, <4>1
      <4>3. t \ {Max(t)} \in D /\ k + 1 \notin t \ {Max(t)}
        BY <3>2
      <4>4. h[t \ {Max(t)}] = it[t \ {Max(t)}]
        BY <4>3
      <4> HIDE DEF h
      <4> QED BY <4>1, <4>2, <4>4 DEF Taken
    <3> QED BY <3>1, <3>2
  <2> HIDE DEF h
  <2>5. k + 1 \in 0..n
    BY <1>2
  <2> QED BY <2>3, <2>4, <2>5
<1> HIDE DEF X
<1>3. n \in X
  <2>1. \A k \in 0..n : k \in X /\ k < n => k + 1 \in X
    BY <1>2
  <2>2. \A k \in 0..n : k \in X
    BY <1>1, <2>1, Reaches
  <2> QED BY <2>2
<1> QED BY <1>3 DEF X, IsFold

(* A set of positions has a greatest one.                                   *)
LEMMA MaxIn ==
  ASSUME NEW n \in Nat, NEW t \in SUBSET (1..n), t # {}
  PROVE  Max(t) \in t
<1> DEFINE T == {x \in Nat : n - x \in t}
<1>1. PICK y \in t : TRUE
  OBVIOUS
<1>2. n - y \in T
  <2>1. y \in 1..n
    BY <1>1
  <2>2. n - y \in Nat /\ n - (n - y) = y
    BY <2>1
  <2> QED BY <1>1, <2>2
<1>3. PICK x \in T : \A z \in T : ~(z < x)
  <2>1. T \in SUBSET Nat /\ T # {}
    BY <1>2
  <2> HIDE DEF T
  <2> QED BY <2>1, LeastNumber
<1>4. \A z \in t : n - x >= z
  <2> SUFFICES ASSUME NEW z \in t PROVE n - x >= z
    OBVIOUS
  <2>1. z \in 1..n /\ x \in Nat
    BY <1>3
  <2>2. n - z \in Nat /\ n - (n - z) = z
    BY <2>1
  <2>3. ~(n - z < x)
    BY <1>3, <2>2
  <2> QED BY <2>1, <2>3
<1>5. n - x \in t
  BY <1>3
<1> QED BY <1>4, <1>5 DEF Max

(* The greatest element of a prefix of the natural numbers.                 *)
LEMMA MaxPrefix ==
  ASSUME NEW k \in Nat, k # 0
  PROVE  Max(1..k) = k /\ 1..k # {} /\ (1..k) \ {k} = 1..(k - 1)
<1>1. k \in 1..k /\ \A y \in 1..k : k >= y
  OBVIOUS
<1>2. \A x \in 1..k : (\A y \in 1..k : x >= y) => x = k
  BY <1>1
<1>3. Max(1..k) = k
  BY <1>1, <1>2 DEF Max
<1> QED BY <1>1, <1>3

-----------------------------------------------------------------------------
(* Among: the elements of a set, in order.                                  *)
AmongStep(q, c, S) == IF c \in S THEN Append(q, c) ELSE q
IsAmong(g, s, S) ==
  g = [t \in SUBSET DOMAIN s |->
         IF t = {} THEN <<>> ELSE AmongStep(g[t \ {Max(t)}], s[Max(t)], S)]
AmongIter(s, S) == CHOOSE g : IsAmong(g, s, S)

LEMMA AmongIsIter == ASSUME NEW s, NEW S PROVE Among(s, S) = AmongIter(s, S)[DOMAIN s]
BY DEF Among, AmongIter, IsAmong, AmongStep, FoldLeft, MapThenFoldSet

(* The chain of the selections from the prefixes of a sequence.             *)
AmongLinks(h, E, s, S) ==
  /\ h \in [0..Len(s) -> Seq(E)]
  /\ h[0] = <<>> /\ Among(s, S) = h[Len(s)]
  /\ \A k \in 1..Len(s) : h[k] = AmongStep(h[k - 1], s[k], S)

LEMMA AmongChain ==
  ASSUME NEW E, NEW s \in Seq(E), NEW S
  PROVE  \E h : AmongLinks(h, E, s, S)
<1> DEFINE n == Len(s)
           A == Seq(E)
           G == [p \in A \X E |-> AmongStep(p[1], p[2], S)]
           g == AmongIter(s, S)
<1>1. n \in Nat /\ s \in [1..n -> E] /\ DOMAIN s = 1..n
  OBVIOUS
<1>2. G \in [A \X E -> A]
  BY DEF AmongStep
<1>3. \A a \in A, e \in E : G[<<a, e>>] = AmongStep(a, e, S)
  OBVIOUS
<1> HIDE DEF n, G
<1>4. PICK it : IsFold(it, A, G, <<>>, n, s)
  <2>1. <<>> \in A
    OBVIOUS
  <2> HIDE DEF A
  <2> QED BY <1>1, <1>2, <2>1, FoldExists
<1>5. IsAmong(it, s, S)
  <2>1. ASSUME NEW t \in SUBSET (1..n)
        PROVE  it[t] = IF t = {} THEN <<>> ELSE AmongStep(it[t \ {Max(t)}], s[Max(t)], S)
    <3>1. CASE t = {}
      BY <1>4, <3>1 DEF Taken, IsFold
    <3>2. CASE t # {}
      <4>1. Max(t) \in 1..n /\ t \ {Max(t)} \in SUBSET (1..n)
        BY <1>1, <3>2, MaxIn
      <4>2. it[t \ {Max(t)}] \in A /\ s[Max(t)] \in E
        BY <1>1, <1>4, <4>1 DEF IsFold
      <4> HIDE DEF A
      <4>3. it[t] = G[<<it[t \ {Max(t)}], s[Max(t)]>>]
        BY <1>4, <3>2 DEF Taken, IsFold
      <4> QED BY <1>3, <3>2, <4>2, <4>3
    <3> QED BY <3>1, <3>2
  <2> QED BY <1>1, <1>4, <2>1 DEF IsAmong, IsFold
<1>6. IsAmong(g, s, S)
  BY <1>5 DEF AmongIter
<1>7. \A t \in SUBSET (1..n) :
        g[t] = IF t = {} THEN <<>> ELSE AmongStep(g[t \ {Max(t)}], s[Max(t)], S)
  BY <1>1, <1>6 DEF IsAmong
<1> HIDE DEF g
<1> DEFINE h == [k \in 0..n |-> g[1..k]]
           X == {k \in 0..n : h[k] \in A}
<1>8. h[0] = <<>>
  <2>1. 0 \in 0..n /\ 1..0 = {} /\ {} \in SUBSET (1..n)
    BY <1>1
  <2>2. g[{}] = <<>>
    BY <1>7, <2>1
  <2> QED BY <2>1, <2>2
<1>9. ASSUME NEW k \in 1..n PROVE h[k] = AmongStep(h[k - 1], s[k], S)
  <2>1. k \in Nat /\ k # 0 /\ 1..k \in SUBSET (1..n) /\ k - 1 \in 0..n /\ k \in 0..n
    BY <1>1
  <2>2. Max(1..k) = k /\ 1..k # {} /\ (1..k) \ {k} = 1..(k - 1)
    BY <2>1, MaxPrefix
  <2>3. g[1..k] = AmongStep(g[1..(k - 1)], s[k], S)
    BY <1>7, <2>1, <2>2
  <2> QED BY <2>1, <2>3
<1> HIDE DEF h
<1>10. 0 \in X
  <2>1. 0 \in 0..n /\ h[0] \in Seq(E)
    BY <1>1, <1>8
  <2> QED BY <2>1
<1>11. ASSUME NEW k \in 0..n, k \in X, k < n PROVE k + 1 \in X
  <2>1. k + 1 \in 1..n /\ k + 1 \in 0..n /\ (k + 1) - 1 = k
    BY <1>1, <1>11
  <2>2. h[k + 1] = AmongStep(h[k], s[k + 1], S)
    BY <1>9, <2>1
  <2>3. h[k] \in Seq(E) /\ s[k + 1] \in E
    BY <1>1, <1>11, <2>1
  <2>4. h[k + 1] \in Seq(E)
    BY <2>2, <2>3 DEF AmongStep
  <2> QED BY <2>1, <2>4
<1>12. \A k \in 0..n : k \in X
  <2> HIDE DEF X
  <2>1. \A k \in 0..n : k \in X /\ k < n => k + 1 \in X
    BY <1>11
  <2> QED BY <1>1, <1>10, <2>1, Reaches
<1>13. h \in [0..n -> Seq(E)]
  BY <1>12 DEF h
<1>14. Among(s, S) = h[n]
  BY <1>1, AmongIsIter DEF g, h
<1> QED BY <1>8, <1>9, <1>13, <1>14 DEF n, AmongLinks

(* m says which elements of the first k of s are in q: all those of S.      *)
Picks(m, q, s, k, S) ==
  /\ m \in [1..Len(q) -> 1..k]
  /\ \A i, j \in 1..Len(q) : i < j => m[i] < m[j]
  /\ \A i \in 1..Len(q) : q[i] = s[m[i]] /\ s[m[i]] \in S
  /\ \A j \in 1..k : s[j] \in S => \E i \in 1..Len(q) : m[i] = j

LEMMA PicksOne ==
  ASSUME NEW E, NEW s \in Seq(E), NEW S, NEW k \in 0..Len(s), k < Len(s),
         NEW q \in Seq(E), NEW m, Picks(m, q, s, k, S)
  PROVE  \E d : Picks(d, AmongStep(q, s[k + 1], S), s, k + 1, S)
<1> DEFINE r == AmongStep(q, s[k + 1], S)
<1>1. k \in Nat /\ Len(q) \in Nat /\ k + 1 \in 1..Len(s) /\ s[k + 1] \in E
  OBVIOUS
<1>2. CASE s[k + 1] \notin S
  <2>1. r = q
    BY <1>2 DEF AmongStep
  <2>2. m \in [1..Len(q) -> 1..(k + 1)]
    BY <1>1 DEF Picks
  <2>3. \A j \in 1..(k + 1) : s[j] \in S => j \in 1..k
    BY <1>1, <1>2
  <2>4. Picks(m, q, s, k + 1, S)
    BY <2>2, <2>3 DEF Picks
  <2> QED BY <2>1, <2>4
<1>3. CASE s[k + 1] \in S
  <2> DEFINE d == [i \in 1..(Len(q) + 1) |-> IF i = Len(q) + 1 THEN k + 1 ELSE m[i]]
  <2>1. r = Append(q, s[k + 1])
    BY <1>3 DEF AmongStep
  <2>2. /\ r \in Seq(E) /\ Len(r) = Len(q) + 1 /\ r[Len(q) + 1] = s[k + 1]
        /\ \A i \in 1..Len(q) : r[i] = q[i]
    BY <1>1, <2>1
  <2>3. /\ \A i \in 1..(Len(q) + 1) : i = Len(q) + 1 \/ i \in 1..Len(q)
        /\ \A i \in 1..Len(q) : i \in 1..(Len(q) + 1) /\ i # Len(q) + 1 /\ i < Len(q) + 1
        /\ Len(q) + 1 \in 1..(Len(q) + 1)
    BY <1>1
  <2>4. /\ \A i \in 1..Len(q) : d[i] = m[i]
        /\ d[Len(q) + 1] = k + 1
    BY <2>3
  <2>5. \A i \in 1..Len(q) : m[i] \in 1..k /\ m[i] \in 1..(k + 1) /\ m[i] < k + 1
    BY <1>1 DEF Picks
  <2>6. d \in [1..Len(r) -> 1..(k + 1)]
    BY <1>1, <2>2, <2>5
  <2> HIDE DEF d, r
  <2>7. ASSUME NEW i \in 1..Len(r), NEW j \in 1..Len(r), i < j PROVE d[i] < d[j]
    <3>1. i \in 1..Len(q)
      BY <1>1, <2>2, <2>7
    <3>2. CASE j = Len(q) + 1
      BY <2>4, <2>5, <3>1, <3>2
    <3>3. CASE j \in 1..Len(q)
      BY <2>4, <2>7, <3>1, <3>3 DEF Picks
    <3> QED BY <2>2, <2>3, <3>2, <3>3
  <2>8. ASSUME NEW i \in 1..Len(r) PROVE r[i] = s[d[i]] /\ s[d[i]] \in S
    <3>1. CASE i = Len(q) + 1
      BY <1>3, <2>2, <2>4, <3>1
    <3>2. CASE i \in 1..Len(q)
      BY <2>2, <2>4, <3>2 DEF Picks
    <3> QED BY <2>2, <2>3, <3>1, <3>2
  <2>9. ASSUME NEW j \in 1..(k + 1), s[j] \in S PROVE \E i \in 1..Len(r) : d[i] = j
    <3>1. CASE j = k + 1
      BY <2>2, <2>3, <2>4, <3>1
    <3>2. CASE j \in 1..k
      <4>1. PICK i \in 1..Len(q) : m[i] = j
        BY <2>9, <3>2 DEF Picks
      <4> QED BY <2>2, <2>3, <2>4, <4>1
    <3> QED BY <1>1, <3>1, <3>2
  <2>10. Picks(d, r, s, k + 1, S)
    BY <2>6, <2>7, <2>8, <2>9 DEF Picks
  <2> QED BY <2>10 DEF r
<1> QED BY <1>2, <1>3

LEMMA AmongPicks ==
  ASSUME NEW E, NEW s \in Seq(E), NEW S
  PROVE  Among(s, S) \in Seq(E) /\ \E m : Picks(m, Among(s, S), s, Len(s), S)
<1>0. PICK h : AmongLinks(h, E, s, S)
  BY AmongChain
<1>1. /\ h \in [0..Len(s) -> Seq(E)]
      /\ h[0] = <<>> /\ Among(s, S) = h[Len(s)]
      /\ \A k \in 1..Len(s) : h[k] = AmongStep(h[k - 1], s[k], S)
  BY <1>0 DEF AmongLinks
<1> DEFINE X == {k \in 0..Len(s) : \E m : Picks(m, h[k], s, k, S)}
<1>2. 0 \in X
  <2>1. 0 \in 0..Len(s) /\ Len(<<>>) = 0 /\ 1..0 = {}
    OBVIOUS
  <2>2. Picks([i \in {} |-> 0], <<>>, s, 0, S)
    BY <2>1 DEF Picks
  <2> QED BY <1>1, <2>1, <2>2
<1>3. ASSUME NEW k \in 0..Len(s), k \in X, k < Len(s) PROVE k + 1 \in X
  <2>1. PICK m : Picks(m, h[k], s, k, S)
    BY <1>3
  <2>2. k + 1 \in 1..Len(s) /\ k + 1 \in 0..Len(s) /\ (k + 1) - 1 = k /\ h[k] \in Seq(E)
    BY <1>1, <1>3
  <2>3. h[k + 1] = AmongStep(h[k], s[k + 1], S)
    BY <1>1, <2>2
  <2>4. \E d : Picks(d, AmongStep(h[k], s[k + 1], S), s, k + 1, S)
    BY <1>3, <2>1, <2>2, PicksOne
  <2> QED BY <2>2, <2>3, <2>4
<1>4. Len(s) \in X
  <2> HIDE DEF X
  <2>1. \A k \in 0..Len(s) : k \in X /\ k < Len(s) => k + 1 \in X
    BY <1>3
  <2>2. Len(s) \in Nat
    OBVIOUS
  <2>3. \A k \in 0..Len(s) : k \in X
    BY <1>2, <2>1, <2>2, Reaches
  <2> QED BY <2>2, <2>3
<1>5. Len(s) \in 0..Len(s)
  OBVIOUS
<1> QED BY <1>1, <1>4, <1>5

-----------------------------------------------------------------------------
(* The values of the lists.  No chunk is Allocating between two steps, and  *)
(* a Removable chunk has left the list.                                     *)
Unit == [id : Nat, lb : Nat, len : Nat, hbid : Nat, off : Nat, st : AsStates]
Chunk == [id : Nat, len : Nat, hbid : Nat, off : Nat,
          st : {"Free", "Invalidated", "Reporting"}, n : {0}]
Acc == [lb : Nat, need : Nat, ok : BOOLEAN, fs : Seq(Chunk), us : Seq(Unit)]

(* What is left of a chunk, and what is taken, when sz blocks are.          *)
Rest(c, sz) == [id |-> c.id, len |-> c.len - sz, hbid |-> c.hbid + sz, off |-> c.off + sz,
                st |-> "Free", n |-> 0]
Part(c, lb, sz) == [id |-> c.id, lb |-> lb, len |-> sz, hbid |-> c.hbid, off |-> c.off,
                    st |-> "Committed"]
Size(c, need) == IF c.len >= need THEN need ELSE c.len

(* Only a free chunk is allocated from, from its start.                     *)
LEMMA AllocChunk ==
  ASSUME NEW c \in Chunk, NEW lb \in Nat, NEW need \in Nat, c.st = "Free"
  PROVE  /\ fschunk_alloc_space(c, lb, need).ok = TRUE
         /\ fschunk_alloc_space(c, lb, need).c = Rest(c, Size(c, need))
         /\ fschunk_alloc_space(c, lb, need).u.len = Size(c, need)
         /\ aschunk_commit_chunk(fschunk_alloc_space(c, lb, need).u) = Part(c, lb, Size(c, need))
<1>1. c = [id |-> c.id, len |-> c.len, hbid |-> c.hbid, off |-> c.off, st |-> "Free", n |-> 0]
  BY DEF Chunk
<1> DEFINE d == [id |-> c.id, len |-> c.len, hbid |-> c.hbid, off |-> c.off,
                 st |-> "Allocating", n |-> 1]
           sz == Size(c, need)
           e == [id |-> c.id, len |-> c.len - sz, hbid |-> c.hbid + sz, off |-> c.off + sz,
                 st |-> "Allocating", n |-> 1]
           u == [id |-> c.id, lb |-> lb, len |-> sz, hbid |-> c.hbid, off |-> c.off,
                 st |-> "Allocated"]
<1>2. update_fschunk_state(c, "AllocSpace") = [c |-> d, act |-> "DO_Alloc"]
  <2> DEFINE c1 == [id |-> c.id, len |-> c.len, hbid |-> c.hbid, off |-> c.off,
                    st |-> "Free", n |-> 1]
  <2>1. [c EXCEPT !.n = @ + 1] = c1
    BY <1>1
  <2>2. update_fschunk_state(c, "AllocSpace") = To(c1, "Allocating", "DO_Alloc")
    BY <2>1 DEF update_fschunk_state, _update_fschunkFree
  <2>3. [c1 EXCEPT !.st = "Allocating"] = d
    OBVIOUS
  <2> QED BY <2>2, <2>3 DEF To
<1>3. update_fschunk_state(e, "AllocDONE").c = Rest(c, sz)
  <2> DEFINE e1 == [id |-> c.id, len |-> c.len - sz, hbid |-> c.hbid + sz, off |-> c.off + sz,
                    st |-> "Allocating", n |-> 0]
  <2>1. [e EXCEPT !.n = @ - 1] = e1
    OBVIOUS
  <2>2. e.st = "Allocating" /\ e.n = 1
    OBVIOUS
  <2>3. update_fschunk_state(e, "AllocDONE") = To(e1, "Free", "NoAction")
    <3> HIDE DEF e, e1
    <3> QED BY <2>1, <2>2 DEF update_fschunk_state, _update_fschunkAllocating
  <2>4. [e1 EXCEPT !.st = "Free"] = Rest(c, sz)
    BY DEF Rest
  <2> QED BY <2>3, <2>4 DEF To
<1>4. d.st = "Allocating" /\ d.n = 1
  OBVIOUS
<1>5. fschunk_alloc_space(c, lb, need) = [ok |-> TRUE, c |-> Rest(c, sz), u |-> u]
  <2>1. update_fschunk_state(c, "AllocSpace").act = "DO_Alloc"
        /\ update_fschunk_state(c, "AllocSpace").c = d
    BY <1>2
  <2> HIDE DEF d
  <2> QED BY <2>1, <1>3, <1>4 DEF fschunk_alloc_space, init_aschunk_state_fsm, Size
<1>6. aschunk_commit_chunk(u) = Part(c, lb, sz)
  BY DEF aschunk_commit_chunk, update_aschunk_state, Part
<1> QED BY <1>5, <1>6

LEMMA AllocRefused ==
  ASSUME NEW c \in Chunk, NEW lb \in Nat, NEW need \in Nat, c.st # "Free"
  PROVE  fschunk_alloc_space(c, lb, need).ok = FALSE
<1>1. update_fschunk_state(c, "AllocSpace").act = "NoAction"
  BY DEF update_fschunk_state, _update_fschunkInval, _update_fschunkReport, To, Chunk
<1> QED BY <1>1 DEF fschunk_alloc_space

(* A step of the walk: the chunk is kept as it is, or a part of it is taken *)
(* and what is left of it is kept.                                          *)
Keeps(acc, c, res) ==
  /\ res.lb = acc.lb /\ res.need = acc.need
  /\ res.us = acc.us /\ res.fs = Append(acc.fs, c)
Takes(acc, c, res, sz) ==
  /\ c.st = "Free" /\ sz \in 0..c.len /\ sz \in 0..acc.need
  /\ res.lb = acc.lb + sz /\ res.need = acc.need - sz
  /\ res.us = Append(acc.us, Part(c, acc.lb, sz))
  /\ res.fs = IF sz = c.len THEN acc.fs ELSE Append(acc.fs, Rest(c, sz))

LEMMA AllocOne ==
  ASSUME NEW acc \in Acc, NEW c \in Chunk
  PROVE  /\ AllocFrom(acc, c) \in Acc
         /\ Keeps(acc, c, AllocFrom(acc, c)) \/ \E sz : Takes(acc, c, AllocFrom(acc, c), sz)
<1> DEFINE r == fschunk_alloc_space(c, acc.lb, acc.need)
           sz == Size(c, acc.need)
<1>1. /\ acc.lb \in Nat /\ acc.need \in Nat /\ acc.fs \in Seq(Chunk) /\ acc.us \in Seq(Unit)
      /\ acc.ok \in BOOLEAN /\ c.len \in Nat /\ c.hbid \in Nat /\ c.off \in Nat /\ c.id \in Nat
  BY DEF Acc, Chunk
<1>2. CASE acc.need = 0 \/ ~acc.ok
  <2>1. AllocFrom(acc, c) = [acc EXCEPT !.fs = Append(@, c)]
    BY <1>2 DEF AllocFrom
  <2>2. AllocFrom(acc, c) = [lb |-> acc.lb, need |-> acc.need, ok |-> acc.ok,
                             fs |-> Append(acc.fs, c), us |-> acc.us]
    BY <2>1 DEF Acc
  <2> QED BY <1>1, <2>2 DEF Keeps, Acc
<1>3. CASE acc.need # 0 /\ acc.ok /\ c.st # "Free"
  <2>1. r.ok = FALSE
    BY <1>1, <1>3, AllocRefused
  <2>2. AllocFrom(acc, c) = [acc EXCEPT !.ok = FALSE, !.fs = Append(@, c)]
    BY <1>3, <2>1 DEF AllocFrom
  <2>3. AllocFrom(acc, c) = [lb |-> acc.lb, need |-> acc.need, ok |-> FALSE,
                             fs |-> Append(acc.fs, c), us |-> acc.us]
    BY <2>2 DEF Acc
  <2> QED BY <1>1, <2>3 DEF Keeps, Acc
<1>4. CASE acc.need # 0 /\ acc.ok /\ c.st = "Free"
  <2>0. c.st = "Free" /\ acc.need \in Nat /\ acc.lb \in Nat
    BY <1>1, <1>4
  <2>1. /\ r.ok = TRUE /\ r.c = Rest(c, sz) /\ r.u.len = sz
        /\ aschunk_commit_chunk(r.u) = Part(c, acc.lb, sz)
    BY ONLY <2>0, c \in Chunk, AllocChunk
  <2>2. AllocFrom(acc, c) =
          [lb |-> acc.lb + sz, need |-> acc.need - sz, ok |-> TRUE,
           fs |-> IF Rest(c, sz).len = 0 THEN acc.fs ELSE Append(acc.fs, Rest(c, sz)),
           us |-> Append(acc.us, Part(c, acc.lb, sz))]
    BY <1>4, <2>1 DEF AllocFrom
  <2>3. sz \in 0..c.len /\ sz \in 0..acc.need /\ Rest(c, sz).len = c.len - sz
    BY <1>1 DEF Size, Rest
  <2>4. Rest(c, sz) \in Chunk /\ Part(c, acc.lb, sz) \in Unit
    BY <1>1, <2>3 DEF Rest, Part, Chunk, Unit, AsStates
  <2> HIDE DEF sz
  <2>5. AllocFrom(acc, c) \in Acc
    BY <1>1, <2>2, <2>3, <2>4 DEF Acc
  <2>6. Takes(acc, c, AllocFrom(acc, c), sz)
    BY <1>1, <1>4, <2>2, <2>3 DEF Takes
  <2> QED BY <2>5, <2>6
<1> QED BY <1>1, <1>2, <1>3, <1>4

(* The walk over the chunks, from any start.                                *)
AllocFold(base, s) == FoldLeft(AllocFrom, base, s)
IsAlloc(g, base, s) ==
  g = [t \in SUBSET DOMAIN s |->
         IF t = {} THEN base ELSE AllocFrom(g[t \ {Max(t)}], s[Max(t)])]
AllocIter(base, s) == CHOOSE g : IsAlloc(g, base, s)

LEMMA AllocIsIter ==
  ASSUME NEW base, NEW s PROVE AllocFold(base, s) = AllocIter(base, s)[DOMAIN s]
BY DEF AllocFold, AllocIter, IsAlloc, FoldLeft, MapThenFoldSet

AllocLinks(h, base, s) ==
  /\ h \in [0..Len(s) -> Acc]
  /\ h[0] = base /\ AllocFold(base, s) = h[Len(s)]
  /\ \A k \in 1..Len(s) : h[k] = AllocFrom(h[k - 1], s[k])

LEMMA AllocChain ==
  ASSUME NEW base \in Acc, NEW s \in Seq(Chunk)
  PROVE  \E h : AllocLinks(h, base, s)
<1> DEFINE n == Len(s)
           G == [p \in Acc \X Chunk |-> AllocFrom(p[1], p[2])]
           g == AllocIter(base, s)
<1>1. n \in Nat /\ s \in [1..n -> Chunk] /\ DOMAIN s = 1..n
  OBVIOUS
<1>2. G \in [Acc \X Chunk -> Acc]
  BY AllocOne
<1>3. \A a \in Acc, e \in Chunk : G[<<a, e>>] = AllocFrom(a, e)
  OBVIOUS
<1> HIDE DEF n, G
<1>4. PICK it : IsFold(it, Acc, G, base, n, s)
  <2>1. base \in Acc
    OBVIOUS
  <2> QED BY <1>1, <1>2, <2>1, FoldExists
<1>5. IsAlloc(it, base, s)
  <2>1. ASSUME NEW t \in SUBSET (1..n)
        PROVE  it[t] = IF t = {} THEN base ELSE AllocFrom(it[t \ {Max(t)}], s[Max(t)])
    <3>1. CASE t = {}
      BY <1>4, <3>1 DEF Taken, IsFold
    <3>2. CASE t # {}
      <4>1. Max(t) \in 1..n /\ t \ {Max(t)} \in SUBSET (1..n)
        BY <1>1, <3>2, MaxIn
      <4>2. it[t \ {Max(t)}] \in Acc /\ s[Max(t)] \in Chunk
        BY <1>1, <1>4, <4>1 DEF IsFold
      <4>3. it[t] = G[<<it[t \ {Max(t)}], s[Max(t)]>>]
        BY <1>4, <3>2 DEF Taken, IsFold
      <4> QED BY <1>3, <3>2, <4>2, <4>3
    <3> QED BY <3>1, <3>2
  <2> QED BY <1>1, <1>4, <2>1 DEF IsAlloc, IsFold
<1>6. IsAlloc(g, base, s)
  BY <1>5 DEF AllocIter
<1>7. \A t \in SUBSET (1..n) :
        g[t] = IF t = {} THEN base ELSE AllocFrom(g[t \ {Max(t)}], s[Max(t)])
  BY <1>1, <1>6 DEF IsAlloc
<1> HIDE DEF g
<1> DEFINE h == [k \in 0..n |-> g[1..k]]
           X == {k \in 0..n : h[k] \in Acc}
<1>8. h[0] = base
  <2>1. 0 \in 0..n /\ 1..0 = {} /\ {} \in SUBSET (1..n)
    BY <1>1
  <2>2. g[{}] = base
    BY <1>7, <2>1
  <2> QED BY <2>1, <2>2
<1>9. ASSUME NEW k \in 1..n PROVE h[k] = AllocFrom(h[k - 1], s[k])
  <2>1. k \in Nat /\ k # 0 /\ 1..k \in SUBSET (1..n) /\ k - 1 \in 0..n /\ k \in 0..n
    BY <1>1
  <2>2. Max(1..k) = k /\ 1..k # {} /\ (1..k) \ {k} = 1..(k - 1)
    BY <2>1, MaxPrefix
  <2>3. g[1..k] = AllocFrom(g[1..(k - 1)], s[k])
    BY <1>7, <2>1, <2>2
  <2> QED BY <2>1, <2>3
<1> HIDE DEF h
<1>10. 0 \in X
  <2>1. 0 \in 0..n /\ h[0] \in Acc
    BY <1>1, <1>8
  <2> QED BY <2>1
<1>11. ASSUME NEW k \in 0..n, k \in X, k < n PROVE k + 1 \in X
  <2>1. k + 1 \in 1..n /\ k + 1 \in 0..n /\ (k + 1) - 1 = k
    BY <1>1, <1>11
  <2>2. h[k + 1] = AllocFrom(h[k], s[k + 1])
    BY <1>9, <2>1
  <2>3. h[k] \in Acc /\ s[k + 1] \in Chunk
    BY <1>1, <1>11, <2>1
  <2>4. h[k + 1] \in Acc
    BY <2>2, <2>3, AllocOne
  <2> QED BY <2>1, <2>4
<1>12. \A k \in 0..n : k \in X
  <2> HIDE DEF X
  <2>1. \A k \in 0..n : k \in X /\ k < n => k + 1 \in X
    BY <1>11
  <2> QED BY <1>1, <1>10, <2>1, Reaches
<1>13. h \in [0..n -> Acc]
  BY <1>12 DEF h
<1>14. AllocFold(base, s) = h[n]
  BY <1>1, AllocIsIter DEF g, h
<1> QED BY <1>8, <1>9, <1>13, <1>14 DEF n, AllocLinks


(* The blocks of a list, and its chain of sums.                             *)
TotalStep(n, c) == n + c.len
IsTotal(g, s) ==
  g = [t \in SUBSET DOMAIN s |->
         IF t = {} THEN 0 ELSE TotalStep(g[t \ {Max(t)}], s[Max(t)])]
TotalIter(s) == CHOOSE g : IsTotal(g, s)

LEMMA TotalIsIter == ASSUME NEW s PROVE Total(s) = TotalIter(s)[DOMAIN s]
BY DEF Total, TotalIter, IsTotal, TotalStep, FoldLeft, MapThenFoldSet

TotalLinks(h, s) ==
  /\ h \in [0..Len(s) -> Nat]
  /\ h[0] = 0 /\ Total(s) = h[Len(s)]
  /\ \A k \in 1..Len(s) : h[k] = TotalStep(h[k - 1], s[k])

LEMMA TotalChain ==
  ASSUME NEW E, \A e \in E : e.len \in Nat, NEW s \in Seq(E)
  PROVE  \E h : TotalLinks(h, s)
<1> DEFINE n == Len(s)
           G == [p \in Nat \X E |-> TotalStep(p[1], p[2])]
           g == TotalIter(s)
<1>1. n \in Nat /\ s \in [1..n -> E] /\ DOMAIN s = 1..n
  OBVIOUS
<1>2. G \in [Nat \X E -> Nat]
  BY DEF TotalStep
<1>3. \A a \in Nat, e \in E : G[<<a, e>>] = TotalStep(a, e)
  OBVIOUS
<1> HIDE DEF n, G
<1>4. PICK it : IsFold(it, Nat, G, 0, n, s)
  <2>1. 0 \in Nat
    OBVIOUS
  <2> QED BY <1>1, <1>2, <2>1, FoldExists
<1>5. IsTotal(it, s)
  <2>1. ASSUME NEW t \in SUBSET (1..n)
        PROVE  it[t] = IF t = {} THEN 0 ELSE TotalStep(it[t \ {Max(t)}], s[Max(t)])
    <3>1. CASE t = {}
      BY <1>4, <3>1 DEF Taken, IsFold
    <3>2. CASE t # {}
      <4>1. Max(t) \in 1..n /\ t \ {Max(t)} \in SUBSET (1..n)
        BY <1>1, <3>2, MaxIn
      <4>2. it[t \ {Max(t)}] \in Nat /\ s[Max(t)] \in E
        BY <1>1, <1>4, <4>1 DEF IsFold
      <4>3. it[t] = G[<<it[t \ {Max(t)}], s[Max(t)]>>]
        BY <1>4, <3>2 DEF Taken, IsFold
      <4> QED BY <1>3, <3>2, <4>2, <4>3
    <3> QED BY <3>1, <3>2
  <2> QED BY <1>1, <1>4, <2>1 DEF IsTotal, IsFold
<1>6. IsTotal(g, s)
  BY <1>5 DEF TotalIter
<1>7. \A t \in SUBSET (1..n) :
        g[t] = IF t = {} THEN 0 ELSE TotalStep(g[t \ {Max(t)}], s[Max(t)])
  BY <1>1, <1>6 DEF IsTotal
<1> HIDE DEF g
<1> DEFINE h == [k \in 0..n |-> g[1..k]]
           X == {k \in 0..n : h[k] \in Nat}
<1>8. h[0] = 0
  <2>1. 0 \in 0..n /\ 1..0 = {} /\ {} \in SUBSET (1..n)
    BY <1>1
  <2>2. g[{}] = 0
    BY <1>7, <2>1
  <2> QED BY <2>1, <2>2
<1>9. ASSUME NEW k \in 1..n PROVE h[k] = TotalStep(h[k - 1], s[k])
  <2>1. k \in Nat /\ k # 0 /\ 1..k \in SUBSET (1..n) /\ k - 1 \in 0..n /\ k \in 0..n
    BY <1>1
  <2>2. Max(1..k) = k /\ 1..k # {} /\ (1..k) \ {k} = 1..(k - 1)
    BY <2>1, MaxPrefix
  <2>3. g[1..k] = TotalStep(g[1..(k - 1)], s[k])
    BY <1>7, <2>1, <2>2
  <2> QED BY <2>1, <2>3
<1> HIDE DEF h
<1>10. 0 \in X
  <2>1. 0 \in 0..n /\ h[0] \in Nat
    BY <1>1, <1>8
  <2> QED BY <2>1
<1>11. ASSUME NEW k \in 0..n, k \in X, k < n PROVE k + 1 \in X
  <2>1. k + 1 \in 1..n /\ k + 1 \in 0..n /\ (k + 1) - 1 = k
    BY <1>1, <1>11
  <2>2. h[k + 1] = TotalStep(h[k], s[k + 1])
    BY <1>9, <2>1
  <2>3. h[k] \in Nat /\ s[k + 1] \in E
    BY <1>1, <1>11, <2>1
  <2>4. h[k + 1] \in Nat
    BY <2>2, <2>3 DEF TotalStep
  <2> QED BY <2>1, <2>4
<1>12. \A k \in 0..n : k \in X
  <2> HIDE DEF X
  <2>1. \A k \in 0..n : k \in X /\ k < n => k + 1 \in X
    BY <1>11
  <2> QED BY <1>1, <1>10, <2>1, Reaches
<1>13. h \in [0..n -> Nat]
  BY <1>12 DEF h
<1>14. Total(s) = h[n]
  BY <1>1, TotalIsIter DEF g, h
<1> QED BY <1>8, <1>9, <1>13, <1>14 DEF n, TotalLinks

LEMMA TotalType ==
  ASSUME NEW E, \A e \in E : e.len \in Nat, NEW s \in Seq(E)
  PROVE  Total(s) \in Nat
<1>1. PICK h : TotalLinks(h, s)
  BY TotalChain
<1>2. Len(s) \in 0..Len(s)
  OBVIOUS
<1> QED BY <1>1, <1>2 DEF TotalLinks

(* What the walk has made of the first k chunks: every chunk it kept is the *)
(* end of one of them, every part it took the start of a free one, and the  *)
(* two together are the chunk.                                              *)
Distinct(s) == \A i, j \in DOMAIN s : s[i].id = s[j].id => i = j
EndOf(c) == c.hbid + c.len
Remains(d, c) == d.id = c.id /\ d.st = c.st /\ d.hbid >= c.hbid /\ EndOf(d) = EndOf(c)
PartOf(u, c) ==
  c.st = "Free" /\ u.id = c.id /\ u.hbid = c.hbid /\ EndOf(u) <= EndOf(c) /\ u.st = "Committed"

Walked(a, s, k) ==
  /\ \A i \in DOMAIN a.fs : \E j \in 1..k : Remains(a.fs[i], s[j])
  /\ \A i \in DOMAIN a.us : \E j \in 1..k : PartOf(a.us[i], s[j])
  /\ Distinct(a.fs) /\ Distinct(a.us)
  /\ \A i \in DOMAIN a.us, j \in DOMAIN a.fs :
       a.us[i].id = a.fs[j].id => EndOf(a.us[i]) = a.fs[j].hbid
  /\ \A j \in 1..k :
       \/ \E i \in DOMAIN a.fs : a.fs[i] = s[j]
       \/ \E i \in DOMAIN a.us :
            /\ PartOf(a.us[i], s[j])
            /\ EndOf(a.us[i]) = EndOf(s[j]) \/ \E d \in DOMAIN a.fs : Remains(a.fs[d], s[j])

LEMMA DistinctAppend ==
  ASSUME NEW E, NEW s \in Seq(E), NEW e \in E, Distinct(s), \A i \in DOMAIN s : s[i].id # e.id
  PROVE  Distinct(Append(s, e))
<1> DEFINE t == Append(s, e)
<1>1. /\ DOMAIN s = 1..Len(s) /\ DOMAIN t = 1..(Len(s) + 1) /\ t[Len(s) + 1] = e
      /\ Len(s) \in Nat /\ \A i \in 1..Len(s) : t[i] = s[i]
  OBVIOUS
<1> HIDE DEF t
<1> SUFFICES ASSUME NEW i \in DOMAIN t, NEW j \in DOMAIN t, t[i].id = t[j].id PROVE i = j
  BY DEF Distinct, t
<1>2. (i \in 1..Len(s) \/ i = Len(s) + 1) /\ (j \in 1..Len(s) \/ j = Len(s) + 1)
  BY <1>1
<1> QED BY <1>1, <1>2 DEF Distinct

(* An appended element, and the ones before it.                             *)
LEMMA AppendFacts ==
  ASSUME NEW E, NEW s \in Seq(E), NEW e \in E
  PROVE  /\ Append(s, e) \in Seq(E)
         /\ Len(s) \in Nat /\ DOMAIN s = 1..Len(s) /\ DOMAIN Append(s, e) = 1..(Len(s) + 1)
         /\ Len(s) + 1 \in DOMAIN Append(s, e) /\ Append(s, e)[Len(s) + 1] = e
         /\ \A i \in DOMAIN s : i \in DOMAIN Append(s, e) /\ Append(s, e)[i] = s[i]
         /\ \A i \in DOMAIN Append(s, e) : i \in DOMAIN s \/ i = Len(s) + 1
OBVIOUS

LEMMA WalkKeeps ==
  ASSUME NEW s \in Seq(Chunk), Distinct(s), NEW k \in 0..Len(s), k < Len(s),
         NEW a \in Acc, Walked(a, s, k), NEW b \in Acc, Keeps(a, s[k + 1], b)
  PROVE  Walked(b, s, k + 1)
<1> DEFINE c == s[k + 1]
<1>1. /\ k \in Nat /\ k + 1 \in 1..(k + 1) /\ c \in Chunk /\ k + 1 \in DOMAIN s
      /\ \A j \in 1..k : j \in 1..(k + 1) /\ j \in DOMAIN s /\ j # k + 1
      /\ \A j \in 1..(k + 1) : j \in 1..k \/ j = k + 1
  OBVIOUS
<1>2. \A j \in 1..k : s[j].id # c.id
  BY <1>1 DEF Distinct
<1>3. b.us = a.us /\ b.fs = Append(a.fs, c) /\ a.fs \in Seq(Chunk) /\ a.us \in Seq(Unit)
  BY DEF Keeps, Acc
<1>4. Remains(c, c)
  BY <1>1 DEF Remains, Chunk, EndOf
<1> HIDE DEF c
<1>5. /\ \A i \in DOMAIN a.fs : a.fs[i].id # c.id
      /\ \A i \in DOMAIN a.us : a.us[i].id # c.id
  BY <1>2 DEF Walked, Remains, PartOf
<1>6. /\ \A i \in DOMAIN a.fs : i \in DOMAIN b.fs /\ b.fs[i] = a.fs[i]
      /\ Len(a.fs) + 1 \in DOMAIN b.fs /\ b.fs[Len(a.fs) + 1] = c
      /\ \A i \in DOMAIN b.fs : i \in DOMAIN a.fs \/ i = Len(a.fs) + 1
  BY <1>1, <1>3, AppendFacts
<1>7. \A i \in DOMAIN b.fs : \E j \in 1..(k + 1) : Remains(b.fs[i], s[j])
  BY <1>1, <1>4, <1>6 DEF Walked, c
<1>8. \A i \in DOMAIN b.us : \E j \in 1..(k + 1) : PartOf(b.us[i], s[j])
  BY <1>1, <1>3 DEF Walked
<1>9. Distinct(b.fs) /\ Distinct(b.us)
  <2>1. Distinct(a.fs) /\ Distinct(a.us)
    BY DEF Walked
  <2>2. Distinct(Append(a.fs, c))
    BY <1>1, <1>3, <1>5, <2>1, DistinctAppend
  <2> QED BY <1>3, <2>1, <2>2
<1>10. \A i \in DOMAIN b.us, j \in DOMAIN b.fs :
         b.us[i].id = b.fs[j].id => EndOf(b.us[i]) = b.fs[j].hbid
  BY <1>3, <1>5, <1>6 DEF Walked
<1>11. ASSUME NEW j \in 1..(k + 1)
       PROVE  \/ \E i \in DOMAIN b.fs : b.fs[i] = s[j]
              \/ \E i \in DOMAIN b.us :
                   /\ PartOf(b.us[i], s[j])
                   /\ EndOf(b.us[i]) = EndOf(s[j]) \/ \E d \in DOMAIN b.fs : Remains(b.fs[d], s[j])
  <2>1. CASE j = k + 1
    BY <1>6, <2>1 DEF c
  <2>2. CASE j \in 1..k
    BY <1>3, <1>6, <2>2 DEF Walked
  <2> QED BY <1>1, <2>1, <2>2
<1> QED BY <1>7, <1>8, <1>9, <1>10, <1>11 DEF Walked

LEMMA WalkTakes ==
  ASSUME NEW s \in Seq(Chunk), Distinct(s), NEW k \in 0..Len(s), k < Len(s),
         NEW a \in Acc, Walked(a, s, k), NEW b \in Acc,
         NEW sz, Takes(a, s[k + 1], b, sz)
  PROVE  Walked(b, s, k + 1)
<1> DEFINE c == s[k + 1]
           u == Part(c, a.lb, sz)
           r == Rest(c, sz)
<1>1. /\ k \in Nat /\ k + 1 \in 1..(k + 1) /\ c \in Chunk /\ k + 1 \in DOMAIN s
      /\ \A j \in 1..k : j \in 1..(k + 1) /\ j \in DOMAIN s /\ j # k + 1
      /\ \A j \in 1..(k + 1) : j \in 1..k \/ j = k + 1
  OBVIOUS
<1>2. \A j \in 1..k : s[j].id # c.id
  BY <1>1 DEF Distinct
<1>3. /\ b.us = Append(a.us, u) /\ b.fs = (IF sz = c.len THEN a.fs ELSE Append(a.fs, r))
      /\ a.fs \in Seq(Chunk) /\ a.us \in Seq(Unit) /\ a.lb \in Nat
      /\ c.st = "Free" /\ sz \in 0..c.len
  BY DEF Takes, Acc
<1>4. c.len \in Nat /\ c.hbid \in Nat /\ c.id \in Nat /\ c.off \in Nat /\ sz \in Nat /\ sz <= c.len
  <2>1. c.len \in Nat /\ c.hbid \in Nat /\ c.id \in Nat /\ c.off \in Nat
    BY <1>1 DEF Chunk
  <2> HIDE DEF c
  <2> QED BY <1>3, <2>1
<1> HIDE DEF c
<1>5. Remains(r, c) /\ PartOf(u, c) /\ EndOf(u) = r.hbid /\ r.id = c.id /\ u.id = c.id
  BY <1>3, <1>4 DEF Remains, PartOf, EndOf, Part, Rest
<1>6. r \in Chunk /\ u \in Unit
  <2>1. c.len - sz \in Nat /\ c.hbid + sz \in Nat /\ c.off + sz \in Nat
    BY <1>4
  <2>2. r \in Chunk
    BY <1>4, <2>1 DEF Rest, Chunk
  <2>3. u \in Unit
    BY <1>3, <1>4 DEF Part, Unit, AsStates
  <2> QED BY <2>2, <2>3
<1>7. sz = c.len => EndOf(u) = EndOf(c)
  BY <1>4 DEF EndOf, Part
<1> HIDE DEF r, u
<1>8. /\ \A i \in DOMAIN a.fs : a.fs[i].id # c.id
      /\ \A i \in DOMAIN a.us : a.us[i].id # c.id
  BY <1>2 DEF Walked, Remains, PartOf
<1>9. /\ \A i \in DOMAIN a.us : i \in DOMAIN b.us /\ b.us[i] = a.us[i]
      /\ Len(a.us) + 1 \in DOMAIN b.us /\ b.us[Len(a.us) + 1] = u
      /\ \A i \in DOMAIN b.us : i \in DOMAIN a.us \/ i = Len(a.us) + 1
  BY <1>3, <1>6, AppendFacts
<1>10. /\ \A i \in DOMAIN a.fs : i \in DOMAIN b.fs /\ b.fs[i] = a.fs[i]
       /\ sz # c.len => Len(a.fs) + 1 \in DOMAIN b.fs /\ b.fs[Len(a.fs) + 1] = r
       /\ \A i \in DOMAIN b.fs : i \in DOMAIN a.fs \/ (i = Len(a.fs) + 1 /\ b.fs[i] = r)
  <2>1. CASE sz = c.len
    BY <1>3, <2>1
  <2>2. CASE sz # c.len
    BY <1>3, <1>6, <2>2, AppendFacts
  <2> QED BY <2>1, <2>2
<1>11. \A i \in DOMAIN b.fs : \E j \in 1..(k + 1) : Remains(b.fs[i], s[j])
  BY <1>1, <1>5, <1>10 DEF Walked, c
<1>12. \A i \in DOMAIN b.us : \E j \in 1..(k + 1) : PartOf(b.us[i], s[j])
  BY <1>1, <1>5, <1>9 DEF Walked, c
<1>13. Distinct(b.us)
  BY <1>3, <1>5, <1>6, <1>8, DistinctAppend DEF Walked
<1>14. Distinct(b.fs)
  <2>1. CASE sz = c.len
    BY <1>3, <2>1 DEF Walked
  <2>2. CASE sz # c.len
    BY <1>3, <1>5, <1>6, <1>8, <2>2, DistinctAppend DEF Walked
  <2> QED BY <2>1, <2>2
<1>15. ASSUME NEW i \in DOMAIN b.us, NEW j \in DOMAIN b.fs, b.us[i].id = b.fs[j].id
       PROVE  EndOf(b.us[i]) = b.fs[j].hbid
  BY <1>5, <1>8, <1>9, <1>10, <1>15 DEF Walked
<1>16. ASSUME NEW j \in 1..(k + 1)
       PROVE  \/ \E i \in DOMAIN b.fs : b.fs[i] = s[j]
              \/ \E i \in DOMAIN b.us :
                   /\ PartOf(b.us[i], s[j])
                   /\ EndOf(b.us[i]) = EndOf(s[j]) \/ \E d \in DOMAIN b.fs : Remains(b.fs[d], s[j])
  <2>1. CASE j = k + 1
    BY <1>5, <1>7, <1>9, <1>10, <2>1 DEF c
  <2>2. CASE j \in 1..k
    <3>1. CASE \E i \in DOMAIN a.fs : a.fs[i] = s[j]
      BY <1>10, <3>1
    <3>2. CASE \E i \in DOMAIN a.us :
                   /\ PartOf(a.us[i], s[j])
                   /\ EndOf(a.us[i]) = EndOf(s[j]) \/ \E d \in DOMAIN a.fs : Remains(a.fs[d], s[j])
      BY <1>9, <1>10, <3>2
    <3> QED BY <2>2, <3>1, <3>2 DEF Walked
  <2> QED BY <1>1, <2>1, <2>2
<1> QED BY <1>11, <1>12, <1>13, <1>14, <1>15, <1>16 DEF Walked

(* The whole walk.                                                          *)
NoParts(base) == base.fs = <<>> /\ base.us = <<>>

LEMMA AllocWalk ==
  ASSUME NEW base \in Acc, NoParts(base), NEW s \in Seq(Chunk), Distinct(s)
  PROVE  AllocFold(base, s) \in Acc /\ Walked(AllocFold(base, s), s, Len(s))
<1>0. PICK h : AllocLinks(h, base, s)
  BY AllocChain
<1>1. /\ h \in [0..Len(s) -> Acc]
      /\ h[0] = base /\ AllocFold(base, s) = h[Len(s)]
      /\ \A k \in 1..Len(s) : h[k] = AllocFrom(h[k - 1], s[k])
  BY <1>0 DEF AllocLinks
<1> DEFINE X == {k \in 0..Len(s) : Walked(h[k], s, k)}
<1>2. 0 \in X
  <2>1. 0 \in 0..Len(s) /\ DOMAIN base.fs = {} /\ DOMAIN base.us = {} /\ 1..0 = {}
    BY DEF NoParts
  <2>2. Walked(base, s, 0)
    BY <2>1 DEF Walked, Distinct
  <2> QED BY <1>1, <2>1, <2>2
<1>3. ASSUME NEW k \in 0..Len(s), k \in X, k < Len(s) PROVE k + 1 \in X
  <2>1. /\ k + 1 \in 1..Len(s) /\ k + 1 \in 0..Len(s) /\ (k + 1) - 1 = k /\ h[k] \in Acc
        /\ s[k + 1] \in Chunk /\ Walked(h[k], s, k)
    BY <1>1, <1>3
  <2>2. h[k + 1] = AllocFrom(h[k], s[k + 1])
    BY <1>1, <2>1
  <2>3. /\ h[k + 1] \in Acc
        /\ Keeps(h[k], s[k + 1], h[k + 1]) \/ \E sz : Takes(h[k], s[k + 1], h[k + 1], sz)
    BY <2>1, <2>2, AllocOne
  <2>4. Walked(h[k + 1], s, k + 1)
    <3>1. CASE Keeps(h[k], s[k + 1], h[k + 1])
      BY <1>3, <2>1, <2>3, <3>1, WalkKeeps
    <3>2. ASSUME NEW sz, Takes(h[k], s[k + 1], h[k + 1], sz) PROVE Walked(h[k + 1], s, k + 1)
      BY <1>3, <2>1, <2>3, <3>2, WalkTakes
    <3> QED BY <2>3, <3>1, <3>2
  <2> QED BY <2>1, <2>4
<1>4. Len(s) \in X
  <2> HIDE DEF X
  <2>1. \A k \in 0..Len(s) : k \in X /\ k < Len(s) => k + 1 \in X
    BY <1>3
  <2>2. Len(s) \in Nat /\ Len(s) \in 0..Len(s)
    OBVIOUS
  <2>3. \A k \in 0..Len(s) : k \in X
    BY <1>2, <2>1, <2>2, Reaches
  <2> QED BY <2>2, <2>3
<1>5. Len(s) \in 0..Len(s)
  OBVIOUS
<1> QED BY <1>1, <1>4, <1>5

-----------------------------------------------------------------------------
(* Two queues in a row.                                                     *)
LEMMA CatFacts ==
  ASSUME NEW E, NEW s \in Seq(E), NEW t \in Seq(E)
  PROVE  /\ s \o t \in Seq(E)
         /\ Len(s) \in Nat /\ Len(t) \in Nat /\ Len(s \o t) = Len(s) + Len(t)
         /\ \A j \in DOMAIN s : j \in DOMAIN (s \o t) /\ (s \o t)[j] = s[j]
         /\ \A j \in DOMAIN t : Len(s) + j \in DOMAIN (s \o t) /\ (s \o t)[Len(s) + j] = t[j]
         /\ \A j \in DOMAIN (s \o t) : j \notin DOMAIN s =>
              j - Len(s) \in DOMAIN t /\ (s \o t)[j] = t[j - Len(s)]
<1>1. /\ s \o t \in Seq(E) /\ Len(s) \in Nat /\ Len(t) \in Nat
      /\ DOMAIN s = 1..Len(s) /\ DOMAIN t = 1..Len(t) /\ DOMAIN (s \o t) = 1..(Len(s) + Len(t))
      /\ \A j \in 1..Len(s) : (s \o t)[j] = s[j]
      /\ \A j \in (Len(s) + 1)..(Len(s) + Len(t)) : (s \o t)[j] = t[j - Len(s)]
  OBVIOUS
<1>2. \A j \in 1..Len(t) : /\ Len(s) + j \in (Len(s) + 1)..(Len(s) + Len(t))
                           /\ Len(s) + j \in 1..(Len(s) + Len(t)) /\ (Len(s) + j) - Len(s) = j
  BY <1>1
<1>3. \A j \in 1..(Len(s) + Len(t)) : j \notin 1..Len(s) =>
        j \in (Len(s) + 1)..(Len(s) + Len(t)) /\ j - Len(s) \in 1..Len(t)
  BY <1>1
<1>4. \A j \in 1..Len(s) : j \in 1..(Len(s) + Len(t))
  BY <1>1
<1> QED BY <1>1, <1>2, <1>3, <1>4

(* How many elements of a sequence are in K.                                *)
Cnt(s, K) == Cardinality({i \in DOMAIN s : s[i] \in K})

LEMMA CntType ==
  ASSUME NEW E, NEW s \in Seq(E), NEW K
  PROVE  IsFiniteSet({i \in DOMAIN s : s[i] \in K}) /\ Cnt(s, K) \in Nat
<1> DEFINE I == {i \in DOMAIN s : s[i] \in K}
<1>1. DOMAIN s = 1..Len(s) /\ Len(s) \in Int /\ 1 \in Int
  OBVIOUS
<1>2. IsFiniteSet(1..Len(s))
  BY ONLY <1>1, FS_Interval
<1>3. I \in SUBSET (1..Len(s))
  BY <1>1
<1> HIDE DEF I
<1>4. IsFiniteSet(I) /\ Cardinality(I) \in Nat
  BY <1>2, <1>3, FS_Subset, FS_CardinalityType
<1> QED BY <1>4 DEF Cnt, I

LEMMA CntCat ==
  ASSUME NEW E, NEW s \in Seq(E), NEW t \in Seq(E), NEW K
  PROVE  Cnt(s \o t, K) = Cnt(s, K) + Cnt(t, K)
<1> DEFINE I == {i \in DOMAIN s : s[i] \in K}
           J == {i \in DOMAIN t : t[i] \in K}
           f == [j \in J |-> Len(s) + j]
           M == {Len(s) + j : j \in J}
           r == s \o t
<1>1. /\ Len(s) \in Nat /\ Len(t) \in Nat /\ DOMAIN s = 1..Len(s) /\ DOMAIN t = 1..Len(t)
      /\ DOMAIN r = 1..(Len(s) + Len(t))
      /\ \A i \in 1..Len(s) : r[i] = s[i]
      /\ \A j \in 1..Len(t) : r[Len(s) + j] = t[j]
  OBVIOUS
<1>2. IsFiniteSet(I) /\ IsFiniteSet(J) /\ Cnt(s, K) \in Nat /\ Cnt(t, K) \in Nat
  BY CntType
<1>3. f \in Bijection(J, M)
  <2>1. \A a, b \in J : f[a] = f[b] => a = b
    BY <1>1
  <2>2. f \in [J -> M] /\ \A m \in M : \E a \in J : f[a] = m
    OBVIOUS
  <2> HIDE DEF f, M, J
  <2> QED BY <2>1, <2>2 DEF Bijection, Injection, Surjection, IsInjective
<1>4. IsFiniteSet(M) /\ Cardinality(M) = Cardinality(J)
  <2> HIDE DEF f, M, J
  <2>1. ExistsBijection(J, M)
    BY <1>3 DEF ExistsBijection
  <2> QED BY <1>2, <2>1, FS_Bijection
<1>5. {i \in DOMAIN r : r[i] \in K} = I \cup M
  <2>1. ASSUME NEW i \in DOMAIN r, r[i] \in K PROVE i \in I \cup M
    <3>1. CASE i \in 1..Len(s)
      BY <1>1, <2>1, <3>1
    <3>2. CASE i \notin 1..Len(s)
      <4>1. i - Len(s) \in 1..Len(t) /\ i = Len(s) + (i - Len(s))
        BY <1>1, <3>2
      <4>2. t[i - Len(s)] \in K
        BY <1>1, <2>1, <4>1
      <4> QED BY <1>1, <4>1, <4>2
    <3> QED BY <3>1, <3>2
  <2>2. ASSUME NEW i \in I PROVE i \in DOMAIN r /\ r[i] \in K
    BY <1>1
  <2>3. ASSUME NEW j \in J PROVE Len(s) + j \in DOMAIN r /\ r[Len(s) + j] \in K
    BY <1>1
  <2> HIDE DEF r, I
  <2> QED BY <2>1, <2>2, <2>3
<1>6. I \cap M = {}
  BY <1>1
<1> HIDE DEF I, M, J
<1>7. Cardinality(I \cup M) = Cardinality(I) + Cardinality(M) - Cardinality(I \cap M)
  BY <1>2, <1>4, FS_Union
<1>8. Cardinality(I \cap M) = 0
  BY <1>6, FS_EmptySet
<1>9. Cardinality(I) \in Nat /\ Cardinality(J) \in Nat
  BY <1>2, FS_CardinalityType
<1>10. Cnt(r, K) = Cardinality(I \cup M) /\ Cnt(s, K) = Cardinality(I) /\ Cnt(t, K) = Cardinality(J)
  <2>1. {i \in DOMAIN r : r[i] \in K} = I \cup M
    BY <1>5
  <2> HIDE DEF r
  <2> QED BY <2>1 DEF Cnt, I, J
<1> QED BY <1>4, <1>7, <1>8, <1>9, <1>10

LEMMA CntOne ==
  ASSUME NEW e, NEW K
  PROVE  Cnt(<<e>>, K) = IF e \in K THEN 1 ELSE 0
<1>1. DOMAIN <<e>> = {1} /\ <<e>>[1] = e
  OBVIOUS
<1>2. CASE e \in K
  <2>1. {i \in DOMAIN <<e>> : <<e>>[i] \in K} = {1}
    BY <1>1, <1>2
  <2> QED BY <1>2, <2>1, FS_Singleton DEF Cnt
<1>3. CASE e \notin K
  <2>1. {i \in DOMAIN <<e>> : <<e>>[i] \in K} = {}
    BY <1>1, <1>3
  <2> QED BY <1>3, <2>1, FS_EmptySet DEF Cnt
<1> QED BY <1>2, <1>3

LEMMA CntAppend ==
  ASSUME NEW E, NEW s \in Seq(E), NEW e \in E, NEW K
  PROVE  Cnt(Append(s, e), K) = Cnt(s, K) + (IF e \in K THEN 1 ELSE 0)
<1>1. Append(s, e) = s \o <<e>> /\ <<e>> \in Seq(E)
  BY AppendIsConcat
<1>2. Cnt(s \o <<e>>, K) = Cnt(s, K) + Cnt(<<e>>, K)
  BY <1>1, CntCat
<1> QED BY <1>1, <1>2, CntOne

LEMMA CntTail ==
  ASSUME NEW E, NEW s \in Seq(E), s # <<>>, NEW K
  PROVE  Cnt(Tail(s), K) = Cnt(s, K) - (IF Head(s) \in K THEN 1 ELSE 0)
<1>1. Head(s) \in E /\ Tail(s) \in Seq(E) /\ <<Head(s)>> \in Seq(E)
  OBVIOUS
<1>2. s = <<Head(s)>> \o Tail(s)
  <2> DEFINE t == <<Head(s)>> \o Tail(s)
  <2>1. /\ Len(s) \in Nat /\ Len(s) >= 1 /\ t \in Seq(E) /\ Len(t) = Len(s)
        /\ t[1] = s[1] /\ \A i \in 2..Len(s) : t[i] = s[i]
    <3>1. Len(s) \in Nat /\ Len(s) >= 1 /\ Len(Tail(s)) = Len(s) - 1
      OBVIOUS
    <3>2. t \in Seq(E) /\ Len(t) = 1 + Len(Tail(s)) /\ t[1] = Head(s)
      BY <1>1
    <3>3. \A i \in 2..Len(s) : t[i] = Tail(s)[i - 1] /\ Tail(s)[i - 1] = s[i]
      BY <1>1, <3>1
    <3> QED BY <3>1, <3>2, <3>3
  <2>2. \A i \in 1..Len(s) : t[i] = s[i]
    BY <2>1
  <2> HIDE DEF t
  <2>3. t = s
    BY <2>1, <2>2, SeqEqual
  <2> QED BY <2>3 DEF t
<1>3. Cnt(<<Head(s)>> \o Tail(s), K) = Cnt(<<Head(s)>>, K) + Cnt(Tail(s), K)
  BY <1>1, CntCat
<1>4. Cnt(Tail(s), K) \in Nat
  BY <1>1, CntType
<1>5. Cnt(<<Head(s)>>, K) = IF Head(s) \in K THEN 1 ELSE 0
  BY CntOne
<1>6. Cnt(s, K) = Cnt(<<Head(s)>> \o Tail(s), K)
  BY <1>2
<1> QED BY ONLY <1>3, <1>4, <1>5, <1>6

(* An element is taken out.                                                 *)
LEMMA RemoveIndex ==
  ASSUME NEW E, NEW s \in Seq(E), NEW i \in DOMAIN s
  PROVE  /\ RemoveAt(s, i) \in Seq(E)
         /\ DOMAIN s = 1..Len(s) /\ DOMAIN RemoveAt(s, i) = 1..(Len(s) - 1)
         /\ \A j \in 1..(i - 1) : RemoveAt(s, i)[j] = s[j]
         /\ \A j \in i..(Len(s) - 1) : RemoveAt(s, i)[j] = s[j + 1]
<1> DEFINE a == SubSeq(s, 1, i - 1)
           b == SubSeq(s, i + 1, Len(s))
           r == RemoveAt(s, i)
<1>1. i \in 1..Len(s) /\ Len(s) \in Nat /\ i \in Nat /\ DOMAIN s = 1..Len(s)
  OBVIOUS
<1>2. /\ a \in Seq(E) /\ Len(a) = i - 1 /\ \A j \in 1..(i - 1) : a[j] = s[j]
      /\ b \in Seq(E) /\ Len(b) = Len(s) - i /\ \A j \in 1..(Len(s) - i) : b[j] = s[j + i]
  BY <1>1
<1>3. r = a \o b
  BY DEF RemoveAt
<1> HIDE DEF a, b, r
<1>4. /\ r \in Seq(E) /\ Len(r) = Len(s) - 1 /\ DOMAIN r = 1..(Len(s) - 1)
      /\ \A j \in 1..(i - 1) : r[j] = a[j]
      /\ \A j \in i..(Len(s) - 1) : r[j] = b[j - (i - 1)]
  <2>0. a \in Seq(E) /\ b \in Seq(E)
    BY <1>2
  <2>1. /\ r \in Seq(E) /\ Len(r) = Len(a) + Len(b)
        /\ \A j \in DOMAIN a : r[j] = a[j]
        /\ \A j \in DOMAIN r : j \notin DOMAIN a => r[j] = b[j - Len(a)]
    BY ONLY <1>3, <2>0, CatFacts
  <2>2. DOMAIN a = 1..(i - 1) /\ DOMAIN r = 1..(Len(s) - 1)
    BY <1>1, <1>2, <2>1
  <2>3. \A j \in i..(Len(s) - 1) : j \in DOMAIN r /\ j \notin DOMAIN a
    BY <1>1, <2>2
  <2>4. Len(r) = Len(s) - 1
    BY <1>1, <1>2, <2>1
  <2>5. Len(a) = i - 1
    BY <1>2
  <2> QED BY ONLY <2>1, <2>2, <2>3, <2>4, <2>5
<1>5. \A j \in 1..(i - 1) : r[j] = s[j]
  BY <1>2, <1>4
<1>6. \A j \in i..(Len(s) - 1) : r[j] = s[j + 1]
  <2> SUFFICES ASSUME NEW j \in i..(Len(s) - 1) PROVE r[j] = s[j + 1]
    OBVIOUS
  <2>1. j - (i - 1) \in 1..(Len(s) - i) /\ (j - (i - 1)) + i = j + 1
    BY <1>1
  <2> QED BY <1>2, <1>4, <2>1
<1> QED BY <1>1, <1>4, <1>5, <1>6 DEF r

LEMMA RemoveFacts ==
  ASSUME NEW E, NEW s \in Seq(E), NEW i \in DOMAIN s
  PROVE  /\ RemoveAt(s, i) \in Seq(E)
         /\ \A j \in DOMAIN RemoveAt(s, i) : \E m \in DOMAIN s : RemoveAt(s, i)[j] = s[m] /\ m # i
         /\ \A m \in DOMAIN s : m # i => \E j \in DOMAIN RemoveAt(s, i) : RemoveAt(s, i)[j] = s[m]
<1> DEFINE r == RemoveAt(s, i)
<1>1. i \in 1..Len(s) /\ Len(s) \in Nat /\ i \in Nat /\ DOMAIN s = 1..Len(s)
  OBVIOUS
<1>4. r \in Seq(E) /\ DOMAIN r = 1..(Len(s) - 1)
  BY RemoveIndex
<1>5. \A j \in 1..(i - 1) : r[j] = s[j]
  BY RemoveIndex
<1>6. \A j \in i..(Len(s) - 1) : r[j] = s[j + 1]
  BY RemoveIndex
<1> HIDE DEF r
<1>7. ASSUME NEW j \in DOMAIN r PROVE \E m \in DOMAIN s : r[j] = s[m] /\ m # i
  <2>1. CASE j \in 1..(i - 1)
    BY <1>1, <1>5, <2>1
  <2>2. CASE j \in i..(Len(s) - 1)
    <3>1. j + 1 \in DOMAIN s /\ j + 1 # i
      BY <1>1, <2>2
    <3> QED BY <1>6, <2>2, <3>1
  <2> QED BY <1>1, <1>4, <2>1, <2>2
<1>8. ASSUME NEW m \in DOMAIN s, m # i PROVE \E j \in DOMAIN r : r[j] = s[m]
  <2>1. CASE m \in 1..(i - 1)
    BY <1>1, <1>4, <1>5, <2>1
  <2>2. CASE m \in (i + 1)..Len(s)
    <3>1. m - 1 \in i..(Len(s) - 1) /\ (m - 1) + 1 = m /\ m - 1 \in DOMAIN r
      BY <1>1, <1>4, <2>2
    <3> QED BY <1>6, <3>1
  <2> QED BY <1>1, <1>8, <2>1, <2>2
<1> QED BY <1>4, <1>7, <1>8 DEF r

LEMMA CntRemove ==
  ASSUME NEW E, NEW s \in Seq(E), NEW i \in DOMAIN s, NEW K
  PROVE  Cnt(RemoveAt(s, i), K) = Cnt(s, K) - (IF s[i] \in K THEN 1 ELSE 0)
<1> DEFINE a == SubSeq(s, 1, i - 1)
           b == SubSeq(s, i + 1, Len(s))
           t == (a \o <<s[i]>>) \o b
<1>1. i \in 1..Len(s) /\ Len(s) \in Nat /\ i \in Nat /\ DOMAIN s = 1..Len(s) /\ s[i] \in E
  OBVIOUS
<1>2. /\ a \in Seq(E) /\ Len(a) = i - 1 /\ \A j \in 1..(i - 1) : a[j] = s[j]
      /\ b \in Seq(E) /\ Len(b) = Len(s) - i /\ \A j \in 1..(Len(s) - i) : b[j] = s[j + i]
  BY <1>1
<1>3. RemoveAt(s, i) = a \o b
  BY DEF RemoveAt
<1> HIDE DEF a, b
<1>4. s = t
  <2> DEFINE d == a \o <<s[i]>>
  <2>1. /\ d \in Seq(E) /\ Len(d) = i /\ d[i] = s[i] /\ \A j \in 1..(i - 1) : d[j] = s[j]
    BY <1>1, <1>2
  <2> HIDE DEF d
  <2>2. \A j \in 1..i : d[j] = s[j]
    BY <1>1, <2>1
  <2>3. /\ d \o b \in Seq(E) /\ Len(d \o b) = Len(s)
        /\ \A j \in 1..i : (d \o b)[j] = d[j]
        /\ \A j \in (i + 1)..Len(s) : (d \o b)[j] = b[j - i]
    <3>1. /\ d \o b \in Seq(E) /\ Len(d \o b) = Len(d) + Len(b)
          /\ \A j \in DOMAIN d : (d \o b)[j] = d[j]
          /\ \A j \in DOMAIN (d \o b) : j \notin DOMAIN d => (d \o b)[j] = b[j - Len(d)]
      <4>1. d \in Seq(E) /\ b \in Seq(E)
        BY <1>2, <2>1
      <4> QED BY ONLY <4>1, CatFacts
    <3>2. Len(d) = i /\ Len(d \o b) = Len(s)
      BY <1>1, <1>2, <2>1, <3>1
    <3>3. DOMAIN d = 1..i /\ DOMAIN (d \o b) = 1..Len(s)
      <4>1. d \in Seq(E)
        BY <2>1
      <4> QED BY ONLY <4>1, <3>1, <3>2
    <3>4. \A j \in (i + 1)..Len(s) : j \in DOMAIN (d \o b) /\ j \notin DOMAIN d
      <4>1. \A j \in (i + 1)..Len(s) : j \in 1..Len(s) /\ j \notin 1..i
        BY <1>1
      <4> QED BY ONLY <3>3, <4>1
    <3> QED BY ONLY <3>1, <3>2, <3>3, <3>4
  <2>4. \A j \in (i + 1)..Len(s) : (d \o b)[j] = s[j]
    <3> SUFFICES ASSUME NEW j \in (i + 1)..Len(s) PROVE (d \o b)[j] = s[j]
      OBVIOUS
    <3>1. j - i \in 1..(Len(s) - i) /\ (j - i) + i = j
      BY <1>1
    <3> QED BY <1>2, <2>3, <3>1
  <2>5. \A j \in 1..Len(s) : j \in 1..i \/ j \in (i + 1)..Len(s)
    BY <1>1
  <2>6. \A j \in 1..Len(s) : (d \o b)[j] = s[j]
    BY <2>2, <2>3, <2>4, <2>5
  <2>7. d \o b = s
    BY <2>3, <2>6, SeqEqual
  <2> QED BY <2>7 DEF d
<1>5. <<s[i]>> \in Seq(E) /\ a \o <<s[i]>> \in Seq(E)
  BY <1>1, <1>2
<1>6. Cnt(t, K) = Cnt(a \o <<s[i]>>, K) + Cnt(b, K)
  BY <1>2, <1>5, CntCat
<1>7. Cnt(a \o <<s[i]>>, K) = Cnt(a, K) + Cnt(<<s[i]>>, K)
  BY <1>2, <1>5, CntCat
<1>8. Cnt(a \o b, K) = Cnt(a, K) + Cnt(b, K)
  BY <1>2, CntCat
<1>9. Cnt(a, K) \in Nat /\ Cnt(b, K) \in Nat
  BY <1>2, CntType
<1>10. Cnt(<<s[i]>>, K) = IF s[i] \in K THEN 1 ELSE 0
  BY CntOne
<1>11. Cnt(s, K) = Cnt(t, K)
  BY <1>4
<1> HIDE DEF t
<1> QED BY <1>3, <1>6, <1>7, <1>8, <1>9, <1>10, <1>11

(* The queue's elements after it lost its head.                             *)
LEMMA TailFacts ==
  ASSUME NEW E, NEW s \in Seq(E), s # <<>>
  PROVE  /\ Head(s) \in E /\ Tail(s) \in Seq(E) /\ 1 \in DOMAIN s /\ s[1] = Head(s)
         /\ \A j \in DOMAIN Tail(s) : j + 1 \in DOMAIN s /\ Tail(s)[j] = s[j + 1]
         /\ \A j \in DOMAIN s : j # 1 => j - 1 \in DOMAIN Tail(s) /\ Tail(s)[j - 1] = s[j]
<1>1. /\ Head(s) \in E /\ Tail(s) \in Seq(E) /\ Len(Tail(s)) = Len(s) - 1 /\ Len(s) \in Nat
      /\ Len(s) >= 1 /\ s[1] = Head(s) /\ DOMAIN s = 1..Len(s)
      /\ \A j \in 1..(Len(s) - 1) : Tail(s)[j] = s[j + 1]
  OBVIOUS
<1>2. DOMAIN Tail(s) = 1..(Len(s) - 1)
  BY <1>1
<1>3. \A j \in 1..Len(s) : j # 1 => j - 1 \in 1..(Len(s) - 1) /\ (j - 1) + 1 = j
  BY <1>1
<1>4. \A j \in 1..(Len(s) - 1) : j + 1 \in 1..Len(s)
  BY <1>1
<1> QED BY <1>1, <1>2, <1>3, <1>4

-----------------------------------------------------------------------------
(* The type invariant.                                                      *)
Task == [kind : {"prealloc"}, len : Nat, cb : BOOLEAN, by : {"none"}]
          \cup [kind : {"flush"}, u : Unit, by : {"none", "adm"}]
          \cup [kind : {"return"}, id : Nat, hbid : Nat, by : {"adm"}]
TurnLoc == [fl : BOOLEAN, nomem : BOOLEAN, ret : {"OK", "WAIT", "NOSPACE"}]
WriterRec == [pc : {"idle", "alloc", "parked", "got"}, loc : TurnLoc, md : Seq(Unit)]
AckRec == [pc : {"idle", "count", "lock", "serve", "alloc", "oops"}, cb : BOOLEAN,
           w : Writer \cup {"none"}, loc : TurnLoc]
AdmRec == [pc : {"idle", "alloc", "inval", "unuse", "clean", "flush", "flushed", "free"},
           cmd : {"none", "alloc", "flush", "return", "detach"}, cnt : Int]
Grant == [len : Nat, off : Nat, hbid : Nat]
NameNode == [grants : Seq(Grant), upto : Nat, told : SUBSET Unit, back : SUBSET (Nat \X Nat)]

PoolType ==
  /\ fs \in Seq(Chunk) /\ as \in Seq(Unit) /\ size \in [remaining : Int, requesting : Int]
  /\ Distinct(fs) /\ \A i \in DOMAIN fs : fs[i].id < GrantOf
QueueType ==
  /\ wq \in Seq(Task) /\ sent \in Seq(Task) /\ reps \in Seq(Task)
  /\ nn \in NameNode /\ Preallocs(reps) <= Len(nn.grants)
WriterType ==
  /\ waitq \in Seq(Writer) /\ fwlock \in Writer \cup {"ack", "none"}
  /\ wr \in [Writer -> WriterRec]
ThreadType ==
  /\ up \in BOOLEAN /\ ack \in AckRec /\ adm \in AdmRec /\ asked \in SUBSET Ioctl
  /\ ack.pc = "alloc" => ack.w \in Writer
TypeInv == PoolType /\ QueueType /\ WriterType /\ ThreadType

(* Who holds the wait queue's lock, and who is parked.                      *)
LockInv ==
  /\ \A w \in Writer : fwlock = w <=> wr[w].pc = "alloc"
  /\ fwlock = "ack" <=> ack.pc \in {"alloc", "serve"}
  /\ \A i \in DOMAIN waitq : wr[waitq[i]].pc = "parked"
  /\ \A i, j \in DOMAIN waitq : waitq[i] = waitq[j] => i = j
  /\ ack.pc = "alloc" => /\ wr[ack.w].pc = "parked"
                         /\ \A i \in DOMAIN waitq : waitq[i] # ack.w
  /\ \A w \in Writer : wr[w].pc # "alloc" => wr[w].loc = NoTurn
  /\ ack.pc # "alloc" => ack.loc = NoTurn

(* The ioctl that is at work, and what a detach presupposes.                *)
AdmInv ==
  /\ adm.pc # "idle" => adm.cmd \in asked
  /\ adm.pc = "alloc" => adm.cmd = "alloc"
  /\ adm.pc \in {"inval", "unuse", "clean"} => adm.cmd \in {"return", "detach"}
  /\ adm.pc \in {"flush", "flushed"} => adm.cmd \in {"flush", "detach"}
  /\ adm.pc = "free" => adm.cmd = "detach"
  /\ "detach" \in asked => \A w \in Writer : wr[w].pc \in {"idle", "got"}
  /\ ~up => "detach" \in asked

(* The requests under way.                                                  *)
Pending == Preallocs(wq) + Preallocs(sent) + Preallocs(reps)
Serves(q) == \A i \in DOMAIN q : q[i].kind = "prealloc" => q[i].cb
WaitInv ==
  /\ up => size.requesting = Pending + IF ack.pc = "count" THEN 1 ELSE 0
  /\ "alloc" \in asked \/ (Serves(wq) /\ Serves(sent) /\ Serves(reps))
  /\ "alloc" \in asked \/ (ack.pc = "count" => ack.cb)
  /\ \A w \in Writer : wr[w].pc = "alloc" /\ wr[w].loc.ret = "WAIT" =>
       "alloc" \in asked \/ Pending > 0 \/ ack.pc \in {"count", "lock"}
  /\ ack.pc = "alloc" /\ ack.loc.ret = "WAIT" => Pending > 0
  /\ waitq # <<>> =>
       "alloc" \in asked \/ Pending > 0 \/ ack.pc \in {"count", "lock", "serve", "alloc"}

-----------------------------------------------------------------------------
(* Counting the preallocations of a queue.                                  *)
One(k) == IF k.kind = "prealloc" THEN 1 ELSE 0
PreTasks == {k \in Task : k.kind = "prealloc"}

LEMMA PreallocsIsCnt ==
  ASSUME NEW s \in Seq(Task)
  PROVE  Preallocs(s) = Cnt(s, PreTasks) /\ Preallocs(s) \in Nat
<1>1. \A i \in DOMAIN s : s[i] \in Task
  OBVIOUS
<1>2. {i \in DOMAIN s : s[i].kind = "prealloc"} = {i \in DOMAIN s : s[i] \in PreTasks}
  BY <1>1 DEF PreTasks
<1>3. Cnt(s, PreTasks) \in Nat
  BY CntType
<1> QED BY <1>2, <1>3 DEF Preallocs, Cnt

LEMMA PreallocsAppend ==
  ASSUME NEW s \in Seq(Task), NEW e \in Task
  PROVE  Preallocs(Append(s, e)) = Preallocs(s) + One(e)
<1>1. Append(s, e) \in Seq(Task)
  OBVIOUS
<1>2. Cnt(Append(s, e), PreTasks) = Cnt(s, PreTasks) + (IF e \in PreTasks THEN 1 ELSE 0)
  BY CntAppend
<1>3. e \in PreTasks <=> e.kind = "prealloc"
  BY DEF PreTasks
<1> QED BY <1>1, <1>2, <1>3, PreallocsIsCnt DEF One

LEMMA PreallocsTail ==
  ASSUME NEW s \in Seq(Task), s # <<>>
  PROVE  Preallocs(Tail(s)) = Preallocs(s) - One(Head(s))
<1>1. Tail(s) \in Seq(Task) /\ Head(s) \in Task
  OBVIOUS
<1>2. Cnt(Tail(s), PreTasks) = Cnt(s, PreTasks) - (IF Head(s) \in PreTasks THEN 1 ELSE 0)
  BY CntTail
<1>3. Head(s) \in PreTasks <=> Head(s).kind = "prealloc"
  BY <1>1 DEF PreTasks
<1> QED BY <1>1, <1>2, <1>3, PreallocsIsCnt DEF One

LEMMA PreallocsRemove ==
  ASSUME NEW s \in Seq(Task), NEW i \in DOMAIN s
  PROVE  Preallocs(RemoveAt(s, i)) = Preallocs(s) - One(s[i])
<1>1. RemoveAt(s, i) \in Seq(Task) /\ s[i] \in Task
  BY RemoveFacts
<1>2. Cnt(RemoveAt(s, i), PreTasks) = Cnt(s, PreTasks) - (IF s[i] \in PreTasks THEN 1 ELSE 0)
  BY CntRemove
<1>3. s[i] \in PreTasks <=> s[i].kind = "prealloc"
  BY <1>1 DEF PreTasks
<1> QED BY <1>1, <1>2, <1>3, PreallocsIsCnt DEF One

(* Tasks of other kinds do not count.                                       *)
LEMMA PreallocsOther ==
  ASSUME NEW s \in Seq(Task), NEW t \in Seq(Task), \A i \in DOMAIN t : t[i].kind # "prealloc"
  PROVE  Preallocs(s \o t) = Preallocs(s)
<1>1. s \o t \in Seq(Task)
  OBVIOUS
<1>2. Cnt(s \o t, PreTasks) = Cnt(s, PreTasks) + Cnt(t, PreTasks)
  BY CntCat
<1>3. {i \in DOMAIN t : t[i] \in PreTasks} = {}
  BY DEF PreTasks
<1>4. Cnt(t, PreTasks) = 0
  BY <1>3, FS_EmptySet DEF Cnt
<1>5. Preallocs(s \o t) = Cnt(s \o t, PreTasks)
  BY <1>1, PreallocsIsCnt
<1>6. Preallocs(s) = Cnt(s, PreTasks) /\ Preallocs(s) \in Nat
  BY PreallocsIsCnt
<1> QED BY ONLY <1>2, <1>4, <1>5, <1>6

LEMMA PreallocsSome ==
  ASSUME NEW s \in Seq(Task), Preallocs(s) > 0
  PROVE  \E i \in DOMAIN s : s[i].kind = "prealloc"
<1>1. Preallocs(s) # 0
  BY PreallocsIsCnt
<1>2. {i \in DOMAIN s : s[i].kind = "prealloc"} # {}
  BY <1>1, FS_EmptySet DEF Preallocs
<1> QED BY <1>2

-----------------------------------------------------------------------------
(* The tasks of a flush, and the chunks after it.                           *)
LEMMA FlushFacts ==
  ASSUME NEW s \in Seq(Unit), NEW by \in {"none", "adm"}
  PROVE  /\ Flushed(s) \in Seq(Unit) /\ FlushTasks(s, by) \in Seq(Task)
         /\ Len(Flushed(s)) = Len(s) /\ Len(Flushable(s)) \in Nat
         /\ \A i \in DOMAIN FlushTasks(s, by) : FlushTasks(s, by)[i].kind = "flush"
<1> DEFINE S == {u \in ToSet(s) : u.st = "Committed"}
           q == Flushable(s)
<1>1. q = Among(s, S)
  BY DEF Flushable
<1> HIDE DEF S
<1>2. q \in Seq(Unit)
  BY <1>1, AmongPicks
<1> HIDE DEF q
<1>3. \A i \in DOMAIN q : FlushTask(q[i], by) \in Task
  BY <1>2 DEF FlushTask, Task
<1>4. FlushTasks(s, by) = [i \in DOMAIN q |-> FlushTask(q[i], by)]
  BY DEF FlushTasks, q
<1>5. FlushTasks(s, by) \in Seq(Task)
  BY <1>2, <1>3, <1>4
<1>6. \A i \in DOMAIN FlushTasks(s, by) : FlushTasks(s, by)[i].kind = "flush"
  BY <1>4 DEF FlushTask
<1>7. \A i \in DOMAIN s : [s[i] EXCEPT !.st = update_aschunk_state(@, "FlushSpace")] \in Unit
  <2> SUFFICES ASSUME NEW i \in DOMAIN s
               PROVE  [s[i] EXCEPT !.st = update_aschunk_state(@, "FlushSpace")] \in Unit
    OBVIOUS
  <2>1. s[i] \in Unit
    OBVIOUS
  <2> QED BY <2>1 DEF update_aschunk_state, Unit, AsStates
<1>8. Flushed(s) \in Seq(Unit) /\ Len(Flushed(s)) = Len(s)
  BY <1>7 DEF Flushed
<1> QED BY <1>2, <1>5, <1>6, <1>8 DEF q

-----------------------------------------------------------------------------
(* One turn of the allocation, for t = AllocTurn(w, loc).                   *)
Turn == [again : BOOLEAN, loc : TurnLoc, us : Seq(Unit), fs : Seq(Chunk), as : Seq(Unit),
         tasks : Seq(Task)]
Turned(t, loc, w) ==
  /\ t \in Turn
  /\ Walked(t, fs, Len(fs))
  /\ \A i \in DOMAIN t.tasks : t.tasks[i].kind = "flush"
  /\ t.loc.ret = (IF size.remaining >= Len_[w] THEN loc.ret
                  ELSE IF size.requesting > 0 THEN "WAIT" ELSE "NOSPACE")

LEMMA WalkNothing ==
  ASSUME NEW s \in Seq(Chunk), Distinct(s), NEW a, a.fs = s, a.us = <<>>
  PROVE  Walked(a, s, Len(s))
<1>1. DOMAIN a.us = {} /\ DOMAIN s = 1..Len(s) /\ \A i \in DOMAIN s : s[i] \in Chunk
  OBVIOUS
<1>2. \A c \in Chunk : Remains(c, c)
  BY DEF Remains, Chunk, EndOf
<1> QED BY <1>1, <1>2 DEF Walked, Distinct

LEMMA TurnFacts ==
  ASSUME TypeInv, NEW w \in Writer, NEW loc \in TurnLoc
  PROVE  Turned(AllocTurn(w, loc), loc, w)
<1> DEFINE enough == size.remaining >= Len_[w]
           base == [lb |-> Lb[w], need |-> Len_[w], ok |-> TRUE, fs |-> <<>>, us |-> <<>>]
           none == [ok |-> ~loc.nomem, fs |-> fs, us |-> <<>>]
           a == IF enough THEN _fspool_alloc_space(w) ELSE none
<1>1. /\ fs \in Seq(Chunk) /\ Distinct(fs) /\ as \in Seq(Unit)
      /\ size.remaining \in Int /\ size.requesting \in Int
      /\ loc.fl \in BOOLEAN /\ loc.nomem \in BOOLEAN /\ loc.ret \in {"OK", "WAIT", "NOSPACE"}
  BY DEF TypeInv, PoolType, TurnLoc
<1>2. /\ a.ok \in BOOLEAN /\ a.fs \in Seq(Chunk) /\ a.us \in Seq(Unit)
      /\ Walked(a, fs, Len(fs))
  <2>1. CASE enough
    <3>1. base \in Acc /\ NoParts(base)
      BY SpaceAssumption DEF Acc, NoParts
    <3>2. _fspool_alloc_space(w) = AllocFold(base, fs)
      BY DEF _fspool_alloc_space, AllocFold
    <3> HIDE DEF base
    <3>3. _fspool_alloc_space(w) \in Acc /\ Walked(_fspool_alloc_space(w), fs, Len(fs))
      BY <1>1, <3>1, <3>2, AllocWalk
    <3> QED BY <2>1, <3>3 DEF Acc
  <2>2. CASE ~enough
    <3>1. a = none
      BY <2>2
    <3>2. none.fs = fs /\ none.us = <<>> /\ none.ok = ~loc.nomem
      OBVIOUS
    <3> HIDE DEF a, none
    <3>3. Walked(none, fs, Len(fs))
      BY <1>1, <3>2, WalkNothing
    <3> QED BY <1>1, <3>1, <3>2, <3>3
  <2> QED BY <2>1, <2>2
<1> DEFINE as1 == as \o a.us
           again == ~a.ok \/ Len(as1) > FlushCriteria
           flush == again /\ ~loc.fl
           ret == IF enough THEN loc.ret ELSE IF size.requesting > 0 THEN "WAIT" ELSE "NOSPACE"
           t == [again |-> again,
                 loc   |-> [fl |-> loc.fl \/ flush, nomem |-> ~a.ok, ret |-> ret],
                 us    |-> a.us, fs |-> a.fs,
                 as    |-> IF flush THEN Flushed(as1) ELSE as1,
                 tasks |-> IF flush THEN FlushTasks(as1, "none") ELSE <<>>]
<1>3. AllocTurn(w, loc) = t
  BY DEF AllocTurn
<1>4. ret = (IF enough THEN loc.ret ELSE IF size.requesting > 0 THEN "WAIT" ELSE "NOSPACE")
  OBVIOUS
<1> HIDE DEF a, enough
<1>5. as1 \in Seq(Unit)
  <2>1. as \in Seq(Unit) /\ a.us \in Seq(Unit)
    BY <1>1, <1>2
  <2> QED BY ONLY <2>1, ConcatProperties
<1> HIDE DEF as1
<1>6. again \in BOOLEAN /\ flush \in BOOLEAN
  OBVIOUS
<1>7. /\ Flushed(as1) \in Seq(Unit) /\ FlushTasks(as1, "none") \in Seq(Task)
      /\ \A i \in DOMAIN FlushTasks(as1, "none") : FlushTasks(as1, "none")[i].kind = "flush"
  BY <1>5, FlushFacts
<1> HIDE DEF flush, again
<1>8. ret \in {"OK", "WAIT", "NOSPACE"}
  BY <1>1, <1>4
<1> HIDE DEF ret
<1>9. t.loc \in TurnLoc
  BY <1>1, <1>2, <1>6, <1>8 DEF TurnLoc
<1>10. /\ t.again = again /\ t.us = a.us /\ t.fs = a.fs
       /\ t.as = (IF flush THEN Flushed(as1) ELSE as1)
       /\ t.tasks = (IF flush THEN FlushTasks(as1, "none") ELSE <<>>)
       /\ t.loc.ret = ret
  OBVIOUS
<1>11. t.as \in Seq(Unit) /\ t.tasks \in Seq(Task) /\ \A i \in DOMAIN t.tasks : t.tasks[i].kind = "flush"
  <2>1. CASE flush
    BY <1>7, <1>10, <2>1
  <2>2. CASE ~flush
    BY <1>5, <1>10, <2>2
  <2> QED BY <2>1, <2>2
<1>12. t \in Turn
  BY <1>2, <1>6, <1>9, <1>10, <1>11 DEF Turn
<1>13. Walked(t, fs, Len(fs))
  BY <1>2, <1>10 DEF Walked
<1> HIDE DEF t
<1> QED BY <1>3, <1>4, <1>10, <1>11, <1>12, <1>13 DEF Turned, enough

-----------------------------------------------------------------------------
(* The type invariant holds, one lemma for each kind of step.               *)
LEMMA TypeInit == Init => TypeInv
<1> SUFFICES ASSUME Init PROVE TypeInv
  OBVIOUS
<1>1. \A w \in Writer : [pc |-> "idle", loc |-> NoTurn, md |-> <<>>] \in WriterRec
  BY DEF WriterRec, NoTurn, TurnLoc
<1>2. ack \in AckRec /\ adm \in AdmRec
  BY DEF Init, AckRec, AdmRec, NoTurn, TurnLoc
<1>3. nn \in NameNode /\ Len(nn.grants) = 0
  BY DEF Init, NameNode
<1>4. Preallocs(reps) = 0
  <2>1. {i \in DOMAIN reps : reps[i].kind = "prealloc"} = {}
    BY DEF Init
  <2> QED BY <2>1, FS_EmptySet DEF Preallocs
<1>5. Distinct(fs) /\ \A i \in DOMAIN fs : fs[i].id < GrantOf
  BY DEF Init, Distinct
<1> QED BY <1>1, <1>2, <1>3, <1>4, <1>5 DEF Init, TypeInv, PoolType, QueueType, WriterType, ThreadType, fspool_init_pool

(* The state a turn leaves, for the writer w.                               *)
LEMMA TurnType ==
  ASSUME TypeInv, NEW w \in Writer, NEW loc \in TurnLoc, NEW t, Turned(t, loc, w),
         ioSReq_alloc_freeSpace(w, t)
  PROVE  /\ fs' \in Seq(Chunk) /\ as' \in Seq(Unit) /\ size' \in [remaining : Int, requesting : Int]
         /\ waitq' \in Seq(Writer) /\ wr' \in [Writer -> WriterRec] /\ wq' \in Seq(Task)
         /\ Distinct(fs') /\ \A i \in DOMAIN fs' : fs'[i].id < GrantOf
<1> DEFINE park == ~t.again /\ t.loc.ret # "OK"
           ask  == ~t.again /\ t.loc.ret = "NOSPACE"
           more == IF ask THEN <<PreallocTask(Len_[w], TRUE)>> ELSE <<>>
<1>1. /\ t.again \in BOOLEAN /\ t.loc \in TurnLoc /\ t.us \in Seq(Unit) /\ t.fs \in Seq(Chunk)
      /\ t.as \in Seq(Unit) /\ t.tasks \in Seq(Task) /\ Walked(t, fs, Len(fs))
  BY DEF Turned, Turn
<1>2. /\ fs' = t.fs /\ as' = t.as
      /\ size' = [remaining |-> size.remaining - Total(t.us),
                  requesting |-> size.requesting + IF ask THEN 1 ELSE 0]
      /\ waitq' = IF park THEN Append(waitq, w) ELSE waitq
      /\ wr' = [wr EXCEPT ![w] =
                  [pc  |-> IF t.again THEN wr[w].pc ELSE IF park THEN "parked" ELSE "got",
                   loc |-> IF t.again /\ fwlock = w THEN t.loc ELSE NoTurn,
                   md  |-> wr[w].md \o t.us]]
      /\ wq' = wq \o t.tasks \o more
  BY DEF ioSReq_alloc_freeSpace
<1> HIDE DEF park, ask, more
<1>3. size' \in [remaining : Int, requesting : Int]
  <2>1. \A e \in Unit : e.len \in Nat
    BY DEF Unit
  <2>2. Total(t.us) \in Nat
    BY <1>1, <2>1, TotalType
  <2> QED BY <1>2, <2>2 DEF TypeInv, PoolType
<1>4. waitq' \in Seq(Writer)
  BY <1>2 DEF TypeInv, WriterType
<1>5. wr' \in [Writer -> WriterRec]
  <2>1. NoTurn \in TurnLoc
    BY DEF NoTurn, TurnLoc
  <2>2. wr[w].md \in Seq(Unit) /\ wr[w].md \o t.us \in Seq(Unit)
    BY <1>1 DEF TypeInv, WriterType, WriterRec
  <2> QED BY <1>1, <1>2, <2>1, <2>2 DEF TypeInv, WriterType, WriterRec
<1>6. wq' \in Seq(Task)
  <2>1. PreallocTask(Len_[w], TRUE) \in Task
    BY SpaceAssumption DEF PreallocTask, Task
  <2>2. more \in Seq(Task)
    <3> DEFINE k == PreallocTask(Len_[w], TRUE)
    <3>1. k \in Task
      BY <2>1
    <3>2. more = IF ask THEN <<k>> ELSE <<>>
      BY DEF more
    <3> HIDE DEF k
    <3> QED BY <3>1, <3>2
  <2>3. wq \in Seq(Task)
    BY DEF TypeInv, QueueType
  <2>4. wq \o t.tasks \in Seq(Task)
    BY <1>1, <2>3, ConcatProperties
  <2> QED BY <1>2, <2>2, <2>4, ConcatProperties
<1>7. Distinct(fs') /\ \A i \in DOMAIN fs' : fs'[i].id < GrantOf
  <2>1. Distinct(t.fs)
    BY <1>1 DEF Walked
  <2>2. ASSUME NEW i \in DOMAIN t.fs PROVE t.fs[i].id < GrantOf
    <3>1. PICK j \in 1..Len(fs) : Remains(t.fs[i], fs[j])
      BY <1>1 DEF Walked
    <3>2. j \in DOMAIN fs
      BY DEF TypeInv, PoolType
    <3>3. fs[j].id < GrantOf
      BY <3>2 DEF TypeInv, PoolType
    <3> QED BY <3>1, <3>3 DEF Remains
  <2> QED BY <1>2, <2>1, <2>2
<1> QED BY <1>1, <1>2, <1>3, <1>4, <1>5, <1>6, <1>7

(* Parts that do not change.                                                *)
LEMMA SamePool ==
  ASSUME PoolType, UNCHANGED <<fs, as, size, reps, nn>> PROVE PoolType'
BY DEF PoolType, GrantOf
LEMMA SameQueue ==
  ASSUME QueueType, UNCHANGED <<wq, sent, reps, nn>> PROVE QueueType'
BY DEF QueueType
LEMMA SameWriters ==
  ASSUME WriterType, UNCHANGED <<waitq, fwlock, wr>> PROVE WriterType'
BY DEF WriterType
LEMMA SameThreads ==
  ASSUME ThreadType, UNCHANGED <<up, ack, adm, asked>> PROVE ThreadType'
BY DEF ThreadType

LEMMA TypeWriterLocks ==
  ASSUME TypeInv, NEW w \in Writer, WriterLocks(w) PROVE TypeInv'
<1>1. PoolType' /\ QueueType' /\ ThreadType'
  BY SamePool, SameQueue, SameThreads DEF TypeInv, WriterLocks
<1>2. WriterType'
  BY DEF TypeInv, WriterType, WriterLocks, WriterRec
<1> QED BY <1>1, <1>2 DEF TypeInv

LEMMA TypeAckCounts ==
  ASSUME TypeInv, AckCounts PROVE TypeInv'
<1>1. WriterType' /\ QueueType'
  BY SameWriters, SameQueue DEF TypeInv, AckCounts
<1>2. PoolType'
  <2>1. size' \in [remaining : Int, requesting : Int]
    BY DEF TypeInv, PoolType, AckCounts
  <2> QED BY <2>1 DEF TypeInv, PoolType, AckCounts, GrantOf
<1>3. ThreadType'
  BY DEF TypeInv, ThreadType, AckCounts, AckRec
<1> QED BY <1>1, <1>2, <1>3 DEF TypeInv

LEMMA TypeAckServes ==
  ASSUME TypeInv, AckServes PROVE TypeInv'
<1>1. PoolType' /\ QueueType'
  BY SamePool, SameQueue DEF TypeInv, AckServes
<1>2. CASE waitq = <<>>
  <2>1. WriterType'
    BY <1>2 DEF TypeInv, WriterType, AckServes
  <2>2. ThreadType'
    BY <1>2 DEF TypeInv, ThreadType, AckServes, AckRec
  <2> QED BY <1>1, <2>1, <2>2 DEF TypeInv
<1>3. CASE waitq # <<>>
  <2>1. Head(waitq) \in Writer /\ Tail(waitq) \in Seq(Writer)
    BY <1>3 DEF TypeInv, WriterType
  <2>2. WriterType'
    BY <1>3, <2>1 DEF TypeInv, WriterType, AckServes
  <2>3. ack' = [ack EXCEPT !.pc = "alloc", !.w = Head(waitq)]
    BY <1>3 DEF AckServes
  <2>4. ack' \in AckRec /\ ack'.w = Head(waitq)
    BY <2>1, <2>3 DEF TypeInv, ThreadType, AckRec
  <2>5. ThreadType'
    BY <2>1, <2>4 DEF TypeInv, ThreadType, AckServes
  <2> QED BY <1>1, <2>2, <2>5 DEF TypeInv
<1> QED BY <1>2, <1>3

LEMMA TypeAdmAlloc ==
  ASSUME TypeInv, AdmAlloc PROVE TypeInv'
<1>1. WriterType'
  BY SameWriters DEF TypeInv, AdmAlloc
<1>2. PoolType'
  <2>1. size' \in [remaining : Int, requesting : Int]
    BY DEF TypeInv, PoolType, AdmAlloc
  <2> QED BY <2>1 DEF TypeInv, PoolType, AdmAlloc, GrantOf
<1>3. QueueType'
  <2>1. PreallocTask(1, FALSE) \in Task
    BY DEF PreallocTask, Task
  <2>2. wq' \in Seq(Task)
    BY <2>1, AppendFacts DEF TypeInv, QueueType, AdmAlloc
  <2> QED BY <2>2 DEF TypeInv, QueueType, AdmAlloc
<1>4. ThreadType'
  BY DEF TypeInv, ThreadType, AdmAlloc, AdmRec
<1> QED BY <1>1, <1>2, <1>3, <1>4 DEF TypeInv

LEMMA TypeAdmFlushed ==
  ASSUME TypeInv, AdmFlushed PROVE TypeInv'
<1>1. PoolType' /\ QueueType' /\ WriterType'
  BY SamePool, SameQueue, SameWriters DEF TypeInv, AdmFlushed
<1>2. ThreadType'
  BY DEF TypeInv, ThreadType, AdmFlushed, AdmRec
<1> QED BY <1>1, <1>2 DEF TypeInv

LEMMA TypeFreePool ==
  ASSUME TypeInv, fspool_free_pool PROVE TypeInv'
<1>1. QueueType' /\ WriterType'
  BY SameQueue, SameWriters DEF TypeInv, fspool_free_pool
<1>2. ThreadType'
  BY DEF TypeInv, ThreadType, fspool_free_pool, AdmRec
<1>3. PoolType'
  BY DEF TypeInv, PoolType, fspool_free_pool, Distinct
<1> QED BY <1>1, <1>2, <1>3 DEF TypeInv

LEMMA TypeAdmStarts ==
  ASSUME TypeInv, NEW x \in Ioctl, AdmStarts(x) PROVE TypeInv'
<1>1. PoolType' /\ QueueType' /\ WriterType'
  BY SamePool, SameQueue, SameWriters DEF TypeInv, AdmStarts
<1>2. ThreadType'
  BY SpaceAssumption DEF TypeInv, ThreadType, AdmStarts, AdmRec
<1> QED BY <1>1, <1>2 DEF TypeInv

LEMMA TypeWriterAllocs ==
  ASSUME TypeInv, NEW w \in Writer, WriterAllocs(w) PROVE TypeInv'
<1> DEFINE t == AllocTurn(w, wr[w].loc)
<1>1. wr[w].loc \in TurnLoc
  BY DEF TypeInv, WriterType, WriterRec
<1>2. Turned(t, wr[w].loc, w)
  BY <1>1, TurnFacts
<1>3. /\ ioSReq_alloc_freeSpace(w, t) /\ fwlock' = IF t.again THEN w ELSE "none"
      /\ UNCHANGED <<up, sent, reps, ack, adm, asked, nn>>
  BY DEF WriterAllocs
<1> HIDE DEF t
<1>4. /\ fs' \in Seq(Chunk) /\ as' \in Seq(Unit) /\ size' \in [remaining : Int, requesting : Int]
      /\ waitq' \in Seq(Writer) /\ wr' \in [Writer -> WriterRec] /\ wq' \in Seq(Task)
      /\ Distinct(fs') /\ \A i \in DOMAIN fs' : fs'[i].id < GrantOf
  BY <1>1, <1>2, <1>3, TurnType
<1>5. PoolType' /\ QueueType'
  BY <1>3, <1>4 DEF TypeInv, PoolType, QueueType, GrantOf
<1>6. WriterType'
  BY <1>3, <1>4 DEF TypeInv, WriterType
<1>7. ThreadType'
  BY <1>3, SameThreads DEF TypeInv
<1> QED BY <1>5, <1>6, <1>7 DEF TypeInv

LEMMA TypeAckAllocs ==
  ASSUME TypeInv, AckAllocs PROVE TypeInv'
<1> DEFINE t == AllocTurn(ack.w, ack.loc)
<1>1. ack.loc \in TurnLoc /\ ack.w \in Writer /\ ack.pc = "alloc"
  BY DEF TypeInv, ThreadType, AckRec, AckAllocs
<1>2. Turned(t, ack.loc, ack.w)
  BY <1>1, TurnFacts
<1>3. /\ ioSReq_alloc_freeSpace(ack.w, t)
      /\ fwlock' = (IF ~t.again /\ t.loc.ret # "OK" THEN "none" ELSE "ack")
      /\ ack' = IF t.again THEN [ack EXCEPT !.loc = t.loc]
                ELSE [pc |-> IF t.loc.ret = "OK" THEN "serve" ELSE "idle",
                      cb |-> FALSE, w |-> "none", loc |-> NoTurn]
      /\ UNCHANGED <<up, sent, reps, adm, asked, nn>>
  BY DEF AckAllocs
<1> HIDE DEF t
<1>4. /\ fs' \in Seq(Chunk) /\ as' \in Seq(Unit) /\ size' \in [remaining : Int, requesting : Int]
      /\ waitq' \in Seq(Writer) /\ wr' \in [Writer -> WriterRec] /\ wq' \in Seq(Task)
      /\ Distinct(fs') /\ \A i \in DOMAIN fs' : fs'[i].id < GrantOf
  BY <1>1, <1>2, <1>3, TurnType
<1>5. PoolType' /\ QueueType'
  BY <1>3, <1>4 DEF TypeInv, PoolType, QueueType, GrantOf
<1>6. WriterType'
  BY <1>3, <1>4 DEF TypeInv, WriterType
<1>7. ThreadType'
  <2>1. t.loc \in TurnLoc /\ NoTurn \in TurnLoc /\ t.again \in BOOLEAN
    BY <1>2 DEF Turned, Turn, NoTurn, TurnLoc
  <2>2. CASE t.again
    BY <1>1, <1>3, <2>1, <2>2 DEF TypeInv, ThreadType, AckRec
  <2>3. CASE ~t.again
    BY <1>1, <1>3, <2>1, <2>3 DEF TypeInv, ThreadType, AckRec
  <2> QED BY <2>2, <2>3
<1> QED BY <1>5, <1>6, <1>7 DEF TypeInv

LEMMA TypeWorkerSends ==
  ASSUME TypeInv, WorkerSends PROVE TypeInv'
<1>1. PoolType' /\ WriterType' /\ ThreadType'
  BY SamePool, SameWriters, SameThreads DEF TypeInv, WorkerSends
<1>2. wq \in Seq(Task) /\ sent \in Seq(Task) /\ wq # <<>>
  BY DEF TypeInv, QueueType, WorkerSends
<1>3. Head(wq) \in Task /\ Tail(wq) \in Seq(Task)
  BY <1>2
<1>4. wq' \in Seq(Task) /\ sent' \in Seq(Task)
  BY <1>2, <1>3, AppendFacts DEF WorkerSends, discoC_send_fsReq
<1>5. QueueType'
  BY <1>4 DEF TypeInv, QueueType, WorkerSends
<1> QED BY <1>1, <1>5 DEF TypeInv

LEMMA TypeWorkerFlushes ==
  ASSUME TypeInv, WorkerFlushes PROVE TypeInv'
<1>1. WriterType' /\ ThreadType'
  BY SameWriters, SameThreads DEF TypeInv, WorkerFlushes
<1>2. wq \in Seq(Task) /\ as \in Seq(Unit)
  BY DEF TypeInv, QueueType, PoolType
<1>3. Flushed(as) \in Seq(Unit) /\ FlushTasks(as, "none") \in Seq(Task)
  BY <1>2, FlushFacts
<1>4. wq' \in Seq(Task) /\ as' \in Seq(Unit)
  BY <1>2, <1>3, ConcatProperties DEF WorkerFlushes
<1>5. QueueType' /\ PoolType'
  BY <1>4 DEF TypeInv, QueueType, PoolType, GrantOf, WorkerFlushes
<1> QED BY <1>1, <1>5 DEF TypeInv

LEMMA TypeAdmFlush ==
  ASSUME TypeInv, AdmFlush PROVE TypeInv'
<1>1. WriterType'
  BY SameWriters DEF TypeInv, AdmFlush
<1>2. wq \in Seq(Task) /\ as \in Seq(Unit)
  BY DEF TypeInv, QueueType, PoolType
<1>3. /\ Flushed(as) \in Seq(Unit) /\ FlushTasks(as, "adm") \in Seq(Task)
      /\ Len(Flushable(as)) \in Nat
  BY <1>2, FlushFacts
<1>4. wq' \in Seq(Task) /\ as' \in Seq(Unit)
  BY <1>2, <1>3, ConcatProperties DEF AdmFlush, sm_report_volume_spaceMData
<1>5. QueueType' /\ PoolType'
  BY <1>4 DEF TypeInv, QueueType, PoolType, GrantOf, AdmFlush
<1>6. ThreadType'
  <2> DEFINE n == Len(Flushable(as))
  <2>1. adm' = [adm EXCEPT !.pc = "flushed", !.cnt = n] /\ n \in Int
    BY <1>3 DEF AdmFlush, sm_report_volume_spaceMData
  <2> HIDE DEF n
  <2>2. adm' \in AdmRec
    <3>1. adm \in AdmRec
      BY DEF TypeInv, ThreadType
    <3> QED BY ONLY <2>1, <3>1 DEF AdmRec
  <2> QED BY <2>2 DEF TypeInv, ThreadType, AdmFlush
<1> QED BY <1>1, <1>5, <1>6 DEF TypeInv

LEMMA TypeNNAnswers ==
  ASSUME TypeInv, NNAnswers PROVE TypeInv'
<1>1. WriterType' /\ ThreadType'
  BY SameWriters, SameThreads DEF TypeInv, NNAnswers
<1>2. PICK i \in DOMAIN sent, x \in 0..Extra :
        /\ sent' = RemoveAt(sent, i) /\ reps' = Append(reps, sent[i])
        /\ nn' = CASE sent[i].kind = "prealloc" ->
                        [nn EXCEPT !.grants = Append(@, [len |-> sent[i].len + x, off |-> nn.upto,
                                                         hbid |-> 1 + nn.upto]),
                                   !.upto = @ + sent[i].len + x]
                   [] sent[i].kind = "flush" -> [nn EXCEPT !.told = @ \cup {sent[i].u}]
                   [] sent[i].kind = "return" -> [nn EXCEPT !.back = @ \cup {<<sent[i].id, sent[i].hbid>>}]
        /\ UNCHANGED <<fs, as, size, wq>>
  BY DEF NNAnswers
<1> DEFINE k == sent[i]
           g == [len |-> k.len + x, off |-> nn.upto, hbid |-> 1 + nn.upto]
<1>3. /\ wq \in Seq(Task) /\ sent \in Seq(Task) /\ reps \in Seq(Task) /\ nn \in NameNode
      /\ nn.grants \in Seq(Grant) /\ nn.upto \in Nat /\ Len(nn.grants) \in Nat
      /\ Preallocs(reps) <= Len(nn.grants) /\ Preallocs(reps) \in Nat
  BY PreallocsIsCnt DEF TypeInv, QueueType, NameNode
<1>4. k \in Task /\ sent' \in Seq(Task)
  BY <1>2, <1>3, RemoveFacts
<1>5. reps' \in Seq(Task) /\ Preallocs(reps') = Preallocs(reps) + One(k)
  BY <1>2, <1>3, <1>4, AppendFacts, PreallocsAppend
<1>6. /\ nn' \in NameNode
      /\ Len(nn'.grants) = Len(nn.grants) + One(k)
      /\ \A j \in DOMAIN nn.grants : nn'.grants[j] = nn.grants[j]
  <2>1. CASE k.kind = "prealloc"
    <3>1. nn' = [nn EXCEPT !.grants = Append(@, g), !.upto = @ + k.len + x]
      BY <1>2, <2>1
    <3>2. k.len \in Nat /\ x \in Nat
      BY <1>4, <2>1, SpaceAssumption DEF Task
    <3>3. g \in Grant /\ nn.upto + k.len + x \in Nat
      BY <1>3, <3>2 DEF Grant
    <3> HIDE DEF g, k
    <3>4. /\ Append(nn.grants, g) \in Seq(Grant) /\ Len(Append(nn.grants, g)) = Len(nn.grants) + 1
          /\ \A j \in DOMAIN nn.grants : Append(nn.grants, g)[j] = nn.grants[j]
      BY <1>3, <3>3
    <3>5. nn' \in NameNode /\ nn'.grants = Append(nn.grants, g)
      BY <1>3, <3>1, <3>3, <3>4 DEF NameNode
    <3> QED BY <2>1, <3>4, <3>5 DEF One
  <2>2. CASE k.kind = "flush"
    <3>1. nn' = [nn EXCEPT !.told = @ \cup {k.u}] /\ k.u \in Unit
      BY <1>2, <1>4, <2>2 DEF Task
    <3> HIDE DEF k
    <3>2. nn' \in NameNode /\ nn'.grants = nn.grants
      BY <1>3, <3>1 DEF NameNode
    <3> QED BY <1>3, <2>2, <3>2 DEF One
  <2>3. CASE k.kind = "return"
    <3>1. nn' = [nn EXCEPT !.back = @ \cup {<<k.id, k.hbid>>}] /\ <<k.id, k.hbid>> \in Nat \X Nat
      BY <1>2, <1>4, <2>3 DEF Task
    <3> HIDE DEF k
    <3>2. nn' \in NameNode /\ nn'.grants = nn.grants
      BY <1>3, <3>1 DEF NameNode
    <3> QED BY <1>3, <2>3, <3>2 DEF One
  <2>4. k.kind \in {"prealloc", "flush", "return"}
    BY <1>4 DEF Task
  <2> QED BY <2>1, <2>2, <2>3, <2>4
<1>7. One(k) \in {0, 1}
  BY DEF One
<1> HIDE DEF k
<1>8. Len(nn'.grants) - Preallocs(reps') + 1 = GrantOf
  BY <1>3, <1>5, <1>6, <1>7 DEF GrantOf
<1>9. PoolType'
  <2>1. GrantOf' = GrantOf
    BY <1>8 DEF GrantOf
  <2> QED BY <1>2, <2>1 DEF TypeInv, PoolType
<1>10. QueueType'
  <2>1. Preallocs(reps') <= Len(nn'.grants)
    BY <1>3, <1>5, <1>6, <1>7
  <2> QED BY <1>2, <1>3, <1>4, <1>5, <1>6, <2>1 DEF QueueType
<1> QED BY <1>1, <1>9, <1>10 DEF TypeInv

LEMMA TypeAckPrealloc ==
  ASSUME TypeInv, AckPrealloc PROVE TypeInv'
<1> DEFINE n == GrantOf
           c == fschunk_init_chunk(n, nn.grants[n])
<1>1. WriterType'
  BY SameWriters DEF TypeInv, AckPrealloc
<1>2. /\ reps \in Seq(Task) /\ reps # <<>> /\ Head(reps).kind = "prealloc" /\ reps' = Tail(reps)
      /\ Preallocs(reps) \in Nat /\ nn.grants \in Seq(Grant) /\ Len(nn.grants) \in Nat
      /\ Preallocs(reps) <= Len(nn.grants)
  BY PreallocsIsCnt DEF TypeInv, QueueType, NameNode, AckPrealloc
<1>3. /\ reps' \in Seq(Task) /\ Head(reps) \in Task
      /\ Preallocs(reps') = Preallocs(reps) - 1 /\ Preallocs(reps') \in Nat
  <2>1. Head(reps) \in Task /\ Tail(reps) \in Seq(Task)
    BY <1>2
  <2>2. Preallocs(Tail(reps)) = Preallocs(reps) - One(Head(reps)) /\ One(Head(reps)) = 1
    BY <1>2, PreallocsTail DEF One
  <2>3. Preallocs(Tail(reps)) \in Nat
    BY <2>1, PreallocsIsCnt
  <2> QED BY ONLY <1>2, <2>1, <2>2, <2>3
<1>4. n \in DOMAIN nn.grants /\ n \in Nat /\ n >= 1
  BY <1>2, <1>3 DEF GrantOf
<1>5. GrantOf' = n + 1
  BY <1>2, <1>3 DEF GrantOf, AckPrealloc
<1>6. c \in Chunk /\ c.id = n /\ c.len \in Nat
  <2>1. nn.grants[n] \in Grant
    BY <1>2, <1>4
  <2> HIDE DEF n
  <2> QED BY <1>4, <2>1 DEF fschunk_init_chunk, init_fschunk_state_fsm, Chunk, Grant
<1>7. QueueType'
  BY <1>2, <1>3 DEF TypeInv, QueueType, AckPrealloc
<1>8. ThreadType'
  <2>1. Head(reps).cb \in BOOLEAN
    BY <1>2, <1>3 DEF Task
  <2> QED BY <2>1 DEF TypeInv, ThreadType, AckRec, AckPrealloc
<1>9. PoolType'
  <2> HIDE DEF c, n
  <2>0. /\ fs \in Seq(Chunk) /\ as \in Seq(Unit) /\ size \in [remaining : Int, requesting : Int]
        /\ Distinct(fs) /\ \A i \in DOMAIN fs : fs[i].id < n /\ fs[i].id \in Nat
    <3>1. \A d \in Chunk : d.id \in Nat
      BY DEF Chunk
    <3>2. /\ fs \in Seq(Chunk) /\ as \in Seq(Unit) /\ size \in [remaining : Int, requesting : Int]
          /\ Distinct(fs) /\ \A i \in DOMAIN fs : fs[i].id < n
      BY DEF TypeInv, PoolType, n
    <3>3. \A i \in DOMAIN fs : fs[i] \in Chunk
      BY <3>2
    <3> QED BY <3>1, <3>2, <3>3
  <2>1. CASE up
    <3>1. fs' = Append(fs, c) /\ size' = [size EXCEPT !.remaining = @ + c.len] /\ as' = as
      BY <2>1 DEF AckPrealloc, _fspool_add_fschunk, c, n
    <3>2. fs' \in Seq(Chunk) /\ size' \in [remaining : Int, requesting : Int]
      BY <1>6, <2>0, <3>1
    <3>3. \A i \in DOMAIN fs : fs[i].id # c.id
      BY <1>4, <1>6, <2>0
    <3>4. Distinct(fs')
      BY <1>6, <2>0, <3>1, <3>3, DistinctAppend
    <3>5. \A i \in DOMAIN fs' : fs'[i].id < n + 1
      <4>1. /\ \A i \in DOMAIN fs : fs'[i] = fs[i]
            /\ fs'[Len(fs) + 1] = c
            /\ \A i \in DOMAIN fs' : i \in DOMAIN fs \/ i = Len(fs) + 1
        BY <1>6, <2>0, <3>1, AppendFacts
      <4> QED BY <1>4, <1>6, <2>0, <4>1
    <3> QED BY <1>5, <2>0, <3>1, <3>2, <3>4, <3>5 DEF PoolType
  <2>2. CASE ~up
    <3>1. fs' = fs /\ size' = size /\ as' = as
      BY <2>2 DEF AckPrealloc
    <3>2. \A i \in DOMAIN fs : fs[i].id < n + 1
      BY <1>4, <2>0
    <3> QED BY <1>5, <2>0, <3>1, <3>2 DEF PoolType
  <2> QED BY <2>1, <2>2
<1> QED BY <1>1, <1>7, <1>8, <1>9 DEF TypeInv

-----------------------------------------------------------------------------
(* A chunk's states on its way back to the namenode.                        *)
Restated(d, c) == d \in Chunk /\ d.id = c.id /\ d.len = c.len /\ d.hbid = c.hbid

LEMMA ChunkInval ==
  ASSUME NEW c \in Chunk
  PROVE  /\ Restated(fschunk_invalidate_chunk(c).c, c)
         /\ fschunk_invalidate_chunk(c).c.st = (IF c.st = "Free" THEN "Invalidated" ELSE c.st)
         /\ fschunk_invalidate_chunk(c).act = "DO_Inval" <=> c.st = "Free"
<1>1. CASE c.st = "Free"
  BY <1>1 DEF fschunk_invalidate_chunk, update_fschunk_state, _update_fschunkFree, To, Restated, Chunk
<1>2. CASE c.st = "Invalidated"
  BY <1>2 DEF fschunk_invalidate_chunk, update_fschunk_state, _update_fschunkInval, To, Restated, Chunk
<1>3. CASE c.st = "Reporting"
  BY <1>3 DEF fschunk_invalidate_chunk, update_fschunk_state, _update_fschunkReport, To, Restated, Chunk
<1> QED BY <1>1, <1>2, <1>3 DEF Chunk

LEMMA ChunkReport ==
  ASSUME NEW c \in Chunk
  PROVE  /\ Restated(update_fschunk_state(c, "ReportFree").c, c)
         /\ update_fschunk_state(c, "ReportFree").c.st =
              (IF c.st = "Invalidated" THEN "Reporting" ELSE c.st)
         /\ update_fschunk_state(c, "ReportFree").act = "DO_Report" <=> c.st = "Invalidated"
<1>1. CASE c.st = "Free"
  BY <1>1 DEF update_fschunk_state, _update_fschunkFree, To, Restated, Chunk
<1>2. CASE c.st = "Invalidated"
  BY <1>2 DEF update_fschunk_state, _update_fschunkInval, To, Restated, Chunk
<1>3. CASE c.st = "Reporting"
  BY <1>3 DEF update_fschunk_state, _update_fschunkReport, To, Restated, Chunk
<1> QED BY <1>1, <1>2, <1>3 DEF Chunk

(* The chunks of a list, each with its new state.                           *)
LEMMA RestatedList ==
  ASSUME NEW s \in Seq(Chunk), Distinct(s), NEW t, t = [i \in DOMAIN s |-> t[i]],
         \A i \in DOMAIN s : Restated(t[i], s[i])
  PROVE  t \in Seq(Chunk) /\ Distinct(t) /\ DOMAIN t = DOMAIN s
<1>1. DOMAIN t = DOMAIN s /\ \A i \in DOMAIN s : t[i] \in Chunk /\ t[i].id = s[i].id
  BY DEF Restated
<1>2. t \in Seq(Chunk)
  <2>1. Len(s) \in Nat /\ DOMAIN s = 1..Len(s)
    OBVIOUS
  <2>2. t \in [1..Len(s) -> Chunk]
    BY <1>1, <2>1
  <2> QED BY <2>1, <2>2
<1> QED BY <1>1, <1>2 DEF Distinct

(* The selected chunks of a list.                                           *)
LEMMA AmongChunks ==
  ASSUME NEW s \in Seq(Chunk), Distinct(s), NEW S
  PROVE  /\ Among(s, S) \in Seq(Chunk) /\ Distinct(Among(s, S))
         /\ \A i \in DOMAIN Among(s, S) : \E j \in DOMAIN s : Among(s, S)[i] = s[j] /\ s[j] \in S
         /\ \A j \in DOMAIN s : s[j] \in S => \E i \in DOMAIN Among(s, S) : Among(s, S)[i] = s[j]
<1> DEFINE q == Among(s, S)
<1>1. q \in Seq(Chunk) /\ \E m : Picks(m, q, s, Len(s), S)
  BY AmongPicks
<1> HIDE DEF q
<1>2. PICK m : Picks(m, q, s, Len(s), S)
  BY <1>1
<1>3. DOMAIN q = 1..Len(q) /\ DOMAIN s = 1..Len(s) /\ Len(q) \in Nat /\ Len(s) \in Nat
  BY <1>1
<1>4. /\ \A i \in DOMAIN q : m[i] \in DOMAIN s /\ q[i] = s[m[i]] /\ s[m[i]] \in S
      /\ \A j \in DOMAIN s : s[j] \in S => \E i \in DOMAIN q : m[i] = j
      /\ \A i, j \in DOMAIN q : i < j => m[i] < m[j]
  BY <1>2, <1>3 DEF Picks
<1>5. Distinct(q)
  <2> SUFFICES ASSUME NEW i \in DOMAIN q, NEW j \in DOMAIN q, q[i].id = q[j].id PROVE i = j
    BY DEF Distinct
  <2>1. m[i] = m[j]
    BY <1>4 DEF Distinct
  <2>2. i \in Int /\ j \in Int /\ m[i] \in Int /\ m[j] \in Int
    BY <1>3, <1>4
  <2> QED BY <1>4, <2>1, <2>2
<1> QED BY <1>1, <1>4, <1>5 DEF q

LEMMA TypeCounted ==
  ASSUME ThreadType, NEW k, adm' = Counted(k), UNCHANGED <<up, ack, asked>> PROVE ThreadType'
<1>1. adm \in AdmRec
  BY DEF ThreadType
<1>2. adm' \in AdmRec
  BY <1>1 DEF Counted, AdmRec
<1> QED BY <1>2 DEF ThreadType

LEMMA RepsTail ==
  ASSUME TypeInv, reps # <<>>, Head(reps).kind # "prealloc", reps' = Tail(reps),
         UNCHANGED <<wq, sent, nn>>
  PROVE  QueueType' /\ GrantOf' = GrantOf
<1>1. reps \in Seq(Task)
  BY DEF TypeInv, QueueType
<1>2. reps' \in Seq(Task) /\ Preallocs(reps') = Preallocs(reps)
  BY <1>1, PreallocsTail, PreallocsIsCnt DEF One
<1> QED BY <1>2 DEF TypeInv, QueueType, GrantOf

LEMMA TypeAckReturn ==
  ASSUME TypeInv, AckReturn PROVE TypeInv'
<1>1. WriterType'
  BY SameWriters DEF TypeInv, AckReturn
<1>2. QueueType' /\ GrantOf' = GrantOf
  BY RepsTail DEF AckReturn
<1>3. ThreadType'
  BY TypeCounted DEF AckReturn, TypeInv
<1>4. PoolType'
  BY <1>2 DEF TypeInv, PoolType, AckReturn
<1> QED BY <1>1, <1>2, <1>3, <1>4 DEF TypeInv

(* The chunk the namenode was told of leaves the list.                      *)
LEMMA MinIn ==
  ASSUME NEW n \in Nat, NEW t \in SUBSET (1..n), t # {}
  PROVE  Min(t) \in t /\ \A x \in t : Min(t) <= x
<1>1. PICK x \in t : \A y \in t : ~(y < x)
  BY LeastNumber
<1>2. \E y \in t : \A z \in t : y <= z
  BY <1>1
<1> QED BY <1>2 DEF Min

LEMMA Removed ==
  ASSUME TypeInv, NEW lb, fspool_remove_allocspace(lb)
  PROVE  /\ as' \in Seq(Unit)
         /\ \/ as' = as
            \/ \E i \in DOMAIN as : as[i].lb = lb /\ as' = RemoveAt(as, i)
<1> DEFINE hit == {i \in DOMAIN as : up /\ as[i].lb = lb}
<1>1. as \in Seq(Unit) /\ Len(as) \in Nat /\ DOMAIN as = 1..Len(as)
  <2>1. as \in Seq(Unit)
    BY DEF TypeInv, PoolType
  <2> QED BY <2>1, LenProperties
<1>2. CASE hit = {}
  BY <1>1, <1>2 DEF fspool_remove_allocspace
<1>3. CASE hit # {}
  <2>1. as' = RemoveAt(as, Min(hit))
    BY <1>3 DEF fspool_remove_allocspace
  <2>2. Min(hit) \in hit
    <3>1. hit \in SUBSET (1..Len(as))
      BY <1>1
    <3> HIDE DEF hit
    <3> QED BY <1>1, <1>3, <3>1, MinIn
  <2>3. Min(hit) \in DOMAIN as /\ as[Min(hit)].lb = lb
    BY <2>2
  <2> HIDE DEF hit
  <2>4. as' \in Seq(Unit)
    BY <1>1, <2>1, <2>3, RemoveFacts
  <2> QED BY <2>1, <2>3, <2>4
<1> QED BY <1>2, <1>3

LEMMA TypeAckFlush ==
  ASSUME TypeInv, AckFlush PROVE TypeInv'
<1>1. WriterType'
  BY SameWriters DEF TypeInv, AckFlush
<1>2. QueueType' /\ GrantOf' = GrantOf
  BY RepsTail DEF AckFlush
<1>3. ThreadType'
  BY TypeCounted DEF AckFlush, TypeInv
<1>4. as' \in Seq(Unit)
  BY Removed DEF AckFlush
<1>5. PoolType'
  BY <1>2, <1>4 DEF TypeInv, PoolType, AckFlush
<1> QED BY <1>1, <1>2, <1>3, <1>5 DEF TypeInv

LEMMA TypeAdmInval ==
  ASSUME TypeInv, AdmInval PROVE TypeInv'
<1>1. WriterType' /\ QueueType'
  BY SameWriters, SameQueue DEF TypeInv, AdmInval
<1>2. ThreadType'
  BY DEF TypeInv, ThreadType, AdmInval, AdmRec
<1>3. fs \in Seq(Chunk) /\ Distinct(fs) /\ \A i \in DOMAIN fs : fs[i] \in Chunk
  BY DEF TypeInv, PoolType
<1>4. fs' = [i \in DOMAIN fs |-> fschunk_invalidate_chunk(fs[i]).c]
  BY DEF AdmInval, _fspool_inval_pool_fschunk
<1>5. \A i \in DOMAIN fs : Restated(fs'[i], fs[i])
  BY <1>3, <1>4, ChunkInval
<1>6. fs' \in Seq(Chunk) /\ Distinct(fs') /\ DOMAIN fs' = DOMAIN fs
  <2>1. fs' = [i \in DOMAIN fs |-> fs'[i]]
    BY <1>4
  <2> QED BY <1>3, <1>5, <2>1, RestatedList
<1>7. size' \in [remaining : Int, requesting : Int]
  <2> DEFINE S == {c \in ToSet(fs) : fschunk_invalidate_chunk(c).act = "DO_Inval"}
             tot == Total(Among(fs, S))
  <2>1. size' = [size EXCEPT !.remaining = @ - tot]
    BY DEF AdmInval, _fspool_inval_pool_fschunk
  <2>2. tot \in Nat
    <3> HIDE DEF S
    <3>1. Among(fs, S) \in Seq(Chunk)
      BY <1>3, AmongPicks
    <3>2. \A c \in Chunk : c.len \in Nat
      BY DEF Chunk
    <3> QED BY <3>1, <3>2, TotalType
  <2>3. size \in [remaining : Int, requesting : Int]
    BY DEF TypeInv, PoolType
  <2> HIDE DEF tot
  <2> QED BY <2>1, <2>2, <2>3
<1>8. PoolType'
  BY <1>5, <1>6, <1>7 DEF TypeInv, PoolType, GrantOf, AdmInval, Restated
<1> QED BY <1>1, <1>2, <1>8 DEF TypeInv

(* The tasks that give the chunks back.                                     *)
LEMMA ReturnTasks ==
  ASSUME NEW q \in Seq(Chunk)
  PROVE  /\ [i \in DOMAIN q |-> ReturnTask(q[i], "adm")] \in Seq(Task)
         /\ \A i \in DOMAIN q : ReturnTask(q[i], "adm").kind = "return"
<1>1. \A i \in DOMAIN q : ReturnTask(q[i], "adm") \in Task
  <2>1. \A c \in Chunk : ReturnTask(c, "adm") \in Task
    BY DEF ReturnTask, Task, Chunk
  <2> QED BY <2>1
<1> QED BY <1>1 DEF ReturnTask

LEMMA TypeAdmUnuse ==
  ASSUME TypeInv, AdmUnuse PROVE TypeInv'
<1> DEFINE S == {c \in ToSet(fs) : update_fschunk_state(c, "ReportFree").act = "DO_Report"}
           rep == Among(fs, S)
           tasks == [i \in DOMAIN rep |-> ReturnTask(rep[i], "adm")]
<1>1. WriterType'
  BY SameWriters DEF TypeInv, AdmUnuse
<1>2. /\ fs' = [i \in DOMAIN fs |-> update_fschunk_state(fs[i], "ReportFree").c]
      /\ wq' = wq \o tasks
      /\ adm' = [adm EXCEPT !.pc = "clean", !.cnt = Len(rep)]
      /\ UNCHANGED <<as, size, up, sent, reps, ack, asked, nn>>
  BY DEF AdmUnuse
<1>3. fs \in Seq(Chunk) /\ Distinct(fs) /\ \A i \in DOMAIN fs : fs[i] \in Chunk
  BY DEF TypeInv, PoolType
<1> HIDE DEF S
<1>4. rep \in Seq(Chunk)
  BY <1>3, AmongPicks
<1> HIDE DEF rep
<1>5. \A i \in DOMAIN fs : Restated(fs'[i], fs[i])
  BY <1>2, <1>3, ChunkReport
<1>6. fs' \in Seq(Chunk) /\ Distinct(fs') /\ DOMAIN fs' = DOMAIN fs
  <2>1. fs' = [i \in DOMAIN fs |-> fs'[i]]
    BY <1>2
  <2> QED BY <1>3, <1>5, <2>1, RestatedList
<1>7. PoolType'
  BY <1>2, <1>5, <1>6 DEF TypeInv, PoolType, GrantOf, Restated
<1>8. QueueType'
  <2>1. tasks \in Seq(Task)
    BY <1>4, ReturnTasks
  <2> HIDE DEF tasks
  <2>2. wq \in Seq(Task)
    BY DEF TypeInv, QueueType
  <2>3. wq' \in Seq(Task)
    BY <1>2, <2>1, <2>2, ConcatProperties
  <2> QED BY <1>2, <2>3 DEF TypeInv, QueueType
<1>9. ThreadType'
  <2> DEFINE n == Len(rep)
  <2>1. adm' = [adm EXCEPT !.pc = "clean", !.cnt = n] /\ n \in Int
    BY <1>2, <1>4
  <2> HIDE DEF n
  <2>2. adm \in AdmRec
    BY DEF TypeInv, ThreadType
  <2>3. adm' \in AdmRec
    BY ONLY <2>1, <2>2 DEF AdmRec
  <2> QED BY <1>2, <2>3 DEF TypeInv, ThreadType
<1> QED BY <1>1, <1>7, <1>8, <1>9 DEF TypeInv

LEMMA TypeAdmClean ==
  ASSUME TypeInv, AdmClean PROVE TypeInv'
<1> DEFINE S == {c \in ToSet(fs) : update_fschunk_state(c, "CleanSpace").act # "DO_Clean"}
<1>1. WriterType' /\ QueueType'
  BY SameWriters, SameQueue DEF TypeInv, AdmClean
<1>2. ThreadType'
  BY DEF TypeInv, ThreadType, AdmClean, AdmRec
<1>3. fs' = Among(fs, S) /\ UNCHANGED <<as, size, reps, nn>>
  BY DEF AdmClean
<1>4. fs \in Seq(Chunk) /\ Distinct(fs)
  BY DEF TypeInv, PoolType
<1> HIDE DEF S
<1>5. /\ fs' \in Seq(Chunk) /\ Distinct(fs')
      /\ \A i \in DOMAIN fs' : \E j \in DOMAIN fs : fs'[i] = fs[j]
  BY <1>3, <1>4, AmongChunks
<1>6. PoolType'
  BY <1>3, <1>5 DEF TypeInv, PoolType, GrantOf
<1> QED BY <1>1, <1>2, <1>6 DEF TypeInv

LEMMA TypeStep ==
  ASSUME TypeInv, [Next]_vars PROVE TypeInv'
<1>1. CASE UNCHANGED vars
  BY <1>1, SamePool, SameQueue, SameWriters, SameThreads DEF TypeInv, vars
<1>2. CASE \E w \in Writer : WriterLocks(w) \/ WriterAllocs(w)
  BY <1>2, TypeWriterLocks, TypeWriterAllocs
<1>3. CASE WorkerSends \/ WorkerFlushes \/ NNAnswers
  BY <1>3, TypeWorkerSends, TypeWorkerFlushes, TypeNNAnswers
<1>4. CASE Ack
  BY <1>4, TypeAckPrealloc, TypeAckCounts, TypeAckServes, TypeAckAllocs, TypeAckFlush,
     TypeAckReturn DEF Ack
<1>5. CASE Adm
  BY <1>5, TypeAdmStarts, TypeAdmAlloc, TypeAdmInval, TypeAdmUnuse, TypeAdmClean, TypeAdmFlush,
     TypeAdmFlushed, TypeFreePool DEF Adm
<1> QED BY <1>1, <1>2, <1>3, <1>4, <1>5 DEF Next

(* Every list, queue and thread of the space pool keeps its type, the ids   *)
(* of the free chunks are those of different grants, and there is a grant   *)
(* for every answered preallocation (fschunk_init_chunk, update_fschunk_state). *)
THEOREM SpaceTyped == Spec => []TypeInv
<1>1. TypeInv /\ [Next]_vars => TypeInv'
  BY TypeStep
<1> QED BY TypeInit, <1>1, PTL DEF Spec

-----------------------------------------------------------------------------
(* The wait queue and its lock.  First, what a turn does to the writer, the *)
(* wait queue and the requests.                                             *)
Parks(t) == ~t.again /\ t.loc.ret # "OK"
Asks(t) == IF ~t.again /\ t.loc.ret = "NOSPACE" THEN 1 ELSE 0

LEMMA AskTask ==
  ASSUME NEW n \in Nat
  PROVE  /\ PreallocTask(n, TRUE) \in Task /\ PreallocTask(n, TRUE).cb = TRUE
         /\ PreallocTask(n, TRUE).kind = "prealloc"
  BY DEF PreallocTask, Task

LEMMA ServesCat ==
  ASSUME NEW s \in Seq(Task), NEW t \in Seq(Task), Serves(s), Serves(t)
  PROVE  Serves(s \o t)
<1>1. \A j \in DOMAIN (s \o t) :
        \/ j \in DOMAIN s /\ (s \o t)[j] = s[j]
        \/ j - Len(s) \in DOMAIN t /\ (s \o t)[j] = t[j - Len(s)]
  BY CatFacts
<1> QED BY <1>1 DEF Serves

LEMMA ServesOther ==
  ASSUME NEW t, \A i \in DOMAIN t : t[i].kind # "prealloc" PROVE Serves(t)
  BY DEF Serves

LEMMA AllocEffect ==
  ASSUME TypeInv, NEW w \in Writer, NEW loc \in TurnLoc, NEW t, Turned(t, loc, w),
         ioSReq_alloc_freeSpace(w, t)
  PROVE  /\ \A x \in Writer : x # w => wr'[x] = wr[x]
         /\ wr'[w].pc = (IF t.again THEN wr[w].pc ELSE IF Parks(t) THEN "parked" ELSE "got")
         /\ wr'[w].loc = (IF t.again /\ fwlock = w THEN t.loc ELSE NoTurn)
         /\ wr'[w].md = wr[w].md \o t.us
         /\ waitq' = (IF Parks(t) THEN Append(waitq, w) ELSE waitq)
         /\ size'.requesting = size.requesting + Asks(t)
         /\ Preallocs(wq') = Preallocs(wq) + Asks(t)
         /\ Serves(wq) => Serves(wq')
<1>1. /\ wr \in [Writer -> WriterRec] /\ wq \in Seq(Task) /\ t.tasks \in Seq(Task)
      /\ \A i \in DOMAIN t.tasks : t.tasks[i].kind = "flush"
  BY DEF TypeInv, WriterType, QueueType, Turned, Turn
<1>2. wr' = [wr EXCEPT ![w] =
               [pc  |-> IF t.again THEN wr[w].pc ELSE IF Parks(t) THEN "parked" ELSE "got",
                loc |-> IF t.again /\ fwlock = w THEN t.loc ELSE NoTurn,
                md  |-> wr[w].md \o t.us]]
  BY DEF ioSReq_alloc_freeSpace, Parks
<1>3. waitq' = (IF Parks(t) THEN Append(waitq, w) ELSE waitq)
  BY DEF ioSReq_alloc_freeSpace, Parks
<1>4. size'.requesting = size.requesting + Asks(t)
  BY DEF ioSReq_alloc_freeSpace, Asks
<1> DEFINE more == IF ~t.again /\ t.loc.ret = "NOSPACE" THEN <<PreallocTask(Len_[w], TRUE)>> ELSE <<>>
           q == wq \o t.tasks
<1>5. wq' = q \o more
  BY DEF ioSReq_alloc_freeSpace
<1>6. q \in Seq(Task) /\ Preallocs(q) = Preallocs(wq)
  BY <1>1, CatFacts, PreallocsOther
<1>7. Serves(wq) => Serves(q)
  <2>1. Serves(t.tasks)
    BY <1>1, ServesOther
  <2> QED BY <1>1, <2>1, ServesCat
<1> HIDE DEF q
<1>8. /\ Preallocs(wq') = Preallocs(wq) + Asks(t)
      /\ Serves(q) => Serves(wq')
  <2>1. CASE ~t.again /\ t.loc.ret = "NOSPACE"
    <3> DEFINE k == PreallocTask(Len_[w], TRUE)
    <3>1. k \in Task /\ k.cb = TRUE /\ k.kind = "prealloc"
      <4>1. Len_[w] \in Nat
        BY SpaceAssumption
      <4> QED BY <4>1, AskTask
    <3>2. wq' = q \o <<k>>
      BY <1>5, <2>1
    <3> HIDE DEF k
    <3>3. q \o <<k>> = Append(q, k) /\ <<k>> \in Seq(Task) /\ Serves(<<k>>)
      BY <1>6, <3>1 DEF Serves
    <3>4. Preallocs(wq') = Preallocs(q) + 1
      BY <1>6, <3>1, <3>2, <3>3, PreallocsAppend DEF One
    <3>5. Serves(q) => Serves(wq')
      BY <1>6, <3>2, <3>3, ServesCat
    <3> QED BY <1>6, <2>1, <3>4, <3>5 DEF Asks
  <2>2. CASE ~(~t.again /\ t.loc.ret = "NOSPACE")
    <3>1. wq' = q
      BY <1>5, <1>6, <2>2
    <3>2. Preallocs(wq) \in Nat
      BY <1>1, PreallocsIsCnt
    <3> QED BY <1>6, <2>2, <3>1, <3>2 DEF Asks
  <2> QED BY <2>1, <2>2
<1> QED BY <1>1, <1>2, <1>3, <1>4, <1>7, <1>8

(* The lock invariant, one lemma for each step that can disturb it.         *)
LEMMA LockInit == Init => LockInv
<1> SUFFICES ASSUME Init PROVE LockInv
  OBVIOUS
<1>1. /\ \A w \in Writer : wr[w].pc = "idle" /\ wr[w].loc = NoTurn
      /\ fwlock = "none" /\ ack.pc = "idle" /\ ack.loc = NoTurn /\ waitq = <<>>
  BY DEF Init
<1>2. DOMAIN waitq = {}
  BY <1>1
<1> QED BY <1>1, <1>2, SpaceAssumption DEF LockInv

LEMMA LockSame ==
  ASSUME LockInv, UNCHANGED <<wr, fwlock, waitq, ack>> PROVE LockInv'
  BY DEF LockInv

LEMMA LockWriterLocks ==
  ASSUME TypeInv, LockInv, NEW w \in Writer, WriterLocks(w) PROVE LockInv'
<1>1. /\ wr \in [Writer -> WriterRec] /\ waitq \in Seq(Writer)
      /\ wr[w].pc = "idle" /\ fwlock = "none" /\ fwlock' = w /\ waitq' = waitq /\ ack' = ack
      /\ wr' = [wr EXCEPT ![w].pc = "alloc"]
  BY DEF TypeInv, WriterType, WriterLocks
<1>2. /\ \A x \in Writer : x # w => wr'[x] = wr[x]
      /\ wr'[w].pc = "alloc" /\ wr'[w].loc = wr[w].loc
  BY <1>1 DEF WriterRec
<1>3. \A i \in DOMAIN waitq : waitq[i] \in Writer /\ waitq[i] # w
  BY <1>1 DEF LockInv
<1>4. ack.pc = "alloc" => ack.w \in Writer /\ ack.w # w
  BY <1>1 DEF LockInv, TypeInv, ThreadType
<1> QED BY <1>1, <1>2, <1>3, <1>4, SpaceAssumption DEF LockInv

(* A writer joins the queue's end.                                          *)
LEMMA LockParks ==
  ASSUME TypeInv, LockInv, NEW w \in Writer, \A i \in DOMAIN waitq : waitq[i] # w,
         waitq' = Append(waitq, w), wr'[w].pc = "parked", \A x \in Writer : x # w => wr'[x] = wr[x]
  PROVE  /\ \A i \in DOMAIN waitq' : waitq'[i] \in Writer /\ wr'[waitq'[i]].pc = "parked"
         /\ \A i, j \in DOMAIN waitq' : waitq'[i] = waitq'[j] => i = j
<1>1. waitq \in Seq(Writer)
  BY DEF TypeInv, WriterType
<1>2. /\ \A i \in DOMAIN waitq' : i \in DOMAIN waitq \/ i = Len(waitq) + 1
      /\ \A i \in DOMAIN waitq : waitq'[i] = waitq[i] /\ waitq[i] \in Writer
      /\ waitq'[Len(waitq) + 1] = w
  BY <1>1, AppendFacts
<1> QED BY <1>2 DEF LockInv

LEMMA LockWriterAllocs ==
  ASSUME TypeInv, LockInv, NEW w \in Writer, WriterAllocs(w) PROVE LockInv'
<1> DEFINE t == AllocTurn(w, wr[w].loc)
<1>1. /\ wr[w].pc = "alloc" /\ ioSReq_alloc_freeSpace(w, t) /\ ack' = ack
      /\ fwlock' = IF t.again THEN w ELSE "none"
      /\ wr[w].loc \in TurnLoc /\ wr \in [Writer -> WriterRec] /\ waitq \in Seq(Writer)
  BY DEF WriterAllocs, TypeInv, WriterType, WriterRec
<1>2. Turned(t, wr[w].loc, w)
  BY <1>1, TurnFacts
<1> HIDE DEF t
<1>3. /\ \A x \in Writer : x # w => wr'[x] = wr[x]
      /\ wr'[w].pc = (IF t.again THEN wr[w].pc ELSE IF Parks(t) THEN "parked" ELSE "got")
      /\ wr'[w].loc = (IF t.again /\ fwlock = w THEN t.loc ELSE NoTurn)
      /\ waitq' = (IF Parks(t) THEN Append(waitq, w) ELSE waitq)
  BY <1>1, <1>2, AllocEffect
<1>4. /\ fwlock = w /\ ack.pc \notin {"alloc", "serve"} /\ w # "ack" /\ w # "none"
      /\ \A x \in Writer : x # w => wr[x].pc # "alloc"
      /\ \A i \in DOMAIN waitq : waitq[i] \in Writer /\ waitq[i] # w
  BY <1>1, SpaceAssumption DEF LockInv
<1>5. /\ \A i \in DOMAIN waitq' : waitq'[i] \in Writer /\ wr'[waitq'[i]].pc = "parked"
      /\ \A i, j \in DOMAIN waitq' : waitq'[i] = waitq'[j] => i = j
  <2>1. CASE Parks(t)
    <3>1. waitq' = Append(waitq, w) /\ wr'[w].pc = "parked"
      BY <1>3, <2>1 DEF Parks
    <3> QED BY <1>3, <1>4, <3>1, LockParks
  <2>2. CASE ~Parks(t)
    BY <1>3, <1>4, <2>2 DEF LockInv
  <2> QED BY <2>1, <2>2
<1>6. \A x \in Writer : (fwlock' = x <=> wr'[x].pc = "alloc")
                        /\ (wr'[x].pc # "alloc" => wr'[x].loc = NoTurn)
  BY <1>1, <1>3, <1>4, SpaceAssumption DEF LockInv
<1> QED BY <1>1, <1>4, <1>5, <1>6, SpaceAssumption DEF LockInv

LEMMA LockAckAllocs ==
  ASSUME TypeInv, LockInv, AckAllocs PROVE LockInv'
<1> DEFINE w == ack.w
           t == AllocTurn(w, ack.loc)
<1>1. /\ ack.pc = "alloc" /\ ioSReq_alloc_freeSpace(w, t)
      /\ ack' = IF t.again THEN [ack EXCEPT !.loc = t.loc]
                ELSE [pc |-> IF t.loc.ret = "OK" THEN "serve" ELSE "idle",
                      cb |-> FALSE, w |-> "none", loc |-> NoTurn]
      /\ fwlock' = IF ~t.again /\ t.loc.ret # "OK" THEN "none" ELSE "ack"
  BY DEF AckAllocs
<1>2. /\ ack.loc \in TurnLoc /\ ack \in AckRec /\ w \in Writer
      /\ wr \in [Writer -> WriterRec] /\ waitq \in Seq(Writer)
  BY <1>1 DEF TypeInv, WriterType, ThreadType, AckRec
<1>3. Turned(t, ack.loc, w)
  BY <1>2, TurnFacts
<1> HIDE DEF t, w
<1>4. /\ \A x \in Writer : x # w => wr'[x] = wr[x]
      /\ wr'[w].pc = (IF t.again THEN wr[w].pc ELSE IF Parks(t) THEN "parked" ELSE "got")
      /\ wr'[w].loc = (IF t.again /\ fwlock = w THEN t.loc ELSE NoTurn)
      /\ waitq' = (IF Parks(t) THEN Append(waitq, w) ELSE waitq)
  BY <1>1, <1>2, <1>3, AllocEffect
<1>5. /\ fwlock = "ack" /\ wr[w].pc = "parked" /\ w # "ack" /\ w # "none"
      /\ \A x \in Writer : wr[x].pc # "alloc"
      /\ \A i \in DOMAIN waitq : waitq[i] \in Writer /\ waitq[i] # w
  BY <1>1, <1>2, SpaceAssumption DEF LockInv, w
<1>6. /\ \A i \in DOMAIN waitq' : waitq'[i] \in Writer /\ wr'[waitq'[i]].pc = "parked"
      /\ \A i, j \in DOMAIN waitq' : waitq'[i] = waitq'[j] => i = j
  <2>1. CASE Parks(t)
    <3>1. waitq' = Append(waitq, w) /\ wr'[w].pc = "parked"
      BY <1>4, <2>1 DEF Parks
    <3> QED BY <1>2, <1>4, <1>5, <3>1, LockParks
  <2>2. CASE ~Parks(t)
    BY <1>4, <1>5, <2>2 DEF LockInv
  <2> QED BY <2>1, <2>2
<1>7. \A x \in Writer : wr'[x].pc # "alloc" /\ wr'[x].loc = NoTurn
  BY <1>4, <1>5 DEF LockInv
<1>8. CASE t.again
  <2>1. /\ ack'.pc = "alloc" /\ ack'.w = w /\ fwlock' = "ack" /\ waitq' = waitq
        /\ wr'[w].pc = "parked"
    BY <1>1, <1>2, <1>4, <1>5, <1>8 DEF AckRec, Parks, w
  <2> QED BY <1>5, <1>6, <1>7, <2>1, SpaceAssumption DEF LockInv
<1>9. CASE ~t.again
  <2>1. /\ ack'.pc = (IF t.loc.ret = "OK" THEN "serve" ELSE "idle") /\ ack'.loc = NoTurn
        /\ fwlock' = (IF t.loc.ret = "OK" THEN "ack" ELSE "none")
    BY <1>1, <1>9
  <2> QED BY <1>6, <1>7, <2>1, SpaceAssumption DEF LockInv
<1> QED BY <1>8, <1>9

LEMMA LockAckServes ==
  ASSUME TypeInv, LockInv, AckServes PROVE LockInv'
<1>1. /\ ack \in AckRec /\ waitq \in Seq(Writer) /\ wr' = wr
      /\ (ack.pc = "lock" /\ fwlock = "none") \/ ack.pc = "serve"
  BY DEF TypeInv, ThreadType, WriterType, AckServes
<1>2. fwlock \in {"ack", "none"} /\ \A x \in Writer : wr[x].pc # "alloc"
  BY <1>1, SpaceAssumption DEF LockInv
<1>3. CASE waitq = <<>>
  <2>1. /\ ack' = [ack EXCEPT !.pc = "idle"] /\ fwlock' = "none" /\ waitq' = waitq
    BY <1>3 DEF AckServes
  <2>2. ack'.pc = "idle" /\ ack'.loc = ack.loc
    BY <1>1, <2>1 DEF AckRec
  <2> QED BY <1>1, <1>2, <2>1, <2>2, SpaceAssumption DEF LockInv
<1>4. CASE waitq # <<>>
  <2>1. /\ ack' = [ack EXCEPT !.pc = "alloc", !.w = Head(waitq)] /\ fwlock' = "ack"
        /\ waitq' = Tail(waitq)
    BY <1>4 DEF AckServes
  <2>2. ack'.pc = "alloc" /\ ack'.w = waitq[1] /\ ack'.loc = ack.loc
    BY <1>1, <1>4, <2>1, TailFacts DEF AckRec
  <2>3. /\ 1 \in DOMAIN waitq
        /\ \A j \in DOMAIN waitq' : j + 1 \in DOMAIN waitq /\ waitq'[j] = waitq[j + 1] /\ j \in Int
        /\ \A j \in DOMAIN waitq' : j + 1 # 1
    <3>1. /\ 1 \in DOMAIN waitq /\ waitq' \in Seq(Writer)
          /\ \A j \in DOMAIN waitq' : j + 1 \in DOMAIN waitq /\ waitq'[j] = waitq[j + 1]
      BY <1>1, <1>4, <2>1, TailFacts
    <3>2. \A j \in DOMAIN waitq' : j \in Int /\ j > 0
      BY <3>1
    <3> QED BY <3>1, <3>2
  <2>4. /\ \A i \in DOMAIN waitq' : wr[waitq'[i]].pc = "parked" /\ waitq'[i] # waitq[1]
        /\ \A i, j \in DOMAIN waitq' : waitq'[i] = waitq'[j] => i = j
    BY <2>3 DEF LockInv
  <2>5. wr[waitq[1]].pc = "parked"
    BY <2>3 DEF LockInv
  <2> QED BY <1>1, <1>2, <2>1, <2>2, <2>4, <2>5, SpaceAssumption DEF LockInv
<1> QED BY <1>3, <1>4

LEMMA LockAckPrealloc ==
  ASSUME TypeInv, LockInv, AckPrealloc PROVE LockInv'
<1>1. ack \in AckRec /\ ack.pc = "idle" /\ UNCHANGED <<wr, fwlock, waitq>>
  BY DEF TypeInv, ThreadType, AckPrealloc
<1>2. ack'.pc \in {"count", "oops"} /\ ack'.loc = ack.loc
  BY <1>1 DEF AckPrealloc, AckRec
<1> QED BY <1>1, <1>2 DEF LockInv

LEMMA LockAckCounts ==
  ASSUME TypeInv, LockInv, AckCounts PROVE LockInv'
<1>1. ack \in AckRec /\ ack.pc = "count" /\ UNCHANGED <<wr, fwlock, waitq>>
  BY DEF TypeInv, ThreadType, AckCounts
<1>2. ack'.pc \in {"lock", "idle"} /\ ack'.loc = ack.loc
  BY <1>1 DEF AckCounts, AckRec
<1> QED BY <1>1, <1>2 DEF LockInv

LEMMA LockStep ==
  ASSUME TypeInv, LockInv, [Next]_vars PROVE LockInv'
<1>1. CASE UNCHANGED vars
  BY <1>1, LockSame DEF vars
<1>2. CASE \E w \in Writer : WriterLocks(w) \/ WriterAllocs(w)
  BY <1>2, LockWriterLocks, LockWriterAllocs
<1>3. CASE WorkerSends \/ WorkerFlushes \/ NNAnswers
  BY <1>3, LockSame DEF WorkerSends, WorkerFlushes, NNAnswers
<1>4. CASE Ack
  <2>1. CASE AckFlush \/ AckReturn
    BY <2>1, LockSame DEF AckFlush, AckReturn
  <2> QED BY <1>4, <2>1, LockAckPrealloc, LockAckCounts, LockAckServes, LockAckAllocs DEF Ack
<1>5. CASE Adm
  BY <1>5, LockSame DEF Adm, AdmStarts, AdmAlloc, AdmInval, AdmUnuse, AdmClean, AdmFlush,
     AdmFlushed, fspool_free_pool
<1> QED BY <1>1, <1>2, <1>3, <1>4, <1>5 DEF Next

(* The ioctls.  No write is at work once a detach began.                    *)
LEMMA AdmInit == Init => AdmInv
<1> SUFFICES ASSUME Init PROVE AdmInv
  OBVIOUS
<1>1. adm.pc = "idle" /\ asked = {} /\ up = TRUE
  BY DEF Init
<1> QED BY <1>1 DEF AdmInv

LEMMA AdmSame ==
  ASSUME AdmInv, UNCHANGED <<wr, up, asked>>, adm'.pc = adm.pc, adm'.cmd = adm.cmd PROVE AdmInv'
  BY DEF AdmInv

LEMMA AdmCounted ==
  ASSUME TypeInv, NEW k, adm' = Counted(k) PROVE adm'.pc = adm.pc /\ adm'.cmd = adm.cmd
<1>1. adm \in AdmRec
  BY DEF TypeInv, ThreadType
<1> QED BY <1>1 DEF Counted, AdmRec

(* A write that is at work goes on: nobody detaches.                        *)
LEMMA AdmWriter ==
  ASSUME TypeInv, LockInv, AdmInv, NEW w \in Writer, wr[w].pc \in {"alloc", "parked"},
         \A x \in Writer : x # w => wr'[x] = wr[x], UNCHANGED <<up, asked, adm>>
  PROVE  AdmInv'
<1>1. "detach" \notin asked
  BY DEF AdmInv
<1> QED BY <1>1 DEF AdmInv

LEMMA AdmWriterAllocs ==
  ASSUME TypeInv, LockInv, AdmInv, NEW w \in Writer, WriterAllocs(w) PROVE AdmInv'
<1>1. /\ wr[w].pc = "alloc" /\ UNCHANGED <<up, asked, adm>>
      /\ wr' = [wr EXCEPT ![w] = wr'[w]]
  BY DEF WriterAllocs, ioSReq_alloc_freeSpace, TypeInv, WriterType
<1>2. \A x \in Writer : x # w => wr'[x] = wr[x]
  BY <1>1 DEF TypeInv, WriterType
<1> QED BY <1>1, <1>2, AdmWriter

LEMMA AdmAckAllocs ==
  ASSUME TypeInv, LockInv, AdmInv, AckAllocs PROVE AdmInv'
<1>1. /\ ack.w \in Writer /\ wr[ack.w].pc = "parked" /\ UNCHANGED <<up, asked, adm>>
      /\ wr' = [wr EXCEPT ![ack.w] = wr'[ack.w]]
  BY DEF AckAllocs, ioSReq_alloc_freeSpace, LockInv, TypeInv, ThreadType, WriterType
<1>2. \A x \in Writer : x # ack.w => wr'[x] = wr[x]
  BY <1>1 DEF TypeInv, WriterType
<1> QED BY <1>1, <1>2, AdmWriter

LEMMA AdmWriterLocks ==
  ASSUME TypeInv, AdmInv, NEW w \in Writer, WriterLocks(w) PROVE AdmInv'
<1>1. "detach" \notin asked /\ UNCHANGED <<up, asked, adm>>
  BY DEF WriterLocks
<1> QED BY <1>1 DEF AdmInv

LEMMA AdmAdm ==
  ASSUME TypeInv, AdmInv, Adm PROVE AdmInv'
<1>1. adm \in AdmRec /\ wr' = wr
  BY DEF TypeInv, ThreadType, Adm, AdmStarts, AdmAlloc, AdmInval, AdmUnuse, AdmClean, AdmFlush,
     AdmFlushed, fspool_free_pool
<1>2. ASSUME NEW x \in Ioctl, AdmStarts(x) PROVE AdmInv'
  <2>1. /\ asked' = asked \cup {x} /\ up' = up /\ up
        /\ adm'.cmd = x
        /\ adm'.pc = CASE x = "alloc" -> "alloc" [] x = "flush" -> "flush" [] OTHER -> "inval"
        /\ x = "detach" => \A w \in Writer : wr[w].pc \in {"idle", "got"}
    BY <1>1, <1>2 DEF AdmStarts, AdmRec
  <2>2. x \in {"alloc", "flush", "return", "detach"}
    BY SpaceAssumption
  <2> QED BY <1>1, <2>1, <2>2 DEF AdmInv
<1>3. CASE AdmAlloc
  <2>1. adm'.pc = "idle" /\ asked' = asked /\ up' = up
    BY <1>1, <1>3 DEF AdmAlloc, AdmRec
  <2> QED BY <1>1, <2>1 DEF AdmInv
<1>4. CASE AdmInval
  <2>1. adm.pc = "inval" /\ adm'.pc = "unuse" /\ adm'.cmd = adm.cmd /\ asked' = asked /\ up' = up
    BY <1>1, <1>4 DEF AdmInval, AdmRec
  <2> QED BY <1>1, <2>1 DEF AdmInv
<1>5. CASE AdmUnuse
  <2>1. adm.pc = "unuse" /\ adm'.pc = "clean" /\ adm'.cmd = adm.cmd /\ asked' = asked /\ up' = up
    BY <1>1, <1>5 DEF AdmUnuse, AdmRec
  <2> QED BY <1>1, <2>1 DEF AdmInv
<1>6. CASE AdmClean
  <2>1. /\ adm.pc = "clean" /\ adm'.pc = (IF adm.cmd = "return" THEN "idle" ELSE "flush")
        /\ adm'.cmd = adm.cmd /\ asked' = asked /\ up' = up
    BY <1>1, <1>6 DEF AdmClean, AdmRec
  <2> QED BY <1>1, <2>1 DEF AdmInv
<1>7. CASE AdmFlush
  <2>1. adm.pc = "flush" /\ adm'.pc = "flushed" /\ adm'.cmd = adm.cmd /\ asked' = asked /\ up' = up
    BY <1>1, <1>7 DEF AdmFlush, sm_report_volume_spaceMData, AdmRec
  <2> QED BY <1>1, <2>1 DEF AdmInv
<1>8. CASE AdmFlushed
  <2>1. /\ adm.pc = "flushed" /\ adm'.pc = (IF adm.cmd = "flush" THEN "idle" ELSE "free")
        /\ adm'.cmd = adm.cmd /\ asked' = asked /\ up' = up
    BY <1>1, <1>8 DEF AdmFlushed, AdmRec
  <2> QED BY <1>1, <2>1 DEF AdmInv
<1>9. CASE fspool_free_pool
  <2>1. adm.pc = "free" /\ adm'.pc = "idle" /\ adm'.cmd = adm.cmd /\ asked' = asked
    BY <1>1, <1>9 DEF fspool_free_pool, AdmRec
  <2> QED BY <1>1, <2>1 DEF AdmInv
<1> QED BY <1>2, <1>3, <1>4, <1>5, <1>6, <1>7, <1>8, <1>9 DEF Adm

LEMMA AdmStep ==
  ASSUME TypeInv, LockInv, AdmInv, [Next]_vars PROVE AdmInv'
<1>1. CASE UNCHANGED vars
  BY <1>1, AdmSame DEF vars
<1>2. CASE \E w \in Writer : WriterLocks(w) \/ WriterAllocs(w)
  BY <1>2, AdmWriterLocks, AdmWriterAllocs
<1>3. CASE WorkerSends \/ WorkerFlushes \/ NNAnswers
  BY <1>3, AdmSame DEF WorkerSends, WorkerFlushes, NNAnswers
<1>4. CASE AckPrealloc \/ AckCounts \/ AckServes
  BY <1>4, AdmSame DEF AckPrealloc, AckCounts, AckServes
<1>5. CASE AckFlush \/ AckReturn
  <2>1. adm' = Counted(Head(reps)) /\ UNCHANGED <<wr, up, asked>>
    BY <1>5 DEF AckFlush, AckReturn
  <2> QED BY <2>1, AdmCounted, AdmSame
<1> QED BY <1>1, <1>2, <1>3, <1>4, <1>5, AdmAckAllocs, AdmAdm DEF Next, Ack

-----------------------------------------------------------------------------
(* The parked writes and the requests they wait for.                        *)
LEMMA PendingType ==
  ASSUME TypeInv
  PROVE  /\ Pending \in Nat /\ Preallocs(wq) \in Nat /\ Preallocs(sent) \in Nat
         /\ Preallocs(reps) \in Nat /\ size.requesting \in Int
<1>1. /\ wq \in Seq(Task) /\ sent \in Seq(Task) /\ reps \in Seq(Task)
      /\ size \in [remaining : Int, requesting : Int]
  BY DEF TypeInv, QueueType, PoolType
<1>2. Preallocs(wq) \in Nat /\ Preallocs(sent) \in Nat /\ Preallocs(reps) \in Nat
  BY <1>1, PreallocsIsCnt
<1> QED BY <1>1, <1>2 DEF Pending

(* No one is parked, and no one allocates, when the volume is detached.     *)
LEMMA NobodyWaits ==
  ASSUME TypeInv, LockInv, AdmInv, ~up
  PROVE  /\ waitq = <<>> /\ \A w \in Writer : wr[w].pc # "alloc"
         /\ ack.pc # "alloc"
<1>1. \A w \in Writer : wr[w].pc \in {"idle", "got"}
  BY DEF AdmInv
<1>2. waitq \in Seq(Writer)
  BY DEF TypeInv, WriterType
<1>3. \A i \in DOMAIN waitq : FALSE
  BY <1>1, <1>2 DEF LockInv
<1>4. waitq = <<>>
  BY <1>2, <1>3, EmptySeq
<1>5. ack.pc # "alloc"
  BY <1>1 DEF LockInv, TypeInv, ThreadType
<1> QED BY <1>1, <1>4, <1>5

LEMMA WaitInit == Init => WaitInv
<1> SUFFICES ASSUME Init PROVE WaitInv
  OBVIOUS
<1>1. /\ wq = <<>> /\ sent = <<>> /\ reps = <<>> /\ waitq = <<>> /\ asked = {}
      /\ size.requesting = 0 /\ ack.pc = "idle" /\ \A w \in Writer : wr[w].pc = "idle"
  BY DEF Init, fspool_init_pool
<1>2. Preallocs(<<>>) = 0 /\ Serves(<<>>)
  <2>1. {i \in DOMAIN <<>> : <<>>[i].kind = "prealloc"} = {}
    OBVIOUS
  <2> QED BY <2>1, FS_EmptySet DEF Preallocs, Serves
<1>3. Pending = 0
  BY <1>1, <1>2 DEF Pending
<1> QED BY <1>1, <1>2, <1>3 DEF WaitInv

(* The requests are as many as before, and nobody's place changed.          *)
LEMMA WaitSame ==
  ASSUME WaitInv, UNCHANGED <<ack, wr, waitq>>, asked \subseteq asked', up' => up,
         size'.requesting = size.requesting, Pending' = Pending,
         Serves(wq) /\ Serves(sent) /\ Serves(reps) => (Serves(wq) /\ Serves(sent) /\ Serves(reps))'
  PROVE  WaitInv'
  BY DEF WaitInv

LEMMA WaitQueuesSame ==
  ASSUME UNCHANGED <<wq, sent, reps>>
  PROVE  /\ Pending' = Pending
         /\ Serves(wq) /\ Serves(sent) /\ Serves(reps) => (Serves(wq) /\ Serves(sent) /\ Serves(reps))'
  BY DEF Pending, Serves

LEMMA ServesAppend ==
  ASSUME NEW s \in Seq(Task), NEW e \in Task, Serves(s), e.kind = "prealloc" => e.cb
  PROVE  Serves(Append(s, e))
<1>1. \A j \in DOMAIN Append(s, e) :
        \/ j \in DOMAIN s /\ Append(s, e)[j] = s[j]
        \/ Append(s, e)[j] = e
  BY AppendFacts
<1> QED BY <1>1 DEF Serves

LEMMA ServesTail ==
  ASSUME NEW s \in Seq(Task), s # <<>>, Serves(s)
  PROVE  Serves(Tail(s)) /\ (Head(s).kind = "prealloc" => Head(s).cb)
<1>1. /\ 1 \in DOMAIN s /\ s[1] = Head(s)
      /\ \A j \in DOMAIN Tail(s) : j + 1 \in DOMAIN s /\ Tail(s)[j] = s[j + 1]
  BY TailFacts
<1> QED BY <1>1 DEF Serves

LEMMA ServesRemove ==
  ASSUME NEW s \in Seq(Task), NEW i \in DOMAIN s, Serves(s)
  PROVE  Serves(RemoveAt(s, i)) /\ (s[i].kind = "prealloc" => s[i].cb)
<1>1. \A j \in DOMAIN RemoveAt(s, i) : \E m \in DOMAIN s : RemoveAt(s, i)[j] = s[m]
  BY RemoveFacts
<1> QED BY <1>1 DEF Serves

(* A request moves on from one queue to the next.                           *)
LEMMA WaitWorkerSends ==
  ASSUME TypeInv, WaitInv, WorkerSends PROVE WaitInv'
<1>1. /\ wq # <<>> /\ wq' = Tail(wq) /\ sent' = Append(sent, Head(wq)) /\ reps' = reps
      /\ UNCHANGED <<ack, wr, waitq, asked, up, size>>
      /\ wq \in Seq(Task) /\ sent \in Seq(Task) /\ reps \in Seq(Task)
  BY DEF WorkerSends, discoC_send_fsReq, TypeInv, QueueType
<1>2. Head(wq) \in Task
  BY <1>1, TailFacts
<1>3. Pending' = Pending
  <2>1. /\ Preallocs(wq') = Preallocs(wq) - One(Head(wq))
        /\ Preallocs(sent') = Preallocs(sent) + One(Head(wq))
    BY <1>1, <1>2, PreallocsTail, PreallocsAppend
  <2>2. One(Head(wq)) \in Int
    BY DEF One
  <2> QED BY <1>1, <2>1, <2>2, PendingType DEF Pending
<1>4. Serves(wq) /\ Serves(sent) /\ Serves(reps) => (Serves(wq) /\ Serves(sent) /\ Serves(reps))'
  <2> SUFFICES ASSUME Serves(wq), Serves(sent), Serves(reps)
               PROVE  Serves(wq') /\ Serves(sent') /\ Serves(reps')
    BY DEF Serves
  <2>1. Serves(Tail(wq)) /\ (Head(wq).kind = "prealloc" => Head(wq).cb)
    BY <1>1, ServesTail
  <2>2. Serves(Append(sent, Head(wq)))
    BY <1>1, <1>2, <2>1, ServesAppend
  <2> QED BY <1>1, <2>1, <2>2
<1> QED BY <1>1, <1>3, <1>4, WaitSame

LEMMA WaitNNAnswers ==
  ASSUME TypeInv, WaitInv, NNAnswers PROVE WaitInv'
<1>1. PICK i \in DOMAIN sent :
        /\ sent' = RemoveAt(sent, i) /\ reps' = Append(reps, sent[i]) /\ wq' = wq
        /\ UNCHANGED <<ack, wr, waitq, asked, up, size>>
  BY DEF NNAnswers
<1>2. wq \in Seq(Task) /\ sent \in Seq(Task) /\ reps \in Seq(Task)
  BY DEF TypeInv, QueueType
<1>3. sent[i] \in Task
  BY <1>2
<1>4. Pending' = Pending
  <2>1. /\ Preallocs(sent') = Preallocs(sent) - One(sent[i])
        /\ Preallocs(reps') = Preallocs(reps) + One(sent[i])
    BY <1>1, <1>2, <1>3, PreallocsRemove, PreallocsAppend
  <2>2. One(sent[i]) \in Int
    BY DEF One
  <2> QED BY <1>1, <2>1, <2>2, PendingType DEF Pending
<1>5. Serves(wq) /\ Serves(sent) /\ Serves(reps) => (Serves(wq) /\ Serves(sent) /\ Serves(reps))'
  <2> SUFFICES ASSUME Serves(wq), Serves(sent), Serves(reps)
               PROVE  Serves(wq') /\ Serves(sent') /\ Serves(reps')
    BY DEF Serves
  <2>1. Serves(RemoveAt(sent, i)) /\ (sent[i].kind = "prealloc" => sent[i].cb)
    BY <1>2, ServesRemove
  <2>2. Serves(Append(reps, sent[i]))
    BY <1>2, <1>3, <2>1, ServesAppend
  <2> QED BY <1>1, <2>1, <2>2
<1> QED BY <1>1, <1>4, <1>5, WaitSame

(* Tasks of other kinds join the commit worker's queue.                     *)
LEMMA WaitMoreTasks ==
  ASSUME TypeInv, WaitInv, NEW q \in Seq(Task), \A i \in DOMAIN q : q[i].kind # "prealloc",
         wq' = wq \o q, UNCHANGED <<ack, wr, waitq, asked, up, size, sent, reps>>
  PROVE  WaitInv'
<1>1. wq \in Seq(Task)
  BY DEF TypeInv, QueueType
<1>2. Preallocs(wq') = Preallocs(wq)
  BY <1>1, PreallocsOther
<1>3. Serves(wq) => Serves(wq')
  BY <1>1, ServesOther, ServesCat
<1>4. Pending' = Pending
  BY <1>2 DEF Pending
<1>5. Serves(wq) /\ Serves(sent) /\ Serves(reps) => (Serves(wq) /\ Serves(sent) /\ Serves(reps))'
  BY <1>3 DEF Serves
<1> QED BY <1>4, <1>5, WaitSame

LEMMA WaitFlushes ==
  ASSUME TypeInv, WaitInv, WorkerFlushes \/ AdmFlush PROVE WaitInv'
<1>1. PICK by \in {"none", "adm"} : wq' = wq \o FlushTasks(as, by)
  BY DEF WorkerFlushes, AdmFlush, sm_report_volume_spaceMData
<1>2. as \in Seq(Unit)
  BY DEF TypeInv, PoolType
<1>3. FlushTasks(as, by) \in Seq(Task) /\ \A i \in DOMAIN FlushTasks(as, by) : FlushTasks(as, by)[i].kind = "flush"
  BY <1>2, FlushFacts
<1>4. UNCHANGED <<ack, wr, waitq, asked, up, size, sent, reps>>
  BY DEF WorkerFlushes, AdmFlush
<1> QED BY <1>1, <1>3, <1>4, WaitMoreTasks

LEMMA WaitAdmUnuse ==
  ASSUME TypeInv, WaitInv, AdmUnuse PROVE WaitInv'
<1> DEFINE S == {c \in ToSet(fs) : update_fschunk_state(c, "ReportFree").act = "DO_Report"}
           rep == Among(fs, S)
           tasks == [i \in DOMAIN rep |-> ReturnTask(rep[i], "adm")]
<1>1. wq' = wq \o tasks /\ UNCHANGED <<ack, wr, waitq, asked, up, size, sent, reps>>
  BY DEF AdmUnuse
<1> HIDE DEF S
<1>2. rep \in Seq(Chunk)
  BY AmongPicks DEF TypeInv, PoolType
<1> HIDE DEF rep
<1>3. tasks \in Seq(Task) /\ \A i \in DOMAIN tasks : tasks[i].kind = "return"
  BY <1>2, ReturnTasks
<1> HIDE DEF tasks
<1> QED BY <1>1, <1>3, WaitMoreTasks

(* An answer of another kind is taken off the queue.                        *)
LEMMA WaitAckOther ==
  ASSUME TypeInv, WaitInv, AckFlush \/ AckReturn PROVE WaitInv'
<1>1. /\ reps # <<>> /\ Head(reps).kind # "prealloc" /\ reps' = Tail(reps)
      /\ UNCHANGED <<ack, wr, waitq, asked, up, size, wq, sent>>
  BY DEF AckFlush, AckReturn
<1>2. reps \in Seq(Task)
  BY DEF TypeInv, QueueType
<1>3. Preallocs(reps') = Preallocs(reps)
  BY <1>1, <1>2, PreallocsTail, PreallocsIsCnt DEF One
<1>4. Pending' = Pending
  BY <1>1, <1>3 DEF Pending
<1>5. Serves(wq) /\ Serves(sent) /\ Serves(reps) => (Serves(wq) /\ Serves(sent) /\ Serves(reps))'
  <2>1. Serves(reps) => Serves(reps')
    BY <1>1, <1>2, ServesTail
  <2> QED BY <1>1, <2>1 DEF Serves
<1> QED BY <1>1, <1>4, <1>5, WaitSame

LEMMA WaitAdmOther ==
  ASSUME TypeInv, WaitInv,
         AdmInval \/ AdmClean \/ AdmFlushed \/ fspool_free_pool \/ \E x \in Ioctl : AdmStarts(x)
  PROVE  WaitInv'
<1>1. UNCHANGED <<ack, wr, waitq, wq, sent, reps>> /\ asked \subseteq asked'
  BY DEF AdmInval, AdmClean, AdmFlushed, fspool_free_pool, AdmStarts
<1>0. up' => up
  <2>1. CASE fspool_free_pool
    BY <2>1 DEF fspool_free_pool
  <2>2. CASE ~fspool_free_pool
    <3>1. up' = up
      BY <2>2 DEF AdmInval, AdmClean, AdmFlushed, AdmStarts
    <3> QED BY <3>1
  <2> QED BY <2>1, <2>2
<1>2. size'.requesting = size.requesting
  <2>1. size \in [remaining : Int, requesting : Int]
    BY DEF TypeInv, PoolType
  <2> QED BY <2>1 DEF AdmInval, _fspool_inval_pool_fschunk, AdmClean, AdmFlushed, fspool_free_pool,
             AdmStarts
<1> QED BY <1>0, <1>1, <1>2, WaitQueuesSame, WaitSame

LEMMA WaitAdmAlloc ==
  ASSUME TypeInv, AdmInv, WaitInv, AdmAlloc PROVE WaitInv'
<1> DEFINE k == PreallocTask(1, FALSE)
<1>1. /\ adm.pc = "alloc" /\ size' = [size EXCEPT !.requesting = @ + 1] /\ wq' = Append(wq, k)
      /\ UNCHANGED <<ack, wr, waitq, asked, up, sent, reps>>
  BY DEF AdmAlloc
<1>2. "alloc" \in asked
  BY <1>1 DEF AdmInv
<1>3. k \in Task /\ One(k) = 1
  BY DEF PreallocTask, Task, One
<1> HIDE DEF k
<1>4. wq \in Seq(Task) /\ size \in [remaining : Int, requesting : Int]
  BY DEF TypeInv, QueueType, PoolType
<1>5. Preallocs(wq') = Preallocs(wq) + 1
  BY <1>1, <1>3, <1>4, PreallocsAppend
<1>6. Pending' = Pending + 1 /\ size'.requesting = size.requesting + 1 /\ Pending \in Nat
  BY <1>1, <1>4, <1>5, PendingType DEF Pending
<1>7. "alloc" \in asked' /\ Pending' > 0
  BY <1>1, <1>2, <1>6
<1>8. up' => size'.requesting = Pending' + IF ack'.pc = "count" THEN 1 ELSE 0
  BY <1>1, <1>4, <1>6 DEF WaitInv
<1> QED BY <1>7, <1>8 DEF WaitInv

(* The answer thread: an answer, its end, and the service of the queue.     *)
LEMMA WaitAckPrealloc ==
  ASSUME TypeInv, LockInv, AdmInv, WaitInv, AckPrealloc PROVE WaitInv'
<1>1. /\ ack.pc = "idle" /\ reps # <<>> /\ Head(reps).kind = "prealloc" /\ reps' = Tail(reps)
      /\ UNCHANGED <<wr, waitq, asked, up, wq, sent>>
  BY DEF AckPrealloc
<1>2. /\ reps \in Seq(Task) /\ ack \in AckRec /\ size \in [remaining : Int, requesting : Int]
      /\ up \in BOOLEAN
  BY DEF TypeInv, QueueType, ThreadType, PoolType
<1>3. Preallocs(reps') = Preallocs(reps) - 1
  BY <1>1, <1>2, PreallocsTail DEF One
<1>4. Pending' = Pending - 1 /\ Pending \in Nat /\ Pending' \in Int
  BY <1>1, <1>3, PendingType DEF Pending
<1>5. Serves(reps) => Serves(reps') /\ Head(reps).cb
  BY <1>1, <1>2, ServesTail
<1>6. size'.requesting = size.requesting
  BY <1>2 DEF AckPrealloc, _fspool_add_fschunk
<1>7. CASE up
  <2>1. ack' = [ack EXCEPT !.pc = "count", !.cb = Head(reps).cb]
    BY <1>7 DEF AckPrealloc
  <2>2. ack'.pc = "count" /\ ack'.cb = Head(reps).cb
    BY <1>2, <2>1 DEF AckRec
  <2>3. size'.requesting = Pending' + 1
    BY <1>1, <1>4, <1>6, <1>7 DEF WaitInv
  <2>4. "alloc" \in asked' \/ ((Serves(wq) /\ Serves(sent) /\ Serves(reps))' /\ ack'.cb)
    <3>1. CASE "alloc" \in asked
      BY <1>1, <3>1
    <3>2. CASE Serves(wq) /\ Serves(sent) /\ Serves(reps)
      BY <1>1, <1>5, <2>2, <3>2 DEF Serves
    <3> QED BY <3>1, <3>2 DEF WaitInv
  <2> QED BY <2>2, <2>3, <2>4 DEF WaitInv
<1>8. CASE ~up
  <2>1. ack'.pc = "oops"
    BY <1>2, <1>8 DEF AckPrealloc, AckRec
  <2>2. ~up' /\ waitq' = <<>> /\ \A w \in Writer : wr'[w].pc # "alloc"
    BY <1>1, <1>8, NobodyWaits
  <2>3. "alloc" \in asked' \/ (Serves(wq) /\ Serves(sent) /\ Serves(reps))'
    BY <1>1, <1>5 DEF WaitInv, Serves
  <2> QED BY <2>1, <2>2, <2>3 DEF WaitInv
<1> QED BY <1>2, <1>7, <1>8

LEMMA WaitAckCounts ==
  ASSUME TypeInv, LockInv, AdmInv, WaitInv, AckCounts PROVE WaitInv'
<1>1. /\ ack.pc = "count" /\ UNCHANGED <<wr, waitq, asked, up, wq, sent, reps>>
      /\ size' = (IF up THEN [size EXCEPT !.requesting = @ - 1] ELSE size)
      /\ ack' = [ack EXCEPT !.pc = IF ack.cb THEN "lock" ELSE "idle", !.cb = FALSE]
  BY DEF AckCounts
<1>2. ack \in AckRec /\ size \in [remaining : Int, requesting : Int]
  BY DEF TypeInv, ThreadType, PoolType
<1>3. ack'.pc = IF ack.cb THEN "lock" ELSE "idle"
  BY <1>1, <1>2 DEF AckRec
<1>4. Pending' = Pending /\ Pending \in Nat
  BY <1>1, WaitQueuesSame, PendingType
<1>5. up' => size'.requesting = Pending'
  BY <1>1, <1>2, <1>4 DEF WaitInv
<1>6. "alloc" \in asked' \/ ack'.pc = "lock"
  BY <1>1, <1>3 DEF WaitInv
<1>7. "alloc" \in asked' \/ (Serves(wq) /\ Serves(sent) /\ Serves(reps))'
  BY <1>1 DEF WaitInv, Serves
<1> QED BY <1>3, <1>4, <1>5, <1>6, <1>7 DEF WaitInv

LEMMA WaitAckServes ==
  ASSUME TypeInv, LockInv, WaitInv, AckServes PROVE WaitInv'
<1>1. /\ (ack.pc = "lock" /\ fwlock = "none") \/ ack.pc = "serve"
      /\ UNCHANGED <<wr, asked, up, wq, sent, reps, size>>
  BY DEF AckServes
<1>2. ack \in AckRec
  BY DEF TypeInv, ThreadType
<1>3. \A w \in Writer : wr[w].pc # "alloc"
  BY <1>1, SpaceAssumption DEF LockInv
<1>4. ack.loc = NoTurn
  BY <1>1 DEF LockInv
<1>5. \/ ack'.pc = "idle" /\ waitq' = <<>>
      \/ ack'.pc = "alloc" /\ ack'.loc = NoTurn
  BY <1>2, <1>4 DEF AckServes, AckRec
<1>6. Pending' = Pending
  BY <1>1, WaitQueuesSame
<1>7. "alloc" \in asked' \/ (Serves(wq) /\ Serves(sent) /\ Serves(reps))'
  BY <1>1 DEF WaitInv, Serves
<1>8. up' => size'.requesting = Pending' + 0
  BY <1>1, <1>6 DEF WaitInv
<1> QED BY <1>1, <1>3, <1>5, <1>6, <1>7, <1>8 DEF WaitInv, NoTurn

(* A turn of the allocation, for a writer and for the answer thread.        *)
LEMMA WaitWriterAllocs ==
  ASSUME TypeInv, LockInv, AdmInv, WaitInv, NEW w \in Writer, WriterAllocs(w) PROVE WaitInv'
<1> DEFINE t == AllocTurn(w, wr[w].loc)
<1>1. /\ wr[w].pc = "alloc" /\ ioSReq_alloc_freeSpace(w, t)
      /\ UNCHANGED <<ack, up, asked, sent, reps>>
      /\ wr[w].loc \in TurnLoc
  BY DEF WriterAllocs, TypeInv, WriterType, WriterRec
<1>2. Turned(t, wr[w].loc, w)
  BY <1>1, TurnFacts
<1> HIDE DEF t
<1>3. /\ \A x \in Writer : x # w => wr'[x] = wr[x]
      /\ wr'[w].pc = (IF t.again THEN wr[w].pc ELSE IF Parks(t) THEN "parked" ELSE "got")
      /\ wr'[w].loc = (IF t.again /\ fwlock = w THEN t.loc ELSE NoTurn)
      /\ waitq' = (IF Parks(t) THEN Append(waitq, w) ELSE waitq)
      /\ size'.requesting = size.requesting + Asks(t)
      /\ Preallocs(wq') = Preallocs(wq) + Asks(t)
      /\ Serves(wq) => Serves(wq')
  BY <1>1, <1>2, AllocEffect
<1>4. up /\ fwlock = w /\ ack.pc \notin {"alloc", "serve"}
  BY <1>1, SpaceAssumption DEF LockInv, AdmInv
<1>5. /\ Pending \in Nat /\ Asks(t) \in {0, 1} /\ Pending' = Pending + Asks(t)
      /\ size.requesting \in Int
  BY <1>1, <1>3, PendingType DEF Pending, Asks
<1>6. size'.requesting = Pending' + IF ack'.pc = "count" THEN 1 ELSE 0
  BY <1>1, <1>3, <1>4, <1>5 DEF WaitInv
<1>7. "alloc" \in asked' \/ (Serves(wq) /\ Serves(sent) /\ Serves(reps))'
  BY <1>1, <1>3 DEF WaitInv, Serves
<1>8. t.loc.ret = "WAIT" => "alloc" \in asked \/ Pending > 0 \/ ack.pc \in {"count", "lock"}
  <2>1. CASE size.remaining >= Len_[w]
    BY <1>1, <1>2, <2>1 DEF Turned, WaitInv
  <2>2. CASE ~(size.remaining >= Len_[w])
    <3>1. size.requesting > 0 => Pending > 0 \/ ack.pc = "count"
      BY <1>4, <1>5 DEF WaitInv
    <3> QED BY <1>2, <2>2, <3>1 DEF Turned
  <2> QED BY <2>1, <2>2
<1>9. Parks(t) => "alloc" \in asked \/ Pending' > 0 \/ ack.pc \in {"count", "lock"}
  <2>1. t.loc.ret \in {"OK", "WAIT", "NOSPACE"}
    BY <1>2 DEF Turned, Turn, TurnLoc
  <2> QED BY <1>5, <1>8, <2>1 DEF Parks, Asks
<1>10. Pending > 0 => Pending' > 0
  BY <1>5
<1>11. \A x \in Writer : wr'[x].pc = "alloc" /\ wr'[x].loc.ret = "WAIT" =>
         "alloc" \in asked \/ Pending > 0 \/ ack.pc \in {"count", "lock"}
  <2>1. \A x \in Writer : x # w => wr[x].pc # "alloc"
    BY <1>4 DEF LockInv
  <2>2. NoTurn.ret # "WAIT"
    BY DEF NoTurn
  <2> QED BY <1>3, <1>8, <2>1, <2>2
<1>12. waitq' # <<>> =>
         "alloc" \in asked \/ Pending' > 0 \/ ack.pc \in {"count", "lock", "serve", "alloc"}
  BY <1>3, <1>9, <1>10 DEF WaitInv
<1> QED BY <1>1, <1>4, <1>6, <1>7, <1>10, <1>11, <1>12 DEF WaitInv

LEMMA WaitAckAllocs ==
  ASSUME TypeInv, LockInv, AdmInv, WaitInv, AckAllocs PROVE WaitInv'
<1> DEFINE w == ack.w
           t == AllocTurn(w, ack.loc)
<1>1. /\ ack.pc = "alloc" /\ ioSReq_alloc_freeSpace(w, t)
      /\ UNCHANGED <<up, asked, sent, reps>>
      /\ ack' = IF t.again THEN [ack EXCEPT !.loc = t.loc]
                ELSE [pc |-> IF t.loc.ret = "OK" THEN "serve" ELSE "idle",
                      cb |-> FALSE, w |-> "none", loc |-> NoTurn]
  BY DEF AckAllocs
<1>2. ack.loc \in TurnLoc /\ ack \in AckRec /\ w \in Writer
  BY <1>1 DEF TypeInv, ThreadType, AckRec
<1>3. Turned(t, ack.loc, w)
  BY <1>2, TurnFacts
<1>4. wr[w].pc = "parked" /\ up /\ \A x \in Writer : wr[x].pc # "alloc"
  BY <1>1, <1>2, SpaceAssumption DEF LockInv, AdmInv
<1> HIDE DEF t, w
<1>5. /\ \A x \in Writer : x # w => wr'[x] = wr[x]
      /\ wr'[w].pc = (IF t.again THEN wr[w].pc ELSE IF Parks(t) THEN "parked" ELSE "got")
      /\ waitq' = (IF Parks(t) THEN Append(waitq, w) ELSE waitq)
      /\ size'.requesting = size.requesting + Asks(t)
      /\ Preallocs(wq') = Preallocs(wq) + Asks(t)
      /\ Serves(wq) => Serves(wq')
  BY <1>1, <1>2, <1>3, AllocEffect
<1>6. /\ Pending \in Nat /\ Asks(t) \in {0, 1} /\ Pending' = Pending + Asks(t)
      /\ size.requesting \in Int
  BY <1>1, <1>5, PendingType DEF Pending, Asks
<1>7. /\ ack'.pc = (IF t.again THEN "alloc" ELSE IF t.loc.ret = "OK" THEN "serve" ELSE "idle")
      /\ t.again => ack'.loc = t.loc
  BY <1>1, <1>2 DEF AckRec
<1>8. size'.requesting = Pending'
  BY <1>1, <1>4, <1>5, <1>6 DEF WaitInv
<1>9. "alloc" \in asked' \/ (Serves(wq) /\ Serves(sent) /\ Serves(reps))'
  BY <1>1, <1>5 DEF WaitInv, Serves
<1>10. t.loc.ret = "WAIT" => Pending > 0
  <2>1. CASE size.remaining >= Len_[w]
    BY <1>1, <1>3, <2>1 DEF Turned, WaitInv
  <2>2. CASE ~(size.remaining >= Len_[w])
    <3>1. size.requesting > 0 => Pending > 0
      BY <1>1, <1>4, <1>6 DEF WaitInv
    <3> QED BY <1>3, <2>2, <3>1 DEF Turned
  <2> QED BY <2>1, <2>2
<1>11. t.loc.ret # "OK" /\ ~t.again => Pending' > 0
  <2>1. t.loc.ret \in {"OK", "WAIT", "NOSPACE"}
    BY <1>3 DEF Turned, Turn, TurnLoc
  <2> QED BY <1>6, <1>10, <2>1 DEF Asks
<1>12. /\ \A x \in Writer : wr'[x].pc # "alloc"
       /\ ack'.pc = "alloc" /\ ack'.loc.ret = "WAIT" => Pending' > 0
  BY <1>4, <1>5, <1>6, <1>7, <1>10
<1>13. ack'.pc # "count" /\ (waitq' # <<>> => Pending' > 0 \/ ack'.pc \in {"serve", "alloc"})
  BY <1>7, <1>11
<1>14. up' => size'.requesting = Pending' + IF ack'.pc = "count" THEN 1 ELSE 0
  BY <1>6, <1>8, <1>13
<1> QED BY <1>9, <1>12, <1>13, <1>14 DEF WaitInv

LEMMA WaitWriterLocks ==
  ASSUME TypeInv, LockInv, WaitInv, NEW w \in Writer, WriterLocks(w) PROVE WaitInv'
<1>1. /\ UNCHANGED <<ack, waitq, asked, up, size, wq, sent, reps>> /\ wr[w].pc = "idle"
      /\ wr' = [wr EXCEPT ![w].pc = "alloc"] /\ wr \in [Writer -> WriterRec]
  BY DEF WriterLocks, TypeInv, WriterType
<1>2. wr[w].loc = NoTurn /\ \A x \in Writer : wr'[x].loc = wr[x].loc /\ (x # w => wr'[x] = wr[x])
  BY <1>1 DEF LockInv, WriterRec
<1>3. \A x \in Writer : wr'[x].pc = "alloc" /\ wr'[x].loc.ret = "WAIT" =>
        wr[x].pc = "alloc" /\ wr[x].loc.ret = "WAIT"
  BY <1>2 DEF NoTurn
<1>4. /\ Pending' = Pending
      /\ Serves(wq) /\ Serves(sent) /\ Serves(reps) => (Serves(wq) /\ Serves(sent) /\ Serves(reps))'
  BY <1>1, WaitQueuesSame
<1> QED BY <1>1, <1>3, <1>4 DEF WaitInv

LEMMA WaitStep ==
  ASSUME TypeInv, LockInv, AdmInv, WaitInv, [Next]_vars PROVE WaitInv'
<1>1. CASE UNCHANGED vars
  BY <1>1, WaitQueuesSame, WaitSame DEF vars
<1>2. CASE \E w \in Writer : WriterLocks(w) \/ WriterAllocs(w)
  BY <1>2, WaitWriterLocks, WaitWriterAllocs
<1>3. CASE WorkerSends \/ WorkerFlushes \/ NNAnswers
  BY <1>3, WaitWorkerSends, WaitFlushes, WaitNNAnswers
<1>4. CASE Ack
  BY <1>4, WaitAckPrealloc, WaitAckCounts, WaitAckServes, WaitAckAllocs, WaitAckOther DEF Ack
<1>5. CASE Adm
  BY <1>5, WaitAdmAlloc, WaitAdmUnuse, WaitFlushes, WaitAdmOther DEF Adm
<1> QED BY <1>1, <1>2, <1>3, <1>4, <1>5 DEF Next

CoreInv == TypeInv /\ LockInv /\ AdmInv /\ WaitInv

LEMMA CoreStep ==
  ASSUME CoreInv, [Next]_vars PROVE CoreInv'
  BY TypeStep, LockStep, AdmStep, WaitStep DEF CoreInv

LEMMA CoreHolds == Spec => []CoreInv
<1>1. Init => CoreInv
  BY TypeInit, LockInit, AdmInit, WaitInit DEF CoreInv
<1>2. CoreInv /\ [Next]_vars => CoreInv'
  BY CoreStep
<1> QED BY <1>1, <1>2, PTL DEF Spec

LEMMA CoreAwaits == CoreInv => ParkedIsAwaited
<1> SUFFICES ASSUME CoreInv, waitq # <<>>, "alloc" \notin asked
             PROVE  \/ \E q \in {wq, sent, reps} :
                         \E i \in DOMAIN q : q[i].kind = "prealloc" /\ q[i].cb
                    \/ ack.pc = "count" /\ ack.cb
                    \/ ack.pc \in {"lock", "serve", "alloc"}
  BY DEF ParkedIsAwaited
<1>1. /\ Serves(wq) /\ Serves(sent) /\ Serves(reps) /\ (ack.pc = "count" => ack.cb)
      /\ Pending > 0 \/ ack.pc \in {"count", "lock", "serve", "alloc"}
  BY DEF CoreInv, WaitInv
<1>2. ASSUME Pending > 0
      PROVE  \E q \in {wq, sent, reps} : \E i \in DOMAIN q : q[i].kind = "prealloc" /\ q[i].cb
  <2>1. TypeInv /\ wq \in Seq(Task) /\ sent \in Seq(Task) /\ reps \in Seq(Task)
    BY DEF CoreInv, TypeInv, QueueType
  <2>2. \E q \in {wq, sent, reps} : Preallocs(q) > 0
    BY <1>2, <2>1, PendingType DEF Pending
  <2>3. PICK q \in {wq, sent, reps} : Preallocs(q) > 0
    BY <2>2
  <2>4. q \in Seq(Task) /\ Serves(q)
    BY <1>1, <2>1
  <2>5. \E i \in DOMAIN q : q[i].kind = "prealloc"
    BY <2>3, <2>4, PreallocsSome
  <2> QED BY <2>4, <2>5 DEF Serves
<1> QED BY <1>1, <1>2

(* A first write that parked on the wait queue is awaited by a request that *)
(* will serve it, or the answer thread is about to (ioSReq_alloc_freeSpace, *)
(* ioSReq_preallocMD_endfn), whatever the writes, the grants and the ioctls. *)
THEOREM ParkedAwaited == Spec => []ParkedIsAwaited
  BY CoreHolds, CoreAwaits, PTL

-----------------------------------------------------------------------------
(* Where space goes.  The grants follow each other, and a grant is used     *)
(* from its start on.                                                       *)
GrantInv ==
  /\ \A i \in DOMAIN nn.grants : nn.grants[i].hbid >= 1 /\ EndOf(nn.grants[i]) <= 1 + nn.upto
  /\ \A i, j \in DOMAIN nn.grants : i < j => EndOf(nn.grants[i]) <= nn.grants[j].hbid

(* The chunks in use are those of the answered grants: c is what is left.   *)
LeftOf(c, g) == c.id >= 1 /\ c.hbid >= g[c.id].hbid /\ EndOf(c) = EndOf(g[c.id])
FreeInv == \A i \in DOMAIN fs : LeftOf(fs[i], nn.grants)

(* A part u that was given lies in its grant, before what is left of that.  *)
GivenIn(u, g, f, n) ==
  /\ u.id \in 1..(n - 1) /\ u.hbid >= g[u.id].hbid /\ EndOf(u) <= EndOf(g[u.id])
  /\ \A j \in DOMAIN f : f[j].id = u.id => EndOf(u) <= f[j].hbid
Apart(u, v) == EndOf(u) <= v.hbid \/ EndOf(v) <= u.hbid
GivenInv ==
  /\ \A w \in Writer : \A i \in DOMAIN wr[w].md : GivenIn(wr[w].md[i], nn.grants, fs, GrantOf)
  /\ \A w, x \in Writer : \A i \in DOMAIN wr[w].md, j \in DOMAIN wr[x].md :
       w # x \/ i # j => Apart(wr[w].md[i], wr[x].md[j])

(* The ends of grants that may be given back: nothing of them was given, or *)
(* will be.                                                                 *)
GivenBack(id, hbid) ==
  /\ id \in 1..(GrantOf - 1) /\ hbid >= nn.grants[id].hbid
  /\ \A j \in DOMAIN fs : fs[j].id = id => fs[j].st # "Free"
  /\ \A w \in Writer : \A i \in DOMAIN wr[w].md : wr[w].md[i].id = id => EndOf(wr[w].md[i]) <= hbid
BackSet == {p \in Nat \X Nat : GivenBack(p[1], p[2])}
TasksBack(q, B) == \A i \in DOMAIN q : q[i].kind = "return" => <<q[i].id, q[i].hbid>> \in B
BackInv ==
  /\ TasksBack(wq, BackSet) /\ TasksBack(sent, BackSet) /\ TasksBack(reps, BackSet)
  /\ nn.back \subseteq BackSet

SpaceInv == GrantInv /\ FreeInv /\ GivenInv /\ BackInv

(* A step leads onward: what is left of a grant only shrinks, what is given *)
(* is the start of a free chunk, and the answered grants stay.              *)
Ends(d, c) ==
  d.id = c.id /\ d.hbid >= c.hbid /\ EndOf(d) = EndOf(c) /\ (d.st = "Free" => c.st = "Free")
FsOnward == \A j \in DOMAIN fs' : fs'[j].id >= GrantOf \/ \E i \in DOMAIN fs : Ends(fs'[j], fs[i])
MdOnward ==
  \A w \in Writer : \A i \in DOMAIN wr'[w].md :
    \/ i \in DOMAIN wr[w].md /\ wr'[w].md[i] = wr[w].md[i]
    \/ \E j \in DOMAIN fs : PartOf(wr'[w].md[i], fs[j])
GrantOnward ==
  /\ GrantOf <= GrantOf'
  /\ \A i \in DOMAIN nn.grants : i \in DOMAIN nn'.grants /\ nn'.grants[i] = nn.grants[i]
SameMd == \A w \in Writer : wr'[w].md = wr[w].md

Typing ==
  /\ fs \in Seq(Chunk) /\ Distinct(fs) /\ \A i \in DOMAIN fs : fs[i] \in Chunk /\ fs[i].id < GrantOf
  /\ nn.grants \in Seq(Grant) /\ nn.upto \in Nat /\ nn.back \subseteq Nat \X Nat
  /\ GrantOf \in Int /\ GrantOf >= 1 /\ GrantOf <= Len(nn.grants) + 1 /\ Len(nn.grants) \in Nat
  /\ DOMAIN nn.grants = 1..Len(nn.grants) /\ \A i \in DOMAIN nn.grants : nn.grants[i] \in Grant
  /\ wr \in [Writer -> WriterRec]
  /\ \A w \in Writer : wr[w].md \in Seq(Unit) /\ \A i \in DOMAIN wr[w].md : wr[w].md[i] \in Unit

LEMMA SpaceTypes == TypeInv => Typing
<1> SUFFICES ASSUME TypeInv PROVE Typing
  OBVIOUS
<1>1. /\ fs \in Seq(Chunk) /\ Distinct(fs) /\ \A i \in DOMAIN fs : fs[i].id < GrantOf
      /\ nn.grants \in Seq(Grant) /\ nn.upto \in Nat /\ nn.back \subseteq Nat \X Nat
      /\ Preallocs(reps) <= Len(nn.grants) /\ reps \in Seq(Task)
  BY DEF TypeInv, PoolType, QueueType, NameNode
<1>2. wr \in [Writer -> WriterRec]
  BY DEF TypeInv, WriterType
<1>3. \A w \in Writer : wr[w].md \in Seq(Unit)
  BY <1>2 DEF WriterRec
<1>4. Preallocs(reps) \in Nat
  BY <1>1, PreallocsIsCnt
<1>5. Len(nn.grants) \in Nat /\ DOMAIN nn.grants = 1..Len(nn.grants)
  BY <1>1, LenProperties
<1>6. GrantOf \in Int /\ GrantOf >= 1 /\ GrantOf <= Len(nn.grants) + 1
  BY <1>1, <1>4, <1>5 DEF GrantOf
<1>7. \A i \in DOMAIN fs : fs[i] \in Chunk
  BY <1>1
<1>8. \A w \in Writer : \A i \in DOMAIN wr[w].md : wr[w].md[i] \in Unit
  BY <1>3
<1>9. \A i \in DOMAIN nn.grants : nn.grants[i] \in Grant
  BY <1>1, <1>5
<1> QED BY <1>1, <1>2, <1>3, <1>5, <1>6, <1>7, <1>8, <1>9 DEF Typing

LEMMA SpaceTypesNext == TypeInv' => Typing'
  BY SpaceTypes, PTL

LEMMA Bounds ==
  /\ \A c \in Chunk : c.id \in Nat /\ c.hbid \in Nat /\ c.len \in Nat /\ EndOf(c) \in Nat
  /\ \A u \in Unit : u.id \in Nat /\ u.hbid \in Nat /\ u.len \in Nat /\ EndOf(u) \in Nat
  /\ \A g \in Grant : g.hbid \in Nat /\ g.len \in Nat /\ EndOf(g) \in Nat
  BY DEF Chunk, Unit, Grant, EndOf

(* The ends given back stay good: no part of them is given any more.        *)
LEMMA BackGrows ==
  ASSUME TypeInv, TypeInv', FsOnward, MdOnward, GrantOnward
  PROVE  BackSet \subseteq BackSet'
<1> SUFFICES ASSUME NEW p \in Nat \X Nat, GivenBack(p[1], p[2]) PROVE p \in BackSet'
  BY DEF BackSet
<1>1. /\ p[1] \in 1..(GrantOf - 1) /\ p[2] >= nn.grants[p[1]].hbid
      /\ \A j \in DOMAIN fs : fs[j].id = p[1] => fs[j].st # "Free"
      /\ \A w \in Writer : \A i \in DOMAIN wr[w].md :
           wr[w].md[i].id = p[1] => EndOf(wr[w].md[i]) <= p[2]
  BY DEF GivenBack
<1>2. /\ GrantOf \in Int /\ GrantOf <= Len(nn.grants) + 1 /\ DOMAIN nn.grants = 1..Len(nn.grants)
      /\ Len(nn.grants) \in Nat
  BY SpaceTypes DEF Typing
<1>3. GrantOf' \in Int
  BY SpaceTypesNext DEF Typing
<1>4. p[1] \in 1..(GrantOf' - 1) /\ nn'.grants[p[1]] = nn.grants[p[1]]
  BY <1>1, <1>2, <1>3 DEF GrantOnward
<1>5. \A j \in DOMAIN fs' : fs'[j].id = p[1] => fs'[j].st # "Free"
  <2> SUFFICES ASSUME NEW j \in DOMAIN fs', fs'[j].id = p[1] PROVE fs'[j].st # "Free"
    OBVIOUS
  <2>1. ~(fs'[j].id >= GrantOf)
    BY <1>1, <1>2
  <2>2. PICK i \in DOMAIN fs : Ends(fs'[j], fs[i])
    BY <2>1 DEF FsOnward
  <2> QED BY <1>1, <2>2 DEF Ends
<1>6. \A w \in Writer : \A i \in DOMAIN wr'[w].md : wr'[w].md[i].id = p[1] => EndOf(wr'[w].md[i]) <= p[2]
  <2> SUFFICES ASSUME NEW w \in Writer, NEW i \in DOMAIN wr'[w].md, wr'[w].md[i].id = p[1]
               PROVE  EndOf(wr'[w].md[i]) <= p[2]
    OBVIOUS
  <2>1. ~\E j \in DOMAIN fs : PartOf(wr'[w].md[i], fs[j])
    BY <1>1 DEF PartOf
  <2>2. i \in DOMAIN wr[w].md /\ wr'[w].md[i] = wr[w].md[i]
    BY <2>1 DEF MdOnward
  <2> QED BY <1>1, <2>2
<1> QED BY <1>1, <1>4, <1>5, <1>6 DEF BackSet, GivenBack, EndOf

(* A part that was given stays so.                                          *)
LEMMA GivenStays ==
  ASSUME TypeInv, TypeInv', FsOnward, GrantOnward, NEW u \in Unit, GivenIn(u, nn.grants, fs, GrantOf)
  PROVE  GivenIn(u, nn'.grants, fs', GrantOf')
<1>1. /\ u.id \in 1..(GrantOf - 1) /\ u.hbid >= nn.grants[u.id].hbid
      /\ EndOf(u) <= EndOf(nn.grants[u.id])
      /\ \A j \in DOMAIN fs : fs[j].id = u.id => EndOf(u) <= fs[j].hbid
  BY DEF GivenIn
<1>2. /\ GrantOf \in Int /\ GrantOf <= Len(nn.grants) + 1 /\ DOMAIN nn.grants = 1..Len(nn.grants)
      /\ Len(nn.grants) \in Nat /\ \A i \in DOMAIN fs : fs[i] \in Chunk
  BY SpaceTypes DEF Typing
<1>3. GrantOf' \in Int /\ \A j \in DOMAIN fs' : fs'[j] \in Chunk
  BY SpaceTypesNext DEF Typing
<1>4. u.id \in 1..(GrantOf' - 1) /\ nn'.grants[u.id] = nn.grants[u.id]
  BY <1>1, <1>2, <1>3 DEF GrantOnward
<1>5. \A j \in DOMAIN fs' : fs'[j].id = u.id => EndOf(u) <= fs'[j].hbid
  <2> SUFFICES ASSUME NEW j \in DOMAIN fs', fs'[j].id = u.id PROVE EndOf(u) <= fs'[j].hbid
    OBVIOUS
  <2>1. ~(fs'[j].id >= GrantOf)
    BY <1>1, <1>2
  <2>2. PICK i \in DOMAIN fs : Ends(fs'[j], fs[i])
    BY <2>1 DEF FsOnward
  <2>3. EndOf(u) <= fs[i].hbid /\ fs[i].hbid <= fs'[j].hbid
    BY <1>1, <2>2 DEF Ends
  <2>4. EndOf(u) \in Nat /\ fs[i].hbid \in Nat /\ fs'[j].hbid \in Nat
    BY <1>2, <1>3, Bounds
  <2> QED BY <2>3, <2>4
<1> QED BY <1>1, <1>4, <1>5 DEF GivenIn

(* Parts of different grants do not overlap, whatever the free chunks are.  *)
LEMMA PartsApart ==
  ASSUME TypeInv, GrantInv, NEW u \in Unit, NEW v \in Unit, u.id # v.id,
         GivenIn(u, nn.grants, <<>>, GrantOf), GivenIn(v, nn.grants, <<>>, GrantOf)
  PROVE  Apart(u, v)
<1> DEFINE gu == nn.grants[u.id]
           gv == nn.grants[v.id]
<1>1. /\ GrantOf \in Int /\ GrantOf <= Len(nn.grants) + 1 /\ DOMAIN nn.grants = 1..Len(nn.grants)
      /\ Len(nn.grants) \in Nat /\ nn.grants \in Seq(Grant)
  BY SpaceTypes DEF Typing
<1>2. u.id \in DOMAIN nn.grants /\ v.id \in DOMAIN nn.grants
  BY <1>1 DEF GivenIn
<1>3. gu \in Grant /\ gv \in Grant
  BY <1>1, <1>2
<1>4. /\ u.hbid >= gu.hbid /\ EndOf(u) <= EndOf(gu)
      /\ v.hbid >= gv.hbid /\ EndOf(v) <= EndOf(gv)
  BY DEF GivenIn
<1>5. /\ EndOf(u) \in Nat /\ u.hbid \in Nat /\ EndOf(v) \in Nat /\ v.hbid \in Nat
      /\ EndOf(gu) \in Nat /\ gu.hbid \in Nat /\ EndOf(gv) \in Nat /\ gv.hbid \in Nat
      /\ u.id \in Nat /\ v.id \in Nat
  BY <1>3, Bounds
<1>6. EndOf(gu) <= gv.hbid \/ EndOf(gv) <= gu.hbid
  BY <1>2, <1>5 DEF GrantInv
<1> HIDE DEF gu, gv
<1> QED BY <1>4, <1>5, <1>6 DEF Apart

(* What is left after a step, and what was given, when nothing is given.    *)
LEMMA FreeStays ==
  ASSUME TypeInv, TypeInv', FreeInv, FsOnward, GrantOnward,
         \A j \in DOMAIN fs' : fs'[j].id >= GrantOf => LeftOf(fs'[j], nn'.grants)
  PROVE  FreeInv'
<1> SUFFICES ASSUME NEW j \in DOMAIN fs', ~(fs'[j].id >= GrantOf) PROVE LeftOf(fs'[j], nn'.grants)
  BY DEF FreeInv
<1>1. PICK i \in DOMAIN fs : Ends(fs'[j], fs[i])
  BY DEF FsOnward
<1>2. /\ GrantOf \in Int /\ GrantOf <= Len(nn.grants) + 1 /\ DOMAIN nn.grants = 1..Len(nn.grants)
      /\ Len(nn.grants) \in Nat /\ fs[i] \in Chunk /\ fs[i].id < GrantOf
      /\ \A k \in DOMAIN nn.grants : nn.grants[k] \in Grant
  BY SpaceTypes DEF Typing
<1>3. fs'[j] \in Chunk
  BY SpaceTypesNext DEF Typing
<1>4. LeftOf(fs[i], nn.grants)
  BY DEF FreeInv
<1>5. fs[i].id \in Nat /\ fs[i].hbid \in Nat /\ fs'[j].hbid \in Nat /\ fs[i].id >= 1
  BY <1>2, <1>3, <1>4, Bounds DEF LeftOf
<1>6. fs[i].id \in DOMAIN nn.grants
  BY <1>2, <1>5
<1>7. nn'.grants[fs[i].id] = nn.grants[fs[i].id] /\ nn.grants[fs[i].id].hbid \in Nat
  BY <1>2, <1>6, Bounds DEF GrantOnward
<1>8. fs'[j].id = fs[i].id /\ fs'[j].hbid >= fs[i].hbid /\ EndOf(fs'[j]) = EndOf(fs[i])
  BY <1>1 DEF Ends
<1> HIDE DEF FsOnward
<1> QED BY <1>4, <1>5, <1>7, <1>8 DEF LeftOf

LEMMA MdSame ==
  ASSUME SameMd PROVE MdOnward
  BY DEF SameMd, MdOnward

LEMMA GivenKept ==
  ASSUME TypeInv, TypeInv', GivenInv, FsOnward, SameMd, GrantOnward
  PROVE  GivenInv'
<1>1. \A w \in Writer : wr'[w].md = wr[w].md /\ \A i \in DOMAIN wr[w].md : wr[w].md[i] \in Unit
  BY SpaceTypes DEF SameMd, Typing
<1>2. \A w \in Writer : \A i \in DOMAIN wr'[w].md : GivenIn(wr'[w].md[i], nn'.grants, fs', GrantOf')
  <2> SUFFICES ASSUME NEW w \in Writer, NEW i \in DOMAIN wr'[w].md
               PROVE  GivenIn(wr'[w].md[i], nn'.grants, fs', GrantOf')
    OBVIOUS
  <2> DEFINE u == wr[w].md[i]
  <2>1. u = wr'[w].md[i] /\ u \in Unit /\ GivenIn(u, nn.grants, fs, GrantOf)
    BY <1>1 DEF GivenInv
  <2> HIDE DEF u
  <2>2. GivenIn(u, nn'.grants, fs', GrantOf')
    BY <2>1, GivenStays
  <2> QED BY <2>1, <2>2
<1>3. \A w, x \in Writer : \A i \in DOMAIN wr'[w].md, j \in DOMAIN wr'[x].md :
        w # x \/ i # j => Apart(wr'[w].md[i], wr'[x].md[j])
  BY <1>1 DEF GivenInv
<1> QED BY <1>2, <1>3 DEF GivenInv

LEMMA SpaceKept ==
  ASSUME TypeInv, TypeInv', SpaceInv, FsOnward, SameMd, GrantOnward, GrantInv',
         \A j \in DOMAIN fs' : fs'[j].id >= GrantOf => LeftOf(fs'[j], nn'.grants),
         BackSet \subseteq BackSet' => BackInv'
  PROVE  SpaceInv'
<1>1. FreeInv'
  BY FreeStays DEF SpaceInv
<1>2. GivenInv'
  BY GivenKept DEF SpaceInv
<1>3. BackSet \subseteq BackSet'
  BY MdSame, BackGrows
<1> QED BY <1>1, <1>2, <1>3 DEF SpaceInv

(* When the grants and the free chunks are left alone.                      *)
LEMMA FsSame ==
  ASSUME TypeInv, UNCHANGED fs
  PROVE  FsOnward /\ \A j \in DOMAIN fs' : ~(fs'[j].id >= GrantOf)
<1>1. GrantOf \in Int /\ \A i \in DOMAIN fs : fs[i] \in Chunk /\ fs[i].id < GrantOf
  BY SpaceTypes DEF Typing
<1>2. \A c \in Chunk : Ends(c, c) /\ c.id \in Nat
  BY Bounds DEF Ends
<1> QED BY <1>1, <1>2 DEF FsOnward

LEMMA GrantSame ==
  ASSUME TypeInv, GrantInv, nn'.grants = nn.grants, nn'.upto = nn.upto, GrantOf' = GrantOf
  PROVE  GrantOnward /\ GrantInv'
<1>1. GrantOf \in Int
  BY SpaceTypes DEF Typing
<1> QED BY <1>1 DEF GrantOnward, GrantInv

(* Tasks in the queues.                                                     *)
LEMMA BackMono ==
  ASSUME NEW q, NEW B, NEW D, B \subseteq D, TasksBack(q, B) PROVE TasksBack(q, D)
  BY DEF TasksBack

LEMMA BackCat ==
  ASSUME NEW s \in Seq(Task), NEW t \in Seq(Task), NEW B, TasksBack(s, B), TasksBack(t, B)
  PROVE  TasksBack(s \o t, B)
<1>1. \A j \in DOMAIN (s \o t) :
        \/ j \in DOMAIN s /\ (s \o t)[j] = s[j]
        \/ j - Len(s) \in DOMAIN t /\ (s \o t)[j] = t[j - Len(s)]
  BY CatFacts
<1> QED BY <1>1 DEF TasksBack

LEMMA BackAppend ==
  ASSUME NEW s \in Seq(Task), NEW e \in Task, NEW B, TasksBack(s, B),
         e.kind = "return" => <<e.id, e.hbid>> \in B
  PROVE  TasksBack(Append(s, e), B)
<1>1. \A j \in DOMAIN Append(s, e) :
        \/ j \in DOMAIN s /\ Append(s, e)[j] = s[j]
        \/ Append(s, e)[j] = e
  BY AppendFacts
<1> QED BY <1>1 DEF TasksBack

LEMMA BackTail ==
  ASSUME NEW s \in Seq(Task), s # <<>>, NEW B, TasksBack(s, B)
  PROVE  TasksBack(Tail(s), B) /\ (Head(s).kind = "return" => <<Head(s).id, Head(s).hbid>> \in B)
<1>1. /\ 1 \in DOMAIN s /\ s[1] = Head(s)
      /\ \A j \in DOMAIN Tail(s) : j + 1 \in DOMAIN s /\ Tail(s)[j] = s[j + 1]
  BY TailFacts
<1> QED BY <1>1 DEF TasksBack

LEMMA BackRemove ==
  ASSUME NEW s \in Seq(Task), NEW i \in DOMAIN s, NEW B, TasksBack(s, B)
  PROVE  TasksBack(RemoveAt(s, i), B) /\ (s[i].kind = "return" => <<s[i].id, s[i].hbid>> \in B)
<1>1. \A j \in DOMAIN RemoveAt(s, i) : \E m \in DOMAIN s : RemoveAt(s, i)[j] = s[m]
  BY RemoveFacts
<1> QED BY <1>1 DEF TasksBack

(* The steps that leave the queues alone, or only add to them.              *)
LEMMA BackQueuesSame ==
  ASSUME BackInv, UNCHANGED <<wq, sent, reps>>, nn'.back = nn.back, BackSet \subseteq BackSet'
  PROVE  BackInv'
  BY BackMono DEF BackInv

LEMMA SpaceIdle ==
  ASSUME TypeInv, TypeInv', SpaceInv, SameMd, UNCHANGED <<fs, nn, wq, sent, reps>>
  PROVE  SpaceInv'
<1>1. FsOnward /\ \A j \in DOMAIN fs' : ~(fs'[j].id >= GrantOf)
  BY FsSame
<1>2. GrantOnward /\ GrantInv'
  BY GrantSame DEF SpaceInv, GrantOf
<1>3. BackSet \subseteq BackSet' => BackInv'
  BY BackQueuesSame DEF SpaceInv
<1> QED BY <1>1, <1>2, <1>3, SpaceKept

LEMMA SpaceMoreTasks ==
  ASSUME TypeInv, TypeInv', SpaceInv, SameMd, UNCHANGED <<fs, nn, sent, reps>>,
         NEW q \in Seq(Task), \A i \in DOMAIN q : q[i].kind # "return", wq' = wq \o q
  PROVE  SpaceInv'
<1>1. FsOnward /\ \A j \in DOMAIN fs' : ~(fs'[j].id >= GrantOf)
  BY FsSame
<1>2. GrantOnward /\ GrantInv'
  BY GrantSame DEF SpaceInv, GrantOf
<1>3. BackSet \subseteq BackSet' => BackInv'
  <2> SUFFICES ASSUME BackSet \subseteq BackSet' PROVE BackInv'
    OBVIOUS
  <2>1. wq \in Seq(Task) /\ TasksBack(wq, BackSet) /\ TasksBack(q, BackSet)
    BY DEF SpaceInv, BackInv, TasksBack, TypeInv, QueueType
  <2>2. TasksBack(wq', BackSet)
    BY <2>1, BackCat
  <2> QED BY <2>2, BackMono DEF SpaceInv, BackInv
<1> QED BY <1>1, <1>2, <1>3, SpaceKept

LEMMA SpaceWorkerSends ==
  ASSUME TypeInv, TypeInv', SpaceInv, WorkerSends PROVE SpaceInv'
<1>1. /\ wq # <<>> /\ wq' = Tail(wq) /\ sent' = Append(sent, Head(wq))
      /\ UNCHANGED <<fs, nn, wr, reps>>
      /\ wq \in Seq(Task) /\ sent \in Seq(Task)
  BY DEF WorkerSends, discoC_send_fsReq, TypeInv, QueueType
<1>2. FsOnward /\ \A j \in DOMAIN fs' : ~(fs'[j].id >= GrantOf)
  BY <1>1, FsSame
<1>3. GrantOnward /\ GrantInv'
  BY <1>1, GrantSame DEF SpaceInv, GrantOf
<1>4. BackSet \subseteq BackSet' => BackInv'
  <2> SUFFICES ASSUME BackSet \subseteq BackSet' PROVE BackInv'
    OBVIOUS
  <2>1. /\ TasksBack(Tail(wq), BackSet)
        /\ Head(wq).kind = "return" => <<Head(wq).id, Head(wq).hbid>> \in BackSet
    BY <1>1, BackTail DEF SpaceInv, BackInv
  <2>2. Head(wq) \in Task /\ TasksBack(sent, BackSet)
    BY <1>1, TailFacts DEF SpaceInv, BackInv
  <2>3. TasksBack(sent', BackSet)
    BY <1>1, <2>1, <2>2, BackAppend
  <2> QED BY <1>1, <2>1, <2>3, BackMono DEF SpaceInv, BackInv
<1> QED BY <1>1, <1>2, <1>3, <1>4, SpaceKept DEF SameMd

LEMMA SpaceAckOther ==
  ASSUME TypeInv, TypeInv', SpaceInv, AckFlush \/ AckReturn PROVE SpaceInv'
<1>1. /\ reps # <<>> /\ Head(reps).kind # "prealloc" /\ reps' = Tail(reps)
      /\ UNCHANGED <<fs, nn, wr, wq, sent>>
  BY DEF AckFlush, AckReturn
<1>2. reps \in Seq(Task)
  BY DEF TypeInv, QueueType
<1>3. FsOnward /\ \A j \in DOMAIN fs' : ~(fs'[j].id >= GrantOf)
  BY <1>1, FsSame
<1>4. GrantOnward /\ GrantInv'
  BY <1>1, RepsTail, GrantSame DEF SpaceInv
<1>5. BackSet \subseteq BackSet' => BackInv'
  <2> SUFFICES ASSUME BackSet \subseteq BackSet' PROVE BackInv'
    OBVIOUS
  <2>1. TasksBack(reps', BackSet)
    BY <1>1, <1>2, BackTail DEF SpaceInv, BackInv
  <2> QED BY <1>1, <2>1, BackMono DEF SpaceInv, BackInv
<1> QED BY <1>1, <1>3, <1>4, <1>5, SpaceKept DEF SameMd

(* A preallocation's answer: the next grant's chunk joins the pool.         *)
LEMMA SpaceAckPrealloc ==
  ASSUME TypeInv, TypeInv', SpaceInv, AckPrealloc PROVE SpaceInv'
<1> DEFINE n == GrantOf
           c == fschunk_init_chunk(n, nn.grants[n])
<1>1. /\ reps # <<>> /\ Head(reps).kind = "prealloc" /\ reps' = Tail(reps)
      /\ UNCHANGED <<wr, wq, sent, nn>>
      /\ fs' = IF up THEN Append(fs, c) ELSE fs
  BY DEF AckPrealloc, _fspool_add_fschunk
<1>2. /\ reps \in Seq(Task) /\ fs \in Seq(Chunk) /\ n \in Int /\ n >= 1
      /\ Preallocs(reps) \in Nat /\ Len(nn.grants) \in Nat
      /\ \A i \in DOMAIN fs : fs[i] \in Chunk /\ fs[i].id < n
  BY SpaceTypes, PreallocsIsCnt DEF Typing, TypeInv, QueueType
<1>3. Preallocs(reps') = Preallocs(reps) - 1
  BY <1>1, <1>2, PreallocsTail DEF One
<1>4. GrantOf' = n + 1
  <2>1. n = Len(nn.grants) - Preallocs(reps) + 1 /\ GrantOf' = Len(nn.grants) - Preallocs(reps') + 1
    BY <1>1 DEF GrantOf
  <2> HIDE DEF n
  <2> QED BY <1>2, <1>3, <2>1
<1>5. c.id = n /\ c.hbid = nn.grants[n].hbid /\ EndOf(c) = EndOf(nn.grants[n])
  BY DEF fschunk_init_chunk, EndOf
<1> HIDE DEF c
<1>6. \A j \in DOMAIN fs' : fs'[j] = c \/ \E i \in DOMAIN fs : fs'[j] = fs[i]
  <2>1. CASE up
    <3>1. fs' = Append(fs, c)
      BY <1>1, <2>1
    <3>2. \A j \in DOMAIN fs' : fs'[j] \in Chunk
      BY SpaceTypesNext DEF Typing
    <3>3. \A j \in DOMAIN Append(fs, c) : j \in 1..Len(fs) \/ j = Len(fs) + 1
      BY <1>2
    <3>4. \A j \in DOMAIN Append(fs, c) :
            Append(fs, c)[j] = c \/ (j \in DOMAIN fs /\ Append(fs, c)[j] = fs[j])
      BY <1>2, <3>3
    <3> QED BY <3>1, <3>4
  <2>2. CASE ~up
    BY <1>1, <2>2
  <2> QED BY <2>1, <2>2
<1>7. FsOnward
  <2>1. \A d \in Chunk : Ends(d, d)
    BY Bounds DEF Ends
  <2> QED BY <1>2, <1>5, <1>6, <2>1 DEF FsOnward
<1>8. \A j \in DOMAIN fs' : fs'[j].id >= GrantOf => LeftOf(fs'[j], nn'.grants)
  <2>1. nn.grants[n].hbid >= nn.grants[n].hbid
    <3>2. n <= Len(nn.grants)
      <4>1. Preallocs(reps') \in Nat
        BY PreallocsIsCnt DEF TypeInv, QueueType
      <4> QED BY <1>2, <1>3, <4>1 DEF GrantOf
    <3>3. nn.grants[n] \in Grant
      BY <1>2, <3>2, SpaceTypes DEF Typing
    <3> QED BY <3>3, Bounds
  <2>2. \A i \in DOMAIN fs : ~(fs[i].id >= n)
    BY <1>2, Bounds
  <2>3. LeftOf(c, nn.grants)
    BY <1>2, <1>5, <2>1 DEF LeftOf
  <2> QED BY <1>1, <1>6, <2>2, <2>3
<1>9. GrantOnward /\ GrantInv'
  BY <1>1, <1>2, <1>4 DEF GrantOnward, SpaceInv, GrantInv
<1>10. BackSet \subseteq BackSet' => BackInv'
  <2> SUFFICES ASSUME BackSet \subseteq BackSet' PROVE BackInv'
    OBVIOUS
  <2>1. TasksBack(reps', BackSet)
    BY <1>1, <1>2, BackTail DEF SpaceInv, BackInv
  <2> QED BY <1>1, <2>1, BackMono DEF SpaceInv, BackInv
<1>11. SameMd
  BY <1>1 DEF SameMd
<1> QED BY <1>7, <1>8, <1>9, <1>10, <1>11, SpaceKept

(* The administrator's steps only change the states of chunks, or drop them. *)
LEMMA SpaceDrops ==
  ASSUME TypeInv, TypeInv', SpaceInv, SameMd, UNCHANGED <<nn, sent, reps>>,
         \A j \in DOMAIN fs' : \E i \in DOMAIN fs : Ends(fs'[j], fs[i]),
         TasksBack(wq', BackSet)
  PROVE  SpaceInv'
<1>1. FsOnward
  BY DEF FsOnward
<1>2. \A j \in DOMAIN fs' : ~(fs'[j].id >= GrantOf)
  <2>1. /\ GrantOf \in Int
        /\ \A i \in DOMAIN fs : fs[i] \in Chunk /\ fs[i].id < GrantOf
    BY SpaceTypes DEF Typing
  <2>2. \A i \in DOMAIN fs : ~(fs[i].id >= GrantOf)
    BY <2>1, Bounds
  <2> QED BY <2>2 DEF Ends
<1>3. GrantOnward /\ GrantInv'
  BY GrantSame DEF SpaceInv, GrantOf
<1>4. BackSet \subseteq BackSet' => BackInv'
  BY BackMono DEF SpaceInv, BackInv
<1> QED BY <1>1, <1>2, <1>3, <1>4, SpaceKept

LEMMA RestatedEnds ==
  ASSUME NEW c \in Chunk, NEW d, Restated(d, c), d.st = "Free" => c.st = "Free" PROVE Ends(d, c)
<1>1. c.hbid \in Nat
  BY Bounds
<1> QED BY <1>1 DEF Restated, Ends, EndOf

LEMMA SpaceAdmInval ==
  ASSUME TypeInv, TypeInv', SpaceInv, AdmInval PROVE SpaceInv'
<1>1. /\ fs' = [i \in DOMAIN fs |-> fschunk_invalidate_chunk(fs[i]).c]
      /\ UNCHANGED <<nn, sent, reps, wr, wq>>
  BY DEF AdmInval, _fspool_inval_pool_fschunk
<1>2. \A i \in DOMAIN fs : fs[i] \in Chunk
  BY SpaceTypes DEF Typing
<1>3. \A c \in Chunk : Ends(fschunk_invalidate_chunk(c).c, c)
  BY ChunkInval, RestatedEnds
<1>4. \A j \in DOMAIN fs' : \E i \in DOMAIN fs : Ends(fs'[j], fs[i])
  BY <1>1, <1>2, <1>3
<1>5. TasksBack(wq', BackSet) /\ SameMd
  BY <1>1 DEF SpaceInv, BackInv, SameMd
<1> QED BY <1>1, <1>4, <1>5, SpaceDrops

LEMMA SpaceAdmClean ==
  ASSUME TypeInv, TypeInv', SpaceInv, AdmClean PROVE SpaceInv'
<1> DEFINE S == {c \in ToSet(fs) : update_fschunk_state(c, "CleanSpace").act # "DO_Clean"}
<1>1. fs' = Among(fs, S) /\ UNCHANGED <<nn, sent, reps, wr, wq>>
  BY DEF AdmClean
<1> HIDE DEF S
<1>2. fs \in Seq(Chunk) /\ Distinct(fs) /\ \A i \in DOMAIN fs : fs[i] \in Chunk
  BY SpaceTypes DEF Typing
<1>3. \A j \in DOMAIN fs' : \E i \in DOMAIN fs : fs'[j] = fs[i]
  BY <1>1, <1>2, AmongChunks
<1>4. \A c \in Chunk : Ends(c, c)
  BY Bounds DEF Ends
<1>5. \A j \in DOMAIN fs' : \E i \in DOMAIN fs : Ends(fs'[j], fs[i])
  BY <1>2, <1>3, <1>4
<1>6. TasksBack(wq', BackSet) /\ SameMd
  BY <1>1 DEF SpaceInv, BackInv, SameMd
<1> QED BY <1>1, <1>5, <1>6, SpaceDrops

LEMMA SpaceFreePool ==
  ASSUME TypeInv, TypeInv', SpaceInv, fspool_free_pool PROVE SpaceInv'
<1>1. fs' = <<>> /\ UNCHANGED <<nn, sent, reps, wr, wq>>
  BY DEF fspool_free_pool
<1>2. TasksBack(wq', BackSet) /\ SameMd
  BY <1>1 DEF SpaceInv, BackInv, SameMd
<1>3. \A j \in DOMAIN fs' : \E i \in DOMAIN fs : Ends(fs'[j], fs[i])
  BY <1>1
<1> QED BY <1>1, <1>2, <1>3, SpaceDrops

(* An invalidated chunk may be given back.                                  *)
LEMMA InvalBack ==
  ASSUME TypeInv, SpaceInv, NEW j \in DOMAIN fs, fs[j].st # "Free"
  PROVE  <<fs[j].id, fs[j].hbid>> \in BackSet
<1>1. /\ fs[j] \in Chunk /\ fs[j].id < GrantOf /\ GrantOf \in Int /\ Distinct(fs)
      /\ LeftOf(fs[j], nn.grants)
  BY SpaceTypes DEF Typing, SpaceInv, FreeInv
<1>2. fs[j].id \in Nat /\ fs[j].hbid \in Nat
  BY <1>1, Bounds
<1>3. fs[j].id \in 1..(GrantOf - 1) /\ fs[j].hbid >= nn.grants[fs[j].id].hbid
  BY <1>1, <1>2 DEF LeftOf
<1>4. \A i \in DOMAIN fs : fs[i].id = fs[j].id => fs[i].st # "Free"
  BY <1>1 DEF Distinct
<1>5. \A w \in Writer : \A i \in DOMAIN wr[w].md :
        wr[w].md[i].id = fs[j].id => EndOf(wr[w].md[i]) <= fs[j].hbid
  BY DEF SpaceInv, GivenInv, GivenIn
<1>6. GivenBack(fs[j].id, fs[j].hbid)
  BY <1>3, <1>4, <1>5 DEF GivenBack
<1> QED BY <1>2, <1>6 DEF BackSet

LEMMA SpaceAdmUnuse ==
  ASSUME TypeInv, TypeInv', SpaceInv, AdmUnuse PROVE SpaceInv'
<1> DEFINE S == {c \in ToSet(fs) : update_fschunk_state(c, "ReportFree").act = "DO_Report"}
           rep == Among(fs, S)
           tasks == [i \in DOMAIN rep |-> ReturnTask(rep[i], "adm")]
<1>1. /\ fs' = [i \in DOMAIN fs |-> update_fschunk_state(fs[i], "ReportFree").c]
      /\ wq' = wq \o tasks
      /\ UNCHANGED <<nn, sent, reps, wr>>
  BY DEF AdmUnuse
<1>2. fs \in Seq(Chunk) /\ Distinct(fs) /\ \A i \in DOMAIN fs : fs[i] \in Chunk
  BY SpaceTypes DEF Typing
<1>3. \A i \in DOMAIN fs : fs[i] \in S => fs[i].st = "Invalidated"
  BY <1>2, ChunkReport
<1> HIDE DEF S
<1>4. /\ rep \in Seq(Chunk)
      /\ \A i \in DOMAIN rep : \E j \in DOMAIN fs : rep[i] = fs[j] /\ fs[j] \in S
  BY <1>2, AmongChunks
<1> HIDE DEF rep
<1>5. \A i \in DOMAIN tasks : <<tasks[i].id, tasks[i].hbid>> \in BackSet
  <2> SUFFICES ASSUME NEW i \in DOMAIN rep PROVE <<tasks[i].id, tasks[i].hbid>> \in BackSet
    OBVIOUS
  <2>1. PICK j \in DOMAIN fs : rep[i] = fs[j] /\ fs[j] \in S
    BY <1>4
  <2>2. tasks[i].id = fs[j].id /\ tasks[i].hbid = fs[j].hbid
    BY <2>1 DEF ReturnTask
  <2>3. fs[j].st # "Free"
    BY <1>3, <2>1
  <2>4. <<fs[j].id, fs[j].hbid>> \in BackSet
    BY <2>3, InvalBack
  <2> HIDE DEF tasks
  <2> QED BY <2>2, <2>4
<1>6. tasks \in Seq(Task)
  BY <1>4, ReturnTasks
<1> HIDE DEF tasks
<1>7. TasksBack(wq', BackSet)
  <2>1. wq \in Seq(Task) /\ TasksBack(wq, BackSet)
    BY DEF TypeInv, QueueType, SpaceInv, BackInv
  <2>2. TasksBack(tasks, BackSet)
    BY <1>5 DEF TasksBack
  <2> QED BY <1>1, <1>6, <2>1, <2>2, BackCat
<1>8. \A c \in Chunk : Ends(update_fschunk_state(c, "ReportFree").c, c)
  BY ChunkReport, RestatedEnds
<1>9. \A j \in DOMAIN fs' : \E i \in DOMAIN fs : Ends(fs'[j], fs[i])
  BY <1>1, <1>2, <1>8
<1> QED BY <1>1, <1>7, <1>9, SpaceDrops DEF SameMd

(* The namenode answers: a new grant starts where the last one ended, and   *)
(* an end is given back.                                                    *)
LEMMA SpaceNNAnswers ==
  ASSUME TypeInv, TypeInv', SpaceInv, NNAnswers PROVE SpaceInv'
<1>1. PICK i \in DOMAIN sent, x \in 0..Extra :
        /\ sent' = RemoveAt(sent, i) /\ reps' = Append(reps, sent[i])
        /\ nn' = CASE sent[i].kind = "prealloc" ->
                        [nn EXCEPT !.grants = Append(@, [len |-> sent[i].len + x, off |-> nn.upto,
                                                         hbid |-> 1 + nn.upto]),
                                   !.upto = @ + sent[i].len + x]
                   [] sent[i].kind = "flush" -> [nn EXCEPT !.told = @ \cup {sent[i].u}]
                   [] sent[i].kind = "return" -> [nn EXCEPT !.back = @ \cup {<<sent[i].id, sent[i].hbid>>}]
        /\ UNCHANGED <<fs, wr, wq>>
  BY DEF NNAnswers
<1> DEFINE k == sent[i]
           g == [len |-> k.len + x, off |-> nn.upto, hbid |-> 1 + nn.upto]
<1>2. /\ sent \in Seq(Task) /\ reps \in Seq(Task) /\ nn \in NameNode
      /\ nn.grants \in Seq(Grant) /\ nn.upto \in Nat /\ Len(nn.grants) \in Nat
      /\ DOMAIN nn.grants = 1..Len(nn.grants) /\ Preallocs(reps) \in Nat
      /\ \A j \in DOMAIN nn.grants : nn.grants[j] \in Grant
  BY SpaceTypes, PreallocsIsCnt DEF Typing, TypeInv, QueueType
<1>3. k \in Task /\ Preallocs(reps') = Preallocs(reps) + One(k)
  BY <1>1, <1>2, PreallocsAppend
<1>4. k.kind \in {"prealloc", "flush", "return"}
  BY <1>3 DEF Task
<1>5. /\ GrantOnward /\ GrantInv'
      /\ nn'.back = IF k.kind = "return" THEN nn.back \cup {<<k.id, k.hbid>>} ELSE nn.back
  <2>1. CASE k.kind = "prealloc"
    <3>1. nn' = [nn EXCEPT !.grants = Append(@, g), !.upto = @ + k.len + x]
      BY <1>1, <2>1
    <3>2. k.len \in Nat /\ x \in Nat
      BY <1>3, <2>1, SpaceAssumption DEF Task
    <3>3. g \in Grant /\ g.hbid = 1 + nn.upto /\ g.hbid >= 1 /\ EndOf(g) = 1 + (nn.upto + k.len + x)
      <4>1. nn.upto \in Nat /\ k.len + x \in Nat
        BY <1>2, <3>2
      <4>2. g.hbid = 1 + nn.upto /\ g.len = k.len + x /\ g.off = nn.upto
        OBVIOUS
      <4>3. g \in Grant
        BY <4>1 DEF Grant
      <4> HIDE DEF g, k
      <4>4. g.hbid >= 1 /\ EndOf(g) = 1 + (nn.upto + k.len + x)
        BY <4>1, <4>2, <3>2 DEF EndOf
      <4> QED
        BY <4>2, <4>3, <4>4
    <3>4. /\ nn'.grants = Append(nn.grants, g) /\ nn'.upto = nn.upto + k.len + x /\ nn'.back = nn.back
      BY <1>2, <3>1 DEF NameNode
    <3> HIDE DEF g, k
    <3>5. /\ Len(nn'.grants) = Len(nn.grants) + 1
          /\ \A j \in DOMAIN nn.grants : j \in DOMAIN nn'.grants /\ nn'.grants[j] = nn.grants[j]
          /\ nn'.grants[Len(nn.grants) + 1] = g
          /\ \A j \in DOMAIN nn'.grants : j \in DOMAIN nn.grants \/ j = Len(nn.grants) + 1
      <4>1. Len(Append(nn.grants, g)) = Len(nn.grants) + 1
        BY <1>2, <3>3
      <4> QED BY <1>2, <3>3, <3>4, <4>1, AppendFacts
    <3>6. GrantOf' = GrantOf
      <4>1. GrantOf = Len(nn.grants) - Preallocs(reps) + 1
        BY DEF GrantOf
      <4>2. GrantOf' = Len(nn'.grants) - Preallocs(reps') + 1
        BY DEF GrantOf
      <4>3. Preallocs(reps') = Preallocs(reps) + 1
        BY <1>3, <2>1 DEF One
      <4> QED BY <1>2, <3>5, <4>1, <4>2, <4>3
    <3>7. GrantOf \in Int
      BY SpaceTypes DEF Typing
    <3>8. \A j \in DOMAIN nn'.grants : nn'.grants[j].hbid >= 1 /\ EndOf(nn'.grants[j]) <= 1 + nn'.upto
      <4>1. \A j \in DOMAIN nn.grants : nn.grants[j].hbid >= 1 /\ EndOf(nn.grants[j]) <= 1 + nn'.upto
        <5>1. \A j \in DOMAIN nn.grants : EndOf(nn.grants[j]) \in Nat
          BY <1>2, Bounds
        <5> QED BY <1>2, <3>2, <3>4, <5>1 DEF SpaceInv, GrantInv
      <4>2. g.hbid >= 1 /\ EndOf(g) <= 1 + nn'.upto
        BY <1>2, <3>2, <3>3, <3>4
      <4> QED BY <3>5, <4>1, <4>2
    <3>9. \A a, b \in DOMAIN nn'.grants : a < b => EndOf(nn'.grants[a]) <= nn'.grants[b].hbid
      <4> SUFFICES ASSUME NEW a \in DOMAIN nn'.grants, NEW b \in DOMAIN nn'.grants, a < b
                   PROVE  EndOf(nn'.grants[a]) <= nn'.grants[b].hbid
        OBVIOUS
      <4>1. a \in DOMAIN nn.grants
        BY <1>2, <3>5
      <4>2. CASE b \in DOMAIN nn.grants
        BY <3>5, <4>1, <4>2 DEF SpaceInv, GrantInv
      <4>3. CASE b = Len(nn.grants) + 1
        BY <3>3, <3>5, <4>1, <4>3 DEF SpaceInv, GrantInv
      <4> QED BY <3>5, <4>2, <4>3
    <3>10. GrantOnward
      BY <3>5, <3>6, <3>7 DEF GrantOnward
    <3>11. GrantInv'
      BY <3>8, <3>9 DEF GrantInv
    <3> QED BY <2>1, <3>4, <3>10, <3>11
  <2>2. CASE k.kind # "prealloc"
    <3>1. /\ nn'.grants = nn.grants /\ nn'.upto = nn.upto
          /\ nn'.back = IF k.kind = "return" THEN nn.back \cup {<<k.id, k.hbid>>} ELSE nn.back
      <4>1. CASE k.kind = "flush"
        <5>1. nn' = [nn EXCEPT !.told = @ \cup {k.u}]
          BY <1>1, <4>1
        <5> HIDE DEF k
        <5> QED BY <1>2, <4>1, <5>1 DEF NameNode
      <4>2. CASE k.kind = "return"
        <5>1. nn' = [nn EXCEPT !.back = @ \cup {<<k.id, k.hbid>>}]
          BY <1>1, <4>2
        <5> HIDE DEF k
        <5> QED BY <1>2, <4>2, <5>1 DEF NameNode
      <4> QED BY <1>4, <2>2, <4>1, <4>2
    <3>2. GrantOf' = GrantOf
      <4>1. Preallocs(reps') = Preallocs(reps)
        BY <1>2, <1>3, <2>2 DEF One
      <4> QED BY <3>1, <4>1 DEF GrantOf
    <3> QED BY <3>1, <3>2, GrantSame DEF SpaceInv
  <2> QED BY <2>1, <2>2
<1> HIDE DEF k
<1>6. FsOnward /\ \A j \in DOMAIN fs' : ~(fs'[j].id >= GrantOf)
  BY <1>1, FsSame
<1>7. BackSet \subseteq BackSet' => BackInv'
  <2> SUFFICES ASSUME BackSet \subseteq BackSet' PROVE BackInv'
    OBVIOUS
  <2>1. /\ TasksBack(sent', BackSet)
        /\ k.kind = "return" => <<k.id, k.hbid>> \in BackSet
    BY <1>1, <1>2, BackRemove DEF SpaceInv, BackInv, k
  <2>2. TasksBack(reps', BackSet)
    <3>1. reps' = Append(reps, k) /\ TasksBack(reps, BackSet)
      BY <1>1 DEF k, SpaceInv, BackInv
    <3> QED BY <1>2, <1>3, <2>1, <3>1, BackAppend
  <2>3. nn'.back \subseteq BackSet
    BY <1>5, <2>1 DEF SpaceInv, BackInv
  <2> QED BY <1>1, <2>1, <2>2, <2>3, BackMono DEF SpaceInv, BackInv
<1>8. SameMd
  BY <1>1 DEF SameMd
<1> QED BY <1>5, <1>6, <1>7, <1>8, SpaceKept

(* The tasks a turn adds: flushes, and a preallocation.                     *)
Queues(t, q, more) ==
  /\ wq' = wq \o q /\ \A i \in DOMAIN q : q[i].kind # "return"
  /\ q = t.tasks \o more /\ \A i \in DOMAIN more : more[i].kind = "prealloc"

LEMMA NewTasks ==
  ASSUME TypeInv, NEW w \in Writer, NEW loc \in TurnLoc, NEW t, Turned(t, loc, w),
         ioSReq_alloc_freeSpace(w, t)
  PROVE  \E q, more \in Seq(Task) : Queues(t, q, more)
<1> DEFINE more == IF ~t.again /\ t.loc.ret = "NOSPACE" THEN <<PreallocTask(Len_[w], TRUE)>> ELSE <<>>
           q == t.tasks \o more
<1>1. /\ t.tasks \in Seq(Task) /\ wq \in Seq(Task)
      /\ \A i \in DOMAIN t.tasks : t.tasks[i].kind = "flush"
  BY DEF Turned, Turn, TypeInv, QueueType
<1>2. wq' = (wq \o t.tasks) \o more
  BY DEF ioSReq_alloc_freeSpace
<1>3. more \in Seq(Task) /\ \A i \in DOMAIN more : more[i].kind = "prealloc"
  <2>1. Len_[w] \in Nat
    BY SpaceAssumption
  <2> DEFINE k == PreallocTask(Len_[w], TRUE)
  <2>2. k \in Task /\ k.kind = "prealloc"
    BY <2>1, AskTask
  <2>3. more = <<k>> \/ more = <<>>
    OBVIOUS
  <2> HIDE DEF k, more
  <2>4. CASE more = <<k>>
    <3>1. more \in Seq(Task) /\ DOMAIN more = {1} /\ more[1] = k
      BY ONLY <2>2, <2>4
    <3> QED BY <2>2, <3>1
  <2>5. CASE more = <<>>
    BY ONLY <2>5
  <2> QED BY <2>3, <2>4, <2>5
<1> HIDE DEF more
<1>4. wq' = wq \o q /\ q \in Seq(Task)
  <2>1. (wq \o t.tasks) \o more = wq \o (t.tasks \o more)
    <3> DEFINE a == t.tasks
    <3>1. wq \in Seq(Task) /\ a \in Seq(Task) /\ more \in Seq(Task)
      BY <1>1, <1>3
    <3> HIDE DEF a
    <3>2. (wq \o a) \o more = wq \o (a \o more)
      BY ONLY <3>1, ConcatAssociative
    <3> QED BY <3>2 DEF a
  <2> QED BY <1>1, <1>2, <1>3, <2>1, CatFacts
<1>5. \A i \in DOMAIN q : q[i].kind # "return"
  <2>1. \A j \in DOMAIN q :
          \/ j \in DOMAIN t.tasks /\ q[j] = t.tasks[j]
          \/ j - Len(t.tasks) \in DOMAIN more /\ q[j] = more[j - Len(t.tasks)]
    BY <1>1, <1>3, CatFacts
  <2> HIDE DEF q
  <2> QED BY <1>1, <1>3, <2>1
<1>6. q = t.tasks \o more
  OBVIOUS
<1> HIDE DEF q
<1>7. Queues(t, q, more)
  BY <1>3, <1>4, <1>5, <1>6 DEF Queues
<1> QED BY <1>3, <1>4, <1>7

(* A turn of the allocation: the parts it gives are the starts of free      *)
(* chunks, before what is left of them.                                     *)
LEMMA SpaceTurn ==
  ASSUME TypeInv, TypeInv', SpaceInv, NEW w \in Writer, NEW loc \in TurnLoc, NEW t,
         Turned(t, loc, w), ioSReq_alloc_freeSpace(w, t), UNCHANGED <<nn, sent, reps>>
  PROVE  SpaceInv'
<1>1. /\ fs' = t.fs /\ t.us \in Seq(Unit) /\ t.fs \in Seq(Chunk) /\ Walked(t, fs, Len(fs))
      /\ t.tasks \in Seq(Task)
      /\ \A i \in DOMAIN t.tasks : t.tasks[i].kind = "flush"
  BY DEF ioSReq_alloc_freeSpace, Turned, Turn
<1>2. wr'[w].md = wr[w].md \o t.us /\ \A x \in Writer : x # w => wr'[x] = wr[x]
  BY AllocEffect
<1>3. /\ fs \in Seq(Chunk) /\ DOMAIN fs = 1..Len(fs) /\ \A i \in DOMAIN fs : fs[i] \in Chunk /\ fs[i].id < GrantOf
      /\ GrantOf \in Int /\ \A x \in Writer : wr[x].md \in Seq(Unit)
  BY SpaceTypes DEF Typing
<1>4. /\ \A j \in DOMAIN fs' : \E i \in DOMAIN fs : Remains(fs'[j], fs[i])
      /\ \A i \in DOMAIN t.us : \E j \in DOMAIN fs : PartOf(t.us[i], fs[j])
      /\ Distinct(t.us)
      /\ \A i \in DOMAIN t.us, j \in DOMAIN fs' :
           t.us[i].id = fs'[j].id => EndOf(t.us[i]) = fs'[j].hbid
  BY <1>1, <1>3 DEF Walked
<1>5. FsOnward /\ \A j \in DOMAIN fs' : ~(fs'[j].id >= GrantOf)
  <2>1. \A j \in DOMAIN fs' : \E i \in DOMAIN fs : Ends(fs'[j], fs[i])
    BY <1>4 DEF Remains, Ends
  <2>2. \A i \in DOMAIN fs : ~(fs[i].id >= GrantOf)
    BY <1>3, Bounds
  <2> QED BY <2>1, <2>2 DEF FsOnward, Ends
<1>6. GrantOnward /\ GrantInv'
  BY GrantSame DEF SpaceInv, GrantOf
<1>7. FreeInv'
  BY <1>5, <1>6, FreeStays DEF SpaceInv
<1>8. /\ \A i \in DOMAIN wr[w].md : i \in DOMAIN wr'[w].md /\ wr'[w].md[i] = wr[w].md[i]
      /\ \A i \in DOMAIN wr'[w].md : i \notin DOMAIN wr[w].md =>
           i - Len(wr[w].md) \in DOMAIN t.us /\ wr'[w].md[i] = t.us[i - Len(wr[w].md)]
      /\ Len(wr[w].md) \in Nat
  <2>1. wr[w].md \in Seq(Unit) /\ t.us \in Seq(Unit)
    BY <1>1, <1>3
  <2> DEFINE md == wr[w].md
             us == t.us
  <2>2. md \in Seq(Unit) /\ us \in Seq(Unit) /\ wr'[w].md = md \o us
    BY <1>2, <2>1
  <2> HIDE DEF md, us
  <2>3. /\ \A j \in DOMAIN md : j \in DOMAIN (md \o us) /\ (md \o us)[j] = md[j]
        /\ \A j \in DOMAIN (md \o us) : j \notin DOMAIN md =>
             j - Len(md) \in DOMAIN us /\ (md \o us)[j] = us[j - Len(md)]
        /\ Len(md) \in Nat
    BY ONLY <2>2, CatFacts
  <2> QED BY ONLY <2>2, <2>3 DEF md, us
<1>9. \A i \in DOMAIN wr'[w].md : i \in Int
  BY SpaceTypesNext DEF Typing
<1>10. MdOnward
  <2> SUFFICES ASSUME NEW x \in Writer, NEW i \in DOMAIN wr'[x].md
               PROVE  \/ i \in DOMAIN wr[x].md /\ wr'[x].md[i] = wr[x].md[i]
                      \/ \E j \in DOMAIN fs : PartOf(wr'[x].md[i], fs[j])
    BY DEF MdOnward
  <2>1. CASE x # w
    BY <1>2, <2>1
  <2>2. CASE x = w
    BY <1>4, <1>8, <2>2
  <2> QED BY <2>1, <2>2
<1>11. BackSet \subseteq BackSet'
  BY <1>5, <1>6, <1>10, BackGrows
<1>12. \A i \in DOMAIN t.us : t.us[i] \in Unit /\ GivenIn(t.us[i], nn'.grants, fs', GrantOf')
  <2> SUFFICES ASSUME NEW i \in DOMAIN t.us
               PROVE  t.us[i] \in Unit /\ GivenIn(t.us[i], nn'.grants, fs', GrantOf')
    OBVIOUS
  <2> DEFINE u == t.us[i]
  <2>1. PICK j \in DOMAIN fs : PartOf(u, fs[j])
    BY <1>4
  <2>2. u \in Unit
    BY <1>1
  <2>3. LeftOf(fs[j], nn.grants) /\ fs[j] \in Chunk /\ fs[j].id < GrantOf
    BY <1>3 DEF SpaceInv, FreeInv
  <2>4. \A m \in DOMAIN fs' : fs'[m].id = u.id => EndOf(u) <= fs'[m].hbid
    <3>1. \A m \in DOMAIN fs' : fs'[m].id = u.id => EndOf(u) = fs'[m].hbid
      BY <1>4
    <3>2. EndOf(u) \in Nat
      BY <2>2, Bounds
    <3> HIDE DEF u
    <3> QED BY <3>1, <3>2
  <2> HIDE DEF u
  <2>5. u.id \in 1..(GrantOf - 1)
    BY <1>3, <2>1, <2>2, <2>3, Bounds DEF PartOf, LeftOf
  <2>6. u.hbid >= nn.grants[u.id].hbid /\ EndOf(u) <= EndOf(nn.grants[u.id])
    BY <2>1, <2>3 DEF PartOf, LeftOf
  <2>7. nn'.grants = nn.grants /\ GrantOf' = GrantOf
    BY DEF GrantOf
  <2>8. GivenIn(u, nn'.grants, fs', GrantOf')
    BY <2>4, <2>5, <2>6, <2>7 DEF GivenIn
  <2> QED BY <2>2, <2>8 DEF u
<1>13. \A x \in Writer : \A i \in DOMAIN wr[x].md :
         /\ wr[x].md[i] \in Unit /\ GivenIn(wr[x].md[i], nn.grants, fs, GrantOf)
         /\ GivenIn(wr[x].md[i], nn'.grants, fs', GrantOf')
  <2> SUFFICES ASSUME NEW x \in Writer, NEW i \in DOMAIN wr[x].md
               PROVE  /\ wr[x].md[i] \in Unit /\ GivenIn(wr[x].md[i], nn.grants, fs, GrantOf)
                      /\ GivenIn(wr[x].md[i], nn'.grants, fs', GrantOf')
    OBVIOUS
  <2>1. wr[x].md[i] \in Unit /\ GivenIn(wr[x].md[i], nn.grants, fs, GrantOf)
    BY SpaceTypes DEF Typing, SpaceInv, GivenInv
  <2> QED BY <1>5, <1>6, <2>1, GivenStays
<1>14. \A x \in Writer : \A i \in DOMAIN wr'[x].md : GivenIn(wr'[x].md[i], nn'.grants, fs', GrantOf')
  <2> SUFFICES ASSUME NEW x \in Writer, NEW i \in DOMAIN wr'[x].md
               PROVE  GivenIn(wr'[x].md[i], nn'.grants, fs', GrantOf')
    OBVIOUS
  <2>1. CASE i \in DOMAIN wr[x].md /\ wr'[x].md[i] = wr[x].md[i]
    BY <1>13, <2>1
  <2>2. CASE ~(i \in DOMAIN wr[x].md /\ wr'[x].md[i] = wr[x].md[i])
    <3>1. x = w /\ i \notin DOMAIN wr[w].md
      BY <1>2, <1>8, <2>2
    <3> QED BY <1>8, <1>12, <3>1
  <2> QED BY <2>1, <2>2
(* A new part is apart from every part given before and from the other new ones. *)
<1>15. \A i \in DOMAIN t.us : \A x \in Writer : \A j \in DOMAIN wr[x].md :
         Apart(t.us[i], wr[x].md[j]) /\ Apart(wr[x].md[j], t.us[i])
  <2> SUFFICES ASSUME NEW i \in DOMAIN t.us, NEW x \in Writer, NEW j \in DOMAIN wr[x].md
               PROVE  Apart(t.us[i], wr[x].md[j])
    BY DEF Apart
  <2> DEFINE u == t.us[i]
             v == wr[x].md[j]
  <2>1. /\ u \in Unit /\ v \in Unit /\ GivenIn(v, nn.grants, fs, GrantOf)
        /\ GivenIn(v, nn'.grants, fs', GrantOf') /\ GivenIn(u, nn'.grants, fs', GrantOf')
    BY <1>12, <1>13
  <2>2. PICK m \in DOMAIN fs : PartOf(u, fs[m])
    BY <1>4
  <2> HIDE DEF u, v
  <2>3. CASE u.id = v.id
    <3>1. fs[m].id = v.id /\ u.hbid = fs[m].hbid
      BY <2>2, <2>3 DEF PartOf
    <3>2. EndOf(v) <= fs[m].hbid
      BY <2>1, <3>1 DEF GivenIn
    <3> QED BY <3>1, <3>2 DEF Apart, u, v
  <2>4. CASE u.id # v.id
    <3>1. /\ TypeInv' /\ GrantInv'
          /\ (TypeInv' /\ GrantInv' /\ u.id # v.id => Apart(u, v))
      <4>1. nn'.grants = nn.grants /\ GrantOf' = GrantOf
        BY DEF GrantOf
      <4>2. PICK n \in DOMAIN fs : PartOf(u, fs[n])
        BY <2>2
      <4>3. GivenIn(u, nn.grants, <<>>, GrantOf) /\ GivenIn(v, nn.grants, <<>>, GrantOf)
        BY <2>1, <4>1 DEF GivenIn
      <4> QED BY <1>6, <2>1, <4>3, PartsApart DEF SpaceInv
    <3> QED BY <2>4, <3>1 DEF u, v
  <2> QED BY <2>3, <2>4
<1>16. \A i, j \in DOMAIN t.us : i # j => Apart(t.us[i], t.us[j])
  <2> SUFFICES ASSUME NEW i \in DOMAIN t.us, NEW j \in DOMAIN t.us, i # j
               PROVE  Apart(t.us[i], t.us[j])
    OBVIOUS
  <2> DEFINE u == t.us[i]
             v == t.us[j]
  <2>1. /\ u \in Unit /\ v \in Unit /\ u.id # v.id
        /\ GivenIn(v, nn'.grants, fs', GrantOf') /\ GivenIn(u, nn'.grants, fs', GrantOf')
    BY <1>4, <1>12 DEF Distinct
  <2> HIDE DEF u, v
  <2>2. nn'.grants = nn.grants /\ GrantOf' = GrantOf
    BY DEF GrantOf
  <2>3. GivenIn(u, nn.grants, <<>>, GrantOf) /\ GivenIn(v, nn.grants, <<>>, GrantOf)
    BY <2>1, <2>2 DEF GivenIn
  <2>4. Apart(u, v)
    BY <2>1, <2>3, PartsApart DEF SpaceInv
  <2> QED BY <2>4 DEF u, v
<1>17. \A x, y \in Writer : \A i \in DOMAIN wr'[x].md, j \in DOMAIN wr'[y].md :
         x # y \/ i # j => Apart(wr'[x].md[i], wr'[y].md[j])
  <2> SUFFICES ASSUME NEW x \in Writer, NEW y \in Writer, NEW i \in DOMAIN wr'[x].md,
                      NEW j \in DOMAIN wr'[y].md, x # y \/ i # j
               PROVE  Apart(wr'[x].md[i], wr'[y].md[j])
    OBVIOUS
  <2>1. \/ i \in DOMAIN wr[x].md /\ wr'[x].md[i] = wr[x].md[i]
        \/ x = w /\ i - Len(wr[w].md) \in DOMAIN t.us /\ wr'[x].md[i] = t.us[i - Len(wr[w].md)]
    BY <1>2, <1>8
  <2>2. \/ j \in DOMAIN wr[y].md /\ wr'[y].md[j] = wr[y].md[j]
        \/ y = w /\ j - Len(wr[w].md) \in DOMAIN t.us /\ wr'[y].md[j] = t.us[j - Len(wr[w].md)]
    BY <1>2, <1>8
  <2>3. CASE i \in DOMAIN wr[x].md /\ wr'[x].md[i] = wr[x].md[i]
    <3>1. CASE j \in DOMAIN wr[y].md /\ wr'[y].md[j] = wr[y].md[j]
      BY <2>3, <3>1 DEF SpaceInv, GivenInv
    <3> QED BY <1>15, <2>2, <2>3, <3>1
  <2>4. CASE x = w /\ i - Len(wr[w].md) \in DOMAIN t.us /\ wr'[x].md[i] = t.us[i - Len(wr[w].md)]
    <3>1. CASE j \in DOMAIN wr[y].md /\ wr'[y].md[j] = wr[y].md[j]
      BY <1>15, <2>4, <3>1
    <3>2. CASE y = w /\ j - Len(wr[w].md) \in DOMAIN t.us /\ wr'[y].md[j] = t.us[j - Len(wr[w].md)]
      <4>1. i # j /\ i \in Int /\ j \in Int
        BY <1>9, <2>4, <3>2
      <4>2. i - Len(wr[w].md) # j - Len(wr[w].md)
        BY <1>8, <4>1
      <4> QED BY <1>16, <2>4, <3>2, <4>2
    <3> QED BY <2>2, <3>1, <3>2
  <2> QED BY <2>1, <2>3, <2>4
<1>18. GivenInv'
  BY <1>14, <1>17 DEF GivenInv
<1>19. BackInv'
  <2>0. PICK q, more \in Seq(Task) : Queues(t, q, more)
    BY NewTasks
  <2>1. wq' = wq \o q /\ \A i \in DOMAIN q : q[i].kind # "return"
    BY <2>0 DEF Queues
  <2>2. wq \in Seq(Task) /\ TasksBack(wq, BackSet) /\ TasksBack(q, BackSet)
    BY <2>1 DEF SpaceInv, BackInv, TasksBack, TypeInv, QueueType
  <2>3. TasksBack(wq', BackSet)
    BY <2>1, <2>2, BackCat
  <2> QED BY <1>11, <2>3, BackMono DEF SpaceInv, BackInv
<1> QED BY <1>6, <1>7, <1>18, <1>19 DEF SpaceInv

LEMMA SpaceAllocs ==
  ASSUME CoreInv, CoreInv', SpaceInv,
         AckAllocs \/ \E w \in Writer : WriterAllocs(w)
  PROVE  SpaceInv'
<1>0. TypeInv /\ TypeInv'
  BY DEF CoreInv
<1>1. ASSUME NEW w \in Writer, WriterAllocs(w) PROVE SpaceInv'
  <2> DEFINE t == AllocTurn(w, wr[w].loc)
  <2>1. ioSReq_alloc_freeSpace(w, t) /\ wr[w].loc \in TurnLoc /\ UNCHANGED <<nn, sent, reps>>
    BY <1>0, <1>1 DEF WriterAllocs, TypeInv, WriterType, WriterRec
  <2>2. Turned(t, wr[w].loc, w)
    BY <1>0, <2>1, TurnFacts
  <2> HIDE DEF t
  <2> QED BY <1>0, <2>1, <2>2, SpaceTurn
<1>2. CASE AckAllocs
  <2> DEFINE w == ack.w
             t == AllocTurn(w, ack.loc)
  <2>1. /\ ioSReq_alloc_freeSpace(w, t) /\ UNCHANGED <<nn, sent, reps>>
        /\ w \in Writer /\ ack.loc \in TurnLoc
    BY <1>0, <1>2 DEF AckAllocs, TypeInv, ThreadType, AckRec
  <2>2. Turned(t, ack.loc, w)
    BY <1>0, <2>1, TurnFacts
  <2> HIDE DEF t, w
  <2> QED BY <1>0, <2>1, <2>2, SpaceTurn
<1> QED BY <1>1, <1>2

LEMMA SpaceStep ==
  ASSUME CoreInv, CoreInv', SpaceInv, [Next]_vars PROVE SpaceInv'
<1>0. TypeInv /\ TypeInv' /\ wr \in [Writer -> WriterRec] /\ as \in Seq(Unit)
  BY DEF CoreInv, TypeInv, WriterType, PoolType
<1>1. CASE UNCHANGED vars
  BY <1>0, <1>1, SpaceIdle DEF vars, SameMd
<1>2. ASSUME NEW w \in Writer, WriterLocks(w) PROVE SpaceInv'
  <2>1. UNCHANGED <<fs, nn, wq, sent, reps>> /\ wr' = [wr EXCEPT ![w].pc = "alloc"]
    BY <1>2 DEF WriterLocks
  <2>2. SameMd
    BY <1>0, <2>1 DEF SameMd, WriterRec
  <2> QED BY <1>0, <2>1, <2>2, SpaceIdle
<1>3. CASE AckCounts \/ AckServes \/ AdmFlushed \/ \E x \in Ioctl : AdmStarts(x)
  <2>1. UNCHANGED <<fs, nn, wq, sent, reps, wr>>
    BY <1>3 DEF AckCounts, AckServes, AdmFlushed, AdmStarts
  <2> QED BY <1>0, <2>1, SpaceIdle DEF SameMd
<1>4. CASE WorkerFlushes \/ AdmFlush
  <2>1. PICK by \in {"none", "adm"} : wq' = wq \o FlushTasks(as, by)
    BY <1>4 DEF WorkerFlushes, AdmFlush, sm_report_volume_spaceMData
  <2>2. /\ FlushTasks(as, by) \in Seq(Task)
        /\ \A i \in DOMAIN FlushTasks(as, by) : FlushTasks(as, by)[i].kind = "flush"
    BY <1>0, FlushFacts
  <2>3. UNCHANGED <<fs, nn, sent, reps>> /\ SameMd
    BY <1>4 DEF WorkerFlushes, AdmFlush, SameMd
  <2> QED BY <1>0, <2>1, <2>2, <2>3, SpaceMoreTasks
<1>5. CASE AdmAlloc
  <2> DEFINE k == PreallocTask(1, FALSE)
  <2>1. wq' = Append(wq, k) /\ UNCHANGED <<fs, nn, sent, reps>> /\ SameMd
    BY <1>5 DEF AdmAlloc, SameMd
  <2>2. k \in Task /\ k.kind # "return" /\ wq \in Seq(Task)
    BY <1>0 DEF PreallocTask, Task, TypeInv, QueueType
  <2> HIDE DEF k
  <2>3. <<k>> \in Seq(Task) /\ Append(wq, k) = wq \o <<k>> /\ \A i \in DOMAIN <<k>> : <<k>>[i] = k
    BY <2>2
  <2> QED BY <1>0, <2>1, <2>2, <2>3, SpaceMoreTasks
<1>6. CASE Ack
  BY <1>0, <1>3, <1>6, SpaceAckPrealloc, SpaceAckOther, SpaceAllocs DEF Ack
<1>7. CASE Adm
  BY <1>0, <1>3, <1>4, <1>5, <1>7, SpaceAdmInval, SpaceAdmUnuse, SpaceAdmClean, SpaceFreePool DEF Adm
<1> QED BY <1>0, <1>1, <1>2, <1>4, <1>6, <1>7, SpaceAllocs, SpaceWorkerSends, SpaceNNAnswers DEF Next

LEMMA SpaceInit == Init => SpaceInv
<1> SUFFICES ASSUME Init PROVE SpaceInv
  OBVIOUS
<1>1. /\ fs = <<>> /\ wq = <<>> /\ sent = <<>> /\ reps = <<>>
      /\ nn.grants = <<>> /\ nn.back = {} /\ \A w \in Writer : wr[w].md = <<>>
  BY DEF Init
<1>2. DOMAIN <<>> = {}
  OBVIOUS
<1> QED BY <1>1, <1>2 DEF SpaceInv, GrantInv, FreeInv, GivenInv, BackInv, TasksBack

LEMMA SpaceHolds == Spec => []SpaceInv
<1>1. CoreInv /\ CoreInv' /\ SpaceInv /\ [Next]_vars => SpaceInv'
  BY SpaceStep
<1> QED BY SpaceInit, CoreHolds, <1>1, PTL DEF Spec

(* The HBIDs of a write's parts.                                            *)
LEMMA GivenHas ==
  ASSUME TypeInv, NEW w \in Writer, NEW h \in Given(w)
  PROVE  \E i \in DOMAIN wr[w].md : h \in Int /\ wr[w].md[i].hbid <= h /\ h < EndOf(wr[w].md[i])
<1>1. PICK i \in DOMAIN wr[w].md : h \in wr[w].md[i].hbid .. wr[w].md[i].hbid + wr[w].md[i].len - 1
  BY DEF Given, HBIDsOf
<1>2. wr[w].md[i] \in Unit
  BY SpaceTypes DEF Typing
<1> DEFINE u == wr[w].md[i]
<1>3. u.hbid \in Nat /\ u.len \in Nat
  BY <1>2, Bounds
<1> HIDE DEF u
<1>4. h \in Int /\ u.hbid <= h /\ h < EndOf(u)
  BY <1>1, <1>3 DEF EndOf, u
<1> QED BY <1>4 DEF u

LEMMA SpaceOnce == CoreInv /\ SpaceInv => SpaceUsedOnce
<1> SUFFICES ASSUME CoreInv, SpaceInv PROVE SpaceUsedOnce
  OBVIOUS
<1>0. TypeInv
  BY DEF CoreInv
<1>1. ASSUME NEW w \in Writer, NEW x \in Writer, w # x, NEW h \in Given(w), h \in Given(x) PROVE FALSE
  <2>1. PICK i \in DOMAIN wr[w].md : h \in Int /\ wr[w].md[i].hbid <= h /\ h < EndOf(wr[w].md[i])
    BY <1>0, GivenHas
  <2>2. PICK j \in DOMAIN wr[x].md : h \in Int /\ wr[x].md[j].hbid <= h /\ h < EndOf(wr[x].md[j])
    BY <1>0, <1>1, GivenHas
  <2> DEFINE u == wr[w].md[i]
             v == wr[x].md[j]
  <2>3. u \in Unit /\ v \in Unit /\ Apart(u, v)
    BY <1>0, <1>1, SpaceTypes DEF Typing, SpaceInv, GivenInv
  <2>4. u.hbid \in Nat /\ EndOf(u) \in Nat /\ v.hbid \in Nat /\ EndOf(v) \in Nat
    BY <2>3, Bounds
  <2>5. h \in Int /\ u.hbid <= h /\ h < EndOf(u) /\ v.hbid <= h /\ h < EndOf(v)
    BY <2>1, <2>2
  <2> HIDE DEF u, v
  <2> QED BY <2>3, <2>4, <2>5 DEF Apart
<1>2. ASSUME NEW w \in Writer, NEW h \in Given(w), h \in Back PROVE FALSE
  <2>1. PICK i \in DOMAIN wr[w].md : h \in Int /\ wr[w].md[i].hbid <= h /\ h < EndOf(wr[w].md[i])
    BY <1>0, GivenHas
  <2>2. PICK p \in nn.back : h \in BackOf(p[1], p[2])
    BY <1>2 DEF Back
  <2>3. p \in Nat \X Nat /\ GivenBack(p[1], p[2])
    BY DEF SpaceInv, BackInv, BackSet
  <2> DEFINE u == wr[w].md[i]
             g == nn.grants[p[1]]
             gu == nn.grants[u.id]
             b == p[2]
  <2>4. /\ u \in Unit /\ GivenIn(u, nn.grants, fs, GrantOf)
        /\ GrantOf \in Int /\ GrantOf <= Len(nn.grants) + 1 /\ Len(nn.grants) \in Nat
        /\ DOMAIN nn.grants = 1..Len(nn.grants) /\ \A k \in DOMAIN nn.grants : nn.grants[k] \in Grant
    BY <1>0, SpaceTypes DEF Typing, SpaceInv, GivenInv
  <2>5. /\ p[1] \in DOMAIN nn.grants /\ b \in Nat /\ b >= g.hbid
        /\ u.id = p[1] => EndOf(u) <= b
    BY <2>3, <2>4 DEF GivenBack
  <2>6. u.id \in DOMAIN nn.grants /\ u.hbid >= gu.hbid /\ EndOf(u) <= EndOf(gu)
    BY <2>4 DEF GivenIn
  <2>7. g \in Grant /\ gu \in Grant
    BY <2>4, <2>5, <2>6
  <2>8. /\ g.hbid \in Nat /\ EndOf(g) \in Nat /\ gu.hbid \in Nat /\ EndOf(gu) \in Nat
        /\ u.hbid \in Nat /\ EndOf(u) \in Nat /\ g.len \in Nat
    BY <2>4, <2>7, Bounds
  <2>9. h \in Int /\ u.hbid <= h /\ h < EndOf(u) /\ b <= h /\ h < EndOf(g)
    <3>1. h \in b .. g.hbid + g.len - 1
      BY <2>2 DEF BackOf
    <3>2. b <= h /\ h < EndOf(g)
      BY <2>5, <2>8, <3>1 DEF EndOf
    <3> QED BY <2>1, <3>2
  <2>10. CASE u.id = p[1]
    <3>1. EndOf(u) <= b
      BY <2>5, <2>10
    <3> HIDE DEF u, g, gu, b
    <3> QED BY <2>5, <2>8, <2>9, <3>1
  <2>11. CASE u.id # p[1]
    <3>1. EndOf(gu) <= g.hbid \/ EndOf(g) <= gu.hbid
      <4>1. u.id \in Int /\ p[1] \in Int
        BY <2>4, <2>5, <2>6
      <4>2. u.id < p[1] \/ p[1] < u.id
        BY <2>11, <4>1
      <4> QED BY <2>5, <2>6, <4>2 DEF SpaceInv, GrantInv
    <3> HIDE DEF u, g, gu, b
    <3> QED BY <2>5, <2>6, <2>8, <2>9, <3>1
  <2> QED BY <2>10, <2>11
<1> QED BY <1>1, <1>2 DEF SpaceUsedOnce

(* No block of space is ever given to two first writes, and none that was   *)
(* given to a write is reported unused (fschunk_alloc_space,                *)
(* _fspool_alloc_space, fschunk_report_unuse), however the grants, the      *)
(* turns, the ioctls and the answers interleave.                            *)
THEOREM SpaceIsUsedOnce == Spec => []SpaceUsedOnce
  BY CoreHolds, SpaceHolds, SpaceOnce, PTL
-----------------------------------------------------------------------------
(* What the counters say.  fsSize_remaining is the sum over the chunks, and *)
(* the sum over a list is a chain again: two chains that start alike and    *)
(* grow alike end alike.                                                    *)
LEMMA ChainsAgree ==
  ASSUME NEW n \in Nat, NEW g, NEW h, g[0] = h[0],
         \A k \in 1..n : g[k - 1] = h[k - 1] => g[k] = h[k]
  PROVE  \A k \in 0..n : g[k] = h[k]
<1> DEFINE X == {k \in 0..n : g[k] = h[k]}
<1>1. 0 \in X
  OBVIOUS
<1>2. ASSUME NEW k \in 0..n, k \in X, k < n PROVE k + 1 \in X
  <2>1. k + 1 \in 1..n /\ k + 1 \in 0..n /\ (k + 1) - 1 = k
    BY <1>2
  <2>2. g[k + 1] = h[k + 1]
    BY <1>2, <2>1
  <2> QED BY <2>1, <2>2
<1>3. \A k \in 0..n : k \in X
  <2> HIDE DEF X
  <2>1. \A k \in 0..n : k \in X /\ k < n => k + 1 \in X
    BY <1>2
  <2> QED BY <1>1, <2>1, Reaches
<1> QED BY <1>3

LEMMA TotalEmpty == Total(<<>>) = 0
<1>1. <<>> \in Seq({}) /\ Len(<<>>) = 0
  OBVIOUS
<1>2. PICK h : TotalLinks(h, <<>>)
  BY <1>1, TotalChain
<1> QED BY <1>1, <1>2 DEF TotalLinks

LEMMA TotalAppend ==
  ASSUME NEW E, \A e \in E : e.len \in Nat, NEW s \in Seq(E), NEW c \in E
  PROVE  Total(Append(s, c)) = Total(s) + c.len
<1> DEFINE t == Append(s, c)
           n == Len(s)
<1>1. /\ t \in Seq(E) /\ n \in Nat /\ Len(t) = n + 1 /\ t[n + 1] = c
      /\ \A k \in 1..n : t[k] = s[k]
  OBVIOUS
<1>2. PICK g : TotalLinks(g, s)
  BY TotalChain
<1>3. PICK h : TotalLinks(h, t)
  BY <1>1, TotalChain
<1> HIDE DEF t
<1>4. \A k \in 0..n : g[k] = h[k]
  <2>1. g[0] = h[0]
    BY <1>2, <1>3 DEF TotalLinks
  <2>2. ASSUME NEW k \in 1..n, g[k - 1] = h[k - 1] PROVE g[k] = h[k]
    <3>1. k \in 1..Len(t)
      BY <1>1
    <3>2. g[k] = TotalStep(g[k - 1], s[k]) /\ h[k] = TotalStep(h[k - 1], t[k])
      BY <1>2, <1>3, <3>1 DEF TotalLinks
    <3> QED BY <1>1, <2>2, <3>2
  <2> HIDE DEF n
  <2>3. n \in Nat /\ \A k \in 1..n : g[k - 1] = h[k - 1] => g[k] = h[k]
    BY <1>1, <2>2
  <2> QED BY ONLY <2>1, <2>3, ChainsAgree
<1>5. n + 1 \in 1..Len(t) /\ (n + 1) - 1 = n /\ n \in 0..n
  BY <1>1
<1>6. h[n + 1] = TotalStep(h[n], c)
  BY <1>1, <1>3, <1>5 DEF TotalLinks
<1>7. Total(t) = h[n + 1] /\ Total(s) = g[n]
  BY <1>1, <1>2, <1>3 DEF TotalLinks
<1>8. Total(t) = Total(s) + c.len
  BY <1>4, <1>5, <1>6, <1>7 DEF TotalStep
<1> QED BY <1>8 DEF t

(* The blocks that can be allocated: those of the free chunks.              *)
FreeLen(s) == Total(Among(s, {c \in ToSet(s) : c.st = "Free"}))
Weight(c) == IF c.st = "Free" THEN c.len ELSE 0
FreeLinks(g, s) ==
  /\ g \in [0..Len(s) -> Nat]
  /\ g[0] = 0 /\ FreeLen(s) = g[Len(s)]
  /\ \A k \in 1..Len(s) : g[k] = g[k - 1] + Weight(s[k])

LEMMA FreeChain ==
  ASSUME NEW s \in Seq(Chunk)
  PROVE  \E g : FreeLinks(g, s)
<1> DEFINE S == {c \in ToSet(s) : c.st = "Free"}
<1>1. \A k \in 1..Len(s) : s[k] \in Chunk /\ (s[k] \in S <=> s[k].st = "Free")
  BY DEF ToSet
<1>2. \A c \in Chunk : c.len \in Nat
  BY DEF Chunk
<1> HIDE DEF S
<1>3. PICK h : AmongLinks(h, Chunk, s, S)
  BY AmongChain
<1>4. /\ h \in [0..Len(s) -> Seq(Chunk)]
      /\ h[0] = <<>> /\ Among(s, S) = h[Len(s)]
      /\ \A k \in 1..Len(s) : h[k] = AmongStep(h[k - 1], s[k], S)
  BY <1>3 DEF AmongLinks
<1> DEFINE g == [k \in 0..Len(s) |-> Total(h[k])]
<1>5. Len(s) \in Nat /\ 0 \in 0..Len(s) /\ Len(s) \in 0..Len(s)
  OBVIOUS
<1>6. g \in [0..Len(s) -> Nat]
  BY <1>2, <1>4, TotalType
<1>7. g[0] = 0
  BY <1>4, <1>5, TotalEmpty
<1>8. FreeLen(s) = g[Len(s)]
  BY <1>4, <1>5 DEF FreeLen, S
<1>9. ASSUME NEW k \in 1..Len(s) PROVE g[k] = g[k - 1] + Weight(s[k])
  <2>1. k \in 0..Len(s) /\ k - 1 \in 0..Len(s)
    BY <1>5
  <2>2. g[k] = Total(h[k]) /\ g[k - 1] = Total(h[k - 1]) /\ h[k - 1] \in Seq(Chunk) /\ s[k] \in Chunk
    BY <1>1, <1>4, <2>1
  <2>3. g[k - 1] \in Nat
    BY <1>6, <2>1
  <2> HIDE DEF g
  <2>4. CASE s[k].st = "Free"
    <3>1. h[k] = Append(h[k - 1], s[k])
      BY <1>1, <1>4, <2>4 DEF AmongStep
    <3>2. Total(h[k]) = Total(h[k - 1]) + s[k].len
      BY <1>2, <2>2, <3>1, TotalAppend
    <3> QED BY <2>2, <2>4, <3>2 DEF Weight
  <2>5. CASE s[k].st # "Free"
    <3>1. h[k] = h[k - 1]
      BY <1>1, <1>4, <2>5 DEF AmongStep
    <3> QED BY <2>2, <2>3, <2>5, <3>1 DEF Weight
  <2> QED BY <2>4, <2>5
<1>10. FreeLinks(g, s)
  BY <1>6, <1>7, <1>8, <1>9 DEF FreeLinks
<1> QED BY <1>10

LEMMA FreeType ==
  ASSUME NEW s \in Seq(Chunk) PROVE FreeLen(s) \in Nat
<1>1. PICK g : FreeLinks(g, s)
  BY FreeChain
<1>2. Len(s) \in 0..Len(s)
  OBVIOUS
<1> QED BY <1>1, <1>2 DEF FreeLinks

LEMMA FreeEmpty == FreeLen(<<>>) = 0
<1>1. <<>> \in Seq(Chunk) /\ Len(<<>>) = 0
  OBVIOUS
<1>2. PICK g : FreeLinks(g, <<>>)
  BY <1>1, FreeChain
<1> QED BY <1>1, <1>2 DEF FreeLinks

LEMMA FreeAppend ==
  ASSUME NEW s \in Seq(Chunk), NEW c \in Chunk
  PROVE  FreeLen(Append(s, c)) = FreeLen(s) + Weight(c)
<1> DEFINE t == Append(s, c)
           n == Len(s)
<1>1. /\ t \in Seq(Chunk) /\ n \in Nat /\ Len(t) = n + 1 /\ t[n + 1] = c
      /\ \A k \in 1..n : t[k] = s[k]
  OBVIOUS
<1>2. PICK g : FreeLinks(g, s)
  BY FreeChain
<1>3. PICK h : FreeLinks(h, t)
  BY <1>1, FreeChain
<1> HIDE DEF t
<1>4. \A k \in 0..n : g[k] = h[k]
  <2>1. g[0] = h[0]
    BY <1>2, <1>3 DEF FreeLinks
  <2>2. ASSUME NEW k \in 1..n, g[k - 1] = h[k - 1] PROVE g[k] = h[k]
    <3>1. k \in 1..Len(t)
      BY <1>1
    <3>2. g[k] = g[k - 1] + Weight(s[k]) /\ h[k] = h[k - 1] + Weight(t[k])
      BY <1>2, <1>3, <3>1 DEF FreeLinks
    <3> QED BY <1>1, <2>2, <3>2
  <2> HIDE DEF n
  <2>3. n \in Nat /\ \A k \in 1..n : g[k - 1] = h[k - 1] => g[k] = h[k]
    BY <1>1, <2>2
  <2> QED BY ONLY <2>1, <2>3, ChainsAgree
<1>5. n + 1 \in 1..Len(t) /\ (n + 1) - 1 = n /\ n \in 0..n
  BY <1>1
<1>6. h[n + 1] = h[n] + Weight(c)
  BY <1>1, <1>3, <1>5 DEF FreeLinks
<1>7. FreeLen(t) = h[n + 1] /\ FreeLen(s) = g[n]
  BY <1>1, <1>2, <1>3 DEF FreeLinks
<1>8. FreeLen(t) = FreeLen(s) + Weight(c)
  BY <1>4, <1>5, <1>6, <1>7
<1> QED BY <1>8 DEF t

(* Lists whose chunks weigh the same.                                       *)
LEMMA FreeSame ==
  ASSUME NEW s \in Seq(Chunk), NEW t \in Seq(Chunk), DOMAIN t = DOMAIN s,
         \A i \in DOMAIN s : Weight(t[i]) = Weight(s[i])
  PROVE  FreeLen(t) = FreeLen(s)
<1> DEFINE n == Len(s)
<1>1. n \in Nat /\ DOMAIN s = 1..n /\ Len(t) = n /\ n \in 0..n
  OBVIOUS
<1>2. PICK g : FreeLinks(g, s)
  BY FreeChain
<1>3. PICK h : FreeLinks(h, t)
  BY FreeChain
<1>4. \A k \in 0..n : g[k] = h[k]
  <2>1. g[0] = h[0]
    BY <1>2, <1>3 DEF FreeLinks
  <2>2. ASSUME NEW k \in 1..n, g[k - 1] = h[k - 1] PROVE g[k] = h[k]
    <3>1. g[k] = g[k - 1] + Weight(s[k]) /\ h[k] = h[k - 1] + Weight(t[k])
      BY <1>1, <1>2, <1>3 DEF FreeLinks
    <3> QED BY <1>1, <2>2, <3>1
  <2> HIDE DEF n
  <2>3. n \in Nat /\ \A k \in 1..n : g[k - 1] = h[k - 1] => g[k] = h[k]
    BY <1>1, <2>2
  <2> QED BY ONLY <2>1, <2>3, ChainsAgree
<1> QED BY <1>1, <1>2, <1>3, <1>4 DEF FreeLinks

(* A list without a free chunk.                                             *)
LEMMA FreeNone ==
  ASSUME NEW s \in Seq(Chunk), \A i \in DOMAIN s : s[i].st # "Free"
  PROVE  FreeLen(s) = 0
<1> DEFINE n == Len(s)
           h == [k \in 0..n |-> 0]
<1>1. n \in Nat /\ DOMAIN s = 1..n /\ n \in 0..n /\ 0 \in 0..n
  OBVIOUS
<1>2. PICK g : FreeLinks(g, s)
  BY FreeChain
<1>3. \A k \in 0..n : g[k] = h[k]
  <2>1. g[0] = h[0]
    BY <1>1, <1>2 DEF FreeLinks
  <2>2. ASSUME NEW k \in 1..n, g[k - 1] = h[k - 1] PROVE g[k] = h[k]
    <3>1. g[k] = g[k - 1] + Weight(s[k]) /\ Weight(s[k]) = 0
      BY <1>1, <1>2 DEF FreeLinks, Weight
    <3>2. k \in 0..n /\ k - 1 \in 0..n
      BY <1>1
    <3> QED BY <2>2, <3>1, <3>2
  <2> HIDE DEF n, h
  <2>3. n \in Nat /\ \A k \in 1..n : g[k - 1] = h[k - 1] => g[k] = h[k]
    BY <1>1, <2>2
  <2> QED BY ONLY <2>1, <2>3, ChainsAgree
<1> QED BY <1>1, <1>2, <1>3 DEF FreeLinks

(* A list that only chunks leave which are not free.                        *)
LEMMA FreeAmong ==
  ASSUME NEW s \in Seq(Chunk), NEW S, \A i \in DOMAIN s : s[i] \notin S => s[i].st # "Free"
  PROVE  FreeLen(Among(s, S)) = FreeLen(s)
<1> DEFINE n == Len(s)
<1>1. n \in Nat /\ DOMAIN s = 1..n /\ n \in 0..n /\ 0 \in 0..n
  OBVIOUS
<1>2. PICK g : FreeLinks(g, s)
  BY FreeChain
<1>3. PICK h : AmongLinks(h, Chunk, s, S)
  BY AmongChain
<1> DEFINE f == [k \in 0..n |-> FreeLen(h[k])]
<1>4. \A k \in 0..n : g[k] = f[k]
  <2>1. g[0] = f[0]
    BY <1>1, <1>2, <1>3, FreeEmpty DEF FreeLinks, AmongLinks
  <2>2. ASSUME NEW k \in 1..n, g[k - 1] = f[k - 1] PROVE g[k] = f[k]
    <3>1. k \in 0..n /\ k - 1 \in 0..n /\ k \in DOMAIN s
      BY <1>1
    <3>2. g[k] = g[k - 1] + Weight(s[k]) /\ g[k - 1] \in Nat
      BY <1>2, <3>1 DEF FreeLinks
    <3>3. h[k] = AmongStep(h[k - 1], s[k], S) /\ h[k - 1] \in Seq(Chunk) /\ s[k] \in Chunk
      BY <1>3, <3>1 DEF AmongLinks
    <3>4. f[k] = FreeLen(h[k]) /\ f[k - 1] = FreeLen(h[k - 1])
      BY <3>1
    <3> HIDE DEF f
    <3>5. CASE s[k] \in S
      <4>1. h[k] = Append(h[k - 1], s[k])
        BY <3>3, <3>5 DEF AmongStep
      <4>2. FreeLen(h[k]) = FreeLen(h[k - 1]) + Weight(s[k])
        BY <3>3, <4>1, FreeAppend
      <4> QED BY <2>2, <3>2, <3>4, <4>2
    <3>6. CASE s[k] \notin S
      <4>1. h[k] = h[k - 1] /\ Weight(s[k]) = 0
        BY <3>1, <3>3, <3>6 DEF AmongStep, Weight
      <4> QED BY <2>2, <3>2, <3>4, <4>1
    <3> QED BY <3>5, <3>6
  <2> HIDE DEF n, f
  <2>3. n \in Nat /\ \A k \in 1..n : g[k - 1] = f[k - 1] => g[k] = f[k]
    BY <1>1, <2>2
  <2> QED BY ONLY <2>1, <2>3, ChainsAgree
<1>5. FreeLen(s) = g[n] /\ Among(s, S) = h[n]
  BY <1>2, <1>3 DEF FreeLinks, AmongLinks
<1> QED BY <1>1, <1>4, <1>5

(* The walk of an allocation: what it takes and what it leaves.             *)
LEMMA AllocConserves ==
  ASSUME NEW base \in Acc, NoParts(base), NEW s \in Seq(Chunk)
  PROVE  FreeLen(AllocFold(base, s).fs) + Total(AllocFold(base, s).us) = FreeLen(s)
<1> DEFINE n == Len(s)
<1>1. n \in Nat /\ DOMAIN s = 1..n /\ n \in 0..n /\ 0 \in 0..n
  OBVIOUS
<1>2. PICK g : FreeLinks(g, s)
  BY FreeChain
<1>3. PICK h : AllocLinks(h, base, s)
  BY AllocChain
<1> DEFINE f == [k \in 0..n |-> FreeLen(h[k].fs) + Total(h[k].us)]
<1>4. \A k \in 0..n : g[k] = f[k]
  <2>1. g[0] = f[0]
    BY <1>1, <1>2, <1>3, FreeEmpty, TotalEmpty DEF FreeLinks, AllocLinks, NoParts
  <2>2. ASSUME NEW k \in 1..n, g[k - 1] = f[k - 1] PROVE g[k] = f[k]
    <3> DEFINE a == h[k - 1]
               b == h[k]
               c == s[k]
    <3>1. k \in 0..n /\ k - 1 \in 0..n /\ c \in Chunk
      BY <1>1
    <3>2. g[k] = g[k - 1] + Weight(c) /\ g[k - 1] \in Nat
      BY <1>2, <3>1 DEF FreeLinks
    <3>3. b = AllocFrom(a, c) /\ a \in Acc
      BY <1>3, <3>1 DEF AllocLinks
    <3>4. f[k] = FreeLen(b.fs) + Total(b.us) /\ f[k - 1] = FreeLen(a.fs) + Total(a.us)
      BY <3>1
    <3> HIDE DEF f, a, b, c
    <3>5. Keeps(a, c, b) \/ \E sz : Takes(a, c, b, sz)
      BY <3>1, <3>3, AllocOne
    <3>6. a.fs \in Seq(Chunk) /\ a.us \in Seq(Unit) /\ a.lb \in Nat
      BY <3>3 DEF Acc
    <3>7. \A u \in Unit : u.len \in Nat
      BY DEF Unit
    <3>8. FreeLen(a.fs) \in Nat /\ Total(a.us) \in Nat
      BY <3>6, <3>7, FreeType, TotalType
    <3>9. CASE Keeps(a, c, b)
      <4>1. FreeLen(b.fs) = FreeLen(a.fs) + Weight(c) /\ b.us = a.us
        BY <3>1, <3>6, <3>9, FreeAppend DEF Keeps
      <4>2. Weight(c) \in Nat
        BY <3>1 DEF Weight, Chunk
      <4> QED BY <2>2, <3>2, <3>4, <3>8, <4>1, <4>2
    <3>10. ASSUME NEW sz, Takes(a, c, b, sz) PROVE g[k] = f[k]
      <4>1. c.len \in Nat /\ c.id \in Nat /\ c.hbid \in Nat /\ c.off \in Nat
        BY <3>1 DEF Chunk
      <4>2. c.st = "Free" /\ sz \in 0..c.len
        BY <3>10 DEF Takes
      <4>3. sz \in Nat /\ c.len - sz \in Nat
        BY <4>1, <4>2
      <4>4. Weight(c) = c.len
        BY <4>2 DEF Weight
      <4>5. Part(c, a.lb, sz) \in Unit /\ Part(c, a.lb, sz).len = sz
        BY <3>6, <4>1, <4>3 DEF Part, Unit, AsStates
      <4>6. Total(b.us) = Total(a.us) + sz
        <5>1. b.us = Append(a.us, Part(c, a.lb, sz))
          BY <3>10 DEF Takes
        <5> QED BY <3>6, <3>7, <4>5, <5>1, TotalAppend
      <4>7. FreeLen(b.fs) = FreeLen(a.fs) + (c.len - sz)
        <5>1. CASE sz = c.len
          <6>1. b.fs = a.fs
            BY <3>10, <5>1 DEF Takes
          <6> QED BY <3>8, <4>1, <5>1, <6>1
        <5>2. CASE sz # c.len
          <6>1. b.fs = Append(a.fs, Rest(c, sz))
            BY <3>10, <5>2 DEF Takes
          <6>2. Rest(c, sz) \in Chunk
            <7>1. c.hbid + sz \in Nat /\ c.off + sz \in Nat
              BY <4>1, <4>3
            <7> QED BY <4>1, <4>3, <7>1 DEF Rest, Chunk
          <6>3. Weight(Rest(c, sz)) = c.len - sz
            BY DEF Rest, Weight
          <6> QED BY <3>6, <6>1, <6>2, <6>3, FreeAppend
        <5> QED BY <5>1, <5>2
      <4> QED BY <2>2, <3>2, <3>4, <3>8, <4>1, <4>3, <4>4, <4>6, <4>7
    <3> QED BY <3>5, <3>9, <3>10
  <2> HIDE DEF n, f
  <2>3. n \in Nat /\ \A k \in 1..n : g[k - 1] = f[k - 1] => g[k] = f[k]
    BY <1>1, <2>2
  <2> QED BY ONLY <2>1, <2>3, ChainsAgree
<1>5. FreeLen(s) = g[n] /\ AllocFold(base, s) = h[n]
  BY <1>2, <1>3 DEF FreeLinks, AllocLinks
<1> QED BY <1>1, <1>4, <1>5

LEMMA TurnConserves ==
  ASSUME TypeInv, NEW w \in Writer, NEW loc \in TurnLoc
  PROVE  FreeLen(AllocTurn(w, loc).fs) + Total(AllocTurn(w, loc).us) = FreeLen(fs)
<1> DEFINE base == [lb |-> Lb[w], need |-> Len_[w], ok |-> TRUE, fs |-> <<>>, us |-> <<>>]
           t == AllocTurn(w, loc)
<1>1. fs \in Seq(Chunk)
  BY DEF TypeInv, PoolType
<1>2. CASE size.remaining >= Len_[w]
  <2>1. base \in Acc /\ NoParts(base)
    BY SpaceAssumption DEF Acc, NoParts
  <2>2. _fspool_alloc_space(w) = AllocFold(base, fs)
    BY DEF _fspool_alloc_space, AllocFold
  <2>3. t.fs = _fspool_alloc_space(w).fs /\ t.us = _fspool_alloc_space(w).us
    BY <1>2 DEF AllocTurn
  <2> HIDE DEF base, t
  <2>4. FreeLen(t.fs) + Total(t.us) = FreeLen(fs)
    BY <1>1, <2>1, <2>2, <2>3, AllocConserves
  <2> QED BY <2>4 DEF t
<1>3. CASE ~(size.remaining >= Len_[w])
  <2>1. t.fs = fs /\ t.us = <<>>
    BY <1>3 DEF AllocTurn
  <2>2. FreeLen(fs) \in Nat
    BY <1>1, FreeType
  <2> HIDE DEF t
  <2>3. FreeLen(t.fs) + Total(t.us) = FreeLen(fs)
    BY <2>1, <2>2, TotalEmpty
  <2> QED BY <2>3 DEF t
<1> QED BY <1>2, <1>3

-----------------------------------------------------------------------------
(* fsSize_remaining, one lemma for each kind of step that changes it or the *)
(* list of the chunks.                                                      *)
RemainInv == up => size.remaining = FreeLen(fs)

LEMMA RemainTurn ==
  ASSUME TypeInv, RemainInv, NEW w \in Writer, NEW loc \in TurnLoc,
         ioSReq_alloc_freeSpace(w, AllocTurn(w, loc)), up' = up
  PROVE  RemainInv'
<1> DEFINE t == AllocTurn(w, loc)
<1>1. fs' = t.fs /\ size'.remaining = size.remaining - Total(t.us)
  BY DEF ioSReq_alloc_freeSpace
<1>2. FreeLen(t.fs) + Total(t.us) = FreeLen(fs)
  BY TurnConserves
<1>3. t.fs \in Seq(Chunk) /\ t.us \in Seq(Unit)
  BY TurnFacts DEF Turned, Turn
<1> HIDE DEF t
<1>4. FreeLen(t.fs) \in Nat /\ Total(t.us) \in Nat
  <2>1. \A u \in Unit : u.len \in Nat
    BY DEF Unit
  <2> QED BY <1>3, <2>1, FreeType, TotalType
<1> QED BY <1>1, <1>2, <1>4 DEF RemainInv

LEMMA RemainAllocs ==
  ASSUME TypeInv, RemainInv, AckAllocs \/ \E w \in Writer : WriterAllocs(w)
  PROVE  RemainInv'
<1>1. ASSUME NEW w \in Writer, WriterAllocs(w) PROVE RemainInv'
  <2>1. /\ ioSReq_alloc_freeSpace(w, AllocTurn(w, wr[w].loc)) /\ up' = up
        /\ wr[w].loc \in TurnLoc
    BY <1>1 DEF WriterAllocs, TypeInv, WriterType, WriterRec
  <2> QED BY <2>1, RemainTurn
<1>2. CASE AckAllocs
  <2>1. /\ ioSReq_alloc_freeSpace(ack.w, AllocTurn(ack.w, ack.loc)) /\ up' = up
        /\ ack.w \in Writer /\ ack.loc \in TurnLoc
    BY <1>2 DEF AckAllocs, TypeInv, ThreadType, AckRec
  <2> QED BY <2>1, RemainTurn
<1> QED BY <1>1, <1>2

(* A granted chunk is free, and its blocks are added.                       *)
LEMMA RemainAckPrealloc ==
  ASSUME TypeInv, TypeInv', RemainInv, AckPrealloc PROVE RemainInv'
<1> SUFFICES ASSUME up PROVE RemainInv'
  BY DEF AckPrealloc, RemainInv
<1> DEFINE c == fschunk_init_chunk(GrantOf, nn.grants[GrantOf])
<1>1. fs' = Append(fs, c) /\ size' = [size EXCEPT !.remaining = @ + c.len] /\ up' = up
  BY DEF AckPrealloc, _fspool_add_fschunk
<1>2. /\ fs \in Seq(Chunk) /\ fs' \in Seq(Chunk)
      /\ size \in [remaining : Int, requesting : Int]
  BY DEF TypeInv, PoolType
<1>3. c.st = "Free"
  BY DEF fschunk_init_chunk, init_fschunk_state_fsm
<1> HIDE DEF c
<1>4. c \in Chunk
  <2>1. Len(fs) + 1 \in 1..Len(fs') /\ fs'[Len(fs) + 1] = c
    BY <1>1, <1>2
  <2> QED BY <1>2, <2>1
<1>5. FreeLen(fs') = FreeLen(fs) + c.len
  BY <1>1, <1>2, <1>3, <1>4, FreeAppend DEF Weight
<1>6. size'.remaining = size.remaining + c.len
  BY <1>1, <1>2
<1> QED BY <1>1, <1>5, <1>6 DEF RemainInv

(* The free chunks are invalidated, and their blocks are subtracted.        *)
LEMMA RemainAdmInval ==
  ASSUME TypeInv, TypeInv', RemainInv, AdmInval PROVE RemainInv'
<1> DEFINE S == {c \in ToSet(fs) : fschunk_invalidate_chunk(c).act = "DO_Inval"}
           F == {c \in ToSet(fs) : c.st = "Free"}
<1>1. /\ fs \in Seq(Chunk) /\ fs' \in Seq(Chunk) /\ size \in [remaining : Int, requesting : Int]
  BY DEF TypeInv, PoolType
<1>2. /\ fs' = [i \in DOMAIN fs |-> fschunk_invalidate_chunk(fs[i]).c]
      /\ size' = [size EXCEPT !.remaining = @ - Total(Among(fs, S))] /\ up' = up
  BY DEF AdmInval, _fspool_inval_pool_fschunk
<1>3. S = F
  <2>1. \A c \in ToSet(fs) : c \in Chunk
    BY <1>1 DEF ToSet
  <2>2. \A c \in ToSet(fs) : fschunk_invalidate_chunk(c).act = "DO_Inval" <=> c.st = "Free"
    BY <2>1, ChunkInval
  <2> QED BY <2>2
<1>4. Total(Among(fs, S)) = FreeLen(fs)
  BY <1>3 DEF FreeLen
<1>5. FreeLen(fs) \in Nat
  BY <1>1, FreeType
<1> HIDE DEF S
<1>6. size'.remaining = size.remaining - FreeLen(fs)
  BY <1>1, <1>2, <1>4
<1>7. FreeLen(fs') = 0
  <2>1. \A i \in DOMAIN fs : fs[i] \in Chunk
    BY <1>1
  <2>2. \A i \in DOMAIN fs' : fs'[i].st # "Free"
    BY <1>2, <2>1, ChunkInval
  <2> QED BY <1>1, <2>2, FreeNone
<1> QED BY <1>2, <1>5, <1>6, <1>7 DEF RemainInv

(* Only chunks that are not free are reported, and leave the list.          *)
LEMMA RemainAdmUnuse ==
  ASSUME TypeInv, TypeInv', RemainInv, AdmUnuse PROVE RemainInv'
<1>1. /\ fs \in Seq(Chunk) /\ fs' \in Seq(Chunk) /\ UNCHANGED <<size, up>>
      /\ fs' = [i \in DOMAIN fs |-> update_fschunk_state(fs[i], "ReportFree").c]
  BY DEF TypeInv, PoolType, AdmUnuse
<1>2. \A i \in DOMAIN fs : Weight(fs'[i]) = Weight(fs[i])
  <2>1. \A i \in DOMAIN fs : fs[i] \in Chunk
    BY <1>1
  <2> QED BY <1>1, <2>1, ChunkReport DEF Weight, Restated
<1>3. DOMAIN fs' = DOMAIN fs
  BY <1>1
<1>4. FreeLen(fs') = FreeLen(fs)
  BY <1>1, <1>2, <1>3, FreeSame
<1> QED BY <1>1, <1>4 DEF RemainInv

LEMMA RemainAdmClean ==
  ASSUME TypeInv, RemainInv, AdmClean PROVE RemainInv'
<1> DEFINE S == {c \in ToSet(fs) : update_fschunk_state(c, "CleanSpace").act # "DO_Clean"}
<1>1. fs \in Seq(Chunk) /\ fs' = Among(fs, S) /\ UNCHANGED <<size, up>>
  BY DEF TypeInv, PoolType, AdmClean
<1>2. \A c \in Chunk : c.st = "Free" => update_fschunk_state(c, "CleanSpace").act # "DO_Clean"
  BY DEF update_fschunk_state, _update_fschunkFree, To, Chunk
<1>3. \A i \in DOMAIN fs : fs[i] \notin S => fs[i].st # "Free"
  <2>1. \A i \in DOMAIN fs : fs[i] \in Chunk /\ fs[i] \in ToSet(fs)
    BY <1>1 DEF ToSet
  <2> QED BY <1>2, <2>1
<1> HIDE DEF S
<1>4. FreeLen(Among(fs, S)) = FreeLen(fs)
  BY <1>1, <1>3, FreeAmong
<1> QED BY <1>1, <1>4 DEF RemainInv

(* The steps that leave the chunks and fsSize_remaining alone.              *)
LEMMA RemainSame ==
  ASSUME RemainInv, fs' = fs, up' = up, size'.remaining = size.remaining PROVE RemainInv'
  BY DEF RemainInv

LEMMA RemainStep ==
  ASSUME TypeInv, TypeInv', RemainInv, [Next]_vars PROVE RemainInv'
<1>0. size \in [remaining : Int, requesting : Int]
  BY DEF TypeInv, PoolType
<1>1. CASE UNCHANGED <<fs, size, up>>
  BY <1>1, RemainSame
<1>2. CASE AckCounts \/ AdmAlloc
  <2>1. fs' = fs /\ up' = up /\ size'.remaining = size.remaining
    BY <1>0, <1>2 DEF AckCounts, AdmAlloc
  <2> QED BY <2>1, RemainSame
<1>3. CASE fspool_free_pool
  BY <1>3 DEF fspool_free_pool, RemainInv
<1>4. CASE UNCHANGED vars
  BY <1>1, <1>4 DEF vars
<1>5. CASE \E w \in Writer : WriterLocks(w) \/ WriterAllocs(w)
  <2>1. ASSUME NEW w \in Writer, WriterLocks(w) PROVE RemainInv'
    BY <1>1, <2>1 DEF WriterLocks
  <2> QED BY <1>5, <2>1, RemainAllocs
<1>6. CASE WorkerSends \/ WorkerFlushes \/ NNAnswers
  BY <1>1, <1>6 DEF WorkerSends, WorkerFlushes, NNAnswers
<1>7. CASE AckServes \/ AckFlush \/ AckReturn
  BY <1>1, <1>7 DEF AckServes, AckFlush, AckReturn
<1>8. CASE Ack
  BY <1>2, <1>7, <1>8, RemainAckPrealloc, RemainAllocs DEF Ack
<1>9. CASE AdmFlush \/ AdmFlushed \/ \E x \in Ioctl : AdmStarts(x)
  BY <1>1, <1>9 DEF AdmFlush, AdmFlushed, AdmStarts
<1>10. CASE Adm
  BY <1>2, <1>3, <1>9, <1>10, RemainAdmInval, RemainAdmUnuse, RemainAdmClean DEF Adm
<1> QED BY <1>4, <1>5, <1>6, <1>8, <1>10 DEF Next

LEMMA RemainInit == Init => RemainInv
  BY FreeEmpty DEF Init, fspool_init_pool, RemainInv

LEMMA RemainHolds == Spec => []RemainInv
<1>1. TypeInv /\ TypeInv' /\ RemainInv /\ [Next]_vars => RemainInv'
  BY RemainStep
<1> QED BY RemainInit, SpaceTyped, <1>1, PTL DEF Spec

(* The counters of the pool say what its lists and the queues hold, in      *)
(* every state while the pool lives (_fspool_add_fschunk, fspool_alloc_space, *)
(* _fspool_inval_pool_fschunk, _NNC_MDReq_preallocSpace_endfn), whatever    *)
(* the writes, the grants, the ioctls and their interleaving.               *)
THEOREM SizesTrue == Spec => []SizesAreTrue
<1>1. CoreInv /\ RemainInv => SizesAreTrue
  BY DEF CoreInv, WaitInv, RemainInv, SizesAreTrue, FreeLen, Pending
<1> QED BY CoreHolds, RemainHolds, <1>1, PTL

-----------------------------------------------------------------------------
(* What a detach leaves.  First, what the queues hold together: a task      *)
(* moves from one to the next.                                              *)
Flushes(x) == {k \in Task : k.kind = "flush" /\ k.u.lb = x}
AdmTasks == {k \in Task : k.by = "adm"}
AtBlock(x, st) == {u \in Unit : u.lb = x /\ u.st = st}
Sum3(K) == Cnt(wq, K) + Cnt(sent, K) + Cnt(reps, K)
AllTasks == ToSet(wq) \cup ToSet(sent) \cup ToSet(reps)

LEMMA SetFacts ==
  ASSUME NEW E, NEW s \in Seq(E)
  PROVE  /\ ToSet(s) \subseteq E
         /\ \A e : e \in ToSet(s) <=> \E i \in DOMAIN s : s[i] = e
  BY DEF ToSet

LEMMA SetCat ==
  ASSUME NEW E, NEW s \in Seq(E), NEW t \in Seq(E)
  PROVE  ToSet(s \o t) = ToSet(s) \cup ToSet(t)
<1>1. /\ s \o t \in Seq(E)
      /\ \A j \in DOMAIN s : j \in DOMAIN (s \o t) /\ (s \o t)[j] = s[j]
      /\ \A j \in DOMAIN t : Len(s) + j \in DOMAIN (s \o t) /\ (s \o t)[Len(s) + j] = t[j]
      /\ \A j \in DOMAIN (s \o t) : j \notin DOMAIN s =>
           j - Len(s) \in DOMAIN t /\ (s \o t)[j] = t[j - Len(s)]
  BY CatFacts
<1>2. ASSUME NEW e PROVE e \in ToSet(s \o t) <=> e \in ToSet(s) \/ e \in ToSet(t)
  <2> DEFINE r == s \o t
  <2>1. /\ \A j \in DOMAIN s : j \in DOMAIN r /\ r[j] = s[j]
        /\ \A j \in DOMAIN t : Len(s) + j \in DOMAIN r /\ r[Len(s) + j] = t[j]
        /\ \A j \in DOMAIN r : j \notin DOMAIN s => j - Len(s) \in DOMAIN t /\ r[j] = t[j - Len(s)]
    BY <1>1
  <2> HIDE DEF r
  <2>2. (\E j \in DOMAIN r : r[j] = e) <=> (\E j \in DOMAIN s : s[j] = e) \/ (\E j \in DOMAIN t : t[j] = e)
    BY <2>1
  <2>3. e \in ToSet(r) <=> \E j \in DOMAIN r : r[j] = e
    BY DEF ToSet
  <2>4. (e \in ToSet(s) <=> \E j \in DOMAIN s : s[j] = e) /\ (e \in ToSet(t) <=> \E j \in DOMAIN t : t[j] = e)
    BY DEF ToSet
  <2> QED BY <2>2, <2>3, <2>4 DEF r
<1> QED BY <1>2

LEMMA SetAppend ==
  ASSUME NEW E, NEW s \in Seq(E), NEW e \in E
  PROVE  ToSet(Append(s, e)) = ToSet(s) \cup {e}
<1>1. Append(s, e) = s \o <<e>> /\ <<e>> \in Seq(E)
  BY AppendIsConcat
<1>2. ToSet(s \o <<e>>) = ToSet(s) \cup ToSet(<<e>>)
  BY <1>1, SetCat
<1>3. ToSet(<<e>>) = {e}
  <2>1. DOMAIN <<e>> = {1} /\ <<e>>[1] = e
    OBVIOUS
  <2> QED BY <2>1 DEF ToSet
<1> QED BY <1>1, <1>2, <1>3

LEMMA SetTail ==
  ASSUME NEW E, NEW s \in Seq(E), s # <<>>
  PROVE  ToSet(s) = ToSet(Tail(s)) \cup {Head(s)}
<1>1. /\ 1 \in DOMAIN s /\ s[1] = Head(s)
      /\ \A j \in DOMAIN Tail(s) : j + 1 \in DOMAIN s /\ Tail(s)[j] = s[j + 1]
      /\ \A j \in DOMAIN s : j # 1 => j - 1 \in DOMAIN Tail(s) /\ Tail(s)[j - 1] = s[j]
  BY TailFacts
<1> DEFINE t == Tail(s)
<1>2. \A e : (\E j \in DOMAIN s : s[j] = e) <=> (\E j \in DOMAIN t : t[j] = e) \/ e = Head(s)
  <2>1. /\ 1 \in DOMAIN s /\ s[1] = Head(s)
        /\ \A j \in DOMAIN t : j + 1 \in DOMAIN s /\ t[j] = s[j + 1]
        /\ \A j \in DOMAIN s : j # 1 => j - 1 \in DOMAIN t /\ t[j - 1] = s[j]
    BY <1>1
  <2> HIDE DEF t
  <2> QED BY <2>1
<1> HIDE DEF t
<1>3. \A e : e \in ToSet(s) <=> e \in ToSet(t) \/ e = Head(s)
  BY <1>2 DEF ToSet
<1> QED BY <1>3 DEF t

LEMMA SetRemove ==
  ASSUME NEW E, NEW s \in Seq(E), NEW i \in DOMAIN s
  PROVE  ToSet(s) = ToSet(RemoveAt(s, i)) \cup {s[i]}
<1> DEFINE t == RemoveAt(s, i)
<1>1. /\ \A j \in DOMAIN t : \E m \in DOMAIN s : t[j] = s[m] /\ m # i
      /\ \A m \in DOMAIN s : m # i => \E j \in DOMAIN t : t[j] = s[m]
  BY RemoveFacts
<1> HIDE DEF t
<1>2. \A e : (\E j \in DOMAIN s : s[j] = e) <=> (\E j \in DOMAIN t : t[j] = e) \/ e = s[i]
  BY <1>1
<1>3. \A e : e \in ToSet(s) <=> e \in ToSet(t) \/ e = s[i]
  BY <1>2 DEF ToSet
<1> QED BY <1>3 DEF t

(* Counts of nothing and of everything.                                     *)
LEMMA CntNone ==
  ASSUME NEW s, NEW K, \A i \in DOMAIN s : s[i] \notin K
  PROVE  Cnt(s, K) = 0
<1>1. {i \in DOMAIN s : s[i] \in K} = {}
  OBVIOUS
<1> QED BY <1>1, FS_EmptySet DEF Cnt

LEMMA CntEvery ==
  ASSUME NEW E, NEW s \in Seq(E), NEW K, \A i \in DOMAIN s : s[i] \in K
  PROVE  Cnt(s, K) = Len(s)
<1>1. DOMAIN s = 1..Len(s) /\ Len(s) \in Nat /\ 1 \in Int /\ Len(s) \in Int
  OBVIOUS
<1>2. {i \in DOMAIN s : s[i] \in K} = 1..Len(s)
  BY <1>1
<1>3. Cardinality(1..Len(s)) = IF 1 > Len(s) THEN 0 ELSE Len(s) - 1 + 1
  BY ONLY <1>1, FS_Interval
<1>4. Cnt(s, K) = Cardinality(1..Len(s))
  BY <1>2 DEF Cnt
<1>5. Cardinality(1..Len(s)) = Len(s)
  <2> DEFINE n == Len(s)
  <2>1. n \in Nat /\ Cardinality(1..n) = IF 1 > n THEN 0 ELSE n - 1 + 1
    BY <1>1, <1>3
  <2> HIDE DEF n
  <2>2. Cardinality(1..n) = n
    BY ONLY <2>1
  <2> QED BY <2>2 DEF n
<1> QED BY <1>4, <1>5

LEMMA CntPositive ==
  ASSUME NEW E, NEW s \in Seq(E), NEW K
  PROVE  /\ Cnt(s, K) = 0 => \A i \in DOMAIN s : s[i] \notin K
         /\ Cnt(s, K) # 0 => \E i \in DOMAIN s : s[i] \in K
<1> DEFINE I == {i \in DOMAIN s : s[i] \in K}
<1>1. IsFiniteSet(I)
  BY CntType
<1>2. Cardinality(I) = 0 <=> I = {}
  BY <1>1, FS_EmptySet
<1> QED BY <1>2 DEF Cnt

-----------------------------------------------------------------------------
(* The ways in which a step changes the queues.                             *)
Adds(q) == q \in Seq(Task) /\ wq' = wq \o q /\ UNCHANGED <<sent, reps>>
Sends == wq # <<>> /\ wq' = Tail(wq) /\ sent' = Append(sent, Head(wq)) /\ UNCHANGED reps
Answers(i) == /\ i \in DOMAIN sent /\ sent' = RemoveAt(sent, i)
              /\ reps' = Append(reps, sent[i]) /\ UNCHANGED wq
Acks == reps # <<>> /\ reps' = Tail(reps) /\ UNCHANGED <<wq, sent>>

LEMMA QueueTypes ==
  ASSUME TypeInv
  PROVE  /\ wq \in Seq(Task) /\ sent \in Seq(Task) /\ reps \in Seq(Task)
         /\ AllTasks \subseteq Task
         /\ \A K : Cnt(wq, K) \in Nat /\ Cnt(sent, K) \in Nat /\ Cnt(reps, K) \in Nat /\ Sum3(K) \in Nat
<1>1. wq \in Seq(Task) /\ sent \in Seq(Task) /\ reps \in Seq(Task)
  BY DEF TypeInv, QueueType
<1>2. AllTasks \subseteq Task
  BY <1>1, SetFacts DEF AllTasks
<1>3. \A K : Cnt(wq, K) \in Nat /\ Cnt(sent, K) \in Nat /\ Cnt(reps, K) \in Nat
  BY <1>1, CntType
<1>4. \A K : Sum3(K) \in Nat
  BY <1>3 DEF Sum3
<1> QED BY <1>1, <1>2, <1>3, <1>4

LEMMA AddsEffect ==
  ASSUME TypeInv, NEW q, Adds(q), NEW K
  PROVE  Sum3(K)' = Sum3(K) + Cnt(q, K) /\ AllTasks' = AllTasks \cup ToSet(q) /\ Cnt(q, K) \in Nat
<1>1. wq \in Seq(Task) /\ q \in Seq(Task) /\ wq' = wq \o q /\ sent' = sent /\ reps' = reps
  BY QueueTypes DEF Adds
<1>2. Cnt(wq', K) = Cnt(wq, K) + Cnt(q, K) /\ Cnt(q, K) \in Nat
  BY <1>1, CntCat, CntType
<1>3. ToSet(wq') = ToSet(wq) \cup ToSet(q)
  BY <1>1, SetCat
<1>4. Cnt(wq, K) \in Nat /\ Cnt(sent, K) \in Nat /\ Cnt(reps, K) \in Nat
  BY QueueTypes
<1>5. Sum3(K)' = Cnt(wq', K) + Cnt(sent, K) + Cnt(reps, K)
  BY <1>1 DEF Sum3, Cnt
<1>6. AllTasks' = ToSet(wq') \cup ToSet(sent) \cup ToSet(reps)
  BY <1>1 DEF AllTasks, ToSet
<1> QED BY <1>2, <1>3, <1>4, <1>5, <1>6 DEF Sum3, AllTasks

LEMMA SendsEffect ==
  ASSUME TypeInv, Sends, NEW K
  PROVE  Sum3(K)' = Sum3(K) /\ AllTasks' = AllTasks
<1>1. /\ wq \in Seq(Task) /\ sent \in Seq(Task) /\ wq # <<>> /\ Head(wq) \in Task
      /\ wq' = Tail(wq) /\ sent' = Append(sent, Head(wq)) /\ reps' = reps
  BY QueueTypes, TailFacts DEF Sends
<1> DEFINE e == IF Head(wq) \in K THEN 1 ELSE 0
<1>2. Cnt(wq', K) = Cnt(wq, K) - e
  BY <1>1, CntTail
<1>3. Cnt(sent', K) = Cnt(sent, K) + e
  BY <1>1, CntAppend
<1>4. e \in Nat
  OBVIOUS
<1> HIDE DEF e
<1>5. ToSet(wq) = ToSet(wq') \cup {Head(wq)} /\ ToSet(sent') = ToSet(sent) \cup {Head(wq)}
  BY <1>1, SetTail, SetAppend
<1>6. Cnt(wq, K) \in Nat /\ Cnt(sent, K) \in Nat /\ Cnt(reps, K) \in Nat
  BY QueueTypes
<1>7. Sum3(K)' = Cnt(wq', K) + Cnt(sent', K) + Cnt(reps, K)
  BY <1>1 DEF Sum3, Cnt
<1>8. AllTasks' = ToSet(wq') \cup ToSet(sent') \cup ToSet(reps)
  BY <1>1 DEF AllTasks, ToSet
<1>9. Sum3(K)' = Sum3(K)
  BY <1>2, <1>3, <1>4, <1>6, <1>7 DEF Sum3
<1> QED BY <1>5, <1>8, <1>9 DEF AllTasks

LEMMA AnswersEffect ==
  ASSUME TypeInv, NEW i, Answers(i), NEW K
  PROVE  Sum3(K)' = Sum3(K) /\ AllTasks' = AllTasks /\ ToSet(reps') = ToSet(reps) \cup {sent[i]}
<1>1. /\ reps \in Seq(Task) /\ sent \in Seq(Task) /\ i \in DOMAIN sent /\ sent[i] \in Task
      /\ sent' = RemoveAt(sent, i) /\ reps' = Append(reps, sent[i]) /\ wq' = wq
  BY QueueTypes DEF Answers
<1> DEFINE e == IF sent[i] \in K THEN 1 ELSE 0
<1>2. Cnt(sent', K) = Cnt(sent, K) - e
  BY <1>1, CntRemove
<1>3. Cnt(reps', K) = Cnt(reps, K) + e
  BY <1>1, CntAppend
<1>4. e \in Nat
  OBVIOUS
<1> HIDE DEF e
<1>5. ToSet(sent) = ToSet(sent') \cup {sent[i]} /\ ToSet(reps') = ToSet(reps) \cup {sent[i]}
  BY <1>1, SetRemove, SetAppend
<1>6. Cnt(wq, K) \in Nat /\ Cnt(sent, K) \in Nat /\ Cnt(reps, K) \in Nat
  BY QueueTypes
<1>7. Sum3(K)' = Cnt(wq, K) + Cnt(sent', K) + Cnt(reps', K)
  BY <1>1 DEF Sum3, Cnt
<1>8. AllTasks' = ToSet(wq) \cup ToSet(sent') \cup ToSet(reps')
  BY <1>1 DEF AllTasks, ToSet
<1>9. Sum3(K)' = Sum3(K)
  BY <1>2, <1>3, <1>4, <1>6, <1>7 DEF Sum3
<1> QED BY <1>5, <1>8, <1>9 DEF AllTasks

LEMMA AcksEffect ==
  ASSUME TypeInv, Acks, NEW K
  PROVE  /\ Sum3(K)' = Sum3(K) - (IF Head(reps) \in K THEN 1 ELSE 0)
         /\ AllTasks = AllTasks' \cup {Head(reps)} /\ ToSet(reps) = ToSet(reps') \cup {Head(reps)}
         /\ Head(reps) \in Task
<1>1. /\ reps \in Seq(Task) /\ reps # <<>> /\ Head(reps) \in Task
      /\ reps' = Tail(reps) /\ wq' = wq /\ sent' = sent
  BY QueueTypes, TailFacts DEF Acks
<1> DEFINE e == IF Head(reps) \in K THEN 1 ELSE 0
<1>2. Cnt(reps', K) = Cnt(reps, K) - e
  BY <1>1, CntTail
<1>3. e \in Nat
  OBVIOUS
<1>4. ToSet(reps) = ToSet(reps') \cup {Head(reps)}
  BY <1>1, SetTail
<1>5. Cnt(wq, K) \in Nat /\ Cnt(sent, K) \in Nat /\ Cnt(reps, K) \in Nat
  BY QueueTypes
<1>6. Sum3(K)' = Cnt(wq, K) + Cnt(sent, K) + Cnt(reps', K)
  BY <1>1 DEF Sum3, Cnt
<1>7. AllTasks' = ToSet(wq) \cup ToSet(sent) \cup ToSet(reps')
  BY <1>1 DEF AllTasks, ToSet
<1>8. Sum3(K)' = Sum3(K) - e
  <2> HIDE DEF e
  <2> QED BY <1>2, <1>3, <1>5, <1>6 DEF Sum3
<1> QED BY <1>1, <1>4, <1>7, <1>8 DEF AllTasks

LEMMA QueuesSame ==
  ASSUME UNCHANGED <<wq, sent, reps>>, NEW K
  PROVE  Sum3(K)' = Sum3(K) /\ AllTasks' = AllTasks
  BY DEF Sum3, AllTasks, Cnt, ToSet

-----------------------------------------------------------------------------
(* A flush: its tasks are the committed chunks, and all chunks are flushing *)
(* then.                                                                    *)
Going == {"Committed", "Flushing"}

LEMMA FlushedOne ==
  ASSUME NEW s \in Seq(Unit), \A i \in DOMAIN s : s[i].st \in Going
  PROVE  /\ Flushed(s) \in Seq(Unit) /\ DOMAIN Flushed(s) = DOMAIN s
         /\ \A i \in DOMAIN s : Flushed(s)[i].st = "Flushing" /\ Flushed(s)[i].lb = s[i].lb
<1>1. Flushed(s) \in Seq(Unit)
  <2>1. "none" \in {"none", "adm"}
    OBVIOUS
  <2> QED BY <2>1, FlushFacts
<1>2. Flushed(s) = [i \in DOMAIN s |-> [s[i] EXCEPT !.st = update_aschunk_state(@, "FlushSpace")]]
  BY DEF Flushed
<1>3. DOMAIN Flushed(s) = DOMAIN s
  BY <1>2
<1>4. ASSUME NEW i \in DOMAIN s PROVE Flushed(s)[i].st = "Flushing" /\ Flushed(s)[i].lb = s[i].lb
  <2>1. s[i] \in Unit /\ s[i].st \in Going
    OBVIOUS
  <2>2. update_aschunk_state(s[i].st, "FlushSpace") = "Flushing"
    BY <2>1 DEF update_aschunk_state, Going
  <2>3. Flushed(s)[i] = [s[i] EXCEPT !.st = update_aschunk_state(@, "FlushSpace")]
    BY <1>2
  <2> QED BY <2>1, <2>2, <2>3 DEF Unit
<1> QED BY <1>1, <1>3, <1>4

TellsAll(f, s) == \A j \in DOMAIN s : s[j].st = "Committed" => \E i \in DOMAIN f : f[i].u = s[j]

LEMMA TasksOfFlush ==
  ASSUME NEW s \in Seq(Unit), NEW by \in {"none", "adm"}
  PROVE  /\ FlushTasks(s, by) \in Seq(Task) /\ Len(FlushTasks(s, by)) = Len(Flushable(s))
         /\ \A i \in DOMAIN FlushTasks(s, by) :
              FlushTasks(s, by)[i].kind = "flush" /\ FlushTasks(s, by)[i].by = by
         /\ TellsAll(FlushTasks(s, by), s)
         /\ \A x : Cnt(FlushTasks(s, by), Flushes(x)) = Cnt(s, AtBlock(x, "Committed"))
<1> DEFINE S == {u \in ToSet(s) : u.st = "Committed"}
           q == Flushable(s)
           f == FlushTasks(s, by)
<1>1. q = Among(s, S)
  BY DEF Flushable
<1>2. \A j \in DOMAIN s : s[j] \in S <=> s[j].st = "Committed"
  BY SetFacts
<1> HIDE DEF S
<1>3. q \in Seq(Unit) /\ \E m : Picks(m, q, s, Len(s), S)
  BY <1>1, AmongPicks
<1> HIDE DEF q
<1>4. PICK m : Picks(m, q, s, Len(s), S)
  BY <1>3
<1>5. /\ DOMAIN q = 1..Len(q) /\ DOMAIN s = 1..Len(s) /\ Len(q) \in Nat
      /\ \A i \in DOMAIN q : q[i] \in Unit
      /\ \A i \in DOMAIN s : s[i] \in Unit
  BY <1>3
<1>6. f = [i \in DOMAIN q |-> FlushTask(q[i], by)]
  BY DEF FlushTasks, q
<1>7. f \in Seq(Task)
  BY FlushFacts
<1>8. DOMAIN f = DOMAIN q /\ Len(f) = Len(q)
  <2>1. DOMAIN f = DOMAIN q
    BY <1>6
  <2> HIDE DEF f
  <2>2. Len(f) \in Nat /\ DOMAIN f = 1..Len(f)
    BY <1>7
  <2> QED BY <1>5, <2>1, <2>2
<1>9. \A i \in DOMAIN q : f[i].kind = "flush" /\ f[i].by = by /\ f[i].u = q[i] /\ f[i] \in Task
  BY <1>5, <1>6 DEF FlushTask, Task
<1> HIDE DEF f
<1>10. TellsAll(f, s)
  BY <1>2, <1>4, <1>5, <1>8, <1>9 DEF Picks, TellsAll
<1>11. ASSUME NEW x PROVE Cnt(f, Flushes(x)) = Cnt(s, AtBlock(x, "Committed"))
  <2> DEFINE I == {i \in DOMAIN f : f[i] \in Flushes(x)}
             J == {j \in DOMAIN s : s[j] \in AtBlock(x, "Committed")}
             g == [i \in I |-> m[i]]
  <2>1. \A i \in DOMAIN q : i \in I <=> q[i].lb = x
    BY <1>8, <1>9 DEF Flushes
  <2>2. I \subseteq 1..Len(q)
    BY <1>5, <1>8
  <2>3. \A j \in DOMAIN s : j \in J <=> s[j].lb = x /\ s[j].st = "Committed"
    BY <1>5 DEF AtBlock
  <2>4. IsFiniteSet(I)
    BY <1>7, CntType
  <2> HIDE DEF I
  <2>5. \A i \in I : m[i] \in J
    <3> SUFFICES ASSUME NEW i \in I PROVE m[i] \in J
      OBVIOUS
    <3>1. i \in 1..Len(q) /\ m[i] \in 1..Len(s) /\ q[i] = s[m[i]] /\ s[m[i]] \in S
      BY <2>2, <1>4 DEF Picks
    <3>2. q[i].lb = x
      BY <1>5, <2>1, <3>1
    <3> QED BY <1>2, <1>5, <2>3, <3>1, <3>2
  <2>6. \A j \in J : \E i \in I : m[i] = j
    <3> SUFFICES ASSUME NEW j \in J PROVE \E i \in I : m[i] = j
      OBVIOUS
    <3>1. j \in DOMAIN s /\ s[j].lb = x /\ s[j] \in S
      BY <1>2, <2>3
    <3>2. PICK i \in 1..Len(q) : m[i] = j
      BY <1>4, <1>5, <3>1 DEF Picks
    <3>3. q[i] = s[j]
      BY <1>4, <3>2 DEF Picks
    <3> QED BY <1>5, <2>1, <3>1, <3>2, <3>3
  <2>7. \A i, k \in I : m[i] = m[k] => i = k
    <3> SUFFICES ASSUME NEW i \in I, NEW k \in I, m[i] = m[k] PROVE i = k
      OBVIOUS
    <3>1. i \in 1..Len(q) /\ k \in 1..Len(q) /\ m[i] \in Int /\ m[k] \in Int
      BY <2>2, <1>4 DEF Picks
    <3>2. ~(i < k) /\ ~(k < i)
      <4>1. i < k => m[i] < m[k]
        BY <1>4, <3>1 DEF Picks
      <4>2. k < i => m[k] < m[i]
        BY <1>4, <3>1 DEF Picks
      <4> QED BY <3>1, <4>1, <4>2
    <3> QED BY <1>5, <3>1, <3>2
  <2> HIDE DEF J
  <2>8. g \in Bijection(I, J)
    <3>1. g \in [I -> J] /\ \A i \in I : g[i] = m[i]
      BY <2>5
    <3> HIDE DEF g
    <3> QED BY <2>6, <2>7, <3>1 DEF Bijection, Injection, Surjection, IsInjective
  <2>9. Cardinality(J) = Cardinality(I)
    BY <2>4, <2>8, FS_Bijection DEF ExistsBijection
  <2> QED BY <2>9 DEF I, J, Cnt
<1> QED BY <1>7, <1>8, <1>9, <1>10, <1>11 DEF f, q

(* The flushing chunks after a flush.                                       *)
LEMMA FlushingCount ==
  ASSUME NEW s \in Seq(Unit), \A i \in DOMAIN s : s[i].st \in Going, NEW x
  PROVE  Cnt(Flushed(s), AtBlock(x, "Flushing"))
           = Cnt(s, AtBlock(x, "Flushing")) + Cnt(s, AtBlock(x, "Committed"))
<1> DEFINE f == Flushed(s)
           I == {i \in DOMAIN s : s[i] \in AtBlock(x, "Flushing")}
           J == {i \in DOMAIN s : s[i] \in AtBlock(x, "Committed")}
           H == {i \in DOMAIN f : f[i] \in AtBlock(x, "Flushing")}
<1>1. /\ f \in Seq(Unit) /\ DOMAIN f = DOMAIN s
      /\ \A i \in DOMAIN s : f[i].st = "Flushing" /\ f[i].lb = s[i].lb
  BY FlushedOne
<1>2. \A i \in DOMAIN s : s[i] \in Unit /\ f[i] \in Unit
  BY <1>1
<1> HIDE DEF f
<1>3. H = I \cup J /\ I \cap J = {}
  BY <1>1, <1>2 DEF AtBlock, Going
<1>4. IsFiniteSet(I) /\ IsFiniteSet(J) /\ Cardinality(I) \in Nat /\ Cardinality(J) \in Nat
  <2>1. IsFiniteSet(I)
    BY CntType
  <2>2. IsFiniteSet(J)
    BY CntType
  <2> QED BY <2>1, <2>2, FS_CardinalityType
<1> HIDE DEF I, J, H
<1>5. Cardinality(H) = Cardinality(I) + Cardinality(J) - Cardinality({})
  BY <1>3, <1>4, FS_Union
<1>6. Cardinality(H) = Cardinality(I) + Cardinality(J)
  BY <1>4, <1>5, FS_EmptySet
<1> QED BY <1>6 DEF H, I, J, f, Cnt

-----------------------------------------------------------------------------
(* Every part that was given is on the list of allocated chunks, or the     *)
(* namenode is being told of it or knows it.  A flush takes all chunks, so  *)
(* the flushing ones come first, and there are as many of them at a block   *)
(* as tasks: the answer to a task takes a flushing chunk from the list.     *)
Units == UNION {ToSet(wr[w].md) : w \in Writer}
Tells(K) == {k.u : k \in {k \in K : k.kind = "flush"}}
Ordered(s) ==
  /\ \A i \in DOMAIN s : s[i].st \in Going
  /\ \A i, j \in DOMAIN s : i < j /\ s[j].st = "Flushing" => s[i].st = "Flushing"
FlushInv == up => \A x \in Nat : Sum3(Flushes(x)) = Cnt(as, AtBlock(x, "Flushing"))
ToldInv ==
  /\ Tells(ToSet(reps)) \subseteq nn.told
  /\ \A u \in Units : u.st = "Committed"
  /\ \A u \in Units : u \in nn.told \cup Tells(AllTasks) \/ (up /\ u \in ToSet(as))
TellInv == Ordered(as) /\ FlushInv /\ ToldInv

LEMMA OrderedCat ==
  ASSUME NEW s \in Seq(Unit), NEW t \in Seq(Unit), Ordered(s),
         \A i \in DOMAIN t : t[i].st = "Committed"
  PROVE  Ordered(s \o t)
<1> DEFINE r == s \o t
<1>1. /\ \A j \in DOMAIN s : r[j] = s[j]
      /\ \A j \in DOMAIN r : j \notin DOMAIN s => j - Len(s) \in DOMAIN t /\ r[j] = t[j - Len(s)]
      /\ DOMAIN s = 1..Len(s) /\ DOMAIN r \subseteq Nat \ {0} /\ Len(s) \in Nat
  <2>1. r \in Seq(Unit)
    BY CatFacts
  <2> HIDE DEF r
  <2>2. DOMAIN r \subseteq Nat \ {0} /\ DOMAIN s = 1..Len(s) /\ Len(s) \in Nat
    BY <2>1
  <2> QED BY <2>2, CatFacts DEF r
<1> HIDE DEF r
<1>2. \A j \in DOMAIN r : j \notin DOMAIN s => r[j].st = "Committed"
  BY <1>1
<1>3. \A j \in DOMAIN r : r[j].st \in Going
  BY <1>1, <1>2 DEF Ordered, Going
<1>4. \A i, j \in DOMAIN r : i < j /\ r[j].st = "Flushing" => r[i].st = "Flushing"
  <2> SUFFICES ASSUME NEW i \in DOMAIN r, NEW j \in DOMAIN r, i < j, r[j].st = "Flushing"
               PROVE  r[i].st = "Flushing"
    OBVIOUS
  <2>1. j \in DOMAIN s
    BY <1>2
  <2>2. i \in DOMAIN s
    BY <1>1, <2>1
  <2> QED BY <1>1, <2>1, <2>2 DEF Ordered
<1> QED BY <1>3, <1>4 DEF Ordered, r

LEMMA OrderedRemove ==
  ASSUME NEW s \in Seq(Unit), NEW i \in DOMAIN s, Ordered(s)
  PROVE  Ordered(RemoveAt(s, i))
<1> DEFINE r == RemoveAt(s, i)
<1>1. /\ i \in 1..Len(s) /\ Len(s) \in Nat /\ DOMAIN s = 1..Len(s)
      /\ DOMAIN r = 1..(Len(s) - 1)
      /\ \A j \in 1..(i - 1) : r[j] = s[j]
      /\ \A j \in i..(Len(s) - 1) : r[j] = s[j + 1]
  BY RemoveIndex
<1> HIDE DEF r
<1> DEFINE p(j) == IF j < i THEN j ELSE j + 1
<1>2. \A j \in DOMAIN r : p(j) \in DOMAIN s /\ r[j] = s[p(j)]
  BY <1>1
<1>3. \A j, k \in DOMAIN r : j < k => p(j) < p(k)
  BY <1>1
<1> HIDE DEF p
<1> QED BY <1>2, <1>3 DEF Ordered, r

LEMMA OrderedFlushed ==
  ASSUME NEW s \in Seq(Unit), Ordered(s)
  PROVE  Ordered(Flushed(s))
<1>1. \A i \in DOMAIN s : s[i].st \in Going
  BY DEF Ordered
<1>2. DOMAIN Flushed(s) = DOMAIN s /\ \A i \in DOMAIN s : Flushed(s)[i].st = "Flushing"
  BY <1>1, FlushedOne
<1> QED BY <1>2 DEF Ordered, Going

LEMMA TellsUnion ==
  ASSUME NEW K, NEW L PROVE Tells(K \cup L) = Tells(K) \cup Tells(L)
  BY DEF Tells

LEMMA TellsOne ==
  ASSUME NEW k
  PROVE  Tells({k}) = IF k.kind = "flush" THEN {k.u} ELSE {}
  BY DEF Tells

LEMMA UnitsType ==
  ASSUME TypeInv PROVE Units \subseteq Unit /\ as \in Seq(Unit) /\ up \in BOOLEAN
<1>1. \A w \in Writer : wr[w].md \in Seq(Unit)
  BY DEF TypeInv, WriterType, WriterRec
<1>2. \A w \in Writer : ToSet(wr[w].md) \subseteq Unit
  BY <1>1, SetFacts
<1> QED BY <1>2 DEF Units, TypeInv, PoolType, ThreadType

LEMMA UnitsSame == ASSUME SameMd PROVE Units' = Units
  BY DEF Units, SameMd, ToSet

(* New parts, and perhaps a flush.                                          *)
LEMMA TellGrows ==
  ASSUME TypeInv, TellInv, up, up' = up, UNCHANGED nn,
         NEW us \in Seq(Unit), \A i \in DOMAIN us : us[i].st = "Committed",
         Units' = Units \cup ToSet(us), NEW by \in {"none", "adm"}, NEW q,
         NEW more \in Seq(Task), \A i \in DOMAIN more : more[i].kind # "flush",
         \/ as' = as \o us /\ q = <<>>
         \/ as' = Flushed(as \o us) /\ q = FlushTasks(as \o us, by),
         Adds(q \o more)
  PROVE  TellInv'
<1> DEFINE s == as \o us
<1>1. /\ as \in Seq(Unit) /\ s \in Seq(Unit) /\ Ordered(as)
  BY UnitsType, CatFacts DEF TellInv
<1>2. Ordered(s)
  BY <1>1, OrderedCat
<1>3. ToSet(s) = ToSet(as) \cup ToSet(us)
  <2>1. as \in Seq(Unit) /\ us \in Seq(Unit)
    BY <1>1
  <2> QED BY ONLY <2>1, SetCat
<1>0. (as' = s /\ q = <<>>) \/ (as' = Flushed(s) /\ q = FlushTasks(s, by))
  OBVIOUS
<1>4. ASSUME NEW x PROVE Cnt(s, AtBlock(x, "Flushing")) = Cnt(as, AtBlock(x, "Flushing"))
  <2>1. Cnt(us, AtBlock(x, "Flushing")) = 0
    <3>1. \A i \in DOMAIN us : us[i] \notin AtBlock(x, "Flushing")
      BY DEF AtBlock
    <3> QED BY <3>1, CntNone
  <2>2. Cnt(s, AtBlock(x, "Flushing")) = Cnt(as, AtBlock(x, "Flushing")) + Cnt(us, AtBlock(x, "Flushing"))
    <3>1. as \in Seq(Unit) /\ us \in Seq(Unit)
      BY <1>1
    <3> QED BY ONLY <3>1, CntCat
  <2>3. Cnt(as, AtBlock(x, "Flushing")) \in Nat
    BY <1>1, CntType
  <2>4. \A a, b, c : a = b + c /\ c = 0 /\ b \in Nat => a = b
    OBVIOUS
  <2> HIDE DEF s
  <2> QED BY ONLY <2>1, <2>2, <2>3, <2>4
<1> HIDE DEF s
<1>5. (as' = s /\ q = <<>>) \/ (as' = Flushed(s) /\ q = FlushTasks(s, by))
  BY <1>0
<1>t. /\ FlushTasks(s, by) \in Seq(Task)
      /\ TellsAll(FlushTasks(s, by), s)
  <2>1. s \in Seq(Unit) /\ by \in {"none", "adm"}
    BY <1>1
  <2> QED BY ONLY <2>1, TasksOfFlush
<1>6. q \in Seq(Task)
  <2>1. <<>> \in Seq(Task)
    OBVIOUS
  <2> QED BY <1>5, <1>t, <2>1
<1>7. ASSUME NEW x
      PROVE  Sum3(Flushes(x))' = Sum3(Flushes(x)) + Cnt(q, Flushes(x)) /\ Cnt(q, Flushes(x)) \in Nat
  <2>1. Sum3(Flushes(x))' = Sum3(Flushes(x)) + Cnt(q \o more, Flushes(x))
    BY AddsEffect
  <2>2. Cnt(q \o more, Flushes(x)) = Cnt(q, Flushes(x)) + Cnt(more, Flushes(x))
    BY <1>6, CntCat
  <2>3. Cnt(more, Flushes(x)) = 0
    <3>1. \A i \in DOMAIN more : more[i] \notin Flushes(x)
      BY DEF Flushes
    <3> QED BY <3>1, CntNone
  <2>4. Cnt(q, Flushes(x)) \in Nat
    BY <1>6, CntType
  <2> QED BY <2>1, <2>2, <2>3, <2>4
<1>8. AllTasks' = AllTasks \cup ToSet(q) \cup ToSet(more)
  <2>1. AllTasks' = AllTasks \cup ToSet(q \o more)
    BY AddsEffect
  <2>2. ToSet(q \o more) = ToSet(q) \cup ToSet(more)
    BY <1>6, SetCat
  <2> QED BY <2>1, <2>2
<1>9. Tells(AllTasks) \cup Tells(ToSet(q)) \subseteq Tells(AllTasks')
  BY <1>8, TellsUnion
<1>10. reps' = reps /\ nn' = nn
  BY DEF Adds
<1>11. \A u \in Units' : u.st = "Committed" /\ (u \in Units \/ u \in ToSet(s))
  <2>1. \A u \in ToSet(us) : u.st = "Committed"
    <3>1. \A u \in ToSet(us) : \E i \in DOMAIN us : us[i] = u
      BY SetFacts
    <3> QED BY <3>1
  <2>2. \A u \in Units : u.st = "Committed"
    BY DEF TellInv, ToldInv
  <2>3. Units' = Units \cup ToSet(us)
    OBVIOUS
  <2> QED BY ONLY <1>3, <2>1, <2>2, <2>3
<1>12. Tells(ToSet(reps')) \subseteq nn'.told
  BY <1>10 DEF TellInv, ToldInv, Tells, ToSet
<1>13. CASE as' = s /\ q = <<>>
  <2>1. FlushInv'
    <3> SUFFICES ASSUME NEW x \in Nat PROVE Sum3(Flushes(x))' = Cnt(as', AtBlock(x, "Flushing"))
      BY DEF FlushInv, Cnt
    <3>1. Cnt(q, Flushes(x)) = 0
      <4>1. DOMAIN q = {}
        BY <1>13
      <4> QED BY <4>1, CntNone
    <3>2. Sum3(Flushes(x)) = Cnt(as, AtBlock(x, "Flushing")) /\ Sum3(Flushes(x)) \in Nat
      BY QueueTypes DEF TellInv, FlushInv
    <3>3. Cnt(as', AtBlock(x, "Flushing")) = Cnt(as, AtBlock(x, "Flushing"))
      BY <1>4, <1>13
    <3>4. Sum3(Flushes(x))' = Sum3(Flushes(x)) + Cnt(q, Flushes(x))
      BY <1>7
    <3>5. \A a, b, c, d : a = b + c /\ c = 0 /\ b = d /\ b \in Nat => a = d
      OBVIOUS
    <3> QED BY ONLY <3>1, <3>2, <3>3, <3>4, <3>5
  <2>2. \A u \in Units' : u \in nn'.told \cup Tells(AllTasks') \/ u \in ToSet(as')
    <3> SUFFICES ASSUME NEW u \in Units' PROVE u \in nn'.told \cup Tells(AllTasks') \/ u \in ToSet(as')
      OBVIOUS
    <3>1. CASE u \in ToSet(s)
      BY <1>13, <3>1
    <3>2. CASE u \in Units
      BY <1>3, <1>9, <1>10, <1>13, <3>2 DEF TellInv, ToldInv
    <3> QED BY <1>11, <3>1, <3>2
  <2> QED BY <1>2, <1>10, <1>11, <1>12, <1>13, <2>1, <2>2 DEF TellInv, ToldInv, Ordered, Tells, ToSet
<1>14. CASE as' = Flushed(s) /\ q = FlushTasks(s, by)
  <2>1. FlushInv'
    <3> SUFFICES ASSUME NEW x \in Nat PROVE Sum3(Flushes(x))' = Cnt(as', AtBlock(x, "Flushing"))
      BY DEF FlushInv, Cnt
    <3>1. Cnt(q, Flushes(x)) = Cnt(s, AtBlock(x, "Committed"))
      BY <1>1, <1>14, TasksOfFlush
    <3>2. Sum3(Flushes(x)) = Cnt(as, AtBlock(x, "Flushing")) /\ Sum3(Flushes(x)) \in Nat
      BY QueueTypes DEF TellInv, FlushInv
    <3>3. Cnt(Flushed(s), AtBlock(x, "Flushing"))
            = Cnt(s, AtBlock(x, "Flushing")) + Cnt(s, AtBlock(x, "Committed"))
      BY <1>1, <1>2, FlushingCount DEF Ordered
    <3>4. Cnt(s, AtBlock(x, "Flushing")) = Cnt(as, AtBlock(x, "Flushing"))
      BY <1>4
    <3>5. Sum3(Flushes(x))' = Sum3(Flushes(x)) + Cnt(q, Flushes(x))
      BY <1>7
    <3>6. Cnt(as', AtBlock(x, "Flushing")) = Cnt(Flushed(s), AtBlock(x, "Flushing"))
      BY <1>14
    <3> QED BY ONLY <3>1, <3>2, <3>3, <3>4, <3>5, <3>6
  <2>2. \A u \in Units' : u \in nn'.told \cup Tells(AllTasks')
    <3> SUFFICES ASSUME NEW u \in Units' PROVE u \in nn'.told \cup Tells(AllTasks')
      OBVIOUS
    <3>1. CASE u \in ToSet(s)
      <4>1. PICK j \in DOMAIN s : s[j] = u
        BY <3>1, <1>1, SetFacts
      <4>b. s[j].st = "Committed"
        BY <1>11, <4>1
      <4>2. PICK i \in DOMAIN q : q[i].u = u
        BY ONLY <1>14, <1>t, <4>1, <4>b DEF TellsAll
      <4>3. q[i].kind = "flush" /\ q[i] \in ToSet(q)
        BY <1>1, <1>6, <1>14, TasksOfFlush, SetFacts
      <4>4. u \in Tells(ToSet(q))
        BY <4>2, <4>3 DEF Tells
      <4> QED BY <1>9, <4>4
    <3>2. CASE u \in Units
      BY <1>3, <1>9, <1>10, <3>1, <3>2 DEF TellInv, ToldInv
    <3> QED BY <1>11, <3>1, <3>2
  <2>3. Ordered(as')
    BY <1>1, <1>2, <1>14, OrderedFlushed
  <2> QED BY <1>10, <1>11, <1>12, <2>1, <2>2, <2>3 DEF TellInv, ToldInv, Ordered, Tells, ToSet
<1> QED BY <1>5, <1>13, <1>14

(* Steps that leave the parts and the list alone.                           *)
LEMMA TellQuiet ==
  ASSUME TypeInv, TellInv, UNCHANGED <<as, up>>, Units' = Units,
         Tells(ToSet(reps')) \subseteq nn'.told, nn.told \subseteq nn'.told,
         Tells(AllTasks) \subseteq Tells(AllTasks') \cup nn'.told,
         \A x \in Nat : Sum3(Flushes(x))' = Sum3(Flushes(x))
  PROVE  TellInv'
<1>1. Ordered(as')
  BY DEF TellInv
<1>2. FlushInv'
  <2> SUFFICES ASSUME up', NEW x \in Nat PROVE Sum3(Flushes(x))' = Cnt(as', AtBlock(x, "Flushing"))
    BY DEF FlushInv, Cnt
  <2> QED BY DEF TellInv, FlushInv
<1>3. \A u \in Units' : /\ u.st = "Committed"
                        /\ u \in nn'.told \cup Tells(AllTasks') \/ (up' /\ u \in ToSet(as'))
  BY DEF TellInv, ToldInv
<1> QED BY <1>1, <1>2, <1>3 DEF TellInv, ToldInv, Ordered, Tells, ToSet

LEMMA TellSame ==
  ASSUME TypeInv, TellInv, UNCHANGED <<as, up, nn, wq, sent, reps>>, Units' = Units
  PROVE  TellInv'
<1>1. AllTasks' = AllTasks /\ \A x \in Nat : Sum3(Flushes(x))' = Sum3(Flushes(x))
  BY QueuesSame
<1>2. Tells(ToSet(reps')) \subseteq nn'.told
  BY DEF TellInv, ToldInv
<1> QED BY <1>1, <1>2, TellQuiet

LEMMA TellMoreTasks ==
  ASSUME TypeInv, TellInv, UNCHANGED <<as, up, nn>>, Units' = Units, NEW q, Adds(q),
         \A i \in DOMAIN q : q[i].kind # "flush"
  PROVE  TellInv'
<1>1. q \in Seq(Task) /\ reps' = reps
  BY DEF Adds
<1>2. AllTasks \subseteq AllTasks'
  BY AddsEffect
<1>3. Tells(AllTasks) \subseteq Tells(AllTasks')
  BY <1>2 DEF Tells
<1>4. ASSUME NEW x PROVE Sum3(Flushes(x))' = Sum3(Flushes(x))
  <2>1. \A i \in DOMAIN q : q[i] \notin Flushes(x)
    BY DEF Flushes
  <2>2. Cnt(q, Flushes(x)) = 0
    BY <2>1, CntNone
  <2>3. Sum3(Flushes(x)) \in Nat
    BY QueueTypes
  <2> QED BY <2>2, <2>3, AddsEffect
<1>5. Tells(ToSet(reps')) \subseteq nn'.told
  BY <1>1 DEF TellInv, ToldInv
<1> QED BY <1>3, <1>4, <1>5, TellQuiet

LEMMA TellSends ==
  ASSUME TypeInv, TellInv, WorkerSends PROVE TellInv'
<1>1. Sends /\ UNCHANGED <<as, up, nn, reps, wr>>
  BY DEF WorkerSends, Sends, discoC_send_fsReq
<1>2. AllTasks' = AllTasks /\ \A x \in Nat : Sum3(Flushes(x))' = Sum3(Flushes(x))
  BY <1>1, SendsEffect
<1>3. Tells(ToSet(reps')) \subseteq nn'.told /\ Units' = Units
  BY <1>1, UnitsSame DEF TellInv, ToldInv, SameMd
<1> QED BY <1>1, <1>2, <1>3, TellQuiet

LEMMA TellAnswers ==
  ASSUME TypeInv, TellInv, NNAnswers PROVE TellInv'
<1>1. PICK i \in DOMAIN sent : \E x \in 0..Extra :
        /\ sent' = RemoveAt(sent, i) /\ reps' = Append(reps, sent[i])
        /\ nn' = CASE sent[i].kind = "prealloc" ->
                       [nn EXCEPT !.grants = Append(@, [len |-> sent[i].len + x, off |-> nn.upto,
                                                        hbid |-> 1 + nn.upto]),
                                  !.upto = @ + sent[i].len + x]
                  [] sent[i].kind = "flush" -> [nn EXCEPT !.told = @ \cup {sent[i].u}]
                  [] sent[i].kind = "return" -> [nn EXCEPT !.back = @ \cup {<<sent[i].id, sent[i].hbid>>}]
        /\ UNCHANGED <<as, up, wq, wr>>
  BY DEF NNAnswers
<1>2. Answers(i) /\ UNCHANGED <<as, up, wr>>
  BY <1>1 DEF Answers
<1>3. sent[i] \in Task /\ nn \in NameNode
  BY QueueTypes DEF TypeInv, QueueType
<1>4. nn'.told = nn.told \cup Tells({sent[i]})
  <2>1. sent[i].kind \in {"prealloc", "flush", "return"}
    BY <1>3 DEF Task
  <2> DEFINE k == sent[i]
  <2>2. Tells({k}) = IF k.kind = "flush" THEN {k.u} ELSE {}
    BY TellsOne
  <2>3. CASE k.kind = "flush"
    <3>1. nn' = [nn EXCEPT !.told = @ \cup {k.u}]
      BY <1>1, <2>3
    <3> QED BY <1>3, <2>2, <2>3, <3>1 DEF NameNode
  <2>4. CASE k.kind = "prealloc"
    <3>1. nn'.told = nn.told
      BY <1>1, <1>3, <2>4 DEF NameNode
    <3> QED BY <2>2, <2>4, <3>1
  <2>5. CASE k.kind = "return"
    <3>1. nn'.told = nn.told
      BY <1>1, <1>3, <2>5 DEF NameNode
    <3> QED BY <2>2, <2>5, <3>1
  <2> QED BY <2>1, <2>3, <2>4, <2>5
<1>5. /\ AllTasks' = AllTasks /\ \A x \in Nat : Sum3(Flushes(x))' = Sum3(Flushes(x))
      /\ ToSet(reps') = ToSet(reps) \cup {sent[i]}
  BY <1>2, AnswersEffect
<1>6. Tells(ToSet(reps')) \subseteq nn'.told
  BY <1>4, <1>5, TellsUnion DEF TellInv, ToldInv
<1>7. Units' = Units
  BY <1>2, UnitsSame DEF SameMd
<1> QED BY <1>2, <1>4, <1>5, <1>6, <1>7, TellQuiet

(* An answer of another kind.                                               *)
LEMMA TellAckOther ==
  ASSUME TypeInv, TellInv, Acks, Head(reps).kind # "flush", UNCHANGED <<as, up, nn>>, Units' = Units
  PROVE  TellInv'
<1>1. /\ AllTasks = AllTasks' \cup {Head(reps)} /\ ToSet(reps) = ToSet(reps') \cup {Head(reps)}
      /\ Head(reps) \in Task
  BY AcksEffect
<1>2. Tells({Head(reps)}) = {}
  BY TellsOne
<1>3. Tells(AllTasks) = Tells(AllTasks')
  BY <1>1, <1>2, TellsUnion
<1>4. Tells(ToSet(reps')) \subseteq nn'.told
  BY <1>1, TellsUnion DEF TellInv, ToldInv
<1>5. ASSUME NEW x PROVE Sum3(Flushes(x))' = Sum3(Flushes(x))
  <2>1. Head(reps) \notin Flushes(x)
    BY DEF Flushes
  <2>2. Sum3(Flushes(x)) \in Nat
    BY QueueTypes
  <2> QED BY <2>1, <2>2, AcksEffect
<1> QED BY <1>3, <1>4, <1>5, TellQuiet

(* The answer to a flush: a chunk that is flushing leaves the list.         *)
LEMMA TellAckFlush ==
  ASSUME TypeInv, TypeInv', TellInv, AckFlush PROVE TellInv'
<1> DEFINE k == Head(reps)
           lb == k.u.lb
           hit == {i \in DOMAIN as : up /\ as[i].lb = lb}
<1>1. /\ Acks /\ k.kind = "flush" /\ fspool_remove_allocspace(lb) /\ UNCHANGED <<up, nn, wr>>
  BY DEF AckFlush, Acks
<1>2. /\ AllTasks = AllTasks' \cup {k} /\ ToSet(reps) = ToSet(reps') \cup {k} /\ k \in Task
      /\ \A K : Sum3(K)' = Sum3(K) - (IF k \in K THEN 1 ELSE 0)
  BY <1>1, AcksEffect
<1>3. as \in Seq(Unit) /\ DOMAIN as = 1..Len(as) /\ Len(as) \in Nat /\ as' \in Seq(Unit)
  <2>1. as \in Seq(Unit) /\ as' \in Seq(Unit)
    BY DEF TypeInv, PoolType
  <2>2. \A r \in Seq(Unit) : DOMAIN r = 1..Len(r) /\ Len(r) \in Nat
    OBVIOUS
  <2> QED BY <2>1, <2>2
<1>4. k.u \in Unit /\ lb \in Nat
  <2>1. k.u \in Unit
    BY <1>1, <1>2 DEF Task
  <2> QED BY <2>1 DEF Unit
<1>5. k \in Flushes(lb) /\ \A x \in Nat : x # lb => k \notin Flushes(x)
  BY <1>1, <1>2 DEF Flushes
<1>6. reps \in Seq(Task) /\ reps # <<>> /\ reps' = Tail(reps)
  BY <1>1, QueueTypes DEF Acks
<1> HIDE DEF k, lb
<1>7. Tells({k}) = {k.u}
  BY <1>1, TellsOne
<1>8. k.u \in nn.told
  BY <1>2, <1>7, TellsUnion DEF TellInv, ToldInv
<1>9. Tells(AllTasks) \subseteq Tells(AllTasks') \cup nn.told
  BY <1>2, <1>7, <1>8, TellsUnion
<1>10. Tells(ToSet(reps')) \subseteq nn'.told
  BY <1>1, <1>2, TellsUnion DEF TellInv, ToldInv
<1>11. Units' = Units
  BY <1>1, UnitsSame DEF SameMd
<1>12. CASE ~up
  <2>1. hit = {}
    BY <1>12
  <2>2. as' = as
    BY <1>1, <2>1 DEF fspool_remove_allocspace
  <2>3. Ordered(as') /\ FlushInv'
    BY <1>1, <1>12, <2>2 DEF TellInv, FlushInv
  <2>4. \A u \in Units' : u.st = "Committed" /\ u \in nn'.told \cup Tells(AllTasks')
    BY <1>1, <1>9, <1>11, <1>12 DEF TellInv, ToldInv
  <2> QED BY <1>10, <2>3, <2>4 DEF TellInv, ToldInv, Ordered, Tells, ToSet
<1>13. CASE up
  <2>1. PICK i \in DOMAIN as : as[i].lb = lb /\ as[i].st = "Flushing"
    <3>1. Cnt(reps, Flushes(lb)) # 0
      <4>1. 1 \in DOMAIN reps /\ reps[1] = k
        BY <1>6, TailFacts DEF k
      <4> QED BY <1>5, <1>6, <4>1, CntPositive
    <3>2. Sum3(Flushes(lb)) # 0
      <4>1. Cnt(wq, Flushes(lb)) \in Nat /\ Cnt(sent, Flushes(lb)) \in Nat /\ Cnt(reps, Flushes(lb)) \in Nat
        BY QueueTypes
      <4> QED BY <3>1, <4>1 DEF Sum3
    <3>3. Cnt(as, AtBlock(lb, "Flushing")) # 0
      BY <1>4, <1>13, <3>2 DEF TellInv, FlushInv
    <3>4. \E j \in DOMAIN as : as[j] \in AtBlock(lb, "Flushing")
      BY <1>3, <3>3, CntPositive
    <3> QED BY <3>4 DEF AtBlock
  <2> DEFINE m == Min(hit)
  <2>2. hit # {} /\ hit \in SUBSET (1..Len(as)) /\ i \in hit
    BY <1>3, <1>13, <2>1
  <2>3. m \in hit /\ m <= i
    <3> HIDE DEF hit
    <3> QED BY <1>3, <2>2, MinIn
  <2>4. m \in DOMAIN as /\ as[m].lb = lb
    BY <2>3
  <2>5. as' = RemoveAt(as, m)
    BY <1>1, <2>2 DEF fspool_remove_allocspace
  <2> HIDE DEF hit, m
  <2>6. as[m].st = "Flushing"
    <3>1. m = i \/ m < i
      BY <1>3, <2>3, <2>4
    <3> QED BY <2>1, <2>4, <3>1 DEF TellInv, Ordered
  <2>7. Ordered(as')
    BY <1>3, <2>4, <2>5, OrderedRemove DEF TellInv
  <2>8. FlushInv'
    <3> SUFFICES ASSUME NEW x \in Nat PROVE Sum3(Flushes(x))' = Cnt(as', AtBlock(x, "Flushing"))
      BY DEF FlushInv, Cnt
    <3> DEFINE K == AtBlock(x, "Flushing")
    <3>1. Cnt(as', K) = Cnt(as, K) - (IF as[m] \in K THEN 1 ELSE 0)
      BY <1>3, <2>4, <2>5, CntRemove
    <3>2. as[m] \in Unit
      <4>1. \A r \in Seq(Unit) : \A n \in DOMAIN r : r[n] \in Unit
        OBVIOUS
      <4> QED BY <1>3, <2>4, <4>1
    <3>3. as[m] \in K <=> x = lb
      BY <2>4, <2>6, <3>2 DEF AtBlock
    <3> HIDE DEF K
    <3>4. Sum3(Flushes(x)) = Cnt(as, K) /\ Sum3(Flushes(x)) \in Nat
      BY <1>13, QueueTypes DEF TellInv, FlushInv, K
    <3>5. Sum3(Flushes(x))' = Sum3(Flushes(x)) - (IF k \in Flushes(x) THEN 1 ELSE 0)
      BY <1>2
    <3>6. k \in Flushes(x) <=> x = lb
      BY <1>5
    <3>7. Sum3(Flushes(x))' = Cnt(as', K)
      BY <3>1, <3>3, <3>4, <3>5, <3>6
    <3> QED BY <3>7 DEF K
  <2>9. \A u \in Units' : u.st = "Committed" /\ (u \in nn'.told \cup Tells(AllTasks') \/ (up' /\ u \in ToSet(as')))
    <3> SUFFICES ASSUME NEW u \in Units PROVE u.st = "Committed" /\ (u \in nn'.told \cup Tells(AllTasks') \/ (up' /\ u \in ToSet(as')))
      BY <1>11
    <3>1. u.st = "Committed"
      BY DEF TellInv, ToldInv
    <3>2. CASE u \in nn.told \cup Tells(AllTasks)
      BY <1>1, <1>9, <3>1, <3>2
    <3>3. CASE up /\ u \in ToSet(as)
      <4>1. ToSet(as) = ToSet(as') \cup {as[m]}
        BY <1>3, <2>4, <2>5, SetRemove
      <4>2. u # as[m]
        BY <2>6, <3>1
      <4> QED BY <1>1, <3>1, <3>3, <4>1, <4>2
    <3> QED BY <3>2, <3>3 DEF TellInv, ToldInv
  <2> QED BY <1>10, <2>7, <2>8, <2>9 DEF TellInv, ToldInv, Ordered, Tells, ToSet
<1> QED BY <1>12, <1>13

-----------------------------------------------------------------------------
(* A turn lists the parts it gives, and may flush the whole list.           *)
Listed(t) ==
  \/ (t.as = as \o t.us /\ t.tasks = <<>>)
  \/ (t.as = Flushed(as \o t.us) /\ t.tasks = FlushTasks(as \o t.us, "none"))

LEMMA TurnListed ==
  ASSUME NEW w, NEW loc PROVE Listed(AllocTurn(w, loc))
<1> DEFINE enough == size.remaining >= Len_[w]
           a == IF enough THEN _fspool_alloc_space(w) ELSE [ok |-> ~loc.nomem, fs |-> fs, us |-> <<>>]
           as1 == as \o a.us
           again == ~a.ok \/ Len(as1) > FlushCriteria
           flush == again /\ ~loc.fl
           ret == IF enough THEN loc.ret ELSE IF size.requesting > 0 THEN "WAIT" ELSE "NOSPACE"
           t == [again |-> again,
                 loc   |-> [fl |-> loc.fl \/ flush, nomem |-> ~a.ok, ret |-> ret],
                 us    |-> a.us, fs |-> a.fs,
                 as    |-> IF flush THEN Flushed(as1) ELSE as1,
                 tasks |-> IF flush THEN FlushTasks(as1, "none") ELSE <<>>]
<1>1. AllocTurn(w, loc) = t
  BY DEF AllocTurn
<1> HIDE DEF a, again, flush, ret
<1>2. /\ t.us = a.us /\ as1 = as \o a.us
      /\ t.as = (IF flush THEN Flushed(as1) ELSE as1)
      /\ t.tasks = (IF flush THEN FlushTasks(as1, "none") ELSE <<>>)
  OBVIOUS
<1> HIDE DEF t, as1
<1>3. CASE flush
  BY <1>1, <1>2, <1>3 DEF Listed
<1>4. CASE ~flush
  BY <1>1, <1>2, <1>4 DEF Listed
<1> QED BY <1>3, <1>4

LEMMA UnitsTurn ==
  ASSUME TypeInv, NEW w \in Writer, NEW loc \in TurnLoc, NEW t, Turned(t, loc, w),
         ioSReq_alloc_freeSpace(w, t)
  PROVE  Units' = Units \cup ToSet(t.us) /\ t.us \in Seq(Unit)
<1>1. wr'[w].md = wr[w].md \o t.us /\ \A x \in Writer : x # w => wr'[x] = wr[x]
  BY AllocEffect
<1>2. t.us \in Seq(Unit) /\ wr[w].md \in Seq(Unit)
  BY DEF Turned, Turn, TypeInv, WriterType, WriterRec
<1>3. ToSet(wr'[w].md) = ToSet(wr[w].md) \cup ToSet(t.us)
  <2> DEFINE m == wr[w].md
             u == t.us
  <2>1. m \in Seq(Unit) /\ u \in Seq(Unit) /\ wr'[w].md = m \o u
    BY <1>1, <1>2
  <2> HIDE DEF m, u
  <2>2. ToSet(m \o u) = ToSet(m) \cup ToSet(u)
    BY ONLY <2>1, SetCat
  <2> QED BY <2>1, <2>2 DEF m, u
<1>4. \A e : e \in Units' <=> \E x \in Writer : e \in ToSet(wr'[x].md)
  BY DEF Units, ToSet
<1>5. \A e : e \in Units <=> \E x \in Writer : e \in ToSet(wr[x].md)
  BY DEF Units
<1>6. \A x \in Writer : x # w => ToSet(wr'[x].md) = ToSet(wr[x].md)
  BY <1>1
<1>7. \A e : e \in Units' <=> e \in Units \/ e \in ToSet(t.us)
  BY ONLY <1>3, <1>4, <1>5, <1>6
<1> QED BY <1>2, <1>7

LEMMA TellTurn ==
  ASSUME TypeInv, TellInv, up, UNCHANGED <<up, nn, sent, reps>>,
         NEW w \in Writer, NEW loc \in TurnLoc, NEW t, Turned(t, loc, w), Listed(t),
         ioSReq_alloc_freeSpace(w, t)
  PROVE  TellInv'
<1>1. as' = t.as /\ Units' = Units \cup ToSet(t.us) /\ t.us \in Seq(Unit)
  BY UnitsTurn DEF ioSReq_alloc_freeSpace
<1>2. \A i \in DOMAIN t.us : t.us[i].st = "Committed"
  BY DEF Turned, Walked, PartOf
<1>9. PICK q, more \in Seq(Task) : Queues(t, q, more)
  BY NewTasks
<1>3. wq' = wq \o q /\ q = t.tasks \o more /\ \A i \in DOMAIN more : more[i].kind = "prealloc"
  BY <1>9 DEF Queues
<1> DEFINE us == t.us
           k == t.tasks
<1>4. us \in Seq(Unit) /\ Units' = Units \cup ToSet(us) /\ \A i \in DOMAIN us : us[i].st = "Committed"
  BY <1>1, <1>2
<1>5. (as' = as \o us /\ k = <<>>) \/ (as' = Flushed(as \o us) /\ k = FlushTasks(as \o us, "none"))
  BY <1>1 DEF Listed
<1>6. Adds(k \o more)
  BY <1>3 DEF Adds
<1>7. \A i \in DOMAIN more : more[i].kind # "flush"
  BY <1>3
<1>8. TypeInv /\ TellInv /\ up /\ up' = up /\ UNCHANGED nn /\ "none" \in {"none", "adm"}
  OBVIOUS
<1> HIDE DEF us, k
<1> QED BY ONLY <1>3, <1>4, <1>5, <1>6, <1>7, <1>8, TellGrows

LEMMA TellFlush ==
  ASSUME TypeInv, TellInv, up, UNCHANGED <<up, nn, sent, reps>>, SameMd, NEW by \in {"none", "adm"},
         as' = Flushed(as), wq' = wq \o FlushTasks(as, by)
  PROVE  TellInv'
<1> DEFINE us == <<>>
           k == FlushTasks(as, by)
           more == <<>>
<1>1. as \in Seq(Unit) /\ k \in Seq(Task)
  <2>1. as \in Seq(Unit)
    BY UnitsType
  <2> QED BY <2>1, FlushFacts
<1>2. us \in Seq(Unit) /\ more \in Seq(Task) /\ DOMAIN us = {} /\ DOMAIN more = {} /\ ToSet(us) = {}
  BY DEF ToSet
<1>3. as \o us = as /\ k \o more = k
  <2> HIDE DEF k
  <2> QED BY ONLY <1>1, ConcatEmptySeq
<1>4. Units' = Units \cup ToSet(us)
  BY <1>2, UnitsSame
<1>5. (as' = as \o us /\ k = <<>>) \/ (as' = Flushed(as \o us) /\ k = FlushTasks(as \o us, by))
  BY <1>3
<1>6. Adds(k \o more)
  <2>1. wq' = wq \o k /\ UNCHANGED <<sent, reps>>
    OBVIOUS
  <2> HIDE DEF k, more
  <2> QED BY <1>1, <1>3, <2>1 DEF Adds
<1>7. \A i \in DOMAIN us : us[i].st = "Committed"
  BY <1>2
<1>8. \A i \in DOMAIN more : more[i].kind # "flush"
  BY <1>2
<1>9. TypeInv /\ TellInv /\ up /\ up' = up /\ UNCHANGED nn /\ by \in {"none", "adm"}
  OBVIOUS
<1> HIDE DEF us, k, more
<1> QED BY ONLY <1>2, <1>4, <1>5, <1>6, <1>7, <1>8, <1>9, TellGrows

(* How far the detach got: no chunk is free any more, all were reported,    *)
(* none is left, and all parts are flushing.                                *)
PhaseInv ==
  /\ adm.pc # "idle" => up
  /\ ~up => fs = <<>>
  /\ adm.cmd = "detach" =>
       /\ adm.pc = "unuse" => \A j \in DOMAIN fs : fs[j].st # "Free"
       /\ adm.pc = "clean" => \A j \in DOMAIN fs : fs[j].st = "Reporting"
       /\ adm.pc \in {"flush", "flushed", "free"} => fs = <<>>
       /\ adm.pc \in {"flushed", "free"} => \A i \in DOMAIN as : as[i].st = "Flushing"

LEMMA TellFree ==
  ASSUME TypeInv, AdmInv, TellInv, PhaseInv, fspool_free_pool PROVE TellInv'
<1>1. /\ adm.pc = "free" /\ up' = FALSE /\ as' = <<>> /\ UNCHANGED <<nn, wq, sent, reps, wr>>
  BY DEF fspool_free_pool
<1>2. \A i \in DOMAIN as : as[i].st = "Flushing"
  BY <1>1 DEF AdmInv, PhaseInv
<1>3. as \in Seq(Unit) /\ Units' = Units
  BY <1>1, UnitsType, UnitsSame DEF SameMd
<1>4. \A u \in ToSet(as) : u.st = "Flushing"
  <2>1. \A u \in ToSet(as) : \E i \in DOMAIN as : as[i] = u
    BY <1>3, SetFacts
  <2> QED BY <1>2, <2>1
<1>5. AllTasks' = AllTasks
  BY <1>1 DEF AllTasks, ToSet
<1>6. \A u \in Units : u.st = "Committed" /\ u \in nn.told \cup Tells(AllTasks)
  BY <1>4 DEF TellInv, ToldInv
<1>7. Tells(ToSet(reps')) \subseteq nn'.told
  BY <1>1 DEF TellInv, ToldInv
<1>8. \A u \in Units' : u.st = "Committed" /\ u \in nn'.told \cup Tells(AllTasks')
  BY <1>1, <1>3, <1>5, <1>6
<1>9. Ordered(as') /\ FlushInv'
  <2>1. DOMAIN as' = {}
    BY <1>1
  <2> QED BY <1>1, <2>1 DEF Ordered, FlushInv
<1> QED BY <1>7, <1>8, <1>9 DEF TellInv, ToldInv, Ordered, Tells, ToSet

(* Someone at work means that the pool is up.                               *)
LEMMA UpAtWork ==
  ASSUME TypeInv, AdmInv, NEW w \in Writer, wr[w].pc \in {"alloc", "parked"} PROVE up /\ "detach" \notin asked
  BY DEF AdmInv, TypeInv, ThreadType

(* A step of the allocation is a turn for some write, while the pool is up. *)
Turns(w, loc, t) ==
  /\ w \in Writer /\ loc \in TurnLoc /\ Turned(t, loc, w) /\ Listed(t)
  /\ ioSReq_alloc_freeSpace(w, t) /\ UNCHANGED <<up, nn, sent, reps, adm, asked>>
  /\ up /\ "detach" \notin asked

LEMMA ATurn ==
  ASSUME CoreInv, AckAllocs \/ \E w \in Writer : WriterAllocs(w)
  PROVE  \E w, loc, t : Turns(w, loc, t)
<1>0. TypeInv /\ AdmInv /\ LockInv
  BY DEF CoreInv
<1>1. ASSUME NEW w \in Writer, WriterAllocs(w) PROVE \E x, loc, t : Turns(x, loc, t)
  <2> DEFINE t == AllocTurn(w, wr[w].loc)
  <2>1. /\ ioSReq_alloc_freeSpace(w, t) /\ wr[w].loc \in TurnLoc /\ wr[w].pc = "alloc"
        /\ UNCHANGED <<up, nn, sent, reps, adm, asked>>
    BY <1>0, <1>1 DEF WriterAllocs, TypeInv, WriterType, WriterRec
  <2>2. Turned(t, wr[w].loc, w) /\ Listed(t)
    BY <1>0, <2>1, TurnFacts, TurnListed
  <2>3. up /\ "detach" \notin asked
    BY <1>0, <2>1, UpAtWork
  <2> HIDE DEF t
  <2>4. Turns(w, wr[w].loc, t)
    BY <2>1, <2>2, <2>3 DEF Turns
  <2> QED BY <2>4
<1>2. CASE AckAllocs
  <2> DEFINE w == ack.w
             t == AllocTurn(w, ack.loc)
  <2>1. /\ ioSReq_alloc_freeSpace(w, t) /\ UNCHANGED <<up, nn, sent, reps, adm, asked>>
        /\ w \in Writer /\ ack.loc \in TurnLoc /\ wr[w].pc = "parked"
    BY <1>0, <1>2 DEF AckAllocs, TypeInv, ThreadType, AckRec, LockInv
  <2>2. Turned(t, ack.loc, w) /\ Listed(t)
    BY <1>0, <2>1, TurnFacts, TurnListed
  <2>3. up /\ "detach" \notin asked
    BY <1>0, <2>1, UpAtWork
  <2> HIDE DEF t, w
  <2>4. Turns(w, ack.loc, t)
    BY <2>1, <2>2, <2>3 DEF Turns
  <2> QED BY <2>4
<1> QED BY <1>1, <1>2

LEMMA TellAllocs ==
  ASSUME CoreInv, TellInv, AckAllocs \/ \E w \in Writer : WriterAllocs(w) PROVE TellInv'
<1>1. PICK w, loc, t : Turns(w, loc, t)
  BY ATurn
<1> QED BY <1>1, TellTurn DEF Turns, CoreInv

(* The tasks that report the invalidated chunks.                            *)
Unused(q) ==
  /\ Adds(q) /\ adm' = [adm EXCEPT !.pc = "clean", !.cnt = Len(q)]
  /\ \A i \in DOMAIN q : q[i].kind = "return" /\ q[i].by = "adm"
  /\ \A j \in DOMAIN fs : fs[j].st = "Invalidated" =>
       \E i \in DOMAIN q : q[i].id = fs[j].id /\ q[i].hbid = fs[j].hbid

LEMMA UnuseTasks ==
  ASSUME TypeInv, AdmUnuse PROVE \E q \in Seq(Task) : Unused(q)
<1> DEFINE S == {c \in ToSet(fs) : update_fschunk_state(c, "ReportFree").act = "DO_Report"}
           rep == Among(fs, S)
           q == [i \in DOMAIN rep |-> ReturnTask(rep[i], "adm")]
<1>1. /\ wq' = wq \o q /\ UNCHANGED <<sent, reps>>
      /\ adm' = [adm EXCEPT !.pc = "clean", !.cnt = Len(rep)]
  BY DEF AdmUnuse
<1>2. fs \in Seq(Chunk) /\ Distinct(fs) /\ \A i \in DOMAIN fs : fs[i] \in Chunk
  BY SpaceTypes DEF Typing
<1>3. \A j \in DOMAIN fs : fs[j].st = "Invalidated" => fs[j] \in S
  BY <1>2, ChunkReport, SetFacts
<1> HIDE DEF S
<1>4. /\ rep \in Seq(Chunk)
      /\ \A j \in DOMAIN fs : fs[j] \in S => \E i \in DOMAIN rep : rep[i] = fs[j]
  BY <1>2, AmongChunks
<1> HIDE DEF rep
<1>5. q \in Seq(Task) /\ DOMAIN q = DOMAIN rep
  BY <1>4, ReturnTasks
<1>6. \A i \in DOMAIN rep :
        q[i].kind = "return" /\ q[i].by = "adm" /\ q[i].id = rep[i].id /\ q[i].hbid = rep[i].hbid
  BY DEF ReturnTask
<1> HIDE DEF q
<1>7. Len(q) = Len(rep)
  <2>1. Len(q) \in Nat /\ Len(rep) \in Nat /\ DOMAIN q = 1..Len(q) /\ DOMAIN rep = 1..Len(rep)
    BY <1>4, <1>5
  <2>2. \A n, m \in Nat : 1..n = 1..m => n = m
    OBVIOUS
  <2> QED BY <1>5, <2>1, <2>2
<1>8. Adds(q)
  BY <1>1, <1>5 DEF Adds
<1>9. \A j \in DOMAIN fs : fs[j].st = "Invalidated" =>
        \E i \in DOMAIN q : q[i].id = fs[j].id /\ q[i].hbid = fs[j].hbid
  BY <1>3, <1>4, <1>5, <1>6
<1>10. Unused(q)
  BY <1>1, <1>5, <1>6, <1>7, <1>8, <1>9 DEF Unused
<1> QED BY <1>5, <1>10

LEMMA AllocTask ==
  ASSUME TypeInv, AdmAlloc
  PROVE  \E q \in Seq(Task) : Adds(q) /\ \A i \in DOMAIN q : q[i].kind = "prealloc" /\ q[i].by = "none"
<1> DEFINE k == PreallocTask(1, FALSE)
<1>1. wq' = Append(wq, k) /\ UNCHANGED <<sent, reps>>
  BY DEF AdmAlloc
<1>2. k \in Task /\ k.kind = "prealloc" /\ k.by = "none" /\ wq \in Seq(Task)
  BY DEF PreallocTask, Task, TypeInv, QueueType
<1> HIDE DEF k
<1>3. <<k>> \in Seq(Task) /\ Append(wq, k) = wq \o <<k>> /\ \A i \in DOMAIN <<k>> : <<k>>[i] = k
  BY <1>2
<1>4. Adds(<<k>>)
  BY <1>1, <1>3 DEF Adds
<1> QED BY <1>2, <1>3, <1>4

LEMMA TellStep ==
  ASSUME CoreInv, CoreInv', TellInv, PhaseInv, [Next]_vars PROVE TellInv'
<1>0. TypeInv /\ TypeInv' /\ AdmInv /\ wr \in [Writer -> WriterRec]
  BY DEF CoreInv, TypeInv, WriterType
<1>1. CASE UNCHANGED vars \/ AckCounts \/ AckServes \/ AdmFlushed \/ AdmInval \/ AdmClean
           \/ \E x \in Ioctl : AdmStarts(x)
  <2>1. UNCHANGED <<as, up, nn, wq, sent, reps, wr>>
    BY <1>1 DEF vars, AckCounts, AckServes, AdmFlushed, AdmInval, AdmClean, AdmStarts
  <2>2. Units' = Units
    BY <2>1, UnitsSame DEF SameMd
  <2> QED BY <1>0, <2>1, <2>2, TellSame
<1>2. ASSUME NEW w \in Writer, WriterLocks(w) PROVE TellInv'
  <2>1. UNCHANGED <<as, up, nn, wq, sent, reps>> /\ wr' = [wr EXCEPT ![w].pc = "alloc"]
    BY <1>2 DEF WriterLocks
  <2>2. Units' = Units
    BY <1>0, <2>1, UnitsSame DEF SameMd, WriterRec
  <2> QED BY <1>0, <2>1, <2>2, TellSame
<1>3. CASE WorkerFlushes \/ AdmFlush
  <2>1. PICK by \in {"none", "adm"} : wq' = wq \o FlushTasks(as, by)
    BY <1>3 DEF WorkerFlushes, AdmFlush, sm_report_volume_spaceMData
  <2>2. as' = Flushed(as) /\ UNCHANGED <<up, nn, sent, reps>> /\ SameMd
    BY <1>3 DEF WorkerFlushes, AdmFlush, sm_report_volume_spaceMData, SameMd
  <2>3. up
    BY <1>3 DEF WorkerFlushes, AdmFlush, PhaseInv
  <2> QED BY <1>0, <2>1, <2>2, <2>3, TellFlush
<1>4. CASE AdmAlloc
  <2>1. UNCHANGED <<as, up, nn, wr>>
    BY <1>4 DEF AdmAlloc
  <2>2. Units' = Units
    BY <2>1, UnitsSame DEF SameMd
  <2>3. PICK q \in Seq(Task) : Adds(q) /\ \A i \in DOMAIN q : q[i].kind = "prealloc"
    BY <1>0, <1>4, AllocTask
  <2> QED BY <1>0, <2>1, <2>2, <2>3, TellMoreTasks
<1>5. CASE AdmUnuse
  <2>1. UNCHANGED <<as, up, nn, wr>>
    BY <1>5 DEF AdmUnuse
  <2>2. Units' = Units
    BY <2>1, UnitsSame DEF SameMd
  <2>3. PICK q \in Seq(Task) : Unused(q)
    BY <1>0, <1>5, UnuseTasks
  <2>4. Adds(q) /\ \A i \in DOMAIN q : q[i].kind # "flush"
    BY <2>3 DEF Unused
  <2> QED BY <1>0, <2>1, <2>2, <2>4, TellMoreTasks
<1>6. CASE AckPrealloc \/ AckReturn
  <2>1. Acks /\ Head(reps).kind # "flush" /\ UNCHANGED <<as, up, nn, wr>>
    BY <1>6 DEF AckPrealloc, AckReturn, Acks
  <2>2. Units' = Units
    BY <2>1, UnitsSame DEF SameMd
  <2> QED BY <1>0, <2>1, <2>2, TellAckOther
<1> QED BY <1>0, <1>1, <1>2, <1>3, <1>4, <1>5, <1>6, TellAllocs, TellSends, TellAnswers, TellAckFlush,
     TellFree DEF Next, Ack, Adm

-----------------------------------------------------------------------------
(* The tasks the administrator's thread waits for are those it counts.      *)
CntInv ==
  /\ Sum3(AdmTasks) = adm.cnt
  /\ adm.pc \notin {"clean", "flushed"} => adm.cnt = 0

LEMMA TurnAdds ==
  ASSUME TypeInv, NEW w, NEW loc, NEW t, Turns(w, loc, t)
  PROVE  \E q \in Seq(Task) : Adds(q) /\ \A i \in DOMAIN q : q[i].by = "none"
<1>1. PICK q, more \in Seq(Task) : Queues(t, q, more)
  BY NewTasks DEF Turns
<1>2. /\ wq' = wq \o q /\ q = t.tasks \o more /\ \A i \in DOMAIN more : more[i].kind = "prealloc"
  BY <1>1 DEF Queues
<1> DEFINE k == t.tasks
           s == as \o t.us
<1>3. k \in Seq(Task) /\ s \in Seq(Unit) /\ (k = <<>> \/ k = FlushTasks(s, "none"))
  <2>1. t.us \in Seq(Unit) /\ as \in Seq(Unit) /\ t.tasks \in Seq(Task)
    BY UnitsType DEF Turns, Turned, Turn
  <2>2. s \in Seq(Unit)
    BY <2>1, CatFacts
  <2> QED BY <2>1, <2>2 DEF Turns, Listed
<1> HIDE DEF s
<1>4. \A i \in DOMAIN FlushTasks(s, "none") : FlushTasks(s, "none")[i].by = "none"
  <2>1. "none" \in {"none", "adm"}
    OBVIOUS
  <2> QED BY <1>3, <2>1, TasksOfFlush
<1>5. \A i \in DOMAIN k : k[i].by = "none"
  BY <1>3, <1>4
<1>6. \A i \in DOMAIN more : more[i].by = "none"
  <2>1. \A i \in DOMAIN more : more[i] \in Task
    OBVIOUS
  <2> QED BY <1>2, <2>1 DEF Task
<1> HIDE DEF k
<1>7. \A j \in DOMAIN q : \/ j \in DOMAIN k /\ q[j] = k[j]
                          \/ j - Len(k) \in DOMAIN more /\ q[j] = more[j - Len(k)]
  <2>1. q = k \o more
    BY <1>2 DEF k
  <2> QED BY <1>3, <2>1, CatFacts
<1>8. \A j \in DOMAIN q : q[j].by = "none"
  BY <1>5, <1>6, <1>7
<1>9. Adds(q)
  BY <1>2 DEF Adds, Turns
<1> QED BY <1>8, <1>9

LEMMA CntSame ==
  ASSUME CntInv, Sum3(AdmTasks)' = Sum3(AdmTasks), adm'.cnt = adm.cnt,
         adm'.pc = adm.pc \/ adm.cnt = 0
  PROVE  CntInv'
  BY DEF CntInv

LEMMA CntOthers ==
  ASSUME TypeInv, CntInv, NEW q, Adds(q), \A i \in DOMAIN q : q[i].by = "none",
         adm'.cnt = adm.cnt, adm'.pc = adm.pc \/ adm.cnt = 0
  PROVE  CntInv'
<1>1. Cnt(q, AdmTasks) = 0
  <2>1. \A i \in DOMAIN q : q[i] \notin AdmTasks
    BY DEF AdmTasks
  <2> QED BY <2>1, CntNone
<1>2. Sum3(AdmTasks)' = Sum3(AdmTasks) + Cnt(q, AdmTasks) /\ Sum3(AdmTasks) \in Nat
  BY AddsEffect, QueueTypes
<1> QED BY <1>1, <1>2, CntSame

LEMMA CntWaits ==
  ASSUME TypeInv, CntInv, adm.cnt = 0, NEW q, Adds(q), \A i \in DOMAIN q : q[i].by = "adm",
         adm'.cnt = Len(q), adm'.pc \in {"clean", "flushed"}
  PROVE  CntInv'
<1>1. q \in Seq(Task)
  BY DEF Adds
<1>2. Cnt(q, AdmTasks) = Len(q) /\ Len(q) \in Nat
  <2>1. \A i \in DOMAIN q : q[i] \in AdmTasks
    BY <1>1 DEF AdmTasks
  <2> QED BY <1>1, <2>1, CntEvery
<1>3. Sum3(AdmTasks)' = Sum3(AdmTasks) + Cnt(q, AdmTasks) /\ Sum3(AdmTasks) = 0
  BY AddsEffect DEF CntInv
<1> QED BY <1>2, <1>3 DEF CntInv

LEMMA CntAcks ==
  ASSUME TypeInv, CntInv, Acks, adm' = Counted(Head(reps)) PROVE CntInv'
<1> DEFINE k == Head(reps)
<1>1. Sum3(AdmTasks)' = Sum3(AdmTasks) - (IF k \in AdmTasks THEN 1 ELSE 0) /\ k \in Task
  BY AcksEffect
<1>2. reps \in Seq(Task) /\ reps # <<>> /\ 1 \in DOMAIN reps /\ reps[1] = k
  BY QueueTypes, TailFacts DEF Acks
<1>3. adm' = (IF k.by = "adm" THEN [adm EXCEPT !.cnt = @ - 1] ELSE adm) /\ adm \in AdmRec
  BY DEF Counted, TypeInv, ThreadType
<1> HIDE DEF k
<1>4. k \in AdmTasks <=> k.by = "adm"
  BY <1>1 DEF AdmTasks
<1>5. CASE k.by = "adm"
  <2>1. Cnt(reps, AdmTasks) # 0
    BY <1>2, <1>4, <1>5, CntPositive
  <2>2. Cnt(wq, AdmTasks) \in Nat /\ Cnt(sent, AdmTasks) \in Nat /\ Cnt(reps, AdmTasks) \in Nat
    BY QueueTypes
  <2>3. Sum3(AdmTasks) # 0
    BY <2>1, <2>2 DEF Sum3
  <2>4. adm'.cnt = adm.cnt - 1 /\ adm'.pc = adm.pc
    BY <1>3, <1>5 DEF AdmRec
  <2> QED BY <1>1, <1>4, <1>5, <2>3, <2>4 DEF CntInv
<1>6. CASE k.by # "adm"
  <2>1. Sum3(AdmTasks) \in Nat
    BY QueueTypes
  <2>2. Sum3(AdmTasks)' = Sum3(AdmTasks)
    BY <1>1, <1>4, <1>6, <2>1
  <2>3. adm' = adm
    BY <1>3, <1>6
  <2> QED BY <2>2, <2>3, CntSame
<1> QED BY <1>5, <1>6

LEMMA CntStep ==
  ASSUME CoreInv, CntInv, [Next]_vars PROVE CntInv'
<1>0. TypeInv /\ AdmInv /\ adm \in AdmRec /\ as \in Seq(Unit)
  BY UnitsType DEF CoreInv, TypeInv, ThreadType
<1>1. CASE UNCHANGED vars \/ AckCounts \/ AckServes \/ \E w \in Writer : WriterLocks(w)
  <2>1. UNCHANGED <<wq, sent, reps, adm>>
    BY <1>1 DEF vars, AckCounts, AckServes, WriterLocks
  <2> QED BY <2>1, QueuesSame, CntSame
<1>2. CASE AdmFlushed \/ AdmInval \/ AdmClean \/ fspool_free_pool \/ \E x \in Ioctl : AdmStarts(x)
  <2>1. UNCHANGED <<wq, sent, reps>> /\ adm'.cnt = adm.cnt
    BY <1>0, <1>2 DEF AdmFlushed, AdmInval, AdmClean, fspool_free_pool, AdmStarts, AdmRec
  <2>2. adm.cnt = 0
    BY <1>2 DEF AdmFlushed, AdmInval, AdmClean, fspool_free_pool, AdmStarts, CntInv
  <2> QED BY <2>1, <2>2, QueuesSame, CntSame
<1>3. CASE AckAllocs \/ \E w \in Writer : WriterAllocs(w)
  <2>1. PICK w, loc, t : Turns(w, loc, t)
    BY <1>3, ATurn
  <2>2. PICK q \in Seq(Task) : Adds(q) /\ \A i \in DOMAIN q : q[i].by = "none"
    BY <1>0, <2>1, TurnAdds
  <2>3. adm' = adm
    BY <2>1 DEF Turns
  <2> QED BY <1>0, <2>2, <2>3, CntOthers
<1>4. CASE WorkerSends
  <2>1. Sends /\ adm' = adm
    BY <1>4 DEF WorkerSends, Sends, discoC_send_fsReq
  <2> QED BY <1>0, <2>1, SendsEffect, CntSame
<1>5. CASE NNAnswers
  <2>1. (\E i : Answers(i)) /\ adm' = adm
    BY <1>5 DEF NNAnswers, Answers
  <2> QED BY <1>0, <2>1, AnswersEffect, CntSame
<1>6. CASE WorkerFlushes
  <2> DEFINE q == FlushTasks(as, "none")
  <2>1. q \in Seq(Task) /\ \A i \in DOMAIN q : q[i].by = "none"
    <3>1. "none" \in {"none", "adm"}
      OBVIOUS
    <3> QED BY <1>0, <3>1, TasksOfFlush
  <2>2. adm' = adm /\ wq' = wq \o q /\ UNCHANGED <<sent, reps>>
    BY <1>6 DEF WorkerFlushes
  <2> HIDE DEF q
  <2>3. Adds(q)
    BY <2>1, <2>2 DEF Adds
  <2> QED BY <1>0, <2>1, <2>2, <2>3, CntOthers
<1>7. CASE AdmFlush
  <2> DEFINE q == FlushTasks(as, "adm")
  <2>1. q \in Seq(Task) /\ Len(q) = Len(Flushable(as)) /\ \A i \in DOMAIN q : q[i].by = "adm"
    <3>1. "adm" \in {"none", "adm"}
      OBVIOUS
    <3> QED BY <1>0, <3>1, TasksOfFlush
  <2>2. /\ adm.pc = "flush" /\ adm' = [adm EXCEPT !.pc = "flushed", !.cnt = Len(Flushable(as))]
        /\ wq' = wq \o q /\ UNCHANGED <<sent, reps>>
    BY <1>7 DEF AdmFlush, sm_report_volume_spaceMData
  <2> HIDE DEF q
  <2>3. Adds(q) /\ adm.cnt = 0
    BY <2>1, <2>2 DEF Adds, CntInv
  <2>4. adm'.cnt = Len(q) /\ adm'.pc \in {"clean", "flushed"}
    BY <1>0, <2>1, <2>2 DEF AdmRec
  <2> QED BY <1>0, <2>1, <2>3, <2>4, CntWaits
<1>8. CASE AdmUnuse
  <2>1. PICK q \in Seq(Task) : Unused(q)
    BY <1>0, <1>8, UnuseTasks
  <2>2. Adds(q) /\ adm' = [adm EXCEPT !.pc = "clean", !.cnt = Len(q)] /\ \A i \in DOMAIN q : q[i].by = "adm"
    BY <2>1 DEF Unused
  <2>3. adm.cnt = 0
    BY <1>8 DEF AdmUnuse, CntInv
  <2>4. adm'.cnt = Len(q) /\ adm'.pc \in {"clean", "flushed"}
    BY <1>0, <2>2 DEF AdmRec
  <2> QED BY <1>0, <2>2, <2>3, <2>4, CntWaits
<1>9. CASE AdmAlloc
  <2>1. PICK q \in Seq(Task) : Adds(q) /\ \A i \in DOMAIN q : q[i].kind = "prealloc" /\ q[i].by = "none"
    BY <1>0, <1>9, AllocTask
  <2>2. adm.cnt = 0 /\ adm'.cnt = adm.cnt
    BY <1>0, <1>9 DEF AdmAlloc, CntInv, AdmRec
  <2> QED BY <1>0, <2>1, <2>2, CntOthers
<1>10. CASE AckFlush \/ AckReturn
  <2>1. Acks /\ adm' = Counted(Head(reps))
    BY <1>10 DEF AckFlush, AckReturn, Acks
  <2> QED BY <1>0, <2>1, CntAcks
<1>11. CASE AckPrealloc
  <2>1. Acks /\ adm' = adm /\ Head(reps).kind = "prealloc"
    BY <1>11 DEF AckPrealloc, Acks
  <2>2. /\ Sum3(AdmTasks)' = Sum3(AdmTasks) - (IF Head(reps) \in AdmTasks THEN 1 ELSE 0)
        /\ Head(reps) \in Task /\ Sum3(AdmTasks) \in Nat
    BY <1>0, <2>1, AcksEffect, QueueTypes
  <2>3. Head(reps) \notin AdmTasks
    BY <2>1, <2>2 DEF AdmTasks, Task
  <2>4. Sum3(AdmTasks)' = Sum3(AdmTasks)
    BY <2>2, <2>3
  <2> QED BY <2>1, <2>4, CntSame
<1> QED BY <1>1, <1>2, <1>3, <1>4, <1>5, <1>6, <1>7, <1>8, <1>9, <1>10, <1>11 DEF Next, Ack, Adm

-----------------------------------------------------------------------------
(* After the start of a quiet detach nothing is asked for any more, and the *)
(* detach is the last command.                                              *)
QuietInv ==
  "detach" \in asked => /\ Pending = 0 /\ ack.pc = "idle"
                        /\ adm.cmd = "detach" /\ (up => adm.pc # "idle")

PendingSum == Pending = Sum3(PreTasks)

LEMMA PendingIsSum == TypeInv => PendingSum
<1> SUFFICES ASSUME TypeInv PROVE PendingSum
  OBVIOUS
<1>1. wq \in Seq(Task) /\ sent \in Seq(Task) /\ reps \in Seq(Task)
  BY QueueTypes
<1>2. /\ Preallocs(wq) = Cnt(wq, PreTasks) /\ Preallocs(sent) = Cnt(sent, PreTasks)
      /\ Preallocs(reps) = Cnt(reps, PreTasks)
  BY <1>1, PreallocsIsCnt
<1> QED BY <1>2 DEF PendingSum, Pending, Sum3

LEMMA PendingIsSumNext == TypeInv' => PendingSum'
  BY PendingIsSum, PTL

LEMMA QuietSame ==
  ASSUME TypeInv, TypeInv', QuietInv, Sum3(PreTasks)' = Sum3(PreTasks), asked' = asked,
         "detach" \in asked => ack'.pc = "idle" /\ adm'.cmd = adm.cmd /\ (up' => adm'.pc # "idle")
  PROVE  QuietInv'
<1>1. Pending' = Pending
  BY PendingIsSum, PendingIsSumNext DEF PendingSum
<1> QED BY <1>1 DEF QuietInv

LEMMA QuietOthers ==
  ASSUME TypeInv, TypeInv', QuietInv, NEW q, Adds(q), \A i \in DOMAIN q : q[i].kind # "prealloc",
         asked' = asked,
         "detach" \in asked => ack'.pc = "idle" /\ adm'.cmd = adm.cmd /\ (up' => adm'.pc # "idle")
  PROVE  QuietInv'
<1>1. Cnt(q, PreTasks) = 0
  <2>1. \A i \in DOMAIN q : q[i] \notin PreTasks
    BY DEF PreTasks
  <2> QED BY <2>1, CntNone
<1>2. Sum3(PreTasks)' = Sum3(PreTasks) + Cnt(q, PreTasks) /\ Sum3(PreTasks) \in Nat
  BY AddsEffect, QueueTypes
<1>3. Sum3(PreTasks)' = Sum3(PreTasks)
  BY <1>1, <1>2
<1> QED BY <1>3, QuietSame

(* No preallocation is answered, and no write served, during the detach.    *)
LEMMA NoGrants ==
  ASSUME TypeInv, QuietInv, reps # <<>>, Head(reps).kind = "prealloc" PROVE "detach" \notin asked
<1>1. reps \in Seq(Task) /\ 1 \in DOMAIN reps /\ reps[1] = Head(reps) /\ Head(reps) \in Task
  BY QueueTypes, TailFacts
<1>2. Cnt(reps, PreTasks) # 0
  <2>1. Head(reps) \in PreTasks
    BY <1>1 DEF PreTasks
  <2> QED BY <1>1, <2>1, CntPositive
<1>3. Cnt(wq, PreTasks) \in Nat /\ Cnt(sent, PreTasks) \in Nat /\ Cnt(reps, PreTasks) \in Nat
  BY QueueTypes
<1>4. Sum3(PreTasks) # 0
  BY <1>2, <1>3 DEF Sum3
<1> QED BY <1>4, PendingIsSum DEF QuietInv, PendingSum

LEMMA QuietStarts ==
  ASSUME QuietDetach, CoreInv, QuietInv, NEW x \in Ioctl, AdmStarts(x) PROVE QuietInv'
<1>1. /\ adm.pc = "idle" /\ up /\ asked' = asked \cup {x} /\ adm \in AdmRec
      /\ UNCHANGED <<wq, sent, reps, ack, up>>
      /\ adm' = [adm EXCEPT !.cmd = x, !.pc = CASE x = "alloc" -> "alloc" [] x = "flush" -> "flush"
                                                [] OTHER -> "inval"]
  BY DEF AdmStarts, CoreInv, TypeInv, ThreadType
<1>2. "detach" \notin asked
  BY <1>1 DEF QuietInv
<1>3. CASE x = "detach"
  <2>1. ~PreallocPending
    BY <1>3 DEF AdmStarts
  <2>2. ack.pc = "idle" /\ ~(Pending > 0)
    BY <2>1 DEF PreallocPending, Pending
  <2>3. Pending = 0
    BY <2>2, PendingType DEF CoreInv
  <2>4. Pending' = Pending
    BY <1>1 DEF Pending
  <2>5. adm'.cmd = "detach" /\ adm'.pc = "inval"
    BY <1>1, <1>3 DEF AdmRec
  <2> QED BY <1>1, <2>2, <2>3, <2>4, <2>5 DEF QuietInv
<1>4. CASE x # "detach"
  BY <1>1, <1>2, <1>4 DEF QuietInv
<1> QED BY <1>3, <1>4

LEMMA QuietStep ==
  ASSUME QuietDetach, CoreInv, CoreInv', QuietInv, [Next]_vars PROVE QuietInv'
<1>0. TypeInv /\ TypeInv' /\ AdmInv /\ adm \in AdmRec /\ as \in Seq(Unit)
  BY UnitsType DEF CoreInv, TypeInv, ThreadType
<1>1. CASE UNCHANGED vars \/ \E w \in Writer : WriterLocks(w)
  <2>1. UNCHANGED <<wq, sent, reps, adm, asked, ack, up>>
    BY <1>1 DEF vars, WriterLocks
  <2>2. Sum3(PreTasks)' = Sum3(PreTasks)
    BY <2>1, QueuesSame
  <2> QED BY <1>0, <2>1, <2>2, QuietSame DEF QuietInv
<1>2. CASE AdmFlushed \/ AdmInval \/ AdmClean \/ fspool_free_pool
  <2>1. UNCHANGED <<wq, sent, reps, ack, asked>> /\ adm'.cmd = adm.cmd
    BY <1>0, <1>2 DEF AdmFlushed, AdmInval, AdmClean, fspool_free_pool, AdmRec
  <2>2. Sum3(PreTasks)' = Sum3(PreTasks)
    BY <2>1, QueuesSame
  <2>3. "detach" \in asked => (up' => adm'.pc # "idle")
    BY <1>0, <1>2 DEF AdmFlushed, AdmInval, AdmClean, fspool_free_pool, AdmRec, QuietInv
  <2> QED BY <1>0, <2>1, <2>2, <2>3, QuietSame DEF QuietInv
<1>3. CASE AckAllocs \/ \E w \in Writer : WriterAllocs(w)
  <2>1. PICK w, loc, t : Turns(w, loc, t)
    BY <1>3, ATurn
  <2> QED BY <2>1 DEF Turns, QuietInv
<1>4. CASE WorkerSends
  <2>1. Sends /\ UNCHANGED <<adm, asked, ack, up>>
    BY <1>4 DEF WorkerSends, Sends, discoC_send_fsReq
  <2>2. Sum3(PreTasks)' = Sum3(PreTasks)
    BY <1>0, <2>1, SendsEffect
  <2> QED BY <1>0, <2>1, <2>2, QuietSame DEF QuietInv
<1>5. CASE NNAnswers
  <2>1. (\E i : Answers(i)) /\ UNCHANGED <<adm, asked, ack, up>>
    BY <1>5 DEF NNAnswers, Answers
  <2>2. Sum3(PreTasks)' = Sum3(PreTasks)
    BY <1>0, <2>1, AnswersEffect
  <2> QED BY <1>0, <2>1, <2>2, QuietSame DEF QuietInv
<1>6. CASE WorkerFlushes \/ AdmFlush
  <2>1. PICK by \in {"none", "adm"} : wq' = wq \o FlushTasks(as, by)
    BY <1>6 DEF WorkerFlushes, AdmFlush, sm_report_volume_spaceMData
  <2>2. /\ UNCHANGED <<sent, reps, asked, ack, up>> /\ adm'.cmd = adm.cmd
        /\ adm'.pc = adm.pc \/ adm'.pc = "flushed"
    BY <1>0, <1>6 DEF WorkerFlushes, AdmFlush, sm_report_volume_spaceMData, AdmRec
  <2>3. /\ FlushTasks(as, by) \in Seq(Task)
        /\ \A i \in DOMAIN FlushTasks(as, by) : FlushTasks(as, by)[i].kind = "flush"
    BY <1>0, FlushFacts
  <2>4. Adds(FlushTasks(as, by))
    BY <2>1, <2>2, <2>3 DEF Adds
  <2>5. \A i \in DOMAIN FlushTasks(as, by) : FlushTasks(as, by)[i].kind # "prealloc"
    BY <2>3
  <2>6. "detach" \in asked => ack'.pc = "idle" /\ adm'.cmd = adm.cmd /\ (up' => adm'.pc # "idle")
    BY <2>2 DEF QuietInv
  <2> QED BY <1>0, <2>2, <2>4, <2>5, <2>6, QuietOthers
<1>7. CASE AdmUnuse
  <2>1. PICK q \in Seq(Task) : Unused(q)
    BY <1>0, <1>7, UnuseTasks
  <2>2. Adds(q) /\ adm' = [adm EXCEPT !.pc = "clean", !.cnt = Len(q)] /\ \A i \in DOMAIN q : q[i].kind # "prealloc"
    BY <2>1 DEF Unused
  <2>3. UNCHANGED <<asked, ack, up>>
    BY <1>7 DEF AdmUnuse
  <2>4. adm'.cmd = adm.cmd /\ adm'.pc = "clean"
    BY <1>0, <2>2 DEF AdmRec
  <2>5. "detach" \in asked => ack'.pc = "idle" /\ adm'.cmd = adm.cmd /\ (up' => adm'.pc # "idle")
    BY <2>3, <2>4 DEF QuietInv
  <2> QED BY <1>0, <2>2, <2>3, <2>5, QuietOthers
<1>8. CASE AdmAlloc
  <2>1. adm.pc = "alloc" /\ asked' = asked
    BY <1>8 DEF AdmAlloc
  <2>2. "detach" \notin asked
    BY <1>0, <2>1 DEF AdmInv, QuietInv
  <2> QED BY <2>1, <2>2 DEF QuietInv
<1>9. CASE AckFlush \/ AckReturn
  <2>1. Acks /\ adm' = Counted(Head(reps)) /\ Head(reps).kind # "prealloc" /\ UNCHANGED <<asked, ack, up>>
    BY <1>9 DEF AckFlush, AckReturn, Acks
  <2>2. /\ Sum3(PreTasks)' = Sum3(PreTasks) - (IF Head(reps) \in PreTasks THEN 1 ELSE 0)
        /\ Sum3(PreTasks) \in Nat
    BY <1>0, <2>1, AcksEffect, QueueTypes
  <2>3. Head(reps) \notin PreTasks
    BY <2>1 DEF PreTasks
  <2>4. Sum3(PreTasks)' = Sum3(PreTasks)
    BY <2>2, <2>3
  <2>5. adm'.pc = adm.pc /\ adm'.cmd = adm.cmd
    BY <1>0, <2>1, AdmCounted
  <2> QED BY <1>0, <2>1, <2>4, <2>5, QuietSame DEF QuietInv
<1>10. CASE AckPrealloc
  <2>1. reps # <<>> /\ Head(reps).kind = "prealloc" /\ asked' = asked
    BY <1>10 DEF AckPrealloc
  <2>2. "detach" \notin asked
    BY <1>0, <2>1, NoGrants
  <2> QED BY <2>1, <2>2 DEF QuietInv
<1>11. CASE AckCounts \/ AckServes
  <2>1. ack.pc # "idle" /\ asked' = asked
    BY <1>11 DEF AckCounts, AckServes
  <2> QED BY <2>1 DEF QuietInv
<1> QED BY <1>1, <1>2, <1>3, <1>4, <1>5, <1>6, <1>7, <1>8, <1>9, <1>10, <1>11, QuietStarts DEF Next, Ack, Adm

(* The detach goes through its phases.                                      *)
LEMMA PhaseSame ==
  ASSUME PhaseInv, UNCHANGED <<fs, as, up>>, adm'.pc = adm.pc, adm'.cmd = adm.cmd PROVE PhaseInv'
  BY DEF PhaseInv

LEMMA PhaseNoDetach ==
  ASSUME CoreInv', PhaseInv, "detach" \notin asked', up, up' PROVE PhaseInv'
<1>1. AdmInv'
  BY DEF CoreInv
<1>2. adm'.pc # "idle" => adm'.cmd # "detach"
  BY <1>1 DEF AdmInv
<1> QED BY <1>2 DEF PhaseInv

(* During the detach the list of allocated chunks only loses chunks, and    *)
(* chunks become flushing.                                                  *)
LEMMA PhaseList ==
  ASSUME PhaseInv, UNCHANGED <<fs, up>>, adm'.pc = adm.pc, adm'.cmd = adm.cmd,
         (\A i \in DOMAIN as : as[i].st = "Flushing") => \A i \in DOMAIN as' : as'[i].st = "Flushing"
  PROVE  PhaseInv'
  BY DEF PhaseInv

LEMMA PhaseFlushes ==
  ASSUME TypeInv, TellInv, PhaseInv, WorkerFlushes \/ AdmFlush PROVE PhaseInv'
<1>1. as' = Flushed(as) /\ UNCHANGED <<fs, up>> /\ adm \in AdmRec
  BY DEF WorkerFlushes, AdmFlush, sm_report_volume_spaceMData, TypeInv, ThreadType
<1>2. as \in Seq(Unit) /\ \A i \in DOMAIN as : as[i].st \in Going
  BY UnitsType DEF TellInv, Ordered
<1>3. DOMAIN Flushed(as) = DOMAIN as /\ \A i \in DOMAIN as : Flushed(as)[i].st = "Flushing"
  BY <1>2, FlushedOne
<1>4. \A i \in DOMAIN as' : as'[i].st = "Flushing"
  BY <1>1, <1>3
<1>5. CASE WorkerFlushes
  <2>1. adm' = adm
    BY <1>5 DEF WorkerFlushes
  <2> QED BY <1>1, <1>4, <2>1, PhaseList
<1>6. CASE AdmFlush
  <2>1. adm.pc = "flush" /\ adm'.pc = "flushed" /\ adm'.cmd = adm.cmd
    BY <1>1, <1>6 DEF AdmFlush, sm_report_volume_spaceMData, AdmRec
  <2> QED BY <1>1, <1>4, <2>1 DEF PhaseInv
<1> QED BY <1>5, <1>6

LEMMA PhaseAckFlush ==
  ASSUME TypeInv, PhaseInv, AckFlush PROVE PhaseInv'
<1>1. /\ fspool_remove_allocspace(Head(reps).u.lb) /\ UNCHANGED <<fs, up>> /\ adm' = Counted(Head(reps))
  BY DEF AckFlush
<1>2. adm'.pc = adm.pc /\ adm'.cmd = adm.cmd
  BY <1>1, AdmCounted
<1> DEFINE hit == {i \in DOMAIN as : up /\ as[i].lb = Head(reps).u.lb}
<1>3. as \in Seq(Unit) /\ DOMAIN as = 1..Len(as) /\ Len(as) \in Nat
  <2>1. as \in Seq(Unit)
    BY UnitsType
  <2>2. \A r \in Seq(Unit) : DOMAIN r = 1..Len(r) /\ Len(r) \in Nat
    OBVIOUS
  <2> QED BY <2>1, <2>2
<1>4. \A i \in DOMAIN as' : \E m \in DOMAIN as : as'[i] = as[m]
  <2>1. CASE hit = {}
    <3>1. as' = as
      BY <1>1, <2>1 DEF fspool_remove_allocspace
    <3> QED BY <3>1
  <2>2. CASE hit # {}
    <3> DEFINE m == Min(hit)
    <3>1. as' = RemoveAt(as, m)
      BY <1>1, <2>2 DEF fspool_remove_allocspace
    <3>2. hit \in SUBSET (1..Len(as))
      BY <1>3
    <3>3. m \in hit
      <4> HIDE DEF hit
      <4> QED BY <1>3, <2>2, <3>2, MinIn
    <3>4. m \in DOMAIN as
      BY <3>3
    <3> HIDE DEF hit, m
    <3> QED BY <1>3, <3>1, <3>4, RemoveFacts
  <2> QED BY <2>1, <2>2
<1> QED BY <1>1, <1>2, <1>4, PhaseList

LEMMA PhaseAdm ==
  ASSUME TypeInv, AdmInv, PhaseInv, Adm, ~AdmFlush PROVE PhaseInv'
<1>0. adm \in AdmRec /\ fs \in Seq(Chunk) /\ Distinct(fs) /\ \A i \in DOMAIN fs : fs[i] \in Chunk
  BY SpaceTypes DEF TypeInv, ThreadType, Typing
<1>1. ASSUME NEW x \in Ioctl, AdmStarts(x) PROVE PhaseInv'
  <2>1. /\ up /\ UNCHANGED <<up, fs, as>> /\ x \in {"alloc", "flush", "return", "detach"}
        /\ adm'.cmd = x
        /\ adm'.pc = CASE x = "alloc" -> "alloc" [] x = "flush" -> "flush" [] OTHER -> "inval"
    BY <1>0, <1>1, SpaceAssumption DEF AdmStarts, AdmRec
  <2> QED BY <2>1 DEF PhaseInv
<1>2. CASE AdmAlloc
  <2>1. adm'.pc = "idle" /\ UNCHANGED <<up, fs, as>>
    BY <1>0, <1>2 DEF AdmAlloc, AdmRec
  <2> QED BY <2>1 DEF PhaseInv
<1>3. CASE AdmInval
  <2>1. /\ fs' = [i \in DOMAIN fs |-> fschunk_invalidate_chunk(fs[i]).c] /\ UNCHANGED <<up, as>>
        /\ adm'.pc = "unuse" /\ adm.pc = "inval"
    BY <1>0, <1>3 DEF AdmInval, _fspool_inval_pool_fschunk, AdmRec
  <2>2. \A j \in DOMAIN fs' : fs'[j].st # "Free"
    BY <1>0, <2>1, ChunkInval
  <2> QED BY <2>1, <2>2 DEF PhaseInv
<1>4. CASE AdmUnuse
  <2>1. /\ fs' = [i \in DOMAIN fs |-> update_fschunk_state(fs[i], "ReportFree").c] /\ UNCHANGED <<up, as>>
        /\ adm'.cmd = adm.cmd /\ adm'.pc = "clean" /\ adm.pc = "unuse"
    BY <1>0, <1>4 DEF AdmUnuse, AdmRec
  <2>2. \A i \in DOMAIN fs : fs[i].st \in {"Free", "Invalidated", "Reporting"}
    BY <1>0 DEF Chunk
  <2>3. ASSUME adm.cmd = "detach" PROVE \A j \in DOMAIN fs' : fs'[j].st = "Reporting"
    BY <1>0, <2>1, <2>2, <2>3, ChunkReport DEF PhaseInv
  <2> QED BY <2>1, <2>3 DEF PhaseInv
<1>5. CASE AdmClean
  <2> DEFINE S == {c \in ToSet(fs) : update_fschunk_state(c, "CleanSpace").act # "DO_Clean"}
  <2>1. /\ fs' = Among(fs, S) /\ UNCHANGED <<up, as>> /\ adm.pc = "clean"
        /\ adm'.cmd = adm.cmd /\ adm'.pc = IF adm.cmd = "return" THEN "idle" ELSE "flush"
    BY <1>0, <1>5 DEF AdmClean, AdmRec
  <2>2. \A c \in S : c.st # "Reporting"
    BY DEF update_fschunk_state, _update_fschunkReport, To
  <2> HIDE DEF S
  <2>3. /\ fs' \in Seq(Chunk)
        /\ \A i \in DOMAIN fs' : \E j \in DOMAIN fs : fs'[i] = fs[j] /\ fs[j] \in S
    BY <1>0, <2>1, AmongChunks
  <2>4. ASSUME adm.cmd = "detach" PROVE fs' = <<>>
    <3>1. \A j \in DOMAIN fs : fs[j].st = "Reporting"
      BY <2>1, <2>4 DEF PhaseInv
    <3>2. DOMAIN fs' = {}
      BY <2>2, <2>3, <3>1
    <3> QED BY <2>3, <3>2, EmptySeq
  <2> QED BY <2>1, <2>4 DEF PhaseInv
<1>6. CASE AdmFlushed
  <2>1. /\ UNCHANGED <<up, fs, as>> /\ adm.pc = "flushed" /\ adm'.cmd = adm.cmd
        /\ adm'.pc = IF adm.cmd = "flush" THEN "idle" ELSE "free"
    BY <1>0, <1>6 DEF AdmFlushed, AdmRec
  <2> QED BY <2>1 DEF PhaseInv
<1>7. CASE fspool_free_pool
  <2>1. adm'.pc = "idle" /\ fs' = <<>>
    BY <1>0, <1>7 DEF fspool_free_pool, AdmRec
  <2> QED BY <2>1 DEF PhaseInv
<1> QED BY <1>1, <1>2, <1>3, <1>4, <1>5, <1>6, <1>7 DEF Adm

LEMMA PhaseStep ==
  ASSUME CoreInv, CoreInv', TellInv, QuietInv, PhaseInv, [Next]_vars PROVE PhaseInv'
<1>0. TypeInv /\ AdmInv /\ up \in BOOLEAN
  BY DEF CoreInv, TypeInv, ThreadType
<1>1. CASE UNCHANGED vars \/ WorkerSends \/ NNAnswers \/ AckCounts \/ AckServes
           \/ \E w \in Writer : WriterLocks(w)
  <2>1. UNCHANGED <<fs, as, up, adm>>
    BY <1>1 DEF vars, WorkerSends, NNAnswers, AckCounts, AckServes, WriterLocks
  <2> QED BY <2>1, PhaseSame
<1>2. CASE AckAllocs \/ \E w \in Writer : WriterAllocs(w)
  <2>1. PICK w, loc, t : Turns(w, loc, t)
    BY <1>2, ATurn
  <2>2. up /\ up' /\ "detach" \notin asked'
    BY <2>1 DEF Turns
  <2> QED BY <2>2, PhaseNoDetach
<1>3. CASE AckReturn
  <2>1. UNCHANGED <<fs, as, up>> /\ adm' = Counted(Head(reps))
    BY <1>3 DEF AckReturn
  <2> QED BY <1>0, <2>1, AdmCounted, PhaseSame
<1>4. CASE AckPrealloc
  <2>1. reps # <<>> /\ Head(reps).kind = "prealloc" /\ UNCHANGED <<asked, up>>
    BY <1>4 DEF AckPrealloc
  <2>2. "detach" \notin asked
    BY <1>0, <2>1, NoGrants
  <2>3. up
    BY <1>0, <2>2 DEF AdmInv
  <2> QED BY <2>1, <2>2, <2>3, PhaseNoDetach
<1> QED BY <1>0, <1>1, <1>2, <1>3, <1>4, PhaseFlushes, PhaseAckFlush, PhaseAdm DEF Next, Ack, Adm

-----------------------------------------------------------------------------
(* A reported chunk was given back, or its task is on the way.              *)
Returns(K) == {<<k.id, k.hbid>> : k \in {k \in K : k.kind = "return"}}
RetInv ==
  /\ \A j \in DOMAIN fs : fs[j].st = "Reporting" =>
       <<fs[j].id, fs[j].hbid>> \in nn.back \cup Returns(AllTasks)
  /\ Returns(ToSet(reps)) \subseteq nn.back

LEMMA ReturnsUnion ==
  ASSUME NEW K, NEW L PROVE Returns(K \cup L) = Returns(K) \cup Returns(L)
  BY DEF Returns

LEMMA ReturnsOne ==
  ASSUME NEW k PROVE Returns({k}) = IF k.kind = "return" THEN {<<k.id, k.hbid>>} ELSE {}
  BY DEF Returns

(* The reported chunks stay, and so do their tasks until they are answered. *)
FsReported ==
  \A j \in DOMAIN fs' : fs'[j].st = "Reporting" =>
    \E i \in DOMAIN fs : fs[i].st = "Reporting" /\ fs[i].id = fs'[j].id /\ fs[i].hbid = fs'[j].hbid

LEMMA RetKept ==
  ASSUME RetInv, FsReported, nn.back \subseteq nn'.back,
         Returns(AllTasks) \subseteq Returns(AllTasks') \cup nn'.back,
         Returns(ToSet(reps')) \subseteq nn'.back
  PROVE  RetInv'
<1>1. \A j \in DOMAIN fs' : fs'[j].st = "Reporting" =>
        <<fs'[j].id, fs'[j].hbid>> \in nn'.back \cup Returns(AllTasks')
  <2> SUFFICES ASSUME NEW j \in DOMAIN fs', fs'[j].st = "Reporting"
               PROVE  <<fs'[j].id, fs'[j].hbid>> \in nn'.back \cup Returns(AllTasks')
    OBVIOUS
  <2>1. PICK i \in DOMAIN fs : fs[i].st = "Reporting" /\ fs[i].id = fs'[j].id /\ fs[i].hbid = fs'[j].hbid
    BY DEF FsReported
  <2>2. <<fs[i].id, fs[i].hbid>> \in nn.back \cup Returns(AllTasks)
    BY <2>1 DEF RetInv
  <2>3. <<fs'[j].id, fs'[j].hbid>> = <<fs[i].id, fs[i].hbid>>
    BY <2>1
  <2> QED BY <2>2, <2>3
<1> QED BY <1>1 DEF RetInv, Returns, ToSet

LEMMA RetAdds ==
  ASSUME TypeInv, RetInv, FsReported, nn' = nn, NEW q, Adds(q) PROVE RetInv'
<1>1. AllTasks' = AllTasks \cup ToSet(q) /\ reps' = reps
  BY AddsEffect DEF Adds
<1>2. Returns(AllTasks) \subseteq Returns(AllTasks')
  BY <1>1, ReturnsUnion
<1>3. Returns(ToSet(reps')) \subseteq nn'.back
  BY <1>1 DEF RetInv
<1> QED BY <1>2, <1>3, RetKept

LEMMA RetSame ==
  ASSUME RetInv, FsReported, UNCHANGED <<nn, wq, sent, reps>> PROVE RetInv'
<1>1. AllTasks' = AllTasks
  BY QueuesSame
<1>2. Returns(ToSet(reps')) \subseteq nn'.back
  BY DEF RetInv
<1> QED BY <1>1, <1>2, RetKept

LEMMA RetAcks ==
  ASSUME TypeInv, RetInv, FsReported, nn' = nn, Acks PROVE RetInv'
<1>1. /\ AllTasks = AllTasks' \cup {Head(reps)} /\ ToSet(reps) = ToSet(reps') \cup {Head(reps)}
  BY AcksEffect
<1>2. Returns(ToSet(reps')) \subseteq nn.back /\ Returns({Head(reps)}) \subseteq nn.back
  BY <1>1, ReturnsUnion DEF RetInv
<1>3. Returns(AllTasks) \subseteq Returns(AllTasks') \cup nn'.back
  BY <1>1, <1>2, ReturnsUnion
<1> QED BY <1>2, <1>3, RetKept

LEMMA ReportedSame == ASSUME fs' = fs PROVE FsReported
  BY DEF FsReported

LEMMA RetAnswers ==
  ASSUME TypeInv, RetInv, NNAnswers PROVE RetInv'
<1>1. PICK i \in DOMAIN sent : \E x \in 0..Extra :
        /\ sent' = RemoveAt(sent, i) /\ reps' = Append(reps, sent[i])
        /\ nn' = CASE sent[i].kind = "prealloc" ->
                       [nn EXCEPT !.grants = Append(@, [len |-> sent[i].len + x, off |-> nn.upto,
                                                        hbid |-> 1 + nn.upto]),
                                  !.upto = @ + sent[i].len + x]
                  [] sent[i].kind = "flush" -> [nn EXCEPT !.told = @ \cup {sent[i].u}]
                  [] sent[i].kind = "return" -> [nn EXCEPT !.back = @ \cup {<<sent[i].id, sent[i].hbid>>}]
        /\ UNCHANGED <<fs, wq>>
  BY DEF NNAnswers
<1>2. Answers(i) /\ fs' = fs
  BY <1>1 DEF Answers
<1>3. sent[i] \in Task /\ nn \in NameNode
  BY QueueTypes DEF TypeInv, QueueType
<1>4. nn'.back = nn.back \cup Returns({sent[i]})
  <2>1. sent[i].kind \in {"prealloc", "flush", "return"}
    BY <1>3 DEF Task
  <2> DEFINE k == sent[i]
  <2>2. Returns({k}) = IF k.kind = "return" THEN {<<k.id, k.hbid>>} ELSE {}
    BY ReturnsOne
  <2>3. CASE k.kind = "return"
    <3>1. nn' = [nn EXCEPT !.back = @ \cup {<<k.id, k.hbid>>}]
      BY <1>1, <2>3
    <3> QED BY <1>3, <2>2, <2>3, <3>1 DEF NameNode
  <2>4. CASE k.kind = "prealloc"
    <3>1. nn'.back = nn.back
      BY <1>1, <1>3, <2>4 DEF NameNode
    <3> QED BY <2>2, <2>4, <3>1
  <2>5. CASE k.kind = "flush"
    <3>1. nn'.back = nn.back
      BY <1>1, <1>3, <2>5 DEF NameNode
    <3> QED BY <2>2, <2>5, <3>1
  <2> QED BY <2>1, <2>3, <2>4, <2>5
<1>5. /\ AllTasks' = AllTasks /\ ToSet(reps') = ToSet(reps) \cup {sent[i]}
  BY <1>2, AnswersEffect
<1>6. Returns(ToSet(reps')) \subseteq nn'.back
  BY <1>4, <1>5, ReturnsUnion DEF RetInv
<1> QED BY <1>2, <1>4, <1>5, <1>6, RetKept, ReportedSame

(* A turn leaves the chunks that are not free as they are.                  *)
LEMMA TurnReported ==
  ASSUME TypeInv, NEW w, NEW loc, NEW t, Turns(w, loc, t) PROVE FsReported
<1>1. /\ fs' = t.fs /\ Walked(t, fs, Len(fs))
  BY DEF Turns, ioSReq_alloc_freeSpace, Turned
<1>2. DOMAIN fs = 1..Len(fs)
  BY SpaceTypes DEF Typing
<1>3. /\ \A j \in DOMAIN fs' : \E i \in DOMAIN fs : Remains(fs'[j], fs[i])
      /\ Distinct(fs')
      /\ \A i \in DOMAIN fs : (\E j \in DOMAIN fs' : fs'[j] = fs[i]) \/ fs[i].st = "Free"
  BY <1>1, <1>2 DEF Walked, PartOf
<1>4. ASSUME NEW j \in DOMAIN fs', fs'[j].st = "Reporting"
      PROVE  \E i \in DOMAIN fs : fs[i].st = "Reporting" /\ fs[i].id = fs'[j].id /\ fs[i].hbid = fs'[j].hbid
  <2>1. PICK i \in DOMAIN fs : Remains(fs'[j], fs[i])
    BY <1>3
  <2>2. fs[i].st = "Reporting" /\ fs[i].id = fs'[j].id
    BY <1>4, <2>1 DEF Remains
  <2>3. PICK m \in DOMAIN fs' : fs'[m] = fs[i]
    BY <1>3, <2>2
  <2>4. m = j
    BY <1>3, <2>2, <2>3 DEF Distinct
  <2> QED BY <2>2, <2>3, <2>4
<1> QED BY <1>4 DEF FsReported

LEMMA RetUnuse ==
  ASSUME TypeInv, RetInv, AdmUnuse PROVE RetInv'
<1>1. PICK q \in Seq(Task) : Unused(q)
  BY UnuseTasks
<1>2. /\ Adds(q) /\ \A i \in DOMAIN q : q[i].kind = "return"
      /\ \A j \in DOMAIN fs : fs[j].st = "Invalidated" =>
           \E i \in DOMAIN q : q[i].id = fs[j].id /\ q[i].hbid = fs[j].hbid
  BY <1>1 DEF Unused
<1>3. /\ fs' = [i \in DOMAIN fs |-> update_fschunk_state(fs[i], "ReportFree").c] /\ nn' = nn
  BY DEF AdmUnuse
<1>4. \A i \in DOMAIN fs : fs[i] \in Chunk
  BY SpaceTypes DEF Typing
<1>5. AllTasks' = AllTasks \cup ToSet(q) /\ reps' = reps
  BY <1>2, AddsEffect DEF Adds
<1>6. \A j \in DOMAIN fs' : /\ j \in DOMAIN fs /\ fs'[j].id = fs[j].id /\ fs'[j].hbid = fs[j].hbid
                            /\ fs'[j].st = "Reporting" => fs[j].st \in {"Invalidated", "Reporting"}
  BY <1>3, <1>4, ChunkReport DEF Restated
<1>7. ASSUME NEW j \in DOMAIN fs', fs'[j].st = "Reporting"
      PROVE  <<fs'[j].id, fs'[j].hbid>> \in nn'.back \cup Returns(AllTasks')
  <2>1. CASE fs[j].st = "Reporting"
    <3>1. <<fs[j].id, fs[j].hbid>> \in nn.back \cup Returns(AllTasks)
      BY <1>6, <2>1 DEF RetInv
    <3>2. Returns(AllTasks) \subseteq Returns(AllTasks')
      BY <1>5, ReturnsUnion
    <3>3. <<fs'[j].id, fs'[j].hbid>> = <<fs[j].id, fs[j].hbid>>
      BY <1>6
    <3> QED BY <1>3, <3>1, <3>2, <3>3
  <2>2. CASE fs[j].st = "Invalidated"
    <3>1. PICK i \in DOMAIN q : q[i].id = fs[j].id /\ q[i].hbid = fs[j].hbid
      BY <1>2, <1>6, <2>2
    <3>2. q[i] \in ToSet(q) /\ q[i].kind = "return"
      BY <1>2, SetFacts
    <3>3. <<q[i].id, q[i].hbid>> \in Returns(ToSet(q))
      BY <3>2 DEF Returns
    <3>4. <<q[i].id, q[i].hbid>> \in Returns(AllTasks')
      BY <1>5, <3>3, ReturnsUnion
    <3>5. <<fs'[j].id, fs'[j].hbid>> = <<q[i].id, q[i].hbid>>
      BY <1>6, <3>1
    <3> QED BY <3>4, <3>5
  <2> QED BY <1>6, <1>7, <2>1, <2>2
<1>8. Returns(ToSet(reps')) \subseteq nn'.back
  BY <1>3, <1>5 DEF RetInv
<1> QED BY <1>7, <1>8 DEF RetInv, Returns, ToSet

LEMMA RetStep ==
  ASSUME CoreInv, RetInv, [Next]_vars PROVE RetInv'
<1>0. TypeInv /\ as \in Seq(Unit) /\ fs \in Seq(Chunk) /\ Distinct(fs) /\ \A i \in DOMAIN fs : fs[i] \in Chunk
  BY UnitsType, SpaceTypes DEF CoreInv, Typing
<1>1. CASE UNCHANGED vars \/ AckCounts \/ AckServes \/ AdmFlushed \/ (\E w \in Writer : WriterLocks(w))
           \/ \E x \in Ioctl : AdmStarts(x)
  <2>1. UNCHANGED <<fs, nn, wq, sent, reps>>
    BY <1>1 DEF vars, AckCounts, AckServes, AdmFlushed, WriterLocks, AdmStarts
  <2> QED BY <2>1, ReportedSame, RetSame
<1>2. CASE AckAllocs \/ \E w \in Writer : WriterAllocs(w)
  <2>1. PICK w, loc, t : Turns(w, loc, t)
    BY <1>2, ATurn
  <2>2. PICK q \in Seq(Task) : Adds(q) /\ \A i \in DOMAIN q : q[i].by = "none"
    BY <1>0, <2>1, TurnAdds
  <2>3. FsReported
    BY <1>0, <2>1, TurnReported
  <2>4. nn' = nn
    BY <2>1 DEF Turns
  <2> QED BY <1>0, <2>2, <2>3, <2>4, RetAdds
<1>3. CASE WorkerSends
  <2>1. Sends /\ UNCHANGED <<fs, nn, reps>>
    BY <1>3 DEF WorkerSends, Sends, discoC_send_fsReq
  <2>2. AllTasks' = AllTasks
    BY <1>0, <2>1, SendsEffect
  <2>3. Returns(ToSet(reps')) \subseteq nn'.back
    BY <2>1 DEF RetInv
  <2> QED BY <2>1, <2>2, <2>3, ReportedSame, RetKept
<1>4. CASE WorkerFlushes \/ AdmFlush
  <2>1. PICK by \in {"none", "adm"} : wq' = wq \o FlushTasks(as, by)
    BY <1>4 DEF WorkerFlushes, AdmFlush, sm_report_volume_spaceMData
  <2>2. UNCHANGED <<fs, nn, sent, reps>>
    BY <1>4 DEF WorkerFlushes, AdmFlush
  <2>3. FlushTasks(as, by) \in Seq(Task)
    BY <1>0, FlushFacts
  <2>4. Adds(FlushTasks(as, by))
    BY <2>1, <2>2, <2>3 DEF Adds
  <2> QED BY <1>0, <2>2, <2>4, ReportedSame, RetAdds
<1>5. CASE AdmAlloc
  <2>1. PICK q \in Seq(Task) : Adds(q) /\ \A i \in DOMAIN q : q[i].kind = "prealloc" /\ q[i].by = "none"
    BY <1>0, <1>5, AllocTask
  <2>2. UNCHANGED <<fs, nn>>
    BY <1>5 DEF AdmAlloc
  <2> QED BY <1>0, <2>1, <2>2, ReportedSame, RetAdds
<1>6. CASE AckFlush \/ AckReturn
  <2>1. Acks /\ UNCHANGED <<fs, nn>>
    BY <1>6 DEF AckFlush, AckReturn, Acks
  <2> QED BY <1>0, <2>1, ReportedSame, RetAcks
<1>7. CASE AckPrealloc
  <2> DEFINE c == fschunk_init_chunk(GrantOf, nn.grants[GrantOf])
  <2>1. Acks /\ nn' = nn /\ fs' = IF up THEN Append(fs, c) ELSE fs
    BY <1>7 DEF AckPrealloc, Acks, _fspool_add_fschunk
  <2>2. c.st = "Free"
    BY DEF fschunk_init_chunk, init_fschunk_state_fsm
  <2> HIDE DEF c
  <2>3. \A j \in DOMAIN Append(fs, c) :
          Append(fs, c)[j] = c \/ (j \in DOMAIN fs /\ Append(fs, c)[j] = fs[j])
    <3>1. \A j \in DOMAIN Append(fs, c) : j \in 1..Len(fs) \/ j = Len(fs) + 1
      BY <1>0
    <3> QED BY <1>0, <3>1
  <2>4. FsReported
    BY <2>1, <2>2, <2>3 DEF FsReported
  <2> QED BY <1>0, <2>1, <2>4, RetAcks
<1>8. CASE AdmInval
  <2>1. /\ fs' = [i \in DOMAIN fs |-> fschunk_invalidate_chunk(fs[i]).c]
        /\ UNCHANGED <<nn, wq, sent, reps>>
    BY <1>8 DEF AdmInval, _fspool_inval_pool_fschunk
  <2>2. \A j \in DOMAIN fs' : /\ j \in DOMAIN fs /\ fs'[j].id = fs[j].id /\ fs'[j].hbid = fs[j].hbid
                              /\ fs'[j].st = "Reporting" => fs[j].st = "Reporting"
    BY <1>0, <2>1, ChunkInval DEF Restated
  <2>3. FsReported
    BY <2>2 DEF FsReported
  <2> QED BY <2>1, <2>3, RetSame
<1>9. CASE AdmClean
  <2> DEFINE S == {c \in ToSet(fs) : update_fschunk_state(c, "CleanSpace").act # "DO_Clean"}
  <2>1. fs' = Among(fs, S) /\ UNCHANGED <<nn, wq, sent, reps>>
    BY <1>9 DEF AdmClean
  <2> HIDE DEF S
  <2>2. \A i \in DOMAIN fs' : \E j \in DOMAIN fs : fs'[i] = fs[j]
    BY <1>0, <2>1, AmongChunks
  <2>3. FsReported
    BY <2>2 DEF FsReported
  <2> QED BY <2>1, <2>3, RetSame
<1>10. CASE fspool_free_pool
  <2>1. fs' = <<>> /\ UNCHANGED <<nn, wq, sent, reps>>
    BY <1>10 DEF fspool_free_pool
  <2>2. FsReported
    BY <2>1 DEF FsReported
  <2> QED BY <2>1, <2>2, RetSame
<1> QED BY <1>0, <1>1, <1>2, <1>3, <1>4, <1>5, <1>6, <1>7, <1>8, <1>9, <1>10, RetAnswers, RetUnuse
     DEF Next, Ack, Adm

-----------------------------------------------------------------------------
(* Every block of space the namenode granted is in a grant, and every block *)
(* of a grant that was answered is in a part that was given, in what is     *)
(* left of the grant, or was given back.                                    *)
HasIn(u, h) == u.hbid <= h /\ h < EndOf(u)
Covered(i, h) ==
  \/ \E u \in Units : HasIn(u, h)
  \/ \E j \in DOMAIN fs : fs[j].id = i /\ fs[j].hbid <= h
  \/ \E p \in nn.back : p[1] = i /\ p[2] <= h
GrantCover == \A h \in 1..nn.upto : \E i \in DOMAIN nn.grants : HasIn(nn.grants[i], h)
SpaceCover == \A i \in 1..(GrantOf - 1) : \A h \in Nat : HasIn(nn.grants[i], h) => Covered(i, h)
CoverInv == GrantCover /\ SpaceCover

(* What a step owes to the blocks of the chunks that are left.              *)
ChunkCover ==
  \A i, h \in Nat : \A j \in DOMAIN fs :
    fs[j].id = i /\ fs[j].hbid <= h /\ HasIn(nn.grants[i], h) => Covered(i, h)'
CoverOnward == nn.back \subseteq nn'.back /\ Units \subseteq Units' /\ ChunkCover

LEMMA CoverBelow ==
  ASSUME SpaceCover, CoverOnward, NEW i \in 1..(GrantOf - 1), NEW h \in Nat, HasIn(nn.grants[i], h)
  PROVE  Covered(i, h)'
<1>1. Covered(i, h)
  BY DEF SpaceCover
<1>2. CASE \E u \in Units : HasIn(u, h)
  <2>1. PICK u \in Units : HasIn(u, h)
    BY <1>2
  <2>2. u \in Units'
    BY <2>1 DEF CoverOnward
  <2> QED BY <2>1, <2>2 DEF Covered, HasIn, EndOf
<1>3. CASE \E j \in DOMAIN fs : fs[j].id = i /\ fs[j].hbid <= h
  <2>1. i \in Nat
    OBVIOUS
  <2> QED BY <1>3, <2>1 DEF CoverOnward, ChunkCover
<1>4. CASE \E p \in nn.back : p[1] = i /\ p[2] <= h
  BY <1>4 DEF CoverOnward, Covered
<1> QED BY <1>1, <1>2, <1>3, <1>4 DEF Covered

LEMMA CoverKept ==
  ASSUME CoverInv, CoverOnward, GrantOf' = GrantOf, nn'.grants = nn.grants, nn'.upto = nn.upto
  PROVE  CoverInv'
<1>1. GrantCover'
  BY DEF CoverInv, GrantCover, HasIn, EndOf
<1>2. ASSUME NEW i \in 1..(GrantOf - 1), NEW h \in Nat, HasIn(nn.grants[i], h) PROVE Covered(i, h)'
  BY <1>2, CoverBelow DEF CoverInv
<1>3. \A i \in 1..(GrantOf' - 1) : \A h \in Nat : HasIn(nn'.grants[i], h) => Covered(i, h)'
  BY <1>2
<1>4. SpaceCover'
  BY <1>3 DEF SpaceCover, HasIn, EndOf
<1> QED BY <1>1, <1>4 DEF CoverInv

(* Chunks that stay, perhaps in another state, cover what they did.         *)
LEMMA ChunksStay ==
  ASSUME \A j \in DOMAIN fs : \E m \in DOMAIN fs' : fs'[m].id = fs[j].id /\ fs'[m].hbid = fs[j].hbid
  PROVE  ChunkCover
  BY DEF ChunkCover, Covered

LEMMA CoverSame ==
  ASSUME CoverInv, UNCHANGED <<fs, nn>>, Units \subseteq Units', GrantOf' = GrantOf PROVE CoverInv'
<1>1. ChunkCover
  BY ChunksStay
<1> QED BY <1>1, CoverKept DEF CoverOnward

(* An answered preallocation brings the chunk of its whole grant.           *)
LEMMA CoverAckPrealloc ==
  ASSUME CoreInv, QuietInv, CoverInv, AckPrealloc PROVE CoverInv'
<1> DEFINE n == GrantOf
           c == fschunk_init_chunk(n, nn.grants[n])
<1>0. TypeInv /\ AdmInv /\ up \in BOOLEAN
  BY DEF CoreInv, TypeInv, ThreadType
<1>1. /\ reps # <<>> /\ Head(reps).kind = "prealloc" /\ reps' = Tail(reps)
      /\ UNCHANGED <<wr, nn>> /\ fs' = IF up THEN Append(fs, c) ELSE fs
  BY DEF AckPrealloc, _fspool_add_fschunk
<1>2. "detach" \notin asked
  BY <1>0, <1>1, NoGrants
<1>3. up
  BY <1>0, <1>2 DEF AdmInv
<1>4. /\ reps \in Seq(Task) /\ fs \in Seq(Chunk) /\ n \in Int /\ n >= 1
      /\ Preallocs(reps) \in Nat /\ Len(nn.grants) \in Nat
  BY <1>0, SpaceTypes, PreallocsIsCnt DEF Typing, TypeInv, QueueType
<1>5. GrantOf' = n + 1
  <2>1. n = Len(nn.grants) - Preallocs(reps) + 1 /\ GrantOf' = Len(nn.grants) - Preallocs(reps') + 1
    BY <1>1 DEF GrantOf
  <2>2. Preallocs(reps') = Preallocs(reps) - 1
    BY <1>1, <1>4, PreallocsTail DEF One
  <2> HIDE DEF n
  <2> QED BY <1>4, <2>1, <2>2
<1>6. c.id = n /\ c.hbid = nn.grants[n].hbid
  BY DEF fschunk_init_chunk
<1> HIDE DEF c
<1>7. fs' = Append(fs, c) /\ DOMAIN fs = 1..Len(fs) /\ Len(fs) \in Nat
  BY <1>1, <1>3, <1>4
<1>8. /\ Len(fs) + 1 \in DOMAIN fs' /\ fs'[Len(fs) + 1] = c
      /\ \A j \in DOMAIN fs : j \in DOMAIN fs' /\ fs'[j] = fs[j]
  BY <1>4, <1>7
<1>9. CoverOnward
  <2>1. ChunkCover
    BY <1>8, ChunksStay
  <2>2. Units' = Units
    BY <1>1, UnitsSame DEF SameMd
  <2> QED BY <1>1, <2>1, <2>2 DEF CoverOnward
<1>10. ASSUME NEW i \in 1..n, NEW h \in Nat, HasIn(nn.grants[i], h) PROVE Covered(i, h)'
  <2>1. CASE i = n
    <3>1. fs'[Len(fs) + 1].id = i /\ fs'[Len(fs) + 1].hbid <= h
      BY <1>6, <1>8, <1>10, <2>1 DEF HasIn
    <3> QED BY <1>8, <3>1 DEF Covered
  <2>2. CASE i # n
    <3>1. i \in 1..(GrantOf - 1)
      BY <1>4, <2>2
    <3> QED BY <1>9, <1>10, <3>1, CoverBelow DEF CoverInv
  <2> QED BY <2>1, <2>2
<1>11. 1..(GrantOf' - 1) = 1..n
  BY <1>4, <1>5
<1>12. SpaceCover'
  BY <1>1, <1>10, <1>11 DEF SpaceCover, HasIn, EndOf
<1>13. GrantCover'
  BY <1>1 DEF CoverInv, GrantCover, HasIn, EndOf
<1> QED BY <1>12, <1>13 DEF CoverInv

(* A new grant holds the blocks the namenode granted by it.                 *)
LEMMA CoverAnswers ==
  ASSUME TypeInv, CoverInv, NNAnswers PROVE CoverInv'
<1>1. PICK i \in DOMAIN sent, x \in 0..Extra :
        /\ sent' = RemoveAt(sent, i) /\ reps' = Append(reps, sent[i])
        /\ nn' = CASE sent[i].kind = "prealloc" ->
                        [nn EXCEPT !.grants = Append(@, [len |-> sent[i].len + x, off |-> nn.upto,
                                                         hbid |-> 1 + nn.upto]),
                                   !.upto = @ + sent[i].len + x]
                   [] sent[i].kind = "flush" -> [nn EXCEPT !.told = @ \cup {sent[i].u}]
                   [] sent[i].kind = "return" -> [nn EXCEPT !.back = @ \cup {<<sent[i].id, sent[i].hbid>>}]
        /\ UNCHANGED <<fs, wr, wq>>
  BY DEF NNAnswers
<1> DEFINE k == sent[i]
           g == [len |-> k.len + x, off |-> nn.upto, hbid |-> 1 + nn.upto]
<1>2. /\ sent \in Seq(Task) /\ reps \in Seq(Task) /\ nn \in NameNode
      /\ nn.grants \in Seq(Grant) /\ nn.upto \in Nat /\ Len(nn.grants) \in Nat
      /\ DOMAIN nn.grants = 1..Len(nn.grants) /\ Preallocs(reps) \in Nat
      /\ GrantOf \in Int /\ GrantOf <= Len(nn.grants) + 1
  BY SpaceTypes, PreallocsIsCnt DEF Typing, TypeInv, QueueType
<1>3. k \in Task /\ Preallocs(reps') = Preallocs(reps) + One(k)
  BY <1>1, <1>2, PreallocsAppend
<1>4. k.kind \in {"prealloc", "flush", "return"}
  BY <1>3 DEF Task
<1>5. Units' = Units /\ fs' = fs
  BY <1>1, UnitsSame DEF SameMd
<1>6. ChunkCover
  BY <1>5, ChunksStay
<1>7. CASE k.kind = "prealloc"
  <2>1. nn' = [nn EXCEPT !.grants = Append(@, g), !.upto = @ + k.len + x]
    BY <1>1, <1>7
  <2>2. k.len \in Nat /\ x \in Nat
    BY <1>3, <1>7, SpaceAssumption DEF Task
  <2>3. g \in Grant /\ g.hbid = 1 + nn.upto /\ EndOf(g) = 1 + (nn.upto + k.len + x)
    <3>1. nn.upto \in Nat /\ 1 + nn.upto \in Nat /\ k.len + x \in Nat
      BY <1>2, <2>2
    <3>2. \A a, b, c \in Nat : (1 + a) + (b + c) = 1 + (a + b + c)
      OBVIOUS
    <3> HIDE DEF k
    <3> QED BY <1>2, <2>2, <3>1, <3>2 DEF Grant, EndOf
  <2>4. nn'.grants = Append(nn.grants, g) /\ nn'.upto = nn.upto + k.len + x /\ nn'.back = nn.back
    BY <1>2, <2>1 DEF NameNode
  <2>0. Preallocs(reps') = Preallocs(reps) + 1
    BY <1>3, <1>7 DEF One
  <2> HIDE DEF g, k
  <2>5. /\ Len(nn'.grants) = Len(nn.grants) + 1 /\ Len(nn.grants) + 1 \in DOMAIN nn'.grants
        /\ \A j \in DOMAIN nn.grants : j \in DOMAIN nn'.grants /\ nn'.grants[j] = nn.grants[j]
        /\ nn'.grants[Len(nn.grants) + 1] = g
    <3>1. Len(Append(nn.grants, g)) = Len(nn.grants) + 1
      BY <1>2, <2>3
    <3> QED BY <1>2, <2>3, <2>4, <3>1, AppendFacts
  <2>6. GrantOf' = GrantOf
    <3>1. GrantOf = Len(nn.grants) - Preallocs(reps) + 1
      BY DEF GrantOf
    <3>2. GrantOf' = Len(nn'.grants) - Preallocs(reps') + 1
      BY DEF GrantOf
    <3> QED BY <1>2, <2>0, <2>5, <3>1, <3>2
  <2>7. CoverOnward
    BY <1>5, <1>6, <2>4 DEF CoverOnward
  <2>8. ASSUME NEW j \in 1..(GrantOf - 1), NEW h \in Nat, HasIn(nn'.grants[j], h) PROVE Covered(j, h)'
    <3>1. j \in DOMAIN nn.grants
      BY <1>2
    <3>2. HasIn(nn.grants[j], h)
      BY <2>5, <2>8, <3>1
    <3> QED BY <2>7, <3>2, CoverBelow DEF CoverInv
  <2>9. SpaceCover'
    BY <2>6, <2>8 DEF SpaceCover, HasIn, EndOf
  <2>10. ASSUME NEW h \in 1..nn'.upto PROVE \E j \in DOMAIN nn'.grants : HasIn(nn'.grants[j], h)
    <3>1. CASE h \in 1..nn.upto
      <4>1. PICK j \in DOMAIN nn.grants : HasIn(nn.grants[j], h)
        BY <3>1 DEF CoverInv, GrantCover
      <4> QED BY <2>5, <4>1
    <3>2. CASE h \notin 1..nn.upto
      <4>1. g.hbid <= h /\ h < EndOf(g)
        BY <1>2, <2>2, <2>3, <2>4, <2>10, <3>2
      <4> QED BY <2>5, <4>1 DEF HasIn
    <3> QED BY <3>1, <3>2
  <2>11. GrantCover'
    BY <2>10 DEF GrantCover, HasIn, EndOf
  <2> QED BY <2>9, <2>11 DEF CoverInv
<1>8. CASE k.kind # "prealloc"
  <2>1. nn'.grants = nn.grants /\ nn'.upto = nn.upto /\ nn.back \subseteq nn'.back
    <3>1. CASE k.kind = "flush"
      <4>1. nn' = [nn EXCEPT !.told = @ \cup {k.u}]
        BY <1>1, <3>1
      <4> HIDE DEF k
      <4> QED BY <1>2, <4>1 DEF NameNode
    <3>2. CASE k.kind = "return"
      <4>1. nn' = [nn EXCEPT !.back = @ \cup {<<k.id, k.hbid>>}]
        BY <1>1, <3>2
      <4> HIDE DEF k
      <4> QED BY <1>2, <4>1 DEF NameNode
    <3> QED BY <1>4, <1>8, <3>1, <3>2
  <2>2. GrantOf' = GrantOf
    <3>1. Preallocs(reps') = Preallocs(reps)
      BY <1>2, <1>3, <1>8 DEF One
    <3> QED BY <2>1, <3>1 DEF GrantOf
  <2> QED BY <1>5, <1>6, <2>1, <2>2, CoverKept DEF CoverOnward
<1> QED BY <1>7, <1>8

(* A turn splits a chunk into the part it gives and what is left.           *)
LEMMA CoverTurn ==
  ASSUME TypeInv, SpaceInv, CoverInv, NEW w, NEW loc, NEW t, Turns(w, loc, t) PROVE CoverInv'
<1>1. /\ fs' = t.fs /\ Walked(t, fs, Len(fs)) /\ UNCHANGED <<nn, reps>>
  BY DEF Turns, ioSReq_alloc_freeSpace, Turned
<1>2. Units' = Units \cup ToSet(t.us) /\ t.us \in Seq(Unit)
  BY UnitsTurn DEF Turns
<1>3. DOMAIN fs = 1..Len(fs) /\ \A j \in DOMAIN fs : fs[j] \in Chunk /\ LeftOf(fs[j], nn.grants)
  BY SpaceTypes DEF Typing, SpaceInv, FreeInv
<1>4. /\ \A i \in DOMAIN t.us, j \in DOMAIN fs' : t.us[i].id = fs'[j].id => EndOf(t.us[i]) = fs'[j].hbid
      /\ \A j \in DOMAIN fs :
           \/ \E i \in DOMAIN fs' : fs'[i] = fs[j]
           \/ \E i \in DOMAIN t.us :
                /\ PartOf(t.us[i], fs[j])
                /\ EndOf(t.us[i]) = EndOf(fs[j]) \/ \E d \in DOMAIN fs' : Remains(fs'[d], fs[j])
  BY <1>1, <1>3 DEF Walked
<1>5. ASSUME NEW n \in Nat, NEW h \in Nat, NEW j \in DOMAIN fs, fs[j].id = n, fs[j].hbid <= h,
             HasIn(nn.grants[n], h)
      PROVE  Covered(n, h)'
  <2>1. CASE \E i \in DOMAIN fs' : fs'[i] = fs[j]
    BY <1>5, <2>1 DEF Covered
  <2>2. CASE \E i \in DOMAIN t.us :
               /\ PartOf(t.us[i], fs[j])
               /\ EndOf(t.us[i]) = EndOf(fs[j]) \/ \E d \in DOMAIN fs' : Remains(fs'[d], fs[j])
    <3>1. PICK i \in DOMAIN t.us :
            /\ PartOf(t.us[i], fs[j])
            /\ EndOf(t.us[i]) = EndOf(fs[j]) \/ \E d \in DOMAIN fs' : Remains(fs'[d], fs[j])
      BY <2>2
    <3> DEFINE u == t.us[i]
    <3>2. u \in Units' /\ u \in Unit /\ u.hbid = fs[j].hbid /\ u.id = fs[j].id
      BY <1>2, <3>1, SetFacts DEF PartOf
    <3>3. h < EndOf(fs[j])
      BY <1>3, <1>5 DEF HasIn, LeftOf
    <3>4. CASE h < EndOf(u)
      <4>1. HasIn(u, h)
        BY <1>5, <3>2, <3>4 DEF HasIn
      <4> HIDE DEF u
      <4> QED BY <3>2, <4>1 DEF Covered, HasIn, EndOf
    <3>5. CASE ~(h < EndOf(u))
      <4>1. PICK d \in DOMAIN fs' : Remains(fs'[d], fs[j])
        BY <3>1, <3>3, <3>5
      <4>2. fs'[d].id = fs[j].id /\ EndOf(u) = fs'[d].hbid
        BY <1>4, <3>2, <4>1 DEF Remains
      <4>3. EndOf(u) \in Nat
        BY <3>2, Bounds
      <4>4. fs'[d].hbid <= h
        <5> HIDE DEF u
        <5> QED BY <3>5, <4>2, <4>3
      <4> QED BY <1>5, <4>2, <4>4 DEF Covered
    <3> QED BY <3>4, <3>5
  <2> QED BY <1>4, <2>1, <2>2
<1>6. ChunkCover
  BY <1>5 DEF ChunkCover
<1>7. GrantOf' = GrantOf
  BY <1>1 DEF GrantOf
<1> QED BY <1>1, <1>2, <1>6, <1>7, CoverKept DEF CoverOnward

(* A chunk is dropped when its return was answered.                         *)
LEMMA CoverClean ==
  ASSUME TypeInv, CntInv, RetInv, CoverInv, AdmClean PROVE CoverInv'
<1> DEFINE S == {c \in ToSet(fs) : update_fschunk_state(c, "CleanSpace").act # "DO_Clean"}
<1>1. fs' = Among(fs, S) /\ UNCHANGED <<nn, reps, wr>> /\ adm.cnt = 0
  BY DEF AdmClean
<1>2. fs \in Seq(Chunk) /\ Distinct(fs) /\ \A j \in DOMAIN fs : fs[j] \in Chunk
  BY SpaceTypes DEF Typing
<1>3. \A j \in DOMAIN fs : fs[j] \in S \/ fs[j].st = "Reporting"
  <2>1. \A j \in DOMAIN fs : fs[j] \in ToSet(fs) /\ fs[j].st \in {"Free", "Invalidated", "Reporting"}
    BY <1>2, SetFacts DEF Chunk
  <2>2. \A c : c.st = "Free" => update_fschunk_state(c, "CleanSpace").act # "DO_Clean"
    BY DEF update_fschunk_state, _update_fschunkFree, To
  <2>3. \A c : c.st = "Invalidated" => update_fschunk_state(c, "CleanSpace").act # "DO_Clean"
    BY DEF update_fschunk_state, _update_fschunkInval, To
  <2> QED BY <2>1, <2>2, <2>3
<1> HIDE DEF S
<1>4. \A j \in DOMAIN fs : fs[j] \in S => \E m \in DOMAIN fs' : fs'[m] = fs[j]
  BY <1>1, <1>2, AmongChunks
<1>5. Returns(AllTasks) = {}
  <2>1. Sum3(AdmTasks) = 0
    BY <1>1 DEF CntInv
  <2>2. /\ wq \in Seq(Task) /\ sent \in Seq(Task) /\ reps \in Seq(Task)
        /\ Cnt(wq, AdmTasks) \in Nat /\ Cnt(sent, AdmTasks) \in Nat /\ Cnt(reps, AdmTasks) \in Nat
    BY QueueTypes
  <2>3. Cnt(wq, AdmTasks) = 0 /\ Cnt(sent, AdmTasks) = 0 /\ Cnt(reps, AdmTasks) = 0
    BY <2>1, <2>2 DEF Sum3
  <2>4. ASSUME NEW q \in Seq(Task), Cnt(q, AdmTasks) = 0 PROVE \A k \in ToSet(q) : k.kind # "return"
    <3>1. \A i \in DOMAIN q : q[i] \notin AdmTasks /\ q[i] \in Task
      BY <2>4, CntPositive
    <3>2. \A k \in Task : k.kind = "return" => k \in AdmTasks
      BY DEF Task, AdmTasks
    <3> QED BY <3>1, <3>2, SetFacts
  <2>5. \A k \in AllTasks : k.kind # "return"
    BY <2>2, <2>3, <2>4 DEF AllTasks
  <2> QED BY <2>5 DEF Returns
<1>6. ASSUME NEW n \in Nat, NEW h \in Nat, NEW j \in DOMAIN fs, fs[j].id = n, fs[j].hbid <= h
      PROVE  Covered(n, h)'
  <2>1. CASE fs[j] \in S
    BY <1>4, <1>6, <2>1 DEF Covered
  <2>2. CASE fs[j].st = "Reporting"
    <3> DEFINE p == <<fs[j].id, fs[j].hbid>>
    <3>1. p \in nn'.back
      BY <1>1, <1>5, <2>2 DEF RetInv
    <3>2. p[1] = fs[j].id /\ p[2] = fs[j].hbid
      OBVIOUS
    <3> HIDE DEF p
    <3> QED BY <1>6, <3>1, <3>2 DEF Covered
  <2> QED BY <1>3, <2>1, <2>2
<1>7. ChunkCover
  BY <1>6 DEF ChunkCover
<1>8. GrantOf' = GrantOf /\ Units' = Units
  BY <1>1, UnitsSame DEF GrantOf, SameMd
<1> QED BY <1>1, <1>7, <1>8, CoverKept DEF CoverOnward

LEMMA CoverStep ==
  ASSUME CoreInv, SpaceInv, CntInv, QuietInv, PhaseInv, RetInv, CoverInv, [Next]_vars PROVE CoverInv'
<1>0. TypeInv /\ AdmInv /\ \A j \in DOMAIN fs : fs[j] \in Chunk
  BY SpaceTypes DEF CoreInv, Typing
<1>1. CASE UNCHANGED vars \/ AckCounts \/ AckServes \/ WorkerSends \/ WorkerFlushes
           \/ (\E w \in Writer : WriterLocks(w))
           \/ AdmAlloc \/ AdmFlush \/ AdmFlushed \/ (\E x \in Ioctl : AdmStarts(x))
  <2>1. UNCHANGED <<fs, nn, reps>>
    BY <1>1 DEF vars, AckCounts, AckServes, WorkerSends, WorkerFlushes, WriterLocks, AdmAlloc,
                AdmFlush, AdmFlushed, AdmStarts
  <2>2. SameMd
    <3>1. CASE \E w \in Writer : WriterLocks(w)
      BY <1>0, <3>1 DEF WriterLocks, SameMd, TypeInv, WriterType, WriterRec
    <3>2. CASE ~\E w \in Writer : WriterLocks(w)
      BY <1>1, <3>2 DEF vars, AckCounts, AckServes, WorkerSends, WorkerFlushes, AdmAlloc,
                        AdmFlush, AdmFlushed, AdmStarts, SameMd
    <3> QED BY <3>1, <3>2
  <2>3. GrantOf' = GrantOf /\ Units' = Units
    BY <2>1, <2>2, UnitsSame DEF GrantOf
  <2> QED BY <2>1, <2>3, CoverSame
<1>2. CASE AckAllocs \/ \E w \in Writer : WriterAllocs(w)
  <2>1. PICK w, loc, t : Turns(w, loc, t)
    BY <1>2, ATurn
  <2> QED BY <1>0, <2>1, CoverTurn
<1>3. CASE AckFlush \/ AckReturn
  <2>1. /\ reps # <<>> /\ Head(reps).kind # "prealloc" /\ reps' = Tail(reps)
        /\ UNCHANGED <<fs, nn, wq, sent, wr>>
    BY <1>3 DEF AckFlush, AckReturn
  <2>2. GrantOf' = GrantOf /\ Units' = Units
    BY <1>0, <2>1, RepsTail, UnitsSame DEF SameMd
  <2> QED BY <2>1, <2>2, CoverSame
<1>4. CASE AdmInval \/ AdmUnuse
  <2>1. UNCHANGED <<nn, reps, wr>>
    BY <1>4 DEF AdmInval, AdmUnuse
  <2>2. \A j \in DOMAIN fs : j \in DOMAIN fs' /\ fs'[j].id = fs[j].id /\ fs'[j].hbid = fs[j].hbid
    <3>1. CASE AdmInval
      <4>1. fs' = [i \in DOMAIN fs |-> fschunk_invalidate_chunk(fs[i]).c]
        BY <3>1 DEF AdmInval, _fspool_inval_pool_fschunk
      <4> QED BY <1>0, <4>1, ChunkInval DEF Restated
    <3>2. CASE AdmUnuse
      <4>1. fs' = [i \in DOMAIN fs |-> update_fschunk_state(fs[i], "ReportFree").c]
        BY <3>2 DEF AdmUnuse
      <4> QED BY <1>0, <4>1, ChunkReport DEF Restated
    <3> QED BY <1>4, <3>1, <3>2
  <2>3. ChunkCover
    BY <2>2, ChunksStay
  <2>4. GrantOf' = GrantOf /\ Units' = Units
    BY <2>1, UnitsSame DEF GrantOf, SameMd
  <2> QED BY <2>1, <2>3, <2>4, CoverKept DEF CoverOnward
<1>5. CASE fspool_free_pool
  <2>1. fs = <<>> /\ fs' = <<>> /\ UNCHANGED <<nn, reps, wr>>
    BY <1>0, <1>5 DEF fspool_free_pool, PhaseInv, AdmInv
  <2>2. GrantOf' = GrantOf /\ Units' = Units
    BY <2>1, UnitsSame DEF GrantOf, SameMd
  <2> QED BY <2>1, <2>2, CoverSame
<1> QED BY <1>0, <1>1, <1>2, <1>3, <1>4, <1>5, CoverAckPrealloc, CoverAnswers, CoverClean DEF Next, Ack, Adm

-----------------------------------------------------------------------------
DetachInv == TellInv /\ CntInv /\ QuietInv /\ PhaseInv /\ RetInv /\ CoverInv

LEMMA DetachInit == Init => DetachInv
<1> SUFFICES ASSUME Init PROVE DetachInv
  OBVIOUS
<1>1. /\ fs = <<>> /\ as = <<>> /\ wq = <<>> /\ sent = <<>> /\ reps = <<>> /\ asked = {} /\ up
      /\ adm = [pc |-> "idle", cmd |-> "none", cnt |-> 0]
      /\ nn = [grants |-> <<>>, upto |-> 0, told |-> {}, back |-> {}]
      /\ \A w \in Writer : wr[w].md = <<>>
  BY DEF Init
<1>2. DOMAIN <<>> = {} /\ ToSet(<<>>) = {}
  BY DEF ToSet
<1>3. \A K : Cnt(<<>>, K) = 0
  BY <1>2, CntNone
<1>4. AllTasks = {} /\ Units = {} /\ \A K : Sum3(K) = 0
  BY <1>1, <1>2, <1>3 DEF AllTasks, Units, Sum3
<1>5. TellInv
  <2>1. Ordered(as)
    BY <1>1, <1>2 DEF Ordered
  <2>2. FlushInv
    BY <1>1, <1>3, <1>4 DEF FlushInv
  <2>3. ToldInv
    BY <1>1, <1>2, <1>4 DEF ToldInv, Tells
  <2> QED BY <2>1, <2>2, <2>3 DEF TellInv
<1>6. CntInv
  BY <1>1, <1>4 DEF CntInv
<1>7. QuietInv
  BY <1>1 DEF QuietInv
<1>8. PhaseInv
  BY <1>1 DEF PhaseInv
<1>9. RetInv
  BY <1>1, <1>2 DEF RetInv, Returns
<1>10. CoverInv
  <2>1. GrantOf - 1 = 0
    <3>1. Preallocs(reps) = 0
      BY <1>1, <1>2, FS_EmptySet DEF Preallocs
    <3>2. Len(nn.grants) = 0
      BY <1>1
    <3> QED BY <3>1, <3>2 DEF GrantOf
  <2>2. 1..(GrantOf - 1) = {} /\ 1..nn.upto = {}
    BY <1>1, <2>1
  <2> QED BY <2>2 DEF CoverInv, GrantCover, SpaceCover
<1> QED BY <1>5, <1>6, <1>7, <1>8, <1>9, <1>10 DEF DetachInv

LEMMA DetachStep ==
  ASSUME QuietDetach, CoreInv, CoreInv', SpaceInv, DetachInv, [Next]_vars PROVE DetachInv'
  BY TellStep, CntStep, QuietStep, PhaseStep, RetStep, CoverStep DEF DetachInv

(* When the pool is gone nothing is left of a grant, and every part that    *)
(* was given is told.                                                       *)
Known == UNION {u.hbid .. u.hbid + u.len - 1 : u \in nn.told \cup InFlight}

LEMMA UnitKnown ==
  ASSUME TypeInv, TellInv, ~up, NEW u \in Units, NEW h \in Int, HasIn(u, h) PROVE h \in Known
<1>1. u \in nn.told \cup Tells(AllTasks) /\ u \in Unit
  BY UnitsType DEF TellInv, ToldInv
<1>2. wq \in Seq(Task) /\ sent \in Seq(Task) /\ reps \in Seq(Task)
  BY QueueTypes
<1>3. ASSUME u \in Tells(AllTasks) PROVE u \in InFlight
  <2>1. PICK k \in AllTasks : k.kind = "flush" /\ k.u = u
    BY <1>3 DEF Tells
  <2>2. PICK q \in {wq, sent, reps} : k \in ToSet(q)
    BY DEF AllTasks
  <2>3. PICK i \in DOMAIN q : q[i] = k
    BY <1>2, <2>2, SetFacts
  <2> QED BY <2>1, <2>3 DEF InFlight
<1>4. u \in nn.told \cup InFlight
  BY <1>1, <1>3
<1>5. h \in u.hbid .. u.hbid + u.len - 1
  <2>1. u.hbid \in Nat /\ u.len \in Nat
    BY <1>1, Bounds
  <2> QED BY <2>1 DEF HasIn, EndOf
<1> QED BY <1>4, <1>5 DEF Known

LEMMA DetachGood == CoreInv /\ SpaceInv /\ DetachInv => DetachLosesNothing
<1> SUFFICES ASSUME CoreInv, SpaceInv, DetachInv, ~up
             PROVE  /\ 1 .. nn.upto \subseteq Known \cup Back
                    /\ \A w \in Writer : Given(w) \subseteq Known
  BY DEF DetachLosesNothing, Known
<1>0. TypeInv /\ TellInv /\ QuietInv /\ PhaseInv /\ CoverInv /\ AdmInv
  BY DEF CoreInv, DetachInv
<1>1. /\ nn.upto \in Nat /\ Len(nn.grants) \in Nat /\ DOMAIN nn.grants = 1..Len(nn.grants)
      /\ \A i \in DOMAIN nn.grants : nn.grants[i] \in Grant /\ nn.back \subseteq Nat \X Nat
      /\ wq \in Seq(Task) /\ sent \in Seq(Task) /\ reps \in Seq(Task)
  BY <1>0, SpaceTypes, QueueTypes DEF Typing
<1>2. fs = <<>> /\ Pending = 0
  BY <1>0 DEF PhaseInv, QuietInv, AdmInv
<1>3. GrantOf - 1 = Len(nn.grants)
  <2>1. Preallocs(wq) \in Nat /\ Preallocs(sent) \in Nat /\ Preallocs(reps) \in Nat
    BY <1>1, PreallocsIsCnt
  <2>2. Preallocs(reps) = 0
    BY <1>2, <2>1 DEF Pending
  <2> QED BY <1>1, <2>2 DEF GrantOf
<1>4. ASSUME NEW h \in 1..nn.upto PROVE h \in Known \cup Back
  <2>1. PICK i \in DOMAIN nn.grants : HasIn(nn.grants[i], h)
    BY <1>0 DEF CoverInv, GrantCover
  <2>2. h \in Nat /\ i \in 1..(GrantOf - 1)
    BY <1>1, <1>3
  <2>3. Covered(i, h)
    BY <1>0, <2>1, <2>2 DEF CoverInv, SpaceCover
  <2>4. CASE \E u \in Units : HasIn(u, h)
    BY <1>0, <2>2, <2>4, UnitKnown
  <2>5. CASE \E p \in nn.back : p[1] = i /\ p[2] <= h
    <3>1. PICK p \in nn.back : p[1] = i /\ p[2] <= h
      BY <2>5
    <3>2. p[2] \in Nat /\ nn.grants[i].hbid \in Nat /\ nn.grants[i].len \in Nat
      BY <1>1, <3>1, Bounds
    <3> DEFINE g == nn.grants[i]
    <3>3. h \in p[2] .. g.hbid + g.len - 1
      <4>1. g.hbid \in Nat /\ g.len \in Nat /\ h < g.hbid + g.len
        BY <2>1, <3>2 DEF HasIn, EndOf
      <4> HIDE DEF g
      <4> QED BY <2>2, <3>1, <3>2, <4>1
    <3> QED BY <3>1, <3>3 DEF Back, BackOf
  <2> QED BY <1>2, <2>3, <2>4, <2>5 DEF Covered
<1>5. ASSUME NEW w \in Writer, NEW h \in Given(w) PROVE h \in Known
  <2>1. PICK i \in DOMAIN wr[w].md : h \in Int /\ wr[w].md[i].hbid <= h /\ h < EndOf(wr[w].md[i])
    BY <1>0, GivenHas
  <2>2. wr[w].md[i] \in Units
    BY DEF Units, ToSet
  <2>3. HasIn(wr[w].md[i], h)
    BY <2>1 DEF HasIn
  <2> QED BY <1>0, <2>1, <2>2, <2>3, UnitKnown
<1> QED BY <1>4, <1>5

(* After a detach of a volume that waits for no preallocation, every block  *)
(* the namenode granted was given back or is in a write it knows or is      *)
(* being told of (free_volume_fsPool), however the flushes of the commit    *)
(* worker, the ioctls and the answers interleaved before and during it.     *)
THEOREM DetachIsLossless == QuietDetach => (Spec => []DetachLosesNothing)
<1> SUFFICES ASSUME QuietDetach PROVE Spec => []DetachLosesNothing
  OBVIOUS
<1>1. CoreInv /\ CoreInv' /\ SpaceInv /\ DetachInv /\ [Next]_vars => DetachInv'
  BY DetachStep
<1> QED BY DetachInit, CoreHolds, SpaceHolds, DetachGood, <1>1, PTL DEF Spec

-----------------------------------------------------------------------------
(***************************************************************************)
(* The overwrite queries (OvwQuery), for any volumes, attaches, losses and  *)
(* limit of outstanding queries.  Query k belongs to map k, so that most of *)
(* the invariant says where query k and map k are.                          *)
(***************************************************************************)
Ask == 1..MaxAttach
Queued == ToSet(queue)
(* A queue without repetitions.                                            *)
OnceEach(q) == \A i, j \in DOMAIN q : q[i] = q[j] => i = j
InState(st) == {k \in Queued : req[k].state = st}

QTypes ==
  /\ vol \in [Vol -> [ovw_init : BOOLEAN, ovw_memory : 0..MaxAttach, ovw_reading : BOOLEAN]]
  /\ req \in [Ask -> [vol : Vol \cup {Null}, state : State, ptr : 0..MaxAttach]]
  /\ queue \in Seq(Ask)
  /\ waiting \in Int /\ out \in Int /\ gone \in SUBSET (1..made)
  /\ worker \in [pc : {"wait", "send"}, q : 0..MaxAttach]
  /\ rx \in [pc : {"hder", "data", "free"}, q : 0..MaxAttach, set : {0, 1, 2}]
  /\ link \in {"up", "down", "back"} /\ net \in Seq(Vol)
  /\ made \in 0..MaxAttach /\ lost \in Nat /\ early \in Nat /\ cut \in Nat

(* A query is in the queue until it is freed, and a volume has one of them  *)
(* there at most.                                                           *)
QueueInv ==
  /\ OnceEach(queue)
  /\ \A k \in Queued : k <= made /\ req[k].vol \in Vol /\ req[k].state # "freed"
  /\ \A k, l \in Queued : req[k].vol = req[l].vol => k = l
  /\ \A k \in Ask \ Queued : req[k].state = "freed" /\ req[k].ptr = Null
  /\ \A k \in Ask : k > made => req[k].vol = Null

(* Map k belongs to its volume while that is attached, and to query k when  *)
(* the volume was detached while the receiver filled it.                    *)
MapInv ==
  /\ \A v \in Vol : ~vol[v].ovw_init => vol[v].ovw_memory = Null
  /\ \A v \in Vol : vol[v].ovw_init => vol[v].ovw_memory \in (1..made) \ gone
  /\ \A v, w \in Vol : vol[v].ovw_init /\ vol[v].ovw_memory = vol[w].ovw_memory => v = w
  /\ \A v \in Vol : vol[v].ovw_init => req[vol[v].ovw_memory].vol \in {Null, v}
  /\ \A v \in Vol : vol[v].ovw_init /\ req[vol[v].ovw_memory].vol # Null =>
       \A k \in Queued : req[k].vol = v => k = vol[v].ovw_memory
  /\ \A v \in Vol : vol[v].ovw_init /\ vol[v].ovw_reading /\ req[vol[v].ovw_memory].vol # Null =>
       vol[v].ovw_memory \in Queued
  /\ \A k \in Queued : req[k].state # "CANCEL" =>
       vol[req[k].vol].ovw_memory = k /\ req[k].ptr = k
  /\ \A k \in Queued : req[k].state = "CANCEL" =>
       /\ \A v \in Vol : vol[v].ovw_memory # k
       /\ req[k].ptr = Null \/ (req[k].ptr = k /\ k \notin gone)
  /\ \A k \in (1..made) \ gone :
       \/ \E v \in Vol : vol[v].ovw_memory = k
       \/ k \in Queued /\ req[k].ptr = k
       \/ req[k].vol = Null

(* The receiver has the query whose answer it reads, which may be cancelled *)
(* and freed meanwhile.                                                     *)
RxInv ==
  /\ rx.pc = "data" /\ rx.set = 1 => req[rx.q].state \in {"CANCEL", "freed"}
  /\ rx.pc = "data" /\ rx.set = 2 =>
       \/ req[rx.q].state \in {"PROCESS", "freed"}
       \/ req[rx.q].state = "CANCEL" /\ req[rx.q].ptr = rx.q
  /\ rx.pc = "free" => rx.set # 0
  /\ rx.pc = "free" /\ rx.set = 1 => req[rx.q].state \in {"CANCEL", "freed"}
  /\ rx.pc = "free" /\ rx.set = 2 =>
       \/ req[rx.q].state \in {"DONE", "freed"}
       \/ req[rx.q].state = "CANCEL" /\ req[rx.q].ptr = Null
  /\ rx.pc # "hder" /\ rx.set # 0 => rx.q \in 1..made /\ req[rx.q].vol \in Vol
  /\ \A k \in Queued : req[k].state = "PROCESS" => rx.pc = "data" /\ rx.set = 2 /\ rx.q = k
  /\ \A k \in Queued : req[k].state = "DONE" => rx.pc = "free" /\ rx.set = 2 /\ rx.q = k

(* While the connection lasts, a query that was sent has an answer coming   *)
(* or is in the worker's hands.                                             *)
SendInv ==
  /\ worker.pc = "send" => worker.q \in Ask /\ req[worker.q].vol \in Vol
  /\ link = "up" => \A k \in InState("SEND") :
       req[k].vol \in ToSet(net) \/ (worker.pc = "send" /\ worker.q = k)

(* The counters of the queries sent and to be sent.                         *)
CountInv ==
  /\ out = Cardinality(InState("SEND"))
  /\ waiting = Cardinality(InState("START")) + early - cut

OvwInv == QTypes /\ QueueInv /\ MapInv /\ RxInv /\ SendInv /\ CountInv

(* FirstIn: a query of the queue that is in S, or none is.                  *)
LEMMA FirstFacts ==
  ASSUME queue \in Seq(Ask), NEW S
  PROVE  \/ FirstIn(S) = Null /\ Queued \cap S = {}
         \/ FirstIn(S) \in Queued \cap S
<1> DEFINE at == {i \in DOMAIN queue : queue[i] \in S}
<1>1. Len(queue) \in Nat /\ DOMAIN queue = 1..Len(queue) /\ at \in SUBSET (1..Len(queue))
  OBVIOUS
<1>2. FirstIn(S) = IF at = {} THEN Null ELSE queue[Min(at)]
  BY DEF FirstIn
<1>3. at # {} => Min(at) \in at
  BY <1>1, MinIn
<1>4. Queued = {queue[i] : i \in DOMAIN queue}
  BY DEF Queued, ToSet
<1> HIDE DEF at
<1>5. CASE at = {}
  BY <1>2, <1>4, <1>5 DEF at
<1>6. CASE at # {}
  BY <1>2, <1>3, <1>4, <1>6 DEF at
<1> QED BY <1>5, <1>6

(* What is taken out of the queue and put in.                               *)
LEMMA UnlinkedFacts ==
  ASSUME queue \in Seq(Ask), OnceEach(queue), NEW k
  PROVE  /\ Unlinked(k) \in Seq(Ask) /\ OnceEach(Unlinked(k))
         /\ ToSet(Unlinked(k)) = Queued \ {k}
<1> DEFINE at == {i \in DOMAIN queue : queue[i] = k}
<1>1. Len(queue) \in Nat /\ DOMAIN queue = 1..Len(queue) /\ at \in SUBSET (1..Len(queue))
  OBVIOUS
<1>2. Unlinked(k) = IF at = {} THEN queue ELSE RemoveAt(queue, Min(at))
  BY DEF Unlinked
<1>3. at # {} => Min(at) \in at
  BY <1>1, MinIn
<1>4. Queued = {queue[i] : i \in DOMAIN queue}
  BY DEF Queued, ToSet
<1>5. CASE at = {}
  BY <1>2, <1>4, <1>5 DEF Queued
<1>6. CASE at # {}
  <2> DEFINE i == Min(at)
             r == RemoveAt(queue, i)
  <2>1. i \in DOMAIN queue /\ queue[i] = k
    BY <1>3, <1>6
  <2> HIDE DEF i
  <2>2. /\ r \in Seq(Ask) /\ DOMAIN r = 1..(Len(queue) - 1)
        /\ \A j \in 1..(i - 1) : r[j] = queue[j]
        /\ \A j \in i..(Len(queue) - 1) : r[j] = queue[j + 1]
    BY <2>1, RemoveIndex
  <2>3. /\ \A j \in DOMAIN r : \E m \in DOMAIN queue : r[j] = queue[m] /\ m # i
        /\ \A m \in DOMAIN queue : m # i => \E j \in DOMAIN r : r[j] = queue[m]
    BY <2>1, RemoveFacts
  <2> HIDE DEF r
  <2>4. ToSet(r) = {r[j] : j \in DOMAIN r}
    BY DEF ToSet
  <2>5. \A m \in DOMAIN queue : queue[m] = k => m = i
    BY <2>1 DEF OnceEach
  <2>6. ToSet(r) = Queued \ {k}
    BY <1>4, <2>1, <2>3, <2>4, <2>5
  <2>7. ASSUME NEW j \in DOMAIN r, NEW l \in DOMAIN r, r[j] = r[l] PROVE j = l
    <3> DEFINE to(x) == IF x < i THEN x ELSE x + 1
    <3>1. \A x \in DOMAIN r : to(x) \in DOMAIN queue /\ r[x] = queue[to(x)]
      BY <1>1, <2>1, <2>2
    <3>2. to(j) = to(l)
      BY <2>7, <3>1 DEF OnceEach
    <3> QED BY <1>1, <2>1, <2>2, <3>2
  <2> QED BY <1>2, <1>6, <2>2, <2>6, <2>7 DEF OnceEach, r, i
<1> QED BY <1>5, <1>6

LEMMA QueueAppend ==
  ASSUME queue \in Seq(Ask), OnceEach(queue), NEW k \in Ask, k \notin Queued
  PROVE  /\ Append(queue, k) \in Seq(Ask) /\ OnceEach(Append(queue, k))
         /\ ToSet(Append(queue, k)) = Queued \cup {k}
<1> DEFINE r == Append(queue, k)
<1>1. /\ r \in Seq(Ask)
      /\ Len(queue) \in Nat /\ DOMAIN queue = 1..Len(queue) /\ DOMAIN r = 1..(Len(queue) + 1)
      /\ Len(queue) + 1 \in DOMAIN r /\ r[Len(queue) + 1] = k
      /\ \A i \in DOMAIN queue : i \in DOMAIN r /\ r[i] = queue[i]
      /\ \A i \in DOMAIN r : i \in DOMAIN queue \/ i = Len(queue) + 1
  BY AppendFacts
<1> HIDE DEF r
<1>2. Queued = {queue[i] : i \in DOMAIN queue} /\ ToSet(r) = {r[i] : i \in DOMAIN r}
  BY DEF Queued, ToSet
<1>3. ToSet(r) = Queued \cup {k}
  BY <1>1, <1>2
<1>4. OnceEach(r)
  BY <1>1, <1>2 DEF OnceEach
<1> QED BY <1>1, <1>3, <1>4 DEF r

(* The query of a volume.                                                   *)
LEMMA FindFacts ==
  ASSUME QTypes, NEW v
  PROVE  \/ find_ovw_req(v) = Null /\ \A k \in Queued : req[k].vol # v
         \/ find_ovw_req(v) \in Queued /\ req[find_ovw_req(v)].vol = v
<1> DEFINE S == {k \in DOMAIN req : req[k].vol = v}
<1>1. queue \in Seq(Ask) /\ DOMAIN req = Ask
  BY DEF QTypes
<1>2. \A k \in Queued : k \in Ask
  BY <1>1 DEF Queued, ToSet
<1>3. (FirstIn(S) = Null /\ Queued \cap S = {}) \/ FirstIn(S) \in Queued \cap S
  BY <1>1, FirstFacts
<1>4. find_ovw_req(v) = FirstIn(S)
  BY DEF find_ovw_req
<1> QED BY <1>1, <1>2, <1>3, <1>4

(* The queued queries in a state are finitely many.                         *)
LEMMA StateFinite ==
  ASSUME QTypes
  PROVE  /\ Queued \subseteq Ask /\ Null \notin Ask
         /\ \A st : IsFiniteSet(InState(st)) /\ Cardinality(InState(st)) \in Nat
<1>1. queue \in Seq(Ask)
  BY DEF QTypes
<1>2. Queued \subseteq Ask
  BY <1>1 DEF Queued, ToSet
<1>3. IsFiniteSet(Ask)
  BY OvwAssumption, FS_Interval DEF Ask
<1>4. \A st : InState(st) \in SUBSET Ask
  BY <1>2 DEF InState
<1>5. \A st : IsFiniteSet(InState(st)) /\ Cardinality(InState(st)) \in Nat
  BY <1>3, <1>4, FS_Subset, FS_CardinalityType
<1> QED BY <1>2, <1>5, OvwAssumption DEF Ask, Null

(* The values that are not a query, a map or a volume.                      *)
LEMMA Nulls ==
  /\ Null \notin Ask /\ Null \notin Vol /\ Null \in 0..MaxAttach /\ Ask \subseteq 0..MaxAttach
  /\ Ask \subseteq Nat /\ MaxAttach \in Nat /\ MaxSend \in Nat
BY OvwAssumption DEF Ask, Null

LEMMA OvwInit == QInit => OvwInv
<1> SUFFICES ASSUME QInit PROVE OvwInv
  OBVIOUS
<1>1. Queued = {}
  BY DEF QInit, Queued, ToSet
<1>2. QTypes
  <2>1. NoQuery \in [vol : Vol \cup {Null}, state : State, ptr : 0..MaxAttach]
    BY Nulls DEF NoQuery, State
  <2>2. 1..made = {} /\ 0 \in 0..MaxAttach
    BY OvwAssumption DEF QInit
  <2> QED BY <2>1, <2>2, Nulls DEF QInit, QTypes, Ask
<1>3. QueueInv
  BY <1>1, Nulls DEF QInit, QueueInv, OnceEach, NoQuery, Ask
<1>4. MapInv
  BY <1>1, Nulls DEF QInit, MapInv
<1>5. RxInv /\ SendInv
  BY <1>1 DEF QInit, RxInv, SendInv, InState
<1>6. \A st : InState(st) = {}
  BY <1>1 DEF InState
<1>7. CountInv
  <2>1. Cardinality(InState("SEND")) = 0 /\ Cardinality(InState("START")) = 0
    BY <1>6, FS_EmptySet
  <2> QED BY <2>1 DEF QInit, CountInv
<1> QED BY <1>2, <1>3, <1>4, <1>5, <1>7 DEF OvwInv

(* The connection is lost, and back: only SendInv could be hurt.            *)
LEMMA OvwConn ==
  ASSUME OvwInv, ConnLost \/ _NNOVW_connected_post_fn
  PROVE  OvwInv'
<1>1. UNCHANGED <<vol, req, queue, waiting, out, gone, worker, rx, made, early, cut>>
  BY DEF ConnLost, _NNOVW_connected_post_fn
<1>2. link' \in {"down", "back"} /\ net' \in Seq(Vol) /\ lost' \in Nat
  <2>1. net \in Seq(Vol) /\ lost \in Nat
    BY DEF OvwInv, QTypes
  <2>2. CASE ConnLost
    BY <2>1, <2>2 DEF ConnLost
  <2>3. CASE _NNOVW_connected_post_fn
    BY <2>1, <2>3 DEF _NNOVW_connected_post_fn
  <2> QED BY <2>2, <2>3
<1>3. Queued' = Queued /\ \A st : InState(st)' = InState(st)
  BY <1>1 DEF Queued, InState
<1>4. QTypes'
  BY <1>1, <1>2 DEF OvwInv, QTypes
<1>5. QueueInv' /\ MapInv' /\ RxInv'
  BY <1>1, <1>3 DEF OvwInv, QueueInv, MapInv, RxInv
<1>6. SendInv' /\ CountInv'
  BY <1>1, <1>2, <1>3 DEF OvwInv, SendInv, CountInv
<1> QED BY <1>4, <1>5, <1>6 DEF OvwInv

(* The worker sends the query it took.                                      *)
LEMMA OvwSend ==
  ASSUME OvwInv, nn_ovw_request_worker
  PROVE  OvwInv'
<1>1. /\ UNCHANGED <<vol, req, queue, waiting, out, gone, rx, link, made, lost, early, cut>>
      /\ worker.pc = "send" /\ worker' = [pc |-> "wait", q |-> Null]
  BY DEF nn_ovw_request_worker
<1>2. Queued' = Queued /\ \A st : InState(st)' = InState(st)
  BY <1>1 DEF Queued, InState
<1>3. net \in Seq(Vol) /\ req[worker.q].vol \in Vol
  BY <1>1 DEF OvwInv, QTypes, SendInv
<1>4. /\ net' \in Seq(Vol)
      /\ link # "down" => ToSet(net') = ToSet(net) \cup {req[worker.q].vol}
  <2>1. CASE link = "down"
    BY <1>3, <2>1 DEF nn_ovw_request_worker
  <2>2. CASE link # "down"
    <3>1. net' = Append(net, req[worker.q].vol)
      BY <2>2 DEF nn_ovw_request_worker
    <3> DEFINE r == Append(net, req[worker.q].vol)
    <3>2. /\ r \in Seq(Vol) /\ Len(net) + 1 \in DOMAIN r /\ r[Len(net) + 1] = req[worker.q].vol
          /\ \A i \in DOMAIN net : i \in DOMAIN r /\ r[i] = net[i]
          /\ \A i \in DOMAIN r : i \in DOMAIN net \/ i = Len(net) + 1
      BY <1>3, AppendFacts
    <3> HIDE DEF r
    <3> QED BY <3>1, <3>2 DEF ToSet, r
  <2> QED BY <2>1, <2>2
<1>5. QTypes'
  BY <1>1, <1>4, Nulls DEF OvwInv, QTypes
<1>6. QueueInv' /\ MapInv' /\ RxInv'
  BY <1>1, <1>2 DEF OvwInv, QueueInv, MapInv, RxInv
<1>7. SendInv' /\ CountInv'
  BY <1>1, <1>2, <1>4 DEF OvwInv, SendInv, CountInv
<1> QED BY <1>5, <1>6, <1>7 DEF OvwInv

(* The retry task: what was sent is to be sent again.                       *)
LEMMA OvwRetry ==
  ASSUME OvwInv, retry_nn_ovw_req
  PROVE  OvwInv'
<1> DEFINE again == InState("SEND")
<1>1. /\ UNCHANGED <<vol, queue, gone, worker, rx, net, made, lost, early, cut>> /\ link' = "up"
      /\ req' = [k \in DOMAIN req |-> IF k \in again THEN [req[k] EXCEPT !.state = "START"] ELSE req[k]]
      /\ out' = out - Cardinality(again) /\ waiting' = waiting + Cardinality(again)
  BY DEF retry_nn_ovw_req, InState, Queued
<1>2. /\ req \in [Ask -> [vol : Vol \cup {Null}, state : State, ptr : 0..MaxAttach]] /\ DOMAIN req = Ask
      /\ \A k \in Ask : req[k] \in [vol : Vol \cup {Null}, state : State, ptr : 0..MaxAttach]
  BY DEF OvwInv, QTypes
<1>3. /\ \A k \in Ask : req'[k].vol = req[k].vol /\ req'[k].ptr = req[k].ptr
      /\ \A k \in Ask : req'[k].state = IF k \in again THEN "START" ELSE req[k].state
  BY <1>1, <1>2
<1>4. Queued' = Queued /\ Queued \subseteq Ask /\ IsFiniteSet(again) /\ Cardinality(again) \in Nat
      /\ IsFiniteSet(InState("START")) /\ Cardinality(InState("START")) \in Nat
  BY <1>1, StateFinite DEF OvwInv, Queued
<1>5. InState("SEND")' = {} /\ InState("START")' = InState("START") \cup again
      /\ InState("START") \cap again = {}
  BY <1>3, <1>4 DEF InState
<1>6. QTypes'
  <2>1. \A k \in Ask : req'[k] \in [vol : Vol \cup {Null}, state : State, ptr : 0..MaxAttach]
    BY <1>1, <1>2 DEF State
  <2>2. req' \in [Ask -> [vol : Vol \cup {Null}, state : State, ptr : 0..MaxAttach]]
    BY <1>1, <1>2, <2>1
  <2> QED BY <1>1, <1>4, <2>2 DEF OvwInv, QTypes
<1>7. QueueInv'
  BY <1>1, <1>3, <1>4 DEF OvwInv, QueueInv, InState
<1>8. MapInv'
  <2>1. \A v \in Vol : vol[v].ovw_init => vol[v].ovw_memory \in Ask
    BY DEF OvwInv, MapInv, QTypes, Ask
  <2>2. \A k \in 1..made : k \in Ask
    BY OvwAssumption DEF OvwInv, QTypes, Ask
  <2> QED BY <1>1, <1>3, <1>4, <2>1, <2>2 DEF OvwInv, MapInv, InState
<1>9. RxInv'
  <2>1. rx.pc # "hder" /\ rx.set # 0 => rx.q \in Ask
    BY DEF OvwInv, RxInv, QTypes, Ask
  <2> QED BY <1>1, <1>3, <1>4, <2>1 DEF OvwInv, RxInv, InState, QTypes
<1>10. SendInv'
  BY <1>1, <1>3, <1>5 DEF OvwInv, SendInv
<1>11. CountInv'
  <2>1. Cardinality(InState("START")') = Cardinality(InState("START")) + Cardinality(again)
    BY <1>4, <1>5, FS_Union, FS_EmptySet
  <2>2. Cardinality(InState("SEND")') = 0
    BY <1>5, FS_EmptySet
  <2>3. early \in Nat /\ cut \in Nat
    BY DEF OvwInv, QTypes
  <2> QED BY <1>1, <1>4, <2>1, <2>2, <2>3 DEF OvwInv, CountInv
<1> QED BY <1>6, <1>7, <1>8, <1>9, <1>10, <1>11 DEF OvwInv

QRec == [vol : Vol \cup {Null}, state : State, ptr : 0..MaxAttach]
VRec == [ovw_init : BOOLEAN, ovw_memory : 0..MaxAttach, ovw_reading : BOOLEAN]

(* What the steps below use of the types.                                   *)
LEMMA Basics ==
  ASSUME OvwInv
  PROVE  /\ req \in [Ask -> QRec] /\ DOMAIN req = Ask /\ \A k \in Ask : req[k] \in QRec
         /\ vol \in [Vol -> VRec] /\ \A v \in Vol : vol[v] \in VRec
         /\ Queued \subseteq Ask /\ 1..made \subseteq Ask /\ made \in Nat
         /\ \A v \in Vol : vol[v].ovw_init => vol[v].ovw_memory \in Ask
         /\ rx.pc # "hder" /\ rx.set # 0 => rx.q \in Ask
         /\ queue \in Seq(Ask) /\ OnceEach(queue)
         /\ Null \notin Ask /\ Null \notin Vol /\ Null \in 0..MaxAttach /\ Ask \subseteq 0..MaxAttach
         /\ waiting \in Int /\ out \in Int /\ early \in Nat /\ cut \in Nat
<1>1. 1..made \subseteq Ask /\ made \in Nat
  BY OvwAssumption DEF OvwInv, QTypes, Ask
<1>2. \A v \in Vol : vol[v].ovw_init => vol[v].ovw_memory \in Ask
  BY <1>1 DEF OvwInv, MapInv
<1>3. rx.pc # "hder" /\ rx.set # 0 => rx.q \in Ask
  BY <1>1 DEF OvwInv, RxInv
<1>4. req \in [Ask -> QRec] /\ vol \in [Vol -> VRec] /\ queue \in Seq(Ask)
  BY DEF OvwInv, QTypes, QRec, VRec
<1>5. OnceEach(queue) /\ waiting \in Int /\ out \in Int /\ early \in Nat /\ cut \in Nat
  BY DEF OvwInv, QueueInv, QTypes
<1> QED BY <1>1, <1>2, <1>3, <1>4, <1>5, Nulls, StateFinite DEF OvwInv

(* The numbers of queries in a state when the state of one changes.         *)
LEMMA OneMoves ==
  ASSUME NEW S, NEW T, IsFiniteSet(S), NEW k
  PROVE  /\ T = S => Cardinality(T) = Cardinality(S)
         /\ T = S \cup {k} /\ k \notin S => Cardinality(T) = Cardinality(S) + 1
         /\ T = S \ {k} /\ k \in S => Cardinality(T) = Cardinality(S) - 1
BY FS_AddElement, FS_RemoveElement

(* The receiver has filled the map, or met a cancelled query.               *)
LEMMA OvwFree ==
  ASSUME OvwInv, RcvFree
  PROVE  OvwInv'
<1> DEFINE k == rx.q
           v == req[k].vol
<1>0. /\ req \in [Ask -> QRec] /\ DOMAIN req = Ask /\ \A x \in Ask : req[x] \in QRec
      /\ vol \in [Vol -> VRec] /\ \A w \in Vol : vol[w] \in VRec
      /\ Queued \subseteq Ask /\ 1..made \subseteq Ask /\ made \in Nat
      /\ \A w \in Vol : vol[w].ovw_init => vol[w].ovw_memory \in Ask
      /\ queue \in Seq(Ask) /\ OnceEach(queue)
      /\ Null \notin Ask /\ Null \notin Vol /\ Null \in 0..MaxAttach /\ Ask \subseteq 0..MaxAttach
  BY Basics
<1>1. /\ rx.pc = "free" /\ rx.set \in {1, 2} /\ k \in Ask /\ k \in 1..made /\ v \in Vol
      /\ rx' = [pc |-> "hder", q |-> Null, set |-> 0]
      /\ UNCHANGED <<waiting, out, worker, link, net, made, lost, early, cut>>
  BY <1>0 DEF RcvFree, OvwInv, RxInv, QTypes
<1>2. /\ req' = [req EXCEPT ![k].state = "freed", ![k].ptr = Null]
      /\ queue' = Unlinked(k)
      /\ gone' = IF rx.set = 1 THEN gone \cup ({req[k].ptr} \ {Null}) ELSE gone
      /\ vol' = IF vol[v].ovw_init THEN [vol EXCEPT ![v].ovw_reading = FALSE] ELSE vol
  BY DEF RcvFree, Freed, set_vol_ovw_read_state
<1>3. /\ \A x \in Ask : x # k => req'[x] = req[x]
      /\ \A x \in Ask : req'[x].vol = req[x].vol
      /\ req'[k].state = "freed" /\ req'[k].ptr = Null
      /\ req' \in [Ask -> QRec]
  <2>1. "freed" \in State
    BY DEF State
  <2> QED BY <1>0, <1>1, <1>2, <2>1 DEF QRec
<1>4. queue' \in Seq(Ask) /\ OnceEach(queue') /\ Queued' = Queued \ {k}
  BY <1>0, <1>2, UnlinkedFacts DEF Queued
<1>5. /\ \A w \in Vol : /\ vol'[w].ovw_init = vol[w].ovw_init /\ vol'[w].ovw_memory = vol[w].ovw_memory
                        /\ vol'[w].ovw_reading => vol[w].ovw_reading
      /\ vol[v].ovw_init => ~vol'[v].ovw_reading
      /\ vol' \in [Vol -> VRec]
  BY <1>0, <1>1, <1>2 DEF VRec
<1>6. /\ k \in Queued => req[k].state # "freed" /\ req[k].ptr \in {Null, k}
      /\ k \notin Queued => req[k].ptr = Null
  BY <1>0, <1>1 DEF OvwInv, QueueInv, MapInv
<1>7. gone' = gone \/ (gone' = gone \cup {k} /\ rx.set = 1 /\ req[k].ptr = k /\ k \in Queued)
  <2>1. CASE rx.set = 1 /\ req[k].ptr # Null
    <3>1. k \in Queued /\ req[k].ptr = k
      BY <1>6, <2>1
    <3>2. gone' = gone \cup ({k} \ {Null})
      BY <1>2, <2>1, <3>1
    <3> QED BY <1>0, <1>1, <2>1, <3>1, <3>2
  <2>2. CASE rx.set = 1 /\ req[k].ptr = Null
    <3>1. gone' = gone \cup ({Null} \ {Null})
      BY <1>2, <2>2
    <3> QED BY <3>1
  <2>3. CASE rx.set = 2
    <3>1. gone' = gone
      BY <1>2, <2>3
    <3> QED BY <3>1
  <2> QED BY <1>1, <2>1, <2>2, <2>3
<1> HIDE DEF k, v
<1>8. QTypes'
  <2>1. gone' \in SUBSET (1..made)
    BY <1>1, <1>7 DEF OvwInv, QTypes
  <2>2. rx' \in [pc : {"hder", "data", "free"}, q : 0..MaxAttach, set : {0, 1, 2}]
    BY <1>0, <1>1
  <2> QED BY <1>1, <1>3, <1>4, <1>5, <2>1, <2>2 DEF OvwInv, QTypes, QRec, VRec
<1>9. QueueInv'
  BY <1>0, <1>1, <1>3, <1>4 DEF OvwInv, QueueInv
<1>10. req[k].state \in {"CANCEL", "freed"} => \A w \in Vol : vol[w].ovw_memory = k => k \notin Queued
  BY <1>1, <1>6 DEF OvwInv, MapInv
<1>11. MapInv'
  <2> USE <1>0, <1>1
  <2>1. gone' # gone => \A w \in Vol : vol[w].ovw_memory # k
    BY <1>7, <1>10 DEF OvwInv, RxInv, MapInv, k
  <2>2. \A w \in Vol : vol'[w].ovw_init => vol'[w].ovw_memory \in (1..made) \ gone'
    BY <1>5, <1>7, <2>1 DEF OvwInv, MapInv
  <2>3. \A w \in Vol : ~vol'[w].ovw_init => vol'[w].ovw_memory = Null
    BY <1>5 DEF OvwInv, MapInv
  <2>4. \A w, z \in Vol : vol'[w].ovw_init /\ vol'[w].ovw_memory = vol'[z].ovw_memory => w = z
    BY <1>5 DEF OvwInv, MapInv
  <2>5. \A w \in Vol : vol'[w].ovw_init => req'[vol'[w].ovw_memory].vol \in {Null, w}
    BY <1>3, <1>5 DEF OvwInv, MapInv
  <2>6. \A w \in Vol : vol'[w].ovw_init /\ req'[vol'[w].ovw_memory].vol # Null =>
          \A x \in Queued' : req'[x].vol = w => x = vol'[w].ovw_memory
    BY <1>3, <1>4, <1>5 DEF OvwInv, MapInv
  <2>7. ASSUME NEW w \in Vol, vol'[w].ovw_init, vol'[w].ovw_reading, req'[vol'[w].ovw_memory].vol # Null
        PROVE  vol'[w].ovw_memory \in Queued'
    <3>1. vol[w].ovw_memory \in Queued /\ vol[w].ovw_init /\ req[vol[w].ovw_memory].vol = w
      BY <1>3, <1>5, <2>7 DEF OvwInv, MapInv
    <3>2. vol[w].ovw_memory # k
      BY <1>5, <2>7, <3>1 DEF v
    <3> QED BY <1>4, <1>5, <3>1, <3>2
  <2>8. \A x \in Queued' : req'[x].state # "CANCEL" =>
          vol'[req'[x].vol].ovw_memory = x /\ req'[x].ptr = x
    BY <1>3, <1>4, <1>5 DEF OvwInv, MapInv, QueueInv
  <2>9. \A x \in Queued' : req'[x].state = "CANCEL" =>
          /\ \A w \in Vol : vol'[w].ovw_memory # x
          /\ req'[x].ptr = Null \/ (req'[x].ptr = x /\ x \notin gone')
    BY <1>3, <1>4, <1>5, <1>7 DEF OvwInv, MapInv
  <2>10. ASSUME NEW x \in (1..made) \ gone'
         PROVE  \/ \E w \in Vol : vol'[w].ovw_memory = x
                \/ x \in Queued' /\ req'[x].ptr = x
                \/ req'[x].vol = Null
    <3>1. CASE x # k
      BY <1>3, <1>4, <1>5, <1>7, <3>1 DEF OvwInv, MapInv
    <3>2. CASE x = k /\ rx.set = 1
      <4>1. req[k].ptr # k
        BY <1>2, <3>2
      <4> QED BY <1>3, <1>5, <1>7, <3>2, <4>1 DEF OvwInv, MapInv
    <3>3. CASE x = k /\ rx.set = 2
      <4>1. req[k].state \in {"DONE", "freed"} \/ req[k].ptr = Null
        BY <3>3 DEF OvwInv, RxInv, k
      <4>2. CASE req[k].state = "DONE"
        <5>1. k \in Queued
          BY <4>2 DEF OvwInv, QueueInv
        <5>2. vol[v].ovw_memory = k
          BY <4>2, <5>1 DEF OvwInv, MapInv, v
        <5> QED BY <1>5, <3>3, <5>2
      <4>3. CASE req[k].ptr = Null
        <5>1. gone' = gone /\ k \in (1..made) \ gone /\ req[k].ptr # k
          BY <1>7, <3>3, <4>3
        <5>2. (\E w \in Vol : vol[w].ovw_memory = k) \/ req[k].vol = Null
          BY <5>1 DEF OvwInv, MapInv
        <5> QED BY <1>3, <1>5, <3>3, <5>2
      <4>4. CASE req[k].state = "freed"
        BY <1>6, <4>3, <4>4
      <4> QED BY <4>1, <4>2, <4>3, <4>4
    <3> QED BY <3>1, <3>2, <3>3
  <2> QED BY <1>1, <2>2, <2>3, <2>4, <2>5, <2>6, <2>7, <2>8, <2>9, <2>10 DEF MapInv
<1>12. RxInv'
  <2>1. \A x \in Queued' : req'[x].state # "PROCESS" /\ req'[x].state # "DONE"
    BY <1>0, <1>1, <1>3, <1>4 DEF OvwInv, RxInv, k
  <2> QED BY <1>1, <2>1 DEF RxInv
<1>13. /\ InState("SEND")' = InState("SEND") /\ InState("START")' = InState("START")
  <2>1. req[k].state \notin {"SEND", "START"}
    BY <1>1 DEF OvwInv, RxInv, k
  <2>2. \A x \in Ask : x \in Queued' /\ req'[x].state \in {"SEND", "START"}
                     <=> x \in Queued /\ req[x].state \in {"SEND", "START"}
    BY <1>0, <1>1, <1>3, <1>4, <2>1
  <2>3. \A x \in Queued' : req'[x].state = req[x].state
    BY <1>0, <1>3, <1>4
  <2> QED BY <1>0, <1>4, <2>2, <2>3 DEF InState
<1>14. SendInv'
  BY <1>0, <1>1, <1>3, <1>13 DEF OvwInv, SendInv, InState
<1>15. CountInv'
  BY <1>1, <1>13 DEF OvwInv, CountInv
<1> QED BY <1>8, <1>9, <1>11, <1>12, <1>14, <1>15 DEF OvwInv

(* The worker takes the first query that is to be sent, or frees a          *)
(* cancelled one.                                                           *)
LEMMA OvwGetStart ==
  ASSUME OvwInv, get_ovw_req, NEW k \in Queued, req[k].state = "START",
         req' = [req EXCEPT ![k].state = "SEND"],
         out' = out + 1, waiting' = waiting - 1, worker' = [pc |-> "send", q |-> k],
         UNCHANGED <<queue, gone>>
  PROVE  OvwInv'
<1>0. /\ req \in [Ask -> QRec] /\ DOMAIN req = Ask /\ \A x \in Ask : req[x] \in QRec
      /\ Queued \subseteq Ask /\ 1..made \subseteq Ask /\ made \in Nat /\ k \in Ask
      /\ \A w \in Vol : vol[w].ovw_init => vol[w].ovw_memory \in Ask
      /\ rx.pc # "hder" /\ rx.set # 0 => rx.q \in Ask
      /\ Null \notin Ask /\ Null \notin Vol /\ Null \in 0..MaxAttach /\ Ask \subseteq 0..MaxAttach
      /\ waiting \in Int /\ out \in Int /\ early \in Nat /\ cut \in Nat
  BY Basics
<1>1. UNCHANGED <<vol, rx, link, net, made, lost, early, cut>> /\ Queued' = Queued
  BY DEF get_ovw_req, Queued
<1>2. /\ \A x \in Ask : x # k => req'[x] = req[x]
      /\ \A x \in Ask : req'[x].vol = req[x].vol /\ req'[x].ptr = req[x].ptr
      /\ req'[k].state = "SEND"
      /\ req' \in [Ask -> QRec]
  <2>1. "SEND" \in State
    BY DEF State
  <2> QED BY <1>0, <2>1 DEF QRec
<1>3. QTypes'
  <2>1. worker' \in [pc : {"wait", "send"}, q : 0..MaxAttach]
    BY <1>0
  <2>2. waiting' \in Int /\ out' \in Int
    BY <1>0
  <2> QED BY <1>1, <1>2, <2>1, <2>2 DEF OvwInv, QTypes, QRec
<1>4. QueueInv'
  BY <1>0, <1>1, <1>2 DEF OvwInv, QueueInv
<1>5. MapInv'
  BY <1>0, <1>1, <1>2 DEF OvwInv, MapInv
<1>6. RxInv'
  <2>1. rx.pc # "hder" /\ rx.set # 0 => rx.q # k
    BY DEF OvwInv, RxInv, QTypes
  <2> QED BY <1>0, <1>1, <1>2, <2>1 DEF OvwInv, RxInv, QTypes
<1>7. /\ InState("SEND")' = InState("SEND") \cup {k} /\ k \notin InState("SEND")
      /\ InState("START")' = InState("START") \ {k} /\ k \in InState("START")
  BY <1>0, <1>1, <1>2 DEF InState
<1>8. SendInv'
  <2>1. req'[k].vol \in Vol
    BY <1>0, <1>2 DEF OvwInv, QueueInv
  <2>2. ASSUME NEW x \in InState("SEND")', link' = "up"
        PROVE  req'[x].vol \in ToSet(net') \/ (worker'.pc = "send" /\ worker'.q = x)
    <3>1. CASE x = k
      BY <3>1
    <3>2. CASE x # k
      <4>1. x \in InState("SEND") /\ x \in Ask /\ link = "up"
        BY <1>0, <1>1, <1>7, <2>2, <3>2 DEF InState
      <4>2. worker.pc # "send"
        BY DEF get_ovw_req
      <4> QED BY <1>1, <1>2, <4>1, <4>2 DEF OvwInv, SendInv
    <3> QED BY <3>1, <3>2
  <2> QED BY <1>0, <2>1, <2>2 DEF SendInv
<1>9. CountInv'
  <2>1. \A st : IsFiniteSet(InState(st)) /\ Cardinality(InState(st)) \in Nat
    BY StateFinite DEF OvwInv
  <2>2. /\ Cardinality(InState("SEND")') = Cardinality(InState("SEND")) + 1
        /\ Cardinality(InState("START")') = Cardinality(InState("START")) - 1
    BY <1>7, <2>1, OneMoves
  <2> QED BY <1>0, <1>1, <2>1, <2>2 DEF OvwInv, CountInv
<1> QED BY <1>3, <1>4, <1>5, <1>6, <1>8, <1>9 DEF OvwInv

LEMMA OvwGetCancel ==
  ASSUME OvwInv, get_ovw_req, NEW k \in Queued, req[k].state = "CANCEL",
         queue' = Unlinked(k), req' = Freed(k),
         gone' = gone \cup ({req[k].ptr} \ {Null}),
         UNCHANGED <<out, waiting, worker>>
  PROVE  OvwInv'
<1>0. /\ req \in [Ask -> QRec] /\ DOMAIN req = Ask /\ \A x \in Ask : req[x] \in QRec
      /\ Queued \subseteq Ask /\ 1..made \subseteq Ask /\ made \in Nat /\ k \in Ask
      /\ \A w \in Vol : vol[w].ovw_init => vol[w].ovw_memory \in Ask
      /\ rx.pc # "hder" /\ rx.set # 0 => rx.q \in Ask
      /\ queue \in Seq(Ask) /\ OnceEach(queue)
      /\ Null \notin Ask /\ Null \notin Vol /\ Null \in 0..MaxAttach /\ Ask \subseteq 0..MaxAttach
  BY Basics
<1>1. UNCHANGED <<vol, rx, link, net, made, lost, early, cut>>
  BY DEF get_ovw_req
<1>2. queue' \in Seq(Ask) /\ OnceEach(queue') /\ Queued' = Queued \ {k}
  BY <1>0, UnlinkedFacts DEF Queued
<1>3. /\ \A x \in Ask : x # k => req'[x] = req[x]
      /\ \A x \in Ask : req'[x].vol = req[x].vol
      /\ req'[k].state = "freed" /\ req'[k].ptr = Null
      /\ req' \in [Ask -> QRec]
  <2>1. "freed" \in State
    BY DEF State
  <2> QED BY <1>0, <2>1 DEF QRec, Freed
<1>4. /\ \A w \in Vol : vol[w].ovw_memory # k
      /\ req[k].ptr = Null \/ (req[k].ptr = k /\ k \notin gone)
      /\ k \in 1..made
  BY <1>0 DEF OvwInv, MapInv, QueueInv, Ask
<1>5. (req[k].ptr = Null /\ gone' = gone) \/ (req[k].ptr = k /\ gone' = gone \cup {k})
  <2>1. CASE req[k].ptr = Null
    <3>1. gone' = gone \cup ({Null} \ {Null})
      BY <2>1
    <3> QED BY <2>1, <3>1
  <2>2. CASE req[k].ptr = k
    <3>1. gone' = gone \cup ({k} \ {Null})
      BY <2>2
    <3> QED BY <1>0, <2>2, <3>1
  <2> QED BY <1>4, <2>1, <2>2
<1>6. QTypes'
  <2>1. gone' \in SUBSET (1..made)
    BY <1>4, <1>5 DEF OvwInv, QTypes
  <2> QED BY <1>1, <1>2, <1>3, <2>1 DEF OvwInv, QTypes, QRec, VRec
<1>7. QueueInv'
  <2>1. \A x \in Queued' : x \in Queued /\ x \in Ask /\ req'[x] = req[x]
    BY <1>0, <1>2, <1>3
  <2>2. \A x \in Ask \ Queued' : req'[x].state = "freed" /\ req'[x].ptr = Null
    BY <1>0, <1>2, <1>3 DEF OvwInv, QueueInv
  <2>3. \A x \in Ask : x > made' => req'[x].vol = Null
    BY <1>1, <1>3 DEF OvwInv, QueueInv
  <2> QED BY <1>1, <1>2, <2>1, <2>2, <2>3 DEF OvwInv, QueueInv
<1>8. MapInv'
  <2> USE <1>0, <1>1
  <2>1. \A w \in Vol : vol[w].ovw_init => vol[w].ovw_memory \in (1..made) \ gone'
    BY <1>4, <1>5 DEF OvwInv, MapInv
  <2>2. \A w \in Vol : vol[w].ovw_init => req'[vol[w].ovw_memory].vol \in {Null, w}
    BY <1>3 DEF OvwInv, MapInv
  <2>3. \A w \in Vol : vol[w].ovw_init /\ req'[vol[w].ovw_memory].vol # Null =>
          \A x \in Queued' : req'[x].vol = w => x = vol[w].ovw_memory
    BY <1>2, <1>3 DEF OvwInv, MapInv
  <2>4. \A w \in Vol : vol[w].ovw_init /\ vol[w].ovw_reading /\ req'[vol[w].ovw_memory].vol # Null =>
          vol[w].ovw_memory \in Queued'
    BY <1>2, <1>3, <1>4 DEF OvwInv, MapInv
  <2>5. \A x \in Queued' : req'[x].state # "CANCEL" =>
          vol[req'[x].vol].ovw_memory = x /\ req'[x].ptr = x
    BY <1>2, <1>3 DEF OvwInv, MapInv
  <2>6. \A x \in Queued' : req'[x].state = "CANCEL" =>
          /\ \A w \in Vol : vol[w].ovw_memory # x
          /\ req'[x].ptr = Null \/ (req'[x].ptr = x /\ x \notin gone')
    BY <1>2, <1>3, <1>5 DEF OvwInv, MapInv
  <2>7. ASSUME NEW x \in (1..made) \ gone'
        PROVE  \/ \E w \in Vol : vol[w].ovw_memory = x
               \/ x \in Queued' /\ req'[x].ptr = x
               \/ req'[x].vol = Null
    <3>1. CASE x # k
      BY <1>2, <1>3, <1>5, <3>1 DEF OvwInv, MapInv
    <3>2. CASE x = k
      <4>1. req[k].ptr = Null /\ k \in (1..made) \ gone
        BY <1>4, <1>5, <3>2
      <4> QED BY <1>3, <1>4, <3>2, <4>1 DEF OvwInv, MapInv
    <3> QED BY <3>1, <3>2
  <2> QED BY <2>1, <2>2, <2>3, <2>4, <2>5, <2>6, <2>7 DEF OvwInv, MapInv
<1>9. RxInv'
  <2>1. \A x \in Queued' : req'[x].state = "PROCESS" => rx.pc = "data" /\ rx.set = 2 /\ rx.q = x
    BY <1>0, <1>2, <1>3 DEF OvwInv, RxInv
  <2>2. \A x \in Queued' : req'[x].state = "DONE" => rx.pc = "free" /\ rx.set = 2 /\ rx.q = x
    BY <1>0, <1>2, <1>3 DEF OvwInv, RxInv
  <2>3. rx.pc # "hder" /\ rx.set # 0 => rx.q \in 1..made /\ req'[rx.q].vol \in Vol
    BY <1>0, <1>3 DEF OvwInv, RxInv
  <2>4. CASE rx.pc # "hder" /\ rx.set # 0
    BY <1>0, <1>1, <1>3, <2>1, <2>2, <2>3, <2>4 DEF OvwInv, RxInv
  <2>5. CASE ~(rx.pc # "hder" /\ rx.set # 0)
    BY <1>1, <2>1, <2>2, <2>3, <2>5 DEF OvwInv, RxInv
  <2> QED BY <2>4, <2>5
<1>10. InState("SEND")' = InState("SEND") /\ InState("START")' = InState("START")
  <2>1. \A x \in Ask : x \in Queued' /\ req'[x].state \in {"SEND", "START"}
                     <=> x \in Queued /\ req[x].state \in {"SEND", "START"}
    BY <1>0, <1>2, <1>3
  <2>2. \A x \in Queued' : req'[x].state = req[x].state
    BY <1>0, <1>2, <1>3
  <2> QED BY <1>0, <1>2, <2>1, <2>2 DEF InState
<1>11. SendInv'
  BY <1>0, <1>1, <1>3, <1>10 DEF OvwInv, SendInv, InState
<1>12. CountInv'
  BY <1>1, <1>10 DEF OvwInv, CountInv
<1> QED BY <1>6, <1>7, <1>8, <1>9, <1>11, <1>12 DEF OvwInv

LEMMA OvwGet ==
  ASSUME OvwInv, get_ovw_req
  PROVE  OvwInv'
<1> DEFINE S == {x \in DOMAIN req : req[x].state \in {"START", "CANCEL"}}
           k == FirstIn(S)
<1>1. k # Null
  BY DEF get_ovw_req
<1>2. queue \in Seq(Ask)
  BY Basics
<1>3. k \in Queued \cap S
  BY <1>1, <1>2, FirstFacts
<1>4. CASE req[k].state = "START"
  <2>1. /\ req' = [req EXCEPT ![k].state = "SEND"]
        /\ out' = out + 1 /\ waiting' = waiting - 1 /\ worker' = [pc |-> "send", q |-> k]
        /\ UNCHANGED <<queue, gone>>
    BY <1>4 DEF get_ovw_req
  <2> HIDE DEF k
  <2> QED BY <1>3, <1>4, <2>1, OvwGetStart
<1>5. CASE req[k].state = "CANCEL"
  <2>1. /\ queue' = Unlinked(k) /\ req' = Freed(k)
        /\ gone' = gone \cup ({req[k].ptr} \ {Null})
        /\ UNCHANGED <<out, waiting, worker>>
    BY <1>5 DEF get_ovw_req
  <2> HIDE DEF k
  <2> QED BY <1>3, <1>5, <2>1, OvwGetCancel
<1> QED BY <1>3, <1>4, <1>5

(* One query changes its state and keeps its volume and its map: what does  *)
(* not depend on the receiver, the worker and the counters.                 *)
Moves(k, st) ==
  /\ k \in Queued /\ st \in State \ {"CANCEL", "freed"} /\ req[k].state # "CANCEL"
  /\ req' = [req EXCEPT ![k].state = st]
  /\ UNCHANGED <<vol, queue, gone, made>>

LEMMA MoveFacts ==
  ASSUME OvwInv, NEW k, NEW st, Moves(k, st)
  PROVE  /\ req' \in [Ask -> QRec] /\ Queued' = Queued /\ k \in Ask /\ Queued \subseteq Ask
         /\ \A x \in Ask : x # k => req'[x] = req[x]
         /\ \A x \in Ask : req'[x].vol = req[x].vol /\ req'[x].ptr = req[x].ptr
         /\ req'[k].state = st
         /\ QueueInv' /\ MapInv'
<1>0. /\ req \in [Ask -> QRec] /\ DOMAIN req = Ask /\ \A x \in Ask : req[x] \in QRec
      /\ Queued \subseteq Ask /\ 1..made \subseteq Ask /\ made \in Nat
      /\ \A w \in Vol : vol[w].ovw_init => vol[w].ovw_memory \in Ask
  BY Basics
<1>1. /\ Queued' = Queued /\ k \in Ask /\ st \in State /\ st # "CANCEL" /\ st # "freed"
      /\ UNCHANGED <<vol, queue, gone, made>>
  BY <1>0 DEF Moves, Queued
<1>2. /\ \A x \in Ask : x # k => req'[x] = req[x]
      /\ \A x \in Ask : req'[x].vol = req[x].vol /\ req'[x].ptr = req[x].ptr
      /\ req'[k].state = st
      /\ req' \in [Ask -> QRec]
  BY <1>0, <1>1 DEF QRec, Moves
<1>3. QueueInv'
  BY <1>0, <1>1, <1>2 DEF OvwInv, QueueInv, Moves
<1>4. MapInv'
  BY <1>0, <1>1, <1>2 DEF OvwInv, MapInv, Moves
<1> QED BY <1>0, <1>1, <1>2, <1>3, <1>4

(* An answer arrives for a query that was sent, or was to be sent again.    *)
LEMMA OvwAnswered ==
  ASSUME OvwInv, RcvHder, NEW k \in Queued, req[k].vol = Head(net), req[k].state # "CANCEL",
         rx' = [pc |-> "data", q |-> k, set |-> 2],
         req' = [req EXCEPT ![k].state = "PROCESS"],
         out' = IF req[k].state = "SEND" THEN out - 1 ELSE out,
         early' = IF req[k].state = "START" THEN early + 1 ELSE early
  PROVE  OvwInv'
<1>0. /\ waiting \in Int /\ out \in Int /\ early \in Nat /\ cut \in Nat
      /\ Ask \subseteq 0..MaxAttach /\ Queued \subseteq Ask
  BY Basics
<1>1. /\ rx.pc = "hder" /\ net # << >> /\ net' = Tail(net)
      /\ UNCHANGED <<vol, queue, waiting, gone, worker, link, made, lost, cut>>
  BY DEF RcvHder
<1>2. req[k].state \in {"START", "SEND"}
  <2>1. req[k].state \in State /\ req[k].state \notin {"PROCESS", "DONE", "freed"}
    BY <1>0, <1>1 DEF OvwInv, RxInv, QueueInv, QTypes
  <2> QED BY <2>1 DEF State
<1>3. Moves(k, "PROCESS")
  BY <1>1 DEF Moves, State
<1>4. /\ req' \in [Ask -> QRec] /\ Queued' = Queued /\ k \in Ask
      /\ \A x \in Ask : x # k => req'[x] = req[x]
      /\ \A x \in Ask : req'[x].vol = req[x].vol /\ req'[x].ptr = req[x].ptr
      /\ req'[k].state = "PROCESS" /\ QueueInv' /\ MapInv'
  BY <1>3, MoveFacts
<1>5. net \in Seq(Vol) /\ Tail(net) \in Seq(Vol)
  BY <1>1, TailFacts DEF OvwInv, QTypes
<1>6. \A v \in ToSet(net) : v = Head(net) \/ v \in ToSet(net')
  <2>1. /\ net[1] = Head(net)
        /\ \A j \in DOMAIN net : j # 1 => j - 1 \in DOMAIN Tail(net) /\ Tail(net)[j - 1] = net[j]
        /\ net[1] = Head(net)
    BY <1>1, <1>5, TailFacts
  <2> QED BY <1>1, <2>1 DEF ToSet
<1>7. QTypes'
  <2>1. rx' \in [pc : {"hder", "data", "free"}, q : 0..MaxAttach, set : {0, 1, 2}]
    BY <1>0, <1>4
  <2>2. out' \in Int /\ early' \in Nat
    BY <1>0
  <2> QED BY <1>1, <1>4, <1>5, <2>1, <2>2 DEF OvwInv, QTypes, QRec
<1>8. RxInv'
  <2>1. k \in 1..made /\ req[k].vol \in Vol
    BY <1>4 DEF OvwInv, QueueInv, QTypes, Ask
  <2>2. \A x \in Queued' : req'[x].state \in {"PROCESS", "DONE"} => x = k
    BY <1>0, <1>1, <1>4 DEF OvwInv, RxInv
  <2> QED BY <1>1, <1>4, <2>1, <2>2 DEF RxInv
<1>9. SendInv'
  <2>1. \A x \in InState("SEND")' : x # k /\ x \in Ask /\ x \in InState("SEND")
    BY <1>0, <1>4 DEF InState
  <2>2. \A x \in InState("SEND") : x # k => req[x].vol # Head(net)
    BY DEF OvwInv, QueueInv, InState
  <2> QED BY <1>1, <1>4, <1>6, <2>1, <2>2 DEF OvwInv, SendInv, QTypes
<1>10. CountInv'
  <2>1. \A st : IsFiniteSet(InState(st)) /\ Cardinality(InState(st)) \in Nat
    BY StateFinite DEF OvwInv
  <2>2. CASE req[k].state = "SEND"
    <3>1. InState("SEND")' = InState("SEND") \ {k} /\ k \in InState("SEND") /\ InState("START")' = InState("START")
      BY <1>0, <1>4, <2>2 DEF InState
    <3>2. Cardinality(InState("SEND")') = Cardinality(InState("SEND")) - 1
      BY <2>1, <3>1, OneMoves
    <3>3. out' = out - 1 /\ early' = early
      BY <2>2
    <3> QED BY <1>0, <1>1, <2>1, <3>1, <3>2, <3>3 DEF OvwInv, CountInv
  <2>3. CASE req[k].state = "START"
    <3>1. InState("START")' = InState("START") \ {k} /\ k \in InState("START") /\ InState("SEND")' = InState("SEND")
      BY <1>0, <1>4, <2>3 DEF InState
    <3>2. Cardinality(InState("START")') = Cardinality(InState("START")) - 1
      BY <2>1, <3>1, OneMoves
    <3>3. out' = out /\ early' = early + 1
      BY <2>3
    <3> QED BY <1>0, <1>1, <2>1, <3>1, <3>2, <3>3 DEF OvwInv, CountInv
  <2> QED BY <1>2, <2>2, <2>3
<1> QED BY <1>4, <1>7, <1>8, <1>9, <1>10 DEF OvwInv

(* Or it arrives for a query that was cancelled, or for none.               *)
LEMMA OvwUnasked ==
  ASSUME OvwInv, RcvHder, UNCHANGED <<req, out, early>>,
         NEW q \in 0..MaxAttach, NEW s \in {0, 1}, rx' = [pc |-> "data", q |-> q, set |-> s],
         s = 1 => q \in Queued /\ req[q].state = "CANCEL",
         \A x \in Queued : req[x].vol = Head(net) => req[x].state = "CANCEL"
  PROVE  OvwInv'
<1>1. /\ rx.pc = "hder" /\ net # << >> /\ net' = Tail(net)
      /\ UNCHANGED <<vol, queue, waiting, gone, worker, link, made, lost, cut>>
  BY DEF RcvHder
<1>2. Queued' = Queued /\ \A st : InState(st)' = InState(st)
  BY <1>1 DEF Queued, InState
<1>3. net \in Seq(Vol) /\ Tail(net) \in Seq(Vol)
  BY <1>1, TailFacts DEF OvwInv, QTypes
<1>4. \A v \in ToSet(net) : v = Head(net) \/ v \in ToSet(net')
  <2>1. /\ \A j \in DOMAIN net : j # 1 => j - 1 \in DOMAIN Tail(net) /\ Tail(net)[j - 1] = net[j]
        /\ net[1] = Head(net)
    BY <1>1, <1>3, TailFacts
  <2> QED BY <1>1, <2>1 DEF ToSet
<1>5. QTypes'
  <2>1. rx' \in [pc : {"hder", "data", "free"}, q : 0..MaxAttach, set : {0, 1, 2}]
    OBVIOUS
  <2> QED BY <1>1, <1>3, <2>1 DEF OvwInv, QTypes
<1>6. QueueInv' /\ MapInv'
  BY <1>1, <1>2 DEF OvwInv, QueueInv, MapInv
<1>7. RxInv'
  <2>1. s = 1 => q \in 1..made /\ req[q].vol \in Vol
    BY Basics DEF OvwInv, QueueInv, Ask
  <2>2. \A x \in Queued : req[x].state # "PROCESS" /\ req[x].state # "DONE"
    BY <1>1 DEF OvwInv, RxInv
  <2> QED BY <1>1, <1>2, <2>1, <2>2 DEF RxInv
<1>8. SendInv'
  <2>1. \A x \in InState("SEND") : req[x].vol # Head(net)
    BY DEF InState
  <2> QED BY <1>1, <1>2, <1>4, <2>1 DEF OvwInv, SendInv
<1>9. CountInv'
  BY <1>1, <1>2 DEF OvwInv, CountInv
<1> QED BY <1>5, <1>6, <1>7, <1>8, <1>9 DEF OvwInv

LEMMA OvwHder ==
  ASSUME OvwInv, RcvHder
  PROVE  OvwInv'
<1> DEFINE k == find_ovw_req(Head(net))
<1>0. /\ req \in [Ask -> QRec] /\ Queued \subseteq Ask /\ Null \notin Ask /\ Null \in 0..MaxAttach
      /\ Ask \subseteq 0..MaxAttach
  BY Basics
<1>1. \/ k = Null /\ \A x \in Queued : req[x].vol # Head(net)
      \/ k \in Queued /\ req[k].vol = Head(net)
  BY FindFacts DEF OvwInv
<1>2. CASE k = Null
  <2>1. rx' = [pc |-> "data", q |-> Null, set |-> 0] /\ UNCHANGED <<req, out, early>>
    BY <1>2 DEF RcvHder
  <2>2. \A x \in Queued : req[x].vol # Head(net)
    BY <1>0, <1>1, <1>2
  <2>3. /\ Null \in 0..MaxAttach /\ 0 \in {0, 1}
        /\ 0 = 1 => Null \in Queued /\ req[Null].state = "CANCEL"
        /\ \A x \in Queued : req[x].vol = Head(net) => req[x].state = "CANCEL"
    BY <1>0, <2>2
  <2> QED BY <2>1, <2>3, OvwUnasked
<1>3. CASE k \in Queued /\ req[k].vol = Head(net)
  <2>1. /\ rx' = [pc |-> "data", q |-> k, set |-> IF req[k].state = "CANCEL" THEN 1 ELSE 2]
        /\ req' = [req EXCEPT ![k] = Changed(req[k], "PROCESS")]
        /\ out' = IF req[k].state = "SEND" THEN out - 1 ELSE out
        /\ early' = IF req[k].state = "START" THEN early + 1 ELSE early
    BY <1>0, <1>3 DEF RcvHder
  <2> HIDE DEF k
  <2>2. k \in Ask /\ k \in 0..MaxAttach /\ req[k] \in QRec
    BY <1>0, <1>3
  <2>3. CASE req[k].state = "CANCEL"
    <3>1. Changed(req[k], "PROCESS") = req[k]
      BY <2>3 DEF Changed
    <3>2. req' = req
      BY <1>0, <2>1, <2>2, <3>1
    <3>3. rx' = [pc |-> "data", q |-> k, set |-> 1] /\ out' = out /\ early' = early
      BY <2>1, <2>3
    <3>4. \A x \in Queued : req[x].vol = Head(net) => req[x].state = "CANCEL"
      BY <1>3, <2>3 DEF OvwInv, QueueInv
    <3> QED BY <1>3, <2>2, <2>3, <3>2, <3>3, <3>4, OvwUnasked
  <2>4. CASE req[k].state # "CANCEL"
    <3>1. Changed(req[k], "PROCESS") = [req[k] EXCEPT !.state = "PROCESS"]
      <4>1. Changed(req[k], "PROCESS") = [req[k] EXCEPT !.state = "PROCESS", !.ptr = @]
        BY <2>4 DEF Changed
      <4> QED BY <2>2, <4>1 DEF QRec
    <3>2. req' = [req EXCEPT ![k].state = "PROCESS"]
      BY <2>1, <3>1
    <3>3. rx' = [pc |-> "data", q |-> k, set |-> 2]
      BY <2>1, <2>4
    <3> QED BY <1>3, <2>1, <2>4, <3>2, <3>3, OvwAnswered
  <2> QED BY <2>3, <2>4
<1> QED BY <1>1, <1>2, <1>3

(* The end of an answer, or of the connection before it.                    *)
LEMMA OvwEnd ==
  ASSUME OvwInv, RcvEnd
  PROVE  OvwInv'
<1> DEFINE k == rx.q
           fill == rx.set = 2 /\ req[k].state \notin {"CANCEL", "freed"}
<1>0. /\ waiting \in Int /\ out \in Int /\ early \in Nat /\ cut \in Nat
      /\ Ask \subseteq 0..MaxAttach /\ Queued \subseteq Ask /\ Null \in 0..MaxAttach
      /\ rx.pc # "hder" /\ rx.set # 0 => rx.q \in Ask
  BY Basics
<1>1. /\ rx.pc = "data"
      /\ UNCHANGED <<vol, queue, waiting, out, gone, worker, link, net, made, lost, early>>
  BY DEF RcvEnd
<1>2. CASE ~fill
  <2>1. req' = req /\ cut' = cut
    BY <1>2 DEF RcvEnd
  <2>2. rx' = IF rx.set = 0 THEN [pc |-> "hder", q |-> Null, set |-> 0]
              ELSE [pc |-> "free", q |-> k, set |-> 1]
    BY <1>2 DEF RcvEnd
  <2>3. Queued' = Queued /\ \A st : InState(st)' = InState(st)
    BY <1>1, <2>1 DEF Queued, InState
  <2>4. rx.set # 0 => req[k].state \in {"CANCEL", "freed"}
    BY <1>1, <1>2 DEF OvwInv, RxInv, QTypes
  <2>5. QTypes'
    <3>1. rx' \in [pc : {"hder", "data", "free"}, q : 0..MaxAttach, set : {0, 1, 2}]
      BY <1>0, <1>1, <2>2
    <3> QED BY <1>1, <2>1, <3>1 DEF OvwInv, QTypes
  <2>6. QueueInv' /\ MapInv'
    BY <1>1, <2>1, <2>3 DEF OvwInv, QueueInv, MapInv
  <2>7. RxInv'
    <3>1. \A x \in Queued : req[x].state # "PROCESS" /\ req[x].state # "DONE"
      BY <1>1, <2>4 DEF OvwInv, RxInv
    <3>2. rx.set # 0 => rx.q \in 1..made /\ req[rx.q].vol \in Vol
      BY <1>1 DEF OvwInv, RxInv
    <3>3. CASE rx.set = 0
      BY <1>1, <2>1, <2>2, <2>3, <3>1, <3>3 DEF RxInv
    <3>4. CASE rx.set # 0
      BY <1>1, <2>1, <2>2, <2>3, <2>4, <3>1, <3>2, <3>4 DEF RxInv
    <3> QED BY <3>3, <3>4
  <2>8. SendInv' /\ CountInv'
    BY <1>1, <2>1, <2>3 DEF OvwInv, SendInv, CountInv
  <2> QED BY <2>5, <2>6, <2>7, <2>8 DEF OvwInv
<1>3. CASE fill
  <2> DEFINE st == IF link = "down" THEN "START" ELSE "DONE"
  <2>1. /\ req' = [req EXCEPT ![k].state = st]
        /\ cut' = IF link = "down" THEN cut + 1 ELSE cut
        /\ rx' = IF link = "down" THEN [pc |-> "hder", q |-> Null, set |-> 0]
                 ELSE [pc |-> "free", q |-> k, set |-> 2]
    BY <1>3 DEF RcvEnd
  <2>2. rx.set = 2 /\ req[k].state = "PROCESS" /\ k \in Ask /\ k \in Queued
        /\ k \in 1..made /\ req[k].vol \in Vol
    BY <1>0, <1>1, <1>3 DEF OvwInv, RxInv, QueueInv
  <2> HIDE DEF k, fill
  <2>3. st \in {"START", "DONE"}
    OBVIOUS
  <2>4. Moves(k, st)
    BY <1>1, <2>1, <2>2, <2>3 DEF Moves, State
  <2>5. /\ req' \in [Ask -> QRec] /\ Queued' = Queued
        /\ \A x \in Ask : x # k => req'[x] = req[x]
        /\ \A x \in Ask : req'[x].vol = req[x].vol /\ req'[x].ptr = req[x].ptr
        /\ req'[k].state = st /\ QueueInv' /\ MapInv'
    BY <2>4, MoveFacts
  <2>6. QTypes'
    <3>1. rx' \in [pc : {"hder", "data", "free"}, q : 0..MaxAttach, set : {0, 1, 2}] /\ cut' \in Nat
      BY <1>0, <2>1, <2>2
    <3> QED BY <1>1, <2>5, <3>1 DEF OvwInv, QTypes, QRec
  <2>7. RxInv'
    <3>1. \A x \in Queued : x # k => req[x].state # "PROCESS" /\ req[x].state # "DONE"
      BY <1>1 DEF OvwInv, RxInv, k
    <3>2. \A x \in Queued : x # k => req'[x].state # "PROCESS" /\ req'[x].state # "DONE"
      BY <1>0, <2>5, <3>1
    <3> QED BY <1>1, <2>1, <2>2, <2>5, <3>2 DEF RxInv
  <2>8. InState("SEND")' = InState("SEND")
    BY <1>0, <2>2, <2>3, <2>5 DEF InState
  <2>9. SendInv'
    BY <1>0, <1>1, <2>5, <2>8 DEF OvwInv, SendInv, InState
  <2>10. CountInv'
    <3>1. \A s : IsFiniteSet(InState(s)) /\ Cardinality(InState(s)) \in Nat
      BY StateFinite DEF OvwInv
    <3>2. CASE link = "down"
      <4>1. InState("START")' = InState("START") \cup {k} /\ k \notin InState("START")
        BY <1>0, <2>2, <2>5, <3>2 DEF InState
      <4>2. Cardinality(InState("START")') = Cardinality(InState("START")) + 1
        BY <3>1, <4>1, OneMoves
      <4> QED BY <1>0, <1>1, <2>1, <2>8, <3>1, <3>2, <4>2 DEF OvwInv, CountInv
    <3>3. CASE link # "down"
      <4>1. InState("START")' = InState("START")
        BY <1>0, <2>2, <2>5, <3>3 DEF InState
      <4> QED BY <1>1, <2>1, <2>8, <3>3, <4>1 DEF OvwInv, CountInv
    <3> QED BY <3>2, <3>3
  <2> QED BY <2>5, <2>6, <2>7, <2>9, <2>10 DEF OvwInv
<1> QED BY <1>2, <1>3

(* A volume is attached: map and query k = made + 1.                        *)
LEMMA OvwAttach ==
  ASSUME OvwInv, NEW v \in Vol, init_ovw(v)
  PROVE  OvwInv'
<1> DEFINE k == made + 1
<1>0. /\ req \in [Ask -> QRec] /\ DOMAIN req = Ask /\ \A x \in Ask : req[x] \in QRec
      /\ vol \in [Vol -> VRec] /\ \A w \in Vol : vol[w] \in VRec
      /\ Queued \subseteq Ask /\ 1..made \subseteq Ask /\ made \in Nat
      /\ \A w \in Vol : vol[w].ovw_init => vol[w].ovw_memory \in Ask
      /\ rx.pc # "hder" /\ rx.set # 0 => rx.q \in Ask
      /\ queue \in Seq(Ask) /\ OnceEach(queue)
      /\ Null \notin Ask /\ Null \notin Vol /\ Null \in 0..MaxAttach /\ Ask \subseteq 0..MaxAttach
      /\ waiting \in Int /\ out \in Int /\ early \in Nat /\ cut \in Nat
  BY Basics
<1>1. /\ ~vol[v].ovw_init /\ made' = k
      /\ vol' = [vol EXCEPT ![v] = [ovw_init |-> TRUE, ovw_memory |-> k, ovw_reading |-> TRUE]]
      /\ UNCHANGED <<out, gone, worker, rx, link, net, lost, early, cut>>
  BY DEF init_ovw
<1>2. /\ k \in Ask /\ k \notin Queued /\ k \notin 1..made /\ 1..k = (1..made) \cup {k}
      /\ k \in 0..MaxAttach /\ k # Null /\ made' \in 0..MaxAttach
  <2>1. made < MaxAttach /\ MaxAttach \in Nat
    BY OvwAssumption DEF init_ovw
  <2>2. k \in Ask /\ k \notin 1..made /\ 1..k = (1..made) \cup {k} /\ k \in 0..MaxAttach
    BY <1>0, <2>1 DEF Ask
  <2>3. k \notin Queued
    BY <1>0 DEF OvwInv, QueueInv
  <2> QED BY <1>0, <1>1, <2>2, <2>3
<1>3. req[k].vol = Null /\ req[k].state = "freed" /\ req[k].ptr = Null
  BY <1>0, <1>2 DEF OvwInv, QueueInv
<1>4. /\ \A w \in Vol : w # v => vol'[w] = vol[w]
      /\ vol'[v].ovw_init /\ vol'[v].ovw_memory = k /\ vol'[v].ovw_reading
      /\ vol' \in [Vol -> VRec]
  BY <1>0, <1>1, <1>2 DEF VRec
<1>5. \/ /\ \E x \in Queued : req[x].vol = v
         /\ UNCHANGED <<req, queue, waiting>>
      \/ /\ \A x \in Queued : req[x].vol # v
         /\ req' = [req EXCEPT ![k] = [vol |-> v, state |-> "START", ptr |-> k]]
         /\ queue' = Append(queue, k) /\ waiting' = waiting + 1
  <2>1. \/ find_ovw_req(v) = Null /\ \A x \in Queued : req[x].vol # v
        \/ find_ovw_req(v) \in Queued /\ req[find_ovw_req(v)].vol = v
    BY FindFacts DEF OvwInv
  <2> HIDE DEF k
  <2>2. add_ovw_req(v, k)
    BY DEF init_ovw, k
  <2> QED BY <1>0, <2>1, <2>2 DEF add_ovw_req, create_ovw_req
<1> HIDE DEF k
<1>6. \A w \in Vol : vol[w].ovw_memory # k
  BY <1>0, <1>2 DEF OvwInv, MapInv
<1>7. \A x \in Queued : req[x].vol = v => req[x].state = "CANCEL"
  BY <1>0, <1>1 DEF OvwInv, MapInv
<1>8. CASE (\E x \in Queued : req[x].vol = v) /\ UNCHANGED <<req, queue, waiting>>
  <2>1. Queued' = Queued /\ \A st : InState(st)' = InState(st)
    BY <1>8 DEF Queued, InState
  <2>2. QTypes'
    <3>1. gone' \in SUBSET (1..made')
      BY <1>1, <1>2 DEF OvwInv, QTypes
    <3> QED BY <1>1, <1>2, <1>4, <1>8, <3>1 DEF OvwInv, QTypes, VRec
  <2>3. QueueInv'
    <3>1. \A x \in Ask : x <= made => x <= made'
      BY <1>0, <1>1 DEF k, Ask
    <3>2. \A x \in Ask : x > made' => x > made
      BY <1>0, <1>1 DEF k, Ask
    <3> QED BY <1>0, <1>8, <2>1, <3>1, <3>2 DEF OvwInv, QueueInv
  <2>4. MapInv'
    <3> USE <1>0, <1>1, <1>2, <1>8, <2>1
    <3>1. \A w \in Vol : ~vol'[w].ovw_init => vol'[w].ovw_memory = Null
      BY <1>4 DEF OvwInv, MapInv
    <3>2. \A w \in Vol : vol'[w].ovw_init => vol'[w].ovw_memory \in (1..made') \ gone'
      BY <1>4 DEF OvwInv, MapInv, QTypes
    <3>3. \A w, z \in Vol : vol'[w].ovw_init /\ vol'[w].ovw_memory = vol'[z].ovw_memory => w = z
      BY <1>4, <1>6 DEF OvwInv, MapInv
    <3>4. \A w \in Vol : vol'[w].ovw_init => req'[vol'[w].ovw_memory].vol \in {Null, w}
      BY <1>3, <1>4 DEF OvwInv, MapInv
    <3>5. \A w \in Vol : vol'[w].ovw_init /\ req'[vol'[w].ovw_memory].vol # Null =>
            /\ \A x \in Queued' : req'[x].vol = w => x = vol'[w].ovw_memory
            /\ vol'[w].ovw_reading => vol'[w].ovw_memory \in Queued'
      BY <1>3, <1>4 DEF OvwInv, MapInv
    <3>6. \A x \in Queued' : req'[x].state # "CANCEL" =>
            vol'[req'[x].vol].ovw_memory = x /\ req'[x].ptr = x
      BY <1>4, <1>7 DEF OvwInv, MapInv, QueueInv
    <3>7. \A x \in Queued' : req'[x].state = "CANCEL" =>
            /\ \A w \in Vol : vol'[w].ovw_memory # x
            /\ req'[x].ptr = Null \/ (req'[x].ptr = x /\ x \notin gone')
      BY <1>4 DEF OvwInv, MapInv
    <3>8. \A x \in (1..made') \ gone' :
            \/ \E w \in Vol : vol'[w].ovw_memory = x
            \/ x \in Queued' /\ req'[x].ptr = x
            \/ req'[x].vol = Null
      <4> SUFFICES ASSUME NEW x \in (1..made') \ gone'
                   PROVE  \/ \E w \in Vol : vol'[w].ovw_memory = x
                          \/ x \in Queued' /\ req'[x].ptr = x
                          \/ req'[x].vol = Null
        OBVIOUS
      <4>1. CASE x = k
        BY <1>4, <4>1
      <4>2. CASE x # k
        <5>1. x \in (1..made) \ gone
          BY <4>2
        <5>2. \A w \in Vol : vol[w].ovw_memory = x => w # v
          BY <5>1 DEF OvwInv, MapInv
        <5> QED BY <1>4, <5>1, <5>2 DEF OvwInv, MapInv
      <4> QED BY <4>1, <4>2
    <3> QED BY <3>1, <3>2, <3>3, <3>4, <3>5, <3>6, <3>7, <3>8 DEF MapInv
  <2>5. RxInv'
    BY <1>1, <1>2, <1>8, <2>1 DEF OvwInv, RxInv
  <2>6. SendInv' /\ CountInv'
    BY <1>1, <1>8, <2>1 DEF OvwInv, SendInv, CountInv
  <2> QED BY <2>2, <2>3, <2>4, <2>5, <2>6 DEF OvwInv
<1>9. CASE /\ \A x \in Queued : req[x].vol # v
           /\ req' = [req EXCEPT ![k] = [vol |-> v, state |-> "START", ptr |-> k]]
           /\ queue' = Append(queue, k) /\ waiting' = waiting + 1
  <2>1. queue' \in Seq(Ask) /\ OnceEach(queue') /\ Queued' = Queued \cup {k}
    BY <1>0, <1>2, <1>9, QueueAppend DEF Queued
  <2>2. /\ \A x \in Ask : x # k => req'[x] = req[x]
        /\ req'[k].vol = v /\ req'[k].state = "START" /\ req'[k].ptr = k
        /\ req' \in [Ask -> QRec]
    BY <1>0, <1>2, <1>9 DEF QRec, State
  <2>3. QTypes'
    <3>1. gone' \in SUBSET (1..made') /\ waiting' \in Int
      BY <1>0, <1>1, <1>2, <1>9 DEF OvwInv, QTypes
    <3> QED BY <1>1, <1>2, <1>4, <2>1, <2>2, <3>1 DEF OvwInv, QTypes, QRec, VRec
  <2>4. QueueInv'
    <3>1. \A x \in Ask : x <= made => x <= made'
      BY <1>0, <1>1 DEF k, Ask
    <3>2. \A x \in Ask : x > made' => x > made /\ x # k
      BY <1>0, <1>1 DEF k, Ask
    <3>3. k <= made'
      BY <1>0, <1>1 DEF k
    <3>4. \A x \in Queued' : x <= made' /\ req'[x].vol \in Vol /\ req'[x].state # "freed"
      BY <1>0, <2>1, <2>2, <3>1, <3>3 DEF OvwInv, QueueInv
    <3>5. \A x, y \in Queued' : req'[x].vol = req'[y].vol => x = y
      <4>1. \A x \in Queued : x \in Ask /\ x # k /\ req'[x].vol = req[x].vol
        BY <1>0, <1>2, <2>2
      <4>2. \A x \in Queued : req'[x].vol # req'[k].vol
        BY <1>9, <2>2, <4>1
      <4>3. \A x, y \in Queued : req'[x].vol = req'[y].vol => x = y
        BY <4>1 DEF OvwInv, QueueInv
      <4> QED BY <2>1, <4>2, <4>3
    <3>6. \A x \in Ask \ Queued' : req'[x].state = "freed" /\ req'[x].ptr = Null
      BY <2>1, <2>2 DEF OvwInv, QueueInv
    <3>7. \A x \in Ask : x > made' => req'[x].vol = Null
      BY <2>2, <3>2 DEF OvwInv, QueueInv
    <3> QED BY <2>1, <3>4, <3>5, <3>6, <3>7 DEF QueueInv
  <2>5. MapInv'
    <3> USE <1>0, <1>1, <1>2, <2>1, <2>2
    <3>1. \A w \in Vol : ~vol'[w].ovw_init => vol'[w].ovw_memory = Null
      BY <1>4 DEF OvwInv, MapInv
    <3>2. \A w \in Vol : vol'[w].ovw_init => vol'[w].ovw_memory \in (1..made') \ gone'
      BY <1>4 DEF OvwInv, MapInv, QTypes
    <3>3. \A w, z \in Vol : vol'[w].ovw_init /\ vol'[w].ovw_memory = vol'[z].ovw_memory => w = z
      BY <1>4, <1>6 DEF OvwInv, MapInv
    <3>4. \A w \in Vol : vol'[w].ovw_init => req'[vol'[w].ovw_memory].vol \in {Null, w}
      BY <1>3, <1>4, <1>6 DEF OvwInv, MapInv
    <3>5. \A w \in Vol : vol'[w].ovw_init /\ req'[vol'[w].ovw_memory].vol # Null =>
            /\ \A x \in Queued' : req'[x].vol = w => x = vol'[w].ovw_memory
            /\ vol'[w].ovw_reading => vol'[w].ovw_memory \in Queued'
      <4>1. \A x \in Queued : x # k
        OBVIOUS
      <4> QED BY <1>4, <1>6, <1>9, <4>1 DEF OvwInv, MapInv
    <3>6. \A x \in Queued' : req'[x].state # "CANCEL" =>
            vol'[req'[x].vol].ovw_memory = x /\ req'[x].ptr = x
      BY <1>4, <1>9 DEF OvwInv, MapInv, QueueInv
    <3>7. \A x \in Queued' : req'[x].state = "CANCEL" =>
            /\ \A w \in Vol : vol'[w].ovw_memory # x
            /\ req'[x].ptr = Null \/ (req'[x].ptr = x /\ x \notin gone')
      <4>1. \A x \in Queued' : req'[x].state = "CANCEL" => x \in Queued /\ req'[x] = req[x]
        OBVIOUS
      <4>2. \A x \in Queued : x # k
        OBVIOUS
      <4> QED BY <1>4, <4>1, <4>2 DEF OvwInv, MapInv
    <3>8. \A x \in (1..made') \ gone' :
            \/ \E w \in Vol : vol'[w].ovw_memory = x
            \/ x \in Queued' /\ req'[x].ptr = x
            \/ req'[x].vol = Null
      <4> SUFFICES ASSUME NEW x \in (1..made') \ gone'
                   PROVE  \/ \E w \in Vol : vol'[w].ovw_memory = x
                          \/ x \in Queued' /\ req'[x].ptr = x
                          \/ req'[x].vol = Null
        OBVIOUS
      <4>1. CASE x = k
        BY <1>4, <4>1
      <4>2. CASE x # k
        <5>1. x \in (1..made) \ gone
          BY <4>2
        <5>2. \A w \in Vol : vol[w].ovw_memory = x => w # v
          BY <5>1 DEF OvwInv, MapInv
        <5> QED BY <1>4, <4>2, <5>1, <5>2 DEF OvwInv, MapInv
      <4> QED BY <4>1, <4>2
    <3> QED BY <3>1, <3>2, <3>3, <3>4, <3>5, <3>6, <3>7, <3>8 DEF MapInv
  <2>6. RxInv'
    <3>1. rx.pc # "hder" /\ rx.set # 0 => rx.q # k /\ rx.q \in Ask
      BY <1>0, <1>2 DEF OvwInv, RxInv
    <3>2. \A x \in Queued' : req'[x].state = "PROCESS" => rx.pc = "data" /\ rx.set = 2 /\ rx.q = x
      BY <1>0, <1>2, <2>1, <2>2 DEF OvwInv, RxInv
    <3>3. \A x \in Queued' : req'[x].state = "DONE" => rx.pc = "free" /\ rx.set = 2 /\ rx.q = x
      BY <1>0, <1>2, <2>1, <2>2 DEF OvwInv, RxInv
    <3>4. CASE rx.pc # "hder" /\ rx.set # 0
      BY <1>1, <1>2, <2>2, <3>1, <3>2, <3>3, <3>4 DEF OvwInv, RxInv
    <3>5. CASE ~(rx.pc # "hder" /\ rx.set # 0)
      BY <1>1, <3>2, <3>3, <3>5 DEF OvwInv, RxInv
    <3> QED BY <3>4, <3>5
  <2>7. InState("SEND")' = InState("SEND")
    BY <1>0, <1>2, <2>1, <2>2 DEF InState
  <2>8. SendInv'
    <3>1. \A x \in InState("SEND") : x \in Ask /\ x # k
      BY <1>0, <1>2 DEF InState
    <3>2. worker.pc = "send" => req'[worker.q].vol \in Vol
      BY <2>2 DEF OvwInv, SendInv
    <3> QED BY <1>1, <2>2, <2>7, <3>1, <3>2 DEF OvwInv, SendInv
  <2>9. CountInv'
    <3>1. \A st : IsFiniteSet(InState(st)) /\ Cardinality(InState(st)) \in Nat
      BY StateFinite DEF OvwInv
    <3>2. InState("START")' = InState("START") \cup {k} /\ k \notin InState("START")
      BY <1>0, <1>2, <2>1, <2>2 DEF InState
    <3>3. Cardinality(InState("START")') = Cardinality(InState("START")) + 1
      BY <3>1, <3>2, OneMoves
    <3> QED BY <1>0, <1>1, <1>9, <2>7, <3>1, <3>3 DEF OvwInv, CountInv
  <2> QED BY <2>3, <2>4, <2>5, <2>6, <2>8, <2>9 DEF OvwInv
<1> QED BY <1>5, <1>8, <1>9

(* A volume is detached: its map is freed, or left to the receiver.         *)
LEMMA OvwDetach ==
  ASSUME OvwInv, NEW v \in Vol, release_ovw(v)
  PROVE  OvwInv'
<1> DEFINE k == find_ovw_req(v)
           old == req[k].state
           mem == vol[v].ovw_memory
<1>0. /\ req \in [Ask -> QRec] /\ DOMAIN req = Ask /\ \A x \in Ask : req[x] \in QRec
      /\ vol \in [Vol -> VRec] /\ \A w \in Vol : vol[w] \in VRec
      /\ Queued \subseteq Ask /\ 1..made \subseteq Ask /\ made \in Nat
      /\ \A w \in Vol : vol[w].ovw_init => vol[w].ovw_memory \in Ask
      /\ rx.pc # "hder" /\ rx.set # 0 => rx.q \in Ask
      /\ Null \notin Ask /\ Null \notin Vol /\ Null \in 0..MaxAttach /\ Ask \subseteq 0..MaxAttach
      /\ waiting \in Int /\ out \in Int /\ early \in Nat /\ cut \in Nat
  BY Basics
<1>1. /\ vol[v].ovw_init
      /\ vol' = [vol EXCEPT ![v].ovw_init = FALSE, ![v].ovw_memory = Null]
      /\ UNCHANGED <<queue, worker, rx, link, net, made, lost, early, cut>>
      /\ mem \in (1..made) \ gone /\ Queued' = Queued
  BY DEF release_ovw, OvwInv, MapInv, Queued
<1>2. /\ \A w \in Vol : w # v => vol'[w] = vol[w]
      /\ ~vol'[v].ovw_init /\ vol'[v].ovw_memory = Null
      /\ vol' \in [Vol -> VRec]
  BY <1>0, <1>1 DEF VRec
<1>3. \/ k = Null /\ \A x \in Queued : req[x].vol # v
      \/ k \in Queued /\ req[k].vol = v
  BY FindFacts DEF OvwInv
<1>4. \A w \in Vol : w # v => vol[w].ovw_memory # mem
  BY <1>1 DEF OvwInv, MapInv
<1>5. \/ /\ k = Null /\ gone' = gone \cup {mem} /\ UNCHANGED <<req, waiting, out>>
      \/ /\ k # Null /\ req' = [req EXCEPT ![k] = Changed(req[k], "CANCEL")]
         /\ waiting' = IF old = "START" THEN waiting - 1 ELSE waiting
         /\ out' = IF old = "SEND" THEN out - 1 ELSE out
         /\ gone' = IF old \in {"START", "SEND", "DONE"} THEN gone \cup {mem} ELSE gone
  BY DEF release_ovw
<1> HIDE DEF k, old, mem
(* No query of the volume, or one of an earlier attach that was cancelled.  *)
<1>6. ASSUME UNCHANGED <<req, waiting, out>>, gone' = gone \cup {mem} \/ gone' = gone,
             \A x \in Queued : req[x].vol = v => req[x].state = "CANCEL",
             gone' = gone => req[mem].vol = Null
      PROVE  OvwInv'
  <2>1. \A st : InState(st)' = InState(st)
    BY <1>1, <1>6 DEF InState
  <2>2. QTypes'
    <3>1. gone' \in SUBSET (1..made)
      BY <1>1, <1>6 DEF OvwInv, QTypes
    <3> QED BY <1>1, <1>2, <1>6, <3>1 DEF OvwInv, QTypes, VRec
  <2>3. QueueInv'
    BY <1>1, <1>6 DEF OvwInv, QueueInv
  <2>4. \A x \in Queued : x # mem
    BY <1>0, <1>1, <1>6 DEF OvwInv, MapInv, QueueInv, mem
  <2>5. MapInv'
    <3> USE <1>0, <1>1
    <3>1. \A w \in Vol : ~vol'[w].ovw_init => vol'[w].ovw_memory = Null
      BY <1>2 DEF OvwInv, MapInv
    <3>2. \A w \in Vol : vol'[w].ovw_init => vol'[w].ovw_memory \in (1..made) \ gone'
      BY <1>2, <1>4, <1>6 DEF OvwInv, MapInv
    <3>3. \A w, z \in Vol : vol'[w].ovw_init /\ vol'[w].ovw_memory = vol'[z].ovw_memory => w = z
      BY <1>2 DEF OvwInv, MapInv
    <3>4. \A w \in Vol : vol'[w].ovw_init => req[vol'[w].ovw_memory].vol \in {Null, w}
      BY <1>2 DEF OvwInv, MapInv
    <3>5. \A w \in Vol : vol'[w].ovw_init /\ req[vol'[w].ovw_memory].vol # Null =>
            /\ \A x \in Queued : req[x].vol = w => x = vol'[w].ovw_memory
            /\ vol'[w].ovw_reading => vol'[w].ovw_memory \in Queued
      BY <1>2 DEF OvwInv, MapInv
    <3>6. \A x \in Queued : req[x].state # "CANCEL" =>
            vol'[req[x].vol].ovw_memory = x /\ req[x].ptr = x
      BY <1>2, <1>6 DEF OvwInv, MapInv, QueueInv
    <3>7. \A x \in Queued : req[x].state = "CANCEL" =>
            /\ \A w \in Vol : vol'[w].ovw_memory # x
            /\ req[x].ptr = Null \/ (req[x].ptr = x /\ x \notin gone')
      BY <1>2, <1>6, <2>4 DEF OvwInv, MapInv
    <3>8. \A x \in (1..made) \ gone' :
            \/ \E w \in Vol : vol'[w].ovw_memory = x
            \/ x \in Queued /\ req[x].ptr = x
            \/ req[x].vol = Null
      <4>1. \A x \in (1..made) \ gone' : x # mem \/ req[x].vol = Null
        BY <1>6
      <4>2. \A x \in (1..made) \ gone' : x \in (1..made) \ gone
        BY <1>6
      <4>3. \A x \in (1..made) \ gone : x # mem =>
              \/ \E w \in Vol : vol'[w].ovw_memory = x
              \/ x \in Queued /\ req[x].ptr = x
              \/ req[x].vol = Null
        BY <1>2 DEF OvwInv, MapInv, mem
      <4> QED BY <4>1, <4>2, <4>3
    <3>9. made' = made /\ Queued' = Queued /\ req' = req
      BY <1>6
    <3> QED BY ONLY <3>1, <3>2, <3>3, <3>4, <3>5, <3>6, <3>7, <3>8, <3>9 DEF MapInv
  <2>7. RxInv'
    BY <1>1, <1>6 DEF OvwInv, RxInv
  <2>8. SendInv' /\ CountInv'
    BY <1>1, <1>6, <2>1 DEF OvwInv, SendInv, CountInv
  <2> QED BY <2>2, <2>3, <2>5, <2>7, <2>8 DEF OvwInv
<1>7. CASE k = Null
  <2>1. gone' = gone \cup {mem} /\ UNCHANGED <<req, waiting, out>>
    BY <1>5, <1>7
  <2>2. \A x \in Queued : req[x].vol # v
    BY <1>0, <1>3, <1>7
  <2>3. gone' # gone
    BY <1>1, <2>1
  <2> QED BY <1>6, <2>1, <2>2, <2>3
<1>8. CASE k \in Queued /\ req[k].vol = v /\ old = "CANCEL"
  <2>1. Changed(req[k], "CANCEL") = req[k]
    BY <1>8 DEF Changed, old
  <2>2. k \in Ask /\ k # Null
    BY <1>0, <1>8
  <2>3. UNCHANGED <<req, waiting, out>> /\ gone' = gone
    <3>1. req' = req
      BY <1>0, <1>5, <2>1, <2>2
    <3> QED BY <1>5, <1>8, <2>2, <3>1
  <2>4. \A x \in Queued : req[x].vol = v => req[x].state = "CANCEL"
    BY <1>8 DEF OvwInv, QueueInv, old
  <2>5. req[mem].vol = Null
    <3>1. k # mem
      BY <1>8 DEF OvwInv, MapInv, old, mem
    <3> QED BY <1>1, <1>8, <3>1 DEF OvwInv, MapInv, mem
  <2> QED BY <1>6, <2>3, <2>4, <2>5
<1>9. CASE k \in Queued /\ req[k].vol = v /\ old # "CANCEL"
  <2>0. k \in Ask /\ k # Null /\ k = mem /\ req[k].ptr = k /\ old # "freed" /\ old \in State
    BY <1>0, <1>9 DEF OvwInv, MapInv, QueueInv, old, mem, QRec
  <2>1. /\ req' = [req EXCEPT ![k] = Changed(req[k], "CANCEL")]
        /\ waiting' = IF old = "START" THEN waiting - 1 ELSE waiting
        /\ out' = IF old = "SEND" THEN out - 1 ELSE out
        /\ gone' = IF old \in {"START", "SEND", "DONE"} THEN gone \cup {mem} ELSE gone
    BY <1>5, <2>0
  <2>2. old = "PROCESS" \/ old \in {"START", "SEND", "DONE"}
    BY <1>9, <2>0 DEF State
  <2>3. /\ Changed(req[k], "CANCEL") \in QRec
        /\ Changed(req[k], "CANCEL").vol = v /\ Changed(req[k], "CANCEL").state = "CANCEL"
        /\ Changed(req[k], "CANCEL").ptr = IF old = "PROCESS" THEN k ELSE Null
    <3>1. req[k] \in QRec /\ "CANCEL" \in State
      BY <1>0, <2>0 DEF State
    <3>2. Changed(req[k], "CANCEL") =
            [req[k] EXCEPT !.state = "CANCEL", !.ptr = IF old = "PROCESS" THEN @ ELSE Null]
      BY <1>9, <2>2 DEF Changed, old
    <3> QED BY <1>0, <1>9, <2>0, <3>1, <3>2 DEF QRec
  <2>4. /\ \A x \in Ask : x # k => req'[x] = req[x]
        /\ \A x \in Ask : req'[x].vol = req[x].vol
        /\ req'[k].state = "CANCEL" /\ req'[k].ptr = IF old = "PROCESS" THEN k ELSE Null
        /\ req' \in [Ask -> QRec]
    BY <1>0, <1>9, <2>0, <2>1, <2>3
  <2>5. \/ old = "PROCESS" /\ gone' = gone /\ req'[k].ptr = k
        \/ old # "PROCESS" /\ gone' = gone \cup {k} /\ req'[k].ptr = Null
    BY <2>0, <2>1, <2>2, <2>4
  <2>6. QTypes'
    <3>1. gone' \in SUBSET (1..made) /\ waiting' \in Int /\ out' \in Int
      BY <1>0, <1>1, <2>0, <2>1, <2>5 DEF OvwInv, QTypes
    <3> QED BY <1>1, <1>2, <2>4, <3>1 DEF OvwInv, QTypes, QRec, VRec
  <2>7. QueueInv'
    <3>1. \A x \in Queued : x \in Ask /\ req'[x].vol = req[x].vol /\ req'[x].state # "freed"
      BY <1>0, <2>4 DEF OvwInv, QueueInv
    <3>2. \A x \in Ask \ Queued : req'[x] = req[x]
      BY <1>9, <2>4
    <3> QED BY <1>1, <2>4, <3>1, <3>2 DEF OvwInv, QueueInv
  <2>8. MapInv'
    <3> USE <1>0, <1>1
    <3>1. \A w \in Vol : ~vol'[w].ovw_init => vol'[w].ovw_memory = Null
      BY <1>2 DEF OvwInv, MapInv
    <3>2. \A w \in Vol : vol'[w].ovw_init => vol'[w].ovw_memory \in (1..made) \ gone'
      BY <1>2, <1>4, <2>0, <2>5 DEF OvwInv, MapInv
    <3>3. \A w, z \in Vol : vol'[w].ovw_init /\ vol'[w].ovw_memory = vol'[z].ovw_memory => w = z
      BY <1>2 DEF OvwInv, MapInv
    <3>4. \A w \in Vol : vol'[w].ovw_init => req'[vol'[w].ovw_memory].vol \in {Null, w}
      BY <1>2, <2>4 DEF OvwInv, MapInv
    <3>5. \A w \in Vol : vol'[w].ovw_init /\ req'[vol'[w].ovw_memory].vol # Null =>
            /\ \A x \in Queued : req'[x].vol = w => x = vol'[w].ovw_memory
            /\ vol'[w].ovw_reading => vol'[w].ovw_memory \in Queued
      BY <1>2, <2>4 DEF OvwInv, MapInv
    <3>6. \A x \in Queued : req'[x].state # "CANCEL" =>
            vol'[req'[x].vol].ovw_memory = x /\ req'[x].ptr = x
      <4>1. \A x \in Queued : req'[x].state # "CANCEL" => x # k /\ req[x].vol # v /\ req'[x] = req[x]
        BY <1>9, <2>4 DEF OvwInv, QueueInv
      <4> QED BY <1>2, <4>1 DEF OvwInv, MapInv, QueueInv
    <3>7. \A x \in Queued : req'[x].state = "CANCEL" =>
            /\ \A w \in Vol : vol'[w].ovw_memory # x
            /\ req'[x].ptr = Null \/ (req'[x].ptr = x /\ x \notin gone')
      <4>1. \A w \in Vol : vol'[w].ovw_memory # k
        BY <1>2, <1>4, <2>0
      <4>2. req'[k].ptr = Null \/ (req'[k].ptr = k /\ k \notin gone')
        BY <2>0, <2>5
      <4>3. \A x \in Queued : x # k /\ req'[x].state = "CANCEL" =>
              /\ \A w \in Vol : vol'[w].ovw_memory # x
              /\ req'[x].ptr = Null \/ (req'[x].ptr = x /\ x \notin gone')
        BY <1>2, <2>4, <2>5 DEF OvwInv, MapInv
      <4> QED BY <4>1, <4>2, <4>3
    <3>8. \A x \in (1..made) \ gone' :
            \/ \E w \in Vol : vol'[w].ovw_memory = x
            \/ x \in Queued /\ req'[x].ptr = x
            \/ req'[x].vol = Null
      <4>1. \A x \in (1..made) \ gone' : x # k =>
              \/ \E w \in Vol : vol'[w].ovw_memory = x
              \/ x \in Queued /\ req'[x].ptr = x
              \/ req'[x].vol = Null
        BY <1>2, <2>0, <2>4, <2>5 DEF OvwInv, MapInv, mem
      <4>2. k \notin gone' => req'[k].ptr = k
        BY <2>5
      <4> QED BY <1>9, <4>1, <4>2
    <3>9. made' = made /\ Queued' = Queued
      OBVIOUS
    <3> QED BY ONLY <3>1, <3>2, <3>3, <3>4, <3>5, <3>6, <3>7, <3>8, <3>9 DEF MapInv
  <2>9. RxInv'
    <3>1. \A x \in Queued : req'[x].state = "PROCESS" => rx.pc = "data" /\ rx.set = 2 /\ rx.q = x
      BY <1>0, <2>4 DEF OvwInv, RxInv
    <3>2. \A x \in Queued : req'[x].state = "DONE" => rx.pc = "free" /\ rx.set = 2 /\ rx.q = x
      BY <1>0, <2>4 DEF OvwInv, RxInv
    <3>3. rx.pc # "hder" /\ rx.set # 0 => rx.q \in 1..made /\ req'[rx.q].vol \in Vol
      BY <1>0, <2>4 DEF OvwInv, RxInv
    <3>4. CASE rx.pc # "hder" /\ rx.set # 0 /\ rx.q # k
      BY <1>0, <1>1, <2>4, <3>1, <3>2, <3>3, <3>4 DEF OvwInv, RxInv
    <3>5. CASE rx.pc # "hder" /\ rx.set # 0 /\ rx.q = k
      <4>1. req[rx.q].state = old /\ req'[rx.q].state = "CANCEL"
        BY <2>4, <3>5 DEF old
      <4>2. \/ rx.pc = "data" /\ rx.set = 2 /\ old = "PROCESS"
            \/ rx.pc = "free" /\ rx.set = 2 /\ old = "DONE"
        BY <1>9, <2>0, <3>5, <4>1 DEF OvwInv, RxInv, QTypes
      <4> QED BY <1>1, <2>5, <3>1, <3>2, <3>3, <3>5, <4>1, <4>2 DEF RxInv
    <3>6. CASE ~(rx.pc # "hder" /\ rx.set # 0)
      BY <1>1, <3>1, <3>2, <3>3, <3>6 DEF OvwInv, RxInv
    <3> QED BY <3>4, <3>5, <3>6
  <2>10. \A x \in InState("SEND")' : x \in InState("SEND") /\ x \in Ask
    BY <1>0, <1>1, <2>4 DEF InState
  <2>11. SendInv'
    BY <1>1, <2>4, <2>10 DEF OvwInv, SendInv
  <2>12. CountInv'
    <3>1. \A st : IsFiniteSet(InState(st)) /\ Cardinality(InState(st)) \in Nat
      BY StateFinite DEF OvwInv
    <3>2. /\ old = "SEND" => InState("SEND")' = InState("SEND") \ {k} /\ k \in InState("SEND")
          /\ old # "SEND" => InState("SEND")' = InState("SEND")
          /\ old = "START" => InState("START")' = InState("START") \ {k} /\ k \in InState("START")
          /\ old # "START" => InState("START")' = InState("START")
      BY <1>0, <1>1, <1>9, <2>4 DEF InState, old
    <3>3. Cardinality(InState("SEND")') = Cardinality(InState("SEND")) - (IF old = "SEND" THEN 1 ELSE 0)
      BY <3>1, <3>2, OneMoves
    <3>4. Cardinality(InState("START")') = Cardinality(InState("START")) - (IF old = "START" THEN 1 ELSE 0)
      BY <3>1, <3>2, OneMoves
    <3> QED BY <1>0, <1>1, <2>1, <3>1, <3>3, <3>4 DEF OvwInv, CountInv
  <2> QED BY <2>6, <2>7, <2>8, <2>9, <2>11, <2>12 DEF OvwInv
<1> QED BY <1>3, <1>7, <1>8, <1>9

LEMMA OvwIdle ==
  ASSUME OvwInv, UNCHANGED qvars
  PROVE  OvwInv'
<1>1. Queued' = Queued /\ \A st : InState(st)' = InState(st)
  BY DEF qvars, Queued, InState
<1>2. QTypes' /\ QueueInv' /\ MapInv'
  BY <1>1 DEF OvwInv, QTypes, QueueInv, MapInv, qvars
<1>3. RxInv' /\ SendInv' /\ CountInv'
  BY <1>1 DEF OvwInv, RxInv, SendInv, CountInv, qvars
<1> QED BY <1>2, <1>3 DEF OvwInv

LEMMA OvwStep ==
  ASSUME OvwInv, [QNext]_qvars
  PROVE  OvwInv'
BY OvwAttach, OvwDetach, OvwGet, OvwSend, OvwHder, OvwEnd, OvwFree, OvwConn, OvwRetry, OvwIdle DEF QNext

(* The invariant gives the property: a volume whose map is not filled has   *)
(* its query in the queue; to be sent it would be taken unless too many are *)
(* outstanding, and every outstanding one has an answer or the worker.      *)
LEMMA OvwGives ==
  ASSUME OvwInv
  PROVE  QueryInv
<1>0. /\ \A x \in Ask : req[x] \in QRec
      /\ Queued \subseteq Ask /\ 1..made \subseteq Ask
      /\ \A w \in Vol : vol[w].ovw_init => vol[w].ovw_memory \in Ask
      /\ Null \notin Ask /\ Null \notin Vol
      /\ waiting \in Int /\ out \in Int /\ early \in Nat /\ cut \in Nat
  BY Basics
<1>1. \A x \in Ask : req[x].vol = Null => req[x] = NoQuery
  <2>1. \A x \in Ask : req[x].vol = Null => req[x].state = "freed" /\ req[x].ptr = Null
    BY <1>0 DEF OvwInv, QueueInv
  <2> QED BY <1>0, <2>1 DEF QRec, NoQuery
<1>2. MapIsLive
  <2>1. \A v \in Vol : vol[v].ovw_init => vol[v].ovw_memory \in (1..made) \ gone
    BY DEF OvwInv, MapInv
  <2>2. ASSUME rx.pc = "data", rx.set = 2
        PROVE  req[rx.q].state = "freed" \/ req[rx.q].ptr \in (1..made) \ gone
    <3>1. rx.q \in 1..made /\ rx.q \in Ask
      BY <1>0, <2>2 DEF OvwInv, RxInv
    <3>2. SUFFICES ASSUME req[rx.q].state # "freed" PROVE req[rx.q].ptr \in (1..made) \ gone
      OBVIOUS
    <3>3. rx.q \in Queued
      BY <3>1, <3>2 DEF OvwInv, QueueInv
    <3>4. CASE req[rx.q].state = "CANCEL"
      BY <1>0, <2>2, <3>1, <3>2, <3>3, <3>4 DEF OvwInv, RxInv, MapInv
    <3>5. CASE req[rx.q].state # "CANCEL"
      <4>1. vol[req[rx.q].vol].ovw_memory = rx.q /\ req[rx.q].ptr = rx.q /\ req[rx.q].vol \in Vol
        BY <3>3, <3>5 DEF OvwInv, MapInv, QueueInv
      <4> QED BY <1>0, <3>1, <4>1 DEF OvwInv, MapInv
    <3> QED BY <3>4, <3>5
  <2>3. \A x \in 1..made : x \notin gone =>
          \/ \E v \in Vol : vol[v].ovw_memory = x
          \/ req[x].state /= "freed" /\ req[x].ptr = x
          \/ req[x] = NoQuery
    BY <1>0, <1>1 DEF OvwInv, MapInv, QueueInv
  <2> QED BY <2>1, <2>2, <2>3 DEF MapIsLive
<1>3. ASSUME QAtRest, NEW v \in Vol, vol[v].ovw_init, vol[v].ovw_reading,
             cut = 0, req[vol[v].ovw_memory] # NoQuery
      PROVE  FALSE
  <2> DEFINE m == vol[v].ovw_memory
  <2>1. m \in Queued /\ m \in Ask
    BY <1>0, <1>1, <1>3 DEF OvwInv, MapInv
  <2>2. req[m].state \notin {"CANCEL", "freed"} /\ req[m].state \in State
    BY <1>0, <2>1 DEF OvwInv, MapInv, QueueInv, QRec
  <2>3. link = "up" /\ rx.pc = "hder" /\ ToSet(net) = {} /\ worker.pc = "wait"
    BY <1>3 DEF QAtRest, ToSet
  <2>4. InState("SEND") = {}
    BY <2>3 DEF OvwInv, SendInv
  <2>5. req[m].state = "START"
    <3>1. req[m].state \notin {"PROCESS", "DONE"}
      BY <2>1, <2>3 DEF OvwInv, RxInv
    <3>2. req[m].state # "SEND"
      BY <2>1, <2>4 DEF InState
    <3> QED BY <2>2, <3>1, <3>2 DEF State
  <2>6. out = 0 /\ out <= MaxSend
    <3>1. Cardinality(InState("SEND")) = 0
      BY <2>4, FS_EmptySet
    <3> QED BY <3>1, OvwAssumption DEF OvwInv, CountInv
  <2>7. waiting > 0
    <3>1. IsFiniteSet(InState("START")) /\ Cardinality(InState("START")) \in Nat
      BY StateFinite DEF OvwInv
    <3>2. InState("START") # {}
      BY <2>1, <2>5 DEF InState
    <3>3. Cardinality(InState("START")) # 0
      BY <3>1, <3>2, FS_EmptySet
    <3> QED BY <1>0, <1>3, <3>1, <3>3 DEF OvwInv, CountInv
  <2>8. queue /= << >>
    BY <2>1 DEF Queued, ToSet
  <2>9. MayGet
    BY <2>6, <2>7, <2>8 DEF MayGet
  <2> QED BY <1>3, <2>1, <2>5, <2>9 DEF QAtRest, Queued
<1>4. QueryEnds
  BY <1>0, <1>3 DEF QueryEnds, OvwInv, CountInv, InState, Queued
<1> QED BY <1>2, <1>4 DEF QueryInv

(* A query reads into a map that lives, the counters say how many are sent  *)
(* and wait, and no attached volume is left without its map when everybody  *)
(* rests (discoC_NNC_ovw.c), for any volumes, any number of attaches and    *)
(* losses of the connection and any limit of outstanding queries.           *)
THEOREM QueriesEnd == QSpec => []QueryInv
<1>1. QInit => OvwInv
  BY OvwInit
<1>2. OvwInv /\ [QNext]_qvars => OvwInv'
  BY OvwStep
<1>3. OvwInv => QueryInv
  BY OvwGives
<1> QED BY <1>1, <1>2, <1>3, PTL DEF QSpec

=============================================================================
