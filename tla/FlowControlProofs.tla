-------------------------- MODULE FlowControlProofs --------------------------
(***************************************************************************)
(* Proofs about FlowControl, for any clients, finite set of requests, size  *)
(* of the window, times, limits and losses.                                 *)
(*                                                                          *)
(* The window of response times is summed by FoldFunction, which takes the  *)
(* elements of a set one by one.  The first part proves what a change of    *)
(* one element does to the sum: the order in which elements are taken       *)
(* depends on the set only, so the same order serves both functions.        *)
(***************************************************************************)
EXTENDS FlowControl, FiniteSetTheorems, WellFoundedInduction, TLAPS

Sum(f) == FoldFunction(LAMBDA a, b : a + b, 0, f)

Pick(s) == CHOOSE x \in s : TRUE
Adds(g, f, s) == IF s = {} THEN 0 ELSE f[Pick(s)] + g[s \ {Pick(s)}]
IsIter(g, f) == g = [s \in SUBSET DOMAIN f |-> Adds(g, f, s)]
Iter(f) == CHOOSE g : IsIter(g, f)

(* The sum is what the recursive function of FoldFunction gives.            *)
LEMMA SumIsIter == ASSUME NEW f PROVE Sum(f) = Iter(f)[DOMAIN f]
BY DEF Sum, Iter, IsIter, Adds, FoldFunction, FoldFunctionOnSet, MapThenFoldSet, Pick

(* Every set of natural numbers that is not empty has a least element.      *)
LEMMA LeastNat ==
  ASSUME NEW T \in SUBSET Nat, T # {}
  PROVE  \E x \in T : \A y \in T : ~(y < x)
<1> DEFINE R == OpToRel(<, Nat)
<1>1. IsWellFoundedOn(R, Nat)
  BY NatLessThanWellFounded
<1>2. \A x, y \in Nat : <<y, x>> \in R <=> y < x
  BY DEF OpToRel
<1> HIDE DEF R
<1>3. PICK x \in T : \A y \in T : ~(<<y, x>> \in R)
  BY <1>1, WFMin
<1>4. x \in Nat /\ \A y \in T : y \in Nat
  OBVIOUS
<1> QED BY <1>2, <1>3, <1>4

(* A smallest set among finite ones.                                        *)
LEMMA LeastSet ==
  ASSUME NEW D, IsFiniteSet(D), NEW B \in SUBSET (SUBSET D), B # {}
  PROVE  \E s \in B : \A r \in B : ~(Cardinality(r) < Cardinality(s))
<1> DEFINE T == {Cardinality(s) : s \in B}
<1>1. \A s \in SUBSET D : IsFiniteSet(s) /\ Cardinality(s) \in Nat
  BY FS_Subset, FS_CardinalityType
<1>2. T \in SUBSET Nat /\ T # {}
  BY <1>1
<1>3. PICK x \in T : \A y \in T : ~(y < x)
  <2> HIDE DEF T
  <2> QED BY <1>2, LeastNat
<1>4. PICK s \in B : x = Cardinality(s)
  BY <1>3
<1>5. \A r \in B : Cardinality(r) \in T
  OBVIOUS
<1> QED BY <1>3, <1>4, <1>5

(* Taking an element out makes a finite set smaller.                        *)
LEMMA TakeOut ==
  ASSUME NEW D, IsFiniteSet(D), NEW s \in SUBSET D, s # {}
  PROVE  /\ Pick(s) \in s /\ s \ {Pick(s)} \in SUBSET D
         /\ IsFiniteSet(s) /\ Cardinality(s) \in Nat
         /\ Cardinality(s \ {Pick(s)}) = Cardinality(s) - 1
<1>1. Pick(s) \in s
  BY DEF Pick
<1>2. IsFiniteSet(s) /\ Cardinality(s) \in Nat
  BY FS_Subset, FS_CardinalityType
<1>3. Cardinality(s \ {Pick(s)}) = Cardinality(s) - 1
  BY <1>1, <1>2, FS_RemoveElement
<1> QED BY <1>1, <1>2, <1>3

(* The sums of all subsets of up to n elements.                             *)
Small(D, n) == {s \in SUBSET D : Cardinality(s) <= n}
Partial(g, f, n) == /\ g \in [Small(DOMAIN f, n) -> Int]
                    /\ \A s \in Small(DOMAIN f, n) : g[s] = Adds(g, f, s)

(* They exist, whatever the number of elements.                             *)
LEMMA PartialExists ==
  ASSUME NEW f, IsFiniteSet(DOMAIN f), \A x \in DOMAIN f : f[x] \in Int, NEW m \in Nat
  PROVE  \E g : Partial(g, f, m)
<1> DEFINE D == DOMAIN f
           T == {n \in Nat : ~\E g : Partial(g, f, n)}
<1> SUFFICES ASSUME T # {} PROVE FALSE
  OBVIOUS
<1>1. PICK n \in T : \A y \in T : ~(y < n)
  BY LeastNat
<1>2. n \in Nat /\ ~\E g : Partial(g, f, n)
  BY <1>1
<1>3. CASE n = 0
  <2> DEFINE h == [s \in Small(D, 0) |-> 0]
  <2>1. \A s \in Small(D, 0) : s = {}
    <3> SUFFICES ASSUME NEW s \in SUBSET D, Cardinality(s) <= 0 PROVE s = {}
      BY DEF Small
    <3>1. IsFiniteSet(s) /\ Cardinality(s) \in Nat
      BY FS_Subset, FS_CardinalityType
    <3>2. Cardinality(s) = 0
      BY <3>1
    <3> QED BY <3>1, <3>2, FS_EmptySet
  <2>2. Partial(h, f, 0)
    BY <2>1 DEF Partial, Adds
  <2> QED BY <1>2, <1>3, <2>2
<1>4. CASE n # 0
  <2>1. n - 1 \in Nat /\ n - 1 < n
    BY <1>2, <1>4
  <2>2. PICK g : Partial(g, f, n - 1)
    BY <1>1, <2>1
  <2> DEFINE h == [s \in Small(D, n) |-> IF s = {} THEN 0 ELSE f[Pick(s)] + g[s \ {Pick(s)}]]
  <2>3. ASSUME NEW s \in Small(D, n), s # {}
        PROVE  /\ Pick(s) \in D /\ s \ {Pick(s)} \in Small(D, n - 1)
               /\ s \ {Pick(s)} \in Small(D, n)
    <3>1. s \in SUBSET D /\ Cardinality(s) <= n
      BY DEF Small
    <3>2. /\ Pick(s) \in s /\ s \ {Pick(s)} \in SUBSET D /\ Cardinality(s) \in Nat
          /\ Cardinality(s \ {Pick(s)}) = Cardinality(s) - 1
      BY <2>3, <3>1, TakeOut
    <3> QED BY <1>2, <3>1, <3>2 DEF Small
  <2>4. h \in [Small(D, n) -> Int]
    BY <2>2, <2>3 DEF Partial
  <2>5. ASSUME NEW s \in Small(D, n - 1) PROVE s \in Small(D, n) /\ h[s] = g[s]
    <3>1. s \in Small(D, n)
      <4>1. s \in SUBSET D /\ Cardinality(s) <= n - 1
        BY DEF Small
      <4>2. Cardinality(s) \in Nat
        BY <4>1, FS_Subset, FS_CardinalityType
      <4> QED BY <1>2, <4>1, <4>2 DEF Small
    <3>2. g[s] = Adds(g, f, s)
      BY <2>2 DEF Partial
    <3> QED BY <3>1, <3>2 DEF Adds
  <2>6. ASSUME NEW s \in Small(D, n) PROVE h[s] = Adds(h, f, s)
    <3>1. CASE s = {}
      BY <3>1 DEF Adds
    <3>2. CASE s # {}
      <4>1. h[s] = f[Pick(s)] + g[s \ {Pick(s)}]
        BY <3>2
      <4>2. h[s \ {Pick(s)}] = g[s \ {Pick(s)}]
        BY <2>3, <2>5, <3>2
      <4> HIDE DEF h
      <4> QED BY <3>2, <4>1, <4>2 DEF Adds
    <3> QED BY <3>1, <3>2
  <2> HIDE DEF h
  <2>7. Partial(h, f, n)
    BY <2>4, <2>6 DEF Partial
  <2> QED BY <1>2, <2>7
<1> QED BY <1>3, <1>4

(* So the recursive function exists, and satisfies its equation.            *)
LEMMA IterIsSum ==
  ASSUME NEW f, IsFiniteSet(DOMAIN f), \A x \in DOMAIN f : f[x] \in Int
  PROVE  \A s \in SUBSET DOMAIN f : Iter(f)[s] \in Int /\ Iter(f)[s] = Adds(Iter(f), f, s)
<1> DEFINE D == DOMAIN f
           g == Iter(f)
<1>1. Cardinality(D) \in Nat /\ Small(D, Cardinality(D)) = SUBSET D
  <2>1. Cardinality(D) \in Nat /\ \A s \in SUBSET D : Cardinality(s) <= Cardinality(D)
    BY FS_Subset, FS_CardinalityType
  <2> QED BY <2>1 DEF Small
<1>2. PICK p : Partial(p, f, Cardinality(D))
  BY <1>1, PartialExists
<1>3. p \in [SUBSET D -> Int] /\ \A s \in SUBSET D : p[s] = Adds(p, f, s)
  BY <1>1, <1>2 DEF Partial
<1>4. p = [s \in SUBSET D |-> Adds(p, f, s)]
  BY <1>3
<1>5. IsIter(g, f)
  BY <1>4 DEF Iter, IsIter
<1>6. g = [s \in SUBSET D |-> Adds(g, f, s)]
  BY <1>5 DEF IsIter
<1> HIDE DEF g
<1>7. \A s \in SUBSET D : g[s] = Adds(g, f, s)
  BY <1>6
<1>8. \A s \in SUBSET D : g[s] \in Int
  <2> DEFINE B == {s \in SUBSET D : g[s] \notin Int}
  <2> SUFFICES ASSUME B # {} PROVE FALSE
    OBVIOUS
  <2>1. PICK s \in B : \A r \in B : ~(Cardinality(r) < Cardinality(s))
    BY LeastSet
  <2>2. s \in SUBSET D /\ g[s] \notin Int /\ g[s] = Adds(g, f, s)
    BY <1>7, <2>1
  <2>3. s # {}
    BY <2>2 DEF Adds
  <2>4. /\ Pick(s) \in s /\ s \ {Pick(s)} \in SUBSET D /\ Cardinality(s) \in Nat
        /\ Cardinality(s \ {Pick(s)}) = Cardinality(s) - 1
    BY <2>2, <2>3, TakeOut
  <2>5. s \ {Pick(s)} \notin B
    BY <2>1, <2>4
  <2>6. g[s \ {Pick(s)}] \in Int /\ f[Pick(s)] \in Int
    BY <2>2, <2>4, <2>5
  <2> QED BY <2>2, <2>3, <2>6 DEF Adds
<1> QED BY <1>7, <1>8 DEF g

(* One element changes.                                                     *)
LEMMA SumChange ==
  ASSUME NEW D, IsFiniteSet(D), NEW f \in [D -> Int], NEW i \in D, NEW x \in Int,
         NEW e, e = [f EXCEPT ![i] = x]
  PROVE  Sum(f) \in Int /\ Sum(e) = Sum(f) + x - f[i]
<1> DEFINE g == Iter(f)
           h == Iter(e)
           B == {s \in SUBSET D : h[s] # g[s] + (IF i \in s THEN x - f[i] ELSE 0)}
<1>1. DOMAIN f = D /\ DOMAIN e = D /\ e \in [D -> Int] /\ e[i] = x
      /\ \A y \in D \ {i} : e[y] = f[y]
  OBVIOUS
<1>2. \A s \in SUBSET D : g[s] \in Int /\ g[s] = Adds(g, f, s)
  BY <1>1, IterIsSum
<1>3. \A s \in SUBSET D : h[s] \in Int /\ h[s] = Adds(h, e, s)
  <2>1. \A y \in DOMAIN e : e[y] \in Int
    BY <1>1
  <2> QED BY <1>1, <2>1, IterIsSum
<1> HIDE DEF g, h
<1>4. B = {}
  <2> SUFFICES ASSUME B # {} PROVE FALSE
    OBVIOUS
  <2>1. PICK s \in B : \A r \in B : ~(Cardinality(r) < Cardinality(s))
    BY LeastSet
  <2>2. s \in SUBSET D /\ h[s] # g[s] + (IF i \in s THEN x - f[i] ELSE 0)
    BY <2>1
  <2>3. CASE s = {}
    <3>1. g[s] = 0 /\ h[s] = 0
      BY <1>2, <1>3, <2>2, <2>3 DEF Adds
    <3>2. i \notin s
      BY <2>3
    <3> QED BY <2>2, <3>1, <3>2
  <2>4. CASE s # {}
    <3> DEFINE p == Pick(s)
               r == s \ {p}
    <3>1. /\ p \in s /\ r \in SUBSET D /\ Cardinality(s) \in Nat
          /\ Cardinality(r) = Cardinality(s) - 1
      BY <2>2, <2>4, TakeOut
    <3>2. g[s] = f[p] + g[r] /\ h[s] = e[p] + h[r]
      BY <1>2, <1>3, <2>2, <2>4 DEF Adds
    <3>3. h[r] = g[r] + (IF i \in r THEN x - f[i] ELSE 0)
      BY <2>1, <3>1
    <3>4. g[r] \in Int /\ h[r] \in Int /\ p \in D /\ f[p] \in Int /\ f[i] \in Int
      BY <1>2, <1>3, <2>2, <3>1
    <3>5. CASE p = i
      <4>1. i \in s /\ i \notin r /\ e[p] = x
        BY <1>1, <3>1, <3>5
      <4> HIDE DEF p, r
      <4> QED BY <2>2, <3>2, <3>3, <3>4, <3>5, <4>1
    <3>6. CASE p # i
      <4>1. (i \in s <=> i \in r) /\ e[p] = f[p]
        BY <1>1, <3>4, <3>6
      <4> HIDE DEF p, r
      <4> QED BY <2>2, <3>2, <3>3, <3>4, <4>1
    <3> QED BY <3>5, <3>6
  <2> QED BY <2>3, <2>4
<1>5. h[D] = g[D] + (x - f[i]) /\ g[D] \in Int
  BY <1>2, <1>4
<1>6. Sum(f) = g[D] /\ Sum(e) = h[D]
  BY <1>1, SumIsIter DEF g, h
<1> QED BY <1>5, <1>6

(* A window without a time.                                                 *)
LEMMA SumOfZeros ==
  ASSUME NEW D, IsFiniteSet(D), NEW f, f = [i \in D |-> 0] PROVE Sum(f) = 0
<1> DEFINE g == Iter(f)
           B == {s \in SUBSET D : g[s] # 0}
<1>1. DOMAIN f = D /\ \A y \in D : f[y] = 0
  OBVIOUS
<1>2. \A s \in SUBSET D : g[s] \in Int /\ g[s] = Adds(g, f, s)
  BY <1>1, IterIsSum
<1> HIDE DEF g
<1>3. B = {}
  <2> SUFFICES ASSUME B # {} PROVE FALSE
    OBVIOUS
  <2>1. PICK s \in B : \A r \in B : ~(Cardinality(r) < Cardinality(s))
    BY LeastSet
  <2>2. s \in SUBSET D /\ g[s] # 0 /\ g[s] = Adds(g, f, s)
    BY <1>2, <2>1
  <2>3. s # {}
    BY <2>2 DEF Adds
  <2>4. /\ Pick(s) \in s /\ s \ {Pick(s)} \in SUBSET D /\ Cardinality(s) \in Nat
        /\ Cardinality(s \ {Pick(s)}) = Cardinality(s) - 1
    BY <2>2, <2>3, TakeOut
  <2>5. s \ {Pick(s)} \notin B
    BY <2>1, <2>4
  <2>6. g[s \ {Pick(s)}] = 0 /\ f[Pick(s)] = 0
    BY <1>1, <2>2, <2>4, <2>5
  <2> QED BY <2>2, <2>3, <2>6 DEF Adds
<1>4. g[D] = 0 /\ Sum(f) = g[D]
  BY <1>1, <1>3, SumIsIter DEF g
<1> QED BY <1>4

-----------------------------------------------------------------------------
(***************************************************************************)
(* The invariant.  The counter is a sum of four parts that change hands     *)
(* (DriftInv); a sender that holds a request holds one of its own client    *)
(* and goes to sleep after it gave a place back (SndInv); between the two   *)
(* assignments of set_res_available the total is 0 although the window is   *)
(* not (WinInv); the limits after a pause are positive too (RoomInv).       *)
(***************************************************************************)
ResRec == [avail : BOOLEAN, max : Int, rate : Int, slow : Int, start : Int, outMax : Int,
           outRate : Int, aged : BOOLEAN]
WinRec == [time : [0 .. Num - 1 -> Int], index : 0 .. Num - 1, total : Int, ready : BOOLEAN,
           raced : BOOLEAN]
SndPC  == {"idle", "nofc", "check", "test", "undo", "waitq", "sleep", "granted"}
SndRec == [pc : SndPC, req : Req \cup {NoReq}, max : Int, rate : Int,
           ret : {"togo", "waitq", "sleep"}]
RxPC   == {"idle", "dec", "time", "rate"}

FlowTypes ==
  /\ res \in [Cli -> ResRec] /\ win \in [Cli -> WinRec] /\ snd \in [Cli -> SndRec]
  /\ slot \in [Cli -> {"start", "in", "over"}]
  /\ st \in [Req -> {"none", "queued", "sending", "out", "done"}]
  /\ rx \in [Cli -> (Req \cup {NoReq}) \X RxPC]
  /\ timer \in [Req -> {"on", "dec", "rate", "off"}]
  /\ cut \in [Cli -> BOOLEAN] /\ drift \in [Cli -> Int]

SndInv == \A c \in Cli :
  /\ snd[c].pc # "idle" => snd[c].req \in Req /\ CliOf[snd[c].req] = c
  /\ snd[c].pc = "undo" => snd[c].ret \in {"waitq", "sleep"}

WinInv == \A c \in Cli :
  ~win[c].raced => win[c].total = IF cut[c] THEN 0 ELSE Sum(win[c].time)

Room(f) == f.max >= 1 /\ f.rate # 0 /\ f.start >= 1 /\ f.slow # 0
RoomInv == \A c \in Cli : Room(res[c])

Out(c)   == {r \in Req : CliOf[r] = c /\ st[r] = "out"}
Decs(c)  == {r \in Req : CliOf[r] = c /\ timer[r] = "dec"}
InRx(c)  == IF rx[c][2] = "dec" THEN 1 ELSE 0
InSnd(c) == IF snd[c].pc \in {"test", "undo", "granted"} THEN 1 ELSE 0
Places(c) == Cardinality(Out(c)) + Cardinality(Decs(c)) + InRx(c) + InSnd(c) + drift[c]
DriftInv == \A c \in Cli : res[c].outMax = Places(c)

FlowInd == FlowTypes /\ SndInv /\ WinInv /\ RoomInv /\ DriftInv

(* The parts are numbers.                                                   *)
LEMMA PlacesAreInts ==
  ASSUME FlowTypes, NEW c \in Cli
  PROVE  /\ IsFiniteSet(Out(c)) /\ Cardinality(Out(c)) \in Nat
         /\ IsFiniteSet(Decs(c)) /\ Cardinality(Decs(c)) \in Nat
         /\ InRx(c) \in {0, 1} /\ InSnd(c) \in {0, 1} /\ drift[c] \in Int
<1>1. IsFiniteSet(Out(c)) /\ IsFiniteSet(Decs(c))
  BY RateAssumption, FS_Subset DEF Out, Decs
<1>2. Cardinality(Out(c)) \in Nat /\ Cardinality(Decs(c)) \in Nat
  BY <1>1, FS_CardinalityType
<1> QED BY <1>1, <1>2 DEF InRx, InSnd, FlowTypes

(* A set that gains or loses one element.                                   *)
LEMMA OneMore ==
  ASSUME NEW S, IsFiniteSet(S), NEW x, x \notin S
  PROVE  Cardinality(S \cup {x}) = Cardinality(S) + 1
BY FS_AddElement

LEMMA OneLess ==
  ASSUME NEW S, IsFiniteSet(S), NEW x \in S
  PROVE  Cardinality(S \ {x}) = Cardinality(S) - 1
BY FS_RemoveElement

(* A request changes its state.                                             *)
LEMMA OutGains ==
  ASSUME FlowTypes, NEW r \in Req, NEW d \in Cli, st[r] # "out", st' = [st EXCEPT ![r] = "out"]
  PROVE  Cardinality(Out(d)') = Cardinality(Out(d)) + (IF CliOf[r] = d THEN 1 ELSE 0)
<1>1. IsFiniteSet(Out(d)) /\ Cardinality(Out(d)) \in Nat
  BY PlacesAreInts
<1>2. st'[r] = "out" /\ \A q \in Req \ {r} : st'[q] = st[q]
  BY DEF FlowTypes
<1>3. CASE CliOf[r] = d
  <2>1. Out(d)' = Out(d) \cup {r} /\ r \notin Out(d)
    BY <1>2, <1>3 DEF Out
  <2> QED BY <1>1, <1>3, <2>1, OneMore
<1>4. CASE CliOf[r] # d
  <2>1. Out(d)' = Out(d)
    BY <1>2, <1>4 DEF Out
  <2> QED BY <1>1, <1>4, <2>1
<1> QED BY <1>3, <1>4

LEMMA OutLoses ==
  ASSUME FlowTypes, NEW r \in Req, NEW d \in Cli, st[r] = "out", NEW s, s # "out", st' = [st EXCEPT ![r] = s]
  PROVE  Cardinality(Out(d)') = Cardinality(Out(d)) - (IF CliOf[r] = d THEN 1 ELSE 0)
<1>1. IsFiniteSet(Out(d)) /\ Cardinality(Out(d)) \in Nat
  BY PlacesAreInts
<1>2. st'[r] # "out" /\ \A q \in Req \ {r} : st'[q] = st[q]
  BY DEF FlowTypes
<1>3. CASE CliOf[r] = d
  <2>1. Out(d)' = Out(d) \ {r} /\ r \in Out(d)
    BY <1>2, <1>3 DEF Out
  <2> QED BY <1>1, <1>3, <2>1, OneLess
<1>4. CASE CliOf[r] # d
  <2>1. Out(d)' = Out(d)
    BY <1>2, <1>4 DEF Out
  <2> QED BY <1>1, <1>4, <2>1
<1> QED BY <1>3, <1>4

LEMMA OutStays ==
  ASSUME FlowTypes, NEW r \in Req, NEW d \in Cli, st[r] # "out", NEW s, s # "out",
         st' = [st EXCEPT ![r] = s]
  PROVE  Cardinality(Out(d)') = Cardinality(Out(d))
<1>1. st'[r] # "out" /\ \A q \in Req \ {r} : st'[q] = st[q]
  BY DEF FlowTypes
<1>2. Out(d)' = Out(d)
  BY <1>1 DEF Out
<1> QED BY <1>2

(* A timer changes its state.                                               *)
LEMMA DecsGains ==
  ASSUME FlowTypes, NEW r \in Req, NEW d \in Cli, timer[r] # "dec", timer' = [timer EXCEPT ![r] = "dec"]
  PROVE  Cardinality(Decs(d)') = Cardinality(Decs(d)) + (IF CliOf[r] = d THEN 1 ELSE 0)
<1>1. IsFiniteSet(Decs(d)) /\ Cardinality(Decs(d)) \in Nat
  BY PlacesAreInts
<1>2. timer'[r] = "dec" /\ \A q \in Req \ {r} : timer'[q] = timer[q]
  BY DEF FlowTypes
<1>3. CASE CliOf[r] = d
  <2>1. Decs(d)' = Decs(d) \cup {r} /\ r \notin Decs(d)
    BY <1>2, <1>3 DEF Decs
  <2> QED BY <1>1, <1>3, <2>1, OneMore
<1>4. CASE CliOf[r] # d
  <2>1. Decs(d)' = Decs(d)
    BY <1>2, <1>4 DEF Decs
  <2> QED BY <1>1, <1>4, <2>1
<1> QED BY <1>3, <1>4

LEMMA DecsLoses ==
  ASSUME FlowTypes, NEW r \in Req, NEW d \in Cli, timer[r] = "dec", NEW s, s # "dec", timer' = [timer EXCEPT ![r] = s]
  PROVE  Cardinality(Decs(d)') = Cardinality(Decs(d)) - (IF CliOf[r] = d THEN 1 ELSE 0)
<1>1. IsFiniteSet(Decs(d)) /\ Cardinality(Decs(d)) \in Nat
  BY PlacesAreInts
<1>2. timer'[r] # "dec" /\ \A q \in Req \ {r} : timer'[q] = timer[q]
  BY DEF FlowTypes
<1>3. CASE CliOf[r] = d
  <2>1. Decs(d)' = Decs(d) \ {r} /\ r \in Decs(d)
    BY <1>2, <1>3 DEF Decs
  <2> QED BY <1>1, <1>3, <2>1, OneLess
<1>4. CASE CliOf[r] # d
  <2>1. Decs(d)' = Decs(d)
    BY <1>2, <1>4 DEF Decs
  <2> QED BY <1>1, <1>4, <2>1
<1> QED BY <1>3, <1>4

LEMMA DecsStays ==
  ASSUME FlowTypes, NEW r \in Req, NEW d \in Cli, timer[r] # "dec", NEW s, s # "dec",
         timer' = [timer EXCEPT ![r] = s]
  PROVE  Cardinality(Decs(d)') = Cardinality(Decs(d))
<1>1. timer'[r] # "dec" /\ \A q \in Req \ {r} : timer'[q] = timer[q]
  BY DEF FlowTypes
<1>2. Decs(d)' = Decs(d)
  BY <1>1 DEF Decs
<1> QED BY <1>2

-----------------------------------------------------------------------------
(* What the actions do to one variable.                                     *)
LEMMA SenderGoes ==
  ASSUME FlowTypes, SndInv, NEW c \in Cli, snd[c].pc # "idle", NEW p \in SndPC \ {"undo"},
         Sender(c, p)
  PROVE  /\ snd' \in [Cli -> SndRec] /\ SndInv' /\ snd'[c].pc = p
         /\ \A d \in Cli \ {c} : snd'[d] = snd[d]
<1> DEFINE x == SndAt(p, snd[c].req)
<1>1. snd[c] \in SndRec
  BY DEF FlowTypes
<1>2. x \in SndRec /\ x.pc = p /\ x.req = snd[c].req
  BY <1>1 DEF SndRec, SndAt
<1> HIDE DEF x
<1>4. snd' = [snd EXCEPT ![c] = x]
  BY DEF Sender, x
<1>5. snd' \in [Cli -> SndRec] /\ snd'[c] = x /\ \A d \in Cli \ {c} : snd'[d] = snd[d]
  BY <1>2, <1>4 DEF FlowTypes
<1>6. SndInv'
  BY <1>2, <1>5 DEF SndInv
<1> QED BY <1>2, <1>5, <1>6

(* The sender is done with its request.                                     *)
LEMMA SenderRests ==
  ASSUME FlowTypes, SndInv, NEW c \in Cli, snd' = [snd EXCEPT ![c] = Resting]
  PROVE  /\ snd' \in [Cli -> SndRec] /\ SndInv' /\ snd'[c].pc = "idle"
         /\ \A d \in Cli \ {c} : snd'[d] = snd[d]
<1>1. Resting \in SndRec /\ Resting.pc = "idle"
  BY DEF Resting, SndAt, SndRec, SndPC
<1>2. snd' \in [Cli -> SndRec] /\ snd'[c] = Resting /\ \A d \in Cli \ {c} : snd'[d] = snd[d]
  BY <1>1 DEF FlowTypes
<1>3. SndInv'
  BY <1>1, <1>2 DEF SndInv
<1> QED BY <1>1, <1>2, <1>3

(* A resource field by field, and with new limits.                          *)
LEMMA ResShape ==
  ASSUME NEW f \in ResRec
  PROVE  f = [avail |-> f.avail, max |-> f.max, rate |-> f.rate, slow |-> f.slow,
              start |-> f.start, outMax |-> f.outMax, outRate |-> f.outRate, aged |-> f.aged]
BY DEF ResRec

LEMMA ResLimits ==
  ASSUME NEW f \in ResRec, NEW m \in Int, NEW a \in Int, NEW w \in Int, NEW s \in Int,
         NEW o \in Int, NEW g,
         g = [avail |-> f.avail, max |-> m, rate |-> a, slow |-> w, start |-> s,
              outMax |-> f.outMax, outRate |-> o, aged |-> f.aged],
         m >= 1, a # 0, w # 0, s >= 1
  PROVE  g \in ResRec /\ g.outMax = f.outMax /\ Room(g)
<1>1. g \in ResRec
  BY DEF ResRec
<1>2. g.outMax = f.outMax /\ Room(g)
  BY DEF Room
<1> QED BY <1>1, <1>2

(* A resource that is given new contents.                                   *)
LEMMA ResSet ==
  ASSUME FlowTypes, RoomInv, NEW c \in Cli, NEW f \in ResRec, Room(f), res' = [res EXCEPT ![c] = f]
  PROVE  /\ res' \in [Cli -> ResRec] /\ RoomInv' /\ res'[c].outMax = f.outMax
         /\ \A d \in Cli \ {c} : res'[d] = res[d]
<1>1. res' \in [Cli -> ResRec] /\ res'[c] = f /\ \A d \in Cli \ {c} : res'[d] = res[d]
  BY DEF FlowTypes
<1> QED BY <1>1 DEF RoomInv

(* A place is taken, taken back by alloc_res, or given back.                *)
LEMMA ResTake ==
  ASSUME FlowTypes, RoomInv, NEW c \in Cli,
         res' = [res EXCEPT ![c].outMax = @ + 1, ![c].outRate = @ + 1]
  PROVE  /\ res' \in [Cli -> ResRec] /\ RoomInv' /\ res'[c].outMax = res[c].outMax + 1
         /\ \A d \in Cli \ {c} : res'[d] = res[d]
<1>1. res \in [Cli -> ResRec]
  BY DEF FlowTypes
<1>2. /\ res' \in [Cli -> ResRec] /\ res'[c].outMax = res[c].outMax + 1
      /\ res'[c].max = res[c].max /\ res'[c].rate = res[c].rate
      /\ res'[c].start = res[c].start /\ res'[c].slow = res[c].slow
      /\ \A d \in Cli \ {c} : res'[d] = res[d]
  BY <1>1 DEF ResRec
<1>3. RoomInv'
  BY <1>2 DEF RoomInv, Room
<1> QED BY <1>2, <1>3

LEMMA ResUndo ==
  ASSUME FlowTypes, RoomInv, NEW c \in Cli,
         res' = [res EXCEPT ![c].outMax = @ - 1, ![c].outRate = @ - 1]
  PROVE  /\ res' \in [Cli -> ResRec] /\ RoomInv' /\ res'[c].outMax = res[c].outMax - 1
         /\ \A d \in Cli \ {c} : res'[d] = res[d]
<1>1. res \in [Cli -> ResRec]
  BY DEF FlowTypes
<1>2. /\ res' \in [Cli -> ResRec] /\ res'[c].outMax = res[c].outMax - 1
      /\ res'[c].max = res[c].max /\ res'[c].rate = res[c].rate
      /\ res'[c].start = res[c].start /\ res'[c].slow = res[c].slow
      /\ \A d \in Cli \ {c} : res'[d] = res[d]
  BY <1>1 DEF ResRec
<1>3. RoomInv'
  BY <1>2 DEF RoomInv, Room
<1> QED BY <1>2, <1>3

LEMMA ResGive ==
  ASSUME FlowTypes, RoomInv, NEW c \in Cli, dec_res_rate_max_reqs(c)
  PROVE  /\ res' \in [Cli -> ResRec] /\ RoomInv' /\ res'[c].outMax = res[c].outMax - 1
         /\ \A d \in Cli \ {c} : res'[d] = res[d]
<1>1. res \in [Cli -> ResRec] /\ res' = [res EXCEPT ![c].outMax = @ - 1]
  BY DEF FlowTypes, dec_res_rate_max_reqs
<1>2. /\ res' \in [Cli -> ResRec] /\ res'[c].outMax = res[c].outMax - 1
      /\ res'[c].max = res[c].max /\ res'[c].rate = res[c].rate
      /\ res'[c].start = res[c].start /\ res'[c].slow = res[c].slow
      /\ \A d \in Cli \ {c} : res'[d] = res[d]
  BY <1>1 DEF ResRec
<1>3. RoomInv'
  BY <1>2 DEF RoomInv, Room
<1> QED BY <1>2, <1>3

(* A flag of a resource changes.                                            *)
LEMMA ResFlag ==
  ASSUME FlowTypes, RoomInv, NEW c \in Cli, NEW b \in BOOLEAN,
         res' = [res EXCEPT ![c].aged = b] \/ res' = [res EXCEPT ![c].avail = b]
  PROVE  /\ res' \in [Cli -> ResRec] /\ RoomInv'
         /\ \A d \in Cli : res'[d].outMax = res[d].outMax
<1>1. res \in [Cli -> ResRec]
  BY DEF FlowTypes
<1>2. /\ res' \in [Cli -> ResRec] /\ res'[c].outMax = res[c].outMax
      /\ res'[c].max = res[c].max /\ res'[c].rate = res[c].rate
      /\ res'[c].start = res[c].start /\ res'[c].slow = res[c].slow
      /\ \A d \in Cli \ {c} : res'[d] = res[d]
  <2>1. CASE res' = [res EXCEPT ![c].aged = b]
    BY <1>1, <2>1 DEF ResRec
  <2>2. CASE res' = [res EXCEPT ![c].avail = b]
    BY <1>1, <2>2 DEF ResRec
  <2> QED BY <2>1, <2>2
<1>3. RoomInv'
  BY <1>2 DEF RoomInv, Room
<1> QED BY <1>2, <1>3

(* A slot begins: rates age, counters of places stay.                       *)
LEMMA ResNewSlot ==
  ASSUME FlowTypes, RoomInv, NEW c \in Cli, _nnc_sendMDReq_updatefctime(c)
  PROVE  /\ res' \in [Cli -> ResRec] /\ RoomInv' /\ slot' \in [Cli -> {"start", "in", "over"}]
         /\ \A d \in Cli : res'[d].outMax = res[d].outMax
<1>1. res \in [Cli -> ResRec]
  BY DEF FlowTypes
<1>2. CASE slot[c] = "over"
  <2>1. /\ res' = update_all_resource_rate
        /\ slot' \in [Cli -> {"start", "in", "over"}]
    BY <1>2 DEF _nnc_sendMDReq_updatefctime, FlowTypes
  <2>2. ASSUME NEW d \in Cli
        PROVE  /\ update_all_resource_rate[d] \in ResRec
               /\ update_all_resource_rate[d].outMax = res[d].outMax
               /\ Room(update_all_resource_rate[d])
    <3>1. res[d] \in ResRec /\ Room(res[d])
      BY <1>1 DEF RoomInv
    <3>2. CASE res[d].aged
      <4>1. update_all_resource_rate[d]
              = [res[d] EXCEPT !.outRate = 0, !.rate = res[d].slow, !.max = res[d].start]
        BY <3>2 DEF update_all_resource_rate
      <4> SUFFICES ASSUME NEW f \in ResRec, f = res[d], Room(f),
                          NEW g, g = [f EXCEPT !.outRate = 0, !.rate = f.slow, !.max = f.start]
                   PROVE  g \in ResRec /\ g.outMax = f.outMax /\ Room(g)
        BY <3>1, <4>1
      <4>2. f = [avail |-> f.avail, max |-> f.max, rate |-> f.rate, slow |-> f.slow,
                 start |-> f.start, outMax |-> f.outMax, outRate |-> f.outRate, aged |-> f.aged]
        BY ONLY f \in ResRec, ResShape
      <4>3. g = [avail |-> f.avail, max |-> f.start, rate |-> f.slow, slow |-> f.slow,
                 start |-> f.start, outMax |-> f.outMax, outRate |-> 0, aged |-> f.aged]
        BY <4>2
      <4>4. f.slow \in Int /\ f.start \in Int /\ f.start >= 1 /\ f.slow # 0 /\ 0 \in Int
        BY DEF ResRec, Room
      <4> QED BY ONLY f \in ResRec, <4>3, <4>4, ResLimits
    <3>3. CASE ~res[d].aged
      <4>1. update_all_resource_rate[d] = [res[d] EXCEPT !.outRate = 0]
        BY <3>3 DEF update_all_resource_rate
      <4> QED BY <3>1, <4>1 DEF ResRec, Room
    <3> QED BY <3>2, <3>3
  <2>3. DOMAIN update_all_resource_rate = Cli
        /\ update_all_resource_rate = [d \in Cli |-> update_all_resource_rate[d]]
    BY DEF update_all_resource_rate
  <2>4. res' \in [Cli -> ResRec]
    BY <2>1, <2>2, <2>3
  <2> QED BY <2>1, <2>2, <2>4 DEF RoomInv
<1>3. CASE slot[c] # "over"
  BY <1>1, <1>3 DEF _nnc_sendMDReq_updatefctime, FlowTypes, RoomInv
<1> QED BY <1>2, <1>3

(* Time passes.                                                             *)
LEMMA ResTick ==
  ASSUME FlowTypes, RoomInv, NEW c \in Cli, Tick(c)
  PROVE  /\ res' \in [Cli -> ResRec] /\ RoomInv' /\ slot' \in [Cli -> {"start", "in", "over"}]
         /\ \A d \in Cli : res'[d].outMax = res[d].outMax
<1>1. slot' \in [Cli -> {"start", "in", "over"}]
  BY DEF Tick, FlowTypes
<1>2. PICK old \in BOOLEAN :
        res' = [d \in Cli |-> [res[d] EXCEPT !.aged = @ \/ (old /\ slot'[c] = "over")]]
  BY DEF Tick
<1>3. ASSUME NEW d \in Cli
      PROVE  res'[d] \in ResRec /\ res'[d].outMax = res[d].outMax /\ Room(res'[d])
  <2>1. res[d] \in ResRec /\ Room(res[d])
    BY DEF FlowTypes, RoomInv
  <2>2. PICK b \in BOOLEAN : res'[d] = [res[d] EXCEPT !.aged = b]
    <3>1. (res[d].aged \/ (old /\ slot'[c] = "over")) \in BOOLEAN
      OBVIOUS
    <3> QED BY <1>2, <3>1
  <2> QED BY <2>1, <2>2 DEF ResRec, Room
<1>4. res' \in [Cli -> ResRec]
  BY <1>2, <1>3
<1> QED BY <1>1, <1>3, <1>4 DEF RoomInv

(* New limits from the namenode, and halved ones after a timeout: a limit   *)
(* of at least 2 that is halved is positive.                                *)
LEMMA ResFromNN ==
  ASSUME NEW f \in ResRec, NEW m \in FromNN
  PROVE  LET g == update_resource_rate(f, m)
         IN  g \in ResRec /\ g.outMax = f.outMax /\ Room(g)
<1> SUFFICES ASSUME NEW g, g = update_resource_rate(f, m),
                    NEW x, x = (IF m[2] > 0 THEN m[2] ELSE MinMax)
             PROVE  g \in ResRec /\ g.outMax = f.outMax /\ Room(g)
  OBVIOUS
<1>1. m[1] \in Int \ {0} /\ m[2] \in Int /\ m[3] \in Nat \ {0} /\ m[4] \in Int \ {0}
  BY NamenodeAssumption
<1>2. x \in Int /\ x >= 1 /\ m[3] \in Int /\ m[3] >= 1
  BY <1>1, RateAssumption
<1>3. f = [avail |-> f.avail, max |-> f.max, rate |-> f.rate, slow |-> f.slow,
           start |-> f.start, outMax |-> f.outMax, outRate |-> f.outRate, aged |-> f.aged]
  BY ONLY f \in ResRec, ResShape
<1>4. g = [f EXCEPT !.rate = m[1], !.max = x, !.start = m[3], !.slow = m[4]]
  BY DEF update_resource_rate
<1>5. g = [avail |-> f.avail, max |-> x, rate |-> m[1], slow |-> m[4],
           start |-> m[3], outMax |-> f.outMax, outRate |-> f.outRate, aged |-> f.aged]
  BY ONLY <1>3, <1>4
<1>6. f.outRate \in Int
  BY DEF ResRec
<1> QED BY ONLY f \in ResRec, <1>1, <1>2, <1>5, <1>6, ResLimits

LEMMA ResHalved ==
  ASSUME NEW f \in ResRec, Room(f)
  PROVE  LET g == update_res_rate_timeout(f)
         IN  g \in ResRec /\ g.outMax = f.outMax /\ Room(g)
<1> SUFFICES ASSUME NEW g, g = update_res_rate_timeout(f),
                    NEW x, x = (IF f.max >= MinMax THEN f.max \div 2 ELSE MinMax),
                    NEW y, y = (IF f.rate > 1 THEN f.rate \div 2 ELSE 1)
             PROVE  g \in ResRec /\ g.outMax = f.outMax /\ Room(g)
  OBVIOUS
<1>1. f.max \in Int /\ f.rate \in Int /\ f.slow \in Int /\ f.start \in Int /\ f.outRate \in Int
  BY DEF ResRec
<1>2. \A a \in Int : a >= 2 => a \div 2 \in Int /\ a \div 2 >= 1
  OBVIOUS
<1>3. MinMax \in Int /\ MinMax >= 2
  BY RateAssumption
<1>4. x \in Int /\ x >= 1
  BY <1>1, <1>2, <1>3
<1>5. y \in Int /\ y # 0
  BY <1>1, <1>2
<1>6. f = [avail |-> f.avail, max |-> f.max, rate |-> f.rate, slow |-> f.slow,
           start |-> f.start, outMax |-> f.outMax, outRate |-> f.outRate, aged |-> f.aged]
  BY ONLY f \in ResRec, ResShape
<1>7. g = [f EXCEPT !.max = x, !.rate = y]
  BY DEF update_res_rate_timeout
<1>8. g = [avail |-> f.avail, max |-> x, rate |-> y, slow |-> f.slow,
           start |-> f.start, outMax |-> f.outMax, outRate |-> f.outRate, aged |-> f.aged]
  BY ONLY <1>6, <1>7
<1>9. f.slow # 0 /\ f.start >= 1
  BY DEF Room
<1> QED BY ONLY f \in ResRec, <1>1, <1>4, <1>5, <1>8, <1>9, ResLimits

-----------------------------------------------------------------------------
(* The window.  An answer's time takes the place of the oldest one.         *)
LEMMA WinAdds ==
  ASSUME NEW w \in WinRec, NEW t \in Int
  PROVE  LET v == add_req_response_time(w, t)
         IN  /\ v \in WinRec /\ v.raced = w.raced
             /\ w.total = Sum(w.time) => v.total = Sum(v.time)
<1> DEFINE i == (w.index + 1) % Num
           D == 0 .. Num - 1
           e == [w.time EXCEPT ![i] = t]
           k == w.total + t - w.time[i]
           b == w.ready \/ w.index + 1 = Num
<1>1. Num \in Nat \ {0} /\ w.index \in D /\ w.time \in [D -> Int] /\ w.total \in Int
  BY RateAssumption DEF WinRec
<1>2. i \in D
  BY <1>1
<1>3. e \in [D -> Int] /\ k \in Int /\ b \in BOOLEAN
  BY <1>1, <1>2
<1>4. IsFiniteSet(D)
  BY <1>1, FS_Interval
<1>5. Sum(w.time) \in Int /\ Sum(e) = Sum(w.time) + t - w.time[i]
  BY <1>1, <1>2, <1>4, SumChange
<1>6. w = [time |-> w.time, index |-> w.index, total |-> w.total, ready |-> w.ready,
           raced |-> w.raced]
  BY DEF WinRec
<1>7. add_req_response_time(w, t)
        = [w EXCEPT !.ready = b, !.index = i, !.total = k, !.time = e]
  BY <1>6 DEF add_req_response_time
<1> HIDE DEF i, e, k, b
<1>8. add_req_response_time(w, t)
        = [time |-> e, index |-> i, total |-> k, ready |-> b, raced |-> w.raced]
  BY ONLY <1>6, <1>7
<1>9. [time |-> e, index |-> i, total |-> k, ready |-> b, raced |-> w.raced] \in WinRec
  BY <1>2, <1>3 DEF WinRec
<1>10. w.total = Sum(w.time) => k = Sum(e)
  BY <1>5 DEF k
<1> QED BY <1>8, <1>9, <1>10

-----------------------------------------------------------------------------
(* The parts of the counter that a step leaves alone.                       *)
LEMMA OutSame == ASSUME UNCHANGED st, NEW d \in Cli PROVE Cardinality(Out(d)') = Cardinality(Out(d))
BY DEF Out

LEMMA DecsSame ==
  ASSUME UNCHANGED timer, NEW d \in Cli PROVE Cardinality(Decs(d)') = Cardinality(Decs(d))
BY DEF Decs

LEMMA WinSame == ASSUME WinInv, UNCHANGED <<win, cut>> PROVE WinInv'
BY DEF WinInv

LEMMA SndSame == ASSUME SndInv, UNCHANGED snd PROVE SndInv'
BY DEF SndInv

LEMMA RoomSame == ASSUME RoomInv, UNCHANGED res PROVE RoomInv'
BY DEF RoomInv

(* The parts, from the invariant.                                           *)
LEMMA PartTypes ==
  ASSUME FlowInd, NEW d \in Cli
  PROVE  /\ Cardinality(Out(d)) \in Nat /\ Cardinality(Decs(d)) \in Nat
         /\ InRx(d) \in {0, 1} /\ InSnd(d) \in {0, 1} /\ drift[d] \in Int
         /\ res[d].outMax \in Int
<1>1. res[d].outMax \in Int
  BY DEF FlowInd, FlowTypes, ResRec
<1> QED BY <1>1, PlacesAreInts DEF FlowInd

(* The counter moves with its parts.                                        *)
LEMMA DriftStep ==
  ASSUME FlowInd, NEW d \in Cli,
         res'[d].outMax = res[d].outMax
           + (Cardinality(Out(d)') - Cardinality(Out(d)))
           + (Cardinality(Decs(d)') - Cardinality(Decs(d)))
           + (InRx(d)' - InRx(d)) + (InSnd(d)' - InSnd(d)) + (drift'[d] - drift[d]),
         FlowTypes'
  PROVE  res'[d].outMax = Places(d)'
<1>1. /\ Cardinality(Out(d)) \in Nat /\ Cardinality(Decs(d)) \in Nat
      /\ InRx(d) \in {0, 1} /\ InSnd(d) \in {0, 1} /\ drift[d] \in Int
  BY PlacesAreInts DEF FlowInd
<1>2. (/\ Cardinality(Out(d)) \in Nat /\ Cardinality(Decs(d)) \in Nat
       /\ InRx(d) \in {0, 1} /\ InSnd(d) \in {0, 1} /\ drift[d] \in Int)'
  <2>1. IsFiniteSet(Out(d)') /\ IsFiniteSet(Decs(d)')
    BY RateAssumption, FS_Subset DEF Out, Decs
  <2>2. Cardinality(Out(d)') \in Nat /\ Cardinality(Decs(d)') \in Nat
    BY <2>1, FS_CardinalityType
  <2> QED BY <2>2 DEF InRx, InSnd, FlowTypes
<1>3. res[d].outMax = Places(d)
  BY DEF FlowInd, DriftInv
<1> QED BY <1>1, <1>2, <1>3 DEF Places

(* Each action keeps the invariant.                                         *)
LEMMA KeepSubmit == ASSUME FlowInd, NEW r \in Req, Submit(r) PROVE FlowInd'
<1>1. FlowTypes'
  BY DEF FlowInd, FlowTypes, Submit, links
<1>2. SndInv' /\ WinInv' /\ RoomInv'
  BY SndSame, WinSame, RoomSame DEF FlowInd, Submit, links
<1>3. ASSUME NEW d \in Cli PROVE res'[d].outMax = Places(d)'
  <2>1. Cardinality(Out(d)') = Cardinality(Out(d))
    <3>1. FlowTypes /\ st' = [st EXCEPT ![r] = "queued"] /\ st[r] # "out" /\ "queued" # "out"
      BY DEF Submit, FlowInd
    <3> QED BY ONLY <3>1, r \in Req, d \in Cli, OutStays
  <2>2. Cardinality(Decs(d)') = Cardinality(Decs(d))
    BY DecsSame DEF Submit
  <2>3. InRx(d)' = InRx(d) /\ InSnd(d)' = InSnd(d) /\ drift'[d] = drift[d] /\ res'[d] = res[d]
    BY DEF Submit, InRx, InSnd
  <2> QED BY <1>1, <2>1, <2>2, <2>3, PartTypes, DriftStep
<1> QED BY <1>1, <1>2, <1>3 DEF FlowInd, DriftInv

LEMMA KeepPeek == ASSUME FlowInd, NEW r \in Req, Peek(r) PROVE FlowInd'
<1> DEFINE c == CliOf[r]
<1>1. c \in Cli /\ FlowTypes /\ SndInv /\ WinInv /\ RoomInv
  BY CliAssumption DEF FlowInd
<1>2. /\ res' \in [Cli -> ResRec] /\ RoomInv' /\ slot' \in [Cli -> {"start", "in", "over"}]
      /\ \A d \in Cli : res'[d].outMax = res[d].outMax
  BY <1>1, ResNewSlot DEF Peek
<1>3. PICK p \in {"nofc", "check"} : snd' = [snd EXCEPT ![c].req = r, ![c].pc = p]
  BY DEF Peek
<1>4. /\ snd' \in [Cli -> SndRec] /\ snd'[c].pc = p /\ snd'[c].req = r /\ snd[c].pc = "idle"
      /\ \A d \in Cli \ {c} : snd'[d] = snd[d]
  BY <1>1, <1>3 DEF FlowTypes, SndRec, SndPC, Peek
<1>5. SndInv'
  BY <1>1, <1>3, <1>4 DEF SndInv
<1>6. st[r] # "out" /\ st' = [st EXCEPT ![r] = "sending"] /\ UNCHANGED <<win, rx, timer, cut, drift>>
  BY DEF Peek, links
<1>7. FlowTypes'
  BY <1>1, <1>2, <1>4, <1>6 DEF FlowTypes
<1>8. WinInv'
  BY <1>1, <1>6, WinSame
<1>9. ASSUME NEW d \in Cli PROVE res'[d].outMax = Places(d)'
  <2>1. Cardinality(Out(d)') = Cardinality(Out(d))
    <3>1. "sending" # "out"
      OBVIOUS
    <3> QED BY ONLY <1>1, <1>6, <3>1, r \in Req, d \in Cli, OutStays
  <2>2. Cardinality(Decs(d)') = Cardinality(Decs(d))
    BY <1>6, DecsSame
  <2>3. InRx(d)' = InRx(d) /\ drift'[d] = drift[d]
    BY <1>6 DEF InRx
  <2>4. InSnd(d)' = InSnd(d)
    BY <1>3, <1>4 DEF InSnd
  <2> QED BY <1>2, <1>7, <2>1, <2>2, <2>3, <2>4, PartTypes, DriftStep
<1> QED BY <1>2, <1>5, <1>7, <1>8, <1>9 DEF FlowInd, DriftInv

LEMMA KeepNoFc == ASSUME FlowInd, NEW c \in Cli, alloc_res_no_fc(c) PROVE FlowInd'
<1>1. FlowTypes /\ SndInv /\ WinInv /\ RoomInv
  BY DEF FlowInd
<1>2. /\ res' \in [Cli -> ResRec] /\ RoomInv' /\ res'[c].outMax = res[c].outMax + 1
      /\ \A d \in Cli \ {c} : res'[d] = res[d]
  BY <1>1, ResTake DEF alloc_res_no_fc
<1>3. snd[c].pc = "nofc" /\ Sender(c, "granted") /\ "granted" \in SndPC \ {"undo"}
  BY DEF alloc_res_no_fc, SndPC
<1>4. /\ snd' \in [Cli -> SndRec] /\ SndInv' /\ snd'[c].pc = "granted"
      /\ \A d \in Cli \ {c} : snd'[d] = snd[d]
  BY <1>1, <1>3, SenderGoes
<1>5. UNCHANGED <<win, slot, st, timer, rx, cut, drift>>
  BY DEF alloc_res_no_fc, requests, links
<1>6. FlowTypes' /\ WinInv'
  BY <1>1, <1>2, <1>4, <1>5, WinSame DEF FlowTypes
<1>7. ASSUME NEW d \in Cli PROVE res'[d].outMax = Places(d)'
  <2>1. /\ Cardinality(Out(d)') = Cardinality(Out(d)) /\ Cardinality(Decs(d)') = Cardinality(Decs(d))
        /\ InRx(d)' = InRx(d) /\ drift'[d] = drift[d]
    BY <1>5, OutSame, DecsSame DEF InRx
  <2>2. res'[d].outMax - res[d].outMax = InSnd(d)' - InSnd(d)
    BY <1>2, <1>3, <1>4, PartTypes DEF InSnd
  <2>3. InSnd(d)' \in Int /\ res'[d].outMax \in Int
    BY <1>2 DEF InSnd, ResRec
  <2> QED BY <1>6, <2>1, <2>2, <2>3, PartTypes, DriftStep
<1> QED BY <1>2, <1>4, <1>6, <1>7 DEF FlowInd, DriftInv

LEMMA KeepTrigger == ASSUME FlowInd, NEW c \in Cli, should_trigger_fc(c) PROVE FlowInd'
<1>1. FlowTypes /\ SndInv /\ WinInv /\ RoomInv
  BY DEF FlowInd
<1>2. snd[c].pc = "check" /\ UNCHANGED <<win, slot, st, timer, rx, cut, drift>>
  BY DEF should_trigger_fc, requests, links
<1>3. /\ res' \in [Cli -> ResRec] /\ RoomInv' /\ snd' \in [Cli -> SndRec] /\ SndInv'
      /\ \A d \in Cli : res'[d].outMax - res[d].outMax = InSnd(d)' - InSnd(d)
  <2>1. CASE res[c].avail
    <3>1. /\ res' \in [Cli -> ResRec] /\ RoomInv' /\ res'[c].outMax = res[c].outMax + 1
          /\ \A d \in Cli \ {c} : res'[d] = res[d]
      BY <1>1, <2>1, ResTake DEF should_trigger_fc
    <3>2. res[c].outMax + 1 \in Int /\ res[c].outRate + 1 \in Int
      BY <1>1 DEF FlowTypes, ResRec
    <3>3. snd' = [snd EXCEPT ![c].pc = "test", ![c].max = res[c].outMax + 1,
                             ![c].rate = res[c].outRate + 1]
      BY <2>1 DEF should_trigger_fc
    <3>4. /\ snd' \in [Cli -> SndRec] /\ snd'[c].pc = "test" /\ snd'[c].req = snd[c].req
          /\ \A d \in Cli \ {c} : snd'[d] = snd[d]
      <4> SUFFICES ASSUME NEW x \in Int, NEW y \in Int,
                          snd' = [snd EXCEPT ![c].pc = "test", ![c].max = x, ![c].rate = y]
                   PROVE  /\ snd' \in [Cli -> SndRec] /\ snd'[c].pc = "test"
                          /\ snd'[c].req = snd[c].req /\ \A d \in Cli \ {c} : snd'[d] = snd[d]
        BY <3>2, <3>3
      <4>1. snd \in [Cli -> SndRec] /\ "test" \in SndPC
        BY <1>1 DEF FlowTypes, SndPC
      <4> QED BY <4>1 DEF SndRec
    <3>5. SndInv'
      BY <1>1, <1>2, <3>4 DEF SndInv
    <3> QED BY <1>2, <3>1, <3>4, <3>5, PartTypes DEF InSnd
  <2>2. CASE ~res[c].avail
    <3>1. Sender(c, "sleep") /\ UNCHANGED res /\ "sleep" \in SndPC \ {"undo"}
      BY <2>2 DEF should_trigger_fc, SndPC
    <3>2. /\ snd' \in [Cli -> SndRec] /\ SndInv' /\ snd'[c].pc = "sleep"
          /\ \A d \in Cli \ {c} : snd'[d] = snd[d]
      BY <1>1, <1>2, <3>1, SenderGoes
    <3>3. res' \in [Cli -> ResRec] /\ RoomInv'
      BY <1>1, <3>1, RoomSame DEF FlowTypes
    <3> QED BY <1>2, <3>1, <3>2, <3>3, PartTypes DEF InSnd
  <2> QED BY <2>1, <2>2
<1>4. FlowTypes' /\ WinInv'
  BY <1>1, <1>2, <1>3, WinSame DEF FlowTypes
<1>5. ASSUME NEW d \in Cli PROVE res'[d].outMax = Places(d)'
  <2>1. /\ Cardinality(Out(d)') = Cardinality(Out(d)) /\ Cardinality(Decs(d)') = Cardinality(Decs(d))
        /\ InRx(d)' = InRx(d) /\ drift'[d] = drift[d]
    BY <1>2, OutSame, DecsSame DEF InRx
  <2>2. InSnd(d)' \in Int /\ res'[d].outMax \in Int
    BY <1>3 DEF InSnd, ResRec
  <2> QED BY <1>3, <1>4, <2>1, <2>2, PartTypes, DriftStep
<1> QED BY <1>3, <1>4, <1>5 DEF FlowInd, DriftInv

(* alloc_res is refused a place, and remembers how to wait.                 *)
LEMMA SenderUndoes ==
  ASSUME FlowTypes, SndInv, NEW c \in Cli, snd[c].pc = "test", NEW w \in {"waitq", "sleep"},
         snd' = [snd EXCEPT ![c].pc = "undo", ![c].max = 0, ![c].rate = 0, ![c].ret = w]
  PROVE  /\ snd' \in [Cli -> SndRec] /\ SndInv' /\ snd'[c].pc = "undo"
         /\ \A d \in Cli \ {c} : snd'[d] = snd[d]
<1>1. snd \in [Cli -> SndRec] /\ "undo" \in SndPC /\ 0 \in Int
  BY DEF FlowTypes, SndPC
<1>2. /\ snd' \in [Cli -> SndRec] /\ snd'[c].pc = "undo" /\ snd'[c].req = snd[c].req
      /\ snd'[c].ret = w /\ \A d \in Cli \ {c} : snd'[d] = snd[d]
  BY <1>1 DEF SndRec
<1>3. SndInv'
  BY <1>2 DEF SndInv
<1> QED BY <1>2, <1>3

LEMMA KeepAlloc == ASSUME FlowInd, NEW c \in Cli, alloc_res(c) PROVE FlowInd'
<1>1. FlowTypes /\ SndInv /\ WinInv /\ RoomInv
  BY DEF FlowInd
<1>2. snd[c].pc = "test" /\ UNCHANGED <<win, slot, st, timer, rx, cut, drift>>
  BY DEF alloc_res, requests, links
<1>3. /\ res' \in [Cli -> ResRec] /\ RoomInv' /\ snd' \in [Cli -> SndRec] /\ SndInv'
      /\ snd'[c].pc \in {"undo", "granted"} /\ \A d \in Cli \ {c} : snd'[d] = snd[d]
      /\ \A d \in Cli : res'[d].outMax = res[d].outMax
  <2>1. CASE snd[c].max > res[c].max
    <3>1. /\ UNCHANGED res
          /\ snd' = [snd EXCEPT ![c].pc = "undo", ![c].max = 0, ![c].rate = 0, ![c].ret = "waitq"]
      BY <2>1 DEF alloc_res
    <3>2. /\ snd' \in [Cli -> SndRec] /\ SndInv' /\ snd'[c].pc = "undo"
          /\ \A d \in Cli \ {c} : snd'[d] = snd[d]
      BY <1>1, <1>2, <3>1, SenderUndoes
    <3> QED BY <1>1, <3>1, <3>2, RoomSame DEF FlowTypes
  <2>2. CASE ~(snd[c].max > res[c].max) /\ Limited(c)
    <3>1. /\ UNCHANGED res
          /\ snd' = [snd EXCEPT ![c].pc = "undo", ![c].max = 0, ![c].rate = 0, ![c].ret = "sleep"]
      BY <2>2 DEF alloc_res
    <3>2. /\ snd' \in [Cli -> SndRec] /\ SndInv' /\ snd'[c].pc = "undo"
          /\ \A d \in Cli \ {c} : snd'[d] = snd[d]
      BY <1>1, <1>2, <3>1, SenderUndoes
    <3> QED BY <1>1, <3>1, <3>2, RoomSame DEF FlowTypes
  <2>3. CASE ~(snd[c].max > res[c].max) /\ ~Limited(c)
    <3>1. res' = [res EXCEPT ![c].aged = FALSE] /\ Sender(c, "granted")
          /\ "granted" \in SndPC \ {"undo"}
      BY <2>3 DEF alloc_res, SndPC
    <3>2. /\ snd' \in [Cli -> SndRec] /\ SndInv' /\ snd'[c].pc = "granted"
          /\ \A d \in Cli \ {c} : snd'[d] = snd[d]
      BY <1>1, <1>2, <3>1, SenderGoes
    <3>3. /\ res' \in [Cli -> ResRec] /\ RoomInv'
          /\ \A d \in Cli : res'[d].outMax = res[d].outMax
      BY <1>1, <3>1, ResFlag
    <3> QED BY <3>2, <3>3
  <2> QED BY <2>1, <2>2, <2>3
<1>4. FlowTypes' /\ WinInv'
  BY <1>1, <1>2, <1>3, WinSame DEF FlowTypes
<1>5. ASSUME NEW d \in Cli PROVE res'[d].outMax = Places(d)'
  <2>1. /\ Cardinality(Out(d)') = Cardinality(Out(d)) /\ Cardinality(Decs(d)') = Cardinality(Decs(d))
        /\ InRx(d)' = InRx(d) /\ drift'[d] = drift[d]
    BY <1>2, OutSame, DecsSame DEF InRx
  <2>2. InSnd(d)' = InSnd(d)
    BY <1>2, <1>3 DEF InSnd
  <2> QED BY <1>3, <1>4, <2>1, <2>2, PartTypes, DriftStep
<1> QED BY <1>3, <1>4, <1>5 DEF FlowInd, DriftInv

LEMMA KeepUndo == ASSUME FlowInd, NEW c \in Cli, AllocUndo(c) PROVE FlowInd'
<1>1. FlowTypes /\ SndInv /\ WinInv /\ RoomInv
  BY DEF FlowInd
<1>2. /\ res' \in [Cli -> ResRec] /\ RoomInv' /\ res'[c].outMax = res[c].outMax - 1
      /\ \A d \in Cli \ {c} : res'[d] = res[d]
  BY <1>1, ResUndo DEF AllocUndo
<1>3. PICK p \in {"waitq", "sleep"} : p = snd[c].ret
  BY <1>1 DEF AllocUndo, SndInv
<1>4. snd[c].pc = "undo" /\ Sender(c, p) /\ p \in SndPC \ {"undo"}
  BY <1>3 DEF AllocUndo, SndPC
<1>5. /\ snd' \in [Cli -> SndRec] /\ SndInv' /\ snd'[c].pc = p
      /\ \A d \in Cli \ {c} : snd'[d] = snd[d]
  BY <1>1, <1>4, SenderGoes
<1>6. UNCHANGED <<win, slot, st, timer, rx, cut, drift>>
  BY DEF AllocUndo, requests, links
<1>7. FlowTypes' /\ WinInv'
  BY <1>1, <1>2, <1>5, <1>6, WinSame DEF FlowTypes
<1>8. ASSUME NEW d \in Cli PROVE res'[d].outMax = Places(d)'
  <2>1. /\ Cardinality(Out(d)') = Cardinality(Out(d)) /\ Cardinality(Decs(d)') = Cardinality(Decs(d))
        /\ InRx(d)' = InRx(d) /\ drift'[d] = drift[d]
    BY <1>6, OutSame, DecsSame DEF InRx
  <2>2. res'[d].outMax - res[d].outMax = InSnd(d)' - InSnd(d)
    BY <1>2, <1>3, <1>4, <1>5, PartTypes DEF InSnd
  <2>3. InSnd(d)' \in Int /\ res'[d].outMax \in Int
    BY <1>2 DEF InSnd, ResRec
  <2> QED BY <1>7, <2>1, <2>2, <2>3, PartTypes, DriftStep
<1> QED BY <1>2, <1>5, <1>7, <1>8 DEF FlowInd, DriftInv

LEMMA KeepWait == ASSUME FlowInd, NEW c \in Cli, do_flow_control(c) PROVE FlowInd'
<1>1. FlowTypes /\ SndInv /\ WinInv /\ RoomInv
  BY DEF FlowInd
<1>2. /\ res' \in [Cli -> ResRec] /\ RoomInv' /\ slot' \in [Cli -> {"start", "in", "over"}]
      /\ \A d \in Cli : res'[d].outMax = res[d].outMax
  BY <1>1, ResNewSlot DEF do_flow_control
<1>3. snd[c].pc \in {"waitq", "sleep"} /\ UNCHANGED <<win, st, timer, rx, cut>>
  BY DEF do_flow_control, requests, links
<1>4. /\ snd' \in [Cli -> SndRec] /\ SndInv' /\ drift' \in [Cli -> Int]
      /\ \A d \in Cli \ {c} : snd'[d] = snd[d] /\ drift'[d] = drift[d]
      /\ \/ snd'[c].pc \in {"check", "idle"} /\ drift'[c] = drift[c]
         \/ snd'[c].pc = "granted" /\ drift'[c] = drift[c] - 1
  <2>1. CASE Sender(c, "check") /\ UNCHANGED drift
    <3>1. "check" \in SndPC \ {"undo"} /\ snd[c].pc # "idle"
      BY <1>3 DEF SndPC
    <3>2. /\ snd' \in [Cli -> SndRec] /\ SndInv' /\ snd'[c].pc = "check"
          /\ \A d \in Cli \ {c} : snd'[d] = snd[d]
      BY <1>1, <2>1, <3>1, SenderGoes
    <3> QED BY <1>1, <2>1, <3>2 DEF FlowTypes
  <2>2. CASE snd' = [snd EXCEPT ![c] = Resting] /\ UNCHANGED drift
    <3>1. /\ snd' \in [Cli -> SndRec] /\ SndInv' /\ snd'[c].pc = "idle"
          /\ \A d \in Cli \ {c} : snd'[d] = snd[d]
      BY <1>1, <2>2, SenderRests
    <3> QED BY <1>1, <2>2, <3>1 DEF FlowTypes
  <2>3. CASE Sender(c, "granted") /\ drift' = [drift EXCEPT ![c] = @ - 1]
    <3>1. "granted" \in SndPC \ {"undo"} /\ snd[c].pc # "idle"
      BY <1>3 DEF SndPC
    <3>2. /\ snd' \in [Cli -> SndRec] /\ SndInv' /\ snd'[c].pc = "granted"
          /\ \A d \in Cli \ {c} : snd'[d] = snd[d]
      BY <1>1, <2>3, <3>1, SenderGoes
    <3>3. /\ drift' \in [Cli -> Int] /\ drift'[c] = drift[c] - 1
          /\ \A d \in Cli \ {c} : drift'[d] = drift[d]
      BY <1>1, <2>3 DEF FlowTypes
    <3> QED BY <3>2, <3>3
  <2> QED BY <2>1, <2>2, <2>3 DEF do_flow_control, GoOn
<1>5. FlowTypes' /\ WinInv'
  BY <1>1, <1>2, <1>3, <1>4, WinSame DEF FlowTypes
<1>6. ASSUME NEW d \in Cli PROVE res'[d].outMax = Places(d)'
  <2>1. /\ Cardinality(Out(d)') = Cardinality(Out(d)) /\ Cardinality(Decs(d)') = Cardinality(Decs(d))
        /\ InRx(d)' = InRx(d)
    BY <1>3, OutSame, DecsSame DEF InRx
  <2>2. CASE d # c \/ drift'[c] = drift[c]
    <3>1. InSnd(d)' = InSnd(d) /\ drift'[d] = drift[d]
      BY <1>1, <1>3, <1>4, <2>2 DEF InSnd, FlowTypes
    <3> QED BY <1>2, <1>5, <2>1, <3>1, PartTypes, DriftStep
  <2>3. CASE d = c /\ snd'[c].pc = "granted" /\ drift'[c] = drift[c] - 1
    <3>1. InSnd(d) = 0 /\ InSnd(d)' = 1 /\ drift'[d] = drift[d] - 1
      BY <1>3, <2>3 DEF InSnd
    <3> QED BY <1>2, <1>5, <2>1, <3>1, PartTypes, DriftStep
  <2> QED BY <1>4, <2>2, <2>3
<1> QED BY <1>2, <1>4, <1>5, <1>6 DEF FlowInd, DriftInv

LEMMA KeepSendDone == ASSUME FlowInd, NEW c \in Cli, SendDone(c) PROVE FlowInd'
<1> DEFINE r == snd[c].req
<1>1. FlowTypes /\ SndInv /\ WinInv /\ RoomInv
  BY DEF FlowInd
<1>2. /\ snd[c].pc = "granted" /\ r \in Req /\ CliOf[r] = c
      /\ snd' = [snd EXCEPT ![c] = Resting] /\ UNCHANGED <<res, win, slot, rx, timer, cut>>
  BY <1>1 DEF SendDone, SndInv, links
<1>3. /\ snd' \in [Cli -> SndRec] /\ SndInv' /\ snd'[c].pc = "idle"
      /\ \A d \in Cli \ {c} : snd'[d] = snd[d]
  BY <1>1, <1>2, SenderRests
<1>4. WinInv' /\ RoomInv'
  BY <1>1, <1>2, WinSame, RoomSame
<1>5. ASSUME NEW d \in Cli
      PROVE  /\ Cardinality(Decs(d)') = Cardinality(Decs(d))
             /\ InRx(d)' = InRx(d) /\ res'[d] = res[d]
             /\ InSnd(d)' = InSnd(d) - (IF c = d THEN 1 ELSE 0)
  <2>1. Cardinality(Decs(d)') = Cardinality(Decs(d)) /\ InRx(d)' = InRx(d) /\ res'[d] = res[d]
    BY <1>2, DecsSame DEF InRx
  <2>2. InSnd(d)' = InSnd(d) - (IF c = d THEN 1 ELSE 0)
    BY <1>2, <1>3 DEF InSnd
  <2> QED BY <2>1, <2>2
<1>6. CASE st[r] = "sending"
  <2>1. st[r] # "out" /\ st' = [st EXCEPT ![r] = "out"] /\ UNCHANGED drift
    BY <1>6 DEF SendDone
  <2>2. FlowTypes'
    BY <1>1, <1>2, <1>3, <2>1 DEF FlowTypes
  <2>3. ASSUME NEW d \in Cli PROVE res'[d].outMax = Places(d)'
    <3>1. Cardinality(Out(d)') = Cardinality(Out(d)) + (IF c = d THEN 1 ELSE 0)
      <4> HIDE DEF r
      <4> QED BY ONLY <1>1, <1>2, <2>1, d \in Cli, OutGains
    <3>2. drift'[d] = drift[d]
      BY <2>1
    <3> QED BY <1>5, <2>2, <3>1, <3>2, PartTypes, DriftStep
  <2> QED BY <1>3, <1>4, <2>2, <2>3 DEF FlowInd, DriftInv
<1>7. CASE st[r] # "sending"
  <2>1. drift' = [drift EXCEPT ![c] = @ + 1] /\ UNCHANGED st
    BY <1>7 DEF SendDone
  <2>2. FlowTypes'
    BY <1>1, <1>2, <1>3, <2>1 DEF FlowTypes
  <2>3. ASSUME NEW d \in Cli PROVE res'[d].outMax = Places(d)'
    <3>1. Cardinality(Out(d)') = Cardinality(Out(d))
      BY <2>1, OutSame
    <3>2. drift'[d] = drift[d] + (IF c = d THEN 1 ELSE 0)
      BY <1>1, <2>1 DEF FlowTypes
    <3> QED BY <1>5, <2>2, <3>1, <3>2, PartTypes, DriftStep
  <2> QED BY <1>3, <1>4, <2>2, <2>3 DEF FlowInd, DriftInv
<1> QED BY <1>6, <1>7

LEMMA KeepAnswer == ASSUME FlowInd, NEW r \in Req, Answer(r) PROVE FlowInd'
<1> DEFINE c == CliOf[r]
<1>1. c \in Cli /\ FlowTypes /\ SndInv /\ WinInv /\ RoomInv
  BY CliAssumption DEF FlowInd
<1>2. /\ rx[c] = NoRx /\ st[r] = "out" /\ "done" # "out" /\ st' = [st EXCEPT ![r] = "done"]
      /\ rx' = [rx EXCEPT ![c] = <<r, "dec">>]
      /\ UNCHANGED <<res, win, slot, snd, timer, cut, drift>>
  BY DEF Answer, links
<1>3. FlowTypes'
  BY <1>1, <1>2 DEF FlowTypes, RxPC
<1>4. SndInv' /\ WinInv' /\ RoomInv'
  BY <1>1, <1>2, SndSame, WinSame, RoomSame
<1>5. ASSUME NEW d \in Cli PROVE res'[d].outMax = Places(d)'
  <2>1. Cardinality(Out(d)') = Cardinality(Out(d)) - (IF c = d THEN 1 ELSE 0)
    BY ONLY <1>1, <1>2, r \in Req, d \in Cli, OutLoses
  <2>2. InRx(d)' = InRx(d) + (IF c = d THEN 1 ELSE 0)
    BY <1>1, <1>2 DEF InRx, NoRx, FlowTypes
  <2>3. Cardinality(Decs(d)') = Cardinality(Decs(d))
    BY <1>2, DecsSame
  <2>4. InSnd(d)' = InSnd(d) /\ drift'[d] = drift[d] /\ res'[d] = res[d]
    BY <1>2 DEF InSnd
  <2> QED BY <1>3, <2>1, <2>2, <2>3, <2>4, PartTypes, DriftStep
<1> QED BY <1>3, <1>4, <1>5 DEF FlowInd, DriftInv

LEMMA KeepAnswerDec == ASSUME FlowInd, NEW c \in Cli, AnswerDec(c) PROVE FlowInd'
<1>1. FlowTypes /\ SndInv /\ WinInv /\ RoomInv
  BY DEF FlowInd
<1>2. /\ res' \in [Cli -> ResRec] /\ RoomInv' /\ res'[c].outMax = res[c].outMax - 1
      /\ \A d \in Cli \ {c} : res'[d] = res[d]
  BY <1>1, ResGive DEF AnswerDec
<1>3. PICK v \in {NoRx, <<rx[c][1], "time">>, <<rx[c][1], "rate">>} :
        rx' = [rx EXCEPT ![c] = v]
  BY DEF AnswerDec
<1>4. v \in (Req \cup {NoReq}) \X RxPC /\ v[2] # "dec"
  BY <1>1, <1>3 DEF FlowTypes, NoRx, RxPC
<1>5. /\ rx[c][2] = "dec" /\ UNCHANGED <<win, slot, snd, st, timer, cut, drift>>
      /\ rx' \in [Cli -> (Req \cup {NoReq}) \X RxPC] /\ rx'[c] = v
      /\ \A d \in Cli \ {c} : rx'[d] = rx[d]
  BY <1>1, <1>3, <1>4 DEF AnswerDec, requests, links, FlowTypes
<1>6. FlowTypes' /\ SndInv' /\ WinInv'
  BY <1>1, <1>2, <1>5, SndSame, WinSame DEF FlowTypes
<1>7. ASSUME NEW d \in Cli PROVE res'[d].outMax = Places(d)'
  <2>1. /\ Cardinality(Out(d)') = Cardinality(Out(d)) /\ Cardinality(Decs(d)') = Cardinality(Decs(d))
        /\ InSnd(d)' = InSnd(d) /\ drift'[d] = drift[d]
    BY <1>5, OutSame, DecsSame DEF InSnd
  <2>2. InRx(d)' = InRx(d) - (IF c = d THEN 1 ELSE 0)
    BY <1>4, <1>5 DEF InRx
  <2>3. res'[d].outMax = res[d].outMax - (IF c = d THEN 1 ELSE 0)
    BY <1>2, PartTypes
  <2> QED BY <1>6, <2>1, <2>2, <2>3, PartTypes, DriftStep
<1> QED BY <1>2, <1>6, <1>7 DEF FlowInd, DriftInv

LEMMA KeepAnswerTime == ASSUME FlowInd, NEW c \in Cli, AnswerTime(c) PROVE FlowInd'
<1>1. FlowTypes /\ SndInv /\ WinInv /\ RoomInv
  BY DEF FlowInd
<1>2. PICK t \in Time : win' = [win EXCEPT ![c] = [add_req_response_time(win[c], t)
                                                     EXCEPT !.raced = @ \/ cut[c]]]
  BY DEF AnswerTime
<1> DEFINE w == win[c]
           v == add_req_response_time(w, t)
           b == v.raced \/ cut[c]
           x == [v EXCEPT !.raced = b]
<1>3. t \in Int /\ w \in WinRec /\ cut[c] \in BOOLEAN
  BY <1>1, RateAssumption DEF FlowTypes
<1>4. /\ v \in WinRec /\ v.raced = w.raced
      /\ w.total = Sum(w.time) => v.total = Sum(v.time)
  BY <1>3, WinAdds
<1>5. win' = [win EXCEPT ![c] = x]
  BY <1>2
<1> HIDE DEF v
<1>6. b \in BOOLEAN /\ x \in WinRec /\ x.total = v.total /\ x.time = v.time /\ x.raced = b
  BY <1>3, <1>4 DEF WinRec
<1> HIDE DEF x
<1>7. win' \in [Cli -> WinRec] /\ win'[c] = x /\ \A d \in Cli \ {c} : win'[d] = win[d]
  BY <1>1, <1>5, <1>6 DEF FlowTypes
<1>8. /\ rx[c][2] = "time" /\ UNCHANGED <<res, slot, snd, st, timer, cut, drift>>
      /\ rx' = [rx EXCEPT ![c][2] = "rate"]
  BY DEF AnswerTime, requests, links
<1>9. /\ rx' \in [Cli -> (Req \cup {NoReq}) \X RxPC] /\ rx'[c][2] = "rate"
      /\ \A d \in Cli \ {c} : rx'[d] = rx[d]
  BY <1>1, <1>8 DEF FlowTypes, RxPC
<1>10. FlowTypes' /\ SndInv' /\ RoomInv'
  BY <1>1, <1>7, <1>8, <1>9, SndSame, RoomSame DEF FlowTypes
<1>11. WinInv'
  <2> SUFFICES ASSUME NEW d \in Cli, ~win'[d].raced
               PROVE  win'[d].total = IF cut[d] THEN 0 ELSE Sum(win'[d].time)
    BY <1>8 DEF WinInv
  <2>1. CASE d = c
    <3>1. ~v.raced /\ ~cut[c]
      BY <1>6, <1>7, <2>1
    <3>2. w.total = Sum(w.time)
      BY <1>1, <1>4, <3>1 DEF WinInv
    <3> QED BY <1>4, <1>6, <1>7, <2>1, <3>1, <3>2
  <2>2. CASE d # c
    BY <1>1, <1>7, <2>2 DEF WinInv
  <2> QED BY <2>1, <2>2
<1>12. ASSUME NEW d \in Cli PROVE res'[d].outMax = Places(d)'
  <2>1. /\ Cardinality(Out(d)') = Cardinality(Out(d)) /\ Cardinality(Decs(d)') = Cardinality(Decs(d))
        /\ InSnd(d)' = InSnd(d) /\ drift'[d] = drift[d] /\ res'[d] = res[d]
    BY <1>8, OutSame, DecsSame DEF InSnd
  <2>2. InRx(d)' = InRx(d)
    BY <1>8, <1>9 DEF InRx
  <2> QED BY <1>10, <2>1, <2>2, PartTypes, DriftStep
<1> QED BY <1>10, <1>11, <1>12 DEF FlowInd, DriftInv

LEMMA KeepAnswerRate == ASSUME FlowInd, NEW c \in Cli, AnswerRate(c) PROVE FlowInd'
<1>1. FlowTypes /\ SndInv /\ WinInv /\ RoomInv
  BY DEF FlowInd
<1>4. /\ res' \in [Cli -> ResRec] /\ RoomInv'
      /\ \A d \in Cli : res'[d].outMax = res[d].outMax
  <2>1. CASE UNCHANGED res
    BY <1>1, <2>1, RoomSame DEF FlowTypes
  <2>2. CASE \E m \in FromNN : res' = [res EXCEPT ![c] = update_resource_rate(res[c], m)]
    <3>1. PICK m \in FromNN : res' = [res EXCEPT ![c] = update_resource_rate(res[c], m)]
      BY <2>2
    <3> DEFINE f == update_resource_rate(res[c], m)
    <3>2. f \in ResRec /\ f.outMax = res[c].outMax /\ Room(f)
      BY <1>1, ResFromNN DEF FlowTypes
    <3> HIDE DEF f
    <3> QED BY <1>1, <3>1, <3>2, ResSet DEF f
  <2> QED BY <2>1, <2>2 DEF AnswerRate
<1>5. /\ rx[c][2] = "rate" /\ UNCHANGED <<win, slot, snd, st, timer, cut, drift>>
      /\ rx' = [rx EXCEPT ![c] = NoRx] /\ NoRx[2] = "idle"
      /\ NoRx \in (Req \cup {NoReq}) \X RxPC
  BY DEF AnswerRate, requests, links, NoRx, RxPC
<1>6. FlowTypes' /\ SndInv' /\ WinInv'
  BY <1>1, <1>4, <1>5, SndSame, WinSame DEF FlowTypes
<1>7. ASSUME NEW d \in Cli PROVE res'[d].outMax = Places(d)'
  <2>1. /\ Cardinality(Out(d)') = Cardinality(Out(d)) /\ Cardinality(Decs(d)') = Cardinality(Decs(d))
        /\ InSnd(d)' = InSnd(d) /\ drift'[d] = drift[d]
    BY <1>5, OutSame, DecsSame DEF InSnd
  <2>2. InRx(d)' = InRx(d)
    BY <1>1, <1>5 DEF InRx, FlowTypes
  <2> QED BY <1>4, <1>6, <2>1, <2>2, PartTypes, DriftStep
<1> QED BY <1>4, <1>6, <1>7 DEF FlowInd, DriftInv

LEMMA KeepTimeoutFire == ASSUME FlowInd, NEW r \in Req, TimeoutFire(r) PROVE FlowInd'
<1> DEFINE c == CliOf[r]
<1>1. c \in Cli /\ FlowTypes /\ SndInv /\ WinInv /\ RoomInv
  BY CliAssumption DEF FlowInd
<1>2. /\ timer[r] # "dec" /\ timer' = [timer EXCEPT ![r] = "dec"]
      /\ st' = [st EXCEPT ![r] = "done"] /\ "done" # "out"
      /\ drift' = (IF st[r] = "out" THEN drift ELSE [drift EXCEPT ![c] = @ - 1])
      /\ UNCHANGED <<res, win, slot, snd, rx, cut>>
  BY DEF TimeoutFire, links
<1>3. FlowTypes'
  BY <1>1, <1>2 DEF FlowTypes
<1>4. SndInv' /\ WinInv' /\ RoomInv'
  BY <1>1, <1>2, SndSame, WinSame, RoomSame
<1>5. ASSUME NEW d \in Cli PROVE res'[d].outMax = Places(d)'
  <2>1. Cardinality(Decs(d)') = Cardinality(Decs(d)) + (IF c = d THEN 1 ELSE 0)
    BY ONLY <1>1, <1>2, r \in Req, d \in Cli, DecsGains
  <2>2. InRx(d)' = InRx(d) /\ InSnd(d)' = InSnd(d) /\ res'[d] = res[d]
    BY <1>2 DEF InRx, InSnd
  <2>3. CASE st[r] = "out"
    <3>1. Cardinality(Out(d)') = Cardinality(Out(d)) - (IF c = d THEN 1 ELSE 0)
      BY ONLY <1>1, <1>2, <2>3, r \in Req, d \in Cli, OutLoses
    <3>2. drift'[d] = drift[d]
      BY <1>2, <2>3
    <3> QED BY <1>3, <2>1, <2>2, <3>1, <3>2, PartTypes, DriftStep
  <2>4. CASE st[r] # "out"
    <3>1. Cardinality(Out(d)') = Cardinality(Out(d))
      BY ONLY <1>1, <1>2, <2>4, r \in Req, d \in Cli, OutStays
    <3>2. drift'[d] = drift[d] - (IF c = d THEN 1 ELSE 0)
      BY <1>1, <1>2, <2>4 DEF FlowTypes
    <3> QED BY <1>3, <2>1, <2>2, <3>1, <3>2, PartTypes, DriftStep
  <2> QED BY <2>3, <2>4
<1> QED BY <1>3, <1>4, <1>5 DEF FlowInd, DriftInv

LEMMA KeepTimeoutDec == ASSUME FlowInd, NEW r \in Req, TimeoutDec(r) PROVE FlowInd'
<1> DEFINE c == CliOf[r]
<1>1. c \in Cli /\ FlowTypes /\ SndInv /\ WinInv /\ RoomInv
  BY CliAssumption DEF FlowInd
<1>2. /\ res' \in [Cli -> ResRec] /\ RoomInv' /\ res'[c].outMax = res[c].outMax - 1
      /\ \A d \in Cli \ {c} : res'[d] = res[d]
  BY <1>1, ResGive DEF TimeoutDec
<1>3. /\ timer[r] = "dec" /\ "rate" # "dec" /\ timer' = [timer EXCEPT ![r] = "rate"]
      /\ UNCHANGED <<win, slot, snd, st, rx, cut, drift>>
  BY DEF TimeoutDec, links
<1>4. FlowTypes' /\ SndInv' /\ WinInv'
  BY <1>1, <1>2, <1>3, SndSame, WinSame DEF FlowTypes
<1>5. ASSUME NEW d \in Cli PROVE res'[d].outMax = Places(d)'
  <2>1. Cardinality(Decs(d)') = Cardinality(Decs(d)) - (IF c = d THEN 1 ELSE 0)
    BY ONLY <1>1, <1>3, r \in Req, d \in Cli, DecsLoses
  <2>2. Cardinality(Out(d)') = Cardinality(Out(d))
    BY <1>3, OutSame
  <2>3. InRx(d)' = InRx(d) /\ InSnd(d)' = InSnd(d) /\ drift'[d] = drift[d]
    BY <1>3 DEF InRx, InSnd
  <2>4. res'[d].outMax = res[d].outMax - (IF c = d THEN 1 ELSE 0)
    BY <1>2, PartTypes
  <2> QED BY <1>4, <2>1, <2>2, <2>3, <2>4, PartTypes, DriftStep
<1> QED BY <1>2, <1>4, <1>5 DEF FlowInd, DriftInv

LEMMA KeepTimeoutRate == ASSUME FlowInd, NEW r \in Req, TimeoutRate(r) PROVE FlowInd'
<1> DEFINE c == CliOf[r]
           f == update_res_rate_timeout(res[c])
<1>1. c \in Cli /\ FlowTypes /\ SndInv /\ WinInv /\ RoomInv
  BY CliAssumption DEF FlowInd
<1>2. /\ res' = [res EXCEPT ![c] = f] /\ timer' = [timer EXCEPT ![r] = "off"]
      /\ timer[r] # "dec" /\ "off" # "dec" /\ UNCHANGED <<win, slot, snd, st, rx, cut, drift>>
  BY DEF TimeoutRate, links
<1>3. res[c] \in ResRec /\ Room(res[c])
  BY <1>1 DEF FlowTypes, RoomInv
<1>4. f \in ResRec /\ f.outMax = res[c].outMax /\ Room(f)
  BY <1>3, ResHalved
<1> HIDE DEF f
<1>5. /\ res' \in [Cli -> ResRec] /\ RoomInv'
      /\ \A d \in Cli : res'[d].outMax = res[d].outMax
  BY <1>1, <1>2, <1>4, ResSet
<1>6. FlowTypes' /\ SndInv' /\ WinInv'
  BY <1>1, <1>2, <1>5, SndSame, WinSame DEF FlowTypes
<1>7. ASSUME NEW d \in Cli PROVE res'[d].outMax = Places(d)'
  <2>1. Cardinality(Decs(d)') = Cardinality(Decs(d))
    BY ONLY <1>1, <1>2, r \in Req, d \in Cli, DecsStays
  <2>2. Cardinality(Out(d)') = Cardinality(Out(d))
    BY <1>2, OutSame
  <2>3. InRx(d)' = InRx(d) /\ InSnd(d)' = InSnd(d) /\ drift'[d] = drift[d]
    BY <1>2 DEF InRx, InSnd
  <2> QED BY <1>5, <1>6, <2>1, <2>2, <2>3, PartTypes, DriftStep
<1> QED BY <1>5, <1>6, <1>7 DEF FlowInd, DriftInv

(* A step that keeps what the counters count.                               *)
LEMMA DriftSame ==
  ASSUME FlowInd, FlowTypes', UNCHANGED <<snd, st, rx, timer, drift>>,
         \A d \in Cli : res'[d].outMax = res[d].outMax
  PROVE  DriftInv'
<1> SUFFICES ASSUME NEW d \in Cli PROVE res'[d].outMax = Places(d)'
  BY DEF DriftInv
<1>1. /\ Cardinality(Out(d)') = Cardinality(Out(d)) /\ Cardinality(Decs(d)') = Cardinality(Decs(d))
      /\ InRx(d)' = InRx(d) /\ InSnd(d)' = InSnd(d) /\ drift'[d] = drift[d]
  BY OutSame, DecsSame DEF InRx, InSnd
<1> QED BY <1>1, PartTypes, DriftStep

LEMMA KeepConnLost == ASSUME FlowInd, NEW c \in Cli, ConnLost(c) PROVE FlowInd'
<1>1. FlowTypes /\ SndInv /\ WinInv /\ RoomInv
  BY DEF FlowInd
<1>2. /\ res' = [res EXCEPT ![c].avail = FALSE] /\ cut' = [cut EXCEPT ![c] = TRUE]
      /\ UNCHANGED <<slot, snd, st, rx, timer, drift>>
  BY DEF ConnLost
<1>3. /\ res' \in [Cli -> ResRec] /\ RoomInv'
      /\ \A d \in Cli : res'[d].outMax = res[d].outMax
  BY <1>1, <1>2, ResFlag
<1>4. PICK b \in BOOLEAN : win' = [win EXCEPT ![c].total = 0, ![c].raced = b]
  BY DEF ConnLost
<1>5. /\ win' \in [Cli -> WinRec] /\ win'[c].total = 0
      /\ \A d \in Cli \ {c} : win'[d] = win[d]
  <2>1. win \in [Cli -> WinRec] /\ 0 \in Int
    BY <1>1 DEF FlowTypes
  <2> QED BY <1>4, <2>1 DEF WinRec
<1>6. FlowTypes' /\ SndInv'
  BY <1>1, <1>2, <1>3, <1>5, SndSame DEF FlowTypes
<1>7. WinInv'
  BY <1>1, <1>2, <1>5 DEF WinInv, FlowTypes
<1>8. DriftInv'
  BY <1>2, <1>3, <1>6, DriftSame
<1> QED BY <1>3, <1>6, <1>7, <1>8 DEF FlowInd

(* set_res_available leaves a window whose sum is 0.                        *)
LEMMA EmptyWindow == NoWindow \in [0 .. Num - 1 -> Int] /\ Sum(NoWindow) = 0
<1>1. IsFiniteSet(0 .. Num - 1)
  BY RateAssumption, FS_Interval
<1>2. NoWindow \in [0 .. Num - 1 -> Int] /\ NoWindow = [i \in 0 .. Num - 1 |-> 0]
  BY DEF NoWindow
<1> QED BY ONLY <1>1, <1>2, SumOfZeros

LEMMA KeepAvailable == ASSUME FlowInd, NEW c \in Cli, set_res_available(c) PROVE FlowInd'
<1>1. FlowTypes /\ SndInv /\ WinInv /\ RoomInv
  BY DEF FlowInd
<1>2. /\ cut[c] /\ win' = [win EXCEPT ![c].time = NoWindow] /\ cut' = [cut EXCEPT ![c] = FALSE]
      /\ UNCHANGED <<res, slot, snd, st, timer, rx, drift>>
  BY DEF set_res_available, requests
<1>3. /\ win' \in [Cli -> WinRec] /\ win'[c].total = win[c].total /\ win'[c].time = NoWindow
      /\ win'[c].raced = win[c].raced /\ \A d \in Cli \ {c} : win'[d] = win[d]
  <2>1. win \in [Cli -> WinRec]
    BY <1>1 DEF FlowTypes
  <2> QED BY <1>2, <2>1, EmptyWindow DEF WinRec
<1>4. FlowTypes' /\ SndInv' /\ RoomInv'
  BY <1>1, <1>2, <1>3, SndSame, RoomSame DEF FlowTypes
<1>5. WinInv'
  <2> SUFFICES ASSUME NEW d \in Cli, ~win'[d].raced
               PROVE  win'[d].total = IF cut'[d] THEN 0 ELSE Sum(win'[d].time)
    BY DEF WinInv
  <2>1. CASE d = c
    <3>1. win[c].total = 0 /\ ~cut'[c]
      BY <1>1, <1>2, <1>3, <2>1 DEF WinInv, FlowTypes
    <3> QED BY <1>3, <2>1, <3>1, EmptyWindow
  <2>2. CASE d # c
    BY <1>1, <1>2, <1>3, <2>2 DEF WinInv, FlowTypes
  <2> QED BY <2>1, <2>2
<1>6. DriftInv'
  BY <1>2, <1>4, DriftSame
<1> QED BY <1>4, <1>5, <1>6 DEF FlowInd

LEMMA KeepConnBack == ASSUME FlowInd, NEW c \in Cli, ConnBack(c) PROVE FlowInd'
<1>1. FlowTypes /\ SndInv /\ WinInv /\ RoomInv
  BY DEF FlowInd
<1>2. /\ res' = [res EXCEPT ![c].avail = TRUE]
      /\ st' = [r \in Req |-> IF r \in Out(c) THEN "queued" ELSE st[r]]
      /\ drift' = [drift EXCEPT ![c] = @ + Cardinality(Out(c))]
      /\ UNCHANGED <<win, slot, snd, rx, timer, cut>>
  BY DEF ConnBack, Out, links
<1>3. /\ res' \in [Cli -> ResRec] /\ RoomInv'
      /\ \A d \in Cli : res'[d].outMax = res[d].outMax
  BY <1>1, <1>2, ResFlag
<1>4. Cardinality(Out(c)) \in Nat
  BY PartTypes
<1>5. FlowTypes'
  BY <1>1, <1>2, <1>3, <1>4 DEF FlowTypes
<1>6. SndInv' /\ WinInv'
  BY <1>1, <1>2, SndSame, WinSame
<1>7. ASSUME NEW d \in Cli PROVE res'[d].outMax = Places(d)'
  <2>1. Cardinality(Decs(d)') = Cardinality(Decs(d))
    BY <1>2, DecsSame
  <2>2. InRx(d)' = InRx(d) /\ InSnd(d)' = InSnd(d)
    BY <1>2 DEF InRx, InSnd
  <2>3. CASE d = c
    <3>1. Out(c)' = {}
      BY <1>2 DEF Out
    <3>2. Cardinality(Out(d)') = 0 /\ drift'[d] = drift[d] + Cardinality(Out(d))
      BY <1>1, <1>2, <2>3, <3>1, FS_EmptySet DEF FlowTypes
    <3> QED BY <1>3, <1>5, <2>1, <2>2, <3>2, PartTypes, DriftStep
  <2>4. CASE d # c
    <3>1. Out(d)' = Out(d)
      BY <1>2, <2>4 DEF Out
    <3>2. Cardinality(Out(d)') = Cardinality(Out(d)) /\ drift'[d] = drift[d]
      BY <1>1, <1>2, <2>4, <3>1 DEF FlowTypes
    <3> QED BY <1>3, <1>5, <2>1, <2>2, <3>2, PartTypes, DriftStep
  <2> QED BY <2>3, <2>4
<1> QED BY <1>3, <1>5, <1>6, <1>7 DEF FlowInd, DriftInv

LEMMA KeepTick == ASSUME FlowInd, NEW c \in Cli, Tick(c) PROVE FlowInd'
<1>1. FlowTypes /\ SndInv /\ WinInv /\ RoomInv
  BY DEF FlowInd
<1>2. /\ res' \in [Cli -> ResRec] /\ RoomInv' /\ slot' \in [Cli -> {"start", "in", "over"}]
      /\ \A d \in Cli : res'[d].outMax = res[d].outMax
  BY <1>1, ResTick
<1>3. UNCHANGED <<win, snd, st, timer, rx, cut, drift>>
  BY DEF Tick, requests, links
<1>4. FlowTypes' /\ SndInv' /\ WinInv'
  BY <1>1, <1>2, <1>3, SndSame, WinSame DEF FlowTypes
<1>5. DriftInv'
  BY <1>2, <1>3, <1>4, DriftSame
<1> QED BY <1>2, <1>4, <1>5 DEF FlowInd

LEMMA KeepConfig == ASSUME FlowInd, set_config_item PROVE FlowInd'
<1>1. UNCHANGED <<res, win, slot, snd, st, rx, timer, cut, drift>>
  BY DEF set_config_item, requests
<1>2. FlowTypes' /\ SndInv' /\ WinInv' /\ RoomInv'
  BY <1>1, SndSame, WinSame, RoomSame DEF FlowInd, FlowTypes
<1>3. \A d \in Cli : res'[d].outMax = res[d].outMax
  BY <1>1
<1>4. DriftInv'
  BY <1>1, <1>2, <1>3, DriftSame
<1> QED BY <1>2, <1>4 DEF FlowInd

-----------------------------------------------------------------------------
(* It holds at first, and whatever step is taken.                           *)
LEMMA FlowInit == Init => FlowInd
<1> SUFFICES ASSUME Init PROVE FlowInd
  OBVIOUS
<1>1. create_resource_item \in ResRec /\ Room(create_resource_item)
      /\ create_resource_item.outMax = 0
  BY RateAssumption DEF create_resource_item, ResRec, Room
<1>2. Resting \in SndRec /\ Resting.pc = "idle"
  BY DEF Resting, SndAt, SndRec, SndPC
<1>3. NoRx \in (Req \cup {NoReq}) \X RxPC /\ NoRx[2] = "idle"
  BY DEF NoRx, RxPC
<1> DEFINE w == [time |-> NoWindow, index |-> 0, total |-> 0, ready |-> FALSE, raced |-> FALSE]
<1>4. w \in WinRec /\ w.total = Sum(w.time)
  <2>1. 0 \in 0 .. Num - 1 /\ 0 \in Int
    BY RateAssumption
  <2>2. w \in WinRec
    BY <2>1, EmptyWindow DEF WinRec
  <2>3. w.total = 0 /\ w.time = NoWindow
    OBVIOUS
  <2> QED BY <2>2, <2>3, EmptyWindow
<1>5. win = [c \in Cli |-> w]
  BY DEF Init
<1> HIDE DEF w
<1>6. FlowTypes
  <2>1. res \in [Cli -> ResRec]
    BY <1>1 DEF Init
  <2>2. win \in [Cli -> WinRec]
    BY <1>4, <1>5
  <2>3. snd \in [Cli -> SndRec]
    BY <1>2 DEF Init
  <2>4. rx \in [Cli -> (Req \cup {NoReq}) \X RxPC]
    BY <1>3 DEF Init
  <2>5. /\ slot \in [Cli -> {"start", "in", "over"}]
        /\ st \in [Req -> {"none", "queued", "sending", "out", "done"}]
        /\ timer \in [Req -> {"on", "dec", "rate", "off"}]
        /\ cut \in [Cli -> BOOLEAN] /\ drift \in [Cli -> Int]
    BY DEF Init
  <2> QED BY <2>1, <2>2, <2>3, <2>4, <2>5 DEF FlowTypes
<1>7. SndInv /\ RoomInv
  BY <1>1, <1>2 DEF Init, SndInv, RoomInv
<1>8. WinInv
  BY <1>4, <1>5 DEF Init, WinInv
<1>9. ASSUME NEW c \in Cli PROVE res[c].outMax = Places(c)
  <2>1. Out(c) = {} /\ Decs(c) = {}
    BY DEF Init, Out, Decs
  <2>2. Cardinality(Out(c)) = 0 /\ Cardinality(Decs(c)) = 0
    BY <2>1, FS_EmptySet
  <2>3. InRx(c) = 0 /\ InSnd(c) = 0 /\ drift[c] = 0 /\ res[c].outMax = 0
    BY <1>1, <1>2, <1>3 DEF Init, InRx, InSnd
  <2> QED BY <2>2, <2>3 DEF Places
<1> QED BY <1>6, <1>7, <1>8, <1>9 DEF FlowInd, DriftInv

LEMMA FlowStutter == ASSUME FlowInd, UNCHANGED vars PROVE FlowInd'
<1>1. FlowTypes' /\ SndInv' /\ WinInv' /\ RoomInv'
  BY SndSame, WinSame, RoomSame DEF FlowInd, FlowTypes, vars
<1>2. \A d \in Cli : res'[d].outMax = res[d].outMax
  BY DEF vars
<1>3. DriftInv'
  BY <1>1, <1>2, DriftSame DEF vars
<1> QED BY <1>1, <1>3 DEF FlowInd

LEMMA FlowNext == FlowInd /\ [Next]_vars => FlowInd'
<1> SUFFICES ASSUME FlowInd, [Next]_vars PROVE FlowInd'
  OBVIOUS
<1>1. CASE UNCHANGED vars
  BY <1>1, FlowStutter
<1>2. ASSUME NEW r \in Req, Submit(r) \/ Peek(r) \/ Answer(r) \/ TimerStep(r) PROVE FlowInd'
  <2>1. CASE Submit(r)
    BY <2>1, KeepSubmit
  <2>2. CASE Peek(r)
    BY <2>2, KeepPeek
  <2>3. CASE Answer(r)
    BY <2>3, KeepAnswer
  <2>4. CASE TimeoutFire(r)
    BY <2>4, KeepTimeoutFire
  <2>5. CASE TimeoutDec(r)
    BY <2>5, KeepTimeoutDec
  <2>6. CASE TimeoutRate(r)
    BY <2>6, KeepTimeoutRate
  <2> QED BY <1>2, <2>1, <2>2, <2>3, <2>4, <2>5, <2>6 DEF TimerStep
<1>3. ASSUME NEW c \in Cli, SenderStep(c) PROVE FlowInd'
  <2>1. CASE alloc_res_no_fc(c)
    BY <2>1, KeepNoFc
  <2>2. CASE should_trigger_fc(c)
    BY <2>2, KeepTrigger
  <2>3. CASE alloc_res(c)
    BY <2>3, KeepAlloc
  <2>4. CASE AllocUndo(c)
    BY <2>4, KeepUndo
  <2>5. CASE do_flow_control(c)
    BY <2>5, KeepWait
  <2>6. CASE SendDone(c)
    BY <2>6, KeepSendDone
  <2> QED BY <1>3, <2>1, <2>2, <2>3, <2>4, <2>5, <2>6 DEF SenderStep
<1>4. ASSUME NEW c \in Cli, RxStep(c) \/ Tick(c) \/ Link(c) \/ ConnLost(c) PROVE FlowInd'
  <2>1. CASE AnswerDec(c)
    BY <2>1, KeepAnswerDec
  <2>2. CASE AnswerTime(c)
    BY <2>2, KeepAnswerTime
  <2>3. CASE AnswerRate(c)
    BY <2>3, KeepAnswerRate
  <2>4. CASE Tick(c)
    BY <2>4, KeepTick
  <2>5. CASE set_res_available(c)
    BY <2>5, KeepAvailable
  <2>6. CASE ConnBack(c)
    BY <2>6, KeepConnBack
  <2>7. CASE ConnLost(c)
    BY <2>7, KeepConnLost
  <2> QED BY <1>4, <2>1, <2>2, <2>3, <2>4, <2>5, <2>6, <2>7 DEF RxStep, Link
<1>5. CASE set_config_item
  BY <1>5, KeepConfig
<1> QED BY <1>1, <1>2, <1>3, <1>4, <1>5 DEF Next

(* What the invariant says of the numbers flow control decides by.          *)
LEMMA IndIsFlow == FlowInd => FlowInv
<1> SUFFICES ASSUME FlowInd PROVE FlowInv
  OBVIOUS
<1>1. DriftIsExplained
  <2> SUFFICES ASSUME NEW c \in Cli PROVE res[c].outMax = Holders(c) + drift[c]
    BY DEF DriftIsExplained
  <2>1. Holders(c) = Cardinality(Out(c)) + Cardinality(Decs(c)) + InRx(c) + InSnd(c)
    BY DEF Holders, Out, Decs, InRx, InSnd
  <2>2. res[c].outMax = Places(c)
    BY DEF FlowInd, DriftInv
  <2> QED BY <2>1, <2>2, PartTypes DEF Places
<1>2. TotalIsWindow
  BY DEF FlowInd, WinInv, TotalIsWindow, Sum
<1>3. AlwaysRoom
  BY DEF FlowInd, RoomInv, Room, AlwaysRoom
<1> QED BY <1>1, <1>2, <1>3 DEF FlowInv

-----------------------------------------------------------------------------
(***************************************************************************)
(* For any clients, requests, window and limits: in every reachable state   *)
(* alloc_out_res_max counts the requests that hold a place up to the four   *)
(* named kinds of drift (alloc_res, dec_res_rate_max_reqs), the total of    *)
(* the response times is the sum of the window unless a loss overlapped an  *)
(* answer (add_req_response_time, set_res_available), and the limits leave  *)
(* room for a request (update_res_rate_timeout, update_resource_rate).      *)
(***************************************************************************)
THEOREM FlowIsRight == Spec => []FlowInv
<1>1. Init => FlowInd
  BY FlowInit
<1>2. FlowInd /\ [Next]_vars => FlowInd'
  BY FlowNext
<1>3. FlowInd => FlowInv
  BY IndIsFlow
<1> QED BY <1>1, <1>2, <1>3, PTL DEF Spec
=============================================================================
