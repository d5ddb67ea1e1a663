--------------------------- MODULE IOWorkerProofs ---------------------------
(***************************************************************************)
(* Proofs about IOWorker, for any volumes, requests, orders of arrival, any *)
(* number of workers and of contexts of the request function, merging on or *)
(* off, and any failures.                                                   *)
(*                                                                          *)
(* OneHolder is not inductive.  A volume changes hands without its list     *)
(* being locked, and a worker that finds the list empty when it takes       *)
(* requests goes away without touching the activity state: the volume would *)
(* stay Active with nobody, and be forgotten.  So the invariant says when   *)
(* the list cannot be empty, and that a volume is Active exactly while      *)
(* somebody has it.                                                         *)
(***************************************************************************)
EXTENDS IOWorker, WellFoundedInduction, FiniteSetTheorems, SequenceTheorems, TLAPS

FnPC == {"idle", "nolock", "got", "flush", "enq", "wake"}
WkPC == {"wait", "deq", "io", "putback", "done", "chk", "more", "leave", "requeue"}

FnOne(x) == /\ x = [pc |-> x.pc, rq |-> x.rq, seen |-> x.seen]
            /\ x.pc \in FnPC
            /\ x.pc \notin {"idle", "nolock"} => x.rq \in Rq

WkOne(x) == /\ x = [pc |-> x.pc, vol |-> x.vol, batch |-> x.batch, idx |-> x.idx,
                    sect |-> x.sect, remain |-> x.remain]
            /\ x.pc \in WkPC /\ x.batch \in Seq(Rq) /\ x.remain \in BOOLEAN
            /\ x.pc # "wait" => x.vol \in Vol
            /\ x.pc \in {"io", "putback"} => x.idx \in 1 .. Len(x.batch)

TypeInv ==
  /\ fresh \in Seq(Rq)
  /\ fn = [f \in Fn |-> fn[f]] /\ \A f \in Fn : FnOne(fn[f])
  /\ wk = [w \in Wker |-> wk[w]] /\ \A w \in Wker : WkOne(wk[w])
  /\ list \in [Vol -> Seq(Rq)] /\ cnt_rqs = [v \in Vol |-> Len(list[v])]
  /\ act_stat \in [Vol -> {"Active", "Deactive"}] /\ active \in Seq(Vol)

(* Who has a volume: the active list, a worker, or a context about to list  *)
(* it.                                                                      *)
Listed(v)   == \E i \in 1 .. Len(active) : active[i] = v
With(w, v)  == wk[w].pc # "wait" /\ wk[w].vol = v
Wakes(f, v) == fn[f].pc = "wake" /\ rq[fn[f].rq].vol = v
Enqs(f, v)  == fn[f].pc = "enq" /\ rq[fn[f].rq].vol = v

Sure(x) == x.pc \in {"deq", "more", "requeue"} \/ (x.pc = "chk" /\ x.remain)

OneHas(v) ==
  /\ \A w, x \in Wker : With(w, v) /\ With(x, v) => w = x
  /\ \A f, g \in Fn : Wakes(f, v) /\ Wakes(g, v) => f = g
  /\ \A w \in Wker, f \in Fn : ~(With(w, v) /\ Wakes(f, v))
  /\ \A w \in Wker : ~(With(w, v) /\ Listed(v))
  /\ \A f \in Fn : ~(Wakes(f, v) /\ Listed(v))

Known(v) ==
  /\ act_stat[v] = "Active" <=> \/ Listed(v) \/ \E w \in Wker : With(w, v)
                                \/ \E f \in Fn : Wakes(f, v)
  /\ Listed(v) => list[v] # <<>>
  /\ \A f \in Fn : Wakes(f, v) => list[v] # <<>>
  /\ \A w \in Wker : With(w, v) /\ Sure(wk[w]) => list[v] # <<>>
  /\ list[v] # <<>> /\ act_stat[v] = "Deactive" => \E f \in Fn : Enqs(f, v)

OnceListed == \A i, j \in 1 .. Len(active) : active[i] = active[j] => i = j

HoldInv == TypeInv /\ OnceListed /\ \A v \in Vol : OneHas(v) /\ Known(v)

-----------------------------------------------------------------------------
(* Every set of natural numbers that is not empty has a least element, and  *)
(* a greatest one when it is bounded.                                       *)
LEMMA NatMin ==
  ASSUME NEW T \in SUBSET Nat, T # {}
  PROVE  \E x \in T : \A y \in T : x <= y
<1> DEFINE R == OpToRel(<, Nat)
<1>1. IsWellFoundedOn(R, Nat)
  BY NatLessThanWellFounded
<1>2. \A x, y \in Nat : <<y, x>> \in R <=> y < x
  BY DEF OpToRel
<1> HIDE DEF R
<1>3. PICK x \in T : \A y \in T : ~(<<y, x>> \in R)
  BY <1>1, WFMin
<1>4. x \in Nat /\ \A y \in T : y \in Nat /\ ~(y < x)
  BY <1>2, <1>3
<1>5. \A y \in T : x <= y
  BY <1>4
<1> QED BY <1>5

LEMMA MaxOfBounded ==
  ASSUME NEW i \in Nat, NEW n \in Nat, NEW T \in SUBSET (i .. n), T # {}
  PROVE  Max(T) \in T /\ \A y \in T : y <= Max(T)
<1> DEFINE D == {d \in Nat : n - d \in T}
<1>1. D # {}
  <2>1. PICK t \in T : TRUE
    OBVIOUS
  <2>2. n - t \in Nat /\ n - (n - t) = t
    OBVIOUS
  <2> QED BY <2>2
<1>2. PICK d \in D : \A e \in D : d <= e
  BY <1>1, NatMin
<1>3. n - d \in T /\ \A y \in T : y <= n - d
  <2>1. ASSUME NEW y \in T PROVE y <= n - d
    <3>1. n - y \in Nat /\ n - (n - y) = y
      OBVIOUS
    <3>2. n - y \in D
      BY <3>1
    <3>3. d \in Nat /\ y \in i .. n
      BY <1>2
    <3>4. d <= n - y
      <4> HIDE DEF D
      <4> QED BY <1>2, <3>2
    <3> QED BY <3>3, <3>4
  <2> QED BY <1>2, <2>1
<1>4. \E x \in T : \A y \in T : x >= y
  BY <1>3
<1>5. Max(T) \in T /\ \A y \in T : Max(T) >= y
  BY <1>4 DEF Max
<1> QED BY <1>5

LEMMA MinOfTwo ==
  ASSUME NEW a \in Int, NEW b \in Int
  PROVE  Min({a, b}) = IF a <= b THEN a ELSE b
<1>1. \E x \in {a, b} : \A y \in {a, b} : x =< y
  OBVIOUS
<1>2. Min({a, b}) \in {a, b} /\ \A y \in {a, b} : Min({a, b}) =< y
  BY <1>1 DEF Min
<1> QED BY <1>2

(* The part of a list from i to j.                                          *)
LEMMA PartOfList ==
  ASSUME NEW b \in Seq(Rq), NEW i \in Nat \ {0}, NEW j \in 0 .. Len(b), i <= j + 1
  PROVE  SubSeq(b, i, j) \in Seq(Rq) /\ Len(SubSeq(b, i, j)) = j - i + 1
<1>1. \A k \in i .. j : b[k] \in Rq
  OBVIOUS
<1>2. SubSeq(b, i, j) \in Seq(Rq) /\ Len(SubSeq(b, i, j)) = IF i <= j THEN j - i + 1 ELSE 0
  BY <1>1, SubSeqProperties
<1> QED BY <1>2

(* The merged requests end within the batch.                                *)
LEMMA MergeEndInBatch ==
  ASSUME NEW b \in Seq(Rq), NEW i \in 1 .. Len(b), NEW s
  PROVE  MergeEnd(b, i, s) \in i .. Len(b)
<1> DEFINE T == {k \in i .. Len(b) : k = i \/ Joins(b, i, s, k)}
<1>1. i \in Nat /\ Len(b) \in Nat /\ i \in T /\ T \in SUBSET (i .. Len(b))
  OBVIOUS
<1> HIDE DEF T
<1>2. Max(T) \in T
  BY <1>1, MaxOfBounded
<1> QED BY <1>1, <1>2 DEF MergeEnd, T

-----------------------------------------------------------------------------
(* A context or a worker moves on and the others stay.                      *)
LEMMA FnSet ==
  ASSUME TypeInv, NEW f \in Fn, NEW x, FnOne(x), fn' = [fn EXCEPT ![f] = x]
  PROVE  /\ fn' = [g \in Fn |-> fn'[g]] /\ \A g \in Fn : FnOne(fn'[g])
         /\ fn'[f] = x /\ \A g \in Fn \ {f} : fn'[g] = fn[g]
BY DEF TypeInv

LEMMA WkSet ==
  ASSUME TypeInv, NEW w \in Wker, NEW x, WkOne(x), wk' = [wk EXCEPT ![w] = x]
  PROVE  /\ wk' = [y \in Wker |-> wk'[y]] /\ \A y \in Wker : WkOne(wk'[y])
         /\ wk'[w] = x /\ \A y \in Wker \ {w} : wk'[y] = wk[y]
BY DEF TypeInv

LEMMA FnGoes ==
  ASSUME TypeInv, NEW f \in Fn, NEW p \in FnPC, Go(f, p),
         p \notin {"idle", "nolock"} => fn[f].rq \in Rq
  PROVE  /\ fn' = [g \in Fn |-> fn'[g]] /\ \A g \in Fn : FnOne(fn'[g])
         /\ fn'[f].pc = p /\ (p \notin {"idle", "nolock"} => fn'[f].rq = fn[f].rq)
         /\ \A g \in Fn \ {f} : fn'[g] = fn[g]
<1>1. CASE p \in {"idle", "nolock"}
  <2>1. FnOne(Idle(p)) /\ Idle(p).pc = p
    BY <1>1 DEF FnOne, Idle, FnPC
  <2>2. fn' = [fn EXCEPT ![f] = Idle(p)]
    BY <1>1 DEF Go
  <2> QED BY <1>1, <2>1, <2>2, FnSet
<1>2. CASE p \notin {"idle", "nolock"}
  <2> DEFINE y == [pc |-> p, rq |-> fn[f].rq, seen |-> fn[f].seen]
  <2>1. FnOne(y) /\ y.pc = p /\ y.rq = fn[f].rq
    BY <1>2 DEF FnOne
  <2>2. fn' = [fn EXCEPT ![f] = [fn[f] EXCEPT !.pc = p]]
    BY <1>2 DEF Go
  <2>3. [fn[f] EXCEPT !.pc = p] = y
    BY DEF TypeInv, FnOne
  <2> HIDE DEF y
  <2>4. fn' = [fn EXCEPT ![f] = y]
    BY <2>2, <2>3
  <2> QED BY <2>1, <2>4, FnSet
<1> QED BY <1>1, <1>2

LEMMA WkGoes ==
  ASSUME TypeInv, NEW w \in Wker, wk[w].pc # "wait", NEW p \in WkPC \ {"wait", "io"}, WGo(w, p),
         p = "putback" => wk[w].pc = "io"
  PROVE  /\ wk' = [y \in Wker |-> wk'[y]] /\ \A y \in Wker : WkOne(wk'[y])
         /\ wk'[w].pc = p /\ wk'[w].vol = wk[w].vol /\ wk'[w].remain = wk[w].remain
         /\ \A y \in Wker \ {w} : wk'[y] = wk[y]
<1> DEFINE x == wk[w]
           y == [pc |-> p, vol |-> x.vol, batch |-> x.batch, idx |-> x.idx, sect |-> x.sect,
                 remain |-> x.remain]
<1>1. WkOne(x)
  BY DEF TypeInv
<1>2. WkOne(y) /\ y.pc = p /\ y.vol = x.vol /\ y.remain = x.remain
  BY <1>1 DEF WkOne
<1>3. [x EXCEPT !.pc = p] = y
  BY <1>1 DEF WkOne
<1>4. wk' = [wk EXCEPT ![w] = [x EXCEPT !.pc = p]]
  BY DEF WGo
<1> HIDE DEF y
<1>5. wk' = [wk EXCEPT ![w] = y]
  BY <1>3, <1>4
<1> QED BY <1>2, <1>5, WkSet

LEMMA WkBatch ==
  ASSUME TypeInv, NEW w \in Wker, wk[w].pc # "wait", NEW p \in {"io", "done"},
         NEW b \in Seq(Rq), NEW i, NEW s, p = "io" => i \in 1 .. Len(b), WBatch(w, p, b, i, s)
  PROVE  /\ wk' = [y \in Wker |-> wk'[y]] /\ \A y \in Wker : WkOne(wk'[y])
         /\ wk'[w].pc = p /\ wk'[w].vol = wk[w].vol
         /\ \A y \in Wker \ {w} : wk'[y] = wk[y]
<1> DEFINE y == [pc |-> p, vol |-> wk[w].vol, batch |-> b, idx |-> i, sect |-> s,
                 remain |-> wk[w].remain]
<1>1. WkOne(y) /\ y.pc = p /\ y.vol = wk[w].vol
  BY DEF TypeInv, WkOne, WkPC
<1>2. wk' = [wk EXCEPT ![w] = y]
  BY DEF WBatch
<1> HIDE DEF y
<1> QED BY <1>1, <1>2, WkSet

LEMMA WkAt ==
  ASSUME TypeInv, NEW w \in Wker, NEW p \in WkPC \ {"io", "putback"}, NEW v,
         p # "wait" => v \in Vol, NEW m \in BOOLEAN, wk' = [wk EXCEPT ![w] = At(p, v, m)]
  PROVE  /\ wk' = [y \in Wker |-> wk'[y]] /\ \A y \in Wker : WkOne(wk'[y])
         /\ wk'[w].pc = p /\ wk'[w].vol = v /\ wk'[w].remain = m
         /\ \A y \in Wker \ {w} : wk'[y] = wk[y]
<1>1. <<>> \in Seq(Rq)
  OBVIOUS
<1>2. WkOne(At(p, v, m)) /\ At(p, v, m).pc = p /\ At(p, v, m).vol = v /\ At(p, v, m).remain = m
  BY <1>1 DEF WkOne, At
<1> QED BY <1>2, WkSet

(* The active list as a set.                                                *)
LEMMA ListedIsRange ==
  ASSUME TypeInv, NEW v PROVE v \in Range(active) <=> Listed(v)
<1>1. DOMAIN active = 1 .. Len(active)
  BY DEF TypeInv
<1> QED BY <1>1 DEF Range, Listed

LEMMA EnqActive ==
  ASSUME TypeInv, OnceListed, NEW v \in Vol, ~Listed(v), enq_vol_active_list(v)
  PROVE  /\ active' \in Seq(Vol) /\ OnceListed'
         /\ Listed(v)' /\ \A u \in Vol \ {v} : Listed(u)' <=> Listed(u)
<1>1. active \in Seq(Vol) /\ active' = Append(active, v)
  BY ListedIsRange DEF enq_vol_active_list, TypeInv
<1>2. /\ active' \in Seq(Vol) /\ Len(active') = Len(active) + 1
      /\ \A i \in 1 .. Len(active) : active'[i] = active[i]
      /\ active'[Len(active) + 1] = v /\ Len(active) \in Nat
  BY <1>1
<1>3. OnceListed'
  BY <1>2 DEF OnceListed, Listed
<1>4. Listed(v)'
  BY <1>2 DEF Listed
<1>5. ASSUME NEW u \in Vol \ {v} PROVE Listed(u)' <=> Listed(u)
  BY <1>2 DEF Listed
<1> QED BY <1>2, <1>3, <1>4, <1>5

LEMMA DeqActive ==
  ASSUME TypeInv, OnceListed, active # <<>>, active' = Tail(active), NEW v, v = Head(active)
  PROVE  /\ v \in Vol /\ Listed(v) /\ active' \in Seq(Vol) /\ OnceListed'
         /\ ~Listed(v)'
         /\ \A u \in Vol \ {v} : Listed(u)' <=> Listed(u)
<1>1. active \in Seq(Vol) /\ Len(active) \in Nat /\ Len(active) > 0
  BY DEF TypeInv
<1>2. /\ v = active[1] /\ v \in Vol
      /\ active' \in Seq(Vol) /\ Len(active') = Len(active) - 1
      /\ \A i \in 1 .. Len(active) - 1 : active'[i] = active[i + 1]
  BY <1>1
<1>3. Listed(v)
  BY <1>1, <1>2 DEF Listed
<1>4. OnceListed'
  <2> SUFFICES ASSUME NEW i \in 1 .. Len(active'), NEW j \in 1 .. Len(active'),
                      active'[i] = active'[j]
               PROVE  i = j
    BY DEF OnceListed
  <2>1. i + 1 \in 1 .. Len(active) /\ j + 1 \in 1 .. Len(active) /\ active[i + 1] = active[j + 1]
    BY <1>1, <1>2
  <2> QED BY <2>1 DEF OnceListed
<1>5. ~Listed(v)'
  <2> SUFFICES ASSUME NEW i \in 1 .. Len(active'), active'[i] = active[1] PROVE FALSE
    BY <1>2 DEF Listed
  <2>1. i + 1 \in 1 .. Len(active) /\ active[i + 1] = active[1] /\ 1 \in 1 .. Len(active)
    BY <1>1, <1>2
  <2> QED BY <2>1 DEF OnceListed
<1>6. ASSUME NEW u \in Vol \ {v} PROVE Listed(u)' <=> Listed(u)
  <2>1. ASSUME NEW i \in 1 .. Len(active), active[i] = u PROVE Listed(u)'
    <3>1. i - 1 \in 1 .. Len(active') /\ active'[i - 1] = active[i]
      BY <1>1, <1>2, <2>1
    <3> QED BY <2>1, <3>1 DEF Listed
  <2>2. ASSUME NEW i \in 1 .. Len(active'), active'[i] = u PROVE Listed(u)
    <3>1. i + 1 \in 1 .. Len(active) /\ active[i + 1] = active'[i]
      BY <1>1, <1>2, <2>2
    <3> QED BY <2>2, <3>1 DEF Listed
  <2> QED BY <2>1, <2>2 DEF Listed
<1> QED BY <1>2, <1>3, <1>4, <1>5, <1>6

-----------------------------------------------------------------------------
(* What keeps the two facts about a volume: the same ones have it, and its  *)
(* list is not empty where it must not be.                                  *)
LEMMA SameHolder ==
  ASSUME NEW u \in Vol, OneHas(u), Known(u), act_stat'[u] = act_stat[u],
         Listed(u)' <=> Listed(u),
         \A w \in Wker : With(w, u)' <=> With(w, u),
         \A f \in Fn : Wakes(f, u)' <=> Wakes(f, u),
         Listed(u) => list'[u] # <<>>,
         \A f \in Fn : Wakes(f, u) => list'[u] # <<>>,
         \A w \in Wker : With(w, u) /\ Sure(wk'[w]) => list'[u] # <<>>,
         list'[u] # <<>> /\ act_stat[u] = "Deactive" => \E f \in Fn : Enqs(f, u)'
  PROVE  OneHas(u)' /\ Known(u)'
<1>1. OneHas(u)'
  BY DEF OneHas
<1>2. Known(u)'
  BY DEF Known
<1> QED BY <1>1, <1>2

(* A context of the request function that neither takes nor gives a volume. *)
LEMMA FnMove ==
  ASSUME HoldInv, NEW f \in Fn, fn[f].pc # "wake", fn'[f].pc # "wake",
         \A g \in Fn \ {f} : fn'[g] = fn[g], UNCHANGED <<wk, active, act_stat>>,
         \A u \in Vol : list[u] # <<>> => list'[u] # <<>>,
         \A u \in Vol : list'[u] # <<>> /\ act_stat[u] = "Deactive" =>
                          (list[u] # <<>> /\ ~Enqs(f, u)) \/ Enqs(f, u)'
  PROVE  OnceListed' /\ \A u \in Vol : OneHas(u)' /\ Known(u)'
<1>1. OnceListed'
  BY DEF HoldInv, OnceListed
<1>2. ASSUME NEW u \in Vol PROVE OneHas(u)' /\ Known(u)'
  <2>1. OneHas(u) /\ Known(u)
    BY DEF HoldInv
  <2>2. (Listed(u)' <=> Listed(u)) /\ \A w \in Wker : With(w, u)' <=> With(w, u)
    BY DEF Listed, With
  <2>3. \A g \in Fn : Wakes(g, u)' <=> Wakes(g, u)
    BY DEF Wakes
  <2>4. list'[u] # <<>> /\ act_stat[u] = "Deactive" => \E g \in Fn : Enqs(g, u)'
    <3> SUFFICES ASSUME list'[u] # <<>>, act_stat[u] = "Deactive", list[u] # <<>>, ~Enqs(f, u)
                 PROVE  \E g \in Fn : Enqs(g, u)'
      OBVIOUS
    <3>1. PICK g \in Fn : Enqs(g, u)
      BY <2>1 DEF Known
    <3>2. Enqs(g, u)'
      BY <3>1 DEF Enqs
    <3> QED BY <3>2
  <2>5. /\ Listed(u) => list'[u] # <<>>
        /\ \A g \in Fn : Wakes(g, u) => list'[u] # <<>>
        /\ \A w \in Wker : With(w, u) /\ Sure(wk'[w]) => list'[u] # <<>>
    BY <2>1 DEF Known
  <2> QED BY <2>1, <2>2, <2>3, <2>4, <2>5, SameHolder
<1> QED BY <1>1, <1>2

(* A worker that keeps its volume.                                          *)
LEMMA WkMove ==
  ASSUME HoldInv, NEW w \in Wker, NEW v, v = wk[w].vol, wk[w].pc # "wait",
         wk'[w].pc # "wait", wk'[w].vol = v,
         \A x \in Wker \ {w} : wk'[x] = wk[x], UNCHANGED <<fn, active, act_stat>>,
         \A u \in Vol \ {v} : list'[u] = list[u],
         Sure(wk'[w]) => list'[v] # <<>>
  PROVE  OnceListed' /\ \A u \in Vol : OneHas(u)' /\ Known(u)'
<1>1. OnceListed'
  BY DEF HoldInv, OnceListed
<1>2. ASSUME NEW u \in Vol PROVE OneHas(u)' /\ Known(u)'
  <2>1. OneHas(u) /\ Known(u)
    BY DEF HoldInv
  <2>2. (Listed(u)' <=> Listed(u)) /\ \A f \in Fn : Wakes(f, u)' <=> Wakes(f, u)
    BY DEF Listed, Wakes
  <2>3. \A x \in Wker : With(x, u)' <=> With(x, u)
    BY DEF With
  <2>4. CASE u = v
    <3>1. With(w, u)
      BY <2>4 DEF With
    <3>2. ~Listed(u) /\ (\A f \in Fn : ~Wakes(f, u)) /\ \A x \in Wker : With(x, u) => x = w
      BY <2>1, <3>1 DEF OneHas
    <3>3. act_stat[u] = "Active"
      BY <2>1, <3>1 DEF Known
    <3> QED BY <2>1, <2>2, <2>3, <2>4, <3>2, <3>3, SameHolder
  <2>5. CASE u # v
    <3>1. list'[u] = list[u]
      BY <2>5
    <3>2. \A x \in Wker : With(x, u) /\ Sure(wk'[x]) => With(x, u) /\ Sure(wk[x])
      BY <2>5 DEF With
    <3>3. list'[u] # <<>> /\ act_stat[u] = "Deactive" => \E f \in Fn : Enqs(f, u)'
      BY <2>1, <3>1 DEF Known, Enqs
    <3>4. /\ Listed(u) => list'[u] # <<>>
          /\ \A g \in Fn : Wakes(g, u) => list'[u] # <<>>
          /\ \A x \in Wker : With(x, u) /\ Sure(wk'[x]) => list'[u] # <<>>
      BY <2>1, <3>1, <3>2 DEF Known
    <3> QED BY <2>1, <2>2, <2>3, <3>3, <3>4, SameHolder
  <2> QED BY <2>4, <2>5
<1> QED BY <1>1, <1>2

-----------------------------------------------------------------------------
(* Each step of a context of the request function.                          *)
LEMMA KeepFetchRq == ASSUME HoldInv, NEW f \in Fn, FetchRq(f) PROVE HoldInv'
<1> DEFINE x == [pc |-> "got", rq |-> Head(fresh), seen |-> {}]
<1>1. Head(fresh) \in Rq /\ fresh' \in Seq(Rq)
  BY DEF HoldInv, TypeInv, FetchRq
<1>2. FnOne(x) /\ x.pc = "got"
  BY <1>1 DEF FnOne, FnPC
<1>3. fn' = [fn EXCEPT ![f] = x]
  BY DEF FetchRq
<1> HIDE DEF x
<1>4. /\ fn' = [g \in Fn |-> fn'[g]] /\ \A g \in Fn : FnOne(fn'[g])
      /\ fn'[f] = x /\ \A g \in Fn \ {f} : fn'[g] = fn[g]
  BY <1>2, <1>3, FnSet DEF HoldInv
<1>5. UNCHANGED <<wk, active, act_stat, list, cnt_rqs>>
  BY DEF FetchRq, queue
<1>6. TypeInv'
  BY <1>1, <1>4, <1>5 DEF HoldInv, TypeInv
<1>7. fn[f].pc # "wake" /\ \A u \in Vol : ~Enqs(f, u)
  BY DEF FetchRq, Enqs
<1>8. OnceListed' /\ \A u \in Vol : OneHas(u)' /\ Known(u)'
  BY <1>2, <1>4, <1>5, <1>7, FnMove
<1> QED BY <1>6, <1>8 DEF HoldInv

LEMMA KeepStartFlush == ASSUME HoldInv, NEW f \in Fn, StartFlush(f) PROVE HoldInv'
<1> DEFINE x == [pc |-> "flush", rq |-> fn[f].rq, seen |-> Pending(rq[fn[f].rq].vol)]
<1>1. FnOne(fn[f]) /\ fn[f].pc = "got"
  BY DEF HoldInv, TypeInv, StartFlush
<1>2. FnOne(x) /\ x.pc = "flush"
  BY <1>1 DEF FnOne, FnPC
<1>3. fn' = [fn EXCEPT ![f] = x]
  BY DEF StartFlush
<1> HIDE DEF x
<1>4. /\ fn' = [g \in Fn |-> fn'[g]] /\ \A g \in Fn : FnOne(fn'[g])
      /\ fn'[f] = x /\ \A g \in Fn \ {f} : fn'[g] = fn[g]
  BY <1>2, <1>3, FnSet DEF HoldInv
<1>5. UNCHANGED <<fresh, wk, active, act_stat, list, cnt_rqs>>
  BY DEF StartFlush, queue
<1>6. TypeInv'
  BY <1>4, <1>5 DEF HoldInv, TypeInv
<1>7. \A u \in Vol : ~Enqs(f, u)
  BY <1>1 DEF Enqs
<1>8. OnceListed' /\ \A u \in Vol : OneHas(u)' /\ Known(u)'
  BY <1>1, <1>2, <1>4, <1>5, <1>7, FnMove
<1> QED BY <1>6, <1>8 DEF HoldInv

(* The end of a flush, a refusal, or a submission that goes round the list. *)
LEMMA KeepBack ==
  ASSUME HoldInv, NEW f \in Fn, fn[f].pc \in {"got", "flush"}, NEW p \in {"idle", "nolock"},
         Go(f, p), UNCHANGED <<fresh, wk, active, act_stat, list, cnt_rqs>>
  PROVE  HoldInv'
<1>1. /\ fn' = [g \in Fn |-> fn'[g]] /\ \A g \in Fn : FnOne(fn'[g])
      /\ fn'[f].pc = p /\ \A g \in Fn \ {f} : fn'[g] = fn[g]
  BY FnGoes DEF HoldInv, FnPC
<1>2. TypeInv'
  BY <1>1 DEF HoldInv, TypeInv
<1>3. \A u \in Vol : ~Enqs(f, u)
  BY DEF Enqs
<1>4. OnceListed' /\ \A u \in Vol : OneHas(u)' /\ Known(u)'
  BY <1>1, <1>3, FnMove
<1> QED BY <1>2, <1>4 DEF HoldInv

LEMMA KeepEnq == ASSUME HoldInv, NEW f \in Fn, enq_dmsrq_vol_list(f) PROVE HoldInv'
<1> SUFFICES ASSUME NEW r, r = fn[f].rq, NEW v, v = rq[r].vol PROVE HoldInv'
  OBVIOUS
<1>1. fn[f].pc = "got" /\ r \in Rq /\ v \in Vol
  BY RqAssumption DEF HoldInv, TypeInv, FnOne, enq_dmsrq_vol_list
<1>2. /\ Go(f, "enq") /\ list' = [list EXCEPT ![v] = Append(@, r)]
      /\ cnt_rqs' = [cnt_rqs EXCEPT ![v] = @ + 1]
      /\ UNCHANGED <<fresh, wk, active, act_stat>>
  BY DEF enq_dmsrq_vol_list
<1>3. /\ fn' = [g \in Fn |-> fn'[g]] /\ \A g \in Fn : FnOne(fn'[g])
      /\ fn'[f].pc = "enq" /\ fn'[f].rq = r /\ \A g \in Fn \ {f} : fn'[g] = fn[g]
  BY <1>1, <1>2, FnGoes DEF HoldInv, FnPC
<1>4. list \in [Vol -> Seq(Rq)] /\ cnt_rqs = [u \in Vol |-> Len(list[u])]
  BY DEF HoldInv, TypeInv
<1>5. /\ list' \in [Vol -> Seq(Rq)] /\ list'[v] = Append(list[v], r)
      /\ \A u \in Vol \ {v} : list'[u] = list[u]
  BY <1>1, <1>2, <1>4
<1>6. Len(list'[v]) = Len(list[v]) + 1 /\ list'[v] # <<>>
  <2>1. list[v] \in Seq(Rq) /\ list'[v] = Append(list[v], r)
    BY <1>1, <1>4, <1>5
  <2>2. Len(list'[v]) = Len(list[v]) + 1 /\ Len(list[v]) \in Nat
    BY <1>1, <2>1
  <2>3. list'[v] # <<>>
    BY <2>2
  <2> QED BY <2>2, <2>3
<1>7. cnt_rqs' = [u \in Vol |-> Len(list'[u])]
  BY <1>1, <1>2, <1>4, <1>5, <1>6
<1>8. TypeInv'
  BY <1>2, <1>3, <1>5, <1>7 DEF HoldInv, TypeInv
<1>9. Enqs(f, v)' /\ \A u \in Vol : ~Enqs(f, u)
  BY <1>1, <1>3 DEF Enqs
<1>10. \A u \in Vol : /\ list[u] # <<>> => list'[u] # <<>>
                      /\ list'[u] # <<>> => (list[u] # <<>> /\ ~Enqs(f, u)) \/ Enqs(f, u)'
  BY <1>5, <1>6, <1>9
<1>11. OnceListed' /\ \A u \in Vol : OneHas(u)' /\ Known(u)'
  BY <1>1, <1>2, <1>3, <1>10, FnMove
<1> QED BY <1>8, <1>11 DEF HoldInv

(* The context that finds requests of a volume nobody has takes it.         *)
LEMMA KeepEnqRqs == ASSUME HoldInv, NEW f \in Fn, EnqRqs(f) PROVE HoldInv'
<1> SUFFICES ASSUME NEW v, v = rq[fn[f].rq].vol PROVE HoldInv'
  OBVIOUS
<1>1. fn[f].pc = "enq" /\ fn[f].rq \in Rq /\ v \in Vol
  BY RqAssumption DEF HoldInv, TypeInv, FnOne, EnqRqs
<1>2. /\ act_stat' = [act_stat EXCEPT ![v] = NextActStat(v, "EnqRqs")]
      /\ Go(f, IF DoEnActiveQ(v, "EnqRqs") THEN "wake" ELSE "idle")
      /\ UNCHANGED <<fresh, list, cnt_rqs, wk, active>>
  BY DEF EnqRqs, update_vol_active_stat, queue
<1>3. /\ act_stat \in [Vol -> {"Active", "Deactive"}]
      /\ list[v] \in Seq(Rq) /\ cnt_rqs[v] = Len(list[v]) /\ Len(list[v]) \in Nat
      /\ OneHas(v) /\ Known(v)
  BY <1>1 DEF HoldInv, TypeInv
<1>4. cnt_rqs[v] > 0 <=> list[v] # <<>>
  BY <1>3
<1>5. CASE act_stat[v] = "Deactive" /\ cnt_rqs[v] > 0
  <2>1. act_stat' = [act_stat EXCEPT ![v] = "Active"] /\ Go(f, "wake")
    BY <1>2, <1>5 DEF NextActStat, DoEnActiveQ
  <2>2. /\ act_stat' \in [Vol -> {"Active", "Deactive"}] /\ act_stat'[v] = "Active"
        /\ \A u \in Vol \ {v} : act_stat'[u] = act_stat[u]
    BY <1>1, <1>3, <2>1
  <2>3. /\ fn' = [g \in Fn |-> fn'[g]] /\ \A g \in Fn : FnOne(fn'[g])
        /\ fn'[f].pc = "wake" /\ fn'[f].rq = fn[f].rq /\ \A g \in Fn \ {f} : fn'[g] = fn[g]
    BY <1>1, <2>1, FnGoes DEF HoldInv, FnPC
  <2>4. TypeInv'
    BY <1>2, <2>2, <2>3 DEF HoldInv, TypeInv
  <2>5. OnceListed'
    BY <1>2 DEF HoldInv, OnceListed
  <2>6. OneHas(v)' /\ Known(v)'
    <3>1. ~Listed(v) /\ (\A w \in Wker : ~With(w, v)) /\ \A g \in Fn : ~Wakes(g, v)
      BY <1>3, <1>5 DEF Known
    <3>2. ~Listed(v)' /\ (\A w \in Wker : ~With(w, v)') /\ list' = list
      BY <1>2, <3>1 DEF Listed, With
    <3>3. Wakes(f, v)' /\ \A g \in Fn : Wakes(g, v)' => g = f
      BY <2>3, <3>1 DEF Wakes
    <3>4. OneHas(v)'
      BY <3>2, <3>3 DEF OneHas
    <3>5. Known(v)'
      BY <1>4, <1>5, <2>2, <3>2, <3>3 DEF Known
    <3> QED BY <3>4, <3>5
  <2>7. ASSUME NEW u \in Vol \ {v} PROVE OneHas(u)' /\ Known(u)'
    <3>1. OneHas(u) /\ Known(u)
      BY DEF HoldInv
    <3>2. /\ Listed(u)' <=> Listed(u)
          /\ \A w \in Wker : With(w, u)' <=> With(w, u)
          /\ list'[u] = list[u] /\ wk' = wk
      BY <1>2 DEF Listed, With
    <3>3. \A g \in Fn : (Wakes(g, u)' <=> Wakes(g, u)) /\ (Enqs(g, u) => Enqs(g, u)')
      BY <1>1, <2>3 DEF Wakes, Enqs
    <3>4. /\ Listed(u) => list'[u] # <<>>
          /\ \A g \in Fn : Wakes(g, u) => list'[u] # <<>>
          /\ \A w \in Wker : With(w, u) /\ Sure(wk'[w]) => list'[u] # <<>>
          /\ list'[u] # <<>> /\ act_stat[u] = "Deactive" => \E g \in Fn : Enqs(g, u)'
      BY <3>1, <3>2, <3>3 DEF Known
    <3> QED BY <2>2, <3>1, <3>2, <3>3, <3>4, SameHolder
  <2> QED BY <2>4, <2>5, <2>6, <2>7 DEF HoldInv
<1>6. CASE ~(act_stat[v] = "Deactive" /\ cnt_rqs[v] > 0)
  <2>1. act_stat' = act_stat /\ Go(f, "idle")
    BY <1>1, <1>2, <1>3, <1>6 DEF NextActStat, DoEnActiveQ
  <2>2. /\ fn' = [g \in Fn |-> fn'[g]] /\ \A g \in Fn : FnOne(fn'[g])
        /\ fn'[f].pc = "idle" /\ \A g \in Fn \ {f} : fn'[g] = fn[g]
    BY <2>1, FnGoes DEF HoldInv, FnPC
  <2>3. TypeInv'
    BY <1>2, <2>1, <2>2 DEF HoldInv, TypeInv
  <2>4. \A u \in Vol \ {v} : ~Enqs(f, u)
    BY DEF Enqs
  <2>5. \A u \in Vol : list'[u] # <<>> /\ act_stat[u] = "Deactive" => list[u] # <<>> /\ ~Enqs(f, u)
    BY <1>2, <1>4, <1>6, <2>4
  <2>6. OnceListed' /\ \A u \in Vol : OneHas(u)' /\ Known(u)'
    BY <1>1, <1>2, <2>1, <2>2, <2>5, FnMove
  <2> QED BY <2>3, <2>6 DEF HoldInv
<1> QED BY <1>5, <1>6

LEMMA KeepWakeWorker == ASSUME HoldInv, NEW f \in Fn, WakeWorker(f) PROVE HoldInv'
<1> SUFFICES ASSUME NEW v, v = rq[fn[f].rq].vol PROVE HoldInv'
  OBVIOUS
<1>1. fn[f].pc = "wake" /\ fn[f].rq \in Rq /\ v \in Vol
  BY RqAssumption DEF HoldInv, TypeInv, FnOne, WakeWorker
<1>2. /\ enq_vol_active_list(v) /\ Go(f, "idle")
      /\ UNCHANGED <<fresh, list, cnt_rqs, wk, act_stat>>
  BY DEF WakeWorker, queue
<1>3. TypeInv /\ OnceListed /\ OneHas(v) /\ Known(v) /\ Wakes(f, v)
  BY <1>1 DEF HoldInv, Wakes
<1>4. ~Listed(v) /\ (\A w \in Wker : ~With(w, v)) /\ \A g \in Fn : Wakes(g, v) => g = f
  BY <1>3 DEF OneHas
<1>5. /\ active' \in Seq(Vol) /\ OnceListed'
      /\ Listed(v)' /\ \A u \in Vol \ {v} : Listed(u)' <=> Listed(u)
  BY <1>1, <1>2, <1>3, <1>4, EnqActive
<1>6. /\ fn' = [g \in Fn |-> fn'[g]] /\ \A g \in Fn : FnOne(fn'[g])
      /\ fn'[f].pc = "idle" /\ \A g \in Fn \ {f} : fn'[g] = fn[g]
  BY <1>2, <1>3, FnGoes DEF FnPC
<1>7. TypeInv'
  BY <1>2, <1>3, <1>5, <1>6 DEF TypeInv
<1>8. OneHas(v)' /\ Known(v)'
  <2>1. (\A w \in Wker : ~With(w, v)') /\ (\A g \in Fn : ~Wakes(g, v)') /\ list' = list
    BY <1>2, <1>4, <1>6 DEF With, Wakes
  <2>2. act_stat'[v] = "Active" /\ list[v] # <<>>
    BY <1>2, <1>3 DEF Known
  <2>3. OneHas(v)'
    BY <2>1 DEF OneHas
  <2>4. Known(v)'
    BY <1>5, <2>1, <2>2 DEF Known
  <2> QED BY <2>3, <2>4
<1>9. ASSUME NEW u \in Vol \ {v} PROVE OneHas(u)' /\ Known(u)'
  <2>1. OneHas(u) /\ Known(u)
    BY DEF HoldInv
  <2>2. /\ \A w \in Wker : With(w, u)' <=> With(w, u)
        /\ list'[u] = list[u] /\ wk' = wk /\ act_stat'[u] = act_stat[u]
    BY <1>2 DEF With
  <2>3. \A g \in Fn : (Wakes(g, u)' <=> Wakes(g, u)) /\ (Enqs(g, u) => Enqs(g, u)')
    BY <1>1, <1>6 DEF Wakes, Enqs
  <2>4. /\ Listed(u) => list'[u] # <<>>
        /\ \A g \in Fn : Wakes(g, u) => list'[u] # <<>>
        /\ \A w \in Wker : With(w, u) /\ Sure(wk'[w]) => list'[u] # <<>>
        /\ list'[u] # <<>> /\ act_stat[u] = "Deactive" => \E g \in Fn : Enqs(g, u)'
    BY <2>1, <2>2, <2>3 DEF Known
  <2> QED BY <1>5, <2>1, <2>2, <2>3, <2>4, SameHolder
<1> QED BY <1>5, <1>7, <1>8, <1>9 DEF HoldInv

LEMMA KeepFn == ASSUME HoldInv, NEW f \in Fn, FetchRq(f) \/ FnStep(f) PROVE HoldInv'
<1>1. CASE EndFlush(f)
  BY <1>1, KeepBack DEF EndFlush, queue
<1>2. CASE Refuse(f)
  BY <1>2, KeepBack DEF Refuse, queue
<1>3. CASE SubmitDirect(f)
  BY <1>3, KeepBack DEF SubmitDirect, queue
<1> QED BY <1>1, <1>2, <1>3, KeepFetchRq, KeepStartFlush, KeepEnq, KeepEnqRqs, KeepWakeWorker
        DEF FnStep

-----------------------------------------------------------------------------
(* Each step of a worker.                                                   *)
LEMMA KeepDeqVol == ASSUME HoldInv, NEW w \in Wker, deq_vol_active_list(w) PROVE HoldInv'
<1> SUFFICES ASSUME NEW v, v = Head(active) PROVE HoldInv'
  OBVIOUS
<1>1. /\ wk[w].pc = "wait" /\ active # <<>> /\ active' = Tail(active)
      /\ wk' = [wk EXCEPT ![w] = At("deq", v, FALSE)]
      /\ UNCHANGED <<fresh, fn, list, cnt_rqs, act_stat>>
  BY DEF deq_vol_active_list, queue
<1>2. /\ v \in Vol /\ Listed(v) /\ active' \in Seq(Vol) /\ OnceListed'
      /\ ~Listed(v)' /\ \A u \in Vol \ {v} : Listed(u)' <=> Listed(u)
  BY <1>1, DeqActive DEF HoldInv
<1>3. /\ wk' = [y \in Wker |-> wk'[y]] /\ \A y \in Wker : WkOne(wk'[y])
      /\ wk'[w].pc = "deq" /\ wk'[w].vol = v
      /\ \A y \in Wker \ {w} : wk'[y] = wk[y]
  BY <1>1, <1>2, WkAt DEF HoldInv, WkPC
<1>4. TypeInv'
  BY <1>1, <1>2, <1>3 DEF HoldInv, TypeInv
<1>5. OneHas(v)' /\ Known(v)'
  <2>1. OneHas(v) /\ Known(v)
    BY <1>2 DEF HoldInv
  <2>2. (\A x \in Wker : ~With(x, v)) /\ \A f \in Fn : ~Wakes(f, v)
    BY <1>2, <2>1 DEF OneHas
  <2>3. With(w, v)' /\ (\A x \in Wker : With(x, v)' => x = w) /\ \A f \in Fn : ~Wakes(f, v)'
    BY <1>1, <1>3, <2>2 DEF With, Wakes
  <2>4. act_stat'[v] = "Active" /\ list'[v] # <<>>
    BY <1>1, <1>2, <2>1 DEF Known
  <2>5. OneHas(v)'
    BY <1>2, <2>3 DEF OneHas
  <2>6. Known(v)'
    BY <1>2, <2>3, <2>4 DEF Known
  <2> QED BY <2>5, <2>6
<1>6. ASSUME NEW u \in Vol \ {v} PROVE OneHas(u)' /\ Known(u)'
  <2>1. OneHas(u) /\ Known(u)
    BY DEF HoldInv
  <2>2. \A f \in Fn : (Wakes(f, u)' <=> Wakes(f, u)) /\ (Enqs(f, u)' <=> Enqs(f, u))
    BY <1>1 DEF Wakes, Enqs
  <2>3. \A x \in Wker : (With(x, u)' <=> With(x, u)) /\ (With(x, u) => wk'[x] = wk[x])
    BY <1>1, <1>3 DEF With
  <2>4. list'[u] = list[u] /\ act_stat'[u] = act_stat[u]
    BY <1>1
  <2>5. /\ Listed(u) => list'[u] # <<>>
        /\ \A g \in Fn : Wakes(g, u) => list'[u] # <<>>
        /\ \A x \in Wker : With(x, u) /\ Sure(wk'[x]) => list'[u] # <<>>
        /\ list'[u] # <<>> /\ act_stat[u] = "Deactive" => \E g \in Fn : Enqs(g, u)'
    BY <2>1, <2>2, <2>3, <2>4 DEF Known
  <2> QED BY <1>2, <2>1, <2>2, <2>3, <2>4, <2>5, SameHolder
<1> QED BY <1>2, <1>4, <1>5, <1>6 DEF HoldInv

(* A worker with a volume is sure of a request where Sure says so.          *)
LEMMA WkHas ==
  ASSUME HoldInv, NEW w \in Wker, NEW v, v = wk[w].vol, wk[w].pc # "wait"
  PROVE  /\ WkOne(wk[w]) /\ v \in Vol /\ With(w, v) /\ OneHas(v) /\ Known(v)
         /\ list[v] \in Seq(Rq) /\ cnt_rqs[v] = Len(list[v])
         /\ Sure(wk[w]) => list[v] # <<>>
<1>1. WkOne(wk[w])
  BY DEF HoldInv, TypeInv
<1>2. v \in Vol /\ With(w, v)
  BY <1>1 DEF WkOne, With
<1>3. OneHas(v) /\ Known(v) /\ list[v] \in Seq(Rq) /\ cnt_rqs[v] = Len(list[v])
  BY <1>2 DEF HoldInv, TypeInv
<1> QED BY <1>1, <1>2, <1>3 DEF Known

LEMMA KeepWGo ==
  ASSUME HoldInv, NEW w \in Wker, wk[w].pc # "wait", NEW p \in WkPC \ {"wait", "io", "chk"},
         WGo(w, p), p = "putback" => wk[w].pc = "io",
         p \in {"deq", "more", "requeue"} => list[wk[w].vol] # <<>>,
         UNCHANGED <<fresh, fn, list, cnt_rqs, act_stat, active>>
  PROVE  HoldInv'
<1>1. /\ wk' = [y \in Wker |-> wk'[y]] /\ \A y \in Wker : WkOne(wk'[y])
      /\ wk'[w].pc = p /\ wk'[w].vol = wk[w].vol
      /\ \A y \in Wker \ {w} : wk'[y] = wk[y]
  BY WkGoes DEF HoldInv
<1>2. TypeInv'
  BY <1>1 DEF HoldInv, TypeInv
<1>3. Sure(wk'[w]) => list'[wk[w].vol] # <<>>
  BY <1>1 DEF Sure
<1>4. OnceListed' /\ \A u \in Vol : OneHas(u)' /\ Known(u)'
  BY <1>1, <1>3, WkMove
<1> QED BY <1>2, <1>4 DEF HoldInv

LEMMA KeepDeqRqs == ASSUME HoldInv, NEW w \in Wker, deq_dms_rq_list(w) PROVE HoldInv'
<1> SUFFICES ASSUME NEW v, v = wk[w].vol, NEW n, n = Min({Len(list[v]), MaxMerge}),
                    NEW b, b = SubSeq(list[v], 1, n)
             PROVE  HoldInv'
  OBVIOUS
<1>1. wk[w].pc = "deq" /\ v \in Vol /\ list[v] \in Seq(Rq) /\ list[v] # <<>>
  BY WkHas DEF deq_dms_rq_list, Sure
<1>2. Len(list[v]) \in Nat /\ Len(list[v]) > 0 /\ MaxMerge \in Nat /\ MaxMerge > 0
  BY <1>1, WorkerAssumption
<1>3. n \in 1 .. Len(list[v])
  <2>1. n = IF Len(list[v]) <= MaxMerge THEN Len(list[v]) ELSE MaxMerge
    BY <1>2, MinOfTwo
  <2>2. CASE Len(list[v]) <= MaxMerge
    <3>1. n = Len(list[v])
      BY <2>1, <2>2
    <3>2. \A l \in Nat : l > 0 => l \in 1 .. l
      OBVIOUS
    <3>3. Len(list[v]) \in 1 .. Len(list[v])
      BY ONLY <1>2, <3>2
    <3> QED BY <3>1, <3>3, Zenon
  <2>3. CASE ~(Len(list[v]) <= MaxMerge)
    <3>1. n = MaxMerge /\ MaxMerge <= Len(list[v])
      BY <1>2, <2>1, <2>3
    <3> QED BY <1>2, <3>1
  <2> QED BY <2>2, <2>3
<1>4. b \in Seq(Rq) /\ Len(b) = n
  <2>1. n \in 0 .. Len(list[v]) /\ 1 <= n + 1 /\ 1 \in Nat \ {0} /\ n = n - 1 + 1
    BY <1>2, <1>3
  <2>2. SubSeq(list[v], 1, n) \in Seq(Rq) /\ Len(SubSeq(list[v], 1, n)) = n - 1 + 1
    BY <1>1, <2>1, PartOfList
  <2> QED BY <2>1, <2>2
<1>5. /\ WBatch(w, "io", b, 1, sect_start[v])
      /\ list' = [list EXCEPT ![v] = SubSeq(@, n + 1, Len(@))]
      /\ cnt_rqs' = [cnt_rqs EXCEPT ![v] = @ - n]
      /\ UNCHANGED <<fresh, fn, act_stat, active>>
  <2>1. n # 0
    BY <1>3
  <2> QED BY <2>1 DEF deq_dms_rq_list
<1>6. /\ wk' = [y \in Wker |-> wk'[y]] /\ \A y \in Wker : WkOne(wk'[y])
      /\ wk'[w].pc = "io" /\ wk'[w].vol = v
      /\ \A y \in Wker \ {w} : wk'[y] = wk[y]
  <2>1. 1 \in 1 .. Len(b)
    BY <1>3, <1>4
  <2> QED BY <1>1, <1>4, <1>5, <2>1, WkBatch DEF HoldInv
<1>7. list \in [Vol -> Seq(Rq)] /\ cnt_rqs = [u \in Vol |-> Len(list[u])]
  BY DEF HoldInv, TypeInv
<1>8. SubSeq(list[v], n + 1, Len(list[v])) \in Seq(Rq)
      /\ Len(SubSeq(list[v], n + 1, Len(list[v]))) = Len(list[v]) - n
  <2>1. /\ n + 1 \in Nat \ {0} /\ Len(list[v]) \in 0 .. Len(list[v]) /\ n + 1 <= Len(list[v]) + 1
        /\ Len(list[v]) - (n + 1) + 1 = Len(list[v]) - n
    BY <1>2, <1>3
  <2> QED BY <1>1, <2>1, PartOfList
<1>9. /\ list' \in [Vol -> Seq(Rq)] /\ list'[v] = SubSeq(list[v], n + 1, Len(list[v]))
      /\ \A u \in Vol \ {v} : list'[u] = list[u]
  BY <1>1, <1>5, <1>7, <1>8
<1>10. cnt_rqs' = [u \in Vol |-> Len(list'[u])]
  BY <1>1, <1>5, <1>7, <1>8, <1>9
<1>11. TypeInv'
  BY <1>5, <1>6, <1>9, <1>10 DEF HoldInv, TypeInv
<1>12. ~Sure(wk'[w])
  BY <1>6 DEF Sure
<1>13. OnceListed' /\ \A u \in Vol : OneHas(u)' /\ Known(u)'
  BY <1>1, <1>5, <1>6, <1>9, <1>12, WkMove
<1> QED BY <1>11, <1>13 DEF HoldInv

LEMMA KeepIoBatch == ASSUME HoldInv, NEW w \in Wker, do_io_batch(w) PROVE HoldInv'
<1> SUFFICES ASSUME NEW b, b = wk[w].batch, NEW i, i = wk[w].idx, NEW s, s = wk[w].sect,
                    NEW m, m = get_merge_len(b, i, s)
             PROVE  HoldInv'
  OBVIOUS
<1>1. wk[w].pc = "io" /\ UNCHANGED <<fresh, fn, list, cnt_rqs, act_stat, active>>
  BY DEF do_io_batch, queue
<1>2. WkOne(wk[w])
  BY <1>1, WkHas
<1>3. b \in Seq(Rq) /\ i \in 1 .. Len(b)
  BY <1>1, <1>2 DEF WkOne
<1>4. m.next \in 1 .. Len(b) + 1
  <2>1. MergeEnd(b, i, s) \in i .. Len(b)
    BY <1>3, MergeEndInBatch
  <2>2. m.next = MergeEnd(b, i, s) \/ m.next = MergeEnd(b, i, s) + 1
    BY DEF get_merge_len
  <2>3. Len(b) \in Nat
    BY <1>3
  <2> QED BY <1>3, <2>1, <2>2, <2>3
<1>5. CASE PutBack(b, i, m, agg_wait[wk[w].vol] > 0)
  <2>1. WGo(w, "putback")
    BY <1>5 DEF do_io_batch
  <2> QED BY <1>1, <2>1, KeepWGo DEF WkPC
<1>6. CASE ~PutBack(b, i, m, agg_wait[wk[w].vol] > 0)
  <2> SUFFICES ASSUME NEW p, p = (IF m.next > Len(b) THEN "done" ELSE "io"),
                      NEW t, t = (IF m.cut THEN s + m.len
                                  ELSE IF m.next > Len(b) THEN s ELSE rq[b[m.next]].pos)
               PROVE  HoldInv'
    OBVIOUS
  <2>1. WBatch(w, p, b, m.next, t)
    BY <1>6 DEF do_io_batch
  <2>2. p \in {"io", "done"} /\ (p = "io" => m.next \in 1 .. Len(b))
    BY <1>3, <1>4
  <2>3. /\ wk' = [y \in Wker |-> wk'[y]] /\ \A y \in Wker : WkOne(wk'[y])
        /\ wk'[w].pc = p /\ wk'[w].vol = wk[w].vol
        /\ \A y \in Wker \ {w} : wk'[y] = wk[y]
    BY <1>1, <1>3, <2>1, <2>2, WkBatch DEF HoldInv
  <2>4. TypeInv'
    BY <1>1, <2>3 DEF HoldInv, TypeInv
  <2>5. ~Sure(wk'[w]) /\ wk'[w].pc # "wait"
    BY <2>2, <2>3 DEF Sure
  <2>6. OnceListed' /\ \A u \in Vol : OneHas(u)' /\ Known(u)'
    BY <1>1, <2>3, <2>5, WkMove
  <2> QED BY <2>4, <2>6 DEF HoldInv
<1> QED BY <1>5, <1>6

LEMMA KeepPutBack == ASSUME HoldInv, NEW w \in Wker, enq_dmsrq_vol_list_batch(w) PROVE HoldInv'
<1> SUFFICES ASSUME NEW v, v = wk[w].vol,
                    NEW b, b = SubSeq(wk[w].batch, wk[w].idx, Len(wk[w].batch))
             PROVE  HoldInv'
  OBVIOUS
<1>1. /\ wk[w].pc = "putback" /\ list' = [list EXCEPT ![v] = b \o @]
      /\ cnt_rqs' = [cnt_rqs EXCEPT ![v] = @ + Len(b)]
      /\ wk' = [wk EXCEPT ![w] = At("chk", v, TRUE)]
      /\ UNCHANGED <<fresh, fn, act_stat, active>>
  BY DEF enq_dmsrq_vol_list_batch
<1>2. WkOne(wk[w]) /\ v \in Vol /\ list[v] \in Seq(Rq)
  BY <1>1, WkHas
<1>3. b \in Seq(Rq) /\ Len(b) > 0
  <2> SUFFICES ASSUME NEW c, c = wk[w].batch, NEW i, i = wk[w].idx PROVE b \in Seq(Rq) /\ Len(b) > 0
    OBVIOUS
  <2>1. c \in Seq(Rq) /\ i \in 1 .. Len(c) /\ Len(c) \in Nat
    BY <1>1, <1>2 DEF WkOne
  <2>2. i \in Nat \ {0} /\ Len(c) \in 0 .. Len(c) /\ i <= Len(c) + 1 /\ Len(c) - i + 1 > 0
    BY <2>1
  <2>3. b \in Seq(Rq) /\ Len(b) = Len(c) - i + 1
    BY <2>1, <2>2, PartOfList
  <2> QED BY <2>2, <2>3
<1>4. b \o list[v] \in Seq(Rq) /\ Len(b \o list[v]) = Len(b) + Len(list[v])
  BY <1>2, <1>3, ConcatProperties
<1>5. Len(b) \in Nat /\ Len(list[v]) \in Nat
  BY <1>2, <1>3
<1>6. list \in [Vol -> Seq(Rq)] /\ cnt_rqs = [u \in Vol |-> Len(list[u])]
  BY DEF HoldInv, TypeInv
<1>7. /\ list' \in [Vol -> Seq(Rq)] /\ list'[v] = b \o list[v]
      /\ \A u \in Vol \ {v} : list'[u] = list[u]
  BY <1>1, <1>2, <1>4, <1>6
<1>8. cnt_rqs' = [u \in Vol |-> Len(list'[u])]
  <2>1. Len(list'[v]) = Len(list[v]) + Len(b)
    BY <1>4, <1>5, <1>7
  <2> QED BY <1>1, <1>2, <1>6, <1>7, <2>1
<1>9. list'[v] # <<>>
  <2>1. Len(list'[v]) > 0
    BY <1>3, <1>4, <1>5, <1>7
  <2> QED BY <2>1
<1>10. /\ wk' = [y \in Wker |-> wk'[y]] /\ \A y \in Wker : WkOne(wk'[y])
       /\ wk'[w].pc = "chk" /\ wk'[w].vol = v
       /\ \A y \in Wker \ {w} : wk'[y] = wk[y]
  BY <1>1, <1>2, WkAt DEF HoldInv, WkPC
<1>11. TypeInv'
  BY <1>1, <1>7, <1>8, <1>10 DEF HoldInv, TypeInv
<1>12. OnceListed' /\ \A u \in Vol : OneHas(u)' /\ Known(u)'
  <2>1. wk[w].pc # "wait" /\ wk'[w].pc # "wait" /\ UNCHANGED <<fn, active, act_stat>>
    BY <1>1, <1>10
  <2> QED BY <1>7, <1>9, <1>10, <2>1, WkMove
<1> QED BY <1>11, <1>12 DEF HoldInv

LEMMA KeepListStart == ASSUME HoldInv, NEW w \in Wker, update_vol_rq_list_start(w) PROVE HoldInv'
<1> SUFFICES ASSUME NEW v, v = wk[w].vol, NEW m \in BOOLEAN, m = FALSE PROVE HoldInv'
  OBVIOUS
<1>1. /\ wk[w].pc = "done" /\ wk' = [wk EXCEPT ![w] = At("chk", v, m)]
      /\ UNCHANGED <<fresh, fn, list, cnt_rqs, act_stat, active>>
  BY DEF update_vol_rq_list_start
<1>2. v \in Vol
  BY <1>1, WkHas
<1>3. /\ wk' = [y \in Wker |-> wk'[y]] /\ \A y \in Wker : WkOne(wk'[y])
      /\ wk'[w].pc = "chk" /\ wk'[w].vol = v /\ wk'[w].remain = m
      /\ \A y \in Wker \ {w} : wk'[y] = wk[y]
  BY <1>1, <1>2, WkAt DEF HoldInv, WkPC
<1>4. TypeInv'
  BY <1>1, <1>3 DEF HoldInv, TypeInv
<1>5. ~Sure(wk'[w])
  BY <1>3 DEF Sure
<1>6. OnceListed' /\ \A u \in Vol : OneHas(u)' /\ Known(u)'
  BY <1>1, <1>3, <1>5, WkMove
<1> QED BY <1>4, <1>6 DEF HoldInv

LEMMA KeepChooseNext == ASSUME HoldInv, NEW w \in Wker, ChooseNext(w) PROVE HoldInv'
<1> SUFFICES ASSUME NEW v, v = wk[w].vol PROVE HoldInv'
  OBVIOUS
<1>1. wk[w].pc = "chk" /\ UNCHANGED <<fresh, fn, list, cnt_rqs, act_stat, active>>
  BY DEF ChooseNext, queue
<1>2. /\ list[v] \in Seq(Rq) /\ cnt_rqs[v] = Len(list[v])
      /\ wk[w].remain => list[v] # <<>>
  BY <1>1, WkHas DEF Sure
<1>3. cnt_rqs[v] > 0 => list[v] # <<>>
  BY <1>2
<1>4. \/ WGo(w, "leave")
      \/ (wk[w].remain \/ cnt_rqs[v] > 0) /\ (WGo(w, "deq") \/ WGo(w, "more"))
  BY DEF ChooseNext
<1>5. CASE WGo(w, "leave")
  BY <1>1, <1>5, KeepWGo DEF WkPC
<1>6. CASE list[v] # <<>> /\ WGo(w, "deq")
  BY <1>1, <1>6, KeepWGo DEF WkPC
<1>7. CASE list[v] # <<>> /\ WGo(w, "more")
  BY <1>1, <1>7, KeepWGo DEF WkPC
<1> QED BY <1>2, <1>3, <1>4, <1>5, <1>6, <1>7

LEMMA KeepWaitDone == ASSUME HoldInv, NEW w \in Wker, WaitDone(w) PROVE HoldInv'
<1>1. /\ wk[w].pc = "more" /\ WGo(w, "deq")
      /\ UNCHANGED <<fresh, fn, list, cnt_rqs, act_stat, active>>
  BY DEF WaitDone, queue
<1>2. list[wk[w].vol] # <<>>
  BY <1>1, WkHas DEF Sure
<1> QED BY <1>1, <1>2, KeepWGo DEF WkPC

(* A worker gives its volume away: nobody has it, or it is listed.          *)
LEMMA WkWaits ==
  ASSUME HoldInv, NEW w \in Wker, NEW v, v = wk[w].vol, wk[w].pc # "wait", WGo(w, "wait"),
         UNCHANGED fn
  PROVE  /\ wk' = [y \in Wker |-> wk'[y]] /\ \A y \in Wker : WkOne(wk'[y])
         /\ \A x \in Wker : ~With(x, v)'
         /\ \A f \in Fn : ~Wakes(f, v)'
         /\ \A u \in Vol \ {v}, x \in Wker : With(x, u)' <=> With(x, u)
         /\ \A u \in Vol \ {v}, x \in Wker : With(x, u) => wk'[x] = wk[x]
<1>1. wk' = [wk EXCEPT ![w] = At("wait", "none", FALSE)]
  BY DEF WGo, Waiting
<1>2. /\ wk' = [y \in Wker |-> wk'[y]] /\ \A y \in Wker : WkOne(wk'[y])
      /\ wk'[w].pc = "wait"
      /\ \A y \in Wker \ {w} : wk'[y] = wk[y]
  <2> SUFFICES ASSUME NEW m \in BOOLEAN, m = FALSE, NEW n, n = "none"
               PROVE  /\ wk' = [y \in Wker |-> wk'[y]] /\ \A y \in Wker : WkOne(wk'[y])
                      /\ wk'[w].pc = "wait" /\ \A y \in Wker \ {w} : wk'[y] = wk[y]
    OBVIOUS
  <2>1. wk' = [wk EXCEPT ![w] = At("wait", n, m)] /\ "wait" \in WkPC \ {"io", "putback"}
    BY <1>1 DEF WkPC
  <2> QED BY <2>1, WkAt DEF HoldInv
<1>3. (\A x \in Wker : With(x, v) => x = w) /\ \A f \in Fn : ~Wakes(f, v)
  BY WkHas DEF OneHas
<1>4. (\A x \in Wker : ~With(x, v)') /\ \A f \in Fn : ~Wakes(f, v)'
  BY <1>2, <1>3 DEF With, Wakes
<1>5. \A u \in Vol \ {v}, x \in Wker :
        (With(x, u)' <=> With(x, u)) /\ (With(x, u) => wk'[x] = wk[x])
  BY <1>2 DEF With
<1> QED BY <1>2, <1>4, <1>5

(* The other volumes of a worker's step.                                    *)
LEMMA OtherVol ==
  ASSUME HoldInv, NEW u \in Vol, act_stat'[u] = act_stat[u], list'[u] = list[u],
         UNCHANGED fn, Listed(u)' <=> Listed(u),
         \A x \in Wker : (With(x, u)' <=> With(x, u)) /\ (With(x, u) => wk'[x] = wk[x])
  PROVE  OneHas(u)' /\ Known(u)'
<1>1. OneHas(u) /\ Known(u)
  BY DEF HoldInv
<1>2. \A f \in Fn : (Wakes(f, u)' <=> Wakes(f, u)) /\ (Enqs(f, u)' <=> Enqs(f, u))
  BY DEF Wakes, Enqs
<1>3. /\ Listed(u) => list'[u] # <<>>
      /\ \A g \in Fn : Wakes(g, u) => list'[u] # <<>>
      /\ \A x \in Wker : With(x, u) /\ Sure(wk'[x]) => list'[u] # <<>>
      /\ list'[u] # <<>> /\ act_stat[u] = "Deactive" => \E g \in Fn : Enqs(g, u)'
  BY <1>1, <1>2 DEF Known
<1> QED BY <1>1, <1>2, <1>3, SameHolder

LEMMA KeepRqsDone == ASSUME HoldInv, NEW w \in Wker, RqsDone(w) PROVE HoldInv'
<1> SUFFICES ASSUME NEW v, v = wk[w].vol PROVE HoldInv'
  OBVIOUS
<1>1. /\ wk[w].pc = "leave" /\ act_stat' = [act_stat EXCEPT ![v] = NextActStat(v, "RqsDone")]
      /\ WGo(w, IF DoEnActiveQ(v, "RqsDone") THEN "requeue" ELSE "wait")
      /\ UNCHANGED <<fresh, fn, list, cnt_rqs, active>>
  BY DEF RqsDone, update_vol_active_stat, queue
<1>2. /\ v \in Vol /\ With(w, v) /\ OneHas(v) /\ Known(v)
      /\ list[v] \in Seq(Rq) /\ cnt_rqs[v] = Len(list[v])
  BY <1>1, WkHas
<1>3. act_stat[v] = "Active" /\ act_stat \in [Vol -> {"Active", "Deactive"}]
  BY <1>2 DEF Known, HoldInv, TypeInv
<1>4. cnt_rqs[v] \in Nat /\ (cnt_rqs[v] > 0 <=> list[v] # <<>>)
  BY <1>2
<1>5. CASE cnt_rqs[v] > 0
  <2>1. act_stat' = act_stat /\ WGo(w, "requeue")
    BY <1>1, <1>2, <1>3, <1>5 DEF NextActStat, DoEnActiveQ
  <2> QED BY <1>1, <1>4, <1>5, <2>1, KeepWGo DEF WkPC
<1>6. CASE ~(cnt_rqs[v] > 0)
  <2>1. act_stat' = [act_stat EXCEPT ![v] = "Deactive"] /\ WGo(w, "wait")
    <3>1. cnt_rqs[v] = 0
      BY <1>4, <1>6
    <3>2. NextActStat(v, "RqsDone") = "Deactive" /\ ~DoEnActiveQ(v, "RqsDone")
      BY <1>3, <1>6, <3>1 DEF NextActStat, DoEnActiveQ
    <3> QED BY <1>1, <3>2
  <2>2. /\ wk' = [y \in Wker |-> wk'[y]] /\ \A y \in Wker : WkOne(wk'[y])
        /\ (\A x \in Wker : ~With(x, v)') /\ \A f \in Fn : ~Wakes(f, v)'
        /\ \A u \in Vol \ {v}, x \in Wker :
             (With(x, u)' <=> With(x, u)) /\ (With(x, u) => wk'[x] = wk[x])
    BY <1>1, <2>1, WkWaits
  <2>3. /\ act_stat' \in [Vol -> {"Active", "Deactive"}] /\ act_stat'[v] = "Deactive"
        /\ \A u \in Vol \ {v} : act_stat'[u] = act_stat[u]
    BY <1>2, <1>3, <2>1
  <2>4. TypeInv' /\ OnceListed'
    BY <1>1, <2>2, <2>3 DEF HoldInv, TypeInv, OnceListed
  <2>5. OneHas(v)' /\ Known(v)'
    <3>1. ~Listed(v)' /\ list'[v] = <<>>
      BY <1>1, <1>2, <1>4, <1>6 DEF OneHas, Listed
    <3>2. OneHas(v)'
      BY <2>2, <3>1 DEF OneHas
    <3>3. Known(v)'
      BY <2>2, <2>3, <3>1 DEF Known
    <3> QED BY <3>2, <3>3
  <2>6. ASSUME NEW u \in Vol \ {v} PROVE OneHas(u)' /\ Known(u)'
    <3>1. (Listed(u)' <=> Listed(u)) /\ list'[u] = list[u]
      BY <1>1 DEF Listed
    <3> QED BY <1>1, <2>2, <2>3, <3>1, OtherVol
  <2> QED BY <2>4, <2>5, <2>6 DEF HoldInv
<1> QED BY <1>5, <1>6

LEMMA KeepRequeue == ASSUME HoldInv, NEW w \in Wker, Requeue(w) PROVE HoldInv'
<1> SUFFICES ASSUME NEW v, v = wk[w].vol PROVE HoldInv'
  OBVIOUS
<1>1. /\ wk[w].pc = "requeue" /\ enq_vol_active_list(v) /\ WGo(w, "wait")
      /\ UNCHANGED <<fresh, fn, list, cnt_rqs, act_stat>>
  BY DEF Requeue, queue
<1>2. /\ v \in Vol /\ With(w, v) /\ OneHas(v) /\ Known(v) /\ list[v] # <<>>
  BY <1>1, WkHas DEF Sure
<1>3. ~Listed(v) /\ act_stat[v] = "Active"
  BY <1>2 DEF OneHas, Known
<1>4. /\ active' \in Seq(Vol) /\ OnceListed'
      /\ Listed(v)' /\ \A u \in Vol \ {v} : Listed(u)' <=> Listed(u)
  BY <1>1, <1>2, <1>3, EnqActive DEF HoldInv
<1>5. /\ wk' = [y \in Wker |-> wk'[y]] /\ \A y \in Wker : WkOne(wk'[y])
      /\ (\A x \in Wker : ~With(x, v)') /\ \A f \in Fn : ~Wakes(f, v)'
      /\ \A u \in Vol \ {v}, x \in Wker :
           (With(x, u)' <=> With(x, u)) /\ (With(x, u) => wk'[x] = wk[x])
  BY <1>1, WkWaits
<1>6. TypeInv'
  BY <1>1, <1>4, <1>5 DEF HoldInv, TypeInv
<1>7. OneHas(v)'
  BY <1>5 DEF OneHas
<1>8. Known(v)'
  BY <1>1, <1>2, <1>3, <1>4, <1>5 DEF Known
<1>9. ASSUME NEW u \in Vol \ {v} PROVE OneHas(u)' /\ Known(u)'
  BY <1>1, <1>4, <1>5, OtherVol
<1> QED BY <1>4, <1>6, <1>7, <1>8, <1>9 DEF HoldInv

LEMMA KeepWker == ASSUME HoldInv, NEW w \in Wker, WkerStep(w) PROVE HoldInv'
BY KeepDeqVol, KeepDeqRqs, KeepIoBatch, KeepPutBack, KeepListStart, KeepChooseNext, KeepWaitDone,
   KeepRqsDone, KeepRequeue DEF WkerStep

(* The end of an io_request_t does not touch who has a volume.              *)
LEMMA KeepSame ==
  ASSUME HoldInv, UNCHANGED <<fresh, fn, wk, list, cnt_rqs, act_stat, active>> PROVE HoldInv'
<1>1. TypeInv' /\ OnceListed'
  BY DEF HoldInv, TypeInv, OnceListed
<1>2. ASSUME NEW u \in Vol PROVE OneHas(u)' /\ Known(u)'
  <2>1. (Listed(u)' <=> Listed(u)) /\ \A x \in Wker : With(x, u)' <=> With(x, u)
    BY DEF Listed, With
  <2> QED BY <2>1, OtherVol
<1> QED BY <1>1, <1>2 DEF HoldInv

LEMMA HoldStep == HoldInv /\ [Next]_vars => HoldInv'
<1> SUFFICES ASSUME HoldInv, [Next]_vars PROVE HoldInv'
  OBVIOUS
<1>1. ASSUME NEW x, IOStep(x) PROVE HoldInv'
  BY <1>1, KeepSame DEF IOStep, LoadResults, fWker_free_ioReq, ioReq_commit_user, queue
<1>2. CASE UNCHANGED vars
  BY <1>2, KeepSame DEF vars, queue
<1> QED BY <1>1, <1>2, KeepFn, KeepWker DEF Next

LEMMA HoldInit == Init => HoldInv
<1> SUFFICES ASSUME Init PROVE HoldInv
  OBVIOUS
<1>1. fn = [f \in Fn |-> Idle("idle")] /\ \A f \in Fn : FnOne(fn[f]) /\ fn[f].pc = "idle"
  BY DEF Init, Idle, FnOne, FnPC
<1>2. wk = [w \in Wker |-> Waiting] /\ \A w \in Wker : WkOne(wk[w]) /\ wk[w].pc = "wait"
  <2>1. <<>> \in Seq(Rq)
    OBVIOUS
  <2>2. WkOne(Waiting) /\ Waiting.pc = "wait"
    BY <2>1 DEF Waiting, At, WkOne, WkPC
  <2> QED BY <2>2 DEF Init
<1>3. /\ fresh \in Seq(Rq) /\ list = [v \in Vol |-> <<>>] /\ cnt_rqs = [v \in Vol |-> 0]
      /\ act_stat = [v \in Vol |-> "Deactive"] /\ active = <<>>
  BY RqAssumption DEF Init
<1>4. list \in [Vol -> Seq(Rq)] /\ active \in Seq(Vol)
      /\ act_stat \in [Vol -> {"Active", "Deactive"}] /\ cnt_rqs = [v \in Vol |-> Len(list[v])]
  BY <1>3
<1>5. TypeInv /\ OnceListed
  BY <1>1, <1>2, <1>3, <1>4 DEF TypeInv, OnceListed
<1>6. ASSUME NEW v \in Vol PROVE OneHas(v) /\ Known(v)
  <2>1. ~Listed(v) /\ (\A w \in Wker : ~With(w, v)) /\ (\A f \in Fn : ~Wakes(f, v))
        /\ act_stat[v] = "Deactive" /\ list[v] = <<>>
    BY <1>1, <1>2, <1>3 DEF Listed, With, Wakes
  <2>2. OneHas(v)
    BY <2>1 DEF OneHas
  <2>3. Known(v)
    BY <2>1 DEF Known
  <2> QED BY <2>2, <2>3
<1> QED BY <1>5, <1>6 DEF HoldInv

(* Who has a volume, counted.                                               *)
LEMMA HoldersAreOne == HoldInv => OneHolder
<1> SUFFICES ASSUME HoldInv, NEW v \in Vol
             PROVE  /\ Cardinality(Holders(v)) + (IF v \in Range(active) THEN 1 ELSE 0) <= 1
                    /\ list[v] # <<>> => \/ v \in Range(active) \/ Holders(v) # {}
                                         \/ \E f \in Fn : fn[f].pc = "enq" /\ rq[fn[f].rq].vol = v
  BY DEF OneHolder
<1>1. OneHas(v) /\ Known(v) /\ act_stat[v] \in {"Active", "Deactive"}
  BY DEF HoldInv, TypeInv
<1>2. v \in Range(active) <=> Listed(v)
  BY ListedIsRange DEF HoldInv
<1>3. Holders(v) = {w \in Wker : With(w, v)} \cup {f \in Fn : Wakes(f, v)}
  BY DEF Holders, With, Wakes
<1>4. CASE Holders(v) = {}
  <2>1. Cardinality(Holders(v)) = 0
    BY <1>4, FS_EmptySet
  <2> QED BY <1>1, <1>2, <1>3, <1>4, <2>1 DEF Known, Enqs
<1>5. CASE Holders(v) # {}
  <2>1. PICK x : x \in Holders(v)
    BY <1>5
  <2>2. Holders(v) = {x}
    BY <1>1, <1>3, <2>1 DEF OneHas
  <2>3. Cardinality(Holders(v)) = 1
    BY <2>2, FS_Singleton
  <2>4. ~Listed(v)
    BY <1>1, <1>3, <2>1 DEF OneHas
  <2> QED BY <1>2, <1>5, <2>3, <2>4
<1> QED BY <1>4, <1>5

(* A volume is in the active list, with one worker or with one context of   *)
(* the request function, never with two of them; it is Active exactly then; *)
(* and while it is listed, about to be listed, or with a worker that is to  *)
(* take requests, its list has one, so that the worker never leaves it      *)
(* Active and unattended (update_vol_active_stat, deq_dms_rq_list).         *)
THEOREM HoldInvariant == Spec => []HoldInv
<1>1. Init => HoldInv
  BY HoldInit
<1>2. HoldInv /\ [Next]_vars => HoldInv'
  BY HoldStep
<1> QED BY <1>1, <1>2, PTL DEF Spec

(* However many workers and contexts there are, no two take requests of one *)
(* volume, and a volume with requests is never forgotten.                   *)
THEOREM VolumeHasOneHolder == Spec => []OneHolder
BY HoldInvariant, HoldersAreOne, PTL
=============================================================================
