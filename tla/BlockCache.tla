----------------------------- MODULE BlockCache -----------------------------
(***************************************************************************)
(* The metadata cache: a pool for each volume (cache.c) and what the        *)
(* metadata manager does with it (metadata_cache.c).                        *)
(*                                                                          *)
(* A pool's radix tree and its LRU list hold the same leaves under the same *)
(* mutex and are one sequence here, the most recent leaf first; cache_num   *)
(* is its length.  A call finds the pool and counts itself in ref_cnt under *)
(* the table's lock (FindPool), then works under the pool's mutex, one step *)
(* each, two for an update (lock: the mutex is held between them), because  *)
(* the sizes are changed under the table's lock alone.  The leaves a query  *)
(* found are used between its find and its put.                             *)
(***************************************************************************)
EXTENDS MDItem, FiniteSets, FiniteSetsExt

CONSTANTS
  VolOrder,      \* the volumes, in the order the pool table is walked
  Cap,           \* Cap[v]: capacity in blocks
  SmallCap,      \* max_cap_cache_all_hit
  MaxItems,      \* max_meta_cache_sizes
  Word,          \* a 32-bit word: sizes are uint32_t, the blocks of an answer int32_t
  Pool, Leaf,    \* cache_pool_t and tree_leaf structures
  Thread,
  Metadata,      \* metadata the namenode answers with: sequences of items
  DN,            \* datanodes
  Cmds,          \* Cmds[t]: the calls t makes, <<op, volume>>
  Faults         \* allocations that may fail, "leaf" and "insert"; "slow": see MayFree;
                 \* "timeout": see Allowed

None == "none"
ASSUME CacheAssumption ==
  /\ MaxItems \in Nat \ {0} /\ Word \in Nat \ {0} /\ None \notin Pool \cup Leaf
  /\ Faults \subseteq {"leaf", "insert", "slow", "timeout"}

Vol == ToSet(VolOrder)
HBID == UNION {UNION {ToSet(md[i].hbids) : i \in DOMAIN md} : md \in Metadata}
LB(v) == 0 .. Cap[v] - 1

VARIABLES
  table,    \* table[v]: the pool of cpool_tbl, or None
  pool,     \* pool[p]: [st, vol, size, ref, lru, hb, lock] and late (history): the
            \* size that an update had looked at when it was changed, or 0
  leaf,     \* leaf[l]: a tree_leaf, or NoLeaf when it is not allocated
  th,       \* th[t]: the call thread t is in
  stored,   \* stored[v][b]: the item last stored and not invalidated (history)
  twice     \* some item was freed twice

vars == <<table, pool, leaf, th, stored, twice>>

NoLeaf == [blk |-> 0, item |-> Miss, ref |-> 0, del |-> FALSE]
NoPool == [st |-> "free", vol |-> None, size |-> 0, ref |-> 0, lru |-> <<>>, hb |-> {},
           lock |-> FALSE, late |-> 0]
Idle == [pc |-> "idle", op |-> None, vol |-> None, pool |-> None, lb |-> 0,
         bk |-> <<>>, want |-> <<>>, got |-> <<>>, todo |-> <<>>]

Init ==
  /\ table = [v \in Vol |-> None]
  /\ pool = [p \in Pool |-> NoPool] /\ leaf = [l \in Leaf |-> NoLeaf]
  /\ th = [t \in Thread |-> Idle]
  /\ stored = [v \in Vol |-> [b \in LB(v) |-> Miss]] /\ twice = FALSE

Goto(t, pc) == th' = [th EXCEPT ![t].pc = pc, ![t].pool = None]
End(t) == th' = [th EXCEPT ![t] = Idle]

-----------------------------------------------------------------------------
(***************************************************************************)
(* The contents of a pool, as a pair S = [pool, leaf] of the two arrays.    *)
(***************************************************************************)
State == [pool |-> pool, leaf |-> leaf]
Apply(S) == pool' = S.pool /\ leaf' = S.leaf

(* release_tree_leaf unless a query still uses the leaf, which is then      *)
(* marked and left to its cache_put.                                        *)
DropLeaf_Used(x) == NoLeaf   \* mutant: a leaf in use is released

DropLeaf(x) == IF x.ref > 0 THEN [x EXCEPT !.del = TRUE] ELSE NoLeaf

(* The HBID table of a pool: the pairs of an HBID and a block stored for it.*)
insert_hbid_htbl(hb, lb, hbid) == hb \cup {<<hbid, lb>>}
remove_hbid_tbl(hb, lb, hbid)  == hb \ {<<hbid, lb>>}

(* Leaves L leave the tree, the list and the count of pool p...             *)
Unlink(S, p, L) ==
  [pool |-> [S.pool EXCEPT ![p].lru = SelectSeq(@, LAMBDA l : l \notin L)],
   leaf |-> [l \in Leaf |-> IF l \in L THEN DropLeaf(S.leaf[l]) ELSE S.leaf[l]]]

(* ... and its HBID table.                                                  *)
TakeOut(S, p, L) ==
  Unlink([S EXCEPT !.pool[p].hb =
            FoldSet(LAMBDA l, hb : remove_hbid_tbl(hb, S.leaf[l].blk, S.leaf[l].item.hbid), @, L)],
         p, L)

InPool(S, p) == ToSet(S.pool[p].lru)
Tail_(s, n) == ToSet(SubSeq(s, Len(s) - n + 1, Len(s)))

(* __kick_meta_cache by count: the least recently used leaves.              *)
KickCount(S, p, n) ==
  LET k == IF n > Len(S.pool[p].lru) THEN Len(S.pool[p].lru) ELSE n
  IN IF k <= 0 THEN S ELSE TakeOut(S, p, Tail_(S.pool[p].lru, k))

(* __kick_meta_cache(-1) of the leaves L and, when one of them was in use,  *)
(* once more without the criteria.                                          *)
KickAll(S, p, L) ==
  LET R == TakeOut(S, p, L)
  IN IF \A l \in L : S.leaf[l].ref = 0 THEN R ELSE TakeOut(R, p, InPool(R, p))

LeafAt(S, p, b) == {l \in InPool(S, p) : S.leaf[l].blk = b}

-----------------------------------------------------------------------------
(***************************************************************************)
(* update_cache_pool_size: small volumes get their capacity as long as      *)
(* there is some left, the others share the rest.  Under the table's lock   *)
(* the sizes are set and compared with what the pools hold; the mutex of a  *)
(* pool is taken only to kick.                                              *)
(***************************************************************************)
Resizing == \E t \in Thread : th[t].pc = "kick"   \* the table's lock is held

alloc_cachePoolSize_smallVol(size) ==
  FoldLeft(LAMBDA a, v :
      LET p == table[v]
          full == a.left >= a.size[p]
      IN CASE p = None          -> a
           [] p # None /\ Cap[v] > SmallCap -> [a EXCEPT !.need = @ + Cap[v]]
           [] OTHER -> [a EXCEPT !.left = IF full THEN @ - Cap[v] ELSE 0,
                                 !.size[p] = IF full THEN Cap[v] ELSE a.left % Word],
    [left |-> MaxItems, need |-> 0, size |-> size], VolOrder)

alloc_cachePoolSize_largeVol(s) ==
  FoldLeft(LAMBDA a, v :
      LET p == table[v]
          share == IF s.left >= s.need THEN Cap[v] ELSE (s.left * Cap[v]) \div s.need
          size == IF a.left >= share THEN share ELSE a.left
      IN IF p = None \/ Cap[v] <= SmallCap THEN a
         ELSE [left |-> a.left - size, size |-> [a.size EXCEPT ![p] = size % Word]],
    [left |-> s.left, size |-> s.size], VolOrder).size

Largest(a, b) == IF a > b THEN a ELSE b

update_cache_pool_size(t) ==
  LET size == alloc_cachePoolSize_largeVol(
                alloc_cachePoolSize_smallVol([p \in Pool |-> pool[p].size]))
      excess == [i \in DOMAIN VolOrder |->
                   LET p == table[VolOrder[i]]
                   IN <<p, IF p = None THEN 0 ELSE Len(pool[p].lru) - size[p]>>]
  IN /\ th[t].pc = "resize" /\ ~Resizing
     /\ pool' = [p \in Pool |-> IF pool[p].st # "in" THEN pool[p]
                  ELSE [pool[p] EXCEPT !.size = size[p],
                          !.late = IF pool[p].lock THEN Largest(pool[p].size, @) ELSE 0]]
     /\ th' = [th EXCEPT ![t].pc = "kick", ![t].todo = SelectSeq(excess, LAMBDA e : e[2] > 0)]
     /\ UNCHANGED <<table, leaf, stored, twice>>

KickExcess(t) ==
  LET e == Head(th[t].todo)
  IN /\ th[t].pc = "kick" /\ th[t].todo # <<>> /\ ~pool[e[1]].lock
     /\ Apply(KickCount(State, e[1], e[2]))
     /\ th' = [th EXCEPT ![t].todo = Tail(@)]
     /\ UNCHANGED <<table, stored, twice>>

EndResize(t) ==
  /\ th[t].pc = "kick" /\ th[t].todo = <<>> /\ End(t)
  /\ UNCHANGED <<table, pool, leaf, stored, twice>>

-----------------------------------------------------------------------------
(***************************************************************************)
(* Finding the pool of a call.                                              *)
(***************************************************************************)
FirstPc(op) == CASE op = "create" -> "create" [] op = "update" -> "item"
                 [] op \in {"invalDN", "invalHB"} -> "all" [] OTHER -> "find"

Begin(t, c, lb, todo) ==
  /\ th[t].pc = "idle"
  /\ th' = [th EXCEPT ![t] = [Idle EXCEPT !.op = c[1], !.vol = c[2], !.lb = lb, !.todo = todo,
              !.pc = FirstPc(c[1])]]
  /\ UNCHANGED <<table, pool, leaf, stored, twice>>

(* _find_cache_pool; pc is where each call goes on without a pool.          *)
NoPoolPc(t) == CASE th[t].op = "query"  -> "build"
                 [] th[t].op = "update" -> "failed"
                 [] th[t].op = "release" -> "rm"
                 [] OTHER -> "end"

find_cache_pool(t) ==
  LET p == table[th[t].vol]
  IN /\ th[t].pc \in {"find", "find_inval", "find_put"} /\ ~Resizing
     /\ IF p = None
        THEN /\ Goto(t, IF th[t].pc = "find_inval" THEN "next"
                        ELSE IF th[t].pc = "find_put" THEN "end" ELSE NoPoolPc(t))
             /\ UNCHANGED pool
        ELSE /\ pool' = [pool EXCEPT ![p].ref = @ + 1]
             /\ th' = [th EXCEPT ![t].pool = p,
                  ![t].pc = CASE @ = "find_inval" -> "inval" [] @ = "find_put" -> "put"
                              [] OTHER -> "locked"]
     /\ UNCHANGED <<table, leaf, stored, twice>>

EndCall(t) == th[t].pc = "end" /\ End(t) /\ UNCHANGED <<table, pool, leaf, stored, twice>>

Unref(S, p) == [S EXCEPT !.pool[p].ref = @ - 1]
At(t, pc, op) == th[t].pc = pc /\ th[t].op = op
Locked(t, pc, op) == At(t, pc, op) /\ ~pool[th[t].pool].lock   \* mutex_lock(tree_lock)

-----------------------------------------------------------------------------
(***************************************************************************)
(* query_volume_MDCache: cache_find, the answer, cache_put.                 *)
(***************************************************************************)
Range_(t) == [i \in 1 .. Cap[th[t].vol] - th[t].lb |-> th[t].lb + i - 1]

cache_find(t) ==
  LET p == th[t].pool
      r == Range_(t)
      L(i) == LeafAt(State, p, r[i])
      found == UNION {L(i) : i \in DOMAIN r}
      newest == SetToSortSeq(found, LAMBDA x, y : leaf[x].blk < leaf[y].blk)
  IN /\ Locked(t, "locked", "query")
     /\ leaf' = [l \in Leaf |-> IF l \in found THEN [leaf[l] EXCEPT !.ref = @ + 1] ELSE leaf[l]]
     /\ pool' = [pool EXCEPT ![p].ref = @ - 1,
                   ![p].lru = newest \o SelectSeq(@, LAMBDA l : l \notin found)]
     /\ th' = [th EXCEPT ![t].pc = "build", ![t].pool = None,
                 ![t].bk = [i \in DOMAIN r |-> IF L(i) = {} THEN None ELSE CHOOSE l \in L(i) : TRUE],
                 ![t].want = [i \in DOMAIN r |-> stored[th[t].vol][r[i]]]]
     /\ UNCHANGED <<table, stored, twice>>

(* The leaves are read with no lock held.  A segment whose metadata cannot  *)
(* be allocated is tried again until it can.                                *)
BuildAnswer(t) ==
  LET bk == th[t].bk
      items == [i \in DOMAIN bk |-> IF bk[i] = None THEN Miss ELSE leaf[bk[i]].item]
  IN /\ th[t].pc = "build"
     /\ th' = [th EXCEPT ![t].got = IF bk = <<>> THEN <<>> ELSE AnswerOf(items, th[t].lb, Word),
                 ![t].pc = IF \E i \in DOMAIN bk : bk[i] # None THEN "find_put" ELSE "end"]
     /\ UNCHANGED <<table, pool, leaf, stored, twice>>

PutLeaf(x) == IF x.del /\ x.ref = 1 THEN NoLeaf ELSE [x EXCEPT !.ref = @ - 1]

cache_put(t) ==
  LET held == ToSet(th[t].bk) \ {None}
  IN /\ Locked(t, "put", "query")
     /\ leaf' = [l \in Leaf |-> IF l \in held THEN PutLeaf(leaf[l]) ELSE leaf[l]]
     /\ pool' = [pool EXCEPT ![th[t].pool].ref = @ - 1]
     /\ End(t)
     /\ UNCHANGED <<table, stored, twice>>

-----------------------------------------------------------------------------
(***************************************************************************)
(* update_volume_MDCache, item by item.                                     *)
(***************************************************************************)
Forget(v, B) == stored' = [stored EXCEPT ![v] = [b \in LB(v) |-> IF b \in B THEN Miss ELSE @[b]]]

(* An item that is not valid, or has no memory, is invalidated instead.     *)
NextItem(t, ok) ==
  /\ th[t].pc = "item"
  /\ IF th[t].todo = <<>> THEN Goto(t, "end")
     ELSE Goto(t, IF ok /\ Head(th[t].todo).stat = "valid" THEN "find" ELSE "find_inval")
  /\ UNCHANGED <<table, pool, leaf, stored, twice>>

Items(t) == split_metadata(Head(th[t].todo))

NewLeaf(b, x) == [blk |-> b, item |-> x, ref |-> 0, del |-> FALSE]

(* One insertion: the leaf at the same block is replaced.  The HBID entry   *)
(* of the replaced leaf stays in the table.                                 *)
InsertLeaf(S, p, l, b, x) ==
  LET R == Unlink(S, p, LeafAt(S, p, b))
  IN [pool |-> [R.pool EXCEPT ![p].lru = <<l>> \o @, ![p].hb = insert_hbid_htbl(@, b, x.hbid)],
      leaf |-> [R.leaf EXCEPT ![l] = NewLeaf(b, x)]]

(* Under the mutex the size is looked at and room is made...                *)
KickFirst(n, count, size) == IF n + count - size > size THEN size ELSE n + count - size

ChkSize(t) ==
  LET p == th[t].pool
      n == Len(Items(t))
  IN /\ Locked(t, "locked", "update")
     /\ IF n > pool[p].size
        THEN /\ Apply(Unref(State, p))
             /\ th' = [th EXCEPT ![t].pc = "failed", ![t].pool = None, ![t].bk = <<>>]
        ELSE /\ Apply(KickCount([State EXCEPT !.pool[p].lock = TRUE], p,
                               KickFirst(Len(pool[p].lru), n, pool[p].size)))
             /\ th' = [th EXCEPT ![t].pc = "insert"]
     /\ UNCHANGED <<table, stored, twice>>

(* ... then the items are inserted.                                         *)
(* The leaves are taken from the free ones; fail[i] says which allocation   *)
(* of block i fails: None, "leaf" or "insert".  The last one decides the    *)
(* return value.                                                            *)
cache_update(t, ls, fail) ==
  LET v == th[t].vol
      p == th[t].pool
      x == Items(t)
      n == Len(x)
      after == FoldLeft(LAMBDA S, i : IF fail[i] = None
                   THEN InsertLeaf(S, p, ls[i], th[t].lb + i - 1, x[i]) ELSE S,
                 [State EXCEPT !.pool[p].lock = FALSE], [i \in 1..n |-> i])
  IN /\ At(t, "insert", "update")
     /\ \A i \in 1..n : leaf[ls[i]] = NoLeaf
     /\ Apply(Unref(after, p))
     /\ stored' = [stored EXCEPT ![v] = [b \in LB(v) |->
          IF b \in th[t].lb .. th[t].lb + n - 1
          THEN IF fail[b - th[t].lb + 1] = None THEN x[b - th[t].lb + 1] ELSE Miss
          ELSE @[b]]]
     /\ th' = [th EXCEPT ![t].pc = IF fail[n] = None THEN "next" ELSE "failed",
                 ![t].pool = None, ![t].bk = IF fail[n] = None THEN <<>> ELSE fail]
     /\ UNCHANGED <<table, twice>>

(* The caller of a failed update invalidates the blocks and frees its items *)
(* whatever became of them: only the ones with no leaf are still its own.   *)
UpdateFailed(t) ==
  /\ th[t].pc = "failed"
  /\ twice' = (twice \/ \E i \in DOMAIN th[t].bk : th[t].bk[i] # "leaf")
  /\ th' = [th EXCEPT ![t].pc = "find_inval", ![t].bk = <<>>]
  /\ UNCHANGED <<table, pool, leaf, stored>>

InvalItem(t) ==
  LET p == th[t].pool
      B == th[t].lb .. th[t].lb + Len(Head(th[t].todo).hbids) - 1
  IN /\ th[t].pc = "inval" /\ ~pool[p].lock
     /\ Apply(Unref(TakeOut(State, p, UNION {LeafAt(State, p, b) : b \in B}), p))
     /\ Forget(th[t].vol, B)
     /\ Goto(t, "next")
     /\ UNCHANGED <<table, twice>>

AfterItem(t) ==
  /\ th[t].pc = "next"
  /\ th' = [th EXCEPT ![t].pc = "item", ![t].lb = @ + Len(Head(th[t].todo).hbids),
              ![t].todo = Tail(@)]
  /\ UNCHANGED <<table, pool, leaf, stored, twice>>

-----------------------------------------------------------------------------
(***************************************************************************)
(* The other invalidations, and the life of a pool.                         *)
(***************************************************************************)
cache_invalidate_volLB(t) ==
  LET p == th[t].pool
  IN /\ Locked(t, "locked", "invalLB")
     /\ Apply(Unref(TakeOut(State, p, LeafAt(State, p, th[t].lb)), p))
     /\ Forget(th[t].vol, {th[t].lb})
     /\ Goto(t, "end")
     /\ UNCHANGED <<table, twice>>

kick_meta_cache(t, op, pc) ==
  LET p == th[t].pool
  IN /\ Locked(t, "locked", op)
     /\ Apply(Unref(KickAll(State, p, InPool(State, p)), p))
     /\ Forget(th[t].vol, LB(th[t].vol))
     /\ Goto(t, pc)
     /\ UNCHANGED <<table, twice>>

(* inval_volume_MDCache_DN and _HBID: every pool, under the table's lock    *)
(* and its own.                                                             *)
AllLocked == ~Resizing /\ \A v \in Vol : table[v] # None => ~pool[table[v]].lock

EveryPool(Kick(_, _)) ==
  FoldLeft(LAMBDA S, v : IF table[v] = None THEN S ELSE Kick(S, table[v]), State, VolOrder)

ForgetItems(Gone(_)) ==
  stored' = [v \in Vol |-> IF table[v] = None THEN stored[v] ELSE [b \in LB(v) |->
     IF stored[v][b] # Miss /\ Gone(stored[v][b]) THEN Miss ELSE stored[v][b]]]

cache_kick_allpool(t, dn) ==
  LET Has(x) == is_mditem_has_DN(x, dn)
  IN /\ At(t, "all", "invalDN") /\ AllLocked
     /\ Apply(EveryPool(LAMBDA S, p : KickAll(S, p, {l \in InPool(S, p) : Has(S.leaf[l].item)})))
     /\ ForgetItems(Has)
     /\ Goto(t, "end")
     /\ UNCHANGED <<table, twice>>

(* The blocks the HBID table of a pool names.                               *)
HBBlocks(hb, h) == {e[2] : e \in {e \in hb : e[1] = h}}

cache_invalidate_by_HBID(t, h) ==
  /\ At(t, "all", "invalHB") /\ AllLocked
  /\ Apply(EveryPool(LAMBDA S, p :
       LET B == HBBlocks(S.pool[p].hb, h)
       IN Unlink([S EXCEPT !.pool[p].hb = {e \in @ : e[1] # h}], p,
                 UNION {LeafAt(S, p, b) : b \in B})))
  /\ ForgetItems(LAMBDA x : x.hbid = h)
  /\ Goto(t, "end")
  /\ UNCHANGED <<table, twice>>

cacheMgr_create_pool(t, p) ==
  LET v == th[t].vol
  IN /\ th[t].pc = "create" /\ pool[p].st = "free" /\ ~Resizing
     /\ IF table[v] = None
        THEN /\ table' = [table EXCEPT ![v] = p]
             /\ pool' = [pool EXCEPT ![p] = [NoPool EXCEPT !.st = "in", !.vol = v, !.size = Cap[v]]]
        ELSE /\ pool' = [pool EXCEPT ![table[v]].ref = @ + 1] /\ UNCHANGED table
     /\ Goto(t, "resize")
     /\ UNCHANGED <<leaf, stored, twice>>

(* cacheMgr_rel_pool: the pool was emptied (kick_meta_cache), leaves the    *)
(* table and is freed when nobody counts in it.  A call that stays longer   *)
(* than MAX_FREE_VOL_RETRY looks, a second each, makes it leak ("slow").    *)
rm_cache_pool_tbl(t) ==
  LET p == table[th[t].vol]
  IN /\ At(t, "rm", "release") /\ ~Resizing
     /\ IF p = None THEN Goto(t, "end") /\ UNCHANGED <<table, pool>>
        ELSE /\ table' = [table EXCEPT ![th[t].vol] = None]
             /\ pool' = [pool EXCEPT ![p].st = "out"]
             /\ th' = [th EXCEPT ![t].pc = "free", ![t].pool = p]
     /\ UNCHANGED <<leaf, stored, twice>>

MayFree(p) == pool[p].ref = 0 \/ "slow" \in Faults

free_cache_pool(t) ==
  LET p == th[t].pool
  IN /\ At(t, "free", "release") /\ MayFree(p)
     /\ pool' = [pool EXCEPT ![p] = IF @.ref = 0 THEN NoPool ELSE [@ EXCEPT !.st = "leaked"]]
     /\ Goto(t, "resize")
     /\ UNCHANGED <<table, leaf, stored, twice>>

-----------------------------------------------------------------------------
(* The volume manager creates the pool of a volume once and releases it     *)
(* when the volume has no IO: no query or update is in progress, unless     *)
(* stop_volume has waited too long for that ("timeout").                    *)
Busy(v, ops) == \E t \in Thread : th[t].pc # "idle" /\ th[t].vol = v /\ th[t].op \in ops
Allowed(c) ==
  CASE c[1] = "create"  -> table[c[2]] = None /\ ~Busy(c[2], {"create", "release"})
    [] c[1] = "release" -> table[c[2]] # None /\ ~Busy(c[2], {"create", "release"})
                              /\ ("timeout" \in Faults \/ ~Busy(c[2], {"query", "update"}))
    [] c[1] \in {"query", "update"} -> table[c[2]] # None /\ ~Busy(c[2], {"create", "release"})
    [] OTHER -> TRUE

Fails(n) == [1..n -> {None} \cup (Faults \cap {"leaf", "insert"})]
SeqsOf(n) == {s \in [1..n -> Leaf] : \A i, j \in 1..n : i # j => s[i] # s[j]}

Call(t) ==
  \E c \in Cmds[t] :
    /\ Allowed(c)
    /\ IF c[1] = "update" THEN \E md \in Metadata : Begin(t, c, 0, md)
       ELSE \E b \in IF c[1] \in {"query", "invalLB"} THEN LB(c[2]) ELSE {0} : Begin(t, c, b, <<>>)

FreeLeaves(n) == CHOOSE s \in SeqsOf(n) : \A i \in 1..n : leaf[s[i]] = NoLeaf

Update(t) ==
  /\ At(t, "insert", "update")
  /\ \E fail \in Fails(Len(Items(t))) : cache_update(t, FreeLeaves(Len(Items(t))), fail)

Step(t) ==
  \/ find_cache_pool(t) \/ EndCall(t)
  \/ update_cache_pool_size(t) \/ KickExcess(t) \/ EndResize(t)
  \/ cache_find(t) \/ BuildAnswer(t) \/ cache_put(t)
  \/ NextItem(t, TRUE) \/ NextItem(t, FALSE) \/ ChkSize(t) \/ Update(t)
  \/ UpdateFailed(t) \/ InvalItem(t) \/ AfterItem(t)
  \/ cache_invalidate_volLB(t)
  \/ kick_meta_cache(t, "invalVol", "end") \/ kick_meta_cache(t, "release", "rm")
  \/ \E dn \in DN : cache_kick_allpool(t, dn)
  \/ \E h \in HBID : cache_invalidate_by_HBID(t, h)
  \/ \E p \in Pool : cacheMgr_create_pool(t, p)
  \/ rm_cache_pool_tbl(t) \/ free_cache_pool(t)

Next == \E t \in Thread : Call(t) \/ Step(t)
Spec == Init /\ [][Next]_vars

-----------------------------------------------------------------------------
Attached == {p \in Pool : pool[p].st = "in"}
Held(t) == IF th[t].op = "query" THEN ToSet(th[t].bk) \ {None} ELSE {}

(* A leaf that a query found stays allocated until the query puts it back,  *)
(* whatever kicks, invalidates or replaces it meanwhile, its count is the   *)
(* number of queries that hold it, and a leaf no query holds is in a pool   *)
(* of the table: none is lost (cache_find, cache_put, tree_leaf_cnt).       *)
LeavesAreUsers ==
  /\ \A t \in Thread : \A l \in Held(t) : leaf[l] # NoLeaf
  /\ \A l \in Leaf : leaf[l] # NoLeaf =>
       /\ leaf[l].ref = Cardinality({t \in Thread : l \in Held(t)})
       /\ leaf[l].ref = 0 => \E p \in Attached : l \in ToSet(pool[p].lru)

(* A query answers for exactly its blocks and, for each of them, either a   *)
(* miss or what was last stored and not invalidated when it looked: the     *)
(* splitting, merging and rebuilding of the metadata loses nothing.         *)
QueryIsLatest ==
  \A t \in Thread : (th[t].op = "query" /\ th[t].got # <<>>) =>
    LET b == BlocksOf(th[t].got)
    IN /\ Len(b) = Len(th[t].want)
       /\ \A i \in DOMAIN b : b[i] \in {Miss, th[t].want[i]}
       /\ BlockNumbers(th[t].got) = Range_(t)

(* No pool holds more items than its size, however updates, replacements    *)
(* and changes of the sizes follow each other (cache_update kicks first,    *)
(* update_cache_pool_size kicks after), once the excess has been kicked.    *)
(* After a change that came while an update was between its look at the     *)
(* size and its insertions, the size that update saw is the limit.          *)
Excess(p) == \E t \in Thread : th[t].pc = "kick" /\ \E i \in DOMAIN th[t].todo : th[t].todo[i][1] = p
SizesRespected ==
  \A p \in Attached : Len(pool[p].lru) <= Largest(pool[p].size, pool[p].late) \/ Excess(p)

(* Not so in the code: the size of a pool that nobody works on is kept.     *)
SizesKept ==
  (\A t \in Thread : th[t].pc = "idle") => \A p \in Attached : Len(pool[p].lru) <= pool[p].size

(* All pools together hold no more than the node may: "total cache items in *)
(* disco clientnode = dms_client_config->max_meta_cache_sizes" (cache.c).   *)
TotalWithinMax ==
  (\A t \in Thread : th[t].pc \notin {"resize", "kick"}) =>
    MapThenSumSet(LAMBDA p : pool[p].size, Attached) <= MaxItems

(* The count of a pool is the number of calls in it, and a pool is freed    *)
(* only when no call is in it (_find_cache_pool, _free_cache_pool).         *)
PoolsAreUsers ==
  \A p \in Pool : /\ pool[p].st # "leaked"
                  /\ pool[p].ref = Cardinality({t \in Thread : th[t].pool = p /\ th[t].pc # "free"})

(* The cache is sound: no leaf or pool is freed in use or lost, no item is  *)
(* freed twice, and no pool exceeds its size.                               *)
CacheIsSound == LeavesAreUsers /\ PoolsAreUsers /\ SizesRespected /\ ~twice
=============================================================================
