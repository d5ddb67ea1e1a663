------------------------------- MODULE MemPool -------------------------------
(***************************************************************************)
(* The memory pools of the driver (common/discoC_mem_manager.c): a pool    *)
(* holds a fixed number of items, a free list that is used from its head   *)
(* and filled at its tail, and a counter of the free items that the        *)
(* threads wait for.  An item keeps its old contents when it is used       *)
(* again: nobody clears it.                                                *)
(***************************************************************************)
EXTENDS Integers, Sequences, SequencesExt, FiniteSets

CONSTANTS MAX_DISCOC_MEM_POOL   \* pools the driver can register

\* What allocation answers when there is nothing to give.
NoItem == 0

\* init_mempool_manager: a pool nobody registered yet.
_init_mempool_item ==
  [free |-> << >>, used |-> {}, num_free_items |-> 0, pool_size |-> 0,
   is_pool_working |-> FALSE]
init_mempool_manager == [id |-> -1, pool |-> [p \in 0..MAX_DISCOC_MEM_POOL - 1 |-> _init_mempool_item]]

\* The driver's array holds ids 0 to MAX - 1, the test lets MAX through.
_get_mem_pool(id) == 0 <= id /\ id <= MAX_DISCOC_MEM_POOL

\* One more item on the free list: item n of the pool, cleared.
_alloc_mmpool_items(p) ==
  [p EXCEPT !.free = Append(@, p.pool_size + 1), !.pool_size = @ + 1,
            !.num_free_items = @ + 1]
_alloc_lmmpool_items(p) == _alloc_mmpool_items(p)

\* got of the items asked for could be allocated; the pool makes do with
\* them unless there is none.
_fill_pool_items(p, got) == FoldLeft(LAMBDA q, i : _alloc_mmpool_items(q), p, [i \in 1..got |-> i])
_setup_mempool_item(p, got) ==
  LET q == _fill_pool_items(p, got)
  IN  [q EXCEPT !.is_pool_working = q.pool_size > 0]

\* The next pool id, or none.
_alloc_mem_pool(id) == IF id + 1 >= MAX_DISCOC_MEM_POOL THEN -1 ELSE id + 1

\* register_mem_pool for n items of which got can be allocated: the manager
\* and the id of the pool, -1 for a failure.
register_mem_pool(m, n, got) ==
  LET id == _alloc_mem_pool(m.id)
      p  == _setup_mempool_item(m.pool[id], got)
  IN  IF n <= 0 THEN [m |-> m, id |-> -1]
      ELSE IF id < 0 THEN [m |-> [m EXCEPT !.id = @ + 1], id |-> -1]
      ELSE [m |-> [id |-> id, pool |-> [m.pool EXCEPT ![id] = p]],
            id |-> IF p.pool_size > 0 THEN id ELSE -1]

\* The head of the free list goes to the user.
_get_mem_from_pool(p) ==
  IF p.free = << >> THEN [p |-> p, item |-> NoItem]
  ELSE [p |-> [p EXCEPT !.free = Tail(@), !.used = @ \cup {Head(p.free)}, !.num_free_items = @ - 1],
        item |-> Head(p.free)]
mem_pool_alloc_nowait(p) == _get_mem_from_pool(p)

\* A thread in mem_pool_alloc goes on when there is an item or the pool is
\* closed; the timeout of its wait only warns.
CanAlloc(p) == p.num_free_items > 0 \/ ~p.is_pool_working
mem_pool_alloc(p) ==
  IF p.is_pool_working THEN _get_mem_from_pool(p) ELSE [p |-> p, item |-> NoItem]

\* list_move_tail: from whatever list it is on to the end of the free list.
_free_mem_to_pool(p, x) ==
  [p EXCEPT !.free = Append(SelectSeq(@, LAMBDA y : y /= x), x), !.used = @ \ {x},
            !.num_free_items = @ + 1]
mem_pool_free(p, x) == IF x = NoItem THEN p ELSE _free_mem_to_pool(p, x)

\* What is on the free list is given back, the rest is lost: the caller is
\* told when that is not every item.
_free_mem_list(p) == [p EXCEPT !.free = << >>]
deregister_mem_pool(p) ==
  [p |-> [_free_mem_list(p) EXCEPT !.is_pool_working = FALSE],
   ok |-> Len(p.free) = p.pool_size]

\* Every pool that still works is closed.
rel_mempool_manager(m) ==
  [m EXCEPT !.pool = [i \in DOMAIN @ |->
                        IF @[i].is_pool_working THEN deregister_mem_pool(@[i]).p ELSE @[i]]]
=============================================================================
