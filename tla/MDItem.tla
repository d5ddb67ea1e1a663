------------------------------- MODULE MDItem -------------------------------
(***************************************************************************)
(* The two forms of metadata (metadata_cache.c).  The namenode's form is a  *)
(* metadata item: the HBIDs of a run of logical blocks and, for every       *)
(* replica, its datanode and the physical runs [r, l, o] (rbid, length,     *)
(* offset) that hold the blocks.  The cache's form is one item a block: its *)
(* HBID and, for every replica, the datanode and the place [dn, r, o].      *)
(***************************************************************************)
EXTENDS Integers, Sequences, SequencesExt

(* No item: the block is not in the cache.                                   *)
Miss == [hbid |-> 0, locs |-> <<>>]

Lens(phy) == FoldLeft(LAMBDA n, p : n + p.l, 0, phy)

(* The place of block i (from 0) in the physical runs of a replica.         *)
PlaceOf(phy, i) ==
  LET n == CHOOSE n \in 1..Len(phy) : /\ Lens(SubSeq(phy, 1, n - 1)) <= i
                                       /\ i < Lens(SubSeq(phy, 1, n))
  IN [r |-> phy[n].r, o |-> phy[n].o + i - Lens(SubSeq(phy, 1, n - 1))]

split_metadata(md) ==
  [i \in 1..Len(md.hbids) |->
    [hbid |-> md.hbids[i],
     locs |-> [m \in 1..Len(md.locs) |->
                 LET p == PlaceOf(md.locs[m].phy, i - 1)
                 IN [dn |-> md.locs[m].dn, r |-> p.r, o |-> p.o]]]]

(* A sequence of length n cut before every position of starts.              *)
Pieces(starts, n) ==
  LET s == SetToSortSeq(starts \cup {1}, <)
  IN [k \in DOMAIN s |-> <<s[k], IF k = Len(s) THEN n ELSE s[k + 1] - 1>>]

create_MDItem(items) ==
  [stat |-> "valid", hbids |-> [i \in DOMAIN items |-> items[i].hbid],
   locs |-> [m \in DOMAIN items[1].locs |->
               [dn  |-> items[1].locs[m].dn,
                phy |-> [i \in DOMAIN items |-> [r |-> items[i].locs[m].r, l |-> 1,
                                                 o |-> items[i].locs[m].o]]]]]

(* Mutant: runs that follow each other in different rbids are joined.       *)
Follows_AnyRbid(phy, k) == phy[k].o = phy[k - 1].o + phy[k - 1].l

Follows(phy, k) == /\ phy[k].r = phy[k - 1].r
                   /\ phy[k].o = phy[k - 1].o + phy[k - 1].l

getContTripletLength(phy) == Pieces({k \in 2..Len(phy) : ~Follows(phy, k)}, Len(phy))

merge_lr_triplet(md) ==
  [md EXCEPT !.locs = [m \in DOMAIN md.locs |->
    LET phy == md.locs[m].phy
        p   == getContTripletLength(phy)
    IN [md.locs[m] EXCEPT !.phy =
          [k \in DOMAIN p |-> [r |-> phy[p[k][1]].r, o |-> phy[p[k][1]].o,
                               l |-> Lens(SubSeq(phy, p[k][1], p[k][2]))]]]]]

SameDN(a, b) == /\ Len(a.locs) = Len(b.locs)
                /\ \A i \in DOMAIN a.locs : a.locs[i].dn = b.locs[i].dn

GetContLenForSameDN(items) ==
  Pieces({k \in 2..Len(items) : ~SameDN(items[k - 1], items[k])}, Len(items))

create_metadata(items) ==
  LET p == GetContLenForSameDN(items)
  IN [k \in DOMAIN p |-> merge_lr_triplet(create_MDItem(SubSeq(items, p[k][1], p[k][2])))]

get_max_seg_len(bk) ==
  Pieces({k \in 2..Len(bk) : (bk[k - 1] = Miss) # (bk[k] = Miss)}, Len(bk))

(* query_volume_MDCache: what the found items bk (Miss where there is none) *)
(* are answered as: segments from a block on, with no item when missed.     *)
(* The block a segment begins with is kept in an int32_t of word values.    *)
Int32(x, word) == LET y == x % word IN IF 2 * y >= word THEN y - word ELSE y

AnswerOf(bk, lb, word) ==
  LET p == get_max_seg_len(bk)
  IN [k \in DOMAIN p |->
       [lb |-> Int32(lb + p[k][1] - 1, word), len |-> p[k][2] - p[k][1] + 1,
        items |-> IF bk[p[k][1]] = Miss THEN <<>>
                  ELSE create_metadata(SubSeq(bk, p[k][1], p[k][2]))]]

(* The blocks an answer is about, one by one.                               *)
BlocksOf(ans) ==
  FlattenSeq([k \in DOMAIN ans |->
    IF ans[k].items = <<>> THEN [i \in 1..ans[k].len |-> Miss]
    ELSE FlattenSeq([j \in DOMAIN ans[k].items |-> split_metadata(ans[k].items[j])])])

BlockNumbers(ans) == FlattenSeq([k \in DOMAIN ans |-> [i \in 1..ans[k].len |-> ans[k].lb + i - 1]])

is_mditem_has_DN(item, dn) == \E m \in DOMAIN item.locs : item.locs[m].dn = dn
=============================================================================
