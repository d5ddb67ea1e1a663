-------------------------------- MODULE Wire --------------------------------
(***************************************************************************)
(* The bytes of a packet, symbolically.  A number of w bytes that htons,   *)
(* htonl or htonll put into a buffer is w cells that name the number, its  *)
(* width and the place of the byte; reading w bytes and converting them    *)
(* back gives the number exactly when those w cells are its w bytes in     *)
(* order, and Garbled in every other case, so a reader whose offsets       *)
(* disagree with the writer's is told apart from one whose offsets agree.  *)
(* A character is a number of one byte, NUL is 0; an IP address is the     *)
(* sequence of its characters, which are not 0.                            *)
(***************************************************************************)
EXTENDS Integers, Sequences, SequencesExt

\* A value no field of a well-formed packet holds.
Garbled == -999
\* A byte nobody wrote: what the stack or the buffer held before.
Junk == [v |-> Garbled, w |-> 0, i |-> 0]
NUL == 0

\* htons, htonl, htonll and the memcpy of the result: a number is cut to w bytes.
Put(w, v) == [i \in 1..w |-> [v |-> IF w < 4 THEN v % (256 ^ w) ELSE v, w |-> w, i |-> i]]

\* memcpy and ntohs, ntohl, ntohll of the first w bytes of b.
Get(b, w) ==
  IF Len(b) >= w /\ \A i \in 1..w : b[i] = [v |-> b[1].v, w |-> w, i |-> i]
  THEN b[1].v ELSE Garbled

\* The bytes of b from offset o on.
From(b, o) == IF o < 0 THEN << >> ELSE SubSeq(b, o + 1, Len(b))

\* The characters of s in a field of n bytes that was cleared before.
PutStr(s, n) == FlattenSeq([i \in 1..n |-> Put(1, IF i <= Len(s) THEN s[i] ELSE NUL)])
\* n bytes as characters.
GetStr(b, n) == [i \in 1..n |-> Get(From(b, i - 1), 1)]

\* sprintf of an address into a buffer that is cleared first.
ccma_inet_aton(ip, n) == [i \in 1..n |-> IF i <= Len(ip) THEN ip[i] ELSE NUL]
\* sscanf of a buffer: the characters up to the first NUL.
ccma_inet_ntoa(s) ==
  SubSeq(s, 1, (CHOOSE n \in 0..Len(s) : /\ n = Len(s) \/ s[n + 1] = NUL
                                         /\ \A i \in 1..n : s[i] /= NUL))

(***************************************************************************)
(* A packed struct is a sequence of <<field, width>>.                      *)
(***************************************************************************)
Size(lay) == FoldLeft(LAMBDA n, e : n + e[2], 0, lay)
Pack(lay, rec) == FlattenSeq([k \in 1..Len(lay) |-> Put(lay[k][2], rec[lay[k][1]])])
Unpack(lay, b) ==
  [x \in {lay[k][1] : k \in 1..Len(lay)} |->
     LET k == CHOOSE j \in 1..Len(lay) : lay[j][1] = x
     IN  Get(From(b, Size(SubSeq(lay, 1, k - 1))), lay[k][2])]

(***************************************************************************)
(* A physical location: the block of disk, the number of sectors and the   *)
(* offset in one 64-bit word.  The length has 12 bits, and comes back      *)
(* with the sign of its top bit.  A word is kept as its three parts.       *)
(***************************************************************************)
LenBits == 4096
compose_triple(rbid, len, off) == <<rbid, len % LenBits, off>>
decompose_triple(val) ==
  [rbid |-> val[1], off |-> val[3],
   len |-> IF val[2] >= LenBits \div 2 THEN val[2] - LenBits ELSE val[2]]
=============================================================================
