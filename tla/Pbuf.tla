-------------------------------- MODULE Pbuf --------------------------------
(***************************************************************************)
(* The packet buffers of lwip/pbuf.c: chains of reference-counted pieces.   *)
(* A heap h maps the pbufs 1 .. Pbufs to structs; h.sane says that no       *)
(* LWIP_ASSERT failed and no pbuf was used after it was freed.  A payload   *)
(* is the place of its first byte in the stream or packet it belongs to.    *)
(***************************************************************************)
EXTENDS Integers, Sequences, SequencesExt, FiniteSets

CONSTANTS
  Pbufs,     \* pbufs there are (malloc() never fails)
  U16        \* values of a u16_t, the type of len and tot_len: 65536

NULL == 0

\* pbuf_init_alloced_pbuf() and the free pbuf.
Unused == [ref |-> 0, next |-> NULL, len |-> 0, tot_len |-> 0, payload |-> 0, original |-> NULL]
Heap0 == [pb |-> [x \in 1 .. Pbufs |-> Unused], sane |-> TRUE]

LWIP_ASSERT(h, holds) == [h EXCEPT !.sane = @ /\ holds]
Live(h, x) == x # NULL /\ h.pb[x].ref > 0

\* pbuf_alloc(), pbuf_alloc_reference() and pbuf_alloced_custom(): one piece.
\* The pbuf that the next allocation returns is Fresh(h).
Fresh(h) == CHOOSE x \in 1 .. Pbufs : h.pb[x].ref = 0 /\ \A y \in 1 .. x - 1 : h.pb[y].ref > 0

pbuf_alloc(h, length) ==
  [h EXCEPT !.pb[Fresh(h)] = [Unused EXCEPT !.ref = 1, !.len = length, !.tot_len = length]]

pbuf_alloced_custom(h, length, at, original) ==
  [h EXCEPT !.pb[Fresh(h)] = [Unused EXCEPT !.ref = 1, !.len = length, !.tot_len = length,
                                            !.payload = at, !.original = original]]

\* The pbufs of the chain at x, and pbuf_clen().
RECURSIVE Chain(_, _)
Chain(h, x) == IF x = NULL THEN <<>> ELSE <<x>> \o Chain(h, h.pb[x].next)

pbuf_clen(h, x) == Len(Chain(h, x))

\* pbuf_free(): down the chain, as long as the last reference goes.  A custom
\* pbuf gives back the reference to the one it points into.
RECURSIVE pbuf_free(_, _)
pbuf_free(h, x) ==
  IF x = NULL THEN h
  ELSE LET p == h.pb[x]
           g == LWIP_ASSERT(h, p.ref > 0)
       IN IF p.ref # 1 THEN [g EXCEPT !.pb[x].ref = @ - 1]
          ELSE pbuf_free(pbuf_free([g EXCEPT !.pb[x] = Unused], p.original), p.next)

pbuf_ref(h, x) == [LWIP_ASSERT(h, Live(h, x)) EXCEPT !.pb[x].ref = @ + 1]

\* pbuf_realloc(): the chain is cut to new_len bytes.
RECURSIVE Shrunk(_, _, _, _)
Shrunk(h, q, rem_len, shrink) ==
  IF rem_len > h.pb[q].len
  THEN Shrunk([h EXCEPT !.pb[q].tot_len = (@ - shrink) % U16], h.pb[q].next,
              rem_len - h.pb[q].len, shrink)
  ELSE LET cut == [h EXCEPT !.pb[q].len = rem_len, !.pb[q].tot_len = rem_len, !.pb[q].next = NULL]
       IN pbuf_free(cut, h.pb[q].next)

pbuf_realloc(h, p, new_len) ==
  IF new_len >= h.pb[p].tot_len THEN h
  ELSE Shrunk(LWIP_ASSERT(h, Live(h, p)), p, new_len, h.pb[p].tot_len - new_len)

\* pbuf_remove_header(): the payload of the first piece begins later.
pbuf_remove_header(h, p, n) ==
  [LWIP_ASSERT(h, Live(h, p) /\ n <= h.pb[p].len)
     EXCEPT !.pb[p].payload = @ + n, !.pb[p].len = @ - n, !.pb[p].tot_len = (@ - n) % U16]

\* pbuf_free_header(): size bytes are freed from the front.  Returns the heap
\* and the first pbuf that is left.
RECURSIVE pbuf_free_header(_, _, _)
pbuf_free_header(h, p, size) ==
  IF size = 0 \/ p = NULL THEN <<h, p>>
  ELSE IF size >= h.pb[p].len
  THEN pbuf_free_header(pbuf_free([h EXCEPT !.pb[p].next = NULL], p), h.pb[p].next, size - h.pb[p].len)
  ELSE <<pbuf_remove_header(h, p, size), p>>

\* pbuf_cat(), which takes over the caller's reference to t, and pbuf_chain(),
\* which does not.
pbuf_cat(h, head, t) ==
  LET c == Chain(h, head)
      z == c[Len(c)]
      g == LWIP_ASSERT(h, h.pb[z].tot_len = h.pb[z].len /\ Live(h, t))
  IN [g EXCEPT !.pb = [x \in 1 .. Pbufs |->
        IF x \in Range(c)
        THEN [@[x] EXCEPT !.tot_len = (@ + h.pb[t].tot_len) % U16,
                          !.next = IF x = z THEN t ELSE @]
        ELSE @[x]]]

\* Mutant: the chain takes over the caller's reference.
ChainTakesOver(h, head, t) == pbuf_cat(h, head, t)

pbuf_chain(h, head, t) == pbuf_ref(pbuf_cat(h, head, t), t)

\* pbuf_split_64k(): the chain is cut where its length would not fit a u16_t.
\* Returns the heap and the rest.
RECURSIVE FrontEnd(_, _, _)
FrontEnd(h, i, tot_len_front) ==
  LET r == h.pb[i].next
  IN IF r # NULL /\ tot_len_front + h.pb[r].len < U16 THEN FrontEnd(h, r, tot_len_front + h.pb[r].len) ELSE i

pbuf_split_64k(h, p) ==
  IF p = NULL \/ h.pb[p].next = NULL THEN <<h, NULL>>
  ELSE LET i == FrontEnd(h, p, h.pb[p].len)
           r == h.pb[i].next
           cut == [h EXCEPT !.pb[i].next = NULL]
           c == Range(Chain(cut, p))
           g == [cut EXCEPT !.pb = [x \in 1 .. Pbufs |->
                   IF x \in c THEN [@[x] EXCEPT !.tot_len = (@ - h.pb[r].tot_len) % U16] ELSE @[x]]]
       IN IF r = NULL THEN <<h, NULL>>
          ELSE <<LWIP_ASSERT(g, g.pb[i].tot_len = g.pb[i].len), r>>
=============================================================================
