----------------------------- MODULE Reassembly -----------------------------
(***************************************************************************)
(* Reassembly: ip4_reass() and ip_reass_tmr() of lwip/ipv4/ip4_frag.c, and  *)
(* ip6_reass() and ip6_reass_tmr() of lwip/ipv6/ip6_frag.c, which keep the  *)
(* same list with different code.  Every fragment read from the TUN is one  *)
(* pbuf.  The kernel (external) has cut each datagram somehow; its          *)
(* fragments arrive in any order, some twice, some never.                   *)
(***************************************************************************)
EXTENDS Integers, Sequences, SequencesExt, FiniteSets

CONSTANTS
  Datagrams,   \* identified by addresses and IP identification
  Cuts,        \* Cuts[d]: the places where d is cut, 0 and its length included
  WithOptions, \* datagrams with IPv4 header options
  MaxPbufs,    \* IP_REASS_MAX_PBUFS
  MaxAge       \* IP_REASS_MAXAGE, IPV6_REASS_MAXAGE

VARIABLES
  ip,     \* which of the two: 4 or 6
  r,      \* the static variables reassdatagrams, ip_reass_pbufcount
  out     \* what the last step passed on, and the errors it sent

vars == <<ip, r, out>>

\* struct ip_reassdata.  hdr is the fragment whose header is kept.
NewDatagram(f) ==
  [id |-> f.id, p |-> <<>>, hdr |-> f.start, datagram_len |-> 0, last |-> FALSE, timer |-> MaxAge]

LWIP_ASSERT(s, holds) == [s EXCEPT !.sane = @ /\ holds]
IndexOf(s, id) == {i \in 1 .. Len(s.list) : s.list[i].id = id}
Has(s, id) == IndexOf(s, id) # {}
The(s, id) == CHOOSE i \in IndexOf(s, id) : TRUE
Empty == [whole |-> <<>>, exceeded |-> {}]

----------------------------------------------------------------------------
\* The fragments of a datagram are dropped, with an ICMP error if the first one
\* is among them.
ip_reass_free_complete_datagram(s, i) ==
  LET e == s.list[i]
      q == LWIP_ASSERT(s, e.p # <<>> /\ s.pbufcount >= Len(e.p))
  IN [q EXCEPT !.list = RemoveAt(@, i), !.pbufcount = @ - Len(e.p),
               !.exceeded = IF e.p[1].start = 0 THEN @ \cup {e.id} ELSE @]

\* IPv6 has code of its own for it.
ip6_reass_free_complete_datagram(s, i) == ip_reass_free_complete_datagram(s, i)

\* ip_reass_tmr(), ip6_reass_tmr(): from the head to the end of the list.
RECURSIVE Aged(_, _)
Aged(s, i) ==
  IF i > Len(s.list) THEN s
  ELSE IF s.list[i].timer > 0 THEN Aged([s EXCEPT !.list[i].timer = @ - 1], i + 1)
  ELSE Aged(IF ip = 4 THEN ip_reass_free_complete_datagram(s, i)
            ELSE ip6_reass_free_complete_datagram(s, i), i)

ip_reass_tmr(s) == Aged(s, 1)

\* The last of the datagrams in S with the least timer.
Oldest(s, S) ==
  CHOOSE i \in S : \A j \in S : s.list[i].timer < s.list[j].timer
                                  \/ (s.list[i].timer = s.list[j].timer /\ j <= i)

\* ip_reass_remove_oldest_datagram(): returns how many pbufs it freed.
RECURSIVE RemoveOldest4(_, _, _, _)
RemoveOldest4(s, id, pbufs_needed, pbufs_freed) ==
  LET other == (1 .. Len(s.list)) \ IndexOf(s, id)
      i == Oldest(s, other)
      freed == pbufs_freed + Len(s.list[i].p)
      t == ip_reass_free_complete_datagram(s, i)
  IN IF other = {} THEN <<s, pbufs_freed>>
     ELSE IF freed < pbufs_needed /\ Cardinality(other) > 1
     THEN RemoveOldest4(t, id, pbufs_needed, freed) ELSE <<t, freed>>

\* ip6_reass_remove_oldest_datagram(): the search begins with the head of the
\* list even if that is the datagram to keep.
RECURSIVE RemoveOldest6(_, _, _)
RemoveOldest6(s, id, pbufs_needed) ==
  LET other == (1 .. Len(s.list)) \ IndexOf(s, id)
      i == Oldest(s, other \cup {1})
      t == ip6_reass_free_complete_datagram(s, i)
  IN IF s.list = <<>> \/ s.list[i].id = id THEN s
     ELSE IF t.pbufcount + pbufs_needed > MaxPbufs /\ t.list # <<>>
     THEN RemoveOldest6(t, id, pbufs_needed) ELSE t

----------------------------------------------------------------------------
\* The list of fragments: where f goes, whether it overlaps, and whether the
\* fragments before and after it are contiguous.
Before(p, f) == {k \in 1 .. Len(p) : p[k].start <= f.start}
Place(p, f) == Cardinality(Before(p, f))

Overlaps(p, f) ==
  LET k == Place(p, f)
  IN \/ k > 0 /\ (p[k].start = f.start \/ f.start < p[k].end)
     \/ k < Len(p) /\ f.end > p[k + 1].start

\* Mutant: gaps between fragments are not looked at.
GapsIgnored(p, from, to) == TRUE

Contiguous(p, from, to) == \A k \in from .. to - 1 : p[k].end = p[k + 1].start

\* ip_reass_chain_frag_into_datagram_and_validate()
PBUF_DROPPED == "PBUF_DROPPED"
PBUF_QUEUED == "PBUF_QUEUED"
TELEGRAM_FINISHED == "TELEGRAM_FINISHED"

ip_reass_chain_frag_into_datagram_and_validate(e, f, is_last) ==
  LET k == Place(e.p, f)
      p == InsertAt(e.p, k + 1, f)
      valid == /\ Contiguous(p, 1, k + 1)
               /\ p[1].start = 0
               /\ Contiguous(p, k + 1, Len(p))
  IN IF Overlaps(e.p, f) THEN <<PBUF_DROPPED, e>>
     ELSE <<IF (is_last \/ e.last) /\ valid THEN TELEGRAM_FINISHED ELSE PBUF_QUEUED,
            [e EXCEPT !.p = p]>>

\* The fragments are joined, with the header of the first and the new length.
Join(s, i) ==
  LET e == s.list[i]
      q == LWIP_ASSERT(s, s.pbufcount >= Len(e.p))
  IN [q EXCEPT !.list = RemoveAt(@, i), !.pbufcount = @ - Len(e.p),
               !.whole = <<[id |-> e.id, hdr |-> e.hdr, len |-> e.datagram_len, pieces |-> e.p]>>]

\* Mutant: a fragment restarts the timer of its datagram.
Found4Restarts(s, f) ==
  IF Has(s, f.id)
  THEN [s EXCEPT !.list[The(s, f.id)].timer = MaxAge,
                 !.list[The(s, f.id)].hdr = IF f.start = 0 THEN 0 ELSE @]
  ELSE [s EXCEPT !.list = <<NewDatagram(f)>> \o @]

\* ip4_reass()
Found4(s, f) ==
  IF Has(s, f.id)
  THEN IF f.start = 0 THEN [s EXCEPT !.list[The(s, f.id)].hdr = 0] ELSE s
  ELSE [s EXCEPT !.list = <<NewDatagram(f)>> \o @]

Chain4(s, f) ==
  LET i == The(s, f.id)
      v == ip_reass_chain_frag_into_datagram_and_validate(s.list[i], f, ~f.mf)
      e == IF f.mf THEN v[2] ELSE [v[2] EXCEPT !.last = TRUE, !.datagram_len = f.end]
      t == [s EXCEPT !.list[i] = e, !.pbufcount = @ + 1]
  IN CASE v[1] = PBUF_DROPPED ->
            IF s.list[i].p = <<>> THEN [LWIP_ASSERT(s, i = 1) EXCEPT !.list = Tail(@)] ELSE s
       [] v[1] = PBUF_QUEUED -> t
       [] v[1] = TELEGRAM_FINISHED -> Join(LWIP_ASSERT(t, Len(e.p) > 1), i)

\* Fragments are cut from whole packets, so the checks of ip4_reass() and
\* ip6_reass() on lengths and on offsets past 16 bits are met by all of them.
ip4_reass(s, f) ==
  LET room == s.pbufcount + 1 <= MaxPbufs
      o == RemoveOldest4(s, f.id, 1, 0)
  IN IF f.id \in WithOptions THEN s
     ELSE IF room THEN Chain4(Found4(s, f), f)
     ELSE IF o[2] = 0 \/ o[1].pbufcount + 1 > MaxPbufs THEN o[1]
     ELSE Chain4(Found4(o[1], f), f)

----------------------------------------------------------------------------
\* ip6_reass(): the datagram is found, or made, before room is made for the
\* fragment, so the place of its predecessor in the list is found again then.
Pred(s, id) == IF s.list[1].id = id THEN "none" ELSE s.list[The(s, id) - 1].id

\* Where the search for the datagram stops: for one not in the list, at its end.
SearchPrev(s, id) ==
  IF Has(s, id) THEN Pred(s, id)
  ELSE IF s.list = <<>> THEN "none" ELSE s.list[Len(s.list)].id

Found6(s, f) ==
  IF Has(s, f.id) THEN s ELSE [s EXCEPT !.list = <<NewDatagram(f)>> \o @]

Room6(s, f) ==
  IF s.pbufcount + 1 > MaxPbufs THEN RemoveOldest6(s, f.id, 1) ELSE s

\* IPv6 puts the fragment headers behind each other and joins the same way.
Join6(s, i) == Join(s, i)

Chain6(s, f, ipr_prev) ==
  LET i == The(s, f.id)
      k == Place(s.list[i].p, f)
      p == InsertAt(s.list[i].p, k + 1, f)
      e == [s.list[i] EXCEPT !.p = p, !.hdr = IF f.start = 0 THEN 0 ELSE @,
                             !.datagram_len = IF f.mf THEN @ ELSE f.end]
      t == [s EXCEPT !.list[i] = e, !.pbufcount = @ + 1]
      valid == /\ Contiguous(p, 1, k + 1)
               /\ p[1].start = 0
               /\ e.datagram_len # 0
               /\ Contiguous(p, k + 1, Len(p))
  IN IF Overlaps(s.list[i].p, f) THEN s
     ELSE IF ~valid THEN t
     ELSE Join6(LWIP_ASSERT(t, ipr_prev = Pred(t, f.id)), i)

\* Mutant: the predecessor is not searched again after room was made.
ip6_reassStale(s, f) ==
  LET t == Room6(Found6(s, f), f)
  IN IF t.pbufcount + 1 > MaxPbufs THEN t ELSE Chain6(t, f, SearchPrev(s, f.id))

ip6_reass(s, f) ==
  LET found == Found6(s, f)
      t == Room6(found, f)
      full == found.pbufcount + 1 > MaxPbufs
      ipr_prev == IF full THEN Pred(t, f.id) ELSE SearchPrev(s, f.id)
  IN IF t.pbufcount + 1 > MaxPbufs THEN t ELSE Chain6(t, f, ipr_prev)

----------------------------------------------------------------------------
\* The fragments of d (external: the kernel's).
Ends(d, from) == {c \in Cuts[d] : c > from}
FragmentsOf(d) ==
  {[id |-> d, start |-> c, end |-> CHOOSE x \in Ends(d, c) : \A y \in Ends(d, c) : x <= y,
    mf |-> Cardinality(Ends(d, c)) > 1] : c \in {x \in Cuts[d] : Ends(d, x) # {}}}

Init ==
  /\ ip \in {4, 6}
  /\ r = [list |-> <<>>, pbufcount |-> 0, sane |-> TRUE]
  /\ out = Empty

Becomes(s) ==
  /\ r' = [list |-> s.list, pbufcount |-> s.pbufcount, sane |-> s.sane]
  /\ out' = [whole |-> s.whole, exceeded |-> s.exceeded]
  /\ UNCHANGED ip

Start == [list |-> r.list, pbufcount |-> r.pbufcount, sane |-> r.sane, whole |-> <<>>, exceeded |-> {}]

\* ip4_input() or ip6_input() of a fragment.
Arrive(f) == Becomes(IF ip = 4 THEN ip4_reass(Start, f) ELSE ip6_reass(Start, f))

\* The timer of core.c.
Tick == Becomes(ip_reass_tmr(Start))

Next == (\E d \in Datagrams : \E f \in FragmentsOf(d) : Arrive(f)) \/ Tick

Spec == Init /\ [][Next]_vars /\ WF_vars(Tick)

----------------------------------------------------------------------------
\* A datagram passed on is the one that was sent: its fragments once each, in
\* order and without a gap, under the first one's header and with the length of
\* all of them, in whatever order they came and whatever was dropped.
DatagramWhole ==
  \A k \in 1 .. Len(out.whole) :
    LET w == out.whole[k]
    IN /\ Range(w.pieces) = FragmentsOf(w.id)
       /\ Contiguous(w.pieces, 1, Len(w.pieces))
       /\ w.hdr = 0
       /\ \A c \in Cuts[w.id] : c <= w.len
       /\ w.len \in Cuts[w.id]

\* The pbufs waiting are counted exactly and never exceed the limit, each
\* datagram waits once and with some fragment, and no LWIP_ASSERT fails: not
\* even when making room for a fragment removes list entries around its own.
\* A datagram is passed on by the very fragment that completes it: none that is
\* complete waits in the list, which nothing would ever complete again.
QueueSound ==
  /\ r.sane
  /\ r.pbufcount = FoldLeft(LAMBDA n, e : n + Len(e.p), 0, r.list)
  /\ r.pbufcount <= MaxPbufs
  /\ \A i \in 1 .. Len(r.list) : r.list[i].p # <<>>
  /\ \A i, j \in 1 .. Len(r.list) : r.list[i].id = r.list[j].id => i = j
  /\ \A i \in 1 .. Len(r.list) : Range(r.list[i].p) # FragmentsOf(r.list[i].id)

\* An incomplete datagram leaves the list after a while, even if fragments of
\* it keep arriving: its age is counted from the first.
IncompleteLeaves ==
  \A d \in Datagrams :
    (\E i \in 1 .. Len(r.list) : r.list[i].id = d) ~> (\A i \in 1 .. Len(r.list) : r.list[i].id # d)
=============================================================================
