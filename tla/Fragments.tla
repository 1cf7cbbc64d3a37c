----------------------------- MODULE Fragments ------------------------------
(***************************************************************************)
(* Fragmentation: ip4_frag() of lwip/ipv4/ip4_frag.c and ip6_frag() of      *)
(* lwip/ipv6/ip6_frag.c.  A packet is a chain of pbufs, given by their      *)
(* lengths; its payload is the places 0, 1, ... in order.  A fragment is    *)
(* [start, bytes, mf]: where it goes, the places it carries, and whether    *)
(* more follow.                                                             *)
(***************************************************************************)
EXTENDS Integers, Sequences, SequencesExt, FiniteSets

CONSTANTS
  Block,     \* offsets count in blocks of this size: 8
  IpHlen,    \* IP_HLEN, IP6_HLEN
  FragHlen,  \* IP6_FRAG_HLEN
  Mtu,       \* of the interface: NSPROXY_MTU
  MaxPayload \* bound: bytes of a packet behind its header

SumTo(lens, n) == FoldLeft(+, 0, SubSeq(lens, 1, n))
Total(lens) == SumTo(lens, Len(lens))
Lesser(m, n) == IF m < n THEN m ELSE n

\* Bytes [from, from + n) of pbuf i of the chain, as places of the payload.
Ref(lens, i, from, n) == [k \in 1 .. n |-> SumTo(lens, i - 1) + from + k - 1 - IpHlen]

\* ip4_frag(): the loop that refers to the bytes of one fragment.  It starts in
\* pbuf i at poff and returns where it stopped.
RECURSIVE Refer4(_, _, _, _, _)
Refer4(lens, i, poff, left_to_copy, bytes) ==
  LET newpbuflen == Lesser(left_to_copy, lens[i] - poff)
      left == left_to_copy - newpbuflen
      all == bytes \o Ref(lens, i, poff, newpbuflen)
  IN IF newpbuflen = 0 \/ left > 0 THEN Refer4(lens, i + 1, 0, left, all)
     ELSE [i |-> i, poff |-> poff + newpbuflen, bytes |-> all]

RECURSIVE Frag4(_, _, _, _, _, _)
Frag4(lens, mtu, i, poff, left, ofo) ==
  LET nfb == (mtu - IpHlen) \div Block
      fragsize == Lesser(left, nfb * Block)
      r == Refer4(lens, i, poff, fragsize, <<>>)
      last == left <= mtu - IpHlen
  IN IF left = 0 THEN <<>>
     ELSE <<[start |-> ofo * Block, bytes |-> r.bytes, mf |-> ~last]>>
            \o Frag4(lens, mtu, r.i, r.poff, left - fragsize, ofo + nfb)

ip4_frag(lens, mtu) == Frag4(lens, mtu, 1, IpHlen, Total(lens) - IpHlen, 0)

\* ip6_frag(): the same, but the pbuf it stands in is advanced by what the last
\* fragment took of it: poff is from the place reached in it so far.
RECURSIVE Refer6(_, _, _, _, _)
Refer6(lens, i, at, left_to_copy, bytes) ==
  LET newpbuflen == Lesser(left_to_copy, lens[i] - at)
      left == left_to_copy - newpbuflen
      all == bytes \o Ref(lens, i, at, newpbuflen)
  IN IF newpbuflen = 0 \/ left > 0 THEN Refer6(lens, i + 1, 0, left, all)
     ELSE [i |-> i, at |-> at, poff |-> newpbuflen, bytes |-> all]

\* Mutant: the payload of a fragment is not cut to whole blocks.
UncutSize(mtu) == mtu - IpHlen - FragHlen

FragmentSize6(mtu) == ((mtu - IpHlen - FragHlen) \div Block) * Block

RECURSIVE Frag6(_, _, _, _, _, _, _)
Frag6(lens, mtu, i, at, poff, left, fragment_offset) ==
  LET nfb == FragmentSize6(mtu)
      last == left <= nfb
      cop == IF last THEN left ELSE nfb
      r == Refer6(lens, i, at + poff, cop, <<>>)
  IN IF left = 0 THEN <<>>
     ELSE <<[start |-> fragment_offset, bytes |-> r.bytes, mf |-> ~last]>>
            \o Frag6(lens, mtu, r.i, r.at, r.poff, left - cop, fragment_offset + cop)

ip6_frag(lens, mtu) == Frag6(lens, mtu, 1, 0, IpHlen, Total(lens) - IpHlen, 0)

-----------------------------------------------------------------------------
VARIABLES
  pkt,   \* [v6, lens]: the packet handed to ip4_output_if() or ip6_output_if()
  frags  \* what was written to the TUN instead of it

vars == <<pkt, frags>>

\* Chains of up to three pbufs, the IP header in the first.
Chains(payload) ==
  {lens \in UNION {[1 .. n -> 0 .. payload + IpHlen] : n \in 1 .. 3} :
     lens[1] >= IpHlen /\ Total(lens) = payload + IpHlen}

\* NSPROXY_MTU is more than half of the longest packet, so that an IPv4 packet is
\* cut into two.
Packets ==
  {[v6 |-> v, lens |-> l] : v \in BOOLEAN,
                            l \in UNION {Chains(n) : n \in Mtu - IpHlen + 1 .. MaxPayload}}

Init ==
  /\ pkt \in {p \in Packets : ~p.v6 => Total(p.lens) - IpHlen <= 2 * ((Mtu - IpHlen) \div Block) * Block}
  /\ frags = <<>>

Output ==
  /\ frags = <<>>
  /\ frags' = IF pkt.v6 THEN ip6_frag(pkt.lens, Mtu) ELSE ip4_frag(pkt.lens, Mtu)
  /\ UNCHANGED pkt

Next == Output

Spec == Init /\ [][Next]_vars

-----------------------------------------------------------------------------
(* Properties *)

\* The fragments that ip4_frag() and ip6_frag() write carry every byte of the
\* packet once, at the offset they say and wherever the pbufs of the packet end;
\* offsets are whole blocks, only the last fragment says that none follows, and
\* none is longer than the MTU.
FragmentsExact ==
  frags # <<>> =>
    LET n == Len(frags)
        header == IF pkt.v6 THEN IpHlen + FragHlen ELSE IpHlen
    IN /\ FoldLeft(LAMBDA s, f : s \o f.bytes, <<>>, frags)
            = [k \in 1 .. Total(pkt.lens) - IpHlen |-> k - 1]
       /\ \A k \in 1 .. n :
            /\ frags[k].bytes # <<>> /\ frags[k].bytes[1] = frags[k].start
            /\ frags[k].start % Block = 0
            /\ frags[k].mf = (k < n)
            /\ header + Len(frags[k].bytes) <= Mtu
=============================================================================
