------------------------------ MODULE Checksum ------------------------------
(***************************************************************************)
(* The Internet checksum: lwip/inet_chksum.c, the places that store it      *)
(* (udp_sendto_if_src() of lwip/udp.c, icmp_input() of lwip/ipv4/icmp.c)    *)
(* and those that verify it.  The code sums words of the memory in the      *)
(* byte order of the machine, pbuf by pbuf, wherever a pbuf starts; the     *)
(* standard sums the words of the message.  A byte has Radix values, 256 in *)
(* the code; the machine is little-endian.                                  *)
(***************************************************************************)
EXTENDS Integers, Sequences, SequencesExt, FiniteSets

CONSTANTS
  Radix,      \* values of a byte
  Values,     \* bytes that a message consists of
  MaxRest,    \* bound: bytes behind the field
  ICMP_ECHO   \* type of an echo request; a reply has type 0

W == Radix * Radix   \* values of a 16-bit word

\* A word as it lies in memory, first byte first.
Load(b, c) == b + Radix * c
Bytes(w) == <<w % Radix, w \div Radix>>
Not(w) == W - 1 - w

SumSeq(s) == FoldLeft(+, 0, s)

FOLD_U32T(u) == (u \div W) + (u % W)
SWAP_BYTES_IN_WORD(w) == (w % Radix) * Radix + ((w % W) \div Radix)
lwip_htons(v) == SWAP_BYTES_IN_WORD(v)

-----------------------------------------------------------------------------

\* odd: the data starts at an odd address.
lwip_standard_chksum(bytes, odd) ==
  LET first == IF odd /\ bytes # <<>> THEN 1 ELSE 0
      n == Len(bytes) - first
      bulk == [k \in 1 .. n \div 2 |-> Load(bytes[first + 2 * k - 1], bytes[first + 2 * k])]
      t == Load(IF n % 2 = 1 THEN bytes[Len(bytes)] ELSE 0, IF first = 1 THEN bytes[1] ELSE 0)
      sum == FOLD_U32T(FOLD_U32T(SumSeq(bulk) + t))
  IN IF odd THEN SWAP_BYTES_IN_WORD(sum) ELSE sum

\* One pbuf of the chain: the sum is swapped behind each one of odd length.
AddPbuf(st, q) ==
  LET acc == FOLD_U32T(st.acc + lwip_standard_chksum(q.bytes, q.odd))
  IN IF Len(q.bytes) % 2 = 1 THEN [acc |-> SWAP_BYTES_IN_WORD(acc), swapped |-> ~st.swapped]
     ELSE [st EXCEPT !.acc = acc]

ChainSum(chain, acc) ==
  LET r == FoldLeft(AddPbuf, [acc |-> acc, swapped |-> FALSE], chain)
  IN IF r.swapped THEN SWAP_BYTES_IN_WORD(r.acc) ELSE r.acc

inet_chksum(bytes, odd) == Not(lwip_standard_chksum(bytes, odd))

inet_chksum_pbuf(chain) == Not(ChainSum(chain, 0) % W)

inet_cksum_pseudo_base(chain, proto, proto_len, acc) ==
  LET sum == ChainSum(chain, acc) + lwip_htons(proto) + lwip_htons(proto_len)
  IN Not(FOLD_U32T(FOLD_U32T(sum)) % W)

\* The addresses as the words they consist of in memory.
inet_chksum_pseudo(chain, proto, proto_len, words) ==
  inet_cksum_pseudo_base(chain, proto, proto_len, FOLD_U32T(FOLD_U32T(SumSeq(words))))

-----------------------------------------------------------------------------
(* A message: kind says which sum covers it, words are its addresses, and its *)
(* second word is the checksum.                                               *)

CONSTANT Proto   \* number of the protocol in the pseudo header

VARIABLES msg, at, verdict

vars == <<msg, at, verdict>>

\* The message in up to three pbufs, none of them empty, at any alignment.
Chains(bytes) ==
  LET n == Len(bytes)
      cuts == {<<i, j>> \in (0 .. n - 1) \X (0 .. n - 1) : i < j \/ (i = 0 /\ j = 0)}
      parts(c) == SelectSeq(<<SubSeq(bytes, 1, c[1]), SubSeq(bytes, c[1] + 1, c[2]),
                              SubSeq(bytes, c[2] + 1, n)>>, LAMBDA b : b # <<>>)
  IN UNION {{[k \in DOMAIN parts(c) |-> [bytes |-> parts(c)[k], odd |-> o[k]]] :
               o \in [DOMAIN parts(c) -> BOOLEAN]} : c \in cuts}

\* What the code computes over a message in a chain.
Chksum(m, chain) ==
  CASE m.kind = "IP" -> inet_chksum(m.bytes, chain[1].odd)
    [] m.kind = "ICMP" -> inet_chksum_pbuf(chain)
    [] OTHER -> inet_chksum_pseudo(chain, Proto, Len(m.bytes), m.words)

Stored(m, w) == [m EXCEPT !.bytes[3] = Bytes(w)[1], !.bytes[4] = Bytes(w)[2]]

\* Mutant of ZeroMeansNone: zero is sent as it is.
AsComputed(m, w) == w

\* udp_sendto_if_src(): chksum zero must become 0xffff.
ZeroMeansNone(m, w) == IF m.kind = "UDP" /\ w = 0 THEN W - 1 ELSE w

Kinds == {"IP", "ICMP", "UDP", "TCP"}

Init ==
  /\ at = "made" /\ verdict = 0
  /\ \E k \in Kinds, v \in Values, u \in Values, n \in 0 .. MaxRest : \E rest \in [1 .. n -> Values] :
       msg = [kind |-> k, words |-> <<Load(u, 1), Load(1, u), 0, 0>>,
              bytes |-> <<IF k = "ICMP" THEN ICMP_ECHO ELSE v, u, 0, 0>> \o rest]

Send ==
  /\ at = "made"
  /\ \E c \in Chains(msg.bytes) : msg' = Stored(msg, ZeroMeansNone(msg, Chksum(msg, c)))
  /\ at' = "sent" /\ UNCHANGED verdict

\* icmp_input() adjusts the checksum of the request that it turns into a reply.
Echo ==
  LET chksum == Load(msg.bytes[3], msg.bytes[4])
      step == lwip_htons(ICMP_ECHO * Radix)
      carry == IF chksum > lwip_htons(W - 1 - ICMP_ECHO * Radix) THEN 1 ELSE 0
  IN /\ at = "sent" /\ msg.kind = "ICMP" /\ msg.bytes[1] = ICMP_ECHO
     /\ msg' = [Stored(msg, (chksum + step + carry) % W) EXCEPT !.bytes[1] = 0]
     /\ UNCHANGED <<at, verdict>>

Check ==
  /\ at = "sent"
  /\ \E c \in Chains(msg.bytes) : verdict' = Chksum(msg, c)
  /\ at' = "checked" /\ UNCHANGED msg

Next == Send \/ Echo \/ Check

Spec == Init /\ [][Next]_vars

-----------------------------------------------------------------------------
(* Properties *)

\* The checksum as the standard defines it: the complement of the one's-complement
\* sum of the big-endian words of the pseudo header and of the message, padded
\* with a zero byte, with the field itself zero.
Standard(m) ==
  LET bytes == [m.bytes EXCEPT ![3] = 0, ![4] = 0]
      padded == IF Len(bytes) % 2 = 1 THEN Append(bytes, 0) ELSE bytes
      Big(b) == [k \in 1 .. Len(b) \div 2 |-> b[2 * k - 1] * Radix + b[2 * k]]
      pseudo == [k \in DOMAIN m.words |-> SWAP_BYTES_IN_WORD(m.words[k])] \o <<Proto, Len(m.bytes)>>
      total == SumSeq(Big(padded)) + IF m.kind \in {"UDP", "TCP"} THEN SumSeq(pseudo) ELSE 0
      folded == IF total = 0 THEN 0 ELSE ((total - 1) % (W - 1)) + 1
  IN Not(folded)

\* However the message lies in memory and whichever of its pbufs are of odd length
\* or at an odd address, the field sent holds the standard's checksum, a UDP
\* checksum is never the zero that means none, and the receiver's sum over any
\* other arrangement of it is zero; this also holds of an echo reply, whose
\* checksum is adjusted and not computed.  Where it is adjusted, all ones may stand
\* for zero.
ChecksumStandard ==
  LET field == msg.bytes[3] * Radix + msg.bytes[4]
      adjusted == msg.kind = "UDP" \/ (msg.kind = "ICMP" /\ msg.bytes[1] = 0)
  IN /\ at = "sent" => \/ field = Standard(msg)
                       \/ adjusted /\ {field, Standard(msg)} = {0, W - 1}
     /\ at = "sent" /\ msg.kind = "UDP" => field # 0
     /\ verdict = 0
=============================================================================
