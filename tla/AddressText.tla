---------------------------- MODULE AddressText -----------------------------
(***************************************************************************)
(* Addresses as text: ipaddr_ntoa_r() of lwip/ip.c, ip6addr_ntoa_r() and    *)
(* ip6addr_aton() of lwip/ipv6/ip6_addr.c, ip4addr_ntoa_r() and             *)
(* ip4addr_aton() of lwip/ipv4/ip4_addr.c.  src/core.c writes the           *)
(* destination of every new flow with the former and hands the text to the  *)
(* proxy clients, which read it back with inet_pton(); the latter read the  *)
(* addresses of the interface.                                              *)
(*                                                                          *)
(* A text is a sequence of tokens.  In an IPv6 text these are COLON and     *)
(* whole blocks, which are written without leading zeros and read back as   *)
(* they are; in an IPv4 text DOT and decimal digits, since there a leading  *)
(* zero changes what is read.  IPv4-mapped IPv6 addresses never get here:   *)
(* ip6_input() drops them.                                                  *)
(***************************************************************************)
EXTENDS Integers, Sequences, SequencesExt

CONSTANTS
  Blocks,   \* blocks of an IPv6 address, an even number: 8 in the code
  Values,   \* values that a block takes, 0 among them
  Octets,   \* values that an octet of an IPv4 address takes
  MaxText   \* bound: tokens of an IPv6 text that the configuration gives

COLON == -1
DOT == -2
NULL == <<>>

\* The type of an ip_addr_t, which lies in memory behind the address itself:
\* IPADDR_TYPE_V6.
TypeByte == 6

VARIABLES
  addr,  \* [v6, parts]: the address to write, parts NULL when the text is given
  text,  \* the text, NULL before it is written
  read,  \* whether the text has been read
  lwip,  \* what ip6addr_aton() or ip4addr_aton() read, NULL when it refused
  libc   \* what inet_pton() read, NULL when it refused

vars == <<addr, text, read, lwip, libc>>

-----------------------------------------------------------------------------
\* Mutant of BlockAt: the address ends in zeros.
ZeroBehind(a, k) == IF k < Blocks THEN a[k + 1] ELSE 0

\* Block k of the address, counted from 0; the look-ahead from the last block
\* reads what lies behind the address.
BlockAt(a, k) == IF k < Blocks THEN a[k + 1] ELSE TypeByte

\* One round of the loop of ip6addr_ntoa_r(): w is the text so far and
\* empty_block_flag.
WriteBlock(a, w, k) ==
  LET value == BlockAt(a, k)
      Colon == [w EXCEPT !.text = Append(@, COLON)]
      Shown == (IF k > 0 THEN Append(w.text, COLON) ELSE w.text) \o <<value>>
  IN IF value = 0 /\ w.flag = 1
     THEN IF k = Blocks - 1 THEN Colon ELSE w
     ELSE IF value = 0 /\ w.flag = 0 /\ BlockAt(a, k + 1) = 0
     THEN [Colon EXCEPT !.flag = 1]
     ELSE [text |-> Shown, flag |-> IF value # 0 /\ w.flag = 1 THEN 2 ELSE w.flag]

ip6addr_ntoa_r(a) ==
  FoldLeft(LAMBDA w, k : WriteBlock(a, w, k), [text |-> <<>>, flag |-> 0],
           [k \in 1 .. Blocks |-> k - 1]).text

Digits(n) ==
  IF n < 10 THEN <<n>>
  ELSE IF n < 100 THEN <<n \div 10, n % 10>>
  ELSE <<n \div 100, (n \div 10) % 10, n % 10>>

\* The last dot is overwritten by the end of the string.
ip4addr_ntoa_r(a) == FoldLeft(LAMBDA t, n : t \o <<DOT>> \o Digits(n), Digits(a[1]), Tail(a))

ipaddr_ntoa_r(a) == IF a.v6 THEN ip6addr_ntoa_r(a.parts) ELSE ip4addr_ntoa_r(a.parts)

-----------------------------------------------------------------------------
\* The 16 bits that the loop of ip6addr_aton() stores when a block ends: the
\* upper half of a word is assigned, the lower half ored in.
Store(r) ==
  LET odd == r.index % 2
      a == r.word * 2 + 1
  IN IF odd = 1 THEN [r EXCEPT !.addr[a + 1] = r.value, !.word = @ + 1]
     ELSE [r EXCEPT !.addr[a] = r.value, !.addr[a + 1] = 0]

Bad(r) == [r EXCEPT !.ok = FALSE]

\* "::" found, set zeros.
RECURSIVE Zeros(_)
Zeros(r) ==
  LET even == [r EXCEPT !.addr[r.word * 2 + 1] = 0, !.addr[r.word * 2 + 2] = 0]
      next == [(IF r.index % 2 = 1 THEN [r EXCEPT !.word = @ + 1] ELSE even)
                 EXCEPT !.zeros = @ - 1, !.index = @ + 1]
  IN IF r.zeros = 0 \/ ~r.ok THEN r
     ELSE IF next.index > Blocks - 1 THEN Bad(next) ELSE Zeros(next)

\* The loop that parses each block, from token s on.
RECURSIVE Parse(_, _, _)
Parse(t, s, r) ==
  LET kept == [Store(r) EXCEPT !.index = @ + 1, !.value = 0]
      At(k) == IF k <= Len(t) THEN t[k] ELSE 0
      twice == At(s + 1) = COLON
  IN IF s > Len(t) \/ ~r.ok THEN r
     ELSE IF t[s] # COLON THEN Parse(t, s + 1, [r EXCEPT !.value = t[s]])
     ELSE IF kept.index > Blocks - 1 \/ (twice /\ At(s + 2) = COLON) THEN Bad(kept)
     ELSE IF twice THEN Parse(t, s + 2, Zeros(kept))
     ELSE Parse(t, s + 1, kept)

\* zeros is zero_blocks, the blocks less the colons.  More colons than blocks are
\* refused by the loop in any case.
ip6addr_aton(t) ==
  LET colons == Len(SelectSeq(t, LAMBDA x : x = COLON))
      r == Parse(t, 1, [addr |-> [k \in 1 .. Blocks |-> 0], word |-> 0, index |-> 0,
                        value |-> 0, zeros |-> Blocks - colons, ok |-> TRUE])
  IN IF colons > Blocks \/ ~r.ok \/ r.index # Blocks - 1 THEN NULL ELSE Store(r).addr

\* The texts between two tokens of a kind.
Split(t, sep) ==
  FoldLeft(LAMBDA acc, x : IF x = sep THEN Append(acc, <<>>)
                           ELSE [acc EXCEPT ![Len(acc)] = Append(@, x)], << <<>> >>, t)

\* 0 starts an octal number, in which 8 and 9 count as digits all the same.
Number(d) ==
  LET base == IF d[1] = 0 THEN 8 ELSE 10 IN FoldLeft(LAMBDA v, x : v * base + x, 0, d)

\* The form a.b.c.d; the shorter ones are never given.
ip4addr_aton(t) ==
  LET parts == Split(t, DOT)
  IN IF Len(parts) # 4 \/ \E i \in DOMAIN parts : parts[i] = <<>> \/ Number(parts[i]) > 255
     THEN NULL ELSE [i \in 1 .. 4 |-> Number(parts[i])]

-----------------------------------------------------------------------------
(* The C library *)

Sides(t) ==
  {i \in 1 .. Len(t) - 1 : t[i] = COLON /\ t[i + 1] = COLON}

BlocksOf(t) == IF t = <<>> THEN <<>> ELSE [i \in DOMAIN Split(t, COLON) |-> Split(t, COLON)[i]]

Whole(bs) == \A i \in DOMAIN bs : Len(bs[i]) = 1

\* inet_pton(AF_INET6): eight blocks, or fewer around one "::".
inet_pton6(t) ==
  LET cut == CHOOSE i \in Sides(t) : TRUE
      left == BlocksOf(SubSeq(t, 1, cut - 1))
      right == BlocksOf(SubSeq(t, cut + 2, Len(t)))
      all == BlocksOf(t)
  IN CASE Sides(t) = {} /\ Len(all) = Blocks /\ Whole(all) -> [i \in 1 .. Blocks |-> all[i][1]]
       [] Sides(t) # {} /\ (\A i \in Sides(t) : i = cut) /\ Whole(left) /\ Whole(right)
          /\ Len(left) + Len(right) < Blocks ->
            [i \in 1 .. Blocks |->
               IF i <= Len(left) THEN left[i][1]
               ELSE IF i > Blocks - Len(right) THEN right[i - Blocks + Len(right)][1] ELSE 0]
       [] OTHER -> NULL

\* inet_pton(AF_INET): four decimal numbers without leading zeros.
inet_pton4(t) ==
  LET parts == Split(t, DOT)
      value(d) == FoldLeft(LAMBDA v, x : v * 10 + x, 0, d)
  IN IF Len(parts) # 4 \/ \E i \in DOMAIN parts :
          parts[i] = <<>> \/ (Len(parts[i]) > 1 /\ parts[i][1] = 0) \/ value(parts[i]) > 255
     THEN NULL ELSE [i \in 1 .. 4 |-> value(parts[i])]

-----------------------------------------------------------------------------
\* IPv6 texts as a header file could give them: blocks are set off by colons.
Texts ==
  {t \in UNION {[1 .. n -> Values \cup {COLON}] : n \in 1 .. MaxText} :
     \A i \in 1 .. Len(t) - 1 : COLON \in {t[i], t[i + 1]}}

Init ==
  /\ read = FALSE /\ lwip = NULL /\ libc = NULL
  /\ \/ /\ text = NULL
        /\ \/ \E a \in [1 .. Blocks -> Values] : addr = [v6 |-> TRUE, parts |-> a]
           \/ \E a \in [1 .. 4 -> Octets] : addr = [v6 |-> FALSE, parts |-> a]
     \/ addr = [v6 |-> TRUE, parts |-> NULL] /\ text \in Texts

Write ==
  /\ text = NULL
  /\ text' = ipaddr_ntoa_r(addr)
  /\ UNCHANGED <<addr, read, lwip, libc>>

Read ==
  /\ text # NULL /\ ~read /\ read' = TRUE
  /\ IF addr.v6 THEN lwip' = ip6addr_aton(text) /\ libc' = inet_pton6(text)
     ELSE lwip' = ip4addr_aton(text) /\ libc' = inet_pton4(text)
  /\ UNCHANGED <<addr, text>>

Next == Write \/ Read

Spec == Init /\ [][Next]_vars

-----------------------------------------------------------------------------
(* Properties *)

\* The text that ipaddr_ntoa_r() writes denotes the address: inet_pton() in the
\* proxy client reads the same one back, whatever run of zero blocks is at the
\* front, in the middle or at the end; and ip6addr_aton() reads every text that
\* inet_pton() accepts in the same way, so that the gateway's address that the
\* stack answers to is the one that the namespace was given a route to.
AddressesReadBack ==
  read =>
    /\ addr.parts # NULL => libc = addr.parts
    /\ libc # NULL => lwip = libc
=============================================================================
