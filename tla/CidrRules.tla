----------------------------- MODULE CidrRules -----------------------------
(***************************************************************************)
(* The table of direct CIDR blocks: read from the command line and from     *)
(* files (src/main.c: add_direct_cidr, nspconf_add_direct_cidr_raw,         *)
(* next_capacity), extended by DNS answers while nsproxy runs, and asked    *)
(* for every new connection (src/core.c: is_direct_cidr_target,             *)
(* cidr_match_bytes).  The widths of a byte, of the two kinds of address,   *)
(* of int and of size_t are constants.                                      *)
(***************************************************************************)
EXTENDS Integers, Sequences, FiniteSets, SequencesExt

CONSTANTS
  ByteBits, V4Bytes, V6Bytes,  \* 8, 4 and 16 in the code
  IntBits, SizeBits,           \* 32 and 64 in the code
  FirstCapacity,               \* 16 in the code
  Prefixes10,                  \* the numbers that the texts after '/' denote
  MaxRules                     \* bound: rules added

AF_INET == 4
AF_INET6 == 6
Families == {AF_INET, AF_INET6}
AddrBytes(family) == IF family = AF_INET THEN V4Bytes ELSE V6Bytes
MaxPrefix(family) == AddrBytes(family) * ByteBits

\* uint8_t[16]: an IPv4 address fills the front, zeros follow.
Raw(family) ==
  {a \in [1 .. V6Bytes -> 0 .. 2 ^ ByteBits - 1] :
     \A i \in AddrBytes(family) + 1 .. V6Bytes : a[i] = 0}

VARIABLES
  blacklist, \* direct_cidr_mode, from -M
  phase,     \* "options", "run", or "exited" after an error in the options
  cidrs,     \* direct_cidrs[0 .. direct_cidr_count - 1]
  capacity,  \* direct_cidr_capacity
  asked      \* every block the user or an answer asked for

vars == <<blacklist, phase, cidrs, capacity, asked>>

Init ==
  /\ blacklist \in BOOLEAN
  /\ phase = "options" /\ cidrs = <<>> /\ capacity = 0 /\ asked = {}

-----------------------------------------------------------------------------
\* The loop of next_capacity(); size_t wraps.
RECURSIVE Growth(_, _, _)
Growth(current, prev, next) ==
  LET newnext == (prev + next) % 2 ^ SizeBits
  IN IF next > current THEN next
     ELSE IF newnext <= next THEN current + 1
     ELSE Growth(current, next, newnext)

next_capacity(current) ==
  IF current = 0 THEN FirstCapacity ELSE Growth(current, 0, FirstCapacity)

\* Mutant of SameBlock: prefix length and family are not compared.
SameAddress(c, d) == c.addr = d.addr

SameBlock(c, d) == c = d

nspconf_add_direct_cidr_raw(c) ==
  IF \E i \in DOMAIN cidrs : SameBlock(cidrs[i], c)
  THEN UNCHANGED <<cidrs, capacity>>
  ELSE /\ capacity' = IF Len(cidrs) = capacity THEN next_capacity(capacity)
                      ELSE capacity
       /\ cidrs' = Append(cidrs, c)

Room == Len(cidrs) < MaxRules

\* The implicit conversion of a long to an int.
ToInt(n) == ((n + 2 ^ (IntBits - 1)) % 2 ^ IntBits) - 2 ^ (IntBits - 1)

BadPrefix(family, prefixlen) == prefixlen < 0 \/ prefixlen > MaxPrefix(family)

\* One block of -L or -F whose text parses; a bad prefix ends the program.
add_direct_cidr(family, addr, parsed) ==
  LET prefixlen == ToInt(parsed)
  IN /\ phase = "options" /\ Room
     /\ IF BadPrefix(family, prefixlen)
        THEN phase' = "exited" /\ UNCHANGED <<blacklist, cidrs, capacity, asked>>
        ELSE /\ nspconf_add_direct_cidr_raw(
                  [family |-> family, prefixlen |-> prefixlen, addr |-> addr])
             /\ asked' = asked \cup
                  {[family |-> family, prefixlen |-> parsed, addr |-> addr]}
             /\ UNCHANGED <<blacklist, phase>>

options_end ==
  /\ phase = "options" /\ phase' = "run"
  /\ UNCHANGED <<blacklist, cidrs, capacity, asked>>

\* An address of a DNS answer for a domain that a rule matches.
dns_response_add_direct_cidrs(family, addr) ==
  LET c == [family |-> family, prefixlen |-> MaxPrefix(family), addr |-> addr]
  IN /\ phase = "run" /\ Room
     /\ nspconf_add_direct_cidr_raw(c)
     /\ asked' = asked \cup {c}
     /\ UNCHANGED <<blacklist, phase>>

-----------------------------------------------------------------------------
\* b & (0xff << (8 - rembits))
Masked(b, rembits) == b - (b % 2 ^ (ByteBits - rembits))

cidr_match_bytes(addr, network, prefixlen) ==
  LET fullbytes == prefixlen \div ByteBits
      rembits == prefixlen % ByteBits
  IN /\ \A i \in 1 .. fullbytes : addr[i] = network[i]
     /\ rembits > 0 =>
          Masked(addr[fullbytes + 1], rembits) = Masked(network[fullbytes + 1], rembits)

is_direct_cidr_target(family, raw) ==
  LET matched == \E i \in DOMAIN cidrs :
                   /\ cidrs[i].family = family
                   /\ cidr_match_bytes(raw, cidrs[i].addr, cidrs[i].prefixlen)
  IN IF cidrs = <<>> /\ ~blacklist THEN FALSE
     ELSE IF blacklist THEN ~matched ELSE matched

-----------------------------------------------------------------------------
Next ==
  \/ \E f \in Families : \E a \in Raw(f) :
       \/ \E p \in Prefixes10 : add_direct_cidr(f, a, p)
       \/ dns_response_add_direct_cidrs(f, a)
  \/ options_end

Spec == Init /\ [][Next]_vars

-----------------------------------------------------------------------------
(* Properties *)

\* Bit k of an address, the most significant one first.
Bit(a, k) == (a[(k \div ByteBits) + 1] \div 2 ^ (ByteBits - 1 - (k % ByteBits))) % 2

Inside(family, a, c) ==
  /\ c.family = family
  /\ \A k \in 0 .. c.prefixlen - 1 : Bit(a, k) = Bit(c.addr, k)

\* is_direct_cidr_target() decides for every address as the blocks asked for so
\* far do when their prefixes are compared bit by bit, in both modes, whatever
\* was dropped as a duplicate on the way; and the entry that
\* nspconf_add_direct_cidr_raw() writes lies inside the array that realloc()
\* returned.
RoutesByRule ==
  /\ \A f \in Families : \A a \in Raw(f) :
       is_direct_cidr_target(f, a) = ((\E c \in asked : Inside(f, a, c)) # blacklist)
  /\ Len(cidrs) <= capacity
=============================================================================
