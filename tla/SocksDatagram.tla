--------------------------- MODULE SocksDatagram ----------------------------
(***************************************************************************)
(* The datagrams of a UDP association in src/socks.c: socks_send() puts the *)
(* SOCKS5 header with the target before the payload, socks_recv() takes the *)
(* header off again and skips the datagrams whose header is not usable.     *)
(***************************************************************************)
EXTENDS Integers, Sequences, FiniteSetsExt

CONSTANTS
  Len4, Len6,  \* octets of an address: 4 and 16 in the code
  PortRadix,   \* values of an octet: 256 in the code
  HdrSpace,    \* the buffer that the header is put together in, 512
  MaxName,     \* octets of the longest name, 255: struct socks5addr
  OctetValues, \* bound: values of the octets of a datagram that comes in
  MaxRest      \* bound: octets of it behind the address type

SOCKS5_ATYPE_INET4 == 1
SOCKS5_ATYPE_DOMAIN == 3
SOCKS5_ATYPE_INET6 == 4
HdrLen == 3
EAGAIN == <<-1>>

VARIABLES
  target,    \* self->addr and self->port
  relayed,   \* what socks_send() has sent
  inbox,     \* datagrams in the socket's buffer
  came,      \* those that have ever been in it
  received   \* what socks_recv() has returned

vars == <<target, relayed, inbox, came, received>>

----------------------------------------------------------------------------
\* socks5_addr_put(): type, address and port.  What inet_pton() (external) makes
\* of the text is the type and the octets of the target.
Port(n) == <<n \div PortRadix, n % PortRadix>>

socks5_addr_put(size, t) ==
  LET octets == <<t.atype>>
                \o (IF t.atype = SOCKS5_ATYPE_DOMAIN THEN <<Len(t.addr)>> ELSE <<>>)
                \o t.addr \o Port(t.port)
  IN IF Len(octets) > size THEN [ret |-> -1, octets |-> <<>>]
     ELSE [ret |-> Len(octets), octets |-> octets]

\* socks5_addr_get(): the octets the address takes, -1 when it is not whole or of
\* another type.
AddrLen(b) ==
  IF b[1] = SOCKS5_ATYPE_INET4 THEN Len4
  ELSE IF b[1] = SOCKS5_ATYPE_INET6 THEN Len6
  ELSE 1 + b[2]

socks5_addr_get(b) ==
  IF Len(b) < 1 THEN -1
  ELSE IF b[1] \notin {SOCKS5_ATYPE_INET4, SOCKS5_ATYPE_INET6, SOCKS5_ATYPE_DOMAIN} THEN -1
  ELSE IF b[1] = SOCKS5_ATYPE_DOMAIN /\ Len(b) < 2 THEN -1
  ELSE IF Len(b) < 1 + AddrLen(b) + 2 THEN -1
  ELSE 1 + AddrLen(b) + 2

\* socks5_hdr_get(): a header has three octets; frag is the last.
socks5_hdr_get(b) == IF Len(b) < HdrLen THEN -1 ELSE HdrLen

Behind(b, n) == SubSeq(b, n + 1, Len(b))

\* A datagram that socks_recv() does not skip.
Usable(b) ==
  /\ socks5_hdr_get(b) >= 0
  /\ socks5_addr_get(Behind(b, HdrLen)) >= 0
  /\ b[HdrLen] = 0

Payload(b) == Behind(b, HdrLen + socks5_addr_get(Behind(b, HdrLen)))

----------------------------------------------------------------------------
\* socks_send(): the return values only add up.
socks_send(data) ==
  LET a == socks5_addr_put(HdrSpace - HdrLen, target)
      buffer == <<0, 0, 0>> \o a.octets
  IN relayed' = Append(relayed, SubSeq(buffer, 1, HdrLen + a.ret) \o data)

\* socks_recv(): the next usable datagram; those before it are gone.
socks_recv ==
  LET usable == {k \in DOMAIN inbox : Usable(inbox[k])}
      k == Min(usable)
  IN IF usable = {} THEN inbox' = <<>> /\ received' = Append(received, EAGAIN)
     ELSE inbox' = Behind(inbox, k) /\ received' = Append(received, Payload(inbox[k]))

Addresses ==
  [atype : {SOCKS5_ATYPE_INET4}, addr : [1 .. Len4 -> {2}], port : {7}]
    \cup [atype : {SOCKS5_ATYPE_INET6}, addr : [1 .. Len6 -> {2}], port : {7}]
    \cup UNION {[atype : {SOCKS5_ATYPE_DOMAIN}, addr : [1 .. n -> {2}], port : {7}] : n \in 1 .. MaxName}

\* A datagram of the proxy: cut short anywhere, of any type, whole or a fragment.
Datagrams ==
  {SubSeq(<<0, 0, 0>>, 1, n) : n \in 0 .. HdrLen}
    \cup {<<0, 0, frag, atype>> \o rest :
            frag \in {0, 1}, atype \in {0, 1, 3, 4},
            rest \in UNION {[1 .. n -> OctetValues] : n \in 0 .. MaxRest}}

Good == <<0, 0, 0, SOCKS5_ATYPE_DOMAIN, 1, 2, 0, 1, 5>>

Init ==
  /\ target \in Addresses
  /\ inbox \in {<<d, Good>> : d \in IF Len(target.addr) = Len4 THEN Datagrams ELSE {Good}}
  /\ came = inbox /\ relayed = <<>> /\ received = <<>>

Next ==
  \/ /\ relayed = <<>>
     /\ socks_send(<<6>>)
     /\ UNCHANGED <<target, inbox, came, received>>
  \/ /\ Len(received) < 3
     /\ socks_recv
     /\ UNCHANGED <<target, relayed, came>>

----------------------------------------------------------------------------
\* The layout of RFC 1928: a header with this address.
Layout(atype, addr, port) ==
  <<atype>> \o (IF atype = SOCKS5_ATYPE_DOMAIN THEN <<Len(addr)>> ELSE <<>>) \o addr \o port

\* Of a datagram b, payload follows a header that is not of a fragment.
Carries(b, payload) ==
  LET end == Len(b) - Len(payload)
  IN \E n \in 0 .. end - HdrLen - 3, atype \in {1, 3, 4} :
       /\ atype = SOCKS5_ATYPE_INET4 => n = Len4
       /\ atype = SOCKS5_ATYPE_INET6 => n = Len6
       /\ b = <<0, 0, 0>> \o Layout(atype, SubSeq(b, end - n - 1, end - 2), SubSeq(b, end - 1, end))
               \o payload

\* Every datagram sent has the header of the target before the payload, whatever
\* the target's length; and socks_recv() returns the payload of every datagram
\* that carries one, in order, skips all others, and reports EAGAIN when none is
\* left.
DatagramsExact ==
  LET tails(b) == {SubSeq(b, k, Len(b)) : k \in 1 .. Len(b) + 1}
      carried(b) == {p \in tails(b) : Carries(b, p)}
      good == SelectSeq(came, LAMBDA b : carried(b) # {})
      returned == SelectSeq(received, LAMBDA r : r # EAGAIN)
  IN /\ \A k \in DOMAIN relayed :
          relayed[k] = <<0, 0, 0>> \o Layout(target.atype, target.addr, Port(target.port)) \o <<6>>
     /\ Len(returned) <= Len(good)
     /\ \A k \in DOMAIN returned : carried(good[k]) = {returned[k]}
     /\ Len(returned) < Len(received) => Len(returned) = Len(good)
=============================================================================
