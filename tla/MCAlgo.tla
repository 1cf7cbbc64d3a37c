------------------------------- MODULE MCAlgo -------------------------------
(***************************************************************************)
(* The pure algorithms of nsproxy and lwIP, each on an instance of its own: *)
(* which says which of them runs, and the variables of the others are 0.    *)
(***************************************************************************)
EXTENDS Integers, Sequences

CONSTANTS
  Base, MaxLabel, PtrBase, Dot, Upper, Shift, MaxLen, Rounds, OutLen,    \* names
  QFixed, RFixed, LenA, LenAAAA, MaxSize, MaxCount,                      \* answers
  ByteBits, V4Bytes, V6Bytes, IntBits, SizeBits, FirstCapacity, MaxRules, \* blocks
  MaxLines,                                                              \* domains
  Block, IpHlen, FragHlen, Mtu, MaxPayload,                              \* fragments
  Radix, SumValues, MaxRest, ICMP_ECHO, Proto,                           \* checksums
  Blocks, BlockValues, Octets, MaxText,                                  \* addresses
  ByteRadix, InitialMss, MaxMss, MaxScale, RcvScale, FullWnd, ShortWnd,  \* options
  Len4, Len6, PortRadix, HdrSpace, MaxName, OctetValues, DgramRest       \* datagrams

VARIABLES
  which,
  msg, start, offset, pos, out, jumped, jumps, ret, readTo, wroteTo,
  hdr, cells, woffset, i, matched, wphase, learned, wread,
  blacklist, phase, cidrs, capacity, asked,
  domains, lines,
  pkt, frags,
  summed, at, verdict,
  addr, text, read, lwip, libc,
  opcb, segs,
  target, relayed, inbox, came, received

\* Every line of up to two characters from a letter in both cases, the dot, the
\* two prefixes and the blank, and longer ones that combine them; every name of
\* up to four characters from two letters and the dot.
MCTexts ==
  UNION {[1 .. n -> {"a", "A", ".", "=", "*", " "}] : n \in 1 .. 2}
    \cup {<<p[1], p[2], c, d>> : p \in {<<"*", ".">>, <<"a", ".">>, <<"=", "a">>},
                                c \in {"a", "."}, d \in {"A", ".", " "}}
MCNames == UNION {[1 .. n -> {"a", "b", "."}] : n \in 1 .. 4}

Name == INSTANCE DnsName
Walk == INSTANCE DnsAnswer WITH offset <- woffset, phase <- wphase, readTo <- wread
Cidr == INSTANCE CidrRules WITH Prefixes10 <- 0 .. V6Bytes * ByteBits + 1
Domain == INSTANCE DomainRules WITH RuleTexts <- MCTexts, Names <- MCNames
Frag == INSTANCE Fragments
Sum == INSTANCE Checksum WITH Values <- SumValues, msg <- summed
Text == INSTANCE AddressText WITH Values <- BlockValues
Option == INSTANCE TcpOptions
Dgram == INSTANCE SocksDatagram WITH MaxRest <- DgramRest

nvars == <<msg, start, offset, pos, out, jumped, jumps, ret, readTo, wroteTo>>
wvars == <<hdr, cells, woffset, i, matched, wphase, learned, wread>>
cvars == <<blacklist, phase, cidrs, capacity, asked>>
dvars == <<domains, lines>>
fvars == <<pkt, frags>>
svars == <<summed, at, verdict>>
tvars == <<addr, text, read, lwip, libc>>
ovars == <<opcb, segs>>
gvars == <<target, relayed, inbox, came, received>>

NameIdle == /\ msg = 0 /\ start = 0 /\ offset = 0 /\ pos = 0 /\ out = 0 /\ jumped = 0
            /\ jumps = 0 /\ ret = 0 /\ readTo = 0 /\ wroteTo = 0
WalkIdle == /\ hdr = 0 /\ cells = 0 /\ woffset = 0 /\ i = 0 /\ matched = 0 /\ wphase = 0
            /\ learned = 0 /\ wread = 0
CidrIdle == blacklist = 0 /\ phase = 0 /\ cidrs = 0 /\ capacity = 0 /\ asked = 0
DomainIdle == domains = 0 /\ lines = 0
FragIdle == pkt = 0 /\ frags = 0
SumIdle == summed = 0 /\ at = 0 /\ verdict = 0
TextIdle == addr = 0 /\ text = 0 /\ read = 0 /\ lwip = 0 /\ libc = 0
OptionIdle == opcb = 0 /\ segs = 0
DgramIdle == target = 0 /\ relayed = 0 /\ inbox = 0 /\ came = 0 /\ received = 0

MCInit ==
  /\ which \in {"name", "answer", "cidr", "domain", "frag", "sum", "text", "option", "dgram"}
  /\ IF which = "name" THEN Name!Init ELSE NameIdle
  /\ IF which = "answer" THEN Walk!Init ELSE WalkIdle
  /\ IF which = "cidr" THEN Cidr!Init ELSE CidrIdle
  /\ IF which = "domain" THEN Domain!Init ELSE DomainIdle
  /\ IF which = "frag" THEN Frag!Init ELSE FragIdle
  /\ IF which = "sum" THEN Sum!Init ELSE SumIdle
  /\ IF which = "text" THEN Text!Init ELSE TextIdle
  /\ IF which = "option" THEN Option!Init ELSE OptionIdle
  /\ IF which = "dgram" THEN Dgram!Init ELSE DgramIdle

vars == <<which, nvars, wvars, cvars, dvars, fvars, svars, tvars, ovars, gvars>>

MCNext ==
  /\ UNCHANGED which
  /\ \/ /\ which = "name" /\ Name!Next
        /\ UNCHANGED <<wvars, cvars, dvars, fvars, svars, tvars, ovars, gvars>>
     \/ /\ which = "answer" /\ Walk!Next
        /\ UNCHANGED <<nvars, cvars, dvars, fvars, svars, tvars, ovars, gvars>>
     \/ /\ which = "cidr" /\ Cidr!Next
        /\ UNCHANGED <<nvars, wvars, dvars, fvars, svars, tvars, ovars, gvars>>
     \/ /\ which = "domain" /\ Domain!Next
        /\ UNCHANGED <<nvars, wvars, cvars, fvars, svars, tvars, ovars, gvars>>
     \/ /\ which = "frag" /\ Frag!Next
        /\ UNCHANGED <<nvars, wvars, cvars, dvars, svars, tvars, ovars, gvars>>
     \/ /\ which = "sum" /\ Sum!Next
        /\ UNCHANGED <<nvars, wvars, cvars, dvars, fvars, tvars, ovars, gvars>>
     \/ /\ which = "text" /\ Text!Next
        /\ UNCHANGED <<nvars, wvars, cvars, dvars, fvars, svars, ovars, gvars>>
     \/ /\ which = "option" /\ Option!Next
        /\ UNCHANGED <<nvars, wvars, cvars, dvars, fvars, svars, tvars, gvars>>
     \/ /\ which = "dgram" /\ Dgram!Next
        /\ UNCHANGED <<nvars, wvars, cvars, dvars, fvars, svars, tvars, ovars>>

MCSpec == MCInit /\ [][MCNext]_vars

----------------------------------------------------------------------------
\* What is learned from messages is what their formats say they hold:
\* dns_read_name() reads exactly the names that a message holds (NameDecoded of
\* DnsName), dns_response_add_direct_cidrs() learns what the whole records of the
\* answer say (RecordsLearned of DnsAnswer), tcp_parseopt() what the whole options
\* of a header say (OptionsLearned of TcpOptions), and socks_recv() returns the
\* payload of the datagrams that carry one (DatagramsExact of SocksDatagram).
MessagesDecoded ==
  /\ which = "name" => Name!NameDecoded
  /\ which = "answer" => Walk!RecordsLearned
  /\ which = "option" => Option!OptionsLearned
  /\ which = "dgram" => Dgram!DatagramsExact

\* is_direct_cidr_target() routes as the blocks asked for say (RoutesByRule of
\* CidrRules).
RoutesByRule == which = "cidr" => Cidr!RoutesByRule

\* nspconf_domain_matches() finds what the lines of the file cover, label by label
\* (MatchesByLabel of DomainRules).
MatchesByLabel == which = "domain" => Domain!MatchesByLabel

\* ip4_frag() and ip6_frag() write every byte of a packet once, where it belongs
\* (FragmentsExact of Fragments).
FragmentsExact == which = "frag" => Frag!FragmentsExact

\* The checksums sent are the standard's, and all that was sent so is accepted,
\* wherever the pbufs of a message begin and end (ChecksumStandard of Checksum).
ChecksumStandard == which = "sum" => Sum!ChecksumStandard

\* The text that ipaddr_ntoa_r() writes for a proxy denotes the address
\* (AddressesReadBack of AddressText).
AddressesReadBack == which = "text" => Text!AddressesReadBack
=============================================================================
