------------------------------ MODULE IpInput ------------------------------
(***************************************************************************)
(* The way of a packet from the TUN device through lwIP: ip_input,         *)
(* ip4_input and ip6_input with its chain of extension headers, icmp_input *)
(* and icmp6_input, and the demultiplexing of udp_input and tcp_input,     *)
(* which nsproxy changed so that every address is accepted and an unknown  *)
(* flow opens a protocol control block of its own.                         *)
(*                                                                         *)
(* A packet is a record of what the code tells apart: its version, the     *)
(* first thing that is wrong with it, its addresses, its fragment state,   *)
(* its extension headers, its protocol, its ports, and its ICMP type or    *)
(* TCP flags.  An address is one of the classes the code tests.  Buffers   *)
(* are counted: "bufs" is the number the stack holds and must give away.   *)
(***************************************************************************)
EXTENDS Naturals, Sequences, FiniteSets, SequencesExt

CONSTANTS Ports,     \* the ports of the application and of the far ends
          MaxPcbs    \* bound: the control blocks of each list

NULL == "NULL"

\* The interface's own addresses (NSPROXY_GATEWAY_IP and _IPV6), an
\* application's, and a far host's, in either version.
Own(v) == IF v = 4 THEN "own4" ELSE "own6"
App(v) == IF v = 4 THEN "app4" ELSE "app6"
Host(v) == IF v = 4 THEN "host4" ELSE "host6"

IPv6 == {"own6", "app6", "host6", "any6", "mapped",
         "mcast6", "allnodes", "solicited", "solicited_other"}

ip_addr_ismulticast(a) ==
  a \in {"mcast4", "mcast6", "allnodes", "solicited", "solicited_other"}

\* tunif_init sets no NETIF_FLAG_BROADCAST, so only all ones and all zeroes.
ip4_addr_isbroadcast(a) == a \in {"bcast", "any4"}

ip_addr_isany(a) == a \in {"any4", "any6"}

----------------------------------------------------------------------------
(* The state of the stack while a packet is handled: the three lists, the  *)
(* buffers it holds, what it gave the packet to, and what it sent.         *)

pbuf_alloc(s) == [s EXCEPT !.bufs = @ + 1]

pbuf_free(s) == [s EXCEPT !.bufs = @ - 1]

\* The buffer is handed to a component, or to a flow's callback, which frees
\* it in its time.
Give(s, to) == [pbuf_free(s) EXCEPT !.to = to]
Deliver(s, pcb) == [pbuf_free(s) EXCEPT !.to = "flow", !.pcb = <<pcb>>]

\* tun_output().  That it may fail (ERR_IF) is left out: senders treat it as the
\* ERR_BUF and ERR_RTE they meet before it.
Emit(s, src, dst, kind) ==
  [s EXCEPT !.sent = Append(@, [src |-> src, dst |-> dst, kind |-> kind])]

\* The first candidate is the only one: core_init sets address 0 when the
\* option -6 is given, and nothing ever sets another.
ip6_select_source_address(s) == IF s.ipv6 THEN Own(6) ELSE NULL

\* The IP header is put in front, which a "wide" packet has no room for in 16
\* bits; a packet "long" for the MTU of the interface leaves in fragments, with
\* the addresses of the packet (module Fragments); any other as it is.
Leave(s, src, dst, kind, size) ==
  CASE size = "wide" -> [err |-> "ERR_BUF", s |-> s]
    [] size = "long" -> [err |-> "ERR_OK",
                         s |-> Emit(Emit(s, src, dst, kind), src, dst, kind)]
    [] size = "fits" -> [err |-> "ERR_OK", s |-> Emit(s, src, dst, kind)]

ip4_output_if_src(s, src, dst, kind, size) ==
  Leave(s, IF src = NULL THEN "any4" ELSE src, dst, kind, size)

ip6_output_if_src(s, src, dst, kind, size) ==
  Leave(s, IF src = NULL THEN "any6" ELSE src, dst, kind, size)

\* Loopback destinations have no route; they never come from the TUN.
ip4_output_if(s, src, dst, kind, size) ==
  ip4_output_if_src(s, IF src = NULL \/ ip_addr_isany(src) THEN Own(4) ELSE src,
                    dst, kind, size)

ip6_output_if(s, src, dst, kind, size) ==
  LET used == IF ip_addr_isany(src) THEN ip6_select_source_address(s) ELSE src
  IN  IF used = NULL THEN [err |-> "ERR_RTE", s |-> s]
      ELSE ip6_output_if_src(s, used, dst, kind, size)

\* A datagram made whole is longer than the MTU, and so is its echo.
Size(p) ==
  IF p.frag = "whole" \/ \E i \in DOMAIN p.exts : p.exts[i].opt = "whole"
    THEN "long" ELSE "fits"

----------------------------------------------------------------------------
(* ICMP.                                                                   *)

icmp_send_response(s, p, kind) ==
  pbuf_free(ip4_output_if(pbuf_alloc(s), NULL, p.src, kind, "fits").s)

icmp6_send_response(s, p, kind) ==
  LET src == ip6_select_source_address(s)
  IN  IF src = NULL THEN s
      ELSE pbuf_free(ip6_output_if(pbuf_alloc(s), src, p.src, kind, "fits").s)

icmp_port_unreach(s, p) ==
  IF p.v = 6 THEN icmp6_send_response(s, p, "unreach")
  ELSE icmp_send_response(s, p, "unreach")

\* Mutant: an echo request to a group is answered in the group's name.
icmp_echo_from_dst(s, p) ==
  IF ip4_addr_isbroadcast(p.dst) \/ p.fault = "bodysum" THEN pbuf_free(s)
  ELSE pbuf_free(ip4_output_if(pbuf_free(pbuf_alloc(s)), p.dst, p.src, "echo", Size(p)).s)

\* An echo request is copied into a buffer with room for the headers, the
\* request is freed, and the copy is sent back and freed.
icmp_echo(s, p) ==
  LET src == IF ip_addr_ismulticast(p.dst) THEN Own(4) ELSE p.dst
      copied == pbuf_free(pbuf_alloc(s))
  IN  IF ip4_addr_isbroadcast(p.dst) \/ p.fault = "bodysum" THEN pbuf_free(s)
      ELSE pbuf_free(ip4_output_if(copied, src, p.src, "echo", Size(p)).s)

icmp_input(s, p) ==
  IF p.fault # "body" /\ p.type = "ECHO" THEN icmp_echo(s, p) ELSE pbuf_free(s)

icmp6_echo(s, p) ==
  LET src == IF ip_addr_ismulticast(p.dst) THEN ip6_select_source_address(s)
             ELSE p.dst
      copied == pbuf_alloc(s)
  IN  IF src = NULL THEN pbuf_free(pbuf_free(copied))
      ELSE pbuf_free(pbuf_free(ip6_output_if(copied, src, p.src, "echo", Size(p)).s))

\* Neighbour discovery frees the packet on every path.
icmp6_input(s, p) ==
  CASE p.fault \in {"body", "bodysum"} -> pbuf_free(s)
    [] p.type = "ND"                   -> Give(s, "nd6")
    [] p.type = "ECHO"                 -> icmp6_echo(s, p)
    [] OTHER                           -> pbuf_free(s)

----------------------------------------------------------------------------
(* The lists of control blocks.                                            *)

Pcb(p) == [local |-> p.dst, lport |-> p.dport,
           remote |-> p.src, rport |-> p.sport]

\* Mutant: what was in front of the pcb is lost.
ToFrontLost(list, i) == SubSeq(list, i, Len(list))

ToFront(list, i) == <<list[i]>> \o RemoveAt(list, i)

udp_input_local_match(pcb, p) ==
  IF ip4_addr_isbroadcast(p.dst)
    THEN pcb.local \notin IPv6 /\ (ip_addr_isany(pcb.local) \/ p.dst = "bcast")
    ELSE ip_addr_isany(pcb.local) \/ pcb.local = p.dst

udp_match(pcb, p) ==
  /\ pcb.lport = p.dport
  /\ udp_input_local_match(pcb, p)
  /\ pcb.rport = p.sport
  /\ ip_addr_isany(pcb.remote) \/ pcb.remote = p.src

udp_remove(s, pcb) ==
  [s EXCEPT !.udp_pcbs = SelectSeq(@, LAMBDA q : q # pcb)]

\* core_udp_new destroys the forward, and with it the pcb, when it fails.
udp_new(s, p) == [s EXCEPT !.udp_pcbs = <<Pcb(p)>> \o @]

\* The datagram goes to the pcb's receive callback once its sum is checked.
udp_deliver(s, p) ==
  IF p.fault = "bodysum" THEN pbuf_free(s) ELSE Deliver(s, Head(s.udp_pcbs))

udp_input(s, p, ok) ==
  LET i == SelectInSeq(s.udp_pcbs, LAMBDA pcb : udp_match(pcb, p))
  IN  IF p.fault = "body" THEN pbuf_free(s)
      ELSE IF i # 0
        THEN udp_deliver([s EXCEPT !.udp_pcbs = ToFront(@, i)], p)
      ELSE IF ok THEN udp_deliver(udp_new(s, p), p)
      ELSE pbuf_free(icmp_port_unreach(udp_remove(udp_new(s, p), Pcb(p)), p))

----------------------------------------------------------------------------
\* A segment without data back to where the packet came from.
tcp_output_control_segment(s, p, kind) ==
  IF p.v = 6
    THEN pbuf_free(ip6_output_if(pbuf_alloc(s), p.dst, p.src, kind, "fits").s)
    ELSE pbuf_free(ip4_output_if(pbuf_alloc(s), p.dst, p.src, kind, "fits").s)

tcp_rst(s, p) == tcp_output_control_segment(s, p, "rst")

\* TIME-WAIT: a SYN in the window is reset, anything with a length acked.
tcp_timewait_input(s, p) ==
  CASE p.type = "RST"                    -> s
    [] p.type = "SYN" /\ p.inwnd         -> tcp_rst(s, p)
    [] p.type \in {"SYN", "FIN", "DATA"} -> tcp_output_control_segment(s, p, "ack")
    [] OTHER                             -> s

\* The listener is a fake one that stands for every address and port.  A
\* SYN opens a pcb; core_tcp_new aborts it, resetting the peer, if it fails.
tcp_listen_input(s, p, ok) ==
  CASE p.type = "RST"        -> s
    [] p.type = "SYN" /\ ok  ->
         [s EXCEPT !.tcp_active_pcbs = <<Pcb(p)>> \o @,
                   !.to = "flow", !.pcb = <<Pcb(p)>>]
    [] p.type = "NONE"       -> s
    [] OTHER                 -> tcp_rst(s, p)

\* An open connection takes the segment and moves to the front of its list;
\* then the ones in TIME-WAIT are looked through, and last the listener.
Demultiplex(s, p, ok) ==
  LET i == SelectInSeq(s.tcp_active_pcbs, LAMBDA pcb : pcb = Pcb(p))
  IN  IF i # 0
        THEN Deliver([s EXCEPT !.tcp_active_pcbs = ToFront(@, i)], Pcb(p))
      ELSE IF \E j \in DOMAIN s.tcp_tw_pcbs : s.tcp_tw_pcbs[j] = Pcb(p)
        THEN pbuf_free(tcp_timewait_input(s, p))
      ELSE pbuf_free(tcp_listen_input(s, p, ok))

tcp_input(s, p, ok) ==
  IF \/ p.fault \in {"body", "bodysum"}
     \/ ip4_addr_isbroadcast(p.dst) \/ ip_addr_ismulticast(p.dst)
    THEN pbuf_free(s)
    ELSE Demultiplex(s, p, ok)

----------------------------------------------------------------------------
(* IPv4.                                                                   *)

ip4_header_bad(p) == p.fault \in {"version", "length", "checksum"}

\* A whole packet goes to its protocol.
ip4_dispatch(s, p, ok) ==
  CASE p.proto = "UDP"  -> udp_input(s, p, ok)
    [] p.proto = "TCP"  -> tcp_input(s, p, ok)
    [] p.proto = "ICMP" -> icmp_input(s, p)
    [] OTHER ->
         IF ip4_addr_isbroadcast(p.dst) \/ ip_addr_ismulticast(p.dst)
           THEN pbuf_free(s)
           ELSE pbuf_free(icmp_send_response(s, p, "unreach"))

\* ip4_input_accept takes every unicast and broadcast destination, and the
\* interface, up and with an address, every multicast one.
ip4_input(s, p, ok) ==
  IF ip4_header_bad(p) \/ ip4_addr_isbroadcast(p.src) \/ ip_addr_ismulticast(p.src)
    THEN pbuf_free(s)
  ELSE IF p.frag = "held" THEN Give(s, "ip4_reass")
  ELSE ip4_dispatch(s, p, ok)

----------------------------------------------------------------------------
(* IPv6.  An extension header is a record of its kind and of what is found *)
(* in it: a length beyond the buffer, an unknown option with its action, a *)
(* routing type, the state of the fragment.                                *)

ip6_input_accepts(s, p) ==
  IF ip_addr_ismulticast(p.dst)
    THEN p.dst = "allnodes" \/ (p.dst = "solicited" /\ s.ipv6)
    ELSE TRUE

\* Parameter problem, and the packet is dropped.
Problem(s, p) == pbuf_free(icmp6_send_response(s, p, "problem"))

ip6_options(s, p, h) ==
  CASE h.opt \in {"long", "discard"} -> [stop |-> TRUE, s |-> pbuf_free(s)]
    [] h.opt = "problem"             -> [stop |-> TRUE, s |-> Problem(s, p)]
    [] h.opt = "problem_unicast"     ->
         [stop |-> TRUE,
          s |-> IF ip_addr_ismulticast(p.dst) THEN pbuf_free(s)
                ELSE Problem(s, p)]
    [] OTHER                         -> [stop |-> FALSE, s |-> s]

\* Destination options: the same walk, in code of its own.
ip6_destination_options(s, p, h) == ip6_options(s, p, h)

ip6_routing(s, p, h) ==
  CASE h.opt = "long"            -> [stop |-> TRUE, s |-> pbuf_free(s)]
    [] h.opt \in {"odd", "type"} -> [stop |-> TRUE, s |-> Problem(s, p)]
    [] OTHER                     -> [stop |-> FALSE, s |-> s]

ip6_fragment(s, p, h) ==
  CASE h.opt = "long" -> [stop |-> TRUE, s |-> pbuf_free(s)]
    [] h.opt = "plen" -> [stop |-> TRUE, s |-> Problem(s, p)]
    [] h.opt = "held" -> [stop |-> TRUE, s |-> Give(s, "ip6_reass")]
    [] OTHER          -> [stop |-> FALSE, s |-> s]

ip6_dispatch(s, p, ok) ==
  CASE p.proto = "NONE" -> pbuf_free(s)
    [] p.proto = "UDP"  -> udp_input(s, p, ok)
    [] p.proto = "TCP"  -> tcp_input(s, p, ok)
    [] p.proto = "ICMP" -> icmp6_input(s, p)
    [] OTHER -> IF ip_addr_ismulticast(p.dst) THEN pbuf_free(s)
                ELSE Problem(s, p)

\* The walk over the extension headers, "before" the ones already read.  A
\* Hop-by-Hop header that follows a header just read is a problem:
\* "Hop-by-Hop header comes only as a first option".
RECURSIVE ip6_headers(_, _, _, _, _)
ip6_headers(s, p, before, exts, ok) ==
  IF exts = << >> THEN ip6_dispatch(s, p, ok)
  ELSE LET h    == Head(exts)
           r    == CASE h.h = "HBH"             -> ip6_options(s, p, h)
                     [] h.h = "DEST"            -> ip6_destination_options(s, p, h)
                     [] h.h = "ROUT"            -> ip6_routing(s, p, h)
                     [] h.h = "FRAG"            -> ip6_fragment(s, p, h)
           \* A datagram that ip6_reass made whole is read again from its
           \* first header, without the fragment header.
           whole == h.h = "FRAG" /\ h.opt = "whole"
           done == IF whole THEN << >> ELSE Append(before, h)
           left == IF whole THEN before \o Tail(exts) ELSE Tail(exts)
       IN  IF r.stop THEN r.s
           ELSE IF left # << >> /\ Head(left).h = "HBH"
             THEN [Problem(r.s, p) EXCEPT !.to = "hbh_not_first"]
           ELSE ip6_headers(r.s, p, done, left, ok)

ip6_input(s, p, ok) ==
  IF \/ p.fault \in {"version", "length"}
     \/ "mapped" \in {p.src, p.dst} \/ ip_addr_ismulticast(p.src)
     \/ (p.src = "any6" /\ p.dst \notin {"solicited", "solicited_other"})
     \/ ~ip6_input_accepts(s, p)
    THEN pbuf_free(s)
    ELSE ip6_headers(s, p, << >>, p.exts, ok)

ip_input(s, p, ok) ==
  IF p.v = 6 THEN ip6_input(s, p, ok) ELSE ip4_input(s, p, ok)

----------------------------------------------------------------------------
(* A datagram for the application: udp_send, its source address, and the   *)
(* room for its headers.  One that is "toolong" overflows with the UDP     *)
(* header.                                                                 *)

udp_sendto_if(s, pcb) ==
  IF ip_addr_isany(pcb.local) \/ ip_addr_ismulticast(pcb.local)
    THEN IF pcb.local \in IPv6 THEN ip6_select_source_address(s) ELSE Own(4)
    ELSE pcb.local

\* The datagram refers to the reader's buffer, so that the headers go into a
\* buffer of their own, freed once the packet is out.
udp_sendto_if_src(s, pcb, src, size) ==
  LET q == pbuf_alloc(s)
      r == IF pcb.local \in IPv6
             THEN ip6_output_if_src(q, src, pcb.remote, "udp", size)
             ELSE ip4_output_if_src(q, src, pcb.remote, "udp", size)
  IN  IF size = "toolong" THEN [err |-> "ERR_MEM", s |-> s]
      ELSE [r EXCEPT !.s = pbuf_free(@)]

udp_send(s, pcb, size) ==
  LET src == udp_sendto_if(s, pcb)
  IN  IF src = NULL THEN [err |-> "ERR_RTE", s |-> s]
      ELSE udp_sendto_if_src(s, pcb, src, size)

----------------------------------------------------------------------------
(* The packets of the instance.  What an application's kernel sends has a  *)
(* unicast source, or "::" in a neighbour solicitation.                    *)

Packet(v) == [v |-> v, fault |-> "none", src |-> App(v), dst |-> Host(v),
              frag |-> "no", exts |-> << >>, proto |-> "UDP",
              sport |-> CHOOSE n \in Ports : TRUE,
              dport |-> CHOOSE n \in Ports : TRUE,
              type |-> "SYN", inwnd |-> FALSE]

\* What opens or belongs to a flow.
Transport ==
  {[Packet(v) EXCEPT !.dst = dst, !.sport = n] :
     v \in {4, 6}, n \in Ports,
     dst \in {"host4", "bcast", "mcast4", "host6", "allnodes"}}
  \cup
  {[Packet(v) EXCEPT !.proto = "TCP", !.dst = dst, !.sport = n,
                     !.type = type, !.inwnd = inwnd] :
     v \in {4, 6}, n \in Ports, dst \in {"host4", "bcast", "mcast4", "host6"},
     type \in {"SYN", "ACK", "DATA", "FIN", "RST", "NONE"}, inwnd \in BOOLEAN}

Faulty ==
  {[Packet(v) EXCEPT !.fault = fault, !.proto = proto, !.type = "ECHO"] :
     v \in {4, 6}, proto \in {"UDP", "TCP", "ICMP"},
     fault \in {"version", "length", "checksum", "body", "bodysum"}}
  \cup {[Packet(4) EXCEPT !.frag = frag, !.proto = proto, !.type = "ECHO"] :
           frag \in {"held", "whole"}, proto \in {"UDP", "ICMP"}}

Control ==
  {[Packet(v) EXCEPT !.proto = proto, !.type = type, !.dst = dst, !.src = src] :
     v \in {4, 6}, proto \in {"ICMP", "NONE", "OTHER"},
     type \in {"ECHO", "ND", "REPLY"},
     dst \in {"host4", "own4", "bcast", "mcast4", "host6", "own6", "allnodes",
              "solicited", "solicited_other", "mcast6"},
     src \in {"app4", "bcast", "mcast4", "app6", "mapped", "mcast6", "any6"}}

Headers == [h : {"HBH", "DEST"},
            opt : {"ok", "long", "discard", "problem", "problem_unicast"}]
           \cup [h : {"ROUT"}, opt : {"ok", "long", "odd", "type"}]
           \cup [h : {"FRAG"}, opt : {"long", "plen", "held", "atomic", "whole"}]

Extended ==
  {[Packet(6) EXCEPT !.exts = exts, !.dst = dst] :
     dst \in {"host6", "allnodes"},
     exts \in {<<h>> : h \in Headers} \cup (Headers \X Headers)}
  \cup
  {[Packet(6) EXCEPT !.exts = <<[h |-> "FRAG", opt |-> "whole"]>>, !.dst = dst,
                     !.proto = "ICMP", !.type = "ECHO"] :
     dst \in {"host6", "allnodes"}}

\* Both addresses have the packet's version; the second port is used by two
\* unicast flows only.
Plausible(p) ==
  /\ \A a \in {p.src, p.dst} : a \in IPv6 <=> p.v = 6
  /\ p.src = "any6" => p.proto = "ICMP" /\ p.type = "ND"
  /\ p.inwnd => p.proto = "TCP" /\ p.type = "SYN"
  /\ p.fault = "checksum" => p.v = 4
  /\ p.sport # p.dport => p.dst = "host4"

----------------------------------------------------------------------------
VARIABLES stack,   \* the lists, and what the last step did
          packet,  \* the packet being handled, << >> for none
          flows    \* the flows opened and not yet closed, of UDP and of TCP

vars == <<stack, packet, flows>>

Quiet(s) == [s EXCEPT !.bufs = 0, !.to = NULL, !.pcb = << >>, !.sent = << >>]

Init ==
  /\ \E ipv6 \in BOOLEAN :
       stack = [ipv6 |-> ipv6, udp_pcbs |-> << >>, tcp_active_pcbs |-> << >>,
                tcp_tw_pcbs |-> << >>, bufs |-> 0, to |-> NULL, pcb |-> << >>,
                sent |-> << >>]
  /\ packet = << >>
  /\ flows = [udp |-> {}, tcp |-> {}]

Pcbs(s) == Len(s.udp_pcbs) + Len(s.tcp_active_pcbs) + Len(s.tcp_tw_pcbs)

Opened(list, old) == Range(list) \ Range(old)

\* tun_input reads a packet and gives it to ip_input.  Bounds: the packets
\* that open no flow of interest arrive while there is none.
Input ==
  /\ packet = << >>
  /\ \E p \in Transport \cup (IF Pcbs(stack) = 0
                              THEN Faulty \cup Control \cup Extended ELSE {}),
        ok \in BOOLEAN :
       LET s == ip_input(pbuf_alloc(stack), p, ok)
       IN  /\ Plausible(p)
           /\ Pcbs(s) <= MaxPcbs
           /\ stack' = s
           /\ packet' = <<p>>
           /\ flows' = [udp |-> flows.udp \cup Opened(s.udp_pcbs, stack.udp_pcbs),
                        tcp |-> flows.tcp \cup Opened(s.tcp_active_pcbs,
                                                      stack.tcp_active_pcbs)]

\* The handler returns to the loop.
Return ==
  /\ packet # << >>
  /\ packet' = << >>
  /\ stack' = Quiet(stack)
  /\ UNCHANGED flows

\* udp_proxy_input sends a datagram, and destroys the forward on an error.
Reply ==
  /\ packet = << >>
  /\ \E i \in DOMAIN stack.udp_pcbs, size \in {"fits", "long", "wide", "toolong"} :
       LET pcb  == stack.udp_pcbs[i]
           r    == udp_send(stack, pcb, size)
           dead == r.err \notin {"ERR_OK", "ERR_MEM"}
       IN  /\ stack' = IF dead THEN udp_remove(r.s, pcb) ELSE r.s
           /\ flows' = IF dead THEN [flows EXCEPT !.udp = @ \ {pcb}] ELSE flows
           /\ packet' = <<[Packet(IF pcb.local \in IPv6 THEN 6 ELSE 4)
                           EXCEPT !.src = pcb.remote, !.dst = pcb.local]>>

\* The forward is destroyed: idle, or its proxy failed.
UdpGone ==
  /\ packet = << >>
  /\ \E pcb \in flows.udp :
       /\ stack' = udp_remove(stack, pcb)
       /\ flows' = [flows EXCEPT !.udp = @ \ {pcb}]
  /\ UNCHANGED packet

\* The connection enters TIME-WAIT.
TcpTimeWait ==
  /\ packet = << >>
  /\ \E i \in DOMAIN stack.tcp_active_pcbs :
       stack' = [stack EXCEPT
                   !.tcp_tw_pcbs = <<stack.tcp_active_pcbs[i]>> \o @,
                   !.tcp_active_pcbs = RemoveAt(@, i)]
  /\ UNCHANGED <<packet, flows>>

\* The connection is freed: closed, aborted, or its time is over.
TcpGone ==
  /\ packet = << >>
  /\ \E pcb \in flows.tcp :
       /\ stack' = [stack EXCEPT
                      !.tcp_active_pcbs = SelectSeq(@, LAMBDA q : q # pcb),
                      !.tcp_tw_pcbs = SelectSeq(@, LAMBDA q : q # pcb)]
       /\ flows' = [flows EXCEPT !.tcp = @ \ {pcb}]
  /\ UNCHANGED packet

Next == Input \/ Return \/ Reply \/ UdpGone \/ TcpTimeWait \/ TcpGone

Spec == Init /\ [][Next]_vars

----------------------------------------------------------------------------
\* A packet for one address reaches the flow of exactly its addresses and
\* ports (a limited broadcast may reach any flow of its ports).  The lists hold
\* every open flow once: moving the pcb of a packet to the front of its list,
\* opening and removing pcbs lose and duplicate none, and a TCP flow is in one
\* of its two lists only.  Every buffer a step took or was given is freed or
\* handed on exactly once, on every path of the input handlers, error answers
\* included.
FlowExact ==
  LET tcp == stack.tcp_active_pcbs \o stack.tcp_tw_pcbs
  IN  /\ \A p \in Range(packet) :
           stack.to = "flow" /\ ~ip4_addr_isbroadcast(p.dst) => stack.pcb = <<Pcb(p)>>
      /\ IsInjective(stack.udp_pcbs) /\ Range(stack.udp_pcbs) = flows.udp
      /\ IsInjective(tcp) /\ Range(tcp) = flows.tcp
      /\ stack.bufs = 0

\* What the stack sends on account of a packet goes to the packet's source,
\* and comes from the address it was sent to, or from the interface's own
\* address for a group and for an ICMP error.
AnswersAddressed ==
  \A p \in Range(packet), m \in Range(stack.sent) :
    /\ m.dst = p.src
    /\ m.src = IF m.kind \in {"unreach", "problem"} \/ ip_addr_ismulticast(p.dst)
                 THEN Own(p.v) ELSE p.dst

\* "Hop-by-Hop header comes only as a first option": a packet is refused for
\* the place of its Hop-by-Hop header only if that header is not the first.
OnlyLaterHopByHop ==
  \A p \in Range(packet) :
    stack.to = "hbh_not_first" =>
      \E i \in DOMAIN p.exts : i > 1 /\ p.exts[i].h = "HBH"
=============================================================================
