------------------------------- MODULE MCNet --------------------------------
(***************************************************************************)
(* The network layer of lwIP: reassembly, the buffers of a connection, the  *)
(* input of packets, and the interface with its neighbours, each on an      *)
(* instance of its own: which says which of them moves, and the others stay *)
(* in an initial state.                                                     *)
(***************************************************************************)
EXTENDS Naturals, Sequences

CONSTANTS
  d1, d2, d3,                                        \* datagrams, and neighbours
  U16, Pbufs, SndBuf, Mss, Hdr,                      \* buffers
  Ports, MaxPcbs,                                    \* packets
  PrefixSet, Neighbors, Routers, PrefixSlots,        \* the interface
  MaxSolicit, DelayTime, ReachableTime, Lifetime, ValidLife,
  MaxPbufs, MaxAge                                   \* reassembly

VARIABLES
  which,
  ip, r, out,
  h, sndq, rcvq, ooseq, read, acked, nxt, passed, limit,
  stack, packet, flows,
  phase, s, outlived

\* d1 has two fragments, d2 three and d3 two, and d3 has IPv4 header options.
MCCuts == [d \in {d1, d2, d3} |-> IF d = d2 THEN {0, 1, 2, 3} ELSE {0, 2, 3}]

\* Much data from the proxy; much from the application; some both ways.
MCLimits == {[seg |-> 0, read |-> 9], [seg |-> 4, read |-> 0], [seg |-> 2, read |-> 3]}

Reass == INSTANCE Reassembly WITH Datagrams <- {d1, d2, d3}, Cuts <- MCCuts, WithOptions <- {d3}
Bufs == INSTANCE PbufQueues WITH Limits <- MCLimits
Input == INSTANCE IpInput
Netif == INSTANCE Interface WITH Addrs <- {d1, d2, d3}

\* What the proofs assume of the interface.
ASSUME MCAssumption == Netif!NdAssumption

rvars == <<ip, r, out>>
bvars == <<h, sndq, rcvq, ooseq, read, acked, nxt, passed, limit>>
ivars == <<stack, packet, flows>>
nvars == <<phase, s, outlived>>

MCInit ==
  /\ which \in {"reassembly", "buffers", "input", "interface"}
  /\ Reass!Init /\ Bufs!Init /\ Input!Init /\ Netif!Init
  /\ which # "reassembly" => ip = 4
  /\ which # "buffers" => limit.seg = 0
  /\ which # "input" => stack.ipv6

MCNext ==
  /\ UNCHANGED which
  /\ \/ which = "reassembly" /\ Reass!Next /\ UNCHANGED <<bvars, ivars, nvars>>
     \/ which = "buffers" /\ Bufs!Next /\ UNCHANGED <<rvars, ivars, nvars>>
     \/ which = "input" /\ Input!Next /\ UNCHANGED <<rvars, bvars, nvars>>
     \/ which = "interface" /\ Netif!Next /\ UNCHANGED <<rvars, bvars, ivars>>

\* The timers of core.c, for the one that moves.
MCSpec ==
  /\ MCInit /\ [][MCNext]_<<which, rvars, bvars, ivars, nvars>>
  /\ []<>(which # "reassembly" \/ r.list = <<>>) \/ []<><<which = "reassembly" /\ Reass!Tick>>_rvars
  /\ []<>(phase # "run") \/ []<><<which = "interface" /\ Netif!Tick>>_nvars

----------------------------------------------------------------------------
\* ip4_reass() and ip6_reass() pass on the datagrams that were sent
\* (DatagramWhole of Reassembly).
DatagramWhole == Reass!DatagramWhole

\* Their queue of fragments is counted, bounded and without a finished datagram
\* (QueueSound of Reassembly).
QueueSound == Reass!QueueSound

\* Reference counts and contents of the pbufs of a connection are exact, from
\* pbuf_alloc() to tcp_forward_destroy() (PbufsCounted of PbufQueues).
PbufsCounted == Bufs!PbufsCounted

\* ip_input() and what it calls give a packet to its own flow, keep the lists of
\* flows and free every buffer once (FlowExact of IpInput).
FlowExact == Input!FlowExact

\* What the stack answers goes back to where it should (AnswersAddressed of
\* IpInput).
AnswersAddressed == Input!AnswersAddressed

\* Neighbour cache, routers, prefixes and connections do not refer to an entry
\* or an interface that is gone (NoDanglingReference of Interface).
NoDanglingReference == Netif!NoDanglingReference

\* What waits for an answer that does not come is given up: a datagram without
\* all its fragments by ip_reass_tmr(), a silent neighbour by nd6_tmr()
\* (IncompleteLeaves of Reassembly, SilentNeighborLeaves of Interface).
StaleStateExpires == Reass!IncompleteLeaves /\ Netif!SilentNeighborLeaves
=============================================================================
