-------------------------- MODULE UdpForwardProofs --------------------------
(***************************************************************************)
(* Proofs of the safety properties of the module UdpForward, for any number *)
(* of flows, any queue size, any backoff and any idle timeout longer than   *)
(* the longest backoff.                                                     *)
(***************************************************************************)
EXTENDS UdpForward, TLAPS

\* A queue that holds the newest datagrams up to number s.
Newest(q, s) == \A i \in 1..Len(q) : q[i] = s - Len(q) + i

\* What the fields p, q and g of a forward, the number n of the last datagram
\* sent and the number s of datagrams so far have to do with each other.
GoodFlow(f, p, q, g, n, s) ==
  /\ p \in {"none", "NULL"} \cup Proxies
  /\ q \in Seq(Nat) /\ Len(q) <= QMax
  /\ g \in Nat /\ g <= Idle(f)
  /\ n \in Nat /\ s \in Nat /\ n + Len(q) <= s
  /\ Newest(q, s)
  /\ p = "NULL" => q # <<>>
  /\ p # "NULL" => q = <<>>

FlowTypes ==
  /\ proxy \in [Flows -> {"none", "NULL"} \cup Proxies]
  /\ rcvq \in [Flows -> Seq(Nat)]
  /\ gc \in [Flows -> Nat]
  /\ sent \in [Flows -> Nat] /\ last \in [Flows -> Nat]

AssocTypes ==
  /\ udpassoc \in {"NULL", "HANDSHAKE", "FORWARDING"}
  /\ assocready \in BOOLEAN
  /\ assocretries \in 0..CdExpMax
  /\ assoccd \in 0..CdMax

NoteTypes == tried \in [Flows -> BOOLEAN] /\ waited \in 0..CdMax

FlowInv ==
  \A f \in Flows : GoodFlow(f, proxy[f], rcvq[f], gc[f], last[f], sent[f])

AssocInv ==
  /\ ProxyType # "SOCKS5" => udpassoc = "NULL" /\ assoccd = 0 /\ Pending = {}
  /\ assocready /\ ProxyType = "SOCKS5" => udpassoc = "FORWARDING" /\ Pending = {}
  /\ assoccd > 0 => udpassoc = "NULL" /\ ~assocready

\* The countdown of a forward that waits for its first attempt is behind the
\* countdown of the backoff.
TriedInv ==
  \A f \in Flows \ Port53 :
    proxy[f] = "NULL" /\ ~tried[f] => udpassoc = "NULL" /\ gc[f] > assoccd

\* What is left of the backoff and what has passed make up all of it.
BackoffInv == udpassoc = "NULL" => waited + assoccd >= Backoff(assocretries)

RuleInv == known \subseteq cidrs /\ cidrs \subseteq Targets

IInv ==
  /\ FlowTypes /\ FlowInv
  /\ AssocTypes /\ AssocInv
  /\ NoteTypes /\ TriedInv /\ BackoffInv
  /\ RuleInv

-----------------------------------------------------------------------------
(* Lemmas on the operators *)

\* Append(), as the provers need it for the queue of udp_lwip_received().
LEMMA AppendFacts ==
  ASSUME NEW r \in Seq(Nat), NEW n \in Nat
  PROVE  /\ Append(r, n) \in Seq(Nat) /\ Append(r, n) # <<>>
         /\ Len(Append(r, n)) = Len(r) + 1 /\ Len(r) \in Nat
         /\ Append(r, n)[Len(r) + 1] = n
         /\ \A i \in 1..Len(r) : Append(r, n)[i] = r[i]
OBVIOUS

\* A queue of the newest datagrams, with the next one behind it.
LEMMA AppendNewest ==
  ASSUME NEW r \in Seq(Nat), NEW s \in Nat, Newest(r, s)
  PROVE  Newest(Append(r, s + 1), s + 1)
<1> DEFINE e == Append(r, s + 1)
<1>1. /\ Len(e) = Len(r) + 1 /\ Len(r) \in Nat
      /\ e[Len(r) + 1] = s + 1
      /\ \A i \in 1..Len(r) : e[i] = r[i]
  BY AppendFacts
<1> HIDE DEF e
<1>2. ASSUME NEW i \in 1..Len(e) PROVE e[i] = (s + 1) - Len(e) + i
  <2>1. CASE i = Len(r) + 1  BY <1>1, <2>1
  <2>2. CASE i # Len(r) + 1
    <3>1. i \in 1..Len(r)  BY <1>1, <2>2
    <3> QED  BY <1>1, <3>1 DEF Newest
  <2> QED  BY <2>1, <2>2
<1>3. Newest(e, s + 1)  BY <1>2 DEF Newest
<1> QED  BY <1>3 DEF e

\* A queue without its oldest datagram.
LEMMA TailNewest ==
  ASSUME NEW q \in Seq(Nat), q # <<>>, NEW s \in Nat, Newest(q, s)
  PROVE  /\ Tail(q) \in Seq(Nat) /\ Len(Tail(q)) = Len(q) - 1
         /\ Newest(Tail(q), s)
<1> DEFINE r == Tail(q)
<1>1. /\ r \in Seq(Nat) /\ Len(r) = Len(q) - 1 /\ Len(q) \in Nat
      /\ \A i \in 1..Len(q) - 1 : r[i] = q[i + 1]
  OBVIOUS
<1> HIDE DEF r
<1>2. ASSUME NEW i \in 1..Len(r) PROVE r[i] = s - Len(r) + i
  <2>1. i \in 1..Len(q) - 1 /\ i + 1 \in 1..Len(q)  BY <1>1
  <2> QED  BY <1>1, <2>1 DEF Newest
<1>3. Newest(r, s)  BY <1>2 DEF Newest
<1> QED  BY <1>1, <1>3 DEF r

\* Enqueued(), the body of udp_lwip_received(): the queue stays in its bounds,
\* and its entries are still the newest ones when one more has been sent.
LEMMA EnqueuedFacts ==
  ASSUME NEW q \in Seq(Nat), Len(q) <= QMax, NEW s \in Nat, Newest(q, s)
  PROVE  /\ Enqueued(q, s + 1) \in Seq(Nat)
         /\ Len(Enqueued(q, s + 1)) <= QMax
         /\ Enqueued(q, s + 1) # <<>>
         /\ Newest(Enqueued(q, s + 1), s + 1)
         /\ Len(Enqueued(q, s + 1)) <= Len(q) + 1
<1> DEFINE e == Enqueued(q, s + 1)
<1>0. QMax \in Nat \ {0} /\ Len(q) \in Nat /\ s + 1 \in Nat
  BY UdpAssumption
<1> SUFFICES /\ e \in Seq(Nat) /\ e # <<>> /\ Newest(e, s + 1)
             /\ Len(e) <= QMax /\ Len(e) <= Len(q) + 1
  BY Zenon
<1>1. CASE Len(q) = QMax
  <2>1. q # <<>>  BY <1>0, <1>1
  <2> DEFINE r == Tail(q)
  <2>2. r \in Seq(Nat) /\ Len(r) = Len(q) - 1 /\ Newest(r, s)
    BY <2>1, TailNewest
  <2> HIDE DEF r
  <2>3. /\ Append(r, s + 1) \in Seq(Nat) /\ Append(r, s + 1) # <<>>
        /\ Len(Append(r, s + 1)) = Len(r) + 1
    BY <1>0, <2>2, AppendFacts
  <2>4. Newest(Append(r, s + 1), s + 1)  BY <2>2, AppendNewest
  <2>5. e = Append(r, s + 1)  BY <1>1 DEF Enqueued, r
  <2> HIDE DEF e
  <2>6. Len(Append(r, s + 1)) = Len(q)  BY <1>0, <2>2, <2>3
  <2>7. e \in Seq(Nat) /\ e # <<>> /\ Newest(e, s + 1) /\ Len(e) = Len(q)
    BY <2>3, <2>4, <2>5, <2>6, Zenon
  <2>8. Len(e) <= QMax /\ Len(e) <= Len(q) + 1  BY <1>0, <2>7
  <2> QED  BY <2>7, <2>8
<1>2. CASE Len(q) # QMax
  <2>1. e = Append(q, s + 1)  BY <1>2 DEF Enqueued
  <2> HIDE DEF e
  <2>2. /\ Append(q, s + 1) \in Seq(Nat) /\ Append(q, s + 1) # <<>>
        /\ Len(Append(q, s + 1)) = Len(q) + 1
    BY <1>0, AppendFacts
  <2>3. Newest(Append(q, s + 1), s + 1)  BY AppendNewest
  <2>4. /\ e \in Seq(Nat) /\ e # <<>> /\ Newest(e, s + 1)
        /\ Len(e) = Len(q) + 1
    BY <2>1, <2>2, <2>3, Zenon
  <2>5. Len(e) <= QMax /\ Len(e) <= Len(q) + 1  BY <1>0, <1>2, <2>4
  <2> QED  BY <2>4, <2>5
<1> QED  BY <1>1, <1>2

\* What a queue holds is at most the number of datagrams sent so far.
LEMMA QueueBound ==
  ASSUME NEW q \in Seq(Nat), NEW s \in Nat, Newest(q, s), NEW n \in InQueue(q)
  PROVE  n \in Nat /\ n <= s
BY DEF InQueue, Newest

\* A fresh forward and a destroyed one have nothing queued.
LEMMA EmptyFlow ==
  ASSUME NEW f \in Flows, NEW p \in {"none"} \cup Proxies, NEW g \in Nat,
         g <= Idle(f), NEW n \in Nat, NEW s \in Nat, n <= s
  PROVE  GoodFlow(f, p, <<>>, g, n, s)
<1>1. <<>> \in Seq(Nat) /\ Len(<<>>) = 0
  OBVIOUS
<1>2. QMax \in Nat /\ p # "NULL" /\ p \in {"none", "NULL"} \cup Proxies
  BY UdpAssumption DEF Proxies
<1> QED
  BY <1>1, <1>2 DEF GoodFlow, Newest

\* The idle timeouts and the backoff.
LEMMA Numbers ==
  /\ \A f \in Flows : Idle(f) \in Nat
  /\ CdMax \in Nat \ {0}
  /\ \A n \in 0..CdExpMax : Backoff(n) \in 1..CdMax
  /\ CdMax < UdpIdle
<1>1. CdExpMax \in 0..CdExpMax
  BY UdpAssumption
<1> QED
  BY <1>1, UdpAssumption, PowerAssumption, IdleAssumption DEF Idle, CdMax, Backoff

\* The effect of udp_lwip_received() on a forward with proxy p and idle count g.
Received(f, p, g) ==
  \E p2, q2, g2, n :
    /\ SetForward(f, p2, q2, g2)
    /\ last' = [last EXCEPT ![f] = n]
    /\ GoodFlow(f, p2, q2, g2, n, sent[f] + 1)
    /\ p2 \in {p, "none"}
    /\ p = "NULL" => p2 = "NULL" /\ g2 = g

\* udp_lwip_received() leaves a good forward, pending only if it was, and then
\* with the same idle count.
LEMMA ReceivedFacts ==
  ASSUME NEW f \in Flows, NEW p \in {"NULL"} \cup Proxies, NEW q \in Seq(Nat),
         Len(q) <= QMax, NEW g \in Nat, g <= Idle(f),
         FlowTypes, Newest(q, sent[f]), last[f] + Len(q) <= sent[f],
         udp_lwip_received(f, p, q, g)
  PROVE  Received(f, p, g)
<1> DEFINE e == Enqueued(q, sent[f] + 1)
<1>1. sent[f] \in Nat /\ last[f] \in Nat /\ last \in [Flows -> Nat]
  BY DEF FlowTypes
<1>2. /\ e \in Seq(Nat) /\ Len(e) <= QMax /\ e # <<>>
      /\ Newest(e, sent[f] + 1) /\ Len(e) <= Len(q) + 1
  BY <1>1, EnqueuedFacts
<1>3. CASE p = "NULL"
  <2>1. SetForward(f, p, e, g) /\ last' = last
    BY <1>3 DEF udp_lwip_received
  <2>2. last' = [last EXCEPT ![f] = last[f]]
    BY <1>1, <2>1
  <2>3. last[f] + Len(e) <= sent[f] + 1
    BY <1>1, <1>2
  <2>4. GoodFlow(f, p, e, g, last[f], sent[f] + 1)
    BY <1>1, <1>2, <1>3, <2>3 DEF GoodFlow
  <2> QED
    BY <1>3, <2>1, <2>2, <2>4 DEF Received
<1>4. CASE p # "NULL"
  <2>1. udp_proxy_output(f, p, e)
    BY <1>4 DEF udp_lwip_received
  <2>2. PICK n \in InQueue(e) \cup {last[f]} : last' = [last EXCEPT ![f] = n]
    BY <2>1 DEF udp_proxy_output
  <2>3. n \in Nat /\ n <= sent[f] + 1
    BY <1>1, <1>2, QueueBound
  <2>4. CASE SetForward(f, p, AfterOutput(e), Idle(f))
    <3>1. GoodFlow(f, p, <<>>, Idle(f), n, sent[f] + 1)
      BY <1>1, <1>4, <2>3, Numbers, EmptyFlow
    <3> QED
      BY <1>4, <2>2, <2>4, <3>1 DEF AfterOutput, Received
  <2>5. CASE udp_forward_destroy(f)
    <3>1. GoodFlow(f, "none", <<>>, 0, n, sent[f] + 1)
      BY <1>1, <2>3, Numbers, EmptyFlow
    <3> QED
      BY <1>4, <2>2, <2>5, <3>1 DEF udp_forward_destroy, Received
  <2> QED
    BY <2>1, <2>4, <2>5 DEF udp_proxy_output
<1> QED
  BY <1>3, <1>4

-----------------------------------------------------------------------------
(* Handlers of one flow *)

\* A step that gives one forward new fields that fit together keeps the others.
LEMMA OneFlowChanged ==
  ASSUME FlowTypes, FlowInv, NEW f \in Flows, NEW p, NEW q, NEW g, NEW n, NEW s,
         SetForward(f, p, q, g), last' = [last EXCEPT ![f] = n],
         sent' = [sent EXCEPT ![f] = s], GoodFlow(f, p, q, g, n, s)
  PROVE  FlowTypes' /\ FlowInv'
<1>1. /\ p \in {"none", "NULL"} \cup Proxies
      /\ q \in Seq(Nat) /\ g \in Nat /\ n \in Nat /\ s \in Nat
  BY DEF GoodFlow
<1>2. FlowTypes'
  BY <1>1 DEF FlowTypes, SetForward
<1>3. ASSUME NEW h \in Flows
      PROVE  GoodFlow(h, proxy'[h], rcvq'[h], gc'[h], last'[h], sent'[h])
  <2>1. CASE h = f
    <3>1. proxy'[h] = p /\ rcvq'[h] = q /\ gc'[h] = g /\ last'[h] = n /\ sent'[h] = s
      BY <2>1 DEF FlowTypes, SetForward
    <3> QED
      BY <2>1, <3>1
  <2>2. CASE h # f
    <3>1. /\ proxy'[h] = proxy[h] /\ rcvq'[h] = rcvq[h] /\ gc'[h] = gc[h]
          /\ last'[h] = last[h] /\ sent'[h] = sent[h]
      BY <2>2 DEF FlowTypes, SetForward
    <3> QED
      BY <3>1 DEF FlowInv
  <2> QED
    BY <2>1, <2>2
<1>4. FlowInv'
  BY <1>3 DEF FlowInv
<1> QED
  BY <1>2, <1>4

\* The handlers of one flow keep the forwards good.  A forward is pending after
\* them only if it was, with the same idle count, or if core_udp_new() made it
\* and called core_start_udp_assoc().
FlowHandler(f) ==
  OldFlow(f) \/ core_udp_new(f) \/ udp_proxy_input(f) \/ udp_proxy_error(f)

BornPending(f) ==
  /\ Route(f) = "NULL" /\ core_start_udp_assoc
  /\ proxy' = [proxy EXCEPT ![f] = "NULL"] /\ gc' = [gc EXCEPT ![f] = Idle(f)]

\* See FlowHandler and BornPending above: the effect of the handlers in
\* udp_lwip_received(), core_udp_new() and udp_proxy_io_event() on the forwards.
LEMMA HandlerFacts ==
  ASSUME IInv, NEW f \in Flows, FlowHandler(f)
  PROVE  /\ FlowTypes' /\ FlowInv'
         /\ \/ BornPending(f)
            \/ /\ UNCHANGED assocvars
               /\ \A h \in Flows :
                    proxy'[h] = "NULL" => proxy[h] = "NULL" /\ gc'[h] = gc[h]
<1>0. FlowTypes /\ FlowInv
  BY DEF IInv
<1>1. /\ sent[f] \in Nat /\ last[f] \in Nat /\ gc[f] \in Nat /\ rcvq[f] \in Seq(Nat)
      /\ sent \in [Flows -> Nat] /\ last \in [Flows -> Nat]
      /\ proxy[f] \in {"none", "NULL"} \cup Proxies
  BY <1>0 DEF FlowTypes
<1>2. GoodFlow(f, proxy[f], rcvq[f], gc[f], last[f], sent[f])
  BY <1>0 DEF FlowInv
<1>3. last[f] <= sent[f]
  BY <1>1, <1>2 DEF GoodFlow
<1>4. <<>> \in Seq(Nat) /\ Len(<<>>) = 0 /\ Newest(<<>>, sent[f]) /\ QMax \in Nat
  BY UdpAssumption DEF Newest
<1>5. Idle(f) \in Nat /\ Idle(f) <= Idle(f)
  BY Numbers
<1>6. Len(<<>>) <= QMax
  BY <1>4, UdpAssumption
<1>7. CASE OldFlow(f)
  <2>1. /\ proxy[f] \in {"NULL"} \cup Proxies
        /\ udp_lwip_received(f, proxy[f], rcvq[f], gc[f])
        /\ sent' = [sent EXCEPT ![f] = sent[f] + 1]
        /\ UNCHANGED assocvars
    BY <1>1, <1>7 DEF OldFlow
  <2>2. PICK p2, q2, g2, n :
          /\ SetForward(f, p2, q2, g2)
          /\ last' = [last EXCEPT ![f] = n]
          /\ GoodFlow(f, p2, q2, g2, n, sent[f] + 1)
          /\ p2 \in {proxy[f], "none"}
          /\ proxy[f] = "NULL" => p2 = "NULL" /\ g2 = gc[f]
    <3>1. Newest(rcvq[f], sent[f]) /\ Len(rcvq[f]) <= QMax /\ gc[f] <= Idle(f)
      BY <1>2 DEF GoodFlow
    <3>2. last[f] + Len(rcvq[f]) <= sent[f]
      BY <1>2 DEF GoodFlow
    <3>3. Received(f, proxy[f], gc[f])
      BY <1>1, <2>1, <3>1, <3>2, <1>0, ReceivedFacts
    <3> QED
      BY <3>3 DEF Received
  <2>3. FlowTypes' /\ FlowInv'
    BY <2>1, <2>2, <1>0, OneFlowChanged
  <2>4. \A h \in Flows :
          proxy'[h] = "NULL" => proxy[h] = "NULL" /\ gc'[h] = gc[h]
    BY <1>0, <2>2 DEF FlowTypes, SetForward
  <2> QED
    BY <2>1, <2>3, <2>4
<1>8. CASE core_udp_new(f)
  <2>1. sent' = [sent EXCEPT ![f] = sent[f] + 1] /\ proxy[f] = "none"
    BY <1>1, <1>8 DEF core_udp_new
  <2>2. rcvq[f] = <<>>
    BY <1>2, <2>1 DEF GoodFlow
  <2>3. last[f] + Len(<<>>) <= sent[f]
    BY <1>1, <1>2, <1>4, <2>2 DEF GoodFlow
  <2>4. CASE udp_forward_destroy(f) /\ UNCHANGED last /\ UNCHANGED assocvars
    <3>1. last' = [last EXCEPT ![f] = last[f]] /\ SetForward(f, "none", <<>>, 0)
      BY <1>1, <2>4 DEF udp_forward_destroy
    <3>2. GoodFlow(f, "none", <<>>, 0, last[f], sent[f] + 1)
      BY <1>1, <1>4, <1>5, <2>3, EmptyFlow
    <3>3. FlowTypes' /\ FlowInv'
      BY <2>1, <3>1, <3>2, <1>0, OneFlowChanged
    <3> QED
      BY <1>0, <2>4, <3>1, <3>3 DEF FlowTypes, SetForward
  <2>5. CASE /\ Route(f) \in Proxies
             /\ udp_lwip_received(f, Route(f), <<>>, Idle(f))
             /\ UNCHANGED assocvars
    <3>1. PICK p2, q2, g2, n :
            /\ SetForward(f, p2, q2, g2)
            /\ last' = [last EXCEPT ![f] = n]
            /\ GoodFlow(f, p2, q2, g2, n, sent[f] + 1)
            /\ p2 \in {Route(f), "none"}
      <4>1. Received(f, Route(f), Idle(f))
        <5>1. Route(f) \in {"NULL"} \cup Proxies
          BY <2>5
        <5> QED
          BY <1>4, <1>5, <1>6, <2>3, <2>5, <5>1, <1>0, ReceivedFacts, Zenon
      <4> QED
        BY <4>1 DEF Received
    <3>2. FlowTypes' /\ FlowInv'
      BY <2>1, <3>1, <1>0, OneFlowChanged
    <3>3. p2 # "NULL"
      BY <2>5, <3>1 DEF Proxies
    <3> QED
      BY <1>0, <2>5, <3>1, <3>2, <3>3 DEF FlowTypes, SetForward
  <2>6. CASE /\ Route(f) = "NULL"
             /\ udp_lwip_received(f, "NULL", <<>>, Idle(f))
             /\ core_start_udp_assoc
    <3>1. PICK p2, q2, g2, n :
            /\ SetForward(f, p2, q2, g2)
            /\ last' = [last EXCEPT ![f] = n]
            /\ GoodFlow(f, p2, q2, g2, n, sent[f] + 1)
            /\ p2 = "NULL" /\ g2 = Idle(f)
      <4>1. Received(f, "NULL", Idle(f))
        <5>1. "NULL" \in {"NULL"} \cup Proxies
          OBVIOUS
        <5> QED
          BY <1>4, <1>5, <1>6, <2>3, <2>6, <5>1, <1>0, ReceivedFacts, Zenon
      <4> QED
        BY <4>1 DEF Received
    <3>2. FlowTypes' /\ FlowInv'
      BY <2>1, <3>1, <1>0, OneFlowChanged
    <3> QED
      BY <2>6, <3>1, <3>2 DEF BornPending, SetForward
  <2> QED
    BY <1>8, <2>4, <2>5, <2>6 DEF core_udp_new
<1>9. CASE udp_proxy_input(f)
  <2>1. /\ SetForward(f, proxy[f], rcvq[f], Idle(f)) /\ proxy[f] \in Proxies
        /\ last' = [last EXCEPT ![f] = last[f]]
        /\ sent' = [sent EXCEPT ![f] = sent[f]]
        /\ UNCHANGED assocvars
    BY <1>1, <1>9 DEF udp_proxy_input
  <2>2. GoodFlow(f, proxy[f], rcvq[f], Idle(f), last[f], sent[f])
    BY <1>2, <1>5 DEF GoodFlow
  <2>3. FlowTypes' /\ FlowInv'
    BY <2>1, <2>2, <1>0, OneFlowChanged
  <2> QED
    BY <1>0, <2>1, <2>3 DEF FlowTypes, SetForward, Proxies
<1>10. CASE udp_proxy_error(f)
  <2>1. /\ SetForward(f, "none", <<>>, 0)
        /\ last' = [last EXCEPT ![f] = last[f]]
        /\ sent' = [sent EXCEPT ![f] = sent[f]]
        /\ UNCHANGED assocvars
    BY <1>1, <1>10 DEF udp_proxy_error, udp_forward_destroy
  <2>2. GoodFlow(f, "none", <<>>, 0, last[f], sent[f])
    BY <1>1, <1>3, <1>5, EmptyFlow
  <2>3. FlowTypes' /\ FlowInv'
    BY <2>1, <2>2, <1>0, OneFlowChanged
  <2> QED
    BY <1>0, <2>1, <2>3 DEF FlowTypes, SetForward
<1> QED
  BY <1>7, <1>8, <1>9, <1>10 DEF FlowHandler

-----------------------------------------------------------------------------
(* Handlers of all flows *)

\* The fields of a forward that udp_forward_destroy() has ended.
LEMMA DeadFlow ==
  ASSUME FlowTypes, FlowInv, NEW f \in Flows
  PROVE  GoodFlow(f, "none", <<>>, 0, last[f], sent[f])
<1>1. /\ GoodFlow(f, proxy[f], rcvq[f], gc[f], last[f], sent[f])
      /\ rcvq[f] \in Seq(Nat) /\ last[f] \in Nat /\ sent[f] \in Nat
  BY DEF FlowTypes, FlowInv
<1>2. last[f] <= sent[f]
  BY <1>1 DEF GoodFlow
<1>3. Idle(f) \in Nat
  BY Numbers
<1> QED
  BY <1>1, <1>2, <1>3, EmptyFlow

\* The loss of the association ends the pending forwards and only those.
LEMMA LostFacts ==
  ASSUME IInv, udp_assoc_lost
  PROVE  FlowTypes' /\ FlowInv' /\ \A f \in Flows : proxy'[f] # "NULL"
<1>0. FlowTypes /\ FlowInv
  BY DEF IInv
<1>1. /\ proxy' = [f \in Flows |-> IF f \in Pending THEN "none" ELSE proxy[f]]
      /\ rcvq' = [f \in Flows |-> IF f \in Pending THEN <<>> ELSE rcvq[f]]
      /\ gc' = [f \in Flows |-> IF f \in Pending THEN 0 ELSE gc[f]]
      /\ last' = last /\ sent' = sent
  BY DEF udp_assoc_lost
<1>2. <<>> \in Seq(Nat)
  OBVIOUS
<1>3. FlowTypes'
  BY <1>0, <1>1, <1>2 DEF FlowTypes
<1>4. ASSUME NEW f \in Flows
      PROVE  /\ GoodFlow(f, proxy'[f], rcvq'[f], gc'[f], last'[f], sent'[f])
             /\ proxy'[f] # "NULL"
  <2>1. CASE f \in Pending
    <3>1. /\ proxy'[f] = "none" /\ rcvq'[f] = <<>> /\ gc'[f] = 0
          /\ last'[f] = last[f] /\ sent'[f] = sent[f]
      BY <1>1, <2>1
    <3> QED
      BY <1>0, <3>1, DeadFlow
  <2>2. CASE f \notin Pending
    <3>1. /\ proxy'[f] = proxy[f] /\ rcvq'[f] = rcvq[f] /\ gc'[f] = gc[f]
          /\ last'[f] = last[f] /\ sent'[f] = sent[f] /\ proxy[f] # "NULL"
      BY <1>1, <2>2 DEF Pending
    <3> QED
      BY <1>0, <3>1 DEF FlowInv
  <2> QED
    BY <2>1, <2>2
<1> QED
  BY <1>3, <1>4 DEF FlowInv

\* The association that becomes ready gives every pending forward a proxy or
\* ends it.
LEMMA ReadyFacts ==
  ASSUME IInv, udp_assoc_ready
  PROVE  FlowTypes' /\ FlowInv' /\ \A f \in Flows : proxy'[f] # "NULL"
<1>0. FlowTypes /\ FlowInv
  BY DEF IInv
<1>1. PICK made \in SUBSET Pending, kept \in SUBSET Pending, n \in [Flows -> 0..MaxSent] :
        /\ kept \subseteq made
        /\ proxy' = [f \in Flows |-> CASE f \in kept -> PendingRoute(f)
                                       [] f \in Pending \ kept -> "none"
                                       [] OTHER -> proxy[f]]
        /\ rcvq' = [f \in Flows |-> CASE f \in kept -> AfterOutput(rcvq[f])
                                      [] f \in Pending \ kept -> <<>>
                                      [] OTHER -> rcvq[f]]
        /\ gc' = [f \in Flows |-> CASE f \in kept -> Idle(f)
                                    [] f \in Pending \ kept -> 0
                                    [] OTHER -> gc[f]]
        /\ \A f \in Flows : n[f] \in {last[f]} \cup
                                      (IF f \in made THEN InQueue(rcvq[f]) ELSE {})
        /\ last' = n
  BY DEF udp_assoc_ready
<1>2. sent' = sent
  BY DEF udp_assoc_ready
<1>3. ASSUME NEW f \in Flows
      PROVE  /\ last'[f] \in Nat /\ last'[f] <= sent[f] /\ sent[f] \in Nat
             /\ f \notin made => last'[f] = last[f]
  <2>1. /\ GoodFlow(f, proxy[f], rcvq[f], gc[f], last[f], sent[f])
        /\ rcvq[f] \in Seq(Nat) /\ last[f] \in Nat /\ sent[f] \in Nat
    BY <1>0 DEF FlowTypes, FlowInv
  <2>2. last[f] <= sent[f] /\ Newest(rcvq[f], sent[f])
    BY <2>1 DEF GoodFlow
  <2>3. \A k \in InQueue(rcvq[f]) : k \in Nat /\ k <= sent[f]
    BY <2>1, <2>2, QueueBound
  <2> QED
    BY <1>1, <2>1, <2>2, <2>3
<1>4. ASSUME NEW f \in Flows
      PROVE  /\ GoodFlow(f, proxy'[f], rcvq'[f], gc'[f], last'[f], sent'[f])
             /\ proxy'[f] # "NULL"
  <2>0. Idle(f) \in Nat /\ Idle(f) <= Idle(f) /\ 0 <= Idle(f)
    BY Numbers
  <2>1. CASE f \in kept
    <3>1. /\ proxy'[f] = PendingRoute(f) /\ rcvq'[f] = <<>> /\ gc'[f] = Idle(f)
      BY <1>1, <2>1 DEF AfterOutput
    <3>2. PendingRoute(f) \in {"none"} \cup Proxies /\ PendingRoute(f) # "NULL"
      BY DEF PendingRoute, Proxies
    <3> QED
      BY <1>2, <1>3, <2>0, <3>1, <3>2, EmptyFlow
  <2>2. CASE f \in Pending \ kept
    <3>1. proxy'[f] = "none" /\ rcvq'[f] = <<>> /\ gc'[f] = 0
      BY <1>1, <2>2
    <3> QED
      BY <1>2, <1>3, <2>0, <3>1, EmptyFlow
  <2>3. CASE f \notin Pending
    <3>1. /\ proxy'[f] = proxy[f] /\ rcvq'[f] = rcvq[f] /\ gc'[f] = gc[f]
          /\ proxy[f] # "NULL" /\ f \notin made
      BY <1>1, <2>3 DEF Pending
    <3> QED
      BY <1>0, <1>2, <1>3, <3>1 DEF FlowInv
  <2> QED
    BY <1>1, <2>1, <2>2, <2>3
<1>5. FlowTypes'
  <2>1. \A f \in Flows : /\ proxy'[f] \in {"none", "NULL"} \cup Proxies
                         /\ rcvq'[f] \in Seq(Nat) /\ gc'[f] \in Nat
                         /\ last'[f] \in Nat
    BY <1>4 DEF GoodFlow
  <2>2. /\ proxy' = [f \in Flows |-> proxy'[f]] /\ rcvq' = [f \in Flows |-> rcvq'[f]]
        /\ gc' = [f \in Flows |-> gc'[f]] /\ last' = [f \in Flows |-> last'[f]]
    BY <1>1
  <2>3. /\ proxy' \in [Flows -> {"none", "NULL"} \cup Proxies]
        /\ rcvq' \in [Flows -> Seq(Nat)] /\ gc' \in [Flows -> Nat]
        /\ last' \in [Flows -> Nat]
    BY <2>1, <2>2
  <2> QED
    BY <1>0, <1>2, <2>3 DEF FlowTypes
<1> QED
  BY <1>4, <1>5 DEF FlowInv

\* A tick of core_gc_tmr() ends forwards and counts the others down.
LEMMA TickFacts ==
  ASSUME IInv, core_gc_tmr, UNCHANGED <<sent, last>>
  PROVE  /\ FlowTypes' /\ FlowInv'
         /\ \A f \in Flows : proxy'[f] = "NULL" =>
              proxy[f] = "NULL" /\ gc[f] > 0 /\ gc'[f] = gc[f] - 1
<1>0. FlowTypes /\ FlowInv
  BY DEF IInv
<1>1. /\ proxy' = [f \in Flows |-> IF f \in Expired THEN "none" ELSE proxy[f]]
      /\ rcvq' = [f \in Flows |-> IF f \in Expired THEN <<>> ELSE rcvq[f]]
      /\ gc' = [f \in Flows |-> IF gc[f] = 0 THEN 0 ELSE gc[f] - 1]
  BY DEF core_gc_tmr
<1>2. <<>> \in Seq(Nat)
  OBVIOUS
<1>3. FlowTypes'
  BY <1>0, <1>1, <1>2 DEF FlowTypes
<1>4. ASSUME NEW f \in Flows
      PROVE  /\ GoodFlow(f, proxy'[f], rcvq'[f], gc'[f], last'[f], sent'[f])
             /\ proxy'[f] = "NULL" =>
                  proxy[f] = "NULL" /\ gc[f] > 0 /\ gc'[f] = gc[f] - 1
  <2>0. gc[f] \in Nat /\ GoodFlow(f, proxy[f], rcvq[f], gc[f], last[f], sent[f])
    BY <1>0 DEF FlowTypes, FlowInv
  <2>1. CASE f \in Expired
    <3>1. proxy'[f] = "none" /\ rcvq'[f] = <<>> /\ gc'[f] = 0
      BY <1>1, <2>1 DEF Expired
    <3> QED
      BY <1>0, <3>1, DeadFlow
  <2>2. CASE f \notin Expired /\ gc[f] = 0
    <3>1. proxy'[f] = proxy[f] /\ rcvq'[f] = rcvq[f] /\ gc'[f] = 0 /\ proxy[f] = "none"
      BY <1>1, <2>2 DEF Expired
    <3> QED
      BY <2>0, <2>2, <3>1
  <2>3. CASE f \notin Expired /\ gc[f] # 0
    <3>1. proxy'[f] = proxy[f] /\ rcvq'[f] = rcvq[f] /\ gc'[f] = gc[f] - 1
      BY <1>1, <2>3
    <3>2. Idle(f) \in Nat /\ gc[f] > 0 /\ gc[f] - 1 \in Nat
      BY <2>0, <2>3, Numbers
    <3> QED
      BY <2>0, <3>1, <3>2 DEF GoodFlow
  <2> QED
    BY <2>1, <2>2, <2>3
<1> QED
  BY <1>3, <1>4 DEF FlowInv

-----------------------------------------------------------------------------
(* The association *)

\* An attempt of core_start_udp_assoc(): the connection is made, or the backoff
\* starts.
Attempted ==
  /\ ProxyType = "SOCKS5" /\ udpassoc = "NULL" /\ assocready = FALSE /\ assoccd = 0
  /\ assocready' = FALSE
  /\ assocretries' \in 0..CdExpMax
  /\ \/ udpassoc' = "HANDSHAKE" /\ assoccd' = 0
     \/ udpassoc' = "NULL" /\ assoccd' = Backoff(assocretries') /\ assoccd' > 0

CountedDown ==
  /\ assoccd > 0 /\ assoccd' = assoccd - 1
  /\ UNCHANGED <<udpassoc, assocready, assocretries>>

\* core_start_udp_assoc() does nothing or makes an attempt.
LEMMA StartFacts ==
  ASSUME AssocTypes, core_start_udp_assoc
  PROVE  \/ ~MayStart /\ UNCHANGED assocvars
         \/ Attempted /\ Attempt
<1>1. CASE MayStart /\ \E ok \in BOOLEAN : StartUdpAssoc(ok)
  <2>1. PICK ok \in BOOLEAN : StartUdpAssoc(ok)
    BY <1>1
  <2>2. /\ ProxyType = "SOCKS5" /\ udpassoc = "NULL" /\ assoccd = 0
        /\ assocready = FALSE
    BY <1>1 DEF MayStart, AssocTypes
  <2>3. assocready' = FALSE
    BY <2>1, <2>2 DEF StartUdpAssoc
  <2>4. assocretries' \in 0..CdExpMax
    BY <2>1, UdpAssumption DEF StartUdpAssoc, Incremented, AssocTypes
  <2>5. Backoff(assocretries') \in Nat /\ Backoff(assocretries') > 0
    BY <2>4, Numbers
  <2>6. \/ udpassoc' = "HANDSHAKE" /\ assoccd' = 0
        \/ udpassoc' = "NULL" /\ assoccd' = Backoff(assocretries') /\ assoccd' > 0
    <3>1. CASE ok
      BY <2>1, <2>2, <3>1 DEF StartUdpAssoc
    <3>2. CASE ~ok
      BY <2>1, <2>5, <3>2 DEF StartUdpAssoc
    <3> QED
      BY <3>1, <3>2
  <2>7. Attempt
    BY <2>2, <2>6 DEF Attempt
  <2> QED
    BY <2>2, <2>3, <2>4, <2>6, <2>7 DEF Attempted
<1>2. CASE ~MayStart /\ UNCHANGED assocvars
  BY <1>2
<1> QED
  BY <1>1, <1>2 DEF core_start_udp_assoc

\* A tick of core_reassoc_tmr() does nothing, counts down or makes an attempt;
\* while a forward is pending and there is no association it does not do nothing.
LEMMA ReassocFacts ==
  ASSUME AssocTypes, core_reassoc_tmr
  PROVE  /\ UNCHANGED assocvars \/ CountedDown \/ (Attempted /\ Attempt)
         /\ /\ ProxyType = "SOCKS5" /\ udpassoc = "NULL" /\ ~assocready
            /\ \E f \in Flows : proxy'[f] = "NULL"
            => CountedDown \/ (Attempted /\ Attempt)
<1> DEFINE needed == /\ ProxyType = "SOCKS5" /\ udpassoc = "NULL" /\ ~assocready
                     /\ \E f \in Flows : proxy'[f] = "NULL"
<1>1. CASE needed /\ assoccd > 0 /\ assoccd' = assoccd - 1
           /\ UNCHANGED <<udpassoc, assocready, assocretries>>
  BY <1>1 DEF CountedDown
<1>2. CASE needed /\ assoccd = 0 /\ core_start_udp_assoc
  <2>1. MayStart
    BY <1>2 DEF MayStart
  <2> QED
    BY <1>2, <2>1, StartFacts
<1>3. CASE ~needed /\ UNCHANGED assocvars
  BY <1>3
<1> QED
  BY <1>1, <1>2, <1>3 DEF core_reassoc_tmr

\* Every step of core.c does one of six things to the association.
LEMMA AssocCases ==
  ASSUME IInv, Next
  PROVE  \/ UNCHANGED assocvars
         \/ Attempted
         \/ CountedDown
         \/ assoc_handshaked \/ udp_assoc_lost \/ udp_assoc_ready
<1>0. AssocTypes
  BY DEF IInv
<1>1. ASSUME NEW f \in Flows, FlowHandler(f)
      PROVE  UNCHANGED assocvars \/ Attempted
  BY <1>0, <1>1, HandlerFacts, StartFacts DEF BornPending
<1>2. CASE core_timer
  BY <1>0, <1>2, ReassocFacts DEF core_timer
<1> QED
  BY <1>1, <1>2 DEF Next, FlowHandler

\* The association keeps its types (struct corectx in core.c).
LEMMA AssocTypesKept ==
  ASSUME IInv, Next
  PROVE  AssocTypes'
<1>0. AssocTypes
  BY DEF IInv
<1>1. CASE UNCHANGED assocvars
  BY <1>0, <1>1 DEF AssocTypes, assocvars
<1>2. CASE Attempted
  <2>1. assoccd' \in 0..CdMax
    BY <1>2, Numbers DEF Attempted
  <2>2. assocready' \in BOOLEAN
    BY <1>2 DEF Attempted
  <2>3. assocretries' \in 0..CdExpMax /\ udpassoc' \in {"NULL", "HANDSHAKE"}
    BY <1>2 DEF Attempted
  <2> QED
    BY <2>1, <2>2, <2>3 DEF AssocTypes
<1>3. CASE CountedDown
  <2>1. assoccd' \in 0..CdMax
    BY <1>0, <1>3, Numbers DEF CountedDown, AssocTypes
  <2>2. assocready' \in BOOLEAN
    BY <1>0, <1>3 DEF CountedDown, AssocTypes
  <2>3. /\ assocretries' \in 0..CdExpMax
        /\ udpassoc' \in {"NULL", "HANDSHAKE", "FORWARDING"}
    BY <1>0, <1>3 DEF CountedDown, AssocTypes
  <2> QED
    BY <2>1, <2>2, <2>3 DEF AssocTypes
<1>4. CASE assoc_handshaked
  BY <1>0, <1>4 DEF assoc_handshaked, AssocTypes
<1>5. CASE udp_assoc_lost
  <2>1. assoccd' \in 0..CdMax
    BY <1>0, <1>5, Numbers DEF udp_assoc_lost, AssocTypes
  <2>2. assocready' \in BOOLEAN
    BY <1>5 DEF udp_assoc_lost, ReadyAfterLoss
  <2>3. assocretries' \in 0..CdExpMax /\ udpassoc' = "NULL"
    BY <1>0, <1>5 DEF udp_assoc_lost, AssocTypes
  <2> QED
    BY <2>1, <2>2, <2>3 DEF AssocTypes
<1>6. CASE udp_assoc_ready
  BY <1>0, <1>6, UdpAssumption DEF udp_assoc_ready, AssocTypes
<1> QED
  BY <1>1, <1>2, <1>3, <1>4, <1>5, <1>6, AssocCases

\* All flows in one step: types, good forwards, and where pending forwards come
\* from (the handlers of core.c together).
LEMMA FlowsKept ==
  ASSUME IInv, Next
  PROVE  /\ FlowTypes' /\ FlowInv'
         /\ \A h \in Flows : proxy'[h] = "NULL" =>
              \/ proxy[h] = "NULL"
              \/ BornPending(h)
<1>1. ASSUME NEW f \in Flows, FlowHandler(f)
      PROVE  /\ FlowTypes' /\ FlowInv'
             /\ \A h \in Flows : proxy'[h] = "NULL" =>
                  proxy[h] = "NULL" \/ BornPending(h)
  <2>1. FlowTypes' /\ FlowInv'
    BY <1>1, HandlerFacts
  <2>2. CASE BornPending(f)
    <3>1. proxy' = [proxy EXCEPT ![f] = "NULL"] /\ FlowTypes
      BY <2>2 DEF BornPending, IInv
    <3>2. \A h \in Flows : h # f => proxy'[h] = proxy[h]
      BY <3>1 DEF FlowTypes
    <3> QED
      BY <2>1, <2>2, <3>2
  <2>3. CASE \A h \in Flows : proxy'[h] = "NULL" => proxy[h] = "NULL" /\ gc'[h] = gc[h]
    BY <2>1, <2>3
  <2> QED
    BY <1>1, <2>2, <2>3, HandlerFacts
<1>2. CASE assoc_handshaked
  BY <1>2 DEF assoc_handshaked, IInv, FlowTypes, FlowInv
<1>3. CASE udp_assoc_lost
  BY <1>3, LostFacts
<1>4. CASE udp_assoc_ready
  BY <1>4, ReadyFacts
<1>5. CASE core_timer
  BY <1>5, TickFacts DEF core_timer
<1> QED
  BY <1>1, <1>2, <1>3, <1>4, <1>5 DEF Next, FlowHandler

\* A forward is born pending only for a SOCKS5 proxy whose association is not
\* ready (core_udp_new()).
LEMMA BornFacts ==
  ASSUME NEW f \in Flows, BornPending(f), AssocTypes
  PROVE  ProxyType = "SOCKS5" /\ assocready = FALSE
<1>1. Route(f) = "NULL"
  BY DEF BornPending
<1>2. ProxyType = "SOCKS5" /\ ~assocready
  BY <1>1, UdpAssumption DEF Route
<1> QED
  BY <1>2 DEF AssocTypes

\* AssocInv is kept by every handler of core.c.
LEMMA AssocKept ==
  ASSUME IInv, Next
  PROVE  AssocInv'
<1>0. AssocTypes /\ AssocInv /\ FlowTypes
  BY DEF IInv
<1>a. /\ assocready \in BOOLEAN /\ assoccd \in Nat /\ assocready' \in BOOLEAN
      /\ assoccd' \in Nat
  BY <1>0, AssocTypesKept, Numbers DEF AssocTypes
<1>b. \A h \in Flows : BornPending(h) => ProxyType = "SOCKS5" /\ assocready = FALSE
  BY <1>0, BornFacts
<1>c. \A h \in Flows : proxy'[h] = "NULL" => proxy[h] = "NULL" \/ BornPending(h)
  BY FlowsKept
<1>1. CASE UNCHANGED assocvars
  <2>1. udpassoc' = udpassoc /\ assocready' = assocready /\ assoccd' = assoccd
    BY <1>1 DEF assocvars
  <2>2. ASSUME ProxyType # "SOCKS5" PROVE udpassoc' = "NULL" /\ assoccd' = 0 /\ Pending' = {}
    BY <1>0, <1>b, <1>c, <2>1, <2>2 DEF AssocInv, Pending
  <2>3. ASSUME assocready', ProxyType = "SOCKS5"
        PROVE  udpassoc' = "FORWARDING" /\ Pending' = {}
    BY <1>0, <1>b, <1>c, <2>1, <2>3 DEF AssocInv, Pending
  <2> QED
    BY <1>0, <2>1, <2>2, <2>3 DEF AssocInv
<1>2. CASE Attempted
  BY <1>2 DEF Attempted, AssocInv
<1>3. CASE CountedDown
  <2>1. /\ assoccd > 0 /\ udpassoc' = "NULL" /\ assocready' = FALSE
        /\ ProxyType = "SOCKS5"
    BY <1>0, <1>3, <1>a DEF CountedDown, AssocInv
  <2> QED
    BY <2>1 DEF AssocInv
<1>4. CASE assoc_handshaked
  <2>1. /\ udpassoc = "HANDSHAKE" /\ udpassoc' = "FORWARDING"
        /\ assocready' = assocready /\ assoccd' = assoccd
    BY <1>4 DEF assoc_handshaked
  <2>2. ProxyType = "SOCKS5" /\ ~(assoccd > 0) /\ ~assocready
    BY <1>0, <2>1 DEF AssocInv
  <2> QED
    BY <2>1, <2>2 DEF AssocInv
<1>5. CASE udp_assoc_lost
  <2>1. ProxyType = "SOCKS5" /\ udpassoc' = "NULL" /\ assocready' = FALSE
    BY <1>0, <1>5 DEF udp_assoc_lost, AssocInv, ReadyAfterLoss
  <2> QED
    BY <2>1 DEF AssocInv
<1>6. CASE udp_assoc_ready
  <2>1. /\ udpassoc = "FORWARDING" /\ udpassoc' = "FORWARDING" /\ assoccd' = assoccd
    BY <1>6 DEF udp_assoc_ready
  <2>2. ProxyType = "SOCKS5" /\ ~(assoccd > 0)
    BY <1>0, <2>1 DEF AssocInv
  <2>3. Pending' = {}
    BY <1>6, ReadyFacts DEF Pending
  <2> QED
    BY <2>1, <2>2, <2>3 DEF AssocInv
<1> QED
  BY <1>1, <1>2, <1>3, <1>4, <1>5, <1>6, AssocCases

-----------------------------------------------------------------------------
(* The history variables *)

\* One more tick of core_timerfd_epcb_events(), up to the longest backoff.
OneMore(w) == IF w < CdMax THEN w + 1 ELSE CdMax

\* The flows that have seen an attempt of core_start_udp_assoc().
TriedNext ==
  tried' = [f \in Flows |->
              proxy'[f] = "NULL" /\ (tried[f] \/ Attempt \/ udpassoc # "NULL")]

\* Every handler of core.c notes the attempts; only the tick of core_timer
\* counts the time.
LEMMA NoteFacts ==
  ASSUME IInv, Next
  PROVE  /\ TriedNext
         /\ \/ waited' = IF assoccd' > assoccd THEN 0 ELSE waited
            \/ core_timer /\ waited' = IF assoccd' > assoccd THEN 0 ELSE OneMore(waited)
<1>1. ASSUME NEW f \in Flows, FlowHandler(f)
      PROVE  NoteAttempt(waited)
  BY <1>1 DEF FlowHandler, OldFlow, core_udp_new, udp_proxy_input, udp_proxy_error
<1>2. ASSUME assoc_handshaked \/ udp_assoc_lost \/ udp_assoc_ready
      PROVE  NoteAttempt(waited)
  BY <1>2 DEF assoc_handshaked, udp_assoc_lost, udp_assoc_ready
<1>3. ASSUME core_timer
      PROVE  NoteAttempt(OneMore(waited))
  BY <1>3 DEF core_timer, OneMore
<1>4. NoteAttempt(waited) \/ (core_timer /\ NoteAttempt(OneMore(waited)))
  BY <1>1, <1>2, <1>3 DEF Next, FlowHandler
<1> QED
  BY <1>4 DEF NoteAttempt, TriedNext

\* The history variables keep their types.
LEMMA NoteTypesKept ==
  ASSUME IInv, Next
  PROVE  NoteTypes'
<1>0. NoteTypes
  BY DEF IInv
<1>1. tried' \in [Flows -> BOOLEAN]
  <2>1. TriedNext
    BY NoteFacts
  <2> QED
    BY <2>1, Zenon DEF TriedNext
<1>2. waited' \in 0..CdMax
  BY <1>0, NoteFacts, Numbers DEF NoteTypes, OneMore
<1> QED
  BY <1>1, <1>2 DEF NoteTypes

\* BackoffInv is kept: core_reassoc_tmr() takes off the countdown what the tick
\* adds to the time.
LEMMA BackoffKept ==
  ASSUME IInv, Next
  PROVE  BackoffInv'
<1>0. AssocTypes /\ AssocInv /\ NoteTypes /\ BackoffInv
  BY DEF IInv
<1>1. /\ assoccd \in Nat /\ assoccd' \in Nat /\ CdMax \in Nat
      /\ waited \in Nat /\ waited' \in Nat /\ waited <= CdMax /\ waited' <= CdMax
  BY <1>0, AssocTypesKept, NoteTypesKept, Numbers DEF AssocTypes, NoteTypes
<1>2. /\ Backoff(assocretries) \in Nat /\ Backoff(assocretries) <= CdMax
      /\ Backoff(assocretries)' \in Nat /\ Backoff(assocretries') \in Nat
  BY <1>0, AssocTypesKept, Numbers DEF AssocTypes, Backoff
<1>3. CASE UNCHANGED assocvars
  <2>1. /\ udpassoc' = udpassoc /\ assoccd' = assoccd
        /\ Backoff(assocretries') = Backoff(assocretries)
    BY <1>3 DEF assocvars
  <2>2. waited' >= waited
    BY <1>1, <2>1, NoteFacts DEF OneMore
  <2> QED
    BY <1>0, <1>1, <1>2, <2>1, <2>2 DEF BackoffInv
<1>4. CASE Attempted
  <2>1. \/ udpassoc' # "NULL"
        \/ assoccd' = Backoff(assocretries')
    BY <1>4 DEF Attempted
  <2> QED
    BY <1>1, <1>2, <2>1 DEF BackoffInv
<1>5. CASE CountedDown
  <2>1. /\ udpassoc' = udpassoc /\ assoccd > 0 /\ assoccd' = assoccd - 1
        /\ Backoff(assocretries') = Backoff(assocretries)
    BY <1>5 DEF CountedDown
  <2>2. udpassoc = "NULL" /\ waited + assoccd >= Backoff(assocretries)
    BY <1>0, <2>1 DEF AssocInv, BackoffInv
  <2>3. core_timer
    <3>1. ASSUME NEW f \in Flows, FlowHandler(f)
          PROVE  FALSE
      <4>1. UNCHANGED assocvars \/ Attempted
        BY <1>0, <3>1, HandlerFacts, StartFacts DEF BornPending
      <4> QED
        BY <1>1, <2>1, <4>1 DEF assocvars, Attempted
    <3>2. ~assoc_handshaked /\ ~udp_assoc_lost /\ ~udp_assoc_ready
      BY <2>2 DEF assoc_handshaked, udp_assoc_lost, udp_assoc_ready
    <3> QED
      BY <3>1, <3>2 DEF Next, FlowHandler
  <2>4. waited' = OneMore(waited)
    <3>1. ~(assoccd' > assoccd)
      BY <1>1, <2>1
    <3>2. NoteAttempt(OneMore(waited))
      BY <2>3 DEF core_timer, OneMore
    <3> QED
      BY <3>1, <3>2 DEF NoteAttempt
  <2> QED
    BY <1>1, <1>2, <2>1, <2>2, <2>4 DEF BackoffInv, OneMore
<1>6. CASE assoc_handshaked \/ udp_assoc_ready
  <2>1. udpassoc' = "FORWARDING"
    BY <1>6 DEF assoc_handshaked, udp_assoc_ready
  <2> QED
    BY <2>1 DEF BackoffInv
<1>7. CASE udp_assoc_lost
  <2>1. assoccd' = Backoff(assocretries')
    BY <1>7 DEF udp_assoc_lost
  <2> QED
    BY <1>1, <1>2, <2>1 DEF BackoffInv
<1> QED
  BY <1>3, <1>4, <1>5, <1>6, <1>7, AssocCases

\* TriedInv is kept: a new forward starts with more ticks than the longest
\* backoff, and from then on core_gc_tmr() and core_reassoc_tmr() take one each.
LEMMA TriedKept ==
  ASSUME IInv, Next
  PROVE  TriedInv'
<1>0. FlowTypes /\ FlowInv /\ AssocTypes /\ AssocInv /\ NoteTypes /\ TriedInv
  BY DEF IInv
<1>1. SUFFICES ASSUME NEW h \in Flows \ Port53, proxy'[h] = "NULL", ~tried'[h]
               PROVE  udpassoc' = "NULL" /\ gc'[h] > assoccd'
  BY DEF TriedInv
<1>2. ~tried[h] /\ ~Attempt /\ udpassoc = "NULL"
  <2>1. TriedNext
    BY NoteFacts
  <2>2. tried'[h] = (proxy'[h] = "NULL" /\ (tried[h] \/ Attempt \/ udpassoc # "NULL"))
    BY <2>1 DEF TriedNext
  <2> QED
    BY <1>1, <2>2
<1>3. assoccd \in Nat /\ assoccd' \in Nat /\ assoccd' <= CdMax /\ CdMax \in Nat
  BY <1>0, AssocTypesKept, Numbers DEF AssocTypes
<1>4. udpassoc' = "NULL" /\ assoccd' <= assoccd
  BY <1>2, <1>3 DEF Attempt
<1>5. gc \in [Flows -> Nat] /\ gc[h] \in Nat /\ proxy \in [Flows -> {"none", "NULL"} \cup Proxies]
  BY <1>0 DEF FlowTypes
<1>6. proxy[h] = "NULL" => gc[h] > assoccd
  BY <1>0, <1>2 DEF TriedInv
<1>7. ASSUME NEW f \in Flows, FlowHandler(f)
      PROVE  gc'[h] > assoccd'
  <2>1. CASE BornPending(f)
    <3>1. /\ proxy' = [proxy EXCEPT ![f] = "NULL"]
          /\ gc' = [gc EXCEPT ![f] = Idle(f)]
      BY <2>1 DEF BornPending
    <3>2. CASE h = f
      <4>1. gc'[h] = UdpIdle
        BY <1>5, <3>1, <3>2 DEF Idle
      <4> QED
        BY <1>3, <4>1, Numbers, UdpAssumption
    <3>3. CASE h # f
      <4>1. gc'[h] = gc[h] /\ proxy'[h] = proxy[h]
        BY <1>5, <3>1, <3>3
      <4> QED
        BY <1>1, <1>3, <1>4, <1>5, <1>6, <4>1
    <3> QED
      BY <3>2, <3>3
  <2>2. CASE proxy[h] = "NULL" /\ gc'[h] = gc[h]
    BY <1>3, <1>4, <1>5, <1>6, <2>2
  <2> QED
    BY <1>1, <1>7, <2>1, <2>2, HandlerFacts
<1>8. ASSUME core_timer
      PROVE  gc'[h] > assoccd'
  <2>1. proxy[h] = "NULL" /\ gc[h] > 0 /\ gc'[h] = gc[h] - 1
    BY <1>1, <1>8, TickFacts DEF core_timer
  <2>2. ProxyType = "SOCKS5" /\ ~assocready
    BY <1>0, <1>2, <2>1 DEF AssocInv, Pending
  <2>3. CountedDown
    BY <1>0, <1>1, <1>2, <1>8, <2>2, ReassocFacts DEF core_timer
  <2>4. assoccd' = assoccd - 1
    BY <2>3 DEF CountedDown
  <2> QED
    BY <1>3, <1>5, <1>6, <2>1, <2>4
<1>9. ~assoc_handshaked /\ ~udp_assoc_lost /\ ~udp_assoc_ready
  BY <1>2 DEF assoc_handshaked, udp_assoc_lost, udp_assoc_ready
<1> QED
  BY <1>4, <1>7, <1>8, <1>9 DEF Next, FlowHandler

\* The list of direct addresses grows by what dns_response_add_direct_cidrs()
\* learns, and holds everything the application was told for a ruled name.
LEMMA RuleKept ==
  ASSUME IInv, Next
  PROVE  RuleInv'
<1>0. RuleInv
  BY DEF IInv
<1>1. ASSUME NEW f \in Flows, udp_proxy_input(f)
      PROVE  RuleInv'
  <2>1. PICK t \in Targets, matched \in BOOLEAN :
          /\ cidrs' = Learned(f, t, matched)
          /\ known' = IF f \in Port53 /\ matched THEN known \cup {t} ELSE known
    BY <1>1 DEF udp_proxy_input
  <2> QED
    BY <1>0, <2>1 DEF RuleInv, Learned
<1>2. ASSUME UNCHANGED <<cidrs, known>>
      PROVE  RuleInv'
  BY <1>0, <1>2 DEF RuleInv
<1>3. ASSUME NEW f \in Flows, OldFlow(f) \/ core_udp_new(f) \/ udp_proxy_error(f)
      PROVE  UNCHANGED <<cidrs, known>>
  BY <1>3 DEF OldFlow, core_udp_new, udp_proxy_error
<1>4. ASSUME assoc_handshaked \/ udp_assoc_lost \/ udp_assoc_ready \/ core_timer
      PROVE  UNCHANGED <<cidrs, known>>
  BY <1>4 DEF assoc_handshaked, udp_assoc_lost, udp_assoc_ready, core_timer
<1> QED
  BY <1>1, <1>2, <1>3, <1>4 DEF Next

-----------------------------------------------------------------------------
(* Theorems *)

\* core_init() starts without forwards and without an association.
LEMMA InitIInv == Init => IInv
<1>1. SUFFICES ASSUME Init PROVE IInv
  OBVIOUS
<1>0. <<>> \in Seq(Nat) /\ \A f \in Flows : Idle(f) \in Nat
  BY Numbers
<1>2. FlowTypes
  BY <1>1, <1>0 DEF Init, FlowTypes
<1>3. FlowInv
  <2>1. ASSUME NEW f \in Flows
        PROVE  GoodFlow(f, proxy[f], rcvq[f], gc[f], last[f], sent[f])
    <3>1. /\ proxy[f] = "none" /\ rcvq[f] = <<>> /\ gc[f] = 0 /\ last[f] = 0 /\ sent[f] = 0
      BY <1>1 DEF Init
    <3>2. GoodFlow(f, "none", <<>>, 0, 0, 0)
      BY <1>0, EmptyFlow
    <3> QED
      BY <3>1, <3>2
  <2> QED
    BY <2>1 DEF FlowInv
<1>4. AssocTypes
  <2>1. assoccd \in 0..CdMax /\ assocretries \in 0..CdExpMax
    BY <1>1, Numbers, UdpAssumption DEF Init
  <2>2. assocready \in BOOLEAN
    BY <1>1 DEF Init
  <2> QED
    BY <1>1, <2>1, <2>2 DEF Init, AssocTypes
<1>5. Pending = {}
  BY <1>1 DEF Init, Pending
<1>6. AssocInv
  <2>1. ~(assocready /\ ProxyType = "SOCKS5")
    BY <1>1 DEF Init
  <2> QED
    BY <1>1, <1>5, <2>1 DEF Init, AssocInv
<1>7. NoteTypes
  <2>1. waited \in 0..CdMax
    BY <1>1, Numbers DEF Init
  <2>2. tried \in [Flows -> BOOLEAN]
    BY <1>1 DEF Init
  <2> QED
    BY <2>1, <2>2 DEF NoteTypes
<1>8. TriedInv
  BY <1>1 DEF Init, TriedInv
<1>9. BackoffInv
  <2>1. 0 \in 0..CdExpMax
    BY UdpAssumption
  <2>2. Backoff(0) \in 1..CdMax /\ CdMax \in Nat
    BY <2>1, Numbers
  <2> QED
    BY <1>1, <2>2 DEF Init, BackoffInv
<1>10. RuleInv
  BY <1>1, UdpAssumption DEF Init, RuleInv
<1> QED
  BY <1>2, <1>3, <1>4, <1>6, <1>7, <1>8, <1>9, <1>10 DEF IInv

\* Every handler of core.c keeps the inductive invariant.
LEMMA NextIInv == IInv /\ [Next]_vars => IInv'
<1>1. ASSUME IInv, Next PROVE IInv'
  BY <1>1, FlowsKept, AssocTypesKept, AssocKept, NoteTypesKept, TriedKept,
     BackoffKept, RuleKept DEF IInv
<1>2. ASSUME IInv, UNCHANGED vars PROVE IInv'
  BY <1>2 DEF IInv, FlowTypes, FlowInv, AssocTypes, AssocInv, NoteTypes, TriedInv,
     BackoffInv, RuleInv, Pending, vars, fwdvars, assocvars
<1> QED
  BY <1>1, <1>2

\* The inductive invariant holds in every reachable state of the UDP side.
THEOREM Invariance == Spec => []IInv
BY InitIInv, NextIInv, PTL DEF Spec

\* The queue of a forward stays within arraysizeof(fwd->rcvq), and the counters
\* of struct corectx within their ranges.
THEOREM TypeCorrect == Spec => []TypeOK
<1>1. IInv => TypeOK
  <2>1. SUFFICES ASSUME IInv PROVE TypeOK
    OBVIOUS
  <2>2. \A f \in Flows : Len(rcvq[f]) <= QMax /\ gc[f] <= Idle(f)
    BY <2>1 DEF IInv, FlowInv, GoodFlow
  <2>3. known \subseteq Targets /\ cidrs \subseteq Targets
    BY <2>1 DEF IInv, RuleInv
  <2> QED
    BY <2>1, <2>2, <2>3 DEF IInv, FlowTypes, AssocTypes, NoteTypes, TypeOK
<1> QED
  BY <1>1, Invariance, PTL

\* socks_udp_create() never gets a missing association: assocready and udpassoc
\* agree in every order of losses, attempts and new flows.
THEOREM AssocAlwaysUsable == Spec => []AssocUsable
<1>1. IInv => AssocUsable
  BY DEF IInv, AssocInv, AssocUsable
<1> QED
  BY <1>1, Invariance, PTL

\* udp_lwip_received() drops the oldest datagram: the queue holds the newest.
THEOREM QueueKeepsNewest == Spec => []NewestKept
<1>1. IInv => NewestKept
  BY DEF IInv, FlowInv, GoodFlow, Newest, NewestKept, Pending
<1> QED
  BY <1>1, Invariance, PTL

\* udp_proxy_output() leaves nothing behind in a queue it stops polling for.
THEOREM QueueIsEmptied == Spec => []NothingStranded
<1>1. IInv => NothingStranded
  BY DEF IInv, FlowInv, GoodFlow, NothingStranded
<1> QED
  BY <1>1, Invariance, PTL

\* The rcvq of every forward is exact: the newest datagrams of a pending one
\* (udp_lwip_received()), nothing for the others (udp_proxy_output()).
THEOREM QueueIsExact == Spec => []QueueExact
BY QueueKeepsNewest, QueueIsEmptied, PTL DEF QueueExact

\* udp_proxy_output() hands datagrams over in order and at most once.
THEOREM OrderKept == Spec => []SentInOrder
<1>1. IInv => SentInOrder
  <2>1. SUFFICES ASSUME IInv, NEW f \in Flows
                 PROVE  \A i \in 1..Len(rcvq[f]) :
                          /\ last[f] < rcvq[f][i]
                          /\ \A j \in 1..Len(rcvq[f]) : i < j => rcvq[f][i] < rcvq[f][j]
    BY DEF SentInOrder
  <2>2. /\ last[f] \in Nat /\ sent[f] \in Nat /\ Len(rcvq[f]) \in Nat
        /\ last[f] + Len(rcvq[f]) <= sent[f]
        /\ \A i \in 1..Len(rcvq[f]) : rcvq[f][i] = sent[f] - Len(rcvq[f]) + i
    BY <2>1 DEF IInv, FlowInv, GoodFlow, Newest
  <2> QED
    BY <2>2
<1> QED
  BY <1>1, Invariance, PTL

\* core_gc_tmr() collects no pending forward, off port 53, before an attempt of
\* core_start_udp_assoc().
THEOREM NoneExpiresUntried == Spec => []TriedBeforeExpiry
<1>1. IInv => TriedBeforeExpiry
  <2>1. SUFFICES ASSUME IInv, NEW f \in Pending \ Port53, gc[f] = 0, ~tried[f]
                 PROVE  FALSE
    BY DEF TriedBeforeExpiry
  <2>2. gc[f] > assoccd /\ assoccd \in Nat
    BY <2>1, Numbers DEF IInv, TriedInv, AssocTypes, Pending
  <2> QED
    BY <2>1, <2>2
<1> QED
  BY <1>1, Invariance, PTL

\* rcvq is exact, in order, and given up only after an attempt to associate,
\* for every number of flows and every length of the queue.
THEOREM QueuesKept == Spec => []QueueKept
BY QueueIsExact, OrderKept, NoneExpiresUntried, PTL DEF QueueKept

\* core_start_udp_assoc() makes no attempt before the backoff is over, called
\* from the timer or for a new flow.
THEOREM BackoffHolds == Spec => BackoffRespected
<1>1. ASSUME IInv, [Next]_vars, Attempt
      PROVE  waited >= Backoff(assocretries)
  <2>0. AssocTypes /\ AssocInv /\ BackoffInv /\ NoteTypes
    BY <1>1 DEF IInv
  <2>1. udpassoc = "NULL" /\ (udpassoc' # "NULL" \/ assoccd' > assoccd)
    BY <1>1 DEF Attempt
  <2>2. assoccd \in Nat /\ waited \in Nat
    BY <2>0, Numbers DEF AssocTypes, NoteTypes
  <2>3. Next
    BY <1>1, <2>1, <2>2 DEF vars, assocvars
  <2>4. Attempted
    <3>1. ~UNCHANGED assocvars /\ ~CountedDown
      BY <2>1, <2>2 DEF assocvars, CountedDown
    <3>2. ~assoc_handshaked /\ ~udp_assoc_lost /\ ~udp_assoc_ready
      BY <2>1 DEF assoc_handshaked, udp_assoc_lost, udp_assoc_ready
    <3> QED
      BY <1>1, <2>3, <3>1, <3>2, AssocCases
  <2>5. assoccd = 0
    BY <2>4 DEF Attempted
  <2> QED
    BY <2>0, <2>1, <2>2, <2>5 DEF BackoffInv
<1>2. IInv /\ [Next]_vars => [Attempt => waited >= Backoff(assocretries)]_vars
  BY <1>1
<1> QED
  BY <1>2, Invariance, PTL DEF Spec, BackoffRespected

\* What RuleHonoured says of one step and one flow.
RuleStep(f) ==
  /\ proxy'[f] \in Proxies /\ proxy'[f] # proxy[f]
  /\ Dest[f] \in known /\ ProxyType # "DIRECT"
  => ((proxy'[f] = "direct") = (Mode = "WHITELIST"))

\* A forward keeps its proxy in every handler but core_udp_new() and
\* udp_assoc_io_event().
LEMMA NewProxy ==
  ASSUME IInv, Next, NEW f \in Flows, proxy'[f] \in Proxies, proxy'[f] # proxy[f]
  PROVE  \/ proxy'[f] = Route(f)
         \/ proxy'[f] = PendingRoute(f)
<1>0. FlowTypes /\ proxy \in [Flows -> {"none", "NULL"} \cup Proxies]
  BY DEF IInv, FlowTypes
<1>a. "none" \notin Proxies /\ "NULL" \notin Proxies
  BY DEF Proxies
<1>1. ASSUME NEW h \in Flows, NEW p, NEW q, NEW g, SetForward(h, p, q, g)
      PROVE  h = f /\ proxy'[f] = p
  BY <1>0, <1>1 DEF SetForward
<1>2. ASSUME NEW h \in Flows, NEW p, NEW q, NEW g, udp_lwip_received(h, p, q, g)
      PROVE  h = f /\ proxy'[f] = p
  BY SMTT(60), <1>1, <1>2, <1>a
  DEF udp_lwip_received, udp_proxy_output, udp_forward_destroy
<1>3. ASSUME NEW h \in Flows, core_udp_new(h)
      PROVE  proxy'[f] = Route(f)
  BY <1>1, <1>2, <1>3, <1>a DEF core_udp_new, udp_forward_destroy
<1>4. ASSUME NEW h \in Flows, OldFlow(h) \/ udp_proxy_input(h) \/ udp_proxy_error(h)
      PROVE  FALSE
  BY <1>1, <1>2, <1>4, <1>a DEF OldFlow, udp_proxy_input, udp_proxy_error, udp_forward_destroy
<1>5. ASSUME udp_assoc_ready
      PROVE  proxy'[f] = PendingRoute(f)
  <2>1. PICK kept \in SUBSET Pending :
          proxy' = [h \in Flows |-> CASE h \in kept -> PendingRoute(h)
                                       [] h \in Pending \ kept -> "none"
                                       [] OTHER -> proxy[h]]
    BY <1>5 DEF udp_assoc_ready
  <2>2. \/ proxy'[f] = PendingRoute(f) \/ proxy'[f] = "none" \/ proxy'[f] = proxy[f]
    BY <2>1
  <2> QED
    BY <1>a, <2>2
<1>6. ASSUME udp_assoc_lost
      PROVE  FALSE
  BY <1>6, <1>a DEF udp_assoc_lost
<1>7. ASSUME core_timer
      PROVE  FALSE
  BY <1>7, <1>a DEF core_timer, core_gc_tmr
<1>8. ASSUME assoc_handshaked
      PROVE  FALSE
  BY <1>8 DEF assoc_handshaked
<1> QED
  BY <1>3, <1>4, <1>5, <1>6, <1>7, <1>8 DEF Next

\* An address learned by dns_response_add_direct_cidrs() decides the route of
\* every forward that gets its proxy later, also of one that was pending.
THEOREM RulesHold == Spec => RuleHonoured
<1>1. ASSUME IInv, Next, NEW f \in Flows
      PROVE  RuleStep(f)
  <2>1. SUFFICES ASSUME proxy'[f] \in Proxies, proxy'[f] # proxy[f],
                        Dest[f] \in known, ProxyType # "DIRECT"
                 PROVE  (proxy'[f] = "direct") = (Mode = "WHITELIST")
    BY DEF RuleStep
  <2>2. Dest[f] \in cidrs /\ Dest[f] # Gateway
    BY <1>1, <2>1, UdpAssumption DEF IInv, RuleInv
  <2>3. is_direct_cidr_target(Dest[f]) = (Mode = "WHITELIST")
    BY <2>2 DEF is_direct_cidr_target
  <2>4. ASSUME proxy'[f] = Route(f)
        PROVE  (proxy'[f] = "direct") = (Mode = "WHITELIST")
    <3>1. CASE Mode = "WHITELIST"
      BY <2>2, <2>3, <2>4, <3>1 DEF Route
    <3>2. CASE Mode # "WHITELIST"
      BY <2>1, <2>2, <2>3, <2>4, <3>2 DEF Route
    <3> QED
      BY <3>1, <3>2
  <2>5. ASSUME proxy'[f] = PendingRoute(f)
        PROVE  (proxy'[f] = "direct") = (Mode = "WHITELIST")
    BY <2>3, <2>5 DEF PendingRoute
  <2> QED
    BY <1>1, <2>1, <2>4, <2>5, NewProxy
<1>2. IInv /\ [Next]_vars => [\A f \in Flows : RuleStep(f)]_vars
  BY <1>1
<1>3. [\A f \in Flows : RuleStep(f)]_vars
      => [\A f \in Flows :
            /\ proxy'[f] \in Proxies /\ proxy'[f] # proxy[f]
            /\ Dest[f] \in known /\ ProxyType # "DIRECT"
            => ((proxy'[f] = "direct") = (Mode = "WHITELIST"))]_vars
  BY DEF RuleStep
<1> QED
  BY <1>2, <1>3, Invariance, PTL DEF Spec, RuleHonoured
=============================================================================
