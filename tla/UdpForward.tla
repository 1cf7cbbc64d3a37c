----------------------------- MODULE UdpForward -----------------------------
(***************************************************************************)
(* The UDP side of core.c: one struct udp_forward per UDP flow of the      *)
(* application, and the one UDP association (socks5 UDP ASSOCIATE) that    *)
(* the flows routed over a SOCKS5 proxy share.  A flow whose association   *)
(* is not there yet is `pending': its proxy is NULL and its datagrams wait *)
(* in rcvq.  Answers to DNS queries extend the list of direct addresses    *)
(* while the flows run.                                                    *)
(*                                                                         *)
(* The process is one thread and the event loop takes one event at a time, *)
(* so every handler is one step.  Datagrams of a flow are numbered in the  *)
(* order the application sends them.                                       *)
(***************************************************************************)
EXTENDS Integers, Sequences

CONSTANTS
  Flows,       \* the UDP flows: a source and a destination each
  Dest,        \* destination address of a flow
  Gateway,     \* NSPROXY_GATEWAY_IP: the host, seen from the namespace
  Targets,     \* the other addresses
  Port53,      \* flows to port 53
  ProxyType,   \* conf->proxytype
  DnsType,     \* conf->dnstype
  Mode,        \* conf->direct_cidr_mode
  Cidrs,       \* addresses the options -L and -F list
  QMax,        \* arraysizeof(fwd->rcvq): 8
  CdExpMax,    \* largest exponent of the association backoff: 5
  UdpIdle,     \* NSPROXY_UDP_IDLE_TIMEOUT: 302 ticks of core_gc_tmr()
  DnsIdle,     \* NSPROXY_DNS_IDLE_TIMEOUT: 16
  MaxSent      \* bound: datagrams the application sends on one flow

ASSUME UdpAssumption ==
  /\ Gateway \notin Targets
  /\ Dest \in [Flows -> Targets \cup {Gateway}]
  /\ Port53 \subseteq Flows
  /\ ProxyType \in {"SOCKS5", "HTTP", "DIRECT"}
  /\ DnsType \in {"OFF", "TCP", "UDP"}
  /\ Mode \in {"WHITELIST", "BLACKLIST"}
  /\ Cidrs \subseteq Targets
  /\ QMax \in Nat \ {0}
  /\ CdExpMax \in Nat
  /\ UdpIdle \in Nat /\ DnsIdle \in Nat
  /\ MaxSent \in Nat

\* Arithmetic of powers of two, for the provers, which have none.
ASSUME PowerAssumption ==
  \A n \in 0..CdExpMax : 2^n \in Nat \ {0} /\ 2^n <= 2^CdExpMax

\* What makes TriedBeforeExpiry true: the idle timeout of a flow is longer
\* than the longest backoff (302 and 32 in the code).
ASSUME IdleAssumption ==
  \A n \in 0..CdExpMax : 2^n < UdpIdle

VARIABLES
  \* struct udp_forward, for each flow
  proxy,        \* none: no forward; NULL: pending; or the proxy it has
  rcvq, gc,
  tried,        \* an attempt to associate ran while the forward was pending
  \* struct corectx
  udpassoc,     \* core->udpassoc: NULL, or the phase of its handshake
  assocready, assocretries, assoccd,
  cidrs,        \* conf->direct_cidrs
  \* the application and the network
  sent,         \* sent[f]: datagrams the application has sent
  last,         \* last[f]: number of the last one handed to the network
  known,        \* addresses of ruled names the application has been told
  waited        \* ticks since an attempt to associate failed

fwdvars   == <<proxy, rcvq, gc, tried>>
assocvars == <<udpassoc, assocready, assocretries, assoccd>>
vars == <<fwdvars, assocvars, cidrs, sent, last, known, waited>>

Pending == {f \in Flows : proxy[f] = "NULL"}

Proxies == {"socks", "direct", "tcpdns"}

Idle(f) == IF f \in Port53 THEN DnsIdle ELSE UdpIdle

\* 1 << cdexp, where cdexp is the number of attempts capped at CdExpMax.
Backoff(retries) == 2^retries

CdMax == 2^CdExpMax

\* The variables keep their types: rcvq holds at most its size, and the idle
\* counts, the backoff and the countdown stay in their ranges.
TypeOK ==
  /\ proxy \in [Flows -> {"none", "NULL"} \cup Proxies]
  /\ rcvq \in [Flows -> Seq(Nat)] /\ \A f \in Flows : Len(rcvq[f]) <= QMax
  /\ gc \in [Flows -> Nat] /\ \A f \in Flows : gc[f] <= Idle(f)
  /\ tried \in [Flows -> BOOLEAN]
  /\ udpassoc \in {"NULL", "HANDSHAKE", "FORWARDING"}
  /\ assocready \in BOOLEAN
  /\ assocretries \in 0..CdExpMax
  /\ assoccd \in 0..CdMax
  /\ cidrs \subseteq Targets /\ known \subseteq Targets
  /\ sent \in [Flows -> Nat] /\ last \in [Flows -> Nat]
  /\ waited \in 0..CdMax

Init ==
  /\ proxy = [f \in Flows |-> "none"] /\ rcvq = [f \in Flows |-> <<>>]
  /\ gc = [f \in Flows |-> 0] /\ tried = [f \in Flows |-> FALSE]
  /\ udpassoc = "NULL" /\ assocready = (ProxyType = "DIRECT")
  /\ assocretries = 0 /\ assoccd = 0
  /\ cidrs = Cidrs
  /\ sent = [f \in Flows |-> 0] /\ last = [f \in Flows |-> 0]
  /\ known = {} /\ waited = CdMax

-----------------------------------------------------------------------------
(* Routes *)

\* The list is a white list or a black list of direct addresses.
is_direct_cidr_target(t) == (t \in cidrs) = (Mode = "WHITELIST")

\* The proxy core_udp_new() asks for: NULL leaves the forward pending, none
\* is a flow it refuses (an HTTP proxy carries no UDP).
Route(f) ==
  CASE Dest[f] = Gateway ->
         IF f \in Port53 /\ DnsType = "TCP" THEN "tcpdns" ELSE "direct"
    [] Dest[f] # Gateway /\ is_direct_cidr_target(Dest[f]) -> "direct"
    [] OTHER ->
         CASE ProxyType = "DIRECT" -> "direct"
           [] ProxyType = "HTTP" -> "none"
           [] OTHER -> IF assocready THEN "socks" ELSE "NULL"

\* Mutant of PendingRoute: the route the forward was left pending for.
PendingRouteStale(f) == "socks"

\* The route of a pending forward once the association is there.
PendingRoute(f) ==
  IF is_direct_cidr_target(Dest[f]) THEN "direct" ELSE "socks"

-----------------------------------------------------------------------------
(* The queue of a forward *)

\* A full queue drops its oldest datagram.
Enqueued(q, n) == IF Len(q) = QMax THEN Append(Tail(q), n) ELSE Append(q, n)

InQueue(q) == {q[i] : i \in 1..Len(q)}

SetForward(f, p, q, g) ==
  /\ proxy' = [proxy EXCEPT ![f] = p]
  /\ rcvq' = [rcvq EXCEPT ![f] = q]
  /\ gc' = [gc EXCEPT ![f] = g]

udp_forward_destroy(f) == SetForward(f, "none", <<>>, 0)

\* Mutant of AfterOutput: nrcvq is not reset.
AfterOutputKept(q) == q

\* The queue once udp_proxy_output() has sent it.
AfterOutput(q) == <<>>

\* udp_proxy_output(): each datagram of `q' is sent or, on EAGAIN, dropped; an
\* error ends the forward.  The last one sent may be any of them, or none.
udp_proxy_output(f, p, q) ==
  /\ \/ SetForward(f, p, AfterOutput(q), Idle(f))
     \/ udp_forward_destroy(f)
  /\ \E n \in InQueue(q) \cup {last[f]} : last' = [last EXCEPT ![f] = n]

\* udp_lwip_received() for a forward with proxy p, queue q and idle count g:
\* the datagram is queued and, when there is a proxy, sent at once.
udp_lwip_received(f, p, q, g) ==
  LET q2 == Enqueued(q, sent[f] + 1) IN
  \/ p = "NULL" /\ SetForward(f, p, q2, g) /\ UNCHANGED last
  \/ p # "NULL" /\ udp_proxy_output(f, p, q2)

-----------------------------------------------------------------------------
(* Association *)

\* Only min(core->assocretries, CdExpMax) is ever used.
Incremented(retries) == IF retries < CdExpMax THEN retries + 1 ELSE retries

\* Mutant of MayStart: a new flow does not wait for the end of the backoff.
MayStartNow ==
  udpassoc = "NULL" /\ ~assocready /\ ProxyType = "SOCKS5"

\* The early returns of core_start_udp_assoc().
MayStart ==
  udpassoc = "NULL" /\ ~assocready /\ ProxyType = "SOCKS5" /\ assoccd = 0

\* The rest of it, when socks_assoc_create() gets a connecting socket (ok) and
\* when it does not.
StartUdpAssoc(ok) ==
  /\ assocretries' = Incremented(assocretries)
  /\ udpassoc' = IF ok THEN "HANDSHAKE" ELSE "NULL"
  /\ assoccd' = IF ok THEN assoccd ELSE Backoff(assocretries')
  /\ UNCHANGED assocready

core_start_udp_assoc ==
  \/ MayStart /\ \E ok \in BOOLEAN : StartUdpAssoc(ok)
  \/ ~MayStart /\ UNCHANGED assocvars

\* An attempt to associate is made in this step.
Attempt == udpassoc = "NULL" /\ (udpassoc' # "NULL" \/ assoccd' > assoccd)

\* History: the forwards that have seen an attempt, and the time since the
\* last failure, w being the time so far.
NoteAttempt(w) ==
  /\ tried' = [f \in Flows |->
                 proxy'[f] = "NULL" /\ (tried[f] \/ Attempt \/ udpassoc # "NULL")]
  /\ waited' = IF assoccd' > assoccd THEN 0 ELSE w

-----------------------------------------------------------------------------
(* Handlers *)

\* udp_input() of lwIP, for a flow that has a control block.
OldFlow(f) ==
  /\ sent[f] < MaxSent
  /\ proxy[f] # "none"
  /\ udp_lwip_received(f, proxy[f], rcvq[f], gc[f])
  /\ sent' = [sent EXCEPT ![f] = @ + 1]
  /\ UNCHANGED <<assocvars, cidrs, known>>
  /\ NoteAttempt(waited)

\* udp_input() for a flow without one: core_udp_new() picks the proxy.
\* A refused flow, and one whose socket cannot be made, is answered with a
\* port unreachable message; otherwise the datagram goes on to the forward.
core_udp_new(f) ==
  /\ sent[f] < MaxSent
  /\ proxy[f] = "none"
  /\ \/ /\ Route(f) # "NULL"
        /\ udp_forward_destroy(f) /\ UNCHANGED last
        /\ UNCHANGED assocvars
     \/ /\ Route(f) \in Proxies
        /\ udp_lwip_received(f, Route(f), <<>>, Idle(f))
        /\ UNCHANGED assocvars
     \/ /\ Route(f) = "NULL"
        /\ udp_lwip_received(f, "NULL", <<>>, Idle(f))
        /\ core_start_udp_assoc
  /\ sent' = [sent EXCEPT ![f] = @ + 1]
  /\ UNCHANGED <<cidrs, known>>
  /\ NoteAttempt(waited)

\* dns_response_add_direct_cidrs(): the address t of the answer joins the list
\* when the flow is a DNS flow and the name asked for has a rule.
Learned(f, t, matched) ==
  IF f \in Port53 /\ matched THEN cidrs \cup {t} ELSE cidrs

\* udp_proxy_io_event() with EPOLLIN: udp_proxy_input() takes a datagram from
\* the proxy, an answer with address t on a DNS flow, and passes it on.  The
\* rest of its loop is the same event again.
udp_proxy_input(f) ==
  /\ proxy[f] \in Proxies
  /\ \E t \in Targets, matched \in BOOLEAN :
       /\ cidrs' = Learned(f, t, matched)
       /\ known' = IF f \in Port53 /\ matched THEN known \cup {t} ELSE known
  /\ SetForward(f, proxy[f], rcvq[f], Idle(f))
  /\ UNCHANGED <<assocvars, sent, last>>
  /\ NoteAttempt(waited)

\* An error of proxy_recv() or udp_send(), or EPOLLERR.
udp_proxy_error(f) ==
  /\ proxy[f] \in Proxies
  /\ udp_forward_destroy(f)
  /\ UNCHANGED <<assocvars, cidrs, sent, last, known>>
  /\ NoteAttempt(waited)

\* socks_handshake_input() ends the handshake of the association.
assoc_handshaked ==
  /\ udpassoc = "HANDSHAKE"
  /\ udpassoc' = "FORWARDING"
  /\ UNCHANGED <<assocready, assocretries, assoccd>>
  /\ UNCHANGED <<proxy, rcvq, gc, cidrs, sent, last, known>>
  /\ NoteAttempt(waited)

\* Mutant of ReadyAfterLoss: the flag is not reset.
ReadyAfterLossKept == assocready

ReadyAfterLoss == FALSE

\* udp_assoc_io_event(), first part: the handshake fails or the proxy closes
\* the connection of the association.
udp_assoc_lost ==
  /\ udpassoc # "NULL"
  /\ udpassoc' = "NULL" /\ assocready' = ReadyAfterLoss
  /\ assoccd' = Backoff(assocretries) /\ UNCHANGED assocretries
  /\ proxy' = [f \in Flows |-> IF f \in Pending THEN "none" ELSE proxy[f]]
  /\ rcvq' = [f \in Flows |-> IF f \in Pending THEN <<>> ELSE rcvq[f]]
  /\ gc' = [f \in Flows |-> IF f \in Pending THEN 0 ELSE gc[f]]
  /\ UNCHANGED <<cidrs, sent, last, known>>
  /\ NoteAttempt(waited)

\* udp_assoc_io_event(), second part: EPOLLOUT, the first event after the
\* handshake.  Every pending forward gets its proxy (made: the ones whose
\* socket could be made) and sends its queue (kept: without an error).
udp_assoc_ready ==
  /\ udpassoc = "FORWARDING" /\ ~assocready
  /\ assocready' = TRUE /\ assocretries' = 0
  /\ UNCHANGED <<udpassoc, assoccd>>
  /\ \E made \in SUBSET Pending : \E kept \in SUBSET made :
       /\ proxy' = [f \in Flows |-> CASE f \in kept -> PendingRoute(f)
                                      [] f \in Pending \ kept -> "none"
                                      [] OTHER -> proxy[f]]
       /\ rcvq' = [f \in Flows |-> CASE f \in kept -> AfterOutput(rcvq[f])
                                     [] f \in Pending \ kept -> <<>>
                                     [] OTHER -> rcvq[f]]
       /\ gc' = [f \in Flows |-> CASE f \in kept -> Idle(f)
                                   [] f \in Pending \ kept -> 0
                                   [] OTHER -> gc[f]]
       /\ \E n \in [Flows -> 0..MaxSent] :
            /\ \A f \in Flows :
                 n[f] \in {last[f]} \cup
                          (IF f \in made THEN InQueue(rcvq[f]) ELSE {})
            /\ last' = n
  /\ UNCHANGED <<cidrs, sent, known>>
  /\ NoteAttempt(waited)

\* Mutant of Expired: forwards without a proxy are skipped.
ExpiredConnected == {f \in Flows : proxy[f] \in Proxies /\ gc[f] = 0}

\* The forwards core_gc_tmr() ends.
Expired == {f \in Flows : proxy[f] # "none" /\ gc[f] = 0}

core_gc_tmr ==
  /\ proxy' = [f \in Flows |-> IF f \in Expired THEN "none" ELSE proxy[f]]
  /\ rcvq' = [f \in Flows |-> IF f \in Expired THEN <<>> ELSE rcvq[f]]
  /\ gc' = [f \in Flows |-> IF gc[f] = 0 THEN 0 ELSE gc[f] - 1]

\* core_reassoc_tmr(), after core_gc_tmr() in the same tick: it counts down,
\* and then associates again, only while a forward is pending.
core_reassoc_tmr ==
  LET needed == /\ ProxyType = "SOCKS5" /\ udpassoc = "NULL" /\ ~assocready
                /\ \E f \in Flows : proxy'[f] = "NULL" IN
  \/ /\ needed /\ assoccd > 0 /\ assoccd' = assoccd - 1
     /\ UNCHANGED <<udpassoc, assocready, assocretries>>
  \/ /\ needed /\ assoccd = 0 /\ core_start_udp_assoc
  \/ /\ ~needed /\ UNCHANGED assocvars

\* One second of core_timerfd_epcb_events().
core_timer ==
  /\ core_gc_tmr
  /\ core_reassoc_tmr
  /\ UNCHANGED <<cidrs, sent, last, known>>
  /\ NoteAttempt(IF waited < CdMax THEN waited + 1 ELSE CdMax)

Next ==
  \/ \E f \in Flows :
       \/ OldFlow(f) \/ core_udp_new(f)
       \/ udp_proxy_input(f) \/ udp_proxy_error(f)
  \/ assoc_handshaked \/ udp_assoc_lost \/ udp_assoc_ready
  \/ core_timer

Spec == Init /\ [][Next]_vars

\* The kernel makes the timer descriptor readable every 250 ms, and the loop
\* serves every readable descriptor.
FairSpec == Spec /\ WF_vars(core_timer)

-----------------------------------------------------------------------------
(* Properties *)

\* core.c:799 and 883 hand core->udpassoc to socks_udp_create(), which looks
\* into it without a test for NULL.  So a SOCKS5 association marked ready is
\* there and past its handshake, whatever order events, failures and new flows
\* come in; no forward is left pending behind it; and a countdown runs only
\* while there is no association.
AssocUsable ==
  /\ assocready /\ ProxyType = "SOCKS5" =>
       udpassoc = "FORWARDING" /\ Pending = {}
  /\ assoccd > 0 => udpassoc = "NULL" /\ ~assocready

\* The rcvq of a pending forward holds the newest datagrams of the flow, in
\* the order they were sent, and as many as fit: `drop oldest data in queue
\* and enqueue this' (core.c:721).
NewestKept ==
  \A f \in Pending :
    LET q == rcvq[f] IN
    /\ q # <<>> /\ Len(q) <= QMax
    /\ \A i \in 1..Len(q) : q[i] = sent[f] - Len(q) + i

\* A forward with a proxy has nothing queued between two handlers: since
\* udp_proxy_output() clears EPOLLOUT, a datagram left there would wait for
\* the next one to push it out.
NothingStranded ==
  \A f \in Flows : proxy[f] # "NULL" => rcvq[f] = <<>>

\* Between two handlers rcvq is, for every flow, what is still to be sent.
QueueExact == NewestKept /\ NothingStranded

\* A datagram is handed to the network at most once and never after a later
\* one of its flow, over any number of forwards and associations.
SentInOrder ==
  \A f \in Flows : \A i \in 1..Len(rcvq[f]) :
    /\ last[f] < rcvq[f][i]
    /\ \A j \in 1..Len(rcvq[f]) : i < j => rcvq[f][i] < rcvq[f][j]

\* An address the application was told for a name with a rule is routed by the
\* rule: `whitelist: matching domains connect directly, blacklist: matching
\* domains use proxy' (README:96).  It holds for a flow that starts after the
\* answer, and for one that was pending when the answer came.
RuleHonoured ==
  [][\A f \in Flows :
       /\ proxy'[f] \in Proxies /\ proxy'[f] # proxy[f]
       /\ Dest[f] \in known /\ ProxyType # "DIRECT"
       => ((proxy'[f] = "direct") = (Mode = "WHITELIST"))]_vars

\* After a failed attempt to associate, none is made before the backoff of
\* that failure is over, neither by the timer nor for a new flow.
BackoffRespected ==
  [][Attempt => waited >= Backoff(assocretries)]_vars

\* A pending forward is not collected by core_gc_tmr() without an attempt to
\* associate on its behalf, except on port 53, where the idle timeout (16) is
\* shorter than the longest backoff (32).
TriedBeforeExpiry ==
  \A f \in Pending \ Port53 : gc[f] = 0 => tried[f]

\* What the flow of a forward sent is in rcvq exactly as far as it is still to
\* be sent, in order and at most once, and core_gc_tmr() discards none of it
\* for which no association was tried.
QueueKept == QueueExact /\ SentInOrder /\ TriedBeforeExpiry

\* A forward does not stay pending forever, even if the proxy accepts the
\* connection of the association and never answers: traffic of the flow does
\* not restart the idle count of a pending forward.
PendingResolved ==
  \A f \in Flows : f \in Pending ~> f \notin Pending

=============================================================================
