----------------------------- MODULE TcpForward -----------------------------
(***************************************************************************)
(* One TCP connection of an application, terminated by the lwIP stack and  *)
(* relayed over one proxy connection: struct tcp_forward of core.c with    *)
(* the control block (struct tcp_pcb) it drives and the socket behind its  *)
(* struct proxy.                                                           *)
(*                                                                         *)
(* The process is a single thread: a handler runs to its end before the    *)
(* next one starts, while the application, the proxy peer and the kernel   *)
(* go on by themselves.  A handler that runs several callbacks (tcp_input  *)
(* calls sent, recv and closed one after the other; tcp_proxy_io_event     *)
(* does EPOLLIN before EPOLLOUT) is cut at the callbacks: `stage' names    *)
(* the part still to run and nothing else of the process runs meanwhile.   *)
(*                                                                         *)
(* Data are byte counts.  Both queues are pbuf chains filled at the tail   *)
(* and freed from the head, so a count says which bytes they hold.         *)
(***************************************************************************)
EXTENDS Integers

CONSTANTS
  Mss,          \* tcp_mss(pcb): the most one proxy_recv() asks for
  SndBuf,       \* TCP_SND_BUF: bytes lwIP keeps until they are acknowledged
  Wnd,          \* TCP_WND: bytes the application may have outstanding
  SockBuf,      \* send buffer of the proxy socket, in the kernel
  IdleTimeout,  \* NSPROXY_TCP_IDLE_TIMEOUT, in ticks of core_gc_tmr()
  SentMax,      \* the most one sent callback reports: 0xffff
  SynAckLost,   \* the SYN|ACK may need a retransmission, see AckedBytes
  MaxApp,       \* bound: bytes the application sends
  MaxPeer       \* bound: bytes the proxy peer sends

ASSUME SizesAssumption ==
  /\ Mss \in Nat \ {0, 1}
  /\ SndBuf \in Nat
  /\ 2 * Mss <= SndBuf
  /\ Wnd \in Nat \ {0}
  /\ SockBuf \in Nat \ {0}
  /\ IdleTimeout \in Nat
  /\ SentMax \in Nat \ {0}
  /\ SynAckLost \in BOOLEAN
  /\ MaxApp \in Nat
  /\ MaxPeer \in Nat

VARIABLES
  option,       \* -N or none: conf->no_proxy_half_close, fixed at the start
  \* the control block
  state,        \* pcb->state; NONE before the SYN, FREED after tcp_free()
  proxyestab,   \* pcb->proxyestab: tcp_output() may send, the SYN|ACK first
  rxclosed,     \* TF_RXCLOSED in pcb->flags
  unacked,      \* TCP_SND_BUF - pcb->snd_buf: bytes written and not acked
  \* the input processing of lwIP: static variables of tcp_in.c
  stage,        \* the part of a handler that runs next, or idle
  recv_acked, recv_data, got_fin, got_closed,
  \* struct tcp_forward
  fwd,          \* none, live or freed
  sndq, rcvq, gc, proxyeof, lwipeof, proxysendeof,
  \* the proxy connection
  phase,        \* of the proxy connection, see Phases
  mask,         \* events registered with epoll
  inq, outq,    \* bytes in the receive and send buffers of the socket
  sockerr,      \* an error is pending on the socket
  wr,           \* what the peer is told of our sending side
  \* the application and the proxy peer
  appsent, appshut, appgot, appeof, appreset,
  peerup, peersent, peershut, peergot, peereof,
  wild          \* a released control block has been used

pcbvars  == <<state, proxyestab, rxclosed, unacked>>
recvvars == <<recv_acked, recv_data, got_fin, got_closed>>
fwdvars  == <<fwd, sndq, rcvq, gc, proxyeof, lwipeof, proxysendeof>>
sockvars == <<phase, mask, inq, outq, sockerr, wr>>
appvars  == <<appsent, appshut, appgot, appeof, appreset>>
peervars == <<peerup, peersent, peershut, peergot, peereof>>
vars == <<option, pcbvars, stage, recvvars, fwdvars, sockvars, appvars, peervars, wild>>

States == {"NONE", "SYN_RCVD", "ESTABLISHED", "FIN_WAIT_1", "FIN_WAIT_2",
           "CLOSING", "CLOSE_WAIT", "LAST_ACK", "TIME_WAIT", "FREED"}

\* NEW: no proxy connection.  CONNECTING: direct_tcp_create(), connect(2) in
\* progress.  HANDSHAKE: every phase of socks.c and http.c before FORWARDING.
Phases == {"NEW", "CONNECTING", "HANDSHAKE", "FORWARDING", "CLOSED"}

Stages == {"idle", "evout", "sent", "closed", "recv", "fin", "done"}

\* The states in which lwIP has queued its own FIN.
FinQueued == {"FIN_WAIT_1", "FIN_WAIT_2", "CLOSING", "LAST_ACK", "TIME_WAIT"}

Flags ==
  /\ proxyestab \in BOOLEAN /\ rxclosed \in BOOLEAN
  /\ got_fin \in BOOLEAN /\ got_closed \in BOOLEAN
  /\ proxyeof \in BOOLEAN /\ lwipeof \in BOOLEAN /\ proxysendeof \in BOOLEAN
  /\ sockerr \in BOOLEAN
  /\ appshut \in BOOLEAN /\ appeof \in BOOLEAN /\ appreset \in BOOLEAN
  /\ peerup \in BOOLEAN /\ peershut \in BOOLEAN /\ peereof \in BOOLEAN
  /\ wild \in BOOLEAN

Sizes ==
  /\ unacked \in 0..SndBuf
  /\ recv_acked \in 0..SndBuf /\ recv_data \in 0..Wnd
  /\ sndq \in Nat /\ rcvq \in 0..Wnd /\ gc \in 0..IdleTimeout
  /\ inq \in Nat /\ outq \in 0..SockBuf
  /\ appsent \in Nat /\ appgot \in Nat
  /\ peersent \in Nat /\ peergot \in Nat

Types ==
  /\ Flags /\ Sizes
  /\ state \in States /\ stage \in Stages /\ phase \in Phases
  /\ fwd \in {"none", "live", "freed"}
  /\ mask \in SUBSET {"IN", "OUT"}
  /\ wr \in {"open", "fin", "rst"}

\* The variables keep their types.  In particular tcp_write() never asks for
\* more than the send buffer (unacked) and tcp_lwip_received() never queues more
\* than the window that was announced (rcvq).
TypeOK == Types /\ option \in {"-N", "none"}

Init ==
  /\ option \in {"-N", "none"}
  /\ state = "NONE" /\ proxyestab = FALSE /\ rxclosed = FALSE /\ unacked = 0
  /\ stage = "idle"
  /\ recv_acked = 0 /\ recv_data = 0 /\ got_fin = FALSE /\ got_closed = FALSE
  /\ fwd = "none" /\ sndq = 0 /\ rcvq = 0 /\ gc = IdleTimeout
  /\ proxyeof = FALSE /\ lwipeof = FALSE /\ proxysendeof = FALSE
  /\ phase = "NEW" /\ mask = {} /\ inq = 0 /\ outq = 0
  /\ sockerr = FALSE /\ wr = "open"
  /\ appsent = 0 /\ appshut = FALSE /\ appgot = 0
  /\ appeof = FALSE /\ appreset = FALSE
  /\ peerup = FALSE /\ peersent = 0 /\ peershut = FALSE
  /\ peergot = 0 /\ peereof = FALSE
  /\ wild = FALSE

-----------------------------------------------------------------------------
(* Closing and destroying *)

\* tcp_shutdown(pcb, 0, 1) and the states tcp_close() acts on: the FIN is
\* queued behind the data; in the other states the call changes nothing.
tcp_close_shutdown_fin(st) ==
  CASE st \in {"SYN_RCVD", "ESTABLISHED"} -> "FIN_WAIT_1"
    [] st = "CLOSE_WAIT" -> "LAST_ACK"
    [] OTHER -> st

\* tcp_abort(): the control block is freed at once and a RST is sent, except
\* in TIME_WAIT, where it is only freed.
tcp_abort(st) ==
  /\ state' = "FREED" /\ unacked' = 0 /\ UNCHANGED rxclosed
  /\ appreset' = (appreset \/ st # "TIME_WAIT")

\* tcp_close(): no more data is accepted and the FIN is queued.
tcp_close(st) ==
  /\ state' = tcp_close_shutdown_fin(st) /\ rxclosed' = TRUE
  /\ UNCHANGED <<unacked, appreset>>

\* How the proxy connection ends.  proxy_shutdown(SHUT_RDWR, 1) closes the
\* socket with a RST, and proxy_put() alone closes it in order.  During a
\* handshake the former is refused with -EAGAIN, which nobody looks at, and the
\* latter closes the socket: in order, or with a RST if an answer of the proxy
\* is unread.  No connection ends if none could be created.
Closing(rst) ==
  CASE phase = "NEW" -> {"open"}
    [] phase = "HANDSHAKE" -> {"fin", "rst"}
    [] OTHER -> {IF rst THEN "rst" ELSE "fin"}

\* The end of the proxy connection: a RST drops what the kernel still holds, a
\* FIN goes behind the `out' bytes of the send buffer.
close_proxy(rst, out) ==
  /\ phase' = "CLOSED" /\ mask' = {}
  /\ wr' \in Closing(rst)
  /\ outq' = (IF wr' = "rst" THEN 0 ELSE out)

\* The part of tcp_forward_destroy() that does not concern the control block.
free_forward(rst, out) ==
  /\ fwd' = "freed" /\ sndq' = 0 /\ rcvq' = 0
  /\ close_proxy(rst, out)

\* Mutant: only the queues decide.
DestroyUnforced(force, st, sq, rq, out) ==
  LET rst == sq # 0 \/ rq # 0
  IN  /\ IF rst THEN tcp_abort(st) ELSE tcp_close(st)
      /\ free_forward(rst, out)

\* tcp_forward_destroy(fwd, force) with sq and rq bytes queued, the control
\* block in state st and out bytes in the socket: undrained queues mean RST.
tcp_forward_destroy(force, st, sq, rq, out) ==
  LET rst == force \/ sq # 0 \/ rq # 0
  IN  /\ IF rst THEN tcp_abort(st) ELSE tcp_close(st)
      /\ free_forward(rst, out)

-----------------------------------------------------------------------------
(* Between the queues and the proxy connection *)

\* The loop of tcp_proxy_input() ends: ~(tcp_sndbuf(pcb) > tcp_mss(pcb)).  Its
\* other limit, TCP_SND_QUEUELEN / 2 pbufs, is left out here and in RoomForMore:
\* only tens of thousands of very short reads meet it first, and the ACK of the
\* last of them finds no pbuf queued.
Full(u) == u >= SndBuf - Mss

\* Mutant: an event that is asked for is not registered.
EvSetLost(ev) == mask

\* proxy_evctl(proxy, ev, EVSET) and proxy_evctl(proxy, ev, EVCLR).
EvSet(ev) == mask \cup {ev}
EvClr(ev) == mask \ {ev}

\* Mutant: the EOF overtakes what is still in sndq.
SndEofEarly(eof, q) == eof

\* fwd->proxyeof && !fwd->sndq, with q bytes in sndq.
SndEof(eof, q) == eof /\ q = 0

\* fwd->lwipeof && !fwd->rcvq, with q bytes in rcvq.
RcvEof(eof, q) == eof /\ q = 0

\* How much the loop of tcp_proxy_input() may read: until the socket is empty
\* or the last read, of at most Mss bytes, fills the send buffer of lwIP.
ReadCounts ==
  IF proxyeof \/ Full(unacked)
  THEN {0}
  ELSE {n \in 0..inq :
          \/ n = inq /\ ~Full(unacked + n)
          \/ /\ Full(unacked + n)
             /\ \E k \in 1..Mss : k <= n /\ ~Full(unacked + n - k)}

\* The n bytes read did not fill lwIP: the last recv() found no data.
Drained(n) == ~proxyeof /\ ~Full(unacked + n)
ProxyEof(n) == proxyeof \/ (Drained(n) /\ peershut)

\* The handler goes on with stage next and, if that was its last part on a
\* socket event, sets proxyestab.
ReturnOk(next, estab) ==
  /\ stage' = next
  /\ proxyestab' = (proxyestab \/ estab)

\* The ways tcp_proxy_input() ends, after n bytes were read behind the q bytes
\* of sndq.  recv() returned -EAGAIN:
InputAgain(q, n, next, estab) ==
  /\ Drained(n) /\ ~peershut /\ ~sockerr
  /\ mask' = EvSet("IN")
  /\ sndq' = q + n /\ unacked' = unacked + n
  /\ ReturnOk(next, estab)
  /\ UNCHANGED <<state, rxclosed, fwd, rcvq, proxyeof, phase, outq, wr, appreset>>

\* Mutant: proxyestab is set before the events are handled.
InputFailedEstab(q, n) ==
  /\ Drained(n) /\ ~peershut /\ sockerr
  /\ tcp_forward_destroy(TRUE, state, q + n, rcvq, outq)
  /\ stage' = "idle" /\ proxyestab' = TRUE
  /\ UNCHANGED proxyeof

\* recv() failed, ERR_ABRT:
InputFailed(q, n) ==
  /\ Drained(n) /\ ~peershut /\ sockerr
  /\ tcp_forward_destroy(TRUE, state, q + n, rcvq, outq)
  /\ stage' = "idle"
  /\ UNCHANGED <<proxyestab, proxyeof>>

\* EOF, or no space in lwIP; the EOF is forwarded once sndq has drained:
InputStop(q, n, next, estab) ==
  /\ Drained(n) => peershut
  /\ LET fin == SndEof(ProxyEof(n), q + n)
     IN /\ ~(fin /\ RcvEof(lwipeof, rcvq))
        /\ state' = (IF fin THEN tcp_close_shutdown_fin(state) ELSE state)
  /\ proxyeof' = ProxyEof(n)
  /\ mask' = EvClr("IN")
  /\ sndq' = q + n /\ unacked' = unacked + n
  /\ ReturnOk(next, estab)
  /\ UNCHANGED <<rxclosed, fwd, rcvq, phase, outq, wr, appreset>>

\* both streams have ended, ERR_CLSD:
InputClose(q, n, next) ==
  /\ Drained(n) => peershut
  /\ SndEof(ProxyEof(n), q + n) /\ RcvEof(lwipeof, rcvq)
  /\ proxyeof' = TRUE
  /\ tcp_forward_destroy(FALSE, tcp_close_shutdown_fin(state), 0, rcvq, outq)
  /\ stage' = next
  /\ UNCHANGED proxyestab

\* tcp_proxy_input(fwd) with q bytes in sndq.  The handler goes on with stage
\* next after ERR_OK and ERR_CLSD, except that a socket event ends with the
\* forward (clsd), and stops after ERR_ABRT.
tcp_proxy_input(q, next, clsd, estab) ==
  \E n \in ReadCounts :
    /\ inq' = inq - n
    /\ gc' = IdleTimeout
    /\ \/ InputAgain(q, n, next, estab)
       \/ InputFailed(q, n)
       \/ InputStop(q, n, next, estab)
       \/ InputClose(q, n, clsd)

\* What the socket takes of q bytes.
Sent(q) == IF q <= SockBuf - outq THEN q ELSE SockBuf - outq

\* lwipeof && !proxysendeof: the EOF has yet to be forwarded.
HalfClose(eof) == eof /\ ~proxysendeof

\* send(), or the shutdown() that forwards the EOF, fails.
SendFails(q, eof) ==
  sockerr /\ (q > 0 \/ (HalfClose(eof) /\ option # "-N"))

\* The ways tcp_proxy_output() ends.  An error, ERR_ABRT:
OutputFailed(q, eof) ==
  /\ SendFails(q, eof)
  /\ tcp_forward_destroy(TRUE, state, sndq, q, outq)
  /\ stage' = "idle"
  /\ UNCHANGED <<proxyestab, proxysendeof>>

\* send() returned -EAGAIN:
OutputAgain(q, eof, next, estab) ==
  /\ ~SendFails(q, eof) /\ Sent(q) < q
  /\ mask' = EvSet("OUT")
  /\ rcvq' = q - Sent(q) /\ outq' = outq + Sent(q)
  /\ ReturnOk(next, estab)
  /\ UNCHANGED <<state, rxclosed, unacked, fwd, sndq, proxysendeof, phase, wr,
                 appreset>>

\* rcvq has drained; the EOF is forwarded, unless half-close is disabled:
OutputDrained(q, eof, next, estab) ==
  /\ ~SendFails(q, eof) /\ Sent(q) = q
  /\ ~(HalfClose(eof) /\ SndEof(proxyeof, sndq))
  /\ mask' = EvClr("OUT")
  /\ rcvq' = 0 /\ outq' = outq + q
  /\ proxysendeof' = (proxysendeof \/ eof)
  /\ wr' = (IF HalfClose(eof) /\ option # "-N" THEN "fin" ELSE wr)
  /\ ReturnOk(next, estab)
  /\ UNCHANGED <<state, rxclosed, unacked, fwd, sndq, phase, appreset>>

\* both streams have ended, ERR_CLSD:
OutputClose(q, eof, next) ==
  /\ ~SendFails(q, eof) /\ Sent(q) = q
  /\ HalfClose(eof) /\ SndEof(proxyeof, sndq)
  /\ proxysendeof' = TRUE
  /\ tcp_forward_destroy(FALSE, state, sndq, 0, outq + q)
  /\ stage' = next
  /\ UNCHANGED proxyestab

\* tcp_proxy_output(fwd) with q bytes in rcvq and eof the value of lwipeof.
tcp_proxy_output(q, eof, next, estab) ==
  /\ gc' = IdleTimeout
  /\ \/ OutputFailed(q, eof)
     \/ OutputAgain(q, eof, next, estab)
     \/ OutputDrained(q, eof, next, estab)
     \/ OutputClose(q, eof, next)

-----------------------------------------------------------------------------
(* The connection starts *)

\* core_tcp_new(), called by tcp_listen_input() for a SYN.  A direct connection
\* is polled for both events from the start; the events of a SOCKS or HTTP
\* connection go to its handshake.  Creating the connection may fail.
core_tcp_new ==
  /\ state = "NONE"
  /\ \/ /\ \/ phase' = "CONNECTING" /\ mask' = {"IN", "OUT"}
           \/ phase' = "HANDSHAKE" /\ mask' = {}
        /\ state' = "SYN_RCVD" /\ fwd' = "live"
        /\ UNCHANGED <<rxclosed, unacked, sndq, rcvq, outq, wr, appreset>>
     \/ tcp_forward_destroy(TRUE, "SYN_RCVD", 0, 0, 0)
  /\ gc' = IdleTimeout
  /\ UNCHANGED <<proxyestab, stage, recvvars, proxyeof, lwipeof, proxysendeof,
                 inq, sockerr, appsent, appshut, appgot, appeof, peervars, wild>>

Running == fwd = "live" /\ stage = "idle" /\ state # "FREED" /\ ~wild

\* connect(2) of a direct connection succeeds, or leaves an error pending.
direct_connected ==
  /\ Running /\ phase = "CONNECTING"
  /\ phase' = "FORWARDING"
  /\ peerup' \in BOOLEAN /\ sockerr' = ~peerup'
  /\ UNCHANGED <<pcbvars, stage, recvvars, fwdvars, mask, inq, outq, wr,
                 appvars, peersent, peershut, peergot, peereof, wild>>

\* Mutant: EPOLLOUT is not polled after the handshake.
HandshakeDoneInOnly ==
  /\ Running /\ phase = "HANDSHAKE"
  /\ phase' = "FORWARDING" /\ mask' = {"IN"}
  /\ peerup' = TRUE
  /\ UNCHANGED <<pcbvars, stage, recvvars, fwdvars, inq, outq, sockerr, wr,
                 appvars, peersent, peershut, peergot, peereof, wild>>

\* The last step of a handshake: both events are polled from here on.
handshake_done ==
  /\ Running /\ phase = "HANDSHAKE"
  /\ phase' = "FORWARDING" /\ mask' = {"IN", "OUT"}
  /\ peerup' = TRUE
  /\ UNCHANGED <<pcbvars, stage, recvvars, fwdvars, inq, outq, sockerr, wr,
                 appvars, peersent, peershut, peergot, peereof, wild>>

\* A failed handshake reports EPOLLIN | EPOLLOUT | EPOLLERR, and recv() on the
\* failed connection returns an error to tcp_proxy_input().
handshake_failed ==
  /\ Running /\ phase = "HANDSHAKE"
  /\ tcp_forward_destroy(TRUE, state, sndq, rcvq, outq)
  /\ gc' = IdleTimeout
  /\ UNCHANGED <<proxyestab, stage, recvvars, proxyeof, lwipeof, proxysendeof,
                 inq, sockerr, appsent, appshut, appgot, appeof, peervars, wild>>

-----------------------------------------------------------------------------
(* tcp_proxy_io_event *)

\* What epoll reports of the socket, for the events it polls.
InReady  == "IN" \in mask /\ (inq > 0 \/ peershut \/ sockerr)
OutReady == "OUT" \in mask /\ (outq < SockBuf \/ sockerr)

\* EPOLLIN comes first; EPOLLOUT of the same event follows unless
\* tcp_proxy_input() destroyed the forward.
tcp_proxy_io_event_in ==
  /\ Running /\ phase = "FORWARDING" /\ InReady
  /\ tcp_proxy_input(sndq, IF OutReady THEN "evout" ELSE "idle", "idle",
                     ~OutReady)
  /\ UNCHANGED <<recvvars, lwipeof, proxysendeof, sockerr, appsent, appshut,
                 appgot, appeof, peervars, wild>>

tcp_proxy_io_event_out ==
  /\ fwd = "live" /\ state # "FREED" /\ ~wild /\ phase = "FORWARDING"
  /\ \/ stage = "evout"
     \/ stage = "idle" /\ ~InReady /\ OutReady
  /\ tcp_proxy_output(rcvq, lwipeof, "idle", TRUE)
  /\ UNCHANGED <<recvvars, proxyeof, lwipeof, inq, sockerr, appsent, appshut,
                 appgot, appeof, peervars, wild>>

-----------------------------------------------------------------------------
(* tcp_input *)

\* The states of tcp_active_pcbs.
Active == state \notin {"NONE", "TIME_WAIT", "FREED"}

\* The state tcp_process() leaves, given whether the segment carries a FIN and
\* whether it acknowledges ours.
tcp_process_state(f, af) ==
  CASE state \in {"SYN_RCVD", "ESTABLISHED", "CLOSE_WAIT"} ->
         IF f \/ state = "CLOSE_WAIT" THEN "CLOSE_WAIT" ELSE "ESTABLISHED"
    [] state = "FIN_WAIT_1" ->
         IF f THEN (IF af THEN "TIME_WAIT" ELSE "CLOSING")
              ELSE (IF af THEN "FIN_WAIT_2" ELSE "FIN_WAIT_1")
    [] state = "FIN_WAIT_2" -> IF f THEN "TIME_WAIT" ELSE "FIN_WAIT_2"
    [] state = "CLOSING" -> IF af THEN "TIME_WAIT" ELSE "CLOSING"
    [] OTHER -> state

\* What a segment may acknowledge.  The congestion window is one byte until
\* the SYN|ACK is acknowledged, so no data is out in SYN_RCVD unless
\* tcp_slowtmr() had to retransmit it and raised the window to Mss.
Ackable == IF state = "SYN_RCVD" /\ ~SynAckLost THEN {0} ELSE 0..unacked

\* Mutant: the SYN counts like a byte of data.
AckedBytesWithSyn(a) == IF state = "SYN_RCVD" THEN a + 1 ELSE a

\* recv_acked after tcp_process(): the segments that carry data count their
\* bytes, and the ACK of our SYN takes one off ("prevent ACK for SYN to
\* generate a sent event").
AckedBytes(a) == IF state = "SYN_RCVD" /\ a > 0 THEN a - 1 ELSE a

\* The callbacks of tcp_input(), in their order.
AfterSent(closed, data, fin) ==
  IF closed THEN "closed"
  ELSE IF data > 0 THEN "recv" ELSE IF fin THEN "fin" ELSE "done"

\* A segment of the application with d new bytes and possibly its FIN, that
\* acknowledges a bytes and possibly our FIN: tcp_process() up to the
\* callbacks.  lwIP sends nothing before proxyestab is set.
tcp_process(d, f, a, af) ==
  /\ stage = "idle" /\ ~wild /\ Active /\ proxyestab
  /\ appshut => d = 0 /\ ~f
  /\ af => state \in {"FIN_WAIT_1", "CLOSING", "LAST_ACK"} /\ a = unacked
  /\ d > 0 \/ f \/ a > 0 \/ af \/ state = "SYN_RCVD"
  /\ state' = tcp_process_state(f, af)
  /\ unacked' = unacked - a
  /\ recv_acked' = AckedBytes(a) /\ recv_data' = d /\ got_fin' = f
  /\ got_closed' = (af /\ state = "LAST_ACK")
  /\ stage' = (IF recv_acked' > 0 THEN "sent"
               ELSE AfterSent(got_closed', recv_data', got_fin'))
  /\ appsent' = appsent + d /\ appshut' = (appshut \/ f)
  /\ appgot' = appgot + a /\ appeof' = (appeof \/ af)
  /\ UNCHANGED <<proxyestab, rxclosed, fwdvars, sockvars, appreset, peervars,
                 wild>>

Segment ==
  \E d \in 0..(Wnd - rcvq), f \in BOOLEAN, a \in Ackable, af \in BOOLEAN :
    /\ appsent + d <= MaxApp
    /\ tcp_process(d, f, a, af)

\* Mutant: nothing is asked of the proxy after its EOF.
RoomForMoreBeforeEof == SndBuf - unacked >= SndBuf \div 2 /\ ~proxyeof

\* The condition of tcp_lwip_sent() on the space left in lwIP.
RoomForMore == SndBuf - unacked >= SndBuf \div 2

\* TCP_EVENT_SENT, once for every 0xffff bytes of recv_acked.
tcp_lwip_sent ==
  /\ stage = "sent"
  /\ LET len  == IF recv_acked <= SentMax THEN recv_acked ELSE SentMax
         next == IF recv_acked > len THEN "sent"
                 ELSE AfterSent(got_closed, recv_data, got_fin)
     IN /\ recv_acked' = recv_acked - len
        /\ IF RoomForMore
           THEN tcp_proxy_input(sndq - len, next, next, FALSE)
           ELSE /\ sndq' = sndq - len /\ stage' = next
                /\ UNCHANGED <<pcbvars, fwd, rcvq, gc, proxyeof, phase, mask,
                               inq, outq, wr, appreset>>
  /\ UNCHANGED <<recv_data, got_fin, got_closed, lwipeof, proxysendeof, sockerr,
                 appsent, appshut, appgot, appeof, peervars, wild>>

\* lwIP releases the control block.  notify: the err callback is called, and
\* tcp_lwip_err() destroys the forward, which no longer has a control block.
\* failed: for the application the connection did not end in order.
tcp_pcb_free(notify, failed) ==
  /\ state' = "FREED" /\ unacked' = 0
  /\ appreset' = (appreset \/ failed)
  /\ IF notify /\ fwd = "live"
     THEN free_forward(TRUE, outq)
     ELSE UNCHANGED <<fwd, sndq, rcvq, phase, mask, outq, wr>>
  /\ UNCHANGED <<proxyestab, rxclosed, recvvars, gc, proxyeof, lwipeof,
                 proxysendeof, inq, sockerr, appsent, appshut, appgot, appeof,
                 peervars, wild>>

\* The ACK of our FIN in LAST_ACK.
tcp_input_delayed_close ==
  /\ stage = "closed"
  /\ stage' = "idle"
  /\ tcp_pcb_free(~rxclosed, FALSE)

\* tcp_lwip_received() with data.
tcp_lwip_received ==
  /\ stage = "recv"
  /\ recv_data' = 0
  /\ LET next == IF got_fin THEN "fin" ELSE "done"
     IN tcp_proxy_output(rcvq + recv_data, lwipeof, next, FALSE)
  /\ UNCHANGED <<recv_acked, got_fin, got_closed, proxyeof, lwipeof, inq,
                 sockerr, appsent, appshut, appgot, appeof, peervars, wild>>

\* tcp_lwip_received() with the end of the stream.
tcp_lwip_received_eof ==
  /\ stage = "fin"
  /\ lwipeof' = TRUE /\ got_fin' = FALSE
  /\ tcp_proxy_output(rcvq, TRUE, "done", FALSE)
  /\ UNCHANGED <<recv_acked, recv_data, got_closed, proxyeof, inq, sockerr,
                 appsent, appshut, appgot, appeof, peervars, wild>>

\* tcp_output() at the end of tcp_input().
tcp_input_done ==
  /\ stage = "done"
  /\ stage' = "idle"
  /\ UNCHANGED <<pcbvars, recvvars, fwdvars, sockvars, appvars, peervars, wild>>

\* A RST of the application, accepted in every state but TIME_WAIT.
tcp_input_reset ==
  /\ stage = "idle" /\ ~wild /\ Active
  /\ tcp_pcb_free(TRUE, TRUE)
  /\ UNCHANGED stage

-----------------------------------------------------------------------------
(* Timers *)

\* The active control blocks tcp_slowtmr() may give up on.
TimedOut ==
  \/ state \in {"SYN_RCVD", "LAST_ACK"}
  \/ state = "FIN_WAIT_2" /\ rxclosed
  \/ Active /\ proxyestab /\ (unacked > 0 \/ state \in {"FIN_WAIT_1", "CLOSING"})

\* The first loop of tcp_slowtmr(): the err callback, and no RST; the next
\* segment of the application finds no control block and is answered with one.
tcp_slowtmr_active ==
  /\ stage = "idle" /\ ~wild /\ TimedOut
  /\ tcp_pcb_free(TRUE, TRUE)
  /\ UNCHANGED stage

\* The second loop of tcp_slowtmr() frees without the err callback.
tcp_slowtmr_timewait ==
  /\ stage = "idle" /\ ~wild /\ state = "TIME_WAIT"
  /\ tcp_pcb_free(FALSE, FALSE)
  /\ UNCHANGED stage

\* core_gc_tmr(), once a second: if (fwd->gc-- == 0) destroy.
core_gc_tmr ==
  /\ Running
  /\ IF gc = 0
     THEN /\ tcp_forward_destroy(TRUE, state, sndq, rcvq, outq)
          /\ UNCHANGED gc
     ELSE /\ gc' = gc - 1
          /\ UNCHANGED <<state, rxclosed, unacked, fwd, sndq, rcvq, phase, mask,
                         outq, wr, appreset>>
  /\ UNCHANGED <<proxyestab, stage, recvvars, proxyeof, lwipeof, proxysendeof,
                 inq, sockerr, appsent, appshut, appgot, appeof, peervars, wild>>

\* The forward outlived its control block and touches it again: the next
\* socket event calls tcp_recved() or tcp_shutdown() on it, and core_gc_tmr()
\* tcp_arg() and tcp_abort().  Nothing can be said of what follows.
use_freed_pcb ==
  /\ fwd = "live" /\ state = "FREED" /\ stage = "idle" /\ ~wild
  /\ InReady \/ OutReady \/ gc = 0
  /\ wild' = TRUE
  /\ UNCHANGED <<pcbvars, stage, recvvars, fwdvars, sockvars, appvars, peervars>>

-----------------------------------------------------------------------------
(* The proxy peer and the kernel *)

Connected == phase = "FORWARDING" /\ ~sockerr /\ ~wild

PeerSend ==
  /\ Connected /\ ~peershut /\ peersent < MaxPeer
  /\ peersent' = peersent + 1 /\ inq' = inq + 1
  /\ UNCHANGED <<pcbvars, stage, recvvars, fwdvars, phase, mask, outq, sockerr,
                 wr, appvars, peerup, peershut, peergot, peereof, wild>>

PeerShut ==
  /\ Connected /\ ~peershut
  /\ peershut' = TRUE
  /\ UNCHANGED <<pcbvars, stage, recvvars, fwdvars, sockvars, appvars, peerup,
                 peersent, peergot, peereof, wild>>

\* A RST, or another failure of the socket.  What it received stays readable.
PeerReset ==
  /\ Connected
  /\ sockerr' = TRUE
  /\ UNCHANGED <<pcbvars, stage, recvvars, fwdvars, phase, mask, inq, outq, wr,
                 appvars, peervars, wild>>

\* The peer may still read after the socket was closed in order.
PeerRead ==
  /\ outq > 0 /\ ~sockerr /\ ~wild
  /\ outq' = outq - 1 /\ peergot' = peergot + 1
  /\ UNCHANGED <<pcbvars, stage, recvvars, fwdvars, phase, mask, inq, sockerr,
                 wr, appvars, peerup, peersent, peershut, peereof, wild>>

PeerReadEof ==
  /\ wr = "fin" /\ outq = 0 /\ ~peereof /\ ~sockerr /\ ~wild
  /\ peereof' = TRUE
  /\ UNCHANGED <<pcbvars, stage, recvvars, fwdvars, sockvars, appvars, peerup,
                 peersent, peershut, peergot, wild>>

-----------------------------------------------------------------------------
Process ==
  \/ tcp_proxy_io_event_in \/ tcp_proxy_io_event_out
  \/ tcp_lwip_sent \/ tcp_input_delayed_close \/ tcp_lwip_received
  \/ tcp_lwip_received_eof \/ tcp_input_done

Timers ==
  tcp_slowtmr_active \/ tcp_slowtmr_timewait \/ core_gc_tmr \/ use_freed_pcb

Environment ==
  \/ core_tcp_new \/ direct_connected \/ handshake_done \/ handshake_failed
  \/ Segment \/ tcp_input_reset
  \/ PeerSend \/ PeerShut \/ PeerReset \/ PeerRead \/ PeerReadEof

Next == (Process \/ Timers \/ Environment) /\ UNCHANGED option

Spec == Init /\ [][Next]_vars

-----------------------------------------------------------------------------
(* Safety *)

\* No end of stream without all of the stream.  The application has seen our
\* FIN only if the peer ended its stream and every byte of it was acknowledged;
\* a peer that was connected is sent a FIN only if the application ended its
\* stream and every byte of it is in the socket or with the peer.
\* tcp_proxy_input() and tcp_proxy_output() forward an EOF only once sndq and
\* rcvq have drained.
NoTruncation ==
  /\ appeof => peershut /\ appgot = peersent
  /\ peerup /\ wr = "fin" => appshut /\ peergot + outq = appsent

\* What a destroyed forward did not deliver is reported: unless the application
\* or the peer is reset, the stream towards it was complete.
\* tcp_forward_destroy() turns a close with undrained queues into a reset of
\* both sides.  A connection that never was established is reported to the
\* application, which had sent nothing that could be lost; the proxy may see it
\* closed in order, see Closing.
LossIsReported ==
  fwd = "freed" =>
    /\ ~appreset => peershut /\ appgot + unacked = peersent
    /\ peerup /\ wr # "rst" => appshut /\ peergot + outq = appsent
    /\ ~peerup => appreset /\ appsent = 0 /\ peergot = 0

\* Between two handlers an end of stream that could be forwarded has been:
\* the FIN is queued in lwIP, the write side of the proxy is shut down, and a
\* forward with nothing left to do is gone, whichever of the two callbacks of
\* core.c met the last of the four conditions.
EofForwarded ==
  Running =>
    /\ proxyeof /\ sndq = 0 => state \in FinQueued
    /\ lwipeof /\ rcvq = 0 => proxysendeof
    /\ ~(proxyeof /\ sndq = 0 /\ lwipeof /\ rcvq = 0)

\* Nothing waits for an event nobody asked for: reading from the proxy stopped
\* only while an ACK of the application is due, which calls tcp_lwip_sent();
\* bytes in rcvq are waiting for EPOLLOUT; and so is the delayed SYN|ACK.
NoLostWakeup ==
  Running /\ phase = "FORWARDING" =>
    /\ "IN" \notin mask => proxyeof \/ unacked > 0
    /\ rcvq > 0 \/ ~proxyestab => "OUT" \in mask

\* Nothing is stuck between two handlers: whichever of tcp_proxy_input(),
\* tcp_proxy_output(), tcp_lwip_sent() and tcp_lwip_received() ran last, every
\* end of stream that could be forwarded was, and what remains is polled for.
NothingStuck == EofForwarded /\ NoLostWakeup

\* tcp_abort() in a callback must be reported with ERR_ABRT (tcp.c): while
\* tcp_input() has callbacks or tcp_output() still to call, the control block
\* exists; sent and recv are called for a live forward only, and no data is
\* passed up after EOF, so nothing is ever refused with ERR_CLSD.
CallbackContract ==
  /\ stage \notin {"idle", "evout"} => state # "FREED"
  /\ stage \in {"evout", "sent", "recv", "fin"} => fwd = "live"
  /\ stage \in {"recv", "fin"} => ~lwipeof /\ ~rxclosed

\* tcp_write() is called without TCP_WRITE_FLAG_COPY: the payload lwIP may
\* still send must stay in sndq.  A control block whose forward is gone has
\* nothing left to send but its FIN.
PayloadHeld ==
  /\ fwd = "live" => sndq >= unacked + (IF stage = "sent" THEN recv_acked ELSE 0)
  /\ fwd = "freed" => unacked = 0

\* The application is answered with SYN|ACK only if the connection behind it
\* was established (proxyestab, core.c and tcp_output()).
SynAckAfterProxy == proxyestab => peerup

\* A forward outlives its control block in one case only: both streams have
\* ended, the proxy does not take the rest of rcvq, and TIME_WAIT is over.
OutlivedOnlyInTimeWait ==
  fwd = "live" /\ state = "FREED" =>
    /\ lwipeof /\ rcvq > 0
    /\ proxyeof /\ sndq = 0 /\ appeof

\* Seen from its ends each direction is a reliable stream: what is delivered
\* is a prefix of what was written, and its end is delivered only after all of
\* it.  Both handlers and every error path implement Stream.  The stream to the
\* peer is there once the peer is: what a proxy sees of a connection that ends
\* in its handshake is no part of it.
PeerStream == INSTANCE Stream WITH sent <- peersent, shut <- peershut,
                                   got <- appgot, eof <- appeof
AppStream == INSTANCE Stream WITH sent <- appsent, shut <- appshut,
                                  got <- peergot, eof <- peerup /\ peereof

\* The stream from the proxy peer to the application (tcp_proxy_input()).
PeerToApp == PeerStream!Spec

\* The stream from the application to the proxy peer (tcp_proxy_output()).
AppToPeer == AppStream!Spec

\* The pair of streams tcp_forward_create() sets up is reliable both ways, and
\* neither direction's end or error disturbs the other's.
BothStreams == PeerToApp /\ AppToPeer

(* What the comments of the code say and these runs refute *)

\* core.c on tcp_lwip_err(): lwIP calls it when the TCP connection has been
\* destroyed, so no forward is left with a control block that is gone.
DestroyedWithPcb == state = "FREED" => fwd # "live"

\* core.c on sndq: data stays in sndq and is freed after its ACK.
AckedDataFreed == Running => sndq = unacked

-----------------------------------------------------------------------------
(* Liveness *)

\* The application acknowledges all it was sent.
AppAcks ==
  tcp_process(0, FALSE,
              IF state = "SYN_RCVD" /\ ~SynAckLost THEN 0 ELSE unacked,
              state \in {"FIN_WAIT_1", "CLOSING", "LAST_ACK"})

\* Pending events are handled and callbacks return; connect(2) and handshakes
\* come to an end; the application acknowledges and the peer reads.  Nothing
\* is assumed of timers, resets, or of either side sending or closing.
Fairness ==
  /\ WF_vars(Process /\ UNCHANGED option)
  /\ WF_vars(use_freed_pcb /\ UNCHANGED option)
  /\ WF_vars(direct_connected /\ UNCHANGED option)
  /\ WF_vars((handshake_done \/ handshake_failed) /\ UNCHANGED option)
  /\ WF_vars(AppAcks /\ UNCHANGED option)
  /\ WF_vars(PeerRead /\ UNCHANGED option)
  /\ WF_vars(PeerReadEof /\ UNCHANGED option)

FairSpec == Spec /\ Fairness

\* The end of the peer's stream reaches the application, or it is reset.
PeerEofReachesApp == peershut ~> (appeof \/ appreset \/ wild)

\* The end of the application's stream reaches the peer, or it is reset: at
\* once, or with -N, when the peer is not told before the connection is closed,
\* once the peer has ended its stream too.
AppEofReachesPeer ==
  (appshut /\ (option = "-N" => peershut))
  ~> (peereof \/ wr = "rst" \/ sockerr \/ wild)

\* Each end of stream is passed on by the handlers of core.c, whatever the other
\* direction is doing.
EofsArrive == PeerEofReachesApp /\ AppEofReachesPeer

\* A connection attempt does not hang: it is answered with SYN|ACK or RST, or
\* tcp_slowtmr() has given it up.
ConnectAnswered == state = "SYN_RCVD" ~> (proxyestab \/ appreset)
=============================================================================
