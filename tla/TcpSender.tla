----------------------------- MODULE TcpSender ------------------------------
(***************************************************************************)
(* The sending half of lwIP's TCP at the level of sequence numbers:         *)
(* lwip/tcp_out.c, the acknowledgement part of tcp_receive() of             *)
(* lwip/tcp_in.c and the retransmission and persist timers of tcp_slowtmr() *)
(* of lwip/tcp.c.  One connection, from the SYN|ACK that tcp_listen_input() *)
(* enqueues to the acknowledged FIN.  The application's kernel at the other *)
(* side of the TUN device (external) keeps a bounded receive buffer; bytes  *)
(* and acknowledgements on the way are lost, delayed and reordered.         *)
(***************************************************************************)
EXTENDS TcpSeq

CONSTANTS
  Iss,        \* tcp_next_iss()
  Total,      \* bytes the proxy has for the application
  Mss,        \* pcb->mss
  SndBuf,     \* TCP_SND_BUF
  PeerBuf,    \* receive buffer of the application's kernel
  MaxRtx,     \* TCP_MAXRTX
  MaxCwnd,    \* windows from here on let everything pass
  MaxDup,     \* dupacks beyond this are not told apart
  MaxAcks     \* acknowledgements on the way at a time

ASSUME SenderAssumption ==
  /\ Iss \in SeqNo /\ {Total, Mss, SndBuf, PeerBuf, MaxRtx, MaxAcks} \subseteq Nat \ {0}
  /\ MaxDup > 3 /\ MaxCwnd > SndBuf
  /\ 2 * (Total + 2 + PeerBuf) <= SeqSpace

VARIABLES
  pcb,      \* the struct tcp_pcb
  written,  \* bytes tcp_write() has taken
  inflight, \* bytes on the way to the application, see Bits
  ended,    \* the proxy's end has been passed on with tcp_shutdown()
  rcv,      \* places the application's kernel has: SYN, bytes, FIN
  eof,      \* the last of them was a FIN
  read,     \* bytes the application has read
  edge,     \* first place it has not offered a window for
  owed,     \* it has to send an acknowledgement
  acks      \* acknowledgements on the way

vars == <<pcb, written, ended, inflight, rcv, eof, read, edge, owed, acks>>
peerVars == <<rcv, eof, read, edge, owed>>

\* Places of the stream: 0 the SYN, 1.. the bytes, the FIN behind the last.
Fin == 0 - 1
At(i) == Plus(Iss, i)

----------------------------------------------------------------------------
\* struct tcp_seg: sequence number, lengths of the pbufs of seg->p (the header
\* is in the first), flags, and which byte of the stream its payload starts at.
tcp_create_segment(seqno, lens, syn, fin, at) ==
  [seqno |-> seqno, lens |-> lens, syn |-> syn, fin |-> fin, at |-> at]

SegLen(s) == Bytes(s.lens)
TCPLEN(s) == SegLen(s) + (IF s.syn \/ s.fin THEN 1 ELSE 0)
pbuf_clen(s) == Len(s.lens)
Clens(q) == Bytes([i \in DOMAIN q |-> pbuf_clen(q[i])])

\* What a segment puts on the wire: each byte with its sequence number.
Bits(s) ==
  (IF s.syn THEN {<<s.seqno, 0>>} ELSE {})
    \cup {<<Plus(s.seqno, k), s.at + k>> : k \in 0 .. SegLen(s) - 1}
    \cup (IF s.fin THEN {<<Plus(s.seqno, SegLen(s)), Fin>>} ELSE {})

Send(p, bits) == [p EXCEPT !.out = @ \cup bits]

----------------------------------------------------------------------------
\* tcp_write() of n bytes by reference (no TCP_WRITE_FLAG_COPY): the last
\* unsent segment is filled up, the rest goes into segments of their own.
mss_local(p) ==
  LET m == Least(Mss, p.snd_wnd_max \div 2) IN IF m = 0 THEN Mss ELSE m

NewSegments(p, from, n, at) ==
  LET m == mss_local(p)
  IN [i \in 1 .. (n + m - 1) \div m |->
        tcp_create_segment(Plus(p.snd_lbb, from + (i - 1) * m),
                           <<0, Least(m, n - (i - 1) * m)>>, FALSE, FALSE,
                           at + (i - 1) * m)]

FillLast(p, n) ==
  IF p.unsent # <<>> /\ SegLen(Last(p.unsent)) > 0
  THEN Least(mss_local(p) - SegLen(Last(p.unsent)), n) ELSE 0

tcp_write(p, n, at) ==
  LET q == p.unsent
      take == FillLast(p, n)
      filled == IF take > 0 THEN [q EXCEPT ![Len(q)].lens = Append(@, take)] ELSE q
      more == NewSegments(p, take, n - take, at + take)
  IN [p EXCEPT !.unsent = filled \o more,
               !.snd_lbb = Plus(@, n),
               !.snd_buf = @ - n,
               !.snd_queuelen = @ + Clens(more) + (IF take > 0 THEN 1 ELSE 0)]

\* tcp_enqueue_flags() and tcp_send_fin(): the FIN rides on the last unsent
\* segment unless that is the SYN.
tcp_enqueue_flags(p, syn) ==
  [p EXCEPT !.unsent = Append(@, tcp_create_segment(p.snd_lbb, <<0>>, syn, ~syn, 1 + written)),
            !.snd_lbb = Plus(@, 1),
            !.snd_queuelen = @ + 1]

tcp_send_fin(p) ==
  IF p.unsent # <<>> /\ ~Last(p.unsent).syn /\ ~Last(p.unsent).fin
  THEN [p EXCEPT !.unsent[Len(p.unsent)].fin = TRUE]
  ELSE tcp_enqueue_flags(p, FALSE)

----------------------------------------------------------------------------
\* tcp_output(): unsent segments that fit the window go out, in order, and
\* move to unacked; a first one that does not fit an otherwise idle window
\* starts the persist timer.
Fits(p, s) == Plus(Minus(s.seqno, p.lastack), SegLen(s)) <= Least(p.snd_wnd, p.cwnd)

Sendable(p) ==
  CHOOSE k \in 0 .. Len(p.unsent) :
    /\ \A i \in 1 .. k : Fits(p, p.unsent[i])
    /\ k < Len(p.unsent) => ~Fits(p, p.unsent[k + 1])

\* Into unacked, kept in sequence when it is a retransmission.
Sorted(q, s) ==
  IF q = <<>> \/ ~SEQ_LT(s.seqno, Last(q).seqno) THEN Append(q, s)
  ELSE LET before == SelectSeq(q, LAMBDA x : SEQ_LT(x.seqno, s.seqno))
       IN before \o <<s>> \o SubSeq(q, Len(before) + 1, Len(q))

\* The device takes every packet, or drops it (Lose): the error return of
\* tcp_output(), which leaves the segment in unsent, is left out.  tun_output()
\* reports an error only for a packet above the MTU or a broken descriptor.
tcp_output_segment(p, s) ==
  LET end == Plus(s.seqno, TCPLEN(s))
  IN [Send(p, Bits(s)) EXCEPT
        !.timer = TRUE,
        !.unacked = Sorted(@, s),
        !.snd_nxt = IF SEQ_LT(@, end) THEN end ELSE @]

\* Mutant: the persist timer is not started.
NeverPersist(p) == p

StartPersist(p) ==
  IF p.snd_wnd <= p.cwnd /\ p.unacked = <<>> /\ ~p.persist
  THEN [p EXCEPT !.persist = TRUE, !.persist_probe = 0] ELSE p

tcp_output(p) ==
  LET k == Sendable(p)
  IN IF ~p.proxyestab \/ p.unsent = <<>> THEN p
     ELSE IF k = 0 THEN StartPersist(p)
     ELSE [FoldLeft(tcp_output_segment, p, SubSeq(p.unsent, 1, k)) EXCEPT
             !.persist = FALSE,
             !.unsent = SubSeq(p.unsent, k + 1, Len(p.unsent))]

----------------------------------------------------------------------------
\* Retransmission: everything unacknowledged after a timeout, the first
\* segment after three duplicate acknowledgements.
Bumped(n) == Least(n + 1, MaxRtx)

tcp_rexmit_rto_prepare(p) ==
  LET s == Last(p.unacked)
  IN [p EXCEPT !.unsent = p.unacked \o @, !.unacked = <<>>, !.rto = TRUE,
               !.rto_end = Plus(s.seqno, TCPLEN(s))]

tcp_rexmit(p) ==
  [p EXCEPT !.unsent = LET s == Head(p.unacked)
                           before == SelectSeq(@, LAMBDA x : SEQ_LT(x.seqno, s.seqno))
                       IN before \o <<s>> \o SubSeq(@, Len(before) + 1, Len(@)),
            !.unacked = Tail(@),
            !.nrtx = Bumped(@)]

HalfWindow(p) ==
  LET half == Least(p.cwnd, p.snd_wnd) \div 2 IN IF half < 2 * Mss THEN 2 * Mss ELSE half

tcp_rexmit_fast(p) ==
  IF p.unacked = <<>> \/ p.infr THEN p
  ELSE [tcp_rexmit(p) EXCEPT !.ssthresh = HalfWindow(p),
                             !.cwnd = Least(HalfWindow(p) + 3 * Mss, MaxCwnd),
                             !.infr = TRUE,
                             !.timer = TRUE]

----------------------------------------------------------------------------
\* tcp_receive(), the part for the acknowledgement of a segment a.
UpdateWindow(p, a) ==
  IF \/ SEQ_LT(p.snd_wl1, a.seqno)
     \/ p.snd_wl1 = a.seqno /\ SEQ_LT(p.snd_wl2, a.ackno)
     \/ p.snd_wl2 = a.ackno /\ a.wnd > p.snd_wnd
  THEN [p EXCEPT !.snd_wnd = a.wnd, !.snd_wl1 = a.seqno, !.snd_wl2 = a.ackno,
                 !.snd_wnd_max = IF a.wnd > @ THEN a.wnd ELSE @]
  ELSE p

DuplicateAck(p, a, right_wnd_edge) ==
  IF /\ a.len = 0 /\ Plus(p.snd_wl2, p.snd_wnd) = right_wnd_edge
     /\ p.timer /\ p.lastack = a.ackno
  THEN LET d == [p EXCEPT !.dupacks = Least(@ + 1, MaxDup),
                          !.cwnd = IF p.dupacks + 1 > 3 THEN Least(@ + Mss, MaxCwnd) ELSE @]
       IN IF d.dupacks >= 3 THEN tcp_rexmit_fast(d) ELSE d
  ELSE [p EXCEPT !.dupacks = 0]

\* Mutant: a segment is freed once its first byte is acknowledged.
AckedByStart(q, ackno) ==
  CHOOSE k \in 0 .. Len(q) :
    /\ \A i \in 1 .. k : SEQ_LT(q[i].seqno, ackno)
    /\ k < Len(q) => ~SEQ_LT(q[k + 1].seqno, ackno)

\* tcp_free_acked_segments(): whole segments at the head of a queue.
Acked(q, ackno) ==
  CHOOSE k \in 0 .. Len(q) :
    /\ \A i \in 1 .. k : SEQ_LEQ(Plus(q[i].seqno, TCPLEN(q[i])), ackno)
    /\ k < Len(q) => ~SEQ_LEQ(Plus(q[k + 1].seqno, TCPLEN(q[k + 1])), ackno)

tcp_free_acked_segments(p, ackno) ==
  LET m == Acked(p.unacked, ackno)
      n == Acked(p.unsent, ackno)
      freed == SubSeq(p.unacked, 1, m) \o SubSeq(p.unsent, 1, n)
  IN [p EXCEPT !.unacked = SubSeq(@, m + 1, Len(@)),
               !.unsent = SubSeq(@, n + 1, Len(@)),
               !.snd_queuelen = @ - Clens(freed),
               !.snd_buf = @ + Bytes([i \in DOMAIN freed |-> SegLen(freed[i])])]

\* Slow start, or congestion avoidance, by the bytes acknowledged.
GrowWindow(p, acked) ==
  IF p.cwnd < p.ssthresh
  THEN [p EXCEPT !.cwnd = Least(@ + Least(acked, (IF p.rto THEN 1 ELSE 2) * Mss), MaxCwnd)]
  ELSE IF p.bytes_acked + acked >= p.cwnd
  THEN [p EXCEPT !.bytes_acked = @ + acked - p.cwnd, !.cwnd = Least(@ + Mss, MaxCwnd)]
  ELSE [p EXCEPT !.bytes_acked = @ + acked]

\* The end of the recovery from a timeout: all it had to send again is acked.
RtoOver(p) ==
  LET q == p.unacked \o p.unsent IN q = <<>> \/ SEQ_LEQ(p.rto_end, q[1].seqno)

NewAck(p, a) ==
  LET acked == Minus(a.ackno, p.lastack)
      p1 == IF p.infr THEN [p EXCEPT !.infr = FALSE, !.cwnd = p.ssthresh, !.bytes_acked = 0] ELSE p
      p2 == [p1 EXCEPT !.nrtx = 0, !.dupacks = 0, !.lastack = a.ackno]
      p3 == tcp_free_acked_segments(GrowWindow(p2, acked), a.ackno)
  IN [p3 EXCEPT !.timer = p3.unacked # <<>>, !.rto = @ /\ ~RtoOver(p3)]

tcp_receive(p, a) ==
  LET p1 == UpdateWindow(p, a)
  IN IF SEQ_LEQ(a.ackno, p1.lastack) THEN DuplicateAck(p1, a, Plus(p.snd_wl2, p.snd_wnd))
     ELSE IF SEQ_BETWEEN(a.ackno, Plus(p1.lastack, 1), p1.snd_nxt) THEN NewAck(p1, a)
     ELSE p1

\* tcp_process(): the state the acknowledgement leads to.
tcp_process(p, a) ==
  CASE p.state = "SYN_RCVD" ->
         IF SEQ_BETWEEN(a.ackno, Plus(p.lastack, 1), p.snd_nxt)
         THEN [tcp_receive([p EXCEPT !.state = "ESTABLISHED"], a) EXCEPT !.cwnd = 2 * Mss]
         ELSE p
    [] p.state = "FIN_WAIT_1" ->
         LET q == tcp_receive(p, a)
         IN IF a.ackno = q.snd_nxt /\ q.unsent = <<>>
            THEN [q EXCEPT !.state = "FIN_WAIT_2"] ELSE q
    [] OTHER -> tcp_receive(p, a)

----------------------------------------------------------------------------
\* A zero window is probed with one byte, or the FIN, of the first unsent
\* segment, which stays unsent.
tcp_zero_window_probe(p) ==
  LET s == Head(p.unsent)
      end == Plus(s.seqno, 1)
      bit == IF s.fin /\ SegLen(s) = 0 THEN <<s.seqno, Fin>> ELSE <<s.seqno, s.at>>
  IN [Send(p, {bit}) EXCEPT !.persist_probe = Bumped(@),
                            !.snd_nxt = IF SEQ_LT(@, end) THEN end ELSE @]

\* pbuf_realloc(): the lengths of a chain cut to n bytes.
Cut(lens, n) ==
  LET k == CHOOSE k \in 1 .. Len(lens) :
             /\ Bytes(SubSeq(lens, 1, k)) >= n
             /\ \A j \in 1 .. k - 1 : Bytes(SubSeq(lens, 1, j)) < n
  IN [SubSeq(lens, 1, k) EXCEPT ![k] = n - Bytes(SubSeq(lens, 1, k - 1))]

\* Mutant: the second part of a split segment has the bytes of the first.
SplitFromStart(p, split) ==
  LET u == Head(p.unsent)
      first == [u EXCEPT !.lens = Cut(@, split)]
      rest == tcp_create_segment(Plus(u.seqno, split), <<SegLen(u) - split>>, FALSE, u.fin, u.at)
  IN IF SegLen(u) <= split THEN p ELSE [p EXCEPT !.unsent = <<first, rest>> \o Tail(@)]

\* TCPH_SET_FLAG() adds split_flags to the flags of the header, so a FIN stays on
\* the first part as well; core.c sends none behind data.
tcp_split_unsent_seg(p, split) ==
  LET u == Head(p.unsent)
      first == [u EXCEPT !.lens = Cut(@, split)]
      rest == tcp_create_segment(Plus(u.seqno, split), <<SegLen(u) - split>>,
                                 FALSE, u.fin, u.at + split)
  IN IF SegLen(u) <= split THEN p
     ELSE [p EXCEPT !.unsent = <<first, rest>> \o Tail(@),
                    !.snd_queuelen = @ - pbuf_clen(u) + pbuf_clen(first) + 1]

PersistTimer(p) ==
  IF p.snd_wnd = 0 THEN tcp_zero_window_probe(p)
  ELSE tcp_output(tcp_split_unsent_seg(p, p.snd_wnd))

RetransmitTimer(p) ==
  IF p.unacked = <<>> /\ p.unsent = <<>> THEN p
  ELSE LET q == IF p.unacked = <<>> THEN p ELSE tcp_rexmit_rto_prepare(p)
       IN tcp_output([q EXCEPT !.ssthresh = HalfWindow(p), !.cwnd = Mss,
                               !.bytes_acked = 0, !.nrtx = Bumped(@)])

\* tcp_pcb_purge() and the removal from the list of connections.
Removed(p) ==
  [p EXCEPT !.state = "CLOSED", !.unsent = <<>>, !.unacked = <<>>, !.timer = FALSE,
            !.persist = FALSE]

\* tcp_slowtmr() for one connection; due tells whether the timer that runs,
\* if any, has expired.  Its LWIP_ASSERTs end the program.  Without a poll
\* interval every tick ends in tcp_output().
tcp_slowtmr(p, due) ==
  IF p.nrtx >= MaxRtx THEN Removed(p)
  ELSE IF p.persist /\ ~(p.unacked = <<>> /\ p.unsent # <<>>)
  THEN [Removed(p) EXCEPT !.state = "ABORTED"]
  ELSE IF p.persist /\ p.persist_probe >= MaxRtx THEN Removed(p)
  ELSE tcp_output(IF ~due THEN p
                  ELSE IF p.persist THEN PersistTimer(p)
                  ELSE IF p.timer THEN RetransmitTimer(p) ELSE p)

----------------------------------------------------------------------------
\* The connection as tcp_listen_input() leaves it: SYN|ACK enqueued, held back
\* by proxyestab until the proxy has answered.
Init ==
  LET new == [state |-> "SYN_RCVD", proxyestab |-> FALSE,
              snd_nxt |-> Iss, lastack |-> Iss, snd_lbb |-> Iss,
              snd_wnd |-> PeerBuf, snd_wnd_max |-> PeerBuf, snd_wl1 |-> SeqSpace - 1, snd_wl2 |-> Iss,
              cwnd |-> 1, ssthresh |-> SndBuf, bytes_acked |-> 0, dupacks |-> 0,
              infr |-> FALSE, rto |-> FALSE, rto_end |-> 0,
              timer |-> FALSE, nrtx |-> 0, persist |-> FALSE, persist_probe |-> 0,
              unsent |-> <<>>, unacked |-> <<>>, snd_buf |-> SndBuf, snd_queuelen |-> 0,
              out |-> {}]
  IN /\ written = 0 /\ ended = FALSE /\ inflight = {}
     /\ rcv = 0 /\ eof = FALSE /\ read = 0 /\ edge = 1 + PeerBuf /\ owed = FALSE
     /\ acks = {}
     /\ pcb = tcp_enqueue_flags(new, TRUE)

\* A handler leaves the connection as end; what it sent is on the way.
Becomes(end) ==
  \E p \in {end} :
    /\ pcb' = [p EXCEPT !.out = {}]
    /\ inflight' = inflight \cup p.out

Queued == pcb.unacked \o pcb.unsent
Open == pcb.state \notin {"CLOSED", "ABORTED"}

\* What tcp_proxy_input() of src/core.c may find in the proxy's socket: pieces of
\* the stream, read while there is room for more than a segment; or its end, for
\* which it waits until every byte is acknowledged (sndq is empty).
Pieces(p) ==
  {ns \in UNION {[1 .. k -> 1 .. Mss] : k \in 0 .. Least(Total - written, SndBuf - Mss)} :
     /\ Bytes(ns) <= Total - written
     /\ \A i \in DOMAIN ns : p.snd_buf - Bytes(SubSeq(ns, 1, i - 1)) > Mss}

Reads(p, ns, end) ==
  /\ ns # <<>> \/ end => p.state \in {"SYN_RCVD", "ESTABLISHED"}
  /\ end => ns = <<>> /\ p.snd_buf = SndBuf
  /\ written' = written + Bytes(ns)
  /\ ended' = (ended \/ end)

tcp_proxy_input(p, ns, end) ==
  LET piece(q, n) == tcp_output(tcp_write(q, n, Minus(q.snd_lbb, Iss)))
  IN IF end THEN tcp_output([tcp_send_fin(p) EXCEPT !.state = "FIN_WAIT_1"])
     ELSE FoldLeft(piece, p, ns)

\* tcp_proxy_io_event() of src/core.c: the first event of the proxy connection
\* releases the SYN|ACK, after what could be read already.
ProxyEstab ==
  /\ Open /\ ~pcb.proxyestab
  /\ \E ns \in Pieces(pcb), end \in BOOLEAN :
       /\ Reads(pcb, ns, end)
       /\ Becomes(tcp_output([tcp_proxy_input(pcb, ns, end) EXCEPT !.proxyestab = TRUE]))
  /\ UNCHANGED <<acks, peerVars>>

\* A later one, for data or for the end of the stream.
Write ==
  /\ pcb.proxyestab
  /\ \E ns \in Pieces(pcb) \ {<<>>} :
       Reads(pcb, ns, FALSE) /\ Becomes(tcp_proxy_input(pcb, ns, FALSE))
  /\ UNCHANGED <<acks, peerVars>>

Shutdown ==
  /\ pcb.proxyestab
  /\ Reads(pcb, <<>>, TRUE) /\ Becomes(tcp_proxy_input(pcb, <<>>, TRUE))
  /\ UNCHANGED <<acks, peerVars>>

\* tcp_lwip_sent() asks the proxy for more: lwIP has called it for acknowledged
\* bytes, of which tcp_process() takes one for the SYN, and half the buffer is free.
AsksForMore(p) ==
  /\ p.snd_buf - pcb.snd_buf > (IF pcb.state = "SYN_RCVD" THEN 1 ELSE 0)
  /\ p.snd_buf >= SndBuf \div 2

\* tcp_input() of an acknowledgement.
Input ==
  /\ Open
  /\ UNCHANGED peerVars
  /\ \E a \in acks :
       /\ acks' = acks \ {a}
       /\ \E p \in {[tcp_process(pcb, a) EXCEPT !.persist_probe = 0]} :
            \/ Reads(p, <<>>, FALSE) /\ Becomes(tcp_output(p))
            \/ /\ AsksForMore(p)
               /\ \E ns \in Pieces(p), end \in BOOLEAN :
                    /\ Reads(p, ns, end)
                    /\ Becomes(tcp_output(tcp_proxy_input(p, ns, end)))

\* tcp_input() of the application's SYN again, in tcp_process(): the SYN|ACK
\* that is still unacknowledged goes out once more.
InputSyn ==
  /\ pcb.state = "SYN_RCVD"
  /\ UNCHANGED <<written, ended, acks, peerVars>>
  /\ Becomes(tcp_output([IF pcb.unacked = <<>> THEN pcb ELSE tcp_rexmit(pcb)
                           EXCEPT !.persist_probe = 0]))

\* A connection that stays in SYN_RCVD is given up after TCP_SYN_RCVD_TIMEOUT.
SynRcvdTimeout ==
  /\ pcb.state = "SYN_RCVD"
  /\ UNCHANGED <<written, ended, acks, peerVars>>
  /\ Becomes(Removed(pcb))

Tick(due) ==
  /\ Open
  /\ UNCHANGED <<written, ended, acks, peerVars>>
  /\ Becomes(tcp_slowtmr(pcb, due))

----------------------------------------------------------------------------
\* The application's kernel: a byte arrives; it is kept if it is the next one
\* and inside the window.  One that comes too early has to come again.
Arrive(b) ==
  /\ owed' = TRUE
  /\ inflight' = inflight \ {b}
  /\ IF b[1] = At(rcv) /\ rcv < edge /\ ~eof
     THEN rcv' = rcv + 1 /\ eof' = (b[2] = Fin)
     ELSE UNCHANGED <<rcv, eof>>
  /\ UNCHANGED <<pcb, written, ended, read, edge, acks>>

ArriveWanted == \E b \in inflight : b[1] = At(rcv) /\ Arrive(b)
ArriveOther == \E b \in inflight : b[1] # At(rcv) /\ Arrive(b)

\* Bytes of the stream it has.
PeerData == IF rcv = 0 THEN 0 ELSE IF eof THEN rcv - 2 ELSE rcv - 1

\* It acknowledges what it has and offers what room it has.
PeerAck ==
  /\ owed /\ rcv > 0 /\ Cardinality(acks) < MaxAcks
  /\ LET wnd == PeerBuf - (PeerData - read)
     IN /\ acks' = acks \cup {[seqno |-> 0, ackno |-> At(rcv), wnd |-> wnd, len |-> 0]}
        /\ edge' = rcv + wnd
  /\ owed' = FALSE
  /\ UNCHANGED <<pcb, written, ended, inflight, rcv, eof, read>>

\* The application reads; a window that was closed is announced to be open.
PeerRead ==
  /\ read < PeerData
  /\ read' = read + 1
  /\ owed' = (owed \/ PeerData - read = PeerBuf)
  /\ UNCHANGED <<pcb, written, ended, inflight, rcv, eof, edge, acks>>

Lose ==
  /\ \/ \E b \in inflight : inflight' = inflight \ {b} /\ UNCHANGED acks
     \/ \E a \in acks : acks' = acks \ {a} /\ UNCHANGED inflight
  /\ UNCHANGED <<pcb, written, ended, peerVars>>

Next ==
  \/ ProxyEstab \/ Write \/ Shutdown \/ Input \/ InputSyn \/ SynRcvdTimeout
  \/ \E due \in BOOLEAN : Tick(due)
  \/ ArriveWanted \/ ArriveOther \/ PeerAck \/ PeerRead \/ Lose

\* The main loop runs the timers, the TUN device may lose packets but not all
\* of them, the application keeps reading.  For Tick and Input this is weak and
\* strong fairness with the condition that enables the action written out.
TimerDue == Open /\ Queued # <<>> /\ (pcb.timer \/ pcb.persist)

Fairness ==
  /\ []<>(~TimerDue) \/ []<><<TimerDue /\ Tick(TRUE)>>_vars
  /\ []<>(Open /\ acks # {}) => []<><<Input>>_vars
  /\ SF_vars(ArriveWanted) /\ SF_vars(ArriveOther)
  /\ WF_vars(PeerAck) /\ WF_vars(PeerRead)

Spec == Init /\ [][Next]_vars /\ Fairness

----------------------------------------------------------------------------
\* Whatever was written and not acknowledged is still queued, in sequence and
\* without gaps, whatever retransmissions, splits and partial acknowledgements
\* did to the queues; snd_buf and snd_queuelen count exactly what is queued
\* (tcp_write() and tcp_free_acked_segments() assert the latter); and the
\* persist timer never runs beside the retransmission timer, the first
\* assertion of tcp_slowtmr() about it.
RetransmitQueue ==
  Open =>
  /\ pcb.persist => pcb.unacked = <<>>
  /\ pcb.snd_queuelen = Clens(Queued)
  /\ pcb.snd_buf = SndBuf - Bytes([i \in DOMAIN Queued |-> SegLen(Queued[i])])
  /\ \A i \in 1 .. Len(Queued) - 1 :
       Queued[i + 1].seqno = Plus(Queued[i].seqno, TCPLEN(Queued[i]))
  /\ IF Queued = <<>>
     THEN pcb.lastack = At(written + (IF ended THEN 2 ELSE 1))
     ELSE /\ SEQ_LEQ(Queued[1].seqno, pcb.lastack)
          /\ Plus(Last(Queued).seqno, TCPLEN(Last(Queued))) = At(written + (IF ended THEN 2 ELSE 1))

\* Every byte that goes out, for the first time, again, out of a split segment
\* or as a window probe, carries the sequence number of its place in the
\* stream, and a FIN the one behind the last byte; and nothing goes out beyond
\* the window the application offered, but for one byte (a probe) or a FIN
\* right behind it.
WireSound ==
  \A b \in inflight : /\ b[1] = At(IF b[2] = Fin THEN written + 1 ELSE b[2])
                       /\ SEQ_LEQ(b[1], At(edge))

\* "tcp_slowtimr: persist ticking with empty send buffer", the second assertion
\* of tcp_slowtmr() about the persist timer: while it runs there is something
\* to probe the window with.
PersistHasData == pcb.persist => pcb.unsent # <<>>

\* The first unsent segment is not one that is all acknowledged: tcp_output()
\* would never find it to fit a window.  tcp_slowtmr() makes one when it splits a
\* segment of which more is acknowledged than the window it is split for.
HeadSendable ==
  pcb.unsent # <<>> =>
    LET s == Head(pcb.unsent) IN SEQ_LEQ(pcb.lastack, Plus(s.seqno, SegLen(s)))

\* After anything is written, or the stream ended, there comes a moment when all
\* that has been written has arrived, and the end too if there is one, however
\* often packets are lost and the application lets its window close, unless the
\* connection is given up after MaxRtx attempts or a split goes wrong, for which
\* segments of four bytes are needed.
Delivered ==
  (written > 0 \/ ended) ~>
    ((rcv > written /\ (ended => eof)) \/ ~Open \/ ~HeadSendable)
=============================================================================
