---------------------------- MODULE TcpReceiver -----------------------------
(***************************************************************************)
(* The receiving half of lwIP's TCP at the level of sequence numbers: the   *)
(* data part of tcp_receive() and its queue of out-of-sequence segments in  *)
(* lwip/tcp_in.c, the receive window of lwip/tcp.c and the acknowledgements *)
(* of lwip/tcp_out.c, from the established connection to the FIN.  The      *)
(* application's kernel (external) may cut its stream into segments in any  *)
(* way and send any of them again; they arrive in any order, or not at all. *)
(***************************************************************************)
EXTENDS TcpSeq

CONSTANTS
  Irs,       \* sequence number of the application's first byte
  Total,     \* bytes it may write
  Wnd,       \* TCP_WND
  SynWnd,    \* the most a segment with SYN can announce, 0xFFFF
  Unit,      \* 1 << pcb->rcv_scale
  Mss        \* pcb->mss, TCP_MSS
\* 2 * (Total + Wnd + 2) <= SeqSpace keeps sequence numbers comparable.

VARIABLES
  pcb,            \* the struct tcp_pcb
  wrote, closed,  \* bytes the application has written; it has closed
  stream, eof,    \* bytes given to the receive callback, in order; its end
  used            \* bytes of them released with tcp_recved()

vars == <<pcb, wrote, closed, stream, eof, used>>

At(i) == Plus(Irs, i)
UpdateThreshold == Least(Wnd \div 4, 4 * Mss)

\* struct tcp_seg: its payload is the bytes from place at on.
Seg(seqno, len, fin, at) == [seqno |-> seqno, len |-> len, fin |-> fin, at |-> at]
TCPLEN(s) == s.len + (IF s.fin THEN 1 ELSE 0)
EndOf(s) == Plus(s.seqno, s.len)
Payload(s) == [k \in 1 .. s.len |-> s.at + k - 1]

\* An LWIP_ASSERT: none of them may fail.
LWIP_ASSERT(p, holds) == [p EXCEPT !.sane = @ /\ holds]

----------------------------------------------------------------------------
\* tcp_update_rcv_ann_wnd(): the announced window moves in steps of an MSS and
\* its right edge never moves back.
NewEdge(p) == Plus(p.rcv_nxt, p.rcv_wnd)
EdgeMoves(p) == SEQ_LEQ(Plus(p.rcv_ann_right_edge, Least(Wnd \div 2, Mss)), NewEdge(p))

\* Mutant: a window too small to move its edge is announced as closed.
ClosesWindow(p) == [p EXCEPT !.rcv_ann_wnd = IF EdgeMoves(p) THEN p.rcv_wnd ELSE 0]

tcp_update_rcv_ann_wnd(p) ==
  [p EXCEPT !.rcv_ann_wnd =
     IF EdgeMoves(p) THEN p.rcv_wnd
     ELSE IF SEQ_LT(p.rcv_ann_right_edge, p.rcv_nxt) THEN 0
     ELSE Minus(p.rcv_ann_right_edge, p.rcv_nxt)]

wnd_inflation(p) == IF EdgeMoves(p) THEN Minus(NewEdge(p), p.rcv_ann_right_edge) ELSE 0

\* RCV_WND_SCALE(): a segment carries the window in units, rounded down.
Scaled(n) == (n \div Unit) * Unit

\* Any segment sent acknowledges, and announces the window; the edge noted is
\* the one before rounding, wire the one the application is told.
tcp_send_empty_ack(p) ==
  [p EXCEPT !.rcv_ann_right_edge = Plus(p.rcv_nxt, p.rcv_ann_wnd),
            !.wire = Plus(p.rcv_nxt, Scaled(p.rcv_ann_wnd)),
            !.ack_now = FALSE, !.ack_delay = FALSE]

tcp_ack_now(p) == [p EXCEPT !.ack_now = TRUE]
tcp_ack(p) ==
  IF p.ack_delay THEN [p EXCEPT !.ack_now = TRUE, !.ack_delay = FALSE]
  ELSE [p EXCEPT !.ack_delay = TRUE]

\* tcp_output() with nothing to send.
tcp_output(p) == IF p.ack_now THEN tcp_send_empty_ack(p) ELSE p

\* Mutant: the announced window is not recomputed.
RecvedOnly(p, n) == [p EXCEPT !.rcv_wnd = Least(@ + n, Wnd)]

\* tcp_recved(): n bytes of the receive buffer are free again.
tcp_recved(p, n) ==
  LET q == [p EXCEPT !.rcv_wnd = Least(@ + n, Wnd)]
      u == tcp_update_rcv_ann_wnd(q)
  IN IF wnd_inflation(q) >= UpdateThreshold THEN tcp_output(tcp_ack_now(u)) ELSE u

----------------------------------------------------------------------------
\* tcp_oos_insert_segment(): c goes before the segments of next; those it
\* covers are dropped, and it is cut where the first that remains begins.
RECURSIVE Uncovered(_, _)
Uncovered(c, next) ==
  IF next # <<>> /\ SEQ_LEQ(EndOf(next[1]), EndOf(c))
  THEN Uncovered([c EXCEPT !.fin = @ \/ next[1].fin], Tail(next))
  ELSE <<c, next>>

\* Mutant: the overlap with the next queued segment stays.
KeepsOverlap(c, next) == c

CutBefore(c, next) ==
  IF next # <<>> /\ SEQ_LT(next[1].seqno, EndOf(c))
  THEN [c EXCEPT !.len = Minus(next[1].seqno, c.seqno)] ELSE c

tcp_oos_insert_segment(c, next) ==
  IF c.fin THEN <<c>>
  ELSE LET u == Uncovered(c, next) IN <<CutBefore(u[1], u[2])>> \o u[2]

\* Where the out-of-sequence segment s goes, by the place of its first byte.
CutTo(prev, s) ==
  IF SEQ_LT(s.seqno, EndOf(prev)) THEN [prev EXCEPT !.len = Minus(s.seqno, prev.seqno)] ELSE prev

ToWindow(p, s) ==
  IF SEQ_LT(NewEdge(p), Plus(s.seqno, TCPLEN(s)))
  THEN [s EXCEPT !.fin = FALSE, !.len = Minus(NewEdge(p), s.seqno)] ELSE s

OutOfSequence(p, s) ==
  LET q == p.ooseq
      n == Len(q)
      rest(i) == SubSeq(q, i, n)
      same == {i \in 1 .. n : q[i].seqno = s.seqno}
      after == {i \in 2 .. n : SEQ_BETWEEN(s.seqno, Plus(q[i - 1].seqno, 1), Minus(q[i].seqno, 1))}
  IN IF q = <<>> THEN <<s>>
     ELSE IF same # {} THEN
       LET i == CHOOSE i \in same : TRUE
       IN IF s.len > q[i].len THEN SubSeq(q, 1, i - 1) \o tcp_oos_insert_segment(s, rest(i)) ELSE q
     ELSE IF SEQ_LT(s.seqno, q[1].seqno) THEN tcp_oos_insert_segment(s, q)
     ELSE IF after # {} THEN
       LET i == CHOOSE i \in after : TRUE
       IN SubSeq(q, 1, i - 2) \o <<CutTo(q[i - 1], s)>> \o tcp_oos_insert_segment(s, rest(i))
     ELSE IF q[n].fin THEN q
     ELSE SubSeq(q, 1, n - 1) \o <<CutTo(q[n], s), ToWindow(p, s)>>

----------------------------------------------------------------------------
\* The next segment in sequence: cut to the window and to what is queued
\* already, delivered, and followed by the queued segments it makes contiguous.
Take(p, s) ==
  LET q == LWIP_ASSERT(p, p.rcv_wnd >= TCPLEN(s))
      r == tcp_update_rcv_ann_wnd([q EXCEPT !.rcv_nxt = Plus(@, TCPLEN(s)),
                                            !.rcv_wnd = @ - TCPLEN(s)])
  IN [r EXCEPT !.recv_data = @ \o Payload(s), !.got_fin = @ \/ s.fin]

RECURSIVE Drain(_)
Drain(p) ==
  IF p.ooseq = <<>> \/ p.ooseq[1].seqno # p.rcv_nxt THEN p
  ELSE Drain(Take([p EXCEPT !.ooseq = Tail(@)], p.ooseq[1]))

InSequence(p, s) ==
  LET w == IF TCPLEN(s) > p.rcv_wnd THEN [s EXCEPT !.fin = FALSE, !.len = p.rcv_wnd] ELSE s
      u == IF w.fin THEN <<w, <<>>>> ELSE Uncovered(w, p.ooseq)
      c == IF w.fin THEN w ELSE CutBefore(u[1], u[2])
      trimmed == c.len < u[1].len => Plus(c.seqno, TCPLEN(c)) = u[2][1].seqno
  IN tcp_ack(Drain(Take(LWIP_ASSERT([p EXCEPT !.ooseq = u[2]], trimmed), c)))

\* tcp_receive(), the part for the data of a segment.
InWindow(p, seqno) == SEQ_BETWEEN(seqno, p.rcv_nxt, Plus(p.rcv_nxt, p.rcv_wnd - 1))

\* Bytes received before are cut off in front.
TrimLeft(p, s) ==
  LET off == Minus(p.rcv_nxt, s.seqno)
  IN IF SEQ_BETWEEN(p.rcv_nxt, Plus(s.seqno, 1), Plus(s.seqno, TCPLEN(s) - 1))
     THEN [s EXCEPT !.seqno = p.rcv_nxt, !.len = @ - off, !.at = @ + off] ELSE s

tcp_receive(p, s) ==
  IF TCPLEN(s) = 0 \/ p.state # "ESTABLISHED"
  THEN IF InWindow(p, s.seqno) THEN p ELSE tcp_ack_now(p)
  ELSE LET t == TrimLeft(p, s)
           q == IF SEQ_LT(t.seqno, p.rcv_nxt) THEN tcp_ack_now(p) ELSE p
       IN IF ~InWindow(q, t.seqno) THEN tcp_send_empty_ack(q)
          ELSE IF t.seqno = q.rcv_nxt THEN InSequence(q, t)
          ELSE tcp_send_empty_ack([q EXCEPT !.ooseq = OutOfSequence(q, t)])

\* tcp_process() and tcp_input(): a FIN closes the receiving half, and gives
\* its place in the window back.
tcp_process(p, s) ==
  LET q == tcp_receive(p, s)
  IN IF q.got_fin
     THEN tcp_ack_now([q EXCEPT !.state = "CLOSE_WAIT",
                                !.rcv_wnd = IF @ # Wnd THEN @ + 1 ELSE @])
     ELSE q

----------------------------------------------------------------------------
Init ==
  /\ pcb = [state |-> "ESTABLISHED", rcv_nxt |-> Irs, rcv_wnd |-> Wnd, rcv_ann_wnd |-> Wnd,
            rcv_ann_right_edge |-> Plus(Irs, Wnd), wire |-> Plus(Irs, Least(Wnd, SynWnd)),
            ooseq |-> <<>>,
            ack_now |-> FALSE, ack_delay |-> FALSE,
            recv_data |-> <<>>, got_fin |-> FALSE, sane |-> TRUE]
  /\ wrote = 0 /\ closed = FALSE /\ stream = <<>> /\ eof = FALSE /\ used = 0

Becomes(p) == pcb' = [p EXCEPT !.recv_data = <<>>, !.got_fin = FALSE]

\* tcp_input() of a segment with data: any piece of what the application wrote
\* that ends inside a window it was offered, its FIN included.  An earlier offer
\* may reach less than a unit beyond the last one.
Noted == Minus(pcb.rcv_ann_right_edge, Irs)
Offered == Minus(pcb.wire, Irs)

Sent(from, to, fin) ==
  /\ from <= to /\ to <= wrote
  /\ fin => closed /\ to = wrote
  /\ (IF fin THEN to + 1 ELSE to) <= Least(Offered + Unit - 1, Noted)

Input(from, to, fin) ==
  /\ Sent(from, to, fin)
  /\ UNCHANGED <<wrote, closed, used>>
  /\ LET p == tcp_process(pcb, Seg(At(from), to - from, fin, from))
     IN /\ stream' = stream \o p.recv_data
        /\ eof' = (eof \/ p.got_fin)
        /\ Becomes(tcp_output(p))

\* A probe: a keep-alive below the window, or a byte just beyond it.
Probe ==
  /\ UNCHANGED <<wrote, closed, eof, used>>
  /\ \/ /\ UNCHANGED stream
        /\ Becomes(tcp_output(tcp_process(pcb, Seg(Minus(pcb.rcv_nxt, 1), 0, FALSE, 0))))
     \/ /\ Offered < wrote
        /\ LET p == tcp_process(pcb, Seg(At(Offered), 1, FALSE, Offered))
           IN stream' = stream \o p.recv_data /\ Becomes(tcp_output(p))

\* Bytes go on to the proxy and are released.
Recved ==
  /\ UNCHANGED <<wrote, closed, stream, eof>>
  /\ \E n \in 1 .. Len(stream) - used :
       /\ used' = used + n
       /\ Becomes(tcp_recved(pcb, n))

\* tcp_fasttmr(): a delayed acknowledgement is sent.
FastTimer ==
  /\ pcb.ack_delay
  /\ Becomes(tcp_output(tcp_ack_now(pcb)))
  /\ UNCHANGED <<wrote, closed, stream, eof, used>>

\* tcp_output_segment(): a segment the other way carries the acknowledgement.
Piggyback ==
  /\ Becomes(tcp_send_empty_ack(pcb))
  /\ UNCHANGED <<wrote, closed, stream, eof, used>>

\* tcp_slowtmr(): what is queued too long is dropped with tcp_free_ooseq().
FreeOoseq ==
  /\ pcb.ooseq # <<>>
  /\ Becomes([pcb EXCEPT !.ooseq = <<>>])
  /\ UNCHANGED <<wrote, closed, stream, eof, used>>

\* The application writes, or closes.
AppWrite ==
  /\ ~closed
  /\ \/ wrote < Total /\ wrote' = wrote + 1 /\ UNCHANGED closed
     \/ closed' = TRUE /\ UNCHANGED wrote
  /\ UNCHANGED <<pcb, stream, eof, used>>

Next ==
  \/ \E from, to \in 0 .. Total, fin \in BOOLEAN : Input(from, to, fin)
  \/ Probe \/ Recved \/ FastTimer \/ Piggyback \/ FreeOoseq \/ AppWrite

\* The application's kernel sends what is not acknowledged again, or probes a
\* closed window, until it is answered; what was received is passed on.  (Weak
\* fairness, with the conditions under which these steps change the state.)
Received == Minus(pcb.rcv_nxt, Irs)
Retry ==
  CASE Received >= Offered -> Probe
    [] Received < Offered /\ Received < wrote -> Input(Received, Received + 1, FALSE)
    [] OTHER -> Input(wrote, wrote, TRUE)

Waits ==
  /\ ~eof /\ (Received < wrote \/ closed)
  /\ Received >= Offered => tcp_send_empty_ack(pcb) # pcb

Fairness ==
  /\ []<>(~Waits) \/ []<><<Waits /\ Retry>>_vars
  /\ []<>(used = Len(stream)) \/ []<><<Recved>>_vars

Spec == Init /\ [][Next]_vars /\ Fairness

----------------------------------------------------------------------------
\* What is queued out of sequence lies behind what was received and inside the
\* window, in order and without overlap, each segment with the bytes of its
\* sequence numbers, and only the last one may carry the FIN.
OoseqSound ==
  LET q == pcb.ooseq
  IN \A i \in 1 .. Len(q) :
       /\ q[i].seqno = At(q[i].at)
       /\ SEQ_LT(pcb.rcv_nxt, q[i].seqno)
       /\ SEQ_LEQ(Plus(q[i].seqno, TCPLEN(q[i])), NewEdge(pcb))
       /\ i < Len(q) => ~q[i].fin /\ SEQ_LEQ(EndOf(q[i]), q[i + 1].seqno)

\* However segments overlap and in whatever order they come, the callback gets
\* the application's bytes, each once and in order, and the end of the stream
\* only behind the last; the window is what is left of the receive buffer, so
\* nothing leaks out of it; and no LWIP_ASSERT of tcp_receive() fails: segments
\* are cut to the window and to the out-of-sequence queue exactly.
ReceivedExactly ==
  /\ stream = [k \in 1 .. Len(stream) |-> k - 1]
  /\ eof => closed /\ Len(stream) = wrote
  /\ pcb.rcv_wnd = Wnd - (Len(stream) - used)
  /\ OoseqSound
  /\ pcb.sane

\* The window is never taken back: its right edge never moves back as noted, and
\* by less than a unit, from rounding, as announced; and whatever was announced
\* still fits in the receive buffer.
WindowNeverShrinks ==
  [][ /\ SEQ_LEQ(pcb.rcv_ann_right_edge, pcb'.rcv_ann_right_edge)
      /\ SEQ_LT(pcb.wire, Plus(pcb'.wire, Unit))
      /\ SEQ_LEQ(pcb'.wire, pcb'.rcv_ann_right_edge)
      /\ SEQ_LEQ(pcb'.rcv_ann_right_edge, NewEdge(pcb')) ]_vars

\* A stream that was closed is received to its end: neither the window nor the
\* acknowledgements can come to rest so that the application waits for ever.
AllReceived == closed ~> eof
=============================================================================
