----------------------------- MODULE PbufQueues -----------------------------
(***************************************************************************)
(* Who holds which packet buffer while data is relayed: the queues of a TCP  *)
(* forwarder in core.c, the out-of-sequence queue of its pcb and the chain   *)
(* tcp_input() hands over, and a UDP datagram on its way to the TUN, whole   *)
(* or in fragments.  The queues can grow beyond what the u16_t length of a   *)
(* chain counts.                                                             *)
(***************************************************************************)
EXTENDS Pbuf

CONSTANTS
  SndBuf,    \* TCP_SND_BUF, in bytes; the window TCP_WND is as large
  Mss,       \* TCP_MSS
  Hdr,       \* headers in front of the payload of a packet
  Limits     \* bounds, one pair of them for a behaviour: the segments (of Mss
             \* bytes) the application sends, and the bytes read from the proxy

VARIABLES
  h,             \* the heap
  sndq, rcvq,    \* fwd->sndq, fwd->rcvq
  ooseq,         \* segments queued out of sequence: the place and the pbuf of each
  read, acked,   \* bytes read from the proxy, and acknowledged by the application
  nxt, passed,   \* segments received in order, and bytes passed on to the proxy
  limit          \* of Limits

vars == <<h, sndq, rcvq, ooseq, read, acked, nxt, passed, limit>>

Lesser(m, n) == IF m < n THEN m ELSE n

\* A packet read from the TUN (tun_input()) and stripped of its headers.
Packet(g, at, n) ==
  LET x == Fresh(g)
      a == pbuf_realloc(pbuf_alloc(g, Hdr + Mss), x, Hdr + n)
      b == [a EXCEPT !.pb[x].payload = at - Hdr]
  IN pbuf_remove_header(b, x, Hdr)

Append2(g, q, x) == IF q = NULL THEN <<g, x>> ELSE <<pbuf_cat(g, q, x), q>>

----------------------------------------------------------------------------
\* tcp_proxy_input(): it reads while there is room for more than a segment.
\* lens: what the reads return; the last read finds nothing, and its buffer is
\* freed again.
RECURSIVE Fill(_, _, _, _)
Fill(g, q, at, lens) ==
  IF SndBuf - (at - acked) <= Mss THEN [h |-> g, sndq |-> q, read |-> at]
  ELSE LET x == Fresh(g)
           p == pbuf_alloc(g, Mss)
           b == [pbuf_realloc(p, x, lens[1]) EXCEPT !.pb[x].payload = at]
           c == Append2(b, q, x)
       IN IF lens = <<>> THEN [h |-> pbuf_free(p, x), sndq |-> q, read |-> at]
          ELSE Fill(c[1], c[2], at + lens[1], Tail(lens))

tcp_proxy_input(g, q, lens) ==
  LET f == Fill(g, q, read, lens)
  IN /\ h' = f.h /\ sndq' = f.sndq /\ read' = f.read
     /\ read' <= limit.read

ProxyReadable(lens) ==
  /\ tcp_proxy_input(h, sndq, lens)
  /\ UNCHANGED <<rcvq, ooseq, acked, nxt, passed, limit>>

\* tcp_lwip_sent(): what was acknowledged leaves the queue, and more is read.
tcp_lwip_sent(n, lens) ==
  /\ n \in 1 .. read - acked
  /\ LET f == pbuf_free_header(h, sndq, n)
     IN IF SndBuf - (read - acked - n) >= SndBuf \div 2
        THEN LET g == Fill(f[1], f[2], read, lens)
             IN h' = g.h /\ sndq' = g.sndq /\ read' = g.read
        ELSE h' = f[1] /\ sndq' = f[2] /\ read' = read
  /\ read' <= limit.read
  /\ acked' = acked + n
  /\ UNCHANGED <<rcvq, ooseq, nxt, passed, limit>>

----------------------------------------------------------------------------
\* tcp_proxy_output(): the proxy takes n bytes in all, a pbuf at a time.
RECURSIVE Drain(_, _, _)
Drain(g, q, n) ==
  IF n = 0 \/ q = NULL THEN <<g, q>>
  ELSE LET k == Lesser(n, g.pb[q].len)
           f == pbuf_free_header(g, q, k)
       IN Drain(f[1], f[2], n - k)

\* tcp_input(): the chain received is handed to tcp_lwip_received() in parts
\* whose length a u16_t can hold; whole says that each part's length is right.
RECURSIVE HandOver(_, _, _, _)
HandOver(g, q, recv_data, whole) ==
  IF recv_data = NULL THEN [h |-> g, rcvq |-> q, whole |-> whole]
  ELSE LET s == pbuf_split_64k(g, recv_data)
           part == Chain(s[1], recv_data)
           size == FoldLeft(LAMBDA n, x : n + s[1].pb[x].len, 0, part)
           a == Append2(s[1], q, recv_data)
       IN HandOver(a[1], a[2], s[2], whole /\ s[1].pb[recv_data].tot_len = size)

\* tcp_receive(): a segment in sequence, followed by those queued behind it.
RECURSIVE Follow(_, _, _, _)
Follow(g, recv_data, q, seg) ==
  IF q # <<>> /\ q[1].seg = seg
  THEN Follow(pbuf_cat(g, recv_data, q[1].p), recv_data, Tail(q), seg + 1)
  ELSE [h |-> g, ooseq |-> q, nxt |-> seg]

InSequence(n) ==
  /\ nxt < limit.seg
  /\ (nxt + 1) * Mss - passed <= SndBuf
  /\ LET x == Fresh(h)
         f == Follow(Packet(h, nxt * Mss, Mss), x, ooseq, nxt + 1)
         o == HandOver(f.h, rcvq, x, TRUE)
         d == Drain(o.h, o.rcvq, n)
     IN /\ h' = LWIP_ASSERT(d[1], o.whole)
        /\ rcvq' = d[2] /\ ooseq' = f.ooseq /\ nxt' = f.nxt /\ passed' = passed + Lesser(n, f.nxt * Mss - passed)
  /\ UNCHANGED <<sndq, read, acked, limit>>

\* A segment out of sequence is queued as a copy (tcp_seg_copy()) that refers
\* to the same pbuf, unless it is queued already.
OutOfSequence(seg) ==
  /\ seg > nxt /\ seg < limit.seg
  /\ (seg + 1) * Mss - passed <= SndBuf
  /\ LET x == Fresh(h)
         p == Packet(h, seg * Mss, Mss)
         queued == \E k \in 1 .. Len(ooseq) : ooseq[k].seg = seg
         q == pbuf_ref(p, x)
     IN IF queued THEN h' = pbuf_free(p, x) /\ UNCHANGED ooseq
        ELSE /\ h' = pbuf_free(q, x)
             /\ ooseq' = SortSeq(Append(ooseq, [seg |-> seg, p |-> x]), LAMBDA s, t : s.seg < t.seg)
  /\ UNCHANGED <<sndq, rcvq, read, acked, nxt, passed, limit>>

\* The proxy's socket takes more.
ProxyWritable(n) ==
  /\ n \in 1 .. nxt * Mss - passed
  /\ LET d == Drain(h, rcvq, n) IN h' = d[1] /\ rcvq' = d[2]
  /\ passed' = passed + n
  /\ UNCHANGED <<sndq, ooseq, read, acked, nxt, limit>>

\* tcp_free_ooseq(): tcp_segs_free() of the queue.
RECURSIVE tcp_segs_free(_, _)
tcp_segs_free(g, q) == IF q = <<>> THEN g ELSE tcp_segs_free(pbuf_free(g, q[1].p), Tail(q))

FreeOoseq ==
  /\ ooseq # <<>>
  /\ h' = tcp_segs_free(h, ooseq) /\ ooseq' = <<>>
  /\ UNCHANGED <<sndq, rcvq, read, acked, nxt, passed, limit>>

\* tcp_forward_destroy() and tcp_pcb_purge().
tcp_forward_destroy ==
  /\ read > acked \/ nxt * Mss > passed \/ ooseq # <<>>
  /\ h' = tcp_segs_free(pbuf_free(pbuf_free(h, sndq), rcvq), ooseq)
  /\ sndq' = NULL /\ rcvq' = NULL /\ ooseq' = <<>>
  /\ acked' = read /\ passed' = nxt * Mss
  /\ UNCHANGED <<read, nxt, limit>>

----------------------------------------------------------------------------
\* udp_proxy_input(): a datagram of n bytes is sent; udp_sendto_if_src() chains
\* it to a header, and ip4_frag() or ip6_frag() sends it in pieces of Mss, each
\* a header and a reference to the packet, or it is sent whole.
RECURSIVE Pieces(_, _, _, _)
Pieces(g, p, at, n) ==
  IF n = 0 THEN g
  ELSE LET rambuf == Fresh(g)
           a == pbuf_alloc(g, Hdr)
           newpbuf == Fresh(a)
           b == pbuf_ref(pbuf_alloced_custom(a, Lesser(n, Mss), at, p), p)
           c == pbuf_free(pbuf_cat(b, rambuf, newpbuf), rambuf)
       IN Pieces(c, p, at + Lesser(n, Mss), n - Lesser(n, Mss))

udp_send(g, p, n) ==
  LET q == Fresh(g)
      a == pbuf_alloc(g, Hdr)
      b == IF n = 0 THEN a ELSE pbuf_chain(a, q, p)
      c == IF Hdr + n > Mss THEN Pieces(b, p, 0, n) ELSE b
  IN pbuf_free(c, q)

Datagram(n) ==
  /\ LET p == Fresh(h)
         a == pbuf_realloc(pbuf_alloc(h, U16 - 1), p, n)
     IN h' = pbuf_free(udp_send(a, p, n), p)
  /\ UNCHANGED <<sndq, rcvq, ooseq, read, acked, nxt, passed, limit>>

----------------------------------------------------------------------------
Init ==
  /\ h = Heap0 /\ sndq = NULL /\ rcvq = NULL /\ ooseq = <<>>
  /\ read = 0 /\ acked = 0 /\ nxt = 0 /\ passed = 0
  /\ limit \in Limits

Reads == {<<>>, <<1>>, <<Mss, Mss>>}

Next ==
  \/ \E lens \in Reads : ProxyReadable(lens)
  \/ \E n \in 1 .. SndBuf : \E lens \in {<<>>, <<Mss>>} : tcp_lwip_sent(n, lens)
  \/ \E n \in 0 .. SndBuf : InSequence(n)
  \/ \E seg \in 0 .. limit.seg : OutOfSequence(seg)
  \/ \E n \in 1 .. SndBuf : ProxyWritable(n)
  \/ FreeOoseq
  \/ tcp_forward_destroy
  \/ \E n \in 0 .. U16 - 1 - Hdr : Datagram(n)

Spec == Init /\ [][Next]_vars

----------------------------------------------------------------------------
Roots == <<sndq, rcvq>> \o [k \in 1 .. Len(ooseq) |-> ooseq[k].p]

\* References to x: from the queues, and from other pbufs.
References(x) ==
  Cardinality({k \in 1 .. Len(Roots) : Roots[k] = x})
    + Cardinality({y \in 1 .. Pbufs : h.pb[y].ref > 0 /\ h.pb[y].next = x})

\* The bytes that a queue holds.
Bytes(q) == LET c == Chain(h, q)
            IN FoldLeft(LAMBDA s, x : s \o [k \in 1 .. h.pb[x].len |-> h.pb[x].payload + k - 1], <<>>, c)
Places(from, to) == [k \in 1 .. to - from |-> from + k - 1]

\* Between two events every pbuf is counted exactly: its reference count is the
\* number of queues and chains that hold it.  So none leaks, none is freed
\* twice, and none is used after it was freed (h.sane), however segments,
\* acknowledgements, datagrams and the end of the connection come together.
\* Each queue holds exactly the bytes it should, in order, though the tot_len
\* of a long chain wraps around; and wherever it is, it is the right length
\* modulo 2^16, which is what pbuf_cat() asserts of the last pbuf.
PbufsCounted ==
  /\ h.sane
  /\ \A x \in 1 .. Pbufs : h.pb[x].ref = References(x)
  /\ Bytes(sndq) = Places(acked, read)
  /\ Bytes(rcvq) = Places(passed, nxt * Mss)
  /\ \A k \in 1 .. Len(ooseq) : Bytes(ooseq[k].p) = Places(ooseq[k].seg * Mss, (ooseq[k].seg + 1) * Mss)
  /\ \A q \in {sndq, rcvq} \ {NULL} : h.pb[q].tot_len = Len(Bytes(q)) % U16
=============================================================================
