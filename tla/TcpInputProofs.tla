--------------------------- MODULE TcpInputProofs ---------------------------
(***************************************************************************)
(* The inductive invariant of TcpForward is kept by what the socket of the  *)
(* proxy and the stack report, but for lwIP's sent callback.                *)
(***************************************************************************)
EXTENDS TcpForwardInv

-----------------------------------------------------------------------------
(* The start, and the ends of a forward *)

\* Before the SYN of the application (core_init()).
LEMMA InitIInv == Init => IInv
<1> SUFFICES ASSUME Init PROVE IInv  OBVIOUS
<1> USE SizesAssumption DEF Init, Pending, Acked
<1>1. Types
  <2>1. Flags  BY Zenon DEF Flags
  <2> QED  BY <2>1 DEF Types, Sizes, States, Stages, Phases
<1>2. Counts /\ Connecting /\ Wakeups  BY DEF Counts, Connecting, Wakeups
<1>3. Ends  BY Zenon DEF Ends, FinQueued
<1>4. Staging  BY Zenon DEF Staging
<1>5. NoTruncation /\ LossIsReported /\ OutlivedOnlyInTimeWait
  BY Zenon DEF NoTruncation, LossIsReported, OutlivedOnlyInTimeWait
<1> QED  BY Zenon, <1>1, <1>2, <1>3, <1>4, <1>5 DEF IInv

\* tcp_abort() on the control block of a live forward: if it sends no RST, the
\* control block is in TIME_WAIT and the application has it all.
LEMMA AbortReported ==
  ASSUME IInv, tcp_abort(state), state # "FREED"
  PROVE  ~appreset' => peershut /\ appgot = peersent
<1>1. ~appreset' => state = "TIME_WAIT"
  BY Zenon DEF tcp_abort
<1>2. state = "TIME_WAIT" => peershut /\ appgot = peersent
  BY DEF IInv, Types, Sizes, Counts, Ends, FinQueued
<1> QED  BY Zenon, <1>1, <1>2

\* A connection that was established ends the way tcp_forward_destroy() asks
\* for; one in its handshake may be closed in order.
LEMMA ClosedAs ==
  ASSUME IInv, NEW rst \in BOOLEAN, NEW out, free_forward(rst, out)
  PROVE  /\ fwd' = "freed" /\ phase' = "CLOSED" /\ mask' = {}
         /\ wr' \in {"open", "fin", "rst"}
         /\ peerup => wr' = (IF rst THEN "rst" ELSE "fin")
         /\ wr' = "open" => phase = "NEW"
         /\ outq' = (IF wr' = "rst" THEN 0 ELSE out)
<1>1. peerup => phase \notin {"NEW", "HANDSHAKE"}
  BY Zenon DEF IInv, Connecting
<1>2. /\ fwd' = "freed" /\ phase' = "CLOSED" /\ mask' = {} /\ wr' \in Closing(rst)
      /\ outq' = (IF wr' = "rst" THEN 0 ELSE out)
  BY Zenon DEF free_forward, close_proxy
<1>3. CASE phase = "NEW"  BY Zenon, <1>1, <1>2, <1>3 DEF Closing
<1>4. CASE phase = "HANDSHAKE"  BY Zenon, <1>1, <1>2, <1>4 DEF Closing
<1>5. CASE phase \notin {"NEW", "HANDSHAKE"}
  <2>1. Closing(rst) = {IF rst THEN "rst" ELSE "fin"}
    BY <1>5 DEF Closing
  <2> QED  BY Zenon, <1>1, <1>2, <1>5, <2>1
<1> QED  BY Zenon, <1>3, <1>4, <1>5

\* A forward that is destroyed by force, its control block being gone.
LEMMA ForwardReset ==
  ASSUME IInv, fwd = "live", free_forward(TRUE, outq),
         state' = "FREED", unacked' = 0, UNCHANGED rxclosed,
         ~appreset' => peershut /\ appgot = peersent,
         stage' = "idle", gc' \in 0..IdleTimeout, inq' \in 0..inq,
         recv_acked' \in 0..SndBuf, recv_data' \in 0..Wnd,
         Flags', lwipeof' => appshut, UNCHANGED proxyeof,
         UNCHANGED <<proxyestab, sockerr, appsent, appshut, appgot, appeof,
                     peervars>>
  PROVE  IInv'
<1>0. /\ fwd' = "freed" /\ sndq' = 0 /\ rcvq' = 0 /\ phase' = "CLOSED" /\ mask' = {}
      /\ wr' \in {"fin", "rst"} /\ (peerup => wr' = "rst")
      /\ outq' \in {0, outq}
      /\ outq = 0 => outq' = 0
  <2>1. TRUE \in BOOLEAN /\ phase # "NEW"
    BY Zenon DEF IInv, Staging
  <2>2. sndq' = 0 /\ rcvq' = 0
    BY Zenon DEF free_forward
  <2> QED  BY Zenon, <2>1, <2>2, ClosedAs
<1> USE <1>0 DEF peervars
<1>1. Types'
  BY SizesAssumption DEF IInv, Types, Sizes, States, Stages, Phases
<1>2. Counts'
  BY Zenon, SizesAssumption DEF IInv, Types, Sizes, Counts
<1>3. Ends'
  BY SizesAssumption DEF IInv, Types, Flags, Sizes, Ends, FinQueued
<1>4. Staging'
  BY Zenon DEF IInv, Types, Flags, Staging
<1>5. Connecting'
  BY SizesAssumption DEF IInv, Types, Flags, Sizes, Connecting
<1>6. Wakeups' /\ OutlivedOnlyInTimeWait'
  BY Zenon DEF Wakeups, OutlivedOnlyInTimeWait
<1>7. NoTruncation'
  BY Zenon DEF IInv, Types, Flags, Sizes, NoTruncation
<1>8. LossIsReported'
  <2>1. ~peerup => ~peershut /\ appsent = 0 /\ peergot = 0
    BY Zenon DEF IInv, Connecting
  <2>2. appgot + 0 = appgot
    BY DEF IInv, Types, Sizes
  <2> QED  BY Zenon, <2>1, <2>2 DEF LossIsReported
<1> QED  BY Zenon, <1>1, <1>2, <1>3, <1>4, <1>5, <1>6, <1>7, <1>8 DEF IInv

\* A forward that is closed in order: both streams have ended and drained.
LEMMA ForwardClosed ==
  ASSUME IInv, fwd = "live", NEW out \in 0..SockBuf, free_forward(FALSE, out),
         state \notin {"NONE", "FREED"},
         state' \in FinQueued, state' = state \/ state' = "LAST_ACK",
         rxclosed', unacked' = 0, UNCHANGED appreset,
         peershut, inq' = 0, appgot = peersent,
         appshut, peergot + out = appsent, peerup,
         stage' \in {"idle", "done"}, stage' = "done" => proxyestab,
         gc' \in 0..IdleTimeout, recv_acked' \in 0..SndBuf, recv_data' \in 0..Wnd,
         Flags',
         UNCHANGED <<proxyestab, sockerr, appsent, appshut, appgot, appeof,
                     peervars>>
  PROVE  IInv'
<1>0. /\ fwd' = "freed" /\ sndq' = 0 /\ rcvq' = 0 /\ phase' = "CLOSED" /\ mask' = {}
      /\ wr' = "fin" /\ outq' = out
  <2>1. FALSE \in BOOLEAN
    OBVIOUS
  <2>2. sndq' = 0 /\ rcvq' = 0
    BY Zenon DEF free_forward
  <2> QED  BY Zenon, <2>1, <2>2, ClosedAs
<1> USE <1>0 DEF peervars
<1>1. Types'
  BY SizesAssumption DEF IInv, Types, Sizes, States, Stages, Phases, FinQueued
<1>2. Counts'
  BY SizesAssumption DEF IInv, Types, Sizes, Counts, Pending, Acked
<1>3. Ends'
  BY Zenon, SizesAssumption DEF IInv, Types, Flags, Sizes, Ends, FinQueued
<1>4. Staging'
  BY Zenon DEF IInv, Types, Flags, Staging, FinQueued
<1>5. Connecting'
  BY Zenon, SizesAssumption DEF IInv, Types, Flags, Sizes, Connecting
<1>6. Wakeups' /\ OutlivedOnlyInTimeWait'
  BY Zenon DEF Wakeups, OutlivedOnlyInTimeWait
<1>7. NoTruncation'
  BY Zenon DEF IInv, Types, Flags, Sizes, NoTruncation
<1>8. LossIsReported'
  BY DEF IInv, Types, Sizes, LossIsReported
<1> QED  BY Zenon, <1>1, <1>2, <1>3, <1>4, <1>5, <1>6, <1>7, <1>8 DEF IInv

-----------------------------------------------------------------------------
(* The events of the proxy socket *)

\* What the loop of tcp_proxy_input() reads fits in lwIP, and it only stops
\* early when lwIP has enough to wait for an ACK.
LEMMA ReadFits ==
  ASSUME IInv, NEW n \in ReadCounts
  PROVE  /\ n \in 0..inq /\ unacked + n \in 0..SndBuf
         /\ Drained(n) => n = inq
         /\ Drained(n) \/ proxyeof \/ unacked + n >= 2
         /\ proxyeof => n = 0
BY SizesAssumption
DEF IInv, Types, Sizes, Flags, Ends, ReadCounts, Full, Drained

\* EPOLLIN on the proxy socket, tcp_proxy_input() to its end, keeps IInv.
LEMMA IoEventIn == IInv /\ tcp_proxy_io_event_in => IInv'
<1> SUFFICES ASSUME IInv, tcp_proxy_io_event_in PROVE IInv'  OBVIOUS
<1> DEFINE next == IF OutReady THEN "evout" ELSE "idle"
<1>1. PICK n \in ReadCounts :
        /\ inq' = inq - n
        /\ gc' = IdleTimeout
        /\ \/ InputAgain(sndq, n, next, ~OutReady)
           \/ InputFailed(sndq, n)
           \/ InputStop(sndq, n, next, ~OutReady)
           \/ InputClose(sndq, n, "idle")
  BY Zenon DEF tcp_proxy_io_event_in, tcp_proxy_input
<1>2. /\ n \in 0..inq /\ unacked + n \in 0..SndBuf
      /\ Drained(n) => n = inq
      /\ Drained(n) \/ proxyeof \/ unacked + n >= 2
      /\ proxyeof => n = 0
  BY Zenon, ReadFits
<1>3. /\ fwd = "live" /\ stage = "idle" /\ state # "FREED"
      /\ phase = "FORWARDING" /\ InReady /\ next \in {"evout", "idle"}
      /\ inq' = inq - n /\ gc' = IdleTimeout
      /\ UNCHANGED <<recv_acked, recv_data, got_fin, got_closed, lwipeof,
                     proxysendeof, sockerr, appsent, appshut, appgot, appeof,
                     peervars, wild>>
  BY Zenon, <1>1 DEF tcp_proxy_io_event_in, Running, recvvars
<1>4. CASE InputAgain(sndq, n, next, ~OutReady)
  <2> USE <1>2, <1>3, <1>4, SizesAssumption
      DEF InputAgain, ReturnOk, EvSet, EvClr, peervars
  <2>1. Flags'
    BY DEF IInv, Types, Flags
  <2>2. Types'
    BY <2>1 DEF IInv, Types, Flags, Sizes, States, Stages
  <2>3. Counts'
    BY DEF IInv, Types, Sizes, Counts, Pending, Acked
  <2>4. Ends'
    BY Zenon DEF IInv, Types, Flags, Sizes, Counts, Acked, Ends, Staging,
           FinQueued
  <2>5. Staging'
    BY Zenon DEF IInv, Types, Flags, Staging
  <2>6. Connecting'
    BY Zenon DEF IInv, Types, Flags, Sizes, Ends, Connecting
  <2>7. Wakeups'
    BY Zenon DEF IInv, Types, Flags, Sizes, Wakeups
  <2>8. NoTruncation' /\ LossIsReported' /\ OutlivedOnlyInTimeWait'
    BY Zenon DEF IInv, Types, Flags, Sizes, NoTruncation, LossIsReported,
           OutlivedOnlyInTimeWait
  <2> QED  BY Zenon, <2>2, <2>3, <2>4, <2>5, <2>6, <2>7, <2>8 DEF IInv
<1>5. CASE InputFailed(sndq, n)
  <2>1. tcp_abort(state) /\ free_forward(TRUE, outq)
    BY Zenon, <1>5 DEF InputFailed, tcp_forward_destroy
  <2>2. ~appreset' => peershut /\ appgot = peersent
    BY Zenon, <1>3, <2>1, AbortReported
  <2>3. Flags'
    BY <1>3, <1>5, <2>1 DEF InputFailed, tcp_abort, peervars, IInv, Types, Flags
  <2>4. /\ state' = "FREED" /\ unacked' = 0 /\ UNCHANGED rxclosed
        /\ stage' = "idle" /\ UNCHANGED <<proxyestab, proxyeof>>
    BY Zenon, <1>5, <2>1 DEF InputFailed, tcp_abort
  <2>5. /\ gc' \in 0..IdleTimeout /\ inq' \in 0..inq
        /\ recv_acked' \in 0..SndBuf /\ recv_data' \in 0..Wnd
        /\ lwipeof' => appshut
    BY <1>2, <1>3, SizesAssumption DEF IInv, Types, Sizes, Ends
  <2> QED  BY Zenon, <1>3, <2>1, <2>2, <2>3, <2>4, <2>5, ForwardReset
<1>6. CASE InputStop(sndq, n, next, ~OutReady)
  <2> USE <1>2, <1>3, <1>6, SizesAssumption
      DEF InputStop, ProxyEof, SndEof, RcvEof, ReturnOk, EvSet, EvClr, peervars
  <2>1. Flags'
    BY DEF IInv, Types, Flags, Drained
  <2>2. Types'
    BY <2>1 DEF IInv, Types, Flags, Sizes, States, Stages, tcp_close_shutdown_fin
  <2>3. Counts'
    BY DEF IInv, Types, Sizes, Counts, Pending, Acked
  <2>4. Ends'
    BY DEF IInv, Types, Flags, Sizes, Counts, Acked, Ends, Staging,
           FinQueued, States, tcp_close_shutdown_fin
  <2>5. Staging'
    BY Zenon DEF IInv, Types, Flags, Staging, tcp_close_shutdown_fin
  <2>6. Connecting'
    BY DEF IInv, Types, Flags, Sizes, Ends, Connecting
  <2>7. Wakeups'
    BY DEF IInv, Types, Flags, Sizes, Wakeups, tcp_close_shutdown_fin
  <2>8. NoTruncation' /\ LossIsReported' /\ OutlivedOnlyInTimeWait'
    BY Zenon DEF IInv, Types, Flags, Sizes, NoTruncation, LossIsReported,
           OutlivedOnlyInTimeWait, tcp_close_shutdown_fin
  <2> QED  BY Zenon, <2>2, <2>3, <2>4, <2>5, <2>6, <2>7, <2>8 DEF IInv
<1>7. CASE InputClose(sndq, n, "idle")
  <2> DEFINE st == tcp_close_shutdown_fin(state)
  <2>1. tcp_close(st) /\ free_forward(FALSE, outq)
    BY Zenon, <1>7 DEF InputClose, RcvEof, tcp_forward_destroy
  <2>2. /\ n = 0 /\ inq = 0 /\ peershut /\ unacked = 0 /\ sndq = 0
        /\ lwipeof /\ appshut /\ rcvq = 0
    BY <1>2, <1>3, <1>7
    DEF InputClose, SndEof, RcvEof, ProxyEof, IInv, Types, Flags, Sizes, Counts,
        Acked, Ends
  <2>3. /\ state' \in FinQueued /\ (state' = state \/ state' = "LAST_ACK")
        /\ rxclosed' /\ unacked' = 0 /\ UNCHANGED appreset
    BY Zenon, <1>3, <2>1, <2>2
    DEF tcp_close, tcp_close_shutdown_fin, FinQueued, IInv, Types, States, Staging,
        Ends
  <2>4. appgot = peersent /\ peergot + outq = appsent /\ peerup
    BY <1>3, <2>2 DEF IInv, Types, Flags, Sizes, Counts, Pending, Connecting
  <2>5. Flags'
    BY <1>3, <1>7, <2>3 DEF InputClose, peervars, IInv, Types, Flags
  <2>6. /\ stage' = "idle" /\ UNCHANGED proxyestab /\ state # "NONE"
        /\ gc' \in 0..IdleTimeout /\ inq' = 0 /\ outq \in 0..SockBuf
        /\ recv_acked' \in 0..SndBuf /\ recv_data' \in 0..Wnd
    BY <1>2, <1>3, <1>7, <2>2, SizesAssumption
    DEF InputClose, IInv, Types, Sizes, Staging
  <2> QED  BY Zenon, <1>3, <2>1, <2>2, <2>3, <2>4, <2>5, <2>6, ForwardClosed
<1> QED  BY Zenon, <1>1, <1>4, <1>5, <1>6, <1>7

\* tcp_proxy_output(), with the bytes and the EOF its caller has just added.
LEMMA ProxyOutput ==
  ASSUME IInv, fwd = "live", stage # "sent", state \notin {"FREED", "NONE"},
         phase = "FORWARDING", peerup,
         NEW q, NEW eof \in BOOLEAN, NEW next \in {"idle", "fin", "done"},
         NEW estab \in BOOLEAN,
         q = rcvq + Pending, estab \/ proxyestab,
         next # "idle" => proxyestab /\ state # "SYN_RCVD",
         next = "fin" => got_fin' /\ recv_data' = 0 /\ ~eof /\ appshut,
         next # "fin" => (appshut => eof),
         eof => appshut, lwipeof => eof, lwipeof' = eof,
         tcp_proxy_output(q, eof, next, estab),
         recv_data' \in 0..Wnd, got_fin' \in BOOLEAN,
         UNCHANGED <<recv_acked, got_closed, proxyeof, inq, sockerr, appsent,
                     appshut, appgot, appeof, peervars, wild>>
  PROVE  IInv'
<1>0. /\ q \in 0..Wnd /\ gc' = IdleTimeout
      /\ Sent(q) \in 0..q /\ outq + Sent(q) \in 0..SockBuf
      /\ proxysendeof \in BOOLEAN
  BY SizesAssumption
  DEF tcp_proxy_output, IInv, Types, Flags, Sizes, Counts, Pending, Sent
<1>1. CASE OutputFailed(q, eof)
  <2>1. tcp_abort(state) /\ free_forward(TRUE, outq)
    BY Zenon, <1>1 DEF OutputFailed, tcp_forward_destroy
  <2>2. ~appreset' => peershut /\ appgot = peersent
    BY Zenon, <2>1, AbortReported
  <2>3. Flags'
    BY ZenonT(60), <1>1, <2>1 DEF OutputFailed, tcp_abort, peervars, IInv, Types, Flags
  <2>4. /\ state' = "FREED" /\ unacked' = 0 /\ UNCHANGED rxclosed
        /\ stage' = "idle" /\ UNCHANGED <<proxyestab, proxyeof>>
    BY Zenon, <1>1, <2>1 DEF OutputFailed, tcp_abort
  <2>5. /\ gc' \in 0..IdleTimeout /\ inq' \in 0..inq
        /\ recv_acked' \in 0..SndBuf /\ recv_data' \in 0..Wnd
        /\ lwipeof' => appshut
    BY <1>0, SizesAssumption DEF IInv, Types, Sizes
  <2>6. UNCHANGED <<proxyestab, sockerr, appsent, appshut, appgot, appeof, peervars>>
    BY Zenon, <2>4
  <2> QED  BY Zenon, <2>1, <2>2, <2>3, <2>4, <2>5, <2>6, ForwardReset
<1>2. CASE OutputAgain(q, eof, next, estab)
  <2> USE <1>0, <1>2, SizesAssumption DEF OutputAgain, ReturnOk, EvSet, EvClr, peervars
  <2>1. Flags'
    BY SMTT(60) DEF IInv, Types, Flags
  <2>2. Types'
    BY SMTT(60), <2>1 DEF IInv, Types, Flags, Sizes, States, Stages
  <2>3. Counts'
    <3>1. /\ rcvq' + Pending' + outq' = rcvq + Pending + outq
          /\ rcvq' + Pending' <= Wnd
      <4>1. Pending' = 0 /\ Pending \in Nat
        BY DEF IInv, Types, Sizes, Pending
      <4>2. rcvq \in Nat /\ outq \in Nat /\ q \in 0..Wnd /\ q = rcvq + Pending
        BY DEF IInv, Types, Sizes
      <4>3. \/ rcvq' = q - Sent(q) /\ outq' = outq + Sent(q)
            \/ rcvq' = 0 /\ outq' = outq + q
        OBVIOUS
      <4> QED  BY ONLY SMTT(60), <1>0, <4>1, <4>2, <4>3, SizesAssumption
    <3>2. UNCHANGED <<state, fwd, unacked, sndq>> /\ stage' # "sent"
      BY Zenon
    <3> QED  BY Zenon, <3>1, <3>2 DEF IInv, Types, Sizes, Counts, Acked, Pending
  <2>4. Ends'
    <3>1. ~proxysendeof /\ rcvq' # 0
      BY DEF IInv, Types, Sizes, Ends, Staging, Pending
    <3> QED  BY Zenon, <3>1 DEF IInv, Types, Flags, Ends, Staging, FinQueued
  <2>5. Staging'
    BY Zenon DEF IInv, Types, Flags, Staging
  <2>6. Connecting'
    BY Zenon DEF IInv, Types, Flags, Sizes, Connecting
  <2>7. Wakeups'
    BY Zenon DEF IInv, Types, Flags, Sizes, Wakeups
  <2>8. NoTruncation'
    <3>1. wr # "fin"
      BY DEF IInv, Types, Sizes, Counts, NoTruncation, Pending
    <3> QED  BY Zenon, <3>1 DEF IInv, NoTruncation
  <2>9. LossIsReported' /\ OutlivedOnlyInTimeWait'
    BY Zenon DEF LossIsReported, OutlivedOnlyInTimeWait
  <2> QED  BY Zenon, <2>2, <2>3, <2>4, <2>5, <2>6, <2>7, <2>8, <2>9 DEF IInv
<1>3. CASE OutputDrained(q, eof, next, estab)
  <2> USE <1>0, <1>3, SizesAssumption DEF OutputDrained, HalfClose, SndEof, ReturnOk, EvSet, EvClr, peervars
  <2>1. Flags'
    BY SMTT(60) DEF IInv, Types, Flags
  <2>2. Types'
    BY SMTT(60), <2>1 DEF IInv, Types, Flags, Sizes, States, Stages
  <2>3. Counts'
    <3>1. /\ rcvq' + Pending' + outq' = rcvq + Pending + outq
          /\ rcvq' + Pending' <= Wnd
      <4>1. Pending' = 0 /\ Pending \in Nat
        BY DEF IInv, Types, Sizes, Pending
      <4>2. rcvq \in Nat /\ outq \in Nat /\ q \in 0..Wnd /\ q = rcvq + Pending
        BY DEF IInv, Types, Sizes
      <4>3. \/ rcvq' = q - Sent(q) /\ outq' = outq + Sent(q)
            \/ rcvq' = 0 /\ outq' = outq + q
        OBVIOUS
      <4> QED  BY ONLY <1>0, <4>1, <4>2, <4>3, SizesAssumption
    <3>2. UNCHANGED <<state, fwd, unacked, sndq>> /\ stage' # "sent"
      BY Zenon
    <3> QED  BY Zenon, <3>1, <3>2 DEF IInv, Types, Sizes, Counts, Acked, Pending
  <2>4. Ends'
    <3>1. proxysendeof => eof /\ ~(proxyeof /\ sndq = 0)
      BY Zenon DEF IInv, Ends
    <3> QED  BY Zenon, <3>1 DEF IInv, Ends, FinQueued
  <2>5. Staging'
    BY Zenon DEF IInv, Types, Flags, Staging
  <2>6. Connecting'
    BY Zenon DEF IInv, Types, Flags, Sizes, Connecting
  <2>7. Wakeups'
    BY SMTT(60) DEF IInv, Types, Flags, Sizes, Wakeups
  <2>8. NoTruncation'
    <3>1. peergot + outq' = appsent
      BY DEF IInv, Types, Sizes, Counts, Pending
    <3>2. wr' = "fin" => appshut
      BY Zenon DEF IInv, NoTruncation
    <3> QED  BY Zenon, <3>1, <3>2 DEF IInv, NoTruncation
  <2>9. LossIsReported' /\ OutlivedOnlyInTimeWait'
    BY Zenon DEF LossIsReported, OutlivedOnlyInTimeWait
  <2> QED  BY Zenon, <2>2, <2>3, <2>4, <2>5, <2>6, <2>7, <2>8, <2>9 DEF IInv
<1>4. CASE OutputClose(q, eof, next)
  <2>1. tcp_close(state) /\ free_forward(FALSE, outq + q)
    BY Zenon, <1>4 DEF OutputClose, SndEof, tcp_forward_destroy
  <2>2. /\ eof /\ appshut /\ next # "fin" /\ proxyeof /\ sndq = 0
        /\ peershut /\ inq = 0 /\ unacked = 0 /\ outq + q \in 0..SockBuf
    BY Zenon, <1>0, <1>4
    DEF OutputClose, HalfClose, SndEof, IInv, Types, Sizes, Counts, Acked, Ends
  <2>3. /\ state \in FinQueued /\ state' = state
        /\ rxclosed' /\ unacked' = 0 /\ UNCHANGED appreset
    BY Zenon, <2>1, <2>2 DEF tcp_close, tcp_close_shutdown_fin, FinQueued, IInv, Ends
  <2>4. appgot = peersent /\ peergot + (outq + q) = appsent
    BY SMTT(60), <2>2 DEF IInv, Types, Sizes, Counts
  <2>5. Flags'
    BY ZenonT(60), <1>4, <2>3 DEF OutputClose, peervars, IInv, Types, Flags
  <2>6. /\ stage' \in {"idle", "done"} /\ stage' = next /\ UNCHANGED proxyestab
        /\ gc' \in 0..IdleTimeout /\ inq' = 0
        /\ recv_acked' \in 0..SndBuf
    BY <1>0, <1>4, <2>2, SizesAssumption DEF OutputClose, IInv, Types, Sizes
  <2>7. UNCHANGED <<proxyestab, sockerr, appsent, appshut, appgot, appeof, peervars>>
    BY Zenon, <2>6
  <2> QED  BY Zenon, <2>1, <2>2, <2>3, <2>4, <2>5, <2>6, <2>7, ForwardClosed
<1> QED  BY Zenon, <1>1, <1>2, <1>3, <1>4 DEF tcp_proxy_output

\* EPOLLOUT on the proxy socket keeps IInv.
LEMMA IoEventOut == IInv /\ tcp_proxy_io_event_out => IInv'
<1> SUFFICES ASSUME IInv, tcp_proxy_io_event_out PROVE IInv'  OBVIOUS
<1>1. /\ fwd = "live" /\ stage \in {"idle", "evout"} /\ state \notin {"FREED", "NONE"}
      /\ phase = "FORWARDING"
      /\ tcp_proxy_output(rcvq, lwipeof, "idle", TRUE)
      /\ UNCHANGED <<recv_acked, recv_data, got_fin, got_closed, proxyeof, lwipeof,
                     inq, sockerr, appsent, appshut, appgot, appeof, peervars, wild>>
  BY Zenon DEF tcp_proxy_io_event_out, recvvars, IInv, Staging
<1>2. peerup
  BY Zenon DEF tcp_proxy_io_event_out, InReady, IInv, Types, Flags, Connecting
<1>3. /\ rcvq = rcvq + Pending /\ lwipeof \in BOOLEAN
      /\ (appshut => lwipeof) /\ (lwipeof => appshut)
      /\ recv_data' \in 0..Wnd /\ got_fin' \in BOOLEAN
  BY <1>1 DEF Pending, IInv, Types, Flags, Sizes, Ends
<1> QED  BY Zenon, <1>1, <1>2, <1>3, ProxyOutput

-----------------------------------------------------------------------------
(* tcp_input *)

\* A segment of the application, tcp_process() up to the callbacks.
LEMMA SegmentIn == IInv /\ Segment => IInv'
<1> SUFFICES ASSUME IInv, NEW d \in 0..(Wnd - rcvq), NEW f \in BOOLEAN,
                    NEW a \in Ackable, NEW af \in BOOLEAN, tcp_process(d, f, a, af)
             PROVE  IInv'
  BY Zenon DEF Segment
<1>1. /\ stage = "idle" /\ Active /\ proxyestab /\ state \in States
      /\ appshut => d = 0 /\ ~f
      /\ af => state \in {"FIN_WAIT_1", "CLOSING", "LAST_ACK"} /\ a = unacked
      /\ d > 0 \/ f \/ a > 0 \/ af \/ state = "SYN_RCVD"
      /\ a \in 0..unacked /\ d \in 0..Wnd
      /\ unacked \in 0..SndBuf /\ SndBuf \in Nat /\ Wnd \in Nat
  BY SizesAssumption DEF tcp_process, IInv, Types, Sizes, Ackable
<1>2. /\ state' = tcp_process_state(f, af) /\ unacked' = unacked - a
      /\ recv_acked' = AckedBytes(a) /\ recv_data' = d /\ got_fin' = f
      /\ got_closed' = (af /\ state = "LAST_ACK")
      /\ stage' = (IF recv_acked' > 0 THEN "sent"
                   ELSE AfterSent(got_closed', recv_data', got_fin'))
      /\ appsent' = appsent + d /\ appshut' = (appshut \/ f)
      /\ appgot' = appgot + a /\ appeof' = (appeof \/ af)
      /\ UNCHANGED <<proxyestab, rxclosed, appreset, wild>>
      /\ UNCHANGED <<fwd, sndq, rcvq, gc, proxyeof, lwipeof, proxysendeof>>
      /\ UNCHANGED <<phase, mask, inq, outq, sockerr, wr>>
      /\ UNCHANGED <<peerup, peersent, peershut, peergot, peereof>>
  BY Zenon DEF tcp_process, fwdvars, sockvars, peervars
<1>3. recv_acked' \in 0..a /\ (state \in FinQueued => a = 0)
  BY <1>1, <1>2 DEF AckedBytes, IInv, Ends, FinQueued
<1>4. fwd # "live" => /\ fwd = "freed" /\ appshut /\ d = 0 /\ ~f /\ a = 0
                      /\ af /\ state \in {"CLOSING", "LAST_ACK"}
  BY <1>1 DEF IInv, Types, Counts, Staging, Ends, Active
<1>5. stage' \in Stages /\ stage' \notin {"idle", "evout"}
  BY Zenon, <1>2 DEF AfterSent, Stages
<1>6. Flags'
  BY ZenonT(60), <1>2 DEF IInv, Types, Flags
<1>7. Types'
  <2>1. state' \in States
    BY Zenon, <1>1, <1>2 DEF tcp_process_state, States
  <2>2. Sizes'
    BY <1>1, <1>2, <1>3 DEF IInv, Types, Sizes
  <2> QED  BY Zenon, <1>2, <1>5, <1>6, <2>1, <2>2 DEF IInv, Types
<1>8. state' \notin {"FREED", "NONE", "SYN_RCVD"}
  BY Zenon, <1>1, <1>2 DEF tcp_process_state, States, Active
<1>9. /\ got_closed' => stage' = "closed" /\ state = "LAST_ACK" /\ af
      /\ stage' = "sent" <=> recv_acked' > 0
      /\ stage' = "recv" => d > 0
      /\ stage' = "fin" => f
      /\ stage' = "closed" => got_closed'
      /\ d > 0 => stage' \in {"sent", "recv", "closed"}
      /\ f => stage' \in {"sent", "recv", "fin", "closed"}
  <2>1. got_closed' => state = "LAST_ACK" /\ af /\ recv_acked' = 0
    <3>1. got_closed' => state = "LAST_ACK" /\ af
      BY Zenon, <1>2
    <3>2. state = "LAST_ACK" => recv_acked' = 0
      BY <1>3 DEF FinQueued
    <3> QED  BY Zenon, <3>1, <3>2
  <2>2. stage' = "sent" <=> recv_acked' > 0
    BY Zenon, <1>2 DEF AfterSent
  <2>3. ~(recv_acked' > 0) => stage' = AfterSent(got_closed', d, f)
    BY Zenon, <1>2
  <2>4. recv_acked' = 0 => ~(recv_acked' > 0)
    OBVIOUS
  <2>5. CASE recv_acked' > 0
    BY Zenon, <2>1, <2>2, <2>4, <2>5
  <2>6. CASE ~(recv_acked' > 0)
    BY Zenon, <2>1, <2>2, <2>3, <2>6 DEF AfterSent
  <2> QED  BY Zenon, <2>5, <2>6
<1>10. Counts'
  <2>1. Pending' = d /\ Acked' = recv_acked' /\ Pending = 0 /\ Acked = 0
    <3>1. got_closed' => d = 0
      BY ZenonT(60), <1>1, <1>2 DEF IInv, Ends, Active
    <3> QED  BY <1>1, <1>2, <1>3, <1>9, <3>1 DEF Pending, Acked
  <2> QED
    BY <1>1, <1>2, <1>3, <1>4, <2>1 DEF IInv, Types, Sizes, Counts, Active
<1>11. Ends'
  <2>1. /\ state' \in FinQueued <=> state \in FinQueued
        /\ appshut' <=> state' \in {"CLOSE_WAIT", "CLOSING", "LAST_ACK", "TIME_WAIT"}
        /\ state' \in {"FIN_WAIT_2", "TIME_WAIT"} => appeof'
    BY Zenon, <1>1, <1>2 DEF tcp_process_state, FinQueued, States, Active, IInv, Types,
                      Flags, Ends
  <2>2. state' \in FinQueued => unacked' = 0
    BY <1>1, <1>2, <1>3, <2>1 DEF IInv, Ends
  <2>3. fwd = "live" /\ appshut' /\ stage' \in {"idle", "evout", "done"} => lwipeof
    BY Zenon, <1>1, <1>2, <1>5, <1>9 DEF IInv, Types, Flags, Ends
  <2> QED  BY Zenon, <1>1, <1>2, <1>8, <2>1, <2>2, <2>3 DEF IInv, Types, Flags, Ends, Active
<1>12. Staging'
  BY <1>1, <1>2, <1>4, <1>5, <1>8, <1>9, <1>3
  DEF IInv, Types, Flags, Sizes, Ends, Staging, Active, tcp_process_state
<1>13. Connecting'
  BY Zenon, <1>1, <1>2 DEF IInv, Types, Flags, Connecting
<1>14. Wakeups'
  BY SMTT(60), <1>1, <1>2, <1>3, <1>8, <1>9 DEF IInv, Types, Sizes, Wakeups, AckedBytes
<1>15. NoTruncation'
  <2>1. af => peershut /\ inq = 0 /\ unacked = 0 /\ a = 0
    BY Zenon, <1>1, <1>3 DEF IInv, Ends, FinQueued
  <2>2. appeof => a = 0
    BY <1>1 DEF IInv, Types, Sizes, Counts, NoTruncation, Active
  <2>3. peerup /\ wr = "fin" => d = 0
    BY Zenon, <1>1 DEF IInv, NoTruncation
  <2> QED
    BY <1>1, <1>2, <2>1, <2>2, <2>3
    DEF IInv, Types, Flags, Sizes, Counts, NoTruncation, Active
<1>16. LossIsReported' /\ OutlivedOnlyInTimeWait'
  BY <1>1, <1>2, <1>4, <1>8
  DEF IInv, Types, Sizes, LossIsReported, OutlivedOnlyInTimeWait
<1> QED  BY Zenon, <1>7, <1>10, <1>11, <1>12, <1>13, <1>14, <1>15, <1>16 DEF IInv

\* The recv callback with data keeps IInv.
LEMMA LwipReceived == IInv /\ tcp_lwip_received => IInv'
<1> SUFFICES ASSUME IInv, tcp_lwip_received PROVE IInv'  OBVIOUS
<1> DEFINE next == IF got_fin THEN "fin" ELSE "done"
<1>1. /\ stage = "recv" /\ recv_data' = 0
      /\ tcp_proxy_output(rcvq + recv_data, lwipeof, next, FALSE)
      /\ UNCHANGED <<recv_acked, got_fin, got_closed, proxyeof, lwipeof, inq, sockerr,
                     appsent, appshut, appgot, appeof, peervars, wild>>
  BY ZenonT(60) DEF tcp_lwip_received
<1>2. /\ fwd = "live" /\ state \notin {"FREED", "NONE", "SYN_RCVD"} /\ proxyestab
      /\ peerup /\ phase = "FORWARDING" /\ ~lwipeof
      /\ got_fin <=> appshut
  BY Zenon, <1>1 DEF IInv, Types, Flags, Sizes, Staging, Connecting
<1>3. /\ rcvq + recv_data = rcvq + Pending /\ next \in {"fin", "done"}
      /\ recv_data' \in 0..Wnd /\ got_fin' \in BOOLEAN /\ lwipeof \in BOOLEAN
  BY <1>1, SizesAssumption DEF Pending, IInv, Types, Flags
<1>4. next = "fin" => got_fin' /\ recv_data' = 0 /\ ~lwipeof /\ appshut
  BY Zenon, <1>1, <1>2
<1>5. next # "fin" => (appshut => lwipeof)
  BY Zenon, <1>1, <1>2
<1> QED  BY Zenon, <1>1, <1>2, <1>3, <1>4, <1>5, ProxyOutput

\* The recv callback with the end of the stream keeps IInv.
LEMMA LwipReceivedEof == IInv /\ tcp_lwip_received_eof => IInv'
<1> SUFFICES ASSUME IInv, tcp_lwip_received_eof PROVE IInv'  OBVIOUS
<1>1. /\ stage = "fin" /\ lwipeof' = TRUE /\ got_fin' = FALSE
      /\ tcp_proxy_output(rcvq, TRUE, "done", FALSE)
      /\ UNCHANGED <<recv_acked, recv_data, got_closed, proxyeof, inq, sockerr,
                     appsent, appshut, appgot, appeof, peervars, wild>>
  BY Zenon DEF tcp_lwip_received_eof
<1>2. /\ fwd = "live" /\ state \notin {"FREED", "NONE", "SYN_RCVD"} /\ proxyestab
      /\ peerup /\ phase = "FORWARDING" /\ appshut
  BY Zenon, <1>1 DEF IInv, Types, Flags, Sizes, Staging, Connecting
<1>3. /\ rcvq = rcvq + Pending /\ recv_data' \in 0..Wnd
  BY <1>1 DEF Pending, IInv, Types, Sizes
<1>4. got_fin' \in BOOLEAN
  BY Zenon, <1>1
<1> QED  BY Zenon, <1>1, <1>2, <1>3, <1>4, ProxyOutput

\* The end of tcp_input() keeps IInv.
LEMMA TcpInputDone == IInv /\ tcp_input_done => IInv'
<1> SUFFICES ASSUME IInv, tcp_input_done PROVE IInv'  OBVIOUS
<1>1. /\ stage = "done" /\ stage' = "idle"
      /\ UNCHANGED <<state, proxyestab, rxclosed, unacked, recv_acked, recv_data,
           got_fin, got_closed, fwd, sndq, rcvq, gc, proxyeof, lwipeof,
           proxysendeof, phase, mask, inq, outq, sockerr, wr, appsent, appshut,
           appgot, appeof, appreset, peerup, peersent, peershut, peergot, peereof,
           wild>>
  BY Zenon DEF tcp_input_done, pcbvars, recvvars, fwdvars, sockvars, appvars,
       peervars
<1>2. Types'
  BY <1>1 DEF IInv, Types, Flags, Sizes, Stages
<1>3. Counts' /\ Ends'
  BY Zenon, <1>1 DEF IInv, Counts, Ends, Pending, Acked
<1>4. Staging' /\ Connecting'
  BY Zenon, <1>1 DEF IInv, Staging, Connecting
<1>5. Wakeups'
  BY Zenon, <1>1 DEF IInv, Wakeups
<1>6. NoTruncation' /\ LossIsReported' /\ OutlivedOnlyInTimeWait'
  BY Zenon, <1>1 DEF IInv, NoTruncation, LossIsReported, OutlivedOnlyInTimeWait
<1> QED  BY Zenon, <1>2, <1>3, <1>4, <1>5, <1>6 DEF IInv

-----------------------------------------------------------------------------
(* Control blocks that are released *)

\* lwIP frees a control block that is not in TIME_WAIT and calls tcp_lwip_err().
LEMMA PcbFree ==
  ASSUME IInv, NEW failed \in BOOLEAN, NEW notify \in BOOLEAN,
         notify \/ fwd # "live",
         tcp_pcb_free(notify, failed), state \notin {"NONE", "FREED"},
         failed \/ state = "LAST_ACK", stage' = "idle"
  PROVE  IInv'
<1>1. /\ state' = "FREED" /\ unacked' = 0 /\ UNCHANGED rxclosed
      /\ UNCHANGED <<recv_acked, recv_data, got_fin, got_closed, gc, proxyeof,
                     lwipeof, proxysendeof, inq, wild, proxyestab, sockerr, appsent,
                     appshut, appgot, appeof, peervars>>
  BY Zenon DEF tcp_pcb_free, recvvars
<1>2. ~appreset' => peershut /\ appgot = peersent
  <2>1. ~appreset' => state = "LAST_ACK"
    BY Zenon DEF tcp_pcb_free
  <2>2. state = "LAST_ACK" => peershut /\ appgot = peersent
    BY DEF IInv, Types, Sizes, Counts, Ends, FinQueued
  <2> QED  BY Zenon, <2>1, <2>2
<1>3. Flags'
  BY SMTT(60), <1>1 DEF tcp_pcb_free, peervars, IInv, Types, Flags
<1>4. CASE fwd = "live"
  <2>1. free_forward(TRUE, outq)
    BY Zenon, <1>4 DEF tcp_pcb_free
  <2>2. /\ gc' \in 0..IdleTimeout /\ inq' \in 0..inq
        /\ recv_acked' \in 0..SndBuf /\ recv_data' \in 0..Wnd
        /\ lwipeof' => appshut
    BY <1>1, SizesAssumption DEF IInv, Types, Sizes, Ends
  <2>3. UNCHANGED <<proxyestab, sockerr, appsent, appshut, appgot, appeof, peervars>>
    BY Zenon, <1>1
  <2> QED  BY Zenon, <1>1, <1>2, <1>3, <1>4, <2>1, <2>2, <2>3, ForwardReset
<1>5. CASE fwd # "live"
  <2>1. UNCHANGED <<fwd, sndq, rcvq, phase, mask, outq, wr>>
    BY Zenon, <1>5 DEF tcp_pcb_free
  <2> USE <1>1, <1>2, <1>3, <1>5, <2>1, SizesAssumption DEF peervars
  <2>2. Types'
    BY SMTT(60) DEF IInv, Types, Sizes, States, Stages, Phases
  <2>3. Counts' /\ Wakeups' /\ OutlivedOnlyInTimeWait'
    <3>1. fwd' = fwd /\ outq' = outq /\ appsent' = appsent /\ peergot' = peergot
      OBVIOUS
    <3>2. state' = "FREED" /\ unacked' = 0 /\ Counts
      BY Zenon DEF IInv
    <3> QED  BY ONLY Zenon, <1>5, <3>1, <3>2 DEF Counts, Wakeups, OutlivedOnlyInTimeWait
  <2>4. Ends'
    BY Zenon DEF IInv, Types, Flags, Ends, FinQueued
  <2>5. Staging'
    BY ZenonT(60) DEF IInv, Types, Flags, Staging
  <2>6. Connecting'
    BY Zenon DEF IInv, Types, Flags, Sizes, Connecting
  <2>7. NoTruncation' /\ LossIsReported'
    <3>1. NoTruncation /\ LossIsReported /\ (fwd = "freed" => unacked = 0)
      BY Zenon DEF IInv, Counts
    <3>2. appgot + 0 = appgot
      BY DEF IInv, Types, Sizes
    <3>3. UNCHANGED <<appshut, appeof, appsent, appgot, peershut, peersent, peerup, peergot>>
      BY Zenon
    <3>4. unacked' = 0 /\ UNCHANGED <<fwd, outq, wr>> /\ (appreset => appreset')
      BY Zenon DEF tcp_pcb_free
    <3> QED  BY ONLY Zenon, <1>2, <3>1, <3>2, <3>3, <3>4 DEF NoTruncation, LossIsReported
  <2> QED  BY Zenon, <2>2, <2>3, <2>4, <2>5, <2>6, <2>7 DEF IInv
<1> QED  BY Zenon, <1>4, <1>5

\* tcp_input_delayed_close(): the forward, if it is live, is told.
LEMMA DelayedClose == IInv /\ tcp_input_delayed_close => IInv'
<1> SUFFICES ASSUME IInv, tcp_input_delayed_close PROVE IInv'  OBVIOUS
<1>1. stage = "closed" /\ stage' = "idle" /\ tcp_pcb_free(~rxclosed, FALSE)
  BY Zenon DEF tcp_input_delayed_close
<1>2. state = "LAST_ACK" /\ (~rxclosed \/ fwd # "live")
  BY Zenon, <1>1 DEF IInv, Staging
<1> QED  BY Zenon, <1>1, <1>2, PcbFree

\* A RST of the application: the forward is told.
LEMMA TcpInputReset == IInv /\ tcp_input_reset => IInv'
BY Zenon, PcbFree DEF tcp_input_reset, Active

\* tcp_slowtmr() gives up on an active control block: the forward is told.
LEMMA SlowtmrActive == IInv /\ tcp_slowtmr_active => IInv'
BY Zenon, PcbFree DEF tcp_slowtmr_active, TimedOut, Active

\* TIME_WAIT is over: a live forward is not told, and has both EOFs.
LEMMA SlowtmrTimewait == IInv /\ tcp_slowtmr_timewait => IInv'
<1> SUFFICES ASSUME IInv, tcp_slowtmr_timewait PROVE IInv'  OBVIOUS
<1>1. /\ stage = "idle" /\ state = "TIME_WAIT" /\ state' = "FREED" /\ unacked' = 0
      /\ UNCHANGED <<rxclosed, recv_acked, recv_data, got_fin, got_closed, gc,
                     proxyeof, lwipeof, proxysendeof, inq, wild, proxyestab, sockerr,
                     appsent, appshut, appgot, appeof, peervars, stage>>
      /\ UNCHANGED <<fwd, sndq, rcvq, phase, mask, outq, wr>>
  BY Zenon DEF tcp_slowtmr_timewait, tcp_pcb_free, recvvars
<1>2. appreset' = (appreset \/ FALSE)
  BY Zenon DEF tcp_slowtmr_timewait, tcp_pcb_free
<1> USE <1>1, <1>2, SizesAssumption DEF peervars
<1>3. Flags'
  BY SMTT(60) DEF IInv, Types, Flags
<1>4. Types'
  BY SMTT(60), <1>3 DEF IInv, Types, Sizes, States, Stages, Phases
<1>5. Counts'
  <2>1. unacked = 0  BY Zenon DEF IInv, Ends, FinQueued
  <2>2. Pending' = Pending /\ Acked' = Acked  BY Zenon DEF Pending, Acked
  <2> QED  BY Zenon, <2>1, <2>2 DEF IInv, Counts
<1>6. Ends'
  BY ZenonT(60) DEF IInv, Types, Flags, Ends, FinQueued
<1>7. Staging' /\ Connecting'
  BY ZenonT(60) DEF IInv, Types, Flags, Staging, Connecting
<1>8. Wakeups'
  BY Zenon DEF IInv, Types, Flags, Sizes, Wakeups, Ends, FinQueued
<1>9. NoTruncation'
  BY Zenon DEF IInv, NoTruncation
<1>10. LossIsReported'
  <2>1. unacked = 0  BY Zenon DEF IInv, Ends, FinQueued
  <2> QED  BY Zenon, <2>1 DEF IInv, LossIsReported
<1>11. OutlivedOnlyInTimeWait'
  <2>1. fwd = "live" => proxyeof /\ sndq = 0 /\ appeof /\ lwipeof
    BY Zenon DEF IInv, Ends, FinQueued
  <2>2. fwd = "live" => rcvq # 0
    BY Zenon, <2>1 DEF IInv, Ends
  <2>3. rcvq \in Nat
    BY DEF IInv, Types, Sizes
  <2> QED  BY <2>1, <2>2, <2>3 DEF OutlivedOnlyInTimeWait
<1> QED  BY Zenon, <1>4, <1>5, <1>6, <1>7, <1>8, <1>9, <1>10, <1>11 DEF IInv
=============================================================================
