-------------------------- MODULE TcpForwardProofs --------------------------
(***************************************************************************)
(* The safety properties of TcpForward, and that both directions implement *)
(* Stream, for all sizes of buffers, windows and segments.                 *)
(***************************************************************************)
EXTENDS TcpInputProofs

-----------------------------------------------------------------------------
(* lwIP's sent callback *)

\* The sent callback, tcp_proxy_input() included, keeps IInv.
LEMMA LwipSent == IInv /\ tcp_lwip_sent => IInv'
<1> SUFFICES ASSUME IInv, tcp_lwip_sent PROVE IInv'  BY Zenon
<1> DEFINE len  == IF recv_acked <= SentMax THEN recv_acked ELSE SentMax
           rest == recv_acked - len
           next == IF recv_acked > len THEN "sent"
                   ELSE AfterSent(got_closed, recv_data, got_fin)
           q    == sndq - len
<1>1. /\ fwd = "live" /\ stage = "sent" /\ state \notin {"FREED", "NONE", "SYN_RCVD"}
      /\ phase = "FORWARDING" /\ proxyestab /\ peerup
      /\ recv_acked' = rest /\ rest \in 0..SndBuf
      /\ q \in Nat /\ q >= unacked + rest /\ rest <= recv_acked
      /\ next = "sent" => rest > 0
      /\ next # "sent" => rest = 0
      /\ next \in {"sent", "recv", "fin", "done"}
      /\ UNCHANGED <<recv_data, got_fin, got_closed, lwipeof, proxysendeof, sockerr,
                     appsent, appshut, appgot, appeof, peervars, wild>>
  BY SizesAssumption
  DEF tcp_lwip_sent, AfterSent, IInv, Types, Flags, Sizes, Counts, Acked, Staging,
      Connecting
<1> HIDE DEF len, rest, q
<1>2. CASE ~RoomForMore
  <2>1. /\ sndq' = q /\ stage' = next
        /\ UNCHANGED <<pcbvars, fwd, rcvq, gc, proxyeof, phase, mask, inq, outq, wr,
                       appreset>>
    BY Zenon, <1>2 DEF tcp_lwip_sent, len, q
  <2>2. unacked > 0
    BY <1>2, SizesAssumption DEF RoomForMore, IInv, Types, Sizes
  <2> USE <1>1, <2>1, <2>2, SizesAssumption
      DEF pcbvars, peervars, AfterSent
  <2>3. Flags'
    BY SMTT(60) DEF IInv, Types, Flags
  <2>4. Types'
    BY Zenon, <2>3 DEF IInv, Types, Flags, Sizes, States, Stages
  <2>5. Counts'
    BY SMTT(60) DEF IInv, Types, Sizes, Counts, Pending, Acked
  <2>6. Ends'
    BY SMTT(60) DEF IInv, Types, Flags, Sizes, Counts, Acked, Ends, Staging,
           FinQueued
  <2>7. Staging'
    BY Zenon DEF IInv, Types, Flags, Staging
  <2>8. Connecting'
    BY Zenon DEF IInv, Types, Flags, Sizes, Ends, Connecting
  <2>9. Wakeups'
    BY Zenon DEF IInv, Types, Flags, Sizes, Wakeups
  <2>10. NoTruncation' /\ LossIsReported' /\ OutlivedOnlyInTimeWait'
    BY Zenon DEF IInv, Types, Flags, Sizes, NoTruncation, LossIsReported,
           OutlivedOnlyInTimeWait
  <2> QED  BY Zenon, <2>4, <2>5, <2>6, <2>7, <2>8, <2>9, <2>10 DEF IInv
<1>3. CASE RoomForMore
  <2> SUFFICES ASSUME NEW n \in ReadCounts,
                      inq' = inq - n, gc' = IdleTimeout,
                      \/ InputAgain(q, n, next, FALSE)
                      \/ InputFailed(q, n)
                      \/ InputStop(q, n, next, FALSE)
                      \/ InputClose(q, n, next)
               PROVE  IInv'
    BY ZenonT(60), <1>3 DEF tcp_lwip_sent, tcp_proxy_input, len, q
  <2>2. /\ n \in 0..inq /\ unacked + n \in 0..SndBuf
        /\ Drained(n) => n = inq
        /\ Drained(n) \/ proxyeof \/ unacked + n >= 2
        /\ proxyeof => n = 0
    BY Zenon, ReadFits
  <2>4. CASE InputAgain(q, n, next, FALSE)
    <3> USE <2>2, <1>1, <2>4, SizesAssumption
        DEF InputAgain, ReturnOk, EvSet, EvClr, peervars, AfterSent
    <3>1. Flags'
      BY ZenonT(60) DEF IInv, Types, Flags
    <3>2. Types'
      BY SMTT(60), <3>1 DEF IInv, Types, Flags, Sizes, States, Stages
    <3>3. Counts'
      BY SMTT(60) DEF IInv, Types, Sizes, Counts, Pending, Acked
    <3>4. Ends'
      <4>1. ~proxyeof /\ state \notin FinQueued
        BY Zenon DEF IInv, Ends
      <4> QED  BY Zenon, <4>1 DEF IInv, Types, Flags, Sizes, Ends, Staging, FinQueued
    <3>5. Staging'
      BY Zenon DEF IInv, Types, Flags, Staging
    <3>6. Connecting'
      BY Zenon DEF IInv, Types, Flags, Sizes, Ends, Connecting
    <3>7. Wakeups'
      BY Zenon DEF IInv, Types, Flags, Sizes, Wakeups
    <3>8. NoTruncation' /\ LossIsReported' /\ OutlivedOnlyInTimeWait'
      BY Zenon DEF IInv, Types, Flags, Sizes, NoTruncation, LossIsReported,
             OutlivedOnlyInTimeWait
    <3> QED  BY Zenon, <3>2, <3>3, <3>4, <3>5, <3>6, <3>7, <3>8 DEF IInv
  <2>5. CASE InputFailed(q, n)
    <3>1. tcp_abort(state) /\ free_forward(TRUE, outq)
      BY ZenonT(60), <2>5 DEF InputFailed, tcp_forward_destroy
    <3>2. ~appreset' => peershut /\ appgot = peersent
      BY Zenon, <1>1, <3>1, AbortReported
    <3>3. Flags'
      BY Zenon, <1>1, <2>5, <3>1 DEF InputFailed, tcp_abort, peervars, IInv, Types, Flags
    <3>4. /\ state' = "FREED" /\ unacked' = 0 /\ UNCHANGED rxclosed
          /\ stage' = "idle" /\ UNCHANGED <<proxyestab, proxyeof>>
      BY Zenon, <1>1, <2>5, <3>1 DEF InputFailed, tcp_abort
    <3>5. /\ gc' \in 0..IdleTimeout /\ inq' \in 0..inq
          /\ recv_acked' \in 0..SndBuf /\ recv_data' \in 0..Wnd
          /\ lwipeof' => appshut
      BY SMTT(60), <2>2, <1>1, SizesAssumption DEF IInv, Types, Sizes, Ends
    <3> QED  BY Zenon, <1>1, <3>1, <3>2, <3>3, <3>4, <3>5, ForwardReset
  <2>6. CASE InputStop(q, n, next, FALSE)
    <3> USE <2>2, <1>1, <2>6, SizesAssumption
        DEF InputStop, ProxyEof, SndEof, RcvEof, ReturnOk, EvSet, EvClr, peervars,
            AfterSent
    <3>1. Flags'
      BY DEF IInv, Types, Flags, Drained
    <3>2. Types'
      BY SMTT(60), <3>1 DEF IInv, Types, Flags, Sizes, States, Stages, tcp_close_shutdown_fin
    <3>3. Counts'
      BY SMTT(60) DEF IInv, Types, Sizes, Counts, Pending, Acked
    <3>4. Ends'
      <4>1. state \notin FinQueued
        BY DEF IInv, Types, Sizes, Counts, Acked, Ends, Staging
      <4>2. proxyeof' => peershut /\ inq' = 0
        <5>1. proxyeof' => proxyeof \/ (Drained(n) /\ peershut)
          BY Zenon
        <5>2. proxyeof => peershut /\ inq = 0
          BY Zenon DEF IInv, Ends
        <5>3. proxyeof' => peershut /\ n = inq
          BY ONLY Zenon, <2>2, <5>1, <5>2
        <5>4. n = inq => inq' = 0
          BY DEF IInv, Types, Sizes
        <5> QED  BY ONLY Zenon, <5>3, <5>4
      <4>3. CASE ProxyEof(n) /\ q + n = 0
        <5>1. sndq' = 0 /\ unacked' = 0 /\ ~(lwipeof /\ rcvq = 0) /\ proxyeof'
          <6>1. q = 0 /\ n = 0 /\ unacked = 0
            BY <4>3 DEF IInv, Types, Sizes
          <6>2. sndq' = q + n /\ unacked' = unacked + n
            OBVIOUS
          <6>3. ~(lwipeof /\ rcvq = 0) /\ proxyeof'
            BY Zenon, <4>3
          <6> QED  BY ONLY <6>1, <6>2, <6>3
        <5>2. \/ state = "ESTABLISHED" /\ state' = "FIN_WAIT_1"
              \/ state = "CLOSE_WAIT" /\ state' = "LAST_ACK"
          BY Zenon, <4>1, <4>3 DEF IInv, Types, States, FinQueued, tcp_close_shutdown_fin
        <5> QED  BY Zenon, <4>2, <5>1, <5>2 DEF IInv, Types, Flags, Ends, Staging, FinQueued
      <4>4. CASE ~(ProxyEof(n) /\ q + n = 0)
        <5>1. state' = state /\ ~(proxyeof' /\ sndq' = 0)
          BY Zenon, <4>4
        <5> QED  BY Zenon, <4>1, <4>2, <5>1 DEF IInv, Types, Flags, Ends, Staging, FinQueued
      <4> QED  BY Zenon, <4>3, <4>4
    <3>5. Staging'
      BY ZenonT(60) DEF IInv, Types, Flags, Staging, tcp_close_shutdown_fin
    <3>6. Connecting'
      BY Zenon DEF IInv, Types, Flags, Sizes, Ends, Connecting
    <3>7. Wakeups'
      <4>1. state' # "SYN_RCVD"  BY Zenon DEF tcp_close_shutdown_fin
      <4>2. proxyeof' \/ unacked' >= 2  BY Zenon
      <4>3. proxyestab' /\ (rcvq' > 0 => "OUT" \in mask')
        BY Zenon DEF IInv, Types, Flags, Wakeups
      <4>4. unacked' >= 2 => unacked' > 0  BY SMTT(60) DEF IInv, Types, Sizes
      <4> QED  BY ONLY Zenon, <4>1, <4>2, <4>3, <4>4 DEF Wakeups
    <3>8. NoTruncation' /\ LossIsReported' /\ OutlivedOnlyInTimeWait'
      <4>1. state' # "FREED"  BY Zenon DEF tcp_close_shutdown_fin
      <4>2. NoTruncation'     BY Zenon DEF IInv, NoTruncation
      <4> QED  BY Zenon, <4>1, <4>2 DEF LossIsReported, OutlivedOnlyInTimeWait
    <3> QED  BY Zenon, <3>2, <3>3, <3>4, <3>5, <3>6, <3>7, <3>8 DEF IInv
  <2>7. CASE InputClose(q, n, next)
    <3> DEFINE st == tcp_close_shutdown_fin(state)
    <3>1. tcp_close(st) /\ free_forward(FALSE, outq)
      BY Zenon, <2>7 DEF InputClose, RcvEof, tcp_forward_destroy
    <3>2. /\ n = 0 /\ inq = 0 /\ peershut /\ unacked = 0 /\ q = 0 /\ rest = 0
          /\ lwipeof /\ appshut /\ rcvq = 0 /\ ~got_fin /\ recv_data = 0
      <4>1. ProxyEof(n) /\ q + n = 0 /\ lwipeof /\ rcvq = 0
        BY Zenon, <2>7 DEF InputClose, SndEof, RcvEof
      <4>2. n = 0 /\ q = 0 /\ unacked = 0 /\ rest = 0
        BY <1>1, <2>2, <4>1 DEF IInv, Types, Sizes
      <4>3. peershut /\ inq = 0
        BY Zenon, <2>2, <4>1, <4>2 DEF ProxyEof, IInv, Ends
      <4>4. appshut /\ ~got_fin /\ recv_data = 0
        BY <1>1, <4>1 DEF IInv, Types, Sizes, Ends, Staging
      <4> QED  BY Zenon, <4>1, <4>2, <4>3, <4>4
    <3>3. /\ state' \in FinQueued /\ (state' = state \/ state' = "LAST_ACK")
          /\ rxclosed' /\ unacked' = 0 /\ UNCHANGED appreset
      BY Zenon, <1>1, <3>1, <3>2
      DEF tcp_close, tcp_close_shutdown_fin, FinQueued, IInv, Types, States, Staging,
          Ends
    <3>4. appgot = peersent /\ peergot + outq = appsent
      BY SMTT(60), <1>1, <3>2 DEF IInv, Types, Flags, Sizes, Counts, Pending
    <3>5. Flags'
      BY ZenonT(60), <1>1, <2>7, <3>3 DEF InputClose, peervars, IInv, Types, Flags
    <3>6. /\ stage' = "done" /\ UNCHANGED proxyestab /\ state # "NONE"
          /\ gc' \in 0..IdleTimeout /\ inq' = 0 /\ outq \in 0..SockBuf
          /\ recv_acked' \in 0..SndBuf /\ recv_data' \in 0..Wnd
      <4>1. stage' = next /\ UNCHANGED proxyestab
        BY Zenon, <2>7 DEF InputClose
      <4>2. next = "done"
        BY Zenon, <1>1, <3>2 DEF AfterSent, IInv, Staging
      <4>3. state # "NONE" /\ inq' = 0
        BY <1>1, <3>2
      <4>4. /\ gc' \in 0..IdleTimeout /\ outq \in 0..SockBuf
            /\ recv_acked' \in 0..SndBuf /\ recv_data' \in 0..Wnd
        BY <1>1, SizesAssumption DEF IInv, Types, Sizes
      <4> QED  BY Zenon, <4>1, <4>2, <4>3, <4>4
    <3> QED  BY Zenon, <1>1, <3>1, <3>2, <3>3, <3>4, <3>5, <3>6, ForwardClosed
  <2> QED  BY Zenon, <2>4, <2>5, <2>6, <2>7
<1> QED  BY Zenon, <1>2, <1>3

-----------------------------------------------------------------------------
(* The start of a connection, idle forwards and the proxy peer *)

\* core_tcp_new(), whether the proxy connection can be created or not.
LEMMA CoreTcpNew == IInv /\ core_tcp_new => IInv'
<1> SUFFICES ASSUME IInv, core_tcp_new PROVE IInv'  OBVIOUS
<1> USE SizesAssumption DEF core_tcp_new, recvvars, peervars
<1>1. CASE state' = "SYN_RCVD"
  <2>1. /\ fwd' = "live" /\ phase' \in {"CONNECTING", "HANDSHAKE"}
        /\ phase' = "CONNECTING" => mask' = {"IN", "OUT"}
        /\ mask' \in SUBSET {"IN", "OUT"}
        /\ UNCHANGED <<rxclosed, unacked, sndq, rcvq, outq, wr, appreset>>
    BY Zenon, <1>1 DEF tcp_forward_destroy, tcp_abort
  <2>2. Flags'
    BY <2>1 DEF IInv, Types, Flags
  <2> USE <1>1, <2>1, <2>2
  <2>3. state = "NONE" /\ fwd = "none" /\ stage = "idle" /\ ~proxyestab
    BY Zenon DEF IInv, Staging
  <2>4. Types'
    BY DEF IInv, Types, Sizes, States, Stages, Phases
  <2>5. ~peerup /\ ~sockerr /\ inq = 0 /\ ~peershut /\ unacked = 0 /\ sndq = 0
        /\ rcvq = 0 /\ ~appshut
    BY Zenon, <2>3 DEF IInv, Staging, Connecting
  <2>6. Counts' /\ Wakeups'
    BY <2>3, <2>5 DEF IInv, Types, Sizes, Counts, Wakeups, Pending, Acked
  <2>7. Ends'
    BY Zenon, <2>3, <2>5 DEF IInv, Types, Flags, Ends, FinQueued
  <2>8. Staging' /\ Connecting'
    BY Zenon, <2>3, <2>5 DEF IInv, Types, Flags, Staging, Connecting
  <2>9. NoTruncation' /\ LossIsReported' /\ OutlivedOnlyInTimeWait'
    BY Zenon, <2>3, <2>5 DEF IInv, NoTruncation, LossIsReported, OutlivedOnlyInTimeWait
  <2> QED  BY Zenon, <2>4, <2>6, <2>7, <2>8, <2>9 DEF IInv
<1>2. CASE state' # "SYN_RCVD"
  <2>1. tcp_abort("SYN_RCVD") /\ free_forward(TRUE, 0)
    BY Zenon, <1>2 DEF tcp_forward_destroy
  <2>2. Flags'
    BY <2>1 DEF tcp_abort, IInv, Types, Flags
  <2>3. appreset'
    BY Zenon, <2>1 DEF tcp_abort
  <2>0. /\ fwd' = "freed" /\ sndq' = 0 /\ rcvq' = 0 /\ phase' = "CLOSED" /\ mask' = {}
        /\ wr' \in {"open", "fin", "rst"} /\ outq' = 0
    <3>1. TRUE \in BOOLEAN
      OBVIOUS
    <3>2. sndq' = 0 /\ rcvq' = 0
      BY Zenon, <2>1 DEF free_forward
    <3> QED  BY Zenon, <2>1, <3>1, <3>2, ClosedAs
  <2> USE <2>0, <2>1, <2>2, <2>3 DEF tcp_abort
  <2>4. Types'
    BY DEF IInv, Types, Sizes, States, Stages, Phases
  <2>5. Counts' /\ Wakeups'
    BY Zenon DEF IInv, Types, Sizes, Counts, Staging, Connecting, Wakeups, Pending, Acked
  <2>6. Ends'
    BY Zenon DEF IInv, Types, Flags, Sizes, Ends, Staging, Connecting, FinQueued
  <2>7. Staging' /\ Connecting'
    BY Zenon DEF IInv, Types, Flags, Sizes, Staging, Connecting
  <2>8. NoTruncation' /\ LossIsReported' /\ OutlivedOnlyInTimeWait'
    BY Zenon DEF IInv, Types, Sizes, Staging, Connecting, NoTruncation, LossIsReported,
         OutlivedOnlyInTimeWait
  <2> QED  BY Zenon, <2>4, <2>5, <2>6, <2>7, <2>8 DEF IInv
<1> QED  BY Zenon, <1>1, <1>2

\* The end of connect(2) keeps IInv.
LEMMA DirectConnected == IInv /\ direct_connected => IInv'
<1> SUFFICES ASSUME IInv, direct_connected PROVE IInv'  OBVIOUS
<1> USE SizesAssumption DEF direct_connected, Running, pcbvars, recvvars, fwdvars, appvars
<1>1. Flags'  BY DEF IInv, Types, Flags
<1>2. Types'
  BY Zenon, <1>1 DEF IInv, Types, Sizes, States, Stages, Phases
<1>3. Counts'
  BY Zenon DEF IInv, Types, Sizes, Counts, Staging, Connecting, Pending, Acked
<1>4. Ends'
  BY Zenon DEF IInv, Types, Flags, Sizes, Ends, Staging, Connecting, FinQueued
<1>5. Staging'
  BY Zenon DEF IInv, Types, Flags, Staging, Connecting
<1>6. Connecting'
  BY Zenon DEF IInv, Types, Flags, Sizes, Staging, Connecting
<1>7. Wakeups'
  BY Zenon DEF IInv, Types, Flags, Sizes, Staging, Connecting, Wakeups
<1>8. NoTruncation'
  BY Zenon DEF IInv, Types, Flags, Sizes, Connecting, NoTruncation
<1>9. LossIsReported'
  BY Zenon DEF IInv, Types, Flags, Sizes, Staging, Connecting, LossIsReported
<1>10. OutlivedOnlyInTimeWait'
  BY Zenon DEF IInv, Types, Flags, Sizes, Staging, Connecting, OutlivedOnlyInTimeWait
<1> QED  BY Zenon, <1>2, <1>3, <1>4, <1>5, <1>6, <1>7, <1>8, <1>9, <1>10 DEF IInv

\* The end of a SOCKS or HTTP handshake keeps IInv.
LEMMA HandshakeDone == IInv /\ handshake_done => IInv'
<1> SUFFICES ASSUME IInv, handshake_done PROVE IInv'  OBVIOUS
<1> USE SizesAssumption DEF handshake_done, Running, pcbvars, recvvars, fwdvars, appvars
<1>1. Flags'  BY DEF IInv, Types, Flags
<1>2. Types'
  BY Zenon, <1>1 DEF IInv, Types, Sizes, States, Stages, Phases
<1>3. Counts'
  BY Zenon DEF IInv, Types, Sizes, Counts, Staging, Connecting, Pending, Acked
<1>4. Ends'
  BY Zenon DEF IInv, Types, Flags, Sizes, Ends, Staging, Connecting, FinQueued
<1>5. Staging'
  BY Zenon DEF IInv, Types, Flags, Staging, Connecting
<1>6. Connecting'
  BY Zenon DEF IInv, Types, Flags, Sizes, Staging, Connecting
<1>7. Wakeups'
  BY Zenon DEF IInv, Types, Flags, Sizes, Staging, Connecting, Wakeups
<1>8. NoTruncation'
  BY Zenon DEF IInv, Types, Flags, Sizes, Connecting, NoTruncation
<1>9. LossIsReported'
  BY Zenon DEF IInv, Types, Flags, Sizes, Staging, Connecting, LossIsReported
<1>10. OutlivedOnlyInTimeWait'
  BY Zenon DEF IInv, Types, Flags, Sizes, Staging, Connecting, OutlivedOnlyInTimeWait
<1> QED  BY Zenon, <1>2, <1>3, <1>4, <1>5, <1>6, <1>7, <1>8, <1>9, <1>10 DEF IInv

\* A failed handshake destroys the forward and answers with RST.
LEMMA HandshakeFailed == IInv /\ handshake_failed => IInv'
<1> SUFFICES ASSUME IInv, handshake_failed PROVE IInv'  OBVIOUS
<1>1. tcp_abort(state) /\ free_forward(TRUE, outq)
  BY Zenon DEF handshake_failed, tcp_forward_destroy
<1>2. /\ fwd = "live" /\ state # "FREED" /\ stage' = "idle"
      /\ UNCHANGED <<recv_acked, recv_data, got_fin, got_closed, proxyeof,
                     lwipeof, proxysendeof, inq, wild, proxyestab, sockerr,
                     appsent, appshut, appgot, appeof, peervars>>
  BY Zenon DEF handshake_failed, Running, recvvars
<1>3. ~appreset' => peershut /\ appgot = peersent
  BY Zenon, <1>1, <1>2, AbortReported
<1>4. Flags'
  BY <1>1, <1>2 DEF tcp_abort, peervars, IInv, Types, Flags
<1>5. state' = "FREED" /\ unacked' = 0 /\ UNCHANGED rxclosed
  BY Zenon, <1>1 DEF tcp_abort
<1>6. /\ gc' \in 0..IdleTimeout /\ inq' \in 0..inq
      /\ recv_acked' \in 0..SndBuf /\ recv_data' \in 0..Wnd
      /\ lwipeof' => appshut
  BY <1>2, SizesAssumption DEF handshake_failed, IInv, Types, Sizes, Ends
<1>7. UNCHANGED <<proxyestab, sockerr, appsent, appshut, appgot, appeof, peervars>>
  BY Zenon, <1>2
<1> QED  BY Zenon, <1>1, <1>2, <1>3, <1>4, <1>5, <1>6, <1>7, ForwardReset

\* core_gc_tmr() counts down, or destroys an idle forward.
LEMMA CoreGcTmr == IInv /\ core_gc_tmr => IInv'
<1> SUFFICES ASSUME IInv, core_gc_tmr PROVE IInv'  OBVIOUS
<1>1. CASE gc = 0
  <2>1. tcp_abort(state) /\ free_forward(TRUE, outq)
    BY Zenon, <1>1 DEF core_gc_tmr, tcp_forward_destroy
  <2>2. /\ fwd = "live" /\ state # "FREED" /\ stage' = "idle"
        /\ UNCHANGED <<recv_acked, recv_data, got_fin, got_closed, proxyeof,
                       lwipeof, proxysendeof, inq, wild, proxyestab, sockerr,
                       appsent, appshut, appgot, appeof, peervars>>
    BY Zenon DEF core_gc_tmr, Running, recvvars
  <2>3. ~appreset' => peershut /\ appgot = peersent
    BY Zenon, <2>1, <2>2, AbortReported
  <2>4. Flags'
    BY <2>1, <2>2 DEF tcp_abort, peervars, IInv, Types, Flags
  <2>5. state' = "FREED" /\ unacked' = 0 /\ UNCHANGED rxclosed
    BY Zenon, <2>1 DEF tcp_abort
  <2>6. /\ gc' \in 0..IdleTimeout /\ inq' \in 0..inq
        /\ recv_acked' \in 0..SndBuf /\ recv_data' \in 0..Wnd
        /\ lwipeof' => appshut
    BY <1>1, <2>2, SizesAssumption DEF core_gc_tmr, IInv, Types, Sizes, Ends
  <2>7. UNCHANGED <<proxyestab, sockerr, appsent, appshut, appgot, appeof, peervars>>
    BY Zenon, <2>2
  <2> QED  BY Zenon, <2>1, <2>2, <2>3, <2>4, <2>5, <2>6, <2>7, ForwardReset
<1>2. CASE gc # 0
  <2>1. /\ gc' = gc - 1 /\ UNCHANGED <<state, rxclosed, unacked, fwd, sndq, rcvq,
           phase, mask, outq, wr, appreset, proxyestab, stage, recv_acked,
           recv_data, got_fin, got_closed, proxyeof, lwipeof, proxysendeof, inq,
           sockerr, appsent, appshut, appgot, appeof, peervars, wild>>
    BY Zenon, <1>2 DEF core_gc_tmr, recvvars
  <2>2. Flags' /\ Sizes'
    <3>1. Flags'  BY <2>1 DEF IInv, Types, Flags, peervars
    <3>2. Sizes'  BY <2>1, <1>2, SizesAssumption DEF IInv, Types, Sizes, peervars
    <3> QED  BY Zenon, <3>1, <3>2
  <2>3. Types'
    BY Zenon, <2>1, <2>2 DEF IInv, Types, peervars
  <2>4. Counts' /\ Staging' /\ Wakeups'
    BY SMTT(60), <2>1 DEF IInv, Counts, Staging, Wakeups, Pending, Acked, peervars
  <2>5. Ends' /\ Connecting'
    BY Zenon, <2>1 DEF IInv, Ends, Connecting, peervars
  <2>6. NoTruncation' /\ LossIsReported' /\ OutlivedOnlyInTimeWait'
    BY Zenon, <2>1 DEF IInv, NoTruncation, LossIsReported, OutlivedOnlyInTimeWait, peervars
  <2> QED  BY Zenon, <2>3, <2>4, <2>5, <2>6 DEF IInv
<1> QED  BY Zenon, <1>1, <1>2

\* A forward that has outlived its control block: IInv says nothing of what
\* its memory holds after this.
LEMMA UseFreedPcb == IInv /\ use_freed_pcb => IInv'
<1> SUFFICES ASSUME IInv, use_freed_pcb PROVE IInv'  OBVIOUS
<1> USE SizesAssumption DEF use_freed_pcb, pcbvars, recvvars, fwdvars, sockvars,
           appvars, peervars
<1>1. Flags'  BY SMTT(60) DEF IInv, Types, Flags
<1>2. Types'
  BY Zenon, <1>1 DEF IInv, Types, Sizes, States, Stages, Phases
<1>3. Counts'
  BY Zenon DEF IInv, Types, Sizes, Counts, Staging, Connecting, Pending, Acked
<1>4. Ends'
  BY Zenon DEF IInv, Types, Flags, Sizes, Ends, Staging, Connecting, FinQueued
<1>5. Staging'
  BY Zenon DEF IInv, Types, Flags, Staging, Connecting
<1>6. Connecting'
  BY Zenon DEF IInv, Types, Flags, Sizes, Staging, Connecting
<1>7. Wakeups'
  BY Zenon DEF IInv, Types, Flags, Sizes, Staging, Connecting, Wakeups
<1>8. NoTruncation'
  BY Zenon DEF IInv, Types, Flags, Sizes, Connecting, NoTruncation
<1>9. LossIsReported'
  BY Zenon DEF IInv, Types, Flags, Sizes, Staging, Connecting, LossIsReported
<1>10. OutlivedOnlyInTimeWait'
  BY Zenon DEF IInv, Types, Flags, Sizes, Staging, Connecting, OutlivedOnlyInTimeWait
<1> QED  BY Zenon, <1>2, <1>3, <1>4, <1>5, <1>6, <1>7, <1>8, <1>9, <1>10 DEF IInv

\* The proxy peer sends a byte.
LEMMA PeerSendStep == IInv /\ PeerSend => IInv'
<1> SUFFICES ASSUME IInv, PeerSend PROVE IInv'  OBVIOUS
<1> USE SizesAssumption DEF PeerSend, Connected, pcbvars, recvvars, fwdvars, appvars
<1>1. Flags'  BY SMTT(60) DEF IInv, Types, Flags
<1>2. Types'
  BY <1>1 DEF IInv, Types, Sizes, States, Stages, Phases
<1>3. Counts'
  BY DEF IInv, Types, Sizes, Counts, Staging, Connecting, Pending, Acked
<1>4. Ends'
  BY Zenon DEF IInv, Types, Flags, Sizes, Ends, Staging, Connecting, FinQueued
<1>5. Staging'
  BY Zenon DEF IInv, Types, Flags, Staging, Connecting
<1>6. Connecting'
  BY Zenon DEF IInv, Types, Flags, Sizes, Staging, Connecting
<1>7. Wakeups'
  BY Zenon DEF IInv, Types, Flags, Sizes, Staging, Connecting, Wakeups
<1>8. NoTruncation'
  BY Zenon DEF IInv, Types, Flags, Sizes, Connecting, NoTruncation
<1>9. LossIsReported'
  BY Zenon DEF IInv, Types, Flags, Sizes, Staging, Connecting, LossIsReported
<1>10. OutlivedOnlyInTimeWait'
  BY Zenon DEF IInv, Types, Flags, Sizes, Staging, Connecting, OutlivedOnlyInTimeWait
<1> QED  BY Zenon, <1>2, <1>3, <1>4, <1>5, <1>6, <1>7, <1>8, <1>9, <1>10 DEF IInv

\* The proxy peer ends its stream.
LEMMA PeerShutStep == IInv /\ PeerShut => IInv'
<1> SUFFICES ASSUME IInv, PeerShut PROVE IInv'  OBVIOUS
<1> USE SizesAssumption DEF PeerShut, Connected, pcbvars, recvvars, fwdvars, sockvars,
           appvars
<1>1. Flags'  BY SMTT(60) DEF IInv, Types, Flags
<1>2. Types'
  BY Zenon, <1>1 DEF IInv, Types, Sizes, States, Stages, Phases
<1>3. Counts'
  BY Zenon DEF IInv, Types, Sizes, Counts, Staging, Connecting, Pending, Acked
<1>4. Ends'
  BY Zenon DEF IInv, Types, Flags, Sizes, Ends, Staging, Connecting, FinQueued
<1>5. Staging'
  BY Zenon DEF IInv, Types, Flags, Staging, Connecting
<1>6. Connecting'
  BY Zenon DEF IInv, Types, Flags, Sizes, Staging, Connecting
<1>7. Wakeups'
  BY Zenon DEF IInv, Types, Flags, Sizes, Staging, Connecting, Wakeups
<1>8. NoTruncation'
  BY Zenon DEF IInv, Types, Flags, Sizes, Connecting, NoTruncation
<1>9. LossIsReported'
  BY Zenon DEF IInv, Types, Flags, Sizes, Staging, Connecting, LossIsReported
<1>10. OutlivedOnlyInTimeWait'
  BY Zenon DEF IInv, Types, Flags, Sizes, Staging, Connecting, OutlivedOnlyInTimeWait
<1> QED  BY Zenon, <1>2, <1>3, <1>4, <1>5, <1>6, <1>7, <1>8, <1>9, <1>10 DEF IInv

\* The proxy socket fails.
LEMMA PeerResetStep == IInv /\ PeerReset => IInv'
<1> SUFFICES ASSUME IInv, PeerReset PROVE IInv'  OBVIOUS
<1> USE SizesAssumption DEF PeerReset, Connected, pcbvars, recvvars, fwdvars, appvars,
           peervars
<1>1. Flags'  BY SMTT(60) DEF IInv, Types, Flags
<1>2. Types'
  BY Zenon, <1>1 DEF IInv, Types, Sizes, States, Stages, Phases
<1>3. Counts'
  BY Zenon DEF IInv, Types, Sizes, Counts, Staging, Connecting, Pending, Acked
<1>4. Ends'
  BY Zenon DEF IInv, Types, Flags, Sizes, Ends, Staging, Connecting, FinQueued
<1>5. Staging'
  BY Zenon DEF IInv, Types, Flags, Staging, Connecting
<1>6. Connecting'
  BY Zenon DEF IInv, Types, Flags, Sizes, Staging, Connecting
<1>7. Wakeups'
  BY Zenon DEF IInv, Types, Flags, Sizes, Staging, Connecting, Wakeups
<1>8. NoTruncation'
  BY Zenon DEF IInv, Types, Flags, Sizes, Connecting, NoTruncation
<1>9. LossIsReported'
  BY Zenon DEF IInv, Types, Flags, Sizes, Staging, Connecting, LossIsReported
<1>10. OutlivedOnlyInTimeWait'
  BY Zenon DEF IInv, Types, Flags, Sizes, Staging, Connecting, OutlivedOnlyInTimeWait
<1> QED  BY Zenon, <1>2, <1>3, <1>4, <1>5, <1>6, <1>7, <1>8, <1>9, <1>10 DEF IInv

\* The proxy peer reads a byte.
LEMMA PeerReadStep == IInv /\ PeerRead => IInv'
<1> SUFFICES ASSUME IInv, PeerRead PROVE IInv'  OBVIOUS
<1> USE SizesAssumption DEF PeerRead, pcbvars, recvvars, fwdvars, appvars
<1>1. Flags'  BY SMTT(60) DEF IInv, Types, Flags
<1>2. Types'
  BY <1>1 DEF IInv, Types, Sizes, States, Stages, Phases
<1>3. Counts'
  BY DEF IInv, Types, Sizes, Counts, Staging, Connecting, Pending, Acked
<1>4. Ends'
  BY Zenon DEF IInv, Types, Flags, Sizes, Ends, Staging, Connecting, FinQueued
<1>5. Staging'
  BY Zenon DEF IInv, Types, Flags, Staging, Connecting
<1>6. Connecting'
  <2>1. outq # 0
    BY DEF IInv, Types, Sizes
  <2>2. peerup
    BY Zenon, <2>1 DEF IInv, Connecting
  <2> QED  BY Zenon, <2>2 DEF IInv, Connecting
<1>7. Wakeups'
  BY Zenon DEF IInv, Types, Flags, Sizes, Staging, Connecting, Wakeups
<1>8. NoTruncation'
  BY DEF IInv, Types, Flags, Sizes, Connecting, NoTruncation
<1>9. LossIsReported'
  BY DEF IInv, Types, Flags, Sizes, Staging, Connecting, LossIsReported
<1>10. OutlivedOnlyInTimeWait'
  BY Zenon DEF IInv, Types, Flags, Sizes, Staging, Connecting, OutlivedOnlyInTimeWait
<1> QED  BY Zenon, <1>2, <1>3, <1>4, <1>5, <1>6, <1>7, <1>8, <1>9, <1>10 DEF IInv

\* The proxy peer reads the end of the stream.
LEMMA PeerReadEofStep == IInv /\ PeerReadEof => IInv'
<1> SUFFICES ASSUME IInv, PeerReadEof PROVE IInv'  OBVIOUS
<1> USE SizesAssumption DEF PeerReadEof, pcbvars, recvvars, fwdvars, sockvars, appvars
<1>1. Flags'  BY DEF IInv, Types, Flags
<1>2. Types'
  BY ZenonT(60), <1>1 DEF IInv, Types, Sizes, States, Stages, Phases
<1>3. Counts'
  BY Zenon DEF IInv, Types, Sizes, Counts, Staging, Connecting, Pending, Acked
<1>4. Ends'
  BY Zenon DEF IInv, Types, Flags, Sizes, Ends, Staging, Connecting, FinQueued
<1>5. Staging'
  BY Zenon DEF IInv, Types, Flags, Staging, Connecting
<1>6. Connecting'
  BY Zenon DEF IInv, Types, Flags, Sizes, Staging, Connecting
<1>7. Wakeups'
  BY Zenon DEF IInv, Types, Flags, Sizes, Staging, Connecting, Wakeups
<1>8. NoTruncation'
  BY Zenon DEF IInv, Types, Flags, Sizes, Connecting, NoTruncation
<1>9. LossIsReported'
  BY Zenon DEF IInv, Types, Flags, Sizes, Staging, Connecting, LossIsReported
<1>10. OutlivedOnlyInTimeWait'
  BY Zenon DEF IInv, Types, Flags, Sizes, Staging, Connecting, OutlivedOnlyInTimeWait
<1> QED  BY Zenon, <1>2, <1>3, <1>4, <1>5, <1>6, <1>7, <1>8, <1>9, <1>10 DEF IInv

-----------------------------------------------------------------------------
(* The theorems *)

\* Every step of the process, of lwIP and of both ends keeps IInv.
LEMMA NextIInv == IInv /\ [Next]_vars => IInv'
<1>1. IInv /\ UNCHANGED vars => IInv'
  <2> SUFFICES ASSUME IInv, UNCHANGED vars PROVE IInv'  OBVIOUS
  <2> USE DEF vars, pcbvars, recvvars, fwdvars, sockvars, appvars, peervars
  <2>1. Flags' /\ Sizes' /\ Types'
    BY DEF IInv, Types, Flags, Sizes
  <2>2. Counts' /\ Wakeups'
    BY Zenon DEF IInv, Counts, Wakeups, Pending, Acked
  <2>3. Ends'
    BY Zenon DEF IInv, Ends
  <2>4. Staging' /\ Connecting'
    BY Zenon DEF IInv, Staging, Connecting
  <2>5. NoTruncation' /\ LossIsReported' /\ OutlivedOnlyInTimeWait'
    BY Zenon DEF IInv, NoTruncation, LossIsReported, OutlivedOnlyInTimeWait
  <2> QED  BY Zenon, <2>1, <2>2, <2>3, <2>4, <2>5 DEF IInv
<1>2. IInv /\ Process => IInv'
  BY Zenon, IoEventIn, IoEventOut, LwipSent, DelayedClose, LwipReceived, LwipReceivedEof,
     TcpInputDone DEF Process
<1>3. IInv /\ Timers => IInv'
  BY Zenon, SlowtmrActive, SlowtmrTimewait, CoreGcTmr, UseFreedPcb DEF Timers
<1>4. IInv /\ Environment => IInv'
  BY Zenon, CoreTcpNew, DirectConnected, HandshakeDone, HandshakeFailed, SegmentIn,
     TcpInputReset, PeerSendStep, PeerShutStep, PeerResetStep, PeerReadStep,
     PeerReadEofStep DEF Environment
<1> QED  BY Zenon, <1>1, <1>2, <1>3, <1>4 DEF Next

\* The inductive invariant: every reachable state accounts for every byte and
\* for both ends of stream.
THEOREM Invariance == Spec => []IInv
BY InitIInv, NextIInv, PTL DEF Spec

\* Sizes stay within the buffers of lwIP and of the socket, whatever they are.
THEOREM TypeCorrect == Spec => []TypeOK
<1>1. Init => option \in {"-N", "none"}  BY Zenon DEF Init
<1>2. option \in {"-N", "none"} /\ [Next]_vars => (option \in {"-N", "none"})'
  BY Zenon DEF Next, vars
<1>3. IInv /\ option \in {"-N", "none"} => TypeOK  BY Zenon DEF IInv, TypeOK
<1> QED  BY <1>1, <1>2, <1>3, Invariance, PTL DEF Spec

\* tcp_proxy_input() and tcp_proxy_output() never pass on an end of stream
\* before the last byte of that stream.
THEOREM EndsAreWhole == Spec => []NoTruncation
<1>1. IInv => NoTruncation  BY Zenon DEF IInv
<1> QED  BY <1>1, Invariance, PTL

\* tcp_forward_destroy() resets the side whose stream it cuts short.
THEOREM LossReported == Spec => []LossIsReported
<1>1. IInv => LossIsReported  BY Zenon DEF IInv
<1> QED  BY <1>1, Invariance, PTL

\* Whichever callback met the last condition of an end of stream or of the
\* full close has acted on it before the handler returned.
THEOREM EofsForwarded == Spec => []EofForwarded
<1>1. IInv => EofForwarded  BY Zenon DEF IInv, Ends, EofForwarded, Running
<1> QED  BY <1>1, Invariance, PTL

\* tcp_proxy_input() and tcp_proxy_output() stop polling only what a later
\* callback asks for again.
THEOREM WakeupsKept == Spec => []NoLostWakeup
<1>1. IInv => NoLostWakeup
  BY Zenon DEF IInv, Types, Flags, Wakeups, NoLostWakeup, Running
<1> QED  BY <1>1, Invariance, PTL

\* A forward never waits for what nobody will tell it: the ends of stream are
\* passed on by the handler that could, and the rest is polled for.
THEOREM NeverStuck == Spec => []NothingStuck
BY EofsForwarded, WakeupsKept, PTL DEF NothingStuck

\* lwIP's callback contract is kept: no callback returns with its control block
\* destroyed and without ERR_ABRT, and none is called for a dead forward.
THEOREM ContractKept == Spec => []CallbackContract
<1>1. IInv => CallbackContract
  BY Zenon DEF IInv, Types, Flags, Sizes, Staging, CallbackContract
<1> QED  BY <1>1, Invariance, PTL

\* The bytes lwIP may send or retransmit are in sndq, that is, not freed.
THEOREM PayloadKept == Spec => []PayloadHeld
<1>1. IInv => PayloadHeld
  BY Zenon DEF IInv, Types, Counts, Acked, PayloadHeld
<1> QED  BY <1>1, Invariance, PTL

\* The SYN|ACK is sent only once the connection behind the proxy is up.
THEOREM SynAckDelayed == Spec => []SynAckAfterProxy
<1>1. IInv => SynAckAfterProxy
  BY Zenon DEF IInv, Types, Flags, Connecting, SynAckAfterProxy
<1> QED  BY <1>1, Invariance, PTL

\* A forward loses its control block unnoticed only when TIME_WAIT ends before
\* the proxy has taken the rest of the application's data.
THEOREM OutlivedOnce == Spec => []OutlivedOnlyInTimeWait
<1>1. IInv => OutlivedOnlyInTimeWait  BY Zenon DEF IInv
<1> QED  BY <1>1, Invariance, PTL

-----------------------------------------------------------------------------
(* Both directions implement Stream *)

\* What the peer was told: after a RST nothing is left to read, and the end of
\* stream is read after the last byte.
PeerTold ==
  /\ wr = "rst" => outq = 0 /\ fwd = "freed"
  /\ peerup /\ peereof => appshut /\ peergot = appsent

\* Of all the steps of the system only these touch what the ends see: the
\* handlers of core.c work on the queues between them.
LEMMA EndsSteps ==
  ASSUME [Next]_vars
  PROVE  /\ \/ Segment \/ PeerSend \/ PeerShut
            \/ UNCHANGED <<peersent, peershut, appgot, appeof>>
         /\ \/ Segment \/ PeerRead \/ PeerReadEof \/ direct_connected \/ handshake_done
            \/ UNCHANGED <<appsent, appshut, peergot, peereof, peerup>>
<1> USE DEF appvars, peervars
<1>1. CASE UNCHANGED vars
  BY Zenon, <1>1 DEF vars
<1>2. CASE Process
  BY Zenon, <1>2 DEF Process, tcp_proxy_io_event_in, tcp_proxy_io_event_out, tcp_lwip_sent,
       tcp_input_delayed_close, tcp_pcb_free, tcp_lwip_received,
       tcp_lwip_received_eof, tcp_input_done
<1>3. CASE Timers
  BY Zenon, <1>3 DEF Timers, tcp_slowtmr_active, tcp_slowtmr_timewait, tcp_pcb_free,
       core_gc_tmr, use_freed_pcb
<1>4. CASE Environment
  BY Zenon, <1>4 DEF Environment, core_tcp_new, direct_connected, handshake_done,
       handshake_failed, tcp_input_reset, tcp_pcb_free, PeerSend, PeerShut,
       PeerReset, PeerRead, PeerReadEof
<1> QED  BY Zenon, <1>1, <1>2, <1>3, <1>4 DEF Next

\* The write side of the proxy connection changes when data or an EOF goes out
\* for a live forward, and when the forward is destroyed.
LEMMA WriteSide ==
  ASSUME IInv, [Next]_vars
  PROVE  \/ UNCHANGED <<wr, outq, fwd>>
         \/ PeerRead
         \/ fwd # "freed" /\ fwd' # "freed" /\ wr' \in {wr, "fin"}
         \/ fwd' = "freed" /\ (wr' = "rst" => outq' = 0)
<1>0. stage \in {"recv", "fin"} => fwd = "live"
  BY Zenon DEF IInv, Staging
<1> DEFINE Kept == UNCHANGED <<wr, outq, fwd>>
           Written == fwd # "freed" /\ fwd' # "freed" /\ wr' \in {wr, "fin"}
           Destroyed == fwd' = "freed" /\ (wr' = "rst" => outq' = 0)
<1>1. CASE UNCHANGED vars
  BY Zenon, <1>1 DEF vars, sockvars, fwdvars
<1>2. ASSUME NEW rst \in BOOLEAN, NEW out, free_forward(rst, out)
      PROVE  Destroyed
  BY Zenon, <1>2 DEF free_forward, close_proxy
<1>3. ASSUME NEW force \in BOOLEAN, NEW st, NEW sq, NEW rq, NEW out,
             tcp_forward_destroy(force, st, sq, rq, out)
      PROVE  Destroyed
  BY Zenon, <1>2, <1>3 DEF tcp_forward_destroy
<1>4. ASSUME NEW notify, NEW failed, tcp_pcb_free(notify, failed)
      PROVE  Kept \/ Destroyed
  <2>1. CASE notify /\ fwd = "live"
    BY Zenon, <1>2, <1>4, <2>1 DEF tcp_pcb_free
  <2>2. CASE ~(notify /\ fwd = "live")
    BY Zenon, <1>4, <2>2 DEF tcp_pcb_free
  <2> QED  BY Zenon, <2>1, <2>2
<1> HIDE DEF Destroyed
<1>5. ASSUME NEW q, NEW next, NEW clsd, NEW estab, tcp_proxy_input(q, next, clsd, estab)
      PROVE  Kept \/ Destroyed
  <2> PICK n \in ReadCounts : \/ InputAgain(q, n, next, estab)
                              \/ InputFailed(q, n)
                              \/ InputStop(q, n, next, estab)
                              \/ InputClose(q, n, clsd)
    BY Zenon, <1>5 DEF tcp_proxy_input
  <2>1. CASE InputAgain(q, n, next, estab)  BY Zenon, <2>1 DEF InputAgain
  <2>2. CASE InputFailed(q, n)              BY Zenon, <2>2, <1>3 DEF InputFailed
  <2>3. CASE InputStop(q, n, next, estab)   BY Zenon, <2>3 DEF InputStop
  <2>4. CASE InputClose(q, n, clsd)         BY Zenon, <2>4, <1>3 DEF InputClose
  <2> QED  BY Zenon, <2>1, <2>2, <2>3, <2>4
<1>6. ASSUME NEW q, NEW eof, NEW next, NEW estab, fwd = "live",
             tcp_proxy_output(q, eof, next, estab)
      PROVE  Written \/ Destroyed
  <2>1. CASE OutputFailed(q, eof)                BY Zenon, <2>1, <1>3 DEF OutputFailed
  <2>2. CASE OutputAgain(q, eof, next, estab)    BY Zenon, <1>6, <2>2 DEF OutputAgain
  <2>3. CASE OutputDrained(q, eof, next, estab)
    <3>1. fwd' = fwd /\ wr' = (IF HalfClose(eof) /\ option # "-N" THEN "fin" ELSE wr)
      BY Zenon, <2>3 DEF OutputDrained
    <3> QED  BY Zenon, <1>6, <3>1
  <2>4. CASE OutputClose(q, eof, next)           BY Zenon, <2>4, <1>3 DEF OutputClose
  <2> QED  BY Zenon, <1>6, <2>1, <2>2, <2>3, <2>4 DEF tcp_proxy_output
<1>7. CASE Process
  <2>1. CASE tcp_proxy_io_event_in   BY Zenon, <2>1, <1>5 DEF tcp_proxy_io_event_in, Destroyed
  <2>2. CASE tcp_proxy_io_event_out  BY Zenon, <2>2, <1>6 DEF tcp_proxy_io_event_out, Destroyed
  <2>3. CASE tcp_lwip_sent
    BY Zenon, <2>3, <1>5 DEF tcp_lwip_sent, Destroyed
  <2>4. CASE tcp_lwip_received \/ tcp_lwip_received_eof
    BY Zenon, <2>4, <1>0, <1>6 DEF tcp_lwip_received, tcp_lwip_received_eof, Destroyed
  <2>5. CASE tcp_input_delayed_close \/ tcp_input_done
    BY Zenon, <2>5, <1>4 DEF tcp_input_delayed_close, tcp_input_done, sockvars, fwdvars,
         Destroyed
  <2> QED  BY Zenon, <1>7, <2>1, <2>2, <2>3, <2>4, <2>5 DEF Process, Destroyed
<1>8. CASE Timers
  BY Zenon, <1>8, <1>3, <1>4 DEF Timers, tcp_slowtmr_active, tcp_slowtmr_timewait,
       core_gc_tmr, use_freed_pcb, Destroyed, sockvars, fwdvars
<1>9. CASE Environment
  <2>1. CASE core_tcp_new
    <3>1. fwd # "freed"
      BY Zenon, <2>1 DEF core_tcp_new, IInv, Staging
    <3> QED  BY Zenon, <2>1, <3>1, <1>3 DEF core_tcp_new, Destroyed
  <2>2. CASE handshake_failed \/ tcp_input_reset
    BY Zenon, <2>2, <1>3, <1>4 DEF handshake_failed, tcp_input_reset, Destroyed
  <2>3. CASE direct_connected \/ handshake_done
    BY Zenon, <2>3 DEF direct_connected, handshake_done, Running, sockvars, fwdvars
  <2>4. CASE Segment
    BY <2>4 DEF Segment, tcp_process, sockvars, fwdvars
  <2>5. CASE PeerSend \/ PeerShut
    BY Zenon, <2>5 DEF PeerSend, PeerShut, sockvars, fwdvars
  <2>6. CASE PeerReset \/ PeerReadEof
    BY Zenon, <2>6 DEF PeerReset, PeerReadEof, sockvars, fwdvars
  <2> QED  BY Zenon, <1>9, <2>1, <2>2, <2>3, <2>4, <2>5, <2>6 DEF Environment, Destroyed
<1> QED  BY Zenon, <1>1, <1>7, <1>8, <1>9 DEF Next

\* What the socket holds for the peer is part of what the application sent, and
\* is nothing once the peer has read the end of stream.
LEMMA PeerBehind ==
  ASSUME IInv, PeerTold
  PROVE  /\ outq # 0 => peergot + outq <= appsent
         /\ peereof => outq = 0
<1>1. /\ peergot \in Nat /\ outq \in Nat /\ appsent \in Nat /\ rcvq \in Nat
      /\ Pending \in Nat
  BY SizesAssumption DEF IInv, Types, Sizes, Pending
<1>2. fwd \in {"none", "live", "freed"}
  BY Zenon DEF IInv, Types
<1>3. outq # 0 => peergot + outq <= appsent
  <2>1. CASE fwd = "live"   BY <1>1, <2>1 DEF IInv, Counts
  <2>2. CASE fwd = "none"   BY Zenon, <2>2 DEF IInv, Counts
  <2>3. CASE fwd = "freed"
    <3>1. outq # 0 => peergot + outq = appsent
      BY Zenon, <2>3 DEF IInv, LossIsReported, Connecting, PeerTold
    <3> QED  BY <1>1, <3>1
  <2> QED  BY Zenon, <1>2, <2>1, <2>2, <2>3
<1>4. /\ peerup /\ peereof => peergot = appsent
      /\ ~peerup => outq = 0
  BY Zenon DEF PeerTold, IInv, Connecting
<1> QED  BY <1>1, <1>3, <1>4

\* The peer of a connection that is just established has read nothing.
LEMMA PeerArrives ==
  ASSUME IInv, direct_connected \/ handshake_done
  PROVE  ~peereof /\ ~peerup /\ UNCHANGED <<appsent, appshut, peergot, peereof>>
<1>1. phase \in {"CONNECTING", "HANDSHAKE"}
  BY Zenon DEF direct_connected, handshake_done
<1>2. ~peerup /\ wr = "open"
  BY Zenon, <1>1 DEF IInv, Connecting
<1>3. ~peereof
  BY Zenon, <1>2 DEF IInv, Connecting
<1> QED  BY Zenon, <1>2, <1>3 DEF direct_connected, handshake_done, appvars

\* The peer reads the end of stream once and last.
LEMMA PeerToldStep == IInv /\ PeerTold /\ [Next]_vars => PeerTold'
<1> SUFFICES ASSUME IInv, PeerTold, [Next]_vars PROVE PeerTold'  BY Zenon
<1>1. wr' = "rst" => outq' = 0 /\ fwd' = "freed"
  BY WriteSide DEF PeerTold, PeerRead, fwdvars, IInv, Types, Sizes
<1>2. peerup' /\ peereof' => appshut' /\ peergot' = appsent'
  <2>1. CASE Segment
    <3> PICK d \in 0..(Wnd - rcvq), f \in BOOLEAN, a \in Ackable, af \in BOOLEAN :
                tcp_process(d, f, a, af)
      BY Zenon, <2>1 DEF Segment
    <3>1. /\ appshut => d = 0
          /\ appsent' = appsent + d /\ appshut' = (appshut \/ f)
          /\ UNCHANGED <<peergot, peereof, peerup>>
      BY Zenon DEF tcp_process, peervars
    <3>2. appshut => appshut'
      BY ZenonT(60), <3>1
    <3>3. appshut => appsent' = appsent
      BY <3>1 DEF IInv, Types, Sizes
    <3> QED  BY Zenon, <3>1, <3>2, <3>3 DEF PeerTold
  <2>2. CASE PeerRead
    <3>1. peereof => outq = 0
      BY Zenon, PeerBehind
    <3> QED  BY <2>2, <3>1 DEF PeerRead, PeerTold
  <2>3. CASE PeerReadEof
    BY <2>3 DEF PeerReadEof, appvars, IInv, Types, Sizes, NoTruncation
  <2>4. CASE UNCHANGED <<appsent, appshut, peergot, peereof, peerup>>
    BY Zenon, <2>4 DEF PeerTold
  <2>5. CASE direct_connected \/ handshake_done
    BY Zenon, <2>5, PeerArrives
  <2> QED  BY Zenon, <2>1, <2>2, <2>3, <2>4, <2>5, EndsSteps
<1> QED  BY Zenon, <1>1, <1>2 DEF PeerTold

\* What an acknowledgement adds to what the application has, and when.
LEMMA SegmentDelivers ==
  ASSUME IInv, Segment
  PROVE  /\ \/ UNCHANGED <<appgot, appeof>>
            \/ /\ ~appeof /\ appgot' \in appgot..peersent /\ appeof' \in BOOLEAN
               /\ appeof' => peershut /\ appgot' = peersent
         /\ \/ UNCHANGED <<appsent, appshut>>
            \/ /\ ~appshut /\ appsent' \in Nat /\ appsent' >= appsent
               /\ appshut' \in BOOLEAN
         /\ UNCHANGED <<peersent, peershut, peergot, peereof, peerup>>
<1> PICK d \in 0..(Wnd - rcvq), f \in BOOLEAN, a \in Ackable, af \in BOOLEAN :
            tcp_process(d, f, a, af)
  BY Zenon DEF Segment
<1>1. /\ appshut => d = 0 /\ ~f
      /\ appsent' = appsent + d /\ appshut' = (appshut \/ f)
      /\ appgot' = appgot + a /\ appeof' = (appeof \/ af)
      /\ state # "FREED"
      /\ UNCHANGED <<peersent, peershut, peergot, peereof, peerup>>
  BY Zenon DEF tcp_process, peervars, Active
<1>2. a \in 0..unacked /\ d \in Nat
  BY SMTT(60), SizesAssumption DEF Ackable, IInv, Types, Sizes
<1>3. appgot' \in appgot..peersent
  BY <1>1, <1>2 DEF IInv, Types, Sizes, Counts
<1>4. IInv'  BY Zenon, SegmentIn
<1>5. appeof' => peershut /\ appgot' = peersent
  BY Zenon, <1>1, <1>4 DEF IInv, NoTruncation
<1>6. appeof' \in BOOLEAN /\ appshut' \in BOOLEAN
  BY Zenon, <1>4 DEF IInv, Types, Flags
<1>7. appeof => UNCHANGED <<appgot, appeof>>
  <2>1. appeof => appgot = peersent
    BY Zenon DEF IInv, NoTruncation
  <2>2. appeof => appeof' = TRUE /\ appeof = TRUE
    BY Zenon, <1>1 DEF IInv, Types, Flags
  <2>3. appeof => appgot' = appgot
    BY Zenon, <1>1, <2>1, <2>2, <1>5
  <2> QED  BY Zenon, <2>2, <2>3
<1>8. appshut => UNCHANGED <<appsent, appshut>>
  <2>1. appshut => appshut' = TRUE /\ appshut = TRUE
    BY Zenon, <1>1 DEF IInv, Types, Flags
  <2>2. appshut => appsent' = appsent
    BY <1>1 DEF IInv, Types, Sizes
  <2> QED  BY Zenon, <2>1, <2>2
<1>9. appsent' \in Nat /\ appsent' >= appsent
  BY <1>1, <1>2 DEF IInv, Types, Sizes
<1> QED  BY Zenon, <1>1, <1>3, <1>5, <1>6, <1>7, <1>8, <1>9

\* The path of tcp_proxy_input(), tcp_write() and tcp_lwip_sent() implements a
\* reliable stream from the proxy peer to the application.
THEOREM PeerToAppRefines == Spec => PeerToApp
<1>1. Init => PeerStream!Init
  BY Zenon DEF Init, PeerStream!Init
<1>2. IInv /\ [Next]_vars =>
        [PeerStream!Next]_<<peersent, peershut, appgot, appeof>>
  <2> SUFFICES ASSUME IInv, [Next]_vars
               PROVE  [PeerStream!Next]_<<peersent, peershut, appgot, appeof>>
    OBVIOUS
  <2>1. CASE Segment
    BY Zenon, <2>1, SegmentDelivers DEF PeerStream!Next, PeerStream!Deliver
  <2>2. CASE PeerSend
    BY <2>2 DEF PeerSend, appvars, PeerStream!Next, PeerStream!Write, IInv, Types,
         Sizes, Flags
  <2>3. CASE PeerShut
    <3>1. peersent' \in Nat /\ peersent' >= peersent
      BY <2>3 DEF PeerShut, IInv, Types, Sizes
    <3> QED
      BY Zenon, <2>3, <3>1 DEF PeerShut, appvars, PeerStream!Next, PeerStream!Write
  <2> QED  BY Zenon, <2>1, <2>2, <2>3, EndsSteps
<1> QED  BY <1>1, <1>2, Invariance, PTL DEF Spec, PeerToApp, PeerStream!Spec

\* The path of tcp_lwip_received() and tcp_proxy_output() implements a reliable
\* stream from the application to the proxy peer.
THEOREM AppToPeerRefines == Spec => AppToPeer
<1>1. Init => AppStream!Init /\ PeerTold
  BY Zenon DEF Init, AppStream!Init, PeerTold
<1>2. IInv /\ PeerTold /\ [Next]_vars =>
        [AppStream!Next]_<<appsent, appshut, peergot, peerup /\ peereof>>
  <2> SUFFICES ASSUME IInv, PeerTold, [Next]_vars
               PROVE  [AppStream!Next]_<<appsent, appshut, peergot, peerup /\ peereof>>
    OBVIOUS
  <2>1. CASE Segment
    <3>0. UNCHANGED <<peereof, peerup>>
      BY Zenon, <2>1, SegmentDelivers
    <3>1. (peerup /\ peereof)' = (peerup /\ peereof)
      BY Zenon, <3>0
    <3> QED  BY Zenon, <2>1, <3>1, SegmentDelivers DEF AppStream!Next, AppStream!Write
  <2>2. CASE PeerRead
    <3>1. peereof => outq = 0
      BY Zenon, PeerBehind
    <3>2. outq # 0 => peergot + outq <= appsent
      BY Zenon, PeerBehind
    <3>3. peergot \in Nat /\ outq \in Nat /\ appsent \in Nat /\ peereof \in BOOLEAN
      BY SizesAssumption DEF IInv, Types, Sizes, Flags
    <3>4. ~peereof /\ peergot' \in peergot..appsent
      BY <2>2, <3>1, <3>2, <3>3 DEF PeerRead
    <3>5. ~peereof' /\ UNCHANGED <<appsent, appshut>>
      BY Zenon, <2>2, <3>4 DEF PeerRead, appvars
    <3>6. (peerup' /\ peereof') = FALSE /\ ~(peerup /\ peereof)
      BY Zenon, <3>4, <3>5
    <3> QED
      BY Zenon, <3>4, <3>5, <3>6 DEF AppStream!Next, AppStream!Deliver
  <2>3. CASE PeerReadEof
    <3>1. ~peereof /\ UNCHANGED <<appsent, appshut, peergot, peerup>>
      BY Zenon, <2>3 DEF PeerReadEof, appvars
    <3>2. CASE peerup
      <4>1. peergot' \in peergot..appsent /\ appshut /\ peergot' = appsent
        BY <2>3, <3>2 DEF PeerReadEof, IInv, Types, Sizes, NoTruncation
      <4>2. (peerup' /\ peereof') \in BOOLEAN /\ ~(peerup /\ peereof)
        BY Zenon, <3>1
      <4> QED  BY Zenon, <3>1, <4>1, <4>2 DEF AppStream!Next, AppStream!Deliver
    <3>3. CASE ~peerup
      BY Zenon, <3>1, <3>3
    <3> QED  BY Zenon, <3>2, <3>3
  <2>4. CASE direct_connected \/ handshake_done
    <3>1. ~peereof /\ UNCHANGED <<appsent, appshut, peergot, peereof>>
      BY Zenon, <2>4, PeerArrives
    <3>2. (peerup /\ peereof)' = (peerup /\ peereof)
      BY Zenon, <3>1
    <3> QED  BY Zenon, <3>1, <3>2
  <2>5. CASE UNCHANGED <<appsent, appshut, peergot, peereof, peerup>>
    <3>1. (peerup /\ peereof)' = (peerup /\ peereof)
      BY Zenon, <2>5
    <3> QED  BY Zenon, <2>5, <3>1
  <2> QED  BY Zenon, <2>1, <2>2, <2>3, <2>4, <2>5, EndsSteps
<1> QED
  BY <1>1, <1>2, PeerToldStep, Invariance, PTL DEF Spec, AppToPeer, AppStream!Spec

\* A forward is a pair of reliable streams for every size of the buffers.
THEOREM ForwardIsTwoStreams == Spec => BothStreams
BY Zenon, PeerToAppRefines, AppToPeerRefines DEF BothStreams
=============================================================================
