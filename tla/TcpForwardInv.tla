--------------------------- MODULE TcpForwardInv ---------------------------
(***************************************************************************)
(* The inductive invariant of TcpForward.  Each of its safety properties is*)
(* about two pieces of state that are far apart, so none is inductive.  IInv*)
(* adds where every byte is (Counts), what the state of the control block  *)
(* says about the ends of both streams (Ends), what each part of a handler *)
(* may rely on (Staging), and what holds until the proxy connection is up  *)
(* (Connecting).                                                           *)
(***************************************************************************)
EXTENDS TcpForward, TLAPS

\* Bytes of the segment being processed that its callbacks have yet to take.
Pending == IF stage \in {"sent", "recv"} THEN recv_data ELSE 0
Acked   == IF stage = "sent" THEN recv_acked ELSE 0

\* Where the bytes of both streams are.
Counts ==
  /\ state # "FREED" => peersent = inq + unacked + appgot
  /\ fwd = "live" => appsent = rcvq + Pending + outq + peergot
  /\ fwd = "live" => rcvq + Pending <= Wnd
  /\ fwd = "live" => sndq >= unacked + Acked
  /\ fwd # "live" => unacked = 0
  /\ fwd = "none" => appsent = peergot /\ outq = 0

\* The ends of the streams.
Ends ==
  /\ proxyeof => peershut /\ inq = 0
  /\ state \in FinQueued => peershut /\ inq = 0 /\ unacked = 0
  /\ state \in FinQueued /\ fwd = "live" => proxyeof /\ sndq = 0
  /\ state # "FREED" =>
       (appshut <=> state \in {"CLOSE_WAIT", "CLOSING", "LAST_ACK", "TIME_WAIT"})
  /\ state \in {"FIN_WAIT_2", "TIME_WAIT"} => appeof
  /\ lwipeof => appshut
  /\ fwd = "live" /\ proxysendeof => lwipeof /\ rcvq = 0
  /\ fwd = "none" => ~proxysendeof
  /\ fwd = "live" /\ appshut /\ stage \in {"idle", "evout", "done"} => lwipeof
  /\ fwd = "live" /\ state # "FREED" =>
       /\ proxyeof /\ sndq = 0 => state \in FinQueued
       /\ lwipeof /\ rcvq = 0 => proxysendeof
       /\ ~(proxyeof /\ sndq = 0 /\ lwipeof /\ rcvq = 0)

\* The parts of tcp_input() and tcp_proxy_io_event() still to run.
Staging ==
  /\ stage \notin {"idle", "evout"} =>
       state \notin {"FREED", "NONE", "SYN_RCVD"} /\ proxyestab
  /\ stage \in {"evout", "sent", "recv", "fin"} => fwd = "live"
  /\ stage = "sent" => recv_acked > 0 /\ ~got_closed
  /\ stage = "recv" => recv_data > 0
  /\ stage = "fin" => got_fin
  /\ stage = "closed" => state = "LAST_ACK" /\ appeof
  /\ stage \in {"sent", "recv", "fin"} =>
       /\ recv_data > 0 \/ got_fin => ~lwipeof
       /\ got_fin => appshut
       /\ appshut /\ ~lwipeof => got_fin
  /\ fwd = "freed" /\ state # "FREED" => appshut
  /\ rxclosed => fwd = "freed"
  /\ fwd = "none" <=> state = "NONE"
  /\ fwd = "none" => stage = "idle" /\ phase = "NEW" /\ ~proxyestab /\ ~appeof
  /\ fwd = "freed" => phase = "CLOSED"
  /\ fwd = "live" => phase \in {"CONNECTING", "HANDSHAKE", "FORWARDING"}

\* The proxy connection is not up, or could not be established.
Connecting ==
  /\ phase \in {"NEW", "CONNECTING", "HANDSHAKE"} => ~peerup /\ ~sockerr
  /\ ~peerup =>
       /\ inq = 0 /\ ~peershut /\ unacked = 0 /\ ~proxyestab
       /\ appsent = 0 /\ peergot = 0 /\ outq = 0
       /\ stage = "idle" /\ sndq = 0 /\ rcvq = 0 /\ ~appshut
       /\ state \in {"NONE", "SYN_RCVD", "FREED"}
       /\ phase = "CONNECTING" => mask = {"IN", "OUT"}
       /\ phase = "FORWARDING" => mask = {"IN", "OUT"} /\ sockerr
       /\ phase # "CLOSED" => wr = "open"
  /\ wr = "open" => ~peereof

\* Events asked for.
Wakeups ==
  fwd = "live" /\ phase = "FORWARDING" =>
    /\ "IN" \notin mask /\ ~proxyeof =>
         /\ stage = "sent" \/ unacked > 0
         /\ state = "SYN_RCVD" => unacked >= 2
    /\ rcvq > 0 \/ ~proxyestab => "OUT" \in mask

IInv ==
  /\ Types /\ Counts /\ Ends /\ Staging /\ Connecting /\ Wakeups
  /\ NoTruncation /\ LossIsReported /\ OutlivedOnlyInTimeWait
=============================================================================
