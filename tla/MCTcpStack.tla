----------------------------- MODULE MCTcpStack -----------------------------
(***************************************************************************)
(* The two halves of lwIP's TCP, the sender and the receiver, each on an    *)
(* instance of its own: which says which of the two moves, and the other    *)
(* one stays in its initial state.                                          *)
(***************************************************************************)
EXTENDS TcpSender

CONSTANTS RcvSpace, RcvIrs, RcvTotal, RcvWnd, RcvSynWnd, RcvUnit, RcvMss

VARIABLES which, rpcb, rwrote, rclosed, rstream, reof, rused

R == INSTANCE TcpReceiver WITH
       SeqSpace <- RcvSpace, Irs <- RcvIrs, Total <- RcvTotal, Wnd <- RcvWnd,
       SynWnd <- RcvSynWnd, Unit <- RcvUnit, Mss <- RcvMss,
       pcb <- rpcb, wrote <- rwrote, closed <- rclosed, stream <- rstream, eof <- reof,
       used <- rused

rvars == <<rpcb, rwrote, rclosed, rstream, reof, rused>>

MCInit == which \in {"sender", "receiver"} /\ Init /\ R!Init

MCNext ==
  /\ UNCHANGED which
  /\ \/ which = "sender" /\ Next /\ UNCHANGED rvars
     \/ which = "receiver" /\ R!Next /\ UNCHANGED vars

\* The fairness of a half holds while that half stays in its initial state:
\* none of the steps it speaks of can be taken there.
MCSpec == MCInit /\ [][MCNext]_<<which, vars, rvars>> /\ Fairness /\ R!Fairness

----------------------------------------------------------------------------
\* However segments overlap and in whatever order they come, the receive
\* callback gets every byte once and in order, the window leaks nothing and no
\* assertion of tcp_receive() fails (ReceivedExactly of TcpReceiver).
ReceivedExactly == R!ReceivedExactly

\* tcp_update_rcv_ann_wnd() never takes back a window it has offered, but for
\* the rounding of RCV_WND_SCALE() (WindowNeverShrinks of TcpReceiver).
WindowNeverShrinks == R!WindowNeverShrinks

\* A stream the application has closed is received to its end: neither the
\* window of tcp_recved() nor the acknowledgements come to rest before
\* (AllReceived of TcpReceiver).
AllReceived == which = "receiver" => R!AllReceived
=============================================================================
