------------------------------ MODULE MCHelpers -----------------------------
(***************************************************************************)
(* DNS over TCP, the handshake with the proxy and the processes of nsproxy, *)
(* each on an instance of its own: which says which of the three moves, and *)
(* the others stay in an initial state.                                     *)
(***************************************************************************)
EXTENDS TcpDns

\* p: the answer just fits the buffer.  f: the query just fits it and the answer
\* does not.  l: the query does not fit.
CONSTANTS p, f, l

MCSize  == [q \in Queries |-> CASE q = p -> 1 [] q = f -> 2 [] OTHER -> 3]
MCReply == [q \in Queries |-> CASE q = p -> 2 [] q = f -> 3 [] OTHER -> 1]

\* The handshake's buffer, its answer and the application's bytes behind that.
CONSTANTS HsUser, HsCap, HsReplyLen, HsAppLen

MCMsgLen == [SEND_METHOD |-> 2, SEND_AUTH |-> 2, SEND_REQUEST |-> 3]

\* A command, a child of it and a grandchild or second child; one status that is
\* a failure of the application's own beside the ones nsproxy uses.
CONSTANTS cmd, p1, p2

VARIABLES
  which,
  hkind, hphase, hsize, hmask, herr, hgot, hverdict, hdue, hin, happin, happdue, hshut, heaten,
  parent, child, fdsent, ready, subreaper, masked, pending, state, ppid, stat,
  exitcode, status, served, last

hvars == <<hkind, hphase, hsize, hmask, herr, hgot, hverdict, hdue, hin, happin, happdue,
           hshut, heaten>>
lvars == <<parent, child, fdsent, ready, subreaper, masked, pending, state, ppid, stat,
           exitcode, status, served, last>>

H == INSTANCE Handshake WITH
       User <- HsUser, Cap <- HsCap, MsgLen <- MCMsgLen, ReplyLen <- HsReplyLen, AppLen <- HsAppLen,
       kind <- hkind, phase <- hphase, size <- hsize, mask <- hmask, err <- herr,
       srvgot <- hgot, verdict <- hverdict, due <- hdue, hsin <- hin, appin <- happin,
       appdue <- happdue, srvshut <- hshut, eaten <- heaten

L == INSTANCE Lifecycle WITH Procs <- {cmd, p1, p2}, Target <- cmd, Codes <- {0, 1, 3}

\* What the proofs assume of the messages and of the processes.
ASSUME MCAssumption == H!SizesAssumption /\ L!ProcsAssumption

MCInit ==
  /\ which \in {"dns", "handshake", "processes"}
  /\ Init /\ H!Init /\ L!Init
  /\ which # "handshake" => hkind = "SOCKS"
  /\ which # "processes" => subreaper

MCNext ==
  /\ UNCHANGED which
  /\ \/ which = "dns" /\ Next /\ UNCHANGED <<hvars, lvars>>
     \/ which = "handshake" /\ H!Next /\ UNCHANGED <<vars, lvars>>
     \/ which = "processes" /\ L!Next /\ UNCHANGED <<vars, hvars>>

\* The fairness of the three specifications, for the one that moves.
MCFairness ==
  /\ \A q \in Queries : WF_vars(WorkerStep(q))
  /\ WF_vars(tcpdns_recv)
  /\ WF_hvars(which = "handshake" /\ H!Handler /\ UNCHANGED hkind)
  /\ WF_hvars(which = "handshake" /\ H!srv_answer /\ UNCHANGED hkind)
  /\ WF_hvars(which = "handshake" /\ H!srv_send /\ UNCHANGED hkind)
  /\ WF_lvars(which = "processes" /\ L!ParentStep)
  /\ WF_lvars(which = "processes" /\ L!ChildStep)

MCSpec == MCInit /\ [][MCNext]_<<which, vars, hvars, lvars>> /\ MCFairness

----------------------------------------------------------------------------
\* socks_handshake_input() and the HTTP one read no byte of the application and
\* leave none of the answer, whatever the pieces (StreamBoundary of Handshake).
StreamBoundary == H!StreamBoundary

\* Every handshake with a server that answers comes to an end (HandshakeEnds of
\* Handshake).
HandshakeEnds == which = "handshake" => H!HandshakeEnds

\* sigfd_handler() misses no death (NoLostDeath of Lifecycle).
NoLostDeath == L!NoLostDeath

\* The event loop runs as long as the application does, and nsproxy exits with
\* the last status it reaped (AppServed of Lifecycle).
AppServed == L!AppServed

\* The parent ends after all of its processes, and start-up does not hang
\* (ParentFollows of Lifecycle).
ParentFollows == which = "processes" => L!ParentFollows
=============================================================================
