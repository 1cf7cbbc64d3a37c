------------------------------ MODULE Handshake ------------------------------
(***************************************************************************)
(* The handshake of a proxy connection, of socks.c (TCP CONNECT and UDP    *)
(* ASSOCIATE) and of http.c (CONNECT): the two are the same machine, http  *)
(* starts at SEND_REQUEST.  The handler of a phase runs when epoll reports *)
(* an event, sends or receives what the socket allows, and may find a part *)
(* of a message, a whole one, or a whole one with bytes of the application *)
(* behind it.                                                              *)
(*                                                                         *)
(* A message is its number of bytes.  What the proxy server has sent and   *)
(* is not read yet is `hsin' bytes of its current answer and, behind them, *)
(* `appin' bytes that belong to the application.                           *)
(***************************************************************************)
EXTENDS Integers

CONSTANTS
  User,        \* conf->proxyuser is set
  Cap,         \* SOCKS_HS_BUFF, HTTP_HS_BUFF
  MsgLen,      \* MsgLen[m]: bytes of the message to send in phase m
  ReplyLen,    \* bytes of the answer to the request
  AppLen       \* bound: bytes of the application behind that answer

SendPhases == {"SEND_METHOD", "SEND_AUTH", "SEND_REQUEST"}
RecvPhases == {"RECV_METHOD", "RECV_AUTH", "RECV_REPLY"}

\* Every message of the client fits its buffer (AUTH_MAXLEN bounds its longest),
\* and so does an answer of the shape the client knows.
SizesAssumption ==
  /\ Cap \in Nat /\ AppLen \in Nat
  /\ MsgLen \in [SendPhases -> 1..Cap]
  /\ ReplyLen \in Nat \ {0} /\ ReplyLen < Cap

VARIABLES
  kind,        \* "SOCKS" or "HTTP", conf->proxytype
  phase,       \* self->phase: one of these, FORWARDING, or FAILED
  size,        \* self->hsbuff->size
  mask,        \* self->events
  err,         \* the socket has failed
  \* the proxy server
  srvgot,      \* bytes of the current message it has received
  verdict,     \* its answer to that message: none before it answers; accept;
               \* auth, it picks user/password; reject; endless, the answer
               \* has no end the client recognises (an unknown address type,
               \* no empty line)
  due,         \* bytes of the answer it has yet to send
  hsin, appin, \* bytes in the socket, see above
  appdue,      \* bytes of the application it has yet to send
  srvshut,     \* it has closed the connection
  eaten        \* bytes of the application the handshake has read

srvvars == <<verdict, due, appdue, srvshut>>
vars == <<kind, phase, size, mask, err, srvgot, srvvars, hsin, appin, eaten>>

\* The phase socks_create_impl() and http_tcp_create() start with.
FirstPhase == IF kind = "SOCKS" THEN "SEND_METHOD" ELSE "SEND_REQUEST"

\* connect(2) in progress, the first event is EPOLLOUT.
Init ==
  /\ kind \in {"SOCKS", "HTTP"}
  /\ phase = FirstPhase
  /\ size = 0 /\ mask = {"OUT"} /\ err = FALSE
  /\ srvgot = 0 /\ verdict = "none" /\ due = 0
  /\ hsin = 0 /\ appin = 0 /\ appdue = 0 /\ srvshut = FALSE /\ eaten = 0

-----------------------------------------------------------------------------
(* Sending *)

\* The first call in a phase puts the message into the buffer.
ToSend == IF size = 0 THEN MsgLen[phase] ELSE size

\* Mutant of EventsAfterSend: the events stay as they are.
EventsAfterSendKept == {"OUT"}

EventsAfterSend == {"IN"}

AfterSend(ph) == CASE ph = "SEND_METHOD" -> "RECV_METHOD"
                   [] ph = "SEND_AUTH" -> "RECV_AUTH"
                   [] OTHER -> "RECV_REPLY"

\* socks_handshake_output(), http_handshake_output(): the socket takes n
\* bytes, none if it is full.
handshake_output ==
  /\ phase \in SendPhases /\ "OUT" \in mask /\ ~err
  /\ \E n \in 0..ToSend :
       /\ size' = ToSend - n
       /\ srvgot' = srvgot + n
       /\ \/ n < ToSend /\ UNCHANGED <<phase, mask>>
          \/ n = ToSend /\ phase' = AfterSend(phase) /\ mask' = EventsAfterSend
  /\ UNCHANGED <<err, srvvars, hsin, appin, eaten>>

-----------------------------------------------------------------------------
(* Receiving *)

Pos(n) == IF n > 0 THEN n ELSE 0

\* n bytes leave the socket.
Take(n) ==
  /\ hsin' = Pos(hsin - n)
  /\ appin' = appin - Pos(n - hsin)
  /\ eaten' = eaten + Pos(n - hsin)

\* The handshake is over: the callback of the user is told EPOLLERR, and the
\* user puts the connection away.
Fail == phase' = "FAILED" /\ mask' = {} /\ size' = 0

\* The end of socks_handshake_input() after a whole answer.
NextSend(ph) == phase' = ph /\ mask' = {"OUT"} /\ size' = 0

\* RECV_METHOD and RECV_AUTH: all that is there is read, the answer has two
\* bytes, and more than two are an error.
socks_handshake_input ==
  /\ phase \in {"RECV_METHOD", "RECV_AUTH"} /\ "IN" \in mask /\ ~err
  /\ hsin > 0 \/ appin > 0 \/ srvshut
  /\ \E n \in 0..(hsin + appin) :
       /\ n = 0 => hsin + appin = 0
       /\ n <= Cap - size
       /\ Take(n)
       /\ CASE n = 0 \/ size + n > 2 -> Fail
            [] n > 0 /\ size + n < 2 ->
                 size' = size + n /\ UNCHANGED <<phase, mask>>
            [] OTHER ->
                 CASE verdict = "auth" -> NextSend("SEND_AUTH")
                   [] verdict = "accept" -> NextSend("SEND_REQUEST")
                   [] OTHER -> Fail
  /\ UNCHANGED <<err, srvgot, srvvars>>

\* Mutant of Discard: all bytes looked at are taken.
DiscardAll(n) == n

\* What recv() is asked for; http.c needs a byte for the terminating NUL.
Room == Cap - size - 1

\* A whole answer is in sight with n bytes peeked at.
Whole(n) == verdict # "endless" /\ size + n >= ReplyLen

\* The bytes taken from the socket after MSG_PEEK showed n: up to the end of
\* the answer and no further.
Discard(n) == IF Whole(n) THEN ReplyLen - size ELSE n

\* An answer without an end in a full buffer: http.c fails at once.  socks.c
\* compares with the capacity, which is never reached, and fails at the next
\* event, when it asks recv() for no bytes.
TooLong(n) == size + n = (IF kind = "HTTP" THEN Cap - 1 ELSE Cap)

\* RECV_REPLY, in socks_handshake_input() and http_handshake_input().
handshake_reply ==
  /\ phase = "RECV_REPLY" /\ "IN" \in mask /\ ~err
  /\ hsin > 0 \/ appin > 0 \/ srvshut
  /\ \E n \in 0..(hsin + appin) :
       /\ n = 0 => hsin + appin = 0 \/ Room = 0
       /\ n <= Room
       /\ Take(Discard(n))
       /\ CASE n = 0 -> Fail
            [] n > 0 /\ ~Whole(n) ->
                 IF TooLong(n) THEN Fail
                 ELSE size' = size + n /\ UNCHANGED <<phase, mask>>
            [] OTHER ->
                 IF verdict = "accept"
                 THEN phase' = "FORWARDING" /\ mask' = {"IN", "OUT"} /\ size' = 0
                 ELSE Fail
  /\ UNCHANGED <<err, srvgot, srvvars>>

\* An error of send() or recv() in any phase: socks_handshake_perror().
handshake_error ==
  /\ phase \in SendPhases \cup RecvPhases /\ err
  /\ Fail
  /\ UNCHANGED <<err, srvgot, srvvars, hsin, appin, eaten>>

Handler ==
  \/ handshake_output \/ socks_handshake_input \/ handshake_reply
  \/ handshake_error

-----------------------------------------------------------------------------
(* The proxy server and the network *)

Current == CASE phase = "RECV_METHOD" -> "SEND_METHOD"
             [] phase = "RECV_AUTH" -> "SEND_AUTH"
             [] OTHER -> "SEND_REQUEST"

\* The server has a whole message and decides on its answer.  It offers the
\* user/password method only to a client that has one.
srv_answer ==
  /\ phase \in RecvPhases /\ ~srvshut /\ ~err
  /\ srvgot = MsgLen[Current]
  /\ verdict' \in CASE phase = "RECV_METHOD" ->
                         {"accept", "reject"} \cup (IF User THEN {"auth"} ELSE {})
                    [] phase = "RECV_AUTH" -> {"accept", "reject"}
                    [] OTHER -> {"accept", "reject", "endless"}
  /\ due' = CASE phase # "RECV_REPLY" -> 2
              [] verdict' = "endless" -> Cap + 1
              [] OTHER -> ReplyLen
  /\ appdue' = IF phase = "RECV_REPLY" /\ verdict' = "accept" THEN AppLen ELSE 0
  /\ srvgot' = 0
  /\ UNCHANGED <<phase, size, mask, err, hsin, appin, srvshut, eaten>>

\* A piece of the answer and, behind all of it, bytes of the application.
srv_send ==
  /\ ~srvshut /\ ~err /\ due + appdue > 0
  /\ \E n \in 1..(due + appdue) :
       /\ due' = Pos(due - n) /\ hsin' = hsin + due - due'
       /\ appdue' = appdue - Pos(n - due)
       /\ appin' = appin + Pos(n - due)
  /\ UNCHANGED <<phase, size, mask, err, srvgot, verdict, srvshut, eaten>>

srv_close ==
  /\ ~srvshut /\ phase \notin {"FORWARDING", "FAILED"}
  /\ srvshut' = TRUE
  /\ UNCHANGED <<phase, size, mask, err, srvgot, verdict, due, hsin, appin,
                 appdue, eaten>>

net_error ==
  /\ ~err /\ phase \notin {"FORWARDING", "FAILED"}
  /\ err' = TRUE
  /\ UNCHANGED <<phase, size, mask, srvgot, srvvars, hsin, appin, eaten>>

Next ==
  /\ Handler \/ srv_answer \/ srv_send \/ srv_close \/ net_error
  /\ UNCHANGED kind

Spec == Init /\ [][Next]_vars

\* The loop serves what epoll reports; the server answers what it receives and
\* sends all of its answer.
FairSpec ==
  /\ Spec
  /\ WF_vars(Handler /\ UNCHANGED kind)
  /\ WF_vars(srv_answer /\ UNCHANGED kind)
  /\ WF_vars(srv_send /\ UNCHANGED kind)

-----------------------------------------------------------------------------
(* Properties *)

\* `If some application layer data has been returned, we can carefuly not to
\* touch them' (socks.c:477, http.c:137): however the stream is cut, the
\* handshake reads no byte behind the answer, and leaves none of the answer,
\* which accepted the request, to the application.  The server receives every
\* byte of a message once, over any sequence of partial and refused writes, and
\* what the handshake keeps of the server's bytes never overruns the buffer.
\* It fails only for a reason: the server refuses or sends an answer without
\* end, it closes, or the connection breaks.
StreamBoundary ==
  /\ eaten = 0
  /\ phase = "FORWARDING" => verdict = "accept" /\ hsin = 0 /\ due = 0
  /\ size <= Cap
  /\ phase \in SendPhases => srvgot + ToSend = MsgLen[phase]
  /\ phase \in RecvPhases => srvgot \in {0, MsgLen[Current]}
  /\ phase = "FAILED" => srvshut \/ err \/ verdict \in {"reject", "endless"}

\* The handshake comes to an end with a server that answers, so the user of the
\* connection is called back.
HandshakeEnds == <>(phase \in {"FORWARDING", "FAILED"})

=============================================================================
