------------------------------- MODULE TcpDns -------------------------------
(***************************************************************************)
(* DNS over TCP: struct proxy_tcpdns of tcpdns.c, the pseudo UDP           *)
(* connection behind the flow to the resolver on the gateway.  Each query  *)
(* gets a worker with a TCP connection of its own; a worker with a whole   *)
(* answer raises the semaphore of the master (an eventfd), which wakes     *)
(* udp_proxy_input() to fetch it.                                          *)
(*                                                                         *)
(* A message is a number of bytes behind its two bytes of length.  A       *)
(* worker is named by the query it was created for.                        *)
(***************************************************************************)
EXTENDS Integers, FiniteSets

CONSTANTS
  Queries,      \* datagrams of the application
  Size,         \* Size[q]: bytes of query q
  Reply,        \* Reply[q]: bytes of the answer of the nameserver
  Cap           \* sizeof(worker->buffer): 4096

ASSUME DnsAssumption ==
  /\ IsFiniteSet(Queries)
  /\ Size \in [Queries -> Nat \ {0}]
  /\ Reply \in [Queries -> Nat \ {0}]
  /\ Cap \in Nat /\ Cap > 2

VARIABLES
  master,       \* the proxy_tcpdns: live, or freed with its udp_forward
  evfd,         \* count of the eventfd
  worker,       \* worker[q]: none; connecting, in connect(2) or in the handshake
                \* with the proxy; open; done, worker->done, its connection
                \* closed; gone, destroyed
  nbuffer,      \* bytes in worker->buffer: of the query, then of the answer
  mask,         \* events the connection of the worker is polled for
  inq,          \* bytes of the answer in the socket
  sockerr,      \* the connection has failed
  srvgot,       \* bytes of the framed query at the nameserver
  srvsent,      \* bytes of the framed answer it has sent
  srvshut,      \* it has closed the connection
  answer        \* bytes of the answer the application was given

sockvars == <<inq, sockerr>>
srvvars  == <<srvgot, srvsent, srvshut>>
vars == <<master, evfd, worker, nbuffer, mask, sockvars, srvvars, answer>>

NoAnswer == -1

\* tcpdns_create()
Init ==
  /\ master = "live" /\ evfd = 0
  /\ worker = [q \in Queries |-> "none"]
  /\ nbuffer = [q \in Queries |-> 0]
  /\ mask = [q \in Queries |-> {}]
  /\ inq = [q \in Queries |-> 0] /\ sockerr = [q \in Queries |-> FALSE]
  /\ srvgot = [q \in Queries |-> 0] /\ srvsent = [q \in Queries |-> 0]
  /\ srvshut = [q \in Queries |-> FALSE]
  /\ answer = [q \in Queries |-> NoAnswer]

-----------------------------------------------------------------------------
(* The master *)

\* tcpdns_destroy_internal(): every worker goes with the master.
tcpdns_destroy_internal ==
  /\ master' = "freed" /\ evfd' = 0
  /\ worker' = [q \in Queries |->
                  IF worker[q] = "none" THEN "none" ELSE "gone"]
  /\ mask' = [q \in Queries |-> {}]
  /\ UNCHANGED nbuffer

TooLarge(q) == Size[q] + 2 > Cap

\* tcpdns_send(), called for a datagram of the application.  A direct
\* connection is polled for both events at once, one over a proxy after its
\* handshake, so the difference is over when the connection is open.
tcpdns_send(q) ==
  /\ master = "live" /\ worker[q] = "none" /\ ~TooLarge(q)
  /\ worker' = [worker EXCEPT ![q] = "connecting"]
  /\ nbuffer' = [nbuffer EXCEPT ![q] = Size[q] + 2]
  /\ mask' = [mask EXCEPT ![q] = {"IN", "OUT"}]
  /\ UNCHANGED <<master, evfd, sockvars, srvvars, answer>>

\* It returns an error, for a query too large or without a connection: the
\* caller, udp_proxy_output(), destroys the forward and with it the master.
tcpdns_send_error(q) ==
  /\ master = "live" /\ worker[q] = "none"
  /\ tcpdns_destroy_internal
  /\ UNCHANGED <<sockvars, srvvars, answer>>

Done == {q \in Queries : worker[q] = "done"}

\* tcpdns_recv(), called by udp_proxy_input() when the eventfd is readable,
\* and again until it is not: the count goes down by one and a worker that is
\* done, the first of the list in the code, gives its answer and is destroyed;
\* without one it returns -EAGAIN.
tcpdns_recv ==
  /\ master = "live" /\ evfd > 0
  /\ evfd' = evfd - 1
  /\ IF Done = {}
     THEN UNCHANGED <<worker, answer>>
     ELSE \E q \in Done :
            /\ worker' = [worker EXCEPT ![q] = "gone"]
            /\ answer' = [answer EXCEPT ![q] = nbuffer[q] - 2]
  /\ UNCHANGED <<master, nbuffer, mask, sockvars, srvvars>>

\* tcpdns_put(): the forward is collected or fails.
tcpdns_put ==
  /\ master = "live"
  /\ tcpdns_destroy_internal
  /\ UNCHANGED <<sockvars, srvvars, answer>>

-----------------------------------------------------------------------------
(* A worker *)

tcpdns_worker_destroy(q) ==
  /\ worker' = [worker EXCEPT ![q] = "gone"]
  /\ mask' = [mask EXCEPT ![q] = {}]

\* The connection to the nameserver is open.
connected(q) ==
  /\ worker[q] = "connecting" /\ ~sockerr[q]
  /\ worker' = [worker EXCEPT ![q] = "open"]
  /\ UNCHANGED <<master, evfd, nbuffer, mask, sockvars, srvvars, answer>>

\* tcpdns_worker_handle_event() with EPOLLERR, a failed handshake included.
worker_error(q) ==
  /\ worker[q] \in {"connecting", "open"} /\ sockerr[q]
  /\ tcpdns_worker_destroy(q)
  /\ UNCHANGED <<master, evfd, nbuffer, sockvars, srvvars, answer>>

\* Mutant of Complete: the length bytes count as part of the answer.
CompleteShort(q, n) == n > 2 /\ n >= Reply[q]

\* The first two of n bytes hold Reply[q], and that many follow.
Complete(q, n) == n > 2 /\ n >= Reply[q] + 2

\* Mutant of Raise: each piece of the answer wakes the master.
RaiseAlways(done) == evfd + 1

Raise(done) == IF done THEN evfd + 1 ELSE evfd

\* EPOLLIN: n bytes are read behind the ones in the buffer.  Without room
\* recv() is asked for none and returns 0, as it does at the end of stream.
worker_input(q) ==
  /\ worker[q] = "open" /\ ~sockerr[q] /\ "IN" \in mask[q]
  /\ inq[q] > 0 \/ srvshut[q]
  /\ \E n \in 0..inq[q] :
       /\ n <= Cap - nbuffer[q]
       /\ n = 0 => inq[q] = 0 \/ nbuffer[q] = Cap
       /\ inq' = [inq EXCEPT ![q] = @ - n]
       /\ nbuffer' = [nbuffer EXCEPT ![q] = @ + n]
       /\ LET done == n > 0 /\ Complete(q, nbuffer[q] + n) IN
          /\ \/ n = 0 /\ tcpdns_worker_destroy(q)
             \/ /\ n > 0 /\ ~done
                /\ UNCHANGED <<worker, mask>>
             \/ /\ done
                /\ worker' = [worker EXCEPT ![q] = "done"]
                /\ mask' = [mask EXCEPT ![q] = {}]
          /\ evfd' = IF n > 0 THEN Raise(done) ELSE evfd
  /\ UNCHANGED <<master, sockerr, srvvars, answer>>

\* Mutant of SendMask: the worker goes on polling for EPOLLOUT only.
SendMaskKept(q, left) == IF left = 0 THEN {"OUT"} ELSE mask[q]

\* What the worker polls for with `left' bytes of the query to send.
SendMask(q, left) == IF left = 0 THEN {"IN"} ELSE mask[q]

Unsent(q, n) == nbuffer[q] - n

\* EPOLLOUT, when EPOLLIN is not reported with it: the socket takes n bytes.
worker_output(q) ==
  /\ worker[q] = "open" /\ ~sockerr[q] /\ "OUT" \in mask[q]
  /\ inq[q] = 0 /\ ~srvshut[q]
  /\ nbuffer[q] > 0
  /\ \E n \in 1..nbuffer[q] :
       /\ nbuffer' = [nbuffer EXCEPT ![q] = Unsent(q, n)]
       /\ mask' = [mask EXCEPT ![q] = SendMask(q, Unsent(q, n))]
       /\ srvgot' = [srvgot EXCEPT ![q] = @ + n]
  /\ UNCHANGED <<master, evfd, worker, sockvars, srvsent, srvshut, answer>>

-----------------------------------------------------------------------------
(* The nameserver and the network *)

\* The answer comes in pieces, after the whole query.
srv_send(q) ==
  /\ worker[q] = "open" /\ ~sockerr[q] /\ ~srvshut[q]
  /\ srvgot[q] = Size[q] + 2
  /\ \E n \in 1..(Reply[q] + 2 - srvsent[q]) :
       /\ srvsent' = [srvsent EXCEPT ![q] = @ + n]
       /\ inq' = [inq EXCEPT ![q] = @ + n]
  /\ UNCHANGED <<master, evfd, worker, nbuffer, mask, sockerr, srvgot, srvshut,
                 answer>>

srv_close(q) ==
  /\ worker[q] = "open" /\ ~sockerr[q] /\ ~srvshut[q]
  /\ srvshut' = [srvshut EXCEPT ![q] = TRUE]
  /\ UNCHANGED <<master, evfd, worker, nbuffer, mask, sockvars, srvgot, srvsent,
                 answer>>

net_error(q) ==
  /\ worker[q] \in {"connecting", "open"} /\ ~sockerr[q]
  /\ sockerr' = [sockerr EXCEPT ![q] = TRUE]
  /\ UNCHANGED <<master, evfd, worker, nbuffer, mask, inq, srvvars, answer>>

WorkerStep(q) ==
  connected(q) \/ worker_error(q) \/ worker_input(q) \/ worker_output(q)

Next ==
  \/ \E q \in Queries :
       \/ tcpdns_send(q) \/ tcpdns_send_error(q)
       \/ WorkerStep(q)
       \/ srv_send(q) \/ srv_close(q) \/ net_error(q)
  \/ tcpdns_recv \/ tcpdns_put

Spec == Init /\ [][Next]_vars

\* The loop serves every descriptor epoll reports.
FairSpec ==
  /\ Spec
  /\ \A q \in Queries : WF_vars(WorkerStep(q))
  /\ WF_vars(tcpdns_recv)

-----------------------------------------------------------------------------
(* Properties *)

\* The count of the eventfd is the number of workers that hold an answer: an
\* excess would wake the master for nothing (tcpdns_recv() takes the count
\* down before it looks for the worker), a lack would leave an answer behind.
\* A worker, whose callbacks use the master, does not outlive it.
SemaphoreExact ==
  /\ evfd = Cardinality(Done)
  /\ master = "freed" => \A q \in Queries : worker[q] \in {"none", "gone"}

\* However the streams are cut into pieces, an answer the application gets is
\* the whole one the nameserver gave to this query, without its length; and the
\* buffer is the query's until all of it is sent and the answer's after, never
\* overrun: what the nameserver has, and what the buffer holds, is the query.
MessagesWhole ==
  \A q \in Queries :
    /\ answer[q] # NoAnswer => answer[q] = Reply[q] /\ srvgot[q] = Size[q] + 2
    /\ worker[q] = "open" =>
         /\ nbuffer[q] <= Cap
         /\ \/ srvgot[q] + nbuffer[q] = Size[q] + 2 /\ srvsent[q] = 0
            \/ srvgot[q] = Size[q] + 2 /\ nbuffer[q] + inq[q] = srvsent[q]

\* An answer that fits the buffer and has been sent whole reaches the
\* application, unless the connection fails or the forward ends first; also
\* when the nameserver closes right behind it.
AnswerArrives ==
  \A q \in Queries :
    (worker[q] = "open" /\ srvsent[q] = Reply[q] + 2 /\ Reply[q] + 2 <= Cap)
    ~> (answer[q] # NoAnswer \/ sockerr[q] \/ master = "freed")

=============================================================================
