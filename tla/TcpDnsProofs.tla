---------------------------- MODULE TcpDnsProofs ----------------------------
(***************************************************************************)
(* The safety properties of TcpDns, for any finite set of queries, any      *)
(* sizes of queries and answers and any size of the buffer: the semaphore    *)
(* counts the answers, and messages arrive whole.                            *)
(*                                                                           *)
(* The inductive invariant says, for the state a worker is in, whose bytes   *)
(* its one buffer holds: Sending and Receiving are told apart by the mask,   *)
(* which is what keeps the query's last bytes and the answer's first ones    *)
(* from meeting there.                                                       *)
(***************************************************************************)
EXTENDS TcpDns, FiniteSetTheorems, TLAPS

TypeOK ==
  /\ master \in {"live", "freed"}
  /\ worker \in [Queries -> {"none", "connecting", "open", "done", "gone"}]
  /\ nbuffer \in [Queries -> Nat]
  /\ mask \in [Queries -> SUBSET {"IN", "OUT"}]
  /\ inq \in [Queries -> Nat] /\ sockerr \in [Queries -> BOOLEAN]
  /\ srvgot \in [Queries -> Nat] /\ srvsent \in [Queries -> Nat]
  /\ srvshut \in [Queries -> BOOLEAN]
  /\ answer \in [Queries -> Nat \cup {NoAnswer}]

\* The nameserver has not begun to answer.
Silent(q) == srvsent[q] = 0 /\ inq[q] = 0

\* The buffer is the query's: a part of it is left to send.
Sending(q) ==
  /\ "OUT" \in mask[q]
  /\ srvgot[q] + nbuffer[q] = Size[q] + 2 /\ nbuffer[q] > 0
  /\ Silent(q)

\* The buffer is the answer's: what was sent and is not in the socket.
Receiving(q) ==
  /\ mask[q] = {"IN"}
  /\ srvgot[q] = Size[q] + 2
  /\ nbuffer[q] + inq[q] = srvsent[q] /\ srvsent[q] <= Reply[q] + 2

Phase(q) ==
  /\ worker[q] = "none" => srvgot[q] = 0 /\ Silent(q)
  /\ worker[q] = "connecting" =>
       /\ Silent(q) /\ "OUT" \in mask[q]
       /\ nbuffer[q] = Size[q] + 2 /\ nbuffer[q] <= Cap /\ srvgot[q] = 0
  /\ worker[q] = "open" => nbuffer[q] <= Cap /\ (Sending(q) \/ Receiving(q))
  /\ worker[q] = "done" => nbuffer[q] = Reply[q] + 2 /\ srvgot[q] = Size[q] + 2
  /\ answer[q] # NoAnswer =>
       worker[q] = "gone" /\ answer[q] = Reply[q] /\ srvgot[q] = Size[q] + 2

Phases == \A q \in Queries : Phase(q)

IInv == TypeOK /\ SemaphoreExact /\ Phases

-----------------------------------------------------------------------------
(* Frames: what a step of one worker leaves alone. *)

\* Everything that Phase() reads of worker r is as it was.
Untouched(r) ==
  /\ worker'[r] = worker[r] /\ nbuffer'[r] = nbuffer[r] /\ mask'[r] = mask[r]
  /\ inq'[r] = inq[r] /\ srvgot'[r] = srvgot[r] /\ srvsent'[r] = srvsent[r]
  /\ answer'[r] = answer[r]

\* A step that touches one worker keeps the others' phases.
LEMMA PhasesFrame ==
  ASSUME Phases, NEW q \in Queries, \A r \in Queries \ {q} : Untouched(r), Phase(q)'
  PROVE  Phases'
<1> SUFFICES ASSUME NEW r \in Queries \ {q} PROVE Phase(r)'
  BY DEF Phases
<1> QED
  BY DEF Phases, Phase, Sending, Receiving, Silent, Untouched

\* The semaphore is the master's: a step that lets no worker be done, and none
\* cease to be, need not touch it.
LEMMA SemaphoreFrame ==
  ASSUME TypeOK, SemaphoreExact, NEW q \in Queries, NEW w,
         worker' = [worker EXCEPT ![q] = w], worker[q] # "done", w # "done",
         master = "freed" => w \in {"none", "gone"}, UNCHANGED <<master, evfd>>
  PROVE  SemaphoreExact'
<1>1. Done' = Done
  BY DEF Done, TypeOK
<1> QED
  BY <1>1 DEF SemaphoreExact, TypeOK

\* There are finitely many answers.
LEMMA DoneFinite == IsFiniteSet(Done) /\ Cardinality(Done) \in Nat
BY DnsAssumption, FS_Subset, FS_CardinalityType DEF Done

-----------------------------------------------------------------------------
(* The master *)

\* tcpdns_destroy_internal() takes the workers and the count together.
LEMMA DestroyKeeps ==
  ASSUME IInv, tcpdns_destroy_internal, UNCHANGED <<sockvars, srvvars, answer>>
  PROVE  IInv'
<1>1. \A q \in Queries : worker'[q] \in {"none", "gone"} /\ (worker'[q] = "none" <=> worker[q] = "none")
  BY DEF tcpdns_destroy_internal, IInv, TypeOK
<1>2. TypeOK'
  BY DEF tcpdns_destroy_internal, IInv, TypeOK, sockvars, srvvars
<1>3. SemaphoreExact'
  <2>1. Done' = {}
    BY <1>1 DEF Done
  <2> QED BY <1>1, <2>1, FS_EmptySet DEF tcpdns_destroy_internal, SemaphoreExact
<1>4. Phases'
  BY <1>1 DEF IInv, Phases, Phase, Silent, TypeOK, sockvars, srvvars
<1> QED BY <1>2, <1>3, <1>4 DEF IInv

\* tcpdns_send() fills an unused worker's buffer with the framed query.
LEMMA SendKeeps ==
  ASSUME IInv, NEW q \in Queries, tcpdns_send(q)
  PROVE  IInv'
<1>1. /\ worker[q] = "none" /\ master = "live" /\ ~TooLarge(q)
      /\ worker' = [worker EXCEPT ![q] = "connecting"]
      /\ nbuffer' = [nbuffer EXCEPT ![q] = Size[q] + 2]
      /\ mask' = [mask EXCEPT ![q] = {"IN", "OUT"}]
      /\ UNCHANGED <<master, evfd, inq, sockerr, srvgot, srvsent, srvshut, answer>>
  BY DEF tcpdns_send, sockvars, srvvars
<1>2. Size[q] \in Nat /\ Size[q] + 2 \in Nat /\ Cap \in Nat
  BY DnsAssumption
<1>3. TypeOK'
  BY <1>1, <1>2 DEF IInv, TypeOK
<1>4. SemaphoreExact'
  BY <1>1, SemaphoreFrame DEF IInv
<1>5. Phase(q)'
  <2>1. /\ worker'[q] = "connecting" /\ nbuffer'[q] = Size[q] + 2
        /\ "OUT" \in mask'[q]
    BY <1>1 DEF IInv, TypeOK
  <2>2. srvgot[q] = 0 /\ Silent(q) /\ answer[q] = NoAnswer /\ Size[q] + 2 <= Cap
    BY <1>1, <1>2 DEF IInv, Phases, Phase, TooLarge
  <2> QED BY <1>1, <2>1, <2>2 DEF Phase, Silent
<1>6. Phases'
  BY <1>1, <1>5, PhasesFrame DEF IInv, TypeOK, Untouched
<1> QED BY <1>3, <1>4, <1>6 DEF IInv

\* tcpdns_recv() gives away one answer for one count.
LEMMA RecvKeeps ==
  ASSUME IInv, tcpdns_recv
  PROVE  IInv'
<1> USE DnsAssumption DEF sockvars, srvvars
<1>1. Done # {}
  BY FS_EmptySet DEF tcpdns_recv, IInv, SemaphoreExact
<1>2. PICK q \in Done : /\ worker' = [worker EXCEPT ![q] = "gone"]
                        /\ answer' = [answer EXCEPT ![q] = nbuffer[q] - 2]
  BY <1>1 DEF tcpdns_recv
<1>3. q \in Queries /\ worker[q] = "done" /\ nbuffer[q] = Reply[q] + 2 /\ srvgot[q] = Size[q] + 2
  BY <1>2 DEF Done, IInv, Phases, Phase
<1>4. TypeOK'
  BY <1>2, <1>3 DEF tcpdns_recv, IInv, TypeOK
<1>5. SemaphoreExact'
  <2>1. Done' = Done \ {q}
    BY <1>2, <1>3 DEF Done, IInv, TypeOK
  <2>2. Cardinality(Done \ {q}) = Cardinality(Done) - 1
    BY <1>2, DoneFinite, FS_RemoveElement
  <2> QED
    BY <2>1, <2>2 DEF tcpdns_recv, IInv, SemaphoreExact
<1>6. Phase(q)'
  BY <1>2, <1>3 DEF tcpdns_recv, IInv, TypeOK, Phase
<1>7. Phases'
  BY <1>2, <1>3, <1>6, PhasesFrame DEF tcpdns_recv, IInv, TypeOK, Untouched
<1> QED BY <1>4, <1>5, <1>7 DEF IInv

-----------------------------------------------------------------------------
(* A worker *)

\* A worker that is connecting or open has a master and no answer.
LEMMA Working ==
  ASSUME IInv, NEW q \in Queries, worker[q] \in {"connecting", "open"}
  PROVE  master # "freed" /\ answer[q] = NoAnswer
BY DEF IInv, TypeOK, SemaphoreExact, Phases, Phase

\* The connection to the server is up, or has failed.
LEMMA ConnectedKeeps ==
  ASSUME IInv, NEW q \in Queries, connected(q) \/ worker_error(q)
  PROVE  IInv'
<1> USE DnsAssumption, Working DEF connected, worker_error, tcpdns_worker_destroy, sockvars, srvvars
<1>1. TypeOK'
  BY DEF IInv, TypeOK
<1>2. SemaphoreExact'
  BY SemaphoreFrame DEF IInv
<1>3. Phase(q)'
  BY DEF IInv, TypeOK, Phases, Phase, Sending, Silent
<1>4. Phases'
  BY <1>3, PhasesFrame DEF IInv, TypeOK, Untouched
<1> QED BY <1>1, <1>2, <1>4 DEF IInv

\* recv() into the buffer: bytes come only when it is the answer's, and the
\* answer is complete exactly when all of it is there.
LEMMA InputKeeps ==
  ASSUME IInv, NEW q \in Queries, worker_input(q)
  PROVE  IInv'
<1> USE DnsAssumption DEF sockvars, srvvars
<1>1. /\ worker[q] = "open" /\ master # "freed" /\ answer[q] = NoAnswer
      /\ UNCHANGED <<master, sockerr, srvvars, answer>>
      /\ nbuffer[q] <= Cap /\ (Sending(q) \/ Receiving(q))
  BY Working DEF worker_input, IInv, Phases, Phase
<1>2. PICK n \in 0..inq[q] :
        /\ n <= Cap - nbuffer[q]
        /\ inq' = [inq EXCEPT ![q] = @ - n]
        /\ nbuffer' = [nbuffer EXCEPT ![q] = @ + n]
        /\ \/ /\ n = 0 /\ worker' = [worker EXCEPT ![q] = "gone"]
              /\ mask' = [mask EXCEPT ![q] = {}] /\ evfd' = evfd
           \/ /\ n > 0 /\ ~Complete(q, nbuffer[q] + n)
              /\ UNCHANGED <<worker, mask, evfd>>
           \/ /\ n > 0 /\ Complete(q, nbuffer[q] + n)
              /\ worker' = [worker EXCEPT ![q] = "done"]
              /\ mask' = [mask EXCEPT ![q] = {}] /\ evfd' = evfd + 1
  <2>1. PICK n \in 0..inq[q] :
          /\ n <= Cap - nbuffer[q]
          /\ inq' = [inq EXCEPT ![q] = @ - n]
          /\ nbuffer' = [nbuffer EXCEPT ![q] = @ + n]
          /\ \/ n = 0 /\ tcpdns_worker_destroy(q)
             \/ /\ n > 0 /\ ~(n > 0 /\ Complete(q, nbuffer[q] + n))
                /\ UNCHANGED <<worker, mask>>
             \/ /\ n > 0 /\ Complete(q, nbuffer[q] + n)
                /\ worker' = [worker EXCEPT ![q] = "done"]
                /\ mask' = [mask EXCEPT ![q] = {}]
          /\ evfd' = IF n > 0 THEN Raise(n > 0 /\ Complete(q, nbuffer[q] + n)) ELSE evfd
    BY DEF worker_input
  <2>2. ~ (0 > 0)
    OBVIOUS
  <2> QED BY <2>1, <2>2 DEF Raise, tcpdns_worker_destroy
<1>3. n \in Nat /\ inq[q] \in Nat /\ nbuffer[q] \in Nat /\ srvgot[q] \in Nat
      /\ srvsent[q] \in Nat /\ Size[q] \in Nat /\ Reply[q] \in Nat
  BY <1>2 DEF IInv, TypeOK
<1>4. n > 0 => Receiving(q)
  BY <1>1, <1>2, <1>3 DEF Sending, Silent
<1>5. nbuffer'[q] = nbuffer[q] + n /\ inq'[q] = inq[q] - n /\ nbuffer'[q] <= Cap
  BY <1>2, <1>3 DEF IInv, TypeOK
<1>6. TypeOK'
  BY <1>1, <1>2, <1>3 DEF IInv, TypeOK
<1>7. CASE n = 0 /\ worker' = [worker EXCEPT ![q] = "gone"] /\ evfd' = evfd
  <2>1. SemaphoreExact'
    BY <1>1, <1>7, SemaphoreFrame DEF IInv
  <2>2. Phase(q)'
    BY <1>1, <1>7 DEF IInv, TypeOK, Phase
  <2>3. Phases'
    BY <1>1, <1>2, <1>7, <2>2, PhasesFrame DEF IInv, TypeOK, Untouched
  <2> QED BY <1>6, <2>1, <2>3 DEF IInv
<1>8. CASE n > 0 /\ UNCHANGED <<worker, mask, evfd>>
  <2>1. SemaphoreExact'
    BY <1>1, <1>8 DEF IInv, SemaphoreExact, Done
  <2>2. Receiving(q)'
    BY <1>1, <1>3, <1>4, <1>5, <1>8 DEF Receiving
  <2>3. Phase(q)'
    BY <1>1, <1>5, <1>8, <2>2 DEF Phase
  <2>4. Phases'
    BY <1>1, <1>2, <1>8, <2>3, PhasesFrame DEF IInv, TypeOK, Untouched
  <2> QED BY <1>6, <2>1, <2>4 DEF IInv
<1>9. CASE /\ n > 0 /\ Complete(q, nbuffer[q] + n) /\ evfd' = evfd + 1
           /\ worker' = [worker EXCEPT ![q] = "done"]
  <2>1. SemaphoreExact'
    <3>1. Done' = Done \cup {q} /\ q \notin Done
      BY <1>1, <1>9 DEF Done, IInv, TypeOK
    <3>2. Cardinality(Done \cup {q}) = Cardinality(Done) + 1
      BY <3>1, DoneFinite, FS_AddElement
    <3> QED BY <1>1, <1>9, <3>1, <3>2 DEF IInv, SemaphoreExact
  <2>2. nbuffer[q] + n = Reply[q] + 2 /\ srvgot[q] = Size[q] + 2
    BY <1>2, <1>3, <1>4, <1>9 DEF Receiving, Complete
  <2>3. Phase(q)'
    BY <1>1, <1>5, <1>9, <2>2 DEF IInv, TypeOK, Phase
  <2>4. Phases'
    BY <1>1, <1>2, <1>9, <2>3, PhasesFrame DEF IInv, TypeOK, Untouched
  <2> QED BY <1>6, <2>1, <2>4 DEF IInv
<1> QED BY <1>2, <1>7, <1>8, <1>9

\* send() from the buffer, which is the query's as long as EPOLLOUT is polled for.
LEMMA OutputKeeps ==
  ASSUME IInv, NEW q \in Queries, worker_output(q)
  PROVE  IInv'
<1>1. /\ worker[q] = "open" /\ "OUT" \in mask[q] /\ master # "freed" /\ answer[q] = NoAnswer
      /\ UNCHANGED <<master, evfd, worker, inq, sockerr, srvsent, srvshut, answer>>
  BY Working DEF worker_output, sockvars
<1>2. nbuffer[q] <= Cap /\ Sending(q)
  BY <1>1 DEF IInv, Phases, Phase, Receiving
<1>3. PICK n \in 1..nbuffer[q] :
        /\ nbuffer' = [nbuffer EXCEPT ![q] = nbuffer[q] - n]
        /\ mask' = [mask EXCEPT ![q] = SendMask(q, nbuffer[q] - n)]
        /\ srvgot' = [srvgot EXCEPT ![q] = @ + n]
  BY DEF worker_output, Unsent
<1>4. /\ n \in Nat /\ n > 0 /\ n <= nbuffer[q] /\ nbuffer[q] \in Nat /\ srvgot[q] \in Nat
      /\ Size[q] \in Nat /\ Reply[q] \in Nat /\ Cap \in Nat
  <2>1. /\ nbuffer[q] \in Nat /\ srvgot[q] \in Nat
        /\ Size[q] \in Nat /\ Reply[q] \in Nat /\ Cap \in Nat
    BY DnsAssumption DEF IInv, TypeOK
  <2> QED BY <1>3, <2>1
<1>5. TypeOK'
  BY <1>1, <1>3, <1>4 DEF IInv, TypeOK, SendMask
<1>6. SemaphoreExact'
  BY <1>1 DEF IInv, SemaphoreExact, Done
<1>7. Phase(q)'
  <2>1. /\ nbuffer'[q] = nbuffer[q] - n /\ mask'[q] = SendMask(q, nbuffer[q] - n)
        /\ srvgot'[q] = srvgot[q] + n
    BY <1>3 DEF IInv, TypeOK
  <2>2. CASE nbuffer[q] = n
    <3>1. Receiving(q)'
      BY <1>1, <1>2, <1>4, <2>1, <2>2 DEF Sending, Receiving, Silent, SendMask
    <3> QED BY <1>1, <1>2, <1>4, <2>1, <3>1 DEF Phase
  <2>3. CASE nbuffer[q] # n
    <3>1. Sending(q)'
      BY <1>1, <1>2, <1>4, <2>1, <2>3 DEF Sending, Silent, SendMask
    <3> QED BY <1>1, <1>2, <1>4, <2>1, <3>1 DEF Phase
  <2> QED BY <2>2, <2>3
<1>8. Phases'
  BY <1>1, <1>3, <1>7, PhasesFrame DEF IInv, TypeOK, Untouched
<1> QED BY <1>5, <1>6, <1>8 DEF IInv

\* The nameserver answers a whole query, so the buffer is the answer's by then.
LEMMA SrvSendKeeps ==
  ASSUME IInv, NEW q \in Queries, srv_send(q)
  PROVE  IInv'
<1>1. /\ worker[q] = "open" /\ srvgot[q] = Size[q] + 2 /\ answer[q] = NoAnswer
      /\ UNCHANGED <<master, evfd, worker, nbuffer, mask, sockerr, srvgot, srvshut, answer>>
  BY Working DEF srv_send
<1>2. PICK n \in 1..(Reply[q] + 2 - srvsent[q]) :
        /\ srvsent' = [srvsent EXCEPT ![q] = @ + n]
        /\ inq' = [inq EXCEPT ![q] = @ + n]
  BY DEF srv_send
<1>3. /\ Size[q] \in Nat /\ Reply[q] \in Nat /\ srvsent[q] \in Nat /\ inq[q] \in Nat
      /\ nbuffer[q] \in Nat
  BY DnsAssumption DEF IInv, TypeOK
<1>4. n \in Nat /\ srvsent[q] + n <= Reply[q] + 2
  BY <1>2, <1>3
<1>5. nbuffer[q] <= Cap /\ Receiving(q)
  BY <1>1, <1>3 DEF IInv, Phases, Phase, Sending
<1>6. TypeOK'
  BY <1>1, <1>2, <1>3, <1>4 DEF IInv, TypeOK
<1>7. SemaphoreExact'
  BY <1>1 DEF IInv, SemaphoreExact, Done
<1>8. Phase(q)'
  <2>1. srvsent'[q] = srvsent[q] + n /\ inq'[q] = inq[q] + n
    BY <1>2 DEF IInv, TypeOK
  <2>2. Receiving(q)'
    BY <1>1, <1>3, <1>4, <1>5, <2>1 DEF Receiving
  <2> QED BY <1>1, <1>5, <2>2 DEF Phase
<1>9. Phases'
  BY <1>1, <1>2, <1>8, PhasesFrame DEF IInv, TypeOK, Untouched
<1> QED BY <1>6, <1>7, <1>9 DEF IInv

\* A connection that is closed or fails moves no byte.
LEMMA NetworkKeeps ==
  ASSUME IInv, NEW q \in Queries, srv_close(q) \/ net_error(q)
  PROVE  IInv'
<1>1. UNCHANGED <<master, evfd, worker, nbuffer, mask, inq, srvgot, srvsent, answer>>
  BY DEF srv_close, net_error, sockvars, srvvars
<1>2. TypeOK'
  BY <1>1 DEF srv_close, net_error, sockvars, srvvars, IInv, TypeOK
<1>3. SemaphoreExact'
  BY <1>1 DEF IInv, SemaphoreExact, Done
<1>4. Phases'
  BY <1>1 DEF IInv, Phases, Phase, Sending, Receiving, Silent
<1> QED BY <1>2, <1>3, <1>4 DEF IInv

-----------------------------------------------------------------------------
\* tcpdns_create() leaves no worker and an eventfd of 0.
LEMMA InitIInv ==
  ASSUME Init
  PROVE  IInv
<1>1. TypeOK
  BY DEF Init, TypeOK
<1>2. SemaphoreExact
  <2>1. Done = {}
    BY DEF Init, Done
  <2> QED BY <2>1, FS_EmptySet DEF Init, SemaphoreExact
<1>3. Phases
  BY DEF Init, Phases, Phase, Silent
<1> QED BY <1>1, <1>2, <1>3 DEF IInv

\* Every step of the master, the workers and the nameserver keeps it.
LEMMA NextIInv ==
  ASSUME IInv, [Next]_vars
  PROVE  IInv'
<1>1. ASSUME NEW q \in Queries,
             \/ tcpdns_send(q) \/ tcpdns_send_error(q)
             \/ WorkerStep(q)
             \/ srv_send(q) \/ srv_close(q) \/ net_error(q)
      PROVE  IInv'
  BY <1>1, SendKeeps, DestroyKeeps, ConnectedKeeps, InputKeeps, OutputKeeps, SrvSendKeeps,
     NetworkKeeps DEF tcpdns_send_error, WorkerStep
<1>2. CASE tcpdns_recv \/ tcpdns_put
  BY <1>2, RecvKeeps, DestroyKeeps DEF tcpdns_put
<1>3. CASE UNCHANGED vars
  BY <1>3 DEF vars, sockvars, srvvars, IInv, TypeOK, SemaphoreExact, Done, Phases, Phase, Sending,
     Receiving, Silent
<1> QED BY <1>1, <1>2, <1>3 DEF Next

\* The inductive invariant of DNS over TCP: types, the semaphore, and whose bytes
\* each worker's buffer holds.
THEOREM Invariance == Spec => []IInv
<1>1. Init => IInv
  BY InitIInv
<1>2. IInv /\ [Next]_vars => IInv'
  BY NextIInv
<1> QED BY <1>1, <1>2, PTL DEF Spec

\* The eventfd counts the answers that wait, and no worker outlives its master
\* (tcpdns_worker_handle_event(), tcpdns_recv(), tcpdns_destroy_internal()).
THEOREM SemaphoreIsExact == Spec => []SemaphoreExact
<1>1. IInv => SemaphoreExact
  BY DEF IInv
<1> QED BY <1>1, Invariance, PTL

\* The nameserver gets the query and the application the answer, whole, however
\* TCP cuts the streams; the buffer is never overrun and never holds both.
THEOREM MessagesAreWhole == Spec => []MessagesWhole
<1>1. ASSUME IInv PROVE MessagesWhole
  <2> SUFFICES ASSUME NEW q \in Queries
               PROVE  /\ answer[q] # NoAnswer => answer[q] = Reply[q] /\ srvgot[q] = Size[q] + 2
                      /\ worker[q] = "open" =>
                           /\ nbuffer[q] <= Cap
                           /\ \/ srvgot[q] + nbuffer[q] = Size[q] + 2 /\ srvsent[q] = 0
                              \/ srvgot[q] = Size[q] + 2 /\ nbuffer[q] + inq[q] = srvsent[q]
    BY DEF MessagesWhole
  <2> QED BY <1>1 DEF IInv, Phases, Phase, Sending, Receiving, Silent
<1> QED BY <1>1, Invariance, PTL

\* A query is answered at most once: an answer that the application has is not
\* given again and not replaced, since a worker that gave one is destroyed.
THEOREM AnsweredOnce ==
  Spec => [][\A q \in Queries : answer[q] # NoAnswer => answer'[q] = answer[q]]_vars
<1>1. ASSUME IInv, [Next]_vars, NEW q \in Queries, answer[q] # NoAnswer
      PROVE  answer'[q] = answer[q]
  <2>1. worker[q] # "done"
    BY <1>1 DEF IInv, Phases, Phase
  <2>2. CASE tcpdns_recv
    BY <1>1, <2>1, <2>2 DEF tcpdns_recv, Done, IInv, TypeOK
  <2>3. CASE ~tcpdns_recv
    <3>1. UNCHANGED answer
      BY <1>1, <2>3 DEF Next, WorkerStep, tcpdns_send, tcpdns_send_error, connected, worker_error,
         worker_input, worker_output, srv_send, srv_close, net_error, tcpdns_put, vars
    <3> QED BY <3>1
  <2> QED BY <2>2, <2>3
<1>2. IInv /\ [Next]_vars =>
        [\A q \in Queries : answer[q] # NoAnswer => answer'[q] = answer[q]]_vars
  BY <1>1
<1> QED BY <1>2, Invariance, PTL DEF Spec
=============================================================================
