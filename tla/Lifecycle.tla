----------------------------- MODULE Lifecycle -----------------------------
(***************************************************************************)
(* The processes of nsproxy, from fork() to exit (src/main.c: send_fd,     *)
(* recv_fd, setup_signalfd, parent, child; src/loop.c: loop_run and        *)
(* sigfd_handler).  The child builds the network namespace, hands its TUN  *)
(* descriptor to the parent over a socketpair, waits for one byte and      *)
(* becomes the application; the parent serves the application's traffic    *)
(* until waitpid() says that it has no child left.  The application forks  *)
(* freely, its orphans fall to the parent, which is their subreaper.       *)
(* Signals, waitpid() and reparenting are the kernel's, modelled from how  *)
(* the code uses them.                                                     *)
(***************************************************************************)
EXTENDS Integers

CONSTANTS Procs,   \* the processes below the parent
          Target,  \* the one that main() forks: child(), then the application
          Codes    \* exit statuses of processes, 0 and 1 among them

\* The parent as a waitpid() parent; the host's init, for orphans of a parent
\* that could not become a subreaper; the status of a death by SIGPIPE.
Nsproxy == "nsproxy"
HostInit == "init"
KilledBySigpipe == 128 + 13
NoStatus == -1

\* Process numbers: the parent and init are not below the parent.
ProcsAssumption == Target \in Procs /\ Nsproxy \notin Procs /\ HostInit \notin Procs

VARIABLES
  parent,     \* what parent() does next; "poll" is epoll_wait(), "reap" the
              \* waitpid() loop of sigfd_handler(), "done" a dead parent
  child,      \* what the forked process does next; "app" after execvp()
  fdsent,     \* the TUN descriptor lies unread in the socketpair
  ready,      \* the ready byte has been written to the socketpair
  subreaper,  \* prctl(PR_SET_CHILD_SUBREAPER) worked
  masked,     \* SIGCHLD is blocked and goes to the signalfd
  pending,    \* SIGCHLD is pending on the signalfd
  state,      \* process -> "none", "alive", "zombie" or "reaped"
  ppid,       \* process -> the one whose waitpid() finds it
  stat,       \* process -> its exit status
  exitcode,   \* local variable of sigfd_handler()
  status,     \* the status nsproxy itself exits with
  served,     \* the parent ended by leaving its event loop
  last        \* the process reaped last by the parent

sockVars == <<fdsent, ready>>
procVars == <<state, ppid, stat>>
loopVars == <<exitcode, status, served, last>>
vars == <<parent, child, sockVars, subreaper, masked, pending, procVars, loopVars>>

Children(p) == {q \in Procs : ppid[q] = p /\ state[q] \in {"alive", "zombie"}}
Zombies(p) == {q \in Children(p) : state[q] = "zombie"}

Init ==
  /\ parent = "recv" /\ child = "setup"
  /\ fdsent = FALSE /\ ready = FALSE
  /\ subreaper \in BOOLEAN
  /\ masked = FALSE /\ pending = FALSE
  /\ state = [p \in Procs |-> IF p = Target THEN "alive" ELSE "none"]
  /\ ppid = [p \in Procs |-> Nsproxy]
  /\ stat = [p \in Procs |-> NoStatus]
  /\ exitcode = 0 /\ status = NoStatus /\ served = FALSE /\ last = Target

-----------------------------------------------------------------------------
(* The kernel's part of a death: the process becomes a zombie, its children  *)
(* get a new parent, and whoever may now wait() for a zombie gets a SIGCHLD, *)
(* which the parent sees only when it has blocked the signal.                *)

Heir == IF subreaper THEN Nsproxy ELSE HostInit

SigchldTo(p) ==
  \/ ppid[p] = Nsproxy
  \/ Heir = Nsproxy /\ Zombies(p) # {}

Die(p, c) ==
  /\ state' = [state EXCEPT ![p] = "zombie"]
  /\ stat' = [stat EXCEPT ![p] = c]
  /\ ppid' = [q \in Procs |-> IF q \in Children(p) THEN Heir ELSE ppid[q]]
  /\ pending' = (pending \/ (masked /\ SigchldTo(p)))

\* exit() of the forked process before it is the application.
ChildExit(c) ==
  /\ Die(Target, c)
  /\ UNCHANGED <<parent, child, sockVars, subreaper, masked, loopVars>>

ChildRuns(where) == child = where /\ state[Target] = "alive"

-----------------------------------------------------------------------------
(* child() *)

\* Namespaces, /etc files, loopback and TUN: any of it may call exit().
child_setup_fails == ChildRuns("setup") /\ ChildExit(1)

\* A parent that is gone turns sendmsg() into SIGPIPE.
send_fd ==
  /\ ChildRuns("setup")
  /\ IF parent = "done"
     THEN ChildExit(KilledBySigpipe)
     ELSE /\ child' = "wait" /\ fdsent' = TRUE
          /\ UNCHANGED <<parent, ready, subreaper, masked, pending, procVars,
                         loopVars>>

\* read() returns 0 once both ends that the parent had are closed.
EofSeen == ~ready /\ parent = "done"

child_wait_ready ==
  /\ ChildRuns("wait")
  /\ \/ /\ ready
        /\ child' = "exec"
        /\ UNCHANGED <<parent, sockVars, subreaper, masked, pending, procVars,
                       loopVars>>
     \/ EofSeen /\ ChildExit(1)

child_execvp ==
  /\ ChildRuns("exec")
  /\ \/ /\ child' = "app"
        /\ UNCHANGED <<parent, sockVars, subreaper, masked, pending, procVars,
                       loopVars>>
     \/ ChildExit(1)

ChildStep == child_setup_fails \/ send_fd \/ child_wait_ready \/ child_execvp

-----------------------------------------------------------------------------
(* The application: it forks, waits for its own children, stops, exits or is *)
(* killed; a signal from outside can also end the forked process early.      *)

Fork(p, q) ==
  /\ child = "app" /\ state[p] = "alive" /\ state[q] = "none"
  /\ state' = [state EXCEPT ![q] = "alive"]
  /\ ppid' = [ppid EXCEPT ![q] = p]
  /\ UNCHANGED <<parent, child, sockVars, subreaper, masked, pending, stat,
                 loopVars>>

AppWaits(p, q) ==
  /\ state[p] = "alive" /\ q \in Zombies(p)
  /\ state' = [state EXCEPT ![q] = "reaped"]
  /\ UNCHANGED <<parent, child, sockVars, subreaper, masked, pending, ppid, stat,
                 loopVars>>

Exit(p, c) ==
  /\ state[p] = "alive"
  /\ Die(p, c)
  /\ UNCHANGED <<parent, child, sockVars, subreaper, masked, loopVars>>

\* SIGCHLD also tells of a child that stopped or continued.
Stops(p) ==
  /\ state[p] = "alive" /\ ppid[p] = Nsproxy /\ masked /\ ~pending
  /\ pending' = TRUE
  /\ UNCHANGED <<parent, child, sockVars, subreaper, masked, procVars, loopVars>>

AppStep ==
  \E p \in Procs :
    \/ \E q \in Procs : Fork(p, q) \/ AppWaits(p, q)
    \/ \E c \in Codes : Exit(p, c)
    \/ Stops(p)

-----------------------------------------------------------------------------
(* parent() *)

\* The end of the parent, by exit() or by a signal.
ParentEnds(c) ==
  /\ parent' = "done" /\ status' = c
  /\ UNCHANGED <<child, sockVars, subreaper, masked, pending, procVars, exitcode,
                 served, last>>

\* recvmsg() returns 0 when the child has closed its end by dying.
recv_fd ==
  /\ parent = "recv"
  /\ \/ /\ fdsent
        /\ parent' = "signalfd" /\ fdsent' = FALSE
        /\ UNCHANGED <<child, ready, subreaper, masked, pending, procVars,
                       loopVars>>
     \/ /\ ~fdsent /\ state[Target] # "alive"
        /\ ParentEnds(1)

setup_signalfd ==
  /\ parent = "signalfd"
  /\ parent' = "loop" /\ masked' = TRUE
  /\ UNCHANGED <<child, sockVars, subreaper, pending, procVars, loopVars>>

loop_init ==
  /\ parent = "loop"
  /\ parent' = "core"
  /\ UNCHANGED <<child, sockVars, subreaper, masked, pending, procVars, loopVars>>

core_init ==
  /\ parent = "core"
  /\ parent' = "ready"
  /\ UNCHANGED <<child, sockVars, subreaper, masked, pending, procVars, loopVars>>

\* recv_fd(), setup_signalfd(), loop_init() and core_init() may also fail.
parent_init_fails ==
  /\ parent \in {"recv", "signalfd", "loop", "core"}
  /\ ParentEnds(1)

\* Mutant of ReadyWritten: a failed write goes unnoticed.
ReadyIgnored(open) ==
  /\ parent' = "poll" /\ ready' = TRUE
  /\ UNCHANGED <<child, fdsent, subreaper, masked, pending, procVars, loopVars>>

ReadyWritten(open) ==
  IF open
  THEN /\ parent' = "poll" /\ ready' = TRUE
       /\ UNCHANGED <<child, fdsent, subreaper, masked, pending, procVars, loopVars>>
  ELSE ParentEnds(KilledBySigpipe)

\* The other end is open exactly as long as the child lives: only after the
\* byte does it close it.
write_ready ==
  /\ parent = "ready"
  /\ ReadyWritten(state[Target] = "alive")

\* loop_run() dispatches the signalfd: sigfd_handler() reads it first.
read_sigfd ==
  /\ parent = "poll" /\ pending
  /\ parent' = "reap" /\ pending' = FALSE /\ exitcode' = 0
  /\ UNCHANGED <<child, sockVars, subreaper, masked, procVars, status, served, last>>

\* Mutant of KeepReaping: one waitpid() per SIGCHLD.
ReapOne == "poll"

\* The loop of sigfd_handler() goes on after a child.
KeepReaping == "reap"

\* The status is overwritten for every child.
LastCode(c) == c

\* One call of waitpid(-1, &stat, WNOHANG) that finds a dead child.
waitpid_reaps ==
  /\ parent = "reap"
  /\ \E p \in Zombies(Nsproxy) :
       /\ state' = [state EXCEPT ![p] = "reaped"]
       /\ exitcode' = LastCode(stat[p]) /\ last' = p
  /\ parent' = KeepReaping
  /\ UNCHANGED <<child, sockVars, subreaper, masked, pending, ppid, stat, status,
                 served>>

\* Mutant of NoChild: the parent leaves when the command has ended.
NoTarget == state[Target] = "reaped"

NoChild == Children(Nsproxy) = {}

\* ECHILD ends the loop with the last status; 0 goes back to epoll_wait().
waitpid_ends ==
  /\ parent = "reap" /\ Zombies(Nsproxy) = {}
  /\ IF NoChild
     THEN /\ parent' = "done" /\ status' = exitcode /\ served' = TRUE
     ELSE /\ parent' = "poll" /\ UNCHANGED <<status, served>>
  /\ UNCHANGED <<child, sockVars, subreaper, masked, pending, procVars, exitcode,
                 last>>

ParentStep ==
  \/ recv_fd \/ setup_signalfd \/ loop_init \/ core_init \/ parent_init_fails
  \/ write_ready \/ read_sigfd \/ waitpid_reaps \/ waitpid_ends

-----------------------------------------------------------------------------
Next == ChildStep \/ AppStep \/ ParentStep

Spec == Init /\ [][Next]_vars

\* Both processes are scheduled; the application owes nobody anything.
FairSpec == Spec /\ WF_vars(ParentStep) /\ WF_vars(ChildStep)

-----------------------------------------------------------------------------
(* Properties *)

Alive == {p \in Procs : state[p] = "alive"}

\* No death is missed: while the event loop waits, a child of the parent that
\* has died has its SIGCHLD pending, however deaths, the start-up handshake and
\* sigfd_handler()'s waitpid() calls interleave (the comment in child() on the
\* ready byte names this race).
NoLostDeath == parent = "poll" /\ Zombies(Nsproxy) # {} => pending

\* The application has its network: as long as a process of it lives, the
\* parent has finished its initialisation and is in its event loop, also when
\* the command itself has ended and only daemons are left ("nsproxy exits
\* after all child processes exit").  A parent that leaves its loop exits with
\* the status of the child it reaped last, which is the promise on top of
\* sigfd_handler().
AppServed ==
  /\ subreaper /\ child = "app" /\ Alive # {} => parent \in {"poll", "reap"}
  /\ served => status = stat[last] /\ state[last] = "reaped"

\* nsproxy ends: once every process below it is dead, so is, sooner or later,
\* the parent, whichever start-up step the death fell on; and the start-up
\* handshake never hangs: the child that waits for its byte becomes the
\* application or ends.
ParentFollows ==
  /\ (Alive = {}) ~> (parent = "done")
  /\ (child = "wait") ~> (child = "app" \/ state[Target] # "alive")
=============================================================================
