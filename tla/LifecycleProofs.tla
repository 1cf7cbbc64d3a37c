-------------------------- MODULE LifecycleProofs --------------------------
(***************************************************************************)
(* The safety properties of Lifecycle, for any set of processes: no death   *)
(* is missed, and the application is served until its last process ends.    *)
(*                                                                          *)
(* The inductive invariant has three parts.  Startup: how far parent, child *)
(* and the ready byte can be apart.  Family: every process that is not      *)
(* reaped hangs, over living processes, from the parent or from init; there *)
(* is no cycle.  Waiting: what the event loop and the waitpid() loop may    *)
(* rely on.                                                                 *)
(***************************************************************************)
EXTENDS Lifecycle, TLAPS

Starting == {"recv", "signalfd", "loop", "core", "ready"}
Live == {p \in Procs : state[p] \in {"alive", "zombie"}}

TypeOK ==
  /\ parent \in Starting \cup {"poll", "reap", "done"}
  /\ child \in {"setup", "wait", "exec", "app"}
  /\ {fdsent, ready, subreaper, masked, pending, served} \subseteq BOOLEAN
  /\ state \in [Procs -> {"none", "alive", "zombie", "reaped"}]
  /\ ppid \in [Procs -> Procs \cup {Nsproxy, HostInit}]
  /\ stat \in [Procs -> Codes \cup {NoStatus, 1, KilledBySigpipe}]
  /\ last \in Procs

Startup ==
  /\ parent \in Starting => ~ready /\ ~served
  /\ parent \in {"poll", "reap"} => ready /\ ~served
  /\ parent = "done" /\ ready => served
  /\ child \in {"exec", "app"} => ready
  /\ child # "app" => \A p \in Procs \ {Target} : state[p] = "none"
  /\ parent \in {"loop", "core", "ready", "poll", "reap"} => masked
  /\ state[Target] # "none" /\ ppid[Target] = Nsproxy

Family ==
  /\ \A p \in Live : ppid[p] \in Procs => state[ppid[p]] = "alive"
  /\ subreaper => \A p \in Live : ppid[p] # HostInit
  /\ \A S \in SUBSET Live : S # {} => \E p \in S : ppid[p] \notin S

Waiting ==
  /\ parent = "poll" => Children(Nsproxy) # {}
  /\ parent = "reap" => \/ Children(Nsproxy) # {}
                        \/ state[last] = "reaped" /\ exitcode = stat[last]
  /\ served => status = stat[last] /\ state[last] = "reaped"
  /\ served /\ subreaper => Alive = {}
  /\ NoLostDeath

IInv == TypeOK /\ Startup /\ Family /\ Waiting
----------------------------------------------------------------------------
(* A death: of the forked process before execvp(), or of any process of the *)
(* application.                                                             *)

\* A process that dies passes its children on, and nobody loses their parent.
LEMMA DieFamily ==
  ASSUME ProcsAssumption, IInv, NEW p \in Procs, state[p] = "alive", NEW c, Die(p, c),
         UNCHANGED subreaper
  PROVE  Family'
<1> USE DEF ProcsAssumption, IInv, TypeOK
<1>1. /\ Live' = Live
      /\ \A q \in Procs : state'[q] = IF q = p THEN "zombie" ELSE state[q]
      /\ \A q \in Procs : ppid'[q] = IF q \in Children(p) THEN Heir ELSE ppid[q]
  BY DEF Die, Live
<1>2. Heir \notin Procs
  BY DEF Heir
<1>3. ASSUME NEW q \in Live, ppid'[q] \in Procs
      PROVE  state'[ppid'[q]] = "alive"
  <2>1. q \notin Children(p) /\ ppid'[q] = ppid[q]
    BY <1>1, <1>2, <1>3 DEF Live
  <2>2. ppid[q] # p
    BY <2>1 DEF Children, Live
  <2> QED
    BY <1>1, <1>3, <2>1, <2>2 DEF Family
<1>4. ASSUME subreaper, NEW q \in Live
      PROVE  ppid'[q] # HostInit
  BY <1>1, <1>4 DEF Family, Heir, Live, Nsproxy, HostInit
<1>5. ASSUME NEW S \in SUBSET Live, S # {}
      PROVE  \E q \in S : ppid'[q] \notin S
  <2>1. CASE S \cap Children(p) # {}
    BY <1>1, <1>2, <2>1 DEF Live
  <2>2. CASE S \cap Children(p) = {}
    <3>1. PICK q \in S : ppid[q] \notin S
      BY <1>5 DEF Family
    <3> QED
      BY <1>1, <2>2, <3>1 DEF Live
  <2> QED BY <2>1, <2>2
<1> QED
  BY <1>1, <1>3, <1>4, <1>5 DEF Family

\* Its death is pending for the parent that waitpid() of nsproxy looks at.
LEMMA DieWaiting ==
  ASSUME ProcsAssumption, IInv, NEW p \in Procs, state[p] = "alive", NEW c, Die(p, c),
         UNCHANGED <<parent, subreaper, masked, loopVars>>
  PROVE  Waiting'
<1> USE DEF ProcsAssumption, IInv, TypeOK
<1>1. /\ \A q \in Procs : state'[q] = IF q = p THEN "zombie" ELSE state[q]
      /\ \A q \in Procs : ppid'[q] = IF q \in Children(p) THEN Heir ELSE ppid[q]
      /\ \A q \in Procs \ {p} : stat'[q] = stat[q]
      /\ UNCHANGED <<parent, subreaper, masked, exitcode, status, served, last>>
  BY DEF Die, loopVars
<1>2. Children(Nsproxy) \subseteq Children(Nsproxy)'
  BY <1>1 DEF Children
<1>3. last # p \/ state[last] # "reaped"
  OBVIOUS
<1>4. parent = "poll" => Children(Nsproxy)' # {}
  BY <1>2 DEF Waiting
<1>5. parent = "reap" => \/ Children(Nsproxy)' # {}
                         \/ state'[last] = "reaped" /\ exitcode = stat'[last]
  BY <1>1, <1>2, <1>3 DEF Waiting
<1>6. served => status = stat'[last] /\ state'[last] = "reaped"
  BY <1>1, <1>3 DEF Waiting
<1>7. served /\ subreaper => Alive' = {}
  BY <1>1 DEF Waiting, Alive
<1>8. NoLostDeath'
  <2>1. ASSUME parent = "poll", NEW q \in Zombies(Nsproxy)'
        PROVE  pending'
    <3>1. masked
      BY <2>1 DEF Startup
    <3>2. q \in Procs /\ state'[q] = "zombie" /\ ppid'[q] = Nsproxy
      BY <2>1 DEF Zombies, Children
    <3>3. CASE q = p
      <4>1. p \notin Children(p)
        <5>1. {p} \in SUBSET Live /\ {p} # {}
          BY DEF Live
        <5>2. ppid[p] # p
          BY <5>1 DEF Family
        <5> QED BY <5>2 DEF Children
      <4> QED BY <1>1, <3>1, <3>2, <3>3, <4>1 DEF Die, SigchldTo
    <3>4. CASE q # p /\ q \in Children(p)
      <4>1. q \in Zombies(p) /\ Heir = Nsproxy
        BY <1>1, <3>2, <3>4 DEF Zombies
      <4> QED BY <3>1, <4>1 DEF Die, SigchldTo
    <3>5. CASE q # p /\ q \notin Children(p)
      <4>1. q \in Zombies(Nsproxy)
        BY <1>1, <3>2, <3>5 DEF Zombies, Children
      <4> QED BY <2>1, <4>1 DEF Die, Waiting, NoLostDeath
    <3> QED BY <3>3, <3>4, <3>5
  <2> QED BY <1>1, <2>1 DEF NoLostDeath
<1> QED
  BY <1>1, <1>4, <1>5, <1>6, <1>7, <1>8 DEF Waiting

\* The death of any process of the command keeps the invariant.
LEMMA DieKeeps ==
  ASSUME ProcsAssumption, IInv, NEW p \in Procs, state[p] = "alive",
         NEW c \in Codes \cup {1, KilledBySigpipe}, Die(p, c),
         UNCHANGED <<parent, child, sockVars, subreaper, masked, loopVars>>
  PROVE  IInv'
<1>1. TypeOK'
  BY DEF IInv, TypeOK, Die, sockVars, loopVars, Heir
<1>2. Startup'
  <2>1. Target \notin Children(p)
    BY DEF ProcsAssumption, IInv, Startup, Children
  <2> QED
    BY <2>1 DEF ProcsAssumption, IInv, TypeOK, Startup, Die, sockVars, loopVars
<1> QED
  BY <1>1, <1>2, DieFamily, DieWaiting DEF IInv

----------------------------------------------------------------------------
(* The other steps of the processes below the parent. *)

\* Parents and deaths are the kernel's: nothing else touches the family.
LEMMA FamilyUnchanged ==
  ASSUME Family, UNCHANGED <<procVars, subreaper>>
  PROVE  Family'
BY DEF Family, Live, procVars

\* Reaping a zombie, whoever does it, takes a leaf from the family.
LEMMA ReapFamily ==
  ASSUME IInv, NEW q \in Procs, state[q] = "zombie",
         state' = [state EXCEPT ![q] = "reaped"], UNCHANGED <<ppid, subreaper>>
  PROVE  Family'
<1>1. Live' \subseteq Live
  BY DEF Live, IInv, TypeOK
<1>2. ASSUME NEW p \in Live', ppid[p] \in Procs
      PROVE  state'[ppid[p]] = "alive"
  BY <1>1, <1>2 DEF IInv, TypeOK, Family
<1>3. ASSUME NEW S \in SUBSET Live', S # {}
      PROVE  \E p \in S : ppid[p] \notin S
  BY <1>1, <1>3 DEF IInv, Family
<1> QED
  BY <1>1, <1>2, <1>3 DEF IInv, Family

\* The child between fork() and execvp().
LEMMA ChildRunsKeeps ==
  ASSUME ProcsAssumption, IInv, ChildRuns("setup") \/ ChildRuns("wait") \/ ChildRuns("exec"),
         \/ child' = "wait" /\ fdsent' = TRUE /\ ChildRuns("setup")
         \/ child' = "exec" /\ fdsent' = fdsent /\ ready
         \/ child' = "app" /\ fdsent' = fdsent /\ ChildRuns("exec"),
         UNCHANGED <<parent, ready, subreaper, masked, pending, procVars, loopVars>>
  PROVE  IInv'
<1>1. TypeOK'
  BY DEF IInv, TypeOK, procVars, loopVars
<1>2. Startup'
  BY DEF IInv, Startup, ChildRuns, procVars, loopVars
<1>3. Family'
  BY FamilyUnchanged DEF IInv
<1>4. Waiting'
  BY DEF IInv, Waiting, NoLostDeath, Zombies, Children, Alive, procVars, loopVars
<1> QED BY <1>1, <1>2, <1>3, <1>4 DEF IInv

\* A step of the child: it goes on, or fails and exits.
LEMMA ChildStepKeeps ==
  ASSUME ProcsAssumption, IInv, ChildStep
  PROVE  IInv'
<1> USE DEF ProcsAssumption
<1>1. ASSUME NEW c \in {1, KilledBySigpipe}, state[Target] = "alive", ChildExit(c)
      PROVE  IInv'
  BY <1>1, DieKeeps DEF ChildExit
<1>2. CASE child_setup_fails
  BY <1>1, <1>2 DEF child_setup_fails, ChildRuns
<1>3. CASE send_fd
  <2>1. CASE parent = "done"
    BY <1>1, <1>3, <2>1 DEF send_fd, ChildRuns
  <2>2. CASE parent # "done"
    BY <1>3, <2>2, ChildRunsKeeps DEF send_fd
  <2> QED BY <2>1, <2>2
<1>4. CASE child_wait_ready
  <2>1. CASE EofSeen /\ ChildExit(1)
    BY <1>1, <1>4, <2>1 DEF child_wait_ready, ChildRuns
  <2>2. CASE ready /\ child' = "exec" /\ ~ (EofSeen /\ ChildExit(1))
    BY <1>4, <2>2, ChildRunsKeeps DEF child_wait_ready, sockVars
  <2> QED BY <1>4, <2>1, <2>2 DEF child_wait_ready
<1>5. CASE child_execvp
  <2>1. CASE ChildExit(1)
    BY <1>1, <1>5, <2>1 DEF child_execvp, ChildRuns
  <2>2. CASE ~ChildExit(1)
    BY <1>5, <2>2, ChildRunsKeeps DEF child_execvp, sockVars
  <2> QED BY <2>1, <2>2
<1> QED BY <1>2, <1>3, <1>4, <1>5 DEF ChildStep

\* A process of the command forks.
LEMMA ForkKeeps ==
  ASSUME ProcsAssumption, IInv, NEW p \in Procs, NEW q \in Procs, Fork(p, q)
  PROVE  IInv'
<1> USE DEF ProcsAssumption
<1>1. /\ Live' = Live \cup {q} /\ q \notin Live /\ p \in Live
      /\ \A r \in Procs : state'[r] = IF r = q THEN "alive" ELSE state[r]
      /\ \A r \in Procs : ppid'[r] = IF r = q THEN p ELSE ppid[r]
  BY DEF Fork, IInv, TypeOK, Live
<1>2. TypeOK'
  BY DEF Fork, IInv, TypeOK, sockVars, loopVars
<1>3. Startup'
  BY <1>1 DEF Fork, IInv, Startup, sockVars, loopVars
<1>4. Family'
  <2>1. ASSUME NEW r \in Live', ppid'[r] \in Procs
        PROVE  state'[ppid'[r]] = "alive"
    BY <1>1, <2>1 DEF Fork, IInv, Family, Live
  <2>2. ASSUME subreaper, NEW r \in Live'
        PROVE  ppid'[r] # HostInit
    BY <1>1, <2>2 DEF IInv, Family, Live
  <2>3. ASSUME NEW S \in SUBSET Live', S # {}
        PROVE  \E r \in S : ppid'[r] \notin S
    <3>1. CASE S \ {q} = {}
      <4>1. S = {q} /\ p # q
        BY <1>1, <2>3, <3>1
      <4> QED BY <1>1, <4>1
    <3>2. CASE S \ {q} # {}
      <4>1. PICK r \in S \ {q} : ppid[r] \notin S \ {q}
        <5>1. S \ {q} \in SUBSET Live
          BY <1>1
        <5> QED BY <3>2, <5>1 DEF IInv, Family
      <4>2. r \in Live /\ ppid'[r] = ppid[r]
        BY <1>1, <4>1 DEF Live
      <4>3. ppid[r] # q
        BY <4>2 DEF Fork, IInv, Family
      <4> QED BY <4>1, <4>2, <4>3
    <3> QED BY <3>1, <3>2
  <2>4. UNCHANGED subreaper
    BY DEF Fork
  <2> QED BY <2>1, <2>2, <2>3, <2>4 DEF Family
<1>5. Waiting'
  <2>1. Children(Nsproxy) = Children(Nsproxy)' /\ Zombies(Nsproxy) = Zombies(Nsproxy)'
    BY <1>1 DEF Fork, Children, Zombies, Live
  <2>2. p \in Alive
    BY DEF Fork, Alive
  <2>3. state[last] = "reaped" => state'[last] = "reaped"
    BY <1>1 DEF Fork, IInv, TypeOK
  <2> QED
    BY <2>1, <2>2, <2>3 DEF Fork, IInv, Waiting, NoLostDeath, loopVars
<1> QED BY <1>2, <1>3, <1>4, <1>5 DEF IInv

\* A process of the command waits for a child of its own.
LEMMA AppWaitsKeeps ==
  ASSUME ProcsAssumption, IInv, NEW p \in Procs, NEW q \in Procs, AppWaits(p, q)
  PROVE  IInv'
<1> USE DEF ProcsAssumption
<1>1. /\ state[q] = "zombie" /\ ppid[q] = p
      /\ \A r \in Procs : state'[r] = IF r = q THEN "reaped" ELSE state[r]
  BY DEF AppWaits, Zombies, Children, IInv, TypeOK
<1>2. TypeOK'
  BY DEF AppWaits, IInv, TypeOK, sockVars, loopVars
<1>3. Startup'
  BY <1>1 DEF AppWaits, IInv, Startup, sockVars, loopVars
<1>4. Family'
  BY <1>1, ReapFamily DEF AppWaits
<1>5. Waiting'
  <2>1. Children(Nsproxy) = Children(Nsproxy)' /\ Zombies(Nsproxy) = Zombies(Nsproxy)'
    BY <1>1 DEF AppWaits, Children, Zombies
  <2>2. Alive' = Alive
    BY <1>1 DEF Alive
  <2>3. state[last] = "reaped" => state'[last] = "reaped"
    BY <1>1 DEF IInv, TypeOK
  <2> QED
    BY <2>1, <2>2, <2>3 DEF AppWaits, IInv, Waiting, NoLostDeath, loopVars
<1> QED BY <1>2, <1>3, <1>4, <1>5 DEF IInv

\* A process of the command is stopped or goes on: SIGCHLD without a death.
LEMMA StopsKeeps ==
  ASSUME IInv, NEW p \in Procs, Stops(p)
  PROVE  IInv'
<1>1. TypeOK' /\ Startup'
  BY DEF Stops, IInv, TypeOK, Startup, sockVars, procVars, loopVars
<1>2. Family'
  BY FamilyUnchanged DEF Stops, IInv
<1>3. Waiting'
  BY DEF Stops, IInv, Waiting, NoLostDeath, Zombies, Children, Alive, procVars, loopVars
<1> QED BY <1>1, <1>2, <1>3 DEF IInv

\* Any step of the command.
LEMMA AppStepKeeps ==
  ASSUME ProcsAssumption, IInv, AppStep
  PROVE  IInv'
<1>1. PICK p \in Procs : \/ \E q \in Procs : Fork(p, q) \/ AppWaits(p, q)
                         \/ \E c \in Codes : Exit(p, c)
                         \/ Stops(p)
  BY DEF AppStep
<1>2. ASSUME NEW c \in Codes, Exit(p, c) PROVE IInv'
  BY <1>2, DieKeeps DEF Exit
<1> QED
  BY <1>1, <1>2, ForkKeeps, AppWaitsKeeps, StopsKeeps

----------------------------------------------------------------------------
(* The steps of the parent. *)

\* A parent that is not in its event loop ends without having served.
LEMMA ParentEndsKeeps ==
  ASSUME IInv, parent \in Starting, NEW c, ParentEnds(c)
  PROVE  IInv'
<1>1. TypeOK' /\ Startup'
  BY DEF ParentEnds, Starting, IInv, TypeOK, Startup, sockVars, procVars
<1>2. Family'
  BY FamilyUnchanged DEF ParentEnds, IInv
<1>3. Waiting'
  BY DEF ParentEnds, IInv, Startup, Waiting, NoLostDeath
<1> QED BY <1>1, <1>2, <1>3 DEF IInv

\* The steps of the start-up before the ready byte.
LEMMA StartingKeeps ==
  ASSUME IInv, recv_fd \/ setup_signalfd \/ loop_init \/ core_init \/ parent_init_fails
  PROVE  IInv'
<1>1. ASSUME parent \in Starting, ParentEnds(1) PROVE IInv'
  BY <1>1, ParentEndsKeeps
<1>2. CASE parent_init_fails
  BY <1>1, <1>2 DEF parent_init_fails, Starting
<1>3. CASE recv_fd /\ ~ParentEnds(1)
  <2>1. TypeOK' /\ Startup'
    <3>1. TypeOK'
      BY <1>3 DEF recv_fd, Starting, IInv, TypeOK, procVars, loopVars
    <3>2. Startup'
      BY <1>3 DEF recv_fd, Starting, IInv, Startup, procVars, loopVars
    <3> QED BY <3>1, <3>2
  <2>2. Family'
    BY <1>3, FamilyUnchanged DEF recv_fd, IInv
  <2>3. Waiting'
    BY <1>3 DEF recv_fd, Starting, IInv, Startup, Waiting, NoLostDeath, loopVars
  <2> QED BY <2>1, <2>2, <2>3 DEF IInv
<1>4. CASE recv_fd /\ ParentEnds(1)
  BY <1>1, <1>4 DEF recv_fd, Starting
<1>5. CASE setup_signalfd \/ loop_init \/ core_init
  <2>1. TypeOK' /\ Startup'
    <3>1. TypeOK'
      BY <1>5 DEF setup_signalfd, loop_init, core_init, Starting, IInv, TypeOK,
         sockVars, procVars, loopVars
    <3>2. Startup'
      BY <1>5 DEF setup_signalfd, loop_init, core_init, Starting, IInv, Startup,
         sockVars, procVars, loopVars
    <3> QED BY <3>1, <3>2
  <2>2. Family'
    BY <1>5, FamilyUnchanged DEF setup_signalfd, loop_init, core_init, IInv
  <2>3. Waiting'
    BY <1>5 DEF setup_signalfd, loop_init, core_init, Starting, IInv, Startup, Waiting,
                NoLostDeath, loopVars
  <2> QED BY <2>1, <2>2, <2>3 DEF IInv
<1> QED BY <1>2, <1>3, <1>4, <1>5

\* The byte goes to a child that is alive and has not run the application, so
\* the event loop starts with a child and without a zombie.
LEMMA WriteReadyKeeps ==
  ASSUME ProcsAssumption, IInv, write_ready
  PROVE  IInv'
<1> USE DEF ProcsAssumption
<1>1. parent \in Starting /\ parent = "ready" /\ ~ready /\ child \notin {"exec", "app"}
  BY DEF write_ready, Starting, IInv, Startup
<1>2. CASE state[Target] # "alive"
  BY <1>1, <1>2, ParentEndsKeeps DEF write_ready, ReadyWritten
<1>3. CASE state[Target] = "alive"
  <2>1. /\ parent' = "poll" /\ ready' = TRUE
        /\ UNCHANGED <<child, fdsent, subreaper, masked, pending, procVars, loopVars>>
    BY <1>3 DEF write_ready, ReadyWritten
  <2>2. TypeOK' /\ Startup'
    BY <1>1, <2>1 DEF Starting, IInv, TypeOK, Startup, procVars, loopVars
  <2>3. Family'
    BY <2>1, FamilyUnchanged DEF IInv
  <2>4. Target \in Children(Nsproxy)'
    BY <1>3, <2>1 DEF IInv, Startup, Children, procVars
  <2>5. Zombies(Nsproxy)' = {}
    BY <1>1, <1>3, <2>1 DEF IInv, Startup, Zombies, Children, procVars
  <2>6. Waiting'
    BY <1>1, <2>1, <2>4, <2>5 DEF IInv, Startup, Waiting, NoLostDeath, loopVars
  <2> QED BY <2>2, <2>3, <2>6 DEF IInv
<1> QED BY <1>2, <1>3

\* The loop reads the signalfd, which clears what was pending.
LEMMA ReadSigfdKeeps ==
  ASSUME IInv, read_sigfd
  PROVE  IInv'
<1>1. TypeOK' /\ Startup'
  BY DEF read_sigfd, Starting, IInv, TypeOK, Startup, sockVars, procVars
<1>2. Family'
  BY FamilyUnchanged DEF read_sigfd, IInv
<1>3. Waiting'
  BY DEF read_sigfd, IInv, Startup, Waiting, NoLostDeath, Children, procVars
<1> QED BY <1>1, <1>2, <1>3 DEF IInv

\* waitpid() takes a dead child.
LEMMA WaitpidReapsKeeps ==
  ASSUME ProcsAssumption, IInv, waitpid_reaps
  PROVE  IInv'
<1> USE DEF ProcsAssumption
<1>1. PICK p \in Zombies(Nsproxy) : /\ state' = [state EXCEPT ![p] = "reaped"]
                                    /\ exitcode' = stat[p] /\ last' = p
  BY DEF waitpid_reaps, LastCode
<1>2. /\ p \in Procs /\ state[p] = "zombie"
      /\ \A r \in Procs : state'[r] = IF r = p THEN "reaped" ELSE state[r]
  BY <1>1 DEF Zombies, Children, IInv, TypeOK
<1>3. /\ parent = "reap" /\ parent' = "reap"
      /\ UNCHANGED <<child, sockVars, subreaper, masked, pending, ppid, stat, status, served>>
  BY DEF waitpid_reaps, KeepReaping
<1>4. TypeOK'
  BY <1>1, <1>2, <1>3 DEF IInv, TypeOK, sockVars
<1>5. Startup'
  BY <1>2, <1>3 DEF IInv, Startup, Starting, sockVars
<1>6. Family'
  BY <1>1, <1>2, <1>3, ReapFamily
<1>7. Waiting'
  BY <1>1, <1>2, <1>3 DEF IInv, Startup, Waiting, NoLostDeath
<1> QED BY <1>4, <1>5, <1>6, <1>7 DEF IInv

\* A subreaper without a child has no process below it at all: the family has
\* no cycle, so a top member's parent can only be the subreaper.
LEMMA NobodyLeft ==
  ASSUME IInv, subreaper, Children(Nsproxy) = {}
  PROVE  Live = {}
<1> SUFFICES ASSUME Live # {} PROVE FALSE
  OBVIOUS
<1>1. PICK p \in Live : ppid[p] \notin Live
  BY DEF IInv, Family
<1>2. ppid[p] \notin Procs
  BY <1>1 DEF IInv, Family, Live
<1>3. ppid[p] = Nsproxy
  BY <1>1, <1>2 DEF IInv, TypeOK, Family, Live
<1> QED BY <1>1, <1>3 DEF Children, Live

\* waitpid() finds no dead child, or no child at all.
LEMMA WaitpidEndsKeeps ==
  ASSUME IInv, waitpid_ends
  PROVE  IInv'
<1>1. /\ parent = "reap" /\ Zombies(Nsproxy) = {}
      /\ UNCHANGED <<child, sockVars, subreaper, masked, pending, procVars, exitcode, last>>
  BY DEF waitpid_ends
<1>2. /\ Children(Nsproxy) = {} => parent' = "done" /\ status' = exitcode /\ served' = TRUE
      /\ Children(Nsproxy) # {} => parent' = "poll" /\ UNCHANGED <<status, served>>
  BY DEF waitpid_ends, NoChild
<1>3. TypeOK' /\ Startup'
  <2>1. TypeOK'
    BY <1>1, <1>2 DEF IInv, TypeOK, Starting, sockVars, procVars
  <2>2. Startup'
    BY <1>1, <1>2 DEF IInv, Startup, Starting, sockVars, procVars
  <2> QED BY <2>1, <2>2
<1>4. Family'
  BY <1>1, FamilyUnchanged DEF IInv
<1>5. Children(Nsproxy)' = Children(Nsproxy) /\ Zombies(Nsproxy)' = {} /\ Alive' = Alive
  BY <1>1 DEF Children, Zombies, Alive, procVars
<1>6. Children(Nsproxy) = {} /\ subreaper => Alive = {}
  BY NobodyLeft DEF Live, Alive
<1>7. Waiting'
  BY <1>1, <1>2, <1>5, <1>6 DEF IInv, Startup, Waiting, NoLostDeath, procVars
<1> QED BY <1>3, <1>4, <1>7 DEF IInv

----------------------------------------------------------------------------
\* Before fork().
LEMMA InitIInv ==
  ASSUME ProcsAssumption, Init
  PROVE  IInv
<1> USE DEF ProcsAssumption, Init
<1>1. TypeOK /\ Startup
  BY DEF TypeOK, Startup, Starting
<1>2. Family
  BY DEF Family, Live, Nsproxy, HostInit
<1>3. Waiting
  BY DEF Waiting, NoLostDeath
<1> QED BY <1>1, <1>2, <1>3 DEF IInv

\* Every step keeps the invariant.
LEMMA NextIInv ==
  ASSUME ProcsAssumption, IInv, [Next]_vars
  PROVE  IInv'
<1>1. CASE ChildStep
  BY <1>1, ChildStepKeeps
<1>2. CASE AppStep
  BY <1>2, AppStepKeeps
<1>3. CASE ParentStep
  BY <1>3, StartingKeeps, WriteReadyKeeps, ReadSigfdKeeps, WaitpidReapsKeeps, WaitpidEndsKeeps
     DEF ParentStep
<1>4. CASE UNCHANGED vars
  <2>1. TypeOK' /\ Startup'
    BY <1>4 DEF vars, IInv, TypeOK, Startup, sockVars, procVars, loopVars
  <2>2. Family'
    BY <1>4, FamilyUnchanged DEF vars, IInv
  <2>3. Waiting'
    BY <1>4 DEF vars, IInv, Waiting, NoLostDeath, Zombies, Children, Alive, procVars, loopVars
  <2> QED BY <2>1, <2>2, <2>3 DEF IInv
<1> QED BY <1>1, <1>2, <1>3, <1>4 DEF Next

\* The inductive invariant of the processes: start-up, family and waitpid() loop,
\* whatever the processes of the application do.
THEOREM Invariance ==
  ASSUME ProcsAssumption
  PROVE  Spec => []IInv
<1>1. Init => IInv
  BY InitIInv
<1>2. IInv /\ [Next]_vars => IInv'
  BY NextIInv
<1> QED BY <1>1, <1>2, PTL DEF Spec

\* No death is missed by the event loop, for any number of processes and any
\* exit statuses (setup_signalfd(), sigfd_handler() and the ready byte of main.c).
THEOREM NoDeathIsLost ==
  ASSUME ProcsAssumption
  PROVE  Spec => []NoLostDeath
<1>1. IInv => NoLostDeath
  BY DEF IInv, Waiting
<1> QED BY <1>1, Invariance, PTL

\* The parent is in its event loop as long as a process of the application
\* lives, and exits with the status of the child that it reaped last.
THEOREM ApplicationServed ==
  ASSUME ProcsAssumption
  PROVE  Spec => []AppServed
<1>1. IInv => AppServed
  BY DEF IInv, TypeOK, Startup, Waiting, AppServed
<1> QED BY <1>1, Invariance, PTL

\* A parent that leaves its event loop leaves nobody behind: as a subreaper it
\* has by then reaped every process there ever was below it.
THEOREM LastOut ==
  ASSUME ProcsAssumption
  PROVE  Spec => [][served' /\ ~served /\ subreaper => Live' = {}]_vars
<1>1. ASSUME IInv, [Next]_vars, served', ~served, subreaper
      PROVE  Live' = {}
  <2>1. waitpid_ends
    BY <1>1 DEF Next, ChildStep, child_setup_fails, send_fd, child_wait_ready, child_execvp,
       ChildExit, AppStep, Fork, AppWaits, Exit, Stops, ParentStep, ParentEnds, recv_fd,
       setup_signalfd, loop_init, core_init, parent_init_fails, write_ready, ReadyWritten,
       read_sigfd, waitpid_reaps, vars, loopVars
  <2>2. Children(Nsproxy) = {} /\ UNCHANGED state
    BY <1>1, <2>1 DEF waitpid_ends, NoChild, procVars
  <2> QED BY <1>1, <2>2, NobodyLeft DEF Live
<1>2. IInv /\ [Next]_vars => [served' /\ ~served /\ subreaper => Live' = {}]_vars
  BY <1>1
<1> QED BY <1>2, Invariance, PTL DEF Spec
============================================================================
