------------------------------ MODULE Process ------------------------------
(***************************************************************************)
(* linux-0.11/kernel/exit.c, fork.c, signal.c and parts of sys.c and       *)
(* sched.c: process identifiers, fathers and children, do_exit() and       *)
(* sys_waitpid(), process groups and sessions, and the delivery of signals *)
(* on the way out of the kernel.                                           *)
(*                                                                         *)
(* A process is tied to its father, its group and its session by numbers,  *)
(* which find_empty_process() uses again once no task has them.            *)
(*                                                                         *)
(* The kernel is not preempted, so that one action is what a process does  *)
(* between two places where it may sleep.  Task 0 is left out: it has no   *)
(* signals and waits for nobody.  All processes are the super user's, so   *)
(* that send_sig() is always permitted.  Slot 1 is init, which lives for   *)
(* ever, as do_exit() assumes, and nobody kills it.  It runs init() of     *)
(* init/main.c: it forks a shell, again and again if fork() fails, waits   *)
(* until that shell is collected, and begins anew.                         *)
(***************************************************************************)
EXTENDS Integers, FiniteSets, FiniteSetsExt

CONSTANTS
  NR_TASKS,   \* size of the task table
  MAXPID,     \* last_pid after this one is negative
  Sigs,       \* the signals in play, by number
  Masks,      \* the arguments of ssetmask()
  Caught,     \* the signals they call signal() and sigaction() for
  Acts,       \* and what these then do
  SaMask,     \* sa_mask of the programs that call sigaction()
  Groups,     \* the groups named in setpgid(), kill() and waitpid()
  Scenarios,  \* sets of system calls besides fork(), exit() and waitpid()
  NULL

SIGHUP == 1
SIGKILL == 9
SIGCHLD == 17

ASSUME ProcessAssumption ==
  /\ NR_TASKS \in Nat \ {0, 1}
  /\ MAXPID \in Nat /\ MAXPID >= NR_TASKS
  /\ {SIGHUP, SIGCHLD} \subseteq Sigs /\ Sigs \subseteq 1 .. 32
  /\ SaMask \subseteq Sigs /\ Masks \subseteq SUBSET Sigs
  /\ Acts \subseteq {"default", "ignore", "once", "mask"}
  /\ Caught \subseteq Sigs \ {SIGKILL}
  /\ Groups \subseteq 2 .. MAXPID

(* The fields of a task that is in use.                                     *)
Tasks ==
  [pid : 1 .. MAXPID, father : 0 .. MAXPID, pgrp : 0 .. MAXPID, session : 0 .. MAXPID,
   leader : BOOLEAN, signal : SUBSET Sigs, blocked : SUBSET Sigs,
   act : [Sigs -> Acts \union {"default"}],
   pc : {"user", "wait", "exit", "zombie"}, arg : -MAXPID .. MAXPID]

ASSUME NullAssumption == NULL \notin Tasks

VARIABLES
  task,      \* the task table without task[0]
  last_pid,
  parent,    \* history: the slot of the process that forked this one, or
             \* of init once that process exits
  shell,     \* init's local variable pid while it waits for the shell of that
             \* number; 0 while it forks
  calls      \* the scenario, which does not change

vars == <<task, last_pid, parent, shell, calls>>

Slots == 1 .. NR_TASKS - 1
Live == {s \in Slots : task[s] # NULL}

InitTask ==
  [pid |-> 1, father |-> 0, pgrp |-> 0, session |-> 0, leader |-> FALSE,
   signal |-> {}, blocked |-> {}, act |-> [g \in Sigs |-> "default"],
   pc |-> "user", arg |-> 0]

Init ==
  /\ task = [s \in Slots |-> IF s = 1 THEN InitTask ELSE NULL]
  /\ last_pid = 1
  /\ parent = [s \in Slots |-> 1]
  /\ shell = 0
  /\ calls \in Scenarios

User(s) == s \in Live /\ task[s].pc = "user"

(* task[s] |= signal of every task in S.                                    *)
Sent(tk, S, g) ==
  [s \in Slots |-> IF s \in S /\ tk[s] # NULL
                   THEN [tk[s] EXCEPT !.signal = @ \union {g}] ELSE tk[s]]
-----------------------------------------------------------------------------
(* find_empty_process(): the next number, in a circle, that no task has.    *)
NextPid ==
  LET after(k) == ((last_pid + k - 1) % MAXPID) + 1
      free == {k \in 1 .. MAXPID : \A s \in Live : task[s].pid # after(k)}
  IN after(Min(free))

(* sys_fork().  The number is used up also when there is no slot, or no     *)
(* memory for the child; init then forks again at once (init/main.c:190).   *)
Fork(s) ==
  /\ User(s)
  /\ s = 1 => shell = 0
  /\ last_pid' = NextPid
  /\ \/ /\ Live # Slots
        /\ LET n == Min(Slots \ Live) IN
           /\ task' = [task EXCEPT ![n] =
                        [task[s] EXCEPT !.pid = NextPid, !.father = task[s].pid,
                                        !.signal = {}, !.leader = FALSE]]
           /\ parent' = [parent EXCEPT ![n] = s]
        /\ shell' = IF s = 1 THEN NextPid ELSE shell
     \/ UNCHANGED <<task, parent, shell>>

(* Slips: zombie children are forgotten, or init is not told of them.       *)
AdoptedRunning(tk, s) ==
  [c \in Slots |-> IF tk[c] # NULL /\ tk[c].father = tk[s].pid /\ tk[c].pc # "zombie"
                   THEN [tk[c] EXCEPT !.father = 1] ELSE tk[c]]

AdoptedSilently(tk, s) ==
  [c \in Slots |-> IF tk[c] # NULL /\ tk[c].father = tk[s].pid
                   THEN [tk[c] EXCEPT !.father = 1] ELSE tk[c]]

(* The children of s go to init, which is told of those that are zombies.   *)
Adopted(tk, s) ==
  LET kids == {c \in Slots : tk[c] # NULL /\ tk[c].father = tk[s].pid}
      given == [c \in Slots |-> IF c \in kids THEN [tk[c] EXCEPT !.father = 1] ELSE tk[c]]
  IN Sent(given, IF \E c \in kids : tk[c].pc = "zombie" THEN {1} ELSE {}, SIGCHLD)

(* The first part of do_exit(); it sleeps in sys_close() and iput().        *)
BeginExit(tk, s) ==
  /\ task' = [Adopted(tk, s) EXCEPT ![s].pc = "exit"]
  /\ parent' = [c \in Slots |-> IF parent[c] = s THEN 1 ELSE parent[c]]
  /\ UNCHANGED <<last_pid, shell>>

SysExit(s) == User(s) /\ s # 1 /\ BeginExit(task, s)

(* A slip: the father's number taken for its slot.                          *)
FatherSlot(tk, s) == {tk[s].father} \intersect Slots

(* tell_father(): the first task with that number.  That there is one is    *)
(* FatherIsParent below.                                                    *)
Father(tk, s) == {c \in Slots : tk[c] # NULL /\ tk[c].pid = tk[s].father}

(* The second part: a leader hangs its session up, s is a zombie and its    *)
(* father is told.                                                          *)
Exit(s) ==
  LET session == {c \in Live : task[s].leader /\ task[c].session = task[s].session}
      hung == Sent(task, session, SIGHUP)
  IN /\ s \in Live /\ task[s].pc = "exit"
     /\ task' = Sent([hung EXCEPT ![s].pc = "zombie"], Father(task, s), SIGCHLD)
     /\ UNCHANGED <<last_pid, parent, shell>>
-----------------------------------------------------------------------------
(* The children that waitpid(arg) of s looks at.                            *)
Children(tk, s, arg) ==
  {c \in Slots \ {s} :
     /\ tk[c] # NULL
     /\ tk[c].father = tk[s].pid
     /\ CASE arg > 0 -> tk[c].pid = arg
          [] arg = 0 -> tk[c].pgrp = tk[s].pgrp
          [] arg = -1 -> TRUE
          [] OTHER -> tk[c].pgrp = -arg}

(* Where a task is, and the argument of the waitpid() it sleeps in.         *)
At(t, pc, arg) == [t EXCEPT !.pc = pc, !.arg = arg]

ZombiesOf(tk, s, arg) == {c \in Children(tk, s, arg) : tk[c].pc = "zombie"}

(* From "repeat" on: a zombie, the last in the table, is released, or s     *)
(* sleeps if a child runs, or there is none.  (With WNOHANG there would be  *)
(* nothing to see in the second case.)                                      *)
WaitTurn(tk, s, arg) ==
  LET zombies == ZombiesOf(tk, s, arg)
      back == [tk EXCEPT ![s] = At(@, "user", 0)]
  IN task' = CASE zombies # {} -> [back EXCEPT ![Max(zombies)] = NULL]
               [] zombies = {} /\ Children(tk, s, arg) # {} ->
                    [tk EXCEPT ![s] = At(@, "wait", arg)]
               [] OTHER -> back

(* init's wait() returns to its loop, which ends with the shell.            *)
InitCollects(tk, s) ==
  LET zombies == ZombiesOf(tk, s, -1) IN
  shell' = IF s = 1 /\ zombies # {} /\ tk[Max(zombies)].pid = shell THEN 0 ELSE shell

(* init/main.c only calls wait().                                           *)
WaitArgs(s) ==
  {-1} \union (IF s # 1 /\ "waitpid" \in calls THEN 2 .. MAXPID ELSE {})
       \union (IF s # 1 /\ "setpgid" \in calls THEN {0} \union {-n : n \in Groups} ELSE {})

SysWaitpid(s, arg) ==
  /\ User(s)
  /\ s = 1 => shell # 0
  /\ WaitTurn(task, s, arg)
  /\ InitCollects(task, s)
  /\ UNCHANGED <<last_pid, parent>>

(* What schedule() looks at, and what ret_from_sys_call does.               *)
Wakes(t) == t.signal \ (t.blocked \ {SIGKILL})
Deliverable(t) == t.signal \ t.blocked

(* schedule() made it runnable: SIGCHLD is taken back, and any other        *)
(* signal, blocked or not, ends the call.                                   *)
WaitRepeat(s) ==
  LET rest == task[s].signal \ {SIGCHLD}
      tk == [task EXCEPT ![s].signal = rest]
  IN /\ s \in Live /\ task[s].pc = "wait"
     /\ Wakes(task[s]) # {}
     /\ IF rest = {} THEN WaitTurn(tk, s, task[s].arg)
        ELSE task' = [tk EXCEPT ![s] = At(@, "user", 0)]
     /\ InitCollects(tk, s)
     /\ UNCHANGED <<last_pid, parent>>
-----------------------------------------------------------------------------
(* ret_from_sys_call and do_signal(): the lowest signal that is not blocked *)
(* is taken and does what sigaction[] says.                                 *)
DoSignal(s) ==
  LET g == Min(Deliverable(task[s]))
      tk == [task EXCEPT ![s].signal = @ \ {g}]
      act == task[s].act[g]
  IN /\ User(s) /\ Deliverable(task[s]) # {}
     /\ \/ /\ act = "default" /\ g # SIGCHLD
           /\ BeginExit(tk, s)
        \/ /\ act # "default" \/ g = SIGCHLD
           /\ task' = CASE act = "once" -> [tk EXCEPT ![s].act[g] = "default"]
                        [] act = "mask" -> [tk EXCEPT ![s].blocked = @ \union SaMask \union {g}]
                        [] OTHER -> tk
           /\ UNCHANGED <<last_pid, parent, shell>>

(* sys_kill(): whom each form of pid means.  Note that 0 means the group    *)
(* named after the caller, whatever its own group is.                       *)
Targets(s, pid) ==
  {c \in Live : CASE pid = 0 -> task[c].pgrp = task[s].pid
                  [] pid > 0 -> task[c].pid = pid
                  [] pid = -1 -> TRUE
                  [] OTHER -> task[c].pgrp = -pid}

SysKill(s, pid, g) ==
  /\ "kill" \in calls
  /\ User(s)
  /\ 1 \notin Targets(s, pid)
  /\ task' = Sent(task, Targets(s, pid), g)
  /\ UNCHANGED <<last_pid, parent, shell>>

(* sys_ssetmask()                                                           *)
SysSsetmask(s, mask) ==
  /\ "ssetmask" \in calls
  /\ User(s) /\ s # 1
  /\ task' = [task EXCEPT ![s].blocked = mask \ {SIGKILL}]
  /\ UNCHANGED <<last_pid, parent, shell>>

(* sys_signal() and sys_sigaction()                                         *)
SysSignal(s, g, act) ==
  /\ "signal" \in calls
  /\ User(s) /\ s # 1
  /\ task' = [task EXCEPT ![s].act[g] = act]
  /\ UNCHANGED <<last_pid, parent, shell>>

SysSetpgid(s, c, pgid) ==
  /\ "setpgid" \in calls
  /\ User(s) /\ s # 1 /\ c \in Live
  /\ ~task[c].leader /\ task[c].session = task[s].session
  /\ task' = [task EXCEPT ![c].pgrp = IF pgid = 0 THEN task[s].pid ELSE pgid]
  /\ UNCHANGED <<last_pid, parent, shell>>

(* sys_setsid(): a leader may call it again, being the super user.          *)
SysSetsid(s) ==
  /\ "setsid" \in calls
  /\ User(s) /\ s # 1
  /\ task' = [task EXCEPT ![s] = [@ EXCEPT !.leader = TRUE, !.session = task[s].pid,
                                           !.pgrp = task[s].pid]]
  /\ UNCHANGED <<last_pid, parent, shell>>

Next ==
  /\ \E s \in Slots :
       \/ Fork(s) \/ SysExit(s) \/ Exit(s) \/ WaitRepeat(s) \/ DoSignal(s)
       \/ \E arg \in WaitArgs(s) : SysWaitpid(s, arg)
       \/ \E pid \in 0 .. MAXPID \union {-n : n \in Groups}, g \in Sigs \ {SIGCHLD} : SysKill(s, pid, g)
       \/ \E mask \in Masks : SysSsetmask(s, mask)
       \/ \E g \in Caught, act \in Acts : SysSignal(s, g, act)
       \/ \E c \in Slots \ {1}, pgid \in Groups \union {0} : SysSetpgid(s, c, pgid)
       \/ SysSetsid(s)
  /\ UNCHANGED calls

Spec == Init /\ [][Next]_vars

(* init goes on when its wait has ended, and with the loops of its program  *)
(* (init/main.c:186-206).                                                   *)
FairSpec ==
  /\ Spec
  /\ WF_task(WaitRepeat(1))
  /\ WF_task(SysWaitpid(1, -1))
  /\ WF_<<task, last_pid>>(Fork(1))
-----------------------------------------------------------------------------
(* Types.                                                                   *)
TypeOK ==
  /\ task \in [Slots -> Tasks \union {NULL}]
  /\ last_pid \in 1 .. MAXPID
  /\ parent \in [Slots -> Slots]
  /\ shell \in 0 .. MAXPID

(* A father's number means the process that forked the task, or init if     *)
(* that one has exited, and no other: numbers are never shared, never pass  *)
(* to a stranger while a child has them, and "no father found" is not       *)
(* printed (fork.c:139-142, exit.c:83-99, 108-114).                         *)
FatherIsParent ==
  \A s \in Live \ {1} :
    /\ {c \in Live : task[c].pid = task[s].father} = {parent[s]}
    /\ task[parent[s]].pc \in {"user", "wait"}

(* A process asleep in waitpid(), for any child or for a certain one, knows *)
(* of it when one it waits for is a zombie, also a child that came to it by *)
(* the exit of another (exit.c:93, 110-113, 130-132, 184-190): it wakes,    *)
(* unless it blocked SIGCHLD.  (A wait for a group is different:            *)
(* sys_setpgid() puts zombies into groups.)                                 *)
WaiterIsTold ==
  \A s \in Live :
    /\ task[s].pc = "wait"
    /\ task[s].arg = -1 \/ task[s].arg > 0
    /\ ZombiesOf(task, s, task[s].arg) # {}
    => SIGCHLD \in task[s].signal

(* No zombie of a father that is gone stays for ever: init collects it,     *)
(* unless its fork() fails for ever, for instance because those zombies     *)
(* fill the table: init then never comes to wait() (init/main.c:190-193).   *)
(* The search begins at the end of the table each time, so this is certain  *)
(* for the last of init's children only; new ones behind a zombie, exiting  *)
(* again and again, can keep init from it (exit.c:108-114, 150-178;         *)
(* init/main.c:202-204).                                                    *)
LastOfInit(s) ==
  /\ s \in Live /\ task[s].father = 1
  /\ \A c \in Live : task[c].father = 1 => c <= s

OrphansCollected ==
  []<>(shell # 0) =>
    \A s \in Slots : LastOfInit(s) /\ task[s].pc = "zombie" ~> ~LastOfInit(s)

(* Process numbers stay in range and a father is who it was                 *)
(* (fork.c:135-147, exit.c:83-114).                                         *)
FamilyRight == TypeOK /\ FatherIsParent
=============================================================================
