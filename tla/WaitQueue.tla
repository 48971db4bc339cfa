------------------------------ MODULE WaitQueue ------------------------------
(***************************************************************************)
(* linux-0.11/kernel/sched.c: sleep_on(), interruptible_sleep_on(),        *)
(* wake_up() and what else changes the state of a task that may sleep:     *)
(* schedule()'s signal scan, sys_pause(), do_exit() and the release and    *)
(* reuse of a task structure.                                              *)
(*                                                                         *)
(* A wait queue is one pointer *p, the last task that went to sleep; each  *)
(* sleeper keeps the previous value of the pointer in the stack variable   *)
(* tmp and wakes that task when it runs again.  The queue is therefore a   *)
(* list threaded through kernel stacks, and nothing but the order of a few *)
(* assignments keeps it whole.                                             *)
(*                                                                         *)
(* The kernel is not preempted: a step of this module is what one task     *)
(* does between two calls of schedule(), or one interrupt handler's        *)
(* wake_up().  Which of the runnable tasks switch_to() picks is left open. *)
(*                                                                         *)
(* Most callers of the sleep functions disable interrupts first, or wait   *)
(* for something that only a task does.  make_request() and floppy_on() do *)
(* neither (ll_rw_blk.c:129, sched.c:236): there a handler's wake_up() may *)
(* come between the assignments to *p and to the state, sets running what  *)
(* is running, and is forgotten.  floppy_change() does the same with       *)
(* interruptible_sleep_on() (floppy.c:144); Floppy.tla has it.             *)
(***************************************************************************)
CONSTANTS
  Tasks,     \* task structures; task[0] never sleeps and is left out
  UQueues,   \* wait queues used with sleep_on() only (buffers, inodes, ...)
  IQueues,   \* those used with interruptible_sleep_on() only (tty queues)
  OpenQueues,\* the ones of UQueues that tasks go to sleep on with interrupts
             \* enabled, and that handlers wake
  Mortal,    \* bound: the tasks that may call do_exit()
  Readers,   \* bound: the tasks that sleep interruptibly, to whom alone signals
             \* matter, or on an open queue
  NULL

Queues == UQueues \union IQueues

ASSUME QueueAssumption ==
  /\ UQueues \intersect IQueues = {} /\ OpenQueues \subseteq UQueues
  /\ NULL \notin Tasks /\ Readers \subseteq Tasks
  /\ NULL \notin Queues

VARIABLES
  state,    \* task_struct.state; "free" when the page holds no task
  signal,   \* some signal that is not blocked is pending
  head,     \* *p of each wait queue
  tmp,      \* the local variable tmp of a task inside a sleep function
  on,       \* the queue argument of that sleep function, NULL outside
  exited,   \* tasks that are past do_exit()'s assignment of TASK_ZOMBIE
  entering, \* the task that is in *p of an open queue and has not changed its
            \* state yet, or NULL
  missed    \* history: queues whose wake_up() met a task that was entering

vars == <<state, signal, head, tmp, on, exited, entering, missed>>

States == {"running", "interruptible", "uninterruptible", "zombie", "free"}

Init ==
  /\ state = [t \in Tasks |-> "running"]
  /\ signal = [t \in Tasks |-> FALSE]
  /\ head = [q \in Queues |-> NULL]
  /\ tmp = [t \in Tasks |-> NULL]
  /\ on = [t \in Tasks |-> NULL]
  /\ exited = {}
  /\ entering = NULL /\ missed = {}
-----------------------------------------------------------------------------
(* t->state = 0 through a pointer that may be NULL, or stale: the page of a *)
(* released task belongs to somebody else and is no longer ours to model.   *)
SetRunning(st, t) ==
  [u \in Tasks |-> IF u = t /\ st[u] # "free" THEN "running" ELSE st[u]]

(* The first loop of schedule(): an interruptible task with a deliverable   *)
(* signal becomes runnable.                                                 *)
Scan(st, sig) ==
  [u \in Tasks |-> IF st[u] = "interruptible" /\ sig[u] THEN "running" ELSE st[u]]

(* t executes kernel or user code outside the sleep functions.              *)
Executing(t) == state[t] = "running" /\ on[t] = NULL

(* Slips somebody could make in this code; Next does not use them.          *)
(* sleep_on() that forgets to wake the next sleeper.                        *)
SleepOnReturnDropsTmp(t) ==
  /\ on[t] \in UQueues
  /\ state[t] = "running"
  /\ tmp' = [tmp EXCEPT ![t] = NULL]
  /\ on' = [on EXCEPT ![t] = NULL]
  /\ UNCHANGED <<state, signal, head, exited>>

(* sleep_on() that clears *p on return, as interruptible_sleep_on() does.   *)
SleepOnReturnClearsHead(t) ==
  /\ on[t] \in UQueues
  /\ state[t] = "running"
  /\ head' = [head EXCEPT ![on[t]] = NULL]
  /\ state' = SetRunning(state, tmp[t])
  /\ tmp' = [tmp EXCEPT ![t] = NULL]
  /\ on' = [on EXCEPT ![t] = NULL]
  /\ UNCHANGED <<signal, exited>>

(* sleep_on() without tmp.                                                  *)
SleepOnWithoutTmp(t, q) ==
  /\ Executing(t)
  /\ head' = [head EXCEPT ![q] = t]
  /\ on' = [on EXCEPT ![t] = q]
  /\ state' = Scan([state EXCEPT ![t] = "uninterruptible"], signal)
  /\ UNCHANGED <<signal, tmp, exited>>

(* sleep_on() with "tmp = p" for "tmp = *p".                                *)
SleepOnStoresQueue(t, q) ==
  /\ Executing(t)
  /\ tmp' = [tmp EXCEPT ![t] = q]
  /\ head' = [head EXCEPT ![q] = t]
  /\ on' = [on EXCEPT ![t] = q]
  /\ state' = Scan([state EXCEPT ![t] = "uninterruptible"], signal)
  /\ UNCHANGED <<signal, exited>>

(* sys_waitpid() that releases a child it only found sleeping.              *)
ReleaseUnchecked(t) ==
  /\ state[t] # "free"
  /\ \E u \in Tasks : Executing(u)
  /\ signal' = [signal EXCEPT ![t] = FALSE]
  /\ state' = Scan([state EXCEPT ![t] = "free"], signal)
  /\ exited' = exited \ {t}
  /\ UNCHANGED <<head, tmp, on>>

-----------------------------------------------------------------------------
SleepOn(t, q) ==
  /\ Executing(t)
  /\ tmp' = [tmp EXCEPT ![t] = head[q]]
  /\ head' = [head EXCEPT ![q] = t]
  /\ on' = [on EXCEPT ![t] = q]
  /\ state' = Scan([state EXCEPT ![t] = "uninterruptible"], signal)
  /\ UNCHANGED <<signal, exited>>

(* sleep_on() after schedule() returned: the next sleeper is woken.         *)
SleepOnReturn(t) ==
  /\ on[t] \in UQueues
  /\ state[t] = "running"
  /\ state' = SetRunning(state, tmp[t])
  /\ tmp' = [tmp EXCEPT ![t] = NULL]
  /\ on' = [on EXCEPT ![t] = NULL]
  /\ UNCHANGED <<signal, head, exited>>

InterruptibleSleepOn(t, q) ==
  /\ Executing(t)
  /\ tmp' = [tmp EXCEPT ![t] = head[q]]
  /\ head' = [head EXCEPT ![q] = t]
  /\ on' = [on EXCEPT ![t] = q]
  /\ state' = Scan([state EXCEPT ![t] = "interruptible"], signal)
  /\ UNCHANGED <<signal, exited>>

(* interruptible_sleep_on(): a task that is not the last sleeper wakes the  *)
(* last one and goes back to sleep ("goto repeat").                         *)
InterruptibleRepeat(t) ==
  /\ on[t] \in IQueues
  /\ state[t] = "running"
  /\ head[on[t]] \notin {NULL, t}
  /\ state' = Scan([SetRunning(state, head[on[t]]) EXCEPT ![t] = "interruptible"],
                   signal)
  /\ UNCHANGED <<signal, head, tmp, on, exited>>

(* Otherwise it clears the pointer, wakes the next sleeper and returns.     *)
InterruptibleReturn(t) ==
  /\ on[t] \in IQueues
  /\ state[t] = "running"
  /\ head[on[t]] \in {NULL, t}
  /\ head' = [head EXCEPT ![on[t]] = NULL]
  /\ state' = SetRunning(state, tmp[t])
  /\ tmp' = [tmp EXCEPT ![t] = NULL]
  /\ on' = [on EXCEPT ![t] = NULL]
  /\ UNCHANGED <<signal, exited>>

(* sleep_on() of an open queue up to "*p = current".  A handler's wake_up()  *)
(* may come after "tmp = *p" already: it wakes the task in tmp.             *)
Enter(t, q) ==
  /\ entering = NULL
  /\ Executing(t)
  /\ tmp' = [tmp EXCEPT ![t] = head[q]]
  /\ head' = [head EXCEPT ![q] = t]
  /\ on' = [on EXCEPT ![t] = q]
  /\ state' \in {state, SetRunning(state, head[q])}
  /\ entering' = t
  /\ UNCHANGED <<signal, exited, missed>>

(* From there to schedule().                                                *)
Block ==
  /\ entering # NULL
  /\ state' = Scan([state EXCEPT ![entering] = "uninterruptible"], signal)
  /\ entering' = NULL
  /\ UNCHANGED <<signal, head, tmp, on, exited, missed>>

(* wake_up(), called by a running task or by an interrupt handler.          *)
WakeUp(q) ==
  /\ state' = SetRunning(state, head[q])
  /\ head' = [head EXCEPT ![q] = NULL]
  /\ missed' = IF entering # NULL /\ head[q] = entering /\ on[entering] = q
               THEN missed \union {q} ELSE missed
  /\ UNCHANGED <<signal, tmp, on, exited, entering>>

(* sys_pause(), and the sleep of sys_waitpid(): on no queue at all.         *)
Pause(t) ==
  /\ Executing(t)
  /\ state' = Scan([state EXCEPT ![t] = "interruptible"], signal)
  /\ UNCHANGED <<signal, head, tmp, on, exited>>

(* A signal is set from wherever: send_sig(), tty_intr(), the alarm.        *)
SendSig(t) ==
  /\ state[t] # "free"
  /\ signal' = [signal EXCEPT ![t] = TRUE]
  /\ UNCHANGED <<state, head, tmp, on, exited, entering, missed>>

(* ret_from_sys_call clears the signal that do_signal() then delivers.      *)
DoSignal(t) ==
  /\ Executing(t)
  /\ signal[t]
  /\ signal' = [signal EXCEPT ![t] = FALSE]
  /\ UNCHANGED <<state, head, tmp, on, exited>>

(* The end of do_exit(): a session leader signals its session, t becomes a  *)
(* zombie, the father is signalled (S: all of these) and schedule() is      *)
(* called, never to return.  What do_exit() does before that (sys_close(),  *)
(* iput()) may sleep like any other kernel code.                            *)
DoExit(t, S) ==
  /\ t \in Mortal
  /\ Executing(t)
  /\ signal' = [u \in Tasks |-> signal[u] \/ (u \in S /\ state[u] # "free")]
  /\ state' = Scan([state EXCEPT ![t] = "zombie"], signal')
  /\ exited' = exited \union {t}
  /\ UNCHANGED <<head, tmp, on>>

(* sys_waitpid() finds a zombie child; release() frees its page and calls   *)
(* schedule().                                                              *)
Release(t) ==
  /\ state[t] = "zombie"
  /\ \E u \in Tasks : Executing(u)
  /\ signal' = [signal EXCEPT ![t] = FALSE]
  /\ state' = Scan([state EXCEPT ![t] = "free"], signal)
  /\ exited' = exited \ {t}
  /\ UNCHANGED <<head, tmp, on>>

(* copy_process() in a page that get_free_page() returned; it ends with     *)
(* p->state = TASK_RUNNING, whatever happened to the field meanwhile.       *)
CopyProcess(t) ==
  /\ state[t] = "free"
  /\ \E u \in Tasks : Executing(u)
  /\ state' = [state EXCEPT ![t] = "running"]
  /\ UNCHANGED <<signal, head, tmp, on, exited>>

(* schedule() called from the timer interrupt or on return to user mode.    *)
Schedule ==
  /\ state' = Scan(state, signal)
  /\ UNCHANGED <<signal, head, tmp, on, exited>>

(* What needs the processor, which a task that is entering keeps.           *)
TaskStep ==
  \/ \E t \in Tasks, q \in UQueues \ OpenQueues : SleepOn(t, q)
  \/ \E t \in Readers, q \in IQueues \ OpenQueues : InterruptibleSleepOn(t, q)
  \/ \E t \in Tasks : SleepOnReturn(t)
  \/ \E t \in Tasks : InterruptibleRepeat(t)
  \/ \E t \in Tasks : InterruptibleReturn(t)
  \/ \E t \in Readers : Pause(t)
  \/ \E t \in Tasks : DoSignal(t)
  \/ \E t \in Tasks, S \in SUBSET Readers : DoExit(t, S)
  \/ \E t \in Tasks : Release(t)
  \/ \E t \in Tasks : CopyProcess(t)
  \/ Schedule

NobodyEnters == entering = NULL /\ UNCHANGED <<entering, missed>>

Next ==
  \/ TaskStep /\ NobodyEnters
  \/ \E t \in Readers, q \in OpenQueues : Enter(t, q)
  \/ Block
  \/ \E q \in Queues : WakeUp(q)
  \/ \E t \in Readers : SendSig(t)

(* schedule() gives every runnable task the processor in turn: the counters *)
(* of the others run down, and only then are all of them refilled.  While   *)
(* another task is entering it has to wait.                                 *)
Fairness ==
  /\ WF_vars(Block)
  /\ \A t \in Tasks : SF_vars(SleepOnReturn(t) /\ NobodyEnters)

Spec == Init /\ [][Next]_vars

FairSpec == Spec /\ Fairness
-----------------------------------------------------------------------------
(* Every variable has its type (sched.c:151-194, exit.c:19-33, 102-135).    *)
TypeOK ==
  /\ state \in [Tasks -> States]
  /\ signal \in [Tasks -> BOOLEAN]
  /\ head \in [Queues -> Tasks \union {NULL}]
  /\ tmp \in [Tasks -> Tasks \union {NULL}]
  /\ on \in [Tasks -> Queues \union {NULL}]
  /\ exited \in SUBSET Tasks
  /\ entering \in Tasks \union {NULL}
  /\ entering # NULL => on[entering] \in OpenQueues
  /\ missed \in SUBSET OpenQueues

Asleep(q) == {t \in Tasks : on[t] = q}

(* Sleepers that have been woken and have not run yet.                      *)
InFlight(q) == {t \in Asleep(q) : state[t] = "running" /\ t # entering}

(* C contains the sleepers that a member of C will wake through its tmp.    *)
Closed(q, C) ==
  \A t \in C \intersect Asleep(q) : tmp[t] \in Asleep(q) => tmp[t] \in C

(* The sleepers that the tasks in flight will wake, directly or not: the    *)
(* least closed set that contains them.                                     *)
Woken(q) ==
  {t \in Asleep(q) :
     \A C \in SUBSET Tasks : InFlight(q) \subseteq C /\ Closed(q, C) => t \in C}

(* Following tmp from the queue pointer and from the sleepers in flight     *)
(* leads to every sleeper of q: each set that contains the starting points  *)
(* and is closed under tmp contains them all.                               *)
Reached(q) ==
  \A C \in SUBSET Tasks :
    (/\ head[q] \in Asleep(q) => head[q] \in C
     /\ InFlight(q) \subseteq C
     /\ Closed(q, C))
    => Asleep(q) \subseteq C

(* No sleeper of sleep_on() is ever lost: it is reached from the queue      *)
(* pointer, or from a sleeper already in flight, by following tmp.  This is *)
(* what sched.c:151-165 and 188-194 need for wake_up() to wake all sleepers *)
(* through a single pointer, while some of them leave early because a stale *)
(* tmp made them runnable.  A queue that is slept on with interrupts        *)
(* enabled keeps this until a wake_up() meets a task that is entering it.   *)
NoLostSleeper == \A q \in UQueues \ missed : Reached(q)

(* do_exit() is called outside the sleep functions, so a zombie or a freed  *)
(* task structure is on no wait queue (exit.c:130, exit.c:27-28).           *)
DeadNotAsleep == \A t \in Tasks : state[t] \in {"zombie", "free"} => on[t] = NULL

(* The queues that tasks go to sleep on without a handler in between.       *)
ClosedQueues == UQueues \ OpenQueues

(* These queues of sleep_on() implement sets of sleepers: wake_up() dooms   *)
(* all of them to return, and a doomed sleeper stays so until it returns,   *)
(* whatever happens on other queues (sched.c:151-165, 188-194).             *)
Abstract == INSTANCE WaitSet WITH
  Queues <- ClosedQueues,
  asleep <- [t \in Tasks |-> IF on[t] \in ClosedQueues THEN on[t] ELSE NULL],
  woken <- UNION {Woken(q) : q \in ClosedQueues},
  quiet <- {q \in ClosedQueues : head[q] = NULL}

WaitSetSpec == Abstract!Spec

(* Whoever is reached by a wake_up() returns from sleep_on(), through any   *)
(* number of other sleepers, on queues of either kind (sched.c:163-164).    *)
WokenReturns ==
  \A t \in Tasks : t \in UNION {Woken(q) : q \in UQueues} ~> on[t] \notin UQueues
=============================================================================
