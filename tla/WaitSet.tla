------------------------------- MODULE WaitSet -------------------------------
(***************************************************************************)
(* What the kernel relies on when it calls sleep_on() and wake_up(): a     *)
(* wait queue is a set of sleepers, wake_up() dooms every one of them to   *)
(* return, and a sleeper may also return for no reason (every caller       *)
(* re-tests its condition in a loop).  WaitQueue.tla is the code that      *)
(* implements this with one pointer per queue and one stack slot per       *)
(* sleeper.                                                                *)
(***************************************************************************)
CONSTANTS Tasks, Queues, NULL

VARIABLES
  asleep,   \* asleep[t]: the queue t sleeps on, or NULL
  woken,    \* sleepers that are bound to return from sleep_on()
  quiet     \* queues nobody joined since their last wake_up()

vars == <<asleep, woken, quiet>>

Sleepers == {t \in Tasks : asleep[t] # NULL}

Init ==
  /\ asleep = [t \in Tasks |-> NULL]
  /\ woken = {}
  /\ quiet = Queues

(* S: sleepers that a step wakes without any wake_up() on their queue.     *)
Sleep(t, q, S) ==
  /\ asleep[t] = NULL
  /\ asleep' = [asleep EXCEPT ![t] = q]
  /\ woken' = woken \union S
  /\ quiet' = quiet \ {q}

Wake(q, S) ==
  /\ woken' = woken \union {t \in Tasks : asleep[t] = q} \union S
  /\ quiet' = quiet \union {q}
  /\ UNCHANGED asleep

Spurious(S) ==
  /\ woken' = woken \union S
  /\ UNCHANGED <<asleep, quiet>>

Return(t, S) ==
  /\ t \in woken
  /\ asleep' = [asleep EXCEPT ![t] = NULL]
  /\ woken' = (woken \ {t}) \union (S \ {t})
  /\ UNCHANGED quiet

Next ==
  \E S \in SUBSET Tasks :
    /\ S \subseteq {t \in Tasks : asleep'[t] # NULL}
    /\ \/ \E t \in Tasks, q \in Queues : Sleep(t, q, S)
       \/ \E q \in Queues : Wake(q, S)
       \/ Spurious(S)
       \/ \E t \in Tasks : Return(t, S)

Spec == Init /\ [][Next]_vars
=============================================================================
