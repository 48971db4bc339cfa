--------------------------- MODULE WaitQueueProofs ---------------------------
(***************************************************************************)
(* Proofs about WaitQueue, for any number of tasks and queues.             *)
(***************************************************************************)
EXTENDS WaitQueue, TLAPS

(* schedule()'s scan only ever turns "interruptible" into "running".        *)
LEMMA ScanFacts ==
  ASSUME NEW st \in [Tasks -> States], NEW sig
  PROVE  /\ Scan(st, sig) \in [Tasks -> States]
         /\ \A u \in Tasks : st[u] # "interruptible" => Scan(st, sig)[u] = st[u]
         /\ \A u \in Tasks : Scan(st, sig)[u] \in {st[u], "running"}
         /\ \A u \in Tasks : st[u] \in {"zombie", "free"}
                               <=> Scan(st, sig)[u] \in {"zombie", "free"}
BY DEF Scan, States

(* An assignment t->state = 0 keeps the type of the state field.            *)
LEMMA SetRunningType ==
  ASSUME NEW st \in [Tasks -> States], NEW t
  PROVE  SetRunning(st, t) \in [Tasks -> States]
BY DEF SetRunning, States

(* Every step of the wait queue code keeps the types.                       *)
LEMMA TypeStep == TypeOK /\ [Next]_vars => TypeOK'
<1> SUFFICES ASSUME TypeOK, [Next]_vars PROVE TypeOK'
  OBVIOUS
<1> USE QueueAssumption DEF TypeOK, NobodyEnters, ClosedQueues
<1>1. CASE UNCHANGED vars
  BY <1>1 DEF vars
<1>2. ASSUME NEW t \in Tasks, NEW q \in ClosedQueues, SleepOn(t, q), NobodyEnters PROVE TypeOK'
  <2>1. [state EXCEPT ![t] = "uninterruptible"] \in [Tasks -> States]
    BY DEF States
  <2> QED BY <1>2, <2>1, ScanFacts DEF SleepOn, Queues
<1>3. ASSUME NEW t \in Tasks, NEW q \in IQueues, InterruptibleSleepOn(t, q), NobodyEnters PROVE TypeOK'
  <2>1. [state EXCEPT ![t] = "interruptible"] \in [Tasks -> States]
    BY DEF States
  <2> QED BY <1>3, <2>1, ScanFacts DEF InterruptibleSleepOn, Queues
<1>4. ASSUME NEW t \in Tasks, SleepOnReturn(t), NobodyEnters PROVE TypeOK'
  BY <1>4, SetRunningType DEF SleepOnReturn
<1>5. ASSUME NEW t \in Tasks, InterruptibleRepeat(t), NobodyEnters PROVE TypeOK'
  <2>1. [SetRunning(state, head[on[t]]) EXCEPT ![t] = "interruptible"] \in [Tasks -> States]
    BY DEF SetRunning, States
  <2> QED BY <1>5, <2>1, ScanFacts DEF InterruptibleRepeat
<1>6. ASSUME NEW t \in Tasks, InterruptibleReturn(t), NobodyEnters PROVE TypeOK'
  BY <1>6, SetRunningType DEF InterruptibleReturn, Queues
<1>7. ASSUME NEW q \in Queues, WakeUp(q) PROVE TypeOK'
  BY <1>7, SetRunningType DEF WakeUp
<1>8. ASSUME NEW t \in Tasks, Pause(t), NobodyEnters PROVE TypeOK'
  <2>1. [state EXCEPT ![t] = "interruptible"] \in [Tasks -> States]
    BY DEF States
  <2> QED BY <1>8, <2>1, ScanFacts DEF Pause
<1>9. ASSUME NEW t \in Tasks, SendSig(t) PROVE TypeOK'
  BY <1>9 DEF SendSig
<1>10. ASSUME NEW t \in Tasks, DoSignal(t), NobodyEnters PROVE TypeOK'
  BY <1>10 DEF DoSignal
<1>11. ASSUME NEW t \in Tasks, NEW S \in SUBSET Tasks, DoExit(t, S), NobodyEnters PROVE TypeOK'
  <2>1. [state EXCEPT ![t] = "zombie"] \in [Tasks -> States]
    BY DEF States
  <2>2. signal' \in [Tasks -> BOOLEAN]
    BY <1>11 DEF DoExit
  <2>3. state' \in [Tasks -> States]
    BY <1>11, <2>1, ScanFacts DEF DoExit
  <2>4. exited' \in SUBSET Tasks
    BY <1>11 DEF DoExit
  <2> QED BY <1>11, <2>2, <2>3, <2>4 DEF DoExit
<1>12. ASSUME NEW t \in Tasks, Release(t), NobodyEnters PROVE TypeOK'
  <2>1. [state EXCEPT ![t] = "free"] \in [Tasks -> States]
    BY DEF States
  <2>2. state' \in [Tasks -> States]
    BY <1>12, <2>1, ScanFacts DEF Release
  <2> QED BY <1>12, <2>2 DEF Release
<1>13. ASSUME NEW t \in Tasks, CopyProcess(t), NobodyEnters PROVE TypeOK'
  BY <1>13 DEF CopyProcess, States
<1>14. CASE Schedule /\ NobodyEnters
  BY <1>14, ScanFacts DEF Schedule
<1>15. ASSUME NEW t \in Tasks, NEW q \in OpenQueues, Enter(t, q) PROVE TypeOK'
  BY <1>15, SetRunningType DEF Enter, Queues
<1>16. CASE Block
  <2> DEFINE st == [state EXCEPT ![entering] = "uninterruptible"]
  <2>1. st \in [Tasks -> States]
    BY DEF States
  <2> QED BY <1>16, <2>1, ScanFacts DEF Block
<1> QED BY <1>1, <1>2, <1>3, <1>4, <1>5, <1>6, <1>7, <1>8, <1>9, <1>10, <1>11,
           <1>12, <1>13, <1>14, <1>15, <1>16, QueueAssumption DEF Next, TaskStep, ClosedQueues

(* The wait queue code preserves its type invariant.                        *)
THEOREM TypeCorrect == Spec => []TypeOK
<1>1. Init => TypeOK
  BY DEF Init, TypeOK, States
<1> QED BY <1>1, TypeStep, PTL DEF Spec
-----------------------------------------------------------------------------
(* Zombies and free task structures stay off the queues.                    *)
LEMMA DeadStep == TypeOK /\ DeadNotAsleep /\ [Next]_vars => DeadNotAsleep'
<1> SUFFICES ASSUME TypeOK, DeadNotAsleep, [Next]_vars,
                    NEW u \in Tasks, state'[u] \in {"zombie", "free"}
             PROVE  on'[u] = NULL
  BY DEF DeadNotAsleep
<1> USE DEF TypeOK, DeadNotAsleep
<1>1. CASE UNCHANGED vars
  BY <1>1 DEF vars
<1>2. ASSUME NEW t \in Tasks, NEW q \in ClosedQueues, SleepOn(t, q), NobodyEnters PROVE on'[u] = NULL
  BY <1>2 DEF SleepOn, Scan
<1>3. ASSUME NEW t \in Tasks, NEW q \in IQueues, InterruptibleSleepOn(t, q), NobodyEnters PROVE on'[u] = NULL
  BY <1>3 DEF InterruptibleSleepOn, Scan
<1>4. ASSUME NEW t \in Tasks, SleepOnReturn(t), NobodyEnters PROVE on'[u] = NULL
  BY <1>4 DEF SleepOnReturn, SetRunning
<1>5. ASSUME NEW t \in Tasks, InterruptibleRepeat(t), NobodyEnters PROVE on'[u] = NULL
  <2>1. [SetRunning(state, head[on[t]]) EXCEPT ![t] = "interruptible"] \in [Tasks -> States]
    BY DEF SetRunning, States
  <2>2. [SetRunning(state, head[on[t]]) EXCEPT ![t] = "interruptible"][u] \in {"zombie", "free"}
    BY <1>5, <2>1, ScanFacts DEF InterruptibleRepeat
  <2>3. state[u] \in {"zombie", "free"}
    BY <2>2 DEF SetRunning
  <2> QED BY <1>5, <2>3 DEF InterruptibleRepeat
<1>6. ASSUME NEW t \in Tasks, InterruptibleReturn(t), NobodyEnters PROVE on'[u] = NULL
  BY <1>6 DEF InterruptibleReturn, SetRunning
<1>7. ASSUME NEW q \in Queues, WakeUp(q) PROVE on'[u] = NULL
  BY <1>7 DEF WakeUp, SetRunning
<1>8. ASSUME NEW t \in Tasks, Pause(t), NobodyEnters PROVE on'[u] = NULL
  BY <1>8 DEF Pause, Executing, Scan
<1>9. ASSUME NEW t \in Tasks, SendSig(t) PROVE on'[u] = NULL
  BY <1>9 DEF SendSig
<1>10. ASSUME NEW t \in Tasks, DoSignal(t), NobodyEnters PROVE on'[u] = NULL
  BY <1>10 DEF DoSignal
<1>11. ASSUME NEW t \in Tasks, NEW S \in SUBSET Tasks, DoExit(t, S), NobodyEnters PROVE on'[u] = NULL
  BY <1>11 DEF DoExit, Executing, Scan
<1>12. ASSUME NEW t \in Tasks, Release(t), NobodyEnters PROVE on'[u] = NULL
  BY <1>12 DEF Release, Scan
<1>13. ASSUME NEW t \in Tasks, CopyProcess(t), NobodyEnters PROVE on'[u] = NULL
  BY <1>13 DEF CopyProcess
<1>14. CASE Schedule /\ NobodyEnters
  BY <1>14, ScanFacts DEF Schedule
<1>15. ASSUME NEW t \in Tasks, NEW q \in OpenQueues, Enter(t, q) PROVE on'[u] = NULL
  BY <1>15, QueueAssumption DEF Enter, Executing, SetRunning, States
<1>16. CASE Block
  BY <1>16 DEF Block, Scan
<1> QED BY <1>1, <1>2, <1>3, <1>4, <1>5, <1>6, <1>7, <1>8, <1>9, <1>10, <1>11,
           <1>12, <1>13, <1>14, <1>15, <1>16, QueueAssumption DEF Next, TaskStep, ClosedQueues

(* A step that changes neither the sleepers of q, nor its pointer, nor the  *)
(* sleepers' tmp, and takes nobody in flight back, loses no sleeper of q.   *)
LEMMA Frame ==
  ASSUME NEW q \in UQueues, Reached(q),
         Asleep(q)' = Asleep(q),
         head'[q] = head[q],
         \A t \in Asleep(q) : tmp'[t] = tmp[t],
         \A t \in InFlight(q) : state'[t] = "running" /\ t # entering'
  PROVE  Reached(q)'
<1> SUFFICES ASSUME NEW C \in SUBSET Tasks,
                    head'[q] \in Asleep(q)' => head'[q] \in C,
                    InFlight(q)' \subseteq C,
                    Closed(q, C)'
             PROVE  Asleep(q)' \subseteq C
  BY DEF Reached
<1>1. InFlight(q) \subseteq C
  BY DEF InFlight
<1>2. Closed(q, C)
  BY DEF Closed
<1> QED BY <1>1, <1>2 DEF Reached

(* wake_up() on q puts the task the pointer names in flight before it       *)
(* forgets the pointer, if that task was not about to change its state.     *)
LEMMA WakeUpReached ==
  ASSUME TypeOK, DeadNotAsleep, NEW q \in UQueues, Reached(q), WakeUp(q),
         q \notin missed'
  PROVE  Reached(q)'
<1> SUFFICES ASSUME NEW C \in SUBSET Tasks,
                    InFlight(q)' \subseteq C,
                    Closed(q, C)'
             PROVE  Asleep(q)' \subseteq C
  BY DEF Reached
<1> USE DEF TypeOK
<1>0. q \in Queues /\ q # NULL
  BY QueueAssumption DEF Queues
<1>1. Asleep(q)' = Asleep(q) /\ tmp' = tmp
  BY DEF WakeUp, Asleep
<1>2. \A u \in Tasks : state[u] = "running" => state'[u] = "running"
  BY DEF SetRunning, WakeUp
<1>3. InFlight(q) \subseteq C
  BY <1>1, <1>2 DEF InFlight, Asleep, WakeUp
<1>4. Closed(q, C)
  BY <1>1 DEF Closed
<1>5. ASSUME head[q] \in Asleep(q) PROVE head[q] \in C
  <2>1. head[q] \in Tasks /\ state[head[q]] # "free"
    BY <1>0, <1>5 DEF Asleep, DeadNotAsleep
  <2>2. state'[head[q]] = "running"
    BY <2>1 DEF WakeUp, SetRunning
  <2>3. head[q] # entering'
    BY <1>0, <1>5, <2>1, QueueAssumption DEF WakeUp, Asleep
  <2> QED BY <1>1, <1>5, <2>2, <2>3 DEF InFlight
<1> QED BY <1>1, <1>3, <1>4, <1>5 DEF Reached

(* sleep_on() puts t in front of the old list, whether or not an interrupt  *)
(* is let in on the way.                                                    *)
LEMMA SleepOnReached ==
  ASSUME TypeOK, NEW q \in UQueues, NEW t \in Tasks, Reached(q),
         (SleepOn(t, q) /\ NobodyEnters) \/ Enter(t, q)
  PROVE  Reached(q)'
<1> SUFFICES ASSUME NEW C \in SUBSET Tasks,
                    head'[q] \in Asleep(q)' => head'[q] \in C,
                    InFlight(q)' \subseteq C,
                    Closed(q, C)'
             PROVE  Asleep(q)' \subseteq C
  BY DEF Reached
<1> USE DEF TypeOK
<1>0. q \in Queues /\ q # NULL
  BY QueueAssumption DEF Queues
<1>1. Asleep(q)' = Asleep(q) \union {t} /\ t \notin Asleep(q)
  BY <1>0 DEF SleepOn, Enter, Executing, Asleep
<1>2. t \in C
  BY <1>0, <1>1 DEF SleepOn, Enter
<1>3. \A u \in Tasks \ {t} : /\ state[u] = "running" => state'[u] = "running"
                             /\ u # entering'
  BY QueueAssumption DEF SleepOn, Enter, NobodyEnters, Scan, SetRunning
<1>4. InFlight(q) \subseteq C
  BY <1>1, <1>3 DEF InFlight, Asleep
<1>5. \A u \in Tasks \ {t} : tmp'[u] = tmp[u]
  BY DEF SleepOn, Enter
<1>6. Closed(q, C)
  BY <1>1, <1>5 DEF Closed, Asleep
<1>7. tmp'[t] = head[q]
  BY DEF SleepOn, Enter
<1>8. head[q] \in Asleep(q) => head[q] \in C
  BY <1>1, <1>2, <1>7 DEF Closed
<1> QED BY <1>1, <1>2, <1>4, <1>6, <1>8 DEF Reached

(* A task that leaves sleep_on() passes the wake-up on to its tmp, whether  *)
(* or not the queue pointer names it.                                       *)
LEMMA SleepOnReturnReached ==
  ASSUME TypeOK, DeadNotAsleep, NEW q \in UQueues, NEW t \in Tasks,
         Reached(q), on[t] = q, SleepOnReturn(t), NobodyEnters
  PROVE  Reached(q)'
<1> SUFFICES ASSUME NEW C \in SUBSET Tasks,
                    head'[q] \in Asleep(q)' => head'[q] \in C,
                    InFlight(q)' \subseteq C,
                    Closed(q, C)'
             PROVE  Asleep(q)' \subseteq C
  BY DEF Reached
<1> USE DEF TypeOK
<1>0. q # NULL
  BY QueueAssumption DEF Queues
<1> DEFINE D == C \union {t}
<1>1. Asleep(q)' = Asleep(q) \ {t}
  BY <1>0 DEF SleepOnReturn, Asleep
<1>2. head[q] \in Asleep(q) => head[q] \in D
  BY <1>1 DEF SleepOnReturn
<1>3. \A u \in Tasks : /\ state[u] = "running" => state'[u] = "running"
                       /\ u # entering'
  BY QueueAssumption DEF SetRunning, SleepOnReturn, NobodyEnters
<1>4. InFlight(q) \subseteq D
  BY <1>1, <1>3 DEF InFlight, Asleep
<1>5. ASSUME NEW u \in D \intersect Asleep(q), tmp[u] \in Asleep(q)
      PROVE  tmp[u] \in D
  <2>1. CASE u = t
    <3>1. tmp[t] \in Tasks /\ state[tmp[t]] # "free"
      BY <1>0, <1>5, <2>1 DEF Asleep, DeadNotAsleep
    <3>2. state'[tmp[t]] = "running"
      BY <3>1 DEF SleepOnReturn, SetRunning
    <3>3. tmp[t] # entering'
      BY <1>3, <3>1
    <3>4. tmp[t] # t => tmp[t] \in InFlight(q)'
      <4>1. tmp[t] # t => tmp[t] \in Asleep(q)'
        BY <1>1, <1>5, <2>1
      <4>2. InFlight(q)' = {v \in Asleep(q)' : state'[v] = "running" /\ v # entering'}
        BY DEF InFlight
      <4> QED BY <4>1, <4>2, <3>2, <3>3
    <3> QED BY <2>1, <3>4
  <2>2. CASE u # t
    <3>1. tmp'[u] = tmp[u]
      BY <2>2 DEF SleepOnReturn, Asleep
    <3> QED BY <1>1, <1>5, <2>2, <3>1 DEF Closed
  <2> QED BY <2>1, <2>2
<1>6. Closed(q, D)
  BY <1>5 DEF Closed
<1>7. D \in SUBSET Tasks
  OBVIOUS
<1>8. Asleep(q) \subseteq D
  BY <1>2, <1>4, <1>6, <1>7 DEF Reached
<1> QED BY <1>1, <1>8

(* The list from the queue pointer through tmp survives every step.         *)
LEMMA NoLostStep ==
  TypeOK /\ DeadNotAsleep /\ NoLostSleeper /\ [Next]_vars => NoLostSleeper'
<1> SUFFICES ASSUME TypeOK, DeadNotAsleep, NoLostSleeper, [Next]_vars,
                    NEW q \in UQueues, q \notin missed'
             PROVE  Reached(q)'
  BY DEF NoLostSleeper
<1> USE QueueAssumption DEF TypeOK
<1>a. q \notin missed
  BY DEF Next, NobodyEnters, Enter, Block, WakeUp, SendSig, vars
<1>0. Reached(q) /\ q \in Queues /\ q # NULL /\ q \notin IQueues
  BY <1>a DEF NoLostSleeper, Queues
<1>1. CASE UNCHANGED vars
  BY <1>0, <1>1, Frame DEF vars, Asleep, InFlight
<1>2. ASSUME NEW t \in Tasks, NEW p \in ClosedQueues, SleepOn(t, p), NobodyEnters PROVE Reached(q)'
  <2>1. CASE p = q
    BY <1>0, <1>2, <2>1, SleepOnReached
  <2>2. CASE p # q
    <3>1. Asleep(q)' = Asleep(q) /\ t \notin Asleep(q)
      BY <1>0, <1>2, <2>2 DEF SleepOn, Executing, Asleep
    <3>2. head'[q] = head[q] /\ \A u \in Asleep(q) : tmp'[u] = tmp[u]
      BY <1>2, <2>2, <3>1, <1>0 DEF SleepOn, Asleep
    <3>3. \A u \in InFlight(q) : state'[u] = "running" /\ u # entering'
      BY <1>2, <3>1 DEF SleepOn, Scan, Asleep, InFlight, NobodyEnters
    <3> QED BY <1>0, <3>1, <3>2, <3>3, Frame
  <2> QED BY <2>1, <2>2
<1>3. ASSUME NEW t \in Tasks, NEW p \in IQueues, InterruptibleSleepOn(t, p), NobodyEnters PROVE Reached(q)'
  <2>1. Asleep(q)' = Asleep(q) /\ t \notin Asleep(q)
    BY <1>0, <1>3 DEF InterruptibleSleepOn, Executing, Asleep
  <2>2. head'[q] = head[q] /\ \A u \in Asleep(q) : tmp'[u] = tmp[u]
    BY <1>3, <2>1, <1>0 DEF InterruptibleSleepOn, Asleep
  <2>3. \A u \in InFlight(q) : state'[u] = "running" /\ u # entering'
    BY <1>3, <2>1 DEF InterruptibleSleepOn, Scan, Asleep, InFlight, NobodyEnters
  <2> QED BY <1>0, <2>1, <2>2, <2>3, Frame
<1>4. ASSUME NEW t \in Tasks, SleepOnReturn(t), NobodyEnters PROVE Reached(q)'
  <2>1. CASE on[t] = q
    BY <1>0, <1>4, <2>1, SleepOnReturnReached
  <2>2. CASE on[t] # q
    <3>1. Asleep(q)' = Asleep(q) /\ t \notin Asleep(q)
      BY <1>0, <1>4, <2>2 DEF SleepOnReturn, Asleep
    <3>2. head'[q] = head[q] /\ \A u \in Asleep(q) : tmp'[u] = tmp[u]
      BY <1>4, <3>1 DEF SleepOnReturn, Asleep
    <3>3. \A u \in InFlight(q) : state'[u] = "running" /\ u # entering'
      BY <1>4 DEF SleepOnReturn, SetRunning, Asleep, InFlight, NobodyEnters
    <3> QED BY <1>0, <3>1, <3>2, <3>3, Frame
  <2> QED BY <2>1, <2>2
<1>5. ASSUME NEW t \in Tasks, InterruptibleRepeat(t), NobodyEnters PROVE Reached(q)'
  <2>1. Asleep(q)' = Asleep(q) /\ t \notin Asleep(q) /\ head' = head /\ tmp' = tmp
    BY <1>0, <1>5 DEF InterruptibleRepeat, Asleep
  <2>2. \A u \in InFlight(q) : state'[u] = "running" /\ u # entering'
    BY <1>5, <2>1 DEF InterruptibleRepeat, Scan, SetRunning, Asleep, InFlight, NobodyEnters
  <2> QED BY <1>0, <2>1, <2>2, Frame
<1>6. ASSUME NEW t \in Tasks, InterruptibleReturn(t), NobodyEnters PROVE Reached(q)'
  <2>1. Asleep(q)' = Asleep(q) /\ t \notin Asleep(q)
    BY <1>0, <1>6 DEF InterruptibleReturn, Asleep
  <2>2. head'[q] = head[q] /\ \A u \in Asleep(q) : tmp'[u] = tmp[u]
    BY <1>6, <2>1, <1>0 DEF InterruptibleReturn, Asleep
  <2>3. \A u \in InFlight(q) : state'[u] = "running" /\ u # entering'
    BY <1>6 DEF InterruptibleReturn, SetRunning, Asleep, InFlight, NobodyEnters
  <2> QED BY <1>0, <2>1, <2>2, <2>3, Frame
<1>7. ASSUME NEW p \in Queues, WakeUp(p) PROVE Reached(q)'
  <2>1. CASE p = q
    BY <1>0, <1>7, <2>1, WakeUpReached
  <2>2. CASE p # q
    <3>1. Asleep(q)' = Asleep(q) /\ tmp' = tmp /\ head'[q] = head[q]
      BY <1>0, <1>7, <2>2 DEF WakeUp, Asleep
    <3>2. \A u \in InFlight(q) : state'[u] = "running" /\ u # entering'
      BY <1>7 DEF WakeUp, SetRunning, Asleep, InFlight, NobodyEnters
    <3> QED BY <1>0, <3>1, <3>2, Frame
  <2> QED BY <2>1, <2>2
<1>8. ASSUME NEW t \in Tasks, Pause(t), NobodyEnters PROVE Reached(q)'
  <2>1. Asleep(q)' = Asleep(q) /\ t \notin Asleep(q) /\ head' = head /\ tmp' = tmp
    BY <1>0, <1>8 DEF Pause, Executing, Asleep
  <2>2. \A u \in InFlight(q) : state'[u] = "running" /\ u # entering'
    BY <1>8, <2>1 DEF Pause, Scan, Asleep, InFlight, NobodyEnters
  <2> QED BY <1>0, <2>1, <2>2, Frame
<1>9. ASSUME NEW t \in Tasks, SendSig(t) PROVE Reached(q)'
  BY <1>0, <1>9, Frame DEF SendSig, Asleep, InFlight
<1>10. ASSUME NEW t \in Tasks, DoSignal(t), NobodyEnters PROVE Reached(q)'
  BY <1>0, <1>10, Frame DEF DoSignal, Asleep, InFlight, NobodyEnters
<1>11. ASSUME NEW t \in Tasks, NEW S \in SUBSET Tasks, DoExit(t, S), NobodyEnters PROVE Reached(q)'
  <2>1. Asleep(q)' = Asleep(q) /\ t \notin Asleep(q) /\ head' = head /\ tmp' = tmp
    BY <1>0, <1>11 DEF DoExit, Executing, Asleep
  <2>2. \A u \in InFlight(q) : state'[u] = "running" /\ u # entering'
    BY <1>11, <2>1 DEF DoExit, Scan, Asleep, InFlight, NobodyEnters
  <2> QED BY <1>0, <2>1, <2>2, Frame
<1>12. ASSUME NEW t \in Tasks, Release(t), NobodyEnters PROVE Reached(q)'
  <2>1. Asleep(q)' = Asleep(q) /\ head' = head /\ tmp' = tmp
    BY <1>12 DEF Release, Asleep
  <2>2. \A u \in InFlight(q) : state'[u] = "running" /\ u # entering'
    BY <1>12 DEF Release, Scan, Asleep, InFlight, NobodyEnters
  <2> QED BY <1>0, <2>1, <2>2, Frame
<1>13. ASSUME NEW t \in Tasks, CopyProcess(t), NobodyEnters PROVE Reached(q)'
  <2>1. Asleep(q)' = Asleep(q) /\ head' = head /\ tmp' = tmp
    BY <1>13 DEF CopyProcess, Asleep
  <2>2. \A u \in InFlight(q) : state'[u] = "running" /\ u # entering'
    BY <1>13 DEF CopyProcess, Asleep, InFlight, NobodyEnters
  <2> QED BY <1>0, <2>1, <2>2, Frame
<1>14. CASE Schedule /\ NobodyEnters
  <2>1. Asleep(q)' = Asleep(q) /\ head' = head /\ tmp' = tmp
    BY <1>14 DEF Schedule, Asleep
  <2>2. \A u \in InFlight(q) : state'[u] = "running" /\ u # entering'
    BY <1>14 DEF Schedule, Scan, Asleep, InFlight, NobodyEnters
  <2> QED BY <1>0, <2>1, <2>2, Frame
<1>15. ASSUME NEW t \in Tasks, NEW p \in OpenQueues, Enter(t, p) PROVE Reached(q)'
  <2>1. CASE p = q
    BY <1>0, <1>15, <2>1, SleepOnReached
  <2>2. CASE p # q
    <3>1. Asleep(q)' = Asleep(q) /\ t \notin Asleep(q)
      BY <1>0, <1>15, <2>2 DEF Enter, Executing, Asleep
    <3>2. head'[q] = head[q] /\ \A u \in Asleep(q) : tmp'[u] = tmp[u]
      BY <1>15, <2>2, <3>1, <1>0 DEF Enter, Asleep
    <3>3. \A u \in InFlight(q) : state'[u] = "running" /\ u # entering'
      BY <1>15, <3>1 DEF Enter, SetRunning, Asleep, InFlight
    <3> QED BY <1>0, <3>1, <3>2, <3>3, Frame
  <2> QED BY <2>1, <2>2
<1>16. CASE Block
  <2>1. Asleep(q)' = Asleep(q) /\ head' = head /\ tmp' = tmp
    BY <1>16 DEF Block, Asleep
  <2>2. \A u \in InFlight(q) : state'[u] = "running" /\ u # entering'
    BY <1>16 DEF Block, Scan, Asleep, InFlight
  <2> QED BY <1>0, <2>1, <2>2, Frame
<1> QED BY <1>1, <1>2, <1>3, <1>4, <1>5, <1>6, <1>7, <1>8, <1>9, <1>10, <1>11,
           <1>12, <1>13, <1>14, <1>15, <1>16, QueueAssumption DEF Next, TaskStep, ClosedQueues

(* For any number of tasks and queues, a task that has exited or has been   *)
(* released is inside no sleep function (exit.c:19-33, 102-135).            *)
THEOREM NoZombieQueued == Spec => []DeadNotAsleep
<1>1. Init => DeadNotAsleep
  BY DEF Init, DeadNotAsleep
<1> QED BY <1>1, TypeCorrect, DeadStep, PTL DEF Spec

(* For any number of tasks and queues, no sleeper of sleep_on() is lost:    *)
(* the list threaded through tmp leads to it (sched.c:151-194), on a queue  *)
(* that tasks enter with interrupts enabled until a wake_up() meets a task  *)
(* between its assignments to *p and to the state (ll_rw_blk.c:129).        *)
THEOREM NoSleeperLost == Spec => []NoLostSleeper
<1> DEFINE IInv == TypeOK /\ DeadNotAsleep /\ NoLostSleeper
<1>1. Init => IInv
  <2> SUFFICES ASSUME Init PROVE IInv
    OBVIOUS
  <2>1. TypeOK
    BY DEF Init, TypeOK, States
  <2>2. DeadNotAsleep
    BY DEF Init, DeadNotAsleep
  <2>3. NoLostSleeper
    <3> SUFFICES ASSUME NEW q \in UQueues, NEW t \in Asleep(q) PROVE FALSE
      BY DEF NoLostSleeper, Reached
    <3> QED BY QueueAssumption DEF Init, Asleep, Queues
  <2> QED BY <2>1, <2>2, <2>3
<1>2. IInv /\ [Next]_vars => IInv'
  BY TypeStep, DeadStep, NoLostStep
<1>3. IInv => NoLostSleeper
  OBVIOUS
<1> HIDE DEF IInv
<1> QED BY <1>1, <1>2, <1>3, PTL DEF Spec
-----------------------------------------------------------------------------
(* The wait queues implement the sets of sleepers of WaitSet.               *)

(* Whoever the tasks in flight lead to is still led to after a step that    *)
(* takes no sleeper off q and nobody in flight back, and leaves the tmp of  *)
(* the sleepers alone.                                                      *)
LEMMA WokenFrame ==
  ASSUME NEW q \in UQueues,
         Asleep(q) \subseteq Asleep(q)',
         \A t \in Asleep(q) : tmp'[t] = tmp[t],
         \A t \in InFlight(q) : state'[t] = "running" /\ t # entering'
  PROVE  Woken(q) \subseteq Woken(q)'
<1> SUFFICES ASSUME NEW u \in Woken(q), NEW C \in SUBSET Tasks,
                    InFlight(q)' \subseteq C, Closed(q, C)'
             PROVE  u \in C
  BY DEF Woken
<1>1. InFlight(q) \subseteq C
  BY DEF InFlight
<1>2. Closed(q, C)
  BY DEF Closed
<1> QED BY <1>1, <1>2 DEF Woken

(* A task that leaves sleep_on() hands its wake-up on: the others it led to *)
(* are led to by whom it wakes.                                             *)
LEMMA SleepOnReturnWoken ==
  ASSUME TypeOK, DeadNotAsleep, NEW q \in UQueues, NEW t \in Tasks,
         on[t] = q, SleepOnReturn(t), NobodyEnters
  PROVE  Woken(q) \ {t} \subseteq Woken(q)'
<1> USE DEF TypeOK
<1>0. q # NULL
  BY QueueAssumption DEF Queues
<1>1. Asleep(q)' = Asleep(q) \ {t}
  BY <1>0 DEF SleepOnReturn, Asleep
<1> SUFFICES ASSUME NEW x \in Woken(q) \ {t}, NEW C \in SUBSET Tasks,
                    InFlight(q)' \subseteq C, Closed(q, C)'
             PROVE  x \in C
  BY <1>1 DEF Woken
<1> DEFINE D == C \union {t}
<1>3. \A u \in Tasks : /\ state[u] = "running" => state'[u] = "running"
                       /\ u # entering'
  BY QueueAssumption DEF SetRunning, SleepOnReturn, NobodyEnters
<1>4. InFlight(q) \subseteq D
  BY <1>1, <1>3 DEF InFlight, Asleep
<1>5. ASSUME NEW u \in D \intersect Asleep(q), tmp[u] \in Asleep(q)
      PROVE  tmp[u] \in D
  <2>1. CASE u = t
    <3>1. tmp[t] \in Tasks /\ state[tmp[t]] # "free"
      BY <1>0, <1>5, <2>1 DEF Asleep, DeadNotAsleep
    <3>2. state'[tmp[t]] = "running"
      BY <3>1 DEF SleepOnReturn, SetRunning
    <3>3. tmp[t] # entering'
      BY <1>3, <3>1
    <3>4. tmp[t] # t => tmp[t] \in InFlight(q)'
      <4>1. tmp[t] # t => tmp[t] \in Asleep(q)'
        BY <1>1, <1>5, <2>1
      <4>2. InFlight(q)' = {v \in Asleep(q)' : state'[v] = "running" /\ v # entering'}
        BY DEF InFlight
      <4> QED BY <4>1, <4>2, <3>2, <3>3
    <3> QED BY <2>1, <3>4
  <2>2. CASE u # t
    <3>1. tmp'[u] = tmp[u]
      BY <2>2 DEF SleepOnReturn, Asleep
    <3> QED BY <1>1, <1>5, <2>2, <3>1 DEF Closed
  <2> QED BY <2>1, <2>2
<1>6. Closed(q, D)
  BY <1>5 DEF Closed
<1>7. D \in SUBSET Tasks
  OBVIOUS
<1> HIDE DEF D
<1>8. x \in D
  BY <1>4, <1>6, <1>7 DEF Woken
<1> QED BY <1>8 DEF D

(* The refinement mapping.                                                  *)
asleepBar == [t \in Tasks |-> IF on[t] \in ClosedQueues THEN on[t] ELSE NULL]
wokenBar == UNION {Woken(q) : q \in ClosedQueues}
quietBar == {q \in ClosedQueues : head[q] = NULL}

(* A step that loses no woken sleeper, and changes neither who sleeps nor   *)
(* which queue is quiet, is a spurious wake-up at most.                     *)
LEMMA SpuriousStep ==
  ASSUME TypeOK, \A t \in Tasks : on'[t] \in ClosedQueues <=> on[t] \in ClosedQueues,
         \A t \in Tasks : on[t] \in ClosedQueues => on'[t] = on[t],
         \A q \in ClosedQueues : head'[q] = head[q],
         \A t \in Tasks : on[t] \in ClosedQueues => tmp'[t] = tmp[t],
         \A t \in Tasks : on[t] \in ClosedQueues /\ state[t] = "running" /\ t # entering
                            => state'[t] = "running" /\ t # entering'
  PROVE  Abstract!Next
<1>1. asleepBar' = asleepBar
  BY DEF asleepBar
<1>2. quietBar' = quietBar
  BY DEF quietBar
<1>3. wokenBar \subseteq wokenBar'
  <2> SUFFICES ASSUME NEW q \in ClosedQueues PROVE Woken(q) \subseteq Woken(q)'
    BY DEF wokenBar
  <2> QED BY WokenFrame DEF Asleep, InFlight, ClosedQueues
<1>4. wokenBar' \in SUBSET Tasks
  BY DEF wokenBar, Woken, Asleep
<1>5. wokenBar' \subseteq {t \in Tasks : asleepBar'[t] # NULL}
  BY QueueAssumption DEF wokenBar, Woken, Asleep, asleepBar, Queues, ClosedQueues
<1>6. wokenBar' = wokenBar \union wokenBar'
  BY <1>3
<1>7. Abstract!Spurious(wokenBar')
  BY <1>1, <1>2, <1>6 DEF Abstract!Spurious, asleepBar, wokenBar, quietBar
<1> QED BY <1>4, <1>5, <1>7 DEF Abstract!Next, asleepBar

(* Each step of the code is a step of WaitSet, or leaves its state alone.   *)
LEMMA RefinementStep ==
  TypeOK /\ TypeOK' /\ DeadNotAsleep /\ NoLostSleeper' /\ [Next]_vars
    => [Abstract!Next]_(Abstract!vars)
<1> SUFFICES ASSUME TypeOK, TypeOK', DeadNotAsleep, NoLostSleeper', [Next]_vars
             PROVE  Abstract!Next \/ UNCHANGED <<asleepBar, wokenBar, quietBar>>
  BY DEF Abstract!vars, asleepBar, wokenBar, quietBar
<1>d. missed' \subseteq OpenQueues
  BY DEF TypeOK
<1> USE DEF TypeOK
<1>0. /\ NULL \notin ClosedQueues /\ NULL \notin Tasks /\ NULL \notin OpenQueues
      /\ ClosedQueues \subseteq Queues /\ ClosedQueues \subseteq UQueues
      /\ IQueues \subseteq Queues /\ ClosedQueues \intersect IQueues = {}
      /\ ClosedQueues \intersect OpenQueues = {}
  BY QueueAssumption DEF Queues, ClosedQueues
<1>a. PICK S \in SUBSET Tasks : S = wokenBar'
  <2>1. wokenBar' \in SUBSET Tasks
    BY DEF wokenBar, Woken, Asleep
  <2> QED BY <2>1
<1>b. S \subseteq {t \in Tasks :
        [u \in Tasks |-> IF on[u] \in ClosedQueues THEN on[u] ELSE NULL]'[t] # NULL}
  BY <1>0, <1>a DEF wokenBar, Woken, Asleep
<1>c. ASSUME \/ \E t \in Tasks, q \in ClosedQueues : Abstract!Sleep(t, q, S)
             \/ \E q \in ClosedQueues : Abstract!Wake(q, S)
             \/ \E t \in Tasks : Abstract!Return(t, S)
      PROVE  Abstract!Next
  BY Zenon, <1>b, <1>c DEF Abstract!Next
<1>1. CASE UNCHANGED vars
  <2>1. \A q \in ClosedQueues : Woken(q)' = Woken(q)
    BY <1>1 DEF vars, Woken, InFlight, Closed, Asleep
  <2> QED BY <1>1, <2>1 DEF vars, asleepBar, wokenBar, quietBar
<1>2. ASSUME NEW t \in Tasks, NEW q \in ClosedQueues, SleepOn(t, q), NobodyEnters PROVE Abstract!Next
  <2>a. on' = [on EXCEPT ![t] = q] /\ on[t] = NULL /\ NULL \notin ClosedQueues
    BY <1>0, <1>2 DEF SleepOn, Executing
  <2>1. asleepBar[t] = NULL /\ asleepBar' = [asleepBar EXCEPT ![t] = q]
    BY <2>a DEF asleepBar
  <2>2. quietBar' = quietBar \ {q}
    BY <1>0, <1>2 DEF SleepOn, quietBar
  <2>3. wokenBar \subseteq wokenBar'
    <3> SUFFICES ASSUME NEW p \in ClosedQueues PROVE Woken(p) \subseteq Woken(p)'
      BY DEF wokenBar
    <3>1. t \notin Asleep(p) /\ Asleep(p) \subseteq Asleep(p)'
      BY <1>0, <1>2 DEF SleepOn, Executing, Asleep
    <3>2. \A u \in Asleep(p) : tmp'[u] = tmp[u]
      BY <1>2, <3>1 DEF SleepOn, Asleep
    <3>3. \A u \in InFlight(p) : state'[u] = "running" /\ u # entering'
      BY <1>2, <3>1 DEF SleepOn, Scan, Asleep, InFlight, NobodyEnters
    <3> QED BY <1>0, <3>1, <3>2, <3>3, WokenFrame
  <2>4. wokenBar' = wokenBar \union S
    BY <1>a, <2>3
  <2>5. Abstract!Sleep(t, q, S)
    BY <2>1, <2>2, <2>4 DEF Abstract!Sleep, asleepBar, wokenBar, quietBar
  <2> QED BY <1>c, <2>5
<1>3. ASSUME NEW t \in Tasks, NEW q \in IQueues, InterruptibleSleepOn(t, q), NobodyEnters PROVE Abstract!Next
  BY <1>0, <1>3, SpuriousStep DEF NobodyEnters, InterruptibleSleepOn, Executing, Scan
<1>4. ASSUME NEW t \in Tasks, SleepOnReturn(t), NobodyEnters PROVE Abstract!Next
  <2>a. CASE on[t] \notin ClosedQueues
    <3>1. \A u \in Tasks : on[u] \in ClosedQueues /\ state[u] = "running" /\ u # entering
                             => state'[u] = "running" /\ u # entering'
      BY <1>4 DEF SleepOnReturn, SetRunning, NobodyEnters
    <3> QED BY <1>0, <1>4, <2>a, <3>1, SpuriousStep DEF SleepOnReturn
  <2>0. SUFFICES ASSUME on[t] \in ClosedQueues PROVE Abstract!Next
    BY <2>a
  <2>1. t \in wokenBar
    <3>1. t \in Woken(on[t])
      BY <1>0, <1>4 DEF SleepOnReturn, NobodyEnters, Woken, InFlight, Asleep
    <3> QED BY <2>0, <3>1 DEF wokenBar
  <2>b. on' = [on EXCEPT ![t] = NULL] /\ head' = head /\ NULL \notin ClosedQueues
    BY <1>0, <1>4 DEF SleepOnReturn
  <2>2. asleepBar' = [asleepBar EXCEPT ![t] = NULL] /\ quietBar' = quietBar
    BY <2>b DEF asleepBar, quietBar
  <2>3. wokenBar \ {t} \subseteq wokenBar'
    <3> SUFFICES ASSUME NEW p \in ClosedQueues PROVE Woken(p) \ {t} \subseteq Woken(p)'
      BY DEF wokenBar
    <3>1. CASE on[t] = p
      BY <1>0, <1>4, <3>1, SleepOnReturnWoken
    <3>2. CASE on[t] # p
      <4>1. t \notin Asleep(p) /\ Asleep(p) \subseteq Asleep(p)'
        BY <1>0, <1>4, <3>2 DEF SleepOnReturn, Asleep
      <4>2. \A u \in Asleep(p) : tmp'[u] = tmp[u]
        BY <1>4, <4>1 DEF SleepOnReturn, Asleep
      <4>3. \A u \in InFlight(p) : state'[u] = "running" /\ u # entering'
        BY <1>4 DEF SleepOnReturn, SetRunning, Asleep, InFlight, NobodyEnters
      <4> QED BY <1>0, <4>1, <4>2, <4>3, WokenFrame
    <3> QED BY <3>1, <3>2
  <2>4. t \notin wokenBar'
    BY <1>0, <1>4 DEF SleepOnReturn, wokenBar, Woken, Asleep
  <2>5. wokenBar' = (wokenBar \ {t}) \union (S \ {t})
    BY <1>a, <2>3, <2>4
  <2>6. Abstract!Return(t, S)
    BY <2>1, <2>2, <2>5 DEF Abstract!Return, asleepBar, wokenBar, quietBar
  <2> QED BY <1>c, <2>6
<1>5. ASSUME NEW t \in Tasks, InterruptibleRepeat(t), NobodyEnters PROVE Abstract!Next
  BY <1>0, <1>5, SpuriousStep DEF NobodyEnters, InterruptibleRepeat, Scan, SetRunning
<1>6. ASSUME NEW t \in Tasks, InterruptibleReturn(t), NobodyEnters PROVE Abstract!Next
  BY <1>0, <1>6, SpuriousStep DEF NobodyEnters, InterruptibleReturn, SetRunning
<1>7. ASSUME NEW q \in Queues, WakeUp(q) PROVE Abstract!Next
  <2>1. CASE q \notin ClosedQueues
    BY <1>0, <1>7, <2>1, SpuriousStep DEF WakeUp, SetRunning
  <2>2. CASE q \in ClosedQueues
    <3>1. asleepBar' = asleepBar /\ quietBar' = quietBar \union {q}
      BY <1>7, <2>2 DEF WakeUp, asleepBar, quietBar
    <3>2. wokenBar \subseteq wokenBar'
      <4> SUFFICES ASSUME NEW p \in ClosedQueues PROVE Woken(p) \subseteq Woken(p)'
        BY DEF wokenBar
      <4>1. Asleep(p)' = Asleep(p) /\ tmp' = tmp
        BY <1>7 DEF WakeUp, Asleep
      <4>2. \A u \in InFlight(p) : state'[u] = "running" /\ u # entering'
        BY <1>7 DEF WakeUp, SetRunning, Asleep, InFlight, NobodyEnters
      <4> QED BY <1>0, <4>1, <4>2, WokenFrame
    <3>3. {t \in Tasks : asleepBar[t] = q} \subseteq wokenBar'
      <4>1. {t \in Tasks : asleepBar[t] = q} = Asleep(q)'
        BY <1>0, <1>7, <2>2 DEF WakeUp, asleepBar, Asleep
      <4>2. head'[q] \notin Asleep(q)'
        BY <1>0, <1>7 DEF WakeUp, Asleep
      <4>3. Reached(q)'
        BY <1>0, <1>d, <2>2 DEF NoLostSleeper
      <4>4. Asleep(q)' \subseteq Woken(q)'
        BY <4>2, <4>3 DEF Reached, Woken
      <4> QED BY <2>2, <4>1, <4>4 DEF wokenBar
    <3>4. wokenBar' = wokenBar \union {t \in Tasks : asleepBar[t] = q} \union S
      BY <1>a, <3>2, <3>3
    <3>5. Abstract!Wake(q, S)
      BY <3>1, <3>4 DEF Abstract!Wake, asleepBar, wokenBar, quietBar
    <3> QED BY <1>c, <2>2, <3>5
  <2> QED BY <2>1, <2>2
<1>8. ASSUME NEW t \in Tasks, Pause(t), NobodyEnters PROVE Abstract!Next
  BY <1>0, <1>8, SpuriousStep DEF NobodyEnters, Pause, Executing, Scan
<1>9. ASSUME NEW t \in Tasks, SendSig(t) PROVE Abstract!Next
  BY <1>9, SpuriousStep DEF SendSig
<1>10. ASSUME NEW t \in Tasks, DoSignal(t), NobodyEnters PROVE Abstract!Next
  BY <1>10, SpuriousStep DEF NobodyEnters, DoSignal
<1>11. ASSUME NEW t \in Tasks, NEW E \in SUBSET Tasks, DoExit(t, E), NobodyEnters PROVE Abstract!Next
  <2>1. \A u \in Tasks : on[u] \in ClosedQueues /\ state[u] = "running" /\ u # entering
                           => state'[u] = "running" /\ u # entering'
    BY <1>0, <1>11 DEF NobodyEnters, DoExit, Executing, Scan
  <2>2. on' = on /\ head' = head /\ tmp' = tmp
    BY <1>11 DEF DoExit
  <2> QED BY <2>1, <2>2, SpuriousStep
<1>12. ASSUME NEW t \in Tasks, Release(t), NobodyEnters PROVE Abstract!Next
  <2>1. \A u \in Tasks : on[u] \in ClosedQueues /\ state[u] = "running" /\ u # entering
                           => state'[u] = "running" /\ u # entering'
    BY <1>0, <1>12 DEF NobodyEnters, Release, Scan
  <2>2. on' = on /\ head' = head /\ tmp' = tmp
    BY <1>12 DEF Release
  <2> QED BY <2>1, <2>2, SpuriousStep
<1>13. ASSUME NEW t \in Tasks, CopyProcess(t), NobodyEnters PROVE Abstract!Next
  BY <1>13, SpuriousStep DEF NobodyEnters, CopyProcess
<1>14. CASE Schedule /\ NobodyEnters
  BY <1>14, SpuriousStep DEF NobodyEnters, Schedule, Scan
<1>15. ASSUME NEW t \in Tasks, NEW q \in OpenQueues, Enter(t, q) PROVE Abstract!Next
  <2>1. \A u \in Tasks : on[u] \in ClosedQueues /\ state[u] = "running" /\ u # entering
                           => state'[u] = "running" /\ u # entering'
    BY <1>0, <1>15 DEF Enter, Executing, SetRunning
  <2> QED BY <1>0, <1>15, <2>1, SpuriousStep DEF Enter, Executing
<1>16. CASE Block
  <2>1. \A u \in Tasks : on[u] \in ClosedQueues /\ state[u] = "running" /\ u # entering
                           => state'[u] = "running" /\ u # entering'
    BY <1>0, <1>16 DEF Block, Scan
  <2> QED BY <1>16, <2>1, SpuriousStep DEF Block
<1> QED BY <1>1, <1>2, <1>3, <1>4, <1>5, <1>6, <1>7, <1>8, <1>9, <1>10, <1>11,
           <1>12, <1>13, <1>14, <1>15, <1>16, QueueAssumption DEF Next, TaskStep, ClosedQueues

(* For any number of tasks and queues, the pointer and the stack variables  *)
(* of sleep_on() and wake_up() implement sets of sleepers, on each queue    *)
(* that no handler wakes while a task is entering it: wake_up() dooms every *)
(* sleeper of its queue to return, and none escapes before it has returned  *)
(* (sched.c:151-165, 188-194).  Other queues may do what they like.         *)
THEOREM ImplementsWaitSet == Spec => WaitSetSpec
<1>1. Init => Abstract!Init
  <2> SUFFICES ASSUME Init PROVE Abstract!Init
    OBVIOUS
  <2>1. NULL \notin ClosedQueues /\ ClosedQueues \subseteq Queues
    BY QueueAssumption DEF Queues, ClosedQueues
  <2>2. asleepBar = [t \in Tasks |-> NULL]
    BY <2>1 DEF Init, asleepBar
  <2>3. wokenBar = {}
    BY <2>1 DEF Init, wokenBar, Woken, Asleep
  <2>4. quietBar = ClosedQueues
    BY <2>1 DEF Init, quietBar, Queues
  <2> QED BY <2>2, <2>3, <2>4 DEF Abstract!Init, asleepBar, wokenBar, quietBar
<1> QED BY <1>1, RefinementStep, TypeCorrect, NoZombieQueued, NoSleeperLost, PTL
        DEF Spec, WaitSetSpec, Abstract!Spec
=============================================================================
