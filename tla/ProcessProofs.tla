--------------------------- MODULE ProcessProofs ---------------------------
(***************************************************************************)
(* Proofs about Process, for task tables of any size, any range of process *)
(* numbers that is at least as large, and any scenario.                    *)
(***************************************************************************)
EXTENDS Process, FiniteSetTheorems, WellFoundedInduction, TLAPS

Table == [Slots -> Tasks \union {NULL}]

(* init is never sent anything but SIGCHLD, and so never exits: it is in no *)
(* session that could be hung up.                                           *)
InitRuns ==
  /\ task[1] # NULL
  /\ task[1].pid = 1 /\ task[1].father = 0 /\ task[1].session = 0
  /\ task[1].signal \subseteq {SIGCHLD}
  /\ task[1].pc \in {"user", "wait"}

(* No two tasks, running or zombies, have the same number.                  *)
PidsDistinct == \A s, c \in Live : task[s].pid = task[c].pid => s = c

(* A session is named after its leader.                                     *)
LeadersNamed == \A s \in Live : task[s].leader => task[s].session # 0

(* FatherIsParent with the slot of the father in place of a search for it.  *)
Related ==
  \A s \in Live \ {1} :
    /\ parent[s] \in Live
    /\ task[s].father = task[parent[s]].pid
    /\ task[parent[s]].pc \in {"user", "wait"}

(* The inductive invariant.                                                 *)
FamilyInv ==
  TypeOK /\ InitRuns /\ PidsDistinct /\ LeadersNamed /\ Related
-----------------------------------------------------------------------------
(* Any non-empty set of naturals has a least element.                      *)
LEMMA LeastNat ==
  ASSUME NEW T \in SUBSET Nat, T # {}
  PROVE  \E x \in T : \A y \in T : x =< y
<1> DEFINE R == {ss \in Nat \X Nat : ss[1] < ss[2]}
<1>1. IsWellFoundedOn(R, Nat)
  BY NatLessThanWellFounded DEF OpToRel
<1>2. ASSUME NEW a \in Nat, NEW b \in Nat, a < b PROVE <<a, b>> \in R
  <2>1. <<a, b>> \in Nat \X Nat /\ <<a, b>>[1] = a /\ <<a, b>>[2] = b
    OBVIOUS
  <2> QED BY <1>2, <2>1
<1> HIDE DEF R
<1>3. PICK x \in T : \A y \in T : ~(<<y, x>> \in R)
  BY <1>1, WFMin
<1>4. ASSUME NEW y \in T PROVE x =< y
  <2>1. x \in Nat /\ y \in Nat
    OBVIOUS
  <2>2. ~(y < x)
    BY <1>2, <1>3, <2>1
  <2> QED BY <2>1, <2>2
<1> QED BY <1>4

(* Min() is that element: the searches from the bottom of a table up.       *)
LEMMA MinFacts ==
  ASSUME NEW T \in SUBSET Nat, T # {}
  PROVE  Min(T) \in T /\ \A y \in T : Min(T) =< y
BY LeastNat DEF Min

(* Max() of a bounded set: the searches from the top of a table down.       *)
LEMMA MaxFacts ==
  ASSUME NEW n \in Nat, NEW T \in SUBSET (0 .. n), T # {}
  PROVE  Max(T) \in T /\ \A y \in T : y =< Max(T)
<1> DEFINE U == {x \in 0 .. n : n - x \in T}
<1>1. U # {} /\ U \in SUBSET Nat
  <2>1. PICK t \in T : TRUE
    OBVIOUS
  <2>2. n - t \in U
    <3>1. n - t \in 0 .. n /\ n - (n - t) = t
      OBVIOUS
    <3> QED BY <3>1
  <2> QED BY <2>2
<1>2. PICK x \in U : \A y \in U : x =< y
  BY <1>1, LeastNat
<1>3. ASSUME NEW t \in T PROVE t =< n - x
  <2>1. n - t \in 0 .. n /\ n - (n - t) = t
    OBVIOUS
  <2>2. x =< n - t
    BY <1>2, <2>1
  <2> QED BY <2>2
<1>4. n - x \in T
  OBVIOUS
<1>5. \E m \in T : \A y \in T : m >= y
  BY <1>3, <1>4
<1>6. Max(T) \in T /\ \A y \in T : Max(T) >= y
  BY <1>5 DEF Max
<1> QED BY <1>6
-----------------------------------------------------------------------------
(* The sizes in play.                                                       *)
LEMMA SizeFacts ==
  /\ NR_TASKS \in Nat /\ NR_TASKS >= 2
  /\ MAXPID \in Nat /\ MAXPID >= NR_TASKS
  /\ 1 \in Slots /\ SIGCHLD \in Sigs /\ SIGHUP \in Sigs
BY ProcessAssumption DEF Slots, SIGCHLD, SIGHUP

(* A slot is in use when it holds a task.                                   *)
LEMMA InUse ==
  ASSUME NEW tk \in Table, NEW t \in Slots
  PROVE  tk[t] # NULL <=> tk[t] \in Tasks
BY NullAssumption DEF Table

(* b is the task a in another place.                                        *)
Moved(a, b, p) ==
  /\ b \in Tasks
  /\ b.pid = a.pid /\ b.father = a.father /\ b.session = a.session
  /\ b.leader = a.leader /\ b.signal = a.signal /\ b.pgrp = a.pgrp
  /\ b.pc = p

(* What At() changes, and what not.                                         *)
LEMMA AtFacts ==
  ASSUME NEW a \in Tasks, NEW p \in {"user", "wait", "exit", "zombie"},
         NEW x \in -MAXPID .. MAXPID
  PROVE  Moved(a, At(a, p, x), p) /\ At(a, p, x).arg = x
BY DEF Tasks, At, Moved

(* A task that returns from sys_waitpid().                                  *)
LEMMA ReturnFacts ==
  ASSUME NEW a \in Tasks
  PROVE  Moved(a, At(a, "user", 0), "user")
<1>1. PICK p \in {"user", "wait", "exit", "zombie"}, x \in -MAXPID .. MAXPID :
        p = "user" /\ x = 0
  <2>1. 0 \in -MAXPID .. MAXPID
    BY SizeFacts
  <2> QED BY <2>1
<1>2. Moved(a, At(a, p, x), p)
  BY AtFacts
<1> QED BY <1>1, <1>2

(* b is the task a with more signals, but for g none that it did not have.  *)
MoreSignals(a, b, g) ==
  /\ a \in Tasks /\ b \in Tasks
  /\ b.pid = a.pid /\ b.father = a.father /\ b.session = a.session
  /\ b.leader = a.leader /\ b.pc = a.pc /\ b.arg = a.arg /\ b.pgrp = a.pgrp
  /\ a.signal \subseteq b.signal /\ b.signal \subseteq a.signal \union {g}

(* What sending a signal to some tasks does to each.                        *)
LEMMA SentFacts ==
  ASSUME NEW tk \in Table, NEW S, NEW g \in Sigs
  PROVE  /\ Sent(tk, S, g) \in Table
         /\ \A t \in Slots :
              /\ tk[t] = NULL => Sent(tk, S, g)[t] = NULL
              /\ tk[t] # NULL => MoreSignals(tk[t], Sent(tk, S, g)[t], g)
              /\ tk[t] # NULL /\ t \in S => g \in Sent(tk, S, g)[t].signal
              /\ t \notin S => Sent(tk, S, g)[t] = tk[t]
<1> DEFINE st == Sent(tk, S, g)
<1>1. ASSUME NEW a \in Tasks
      PROVE  MoreSignals(a, [a EXCEPT !.signal = @ \union {g}], g)
               /\ g \in [a EXCEPT !.signal = @ \union {g}].signal
  BY DEF Tasks, MoreSignals
<1>2. ASSUME NEW a \in Tasks PROVE MoreSignals(a, a, g)
  BY DEF MoreSignals
<1>3. ASSUME NEW t \in Slots
      PROVE  st[t] = IF t \in S /\ tk[t] # NULL
                     THEN [tk[t] EXCEPT !.signal = @ \union {g}] ELSE tk[t]
  BY DEF Sent
<1>4. ASSUME NEW t \in Slots
      PROVE  /\ tk[t] = NULL => st[t] = NULL
             /\ tk[t] # NULL => MoreSignals(tk[t], st[t], g)
             /\ tk[t] # NULL /\ t \in S => g \in st[t].signal
             /\ t \notin S => st[t] = tk[t]
  <2>1. CASE t \in S /\ tk[t] # NULL
    <3>1. PICK a \in Tasks : a = tk[t]
      BY <2>1, InUse
    <3>2. st[t] = [a EXCEPT !.signal = @ \union {g}]
      BY <1>3, <2>1, <3>1
    <3> QED BY <1>1, <2>1, <3>1, <3>2
  <2>2. CASE ~(t \in S /\ tk[t] # NULL)
    <3>1. st[t] = tk[t]
      BY <1>3, <2>2
    <3> QED BY <1>2, <2>2, <3>1, InUse
  <2> QED BY <2>1, <2>2
<1>5. st \in Table
  <2>1. \A t \in Slots : st[t] \in Tasks \union {NULL}
    BY <1>4 DEF MoreSignals
  <2>2. DOMAIN st = Slots /\ st = [t \in Slots |-> st[t]]
    BY DEF Sent
  <2> HIDE DEF st
  <2> QED BY <2>1, <2>2 DEF Table
<1> QED BY <1>4, <1>5

(* There are more numbers than tasks.                                       *)
LEMMA SomePidFree ==
  ASSUME TypeOK
  PROVE  \E p \in 1 .. MAXPID : \A s \in Live : task[s].pid # p
<1>1. IsFiniteSet(Slots) /\ Cardinality(Slots) = NR_TASKS - 1
  BY SizeFacts, FS_Interval DEF Slots
<1>2. IsFiniteSet(Live) /\ Cardinality(Live) =< NR_TASKS - 1
  BY <1>1, FS_Subset DEF Live
<1> DEFINE pids == {task[s].pid : s \in Live}
<1>3. IsFiniteSet(pids) /\ Cardinality(pids) =< Cardinality(Live)
  <2> DEFINE f == [s \in Live |-> task[s].pid]
  <2>1. f \in Surjection(Live, pids)
    BY DEF Surjection
  <2> HIDE DEF pids, f
  <2> QED BY <1>2, <2>1, FS_Surjection
<1>4. Cardinality(1 .. MAXPID) = MAXPID
  BY SizeFacts, FS_Interval
<1>5. ~(1 .. MAXPID \subseteq pids)
  <2>1. SUFFICES ASSUME 1 .. MAXPID \subseteq pids PROVE FALSE
    OBVIOUS
  <2>2. MAXPID =< Cardinality(pids)
    <3> HIDE DEF pids
    <3>1. PICK T : T = 1 .. MAXPID
      OBVIOUS
    <3>2. T \in SUBSET pids
      BY <2>1, <3>1
    <3>3. Cardinality(T) =< Cardinality(pids)
      BY <1>3, <3>2, FS_Subset
    <3> QED BY <1>4, <3>1, <3>3
  <2>3. Cardinality(pids) \in Nat /\ Cardinality(Live) \in Nat
    BY <1>2, <1>3, FS_CardinalityType
  <2> HIDE DEF pids
  <2> QED BY <1>2, <1>3, <2>2, <2>3, SizeFacts
<1> QED BY <1>5

(* find_empty_process() goes round all numbers.                             *)
LEMMA RoundTrip ==
  ASSUME NEW M \in Nat, M > 0, NEW l \in 1 .. M, NEW p \in 1 .. M
  PROVE  \E k \in 1 .. M : ((l + k - 1) % M) + 1 = p
<1>1. CASE p > l
  <2>1. p - l \in 1 .. M /\ l + (p - l) - 1 = p - 1 /\ p - 1 \in 0 .. (M - 1)
    BY <1>1
  <2>2. (p - 1) % M = p - 1
    BY <2>1
  <2>3. ((l + (p - l) - 1) % M) + 1 = p
    BY <2>1, <2>2
  <2> QED BY <2>1, <2>3
<1>2. CASE p =< l
  <2>1. p - l + M \in 1 .. M /\ l + (p - l + M) - 1 = p - 1 + M /\ p - 1 \in 0 .. (M - 1)
    BY <1>2
  <2>2. (p - 1 + M) % M = p - 1
    BY <2>1
  <2>3. ((l + (p - l + M) - 1) % M) + 1 = p
    BY <2>1, <2>2
  <2> QED BY <2>1, <2>3
<1> QED BY <1>1, <1>2

(* The number find_empty_process() returns is one that no task has.         *)
LEMMA NextPidFresh ==
  ASSUME TypeOK
  PROVE  NextPid \in 1 .. MAXPID /\ \A s \in Live : task[s].pid # NextPid
<1> DEFINE after(k) == ((last_pid + k - 1) % MAXPID) + 1
           free == {k \in 1 .. MAXPID : \A s \in Live : task[s].pid # after(k)}
<1>1. NextPid = after(Min(free))
  BY DEF NextPid
<1>2. last_pid \in 1 .. MAXPID /\ MAXPID \in Nat /\ MAXPID > 0
  BY SizeFacts DEF TypeOK
<1>3. free # {}
  <2>1. PICK p \in 1 .. MAXPID : \A s \in Live : task[s].pid # p
    BY SomePidFree
  <2>2. PICK k \in 1 .. MAXPID : after(k) = p
    BY <1>2, RoundTrip
  <2>3. k \in free
    BY <2>1, <2>2
  <2> QED BY <2>3
<1>4. Min(free) \in free
  <2>1. free \in SUBSET Nat
    BY <1>2
  <2> HIDE DEF free
  <2> QED BY <1>3, <2>1, MinFacts
<1>5. PICK k \in 1 .. MAXPID : k = Min(free) /\ \A s \in Live : task[s].pid # after(k)
  BY <1>4
<1>6. after(k) \in 1 .. MAXPID
  BY <1>2
<1> QED BY <1>1, <1>5, <1>6

(* Where sys_fork() puts the child: a slot that is free.                    *)
LEMMA FreeSlot ==
  ASSUME Live # Slots
  PROVE  Min(Slots \ Live) \in Slots \ Live
<1>1. Slots \ Live \in SUBSET Nat /\ Slots \ Live # {}
  BY SizeFacts DEF Slots, Live
<1> QED BY <1>1, MinFacts

(* The number of init's shell is one that find_empty_process() returned.    *)
LEMMA ShellType ==
  ASSUME TypeOK
  PROVE  /\ shell' = shell => shell' \in 0 .. MAXPID
         /\ \A tk, s : InitCollects(tk, s) => shell' \in 0 .. MAXPID
         /\ shell' = NextPid => shell' \in 0 .. MAXPID
<1>1. shell \in 0 .. MAXPID /\ 0 \in 0 .. MAXPID /\ 1 .. MAXPID \subseteq 0 .. MAXPID
  BY SizeFacts DEF TypeOK
<1>2. ASSUME NEW tk, NEW s, InitCollects(tk, s) PROVE shell' = 0 \/ shell' = shell
  BY <1>2 DEF InitCollects
<1> QED BY <1>1, <1>2, NextPidFresh

(* What the exit of s does to each other task before s itself changes.      *)
LEMMA AdoptedFacts ==
  ASSUME NEW tk \in Table, NEW s \in Slots
  PROVE  LET ad == Adopted(tk, s)
             kid(t) == tk[t].father = tk[s].pid
         IN  /\ ad \in Table
             /\ \A t \in Slots : tk[t] = NULL => ad[t] = NULL
             /\ \A t \in Slots : tk[t] # NULL =>
                  /\ ad[t] \in Tasks
                  /\ ad[t].pid = tk[t].pid /\ ad[t].session = tk[t].session
                  /\ ad[t].leader = tk[t].leader /\ ad[t].pc = tk[t].pc
                  /\ ad[t].arg = tk[t].arg
                  /\ ad[t].father = IF kid(t) THEN 1 ELSE tk[t].father
                  /\ tk[t].signal \subseteq ad[t].signal
                  /\ ad[t].signal \subseteq tk[t].signal \union {SIGCHLD}
             /\ \A t \in Slots :
                  tk[t] # NULL /\ kid(t) /\ tk[t].pc = "zombie" /\ tk[1] # NULL
                    => SIGCHLD \in ad[1].signal
<1> DEFINE kids == {c \in Slots : tk[c] # NULL /\ tk[c].father = tk[s].pid}
           given == [c \in Slots |-> IF c \in kids THEN [tk[c] EXCEPT !.father = 1] ELSE tk[c]]
           told == IF \E c \in kids : tk[c].pc = "zombie" THEN {1} ELSE {}
           ad == Adopted(tk, s)
<1>0. ad = Sent(given, told, SIGCHLD)
  BY DEF Adopted
<1>1. ASSUME NEW a \in Tasks
      PROVE  LET b == [a EXCEPT !.father = 1] IN
             /\ b \in Tasks /\ b.father = 1 /\ b.pid = a.pid /\ b.session = a.session
             /\ b.leader = a.leader /\ b.pc = a.pc /\ b.arg = a.arg /\ b.signal = a.signal
  <2>1. PICK one \in 0 .. MAXPID : one = 1
    BY SizeFacts
  <2> QED BY <2>1 DEF Tasks
<1>2. ASSUME NEW t \in Slots
      PROVE  /\ tk[t] = NULL => given[t] = NULL
             /\ tk[t] # NULL =>
                  /\ given[t] \in Tasks
                  /\ given[t].pid = tk[t].pid /\ given[t].session = tk[t].session
                  /\ given[t].leader = tk[t].leader /\ given[t].pc = tk[t].pc
                  /\ given[t].arg = tk[t].arg /\ given[t].signal = tk[t].signal
                  /\ given[t].father = IF tk[t].father = tk[s].pid THEN 1 ELSE tk[t].father
  <2>1. CASE t \in kids
    <3>1. PICK a \in Tasks : a = tk[t]
      BY <2>1, InUse
    <3>2. given[t] = [a EXCEPT !.father = 1]
      BY <2>1, <3>1
    <3> QED BY <1>1, <2>1, <3>1, <3>2
  <2>2. CASE t \notin kids
    <3>1. given[t] = tk[t]
      BY <2>2
    <3> QED BY <2>2, <3>1, InUse
  <2> QED BY <2>1, <2>2
<1>3. given \in Table
  <2>1. \A t \in Slots : given[t] \in Tasks \union {NULL}
    BY <1>2
  <2>2. given = [t \in Slots |-> given[t]]
    OBVIOUS
  <2> HIDE DEF given
  <2> QED BY <2>1, <2>2 DEF Table
<1> HIDE DEF given
<1>4. /\ ad \in Table
      /\ \A t \in Slots :
           /\ given[t] = NULL => ad[t] = NULL
           /\ given[t] # NULL => MoreSignals(given[t], ad[t], SIGCHLD)
           /\ given[t] # NULL /\ t \in told => SIGCHLD \in ad[t].signal
  <2> HIDE DEF ad, told
  <2> QED BY <1>0, <1>3, SentFacts, SizeFacts
<1>5. ASSUME NEW t \in Slots, tk[t] # NULL
      PROVE  /\ given[t] # NULL /\ given[t] \in Tasks
             /\ MoreSignals(given[t], ad[t], SIGCHLD)
  BY <1>2, <1>3, <1>4, <1>5, InUse
<1>6. ASSUME NEW t \in Slots, tk[t] # NULL
      PROVE  /\ ad[t] \in Tasks
             /\ ad[t].pid = tk[t].pid /\ ad[t].session = tk[t].session
             /\ ad[t].leader = tk[t].leader /\ ad[t].pc = tk[t].pc
             /\ ad[t].arg = tk[t].arg
             /\ ad[t].father = IF tk[t].father = tk[s].pid THEN 1 ELSE tk[t].father
             /\ tk[t].signal \subseteq ad[t].signal
             /\ ad[t].signal \subseteq tk[t].signal \union {SIGCHLD}
  <2> HIDE DEF ad
  <2> QED BY <1>2, <1>5, <1>6 DEF MoreSignals
<1>7. ASSUME NEW t \in Slots, tk[t] # NULL, tk[t].father = tk[s].pid,
             tk[t].pc = "zombie", tk[1] # NULL
      PROVE  SIGCHLD \in ad[1].signal
  <2>1. 1 \in told /\ 1 \in Slots
    BY <1>7, SizeFacts
  <2> HIDE DEF told, ad
  <2> QED BY <1>4, <1>5, <1>7, <2>1
<1>8. \A t \in Slots : tk[t] = NULL => ad[t] = NULL
  BY <1>2, <1>4
<1> HIDE DEF ad
<1> QED BY <1>4, <1>6, <1>7, <1>8 DEF ad
-----------------------------------------------------------------------------
(* What most steps do to the task in slot t: it goes on with the same       *)
(* number and the same father, or it was a zombie and is released.          *)
Continues(t) ==
  \/ task[t] = NULL /\ task'[t] = NULL
  \/ task[t] # NULL /\ task[t].pc = "zombie" /\ task'[t] = NULL
  \/ /\ task[t] # NULL /\ task'[t] # NULL
     /\ task'[t].pid = task[t].pid /\ task'[t].father = task[t].father
     /\ task'[t].leader => task'[t].session # 0
     /\ task[t].pc \in {"user", "wait"} => task'[t].pc \in {"user", "wait"}
     /\ t = 1 => task'[t].session = 0 /\ task'[t].signal \subseteq {SIGCHLD}

(* Such a step keeps the family as it is.                                   *)
LEMMA FamilyKept ==
  ASSUME FamilyInv, task' \in Table, last_pid' \in 1 .. MAXPID, parent' = parent,
         shell' \in 0 .. MAXPID,
         \A t \in Slots : Continues(t)
  PROVE  FamilyInv'
<1> USE DEF FamilyInv
<1>1. TypeOK'
  BY DEF TypeOK, Table
<1>2. ASSUME NEW t \in Live'
      PROVE  /\ t \in Live /\ t \in Slots
             /\ task'[t].pid = task[t].pid /\ task'[t].father = task[t].father
             /\ task'[t].leader => task'[t].session # 0
  BY DEF Live, Continues
<1>3. ASSUME NEW t \in Live, task[t].pc \in {"user", "wait"}
      PROVE  t \in Live' /\ task'[t].pc \in {"user", "wait"}
  BY <1>3 DEF Live, Continues
<1>4. InitRuns'
  <2>1. 1 \in Slots /\ 1 \in Live
    BY SizeFacts DEF InitRuns, Live
  <2>2. Continues(1) /\ 1 \in Live' /\ task'[1].pc \in {"user", "wait"}
    BY <1>3, <2>1 DEF InitRuns
  <2>3. task'[1].pid = task[1].pid /\ task'[1].father = task[1].father
    BY <1>2, <2>2
  <2>4. task'[1].session = 0 /\ task'[1].signal \subseteq {SIGCHLD} /\ task'[1] # NULL
    BY <2>1, <2>2 DEF Continues, Live
  <2> QED BY <2>2, <2>3, <2>4 DEF InitRuns
<1>5. PidsDistinct'
  BY <1>2 DEF PidsDistinct
<1>6. LeadersNamed'
  BY <1>2 DEF LeadersNamed
<1>7. Related'
  <2> SUFFICES ASSUME NEW s \in Live' \ {1}
               PROVE  /\ parent'[s] \in Live'
                      /\ task'[s].father = task'[parent'[s]].pid
                      /\ task'[parent'[s]].pc \in {"user", "wait"}
    BY DEF Related
  <2>1. s \in Live \ {1} /\ task'[s].father = task[s].father
    BY <1>2
  <2>2. PICK c \in Live : c = parent[s] /\ task[s].father = task[c].pid
                         /\ task[c].pc \in {"user", "wait"}
    BY <2>1 DEF Related
  <2>3. c \in Live' /\ task'[c].pc \in {"user", "wait"} /\ task'[c].pid = task[c].pid
    BY <1>2, <1>3, <2>2
  <2> QED BY <2>1, <2>2, <2>3
<1> QED BY <1>1, <1>4, <1>5, <1>6, <1>7

(* A step that changes one task, in place.                                  *)
LEMMA OneContinues ==
  ASSUME FamilyInv, NEW s \in Slots, NEW a \in Tasks, task[s] # NULL,
         task'[s] = a, \A t \in Slots : t # s => task'[t] = task[t],
         task' \in Table, last_pid' = last_pid, parent' = parent,
         shell' \in 0 .. MAXPID,
         a.pid = task[s].pid, a.father = task[s].father,
         a.leader => a.session # 0,
         task[s].pc \in {"user", "wait"} => a.pc \in {"user", "wait"},
         s = 1 => a.session = 0 /\ a.signal \subseteq {SIGCHLD}
  PROVE  FamilyInv'
<1>1. Continues(s)
  BY NullAssumption DEF Continues
<1>2. ASSUME NEW t \in Slots, t # s PROVE Continues(t)
  BY <1>2 DEF Continues, FamilyInv, LeadersNamed, InitRuns, Live
<1>3. last_pid' \in 1 .. MAXPID
  BY DEF FamilyInv, TypeOK
<1> QED BY <1>1, <1>2, <1>3, FamilyKept

(* sys_fork(), with or without a slot for the child.                        *)
LEMMA ForkFamily ==
  ASSUME FamilyInv, NEW s \in Slots, Fork(s)
  PROVE  /\ FamilyInv'
         /\ \A t \in Slots : task'[t] = task[t] \/ task'[t].pc = "user"
<1>0. TypeOK /\ InitRuns /\ PidsDistinct /\ LeadersNamed /\ Related /\ task \in Table
  BY DEF FamilyInv, TypeOK, Table
<1>1. PICK p \in 1 .. MAXPID : p = NextPid /\ \A c \in Live : task[c].pid # p
  BY <1>0, NextPidFresh
<1>2. last_pid' = p
  BY <1>1 DEF Fork
<1>3. CASE UNCHANGED <<task, parent, shell>>
  <2>1. \A t \in Slots : Continues(t)
    BY <1>0, <1>3 DEF Continues, LeadersNamed, InitRuns, Live
  <2>2. shell' \in 0 .. MAXPID
    BY <1>0, <1>3 DEF TypeOK
  <2> QED BY <1>0, <1>2, <1>3, <2>1, <2>2, FamilyKept
<1>4. CASE /\ Live # Slots
           /\ LET n == Min(Slots \ Live) IN
              /\ task' = [task EXCEPT ![n] =
                           [task[s] EXCEPT !.pid = NextPid, !.father = task[s].pid,
                                           !.signal = {}, !.leader = FALSE]]
              /\ parent' = [parent EXCEPT ![n] = s]
           /\ shell' = IF s = 1 THEN NextPid ELSE shell
  <2>1. PICK n \in Slots \ Live : n = Min(Slots \ Live)
    BY <1>4, FreeSlot
  <2>2. PICK a \in Tasks : a = task[s] /\ a.pc = "user" /\ s \in Live /\ s # n
    BY <1>0, <2>1, InUse DEF Fork, User, Live
  <2>3. PICK b : b = [a EXCEPT !.pid = p, !.father = a.pid, !.signal = {}, !.leader = FALSE]
    OBVIOUS
  <2>4. /\ b \in Tasks /\ b.pid = p /\ b.father = a.pid /\ b.leader = FALSE
        /\ b.pc = "user"
    <3>1. PICK q \in 0 .. MAXPID, g \in SUBSET Sigs, l \in BOOLEAN :
            q = a.pid /\ g = {} /\ l = FALSE
      <4>1. a.pid \in 0 .. MAXPID
        BY SizeFacts DEF Tasks
      <4> QED BY <4>1
    <3>2. b = [a EXCEPT !.pid = p, !.father = q, !.signal = g, !.leader = l]
      BY <2>3, <3>1
    <3>3. b \in Tasks /\ b.pid = p /\ b.father = q /\ b.leader = l /\ b.pc = a.pc
      BY <3>2 DEF Tasks
    <3> QED BY <2>2, <3>1, <3>3
  <2>5. /\ task'[n] = b
        /\ \A t \in Slots : t # n => task'[t] = task[t]
        /\ task' \in Table
        /\ parent' \in [Slots -> Slots] /\ parent'[n] = s
        /\ \A t \in Slots : t # n => parent'[t] = parent[t]
    <3>1. task' = [task EXCEPT ![n] = b]
      BY <1>1, <1>4, <2>1, <2>2, <2>3
    <3>2. parent' = [parent EXCEPT ![n] = s]
      BY <1>4, <2>1
    <3> QED BY <1>0, <2>4, <3>1, <3>2 DEF Table, TypeOK
  <2>6. Live' = Live \union {n} /\ n \notin Live
    BY <2>1, <2>4, <2>5, NullAssumption DEF Live
  <2>7. \A t \in Live : t \in Slots /\ t # n /\ task'[t] = task[t] /\ parent'[t] = parent[t]
    BY <2>1, <2>5 DEF Live
  <2>8. TypeOK'
    <3>1. shell' \in 0 .. MAXPID
      BY <1>0, <1>1, <1>4 DEF TypeOK
    <3> QED BY <1>2, <2>5, <3>1 DEF TypeOK, Table
  <2>9. InitRuns'
    BY <1>0, <2>7, SizeFacts DEF InitRuns, Live
  <2>10. PidsDistinct'
    BY <1>0, <1>1, <2>4, <2>5, <2>6, <2>7 DEF PidsDistinct
  <2>11. LeadersNamed'
    BY <1>0, <2>4, <2>5, <2>6, <2>7 DEF LeadersNamed
  <2>12. Related'
    <3> SUFFICES ASSUME NEW c \in Live' \ {1}
                 PROVE  /\ parent'[c] \in Live'
                        /\ task'[c].father = task'[parent'[c]].pid
                        /\ task'[parent'[c]].pc \in {"user", "wait"}
      BY DEF Related
    <3>1. CASE c = n
      BY <2>2, <2>4, <2>5, <2>6, <2>7, <3>1
    <3>2. CASE c # n
      <4>1. c \in Live \ {1} /\ task'[c] = task[c] /\ parent'[c] = parent[c]
        BY <2>6, <2>7, <3>2
      <4>2. parent[c] \in Live /\ task[c].father = task[parent[c]].pid
              /\ task[parent[c]].pc \in {"user", "wait"}
        BY <1>0, <4>1 DEF Related
      <4> QED BY <2>6, <2>7, <4>1, <4>2
    <3> QED BY <3>1, <3>2
  <2> QED BY <2>4, <2>5, <2>8, <2>9, <2>10, <2>11, <2>12 DEF FamilyInv
<1> QED BY <1>3, <1>4 DEF Fork

(* What the first part of do_exit() does to each task; tk is the table with *)
(* the signal that ends s taken out.                                        *)
LEMMA BeginExitEffect ==
  ASSUME FamilyInv, NEW s \in Slots, s # 1, task[s] # NULL,
         NEW tk \in Table, tk[s] \in Tasks, tk[s].pid = task[s].pid,
         tk[s].father = task[s].father, tk[s].leader = task[s].leader,
         tk[s].session = task[s].session,
         \A t \in Slots : t # s => tk[t] = task[t],
         BeginExit(tk, s)
  PROVE  /\ task' \in Table
         /\ \A t \in Slots : task[t] = NULL => task'[t] = NULL
         /\ \A t \in Slots : task[t] # NULL =>
              /\ task'[t] \in Tasks
              /\ task'[t].pid = task[t].pid
              /\ task'[t].father = IF task[t].father = task[s].pid THEN 1 ELSE task[t].father
              /\ task'[t].leader = task[t].leader /\ task'[t].session = task[t].session
         /\ task'[s].pc = "exit"
         /\ \A t \in Slots : task[t] # NULL /\ t # s =>
              /\ task'[t].pc = task[t].pc /\ task'[t].arg = task[t].arg
              /\ task[t].signal \subseteq task'[t].signal
              /\ task'[t].signal \subseteq task[t].signal \union {SIGCHLD}
         /\ \A t \in Slots :
              /\ task[t] # NULL /\ t # s
              /\ task[t].father = task[s].pid /\ task[t].pc = "zombie"
              => SIGCHLD \in task'[1].signal
<1> DEFINE ad == Adopted(tk, s)
<1>1. /\ ad \in Table
      /\ \A t \in Slots : tk[t] = NULL => ad[t] = NULL
      /\ \A t \in Slots : tk[t] # NULL =>
           /\ ad[t] \in Tasks
           /\ ad[t].pid = tk[t].pid /\ ad[t].session = tk[t].session
           /\ ad[t].leader = tk[t].leader /\ ad[t].pc = tk[t].pc
           /\ ad[t].arg = tk[t].arg
           /\ ad[t].father = IF tk[t].father = tk[s].pid THEN 1 ELSE tk[t].father
           /\ tk[t].signal \subseteq ad[t].signal
           /\ ad[t].signal \subseteq tk[t].signal \union {SIGCHLD}
      /\ \A t \in Slots :
           tk[t] # NULL /\ tk[t].father = tk[s].pid /\ tk[t].pc = "zombie" /\ tk[1] # NULL
             => SIGCHLD \in ad[1].signal
  BY AdoptedFacts
<1>2. task' = [ad EXCEPT ![s].pc = "exit"]
  BY DEF BeginExit
<1> HIDE DEF ad
<1>3. ad[s] \in Tasks
  BY <1>1, NullAssumption
<1>4. /\ task' \in Table
      /\ \A t \in Slots : t # s => task'[t] = ad[t]
      /\ task'[s] \in Tasks /\ task'[s].pid = ad[s].pid /\ task'[s].father = ad[s].father
      /\ task'[s].leader = ad[s].leader /\ task'[s].session = ad[s].session
      /\ task'[s].pc = "exit"
  BY <1>1, <1>2, <1>3 DEF Table, Tasks
<1>5. ASSUME NEW t \in Slots, task[t] # NULL
      PROVE  /\ task'[t] \in Tasks
             /\ task'[t].pid = task[t].pid
             /\ task'[t].father = IF task[t].father = task[s].pid THEN 1 ELSE task[t].father
             /\ task'[t].leader = task[t].leader /\ task'[t].session = task[t].session
             /\ t # s =>
                  /\ task'[t].pc = task[t].pc /\ task'[t].arg = task[t].arg
                  /\ task[t].signal \subseteq task'[t].signal
                  /\ task'[t].signal \subseteq task[t].signal \union {SIGCHLD}
  <2>1. tk[t] # NULL /\ tk[t].pid = task[t].pid /\ tk[t].father = task[t].father
          /\ tk[t].leader = task[t].leader /\ tk[t].session = task[t].session
          /\ (t # s => tk[t] = task[t])
    BY <1>5, NullAssumption
  <2>2. /\ ad[t] \in Tasks
        /\ ad[t].pid = tk[t].pid /\ ad[t].session = tk[t].session
        /\ ad[t].leader = tk[t].leader /\ ad[t].pc = tk[t].pc /\ ad[t].arg = tk[t].arg
        /\ ad[t].father = IF tk[t].father = tk[s].pid THEN 1 ELSE tk[t].father
        /\ tk[t].signal \subseteq ad[t].signal
        /\ ad[t].signal \subseteq tk[t].signal \union {SIGCHLD}
    BY <1>1, <2>1
  <2> QED BY <1>4, <2>1, <2>2
<1>6. \A t \in Slots : task[t] = NULL => task'[t] = NULL
  BY <1>1, <1>4
<1>7. ASSUME NEW t \in Slots, task[t] # NULL, t # s,
             task[t].father = task[s].pid, task[t].pc = "zombie"
      PROVE  SIGCHLD \in task'[1].signal
  <2>1. tk[t] = task[t] /\ 1 \in Slots /\ tk[1] = task[1] /\ task'[1] = ad[1]
    BY <1>4, <1>7, SizeFacts
  <2>2. task[1] # NULL
    BY DEF FamilyInv, InitRuns
  <2> QED BY <1>1, <1>7, <2>1, <2>2
<1> QED BY <1>4, <1>5, <1>6, <1>7

(* The first part of do_exit(): the children pass to init.                  *)
LEMMA BeginExitFamily ==
  ASSUME FamilyInv, NEW s \in Slots, s # 1, task[s] # NULL,
         NEW tk \in Table, tk[s] \in Tasks, tk[s].pid = task[s].pid,
         tk[s].father = task[s].father, tk[s].leader = task[s].leader,
         tk[s].session = task[s].session,
         \A t \in Slots : t # s => tk[t] = task[t],
         BeginExit(tk, s)
  PROVE  FamilyInv'
<1>0. TypeOK /\ InitRuns /\ PidsDistinct /\ LeadersNamed /\ Related /\ s \in Live
  BY DEF FamilyInv, Live
<1>4. task' \in Table
  BY BeginExitEffect
<1>5. ASSUME NEW t \in Slots, task[t] # NULL
      PROVE  /\ task'[t] \in Tasks
             /\ task'[t].pid = task[t].pid
             /\ task'[t].father = IF task[t].father = task[s].pid THEN 1 ELSE task[t].father
             /\ task'[t].leader = task[t].leader /\ task'[t].session = task[t].session
             /\ t # s => task'[t].pc = task[t].pc
             /\ t # s => task'[t].signal \subseteq task[t].signal \union {SIGCHLD}
  BY <1>5, BeginExitEffect
<1>6. \A t \in Slots : task[t] = NULL => task'[t] = NULL
  BY BeginExitEffect
<1>7. Live' = Live
  BY <1>5, <1>6, NullAssumption DEF Live
<1>8. /\ parent' \in [Slots -> Slots] /\ last_pid' = last_pid /\ shell' = shell
      /\ \A t \in Slots : parent'[t] = IF parent[t] = s THEN 1 ELSE parent[t]
  BY <1>0, SizeFacts DEF BeginExit, TypeOK
<1>9. TypeOK'
  BY <1>0, <1>4, <1>8, ShellType DEF TypeOK, Table
<1>10. 1 \in Slots /\ task[1] # NULL /\ 1 \in Live
  BY <1>0, SizeFacts DEF InitRuns, Live
<1>11. task[s].pid \in 1 .. MAXPID /\ 0 # task[s].pid
  BY <1>0, SizeFacts, NullAssumption DEF TypeOK, Tasks
<1>12. InitRuns'
  <2>1. task'[1].father = 0 /\ task'[1].pid = 1 /\ task'[1].session = 0
          /\ task'[1].pc \in {"user", "wait"} /\ task'[1].signal \subseteq {SIGCHLD}
    BY <1>0, <1>5, <1>10, <1>11 DEF InitRuns
  <2>2. task'[1] # NULL
    BY <1>5, <1>10, NullAssumption
  <2> QED BY <2>1, <2>2 DEF InitRuns
<1>13. PidsDistinct'
  BY <1>0, <1>5, <1>7 DEF PidsDistinct, Live
<1>14. LeadersNamed'
  BY <1>0, <1>5, <1>7 DEF LeadersNamed, Live
<1>15. Related'
  <2> SUFFICES ASSUME NEW c \in Live \ {1}
               PROVE  /\ parent'[c] \in Live
                      /\ task'[c].father = task'[parent'[c]].pid
                      /\ task'[parent'[c]].pc \in {"user", "wait"}
    BY <1>7 DEF Related
  <2>0. c \in Slots /\ task[c] # NULL
    BY DEF Live
  <2>1. PICK q \in Live : q = parent[c] /\ task[c].father = task[q].pid
                         /\ task[q].pc \in {"user", "wait"}
    BY <1>0 DEF Related
  <2>2. (task[c].father = task[s].pid) <=> q = s
    BY <1>0, <2>1 DEF PidsDistinct
  <2>3. CASE q = s
    <3>1. parent'[c] = 1 /\ task'[c].father = 1
      BY <1>5, <1>8, <2>0, <2>1, <2>2, <2>3
    <3>2. task'[1].pid = 1 /\ task'[1].pc \in {"user", "wait"}
      BY <1>12 DEF InitRuns
    <3> QED BY <1>10, <3>1, <3>2
  <2>4. CASE q # s
    <3>1. parent'[c] = q /\ task'[c].father = task[q].pid
      BY <1>5, <1>8, <2>0, <2>1, <2>2, <2>4
    <3>2. q \in Slots /\ task[q] # NULL
      BY DEF Live
    <3>3. task'[q].pid = task[q].pid /\ task'[q].pc = task[q].pc
      BY <1>5, <2>4, <3>2
    <3> QED BY <2>1, <3>1, <3>3
  <2> QED BY <2>3, <2>4
<1> QED BY <1>9, <1>12, <1>13, <1>14, <1>15 DEF FamilyInv
-----------------------------------------------------------------------------
(* The zombies that a wait for any child, or for one child, looks at.       *)
LEMMA ZombieFacts ==
  ASSUME NEW tk, NEW s, NEW arg \in Int, arg = -1 \/ arg > 0, NEW c
  PROVE  c \in ZombiesOf(tk, s, arg) <=>
           /\ c \in Slots /\ c # s /\ tk[c] # NULL
           /\ tk[c].father = tk[s].pid
           /\ arg = -1 \/ tk[c].pid = arg
           /\ tk[c].pc = "zombie"
<1>1. CASE arg = -1
  BY <1>1 DEF ZombiesOf, Children
<1>2. CASE arg > 0
  BY <1>2 DEF ZombiesOf, Children
<1> QED BY <1>1, <1>2

(* w sleeps in the same waitpid() as before, with no signal less.           *)
StillWaits(w) ==
  /\ task[w] # NULL /\ task[w].pc = "wait"
  /\ task[w].arg = task'[w].arg /\ task[w].pid = task'[w].pid
  /\ task[w].signal \subseteq task'[w].signal

(* c was a zombie of the same father before.                                *)
StillZombie(c) ==
  /\ task[c] # NULL /\ task[c].pc = "zombie"
  /\ task[c].father = task'[c].father /\ task[c].pid = task'[c].pid

(* A step after which every sleeper with a zombie had it before, or has     *)
(* been told.                                                               *)
LEMMA WaiterKept ==
  ASSUME WaiterIsTold, TypeOK',
         \A w, c \in Slots :
           /\ task'[w] # NULL /\ task'[w].pc = "wait"
           /\ task'[c] # NULL /\ task'[c].pc = "zombie"
           /\ task'[c].father = task'[w].pid
           /\ w # c
           => \/ SIGCHLD \in task'[w].signal
              \/ ZombiesOf(task', w, task'[w].arg) = {}
              \/ StillWaits(w) /\ StillZombie(c)
  PROVE  WaiterIsTold'
<1> SUFFICES ASSUME NEW w \in Slots, task'[w] # NULL, task'[w].pc = "wait",
                    task'[w].arg = -1 \/ task'[w].arg > 0,
                    ZombiesOf(task', w, task'[w].arg) # {}
             PROVE  SIGCHLD \in task'[w].signal
  BY DEF WaiterIsTold, Live
<1>1. PICK c : c \in ZombiesOf(task', w, task'[w].arg)
  OBVIOUS
<1>2. task'[w].arg \in Int
  <2>1. task'[w] \in Tasks
    BY DEF TypeOK
  <2> QED BY <2>1, SizeFacts DEF Tasks
<1>3. PICK arg \in Int : arg = task'[w].arg
  BY <1>2
<1>4. PICK tk : tk = task'
  OBVIOUS
<1>5. /\ c \in Slots /\ c # w /\ task'[c] # NULL
      /\ task'[c].father = task'[w].pid
      /\ arg = -1 \/ task'[c].pid = arg
      /\ task'[c].pc = "zombie"
  <2>1. c \in ZombiesOf(tk, w, arg)
    BY <1>1, <1>3, <1>4
  <2> QED BY <1>3, <1>4, <2>1, ZombieFacts
<1>6. CASE StillWaits(w) /\ StillZombie(c)
  <2>1. c \in ZombiesOf(task, w, arg)
    BY <1>3, <1>5, <1>6, ZombieFacts DEF StillWaits, StillZombie
  <2>2. arg = task[w].arg /\ w \in Live /\ task[w].pc = "wait"
    BY <1>3, <1>6 DEF StillWaits, Live
  <2>3. SIGCHLD \in task[w].signal
    BY <1>3, <2>1, <2>2 DEF WaiterIsTold
  <2> QED BY <1>6, <2>3 DEF StillWaits
<1> QED BY <1>5, <1>6

(* What does not concern anybody's wait: the task is gone, or neither waits *)
(* nor is a zombie, or has only been sent something.                        *)
Unnoticed(t) ==
  \/ task'[t] = NULL
  \/ task'[t].pc \in {"user", "exit"}
  \/ /\ task[t] # NULL
     /\ task'[t].pid = task[t].pid /\ task'[t].father = task[t].father
     /\ task'[t].pc = task[t].pc /\ task'[t].arg = task[t].arg
     /\ task[t].signal \subseteq task'[t].signal

(* A step that concerns no wait.                                            *)
LEMMA WaiterUnconcerned ==
  ASSUME WaiterIsTold, TypeOK', \A t \in Slots : Unnoticed(t)
  PROVE  WaiterIsTold'
<1>1. ASSUME NEW w \in Slots, task'[w] # NULL, task'[w].pc = "wait" PROVE StillWaits(w)
  BY <1>1 DEF Unnoticed, StillWaits
<1>2. ASSUME NEW c \in Slots, task'[c] # NULL, task'[c].pc = "zombie" PROVE StillZombie(c)
  BY <1>2 DEF Unnoticed, StillZombie
<1> QED BY <1>1, <1>2, WaiterKept

(* What sys_waitpid() does from "repeat" on.                                *)
LEMMA WaitTurnEffect ==
  ASSUME NEW tk \in Table, NEW s \in Slots, tk[s] \in Tasks,
         NEW arg \in -MAXPID .. MAXPID, WaitTurn(tk, s, arg)
  PROVE  /\ task' \in Table
         /\ \/ /\ task'[s] = At(tk[s], "user", 0)
               /\ \A t \in Slots : t # s =>
                    task'[t] = tk[t] \/ (tk[t] # NULL /\ tk[t].pc = "zombie" /\ task'[t] = NULL)
            \/ /\ ZombiesOf(tk, s, arg) = {}
               /\ task'[s] = At(tk[s], "wait", arg)
               /\ \A t \in Slots : t # s => task'[t] = tk[t]
<1> DEFINE zombies == ZombiesOf(tk, s, arg)
           back == [tk EXCEPT ![s] = At(@, "user", 0)]
           sleep == [tk EXCEPT ![s] = At(@, "wait", arg)]
<1>0. task' = CASE zombies # {} -> [back EXCEPT ![Max(zombies)] = NULL]
                [] zombies = {} /\ Children(tk, s, arg) # {} -> sleep
                [] OTHER -> back
  BY DEF WaitTurn
<1>1. At(tk[s], "user", 0) \in Tasks /\ At(tk[s], "wait", arg) \in Tasks
  BY AtFacts, ReturnFacts DEF Moved
<1>2. back \in Table /\ back[s] = At(tk[s], "user", 0) /\ \A t \in Slots : t # s => back[t] = tk[t]
  BY <1>1 DEF Table
<1>3. sleep \in Table /\ sleep[s] = At(tk[s], "wait", arg) /\ \A t \in Slots : t # s => sleep[t] = tk[t]
  BY <1>1 DEF Table
<1>4. zombies \in SUBSET Slots /\ \A z \in zombies : z # s /\ tk[z] # NULL /\ tk[z].pc = "zombie"
  BY DEF ZombiesOf, Children
<1> HIDE DEF back, sleep, zombies
<1>5. CASE zombies # {}
  <2>1. zombies \in SUBSET (0 .. NR_TASKS) /\ NR_TASKS \in Nat
    BY <1>4, SizeFacts DEF Slots
  <2>2. PICK z \in zombies : z = Max(zombies)
    BY <1>5, <2>1, MaxFacts
  <2>3. task' = [back EXCEPT ![z] = NULL]
    BY <1>0, <1>5, <2>2
  <2> QED BY <1>2, <1>4, <2>3 DEF Table
<1>6. CASE zombies = {} /\ Children(tk, s, arg) # {}
  <2>1. task' = sleep
    BY <1>0, <1>6
  <2> QED BY <1>3, <1>6, <2>1 DEF zombies
<1>7. CASE zombies = {} /\ Children(tk, s, arg) = {}
  <2>1. task' = back
    BY <1>0, <1>7
  <2> QED BY <1>2, <2>1
<1> QED BY <1>5, <1>6, <1>7

(* The inductive invariant with what a sleeper knows.                       *)
ProcessInv == FamilyInv /\ WaiterIsTold

(* sys_waitpid() from "repeat" on keeps the invariant; tk is the table with *)
(* SIGCHLD taken back.                                                      *)
LEMMA WaitTurnStep ==
  ASSUME ProcessInv, NEW s \in Slots, task[s] # NULL, task[s].pc \in {"user", "wait"},
         NEW tk \in Table, tk[s] \in Tasks, tk[s].pid = task[s].pid,
         tk[s].father = task[s].father, tk[s].leader = task[s].leader,
         tk[s].session = task[s].session, tk[s].signal \subseteq task[s].signal,
         \A t \in Slots : t # s => tk[t] = task[t],
         NEW arg \in -MAXPID .. MAXPID, WaitTurn(tk, s, arg),
         last_pid' = last_pid, parent' = parent,
         shell' \in 0 .. MAXPID
  PROVE  ProcessInv'
<1>0. FamilyInv /\ WaiterIsTold
  BY DEF ProcessInv
<1>1. /\ task' \in Table
      /\ \/ /\ task'[s] = At(tk[s], "user", 0)
            /\ \A t \in Slots : t # s =>
                 task'[t] = tk[t] \/ (tk[t] # NULL /\ tk[t].pc = "zombie" /\ task'[t] = NULL)
         \/ /\ ZombiesOf(tk, s, arg) = {}
            /\ task'[s] = At(tk[s], "wait", arg)
            /\ \A t \in Slots : t # s => task'[t] = tk[t]
  BY WaitTurnEffect
<1>2. PICK a \in Tasks : /\ a = task'[s]
                         /\ a.pid = task[s].pid /\ a.father = task[s].father
                         /\ a.leader = task[s].leader /\ a.session = task[s].session
                         /\ a.signal \subseteq task[s].signal /\ a.pgrp = tk[s].pgrp
                         /\ a.pc \in {"user", "wait"}
                         /\ a.pc = "wait" => /\ a.arg = arg
                                             /\ ZombiesOf(tk, s, arg) = {}
                                             /\ \A t \in Slots : t # s => task'[t] = tk[t]
  <2>2. CASE task'[s] = At(tk[s], "user", 0)
    <3>1. Moved(tk[s], task'[s], "user")
      BY <2>2, ReturnFacts
    <3> QED BY <3>1 DEF Moved
  <2>3. CASE /\ ZombiesOf(tk, s, arg) = {}
             /\ task'[s] = At(tk[s], "wait", arg)
             /\ \A t \in Slots : t # s => task'[t] = tk[t]
    <3>1. Moved(tk[s], task'[s], "wait") /\ task'[s].arg = arg
      BY <2>3, AtFacts
    <3> QED BY <2>3, <3>1 DEF Moved
  <2> QED BY <1>1, <2>2, <2>3
<1>3. ASSUME NEW t \in Slots, t # s
      PROVE  task'[t] = task[t] \/ (task[t] # NULL /\ task[t].pc = "zombie" /\ task'[t] = NULL)
  BY <1>1, <1>3
<1>4. FamilyInv'
  <2>1. Continues(s)
    BY <1>0, <1>2, NullAssumption DEF Continues, FamilyInv, LeadersNamed, InitRuns, Live
  <2>2. ASSUME NEW t \in Slots, t # s PROVE Continues(t)
    BY <1>0, <1>3, <2>2 DEF Continues, FamilyInv, LeadersNamed, InitRuns, Live
  <2>3. last_pid' \in 1 .. MAXPID
    BY <1>0 DEF FamilyInv, TypeOK
  <2> QED BY <1>0, <1>1, <2>1, <2>2, <2>3, FamilyKept
<1>5. TypeOK'
  BY <1>4 DEF FamilyInv
<1>6. WaiterIsTold'
  <2>1. ASSUME NEW w \in Slots, w # s, task'[w] # NULL, task'[w].pc = "wait" PROVE StillWaits(w)
    BY <1>3, <2>1 DEF StillWaits
  <2>2. ASSUME NEW c \in Slots, task'[c] # NULL, task'[c].pc = "zombie" PROVE StillZombie(c)
    <3>1. c # s
      BY <1>2, <2>2
    <3> QED BY <1>3, <2>2, <3>1 DEF StillZombie
  <2>3. ASSUME task'[s].pc = "wait" PROVE ZombiesOf(task', s, task'[s].arg) = {}
    <3>1. PICK k : k = task'
      OBVIOUS
    <3>2. /\ k[s].pid = tk[s].pid /\ k[s].pgrp = tk[s].pgrp
          /\ \A t \in Slots : t # s => k[t] = tk[t]
      BY <1>2, <2>3, <3>1
    <3>3. ZombiesOf(k, s, arg) = ZombiesOf(tk, s, arg)
      BY <3>2 DEF ZombiesOf, Children
    <3> QED BY <1>2, <2>3, <3>1, <3>3
  <2> QED BY <1>0, <1>5, <2>1, <2>2, <2>3, WaiterKept
<1> QED BY <1>4, <1>6 DEF ProcessInv

(* sys_waitpid()                                                            *)
LEMMA SysWaitpidStep ==
  ASSUME ProcessInv, NEW s \in Slots, NEW arg \in WaitArgs(s), SysWaitpid(s, arg)
  PROVE  ProcessInv'
<1>1. arg \in -MAXPID .. MAXPID
  BY SizeFacts, ProcessAssumption DEF WaitArgs
<1>2. task \in Table /\ task[s] # NULL /\ task[s] \in Tasks /\ task[s].pc = "user"
  BY InUse DEF ProcessInv, FamilyInv, TypeOK, Table, SysWaitpid, User, Live
<1>3. shell' \in 0 .. MAXPID
  BY ShellType DEF ProcessInv, FamilyInv, SysWaitpid
<1> QED BY <1>1, <1>2, <1>3, WaitTurnStep DEF SysWaitpid

(* A task that is given other signals to wait for or to act on, or fewer.   *)
LEMMA SignalFields ==
  ASSUME NEW a \in Tasks, NEW g \in SUBSET Sigs, NEW b, b = [a EXCEPT !.signal = g]
  PROVE  /\ b \in Tasks /\ b.pid = a.pid /\ b.father = a.father /\ b.session = a.session
         /\ b.leader = a.leader /\ b.pc = a.pc /\ b.arg = a.arg /\ b.pgrp = a.pgrp
         /\ b.signal = g
BY DEF Tasks

(* A step that changes the task s, in user mode or on its way back there,   *)
(* and no other.                                                            *)
LEMMA OneStep ==
  ASSUME ProcessInv, NEW s \in Slots, NEW a \in Tasks, task[s] # NULL,
         task'[s] = a, \A t \in Slots : t # s => task'[t] = task[t],
         task' \in Table, last_pid' = last_pid, parent' = parent,
         shell' \in 0 .. MAXPID,
         a.pid = task[s].pid, a.father = task[s].father,
         a.leader => a.session # 0, a.pc = "user",
         s = 1 => a.session = 0 /\ a.signal \subseteq {SIGCHLD}
  PROVE  ProcessInv'
<1>1. FamilyInv'
  BY OneContinues DEF ProcessInv
<1>2. \A t \in Slots : Unnoticed(t)
  BY DEF Unnoticed
<1>3. WaiterIsTold'
  BY <1>1, <1>2, WaiterUnconcerned DEF ProcessInv, FamilyInv
<1> QED BY <1>1, <1>3 DEF ProcessInv

(* The way out of sys_waitpid(), or round to "repeat".                      *)
LEMMA WaitRepeatStep ==
  ASSUME ProcessInv, NEW s \in Slots, WaitRepeat(s)
  PROVE  ProcessInv'
<1> DEFINE rest == task[s].signal \ {SIGCHLD}
           tk == [task EXCEPT ![s].signal = rest]
<1>1. PICK a \in Tasks : a = task[s] /\ a.pc = "wait"
  BY InUse DEF ProcessInv, FamilyInv, TypeOK, Table, WaitRepeat, Live
<1>2. task \in Table /\ task[s] # NULL
  BY <1>1, NullAssumption DEF ProcessInv, FamilyInv, TypeOK, Table
<1>3. PICK b : b = [a EXCEPT !.signal = rest]
  OBVIOUS
<1>4. /\ b \in Tasks /\ b.pid = a.pid /\ b.father = a.father /\ b.session = a.session
      /\ b.leader = a.leader /\ b.pc = a.pc /\ b.arg = a.arg /\ b.signal = rest
  <2>1. rest \in SUBSET Sigs
    BY <1>1 DEF Tasks
  <2> HIDE DEF rest
  <2> QED BY <1>3, <2>1, SignalFields
<1>5. tk = [task EXCEPT ![s] = b]
  BY <1>1, <1>3
<1>6. tk \in Table /\ tk[s] = b /\ \A t \in Slots : t # s => tk[t] = task[t]
  BY <1>2, <1>4, <1>5 DEF Table
<1>7. a.arg \in -MAXPID .. MAXPID
  BY DEF Tasks
<1>8. last_pid' = last_pid /\ parent' = parent /\ shell' \in 0 .. MAXPID
  BY ShellType DEF ProcessInv, FamilyInv, WaitRepeat
<1>9. CASE rest = {}
  <2>1. WaitTurn(tk, s, task[s].arg)
    BY <1>9 DEF WaitRepeat
  <2> HIDE DEF tk
  <2> QED BY <1>1, <1>2, <1>4, <1>6, <1>7, <1>8, <2>1, WaitTurnStep
<1>10. CASE rest # {}
  <2>1. task' = [tk EXCEPT ![s] = At(@, "user", 0)]
    BY <1>10 DEF WaitRepeat
  <2>2. PICK c : c = At(b, "user", 0)
    OBVIOUS
  <2>3. c \in Tasks /\ c.pid = a.pid /\ c.father = a.father /\ c.session = a.session
          /\ c.leader = a.leader /\ c.signal = rest /\ c.pc = "user"
    <3>1. Moved(b, c, "user")
      BY <1>4, <2>2, ReturnFacts
    <3> QED BY <1>4, <3>1 DEF Moved
  <2>4. task'[s] = c /\ (\A t \in Slots : t # s => task'[t] = task[t]) /\ task' \in Table
    <3> HIDE DEF tk
    <3> QED BY <1>6, <2>1, <2>2, <2>3 DEF Table
  <2>5. c.leader => c.session # 0
    BY <1>1, <1>2, <2>3 DEF ProcessInv, FamilyInv, LeadersNamed, Live
  <2>6. s = 1 => c.session = 0 /\ c.signal \subseteq {SIGCHLD}
    BY <1>1, <2>3 DEF ProcessInv, FamilyInv, InitRuns
  <2> QED BY <1>1, <1>2, <1>8, <2>3, <2>4, <2>5, <2>6, OneStep
<1> QED BY <1>9, <1>10
-----------------------------------------------------------------------------
(* The first part of do_exit(): init is told of the zombies it is given.    *)
LEMMA BeginExitStep ==
  ASSUME ProcessInv, NEW s \in Slots, s # 1, task[s] # NULL,
         NEW tk \in Table, tk[s] \in Tasks, tk[s].pid = task[s].pid,
         tk[s].father = task[s].father, tk[s].leader = task[s].leader,
         tk[s].session = task[s].session,
         \A t \in Slots : t # s => tk[t] = task[t],
         BeginExit(tk, s)
  PROVE  ProcessInv'
<1>0. FamilyInv /\ WaiterIsTold
  BY DEF ProcessInv
<1>1. FamilyInv'
  BY <1>0, BeginExitFamily
<1>2. TypeOK' /\ PidsDistinct' /\ InitRuns'
  BY <1>1 DEF FamilyInv
<1>3. ASSUME NEW w \in Slots, task'[w] # NULL, task'[w].pc = "wait" PROVE StillWaits(w)
  <2>1. w # s /\ task[w] # NULL
    BY <1>0, <1>3, BeginExitEffect
  <2>2. task'[w].pid = task[w].pid /\ task'[w].pc = task[w].pc /\ task'[w].arg = task[w].arg
          /\ task[w].signal \subseteq task'[w].signal
    BY <1>0, <2>1, BeginExitEffect
  <2> QED BY <1>3, <2>1, <2>2 DEF StillWaits
<1>4. ASSUME NEW w \in Slots, NEW c \in Slots, task'[w] # NULL,
             task'[c] # NULL, task'[c].pc = "zombie", task'[c].father = task'[w].pid
      PROVE  StillZombie(c) \/ SIGCHLD \in task'[w].signal
  <2>1. c # s /\ task[c] # NULL
    BY <1>0, <1>4, BeginExitEffect
  <2>2. /\ task'[c].pid = task[c].pid /\ task'[c].pc = task[c].pc
        /\ task'[c].father = IF task[c].father = task[s].pid THEN 1 ELSE task[c].father
    BY <1>0, <2>1, BeginExitEffect
  <2>3. CASE task[c].father = task[s].pid
    <3>1. SIGCHLD \in task'[1].signal
      BY <1>0, <1>4, <2>1, <2>2, <2>3, BeginExitEffect
    <3>2. task'[w].pid = 1
      BY <1>4, <2>2, <2>3
    <3>3. 1 \in Slots /\ task'[1] # NULL /\ task'[1].pid = 1
      BY <1>2, SizeFacts DEF InitRuns
    <3>4. w = 1
      BY <1>2, <1>4, <3>2, <3>3 DEF PidsDistinct, Live
    <3> QED BY <3>1, <3>4
  <2>4. CASE task[c].father # task[s].pid
    BY <1>4, <2>1, <2>2, <2>4 DEF StillZombie
  <2> QED BY <2>3, <2>4
<1>5. WaiterIsTold'
  BY <1>0, <1>2, <1>3, <1>4, WaiterKept
<1> QED BY <1>1, <1>5 DEF ProcessInv

(* do_exit() called by a system call.                                       *)
LEMMA SysExitStep ==
  ASSUME ProcessInv, NEW s \in Slots, SysExit(s)
  PROVE  ProcessInv'
<1>1. task \in Table /\ task[s] # NULL /\ task[s] \in Tasks
  BY InUse DEF ProcessInv, FamilyInv, TypeOK, Table, SysExit, User, Live
<1> QED BY <1>1, BeginExitStep DEF SysExit

(* The second part of do_exit(): the father is told, and a session that is  *)
(* hung up is never that of init.                                           *)
LEMMA ExitStep ==
  ASSUME ProcessInv, NEW s \in Slots, Exit(s)
  PROVE  ProcessInv'
<1>0. FamilyInv /\ WaiterIsTold /\ TypeOK /\ InitRuns /\ LeadersNamed
  BY DEF ProcessInv, FamilyInv
<1> DEFINE session == {c \in Live : task[s].leader /\ task[c].session = task[s].session}
           hung == Sent(task, session, SIGHUP)
           dead == [hung EXCEPT ![s].pc = "zombie"]
           told == Father(task, s)
<1>1. task \in Table /\ task[s] # NULL /\ task[s] \in Tasks /\ task[s].pc = "exit" /\ s \in Live
  BY <1>0, InUse DEF TypeOK, Table, Exit, Live
<1>2. task' = Sent(dead, told, SIGCHLD) /\ last_pid' = last_pid /\ parent' = parent /\ shell' \in 0 .. MAXPID
  BY <1>0, ShellType DEF Exit
<1>3. 1 \notin session
  BY <1>0, <1>1 DEF LeadersNamed, InitRuns
<1>4. /\ hung \in Table
      /\ \A t \in Slots :
           /\ task[t] = NULL => hung[t] = NULL
           /\ task[t] # NULL => MoreSignals(task[t], hung[t], SIGHUP)
           /\ t \notin session => hung[t] = task[t]
  <2> HIDE DEF session
  <2> QED BY <1>1, SentFacts, SizeFacts
<1> HIDE DEF hung, session
<1>5. hung[s] \in Tasks
  BY <1>1, <1>4 DEF MoreSignals
<1>6. /\ dead \in Table
      /\ \A t \in Slots : t # s => dead[t] = hung[t]
      /\ dead[s] \in Tasks /\ dead[s].pc = "zombie"
      /\ dead[s].pid = hung[s].pid /\ dead[s].father = hung[s].father
      /\ dead[s].leader = hung[s].leader /\ dead[s].session = hung[s].session
  BY <1>4, <1>5 DEF Table, Tasks
<1> HIDE DEF dead
<1>7. /\ task' \in Table
      /\ \A t \in Slots :
           /\ dead[t] = NULL => task'[t] = NULL
           /\ dead[t] # NULL => MoreSignals(dead[t], task'[t], SIGCHLD)
           /\ dead[t] # NULL /\ t \in told => SIGCHLD \in task'[t].signal
  <2> HIDE DEF told
  <2> QED BY <1>2, <1>6, SentFacts, SizeFacts
<1>8. ASSUME NEW t \in Slots, task[t] # NULL
      PROVE  /\ task'[t] \in Tasks /\ dead[t] # NULL
             /\ task'[t].pid = task[t].pid /\ task'[t].father = task[t].father
             /\ task'[t].leader = task[t].leader /\ task'[t].session = task[t].session
             /\ t # s => /\ task'[t].pc = task[t].pc /\ task'[t].arg = task[t].arg
                         /\ task[t].signal \subseteq task'[t].signal
             /\ t = s => task'[t].pc = "zombie"
             /\ t = 1 => task'[t].signal \subseteq task[t].signal \union {SIGCHLD}
  <2>1. MoreSignals(task[t], hung[t], SIGHUP)
    BY <1>4, <1>8
  <2>2. dead[t] \in Tasks /\ dead[t] # NULL
    BY <1>6, <2>1, NullAssumption DEF MoreSignals
  <2>3. MoreSignals(dead[t], task'[t], SIGCHLD)
    BY <1>7, <2>2
  <2>4. CASE t # s
    <3>1. dead[t] = hung[t] /\ (t = 1 => hung[t] = task[t])
      BY <1>3, <1>4, <1>6, <2>4
    <3> QED BY <2>1, <2>2, <2>3, <2>4, <3>1 DEF MoreSignals
  <2>5. CASE t = s
    <3>1. s # 1
      BY <1>0, <1>1 DEF InitRuns
    <3> QED BY <1>6, <2>1, <2>2, <2>3, <2>5, <3>1 DEF MoreSignals
  <2> QED BY <2>4, <2>5
<1>9. ASSUME NEW t \in Slots, task[t] = NULL PROVE task'[t] = NULL
  BY <1>1, <1>4, <1>6, <1>7, <1>9
<1>10. FamilyInv'
  <2>1. ASSUME NEW t \in Slots PROVE Continues(t)
    <3>1. CASE task[t] = NULL
      BY <1>9, <3>1 DEF Continues
    <3>2. CASE task[t] # NULL
      <4>1. t = 1 => task[t].session = 0 /\ task[t].signal \subseteq {SIGCHLD}
        BY <1>0 DEF InitRuns
      <4>2. task[t].leader => task[t].session # 0
        BY <1>0, <3>2 DEF LeadersNamed, Live
      <4>3. task[t].pc \in {"user", "wait"} => t # s
        BY <1>1
      <4> QED BY <1>8, <3>2, <4>1, <4>2, <4>3, NullAssumption DEF Continues
    <3> QED BY <3>1, <3>2
  <2>2. last_pid' \in 1 .. MAXPID
    BY <1>0, <1>2 DEF TypeOK
  <2> QED BY <1>0, <1>2, <1>7, <2>1, <2>2, FamilyKept
<1>11. TypeOK'
  BY <1>10 DEF FamilyInv
<1>12. ASSUME NEW w \in Slots, task'[w] # NULL, task'[w].pc = "wait" PROVE StillWaits(w)
  <2>1. task[w] # NULL /\ w # s
    BY <1>8, <1>9, <1>12
  <2> QED BY <1>8, <1>12, <2>1 DEF StillWaits
<1>13. ASSUME NEW w \in Slots, NEW c \in Slots, task'[w] # NULL,
              task'[c] # NULL, task'[c].pc = "zombie", task'[c].father = task'[w].pid
       PROVE  StillZombie(c) \/ SIGCHLD \in task'[w].signal
  <2>1. task[c] # NULL /\ task[w] # NULL
    BY <1>9, <1>13
  <2>2. CASE c # s
    BY <1>8, <1>13, <2>1, <2>2 DEF StillZombie
  <2>3. CASE c = s
    <3>1. task[s].father = task[w].pid
      BY <1>8, <1>13, <2>1, <2>3
    <3>2. w \in told
      BY <2>1, <3>1 DEF Father
    <3> QED BY <1>7, <1>8, <2>1, <3>2
  <2> QED BY <2>2, <2>3
<1>14. WaiterIsTold'
  BY <1>0, <1>11, <1>12, <1>13, WaiterKept
<1> QED BY <1>10, <1>14 DEF ProcessInv

(* b is the task a as far as the family is concerned.                       *)
SameKin(a, b) ==
  /\ b \in Tasks
  /\ b.pid = a.pid /\ b.father = a.father /\ b.session = a.session
  /\ b.leader = a.leader /\ b.pc = a.pc /\ b.arg = a.arg /\ b.signal = a.signal

(* The fields that sys_ssetmask(), sys_signal(), sys_sigaction() and        *)
(* sys_setpgid() set.                                                       *)
LEMMA KinFacts ==
  ASSUME NEW a \in Tasks
  PROVE  /\ \A m \in SUBSET Sigs : SameKin(a, [a EXCEPT !.blocked = m])
         /\ \A g \in Sigs, x \in Acts \union {"default"} :
              SameKin(a, [a EXCEPT !.act[g] = x])
         /\ \A n \in 0 .. MAXPID : SameKin(a, [a EXCEPT !.pgrp = n])
<1>1. ASSUME NEW m \in SUBSET Sigs PROVE SameKin(a, [a EXCEPT !.blocked = m])
  BY DEF SameKin, Tasks
<1>2. ASSUME NEW g \in Sigs, NEW x \in Acts \union {"default"}
      PROVE  SameKin(a, [a EXCEPT !.act[g] = x])
  BY DEF SameKin, Tasks
<1>3. ASSUME NEW n \in 0 .. MAXPID PROVE SameKin(a, [a EXCEPT !.pgrp = n])
  BY DEF SameKin, Tasks
<1> QED BY <1>1, <1>2, <1>3

(* A step that changes such fields of one task, in whatever state it is.    *)
LEMMA KinStep ==
  ASSUME ProcessInv, NEW s \in Slots, task[s] # NULL, NEW a, SameKin(task[s], a),
         task' = [task EXCEPT ![s] = a], last_pid' = last_pid, parent' = parent,
         shell' \in 0 .. MAXPID
  PROVE  ProcessInv'
<1>0. FamilyInv /\ WaiterIsTold /\ TypeOK /\ InitRuns /\ LeadersNamed /\ task \in Table
  BY DEF ProcessInv, FamilyInv, TypeOK, Table
<1>1. /\ a \in Tasks /\ task' \in Table /\ task'[s] = a
      /\ \A t \in Slots : t # s => task'[t] = task[t]
  BY <1>0 DEF SameKin, Table
<1>2. a.pid = task[s].pid /\ a.father = task[s].father /\ a.leader = task[s].leader
        /\ a.session = task[s].session /\ a.pc = task[s].pc /\ a.arg = task[s].arg
        /\ a.signal = task[s].signal
  BY DEF SameKin
<1>3. a.leader => a.session # 0
  BY <1>0, <1>2 DEF LeadersNamed, Live
<1>4. s = 1 => a.session = 0 /\ a.signal \subseteq {SIGCHLD}
  BY <1>0, <1>2 DEF InitRuns
<1>5. FamilyInv'
  BY <1>0, <1>1, <1>2, <1>3, <1>4, OneContinues
<1>6. ASSUME NEW t \in Slots PROVE Unnoticed(t)
  <2>1. CASE t = s
    BY <1>1, <1>2, <2>1 DEF Unnoticed
  <2>2. CASE t # s
    BY <1>1, <2>2 DEF Unnoticed
  <2> QED BY <2>1, <2>2
<1>7. TypeOK'
  BY <1>5 DEF FamilyInv
<1>8. WaiterIsTold'
  BY <1>0, <1>6, <1>7, WaiterUnconcerned
<1> QED BY <1>5, <1>8 DEF ProcessInv

(* sys_ssetmask()                                                           *)
LEMMA SsetmaskStep ==
  ASSUME ProcessInv, NEW s \in Slots, NEW mask \in Masks, SysSsetmask(s, mask)
  PROVE  ProcessInv'
<1>1. PICK a \in Tasks : a = task[s] /\ task[s] # NULL
  BY InUse DEF ProcessInv, FamilyInv, TypeOK, Table, SysSsetmask, User, Live
<1>2. PICK m \in SUBSET Sigs : m = mask \ {SIGKILL}
  BY ProcessAssumption
<1>3. task' = [task EXCEPT ![s] = [a EXCEPT !.blocked = m]]
  BY <1>1, <1>2 DEF SysSsetmask
<1>4. SameKin(task[s], [a EXCEPT !.blocked = m])
  BY <1>1, KinFacts
<1>5. shell' \in 0 .. MAXPID
  BY ShellType DEF ProcessInv, FamilyInv, SysSsetmask
<1> QED BY <1>1, <1>3, <1>4, <1>5, KinStep DEF SysSsetmask

(* sys_signal() and sys_sigaction()                                         *)
LEMMA SignalStep ==
  ASSUME ProcessInv, NEW s \in Slots, NEW g \in Caught, NEW act \in Acts, SysSignal(s, g, act)
  PROVE  ProcessInv'
<1>1. PICK a \in Tasks : a = task[s] /\ task[s] # NULL
  BY InUse DEF ProcessInv, FamilyInv, TypeOK, Table, SysSignal, User, Live
<1>2. g \in Sigs /\ act \in Acts \union {"default"}
  BY ProcessAssumption
<1>3. task' = [task EXCEPT ![s] = [a EXCEPT !.act[g] = act]]
  BY <1>1 DEF SysSignal
<1>4. SameKin(task[s], [a EXCEPT !.act[g] = act])
  BY <1>1, <1>2, KinFacts
<1>5. shell' \in 0 .. MAXPID
  BY ShellType DEF ProcessInv, FamilyInv, SysSignal
<1> QED BY <1>1, <1>3, <1>4, <1>5, KinStep DEF SysSignal

(* sys_setpgid()                                                            *)
LEMMA SetpgidStep ==
  ASSUME ProcessInv, NEW s \in Slots, NEW c \in Slots \ {1}, NEW pgid \in Groups \union {0},
         SysSetpgid(s, c, pgid)
  PROVE  ProcessInv'
<1>1. PICK a \in Tasks : a = task[c] /\ task[c] # NULL
  BY InUse DEF ProcessInv, FamilyInv, TypeOK, Table, SysSetpgid, Live
<1>2. task[s].pid \in 0 .. MAXPID
  <2>1. task[s] \in Tasks
    BY DEF ProcessInv, FamilyInv, TypeOK, SysSetpgid, User, Live
  <2> QED BY <2>1, SizeFacts DEF Tasks
<1>3. PICK n \in 0 .. MAXPID : n = IF pgid = 0 THEN task[s].pid ELSE pgid
  BY <1>2, SizeFacts, ProcessAssumption
<1>4. task' = [task EXCEPT ![c] = [a EXCEPT !.pgrp = n]]
  BY <1>1, <1>3 DEF SysSetpgid
<1>5. SameKin(task[c], [a EXCEPT !.pgrp = n])
  BY <1>1, KinFacts
<1>6. shell' \in 0 .. MAXPID
  BY ShellType DEF ProcessInv, FamilyInv, SysSetpgid
<1> QED BY <1>1, <1>4, <1>5, <1>6, KinStep DEF SysSetpgid

(* sys_setsid(): the number of a process is never 0, so its session is not  *)
(* the one of init.                                                         *)
LEMMA SetsidStep ==
  ASSUME ProcessInv, NEW s \in Slots, SysSetsid(s)
  PROVE  ProcessInv'
<1>1. PICK a \in Tasks : a = task[s] /\ task[s] # NULL /\ a.pc = "user" /\ s # 1
  BY InUse DEF ProcessInv, FamilyInv, TypeOK, Table, SysSetsid, User, Live
<1>2. PICK n \in 0 .. MAXPID, l \in BOOLEAN : n = a.pid /\ n # 0 /\ l = TRUE
  <2>1. a.pid \in 0 .. MAXPID /\ a.pid # 0
    BY SizeFacts DEF Tasks
  <2> QED BY <2>1
<1>3. PICK b : b = [a EXCEPT !.leader = l, !.session = n, !.pgrp = n]
  OBVIOUS
<1>4. task' = [task EXCEPT ![s] = b]
  BY <1>1, <1>2, <1>3 DEF SysSetsid
<1>5. b \in Tasks /\ b.pid = a.pid /\ b.father = a.father /\ b.session = n /\ b.pc = a.pc
  BY <1>3 DEF Tasks
<1>6. task \in Table
  BY DEF ProcessInv, FamilyInv, TypeOK, Table
<1>7. task' \in Table /\ task'[s] = b /\ \A t \in Slots : t # s => task'[t] = task[t]
  BY <1>4, <1>5, <1>6 DEF Table
<1>8. last_pid' = last_pid /\ parent' = parent /\ shell' \in 0 .. MAXPID
  BY ShellType DEF ProcessInv, FamilyInv, SysSetsid
<1> QED BY <1>1, <1>2, <1>5, <1>7, <1>8, OneStep

(* sys_kill(), which is never for init.                                     *)
LEMMA KillStep ==
  ASSUME ProcessInv, NEW s \in Slots, NEW pid, NEW g \in Sigs, SysKill(s, pid, g)
  PROVE  ProcessInv'
<1>0. FamilyInv /\ WaiterIsTold /\ TypeOK /\ InitRuns /\ LeadersNamed /\ task \in Table
  BY DEF ProcessInv, FamilyInv, TypeOK, Table
<1>1. PICK S : S = Targets(s, pid)
  OBVIOUS
<1>2. 1 \notin S /\ task' = Sent(task, S, g) /\ last_pid' = last_pid /\ parent' = parent /\ shell' \in 0 .. MAXPID
  BY <1>0, <1>1, ShellType DEF SysKill
<1>3. /\ task' \in Table
      /\ \A t \in Slots :
           /\ task[t] = NULL => task'[t] = NULL
           /\ task[t] # NULL => MoreSignals(task[t], task'[t], g)
           /\ t \notin S => task'[t] = task[t]
  BY <1>0, <1>2, SentFacts
<1>4. ASSUME NEW t \in Slots PROVE Continues(t) /\ Unnoticed(t)
  <2>1. CASE task[t] = NULL
    BY <1>3, <2>1 DEF Continues, Unnoticed
  <2>2. CASE task[t] # NULL
    <3>1. MoreSignals(task[t], task'[t], g)
      BY <1>3, <2>2
    <3>2. t = 1 => task'[t].session = 0 /\ task'[t].signal \subseteq {SIGCHLD}
      BY <1>0, <1>2, <1>3 DEF InitRuns
    <3>3. task[t].leader => task[t].session # 0
      BY <1>0, <2>2 DEF LeadersNamed, Live
    <3>4. task'[t] # NULL
      BY <3>1, NullAssumption DEF MoreSignals
    <3> QED BY <2>2, <3>1, <3>2, <3>3, <3>4 DEF Continues, Unnoticed, MoreSignals
  <2> QED BY <2>1, <2>2
<1>5. FamilyInv'
  <2>1. last_pid' \in 1 .. MAXPID
    BY <1>0, <1>2 DEF TypeOK
  <2> QED BY <1>0, <1>2, <1>3, <1>4, <2>1, FamilyKept
<1>6. TypeOK'
  BY <1>5 DEF FamilyInv
<1>7. WaiterIsTold'
  BY <1>0, <1>4, <1>6, WaiterUnconcerned
<1> QED BY <1>5, <1>7 DEF ProcessInv

(* ret_from_sys_call and do_signal(): what is sent to init does not end it. *)
LEMMA DoSignalStep ==
  ASSUME ProcessInv, NEW s \in Slots, DoSignal(s)
  PROVE  ProcessInv'
<1>0. FamilyInv /\ TypeOK /\ InitRuns /\ LeadersNamed /\ task \in Table
  BY DEF ProcessInv, FamilyInv, TypeOK, Table
<1>1. PICK a \in Tasks : a = task[s] /\ task[s] # NULL /\ a.pc = "user"
  BY <1>0, InUse DEF DoSignal, User, Live
<1>2. PICK g \in Sigs : g = Min(Deliverable(task[s])) /\ g \in a.signal
  <2>1. Deliverable(task[s]) # {} /\ Deliverable(task[s]) \subseteq a.signal
    BY <1>1 DEF DoSignal, Deliverable
  <2>2. a.signal \subseteq Sigs
    BY DEF Tasks
  <2>3. Sigs \subseteq Nat
    BY ProcessAssumption
  <2>4. Deliverable(task[s]) \in SUBSET Nat
    BY <2>1, <2>2, <2>3
  <2>5. Min(Deliverable(task[s])) \in Deliverable(task[s])
    BY <2>1, <2>4, MinFacts
  <2> QED BY <2>1, <2>2, <2>5
<1>3. PICK b : b = [a EXCEPT !.signal = a.signal \ {g}]
  OBVIOUS
<1>4. /\ b \in Tasks /\ b.pid = a.pid /\ b.father = a.father /\ b.session = a.session
      /\ b.leader = a.leader /\ b.pc = a.pc /\ b.signal = a.signal \ {g}
  <2>1. PICK r \in SUBSET Sigs : r = a.signal \ {g}
    BY DEF Tasks
  <2> QED BY <1>3, <2>1, SignalFields
<1>5. PICK tk \in Table : /\ tk = [task EXCEPT ![s].signal = @ \ {g}]
                          /\ tk[s] = b /\ \A t \in Slots : t # s => tk[t] = task[t]
  <2>1. [task EXCEPT ![s].signal = @ \ {g}] = [task EXCEPT ![s] = b]
    BY <1>1, <1>3
  <2>2. [task EXCEPT ![s] = b] \in Table
    BY <1>0, <1>4 DEF Table
  <2> QED BY <1>0, <2>1, <2>2 DEF Table
<1>6. s = 1 => g = SIGCHLD
  BY <1>0, <1>1, <1>2 DEF InitRuns
<1>7. CASE g # SIGCHLD /\ BeginExit(tk, s)
  BY <1>1, <1>4, <1>5, <1>6, <1>7, BeginExitStep
<1>8. CASE /\ task' = CASE task[s].act[g] = "once" -> [tk EXCEPT ![s].act[g] = "default"]
                          [] task[s].act[g] = "mask" -> [tk EXCEPT ![s].blocked = @ \union SaMask \union {g}]
                          [] OTHER -> tk
           /\ UNCHANGED <<last_pid, parent, shell>>
  <2>1. PICK c : SameKin(b, c) /\ task' = [tk EXCEPT ![s] = c]
    <3>1. CASE task' = [tk EXCEPT ![s].act[g] = "default"]
      <4>1. task' = [tk EXCEPT ![s] = [b EXCEPT !.act[g] = "default"]]
        BY <1>5, <3>1
      <4>2. SameKin(b, [b EXCEPT !.act[g] = "default"])
        BY <1>4, KinFacts
      <4> QED BY <4>1, <4>2
    <3>2. CASE task' = [tk EXCEPT ![s].blocked = @ \union SaMask \union {g}]
      <4>1. PICK m \in SUBSET Sigs : m = b.blocked \union SaMask \union {g}
        BY <1>4, ProcessAssumption DEF Tasks
      <4>2. task' = [tk EXCEPT ![s] = [b EXCEPT !.blocked = m]]
        BY <1>5, <3>2, <4>1
      <4>3. SameKin(b, [b EXCEPT !.blocked = m])
        BY <1>4, KinFacts
      <4> QED BY <4>2, <4>3
    <3>3. CASE task' = tk
      <4>1. SameKin(b, b)
        BY <1>4 DEF SameKin
      <4>2. task' = [tk EXCEPT ![s] = b]
        BY <1>5, <3>3 DEF Table
      <4> QED BY <4>1, <4>2
    <3> QED BY <1>8, <3>1, <3>2, <3>3
  <2>2. /\ c \in Tasks /\ c.pid = a.pid /\ c.father = a.father /\ c.session = a.session
        /\ c.leader = a.leader /\ c.pc = "user" /\ c.signal \subseteq a.signal
    BY <1>1, <1>4, <2>1 DEF SameKin
  <2>3. task' \in Table /\ task'[s] = c /\ \A t \in Slots : t # s => task'[t] = task[t]
    BY <1>5, <2>1, <2>2 DEF Table
  <2>4. c.leader => c.session # 0
    BY <1>0, <1>1, <2>2 DEF LeadersNamed, Live
  <2>5. s = 1 => c.session = 0 /\ c.signal \subseteq {SIGCHLD}
    BY <1>0, <1>1, <2>2 DEF InitRuns
  <2>6. last_pid' = last_pid /\ parent' = parent /\ shell' \in 0 .. MAXPID
    BY <1>0, <1>8, ShellType
  <2> QED BY <1>1, <2>2, <2>3, <2>4, <2>5, <2>6, OneStep
<1> QED BY <1>2, <1>5, <1>7, <1>8 DEF DoSignal

(* sys_fork()                                                               *)
LEMMA ForkStep ==
  ASSUME ProcessInv, NEW s \in Slots, Fork(s)
  PROVE  ProcessInv'
<1>0. FamilyInv /\ WaiterIsTold /\ task \in Table
  BY DEF ProcessInv, FamilyInv, TypeOK, Table
<1>1. FamilyInv' /\ \A t \in Slots : task'[t] = task[t] \/ task'[t].pc = "user"
  BY <1>0, ForkFamily
<1>2. \A t \in Slots : Unnoticed(t)
  BY <1>0, <1>1 DEF Unnoticed
<1>3. WaiterIsTold'
  BY <1>0, <1>1, <1>2, WaiterUnconcerned DEF FamilyInv
<1> QED BY <1>1, <1>3 DEF ProcessInv

(* The invariant holds in the beginning: init alone.                        *)
LEMMA InitInv == Init => ProcessInv
<1> SUFFICES ASSUME Init PROVE ProcessInv
  OBVIOUS
<1>1. InitTask \in Tasks /\ InitTask.pid = 1 /\ InitTask.father = 0 /\ InitTask.session = 0
        /\ InitTask.leader = FALSE /\ InitTask.signal = {} /\ InitTask.pc = "user"
  <2>1. [g \in Sigs |-> "default"] \in [Sigs -> Acts \union {"default"}]
    OBVIOUS
  <2>2. 0 \in 0 .. MAXPID /\ 1 \in 1 .. MAXPID /\ 0 \in -MAXPID .. MAXPID
    BY SizeFacts
  <2> QED BY <2>1, <2>2 DEF InitTask, Tasks
<1>2. /\ task \in Table /\ task[1] = InitTask
      /\ \A s \in Slots : s # 1 => task[s] = NULL
  BY <1>1, SizeFacts DEF Init, Table
<1>3. Live = {1} /\ task[1] # NULL
  BY <1>1, <1>2, SizeFacts, NullAssumption DEF Live
<1>4. TypeOK
  BY <1>2, SizeFacts DEF TypeOK, Init, Table
<1>5. InitRuns /\ PidsDistinct /\ LeadersNamed /\ Related
  BY <1>1, <1>2, <1>3 DEF InitRuns, PidsDistinct, LeadersNamed, Related
<1>6. WaiterIsTold
  BY <1>1, <1>2, <1>3 DEF WaiterIsTold
<1> QED BY <1>4, <1>5, <1>6 DEF ProcessInv, FamilyInv

(* Every step of the kernel keeps it.                                       *)
LEMMA NextInv == ProcessInv /\ [Next]_vars => ProcessInv'
<1> SUFFICES ASSUME ProcessInv, [Next]_vars PROVE ProcessInv'
  OBVIOUS
<1>1. ASSUME NEW s \in Slots, Fork(s) PROVE ProcessInv'
  BY <1>1, ForkStep
<1>2. ASSUME NEW s \in Slots, SysExit(s) PROVE ProcessInv'
  BY <1>2, SysExitStep
<1>3. ASSUME NEW s \in Slots, Exit(s) PROVE ProcessInv'
  BY <1>3, ExitStep
<1>4. ASSUME NEW s \in Slots, WaitRepeat(s) PROVE ProcessInv'
  BY <1>4, WaitRepeatStep
<1>5. ASSUME NEW s \in Slots, DoSignal(s) PROVE ProcessInv'
  BY <1>5, DoSignalStep
<1>6. ASSUME NEW s \in Slots, NEW arg \in WaitArgs(s), SysWaitpid(s, arg) PROVE ProcessInv'
  BY <1>6, SysWaitpidStep
<1>7. ASSUME NEW s \in Slots, NEW pid, NEW g \in Sigs, SysKill(s, pid, g) PROVE ProcessInv'
  BY <1>7, KillStep
<1>8. ASSUME NEW s \in Slots, NEW mask \in Masks, SysSsetmask(s, mask) PROVE ProcessInv'
  BY <1>8, SsetmaskStep
<1>9. ASSUME NEW s \in Slots, NEW g \in Caught, NEW act \in Acts, SysSignal(s, g, act)
      PROVE  ProcessInv'
  BY <1>9, SignalStep
<1>10. ASSUME NEW s \in Slots, NEW c \in Slots \ {1}, NEW pgid \in Groups \union {0},
              SysSetpgid(s, c, pgid)
       PROVE  ProcessInv'
  BY <1>10, SetpgidStep
<1>11. ASSUME NEW s \in Slots, SysSetsid(s) PROVE ProcessInv'
  BY <1>11, SetsidStep
<1>12. CASE UNCHANGED vars
  <2>1. task' = task /\ last_pid' = last_pid /\ parent' = parent /\ shell' \in 0 .. MAXPID /\ Live' = Live
    BY <1>12, ShellType DEF vars, Live, ProcessInv, FamilyInv
  <2>2. FamilyInv'
    BY <2>1 DEF ProcessInv, FamilyInv, TypeOK, InitRuns, PidsDistinct, LeadersNamed, Related
  <2>3. WaiterIsTold'
    BY <2>1 DEF ProcessInv, WaiterIsTold
  <2> QED BY <2>2, <2>3 DEF ProcessInv
<1>13. CASE Next
  <2>1. PICK s \in Slots :
          \/ Fork(s) \/ SysExit(s) \/ Exit(s) \/ WaitRepeat(s) \/ DoSignal(s)
          \/ \E arg \in WaitArgs(s) : SysWaitpid(s, arg)
          \/ \E pid \in 0 .. MAXPID \union {-n : n \in Groups}, g \in Sigs \ {SIGCHLD} : SysKill(s, pid, g)
          \/ \E mask \in Masks : SysSsetmask(s, mask)
          \/ \E g \in Caught, act \in Acts : SysSignal(s, g, act)
          \/ \E c \in Slots \ {1}, pgid \in Groups \union {0} : SysSetpgid(s, c, pgid)
          \/ SysSetsid(s)
    BY <1>13 DEF Next
  <2> QED BY <2>1, <1>1, <1>2, <1>3, <1>4, <1>5, <1>6, <1>7, <1>8, <1>9, <1>10, <1>11
<1> QED BY <1>12, <1>13
-----------------------------------------------------------------------------
(* Process numbers stay in range, no two tasks share one, and the father's  *)
(* number a task keeps always means the process that forked it, or init,    *)
(* running: whatever exits, is collected or comes round in between          *)
(* (find_empty_process(), copy_process(), do_exit(), release()).            *)
THEOREM FamilyStaysRight == Spec => []FamilyRight
<1>1. ProcessInv => FamilyRight
  <2> SUFFICES ASSUME ProcessInv PROVE FatherIsParent
    BY DEF ProcessInv, FamilyInv, FamilyRight
  <2>1. ASSUME NEW s \in Live \ {1}
        PROVE  /\ {c \in Live : task[c].pid = task[s].father} = {parent[s]}
               /\ task[parent[s]].pc \in {"user", "wait"}
    <3>1. parent[s] \in Live /\ task[s].father = task[parent[s]].pid
            /\ task[parent[s]].pc \in {"user", "wait"}
      BY DEF ProcessInv, FamilyInv, Related
    <3>2. \A c \in Live : task[c].pid = task[parent[s]].pid => c = parent[s]
      BY <3>1 DEF ProcessInv, FamilyInv, PidsDistinct
    <3> QED BY <3>1, <3>2
  <2> QED BY <2>1 DEF FatherIsParent
<1> QED BY <1>1, InitInv, NextInv, PTL DEF Spec

(* A process asleep in waitpid() has been sent SIGCHLD when a child it      *)
(* waits for is a zombie, its own or one that came to it by the exit of     *)
(* another (do_exit(), tell_father(), sys_waitpid()).                       *)
THEOREM SleeperIsTold == Spec => []WaiterIsTold
<1>1. ProcessInv => WaiterIsTold
  BY DEF ProcessInv
<1> QED BY <1>1, InitInv, NextInv, PTL DEF Spec
=============================================================================
