------------------------------- MODULE Floppy -------------------------------
(***************************************************************************)
(* linux-0.11/kernel/blk_drv/floppy.c with the motors and the timer list   *)
(* of kernel/sched.c: requests for several drives behind one controller,   *)
(* and floppy_change() of processes that look at another drive.            *)
(*                                                                         *)
(* The handlers call each other (do_fd_request() may end in transfer(),    *)
(* and transfer() in do_fd_request()), so each is an operator from a state *)
(* s, a record of the variables, to the set of states it may leave behind. *)
(* A handler runs from its call to its return in one step: interrupts that *)
(* nest in it are left out.  DMA, geometry and rates are left out; times   *)
(* are scaled down, and 100 s, the time a motor stays on for a request, is *)
(* longer than any request takes.                                          *)
(***************************************************************************)
EXTENDS Integers, Sequences, FiniteSets, SequencesExt

CONSTANTS
  Drives,      \* drive numbers
  Tracks,      \* tracks of a diskette, 0 is the outermost
  Reqs,        \* requests that will be made, each once, in this order
  Places,      \* bound: the drive and the track of a request
  Procs,       \* processes that call floppy_change()
  ChangeDrives,\* bound: the drives they look at
  MAX_ERRORS,
  SPIN,        \* HZ/2: ticks until a motor is up to speed
  SETTLE,      \* 2: ticks after another drive is selected
  OFF,         \* 3*HZ: ticks until floppy_off() takes effect
  MaxBusy,     \* ticks the controller takes at most for a command
  MaxFaults    \* bound: bytes refused, results missing, failed recalibrations
               \* and interrupts out of nowhere

NoTrack == -1           \* a block behind the end of the diskette
FOREVER == OFF + 1      \* moff_timer of a drive in use
Idle == [cmd |-> "none", drive |-> 0, track |-> 0, req |-> 0, age |-> 0]

ASSUME FloppyAssumption ==
  /\ Drives \subseteq Nat /\ 0 \in Drives
  /\ ChangeDrives \subseteq Drives
  /\ Tracks \subseteq Nat /\ 0 \in Tracks
  /\ Reqs \subseteq Nat \ {0}
  /\ {MAX_ERRORS, SPIN, SETTLE, OFF, MaxBusy, MaxFaults} \subseteq Nat
  /\ 0 < SETTLE /\ SETTLE < SPIN
  /\ SETTLE + 2 * MaxBusy < OFF

VARIABLE s

InitReq == [drive |-> 0, track |-> NoTrack, errors |-> 0, state |-> "new"]

Init ==
  s = [queue |-> <<>>,                                \* CURRENT and behind it
       req |-> [r \in Reqs |-> InitReq],
       reset |-> FALSE, recalibrate |-> FALSE, seek |-> FALSE,
       current_drive |-> 0, seek_track |-> 0,
       current_track |-> NoTrack,                     \* 255
       do_floppy |-> "none",                          \* the handler of the next interrupt
       selected |-> FALSE,
       drive |-> 0, motor |-> {},                     \* current_DOR
       mon_timer |-> [d \in Drives |-> 0],
       moff_timer |-> [d \in Drives |-> 0],
       timers |-> <<>>,                               \* next_timer and behind it
       proc |-> [p \in Procs |-> [pc |-> "user", nr |-> 0, sleep |-> "awake"]],
       fdc |-> Idle,                                  \* what the controller does
       at |-> [d \in Drives |-> 0],                   \* where the heads are
       faults |-> 0,
       raced |-> FALSE,                               \* history: see NewRequest
       missed |-> FALSE,                              \* history: see WakeUp
       wild |-> FALSE]                                \* CURRENT was used, and is NULL

CURRENT(st) == Head(st.queue)

(* wake_up(): the processes that sleep at pc, in the queues of the drives   *)
(* in D.  It may interrupt a process that has looked and is on its way to   *)
(* sleep, which missed records: "about" to call sleep_on(), it is not in    *)
(* the queue yet and will be asleep when nobody wakes; in it ("enters") but *)
(* with its state not yet set, it is taken out, goes to sleep all the same, *)
(* and is lost with all the sleepers behind it.                             *)
WakeUp(st, pc, D) ==
  LET In(p) == st.proc[p].pc = pc /\ st.proc[p].nr \in D
      With(p, q) == In(q) /\ (pc = "motor" => st.proc[q].nr = st.proc[p].nr)
      Woken(p) ==
        CASE st.proc[p].sleep = "enters" -> "dropped"
          [] st.proc[p].sleep = "asleep" ->
               IF \E q \in Procs : With(p, q) /\ st.proc[q].sleep = "enters"
               THEN "lost" ELSE "awake"
          [] OTHER -> st.proc[p].sleep
  IN [st EXCEPT !.proc = [p \in Procs |-> IF In(p) THEN [@[p] EXCEPT !.sleep = Woken(p)] ELSE @[p]],
                !.missed = @ \/ \E p \in Procs : In(p) /\ st.proc[p].sleep \in {"about", "enters"}]

FloppyDeselect(st) == WakeUp([st EXCEPT !.selected = FALSE], "select", Drives)

FloppyOff(st, d) == [st EXCEPT !.moff_timer[d] = OFF]

EndRequest(st, state) ==
  LET r == CURRENT(st) IN
  FloppyOff([st EXCEPT !.req[r] = [InitReq EXCEPT !.state = state], !.queue = Tail(@)],
            st.req[r].drive)

(* ticks_to_floppy_on(): what it returns is in mon_timer.                   *)
TicksToFloppyOn(st, d) ==
  LET drive == IF st.selected THEN st.drive ELSE d IN
  [st EXCEPT !.moff_timer[d] = FOREVER,
             !.motor = @ \union {d},
             !.drive = drive,
             !.mon_timer[d] = IF d \notin st.motor THEN SPIN
                              ELSE IF drive # st.drive /\ @ < SETTLE THEN SETTLE
                              ELSE @]

(* add_timer() for a time in the future: the new timer goes behind the ones *)
(* that are due before it, and waits for the rest of its time only; the     *)
(* timers behind it keep theirs, and so become late.                        *)
AddTimer(st, n, fn) ==
  LET left[i \in 0 .. Len(st.timers)] == IF i = 0 THEN n ELSE left[i - 1] - st.timers[i].jiffies
      i == CHOOSE i \in 0 .. Len(st.timers) :
             /\ \A j \in 1 .. i : st.timers[j].jiffies < left[j - 1]
             /\ i < Len(st.timers) => st.timers[i + 1].jiffies >= left[i]
  IN [st EXCEPT !.timers = InsertAt(@, i + 1, [jiffies |-> left[i], fn |-> fn])]
-----------------------------------------------------------------------------
(* Calls after each other: F from each state of S, or from a state.         *)
ThenEach(S, F(_)) == UNION {F(t) : t \in S}
Then(st, F(_)) == ThenEach({st}, F)

(* Called by do_fd_request() when reset is set.                             *)
ResetFloppy(st) ==
  [st EXCEPT !.seek = FALSE, !.reset = FALSE, !.recalibrate = TRUE,
             !.do_floppy = "reset", !.fdc = [Idle EXCEPT !.cmd = "reset"]]

(* output_byte() for the bytes of a command: the controller takes them and  *)
(* begins, or refuses one, because it transfers data or is broken; then     *)
(* reset is set, and the caller calls do_fd_request().                      *)
Output(st, command) ==
  (IF st.fdc.cmd = "rw" THEN {} ELSE {[st EXCEPT !.fdc = command]})
  \union (IF st.fdc.cmd = "none" THEN {} ELSE {ResetFloppy(st)})
  \union (IF st.faults = MaxFaults THEN {}
          ELSE {ResetFloppy([st EXCEPT !.faults = @ + 1])})

RecalibrateFloppy(st) ==
  Then([st EXCEPT !.recalibrate = FALSE, !.current_track = 0, !.do_floppy = "recal"],
       LAMBDA t : Output(t, [Idle EXCEPT !.cmd = "recal", !.drive = t.current_drive]))

(* setup_DMA() takes the address from CURRENT.                              *)
SetupRwFloppy(st) ==
  IF st.queue = <<>> THEN {[st EXCEPT !.wild = TRUE]}
  ELSE Then([st EXCEPT !.do_floppy = "rw"],
            LAMBDA t : Output(t, [Idle EXCEPT !.cmd = "rw", !.drive = t.current_drive,
                                              !.track = t.seek_track, !.req = CURRENT(t)]))

Transfer(st) ==
  IF st.reset THEN {ResetFloppy(st)}
  ELSE IF ~st.seek THEN SetupRwFloppy(st)
  ELSE Then([st EXCEPT !.do_floppy = "seek"],
            LAMBDA t : Output(t, [Idle EXCEPT !.cmd = "seek", !.drive = t.current_drive,
                                              !.track = t.seek_track]))

(* A slip: another drive may stay selected.                                 *)
FloppyOnInterruptUnselected(st) == Then([st EXCEPT !.selected = TRUE], Transfer)

FloppyOnInterrupt(st) ==
  IF st.current_drive = st.drive THEN Then([st EXCEPT !.selected = TRUE], Transfer)
  ELSE {AddTimer([st EXCEPT !.selected = TRUE, !.drive = st.current_drive], SETTLE, "transfer")}

(* A slip: a request behind the end is ended as if it were done.            *)
SkipOutOfRangeOk(st) ==
  IF st.queue = <<>> \/ st.req[CURRENT(st)].track # NoTrack THEN st ELSE EndRequest(st, "ok")

(* INIT_REQUEST and the test of the block number: a request behind the end  *)
(* is ended; current_drive and seek have been set by then.                  *)
SkipOutOfRange(st) ==
  LET d == st.req[CURRENT(st)].drive IN
  IF st.queue = <<>> \/ st.req[CURRENT(st)].track # NoTrack THEN st
  ELSE EndRequest([st EXCEPT !.seek = @ \/ st.current_drive # d, !.current_drive = d], "failed")

StartCurrent(st) ==
  LET r == st.req[CURRENT(st)]
      On(t) == {TicksToFloppyOn(t, r.drive)}
      Wait(t) == IF t.mon_timer[r.drive] = 0 THEN FloppyOnInterrupt(t)
                 ELSE {AddTimer(t, t.mon_timer[r.drive], "floppy_on_interrupt")}
  IN ThenEach(
       Then([st EXCEPT !.seek = @ \/ st.current_drive # r.drive \/ r.track # st.current_track,
                       !.current_drive = r.drive, !.seek_track = r.track], On), Wait)

DoFdRequest(st0) ==
  Then([st0 EXCEPT !.seek = FALSE],
       LAMBDA st :
         IF st.reset THEN {ResetFloppy(st)}
         ELSE IF st.recalibrate THEN RecalibrateFloppy(st)
         ELSE LET skip[n \in 0 .. Len(st.queue)] ==
                    IF n = 0 THEN st ELSE SkipOutOfRange(skip[n - 1])
              IN Then(skip[Len(st.queue)],
                      LAMBDA t : IF t.queue = <<>> THEN {t} ELSE StartCurrent(t)))
-----------------------------------------------------------------------------
(* A slip: errors are not counted.                                          *)
BadFlpIntrUncounted(st) ==
  IF st.queue = <<>> THEN {[st EXCEPT !.wild = TRUE]} ELSE {[st EXCEPT !.recalibrate = TRUE]}

(* bad_flp_intr().  After MAX_ERRORS the last test is of the request behind *)
(* the one given up, or of address 8 if there is none.                      *)
BadFlpIntr(st) ==
  LET Count(t) == [t EXCEPT !.req[CURRENT(t)].errors = @ + 1]
      GiveUp(t) == IF t.req[CURRENT(t)].errors <= MAX_ERRORS THEN {t}
                   ELSE {EndRequest(FloppyDeselect(t), "failed")}
      Resets(t) == IF t.queue = <<>> THEN BOOLEAN
                   ELSE {t.req[CURRENT(t)].errors > MAX_ERRORS \div 2}
      Flag(t) == {IF b THEN [t EXCEPT !.reset = TRUE] ELSE [t EXCEPT !.recalibrate = TRUE] :
                    b \in Resets(t)}
  IN IF st.queue = <<>> THEN {[st EXCEPT !.wild = TRUE]}
     ELSE ThenEach(Then(Count(st), GiveUp), Flag)

(* well is the status a handler looks for.  A result that cannot be read is *)
(* a fault and sets reset.                                                  *)
Unread(st) == IF st.faults = MaxFaults THEN {}
              ELSE {[st EXCEPT !.reset = TRUE, !.faults = @ + 1]}

(* rw_interrupt(); a diskette may be write protected.                       *)
RwInterrupt(st, well) ==
  LET bad == Unread(st) \union (IF well THEN {} ELSE {st})
      End(t, state) == EndRequest(FloppyDeselect(t), state)
  IN IF st.queue = <<>> THEN {[st EXCEPT !.wild = TRUE]}
     ELSE ThenEach((IF well THEN {End(st, "ok")} ELSE {})
                   \union ThenEach(bad, BadFlpIntr) \union {End(t, "failed") : t \in bad},
                   DoFdRequest)

(* seek_interrupt().                                                        *)
SeekInterrupt(st, well) ==
  LET there == well /\ st.at[st.current_drive] = st.seek_track
      bad == Unread(st) \union (IF there THEN {} ELSE {st})
  IN (IF there THEN SetupRwFloppy([st EXCEPT !.current_track = st.seek_track]) ELSE {})
     \union ThenEach(ThenEach(bad, BadFlpIntr), DoFdRequest)

(* recal_interrupt(): it counts no errors, so a recalibration that fails is *)
(* a fault of the bound.                                                    *)
RecalInterrupt(st, well) ==
  ThenEach((IF well THEN {[st EXCEPT !.recalibrate = FALSE]} ELSE {}) \union Unread(st),
           DoFdRequest)

ResetInterrupt(st) == ThenEach({st} \union Unread(st), DoFdRequest)

UnexpectedFloppyInterrupt(st) == {[st EXCEPT !.recalibrate = TRUE], [st EXCEPT !.reset = TRUE]}
-----------------------------------------------------------------------------
(* _floppy_interrupt, which clears do_floppy.  well: the command succeeded; *)
(* a transfer cannot when the head is on another track or the motor is off. *)
FloppyInterrupt(well) ==
  LET c == s.fdc
      moves == c.cmd \in {"seek", "recal"}
      heads == IF well /\ moves THEN [s.at EXCEPT ![c.drive] = c.track] ELSE s.at
      Handler(st) == CASE s.do_floppy = "rw" -> RwInterrupt(st, well /\ c.cmd = "rw")
                       [] s.do_floppy = "seek" -> SeekInterrupt(st, well /\ moves)
                       [] s.do_floppy = "recal" -> RecalInterrupt(st, well)
                       [] s.do_floppy = "reset" -> ResetInterrupt(st)
                       [] OTHER -> UnexpectedFloppyInterrupt(st)
  IN
  /\ c.cmd # "none"
  /\ c.cmd = "rw" /\ well => s.at[c.drive] = c.track /\ s.drive = c.drive /\ c.drive \in s.motor
  /\ s' \in Then([s EXCEPT !.do_floppy = "none", !.fdc = Idle, !.at = heads], Handler)

SpuriousInterrupt ==
  /\ s.fdc.cmd = "none" /\ s.do_floppy = "none"
  /\ s.faults < MaxFaults
  /\ s' \in UnexpectedFloppyInterrupt([s EXCEPT !.faults = @ + 1])

(* The kernel is not preempted: while p is within the loops below nobody    *)
(* else runs, but interrupts are enabled and come between any two steps.    *)
Within(p) ==
  \/ s.proc[p].pc \in {"ticks", "other", "change"}
  \/ s.proc[p].sleep \in {"about", "enters", "dropped"}

(* make_request() and add_request(): with an empty queue the driver is      *)
(* called at once, also when it is still recalibrating after the last       *)
(* request was given up: it then does two things at a time, which raced     *)
(* records.  The request is started again by recal_interrupt(), and the     *)
(* timer that is left over may find another request, or none (wild).        *)
NewRequest(r, d, k) ==
  LET st == [s EXCEPT !.req[r] = [drive |-> d, track |-> k, errors |-> 0, state |-> "queued"]] IN
  /\ s.req[r].state = "new"
  /\ \A q \in Reqs : q < r => s.req[q].state # "new"
  /\ \A p \in Procs : ~Within(p)
  /\ IF s.queue = <<>>
       THEN s' \in DoFdRequest([st EXCEPT !.queue = <<r>>, !.raced = @ \/ s.fdc.cmd # "none"])
       ELSE \E i \in 2 .. (Len(s.queue) + 1) : s' = [st EXCEPT !.queue = InsertAt(@, i, r)]

(* The timers of do_timer() that have run down are called one by one.       *)
CallExpired(st) ==
  LET rest == [st EXCEPT !.timers = Tail(@)] IN
  IF st.timers = <<>> \/ Head(st.timers).jiffies > 0 THEN {st}
  ELSE IF Head(st.timers).fn = "transfer" THEN Transfer(rest)
  ELSE FloppyOnInterrupt(rest)

(* A slip: the sleepers are not woken when a motor is up to speed.          *)
DoFloppyTimerSilent(st) ==
  [st EXCEPT !.mon_timer = [d \in Drives |-> IF d \in st.motor /\ @[d] > 0 THEN @[d] - 1 ELSE @[d]]]

(* do_floppy_timer(): motors that run come up to speed or time out.         *)
DoFloppyTimer(st) ==
  LET on == {d \in st.motor : st.mon_timer[d] = 1}
      off == {d \in st.motor : st.mon_timer[d] = 0 /\ st.moff_timer[d] = 0}
      Down(d) == d \in st.motor /\ st.mon_timer[d] = 0 /\ st.moff_timer[d] \in 1 .. OFF
  IN WakeUp(
       [st EXCEPT !.motor = @ \ off,
                  !.mon_timer = [d \in Drives |->
                                   IF d \in st.motor /\ @[d] > 0 THEN @[d] - 1 ELSE @[d]],
                  !.moff_timer = [d \in Drives |-> IF Down(d) THEN @[d] - 1 ELSE @[d]]],
       "motor", on)

(* do_timer().                                                              *)
DoTimer ==
  LET st == [s EXCEPT !.fdc.age = IF s.fdc.cmd = "none" THEN 0 ELSE @ + 1,
                      !.timers = IF @ = <<>> THEN @ ELSE [@ EXCEPT ![1].jiffies = @ - 1]]
      called[n \in 0 .. Len(s.timers)] ==
        IF n = 0 THEN {st} ELSE ThenEach(called[n - 1], CallExpired)
  IN
  /\ s.timers # <<>> \/ s.motor # {}
  /\ s.fdc.age < MaxBusy
  /\ s' \in {DoFloppyTimer(t) : t \in called[Len(s.timers)]}
-----------------------------------------------------------------------------
CpuFree(p) == \A q \in Procs \ {p} : ~Within(q)

At(pc, p) == CpuFree(p) /\ s.proc[p].pc = pc /\ s.proc[p].sleep = "awake"

(* floppy_change(), which check_disk_change() calls.                        *)
FloppyChange(p, d) ==
  /\ At("user", p)
  /\ s' = [s EXCEPT !.proc[p] = [pc |-> "motor", nr |-> d, sleep |-> "awake"]]

(* floppy_on(): ticks_to_floppy_on() enables interrupts before it reads     *)
(* mon_timer; then the process sleeps until the motor is up to speed.       *)
FloppyOn(p) ==
  \/ /\ At("motor", p)
     /\ s' = [TicksToFloppyOn(s, s.proc[p].nr) EXCEPT !.proc[p].pc = "ticks"]
  \/ /\ At("ticks", p)
     /\ s' = IF s.mon_timer[s.proc[p].nr] = 0 THEN [s EXCEPT !.proc[p].pc = "select"]
             ELSE [s EXCEPT !.proc[p].pc = "motor", !.proc[p].sleep = "about"]

(* The loop: it sleeps while another drive is in use, and starts again when *)
(* another drive is selected but not in use.  current_DOR, selected and     *)
(* current_DOR again are read one after the other.                          *)
FloppySelect(p) ==
  LET there == s.drive = s.proc[p].nr IN
  \/ /\ At("select", p)
     /\ s' = [s EXCEPT !.proc[p].pc = IF there THEN "change" ELSE "other"]
  \/ /\ At("other", p)
     /\ s' = IF s.selected THEN [s EXCEPT !.proc[p].pc = "select", !.proc[p].sleep = "about"]
             ELSE [s EXCEPT !.proc[p].pc = "change"]
  \/ /\ At("change", p)
     /\ s' = IF there THEN FloppyOff([s EXCEPT !.proc[p].pc = "user"], s.proc[p].nr)
             ELSE [s EXCEPT !.proc[p].pc = "motor"]

(* sleep_on() and interruptible_sleep_on(): into the queue, then the state. *)
SleepOn(p) ==
  /\ CpuFree(p)
  /\ s.proc[p].sleep \in {"about", "enters", "dropped"}
  /\ s' = [s EXCEPT !.proc[p].sleep = CASE @ = "about" -> "enters"
                                         [] @ = "enters" -> "asleep"
                                         [] OTHER -> "lost"]

(* Signals end interruptible_sleep_on(), for others behind the sleeper too. *)
Signal ==
  \E S \in SUBSET {p \in Procs : s.proc[p].pc = "select" /\ s.proc[p].sleep \in {"asleep", "lost"}} :
    /\ S # {}
    /\ s' = [s EXCEPT !.proc = [p \in Procs |-> IF p \in S THEN [@[p] EXCEPT !.sleep = "awake"]
                                                ELSE @[p]]]
-----------------------------------------------------------------------------
Step(p) == FloppyOn(p) \/ FloppySelect(p) \/ SleepOn(p)

(* Once CURRENT was used while it is NULL nothing is known any more.        *)
Next ==
  /\ ~s.wild
  /\ \/ \E r \in Reqs : \E x \in Places : NewRequest(r, x[1], x[2])
     \/ \E well \in BOOLEAN : FloppyInterrupt(well)
     \/ SpuriousInterrupt
     \/ DoTimer
     \/ \E p \in Procs, d \in ChangeDrives : FloppyChange(p, d)
     \/ \E p \in Procs : Step(p)
     \/ Signal

Spec == Init /\ [][Next]_s

(* The clock ticks, the controller interrupts, and processes that are awake *)
(* run.                                                                     *)
Fairness ==
  /\ WF_s(~s.wild /\ DoTimer)
  /\ WF_s(~s.wild /\ \E well \in BOOLEAN : FloppyInterrupt(well))
  /\ \A p \in Procs : WF_s(~s.wild /\ Step(p))

FairSpec == Spec /\ Fairness
-----------------------------------------------------------------------------
(* Types; a request is in the queue exactly until it has ended, and no      *)
(* counter of do_floppy_timer() drops below zero.                           *)
TypeOK ==
  /\ s.queue \in Seq(Reqs)
  /\ s.req \in [Reqs -> [drive : Drives, track : Tracks \union {NoTrack},
                         errors : 0 .. (MAX_ERRORS + 1),
                         state : {"new", "queued", "ok", "failed"}]]
  /\ \A r \in Reqs : s.req[r].state = "queued" <=> r \in ToSet(s.queue)
  /\ s.motor \subseteq Drives /\ s.drive \in Drives /\ s.current_drive \in Drives
  /\ s.mon_timer \in [Drives -> 0 .. SPIN]
  /\ s.moff_timer \in [Drives -> 0 .. FOREVER]
  /\ s.do_floppy \in {"none", "rw", "seek", "recal", "reset"}
  /\ s.proc \in [Procs -> [pc : {"user", "motor", "ticks", "select", "other", "change"}, nr : Drives,
             sleep : {"awake", "about", "enters", "dropped", "asleep", "lost"}]]

(* The driver does one thing at a time and always goes on: while there is a *)
(* request, it waits either for a timer or for an interrupt, never for both *)
(* and never for nothing, whatever went wrong before (floppy.c:233-455).    *)
OneThingInHand ==
  ~s.raced =>
    LET n == Len(s.timers) + (IF s.fdc.cmd = "none" THEN 0 ELSE 1)
    IN n <= 1 /\ (s.queue # <<>> => n = 1)

(* floppy.c:304-308: data is transferred when everything is set up, "ie     *)
(* floppy motor is on and the correct floppy is selected", and stays so to  *)
(* the end, although floppy_change() of a process switches the same motors  *)
(* and selects the same drives.                                             *)
TransferReady ==
  s.fdc.cmd = "rw" /\ ~s.raced =>
    /\ s.queue # <<>> /\ s.fdc.req = CURRENT(s)
    /\ s.fdc.drive = s.req[CURRENT(s)].drive
    /\ s.drive = s.fdc.drive
    /\ s.fdc.drive \in s.motor /\ s.mon_timer[s.fdc.drive] <= 1

(* A request ends well only on the interrupt of a transfer that was started *)
(* for it, from its own drive and track (floppy.c:250-267), also when the   *)
(* driver was called twice.                                                 *)
OkMeansTransferred ==
  [][\A r \in Reqs : s.req[r].state # "ok" /\ s'.req[r].state = "ok" =>
       /\ s.fdc.cmd = "rw" /\ s.fdc.req = r
       /\ s.fdc.drive = s.req[r].drive /\ s.fdc.track = s.req[r].track]_s

(* Every request ends, through any number of errors, resets and             *)
(* recalibrations (floppy.c:235-243).                                       *)
RequestEnds ==
  \A r \in Reqs : s.req[r].state = "queued" ~> s.req[r].state # "queued" \/ s.wild

(* floppy_change() returns: a process that waits for a motor or for the     *)
(* drive in use is woken and gets its turn (floppy.c:125-153,               *)
(* sched.c:232-262), unless a wake_up() was missed: interrupts are enabled  *)
(* between the tests and the sleep.                                         *)
ChangeReturns ==
  \A p \in Procs :
    s.proc[p].pc # "user" ~> s.proc[p].pc = "user" \/ s.raced \/ s.missed

(* The driver has one thing in hand, and when that is a transfer everything *)
(* is set up for it (floppy.c:233-455).                                     *)
DriverReady == TypeOK /\ OneThingInHand /\ TransferReady
=============================================================================
