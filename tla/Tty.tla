-------------------------------- MODULE Tty --------------------------------
(***************************************************************************)
(* linux-0.11/kernel/chr_drv: one terminal between a process that reads    *)
(* it, one that writes it, and its interrupts: tty_read(), tty_write() and *)
(* copy_to_cooked() of tty_io.c, the interrupt routines of rs_io.s or the  *)
(* keyboard's, rs_write() of serial.c or con_write() of console.c.         *)
(*                                                                         *)
(* Processes do not preempt each other in the kernel (cpu), but interrupts *)
(* come between any two of their instructions: GETCH and PUTCH are two     *)
(* steps each, and an action is what lies between two accesses to a queue. *)
(*                                                                         *)
(* The keyboard comes through a trap gate (console.c:683) and its handler  *)
(* sends EOI before do_tty_interrupt() (keyboard.S:66-69): the next key    *)
(* may interrupt it anywhere in copy_to_cooked() or con_write().  So these *)
(* go step by step as well, on a stack of activations.  A serial line      *)
(* sends EOI last (rs_io.s): its handler is not entered twice, no process  *)
(* runs before it returns, and it is one step.                             *)
(*                                                                         *)
(* VMIN is 1 and VTIME 0, as in INIT_C_CC; the characters that only change *)
(* into others (CR, NL, case) are left out.                                *)
(***************************************************************************)
EXTENDS Integers, Sequences, SequencesExt, FiniteSets

CONSTANTS
  SIZE,       \* TTY_BUF_SIZE
  WORD,       \* one more than the largest unsigned long
  READ_LEFT,  \* 20 of tty_read()
  WRITE_LEFT, \* 128 of sleep_if_full()
  STARTUP,    \* 256 of rs_io.s
  Keys,       \* the characters that arrive
  ReadSizes, WriteSizes,  \* of reads and writes
  MaxNest,    \* bound: keyboard handlers that are entered and not left
  MaxIn,      \* bound, for each terminal: characters that arrive
  MaxOut,     \* bound, for each terminal: characters written
  Modes,      \* the terminals: device, canonical mode, echo
  NULL

ASSUME TtyAssumption ==
  /\ SIZE \in Nat /\ SIZE > 2 /\ WORD \in Nat
  /\ READ_LEFT \in Nat /\ READ_LEFT < SIZE - 1
  /\ WRITE_LEFT \in 1 .. SIZE - 1 - STARTUP
  /\ STARTUP \in 0 .. SIZE - 1
  /\ Keys \subseteq {"a", "nl", "eof", "erase", "kill", "intr"}
  /\ ReadSizes \subseteq Nat \ {0} /\ WriteSizes \subseteq Nat \ {0}
  /\ Modes \subseteq [con : BOOLEAN, canon : BOOLEAN, echo : BOOLEAN]
  /\ MaxIn \in [Modes -> Nat] /\ MaxOut \in [Modes -> Nat]
  /\ \A m \in Modes : WORD > SIZE + MaxIn[m]

VARIABLES
  tty,      \* the three queues and the transmit interrupt, with the history
            \* of what the queues ought to hold
  reader,   \* tty_read(): where it is, c and nr
  writer,   \* tty_write(): where it is, nr, and a register
  asleep,   \* which of the two are asleep
  signal,   \* which of the two have a signal
  cpu,      \* which of the two is in the kernel and awake, or NULL
  handlers, \* the keyboard handlers, the one that runs last
  keys, chars,  \* characters that arrived, characters written
  mode      \* which terminal this is; does not change

pvars == <<reader, writer, asleep, cpu>>
vars == <<tty, pvars, signal, handlers, keys, chars, mode>>

Ring == 0 .. SIZE - 1
EmptyRing == [buf |-> [i \in Ring |-> NULL], head |-> 0, tail |-> 0]

Init ==
  /\ tty = [read_q |-> EmptyRing, secondary |-> EmptyRing, data |-> 0, write_q |-> EmptyRing,
            ier |-> FALSE, intr |-> FALSE, line |-> <<>>, out |-> <<>>, raced |-> FALSE, torn |-> FALSE]
  /\ reader = [pc |-> "user", nr |-> 0, c |-> NULL]
  /\ writer = [pc |-> "user", nr |-> 0, reg |-> 0]
  /\ asleep = {} /\ signal = {}
  /\ cpu = NULL
  /\ handlers = <<>>
  /\ keys = 0 /\ chars = 0
  /\ mode \in Modes
-----------------------------------------------------------------------------
CHARS(q) == (q.head - q.tail) % SIZE
LEFT(q) == (q.tail - q.head - 1) % SIZE
EMPTY(q) == q.head = q.tail
FULL(q) == LEFT(q) = 0
INC(i) == (i + 1) % SIZE

Put(q, c) == [q EXCEPT !.buf[q.head] = c, !.head = INC(@)]
Content(q) == [i \in 1 .. CHARS(q) |-> q.buf[(q.tail + i - 1) % SIZE]]

Ends == {"nl", "eof"}

(* What lies outside a queue, or in a queue that has lost its order, is not *)
(* told apart, and the history goes no further than that.                   *)
Blank(q, from) == [q EXCEPT !.buf = [i \in Ring |-> IF (i - from.tail) % SIZE < CHARS(from)
                                                   THEN @[i] ELSE NULL]]
Forget(t) ==
  [t EXCEPT !.read_q = Blank(@, @),
            !.secondary = Blank(@, IF t.raced THEN EmptyRing ELSE @),
            !.write_q = Blank(@, IF t.torn THEN EmptyRing ELSE @),
            !.line = IF t.raced THEN <<>> ELSE @,
            !.out = IF t.torn THEN <<>> ELSE @]

-----------------------------------------------------------------------------
(* rs_write(): the line's transmit interrupt is enabled.                    *)
Kick(t) == [t EXCEPT !.ier = @ \/ ~EMPTY(t.write_q)]

(* An activation of copy_to_cooked(): what it does next, its c, and a count *)
(* and a register.                                                          *)
Activation == [todo |-> <<"test">>, c |-> NULL, n |-> 0, reg |-> 0]

(* n characters are echoed and tty->write(tty) called.                      *)
Echo(n) ==
  IF ~mode.echo THEN <<>>
  ELSE FlattenSeq([i \in 1 .. n |-> <<"echo", "echoed">>]) \o <<IF mode.con THEN "count" ELSE "kick">>

(* What a place of a queue may hold, and whether the last character of the  *)
(* secondary queue may be one that erase and kill take back.                *)
Read(q, i) == IF q.buf[i] = NULL THEN Keys ELSE {q.buf[i]}
TakesBack(q) == IF EMPTY(q) THEN {FALSE} ELSE {k \notin Ends : k \in Read(q, (q.head - 1) % SIZE)}

(* A slip: an end that is not counted when it is not echoed.                *)
EnterUncounted(t, h) ==
  [t |-> [t EXCEPT !.data = IF h.c \in Ends /\ mode.echo THEN (@ + 1) % WORD ELSE @],
   h |-> [h EXCEPT !.todo = Echo(IF h.c = "nl" THEN 2 ELSE 1) \o <<"cook", "cooked", "test">>]]

(* An ordinary character, or an end of a line.  A newline is echoed as two. *)
Enter(t, h) ==
  [t |-> [t EXCEPT !.data = IF h.c \in Ends THEN (@ + 1) % WORD ELSE @],
   h |-> [h EXCEPT !.todo = Echo(IF h.c = "nl" THEN 2 ELSE 1) \o <<"cook", "cooked", "test">>]]

(* Erase takes one character back, kill goes on until there is none.        *)
TakeBack(t, h) ==
  {[t |-> t,
    h |-> [h EXCEPT !.todo = IF b THEN Echo(1) \o <<"back", "backed",
                                                    IF h.c = "kill" THEN "turn" ELSE "test">>
                             ELSE <<"test">>]] : b \in TakesBack(t.secondary)}

(* What copy_to_cooked() does with a character.  ISIG is set in the         *)
(* terminals that are canonical.                                            *)
Turn(t, h) ==
  IF mode.canon /\ h.c \in {"erase", "kill"} THEN TakeBack(t, h)
  ELSE IF mode.canon /\ h.c = "intr"
  THEN {[t |-> [t EXCEPT !.intr = TRUE], h |-> [h EXCEPT !.todo = <<"test">>]]}
  ELSE {Enter(t, h)}

(* An echo finds the queue full, or a process or an outer handler in the    *)
(* middle of a PUTCH or of con_write().                                     *)
Hits(t, outer) ==
  \/ FULL(t.write_q)
  \/ writer.pc \in {"stored", "con"}
  \/ \E i \in DOMAIN outer : Head(outer[i].todo) \in {"echoed", "con", "moved"}

(* One access of a handler to a queue.  GETCH and PUTCH move an end of the  *)
(* queue from a register, which may be out of date, or from memory.         *)
Access(t, h, outer) ==
  LET Go == [h EXCEPT !.todo = Tail(@)]
      From(q) == {h.reg, q}
  IN CASE Head(h.todo) = "test" ->
            {[t |-> t, h |-> [h EXCEPT !.todo = IF EMPTY(t.read_q) \/ FULL(t.secondary)
                                                 THEN <<>> ELSE <<"get">>]]}
       [] Head(h.todo) = "get" ->
            {[t |-> t, h |-> [h EXCEPT !.todo = <<"got">>, !.c = k, !.reg = t.read_q.tail]] :
               k \in Read(t.read_q, t.read_q.tail)}
       [] Head(h.todo) = "got" ->
            {[t |-> [t EXCEPT !.read_q.tail = INC(i)], h |-> [h EXCEPT !.todo = <<"turn">>]] :
               i \in From(t.read_q.tail)}
       [] Head(h.todo) = "turn" -> Turn(t, h)
       [] Head(h.todo) = "echo" ->
            {[t |-> [t EXCEPT !.torn = @ \/ Hits(t, outer)], h |-> [Go EXCEPT !.reg = t.write_q.head]]}
       [] Head(h.todo) = "echoed" ->
            {[t |-> [t EXCEPT !.write_q.buf[h.reg] = "e", !.write_q.head = INC(i),
                              !.out = Append(@, "e")], h |-> Go] : i \in From(t.write_q.head)}
       [] Head(h.todo) = "kick" -> {[t |-> Kick(t), h |-> Go]}
       [] Head(h.todo) = "count" ->
            {[t |-> t, h |-> [h EXCEPT !.todo[1] = "con", !.n = CHARS(t.write_q)]]}
       [] Head(h.todo) = "con" ->
            {[t |-> t, h |-> IF h.n = 0 THEN Go
                             ELSE [h EXCEPT !.todo[1] = "moved", !.n = @ - 1, !.reg = t.write_q.tail]]}
       [] Head(h.todo) = "moved" ->
            {[t |-> [t EXCEPT !.write_q.tail = INC(i), !.out = IF @ = <<>> THEN @ ELSE Tail(@)],
              h |-> [h EXCEPT !.todo[1] = "con"]] : i \in From(t.write_q.tail)}
       [] Head(h.todo) = "back" -> {[t |-> t, h |-> [Go EXCEPT !.reg = t.secondary.head]]}
       [] Head(h.todo) = "backed" ->
            {[t |-> [t EXCEPT !.secondary.head = (i - 1) % SIZE,
                              !.line = IF @ = <<>> THEN @ ELSE Front(@),
                              !.raced = @ \/ (reader.pc \in {"get", "got"} /\ CHARS(t.secondary) = 1)],
              h |-> Go] : i \in From(t.secondary.head)}
       [] Head(h.todo) = "cook" -> {[t |-> t, h |-> [Go EXCEPT !.reg = t.secondary.head]]}
       [] Head(h.todo) = "cooked" ->
            {[t |-> [t EXCEPT !.secondary.buf[h.reg] = h.c, !.secondary.head = INC(i),
                              !.line = Append(@, h.c)], h |-> Go] : i \in From(t.secondary.head)}

(* All of copy_to_cooked().                                                 *)
RECURSIVE CopyToCooked(_, _)
CopyToCooked(t, h) ==
  IF h.todo = <<>> THEN {t}
  ELSE UNION {CopyToCooked(a.t, a.h) : a \in Access(t, h, <<>>)}

(* The character is dropped if the read queue is full.                      *)
Arrived(t, c) == [t EXCEPT !.read_q = IF FULL(@) THEN @ ELSE Put(@, c)]

(* tty_intr() signals the group of the terminal, to which both belong.      *)
Cooked(t) ==
  /\ tty' = Forget([t EXCEPT !.intr = FALSE])
  /\ signal' = IF t.intr THEN {"R", "W"} ELSE signal

(* A slip: a reader is not woken.                                           *)
WakeNobody(awake) == asleep' = asleep

(* do_tty_interrupt() wakes a reader in any case.                           *)
WakeReader(awake) == asleep' = IF awake THEN asleep \ {"R"} ELSE asleep

(* read_char of a serial line.                                              *)
ReadChar(c) ==
  /\ ~mode.con
  /\ keys < MaxIn[mode]
  /\ keys' = keys + 1
  /\ \E t \in CopyToCooked(Arrived(tty, c), Activation) : Cooked(t)
  /\ WakeReader(TRUE)
  /\ UNCHANGED <<reader, writer, cpu, handlers, chars>>

(* keyboard_interrupt.  When it comes while a handler has a character in    *)
(* hand, the two characters change places, or worse.                        *)
KeyboardInterrupt(c) ==
  /\ mode.con
  /\ keys < MaxIn[mode]
  /\ Len(handlers) < MaxNest
  /\ keys' = keys + 1
  /\ tty' = Forget([Arrived(tty, c) EXCEPT
                      !.raced = @ \/ \E i \in DOMAIN handlers : Head(handlers[i].todo) # "test"])
  /\ handlers' = Append(handlers, Activation)
  /\ UNCHANGED <<pvars, signal, chars>>

(* The handler that came last goes on, or returns.                          *)
Handler ==
  /\ handlers # <<>>
  /\ \E a \in Access(tty, Last(handlers), Front(handlers)) :
       /\ Cooked(a.t)
       /\ handlers' = IF a.h.todo = <<>> THEN Front(handlers) ELSE Append(Front(handlers), a.h)
       /\ WakeReader(a.h.todo = <<>>)
  /\ UNCHANGED <<reader, writer, cpu, keys, chars>>

(* write_char: one character goes out, and a writer is woken when few, or   *)
(* none, are left.                                                          *)
WriteChar ==
  LET q == tty.write_q
      sent == IF EMPTY(q) THEN q ELSE [q EXCEPT !.tail = INC(@)]
  IN /\ tty.ier
     /\ tty' = Forget([tty EXCEPT !.write_q = sent, !.ier = ~EMPTY(sent),
                                  !.out = IF @ = <<>> THEN @ ELSE Tail(@)])
     /\ asleep' = IF CHARS(q) <= STARTUP \/ EMPTY(sent) THEN asleep \ {"W"} ELSE asleep
     /\ UNCHANGED <<reader, writer, cpu, signal, handlers, keys, chars>>
-----------------------------------------------------------------------------
(* p is in the kernel at l, or at the beginning of a call, and can run: no  *)
(* keyboard interrupt is being handled.                                     *)
At(p, r, l) == r.pc = l /\ p \notin asleep /\ cpu \in {p, NULL} /\ handlers = <<>>

(* An interruptible sleep ends with a signal; schedule() sees to it.        *)
Signalled(p) ==
  /\ p \in asleep /\ p \in signal /\ handlers = <<>>
  /\ asleep' = asleep \ {p}
  /\ UNCHANGED <<tty, reader, writer, cpu, signal, handlers, keys, chars>>

(* The signal is delivered on the way out.                                  *)
Delivered(p) ==
  /\ (IF p = "R" THEN reader ELSE writer).pc = "user" /\ p \in signal
  /\ handlers = <<>>
  /\ signal' = signal \ {p}
  /\ UNCHANGED <<tty, pvars, handlers, keys, chars>>

ReadReturn ==
  /\ reader' = [pc |-> "user", nr |-> 0, c |-> NULL]
  /\ cpu' = NULL

TtyRead(n) ==
  /\ At("R", reader, "user")
  /\ reader' = [reader EXCEPT !.pc = "top", !.nr = n]
  /\ cpu' = "R"
  /\ UNCHANGED <<tty, writer, asleep, signal, handlers, keys, chars>>

(* There is something to read: any character, or in canonical mode an end,  *)
(* or so many characters that there may be no room for one.                 *)
MayRead(t) ==
  /\ ~EMPTY(t.secondary)
  /\ mode.canon => t.data > 0 \/ LEFT(t.secondary) <= READ_LEFT

(* With something in the queue that may not be read yet, sleep_if_empty()   *)
(* returns at once, and tty_read() goes round without giving up the         *)
(* processor: nothing but an interrupt changes that.                        *)
Spins == reader.pc = "top" /\ cpu = "R" /\ "R" \notin signal
         /\ ~EMPTY(tty.secondary) /\ ~MayRead(tty)

(* The top of tty_read()'s loop.                                            *)
ReadTop ==
  /\ At("R", reader, "top") /\ ~Spins
  /\ \/ /\ "R" \in signal
        /\ ReadReturn
        /\ UNCHANGED asleep
     \/ /\ "R" \notin signal /\ EMPTY(tty.secondary)
        /\ asleep' = asleep \union {"R"}
        /\ cpu' = NULL
        /\ UNCHANGED reader
     \/ /\ "R" \notin signal /\ ~EMPTY(tty.secondary)
        /\ reader' = [reader EXCEPT !.pc = IF MayRead(tty) THEN "get" ELSE "top"]
        /\ cpu' = "R"
        /\ UNCHANGED asleep
  /\ UNCHANGED <<tty, writer, signal, handlers, keys, chars>>

(* GETCH: the character is read (behind a tail that has passed the head     *)
(* there may be any), then the tail is advanced ...                         *)
GetChar ==
  /\ At("R", reader, "get")
  /\ \E c \in Read(tty.secondary, tty.secondary.tail) :
       reader' = [reader EXCEPT !.pc = "got", !.c = c]
  /\ cpu' = "R"
  /\ UNCHANGED <<tty, writer, asleep, signal, handlers, keys, chars>>

(* ... the count of ends lowered by one instruction, and the character is   *)
(* given to the program, which wants more or not.                           *)
GotChar ==
  LET t == [tty EXCEPT !.secondary.tail = INC(@),
                       !.line = IF tty.raced THEN @ ELSE Tail(@),
                       !.data = IF reader.c \in Ends THEN (@ - 1) % WORD ELSE @]
      eof == reader.c = "eof" /\ mode.canon
  IN /\ At("R", reader, "got")
     /\ tty' = Forget(t)
     /\ \/ /\ eof \/ reader.nr = 1 \/ EMPTY(t.secondary)
           /\ ReadReturn
        \/ /\ ~eof /\ reader.nr > 1 /\ ~EMPTY(t.secondary)
           /\ reader' = [reader EXCEPT !.pc = "get", !.nr = @ - 1, !.c = NULL]
           /\ cpu' = "R"
     /\ UNCHANGED <<writer, asleep, signal, handlers, keys, chars>>
-----------------------------------------------------------------------------
WriteReturn ==
  /\ writer' = [pc |-> "user", nr |-> 0, reg |-> 0]
  /\ cpu' = NULL

TtyWrite(n) ==
  /\ At("W", writer, "user")
  /\ chars + n <= MaxOut[mode]
  /\ chars' = chars + n
  /\ writer' = [writer EXCEPT !.pc = "top", !.nr = n]
  /\ cpu' = "W"
  /\ UNCHANGED <<tty, reader, asleep, signal, handlers, keys>>

(* sleep_if_full() looks for a full queue and, once it is one, sleeps until *)
(* there is a good deal of room.                                            *)
WriteTop ==
  /\ At("W", writer, "top") \/ At("W", writer, "full")
  /\ LET sleeps == /\ "W" \notin signal
                   /\ IF writer.pc = "top" THEN FULL(tty.write_q)
                                           ELSE LEFT(tty.write_q) < WRITE_LEFT
     IN \/ /\ sleeps
           /\ asleep' = asleep \union {"W"}
           /\ writer' = [writer EXCEPT !.pc = "full"]
           /\ cpu' = NULL
        \/ /\ ~sleeps /\ "W" \in signal
           /\ WriteReturn
           /\ UNCHANGED asleep
        \/ /\ ~sleeps /\ "W" \notin signal
           /\ writer' = [writer EXCEPT !.pc = "fill"]
           /\ cpu' = "W"
           /\ UNCHANGED asleep
  /\ UNCHANGED <<tty, reader, signal, handlers, keys, chars>>

(* A slip: tty_write() that does not look whether there is room.            *)
PutCharUnchecked ==
  /\ At("W", writer, "fill")
  /\ writer.nr > 0
  /\ writer' = [writer EXCEPT !.pc = "stored", !.nr = @ - 1, !.reg = tty.write_q.head]
  /\ cpu' = "W"
  /\ UNCHANGED <<tty, reader, asleep, signal, handlers, keys, chars>>

(* PUTCH: the head is read, and the character stored there ...              *)
PutChar ==
  /\ At("W", writer, "fill")
  /\ writer.nr > 0 /\ ~FULL(tty.write_q)
  /\ writer' = [writer EXCEPT !.pc = "stored", !.nr = @ - 1, !.reg = tty.write_q.head]
  /\ cpu' = "W"
  /\ UNCHANGED <<tty, reader, asleep, signal, handlers, keys, chars>>

(* ... and the head advanced, from a register or from memory.  (The store   *)
(* is shown here: an echo in between takes the place anyway.)               *)
StoredChar ==
  /\ At("W", writer, "stored")
  /\ \E h \in {writer.reg, tty.write_q.head} :
       tty' = Forget([tty EXCEPT !.write_q.buf[writer.reg] = "w", !.write_q.head = INC(h),
                                 !.out = Append(@, "w")])
  /\ writer' = [writer EXCEPT !.pc = "fill", !.reg = 0]
  /\ cpu' = "W"
  /\ UNCHANGED <<reader, asleep, signal, handlers, keys, chars>>

(* A slip: rs_write() only when all is written.                             *)
WriteKickAtEnd ==
  /\ At("W", writer, "fill")
  /\ writer.nr = 0 \/ FULL(tty.write_q)
  /\ tty' = IF mode.con \/ writer.nr > 0 THEN tty ELSE Kick(tty)
  /\ writer' = [writer EXCEPT !.pc = IF mode.con THEN "con" ELSE "next", !.reg = CHARS(tty.write_q)]
  /\ cpu' = "W"
  /\ UNCHANGED <<reader, asleep, signal, handlers, keys, chars>>

(* tty->write(): rs_write(), or the beginning of con_write(), which takes   *)
(* nr down in a local variable.                                             *)
WriteKick ==
  /\ At("W", writer, "fill")
  /\ writer.nr = 0 \/ FULL(tty.write_q)
  /\ tty' = IF mode.con THEN tty ELSE Kick(tty)
  /\ writer' = [writer EXCEPT !.pc = IF mode.con THEN "con" ELSE "next", !.reg = CHARS(tty.write_q)]
  /\ cpu' = "W"
  /\ UNCHANGED <<reader, asleep, signal, handlers, keys, chars>>

(* con_write()'s loop.                                                      *)
ConWrite ==
  /\ At("W", writer, "con")
  /\ IF writer.reg = 0
     THEN writer' = [writer EXCEPT !.pc = "next"] /\ UNCHANGED tty
     ELSE /\ writer' = [writer EXCEPT !.reg = @ - 1]
          /\ tty' = Forget([tty EXCEPT !.write_q.tail = INC(@),
                                       !.out = IF @ = <<>> THEN @ ELSE Tail(@)])
  /\ cpu' = "W"
  /\ UNCHANGED <<reader, asleep, signal, handlers, keys, chars>>

(* tty_write() returns, or lets others run and goes on.                     *)
WriteNext ==
  /\ At("W", writer, "next")
  /\ IF writer.nr = 0 THEN WriteReturn
     ELSE writer' = [writer EXCEPT !.pc = "top", !.reg = 0] /\ cpu' = NULL
  /\ UNCHANGED <<tty, reader, asleep, signal, handlers, keys, chars>>

ReadStep == ReadTop \/ GetChar \/ GotChar \/ Signalled("R")
WriteStep == WriteTop \/ PutChar \/ StoredChar \/ WriteKick \/ ConWrite \/ WriteNext \/ Signalled("W")

Next ==
  /\ \/ \E c \in Keys : ReadChar(c) \/ KeyboardInterrupt(c)
     \/ Handler
     \/ WriteChar
     \/ \E n \in ReadSizes : TtyRead(n)
     \/ \E n \in WriteSizes : TtyWrite(n)
     \/ ReadStep \/ WriteStep
     \/ \E p \in {"R", "W"} : Delivered(p)
  /\ UNCHANGED mode

Spec == Init /\ [][Next]_vars

(* The handlers go on, the line sends what it is told to, and a process in  *)
(* the kernel goes on when it can.                                          *)
FairSpec ==
  /\ Spec
  /\ WF_vars(Handler /\ UNCHANGED mode)
  /\ WF_vars(WriteChar /\ UNCHANGED mode)
  /\ SF_vars(ReadStep /\ UNCHANGED mode)
  /\ SF_vars(WriteStep /\ UNCHANGED mode)
-----------------------------------------------------------------------------
(* Types.                                                                   *)
TypeOK ==
  /\ \A q \in {tty.read_q, tty.secondary, tty.write_q} : q.head \in Ring /\ q.tail \in Ring
  /\ tty.data \in 0 .. WORD - 1
  /\ reader.pc \in {"user", "top", "get", "got"} /\ reader.nr \in Nat
  /\ writer.pc \in {"user", "top", "full", "fill", "stored", "con", "next"} /\ writer.nr \in Nat
  /\ asleep \subseteq {"R", "W"} /\ signal \subseteq {"R", "W"}
  /\ cpu \in {"R", "W", NULL} /\ cpu \notin asleep
  /\ Len(handlers) <= MaxNest /\ (handlers # <<>> => mode.con)

(* The secondary queue holds what was typed and not taken back or read, in  *)
(* order, and its count is that of the ends in it, whatever instruction of  *)
(* tty_read() an interrupt hits; until a character is erased that a reader  *)
(* is just taking, having read on into an unfinished line, or a key         *)
(* interrupts the handler of another that has a character in hand           *)
(* (tty_io.c:149-225, 261-272).                                             *)
InputInOrder ==
  ~tty.raced =>
    /\ Content(tty.secondary) = tty.line
    /\ handlers = <<>> =>
         tty.data = Cardinality({i \in DOMAIN tty.line : tty.line[i] \in Ends})
    /\ reader.pc = "got" => tty.line # <<>> /\ reader.c = Head(tty.line)

(* The write queue holds what was written and echoed and not yet sent, in   *)
(* order, until an echo finds it full, or hits a process or another handler *)
(* inside PUTCH or con_write() (tty_io.c:212-224, 302-321; console.c:450-   *)
(* 452).                                                                    *)
OutputInOrder == ~tty.torn => Content(tty.write_q) = tty.out

(* A reader sleeps only when there is nothing to read, once the handlers    *)
(* have returned, and a writer only while the line is going to send         *)
(* something and wake it (tty_io.c:122-138, 227; rs_io.s:114-147).  On the  *)
(* console nobody would: there the queue is empty after every write, as     *)
(* long as it is in order.                                                  *)
SleepersWait ==
  /\ "R" \in asleep /\ handlers = <<>> => EMPTY(tty.secondary)
  /\ "W" \in asleep => tty.ier \/ "W" \in signal \/ (mode.con /\ tty.torn)

(* tty_read() with something to read returns, or finds at its top that an   *)
(* erase has taken it back: a nearly full queue may be read in canonical    *)
(* mode, a little less may not.  With a whole line in the queue, which      *)
(* nobody takes back, it returns (tty_io.c:249-283), unless a character has *)
(* got lost between two handlers.                                           *)
ReadEnds ==
  /\ reader.pc # "user" /\ MayRead(tty) ~>
       reader.pc = "user" \/ (reader.pc = "top" /\ ~MayRead(tty))
  /\ reader.pc # "user" /\ tty.data > 0 /\ ~EMPTY(tty.secondary) ~>
       reader.pc = "user" \/ tty.raced

(* tty_write() returns, unless a reader of half a line keeps the processor  *)
(* for itself (tty_io.c:256-259, 298-324).                                  *)
WriteEnds == writer.pc # "user" ~> writer.pc = "user" \/ Spins \/ (mode.con /\ tty.torn)

(* The input queue is in order and nobody sleeps for nothing                *)
(* (tty_io.c:122-138, 149-283).                                             *)
InputConsistent == TypeOK /\ InputInOrder /\ SleepersWait
=============================================================================
