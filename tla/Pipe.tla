-------------------------------- MODULE Pipe --------------------------------
(***************************************************************************)
(* linux-0.11/fs/pipe.c: a pipe between processes that inherit its two     *)
(* ends, read_pipe() and write_pipe() on a ring in one page, sys_pipe(),   *)
(* and what fork(), sys_close() and exit() do to the counts that tell      *)
(* whether there is anybody at the other end.                              *)
(*                                                                         *)
(* The kernel is not preempted: cpu is the process in it.  A process gives *)
(* the processor up when it sleeps on i_wait or when its user buffer is    *)
(* not in memory, so that the copy of a byte faults.  The k-th byte that   *)
(* write_pipe() takes has the value k.                                     *)
(***************************************************************************)
EXTENDS Integers, Sequences, FiniteSets, FiniteSetsExt

CONSTANTS
  Procs,      \* processes
  First,      \* the one that makes the pipe
  PAGE_SIZE,  \* bytes of the ring, a power of two
  Counts,     \* sizes of reads and writes
  Limit,      \* bound: bytes written to one pipe
  FaultLimit, \* the same in the scenario with faults
  Scenarios,  \* whether the copies to and from user memory may fault
  NULL

ASSUME PipeAssumption ==
  /\ IsFiniteSet(Procs) /\ First \in Procs
  /\ PAGE_SIZE \in Nat \ {0, 1}
  /\ Counts \subseteq Nat \ {0}
  /\ Limit \in Nat /\ FaultLimit \in 0 .. Limit
  /\ Scenarios \subseteq BOOLEAN
  /\ NULL \notin Procs

VARIABLES
  ring, head, tail,  \* the page, PIPE_HEAD and PIPE_TAIL
  i_count,           \* ends that are open
  f_count,           \* descriptors of each end
  fds,               \* the ends each process has a descriptor of
  pc, loc,           \* where a process is, and its local variables
  asleep,            \* the processes on i_wait
  cpu,               \* the process in the kernel, or NULL
  signalled,         \* the processes with a SIGPIPE
  sent, got,         \* history: bytes taken by writes, bytes given by reads
  faults             \* the scenario, which does not change

pipe == <<ring, head, tail>>
counts == <<i_count, f_count, fds>>
hist == <<sent, got>>
vars == <<pipe, counts, pc, loc, asleep, cpu, signalled, hist, faults>>

Ends == {"r", "w"}
Ring == 0 .. PAGE_SIZE - 1

NoLoc == [left |-> 0, pos |-> 0, chars |-> 0, val |-> 0]

Init ==
  /\ ring = [i \in Ring |-> 0] /\ head = 0 /\ tail = 0
  /\ i_count = 0
  /\ f_count = [x \in Ends |-> 0]
  /\ fds = [p \in Procs |-> {}]
  /\ pc = [p \in Procs |-> IF p = First THEN "user" ELSE "none"]
  /\ loc = [p \in Procs |-> NoLoc]
  /\ asleep = {}
  /\ cpu = NULL
  /\ signalled = {}
  /\ sent = 0 /\ got = <<>>
  /\ faults \in Scenarios
-----------------------------------------------------------------------------
PIPE_SIZE == (head - tail) % PAGE_SIZE

At(p, l) == pc[p] = l /\ p \notin asleep /\ cpu \in {p, NULL}

Goto(p, l) == pc' = [pc EXCEPT ![p] = l] /\ cpu' = p

(* p goes on at l, but others may run before.                               *)
Yield(p, l) == pc' = [pc EXCEPT ![p] = l] /\ cpu' = NULL

Return(p) == Yield(p, "user") /\ loc' = [loc EXCEPT ![p] = NoLoc]

(* get_free_page() clears the page, get_pipe_inode() the two pointers.      *)
NewPage ==
  /\ ring' = [i \in Ring |-> 0] /\ head' = 0 /\ tail' = 0
  /\ sent' = 0 /\ got' = <<>>

(* sys_pipe() has two entries of the file table and two descriptors, and    *)
(* may sleep in get_pipe_inode() ...                                        *)
SysPipe(p) ==
  /\ At(p, "user")
  /\ f_count = [x \in Ends |-> 0]
  /\ f_count' = [x \in Ends |-> 1]
  /\ fds' = [fds EXCEPT ![p] = Ends]
  /\ Yield(p, "pipe")
  /\ UNCHANGED <<pipe, i_count, loc, asleep, signalled, hist>>

(* ... which gives it an inode, or makes it give all of them back.          *)
PipeInode(p) ==
  /\ At(p, "pipe")
  /\ \/ /\ i_count' = 2
        /\ NewPage
        /\ UNCHANGED <<f_count, fds>>
     \/ /\ f_count' = [x \in Ends |-> 0]
        /\ fds' = [fds EXCEPT ![p] = {}]
        /\ UNCHANGED <<pipe, i_count, hist>>
  /\ Return(p)
  /\ UNCHANGED <<asleep, signalled>>

(* A slip: copy_process() that does not count the descriptors.              *)
ForkUncounted(p, q) ==
  /\ At(p, "user") /\ pc[q] = "none"
  /\ fds' = [fds EXCEPT ![q] = fds[p]]
  /\ pc' = [pc EXCEPT ![q] = "user"]
  /\ UNCHANGED <<pipe, i_count, f_count, loc, asleep, cpu, signalled, hist>>

(* copy_process(): the child has the descriptors of its father.             *)
Fork(p, q) ==
  /\ At(p, "user") /\ pc[q] = "none"
  /\ fds' = [fds EXCEPT ![q] = fds[p]]
  /\ f_count' = [x \in Ends |-> f_count[x] + IF x \in fds[p] THEN 1 ELSE 0]
  /\ pc' = [pc EXCEPT ![q] = "user"]
  /\ UNCHANGED <<pipe, i_count, loc, asleep, cpu, signalled, hist>>

(* A slip: iput() of a pipe that wakes nobody.                              *)
CloseEndsSilently(p, E) ==
  LET gone == {x \in E : f_count[x] = 1} IN
  /\ fds' = [fds EXCEPT ![p] = @ \ E]
  /\ f_count' = [x \in Ends |-> f_count[x] - IF x \in E THEN 1 ELSE 0]
  /\ i_count' = i_count - Cardinality(gone)
  /\ IF gone # {} /\ i_count' = 0 THEN NewPage ELSE UNCHANGED <<pipe, hist>>
  /\ UNCHANGED <<loc, asleep>>

(* sys_close() of the descriptors E of p.  The last one of an end calls     *)
(* iput(), which wakes whoever waits for the other end and frees the page   *)
(* with the second end.  (Its contents do not matter then.)                 *)
CloseEnds(p, E) ==
  LET gone == {x \in E : f_count[x] = 1} IN
  /\ fds' = [fds EXCEPT ![p] = @ \ E]
  /\ f_count' = [x \in Ends |-> f_count[x] - IF x \in E THEN 1 ELSE 0]
  /\ i_count' = i_count - Cardinality(gone)
  /\ asleep' = IF gone = {} THEN asleep ELSE {}
  /\ IF gone # {} /\ i_count' = 0 THEN NewPage ELSE UNCHANGED <<pipe, hist>>
  /\ UNCHANGED loc

Close(p, x) ==
  /\ At(p, "user") /\ x \in fds[p]
  /\ CloseEnds(p, {x})
  /\ Yield(p, "user")
  /\ UNCHANGED signalled

(* do_exit() closes what is open; the signals go with the task.             *)
Exit(p) ==
  /\ At(p, "user")
  /\ CloseEnds(p, fds[p])
  /\ Yield(p, "none")
  /\ signalled' = signalled \ {p}
-----------------------------------------------------------------------------
(* The bytes that writes have still to move, which the bound counts.        *)
Unwritten ==
  MapThenSumSet(LAMBDA q : IF pc[q] \in {"w", "wcopy"} THEN loc[q].left ELSE 0, Procs)

(* sys_read() and sys_write() of n bytes.                                   *)
Begin(p, x, n) ==
  /\ At(p, "user") /\ x \in fds[p]
  /\ x = "w" => sent + n + Unwritten <= IF faults THEN FaultLimit ELSE Limit
  /\ loc' = [loc EXCEPT ![p].left = n]
  /\ Goto(p, x)
  /\ UNCHANGED <<pipe, counts, asleep, signalled, hist>>

(* Nothing can be moved: the pipe is empty, for a reader, or full.          *)
Room(x) == IF x = "r" THEN PIPE_SIZE ELSE PAGE_SIZE - 1 - PIPE_SIZE

(* The other side is woken, and p sleeps if there is one ...                *)
Block(p, x) ==
  /\ At(p, x)
  /\ loc[p].left > 0 /\ Room(x) = 0
  /\ i_count = 2
  /\ asleep' = {p}
  /\ Yield(p, x)
  /\ UNCHANGED <<pipe, counts, loc, signalled, hist>>

(* ... or returns what it has, a writer with a signal.                      *)
OtherEndClosed(p, x) ==
  /\ At(p, x)
  /\ loc[p].left > 0 /\ Room(x) = 0
  /\ i_count # 2
  /\ asleep' = {}
  /\ signalled' = IF x = "w" THEN signalled \union {p} ELSE signalled
  /\ Return(p)
  /\ UNCHANGED <<pipe, counts, hist>>

(* The bytes of one turn of the loop, up to the end of the page.            *)
Chars(p, x) == Min({PAGE_SIZE - (IF x = "r" THEN tail ELSE head), loc[p].left, Room(x)})

(* & (PAGE_SIZE-1)                                                          *)
Masked(n) == n % PAGE_SIZE

(* Copying n bytes at pos of the ring, in either direction.                 *)
CopyOut(pos, n) ==
  /\ got' = got \o [i \in 1 .. n |-> ring[pos + i - 1]]
  /\ UNCHANGED <<ring, sent>>

CopyIn(pos, n, val) ==
  /\ ring' = [i \in Ring |-> IF i \in pos .. pos + n - 1 THEN val + i - pos ELSE ring[i]]
  /\ UNCHANGED got

(* One turn of read_pipe()'s loop: the tail moves before the bytes are      *)
(* copied.  j bytes are copied at once; if that is not all, the next one    *)
(* faults.                                                                  *)
ReadTurn(p) ==
  LET n == Chars(p, "r") IN
  /\ At(p, "r")
  /\ loc[p].left > 0 /\ PIPE_SIZE > 0
  /\ tail' = Masked(tail + n)
  /\ \E j \in IF faults THEN 0 .. n ELSE {n} :
       /\ CopyOut(tail, j)
       /\ loc' = [loc EXCEPT ![p] = [left |-> loc[p].left - n, pos |-> IF j = n THEN 0 ELSE tail + j,
                                     chars |-> n - j, val |-> 0]]
       /\ IF j = n THEN Goto(p, "r") ELSE Yield(p, "rcopy")
  /\ UNCHANGED <<head, counts, asleep, signalled>>

(* A slip: the end of the page is forgotten, and bytes fall past it.        *)
WriteTurnPast(p) ==
  LET n == Min({loc[p].left, Room("w")}) IN
  /\ At(p, "w")
  /\ loc[p].left > 0 /\ Room("w") > 0
  /\ head' = Masked(head + n)
  /\ sent' = sent + n
  /\ CopyIn(head, n, sent + 1)
  /\ loc' = [loc EXCEPT ![p] = [@ EXCEPT !.left = @ - n]]
  /\ Goto(p, "w")
  /\ UNCHANGED <<tail, counts, asleep, signalled>>

(* One turn of write_pipe()'s loop: the same for the head.                  *)
WriteTurn(p) ==
  LET n == Chars(p, "w") IN
  /\ At(p, "w")
  /\ loc[p].left > 0 /\ Room("w") > 0
  /\ head' = Masked(head + n)
  /\ sent' = sent + n
  /\ \E j \in IF faults THEN 0 .. n ELSE {n} :
       /\ CopyIn(head, j, sent + 1)
       /\ loc' = [loc EXCEPT ![p] = [left |-> loc[p].left - n, pos |-> head + j,
                                     chars |-> n - j, val |-> sent + 1 + j]]
       /\ IF j = n THEN Goto(p, "w") ELSE Yield(p, "wcopy")
  /\ UNCHANGED <<tail, counts, asleep, signalled>>

(* The page is there, and the rest is copied.                               *)
ReadCopy(p) ==
  /\ At(p, "rcopy")
  /\ CopyOut(loc[p].pos, loc[p].chars)
  /\ loc' = [loc EXCEPT ![p] = [NoLoc EXCEPT !.left = loc[p].left]]
  /\ Goto(p, "r")
  /\ UNCHANGED <<head, tail, counts, asleep, signalled>>

WriteCopy(p) ==
  /\ At(p, "wcopy")
  /\ CopyIn(loc[p].pos, loc[p].chars, loc[p].val)
  /\ loc' = [loc EXCEPT ![p] = [NoLoc EXCEPT !.left = loc[p].left]]
  /\ Goto(p, "w")
  /\ UNCHANGED <<head, tail, counts, asleep, signalled, sent>>

(* All bytes are moved.                                                     *)
Done(p, x) ==
  /\ At(p, x)
  /\ loc[p].left = 0
  /\ asleep' = {}
  /\ Return(p)
  /\ UNCHANGED <<pipe, counts, signalled, hist>>

(* What p does inside a call.                                               *)
Step(p) ==
  \/ PipeInode(p)
  \/ \E x \in Ends : Block(p, x) \/ OtherEndClosed(p, x) \/ Done(p, x)
  \/ ReadTurn(p) \/ WriteTurn(p) \/ ReadCopy(p) \/ WriteCopy(p)

Next ==
  /\ \E p \in Procs :
       \/ SysPipe(p) \/ Exit(p)
       \/ \E q \in Procs : Fork(p, q)
       \/ \E x \in Ends : Close(p, x)
       \/ \E x \in Ends, n \in Counts : Begin(p, x, n)
       \/ Step(p)
  /\ UNCHANGED faults

Spec == Init /\ [][Next]_vars

(* A process that can go on in the kernel whenever the others leave it does *)
(* so in the end: the counters of those that do not run are refilled, and   *)
(* schedule() takes the largest.                                            *)
FairSpec == Spec /\ \A p \in Procs : SF_vars(Step(p) /\ UNCHANGED faults)
-----------------------------------------------------------------------------
(* Types.                                                                   *)
TypeOK ==
  /\ ring \in [Ring -> Nat]
  /\ head \in Ring /\ tail \in Ring
  /\ i_count \in 0 .. 2
  /\ f_count \in [Ends -> Nat]
  /\ fds \in [Procs -> SUBSET Ends]
  /\ pc \in [Procs -> {"none", "user", "pipe", "rcopy", "wcopy"} \union Ends]
  /\ loc \in [Procs -> [left : Nat, pos : Nat, chars : Nat, val : Nat]]
  /\ asleep \subseteq Procs /\ signalled \subseteq Procs
  /\ cpu \in Procs \union {NULL}
  /\ sent \in Nat /\ got \in Seq(Nat)

InPipe == [i \in 1 .. PIPE_SIZE |-> ring[(tail + i - 1) % PAGE_SIZE]]

(* What has been read and what is still in the pipe are the bytes written,  *)
(* in their order, with any number of readers and writers, as long as no    *)
(* copy sleeps in the middle (pipe.c:13-38, 41-69).                         *)
FirstInFirstOut == ~faults => got \o InPipe = [i \in 1 .. sent |-> i]

(* The counts that read_pipe() and write_pipe() take for "is there anybody  *)
(* at the other end" are right: an end is counted as long as some process   *)
(* has it, and a process inside a call has its end (pipe.c:20, 47, 86-106;  *)
(* fork.c:120-122; open.c:203-206; inode.c:157-166).                        *)
CountsAreEnds ==
  /\ \A x \in Ends : f_count[x] = Cardinality({p \in Procs : x \in fds[p]})
  /\ (~\E p \in Procs : pc[p] = "pipe") => i_count = Cardinality({x \in Ends : f_count[x] > 0})
  /\ \A p \in Procs : /\ pc[p] \in {"r", "rcopy"} => "r" \in fds[p]
                      /\ pc[p] \in {"w", "wcopy"} => "w" \in fds[p]

(* Nobody sleeps for nothing: a sleeper has nothing to move and both ends   *)
(* are open, or somebody is on the way who will wake it (pipe.c:18-23, 37,  *)
(* 45-52, 67; inode.c:158).                                                 *)
SleepersWait ==
  \A p \in asleep :
    /\ i_count = 2
    /\ \/ Room(pc[p]) = 0
       \/ \E q \in Procs \ asleep : pc[q] \in {"r", "w", "rcopy", "wcopy"}

(* When the other end is closed, a process in a read or a write gets out of *)
(* it, also when it was asleep (pipe.c:20, 47; inode.c:157-160).            *)
ClosedEndReturns ==
  \A p \in Procs : i_count = 1 /\ pc[p] \in Ends ~> pc[p] = "user"

(* The counts of ends are right, and nobody sleeps whom they, or the        *)
(* pointers, would let go on (pipe.c:18-23, 45-52, inode.c:157-166).        *)
EndsConsistent == TypeOK /\ CountsAreEnds /\ SleepersWait
=============================================================================
