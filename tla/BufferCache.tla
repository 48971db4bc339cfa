----------------------------- MODULE BufferCache -----------------------------
(***************************************************************************)
(* linux-0.11/fs/buffer.c with the part of kernel/blk_drv/ll_rw_blk.c and  *)
(* blk.h that changes a buffer head: getblk(), get_hash_table(), bread(),  *)
(* breada(), brelse(), sync_dev(), sys_sync(), ll_rw_block() and           *)
(* end_request(), called as file_read(), file_write() and block_write()    *)
(* call them.                                                              *)
(*                                                                         *)
(* The kernel is not preempted: once a process runs in it, cpu, no other   *)
(* process does until it sleeps or returns.  Only the disk interrupt comes *)
(* in between, at any point where a step of this module ends.  A process   *)
(* that sleeps is woken by wake_up() on its channel and then tests again   *)
(* what it waited for.  WaitQueue.tla shows that wake_up() wakes all the   *)
(* sleepers of a channel as long as it does not come in the middle of      *)
(* sleep_on().  wait_on_buffer() calls sleep_on() with interrupts disabled *)
(* and no interrupt wakes buffer_wait, but make_request() sleeps for a     *)
(* slot with interrupts enabled: there sleep_on() takes three steps.       *)
(*                                                                         *)
(* One device.  A buffer of device 0, as buffer_init() makes them, has     *)
(* block NoBlock.  The contents of a block are one value.                  *)
(***************************************************************************)
EXTENDS Integers, Sequences, FiniteSets, SequencesExt

CONSTANTS
  Procs,        \* processes
  NB,           \* NR_BUFFERS
  Blocks,       \* block numbers of the device
  Vals,         \* contents of a block
  NR_REQUEST,   \* entries of the request table
  Ops,          \* bound: the calls each process makes
  IOErrors,     \* whether the disk may fail
  NULL

Calls == {"read", "write", "fault_write", "raw_write", "read_ahead", "sync"}

ASSUME CacheAssumption ==
  /\ NB \in Nat \ {0}
  /\ Blocks \subseteq Nat
  /\ NR_REQUEST \in Nat \ {0}
  /\ IOErrors \in BOOLEAN
  /\ IsFiniteSet(Procs)
  /\ NULL \notin Procs \union Vals
  /\ Ops \in [Procs -> SUBSET Calls]

VARIABLES
  buf,         \* the buffer heads
  free_list,   \* all of them, least recently assigned first
  request,     \* the request table: command and buffer of each slot
  queue,       \* current_request and its successors
  xfer,        \* what the current request, a write, was started with
  disk,        \* what the disk holds
  pc,          \* where a process is
  loc,         \* its arguments and local variables
  wait,        \* the channel it sleeps on
  cpu,         \* the process in the kernel, NULL if none is
  val,         \* what it has read in this call
  last         \* history: what was last written to each block

bvars == <<buf, free_list>>
dvars == <<request, queue, xfer, disk>>
pvars == <<pc, loc, wait, cpu, val>>
vars == <<bvars, dvars, pvars, last>>

Bufs == 1 .. NB
Slots == 1 .. NR_REQUEST
NoBlock == -1
NoBuf == 0
READ == 0
WRITE == 1
READA == 2

(* sync_dev() in one count: its first round over the buffers, the call of   *)
(* sync_inodes(), its second round.                                         *)
SyncInodesCall == NB + 1
SyncEnd == 2 * NB + 1

Awake == <<"awake", 0>>
BWait(b) == <<"b_wait", b>>
BufferWait == <<"buffer_wait", 0>>

(* sleep_on(&wait_for_request): the search has failed, the process is in    *)
(* wait_for_request but has not set its state, it sleeps.  The mark is 1    *)
(* when a slot has been freed since the search.                             *)
Stage(s) == {<<s, 0>>, <<s, 1>>}
Searched == Stage("searched")
Entered == Stage("entered")
WaitForRequest == Stage("wait_for_request")

(* Asleep, or about to be, and no longer reachable from wait_for_request.   *)
Lost == <<"lost", 0>>

(* A slot was freed, and this process does not know.                        *)
Missed == {<<s, 1>> : s \in {"searched", "entered", "wait_for_request"}} \union {Lost}

Channels == {Awake, BufferWait, Lost} \union Searched \union Entered \union WaitForRequest
            \union {BWait(b) : b \in Bufs}

NoLoc == [op |-> "none", first |-> NoBlock, ahead |-> NoBlock, blk |-> NoBlock,
          bh |-> NoBuf, keep |-> NoBuf, i |-> 1, tgt |-> NoBuf, cmd |-> READ,
          ret |-> "user"]

(* buffer_init(), blk_dev_init().                                           *)
Init ==
  /\ buf = [b \in Bufs |-> [block |-> NoBlock, count |-> 0, dirt |-> FALSE,
                            lock |-> FALSE, uptodate |-> FALSE, data |-> NULL]]
  /\ free_list = [b \in Bufs |-> b]
  /\ request = [s \in Slots |-> [cmd |-> READ, bh |-> NoBuf]]
  /\ queue = <<>>
  /\ xfer = NULL
  /\ disk \in [Blocks -> Vals]
  /\ pc = [p \in Procs |-> "user"]
  /\ loc = [p \in Procs |-> NoLoc]
  /\ wait = [p \in Procs |-> Awake]
  /\ cpu = NULL
  /\ val = [p \in Procs |-> NULL]
  /\ last = disk
-----------------------------------------------------------------------------
(* p executes its step l.                                                   *)
At(p, l) == pc[p] = l /\ wait[p] = Awake /\ cpu \in {p, NULL}

(* p stays in the kernel and goes on at l.                                  *)
Goto(p, l) == pc' = [pc EXCEPT ![p] = l] /\ cpu' = p

(* p goes on at l, but may give up the processor first: it touches user     *)
(* memory, which may fault, or it leaves the kernel.                        *)
Yield(p, l) == pc' = [pc EXCEPT ![p] = l] /\ cpu' = NULL

(* sleep_on(ch); p goes on at l when it is woken.                           *)
SleepOn(p, ch, l) ==
  /\ wait' = [wait EXCEPT ![p] = ch]
  /\ pc' = [pc EXCEPT ![p] = l]
  /\ cpu' = NULL

(* A slip: wake_up() that wakes a single sleeper.                           *)
WakeUpOne(ws, ch) ==
  IF \E p \in Procs : ws[p] = ch
    THEN [ws EXCEPT ![CHOOSE p \in Procs : ws[p] = ch] = Awake]
    ELSE ws

WakeUp(ws, ch) == [p \in Procs |-> IF ws[p] = ch THEN Awake ELSE ws[p]]

(* A hash chain holds the buffers of its blocks, the last assigned first:   *)
(* the opposite of their order in the free list.                            *)
FindBuffer(k) ==
  LET i == SelectLastInSeq(free_list, LAMBDA b : buf[b].block = k)
  IN IF i = 0 THEN NoBuf ELSE free_list[i]

BADNESS(b) == (IF buf[b].dirt THEN 2 ELSE 0) + (IF buf[b].lock THEN 1 ELSE 0)

(* The request table as RequestQueue.tla sees it.                           *)
RequestView ==
  [s \in Slots |-> [cmd |-> request[s].cmd,
                    block |-> IF request[s].bh = NoBuf THEN NoBlock
                              ELSE buf[request[s].bh].block]]

RQ == INSTANCE RequestQueue WITH request <- RequestView
-----------------------------------------------------------------------------
Begin(p, op, k) ==
  /\ pc[p] = "user"
  /\ cpu = NULL
  /\ \E a \in IF op = "read_ahead" THEN Blocks \ {k} ELSE {NoBlock} :
       loc' = [loc EXCEPT ![p] = [NoLoc EXCEPT !.op = op, !.first = k, !.blk = k, !.ahead = a]]
  /\ Goto(p, "hash")
  /\ UNCHANGED <<bvars, dvars, wait, val, last>>

(* sys_sync(): sync_inodes() and the second round of sync_dev().            *)
BeginSync(p) ==
  /\ "sync" \in Ops[p]
  /\ pc[p] = "user"
  /\ cpu = NULL
  /\ loc' = [loc EXCEPT ![p] = [NoLoc EXCEPT !.op = "sync", !.i = SyncInodesCall]]
  /\ Goto(p, "sync")
  /\ UNCHANGED <<bvars, dvars, wait, val, last>>

(* get_hash_table(), called first by getblk().                              *)
Hash(p) ==
  LET b == FindBuffer(loc[p].blk) IN
  /\ At(p, "hash")
  /\ loc' = [loc EXCEPT ![p].bh = b]
  /\ IF b = NoBuf
       THEN Goto(p, "scan") /\ UNCHANGED buf
       ELSE Goto(p, "hashwait") /\ buf' = [buf EXCEPT ![b].count = @ + 1]
  /\ UNCHANGED <<free_list, dvars, wait, val, last>>

(* wait_on_buffer(bh).                                                      *)
WaitOnBuffer(p, b, l) ==
  /\ At(p, l)
  /\ buf[b].lock
  /\ SleepOn(p, BWait(b), l)
  /\ UNCHANGED <<bvars, dvars, loc, val, last>>

HashWait(p) ==
  LET b == loc[p].bh IN
  /\ At(p, "hashwait")
  /\ ~buf[b].lock
  /\ IF buf[b].block = loc[p].blk
       THEN Goto(p, "got") /\ UNCHANGED buf
       ELSE Goto(p, "hash") /\ buf' = [buf EXCEPT ![b].count = @ - 1]
  /\ UNCHANGED <<free_list, dvars, loc, wait, val, last>>

(* The loop over the free list: the first of the least bad unused buffers.  *)
Scan(p) ==
  LET unused == {i \in Bufs : buf[free_list[i]].count = 0}
      Better(i, j) == \/ BADNESS(free_list[i]) < BADNESS(free_list[j])
                      \/ BADNESS(free_list[i]) = BADNESS(free_list[j]) /\ i < j
  IN
  /\ At(p, "scan")
  /\ \/ /\ unused = {}
        /\ SleepOn(p, BufferWait, "hash")
        /\ UNCHANGED loc
     \/ \E i \in unused :
          /\ \A j \in unused \ {i} : Better(i, j)
          /\ loc' = [loc EXCEPT ![p].bh = free_list[i]]
          /\ Goto(p, "victim")
          /\ UNCHANGED wait
  /\ UNCHANGED <<bvars, dvars, val, last>>

(* getblk() gives the buffer up: somebody else uses it, or has brought the  *)
(* block into the cache.                                                    *)
Repeat(p) ==
  LET b == loc[p].bh IN
  /\ At(p, "victim")
  /\ ~buf[b].lock
  /\ \/ buf[b].count > 0
     \/ ~buf[b].dirt /\ FindBuffer(loc[p].blk) # NoBuf
  /\ Goto(p, "hash")
  /\ UNCHANGED <<bvars, dvars, loc, wait, val, last>>

(* getblk() has to write the buffer, and with it all others of the device.  *)
CleanVictim(p) ==
  LET b == loc[p].bh IN
  /\ At(p, "victim")
  /\ ~buf[b].lock /\ buf[b].count = 0 /\ buf[b].dirt
  /\ loc' = [loc EXCEPT ![p].i = 1]
  /\ Goto(p, "sync")
  /\ UNCHANGED <<bvars, dvars, wait, val, last>>

(* getblk() assigns the buffer to the block, at the end of the free list.   *)
(* The old contents stay in it; NULL stands for any contents that are not   *)
(* the block's.                                                             *)
Assign(p) ==
  LET b == loc[p].bh IN
  /\ buf' = [buf EXCEPT ![b].count = 1, ![b].dirt = FALSE, ![b].uptodate = FALSE,
                        ![b].block = loc[p].blk, ![b].data = NULL]
  /\ free_list' = Append(RemoveFirst(free_list, b), b)
  /\ Goto(p, "got")
  /\ UNCHANGED <<dvars, loc, wait, val, last>>

(* Slips: one of the tests that getblk() makes before is missing.           *)
TakeNoRecheck(p) ==
  LET b == loc[p].bh IN
  /\ At(p, "victim") /\ ~buf[b].lock /\ buf[b].count = 0 /\ ~buf[b].dirt
  /\ Assign(p)

TakeUsed(p) ==
  LET b == loc[p].bh IN
  /\ At(p, "victim") /\ ~buf[b].lock /\ ~buf[b].dirt
  /\ FindBuffer(loc[p].blk) = NoBuf
  /\ Assign(p)

TakeDirty(p) ==
  LET b == loc[p].bh IN
  /\ At(p, "victim") /\ ~buf[b].lock /\ buf[b].count = 0
  /\ FindBuffer(loc[p].blk) = NoBuf
  /\ Assign(p)

Take(p) ==
  LET b == loc[p].bh IN
  /\ At(p, "victim")
  /\ ~buf[b].lock /\ buf[b].count = 0 /\ ~buf[b].dirt
  /\ FindBuffer(loc[p].blk) = NoBuf
  /\ Assign(p)
-----------------------------------------------------------------------------
(* sync_dev() goes on at i.  An unlocked clean buffer is passed over.       *)
SyncBuf(i) == IF i <= NB THEN i ELSE i - SyncInodesCall

SyncTodo(p) ==
  {i \in loc[p].i .. SyncEnd :
     \/ i = SyncInodesCall
     \/ LET b == SyncBuf(i) IN buf[b].block # NoBlock /\ (buf[b].lock \/ buf[b].dirt)}

SyncWait(p) ==
  /\ At(p, "sync")
  /\ SyncTodo(p) # {}
  /\ LET i == Min(SyncTodo(p)) IN
       /\ i # SyncInodesCall
       /\ buf[SyncBuf(i)].lock
       /\ SleepOn(p, BWait(SyncBuf(i)), "sync")
       /\ loc' = [loc EXCEPT ![p].i = i]
  /\ UNCHANGED <<bvars, dvars, val, last>>

SyncWrite(p) ==
  /\ At(p, "sync")
  /\ SyncTodo(p) # {}
  /\ LET i == Min(SyncTodo(p)) IN
       /\ i # SyncInodesCall
       /\ ~buf[SyncBuf(i)].lock
       /\ loc' = [loc EXCEPT ![p].i = i + 1, ![p].tgt = SyncBuf(i),
                             ![p].cmd = WRITE, ![p].ret = "sync"]
  /\ Goto(p, "ll")
  /\ UNCHANGED <<bvars, dvars, wait, val, last>>

(* sync_inodes() may sleep on any inode's lock and in bread().  What it     *)
(* writes into the inodes' buffers are writes like those of file_write():   *)
(* other processes make them.  It is taken to return (InodeCache.tla shows  *)
(* when it does not).                                                       *)
SyncInodes(p) ==
  /\ At(p, "sync")
  /\ SyncTodo(p) # {}
  /\ Min(SyncTodo(p)) = SyncInodesCall
  /\ loc' = [loc EXCEPT ![p].i = SyncInodesCall + 1]
  /\ Yield(p, "sync")
  /\ UNCHANGED <<bvars, dvars, wait, val, last>>

(* Back to getblk(), which waits for its buffer and tests it again, or to   *)
(* the caller of sync().                                                    *)
SyncDone(p) ==
  /\ At(p, "sync")
  /\ SyncTodo(p) = {}
  /\ IF loc[p].op = "sync" THEN Yield(p, "user") ELSE Goto(p, "victim")
  /\ loc' = [loc EXCEPT ![p].i = 1]
  /\ UNCHANGED <<bvars, dvars, wait, val, last>>
-----------------------------------------------------------------------------
(* ll_rw_block() returns to its caller.                                     *)
LLReturn(p) ==
  /\ loc' = [loc EXCEPT ![p].tgt = NoBuf, ![p].cmd = READ, ![p].ret = "user"]
  /\ Goto(p, loc[p].ret)

Command(p) == IF loc[p].cmd = READA THEN READ ELSE loc[p].cmd

(* Nothing to do, or not worth waiting for when reading ahead.              *)
LLSkip(p) ==
  LET b == loc[p].tgt IN
  /\ At(p, "ll")
  /\ IF buf[b].lock
       THEN loc[p].cmd = READA
       ELSE \/ Command(p) = WRITE /\ ~buf[b].dirt
            \/ Command(p) = READ /\ buf[b].uptodate
            \/ loc[p].cmd = READA /\ RQ!FindSlot(RequestView, READ) = 0
  /\ wait' = IF buf[b].lock THEN wait ELSE WakeUp(wait, BWait(b))
  /\ LLReturn(p)
  /\ UNCHANGED <<bvars, dvars, val, last>>

(* There is something to do for the buffer.                                 *)
LLNeeded(p) ==
  LET b == loc[p].tgt IN
  IF Command(p) = WRITE THEN buf[b].dirt ELSE ~buf[b].uptodate

(* No slot is found: make_request() is about to sleep.                      *)
NoSlot(p) ==
  /\ RQ!FindSlot(RequestView, Command(p)) = 0
  /\ wait' = [wait EXCEPT ![p] = <<"searched", 0>>]
  /\ Goto(p, "slot")
  /\ UNCHANGED <<free_list, dvars, loc, val, last>>

(* lock_buffer(), which no caller makes wait (see LockHasOneOwner), comes   *)
(* before the first search.                                                 *)
LLNoSlot(p) ==
  LET b == loc[p].tgt IN
  /\ At(p, "ll")
  /\ loc[p].cmd # READA
  /\ ~buf[b].lock
  /\ LLNeeded(p)
  /\ buf' = [buf EXCEPT ![b].lock = TRUE]
  /\ NoSlot(p)

SlotWait(p) == At(p, "slot") /\ NoSlot(p) /\ UNCHANGED buf

(* sleep_on(&wait_for_request): *p = current ...                            *)
SlotEnter(p) ==
  /\ pc[p] = "slot"
  /\ wait[p] \in Searched
  /\ wait' = [wait EXCEPT ![p] = <<"entered", @[2]>>]
  /\ UNCHANGED <<bvars, dvars, pc, loc, cpu, val, last>>

(* ... and the state and schedule().                                        *)
SlotSleep(p) ==
  /\ pc[p] = "slot"
  /\ cpu = p
  /\ wait[p] \in Entered \union {Lost}
  /\ wait' = [wait EXCEPT ![p] = IF @ = Lost THEN Lost ELSE <<"wait_for_request", @[2]>>]
  /\ cpu' = NULL
  /\ UNCHANGED <<bvars, dvars, pc, loc, val, last>>

(* wake_up(&wait_for_request).  Between the two halves of a sleep_on() it   *)
(* empties the queue, but the state it sets is overwritten: the process and *)
(* the sleepers it was to wake in its turn are out of reach.                *)
FreeSlot(ws) ==
  LET hit == \E p \in Procs : ws[p] \in Entered
  IN [p \in Procs |->
        CASE ws[p] \in Entered -> Lost
          [] ws[p] \in WaitForRequest -> IF hit THEN Lost ELSE Awake
          [] ws[p] \in Searched -> <<"searched", 1>>
          [] OTHER -> ws[p]]

(* The request is filled in and queued by add_request(), which clears the   *)
(* dirt flag; with an empty queue the driver starts it at once.             *)
Enqueue(p) ==
  LET b == loc[p].tgt
      s == RQ!FindSlot(RequestView, Command(p))
      new == [RequestView EXCEPT ![s] = [cmd |-> Command(p), block |-> buf[b].block]]
  IN
  /\ s # 0
  /\ request' = [request EXCEPT ![s] = [cmd |-> Command(p), bh |-> b]]
  /\ queue' = RQ!AddRequest(new, queue, s)
  /\ xfer' = IF queue = <<>> /\ Command(p) = WRITE THEN buf[b].data ELSE xfer
  /\ buf' = [buf EXCEPT ![b].lock = TRUE, ![b].dirt = FALSE]
  /\ LLReturn(p)
  /\ UNCHANGED <<free_list, disk, wait, val, last>>

(* A slip: a read-ahead does not look whether the buffer is locked.         *)
SubmitLocked(p) == ((At(p, "ll") /\ LLNeeded(p)) \/ At(p, "slot")) /\ Enqueue(p)

Submit(p) ==
  /\ \/ At(p, "ll") /\ ~buf[loc[p].tgt].lock /\ LLNeeded(p)
     \/ At(p, "slot")
  /\ Enqueue(p)

(* The disk interrupt of the last sector of the current request:            *)
(* end_request(ok), and the driver starts the next request.  The second     *)
(* sector of a block is sent later than the first, so what is written is    *)
(* what the buffer held at the start or what it holds now.  After an error  *)
(* the disk may have either the old or the new contents.                    *)
DiskInterrupt(ok) ==
  LET r == request[Head(queue)]
      b == r.bh
      k == buf[b].block
      next == Tail(queue)
  IN
  /\ queue # <<>>
  /\ ok \/ IOErrors
  /\ \E v \in IF r.cmd = READ THEN {disk[k]}
              ELSE {xfer, buf[b].data} \union (IF ok THEN {} ELSE {disk[k]}) :
       disk' = [disk EXCEPT ![k] = v]
  /\ buf' = [buf EXCEPT ![b].uptodate = ok, ![b].lock = FALSE,
                        ![b].data = IF r.cmd = READ /\ ok THEN disk[k] ELSE @]
  /\ wait' = FreeSlot(WakeUp(wait, BWait(b)))
  /\ request' = [request EXCEPT ![Head(queue)] = [cmd |-> READ, bh |-> NoBuf]]
  /\ queue' = next
  /\ xfer' = IF next # <<>> /\ request[Head(next)].cmd = WRITE
               THEN buf[request[Head(next)].bh].data ELSE NULL
  /\ UNCHANGED <<free_list, pc, loc, cpu, val, last>>
-----------------------------------------------------------------------------
(* getblk() has returned bh.                                                *)
StartRead(p, b, cmd, ret) ==
  /\ loc' = [loc EXCEPT ![p].tgt = b, ![p].cmd = cmd, ![p].ret = ret]
  /\ Goto(p, "ll")

(* bread(); block_write() uses getblk() alone for a whole block.            *)
Bread(p) ==
  /\ At(p, "got")
  /\ loc[p].op # "read_ahead"
  /\ IF loc[p].op = "raw_write" \/ buf[loc[p].bh].uptodate
       THEN Yield(p, "hold") /\ UNCHANGED loc
       ELSE StartRead(p, loc[p].bh, READ, "bwait")
  /\ UNCHANGED <<bvars, dvars, wait, val, last>>

(* breada() for the first block, then for the block to read ahead, which it *)
(* gives back at once (without a wake_up()).                                *)
BreadaFirst(p) ==
  /\ At(p, "got")
  /\ loc[p].op = "read_ahead" /\ loc[p].keep = NoBuf
  /\ IF buf[loc[p].bh].uptodate
       THEN Goto(p, "ahead") /\ UNCHANGED loc
       ELSE StartRead(p, loc[p].bh, READ, "ahead")
  /\ UNCHANGED <<bvars, dvars, wait, val, last>>

BreadaNext(p) ==
  /\ At(p, "ahead")
  /\ loc' = [loc EXCEPT ![p].keep = loc[p].bh, ![p].bh = NoBuf, ![p].blk = loc[p].ahead]
  /\ Goto(p, "hash")
  /\ UNCHANGED <<bvars, dvars, wait, val, last>>

BreadaAhead(p) ==
  /\ At(p, "got")
  /\ loc[p].keep # NoBuf
  /\ IF buf[loc[p].bh].uptodate
       THEN Goto(p, "aheaddone") /\ UNCHANGED loc
       ELSE StartRead(p, loc[p].keep, READA, "aheaddone")
  /\ UNCHANGED <<bvars, dvars, wait, val, last>>

(* A slip: the reference to the read-ahead buffer is kept.                  *)
BreadaDoneKeeps(p) ==
  /\ At(p, "aheaddone")
  /\ loc' = [loc EXCEPT ![p].bh = loc[p].keep, ![p].keep = NoBuf, ![p].blk = loc[p].first]
  /\ Goto(p, "bwait")
  /\ UNCHANGED <<bvars, dvars, wait, val, last>>

BreadaDone(p) ==
  /\ At(p, "aheaddone")
  /\ buf' = [buf EXCEPT ![loc[p].bh].count = @ - 1]
  /\ loc' = [loc EXCEPT ![p].bh = loc[p].keep, ![p].keep = NoBuf, ![p].blk = loc[p].first]
  /\ Goto(p, "bwait")
  /\ UNCHANGED <<free_list, dvars, wait, val, last>>

(* The end of bread() and breada(): a block that cannot be read is released *)
(* and the caller gets NULL.                                                *)
BreadReturn(p) ==
  /\ At(p, "bwait")
  /\ ~buf[loc[p].bh].lock
  /\ IF buf[loc[p].bh].uptodate THEN Yield(p, "hold") ELSE Goto(p, "rel")
  /\ UNCHANGED <<bvars, dvars, loc, wait, val, last>>

(* The caller has the buffer and copies from it, as file_read() does ...    *)
CopyOut(p) ==
  /\ At(p, "hold")
  /\ loc[p].op \in {"read", "read_ahead"}
  /\ val' = [val EXCEPT ![p] = buf[loc[p].bh].data]
  /\ Goto(p, "rel")
  /\ UNCHANGED <<bvars, dvars, loc, wait, last>>

(* A slip: the buffer is not marked dirty.                                  *)
CopyInClean(p, v) ==
  /\ At(p, "hold")
  /\ loc[p].op \in {"write", "raw_write"}
  /\ buf' = [buf EXCEPT ![loc[p].bh].data = v]
  /\ Goto(p, "rel")
  /\ last' = [last EXCEPT ![loc[p].first] = v]
  /\ UNCHANGED <<free_list, dvars, loc, wait, val>>

(* ... or into it: file_write() and block_write(), from user memory that is *)
(* present ...                                                              *)
CopyIn(p, v) ==
  /\ At(p, "hold")
  /\ loc[p].op \in {"write", "raw_write"}
  /\ buf' = [buf EXCEPT ![loc[p].bh].dirt = TRUE, ![loc[p].bh].data = v]
  /\ Goto(p, "rel")
  /\ last' = [last EXCEPT ![loc[p].first] = v]
  /\ UNCHANGED <<free_list, dvars, loc, wait, val>>

(* ... or file_write() from memory that is not: get_fs_byte() sleeps in the *)
(* page fault after b_dirt has been set and before the data is there.       *)
SetDirt(p) ==
  /\ At(p, "hold")
  /\ loc[p].op = "fault_write"
  /\ buf' = [buf EXCEPT ![loc[p].bh].dirt = TRUE]
  /\ Yield(p, "copy")
  /\ UNCHANGED <<free_list, dvars, loc, wait, val, last>>

CopyLate(p, v) ==
  /\ At(p, "copy")
  /\ buf' = [buf EXCEPT ![loc[p].bh].data = v]
  /\ Goto(p, "rel")
  /\ last' = [last EXCEPT ![loc[p].first] = v]
  /\ UNCHANGED <<free_list, dvars, loc, wait, val>>

Brelse(p) ==
  LET b == loc[p].bh IN
  /\ At(p, "rel")
  /\ ~buf[b].lock
  /\ buf' = [buf EXCEPT ![b].count = @ - 1]
  /\ wait' = WakeUp(wait, BufferWait)
  /\ loc' = [loc EXCEPT ![p] = NoLoc]
  /\ val' = [val EXCEPT ![p] = NULL]
  /\ Yield(p, "user")
  /\ UNCHANGED <<free_list, dvars, last>>
-----------------------------------------------------------------------------
(* wait_on_buffer() where the code calls it.                                *)
Wait(p) ==
  \E l \in {"hashwait", "victim", "bwait", "rel"} : WaitOnBuffer(p, loc[p].bh, l)

Kernel(p) ==
  \/ Hash(p) \/ HashWait(p) \/ Scan(p) \/ Repeat(p) \/ CleanVictim(p) \/ Take(p)
  \/ SyncWait(p) \/ SyncWrite(p) \/ SyncInodes(p) \/ SyncDone(p)
  \/ LLSkip(p) \/ LLNoSlot(p) \/ SlotWait(p) \/ SlotEnter(p) \/ SlotSleep(p) \/ Submit(p)
  \/ Bread(p) \/ BreadaFirst(p) \/ BreadaNext(p) \/ BreadaAhead(p) \/ BreadaDone(p)
  \/ BreadReturn(p) \/ CopyOut(p) \/ SetDirt(p) \/ Brelse(p) \/ Wait(p)
  \/ \E v \in Vals : CopyIn(p, v) \/ CopyLate(p, v)

Next ==
  \/ \E p \in Procs, k \in Blocks : \E op \in Ops[p] \ {"sync"} : Begin(p, op, k)
  \/ \E p \in Procs : BeginSync(p)
  \/ \E p \in Procs : Kernel(p)
  \/ \E ok \in BOOLEAN : DiskInterrupt(ok)

Spec == Init /\ [][Next]_vars

(* schedule() runs every process that stays awake, and the disk interrupts. *)
Fairness ==
  /\ \A p \in Procs : WF_vars(Kernel(p))
  /\ WF_vars(\E ok \in BOOLEAN : DiskInterrupt(ok))

FairSpec == Spec /\ Fairness
-----------------------------------------------------------------------------
Locations == {"user", "hash", "hashwait", "scan", "victim", "sync", "ll", "slot", "got",
              "ahead", "aheaddone", "bwait", "hold", "copy", "rel"}

BufferHeads ==
  [block : Blocks \union {NoBlock}, count : Nat, dirt : BOOLEAN, lock : BOOLEAN,
   uptodate : BOOLEAN, data : Vals \union {NULL}]

Locals ==
  [op : Calls \union {"none"}, first : Blocks \union {NoBlock}, ahead : Blocks \union {NoBlock},
   blk : Blocks \union {NoBlock}, bh : Bufs \union {NoBuf}, keep : Bufs \union {NoBuf},
   i : 1 .. (SyncEnd + 1), tgt : Bufs \union {NoBuf}, cmd : {READ, WRITE, READA},
   ret : Locations]

(* Types; in particular b_count, a byte that is counted up and down, never  *)
(* drops below zero, where brelse() would panic.                            *)
TypeOK ==
  /\ buf \in [Bufs -> BufferHeads]
  /\ free_list \in [Bufs -> Bufs]
  /\ request \in [Slots -> [cmd : {READ, WRITE}, bh : Bufs \union {NoBuf}]]
  /\ queue \in Seq(Slots)
  /\ xfer \in Vals \union {NULL}
  /\ disk \in [Blocks -> Vals]
  /\ pc \in [Procs -> Locations]
  /\ loc \in [Procs -> Locals]
  /\ wait \in [Procs -> Channels]
  /\ cpu \in Procs \union {NULL}
  /\ val \in [Procs -> Vals \union {NULL}]
  /\ last \in [Blocks -> Vals]

(* Two buffers never hold the same block, although getblk() sleeps between  *)
(* looking for the block and assigning a buffer to it: "we know that this   *)
(* buffer is the only one of it's kind" (buffer.c:241).                     *)
OneBufferPerBlock ==
  \A b, c \in Bufs : buf[b].block = buf[c].block /\ buf[b].block # NoBlock => b = c

(* p counts b in b_count: get_hash_table() or getblk() gave it to p.        *)
Holds(p, b) ==
  /\ loc[p].bh = b
  /\ \/ pc[p] \in {"hashwait", "got", "ahead", "aheaddone", "bwait", "hold", "copy", "rel"}
     \/ pc[p] \in {"ll", "slot"} /\ loc[p].ret # "sync"

(* b_count is the number of references processes have to a buffer           *)
(* (buffer.c:190, 194, 243, 258, 337): no reference is forgotten by a       *)
(* repeated getblk(), and none is dropped twice.                            *)
CountIsReferences ==
  \A b \in Bufs :
    buf[b].count = Cardinality({p \in Procs : Holds(p, b)})
                   + Cardinality({p \in Procs : loc[p].keep = b})

(* A buffer is locked exactly while it is in the request queue or waits for *)
(* a slot of it, and then once only: INIT_REQUEST's panic "block not        *)
(* locked" (blk.h:134-135) is out of reach, and no lock is left behind.     *)
(* Nor is a buffer locked when lock_buffer() is called: its loop            *)
(* (ll_rw_blk.c:45-46) never sleeps.                                        *)
LockHasOneOwner ==
  /\ \A p \in Procs : pc[p] = "ll" /\ loc[p].cmd # READA => ~buf[loc[p].tgt].lock
  /\ \A b \in Bufs :
       Cardinality({s \in Slots : request[s].bh = b})
         + Cardinality({p \in Procs : pc[p] = "slot" /\ loc[p].tgt = b})
       = IF buf[b].lock THEN 1 ELSE 0

(* While a process has a buffer, the buffer stays assigned to the block the *)
(* process asked for (buffer.c:229-236).                                    *)
HeldBufferKeepsBlock ==
  \A p \in Procs : \A b \in Bufs :
    /\ Holds(p, b) => buf[b].block = loc[p].blk
    /\ loc[p].keep = b => buf[b].block = loc[p].first

(* What the use of the request table amounts to: one request per block,     *)
(* queued by the elevator (ll_rw_blk.c:64-143).                             *)
RequestQueueSpec == RQ!Spec

(* Without disk errors the cache and the disk together are a memory: no     *)
(* eviction, write-back or read-ahead loses what was written to a block,    *)
(* and a reader gets what was last written (buffer.c:183-281).              *)
Store == INSTANCE BlockStore WITH
  None <- NULL,
  mem <- last,
  call <- [p \in Procs |->
             [op |-> CASE loc[p].op \in {"read", "read_ahead"} -> "read"
                       [] loc[p].op \in {"write", "fault_write", "raw_write"} -> "write"
                       [] OTHER -> "none",
              block |-> loc[p].first,
              done |-> pc[p] = "rel"]]

BlockStoreSpec == Store!Spec

(* A buffer that is "unused, unlocked and clean" when getblk() reassigns it *)
(* (buffer.c:241-242) holds nothing the disk does not have: every write is  *)
(* either on the disk or still marked for it.                               *)
CleanIsOnDisk ==
  \A b \in Bufs :
    buf[b].block # NoBlock /\ buf[b].uptodate /\ ~buf[b].dirt /\ ~buf[b].lock /\ buf[b].count = 0
    => buf[b].data = disk[buf[b].block]

(* Nobody sleeps for ever: every lock is released, every request slot freed *)
(* and every buffer given back, and each time the sleepers are woken        *)
(* (buffer.c:36-42, 225, 260; ll_rw_blk.c:129; blk.h:114, 122); unless a    *)
(* disk interrupt comes between make_request()'s search for a slot and its  *)
(* sleep, where interrupts are enabled.                                     *)
EverySleeperWoken ==
  \A p \in Procs : wait[p] # Awake ~> wait[p] = Awake \/ \E q \in Procs : wait[q] \in Missed

(* A buffer head tells the truth about its users: references are counted    *)
(* and a lock has its one owner (buffer.c:36-42, 253-261, blk.h:109-125).   *)
HeadsConsistent == TypeOK /\ CountIsReferences /\ LockHasOneOwner
=============================================================================
