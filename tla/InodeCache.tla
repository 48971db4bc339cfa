----------------------------- MODULE InodeCache -----------------------------
(***************************************************************************)
(* linux-0.11/fs/inode.c: the table of inodes in memory, iget(), iput(),   *)
(* get_empty_inode(), get_pipe_inode(), the lock of an inode, and writing  *)
(* inodes back; with new_inode() and free_inode() of fs/bitmap.c and the   *)
(* calls of fs/namei.c and fs/open.c that use them.                        *)
(*                                                                         *)
(* One device, with nothing mounted on it; all its inodes fit in one       *)
(* block.  A step is what a process does between two points where it may   *)
(* sleep: on i_wait, which wait tells, or in the buffer cache.  A call of  *)
(* the cache may come to sync_inodes() itself, when all its buffers are    *)
(* dirty (buffer.c:231, 72): for a process that has an inode locked this   *)
(* is SyncUnderLock below; for the others it is a sync() of some process.  *)
(* A directory has a name for a number or none; what an inode holds is its *)
(* number of links and one value.                                          *)
(***************************************************************************)
EXTENDS Integers, FiniteSets, FiniteSetsExt

CONSTANTS
  Procs,      \* processes
  NR_INODE,   \* entries of inode_table
  Nums,       \* inode numbers of the device
  Vals,       \* what an inode may hold; 0 at first
  Scenarios   \* bound: the calls each process makes, the inodes that have a name,
              \* those of block device files, and the entries that are not
              \* taken by processes outside the model

Entries == 1 .. NR_INODE

Calls == {"change", "unlink", "create", "pipe", "sync"}

ASSUME InodeAssumption ==
  /\ IsFiniteSet(Procs)
  /\ NR_INODE \in Nat \ {0}
  /\ Nums \subseteq Nat \ {0}
  /\ 0 \in Vals
  /\ \A sc \in Scenarios :
       /\ sc.calls \in [Procs -> SUBSET Calls]
       /\ sc.names \subseteq Nums /\ sc.devices \subseteq Nums
       /\ sc.spare \in Entries

VARIABLES
  inode,    \* inode_table
  disk,     \* the inodes on the disk
  imap,     \* the numbers marked as used
  names,    \* the numbers that a directory entry has
  pc,       \* where a process is
  loc,      \* its local variables
  wait,     \* the entry on whose i_wait it sleeps, or 0
  panicked, \* what the kernel panicked of, or "no"
  last,     \* history: what each inode was last given
  under,    \* who came to sync_inodes() with an inode locked
  torn,     \* history: free_inode() cleared an entry that was locked
  stale,    \* history: iget() read an inode that had been freed meanwhile
  scenario  \* the scenario, which does not change

fs == <<disk, imap, names>>
aux == <<panicked, last, under, torn, stale>>
vars == <<inode, fs, pc, loc, wait, aux, scenario>>

(* What wait holds for a sleeper that no wake_up() can find any more.       *)
Lost == -1

(* An entry after memset(); a number 0 stands for i_dev = 0.                *)
Cleared == [num |-> 0, count |-> 0, dirt |-> FALSE, lock |-> FALSE,
            pipe |-> FALSE, nlinks |-> 0, val |-> 0]

NoLoc == [op |-> "none", nr |-> 0, e |-> 0, empty |-> 0, i |-> 0]

Init ==
  \E sc \in Scenarios :
  /\ inode = [e \in Entries |-> Cleared]
  /\ disk = [n \in Nums |-> [nlinks |-> IF n \in sc.names THEN 1 ELSE 0, val |-> 0]]
  /\ imap = sc.names
  /\ names = sc.names
  /\ pc = [p \in Procs |-> "user"]
  /\ loc = [p \in Procs |-> NoLoc]
  /\ wait = [p \in Procs |-> 0]
  /\ panicked = "no"
  /\ last = [n \in Nums |-> 0]
  /\ under = {}
  /\ torn = FALSE /\ stale = FALSE
  /\ scenario = sc
-----------------------------------------------------------------------------
At(p, l) == pc[p] = l /\ wait[p] = 0 /\ p \notin under /\ panicked = "no"

Goto(p, l) == pc' = [pc EXCEPT ![p] = l]

(* p returns from its system call.                                          *)
Return(p) ==
  /\ Goto(p, "user")
  /\ loc' = [loc EXCEPT ![p] = NoLoc]

WakeUp(e) == [q \in Procs |-> IF wait[q] = e THEN 0 ELSE wait[q]]

Panic(why) ==
  /\ panicked' = why
  /\ UNCHANGED <<inode, fs, pc, loc, wait, last, under, torn, stale>>

(* wait_on_inode(inode), where p tests the lock again at l.                 *)
WaitOnInode(p, e, l) ==
  /\ inode[e].lock
  /\ wait' = [wait EXCEPT ![p] = e]
  /\ Goto(p, l)
  /\ UNCHANGED <<inode, fs, aux>>

(* get_empty_inode(): some entry that nobody uses.  Such an entry is clean  *)
(* and unlocked (UnusedIsIdle), so there is nothing to wait for.            *)
Unused == {e \in 1 .. scenario.spare : inode[e].count = 0}

NewEntry(e) == [inode EXCEPT ![e] = [Cleared EXCEPT !.count = 1]]

NoEntry(p) ==
  /\ At(p, pc[p])
  /\ \/ pc[p] \in {"iget", "create", "pipe"}
     \/ pc[p] = "user" /\ "unlink" \in scenario.calls[p] /\ names # {}
  /\ Unused = {}
  /\ Panic("No free inodes in mem")
-----------------------------------------------------------------------------
(* p calls the kernel for a new inode, for a pipe or for sync().            *)
Begin(p, op) ==
  /\ op \in {"create", "pipe", "sync"} \intersect scenario.calls[p]
  /\ At(p, "user")
  /\ loc' = [loc EXCEPT ![p] = [NoLoc EXCEPT !.op = op, !.i = 1]]
  /\ Goto(p, op)
  /\ UNCHANGED <<inode, fs, wait, aux>>

(* namei() has the number of a name; before it calls iget() it gives the    *)
(* directory back, which may sleep.                                         *)
Lookup(p, n) ==
  /\ "change" \in scenario.calls[p]
  /\ At(p, "user")
  /\ n \in names
  /\ loc' = [loc EXCEPT ![p] = [NoLoc EXCEPT !.op = "change", !.nr = n]]
  /\ Goto(p, "iget")
  /\ UNCHANGED <<inode, fs, wait, aux>>

(* A slip: the empty entry is kept.                                         *)
FoundKeepsEmpty(p, lo, table, e, empty) ==
  /\ inode' = [table EXCEPT ![e].count = @ + 1]
  /\ loc' = [loc EXCEPT ![p] = [lo EXCEPT !.e = e, !.empty = 0]]
  /\ Goto(p, "held")
  /\ UNCHANGED <<fs, wait, aux>>

(* iget() found its inode in entry e, and gives the empty one back.  lo is  *)
(* what p had in its local variables.                                       *)
Found(p, lo, table, e, empty) ==
  /\ inode' = [table EXCEPT ![e].count = @ + 1, ![empty].count = @ - 1]
  /\ loc' = [loc EXCEPT ![p] = [lo EXCEPT !.e = e, !.empty = 0]]
  /\ Goto(p, "held")
  /\ UNCHANGED <<fs, wait, aux>>

(* The loop of iget() over the table, with an empty entry in hand; without  *)
(* a match that entry is locked and read_inode() sleeps in bread().         *)
Search(p, lo, table, empty) ==
  LET matches == {e \in Entries : table[e].num = lo.nr}
      e == Min(matches)
  IN
  IF matches = {}
    THEN /\ inode' = [table EXCEPT ![empty].num = lo.nr, ![empty].lock = TRUE]
         /\ loc' = [loc EXCEPT ![p] = [lo EXCEPT !.e = empty, !.empty = 0]]
         /\ stale' = (stale \/ lo.nr \notin imap)
         /\ Goto(p, "read")
         /\ UNCHANGED <<fs, wait, panicked, last, under, torn>>
    ELSE IF table[e].lock
    THEN /\ inode' = table
         /\ loc' = [loc EXCEPT ![p] = [lo EXCEPT !.e = e, !.empty = empty]]
         /\ wait' = [wait EXCEPT ![p] = e]
         /\ Goto(p, "match")
         /\ UNCHANGED <<fs, aux>>
    ELSE Found(p, lo, table, e, empty)

Iget(p) ==
  /\ At(p, "iget")
  /\ \E e \in Unused : Search(p, loc[p], NewEntry(e), e)

(* sys_unlink() keeps the directory and its entry.                          *)
IgetUnlink(p, n) ==
  /\ "unlink" \in scenario.calls[p]
  /\ At(p, "user")
  /\ n \in names
  /\ \E e \in Unused : Search(p, [NoLoc EXCEPT !.op = "unlink", !.nr = n], NewEntry(e), e)

(* A slip: iget() that goes on behind the entry it waited for.              *)
MatchGoesOn(p) ==
  LET e == loc[p].e
      empty == loc[p].empty
  IN
  /\ At(p, "match")
  /\ \/ WaitOnInode(p, e, "match") /\ UNCHANGED loc
     \/ /\ ~inode[e].lock
        /\ IF inode[e].num = loc[p].nr
             THEN Found(p, loc[p], inode, e, empty)
             ELSE /\ inode' = [inode EXCEPT ![empty].num = loc[p].nr, ![empty].lock = TRUE]
                  /\ loc' = [loc EXCEPT ![p].e = empty, ![p].empty = 0]
                  /\ Goto(p, "read")
                  /\ UNCHANGED <<fs, wait, aux>>

(* iget() after it waited for a match, which may have become another inode. *)
Match(p) ==
  LET e == loc[p].e IN
  /\ At(p, "match")
  /\ \/ WaitOnInode(p, e, "match") /\ UNCHANGED loc
     \/ /\ ~inode[e].lock
        /\ IF inode[e].num = loc[p].nr
             THEN Found(p, loc[p], inode, e, loc[p].empty)
             ELSE Search(p, loc[p], inode, loc[p].empty)

(* read_inode() goes on, and iget() returns.                                *)
ReadInode(p) ==
  LET e == loc[p].e
      d == disk[inode[e].num]
  IN
  /\ At(p, "read")
  /\ inode' = [inode EXCEPT ![e].nlinks = d.nlinks, ![e].val = d.val, ![e].lock = FALSE]
  /\ wait' = WakeUp(e)
  /\ Goto(p, "held")
  /\ UNCHANGED <<fs, loc, aux>>

(* new_inode(): the first number that is not used.                          *)
NewInode(p) ==
  LET n == Min(Nums \ imap) IN
  /\ At(p, "create")
  /\ Unused # {}
  /\ IF Nums \subseteq imap
       THEN /\ \E e \in Unused : inode' = [NewEntry(e) EXCEPT ![e].count = 0]
            /\ Return(p)
            /\ UNCHANGED <<imap, last, torn, stale>>
       ELSE /\ \E e \in Unused :
                 /\ inode' = [NewEntry(e) EXCEPT ![e].num = n, ![e].nlinks = 1, ![e].dirt = TRUE]
                 /\ loc' = [loc EXCEPT ![p].e = e, ![p].nr = n]
            /\ imap' = imap \union {n}
            /\ last' = [last EXCEPT ![n] = 0]
            /\ Goto(p, "held")
  /\ UNCHANGED <<disk, names, wait, panicked, under, torn, stale>>

(* get_pipe_inode(): two references, and no memory gives the entry back.    *)
GetPipeInode(p) ==
  /\ At(p, "pipe")
  /\ \E e \in Unused :
       \/ /\ inode' = [NewEntry(e) EXCEPT ![e].count = 2, ![e].pipe = TRUE]
          /\ loc' = [loc EXCEPT ![p].e = e, ![p].i = 2]
          /\ Goto(p, "held")
       \/ /\ inode' = [NewEntry(e) EXCEPT ![e].count = 0]
          /\ Return(p)
  /\ UNCHANGED <<fs, wait, aux>>
-----------------------------------------------------------------------------
(* What the holder of an inode does: change it, as sys_chmod() does, ...    *)
Change(p, v) ==
  LET e == loc[p].e IN
  /\ At(p, "held") /\ loc[p].op = "change"
  /\ inode' = [inode EXCEPT ![e].val = v, ![e].dirt = TRUE]
  /\ last' = [last EXCEPT ![inode[e].num] = v]
  /\ UNCHANGED <<fs, pc, loc, wait, panicked, under, torn, stale>>

(* i_nlinks--, of an unsigned char.                                         *)
OneLess(k) == (k - 1) % 256

(* ... give a new inode its name (add_entry(), which may fail), ...         *)
AddEntry(p) ==
  /\ At(p, "held") /\ loc[p].op = "create"
  /\ \/ names' = names \union {loc[p].nr} /\ UNCHANGED inode
     \/ inode' = [inode EXCEPT ![loc[p].e].nlinks = OneLess(@)] /\ UNCHANGED names
  /\ Goto(p, "iput")
  /\ UNCHANGED <<disk, imap, loc, wait, aux>>

(* ... take its name away (sys_unlink(), where brelse() may sleep before    *)
(* the count of links is lowered), ...                                      *)
Unlink(p) ==
  /\ At(p, "held") /\ loc[p].op = "unlink"
  /\ inode' = [inode EXCEPT ![loc[p].e].nlinks = IF @ = 0 THEN 1 ELSE @]
  /\ names' = names \ {loc[p].nr}
  /\ Goto(p, "unlinked")
  /\ UNCHANGED <<disk, imap, loc, wait, aux>>

Unlinked(p) ==
  /\ At(p, "unlinked")
  /\ inode' = [inode EXCEPT ![loc[p].e].nlinks = OneLess(@), ![loc[p].e].dirt = TRUE]
  /\ Goto(p, "iput")
  /\ UNCHANGED <<fs, loc, wait, aux>>

(* ... and give it back.                                                    *)
Close(p) ==
  /\ At(p, "held") /\ loc[p].op \in {"change", "pipe"}
  /\ Goto(p, "iput")
  /\ UNCHANGED <<inode, fs, loc, wait, aux>>
-----------------------------------------------------------------------------
(* write_inode() of a dirty inode that is not locked: it is locked while p  *)
(* sleeps in bread(); p goes on at l.                                       *)
WriteInode(p, e, l) ==
  /\ inode' = [inode EXCEPT ![e].lock = TRUE]
  /\ Goto(p, l)

(* The first part of iput(): pipes and entries without a device.            *)
IputPipe(p) ==
  LET e == loc[p].e IN
  /\ At(p, "iput")
  /\ inode[e].pipe
  /\ wait' = WakeUp(e)
  /\ inode' = [inode EXCEPT ![e].count = @ - 1, ![e].pipe = inode[e].count > 1]
  /\ IF loc[p].i > 1
       THEN loc' = [loc EXCEPT ![p].i = @ - 1] /\ Goto(p, "held")
       ELSE Return(p)
  /\ UNCHANGED <<fs, aux>>

(* iput() of a block device file writes what is dirty and waits again.      *)
IputDevice(p) ==
  LET e == loc[p].e IN
  /\ At(p, "iput")
  /\ ~inode[e].lock
  /\ inode[e].num \in scenario.devices
  /\ loc' = [loc EXCEPT ![p].i = 1]
  /\ Goto(p, "sync")
  /\ UNCHANGED <<inode, fs, wait, aux>>

(* A slip: iput() does not wait for the inode.                              *)
IputNoWait(p) ==
  LET e == loc[p].e IN
  /\ pc[p] \in {"iput", "repeat"} /\ At(p, pc[p])
  /\ ~inode[e].pipe
  /\ IF inode[e].count = 1 /\ inode[e].dirt
       THEN WriteInode(p, e, "write") /\ UNCHANGED loc
       ELSE inode' = [inode EXCEPT ![e].count = @ - 1] /\ Return(p)
  /\ UNCHANGED <<fs, wait, aux>>

(* From "repeat:" on.  truncate() sleeps, with the inode neither locked nor *)
(* counted more than once.                                                  *)
IputRepeat(p) ==
  LET e == loc[p].e IN
  /\ pc[p] \in {"iput", "repeat"} /\ At(p, pc[p])
  /\ ~inode[e].lock /\ ~inode[e].pipe
  /\ pc[p] = "iput" => inode[e].num \notin scenario.devices
  /\ IF inode[e].count = 0
       THEN Panic("iput: trying to free free inode")
       ELSE /\ \/ /\ \/ inode[e].count > 1
                     \/ inode[e].nlinks # 0 /\ ~inode[e].dirt
                  /\ inode' = [inode EXCEPT ![e].count = @ - 1]
                  /\ Return(p)
               \/ /\ inode[e].count = 1 /\ inode[e].nlinks = 0
                  /\ Goto(p, "truncate")
                  /\ UNCHANGED <<inode, loc>>
               \/ /\ inode[e].count = 1 /\ inode[e].nlinks # 0 /\ inode[e].dirt
                  /\ WriteInode(p, e, "write")
                  /\ UNCHANGED loc
            /\ UNCHANGED <<fs, wait, aux>>

IputWait(p) ==
  /\ pc[p] \in {"iput", "repeat"} /\ At(p, pc[p])
  /\ WaitOnInode(p, loc[p].e, pc[p])
  /\ UNCHANGED loc

(* The end of truncate(), and free_inode(), which clears i_lock and i_wait  *)
(* too: the sleepers of the entry, if there are any, are forgotten.         *)
FreeInode(p) ==
  LET e == loc[p].e IN
  /\ At(p, "truncate")
  /\ IF inode[e].count > 1
       THEN Panic("trying to free inode with count")
       ELSE IF inode[e].nlinks # 0
       THEN Panic("trying to free inode with links")
       ELSE /\ imap' = imap \ {inode[e].num}
            /\ inode' = [inode EXCEPT ![e] = Cleared]
            /\ wait' = [q \in Procs |-> IF wait[q] = e THEN Lost ELSE wait[q]]
            /\ torn' = (torn \/ inode[e].lock)
            /\ Return(p)
            /\ UNCHANGED <<disk, names, panicked, last, under, stale>>

(* A slip: the inode in memory is not copied to the block.                  *)
WrittenNot(p, e, l) ==
  /\ inode' = [inode EXCEPT ![e].dirt = FALSE, ![e].lock = FALSE]
  /\ wait' = WakeUp(e)
  /\ Goto(p, l)
  /\ UNCHANGED <<fs, loc, aux>>

(* write_inode() has its block.  It looks up the number again.  i_lock and  *)
(* i_dirt are cleared whoever has the entry by now.                         *)
Written(p, e, l) ==
  /\ disk' = [n \in Nums |-> IF n = inode[e].num
                               THEN [nlinks |-> inode[e].nlinks, val |-> inode[e].val]
                               ELSE disk[n]]
  /\ inode' = [inode EXCEPT ![e].dirt = FALSE, ![e].lock = FALSE]
  /\ wait' = WakeUp(e)
  /\ Goto(p, l)
  /\ UNCHANGED <<imap, names, loc, aux>>

IputWritten(p) == At(p, "write") /\ Written(p, loc[p].e, "repeat")
-----------------------------------------------------------------------------
(* sync_inodes(): the first entry from i on that it stops at.               *)
SyncTodo(p) ==
  {e \in loc[p].i .. NR_INODE : inode[e].lock \/ (inode[e].dirt /\ ~inode[e].pipe)}

SyncInodes(p) ==
  /\ At(p, "sync")
  /\ SyncTodo(p) # {}
  /\ LET e == Min(SyncTodo(p)) IN
       /\ loc' = [loc EXCEPT ![p].i = e]
       /\ \/ WaitOnInode(p, e, "sync")
          \/ /\ ~inode[e].lock
             /\ WriteInode(p, e, "syncwrite")
             /\ UNCHANGED <<fs, wait, aux>>

SyncWritten(p) == At(p, "syncwrite") /\ Written(p, loc[p].i, "sync")

SyncDone(p) ==
  /\ At(p, "sync")
  /\ SyncTodo(p) = {}
  /\ IF loc[p].op = "sync" THEN Return(p)
     ELSE Goto(p, "repeat") /\ loc' = [loc EXCEPT ![p].i = 0]
  /\ UNCHANGED <<inode, fs, wait, aux>>

(* The entry that p reads or writes.                                        *)
Own(p) == IF pc[p] = "syncwrite" THEN loc[p].i ELSE loc[p].e

(* bread() in read_inode() or write_inode() comes to sync_inodes(): it goes *)
(* through the table, waits for what others have locked, and then for the   *)
(* inode that p itself has locked.  That lock is never given up, unless     *)
(* free_inode() has cleared it.  (What it writes before is as if another    *)
(* process wrote it.)                                                       *)
SyncUnderLock(p) ==
  /\ pc[p] \in {"read", "write", "syncwrite"}
  /\ wait[p] = 0 /\ panicked = "no"
  /\ \E f \in 1 .. Own(p) : inode[f].lock /\ wait' = [wait EXCEPT ![p] = f]
  /\ under' = under \union {p}
  /\ UNCHANGED <<inode, fs, pc, loc, panicked, last, torn, stale>>

SyncUnderDone(p) ==
  /\ p \in under
  /\ wait[p] = 0 /\ panicked = "no"
  /\ ~inode[Own(p)].lock
  /\ under' = under \ {p}
  /\ UNCHANGED <<inode, fs, pc, loc, wait, panicked, last, torn, stale>>
-----------------------------------------------------------------------------
(* What p does in the kernel once it has made its call.                     *)
Step(p) ==
  \/ NoEntry(p) \/ Iget(p) \/ Match(p) \/ ReadInode(p) \/ NewInode(p) \/ GetPipeInode(p)
  \/ AddEntry(p) \/ Unlink(p) \/ Unlinked(p) \/ Close(p)
  \/ IputPipe(p) \/ IputDevice(p) \/ IputRepeat(p) \/ IputWait(p)
  \/ FreeInode(p) \/ IputWritten(p)
  \/ SyncInodes(p) \/ SyncWritten(p) \/ SyncDone(p)
  \/ SyncUnderLock(p) \/ SyncUnderDone(p)

Next ==
  /\ \E p \in Procs :
       \/ \E n \in Nums : Lookup(p, n) \/ IgetUnlink(p, n)
       \/ \E v \in Vals : Change(p, v)
       \/ \E op \in Calls : Begin(p, op)
       \/ Step(p)
  /\ UNCHANGED scenario

Spec == Init /\ [][Next]_vars
-----------------------------------------------------------------------------
Locations == {"user", "iget", "match", "read", "create", "pipe", "held", "unlinked",
              "iput", "repeat", "truncate", "write", "sync", "syncwrite"}

TableTypes ==
  /\ inode \in [Entries -> [num : Nums \union {0}, count : Nat, dirt : BOOLEAN,
                            lock : BOOLEAN, pipe : BOOLEAN, nlinks : 0 .. 255,
                            val : Vals]]
  /\ disk \in [Nums -> [nlinks : 0 .. 255, val : Vals]]
  /\ imap \subseteq Nums /\ names \subseteq Nums
  /\ pc \in [Procs -> Locations]
  /\ loc \in [Procs -> [op : Calls \union {"none"}, nr : Nums \union {0},
                        e : Entries \union {0}, empty : Entries \union {0},
                        i : Nat]]
  /\ wait \in [Procs -> Entries \union {0, Lost}]

(* Types.                                                                   *)
TypeOK == TableTypes /\ under \subseteq Procs

(* p has a reference to entry e, and both references to a pipe.             *)
Holds(p, e) == loc[p].e = e /\ pc[p] \notin {"iget", "match", "create", "pipe"}
HoldsBoth(p, e) == Holds(p, e) /\ loc[p].op = "pipe" /\ loc[p].i = 2

(* i_count is the number of references, on every path through iget() and    *)
(* iput(): an entry in use is not given away, and an unused one is not lost *)
(* (inode.c:150-197, 215-218, 228-242, 254-281; bitmap.c:118-134).  The     *)
(* empty entry that iget() has in hand is one, too.                         *)
CountIsReferences ==
  \A e \in Entries :
    inode[e].count = Cardinality({p \in Procs : loc[p].empty = e})
                     + Cardinality({p \in Procs : Holds(p, e)})
                     + Cardinality({p \in Procs : HoldsBoth(p, e)})

(* No two entries are the same inode, although iget() sleeps between taking *)
(* an empty entry, searching the table and reading (inode.c:244-292).       *)
OneInodePerNumber ==
  ~stale =>
    \A e, f \in Entries : inode[e].num = inode[f].num /\ inode[e].num # 0 => e = f

(* The process inside read_inode() or write_inode() of entry e.             *)
Lockers(e) ==
  {p \in Procs : \/ pc[p] \in {"read", "write"} /\ loc[p].e = e
                 \/ pc[p] = "syncwrite" /\ loc[p].i = e}

(* A locked inode has one owner, who is reading or writing it; iput(), iget *)
(* and sync leave it alone until then (inode.c:20-40, 294-339).             *)
LockHasOneOwner ==
  ~torn =>
    \A e \in Entries : Cardinality(Lockers(e)) = IF inode[e].lock THEN 1 ELSE 0

(* An entry nobody uses is clean and unlocked: get_empty_inode() finds one  *)
(* at once if there is any (inode.c:199-226).                               *)
UnusedIsIdle == \A e \in Unused : ~inode[e].dirt /\ ~inode[e].lock

(* The entry that has inode n, read from the disk.                          *)
Loaded(n) == {e \in Entries : inode[e].num = n /\ ~\E p \in Procs : pc[p] = "read" /\ loc[p].e = e}

(* No change of an inode is lost: it is in the table or on the disk, and an *)
(* inode in the table that differs from the disk is dirty or being written  *)
(* (inode.c:176-194, 58-69, 314-339).                                       *)
ChangesKept ==
  ~torn /\ ~stale =>
    \A n \in imap :
      /\ \A e \in Loaded(n) :
           /\ inode[e].val = last[n]
           /\ inode[e].dirt \/ disk[n].val = last[n]
      /\ Loaded(n) = {} => disk[n].val = last[n]

(* Whoever sleeps on an inode will be woken: the entry is locked, by one    *)
(* process that will unlock it and call wake_up(), and does not sleep on an *)
(* inode itself, unless its bread() came to sync_inodes() (inode.c:20-40,   *)
(* 302, 311, 322, 338; buffer.c:72, 231).                                   *)
SleeperHasWaker ==
  ~torn => \A p \in Procs : wait[p] # 0 =>
             /\ wait[p] # Lost
             /\ \E q \in Lockers(wait[p]) : wait[q] = 0 \/ q \in under

(* The table tells used entries from unused ones: i_count counts the        *)
(* references, and an entry without any can be taken at once                *)
(* (inode.c:150-226).                                                       *)
TableConsistent == TypeOK /\ CountIsReferences /\ UnusedIsIdle

(* A lock has one owner, and whoever sleeps on it will be woken by that     *)
(* owner, unless bread() made the owner itself wait for inodes              *)
(* (inode.c:20-40, 294-339; buffer.c:72, 231).                              *)
LocksSound == LockHasOneOwner /\ SleeperHasWaker
=============================================================================
