-------------------------- MODULE BufferCacheProofs --------------------------
(***************************************************************************)
(* For any number of processes, buffers, blocks and request slots: the     *)
(* buffer cache keeps one buffer per block, a buffer that is held or is    *)
(* being transferred keeps its block, its references are counted and its   *)
(* lock has one owner; and its use of the request table implements         *)
(* RequestQueue, so that what RequestQueueProofs shows of the elevator is  *)
(* true of the cache.  The second part shows that it implements BlockStore.*)
(***************************************************************************)
EXTENDS BufferCache, SequenceTheorems, FiniteSetTheorems, TLAPS

RQP == INSTANCE RequestQueueProofs WITH request <- RequestView

(* Every buffer is on the free list, so find_buffer() misses none.          *)
FreeListFull == \A b \in Bufs : \E i \in Bufs : free_list[i] = b

(* What the local variables c of a process at l are.                        *)
AtCall(l, c) ==
  /\ l # "user" => c.op \in Calls
  /\ l = "user" => c.keep = NoBuf
  /\ c.op = "sync" => l \in {"user", "sync", "ll", "slot"} /\ c.keep = NoBuf
  /\ l # "user" /\ c.op # "sync" =>
       /\ c.first \in Blocks /\ c.blk \in Blocks
       /\ c.keep = NoBuf => c.blk = c.first
       /\ c.op = "read_ahead" => c.ahead \in Blocks
  /\ c.keep # NoBuf =>
       c.op = "read_ahead" /\ l \notin {"user", "ahead", "bwait", "hold", "copy", "rel"}
  /\ l \in {"hashwait", "victim", "got", "ahead", "aheaddone", "bwait", "hold", "copy", "rel"}
       => c.bh \in Bufs
  /\ l \in {"sync", "ll", "slot"} /\ c.op # "sync" => c.bh \in Bufs
  /\ l = "ahead" => c.op = "read_ahead"
  /\ l = "aheaddone" => c.keep # NoBuf

(* The three uses of ll_rw_block(): sync_dev() writes a buffer, bread() and *)
(* breada() read the one they hold, and the read-ahead, which never waits.  *)
AtTransfer(l, c) ==
  l \in {"ll", "slot"} =>
    /\ c.tgt \in Bufs
    /\ \/ c.cmd = WRITE /\ c.ret = "sync"
       \/ /\ c.cmd = READ /\ c.tgt = c.bh /\ c.keep = NoBuf /\ c.op # "sync"
          /\ \/ c.ret = "bwait"
             \/ c.ret = "ahead" /\ c.op = "read_ahead"
       \/ /\ c.cmd = READA /\ c.ret = "aheaddone" /\ c.tgt = c.keep /\ c.keep # NoBuf
          /\ l = "ll"

Control == \A p \in Procs : AtCall(pc[p], loc[p]) /\ AtTransfer(pc[p], loc[p])

(* Where a process is only while it runs: the kernel is not preempted.      *)
Runs == \A p \in Procs : pc[p] \in {"scan", "ll", "got", "ahead", "aheaddone"} => cpu = p

(* p has locked b and waits for a slot to transfer it.                      *)
WaitsAt(l, c, b) == l = "slot" /\ c.tgt = b
Waits(p, b) == WaitsAt(pc[p], loc[p], b)

(* LockHasOneOwner without counting.                                        *)
LocksOwned ==
  /\ \A s, t \in Slots : request[s].bh \in Bufs /\ request[s].bh = request[t].bh => s = t
  /\ \A p, q \in Procs, b \in Bufs : Waits(p, b) /\ Waits(q, b) => p = q
  /\ \A s \in Slots, p \in Procs : request[s].bh \in Bufs => ~Waits(p, request[s].bh)
  /\ \A b \in Bufs :
       buf[b].lock <=> (\E s \in Slots : request[s].bh = b) \/ (\E p \in Procs : Waits(p, b))

(* ll_rw_block() is called for a buffer that is not locked and has a block. *)
(* What is to be written, or has been read, is there.                       *)
TargetAt(l, c) ==
  /\ l = "got" => ~buf[c.bh].lock
  /\ l = "ll" => /\ buf[c.tgt].block \in Blocks
                 /\ c.cmd # READA => ~buf[c.tgt].lock
  /\ l = "slot" /\ c.cmd = WRITE => buf[c.tgt].data \in Vals
  /\ l = "hold" /\ c.op # "raw_write" => buf[c.bh].data \in Vals

TargetsRight == \A p \in Procs : TargetAt(pc[p], loc[p])

LockedHasBlock == \A b \in Bufs : buf[b].lock => buf[b].block \in Blocks

(* A buffer with a flag that vouches for its contents has contents.         *)
DataKnown == \A b \in Bufs : buf[b].uptodate \/ buf[b].dirt => buf[b].data \in Vals

(* So has one whose write is queued, and what the disk was given of it.     *)
WritesKnown ==
  /\ \A s \in Slots : request[s].cmd = WRITE /\ request[s].bh \in Bufs
                       => buf[request[s].bh].data \in Vals
  /\ queue # <<>> /\ request[queue[1]].cmd = WRITE => xfer \in Vals

(* A free slot looks as RequestQueue's Free.                                *)
FreeIsRead == \A s \in Slots : request[s].bh = NoBuf => request[s].cmd = READ

(* The parts of the invariant that speak of processes and buffers, and all  *)
(* of it, with the elevator's.                                              *)
HeadInv ==
  /\ TypeOK /\ FreeListFull
  /\ Control /\ Runs
  /\ CountIsReferences
  /\ LocksOwned /\ TargetsRight /\ LockedHasBlock
  /\ DataKnown /\ WritesKnown
  /\ OneBufferPerBlock /\ HeldBufferKeepsBlock

CacheInv == HeadInv /\ FreeIsRead /\ RQP!QueueInv

(* Holds() of a process at l with local variables c, and the references it  *)
(* has to b.                                                                *)
HoldingAt(l, c, b) ==
  /\ c.bh = b
  /\ \/ l \in {"hashwait", "got", "ahead", "aheaddone", "bwait", "hold", "copy", "rel"}
     \/ l \in {"ll", "slot"} /\ c.ret # "sync"

One(P) == IF P THEN 1 ELSE 0
RefsAt(l, c, b) == One(HoldingAt(l, c, b)) + One(c.keep = b)

KeepsBlock(l, c) ==
  \A b \in Bufs : /\ HoldingAt(l, c, b) => buf[b].block = c.blk
                  /\ c.keep = b => buf[b].block = c.first

(* p goes from where it is to l with local variables c, and changes nothing *)
(* of a buffer head but its flags, its data and p's references to it.       *)
ProcStep(p, l, c) ==
  /\ l \in Locations /\ c \in Locals
  /\ pc' = [pc EXCEPT ![p] = l]
  /\ loc' = [loc EXCEPT ![p] = c]
  /\ cpu \in {p, NULL} /\ cpu' \in {p, NULL}
  /\ l \in {"scan", "ll", "got", "ahead", "aheaddone"} => cpu' = p
  /\ AtCall(l, c) /\ AtTransfer(l, c) /\ TargetAt(l, c) /\ KeepsBlock(l, c)
  /\ \A b \in Bufs : WaitsAt(l, c, b) <=> Waits(p, b)

HeadsStep(p, l, c) ==
  /\ buf' \in [Bufs -> BufferHeads]
  /\ \A b \in Bufs : buf'[b].block = buf[b].block /\ buf'[b].lock = buf[b].lock
  /\ \A b \in Bufs : buf[b].data \in Vals => buf'[b].data \in Vals
  /\ DataKnown'
  /\ \A b \in Bufs : buf'[b].count = buf[b].count + RefsAt(l, c, b) - RefsAt(pc[p], loc[p], b)

(* RequestQueue sees nothing of the step.                                   *)
SameTable == request' = request /\ queue' = queue /\ RequestView' = RequestView

RestStep ==
  /\ wait' \in [Procs -> Channels]
  /\ val' \in [Procs -> Vals \union {NULL}]
  /\ last' \in [Blocks -> Vals]
  /\ UNCHANGED <<free_list, dvars>>
-----------------------------------------------------------------------------
(* The constants.                                                           *)
LEMMA Numbers ==
  /\ NB \in Nat /\ NB > 0
  /\ SyncInodesCall \in Nat /\ SyncInodesCall = NB + 1
  /\ SyncEnd \in Nat /\ SyncEnd = 2 * NB + 1
  /\ NoBuf \notin Bufs
  /\ NoBlock \notin Blocks
  /\ NULL \notin Procs
  /\ READ # WRITE /\ READ # READA /\ WRITE # READA
  /\ IsFiniteSet(Procs)
<1>1. NB \in Nat /\ NB > 0 /\ Blocks \subseteq Nat /\ NULL \notin Procs /\ IsFiniteSet(Procs)
  BY CacheAssumption
<1>2. NoBuf \notin Bufs
  BY <1>1 DEF NoBuf, Bufs
<1>3. NoBlock \notin Blocks
  BY <1>1 DEF NoBlock
<1>4. READ # WRITE /\ READ # READA /\ WRITE # READA
  BY DEF READ, WRITE, READA
<1>5. /\ SyncInodesCall \in Nat /\ SyncInodesCall = NB + 1
      /\ SyncEnd \in Nat /\ SyncEnd = 2 * NB + 1
  BY <1>1 DEF SyncInodesCall, SyncEnd
<1> QED BY <1>1, <1>2, <1>3, <1>4, <1>5

(* The local variables of a process that makes no call.                     *)
LEMMA NoLocFacts == NoLoc \in Locals /\ NoLoc.op = "none" /\ NoLoc.keep = NoBuf
<1>1. PICK o \in Calls \union {"none"} : o = "none"
  OBVIOUS
<1>2. PICK n \in 1 .. (SyncEnd + 1) : n = 1
  BY Numbers
<1>3. PICK l \in Locations : l = "user"
  BY DEF Locations
<1>4. NoLoc = [op |-> o, first |-> NoBlock, ahead |-> NoBlock, blk |-> NoBlock, bh |-> NoBuf,
               keep |-> NoBuf, i |-> n, tgt |-> NoBuf, cmd |-> READ, ret |-> l]
  BY <1>1, <1>2, <1>3 DEF NoLoc
<1> QED BY <1>1, <1>4 DEF Locals

(* A set of processes that changes at most in p is counted one up or down.  *)
LEMMA Recount ==
  ASSUME NEW A, IsFiniteSet(A), NEW B, NEW p, \A q : q # p => (q \in A <=> q \in B)
  PROVE  /\ IsFiniteSet(B)
         /\ Cardinality(A) \in Nat /\ Cardinality(B) \in Nat
         /\ Cardinality(B) = Cardinality(A) + One(p \in B) - One(p \in A)
<1>0. Cardinality(A) \in Nat
  BY FS_CardinalityType
<1>1. CASE p \in A /\ p \in B
  <2>1. A = B
    BY <1>1
  <2> QED BY <2>1, <1>1, <1>0 DEF One
<1>2. CASE p \notin A /\ p \notin B
  <2>1. A = B
    BY <1>2
  <2> QED BY <2>1, <1>2, <1>0 DEF One
<1>3. CASE p \in A /\ p \notin B
  <2>1. B = A \ {p}
    BY <1>3
  <2>2. IsFiniteSet(A \ {p}) /\ Cardinality(A \ {p}) = Cardinality(A) - 1
    BY <1>3, FS_RemoveElement
  <2>3. Cardinality(B) \in Nat
    BY <2>1, <2>2, FS_CardinalityType
  <2> QED BY <2>1, <2>2, <2>3, <1>3, <1>0 DEF One
<1>4. CASE p \notin A /\ p \in B
  <2>1. B = A \union {p}
    BY <1>4
  <2>2. IsFiniteSet(A \union {p}) /\ Cardinality(A \union {p}) = Cardinality(A) + 1
    BY <1>4, FS_AddElement
  <2>3. Cardinality(B) \in Nat
    BY <2>1, <2>2, FS_CardinalityType
  <2> QED BY <2>1, <2>2, <2>3, <1>4, <1>0 DEF One
<1> QED BY <1>1, <1>2, <1>3, <1>4

(* A buffer somebody has a reference to is counted.                         *)
LEMMA HeldIsCounted ==
  ASSUME TypeOK, CountIsReferences, NEW p \in Procs, NEW b \in Bufs
  PROVE  buf[b].count \in Nat /\ RefsAt(pc[p], loc[p], b) =< buf[b].count
<1> DEFINE H == {q \in Procs : Holds(q, b)}
           K == {q \in Procs : loc[q].keep = b}
<1>1. buf[b].count = Cardinality(H) + Cardinality(K)
  BY DEF CountIsReferences
<1>2. IsFiniteSet(H) /\ IsFiniteSet(K)
  BY Numbers, FS_Subset
<1>3. /\ Cardinality(H) \in Nat /\ Cardinality(H \ {p}) \in Nat
      /\ Cardinality(H \ {p}) = Cardinality(H) + One(p \in H \ {p}) - One(p \in H)
  BY <1>2, Recount
<1>4. /\ Cardinality(K) \in Nat /\ Cardinality(K \ {p}) \in Nat
      /\ Cardinality(K \ {p}) = Cardinality(K) + One(p \in K \ {p}) - One(p \in K)
  BY <1>2, Recount
<1>5. One(p \in H \ {p}) = 0 /\ One(p \in K \ {p}) = 0
  BY DEF One
<1>6. One(p \in H) = One(HoldingAt(pc[p], loc[p], b)) /\ One(p \in K) = One(loc[p].keep = b)
  BY DEF One, HoldingAt, Holds
<1>7. One(p \in H) \in Nat /\ One(p \in K) \in Nat
  BY DEF One
<1> HIDE DEF H, K
<1>8. RefsAt(pc[p], loc[p], b) = One(p \in H) + One(p \in K)
  BY <1>6 DEF RefsAt
<1> QED BY <1>1, <1>3, <1>4, <1>5, <1>7, <1>8

(* References are counted when p alone changes its own.                     *)
LEMMA CountStep ==
  ASSUME TypeOK, CountIsReferences, NEW p \in Procs, NEW l, NEW c,
         pc' = [pc EXCEPT ![p] = l], loc' = [loc EXCEPT ![p] = c],
         \A b \in Bufs : buf'[b].count = buf[b].count + RefsAt(l, c, b) - RefsAt(pc[p], loc[p], b)
  PROVE  CountIsReferences'
<1> SUFFICES ASSUME NEW b \in Bufs
             PROVE  buf'[b].count = Cardinality({q \in Procs : Holds(q, b)'})
                                    + Cardinality({q \in Procs : loc'[q].keep = b})
  BY DEF CountIsReferences
<1> DEFINE H == {q \in Procs : Holds(q, b)}
           K == {q \in Procs : loc[q].keep = b}
           H1 == {q \in Procs : Holds(q, b)'}
           K1 == {q \in Procs : loc'[q].keep = b}
<1>1. buf[b].count = Cardinality(H) + Cardinality(K)
  BY DEF CountIsReferences
<1>2. IsFiniteSet(H) /\ IsFiniteSet(K)
  BY Numbers, FS_Subset
<1>3. pc \in [Procs -> Locations] /\ loc \in [Procs -> Locals]
  BY DEF TypeOK
<1>4. pc'[p] = l /\ loc'[p] = c
        /\ \A q \in Procs : q # p => pc'[q] = pc[q] /\ loc'[q] = loc[q]
  BY <1>3
<1>5. (\A q : q # p => (q \in H <=> q \in H1)) /\ \A q : q # p => (q \in K <=> q \in K1)
  BY <1>4 DEF Holds
<1>6. One(p \in H) = One(HoldingAt(pc[p], loc[p], b)) /\ One(p \in K) = One(loc[p].keep = b)
  BY DEF One, HoldingAt, Holds
<1>7. One(p \in H1) = One(HoldingAt(l, c, b)) /\ One(p \in K1) = One(c.keep = b)
  BY <1>4 DEF One, HoldingAt, Holds
<1>8. \A P : One(P) \in Nat
  BY DEF One
<1> HIDE DEF H, K, H1, K1
<1>9. Cardinality(H) \in Nat /\ Cardinality(H1) \in Nat
        /\ Cardinality(H1) = Cardinality(H) + One(p \in H1) - One(p \in H)
  BY <1>2, <1>5, Recount
<1>10. Cardinality(K) \in Nat /\ Cardinality(K1) \in Nat
        /\ Cardinality(K1) = Cardinality(K) + One(p \in K1) - One(p \in K)
  BY <1>2, <1>5, Recount
<1>11. buf'[b].count = buf[b].count + (One(p \in H1) + One(p \in K1)) - (One(p \in H) + One(p \in K))
  BY <1>6, <1>7 DEF RefsAt
<1>12. buf'[b].count = Cardinality(H1) + Cardinality(K1)
  <2>1. One(p \in H1) \in Nat /\ One(p \in K1) \in Nat /\ One(p \in H) \in Nat /\ One(p \in K) \in Nat
    BY <1>8
  <2> QED BY <1>1, <1>9, <1>10, <1>11, <2>1
<1> QED BY <1>12 DEF H1, K1

(* What a step of one process keeps, when it is a ProcStep.                 *)
LEMMA ProcStepKeeps ==
  ASSUME HeadInv, NEW p \in Procs, NEW l, NEW c,
         ProcStep(p, l, c), HeadsStep(p, l, c), RestStep
  PROVE  HeadInv' /\ SameTable
<1>0. TypeOK /\ FreeListFull /\ Control /\ Runs /\ CountIsReferences /\ LocksOwned
        /\ TargetsRight /\ LockedHasBlock /\ OneBufferPerBlock /\ HeldBufferKeepsBlock
        /\ WritesKnown
  BY DEF HeadInv
<1>1. pc \in [Procs -> Locations] /\ loc \in [Procs -> Locals]
        /\ l \in Locations /\ c \in Locals
        /\ pc' = [pc EXCEPT ![p] = l] /\ loc' = [loc EXCEPT ![p] = c]
  BY <1>0 DEF TypeOK, ProcStep
<1>2. pc' \in [Procs -> Locations] /\ loc' \in [Procs -> Locals] /\ pc'[p] = l /\ loc'[p] = c
        /\ \A q \in Procs : q # p => pc'[q] = pc[q] /\ loc'[q] = loc[q]
  BY <1>1
<1>3. UNCHANGED <<free_list, request, queue, xfer, disk>>
  BY DEF RestStep, dvars
<1>4. \A b \in Bufs : buf'[b].block = buf[b].block /\ buf'[b].lock = buf[b].lock
        /\ (buf[b].data \in Vals => buf'[b].data \in Vals)
  BY DEF HeadsStep
<1>5. TypeOK'
  <2>1. cpu' \in Procs \union {NULL}
    BY DEF ProcStep
  <2> QED BY <1>0, <1>2, <1>3, <2>1 DEF TypeOK, HeadsStep, RestStep
<1>6. FreeListFull'
  BY <1>0, <1>3 DEF FreeListFull
<1>7. Control'
  BY <1>0, <1>2 DEF Control, ProcStep
<1>8. Runs'
  <2> SUFFICES ASSUME NEW q \in Procs, pc'[q] \in {"scan", "ll", "got", "ahead", "aheaddone"}
               PROVE  cpu' = q
    BY DEF Runs
  <2>1. CASE q = p
    BY <2>1, <1>2 DEF ProcStep
  <2>2. CASE q # p
    <3>1. cpu = q
      BY <1>0, <1>2, <2>2 DEF Runs
    <3> QED BY <3>1, <2>2, Numbers DEF ProcStep
  <2> QED BY <2>1, <2>2
<1>9. CountIsReferences'
  <2>1. \A b \in Bufs : buf'[b].count = buf[b].count + RefsAt(l, c, b) - RefsAt(pc[p], loc[p], b)
    BY DEF HeadsStep
  <2> QED BY <1>0, <1>1, <2>1, CountStep
<1>10. \A q \in Procs, b \in Bufs : Waits(q, b)' <=> Waits(q, b)
  <2> SUFFICES ASSUME NEW q \in Procs, NEW b \in Bufs PROVE Waits(q, b)' <=> Waits(q, b)
    OBVIOUS
  <2>1. CASE q = p
    BY <2>1, <1>2 DEF ProcStep, Waits
  <2>2. CASE q # p
    BY <2>2, <1>2 DEF Waits, WaitsAt
  <2> QED BY <2>1, <2>2
<1>11. LocksOwned'
  BY <1>0, <1>3, <1>4, <1>10 DEF LocksOwned
<1>12. TargetsRight'
  <2> SUFFICES ASSUME NEW q \in Procs PROVE TargetAt(pc[q], loc[q])'
    BY DEF TargetsRight
  <2>1. TargetAt(pc'[q], loc'[q])
    BY <1>0, <1>2 DEF TargetsRight, ProcStep
  <2>2. AtCall(pc'[q], loc'[q]) /\ AtTransfer(pc'[q], loc'[q])
    BY <1>7 DEF Control
  <2> QED BY <2>1, <2>2, <1>4 DEF TargetAt, AtCall, AtTransfer
<1>13. LockedHasBlock'
  BY <1>0, <1>4 DEF LockedHasBlock
<1>14. OneBufferPerBlock'
  BY <1>0, <1>4 DEF OneBufferPerBlock
<1>15. HeldBufferKeepsBlock'
  <2> SUFFICES ASSUME NEW q \in Procs, NEW b \in Bufs
               PROVE  /\ Holds(q, b)' => buf'[b].block = loc'[q].blk
                      /\ loc'[q].keep = b => buf'[b].block = loc'[q].first
    BY DEF HeldBufferKeepsBlock
  <2>1. CASE q = p
    BY <2>1, <1>2, <1>4 DEF ProcStep, KeepsBlock, HoldingAt, Holds
  <2>2. CASE q # p
    BY <2>2, <1>0, <1>2, <1>4 DEF HeldBufferKeepsBlock, Holds
  <2> QED BY <2>1, <2>2
<1>16. DataKnown' /\ WritesKnown'
  BY <1>0, <1>3, <1>4 DEF HeadsStep, WritesKnown
<1>17. HeadInv'
  BY <1>5, <1>6, <1>7, <1>8, <1>9, <1>11, <1>12, <1>13, <1>14, <1>15, <1>16 DEF HeadInv
<1>18. RequestView' = RequestView
  <2>1. \A s \in Slots : request[s].bh = NoBuf \/ request[s].bh \in Bufs
    BY <1>0 DEF TypeOK
  <2> QED BY <2>1, <1>3, <1>4 DEF RequestView
<1> QED BY <1>3, <1>17, <1>18 DEF SameTable

(* Where p is, as the invariant has it.                                     *)
LEMMA Here ==
  ASSUME HeadInv, NEW p \in Procs
  PROVE  /\ pc[p] \in Locations /\ loc[p] \in Locals
         /\ loc = [loc EXCEPT ![p] = loc[p]] /\ pc = [pc EXCEPT ![p] = pc[p]]
         /\ AtCall(pc[p], loc[p]) /\ AtTransfer(pc[p], loc[p])
         /\ TargetAt(pc[p], loc[p]) /\ KeepsBlock(pc[p], loc[p])
<1>1. pc \in [Procs -> Locations] /\ loc \in [Procs -> Locals]
  BY DEF HeadInv, TypeOK
<1>2. pc[p] \in Locations /\ loc[p] \in Locals
         /\ loc = [loc EXCEPT ![p] = loc[p]] /\ pc = [pc EXCEPT ![p] = pc[p]]
  BY <1>1
<1>3. AtCall(pc[p], loc[p]) /\ AtTransfer(pc[p], loc[p]) /\ TargetAt(pc[p], loc[p])
  BY DEF HeadInv, Control, TargetsRight
<1>4. KeepsBlock(pc[p], loc[p])
  BY DEF HeadInv, HeldBufferKeepsBlock, KeepsBlock, HoldingAt, Holds
<1> QED BY <1>2, <1>3, <1>4

(* A step that keeps the buffers and p's references.                        *)
LEMMA QuietHeads ==
  ASSUME HeadInv, NEW p \in Procs, NEW l, NEW c, UNCHANGED buf,
         \A b \in Bufs : HoldingAt(l, c, b) <=> HoldingAt(pc[p], loc[p], b),
         \A b \in Bufs : c.keep = b <=> loc[p].keep = b
  PROVE  HeadsStep(p, l, c)
<1>1. buf \in [Bufs -> BufferHeads]
  BY DEF HeadInv, TypeOK
<1>2. ASSUME NEW b \in Bufs
      PROVE  buf'[b].count = buf[b].count + RefsAt(l, c, b) - RefsAt(pc[p], loc[p], b)
  <2>1. buf[b].count \in Nat
    BY <1>1 DEF BufferHeads
  <2>2. RefsAt(l, c, b) = RefsAt(pc[p], loc[p], b) /\ RefsAt(l, c, b) \in Nat
    BY DEF RefsAt, One
  <2> QED BY <2>1, <2>2
<1>3. DataKnown'
  BY DEF HeadInv, DataKnown
<1> QED BY <1>1, <1>2, <1>3 DEF HeadsStep

(* A step after which nothing but p's place and local variables is new.     *)
LEMMA QuietRest ==
  ASSUME HeadInv, UNCHANGED <<free_list, dvars, val, last>>, wait' \in [Procs -> Channels]
  PROVE  RestStep
BY DEF HeadInv, TypeOK, RestStep

(* wake_up() leaves everybody awake or on a channel.                        *)
LEMMA Awaken ==
  ASSUME HeadInv, NEW ch
  PROVE  WakeUp(wait, ch) \in [Procs -> Channels]
BY DEF HeadInv, TypeOK, WakeUp, Channels

(* p gives up the processor on a channel.                                   *)
LEMMA Asleep ==
  ASSUME HeadInv, NEW p \in Procs, NEW ch \in Channels, wait' = [wait EXCEPT ![p] = ch]
  PROVE  wait' \in [Procs -> Channels]
BY DEF HeadInv, TypeOK
(* The stages of a process that has searched for a slot.                    *)
LEMMA StageFacts == <<"searched", 0>> \in Channels /\ <<"searched", 1>> \in Channels
BY DEF Channels, Searched, Stage

(* What an interrupt does to those who wait for a slot.                     *)
LEMMA FreeSlotFacts ==
  ASSUME NEW ws \in [Procs -> Channels]
  PROVE  FreeSlot(ws) \in [Procs -> Channels]
<1>1. Awake \in Channels /\ Lost \in Channels
  BY DEF Channels
<1> QED BY <1>1, StageFacts DEF FreeSlot

(* A step that changes no reference and no block of a buffer.               *)
LEMMA SameRefs ==
  ASSUME CountIsReferences, HeldBufferKeepsBlock, loc' = loc,
         \A q \in Procs, d \in Bufs : Holds(q, d)' <=> Holds(q, d),
         \A d \in Bufs : buf'[d].block = buf[d].block /\ buf'[d].count = buf[d].count
  PROVE  CountIsReferences' /\ HeldBufferKeepsBlock'
<1>1. ASSUME NEW d \in Bufs
      PROVE  buf'[d].count = Cardinality({q \in Procs : Holds(q, d)'})
                             + Cardinality({q \in Procs : loc'[q].keep = d})
  <2>1. {q \in Procs : Holds(q, d)'} = {q \in Procs : Holds(q, d)}
    OBVIOUS
  <2>2. {q \in Procs : loc'[q].keep = d} = {q \in Procs : loc[q].keep = d}
    OBVIOUS
  <2>3. buf[d].count = Cardinality({q \in Procs : Holds(q, d)})
                       + Cardinality({q \in Procs : loc[q].keep = d})
    BY DEF CountIsReferences
  <2> QED BY <2>1, <2>2, <2>3, Zenon
<1>2. HeldBufferKeepsBlock'
  BY DEF HeldBufferKeepsBlock
<1> QED BY <1>1, <1>2 DEF CountIsReferences

(* A step that changes nothing but who waits for what.                      *)
LEMMA OnlyWaits ==
  ASSUME HeadInv, wait' \in [Procs -> Channels],
         UNCHANGED <<buf, free_list, request, queue, xfer, disk, pc, loc, cpu, val, last>>
  PROVE  HeadInv' /\ SameTable
<1>1. SameTable
  BY DEF SameTable, RequestView
<1>2. TypeOK' /\ FreeListFull' /\ Control' /\ Runs'
  BY DEF HeadInv, TypeOK, FreeListFull, Control, Runs, AtCall, AtTransfer
<1>3. CountIsReferences' /\ HeldBufferKeepsBlock'
  <2>1. CountIsReferences /\ HeldBufferKeepsBlock
    BY DEF HeadInv
  <2>2. \A q \in Procs, d \in Bufs : Holds(q, d)' <=> Holds(q, d)
    BY DEF Holds
  <2> QED BY <2>1, <2>2, SameRefs
<1>4. LocksOwned' /\ TargetsRight' /\ LockedHasBlock' /\ DataKnown' /\ WritesKnown'
        /\ OneBufferPerBlock'
  BY DEF HeadInv, LocksOwned, Waits, WaitsAt, TargetsRight, TargetAt, LockedHasBlock, DataKnown,
         WritesKnown, OneBufferPerBlock
<1> QED BY <1>1, <1>2, <1>3, <1>4 DEF HeadInv
-----------------------------------------------------------------------------
(* The calls, and getblk() as long as it only looks.                        *)
LEMMA BeginStep ==
  ASSUME HeadInv, NEW p \in Procs, NEW k \in Blocks, NEW op \in Calls \ {"sync"}, Begin(p, op, k)
  PROVE  HeadInv' /\ SameTable
<1>1. PICK a \in IF op = "read_ahead" THEN Blocks \ {k} ELSE {NoBlock} :
        loc' = [loc EXCEPT ![p] = [NoLoc EXCEPT !.op = op, !.first = k, !.blk = k, !.ahead = a]]
  BY DEF Begin
<1>2. PICK c : c = [NoLoc EXCEPT !.op = op, !.first = k, !.blk = k, !.ahead = a]
  OBVIOUS
<1>3. a \in Blocks \union {NoBlock} /\ (op = "read_ahead" => a \in Blocks)
  OBVIOUS
<1>4. NoLoc \in Locals /\ NoLoc.keep = NoBuf
  BY NoLocFacts
<1>5. c \in Locals /\ c.op = op /\ c.first = k /\ c.blk = k /\ c.ahead = a /\ c.keep = NoBuf
  BY <1>2, <1>3, <1>4 DEF Locals
<1>6. ProcStep(p, "hash", c)
  <2>1. "hash" \in Locations
    BY DEF Locations
  <2>2. AtCall("hash", c) /\ AtTransfer("hash", c) /\ TargetAt("hash", c)
    BY <1>3, <1>5 DEF AtCall, AtTransfer, TargetAt
  <2>3. KeepsBlock("hash", c)
    BY <1>5, Numbers DEF KeepsBlock, HoldingAt
  <2>4. pc[p] = "user" /\ cpu = NULL /\ pc' = [pc EXCEPT ![p] = "hash"] /\ cpu' = p
    BY DEF Begin, Goto
  <2> QED BY <1>1, <1>2, <1>5, <2>1, <2>2, <2>3, <2>4 DEF ProcStep, WaitsAt, Waits
<1>7. HeadsStep(p, "hash", c)
  <2>1. pc[p] = "user" /\ UNCHANGED buf
    BY DEF Begin, bvars
  <2>2. loc[p].keep = NoBuf
    BY <2>1, Here DEF AtCall
  <2> QED BY <2>1, <2>2, <1>5, QuietHeads DEF HoldingAt
<1>8. RestStep
  <2>1. wait' = wait
    BY DEF Begin
  <2> QED BY <2>1, QuietRest DEF Begin, bvars, HeadInv, TypeOK
<1> QED BY <1>6, <1>7, <1>8, ProcStepKeeps

(* A process calls sync().                                                  *)
LEMMA BeginSyncStep ==
  ASSUME HeadInv, NEW p \in Procs, BeginSync(p)
  PROVE  HeadInv' /\ SameTable
<1>2. PICK c : c = [NoLoc EXCEPT !.op = "sync", !.i = SyncInodesCall]
  OBVIOUS
<1>4. NoLoc \in Locals /\ NoLoc.keep = NoBuf
  BY NoLocFacts
<1>3. PICK n \in 1 .. (SyncEnd + 1) : n = SyncInodesCall
  BY Numbers
<1>5. c \in Locals /\ c.op = "sync" /\ c.keep = NoBuf
  <2>1. PICK o \in Calls : o = "sync"
    BY DEF Calls
  <2>2. c = [NoLoc EXCEPT !.op = o, !.i = n]
    BY <1>2, <1>3, <2>1
  <2>3. c \in Locals /\ c.op = o /\ c.keep = NoBuf
    BY <2>2, <1>4 DEF Locals
  <2> QED BY <2>1, <2>3
<1>6. ProcStep(p, "sync", c)
  <2>1. "sync" \in Locations
    BY DEF Locations
  <2>2. AtCall("sync", c) /\ AtTransfer("sync", c) /\ TargetAt("sync", c)
    BY <1>5 DEF AtCall, AtTransfer, TargetAt, Calls
  <2>3. KeepsBlock("sync", c)
    BY <1>5, Numbers DEF KeepsBlock, HoldingAt
  <2>4. pc[p] = "user" /\ cpu = NULL /\ pc' = [pc EXCEPT ![p] = "sync"] /\ cpu' = p
          /\ loc' = [loc EXCEPT ![p] = c]
    BY <1>2 DEF BeginSync, Goto
  <2> QED BY <1>5, <2>1, <2>2, <2>3, <2>4 DEF ProcStep, WaitsAt, Waits
<1>7. HeadsStep(p, "sync", c)
  <2>1. pc[p] = "user" /\ UNCHANGED buf
    BY DEF BeginSync, bvars
  <2>2. loc[p].keep = NoBuf
    BY <2>1, Here DEF AtCall
  <2> QED BY <2>1, <2>2, <1>5, QuietHeads DEF HoldingAt
<1>8. RestStep
  <2>1. wait' = wait
    BY DEF BeginSync
  <2> QED BY <2>1, QuietRest DEF BeginSync, bvars, HeadInv, TypeOK
<1> QED BY <1>6, <1>7, <1>8, ProcStepKeeps

(* find_buffer() finds the block if a buffer has it.                        *)
LEMMA FindBufferFacts ==
  ASSUME TypeOK, FreeListFull, NEW k
  PROVE  \/ FindBuffer(k) \in Bufs /\ buf[FindBuffer(k)].block = k
         \/ FindBuffer(k) = NoBuf /\ \A b \in Bufs : buf[b].block # k
<1> DEFINE I == {i \in 1 .. Len(free_list) : buf[free_list[i]].block = k}
<1>1. free_list \in [Bufs -> Bufs] /\ Bufs = 1 .. NB /\ NB \in Nat
  BY Numbers DEF TypeOK, Bufs
<1>2. free_list \in Seq(Bufs) /\ Len(free_list) = NB
  <2>1. free_list \in [1 .. NB -> Bufs]
    BY <1>1
  <2> QED BY <2>1, <1>1
<1>3. FindBuffer(k) = IF (IF I # {} THEN Max(I) ELSE 0) = 0 THEN NoBuf
                      ELSE free_list[IF I # {} THEN Max(I) ELSE 0]
  BY DEF FindBuffer, SelectLastInSeq
<1>4. CASE I = {}
  <2>1. ASSUME NEW b \in Bufs PROVE buf[b].block # k
    <3>1. PICK i \in Bufs : free_list[i] = b
      BY DEF FreeListFull
    <3>2. i \in 1 .. Len(free_list)
      BY <1>1, <1>2
    <3> QED BY <3>1, <3>2, <1>4
  <2> HIDE DEF I
  <2>2. FindBuffer(k) = NoBuf
    BY <1>3, <1>4
  <2> QED BY <2>1, <2>2
<1>5. CASE I # {}
  <2>1. I \in SUBSET (0 .. NB)
    BY <1>1, <1>2
  <2> HIDE DEF I
  <2>2. Max(I) \in I
    BY <2>1, <1>1, <1>5, RQP!MaxFacts, CacheAssumption DEF RQP!Max, Max
  <2>3. Max(I) \in 1 .. NB /\ buf[free_list[Max(I)]].block = k
    BY <2>2, <1>2 DEF I
  <2>4. FindBuffer(k) = free_list[Max(I)]
    BY <1>3, <1>5, <2>3
  <2>5. free_list[Max(I)] \in Bufs
    BY <2>3, <1>1
  <2> QED BY <2>3, <2>4, <2>5
<1> QED BY <1>4, <1>5

(* wait_on_buffer() sleeps.                                                 *)
LEMMA WaitStep ==
  ASSUME HeadInv, NEW p \in Procs, Wait(p)
  PROVE  HeadInv' /\ SameTable
<1>1. PICK l \in {"hashwait", "victim", "bwait", "rel"} : WaitOnBuffer(p, loc[p].bh, l)
  BY DEF Wait
<1>2. pc[p] = l /\ cpu \in {p, NULL} /\ cpu' = NULL /\ UNCHANGED <<bvars, dvars, loc, val, last>>
        /\ pc' = [pc EXCEPT ![p] = l] /\ wait' = [wait EXCEPT ![p] = BWait(loc[p].bh)]
  BY <1>1 DEF WaitOnBuffer, At, SleepOn
<1>3. loc[p].bh \in Bufs
  BY <1>1, <1>2, Here DEF AtCall
<1>4. ProcStep(p, l, loc[p])
  BY <1>1, <1>2, Here DEF ProcStep, Waits
<1>5. HeadsStep(p, l, loc[p])
  BY <1>2, QuietHeads DEF bvars
<1>6. RestStep
  <2>1. BWait(loc[p].bh) \in Channels
    BY <1>3 DEF Channels
  <2> QED BY <1>2, <2>1, Asleep, QuietRest DEF bvars
<1> QED BY <1>4, <1>5, <1>6, ProcStepKeeps

(* getblk() starts again.                                                   *)
LEMMA RepeatStep ==
  ASSUME HeadInv, NEW p \in Procs, Repeat(p)
  PROVE  HeadInv' /\ SameTable
<1>1. pc[p] = "victim" /\ cpu \in {p, NULL} /\ cpu' = p /\ pc' = [pc EXCEPT ![p] = "hash"]
        /\ UNCHANGED <<bvars, dvars, loc, wait, val, last>>
  BY DEF Repeat, At, Goto
<1>2. ProcStep(p, "hash", loc[p])
  <2>1. "hash" \in Locations
    BY DEF Locations
  <2>2. AtCall("hash", loc[p]) /\ AtTransfer("hash", loc[p]) /\ TargetAt("hash", loc[p])
    BY <1>1, Here DEF AtCall, AtTransfer, TargetAt
  <2>3. KeepsBlock("hash", loc[p])
    BY <1>1, Here DEF KeepsBlock, HoldingAt
  <2> QED BY <1>1, <2>1, <2>2, <2>3, Here DEF ProcStep, Waits, WaitsAt
<1>3. HeadsStep(p, "hash", loc[p])
  BY <1>1, QuietHeads DEF bvars, HoldingAt
<1>4. RestStep
  BY <1>1, QuietRest DEF bvars, HeadInv, TypeOK
<1> QED BY <1>2, <1>3, <1>4, ProcStepKeeps

(* getblk() has looked through the free list.                               *)
LEMMA ScanStep ==
  ASSUME HeadInv, NEW p \in Procs, Scan(p)
  PROVE  HeadInv' /\ SameTable
<1>1. pc[p] = "scan" /\ cpu \in {p, NULL} /\ UNCHANGED <<bvars, dvars, val, last>>
  BY DEF Scan, At
<1>2. CASE SleepOn(p, BufferWait, "hash") /\ UNCHANGED loc
  <2>1. ProcStep(p, "hash", loc[p])
    <3>1. "hash" \in Locations
      BY DEF Locations
    <3>2. AtCall("hash", loc[p]) /\ AtTransfer("hash", loc[p]) /\ TargetAt("hash", loc[p])
      BY <1>1, Here DEF AtCall, AtTransfer, TargetAt
    <3>3. KeepsBlock("hash", loc[p])
      BY <1>1, Here DEF KeepsBlock, HoldingAt
    <3> QED BY <1>1, <1>2, <3>1, <3>2, <3>3, Here DEF ProcStep, Waits, WaitsAt, SleepOn
  <2>2. HeadsStep(p, "hash", loc[p])
    BY <1>1, QuietHeads DEF bvars, HoldingAt
  <2>3. RestStep
    <3>1. BufferWait \in Channels
      BY DEF Channels
    <3> QED BY <1>1, <1>2, <3>1, Asleep, QuietRest DEF bvars, SleepOn
  <2> QED BY <2>1, <2>2, <2>3, ProcStepKeeps
<1>3. CASE ~(SleepOn(p, BufferWait, "hash") /\ UNCHANGED loc)
  <2>1. PICK i \in Bufs : /\ loc' = [loc EXCEPT ![p].bh = free_list[i]]
                          /\ Goto(p, "victim") /\ UNCHANGED wait
    BY <1>3 DEF Scan
  <2>2. free_list[i] \in Bufs
    BY DEF HeadInv, TypeOK
  <2>3. PICK c : c = [loc[p] EXCEPT !.bh = free_list[i]]
    OBVIOUS
  <2>4. loc' = [loc EXCEPT ![p] = c]
    BY <2>1, <2>3
  <2>5. /\ c \in Locals /\ c.bh = free_list[i] /\ c.op = loc[p].op /\ c.first = loc[p].first
        /\ c.blk = loc[p].blk /\ c.keep = loc[p].keep /\ c.ahead = loc[p].ahead
    BY <2>2, <2>3, Here DEF Locals
  <2>6. ProcStep(p, "victim", c)
    <3>1. "victim" \in Locations
      BY DEF Locations
    <3>2. AtCall("victim", c) /\ AtTransfer("victim", c) /\ TargetAt("victim", c)
      BY <1>1, <2>2, <2>5, Here DEF AtCall, AtTransfer, TargetAt
    <3>3. KeepsBlock("victim", c)
      BY <1>1, <2>5, Here DEF KeepsBlock, HoldingAt
    <3> QED BY <1>1, <2>1, <2>4, <2>5, <3>1, <3>2, <3>3 DEF ProcStep, Waits, WaitsAt, Goto
  <2>7. HeadsStep(p, "victim", c)
    BY <1>1, <2>5, QuietHeads DEF bvars, HoldingAt
  <2>8. RestStep
    BY <1>1, <2>1, QuietRest DEF bvars, HeadInv, TypeOK
  <2> QED BY <2>6, <2>7, <2>8, ProcStepKeeps
<1> QED BY <1>2, <1>3

(* getblk() has its victim written.                                         *)
LEMMA CleanVictimStep ==
  ASSUME HeadInv, NEW p \in Procs, CleanVictim(p)
  PROVE  HeadInv' /\ SameTable
<1>1. pc[p] = "victim" /\ cpu \in {p, NULL} /\ cpu' = p /\ pc' = [pc EXCEPT ![p] = "sync"]
        /\ loc' = [loc EXCEPT ![p].i = 1] /\ UNCHANGED <<bvars, dvars, wait, val, last>>
  BY DEF CleanVictim, At, Goto
<1>2. PICK n \in 1 .. (SyncEnd + 1) : n = 1
  BY Numbers
<1>3. PICK c : c = [loc[p] EXCEPT !.i = n]
  OBVIOUS
<1>4. loc' = [loc EXCEPT ![p] = c]
  BY <1>1, <1>2, <1>3
<1>5. /\ c \in Locals /\ c.bh = loc[p].bh /\ c.op = loc[p].op /\ c.first = loc[p].first
      /\ c.blk = loc[p].blk /\ c.keep = loc[p].keep /\ c.ahead = loc[p].ahead
  BY <1>3, Here DEF Locals
<1>6. ProcStep(p, "sync", c)
  <2>1. "sync" \in Locations
    BY DEF Locations
  <2>2. AtCall("sync", c) /\ AtTransfer("sync", c) /\ TargetAt("sync", c)
    BY <1>1, <1>5, Here DEF AtCall, AtTransfer, TargetAt
  <2>3. KeepsBlock("sync", c)
    BY <1>1, <1>5, Here DEF KeepsBlock, HoldingAt
  <2> QED BY <1>1, <1>4, <1>5, <2>1, <2>2, <2>3 DEF ProcStep, Waits, WaitsAt
<1>7. HeadsStep(p, "sync", c)
  BY <1>1, <1>5, QuietHeads DEF bvars, HoldingAt
<1>8. RestStep
  BY <1>1, QuietRest DEF bvars, HeadInv, TypeOK
<1> QED BY <1>6, <1>7, <1>8, ProcStepKeeps

(* A step that changes p's references to b alone, and counts it.            *)
LEMMA CountedHeads ==
  ASSUME HeadInv, NEW p \in Procs, NEW l, NEW c, NEW b \in Bufs, NEW n \in Nat,
         buf' = [buf EXCEPT ![b].count = n],
         n = buf[b].count + RefsAt(l, c, b) - RefsAt(pc[p], loc[p], b),
         \A d \in Bufs : d # b => RefsAt(l, c, d) = RefsAt(pc[p], loc[p], d)
  PROVE  HeadsStep(p, l, c)
<1>1. buf \in [Bufs -> BufferHeads]
  BY DEF HeadInv, TypeOK
<1>2. buf' \in [Bufs -> BufferHeads]
  BY <1>1 DEF BufferHeads
<1>3. \A d \in Bufs : buf'[d].block = buf[d].block /\ buf'[d].lock = buf[d].lock
  BY <1>1 DEF BufferHeads
<1>4. buf'[b].count = n /\ \A d \in Bufs : d # b => buf'[d].count = buf[d].count
  BY <1>1 DEF BufferHeads
<1>5. ASSUME NEW d \in Bufs
      PROVE  buf'[d].count = buf[d].count + RefsAt(l, c, d) - RefsAt(pc[p], loc[p], d)
  <2>1. CASE d = b
    BY <2>1, <1>4
  <2>2. CASE d # b
    <3>1. buf[d].count \in Nat /\ RefsAt(l, c, d) \in Nat
      BY <1>1 DEF BufferHeads, RefsAt, One
    <3> QED BY <3>1, <2>2, <1>4
  <2> QED BY <2>1, <2>2
<1>6. \A d \in Bufs : buf'[d].data = buf[d].data /\ buf'[d].dirt = buf[d].dirt
                      /\ buf'[d].uptodate = buf[d].uptodate
  BY <1>1 DEF BufferHeads
<1>7. DataKnown'
  BY <1>6 DEF HeadInv, DataKnown
<1> QED BY <1>2, <1>3, <1>5, <1>6, <1>7 DEF HeadsStep

(* get_hash_table() counts a reference to the buffer it finds.              *)
LEMMA HashStep ==
  ASSUME HeadInv, NEW p \in Procs, Hash(p)
  PROVE  HeadInv' /\ SameTable
<1>1. PICK b : b = FindBuffer(loc[p].blk)
  OBVIOUS
<1>2. pc[p] = "hash" /\ cpu \in {p, NULL} /\ UNCHANGED <<free_list, dvars, wait, val, last>>
        /\ loc' = [loc EXCEPT ![p].bh = b]
        /\ IF b = NoBuf
             THEN Goto(p, "scan") /\ UNCHANGED buf
             ELSE Goto(p, "hashwait") /\ buf' = [buf EXCEPT ![b].count = @ + 1]
  BY <1>1 DEF Hash, At
<1>3. \/ b \in Bufs /\ buf[b].block = loc[p].blk
      \/ b = NoBuf
  BY <1>1, FindBufferFacts DEF HeadInv
<1>4. PICK c : c = [loc[p] EXCEPT !.bh = b]
  OBVIOUS
<1>5. loc' = [loc EXCEPT ![p] = c]
  BY <1>2, <1>4
<1>6. /\ c \in Locals /\ c.bh = b /\ c.op = loc[p].op /\ c.first = loc[p].first
      /\ c.blk = loc[p].blk /\ c.keep = loc[p].keep /\ c.ahead = loc[p].ahead
  BY <1>3, <1>4, Here DEF Locals
<1>7. RestStep
  BY <1>2, QuietRest DEF HeadInv, TypeOK
<1>8. CASE b = NoBuf
  <2>1. ProcStep(p, "scan", c)
    <3>1. "scan" \in Locations
      BY DEF Locations
    <3>2. AtCall("scan", c) /\ AtTransfer("scan", c) /\ TargetAt("scan", c)
      BY <1>2, <1>6, Here DEF AtCall, AtTransfer, TargetAt
    <3>3. KeepsBlock("scan", c)
      BY <1>2, <1>6, Here DEF KeepsBlock, HoldingAt
    <3> QED BY <1>2, <1>5, <1>6, <1>8, <3>1, <3>2, <3>3 DEF ProcStep, Waits, WaitsAt, Goto
  <2>2. HeadsStep(p, "scan", c)
    BY <1>2, <1>6, <1>8, QuietHeads DEF HoldingAt
  <2> QED BY <2>1, <2>2, <1>7, ProcStepKeeps
<1>9. CASE b # NoBuf
  <2>0. b \in Bufs
    BY <1>3, <1>9
  <2>1. ProcStep(p, "hashwait", c)
    <3>1. "hashwait" \in Locations
      BY DEF Locations
    <3>2. AtCall("hashwait", c) /\ AtTransfer("hashwait", c) /\ TargetAt("hashwait", c)
      BY <1>2, <1>6, <2>0, Here DEF AtCall, AtTransfer, TargetAt
    <3>3. KeepsBlock("hashwait", c)
      BY <1>2, <1>3, <1>6, <1>9, Here DEF KeepsBlock, HoldingAt
    <3> QED BY <1>2, <1>5, <1>6, <1>9, <3>1, <3>2, <3>3 DEF ProcStep, Waits, WaitsAt, Goto
  <2>2. HeadsStep(p, "hashwait", c)
    <3>1. buf[b].count \in Nat
      BY <2>0 DEF HeadInv, TypeOK, BufferHeads
    <3>2. PICK n \in Nat : n = buf[b].count + 1
      BY <3>1
    <3>3. buf' = [buf EXCEPT ![b].count = n]
      BY <1>2, <1>9, <3>2
    <3>4. RefsAt("hashwait", c, b) = RefsAt(pc[p], loc[p], b) + 1 /\ RefsAt(pc[p], loc[p], b) \in Nat
      BY <1>2, <1>6 DEF RefsAt, One, HoldingAt
    <3>5. n = buf[b].count + RefsAt("hashwait", c, b) - RefsAt(pc[p], loc[p], b)
      BY <3>1, <3>2, <3>4
    <3>6. ASSUME NEW d \in Bufs, d # b PROVE RefsAt("hashwait", c, d) = RefsAt(pc[p], loc[p], d)
      BY <3>6, <1>2, <1>6 DEF RefsAt, One, HoldingAt
    <3> QED BY <2>0, <3>3, <3>5, <3>6, CountedHeads
  <2> QED BY <2>1, <2>2, <1>7, ProcStepKeeps
<1> QED BY <1>8, <1>9

(* The test after wait_on_buffer() never fails: a counted buffer keeps its  *)
(* block while p sleeps.                                                    *)
LEMMA HashWaitStep ==
  ASSUME HeadInv, NEW p \in Procs, HashWait(p)
  PROVE  HeadInv' /\ SameTable
<1>1. pc[p] = "hashwait" /\ cpu \in {p, NULL} /\ ~buf[loc[p].bh].lock
        /\ UNCHANGED <<free_list, dvars, loc, wait, val, last>>
  BY DEF HashWait, At
<1>2. loc[p].bh \in Bufs
  BY <1>1, Here DEF AtCall
<1>3. buf[loc[p].bh].block = loc[p].blk
  BY <1>1, <1>2, Here DEF KeepsBlock, HoldingAt
<1>4. cpu' = p /\ pc' = [pc EXCEPT ![p] = "got"] /\ UNCHANGED buf
  BY <1>3 DEF HashWait, Goto
<1>5. ProcStep(p, "got", loc[p])
  <2>1. "got" \in Locations
    BY DEF Locations
  <2>2. AtCall("got", loc[p]) /\ AtTransfer("got", loc[p]) /\ TargetAt("got", loc[p])
    BY <1>1, <1>2, Here DEF AtCall, AtTransfer, TargetAt
  <2>3. KeepsBlock("got", loc[p])
    BY <1>1, Here DEF KeepsBlock, HoldingAt
  <2> QED BY <1>1, <1>4, <2>1, <2>2, <2>3, Here DEF ProcStep, Waits, WaitsAt
<1>6. HeadsStep(p, "got", loc[p])
  BY <1>1, <1>4, QuietHeads DEF HoldingAt
<1>7. RestStep
  BY <1>1, QuietRest DEF HeadInv, TypeOK
<1> QED BY <1>5, <1>6, <1>7, ProcStepKeeps

(* breada() gives the second buffer back.                                   *)
LEMMA BreadaDoneStep ==
  ASSUME HeadInv, NEW p \in Procs, BreadaDone(p)
  PROVE  HeadInv' /\ SameTable
<1>1. pc[p] = "aheaddone" /\ cpu \in {p, NULL} /\ cpu' = p /\ pc' = [pc EXCEPT ![p] = "bwait"]
        /\ buf' = [buf EXCEPT ![loc[p].bh].count = @ - 1]
        /\ loc' = [loc EXCEPT ![p].bh = loc[p].keep, ![p].keep = NoBuf, ![p].blk = loc[p].first]
        /\ UNCHANGED <<free_list, dvars, wait, val, last>>
  BY DEF BreadaDone, At, Goto
<1>2. PICK b \in Bufs : b = loc[p].bh
  BY <1>1, Here DEF AtCall
<1>3. loc[p].keep \in Bufs /\ loc[p].first \in Blocks /\ loc[p].op = "read_ahead"
  BY <1>1, Here DEF AtCall, Locals
<1>4. PICK c : c = [loc[p] EXCEPT !.bh = loc[p].keep, !.keep = NoBuf, !.blk = loc[p].first]
  OBVIOUS
<1>5. loc' = [loc EXCEPT ![p] = c]
  BY <1>1, <1>4
<1>6. /\ c \in Locals /\ c.bh = loc[p].keep /\ c.keep = NoBuf /\ c.blk = loc[p].first
      /\ c.op = loc[p].op /\ c.first = loc[p].first /\ c.ahead = loc[p].ahead
  BY <1>4, Here DEF Locals
<1>7. ProcStep(p, "bwait", c)
  <2>1. "bwait" \in Locations
    BY DEF Locations
  <2>2. AtCall("bwait", c) /\ AtTransfer("bwait", c) /\ TargetAt("bwait", c)
    BY <1>1, <1>3, <1>6, Here DEF AtCall, AtTransfer, TargetAt
  <2>3. KeepsBlock("bwait", c)
    BY <1>1, <1>6, Numbers, Here DEF KeepsBlock, HoldingAt
  <2> QED BY <1>1, <1>5, <1>6, <2>1, <2>2, <2>3 DEF ProcStep, Waits, WaitsAt
<1>8. HeadsStep(p, "bwait", c)
  <2>1. buf[b].count \in Nat /\ RefsAt(pc[p], loc[p], b) =< buf[b].count
    BY HeldIsCounted DEF HeadInv
  <2>2. RefsAt(pc[p], loc[p], b) = RefsAt("bwait", c, b) + 1 /\ RefsAt("bwait", c, b) \in Nat
    BY <1>1, <1>2, <1>6, Numbers DEF RefsAt, One, HoldingAt
  <2>3. PICK n \in Nat : n = buf[b].count - 1
    BY <2>1, <2>2
  <2>4. buf' = [buf EXCEPT ![b].count = n]
    BY <1>1, <1>2, <2>3
  <2>5. n = buf[b].count + RefsAt("bwait", c, b) - RefsAt(pc[p], loc[p], b)
    BY <2>1, <2>2, <2>3
  <2>6. ASSUME NEW d \in Bufs, d # b PROVE RefsAt("bwait", c, d) = RefsAt(pc[p], loc[p], d)
    BY <2>6, <1>1, <1>2, <1>6, Numbers DEF RefsAt, One, HoldingAt
  <2> QED BY <2>4, <2>5, <2>6, CountedHeads
<1>9. RestStep
  BY <1>1, QuietRest DEF HeadInv, TypeOK
<1> QED BY <1>7, <1>8, <1>9, ProcStepKeeps

(* brelse() gives a reference back.                                         *)
LEMMA BrelseStep ==
  ASSUME HeadInv, NEW p \in Procs, Brelse(p)
  PROVE  HeadInv' /\ SameTable
<1>1. pc[p] = "rel" /\ cpu \in {p, NULL} /\ cpu' = NULL /\ pc' = [pc EXCEPT ![p] = "user"]
        /\ buf' = [buf EXCEPT ![loc[p].bh].count = @ - 1]
        /\ loc' = [loc EXCEPT ![p] = NoLoc] /\ wait' = WakeUp(wait, BufferWait)
        /\ val' = [val EXCEPT ![p] = NULL] /\ UNCHANGED <<free_list, dvars, last>>
  BY DEF Brelse, At, Yield
<1>2. PICK b \in Bufs : b = loc[p].bh
  BY <1>1, Here DEF AtCall
<1>3. loc[p].keep = NoBuf
  BY <1>1, Here DEF AtCall
<1>4. ProcStep(p, "user", NoLoc)
  <2>1. "user" \in Locations
    BY DEF Locations
  <2>2. AtCall("user", NoLoc) /\ AtTransfer("user", NoLoc) /\ TargetAt("user", NoLoc)
    BY NoLocFacts DEF AtCall, AtTransfer, TargetAt
  <2>3. KeepsBlock("user", NoLoc)
    BY NoLocFacts, Numbers DEF KeepsBlock, HoldingAt
  <2> QED BY <1>1, <2>1, <2>2, <2>3, NoLocFacts DEF ProcStep, Waits, WaitsAt
<1>5. HeadsStep(p, "user", NoLoc)
  <2>1. buf[b].count \in Nat /\ RefsAt(pc[p], loc[p], b) =< buf[b].count
    BY HeldIsCounted DEF HeadInv
  <2>2. RefsAt(pc[p], loc[p], b) = 1 /\ RefsAt("user", NoLoc, b) = 0
    BY <1>1, <1>2, <1>3, NoLocFacts, Numbers DEF RefsAt, One, HoldingAt
  <2>3. PICK n \in Nat : n = buf[b].count - 1
    BY <2>1, <2>2
  <2>4. buf' = [buf EXCEPT ![b].count = n]
    BY <1>1, <1>2, <2>3
  <2>5. n = buf[b].count + RefsAt("user", NoLoc, b) - RefsAt(pc[p], loc[p], b)
    BY <2>1, <2>2, <2>3
  <2>6. ASSUME NEW d \in Bufs, d # b PROVE RefsAt("user", NoLoc, d) = RefsAt(pc[p], loc[p], d)
    BY <2>6, <1>1, <1>2, <1>3, NoLocFacts, Numbers DEF RefsAt, One, HoldingAt
  <2> QED BY <2>4, <2>5, <2>6, CountedHeads
<1>6. RestStep
  <2>1. val' \in [Procs -> Vals \union {NULL}]
    BY <1>1 DEF HeadInv, TypeOK
  <2>2. wait' \in [Procs -> Channels]
    BY <1>1, Awaken
  <2> QED BY <1>1, <2>1, <2>2 DEF RestStep, HeadInv, TypeOK
<1> QED BY <1>4, <1>5, <1>6, ProcStepKeeps

-----------------------------------------------------------------------------
(* sync_dev().                                                              *)
LEMMA SyncTodoFacts ==
  ASSUME HeadInv, NEW p \in Procs, SyncTodo(p) # {}
  PROVE  LET i == Min(SyncTodo(p)) IN
         /\ i \in 1 .. SyncEnd
         /\ i # SyncInodesCall => /\ SyncBuf(i) \in Bufs
                                /\ buf[SyncBuf(i)].block \in Blocks
<1>1. loc[p].i \in 1 .. (SyncEnd + 1)
  BY Here DEF Locals
<1>2. SyncTodo(p) \in SUBSET Nat
  BY <1>1, Numbers DEF SyncTodo
<1>3. PICK i \in SyncTodo(p) : i = Min(SyncTodo(p))
  BY <1>2, RQP!MinFacts, CacheAssumption DEF RQP!Min, Min
<1>4. /\ i \in 1 .. SyncEnd
      /\ i # SyncInodesCall => buf[SyncBuf(i)].block # NoBlock
  BY <1>1, Numbers DEF SyncTodo
<1>5. i # SyncInodesCall => SyncBuf(i) \in Bufs
  BY <1>4, Numbers DEF SyncBuf, Bufs
<1>6. i # SyncInodesCall => buf[SyncBuf(i)].block \in Blocks
  BY <1>4, <1>5 DEF HeadInv, TypeOK, BufferHeads
<1> QED BY <1>3, <1>4, <1>5, <1>6

(* sync_dev() waits for a locked buffer.                                    *)
LEMMA SyncWaitStep ==
  ASSUME HeadInv, NEW p \in Procs, SyncWait(p)
  PROVE  HeadInv' /\ SameTable
<1>1. pc[p] = "sync" /\ cpu \in {p, NULL} /\ SyncTodo(p) # {} /\ UNCHANGED <<bvars, dvars, val, last>>
  BY DEF SyncWait, At
<1>2. PICK i \in 1 .. SyncEnd, b \in Bufs :
        i = Min(SyncTodo(p)) /\ b = SyncBuf(i) /\ buf[b].block \in Blocks
  BY <1>1, SyncTodoFacts DEF SyncWait
<1>3. cpu' = NULL /\ pc' = [pc EXCEPT ![p] = "sync"] /\ wait' = [wait EXCEPT ![p] = BWait(b)]
        /\ loc' = [loc EXCEPT ![p].i = i]
  BY <1>2 DEF SyncWait, SleepOn
<1>4. PICK c : c = [loc[p] EXCEPT !.i = i]
  OBVIOUS
<1>5. loc' = [loc EXCEPT ![p] = c]
  BY <1>3, <1>4
<1>6. /\ c \in Locals /\ c.bh = loc[p].bh /\ c.op = loc[p].op /\ c.first = loc[p].first
      /\ c.blk = loc[p].blk /\ c.keep = loc[p].keep /\ c.ahead = loc[p].ahead
  <2>1. i \in 1 .. (SyncEnd + 1)
    BY <1>2, Numbers
  <2> QED BY <1>4, <2>1, Here DEF Locals
<1>7. ProcStep(p, "sync", c)
  <2>1. "sync" \in Locations
    BY DEF Locations
  <2>2. AtCall("sync", c) /\ AtTransfer("sync", c) /\ TargetAt("sync", c)
    BY <1>1, <1>6, Here DEF AtCall, AtTransfer, TargetAt
  <2>3. KeepsBlock("sync", c)
    BY <1>1, <1>6, Here DEF KeepsBlock, HoldingAt
  <2> QED BY <1>1, <1>3, <1>5, <1>6, <2>1, <2>2, <2>3 DEF ProcStep, Waits, WaitsAt
<1>8. HeadsStep(p, "sync", c)
  BY <1>1, <1>6, QuietHeads DEF bvars, HoldingAt
<1>9. RestStep
  <2>1. BWait(b) \in Channels
    BY DEF Channels
  <2> QED BY <1>1, <1>3, <2>1, Asleep, QuietRest DEF bvars
<1> QED BY <1>7, <1>8, <1>9, ProcStepKeeps

(* sync_dev() has a buffer written.                                         *)
LEMMA SyncWriteStep ==
  ASSUME HeadInv, NEW p \in Procs, SyncWrite(p)
  PROVE  HeadInv' /\ SameTable
<1>1. pc[p] = "sync" /\ cpu \in {p, NULL} /\ cpu' = p /\ pc' = [pc EXCEPT ![p] = "ll"]
        /\ SyncTodo(p) # {} /\ UNCHANGED <<bvars, dvars, wait, val, last>>
  BY DEF SyncWrite, At, Goto
<1>2. PICK i \in 1 .. SyncEnd, b \in Bufs :
        i = Min(SyncTodo(p)) /\ b = SyncBuf(i) /\ buf[b].block \in Blocks
  BY <1>1, SyncTodoFacts DEF SyncWrite
<1>3. PICK n \in 1 .. (SyncEnd + 1), r \in Locations : n = i + 1 /\ r = "sync"
  BY <1>2, Numbers DEF Locations
<1>4. /\ ~buf[b].lock
      /\ loc' = [loc EXCEPT ![p].i = n, ![p].tgt = b, ![p].cmd = WRITE, ![p].ret = r]
  BY <1>2, <1>3 DEF SyncWrite
<1>5. PICK c : c = [loc[p] EXCEPT !.i = n, !.tgt = b, !.cmd = WRITE, !.ret = r]
  OBVIOUS
<1>6. loc' = [loc EXCEPT ![p] = c]
  BY <1>4, <1>5
<1>7. /\ c \in Locals /\ c.tgt = b /\ c.cmd = WRITE /\ c.ret = r
      /\ c.bh = loc[p].bh /\ c.op = loc[p].op /\ c.first = loc[p].first
      /\ c.blk = loc[p].blk /\ c.keep = loc[p].keep /\ c.ahead = loc[p].ahead
  BY <1>5, Here DEF Locals
<1>8. ProcStep(p, "ll", c)
  <2>1. "ll" \in Locations
    BY DEF Locations
  <2>2. AtCall("ll", c)
    BY <1>1, <1>7, Here DEF AtCall
  <2>3. AtTransfer("ll", c)
    BY <1>3, <1>7 DEF AtTransfer
  <2>4. TargetAt("ll", c)
    BY <1>2, <1>4, <1>7 DEF TargetAt
  <2>5. KeepsBlock("ll", c)
    BY <1>1, <1>3, <1>7, Here DEF KeepsBlock, HoldingAt
  <2> QED BY <1>1, <1>6, <1>7, <2>1, <2>2, <2>3, <2>4, <2>5 DEF ProcStep, Waits, WaitsAt
<1>9. HeadsStep(p, "ll", c)
  BY <1>1, <1>3, <1>7, QuietHeads DEF bvars, HoldingAt
<1>10. RestStep
  BY <1>1, QuietRest DEF bvars, HeadInv, TypeOK
<1> QED BY <1>8, <1>9, <1>10, ProcStepKeeps

(* sync_dev() or sys_sync() calls sync_inodes().                            *)
LEMMA SyncInodesStep ==
  ASSUME HeadInv, NEW p \in Procs, SyncInodes(p)
  PROVE  HeadInv' /\ SameTable
<1>1. pc[p] = "sync" /\ cpu \in {p, NULL} /\ cpu' = NULL /\ pc' = [pc EXCEPT ![p] = "sync"]
        /\ loc' = [loc EXCEPT ![p].i = SyncInodesCall + 1]
        /\ UNCHANGED <<bvars, dvars, wait, val, last>>
  BY DEF SyncInodes, At, Yield
<1>2. PICK n \in 1 .. (SyncEnd + 1) : n = SyncInodesCall + 1
  BY Numbers
<1>3. PICK c : c = [loc[p] EXCEPT !.i = n]
  OBVIOUS
<1>4. loc' = [loc EXCEPT ![p] = c]
  BY <1>1, <1>2, <1>3
<1>5. /\ c \in Locals /\ c.bh = loc[p].bh /\ c.op = loc[p].op /\ c.first = loc[p].first
      /\ c.blk = loc[p].blk /\ c.keep = loc[p].keep /\ c.ahead = loc[p].ahead
  BY <1>3, Here DEF Locals
<1>6. ProcStep(p, "sync", c)
  <2>1. "sync" \in Locations
    BY DEF Locations
  <2>2. AtCall("sync", c) /\ AtTransfer("sync", c) /\ TargetAt("sync", c)
    BY <1>1, <1>5, Here DEF AtCall, AtTransfer, TargetAt
  <2>3. KeepsBlock("sync", c)
    BY <1>1, <1>5, Here DEF KeepsBlock, HoldingAt
  <2> QED BY <1>1, <1>4, <1>5, <2>1, <2>2, <2>3 DEF ProcStep, Waits, WaitsAt
<1>7. HeadsStep(p, "sync", c)
  BY <1>1, <1>5, QuietHeads DEF bvars, HoldingAt
<1>8. RestStep
  BY <1>1, QuietRest DEF bvars, HeadInv, TypeOK
<1> QED BY <1>6, <1>7, <1>8, ProcStepKeeps

(* sync_dev() returns.                                                      *)
LEMMA SyncDoneStep ==
  ASSUME HeadInv, NEW p \in Procs, SyncDone(p)
  PROVE  HeadInv' /\ SameTable
<1>1. pc[p] = "sync" /\ cpu \in {p, NULL} /\ loc' = [loc EXCEPT ![p].i = 1]
        /\ (IF loc[p].op = "sync" THEN Yield(p, "user") ELSE Goto(p, "victim"))
        /\ UNCHANGED <<bvars, dvars, wait, val, last>>
  BY DEF SyncDone, At
<1>2. PICK n \in 1 .. (SyncEnd + 1) : n = 1
  BY Numbers
<1>3. PICK c : c = [loc[p] EXCEPT !.i = n]
  OBVIOUS
<1>4. loc' = [loc EXCEPT ![p] = c]
  BY <1>1, <1>2, <1>3
<1>5. /\ c \in Locals /\ c.bh = loc[p].bh /\ c.op = loc[p].op /\ c.first = loc[p].first
      /\ c.blk = loc[p].blk /\ c.keep = loc[p].keep /\ c.ahead = loc[p].ahead
  BY <1>3, Here DEF Locals
<1>6. PICK l \in Locations :
        /\ l = IF loc[p].op = "sync" THEN "user" ELSE "victim"
        /\ pc' = [pc EXCEPT ![p] = l] /\ cpu' \in {p, NULL}
  BY <1>1 DEF Locations, Yield, Goto
<1>7. ProcStep(p, l, c)
  <2>1. AtCall(l, c) /\ AtTransfer(l, c) /\ TargetAt(l, c)
    BY <1>1, <1>5, <1>6, Here DEF AtCall, AtTransfer, TargetAt
  <2>2. KeepsBlock(l, c)
    BY <1>1, <1>5, <1>6, Here DEF KeepsBlock, HoldingAt
  <2>3. l \in {"user", "victim"}
    BY <1>6
  <2> QED BY <1>1, <1>4, <1>5, <1>6, <2>1, <2>2, <2>3 DEF ProcStep, Waits, WaitsAt
<1>8. HeadsStep(p, l, c)
  BY <1>1, <1>5, <1>6, QuietHeads DEF bvars, HoldingAt
<1>9. RestStep
  BY <1>1, QuietRest DEF bvars, HeadInv, TypeOK
<1> QED BY <1>7, <1>8, <1>9, ProcStepKeeps
-----------------------------------------------------------------------------
(* ll_rw_block() returns where it was called, to a process with the same    *)
(* references.                                                              *)
LEMMA LLReturnFacts ==
  ASSUME HeadInv, NEW p \in Procs, pc[p] \in {"ll", "slot"}, LLReturn(p)
  PROVE  \E l \in Locations, c \in Locals :
           /\ loc' = [loc EXCEPT ![p] = c] /\ pc' = [pc EXCEPT ![p] = l] /\ cpu' = p
           /\ l \in {"sync", "bwait", "ahead", "aheaddone"}
           /\ AtCall(l, c) /\ AtTransfer(l, c) /\ KeepsBlock(l, c)
           /\ \A b \in Bufs : HoldingAt(l, c, b) <=> HoldingAt(pc[p], loc[p], b)
           /\ c.keep = loc[p].keep
<1>1. PICK r \in Locations : r = "user"
  BY DEF Locations
<1>2. PICK c : c = [loc[p] EXCEPT !.tgt = NoBuf, !.cmd = READ, !.ret = r]
  OBVIOUS
<1>3. loc' = [loc EXCEPT ![p] = c]
  BY <1>1, <1>2 DEF LLReturn
<1>4. /\ c \in Locals /\ c.bh = loc[p].bh /\ c.op = loc[p].op /\ c.first = loc[p].first
      /\ c.blk = loc[p].blk /\ c.keep = loc[p].keep /\ c.ahead = loc[p].ahead
  BY <1>2, Here DEF Locals
<1>5. PICK l \in Locations : l = loc[p].ret
  BY Here DEF Locals
<1>6. pc' = [pc EXCEPT ![p] = l] /\ cpu' = p
  BY <1>5 DEF LLReturn, Goto
<1>7. l \in {"sync", "bwait", "ahead", "aheaddone"}
  BY <1>5, Here DEF AtTransfer
<1>8. AtCall(l, c)
  BY <1>4, <1>5, <1>7, Here DEF AtCall, AtTransfer
<1>9. AtTransfer(l, c)
  BY <1>7 DEF AtTransfer
<1>10. \A b \in Bufs : HoldingAt(l, c, b) <=> HoldingAt(pc[p], loc[p], b)
  BY <1>4, <1>5, <1>7 DEF HoldingAt
<1>11. KeepsBlock(l, c)
  BY <1>4, <1>10, Here DEF KeepsBlock
<1> QED BY <1>3, <1>4, <1>6, <1>7, <1>8, <1>9, <1>10, <1>11

(* ll_rw_block() finds nothing to do.                                       *)
LEMMA LLSkipStep ==
  ASSUME HeadInv, NEW p \in Procs, LLSkip(p)
  PROVE  HeadInv' /\ SameTable
<1>1. pc[p] = "ll" /\ cpu \in {p, NULL} /\ LLReturn(p) /\ UNCHANGED <<bvars, dvars, val, last>>
  BY DEF LLSkip, At
<1>2. PICK l \in Locations, c \in Locals :
        /\ loc' = [loc EXCEPT ![p] = c] /\ pc' = [pc EXCEPT ![p] = l] /\ cpu' = p
        /\ l \in {"sync", "bwait", "ahead", "aheaddone"}
        /\ AtCall(l, c) /\ AtTransfer(l, c) /\ KeepsBlock(l, c)
        /\ \A b \in Bufs : HoldingAt(l, c, b) <=> HoldingAt(pc[p], loc[p], b)
        /\ c.keep = loc[p].keep
  BY <1>1, LLReturnFacts
<1>3. ProcStep(p, l, c)
  BY <1>1, <1>2 DEF ProcStep, TargetAt, Waits, WaitsAt
<1>4. HeadsStep(p, l, c)
  BY <1>1, <1>2, QuietHeads DEF bvars
<1>5. RestStep
  <2>1. wait' \in [Procs -> Channels]
    BY Awaken DEF LLSkip, HeadInv, TypeOK
  <2> QED BY <1>1, <2>1, QuietRest DEF bvars
<1> QED BY <1>3, <1>4, <1>5, ProcStepKeeps

(* make_request() sleeps again: still no slot.                              *)
LEMMA SlotWaitStep ==
  ASSUME HeadInv, NEW p \in Procs, SlotWait(p)
  PROVE  HeadInv' /\ SameTable
<1>1. pc[p] = "slot" /\ cpu \in {p, NULL} /\ cpu' = p /\ pc' = [pc EXCEPT ![p] = "slot"]
        /\ wait' = [wait EXCEPT ![p] = <<"searched", 0>>]
        /\ UNCHANGED <<bvars, dvars, loc, val, last>>
  BY DEF SlotWait, NoSlot, At, Goto, bvars
<1>2. ProcStep(p, "slot", loc[p])
  BY <1>1, Here DEF ProcStep, Waits
<1>3. HeadsStep(p, "slot", loc[p])
  BY <1>1, QuietHeads DEF bvars
<1>4. RestStep
  BY <1>1, StageFacts, Asleep, QuietRest DEF bvars
<1> QED BY <1>2, <1>3, <1>4, ProcStepKeeps

(* On its way into the sleep it enters the queue ...                        *)
LEMMA SlotEnterStep ==
  ASSUME HeadInv, NEW p \in Procs, SlotEnter(p)
  PROVE  HeadInv' /\ SameTable
<1>1. pc[p] = "slot" /\ wait[p] \in Searched /\ wait' = [wait EXCEPT ![p] = <<"entered", wait[p][2]>>]
        /\ UNCHANGED <<bvars, dvars, pc, loc, cpu, val, last>>
  BY DEF SlotEnter
<1>2. wait' \in [Procs -> Channels]
  <2>1. <<"entered", wait[p][2]>> \in Channels
    BY <1>1 DEF Channels, Searched, Entered, Stage
  <2> QED BY <1>1, <2>1, Asleep
<1> QED BY <1>1, <1>2, OnlyWaits DEF bvars, dvars

(* ... and gives up the processor.                                          *)
LEMMA SlotSleepStep ==
  ASSUME HeadInv, NEW p \in Procs, SlotSleep(p)
  PROVE  HeadInv' /\ SameTable
<1>1. PICK ch : ch = IF wait[p] = Lost THEN Lost ELSE <<"wait_for_request", wait[p][2]>>
  OBVIOUS
<1>2. pc[p] = "slot" /\ cpu = p /\ cpu' = NULL /\ wait[p] \in Entered \union {Lost}
        /\ wait' = [wait EXCEPT ![p] = ch] /\ UNCHANGED <<bvars, dvars, pc, loc, val, last>>
  BY <1>1 DEF SlotSleep
<1>3. ch \in Channels
  BY <1>1, <1>2 DEF Channels, Entered, WaitForRequest, Stage
<1>4. ProcStep(p, "slot", loc[p])
  BY <1>2, Here DEF ProcStep, Waits
<1>5. HeadsStep(p, "slot", loc[p])
  BY <1>2, QuietHeads DEF bvars
<1>6. RestStep
  BY <1>2, <1>3, Asleep, QuietRest DEF bvars
<1> QED BY <1>4, <1>5, <1>6, ProcStepKeeps

-----------------------------------------------------------------------------
(* bread(), breada() and their callers.                                     *)
LEMMA StartReadStep ==
  ASSUME HeadInv, NEW p \in Procs, At(p, "got"), NEW b \in Bufs, NEW cmd, NEW ret,
         \/ cmd = READ /\ ret = "bwait" /\ b = loc[p].bh /\ loc[p].keep = NoBuf
         \/ cmd = READ /\ ret = "ahead" /\ b = loc[p].bh /\ loc[p].keep = NoBuf
              /\ loc[p].op = "read_ahead"
         \/ cmd = READA /\ ret = "aheaddone" /\ b = loc[p].keep,
         StartRead(p, b, cmd, ret), UNCHANGED <<bvars, dvars, wait, val, last>>
  PROVE  HeadInv' /\ SameTable
<1>1. pc[p] = "got" /\ cpu \in {p, NULL} /\ cpu' = p /\ pc' = [pc EXCEPT ![p] = "ll"]
        /\ loc' = [loc EXCEPT ![p].tgt = b, ![p].cmd = cmd, ![p].ret = ret]
  BY DEF At, StartRead, Goto
<1>2. PICK c : c = [loc[p] EXCEPT !.tgt = b, !.cmd = cmd, !.ret = ret]
  OBVIOUS
<1>3. loc' = [loc EXCEPT ![p] = c]
  BY <1>1, <1>2
<1>4. ret \in Locations /\ cmd \in {READ, WRITE, READA} /\ ret # "sync"
  BY DEF Locations
<1>5. /\ c \in Locals /\ c.tgt = b /\ c.cmd = cmd /\ c.ret = ret
      /\ c.bh = loc[p].bh /\ c.op = loc[p].op /\ c.first = loc[p].first
      /\ c.blk = loc[p].blk /\ c.keep = loc[p].keep /\ c.ahead = loc[p].ahead
  BY <1>2, <1>4, Here DEF Locals
<1>6. AtCall("ll", c) /\ loc[p].op # "sync" /\ loc[p].bh \in Bufs
        /\ loc[p].first \in Blocks /\ loc[p].blk \in Blocks
  BY <1>1, <1>5, Here DEF AtCall
<1>7. AtTransfer("ll", c)
  BY <1>5, <1>6, Numbers DEF AtTransfer
<1>8. \A d \in Bufs : HoldingAt("ll", c, d) <=> HoldingAt(pc[p], loc[p], d)
  BY <1>1, <1>4, <1>5 DEF HoldingAt
<1>9. KeepsBlock("ll", c)
  BY <1>5, <1>8, Here DEF KeepsBlock
<1>10. TargetAt("ll", c)
  <2>1. buf[loc[p].bh].block = loc[p].blk /\ ~buf[loc[p].bh].lock
    BY <1>1, <1>6, Here DEF KeepsBlock, HoldingAt, TargetAt
  <2>2. b = loc[p].keep => buf[b].block = loc[p].first
    BY Here DEF KeepsBlock
  <2> QED BY <1>5, <1>6, <2>1, <2>2, Numbers DEF TargetAt
<1>11. ProcStep(p, "ll", c)
  BY <1>1, <1>3, <1>5, <1>6, <1>7, <1>9, <1>10 DEF ProcStep, Waits, WaitsAt, Locations
<1>12. HeadsStep(p, "ll", c)
  BY <1>5, <1>8, QuietHeads DEF bvars
<1>13. RestStep
  BY QuietRest DEF bvars, HeadInv, TypeOK
<1> QED BY <1>11, <1>12, <1>13, ProcStepKeeps

(* A process that goes on with the buffer it holds.                         *)
LEMMA HoldOn ==
  ASSUME HeadInv, NEW p \in Procs, NEW l \in {"ahead", "aheaddone", "hold", "copy", "rel"},
         \/ pc[p] \in {"got", "bwait", "hold", "copy"} /\ l \in {"hold", "copy", "rel"}
              /\ loc[p].keep = NoBuf
         \/ pc[p] = "got" /\ l = "ahead" /\ loc[p].op = "read_ahead" /\ loc[p].keep = NoBuf
         \/ pc[p] = "got" /\ l = "aheaddone" /\ loc[p].keep # NoBuf,
         l = "hold" => loc[p].op = "raw_write" \/ buf[loc[p].bh].uptodate,
         cpu \in {p, NULL}, cpu' \in {p, NULL}, l \in {"ahead", "aheaddone"} => cpu' = p,
         pc' = [pc EXCEPT ![p] = l], UNCHANGED loc
  PROVE  /\ ProcStep(p, l, loc[p])
         /\ \A b \in Bufs : HoldingAt(l, loc[p], b) <=> HoldingAt(pc[p], loc[p], b)
<1>1. l \in Locations
  BY DEF Locations
<1>2. AtCall(l, loc[p])
  BY Here DEF AtCall
<1>3. AtTransfer(l, loc[p]) /\ TargetAt(l, loc[p])
  <2>1. l = "hold" => loc[p].bh \in Bufs
    BY <1>2 DEF AtCall
  <2> QED BY <2>1 DEF AtTransfer, TargetAt, HeadInv, DataKnown
<1>4. \A b \in Bufs : HoldingAt(l, loc[p], b) <=> HoldingAt(pc[p], loc[p], b)
  BY DEF HoldingAt
<1>5. KeepsBlock(l, loc[p])
  BY <1>4, Here DEF KeepsBlock
<1>6. ProcStep(p, l, loc[p])
  BY <1>1, <1>2, <1>3, <1>5, Here DEF ProcStep, Waits, WaitsAt
<1> QED BY <1>4, <1>6

(* bread() reads a buffer, or need not.                                     *)
LEMMA BreadStep ==
  ASSUME HeadInv, NEW p \in Procs, Bread(p)
  PROVE  HeadInv' /\ SameTable
<1>1. At(p, "got") /\ pc[p] = "got" /\ cpu \in {p, NULL} /\ loc[p].op # "read_ahead"
        /\ UNCHANGED <<bvars, dvars, wait, val, last>>
  BY DEF Bread, At
<1>2. loc[p].keep = NoBuf /\ loc[p].bh \in Bufs
  BY <1>1, Here DEF AtCall
<1>3. CASE Yield(p, "hold") /\ UNCHANGED loc /\ (loc[p].op = "raw_write" \/ buf[loc[p].bh].uptodate)
  <2>1. /\ ProcStep(p, "hold", loc[p])
        /\ \A b \in Bufs : HoldingAt("hold", loc[p], b) <=> HoldingAt(pc[p], loc[p], b)
    BY <1>1, <1>2, <1>3, HoldOn DEF Yield
  <2>2. HeadsStep(p, "hold", loc[p])
    BY <1>1, <2>1, QuietHeads DEF bvars
  <2>3. RestStep
    BY <1>1, QuietRest DEF bvars, HeadInv, TypeOK
  <2> QED BY <2>1, <2>2, <2>3, ProcStepKeeps
<1>4. CASE StartRead(p, loc[p].bh, READ, "bwait")
  BY <1>1, <1>2, <1>4, StartReadStep
<1> QED BY <1>3, <1>4 DEF Bread

(* breada() reads the block it was asked for, or need not.                  *)
LEMMA BreadaFirstStep ==
  ASSUME HeadInv, NEW p \in Procs, BreadaFirst(p)
  PROVE  HeadInv' /\ SameTable
<1>1. At(p, "got") /\ pc[p] = "got" /\ cpu \in {p, NULL} /\ loc[p].op = "read_ahead"
        /\ loc[p].keep = NoBuf /\ UNCHANGED <<bvars, dvars, wait, val, last>>
  BY DEF BreadaFirst, At
<1>2. loc[p].bh \in Bufs
  BY <1>1, Here DEF AtCall
<1>3. CASE Goto(p, "ahead") /\ UNCHANGED loc
  <2>1. /\ ProcStep(p, "ahead", loc[p])
        /\ \A b \in Bufs : HoldingAt("ahead", loc[p], b) <=> HoldingAt(pc[p], loc[p], b)
    BY <1>1, <1>3, HoldOn DEF Goto
  <2>2. HeadsStep(p, "ahead", loc[p])
    BY <1>1, <2>1, QuietHeads DEF bvars
  <2>3. RestStep
    BY <1>1, QuietRest DEF bvars, HeadInv, TypeOK
  <2> QED BY <2>1, <2>2, <2>3, ProcStepKeeps
<1>4. CASE StartRead(p, loc[p].bh, READ, "ahead")
  BY <1>1, <1>2, <1>4, StartReadStep
<1> QED BY <1>3, <1>4 DEF BreadaFirst

(* breada() reads ahead, or need not.                                       *)
LEMMA BreadaAheadStep ==
  ASSUME HeadInv, NEW p \in Procs, BreadaAhead(p)
  PROVE  HeadInv' /\ SameTable
<1>1. At(p, "got") /\ pc[p] = "got" /\ cpu \in {p, NULL} /\ loc[p].keep # NoBuf
        /\ UNCHANGED <<bvars, dvars, wait, val, last>>
  BY DEF BreadaAhead, At
<1>2. loc[p].keep \in Bufs
  BY <1>1, Here DEF Locals
<1>3. CASE Goto(p, "aheaddone") /\ UNCHANGED loc
  <2>1. /\ ProcStep(p, "aheaddone", loc[p])
        /\ \A b \in Bufs : HoldingAt("aheaddone", loc[p], b) <=> HoldingAt(pc[p], loc[p], b)
    BY <1>1, <1>3, HoldOn DEF Goto
  <2>2. HeadsStep(p, "aheaddone", loc[p])
    BY <1>1, <2>1, QuietHeads DEF bvars
  <2>3. RestStep
    BY <1>1, QuietRest DEF bvars, HeadInv, TypeOK
  <2> QED BY <2>1, <2>2, <2>3, ProcStepKeeps
<1>4. CASE StartRead(p, loc[p].keep, READA, "aheaddone")
  BY <1>1, <1>2, <1>4, StartReadStep
<1> QED BY <1>3, <1>4 DEF BreadaAhead

(* The buffer of the first block is put by and counts as before.            *)
LEMMA BreadaNextStep ==
  ASSUME HeadInv, NEW p \in Procs, BreadaNext(p)
  PROVE  HeadInv' /\ SameTable
<1>1. pc[p] = "ahead" /\ cpu \in {p, NULL} /\ cpu' = p /\ pc' = [pc EXCEPT ![p] = "hash"]
        /\ loc' = [loc EXCEPT ![p].keep = loc[p].bh, ![p].bh = NoBuf, ![p].blk = loc[p].ahead]
        /\ UNCHANGED <<bvars, dvars, wait, val, last>>
  BY DEF BreadaNext, At, Goto
<1>2. loc[p].bh \in Bufs /\ loc[p].op = "read_ahead" /\ loc[p].keep = NoBuf
        /\ loc[p].ahead \in Blocks /\ loc[p].first \in Blocks /\ loc[p].blk = loc[p].first
  BY <1>1, Here DEF AtCall
<1>3. PICK c : c = [loc[p] EXCEPT !.keep = loc[p].bh, !.bh = NoBuf, !.blk = loc[p].ahead]
  OBVIOUS
<1>4. loc' = [loc EXCEPT ![p] = c]
  BY <1>1, <1>3
<1>5. /\ c \in Locals /\ c.keep = loc[p].bh /\ c.bh = NoBuf /\ c.blk = loc[p].ahead
      /\ c.op = loc[p].op /\ c.first = loc[p].first /\ c.ahead = loc[p].ahead
  BY <1>3, Here DEF Locals
<1>6. ProcStep(p, "hash", c)
  <2>1. "hash" \in Locations
    BY DEF Locations
  <2>2. AtCall("hash", c) /\ AtTransfer("hash", c) /\ TargetAt("hash", c)
    BY <1>1, <1>2, <1>5, Numbers, Here DEF AtCall, AtTransfer, TargetAt
  <2>3. KeepsBlock("hash", c)
    BY <1>1, <1>2, <1>5, Here DEF KeepsBlock, HoldingAt
  <2> QED BY <1>1, <1>4, <1>5, <2>1, <2>2, <2>3 DEF ProcStep, Waits, WaitsAt
<1>7. HeadsStep(p, "hash", c)
  <2>1. buf \in [Bufs -> BufferHeads] /\ buf' = buf
    BY <1>1 DEF HeadInv, TypeOK, bvars
  <2>2. ASSUME NEW b \in Bufs
        PROVE  buf'[b].count = buf[b].count + RefsAt("hash", c, b) - RefsAt(pc[p], loc[p], b)
    <3>1. buf[b].count \in Nat
      BY <2>1 DEF BufferHeads
    <3>2. RefsAt("hash", c, b) = RefsAt(pc[p], loc[p], b) /\ RefsAt("hash", c, b) \in Nat
      BY <1>1, <1>2, <1>5, Numbers DEF RefsAt, One, HoldingAt
    <3> QED BY <2>1, <3>1, <3>2
  <2>3. DataKnown'
    BY <2>1 DEF HeadInv, DataKnown
  <2> QED BY <2>1, <2>2, <2>3 DEF HeadsStep
<1>8. RestStep
  BY <1>1, QuietRest DEF bvars, HeadInv, TypeOK
<1> QED BY <1>6, <1>7, <1>8, ProcStepKeeps

(* bread() returns the buffer, or gives it up.                              *)
LEMMA BreadReturnStep ==
  ASSUME HeadInv, NEW p \in Procs, BreadReturn(p)
  PROVE  HeadInv' /\ SameTable
<1>1. pc[p] = "bwait" /\ cpu \in {p, NULL} /\ UNCHANGED <<bvars, dvars, loc, wait, val, last>>
        /\ (IF buf[loc[p].bh].uptodate THEN Yield(p, "hold") ELSE Goto(p, "rel"))
  BY DEF BreadReturn, At
<1>2. loc[p].keep = NoBuf
  BY <1>1, Here DEF AtCall
<1>3. RestStep
  BY <1>1, QuietRest DEF bvars, HeadInv, TypeOK
<1>4. CASE buf[loc[p].bh].uptodate
  <2>1. /\ ProcStep(p, "hold", loc[p])
        /\ \A b \in Bufs : HoldingAt("hold", loc[p], b) <=> HoldingAt(pc[p], loc[p], b)
    BY <1>1, <1>2, <1>4, HoldOn DEF Yield
  <2>2. HeadsStep(p, "hold", loc[p])
    BY <1>1, <2>1, QuietHeads DEF bvars
  <2> QED BY <2>1, <2>2, <1>3, ProcStepKeeps
<1>5. CASE ~buf[loc[p].bh].uptodate
  <2>1. /\ ProcStep(p, "rel", loc[p])
        /\ \A b \in Bufs : HoldingAt("rel", loc[p], b) <=> HoldingAt(pc[p], loc[p], b)
    BY <1>1, <1>2, <1>5, HoldOn DEF Goto
  <2>2. HeadsStep(p, "rel", loc[p])
    BY <1>1, <2>1, QuietHeads DEF bvars
  <2> QED BY <2>1, <2>2, <1>3, ProcStepKeeps
<1> QED BY <1>4, <1>5

(* file_read() copies.                                                      *)
LEMMA CopyOutStep ==
  ASSUME HeadInv, NEW p \in Procs, CopyOut(p)
  PROVE  HeadInv' /\ SameTable
<1>1. pc[p] = "hold" /\ cpu \in {p, NULL} /\ cpu' = p /\ pc' = [pc EXCEPT ![p] = "rel"]
        /\ val' = [val EXCEPT ![p] = buf[loc[p].bh].data] /\ UNCHANGED <<bvars, dvars, loc, wait, last>>
  BY DEF CopyOut, At, Goto
<1>2. loc[p].keep = NoBuf /\ loc[p].bh \in Bufs
  BY <1>1, Here DEF AtCall
<1>3. /\ ProcStep(p, "rel", loc[p])
      /\ \A b \in Bufs : HoldingAt("rel", loc[p], b) <=> HoldingAt(pc[p], loc[p], b)
  BY <1>1, <1>2, HoldOn
<1>4. HeadsStep(p, "rel", loc[p])
  BY <1>1, <1>3, QuietHeads DEF bvars
<1>5. RestStep
  <2>1. buf[loc[p].bh].data \in Vals \union {NULL}
    BY <1>2 DEF HeadInv, TypeOK, BufferHeads
  <2>2. val' \in [Procs -> Vals \union {NULL}]
    BY <1>1, <2>1 DEF HeadInv, TypeOK
  <2> QED BY <1>1, <2>2 DEF RestStep, bvars, HeadInv, TypeOK
<1> QED BY <1>3, <1>4, <1>5, ProcStepKeeps

(* A writer changes the contents of the buffer it holds and its dirt flag.  *)
LEMMA WrittenHeads ==
  ASSUME HeadInv, NEW p \in Procs, NEW l, NEW b \in Bufs, NEW d \in BOOLEAN,
         NEW v \in Vals,
         buf' = [buf EXCEPT ![b].dirt = d, ![b].data = v],
         \A e \in Bufs : HoldingAt(l, loc[p], e) <=> HoldingAt(pc[p], loc[p], e)
  PROVE  HeadsStep(p, l, loc[p])
<1>1. buf \in [Bufs -> BufferHeads]
  BY DEF HeadInv, TypeOK
<1>2. buf' \in [Bufs -> BufferHeads]
  <2>1. PICK r : r = [buf[b] EXCEPT !.dirt = d, !.data = v]
    OBVIOUS
  <2>2. r \in BufferHeads
    <3>1. buf[b] \in BufferHeads
      BY <1>1
    <3> QED BY <2>1, <3>1 DEF BufferHeads
  <2>3. buf' = [buf EXCEPT ![b] = r]
    BY <2>1
  <2> QED BY <2>2, <2>3, <1>1
<1>3. \A e \in Bufs : buf'[e].block = buf[e].block /\ buf'[e].lock = buf[e].lock
                      /\ buf'[e].count = buf[e].count
                      /\ (buf'[e].data = buf[e].data \/ buf'[e].data = v)
                      /\ buf'[e].uptodate = buf[e].uptodate
  BY <1>1 DEF BufferHeads
<1>4. ASSUME NEW e \in Bufs
      PROVE  buf'[e].count = buf[e].count + RefsAt(l, loc[p], e) - RefsAt(pc[p], loc[p], e)
  <2>1. buf[e].count \in Nat
    BY <1>1 DEF BufferHeads
  <2>2. RefsAt(l, loc[p], e) = RefsAt(pc[p], loc[p], e) /\ RefsAt(l, loc[p], e) \in Nat
    BY DEF RefsAt, One
  <2>3. \A x, y \in Nat : x = x + y - y
    OBVIOUS
  <2>4. buf[e].count = buf[e].count + RefsAt(l, loc[p], e) - RefsAt(l, loc[p], e)
    BY <2>1, <2>2, <2>3, Zenon
  <2>5. buf'[e].count = buf[e].count
    BY <1>3
  <2> QED BY <2>2, <2>4, <2>5, Zenon
<1>5. buf'[b].data = v /\ \A e \in Bufs : e # b => buf'[e].dirt = buf[e].dirt
  BY <1>1 DEF BufferHeads
<1>6. DataKnown'
  BY <1>3, <1>5 DEF HeadInv, DataKnown
<1>7. \A e \in Bufs : buf[e].data \in Vals => buf'[e].data \in Vals
  BY <1>3
<1> QED BY <1>2, <1>3, <1>4, <1>6, <1>7 DEF HeadsStep

(* file_write() and block_write() copy.                                     *)
LEMMA CopyStep ==
  ASSUME HeadInv, NEW p \in Procs, NEW v \in Vals, CopyIn(p, v) \/ CopyLate(p, v)
  PROVE  HeadInv' /\ SameTable
<1>1. pc[p] \in {"hold", "copy"} /\ cpu \in {p, NULL} /\ cpu' = p /\ pc' = [pc EXCEPT ![p] = "rel"]
        /\ last' = [last EXCEPT ![loc[p].first] = v] /\ UNCHANGED <<free_list, dvars, loc, wait, val>>
  BY DEF CopyIn, CopyLate, At, Goto
<1>2. loc[p].keep = NoBuf
  BY <1>1, Here DEF AtCall
<1>3. PICK b \in Bufs : b = loc[p].bh
  BY <1>1, Here DEF AtCall
<1>4. PICK d \in BOOLEAN : buf' = [buf EXCEPT ![b].dirt = d, ![b].data = v]
  <2>1. CASE CopyIn(p, v)
    BY <2>1, <1>3 DEF CopyIn
  <2>2. CASE CopyLate(p, v)
    <3>1. buf[b].dirt \in BOOLEAN /\ buf[b] \in BufferHeads /\ buf \in [Bufs -> BufferHeads]
      BY DEF HeadInv, TypeOK, BufferHeads
    <3>2. buf = [buf EXCEPT ![b].dirt = buf[b].dirt]
      BY <3>1 DEF BufferHeads
    <3>3. buf' = [buf EXCEPT ![b].data = v]
      BY <2>2, <1>3 DEF CopyLate
    <3>4. buf' = [buf EXCEPT ![b].dirt = buf[b].dirt, ![b].data = v]
      BY <3>2, <3>3
    <3> QED BY <3>1, <3>4
  <2> QED BY <2>1, <2>2
<1>5. /\ ProcStep(p, "rel", loc[p])
      /\ \A e \in Bufs : HoldingAt("rel", loc[p], e) <=> HoldingAt(pc[p], loc[p], e)
  BY <1>1, <1>2, HoldOn
<1>6. HeadsStep(p, "rel", loc[p])
  BY <1>4, <1>5, WrittenHeads
<1>7. RestStep
  <2>1. last' \in [Blocks -> Vals]
    BY <1>1 DEF HeadInv, TypeOK
  <2> QED BY <1>1, <2>1 DEF RestStep, HeadInv, TypeOK
<1> QED BY <1>5, <1>6, <1>7, ProcStepKeeps

(* file_write() sets b_dirt and faults.                                     *)
LEMMA SetDirtStep ==
  ASSUME HeadInv, NEW p \in Procs, SetDirt(p)
  PROVE  HeadInv' /\ SameTable
<1>1. pc[p] = "hold" /\ cpu \in {p, NULL} /\ cpu' = NULL /\ pc' = [pc EXCEPT ![p] = "copy"]
        /\ UNCHANGED <<free_list, dvars, loc, wait, val, last>>
  BY DEF SetDirt, At, Yield
<1>2. loc[p].keep = NoBuf
  BY <1>1, Here DEF AtCall
<1>3. PICK b \in Bufs : b = loc[p].bh
  BY <1>1, Here DEF AtCall
<1>4. PICK d \in BOOLEAN : d = TRUE
  OBVIOUS
<1>5. buf[b].data \in Vals /\ buf' = [buf EXCEPT ![b].dirt = d, ![b].data = buf[b].data]
  <2>0. loc[p].op = "fault_write"
    BY DEF SetDirt
  <2>3. buf[b].data \in Vals
    BY <1>1, <1>3, <2>0, Here DEF TargetAt
  <2>1. buf \in [Bufs -> BufferHeads]
    BY DEF HeadInv, TypeOK, BufferHeads
  <2>2. buf' = [buf EXCEPT ![b].dirt = d]
    BY <1>3, <1>4 DEF SetDirt
  <2> QED BY <2>1, <2>2, <2>3 DEF BufferHeads
<1>6. /\ ProcStep(p, "copy", loc[p])
      /\ \A e \in Bufs : HoldingAt("copy", loc[p], e) <=> HoldingAt(pc[p], loc[p], e)
  BY <1>1, <1>2, HoldOn
<1>7. HeadsStep(p, "copy", loc[p])
  BY <1>5, <1>6, WrittenHeads
<1>8. RestStep
  BY <1>1, QuietRest DEF HeadInv, TypeOK
<1> QED BY <1>6, <1>7, <1>8, ProcStepKeeps

-----------------------------------------------------------------------------
(* getblk() assigns a buffer: remove_from_queues() and insert_into_queues() *)
(* move it to the end of the free list, which loses none.                   *)
LEMMA MoveToEnd ==
  ASSUME TypeOK, FreeListFull, NEW b \in Bufs, free_list' = Append(RemoveFirst(free_list, b), b)
  PROVE  free_list' \in [Bufs -> Bufs] /\ FreeListFull'
<1>1. Bufs = 1 .. NB /\ NB \in Nat /\ NB > 0
  BY Numbers DEF Bufs
<1>2. PICK f \in Seq(Bufs) : f = free_list /\ Len(f) = NB
  <2>1. free_list \in [1 .. NB -> Bufs]
    BY <1>1 DEF TypeOK
  <2>2. \A g : g \in [1 .. NB -> Bufs] => g \in Seq(Bufs) /\ Len(g) = NB
    BY <1>1
  <2> QED BY <2>1, <2>2
<1> DEFINE I == {i \in 1 .. Len(f) : f[i] = b}
<1>3. \E i \in 1 .. Len(f) : f[i] = b
  BY <1>1, <1>2 DEF FreeListFull
<1>4. I # {} /\ I \in SUBSET Nat
  BY <1>3
<1>5. RemoveFirst(f, b) = RemoveAt(f, Min(I))
  BY <1>3 DEF RemoveFirst, SelectInSeq
<1> HIDE DEF I
<1>6. PICK j \in I : j = Min(I)
  BY <1>4, RQP!MinFacts, CacheAssumption DEF RQP!Min, Min
<1>7. j \in 1 .. NB /\ f[j] = b
  BY <1>2 DEF I
<1>8. PICK x \in Seq(Bufs) : x = SubSeq(f, 1, j - 1) /\ Len(x) = j - 1
                             /\ \A i \in 1 .. (j - 1) : x[i] = f[i]
  <2>1. SubSeq(f, 1, j - 1) \in Seq(Bufs)
    BY <1>1, <1>2, <1>7
  <2>2. Len(SubSeq(f, 1, j - 1)) = j - 1 /\ \A i \in 1 .. (j - 1) : SubSeq(f, 1, j - 1)[i] = f[i]
    BY <1>1, <1>2, <1>7
  <2> QED BY <2>1, <2>2
<1>9. PICK y \in Seq(Bufs) : y = SubSeq(f, j + 1, NB) /\ Len(y) = NB - j
                             /\ \A i \in 1 .. (NB - j) : y[i] = f[j + i]
  <2>1. SubSeq(f, j + 1, NB) \in Seq(Bufs)
    BY <1>1, <1>2, <1>7
  <2>2. Len(SubSeq(f, j + 1, NB)) = NB - j
          /\ \A i \in 1 .. (NB - j) : SubSeq(f, j + 1, NB)[i] = f[j + i]
    BY <1>1, <1>2, <1>7
  <2> QED BY <2>1, <2>2
<1>10. PICK z \in Seq(Bufs) : z = x \o y /\ Len(z) = NB - 1
                              /\ \A i \in 1 .. (NB - 1) : z[i] = IF i < j THEN f[i] ELSE f[i + 1]
  <2>1. x \o y \in Seq(Bufs) /\ Len(x \o y) = Len(x) + Len(y)
          /\ \A i \in 1 .. (Len(x) + Len(y)) : (x \o y)[i] = IF i <= Len(x) THEN x[i] ELSE y[i - Len(x)]
    OBVIOUS
  <2>2. Len(x) + Len(y) = NB - 1
    BY <1>1, <1>7, <1>8, <1>9
  <2>3. ASSUME NEW i \in 1 .. (NB - 1) PROVE (x \o y)[i] = IF i < j THEN f[i] ELSE f[i + 1]
    <3>1. CASE i < j
      BY <3>1, <2>1, <2>2, <1>1, <1>7, <1>8
    <3>2. CASE ~(i < j)
      <4>1. i - (j - 1) \in 1 .. (NB - j) /\ j + (i - (j - 1)) = i + 1 /\ ~(i <= j - 1)
        BY <3>2, <1>1, <1>7
      <4>2. (x \o y)[i] = y[i - (j - 1)]
        BY <4>1, <2>1, <2>2, <1>8
      <4>3. y[i - (j - 1)] = f[i + 1]
        BY <4>1, <1>9
      <4> QED BY <3>2, <4>2, <4>3
    <3> QED BY <3>1, <3>2
  <2> QED BY <2>1, <2>2, <2>3
<1>11. free_list' = Append(z, b)
  BY <1>2, <1>5, <1>6, <1>8, <1>9, <1>10 DEF RemoveAt
<1>12. PICK g \in Seq(Bufs) : g = free_list' /\ Len(g) = NB /\ g[NB] = b
                              /\ \A i \in 1 .. (NB - 1) : g[i] = z[i]
  <2>1. Append(z, b) \in Seq(Bufs) /\ Len(Append(z, b)) = NB /\ Append(z, b)[NB] = b
          /\ \A i \in 1 .. (NB - 1) : Append(z, b)[i] = z[i]
    BY <1>1, <1>10
  <2> QED BY <2>1, <1>11
<1>13. g \in [Bufs -> Bufs]
  <2>1. g \in [1 .. Len(g) -> Bufs]
    BY LenProperties
  <2>2. 1 .. Len(g) = Bufs
    BY <1>1, <1>12
  <2> QED BY <2>1, <2>2
<1>14. FreeListFull'
  <2> SUFFICES ASSUME NEW d \in Bufs PROVE \E i \in Bufs : g[i] = d
    BY <1>12 DEF FreeListFull
  <2>1. PICK i \in 1 .. NB : f[i] = d
    BY <1>1, <1>2 DEF FreeListFull
  <2>2. CASE i = j
    BY <2>1, <2>2, <1>1, <1>7, <1>12
  <2>3. CASE i < j
    <3>1. i \in 1 .. (NB - 1)
      BY <2>3, <1>1, <1>7
    <3>2. g[i] = d
      BY <2>1, <2>3, <3>1, <1>10, <1>12
    <3> QED BY <3>2, <1>1
  <2>4. CASE i > j
    <3>1. i - 1 \in 1 .. (NB - 1) /\ ~(i - 1 < j) /\ (i - 1) + 1 = i
      BY <2>4, <1>1, <1>7
    <3>2. g[i - 1] = d
      BY <2>1, <3>1, <1>10, <1>12
    <3>3. i - 1 \in Bufs
      BY <3>1, <1>1
    <3> QED BY <3>2, <3>3
  <2>5. i = j \/ i < j \/ i > j
    BY <1>1, <1>7
  <2> QED BY <2>2, <2>3, <2>4, <2>5
<1> QED BY <1>12, <1>13, <1>14

(* The buffer is unused, so nobody holds it, and unlocked, so no request is *)
(* for it; and no other buffer has the block.                               *)
LEMMA TakeStep ==
  ASSUME HeadInv, NEW p \in Procs, Take(p)
  PROVE  HeadInv' /\ SameTable
<1>0. TypeOK /\ FreeListFull /\ Control /\ Runs /\ CountIsReferences /\ LocksOwned
        /\ TargetsRight /\ LockedHasBlock /\ OneBufferPerBlock /\ HeldBufferKeepsBlock
        /\ DataKnown /\ WritesKnown
  BY DEF HeadInv
<1>1. pc[p] = "victim" /\ cpu \in {p, NULL} /\ cpu' = p /\ pc' = [pc EXCEPT ![p] = "got"]
        /\ FindBuffer(loc[p].blk) = NoBuf /\ UNCHANGED <<dvars, loc, wait, val, last>>
  BY DEF Take, Assign, At, Goto
<1>2. PICK b \in Bufs : b = loc[p].bh
  BY <1>1, Here DEF AtCall
<1>3. PICK k \in Blocks : k = loc[p].blk
  BY <1>1, Here DEF AtCall
<1>4. ~buf[b].lock /\ buf[b].count = 0 /\ free_list' = Append(RemoveFirst(free_list, b), b)
  BY <1>2 DEF Take, Assign
<1>5. PICK one \in Nat, no \in BOOLEAN : one = 1 /\ no = FALSE
  BY Zenon
<1>6. buf' = [buf EXCEPT ![b].count = one, ![b].dirt = no, ![b].uptodate = no,
                         ![b].block = k, ![b].data = NULL]
  BY <1>2, <1>3, <1>5, Zenon DEF Take, Assign
<1>7. buf \in [Bufs -> BufferHeads]
  BY <1>0 DEF TypeOK
<1>8. buf' \in [Bufs -> BufferHeads]
  <2>1. PICK r : r = [buf[b] EXCEPT !.count = one, !.dirt = no, !.uptodate = no, !.block = k,
                                   !.data = NULL]
    OBVIOUS
  <2>2. r \in BufferHeads
    <3>1. buf[b] \in BufferHeads
      BY <1>7
    <3> QED BY <2>1, <3>1 DEF BufferHeads
  <2>3. buf' = [buf EXCEPT ![b] = r]
    BY <2>1, <1>6
  <2> QED BY <2>2, <2>3, <1>7
<1>9. buf'[b].block = k /\ buf'[b].lock = buf[b].lock /\ buf'[b].count = one
        /\ buf'[b].dirt = no /\ buf'[b].uptodate = no
  BY <1>6, <1>7 DEF BufferHeads
<1>10. \A d \in Bufs : d # b => buf'[d] = buf[d]
  BY <1>6, <1>7 DEF BufferHeads
<1>11. \A d \in Bufs : buf[d].block # k
  BY <1>0, <1>1, <1>3, FindBufferFacts, Numbers
<1>12. ASSUME NEW q \in Procs PROVE ~HoldingAt(pc[q], loc[q], b) /\ loc[q].keep # b
  <2>1. RefsAt(pc[q], loc[q], b) =< 0
    BY <1>0, <1>4, HeldIsCounted
  <2> QED BY <2>1 DEF RefsAt, One
<1>13. pc \in [Procs -> Locations] /\ loc \in [Procs -> Locals] /\ "got" \in Locations
  BY <1>0 DEF TypeOK, Locations
<1>14. pc' \in [Procs -> Locations] /\ pc'[p] = "got" /\ \A q \in Procs : q # p => pc'[q] = pc[q]
  BY <1>1, <1>13
<1>15. loc' = loc /\ UNCHANGED <<request, queue, xfer, disk, wait, val, last>>
  BY <1>1 DEF dvars
<1>16. free_list' \in [Bufs -> Bufs] /\ FreeListFull'
  BY <1>0, <1>4, MoveToEnd
<1>17. TypeOK'
  BY <1>0, <1>1, <1>8, <1>14, <1>15, <1>16 DEF TypeOK
<1>18. Control'
  <2>1. AtCall("got", loc[p]) /\ AtTransfer("got", loc[p])
    BY <1>1, Here DEF AtCall, AtTransfer
  <2> QED BY <1>0, <1>14, <1>15, <2>1 DEF Control
<1>19. ASSUME NEW q \in Procs, q # p
       PROVE  pc[q] \notin {"scan", "ll", "got", "ahead", "aheaddone"}
  BY <1>0, <1>1, <1>19, Numbers DEF Runs
<1>20. Runs'
  BY <1>1, <1>14, <1>19 DEF Runs
<1>21. CountIsReferences'
  <2>1. pc' = [pc EXCEPT ![p] = "got"] /\ loc' = [loc EXCEPT ![p] = loc[p]]
    BY <1>1, <1>13
  <2>2. ASSUME NEW d \in Bufs
        PROVE  buf'[d].count = buf[d].count + RefsAt("got", loc[p], d) - RefsAt(pc[p], loc[p], d)
    <3>1. CASE d = b
      <4>1. RefsAt("got", loc[p], b) = 1 /\ RefsAt(pc[p], loc[p], b) = 0
        BY <1>1, <1>2, <1>12 DEF RefsAt, One, HoldingAt
      <4> QED BY <3>1, <4>1, <1>4, <1>5, <1>9
    <3>2. CASE d # b
      <4>1. RefsAt("got", loc[p], d) = RefsAt(pc[p], loc[p], d) /\ RefsAt(pc[p], loc[p], d) \in Nat
        BY <3>2, <1>1, <1>2 DEF RefsAt, One, HoldingAt
      <4>2. buf'[d].count = buf[d].count /\ buf[d].count \in Nat
        BY <3>2, <1>7, <1>10 DEF BufferHeads
      <4>3. \A x, y \in Nat : x = x + y - y
        OBVIOUS
      <4>4. buf[d].count = buf[d].count + RefsAt(pc[p], loc[p], d) - RefsAt(pc[p], loc[p], d)
        BY <4>1, <4>2, <4>3, Zenon
      <4> QED BY <4>1, <4>2, <4>4, Zenon
    <3> QED BY <3>1, <3>2
  <2> QED BY <1>0, <2>1, <2>2, CountStep
<1>22. \A d \in Bufs : buf'[d].lock = buf[d].lock
  BY <1>9, <1>10
<1>23. \A q \in Procs, d \in Bufs : Waits(q, d)' <=> Waits(q, d)
  BY <1>1, <1>14, <1>15 DEF Waits, WaitsAt
<1>24. LocksOwned'
  BY <1>0, <1>15, <1>22, <1>23 DEF LocksOwned
<1>25. \A s \in Slots : request[s].bh # b
  BY <1>0, <1>4 DEF LocksOwned
<1>26. TargetsRight'
  <2> SUFFICES ASSUME NEW q \in Procs PROVE TargetAt(pc[q], loc[q])'
    BY DEF TargetsRight
  <2>1. CASE q = p
    BY <2>1, <1>2, <1>4, <1>14, <1>15, <1>22 DEF TargetAt
  <2>2. CASE q # p
    <3>1. pc'[q] = pc[q] /\ pc[q] # "got" /\ pc[q] # "ll"
      BY <2>2, <1>14, <1>19
    <3>2. pc[q] = "slot" => loc[q].tgt # b /\ loc[q].tgt \in Bufs
      BY <1>0, <1>4, Here DEF LocksOwned, Waits, WaitsAt, AtTransfer
    <3>3. pc[q] = "hold" => loc[q].bh # b /\ loc[q].bh \in Bufs
      BY <1>12, Here DEF HoldingAt, AtCall
    <3>4. TargetAt(pc[q], loc[q])
      BY Here
    <3> QED BY <3>1, <3>2, <3>3, <3>4, <1>10, <1>15 DEF TargetAt
  <2> QED BY <2>1, <2>2
<1>27. LockedHasBlock'
  BY <1>0, <1>4, <1>10, <1>22 DEF LockedHasBlock
<1>28. DataKnown'
  BY <1>0, <1>5, <1>9, <1>10 DEF DataKnown
<1>29. WritesKnown'
  <2>1. \A s \in Slots : request[s].bh \in Bufs => buf'[request[s].bh] = buf[request[s].bh]
    BY <1>10, <1>25
  <2> QED BY <1>0, <1>15, <2>1 DEF WritesKnown
<1>30. OneBufferPerBlock'
  BY <1>0, <1>9, <1>10, <1>11 DEF OneBufferPerBlock
<1>31. HeldBufferKeepsBlock'
  <2> SUFFICES ASSUME NEW q \in Procs, NEW d \in Bufs
               PROVE  /\ Holds(q, d)' => buf'[d].block = loc'[q].blk
                      /\ loc'[q].keep = d => buf'[d].block = loc'[q].first
    BY DEF HeldBufferKeepsBlock
  <2>1. CASE q = p
    <3>1. Holds(q, d)' => d = b
      BY <2>1, <1>2, <1>15 DEF Holds
    <3>2. loc'[q].keep = d => d # b /\ buf[d].block = loc[q].first
      BY <1>0, <1>12, <1>15 DEF HeldBufferKeepsBlock
    <3> QED BY <2>1, <3>1, <3>2, <1>3, <1>9, <1>10, <1>15
  <2>2. CASE q # p
    <3>1. Holds(q, d)' => Holds(q, d) /\ d # b
      BY <2>2, <1>12, <1>14, <1>15 DEF Holds, HoldingAt
    <3>2. loc'[q].keep = d => d # b
      BY <1>12, <1>15
    <3> QED BY <3>1, <3>2, <1>0, <1>10, <1>15 DEF HeldBufferKeepsBlock
  <2> QED BY <2>1, <2>2
<1>32. HeadInv'
  BY <1>16, <1>17, <1>18, <1>20, <1>21, <1>24, <1>26, <1>27, <1>28, <1>29, <1>30, <1>31 DEF HeadInv
<1>33. RequestView' = RequestView
  <2>1. \A s \in Slots : request[s].bh \in Bufs \union {NoBuf}
    BY <1>0 DEF TypeOK
  <2>2. \A s \in Slots : request[s].bh # NoBuf => buf'[request[s].bh] = buf[request[s].bh]
    BY <2>1, <1>10, <1>25
  <2> QED BY <2>2, <1>15 DEF RequestView
<1> QED BY <1>15, <1>32, <1>33 DEF SameTable

-----------------------------------------------------------------------------
(* RequestQueue, as the cache uses it and as RequestQueueProofs has it, is  *)
(* the same.                                                                *)
LEMMA SameSlot ==
  ASSUME NEW v, NEW cmd
  PROVE  RQ!FindSlot(v, cmd) = RQP!FindSlot(v, cmd)
BY DEF RQ!FindSlot, RQP!FindSlot, RQ!SelectLastInSubSeq, RQP!SelectLastInSubSeq, RQ!Max, RQP!Max,
       RQ!SlotLimit, RQP!SlotLimit, RQ!Free, RQP!Free, RQ!READ, RQP!READ

(* add_request().                                                           *)
LEMMA SameAdd ==
  ASSUME NEW v, NEW q, NEW s
  PROVE  RQ!AddRequest(v, q, s) = RQP!AddRequest(v, q, s)
BY DEF RQ!AddRequest, RQP!AddRequest, RQ!InsertAt, RQP!InsertAt, RQ!StopAt, RQP!StopAt,
       RQ!IN_ORDER, RQP!IN_ORDER, RQ!Min, RQP!Min

(* The names.                                                               *)
LEMMA SameNames ==
  /\ RQP!READ = READ /\ RQP!WRITE = WRITE /\ RQP!Slots = Slots
  /\ RQ!READ = READ /\ RQ!WRITE = WRITE /\ RQ!Slots = Slots
  /\ RQP!Free = [cmd |-> READ, block |-> NoBlock] /\ RQ!Free = RQP!Free
BY DEF RQP!READ, READ, RQP!WRITE, WRITE, RQP!Slots, Slots, RQ!READ, RQ!WRITE, RQ!Slots,
       RQP!Free, RQ!Free, NoBlock

(* What a request looks like to RequestQueue.                               *)
LEMMA ViewFacts ==
  ASSUME HeadInv, NEW s \in Slots
  PROVE  /\ request[s] \in [cmd : {READ, WRITE}, bh : Bufs \union {NoBuf}]
         /\ RequestView[s].cmd = request[s].cmd
         /\ request[s].bh = NoBuf => RequestView[s].block = NoBlock
         /\ request[s].bh \in Bufs => /\ RequestView[s].block = buf[request[s].bh].block
                                      /\ RequestView[s].block \in Blocks
         /\ RequestView[s] = RQP!Free => request[s].bh = NoBuf
<1>1. request[s] \in [cmd : {READ, WRITE}, bh : Bufs \union {NoBuf}]
  BY DEF HeadInv, TypeOK
<1>2. RequestView[s].cmd = request[s].cmd
  BY DEF RequestView
<1>3. request[s].bh = NoBuf => RequestView[s].block = NoBlock
  BY DEF RequestView
<1>4. request[s].bh \in Bufs => RequestView[s].block = buf[request[s].bh].block
  BY Numbers DEF RequestView
<1>5. request[s].bh \in Bufs => buf[request[s].bh].block \in Blocks
  BY DEF HeadInv, LocksOwned, LockedHasBlock
<1>6. RequestView[s] = RQP!Free => request[s].bh = NoBuf
  BY <1>1, <1>4, <1>5, SameNames, Numbers
<1> QED BY <1>1, <1>2, <1>3, <1>4, <1>5, <1>6

(* ll_rw_block() finds the request table full.                              *)
LEMMA LLNoSlotStep ==
  ASSUME HeadInv, NEW p \in Procs, LLNoSlot(p)
  PROVE  HeadInv' /\ SameTable
<1>0. TypeOK /\ FreeListFull /\ Control /\ Runs /\ CountIsReferences /\ LocksOwned
        /\ TargetsRight /\ LockedHasBlock /\ OneBufferPerBlock /\ HeldBufferKeepsBlock
        /\ DataKnown /\ WritesKnown
  BY DEF HeadInv
<1>1. pc[p] = "ll" /\ cpu \in {p, NULL} /\ cpu' = p /\ pc' = [pc EXCEPT ![p] = "slot"]
        /\ wait' = [wait EXCEPT ![p] = <<"searched", 0>>] /\ loc[p].cmd # READA
        /\ UNCHANGED <<free_list, dvars, loc, val, last>>
  BY DEF LLNoSlot, NoSlot, At, Goto
<1>2. PICK b \in Bufs : b = loc[p].tgt
  BY <1>1, Here DEF AtTransfer
<1>3. PICK yes \in BOOLEAN : yes = TRUE /\ buf' = [buf EXCEPT ![b].lock = yes]
  BY <1>2 DEF LLNoSlot
<1>4. ~buf[b].lock /\ (Command(p) = WRITE => buf[b].dirt) /\ buf[b].block \in Blocks
  BY <1>1, <1>2, Here DEF LLNoSlot, LLNeeded, TargetAt
<1>5. buf \in [Bufs -> BufferHeads]
  BY <1>0 DEF TypeOK
<1>6. buf' \in [Bufs -> BufferHeads]
  <2>1. PICK r : r = [buf[b] EXCEPT !.lock = TRUE]
    OBVIOUS
  <2>2. r \in BufferHeads
    <3>1. buf[b] \in BufferHeads
      BY <1>5
    <3> QED BY <2>1, <3>1 DEF BufferHeads
  <2>3. buf' = [buf EXCEPT ![b] = r]
    BY <2>1, <1>3
  <2> QED BY <2>2, <2>3, <1>5
<1>7. buf'[b].lock /\ \A d \in Bufs : d # b => buf'[d].lock = buf[d].lock
  BY <1>3, <1>5 DEF BufferHeads
<1>8. \A d \in Bufs : /\ buf'[d].block = buf[d].block /\ buf'[d].count = buf[d].count
                      /\ buf'[d].data = buf[d].data /\ buf'[d].dirt = buf[d].dirt
                      /\ buf'[d].uptodate = buf[d].uptodate
  BY <1>3, <1>5 DEF BufferHeads
<1>9. pc' \in [Procs -> Locations] /\ pc'[p] = "slot" /\ \A q \in Procs : q # p => pc'[q] = pc[q]
  BY <1>0, <1>1 DEF TypeOK, Locations
<1>10. loc' = loc /\ UNCHANGED <<free_list, request, queue, xfer, disk, val, last>>
  BY <1>1 DEF dvars
<1>11. TypeOK'
  <2>1. wait' \in [Procs -> Channels]
    BY <1>1, StageFacts, Asleep
  <2> QED BY <1>0, <1>1, <1>6, <1>9, <1>10, <2>1 DEF TypeOK
<1>12. FreeListFull' /\ OneBufferPerBlock' /\ DataKnown' /\ WritesKnown'
  BY <1>0, <1>8, <1>10 DEF FreeListFull, OneBufferPerBlock, DataKnown, WritesKnown
<1>13. Control'
  <2>1. AtCall("slot", loc[p])
    BY <1>1, Here DEF AtCall
  <2>2. AtTransfer("slot", loc[p])
    BY <1>1, Here DEF AtTransfer
  <2> QED BY <1>0, <1>9, <1>10, <2>1, <2>2 DEF Control
<1>14. ASSUME NEW q \in Procs, q # p
       PROVE  pc[q] \notin {"scan", "ll", "got", "ahead", "aheaddone"}
  BY <1>0, <1>1, <1>14, Numbers DEF Runs
<1>15. Runs'
  BY <1>9, <1>14 DEF Runs
<1>16. \A q \in Procs, d \in Bufs : Holds(q, d)' <=> Holds(q, d)
  BY <1>1, <1>9, <1>10 DEF Holds
<1>17. CountIsReferences' /\ HeldBufferKeepsBlock'
  BY <1>0, <1>8, <1>10, <1>16, SameRefs
<1>18. \A q \in Procs, d \in Bufs : Waits(q, d)' <=> Waits(q, d) \/ (q = p /\ d = b)
  BY <1>1, <1>2, <1>9, <1>10 DEF Waits, WaitsAt
<1>19. LocksOwned'
  <2>1. (\A s \in Slots : request[s].bh # b) /\ \A q \in Procs : ~Waits(q, b)
    BY <1>0, <1>4 DEF LocksOwned
  <2> QED BY <1>0, <1>7, <1>10, <1>18, <2>1 DEF LocksOwned
<1>20. TargetsRight'
  <2> SUFFICES ASSUME NEW q \in Procs PROVE TargetAt(pc[q], loc[q])'
    BY DEF TargetsRight
  <2>1. CASE q = p
    <3>1. loc[p].cmd = WRITE => buf[b].data \in Vals
      BY <1>0, <1>1, <1>4 DEF Command, DataKnown
    <3> QED BY <2>1, <3>1, <1>2, <1>8, <1>9, <1>10 DEF TargetAt
  <2>2. CASE q # p
    <3>1. pc'[q] = pc[q] /\ pc[q] # "got" /\ pc[q] # "ll"
      BY <2>2, <1>9, <1>14
    <3>2. (pc[q] = "slot" => loc[q].tgt \in Bufs) /\ (pc[q] = "hold" => loc[q].bh \in Bufs)
      BY Here DEF AtTransfer, AtCall
    <3>3. TargetAt(pc[q], loc[q])
      BY Here
    <3> QED BY <3>1, <3>2, <3>3, <1>8, <1>10 DEF TargetAt
  <2> QED BY <2>1, <2>2
<1>21. LockedHasBlock'
  BY <1>0, <1>4, <1>7, <1>8 DEF LockedHasBlock
<1>22. HeadInv'
  BY <1>11, <1>12, <1>13, <1>15, <1>17, <1>19, <1>20, <1>21 DEF HeadInv
<1>23. RequestView' = RequestView
  <2>1. \A s \in Slots : request[s].bh = NoBuf \/ request[s].bh \in Bufs
    BY <1>0 DEF TypeOK
  <2> QED BY <2>1, <1>8, <1>10 DEF RequestView
<1> QED BY <1>10, <1>22, <1>23 DEF SameTable

(* add_request() leaves the current request where it is.                    *)
LEMMA AddHead ==
  ASSUME NEW v, NEW q \in Seq(Slots), NEW s \in Slots
  PROVE  /\ q # <<>> => RQP!AddRequest(v, q, s)[1] = q[1]
         /\ q = <<>> => RQP!AddRequest(v, q, s)[1] = s
<1> DEFINE r == [i \in 1 .. Len(q) |-> v[q[i]]]
           I == {i \in 1 .. (Len(r) - 1) :
                   /\ RQP!IN_ORDER(r[i], v[s]) \/ ~RQP!IN_ORDER(r[i], r[i + 1])
                   /\ RQP!IN_ORDER(v[s], r[i + 1])}
<1>1. Len(q) \in Nat /\ Len(r) = Len(q)
  OBVIOUS
<1>2. RQP!StopAt(r, v[s]) = IF I = {} THEN Len(r) ELSE Min(I)
  BY DEF RQP!StopAt, RQP!Min, Min
<1>3. I \in SUBSET (1 .. (Len(q) - 1)) /\ I \in SUBSET Nat
  BY <1>1
<1>4. RQP!AddRequest(v, q, s) = RQP!InsertAt(q, RQP!StopAt(r, v[s]) + 1, s)
  BY DEF RQP!AddRequest
<1> HIDE DEF r, I
<1>5. PICK n \in 0 .. Len(q) : n = RQP!StopAt(r, v[s]) /\ (q # <<>> => n >= 1)
  <2>1. CASE I = {}
    <3>1. q # <<>> => Len(q) >= 1
      BY <1>1
    <3> QED BY <2>1, <3>1, <1>1, <1>2
  <2>2. CASE I # {}
    <3>1. Min(I) \in I
      BY <2>2, <1>3, RQP!MinFacts, CacheAssumption DEF RQP!Min, Min
    <3>2. Min(I) \in 1 .. (Len(q) - 1)
      BY <3>1, <1>3
    <3>3. Min(I) \in 0 .. Len(q) /\ Min(I) >= 1
      BY <3>2, <1>1
    <3> QED BY <2>2, <3>3, <1>2
  <2> QED BY <2>1, <2>2
<1>6. PICK c \in Seq(Slots) : c = InsertAt(q, n + 1, s) /\ RQP!IsInserted(c, q, n + 1, s)
  <2>1. n + 1 \in 1 .. (Len(q) + 1)
    BY <1>1, <1>5
  <2> QED BY <2>1, RQP!InsertFacts, CacheAssumption DEF RQP!InsertAt, InsertAt
<1>7. RQP!AddRequest(v, q, s) = c
  BY <1>4, <1>5, <1>6 DEF RQP!InsertAt, InsertAt
<1>8. c[1] = IF 1 < n + 1 THEN q[1] ELSE IF 1 = n + 1 THEN s ELSE q[0]
  BY <1>1, <1>6 DEF RQP!IsInserted
<1>9. CASE q # <<>>
  BY <1>5, <1>7, <1>8, <1>9
<1>10. CASE q = <<>>
  <2>1. n = 0
    BY <1>5, <1>10
  <2> QED BY <2>1, <1>7, <1>8, <1>10
<1> QED BY <1>9, <1>10

(* make_request() gets a slot.  The buffer has a block, and as it was not   *)
(* locked, or locked by p itself, there is no request for it yet.           *)
LEMMA SubmitFacts ==
  ASSUME HeadInv, RQP!QueueInv, NEW p \in Procs, Submit(p)
  PROVE  \E b \in Bufs, s \in Slots, cmd \in {READ, WRITE} :
           /\ b = loc[p].tgt /\ cmd = Command(p)
           /\ s = RQP!FindSlot(RequestView, cmd) /\ s # 0
           /\ request[s].bh = NoBuf
           /\ \A i \in 1 .. Len(queue) : queue[i] # s
           /\ buf[b].block \in Blocks
           /\ \A t \in Slots : request[t].bh # b
           /\ \A q \in Procs : Waits(q, b) => q = p
           /\ cmd = WRITE => buf[b].data \in Vals
<1>1. pc[p] \in {"ll", "slot"} /\ (pc[p] = "ll" => LLNeeded(p) /\ ~buf[loc[p].tgt].lock)
  BY DEF Submit, At
<1>2. PICK b \in Bufs : b = loc[p].tgt
  BY <1>1, Here DEF AtTransfer
<1>3. PICK cmd \in {READ, WRITE} : cmd = Command(p)
  BY Here DEF Command, Locals
<1>4. RQP!FindSlot(RequestView, cmd) # 0
  BY <1>3, SameSlot DEF Submit, Enqueue
<1>5. PICK s \in Slots : s = RQP!FindSlot(RequestView, cmd) /\ RequestView[s] = RQP!Free
  <2>1. RQP!TypeOK
    BY DEF RQP!QueueInv, RQP!ElevatorOrder
  <2> QED BY <2>1, <1>4, RQP!FindSlotFacts, CacheAssumption, SameNames
<1>6. request[s].bh = NoBuf
  BY <1>5, ViewFacts
<1>7. \A i \in 1 .. Len(queue) : queue[i] # s
  BY <1>5, SameNames DEF RQP!QueueInv, RQP!ElevatorOrder, RQP!TypeOK
<1>8. buf[b].block \in Blocks
  <2>1. CASE pc[p] = "ll"
    BY <2>1, <1>2, Here DEF TargetAt
  <2>2. CASE pc[p] = "slot"
    <3>1. buf[b].lock
      BY <2>2, <1>2 DEF HeadInv, LocksOwned, Waits, WaitsAt
    <3> QED BY <3>1 DEF HeadInv, LockedHasBlock
  <2> QED BY <2>1, <2>2, <1>1
<1>9. (\A t \in Slots : request[t].bh # b) /\ \A q \in Procs : Waits(q, b) => q = p
  <2>1. CASE pc[p] = "ll"
    BY <2>1, <1>1, <1>2 DEF HeadInv, LocksOwned
  <2>2. CASE pc[p] = "slot"
    <3>1. Waits(p, b)
      BY <2>2, <1>2 DEF Waits, WaitsAt
    <3> QED BY <3>1 DEF HeadInv, LocksOwned
  <2> QED BY <2>1, <2>2, <1>1
<1>10. cmd = WRITE => buf[b].data \in Vals
  <2>1. CASE pc[p] = "ll"
    BY <2>1, <1>1, <1>2, <1>3 DEF HeadInv, DataKnown, LLNeeded
  <2>2. CASE pc[p] = "slot"
    BY <2>2, <1>2, <1>3, Numbers, Here DEF TargetAt, Command
  <2> QED BY <2>1, <2>2, <1>1
<1> QED BY <1>2, <1>3, <1>4, <1>5, <1>6, <1>7, <1>8, <1>9, <1>10

(* The step is RequestQueue's MakeRequest.                                  *)
LEMMA SubmitMakes ==
  ASSUME HeadInv, RQP!QueueInv, NEW p \in Procs, Submit(p)
  PROVE  \E cmd \in {READ, WRITE}, k \in Blocks : RQP!MakeRequest(cmd, k)
<1>1. PICK b \in Bufs, s \in Slots, cmd \in {READ, WRITE} :
           /\ b = loc[p].tgt /\ cmd = Command(p)
           /\ s = RQP!FindSlot(RequestView, cmd) /\ s # 0
           /\ request[s].bh = NoBuf
           /\ buf[b].block \in Blocks
           /\ \A t \in Slots : request[t].bh # b
  BY SubmitFacts
<1>2. PICK k \in Blocks : k = buf[b].block
  BY <1>1
<1>3. s = RQ!FindSlot(RequestView, cmd)
  BY <1>1, SameSlot
<1>4. /\ request' = [request EXCEPT ![s] = [cmd |-> cmd, bh |-> b]]
      /\ queue' = RQ!AddRequest([RequestView EXCEPT ![s] = [cmd |-> cmd, block |-> k]], queue, s)
      /\ buf' = [buf EXCEPT ![b].lock = TRUE, ![b].dirt = FALSE]
  BY <1>1, <1>2, <1>3 DEF Submit, Enqueue
<1>5. buf \in [Bufs -> BufferHeads]
        /\ request \in [Slots -> [cmd : {READ, WRITE}, bh : Bufs \union {NoBuf}]]
  BY DEF HeadInv, TypeOK
<1>6. \A d \in Bufs : buf'[d].block = buf[d].block
  BY <1>4, <1>5 DEF BufferHeads
<1>7. RequestView' = [RequestView EXCEPT ![s] = [cmd |-> cmd, block |-> k]]
  <2>1. request'[s].cmd = cmd /\ request'[s].bh = b
          /\ \A t \in Slots : t # s => request'[t] = request[t]
    BY <1>4, <1>5
  <2>2. \A t \in Slots : request[t].bh = NoBuf \/ request[t].bh \in Bufs
    BY <1>5
  <2>3. RequestView'[s] = [cmd |-> cmd, block |-> k]
    BY <2>1, <1>2, <1>6, Numbers DEF RequestView
  <2>4. \A t \in Slots : t # s => RequestView'[t] = RequestView[t]
    BY <2>1, <2>2, <1>6 DEF RequestView
  <2>5. RequestView = [t \in Slots |-> RequestView[t]] /\ RequestView' = [t \in Slots |-> RequestView'[t]]
    BY DEF RequestView
  <2> QED BY <2>3, <2>4, <2>5
<1>8. ~RQP!Pending(k)
  <2> SUFFICES ASSUME NEW t \in Slots, RequestView[t] # RQP!Free, RequestView[t].block = k
               PROVE  FALSE
    BY SameNames DEF RQP!Pending
  <2>1. request[t].bh \in Bufs
    <3>1. request[t].bh # NoBuf
      BY ViewFacts, Numbers
    <3> QED BY <3>1, <1>5
  <2>2. buf[request[t].bh].block = buf[b].block
    BY <2>1, <1>2, ViewFacts
  <2>3. request[t].bh = b
    BY <2>1, <2>2, <1>1, Numbers DEF HeadInv, OneBufferPerBlock
  <2> QED BY <2>3, <1>1
<1>9. queue' = RQP!AddRequest(RequestView', queue, s)
  BY <1>4, <1>7, SameAdd
<1>10. RQP!MakeRequest(cmd, k)
  BY <1>1, <1>7, <1>8, <1>9 DEF RQP!MakeRequest
<1> QED BY <1>10

(* make_request() queues a buffer, which it has locked.                     *)
LEMMA SubmitStep ==
  ASSUME HeadInv, FreeIsRead, RQP!QueueInv, NEW p \in Procs, Submit(p)
  PROVE  HeadInv' /\ FreeIsRead' /\ RQP!QueueInv'
<1>0. TypeOK /\ FreeListFull /\ Control /\ Runs /\ CountIsReferences /\ LocksOwned
        /\ TargetsRight /\ LockedHasBlock /\ OneBufferPerBlock /\ HeldBufferKeepsBlock
        /\ DataKnown /\ WritesKnown
  BY DEF HeadInv
<1>1. PICK b \in Bufs, s \in Slots, cmd \in {READ, WRITE} :
           /\ b = loc[p].tgt /\ cmd = Command(p)
           /\ s = RQP!FindSlot(RequestView, cmd) /\ s # 0
           /\ request[s].bh = NoBuf
           /\ \A i \in 1 .. Len(queue) : queue[i] # s
           /\ buf[b].block \in Blocks
           /\ \A t \in Slots : request[t].bh # b
           /\ \A q \in Procs : Waits(q, b) => q = p
           /\ cmd = WRITE => buf[b].data \in Vals
  BY SubmitFacts
<1>2. RQP!QueueInv'
  <2>1. PICK c \in {READ, WRITE}, k \in Blocks : RQP!MakeRequest(c, k)
    BY SubmitMakes
  <2> QED BY <2>1, RQP!MakeRequestStep, CacheAssumption, SameNames
<1>3. PICK yes \in BOOLEAN, no \in BOOLEAN : yes = TRUE /\ no = FALSE
  OBVIOUS
<1>4. PICK r : r = [cmd |-> cmd, bh |-> b]
  OBVIOUS
<1>5. /\ request' = [request EXCEPT ![s] = r]
      /\ \E v : queue' = RQP!AddRequest(v, queue, s)
      /\ xfer' = IF queue = <<>> /\ cmd = WRITE THEN buf[b].data ELSE xfer
      /\ buf' = [buf EXCEPT ![b].lock = yes, ![b].dirt = no]
      /\ LLReturn(p)
      /\ UNCHANGED <<free_list, disk, wait, val, last>>
  BY <1>1, <1>3, <1>4, SameSlot, SameAdd DEF Submit, Enqueue
<1>6. pc[p] \in {"ll", "slot"} /\ cpu \in {p, NULL}
  BY DEF Submit, At
<1>7. PICK l \in Locations, c \in Locals :
        /\ loc' = [loc EXCEPT ![p] = c] /\ pc' = [pc EXCEPT ![p] = l] /\ cpu' = p
        /\ l \in {"sync", "bwait", "ahead", "aheaddone"}
        /\ AtCall(l, c) /\ AtTransfer(l, c) /\ KeepsBlock(l, c)
        /\ \A d \in Bufs : HoldingAt(l, c, d) <=> HoldingAt(pc[p], loc[p], d)
        /\ c.keep = loc[p].keep
  BY <1>5, <1>6, LLReturnFacts
<1>8. pc' \in [Procs -> Locations] /\ loc' \in [Procs -> Locals] /\ pc'[p] = l /\ loc'[p] = c
        /\ \A q \in Procs : q # p => pc'[q] = pc[q] /\ loc'[q] = loc[q]
  BY <1>0, <1>7 DEF TypeOK
<1>9. buf \in [Bufs -> BufferHeads]
  BY <1>0 DEF TypeOK
<1>10. buf' \in [Bufs -> BufferHeads]
  <2>1. PICK h : h = [buf[b] EXCEPT !.lock = yes, !.dirt = no]
    OBVIOUS
  <2>2. h \in BufferHeads
    <3>1. buf[b] \in BufferHeads
      BY <1>9
    <3> QED BY <2>1, <3>1 DEF BufferHeads
  <2>3. buf' = [buf EXCEPT ![b].lock = yes, ![b].dirt = no]
    BY <1>5
  <2>4. buf' = [buf EXCEPT ![b] = h]
    BY <2>1, <2>3
  <2> QED BY <2>2, <2>4, <1>9
<1>11. buf'[b].lock /\ ~buf'[b].dirt
         /\ \A d \in Bufs : d # b => buf'[d].lock = buf[d].lock /\ buf'[d].dirt = buf[d].dirt
  BY <1>3, <1>5, <1>9 DEF BufferHeads
<1>12. \A d \in Bufs : /\ buf'[d].block = buf[d].block /\ buf'[d].count = buf[d].count
                       /\ buf'[d].data = buf[d].data /\ buf'[d].uptodate = buf[d].uptodate
  BY <1>5, <1>9 DEF BufferHeads
<1>13. r \in [cmd : {READ, WRITE}, bh : Bufs \union {NoBuf}] /\ r.cmd = cmd /\ r.bh = b
  BY <1>4
<1>14. request \in [Slots -> [cmd : {READ, WRITE}, bh : Bufs \union {NoBuf}]]
  BY <1>0 DEF TypeOK
<1>15. request' \in [Slots -> [cmd : {READ, WRITE}, bh : Bufs \union {NoBuf}]]
         /\ request'[s] = r /\ \A t \in Slots : t # s => request'[t] = request[t]
  BY <1>5, <1>13, <1>14
<1>16. TypeOK'
  <2>1. queue' \in Seq(Slots)
    BY <1>2, SameNames DEF RQP!QueueInv, RQP!ElevatorOrder, RQP!TypeOK
  <2>2. xfer' \in Vals \union {NULL}
    <3>1. buf[b].data \in Vals \union {NULL} /\ xfer \in Vals \union {NULL}
      BY <1>0, <1>9 DEF BufferHeads, TypeOK
    <3> QED BY <3>1, <1>5
  <2>3. cpu' \in Procs \union {NULL}
    BY <1>7
  <2> QED BY <1>0, <1>5, <1>8, <1>10, <1>15, <2>1, <2>2, <2>3 DEF TypeOK
<1>17. FreeListFull' /\ OneBufferPerBlock'
  <2>1. free_list' = free_list
    BY <1>5
  <2>2. FreeListFull'
    BY <1>0, <2>1 DEF FreeListFull
  <2>3. OneBufferPerBlock'
    BY <1>0, <1>12 DEF OneBufferPerBlock
  <2> QED BY <2>2, <2>3
<1>18. Control'
  BY <1>0, <1>7, <1>8 DEF Control
<1>19. ASSUME NEW q \in Procs, q # p
       PROVE  pc[q] \notin {"scan", "ll", "got", "ahead", "aheaddone"}
  BY <1>0, <1>6, <1>19, Numbers DEF Runs
<1>20. Runs'
  BY <1>7, <1>8, <1>19 DEF Runs
<1>21. CountIsReferences'
  <2>1. ASSUME NEW d \in Bufs
        PROVE  buf'[d].count = buf[d].count + RefsAt(l, c, d) - RefsAt(pc[p], loc[p], d)
    <3>1. buf'[d].count = buf[d].count /\ buf[d].count \in Nat
      BY <1>9, <1>12 DEF BufferHeads
    <3>2. RefsAt(l, c, d) = RefsAt(pc[p], loc[p], d) /\ RefsAt(l, c, d) \in Nat
      BY <1>7 DEF RefsAt, One
    <3>3. \A x, y \in Nat : x = x + y - y
      OBVIOUS
    <3>4. buf[d].count = buf[d].count + RefsAt(l, c, d) - RefsAt(l, c, d)
      BY <3>1, <3>2, <3>3, Zenon
    <3> QED BY <3>1, <3>2, <3>4, Zenon
  <2>2. pc' = [pc EXCEPT ![p] = l] /\ loc' = [loc EXCEPT ![p] = c]
    BY <1>7
  <2> QED BY <1>0, <2>1, <2>2, CountStep
<1>22. HeldBufferKeepsBlock'
  <2> SUFFICES ASSUME NEW q \in Procs, NEW d \in Bufs
               PROVE  /\ Holds(q, d)' => buf'[d].block = loc'[q].blk
                      /\ loc'[q].keep = d => buf'[d].block = loc'[q].first
    BY DEF HeldBufferKeepsBlock
  <2>1. CASE q = p
    BY <2>1, <1>7, <1>8, <1>12 DEF KeepsBlock, HoldingAt, Holds
  <2>2. CASE q # p
    BY <2>2, <1>0, <1>8, <1>12 DEF HeldBufferKeepsBlock, Holds
  <2> QED BY <2>1, <2>2
<1>23. \A q \in Procs, d \in Bufs : Waits(q, d)' <=> (Waits(q, d) /\ q # p)
  BY <1>7, <1>8 DEF Waits, WaitsAt
<1>24. \A d \in Bufs : Waits(p, d) => d = b
  BY <1>1 DEF Waits, WaitsAt
<1>25. LocksOwned'
  <2>1. \A t \in Slots : request'[t].bh = IF t = s THEN b ELSE request[t].bh
    BY <1>13, <1>15
  <2>2. \A t, u \in Slots : request'[t].bh \in Bufs /\ request'[t].bh = request'[u].bh => t = u
    BY <2>1, <1>0, <1>1 DEF LocksOwned
  <2>3. \A q, o \in Procs, d \in Bufs : Waits(q, d)' /\ Waits(o, d)' => q = o
    BY <1>0, <1>23 DEF LocksOwned
  <2>4. \A t \in Slots, q \in Procs : request'[t].bh \in Bufs => ~WaitsAt(pc'[q], loc'[q], request'[t].bh)
    <3> SUFFICES ASSUME NEW t \in Slots, NEW q \in Procs, request'[t].bh \in Bufs,
                        WaitsAt(pc'[q], loc'[q], request'[t].bh)
                 PROVE  FALSE
      OBVIOUS
    <3>1. PICK d \in Bufs : d = request'[t].bh
      OBVIOUS
    <3>2. Waits(q, d)'
      BY <3>1 DEF Waits
    <3>3. Waits(q, d) /\ q # p
      BY <3>2, <1>23
    <3> QED BY <3>1, <3>3, <2>1, <1>0, <1>1 DEF LocksOwned
  <2>5. ASSUME NEW d \in Bufs
        PROVE  buf'[d].lock <=> (\E t \in Slots : request'[t].bh = d) \/ (\E q \in Procs : Waits(q, d)')
    <3>1. CASE d = b
      BY <3>1, <2>1, <1>11
    <3>2. CASE d # b
      <4>1. (\E q \in Procs : Waits(q, d)') <=> \E q \in Procs : Waits(q, d)
        BY <3>2, <1>23, <1>24
      <4>2. (\E t \in Slots : request'[t].bh = d) <=> \E t \in Slots : request[t].bh = d
        BY <3>2, <2>1, <1>1, Numbers
      <4>3. buf[d].lock <=> (\E t \in Slots : request[t].bh = d) \/ (\E q \in Procs : Waits(q, d))
        BY <1>0 DEF LocksOwned
      <4> QED BY <3>2, <4>1, <4>2, <4>3, <1>11
    <3> QED BY <3>1, <3>2
  <2>6. \A t \in Slots, q \in Procs : (request[t].bh \in Bufs => ~Waits(q, request[t].bh))'
    BY <2>4 DEF Waits
  <2> QED BY <2>2, <2>3, <2>5, <2>6 DEF LocksOwned
<1>26. TargetsRight'
  <2> SUFFICES ASSUME NEW q \in Procs PROVE TargetAt(pc[q], loc[q])'
    BY DEF TargetsRight
  <2>1. CASE q = p
    BY <2>1, <1>7, <1>8 DEF TargetAt
  <2>2. CASE q # p
    <3>1. pc'[q] = pc[q] /\ loc'[q] = loc[q] /\ pc[q] # "got" /\ pc[q] # "ll"
      BY <2>2, <1>8, <1>19
    <3>2. (pc[q] = "slot" => loc[q].tgt \in Bufs) /\ (pc[q] = "hold" => loc[q].bh \in Bufs)
      BY Here DEF AtTransfer, AtCall
    <3>3. TargetAt(pc[q], loc[q])
      BY Here
    <3> QED BY <3>1, <3>2, <3>3, <1>12 DEF TargetAt
  <2> QED BY <2>1, <2>2
<1>27. LockedHasBlock'
  BY <1>0, <1>1, <1>11, <1>12 DEF LockedHasBlock
<1>28. DataKnown'
  BY <1>0, <1>11, <1>12 DEF DataKnown
<1>29. WritesKnown'
  <2>1. ASSUME NEW t \in Slots, request'[t].cmd = WRITE, request'[t].bh \in Bufs
        PROVE  buf'[request'[t].bh].data \in Vals
    <3>1. CASE t = s
      BY <3>1, <2>1, <1>1, <1>12, <1>13, <1>15
    <3>2. CASE t # s
      BY <3>2, <2>1, <1>0, <1>12, <1>15 DEF WritesKnown
    <3> QED BY <3>1, <3>2
  <2>2. (queue # <<>> => queue'[1] = queue[1]) /\ (queue = <<>> => queue'[1] = s)
    <3>1. queue \in Seq(Slots)
      BY <1>0 DEF TypeOK
    <3> QED BY <3>1, <1>5, AddHead
  <2>3. ASSUME request'[queue'[1]].cmd = WRITE PROVE xfer' \in Vals
    <3>1. CASE queue = <<>>
      BY <3>1, <2>2, <2>3, <1>1, <1>5, <1>13, <1>15
    <3>2. CASE queue # <<>>
      <4>1. queue \in Seq(Slots) /\ Len(queue) \in Nat /\ Len(queue) >= 1 /\ queue[1] \in Slots
        BY <3>2, <1>0 DEF TypeOK
      <4>2. queue[1] # s
        BY <4>1, <1>1
      <4>3. request[queue[1]].cmd = WRITE
        BY <3>2, <4>1, <4>2, <2>2, <2>3, <1>15
      <4> QED BY <3>2, <4>3, <1>0, <1>5 DEF WritesKnown
    <3> QED BY <3>1, <3>2
  <2> QED BY <2>1, <2>3 DEF WritesKnown
<1>30. HeadInv'
  BY <1>16, <1>17, <1>18, <1>20, <1>21, <1>22, <1>25, <1>26, <1>27, <1>28, <1>29 DEF HeadInv
<1>31. FreeIsRead'
  BY <1>13, <1>15, Numbers DEF FreeIsRead
<1> QED BY <1>2, <1>30, <1>31

-----------------------------------------------------------------------------
(* The disk interrupt: the current request is for a locked buffer, which it *)
(* unlocks.                                                                 *)
LEMMA InterruptFacts ==
  ASSUME HeadInv, RQP!QueueInv, queue # <<>>
  PROVE  /\ queue \in Seq(Slots) /\ Len(queue) \in Nat /\ Len(queue) >= 1
         /\ Head(queue) = queue[1] /\ queue[1] \in Slots
         /\ \A i \in 1 .. Len(queue) : queue[i] = queue[1] => i = 1
         /\ request[queue[1]].bh \in Bufs
<1>1. RQP!TypeOK
  BY DEF RQP!QueueInv, RQP!ElevatorOrder
<1>2. queue \in Seq(Slots) /\ Len(queue) \in Nat /\ Len(queue) >= 1
         /\ Head(queue) = queue[1] /\ queue[1] \in Slots
  BY <1>1, SameNames DEF RQP!TypeOK
<1>3. \A i \in 1 .. Len(queue) : queue[i] = queue[1] => i = 1
  BY <1>1, <1>2 DEF RQP!TypeOK
<1>4. RequestView[queue[1]] # RQP!Free
  BY <1>1, <1>2, SameNames DEF RQP!TypeOK
<1>5. ASSUME request[queue[1]].bh = NoBuf PROVE FALSE
  <2>1. RequestView[queue[1]].block = NoBlock
    BY <1>2, <1>5, ViewFacts
  <2>2. RequestView[queue[1]] \in RQP!Requests
    BY <1>1, <1>2, <1>4, SameNames DEF RQP!TypeOK
  <2> QED BY <2>1, <2>2, Numbers DEF RQP!Requests
<1>6. request[queue[1]].bh \in Bufs
  BY <1>2, <1>5, ViewFacts
<1> QED BY <1>2, <1>3, <1>6

(* The step is RequestQueue's EndRequest.                                   *)
LEMMA InterruptEnds ==
  ASSUME HeadInv, RQP!QueueInv, NEW ok \in BOOLEAN, DiskInterrupt(ok)
  PROVE  RQP!EndRequest
<1>1. queue # <<>> /\ queue' = Tail(queue)
        /\ request' = [request EXCEPT ![Head(queue)] = [cmd |-> READ, bh |-> NoBuf]]
  BY Zenon DEF DiskInterrupt
<1>2. PICK s \in Slots : s = Head(queue) /\ request[s].bh \in Bufs
  BY <1>1, InterruptFacts
<1>3. \A d \in Bufs : buf'[d].block = buf[d].block
  <2>1. \E b \in Bufs : \E v :
          buf' = [buf EXCEPT ![b].uptodate = ok, ![b].lock = FALSE, ![b].data = v]
    BY <1>2, Zenon DEF DiskInterrupt
  <2>2. buf \in [Bufs -> BufferHeads]
    BY DEF HeadInv, TypeOK
  <2> QED BY <2>1, <2>2 DEF BufferHeads
<1>4. request \in [Slots -> [cmd : {READ, WRITE}, bh : Bufs \union {NoBuf}]]
  BY DEF HeadInv, TypeOK
<1>5. request'[s].cmd = READ /\ request'[s].bh = NoBuf
        /\ \A t \in Slots : t # s => request'[t] = request[t]
  BY <1>1, <1>2, <1>4
<1>6. RequestView' = [RequestView EXCEPT ![s] = [cmd |-> READ, block |-> NoBlock]]
  <2>1. \A t \in Slots : request[t].bh = NoBuf \/ request[t].bh \in Bufs
    BY <1>4
  <2>2. RequestView'[s] = [cmd |-> READ, block |-> NoBlock]
    BY <1>5 DEF RequestView
  <2>3. \A t \in Slots : t # s => RequestView'[t] = RequestView[t]
    BY <2>1, <1>3, <1>5 DEF RequestView
  <2>4. RequestView = [t \in Slots |-> RequestView[t]] /\ RequestView' = [t \in Slots |-> RequestView'[t]]
    BY DEF RequestView
  <2> QED BY <2>2, <2>3, <2>4
<1> QED BY <1>1, <1>2, <1>6, SameNames DEF RQP!EndRequest

(* The disk interrupt keeps all of the invariant.                           *)
LEMMA InterruptStep ==
  ASSUME HeadInv, FreeIsRead, RQP!QueueInv, NEW ok \in BOOLEAN, DiskInterrupt(ok)
  PROVE  HeadInv' /\ FreeIsRead' /\ RQP!QueueInv'
<1>0. TypeOK /\ FreeListFull /\ Control /\ Runs /\ CountIsReferences /\ LocksOwned
        /\ TargetsRight /\ LockedHasBlock /\ OneBufferPerBlock /\ HeldBufferKeepsBlock
        /\ DataKnown /\ WritesKnown
  BY DEF HeadInv
<1>1. queue # <<>> /\ queue' = Tail(queue) /\ UNCHANGED <<free_list, pc, loc, cpu, val, last>>
  BY Zenon DEF DiskInterrupt
<1>2. PICK s \in Slots : s = Head(queue) /\ s = queue[1] /\ request[s].bh \in Bufs
  BY <1>1, InterruptFacts
<1>3. PICK b \in Bufs : b = request[s].bh
  BY <1>2
<1>4. RQP!QueueInv'
  BY InterruptEnds, RQP!EndRequestStep, CacheAssumption
<1>5. buf[b].lock /\ buf[b].block \in Blocks
        /\ (\A t \in Slots : request[t].bh = b => t = s) /\ \A q \in Procs : ~Waits(q, b)
  BY <1>0, <1>3 DEF LocksOwned, LockedHasBlock
<1>6. PICK k \in Blocks : k = buf[b].block
  BY <1>5
<1>7. buf \in [Bufs -> BufferHeads] /\ disk \in [Blocks -> Vals]
        /\ request \in [Slots -> [cmd : {READ, WRITE}, bh : Bufs \union {NoBuf}]]
  BY <1>0 DEF TypeOK
<1>8. PICK d \in Vals \union {NULL} : d = IF request[s].cmd = READ /\ ok THEN disk[k] ELSE buf[b].data
  <2>1. buf[b].data \in Vals \union {NULL} /\ disk[k] \in Vals
    BY <1>7 DEF BufferHeads
  <2> QED BY <2>1
<1>9. PICK no \in BOOLEAN : no = FALSE
  OBVIOUS
<1>10. buf' = [buf EXCEPT ![b].uptodate = ok, ![b].lock = no, ![b].data = d]
  <2>1. buf' = [buf EXCEPT ![b].uptodate = ok, ![b].lock = FALSE,
                           ![b].data = IF request[s].cmd = READ /\ ok THEN disk[k] ELSE @]
    BY <1>2, <1>3, <1>6, Zenon DEF DiskInterrupt
  <2>2. [buf EXCEPT ![b].uptodate = ok, ![b].lock = FALSE][b].data = buf[b].data
    BY <1>7 DEF BufferHeads
  <2> QED BY <2>1, <2>2, <1>8, <1>9
<1>11. buf' \in [Bufs -> BufferHeads]
  <2>1. PICK r : r = [buf[b] EXCEPT !.uptodate = ok, !.lock = no, !.data = d]
    OBVIOUS
  <2>2. r \in BufferHeads
    <3>1. buf[b] \in BufferHeads
      BY <1>7
    <3> QED BY <2>1, <3>1 DEF BufferHeads
  <2>3. buf' = [buf EXCEPT ![b] = r]
    BY <2>1, <1>10
  <2> QED BY <2>2, <2>3, <1>7
<1>12. ~buf'[b].lock /\ buf'[b].uptodate = ok /\ buf'[b].data = d
         /\ \A e \in Bufs : e # b => buf'[e] = buf[e]
  BY <1>7, <1>9, <1>10 DEF BufferHeads
<1>13. \A e \in Bufs : buf'[e].block = buf[e].block /\ buf'[e].count = buf[e].count
                       /\ buf'[e].dirt = buf[e].dirt
  BY <1>7, <1>10 DEF BufferHeads
<1>14. \A e \in Bufs : buf[e].data \in Vals => buf'[e].data \in Vals
  <2>1. disk[k] \in Vals
    BY <1>7
  <2> QED BY <2>1, <1>8, <1>12
<1>15. PICK r \in [cmd : {READ, WRITE}, bh : Bufs \union {NoBuf}] :
         r.cmd = READ /\ r.bh = NoBuf /\ request' = [request EXCEPT ![s] = r]
  <2>1. [cmd |-> READ, bh |-> NoBuf] \in [cmd : {READ, WRITE}, bh : Bufs \union {NoBuf}]
    OBVIOUS
  <2> QED BY <2>1, <1>2, Zenon DEF DiskInterrupt
<1>16. request' \in [Slots -> [cmd : {READ, WRITE}, bh : Bufs \union {NoBuf}]]
         /\ request'[s] = r /\ \A t \in Slots : t # s => request'[t] = request[t]
  BY <1>7, <1>15
<1>17. WritesKnown'
  <2>1. ASSUME NEW t \in Slots, request'[t].cmd = WRITE, request'[t].bh \in Bufs
        PROVE  buf'[request'[t].bh].data \in Vals
    <3>1. t # s
      BY <2>1, <1>15, <1>16, Numbers
    <3>2. request'[t] = request[t]
      BY <3>1, <1>16
    <3> QED BY <2>1, <3>2, <1>0, <1>14 DEF WritesKnown
  <2>2. ASSUME queue' # <<>>, request'[queue'[1]].cmd = WRITE PROVE xfer' \in Vals
    <3>1. queue \in Seq(Slots) /\ Len(queue) \in Nat /\ Len(queue) >= 1
            /\ \A i \in 1 .. Len(queue) : queue[i] = queue[1] => i = 1
      BY <1>1, InterruptFacts
    <3>2. Len(queue) >= 2 /\ queue'[1] = queue[2]
      BY <3>1, <2>2, <1>1
    <3>3. PICK t \in Slots : t = queue[2] /\ t # s
      BY <3>1, <3>2, <1>2
    <3>4. request[t].cmd = WRITE /\ queue'[1] = t
      BY <3>2, <3>3, <2>2, <1>16
    <3>5. request[t].bh \in Bufs
      <4>1. RQP!TypeOK
        BY DEF RQP!QueueInv, RQP!ElevatorOrder
      <4>2. RequestView[t] # RQP!Free
        BY <4>1, <3>1, <3>2, <3>3, SameNames DEF RQP!TypeOK
      <4>3. RequestView[t] \in RQP!Requests
        BY <4>1, <4>2, SameNames DEF RQP!TypeOK
      <4>4. request[t].bh # NoBuf
        BY <4>3, ViewFacts, Numbers DEF RQP!Requests
      <4> QED BY <4>4, ViewFacts
    <3>6. Head(queue') = t
      BY <3>1, <3>2, <3>4, <2>2, <1>1
    <3>7. xfer' = buf[request[t].bh].data
      BY <3>4, <3>6, <2>2, <1>1, Zenon DEF DiskInterrupt
    <3> QED BY <3>4, <3>5, <3>7, <1>0 DEF WritesKnown
  <2> QED BY <2>1, <2>2 DEF WritesKnown
<1>18. TypeOK'
  <2>1. queue' \in Seq(Slots)
    BY <1>4, SameNames DEF RQP!QueueInv, RQP!ElevatorOrder, RQP!TypeOK
  <2>2. wait' \in [Procs -> Channels]
    <3>1. WakeUp(wait, BWait(b)) \in [Procs -> Channels]
      BY Awaken
    <3>2. FreeSlot(WakeUp(wait, BWait(b))) \in [Procs -> Channels]
      BY <3>1, FreeSlotFacts
    <3> QED BY <3>2, <1>2, <1>3, Zenon DEF DiskInterrupt
  <2>3. disk' \in [Blocks -> Vals]
    <3>1. PICK v \in IF request[s].cmd = READ THEN {disk[k]}
                     ELSE {xfer, buf[b].data} \union (IF ok THEN {} ELSE {disk[k]}) :
            disk' = [disk EXCEPT ![k] = v]
      BY <1>2, <1>3, <1>6, Zenon DEF DiskInterrupt
    <3>2. disk[k] \in Vals
      BY <1>7
    <3>3. request[s].cmd # READ => xfer \in Vals /\ buf[b].data \in Vals
      <4>1. request[s].cmd \in {READ, WRITE}
        BY <1>7
      <4> QED BY <4>1, <1>0, <1>1, <1>2, <1>3 DEF WritesKnown
    <3>4. v \in Vals
      BY <3>1, <3>2, <3>3
    <3> QED BY <3>1, <3>4, <1>7
  <2>4. xfer' \in Vals \union {NULL}
    <3>1. CASE queue' # <<>> /\ request[Head(queue')].cmd = WRITE
      <4>1. queue' \in Seq(Slots) /\ Head(queue') \in Slots
        BY <2>1, <3>1
      <4>2. queue \in Seq(Slots) /\ Head(queue') = queue'[1] /\ Head(queue') # s
        <5>1. queue \in Seq(Slots) /\ Len(queue) \in Nat /\ Len(queue) >= 1
                /\ \A i \in 1 .. Len(queue) : queue[i] = queue[1] => i = 1
          BY <1>1, InterruptFacts
        <5>2. Len(queue) >= 2 /\ queue'[1] = queue[2]
          BY <5>1, <3>1, <1>1
        <5>3. Head(queue') = queue'[1]
          BY <2>1, <3>1
        <5> QED BY <5>1, <5>2, <5>3, <1>2
      <4>3. request'[queue'[1]].cmd = WRITE
        BY <3>1, <4>1, <4>2, <1>16
      <4> QED BY <3>1, <4>3, <1>17 DEF WritesKnown
    <3>2. CASE ~(queue' # <<>> /\ request[Head(queue')].cmd = WRITE)
      BY <3>2, <1>1, Zenon DEF DiskInterrupt
    <3> QED BY <3>1, <3>2
  <2>5. pc' \in [Procs -> Locations] /\ loc' \in [Procs -> Locals] /\ cpu' \in Procs \union {NULL}
          /\ val' \in [Procs -> Vals \union {NULL}] /\ last' \in [Blocks -> Vals]
          /\ free_list' \in [Bufs -> Bufs]
    BY <1>0, <1>1 DEF TypeOK
  <2> QED BY <1>11, <1>16, <2>1, <2>2, <2>3, <2>4, <2>5 DEF TypeOK
<1>19. FreeListFull' /\ Control' /\ Runs'
  BY <1>0, <1>1 DEF FreeListFull, Control, Runs
<1>20. CountIsReferences' /\ HeldBufferKeepsBlock'
  <2>1. \A q \in Procs, e \in Bufs : Holds(q, e)' <=> Holds(q, e)
    BY <1>1 DEF Holds
  <2> QED BY <2>1, <1>0, <1>1, <1>13, SameRefs
<1>21. \A q \in Procs, e \in Bufs : Waits(q, e)' <=> Waits(q, e)
  BY <1>1 DEF Waits, WaitsAt
<1>22. LocksOwned'
  <2>1. \A t \in Slots : request'[t].bh = IF t = s THEN NoBuf ELSE request[t].bh
    BY <1>15, <1>16
  <2>2. \A t, u \in Slots : request'[t].bh \in Bufs /\ request'[t].bh = request'[u].bh => t = u
    BY <2>1, <1>0, Numbers DEF LocksOwned
  <2>3. \A q, o \in Procs, e \in Bufs : Waits(q, e)' /\ Waits(o, e)' => q = o
    BY <1>0, <1>21 DEF LocksOwned
  <2>4. \A t \in Slots, q \in Procs : (request[t].bh \in Bufs => ~Waits(q, request[t].bh))'
    BY <2>1, <1>0, <1>1, Numbers DEF LocksOwned, Waits
  <2>5. ASSUME NEW e \in Bufs
        PROVE  buf'[e].lock <=> (\E t \in Slots : request'[t].bh = e) \/ (\E q \in Procs : Waits(q, e)')
    <3>1. CASE e = b
      BY <3>1, <2>1, <1>5, <1>12, <1>21, Numbers
    <3>2. CASE e # b
      <4>1. (\E t \in Slots : request'[t].bh = e) <=> \E t \in Slots : request[t].bh = e
        BY <3>2, <2>1, <1>3, Numbers
      <4>2. buf[e].lock <=> (\E t \in Slots : request[t].bh = e) \/ (\E q \in Procs : Waits(q, e))
        BY <1>0 DEF LocksOwned
      <4> QED BY <3>2, <4>1, <4>2, <1>12, <1>21
    <3> QED BY <3>1, <3>2
  <2> QED BY <2>2, <2>3, <2>4, <2>5 DEF LocksOwned
<1>23. TargetsRight'
  <2> SUFFICES ASSUME NEW q \in Procs PROVE TargetAt(pc[q], loc[q])'
    BY DEF TargetsRight
  <2>1. TargetAt(pc[q], loc[q]) /\ AtCall(pc[q], loc[q]) /\ AtTransfer(pc[q], loc[q])
    BY Here
  <2>2. \A e \in Bufs : buf'[e].lock => buf[e].lock
    BY <1>12
  <2> QED BY <2>1, <2>2, <1>1, <1>13, <1>14 DEF TargetAt, AtCall, AtTransfer
<1>24. LockedHasBlock'
  BY <1>0, <1>12, <1>13 DEF LockedHasBlock
<1>25. DataKnown'
  <2>1. ASSUME buf'[b].uptodate \/ buf'[b].dirt PROVE d \in Vals
    <3>1. CASE request[s].cmd = READ /\ ok
      BY <3>1, <1>7, <1>8
    <3>2. CASE request[s].cmd = WRITE
      BY <3>2, <1>0, <1>3, <1>7, <1>8 DEF WritesKnown
    <3>3. CASE ~ok
      BY <2>1, <3>3, <1>0, <1>8, <1>12, <1>13 DEF DataKnown
    <3>4. request[s].cmd \in {READ, WRITE}
      BY <1>7
    <3> QED BY <3>1, <3>2, <3>3, <3>4
  <2> QED BY <2>1, <1>0, <1>12 DEF DataKnown
<1>26. OneBufferPerBlock'
  BY <1>0, <1>13 DEF OneBufferPerBlock
<1>27. HeadInv'
  BY <1>17, <1>18, <1>19, <1>20, <1>22, <1>23, <1>24, <1>25, <1>26 DEF HeadInv
<1>28. FreeIsRead'
  BY <1>15, <1>16 DEF FreeIsRead
<1> QED BY <1>4, <1>27, <1>28

-----------------------------------------------------------------------------
(* A step that RequestQueue does not see keeps the invariant of its list.   *)
LEMMA UnseenKeeps ==
  ASSUME CacheInv, HeadInv', SameTable
  PROVE  CacheInv'
<1>1. FreeIsRead'
  BY DEF CacheInv, FreeIsRead, SameTable
<1>2. RQP!QueueInv'
  <2>1. RQP!QueueInv /\ queue' = queue /\ RequestView' = RequestView
    BY DEF CacheInv, SameTable
  <2> QED BY <2>1 DEF RQP!QueueInv, RQP!ElevatorOrder, RQP!TypeOK, RQP!TwoSweeps,
             RQP!OneRequestPerBlock
<1> QED BY <1>1, <1>2 DEF CacheInv

(* What RequestQueue sees of a step.                                        *)
TableStep ==
  \/ SameTable
  \/ \E cmd \in {READ, WRITE}, k \in Blocks : RQP!MakeRequest(cmd, k)
  \/ RQP!EndRequest

(* The steps of a process in the kernel.                                    *)
LEMMA KernelStep ==
  ASSUME CacheInv, NEW p \in Procs, Kernel(p)
  PROVE  CacheInv' /\ TableStep
<1>0. HeadInv /\ FreeIsRead /\ RQP!QueueInv
  BY DEF CacheInv
<1>1. CASE Submit(p)
  <2>1. HeadInv' /\ FreeIsRead' /\ RQP!QueueInv'
    BY <1>0, <1>1, SubmitStep
  <2>2. \E cmd \in {READ, WRITE}, k \in Blocks : RQP!MakeRequest(cmd, k)
    BY <1>0, <1>1, SubmitMakes
  <2> QED BY <2>1, <2>2 DEF CacheInv, TableStep
<1>2. ASSUME HeadInv' /\ SameTable PROVE CacheInv' /\ TableStep
  BY <1>2, UnseenKeeps DEF TableStep
<1>3. CASE Hash(p) \/ HashWait(p) \/ Scan(p) \/ Repeat(p) \/ CleanVictim(p) \/ Take(p)
  BY <1>0, <1>2, <1>3, HashStep, HashWaitStep, ScanStep, RepeatStep, CleanVictimStep, TakeStep
<1>4. CASE SyncWait(p) \/ SyncWrite(p) \/ SyncInodes(p) \/ SyncDone(p)
  BY <1>0, <1>2, <1>4, SyncWaitStep, SyncWriteStep, SyncInodesStep, SyncDoneStep
<1>5. CASE LLSkip(p) \/ LLNoSlot(p) \/ SlotWait(p) \/ SlotEnter(p) \/ SlotSleep(p)
  BY <1>0, <1>2, <1>5, LLSkipStep, LLNoSlotStep, SlotWaitStep, SlotEnterStep, SlotSleepStep
<1>6. CASE Bread(p) \/ BreadaFirst(p) \/ BreadaNext(p) \/ BreadaAhead(p) \/ BreadaDone(p)
  BY <1>0, <1>2, <1>6, BreadStep, BreadaFirstStep, BreadaNextStep, BreadaAheadStep, BreadaDoneStep
<1>7. CASE BreadReturn(p) \/ CopyOut(p) \/ SetDirt(p) \/ Brelse(p) \/ Wait(p)
  BY <1>0, <1>2, <1>7, BreadReturnStep, CopyOutStep, SetDirtStep, BrelseStep, WaitStep
<1>8. ASSUME NEW v \in Vals, CopyIn(p, v) \/ CopyLate(p, v) PROVE CacheInv' /\ TableStep
  BY <1>0, <1>2, <1>8, CopyStep
<1> QED BY <1>1, <1>3, <1>4, <1>5, <1>6, <1>7, <1>8 DEF Kernel

(* Nothing happens.                                                         *)
LEMMA NoStep ==
  ASSUME CacheInv, UNCHANGED vars
  PROVE  CacheInv' /\ TableStep
<1>1. UNCHANGED <<buf, free_list, request, queue, xfer, disk, pc, loc, wait, cpu, val, last>>
  BY DEF vars, bvars, dvars, pvars
<1>2. SameTable
  BY <1>1 DEF SameTable, RequestView
<1>3. TypeOK' /\ FreeListFull' /\ Control' /\ Runs'
  BY <1>1 DEF CacheInv, HeadInv, TypeOK, FreeListFull, Control, Runs
<1>4. CountIsReferences' /\ HeldBufferKeepsBlock'
  <2>1. CountIsReferences /\ HeldBufferKeepsBlock
    BY DEF CacheInv, HeadInv
  <2>2. \A q \in Procs, d \in Bufs : Holds(q, d)' <=> Holds(q, d)
    BY <1>1 DEF Holds
  <2> QED BY <1>1, <2>1, <2>2, SameRefs
<1>5. LocksOwned' /\ TargetsRight'
  BY <1>1 DEF CacheInv, HeadInv, LocksOwned, Waits, WaitsAt, TargetsRight, TargetAt
<1>6. LockedHasBlock' /\ DataKnown' /\ WritesKnown' /\ OneBufferPerBlock'
  BY <1>1 DEF CacheInv, HeadInv, LockedHasBlock, DataKnown, WritesKnown, OneBufferPerBlock
<1>7. HeadInv'
  BY <1>3, <1>4, <1>5, <1>6 DEF HeadInv
<1> QED BY <1>2, <1>7, UnseenKeeps DEF TableStep

(* Every step keeps the invariant, and is one RequestQueue may take.        *)
LEMMA CacheStep ==
  ASSUME CacheInv, [Next]_vars
  PROVE  CacheInv' /\ TableStep
<1>0. HeadInv /\ FreeIsRead /\ RQP!QueueInv
  BY DEF CacheInv
<1>1. ASSUME NEW p \in Procs, NEW k \in Blocks, NEW op \in Ops[p] \ {"sync"}, Begin(p, op, k)
      PROVE  CacheInv' /\ TableStep
  <2>1. op \in Calls \ {"sync"}
    BY CacheAssumption
  <2>2. HeadInv' /\ SameTable
    BY <1>0, <1>1, <2>1, BeginStep
  <2> QED BY <2>2, UnseenKeeps DEF TableStep
<1>2. ASSUME NEW p \in Procs, BeginSync(p) PROVE CacheInv' /\ TableStep
  BY <1>0, <1>2, BeginSyncStep, UnseenKeeps DEF TableStep
<1>3. ASSUME NEW p \in Procs, Kernel(p) PROVE CacheInv' /\ TableStep
  BY <1>3, KernelStep
<1>4. ASSUME NEW ok \in BOOLEAN, DiskInterrupt(ok) PROVE CacheInv' /\ TableStep
  BY <1>0, <1>4, InterruptStep, InterruptEnds DEF CacheInv, TableStep
<1>5. CASE UNCHANGED vars
  BY <1>5, NoStep
<1> QED BY <1>1, <1>2, <1>3, <1>4, <1>5 DEF Next
-----------------------------------------------------------------------------
(* buffer_init() and blk_dev_init().                                        *)
LEMMA CacheInit ==
  ASSUME Init
  PROVE  CacheInv
<1>1. \A b \in Bufs : /\ buf[b].block = NoBlock /\ buf[b].count = 0 /\ ~buf[b].dirt
                      /\ ~buf[b].lock /\ ~buf[b].uptodate
  BY DEF Init
<1>2. \A s \in Slots : request[s].bh = NoBuf /\ request[s].cmd = READ
  BY DEF Init
<1>3. \A p \in Procs : pc[p] = "user" /\ loc[p] = NoLoc
  BY DEF Init
<1>4. NoLoc \in Locals /\ NoLoc.op = "none" /\ NoLoc.keep = NoBuf
  BY NoLocFacts
<1>5. TypeOK
  <2>1. buf \in [Bufs -> BufferHeads]
    <3>1. PICK n \in Nat : n = 0
      OBVIOUS
    <3>2. PICK no \in BOOLEAN : no = FALSE
      OBVIOUS
    <3>3. buf = [b \in Bufs |-> [block |-> NoBlock, count |-> n, dirt |-> no, lock |-> no,
                                 uptodate |-> no, data |-> NULL]]
      BY <3>1, <3>2 DEF Init
    <3> QED BY <3>3 DEF BufferHeads
  <2>2. free_list \in [Bufs -> Bufs]
    BY DEF Init
  <2>3. request \in [Slots -> [cmd : {READ, WRITE}, bh : Bufs \union {NoBuf}]]
    BY DEF Init
  <2>4. queue \in Seq(Slots)
    BY DEF Init
  <2>5. pc \in [Procs -> Locations]
    BY DEF Init, Locations
  <2>6. loc \in [Procs -> Locals]
    BY <1>4 DEF Init
  <2>7. wait \in [Procs -> Channels]
    BY DEF Init, Channels
  <2>8. xfer \in Vals \union {NULL} /\ disk \in [Blocks -> Vals] /\ cpu \in Procs \union {NULL}
          /\ val \in [Procs -> Vals \union {NULL}] /\ last \in [Blocks -> Vals]
    BY DEF Init
  <2> QED BY <2>1, <2>2, <2>3, <2>4, <2>5, <2>6, <2>7, <2>8 DEF TypeOK
<1>6. FreeListFull
  BY DEF Init, FreeListFull
<1>7. Control
  BY <1>3, <1>4 DEF Control, AtCall, AtTransfer
<1>8. Runs
  BY <1>3 DEF Runs
<1>9. \A p \in Procs, b \in Bufs : ~Holds(p, b) /\ loc[p].keep # b /\ ~Waits(p, b)
  BY <1>3, <1>4, Numbers DEF Holds, Waits, WaitsAt
<1>10. CountIsReferences
  <2> SUFFICES ASSUME NEW b \in Bufs
               PROVE  buf[b].count = Cardinality({p \in Procs : Holds(p, b)})
                                     + Cardinality({p \in Procs : loc[p].keep = b})
    BY DEF CountIsReferences
  <2>1. {p \in Procs : Holds(p, b)} = {} /\ {p \in Procs : loc[p].keep = b} = {}
    BY <1>9
  <2>2. Cardinality({}) = 0
    BY FS_EmptySet
  <2> QED BY <2>1, <2>2, <1>1
<1>11. LocksOwned
  BY <1>1, <1>2, <1>9, Numbers DEF LocksOwned
<1>12. TargetsRight
  BY <1>3 DEF TargetsRight, TargetAt
<1>13. LockedHasBlock /\ DataKnown /\ OneBufferPerBlock
  BY <1>1 DEF LockedHasBlock, DataKnown, OneBufferPerBlock
<1>14. WritesKnown
  BY <1>2, Numbers DEF WritesKnown, Init
<1>15. HeldBufferKeepsBlock
  BY <1>9 DEF HeldBufferKeepsBlock
<1>16. HeadInv
  BY <1>5, <1>6, <1>7, <1>8, <1>10, <1>11, <1>12, <1>13, <1>14, <1>15 DEF HeadInv
<1>17. RequestView = [s \in Slots |-> RQP!Free]
  BY <1>2, SameNames DEF RequestView
<1>18. RQP!QueueInv
  <2>1. queue = <<>> /\ Len(queue) = 0
    BY DEF Init
  <2>2. RQP!TypeOK
    BY <2>1, <1>17, SameNames DEF RQP!TypeOK
  <2> QED BY <2>1, <2>2 DEF RQP!QueueInv, RQP!ElevatorOrder, RQP!TwoSweeps, RQP!OneRequestPerBlock
<1> QED BY <1>2, <1>16, <1>18 DEF CacheInv, FreeIsRead

(* The counting form of LocksOwned.                                         *)
LEMMA OwnedOnce ==
  ASSUME HeadInv
  PROVE  LockHasOneOwner
<1>0. LocksOwned /\ TargetsRight /\ TypeOK
  BY DEF HeadInv
<1>1. \A p \in Procs : pc[p] = "ll" /\ loc[p].cmd # READA => ~buf[loc[p].tgt].lock
  BY <1>0 DEF TargetsRight, TargetAt
<1>2. ASSUME NEW b \in Bufs
      PROVE  Cardinality({s \in Slots : request[s].bh = b})
               + Cardinality({p \in Procs : pc[p] = "slot" /\ loc[p].tgt = b})
             = IF buf[b].lock THEN 1 ELSE 0
  <2> DEFINE S == {s \in Slots : request[s].bh = b}
             P == {p \in Procs : pc[p] = "slot" /\ loc[p].tgt = b}
  <2>0. P = {p \in Procs : Waits(p, b)}
    BY DEF Waits, WaitsAt
  <2>1. Cardinality({}) = 0 /\ \A x : Cardinality({x}) = 1
    BY FS_EmptySet, FS_Singleton
  <2>2. CASE \E s \in Slots : request[s].bh = b
    <3>1. PICK s \in Slots : request[s].bh = b
      BY <2>2
    <3>2. S = {s}
      BY <3>1, <1>0 DEF LocksOwned
    <3>3. P = {}
      BY <3>1, <2>0, <1>0 DEF LocksOwned
    <3>4. buf[b].lock
      BY <3>1, <1>0 DEF LocksOwned
    <3> HIDE DEF S, P
    <3>5. Cardinality(S) = 1
      BY <3>2, <2>1
    <3>6. Cardinality(P) = 0
      BY <3>3, <2>1
    <3>7. Cardinality(S) + Cardinality(P) = IF buf[b].lock THEN 1 ELSE 0
      BY <3>4, <3>5, <3>6
    <3> QED BY <3>7 DEF S, P
  <2>3. CASE \E p \in Procs : Waits(p, b)
    <3>1. PICK p \in Procs : Waits(p, b)
      BY <2>3
    <3>2. P = {p}
      BY <3>1, <2>0, <1>0 DEF LocksOwned
    <3>3. S = {}
      BY <3>1, <1>0 DEF LocksOwned
    <3>4. buf[b].lock
      BY <3>1, <1>0 DEF LocksOwned
    <3> HIDE DEF S, P
    <3>5. Cardinality(S) = 0
      BY <3>3, <2>1
    <3>6. Cardinality(P) = 1
      BY <3>2, <2>1
    <3>7. Cardinality(S) + Cardinality(P) = IF buf[b].lock THEN 1 ELSE 0
      BY <3>4, <3>5, <3>6
    <3> QED BY <3>7 DEF S, P
  <2>4. CASE ~(\E s \in Slots : request[s].bh = b) /\ ~(\E p \in Procs : Waits(p, b))
    <3>1. S = {} /\ P = {}
      BY <2>4, <2>0
    <3>2. ~buf[b].lock
      BY <2>4, <1>0 DEF LocksOwned
    <3> HIDE DEF S, P
    <3>3. Cardinality(S) = 0
      BY <3>1, <2>1
    <3>4. Cardinality(P) = 0
      BY <3>1, <2>1
    <3>5. Cardinality(S) + Cardinality(P) = IF buf[b].lock THEN 1 ELSE 0
      BY <3>2, <3>3, <3>4
    <3> QED BY <3>5 DEF S, P
  <2> QED BY <2>2, <2>3, <2>4
<1> QED BY <1>1, <1>2 DEF LockHasOneOwner

(* The invariant of the cache.                                              *)
LEMMA CacheAlways == Spec => []CacheInv
<1>1. Init => CacheInv
  BY CacheInit
<1>2. CacheInv /\ [Next]_vars => CacheInv'
  BY CacheStep
<1> QED BY <1>1, <1>2, PTL DEF Spec

(* Whatever getblk(), bread(), breada(), brelse() and sync() do at once and *)
(* whenever the disk interrupts, b_count is the number of references to a   *)
(* buffer (brelse() never finds it zero), and a buffer is locked exactly    *)
(* while one request, or one process waiting for a slot, owns it.           *)
THEOREM HeadsStayConsistent == Spec => []HeadsConsistent
<1>1. CacheInv => HeadsConsistent
  BY OwnedOnce DEF CacheInv, HeadInv, HeadsConsistent
<1> QED BY <1>1, CacheAlways, PTL

(* However often getblk() sleeps between its search and its assignment, no  *)
(* two buffers are ever assigned to the same block (buffer.c:241).          *)
THEOREM BlockHasOneBuffer == Spec => []OneBufferPerBlock
<1>1. CacheInv => OneBufferPerBlock
  BY DEF CacheInv, HeadInv
<1> QED BY <1>1, CacheAlways, PTL

(* getblk() never takes away a buffer that somebody has got and not yet     *)
(* given back with brelse() (buffer.c:229-236).                             *)
THEOREM HeldKeepsBlock == Spec => []HeldBufferKeepsBlock
<1>1. CacheInv => HeldBufferKeepsBlock
  BY DEF CacheInv, HeadInv
<1> QED BY <1>1, CacheAlways, PTL

(* ll_rw_block() and end_request(), as the cache calls them, implement      *)
(* RequestQueue: there is never a second request for a block that has one,  *)
(* which is what the order of the elevator rests on.                        *)
THEOREM ImplementsRequestQueue == Spec => RequestQueueSpec
<1>1. Init => RQ!Init
  <2> SUFFICES ASSUME Init PROVE RQ!Init
    OBVIOUS
  <2>1. \A s \in Slots : request[s].bh = NoBuf /\ request[s].cmd = READ
    BY DEF Init
  <2>2. RequestView = [s \in Slots |-> RQ!Free]
    BY <2>1, SameNames DEF RequestView
  <2> QED BY <2>2, SameNames DEF RQ!Init, Init
<1>2. CacheInv /\ [Next]_vars => [RQ!Next]_(RQ!rqvars)
  <2> SUFFICES ASSUME CacheInv, [Next]_vars PROVE [RQ!Next]_(RQ!rqvars)
    OBVIOUS
  <2>1. TableStep
    BY CacheStep
  <2>2. CASE SameTable
    BY <2>2 DEF SameTable, RQ!rqvars
  <2>3. ASSUME NEW cmd \in {READ, WRITE}, NEW k \in Blocks, RQP!MakeRequest(cmd, k) PROVE RQ!Next
    <3>1. RQ!Pending(k) <=> RQP!Pending(k)
      BY SameNames DEF RQ!Pending, RQP!Pending
    <3>2. RQ!MakeRequest(cmd, k)
      BY <2>3, <3>1, SameSlot, SameAdd DEF RQ!MakeRequest, RQP!MakeRequest
    <3> QED BY <3>2, SameNames DEF RQ!Next
  <2>4. CASE RQP!EndRequest
    BY <2>4, SameNames DEF RQP!EndRequest, RQ!EndRequest, RQ!Next
  <2> QED BY <2>1, <2>2, <2>3, <2>4 DEF TableStep
<1> QED BY <1>1, <1>2, CacheAlways, PTL DEF Spec, RequestQueueSpec, RQ!Spec
---------------------------------------------------------------------------
(***************************************************************************)
(* As long as the disk does not fail and writes come from memory that is   *)
(* present and through bread(), the buffer cache implements BlockStore, a  *)
(* memory with one cell per block.                                         *)
(***************************************************************************)

(* The circumstances: no disk errors, no write that sleeps in its copy and  *)
(* none that skips the read (README, Disagreements).                        *)
Healthy ==
  /\ ~IOErrors
  /\ \A p \in Procs : Ops[p] \subseteq {"read", "write", "read_ahead", "sync"}

(* b holds its block, or a transfer will make it so.                        *)
Coming(b) == buf[b].uptodate \/ buf[b].lock

(* A write of b is queued.                                                  *)
Writing(b) == \E s \in Slots : request[s].bh = b /\ request[s].cmd = WRITE

(* What a process at l with local variables c relies on.                    *)
ReliesOn(l, c) ==
  /\ c.op \in {"none", "read", "write", "read_ahead", "sync"} /\ l # "copy"
  /\ l = "user" => c.op \in {"none", "sync"}
  /\ c.op \in {"none", "sync"} => c.first = NoBlock
  /\ l \in {"ahead", "bwait"} => Coming(c.bh)
  /\ c.keep # NoBuf => Coming(c.keep)
  /\ l = "hold" => buf[c.bh].uptodate
  /\ l = "slot" => (c.cmd = READ => ~buf[c.tgt].uptodate) /\ (c.cmd = WRITE => buf[c.tgt].dirt)

Reliable == \A p \in Procs : ReliesOn(pc[p], loc[p])

(* A buffer is read before it is written to, and not read again after that. *)
ReadOnce ==
  /\ \A b \in Bufs : buf[b].dirt => buf[b].uptodate
  /\ \A s \in Slots : request[s].bh \in Bufs =>
       (buf[request[s].bh].uptodate <=> request[s].cmd = WRITE)

(* What a buffer or the disk holds of the last contents of a block.         *)
BufferIsLast ==
  \A b \in Bufs : buf[b].uptodate => buf[b].block \in Blocks /\ buf[b].data = last[buf[b].block]

DiskIsLast ==
  \A k \in Blocks : disk[k] = last[k]
                    \/ \E b \in Bufs : buf[b].block = k /\ (buf[b].dirt \/ Writing(b))

(* The drive was given the contents that the buffer has, unless these have  *)
(* changed and will be written again.                                       *)
DriveHasIt ==
  queue # <<>> /\ request[queue[1]].cmd = WRITE /\ ~buf[request[queue[1]].bh].dirt
  => xfer = buf[request[queue[1]].bh].data

ContentsInv == Reliable /\ ReadOnce /\ BufferIsLast /\ DiskIsLast /\ DriveHasIt

(* The inductive invariant.                                                 *)
StoreInv == CacheInv /\ ContentsInv

(* The call of a process at l with local variables c, as BlockStore has it. *)
CallOf(op) ==
  CASE op \in {"read", "read_ahead"} -> "read"
    [] op \in {"write", "fault_write", "raw_write"} -> "write"
    [] OTHER -> "none"

CallAt(l, c) == [op |-> CallOf(c.op), block |-> c.first, done |-> l = "rel"]

callBar == [p \in Procs |-> CallAt(pc[p], loc[p])]

(* What BlockStore sees of a step.                                          *)
StoreStep ==
  \/ \E p \in Procs, op \in {"read", "write"}, k \in Blocks : Store!Call(p, op, k)
  \/ \E p \in Procs, v \in Vals : Store!Write(p, v)
  \/ \E p \in Procs : Store!Read(p)
  \/ \E p \in Procs : Store!Return(p)
  \/ callBar' = callBar /\ val' = val /\ last' = last

(* p goes on at l with local variables c.                                   *)
Moves(p, l, c) ==
  /\ l \in Locations /\ c \in Locals
  /\ pc' = [pc EXCEPT ![p] = l] /\ loc' = [loc EXCEPT ![p] = c]

(* Contents, flags and transfers are as before; buffers may get locked.     *)
SameContents ==
  /\ \A b \in Bufs : /\ buf'[b].block = buf[b].block /\ buf'[b].data = buf[b].data
                     /\ buf[b].lock => buf'[b].lock
                     /\ buf'[b].dirt = buf[b].dirt /\ buf'[b].uptodate = buf[b].uptodate
  /\ UNCHANGED <<request, queue, xfer, disk, last>>

(* A step of p that is none of BlockStore's.                                *)
QuietStep(p) ==
  /\ SameContents /\ val' = val
  /\ \E l, c : Moves(p, l, c) /\ ReliesOn(l, c) /\ CallAt(l, c) = CallAt(pc[p], loc[p])
-----------------------------------------------------------------------------
(* The parts of the invariant, and where p is.                              *)
LEMMA StoreHere ==
  ASSUME StoreInv, NEW p \in Procs
  PROVE  /\ HeadInv
         /\ pc[p] \in Locations /\ loc[p] \in Locals
         /\ loc = [loc EXCEPT ![p] = loc[p]] /\ pc = [pc EXCEPT ![p] = pc[p]]
         /\ AtCall(pc[p], loc[p]) /\ AtTransfer(pc[p], loc[p]) /\ TargetAt(pc[p], loc[p])
         /\ KeepsBlock(pc[p], loc[p])
         /\ ReliesOn(pc[p], loc[p])
<1>1. HeadInv
  BY DEF StoreInv, CacheInv
<1>2. ReliesOn(pc[p], loc[p])
  BY DEF StoreInv, ContentsInv, Reliable
<1> QED BY <1>1, <1>2, Here

(* Two places with the same call.                                           *)
LEMMA SameCall ==
  ASSUME NEW l, NEW c, NEW m, NEW d, c.op = d.op, c.first = d.first,
         \/ l = "rel" /\ m = "rel"
         \/ l # "rel" /\ m # "rel"
  PROVE  CallAt(l, c) = CallAt(m, d)
<1>1. (l = "rel") = (m = "rel")
  OBVIOUS
<1>2. CallOf(c.op) = CallOf(d.op)
  BY Zenon
<1> QED BY <1>1, <1>2, Zenon DEF CallAt

(* The places after a move.                                                 *)
LEMMA AfterMove ==
  ASSUME StoreInv, NEW p \in Procs, NEW l, NEW c, Moves(p, l, c)
  PROVE  /\ pc'[p] = l /\ loc'[p] = c
         /\ \A q \in Procs : q # p => pc'[q] = pc[q] /\ loc'[q] = loc[q]
<1>1. pc \in [Procs -> Locations] /\ loc \in [Procs -> Locals]
  BY DEF StoreInv, CacheInv, HeadInv, TypeOK
<1> QED BY <1>1 DEF Moves

(* BlockStore's call of p is what its place says, those of others are kept. *)
LEMMA CallMove ==
  ASSUME StoreInv, NEW p \in Procs, NEW l, NEW c, Moves(p, l, c)
  PROVE  callBar' = [callBar EXCEPT ![p] = CallAt(l, c)]
<1>1. /\ pc'[p] = l /\ loc'[p] = c
      /\ \A q \in Procs : q # p => pc'[q] = pc[q] /\ loc'[q] = loc[q]
  BY AfterMove
<1>2. callBar' = [q \in Procs |-> CallAt(pc'[q], loc'[q])]
  BY DEF callBar, CallAt
<1>3. \A q \in Procs : CallAt(pc'[q], loc'[q])
                       = IF q = p THEN CallAt(l, c) ELSE CallAt(pc[q], loc[q])
  BY <1>1, Zenon
<1>4. DOMAIN callBar = Procs /\ \A q \in Procs : callBar[q] = CallAt(pc[q], loc[q])
  BY DEF callBar
<1>5. \A q \in Procs : [callBar EXCEPT ![p] = CallAt(l, c)][q]
                       = IF q = p THEN CallAt(l, c) ELSE CallAt(pc[q], loc[q])
  BY <1>4
<1> QED BY <1>2, <1>3, <1>4, <1>5

(* So BlockStore sees nothing of a step within a call.                      *)
LEMMA CallKept ==
  ASSUME StoreInv, NEW p \in Procs, NEW l, NEW c, Moves(p, l, c),
         CallAt(l, c) = CallAt(pc[p], loc[p])
  PROVE  callBar' = callBar
<1>1. callBar' = [callBar EXCEPT ![p] = CallAt(l, c)]
  BY CallMove
<1>2. callBar[p] = CallAt(l, c) /\ callBar = [q \in Procs |-> callBar[q]]
  BY DEF callBar
<1> QED BY <1>1, <1>2

(* A step of one process that changes no contents keeps the invariant.      *)
LEMMA SameContentsKeeps ==
  ASSUME StoreInv, HeadInv', NEW p \in Procs, NEW l, NEW c, Moves(p, l, c),
         ReliesOn(l, c), SameContents
  PROVE  ContentsInv'
<1>1. /\ pc'[p] = l /\ loc'[p] = c
      /\ \A q \in Procs : q # p => pc'[q] = pc[q] /\ loc'[q] = loc[q]
  BY AfterMove
<1>2. \A b \in Bufs : /\ buf'[b].block = buf[b].block /\ buf'[b].data = buf[b].data
                      /\ buf[b].lock => buf'[b].lock
                      /\ buf'[b].dirt = buf[b].dirt /\ buf'[b].uptodate = buf[b].uptodate
  BY DEF SameContents
<1>3. UNCHANGED <<request, queue, xfer, disk, last>>
  BY DEF SameContents
<1>4. Reliable'
  <2> SUFFICES ASSUME NEW q \in Procs PROVE ReliesOn(pc[q], loc[q])'
    BY DEF Reliable
  <2>1. ReliesOn(pc'[q], loc'[q])
    BY <1>1, StoreHere
  <2>2. AtCall(pc'[q], loc'[q]) /\ AtTransfer(pc'[q], loc'[q])
    BY DEF HeadInv, Control
  <2>3. loc'[q].keep \in Bufs \union {NoBuf}
    BY DEF HeadInv, TypeOK, Locals
  <2> QED BY <2>1, <2>2, <2>3, <1>2 DEF ReliesOn, Coming, AtCall, AtTransfer
<1>5. ReadOnce' /\ BufferIsLast'
  BY <1>2, <1>3 DEF StoreInv, ContentsInv, ReadOnce, BufferIsLast
<1>6. DiskIsLast'
  BY <1>2, <1>3 DEF StoreInv, ContentsInv, DiskIsLast, Writing
<1>7. DriveHasIt'
  <2>1. queue # <<>> => request[queue[1]].bh \in Bufs
    BY InterruptFacts DEF StoreInv, CacheInv
  <2> QED BY <2>1, <1>2, <1>3 DEF StoreInv, ContentsInv, DriveHasIt
<1> QED BY <1>4, <1>5, <1>6, <1>7 DEF ContentsInv

(* So a quiet step keeps it, and BlockStore sees nothing.                   *)
LEMMA QuietKeeps ==
  ASSUME StoreInv, HeadInv', NEW p \in Procs, QuietStep(p)
  PROVE  ContentsInv' /\ StoreStep
<1>1. PICK l, c : Moves(p, l, c) /\ ReliesOn(l, c) /\ CallAt(l, c) = CallAt(pc[p], loc[p])
  BY DEF QuietStep
<1>2. SameContents /\ val' = val
  BY DEF QuietStep
<1>3. ContentsInv'
  BY <1>1, <1>2, SameContentsKeeps
<1>4. callBar' = callBar
  BY <1>1, CallKept
<1>5. last' = last
  BY <1>2 DEF SameContents
<1> QED BY <1>2, <1>3, <1>4, <1>5 DEF StoreStep

(* Nothing of the buffers changes.                                          *)
LEMMA ContentsKept ==
  ASSUME UNCHANGED <<bvars, dvars, last>>
  PROVE  SameContents
BY DEF SameContents, bvars, dvars

(* Only the count of a buffer changes.                                      *)
LEMMA ContentsCounted ==
  ASSUME HeadInv, NEW b \in Bufs, NEW n, buf' = [buf EXCEPT ![b].count = n],
         UNCHANGED <<dvars, last>>
  PROVE  SameContents
<1>1. buf \in [Bufs -> BufferHeads]
  BY DEF HeadInv, TypeOK
<1>2. \A d \in Bufs : /\ buf'[d].block = buf[d].block /\ buf'[d].data = buf[d].data
                      /\ buf'[d].lock = buf[d].lock /\ buf'[d].dirt = buf[d].dirt
                      /\ buf'[d].uptodate = buf[d].uptodate
  BY <1>1 DEF BufferHeads
<1> QED BY <1>2 DEF SameContents, dvars

(* A process goes on in the same call.                                      *)
LEMMA GoesOn ==
  ASSUME StoreInv, NEW p \in Procs, NEW l, NEW c, Moves(p, l, c), ReliesOn(l, c),
         c.op = loc[p].op, c.first = loc[p].first,
         (l = "rel") = (pc[p] = "rel"),
         SameContents, val' = val
  PROVE  QuietStep(p)
<1>1. CallAt(l, c) = CallAt(pc[p], loc[p])
  BY SameCall
<1> QED BY <1>1 DEF QuietStep

(* It goes on to where it relies on no buffer but the one it keeps.         *)
LEMMA LooksOn ==
  ASSUME StoreInv, NEW p \in Procs, pc[p] # "rel",
         NEW l \in {"hash", "hashwait", "scan", "victim", "sync", "ll", "got", "aheaddone"},
         NEW c \in Locals, c.op = loc[p].op, c.first = loc[p].first, c.keep = loc[p].keep,
         pc' = [pc EXCEPT ![p] = l], loc' = [loc EXCEPT ![p] = c],
         SameContents, val' = val
  PROVE  QuietStep(p)
<1>1. l \in Locations
  BY DEF Locations
<1>2. Moves(p, l, c)
  BY <1>1 DEF Moves
<1>3. ReliesOn(l, c)
  BY StoreHere DEF ReliesOn
<1>4. (l = "rel") = (pc[p] = "rel")
  OBVIOUS
<1> QED BY <1>2, <1>3, <1>4, GoesOn, Zenon
-----------------------------------------------------------------------------
(* getblk() as long as it only looks: it searches the hash table.           *)
LEMMA HashQuiet ==
  ASSUME StoreInv, NEW p \in Procs, Hash(p)
  PROVE  QuietStep(p)
<1>1. PICK b : b = FindBuffer(loc[p].blk)
  OBVIOUS
<1>2. /\ pc[p] = "hash" /\ UNCHANGED <<dvars, val, last>>
      /\ loc' = [loc EXCEPT ![p].bh = b]
      /\ IF b = NoBuf
           THEN Goto(p, "scan") /\ UNCHANGED <<buf, free_list>>
           ELSE Goto(p, "hashwait") /\ buf' = [buf EXCEPT ![b].count = @ + 1]
  BY <1>1 DEF Hash, At
<1>3. b \in Bufs \union {NoBuf}
  BY <1>1, FindBufferFacts, StoreHere DEF HeadInv
<1>4. PICK c : c = [loc[p] EXCEPT !.bh = b]
  OBVIOUS
<1>5. c \in Locals /\ c.op = loc[p].op /\ c.first = loc[p].first /\ c.keep = loc[p].keep
  BY <1>3, <1>4, StoreHere DEF Locals
<1>6. loc' = [loc EXCEPT ![p] = c]
  BY <1>2, <1>4
<1>7. CASE b = NoBuf
  <2>1. pc' = [pc EXCEPT ![p] = "scan"] /\ SameContents
    BY <1>2, <1>7, ContentsKept DEF Goto, bvars
  <2> QED BY <1>2, <1>5, <1>6, <2>1, LooksOn
<1>8. CASE b # NoBuf
  <2>1. PICK n : n = buf[b].count + 1
    OBVIOUS
  <2>2. buf' = [buf EXCEPT ![b].count = n]
    BY <1>2, <1>8, <2>1
  <2>3. SameContents
    BY <1>2, <1>3, <1>8, <2>2, ContentsCounted, StoreHere
  <2>4. pc' = [pc EXCEPT ![p] = "hashwait"]
    BY <1>2, <1>8 DEF Goto
  <2> QED BY <1>2, <1>5, <1>6, <2>3, <2>4, LooksOn
<1> QED BY <1>7, <1>8

(* It has waited for the buffer it found, and tests it again.               *)
LEMMA HashWaitQuiet ==
  ASSUME StoreInv, NEW p \in Procs, HashWait(p)
  PROVE  QuietStep(p)
<1>1. PICK b : b = loc[p].bh
  OBVIOUS
<1>2. /\ pc[p] = "hashwait" /\ UNCHANGED <<free_list, dvars, loc, val, last>>
      /\ IF buf[b].block = loc[p].blk
           THEN Goto(p, "got") /\ UNCHANGED buf
           ELSE Goto(p, "hash") /\ buf' = [buf EXCEPT ![b].count = @ - 1]
  BY <1>1 DEF HashWait, At
<1>3. b \in Bufs
  BY <1>1, <1>2, StoreHere DEF AtCall
<1>4. PICK l \in {"got", "hash"} : pc' = [pc EXCEPT ![p] = l]
  BY <1>2 DEF Goto
<1>5. SameContents
  <2>1. CASE UNCHANGED buf
    BY <1>2, <2>1, ContentsKept DEF bvars
  <2>2. CASE buf' = [buf EXCEPT ![b].count = @ - 1]
    <3>1. PICK n : n = buf[b].count - 1
      OBVIOUS
    <3>2. buf' = [buf EXCEPT ![b].count = n]
      BY <2>2, <3>1
    <3> QED BY <1>2, <1>3, <3>2, ContentsCounted, StoreHere
  <2> QED BY <1>2, <2>1, <2>2
<1> QED BY <1>2, <1>4, <1>5, LooksOn, StoreHere

(* wait_on_buffer() sleeps.                                                 *)
LEMMA WaitQuiet ==
  ASSUME StoreInv, NEW p \in Procs, Wait(p)
  PROVE  QuietStep(p)
<1>1. PICK l \in {"hashwait", "victim", "bwait", "rel"} : WaitOnBuffer(p, loc[p].bh, l)
  BY DEF Wait
<1>2. pc[p] = l /\ UNCHANGED <<bvars, dvars, loc, val, last>> /\ pc' = [pc EXCEPT ![p] = l]
  BY <1>1 DEF WaitOnBuffer, At, SleepOn
<1>3. SameContents
  BY <1>2, ContentsKept
<1>4. Moves(p, l, loc[p]) /\ ReliesOn(l, loc[p])
  BY <1>2, StoreHere DEF Moves
<1>5. (l = "rel") = (pc[p] = "rel") /\ val' = val
  BY <1>2
<1> QED BY <1>3, <1>4, <1>5, GoesOn, Zenon

(* make_request() searches again, and goes to sleep again.                  *)
LEMMA SlotWaitQuiet ==
  ASSUME StoreInv, NEW p \in Procs, SlotWait(p) \/ SlotEnter(p) \/ SlotSleep(p)
  PROVE  QuietStep(p)
<1>1. pc[p] = "slot" /\ UNCHANGED <<bvars, dvars, loc, val, last>> /\ pc' = [pc EXCEPT ![p] = "slot"]
  <2>1. CASE SlotWait(p)
    BY <2>1 DEF SlotWait, NoSlot, At, Goto, bvars
  <2>2. CASE SlotEnter(p) \/ SlotSleep(p)
    <3>1. pc[p] = "slot" /\ UNCHANGED <<bvars, dvars, pc, loc, val, last>>
      BY <2>2 DEF SlotEnter, SlotSleep
    <3> QED BY <3>1, StoreHere
  <2> QED BY <2>1, <2>2
<1>2. SameContents
  BY <1>1, ContentsKept
<1>3. Moves(p, "slot", loc[p]) /\ ReliesOn("slot", loc[p])
  BY <1>1, StoreHere DEF Moves
<1>4. ("slot" = "rel") = (pc[p] = "rel") /\ val' = val
  BY <1>1
<1> QED BY <1>2, <1>3, <1>4, GoesOn, Zenon

(* getblk() has looked through the free list ...                            *)
LEMMA ScanQuiet ==
  ASSUME StoreInv, NEW p \in Procs, Scan(p)
  PROVE  QuietStep(p)
<1>1. pc[p] = "scan" /\ UNCHANGED <<bvars, dvars, val, last>>
  BY DEF Scan, At
<1>2. SameContents
  BY <1>1, ContentsKept
<1>3. CASE SleepOn(p, BufferWait, "hash") /\ UNCHANGED loc
  <2>1. pc' = [pc EXCEPT ![p] = "hash"]
    BY <1>3 DEF SleepOn
  <2> QED BY <1>1, <1>2, <1>3, <2>1, LooksOn, StoreHere
<1>4. CASE ~(SleepOn(p, BufferWait, "hash") /\ UNCHANGED loc)
  <2>1. PICK i \in Bufs : loc' = [loc EXCEPT ![p].bh = free_list[i]] /\ Goto(p, "victim")
    BY <1>4 DEF Scan
  <2>2. free_list[i] \in Bufs
    BY StoreHere DEF HeadInv, TypeOK
  <2>3. PICK c : c = [loc[p] EXCEPT !.bh = free_list[i]]
    OBVIOUS
  <2>4. loc' = [loc EXCEPT ![p] = c]
    BY <2>1, <2>3
  <2>5. c \in Locals /\ c.op = loc[p].op /\ c.first = loc[p].first /\ c.keep = loc[p].keep
    BY <2>2, <2>3, StoreHere DEF Locals
  <2>6. pc' = [pc EXCEPT ![p] = "victim"]
    BY <2>1 DEF Goto
  <2> QED BY <1>1, <1>2, <2>4, <2>5, <2>6, LooksOn
<1> QED BY <1>3, <1>4

(* ... and starts again ...                                                 *)
LEMMA RepeatQuiet ==
  ASSUME StoreInv, NEW p \in Procs, Repeat(p)
  PROVE  QuietStep(p)
<1>1. pc[p] = "victim" /\ pc' = [pc EXCEPT ![p] = "hash"] /\ UNCHANGED <<bvars, dvars, loc, val, last>>
  BY DEF Repeat, At, Goto
<1>2. SameContents
  BY <1>1, ContentsKept
<1> QED BY <1>1, <1>2, LooksOn, StoreHere

(* ... or has its victim written.                                           *)
LEMMA CleanVictimQuiet ==
  ASSUME StoreInv, NEW p \in Procs, CleanVictim(p)
  PROVE  QuietStep(p)
<1>1. /\ pc[p] = "victim" /\ pc' = [pc EXCEPT ![p] = "sync"]
      /\ loc' = [loc EXCEPT ![p].i = 1] /\ UNCHANGED <<bvars, dvars, val, last>>
  BY DEF CleanVictim, At, Goto
<1>2. PICK n \in 1 .. (SyncEnd + 1) : n = 1
  BY Numbers
<1>3. PICK c : c = [loc[p] EXCEPT !.i = n]
  OBVIOUS
<1>4. loc' = [loc EXCEPT ![p] = c]
  BY <1>1, <1>2, <1>3
<1>5. c \in Locals /\ c.op = loc[p].op /\ c.first = loc[p].first /\ c.keep = loc[p].keep
  BY <1>3, StoreHere DEF Locals
<1>6. SameContents
  BY <1>1, ContentsKept
<1> QED BY <1>1, <1>4, <1>5, <1>6, LooksOn

(* sync_dev() waits for a locked buffer ...                                 *)
LEMMA SyncWaitQuiet ==
  ASSUME StoreInv, NEW p \in Procs, SyncWait(p)
  PROVE  QuietStep(p)
<1>1. pc[p] = "sync" /\ SyncTodo(p) # {} /\ UNCHANGED <<bvars, dvars, val, last>>
  BY DEF SyncWait, At
<1>2. PICK i \in 1 .. SyncEnd : i = Min(SyncTodo(p))
  BY <1>1, SyncTodoFacts, StoreHere
<1>3. pc' = [pc EXCEPT ![p] = "sync"] /\ loc' = [loc EXCEPT ![p].i = i]
  BY <1>2 DEF SyncWait, SleepOn
<1>4. PICK c : c = [loc[p] EXCEPT !.i = i]
  OBVIOUS
<1>5. loc' = [loc EXCEPT ![p] = c]
  BY <1>3, <1>4
<1>6. c \in Locals /\ c.op = loc[p].op /\ c.first = loc[p].first /\ c.keep = loc[p].keep
  <2>1. i \in 1 .. (SyncEnd + 1)
    BY <1>2, Numbers
  <2> QED BY <1>4, <2>1, StoreHere DEF Locals
<1>7. SameContents
  BY <1>1, ContentsKept
<1> QED BY <1>1, <1>3, <1>5, <1>6, <1>7, LooksOn

(* ... has a buffer written ...                                             *)
LEMMA SyncWriteQuiet ==
  ASSUME StoreInv, NEW p \in Procs, SyncWrite(p)
  PROVE  QuietStep(p)
<1>1. pc[p] = "sync" /\ pc' = [pc EXCEPT ![p] = "ll"]
        /\ SyncTodo(p) # {} /\ UNCHANGED <<bvars, dvars, val, last>>
  BY DEF SyncWrite, At, Goto
<1>2. PICK i \in 1 .. SyncEnd, b \in Bufs : i = Min(SyncTodo(p)) /\ b = SyncBuf(i)
  BY <1>1, SyncTodoFacts, StoreHere DEF SyncWrite
<1>3. PICK n \in 1 .. (SyncEnd + 1), r \in Locations : n = i + 1 /\ r = "sync"
  BY <1>2, Numbers DEF Locations
<1>4. loc' = [loc EXCEPT ![p].i = n, ![p].tgt = b, ![p].cmd = WRITE, ![p].ret = r]
  BY <1>2, <1>3 DEF SyncWrite
<1>5. PICK c : c = [loc[p] EXCEPT !.i = n, !.tgt = b, !.cmd = WRITE, !.ret = r]
  OBVIOUS
<1>6. loc' = [loc EXCEPT ![p] = c]
  BY <1>4, <1>5
<1>7. c \in Locals /\ c.op = loc[p].op /\ c.first = loc[p].first /\ c.keep = loc[p].keep
  <2>1. loc[p] \in Locals
    BY StoreHere
  <2> QED BY <1>5, <2>1 DEF Locals
<1>8. SameContents
  BY <1>1, ContentsKept
<1> QED BY <1>1, <1>6, <1>7, <1>8, LooksOn

(* ... writes the inodes ...                                                *)
LEMMA SyncInodesQuiet ==
  ASSUME StoreInv, NEW p \in Procs, SyncInodes(p)
  PROVE  QuietStep(p)
<1>1. pc[p] = "sync" /\ pc' = [pc EXCEPT ![p] = "sync"]
        /\ loc' = [loc EXCEPT ![p].i = SyncInodesCall + 1] /\ UNCHANGED <<bvars, dvars, val, last>>
  BY DEF SyncInodes, At, Yield
<1>2. PICK n \in 1 .. (SyncEnd + 1) : n = SyncInodesCall + 1
  BY Numbers
<1>3. PICK c : c = [loc[p] EXCEPT !.i = n]
  OBVIOUS
<1>4. loc' = [loc EXCEPT ![p] = c]
  BY <1>1, <1>2, <1>3
<1>5. c \in Locals /\ c.op = loc[p].op /\ c.first = loc[p].first /\ c.keep = loc[p].keep
  BY <1>3, StoreHere DEF Locals
<1>6. SameContents
  BY <1>1, ContentsKept
<1> QED BY <1>1, <1>4, <1>5, <1>6, LooksOn

(* ... and returns.                                                         *)
LEMMA SyncDoneQuiet ==
  ASSUME StoreInv, NEW p \in Procs, SyncDone(p)
  PROVE  QuietStep(p)
<1>1. pc[p] = "sync" /\ loc' = [loc EXCEPT ![p].i = 1]
        /\ (IF loc[p].op = "sync" THEN Yield(p, "user") ELSE Goto(p, "victim"))
        /\ UNCHANGED <<bvars, dvars, val, last>>
  BY DEF SyncDone, At
<1>2. PICK n \in 1 .. (SyncEnd + 1) : n = 1
  BY Numbers
<1>3. PICK c : c = [loc[p] EXCEPT !.i = n]
  OBVIOUS
<1>4. loc' = [loc EXCEPT ![p] = c]
  BY <1>1, <1>2, <1>3
<1>5. c \in Locals /\ c.op = loc[p].op /\ c.first = loc[p].first /\ c.keep = loc[p].keep
  BY <1>3, StoreHere DEF Locals
<1>6. SameContents
  BY <1>1, ContentsKept
<1>7. CASE loc[p].op = "sync"
  <2>1. pc' = [pc EXCEPT ![p] = "user"]
    BY <1>1, <1>7 DEF Yield
  <2>2. Moves(p, "user", c)
    BY <1>4, <1>5, <2>1 DEF Moves, Locations
  <2>3. ReliesOn("user", c)
    BY <1>5, <1>7, StoreHere DEF ReliesOn
  <2>4. ("user" = "rel") = (pc[p] = "rel") /\ val' = val
    BY <1>1
  <2> QED BY <1>5, <1>6, <2>2, <2>3, <2>4, GoesOn, Zenon
<1>8. CASE loc[p].op # "sync"
  <2>1. pc' = [pc EXCEPT ![p] = "victim"]
    BY <1>1, <1>8 DEF Goto
  <2> QED BY <1>1, <1>4, <1>5, <1>6, <2>1, LooksOn
<1> QED BY <1>7, <1>8

(* A call of sync() is none that BlockStore sees.                           *)
LEMMA BeginSyncQuiet ==
  ASSUME StoreInv, NEW p \in Procs, BeginSync(p)
  PROVE  QuietStep(p)
<1>1. /\ pc[p] = "user" /\ pc' = [pc EXCEPT ![p] = "sync"]
      /\ loc' = [loc EXCEPT ![p] = [NoLoc EXCEPT !.op = "sync", !.i = SyncInodesCall]]
      /\ UNCHANGED <<bvars, dvars, val, last>>
  BY DEF BeginSync, Goto
<1>2. PICK n \in 1 .. (SyncEnd + 1), o \in Calls : n = SyncInodesCall /\ o = "sync"
  BY Numbers DEF Calls
<1>3. PICK c : c = [NoLoc EXCEPT !.op = o, !.i = n]
  OBVIOUS
<1>4. loc' = [loc EXCEPT ![p] = c]
  BY <1>1, <1>2, <1>3
<1>5. NoLoc \in Locals /\ NoLoc.keep = NoBuf /\ NoLoc.first = NoBlock
  BY NoLocFacts DEF NoLoc
<1>6. c \in Locals /\ c.op = o /\ c.first = NoBlock /\ c.keep = NoBuf
  BY <1>3, <1>5 DEF Locals
<1>7. Moves(p, "sync", c)
  BY <1>1, <1>4, <1>6 DEF Moves, Locations
<1>8. ReliesOn("sync", c)
  BY <1>2, <1>6 DEF ReliesOn
<1>9. loc[p].op \in {"none", "sync"} /\ loc[p].first = NoBlock
  BY <1>1, StoreHere DEF ReliesOn
<1>10. CallOf(loc[p].op) = "none" /\ CallOf(c.op) = "none"
  BY <1>2, <1>6, <1>9 DEF CallOf
<1>11. ("sync" = "rel") = (pc[p] = "rel")
  BY <1>1
<1>12. CallAt("sync", c) = CallAt(pc[p], loc[p])
  BY <1>6, <1>9, <1>10, <1>11, Zenon DEF CallAt
<1>13. SameContents
  BY <1>1, ContentsKept
<1> QED BY <1>1, <1>7, <1>8, <1>12, <1>13 DEF QuietStep
-----------------------------------------------------------------------------
(* ll_rw_block() returns where it was called, to the same call.             *)
LEMMA LLReturnMoves ==
  ASSUME StoreInv, NEW p \in Procs, pc[p] \in {"ll", "slot"}, LLReturn(p)
  PROVE  \E c \in Locals :
           /\ Moves(p, loc[p].ret, c)
           /\ c.op = loc[p].op /\ c.first = loc[p].first
           /\ c.keep = loc[p].keep /\ c.bh = loc[p].bh
           /\ loc[p].ret \in {"sync", "bwait", "ahead", "aheaddone"}
<1>1. PICK r \in Locations : r = "user"
  BY DEF Locations
<1>2. PICK c : c = [loc[p] EXCEPT !.tgt = NoBuf, !.cmd = READ, !.ret = r]
  OBVIOUS
<1>3. loc' = [loc EXCEPT ![p] = c]
  BY <1>1, <1>2 DEF LLReturn
<1>4. c \in Locals /\ c.bh = loc[p].bh /\ c.op = loc[p].op /\ c.first = loc[p].first
        /\ c.keep = loc[p].keep
  <2>1. loc[p] \in Locals
    BY StoreHere
  <2> QED BY <1>2, <2>1 DEF Locals
<1>5. loc[p].ret \in Locations
  BY StoreHere DEF Locals
<1>6. pc' = [pc EXCEPT ![p] = loc[p].ret]
  BY DEF LLReturn, Goto
<1>7. loc[p].ret \in {"sync", "bwait", "ahead", "aheaddone"}
  BY StoreHere DEF AtTransfer
<1> QED BY <1>3, <1>4, <1>5, <1>6, <1>7 DEF Moves

(* It finds nothing to do: a buffer to be read is there.                    *)
LEMMA LLSkipQuiet ==
  ASSUME StoreInv, NEW p \in Procs, LLSkip(p)
  PROVE  QuietStep(p)
<1>1. pc[p] = "ll" /\ LLReturn(p) /\ UNCHANGED <<bvars, dvars, val, last>>
  BY DEF LLSkip, At
<1>2. PICK c \in Locals : /\ Moves(p, loc[p].ret, c)
                          /\ c.op = loc[p].op /\ c.first = loc[p].first
                          /\ c.keep = loc[p].keep /\ c.bh = loc[p].bh
                          /\ loc[p].ret \in {"sync", "bwait", "ahead", "aheaddone"}
  BY <1>1, LLReturnMoves
<1>3. loc[p].ret \in {"bwait", "ahead"} => loc[p].cmd = READ /\ loc[p].tgt = loc[p].bh
  BY <1>1, StoreHere DEF AtTransfer
<1>4. loc[p].cmd = READ => buf[loc[p].tgt].lock \/ buf[loc[p].tgt].uptodate
  BY Numbers DEF LLSkip, Command
<1>5. ReliesOn(loc[p].ret, c)
  BY <1>2, <1>3, <1>4, StoreHere, ZenonT(60) DEF ReliesOn, Coming
<1>6. SameContents
  BY <1>1, ContentsKept
<1>7. (loc[p].ret = "rel") = (pc[p] = "rel") /\ val' = val
  BY <1>1, <1>2
<1> QED BY <1>2, <1>5, <1>6, <1>7, GoesOn, Zenon

(* bread() and breada() start a read ...                                    *)
LEMMA StartReadQuiet ==
  ASSUME StoreInv, NEW p \in Procs, pc[p] = "got", NEW b \in Bufs,
         NEW cmd \in {READ, WRITE, READA}, NEW ret \in Locations,
         StartRead(p, b, cmd, ret), UNCHANGED <<bvars, dvars, wait, val, last>>
  PROVE  QuietStep(p)
<1>1. pc' = [pc EXCEPT ![p] = "ll"]
        /\ loc' = [loc EXCEPT ![p].tgt = b, ![p].cmd = cmd, ![p].ret = ret]
  BY DEF StartRead, Goto
<1>2. PICK c : c = [loc[p] EXCEPT !.tgt = b, !.cmd = cmd, !.ret = ret]
  OBVIOUS
<1>3. loc' = [loc EXCEPT ![p] = c]
  BY <1>1, <1>2
<1>4. c \in Locals /\ c.op = loc[p].op /\ c.first = loc[p].first /\ c.keep = loc[p].keep
  <2>1. loc[p] \in Locals
    BY StoreHere
  <2> QED BY <1>2, <2>1 DEF Locals
<1>5. SameContents
  BY ContentsKept
<1> QED BY <1>1, <1>3, <1>4, <1>5, LooksOn

(* ... or go on with a buffer that is there.                                *)
LEMMA HasItQuiet ==
  ASSUME StoreInv, NEW p \in Procs, NEW l \in {"hold", "ahead", "aheaddone"},
         pc[p] \in {"got", "bwait"}, buf[loc[p].bh].uptodate,
         pc' = [pc EXCEPT ![p] = l], UNCHANGED <<bvars, dvars, loc, val, last>>
  PROVE  QuietStep(p)
<1>1. loc[p].op \notin {"none", "sync"}
  BY StoreHere DEF AtCall, Calls
<1>2. ReliesOn(l, loc[p])
  BY <1>1, StoreHere DEF ReliesOn, Coming
<1>3. Moves(p, l, loc[p])
  BY StoreHere DEF Moves, Locations
<1>4. SameContents
  BY ContentsKept
<1>5. (l = "rel") = (pc[p] = "rel") /\ val' = val
  OBVIOUS
<1> QED BY <1>2, <1>3, <1>4, <1>5, GoesOn, Zenon

(* bread() has its buffer from getblk().                                    *)
LEMMA BreadQuiet ==
  ASSUME StoreInv, NEW p \in Procs, Bread(p)
  PROVE  QuietStep(p)
<1>1. pc[p] = "got" /\ UNCHANGED <<bvars, dvars, wait, val, last>>
  BY DEF Bread, At
<1>2. loc[p].op # "raw_write" /\ loc[p].bh \in Bufs
  BY <1>1, StoreHere DEF AtCall, ReliesOn
<1>3. CASE buf[loc[p].bh].uptodate
  <2>1. pc' = [pc EXCEPT ![p] = "hold"] /\ UNCHANGED loc
    BY <1>3 DEF Bread, Yield
  <2> QED BY <1>1, <1>3, <2>1, HasItQuiet
<1>4. CASE ~buf[loc[p].bh].uptodate
  <2>1. StartRead(p, loc[p].bh, READ, "bwait")
    BY <1>2, <1>4 DEF Bread
  <2> QED BY <1>1, <1>2, <2>1, StartReadQuiet DEF Locations
<1> QED BY <1>3, <1>4

(* So has breada() ...                                                      *)
LEMMA BreadaFirstQuiet ==
  ASSUME StoreInv, NEW p \in Procs, BreadaFirst(p)
  PROVE  QuietStep(p)
<1>1. pc[p] = "got" /\ UNCHANGED <<bvars, dvars, wait, val, last>>
  BY DEF BreadaFirst, At
<1>2. loc[p].bh \in Bufs
  BY <1>1, StoreHere DEF AtCall
<1>3. CASE buf[loc[p].bh].uptodate
  <2>1. pc' = [pc EXCEPT ![p] = "ahead"] /\ UNCHANGED loc
    BY <1>3 DEF BreadaFirst, Goto
  <2> QED BY <1>1, <1>3, <2>1, HasItQuiet
<1>4. CASE ~buf[loc[p].bh].uptodate
  <2>1. StartRead(p, loc[p].bh, READ, "ahead")
    BY <1>4 DEF BreadaFirst
  <2> QED BY <1>1, <1>2, <2>1, StartReadQuiet DEF Locations
<1> QED BY <1>3, <1>4

(* ... and then a second one, for the block to read ahead.                  *)
LEMMA BreadaAheadQuiet ==
  ASSUME StoreInv, NEW p \in Procs, BreadaAhead(p)
  PROVE  QuietStep(p)
<1>1. pc[p] = "got" /\ loc[p].keep # NoBuf /\ UNCHANGED <<bvars, dvars, wait, val, last>>
  BY DEF BreadaAhead, At
<1>2. loc[p].keep \in Bufs
  BY <1>1, StoreHere DEF Locals
<1>3. CASE buf[loc[p].bh].uptodate
  <2>1. pc' = [pc EXCEPT ![p] = "aheaddone"] /\ UNCHANGED loc
    BY <1>3 DEF BreadaAhead, Goto
  <2> QED BY <1>1, <1>3, <2>1, HasItQuiet
<1>4. CASE ~buf[loc[p].bh].uptodate
  <2>1. StartRead(p, loc[p].keep, READA, "aheaddone")
    BY <1>4 DEF BreadaAhead
  <2> QED BY <1>1, <1>2, <2>1, StartReadQuiet DEF Locations
<1> QED BY <1>3, <1>4

(* The first buffer of breada() is there or on its way while it reads ahead.*)
LEMMA BreadaNextQuiet ==
  ASSUME StoreInv, NEW p \in Procs, BreadaNext(p)
  PROVE  QuietStep(p)
<1>1. /\ pc[p] = "ahead" /\ pc' = [pc EXCEPT ![p] = "hash"]
      /\ loc' = [loc EXCEPT ![p].keep = loc[p].bh, ![p].bh = NoBuf, ![p].blk = loc[p].ahead]
      /\ UNCHANGED <<bvars, dvars, val, last>>
  BY DEF BreadaNext, At, Goto
<1>2. PICK c : c = [loc[p] EXCEPT !.keep = loc[p].bh, !.bh = NoBuf, !.blk = loc[p].ahead]
  OBVIOUS
<1>3. loc' = [loc EXCEPT ![p] = c]
  BY <1>1, <1>2
<1>4. c \in Locals /\ c.op = loc[p].op /\ c.first = loc[p].first /\ c.keep = loc[p].bh
  <2>1. loc[p] \in Locals
    BY StoreHere
  <2> QED BY <1>2, <2>1 DEF Locals
<1>5. Moves(p, "hash", c)
  BY <1>1, <1>3, <1>4 DEF Moves, Locations
<1>6. ReliesOn("hash", c)
  BY <1>1, <1>4, StoreHere, ZenonT(60) DEF ReliesOn
<1>7. SameContents
  BY <1>1, ContentsKept
<1>8. ("hash" = "rel") = (pc[p] = "rel") /\ val' = val
  BY <1>1
<1> QED BY <1>4, <1>5, <1>6, <1>7, <1>8, GoesOn, Zenon

(* breada() returns to its first buffer.                                    *)
LEMMA BreadaDoneQuiet ==
  ASSUME StoreInv, NEW p \in Procs, BreadaDone(p)
  PROVE  QuietStep(p)
<1>1. PICK b, n : b = loc[p].bh /\ n = buf[b].count - 1
  OBVIOUS
<1>2. /\ pc[p] = "aheaddone" /\ pc' = [pc EXCEPT ![p] = "bwait"]
      /\ loc' = [loc EXCEPT ![p].bh = loc[p].keep, ![p].keep = NoBuf, ![p].blk = loc[p].first]
      /\ buf' = [buf EXCEPT ![b].count = n]
      /\ UNCHANGED <<dvars, val, last>>
  BY <1>1 DEF BreadaDone, At, Goto
<1>3. PICK c : c = [loc[p] EXCEPT !.bh = loc[p].keep, !.keep = NoBuf, !.blk = loc[p].first]
  OBVIOUS
<1>4. loc' = [loc EXCEPT ![p] = c]
  BY <1>2, <1>3
<1>5. c \in Locals /\ c.op = loc[p].op /\ c.first = loc[p].first /\ c.keep = NoBuf
        /\ c.bh = loc[p].keep
  <2>1. loc[p] \in Locals
    BY StoreHere
  <2> QED BY <1>3, <2>1 DEF Locals
<1>6. Moves(p, "bwait", c)
  BY <1>2, <1>4, <1>5 DEF Moves, Locations
<1>7. loc[p].keep # NoBuf /\ b \in Bufs
  BY <1>1, <1>2, StoreHere DEF AtCall
<1>8. ReliesOn("bwait", c)
  BY <1>2, <1>5, <1>7, StoreHere, ZenonT(60) DEF ReliesOn
<1>9. SameContents
  BY <1>2, <1>7, ContentsCounted, StoreHere
<1>10. ("bwait" = "rel") = (pc[p] = "rel") /\ val' = val
  BY <1>2
<1> QED BY <1>5, <1>6, <1>8, <1>9, <1>10, GoesOn, Zenon

(* A disk that does not fail has read what bread() waited for.              *)
LEMMA BreadReturnQuiet ==
  ASSUME StoreInv, NEW p \in Procs, BreadReturn(p)
  PROVE  QuietStep(p)
<1>1. pc[p] = "bwait" /\ ~buf[loc[p].bh].lock /\ UNCHANGED <<bvars, dvars, loc, val, last>>
  BY DEF BreadReturn, At
<1>2. buf[loc[p].bh].uptodate
  BY <1>1, StoreHere DEF ReliesOn, Coming
<1>3. pc' = [pc EXCEPT ![p] = "hold"]
  BY <1>2 DEF BreadReturn, Yield
<1> QED BY <1>1, <1>2, <1>3, HasItQuiet
-----------------------------------------------------------------------------
(* The actions of BlockStore, said of callBar.                              *)
LEMMA StoreActions ==
  ASSUME NEW p \in Procs
  PROVE  /\ \A op, k :
              /\ callBar[p] = Store!Idle
              /\ callBar' = [callBar EXCEPT ![p] = [op |-> op, block |-> k, done |-> FALSE]]
              /\ UNCHANGED <<last, val>>
              => Store!Call(p, op, k)
         /\ \A v :
              /\ callBar[p].op = "write" /\ ~callBar[p].done
              /\ last' = [last EXCEPT ![callBar[p].block] = v]
              /\ callBar' = [callBar EXCEPT ![p].done = TRUE]
              /\ UNCHANGED val
              => Store!Write(p, v)
         /\ /\ callBar[p].op = "read" /\ ~callBar[p].done
            /\ val' = [val EXCEPT ![p] = last[callBar[p].block]]
            /\ callBar' = [callBar EXCEPT ![p].done = TRUE]
            /\ UNCHANGED last
            => Store!Read(p)
         /\ /\ callBar[p].done
            /\ callBar' = [callBar EXCEPT ![p] = Store!Idle]
            /\ val' = [val EXCEPT ![p] = NULL]
            /\ UNCHANGED last
            => Store!Return(p)
BY Zenon DEF callBar, CallAt, CallOf, Store!Call, Store!Write, Store!Read, Store!Return, Store!Idle

(* A call before and after it takes effect.                                 *)
LEMMA CallFields ==
  ASSUME NEW l, NEW c, l # "rel"
  PROVE  /\ CallAt(l, c).op = CallOf(c.op) /\ CallAt(l, c).block = c.first /\ ~CallAt(l, c).done
         /\ CallAt("rel", c) = [CallAt(l, c) EXCEPT !.done = TRUE]
<1>1. PICK o, k : o = CallOf(c.op) /\ k = c.first
  BY Zenon
<1>2. (l = "rel") = FALSE /\ ("rel" = "rel") = TRUE
  OBVIOUS
<1>3. CallAt(l, c) = [op |-> o, block |-> k, done |-> FALSE]
  BY <1>1, <1>2, Zenon DEF CallAt
<1>4. CallAt("rel", c) = [op |-> o, block |-> k, done |-> TRUE]
  BY <1>1, <1>2, Zenon DEF CallAt
<1>5. CallAt(l, c).op = o /\ CallAt(l, c).block = k /\ ~CallAt(l, c).done
  BY <1>3
<1>6. CallAt("rel", c) = [CallAt(l, c) EXCEPT !.done = TRUE]
  BY <1>3, <1>4
<1> QED BY <1>1, <1>5, <1>6, Zenon

(* A process that makes no call.                                            *)
LEMMA IdleCall ==
  ASSUME NEW l, NEW c, l = "user", c.op \in {"none", "sync"}, c.first = NoBlock
  PROVE  CallAt(l, c) = Store!Idle
<1>1. CallOf(c.op) = "none"
  BY DEF CallOf
<1>2. (l = "rel") = FALSE
  OBVIOUS
<1> QED BY <1>1, <1>2 DEF CallAt, Store!Idle, NoBlock

(* A process calls bread() or breada().                                     *)
LEMMA BeginStore ==
  ASSUME Healthy, StoreInv, HeadInv', NEW p \in Procs, NEW k \in Blocks,
         NEW op \in Ops[p] \ {"sync"}, Begin(p, op, k)
  PROVE  ContentsInv' /\ StoreStep
<1>1. PICK a \in IF op = "read_ahead" THEN Blocks \ {k} ELSE {NoBlock} :
        loc' = [loc EXCEPT ![p] = [NoLoc EXCEPT !.op = op, !.first = k, !.blk = k, !.ahead = a]]
  BY DEF Begin
<1>2. pc[p] = "user" /\ pc' = [pc EXCEPT ![p] = "hash"] /\ UNCHANGED <<bvars, dvars, val, last>>
  BY DEF Begin, Goto
<1>3. op \in {"read", "write", "read_ahead"} /\ op \in Calls
  BY DEF Healthy, Calls
<1>4. a \in Blocks \union {NoBlock}
  OBVIOUS
<1>5. PICK c : c = [NoLoc EXCEPT !.op = op, !.first = k, !.blk = k, !.ahead = a]
  OBVIOUS
<1>6. c \in Locals /\ c.op = op /\ c.first = k /\ c.keep = NoBuf
  BY <1>3, <1>4, <1>5, NoLocFacts DEF Locals
<1>7. Moves(p, "hash", c)
  BY <1>1, <1>2, <1>5, <1>6 DEF Moves, Locations
<1>8. ReliesOn("hash", c)
  BY <1>3, <1>6 DEF ReliesOn
<1>9. SameContents
  BY <1>2, ContentsKept
<1>10. ContentsInv'
  BY <1>7, <1>8, <1>9, SameContentsKeeps
<1>11. callBar[p] = Store!Idle
  <2>1. callBar[p] = CallAt(pc[p], loc[p])
    BY DEF callBar
  <2>2. loc[p].op \in {"none", "sync"} /\ loc[p].first = NoBlock
    BY <1>2, StoreHere DEF ReliesOn
  <2> QED BY <1>2, <2>1, <2>2, IdleCall
<1>12. PICK o \in {"read", "write"} : o = CallOf(op)
  BY <1>3 DEF CallOf
<1>13. callBar' = [callBar EXCEPT ![p] = [op |-> o, block |-> k, done |-> FALSE]]
  <2>1. callBar' = [callBar EXCEPT ![p] = CallAt("hash", c)]
    BY <1>7, CallMove
  <2>2. ("hash" = "rel") = FALSE
    OBVIOUS
  <2>3. CallAt("hash", c) = [op |-> o, block |-> k, done |-> FALSE]
    BY <1>6, <1>12, <2>2, Zenon DEF CallAt
  <2> QED BY <2>1, <2>3
<1>14. Store!Call(p, o, k)
  BY <1>2, <1>11, <1>13, StoreActions
<1> QED BY <1>10, <1>12, <1>14 DEF StoreStep

(* A reader gets what was last written.                                     *)
LEMMA CopyOutStore ==
  ASSUME StoreInv, HeadInv', NEW p \in Procs, CopyOut(p)
  PROVE  ContentsInv' /\ StoreStep
<1>1. /\ pc[p] = "hold" /\ loc[p].op \in {"read", "read_ahead"}
      /\ val' = [val EXCEPT ![p] = buf[loc[p].bh].data]
      /\ pc' = [pc EXCEPT ![p] = "rel"] /\ UNCHANGED <<bvars, dvars, loc, last>>
  BY DEF CopyOut, At, Goto
<1>2. Moves(p, "rel", loc[p])
  BY <1>1, StoreHere DEF Moves, Locations
<1>3. ReliesOn("rel", loc[p])
  BY <1>1, StoreHere DEF ReliesOn
<1>4. SameContents
  BY <1>1, ContentsKept
<1>5. ContentsInv'
  BY <1>2, <1>3, <1>4, SameContentsKeeps
<1>6. loc[p].bh \in Bufs /\ loc[p].keep = NoBuf /\ loc[p].blk = loc[p].first
  BY <1>1, StoreHere DEF AtCall
<1>7. buf[loc[p].bh].data = last[loc[p].first]
  <2>1. buf[loc[p].bh].block = loc[p].blk
    BY <1>1, <1>6, StoreHere DEF KeepsBlock, HoldingAt
  <2>2. buf[loc[p].bh].uptodate
    BY <1>1, StoreHere DEF ReliesOn
  <2> QED BY <1>6, <2>1, <2>2 DEF StoreInv, ContentsInv, BufferIsLast
<1>8. callBar[p] = CallAt(pc[p], loc[p]) /\ callBar \in [Procs -> {callBar[q] : q \in Procs}]
  BY DEF callBar
<1>9. callBar[p].op = "read" /\ ~callBar[p].done /\ callBar[p].block = loc[p].first
  <2>1. pc[p] # "rel" /\ CallOf(loc[p].op) = "read"
    BY <1>1 DEF CallOf
  <2>2. /\ CallAt(pc[p], loc[p]).op = CallOf(loc[p].op) /\ ~CallAt(pc[p], loc[p]).done
        /\ CallAt(pc[p], loc[p]).block = loc[p].first
    BY <2>1, CallFields, Zenon
  <2> QED BY <1>8, <2>1, <2>2
<1>10. callBar' = [callBar EXCEPT ![p].done = TRUE]
  <2>1. callBar' = [callBar EXCEPT ![p] = CallAt("rel", loc[p])]
    BY <1>2, CallMove
  <2>2. pc[p] # "rel"
    BY <1>1
  <2>3. CallAt("rel", loc[p]) = [CallAt(pc[p], loc[p]) EXCEPT !.done = TRUE]
    BY <2>2, CallFields, Zenon
  <2> QED BY <1>8, <2>1, <2>3
<1>11. Store!Read(p)
  BY <1>1, <1>7, <1>9, <1>10, StoreActions
<1> QED BY <1>5, <1>11 DEF StoreStep

(* The call returns.                                                        *)
LEMMA BrelseStore ==
  ASSUME StoreInv, HeadInv', NEW p \in Procs, Brelse(p)
  PROVE  ContentsInv' /\ StoreStep
<1>1. PICK b, n : b = loc[p].bh /\ n = buf[b].count - 1
  OBVIOUS
<1>2. /\ pc[p] = "rel" /\ pc' = [pc EXCEPT ![p] = "user"] /\ loc' = [loc EXCEPT ![p] = NoLoc]
      /\ buf' = [buf EXCEPT ![b].count = n]
      /\ val' = [val EXCEPT ![p] = NULL] /\ UNCHANGED <<dvars, last>>
  BY <1>1 DEF Brelse, At, Yield
<1>3. b \in Bufs
  BY <1>1, <1>2, StoreHere DEF AtCall
<1>4. SameContents
  BY <1>2, <1>3, ContentsCounted, StoreHere
<1>5. NoLoc \in Locals /\ NoLoc.op = "none" /\ NoLoc.keep = NoBuf /\ NoLoc.first = NoBlock
  BY NoLocFacts DEF NoLoc
<1>6. Moves(p, "user", NoLoc)
  BY <1>2, <1>5 DEF Moves, Locations
<1>7. ReliesOn("user", NoLoc)
  BY <1>5 DEF ReliesOn
<1>8. ContentsInv'
  BY <1>4, <1>6, <1>7, SameContentsKeeps
<1>9. CallAt("user", NoLoc) = Store!Idle
  BY <1>5, IdleCall
<1>10. callBar' = [callBar EXCEPT ![p] = Store!Idle]
  BY <1>6, <1>9, CallMove
<1>11. callBar[p].done
  BY <1>2 DEF callBar, CallAt
<1>12. Store!Return(p)
  BY <1>2, <1>10, <1>11, StoreActions
<1> QED BY <1>8, <1>12 DEF StoreStep
-----------------------------------------------------------------------------
(* ll_rw_block() locks a buffer that has something to be transferred.       *)
LEMMA LLNoSlotQuiet ==
  ASSUME StoreInv, NEW p \in Procs, LLNoSlot(p)
  PROVE  QuietStep(p)
<1>1. pc[p] = "ll" /\ pc' = [pc EXCEPT ![p] = "slot"] /\ UNCHANGED <<dvars, loc, val, last>>
  BY DEF LLNoSlot, NoSlot, At, Goto
<1>2. PICK b \in Bufs : b = loc[p].tgt
  BY <1>1, StoreHere DEF AtTransfer
<1>3. PICK yes \in BOOLEAN : yes = TRUE /\ buf' = [buf EXCEPT ![b].lock = yes]
  BY <1>2 DEF LLNoSlot
<1>4. buf \in [Bufs -> BufferHeads]
  BY StoreHere DEF HeadInv, TypeOK
<1>5. \A d \in Bufs : /\ buf'[d].block = buf[d].block /\ buf'[d].data = buf[d].data
                      /\ buf'[d].dirt = buf[d].dirt /\ buf'[d].uptodate = buf[d].uptodate
  BY <1>3, <1>4 DEF BufferHeads
<1>6. \A d \in Bufs : buf[d].lock => buf'[d].lock
  BY <1>3, <1>4 DEF BufferHeads
<1>7. SameContents
  BY <1>1, <1>5, <1>6 DEF SameContents, dvars
<1>8. IF loc[p].cmd = WRITE THEN buf[b].dirt ELSE ~buf[b].uptodate
  BY <1>2, Numbers DEF LLNoSlot, LLNeeded, Command
<1>9. ReliesOn("slot", loc[p])
  BY <1>1, <1>2, <1>8, StoreHere, Numbers DEF ReliesOn
<1>10. Moves(p, "slot", loc[p])
  BY <1>1, StoreHere DEF Moves, Locations
<1>11. ("slot" = "rel") = (pc[p] = "rel") /\ val' = val
  BY <1>1
<1> QED BY <1>7, <1>9, <1>10, <1>11, GoesOn, Zenon

(* A process that does not move relies on what it did, if the buffers that  *)
(* it holds or waits for have not lost it.                                  *)
LEMMA StillRelies ==
  ASSUME StoreInv, NEW q \in Procs, pc'[q] = pc[q], loc'[q] = loc[q],
         \A b \in Bufs : HoldingAt(pc[q], loc[q], b) \/ loc[q].keep = b =>
           (Coming(b) => Coming(b)') /\ (buf[b].uptodate => buf'[b].uptodate),
         \A b \in Bufs : Waits(q, b) =>
           (~buf[b].uptodate => ~buf'[b].uptodate) /\ (buf[b].dirt => buf'[b].dirt)
  PROVE  ReliesOn(pc[q], loc[q])'
<1>1. PICK l, c : l = pc[q] /\ c = loc[q]
  OBVIOUS
<1>2. ReliesOn(l, c) /\ AtCall(l, c) /\ AtTransfer(l, c) /\ c.keep \in Bufs \union {NoBuf}
  BY <1>1, StoreHere DEF Locals
<1>3. l \in {"ahead", "bwait"} => Coming(c.bh)'
  BY <1>1, <1>2 DEF ReliesOn, AtCall, HoldingAt
<1>4. c.keep # NoBuf => Coming(c.keep)'
  BY <1>1, <1>2 DEF ReliesOn
<1>5. l = "hold" => buf'[c.bh].uptodate
  BY <1>1, <1>2 DEF ReliesOn, AtCall, HoldingAt
<1>6. l = "slot" => (c.cmd = READ => ~buf'[c.tgt].uptodate) /\ (c.cmd = WRITE => buf'[c.tgt].dirt)
  BY <1>1, <1>2 DEF ReliesOn, AtTransfer, Waits, WaitsAt
<1>7. ReliesOn(l, c)'
  BY <1>2, <1>3, <1>4, <1>5, <1>6, Zenon DEF ReliesOn
<1> QED BY <1>1, <1>7

(* getblk() takes a buffer.  It is clean and unlocked: nothing is lost with *)
(* its old contents.  It is unused: nobody relies on them.                  *)
LEMMA TakeStore ==
  ASSUME StoreInv, HeadInv', NEW p \in Procs, Take(p)
  PROVE  ContentsInv' /\ StoreStep
<1>0. /\ LocksOwned /\ TypeOK /\ CountIsReferences
      /\ Reliable /\ ReadOnce /\ BufferIsLast /\ DiskIsLast /\ DriveHasIt
  BY DEF StoreInv, CacheInv, HeadInv, ContentsInv
<1>1. pc[p] = "victim" /\ pc' = [pc EXCEPT ![p] = "got"] /\ UNCHANGED <<dvars, loc, val, last>>
  BY DEF Take, Assign, At, Goto
<1>2. PICK b \in Bufs : b = loc[p].bh
  BY <1>1, StoreHere DEF AtCall
<1>3. ~buf[b].lock /\ buf[b].count = 0 /\ ~buf[b].dirt
  BY <1>2 DEF Take
<1>4. PICK one, no, k : one = 1 /\ no = FALSE /\ k = loc[p].blk
  BY Zenon
<1>5. buf' = [buf EXCEPT ![b].count = one, ![b].dirt = no, ![b].uptodate = no,
                         ![b].block = k, ![b].data = NULL]
  BY <1>2, <1>4, Zenon DEF Take, Assign
<1>6. buf \in [Bufs -> BufferHeads]
  BY <1>0 DEF TypeOK
<1>7. ~buf'[b].dirt /\ ~buf'[b].uptodate /\ \A d \in Bufs : d # b => buf'[d] = buf[d]
  BY <1>4, <1>5, <1>6 DEF BufferHeads
<1>8. UNCHANGED <<request, queue, xfer, disk, loc, val, last>>
  BY <1>1 DEF dvars
<1>9. (\A s \in Slots : request[s].bh # b) /\ (\A q \in Procs : ~Waits(q, b))
  BY <1>0, <1>3 DEF LocksOwned
<1>10. ASSUME NEW q \in Procs PROVE ~HoldingAt(pc[q], loc[q], b) /\ loc[q].keep # b
  <2>1. RefsAt(pc[q], loc[q], b) =< 0
    BY <1>0, <1>3, HeldIsCounted
  <2> QED BY <2>1 DEF RefsAt, One
<1>11. Moves(p, "got", loc[p])
  BY <1>1, StoreHere DEF Moves, Locations
<1>12. Reliable'
  <2> SUFFICES ASSUME NEW q \in Procs PROVE ReliesOn(pc[q], loc[q])'
    BY DEF Reliable
  <2>1. CASE q = p
    <3>1. pc'[p] = "got" /\ loc'[p] = loc[p]
      BY <1>11, AfterMove
    <3>2. loc[p].keep # NoBuf => Coming(loc[p].keep)'
      <4>1. loc[p].keep \in Bufs \union {NoBuf} /\ loc[p].keep # b
        BY <1>10, StoreHere DEF Locals
      <4>2. loc[p].keep # NoBuf => Coming(loc[p].keep)
        BY StoreHere DEF ReliesOn
      <4> QED BY <1>7, <1>8, <4>1, <4>2 DEF Coming
    <3>3. ReliesOn("got", loc[p])'
      BY <1>1, <1>8, <3>2, StoreHere DEF ReliesOn
    <3> QED BY <2>1, <3>1, <3>3, <1>8
  <2>2. CASE q # p
    <3>1. pc'[q] = pc[q] /\ loc'[q] = loc[q]
      BY <2>2, <1>11, AfterMove
    <3>2. \A d \in Bufs : HoldingAt(pc[q], loc[q], d) \/ loc[q].keep = d =>
            (Coming(d) => Coming(d)') /\ (buf[d].uptodate => buf'[d].uptodate)
      BY <1>7, <1>10 DEF Coming
    <3>3. \A d \in Bufs : Waits(q, d) =>
            (~buf[d].uptodate => ~buf'[d].uptodate) /\ (buf[d].dirt => buf'[d].dirt)
      BY <1>7, <1>9
    <3> QED BY <3>1, <3>2, <3>3, StillRelies
  <2> QED BY <2>1, <2>2
<1>13. ReadOnce' /\ BufferIsLast'
  BY <1>0, <1>7, <1>8, <1>9 DEF ReadOnce, BufferIsLast
<1>14. DiskIsLast'
  <2> SUFFICES ASSUME NEW m \in Blocks, disk[m] # last[m]
               PROVE  \E e \in Bufs : buf'[e].block = m /\ (buf'[e].dirt \/ Writing(e)')
    BY <1>8 DEF DiskIsLast
  <2>1. PICK e \in Bufs : buf[e].block = m /\ (buf[e].dirt \/ Writing(e))
    BY <1>0 DEF DiskIsLast
  <2>2. e # b
    BY <2>1, <1>3, <1>9 DEF Writing
  <2>3. Writing(e)' <=> Writing(e)
    BY <1>8 DEF Writing
  <2> QED BY <2>1, <2>2, <2>3, <1>7
<1>15. DriveHasIt'
  <2>1. queue # <<>> => request[queue[1]].bh \in Bufs /\ queue[1] \in Slots
    BY InterruptFacts DEF StoreInv, CacheInv
  <2> QED BY <2>1, <1>0, <1>7, <1>8, <1>9 DEF DriveHasIt
<1>16. StoreStep
  <2>1. ("got" = "rel") = (pc[p] = "rel")
    BY <1>1
  <2>2. CallAt("got", loc[p]) = CallAt(pc[p], loc[p])
    BY <2>1, Zenon DEF CallAt
  <2>3. callBar' = callBar
    BY <1>11, <2>2, CallKept
  <2> QED BY <2>3, <1>8 DEF StoreStep
<1> QED BY <1>12, <1>13, <1>14, <1>15, <1>16 DEF ContentsInv

(* A buffer is written to.                                                  *)
LEMMA CopyInStore ==
  ASSUME StoreInv, HeadInv', NEW p \in Procs, NEW v \in Vals, CopyIn(p, v)
  PROVE  ContentsInv' /\ StoreStep
<1>0. /\ TypeOK /\ OneBufferPerBlock
      /\ Reliable /\ ReadOnce /\ BufferIsLast /\ DiskIsLast /\ DriveHasIt
  BY DEF StoreInv, CacheInv, HeadInv, ContentsInv
<1>1. /\ pc[p] = "hold" /\ pc' = [pc EXCEPT ![p] = "rel"]
      /\ last' = [last EXCEPT ![loc[p].first] = v] /\ UNCHANGED <<dvars, loc, val>>
  BY DEF CopyIn, At, Goto
<1>2. loc[p].op = "write"
  <2>1. loc[p].op \in {"write", "raw_write"}
    BY DEF CopyIn
  <2> QED BY <2>1, StoreHere DEF ReliesOn
<1>3. PICK b \in Bufs, k \in Blocks : b = loc[p].bh /\ k = loc[p].first /\ k = loc[p].blk
  BY <1>1, <1>2, StoreHere DEF AtCall
<1>4. buf[b].block = k /\ buf[b].uptodate /\ k # NoBlock
  <2>1. buf[b].block = k
    BY <1>1, <1>3, StoreHere DEF KeepsBlock, HoldingAt
  <2>2. buf[b].uptodate
    BY <1>1, <1>3, StoreHere DEF ReliesOn
  <2> QED BY <2>1, <2>2, Numbers
<1>5. PICK yes : yes = TRUE
  BY Zenon
<1>6. buf' = [buf EXCEPT ![b].dirt = yes, ![b].data = v]
  BY <1>3, <1>5, Zenon DEF CopyIn
<1>7. buf \in [Bufs -> BufferHeads] /\ last \in [Blocks -> Vals]
  BY <1>0 DEF TypeOK
<1>8. /\ buf'[b].dirt /\ buf'[b].data = v
      /\ \A d \in Bufs : d # b => buf'[d] = buf[d]
      /\ \A d \in Bufs : /\ buf'[d].block = buf[d].block /\ buf'[d].lock = buf[d].lock
                         /\ buf'[d].uptodate = buf[d].uptodate
  BY <1>5, <1>6, <1>7 DEF BufferHeads
<1>9. UNCHANGED <<request, queue, xfer, disk, loc, val>>
  BY <1>1 DEF dvars
<1>10. last'[k] = v /\ \A m \in Blocks : m # k => last'[m] = last[m]
  BY <1>1, <1>3, <1>7
<1>11. Moves(p, "rel", loc[p])
  BY <1>1, StoreHere DEF Moves, Locations
<1>12. Reliable'
  <2> SUFFICES ASSUME NEW q \in Procs PROVE ReliesOn(pc[q], loc[q])'
    BY DEF Reliable
  <2>1. CASE q = p
    <3>1. pc'[p] = "rel" /\ loc'[p] = loc[p]
      BY <1>11, AfterMove
    <3>2. loc[p].keep = NoBuf
      BY <1>1, StoreHere DEF AtCall
    <3>3. ReliesOn("rel", loc[p])'
      BY <1>2, <1>9, <3>2 DEF ReliesOn
    <3> QED BY <2>1, <3>1, <3>3, <1>9
  <2>2. CASE q # p
    <3>1. pc'[q] = pc[q] /\ loc'[q] = loc[q]
      BY <2>2, <1>11, AfterMove
    <3>2. \A d \in Bufs : HoldingAt(pc[q], loc[q], d) \/ loc[q].keep = d =>
            (Coming(d) => Coming(d)') /\ (buf[d].uptodate => buf'[d].uptodate)
      BY <1>8 DEF Coming
    <3>3. \A d \in Bufs : Waits(q, d) =>
            (~buf[d].uptodate => ~buf'[d].uptodate) /\ (buf[d].dirt => buf'[d].dirt)
      BY <1>8
    <3> QED BY <3>1, <3>2, <3>3, StillRelies
  <2> QED BY <2>1, <2>2
<1>13. ReadOnce'
  BY <1>0, <1>4, <1>8, <1>9 DEF ReadOnce
<1>14. BufferIsLast'
  <2> SUFFICES ASSUME NEW e \in Bufs, buf'[e].uptodate
               PROVE  buf'[e].block \in Blocks /\ buf'[e].data = last'[buf'[e].block]
    BY DEF BufferIsLast
  <2>1. CASE e = b
    BY <2>1, <1>4, <1>8, <1>10
  <2>2. CASE e # b
    <3>1. buf[e].block \in Blocks /\ buf[e].data = last[buf[e].block]
      BY <1>0, <1>8 DEF BufferIsLast
    <3>2. buf[e].block # k
      BY <2>2, <1>0, <1>4 DEF OneBufferPerBlock
    <3> QED BY <2>2, <3>1, <3>2, <1>8, <1>10
  <2> QED BY <2>1, <2>2
<1>15. DiskIsLast'
  <2> SUFFICES ASSUME NEW m \in Blocks, disk[m] # last'[m]
               PROVE  \E e \in Bufs : buf'[e].block = m /\ (buf'[e].dirt \/ Writing(e)')
    BY <1>9 DEF DiskIsLast
  <2>1. CASE m = k
    BY <2>1, <1>4, <1>8
  <2>2. CASE m # k
    <3>1. PICK e \in Bufs : buf[e].block = m /\ (buf[e].dirt \/ Writing(e))
      BY <2>2, <1>0, <1>10 DEF DiskIsLast
    <3>2. Writing(e)' <=> Writing(e)
      BY <1>9 DEF Writing
    <3>3. e # b
      BY <2>2, <3>1, <1>4
    <3> QED BY <3>1, <3>2, <3>3, <1>8
  <2> QED BY <2>1, <2>2
<1>16. DriveHasIt'
  <2>1. queue # <<>> => request[queue[1]].bh \in Bufs
    BY InterruptFacts DEF StoreInv, CacheInv
  <2> QED BY <2>1, <1>0, <1>8, <1>9 DEF DriveHasIt
<1>17. StoreStep
  <2>1. callBar[p] = CallAt(pc[p], loc[p]) /\ callBar \in [Procs -> {callBar[q] : q \in Procs}]
    BY DEF callBar
  <2>2. pc[p] # "rel" /\ CallOf(loc[p].op) = "write"
    BY <1>1, <1>2 DEF CallOf
  <2>3. /\ CallAt(pc[p], loc[p]).op = CallOf(loc[p].op) /\ ~CallAt(pc[p], loc[p]).done
        /\ CallAt(pc[p], loc[p]).block = loc[p].first
    BY <2>2, CallFields, Zenon
  <2>4. CallAt("rel", loc[p]) = [CallAt(pc[p], loc[p]) EXCEPT !.done = TRUE]
    BY <2>2, CallFields, Zenon
  <2>5. callBar' = [callBar EXCEPT ![p] = CallAt("rel", loc[p])]
    BY <1>11, CallMove
  <2>6. callBar' = [callBar EXCEPT ![p].done = TRUE]
    BY <2>1, <2>4, <2>5
  <2>7. callBar[p].op = "write" /\ ~callBar[p].done /\ callBar[p].block = loc[p].first
    BY <2>1, <2>2, <2>3
  <2>8. Store!Write(p, v)
    BY <1>1, <1>9, <2>6, <2>7, StoreActions
  <2> QED BY <2>8 DEF StoreStep
<1> QED BY <1>12, <1>13, <1>14, <1>15, <1>16, <1>17 DEF ContentsInv

(* A transfer is queued: a buffer that was dirty is being written instead,  *)
(* and if it is the drive's turn the drive gets its contents.               *)
LEMMA SubmitStore ==
  ASSUME StoreInv, HeadInv', NEW p \in Procs, Submit(p)
  PROVE  ContentsInv' /\ StoreStep
<1>0. /\ TypeOK /\ RQP!QueueInv /\ HeadInv
      /\ Reliable /\ ReadOnce /\ BufferIsLast /\ DiskIsLast /\ DriveHasIt
  BY DEF StoreInv, CacheInv, HeadInv, ContentsInv
<1>1. PICK b \in Bufs, s \in Slots, cmd \in {READ, WRITE} :
           /\ b = loc[p].tgt /\ cmd = Command(p)
           /\ s = RQP!FindSlot(RequestView, cmd) /\ s # 0
           /\ request[s].bh = NoBuf
           /\ \A i \in 1 .. Len(queue) : queue[i] # s
           /\ \A t \in Slots : request[t].bh # b
           /\ \A q \in Procs : Waits(q, b) => q = p
  BY <1>0, SubmitFacts
<1>2. PICK yes, no, r : yes = TRUE /\ no = FALSE /\ r = [cmd |-> cmd, bh |-> b]
  BY Zenon
<1>3. /\ request' = [request EXCEPT ![s] = r]
      /\ \E v : queue' = RQP!AddRequest(v, queue, s)
      /\ xfer' = IF queue = <<>> /\ cmd = WRITE THEN buf[b].data ELSE xfer
      /\ buf' = [buf EXCEPT ![b].lock = yes, ![b].dirt = no]
      /\ LLReturn(p)
      /\ UNCHANGED <<disk, val, last>>
  BY <1>1, <1>2, SameSlot, SameAdd DEF Submit, Enqueue
<1>4. pc[p] \in {"ll", "slot"}
  BY DEF Submit, At
<1>5. (cmd = WRITE => buf[b].dirt) /\ (cmd = READ => ~buf[b].uptodate)
  <2>1. CASE pc[p] = "ll"
    <3>1. LLNeeded(p)
      BY <2>1 DEF Submit, At
    <3> QED BY <3>1, <1>1, Numbers DEF LLNeeded
  <2>2. CASE pc[p] = "slot"
    <3>1. loc[p].cmd \in {READ, WRITE}
      BY <2>2, StoreHere DEF AtTransfer
    <3>2. cmd = loc[p].cmd
      BY <3>1, <1>1, Numbers DEF Command
    <3> QED BY <2>2, <3>2, <1>1, StoreHere DEF ReliesOn
  <2> QED BY <2>1, <2>2, <1>4
<1>6. buf \in [Bufs -> BufferHeads] /\ queue \in Seq(Slots)
        /\ request \in [Slots -> [cmd : {READ, WRITE}, bh : Bufs \union {NoBuf}]]
  BY <1>0 DEF TypeOK
<1>7. /\ buf'[b].lock /\ ~buf'[b].dirt
      /\ \A d \in Bufs : d # b => buf'[d] = buf[d]
      /\ \A d \in Bufs : /\ buf'[d].block = buf[d].block /\ buf'[d].data = buf[d].data
                         /\ buf'[d].uptodate = buf[d].uptodate
  BY <1>2, <1>3, <1>6 DEF BufferHeads
<1>8. /\ request'[s].cmd = cmd /\ request'[s].bh = b
      /\ \A t \in Slots : t # s => request'[t] = request[t]
  BY <1>2, <1>3, <1>6
<1>9. PICK c \in Locals : /\ Moves(p, loc[p].ret, c)
                          /\ c.op = loc[p].op /\ c.first = loc[p].first
                          /\ c.keep = loc[p].keep /\ c.bh = loc[p].bh
                          /\ loc[p].ret \in {"sync", "bwait", "ahead", "aheaddone"}
  BY <1>3, <1>4, LLReturnMoves
<1>10. \A d \in Bufs : Coming(d) => Coming(d)'
  BY <1>7 DEF Coming
<1>11. PICK l : l = loc[p].ret
  OBVIOUS
<1>12. Reliable'
  <2> SUFFICES ASSUME NEW q \in Procs PROVE ReliesOn(pc[q], loc[q])'
    BY DEF Reliable
  <2>1. CASE q = p
    <3>1. pc'[p] = l /\ loc'[p] = c
      BY <1>9, <1>11, AfterMove
    <3>2. l \in {"bwait", "ahead"} => loc[p].tgt = loc[p].bh
      BY <1>4, <1>11, StoreHere DEF AtTransfer
    <3>3. l \in {"bwait", "ahead"} => Coming(c.bh)'
      BY <1>1, <1>7, <1>9, <3>2 DEF Coming
    <3>4. c.keep # NoBuf => Coming(c.keep)'
      <4>1. c.keep \in Bufs \union {NoBuf}
        BY DEF Locals
      <4>2. c.keep # NoBuf => Coming(c.keep)
        BY <1>9, StoreHere DEF ReliesOn
      <4> QED BY <4>1, <4>2, <1>10
    <3>5. /\ c.op \in {"none", "read", "write", "read_ahead", "sync"}
          /\ c.op \in {"none", "sync"} => c.first = NoBlock
      BY <1>9, StoreHere DEF ReliesOn
    <3>6. l \in {"sync", "bwait", "ahead", "aheaddone"}
      BY <1>9, <1>11
    <3>7. ReliesOn(l, c)'
      BY <3>3, <3>4, <3>5, <3>6 DEF ReliesOn
    <3> QED BY <2>1, <3>1, <3>7
  <2>2. CASE q # p
    <3>1. pc'[q] = pc[q] /\ loc'[q] = loc[q]
      BY <2>2, <1>9, AfterMove
    <3>2. \A d \in Bufs : HoldingAt(pc[q], loc[q], d) \/ loc[q].keep = d =>
            (Coming(d) => Coming(d)') /\ (buf[d].uptodate => buf'[d].uptodate)
      BY <1>7, <1>10
    <3>3. \A d \in Bufs : Waits(q, d) =>
            (~buf[d].uptodate => ~buf'[d].uptodate) /\ (buf[d].dirt => buf'[d].dirt)
      BY <2>2, <1>1, <1>7
    <3> QED BY <3>1, <3>2, <3>3, StillRelies
  <2> QED BY <2>1, <2>2
<1>13. ReadOnce'
  <2>1. \A d \in Bufs : buf'[d].dirt => buf'[d].uptodate
    BY <1>0, <1>7 DEF ReadOnce
  <2>2. ASSUME NEW t \in Slots, request'[t].bh \in Bufs
        PROVE  buf'[request'[t].bh].uptodate <=> request'[t].cmd = WRITE
    <3>1. CASE t = s
      BY <3>1, <1>0, <1>5, <1>7, <1>8, Numbers DEF ReadOnce
    <3>2. CASE t # s
      BY <2>2, <3>2, <1>0, <1>7, <1>8 DEF ReadOnce
    <3> QED BY <3>1, <3>2
  <2> QED BY <2>1, <2>2 DEF ReadOnce
<1>14. BufferIsLast'
  <2>1. last' = last
    BY <1>3
  <2> QED BY <2>1, <1>0, <1>7 DEF BufferIsLast
<1>15. DiskIsLast'
  <2> SUFFICES ASSUME NEW m \in Blocks, disk[m] # last[m]
               PROVE  \E e \in Bufs : buf'[e].block = m /\ (buf'[e].dirt \/ Writing(e)')
    BY <1>3 DEF DiskIsLast
  <2>1. PICK e \in Bufs : buf[e].block = m /\ (buf[e].dirt \/ Writing(e))
    BY <1>0 DEF DiskIsLast
  <2>2. CASE e = b
    <3>1. buf[b].dirt
      BY <2>1, <2>2, <1>1 DEF Writing
    <3>2. cmd = WRITE
      BY <3>1, <1>0, <1>5 DEF ReadOnce
    <3>3. Writing(b)'
      BY <3>2, <1>8 DEF Writing
    <3> QED BY <2>1, <2>2, <3>3, <1>7
  <2>3. CASE e # b
    <3>1. Writing(e) => Writing(e)'
      BY <1>1, <1>8, Numbers DEF Writing
    <3> QED BY <2>1, <2>3, <3>1, <1>7
  <2> QED BY <2>2, <2>3
<1>16. DriveHasIt'
  <2>1. (queue # <<>> => queue'[1] = queue[1]) /\ (queue = <<>> => queue'[1] = s)
    BY <1>3, <1>6, AddHead
  <2>2. CASE queue = <<>>
    <3>1. cmd = WRITE => xfer' = buf[b].data
      BY <2>2, <1>3
    <3>2. queue'[1] = s
      BY <2>1, <2>2
    <3> QED BY <3>1, <3>2, <1>7, <1>8 DEF DriveHasIt
  <2>3. CASE queue # <<>>
    <3>1. /\ queue[1] \in Slots /\ request[queue[1]].bh \in Bufs
          /\ Len(queue) \in Nat /\ Len(queue) >= 1
      BY <2>3, <1>0, InterruptFacts
    <3>2. queue[1] # s /\ request[queue[1]].bh # b
      BY <3>1, <1>1
    <3>3. request'[queue'[1]] = request[queue[1]] /\ xfer' = xfer
            /\ buf'[request[queue[1]].bh] = buf[request[queue[1]].bh]
      BY <2>1, <2>3, <3>1, <3>2, <1>3, <1>7, <1>8
    <3> QED BY <2>3, <3>3, <1>0 DEF DriveHasIt
  <2> QED BY <2>2, <2>3
<1>17. StoreStep
  <2>1. (l = "rel") = (pc[p] = "rel")
    BY <1>4, <1>9, <1>11
  <2>2. CallAt(l, c) = CallAt(pc[p], loc[p])
    BY <1>9, <2>1, Zenon DEF CallAt
  <2>3. callBar' = callBar
    BY <1>9, <1>11, <2>2, CallKept
  <2> QED BY <2>3, <1>3 DEF StoreStep
<1> QED BY <1>12, <1>13, <1>14, <1>15, <1>16, <1>17 DEF ContentsInv

(* A transfer ends.  What was read is what the disk has, and no dirty or    *)
(* queued buffer has anything newer; what was written is what the buffer    *)
(* held then, and if it has changed since it is marked for the next write.  *)
LEMMA InterruptStore ==
  ASSUME Healthy, StoreInv, HeadInv', NEW ok \in BOOLEAN, DiskInterrupt(ok)
  PROVE  ContentsInv' /\ StoreStep
<1>0. /\ TypeOK /\ RQP!QueueInv /\ HeadInv /\ FreeIsRead /\ LocksOwned /\ OneBufferPerBlock
      /\ Reliable /\ ReadOnce /\ BufferIsLast /\ DiskIsLast /\ DriveHasIt
  BY DEF StoreInv, CacheInv, HeadInv, ContentsInv
<1>1. queue # <<>> /\ queue' = Tail(queue) /\ ok /\ UNCHANGED <<pc, loc, val, last>>
  BY Zenon DEF DiskInterrupt, Healthy
<1>2. PICK s \in Slots : s = Head(queue) /\ s = queue[1] /\ request[s].bh \in Bufs
  BY <1>0, <1>1, InterruptFacts
<1>3. PICK b \in Bufs : b = request[s].bh
  BY <1>2
<1>4. (\A t \in Slots : request[t].bh = b => t = s) /\ \A q \in Procs : ~Waits(q, b)
  BY <1>0, <1>3 DEF LocksOwned
<1>5. PICK k \in Blocks : k = buf[b].block
  BY <1>0, <1>3 DEF LocksOwned, HeadInv, LockedHasBlock
<1>6. buf \in [Bufs -> BufferHeads] /\ disk \in [Blocks -> Vals] /\ queue \in Seq(Slots)
        /\ request \in [Slots -> [cmd : {READ, WRITE}, bh : Bufs \union {NoBuf}]]
  BY <1>0 DEF TypeOK
<1>7. PICK d : d = IF request[s].cmd = READ /\ ok THEN disk[k] ELSE buf[b].data
  BY Zenon
<1>8. PICK no, r : no = FALSE /\ r = [cmd |-> READ, bh |-> NoBuf]
  BY Zenon
<1>9. buf' = [buf EXCEPT ![b].uptodate = ok, ![b].lock = no, ![b].data = d]
  <2>1. buf' = [buf EXCEPT ![b].uptodate = ok, ![b].lock = FALSE,
                           ![b].data = IF request[s].cmd = READ /\ ok THEN disk[k] ELSE @]
    BY <1>2, <1>3, <1>5, Zenon DEF DiskInterrupt
  <2>2. [buf EXCEPT ![b].uptodate = ok, ![b].lock = FALSE][b].data = buf[b].data
    BY <1>6 DEF BufferHeads
  <2> QED BY <2>1, <2>2, <1>7, <1>8
<1>10. request' = [request EXCEPT ![s] = r]
  BY <1>2, <1>8, Zenon DEF DiskInterrupt
<1>11. PICK v : /\ v \in IF request[s].cmd = READ THEN {disk[k]} ELSE {xfer, buf[b].data}
                /\ disk' = [disk EXCEPT ![k] = v]
  <2>1. PICK v \in IF request[s].cmd = READ THEN {disk[k]}
                   ELSE {xfer, buf[b].data} \union (IF ok THEN {} ELSE {disk[k]}) :
          disk' = [disk EXCEPT ![k] = v]
    BY <1>2, <1>3, <1>5, Zenon DEF DiskInterrupt
  <2>2. v \in IF request[s].cmd = READ THEN {disk[k]} ELSE {xfer, buf[b].data}
    BY <1>1
  <2> QED BY <2>1, <2>2
<1>12. xfer' = IF Tail(queue) # <<>> /\ request[Head(Tail(queue))].cmd = WRITE
                 THEN buf[request[Head(Tail(queue))].bh].data ELSE NULL
  BY Zenon DEF DiskInterrupt
<1>13. /\ buf'[b].uptodate /\ buf'[b].data = d
       /\ \A e \in Bufs : e # b => buf'[e] = buf[e]
       /\ \A e \in Bufs : buf'[e].block = buf[e].block /\ buf'[e].dirt = buf[e].dirt
  BY <1>1, <1>6, <1>9 DEF BufferHeads
<1>14. /\ request'[s].cmd = READ /\ request'[s].bh = NoBuf
       /\ \A t \in Slots : t # s => request'[t] = request[t]
  BY <1>6, <1>8, <1>10
<1>15. disk'[k] = v /\ \A m \in Blocks : m # k => disk'[m] = disk[m]
  BY <1>6, <1>11
<1>16. \A e \in Bufs : buf[e].block = k => e = b
  BY <1>0, <1>5, Numbers DEF OneBufferPerBlock
<1>17. request[s].cmd = READ => ~buf[b].uptodate /\ ~buf[b].dirt /\ disk[k] = last[k]
  <2> SUFFICES ASSUME request[s].cmd = READ
               PROVE  ~buf[b].uptodate /\ ~buf[b].dirt /\ disk[k] = last[k]
    OBVIOUS
  <2>1. ~buf[b].uptodate /\ ~buf[b].dirt
    BY <1>0, <1>3, Numbers DEF ReadOnce
  <2>2. ~Writing(b)
    BY <1>4, Numbers DEF Writing
  <2> QED BY <2>1, <2>2, <1>0, <1>16 DEF DiskIsLast
<1>18. request[s].cmd = WRITE => buf[b].uptodate /\ buf[b].data = last[k]
  BY <1>0, <1>3, <1>5 DEF ReadOnce, BufferIsLast
<1>19. request[s].cmd \in {READ, WRITE}
  BY <1>6
<1>20. d = last[k]
  BY <1>1, <1>7, <1>17, <1>18, <1>19, Numbers
<1>21. Reliable'
  <2> SUFFICES ASSUME NEW q \in Procs PROVE ReliesOn(pc[q], loc[q])'
    BY DEF Reliable
  <2>1. pc'[q] = pc[q] /\ loc'[q] = loc[q]
    BY <1>1
  <2>2. \A e \in Bufs : HoldingAt(pc[q], loc[q], e) \/ loc[q].keep = e =>
          (Coming(e) => Coming(e)') /\ (buf[e].uptodate => buf'[e].uptodate)
    BY <1>13 DEF Coming
  <2>3. \A e \in Bufs : Waits(q, e) =>
          (~buf[e].uptodate => ~buf'[e].uptodate) /\ (buf[e].dirt => buf'[e].dirt)
    BY <1>4, <1>13
  <2> QED BY <2>1, <2>2, <2>3, StillRelies
<1>22. ReadOnce'
  <2>1. \A e \in Bufs : buf'[e].dirt => buf'[e].uptodate
    BY <1>0, <1>13 DEF ReadOnce
  <2>2. ASSUME NEW t \in Slots, request'[t].bh \in Bufs
        PROVE  buf'[request'[t].bh].uptodate <=> request'[t].cmd = WRITE
    <3>1. t # s
      BY <2>2, <1>14, Numbers
    <3>2. request'[t] = request[t] /\ request[t].bh # b
      BY <3>1, <1>4, <1>14
    <3> QED BY <2>2, <3>2, <1>0, <1>13 DEF ReadOnce
  <2> QED BY <2>1, <2>2 DEF ReadOnce
<1>23. BufferIsLast'
  BY <1>0, <1>1, <1>5, <1>13, <1>20 DEF BufferIsLast
<1>24. DiskIsLast'
  <2> SUFFICES ASSUME NEW m \in Blocks, disk'[m] # last[m]
               PROVE  \E e \in Bufs : buf'[e].block = m /\ (buf'[e].dirt \/ Writing(e)')
    BY <1>1 DEF DiskIsLast
  <2>1. CASE m = k
    <3>1. request[s].cmd = WRITE
      BY <2>1, <1>11, <1>15, <1>17, <1>19
    <3>2. buf[b].dirt
      <4>1. ~buf[b].dirt => xfer = buf[b].data
        BY <3>1, <1>0, <1>1, <1>2, <1>3 DEF DriveHasIt
      <4>2. v \in {xfer, buf[b].data}
        BY <3>1, <1>11, Numbers
      <4> QED BY <2>1, <3>1, <4>1, <4>2, <1>15, <1>18
    <3> QED BY <2>1, <3>2, <1>5, <1>13
  <2>2. CASE m # k
    <3>1. PICK e \in Bufs : buf[e].block = m /\ (buf[e].dirt \/ Writing(e))
      BY <2>2, <1>0, <1>15 DEF DiskIsLast
    <3>2. e # b
      BY <2>2, <3>1, <1>5
    <3>3. Writing(e) => Writing(e)'
      BY <3>2, <1>3, <1>14 DEF Writing
    <3> QED BY <3>1, <3>3, <1>13
  <2> QED BY <2>1, <2>2
<1>25. DriveHasIt'
  <2> SUFFICES ASSUME Tail(queue) # <<>>, request'[Tail(queue)[1]].cmd = WRITE
               PROVE  xfer' = buf'[request'[Tail(queue)[1]].bh].data
    BY <1>1 DEF DriveHasIt
  <2>1. PICK t \in Slots : t = Tail(queue)[1] /\ t = Head(Tail(queue)) /\ t # s
    <3>1. Len(queue) \in Nat /\ Len(queue) >= 1 /\ \A i \in 1 .. Len(queue) : queue[i] = queue[1] => i = 1
      BY <1>0, <1>1, InterruptFacts
    <3>2. Tail(queue) \in Seq(Slots) /\ Len(Tail(queue)) = Len(queue) - 1 /\ Len(Tail(queue)) # 0
      BY <1>1, <1>6
    <3>3. 2 \in 1 .. Len(queue) /\ Tail(queue)[1] = queue[2] /\ queue[2] \in Slots
      BY <3>1, <3>2, <1>6
    <3>4. Head(Tail(queue)) = Tail(queue)[1]
      BY <3>2
    <3> QED BY <3>1, <3>3, <3>4, <1>2
  <2>2. request'[t] = request[t] /\ request[t].cmd = WRITE
    BY <2>1, <1>14
  <2>3. request[t].bh \in Bufs /\ request[t].bh # b
    <3>1. request[t].bh # NoBuf
      BY <2>2, <1>0, Numbers DEF FreeIsRead
    <3>2. request[t].bh \in Bufs \union {NoBuf}
      BY <1>6
    <3> QED BY <3>1, <3>2, <2>1, <1>4
  <2>4. xfer' = buf[request[t].bh].data
    BY <2>1, <2>2, <1>12
  <2> QED BY <2>1, <2>2, <2>3, <2>4, <1>13
<1>26. StoreStep
  <2>1. callBar' = callBar
    BY <1>1, Zenon DEF callBar, CallAt
  <2> QED BY <2>1, <1>1 DEF StoreStep
<1> QED BY <1>21, <1>22, <1>23, <1>24, <1>25, <1>26 DEF ContentsInv
-----------------------------------------------------------------------------
(* The steps of a process in the kernel.                                    *)
LEMMA KernelStore ==
  ASSUME StoreInv, HeadInv', NEW p \in Procs, Kernel(p)
  PROVE  ContentsInv' /\ StoreStep
<1>1. ASSUME QuietStep(p) PROVE ContentsInv' /\ StoreStep
  BY <1>1, QuietKeeps
<1>2. CASE Hash(p) \/ HashWait(p) \/ Scan(p) \/ Repeat(p) \/ CleanVictim(p) \/ Wait(p)
  BY <1>1, <1>2, HashQuiet, HashWaitQuiet, ScanQuiet, RepeatQuiet, CleanVictimQuiet, WaitQuiet
<1>3. CASE SyncWait(p) \/ SyncWrite(p) \/ SyncInodes(p) \/ SyncDone(p)
  BY <1>1, <1>3, SyncWaitQuiet, SyncWriteQuiet, SyncInodesQuiet, SyncDoneQuiet
<1>4. CASE LLSkip(p) \/ LLNoSlot(p) \/ SlotWait(p) \/ SlotEnter(p) \/ SlotSleep(p)
  BY <1>1, <1>4, LLSkipQuiet, LLNoSlotQuiet, SlotWaitQuiet
<1>5. CASE \/ Bread(p) \/ BreadaFirst(p) \/ BreadaNext(p) \/ BreadaAhead(p) \/ BreadaDone(p)
            \/ BreadReturn(p)
  BY <1>1, <1>5, BreadQuiet, BreadaFirstQuiet, BreadaNextQuiet, BreadaAheadQuiet, BreadaDoneQuiet,
     BreadReturnQuiet
<1>6. CASE Take(p) \/ Submit(p)
  BY <1>6, TakeStore, SubmitStore
<1>7. CASE CopyOut(p) \/ Brelse(p)
  BY <1>7, CopyOutStore, BrelseStore
<1>8. ASSUME NEW v \in Vals, CopyIn(p, v) PROVE ContentsInv' /\ StoreStep
  BY <1>8, CopyInStore
<1>9. ~SetDirt(p) /\ \A v \in Vals : ~CopyLate(p, v)
  BY StoreHere DEF SetDirt, CopyLate, At, ReliesOn
<1> QED BY <1>2, <1>3, <1>4, <1>5, <1>6, <1>7, <1>8, <1>9 DEF Kernel

(* Every step keeps the invariant, and is one BlockStore may take.          *)
LEMMA StoreSteps ==
  ASSUME Healthy, StoreInv, [Next]_vars
  PROVE  StoreInv' /\ StoreStep
<1>1. CacheInv' /\ HeadInv'
  BY CacheStep DEF StoreInv, CacheInv
<1>2. ASSUME NEW p \in Procs, NEW k \in Blocks, NEW op \in Ops[p] \ {"sync"}, Begin(p, op, k)
      PROVE  ContentsInv' /\ StoreStep
  BY <1>1, <1>2, BeginStore
<1>3. ASSUME NEW p \in Procs, BeginSync(p) PROVE ContentsInv' /\ StoreStep
  BY <1>1, <1>3, BeginSyncQuiet, QuietKeeps
<1>4. ASSUME NEW p \in Procs, Kernel(p) PROVE ContentsInv' /\ StoreStep
  BY <1>1, <1>4, KernelStore
<1>5. ASSUME NEW ok \in BOOLEAN, DiskInterrupt(ok) PROVE ContentsInv' /\ StoreStep
  BY <1>1, <1>5, InterruptStore
<1>6. ASSUME UNCHANGED vars PROVE ContentsInv' /\ StoreStep
  <2>1. UNCHANGED <<buf, request, queue, xfer, disk, pc, loc, val, last>>
    BY <1>6 DEF vars, bvars, dvars, pvars
  <2>2. Reliable' /\ ReadOnce' /\ BufferIsLast'
    BY <2>1 DEF StoreInv, ContentsInv, Reliable, ReliesOn, Coming, ReadOnce, BufferIsLast
  <2>3. DiskIsLast' /\ DriveHasIt'
    BY <2>1 DEF StoreInv, ContentsInv, DiskIsLast, Writing, DriveHasIt
  <2>4. callBar' = callBar
    BY <2>1, Zenon DEF callBar, CallAt
  <2>5. ContentsInv'
    BY <2>2, <2>3 DEF ContentsInv
  <2>6. val' = val /\ last' = last
    BY <2>1
  <2>7. StoreStep
    BY <2>4, <2>6, Zenon DEF StoreStep
  <2> QED BY <2>5, <2>7
<1>7. ContentsInv' /\ StoreStep
  BY <1>2, <1>3, <1>4, <1>5, <1>6 DEF Next
<1> QED BY <1>1, <1>7 DEF StoreInv

(* buffer_init() and blk_dev_init().                                        *)
LEMMA StoreInit ==
  ASSUME Init
  PROVE  StoreInv
<1>1. \A b \in Bufs : ~buf[b].dirt /\ ~buf[b].uptodate
  BY DEF Init
<1>2. \A s \in Slots : request[s].bh = NoBuf
  BY DEF Init
<1>3. \A p \in Procs : pc[p] = "user" /\ loc[p] = NoLoc
  BY DEF Init
<1>4. NoLoc.op = "none" /\ NoLoc.keep = NoBuf /\ NoLoc.first = NoBlock
  BY NoLocFacts DEF NoLoc
<1>5. Reliable
  BY <1>3, <1>4 DEF Reliable, ReliesOn
<1>6. ReadOnce /\ BufferIsLast
  BY <1>1, <1>2, Numbers DEF ReadOnce, BufferIsLast
<1>7. DiskIsLast /\ DriveHasIt
  BY DEF Init, DiskIsLast, DriveHasIt
<1> QED BY <1>5, <1>6, <1>7, CacheInit DEF StoreInv, ContentsInv

(* The invariant of the contents.                                           *)
LEMMA StoreAlways ==
  ASSUME Healthy
  PROVE  Spec => []StoreInv
<1>1. Init => StoreInv
  BY StoreInit
<1>2. StoreInv /\ [Next]_vars => StoreInv'
  BY StoreSteps
<1> QED BY <1>1, <1>2, PTL DEF Spec

(* While the disk works and nothing is written past bread(), an unused,     *)
(* clean and unlocked buffer, which getblk() may take, holds nothing that   *)
(* the disk does not have, whoever else writes, reads or syncs at the time  *)
(* (buffer.c:229-246).                                                      *)
THEOREM CleanStaysOnDisk ==
  ASSUME Healthy
  PROVE  Spec => []CleanIsOnDisk
<1>1. ASSUME StoreInv PROVE CleanIsOnDisk
  <2> SUFFICES ASSUME NEW b \in Bufs, buf[b].block # NoBlock, buf[b].uptodate, ~buf[b].dirt,
                      ~buf[b].lock
               PROVE  buf[b].data = disk[buf[b].block]
    BY DEF CleanIsOnDisk
  <2>0. TypeOK /\ LocksOwned /\ OneBufferPerBlock /\ BufferIsLast /\ DiskIsLast
    BY <1>1 DEF StoreInv, CacheInv, HeadInv, ContentsInv
  <2>1. buf[b].block \in Blocks /\ buf[b].data = last[buf[b].block]
    BY <2>0 DEF BufferIsLast
  <2>2. ~Writing(b)
    BY <2>0 DEF LocksOwned, Writing
  <2>3. \A e \in Bufs : buf[e].block = buf[b].block => e = b
    BY <2>0 DEF OneBufferPerBlock
  <2> QED BY <2>0, <2>1, <2>2, <2>3 DEF DiskIsLast
<1>2. Spec => []StoreInv
  BY StoreAlways
<1> QED BY <1>1, <1>2, PTL

(* Under the same conditions the cache and the disk together are one cell   *)
(* per block: no eviction, write-back or read-ahead loses a write, and a    *)
(* reader gets what was written last (buffer.c:183-281).                    *)
THEOREM ImplementsBlockStore ==
  ASSUME Healthy
  PROVE  Spec => BlockStoreSpec
<1>1. Init => Store!Init
  <2> SUFFICES ASSUME Init PROVE Store!Init
    OBVIOUS
  <2>1. last \in [Blocks -> Vals] /\ val = [p \in Procs |-> NULL]
    BY DEF Init
  <2>2. \A p \in Procs : CallAt(pc[p], loc[p]) = Store!Idle
    <3>1. NoLoc.op = "none" /\ NoLoc.first = NoBlock
      BY DEF NoLoc
    <3>2. \A p \in Procs : pc[p] = "user" /\ loc[p] = NoLoc
      BY DEF Init
    <3> QED BY <3>1, <3>2, IdleCall
  <2>3. callBar = [p \in Procs |-> Store!Idle]
    BY <2>2, Zenon DEF callBar
  <2> QED BY <2>1, <2>3, Zenon DEF Store!Init, callBar, CallAt, CallOf
<1>2. StoreInv /\ [Next]_vars => [Store!Next]_(Store!vars)
  <2> SUFFICES ASSUME StoreInv, [Next]_vars PROVE [Store!Next]_(Store!vars)
    OBVIOUS
  <2>1. StoreStep
    BY StoreSteps
  <2>2. CASE callBar' = callBar /\ val' = val /\ last' = last
    BY <2>2, Zenon DEF callBar, CallAt, CallOf, Store!vars
  <2>3. CASE ~(callBar' = callBar /\ val' = val /\ last' = last)
    BY <2>1, <2>3, Zenon DEF StoreStep, Store!Next
  <2> QED BY <2>2, <2>3
<1>3. Spec => []StoreInv
  BY StoreAlways
<1> QED BY <1>1, <1>2, <1>3, PTL DEF Spec, BlockStoreSpec, Store!Spec
=============================================================================
