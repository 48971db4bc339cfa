---------------------------- MODULE RequestQueue ----------------------------
(***************************************************************************)
(* linux-0.11/kernel/blk_drv/ll_rw_blk.c and blk.h: the table of block     *)
(* device requests and the elevator that orders them.  A request stands    *)
(* for the transfer of one block; a block number stands for a device and a *)
(* sector, which IN_ORDER compares in this order.                          *)
(*                                                                         *)
(* The buffer cache keeps at most one request per block (a buffer is       *)
(* locked while it is queued, and a block has one buffer): BufferCache.tla *)
(* shows that, and that its use of the table implements this module.       *)
(***************************************************************************)
EXTENDS Integers, Sequences, SequencesExt

CONSTANTS
  Blocks,       \* block numbers
  NR_REQUEST    \* entries of the request table

ASSUME RequestAssumption ==
  /\ Blocks \subseteq Nat
  /\ NR_REQUEST \in Nat \ {0}

VARIABLES
  request,   \* the table: Free (dev = -1), or a command for a block
  queue      \* current_request and its next pointers, as slots of the table

rqvars == <<request, queue>>

READ == 0
WRITE == 1

Slots == 1 .. NR_REQUEST
Free == [cmd |-> READ, block |-> -1]
Requests == [cmd : {READ, WRITE}, block : Blocks]

IN_ORDER(s1, s2) ==
  \/ s1.cmd < s2.cmd
  \/ s1.cmd = s2.cmd /\ s1.block < s2.block

(* make_request()'s search, from the top of the table down; the last third  *)
(* of it is only for reads.  0 when there is no free slot.                  *)
SlotLimit(cmd) == IF cmd = READ THEN NR_REQUEST ELSE (NR_REQUEST * 2) \div 3

FindSlot(rq, cmd) == SelectLastInSubSeq(rq, 1, SlotLimit(cmd), LAMBDA r : r = Free)

(* Slips in the elevator: without the test for the end of a sweep, and as a *)
(* plain sorted list.                                                       *)
StopAtNoWrap(r, req) ==
  LET Stops(i) == IN_ORDER(r[i], req) /\ IN_ORDER(req, r[i + 1])
      I == {i \in 1 .. (Len(r) - 1) : Stops(i)}
  IN IF I = {} THEN Len(r) ELSE Min(I)

StopAtSorted(r, req) ==
  LET I == {i \in 1 .. (Len(r) - 1) : IN_ORDER(req, r[i + 1])}
  IN IF I = {} THEN Len(r) ELSE Min(I)

(* Where add_request() stops in the list of requests r: behind the current  *)
(* request at the earliest, at the end of the list at the latest.           *)
StopAt(r, req) ==
  LET Stops(i) ==
        /\ IN_ORDER(r[i], req) \/ ~IN_ORDER(r[i], r[i + 1])
        /\ IN_ORDER(req, r[i + 1])
      I == {i \in 1 .. (Len(r) - 1) : Stops(i)}
  IN IF I = {} THEN Len(r) ELSE Min(I)

(* add_request(), for the request that has just been put in slot s of rq.   *)
AddRequest(rq, q, s) ==
  InsertAt(q, StopAt([i \in 1 .. Len(q) |-> rq[q[i]]], rq[s]) + 1, s)

Init ==
  /\ request = [s \in Slots |-> Free]
  /\ queue = <<>>

Pending(b) == \E s \in Slots : request[s] # Free /\ request[s].block = b

(* make_request() of a block that found a slot.                             *)
MakeRequest(cmd, b) ==
  /\ ~Pending(b)
  /\ FindSlot(request, cmd) # 0
  /\ request' = [request EXCEPT ![FindSlot(request, cmd)] = [cmd |-> cmd, block |-> b]]
  /\ queue' = AddRequest(request', queue, FindSlot(request, cmd))

(* end_request(): the current request is finished, the next one starts.     *)
EndRequest ==
  /\ queue # <<>>
  /\ request' = [request EXCEPT ![Head(queue)] = Free]
  /\ queue' = Tail(queue)

Next ==
  \/ \E cmd \in {READ, WRITE}, b \in Blocks : MakeRequest(cmd, b)
  \/ EndRequest

Spec == Init /\ [][Next]_rqvars

(* The disk interrupts once for every command it was given.                 *)
FairSpec == Spec /\ WF_rqvars(EndRequest)
-----------------------------------------------------------------------------
(* The table and the list agree: the list holds every used slot once, and   *)
(* no free one (what end_request(), blk.h:123-124, relies on).              *)
TypeOK ==
  /\ request \in [Slots -> Requests \union {Free}]
  /\ queue \in Seq(Slots)
  /\ \A i, j \in 1 .. Len(queue) : queue[i] = queue[j] => i = j
  /\ \A s \in Slots : (request[s] # Free) <=> (\E i \in 1 .. Len(queue) : queue[i] = s)

(* The elevator (blk.h:35-43, ll_rw_blk.c:78-84): behind the request being  *)
(* served the list is one sorted sweep followed by at most one more, so     *)
(* there is a single place where the order breaks.                          *)
TwoSweeps ==
  \A i, j \in 1 .. (Len(queue) - 1) :
    /\ ~IN_ORDER(request[queue[i]], request[queue[i + 1]])
    /\ ~IN_ORDER(request[queue[j]], request[queue[j + 1]])
    => i = j

(* Requests that arrive later may overtake, but none is overtaken for ever: *)
(* every request is finished (ll_rw_blk.c:64-86).                           *)
EveryRequestServed == \A s \in Slots : request[s] # Free ~> request[s] = Free

(* The table and the list agree, and the list is in the order of the        *)
(* elevator (ll_rw_blk.c:64-86, blk.h:123-124).                             *)
ElevatorOrder == TypeOK /\ TwoSweeps
=============================================================================
