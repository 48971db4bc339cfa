------------------------------ MODULE BlockStore ------------------------------
(***************************************************************************)
(* What the buffer cache promises the file system while the disk works: a  *)
(* block is one memory cell.  A call reads or writes its block once, at    *)
(* some moment between its beginning and its return.                       *)
(***************************************************************************)
EXTENDS Integers

CONSTANTS Procs, Blocks, Vals, None

VARIABLES
  mem,    \* contents of each block
  call,   \* what each process is doing: the operation, the block, and
          \* whether it has taken effect
  val     \* what a process has read, until it returns

vars == <<mem, call, val>>

Idle == [op |-> "none", block |-> -1, done |-> FALSE]

Init ==
  /\ mem \in [Blocks -> Vals]
  /\ call = [p \in Procs |-> Idle]
  /\ val = [p \in Procs |-> None]

Call(p, op, k) ==
  /\ call[p] = Idle
  /\ call' = [call EXCEPT ![p] = [op |-> op, block |-> k, done |-> FALSE]]
  /\ UNCHANGED <<mem, val>>

Write(p, v) ==
  /\ call[p].op = "write" /\ ~call[p].done
  /\ mem' = [mem EXCEPT ![call[p].block] = v]
  /\ call' = [call EXCEPT ![p].done = TRUE]
  /\ UNCHANGED val

Read(p) ==
  /\ call[p].op = "read" /\ ~call[p].done
  /\ val' = [val EXCEPT ![p] = mem[call[p].block]]
  /\ call' = [call EXCEPT ![p].done = TRUE]
  /\ UNCHANGED mem

Return(p) ==
  /\ call[p].done
  /\ call' = [call EXCEPT ![p] = Idle]
  /\ val' = [val EXCEPT ![p] = None]
  /\ UNCHANGED mem

Next ==
  \E p \in Procs :
    \/ \E op \in {"read", "write"}, k \in Blocks : Call(p, op, k)
    \/ \E v \in Vals : Write(p, v)
    \/ Read(p)
    \/ Return(p)

Spec == Init /\ [][Next]_vars
=============================================================================
