----------------------------- MODULE PipeProofs -----------------------------
(***************************************************************************)
(* Proofs about Pipe, for any number of processes and any size of the      *)
(* ring: the counts of ends are right and nobody sleeps who could go on    *)
(* (EndsConsistent), and a pipe whose copies do not fault is a queue       *)
(* (FirstInFirstOut).                                                      *)
(***************************************************************************)
EXTENDS Pipe, SequenceTheorems, FiniteSetTheorems, TLAPS

(* What a process has of the pipe, by where it is: nothing once it has      *)
(* exited; both ends, which nobody else has, while sys_pipe() waits for an  *)
(* inode; and a part of the page while it copies.                           *)
ProcRight(p) ==
  /\ pc[p] = "none" => fds[p] = {}
  /\ pc[p] = "pipe" => i_count = 0 /\ (\A x \in Ends : f_count[x] = 1) /\ fds[p] = Ends
  /\ p \in asleep => pc[p] \in Ends
  /\ pc[p] \in {"rcopy", "wcopy"} => faults /\ loc[p].pos + loc[p].chars <= PAGE_SIZE

(* The numbers of the bytes that were read, and of those in the ring.       *)
RingRight ==
  ~faults =>
    /\ Len(got) + PIPE_SIZE = sent
    /\ \A i \in 1 .. Len(got) : got[i] = i
    /\ \A i \in 0 .. PIPE_SIZE - 1 : ring[Masked(tail + i)] = Len(got) + i + 1

(* The inductive invariant.                                                 *)
Inv ==
  /\ EndsConsistent
  /\ \A p \in Procs : ProcRight(p)
  /\ RingRight
-----------------------------------------------------------------------------
(* Sets of processes and of ends.                                           *)
One(b) == IF b THEN 1 ELSE 0
Owners(x) == {p \in Procs : x \in fds[p]}

(* Processes are finite in number.                                          *)
LEMMA FiniteProcs == IsFiniteSet(Procs)
BY PipeAssumption

(* The size of a set when only whether a is in it changes.                  *)
LEMMA OneChanges ==
  ASSUME NEW T, IsFiniteSet(T), NEW A \in SUBSET T, NEW B \in SUBSET T, NEW a \in T,
         \A b \in T \ {a} : b \in A <=> b \in B
  PROVE  /\ Cardinality(A) \in Nat /\ Cardinality(B) \in Nat
         /\ Cardinality(B) + One(a \in A) = Cardinality(A) + One(a \in B)
<1>1. IsFiniteSet(A) /\ IsFiniteSet(B)
  BY FS_Subset
<1>2. Cardinality(A) \in Nat /\ Cardinality(B) \in Nat
  BY <1>1, FS_CardinalityType
<1>3. CASE a \in A <=> a \in B
  <2>1. A = B
    BY <1>3
  <2> QED BY <1>2, <1>3, <2>1 DEF One
<1>4. CASE a \in A /\ a \notin B
  <2>1. A = B \union {a}
    BY <1>4
  <2>2. Cardinality(A) = Cardinality(B) + 1
    BY <1>1, <1>4, <2>1, FS_AddElement
  <2> QED BY <1>2, <1>4, <2>2 DEF One
<1>5. CASE a \notin A /\ a \in B
  <2>1. B = A \union {a}
    BY <1>5
  <2>2. Cardinality(B) = Cardinality(A) + 1
    BY <1>1, <1>5, <2>1, FS_AddElement
  <2> QED BY <1>2, <1>5, <2>2 DEF One
<1> QED BY <1>3, <1>4, <1>5

(* Sets without an element, and sets with one.                              *)
LEMMA SmallSets ==
  ASSUME NEW S, IsFiniteSet(S)
  PROVE  /\ Cardinality(S) \in Nat
         /\ Cardinality(S) = 0 <=> S = {}
         /\ Cardinality(S) = 1 => \A a, b \in S : a = b
BY FS_CardinalityType, FS_EmptySet, FS_Singleton

(* The number of ends in a set of them.                                     *)
LEMMA EndsCounted ==
  ASSUME NEW S \in SUBSET Ends
  PROVE  Cardinality(S) = One("r" \in S) + One("w" \in S)
<1>1. S \in {{}, {"r"}, {"w"}, {"r"} \union {"w"}}
  BY DEF Ends
<1>2. Cardinality({}) = 0 /\ Cardinality({"r"}) = 1 /\ Cardinality({"w"}) = 1
  BY FS_EmptySet, FS_Singleton
<1>3. Cardinality({"r"} \union {"w"}) = 2
  <2>1. IsFiniteSet({"r"}) /\ "w" \notin {"r"}
    BY FS_Singleton
  <2> QED BY <1>2, <2>1, FS_AddElement
<1> QED BY <1>1, <1>2, <1>3 DEF One

(* Whoever has an end counts.                                               *)
LEMMA OwnersCounted ==
  ASSUME TypeOK, CountsAreEnds, NEW x \in Ends
  PROVE  /\ IsFiniteSet(Owners(x)) /\ f_count[x] = Cardinality(Owners(x)) /\ f_count[x] \in Nat
         /\ f_count[x] = 0 <=> \A p \in Procs : x \notin fds[p]
         /\ f_count[x] = 1 => \A p, q \in Procs : x \in fds[p] /\ x \in fds[q] => p = q
<1>1. IsFiniteSet(Owners(x))
  <2>1. Owners(x) \subseteq Procs
    BY DEF Owners
  <2> QED BY <2>1, FiniteProcs, FS_Subset
<1>2. f_count[x] = Cardinality(Owners(x))
  BY DEF CountsAreEnds, Owners
<1>3. \A p \in Procs : p \in Owners(x) <=> x \in fds[p]
  BY DEF Owners
<1>4. Owners(x) = {} <=> \A p \in Procs : p \notin Owners(x)
  BY DEF Owners
<1> QED BY <1>1, <1>2, <1>3, <1>4, SmallSets

(* The owners of x when p is the only process whose descriptors change.     *)
LEMMA OwnersChange ==
  ASSUME TypeOK, CountsAreEnds, NEW x \in Ends, NEW p \in Procs,
         \A q \in Procs \ {p} : fds'[q] = fds[q]
  PROVE  /\ Cardinality(Owners(x)') \in Nat
         /\ Cardinality(Owners(x)') + One(x \in fds[p]) = f_count[x] + One(x \in fds'[p])
<1>1. f_count[x] = Cardinality(Owners(x))
  BY OwnersCounted
<1>2. /\ Owners(x) \in SUBSET Procs /\ Owners(x)' \in SUBSET Procs
      /\ \A q \in Procs \ {p} : q \in Owners(x) <=> q \in Owners(x)'
      /\ p \in Owners(x) <=> x \in fds[p]
      /\ p \in Owners(x)' <=> x \in fds'[p]
  BY DEF Owners
<1>3. /\ Cardinality(Owners(x)') \in Nat
      /\ Cardinality(Owners(x)') + One(p \in Owners(x)) = Cardinality(Owners(x)) + One(p \in Owners(x)')
  BY <1>2, OneChanges, FiniteProcs
<1>4. One(p \in Owners(x)) = One(x \in fds[p]) /\ One(p \in Owners(x)') = One(x \in fds'[p])
  BY <1>2 DEF One
<1> QED BY <1>1, <1>3, <1>4
-----------------------------------------------------------------------------
(* Arithmetic of the ring.                                                  *)
LEMMA MaskedFacts ==
  ASSUME NEW n \in Int
  PROVE  /\ Masked(n) \in Ring
         /\ n \in Ring => Masked(n) = n
         /\ n \in PAGE_SIZE .. 2 * PAGE_SIZE - 1 => Masked(n) = n - PAGE_SIZE
         /\ n \in -PAGE_SIZE .. -1 => Masked(n) = n + PAGE_SIZE
<1>1. PAGE_SIZE \in Nat /\ PAGE_SIZE > 1
  BY PipeAssumption
<1>2. n % PAGE_SIZE \in 0 .. PAGE_SIZE - 1
  BY <1>1
<1>3. n \in Nat /\ n < PAGE_SIZE => n % PAGE_SIZE = n
  BY <1>1
<1>4. n \in Nat /\ n >= PAGE_SIZE /\ n < 2 * PAGE_SIZE => n % PAGE_SIZE = n - PAGE_SIZE
  BY <1>1
<1>5. n < 0 /\ n >= -PAGE_SIZE => n % PAGE_SIZE = n + PAGE_SIZE
  BY <1>1
<1> QED BY <1>1, <1>2, <1>3, <1>4, <1>5 DEF Masked, Ring

(* The bytes between the tail t and the head h.                             *)
Between(t, h) == Masked(h - t)

(* They are the distance from t to h around the ring.                       *)
LEMMA BetweenFacts ==
  ASSUME NEW t \in Ring, NEW h \in Ring
  PROVE  /\ Between(t, h) \in Ring
         /\ Between(t, h) = IF t <= h THEN h - t ELSE h - t + PAGE_SIZE
<1>1. PAGE_SIZE \in Nat /\ PAGE_SIZE > 1 /\ t \in Nat /\ h \in Nat /\ t < PAGE_SIZE /\ h < PAGE_SIZE
  BY PipeAssumption DEF Ring
<1>2. h - t \in Int /\ (t <= h => h - t \in Ring) /\ (~(t <= h) => h - t \in -PAGE_SIZE .. -1)
  BY <1>1 DEF Ring
<1> QED BY <1>2, MaskedFacts DEF Between

(* Place i of the ring from t on.                                           *)
LEMMA PlaceFacts ==
  ASSUME NEW t \in Ring, NEW i \in Nat, i <= PAGE_SIZE
  PROVE  /\ Masked(t + i) \in Ring
         /\ Masked(t + i) = IF t + i < PAGE_SIZE THEN t + i ELSE t + i - PAGE_SIZE
<1>1. PAGE_SIZE \in Nat /\ PAGE_SIZE > 1 /\ t \in Nat /\ t < PAGE_SIZE
  BY PipeAssumption DEF Ring
<1>2. t + i \in Int /\ (t + i < PAGE_SIZE => t + i \in Ring)
      /\ (~(t + i < PAGE_SIZE) => t + i \in PAGE_SIZE .. 2 * PAGE_SIZE - 1)
  BY <1>1 DEF Ring
<1>3. PICK n \in Int : n = t + i
  BY <1>2
<1>4. /\ Masked(n) \in Ring
      /\ n \in Ring => Masked(n) = n
      /\ n \in PAGE_SIZE .. 2 * PAGE_SIZE - 1 => Masked(n) = n - PAGE_SIZE
  BY MaskedFacts
<1>5. CASE n < PAGE_SIZE
  BY <1>2, <1>3, <1>4, <1>5
<1>6. CASE ~(n < PAGE_SIZE)
  <2>1. n \in PAGE_SIZE .. 2 * PAGE_SIZE - 1
    BY <1>1, <1>3, <1>6
  <2>2. Masked(n) = n - PAGE_SIZE
    BY <1>4, <2>1
  <2> QED BY <1>1, <1>3, <1>4, <1>6, <2>2
<1> QED BY <1>5, <1>6

(* What a tail at u = t + n makes of the n bytes at t and those behind.     *)
TailMoved(t, h, n, u) ==
  /\ u \in Ring /\ Between(u, h) = Between(t, h) - n
  /\ \A i \in 0 .. n - 1 : t + i \in Ring /\ Masked(t + i) = t + i
  /\ \A i \in 0 .. Between(t, h) - n - 1 : Masked(u + i) = Masked(t + (n + i))

(* Taking n bytes at the tail.                                              *)
LEMMA TailMoves ==
  ASSUME NEW t \in Ring, NEW h \in Ring, NEW n \in Nat,
         n <= PAGE_SIZE - t, n <= Between(t, h)
  PROVE  TailMoved(t, h, n, Masked(t + n))
<1>1. PAGE_SIZE \in Nat /\ PAGE_SIZE > 1 /\ t \in Nat /\ h \in Nat /\ t < PAGE_SIZE /\ h < PAGE_SIZE
  BY PipeAssumption DEF Ring
<1>2. /\ Between(t, h) \in Nat /\ Between(t, h) < PAGE_SIZE
      /\ Between(t, h) = IF t <= h THEN h - t ELSE h - t + PAGE_SIZE
  BY <1>1, BetweenFacts DEF Ring
<1>3. /\ Masked(t + n) \in Ring
      /\ Masked(t + n) = IF t + n < PAGE_SIZE THEN t + n ELSE t + n - PAGE_SIZE
  BY <1>1, <1>2, PlaceFacts
<1>4. Between(Masked(t + n), h) = IF Masked(t + n) <= h THEN h - Masked(t + n)
                                  ELSE h - Masked(t + n) + PAGE_SIZE
  BY <1>3, BetweenFacts
<1>5. Between(Masked(t + n), h) = Between(t, h) - n
  BY <1>1, <1>2, <1>3, <1>4
<1>6. ASSUME NEW i \in 0 .. n - 1 PROVE t + i \in Ring /\ Masked(t + i) = t + i
  <2>1. t + i \in Ring /\ t + i \in Int
    BY <1>1 DEF Ring
  <2> QED BY <2>1, MaskedFacts
<1>7. ASSUME NEW i \in 0 .. Between(t, h) - n - 1
      PROVE  Masked(Masked(t + n) + i) = Masked(t + (n + i))
  <2>1. i \in Nat /\ i <= PAGE_SIZE /\ n + i \in Nat /\ n + i <= PAGE_SIZE
    BY <1>1, <1>2
  <2>2. Masked(Masked(t + n) + i) = IF Masked(t + n) + i < PAGE_SIZE THEN Masked(t + n) + i
                                    ELSE Masked(t + n) + i - PAGE_SIZE
    BY <1>3, <2>1, PlaceFacts
  <2>3. Masked(t + (n + i)) = IF t + (n + i) < PAGE_SIZE THEN t + (n + i) ELSE t + (n + i) - PAGE_SIZE
    BY <2>1, PlaceFacts
  <2> QED BY <1>1, <1>2, <1>3, <2>1, <2>2, <2>3
<1> QED BY <1>3, <1>5, <1>6, <1>7 DEF TailMoved

(* What a head at u = h + n makes of the bytes up to h and the n at h.      *)
HeadMoved(t, h, n, u) ==
  /\ u \in Ring /\ Between(t, u) = Between(t, h) + n
  /\ \A i \in 0 .. Between(t, h) - 1 : Masked(t + i) \in Ring \ (h .. h + n - 1)
  /\ \A i \in Between(t, h) .. Between(t, h) + n - 1 :
       /\ Masked(t + i) = h + (i - Between(t, h))
       /\ Masked(t + i) \in Ring /\ Masked(t + i) \in h .. h + n - 1

(* Putting n bytes at the head.                                             *)
LEMMA HeadMoves ==
  ASSUME NEW t \in Ring, NEW h \in Ring, NEW n \in Nat,
         n <= PAGE_SIZE - h, n <= PAGE_SIZE - 1 - Between(t, h)
  PROVE  HeadMoved(t, h, n, Masked(h + n))
<1>1. PAGE_SIZE \in Nat /\ PAGE_SIZE > 1 /\ t \in Nat /\ h \in Nat /\ t < PAGE_SIZE /\ h < PAGE_SIZE
  BY PipeAssumption DEF Ring
<1>2. /\ Between(t, h) \in Nat /\ Between(t, h) < PAGE_SIZE
      /\ Between(t, h) = IF t <= h THEN h - t ELSE h - t + PAGE_SIZE
  BY <1>1, BetweenFacts DEF Ring
<1>3. /\ Masked(h + n) \in Ring
      /\ Masked(h + n) = IF h + n < PAGE_SIZE THEN h + n ELSE h + n - PAGE_SIZE
  BY <1>1, <1>2, PlaceFacts
<1>4. Between(t, Masked(h + n)) = IF t <= Masked(h + n) THEN Masked(h + n) - t
                                  ELSE Masked(h + n) - t + PAGE_SIZE
  BY <1>3, BetweenFacts
<1>5. Between(t, Masked(h + n)) = Between(t, h) + n
  BY <1>1, <1>2, <1>3, <1>4
<1>6. ASSUME NEW i \in Nat, i < Between(t, h) + n
      PROVE  /\ Masked(t + i) \in Ring
             /\ Masked(t + i) = IF t + i < PAGE_SIZE THEN t + i ELSE t + i - PAGE_SIZE
  <2>1. i <= PAGE_SIZE
    BY <1>1, <1>2, <1>6
  <2> QED BY <2>1, PlaceFacts
<1>7. ASSUME NEW i \in 0 .. Between(t, h) - 1 PROVE Masked(t + i) \in Ring \ (h .. h + n - 1)
  <2>1. i \in Nat /\ i < Between(t, h) + n
    BY <1>2
  <2>2. /\ Masked(t + i) \in Ring
        /\ Masked(t + i) = IF t + i < PAGE_SIZE THEN t + i ELSE t + i - PAGE_SIZE
    BY <1>6, <2>1
  <2>3. Masked(t + i) \notin h .. h + n - 1
    BY <1>1, <1>2, <2>1, <2>2
  <2> QED BY <2>2, <2>3
<1>8. ASSUME NEW i \in Between(t, h) .. Between(t, h) + n - 1
      PROVE  /\ Masked(t + i) = h + (i - Between(t, h))
             /\ Masked(t + i) \in Ring /\ Masked(t + i) \in h .. h + n - 1
  <2>1. i \in Nat /\ i < Between(t, h) + n
    BY <1>2
  <2>2. /\ Masked(t + i) \in Ring
        /\ Masked(t + i) = IF t + i < PAGE_SIZE THEN t + i ELSE t + i - PAGE_SIZE
    BY <1>6, <2>1
  <2>3. Masked(t + i) = h + (i - Between(t, h))
    BY <1>1, <1>2, <2>1, <2>2
  <2> QED BY <1>1, <1>2, <2>1, <2>2, <2>3
<1> QED BY <1>3, <1>5, <1>7, <1>8 DEF HeadMoved

(* PIPE_SIZE is that distance.                                              *)
LEMMA SizeFacts ==
  ASSUME TypeOK
  PROVE  /\ PIPE_SIZE = Between(tail, head) /\ PIPE_SIZE \in Nat /\ PIPE_SIZE < PAGE_SIZE
         /\ Room("r") \in Nat /\ Room("w") \in Nat
<1>1. tail \in Ring /\ head \in Ring /\ PAGE_SIZE \in Nat
  BY PipeAssumption DEF TypeOK
<1>2. PIPE_SIZE = Between(tail, head)
  BY DEF PIPE_SIZE, Between, Masked
<1>3. Between(tail, head) \in Ring
  BY <1>1, BetweenFacts
<1> QED BY <1>1, <1>2, <1>3 DEF Room, Ring
-----------------------------------------------------------------------------
(* Steps that leave the counts of ends alone.                               *)

(* The counts stay right as long as p, inside a call, has its end.          *)
LEMMA CountsKept ==
  ASSUME TypeOK, CountsAreEnds, NEW p \in Procs, NEW l \in {"user", "r", "w", "rcopy", "wcopy"},
         pc[p] \notin {"none", "pipe"}, pc' = [pc EXCEPT ![p] = l], UNCHANGED counts,
         l \in {"r", "rcopy"} => "r" \in fds[p],
         l \in {"w", "wcopy"} => "w" \in fds[p]
  PROVE  CountsAreEnds'
<1>1. i_count' = i_count /\ f_count' = f_count /\ fds' = fds
  BY DEF counts
<1>2. pc \in [Procs -> {"none", "user", "pipe", "rcopy", "wcopy"} \union Ends]
  BY DEF TypeOK
<1>3. \A x \in Ends : f_count'[x] = Cardinality({q \in Procs : x \in fds'[q]})
  BY <1>1 DEF CountsAreEnds
<1>4. \A q \in Procs : pc'[q] = "pipe" <=> pc[q] = "pipe"
  BY <1>2
<1>5. (~\E q \in Procs : pc'[q] = "pipe") => i_count' = Cardinality({x \in Ends : f_count'[x] > 0})
  BY <1>1, <1>4 DEF CountsAreEnds
<1>6. ASSUME NEW q \in Procs
      PROVE  /\ pc'[q] \in {"r", "rcopy"} => "r" \in fds'[q]
             /\ pc'[q] \in {"w", "wcopy"} => "w" \in fds'[q]
  BY <1>1, <1>2 DEF CountsAreEnds
<1> QED BY <1>3, <1>5, <1>6 DEF CountsAreEnds

(* A process that does nothing stays right.                                 *)
LEMMA OtherRight ==
  ASSUME NEW q \in Procs, ProcRight(q), UNCHANGED <<counts, faults>>,
         pc'[q] = pc[q], loc'[q] = loc[q], q \in asleep' => q \in asleep
  PROVE  ProcRight(q)'
BY DEF ProcRight, counts

(* The ring stays right when it is left alone.                              *)
LEMMA RingKept ==
  ASSUME RingRight, UNCHANGED <<pipe, hist, faults>>
  PROVE  RingRight'
BY DEF RingRight, PIPE_SIZE, Masked, pipe, hist

(* What the parts of a state are.                                           *)
LEMMA Types ==
  ASSUME TypeOK
  PROVE  /\ ring \in [Ring -> Nat] /\ head \in Ring /\ tail \in Ring
         /\ pc \in [Procs -> {"none", "user", "pipe", "rcopy", "wcopy"} \union Ends]
         /\ loc \in [Procs -> [left : Nat, pos : Nat, chars : Nat, val : Nat]]
         /\ sent \in Nat /\ got \in Seq(Nat)
         /\ NoLoc \in [left : Nat, pos : Nat, chars : Nat, val : Nat]
         /\ Ends = {"r", "w"}
BY DEF TypeOK, NoLoc, Ends

(* Begin() puts p at the start of the loop of its end.                      *)
LEMMA BeginInv ==
  ASSUME Inv, NEW p \in Procs, NEW x \in Ends, NEW n \in Counts, Begin(p, x, n), UNCHANGED faults
  PROVE  Inv'
<1>1. /\ TypeOK /\ CountsAreEnds /\ SleepersWait /\ RingRight /\ \A q \in Procs : ProcRight(q)
  BY DEF Inv, EndsConsistent
<1>2. /\ pc[p] = "user" /\ p \notin asleep /\ x \in fds[p]
      /\ loc' = [loc EXCEPT ![p].left = n]
      /\ pc' = [pc EXCEPT ![p] = x] /\ cpu' = p
      /\ UNCHANGED <<pipe, counts, asleep, signalled, hist>>
  BY DEF Begin, At, Goto
<1>3. n \in Nat
  BY PipeAssumption
<1>4. TypeOK'
  <2>1. loc' \in [Procs -> [left : Nat, pos : Nat, chars : Nat, val : Nat]]
    BY <1>1, <1>2, <1>3, Types
  <2>2. pc' \in [Procs -> {"none", "user", "pipe", "rcopy", "wcopy"} \union Ends]
    BY <1>1, <1>2, Types
  <2> QED BY <1>1, <1>2, <2>1, <2>2 DEF TypeOK, pipe, counts, hist
<1>5. CountsAreEnds'
  BY <1>1, <1>2, CountsKept DEF Ends
<1>6. ASSUME NEW q \in Procs PROVE ProcRight(q)'
  <2>1. CASE q = p
    BY <1>1, <1>2, <2>1, Types DEF ProcRight
  <2>2. CASE q # p
    <3>1. pc'[q] = pc[q] /\ loc'[q] = loc[q]
      BY <1>1, <1>2, <2>2, Types
    <3> QED BY <1>1, <1>2, <3>1, OtherRight
  <2> QED BY <2>1, <2>2
<1>7. SleepersWait'
  <2>1. i_count' = i_count /\ asleep' = asleep /\ head' = head /\ tail' = tail
    BY <1>2 DEF counts, pipe
  <2>2. \A q \in asleep : pc'[q] = pc[q]
    BY <1>1, <1>2, Types DEF TypeOK
  <2>3. \A q \in Procs \ asleep : pc[q] \in {"r", "w", "rcopy", "wcopy"} => pc'[q] = pc[q]
    BY <1>1, <1>2, Types
  <2> QED BY <1>1, <2>1, <2>2, <2>3 DEF SleepersWait, Room, PIPE_SIZE
<1>8. RingRight'
  BY <1>1, <1>2, RingKept
<1> QED BY <1>4, <1>5, <1>6, <1>7, <1>8 DEF Inv, EndsConsistent

(* Block() finds nothing to move, and both ends open.                       *)
LEMMA BlockInv ==
  ASSUME Inv, NEW p \in Procs, NEW x \in Ends, Block(p, x), UNCHANGED faults
  PROVE  Inv'
<1>1. /\ TypeOK /\ CountsAreEnds /\ SleepersWait /\ RingRight /\ \A q \in Procs : ProcRight(q)
  BY DEF Inv, EndsConsistent
<1>2. /\ pc[p] = x /\ p \notin asleep /\ Room(x) = 0 /\ i_count = 2
      /\ asleep' = {p} /\ pc' = [pc EXCEPT ![p] = x] /\ cpu' = NULL
      /\ UNCHANGED <<pipe, counts, loc, signalled, hist>>
  BY DEF Block, At, Yield
<1>3. pc' = pc
  BY <1>1, <1>2, Types
<1>4. TypeOK'
  BY <1>1, <1>2, <1>3 DEF TypeOK, pipe, counts, hist
<1>5. CountsAreEnds'
  BY <1>1, <1>2, <1>3 DEF CountsAreEnds, counts
<1>6. ASSUME NEW q \in Procs PROVE ProcRight(q)'
  <2>1. CASE q = p
    BY <1>1, <1>2, <1>3, <2>1 DEF ProcRight, counts, Ends
  <2>2. CASE q # p
    BY <1>1, <1>2, <1>3, <2>2, OtherRight
  <2> QED BY <2>1, <2>2
<1>7. SleepersWait'
  BY <1>1, <1>2, <1>3 DEF SleepersWait, Room, PIPE_SIZE, pipe, counts
<1>8. RingRight'
  BY <1>1, <1>2, RingKept
<1> QED BY <1>4, <1>5, <1>6, <1>7, <1>8 DEF Inv, EndsConsistent

(* OtherEndClosed() and Done() leave the call and wake all sleepers.        *)
LEMMA LeaveInv ==
  ASSUME Inv, NEW p \in Procs, NEW x \in Ends, OtherEndClosed(p, x) \/ Done(p, x), UNCHANGED faults
  PROVE  Inv'
<1>1. /\ TypeOK /\ CountsAreEnds /\ SleepersWait /\ RingRight /\ \A q \in Procs : ProcRight(q)
  BY DEF Inv, EndsConsistent
<1>2. /\ pc[p] = x /\ asleep' = {} /\ pc' = [pc EXCEPT ![p] = "user"] /\ cpu' = NULL
      /\ loc' = [loc EXCEPT ![p] = NoLoc] /\ UNCHANGED <<pipe, counts, hist>>
      /\ signalled' \in {signalled, signalled \union {p}}
  BY DEF OtherEndClosed, Done, At, Yield, Return
<1>4. TypeOK'
  <2>1. loc' \in [Procs -> [left : Nat, pos : Nat, chars : Nat, val : Nat]]
    BY <1>1, <1>2, Types
  <2>2. pc' \in [Procs -> {"none", "user", "pipe", "rcopy", "wcopy"} \union Ends]
    BY <1>1, <1>2, Types
  <2>3. signalled' \subseteq Procs
    BY <1>1, <1>2 DEF TypeOK
  <2> QED BY <1>1, <1>2, <2>1, <2>2, <2>3 DEF TypeOK, pipe, counts, hist
<1>5. CountsAreEnds'
  BY <1>1, <1>2, CountsKept DEF Ends
<1>6. ASSUME NEW q \in Procs PROVE ProcRight(q)'
  <2>1. CASE q = p
    BY <1>1, <1>2, <2>1, Types DEF ProcRight
  <2>2. CASE q # p
    <3>1. pc'[q] = pc[q] /\ loc'[q] = loc[q]
      BY <1>1, <1>2, <2>2, Types
    <3> QED BY <1>1, <1>2, <3>1, OtherRight
  <2> QED BY <2>1, <2>2
<1>7. SleepersWait'
  BY <1>2 DEF SleepersWait
<1>8. RingRight'
  BY <1>1, <1>2, RingKept
<1> QED BY <1>4, <1>5, <1>6, <1>7, <1>8 DEF Inv, EndsConsistent
-----------------------------------------------------------------------------
(* Moving bytes.                                                            *)

(* The least of three numbers.                                              *)
LEMMA MinOfThree ==
  ASSUME NEW a \in Nat, NEW b \in Nat, NEW c \in Nat
  PROVE  /\ Min({a, b, c}) \in Nat
         /\ Min({a, b, c}) <= a /\ Min({a, b, c}) <= b /\ Min({a, b, c}) <= c
<1>1. \E m \in {a, b, c} : \A y \in {a, b, c} : m =< y
  <2>1. CASE a <= b /\ a <= c
    BY <2>1
  <2>2. CASE b <= a /\ b <= c
    BY <2>2
  <2>3. CASE c <= a /\ c <= b
    BY <2>3
  <2> QED BY <2>1, <2>2, <2>3
<1>2. Min({a, b, c}) \in {a, b, c} /\ \A y \in {a, b, c} : Min({a, b, c}) =< y
  BY <1>1 DEF Min
<1> QED BY <1>2

(* A turn stays in the page and moves no more than there is.                *)
LEMMA CharsFacts ==
  ASSUME TypeOK, NEW p \in Procs, NEW x \in Ends
  PROVE  /\ Chars(p, x) \in Nat /\ Chars(p, x) <= loc[p].left /\ Chars(p, x) <= Room(x)
         /\ x = "r" => Chars(p, x) <= PAGE_SIZE - tail
         /\ x = "w" => Chars(p, x) <= PAGE_SIZE - head
<1> DEFINE end == PAGE_SIZE - (IF x = "r" THEN tail ELSE head)
<1>1. end \in Nat
  <2>1. tail \in Ring /\ head \in Ring /\ PAGE_SIZE \in Nat
    BY PipeAssumption, Types
  <2>2. PAGE_SIZE - tail \in Nat /\ PAGE_SIZE - head \in Nat
    BY <2>1 DEF Ring
  <2> QED BY <2>2
<1>2. loc[p].left \in Nat /\ Room(x) \in Nat
  BY Types, SizeFacts
<1>3. Chars(p, x) = Min({end, loc[p].left, Room(x)})
  BY DEF Chars
<1>4. Chars(p, x) \in Nat /\ Chars(p, x) <= end /\ Chars(p, x) <= loc[p].left /\ Chars(p, x) <= Room(x)
  <2> HIDE DEF end
  <2> QED BY <1>1, <1>2, <1>3, MinOfThree
<1> QED BY <1>4

(* What the reader gets.                                                    *)
LEMMA CopyOutFacts ==
  ASSUME TypeOK, NEW pos \in Nat, NEW n \in Nat, pos + n <= PAGE_SIZE, CopyOut(pos, n)
  PROVE  /\ got' \in Seq(Nat) /\ Len(got') = Len(got) + n
         /\ \A i \in 1 .. Len(got) : got'[i] = got[i]
         /\ \A i \in 1 .. n : got'[Len(got) + i] = ring[pos + i - 1]
         /\ ring' = ring /\ sent' = sent
<1> DEFINE new == [i \in 1 .. n |-> ring[pos + i - 1]]
<1>1. got \in Seq(Nat) /\ ring \in [Ring -> Nat] /\ PAGE_SIZE \in Nat
  BY PipeAssumption, Types
<1>2. \A i \in 1 .. n : pos + i - 1 \in Ring
  BY <1>1 DEF Ring
<1>3. new \in Seq(Nat) /\ Len(new) = n /\ \A i \in 1 .. n : new[i] = ring[pos + i - 1]
  <2>1. \A i \in 1 .. n : ring[pos + i - 1] \in Nat
    BY <1>1, <1>2
  <2>2. new \in [1 .. n -> Nat] /\ \A i \in 1 .. n : new[i] = ring[pos + i - 1]
    BY <2>1
  <2> HIDE DEF new
  <2> QED BY <2>2
<1>4. got' = got \o new /\ ring' = ring /\ sent' = sent
  BY DEF CopyOut
<1> HIDE DEF new
<1>5. got' \in Seq(Nat) /\ Len(got') = Len(got) + n
  BY <1>1, <1>3, <1>4, ConcatProperties
<1>6. \A i \in 1 .. Len(got) : got'[i] = got[i]
  BY <1>1, <1>3, <1>4
<1>7. ASSUME NEW i \in 1 .. n PROVE got'[Len(got) + i] = ring[pos + i - 1]
  <2>1. Len(got) + i \in 1 .. Len(got) + Len(new) /\ ~(Len(got) + i <= Len(got)) /\ Len(got) + i - Len(got) = i
    BY <1>1, <1>3
  <2>2. got'[Len(got) + i] = new[i]
    BY <1>1, <1>3, <1>4, <2>1, ConcatProperties
  <2> QED BY <1>3, <2>2
<1> QED BY <1>4, <1>5, <1>6, <1>7

(* What the ring gets.                                                      *)
LEMMA CopyInFacts ==
  ASSUME TypeOK, NEW pos \in Nat, NEW n \in Nat, NEW val \in Nat, CopyIn(pos, n, val)
  PROVE  /\ ring' \in [Ring -> Nat] /\ got' = got
         /\ \A i \in Ring \ (pos .. pos + n - 1) : ring'[i] = ring[i]
         /\ \A i \in Ring : i \in pos .. pos + n - 1 => ring'[i] = val + i - pos
<1>1. ring \in [Ring -> Nat]
  BY Types
<1>2. ring' = [i \in Ring |-> IF i \in pos .. pos + n - 1 THEN val + i - pos ELSE ring[i]] /\ got' = got
  BY DEF CopyIn
<1>3. ASSUME NEW i \in Ring PROVE i \in pos .. pos + n - 1 => val + i - pos \in Nat
  OBVIOUS
<1> QED BY <1>1, <1>2, <1>3

(* A step in which p moves bytes: it is awake and stays in its call.        *)
Moves(p, l) ==
  /\ p \notin asleep
  /\ \/ pc[p] \in {"r", "rcopy"} /\ l \in {"r", "rcopy"}
     \/ pc[p] \in {"w", "wcopy"} /\ l \in {"w", "wcopy"}
  /\ pc' = [pc EXCEPT ![p] = l] /\ cpu' \in {p, NULL}
  /\ loc' \in [Procs -> [left : Nat, pos : Nat, chars : Nat, val : Nat]]
  /\ \A q \in Procs \ {p} : loc'[q] = loc[q]
  /\ l \in {"rcopy", "wcopy"} => faults /\ loc'[p].pos + loc'[p].chars <= PAGE_SIZE
  /\ ring' \in [Ring -> Nat] /\ head' \in Ring /\ tail' \in Ring /\ sent' \in Nat /\ got' \in Seq(Nat)
  /\ UNCHANGED <<counts, asleep, signalled, faults>>

(* It leaves the counts and the sleepers right.                             *)
LEMMA MoveInv ==
  ASSUME Inv, NEW p \in Procs, NEW l, Moves(p, l)
  PROVE  EndsConsistent' /\ \A q \in Procs : ProcRight(q)'
<1>0. /\ p \notin asleep /\ l \in {"r", "w", "rcopy", "wcopy"}
      /\ \/ pc[p] \in {"r", "rcopy"} /\ l \in {"r", "rcopy"}
         \/ pc[p] \in {"w", "wcopy"} /\ l \in {"w", "wcopy"}
      /\ pc' = [pc EXCEPT ![p] = l] /\ UNCHANGED <<counts, asleep, faults>>
      /\ \A q \in Procs \ {p} : loc'[q] = loc[q]
      /\ l \in {"rcopy", "wcopy"} => faults /\ loc'[p].pos + loc'[p].chars <= PAGE_SIZE
  BY DEF Moves
<1>1. /\ TypeOK /\ CountsAreEnds /\ SleepersWait /\ RingRight /\ \A q \in Procs : ProcRight(q)
  BY DEF Inv, EndsConsistent
<1>2. TypeOK'
  <2>1. pc' \in [Procs -> {"none", "user", "pipe", "rcopy", "wcopy"} \union Ends]
    BY <1>0, <1>1, Types
  <2> QED BY <1>1, <2>1 DEF TypeOK, Moves, counts
<1>3. CountsAreEnds'
  <2>1. /\ pc[p] \in {"r", "rcopy"} => "r" \in fds[p]
        /\ pc[p] \in {"w", "wcopy"} => "w" \in fds[p]
    BY <1>1 DEF CountsAreEnds
  <2>2. /\ l \in {"r", "rcopy"} => "r" \in fds[p]
        /\ l \in {"w", "wcopy"} => "w" \in fds[p]
        /\ pc[p] \notin {"none", "pipe"}
    BY <1>0, <2>1
  <2>3. l \in {"user", "r", "w", "rcopy", "wcopy"} /\ UNCHANGED counts
    BY <1>0
  <2> QED BY <1>0, <1>1, <2>2, <2>3, CountsKept
<1>4. SleepersWait'
  <2>1. pc'[p] = l
    BY <1>0, <1>1, Types
  <2> QED BY <1>0, <1>1, <2>1 DEF SleepersWait, counts
<1>5. ASSUME NEW q \in Procs PROVE ProcRight(q)'
  <2>1. CASE q = p
    <3>1. pc'[p] = l
      BY <1>0, <1>1, Types
    <3> QED BY <1>0, <2>1, <3>1 DEF ProcRight
  <2>2. CASE q # p
    <3>1. pc'[q] = pc[q] /\ loc'[q] = loc[q]
      BY <1>0, <1>1, <2>2, Types
    <3> QED BY <1>0, <1>1, <3>1, OtherRight
  <2> QED BY <2>1, <2>2
<1> QED BY <1>2, <1>3, <1>4, <1>5 DEF EndsConsistent

(* A turn of read_pipe()'s loop.                                            *)
LEMMA ReadTurnInv ==
  ASSUME Inv, NEW p \in Procs, ReadTurn(p), UNCHANGED faults
  PROVE  Inv'
<1>1. /\ TypeOK /\ CountsAreEnds /\ SleepersWait /\ RingRight /\ \A q \in Procs : ProcRight(q)
  BY DEF Inv, EndsConsistent
<1>2. PICK n : n = Chars(p, "r")
  OBVIOUS
<1>3. PICK j \in IF faults THEN 0 .. n ELSE {n} :
        /\ CopyOut(tail, j)
        /\ loc' = [loc EXCEPT ![p] = [left |-> loc[p].left - n, pos |-> IF j = n THEN 0 ELSE tail + j,
                                      chars |-> n - j, val |-> 0]]
        /\ IF j = n THEN Goto(p, "r") ELSE Yield(p, "rcopy")
  BY <1>2 DEF ReadTurn
<1>4. /\ pc[p] = "r" /\ p \notin asleep /\ tail' = Masked(tail + n)
      /\ UNCHANGED <<head, counts, asleep, signalled>>
  BY <1>2 DEF ReadTurn, At
<1>5. /\ n \in Nat /\ n <= loc[p].left /\ n <= Room("r") /\ n <= PAGE_SIZE - tail
  BY <1>1, <1>2, CharsFacts, Types
<1>6. /\ head \in Ring /\ tail \in Ring /\ tail \in Nat /\ PAGE_SIZE \in Nat /\ PAGE_SIZE > 1
      /\ sent \in Nat /\ got \in Seq(Nat) /\ Len(got) \in Nat
      /\ loc[p] \in [left : Nat, pos : Nat, chars : Nat, val : Nat]
  BY <1>1, Types, PipeAssumption DEF Ring
<1>7. j \in Nat /\ j <= n /\ tail + j <= PAGE_SIZE /\ (~faults => j = n)
  BY <1>3, <1>5, <1>6
<1>8. /\ got' \in Seq(Nat) /\ Len(got') = Len(got) + j
      /\ \A i \in 1 .. Len(got) : got'[i] = got[i]
      /\ \A i \in 1 .. j : got'[Len(got) + i] = ring[tail + i - 1]
      /\ ring' = ring /\ sent' = sent
  BY <1>1, <1>3, <1>6, <1>7, CopyOutFacts
<1>9. PIPE_SIZE = Between(tail, head) /\ PIPE_SIZE \in Nat /\ Room("r") = PIPE_SIZE
  BY <1>1, SizeFacts DEF Room
<1>10. /\ tail' \in Ring /\ Between(tail', head) = Between(tail, head) - n
       /\ \A i \in 0 .. n - 1 : tail + i \in Ring /\ Masked(tail + i) = tail + i
       /\ \A i \in 0 .. Between(tail, head) - n - 1 : Masked(tail' + i) = Masked(tail + (n + i))
  <2>1. n <= Between(tail, head)
    BY <1>5, <1>9
  <2>2. TailMoved(tail, head, n, tail')
    BY <1>4, <1>5, <1>6, <2>1, TailMoves
  <2> QED BY <2>2 DEF TailMoved
<1>11. EndsConsistent' /\ \A q \in Procs : ProcRight(q)'
  <2>1. PICK l : l = IF j = n THEN "r" ELSE "rcopy"
    OBVIOUS
  <2>2. pc' = [pc EXCEPT ![p] = l] /\ cpu' \in {p, NULL} /\ l \in {"r", "rcopy"}
    BY <1>3, <2>1 DEF Goto, Yield
  <2>3. PICK v : v = [left |-> loc[p].left - n, pos |-> IF j = n THEN 0 ELSE tail + j, chars |-> n - j, val |-> 0]
    OBVIOUS
  <2>4. loc' = [loc EXCEPT ![p] = v]
    BY <1>3, <2>3
  <2>5. loc[p].left - n \in Nat /\ n - j \in Nat /\ tail + j \in Nat
    <3>1. loc[p].left \in Nat /\ n \in Nat /\ j \in Nat /\ tail \in Nat /\ n <= loc[p].left /\ j <= n
      BY <1>5, <1>6, <1>7
    <3> QED BY <3>1
  <2>6. /\ loc' \in [Procs -> [left : Nat, pos : Nat, chars : Nat, val : Nat]]
        /\ (j # n => loc'[p].pos = tail + j) /\ loc'[p].chars = n - j
        /\ \A q \in Procs \ {p} : loc'[q] = loc[q]
    <3>1. v \in [left : Nat, pos : Nat, chars : Nat, val : Nat] /\ (j # n => v.pos = tail + j) /\ v.chars = n - j
      BY <2>3, <2>5
    <3>2. loc \in [Procs -> [left : Nat, pos : Nat, chars : Nat, val : Nat]]
      BY <1>1, Types
    <3> QED BY <2>4, <3>1, <3>2
  <2>7. l \in {"rcopy", "wcopy"} => faults /\ loc'[p].pos + loc'[p].chars <= PAGE_SIZE
    BY <1>5, <1>6, <1>7, <2>1, <2>6
  <2>8. ring' \in [Ring -> Nat] /\ head' \in Ring
    BY <1>1, <1>4, <1>8, Types
  <2>9. Moves(p, l)
    BY <1>4, <1>6, <1>8, <1>10, <2>2, <2>6, <2>7, <2>8 DEF Moves
  <2> QED BY <2>9, MoveInv
<1>12. ASSUME ~faults' PROVE /\ Len(got') + PIPE_SIZE' = sent'
                             /\ \A i \in 1 .. Len(got') : got'[i] = i
                             /\ \A i \in 0 .. PIPE_SIZE' - 1 : ring'[Masked(tail' + i)] = Len(got') + i + 1
  <2>1. /\ j = n /\ Len(got) + Between(tail, head) = sent
        /\ \A i \in 1 .. Len(got) : got[i] = i
        /\ \A i \in 0 .. Between(tail, head) - 1 : ring[Masked(tail + i)] = Len(got) + i + 1
    BY <1>1, <1>7, <1>9, <1>12 DEF RingRight
  <2>2. PIPE_SIZE' = Between(tail, head) - n
    BY <1>4, <1>10 DEF PIPE_SIZE, Between, Masked
  <2>3. Between(tail, head) \in Nat /\ n <= Between(tail, head)
    BY <1>5, <1>9
  <2>4. Len(got') + PIPE_SIZE' = sent'
    BY <1>5, <1>6, <1>8, <2>1, <2>2, <2>3
  <2>5. ASSUME NEW i \in 1 .. Len(got') PROVE got'[i] = i
    <3>1. CASE i \in 1 .. Len(got)
      BY <1>8, <2>1, <3>1
    <3>2. CASE i \notin 1 .. Len(got)
      <4>1. PICK k \in Nat : k = i - Len(got) - 1
        <5>1. i \in Nat /\ Len(got) \in Nat /\ i > Len(got)
          BY <1>6, <1>8, <3>2
        <5>2. i - Len(got) - 1 \in Nat
          BY <5>1
        <5> QED BY <5>2
      <4>2. k + 1 \in 1 .. n /\ Len(got) + (k + 1) = i /\ k \in 0 .. n - 1 /\ tail + (k + 1) - 1 = tail + k
        BY <1>5, <1>6, <1>8, <2>1, <3>2, <4>1
      <4>3. got'[i] = ring[tail + k]
        BY <1>8, <2>1, <4>2
      <4>4. ring[tail + k] = Len(got) + k + 1
        <5>1. Masked(tail + k) = tail + k /\ k \in 0 .. Between(tail, head) - 1
          BY <1>5, <1>10, <2>3, <4>2
        <5> QED BY <2>1, <5>1
      <4> QED BY <1>6, <4>1, <4>2, <4>3, <4>4
    <3> QED BY <3>1, <3>2
  <2>6. ASSUME NEW i \in 0 .. PIPE_SIZE' - 1 PROVE ring'[Masked(tail' + i)] = Len(got') + i + 1
    <3>1. i \in 0 .. Between(tail, head) - n - 1 /\ n + i \in 0 .. Between(tail, head) - 1
      BY <1>5, <2>2, <2>3
    <3>2. Masked(tail' + i) = Masked(tail + (n + i))
      BY <1>10, <3>1
    <3>3. ring[Masked(tail + (n + i))] = Len(got) + (n + i) + 1
      BY <2>1, <3>1
    <3>4. Len(got') \in Nat /\ Len(got) + (n + i) + 1 = Len(got') + i + 1
      <4>1. i \in Nat /\ n \in Nat /\ Len(got) \in Nat /\ Len(got') = Len(got) + n
        BY <1>5, <1>6, <1>8, <2>1, <3>1
      <4> QED BY <4>1
    <3> QED BY <1>8, <3>2, <3>3, <3>4
  <2> QED BY <2>4, <2>5, <2>6
<1>13. RingRight'
  BY <1>12 DEF RingRight, Masked
<1> QED BY <1>11, <1>13 DEF Inv

(* A turn of write_pipe()'s loop.                                           *)
LEMMA WriteTurnInv ==
  ASSUME Inv, NEW p \in Procs, WriteTurn(p), UNCHANGED faults
  PROVE  Inv'
<1>1. /\ TypeOK /\ CountsAreEnds /\ SleepersWait /\ RingRight /\ \A q \in Procs : ProcRight(q)
  BY DEF Inv, EndsConsistent
<1>2. PICK n : n = Chars(p, "w")
  OBVIOUS
<1>3. PICK j \in IF faults THEN 0 .. n ELSE {n} :
        /\ CopyIn(head, j, sent + 1)
        /\ loc' = [loc EXCEPT ![p] = [left |-> loc[p].left - n, pos |-> head + j,
                                      chars |-> n - j, val |-> sent + 1 + j]]
        /\ IF j = n THEN Goto(p, "w") ELSE Yield(p, "wcopy")
  BY <1>2 DEF WriteTurn
<1>4. /\ pc[p] = "w" /\ p \notin asleep /\ head' = Masked(head + n) /\ sent' = sent + n
      /\ UNCHANGED <<tail, counts, asleep, signalled>>
  BY <1>2 DEF WriteTurn, At
<1>5. /\ n \in Nat /\ n <= loc[p].left /\ n <= Room("w") /\ n <= PAGE_SIZE - head
  BY <1>1, <1>2, CharsFacts, Types
<1>6. /\ head \in Ring /\ tail \in Ring /\ head \in Nat /\ PAGE_SIZE \in Nat /\ PAGE_SIZE > 1
      /\ sent \in Nat /\ sent + 1 \in Nat /\ got \in Seq(Nat) /\ Len(got) \in Nat
      /\ loc[p] \in [left : Nat, pos : Nat, chars : Nat, val : Nat]
  <2>1. /\ head \in Ring /\ tail \in Ring /\ sent \in Nat /\ got \in Seq(Nat)
        /\ loc[p] \in [left : Nat, pos : Nat, chars : Nat, val : Nat]
    BY <1>1, Types
  <2> QED BY <2>1, PipeAssumption DEF Ring
<1>7. j \in Nat /\ j <= n /\ head + j <= PAGE_SIZE /\ (~faults => j = n)
  BY <1>3, <1>5, <1>6
<1>8. /\ ring' \in [Ring -> Nat] /\ got' = got
      /\ \A i \in Ring \ (head .. head + j - 1) : ring'[i] = ring[i]
      /\ \A i \in Ring : i \in head .. head + j - 1 => ring'[i] = sent + 1 + i - head
  <2>1. head \in Nat /\ j \in Nat /\ sent + 1 \in Nat /\ CopyIn(head, j, sent + 1)
    BY <1>3, <1>6, <1>7
  <2> QED BY <1>1, <2>1, CopyInFacts
<1>9. PIPE_SIZE = Between(tail, head) /\ PIPE_SIZE \in Nat /\ Room("w") = PAGE_SIZE - 1 - Between(tail, head)
  BY <1>1, SizeFacts DEF Room
<1>10. /\ head' \in Ring /\ Between(tail, head') = Between(tail, head) + n
       /\ \A i \in 0 .. Between(tail, head) - 1 : Masked(tail + i) \in Ring \ (head .. head + n - 1)
       /\ \A i \in Between(tail, head) .. Between(tail, head) + n - 1 :
            /\ Masked(tail + i) = head + (i - Between(tail, head))
            /\ Masked(tail + i) \in Ring /\ Masked(tail + i) \in head .. head + n - 1
  <2>1. n <= PAGE_SIZE - 1 - Between(tail, head)
    BY <1>5, <1>9
  <2>2. HeadMoved(tail, head, n, head')
    BY <1>4, <1>5, <1>6, <2>1, HeadMoves
  <2> QED BY <2>2 DEF HeadMoved
<1>11. EndsConsistent' /\ \A q \in Procs : ProcRight(q)'
  <2>1. PICK l : l = IF j = n THEN "w" ELSE "wcopy"
    OBVIOUS
  <2>2. pc' = [pc EXCEPT ![p] = l] /\ cpu' \in {p, NULL} /\ l \in {"w", "wcopy"}
    BY <1>3, <2>1 DEF Goto, Yield
  <2>3. loc[p].left - n \in Nat /\ n - j \in Nat /\ head + j \in Nat /\ sent + 1 + j \in Nat
    BY <1>5, <1>6, <1>7
  <2>4. /\ loc' \in [Procs -> [left : Nat, pos : Nat, chars : Nat, val : Nat]]
        /\ loc'[p].pos = head + j /\ loc'[p].chars = n - j
        /\ \A q \in Procs \ {p} : loc'[q] = loc[q]
    <3>1. PICK v : v = [left |-> loc[p].left - n, pos |-> head + j, chars |-> n - j, val |-> sent + 1 + j]
      OBVIOUS
    <3>2. /\ v \in [left : Nat, pos : Nat, chars : Nat, val : Nat] /\ v.pos = head + j /\ v.chars = n - j
          /\ loc' = [loc EXCEPT ![p] = v]
      BY <1>3, <2>3, <3>1
    <3>3. loc \in [Procs -> [left : Nat, pos : Nat, chars : Nat, val : Nat]]
      BY <1>1, Types
    <3> QED BY <3>2, <3>3
  <2>5. l \in {"rcopy", "wcopy"} => faults /\ loc'[p].pos + loc'[p].chars <= PAGE_SIZE
    BY <1>5, <1>6, <1>7, <2>1, <2>4
  <2>6. sent' \in Nat /\ got' \in Seq(Nat) /\ tail' \in Ring
    BY <1>4, <1>5, <1>6, <1>8
  <2>7. Moves(p, l)
    BY <1>4, <1>8, <1>10, <2>2, <2>4, <2>5, <2>6 DEF Moves
  <2> QED BY <2>7, MoveInv
<1>12. ASSUME ~faults' PROVE /\ Len(got') + PIPE_SIZE' = sent'
                             /\ \A i \in 1 .. Len(got') : got'[i] = i
                             /\ \A i \in 0 .. PIPE_SIZE' - 1 : ring'[Masked(tail' + i)] = Len(got') + i + 1
  <2>1. /\ j = n /\ Len(got) + Between(tail, head) = sent
        /\ \A i \in 1 .. Len(got) : got[i] = i
        /\ \A i \in 0 .. Between(tail, head) - 1 : ring[Masked(tail + i)] = Len(got) + i + 1
    BY <1>1, <1>7, <1>9, <1>12 DEF RingRight
  <2>2. PIPE_SIZE' = Between(tail, head) + n /\ Between(tail, head) \in Nat
    BY <1>4, <1>9, <1>10 DEF PIPE_SIZE, Between, Masked
  <2>3. Len(got') + PIPE_SIZE' = sent'
    <3>1. /\ Between(tail, head) \in Nat /\ Len(got) \in Nat /\ n \in Nat /\ sent \in Nat
          /\ Len(got) + Between(tail, head) = sent
      BY <1>5, <1>6, <2>1, <2>2
    <3>2. Len(got) + (Between(tail, head) + n) = sent + n
      BY <3>1
    <3> QED BY <1>4, <1>8, <2>2, <3>2
  <2>4. ASSUME NEW i \in 0 .. PIPE_SIZE' - 1 PROVE ring'[Masked(tail + i)] = Len(got') + i + 1
    <3>1. CASE i < Between(tail, head)
      <4>1. i \in 0 .. Between(tail, head) - 1
        BY <1>5, <2>2, <3>1
      <4>2. ring[Masked(tail + i)] = Len(got) + i + 1 /\ Masked(tail + i) \in Ring \ (head .. head + j - 1)
        BY <1>10, <2>1, <4>1
      <4> QED BY <1>8, <4>2
    <3>2. CASE ~(i < Between(tail, head))
      <4>1. i \in Between(tail, head) .. Between(tail, head) + n - 1
        BY <1>5, <2>2, <3>2
      <4>2. /\ Masked(tail + i) = head + (i - Between(tail, head))
            /\ Masked(tail + i) \in Ring /\ Masked(tail + i) \in head .. head + j - 1
        BY <1>10, <2>1, <4>1
      <4>3. ring'[Masked(tail + i)] = sent + 1 + Masked(tail + i) - head
        BY <1>8, <4>2
      <4>4. sent + 1 + (head + (i - Between(tail, head))) - head = Len(got) + i + 1
        <5>1. i \in Nat /\ Between(tail, head) \in Nat /\ sent = Len(got) + Between(tail, head)
          BY <2>1, <2>2, <4>1
        <5> QED BY <1>6, <5>1
      <4> QED BY <1>8, <4>2, <4>3, <4>4
    <3> QED BY <3>1, <3>2
  <2> QED BY <1>4, <1>8, <2>1, <2>3, <2>4
<1>13. RingRight'
  BY <1>12 DEF RingRight, Masked
<1> QED BY <1>11, <1>13 DEF Inv

(* The rest of a turn whose copy faulted.                                   *)
LEMMA CopyInv ==
  ASSUME Inv, NEW p \in Procs, ReadCopy(p) \/ WriteCopy(p), UNCHANGED faults
  PROVE  Inv'
<1>1. /\ TypeOK /\ CountsAreEnds /\ SleepersWait /\ RingRight /\ ProcRight(p)
  BY DEF Inv, EndsConsistent
<1>2. PICK l : l = IF pc[p] = "rcopy" THEN "r" ELSE "w"
  OBVIOUS
<1>3. /\ pc[p] = (IF l = "r" THEN "rcopy" ELSE "wcopy") /\ l \in Ends /\ p \notin asleep
      /\ l = "r" => CopyOut(loc[p].pos, loc[p].chars)
      /\ l = "w" => CopyIn(loc[p].pos, loc[p].chars, loc[p].val) /\ sent' = sent
      /\ loc' = [loc EXCEPT ![p] = [NoLoc EXCEPT !.left = loc[p].left]]
      /\ pc' = [pc EXCEPT ![p] = l] /\ cpu' = p
      /\ UNCHANGED <<head, tail, counts, asleep, signalled>>
  BY <1>2 DEF ReadCopy, WriteCopy, At, Goto, Ends
<1>4. faults /\ loc[p].pos + loc[p].chars <= PAGE_SIZE
  BY <1>1, <1>3 DEF ProcRight
<1>5. loc[p].pos \in Nat /\ loc[p].chars \in Nat /\ loc[p].val \in Nat /\ loc[p].left \in Nat
  BY <1>1, Types
<1>6. ring' \in [Ring -> Nat] /\ got' \in Seq(Nat) /\ sent' \in Nat
  <2>1. CASE l = "r"
    BY <1>1, <1>3, <1>4, <1>5, <2>1, CopyOutFacts, Types
  <2>2. CASE l = "w"
    BY <1>1, <1>3, <1>4, <1>5, <2>2, CopyInFacts, Types
  <2> QED BY <1>3, <2>1, <2>2 DEF Ends
<1>7. /\ loc' \in [Procs -> [left : Nat, pos : Nat, chars : Nat, val : Nat]]
      /\ \A q \in Procs \ {p} : loc'[q] = loc[q]
  <2>1. PICK v \in [left : Nat, pos : Nat, chars : Nat, val : Nat] : v = [NoLoc EXCEPT !.left = loc[p].left]
    BY <1>5 DEF NoLoc
  <2>2. loc \in [Procs -> [left : Nat, pos : Nat, chars : Nat, val : Nat]]
    BY <1>1, Types
  <2> QED BY <1>3, <2>1, <2>2
<1>8. Moves(p, l)
  <2>1. head' \in Ring /\ tail' \in Ring
    BY <1>1, <1>3, Types
  <2> QED BY <1>3, <1>6, <1>7, <2>1 DEF Moves, Ends
<1>9. RingRight'
  BY <1>4 DEF RingRight
<1> QED BY <1>8, <1>9, MoveInv DEF Inv
-----------------------------------------------------------------------------
(* Steps that change the counts of ends.                                    *)

(* Nobody who is not at "pipe" has an end while another is.                 *)
LEMMA PipeAlone ==
  ASSUME Inv, NEW p \in Procs, NEW q \in Procs, p # q, pc[p] = "pipe"
  PROVE  fds[q] = {} /\ pc[q] \notin {"r", "w", "rcopy", "wcopy", "pipe"}
<1>1. TypeOK /\ CountsAreEnds /\ ProcRight(p) /\ ProcRight(q)
  BY DEF Inv, EndsConsistent
<1>2. \A x \in Ends : f_count[x] = 1 /\ x \in fds[p]
  BY <1>1 DEF ProcRight
<1>3. \A x \in Ends : x \notin fds[q]
  BY <1>1, <1>2, OwnersCounted
<1>4. fds[q] \subseteq Ends
  BY <1>1 DEF TypeOK
<1>5. fds[q] = {}
  BY <1>3, <1>4
<1>6. pc[q] \notin {"r", "w", "rcopy", "wcopy"}
  BY <1>1, <1>5 DEF CountsAreEnds
<1>7. pc[q] # "pipe"
  BY <1>1, <1>5 DEF ProcRight, Ends
<1> QED BY <1>5, <1>6, <1>7

(* The ends that are open.                                                  *)
Open == {x \in Ends : f_count[x] > 0}

(* SysPipe() makes both ends p's alone.                                     *)
LEMMA SysPipeInv ==
  ASSUME Inv, NEW p \in Procs, SysPipe(p), UNCHANGED faults
  PROVE  Inv'
<1>1. /\ TypeOK /\ CountsAreEnds /\ SleepersWait /\ RingRight /\ \A q \in Procs : ProcRight(q)
  BY DEF Inv, EndsConsistent
<1>2. /\ pc[p] = "user" /\ p \notin asleep
      /\ f_count = [x \in Ends |-> 0] /\ f_count' = [x \in Ends |-> 1]
      /\ fds' = [fds EXCEPT ![p] = Ends] /\ pc' = [pc EXCEPT ![p] = "pipe"] /\ cpu' = NULL
      /\ UNCHANGED <<pipe, i_count, loc, asleep, signalled, hist>>
  BY DEF SysPipe, At, Yield
<1>3. \A q \in Procs : fds[q] = {} /\ pc[q] \notin {"r", "w", "rcopy", "wcopy", "pipe"}
  <2>1. \A x \in Ends : \A q \in Procs : x \notin fds[q]
    BY <1>1, <1>2, OwnersCounted
  <2>2. \A q \in Procs : fds[q] = {}
    BY <1>1, <2>1 DEF TypeOK
  <2>3. \A q \in Procs : pc[q] \notin {"r", "w", "rcopy", "wcopy"}
    BY <1>1, <2>2 DEF CountsAreEnds
  <2>4. \A q \in Procs : pc[q] # "pipe"
    BY <1>1, <2>2 DEF ProcRight, Ends
  <2> QED BY <2>2, <2>3, <2>4
<1>4. i_count = 0
  <2>1. i_count = Cardinality(Open)
    BY <1>1, <1>3 DEF CountsAreEnds, Open
  <2>2. Open = {}
    BY <1>2 DEF Open
  <2> QED BY <2>1, <2>2, FS_EmptySet
<1>5. asleep = {}
  BY <1>1, <1>4 DEF SleepersWait
<1>6. TypeOK'
  <2>1. f_count' \in [Ends -> Nat]
    BY <1>2
  <2>2. fds' \in [Procs -> SUBSET Ends]
    BY <1>1, <1>2 DEF TypeOK
  <2>3. pc' \in [Procs -> {"none", "user", "pipe", "rcopy", "wcopy"} \union Ends]
    BY <1>1, <1>2, Types
  <2> QED BY <1>1, <1>2, <2>1, <2>2, <2>3 DEF TypeOK, pipe, hist
<1>7. fds'[p] = Ends /\ pc'[p] = "pipe" /\ \A q \in Procs \ {p} : fds'[q] = fds[q] /\ pc'[q] = pc[q]
  BY <1>1, <1>2 DEF TypeOK
<1>8. CountsAreEnds'
  <2>1. ASSUME NEW x \in Ends PROVE f_count'[x] = Cardinality({q \in Procs : x \in fds'[q]})
    <3>1. /\ Cardinality(Owners(x)') \in Nat
          /\ Cardinality(Owners(x)') + One(x \in fds[p]) = f_count[x] + One(x \in fds'[p])
      BY <1>1, <1>7, OwnersChange
    <3>2. x \notin fds[p] /\ x \in fds'[p] /\ f_count[x] = 0 /\ f_count'[x] = 1
      BY <1>2, <1>3, <1>7
    <3>3. Cardinality(Owners(x)') = 1
      BY <3>1, <3>2 DEF One
    <3> QED BY <3>2, <3>3 DEF Owners
  <2>2. ~(~\E q \in Procs : pc'[q] = "pipe")
    BY <1>7
  <2>3. \A q \in Procs : pc'[q] \notin {"r", "w", "rcopy", "wcopy"}
    BY <1>3, <1>7
  <2> QED BY <2>1, <2>2, <2>3 DEF CountsAreEnds
<1>9. ASSUME NEW q \in Procs PROVE ProcRight(q)'
  <2>1. CASE q = p
    BY <1>2, <1>4, <1>7, <2>1 DEF ProcRight
  <2>2. CASE q # p
    BY <1>2, <1>3, <1>5, <1>7, <2>2 DEF ProcRight
  <2> QED BY <2>1, <2>2
<1>10. SleepersWait'
  BY <1>2, <1>5 DEF SleepersWait
<1>11. RingRight'
  BY <1>1, <1>2, RingKept
<1> QED BY <1>6, <1>8, <1>9, <1>10, <1>11 DEF Inv, EndsConsistent

(* An empty ring is right.                                                  *)
LEMMA NewRing ==
  ASSUME NewPage
  PROVE  /\ RingRight' /\ ring' \in [Ring -> Nat] /\ head' \in Ring /\ tail' \in Ring
         /\ sent' \in Nat /\ got' \in Seq(Nat)
<1>1. ring' = [i \in Ring |-> 0] /\ head' = 0 /\ tail' = 0 /\ sent' = 0 /\ got' = <<>>
  BY DEF NewPage
<1>2. PAGE_SIZE \in Nat /\ PAGE_SIZE > 1 /\ 0 \in Ring
  BY PipeAssumption DEF Ring
<1>3. PIPE_SIZE' = 0
  <2>1. Between(0, 0) = 0
    BY <1>2, BetweenFacts
  <2> QED BY <1>1, <2>1 DEF PIPE_SIZE, Between, Masked
<1>4. got' \in Seq(Nat) /\ Len(got') = 0
  BY <1>1
<1>5. RingRight'
  <2>1. Len(got') + PIPE_SIZE' = sent'
    BY <1>1, <1>3, <1>4
  <2>2. (1 .. Len(got')) = {} /\ (0 .. PIPE_SIZE' - 1) = {}
    BY <1>3, <1>4
  <2> QED BY <2>1, <2>2 DEF RingRight
<1> QED BY <1>1, <1>2, <1>4, <1>5

(* PipeInode() gives the pipe its two ends, or makes p give them back.      *)
LEMMA PipeInodeInv ==
  ASSUME Inv, NEW p \in Procs, PipeInode(p), UNCHANGED faults
  PROVE  Inv'
<1>1. /\ TypeOK /\ CountsAreEnds /\ SleepersWait /\ RingRight /\ \A q \in Procs : ProcRight(q)
  BY DEF Inv, EndsConsistent
<1>2. /\ pc[p] = "pipe" /\ p \notin asleep /\ pc' = [pc EXCEPT ![p] = "user"] /\ cpu' = NULL
      /\ loc' = [loc EXCEPT ![p] = NoLoc] /\ UNCHANGED <<asleep, signalled>>
      /\ \/ i_count' = 2 /\ NewPage /\ UNCHANGED <<f_count, fds>>
         \/ /\ f_count' = [x \in Ends |-> 0] /\ fds' = [fds EXCEPT ![p] = {}]
            /\ UNCHANGED <<pipe, i_count, hist>>
  BY DEF PipeInode, At, Return, Yield
<1>3. \A q \in Procs \ {p} : fds[q] = {} /\ pc[q] \notin {"r", "w", "rcopy", "wcopy", "pipe"}
  BY <1>2, PipeAlone
<1>4. i_count = 0 /\ (\A x \in Ends : f_count[x] = 1) /\ fds[p] = Ends
  BY <1>1, <1>2 DEF ProcRight
<1>5. asleep = {}
  BY <1>1, <1>4 DEF SleepersWait
<1>6. /\ pc' \in [Procs -> {"none", "user", "pipe", "rcopy", "wcopy"} \union Ends]
      /\ pc'[p] = "user" /\ \A q \in Procs \ {p} : pc'[q] = pc[q]
      /\ loc' \in [Procs -> [left : Nat, pos : Nat, chars : Nat, val : Nat]]
  BY <1>1, <1>2, Types
<1>7. \A q \in Procs : pc'[q] \notin {"r", "w", "rcopy", "wcopy", "pipe"}
  BY <1>3, <1>6
<1>8. SleepersWait'
  BY <1>2, <1>5 DEF SleepersWait
<1>9. CASE i_count' = 2 /\ NewPage /\ UNCHANGED <<f_count, fds>>
  <2>1. TypeOK'
    <3>1. ring' \in [Ring -> Nat] /\ head' \in Ring /\ tail' \in Ring /\ sent' \in Nat /\ got' \in Seq(Nat)
      BY <1>9, NewRing
    <3>2. i_count' \in 0 .. 2 /\ f_count' = f_count /\ fds' = fds
      BY <1>9
    <3> QED BY <1>1, <1>2, <1>6, <3>1, <3>2 DEF TypeOK
  <2>2. i_count' = Cardinality({x \in Ends : f_count'[x] > 0})
    <3>1. {x \in Ends : f_count'[x] > 0} = Ends
      BY <1>4, <1>9
    <3>2. Cardinality(Ends) = 2
      BY EndsCounted DEF One, Ends
    <3> QED BY <1>9, <3>1, <3>2
  <2>3. CountsAreEnds'
    BY <1>1, <1>7, <1>9, <2>2 DEF CountsAreEnds
  <2>4. ASSUME NEW q \in Procs PROVE ProcRight(q)'
    <3>1. pc'[q] = "none" => fds'[q] = {}
      BY <1>3, <1>6, <1>9
    <3>2. q \notin asleep'
      BY <1>2, <1>5
    <3> QED BY <1>7, <3>1, <3>2 DEF ProcRight
  <2> QED BY <1>8, <1>9, <2>1, <2>3, <2>4, NewRing DEF Inv, EndsConsistent
<1>10. CASE /\ f_count' = [x \in Ends |-> 0] /\ fds' = [fds EXCEPT ![p] = {}]
            /\ UNCHANGED <<pipe, i_count, hist>>
  <2>1. fds' \in [Procs -> SUBSET Ends] /\ \A q \in Procs : fds'[q] = {}
    BY <1>1, <1>3, <1>10 DEF TypeOK
  <2>2. f_count' \in [Ends -> Nat] /\ \A x \in Ends : f_count'[x] = 0
    BY <1>10
  <2>3. TypeOK'
    BY <1>1, <1>2, <1>6, <1>10, <2>1, <2>2 DEF TypeOK, pipe, hist
  <2>4. CountsAreEnds'
    <3>1. ASSUME NEW x \in Ends PROVE f_count'[x] = Cardinality({q \in Procs : x \in fds'[q]})
      <4>1. {q \in Procs : x \in fds'[q]} = {}
        BY <2>1
      <4> QED BY <2>2, <4>1, FS_EmptySet
    <3>2. i_count' = Cardinality({x \in Ends : f_count'[x] > 0})
      <4>1. {x \in Ends : f_count'[x] > 0} = {}
        BY <2>2
      <4> QED BY <1>4, <1>10, <4>1, FS_EmptySet
    <3> QED BY <1>7, <3>1, <3>2 DEF CountsAreEnds
  <2>5. ASSUME NEW q \in Procs PROVE ProcRight(q)'
    BY <1>2, <1>5, <1>7, <2>1 DEF ProcRight
  <2>6. RingRight'
    BY <1>1, <1>10, RingKept
  <2> QED BY <1>8, <2>3, <2>4, <2>5, <2>6 DEF Inv, EndsConsistent
<1> QED BY <1>2, <1>9, <1>10

(* Fork() counts the descriptors that the child has now too.                *)
LEMMA ForkInv ==
  ASSUME Inv, NEW p \in Procs, NEW q \in Procs, Fork(p, q), UNCHANGED faults
  PROVE  Inv'
<1>1. /\ TypeOK /\ CountsAreEnds /\ SleepersWait /\ RingRight /\ \A r \in Procs : ProcRight(r)
  BY DEF Inv, EndsConsistent
<1>2. /\ pc[p] = "user" /\ pc[q] = "none"
      /\ fds' = [fds EXCEPT ![q] = fds[p]] /\ pc' = [pc EXCEPT ![q] = "user"]
      /\ f_count' = [x \in Ends |-> f_count[x] + IF x \in fds[p] THEN 1 ELSE 0]
      /\ UNCHANGED <<pipe, i_count, loc, asleep, cpu, signalled, hist>>
  BY DEF Fork, At
<1>3. fds[q] = {} /\ q \notin asleep
  BY <1>1, <1>2 DEF ProcRight, Ends
<1>4. /\ fds' \in [Procs -> SUBSET Ends] /\ pc' \in [Procs -> {"none", "user", "pipe", "rcopy", "wcopy"} \union Ends]
      /\ fds'[q] = fds[p] /\ pc'[q] = "user"
      /\ \A r \in Procs \ {q} : fds'[r] = fds[r] /\ pc'[r] = pc[r]
  BY <1>1, <1>2 DEF TypeOK
<1>5. \A x \in Ends : /\ f_count[x] \in Nat /\ f_count'[x] = f_count[x] + One(x \in fds[p])
                      /\ One(x \in fds[p]) \in Nat /\ (x \in fds[p] => f_count[x] > 0)
  <2>1. \A x \in Ends : f_count[x] \in Nat /\ (x \in fds[p] => f_count[x] # 0)
    BY <1>1, OwnersCounted
  <2>2. \A x \in Ends : f_count'[x] = f_count[x] + One(x \in fds[p])
    BY <1>2 DEF One
  <2>3. \A x \in Ends : One(x \in fds[p]) \in Nat
    BY DEF One
  <2> QED BY <2>1, <2>2, <2>3
<1>6. TypeOK'
  <2>1. f_count' \in [Ends -> Nat]
    <3>1. \A x \in Ends : f_count[x] + (IF x \in fds[p] THEN 1 ELSE 0) \in Nat
      BY <1>5
    <3> QED BY <1>2, <3>1
  <2> QED BY <1>1, <1>2, <1>4, <2>1 DEF TypeOK, pipe, hist
<1>7. CountsAreEnds'
  <2>1. ASSUME NEW x \in Ends PROVE f_count'[x] = Cardinality({r \in Procs : x \in fds'[r]})
    <3>1. /\ Cardinality(Owners(x)') \in Nat
          /\ Cardinality(Owners(x)') + One(x \in fds[q]) = f_count[x] + One(x \in fds'[q])
      BY <1>1, <1>4, OwnersChange
    <3>2. One(x \in fds[q]) = 0 /\ One(x \in fds'[q]) = One(x \in fds[p])
      BY <1>3, <1>4 DEF One
    <3>3. Cardinality(Owners(x)') = f_count[x] + One(x \in fds[p])
      BY <1>5, <3>1, <3>2
    <3> QED BY <1>5, <3>3 DEF Owners
  <2>2. (~\E r \in Procs : pc'[r] = "pipe") => i_count' = Cardinality({x \in Ends : f_count'[x] > 0})
    <3>1. \A r \in Procs : pc'[r] = "pipe" <=> pc[r] = "pipe"
      BY <1>2, <1>4
    <3>2. ASSUME NEW x \in Ends PROVE f_count'[x] > 0 <=> f_count[x] > 0
      <4>1. CASE x \in fds[p]
        BY <1>5, <4>1
      <4>2. CASE x \notin fds[p]
        BY <1>2, <1>5, <4>2
      <4> QED BY <4>1, <4>2
    <3>3. {x \in Ends : f_count'[x] > 0} = {x \in Ends : f_count[x] > 0}
      BY <3>2
    <3> QED BY <1>1, <1>2, <3>1, <3>3 DEF CountsAreEnds
  <2>3. ASSUME NEW r \in Procs
        PROVE  /\ pc'[r] \in {"r", "rcopy"} => "r" \in fds'[r]
               /\ pc'[r] \in {"w", "wcopy"} => "w" \in fds'[r]
    BY <1>1, <1>4 DEF CountsAreEnds
  <2> QED BY <2>1, <2>2, <2>3 DEF CountsAreEnds
<1>8. ASSUME NEW r \in Procs PROVE ProcRight(r)'
  <2>1. CASE r = q
    BY <1>2, <1>3, <1>4, <2>1 DEF ProcRight
  <2>2. CASE r # q
    <3>1. ProcRight(r) /\ fds'[r] = fds[r] /\ pc'[r] = pc[r] /\ loc' = loc /\ asleep' = asleep /\ i_count' = i_count
      BY <1>1, <1>2, <1>4, <2>2
    <3>2. pc[r] = "pipe" => \A x \in Ends : f_count'[x] = 1
      <4>1. SUFFICES ASSUME pc[r] = "pipe", NEW x \in Ends PROVE f_count'[x] = 1
        OBVIOUS
      <4>2. fds[p] = {}
        BY <1>2, <4>1, PipeAlone
      <4>3. f_count[x] = 1
        BY <3>1, <4>1 DEF ProcRight
      <4> QED BY <1>2, <4>2, <4>3
    <3> QED BY <3>1, <3>2 DEF ProcRight
  <2> QED BY <2>1, <2>2
<1>9. SleepersWait'
  <2>1. i_count' = i_count /\ asleep' = asleep /\ head' = head /\ tail' = tail
    BY <1>2 DEF pipe
  <2>2. \A r \in asleep : pc'[r] = pc[r]
    BY <1>1, <1>3, <1>4 DEF TypeOK
  <2>3. \A r \in Procs \ asleep : pc[r] \in {"r", "w", "rcopy", "wcopy"} => pc'[r] = pc[r]
    BY <1>2, <1>4
  <2> QED BY <1>1, <2>1, <2>2, <2>3 DEF SleepersWait, Room, PIPE_SIZE
<1>10. RingRight'
  BY <1>1, <1>2, RingKept
<1> QED BY <1>6, <1>7, <1>8, <1>9, <1>10 DEF Inv, EndsConsistent

(* Close() and Exit() give back the descriptors E of p, which leaves it at  *)
(* l; the ends without a descriptor are not counted any more.               *)
LEMMA CloseInv ==
  ASSUME Inv, NEW p \in Procs, NEW E \in SUBSET fds[p], NEW l \in {"user", "none"},
         pc[p] = "user", p \notin asleep, CloseEnds(p, E), pc' = [pc EXCEPT ![p] = l], cpu' = NULL,
         l = "none" => E = fds[p], signalled' \subseteq signalled, UNCHANGED faults
  PROVE  Inv'
<1>1. /\ TypeOK /\ CountsAreEnds /\ SleepersWait /\ RingRight /\ \A r \in Procs : ProcRight(r)
  BY DEF Inv, EndsConsistent
<1>2. PICK gone : gone = {x \in E : f_count[x] = 1}
  OBVIOUS
<1>3. /\ fds' = [fds EXCEPT ![p] = fds[p] \ E]
      /\ f_count' = [x \in Ends |-> f_count[x] - IF x \in E THEN 1 ELSE 0]
      /\ i_count' = i_count - Cardinality(gone)
      /\ asleep' = IF gone = {} THEN asleep ELSE {}
      /\ IF gone # {} /\ i_count' = 0 THEN NewPage ELSE UNCHANGED <<pipe, hist>>
      /\ UNCHANGED loc
  BY <1>2 DEF CloseEnds
<1>4. /\ fds' \in [Procs -> SUBSET Ends] /\ pc' \in [Procs -> {"none", "user", "pipe", "rcopy", "wcopy"} \union Ends]
      /\ fds'[p] = fds[p] \ E /\ pc'[p] = l /\ fds[p] \subseteq Ends
      /\ \A r \in Procs \ {p} : fds'[r] = fds[r] /\ pc'[r] = pc[r]
  BY <1>1, <1>3 DEF TypeOK
<1>5. \A x \in Ends : /\ f_count[x] \in Nat /\ f_count'[x] = f_count[x] - One(x \in E)
                      /\ One(x \in E) = (IF x \in E THEN 1 ELSE 0) /\ (x \in fds[p] => f_count[x] > 0)
  <2>1. \A x \in Ends : f_count[x] \in Nat /\ (x \in fds[p] => f_count[x] # 0)
    BY <1>1, OwnersCounted
  <2>2. \A x \in Ends : f_count'[x] = f_count[x] - One(x \in E)
    BY <1>3 DEF One
  <2> QED BY <2>1, <2>2 DEF One
<1>6. \A x \in Ends : f_count'[x] \in Nat /\ (f_count'[x] > 0 <=> f_count[x] > 0 /\ x \notin gone)
  <2>1. SUFFICES ASSUME NEW x \in Ends
                 PROVE  f_count'[x] \in Nat /\ (f_count'[x] > 0 <=> f_count[x] > 0 /\ x \notin gone)
    OBVIOUS
  <2>2. CASE x \in E
    <3>1. f_count'[x] = f_count[x] - 1 /\ f_count[x] \in Nat /\ f_count[x] > 0 /\ (x \in gone <=> f_count[x] = 1)
      BY <1>2, <1>5, <2>2
    <3> QED BY <3>1
  <2>3. CASE x \notin E
    <3>1. f_count'[x] = f_count[x] /\ f_count[x] \in Nat /\ x \notin gone
      BY <1>2, <1>5, <2>3
    <3> QED BY <3>1
  <2> QED BY <2>2, <2>3
<1>7. gone \subseteq Ends /\ gone \subseteq E
  BY <1>2, <1>4
<1>8. E # {} => \A r \in Procs : pc[r] # "pipe"
  BY <1>4, PipeAlone
<1>9. /\ i_count' \in 0 .. 2
      /\ (~\E r \in Procs : pc[r] = "pipe") => i_count' = Cardinality({x \in Ends : f_count'[x] > 0})
  <2>1. CASE \E r \in Procs : pc[r] = "pipe"
    <3>1. gone = {}
      BY <1>7, <1>8, <2>1
    <3>2. i_count \in 0 .. 2 /\ Cardinality(gone) = 0
      BY <1>1, <3>1, FS_EmptySet DEF TypeOK
    <3> QED BY <1>3, <2>1, <3>2
  <2>2. CASE ~\E r \in Procs : pc[r] = "pipe"
    <3>1. PICK before \in SUBSET Ends : before = {x \in Ends : f_count[x] > 0}
      OBVIOUS
    <3>2. PICK after \in SUBSET Ends : after = {x \in Ends : f_count'[x] > 0}
      OBVIOUS
    <3>3. \A x \in Ends : x \in after <=> x \in before /\ x \notin gone
      BY <1>6, <3>1, <3>2
    <3>4. gone \subseteq before
      BY <1>2, <1>7, <3>1
    <3>5. i_count = Cardinality(before)
      BY <1>1, <2>2, <3>1 DEF CountsAreEnds
    <3>6. /\ Cardinality(before) = One("r" \in before) + One("w" \in before)
          /\ Cardinality(after) = One("r" \in after) + One("w" \in after)
          /\ Cardinality(gone) = One("r" \in gone) + One("w" \in gone)
      BY <1>7, EndsCounted
    <3>7. "r" \in Ends /\ "w" \in Ends
      BY DEF Ends
    <3>8. Cardinality(after) = Cardinality(before) - Cardinality(gone) /\ Cardinality(after) \in 0 .. 2
      BY <3>3, <3>4, <3>6, <3>7 DEF One
    <3> QED BY <1>3, <3>2, <3>5, <3>8
  <2> QED BY <2>1, <2>2
<1>10. RingRight' /\ ring' \in [Ring -> Nat] /\ head' \in Ring /\ tail' \in Ring /\ sent' \in Nat /\ got' \in Seq(Nat)
  <2>1. CASE NewPage
    BY <2>1, NewRing
  <2>2. CASE UNCHANGED <<pipe, hist>>
    BY <1>1, <2>2, RingKept, Types DEF pipe, hist
  <2> QED BY <1>3, <2>1, <2>2
<1>11. TypeOK'
  <2>1. f_count' \in [Ends -> Nat]
    BY <1>3, <1>6
  <2>2. asleep' \subseteq Procs /\ signalled' \subseteq Procs /\ cpu' \in Procs \union {NULL}
    BY <1>1, <1>3 DEF TypeOK
  <2> QED BY <1>1, <1>3, <1>4, <1>9, <1>10, <2>1, <2>2 DEF TypeOK
<1>12. CountsAreEnds'
  <2>1. ASSUME NEW x \in Ends PROVE f_count'[x] = Cardinality({r \in Procs : x \in fds'[r]})
    <3>1. /\ Cardinality(Owners(x)') \in Nat
          /\ Cardinality(Owners(x)') + One(x \in fds[p]) = f_count[x] + One(x \in fds'[p])
      BY <1>1, <1>4, OwnersChange
    <3>2. f_count'[x] = Cardinality(Owners(x)')
      <4>1. CASE x \in E
        <5>1. One(x \in fds[p]) = 1 /\ One(x \in fds'[p]) = 0 /\ One(x \in E) = 1
          BY <1>4, <4>1 DEF One
        <5> QED BY <1>5, <3>1, <5>1
      <4>2. CASE x \notin E
        <5>1. One(x \in fds[p]) = One(x \in fds'[p]) /\ One(x \in fds[p]) \in Nat /\ One(x \in E) = 0
          BY <1>4, <4>2 DEF One
        <5> QED BY <1>5, <3>1, <5>1
      <4> QED BY <4>1, <4>2
    <3> QED BY <3>2 DEF Owners
  <2>2. \A r \in Procs : pc'[r] = "pipe" <=> pc[r] = "pipe"
    BY <1>4
  <2>3. ASSUME NEW r \in Procs
        PROVE  /\ pc'[r] \in {"r", "rcopy"} => "r" \in fds'[r]
               /\ pc'[r] \in {"w", "wcopy"} => "w" \in fds'[r]
    BY <1>1, <1>4 DEF CountsAreEnds
  <2> QED BY <1>9, <2>1, <2>2, <2>3 DEF CountsAreEnds
<1>13. ASSUME NEW r \in Procs PROVE ProcRight(r)'
  <2>1. CASE r = p
    <3>1. p \notin asleep'
      BY <1>3
    <3> QED BY <1>4, <2>1, <3>1 DEF ProcRight
  <2>2. CASE r # p
    <3>1. ProcRight(r) /\ fds'[r] = fds[r] /\ pc'[r] = pc[r] /\ loc' = loc /\ (r \in asleep' => r \in asleep)
      BY <1>1, <1>3, <1>4, <2>2
    <3>2. pc[r] = "pipe" => i_count' = 0 /\ \A x \in Ends : f_count'[x] = 1
      <4>1. SUFFICES ASSUME pc[r] = "pipe" PROVE i_count' = 0 /\ \A x \in Ends : f_count'[x] = 1
        OBVIOUS
      <4>2. E = {} /\ gone = {}
        BY <1>7, <1>8, <4>1
      <4>3. i_count = 0 /\ \A x \in Ends : f_count[x] = 1
        BY <3>1, <4>1 DEF ProcRight
      <4>4. Cardinality(gone) = 0
        BY <4>2, FS_EmptySet
      <4> QED BY <1>3, <4>2, <4>3, <4>4
    <3> QED BY <3>1, <3>2 DEF ProcRight
  <2> QED BY <2>1, <2>2
<1>14. SleepersWait'
  <2>1. CASE gone = {}
    <3>1. i_count \in 0 .. 2 /\ Cardinality(gone) = 0
      BY <1>1, <2>1, FS_EmptySet DEF TypeOK
    <3>2. i_count' = i_count /\ asleep' = asleep /\ head' = head /\ tail' = tail
      BY <1>3, <2>1, <3>1 DEF pipe
    <3>3. \A r \in asleep : pc'[r] = pc[r]
      BY <1>1, <1>4 DEF TypeOK
    <3>4. \A r \in Procs \ asleep : pc[r] \in {"r", "w", "rcopy", "wcopy"} => pc'[r] = pc[r]
      BY <1>4
    <3> QED BY <1>1, <3>2, <3>3, <3>4 DEF SleepersWait, Room, PIPE_SIZE
  <2>2. CASE gone # {}
    BY <1>3, <2>2 DEF SleepersWait
  <2> QED BY <2>1, <2>2
<1> QED BY <1>10, <1>11, <1>12, <1>13, <1>14 DEF Inv, EndsConsistent
-----------------------------------------------------------------------------
(* The invariant holds at first ...                                         *)
LEMMA InitInv == Init => Inv
<1> SUFFICES ASSUME Init PROVE Inv
  OBVIOUS
<1>1. PAGE_SIZE \in Nat /\ PAGE_SIZE > 1 /\ 0 \in Ring /\ First \in Procs
  BY PipeAssumption DEF Ring
<1>2. TypeOK
  BY <1>1 DEF Init, TypeOK, NoLoc
<1>3. CountsAreEnds
  <2>1. \A x \in Ends : {p \in Procs : x \in fds[p]} = {}
    BY DEF Init
  <2>2. {x \in Ends : f_count[x] > 0} = {}
    BY DEF Init
  <2>3. \A p \in Procs : pc[p] \in {"user", "none"}
    BY DEF Init
  <2> QED BY <2>1, <2>2, <2>3, FS_EmptySet DEF CountsAreEnds, Init
<1>4. SleepersWait
  BY DEF Init, SleepersWait
<1>5. \A p \in Procs : ProcRight(p)
  BY DEF Init, ProcRight
<1>6. RingRight
  <2>1. PIPE_SIZE = 0
    <3>1. Between(0, 0) = 0
      BY <1>1, BetweenFacts
    <3> QED BY <3>1 DEF Init, PIPE_SIZE, Between, Masked
  <2>2. Len(got) = 0 /\ sent = 0
    BY DEF Init
  <2> QED BY <2>1, <2>2 DEF RingRight
<1> QED BY <1>2, <1>3, <1>4, <1>5, <1>6 DEF Inv, EndsConsistent

(* ... and every step keeps it.                                             *)
LEMMA NextInv == Inv /\ [Next]_vars => Inv'
<1> SUFFICES ASSUME Inv, [Next]_vars PROVE Inv'
  OBVIOUS
<1>1. CASE Next
  <2>1. UNCHANGED faults
    BY <1>1 DEF Next
  <2>2. PICK p \in Procs :
          \/ SysPipe(p) \/ Exit(p)
          \/ \E q \in Procs : Fork(p, q)
          \/ \E x \in Ends : Close(p, x)
          \/ \E x \in Ends, n \in Counts : Begin(p, x, n)
          \/ Step(p)
    BY <1>1 DEF Next
  <2>3. CASE SysPipe(p)
    BY <2>1, <2>3, SysPipeInv
  <2>4. CASE Exit(p)
    <3>1. /\ pc[p] = "user" /\ p \notin asleep /\ CloseEnds(p, fds[p]) /\ pc' = [pc EXCEPT ![p] = "none"]
          /\ cpu' = NULL /\ signalled' \subseteq signalled
      BY <2>4 DEF Exit, At, Yield
    <3> QED BY <2>1, <3>1, CloseInv
  <2>5. CASE \E q \in Procs : Fork(p, q)
    BY <2>1, <2>5, ForkInv
  <2>6. CASE \E x \in Ends : Close(p, x)
    <3>1. PICK x \in Ends : Close(p, x)
      BY <2>6
    <3>2. /\ pc[p] = "user" /\ p \notin asleep /\ {x} \subseteq fds[p] /\ CloseEnds(p, {x})
          /\ pc' = [pc EXCEPT ![p] = "user"] /\ cpu' = NULL /\ signalled' \subseteq signalled
      BY <3>1 DEF Close, At, Yield
    <3> QED BY <2>1, <3>2, CloseInv
  <2>7. CASE \E x \in Ends, n \in Counts : Begin(p, x, n)
    BY <2>1, <2>7, BeginInv
  <2>8. CASE Step(p)
    <3>1. CASE PipeInode(p)
      BY <2>1, <3>1, PipeInodeInv
    <3>2. CASE \E x \in Ends : Block(p, x) \/ OtherEndClosed(p, x) \/ Done(p, x)
      BY <2>1, <3>2, BlockInv, LeaveInv
    <3>3. CASE ReadTurn(p) \/ WriteTurn(p) \/ ReadCopy(p) \/ WriteCopy(p)
      BY <2>1, <3>3, ReadTurnInv, WriteTurnInv, CopyInv
    <3> QED BY <2>8, <3>1, <3>2, <3>3 DEF Step
  <2> QED BY <2>2, <2>3, <2>4, <2>5, <2>6, <2>7, <2>8
<1>2. CASE UNCHANGED vars
  BY <1>2 DEF vars, pipe, counts, hist, Inv, EndsConsistent, TypeOK, CountsAreEnds, SleepersWait, ProcRight,
              RingRight, PIPE_SIZE, Masked, Room
<1> QED BY <1>1, <1>2

(* The bytes read and the bytes in the ring are the bytes written.          *)
LEMMA RingIsQueue ==
  ASSUME TypeOK, RingRight
  PROVE  FirstInFirstOut
<1>1. SUFFICES ASSUME ~faults PROVE got \o InPipe = [i \in 1 .. sent |-> i]
  BY DEF FirstInFirstOut
<1>2. PICK m \in Nat : m = PIPE_SIZE
  BY SizeFacts
<1>3. /\ Len(got) + m = sent /\ \A i \in 1 .. Len(got) : got[i] = i
      /\ \A i \in 0 .. m - 1 : ring[Masked(tail + i)] = Len(got) + i + 1
  BY <1>1, <1>2 DEF RingRight
<1>4. got \in Seq(Nat) /\ Len(got) \in Nat /\ tail \in Nat /\ sent \in Nat
  <2>1. got \in Seq(Nat) /\ tail \in Ring /\ sent \in Nat
    BY Types
  <2> QED BY <2>1 DEF Ring
<1>5. PICK s : s = InPipe
  OBVIOUS
<1>6. ASSUME NEW i \in 1 .. m PROVE ring[(tail + i - 1) % PAGE_SIZE] = Len(got) + i
  <2>1. PICK k \in 0 .. m - 1 : k = i - 1
    OBVIOUS
  <2>2. tail + k = tail + i - 1 /\ Len(got) + k + 1 = Len(got) + i
    BY <1>4, <2>1
  <2>3. ring[Masked(tail + k)] = Len(got) + k + 1
    BY <1>3
  <2> QED BY <2>2, <2>3 DEF Masked
<1>7. s \in [1 .. m -> Nat] /\ \A i \in 1 .. m : s[i] = Len(got) + i
  <2>1. s = [i \in 1 .. m |-> ring[(tail + i - 1) % PAGE_SIZE]]
    BY <1>2, <1>5 DEF InPipe
  <2>2. \A i \in 1 .. m : Len(got) + i \in Nat
    BY <1>4
  <2> QED BY <1>6, <2>1, <2>2
<1>8. s \in Seq(Nat) /\ Len(s) = m
  BY <1>7
<1>9. PICK all : all = got \o s
  OBVIOUS
<1>10. /\ all \in Seq(Nat) /\ Len(all) = sent
       /\ \A i \in 1 .. sent : all[i] = IF i <= Len(got) THEN got[i] ELSE s[i - Len(got)]
  BY <1>3, <1>4, <1>8, <1>9, ConcatProperties
<1>11. ASSUME NEW i \in 1 .. sent PROVE all[i] = i
  <2>1. CASE i <= Len(got)
    BY <1>3, <1>4, <1>10, <2>1
  <2>2. CASE ~(i <= Len(got))
    <3>1. PICK k \in 1 .. m : k = i - Len(got)
      BY <1>3, <1>4, <2>2
    <3>2. all[i] = s[k] /\ s[k] = Len(got) + k
      BY <1>7, <1>10, <2>2, <3>1
    <3> QED BY <1>4, <3>1, <3>2
  <2> QED BY <2>1, <2>2
<1>12. all = [i \in 1 .. sent |-> i]
  <2>1. DOMAIN all = 1 .. sent /\ all = [i \in DOMAIN all |-> all[i]]
    BY <1>10
  <2> QED BY <1>11, <2>1
<1> QED BY <1>5, <1>9, <1>12

(* The inductive invariant.                                                 *)
LEMMA Invariance == Spec => []Inv
<1> QED BY InitInv, NextInv, PTL DEF Spec

(* However many processes share a pipe, and whatever they inherit and       *)
(* close: i_count counts the ends somebody has, and nobody sleeps in        *)
(* read_pipe() or write_pipe() who could go on.                             *)
THEOREM EndsStayConsistent == Spec => []EndsConsistent
<1>1. Inv => EndsConsistent
  BY DEF Inv
<1> QED BY <1>1, Invariance, PTL

(* Without faults in the copies a pipe is a queue, whatever its size and    *)
(* however many readers and writers it has.                                 *)
THEOREM PipeIsQueue == Spec => []FirstInFirstOut
<1>1. Inv => FirstInFirstOut
  BY RingIsQueue DEF Inv, EndsConsistent
<1> QED BY <1>1, Invariance, PTL
=============================================================================
