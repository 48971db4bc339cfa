-------------------------- MODULE InodeCacheProofs --------------------------
(***************************************************************************)
(* Proofs about InodeCache, for any number of processes, table entries and *)
(* inode numbers: i_count counts the references (TableConsistent), no      *)
(* inode is in the table twice (OneInodePerNumber), a lock has one owner   *)
(* (LocksSound) and no change is lost (ChangesKept).                       *)
(***************************************************************************)
EXTENDS InodeCache, FiniteSetTheorems, WellFoundedInduction, TLAPS

(* The entry that iget() has in hand while it searches.                     *)
InHand == [Cleared EXCEPT !.count = 1]

(* Where a process is that has no entry of its own.                         *)
Outside == {"user", "iget", "match", "create", "pipe"}

(* What p has, by where it is: nothing, or an empty entry, before it has an *)
(* inode; then its pipe, or the inode of its number.                        *)
ProcRight(p) ==
  /\ pc[p] \in Outside \ {"match"} => loc[p].e = 0
  /\ pc[p] = "match" <=> loc[p].empty # 0
  /\ pc[p] \in {"iget", "match"} => loc[p].op \in {"change", "unlink"} /\ loc[p].nr \in Nums
  /\ pc[p] = "match" => loc[p].e # 0 /\ inode[loc[p].empty] = InHand
  /\ pc[p] \in {"create", "pipe"} => loc[p].op = pc[p]
  /\ pc[p] \in {"sync", "syncwrite"} => loc[p].i >= 1 /\ (loc[p].op = "sync" <=> loc[p].e = 0)
  /\ pc[p] = "syncwrite" => loc[p].i \in Entries
  /\ pc[p] \notin Outside \union {"sync", "syncwrite"} => loc[p].e # 0
  /\ pc[p] \notin Outside /\ loc[p].e # 0 =>
       IF loc[p].op = "pipe"
         THEN pc[p] \in {"held", "iput"} /\ inode[loc[p].e].pipe /\ loc[p].i \in {1, 2}
         ELSE /\ loc[p].op \in {"change", "unlink", "create"} /\ loc[p].nr \in Nums
              /\ inode[loc[p].e].num = loc[p].nr /\ ~inode[loc[p].e].pipe

(* An entry nobody uses has nothing to write; nor has a pipe.               *)
EntryRight(e) ==
  /\ inode[e].count = 0 => ~inode[e].dirt /\ ~inode[e].lock
  /\ inode[e].pipe => inode[e].num = 0 /\ ~inode[e].dirt /\ ~inode[e].lock

(* As long as iget() has not read a freed inode, the inodes in the table    *)
(* are used ones, and each is there once.                                   *)
NumsRight ==
  ~stale =>
    /\ \A e, f \in Entries : inode[e].num = inode[f].num /\ inode[e].num # 0 => e = f
    /\ \A e \in Entries : inode[e].num # 0 => inode[e].num \in imap

(* p is the one who has locked e.                                           *)
Locker(p, e) ==
  \/ pc[p] \in {"read", "write"} /\ loc[p].e = e
  \/ pc[p] = "syncwrite" /\ loc[p].i = e

(* As long as free_inode() has not cleared a locked entry, a lock has one   *)
(* owner, who alone refers to the entry if it reads it, and sleepers sleep  *)
(* on locked entries.                                                       *)
LocksRight ==
  ~torn =>
    /\ \A e \in Entries : \A p \in Procs : Locker(p, e) => inode[e].lock
    /\ \A e \in Entries : \A p, q \in Procs : Locker(p, e) /\ Locker(q, e) => p = q
    /\ \A e \in Entries : inode[e].lock => \E p \in Procs : Locker(p, e)
    /\ \A p \in Procs : pc[p] = "read" => inode[loc[p].e].count = 1
    /\ \A p \in Procs : wait[p] # 0 => wait[p] \in Entries /\ inode[wait[p]].lock

Types ==
  /\ TableTypes
  /\ last \in [Nums -> Vals] /\ torn \in BOOLEAN /\ stale \in BOOLEAN
  /\ scenario \in Scenarios

(* The inductive invariant.                                                 *)
Inv ==
  /\ Types /\ CountIsReferences
  /\ \A p \in Procs : ProcRight(p)
  /\ \A e \in Entries : EntryRight(e)
  /\ NumsRight /\ LocksRight /\ ChangesKept
-----------------------------------------------------------------------------
(* Any non-empty set of naturals has a least element.                      *)
LEMMA LeastNat ==
  ASSUME NEW T \in SUBSET Nat, T # {}
  PROVE  \E x \in T : \A y \in T : x =< y
<1> DEFINE R == {ss \in Nat \X Nat : ss[1] < ss[2]}
<1>1. IsWellFoundedOn(R, Nat)
  BY NatLessThanWellFounded DEF OpToRel
<1>2. ASSUME NEW a \in Nat, NEW b \in Nat, a < b PROVE <<a, b>> \in R
  <2>1. <<a, b>> \in Nat \X Nat /\ <<a, b>>[1] = a /\ <<a, b>>[2] = b
    OBVIOUS
  <2> QED BY <1>2, <2>1
<1> HIDE DEF R
<1>3. PICK x \in T : \A y \in T : ~(<<y, x>> \in R)
  BY <1>1, WFMin
<1>4. ASSUME NEW y \in T PROVE x =< y
  <2>1. x \in Nat /\ y \in Nat
    OBVIOUS
  <2>2. ~(y < x)
    BY <1>2, <1>3, <2>1
  <2> QED BY <2>1, <2>2
<1> QED BY <1>4

(* Min() is that element: the searches from the bottom of a table up.       *)
LEMMA MinFacts ==
  ASSUME NEW T \in SUBSET Nat, T # {}
  PROVE  Min(T) \in T /\ \A y \in T : Min(T) =< y
BY LeastNat DEF Min
-----------------------------------------------------------------------------
(* Counting.                                                                *)
One(b) == IF b THEN 1 ELSE 0

(* The size of a set when only whether a is in it changes.                  *)
LEMMA OneChanges ==
  ASSUME NEW T, IsFiniteSet(T), NEW A \in SUBSET T, NEW B \in SUBSET T, NEW a \in T,
         \A b \in T \ {a} : b \in A <=> b \in B
  PROVE  /\ Cardinality(A) \in Nat /\ Cardinality(B) \in Nat
         /\ Cardinality(B) + One(a \in A) = Cardinality(A) + One(a \in B)
<1>1. IsFiniteSet(A) /\ IsFiniteSet(B)
  BY FS_Subset
<1>2. Cardinality(A) \in Nat /\ Cardinality(B) \in Nat
  BY <1>1, FS_CardinalityType
<1>3. CASE a \in A <=> a \in B
  <2>1. A = B
    BY <1>3
  <2> QED BY <1>2, <1>3, <2>1 DEF One
<1>4. CASE a \in A /\ a \notin B
  <2>1. A = B \union {a}
    BY <1>4
  <2>2. Cardinality(A) = Cardinality(B) + 1
    BY <1>1, <1>4, <2>1, FS_AddElement
  <2> QED BY <1>2, <1>4, <2>2 DEF One
<1>5. CASE a \notin A /\ a \in B
  <2>1. B = A \union {a}
    BY <1>5
  <2>2. Cardinality(B) = Cardinality(A) + 1
    BY <1>1, <1>5, <2>1, FS_AddElement
  <2> QED BY <1>2, <1>5, <2>2 DEF One
<1> QED BY <1>3, <1>4, <1>5

(* Sets without an element, and sets with one.                              *)
LEMMA SmallSets ==
  ASSUME NEW S, IsFiniteSet(S)
  PROVE  /\ Cardinality(S) \in Nat
         /\ Cardinality(S) = 0 <=> S = {}
         /\ Cardinality(S) = 1 => \A a, b \in S : a = b
BY FS_CardinalityType, FS_EmptySet, FS_Singleton

(* The references that p has to e, and the processes that have them.        *)
Refs(p, e) == One(loc[p].empty = e) + One(Holds(p, e)) + One(HoldsBoth(p, e))
InHands(e) == {p \in Procs : loc[p].empty = e}
Holders(e) == {p \in Procs : Holds(p, e)}
PipeHolders(e) == {p \in Procs : HoldsBoth(p, e)}
Total(e) == Cardinality(InHands(e)) + Cardinality(Holders(e)) + Cardinality(PipeHolders(e))

(* Only p moves.                                                            *)
OnlyP(p) == \A q \in Procs \ {p} : loc'[q] = loc[q] /\ pc'[q] = pc[q]

(* Processes are finite in number.                                          *)
LEMMA FiniteProcs == IsFiniteSet(Procs)
BY InodeAssumption

(* i_count is Total().                                                      *)
LEMMA CountIsTotal == CountIsReferences <=> \A e \in Entries : inode[e].count = Total(e)
BY DEF CountIsReferences, Total, InHands, Holders, PipeHolders

(* The number of references to e, when only p moves.                        *)
LEMMA TotalChanges ==
  ASSUME NEW p \in Procs, NEW e \in Entries, OnlyP(p)
  PROVE  /\ Total(e) \in Nat /\ Total(e)' \in Nat
         /\ Refs(p, e) \in Nat /\ Refs(p, e)' \in Nat
         /\ Total(e)' + Refs(p, e) = Total(e) + Refs(p, e)'
<1>1. /\ InHands(e) \in SUBSET Procs /\ InHands(e)' \in SUBSET Procs
      /\ \A q \in Procs \ {p} : q \in InHands(e) <=> q \in InHands(e)'
      /\ p \in InHands(e) <=> loc[p].empty = e
      /\ p \in InHands(e)' <=> loc'[p].empty = e
  BY DEF InHands, OnlyP
<1>2. /\ Cardinality(InHands(e)) \in Nat /\ Cardinality(InHands(e)') \in Nat
      /\ Cardinality(InHands(e)') + One(p \in InHands(e)) = Cardinality(InHands(e)) + One(p \in InHands(e)')
  BY <1>1, OneChanges, FiniteProcs
<1>3. /\ Holders(e) \in SUBSET Procs /\ Holders(e)' \in SUBSET Procs
      /\ \A q \in Procs \ {p} : q \in Holders(e) <=> q \in Holders(e)'
      /\ p \in Holders(e) <=> Holds(p, e)
      /\ p \in Holders(e)' <=> Holds(p, e)'
  BY DEF Holders, OnlyP, Holds
<1>4. /\ Cardinality(Holders(e)) \in Nat /\ Cardinality(Holders(e)') \in Nat
      /\ Cardinality(Holders(e)') + One(p \in Holders(e)) = Cardinality(Holders(e)) + One(p \in Holders(e)')
  BY <1>3, OneChanges, FiniteProcs
<1>5. /\ PipeHolders(e) \in SUBSET Procs /\ PipeHolders(e)' \in SUBSET Procs
      /\ \A q \in Procs \ {p} : q \in PipeHolders(e) <=> q \in PipeHolders(e)'
      /\ p \in PipeHolders(e) <=> HoldsBoth(p, e)
      /\ p \in PipeHolders(e)' <=> HoldsBoth(p, e)'
  BY DEF PipeHolders, OnlyP, Holds, HoldsBoth
<1>6. /\ Cardinality(PipeHolders(e)) \in Nat /\ Cardinality(PipeHolders(e)') \in Nat
      /\ Cardinality(PipeHolders(e)') + One(p \in PipeHolders(e))
         = Cardinality(PipeHolders(e)) + One(p \in PipeHolders(e)')
  BY <1>5, OneChanges, FiniteProcs
<1>7. /\ One(p \in InHands(e)) = One(loc[p].empty = e) /\ One(p \in InHands(e)') = One(loc'[p].empty = e)
      /\ One(p \in Holders(e)) = One(Holds(p, e)) /\ One(p \in Holders(e)') = One(Holds(p, e)')
      /\ One(p \in PipeHolders(e)) = One(HoldsBoth(p, e)) /\ One(p \in PipeHolders(e)') = One(HoldsBoth(p, e)')
  BY <1>1, <1>3, <1>5 DEF One
<1>8. /\ One(loc[p].empty = e) \in Nat /\ One(loc'[p].empty = e) \in Nat
      /\ One(Holds(p, e)) \in Nat /\ One(Holds(p, e)') \in Nat
      /\ One(HoldsBoth(p, e)) \in Nat /\ One(HoldsBoth(p, e)') \in Nat
  BY DEF One
<1>9. /\ Total(e) = Cardinality(InHands(e)) + Cardinality(Holders(e)) + Cardinality(PipeHolders(e))
      /\ Total(e)' = Cardinality(InHands(e)') + Cardinality(Holders(e)') + Cardinality(PipeHolders(e)')
  BY DEF Total
<1>10. /\ Refs(p, e) = One(loc[p].empty = e) + One(Holds(p, e)) + One(HoldsBoth(p, e))
       /\ Refs(p, e)' = One(loc'[p].empty = e) + One(Holds(p, e)') + One(HoldsBoth(p, e)')
  BY DEF Refs, One
<1>11. Refs(p, e) \in Nat /\ Refs(p, e)' \in Nat /\ Total(e) \in Nat /\ Total(e)' \in Nat
  BY <1>2, <1>4, <1>6, <1>8, <1>9, <1>10
<1>12. Total(e)' + Refs(p, e) = Total(e) + Refs(p, e)'
  BY <1>2, <1>4, <1>6, <1>7, <1>8, <1>9, <1>10
<1> QED BY <1>11, <1>12

(* Counts stay right when an entry's count changes as p's references do.    *)
LEMMA CountsKept ==
  ASSUME CountIsReferences, NEW p \in Procs, OnlyP(p),
         \A e \in Entries : inode'[e].count \in Nat /\ inode'[e].count + Refs(p, e) = inode[e].count + Refs(p, e)'
  PROVE  CountIsReferences'
<1>1. ASSUME NEW e \in Entries PROVE inode'[e].count = Total(e)'
  <2>1. inode[e].count = Total(e)
    BY CountIsTotal
  <2>2. /\ Total(e) \in Nat /\ Total(e)' \in Nat /\ Refs(p, e) \in Nat /\ Refs(p, e)' \in Nat
        /\ Total(e)' + Refs(p, e) = Total(e) + Refs(p, e)'
    BY TotalChanges
  <2>3. inode'[e].count \in Nat /\ inode'[e].count + Refs(p, e) = Total(e) + Refs(p, e)'
    BY <2>1
  <2> QED BY <2>2, <2>3
<1> QED BY <1>1 DEF CountIsReferences, Total, InHands, Holders, PipeHolders, Holds, HoldsBoth

(* A set without one of its elements.                                       *)
LEMMA WithoutOne ==
  ASSUME NEW S \in SUBSET Procs, NEW p \in Procs
  PROVE  /\ Cardinality(S) \in Nat /\ Cardinality(S \ {p}) \in Nat
         /\ Cardinality(S) = Cardinality(S \ {p}) + One(p \in S)
         /\ Cardinality(S \ {p}) = 0 => \A q \in S : q = p
<1>1. IsFiniteSet(S \ {p}) /\ S \ {p} \in SUBSET Procs
  BY FiniteProcs, FS_Subset
<1>2. /\ Cardinality(S) \in Nat /\ Cardinality(S \ {p}) \in Nat
      /\ Cardinality(S) + One(p \in S \ {p}) = Cardinality(S \ {p}) + One(p \in S)
  BY <1>1, OneChanges, FiniteProcs
<1>3. One(p \in S \ {p}) = 0
  BY DEF One
<1>4. Cardinality(S \ {p}) = 0 => S \ {p} = {}
  BY <1>1, SmallSets
<1> QED BY <1>2, <1>3, <1>4

(* Nobody but p refers to e.                                                *)
Sole(p, e) == \A q \in Procs \ {p} : loc[q].empty # e /\ ~Holds(q, e)

(* i_count is at least what p has of it, and p is alone if that is all.     *)
LEMMA References ==
  ASSUME CountIsReferences, NEW p \in Procs, NEW e \in Entries
  PROVE  /\ inode[e].count \in Nat /\ Refs(p, e) \in Nat /\ Refs(p, e) <= inode[e].count
         /\ Refs(p, e) = inode[e].count => Sole(p, e)
<1>1. /\ InHands(e) \in SUBSET Procs /\ Holders(e) \in SUBSET Procs /\ PipeHolders(e) \in SUBSET Procs
      /\ \A q \in Procs : /\ q \in InHands(e) <=> loc[q].empty = e
                          /\ q \in Holders(e) <=> Holds(q, e)
                          /\ q \in PipeHolders(e) <=> HoldsBoth(q, e)
  BY DEF InHands, Holders, PipeHolders
<1>2. PICK a \in Nat : /\ a = Cardinality(InHands(e) \ {p}) /\ Cardinality(InHands(e)) = a + One(p \in InHands(e))
                       /\ a = 0 => \A q \in InHands(e) : q = p
  BY <1>1, WithoutOne
<1>3. PICK b \in Nat : /\ b = Cardinality(Holders(e) \ {p}) /\ Cardinality(Holders(e)) = b + One(p \in Holders(e))
                       /\ b = 0 => \A q \in Holders(e) : q = p
  BY <1>1, WithoutOne
<1>4. PICK c \in Nat : /\ c = Cardinality(PipeHolders(e) \ {p})
                       /\ Cardinality(PipeHolders(e)) = c + One(p \in PipeHolders(e))
  BY <1>1, WithoutOne
<1>5. /\ One(p \in InHands(e)) = One(loc[p].empty = e) /\ One(loc[p].empty = e) \in Nat
      /\ One(p \in Holders(e)) = One(Holds(p, e)) /\ One(Holds(p, e)) \in Nat
      /\ One(p \in PipeHolders(e)) = One(HoldsBoth(p, e)) /\ One(HoldsBoth(p, e)) \in Nat
  BY <1>1 DEF One
<1>6. inode[e].count = Cardinality(InHands(e)) + Cardinality(Holders(e)) + Cardinality(PipeHolders(e))
  BY CountIsTotal DEF Total
<1>7. Refs(p, e) = One(loc[p].empty = e) + One(Holds(p, e)) + One(HoldsBoth(p, e)) /\ Refs(p, e) \in Nat
  BY <1>5 DEF Refs
<1>8. inode[e].count = Refs(p, e) + (a + b + c)
  BY <1>2, <1>3, <1>4, <1>5, <1>6, <1>7
<1>9. Refs(p, e) = inode[e].count => a = 0 /\ b = 0
  BY <1>7, <1>8
<1>10. Refs(p, e) = inode[e].count => Sole(p, e)
  BY <1>1, <1>2, <1>3, <1>9 DEF Sole
<1> QED BY <1>7, <1>8, <1>10

(* An entry that p refers to is counted, and p's alone if once.             *)
LEMMA Referenced ==
  ASSUME CountIsReferences, NEW p \in Procs, NEW e \in Entries, loc[p].empty = e \/ Holds(p, e)
  PROVE  /\ inode[e].count \in Nat /\ inode[e].count >= 1
         /\ inode[e].count = 1 => Sole(p, e)
<1>1. /\ inode[e].count \in Nat /\ Refs(p, e) \in Nat /\ Refs(p, e) <= inode[e].count
      /\ Refs(p, e) = inode[e].count => Sole(p, e)
  BY References
<1>2. One(loc[p].empty = e) \in Nat /\ One(Holds(p, e)) \in Nat /\ One(HoldsBoth(p, e)) \in Nat
  BY DEF One
<1>3. One(loc[p].empty = e) >= 1 \/ One(Holds(p, e)) >= 1
  BY DEF One
<1>4. Refs(p, e) >= 1
  BY <1>2, <1>3 DEF Refs
<1> QED BY <1>1, <1>4

(* Nobody refers to an unused entry.                                        *)
LEMMA Unreferenced ==
  ASSUME CountIsReferences, NEW e \in Entries, inode[e].count = 0
  PROVE  \A p \in Procs : loc[p].empty # e /\ ~Holds(p, e)
BY Referenced

(* The references of a process at c with the local variables l.             *)
RefsOf(l, c, e) ==
  IF c = "match" THEN One(l.empty = e)
  ELSE IF c \in Outside \/ l.e # e THEN 0
  ELSE IF l.op = "pipe" /\ l.i = 2 THEN 2 ELSE 1

(* A process that has an empty entry in hand is at "match", and one that is *)
(* outside has no other.                                                    *)
Placed(l, c) == (c = "match" <=> l.empty # 0) /\ (c \in Outside \ {"match"} => l.e = 0)

(* They are its references.                                                 *)
LEMMA RefsFacts ==
  ASSUME NEW l, NEW c, Placed(l, c), NEW e \in Entries
  PROVE  RefsOf(l, c, e) = One(l.empty = e)
                           + One(l.e = e /\ c \notin {"iget", "match", "create", "pipe"})
                           + One((l.e = e /\ c \notin {"iget", "match", "create", "pipe"})
                                 /\ l.op = "pipe" /\ l.i = 2)
<1>1. e # 0
  BY InodeAssumption DEF Entries
<1>2. CASE c = "match"
  BY <1>2 DEF RefsOf, One
<1>3. CASE c \in Outside \ {"match"}
  BY <1>1, <1>3 DEF RefsOf, One, Placed
<1>4. CASE c \notin Outside
  BY <1>1, <1>4 DEF RefsOf, One, Placed, Outside
<1> QED BY <1>2, <1>3, <1>4

(* Whoever has entry x, and no pipe, has one reference.                     *)
LEMMA RefsHeld ==
  ASSUME NEW l, NEW c, c \notin Outside, NEW x, l.e = x, l.op # "pipe"
  PROVE  \A e \in Entries : RefsOf(l, c, e) = IF e = x THEN 1 ELSE 0
BY DEF RefsOf, Outside

(* What p refers to before and after a step.                                *)
LEMMA RefsByPlace ==
  ASSUME NEW p \in Procs, NEW e \in Entries
  PROVE  /\ Placed(loc[p], pc[p]) => Refs(p, e) = RefsOf(loc[p], pc[p], e)
         /\ Placed(loc'[p], pc'[p]) => Refs(p, e)' = RefsOf(loc'[p], pc'[p], e)
BY RefsFacts DEF Refs, Holds, HoldsBoth, One
-----------------------------------------------------------------------------
(* What a step keeps of the rest of the table.                              *)

(* The types, one by one.                                                   *)
Inode == [num : Nums \union {0}, count : Nat, dirt : BOOLEAN, lock : BOOLEAN,
          pipe : BOOLEAN, nlinks : 0 .. 255, val : Vals]
Local == [op : Calls \union {"none"}, nr : Nums \union {0}, e : Entries \union {0},
          empty : Entries \union {0}, i : Nat]

(* The types, one by one.                                                   *)
LEMMA TypeFacts ==
  ASSUME Types
  PROVE  /\ inode \in [Entries -> Inode]
         /\ disk \in [Nums -> [nlinks : 0 .. 255, val : Vals]]
         /\ imap \subseteq Nums /\ names \subseteq Nums
         /\ pc \in [Procs -> Locations] /\ loc \in [Procs -> Local]
         /\ wait \in [Procs -> Entries \union {0, Lost}]
         /\ last \in [Nums -> Vals] /\ torn \in BOOLEAN /\ stale \in BOOLEAN
BY DEF Types, TableTypes, Inode, Local

(* Facts about the constants.                                               *)
LEMMA Constants ==
  /\ NR_INODE \in Nat /\ NR_INODE >= 1 /\ Entries \subseteq Nat /\ 0 \notin Entries /\ Lost \notin Entries
  /\ Nums \subseteq Nat /\ 0 \notin Nums /\ 0 \in Vals
  /\ Cleared \in Inode /\ InHand \in Inode
  /\ InHand.num = 0 /\ InHand.count = 1 /\ ~InHand.dirt /\ ~InHand.lock /\ ~InHand.pipe
  /\ NoLoc \in Local
<1>1. /\ NR_INODE \in Nat /\ NR_INODE >= 1 /\ Entries \subseteq Nat /\ 0 \notin Entries /\ Lost \notin Entries
      /\ Nums \subseteq Nat /\ 0 \notin Nums /\ 0 \in Vals
  BY InodeAssumption DEF Entries, Lost
<1>2. Cleared \in Inode
  BY <1>1 DEF Cleared, Inode
<1>3. InHand \in Inode
  BY <1>2 DEF InHand, Inode
<1>4. InHand.num = 0 /\ InHand.count = 1 /\ ~InHand.dirt /\ ~InHand.lock /\ ~InHand.pipe
  BY DEF Cleared, InHand
<1>5. NoLoc \in Local
  BY <1>1 DEF NoLoc, Local
<1> QED BY <1>1, <1>2, <1>3, <1>4, <1>5

(* e stays the same inode, and in hand if it was.                           *)
Harmless(e) ==
  /\ inode'[e].num = inode[e].num /\ inode'[e].pipe = inode[e].pipe
  /\ inode[e] = InHand => inode'[e] = inode[e]

(* What others have stays theirs.                                           *)
LEMMA OthersRight ==
  ASSUME Types, NEW p \in Procs, OnlyP(p), \A e \in Entries : Harmless(e) \/ Sole(p, e),
         NEW q \in Procs \ {p}, ProcRight(q)
  PROVE  ProcRight(q)'
<1>1. loc'[q] = loc[q] /\ pc'[q] = pc[q]
  BY DEF OnlyP
<1>2. loc[q] \in Local
  BY TypeFacts
<1>3. loc[q].e \in Entries \union {0} /\ loc[q].empty \in Entries \union {0}
  BY <1>2 DEF Local
<1>4. pc[q] = "match" => inode'[loc[q].empty] = InHand
  <2>1. SUFFICES ASSUME pc[q] = "match" PROVE inode'[loc[q].empty] = InHand
    OBVIOUS
  <2>2. loc[q].empty \in Entries /\ inode[loc[q].empty] = InHand
    BY <1>3, <2>1 DEF ProcRight
  <2>3. ~Sole(p, loc[q].empty)
    BY DEF Sole
  <2> QED BY <2>2, <2>3 DEF Harmless
<1>5. pc[q] \notin Outside /\ loc[q].e # 0 =>
        inode'[loc[q].e].num = inode[loc[q].e].num /\ inode'[loc[q].e].pipe = inode[loc[q].e].pipe
  <2>1. SUFFICES ASSUME pc[q] \notin Outside, loc[q].e # 0 PROVE Harmless(loc[q].e)
    BY DEF Harmless
  <2>2. Holds(q, loc[q].e) /\ loc[q].e \in Entries
    BY <1>3, <2>1 DEF Holds, Outside
  <2>3. ~Sole(p, loc[q].e)
    BY <2>2 DEF Sole
  <2> QED BY <2>2, <2>3
<1> QED BY <1>1, <1>4, <1>5 DEF ProcRight

(* Numbers that stay, or go.                                                *)
LEMMA NumsKept ==
  ASSUME NumsRight, stale' = stale, imap' = imap,
         \A e \in Entries : inode'[e].num = inode[e].num \/ inode'[e].num = 0
  PROVE  NumsRight'
BY DEF NumsRight

(* p neither has a lock nor gets one, and locked entries stay as they are.  *)
LocksSame(p) ==
  /\ pc[p] \notin {"read", "write", "syncwrite"} /\ pc'[p] \notin {"read", "write", "syncwrite"}
  /\ \A e \in Entries : /\ inode'[e].lock = inode[e].lock
                        /\ inode[e].lock => inode'[e].count = inode[e].count
  /\ \A q \in Procs : \/ wait'[q] = wait[q] \/ wait'[q] = 0
                      \/ wait'[q] \in Entries /\ inode[wait'[q]].lock

(* The entry a process reads.                                               *)
LEMMA ReaderFacts ==
  ASSUME Types, NEW q \in Procs, ProcRight(q), pc[q] \in {"read", "write"}
  PROVE  loc[q].e \in Entries /\ Holds(q, loc[q].e) /\ Locker(q, loc[q].e)
<1>1. loc[q].e \in Entries \union {0}
  BY TypeFacts DEF Local
<1>2. loc[q].e # 0
  BY DEF ProcRight, Outside
<1> QED BY <1>1, <1>2 DEF Holds, Locker

(* Locks stay right.                                                        *)
LEMMA LocksKept ==
  ASSUME Types, \A q \in Procs : ProcRight(q), LocksRight,
         NEW p \in Procs, OnlyP(p), LocksSame(p), torn' = torn
  PROVE  LocksRight'
<1>1. SUFFICES ASSUME ~torn
      PROVE  /\ \A e \in Entries : \A q \in Procs : Locker(q, e)' => inode'[e].lock
             /\ \A e \in Entries : \A q, r \in Procs : Locker(q, e)' /\ Locker(r, e)' => q = r
             /\ \A e \in Entries : inode'[e].lock => \E q \in Procs : Locker(q, e)'
             /\ \A q \in Procs : pc'[q] = "read" => inode'[loc'[q].e].count = 1
             /\ \A q \in Procs : wait'[q] # 0 => wait'[q] \in Entries /\ inode'[wait'[q]].lock
  BY DEF LocksRight
<1>2. /\ \A e \in Entries : \A q \in Procs : Locker(q, e) => inode[e].lock
      /\ \A e \in Entries : \A q, r \in Procs : Locker(q, e) /\ Locker(r, e) => q = r
      /\ \A e \in Entries : inode[e].lock => \E q \in Procs : Locker(q, e)
      /\ \A q \in Procs : pc[q] = "read" => inode[loc[q].e].count = 1
      /\ \A q \in Procs : wait[q] # 0 => wait[q] \in Entries /\ inode[wait[q]].lock
  BY <1>1 DEF LocksRight
<1>3. \A q \in Procs, e \in Entries : Locker(q, e)' <=> Locker(q, e)
  BY DEF Locker, OnlyP, LocksSame
<1>4. \A e \in Entries : inode'[e].lock = inode[e].lock /\ (inode[e].lock => inode'[e].count = inode[e].count)
  BY DEF LocksSame
<1>5. ASSUME NEW q \in Procs, pc'[q] = "read" PROVE inode'[loc'[q].e].count = 1
  <2>1. loc'[q] = loc[q] /\ pc[q] = "read"
    BY <1>5 DEF OnlyP, LocksSame
  <2>2. loc[q].e \in Entries /\ Locker(q, loc[q].e)
    BY <2>1, ReaderFacts
  <2> QED BY <1>2, <1>4, <2>1, <2>2
<1>6. ASSUME NEW q \in Procs, wait'[q] # 0 PROVE wait'[q] \in Entries /\ inode'[wait'[q]].lock
  BY <1>2, <1>4, <1>6 DEF LocksSame
<1> QED BY <1>2, <1>3, <1>4, <1>5, <1>6

(* The entries that are read from the disk.                                 *)
Reads(p, e) == pc[p] = "read" /\ loc[p].e = e
IsLoaded(e) == \A p \in Procs : ~Reads(p, e)

(* ChangesKept in these words.                                              *)
KeptFor(n) ==
  /\ \A e \in Entries : inode[e].num = n /\ IsLoaded(e) =>
       inode[e].val = last[n] /\ (inode[e].dirt \/ disk[n].val = last[n])
  /\ (\A e \in Entries : ~(inode[e].num = n /\ IsLoaded(e))) => disk[n].val = last[n]

(* ChangesKept in these words.                                              *)
LEMMA KeptIsKeptFor == ChangesKept <=> (~torn /\ ~stale => \A n \in imap : KeptFor(n))
<1>1. ASSUME NEW n \in imap
      PROVE  /\ \A e \in Entries : e \in Loaded(n) <=> inode[e].num = n /\ IsLoaded(e)
             /\ Loaded(n) \subseteq Entries
  BY DEF Loaded, IsLoaded, Reads
<1> QED BY <1>1 DEF ChangesKept, KeptFor

(* A loaded entry that a step loads still, or that it need not write.       *)
Preserved(e, n) ==
  /\ inode'[e].num = n /\ IsLoaded(e)' =>
       /\ inode[e].num = n /\ IsLoaded(e) /\ inode'[e].val = inode[e].val
       /\ inode[e].dirt => inode'[e].dirt
  /\ inode[e].num = n /\ IsLoaded(e) /\ ~(inode'[e].num = n /\ IsLoaded(e)') => ~inode[e].dirt

(* Changes are kept as long as the disk is left alone and entries are       *)
(* preserved.                                                               *)
LEMMA ChangesSame ==
  ASSUME ChangesKept, ~torn' /\ ~stale' => ~torn /\ ~stale, disk' = disk, last' = last, imap' \subseteq imap,
         \A e \in Entries : \A n \in imap' : Preserved(e, n)
  PROVE  ChangesKept'
<1>1. SUFFICES ASSUME ~torn', ~stale', NEW n \in imap' PROVE KeptFor(n)'
  <2>1. ~torn' /\ ~stale' => \A n \in imap' : KeptFor(n)'
    BY <1>1
  <2>2. ASSUME NEW n \in imap'
        PROVE  /\ \A e \in Entries : e \in Loaded(n)' <=> inode'[e].num = n /\ IsLoaded(e)'
               /\ Loaded(n)' \subseteq Entries
    BY DEF Loaded, IsLoaded, Reads
  <2> QED BY <2>1, <2>2 DEF ChangesKept, KeptFor
<1>2. KeptFor(n)
  BY <1>1, KeptIsKeptFor
<1>3. \A e \in Entries : inode'[e].num = n /\ IsLoaded(e)' =>
        inode'[e].val = last[n] /\ (inode'[e].dirt \/ disk[n].val = last[n])
  BY <1>2 DEF KeptFor, Preserved
<1>4. (\A e \in Entries : ~(inode'[e].num = n /\ IsLoaded(e)')) => disk[n].val = last[n]
  BY <1>2 DEF KeptFor, Preserved
<1> QED BY <1>3, <1>4 DEF KeptFor

(* An entry is preserved by a step that leaves its reader alone and keeps   *)
(* its contents, or clears it when it is clean.                             *)
LEMMA PreservedIf ==
  ASSUME NEW p \in Procs, OnlyP(p), pc[p] # "read", pc'[p] # "read", NEW e \in Entries, NEW n,
         \/ inode'[e].num = inode[e].num /\ inode'[e].val = inode[e].val /\ (inode[e].dirt => inode'[e].dirt)
         \/ inode'[e].num # n /\ (inode[e].num = n => ~inode[e].dirt)
  PROVE  Preserved(e, n)
<1>1. \A q \in Procs : Reads(q, e)' <=> Reads(q, e)
  BY DEF OnlyP, Reads
<1>2. IsLoaded(e)' <=> IsLoaded(e)
  BY <1>1 DEF IsLoaded
<1> QED BY <1>2 DEF Preserved
-----------------------------------------------------------------------------
(* Steps in which p neither takes nor frees a lock and reads nothing.       *)

(* What such a step does to an entry.                                       *)
EntryStep(p, e) ==
  /\ inode'[e].lock = inode[e].lock /\ (inode[e].lock => inode'[e].count = inode[e].count)
  /\ Harmless(e) \/ Sole(p, e)
  /\ EntryRight(e)'
  /\ inode'[e].count + Refs(p, e) = inode[e].count + Refs(p, e)'
  /\ \/ inode'[e].num = inode[e].num /\ inode'[e].val = inode[e].val /\ (inode[e].dirt => inode'[e].dirt)
     \/ inode'[e].num = 0 /\ ~inode[e].dirt

(* The types after a step.                                                  *)
NextTypes ==
  /\ inode' \in [Entries -> Inode] /\ pc' \in [Procs -> Locations] /\ loc' \in [Procs -> Local]
  /\ wait' \in [Procs -> Entries \union {0, Lost}] /\ names' \subseteq Nums

PlainStep(p) ==
  /\ OnlyP(p) /\ NextTypes
  /\ pc[p] \notin {"read", "write", "syncwrite"} /\ pc'[p] \notin {"read", "write", "syncwrite"}
  /\ \A e \in Entries : EntryStep(p, e)
  /\ ProcRight(p)'
  /\ \A q \in Procs : wait'[q] = wait[q] \/ wait'[q] = 0 \/ (wait'[q] \in Entries /\ inode[wait'[q]].lock)
  /\ UNCHANGED <<disk, imap, last, torn, stale, scenario>>

(* They keep the invariant.                                                 *)
LEMMA PlainInv ==
  ASSUME Inv, NEW p \in Procs, PlainStep(p)
  PROVE  Inv'
<1>1. /\ Types /\ CountIsReferences /\ NumsRight /\ LocksRight /\ ChangesKept
      /\ \A q \in Procs : ProcRight(q)
  BY DEF Inv
<1>2. /\ OnlyP(p) /\ NextTypes /\ ProcRight(p)' /\ \A e \in Entries : EntryStep(p, e)
      /\ disk' = disk /\ imap' = imap /\ last' = last /\ torn' = torn /\ stale' = stale /\ scenario' = scenario
      /\ pc[p] # "read" /\ pc'[p] # "read"
  BY DEF PlainStep
<1>3. Types'
  BY <1>1, <1>2 DEF Types, TableTypes, NextTypes, Inode, Local
<1>4. CountIsReferences'
  <2>1. ASSUME NEW e \in Entries
        PROVE  inode'[e].count \in Nat /\ inode'[e].count + Refs(p, e) = inode[e].count + Refs(p, e)'
    <3>1. inode'[e] \in Inode
      BY <1>2 DEF NextTypes
    <3> QED BY <1>2, <3>1 DEF EntryStep, Inode
  <2> QED BY <1>1, <1>2, <2>1, CountsKept
<1>5. ASSUME NEW q \in Procs PROVE ProcRight(q)'
  <2>1. \A e \in Entries : Harmless(e) \/ Sole(p, e)
    BY <1>2 DEF EntryStep
  <2>2. CASE q # p
    BY <1>1, <1>2, <2>1, <2>2, OthersRight
  <2> QED BY <1>2, <2>2
<1>6. \A e \in Entries : EntryRight(e)'
  BY <1>2 DEF EntryStep
<1>7. NumsRight'
  <2>1. \A e \in Entries : inode'[e].num = inode[e].num \/ inode'[e].num = 0
    BY <1>2 DEF EntryStep
  <2> QED BY <1>1, <1>2, <2>1, NumsKept
<1>8. LocksRight'
  <2>1. LocksSame(p)
    BY DEF PlainStep, LocksSame, EntryStep
  <2> QED BY <1>1, <1>2, <2>1, LocksKept
<1>9. ChangesKept'
  <2>1. ASSUME NEW e \in Entries, NEW n \in imap' PROVE Preserved(e, n)
    <3>1. n # 0
      BY <1>1, <1>2, TypeFacts, Constants
    <3>2. EntryStep(p, e)
      BY <1>2
    <3>3. \/ inode'[e].num = inode[e].num /\ inode'[e].val = inode[e].val /\ (inode[e].dirt => inode'[e].dirt)
          \/ inode'[e].num # n /\ (inode[e].num = n => ~inode[e].dirt)
      BY <3>1, <3>2 DEF EntryStep
    <3> QED BY <1>2, <3>3, PreservedIf
  <2> QED BY <1>1, <1>2, <2>1, ChangesSame
<1> QED BY <1>3, <1>4, <1>5, <1>6, <1>7, <1>8, <1>9 DEF Inv

(* An entry that is left alone.                                             *)
LEMMA EntrySame ==
  ASSUME Inv, NEW p \in Procs, NEW e \in Entries, inode'[e] = inode[e], Refs(p, e)' = Refs(p, e)
  PROVE  EntryStep(p, e)
<1>1. EntryRight(e)
  BY DEF Inv
<1>2. EntryRight(e)'
  BY <1>1 DEF EntryRight
<1>3. Harmless(e)
  BY DEF Harmless
<1> QED BY <1>2, <1>3 DEF EntryStep

(* How p's own variables change.                                            *)
LocalStep(p, l, v) ==
  /\ pc' = [pc EXCEPT ![p] = l] /\ l \in Locations
  /\ loc' = [loc EXCEPT ![p] = v] /\ v \in Local

(* The types that follow from that.                                         *)
LEMMA LocalFacts ==
  ASSUME Types, NEW p \in Procs, NEW l, NEW v, LocalStep(p, l, v)
  PROVE  /\ OnlyP(p) /\ pc' \in [Procs -> Locations] /\ loc' \in [Procs -> Local]
         /\ pc'[p] = l /\ loc'[p] = v
BY TypeFacts DEF OnlyP, LocalStep

(* Steps in which p only goes on, or goes to sleep.                         *)
LEMMA QuietInv ==
  ASSUME Inv, NEW p \in Procs, NEW l, NEW v, LocalStep(p, l, v), ProcRight(p)',
         pc[p] \notin {"read", "write", "syncwrite"}, l \notin {"read", "write", "syncwrite"},
         \A e \in Entries : RefsOf(v, l, e) = RefsOf(loc[p], pc[p], e),
         \/ wait' = wait
         \/ \E e \in Entries : inode[e].lock /\ wait' = [wait EXCEPT ![p] = e],
         UNCHANGED <<inode, fs, last, torn, stale, scenario>>
  PROVE  Inv'
<1>1. Types /\ ProcRight(p)
  BY DEF Inv
<1>2. /\ OnlyP(p) /\ pc' \in [Procs -> Locations] /\ loc' \in [Procs -> Local]
      /\ pc'[p] = l /\ loc'[p] = v
  BY <1>1, LocalFacts
<1>3. \A e \in Entries : Refs(p, e)' = Refs(p, e)
  <2>1. Placed(loc[p], pc[p]) /\ Placed(loc'[p], pc'[p])
    BY <1>1 DEF ProcRight, Placed
  <2> QED BY <1>2, <2>1, RefsByPlace
<1>4. \A e \in Entries : EntryStep(p, e)
  BY <1>3, EntrySame
<1>5. wait' \in [Procs -> Entries \union {0, Lost}]
  BY <1>1, TypeFacts
<1>6. \A q \in Procs : wait'[q] = wait[q] \/ wait'[q] = 0 \/ (wait'[q] \in Entries /\ inode[wait'[q]].lock)
  BY <1>1, TypeFacts
<1>7. inode' = inode /\ disk' = disk /\ imap' = imap /\ names' = names
  BY DEF fs
<1>8. PlainStep(p)
  <2>1. NextTypes
    BY <1>1, <1>2, <1>5, <1>7, TypeFacts DEF NextTypes
  <2> QED BY <1>2, <1>4, <1>6, <1>7, <2>1 DEF PlainStep
<1> QED BY <1>8, PlainInv

(* A panic changes nothing else.                                            *)
LEMMA PanicInv ==
  ASSUME Inv, UNCHANGED <<inode, fs, pc, loc, wait, last, torn, stale, scenario>>
  PROVE  Inv'
<1>1. /\ Types' /\ CountIsReferences' /\ NumsRight' /\ ChangesKept'
  BY DEF Inv, Types, TableTypes, CountIsReferences, Holds, HoldsBoth, NumsRight, ChangesKept, Loaded, fs
<1>2. LocksRight'
  BY DEF Inv, LocksRight, Locker
<1>3. \A p \in Procs : ProcRight(p)'
  BY DEF Inv, ProcRight
<1>4. \A e \in Entries : EntryRight(e)'
  BY DEF Inv, EntryRight
<1> QED BY <1>1, <1>2, <1>3, <1>4 DEF Inv

(* What the local variables of a process are.                               *)
LEMMA LocalTypes ==
  ASSUME Types, NEW p \in Procs
  PROVE  /\ pc[p] \in Locations /\ loc[p] \in Local
         /\ loc[p].op \in Calls \union {"none"} /\ loc[p].nr \in Nums \union {0}
         /\ loc[p].e \in Entries \union {0} /\ loc[p].empty \in Entries \union {0} /\ loc[p].i \in Nat
<1>1. pc[p] \in Locations /\ loc[p] \in Local
  BY TypeFacts
<1> QED BY <1>1 DEF Local

(* Begin() and Lookup(): p has nothing yet.                                 *)
LEMMA StartInv ==
  ASSUME Inv, NEW p \in Procs, UNCHANGED scenario,
         (\E op \in Calls : Begin(p, op)) \/ (\E n \in Nums : Lookup(p, n))
  PROVE  Inv'
<1>1. Types /\ ProcRight(p)
  BY DEF Inv
<1>2. CASE \E op \in Calls : Begin(p, op)
  <2>1. PICK op \in {"create", "pipe", "sync"} :
          /\ pc[p] = "user" /\ loc' = [loc EXCEPT ![p] = [NoLoc EXCEPT !.op = op, !.i = 1]]
          /\ pc' = [pc EXCEPT ![p] = op] /\ UNCHANGED <<inode, fs, wait, aux>>
    BY <1>2 DEF Begin, At, Goto
  <2>2. PICK v : v = [NoLoc EXCEPT !.op = op, !.i = 1]
    OBVIOUS
  <2>3. v \in Local /\ v.op = op /\ v.i = 1 /\ v.e = 0 /\ v.empty = 0 /\ op \in Locations
    BY <2>2, Constants DEF NoLoc, Local, Calls, Locations
  <2>4. LocalStep(p, op, v)
    BY <2>1, <2>2, <2>3 DEF LocalStep
  <2>5. pc'[p] = op /\ loc'[p] = v
    BY <1>1, <2>4, LocalFacts
  <2>6. ProcRight(p)'
    BY <2>3, <2>5 DEF ProcRight, Outside
  <2>7. \A e \in Entries : RefsOf(v, op, e) = RefsOf(loc[p], pc[p], e)
    BY <2>1, <2>3, Constants DEF RefsOf, Outside
  <2> QED BY <2>1, <2>4, <2>6, <2>7, QuietInv DEF aux
<1>3. CASE \E n \in Nums : Lookup(p, n)
  <2>1. PICK n \in Nums :
          /\ pc[p] = "user" /\ loc' = [loc EXCEPT ![p] = [NoLoc EXCEPT !.op = "change", !.nr = n]]
          /\ pc' = [pc EXCEPT ![p] = "iget"] /\ UNCHANGED <<inode, fs, wait, aux>>
    BY <1>3 DEF Lookup, At, Goto
  <2>2. PICK v : v = [NoLoc EXCEPT !.op = "change", !.nr = n]
    OBVIOUS
  <2>3. v \in Local /\ v.op = "change" /\ v.nr = n /\ v.e = 0 /\ v.empty = 0 /\ "iget" \in Locations
    BY <2>2, Constants DEF NoLoc, Local, Calls, Locations
  <2>4. LocalStep(p, "iget", v)
    BY <2>1, <2>2, <2>3 DEF LocalStep
  <2>5. pc'[p] = "iget" /\ loc'[p] = v
    BY <1>1, <2>4, LocalFacts
  <2>6. ProcRight(p)'
    BY <2>3, <2>5 DEF ProcRight, Outside
  <2>7. \A e \in Entries : RefsOf(v, "iget", e) = RefsOf(loc[p], pc[p], e)
    BY <2>1, <2>3, Constants DEF RefsOf, Outside
  <2> QED BY <2>1, <2>4, <2>6, <2>7, QuietInv DEF aux
<1> QED BY <1>2, <1>3

(* Waiting for a locked entry.                                              *)
LEMMA WaitInv ==
  ASSUME Inv, NEW p \in Procs, NEW e \in Entries, pc[p] \in {"iput", "repeat", "match"},
         WaitOnInode(p, e, pc[p]), UNCHANGED <<loc, scenario>>
  PROVE  Inv'
<1>1. Types /\ ProcRight(p)
  BY DEF Inv
<1>2. /\ inode[e].lock /\ wait' = [wait EXCEPT ![p] = e] /\ pc' = [pc EXCEPT ![p] = pc[p]]
      /\ UNCHANGED <<inode, fs, aux>>
  BY DEF WaitOnInode, Goto
<1>3. LocalStep(p, pc[p], loc[p])
  BY <1>1, <1>2, TypeFacts DEF LocalStep
<1>4. pc'[p] = pc[p] /\ loc'[p] = loc[p]
  BY <1>1, <1>3, LocalFacts
<1>5. ProcRight(p)'
  BY <1>1, <1>2, <1>4 DEF ProcRight
<1> QED BY <1>2, <1>3, <1>5, QuietInv DEF aux

(* A process with a lock goes to sleep on a locked entry.                   *)
LEMMA UnderLockInv ==
  ASSUME Inv, NEW p \in Procs, SyncUnderLock(p), UNCHANGED scenario
  PROVE  Inv'
<1>1. /\ Types /\ ProcRight(p)
      /\ pc[p] \in {"read", "write", "syncwrite"}
      /\ UNCHANGED <<inode, fs, pc, loc, last, torn, stale>>
  BY DEF Inv, SyncUnderLock
<1>2. Own(p) \in Entries
  <2>1. loc[p].e \in Entries \union {0}
    BY <1>1, LocalTypes
  <2> QED BY <1>1, <2>1 DEF Own, ProcRight, Outside
<1>3. PICK f \in 1 .. Own(p) : inode[f].lock /\ wait' = [wait EXCEPT ![p] = f]
  BY DEF SyncUnderLock
<1>4. f \in Entries
  <2>1. NR_INODE \in Nat
    BY InodeAssumption
  <2> QED BY <1>2, <2>1 DEF Entries
<1>5. wait' \in [Procs -> Entries \union {0, Lost}]
  BY <1>1, <1>3, <1>4 DEF Types, TableTypes
<1>6. Types'
  BY <1>1, <1>5 DEF Types, TableTypes, fs
<1>7. /\ CountIsReferences' /\ NumsRight' /\ ChangesKept'
      /\ \A q \in Procs : ProcRight(q)'
      /\ \A e \in Entries : EntryRight(e)'
  BY <1>1 DEF Inv, CountIsReferences, Holds, HoldsBoth, NumsRight, ChangesKept, Loaded,
              ProcRight, EntryRight, fs
<1>8. LocksRight'
  <2>1. \A q \in Procs : wait'[q] = wait[q] \/ wait'[q] = f
    BY <1>1, <1>3 DEF Types, TableTypes
  <2> QED BY <1>1, <1>3, <1>4, <2>1 DEF Inv, LocksRight, Locker
<1> QED BY <1>6, <1>7, <1>8 DEF Inv

(* Close(), IputDevice() and SyncDone() that goes on with iput(): p still   *)
(* has its entry.                                                           *)
LEMMA GoOnInv ==
  ASSUME Inv, NEW p \in Procs, UNCHANGED scenario,
         Close(p) \/ IputDevice(p) \/ (SyncDone(p) /\ loc[p].op # "sync")
  PROVE  Inv'
<1>1. Types /\ ProcRight(p)
  BY DEF Inv
<1>2. CASE Close(p)
  <2>1. /\ pc[p] = "held" /\ pc' = [pc EXCEPT ![p] = "iput"] /\ UNCHANGED <<inode, fs, loc, wait, aux>>
    BY <1>2 DEF Close, At, Goto
  <2>2. LocalStep(p, "iput", loc[p])
    BY <1>1, <2>1, TypeFacts DEF LocalStep, Locations
  <2>3. pc'[p] = "iput" /\ loc'[p] = loc[p]
    BY <1>1, <2>2, LocalFacts
  <2>4. ProcRight(p)'
    BY <1>1, <2>1, <2>3 DEF ProcRight, Outside
  <2>5. \A e \in Entries : RefsOf(loc[p], "iput", e) = RefsOf(loc[p], pc[p], e)
    BY <2>1 DEF RefsOf, Outside
  <2> QED BY <2>1, <2>2, <2>4, <2>5, QuietInv DEF aux
<1>3. CASE IputDevice(p)
  <2>1. /\ pc[p] = "iput" /\ inode[loc[p].e].num \in scenario.devices
        /\ loc' = [loc EXCEPT ![p].i = 1] /\ pc' = [pc EXCEPT ![p] = "sync"]
        /\ UNCHANGED <<inode, fs, wait, aux>>
    BY <1>3 DEF IputDevice, At, Goto
  <2>2. inode[loc[p].e].num # 0
    <3>1. scenario.devices \subseteq Nums
      BY <1>1, InodeAssumption DEF Types
    <3> QED BY <2>1, <3>1, Constants
  <2>3. loc[p].e \in Entries /\ ~inode[loc[p].e].pipe /\ loc[p].op \in {"change", "unlink", "create"}
    <3>1. loc[p].e \in Entries
      BY <1>1, <2>1, LocalTypes DEF ProcRight, Outside
    <3>2. EntryRight(loc[p].e)
      BY <3>1 DEF Inv
    <3> QED BY <1>1, <2>1, <2>2, <3>1, <3>2, Constants DEF ProcRight, EntryRight, Outside
  <2>4. PICK v : v = [loc[p] EXCEPT !.i = 1]
    OBVIOUS
  <2>5. v \in Local /\ v.op = loc[p].op /\ v.nr = loc[p].nr /\ v.e = loc[p].e /\ v.empty = loc[p].empty /\ v.i = 1
    BY <1>1, <2>4, LocalTypes DEF Local
  <2>6. LocalStep(p, "sync", v)
    BY <2>1, <2>4, <2>5 DEF LocalStep, Locations
  <2>7. pc'[p] = "sync" /\ loc'[p] = v
    BY <1>1, <2>6, LocalFacts
  <2>8. ProcRight(p)'
    BY <1>1, <2>1, <2>3, <2>5, <2>7, Constants DEF ProcRight, Outside
  <2>9. \A e \in Entries : RefsOf(v, "sync", e) = RefsOf(loc[p], pc[p], e)
    BY <2>1, <2>3, <2>5 DEF RefsOf, Outside
  <2> QED BY <2>1, <2>6, <2>8, <2>9, QuietInv DEF aux
<1>4. CASE SyncDone(p) /\ loc[p].op # "sync"
  <2>1. /\ pc[p] = "sync" /\ loc[p].op # "sync"
        /\ loc' = [loc EXCEPT ![p].i = 0] /\ pc' = [pc EXCEPT ![p] = "repeat"]
        /\ UNCHANGED <<inode, fs, wait, aux>>
    BY <1>4 DEF SyncDone, At, Goto
  <2>2. loc[p].e # 0 /\ loc[p].op # "pipe"
    BY <1>1, <2>1 DEF ProcRight, Outside
  <2>3. PICK v : v = [loc[p] EXCEPT !.i = 0]
    OBVIOUS
  <2>4. v \in Local /\ v.op = loc[p].op /\ v.nr = loc[p].nr /\ v.e = loc[p].e /\ v.empty = loc[p].empty
    BY <1>1, <2>3, LocalTypes DEF Local
  <2>5. LocalStep(p, "repeat", v)
    BY <2>1, <2>3, <2>4 DEF LocalStep, Locations
  <2>6. pc'[p] = "repeat" /\ loc'[p] = v
    BY <1>1, <2>5, LocalFacts
  <2>7. ProcRight(p)'
    BY <1>1, <2>1, <2>2, <2>4, <2>6 DEF ProcRight, Outside
  <2>8. \A e \in Entries : RefsOf(v, "repeat", e) = RefsOf(loc[p], pc[p], e)
    BY <2>1, <2>2, <2>4 DEF RefsOf, Outside
  <2> QED BY <2>1, <2>5, <2>7, <2>8, QuietInv DEF aux
<1> QED BY <1>2, <1>3, <1>4

(* p returns without an entry of its own.                                   *)
LEMMA ReturnFacts ==
  ASSUME Types, NEW p \in Procs, Return(p)
  PROVE  /\ LocalStep(p, "user", NoLoc) /\ pc'[p] = "user" /\ loc'[p] = NoLoc /\ ProcRight(p)' /\ OnlyP(p)
         /\ pc' \in [Procs -> Locations] /\ loc' \in [Procs -> Local]
         /\ \A e \in Entries : Refs(p, e)' = 0
<1>1. LocalStep(p, "user", NoLoc)
  BY Constants DEF Return, Goto, LocalStep, Locations
<1>2. /\ OnlyP(p) /\ pc' \in [Procs -> Locations] /\ loc' \in [Procs -> Local]
      /\ pc'[p] = "user" /\ loc'[p] = NoLoc
  BY <1>1, LocalFacts
<1>3. NoLoc.e = 0 /\ NoLoc.empty = 0
  BY DEF NoLoc
<1>4. ProcRight(p)' /\ Placed(loc'[p], pc'[p])
  BY <1>2, <1>3 DEF ProcRight, Outside, Placed
<1>5. \A e \in Entries : Refs(p, e)' = 0
  <2>1. \A e \in Entries : Refs(p, e)' = RefsOf(loc'[p], pc'[p], e)
    BY <1>4, RefsByPlace
  <2> QED BY <1>2, <2>1 DEF RefsOf, Outside
<1> QED BY <1>1, <1>2, <1>4, <1>5

(* The end of sync().                                                       *)
LEMMA SyncReturnInv ==
  ASSUME Inv, NEW p \in Procs, SyncDone(p), loc[p].op = "sync", UNCHANGED scenario
  PROVE  Inv'
<1>1. Types /\ ProcRight(p)
  BY DEF Inv
<1>2. pc[p] = "sync" /\ Return(p) /\ UNCHANGED <<inode, fs, wait, aux>>
  BY DEF SyncDone, At
<1>3. LocalStep(p, "user", NoLoc) /\ ProcRight(p)'
  BY <1>1, <1>2, ReturnFacts
<1>4. loc[p].e = 0
  BY <1>1, <1>2 DEF ProcRight
<1>5. \A e \in Entries : RefsOf(NoLoc, "user", e) = RefsOf(loc[p], pc[p], e)
  BY <1>2, <1>4, Constants DEF RefsOf, Outside
<1> QED BY <1>2, <1>3, <1>5, QuietInv DEF aux
-----------------------------------------------------------------------------
(* What the holder of an entry does to it.                                  *)

(* p, who has entry x, makes it c and goes to l with the variables v.       *)
HeldStep(p, x, c, l, v) ==
  /\ LocalStep(p, l, v) /\ inode' = [inode EXCEPT ![x] = c] /\ c \in Inode
  /\ pc[p] \notin Outside \union {"read", "write", "syncwrite"} /\ l \notin {"read", "write", "syncwrite"}
  /\ loc[p].e = x
  /\ c.num = inode[x].num /\ c.val = inode[x].val /\ (inode[x].dirt => c.dirt)
  /\ c.lock = inode[x].lock /\ (inode[x].lock => c.count = inode[x].count)
  /\ c.pipe = inode[x].pipe \/ inode[x].count = 1
  /\ c.count = 0 => ~c.dirt /\ ~c.lock
  /\ c.pipe => c.num = 0 /\ ~c.dirt /\ ~c.lock
  /\ c.count + RefsOf(loc[p], pc[p], x) = inode[x].count + RefsOf(v, l, x)
  /\ \A e \in Entries \ {x} : RefsOf(v, l, e) = 0
  /\ wait' \in [Procs -> Entries \union {0, Lost}] /\ \A q \in Procs : wait'[q] \in {wait[q], 0}
  /\ names' \subseteq Nums
  /\ UNCHANGED <<disk, imap, last, torn, stale, scenario>>

(* It keeps the invariant.                                                  *)
LEMMA HeldInv ==
  ASSUME Inv, NEW p \in Procs, NEW x \in Entries, NEW c, NEW l, NEW v,
         HeldStep(p, x, c, l, v), ProcRight(p)'
  PROVE  Inv'
<1>1. Types /\ CountIsReferences /\ ProcRight(p)
  BY DEF Inv
<1>2. /\ OnlyP(p) /\ pc' \in [Procs -> Locations] /\ loc' \in [Procs -> Local]
      /\ pc'[p] = l /\ loc'[p] = v
  BY <1>1, LocalFacts DEF HeldStep
<1>3. /\ inode' \in [Entries -> Inode] /\ inode'[x] = c /\ \A e \in Entries \ {x} : inode'[e] = inode[e]
  BY <1>1, TypeFacts DEF HeldStep
<1>4. \A e \in Entries : Refs(p, e) = RefsOf(loc[p], pc[p], e) /\ Refs(p, e)' = RefsOf(v, l, e)
  <2>1. Placed(loc[p], pc[p]) /\ Placed(loc'[p], pc'[p])
    BY <1>1 DEF ProcRight, Placed
  <2> QED BY <1>2, <2>1, RefsByPlace
<1>5. EntryStep(p, x)
  <2>1. Holds(p, x)
    BY DEF HeldStep, Holds, Outside
  <2>2. inode[x].count = 1 => Sole(p, x)
    BY <1>1, <2>1, Referenced
  <2>3. Harmless(x) \/ Sole(p, x)
    <3>1. inode[x].count # 1 => inode[x] # InHand
      BY Constants
    <3> QED BY <1>3, <2>2, <3>1 DEF HeldStep, Harmless
  <2>4. EntryRight(x)'
    BY <1>3 DEF HeldStep, EntryRight
  <2>5. inode'[x].count + Refs(p, x) = inode[x].count + Refs(p, x)'
    BY <1>3, <1>4 DEF HeldStep
  <2> QED BY <1>3, <2>3, <2>4, <2>5 DEF HeldStep, EntryStep
<1>6. ASSUME NEW e \in Entries, e # x PROVE EntryStep(p, e)
  <2>1. RefsOf(loc[p], pc[p], e) = 0 /\ RefsOf(v, l, e) = 0
    BY <1>6 DEF HeldStep, RefsOf, Outside
  <2> QED BY <1>3, <1>4, <1>6, <2>1, EntrySame
<1>7. PlainStep(p)
  <2>1. NextTypes
    BY <1>2, <1>3 DEF HeldStep, NextTypes
  <2>2. \A q \in Procs : wait'[q] = wait[q] \/ wait'[q] = 0
    BY DEF HeldStep
  <2> QED BY <1>2, <1>5, <1>6, <2>1, <2>2 DEF HeldStep, PlainStep
<1> QED BY <1>7, PlainInv

(* What a holder has.                                                       *)
LEMMA HolderFacts ==
  ASSUME Inv, NEW p \in Procs, pc[p] \in {"held", "unlinked", "iput", "repeat", "truncate", "write", "read"}
  PROVE  /\ loc[p].e \in Entries /\ inode[loc[p].e] \in Inode /\ Holds(p, loc[p].e)
         /\ inode[loc[p].e].count \in Nat /\ inode[loc[p].e].count >= 1
         /\ inode[loc[p].e].count = 1 => Sole(p, loc[p].e)
         /\ IF loc[p].op = "pipe"
              THEN pc[p] \in {"held", "iput"} /\ inode[loc[p].e].pipe /\ loc[p].i \in {1, 2}
              ELSE /\ loc[p].op \in {"change", "unlink", "create"} /\ loc[p].nr \in Nums
                   /\ inode[loc[p].e].num = loc[p].nr /\ ~inode[loc[p].e].pipe
         /\ EntryRight(loc[p].e)
         /\ pc[p] \notin Outside
<1>1. Types /\ CountIsReferences /\ ProcRight(p) /\ \A e \in Entries : EntryRight(e)
  BY DEF Inv
<1>2. loc[p].e # 0 /\ pc[p] \notin Outside
  BY <1>1 DEF ProcRight, Outside
<1>3. loc[p].e \in Entries
  BY <1>1, <1>2, LocalTypes
<1>4. Holds(p, loc[p].e)
  BY <1>2 DEF Holds, Outside
<1>5. inode[loc[p].e] \in Inode
  BY <1>1, <1>3, TypeFacts
<1>6. /\ inode[loc[p].e].count \in Nat /\ inode[loc[p].e].count >= 1
      /\ inode[loc[p].e].count = 1 => Sole(p, loc[p].e)
  BY <1>1, <1>3, <1>4, Referenced
<1>7. IF loc[p].op = "pipe"
        THEN pc[p] \in {"held", "iput"} /\ inode[loc[p].e].pipe /\ loc[p].i \in {1, 2}
        ELSE /\ loc[p].op \in {"change", "unlink", "create"} /\ loc[p].nr \in Nums
             /\ inode[loc[p].e].num = loc[p].nr /\ ~inode[loc[p].e].pipe
  BY <1>1, <1>2 DEF ProcRight
<1> QED BY <1>1, <1>2, <1>3, <1>4, <1>5, <1>6, <1>7

(* The fields of an entry.                                                  *)
LEMMA Fields ==
  ASSUME NEW r \in Inode
  PROVE  /\ r.num \in Nums \union {0} /\ r.count \in Nat /\ r.dirt \in BOOLEAN /\ r.lock \in BOOLEAN
         /\ r.pipe \in BOOLEAN /\ r.nlinks \in 0 .. 255 /\ r.val \in Vals
BY DEF Inode

(* An entry of which only the links change, and which may get dirty.        *)
LinksOnly(c, r) ==
  /\ c \in Inode /\ c.num = r.num /\ c.val = r.val /\ c.lock = r.lock /\ c.count = r.count /\ c.pipe = r.pipe
  /\ (r.dirt => c.dirt) /\ (c.pipe => c.dirt = r.dirt)

(* AddEntry(), Unlink() and Unlinked() change the links.                    *)
LinksStep(p, c, l) ==
  /\ pc[p] \in {"held", "unlinked"} /\ loc[p].op # "pipe"
  /\ LinksOnly(c, inode[loc[p].e]) /\ inode' = [inode EXCEPT ![loc[p].e] = c]
  /\ l \in {"unlinked", "iput"} /\ pc' = [pc EXCEPT ![p] = l] /\ names' \subseteq Nums
  /\ disk' = disk /\ imap' = imap /\ loc' = loc /\ wait' = wait
  /\ last' = last /\ torn' = torn /\ stale' = stale /\ scenario' = scenario

(* That keeps the invariant.                                                *)
LEMMA LinksInv ==
  ASSUME Inv, NEW p \in Procs, NEW c, NEW l, LinksStep(p, c, l)
  PROVE  Inv'
<1>0. /\ pc[p] \in {"held", "unlinked"} /\ loc[p].op # "pipe"
      /\ LinksOnly(c, inode[loc[p].e]) /\ inode' = [inode EXCEPT ![loc[p].e] = c]
      /\ l \in {"unlinked", "iput"} /\ pc' = [pc EXCEPT ![p] = l] /\ names' \subseteq Nums
      /\ disk' = disk /\ imap' = imap /\ loc' = loc /\ wait' = wait
      /\ last' = last /\ torn' = torn /\ stale' = stale /\ scenario' = scenario
  BY DEF LinksStep
<1>1. Types /\ ProcRight(p)
  BY DEF Inv
<1>2. PICK x \in Entries : x = loc[p].e
  BY <1>0, HolderFacts
<1>3. /\ inode[x] \in Inode /\ inode[x].count \in Nat /\ inode[x].count >= 1
      /\ loc[p].op \in {"change", "unlink", "create"} /\ loc[p].nr \in Nums
      /\ inode[x].num = loc[p].nr /\ ~inode[x].pipe /\ pc[p] \notin Outside
  BY <1>0, <1>2, HolderFacts
<1>4. LocalStep(p, l, loc[p])
  BY <1>0, <1>1, TypeFacts DEF LocalStep, Locations
<1>5. pc'[p] = l /\ loc'[p] = loc[p]
  BY <1>1, <1>4, LocalFacts
<1>6. inode'[x] = c
  BY <1>0, <1>1, <1>2, TypeFacts
<1>7. ProcRight(p)'
  BY <1>0, <1>1, <1>2, <1>3, <1>5, <1>6, Constants DEF ProcRight, Outside, LinksOnly
<1>8. /\ \A e \in Entries : RefsOf(loc[p], l, e) = RefsOf(loc[p], pc[p], e)
      /\ \A e \in Entries \ {x} : RefsOf(loc[p], l, e) = 0
      /\ RefsOf(loc[p], l, x) = RefsOf(loc[p], pc[p], x)
  BY <1>0, <1>2, <1>3 DEF RefsOf, Outside
<1>9. wait \in [Procs -> Entries \union {0, Lost}]
  BY <1>1, TypeFacts
<1>10. HeldStep(p, x, c, l, loc[p])
  BY <1>0, <1>2, <1>3, <1>4, <1>8, <1>9 DEF HeldStep, LinksOnly
<1> QED BY <1>7, <1>10, HeldInv

(* The links, one less.                                                     *)
LEMMA OneLessType ==
  ASSUME NEW k \in 0 .. 255
  PROVE  OneLess(k) \in 0 .. 255
BY DEF OneLess

(* Other links for an entry.                                                *)
LEMMA LinksChange ==
  ASSUME NEW r \in Inode, NEW k \in 0 .. 255, NEW c, c = [r EXCEPT !.nlinks = k]
  PROVE  LinksOnly(c, r) /\ c.dirt = r.dirt
BY DEF LinksOnly, Inode

(* Giving an inode its name, and taking it away.                            *)
LEMMA NameInv ==
  ASSUME Inv, NEW p \in Procs, UNCHANGED scenario, AddEntry(p) \/ Unlink(p) \/ Unlinked(p)
  PROVE  Inv'
<1>1. Types /\ ProcRight(p)
  BY DEF Inv
<1>2. pc[p] \in {"held", "unlinked"}
  BY DEF AddEntry, Unlink, Unlinked, At
<1>3. PICK x \in Entries : x = loc[p].e
  BY <1>2, HolderFacts
<1>4. /\ inode[x] \in Inode /\ inode \in [Entries -> Inode] /\ names \subseteq Nums
      /\ inode[x].nlinks \in 0 .. 255
  BY <1>1, TypeFacts, Fields
<1>5. PICK k : k = OneLess(inode[x].nlinks)
  OBVIOUS
<1>6. k \in 0 .. 255
  BY <1>4, <1>5, OneLessType, Zenon
<1>7. /\ loc[p].op # "pipe" => loc[p].nr \in Nums /\ ~inode[x].pipe
      /\ pc[p] = "unlinked" => loc[p].op # "pipe"
  BY <1>2, <1>3, HolderFacts
<1>8. CASE AddEntry(p)
  <2>1. /\ pc[p] = "held" /\ loc[p].op = "create" /\ pc' = [pc EXCEPT ![p] = "iput"]
        /\ disk' = disk /\ imap' = imap /\ loc' = loc /\ wait' = wait
        /\ last' = last /\ torn' = torn /\ stale' = stale /\ scenario' = scenario
    BY <1>8 DEF AddEntry, At, Goto, aux
  <2>2. CASE names' = names \union {loc[p].nr} /\ UNCHANGED inode
    <3>1. inode' = [inode EXCEPT ![loc[p].e] = inode[x]]
      BY <1>3, <1>4, <2>2
    <3>2. LinksOnly(inode[x], inode[loc[p].e])
      BY <1>3, <1>4 DEF LinksOnly
    <3>3. names' \subseteq Nums
      BY <1>4, <1>7, <2>1, <2>2
    <3>4. LinksStep(p, inode[x], "iput")
      BY <2>1, <3>1, <3>2, <3>3 DEF LinksStep
    <3> QED BY <3>4, LinksInv
  <2>3. CASE inode' = [inode EXCEPT ![loc[p].e].nlinks = OneLess(@)] /\ UNCHANGED names
    <3>1. PICK c : c = [inode[x] EXCEPT !.nlinks = k]
      OBVIOUS
    <3>2. inode' = [inode EXCEPT ![loc[p].e] = c]
      BY <1>3, <1>5, <2>3, <3>1
    <3>3. LinksOnly(c, inode[loc[p].e])
      BY <1>3, <1>4, <1>6, <3>1, LinksChange
    <3>4. LinksStep(p, c, "iput")
      BY <1>4, <2>1, <2>3, <3>2, <3>3 DEF LinksStep
    <3> QED BY <3>4, LinksInv
  <2> QED BY <1>8, <2>2, <2>3 DEF AddEntry
<1>9. CASE Unlink(p)
  <2>1. /\ pc[p] = "held" /\ loc[p].op = "unlink" /\ pc' = [pc EXCEPT ![p] = "unlinked"]
        /\ inode' = [inode EXCEPT ![loc[p].e].nlinks = IF @ = 0 THEN 1 ELSE @]
        /\ names' = names \ {loc[p].nr}
        /\ disk' = disk /\ imap' = imap /\ loc' = loc /\ wait' = wait
        /\ last' = last /\ torn' = torn /\ stale' = stale /\ scenario' = scenario
    BY <1>9 DEF Unlink, At, Goto, aux
  <2>2. PICK j : j = IF inode[x].nlinks = 0 THEN 1 ELSE inode[x].nlinks
    OBVIOUS
  <2>3. j \in 0 .. 255
    BY <1>4, <2>2
  <2>4. PICK c : c = [inode[x] EXCEPT !.nlinks = j]
    OBVIOUS
  <2>5. inode' = [inode EXCEPT ![loc[p].e] = c]
    BY <1>3, <2>1, <2>2, <2>4
  <2>6. LinksOnly(c, inode[loc[p].e])
    BY <1>3, <1>4, <2>3, <2>4, LinksChange
  <2>7. names' \subseteq Nums
    BY <1>4, <2>1
  <2>8. LinksStep(p, c, "unlinked")
    BY <2>1, <2>5, <2>6, <2>7 DEF LinksStep
  <2> QED BY <2>8, LinksInv
<1>10. CASE Unlinked(p)
  <2>1. /\ pc[p] = "unlinked" /\ pc' = [pc EXCEPT ![p] = "iput"]
        /\ inode' = [inode EXCEPT ![loc[p].e].nlinks = OneLess(@), ![loc[p].e].dirt = TRUE]
        /\ disk' = disk /\ imap' = imap /\ names' = names /\ loc' = loc /\ wait' = wait
        /\ last' = last /\ torn' = torn /\ stale' = stale /\ scenario' = scenario
    BY <1>10 DEF Unlinked, At, Goto, aux, fs
  <2>2. PICK b : b = [inode[x] EXCEPT !.nlinks = k]
    OBVIOUS
  <2>3. LinksOnly(b, inode[x]) /\ b.dirt = inode[x].dirt /\ b \in Inode
    <3>1. LinksOnly(b, inode[x]) /\ b.dirt = inode[x].dirt
      BY <1>4, <1>6, <2>2, LinksChange
    <3> QED BY <3>1 DEF LinksOnly
  <2>4. PICK c : c = [b EXCEPT !.dirt = TRUE]
    OBVIOUS
  <2>5. inode' = [inode EXCEPT ![loc[p].e] = c]
    <3>1. inode' = [inode EXCEPT ![x].nlinks = k, ![x].dirt = TRUE]
      BY <1>3, <1>5, <2>1
    <3>2. inode' = [inode EXCEPT ![x] = c]
      BY <1>4, <2>2, <2>4, <3>1
    <3> QED BY <1>3, <3>2
  <2>6. ~inode[x].pipe /\ loc[p].op # "pipe"
    BY <1>7, <2>1
  <2>7. LinksOnly(c, inode[loc[p].e])
    BY <1>3, <2>3, <2>4, <2>6 DEF LinksOnly, Inode
  <2>8. LinksStep(p, c, "iput")
    BY <1>4, <2>1, <2>5, <2>6, <2>7 DEF LinksStep
  <2> QED BY <2>8, LinksInv
<1> QED BY <1>8, <1>9, <1>10

(* WakeUp() wakes, and puts nobody to sleep.                                *)
LEMMA WakeUpFacts ==
  ASSUME Types, NEW e \in Entries, wait' = WakeUp(e)
  PROVE  /\ wait' \in [Procs -> Entries \union {0, Lost}]
         /\ \A q \in Procs : wait'[q] = IF wait[q] = e THEN 0 ELSE wait[q]
         /\ \A q \in Procs : wait'[q] \in {wait[q], 0}
<1>1. wait \in [Procs -> Entries \union {0, Lost}]
  BY TypeFacts
<1>2. \A q \in Procs : wait'[q] = IF wait[q] = e THEN 0 ELSE wait[q]
  BY DEF WakeUp
<1>3. wait' = [q \in Procs |-> wait'[q]]
  BY DEF WakeUp
<1>4. \A q \in Procs : wait'[q] \in Entries \union {0, Lost}
  BY <1>1, <1>2
<1> QED BY <1>2, <1>3, <1>4

(* The reader or the writer of a pipe gives it back.                        *)
LEMMA IputPipeInv ==
  ASSUME Inv, NEW p \in Procs, UNCHANGED scenario, IputPipe(p)
  PROVE  Inv'
<1>1. Types /\ ProcRight(p) /\ CountIsReferences
  BY DEF Inv
<1>2. PICK x \in Entries : x = loc[p].e
  BY HolderFacts DEF IputPipe, At
<1>3. /\ pc[p] = "iput" /\ inode[x].pipe /\ wait' = WakeUp(x)
      /\ inode' = [inode EXCEPT ![x].count = @ - 1, ![x].pipe = inode[x].count > 1]
      /\ IF loc[p].i > 1
           THEN loc' = [loc EXCEPT ![p].i = @ - 1] /\ pc' = [pc EXCEPT ![p] = "held"]
           ELSE Return(p)
      /\ disk' = disk /\ imap' = imap /\ names' = names
      /\ last' = last /\ torn' = torn /\ stale' = stale /\ scenario' = scenario
  BY <1>2 DEF IputPipe, At, Goto, fs, aux
<1>4. /\ inode[x] \in Inode /\ inode[x].count \in Nat /\ inode[x].count >= 1 /\ inode \in [Entries -> Inode]
      /\ loc[p].op = "pipe" /\ loc[p].i \in {1, 2} /\ pc[p] \notin Outside
  BY <1>1, <1>2, <1>3, HolderFacts, TypeFacts
<1>5. inode[x].num = 0 /\ ~inode[x].dirt /\ ~inode[x].lock
  BY <1>3 DEF Inv, EntryRight
<1>6. Refs(p, x) = RefsOf(loc[p], pc[p], x) /\ Refs(p, x) <= inode[x].count
  <2>1. Placed(loc[p], pc[p])
    BY <1>1 DEF ProcRight, Placed
  <2> QED BY <1>1, <2>1, RefsByPlace, References
<1>7. RefsOf(loc[p], pc[p], x) = loc[p].i
  BY <1>2, <1>4 DEF RefsOf, Outside
<1>8. PICK b : b = (inode[x].count > 1)
  BY Zenon
<1>81. b \in BOOLEAN /\ (b <=> inode[x].count > 1)
  <2>1. inode[x].count > 1 => b = TRUE
    BY <1>8, Zenon
  <2>2. b \in BOOLEAN
    BY <1>8, <2>1
  <2>3. b <=> inode[x].count > 1
    BY <1>8, Zenon
  <2> QED BY <2>2, <2>3
<1>82. PICK k \in Nat : k = inode[x].count - 1
  BY <1>4
<1>9. PICK c : c = [inode[x] EXCEPT !.count = k, !.pipe = b]
  OBVIOUS
<1>10. /\ c \in Inode /\ c.count = k /\ c.pipe = b
       /\ c.num = inode[x].num /\ c.val = inode[x].val /\ c.dirt = inode[x].dirt /\ c.lock = inode[x].lock
  <2>1. inode[x] \in Inode
    BY <1>4
  <2>2. b \in BOOLEAN /\ k \in Nat
    BY <1>81, <1>82
  <2> QED BY <1>9, <2>1, <2>2 DEF Inode
<1>11. inode' = [inode EXCEPT ![x] = c]
  <2>1. inode' = [inode EXCEPT ![x].count = @ - 1, ![x].pipe = b]
    BY <1>3, <1>8, Zenon
  <2>2. inode' = [inode EXCEPT ![x].count = k, ![x].pipe = b]
    BY <1>82, <2>1
  <2> QED BY <1>4, <1>9, <2>2
<1>12. wait' \in [Procs -> Entries \union {0, Lost}] /\ \A q \in Procs : wait'[q] \in {wait[q], 0}
  BY <1>1, <1>3, WakeUpFacts
<1>13. names' \subseteq Nums
  BY <1>1, <1>3, TypeFacts
<1>14. c.pipe = inode[x].pipe \/ inode[x].count = 1
  <2>1. inode[x].pipe = TRUE
    BY <1>3, <1>4, Fields
  <2>2. CASE inode[x].count > 1
    <3>1. c.pipe = TRUE
      BY <1>81, <1>10, <2>2, Zenon
    <3> QED BY <2>1, <3>1
  <2> QED BY <1>4, <2>2
<1>15. CASE loc[p].i = 2
  <2>1. PICK v : v = [loc[p] EXCEPT !.i = 1]
    OBVIOUS
  <2>2. v \in Local /\ v.op = "pipe" /\ v.nr = loc[p].nr /\ v.e = x /\ v.empty = loc[p].empty /\ v.i = 1
    BY <1>1, <1>2, <1>4, <2>1, LocalTypes DEF Local
  <2>3. loc' = [loc EXCEPT ![p] = v] /\ pc' = [pc EXCEPT ![p] = "held"]
    <3>1. loc' = [loc EXCEPT ![p].i = loc[p].i - 1] /\ pc' = [pc EXCEPT ![p] = "held"]
      BY <1>3, <1>15
    <3>2. loc[p].i - 1 = 1
      BY <1>15
    <3> QED BY <2>1, <3>1, <3>2
  <2>4. LocalStep(p, "held", v)
    BY <2>2, <2>3 DEF LocalStep, Locations
  <2>5. pc'[p] = "held" /\ loc'[p] = v /\ inode'[x] = c
    BY <1>1, <1>4, <1>11, <2>4, LocalFacts
  <2>6. b = TRUE
    <3>1. inode[x].count > 1
      BY <1>4, <1>6, <1>7, <1>15
    <3> QED BY <1>81, <3>1, Zenon
  <2>7. ProcRight(p)'
    BY <1>1, <1>3, <1>10, <2>2, <2>5, <2>6, Constants DEF ProcRight, Outside
  <2>8. RefsOf(v, "held", x) = 1 /\ \A e \in Entries \ {x} : RefsOf(v, "held", e) = 0
    BY <2>2 DEF RefsOf, Outside
  <2>9. c.count + RefsOf(loc[p], pc[p], x) = inode[x].count + RefsOf(v, "held", x)
    BY <1>4, <1>7, <1>82, <1>10, <1>15, <2>8
  <2>10. c.count # 0
    BY <1>4, <1>6, <1>7, <1>82, <1>10, <1>15
  <2>11. HeldStep(p, x, c, "held", v)
    BY <1>2, <1>3, <1>4, <1>5, <1>10, <1>11, <1>12, <1>13, <1>14, <2>4, <2>8, <2>9, <2>10 DEF HeldStep
  <2> QED BY <2>7, <2>11, HeldInv
<1>16. CASE loc[p].i = 1
  <2>1. LocalStep(p, "user", NoLoc) /\ ProcRight(p)'
    BY <1>1, <1>3, <1>16, ReturnFacts
  <2>2. \A e \in Entries : RefsOf(NoLoc, "user", e) = 0
    BY DEF RefsOf, Outside
  <2>3. c.count + RefsOf(loc[p], pc[p], x) = inode[x].count + RefsOf(NoLoc, "user", x)
    BY <1>4, <1>7, <1>82, <1>10, <1>16, <2>2
  <2>4. HeldStep(p, x, c, "user", NoLoc)
    BY <1>2, <1>3, <1>4, <1>5, <1>10, <1>11, <1>12, <1>13, <1>14, <2>1, <2>2, <2>3 DEF HeldStep
  <2> QED BY <2>1, <2>4, HeldInv
<1> QED BY <1>4, <1>15, <1>16

(* iput() of an inode that has nothing to be written: it is let go, or it   *)
(* is to be freed.                                                          *)
LEMMA IputRepeatInv ==
  ASSUME Inv, NEW p \in Procs, UNCHANGED scenario, IputRepeat(p), pc'[p] # "write"
  PROVE  Inv'
<1>1. Types /\ ProcRight(p)
  BY DEF Inv
<1>2. pc[p] \in {"iput", "repeat"}
  BY DEF IputRepeat
<1>3. PICK x \in Entries : x = loc[p].e
  BY <1>2, HolderFacts
<1>4. /\ inode[x] \in Inode /\ inode[x].count \in Nat /\ inode[x].count >= 1 /\ inode \in [Entries -> Inode]
      /\ ~inode[x].lock /\ ~inode[x].pipe /\ loc[p].op \in {"change", "unlink", "create"} /\ pc[p] \notin Outside
      /\ loc[p].nr \in Nums
  BY <1>1, <1>2, <1>3, HolderFacts, TypeFacts DEF IputRepeat
<1>5. /\ \/ /\ \/ inode[x].count > 1
               \/ inode[x].nlinks # 0 /\ ~inode[x].dirt
            /\ inode' = [inode EXCEPT ![x].count = @ - 1]
            /\ Return(p)
         \/ /\ inode[x].count = 1 /\ inode[x].nlinks = 0
            /\ pc' = [pc EXCEPT ![p] = "truncate"]
            /\ inode' = inode /\ loc' = loc
         \/ pc' = [pc EXCEPT ![p] = "write"]
      /\ disk' = disk /\ imap' = imap /\ names' = names /\ wait' = wait
      /\ last' = last /\ torn' = torn /\ stale' = stale /\ scenario' = scenario
  <2>1. inode[x].count # 0
    BY <1>4
  <2> QED BY <1>3, <2>1 DEF IputRepeat, WriteInode, Goto, fs, aux
<1>6. pc' # [pc EXCEPT ![p] = "write"]
  BY <1>1, TypeFacts
<1>7. wait \in [Procs -> Entries \union {0, Lost}] /\ names \subseteq Nums
  BY <1>1, TypeFacts
<1>8. CASE /\ inode[x].count > 1 \/ (inode[x].nlinks # 0 /\ ~inode[x].dirt)
           /\ inode' = [inode EXCEPT ![x].count = @ - 1]
           /\ Return(p)
  <2>1. LocalStep(p, "user", NoLoc) /\ ProcRight(p)'
    BY <1>1, <1>8, ReturnFacts
  <2>2. PICK k \in Nat : k = inode[x].count - 1
    BY <1>4
  <2>3. PICK c : c = [inode[x] EXCEPT !.count = k]
    OBVIOUS
  <2>4. /\ c \in Inode /\ c.count = k /\ c.pipe = inode[x].pipe
        /\ c.num = inode[x].num /\ c.val = inode[x].val /\ c.dirt = inode[x].dirt /\ c.lock = inode[x].lock
    BY <1>4, <2>2, <2>3 DEF Inode
  <2>5. inode' = [inode EXCEPT ![x] = c]
    <3>1. inode' = [inode EXCEPT ![x].count = k]
      BY <1>8, <2>2
    <3> QED BY <1>4, <2>3, <3>1
  <2>6. k = 0 => ~inode[x].dirt
    BY <1>4, <1>8, <2>2
  <2>7. RefsOf(loc[p], pc[p], x) = 1 /\ \A e \in Entries : RefsOf(NoLoc, "user", e) = 0
    BY <1>2, <1>3, <1>4 DEF RefsOf, Outside
  <2>8. c.count + RefsOf(loc[p], pc[p], x) = inode[x].count + RefsOf(NoLoc, "user", x)
    BY <1>4, <2>2, <2>4, <2>7
  <2>9. /\ pc[p] \notin Outside \union {"read", "write", "syncwrite"}
        /\ \A q \in Procs : wait'[q] \in {wait[q], 0}
    BY <1>2, <1>4, <1>5
  <2>10. HeldStep(p, x, c, "user", NoLoc)
    BY <1>3, <1>4, <1>5, <1>7, <2>1, <2>4, <2>5, <2>6, <2>7, <2>8, <2>9 DEF HeldStep
  <2> QED BY <2>1, <2>10, HeldInv
<1>9. CASE /\ inode[x].count = 1 /\ inode[x].nlinks = 0
           /\ pc' = [pc EXCEPT ![p] = "truncate"]
           /\ inode' = inode /\ loc' = loc
  <2>1. LocalStep(p, "truncate", loc[p])
    BY <1>1, <1>9, TypeFacts DEF LocalStep, Locations
  <2>2. pc'[p] = "truncate" /\ loc'[p] = loc[p]
    BY <1>1, <2>1, LocalFacts
  <2>3. ProcRight(p)'
    BY <1>1, <1>2, <1>4, <1>9, <2>2 DEF ProcRight, Outside
  <2>4. \A e \in Entries : RefsOf(loc[p], "truncate", e) = RefsOf(loc[p], pc[p], e)
    BY <1>2 DEF RefsOf, Outside
  <2> QED BY <1>2, <1>5, <1>9, <2>1, <2>3, <2>4, QuietInv DEF fs
<1> QED BY <1>5, <1>6, <1>8, <1>9
-----------------------------------------------------------------------------
(* Taking an unused entry.                                                  *)

(* An unused entry is idle, and nobody's.                                   *)
LEMMA UnusedFacts ==
  ASSUME Inv, NEW x \in Unused
  PROVE  /\ x \in Entries /\ inode[x].count = 0 /\ ~inode[x].dirt /\ ~inode[x].lock
         /\ \A p \in Procs : Sole(p, x) /\ ~Reads(p, x) /\ ~Holds(p, x) /\ loc[p].empty # x
<1>1. scenario.spare \in Entries
  BY InodeAssumption DEF Inv, Types
<1>2. x \in Entries /\ inode[x].count = 0
  BY <1>1, InodeAssumption DEF Unused, Entries
<1>3. \A p \in Procs : loc[p].empty # x /\ ~Holds(p, x)
  BY <1>2, Unreferenced DEF Inv
<1>4. EntryRight(x)
  BY <1>2 DEF Inv
<1> QED BY <1>2, <1>3, <1>4 DEF EntryRight, Sole, Reads, Holds

(* A process outside, with nothing in hand, has no reference.               *)
LEMMA NoReferences ==
  ASSUME NEW p \in Procs, ProcRight(p), pc[p] \in Outside \ {"match"}
  PROVE  \A e \in Entries : Refs(p, e) = 0
<1>1. Placed(loc[p], pc[p])
  BY DEF ProcRight, Placed
<1>2. \A e \in Entries : Refs(p, e) = RefsOf(loc[p], pc[p], e)
  BY <1>1, RefsByPlace
<1> QED BY <1>2 DEF RefsOf

(* p, who has nothing, makes the unused entry x one for a pipe or leaves it *)
(* empty.                                                                   *)
TakeStep(p, x, c, l, v) ==
  /\ LocalStep(p, l, v) /\ inode' = [inode EXCEPT ![x] = c] /\ c \in Inode
  /\ pc[p] \in Outside \ {"match"} /\ l \in {"user", "held"}
  /\ c.num = 0 /\ ~c.dirt /\ ~c.lock
  /\ \A e \in Entries : RefsOf(v, l, e) = IF e = x THEN c.count ELSE 0
  /\ wait' = wait /\ names' = names
  /\ UNCHANGED <<disk, imap, last, torn, stale, scenario>>

(* That keeps the invariant.                                                *)
LEMMA TakeInv ==
  ASSUME Inv, NEW p \in Procs, NEW x \in Unused, NEW c, NEW l, NEW v,
         TakeStep(p, x, c, l, v), ProcRight(p)'
  PROVE  Inv'
<1>1. Types /\ ProcRight(p) /\ pc[p] \in Outside \ {"match"}
  BY DEF Inv, TakeStep
<1>2. /\ OnlyP(p) /\ pc' \in [Procs -> Locations] /\ loc' \in [Procs -> Local]
      /\ pc'[p] = l /\ loc'[p] = v
  BY <1>1, LocalFacts DEF TakeStep
<1>3. x \in Entries /\ inode[x].count = 0 /\ ~inode[x].dirt /\ ~inode[x].lock /\ Sole(p, x)
  BY UnusedFacts
<1>4. inode' \in [Entries -> Inode] /\ inode'[x] = c /\ \A e \in Entries \ {x} : inode'[e] = inode[e]
  BY <1>1, <1>3, TypeFacts DEF TakeStep
<1>5. \A e \in Entries : Refs(p, e) = 0 /\ Refs(p, e)' = IF e = x THEN c.count ELSE 0
  <2>1. Placed(loc'[p], pc'[p])
    BY DEF ProcRight, Placed
  <2> QED BY <1>1, <1>2, <2>1, RefsByPlace, NoReferences DEF TakeStep
<1>6. EntryStep(p, x)
  <2>1. c.num = 0 /\ ~c.dirt /\ ~c.lock /\ c \in Inode
    BY DEF TakeStep
  <2>2. c.lock = inode[x].lock
    <3>1. inode[x] \in Inode
      BY <1>1, <1>3, TypeFacts
    <3> QED BY <1>3, <2>1, <3>1, Fields
  <2>3. c.count + Refs(p, x) = inode[x].count + Refs(p, x)'
    BY <1>3, <1>5, <2>1, Fields
  <2>4. EntryRight(x)'
    BY <1>4, <2>1 DEF EntryRight
  <2> QED BY <1>3, <1>4, <2>1, <2>2, <2>3, <2>4 DEF EntryStep
<1>7. ASSUME NEW e \in Entries, e # x PROVE EntryStep(p, e)
  BY <1>4, <1>5, <1>7, EntrySame
<1>8. PlainStep(p)
  <2>1. NextTypes
    BY <1>1, <1>2, <1>4, TypeFacts DEF TakeStep, NextTypes
  <2>2. \A q \in Procs : wait'[q] = wait[q]
    BY DEF TakeStep
  <2>3. pc[p] \notin {"read", "write", "syncwrite"} /\ pc'[p] \notin {"read", "write", "syncwrite"}
    BY <1>1, <1>2 DEF TakeStep, Outside
  <2> QED BY <1>2, <1>6, <1>7, <2>1, <2>2, <2>3 DEF TakeStep, PlainStep
<1> QED BY <1>8, PlainInv

(* NewInode() without a number, and GetPipeInode() without memory.          *)
LEMMA GiveUpInv ==
  ASSUME Inv, NEW p \in Procs, pc[p] \in {"create", "pipe"}, NEW x \in Unused,
         inode' = [NewEntry(x) EXCEPT ![x].count = 0], Return(p),
         wait' = wait, names' = names, UNCHANGED <<disk, imap, last, torn, stale, scenario>>
  PROVE  Inv'
<1>1. Types
  BY DEF Inv
<1>2. LocalStep(p, "user", NoLoc) /\ ProcRight(p)'
  BY <1>1, ReturnFacts
<1>3. PICK c : c = [InHand EXCEPT !.count = 0]
  OBVIOUS
<1>4. c \in Inode /\ c.num = 0 /\ ~c.dirt /\ ~c.lock /\ c.count = 0
  BY <1>3, Constants DEF Inode
<1>5. inode' = [inode EXCEPT ![x] = c]
  <2>1. x \in Entries /\ inode \in [Entries -> Inode]
    BY <1>1, UnusedFacts, TypeFacts
  <2> QED BY <1>3, <2>1 DEF NewEntry, InHand
<1>6. \A e \in Entries : RefsOf(NoLoc, "user", e) = IF e = x THEN c.count ELSE 0
  BY <1>4 DEF RefsOf, Outside
<1>7. TakeStep(p, x, c, "user", NoLoc)
  BY <1>2, <1>4, <1>5, <1>6 DEF TakeStep, Outside
<1> QED BY <1>2, <1>7, TakeInv

(* A pipe.                                                                  *)
LEMMA GetPipeInodeInv ==
  ASSUME Inv, NEW p \in Procs, UNCHANGED scenario, GetPipeInode(p)
  PROVE  Inv'
<1>1. Types /\ ProcRight(p)
  BY DEF Inv
<1>2. /\ pc[p] = "pipe" /\ disk' = disk /\ imap' = imap /\ names' = names /\ wait' = wait
      /\ last' = last /\ torn' = torn /\ stale' = stale /\ scenario' = scenario
  BY DEF GetPipeInode, At, fs, aux
<1>3. PICK x \in Unused :
        \/ /\ inode' = [NewEntry(x) EXCEPT ![x].count = 2, ![x].pipe = TRUE]
           /\ loc' = [loc EXCEPT ![p].e = x, ![p].i = 2]
           /\ pc' = [pc EXCEPT ![p] = "held"]
        \/ inode' = [NewEntry(x) EXCEPT ![x].count = 0] /\ Return(p)
  BY DEF GetPipeInode, Goto
<1>4. CASE inode' = [NewEntry(x) EXCEPT ![x].count = 0] /\ Return(p)
  BY <1>2, <1>4, GiveUpInv
<1>5. CASE /\ inode' = [NewEntry(x) EXCEPT ![x].count = 2, ![x].pipe = TRUE]
           /\ loc' = [loc EXCEPT ![p].e = x, ![p].i = 2]
           /\ pc' = [pc EXCEPT ![p] = "held"]
  <2>1. x \in Entries /\ inode \in [Entries -> Inode]
    BY <1>1, UnusedFacts, TypeFacts
  <2>2. PICK c : c = [InHand EXCEPT !.count = 2, !.pipe = TRUE]
    OBVIOUS
  <2>3. c \in Inode /\ c.num = 0 /\ ~c.dirt /\ ~c.lock /\ c.count = 2 /\ c.pipe
    <3>1. InHand \in Inode /\ InHand.num = 0 /\ ~InHand.dirt /\ ~InHand.lock
      BY Constants
    <3>2. c \in Inode /\ c.count = 2 /\ c.pipe = TRUE
      <4>1. c.pipe
        BY <2>2 DEF InHand, Cleared
      <4>2. c \in Inode
        <5>1. 0 \in Vals
          BY Constants
        <5>2. c = [num |-> 0, count |-> 2, dirt |-> FALSE, lock |-> FALSE, pipe |-> TRUE, nlinks |-> 0, val |-> 0]
          BY <2>2 DEF InHand, Cleared
        <5> QED BY <5>1, <5>2 DEF Inode
      <4>3. c.count = 2
        BY <2>2 DEF InHand, Cleared
      <4> QED BY <4>1, <4>2, <4>3, Fields
    <3>3. c.num = InHand.num /\ c.dirt = InHand.dirt /\ c.lock = InHand.lock
      BY <2>2, <3>1 DEF Inode
    <3> QED BY <3>1, <3>2, <3>3
  <2>4. inode' = [inode EXCEPT ![x] = c] /\ inode'[x] = c
    <3>1. PICK t : t = NewEntry(x)
      OBVIOUS
    <3>2. t = [inode EXCEPT ![x] = InHand]
      BY <3>1 DEF NewEntry, InHand
    <3>3. inode' = [t EXCEPT ![x].count = 2, ![x].pipe = TRUE]
      BY <1>5, <3>1
    <3>4. t[x] = InHand /\ t \in [Entries -> Inode]
      BY <2>1, <3>2, Constants
    <3>5. inode' = [t EXCEPT ![x] = c]
      BY <2>1, <2>2, <3>3, <3>4
    <3> QED BY <2>1, <3>2, <3>5
  <2>5. PICK v : v = [loc[p] EXCEPT !.e = x, !.i = 2]
    OBVIOUS
  <2>6. v \in Local /\ v.op = "pipe" /\ v.nr = loc[p].nr /\ v.e = x /\ v.empty = loc[p].empty /\ v.i = 2
    <3>1. loc[p] \in Local /\ loc[p].op = "pipe"
      BY <1>1, <1>2, LocalTypes DEF ProcRight
    <3> QED BY <2>1, <2>5, <3>1 DEF Local
  <2>7. loc' = [loc EXCEPT ![p] = v]
    BY <1>1, <1>5, <2>5, TypeFacts
  <2>8. LocalStep(p, "held", v)
    BY <1>5, <2>6, <2>7 DEF LocalStep, Locations
  <2>9. pc'[p] = "held" /\ loc'[p] = v
    BY <1>1, <2>8, LocalFacts
  <2>10. ProcRight(p)'
    BY <1>1, <1>2, <2>1, <2>3, <2>4, <2>6, <2>9, Constants DEF ProcRight, Outside
  <2>11. \A e \in Entries : RefsOf(v, "held", e) = IF e = x THEN c.count ELSE 0
    BY <2>3, <2>6 DEF RefsOf, Outside
  <2>12. TakeStep(p, x, c, "held", v)
    BY <1>2, <2>3, <2>4, <2>8, <2>11 DEF TakeStep, Outside
  <2> QED BY <2>10, <2>12, TakeInv
<1> QED BY <1>3, <1>4, <1>5
-----------------------------------------------------------------------------
(* Steps of any kind, and steps that take or free a lock.                   *)

(* The types of all but inode, pc and loc after a step.                     *)
RestTypes ==
  /\ disk' \in [Nums -> [nlinks : 0 .. 255, val : Vals]] /\ imap' \subseteq Nums /\ names' \subseteq Nums
  /\ wait' \in [Procs -> Entries \union {0, Lost}] /\ last' \in [Nums -> Vals]
  /\ torn' \in BOOLEAN /\ stale' \in BOOLEAN /\ scenario' = scenario

(* What every step keeps for others, and sets right for itself.             *)
Keeps(p) ==
  /\ OnlyP(p) /\ Types' /\ ProcRight(p)'
  /\ \A e \in Entries : /\ Harmless(e) \/ Sole(p, e)
                        /\ EntryRight(e)'
                        /\ inode'[e].count + Refs(p, e) = inode[e].count + Refs(p, e)'

(* The invariant after such a step.                                         *)
LEMMA KeepsInv ==
  ASSUME Inv, NEW p \in Procs, Keeps(p), NumsRight', LocksRight', ChangesKept'
  PROVE  Inv'
<1>1. /\ Types /\ CountIsReferences /\ \A q \in Procs : ProcRight(q)
  BY DEF Inv
<1>2. /\ OnlyP(p) /\ Types' /\ ProcRight(p)'
      /\ \A e \in Entries : /\ Harmless(e) \/ Sole(p, e)
                            /\ EntryRight(e)'
                            /\ inode'[e].count + Refs(p, e) = inode[e].count + Refs(p, e)'
  BY DEF Keeps
<1>3. CountIsReferences'
  <2>1. ASSUME NEW e \in Entries PROVE inode'[e].count \in Nat
    BY <1>2 DEF Types, TableTypes
  <2> QED BY <1>1, <1>2, <2>1, CountsKept
<1>4. ASSUME NEW q \in Procs PROVE ProcRight(q)'
  <2>1. CASE q # p
    BY <1>1, <1>2, <2>1, OthersRight
  <2> QED BY <1>2, <2>1
<1> QED BY <1>2, <1>3, <1>4 DEF Inv

(* An entry that is left alone.                                             *)
LEMMA KeepsEntry ==
  ASSUME Inv, NEW p \in Procs, NEW e \in Entries, inode'[e] = inode[e], Refs(p, e)' = Refs(p, e)
  PROVE  /\ Harmless(e) \/ Sole(p, e)
         /\ EntryRight(e)'
         /\ inode'[e].count + Refs(p, e) = inode[e].count + Refs(p, e)'
BY EntrySame DEF EntryStep

(* Where a process has a lock.                                              *)
Locking == {"read", "write", "syncwrite"}

(* p locks x, and the other locks stay.                                     *)
LockTaken(p, x) ==
  /\ OnlyP(p) /\ pc[p] \notin Locking /\ ~inode[x].lock /\ inode'[x].lock
  /\ \A e \in Entries \ {x} : inode'[e] = inode[e]
  /\ \A e \in Entries : Locker(p, e)' <=> e = x
  /\ pc'[p] = "read" => loc'[p].e = x /\ inode'[x].count = 1
  /\ wait' = wait /\ torn' = torn

(* Locks are right after that.                                              *)
LEMMA LockTakenRight ==
  ASSUME Inv, NEW p \in Procs, NEW x \in Entries, LockTaken(p, x)
  PROVE  LocksRight'
<1>1. SUFFICES ASSUME ~torn
      PROVE  /\ \A e \in Entries : \A q \in Procs : Locker(q, e)' => inode'[e].lock
             /\ \A e \in Entries : \A q, r \in Procs : Locker(q, e)' /\ Locker(r, e)' => q = r
             /\ \A e \in Entries : inode'[e].lock => \E q \in Procs : Locker(q, e)'
             /\ \A q \in Procs : pc'[q] = "read" => inode'[loc'[q].e].count = 1
             /\ \A q \in Procs : wait'[q] # 0 => wait'[q] \in Entries /\ inode'[wait'[q]].lock
  BY DEF LocksRight, LockTaken
<1>2. /\ \A e \in Entries : \A q \in Procs : Locker(q, e) => inode[e].lock
      /\ \A e \in Entries : \A q, r \in Procs : Locker(q, e) /\ Locker(r, e) => q = r
      /\ \A e \in Entries : inode[e].lock => \E q \in Procs : Locker(q, e)
      /\ \A q \in Procs : pc[q] = "read" => inode[loc[q].e].count = 1
      /\ \A q \in Procs : wait[q] # 0 => wait[q] \in Entries /\ inode[wait[q]].lock
  BY <1>1 DEF Inv, LocksRight
<1>3. /\ \A q \in Procs \ {p}, e \in Entries : Locker(q, e)' <=> Locker(q, e)
      /\ \A e \in Entries : ~Locker(p, e)
      /\ \A e \in Entries : Locker(p, e)' <=> e = x
  BY DEF LockTaken, OnlyP, Locker, Locking
<1>4. ~inode[x].lock /\ inode'[x].lock /\ \A e \in Entries \ {x} : inode'[e] = inode[e]
  BY DEF LockTaken
<1>5. \A q \in Procs : ~Locker(q, x)
  BY <1>2, <1>4
<1>6. \A e \in Entries : \A q \in Procs : Locker(q, e)' => inode'[e].lock
  BY <1>2, <1>3, <1>4
<1>7. \A e \in Entries : \A q, r \in Procs : Locker(q, e)' /\ Locker(r, e)' => q = r
  BY <1>2, <1>3, <1>5
<1>8. \A e \in Entries : inode'[e].lock => \E q \in Procs : Locker(q, e)'
  <2>1. SUFFICES ASSUME NEW e \in Entries, inode'[e].lock PROVE \E q \in Procs : Locker(q, e)'
    OBVIOUS
  <2>2. CASE e = x
    BY <1>3, <2>2
  <2>3. CASE e # x
    <3>1. PICK q \in Procs : Locker(q, e)
      BY <1>2, <1>4, <2>1, <2>3
    <3> QED BY <1>3, <3>1
  <2> QED BY <2>2, <2>3
<1>9. ASSUME NEW q \in Procs, pc'[q] = "read" PROVE inode'[loc'[q].e].count = 1
  <2>1. CASE q = p
    BY <1>9, <2>1 DEF LockTaken
  <2>2. CASE q # p
    <3>1. loc'[q] = loc[q] /\ pc[q] = "read"
      BY <1>9, <2>2 DEF LockTaken, OnlyP
    <3>2. loc[q].e \in Entries /\ Locker(q, loc[q].e)
      BY <3>1, ReaderFacts DEF Inv
    <3>3. loc[q].e # x
      BY <1>5, <3>2
    <3> QED BY <1>2, <1>4, <3>1, <3>2, <3>3
  <2> QED BY <2>1, <2>2
<1>10. ASSUME NEW q \in Procs, wait'[q] # 0 PROVE wait'[q] \in Entries /\ inode'[wait'[q]].lock
  <2>1. wait'[q] = wait[q]
    BY DEF LockTaken
  <2> QED BY <1>2, <1>4, <1>10, <2>1
<1> QED BY <1>6, <1>7, <1>8, <1>9, <1>10

(* p, who has locked x, frees it and wakes who sleeps on it.                *)
LockFreed(p, x) ==
  /\ OnlyP(p) /\ Locker(p, x) /\ pc'[p] \notin Locking /\ ~inode'[x].lock
  /\ \A e \in Entries \ {x} : inode'[e] = inode[e]
  /\ wait' = WakeUp(x) /\ torn' = torn

(* Locks are right after that.                                              *)
LEMMA LockFreedRight ==
  ASSUME Inv, NEW p \in Procs, NEW x \in Entries, LockFreed(p, x)
  PROVE  LocksRight'
<1>1. SUFFICES ASSUME ~torn
      PROVE  /\ \A e \in Entries : \A q \in Procs : Locker(q, e)' => inode'[e].lock
             /\ \A e \in Entries : \A q, r \in Procs : Locker(q, e)' /\ Locker(r, e)' => q = r
             /\ \A e \in Entries : inode'[e].lock => \E q \in Procs : Locker(q, e)'
             /\ \A q \in Procs : pc'[q] = "read" => inode'[loc'[q].e].count = 1
             /\ \A q \in Procs : wait'[q] # 0 => wait'[q] \in Entries /\ inode'[wait'[q]].lock
  BY DEF LocksRight, LockFreed
<1>2. /\ \A e \in Entries : \A q \in Procs : Locker(q, e) => inode[e].lock
      /\ \A e \in Entries : \A q, r \in Procs : Locker(q, e) /\ Locker(r, e) => q = r
      /\ \A e \in Entries : inode[e].lock => \E q \in Procs : Locker(q, e)
      /\ \A q \in Procs : pc[q] = "read" => inode[loc[q].e].count = 1
      /\ \A q \in Procs : wait[q] # 0 => wait[q] \in Entries /\ inode[wait[q]].lock
  BY <1>1 DEF Inv, LocksRight
<1>3. /\ \A q \in Procs \ {p}, e \in Entries : Locker(q, e)' <=> Locker(q, e)
      /\ \A e \in Entries : ~Locker(p, e)'
      /\ \A e \in Entries : Locker(p, e) => e = x
  BY DEF LockFreed, OnlyP, Locker, Locking
<1>4. ~inode'[x].lock /\ \A e \in Entries \ {x} : inode'[e] = inode[e]
  BY DEF LockFreed
<1>5. \A q \in Procs : Locker(q, x) => q = p
  BY <1>2 DEF LockFreed
<1>6. \A e \in Entries : \A q \in Procs : Locker(q, e)' => inode'[e].lock
  BY <1>2, <1>3, <1>4, <1>5
<1>7. \A e \in Entries : \A q, r \in Procs : Locker(q, e)' /\ Locker(r, e)' => q = r
  BY <1>2, <1>3
<1>8. \A e \in Entries : inode'[e].lock => \E q \in Procs : Locker(q, e)'
  <2>1. SUFFICES ASSUME NEW e \in Entries, inode'[e].lock PROVE \E q \in Procs : Locker(q, e)'
    OBVIOUS
  <2>2. e # x
    BY <1>4, <2>1
  <2>3. PICK q \in Procs : Locker(q, e)
    BY <1>2, <1>4, <2>1, <2>2
  <2> QED BY <1>3, <2>2, <2>3
<1>9. ASSUME NEW q \in Procs, pc'[q] = "read" PROVE inode'[loc'[q].e].count = 1
  <2>1. q # p /\ loc'[q] = loc[q] /\ pc[q] = "read"
    BY <1>9 DEF LockFreed, OnlyP, Locking
  <2>2. loc[q].e \in Entries /\ Locker(q, loc[q].e)
    BY <2>1, ReaderFacts DEF Inv
  <2>3. loc[q].e # x
    BY <1>5, <2>1, <2>2
  <2> QED BY <1>2, <1>4, <2>1, <2>2, <2>3
<1>10. ASSUME NEW q \in Procs, wait'[q] # 0 PROVE wait'[q] \in Entries /\ inode'[wait'[q]].lock
  <2>1. wait'[q] = IF wait[q] = x THEN 0 ELSE wait[q]
    BY WakeUpFacts DEF LockFreed, Inv
  <2> QED BY <1>2, <1>4, <1>10, <2>1
<1> QED BY <1>6, <1>7, <1>8, <1>9, <1>10

(* ChangesKept after a step, in the words of KeptFor().                     *)
LEMMA ChangesFrom ==
  ASSUME ~torn' /\ ~stale' => \A n \in imap' : KeptFor(n)'
  PROVE  ChangesKept'
<1>1. ASSUME NEW n \in imap'
      PROVE  /\ \A e \in Entries : e \in Loaded(n)' <=> inode'[e].num = n /\ IsLoaded(e)'
             /\ Loaded(n)' \subseteq Entries
  BY DEF Loaded, IsLoaded, Reads
<1> QED BY <1>1 DEF ChangesKept, KeptFor

(* Nothing is lost of inode n if its entries are preserved and neither it   *)
(* nor its block is given another value.                                    *)
LEMMA KeptSame ==
  ASSUME NEW n, KeptFor(n), \A e \in Entries : Preserved(e, n),
         disk'[n].val = disk[n].val, last'[n] = last[n]
  PROVE  KeptFor(n)'
<1>1. \A e \in Entries : inode'[e].num = n /\ IsLoaded(e)' =>
        inode'[e].val = last'[n] /\ (inode'[e].dirt \/ disk'[n].val = last'[n])
  BY DEF KeptFor, Preserved
<1>2. (\A e \in Entries : ~(inode'[e].num = n /\ IsLoaded(e)')) => disk'[n].val = last'[n]
  BY DEF KeptFor, Preserved
<1> QED BY <1>1, <1>2 DEF KeptFor

(* An entry of which neither the contents nor the readers change.           *)
LEMMA PreservedSame ==
  ASSUME NEW p \in Procs, OnlyP(p), NEW e \in Entries, NEW n, Reads(p, e)' <=> Reads(p, e),
         inode'[e].num = inode[e].num, inode'[e].val = inode[e].val, inode[e].dirt => inode'[e].dirt
  PROVE  Preserved(e, n)
<1>1. \A q \in Procs : Reads(q, e)' <=> Reads(q, e)
  BY DEF OnlyP, Reads
<1>2. IsLoaded(e)' <=> IsLoaded(e)
  BY <1>1 DEF IsLoaded
<1> QED BY <1>2 DEF Preserved
-----------------------------------------------------------------------------
(* iget().                                                                  *)

(* p searches the table for lo.nr with the empty entry x in hand.           *)
Ready(p, lo, table, x) ==
  /\ x \in Entries /\ table \in [Entries -> Inode]
  /\ table[x] = InHand /\ \A e \in Entries \ {x} : table[e] = inode[e]
  /\ Sole(p, x) /\ ~inode[x].dirt /\ ~inode[x].lock /\ \A q \in Procs : ~Reads(q, x)
  /\ Refs(p, x) = inode[x].count /\ \A e \in Entries \ {x} : Refs(p, e) = 0
  /\ pc[p] \in {"user", "iget", "match"}
  /\ lo \in Local /\ lo.op \in {"change", "unlink"} /\ lo.nr \in Nums

(* p with its variables v at l, after such a search.                        *)
SearchedStep(p, lo, l, v) ==
  /\ LocalStep(p, l, v) /\ v.op = lo.op /\ v.nr = lo.nr
  /\ l = "match" <=> v.empty # 0
  /\ names' = names /\ disk' = disk /\ imap' = imap
  /\ last' = last /\ torn' = torn /\ scenario' = scenario

(* A match is not the empty entry.                                          *)
LEMMA MatchFacts ==
  ASSUME Inv, NEW p, NEW lo, NEW table, NEW x, Ready(p, lo, table, x), NEW m \in Entries, table[m].num = lo.nr
  PROVE  /\ m # x /\ table[m] = inode[m] /\ inode[m].num = lo.nr /\ inode[m].num # 0
         /\ inode[m] # InHand /\ ~inode[m].pipe
<1>1. m # x
  BY Constants DEF Ready
<1>2. table[m] = inode[m] /\ inode[m].num # 0
  BY <1>1, Constants DEF Ready
<1>3. EntryRight(m)
  BY DEF Inv
<1> QED BY <1>1, <1>2, <1>3, Constants DEF EntryRight

(* x stays in hand, or is given back.                                       *)
LEMMA InHandStep ==
  ASSUME Inv, NEW p \in Procs, NEW lo, NEW table, NEW x, Ready(p, lo, table, x),
         NEW k \in Nat, inode'[x] = [InHand EXCEPT !.count = k], Refs(p, x)' = k
  PROVE  EntryStep(p, x)
<1>1. /\ x \in Entries /\ Sole(p, x) /\ ~inode[x].dirt /\ ~inode[x].lock /\ Refs(p, x) = inode[x].count
      /\ inode[x] \in Inode
  BY TypeFacts DEF Inv, Ready
<1>2. inode'[x].count = k /\ inode'[x].num = 0 /\ ~inode'[x].dirt /\ ~inode'[x].lock /\ ~inode'[x].pipe
  BY DEF InHand, Cleared
<1>3. inode'[x].lock = inode[x].lock
  <2>1. inode[x].lock = FALSE
    BY <1>1, Fields
  <2>2. inode'[x].lock = FALSE
    BY DEF InHand, Cleared
  <2> QED BY <2>1, <2>2
<1>4. EntryRight(x)'
  BY <1>2 DEF EntryRight
<1>5. inode[x].count \in Nat
  BY <1>1, Fields
<1>6. inode'[x].count + Refs(p, x) = inode[x].count + Refs(p, x)'
  BY <1>1, <1>2, <1>5
<1> QED BY <1>1, <1>2, <1>3, <1>4, <1>6 DEF EntryStep

(* iget() waits for a match.                                                *)
LEMMA SearchWaits ==
  ASSUME Inv, NEW p \in Procs, NEW lo, NEW table, NEW x, Ready(p, lo, table, x),
         NEW m \in Entries, table[m].num = lo.nr, table[m].lock,
         inode' = table, NEW v, v = [lo EXCEPT !.e = m, !.empty = x],
         SearchedStep(p, lo, "match", v), stale' = stale, wait' = [wait EXCEPT ![p] = m]
  PROVE  Inv'
<1>1. Types
  BY DEF Inv
<1>2. m # x /\ table[m] = inode[m]
  BY MatchFacts
<1>3. x \in Entries /\ lo \in Local /\ lo.op \in {"change", "unlink"} /\ lo.nr \in Nums
  BY DEF Ready
<1>4. v \in Local /\ v.op = lo.op /\ v.nr = lo.nr /\ v.e = m /\ v.empty = x
  <2>1. m \in Entries \union {0} /\ x \in Entries \union {0} /\ lo \in Local
    BY <1>3
  <2> QED BY <2>1 DEF Local
<1>5. /\ OnlyP(p) /\ pc' \in [Procs -> Locations] /\ loc' \in [Procs -> Local]
      /\ pc'[p] = "match" /\ loc'[p] = v
  BY <1>1, LocalFacts DEF SearchedStep
<1>6. inode'[x] = InHand /\ \A e \in Entries \ {x} : inode'[e] = inode[e]
  BY DEF Ready
<1>7. ProcRight(p)'
  BY <1>3, <1>4, <1>5, <1>6, Constants DEF ProcRight, Outside
<1>8. \A e \in Entries : Refs(p, e)' = IF e = x THEN 1 ELSE 0
  <2>1. Placed(loc'[p], pc'[p])
    BY <1>7 DEF ProcRight, Placed
  <2>2. \A e \in Entries : RefsOf(v, "match", e) = IF e = x THEN 1 ELSE 0
    BY <1>4 DEF RefsOf, One
  <2> QED BY <1>5, <2>1, <2>2, RefsByPlace
<1>9. EntryStep(p, x)
  <2>1. inode'[x] = [InHand EXCEPT !.count = 1]
    BY <1>6 DEF InHand, Cleared
  <2> QED BY <1>3, <1>8, <2>1, InHandStep
<1>10. ASSUME NEW e \in Entries, e # x PROVE EntryStep(p, e)
  BY <1>6, <1>8, <1>10, EntrySame DEF Ready
<1>11. wait \in [Procs -> Entries \union {0, Lost}] /\ names \subseteq Nums
  BY <1>1, TypeFacts
<1>12. PlainStep(p)
  <2>1. NextTypes
    <3>1. inode' \in [Entries -> Inode]
      BY DEF Ready
    <3>2. wait' \in [Procs -> Entries \union {0, Lost}]
      BY <1>11
    <3> QED BY <1>5, <1>11, <3>1, <3>2 DEF SearchedStep, NextTypes
  <2>2. \A q \in Procs : wait'[q] = wait[q] \/ wait'[q] = 0 \/ (wait'[q] \in Entries /\ inode[wait'[q]].lock)
    BY <1>2, <1>11
  <2>3. pc[p] \notin {"read", "write", "syncwrite"} /\ pc'[p] \notin {"read", "write", "syncwrite"}
    BY <1>5 DEF Ready
  <2>4. disk' = disk /\ imap' = imap /\ last' = last /\ torn' = torn /\ stale' = stale /\ scenario' = scenario
    BY DEF SearchedStep
  <2> QED BY <1>5, <1>7, <1>9, <1>10, <2>1, <2>2, <2>3, <2>4 DEF PlainStep
<1> QED BY <1>12, PlainInv

(* iget() has found its inode in m.                                         *)
LEMMA FoundInv ==
  ASSUME Inv, NEW p \in Procs, NEW lo, NEW table, NEW x, Ready(p, lo, table, x),
         NEW m \in Entries, table[m].num = lo.nr, ~table[m].lock,
         Found(p, lo, table, m, x), scenario' = scenario
  PROVE  Inv'
<1>1. Types
  BY DEF Inv
<1>2. /\ m # x /\ table[m] = inode[m] /\ inode[m].num = lo.nr /\ inode[m].num # 0
      /\ inode[m] # InHand /\ ~inode[m].pipe
  BY MatchFacts
<1>3. /\ x \in Entries /\ lo \in Local /\ lo.op \in {"change", "unlink"} /\ lo.nr \in Nums
      /\ table \in [Entries -> Inode] /\ table[x] = InHand
      /\ \A e \in Entries \ {x} : table[e] = inode[e] /\ Refs(p, e) = 0
  BY DEF Ready
<1>4. PICK v : v = [lo EXCEPT !.e = m, !.empty = 0]
  OBVIOUS
<1>5. v \in Local /\ v.op = lo.op /\ v.nr = lo.nr /\ v.e = m /\ v.empty = 0
  <2>1. m \in Entries \union {0} /\ 0 \in Entries \union {0} /\ lo \in Local
    BY <1>3
  <2> QED BY <1>4, <2>1 DEF Local
<1>6. /\ inode' = [table EXCEPT ![m].count = @ + 1, ![x].count = @ - 1]
      /\ LocalStep(p, "held", v) /\ names' = names /\ disk' = disk /\ imap' = imap
      /\ last' = last /\ torn' = torn /\ stale' = stale /\ wait' = wait
  BY <1>4, <1>5 DEF Found, Goto, LocalStep, Locations, fs, aux
<1>7. /\ OnlyP(p) /\ pc' \in [Procs -> Locations] /\ loc' \in [Procs -> Local]
      /\ pc'[p] = "held" /\ loc'[p] = v
  BY <1>1, <1>6, LocalFacts
<1>8. PICK k \in Nat : k = inode[m].count + 1
  <2>1. inode[m] \in Inode
    BY <1>1, TypeFacts
  <2> QED BY <2>1, Fields
<1>9. PICK c : c = [inode[m] EXCEPT !.count = k]
  OBVIOUS
<1>10. PICK d : d = [InHand EXCEPT !.count = 0]
  OBVIOUS
<1>11. /\ c \in Inode /\ c.count = k /\ c.num = inode[m].num /\ c.pipe = inode[m].pipe
       /\ c.dirt = inode[m].dirt /\ c.lock = inode[m].lock /\ c.val = inode[m].val
  <2>1. inode[m] \in Inode
    BY <1>1, TypeFacts
  <2> QED BY <1>8, <1>9, <2>1 DEF Inode
<1>12. d \in Inode
  <2>1. InHand \in Inode
    BY Constants
  <2> QED BY <1>10, <2>1 DEF Inode
<1>13. inode' = [table EXCEPT ![m] = c, ![x] = d]
  <2>1. InHand.count - 1 = 0
    BY Constants
  <2>2. inode' = [table EXCEPT ![m].count = k, ![x].count = 0]
    <3>1. table[m].count + 1 = k /\ table[x].count - 1 = 0
      BY <1>2, <1>3, <1>8, <2>1
    <3> QED BY <1>2, <1>3, <1>6, <3>1
  <2> QED BY <1>2, <1>3, <1>9, <1>10, <2>2
<1>14. /\ inode' \in [Entries -> Inode] /\ inode'[m] = c /\ inode'[x] = d
       /\ \A e \in Entries \ {x, m} : inode'[e] = inode[e]
  BY <1>2, <1>3, <1>11, <1>12, <1>13
<1>15. ProcRight(p)'
  BY <1>2, <1>3, <1>5, <1>7, <1>11, <1>14, Constants DEF ProcRight, Outside
<1>16. \A e \in Entries : Refs(p, e)' = IF e = m THEN 1 ELSE 0
  <2>1. Placed(loc'[p], pc'[p])
    BY <1>15 DEF ProcRight, Placed
  <2>2. \A e \in Entries : RefsOf(v, "held", e) = IF e = m THEN 1 ELSE 0
    BY <1>3, <1>5 DEF RefsOf, Outside
  <2> QED BY <1>7, <2>1, <2>2, RefsByPlace
<1>17. EntryStep(p, x)
  BY <1>2, <1>3, <1>10, <1>14, <1>16, InHandStep
<1>18. EntryStep(p, m)
  <2>1. Harmless(m)
    BY <1>2, <1>11, <1>14 DEF Harmless
  <2>2. EntryRight(m)'
    <3>1. inode[m].count \in Nat
      BY <1>1, TypeFacts, Fields
    <3>2. inode'[m].count # 0
      BY <1>8, <1>11, <1>14, <3>1
    <3> QED BY <1>2, <1>11, <1>14, <3>2 DEF EntryRight
  <2>3. inode'[m].count + Refs(p, m) = inode[m].count + Refs(p, m)'
    <3>1. inode[m].count \in Nat /\ Refs(p, m) = 0 /\ Refs(p, m)' = 1 /\ inode'[m].count = inode[m].count + 1
      BY <1>1, <1>2, <1>3, <1>8, <1>11, <1>14, <1>16, TypeFacts, Fields
    <3> QED BY <3>1
  <2> QED BY <1>2, <1>11, <1>14, <2>1, <2>2, <2>3 DEF EntryStep
<1>19. ASSUME NEW e \in Entries, e # x, e # m PROVE EntryStep(p, e)
  BY <1>3, <1>14, <1>16, <1>19, EntrySame
<1>20. PlainStep(p)
  <2>1. wait \in [Procs -> Entries \union {0, Lost}] /\ names \subseteq Nums
    BY <1>1, TypeFacts
  <2>2. NextTypes
    BY <1>6, <1>7, <1>14, <2>1 DEF NextTypes
  <2>3. pc[p] \notin {"read", "write", "syncwrite"} /\ pc'[p] \notin {"read", "write", "syncwrite"}
    BY <1>7 DEF Ready
  <2> QED BY <1>6, <1>7, <1>15, <1>17, <1>18, <1>19, <2>2, <2>3 DEF PlainStep
<1> QED BY <1>20, PlainInv

(* iget() has found none, and reads the inode into its empty entry.         *)
LEMMA SearchReads ==
  ASSUME Inv, NEW p \in Procs, NEW lo, NEW table, NEW x, Ready(p, lo, table, x),
         \A e \in Entries : table[e].num # lo.nr,
         inode' = [table EXCEPT ![x].num = lo.nr, ![x].lock = TRUE],
         NEW v, v = [lo EXCEPT !.e = x, !.empty = 0],
         SearchedStep(p, lo, "read", v), stale' = (stale \/ lo.nr \notin imap), wait' = wait
  PROVE  Inv'
<1>1. Types
  BY DEF Inv
<1>2. /\ x \in Entries /\ lo \in Local /\ lo.op \in {"change", "unlink"} /\ lo.nr \in Nums
      /\ table \in [Entries -> Inode] /\ table[x] = InHand
      /\ \A e \in Entries \ {x} : table[e] = inode[e] /\ Refs(p, e) = 0
      /\ Sole(p, x) /\ ~inode[x].dirt /\ ~inode[x].lock /\ \A q \in Procs : ~Reads(q, x)
      /\ pc[p] \in {"user", "iget", "match"} /\ Refs(p, x) = inode[x].count
  BY DEF Ready
<1>3. v \in Local /\ v.op = lo.op /\ v.nr = lo.nr /\ v.e = x /\ v.empty = 0
  <2>1. x \in Entries \union {0} /\ 0 \in Entries \union {0} /\ lo \in Local
    BY <1>2
  <2> QED BY <2>1 DEF Local
<1>4. /\ LocalStep(p, "read", v) /\ names' = names /\ disk' = disk /\ imap' = imap
      /\ last' = last /\ torn' = torn /\ scenario' = scenario
  BY DEF SearchedStep
<1>5. /\ OnlyP(p) /\ pc' \in [Procs -> Locations] /\ loc' \in [Procs -> Local]
      /\ pc'[p] = "read" /\ loc'[p] = v
  BY <1>1, <1>4, LocalFacts
<1>6. PICK c : c = [InHand EXCEPT !.num = lo.nr, !.lock = TRUE]
  OBVIOUS
<1>7. c \in Inode /\ c.num = lo.nr /\ c.lock /\ c.count = 1 /\ ~c.pipe /\ ~c.dirt
  <2>1. 0 \in Vals
    BY Constants
  <2>2. c = [num |-> lo.nr, count |-> 1, dirt |-> FALSE, lock |-> TRUE, pipe |-> FALSE, nlinks |-> 0, val |-> 0]
    BY <1>6 DEF InHand, Cleared
  <2> QED BY <1>2, <2>1, <2>2 DEF Inode
<1>8. inode' = [table EXCEPT ![x] = c]
  BY <1>2, <1>6
<1>9. inode' \in [Entries -> Inode] /\ inode'[x] = c /\ \A e \in Entries \ {x} : inode'[e] = inode[e]
  <2>1. x \in Entries /\ table \in [Entries -> Inode] /\ c \in Inode /\ \A e \in Entries \ {x} : table[e] = inode[e]
    BY <1>2, <1>7
  <2> QED BY <1>8, <2>1
<1>10. ProcRight(p)'
  BY <1>2, <1>3, <1>5, <1>7, <1>9, Constants DEF ProcRight, Outside
<1>11. \A e \in Entries : Refs(p, e)' = IF e = x THEN 1 ELSE 0
  <2>1. Placed(loc'[p], pc'[p])
    BY <1>10 DEF ProcRight, Placed
  <2>2. v.e = x /\ v.op # "pipe"
    BY <1>2, <1>3
  <2>3. \A e \in Entries : RefsOf(v, "read", e) = IF e = x THEN 1 ELSE 0
    <3>1. "read" \notin Outside
      BY DEF Outside
    <3> QED BY <2>2, <3>1, RefsHeld, Zenon
  <2> QED BY <1>5, <2>1, <2>3, RefsByPlace
<1>12. Types'
  <2>1. stale' \in BOOLEAN
    OBVIOUS
  <2>2. RestTypes
    BY <1>1, <1>4, <2>1, TypeFacts DEF RestTypes
  <2>3. inode' \in [Entries -> Inode] /\ scenario \in Scenarios
    BY <1>1, <1>9 DEF Types
  <2> QED BY <1>5, <2>2, <2>3, Zenon DEF Types, TableTypes, Inode, Local, RestTypes
<1>13. Keeps(p)
  <2>1. ASSUME NEW e \in Entries
        PROVE  /\ Harmless(e) \/ Sole(p, e)
               /\ EntryRight(e)'
               /\ inode'[e].count + Refs(p, e) = inode[e].count + Refs(p, e)'
    <3>1. CASE e = x
      <4>1. EntryRight(x)'
        <5>1. inode'[x].count = 1 /\ ~inode'[x].pipe
          BY <1>7, <1>9
        <5> QED BY <5>1 DEF EntryRight
      <4>2. inode[x].count \in Nat
        BY <1>1, <1>2, TypeFacts, Fields
      <4>3. inode'[x].count + Refs(p, x) = inode[x].count + Refs(p, x)'
        <5>1. inode'[x].count = 1 /\ Refs(p, x)' = 1 /\ Refs(p, x) = inode[x].count
          BY <1>2, <1>7, <1>9, <1>11
        <5> QED BY <4>2, <5>1
      <4> QED BY <1>2, <3>1, <4>1, <4>3
    <3>2. CASE e # x
      BY <1>2, <1>9, <1>11, <3>2, KeepsEntry
    <3> QED BY <3>1, <3>2
  <2> QED BY <1>5, <1>10, <1>12, <2>1 DEF Keeps
<1>14. NumsRight'
  <2>1. SUFFICES ASSUME ~stale'
        PROVE  /\ \A e, f \in Entries : inode'[e].num = inode'[f].num /\ inode'[e].num # 0 => e = f
               /\ \A e \in Entries : inode'[e].num # 0 => inode'[e].num \in imap'
    BY DEF NumsRight
  <2>2. /\ \A e, f \in Entries : inode[e].num = inode[f].num /\ inode[e].num # 0 => e = f
        /\ \A e \in Entries : inode[e].num # 0 => inode[e].num \in imap
        /\ lo.nr \in imap
    BY <2>1 DEF Inv, NumsRight
  <2>3. \A e \in Entries \ {x} : inode[e].num # lo.nr
    BY <1>2
  <2>4. inode'[x].num = lo.nr
    BY <1>7, <1>9
  <2> QED BY <1>4, <1>9, <2>2, <2>3, <2>4
<1>15. LocksRight'
  <2>1. \A e \in Entries : Locker(p, e)' <=> e = x
    BY <1>3, <1>5 DEF Locker
  <2>2. LockTaken(p, x)
    BY <1>2, <1>3, <1>4, <1>5, <1>7, <1>9, <2>1 DEF LockTaken, Locking
  <2> QED BY <1>2, <2>2, LockTakenRight
<1>16. ChangesKept'
  <2>1. ASSUME NEW e \in Entries, NEW n \in imap' PROVE Preserved(e, n)
    <3>1. CASE e = x
      <4>1. ~IsLoaded(x)'
        BY <1>3, <1>5 DEF IsLoaded, Reads
      <4> QED BY <1>2, <3>1, <4>1 DEF Preserved
    <3>2. CASE e # x
      <4>1. Reads(p, e)' <=> Reads(p, e)
        BY <1>2, <1>3, <1>5, <3>2 DEF Reads
      <4> QED BY <1>5, <1>9, <3>2, <4>1, PreservedSame
    <3> QED BY <3>1, <3>2
  <2>2. ~torn' /\ ~stale' => ~torn /\ ~stale
    BY <1>4
  <2> QED BY <1>4, <2>1, <2>2, ChangesSame DEF Inv
<1> QED BY <1>13, <1>14, <1>15, <1>16, KeepsInv

(* The search.                                                              *)
LEMMA SearchInv ==
  ASSUME Inv, NEW p \in Procs, NEW lo, NEW table, NEW x, Ready(p, lo, table, x),
         Search(p, lo, table, x), UNCHANGED scenario
  PROVE  Inv'
<1>1. PICK M : M = {e \in Entries : table[e].num = lo.nr}
  OBVIOUS
<1>2. /\ x \in Entries /\ x \in Entries \union {0} /\ lo \in Local /\ x # 0
  BY Constants DEF Ready
<1>3. CASE M = {}
  <2>1. /\ inode' = [table EXCEPT ![x].num = lo.nr, ![x].lock = TRUE]
        /\ loc' = [loc EXCEPT ![p] = [lo EXCEPT !.e = x, !.empty = 0]]
        /\ stale' = (stale \/ lo.nr \notin imap)
        /\ pc' = [pc EXCEPT ![p] = "read"]
        /\ names' = names /\ disk' = disk /\ imap' = imap /\ wait' = wait /\ last' = last /\ torn' = torn
    BY <1>1, <1>3 DEF Search, Goto, fs
  <2>2. PICK v : v = [lo EXCEPT !.e = x, !.empty = 0]
    OBVIOUS
  <2>3. v \in Local /\ v.op = lo.op /\ v.nr = lo.nr /\ v.empty = 0
    BY <1>2, <2>2 DEF Local
  <2>4. SearchedStep(p, lo, "read", v)
    BY <2>1, <2>2, <2>3 DEF SearchedStep, LocalStep, Locations
  <2>5. \A e \in Entries : table[e].num # lo.nr
    BY <1>1, <1>3
  <2> QED BY <2>1, <2>2, <2>4, <2>5, SearchReads
<1>4. CASE M # {}
  <2>1. PICK m \in Entries : m = Min(M) /\ table[m].num = lo.nr
    <3>1. M \subseteq Nat
      BY <1>1, Constants
    <3>2. Min(M) \in M
      BY <1>4, <3>1, MinFacts
    <3> QED BY <1>1, <3>2
  <2>2. CASE table[m].lock
    <3>1. /\ inode' = table
          /\ loc' = [loc EXCEPT ![p] = [lo EXCEPT !.e = m, !.empty = x]]
          /\ wait' = [wait EXCEPT ![p] = m] /\ pc' = [pc EXCEPT ![p] = "match"]
          /\ names' = names /\ disk' = disk /\ imap' = imap
          /\ last' = last /\ torn' = torn /\ stale' = stale
      BY <1>1, <1>4, <2>1, <2>2 DEF Search, Goto, fs, aux
    <3>2. PICK v : v = [lo EXCEPT !.e = m, !.empty = x]
      OBVIOUS
    <3>3. v \in Local /\ v.op = lo.op /\ v.nr = lo.nr /\ v.empty = x
      BY <1>2, <2>1, <3>2 DEF Local
    <3>4. SearchedStep(p, lo, "match", v)
      BY <1>2, <3>1, <3>2, <3>3 DEF SearchedStep, LocalStep, Locations
    <3> QED BY <2>1, <2>2, <3>1, <3>2, <3>4, SearchWaits
  <2>3. CASE ~table[m].lock
    <3>1. Found(p, lo, table, m, x)
      BY <1>1, <1>4, <2>1, <2>3 DEF Search
    <3> QED BY <2>1, <2>3, <3>1, FoundInv
  <2> QED BY <2>2, <2>3
<1> QED BY <1>3, <1>4

(* An unused entry for p, who has nothing.                                  *)
LEMMA UnusedReady ==
  ASSUME Inv, NEW p \in Procs, pc[p] \in {"user", "iget"}, NEW x \in Unused,
         NEW lo \in Local, lo.op \in {"change", "unlink"}, lo.nr \in Nums
  PROVE  Ready(p, lo, NewEntry(x), x)
<1>1. /\ x \in Entries /\ inode[x].count = 0 /\ ~inode[x].dirt /\ ~inode[x].lock
      /\ Sole(p, x) /\ \A q \in Procs : ~Reads(q, x)
  BY UnusedFacts
<1>2. \A e \in Entries : Refs(p, e) = 0
  BY NoReferences DEF Inv, Outside
<1>3. inode \in [Entries -> Inode] /\ InHand \in Inode
  BY TypeFacts, Constants DEF Inv
<1>4. /\ NewEntry(x) \in [Entries -> Inode] /\ NewEntry(x)[x] = InHand
      /\ \A e \in Entries \ {x} : NewEntry(x)[e] = inode[e]
  BY <1>1, <1>3 DEF NewEntry, InHand
<1> QED BY <1>1, <1>2, <1>4 DEF Ready

(* iget(), called by namei() and by sys_unlink().                           *)
LEMMA IgetInv ==
  ASSUME Inv, NEW p \in Procs, UNCHANGED scenario, Iget(p) \/ (\E n \in Nums : IgetUnlink(p, n))
  PROVE  Inv'
<1>1. Types /\ ProcRight(p)
  BY DEF Inv
<1>2. CASE Iget(p)
  <2>1. PICK x \in Unused : pc[p] = "iget" /\ Search(p, loc[p], NewEntry(x), x)
    BY <1>2 DEF Iget, At
  <2>2. loc[p] \in Local /\ loc[p].op \in {"change", "unlink"} /\ loc[p].nr \in Nums
    BY <1>1, <2>1, LocalTypes DEF ProcRight
  <2>3. Ready(p, loc[p], NewEntry(x), x)
    BY <2>1, <2>2, UnusedReady
  <2> QED BY <2>1, <2>3, SearchInv
<1>3. CASE \E n \in Nums : IgetUnlink(p, n)
  <2>1. PICK n \in Nums : IgetUnlink(p, n)
    BY <1>3
  <2>2. PICK lo : lo = [NoLoc EXCEPT !.op = "unlink", !.nr = n]
    OBVIOUS
  <2>3. PICK x \in Unused : pc[p] = "user" /\ Search(p, lo, NewEntry(x), x)
    BY <2>1, <2>2 DEF IgetUnlink, At
  <2>4. lo \in Local /\ lo.op = "unlink" /\ lo.nr = n
    <3>1. NoLoc \in Local
      BY Constants
    <3> QED BY <2>2, <3>1 DEF Local, Calls
  <2>5. Ready(p, lo, NewEntry(x), x)
    BY <2>3, <2>4, UnusedReady
  <2> QED BY <2>3, <2>5, SearchInv
<1> QED BY <1>2, <1>3

(* The entry that p has in hand at "match".                                 *)
LEMMA MatchReady ==
  ASSUME Inv, NEW p \in Procs, pc[p] = "match"
  PROVE  Ready(p, loc[p], inode, loc[p].empty)
<1>1. Types /\ ProcRight(p) /\ CountIsReferences
  BY DEF Inv
<1>2. /\ loc[p] \in Local /\ loc[p].op \in {"change", "unlink"} /\ loc[p].nr \in Nums
      /\ loc[p].empty \in Entries
  BY <1>1, LocalTypes DEF ProcRight
<1>3. PICK x \in Entries : x = loc[p].empty
  BY <1>2
<1>4. inode[x] = InHand
  BY <1>1, <1>3 DEF ProcRight
<1>5. inode \in [Entries -> Inode] /\ inode[x].count = 1 /\ ~inode[x].dirt /\ ~inode[x].lock
  BY <1>1, <1>4, TypeFacts, Constants
<1>6. Sole(p, x)
  BY <1>1, <1>3, <1>5, Referenced
<1>7. \A q \in Procs : ~Reads(q, x)
  <2>1. SUFFICES ASSUME NEW q \in Procs, Reads(q, x) PROVE FALSE
    OBVIOUS
  <2>2. q # p /\ Holds(q, x)
    BY <2>1 DEF Reads, Holds
  <2> QED BY <1>6, <2>2 DEF Sole
<1>8. \A e \in Entries : Refs(p, e) = IF e = x THEN 1 ELSE 0
  <2>1. Placed(loc[p], pc[p])
    BY <1>1 DEF ProcRight, Placed
  <2>2. \A e \in Entries : RefsOf(loc[p], pc[p], e) = IF e = x THEN 1 ELSE 0
    BY <1>3 DEF RefsOf, One
  <2> QED BY <2>1, <2>2, RefsByPlace
<1> QED BY <1>2, <1>3, <1>4, <1>5, <1>6, <1>7, <1>8 DEF Ready

(* iget() goes on after it waited.                                          *)
LEMMA MatchInv ==
  ASSUME Inv, NEW p \in Procs, UNCHANGED scenario, Match(p)
  PROVE  Inv'
<1>1. Types /\ ProcRight(p) /\ pc[p] = "match"
  BY DEF Inv, Match, At
<1>2. PICK m \in Entries : m = loc[p].e
  BY <1>1, LocalTypes DEF ProcRight
<1>3. Ready(p, loc[p], inode, loc[p].empty)
  BY <1>1, MatchReady
<1>4. CASE WaitOnInode(p, m, "match") /\ UNCHANGED loc
  BY <1>1, <1>4, WaitInv
<1>5. CASE ~inode[m].lock /\ inode[m].num = loc[p].nr /\ Found(p, loc[p], inode, m, loc[p].empty)
  BY <1>3, <1>5, FoundInv
<1>6. CASE Search(p, loc[p], inode, loc[p].empty)
  BY <1>3, <1>6, SearchInv
<1> QED BY <1>2, <1>4, <1>5, <1>6 DEF Match
-----------------------------------------------------------------------------
(* Steps that change one entry and what is around it.                       *)

(* p makes entry x c, and goes to l with its variables v.                   *)
OneEntry(p, x, c, l, v) ==
  /\ LocalStep(p, l, v) /\ inode' = [inode EXCEPT ![x] = c] /\ c \in Inode /\ RestTypes
  /\ \/ Sole(p, x)
     \/ c.num = inode[x].num /\ c.pipe = inode[x].pipe /\ (inode[x] = InHand => c = inode[x])
  /\ c.count = 0 => ~c.dirt /\ ~c.lock
  /\ c.pipe => c.num = 0 /\ ~c.dirt /\ ~c.lock
  /\ c.count + RefsOf(loc[p], pc[p], x) = inode[x].count + RefsOf(v, l, x)
  /\ \A e \in Entries \ {x} : RefsOf(v, l, e) = RefsOf(loc[p], pc[p], e)

(* What there is after such a step.                                         *)
LEMMA OneEntryFacts ==
  ASSUME Inv, NEW p \in Procs, NEW x \in Entries, NEW c, NEW l, NEW v, OneEntry(p, x, c, l, v)
  PROVE  /\ OnlyP(p) /\ pc'[p] = l /\ loc'[p] = v
         /\ inode'[x] = c /\ \A e \in Entries \ {x} : inode'[e] = inode[e]
<1>1. Types /\ inode \in [Entries -> Inode]
  BY TypeFacts DEF Inv
<1>2. LocalStep(p, l, v) /\ inode' = [inode EXCEPT ![x] = c]
  BY DEF OneEntry
<1> QED BY <1>1, <1>2, LocalFacts

(* It keeps what others have.                                               *)
LEMMA OneEntryKeeps ==
  ASSUME Inv, NEW p \in Procs, NEW x \in Entries, NEW c, NEW l, NEW v, OneEntry(p, x, c, l, v), ProcRight(p)'
  PROVE  Keeps(p)
<1>1. Types /\ ProcRight(p) /\ inode \in [Entries -> Inode]
  BY TypeFacts DEF Inv
<1>2. /\ OnlyP(p) /\ pc' \in [Procs -> Locations] /\ loc' \in [Procs -> Local]
      /\ pc'[p] = l /\ loc'[p] = v
  BY <1>1, LocalFacts DEF OneEntry
<1>3. inode' \in [Entries -> Inode] /\ inode'[x] = c /\ \A e \in Entries \ {x} : inode'[e] = inode[e]
  BY <1>1 DEF OneEntry
<1>4. \A e \in Entries : Refs(p, e) = RefsOf(loc[p], pc[p], e) /\ Refs(p, e)' = RefsOf(v, l, e)
  <2>1. Placed(loc[p], pc[p]) /\ Placed(loc'[p], pc'[p])
    BY <1>1 DEF ProcRight, Placed
  <2> QED BY <1>2, <2>1, RefsByPlace
<1>5. Types'
  <2>1. RestTypes
    BY DEF OneEntry
  <2> QED BY <1>1, <1>2, <1>3, <2>1 DEF Types, TableTypes, Inode, Local, RestTypes
<1>6. ASSUME NEW e \in Entries
      PROVE  /\ Harmless(e) \/ Sole(p, e)
             /\ EntryRight(e)'
             /\ inode'[e].count + Refs(p, e) = inode[e].count + Refs(p, e)'
  <2>1. CASE e = x
    <3>1. Harmless(x) \/ Sole(p, x)
      BY <1>3 DEF OneEntry, Harmless
    <3>2. EntryRight(x)'
      BY <1>3 DEF OneEntry, EntryRight
    <3>3. inode'[x].count + Refs(p, x) = inode[x].count + Refs(p, x)'
      BY <1>3, <1>4 DEF OneEntry
    <3> QED BY <2>1, <3>1, <3>2, <3>3
  <2>2. CASE e # x
    <3>1. inode'[e] = inode[e] /\ Refs(p, e)' = Refs(p, e)
      BY <1>3, <1>4, <2>2 DEF OneEntry
    <3> QED BY <3>1, KeepsEntry
  <2> QED BY <2>1, <2>2
<1> QED BY <1>2, <1>5, <1>6 DEF Keeps

(* Only p reads what it reads, and its number is nowhere else.              *)
LEMMA ReaderAlone ==
  ASSUME Inv, NEW p \in Procs, NEW x \in Entries, Locker(p, x), ~torn
  PROVE  /\ \A q \in Procs : Locker(q, x) => q = p
         /\ \A q \in Procs : Reads(q, x) => q = p
<1>1. \A q \in Procs : Locker(q, x) => q = p
  BY DEF Inv, LocksRight
<1>2. \A q \in Procs : Reads(q, x) => Locker(q, x)
  BY DEF Reads, Locker
<1> QED BY <1>1, <1>2

(* The types of what p does not touch.                                      *)
LEMMA RestSame ==
  ASSUME Types, disk' = disk, imap' = imap, names' = names, wait' \in [Procs -> Entries \union {0, Lost}],
         last' = last, torn' = torn, stale' = stale, scenario' = scenario
  PROVE  RestTypes
BY TypeFacts DEF RestTypes

(* read_inode() unlocks the inode it has read.                              *)
LEMMA ReadInodeInv ==
  ASSUME Inv, NEW p \in Procs, UNCHANGED scenario, ReadInode(p)
  PROVE  Inv'
<1>1. Types /\ ProcRight(p) /\ pc[p] = "read" /\ inode \in [Entries -> Inode]
  BY TypeFacts DEF Inv, ReadInode, At
<1>2. PICK x \in Entries : x = loc[p].e
  BY <1>1, HolderFacts
<1>3. /\ inode[x] \in Inode /\ inode[x].count \in Nat /\ inode[x].count >= 1 /\ EntryRight(x)
      /\ loc[p].op \in {"change", "unlink", "create"} /\ loc[p].nr \in Nums
      /\ inode[x].num = loc[p].nr /\ ~inode[x].pipe
  BY <1>1, <1>2, HolderFacts
<1>4. PICK d : d = disk[inode[x].num]
  OBVIOUS
<1>5. d.nlinks \in 0 .. 255 /\ d.val \in Vals
  BY <1>1, <1>3, <1>4, TypeFacts
<1>6. /\ inode' = [inode EXCEPT ![x].nlinks = d.nlinks, ![x].val = d.val, ![x].lock = FALSE]
      /\ wait' = WakeUp(x) /\ pc' = [pc EXCEPT ![p] = "held"] /\ loc' = loc
      /\ disk' = disk /\ imap' = imap /\ names' = names
      /\ last' = last /\ torn' = torn /\ stale' = stale /\ scenario' = scenario
  BY <1>2, <1>4 DEF ReadInode, Goto, fs, aux
<1>7. PICK c : c = [inode[x] EXCEPT !.nlinks = d.nlinks, !.val = d.val, !.lock = FALSE]
  OBVIOUS
<1>8. /\ c \in Inode /\ c.num = inode[x].num /\ c.count = inode[x].count /\ c.dirt = inode[x].dirt
      /\ c.pipe = inode[x].pipe /\ c.val = d.val /\ ~c.lock
  BY <1>3, <1>5, <1>7 DEF Inode
<1>9. inode' = [inode EXCEPT ![x] = c]
  BY <1>1, <1>6, <1>7
<1>10. wait' \in [Procs -> Entries \union {0, Lost}]
  BY <1>1, <1>6, WakeUpFacts
<1>11. RestTypes
  BY <1>1, <1>6, <1>10, RestSame
<1>12. LocalStep(p, "held", loc[p])
  BY <1>1, <1>6, TypeFacts DEF LocalStep, Locations
<1>13. \A e \in Entries : RefsOf(loc[p], "held", e) = RefsOf(loc[p], pc[p], e)
  BY <1>1 DEF RefsOf, Outside
<1>14. OneEntry(p, x, c, "held", loc[p])
  <2>1. inode[x] # InHand
    BY <1>3, Constants
  <2>2. c.count # 0 /\ c.count = inode[x].count
    BY <1>3, <1>8
  <2> QED BY <1>3, <1>8, <1>9, <1>11, <1>12, <1>13, <2>1, <2>2 DEF OneEntry
<1>15. /\ OnlyP(p) /\ pc'[p] = "held" /\ loc'[p] = loc[p]
       /\ inode'[x] = c /\ \A e \in Entries \ {x} : inode'[e] = inode[e]
  BY <1>14, OneEntryFacts
<1>16. ProcRight(p)'
  BY <1>1, <1>2, <1>3, <1>8, <1>15 DEF ProcRight, Outside
<1>17. Locker(p, x)
  BY <1>1, <1>2 DEF Locker
<1>18. LocksRight'
  <2>1. LockFreed(p, x)
    BY <1>6, <1>8, <1>15, <1>17 DEF LockFreed, Locking
  <2> QED BY <2>1, LockFreedRight
<1>19. NumsRight'
  <2>1. \A e \in Entries : inode'[e].num = inode[e].num
    BY <1>8, <1>15
  <2> QED BY <1>6, <2>1, NumsKept DEF Inv
<1>20. ChangesKept'
  <2>1. SUFFICES ASSUME ~torn, ~stale, NEW n \in imap PROVE KeptFor(n)'
    BY <1>6, ChangesFrom
  <2>2. KeptFor(n)
    BY <2>1, KeptIsKeptFor DEF Inv
  <2>3. CASE inode[x].num = n
    <3>1. \A e \in Entries \ {x} : inode[e].num # n
      BY <1>3, <2>1, <2>3, Constants DEF Inv, NumsRight
    <3>2. ~IsLoaded(x)
      BY <1>1, <1>2 DEF IsLoaded, Reads
    <3>3. disk[n].val = last[n]
      BY <2>2, <3>1, <3>2 DEF KeptFor
    <3>4. inode'[x].val = last'[n] /\ disk'[n].val = last'[n]
      BY <1>4, <1>6, <1>8, <1>15, <2>3, <3>3
    <3> QED BY <1>15, <3>1, <3>4 DEF KeptFor
  <2>4. CASE inode[x].num # n
    <3>1. ASSUME NEW e \in Entries PROVE Preserved(e, n)
      <4>1. CASE e = x
        BY <1>8, <1>15, <2>4, <4>1 DEF Preserved
      <4>2. CASE e # x
        <5>1. Reads(p, e)' <=> Reads(p, e)
          BY <1>1, <1>2, <1>15, <4>2 DEF Reads
        <5> QED BY <1>15, <4>2, <5>1, PreservedSame
      <4> QED BY <4>1, <4>2
    <3> QED BY <1>6, <2>2, <3>1, KeptSame
  <2> QED BY <2>3, <2>4
<1>21. Keeps(p)
  BY <1>14, <1>16, OneEntryKeeps
<1> QED BY <1>18, <1>19, <1>20, <1>21, KeepsInv

(* write_inode() locks a dirty inode, for iput() or for sync.               *)
LockToWrite(p, x, l, v) ==
  /\ ~inode[x].lock /\ inode[x].dirt /\ ~inode[x].pipe /\ inode' = [inode EXCEPT ![x].lock = TRUE]
  /\ LocalStep(p, l, v)
  /\ (l = "write" /\ v.e = x) \/ (l = "syncwrite" /\ v.i = x)
  /\ pc[p] \notin Locking
  /\ \A e \in Entries : RefsOf(v, l, e) = RefsOf(loc[p], pc[p], e)
  /\ disk' = disk /\ imap' = imap /\ names' = names /\ wait' = wait
  /\ last' = last /\ torn' = torn /\ stale' = stale /\ scenario' = scenario

(* p has what it had.                                                       *)
LEMMA LockToWriteFacts ==
  ASSUME Inv, NEW p \in Procs, NEW x \in Entries, NEW l, NEW v, LockToWrite(p, x, l, v)
  PROVE  /\ OnlyP(p) /\ pc'[p] = l /\ loc'[p] = v
         /\ \A e \in Entries : inode'[e].num = inode[e].num /\ inode'[e].pipe = inode[e].pipe
<1>1. Types /\ inode \in [Entries -> Inode]
  BY TypeFacts DEF Inv
<1>2. LocalStep(p, l, v) /\ inode' = [inode EXCEPT ![x].lock = TRUE]
  BY DEF LockToWrite
<1>3. OnlyP(p) /\ pc'[p] = l /\ loc'[p] = v
  BY <1>1, <1>2, LocalFacts
<1>4. inode[x] \in Inode
  BY <1>1
<1>5. inode'[x].num = inode[x].num /\ inode'[x].pipe = inode[x].pipe
  BY <1>1, <1>2, <1>4 DEF Inode
<1> QED BY <1>1, <1>2, <1>3, <1>5

(* The invariant holds after that.                                          *)
LEMMA LockToWriteInv ==
  ASSUME Inv, NEW p \in Procs, NEW x \in Entries, NEW l, NEW v, LockToWrite(p, x, l, v), ProcRight(p)'
  PROVE  Inv'
<1>1. Types /\ inode \in [Entries -> Inode] /\ inode[x] \in Inode /\ EntryRight(x)
  BY TypeFacts DEF Inv
<1>2. /\ ~inode[x].lock /\ inode[x].dirt /\ ~inode[x].pipe /\ inode' = [inode EXCEPT ![x].lock = TRUE]
      /\ LocalStep(p, l, v)
      /\ (l = "write" /\ v.e = x) \/ (l = "syncwrite" /\ v.i = x)
      /\ pc[p] \notin Locking
      /\ \A e \in Entries : RefsOf(v, l, e) = RefsOf(loc[p], pc[p], e)
      /\ disk' = disk /\ imap' = imap /\ names' = names /\ wait' = wait
      /\ last' = last /\ torn' = torn /\ stale' = stale /\ scenario' = scenario
  BY DEF LockToWrite
<1>3. PICK c : c = [inode[x] EXCEPT !.lock = TRUE]
  OBVIOUS
<1>4. /\ c \in Inode /\ c.num = inode[x].num /\ c.count = inode[x].count /\ c.dirt = inode[x].dirt
      /\ c.pipe = inode[x].pipe /\ c.val = inode[x].val /\ c.lock
  BY <1>1, <1>3 DEF Inode
<1>5. inode' = [inode EXCEPT ![x] = c]
  BY <1>1, <1>2, <1>3
<1>6. RestTypes
  BY <1>1, <1>2, TypeFacts, RestSame
<1>7. OneEntry(p, x, c, l, v)
  <2>1. inode[x] # InHand
    BY <1>2, Constants
  <2>2. inode[x].count # 0
    BY <1>1, <1>2 DEF EntryRight
  <2> QED BY <1>2, <1>4, <1>5, <1>6, <2>1, <2>2 DEF OneEntry
<1>8. /\ OnlyP(p) /\ pc'[p] = l /\ loc'[p] = v
      /\ inode'[x] = c /\ \A e \in Entries \ {x} : inode'[e] = inode[e]
  BY <1>7, OneEntryFacts
<1>9. LocksRight'
  <2>1. \A e \in Entries : Locker(p, e)' <=> e = x
    BY <1>2, <1>8 DEF Locker
  <2>2. LockTaken(p, x)
    BY <1>2, <1>4, <1>8, <2>1 DEF LockTaken
  <2> QED BY <2>2, LockTakenRight
<1>10. NumsRight'
  <2>1. \A e \in Entries : inode'[e].num = inode[e].num
    BY <1>4, <1>8
  <2> QED BY <1>2, <2>1, NumsKept DEF Inv
<1>11. ChangesKept'
  <2>1. ASSUME NEW e \in Entries, NEW n \in imap' PROVE Preserved(e, n)
    <3>1. Reads(p, e)' <=> Reads(p, e)
      BY <1>2, <1>8 DEF Reads, Locking
    <3>2. inode'[e].num = inode[e].num /\ inode'[e].val = inode[e].val /\ (inode[e].dirt => inode'[e].dirt)
      BY <1>4, <1>8
    <3> QED BY <1>8, <3>1, <3>2, PreservedSame
  <2> QED BY <1>2, <2>1, ChangesSame DEF Inv
<1>12. Keeps(p)
  BY <1>7, OneEntryKeeps
<1> QED BY <1>9, <1>10, <1>11, <1>12, KeepsInv

(* iput() of a dirty inode.                                                 *)
LEMMA IputWritesInv ==
  ASSUME Inv, NEW p \in Procs, UNCHANGED scenario, IputRepeat(p), pc'[p] = "write"
  PROVE  Inv'
<1>1. Types /\ ProcRight(p) /\ pc[p] \in {"iput", "repeat"} /\ inode \in [Entries -> Inode]
  BY TypeFacts DEF Inv, IputRepeat
<1>2. PICK x \in Entries : x = loc[p].e
  BY <1>1, HolderFacts
<1>3. /\ inode[x].count >= 1 /\ inode[x].count \in Nat /\ ~inode[x].lock /\ ~inode[x].pipe
      /\ loc[p].op \in {"change", "unlink", "create"} /\ loc[p].nr \in Nums /\ inode[x].num = loc[p].nr
  BY <1>1, <1>2, HolderFacts DEF IputRepeat
<1>4. /\ inode[x].dirt /\ inode' = [inode EXCEPT ![x].lock = TRUE] /\ pc' = [pc EXCEPT ![p] = "write"] /\ loc' = loc
      /\ disk' = disk /\ imap' = imap /\ names' = names /\ wait' = wait
      /\ last' = last /\ torn' = torn /\ stale' = stale /\ scenario' = scenario
  <2>1. inode[x].count # 0
    BY <1>3
  <2>2. ~Return(p)
    BY <1>1, TypeFacts DEF Return, Goto
  <2>3. pc' # [pc EXCEPT ![p] = "truncate"]
    BY <1>1, TypeFacts
  <2> QED BY <1>2, <2>1, <2>2, <2>3 DEF IputRepeat, WriteInode, Goto, fs, aux
<1>5. LocalStep(p, "write", loc[p])
  BY <1>1, <1>4, TypeFacts DEF LocalStep, Locations
<1>6. \A e \in Entries : RefsOf(loc[p], "write", e) = RefsOf(loc[p], pc[p], e)
  BY <1>1 DEF RefsOf, Outside
<1>7. LockToWrite(p, x, "write", loc[p])
  <2>1. pc[p] \notin Locking
    BY <1>1 DEF Locking
  <2>2. ~inode[x].lock /\ ~inode[x].pipe /\ loc[p].e = x
    BY <1>2, <1>3
  <2> QED BY <1>4, <1>5, <1>6, <2>1, <2>2 DEF LockToWrite
<1>8. pc'[p] = "write" /\ loc'[p] = loc[p] /\ inode'[x].num = inode[x].num /\ inode'[x].pipe = inode[x].pipe
  BY <1>7, LockToWriteFacts
<1>9. ProcRight(p)'
  <2>1. loc[p].empty = 0 /\ loc[p].e # 0 /\ loc[p].op # "pipe"
    BY <1>1, <1>3 DEF ProcRight, Outside
  <2>2. /\ inode'[loc'[p].e].num = loc'[p].nr /\ ~inode'[loc'[p].e].pipe /\ loc'[p].nr \in Nums
        /\ loc'[p].op \in {"change", "unlink", "create"} /\ loc'[p].empty = 0 /\ loc'[p].e # 0
    BY <1>2, <1>3, <1>8, <2>1
  <2> QED BY <1>8, <2>2 DEF ProcRight, Outside
<1> QED BY <1>7, <1>9, LockToWriteInv

(* sync_inodes() waits for an inode, or writes it.                          *)
LEMMA SyncInodesInv ==
  ASSUME Inv, NEW p \in Procs, UNCHANGED scenario, SyncInodes(p)
  PROVE  Inv'
<1>1. Types /\ ProcRight(p) /\ pc[p] = "sync"
  BY DEF Inv, SyncInodes, At
<1>2. /\ loc[p] \in Local /\ loc[p].i >= 1 /\ loc[p].i \in Nat /\ loc[p].e \in Entries \union {0}
  BY <1>1, LocalTypes DEF ProcRight
<1>3. PICK x \in Entries : x = Min(SyncTodo(p)) /\ (inode[x].lock \/ (inode[x].dirt /\ ~inode[x].pipe)) /\ x >= 1
  <2>1. SyncTodo(p) # {}
    BY DEF SyncInodes
  <2>2. SyncTodo(p) \subseteq Entries
    BY <1>2, InodeAssumption DEF SyncTodo, Entries
  <2>3. Min(SyncTodo(p)) \in SyncTodo(p)
    BY <2>1, <2>2, Constants, MinFacts
  <2>4. \A e \in Entries : e >= 1
    BY DEF Entries
  <2> QED BY <2>2, <2>3, <2>4 DEF SyncTodo
<1>4. /\ loc' = [loc EXCEPT ![p].i = x]
      /\ \/ WaitOnInode(p, x, "sync")
         \/ /\ ~inode[x].lock
            /\ WriteInode(p, x, "syncwrite")
            /\ UNCHANGED <<fs, wait, aux>>
  BY <1>3 DEF SyncInodes
<1>5. PICK v : v = [loc[p] EXCEPT !.i = x]
  OBVIOUS
<1>6. v \in Local /\ v.op = loc[p].op /\ v.nr = loc[p].nr /\ v.e = loc[p].e /\ v.empty = loc[p].empty /\ v.i = x
  <2>1. x \in Nat
    BY Constants
  <2> QED BY <1>2, <1>5, <2>1 DEF Local
<1>7. loc' = [loc EXCEPT ![p] = v]
  BY <1>4, <1>5
<1>8. loc[p].e # 0 => loc[p].op # "pipe"
  BY <1>1 DEF ProcRight, Outside
<1>9. \A l \in {"sync", "syncwrite"} : \A e \in Entries : RefsOf(v, l, e) = RefsOf(loc[p], pc[p], e)
  BY <1>1, <1>6, <1>8, Constants DEF RefsOf, Outside
<1>10. CASE WaitOnInode(p, x, "sync")
  <2>1. /\ inode[x].lock /\ wait' = [wait EXCEPT ![p] = x] /\ pc' = [pc EXCEPT ![p] = "sync"]
        /\ UNCHANGED <<inode, fs, aux>>
    BY <1>10 DEF WaitOnInode, Goto
  <2>2. LocalStep(p, "sync", v)
    BY <1>6, <1>7, <2>1 DEF LocalStep, Locations
  <2>3. pc'[p] = "sync" /\ loc'[p] = v
    BY <1>1, <2>2, LocalFacts
  <2>4. ProcRight(p)'
    BY <1>1, <1>3, <1>6, <2>1, <2>3 DEF ProcRight, Outside
  <2> QED BY <1>1, <1>9, <2>1, <2>2, <2>4, QuietInv DEF aux
<1>11. CASE ~inode[x].lock /\ WriteInode(p, x, "syncwrite") /\ UNCHANGED <<fs, wait, aux>>
  <2>1. /\ inode[x].dirt /\ ~inode[x].pipe /\ ~inode[x].lock
        /\ inode' = [inode EXCEPT ![x].lock = TRUE] /\ pc' = [pc EXCEPT ![p] = "syncwrite"]
        /\ disk' = disk /\ imap' = imap /\ names' = names /\ wait' = wait
        /\ last' = last /\ torn' = torn /\ stale' = stale /\ scenario' = scenario
    BY <1>3, <1>11 DEF WriteInode, Goto, fs, aux
  <2>2. LocalStep(p, "syncwrite", v)
    BY <1>6, <1>7, <2>1 DEF LocalStep, Locations
  <2>3. LockToWrite(p, x, "syncwrite", v)
    BY <1>1, <1>6, <1>9, <2>1, <2>2 DEF LockToWrite, Locking
  <2>4. /\ pc'[p] = "syncwrite" /\ loc'[p] = v
        /\ \A e \in Entries : inode'[e].num = inode[e].num /\ inode'[e].pipe = inode[e].pipe
    BY <2>3, LockToWriteFacts
  <2>5. ProcRight(p)'
    BY <1>1, <1>2, <1>3, <1>6, <2>4 DEF ProcRight, Outside
  <2> QED BY <2>3, <2>5, LockToWriteInv
<1> QED BY <1>4, <1>10, <1>11

(* write_inode() has written entry x: for iput() or for sync.               *)
LEMMA WrittenInv ==
  ASSUME Inv, NEW p \in Procs, UNCHANGED scenario, NEW x \in Entries, NEW l \in {"repeat", "sync"},
         (pc[p] = "write" /\ loc[p].e = x /\ l = "repeat") \/ (pc[p] = "syncwrite" /\ loc[p].i = x /\ l = "sync"),
         Written(p, x, l)
  PROVE  Inv'
<1>1. Types /\ ProcRight(p) /\ inode \in [Entries -> Inode] /\ inode[x] \in Inode /\ EntryRight(x)
  BY TypeFacts DEF Inv
<1>2. /\ disk' = [n \in Nums |-> IF n = inode[x].num
                                   THEN [nlinks |-> inode[x].nlinks, val |-> inode[x].val]
                                   ELSE disk[n]]
      /\ inode' = [inode EXCEPT ![x].dirt = FALSE, ![x].lock = FALSE]
      /\ wait' = WakeUp(x) /\ pc' = [pc EXCEPT ![p] = l] /\ loc' = loc
      /\ imap' = imap /\ names' = names
      /\ last' = last /\ torn' = torn /\ stale' = stale /\ scenario' = scenario
  BY DEF Written, Goto, aux
<1>3. PICK c : c = [inode[x] EXCEPT !.dirt = FALSE, !.lock = FALSE]
  OBVIOUS
<1>4. /\ c \in Inode /\ c.num = inode[x].num /\ c.count = inode[x].count /\ ~c.dirt
      /\ c.pipe = inode[x].pipe /\ c.val = inode[x].val /\ ~c.lock
  <2>1. inode[x] \in Inode
    BY <1>1
  <2> QED BY <1>3, <2>1, ZenonT(30) DEF Inode
<1>5. inode' = [inode EXCEPT ![x] = c]
  BY <1>1, <1>2, <1>3
<1>6. RestTypes
  <2>1. wait' \in [Procs -> Entries \union {0, Lost}]
    BY <1>1, <1>2, WakeUpFacts
  <2>2. disk' \in [Nums -> [nlinks : 0 .. 255, val : Vals]]
    <3>1. inode[x].nlinks \in 0 .. 255 /\ inode[x].val \in Vals
      BY <1>1, Fields
    <3>2. disk \in [Nums -> [nlinks : 0 .. 255, val : Vals]]
      BY <1>1, TypeFacts
    <3> QED BY <1>2, <3>1, <3>2
  <2> QED BY <1>1, <1>2, <2>1, <2>2, TypeFacts DEF RestTypes
<1>7. LocalStep(p, l, loc[p])
  BY <1>1, <1>2, TypeFacts DEF LocalStep, Locations
<1>8. \A e \in Entries : RefsOf(loc[p], l, e) = RefsOf(loc[p], pc[p], e)
  BY DEF RefsOf, Outside
<1>9. OneEntry(p, x, c, l, loc[p])
  <2>1. inode[x] = InHand => c = inode[x]
    BY <1>3 DEF InHand, Cleared
  <2>2. c.pipe => c.num = 0
    BY <1>1, <1>4 DEF EntryRight
  <2>3. c.count + RefsOf(loc[p], pc[p], x) = inode[x].count + RefsOf(loc[p], l, x)
    BY <1>4, <1>8
  <2> QED BY <1>4, <1>5, <1>6, <1>7, <1>8, <2>1, <2>2, <2>3 DEF OneEntry
<1>10. /\ OnlyP(p) /\ pc'[p] = l /\ loc'[p] = loc[p]
       /\ inode'[x] = c /\ \A e \in Entries \ {x} : inode'[e] = inode[e]
  BY <1>9, OneEntryFacts
<1>11. ProcRight(p)'
  <2>1. \A e \in Entries : inode'[e].num = inode[e].num /\ inode'[e].pipe = inode[e].pipe
    BY <1>4, <1>10
  <2>2. loc[p].e \in Entries \union {0}
    BY <1>1, LocalTypes
  <2> QED BY <1>1, <1>10, <2>1, <2>2 DEF ProcRight, Outside
<1>12. Locker(p, x)
  BY DEF Locker
<1>13. LocksRight'
  <2>1. LockFreed(p, x)
    BY <1>2, <1>4, <1>10, <1>12 DEF LockFreed, Locking
  <2> QED BY <2>1, LockFreedRight
<1>14. NumsRight'
  <2>1. \A e \in Entries : inode'[e].num = inode[e].num
    BY <1>4, <1>10
  <2> QED BY <1>2, <2>1, NumsKept DEF Inv
<1>15. ChangesKept'
  <2>1. SUFFICES ASSUME ~torn, ~stale, NEW n \in imap PROVE KeptFor(n)'
    BY <1>2, ChangesFrom
  <2>2. KeptFor(n) /\ n \in Nums /\ n # 0
    BY <1>1, <2>1, KeptIsKeptFor, TypeFacts, Constants DEF Inv
  <2>3. CASE inode[x].num = n
    <3>1. \A e \in Entries \ {x} : inode[e].num # n
      BY <2>1, <2>2, <2>3 DEF Inv, NumsRight
    <3>2. IsLoaded(x)
      <4>1. \A q \in Procs : Reads(q, x) => q = p
        BY <1>12, <2>1, ReaderAlone
      <4>2. ~Reads(p, x)
        BY DEF Reads
      <4> QED BY <4>1, <4>2 DEF IsLoaded
    <3>3. inode[x].val = last[n]
      BY <2>2, <2>3, <3>2 DEF KeptFor
    <3>4. inode'[x].val = last'[n] /\ disk'[n].val = last'[n]
      BY <1>2, <1>4, <1>10, <2>2, <2>3, <3>3
    <3> QED BY <1>10, <3>1, <3>4 DEF KeptFor
  <2>4. CASE inode[x].num # n
    <3>1. ASSUME NEW e \in Entries PROVE Preserved(e, n)
      <4>1. CASE e = x
        BY <1>4, <1>10, <2>4, <4>1 DEF Preserved
      <4>2. CASE e # x
        <5>1. Reads(p, e)' <=> Reads(p, e)
          BY <1>10 DEF Reads
        <5> QED BY <1>10, <4>2, <5>1, PreservedSame
      <4> QED BY <4>1, <4>2
    <3>2. disk'[n] = disk[n]
      BY <1>2, <2>2, <2>4
    <3> QED BY <1>2, <2>2, <3>1, <3>2, KeptSame
  <2> QED BY <2>3, <2>4
<1>16. Keeps(p)
  BY <1>9, <1>11, OneEntryKeeps
<1> QED BY <1>13, <1>14, <1>15, <1>16, KeepsInv

(* iput() and sync go on after it.                                          *)
LEMMA WritersInv ==
  ASSUME Inv, NEW p \in Procs, UNCHANGED scenario, IputWritten(p) \/ SyncWritten(p)
  PROVE  Inv'
<1>1. Types /\ ProcRight(p)
  BY DEF Inv
<1>2. CASE IputWritten(p)
  <2>1. pc[p] = "write" /\ Written(p, loc[p].e, "repeat")
    BY <1>2 DEF IputWritten, At
  <2>2. loc[p].e \in Entries
    BY <2>1, HolderFacts
  <2> QED BY <2>1, <2>2, WrittenInv
<1>3. CASE SyncWritten(p)
  <2>1. pc[p] = "syncwrite" /\ Written(p, loc[p].i, "sync")
    BY <1>3 DEF SyncWritten, At
  <2>2. loc[p].i \in Entries
    BY <1>1, <2>1 DEF ProcRight
  <2> QED BY <2>1, <2>2, WrittenInv
<1> QED BY <1>2, <1>3

(* A holder changes its inode.                                              *)
LEMMA ChangeInv ==
  ASSUME Inv, NEW p \in Procs, UNCHANGED scenario, NEW w \in Vals, Change(p, w)
  PROVE  Inv'
<1>1. Types /\ ProcRight(p) /\ pc[p] = "held" /\ loc[p].op = "change" /\ inode \in [Entries -> Inode]
  BY TypeFacts DEF Inv, Change, At
<1>2. PICK x \in Entries : x = loc[p].e
  BY <1>1, HolderFacts
<1>3. /\ inode[x] \in Inode /\ inode[x].count \in Nat /\ inode[x].count >= 1 /\ loc[p].nr \in Nums
      /\ inode[x].num = loc[p].nr /\ ~inode[x].pipe /\ Holds(p, x) /\ (inode[x].count = 1 => Sole(p, x))
  BY <1>1, <1>2, HolderFacts
<1>4. /\ inode' = [inode EXCEPT ![x].val = w, ![x].dirt = TRUE] /\ last' = [last EXCEPT ![inode[x].num] = w]
      /\ disk' = disk /\ imap' = imap /\ names' = names /\ wait' = wait /\ pc' = pc /\ loc' = loc
      /\ torn' = torn /\ stale' = stale /\ scenario' = scenario
  BY <1>2 DEF Change, fs
<1>5. PICK c : c = [inode[x] EXCEPT !.val = w, !.dirt = TRUE]
  OBVIOUS
<1>6. /\ c \in Inode /\ c.num = inode[x].num /\ c.count = inode[x].count /\ c.dirt
      /\ c.pipe = inode[x].pipe /\ c.val = w /\ c.lock = inode[x].lock
  BY <1>3, <1>5 DEF Inode
<1>7. inode' = [inode EXCEPT ![x] = c]
  BY <1>1, <1>4, <1>5
<1>8. RestTypes
  BY <1>1, <1>3, <1>4, TypeFacts DEF RestTypes
<1>9. LocalStep(p, pc[p], loc[p])
  BY <1>1, <1>4, TypeFacts DEF LocalStep, Locations
<1>10. OneEntry(p, x, c, pc[p], loc[p])
  <2>1. inode[x] # InHand
    BY <1>3, Constants
  <2>2. c.count # 0
    BY <1>3, <1>6
  <2>3. c.count + RefsOf(loc[p], pc[p], x) = inode[x].count + RefsOf(loc[p], pc[p], x)
    BY <1>6
  <2> QED BY <1>3, <1>6, <1>7, <1>8, <1>9, <2>1, <2>2, <2>3 DEF OneEntry
<1>11. /\ OnlyP(p) /\ pc'[p] = "held" /\ loc'[p] = loc[p]
       /\ inode'[x] = c /\ \A e \in Entries \ {x} : inode'[e] = inode[e]
  BY <1>1, <1>10, OneEntryFacts
<1>12. ProcRight(p)'
  BY <1>1, <1>2, <1>3, <1>6, <1>11 DEF ProcRight, Outside
<1>13. LocksRight'
  <2>1. LocksSame(p)
    BY <1>1, <1>4, <1>6, <1>11 DEF LocksSame
  <2> QED BY <1>4, <1>11, <2>1, LocksKept DEF Inv
<1>14. NumsRight'
  <2>1. \A e \in Entries : inode'[e].num = inode[e].num
    BY <1>6, <1>11
  <2> QED BY <1>4, <2>1, NumsKept DEF Inv
<1>15. ChangesKept'
  <2>1. SUFFICES ASSUME ~torn, ~stale, NEW n \in imap PROVE KeptFor(n)'
    BY <1>4, ChangesFrom
  <2>2. KeptFor(n) /\ n \in Nums /\ n # 0
    BY <1>1, <2>1, KeptIsKeptFor, TypeFacts, Constants DEF Inv
  <2>3. last' = [last EXCEPT ![inode[x].num] = w] /\ last \in [Nums -> Vals]
    BY <1>1, <1>4, TypeFacts
  <2>4. CASE inode[x].num = n
    <3>1. \A e \in Entries \ {x} : inode[e].num # n
      BY <2>1, <2>2, <2>4 DEF Inv, NumsRight
    <3>2. IsLoaded(x)'
      <4>1. SUFFICES ASSUME NEW q \in Procs, Reads(q, x)' PROVE FALSE
        BY DEF IsLoaded
      <4>2. q # p /\ Reads(q, x)
        BY <1>1, <1>4, <4>1 DEF Reads
      <4>3. inode[x].count = 1 /\ Holds(q, x)
        BY <2>1, <4>2 DEF Inv, LocksRight, Reads, Holds
      <4> QED BY <1>3, <4>2, <4>3 DEF Sole
    <3>3. inode'[x].val = last'[n] /\ inode'[x].dirt /\ inode'[x].num = n
      BY <1>6, <1>11, <2>2, <2>3, <2>4
    <3> QED BY <1>11, <3>1, <3>2, <3>3 DEF KeptFor
  <2>5. CASE inode[x].num # n
    <3>1. ASSUME NEW e \in Entries PROVE Preserved(e, n)
      <4>1. CASE e = x
        BY <1>6, <1>11, <2>5, <4>1 DEF Preserved
      <4>2. CASE e # x
        <5>1. Reads(p, e)' <=> Reads(p, e)
          BY <1>4 DEF Reads
        <5> QED BY <1>11, <4>2, <5>1, PreservedSame
      <4> QED BY <4>1, <4>2
    <3>2. last'[n] = last[n]
      BY <2>2, <2>3, <2>5
    <3> QED BY <1>4, <2>2, <3>1, <3>2, KeptSame
  <2> QED BY <2>4, <2>5
<1>16. Keeps(p)
  BY <1>10, <1>12, OneEntryKeeps
<1> QED BY <1>13, <1>14, <1>15, <1>16, KeepsInv

(* free_inode() clears the entry.                                           *)
LEMMA FreeInodeInv ==
  ASSUME Inv, NEW p \in Procs, UNCHANGED scenario, FreeInode(p)
  PROVE  Inv'
<1>1. Types /\ ProcRight(p) /\ pc[p] = "truncate" /\ inode \in [Entries -> Inode]
  BY TypeFacts DEF Inv, FreeInode, At
<1>2. PICK x \in Entries : x = loc[p].e
  BY <1>1, HolderFacts
<1>3. /\ inode[x] \in Inode /\ inode[x].count \in Nat /\ inode[x].count >= 1
      /\ inode[x].num = loc[p].nr /\ loc[p].nr \in Nums /\ (inode[x].count = 1 => Sole(p, x))
      /\ loc[p].op # "pipe" /\ pc[p] \notin Outside
  BY <1>1, <1>2, HolderFacts
<1>4. CASE inode[x].count > 1 \/ inode[x].nlinks # 0
  <2>1. UNCHANGED <<inode, fs, pc, loc, wait, last, torn, stale>>
    BY <1>2, <1>4 DEF FreeInode, Panic
  <2> QED BY <2>1, PanicInv
<1>5. CASE ~(inode[x].count > 1) /\ inode[x].nlinks = 0
  <2>1. /\ imap' = imap \ {inode[x].num} /\ inode' = [inode EXCEPT ![x] = Cleared]
        /\ wait' = [q \in Procs |-> IF wait[q] = x THEN Lost ELSE wait[q]]
        /\ torn' = (torn \/ inode[x].lock)
        /\ Return(p)
        /\ disk' = disk /\ names' = names /\ last' = last /\ stale' = stale /\ scenario' = scenario
    BY <1>2, <1>5 DEF FreeInode
  <2>2. inode[x].count = 1 /\ Sole(p, x)
    BY <1>3, <1>5
  <2>3. LocalStep(p, "user", NoLoc) /\ ProcRight(p)'
    BY <1>1, <2>1, ReturnFacts
  <2>4. /\ Cleared \in Inode /\ Cleared.num = 0 /\ Cleared.count = 0
        /\ ~Cleared.dirt /\ ~Cleared.lock /\ ~Cleared.pipe
    BY Constants DEF Cleared
  <2>5. RestTypes
    <3>1. wait \in [Procs -> Entries \union {0, Lost}] /\ torn \in BOOLEAN
      BY <1>1, TypeFacts
    <3>2. wait' \in [Procs -> Entries \union {0, Lost}]
      BY <2>1, <3>1
    <3>3. torn' \in BOOLEAN
      BY <2>1
    <3>4. imap' \subseteq Nums
      BY <1>1, <2>1, TypeFacts
    <3> QED BY <1>1, <2>1, <3>2, <3>3, <3>4, TypeFacts DEF RestTypes
  <2>6. RefsOf(loc[p], pc[p], x) = 1 /\ \A e \in Entries \ {x} : RefsOf(loc[p], pc[p], e) = 0
    BY <1>1, <1>2, <1>3 DEF RefsOf, Outside
  <2>7. \A e \in Entries : RefsOf(NoLoc, "user", e) = 0
    BY DEF RefsOf, Outside
  <2>8. OneEntry(p, x, Cleared, "user", NoLoc)
    <3>1. Cleared.count + RefsOf(loc[p], pc[p], x) = inode[x].count + RefsOf(NoLoc, "user", x)
      BY <2>2, <2>4, <2>6, <2>7
    <3> QED BY <2>1, <2>2, <2>3, <2>4, <2>5, <2>6, <2>7, <3>1 DEF OneEntry
  <2>9. /\ OnlyP(p) /\ pc'[p] = "user"
        /\ inode'[x] = Cleared /\ \A e \in Entries \ {x} : inode'[e] = inode[e]
    BY <2>8, OneEntryFacts
  <2>10. LocksRight'
    <3>1. CASE torn'
      BY <3>1 DEF LocksRight
    <3>2. CASE ~torn'
      <4>1. ~torn /\ ~inode[x].lock /\ torn' = torn
        BY <1>1, <2>1, <3>2, TypeFacts
      <4>2. \A q \in Procs : wait'[q] = wait[q]
        <5>1. \A q \in Procs : wait[q] # x
          BY <4>1, Constants DEF Inv, LocksRight
        <5> QED BY <2>1, <5>1
      <4>3. Cleared.lock = inode[x].lock
        BY <1>3, <2>4, <4>1, Fields
      <4>4. LocksSame(p)
        BY <1>1, <2>9, <4>1, <4>2, <4>3 DEF LocksSame
      <4> QED BY <2>9, <4>1, <4>4, LocksKept DEF Inv
    <3> QED BY <3>1, <3>2
  <2>11. NumsRight'
    <3>1. SUFFICES ASSUME ~stale
          PROVE  /\ \A e, f \in Entries : inode'[e].num = inode'[f].num /\ inode'[e].num # 0 => e = f
                 /\ \A e \in Entries : inode'[e].num # 0 => inode'[e].num \in imap'
      BY <2>1 DEF NumsRight
    <3>2. /\ \A e, f \in Entries : inode[e].num = inode[f].num /\ inode[e].num # 0 => e = f
          /\ \A e \in Entries : inode[e].num # 0 => inode[e].num \in imap
      BY <3>1 DEF Inv, NumsRight
    <3>3. \A e \in Entries \ {x} : inode[e].num # inode[x].num \/ inode[e].num = 0
      BY <3>2
    <3> QED BY <2>1, <2>4, <2>9, <3>2, <3>3
  <2>12. ChangesKept'
    <3>1. ASSUME NEW e \in Entries, NEW n \in imap' PROVE Preserved(e, n)
      <4>1. n # 0 /\ n # inode[x].num
        BY <1>1, <2>1, TypeFacts, Constants
      <4>2. CASE e = x
        BY <2>4, <2>9, <4>1, <4>2 DEF Preserved
      <4>3. CASE e # x
        <5>1. Reads(p, e)' <=> Reads(p, e)
          BY <1>1, <2>9 DEF Reads
        <5> QED BY <2>9, <4>3, <5>1, PreservedSame
      <4> QED BY <4>2, <4>3
    <3>2. ~torn' /\ ~stale' => ~torn /\ ~stale
      BY <2>1
    <3>3. imap' \subseteq imap
      BY <2>1
    <3> QED BY <2>1, <3>1, <3>2, <3>3, ChangesSame DEF Inv
  <2>13. Keeps(p)
    BY <2>3, <2>8, OneEntryKeeps
  <2> QED BY <2>10, <2>11, <2>12, <2>13, KeepsInv
<1> QED BY <1>3, <1>4, <1>5

(* new_inode() finds a number, or none.                                     *)
LEMMA NewInodeInv ==
  ASSUME Inv, NEW p \in Procs, UNCHANGED scenario, NewInode(p)
  PROVE  Inv'
<1>1. Types /\ ProcRight(p) /\ pc[p] = "create" /\ inode \in [Entries -> Inode]
  BY TypeFacts DEF Inv, NewInode, At
<1>2. disk' = disk /\ names' = names /\ wait' = wait /\ torn' = torn /\ stale' = stale /\ scenario' = scenario
  BY DEF NewInode
<1>3. CASE Nums \subseteq imap
  <2>1. /\ \E e \in Unused : inode' = [NewEntry(e) EXCEPT ![e].count = 0]
        /\ Return(p) /\ imap' = imap /\ last' = last
    BY <1>3 DEF NewInode
  <2> QED BY <1>1, <1>2, <2>1, GiveUpInv
<1>4. CASE ~(Nums \subseteq imap)
  <2>1. PICK n : n = Min(Nums \ imap)
    OBVIOUS
  <2>2. n \in Nums /\ n \notin imap
    <3>1. Nums \ imap # {} /\ Nums \ imap \subseteq Nat
      BY <1>4, Constants
    <3> QED BY <2>1, <3>1, MinFacts
  <2>3. PICK x \in Unused :
          /\ inode' = [NewEntry(x) EXCEPT ![x].num = n, ![x].nlinks = 1, ![x].dirt = TRUE]
          /\ loc' = [loc EXCEPT ![p].e = x, ![p].nr = n]
    BY <1>4, <2>1 DEF NewInode
  <2>4. /\ imap' = imap \union {n} /\ last' = [last EXCEPT ![n] = 0] /\ pc' = [pc EXCEPT ![p] = "held"]
    BY <1>4, <2>1 DEF NewInode, Goto
  <2>5. /\ x \in Entries /\ inode[x].count = 0 /\ ~inode[x].dirt /\ ~inode[x].lock
        /\ Sole(p, x) /\ \A q \in Procs : ~Reads(q, x)
    BY UnusedFacts
  <2>6. PICK c : c = [InHand EXCEPT !.num = n, !.nlinks = 1, !.dirt = TRUE]
    OBVIOUS
  <2>7. c \in Inode /\ c.num = n /\ c.count = 1 /\ c.dirt /\ ~c.lock /\ ~c.pipe /\ c.val = 0
    <3>1. 0 \in Vals
      BY Constants
    <3>2. c = [num |-> n, count |-> 1, dirt |-> TRUE, lock |-> FALSE, pipe |-> FALSE, nlinks |-> 1, val |-> 0]
      BY <2>6 DEF InHand, Cleared
    <3> QED BY <2>2, <3>1, <3>2 DEF Inode
  <2>8. inode' = [inode EXCEPT ![x] = c]
    <3>1. PICK t : t = NewEntry(x)
      OBVIOUS
    <3>2. t = [inode EXCEPT ![x] = InHand]
      BY <3>1 DEF NewEntry, InHand
    <3>3. inode' = [t EXCEPT ![x].num = n, ![x].nlinks = 1, ![x].dirt = TRUE]
      BY <2>3, <3>1
    <3>4. t[x] = InHand /\ t \in [Entries -> Inode]
      BY <1>1, <2>5, <3>2, Constants
    <3>5. inode' = [t EXCEPT ![x] = c]
      BY <2>5, <2>6, <3>3, <3>4
    <3> QED BY <2>5, <3>2, <3>5
  <2>9. PICK v : v = [loc[p] EXCEPT !.e = x, !.nr = n]
    OBVIOUS
  <2>10. v \in Local /\ v.op = "create" /\ v.nr = n /\ v.e = x /\ v.empty = 0
    <3>1. loc[p] \in Local /\ loc[p].op = "create" /\ loc[p].empty = 0
      BY <1>1, LocalTypes DEF ProcRight
    <3> QED BY <2>2, <2>5, <2>9, <3>1 DEF Local
  <2>11. LocalStep(p, "held", v)
    BY <1>1, <2>3, <2>4, <2>9, <2>10, TypeFacts DEF LocalStep, Locations
  <2>12. RestTypes
    <3>1. imap' \subseteq Nums /\ last' \in [Nums -> Vals]
      BY <1>1, <2>2, <2>4, TypeFacts, Constants
    <3> QED BY <1>1, <1>2, <3>1, TypeFacts DEF RestTypes
  <2>13. /\ \A e \in Entries : RefsOf(loc[p], pc[p], e) = 0
         /\ \A e \in Entries : RefsOf(v, "held", e) = IF e = x THEN 1 ELSE 0
    BY <1>1, <2>10 DEF RefsOf, Outside
  <2>14. OneEntry(p, x, c, "held", v)
    <3>1. c.count + RefsOf(loc[p], pc[p], x) = inode[x].count + RefsOf(v, "held", x)
      BY <2>5, <2>7, <2>13
    <3> QED BY <2>5, <2>7, <2>8, <2>11, <2>12, <2>13, <3>1 DEF OneEntry
  <2>15. /\ OnlyP(p) /\ pc'[p] = "held" /\ loc'[p] = v
         /\ inode'[x] = c /\ \A e \in Entries \ {x} : inode'[e] = inode[e]
    BY <2>5, <2>14, OneEntryFacts
  <2>16. ProcRight(p)'
    BY <2>2, <2>5, <2>7, <2>10, <2>15, Constants DEF ProcRight, Outside
  <2>17. LocksRight'
    <3>1. c.lock = inode[x].lock
      BY <1>1, <2>5, <2>7, Fields
    <3>2. LocksSame(p)
      BY <1>1, <1>2, <2>5, <2>15, <3>1 DEF LocksSame
    <3> QED BY <1>2, <2>15, <3>2, LocksKept DEF Inv
  <2>18. NumsRight'
    <3>1. SUFFICES ASSUME ~stale
          PROVE  /\ \A e, f \in Entries : inode'[e].num = inode'[f].num /\ inode'[e].num # 0 => e = f
                 /\ \A e \in Entries : inode'[e].num # 0 => inode'[e].num \in imap'
      BY <1>2 DEF NumsRight
    <3>2. /\ \A e, f \in Entries : inode[e].num = inode[f].num /\ inode[e].num # 0 => e = f
          /\ \A e \in Entries : inode[e].num # 0 => inode[e].num \in imap
      BY <3>1 DEF Inv, NumsRight
    <3>3. \A e \in Entries : inode[e].num # n
      BY <2>2, <3>2, Constants
    <3> QED BY <2>4, <2>7, <2>15, <3>2, <3>3
  <2>19. ChangesKept'
    <3>1. SUFFICES ASSUME ~torn, ~stale, NEW k \in imap' PROVE KeptFor(k)'
      BY <1>2, ChangesFrom
    <3>2. \A e \in Entries : inode[e].num # n
      BY <2>2, <3>1, Constants DEF Inv, NumsRight
    <3>3. last' = [last EXCEPT ![n] = 0] /\ last \in [Nums -> Vals]
      BY <1>1, <2>4, TypeFacts
    <3>4. CASE k = n
      <4>1. IsLoaded(x)'
        <5>1. SUFFICES ASSUME NEW q \in Procs, Reads(q, x)' PROVE FALSE
          BY DEF IsLoaded
        <5>2. q # p /\ Reads(q, x)
          BY <2>15, <5>1 DEF Reads, OnlyP
        <5> QED BY <2>5, <5>2
      <4>2. inode'[x].val = last'[n] /\ inode'[x].dirt /\ inode'[x].num = n
        BY <2>2, <2>7, <2>15, <3>3
      <4> QED BY <2>5, <2>15, <3>2, <3>4, <4>1, <4>2 DEF KeptFor
    <3>5. CASE k # n
      <4>1. k \in imap /\ k \in Nums
        BY <1>1, <2>4, <3>1, <3>5, TypeFacts
      <4>2. KeptFor(k)
        BY <3>1, <4>1, KeptIsKeptFor DEF Inv
      <4>3. ASSUME NEW e \in Entries PROVE Preserved(e, k)
        <5>1. CASE e = x
          BY <2>5, <2>7, <2>15, <3>5, <5>1 DEF Preserved
        <5>2. CASE e # x
          <6>1. Reads(p, e)' <=> Reads(p, e)
            BY <1>1, <2>15 DEF Reads
          <6> QED BY <2>15, <5>2, <6>1, PreservedSame
        <5> QED BY <5>1, <5>2
      <4>4. last'[k] = last[k]
        BY <3>3, <3>5, <4>1
      <4> QED BY <1>2, <4>2, <4>3, <4>4, KeptSame
    <3> QED BY <3>4, <3>5
  <2>20. Keeps(p)
    BY <2>5, <2>14, <2>16, OneEntryKeeps
  <2> QED BY <2>17, <2>18, <2>19, <2>20, KeepsInv
<1> QED BY <1>3, <1>4
-----------------------------------------------------------------------------
(* The invariant.                                                           *)

(* It holds at first.                                                       *)
LEMMA InitInv == Init => Inv
<1>1. SUFFICES ASSUME Init PROVE Inv
  OBVIOUS
<1>2. PICK sc \in Scenarios :
        /\ inode = [e \in Entries |-> Cleared]
        /\ disk = [n \in Nums |-> [nlinks |-> IF n \in sc.names THEN 1 ELSE 0, val |-> 0]]
        /\ imap = sc.names /\ names = sc.names
        /\ pc = [p \in Procs |-> "user"] /\ loc = [p \in Procs |-> NoLoc] /\ wait = [p \in Procs |-> 0]
        /\ last = [n \in Nums |-> 0] /\ torn = FALSE /\ stale = FALSE /\ scenario = sc
  BY <1>1 DEF Init
<1>3. sc.names \subseteq Nums /\ 0 \in Vals /\ Cleared \in Inode /\ NoLoc \in Local
  BY InodeAssumption, Constants
<1>4. /\ Cleared.num = 0 /\ Cleared.count = 0 /\ ~Cleared.dirt /\ ~Cleared.lock /\ ~Cleared.pipe
      /\ NoLoc.e = 0 /\ NoLoc.empty = 0
  BY DEF Cleared, NoLoc
<1>5. Types
  <2>1. disk \in [Nums -> [nlinks : 0 .. 255, val : Vals]]
    BY <1>2, <1>3
  <2>2. inode \in [Entries -> Inode] /\ loc \in [Procs -> Local]
    BY <1>2, <1>3
  <2>3. pc \in [Procs -> Locations] /\ wait \in [Procs -> Entries \union {0, Lost}] /\ last \in [Nums -> Vals]
    BY <1>2, <1>3 DEF Locations
  <2> QED BY <1>2, <1>3, <2>1, <2>2, <2>3 DEF Types, TableTypes, Inode, Local
<1>6. CountIsReferences
  <2>1. SUFFICES ASSUME NEW e \in Entries PROVE inode[e].count = Total(e)
    BY CountIsTotal
  <2>2. InHands(e) = {} /\ Holders(e) = {} /\ PipeHolders(e) = {}
    BY <1>2, <1>4, Constants DEF InHands, Holders, PipeHolders, Holds, HoldsBoth
  <2>3. Cardinality({}) = 0
    BY FS_EmptySet
  <2> QED BY <1>2, <1>4, <2>2, <2>3 DEF Total
<1>7. \A p \in Procs : ProcRight(p)
  BY <1>2, <1>4 DEF ProcRight, Outside
<1>8. \A e \in Entries : EntryRight(e)
  BY <1>2, <1>4 DEF EntryRight
<1>9. NumsRight
  BY <1>2, <1>4 DEF NumsRight
<1>10. LocksRight
  BY <1>2, <1>4 DEF LocksRight, Locker
<1>11. ChangesKept
  <2>1. ASSUME NEW n \in imap PROVE KeptFor(n)
    <3>1. n \in Nums /\ n # 0
      BY <1>2, <1>3, <2>1, Constants
    <3> QED BY <1>2, <1>4, <3>1 DEF KeptFor
  <2> QED BY <2>1, KeptIsKeptFor
<1> QED BY <1>5, <1>6, <1>7, <1>8, <1>9, <1>10, <1>11 DEF Inv

(* Every step keeps it.                                                     *)
LEMMA NextInv == Inv /\ [Next]_vars => Inv'
<1>1. SUFFICES ASSUME Inv, [Next]_vars PROVE Inv'
  OBVIOUS
<1>2. CASE UNCHANGED vars
  <2>1. UNCHANGED <<inode, fs, pc, loc, wait, last, torn, stale, scenario>>
    BY <1>2 DEF vars, aux
  <2> QED BY <1>1, <2>1, PanicInv
<1>3. CASE Next
  <2>1. UNCHANGED scenario
    BY <1>3 DEF Next
  <2>2. PICK p \in Procs :
          \/ \E n \in Nums : Lookup(p, n) \/ IgetUnlink(p, n)
          \/ \E v \in Vals : Change(p, v)
          \/ \E op \in Calls : Begin(p, op)
          \/ Step(p)
    BY <1>3 DEF Next
  <2>3. CASE (\E n \in Nums : Lookup(p, n)) \/ (\E op \in Calls : Begin(p, op))
    BY <1>1, <2>1, <2>3, StartInv
  <2>4. CASE (\E n \in Nums : IgetUnlink(p, n)) \/ Iget(p)
    BY <1>1, <2>1, <2>4, IgetInv
  <2>5. CASE \E v \in Vals : Change(p, v)
    BY <1>1, <2>1, <2>5, ChangeInv
  <2>6. CASE NoEntry(p) \/ SyncUnderDone(p)
    <3>1. UNCHANGED <<inode, fs, pc, loc, wait, last, torn, stale>>
      BY <2>6 DEF NoEntry, SyncUnderDone, Panic
    <3> QED BY <1>1, <2>1, <3>1, PanicInv
  <2>7. CASE Match(p)
    BY <1>1, <2>1, <2>7, MatchInv
  <2>8. CASE ReadInode(p)
    BY <1>1, <2>1, <2>8, ReadInodeInv
  <2>9. CASE NewInode(p)
    BY <1>1, <2>1, <2>9, NewInodeInv
  <2>10. CASE GetPipeInode(p)
    BY <1>1, <2>1, <2>10, GetPipeInodeInv
  <2>11. CASE AddEntry(p) \/ Unlink(p) \/ Unlinked(p)
    BY <1>1, <2>1, <2>11, NameInv
  <2>12. CASE Close(p) \/ IputDevice(p)
    BY <1>1, <2>1, <2>12, GoOnInv
  <2>13. CASE IputPipe(p)
    BY <1>1, <2>1, <2>13, IputPipeInv
  <2>14. CASE IputRepeat(p)
    BY <1>1, <2>1, <2>14, IputRepeatInv, IputWritesInv
  <2>15. CASE IputWait(p)
    <3>1. pc[p] \in {"iput", "repeat"} /\ WaitOnInode(p, loc[p].e, pc[p]) /\ UNCHANGED loc
      BY <2>15 DEF IputWait
    <3>2. loc[p].e \in Entries
      BY <1>1, <3>1, HolderFacts
    <3> QED BY <1>1, <2>1, <3>1, <3>2, WaitInv
  <2>16. CASE FreeInode(p)
    BY <1>1, <2>1, <2>16, FreeInodeInv
  <2>17. CASE IputWritten(p) \/ SyncWritten(p)
    BY <1>1, <2>1, <2>17, WritersInv
  <2>18. CASE SyncInodes(p)
    BY <1>1, <2>1, <2>18, SyncInodesInv
  <2>19. CASE SyncDone(p)
    BY <1>1, <2>1, <2>19, GoOnInv, SyncReturnInv
  <2>20. CASE SyncUnderLock(p)
    BY <1>1, <2>1, <2>20, UnderLockInv
  <2> QED BY <2>2, <2>3, <2>4, <2>5, <2>6, <2>7, <2>8, <2>9, <2>10, <2>11, <2>12, <2>13, <2>14, <2>15,
             <2>16, <2>17, <2>18, <2>19, <2>20 DEF Step
<1> QED BY <1>1, <1>2, <1>3

(* The invariant holds in every state of every run.                         *)
LEMMA Invariance == Spec => []Inv
BY InitInv, NextInv, PTL DEF Spec

(* A process that has a lock sleeps on an inode only in sync_inodes().      *)
UnderRight ==
  /\ under \subseteq Procs
  /\ \A p \in Procs : pc[p] \in {"read", "write", "syncwrite"} /\ wait[p] # 0 => p \in under

(* It sleeps nowhere else, since it looks at locks before it takes one.     *)
LEMMA NextUnder == Inv /\ UnderRight /\ [Next]_vars => UnderRight'
<1>1. SUFFICES ASSUME Inv, UnderRight, [Next]_vars PROVE UnderRight'
  OBVIOUS
<1>2. CASE UNCHANGED vars
  BY <1>1, <1>2 DEF UnderRight, vars, aux
<1>3. CASE Next
  <2>1. PICK p \in Procs :
          \/ \E n \in Nums : Lookup(p, n) \/ IgetUnlink(p, n)
          \/ \E v \in Vals : Change(p, v)
          \/ \E op \in Calls : Begin(p, op)
          \/ Step(p)
    BY <1>3 DEF Next
  <2> DEFINE Moves ==
        /\ under' = under
        /\ \A q \in Procs \ {p} : pc'[q] = pc[q] /\ (wait[q] = 0 => wait'[q] = 0)
        /\ pc'[p] \in {"read", "write", "syncwrite"} => wait'[p] = 0 \/ p \in under
  <2>2. Moves => UnderRight'
    BY <1>1 DEF UnderRight
  <2>3. pc \in [Procs -> Locations] /\ wait \in [Procs -> Entries \union {0, Lost}]
    BY <1>1 DEF Inv, Types, TableTypes
  <2>4. pc'[p] = pc[p] /\ wait'[p] = wait[p] /\ under' = under => (pc'[p] \in {"read", "write", "syncwrite"} => wait'[p] = 0 \/ p \in under)
    BY <1>1 DEF UnderRight
  <2>5. ASSUME NEW l, Goto(p, l) PROVE pc'[p] = l /\ \A q \in Procs \ {p} : pc'[q] = pc[q]
    BY <2>3, <2>5 DEF Goto
  <2>6. Return(p) => pc'[p] = "user" /\ \A q \in Procs \ {p} : pc'[q] = pc[q]
    BY <2>3 DEF Return, Goto
  <2>7. ASSUME NEW e, wait' = WakeUp(e) PROVE \A q \in Procs : wait[q] = 0 => wait'[q] = 0
    BY <2>7 DEF WakeUp
  <2>8. ASSUME NEW f, wait' = [wait EXCEPT ![p] = f]
        PROVE  \A q \in Procs \ {p} : wait[q] = 0 => wait'[q] = 0
    BY <2>3, <2>8
  <2>9. ASSUME NEW lo, NEW table, NEW x, wait[p] = 0, Search(p, lo, table, x) PROVE Moves
    <3>1. CASE UNCHANGED wait /\ under' = under /\ (Goto(p, "read") \/ Goto(p, "held"))
      BY <2>5, <2>9, <3>1
    <3>2. CASE /\ \E f : wait' = [wait EXCEPT ![p] = f]
               /\ under' = under /\ Goto(p, "match")
      BY <2>5, <2>8, <3>2
    <3> QED BY <2>9, <3>1, <3>2 DEF Search, Found, aux
  <2>10. CASE (\E n \in Nums : IgetUnlink(p, n)) \/ Iget(p) \/ Match(p)
    <3>1. CASE \E e : WaitOnInode(p, e, "match")
      BY <2>2, <2>5, <2>8, <3>1 DEF WaitOnInode, aux
    <3>2. CASE \E lo, table, x : wait[p] = 0 /\ Search(p, lo, table, x)
      BY <2>2, <2>9, <3>2
    <3>3. CASE \E lo, table, e, x : Found(p, lo, table, e, x) /\ wait[p] = 0
      BY <2>2, <2>5, <3>3 DEF Found, aux
    <3> QED BY <2>10, <3>1, <3>2, <3>3 DEF IgetUnlink, Iget, Match, At
  <2>11. CASE (\E n \in Nums : Lookup(p, n)) \/ (\E op \in Calls : Begin(p, op))
    BY <2>2, <2>5, <2>11 DEF Lookup, Begin, aux, At, Calls
  <2>12. CASE (\E v \in Vals : Change(p, v)) \/ NoEntry(p)
    BY <2>2, <2>4, <2>12 DEF Change, NoEntry, Panic
  <2>13. CASE ReadInode(p) \/ IputPipe(p) \/ IputWritten(p) \/ SyncWritten(p)
    <3>1. PICK e : wait' = WakeUp(e)
      BY <2>13, Zenon DEF ReadInode, IputPipe, IputWritten, SyncWritten, Written
    <3>2. under' = under
      BY <2>13, Zenon DEF ReadInode, IputPipe, IputWritten, SyncWritten, Written, aux
    <3>3. Goto(p, "held") \/ Return(p) \/ Goto(p, "repeat") \/ Goto(p, "sync")
      BY <2>13, Zenon DEF ReadInode, IputPipe, IputWritten, SyncWritten, Written
    <3>4. /\ pc'[p] \notin {"read", "write", "syncwrite"}
          /\ \A q \in Procs \ {p} : pc'[q] = pc[q]
      BY <2>5, <2>6, <3>3
    <3>5. \A q \in Procs : wait[q] = 0 => wait'[q] = 0
      BY <2>7, <3>1
    <3> QED BY <2>2, <3>2, <3>4, <3>5
  <2>14. CASE NewInode(p) \/ GetPipeInode(p)
    <3>1. UNCHANGED wait /\ under' = under
      BY <2>14 DEF NewInode, GetPipeInode, aux
    <3>2. Goto(p, "held") \/ Return(p)
      BY <2>14 DEF NewInode, GetPipeInode
    <3> QED BY <2>2, <2>5, <2>6, <3>1, <3>2
  <2>15. CASE AddEntry(p) \/ Unlink(p) \/ Unlinked(p) \/ Close(p) \/ IputDevice(p)
    BY <2>2, <2>5, <2>15 DEF AddEntry, Unlink, Unlinked, Close, IputDevice, aux
  <2>16. CASE IputRepeat(p)
    <3>1. wait[p] = 0 /\ UNCHANGED wait /\ under' = under
      BY <2>16 DEF IputRepeat, At, Panic, aux
    <3>2. UNCHANGED pc \/ Return(p) \/ Goto(p, "truncate") \/ Goto(p, "write")
      BY <2>16 DEF IputRepeat, Panic, WriteInode
    <3> QED BY <2>2, <2>5, <2>6, <3>1, <3>2
  <2>17. CASE IputWait(p)
    BY <2>2, <2>5, <2>8, <2>17 DEF IputWait, WaitOnInode, aux
  <2>18. CASE FreeInode(p)
    <3>1. pc[p] = "truncate" /\ under' = under /\ (UNCHANGED pc \/ Return(p))
      BY <2>18 DEF FreeInode, At, Panic
    <3>2. loc[p].e # 0
      BY <1>1, <3>1 DEF Inv, ProcRight, Outside
    <3>3. UNCHANGED wait \/ wait' = [q \in Procs |-> IF wait[q] = loc[p].e THEN Lost ELSE wait[q]]
      BY <2>18 DEF FreeInode, Panic
    <3> QED BY <2>2, <2>3, <2>6, <3>1, <3>2, <3>3
  <2>19. CASE SyncInodes(p)
    <3>1. wait[p] = 0 /\ under' = under
      BY <2>19 DEF SyncInodes, WaitOnInode, At, aux
    <3>2. \/ Goto(p, "sync") /\ \E e : wait' = [wait EXCEPT ![p] = e]
          \/ Goto(p, "syncwrite") /\ UNCHANGED wait
      BY <2>19 DEF SyncInodes, WaitOnInode, WriteInode
    <3> QED BY <2>2, <2>5, <2>8, <3>1, <3>2
  <2>20. CASE SyncDone(p)
    BY <2>2, <2>5, <2>6, <2>20 DEF SyncDone, aux
  <2>21. CASE SyncUnderLock(p)
    BY <1>1, <2>3, <2>21 DEF SyncUnderLock, UnderRight
  <2>22. CASE SyncUnderDone(p)
    BY <1>1, <2>22 DEF SyncUnderDone, UnderRight
  <2> QED BY <2>1, <2>10, <2>11, <2>12, <2>13, <2>14, <2>15, <2>16, <2>17, <2>18, <2>19,
             <2>20, <2>21, <2>22 DEF Step
<1> QED BY <1>1, <1>2, <1>3

(* It holds in every state.                                                 *)
LEMMA UnderInvariance == Spec => []UnderRight
<1>1. Init => UnderRight
  BY DEF Init, UnderRight
<1> QED BY <1>1, Invariance, NextUnder, PTL DEF Spec

(* The table of inodes tells used entries from unused ones, on every path   *)
(* through iget() and iput(), however many processes use it.                *)
THEOREM TableStaysConsistent == Spec => []TableConsistent
<1>1. Inv /\ UnderRight => TableConsistent
  <2>1. SUFFICES ASSUME Inv, UnderRight PROVE TableConsistent
    OBVIOUS
  <2>2. UnusedIsIdle
    BY <2>1, UnusedFacts DEF UnusedIsIdle
  <2> QED BY <2>1, <2>2 DEF Inv, Types, UnderRight, TypeOK, TableConsistent
<1> QED BY <1>1, Invariance, UnderInvariance, PTL

(* No two entries are the same inode, unless iget() read a freed one.       *)
THEOREM OneEntryPerInode == Spec => []OneInodePerNumber
<1>1. Inv => OneInodePerNumber
  BY DEF Inv, NumsRight, OneInodePerNumber
<1> QED BY <1>1, Invariance, PTL

(* A lock has one owner, and whoever sleeps on it will be woken by that     *)
(* owner, unless bread() made the owner itself sleep in sync_inodes().      *)
THEOREM LocksStaySound == Spec => []LocksSound
<1>1. Inv /\ UnderRight => LocksSound
  <2>1. SUFFICES ASSUME Inv, UnderRight, ~torn PROVE LocksSound
    BY DEF LocksSound, LockHasOneOwner, SleeperHasWaker
  <2>2. /\ \A e \in Entries : \A p \in Procs : Locker(p, e) => inode[e].lock
        /\ \A e \in Entries : \A p, q \in Procs : Locker(p, e) /\ Locker(q, e) => p = q
        /\ \A e \in Entries : inode[e].lock => \E p \in Procs : Locker(p, e)
        /\ \A p \in Procs : wait[p] # 0 => wait[p] \in Entries /\ inode[wait[p]].lock
    BY <2>1 DEF Inv, LocksRight
  <2>3. \A e, p : p \in Lockers(e) <=> p \in Procs /\ Locker(p, e)
    BY DEF Lockers, Locker
  <2>4. ASSUME NEW e \in Entries PROVE Cardinality(Lockers(e)) = IF inode[e].lock THEN 1 ELSE 0
    <3>1. CASE inode[e].lock
      <4>1. PICK p \in Procs : Locker(p, e)
        BY <2>2, <3>1
      <4>2. Lockers(e) = {p}
        BY <2>2, <2>3, <4>1
      <4> QED BY <3>1, <4>2, FS_Singleton
    <3>2. CASE ~inode[e].lock
      <4>1. Lockers(e) = {}
        BY <2>2, <2>3, <3>2
      <4> QED BY <3>2, <4>1, FS_EmptySet
    <3> QED BY <3>1, <3>2
  <2>5. ASSUME NEW p \in Procs, wait[p] # 0
        PROVE  wait[p] # Lost /\ \E q \in Lockers(wait[p]) : wait[q] = 0 \/ q \in under
    <3>1. PICK q \in Procs : wait[p] \in Entries /\ wait[p] # Lost /\ Locker(q, wait[p])
      BY <2>2, <2>5, Constants
    <3>2. wait[q] = 0 \/ q \in under
      BY <2>1, <3>1 DEF UnderRight, Locker
    <3> QED BY <2>3, <3>1, <3>2
  <2> QED BY <2>4, <2>5 DEF LocksSound, LockHasOneOwner, SleeperHasWaker
<1> QED BY <1>1, Invariance, UnderInvariance, PTL

(* No change of an inode is lost, unless a locked entry was cleared or a    *)
(* freed inode was read.                                                    *)
THEOREM NoChangeIsLost == Spec => []ChangesKept
<1>1. Inv => ChangesKept
  BY DEF Inv
<1> QED BY <1>1, Invariance, PTL
=============================================================================
