------------------------- MODULE RequestQueueProofs -------------------------
(***************************************************************************)
(* Proofs about RequestQueue, for a table of any size and any blocks: the  *)
(* elevator of add_request() keeps its order.                              *)
(***************************************************************************)
EXTENDS RequestQueue, SequenceTheorems, WellFoundedInduction, TLAPS

(* No two queued requests are for the same block, so that IN_ORDER decides  *)
(* between any two of them.                                                 *)
OneRequestPerBlock ==
  \A i, j \in 1 .. Len(queue) :
    request[queue[i]].block = request[queue[j]].block => i = j

(* The inductive invariant.                                                 *)
QueueInv == ElevatorOrder /\ OneRequestPerBlock

(* The order of the list r breaks behind its element i.                     *)
Breaks(r, i) == ~IN_ORDER(r[i], r[i + 1])

(* The list r is one sweep followed by at most one more.                    *)
Sweeps(r) == \A i, j \in 1 .. (Len(r) - 1) : Breaks(r, i) /\ Breaks(r, j) => i = j

(* add_request()'s test at the element i of the list r.                     *)
StopsHere(r, req, i) ==
  /\ IN_ORDER(r[i], req) \/ Breaks(r, i)
  /\ IN_ORDER(req, r[i + 1])
-----------------------------------------------------------------------------
(* Any non-empty set of naturals has a least element.                      *)
LEMMA LeastNat ==
  ASSUME NEW T \in SUBSET Nat, T # {}
  PROVE  \E x \in T : \A y \in T : x =< y
<1> DEFINE R == {ss \in Nat \X Nat : ss[1] < ss[2]}
<1>1. IsWellFoundedOn(R, Nat)
  BY NatLessThanWellFounded DEF OpToRel
<1>2. ASSUME NEW a \in Nat, NEW b \in Nat, a < b PROVE <<a, b>> \in R
  <2>1. <<a, b>> \in Nat \X Nat /\ <<a, b>>[1] = a /\ <<a, b>>[2] = b
    OBVIOUS
  <2> QED BY <1>2, <2>1
<1> HIDE DEF R
<1>3. PICK x \in T : \A y \in T : ~(<<y, x>> \in R)
  BY <1>1, WFMin
<1>4. ASSUME NEW y \in T PROVE x =< y
  <2>1. x \in Nat /\ y \in Nat
    OBVIOUS
  <2>2. ~(y < x)
    BY <1>2, <1>3, <2>1
  <2> QED BY <2>1, <2>2
<1> QED BY <1>4

(* Min() is that element: the searches from the bottom of a table up.       *)
LEMMA MinFacts ==
  ASSUME NEW T \in SUBSET Nat, T # {}
  PROVE  Min(T) \in T /\ \A y \in T : Min(T) =< y
BY LeastNat DEF Min

(* Max() of a bounded set: the searches from the top of a table down.       *)
LEMMA MaxFacts ==
  ASSUME NEW n \in Nat, NEW T \in SUBSET (0 .. n), T # {}
  PROVE  Max(T) \in T /\ \A y \in T : y =< Max(T)
<1> DEFINE U == {x \in 0 .. n : n - x \in T}
<1>1. U # {} /\ U \in SUBSET Nat
  <2>1. PICK t \in T : TRUE
    OBVIOUS
  <2>2. n - t \in U
    <3>1. n - t \in 0 .. n /\ n - (n - t) = t
      OBVIOUS
    <3> QED BY <3>1
  <2> QED BY <2>2
<1>2. PICK x \in U : \A y \in U : x =< y
  BY <1>1, LeastNat
<1>3. ASSUME NEW t \in T PROVE t =< n - x
  <2>1. n - t \in 0 .. n /\ n - (n - t) = t
    OBVIOUS
  <2>2. x =< n - t
    BY <1>2, <2>1
  <2> QED BY <2>2
<1>4. n - x \in T
  OBVIOUS
<1>5. \E m \in T : \A y \in T : m >= y
  BY <1>3, <1>4
<1>6. Max(T) \in T /\ \A y \in T : Max(T) >= y
  BY <1>5 DEF Max
<1> QED BY <1>6

(* The elements of a list that is put together of two and an element.       *)
LEMMA ConcatFacts ==
  ASSUME NEW S, NEW a \in Seq(S), NEW b \in Seq(S), NEW e \in S
  PROVE  /\ (a \o <<e>>) \o b \in Seq(S)
         /\ Len((a \o <<e>>) \o b) = Len(a) + 1 + Len(b)
         /\ \A k \in 1 .. (Len(a) + 1 + Len(b)) :
              ((a \o <<e>>) \o b)[k] = IF k =< Len(a) THEN a[k]
                                       ELSE IF k = Len(a) + 1 THEN e ELSE b[k - Len(a) - 1]
OBVIOUS

(* c is q with e put in front of its element i.                             *)
IsInserted(c, q, i, e) ==
  /\ Len(c) = Len(q) + 1
  /\ \A k \in 1 .. (Len(q) + 1) :
       c[k] = IF k < i THEN q[k] ELSE IF k = i THEN e ELSE q[k - 1]

(* What add_request() makes of the list.                                    *)
LEMMA InsertFacts ==
  ASSUME NEW S, NEW q \in Seq(S), NEW i \in 1 .. (Len(q) + 1), NEW e \in S
  PROVE  InsertAt(q, i, e) \in Seq(S) /\ IsInserted(InsertAt(q, i, e), q, i, e)
<1>0. Len(q) \in Nat /\ i \in Nat
  OBVIOUS
<1>1. PICK a \in Seq(S) : a = SubSeq(q, 1, i - 1)
  <2>1. SubSeq(q, 1, i - 1) \in Seq(S)
    OBVIOUS
  <2> QED BY <2>1
<1>2. PICK b \in Seq(S) : b = SubSeq(q, i, Len(q))
  <2>1. SubSeq(q, i, Len(q)) \in Seq(S)
    OBVIOUS
  <2> QED BY <2>1
<1>3. Len(a) = i - 1 /\ \A k \in 1 .. (i - 1) : a[k] = q[k]
  BY <1>1
<1>4. Len(b) = Len(q) - i + 1 /\ \A k \in 1 .. (Len(q) - i + 1) : b[k] = q[i + k - 1]
  BY <1>2
<1>5. /\ (a \o <<e>>) \o b \in Seq(S)
      /\ Len((a \o <<e>>) \o b) = Len(a) + 1 + Len(b)
      /\ \A k \in 1 .. (Len(a) + 1 + Len(b)) :
           ((a \o <<e>>) \o b)[k] = IF k =< Len(a) THEN a[k]
                                    ELSE IF k = Len(a) + 1 THEN e ELSE b[k - Len(a) - 1]
  BY ConcatFacts
<1>6. PICK c : c = (a \o <<e>>) \o b
  OBVIOUS
<1>7. InsertAt(q, i, e) = c
  BY <1>1, <1>2, <1>6 DEF InsertAt
<1>8. c \in Seq(S) /\ Len(c) = Len(q) + 1
  BY <1>0, <1>3, <1>4, <1>5, <1>6
<1>9. ASSUME NEW k \in 1 .. (Len(q) + 1)
      PROVE  c[k] = IF k < i THEN q[k] ELSE IF k = i THEN e ELSE q[k - 1]
  <2>1. c[k] = IF k =< i - 1 THEN a[k] ELSE IF k = i THEN e ELSE b[k - i]
    <3>1. Len(a) + 1 + Len(b) = Len(q) + 1 /\ Len(a) + 1 = i /\ k - Len(a) - 1 = k - i
      BY <1>0, <1>3, <1>4
    <3> QED BY <1>3, <1>5, <1>6, <3>1
  <2>2. CASE k < i
    BY <1>0, <1>3, <2>1, <2>2
  <2>3. CASE k = i
    BY <1>0, <2>1, <2>3
  <2>4. CASE k > i
    <3>1. k - i \in 1 .. (Len(q) - i + 1) /\ i + (k - i) - 1 = k - 1
      BY <1>0, <2>4
    <3> QED BY <1>0, <1>4, <2>1, <2>4, <3>1
  <2> QED BY <1>0, <2>2, <2>3, <2>4
<1> QED BY <1>7, <1>8, <1>9 DEF IsInserted

(* The entries of the list q are distinct.                                  *)
Distinct(q) == \A i, j \in 1 .. Len(q) : q[i] = q[j] => i = j

(* e is in the list q.                                                      *)
InList(q, e) == \E i \in 1 .. Len(q) : q[i] = e

(* Putting a new entry into a list of distinct ones.                        *)
LEMMA InsertDistinct ==
  ASSUME NEW S, NEW q \in Seq(S), NEW i \in 1 .. (Len(q) + 1), NEW e \in S,
         NEW c \in Seq(S), IsInserted(c, q, i, e),
         Distinct(q), ~InList(q, e)
  PROVE  Distinct(c) /\ \A s \in S : InList(c, s) <=> (s = e \/ InList(q, s))
<1> USE DEF IsInserted
<1> DEFINE old(m) == IF m < i THEN m ELSE m - 1
<1>0. Len(q) \in Nat /\ i \in Nat /\ Len(c) = Len(q) + 1
  OBVIOUS
<1>1. ASSUME NEW m \in 1 .. Len(c), m # i
      PROVE  old(m) \in 1 .. Len(q) /\ c[m] = q[old(m)]
  BY <1>0, <1>1
<1>2. i \in 1 .. Len(c) /\ c[i] = e
  BY <1>0
<1>3. \A k \in 1 .. Len(q) : q[k] # e
  BY DEF InList
<1>4. ASSUME NEW k \in 1 .. Len(c), NEW l \in 1 .. Len(c), c[k] = c[l]
      PROVE  k = l
  <2>1. CASE k # i /\ l # i
    <3>1. old(k) = old(l)
      <4> HIDE DEF old
      <4> QED BY <1>1, <1>4, <2>1 DEF Distinct
    <3>2. (k < i \/ k > i) /\ (l < i \/ l > i)
      BY <1>0, <2>1
    <3> QED BY <1>0, <3>1, <3>2
  <2>2. CASE k = i \/ l = i
    <3>1. ASSUME NEW m \in 1 .. Len(c), m # i PROVE c[m] # e
      <4>1. old(m) \in 1 .. Len(q) /\ c[m] = q[old(m)]
        BY <1>1, <3>1
      <4> HIDE DEF old
      <4> QED BY <1>3, <4>1
    <3> QED BY <1>2, <1>4, <2>2, <3>1
  <2> QED BY <2>1, <2>2
<1>5. ASSUME NEW k \in 1 .. Len(q)
      PROVE  \E m \in 1 .. Len(c) : c[m] = q[k]
  <2>1. CASE k < i
    <3>1. k \in 1 .. Len(c) /\ c[k] = q[k]
      BY <1>0, <2>1
    <3> QED BY <3>1
  <2>2. CASE k >= i
    <3>1. k + 1 \in 1 .. Len(c) /\ c[k + 1] = q[k]
      BY <1>0, <2>2
    <3> QED BY <3>1
  <2>3. k < i \/ k >= i
    BY <1>0
  <2> QED BY <2>1, <2>2, <2>3
<1>6. ASSUME NEW s \in S PROVE InList(c, s) <=> (s = e \/ InList(q, s))
  <2>1. ASSUME NEW m \in 1 .. Len(c), c[m] = s PROVE s = e \/ InList(q, s)
    <3>1. CASE m = i
      BY <1>2, <2>1, <3>1
    <3>2. CASE m # i
      <4>1. old(m) \in 1 .. Len(q) /\ q[old(m)] = s
        BY <1>1, <2>1, <3>2
      <4> HIDE DEF old
      <4> QED BY <4>1 DEF InList
    <3> QED BY <3>1, <3>2
  <2>2. ASSUME s = e PROVE InList(c, s)
    BY <1>2, <2>2 DEF InList
  <2>3. ASSUME InList(q, s) PROVE InList(c, s)
    <3>1. PICK k \in 1 .. Len(q) : q[k] = s
      BY <2>3 DEF InList
    <3> QED BY <1>5, <3>1 DEF InList
  <2>4. ASSUME InList(c, s) PROVE s = e \/ InList(q, s)
    <3>1. PICK m \in 1 .. Len(c) : c[m] = s
      BY <2>4 DEF InList
    <3> QED BY <2>1, <3>1
  <2> QED BY <2>2, <2>3, <2>4
<1> QED BY <1>4, <1>6 DEF Distinct
-----------------------------------------------------------------------------
(* IN_ORDER compares any two requests for different blocks.                 *)
LEMMA OrderTotal ==
  ASSUME NEW x \in Requests, NEW y \in Requests, x.block # y.block
  PROVE  IN_ORDER(x, y) <=> ~IN_ORDER(y, x)
<1>1. x.block \in Nat /\ y.block \in Nat
  <2>1. x.block \in Blocks /\ y.block \in Blocks
    BY DEF Requests
  <2> QED BY <2>1, RequestAssumption
<1>2. x.cmd \in Nat /\ y.cmd \in Nat
  BY DEF Requests, READ, WRITE
<1> QED BY <1>1, <1>2 DEF IN_ORDER

(* Where add_request() stops: at the first place that passes its test, or   *)
(* at the end of a list without such a place.                               *)
LEMMA StopAtFacts ==
  ASSUME NEW r \in Seq(Requests), NEW req \in Requests
  PROVE  \/ /\ StopAt(r, req) \in 1 .. (Len(r) - 1)
            /\ StopsHere(r, req, StopAt(r, req))
         \/ /\ StopAt(r, req) = Len(r)
            /\ \A i \in 1 .. (Len(r) - 1) : ~StopsHere(r, req, i)
<1> DEFINE I == {i \in 1 .. (Len(r) - 1) : StopsHere(r, req, i)}
<1>1. StopAt(r, req) = IF I = {} THEN Len(r) ELSE Min(I)
  BY DEF StopAt, StopsHere, Breaks
<1>2. I \in SUBSET Nat
  OBVIOUS
<1>3. CASE I = {}
  BY <1>1, <1>3
<1>4. CASE I # {}
  <2> HIDE DEF I
  <2>1. Min(I) \in I
    BY <1>2, <1>4, MinFacts
  <2> QED BY <1>1, <1>4, <2>1 DEF I
<1> QED BY <1>3, <1>4

(* A request that goes to the end of the list, out of order with the last   *)
(* one, finds a single sweep there: behind a break it would have found its  *)
(* place between two requests.                                              *)
LEMMA EndOfSecondSweep ==
  ASSUME NEW r \in Seq(Requests), NEW req \in Requests,
         \A i \in 1 .. Len(r) : r[i].block # req.block,
         \A i \in 1 .. (Len(r) - 1) : ~StopsHere(r, req, i),
         NEW d \in 1 .. (Len(r) - 1), Breaks(r, d)
  PROVE  IN_ORDER(r[Len(r)], req)
<1>1. Len(r) \in Nat /\ d \in Nat /\ d + 1 \in 1 .. Len(r)
  OBVIOUS
<1>2. ASSUME NEW i \in 1 .. Len(r) PROVE IN_ORDER(r[i], req) <=> ~IN_ORDER(req, r[i])
  BY OrderTotal
<1> DEFINE T == {i \in (d + 1) .. Len(r) : IN_ORDER(r[i], req)}
<1>3. d + 1 \in T
  <2>1. ~IN_ORDER(req, r[d + 1])
    BY DEF StopsHere
  <2> QED BY <1>1, <1>2, <2>1
<1>4. T # {} /\ T \in SUBSET (0 .. Len(r))
  BY <1>1, <1>3
<1>5. PICK m \in T : \A y \in T : y =< m
  <2> HIDE DEF T
  <2> QED BY <1>1, <1>4, MaxFacts
<1>6. m \in (d + 1) .. Len(r) /\ IN_ORDER(r[m], req)
  OBVIOUS
<1>7. CASE m = Len(r)
  BY <1>6, <1>7
<1>8. CASE m # Len(r)
  <2>1. m \in 1 .. (Len(r) - 1) /\ m + 1 \in (d + 1) .. Len(r) /\ ~(m + 1 =< m)
    BY <1>1, <1>6, <1>8
  <2>2. ~IN_ORDER(r[m + 1], req)
    BY <1>5, <2>1
  <2>3. IN_ORDER(req, r[m + 1])
    <3>1. m + 1 \in 1 .. Len(r)
      BY <1>1, <2>1
    <3> QED BY <1>2, <2>2, <3>1
  <2>4. StopsHere(r, req, m)
    BY <1>6, <2>3 DEF StopsHere
  <2> QED BY <2>1, <2>4
<1> QED BY <1>7, <1>8

(* add_request() keeps the sweeps.                                          *)
LEMMA InsertSweeps ==
  ASSUME NEW r \in Seq(Requests), NEW req \in Requests, Sweeps(r),
         \A i \in 1 .. Len(r) : r[i].block # req.block,
         NEW c \in Seq(Requests), IsInserted(c, r, StopAt(r, req) + 1, req)
  PROVE  Sweeps(c)
<1>0. PICK p : p = StopAt(r, req)
  OBVIOUS
<1>1. Len(r) \in Nat
  OBVIOUS
<1>2. Len(c) = Len(r) + 1 /\ \A k \in 1 .. (Len(r) + 1) :
        c[k] = IF k < p + 1 THEN r[k] ELSE IF k = p + 1 THEN req ELSE r[k - 1]
  BY <1>0 DEF IsInserted
<1>3. CASE p \in 1 .. (Len(r) - 1) /\ StopsHere(r, req, p)
  <2> DEFINE old(k) == IF k =< p THEN k ELSE k - 1
  <2>0. p \in Nat
    BY <1>3
  <2>1. ASSUME NEW k \in 1 .. (Len(c) - 1), Breaks(c, k)
        PROVE  /\ k # p + 1
               /\ old(k) \in 1 .. (Len(r) - 1)
               /\ Breaks(r, old(k))
    <3>1. CASE k < p
      <4>1. c[k] = r[k] /\ c[k + 1] = r[k + 1]
        BY <1>1, <1>2, <1>3, <3>1
      <4> QED BY <1>1, <1>3, <2>1, <3>1, <4>1 DEF Breaks
    <3>2. CASE k = p
      <4>1. c[k] = r[p] /\ c[k + 1] = req
        BY <1>1, <1>2, <1>3, <3>2
      <4> QED BY <1>1, <1>3, <2>1, <3>2, <4>1 DEF Breaks, StopsHere
    <3>3. CASE k = p + 1
      <4>1. c[k] = req /\ c[k + 1] = r[p + 1]
        BY <1>1, <1>2, <1>3, <3>3
      <4> QED BY <1>3, <2>1, <4>1 DEF Breaks, StopsHere
    <3>4. CASE k > p + 1
      <4>1. c[k] = r[k - 1] /\ c[k + 1] = r[(k - 1) + 1]
        BY <1>1, <1>2, <1>3, <3>4
      <4>2. k - 1 \in 1 .. (Len(r) - 1) /\ k # p + 1 /\ ~(k =< p)
        BY <1>1, <1>2, <1>3, <3>4
      <4> QED BY <2>1, <4>1, <4>2 DEF Breaks
    <3> QED BY <2>0, <3>1, <3>2, <3>3, <3>4
  <2>2. ASSUME NEW i \in 1 .. (Len(c) - 1), NEW j \in 1 .. (Len(c) - 1),
               Breaks(c, i), Breaks(c, j)
        PROVE  i = j
    <3>1. old(i) = old(j) /\ i # p + 1 /\ j # p + 1
      <4> HIDE DEF old
      <4> QED BY <2>1, <2>2 DEF Sweeps
    <3> QED BY <2>0, <3>1
  <2> QED BY <2>2 DEF Sweeps
<1>4. CASE p = Len(r) /\ \A i \in 1 .. (Len(r) - 1) : ~StopsHere(r, req, i)
  <2>1. ASSUME NEW k \in 1 .. (Len(c) - 1), k # Len(r), Breaks(c, k)
        PROVE  k \in 1 .. (Len(r) - 1) /\ Breaks(r, k)
    <3>1. k \in 1 .. (Len(r) - 1)
      BY <1>1, <1>2, <2>1
    <3>2. c[k] = r[k] /\ c[k + 1] = r[k + 1]
      BY <1>1, <1>2, <1>4, <3>1
    <3> QED BY <2>1, <3>1, <3>2 DEF Breaks
  <2>2. ASSUME Len(r) \in 1 .. (Len(c) - 1), Breaks(c, Len(r)),
               NEW k \in 1 .. (Len(r) - 1), Breaks(r, k)
        PROVE  FALSE
    <3>1. c[Len(r)] = r[Len(r)] /\ c[Len(r) + 1] = req
      BY <1>1, <1>2, <1>4, <2>2
    <3>2. IN_ORDER(r[Len(r)], req)
      BY <1>4, <2>2, EndOfSecondSweep
    <3> QED BY <2>2, <3>1, <3>2 DEF Breaks
  <2>3. ASSUME NEW i \in 1 .. (Len(c) - 1), NEW j \in 1 .. (Len(c) - 1),
               Breaks(c, i), Breaks(c, j)
        PROVE  i = j
    <3>1. CASE i # Len(r) /\ j # Len(r)
      BY <2>1, <2>3, <3>1 DEF Sweeps
    <3>2. CASE i = Len(r) /\ j # Len(r)
      BY <2>1, <2>2, <2>3, <3>2
    <3>3. CASE i # Len(r) /\ j = Len(r)
      BY <2>1, <2>2, <2>3, <3>3
    <3> QED BY <3>1, <3>2, <3>3
  <2> QED BY <2>3 DEF Sweeps
<1> QED BY <1>0, <1>3, <1>4, StopAtFacts
-----------------------------------------------------------------------------
(* The slot make_request() finds is in the table and free.                  *)
LEMMA FindSlotFacts ==
  ASSUME TypeOK, NEW cmd \in {READ, WRITE}, FindSlot(request, cmd) # 0
  PROVE  FindSlot(request, cmd) \in Slots /\ request[FindSlot(request, cmd)] = Free
<1> DEFINE I == {i \in 1 .. SlotLimit(cmd) : request[i] = Free}
<1>1. FindSlot(request, cmd) = IF I # {} THEN Max(I) ELSE 0
  BY DEF FindSlot, SelectLastInSubSeq
<1>2. NR_REQUEST \in Nat /\ SlotLimit(cmd) \in 0 .. NR_REQUEST
  BY RequestAssumption DEF SlotLimit
<1>3. I \in SUBSET (0 .. NR_REQUEST) /\ I \in SUBSET Slots
  BY <1>2 DEF Slots
<1>4. I # {}
  BY <1>1
<1>5. Max(I) \in I
  <2> HIDE DEF I
  <2> QED BY <1>2, <1>3, <1>4, MaxFacts
<1> QED BY <1>1, <1>3, <1>4, <1>5

(* A step of make_request() keeps the invariant.                            *)
LEMMA MakeRequestStep ==
  ASSUME QueueInv, NEW cmd \in {READ, WRITE}, NEW b \in Blocks, MakeRequest(cmd, b)
  PROVE  QueueInv'
<1> DEFINE req == [cmd |-> cmd, block |-> b]
<1>0. TypeOK /\ TwoSweeps /\ OneRequestPerBlock
  BY DEF QueueInv, ElevatorOrder
<1>1. PICK s \in Slots : s = FindSlot(request, cmd) /\ request[s] = Free
  BY <1>0, FindSlotFacts DEF MakeRequest
<1>2. request' = [request EXCEPT ![s] = req] /\ queue' = AddRequest(request', queue, s)
  BY <1>1 DEF MakeRequest
<1>3. req \in Requests /\ req # Free /\ req.block = b
  <2>1. b \in Nat
    BY RequestAssumption
  <2> QED BY <2>1 DEF Requests, Free
<1>4. /\ request' \in [Slots -> Requests \union {Free}]
      /\ request'[s] = req
      /\ \A t \in Slots : t # s => request'[t] = request[t]
  BY <1>0, <1>2, <1>3 DEF TypeOK
<1>5. queue \in Seq(Slots) /\ Len(queue) \in Nat /\ Distinct(queue) /\ ~InList(queue, s)
  BY <1>0, <1>1 DEF TypeOK, Distinct, InList
<1>6. ASSUME NEW i \in 1 .. Len(queue)
      PROVE  /\ queue[i] \in Slots /\ queue[i] # s
             /\ request'[queue[i]] = request[queue[i]]
             /\ request[queue[i]] \in Requests
             /\ request[queue[i]].block # b
  <2>1. queue[i] \in Slots /\ request[queue[i]] # Free
    BY <1>0 DEF TypeOK
  <2>2. request[queue[i]] \in Requests
    BY <1>0, <2>1 DEF TypeOK
  <2>3. request[queue[i]].block # b
    BY <2>1 DEF MakeRequest, Pending
  <2> QED BY <1>1, <1>4, <2>1, <2>2, <2>3
<1>7. PICK r \in Seq(Requests) : /\ r = [i \in 1 .. Len(queue) |-> request'[queue[i]]]
                                 /\ Len(r) = Len(queue)
                                 /\ \A i \in 1 .. Len(queue) : r[i] = request[queue[i]]
  <2>1. \A i \in 1 .. Len(queue) : request'[queue[i]] \in Requests
    BY <1>6
  <2>2. [i \in 1 .. Len(queue) |-> request'[queue[i]]] \in Seq(Requests)
    BY <1>5, <2>1
  <2>3. Len([i \in 1 .. Len(queue) |-> request'[queue[i]]]) = Len(queue)
    BY <1>5
  <2>4. \A i \in 1 .. Len(queue) :
          [k \in 1 .. Len(queue) |-> request'[queue[k]]][i] = request[queue[i]]
    BY <1>6
  <2> QED BY <2>2, <2>3, <2>4
<1>8. Sweeps(r)
  <2>1. ASSUME NEW i \in 1 .. (Len(queue) - 1)
        PROVE  Breaks(r, i) <=> ~IN_ORDER(request[queue[i]], request[queue[i + 1]])
    <3>1. i \in 1 .. Len(queue) /\ i + 1 \in 1 .. Len(queue)
      BY <1>5
    <3>2. r[i] = request[queue[i]] /\ r[i + 1] = request[queue[i + 1]]
      BY <1>7, <3>1
    <3> QED BY <3>2 DEF Breaks
  <2> QED BY <1>0, <1>7, <2>1 DEF Sweeps, TwoSweeps
<1>9. PICK p \in 0 .. Len(queue) : p = StopAt(r, req)
  <2>1. StopAt(r, req) \in 0 .. Len(queue)
    <3> HIDE DEF req
    <3> QED BY <1>3, <1>5, <1>7, StopAtFacts
  <2> QED BY <2>1
<1>10. queue' = InsertAt(queue, p + 1, s)
  BY <1>2, <1>4, <1>7, <1>9 DEF AddRequest
<1>11. p + 1 \in 1 .. (Len(queue) + 1)
  BY <1>5
<1>12. queue' \in Seq(Slots) /\ IsInserted(queue', queue, p + 1, s)
  BY <1>5, <1>10, <1>11, InsertFacts
<1>13. Distinct(queue') /\ \A t \in Slots : InList(queue', t) <=> (t = s \/ InList(queue, t))
  BY <1>5, <1>11, <1>12, InsertDistinct
<1>14. Len(queue') = Len(queue) + 1
  BY <1>12 DEF IsInserted
<1>15. ASSUME NEW k \in 1 .. (Len(queue) + 1)
       PROVE  request'[queue'[k]] = IF k < p + 1 THEN r[k] ELSE IF k = p + 1 THEN req ELSE r[k - 1]
  <2>1. queue'[k] = IF k < p + 1 THEN queue[k] ELSE IF k = p + 1 THEN s ELSE queue[k - 1]
    BY <1>12 DEF IsInserted
  <2>2. CASE k < p + 1
    <3>1. k \in 1 .. Len(queue)
      BY <1>5, <2>2
    <3> QED BY <1>6, <1>7, <2>1, <2>2, <3>1
  <2>3. CASE k = p + 1
    <3>1. ~(k < p + 1)
      BY <1>5, <2>3
    <3> QED BY <1>4, <2>1, <2>3, <3>1
  <2>4. CASE k > p + 1
    <3>1. k - 1 \in 1 .. Len(queue) /\ ~(k < p + 1) /\ k # p + 1
      BY <1>5, <2>4
    <3> QED BY <1>6, <1>7, <2>1, <3>1
  <2> QED BY <1>5, <2>2, <2>3, <2>4
<1>16. PICK c \in Seq(Requests) : /\ c = [i \in 1 .. Len(queue') |-> request'[queue'[i]]]
                                  /\ Len(c) = Len(queue')
                                  /\ \A i \in 1 .. Len(queue') : c[i] = request'[queue'[i]]
  <2>1. ASSUME NEW k \in 1 .. Len(queue') PROVE request'[queue'[k]] \in Requests
    <3>1. k \in 1 .. (Len(queue) + 1)
      BY <1>14
    <3>2. (k < p + 1 => k \in 1 .. Len(r)) /\ (k > p + 1 => k - 1 \in 1 .. Len(r))
      BY <1>5, <1>7, <3>1
    <3>3. k < p + 1 \/ k = p + 1 \/ k > p + 1
      BY <1>5, <3>1
    <3> HIDE DEF req
    <3> QED BY <1>3, <1>15, <3>1, <3>2, <3>3
  <2>2. [i \in 1 .. Len(queue') |-> request'[queue'[i]]] \in Seq(Requests)
    BY <1>5, <1>14, <2>1
  <2>3. Len([i \in 1 .. Len(queue') |-> request'[queue'[i]]]) = Len(queue')
    BY <1>5, <1>14
  <2>4. \A i \in 1 .. Len(queue') :
          [k \in 1 .. Len(queue') |-> request'[queue'[k]]][i] = request'[queue'[i]]
    OBVIOUS
  <2> QED BY <2>2, <2>3, <2>4
<1>17. IsInserted(c, r, p + 1, req)
  BY <1>7, <1>14, <1>15, <1>16 DEF IsInserted
<1>18. Sweeps(c)
  <2>1. \A i \in 1 .. Len(r) : r[i].block # req.block
    BY <1>3, <1>6, <1>7
  <2> HIDE DEF req
  <2> QED BY <1>3, <1>8, <1>9, <1>17, <2>1, InsertSweeps
<1>19. TwoSweeps'
  <2>1. ASSUME NEW i \in 1 .. (Len(queue') - 1)
        PROVE  Breaks(c, i) <=> ~IN_ORDER(request'[queue'[i]], request'[queue'[i + 1]])
    <3>1. i \in 1 .. Len(queue') /\ i + 1 \in 1 .. Len(queue')
      BY <1>5, <1>14
    <3>2. c[i] = request'[queue'[i]] /\ c[i + 1] = request'[queue'[i + 1]]
      BY <1>16, <3>1
    <3> QED BY <3>2 DEF Breaks
  <2> QED BY <1>16, <1>18, <2>1 DEF Sweeps, TwoSweeps
<1>20. TypeOK'
  <2>1. \A t \in Slots : (request'[t] # Free) <=> InList(queue', t)
    <3>1. \A t \in Slots : (request[t] # Free) <=> InList(queue, t)
      BY <1>0 DEF TypeOK, InList
    <3> QED BY <1>3, <1>4, <1>13, <3>1
  <2> QED BY <1>4, <1>12, <1>13, <2>1 DEF TypeOK, Distinct, InList
<1>21. OneRequestPerBlock'
  <2> DEFINE old(m) == IF m < p + 1 THEN m ELSE m - 1
  <2>1. ASSUME NEW m \in 1 .. Len(queue'), m # p + 1
        PROVE  old(m) \in 1 .. Len(queue) /\ request'[queue'[m]] = request[queue[old(m)]]
    <3>1. old(m) \in 1 .. Len(queue)
      BY <1>5, <1>14, <2>1
    <3>2. request'[queue'[m]] = r[old(m)]
      BY <1>5, <1>14, <1>15, <2>1
    <3> HIDE DEF old
    <3> QED BY <1>7, <3>1, <3>2
  <2>2. request'[queue'[p + 1]].block = b
    BY <1>3, <1>5, <1>11, <1>15
  <2>3. ASSUME NEW i \in 1 .. Len(queue'), NEW j \in 1 .. Len(queue'),
               request'[queue'[i]].block = request'[queue'[j]].block
        PROVE  i = j
    <3>1. CASE i # p + 1 /\ j # p + 1
      <4>1. old(i) = old(j)
        <5> HIDE DEF old
        <5> QED BY <1>0, <2>1, <2>3, <3>1 DEF OneRequestPerBlock
      <4>2. (i < p + 1 \/ i > p + 1) /\ (j < p + 1 \/ j > p + 1)
        BY <1>5, <1>14, <3>1
      <4> QED BY <1>5, <1>14, <4>1, <4>2
    <3>2. CASE i = p + 1 \/ j = p + 1
      <4>1. ASSUME NEW m \in 1 .. Len(queue'), m # p + 1
            PROVE  request'[queue'[m]].block # b
        <5>1. old(m) \in 1 .. Len(queue) /\ request'[queue'[m]] = request[queue[old(m)]]
          BY <2>1, <4>1
        <5> HIDE DEF old
        <5> QED BY <1>6, <5>1
      <4> QED BY <2>2, <2>3, <3>2, <4>1
    <3> QED BY <3>1, <3>2
  <2> QED BY <2>3 DEF OneRequestPerBlock
<1> QED BY <1>19, <1>20, <1>21 DEF QueueInv, ElevatorOrder

(* A step of end_request() keeps the invariant.                             *)
LEMMA EndRequestStep ==
  ASSUME QueueInv, EndRequest
  PROVE  QueueInv'
<1>0. TypeOK /\ TwoSweeps /\ OneRequestPerBlock
  BY DEF QueueInv, ElevatorOrder
<1>1. queue \in Seq(Slots) /\ Len(queue) \in Nat /\ Len(queue) > 0 /\ Head(queue) = queue[1]
        /\ queue[1] \in Slots
  BY <1>0 DEF TypeOK, EndRequest
<1>2. queue' \in Seq(Slots) /\ Len(queue') = Len(queue) - 1
        /\ \A i \in 1 .. (Len(queue) - 1) : queue'[i] = queue[i + 1]
  BY <1>1 DEF EndRequest
<1>3. /\ request' \in [Slots -> Requests \union {Free}]
      /\ request'[queue[1]] = Free
      /\ \A t \in Slots : t # queue[1] => request'[t] = request[t]
  BY <1>0, <1>1 DEF TypeOK, EndRequest
<1>4. ASSUME NEW i \in 1 .. Len(queue')
      PROVE  /\ i + 1 \in 1 .. Len(queue) /\ i + 1 # 1
             /\ queue'[i] = queue[i + 1]
             /\ queue'[i] # queue[1]
             /\ request'[queue'[i]] = request[queue[i + 1]]
  <2>1. i + 1 \in 1 .. Len(queue) /\ i + 1 # 1 /\ queue'[i] = queue[i + 1]
    BY <1>1, <1>2
  <2>2. queue[i + 1] # queue[1]
    BY <1>0, <1>1, <2>1 DEF TypeOK
  <2>3. queue[i + 1] \in Slots
    BY <1>1, <2>1
  <2> QED BY <1>3, <2>1, <2>2, <2>3
<1>5. TypeOK'
  <2>1. \A i, j \in 1 .. Len(queue') : queue'[i] = queue'[j] => i = j
    <3> SUFFICES ASSUME NEW i \in 1 .. Len(queue'), NEW j \in 1 .. Len(queue'), queue'[i] = queue'[j]
                 PROVE  i = j
      OBVIOUS
    <3>1. i + 1 = j + 1
      BY <1>0, <1>4 DEF TypeOK
    <3> QED BY <1>1, <1>2, <3>1
  <2>2. ASSUME NEW t \in Slots, request'[t] # Free
        PROVE  \E i \in 1 .. Len(queue') : queue'[i] = t
    <3>1. t # queue[1] /\ request[t] # Free
      BY <1>3, <2>2
    <3>2. PICK k \in 1 .. Len(queue) : queue[k] = t
      BY <1>0, <3>1 DEF TypeOK
    <3>3. k # 1 /\ k - 1 \in 1 .. Len(queue') /\ (k - 1) + 1 = k
      BY <1>1, <1>2, <3>1, <3>2
    <3>4. queue'[k - 1] = t
      BY <1>4, <3>2, <3>3
    <3> QED BY <3>3, <3>4
  <2>3. ASSUME NEW t \in Slots, NEW i \in 1 .. Len(queue'), queue'[i] = t
        PROVE  request'[t] # Free
    <3>1. i + 1 \in 1 .. Len(queue) /\ queue[i + 1] = t /\ request'[t] = request[t]
      BY <1>4, <2>3
    <3> QED BY <1>0, <3>1 DEF TypeOK
  <2> QED BY <1>2, <1>3, <2>1, <2>2, <2>3 DEF TypeOK
<1>6. TwoSweeps'
  <2> SUFFICES ASSUME NEW i \in 1 .. (Len(queue') - 1), NEW j \in 1 .. (Len(queue') - 1),
                      ~IN_ORDER(request'[queue'[i]], request'[queue'[i + 1]]),
                      ~IN_ORDER(request'[queue'[j]], request'[queue'[j + 1]])
               PROVE  i = j
    BY DEF TwoSweeps
  <2>1. ASSUME NEW k \in 1 .. (Len(queue') - 1)
        PROVE  /\ k + 1 \in 1 .. (Len(queue) - 1)
               /\ request'[queue'[k]] = request[queue[k + 1]]
               /\ request'[queue'[k + 1]] = request[queue[(k + 1) + 1]]
    <3>1. k \in 1 .. Len(queue') /\ k + 1 \in 1 .. Len(queue') /\ k + 1 \in 1 .. (Len(queue) - 1)
      BY <1>1, <1>2
    <3> QED BY <1>4, <3>1
  <2>2. i + 1 = j + 1
    BY <1>0, <2>1 DEF TwoSweeps
  <2> QED BY <1>1, <1>2, <2>2
<1>7. OneRequestPerBlock'
  <2> SUFFICES ASSUME NEW i \in 1 .. Len(queue'), NEW j \in 1 .. Len(queue'),
                      request'[queue'[i]].block = request'[queue'[j]].block
               PROVE  i = j
    BY DEF OneRequestPerBlock
  <2>0. /\ i + 1 \in 1 .. Len(queue) /\ j + 1 \in 1 .. Len(queue)
        /\ request[queue[i + 1]].block = request[queue[j + 1]].block
    BY <1>4
  <2>1. i + 1 = j + 1
    BY <2>0, <1>0 DEF OneRequestPerBlock
  <2> QED BY <1>1, <1>2, <2>1
<1> QED BY <1>5, <1>6, <1>7 DEF QueueInv, ElevatorOrder
-----------------------------------------------------------------------------
(* Whatever requests arrive, in whatever order the drive is done with them, *)
(* the table and the list agree and the list is one sweep followed by at    *)
(* most one more (make_request(), add_request(), end_request()).            *)
THEOREM ElevatorKeepsOrder == Spec => []ElevatorOrder
<1>1. Init => QueueInv
  <2> SUFFICES ASSUME Init PROVE QueueInv
    OBVIOUS
  <2>1. queue = <<>> /\ Len(queue) = 0 /\ request = [s \in Slots |-> Free]
    BY DEF Init
  <2>2. TypeOK
    BY <2>1 DEF TypeOK
  <2> QED BY <2>1, <2>2 DEF QueueInv, ElevatorOrder, TwoSweeps, OneRequestPerBlock
<1>2. QueueInv /\ [Next]_rqvars => QueueInv'
  <2> SUFFICES ASSUME QueueInv, [Next]_rqvars PROVE QueueInv'
    OBVIOUS
  <2>1. ASSUME NEW cmd \in {READ, WRITE}, NEW b \in Blocks, MakeRequest(cmd, b)
        PROVE  QueueInv'
    BY <2>1, MakeRequestStep
  <2>2. CASE EndRequest
    BY <2>2, EndRequestStep
  <2>3. CASE UNCHANGED rqvars
    BY <2>3 DEF rqvars, QueueInv, ElevatorOrder, TypeOK, TwoSweeps, OneRequestPerBlock
  <2> QED BY <2>1, <2>2, <2>3 DEF Next
<1>3. QueueInv => ElevatorOrder
  BY DEF QueueInv
<1> QED BY <1>1, <1>2, <1>3, PTL DEF Spec
=============================================================================
