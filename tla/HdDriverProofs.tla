--------------------------- MODULE HdDriverProofs ---------------------------
(***************************************************************************)
(* Proofs about HdDriver, for any number of requests, devices and sectors, *)
(* any geometry and any partition table that fits the drive.               *)
(***************************************************************************)
EXTENDS HdDriver, SequenceTheorems, TLAPS

DriveRecords == [cmd : DriveCommands, at : Int, left : Int, data : Int]

(* The controller is given a command only on the way out of                 *)
(* do_hd_request(): inside it none is outstanding.                          *)
DriveKnown ==
  /\ drive \in DriveRecords
  /\ drive # Idle => drive.cmd # "none"
  /\ pc = "run" => drive = Idle

(* A queued request counts its two sectors; only the current one can be in  *)
(* its second sector, and then the first one has been transferred.          *)
Progress ==
  \A r \in Reqs : status[r] = "queued" =>
    /\ request[r].nr + request[r].done = 2
    /\ request[r].sector >= request[r].done
    /\ request[r].done = 1 =>
         CURRENT = r /\ buf[r][0] = disk[FirstSector(r)]

(* A command is outstanding only for a block inside its partition.          *)
InsidePartition ==
  drive # Idle => cur.sector - cur.done + 2 =< hd[cur.dev].nr_sects

(* A request is started in its second sector only after an error there.     *)
RetryAfterError ==
  /\ pc = "run" \/ drive.cmd \in {"specify", "restore"}
  /\ queue # <<>> /\ cur.done = 1
  => cur.errors > 0

(* The inductive invariant of the driver.                                   *)
DriverInv ==
  /\ InStep /\ GivenUpAfterMaxErrors
  /\ DriveKnown /\ Progress /\ InsidePartition /\ RetryAfterError
-----------------------------------------------------------------------------
(* The elements of a list that is put together of two and an element.       *)
LEMMA ConcatFacts ==
  ASSUME NEW S, NEW a \in Seq(S), NEW b \in Seq(S), NEW e \in S
  PROVE  /\ (a \o <<e>>) \o b \in Seq(S)
         /\ Len((a \o <<e>>) \o b) = Len(a) + 1 + Len(b)
         /\ \A k \in 1 .. (Len(a) + 1 + Len(b)) :
              ((a \o <<e>>) \o b)[k] = IF k =< Len(a) THEN a[k]
                                       ELSE IF k = Len(a) + 1 THEN e ELSE b[k - Len(a) - 1]
OBVIOUS

(* c is q with e put in front of its element i.                             *)
IsInserted(c, q, i, e) ==
  /\ Len(c) = Len(q) + 1
  /\ \A k \in 1 .. (Len(q) + 1) :
       c[k] = IF k < i THEN q[k] ELSE IF k = i THEN e ELSE q[k - 1]

(* What add_request() makes of the list.                                    *)
LEMMA InsertFacts ==
  ASSUME NEW S, NEW q \in Seq(S), NEW i \in 1 .. (Len(q) + 1), NEW e \in S
  PROVE  InsertAt(q, i, e) \in Seq(S) /\ IsInserted(InsertAt(q, i, e), q, i, e)
<1>0. Len(q) \in Nat /\ i \in Nat
  OBVIOUS
<1>1. PICK a \in Seq(S) : a = SubSeq(q, 1, i - 1)
  <2>1. SubSeq(q, 1, i - 1) \in Seq(S)
    OBVIOUS
  <2> QED BY <2>1
<1>2. PICK b \in Seq(S) : b = SubSeq(q, i, Len(q))
  <2>1. SubSeq(q, i, Len(q)) \in Seq(S)
    OBVIOUS
  <2> QED BY <2>1
<1>3. Len(a) = i - 1 /\ \A k \in 1 .. (i - 1) : a[k] = q[k]
  BY <1>1
<1>4. Len(b) = Len(q) - i + 1 /\ \A k \in 1 .. (Len(q) - i + 1) : b[k] = q[i + k - 1]
  BY <1>2
<1>5. /\ (a \o <<e>>) \o b \in Seq(S)
      /\ Len((a \o <<e>>) \o b) = Len(a) + 1 + Len(b)
      /\ \A k \in 1 .. (Len(a) + 1 + Len(b)) :
           ((a \o <<e>>) \o b)[k] = IF k =< Len(a) THEN a[k]
                                    ELSE IF k = Len(a) + 1 THEN e ELSE b[k - Len(a) - 1]
  BY ConcatFacts
<1>6. PICK c : c = (a \o <<e>>) \o b
  OBVIOUS
<1>7. InsertAt(q, i, e) = c
  BY <1>1, <1>2, <1>6 DEF InsertAt
<1>8. c \in Seq(S) /\ Len(c) = Len(q) + 1
  BY <1>0, <1>3, <1>4, <1>5, <1>6
<1>9. ASSUME NEW k \in 1 .. (Len(q) + 1)
      PROVE  c[k] = IF k < i THEN q[k] ELSE IF k = i THEN e ELSE q[k - 1]
  <2>1. c[k] = IF k =< i - 1 THEN a[k] ELSE IF k = i THEN e ELSE b[k - i]
    <3>1. Len(a) + 1 + Len(b) = Len(q) + 1 /\ Len(a) + 1 = i /\ k - Len(a) - 1 = k - i
      BY <1>0, <1>3, <1>4
    <3> QED BY <1>3, <1>5, <1>6, <3>1
  <2>2. CASE k < i
    BY <1>0, <1>3, <2>1, <2>2
  <2>3. CASE k = i
    BY <1>0, <2>1, <2>3
  <2>4. CASE k > i
    <3>1. k - i \in 1 .. (Len(q) - i + 1) /\ i + (k - i) - 1 = k - 1
      BY <1>0, <2>4
    <3> QED BY <1>0, <1>4, <2>1, <2>4, <3>1
  <2> QED BY <1>0, <2>2, <2>3, <2>4
<1> QED BY <1>7, <1>8, <1>9 DEF IsInserted
-----------------------------------------------------------------------------
(* do_hd_request() computes the sector it means: the drive's own numbering  *)
(* takes the three results of its two divisions back to the block.          *)
LEMMA LocateInverse ==
  ASSUME NEW b \in Nat
  PROVE  SectorAt(Locate(b)) = b
BY HdAssumption DEF SectorAt, Locate

(* The number of errors after which a request is given up.                  *)
LEMMA MaxErrorsNat == MAX_ERRORS \in Nat /\ MAX_ERRORS > 0
BY HdAssumption

(* Counting one more error in a request that may still have one.            *)
LEMMA ErrorFields ==
  ASSUME NEW c \in RequestRecords, c.errors < MAX_ERRORS
  PROVE  LET f == [c EXCEPT !.errors = @ + 1] IN
         /\ f \in RequestRecords /\ f.errors = c.errors + 1
         /\ f.nr = c.nr /\ f.done = c.done
         /\ f.sector = c.sector /\ f.dev = c.dev /\ f.cmd = c.cmd
<1>1. c.errors + 1 \in 0 .. MAX_ERRORS
  BY MaxErrorsNat DEF RequestRecords
<1> QED BY <1>1 DEF RequestRecords

(* What read_intr() and write_intr() do to a request that goes on.          *)
LEMMA SectorFields ==
  ASSUME NEW c \in RequestRecords, c.nr > 0, c.done < 2, NEW n \in 0 .. MAX_ERRORS
  PROVE  LET f == [c EXCEPT !.errors = n, !.done = @ + 1, !.sector = @ + 1, !.nr = @ - 1]
         IN  /\ f \in RequestRecords /\ f.errors = n
             /\ f.nr = c.nr - 1 /\ f.done = c.done + 1
             /\ f.sector = c.sector + 1 /\ f.dev = c.dev /\ f.cmd = c.cmd
<1>1. c.nr - 1 \in 0 .. 2 /\ c.done + 1 \in 0 .. 2 /\ c.sector + 1 \in Nat
  BY DEF RequestRecords
<1> QED BY <1>1 DEF RequestRecords

(* What write_intr() and the write loop do to a request that goes on.       *)
LEMMA WriteFields ==
  ASSUME NEW c \in RequestRecords, c.nr > 0, c.done < 2
  PROVE  LET f == [c EXCEPT !.nr = @ - 1, !.sector = @ + 1, !.done = @ + 1]
         IN  /\ f \in RequestRecords /\ f.errors = c.errors
             /\ f.nr = c.nr - 1 /\ f.done = c.done + 1
             /\ f.sector = c.sector + 1 /\ f.dev = c.dev /\ f.cmd = c.cmd
             /\ [c EXCEPT !.nr = 0] \in RequestRecords
<1>1. c.nr - 1 \in 0 .. 2 /\ c.done + 1 \in 0 .. 2 /\ c.sector + 1 \in Nat
  BY DEF RequestRecords
<1>2. [c EXCEPT !.nr = 0] \in RequestRecords
  BY DEF RequestRecords
<1> DEFINE f == [c EXCEPT !.nr = @ - 1, !.sector = @ + 1, !.done = @ + 1]
<1>3. f \in RequestRecords /\ f.errors = c.errors
        /\ f.nr = c.nr - 1 /\ f.done = c.done + 1
        /\ f.sector = c.sector + 1 /\ f.dev = c.dev /\ f.cmd = c.cmd
  BY <1>1 DEF RequestRecords
<1> QED BY <1>2, <1>3

(* The part of the type invariant about the table and the list.             *)
TableOK ==
  /\ request \in [Reqs -> RequestRecords]
  /\ status \in [Reqs -> {"new", "queued", "ok", "failed"}]
  /\ queue \in Seq(Reqs)
  /\ \A i, j \in 1 .. Len(queue) : queue[i] = queue[j] => i = j
  /\ \A r \in Reqs : (status[r] = "queued") <=> (\E i \in 1 .. Len(queue) : queue[i] = r)
  /\ \A r \in Reqs : status[r] = "queued" =>
       request[r].nr > 0 /\ request[r].errors < MAX_ERRORS

(* The current request is a queued one, behind which the others stand.      *)
LEMMA CurrentFacts ==
  ASSUME TableOK, queue # <<>>
  PROVE  /\ CURRENT \in Reqs /\ CURRENT = queue[1] /\ Len(queue) > 0
         /\ status[CURRENT] = "queued"
         /\ cur \in RequestRecords
         /\ cur.nr > 0 /\ cur.errors < MAX_ERRORS
<1>1. CURRENT = queue[1] /\ 1 \in 1 .. Len(queue) /\ CURRENT \in Reqs
  BY DEF TableOK, CURRENT
<1>2. status[CURRENT] = "queued"
  BY <1>1 DEF TableOK
<1>3. Len(queue) > 0
  BY <1>1
<1> QED BY <1>1, <1>2, <1>3 DEF TableOK, cur

(* end_request() takes the current request, and nothing else, off the list. *)
LEMMA EndRequestTable ==
  ASSUME TableOK, queue # <<>>,
         NEW fields \in RequestRecords, NEW st \in {"ok", "failed"},
         request' = [request EXCEPT ![CURRENT] = fields],
         status' = [status EXCEPT ![CURRENT] = st],
         queue' = Tail(queue)
  PROVE  /\ TableOK'
         /\ \A r \in Reqs : status'[r] = "queued" =>
              /\ status[r] = "queued" /\ r # CURRENT
              /\ request'[r] = request[r]
         /\ \A r \in Reqs \ {CURRENT} : status'[r] = status[r] /\ request'[r] = request[r]
         /\ status'[CURRENT] = st
         /\ request'[CURRENT] = fields
         /\ queue' # <<>> =>
              /\ Head(queue') \in Reqs \ {CURRENT}
              /\ status[Head(queue')] = "queued"
              /\ request'[Head(queue')] = request[Head(queue')]
<1> USE DEF TableOK
<1>0. CURRENT \in Reqs /\ CURRENT = queue[1] /\ Len(queue) > 0 /\ status[CURRENT] = "queued"
  BY CurrentFacts
<1>1. request' \in [Reqs -> RequestRecords] /\ request'[CURRENT] = fields
        /\ \A r \in Reqs \ {CURRENT} : request'[r] = request[r]
  BY <1>0
<1>2. status' \in [Reqs -> {"new", "queued", "ok", "failed"}]
        /\ status'[CURRENT] = st
        /\ \A r \in Reqs \ {CURRENT} : status'[r] = status[r]
  BY <1>0
<1>3. queue' \in Seq(Reqs) /\ Len(queue') = Len(queue) - 1
        /\ \A i \in 1 .. (Len(queue) - 1) : queue'[i] = queue[i + 1]
  OBVIOUS
<1>4. \A i, j \in 1 .. Len(queue') : queue'[i] = queue'[j] => i = j
  BY <1>3
<1>5. \A i \in 1 .. Len(queue') : queue'[i] # CURRENT
  BY <1>0, <1>3
<1>6. ASSUME NEW r \in Reqs
      PROVE  (status'[r] = "queued") <=> (\E i \in 1 .. Len(queue') : queue'[i] = r)
  <2>1. CASE r = CURRENT
    BY <1>2, <1>5, <2>1
  <2>2. ASSUME r # CURRENT, status'[r] = "queued"
        PROVE  \E i \in 1 .. Len(queue') : queue'[i] = r
    <3>1. PICK i \in 1 .. Len(queue) : queue[i] = r
      BY <1>2, <2>2
    <3>2. i - 1 \in 1 .. Len(queue') /\ queue'[i - 1] = r
      BY <1>0, <1>3, <2>2, <3>1
    <3> QED BY <3>2
  <2>3. ASSUME r # CURRENT, NEW i \in 1 .. Len(queue'), queue'[i] = r
        PROVE  status'[r] = "queued"
    <3>1. i + 1 \in 1 .. Len(queue) /\ queue[i + 1] = r
      BY <1>3, <2>3
    <3> QED BY <1>2, <2>3, <3>1
  <2> QED BY <2>1, <2>2, <2>3
<1>7. ASSUME NEW r \in Reqs, status'[r] = "queued"
      PROVE  status[r] = "queued" /\ r # CURRENT /\ request'[r] = request[r]
  BY <1>1, <1>2, <1>7
<1>8. ASSUME queue' # <<>>
      PROVE  /\ Head(queue') \in Reqs \ {CURRENT}
             /\ status[Head(queue')] = "queued"
             /\ request'[Head(queue')] = request[Head(queue')]
  <2>1. Head(queue') = queue'[1] /\ 1 \in 1 .. Len(queue')
    BY <1>3, <1>8
  <2>2. queue'[1] \in Reqs
    BY <1>3, <2>1
  <2>3. status'[queue'[1]] = "queued"
    BY <1>6, <2>1, <2>2
  <2> QED BY <1>5, <1>7, <2>1, <2>2, <2>3
<1> QED BY <1>1, <1>2, <1>3, <1>4, <1>6, <1>7, <1>8

(* A request that goes on stays where it is in the list.                    *)
LEMMA KeepTable ==
  ASSUME TableOK, queue # <<>>,
         NEW fields \in RequestRecords, fields.nr > 0, fields.errors < MAX_ERRORS,
         Keep(fields)
  PROVE  /\ TableOK'
         /\ status' = status /\ queue' = queue
         /\ request'[CURRENT] = fields
         /\ \A r \in Reqs \ {CURRENT} : request'[r] = request[r]
<1> USE DEF TableOK
<1>0. CURRENT \in Reqs
  BY CurrentFacts
<1>1. request' \in [Reqs -> RequestRecords] /\ request'[CURRENT] = fields
        /\ \A r \in Reqs \ {CURRENT} : request'[r] = request[r]
  BY <1>0 DEF Keep
<1> QED BY <1>1 DEF Keep

(* make_request() adds a request that was not listed, behind the current    *)
(* one if there is one.                                                     *)
LEMMA NewRequestTable ==
  ASSUME TableOK,
         NEW r \in Reqs, NEW cmd \in Commands, NEW d \in Devs, NEW b \in Blocks,
         NewRequest(r, cmd, d, b)
  PROVE  /\ TableOK'
         /\ status[r] # "queued"
         /\ request'[r] = [cmd |-> cmd, dev |-> d, sector |-> 2 * b, nr |-> 2,
                           done |-> 0, errors |-> 0]
         /\ status'[r] = "queued"
         /\ \A u \in Reqs \ {r} : status'[u] = status[u] /\ request'[u] = request[u]
         /\ queue' # <<>> /\ CURRENT' = IF queue = <<>> THEN r ELSE CURRENT
<1> USE DEF TableOK
<1>1. /\ request'[r] = [cmd |-> cmd, dev |-> d, sector |-> 2 * b, nr |-> 2,
                        done |-> 0, errors |-> 0]
      /\ request'[r] \in RequestRecords
      /\ request'[r].nr = 2 /\ request'[r].errors = 0
      /\ \A u \in Reqs \ {r} : request'[u] = request[u]
  BY HdAssumption DEF NewRequest, RequestRecords
<1>2. request' \in [Reqs -> RequestRecords]
  BY <1>1 DEF NewRequest
<1>3. /\ status' \in [Reqs -> {"new", "queued", "ok", "failed"}]
      /\ status[r] # "queued" /\ status'[r] = "queued"
      /\ \A u \in Reqs \ {r} : status'[u] = status[u]
  BY DEF NewRequest
<1>4. \A u \in Reqs : status'[u] = "queued" =>
        request'[u].nr > 0 /\ request'[u].errors < MAX_ERRORS
  BY <1>1, <1>3, MaxErrorsNat
<1>5. PICK i \in 1 .. (Len(queue) + 1) :
        /\ queue' \in Seq(Reqs) /\ Len(queue') = Len(queue) + 1
        /\ \A k \in 1 .. (Len(queue) + 1) :
             queue'[k] = IF k < i THEN queue[k] ELSE IF k = i THEN r ELSE queue[k - 1]
        /\ queue # <<>> => i > 1
  <2>1. CASE queue = <<>>
    <3>1. queue' = <<r>> /\ Len(queue) = 0
      BY <2>1 DEF NewRequest
    <3>2. 1 \in 1 .. (Len(queue) + 1) /\ queue' \in Seq(Reqs) /\ Len(queue') = Len(queue) + 1
            /\ \A k \in 1 .. (Len(queue) + 1) :
                 queue'[k] = IF k < 1 THEN queue[k] ELSE IF k = 1 THEN r ELSE queue[k - 1]
      BY <3>1
    <3> QED BY <2>1, <3>2
  <2>2. CASE queue # <<>>
    <3>1. PICK i \in 2 .. (Len(queue) + 1) : queue' = InsertAt(queue, i, r)
      BY <2>2 DEF NewRequest
    <3>2. i \in 1 .. (Len(queue) + 1) /\ i > 1
      BY <3>1
    <3>3. InsertAt(queue, i, r) \in Seq(Reqs) /\ IsInserted(InsertAt(queue, i, r), queue, i, r)
      BY <3>2, InsertFacts
    <3> QED BY <3>1, <3>2, <3>3 DEF IsInserted
  <2> QED BY <2>1, <2>2
<1>6. Len(queue) \in Nat /\ i \in Nat
  OBVIOUS
<1>7. \A k \in 1 .. Len(queue) : queue[k] # r
  BY <1>3
<1>8. ASSUME NEW k \in 1 .. Len(queue'), NEW l \in 1 .. Len(queue'), queue'[k] = queue'[l]
      PROVE  k = l
  <2> DEFINE old(m) == IF m < i THEN m ELSE m - 1
  <2>1. ASSUME NEW m \in 1 .. Len(queue'), m # i
        PROVE  old(m) \in 1 .. Len(queue) /\ queue'[m] = queue[old(m)]
    BY <1>5, <1>6, <2>1
  <2>2. queue'[i] = r
    BY <1>5, <1>6
  <2>3. CASE k # i /\ l # i
    <3>1. old(k) = old(l)
      BY <1>8, <2>1, <2>3
    <3> QED BY <1>5, <1>6, <2>3, <3>1
  <2>4. CASE k = i \/ l = i
    BY <1>7, <1>8, <2>1, <2>2, <2>4
  <2> QED BY <2>3, <2>4
<1>9. ASSUME NEW u \in Reqs
      PROVE  (status'[u] = "queued") <=> (\E k \in 1 .. Len(queue') : queue'[k] = u)
  <2>1. CASE u = r
    <3>1. i \in 1 .. Len(queue') /\ queue'[i] = r
      BY <1>5, <1>6
    <3> QED BY <1>3, <2>1, <3>1
  <2>2. ASSUME u # r, status'[u] = "queued"
        PROVE  \E k \in 1 .. Len(queue') : queue'[k] = u
    <3>1. PICK k \in 1 .. Len(queue) : queue[k] = u
      BY <1>3, <2>2
    <3>2. CASE k < i
      <4>1. k \in 1 .. Len(queue') /\ queue'[k] = u
        BY <1>5, <1>6, <3>1, <3>2
      <4> QED BY <4>1
    <3>3. CASE k >= i
      <4>1. k + 1 \in 1 .. Len(queue') /\ queue'[k + 1] = u
        BY <1>5, <1>6, <3>1, <3>3
      <4> QED BY <4>1
    <3> QED BY <1>6, <3>2, <3>3
  <2>3. ASSUME u # r, NEW k \in 1 .. Len(queue'), queue'[k] = u
        PROVE  status'[u] = "queued"
    <3>1. CASE k < i
      <4>1. k \in 1 .. Len(queue) /\ queue[k] = u
        BY <1>5, <1>6, <2>3, <3>1
      <4> QED BY <1>3, <2>3, <4>1
    <3>2. CASE k > i
      <4>1. k - 1 \in 1 .. Len(queue) /\ queue[k - 1] = u
        BY <1>5, <1>6, <2>3, <3>2
      <4> QED BY <1>3, <2>3, <4>1
    <3>3. k # i
      BY <1>5, <1>6, <2>3
    <3> QED BY <1>5, <1>6, <3>1, <3>2, <3>3
  <2> QED BY <2>1, <2>2, <2>3
<1>10. queue' # <<>> /\ CURRENT' = queue'[1]
  BY <1>5, <1>6 DEF CURRENT
<1>11. CURRENT' = IF queue = <<>> THEN r ELSE CURRENT
  <2>1. CASE queue = <<>>
    BY <1>5, <1>10, <2>1
  <2>2. CASE queue # <<>>
    <3>1. CURRENT = queue[1]
      BY <2>2, CurrentFacts
    <3> QED BY <1>5, <1>6, <1>10, <2>2, <3>1
  <2> QED BY <2>1, <2>2
<1> QED BY <1>1, <1>2, <1>3, <1>4, <1>5, <1>8, <1>9, <1>10, <1>11
-----------------------------------------------------------------------------
(* What the invariant says of the current request.                          *)
LEMMA CurrentProgress ==
  ASSUME DriverInv, queue # <<>>
  PROVE  /\ TableOK /\ CURRENT \in Reqs /\ status[CURRENT] = "queued"
         /\ cur = request[CURRENT]
         /\ cur \in RequestRecords
         /\ cur.nr + cur.done = 2 /\ cur.nr \in 1 .. 2 /\ cur.done \in 0 .. 1
         /\ cur.errors \in 0 .. (MAX_ERRORS - 1) /\ cur.sector \in Nat
         /\ cur.sector >= cur.done
         /\ cur.done = 1 => buf[CURRENT][0] = disk[FirstSector(CURRENT)]
<1>1. TableOK
  BY DEF DriverInv, InStep, TypeOK, TableOK
<1>2. CURRENT \in Reqs /\ status[CURRENT] = "queued" /\ cur \in RequestRecords
        /\ cur.nr > 0 /\ cur.errors < MAX_ERRORS
  BY <1>1, CurrentFacts
<1>3. cur.nr + cur.done = 2 /\ cur.sector >= cur.done
        /\ (cur.done = 1 => buf[CURRENT][0] = disk[FirstSector(CURRENT)])
  BY <1>2 DEF DriverInv, Progress, cur
<1>4. cur.nr \in 0 .. 2 /\ cur.done \in 0 .. 2 /\ cur.errors \in 0 .. MAX_ERRORS
        /\ cur.sector \in Nat
  BY <1>2 DEF RequestRecords
<1> QED BY <1>1, <1>2, <1>3, <1>4, HdAssumption DEF cur

(* A request that is not current has not been started.                      *)
LEMMA OthersUntouched ==
  ASSUME DriverInv, NEW r \in Reqs, status[r] = "queued", r # CURRENT
  PROVE  request[r].done = 0 /\ request[r].nr = 2 /\ request[r].sector >= 0
<1>1. request[r] \in RequestRecords /\ request[r].nr > 0
  BY DEF DriverInv, InStep, TypeOK
<1>2. request[r].nr \in 0 .. 2 /\ request[r].done \in 0 .. 2 /\ request[r].sector \in Nat
  BY <1>1 DEF RequestRecords
<1>3. request[r].nr + request[r].done = 2 /\ request[r].done # 1
  BY DEF DriverInv, Progress
<1> QED BY <1>1, <1>2, <1>3

(* bad_rw_intr(): the request is given up when its errors are used up, and  *)
(* is otherwise current with one error more.  The disk may have changed,    *)
(* but not the sector that the request has behind it.                       *)
LEMMA BadRwIntrEffect ==
  ASSUME DriverInv, queue # <<>>, BadRwIntr, buf' = buf,
         cur.done = 1 => disk'[FirstSector(CURRENT)] = disk[FirstSector(CURRENT)]
  PROVE  /\ TableOK' /\ GivenUpAfterMaxErrors' /\ Progress'
         /\ reset' \in BOOLEAN
         /\ queue' # <<>> /\ cur'.done = 1 => cur'.errors > 0
<1> DEFINE fields == [cur EXCEPT !.errors = @ + 1]
<1>0. /\ TableOK /\ CURRENT \in Reqs /\ status[CURRENT] = "queued"
      /\ cur = request[CURRENT] /\ cur \in RequestRecords
      /\ cur.nr + cur.done = 2 /\ cur.nr \in 1 .. 2 /\ cur.done \in 0 .. 1
      /\ cur.errors \in 0 .. (MAX_ERRORS - 1) /\ cur.sector \in Nat
      /\ cur.sector >= cur.done
      /\ cur.done = 1 => buf[CURRENT][0] = disk[FirstSector(CURRENT)]
  BY CurrentProgress
<1>1. /\ fields \in RequestRecords /\ fields.errors = cur.errors + 1
      /\ fields.nr = cur.nr /\ fields.done = cur.done
      /\ fields.sector = cur.sector /\ fields.dev = cur.dev
  BY <1>0, MaxErrorsNat, ErrorFields
<1>2. reset' \in BOOLEAN
  BY DEF BadRwIntr
<1>3. /\ fields.errors >= MAX_ERRORS => EndRequest(fields, FALSE)
      /\ ~(fields.errors >= MAX_ERRORS) => Keep(fields)
  BY Zenon DEF BadRwIntr
<1> HIDE DEF fields
<1>4. CASE fields.errors >= MAX_ERRORS
  <2>0. fields.errors = MAX_ERRORS
    BY <1>0, <1>1, <1>4, MaxErrorsNat
  <2>1. /\ TableOK'
        /\ \A r \in Reqs : status'[r] = "queued" =>
              /\ status[r] = "queued" /\ r # CURRENT
              /\ request'[r] = request[r]
        /\ \A r \in Reqs \ {CURRENT} : status'[r] = status[r] /\ request'[r] = request[r]
        /\ status'[CURRENT] = "failed"
        /\ request'[CURRENT] = fields
        /\ queue' # <<>> =>
              /\ Head(queue') \in Reqs \ {CURRENT}
              /\ status[Head(queue')] = "queued"
              /\ request'[Head(queue')] = request[Head(queue')]
    <3>1. /\ request' = [request EXCEPT ![CURRENT] = fields]
          /\ status' = [status EXCEPT ![CURRENT] = "failed"]
          /\ queue' = Tail(queue)
      BY <1>3, <1>4 DEF EndRequest
    <3> QED BY <1>0, <1>1, <3>1, EndRequestTable
  <2>2. GivenUpAfterMaxErrors'
    BY <2>0, <2>1 DEF GivenUpAfterMaxErrors, DriverInv
  <2>3. Progress'
    <3> SUFFICES ASSUME NEW r \in Reqs, status'[r] = "queued"
                 PROVE  /\ request'[r].nr + request'[r].done = 2
                        /\ request'[r].sector >= request'[r].done
                        /\ request'[r].done # 1
      BY DEF Progress
    <3> QED BY <2>1, OthersUntouched
  <2>4. queue' # <<>> => cur'.done # 1
    BY <2>1, OthersUntouched DEF cur, CURRENT
  <2> QED BY <1>2, <2>1, <2>2, <2>3, <2>4
<1>5. CASE ~(fields.errors >= MAX_ERRORS)
  <2>0. fields.errors < MAX_ERRORS /\ fields.nr > 0
    BY <1>0, <1>1, <1>5, MaxErrorsNat
  <2>1. /\ TableOK'
        /\ status' = status /\ queue' = queue
        /\ request'[CURRENT] = fields
        /\ \A r \in Reqs \ {CURRENT} : request'[r] = request[r]
    BY <1>0, <1>1, <1>3, <1>5, <2>0, KeepTable
  <2>2. GivenUpAfterMaxErrors'
    BY <1>0, <2>1 DEF GivenUpAfterMaxErrors, DriverInv
  <2>3. Progress'
    <3> SUFFICES ASSUME NEW r \in Reqs, status[r] = "queued"
                 PROVE  /\ request'[r].nr + request'[r].done = 2
                        /\ request'[r].sector >= request'[r].done
                        /\ request'[r].done = 1 =>
                             CURRENT' = r /\ buf'[r][0] = disk'[FirstSector(r)']
      BY <2>1 DEF Progress
    <3>1. CASE r = CURRENT
      <4>1. FirstSector(CURRENT)' = FirstSector(CURRENT)
        BY <1>0, <1>1, <2>1 DEF FirstSector, CURRENT
      <4>2. CURRENT' = CURRENT
        BY <2>1 DEF CURRENT
      <4>3. request'[r].done = cur.done /\ request'[r].nr = cur.nr
              /\ request'[r].sector = cur.sector
        BY <1>1, <2>1, <3>1
      <4>4. FirstSector(r)' = FirstSector(CURRENT)
        BY <1>0, <1>1, <2>1, <3>1 DEF FirstSector
      <4> QED BY <1>0, <3>1, <4>2, <4>3, <4>4
    <3>2. CASE r # CURRENT
      BY <2>1, <3>2, OthersUntouched
    <3> QED BY <3>1, <3>2
  <2>4. cur' = fields
    BY <2>1 DEF cur, CURRENT
  <2> QED BY <1>0, <1>1, <1>2, <2>1, <2>2, <2>3, <2>4
<1> QED BY <1>4, <1>5

(* The rest of the type invariant.                                          *)
LEMMA Parts ==
  /\ TypeOK <=>
       /\ TableOK
       /\ buf \in [Reqs -> [0 .. 1 -> Int]]
       /\ do_hd \in Handlers
       /\ reset \in BOOLEAN /\ recalibrate \in BOOLEAN
       /\ pc \in {"idle", "run", "panic"}
       /\ drive.cmd \in DriveCommands
       /\ disk \in [0 .. (NrSectors - 1) -> Int]
  /\ TypeOK' <=>
       /\ TableOK'
       /\ buf' \in [Reqs -> [0 .. 1 -> Int]]
       /\ do_hd' \in Handlers
       /\ reset' \in BOOLEAN /\ recalibrate' \in BOOLEAN
       /\ pc' \in {"idle", "run", "panic"}
       /\ drive'.cmd \in DriveCommands
       /\ disk' \in [0 .. (NrSectors - 1) -> Int]
BY DEF TypeOK, TableOK

(* The drive without a command.                                             *)
LEMMA IdleFacts == Idle \in DriveRecords /\ Idle.cmd = "none"
BY DEF Idle, DriveRecords, DriveCommands, Junk

(* A step that leaves table, list, buffers and disk alone.                  *)
LEMMA TableUnchanged ==
  ASSUME DriverInv, UNCHANGED <<drivervars, disk>>
  PROVE  /\ TableOK' /\ GivenUpAfterMaxErrors' /\ Progress'
         /\ buf' \in [Reqs -> [0 .. 1 -> Int]]
         /\ disk' \in [0 .. (NrSectors - 1) -> Int]
         /\ CURRENT' = CURRENT /\ cur' = cur
<1>1. request' = request /\ status' = status /\ buf' = buf /\ queue' = queue /\ disk' = disk
  BY DEF drivervars
<1>2. TableOK' /\ buf' \in [Reqs -> [0 .. 1 -> Int]]
        /\ disk' \in [0 .. (NrSectors - 1) -> Int]
  BY <1>1, Parts DEF DriverInv, InStep, TableOK
<1>3. GivenUpAfterMaxErrors'
  BY <1>1 DEF DriverInv, GivenUpAfterMaxErrors
<1>4. Progress'
  BY <1>1 DEF DriverInv, Progress, CURRENT, FirstSector
<1> QED BY <1>1, <1>2, <1>3, <1>4 DEF cur, CURRENT

(* do_hd_request() with a command for the controller.                       *)
LEMMA HdOutStep ==
  ASSUME DriverInv, Start, UNCHANGED <<drivervars, disk>>,
         NEW command \in DriveRecords, NEW handler \in Handlers,
         command.cmd # "none",
         HdOut(command, handler),
         reset' \in BOOLEAN, recalibrate' \in BOOLEAN,
         \/ command.cmd \in {"specify", "restore"} /\ handler = "recal_intr"
         \/ /\ handler = (IF command.cmd = "read" THEN "read_intr" ELSE "write_intr")
            /\ command.cmd = cur.cmd
            /\ command.at = hd[cur.dev].start_sect + cur.sector
            /\ command.left = cur.nr
            /\ command.cmd = "write" => command.data = buf[CURRENT][cur.done]
  PROVE  DriverInv'
<1>0. /\ TableOK' /\ GivenUpAfterMaxErrors' /\ Progress'
      /\ buf' \in [Reqs -> [0 .. 1 -> Int]]
      /\ disk' \in [0 .. (NrSectors - 1) -> Int]
      /\ CURRENT' = CURRENT /\ cur' = cur
  BY TableUnchanged
<1>1. queue' = queue /\ buf' = buf /\ queue # <<>> /\ pc = "run"
  BY DEF drivervars, Start
<1>2. drive = Idle /\ do_hd \in Handlers
  BY <1>1 DEF DriverInv, DriveKnown, InStep, TypeOK
<1>3. cur.sector - cur.done + 2 =< hd[cur.dev].nr_sects
  <2>1. cur.sector + 2 =< hd[cur.dev].nr_sects /\ cur.dev \in Devs
    BY <1>1, CurrentProgress DEF Start, InRange, cur, RequestRecords
  <2>2. cur.sector \in Nat /\ cur.done \in 0 .. 1
    BY <1>1, CurrentProgress
  <2>3. hd[cur.dev].nr_sects \in Nat
    BY <2>1, HdAssumption
  <2> QED BY <2>1, <2>2, <2>3
<1>4. cur.done = 1 => cur.errors > 0
  BY <1>1 DEF DriverInv, RetryAfterError
<1>5. CASE drive' = command /\ do_hd' = handler /\ pc' = "idle"
  <2>1. drive' \in DriveRecords /\ drive'.cmd \in DriveCommands
    BY <1>5 DEF DriveRecords
  <2>2. TypeOK'
    BY <1>0, <1>5, <2>1, Parts
  <2>3. CommandFits'
    BY <1>0, <1>1, <1>5 DEF CommandFits
  <2>4. drive' # Idle
    BY <1>5, IdleFacts
  <2>5. NeverStalled' /\ DriveKnown'
    BY <1>5, <2>1, <2>4 DEF NeverStalled, DriveKnown
  <2>6. InsidePartition' /\ RetryAfterError'
    BY <1>0, <1>3, <1>4 DEF InsidePartition, RetryAfterError
  <2> QED BY <1>0, <2>2, <2>3, <2>5, <2>6 DEF DriverInv, InStep
<1>6. CASE pc' = "panic" /\ UNCHANGED <<drive, do_hd>>
  <2>1. TypeOK'
    BY <1>0, <1>2, <1>6, Parts, IdleFacts DEF DriveRecords
  <2>2. CommandFits' /\ NeverStalled' /\ DriveKnown' /\ InsidePartition' /\ RetryAfterError'
    BY <1>2, <1>6, IdleFacts
    DEF CommandFits, NeverStalled, DriveKnown, InsidePartition, RetryAfterError
  <2> QED BY <1>0, <2>1, <2>2 DEF DriverInv, InStep
<1> QED BY <1>5, <1>6 DEF HdOut

(* A step back into do_hd_request(), or on in it: the drive is idle, and    *)
(* whoever is current is in its first sector or comes from an error.        *)
LEMMA RunStep ==
  ASSUME DriverInv, TableOK', GivenUpAfterMaxErrors', Progress',
         buf' \in [Reqs -> [0 .. 1 -> Int]],
         disk' \in [0 .. (NrSectors - 1) -> Int],
         do_hd' \in Handlers, reset' \in BOOLEAN, recalibrate' \in BOOLEAN,
         drive' = Idle,
         \/ pc' = "run" /\ (queue' # <<>> /\ cur'.done = 1 => cur'.errors > 0)
         \/ pc' = "idle" /\ queue' = <<>>
  PROVE  DriverInv'
<1>1. TypeOK'
  BY Parts, IdleFacts DEF DriveRecords
<1>2. CommandFits' /\ NeverStalled' /\ DriveKnown' /\ InsidePartition' /\ RetryAfterError'
  BY IdleFacts DEF CommandFits, NeverStalled, DriveKnown, InsidePartition, RetryAfterError
<1> QED BY <1>1, <1>2 DEF DriverInv, InStep

(* make_request(): a new request changes nothing for those already queued.  *)
LEMMA NewRequestStep ==
  ASSUME DriverInv,
         NEW r \in Reqs, NEW cmd \in Commands, NEW d \in Devs, NEW b \in Blocks,
         NewRequest(r, cmd, d, b)
  PROVE  DriverInv'
<1>0. TableOK /\ TypeOK
  BY Parts DEF DriverInv, InStep
<1>1. /\ TableOK'
      /\ status[r] # "queued"
      /\ request'[r] = [cmd |-> cmd, dev |-> d, sector |-> 2 * b, nr |-> 2,
                        done |-> 0, errors |-> 0]
      /\ status'[r] = "queued"
      /\ \A u \in Reqs \ {r} : status'[u] = status[u] /\ request'[u] = request[u]
      /\ queue' # <<>> /\ CURRENT' = IF queue = <<>> THEN r ELSE CURRENT
  BY <1>0, NewRequestTable
<1>2. /\ buf' \in [Reqs -> [0 .. 1 -> Int]]
      /\ \A u \in Reqs \ {r} : buf'[u] = buf[u]
  <2>1. (IF cmd = "write" THEN DataOf(r) ELSE [h \in 0 .. 1 |-> Junk]) \in [0 .. 1 -> Int]
    BY HdAssumption DEF DataOf, Junk
  <2> QED BY <1>0, <2>1 DEF NewRequest, TypeOK
<1>3. /\ UNCHANGED <<do_hd, reset, recalibrate, drive, disk>>
      /\ pc = "idle"
      /\ pc' = IF queue = <<>> THEN "run" ELSE "idle"
  BY DEF NewRequest
<1>4. queue # <<>> => CURRENT \in Reqs /\ status[CURRENT] = "queued" /\ cur = request[CURRENT]
  BY <1>0, CurrentFacts DEF cur
<1>5. queue # <<>> => CURRENT' = CURRENT /\ cur' = cur /\ CURRENT # r
  BY <1>1, <1>4 DEF cur
<1>6. queue = <<>> => CURRENT' = r /\ cur' = request'[r]
  BY <1>1 DEF cur
<1>7. TypeOK'
  BY <1>0, <1>1, <1>2, <1>3, Parts
<1>8. drive # Idle => queue # <<>>
  BY DEF DriverInv, InStep, CommandFits
<1>9. CommandFits'
  <2> SUFFICES ASSUME drive # Idle PROVE CommandFits'
    BY <1>3 DEF CommandFits
  <2>1. queue # <<>> /\ buf'[CURRENT'] = buf[CURRENT]
    BY <1>2, <1>4, <1>5, <1>8
  <2> QED BY <1>1, <1>3, <1>5, <2>1 DEF CommandFits, DriverInv, InStep
<1>10. NeverStalled'
  BY <1>3 DEF NeverStalled, DriverInv, InStep
<1>11. GivenUpAfterMaxErrors'
  BY <1>1 DEF GivenUpAfterMaxErrors, DriverInv
<1>12. DriveKnown'
  BY <1>3, <1>8 DEF DriveKnown, DriverInv
<1>13. Progress'
  <2> SUFFICES ASSUME NEW u \in Reqs, status'[u] = "queued"
               PROVE  /\ request'[u].nr + request'[u].done = 2
                      /\ request'[u].sector >= request'[u].done
                      /\ request'[u].done = 1 =>
                           CURRENT' = u /\ buf'[u][0] = disk'[FirstSector(u)']
    BY DEF Progress
  <2>1. CASE u = r
    <3>1. b \in Nat
      BY HdAssumption
    <3> QED BY <1>1, <2>1, <3>1
  <2>2. CASE u # r
    <3>1. status[u] = "queued" /\ request'[u] = request[u] /\ buf'[u] = buf[u]
      BY <1>1, <1>2, <2>2
    <3>2. FirstSector(u)' = FirstSector(u)
      BY <3>1 DEF FirstSector
    <3>3. queue # <<>>
      BY <1>0, <3>1 DEF TableOK
    <3> QED BY <1>3, <1>5, <3>1, <3>2, <3>3 DEF DriverInv, Progress
  <2> QED BY <2>1, <2>2
<1>14. InsidePartition'
  BY <1>3, <1>5, <1>8 DEF InsidePartition, DriverInv
<1>15. RetryAfterError'
  <2>1. CASE queue = <<>>
    BY <1>1, <1>6, <2>1 DEF RetryAfterError
  <2>2. CASE queue # <<>>
    BY <1>3, <1>5, <2>2 DEF RetryAfterError, DriverInv
  <2> QED BY <2>1, <2>2
<1> QED BY <1>7, <1>9, <1>10, <1>11, <1>12, <1>13, <1>14, <1>15 DEF DriverInv, InStep

(* Every round of do_hd_request().                                          *)
LEMMA DoHdRequestStep ==
  ASSUME DriverInv, DoHdRequest
  PROVE  DriverInv'
<1>0. /\ TypeOK /\ TableOK /\ do_hd \in Handlers
      /\ reset \in BOOLEAN /\ recalibrate \in BOOLEAN
      /\ pc = "run" => drive = Idle
      /\ buf \in [Reqs -> [0 .. 1 -> Int]]
      /\ disk \in [0 .. (NrSectors - 1) -> Int]
  BY Parts DEF DriverInv, InStep, DriveKnown
<1>1. CASE NoMoreRequests
  <2>1. UNCHANGED <<drivervars, disk>> /\ UNCHANGED <<do_hd, reset, recalibrate, drive>>
          /\ pc' = "idle" /\ queue' = <<>> /\ drive' = Idle
    BY <1>0, <1>1 DEF NoMoreRequests, drivervars
  <2> QED BY <1>0, <2>1, TableUnchanged, RunStep
<1>2. CASE OutOfRange
  <2>0. /\ pc = "run" /\ queue # <<>>
        /\ UNCHANGED <<buf, do_hd, reset, recalibrate, pc, drive, disk>>
        /\ request' = [request EXCEPT ![CURRENT] = cur]
        /\ status' = [status EXCEPT ![CURRENT] = "failed"]
        /\ queue' = Tail(queue)
    BY <1>2 DEF OutOfRange, EndRequest
  <2>1. /\ CURRENT \in Reqs /\ cur = request[CURRENT] /\ cur \in RequestRecords
        /\ cur.done \in 0 .. 1 /\ cur.errors \in 0 .. (MAX_ERRORS - 1) /\ cur.sector \in Nat
    BY <2>0, CurrentProgress
  <2>2. /\ TableOK'
        /\ \A r \in Reqs : status'[r] = "queued" =>
              /\ status[r] = "queued" /\ r # CURRENT
              /\ request'[r] = request[r]
        /\ \A r \in Reqs \ {CURRENT} : status'[r] = status[r] /\ request'[r] = request[r]
        /\ status'[CURRENT] = "failed"
        /\ request'[CURRENT] = cur
        /\ queue' # <<>> =>
              /\ Head(queue') \in Reqs \ {CURRENT}
              /\ status[Head(queue')] = "queued"
              /\ request'[Head(queue')] = request[Head(queue')]
    BY <1>0, <2>0, <2>1, EndRequestTable
  <2>3. GivenUpAfterMaxErrors'
    <3>1. ~(cur.sector + 2 =< hd[cur.dev].nr_sects) /\ cur.dev \in Devs
      BY <1>2, <2>1 DEF OutOfRange, InRange, RequestRecords
    <3>2. hd[cur.dev].nr_sects \in Nat
      BY <3>1, HdAssumption
    <3>3. cur.done = 1 => cur.errors > 0
      BY <2>0 DEF DriverInv, RetryAfterError
    <3>4. cur.sector - cur.done =< hd[cur.dev].nr_sects - 2 =>
            cur.errors > 0 /\ cur.done = 1 /\ cur.sector - 1 = hd[cur.dev].nr_sects - 2
      BY <2>1, <3>1, <3>2, <3>3
    <3> SUFFICES ASSUME NEW r \in Reqs, status'[r] = "failed",
                        request'[r].sector - request'[r].done
                          =< hd[request'[r].dev].nr_sects - 2
                 PROVE  \/ request'[r].errors = MAX_ERRORS
                        \/ /\ request'[r].errors > 0 /\ request'[r].done = 1
                           /\ request'[r].sector - 1 = hd[request'[r].dev].nr_sects - 2
      BY DEF GivenUpAfterMaxErrors
    <3>5. CASE r = CURRENT
      BY <2>2, <3>4, <3>5
    <3>6. CASE r # CURRENT
      BY <2>2, <3>6 DEF DriverInv, GivenUpAfterMaxErrors
    <3> QED BY <3>5, <3>6
  <2>4. Progress'
    BY <2>2, OthersUntouched DEF Progress
  <2>5. queue' # <<>> => cur'.done # 1
    BY <2>2, OthersUntouched DEF cur, CURRENT
  <2> QED BY <1>0, <2>0, <2>2, <2>3, <2>4, <2>5, RunStep
<1>3. CASE StartReset
  <2> DEFINE c == [Idle EXCEPT !.cmd = "specify"]
  <2>1. c \in DriveRecords /\ c.cmd = "specify"
    BY DEF Idle, DriveRecords, DriveCommands, Junk
  <2>2. Start /\ UNCHANGED <<drivervars, disk>> /\ reset' \in BOOLEAN /\ recalibrate' \in BOOLEAN
    BY <1>3 DEF StartReset
  <2>3. HdOut(c, "recal_intr")
    BY <1>3 DEF StartReset
  <2>4. "recal_intr" \in Handlers
    BY DEF Handlers
  <2> HIDE DEF c
  <2> QED BY <2>1, <2>2, <2>3, <2>4, HdOutStep
<1>4. CASE StartRecalibrate
  <2> DEFINE c == [Idle EXCEPT !.cmd = "restore"]
  <2>1. c \in DriveRecords /\ c.cmd = "restore"
    BY DEF Idle, DriveRecords, DriveCommands, Junk
  <2>2. Start /\ UNCHANGED <<drivervars, disk>> /\ reset' \in BOOLEAN /\ recalibrate' \in BOOLEAN
    BY <1>0, <1>4 DEF StartRecalibrate
  <2>3. HdOut(c, "recal_intr")
    BY <1>4 DEF StartRecalibrate
  <2>4. "recal_intr" \in Handlers
    BY DEF Handlers
  <2> HIDE DEF c
  <2> QED BY <2>1, <2>2, <2>3, <2>4, HdOutStep
<1>5. ASSUME Start, NEW data \in Int
      PROVE  /\ Transfer(data) \in DriveRecords
             /\ Transfer(data).cmd = cur.cmd
             /\ Transfer(data).at = hd[cur.dev].start_sect + cur.sector
             /\ Transfer(data).left = cur.nr
             /\ Transfer(data).data = data
  <2>1. cur \in RequestRecords
    BY <1>5, CurrentProgress DEF Start
  <2>2. cur.sector \in Nat /\ hd[cur.dev].start_sect \in Nat /\ cur.nr \in Int /\ cur.cmd \in DriveCommands
    BY <2>1, HdAssumption DEF RequestRecords, DriveCommands
  <2>3. SectorAt(Locate(cur.sector + hd[cur.dev].start_sect))
          = hd[cur.dev].start_sect + cur.sector
    BY <2>2, LocateInverse
  <2> QED BY <2>2, <2>3 DEF Transfer, DriveRecords
<1>6. CASE StartRead
  <2>1. Start /\ UNCHANGED <<drivervars, disk>> /\ UNCHANGED <<reset, recalibrate>>
          /\ cur.cmd = "read"
    BY <1>6 DEF StartRead
  <2>2. HdOut(Transfer(Junk), "read_intr") /\ "read_intr" \in Handlers /\ Junk \in Int
    BY <1>6 DEF StartRead, Handlers, Junk
  <2> QED BY <1>0, <1>5, <2>1, <2>2, HdOutStep
<1>7. CASE StartWrite
  <2>1. Start /\ UNCHANGED <<drivervars, disk>> /\ UNCHANGED <<reset, recalibrate>>
          /\ cur.cmd = "write"
    BY <1>7 DEF StartWrite
  <2>2. HdOut(Transfer(buf[CURRENT][cur.done]), "write_intr") /\ "write_intr" \in Handlers
    BY <1>7 DEF StartWrite, Handlers
  <2>3. buf[CURRENT][cur.done] \in Int
    BY <1>0, <2>1, CurrentProgress DEF Start
  <2> QED BY <1>0, <1>5, <2>1, <2>2, <2>3, HdOutStep
<1>8. CASE StartWriteRefused
  <2>1. /\ pc' = "run" /\ pc = "run" /\ queue # <<>> /\ BadRwIntr
        /\ buf' = buf /\ disk' = disk /\ drive' = drive /\ recalibrate' = recalibrate
        /\ do_hd' \in Handlers
    BY <1>8 DEF StartWriteRefused, Start, Handlers
  <2>2. /\ TableOK' /\ GivenUpAfterMaxErrors' /\ Progress'
        /\ reset' \in BOOLEAN
        /\ queue' # <<>> /\ cur'.done = 1 => cur'.errors > 0
    BY <2>1, BadRwIntrEffect
  <2> QED BY <1>0, <2>1, <2>2, RunStep
<1> QED BY <1>1, <1>2, <1>3, <1>4, <1>6, <1>7, <1>8 DEF DoHdRequest
-----------------------------------------------------------------------------
(* An interrupt finds the request it is about; a transfer is of a sector    *)
(* inside the partition and is not of the sector that lies behind it.       *)
LEMMA InterruptFacts ==
  ASSUME DriverInv, pc = "idle", drive # Idle
  PROVE  /\ queue # <<>>
         /\ do_hd = "recal_intr" => drive.cmd \in {"specify", "restore"}
         /\ do_hd \in {"read_intr", "write_intr"} =>
              /\ drive.cmd = (IF do_hd = "read_intr" THEN "read" ELSE "write")
              /\ cur.cmd = drive.cmd
              /\ drive.left = cur.nr
              /\ drive.at = FirstSector(CURRENT) + cur.done
              /\ drive.at \in 0 .. (NrSectors - 1)
              /\ drive.at < hd[cur.dev].start_sect + hd[cur.dev].nr_sects
              /\ drive.cmd = "write" => drive.data = buf[CURRENT][cur.done]
         /\ FirstSector(CURRENT) \in 0 .. (NrSectors - 1)
<1>1. /\ queue # <<>>
      /\ \/ drive.cmd \in {"specify", "restore"} /\ do_hd = "recal_intr"
         \/ /\ do_hd = (IF drive.cmd = "read" THEN "read_intr" ELSE "write_intr")
            /\ drive.cmd = cur.cmd
            /\ drive.at = hd[cur.dev].start_sect + cur.sector
            /\ drive.left = cur.nr
            /\ drive.cmd = "write" => drive.data = buf[CURRENT][cur.done]
  BY DEF DriverInv, InStep, CommandFits
<1>2. /\ cur \in RequestRecords /\ cur.sector \in Nat /\ cur.done \in 0 .. 1
      /\ cur.sector >= cur.done /\ cur = request[CURRENT]
  BY <1>1, CurrentProgress
<1>3. cur.cmd \in {"read", "write"} /\ cur.dev \in Devs
  BY <1>2 DEF RequestRecords, Commands
<1>4. /\ hd[cur.dev].start_sect \in Nat /\ hd[cur.dev].nr_sects \in Nat
      /\ hd[cur.dev].start_sect + hd[cur.dev].nr_sects =< NrSectors /\ NrSectors \in Nat
  BY <1>3, HdAssumption
<1>5. cur.sector - cur.done + 2 =< hd[cur.dev].nr_sects
  BY DEF DriverInv, InsidePartition
<1>6. FirstSector(CURRENT) = hd[cur.dev].start_sect + cur.sector - cur.done
  BY DEF FirstSector, cur
<1>7. FirstSector(CURRENT) \in 0 .. (NrSectors - 1)
  BY <1>2, <1>4, <1>5, <1>6
<1>8. ASSUME do_hd \in {"read_intr", "write_intr"}
      PROVE  /\ drive.cmd = (IF do_hd = "read_intr" THEN "read" ELSE "write")
             /\ cur.cmd = drive.cmd /\ drive.left = cur.nr
             /\ drive.at = hd[cur.dev].start_sect + cur.sector
             /\ drive.cmd = "write" => drive.data = buf[CURRENT][cur.done]
  BY <1>1, <1>3, <1>8
<1>9. ASSUME drive.at = hd[cur.dev].start_sect + cur.sector
      PROVE  /\ drive.at = FirstSector(CURRENT) + cur.done
             /\ drive.at \in 0 .. (NrSectors - 1)
             /\ drive.at < hd[cur.dev].start_sect + hd[cur.dev].nr_sects
  BY <1>2, <1>4, <1>5, <1>6, <1>9
<1> QED BY <1>1, <1>7, <1>8, <1>9

(* The drive changes at most the sector it is at, and only for a write.     *)
LEMMA WrittenFacts ==
  ASSUME disk \in [0 .. (NrSectors - 1) -> Int], drive \in DriveRecords,
         disk' \in Written(TRUE) \/ disk' \in Written(FALSE)
  PROVE  /\ disk' \in [0 .. (NrSectors - 1) -> Int]
         /\ drive.cmd # "write" => disk' = disk
         /\ \A x \in 0 .. (NrSectors - 1) : x # drive.at => disk'[x] = disk[x]
         /\ drive.cmd = "write" /\ disk' \in Written(TRUE)
              /\ drive.at \in 0 .. (NrSectors - 1) => disk'[drive.at] = drive.data
<1>1. CASE drive.cmd # "write"
  BY <1>1 DEF Written
<1>2. CASE drive.cmd = "write"
  <2>1. PICK v \in {drive.data} \union {disk[drive.at], drive.data, Junk} :
          disk' = [disk EXCEPT ![drive.at] = v]
    BY <1>2 DEF Written
  <2>2. drive.data \in Int /\ drive.at \in Int /\ Junk \in Int
    BY DEF DriveRecords, Junk
  <2>3. drive.at \in 0 .. (NrSectors - 1) => v \in Int
    BY <2>1, <2>2
  <2>4. disk' \in [0 .. (NrSectors - 1) -> Int]
    BY <2>1, <2>3
  <2>5. disk' \in Written(TRUE) => disk' = [disk EXCEPT ![drive.at] = drive.data]
    BY <1>2 DEF Written
  <2> QED BY <1>2, <2>1, <2>4, <2>5
<1> QED BY <1>1, <1>2

(* An interrupt with an error.                                              *)
LEMMA FailedStep ==
  ASSUME DriverInv, pc = "idle", drive # Idle,
         do_hd \in {"read_intr", "write_intr", "recal_intr"}, Failed
  PROVE  DriverInv'
<1>1. /\ queue # <<>>
      /\ do_hd = "recal_intr" => drive.cmd \in {"specify", "restore"}
      /\ do_hd \in {"read_intr", "write_intr"} =>
           drive.at = FirstSector(CURRENT) + cur.done
      /\ FirstSector(CURRENT) \in 0 .. (NrSectors - 1)
  BY InterruptFacts
<1>2. /\ drive \in DriveRecords /\ disk \in [0 .. (NrSectors - 1) -> Int]
      /\ buf \in [Reqs -> [0 .. 1 -> Int]] /\ recalibrate \in BOOLEAN
  BY Parts DEF DriverInv, InStep, DriveKnown
<1>3. /\ disk' \in [0 .. (NrSectors - 1) -> Int]
      /\ drive.cmd # "write" => disk' = disk
      /\ \A x \in 0 .. (NrSectors - 1) : x # drive.at => disk'[x] = disk[x]
  <2>1. disk' \in Written(FALSE)
    BY Zenon DEF Failed
  <2> QED BY <1>2, <2>1, WrittenFacts
<1>4. cur.done = 1 => disk'[FirstSector(CURRENT)] = disk[FirstSector(CURRENT)]
  <2>1. CASE do_hd = "recal_intr"
    BY <1>1, <1>3, <2>1
  <2>2. CASE do_hd # "recal_intr"
    <3>1. cur.done = 1 => FirstSector(CURRENT) # drive.at
      BY <1>1, <2>2
    <3> QED BY <1>1, <1>3, <3>1
  <2> QED BY <2>1, <2>2
<1>5. /\ BadRwIntr /\ buf' = buf /\ recalibrate' = recalibrate
      /\ do_hd' \in Handlers /\ pc' = "run" /\ drive' = Idle
  BY DEF Failed, Handlers
<1>6. /\ TableOK' /\ GivenUpAfterMaxErrors' /\ Progress'
      /\ reset' \in BOOLEAN
      /\ queue' # <<>> /\ cur'.done = 1 => cur'.errors > 0
  BY <1>1, <1>4, <1>5, BadRwIntrEffect
<1> QED BY <1>2, <1>3, <1>5, <1>6, RunStep

(* A sector of the current request is done, with another one to follow: the *)
(* drive and the driver count it alike.                                     *)
LEMMA SectorDone ==
  ASSUME DriverInv, pc = "idle", drive # Idle, do_hd \in {"read_intr", "write_intr"},
         cur.nr # 1,
         NEW fields \in RequestRecords, Keep(fields),
         fields.errors < MAX_ERRORS, fields.nr = cur.nr - 1, fields.done = cur.done + 1,
         fields.sector = cur.sector + 1, fields.dev = cur.dev, fields.cmd = cur.cmd,
         buf' \in [Reqs -> [0 .. 1 -> Int]],
         disk' \in [0 .. (NrSectors - 1) -> Int],
         buf'[CURRENT][0] = disk'[FirstSector(CURRENT)],
         UNCHANGED <<do_hd, pc, reset, recalibrate>>,
         drive' \in DriveRecords, drive'.cmd = drive.cmd,
         drive'.at = drive.at + 1, drive'.left = drive.left - 1,
         drive.cmd = "write" => drive'.data = buf'[CURRENT][fields.done]
  PROVE  DriverInv'
<1>0. /\ queue # <<>>
      /\ drive.cmd = (IF do_hd = "read_intr" THEN "read" ELSE "write")
      /\ cur.cmd = drive.cmd /\ drive.left = cur.nr
      /\ drive.at = FirstSector(CURRENT) + cur.done
      /\ FirstSector(CURRENT) \in 0 .. (NrSectors - 1)
  BY InterruptFacts
<1>1. /\ TableOK /\ CURRENT \in Reqs /\ status[CURRENT] = "queued"
      /\ cur = request[CURRENT] /\ cur \in RequestRecords
      /\ cur.nr + cur.done = 2 /\ cur.nr \in 1 .. 2 /\ cur.done \in 0 .. 1
      /\ cur.sector \in Nat /\ cur.sector >= cur.done
  BY <1>0, CurrentProgress
<1>2. cur.nr = 2 /\ cur.done = 0 /\ fields.nr = 1 /\ fields.done = 1
  BY <1>1
<1>3. /\ TableOK'
      /\ status' = status /\ queue' = queue
      /\ request'[CURRENT] = fields
      /\ \A r \in Reqs \ {CURRENT} : request'[r] = request[r]
  BY <1>0, <1>1, <1>2, KeepTable
<1>4. CURRENT' = CURRENT /\ cur' = fields
  BY <1>3 DEF CURRENT, cur
<1>5. hd[cur.dev].start_sect \in Nat
  <2>1. cur.dev \in Devs
    BY <1>1 DEF RequestRecords
  <2> QED BY <2>1, HdAssumption
<1>6. FirstSector(CURRENT) = hd[cur.dev].start_sect + cur.sector - cur.done
  BY DEF FirstSector, cur
<1>7. FirstSector(CURRENT)' = FirstSector(CURRENT)
  <2>1. FirstSector(CURRENT)' = hd[cur.dev].start_sect + (cur.sector + 1) - 1
    BY <1>2, <1>3, <1>4 DEF FirstSector
  <2> QED BY <1>1, <1>2, <1>5, <1>6, <2>1
<1>8. TypeOK'
  <2>1. drive'.cmd \in DriveCommands
    BY DEF DriveRecords
  <2> QED BY <1>3, <2>1, Parts DEF DriverInv, InStep
<1>9. CommandFits'
  <2>1. drive'.at = hd[cur.dev].start_sect + (cur.sector + 1)
    BY <1>0, <1>1, <1>2, <1>5, <1>6
  <2>2. drive'.left = 1
    BY <1>0, <1>2
  <2> QED BY <1>0, <1>2, <1>3, <1>4, <2>1, <2>2 DEF CommandFits
<1>10. drive' # Idle
  BY <1>0, IdleFacts
<1>11. NeverStalled' /\ DriveKnown'
  BY <1>0, <1>10 DEF NeverStalled, DriveKnown
<1>12. GivenUpAfterMaxErrors'
  BY <1>1, <1>3 DEF GivenUpAfterMaxErrors, DriverInv
<1>13. Progress'
  <2> SUFFICES ASSUME NEW r \in Reqs, status[r] = "queued"
               PROVE  /\ request'[r].nr + request'[r].done = 2
                      /\ request'[r].sector >= request'[r].done
                      /\ request'[r].done = 1 =>
                           CURRENT' = r /\ buf'[r][0] = disk'[FirstSector(r)']
    BY <1>3 DEF Progress
  <2>1. CASE r = CURRENT
    <3>1. FirstSector(r)' = FirstSector(CURRENT)
      <4>1. FirstSector(r)' = hd[cur.dev].start_sect + (cur.sector + 1) - 1
        BY <1>2, <1>3, <2>1 DEF FirstSector
      <4> QED BY <1>1, <1>2, <1>5, <1>6, <4>1
    <3> QED BY <1>1, <1>2, <1>3, <1>4, <2>1, <3>1
  <2>2. CASE r # CURRENT
    BY <1>3, <2>2, OthersUntouched
  <2> QED BY <2>1, <2>2
<1>14. InsidePartition'
  <2>1. cur.sector - cur.done + 2 =< hd[cur.dev].nr_sects
    BY DEF DriverInv, InsidePartition
  <2> QED BY <1>1, <1>2, <1>4, <2>1 DEF InsidePartition
<1>15. RetryAfterError'
  BY <1>0 DEF RetryAfterError
<1> QED BY <1>8, <1>9, <1>11, <1>12, <1>13, <1>14, <1>15 DEF DriverInv, InStep

(* The last sector of the current request is done.                          *)
LEMMA LastSectorDone ==
  ASSUME DriverInv, pc = "idle", drive # Idle, do_hd \in {"read_intr", "write_intr"},
         NEW fields \in RequestRecords,
         request' = [request EXCEPT ![CURRENT] = fields],
         status' = [status EXCEPT ![CURRENT] = "ok"],
         queue' = Tail(queue),
         buf' \in [Reqs -> [0 .. 1 -> Int]],
         disk' \in [0 .. (NrSectors - 1) -> Int],
         do_hd' = "none", pc' = "run", drive' = Idle,
         UNCHANGED <<reset, recalibrate>>
  PROVE  DriverInv'
<1>0. queue # <<>> /\ TableOK
  BY InterruptFacts, CurrentProgress
<1>1. /\ TableOK'
      /\ \A r \in Reqs : status'[r] = "queued" =>
            /\ status[r] = "queued" /\ r # CURRENT
            /\ request'[r] = request[r]
      /\ \A r \in Reqs \ {CURRENT} : status'[r] = status[r] /\ request'[r] = request[r]
      /\ status'[CURRENT] = "ok"
      /\ queue' # <<>> =>
            /\ Head(queue') \in Reqs \ {CURRENT}
            /\ status[Head(queue')] = "queued"
            /\ request'[Head(queue')] = request[Head(queue')]
  BY <1>0, EndRequestTable
<1>2. GivenUpAfterMaxErrors'
  BY <1>1 DEF GivenUpAfterMaxErrors, DriverInv
<1>3. Progress'
  BY <1>1, OthersUntouched DEF Progress
<1>4. queue' # <<>> => cur'.done # 1
  BY <1>1, OthersUntouched DEF cur, CURRENT
<1>5. reset' \in BOOLEAN /\ recalibrate' \in BOOLEAN /\ do_hd' \in Handlers
  BY Parts DEF DriverInv, InStep, Handlers
<1> QED BY <1>1, <1>2, <1>3, <1>4, <1>5, RunStep

(* The drive's next sector.                                                 *)
LEMMA NextSectorFacts ==
  ASSUME drive \in DriveRecords
  PROVE  /\ drive.left = 1 => NextSector = Idle
         /\ drive.left = 2 =>
              /\ NextSector \in DriveRecords
              /\ NextSector.cmd = drive.cmd /\ NextSector.at = drive.at + 1
              /\ NextSector.left = drive.left - 1
              /\ \A x \in Int :
                   LET c == [NextSector EXCEPT !.data = x] IN
                   /\ c \in DriveRecords /\ c.cmd = drive.cmd /\ c.data = x
                   /\ c.at = drive.at + 1 /\ c.left = drive.left - 1
<1> DEFINE Step(d) == [d EXCEPT !.at = @ + 1, !.left = @ - 1, !.data = Junk]
<1>1. drive.left = 1 => NextSector = Idle
  <2>1. drive.left = 1 => ~(drive.left > 1)
    OBVIOUS
  <2> QED BY Zenon, <2>1 DEF NextSector
<1>2. drive.left = 2 => NextSector = Step(drive)
  <2>1. drive.left = 2 => drive.left > 1
    OBVIOUS
  <2> QED BY Zenon, <2>1 DEF NextSector
<1>3. ASSUME NEW d \in DriveRecords
      PROVE  /\ Step(d) \in DriveRecords /\ Step(d).cmd = d.cmd
             /\ Step(d).at = d.at + 1 /\ Step(d).left = d.left - 1
  <2>1. d.at + 1 \in Int /\ d.left - 1 \in Int /\ Junk \in Int
    BY DEF DriveRecords, Junk
  <2> QED BY <2>1 DEF DriveRecords
<1>4. ASSUME NEW d \in DriveRecords, NEW x \in Int
      PROVE  LET c == [d EXCEPT !.data = x] IN
             c \in DriveRecords /\ c.cmd = d.cmd /\ c.data = x /\ c.at = d.at /\ c.left = d.left
  BY DEF DriveRecords
<1> HIDE DEF Step
<1>5. ASSUME drive.left = 2
      PROVE  /\ NextSector \in DriveRecords
             /\ NextSector.cmd = drive.cmd /\ NextSector.at = drive.at + 1
             /\ NextSector.left = drive.left - 1
  BY <1>2, <1>3, <1>5
<1> QED BY <1>1, <1>4, <1>5

(* read_intr() after a sector that was read.                                *)
LEMMA ReadIntrStep ==
  ASSUME DriverInv, ReadIntr
  PROVE  DriverInv'
<1> DEFINE fields == [cur EXCEPT !.errors = 0, !.done = @ + 1,
                                 !.sector = @ + 1, !.nr = @ - 1]
<1>1. /\ pc = "idle" /\ drive # Idle /\ do_hd = "read_intr"
      /\ buf' = [buf EXCEPT ![CURRENT][cur.done] = disk[drive.at]]
      /\ drive' = NextSector /\ disk' = disk
      /\ UNCHANGED <<reset, recalibrate>>
  BY Zenon DEF ReadIntr, Interrupt
<1>2. /\ fields.nr # 0 => Keep(fields) /\ do_hd' = "read_intr" /\ pc' = pc
      /\ ~(fields.nr # 0) => EndRequest(fields, TRUE) /\ do_hd' = "none" /\ pc' = "run"
  BY Zenon DEF ReadIntr
<1>3. /\ queue # <<>> /\ drive.cmd = "read"
      /\ drive.left = cur.nr /\ drive.at = FirstSector(CURRENT) + cur.done
      /\ drive.at \in 0 .. (NrSectors - 1)
      /\ FirstSector(CURRENT) \in 0 .. (NrSectors - 1)
  BY <1>1, InterruptFacts
<1>4. /\ CURRENT \in Reqs /\ cur \in RequestRecords
      /\ cur.nr + cur.done = 2 /\ cur.nr \in 1 .. 2 /\ cur.done \in 0 .. 1
  BY <1>3, CurrentProgress
<1>5. /\ fields \in RequestRecords /\ fields.errors = 0
      /\ fields.nr = cur.nr - 1 /\ fields.done = cur.done + 1
      /\ fields.sector = cur.sector + 1 /\ fields.dev = cur.dev /\ fields.cmd = cur.cmd
  <2>1. cur \in RequestRecords /\ cur.nr > 0 /\ cur.done < 2 /\ 0 \in 0 .. MAX_ERRORS
    BY <1>4, MaxErrorsNat
  <2> QED BY <2>1, SectorFields
<1> HIDE DEF fields
<1>6. /\ drive \in DriveRecords /\ disk \in [0 .. (NrSectors - 1) -> Int]
      /\ buf \in [Reqs -> [0 .. 1 -> Int]]
  BY Parts DEF DriverInv, InStep, DriveKnown
<1>7. /\ buf' \in [Reqs -> [0 .. 1 -> Int]]
      /\ buf'[CURRENT][cur.done] = disk[drive.at]
  BY <1>1, <1>3, <1>4, <1>6
<1>8. CASE cur.nr = 1
  <2>1. /\ request' = [request EXCEPT ![CURRENT] = fields]
        /\ status' = [status EXCEPT ![CURRENT] = "ok"]
        /\ queue' = Tail(queue) /\ do_hd' = "none" /\ pc' = "run"
    BY <1>2, <1>5, <1>8 DEF EndRequest
  <2>2. drive' = Idle
    BY <1>1, <1>3, <1>6, <1>8, NextSectorFacts
  <2> QED BY <1>1, <1>5, <1>6, <1>7, <2>1, <2>2, LastSectorDone
<1>9. CASE cur.nr # 1
  <2>1. Keep(fields) /\ do_hd' = do_hd /\ pc' = pc
    BY <1>1, <1>2, <1>4, <1>5, <1>9
  <2>2. cur.nr = 2 /\ cur.done = 0
    BY <1>4, <1>9
  <2>3. drive' \in DriveRecords /\ drive'.cmd = drive.cmd
          /\ drive'.at = drive.at + 1 /\ drive'.left = drive.left - 1
    BY <1>1, <1>3, <1>6, <2>2, NextSectorFacts
  <2>4. buf'[CURRENT][0] = disk'[FirstSector(CURRENT)]
    BY <1>1, <1>3, <1>7, <2>2
  <2>5. disk' \in [0 .. (NrSectors - 1) -> Int] /\ do_hd \in {"read_intr", "write_intr"}
          /\ fields.errors < MAX_ERRORS
    BY <1>1, <1>5, <1>6, MaxErrorsNat
  <2> QED BY <1>1, <1>3, <1>5, <1>7, <1>9, <2>1, <2>3, <2>4, <2>5, SectorDone
<1> QED BY <1>8, <1>9

(* write_intr() after a sector that was written.                            *)
LEMMA WriteIntrStep ==
  ASSUME DriverInv, WriteIntr
  PROVE  DriverInv'
<1> DEFINE fields == [cur EXCEPT !.nr = @ - 1, !.sector = @ + 1, !.done = @ + 1]
           last == [cur EXCEPT !.nr = 0]
<1>1. /\ pc = "idle" /\ drive # Idle /\ do_hd = "write_intr"
      /\ disk' \in Written(TRUE)
      /\ UNCHANGED <<buf, reset, recalibrate>>
  BY Zenon DEF WriteIntr, Interrupt
<1>2. /\ cur.nr # 1 => /\ Keep(fields) /\ do_hd' = "write_intr" /\ pc' = pc
                       /\ drive' = [NextSector EXCEPT !.data = buf[CURRENT][fields.done]]
      /\ ~(cur.nr # 1) => /\ EndRequest(last, TRUE) /\ do_hd' = "none" /\ pc' = "run"
                          /\ drive' = NextSector
  BY Zenon DEF WriteIntr
<1>3. /\ queue # <<>> /\ drive.cmd = "write"
      /\ drive.left = cur.nr /\ drive.at = FirstSector(CURRENT) + cur.done
      /\ drive.at \in 0 .. (NrSectors - 1)
      /\ FirstSector(CURRENT) \in 0 .. (NrSectors - 1)
      /\ drive.data = buf[CURRENT][cur.done]
  BY <1>1, InterruptFacts
<1>4. /\ CURRENT \in Reqs /\ cur \in RequestRecords
      /\ cur.nr + cur.done = 2 /\ cur.nr \in 1 .. 2 /\ cur.done \in 0 .. 1
      /\ cur.errors \in 0 .. (MAX_ERRORS - 1)
  BY <1>3, CurrentProgress
<1>5. /\ fields \in RequestRecords /\ fields.errors = cur.errors
      /\ fields.nr = cur.nr - 1 /\ fields.done = cur.done + 1
      /\ fields.sector = cur.sector + 1 /\ fields.dev = cur.dev /\ fields.cmd = cur.cmd
      /\ last \in RequestRecords
  <2>1. cur \in RequestRecords /\ cur.nr > 0 /\ cur.done < 2
    BY <1>4
  <2> QED BY <2>1, WriteFields
<1>6. last \in RequestRecords
  BY <1>5
<1> HIDE DEF fields, last
<1>7. /\ drive \in DriveRecords /\ disk \in [0 .. (NrSectors - 1) -> Int]
      /\ buf \in [Reqs -> [0 .. 1 -> Int]]
  BY Parts DEF DriverInv, InStep, DriveKnown
<1>8. disk' \in [0 .. (NrSectors - 1) -> Int] /\ disk'[drive.at] = drive.data
  BY <1>1, <1>3, <1>7, WrittenFacts
<1>9. CASE cur.nr = 1
  <2>1. /\ request' = [request EXCEPT ![CURRENT] = last]
        /\ status' = [status EXCEPT ![CURRENT] = "ok"]
        /\ queue' = Tail(queue) /\ do_hd' = "none" /\ pc' = "run"
    BY <1>2, <1>9 DEF EndRequest
  <2>2. drive' = Idle
    BY <1>2, <1>3, <1>7, <1>9, NextSectorFacts
  <2> QED BY <1>1, <1>6, <1>7, <1>8, <2>1, <2>2, LastSectorDone
<1>10. CASE cur.nr # 1
  <2>1. Keep(fields) /\ do_hd' = do_hd /\ pc' = pc
          /\ drive' = [NextSector EXCEPT !.data = buf[CURRENT][fields.done]]
    BY <1>1, <1>2, <1>10
  <2>2. cur.nr = 2 /\ cur.done = 0
    BY <1>4, <1>10
  <2>3. buf[CURRENT][fields.done] \in Int
    BY <1>4, <1>5, <1>7, <2>2
  <2>4. drive' \in DriveRecords /\ drive'.cmd = drive.cmd
          /\ drive'.at = drive.at + 1 /\ drive'.left = drive.left - 1
          /\ drive'.data = buf'[CURRENT][fields.done]
    BY <1>1, <1>3, <1>7, <2>1, <2>2, <2>3, NextSectorFacts
  <2>5. buf'[CURRENT][0] = disk'[FirstSector(CURRENT)]
    BY <1>1, <1>3, <1>8, <2>2
  <2>6. buf' \in [Reqs -> [0 .. 1 -> Int]] /\ do_hd \in {"read_intr", "write_intr"}
          /\ fields.errors < MAX_ERRORS
    BY <1>1, <1>4, <1>5, <1>7, MaxErrorsNat
  <2> QED BY <1>1, <1>3, <1>5, <1>8, <1>10, <2>1, <2>4, <2>5, <2>6, SectorDone
<1> QED BY <1>9, <1>10

(* Every step of the driver and of the drive keeps the invariant.           *)
LEMMA DriverStep == DriverInv /\ [Next]_vars => DriverInv'
<1> SUFFICES ASSUME DriverInv, [Next]_vars PROVE DriverInv'
  OBVIOUS
<1>1. CASE UNCHANGED vars
  <2>1. UNCHANGED <<drivervars, disk>>
    BY <1>1 DEF vars, drivervars
  <2>2. TableOK' /\ GivenUpAfterMaxErrors' /\ Progress' /\ CURRENT' = CURRENT /\ cur' = cur
    BY <2>1, TableUnchanged
  <2>3. TypeOK'
    BY <1>1 DEF vars, DriverInv, InStep, TypeOK
  <2>4. CommandFits' /\ NeverStalled' /\ DriveKnown' /\ InsidePartition' /\ RetryAfterError'
    BY <1>1, <2>2 DEF vars, DriverInv, InStep, CommandFits, NeverStalled, DriveKnown,
                      InsidePartition, RetryAfterError
  <2> QED BY <2>2, <2>3, <2>4 DEF DriverInv, InStep
<1>2. ASSUME NEW r \in Reqs, NEW cmd \in Commands, NEW d \in Devs, NEW b \in Blocks,
             NewRequest(r, cmd, d, b)
      PROVE  DriverInv'
  BY <1>2, NewRequestStep
<1>3. CASE DoHdRequest
  BY <1>3, DoHdRequestStep
<1>4. CASE ReadIntr
  BY <1>4, ReadIntrStep
<1>5. CASE WriteIntr
  BY <1>5, WriteIntrStep
<1>6. CASE RecalIntr
  <2>1. /\ pc = "idle" /\ drive # Idle /\ do_hd = "recal_intr"
        /\ do_hd' = "none" /\ pc' = "run" /\ drive' = Idle
        /\ UNCHANGED <<drivervars, disk>> /\ UNCHANGED <<reset, recalibrate>>
    BY <1>6 DEF RecalIntr, Interrupt
  <2>2. /\ TableOK' /\ GivenUpAfterMaxErrors' /\ Progress'
        /\ buf' \in [Reqs -> [0 .. 1 -> Int]]
        /\ disk' \in [0 .. (NrSectors - 1) -> Int]
        /\ cur' = cur /\ queue' = queue
    BY <2>1, TableUnchanged DEF drivervars
  <2>3. drive.cmd \in {"specify", "restore"}
    BY <2>1, InterruptFacts
  <2>4. queue' # <<>> /\ cur'.done = 1 => cur'.errors > 0
    BY <2>2, <2>3 DEF DriverInv, RetryAfterError
  <2>5. do_hd' \in Handlers /\ reset' \in BOOLEAN /\ recalibrate' \in BOOLEAN
    BY <2>1, Parts DEF DriverInv, InStep, Handlers
  <2> QED BY <2>1, <2>2, <2>4, <2>5, RunStep
<1>7. CASE ReadError \/ WriteError \/ RecalError
  <2>1. /\ pc = "idle" /\ drive # Idle /\ Failed
        /\ do_hd \in {"read_intr", "write_intr", "recal_intr"}
    BY <1>7 DEF ReadError, WriteError, RecalError, Interrupt
  <2> QED BY <2>1, FailedStep
<1> QED BY <1>1, <1>2, <1>3, <1>4, <1>5, <1>6, <1>7 DEF Next, HdInterrupt
-----------------------------------------------------------------------------
(* The invariant holds in every reachable state.                            *)
LEMMA DriverInvariant == Spec => []DriverInv
<1>1. Init => DriverInv
  <2> SUFFICES ASSUME Init PROVE DriverInv
    OBVIOUS
  <2>1. queue = <<>> /\ Len(queue) = 0 /\ drive = Idle /\ pc = "idle"
    BY DEF Init
  <2>2. \A r \in Reqs : status[r] = "new"
    BY DEF Init
  <2>3. TableOK
    <3>1. ASSUME NEW r \in Reqs, NEW d \in Devs PROVE NoRequest \in RequestRecords
      <4>1. (CHOOSE x \in Devs : TRUE) \in Devs
        BY <3>1
      <4> QED BY <4>1, MaxErrorsNat DEF NoRequest, RequestRecords, Commands
    <3>2. request \in [Reqs -> RequestRecords]
      BY <3>1, HdAssumption DEF Init
    <3> QED BY <2>1, <2>2, <3>2 DEF Init, TableOK
  <2>4. TypeOK
    <3>1. buf \in [Reqs -> [0 .. 1 -> Int]] /\ disk \in [0 .. (NrSectors - 1) -> Int]
      BY DEF Init, Junk
    <3> QED BY <2>3, <3>1, Parts, IdleFacts DEF Init, Handlers, DriveRecords
  <2>5. GivenUpAfterMaxErrors /\ Progress
    BY <2>2 DEF GivenUpAfterMaxErrors, Progress
  <2> QED BY <2>1, <2>4, <2>5, IdleFacts
      DEF DriverInv, InStep, CommandFits, NeverStalled, DriveKnown, InsidePartition,
          RetryAfterError
<1> QED BY <1>1, DriverStep, PTL DEF Spec

(* For any geometry, partition table and number of requests, driver, list   *)
(* and drive are in step: the interrupt of a command finds its request, its *)
(* handler, sector and data, and no request waits without a command         *)
(* (hd.c:180-341).                                                          *)
THEOREM DriverInStep == Spec => []InStep
<1>1. DriverInv => InStep
  BY DEF DriverInv
<1> QED BY <1>1, DriverInvariant, PTL

(* A request for a block of its partition is given up only when its errors  *)
(* are used up, or at the retry of the last sector of the partition         *)
(* (hd.c:242-248, 304-309).                                                 *)
THEOREM GivenUpLate == Spec => []GivenUpAfterMaxErrors
<1>1. DriverInv => GivenUpAfterMaxErrors
  BY DEF DriverInv
<1> QED BY <1>1, DriverInvariant, PTL

(* Only the drive, on behalf of the current request, which is a write, ever *)
(* changes a sector, and it is one of the block's (hd.c:269-291, 304-341).  *)
THEOREM WritesInside == Spec => WritesStayInside
<1>1. DriverInv /\ [Next]_vars =>
        [\A s \in DOMAIN disk : disk'[s] # disk[s] =>
           /\ queue # <<>> /\ cur.cmd = "write"
           /\ s \in FirstSector(CURRENT) .. (FirstSector(CURRENT) + 1)
           /\ s < hd[cur.dev].start_sect + hd[cur.dev].nr_sects]_vars
  <2> SUFFICES ASSUME DriverInv, Next, NEW s \in DOMAIN disk, disk'[s] # disk[s]
               PROVE  /\ queue # <<>> /\ cur.cmd = "write"
                      /\ s \in FirstSector(CURRENT) .. (FirstSector(CURRENT) + 1)
                      /\ s < hd[cur.dev].start_sect + hd[cur.dev].nr_sects
    OBVIOUS
  <2>1. WriteIntr \/ ReadError \/ WriteError \/ RecalError
    BY DEF Next, NewRequest, DoHdRequest, HdInterrupt, NoMoreRequests, OutOfRange,
           StartReset, StartRecalibrate, StartRead, StartWrite, StartWriteRefused,
           ReadIntr, RecalIntr
  <2>2. /\ pc = "idle" /\ drive # Idle
        /\ do_hd \in {"read_intr", "write_intr", "recal_intr"}
        /\ disk' \in Written(TRUE) \/ disk' \in Written(FALSE)
    BY Zenon, <2>1 DEF WriteIntr, ReadError, WriteError, RecalError, Interrupt, Failed
  <2>3. drive \in DriveRecords /\ disk \in [0 .. (NrSectors - 1) -> Int]
    BY Parts DEF DriverInv, InStep, DriveKnown
  <2>4. drive.cmd = "write" /\ s = drive.at
    BY <2>2, <2>3, WrittenFacts
  <2>5. /\ queue # <<>> /\ cur.cmd = "write"
        /\ drive.at = FirstSector(CURRENT) + cur.done
        /\ FirstSector(CURRENT) \in 0 .. (NrSectors - 1)
        /\ drive.at < hd[cur.dev].start_sect + hd[cur.dev].nr_sects
    BY <2>2, <2>4, InterruptFacts
  <2>6. cur.done \in 0 .. 1
    BY <2>5, CurrentProgress
  <2> QED BY <2>4, <2>5, <2>6
<1> QED BY <1>1, DriverInvariant, PTL DEF Spec, WritesStayInside

(* end_request(1) is true: whatever errors, resets and retries came before, *)
(* a request that ends well leaves its buffer and its block on the disk     *)
(* equal (hd.c:250-291).                                                    *)
THEOREM OkIsTransferred == Spec => OkMeansTransferred
<1>1. DriverInv /\ [Next]_vars =>
        [\A r \in Reqs : status[r] = "queued" /\ status'[r] = "ok" =>
           \A h \in 0 .. 1 : buf'[r][h] = disk'[FirstSector(r) + h]]_vars
  <2> SUFFICES ASSUME DriverInv, Next, NEW r \in Reqs,
                      status[r] = "queued", status'[r] = "ok", NEW h \in 0 .. 1
               PROVE  buf'[r][h] = disk'[FirstSector(r) + h]
    OBVIOUS
  <2>0. /\ drive \in DriveRecords /\ disk \in [0 .. (NrSectors - 1) -> Int]
        /\ buf \in [Reqs -> [0 .. 1 -> Int]] /\ TableOK
    BY Parts DEF DriverInv, InStep, DriveKnown
  <2>1. status \in [Reqs -> {"new", "queued", "ok", "failed"}]
    BY <2>0 DEF TableOK
  <2>2. ASSUME NEW fields, Keep(fields) PROVE FALSE
    BY <2>2 DEF Keep
  <2>3. ASSUME NEW fields, EndRequest(fields, FALSE) PROVE FALSE
    BY <2>1, <2>3 DEF EndRequest
  <2>4. ~BadRwIntr
    BY Zenon, <2>2, <2>3 DEF BadRwIntr
  <2>5. ~OutOfRange
    BY Zenon, <2>3 DEF OutOfRange
  <2>6. ~(status' = status)
    OBVIOUS
  <2>7. ASSUME NEW u \in Reqs, NEW cmd \in Commands, NEW d \in Devs, NEW b \in Blocks,
               NewRequest(u, cmd, d, b)
        PROVE  FALSE
    BY <2>1, <2>7 DEF NewRequest
  <2>8. ReadIntr \/ WriteIntr
    BY <2>4, <2>5, <2>6, <2>7
    DEF Next, DoHdRequest, HdInterrupt, NoMoreRequests, drivervars,
        StartReset, StartRecalibrate, StartRead, StartWrite, StartWriteRefused,
        RecalIntr, ReadError, WriteError, RecalError, Failed
  <2>9. /\ pc = "idle" /\ drive # Idle /\ do_hd \in {"read_intr", "write_intr"}
        /\ do_hd = "read_intr" <=> ReadIntr
    BY Zenon, <2>8 DEF ReadIntr, WriteIntr, Interrupt
  <2>10. /\ queue # <<>> /\ drive.at = FirstSector(CURRENT) + cur.done
         /\ drive.cmd = (IF do_hd = "read_intr" THEN "read" ELSE "write")
         /\ drive.at \in 0 .. (NrSectors - 1)
         /\ FirstSector(CURRENT) \in 0 .. (NrSectors - 1)
         /\ drive.cmd = "write" => drive.data = buf[CURRENT][cur.done]
    BY <2>9, InterruptFacts
  <2>11. /\ CURRENT \in Reqs /\ cur.nr + cur.done = 2
         /\ cur.nr \in 1 .. 2 /\ cur.done \in 0 .. 1 /\ cur \in RequestRecords
         /\ cur.done = 1 => buf[CURRENT][0] = disk[FirstSector(CURRENT)]
    BY <2>10, CurrentProgress
  <2>12. ASSUME NEW fields, EndRequest(fields, TRUE) PROVE r = CURRENT
    BY <2>1, <2>11, <2>12 DEF EndRequest
  <2>13. CASE ReadIntr
    <3>1. buf' = [buf EXCEPT ![CURRENT][cur.done] = disk[drive.at]] /\ disk' = disk
      BY Zenon, <2>13 DEF ReadIntr
    <3> DEFINE fields == [cur EXCEPT !.errors = 0, !.done = @ + 1,
                                     !.sector = @ + 1, !.nr = @ - 1]
    <3>2. ~(fields.nr # 0) /\ EndRequest(fields, TRUE)
      BY Zenon, <2>2, <2>13 DEF ReadIntr
    <3>3. fields.nr = cur.nr - 1
      <4>1. cur \in RequestRecords /\ cur.nr > 0 /\ cur.done < 2 /\ 0 \in 0 .. MAX_ERRORS
        BY <2>11, MaxErrorsNat
      <4> QED BY <4>1, SectorFields
    <3> HIDE DEF fields
    <3>4. cur.nr = 1 /\ cur.done = 1
      BY <2>11, <3>2, <3>3
    <3>5. r = CURRENT
      BY <2>12, <3>2
    <3> QED BY <2>0, <2>10, <2>11, <3>1, <3>4, <3>5
  <2>14. CASE WriteIntr
    <3>1. buf' = buf /\ disk' \in Written(TRUE)
      BY Zenon, <2>14 DEF WriteIntr
    <3>2. ~(cur.nr # 1) /\ EndRequest([cur EXCEPT !.nr = 0], TRUE)
      BY Zenon, <2>2, <2>14 DEF WriteIntr
    <3>3. cur.done = 1 /\ r = CURRENT
      <4>1. r = CURRENT
        BY Zenon, <2>12, <3>2
      <4>2. cur.nr = 1
        BY Zenon, <3>2
      <4> QED BY <2>11, <4>1, <4>2
    <3>4. drive.cmd = "write"
      <4>1. do_hd = "write_intr"
        BY Zenon, <2>14 DEF WriteIntr, Interrupt
      <4> QED BY <2>10, <4>1
    <3>5. /\ disk'[drive.at] = drive.data
          /\ \A x \in 0 .. (NrSectors - 1) : x # drive.at => disk'[x] = disk[x]
      BY <2>0, <2>10, <3>1, <3>4, WrittenFacts
    <3>6. FirstSector(CURRENT) # drive.at /\ drive.at = FirstSector(CURRENT) + 1
      BY <2>10, <3>3
    <3> QED BY <2>10, <2>11, <3>1, <3>3, <3>4, <3>5, <3>6
  <2> QED BY <2>8, <2>13, <2>14
<1> QED BY <1>1, DriverInvariant, PTL DEF Spec, OkMeansTransferred
=============================================================================
