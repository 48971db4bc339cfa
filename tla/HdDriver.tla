------------------------------ MODULE HdDriver ------------------------------
(***************************************************************************)
(* linux-0.11/kernel/blk_drv/hd.c: the hard disk driver.  It has no task   *)
(* of its own: do_hd_request() gives the controller a command and leaves   *)
(* the address of a handler in do_hd, and hd_interrupt (system_call.s)     *)
(* calls that handler, which goes on with the request or starts the next.  *)
(*                                                                         *)
(* The kernel is not preempted and at most one command is outstanding, so  *)
(* do_hd_request() runs to its return with nothing in between; its loop    *)
(* from repeat is a step per round here (pc = "run").  The place of a new  *)
(* request in the list, which RequestQueue.tla describes, is any place     *)
(* behind the current request.  There is one drive.                        *)
(***************************************************************************)
EXTENDS Integers, Sequences, SequencesExt

CONSTANTS
  Reqs,         \* slots of the request table
  Devs,         \* minor devices: the drive and its partitions
  Blocks,       \* block numbers that requests ask for
  hd,           \* the partition table: start_sect and nr_sects of a device
  Sect, Heads,  \* geometry of the drive (hd_info)
  NrSectors,    \* its size
  MAX_ERRORS

ASSUME HdAssumption ==
  /\ Reqs \subseteq Nat \ {0} /\ Devs # {}
  /\ Blocks \subseteq Nat
  /\ Sect \in Nat \ {0} /\ Heads \in Nat \ {0}
  /\ NrSectors \in Nat /\ MAX_ERRORS \in Nat \ {0}
  /\ hd \in [Devs -> [start_sect : Nat, nr_sects : Nat]]
  /\ \A d \in Devs : hd[d].start_sect + hd[d].nr_sects =< NrSectors

VARIABLES
  request,      \* the entries of the table, with the buffer offset as done
  status,       \* what has become of the entry: b_uptodate and b_lock
  buf,          \* the two sectors of the buffer of a request
  queue,        \* CURRENT and the requests behind it
  do_hd,        \* the handler of the next interrupt, or "none"
  reset, recalibrate,
  pc,           \* "run" in do_hd_request(), "panic" after one, else "idle"
  drive,        \* the command the controller is executing
  disk          \* the contents of the sectors

drivervars == <<request, status, buf, queue>>
vars == <<request, status, buf, queue, do_hd, reset, recalibrate, pc, drive, disk>>

Commands == {"read", "write"}
Junk == -1                        \* what a read buffer holds, or a bad sector
DataOf(r) == [h \in 0 .. 1 |-> -(2 * r + h)]
NoRequest == [cmd |-> "read", dev |-> CHOOSE d \in Devs : TRUE, sector |-> 0,
              nr |-> 0, done |-> 0, errors |-> 0]
Idle == [cmd |-> "none", at |-> 0, left |-> 0, data |-> Junk]

CURRENT == Head(queue)
cur == request[CURRENT]

Init ==
  /\ request = [r \in Reqs |-> NoRequest]
  /\ status = [r \in Reqs |-> "new"]
  /\ buf = [r \in Reqs |-> [h \in 0 .. 1 |-> Junk]]
  /\ queue = <<>>
  /\ do_hd = "none" /\ reset = TRUE /\ recalibrate = TRUE
  /\ pc = "idle"
  /\ drive = Idle
  /\ disk = [s \in 0 .. (NrSectors - 1) |-> s]

(* make_request() and add_request(), from ll_rw_block(): the first request  *)
(* of an empty list starts the driver.                                      *)
NewRequest(r, cmd, d, b) ==
  /\ pc = "idle"
  /\ status[r] # "queued"
  /\ request' = [request EXCEPT ![r] =
       [cmd |-> cmd, dev |-> d, sector |-> 2 * b, nr |-> 2, done |-> 0, errors |-> 0]]
  /\ status' = [status EXCEPT ![r] = "queued"]
  /\ buf' = [buf EXCEPT ![r] =
       IF cmd = "write" THEN DataOf(r) ELSE [h \in 0 .. 1 |-> Junk]]
  /\ IF queue = <<>>
       THEN queue' = <<r>> /\ pc' = "run"
       ELSE /\ \E i \in 2 .. (Len(queue) + 1) : queue' = InsertAt(queue, i, r)
            /\ UNCHANGED pc
  /\ UNCHANGED <<do_hd, reset, recalibrate, drive, disk>>
-----------------------------------------------------------------------------
(* end_request(), with the fields of CURRENT as its handler left them.      *)
EndRequest(fields, uptodate) ==
  /\ request' = [request EXCEPT ![CURRENT] = fields]
  /\ status' = [status EXCEPT ![CURRENT] = IF uptodate THEN "ok" ELSE "failed"]
  /\ queue' = Tail(queue)

(* Keep CURRENT, with new fields.                                           *)
Keep(fields) ==
  /\ request' = [request EXCEPT ![CURRENT] = fields]
  /\ UNCHANGED <<status, queue>>

(* Slips: one error too few, and errors that are not counted.               *)
BadRwIntrFewer ==
  LET fields == [cur EXCEPT !.errors = @ + 1] IN
  /\ IF fields.errors >= MAX_ERRORS - 1 THEN EndRequest(fields, FALSE) ELSE Keep(fields)
  /\ reset' = (reset \/ (fields.errors > MAX_ERRORS \div 2))

BadRwIntrForgets ==
  /\ Keep(cur)
  /\ reset' = TRUE

(* bad_rw_intr().  After end_request() the second test reads the errors of  *)
(* the next request; with none left it reads address 8, the third entry of  *)
(* the page directory, which head.s:205 sets to a large number.             *)
BadRwIntr ==
  LET fields == [cur EXCEPT !.errors = @ + 1]
      errors == IF queue' = <<>> THEN MAX_ERRORS ELSE request'[Head(queue')].errors
  IN
  /\ IF fields.errors >= MAX_ERRORS THEN EndRequest(fields, FALSE) ELSE Keep(fields)
  /\ reset' = (reset \/ errors > MAX_ERRORS \div 2)
-----------------------------------------------------------------------------
(* The two divisions of do_hd_request().                                    *)
Locate(block) ==
  [sec |-> (block % Sect) + 1,
   head |-> (block \div Sect) % Heads,
   cyl |-> (block \div Sect) \div Heads]

(* The drive's own numbering of its sectors.                                *)
SectorAt(chs) == (chs.cyl * Heads + chs.head) * Sect + (chs.sec - 1)

(* hd_out(): the handler is set before the command is given.  A controller  *)
(* that does not become ready ends in panic().                              *)
HdOut(command, handler) ==
  \/ drive' = command /\ do_hd' = handler /\ pc' = "idle"
  \/ pc' = "panic" /\ UNCHANGED <<drive, do_hd>>

(* INIT_REQUEST: nothing left to do.                                        *)
NoMoreRequests ==
  /\ pc = "run" /\ queue = <<>>
  /\ pc' = "idle"
  /\ UNCHANGED <<drivervars, do_hd, reset, recalibrate, drive, disk>>

(* A slip: only the first sector of the block is checked.                   *)
InRangeFirst(r) == request[r].sector < hd[request[r].dev].nr_sects

(* The check of a request against the end of its partition.                 *)
InRange(r) == request[r].sector + 2 =< hd[request[r].dev].nr_sects

OutOfRange ==
  /\ pc = "run" /\ queue # <<>> /\ ~InRange(CURRENT)
  /\ EndRequest(cur, FALSE)
  /\ UNCHANGED <<buf, do_hd, reset, recalibrate, pc, drive, disk>>

Start == pc = "run" /\ queue # <<>> /\ InRange(CURRENT)

(* reset_hd(): the controller is reset and given the geometry.              *)
StartReset ==
  /\ Start /\ reset
  /\ reset' = FALSE /\ recalibrate' = TRUE
  /\ HdOut([Idle EXCEPT !.cmd = "specify"], "recal_intr")
  /\ UNCHANGED <<drivervars, disk>>

StartRecalibrate ==
  /\ Start /\ ~reset /\ recalibrate
  /\ recalibrate' = FALSE
  /\ HdOut([Idle EXCEPT !.cmd = "restore"], "recal_intr")
  /\ UNCHANGED <<drivervars, reset, disk>>

Transfer(data) ==
  [cmd |-> cur.cmd,
   at |-> SectorAt(Locate(cur.sector + hd[cur.dev].start_sect)),
   left |-> cur.nr,
   data |-> data]

StartRead ==
  /\ Start /\ ~reset /\ ~recalibrate /\ cur.cmd = "read"
  /\ HdOut(Transfer(Junk), "read_intr")
  /\ UNCHANGED <<drivervars, reset, recalibrate, disk>>

StartWrite ==
  /\ Start /\ ~reset /\ ~recalibrate /\ cur.cmd = "write"
  /\ HdOut(Transfer(buf[CURRENT][cur.done]), "write_intr")
  /\ UNCHANGED <<drivervars, reset, recalibrate, disk>>

(* The drive does not ask for the data: the loop goes round again.  A write *)
(* command without data does nothing and is forgotten with the next one.    *)
StartWriteRefused ==
  /\ Start /\ ~reset /\ ~recalibrate /\ cur.cmd = "write"
  /\ do_hd' = "write_intr"
  /\ BadRwIntr
  /\ UNCHANGED <<buf, recalibrate, pc, drive, disk>>

DoHdRequest ==
  \/ NoMoreRequests \/ OutOfRange
  \/ StartReset \/ StartRecalibrate
  \/ StartRead \/ StartWrite \/ StartWriteRefused
-----------------------------------------------------------------------------
(* The drive when it interrupts: its next sector, or done.                  *)
NextSector ==
  IF drive.left > 1 THEN [drive EXCEPT !.at = @ + 1, !.left = @ - 1, !.data = Junk]
                    ELSE Idle

(* What the sector may hold after the drive tried to write it.              *)
Written(ok) ==
  IF drive.cmd # "write" THEN {disk}
  ELSE {[disk EXCEPT ![drive.at] = v] :
          v \in IF ok THEN {drive.data} ELSE {disk[drive.at], drive.data, Junk}}

Interrupt(handler) == pc = "idle" /\ drive # Idle /\ do_hd = handler

(* win_result() of a handler is not 0.                                      *)
Failed ==
  /\ disk' \in Written(FALSE)
  /\ BadRwIntr
  /\ do_hd' = "none" /\ pc' = "run" /\ drive' = Idle
  /\ UNCHANGED <<buf, recalibrate>>

ReadError == Interrupt("read_intr") /\ Failed
WriteError == Interrupt("write_intr") /\ Failed
RecalError == Interrupt("recal_intr") /\ Failed

(* recal_intr() after a command that went well.                             *)
RecalIntr ==
  /\ Interrupt("recal_intr")
  /\ do_hd' = "none" /\ pc' = "run" /\ drive' = Idle
  /\ UNCHANGED <<drivervars, reset, recalibrate, disk>>

(* A slip: the handler is not installed again for the second sector.        *)
ReadIntrOnce ==
  /\ Interrupt("read_intr")
  /\ buf' = [buf EXCEPT ![CURRENT][cur.done] = disk[drive.at]]
  /\ IF cur.nr > 1 THEN Keep([cur EXCEPT !.errors = 0, !.done = @ + 1,
                                         !.sector = @ + 1, !.nr = @ - 1])
                   ELSE EndRequest(cur, TRUE)
  /\ pc' = IF cur.nr > 1 THEN pc ELSE "run"
  /\ do_hd' = "none"
  /\ drive' = NextSector
  /\ UNCHANGED <<reset, recalibrate, disk>>

(* read_intr() of a sector that was read.                                   *)
ReadIntr ==
  LET fields == [cur EXCEPT !.errors = 0, !.done = @ + 1,
                            !.sector = @ + 1, !.nr = @ - 1]
  IN
  /\ Interrupt("read_intr")
  /\ buf' = [buf EXCEPT ![CURRENT][cur.done] = disk[drive.at]]
  /\ IF fields.nr # 0
       THEN Keep(fields) /\ do_hd' = "read_intr" /\ UNCHANGED pc
       ELSE EndRequest(fields, TRUE) /\ do_hd' = "none" /\ pc' = "run"
  /\ drive' = NextSector
  /\ UNCHANGED <<reset, recalibrate, disk>>

(* A slip: the next sector's data goes out before the buffer is advanced.   *)
WriteIntrEarly ==
  LET fields == [cur EXCEPT !.nr = @ - 1, !.sector = @ + 1, !.done = @ + 1] IN
  /\ Interrupt("write_intr")
  /\ disk' \in Written(TRUE)
  /\ IF cur.nr # 1
       THEN /\ Keep(fields)
            /\ do_hd' = "write_intr"
            /\ drive' = [NextSector EXCEPT !.data = buf[CURRENT][cur.done]]
            /\ UNCHANGED pc
       ELSE /\ EndRequest([cur EXCEPT !.nr = 0], TRUE)
            /\ do_hd' = "none" /\ pc' = "run"
            /\ drive' = NextSector
  /\ UNCHANGED <<buf, reset, recalibrate>>

(* write_intr() of a sector that was written: the data of the next one goes *)
(* out at once.                                                             *)
WriteIntr ==
  LET fields == [cur EXCEPT !.nr = @ - 1, !.sector = @ + 1, !.done = @ + 1] IN
  /\ Interrupt("write_intr")
  /\ disk' \in Written(TRUE)
  /\ IF cur.nr # 1
       THEN /\ Keep(fields)
            /\ do_hd' = "write_intr"
            /\ drive' = [NextSector EXCEPT !.data = buf[CURRENT][fields.done]]
            /\ UNCHANGED pc
       ELSE /\ EndRequest([cur EXCEPT !.nr = 0], TRUE)
            /\ do_hd' = "none" /\ pc' = "run"
            /\ drive' = NextSector
  /\ UNCHANGED <<buf, reset, recalibrate>>

HdInterrupt ==
  \/ ReadIntr \/ WriteIntr \/ RecalIntr
  \/ ReadError \/ WriteError \/ RecalError

Next ==
  \/ \E r \in Reqs, cmd \in Commands, d \in Devs, b \in Blocks : NewRequest(r, cmd, d, b)
  \/ DoHdRequest
  \/ HdInterrupt

Spec == Init /\ [][Next]_vars

(* A call of do_hd_request() goes on until it returns, and the drive ends   *)
(* every command it was given with an interrupt, a good or a bad one.       *)
FairSpec == Spec /\ WF_vars(DoHdRequest) /\ WF_vars(HdInterrupt)
-----------------------------------------------------------------------------
RequestRecords ==
  [cmd : Commands, dev : Devs, sector : Nat, nr : 0 .. 2, done : 0 .. 2,
   errors : 0 .. MAX_ERRORS]

Handlers == {"none", "read_intr", "write_intr", "recal_intr"}
DriveCommands == {"none", "specify", "restore"} \union Commands

(* Types; a queued request has something left to transfer and has not used  *)
(* up its errors, and the list holds every queued request once.             *)
TypeOK ==
  /\ request \in [Reqs -> RequestRecords]
  /\ status \in [Reqs -> {"new", "queued", "ok", "failed"}]
  /\ buf \in [Reqs -> [0 .. 1 -> Int]]
  /\ queue \in Seq(Reqs)
  /\ \A i, j \in 1 .. Len(queue) : queue[i] = queue[j] => i = j
  /\ \A r \in Reqs : (status[r] = "queued") <=> (\E i \in 1 .. Len(queue) : queue[i] = r)
  /\ \A r \in Reqs : status[r] = "queued" =>
       request[r].nr > 0 /\ request[r].errors < MAX_ERRORS
  /\ do_hd \in Handlers
  /\ reset \in BOOLEAN /\ recalibrate \in BOOLEAN
  /\ pc \in {"idle", "run", "panic"}
  /\ drive.cmd \in DriveCommands
  /\ disk \in [0 .. (NrSectors - 1) -> Int]

(* Driver and drive agree, although the sector numbers are counted on both  *)
(* sides and retries start in the middle of a block (hd.c:250-291): the     *)
(* interrupt of an outstanding command finds its own handler, its request   *)
(* still current, and the sector and the data the driver means.             *)
CommandFits ==
  drive # Idle =>
    /\ queue # <<>>
    /\ \/ drive.cmd \in {"specify", "restore"} /\ do_hd = "recal_intr"
       \/ /\ do_hd = (IF drive.cmd = "read" THEN "read_intr" ELSE "write_intr")
          /\ drive.cmd = cur.cmd
          /\ drive.at = hd[cur.dev].start_sect + cur.sector
          /\ drive.left = cur.nr
          /\ drive.cmd = "write" => drive.data = buf[CURRENT][cur.done]

(* No work is left behind: whenever the driver has returned and there is a  *)
(* request, a command for it is outstanding, so an interrupt will come      *)
(* (hd.c:250-341: every handler ends the command, and starts the next).     *)
NeverStalled == pc = "idle" /\ queue # <<>> => drive # Idle

FirstSector(r) == hd[request[r].dev].start_sect + request[r].sector - request[r].done

(* end_request(1) (hd.c:265, 283) is true: when a request ends well, both   *)
(* sectors of its buffer are the two sectors of its block on the disk,      *)
(* after any number of errors, resets and retries.  (The last sector of a   *)
(* write does not advance CURRENT->sector, hd.c:276-283.)                   *)
OkMeansTransferred ==
  [][\A r \in Reqs : status[r] = "queued" /\ status'[r] = "ok" =>
       \A h \in 0 .. 1 : buf'[r][h] = disk'[FirstSector(r) + h]]_vars

(* A sector changes only for the current request, which is a write, and is  *)
(* one of the two of its block and inside its partition (hd.c:304-309).     *)
WritesStayInside ==
  [][\A s \in DOMAIN disk : disk'[s] # disk[s] =>
       /\ queue # <<>> /\ cur.cmd = "write"
       /\ s \in FirstSector(CURRENT) .. (FirstSector(CURRENT) + 1)
       /\ s < hd[cur.dev].start_sect + hd[cur.dev].nr_sects]_vars

(* The current request does not stay current: errors are counted to an end  *)
(* and progress is made otherwise, or the kernel panics (hd.c:189, 242-248).*)
(* This is the fairness of EndRequest that RequestQueue assumes.            *)
CurrentEnds ==
  \A r \in Reqs :
    queue # <<>> /\ CURRENT = r ~> (queue # <<>> => CURRENT # r) \/ pc = "panic"

(* hd.c:33: "Max read/write errors/sector".  A request for a block of the   *)
(* partition is given up only after MAX_ERRORS errors, except in the second *)
(* sector of the last block: there hd.c:304 takes the first retry for a     *)
(* request behind the end.                                                  *)
GivenUpAfterMaxErrors ==
  \A r \in Reqs :
    LET last == hd[request[r].dev].nr_sects - 2 IN
    /\ status[r] = "failed"
    /\ request[r].sector - request[r].done =< last
    => \/ request[r].errors = MAX_ERRORS
       \/ request[r].errors > 0 /\ request[r].done = 1 /\ request[r].sector - 1 = last

(* Driver, list and drive are in step whenever an interrupt may come        *)
(* (hd.c:180-341): the command outstanding is the one the driver means, and *)
(* there is one as long as there is a request.                              *)
InStep == TypeOK /\ CommandFits /\ NeverStalled
=============================================================================
