------------------------------- MODULE Memory -------------------------------
(***************************************************************************)
(* linux-0.11/mm/memory.c: the counts of mem_map, page tables, copy on     *)
(* write, sharing and demand loading of pages, as fork(), execve(), exit() *)
(* and the page fault use them.                                            *)
(*                                                                         *)
(* A step is what a process does between two points where another process  *)
(* may run: in user mode anywhere, in the kernel where it sleeps.  The     *)
(* pages below LOW_MEM, which task 0 and its first child use and mem_map   *)
(* does not count, are left out.  A page holds one value.                  *)
(*                                                                         *)
(* Pages that hold a page table or a task structure are never shared: they *)
(* are counted together in kernel_pages, the pages of arguments that an    *)
(* execve() holds are in arg_pages (one page stands for all those of a     *)
(* call), and mem_map is kept for the other pages.  Which free page        *)
(* get_free_page() returns makes no difference.                            *)
(***************************************************************************)
EXTENDS Integers, FiniteSets, FiniteSetsExt

CONSTANTS
  NR_TASKS,    \* task slots 1 .. NR_TASKS (task 0 is left out)
  PAGING_PAGES,\* pages above LOW_MEM
  Addrs,       \* pages of an address space
  DirOf,       \* the page directory entry an address belongs to
  ExecAddrs,   \* the addresses below end_data, loaded from the executable
  Stack,       \* where execve() puts the arguments
  Execs,       \* executables
  Data,        \* what programs store
  Scenarios,   \* bound: the tasks of the initial state with their executables,
               \* the system calls they make, what they store, and the pages
               \* in use elsewhere
  NULL

Procs == 1 .. NR_TASKS
Pages == 1 .. PAGING_PAGES
Dirs == {DirOf[a] : a \in Addrs}

Zero == "zero"
Args == "args"
Vals == {Zero, Args} \union Execs \union Data

ASSUME MemoryAssumption ==
  /\ NR_TASKS \in Nat /\ PAGING_PAGES \in Nat
  /\ IsFiniteSet(Addrs) /\ DirOf \in [Addrs -> Nat \ {0}]
  /\ ExecAddrs \subseteq Addrs
  /\ Stack \in Addrs \ ExecAddrs
  /\ NULL \notin Execs
  /\ \A sc \in Scenarios :
       /\ DOMAIN sc.started \subseteq Procs \intersect Pages
       /\ \A p \in DOMAIN sc.started : sc.started[p] \in Execs \union {NULL}
       /\ sc.ops \subseteq {"fork", "execve", "exit", "read"}
       /\ sc.data \subseteq Data /\ sc.used \in Nat
       /\ sc.used + 3 * Cardinality(DOMAIN sc.started) <= PAGING_PAGES

VARIABLES
  mem_map,     \* references to each page that users see
  kernel_pages,\* pages in use for page tables, task structures and elsewhere
  arg_pages,   \* pages of arguments that do_execve() has not mapped
  content,     \* what each page holds
  dir,         \* page directory: whether an entry has a page table
  pte,         \* page table entries
  executable,  \* current->executable
  pc,          \* where the task is
  loc,         \* local variables: a page, an address and where to return to
  image,       \* history: what each task should find in its memory
  leaked,      \* history: argument pages of tasks killed in do_execve()
  scenario     \* the scenario, which does not change

vars == <<mem_map, kernel_pages, arg_pages, content, dir, pte, executable, pc, loc,
          image, leaked, scenario>>

NotPresent == [page |-> 0, w |-> FALSE, dirty |-> FALSE]
NoLoc == [page |-> 0, addr |-> NULL, ret |-> "none"]

(* Memory after execve().                                                   *)
NewImage(e) ==
  [a \in Addrs |-> IF a = Stack THEN Args
                   ELSE IF a \in ExecAddrs /\ e # NULL THEN e ELSE Zero]
NoImage == [a \in Addrs |-> Zero]

(* get_free_page(): how many pages are left, and one of them.               *)
Left == PAGING_PAGES - kernel_pages - arg_pages
        - Cardinality({pg \in Pages : mem_map[pg] # 0})
FreePage(map) == CHOOSE pg \in Pages : map[pg] = 0
NewPage == FreePage(mem_map)

(* Each started task has just run execve(): it has a task structure, a page *)
(* table and a page of arguments.                                           *)
Init ==
  \E sc \in Scenarios : LET S == DOMAIN sc.started IN
  /\ mem_map = [pg \in Pages |-> IF pg \in S THEN 1 ELSE 0]
  /\ kernel_pages = sc.used + 2 * Cardinality(S)
  /\ arg_pages = 0 /\ leaked = 0
  /\ content = [pg \in Pages |-> IF pg \in S THEN Args ELSE Zero]
  /\ dir = [p \in Procs |-> [d \in Dirs |-> p \in S /\ d = DirOf[Stack]]]
  /\ pte = [p \in Procs |-> [a \in Addrs |->
             IF p \in S /\ a = Stack THEN [page |-> p, w |-> TRUE, dirty |-> FALSE]
             ELSE NotPresent]]
  /\ executable = [p \in Procs |-> IF p \in S THEN sc.started[p] ELSE NULL]
  /\ pc = [p \in Procs |-> IF p \in S THEN "user" ELSE "none"]
  /\ loc = [p \in Procs |-> NoLoc]
  /\ image = [p \in Procs |-> IF p \in S THEN NewImage(sc.started[p]) ELSE NoImage]
  /\ scenario = sc
-----------------------------------------------------------------------------
Present(p, a) == pte[p][a].page # 0

(* mem_map and the page tables left after free_page_tables() of p.          *)
FreePageTables(map, p) ==
  [pg \in Pages |-> map[pg] - Cardinality({a \in Addrs : pte[p][a].page = pg})]

Tables(p) == {d \in Dirs : dir[p][d]}
NoTables == [d \in Dirs |-> FALSE]
NoPages == [a \in Addrs |-> NotPresent]

(* get_free_page() clears the page it returns: what a free page holds is    *)
(* never seen.                                                              *)
Forget(map) == [pg \in Pages |-> IF map[pg] = 0 THEN Zero ELSE content[pg]]

(* A slip: the page in hand is forgotten when memory runs out.              *)
DoExitLeaks(p) ==
  /\ mem_map' = FreePageTables(mem_map, p)
  /\ kernel_pages' = kernel_pages - Cardinality(Tables(p))
  /\ dir' = [dir EXCEPT ![p] = NoTables]
  /\ pte' = [pte EXCEPT ![p] = NoPages]
  /\ loc' = [loc EXCEPT ![p] = NoLoc]
  /\ pc' = [pc EXCEPT ![p] = "exit"]
  /\ content' = Forget(mem_map')
  /\ image' = [image EXCEPT ![p] = NoImage]
  /\ UNCHANGED executable

(* The first half of do_exit(): p gives up its memory.  What follows may    *)
(* sleep.  The page in loc, if any, has been freed by the caller.           *)
DoExit(p) ==
  /\ mem_map' = FreePageTables(IF loc[p].page = 0 THEN mem_map
                               ELSE [mem_map EXCEPT ![loc[p].page] = @ - 1], p)
  /\ kernel_pages' = kernel_pages - Cardinality(Tables(p))
  /\ dir' = [dir EXCEPT ![p] = NoTables]
  /\ pte' = [pte EXCEPT ![p] = NoPages]
  /\ loc' = [loc EXCEPT ![p] = NoLoc]
  /\ pc' = [pc EXCEPT ![p] = "exit"]
  /\ content' = Forget(mem_map')
  /\ image' = [image EXCEPT ![p] = NoImage]
  /\ UNCHANGED executable

(* The page table of p's entry a, added when there is none.                 *)
NewTable(p, a) == IF dir[p][DirOf[a]] THEN 0 ELSE 1

AddTable(p, a) ==
  /\ dir' = [dir EXCEPT ![p][DirOf[a]] = TRUE]
  /\ kernel_pages' = kernel_pages + NewTable(p, a)

(* put_page(): the page is writable and not dirty.                          *)
PutPage(p, a, page) ==
  /\ AddTable(p, a)
  /\ pte' = [pte EXCEPT ![p][a] = [page |-> page, w |-> TRUE, dirty |-> FALSE]]
-----------------------------------------------------------------------------
(* A store of user code that the page table allows.                         *)
Store(p, a, v) ==
  /\ pc[p] = "user"
  /\ Present(p, a) /\ pte[p][a].w
  /\ content' = [content EXCEPT ![pte[p][a].page] = v]
  /\ pte' = [pte EXCEPT ![p][a].dirty = TRUE]
  /\ image' = [image EXCEPT ![p][a] = v]
  /\ UNCHANGED <<mem_map, kernel_pages, dir, executable, pc, loc>>

(* un_wp_page(): the last user of a page gets it back, another one a copy.  *)
(* next is where p goes on.                                                 *)
UnWpPage(p, a, next) ==
  LET old == pte[p][a].page
      new == NewPage
  IN
  \/ /\ mem_map[old] = 1
     /\ pte' = [pte EXCEPT ![p][a].w = TRUE]
     /\ next
     /\ UNCHANGED <<mem_map, content>>
  \/ /\ mem_map[old] # 1 /\ Left > 0
     /\ mem_map' = [mem_map EXCEPT ![old] = @ - 1, ![new] = 1]
     /\ pte' = [pte EXCEPT ![p][a] = [page |-> new, w |-> TRUE, dirty |-> FALSE]]
     /\ content' = [content EXCEPT ![new] = content[old]]
     /\ next

(* do_wp_page(): a store of user code to a page that is not writable.       *)
WpFault(p, a) ==
  /\ pc[p] = "user"
  /\ Present(p, a) /\ ~pte[p][a].w
  /\ UnWpPage(p, a, UNCHANGED <<pc, loc>>)
  /\ UNCHANGED <<kernel_pages, dir, executable, image>>

(* A fault on a page that is not there: of user code, of the kernel that    *)
(* writes to user memory, or of copy_strings(), which reads any part of it. *)
Faults(p, a) ==
  /\ \/ pc[p] \in {"user", "args"}
     \/ pc[p] = "kernel" /\ loc[p].addr = a
  /\ ~Present(p, a)

FromFile(p, a) == executable[p] # NULL /\ a \in ExecAddrs

(* The tasks p can share its page a with: they run the same executable and  *)
(* have the page, clean.  share_page() takes the last one.                  *)
Sharers(p, a) ==
  {q \in Procs \ {p} : /\ executable[q] = executable[p]
                       /\ Present(q, a) /\ ~pte[q][a].dirty}

GetEmptyPage(p, a) ==
  /\ Faults(p, a) /\ ~FromFile(p, a)
  /\ Left >= 1 + NewTable(p, a)
  /\ PutPage(p, a, NewPage)
  /\ mem_map' = [mem_map EXCEPT ![NewPage] = 1]
  /\ content' = [content EXCEPT ![NewPage] = Zero]
  /\ UNCHANGED <<executable, pc, loc, image>>

(* A slip: the page stays writable for the task it is taken from.           *)
SharePageWritable(p, a) ==
  LET q == Max(Sharers(p, a)) IN
  /\ Faults(p, a) /\ FromFile(p, a) /\ Sharers(p, a) # {} /\ Left >= NewTable(p, a)
  /\ AddTable(p, a)
  /\ pte' = [pte EXCEPT ![p][a] = [pte[q][a] EXCEPT !.w = FALSE]]
  /\ mem_map' = [mem_map EXCEPT ![pte[q][a].page] = @ + 1]
  /\ UNCHANGED <<content, executable, pc, loc, image>>

(* try_to_share().                                                          *)
SharePage(p, a) ==
  LET q == Max(Sharers(p, a)) IN
  /\ Faults(p, a) /\ FromFile(p, a)
  /\ Sharers(p, a) # {}
  /\ Left >= NewTable(p, a)
  /\ AddTable(p, a)
  /\ pte' = [pte EXCEPT ![q][a].w = FALSE, ![p][a] = [pte[q][a] EXCEPT !.w = FALSE]]
  /\ mem_map' = [mem_map EXCEPT ![pte[q][a].page] = @ + 1]
  /\ UNCHANGED <<content, executable, pc, loc, image>>

(* do_no_page() reads the page from the file: bmap() and bread_page()       *)
(* sleep with the new page in a local variable ...                          *)
LoadPage(p, a) ==
  /\ Faults(p, a) /\ FromFile(p, a)
  /\ Sharers(p, a) = {}
  /\ Left > 0
  /\ mem_map' = [mem_map EXCEPT ![NewPage] = 1]
  /\ content' = [content EXCEPT ![NewPage] = executable[p]]
  /\ loc' = [loc EXCEPT ![p] = [page |-> NewPage, addr |-> a, ret |-> pc[p]]]
  /\ pc' = [pc EXCEPT ![p] = "load"]
  /\ UNCHANGED <<kernel_pages, dir, pte, executable, image>>

(* ... and it is mapped afterwards.                                         *)
LoadDone(p) ==
  LET a == loc[p].addr IN
  /\ pc[p] = "load"
  /\ Left >= NewTable(p, a)
  /\ PutPage(p, a, loc[p].page)
  /\ loc' = [loc EXCEPT ![p] = IF loc[p].ret = "kernel" THEN [NoLoc EXCEPT !.addr = a] ELSE NoLoc]
  /\ pc' = [pc EXCEPT ![p] = loc[p].ret]
  /\ UNCHANGED <<mem_map, content, executable, image>>

(* p is inside do_execve() and has copied arguments to a page.              *)
HoldsArgs(p) ==
  \/ pc[p] \in {"args", "exec"}
  \/ pc[p] = "load" /\ loc[p].ret = "args"

(* oom(), wherever a page is missing.  The page already in hand is given    *)
(* back, except in un_wp_page() and try_to_share(), which have none.  oom() *)
(* does not return: what do_execve() holds is never given back.             *)
Oom(p) ==
  /\ \/ /\ pc[p] = "user" /\ Left = 0
        /\ \E a \in Addrs : Present(p, a) /\ ~pte[p][a].w /\ mem_map[pte[p][a].page] # 1
     \/ \E a \in Addrs :
          /\ Faults(p, a)
          /\ Left < IF ~FromFile(p, a) THEN 1 + NewTable(p, a)
                    ELSE IF Sharers(p, a) # {} THEN NewTable(p, a)
                    ELSE 1
     \/ pc[p] = "load" /\ Left < NewTable(p, loc[p].addr)
  /\ DoExit(p)
  /\ leaked' = leaked + IF HoldsArgs(p) THEN 1 ELSE 0
  /\ UNCHANGED arg_pages
-----------------------------------------------------------------------------
(* copy_process(): a page for the task structure, and one for each page     *)
(* table of the father, in their order.  Father and son keep the pages,     *)
(* both write-protected.                                                    *)
WriteProtect(p, D) ==
  [a \in Addrs |-> IF DirOf[a] \in D THEN [pte[p][a] EXCEPT !.w = FALSE] ELSE pte[p][a]]

(* A slip: only the son's pages are write-protected.                        *)
ForkUnprotected(p, q) ==
  /\ "fork" \in scenario.ops
  /\ pc[p] = "user" /\ pc[q] = "none"
  /\ Left >= 1 + Cardinality(Tables(p))
  /\ kernel_pages' = kernel_pages + 1 + Cardinality(Tables(p))
  /\ dir' = [dir EXCEPT ![q] = dir[p]]
  /\ pte' = [pte EXCEPT ![q] = WriteProtect(p, Dirs)]
  /\ mem_map' = [pg \in Pages |->
                   mem_map[pg] + Cardinality({a \in Addrs : pte[p][a].page = pg})]
  /\ executable' = [executable EXCEPT ![q] = executable[p]]
  /\ pc' = [pc EXCEPT ![q] = "user"]
  /\ image' = [image EXCEPT ![q] = image[p]]
  /\ UNCHANGED <<content, loc>>

Fork(p, q) ==
  /\ "fork" \in scenario.ops
  /\ pc[p] = "user" /\ pc[q] = "none"
  /\ Left >= 1 + Cardinality(Tables(p))
  /\ kernel_pages' = kernel_pages + 1 + Cardinality(Tables(p))
  /\ dir' = [dir EXCEPT ![q] = dir[p]]
  /\ pte' = [pte EXCEPT ![p] = WriteProtect(p, Dirs), ![q] = WriteProtect(p, Dirs)]
  /\ mem_map' = [pg \in Pages |->
                   mem_map[pg] + Cardinality({a \in Addrs : pte[p][a].page = pg})]
  /\ executable' = [executable EXCEPT ![q] = executable[p]]
  /\ pc' = [pc EXCEPT ![q] = "user"]
  /\ image' = [image EXCEPT ![q] = image[p]]
  /\ UNCHANGED <<content, loc>>

(* Out of memory in the middle: copy_mem() frees what was copied, but the   *)
(* father's entries in those tables stay write-protected.                   *)
ForkFails(p) ==
  LET copied == {d \in Tables(p) : Cardinality({c \in Tables(p) : c <= d}) < Left} IN
  /\ "fork" \in scenario.ops
  /\ pc[p] = "user" /\ \E q \in Procs : pc[q] = "none"
  /\ Left < 1 + Cardinality(Tables(p))
  /\ pte' = [pte EXCEPT ![p] = WriteProtect(p, copied)]
  /\ UNCHANGED <<mem_map, kernel_pages, content, dir, executable, pc, loc, image>>

(* do_execve(): copy_strings() copies the arguments to a page of the kernel, *)
(* and may fault on them ...                                                 *)
ExecArgs(p) ==
  /\ "execve" \in scenario.ops
  /\ pc[p] = "user"
  /\ Left > 0
  /\ arg_pages' = arg_pages + 1
  /\ pc' = [pc EXCEPT ![p] = "args"]
  /\ UNCHANGED <<mem_map, kernel_pages, content, dir, pte, executable, loc, image, leaked>>

(* ... an error gives the page back ...                                     *)
ExecError(p) ==
  /\ pc[p] = "args"
  /\ arg_pages' = arg_pages - 1
  /\ pc' = [pc EXCEPT ![p] = "user"]
  /\ UNCHANGED <<mem_map, kernel_pages, content, dir, pte, executable, loc, image, leaked>>

(* ... otherwise, past the point of no return, p has a new executable while *)
(* sys_close(), which may sleep, runs with the old page tables ...          *)
ExecCommit(p, e) ==
  /\ pc[p] = "args"
  /\ executable' = [executable EXCEPT ![p] = e]
  /\ pc' = [pc EXCEPT ![p] = "exec"]
  /\ UNCHANGED <<mem_map, kernel_pages, content, dir, pte, loc, image>>

(* ... that are freed at last, and the argument page is mapped, in a page   *)
(* table of its own: put_page() can take the page that was just freed.      *)
ExecDone(p) ==
  LET freed == FreePageTables(mem_map, p)
      page == FreePage(freed)
  IN
  /\ pc[p] = "exec"
  /\ mem_map' = [freed EXCEPT ![page] = 1]
  /\ kernel_pages' = kernel_pages - Cardinality(Tables(p)) + 1
  /\ arg_pages' = arg_pages - 1
  /\ content' = [Forget(freed) EXCEPT ![page] = Args]
  /\ dir' = [dir EXCEPT ![p] = [NoTables EXCEPT ![DirOf[Stack]] = TRUE]]
  /\ pte' = [pte EXCEPT ![p] = [NoPages EXCEPT ![Stack] =
                                  [page |-> page, w |-> TRUE, dirty |-> FALSE]]]
  /\ pc' = [pc EXCEPT ![p] = "user"]
  /\ image' = [image EXCEPT ![p] = NewImage(executable[p])]
  /\ UNCHANGED <<executable, loc, leaked>>

Exit(p) ==
  /\ "exit" \in scenario.ops
  /\ pc[p] = "user"
  /\ DoExit(p)

(* The rest of do_exit(): the inode of the executable is given back.        *)
ExitDone(p) ==
  /\ pc[p] = "exit"
  /\ executable' = [executable EXCEPT ![p] = NULL]
  /\ pc' = [pc EXCEPT ![p] = "zombie"]
  /\ UNCHANGED <<mem_map, kernel_pages, content, dir, pte, loc, image>>

(* release(), called by sys_waitpid() of the father.                        *)
Release(p) ==
  /\ pc[p] = "zombie"
  /\ kernel_pages' = kernel_pages - 1
  /\ pc' = [pc EXCEPT ![p] = "none"]
  /\ UNCHANGED <<mem_map, content, dir, pte, executable, loc, image>>
-----------------------------------------------------------------------------
(* write_verify(): a page that is there and protected is made the task's own *)
(* as on a fault; next is what follows.                                      *)
WriteVerify(p, a, next) ==
  IF Present(p, a) /\ ~pte[p][a].w
    THEN UnWpPage(p, a, next)
    ELSE next /\ UNCHANGED <<mem_map, content, pte>>

(* sys_read() and its like: verify_area() makes the page writable, if it is *)
(* there; the call may then sleep before it stores anything.                *)
VerifyArea(p, a) ==
  /\ "read" \in scenario.ops
  /\ pc[p] = "user"
  /\ WriteVerify(p, a, /\ loc' = [loc EXCEPT ![p] = [NoLoc EXCEPT !.addr = a]]
                       /\ pc' = [pc EXCEPT ![p] = "kernel"])
  /\ UNCHANGED <<kernel_pages, dir, executable, image>>

(* put_fs_byte(): in supervisor mode the processor does not look at the     *)
(* write protection of a page.                                              *)
PutFs(p, v) ==
  LET a == loc[p].addr IN
  /\ pc[p] = "kernel"
  /\ Present(p, a)
  /\ content' = [content EXCEPT ![pte[p][a].page] = v]
  /\ pte' = [pte EXCEPT ![p][a].dirty = TRUE]
  /\ image' = [image EXCEPT ![p][a] = v]
  /\ loc' = [loc EXCEPT ![p] = NoLoc]
  /\ pc' = [pc EXCEPT ![p] = "user"]
  /\ UNCHANGED <<mem_map, kernel_pages, dir, executable>>
-----------------------------------------------------------------------------
Fault(p) ==
  \/ \E a \in Addrs : WpFault(p, a) \/ GetEmptyPage(p, a) \/ SharePage(p, a) \/ LoadPage(p, a)
  \/ LoadDone(p)

Syscall(p) ==
  \/ \E q \in Procs : Fork(p, q)
  \/ ForkFails(p)
  \/ \E e \in Execs : ExecCommit(p, e)
  \/ Exit(p) \/ ExitDone(p) \/ Release(p)
  \/ \E a \in Addrs : VerifyArea(p, a)
  \/ \E v \in scenario.data : PutFs(p, v)

Next ==
  /\ \E p \in Procs :
       \/ /\ \/ \E a \in Addrs, v \in scenario.data : Store(p, a, v)
             \/ Fault(p)
             \/ Syscall(p)
          /\ UNCHANGED <<arg_pages, leaked>>
       \/ ExecArgs(p) \/ ExecError(p) \/ ExecDone(p)
       \/ Oom(p)
  /\ UNCHANGED scenario

Spec == Init /\ [][Next]_vars
-----------------------------------------------------------------------------
Entries == [page : Pages \union {0}, w : BOOLEAN, dirty : BOOLEAN]

Locations == {"none", "user", "kernel", "load", "args", "exec", "exit", "zombie"}

(* Types; mem_map never drops below zero, where free_page() would panic.    *)
TypeOK ==
  /\ mem_map \in [Pages -> Nat]
  /\ content \in [Pages -> Vals]
  /\ kernel_pages \in Nat /\ arg_pages \in Nat
  /\ dir \in [Procs -> [Dirs -> BOOLEAN]]
  /\ pte \in [Procs -> [Addrs -> Entries]]
  /\ executable \in [Procs -> Execs \union {NULL}]
  /\ pc \in [Procs -> Locations]
  /\ image \in [Procs -> [Addrs -> Vals]]
  /\ loc \in [Procs -> [page : Pages \union {0}, addr : Addrs \union {NULL},
                        ret : Locations]]

References(pg) ==
  Cardinality({x \in Procs \X Addrs : pte[x[1]][x[2]].page = pg})
  + Cardinality({p \in Procs : loc[p].page = pg})

(* mem_map counts the references to every page: no page is lost, and none   *)
(* freed while it is used, on the error paths of the page faults and of     *)
(* fork() too (memory.c:63-99, 105-131, 150-189, 231-235, 278-281,          *)
(* 393-396).                                                                *)
MemMapCounts ==
  /\ \A pg \in Pages : mem_map[pg] = References(pg)
  /\ kernel_pages = scenario.used + Cardinality({p \in Procs : pc[p] # "none"})
                    + Cardinality({x \in Procs \X Dirs : dir[x[1]][x[2]]})
  /\ Left >= 0

(* The pages of arguments are those of the calls of execve() under way, and *)
(* of the tasks that ran out of memory inside one: nobody gives these back, *)
(* for oom() does not return to do_execve() (memory.c:33-37, exec.c:126,    *)
(* 146, 350-351).                                                           *)
ArgPagesCounted ==
  /\ leaked \in Nat
  /\ arg_pages = Cardinality({p \in Procs : HoldsArgs(p)}) + leaked

(* A page that can be stored to and a page being filled have a single user, *)
(* whatever was shared or copied before (memory.c:177-184, 226-237,         *)
(* 326-332).                                                                *)
WritableIsPrivate ==
  \A pg \in Pages :
    \/ \E p \in Procs : \E a \in Addrs : pte[p][a].page = pg /\ pte[p][a].w
    \/ \E p \in Procs : loc[p].page = pg
    => References(pg) = 1

(* What task p finds at address a.                                          *)
View(p, a) ==
  IF Present(p, a) THEN content[pte[p][a].page]
  ELSE IF FromFile(p, a) THEN executable[p] ELSE Zero

HasMemory(p) == pc[p] \in {"user", "kernel", "load", "args"}

(* The calls that break what follows stay apart: execve() and kernel stores *)
(* while other tasks share the program's pages, and a fork of such a task   *)
(* (exec.c:326, fork.c:34, memory.c:235).                                   *)
Separate ==
  /\ scenario.ops \intersect {"execve", "read"} = {}
  /\ "fork" \in scenario.ops => \A p \in DOMAIN scenario.started : scenario.started[p] = NULL

(* Tasks have separate memories: whatever was copied, shared or loaded, a   *)
(* task finds the image of its program, or of its father, with the changes  *)
(* it made itself (memory.c:133-189, 221-259, 284-334, 365-397).            *)
MemoryIsPrivate ==
  Separate => \A p \in Procs : HasMemory(p) => \A a \in Addrs : View(p, a) = image[p][a]

(* A clean page of the executable's addresses holds what the file has: what *)
(* try_to_share() relies on (memory.c:310-312).                             *)
CleanIsFile ==
  Separate =>
    \A p \in Procs : \A a \in ExecAddrs :
      executable[p] # NULL /\ Present(p, a) /\ ~pte[p][a].dirty => content[pte[p][a].page] = executable[p]

(* Pages are counted exactly, no count drops below zero, and no page is     *)
(* lost but for the arguments of a task that runs out of memory inside      *)
(* execve() (memory.c:33-37, 63-131; exec.c:347-351).                       *)
PagesCounted == TypeOK /\ MemMapCounts /\ ArgPagesCounted

(* Copy on write and sharing are invisible to the tasks, and a page that    *)
(* may be shared as one of the file is one (memory.c:133-189, 284-397).     *)
SharingInvisible == CleanIsFile /\ MemoryIsPrivate
=============================================================================
