---------------------------- MODULE MemoryProofs ----------------------------
(***************************************************************************)
(* Proofs about Memory, for any number of tasks, pages and addresses: the  *)
(* counts of the pages are exact (PagesCounted), a page that can be stored *)
(* to has one user (WritableIsPrivate), and sharing pages is invisible to  *)
(* the tasks (SharingInvisible).                                           *)
(***************************************************************************)
EXTENDS Memory, FiniteSetTheorems, WellFoundedInduction, TLAPS

(* What task p holds in its local variables and page tables, by where it    *)
(* is: a page of its own while it loads one, no memory once it has exited,  *)
(* a page table for its stack otherwise.                                    *)
TaskRight(p) ==
  /\ loc[p].page # 0 <=> pc[p] = "load"
  /\ IF pc[p] \in {"none", "exit", "zombie"}
       THEN (\A a \in Addrs : ~Present(p, a)) /\ (\A d \in Dirs : ~dir[p][d])
       ELSE dir[p][DirOf[Stack]]
  /\ pc[p] = "kernel" => loc[p].addr \in Addrs
  /\ pc[p] = "load" => /\ loc[p].addr \in Addrs /\ loc[p].ret \in {"user", "kernel", "args"}
                       /\ FromFile(p, loc[p].addr) /\ ~Present(p, loc[p].addr)
                       /\ content[loc[p].page] = executable[p]

(* What it finds in its memory: SharingInvisible for one task, and what     *)
(* keeps it so.  While the calls stay apart p is inside none of them, only  *)
(* tasks without an executable fork, and a protected page of the file is    *)
(* clean, so that its copy may be taken for one of the file too.            *)
MemoryRight(p) ==
  Separate =>
    /\ pc[p] \notin {"kernel", "args", "exec"}
    /\ pc[p] = "load" => loc[p].ret = "user"
    /\ "fork" \in scenario.ops => executable[p] = NULL
    /\ executable[p] # NULL =>
         \A a \in ExecAddrs : Present(p, a) =>
           /\ pte[p][a].w \/ ~pte[p][a].dirty
           /\ ~pte[p][a].dirty => content[pte[p][a].page] = executable[p]
    /\ HasMemory(p) => \A a \in Addrs : View(p, a) = image[p][a]

(* A page that can be stored to, or is being filled, has one user: the      *)
(* count of mem_map says so.                                                *)
StoresAlone ==
  /\ \A p \in Procs : \A a \in Addrs :
       pte[p][a].w => Present(p, a) /\ mem_map[pte[p][a].page] = 1
  /\ \A p \in Procs : loc[p].page # 0 => mem_map[loc[p].page] = 1

(* The inductive invariant.                                                 *)
MemInv ==
  /\ scenario \in Scenarios
  /\ TypeOK /\ MemMapCounts
  /\ StoresAlone
  /\ \A p \in Procs : TaskRight(p) /\ MemoryRight(p)

(* The tasks inside execve() with their page of arguments.                  *)
ArgHolders == {p \in Procs : HoldsArgs(p)}
-----------------------------------------------------------------------------
(* Any non-empty set of naturals has a least element.                      *)
LEMMA LeastNat ==
  ASSUME NEW T \in SUBSET Nat, T # {}
  PROVE  \E x \in T : \A y \in T : x =< y
<1> DEFINE R == {ss \in Nat \X Nat : ss[1] < ss[2]}
<1>1. IsWellFoundedOn(R, Nat)
  BY NatLessThanWellFounded DEF OpToRel
<1>2. ASSUME NEW a \in Nat, NEW b \in Nat, a < b PROVE <<a, b>> \in R
  <2>1. <<a, b>> \in Nat \X Nat /\ <<a, b>>[1] = a /\ <<a, b>>[2] = b
    OBVIOUS
  <2> QED BY <1>2, <2>1
<1> HIDE DEF R
<1>3. PICK x \in T : \A y \in T : ~(<<y, x>> \in R)
  BY <1>1, WFMin
<1>4. ASSUME NEW y \in T PROVE x =< y
  <2>1. x \in Nat /\ y \in Nat
    OBVIOUS
  <2>2. ~(y < x)
    BY <1>2, <1>3, <2>1
  <2> QED BY <2>1, <2>2
<1> QED BY <1>4

(* Max() of a bounded set: the searches from the top of a table down.       *)
LEMMA MaxFacts ==
  ASSUME NEW n \in Nat, NEW T \in SUBSET (0 .. n), T # {}
  PROVE  Max(T) \in T /\ \A y \in T : y =< Max(T)
<1> DEFINE U == {x \in 0 .. n : n - x \in T}
<1>1. U # {} /\ U \in SUBSET Nat
  <2>1. PICK t \in T : TRUE
    OBVIOUS
  <2>2. n - t \in U
    <3>1. n - t \in 0 .. n /\ n - (n - t) = t
      OBVIOUS
    <3> QED BY <3>1
  <2> QED BY <2>2
<1>2. PICK x \in U : \A y \in U : x =< y
  BY <1>1, LeastNat
<1>3. ASSUME NEW t \in T PROVE t =< n - x
  <2>1. n - t \in 0 .. n /\ n - (n - t) = t
    OBVIOUS
  <2>2. x =< n - t
    BY <1>2, <2>1
  <2> QED BY <2>2
<1>4. n - x \in T
  OBVIOUS
<1>5. \E m \in T : \A y \in T : m >= y
  BY <1>3, <1>4
<1>6. Max(T) \in T /\ \A y \in T : Max(T) >= y
  BY <1>5 DEF Max
<1> QED BY <1>6
-----------------------------------------------------------------------------
(* Counting: one when a condition holds, and when two values are the same.  *)
One(b) == IF b THEN 1 ELSE 0
Same(x, y) == IF x = y THEN 1 ELSE 0

(* The size of a set when only whether a is in it changes.                  *)
LEMMA OneChanges ==
  ASSUME NEW T, IsFiniteSet(T), NEW A \in SUBSET T, NEW B \in SUBSET T, NEW a \in T,
         \A b \in T \ {a} : b \in A <=> b \in B
  PROVE  /\ Cardinality(A) \in Nat /\ Cardinality(B) \in Nat
         /\ Cardinality(B) + One(a \in A) = Cardinality(A) + One(a \in B)
<1>1. IsFiniteSet(A) /\ IsFiniteSet(B)
  BY FS_Subset
<1>2. Cardinality(A) \in Nat /\ Cardinality(B) \in Nat
  BY <1>1, FS_CardinalityType
<1>3. CASE a \in A <=> a \in B
  <2>1. A = B
    BY <1>3
  <2> QED BY <1>2, <1>3, <2>1 DEF One
<1>4. CASE a \in A /\ a \notin B
  <2>1. A = B \union {a}
    BY <1>4
  <2>2. Cardinality(A) = Cardinality(B) + 1
    BY <1>1, <1>4, <2>1, FS_AddElement
  <2> QED BY <1>2, <1>4, <2>2 DEF One
<1>5. CASE a \notin A /\ a \in B
  <2>1. B = A \union {a}
    BY <1>5
  <2>2. Cardinality(B) = Cardinality(A) + 1
    BY <1>1, <1>5, <2>1, FS_AddElement
  <2> QED BY <1>2, <1>5, <2>2 DEF One
<1> QED BY <1>3, <1>4, <1>5

(* A and B agree outside the row of p, and C is the row of p in A.          *)
SameElsewhere(A, B, p, S, T) ==
  /\ p \in S /\ A \subseteq S \X T /\ B \subseteq S \X T
  /\ \A q \in S \ {p} : \A t \in T : <<q, t>> \in A <=> <<q, t>> \in B
IsRow(C, A, p, T) == C \subseteq T /\ \A t \in T : t \in C <=> <<p, t>> \in A

(* The size of a set of pairs when only one row changes.                    *)
LEMMA RowChanges ==
  ASSUME NEW S, NEW T, IsFiniteSet(S), IsFiniteSet(T),
         NEW A, NEW B, NEW p, SameElsewhere(A, B, p, S, T),
         NEW C, IsRow(C, A, p, T), NEW D, IsRow(D, B, p, T)
  PROVE  /\ Cardinality(A) \in Nat /\ Cardinality(B) \in Nat
         /\ Cardinality(C) \in Nat /\ Cardinality(D) \in Nat
         /\ Cardinality(C) <= Cardinality(A)
         /\ Cardinality(B) + Cardinality(C) = Cardinality(A) + Cardinality(D)
<1> DEFINE Rest(X) == {x \in X : x[1] # p}
           Row(X) == {t \in T : <<p, t>> \in X}
<1>0. p \in S /\ A \in SUBSET (S \X T) /\ B \in SUBSET (S \X T)
  BY DEF SameElsewhere
<1>1. IsFiniteSet(S \X T)
  BY FS_Product
<1>2. ASSUME NEW X \in SUBSET (S \X T)
      PROVE  /\ Cardinality(X) = Cardinality(Rest(X)) + Cardinality(Row(X))
             /\ Cardinality(Rest(X)) \in Nat /\ Cardinality(Row(X)) \in Nat
  <2>1. IsFiniteSet(X) /\ IsFiniteSet(Rest(X)) /\ IsFiniteSet(Row(X))
    <3>1. IsFiniteSet(X)
      BY <1>1, FS_Subset
    <3>2. Rest(X) \subseteq X /\ Row(X) \subseteq T
      OBVIOUS
    <3> QED BY <3>1, <3>2, FS_Subset
  <2>2. IsFiniteSet({p} \X Row(X)) /\ Cardinality({p} \X Row(X)) = Cardinality(Row(X))
    <3>1. IsFiniteSet({p}) /\ Cardinality({p}) = 1
      BY FS_Singleton
    <3>2. Cardinality(Row(X)) \in Nat
      BY <2>1, FS_CardinalityType
    <3>3. /\ IsFiniteSet({p} \X Row(X))
          /\ Cardinality({p} \X Row(X)) = Cardinality({p}) * Cardinality(Row(X))
      BY <2>1, <3>1, FS_Product
    <3> QED BY <3>1, <3>2, <3>3
  <2>3. X = Rest(X) \union ({p} \X Row(X))
    <3>1. ASSUME NEW x \in X PROVE x \in Rest(X) \union ({p} \X Row(X))
      <4>1. PICK s \in S, t \in T : x = <<s, t>>
        OBVIOUS
      <4> QED BY <4>1
    <3>2. ASSUME NEW x \in {p} \X Row(X) PROVE x \in X
      BY <1>0
    <3> QED BY <3>1, <3>2
  <2>4. Rest(X) \intersect ({p} \X Row(X)) = {}
    OBVIOUS
  <2>5. Cardinality(Rest(X) \intersect ({p} \X Row(X))) = 0
    BY <2>4, FS_EmptySet
  <2>6. Cardinality(Rest(X)) \in Nat /\ Cardinality(Row(X)) \in Nat
    BY <2>1, FS_CardinalityType
  <2>7. Cardinality(Rest(X) \union ({p} \X Row(X)))
        = Cardinality(Rest(X)) + Cardinality({p} \X Row(X))
          - Cardinality(Rest(X) \intersect ({p} \X Row(X)))
    <3> HIDE DEF Rest, Row
    <3> QED BY <2>1, <2>2, FS_Union
  <2>8. Cardinality(X) = Cardinality(Rest(X) \union ({p} \X Row(X)))
    BY <2>3
  <2> HIDE DEF Rest, Row
  <2> QED BY <2>2, <2>5, <2>6, <2>7, <2>8
<1>3. Rest(A) = Rest(B)
  <2>1. ASSUME NEW s \in S, NEW t \in T PROVE <<s, t>> \in Rest(A) <=> <<s, t>> \in Rest(B)
    <3>1. <<s, t>>[1] = s
      OBVIOUS
    <3> QED BY <3>1 DEF SameElsewhere
  <2>2. ASSUME NEW x \in S \X T PROVE x \in Rest(A) <=> x \in Rest(B)
    <3>1. PICK s \in S, t \in T : x = <<s, t>>
      OBVIOUS
    <3> QED BY <2>1, <3>1
  <2> QED BY <1>0, <2>2
<1>4. /\ Cardinality(A) = Cardinality(Rest(A)) + Cardinality(Row(A))
      /\ Cardinality(Rest(A)) \in Nat /\ Cardinality(Row(A)) \in Nat
  BY <1>0, <1>2
<1>5. /\ Cardinality(B) = Cardinality(Rest(B)) + Cardinality(Row(B))
      /\ Cardinality(Rest(B)) \in Nat /\ Cardinality(Row(B)) \in Nat
  BY <1>0, <1>2
<1>6. /\ Cardinality(A) \in Nat /\ Cardinality(B) \in Nat
      /\ Cardinality(Row(A)) \in Nat /\ Cardinality(Row(B)) \in Nat
      /\ Cardinality(Row(A)) <= Cardinality(A)
      /\ Cardinality(B) + Cardinality(Row(A)) = Cardinality(A) + Cardinality(Row(B))
  <2> HIDE DEF Rest, Row
  <2> QED BY <1>3, <1>4, <1>5
<1>7. Row(A) = C /\ Row(B) = D
  BY DEF IsRow
<1> HIDE DEF Rest, Row
<1> QED BY <1>6, <1>7

(* A set of one element, and of none.                                       *)
LEMMA SmallSets ==
  ASSUME NEW A, IsFiniteSet(A)
  PROVE  /\ Cardinality(A) \in Nat
         /\ Cardinality(A) = 0 => A = {}
         /\ Cardinality(A) = 1 => \A x, y \in A : x = y
<1>1. Cardinality(A) \in Nat /\ (Cardinality(A) = 0 <=> A = {})
  BY FS_CardinalityType, FS_EmptySet
<1>2. ASSUME Cardinality(A) = 1, NEW x \in A, NEW y \in A PROVE x = y
  <2>1. IsFiniteSet(A \ {x}) /\ Cardinality(A \ {x}) = 0
    BY <1>2, FS_RemoveElement
  <2>2. A \ {x} = {}
    BY <2>1, FS_EmptySet
  <2> QED BY <2>2
<1> QED BY <1>1, <1>2
-----------------------------------------------------------------------------
(* The entries and the local variables that refer to a page, and those of   *)
(* one task; the page tables in use and the tasks there are.                *)
Users(pg) == {x \in Procs \X Addrs : pte[x[1]][x[2]].page = pg}
Holders(pg) == {p \in Procs : loc[p].page = pg}
Row(p, pg) == {a \in Addrs : pte[p][a].page = pg}
AllTables == {x \in Procs \X Dirs : dir[x[1]][x[2]]}
Tasks == {p \in Procs : pc[p] # "none"}
Used(map) == {pg \in Pages : map[pg] # 0}

(* Everything is finite.                                                    *)
LEMMA AllFinite ==
  /\ IsFiniteSet(Procs) /\ IsFiniteSet(Addrs) /\ IsFiniteSet(Dirs) /\ IsFiniteSet(Pages)
  /\ IsFiniteSet(Procs \X Addrs)
  /\ Cardinality(Pages) = PAGING_PAGES
<1>1. NR_TASKS \in Nat /\ PAGING_PAGES \in Nat /\ IsFiniteSet(Addrs)
  BY MemoryAssumption
<1>2. /\ IsFiniteSet(Procs) /\ IsFiniteSet(Pages)
      /\ Cardinality(Pages) = PAGING_PAGES
  <2>1. IsFiniteSet(1 .. NR_TASKS)
    BY <1>1, FS_Interval
  <2>2. /\ IsFiniteSet(1 .. PAGING_PAGES)
        /\ Cardinality(1 .. PAGING_PAGES) = IF 1 > PAGING_PAGES THEN 0 ELSE PAGING_PAGES - 1 + 1
    BY <1>1, FS_Interval
  <2> QED BY <1>1, <2>1, <2>2 DEF Procs, Pages
<1>3. IsFiniteSet(Dirs)
  <2>1. DirOf \in Surjection(Addrs, Dirs)
    BY MemoryAssumption DEF Surjection, Dirs
  <2> QED BY <1>1, <2>1, FS_Surjection
<1> QED BY <1>1, <1>2, <1>3, FS_Product

(* References, in these words.                                              *)
LEMMA ReferenceSets ==
  ASSUME NEW pg \in Pages
  PROVE  /\ References(pg) = Cardinality(Users(pg)) + Cardinality(Holders(pg))
         /\ IsFiniteSet(Users(pg)) /\ IsFiniteSet(Holders(pg))
         /\ Cardinality(Users(pg)) \in Nat /\ Cardinality(Holders(pg)) \in Nat
<1>1. Users(pg) \subseteq Procs \X Addrs /\ Holders(pg) \subseteq Procs
  BY DEF Users, Holders
<1>2. IsFiniteSet(Users(pg)) /\ IsFiniteSet(Holders(pg))
  BY <1>1, AllFinite, FS_Subset
<1>3. Cardinality(Users(pg)) \in Nat /\ Cardinality(Holders(pg)) \in Nat
  BY <1>2, FS_CardinalityType
<1> QED BY <1>2, <1>3 DEF References, Users, Holders

(* The pairs that refer to a page.                                          *)
LEMMA UsersPair ==
  ASSUME NEW pg \in Pages, NEW p \in Procs, NEW a \in Addrs
  PROVE  <<p, a>> \in Users(pg) <=> pte[p][a].page = pg
<1>1. <<p, a>> \in Procs \X Addrs /\ <<p, a>>[1] = p /\ <<p, a>>[2] = a
  OBVIOUS
<1> QED BY <1>1 DEF Users

(* A page counted at most once has at most one user.                        *)
LEMMA SoleUser ==
  ASSUME MemMapCounts, NEW pg \in Pages, mem_map[pg] = 1
  PROVE  /\ \A p, q \in Procs : \A a, b \in Addrs :
              pte[p][a].page = pg /\ pte[q][b].page = pg => p = q /\ a = b
         /\ \A p, q \in Procs : \A a \in Addrs : ~(pte[p][a].page = pg /\ loc[q].page = pg)
         /\ \A p, q \in Procs : loc[p].page = pg /\ loc[q].page = pg => p = q
<1>1. Cardinality(Users(pg)) + Cardinality(Holders(pg)) = 1
  BY ReferenceSets DEF MemMapCounts
<1>2. /\ IsFiniteSet(Users(pg)) /\ IsFiniteSet(Holders(pg))
      /\ Cardinality(Users(pg)) \in Nat /\ Cardinality(Holders(pg)) \in Nat
  BY ReferenceSets
<1>3. \/ Cardinality(Users(pg)) = 0 /\ Cardinality(Holders(pg)) = 1
      \/ Cardinality(Users(pg)) = 1 /\ Cardinality(Holders(pg)) = 0
  BY <1>1, <1>2
<1>4. /\ Users(pg) = {} \/ Holders(pg) = {}
      /\ \A x, y \in Users(pg) : x = y
      /\ \A x, y \in Holders(pg) : x = y
  BY <1>2, <1>3, SmallSets
<1>5. ASSUME NEW p \in Procs, NEW q \in Procs, NEW a \in Addrs, NEW b \in Addrs,
             pte[p][a].page = pg, pte[q][b].page = pg
      PROVE  p = q /\ a = b
  <2>1. <<p, a>> \in Users(pg) /\ <<q, b>> \in Users(pg)
    BY <1>5, UsersPair
  <2>2. <<p, a>> = <<q, b>>
    BY <1>4, <2>1
  <2> QED BY <2>2
<1>6. ASSUME NEW p \in Procs, NEW q \in Procs, NEW a \in Addrs,
             pte[p][a].page = pg, loc[q].page = pg
      PROVE  FALSE
  <2>1. <<p, a>> \in Users(pg) /\ q \in Holders(pg)
    BY <1>6, UsersPair DEF Holders
  <2> QED BY <1>4, <2>1
<1>7. ASSUME NEW p \in Procs, NEW q \in Procs, loc[p].page = pg, loc[q].page = pg
      PROVE  p = q
  BY <1>4, <1>7 DEF Holders
<1> QED BY <1>5, <1>6, <1>7

(* A page that is not counted has none.                                     *)
LEMMA NoUser ==
  ASSUME MemMapCounts, NEW pg \in Pages, mem_map[pg] = 0
  PROVE  /\ \A p \in Procs : \A a \in Addrs : pte[p][a].page # pg
         /\ \A p \in Procs : loc[p].page # pg
<1>1. Cardinality(Users(pg)) + Cardinality(Holders(pg)) = 0
  BY ReferenceSets DEF MemMapCounts
<1>2. /\ IsFiniteSet(Users(pg)) /\ IsFiniteSet(Holders(pg))
      /\ Cardinality(Users(pg)) \in Nat /\ Cardinality(Holders(pg)) \in Nat
  BY ReferenceSets
<1>3. Cardinality(Users(pg)) = 0 /\ Cardinality(Holders(pg)) = 0
  BY <1>1, <1>2
<1>4. Users(pg) = {} /\ Holders(pg) = {}
  BY <1>2, <1>3, SmallSets
<1> QED BY <1>4, UsersPair DEF Holders

(* get_free_page() finds a page when some page is not in use ...            *)
LEMMA FreePageIsFree ==
  ASSUME NEW map \in [Pages -> Nat], Cardinality(Used(map)) < PAGING_PAGES
  PROVE  FreePage(map) \in Pages /\ map[FreePage(map)] = 0
<1>1. Used(map) \subseteq Pages
  BY DEF Used
<1>2. Cardinality(Used(map)) \in Nat /\ PAGING_PAGES \in Nat
  BY <1>1, AllFinite, FS_Subset, FS_CardinalityType, MemoryAssumption
<1>3. Used(map) # Pages
  BY <1>2, AllFinite
<1>4. \E pg \in Pages : map[pg] = 0
  BY <1>1, <1>3 DEF Used
<1> QED BY <1>4 DEF FreePage

(* ... as one is when pages are left.                                       *)
LEMMA NewPageIsFree ==
  ASSUME TypeOK, Left > 0
  PROVE  NewPage \in Pages /\ mem_map[NewPage] = 0
<1>1. Used(mem_map) \subseteq Pages
  BY DEF Used
<1>2. Cardinality(Used(mem_map)) \in Nat
  BY <1>1, AllFinite, FS_Subset, FS_CardinalityType
<1>3. Left = PAGING_PAGES - kernel_pages - arg_pages - Cardinality(Used(mem_map))
  BY DEF Left, Used
<1>4. /\ kernel_pages \in Nat /\ arg_pages \in Nat /\ PAGING_PAGES \in Nat
      /\ mem_map \in [Pages -> Nat]
  BY MemoryAssumption DEF TypeOK
<1>5. Cardinality(Used(mem_map)) < PAGING_PAGES
  BY <1>2, <1>3, <1>4
<1> QED BY <1>4, <1>5, FreePageIsFree DEF NewPage

(* The pages that are left when one at most is taken.                       *)
LEMMA UsedChanges ==
  ASSUME NEW f \in [Pages -> Nat], NEW g \in [Pages -> Nat], NEW n,
         \A pg \in Pages : g[pg] # 0 => f[pg] # 0 \/ pg = n
  PROVE  /\ Cardinality(Used(f)) \in Nat /\ Cardinality(Used(g)) \in Nat
         /\ Cardinality(Used(g)) <= Cardinality(Used(f)) + 1
         /\ (\A pg \in Pages : g[pg] # 0 => f[pg] # 0) => Cardinality(Used(g)) <= Cardinality(Used(f))
<1>1. Used(f) \subseteq Pages /\ Used(g) \subseteq Pages
  BY DEF Used
<1>2. IsFiniteSet(Used(f)) /\ IsFiniteSet(Used(g))
  BY <1>1, AllFinite, FS_Subset
<1>3. Cardinality(Used(f)) \in Nat /\ Cardinality(Used(g)) \in Nat
  BY <1>2, FS_CardinalityType
<1>4. IsFiniteSet(Used(f) \union {n}) /\ Cardinality(Used(f) \union {n}) <= Cardinality(Used(f)) + 1
  <2>1. IsFiniteSet(Used(f) \union {n})
    BY <1>2, FS_AddElement
  <2>2. \/ Cardinality(Used(f) \union {n}) = Cardinality(Used(f))
        \/ Cardinality(Used(f) \union {n}) = Cardinality(Used(f)) + 1
    BY <1>2, FS_AddElement
  <2> QED BY <1>3, <2>1, <2>2
<1>5. Cardinality(Used(g)) <= Cardinality(Used(f) \union {n})
  <2>1. Used(g) \subseteq Used(f) \union {n}
    BY DEF Used
  <2> QED BY <1>4, <2>1, FS_Subset
<1>6. Cardinality(Used(g)) <= Cardinality(Used(f)) + 1
  <2>1. Cardinality(Used(f) \union {n}) \in Nat
    BY <1>4, FS_CardinalityType
  <2> QED BY <1>3, <1>4, <1>5, <2>1
<1>7. ASSUME \A pg \in Pages : g[pg] # 0 => f[pg] # 0
      PROVE  Cardinality(Used(g)) <= Cardinality(Used(f))
  <2>1. Used(g) \subseteq Used(f)
    BY <1>7 DEF Used
  <2> QED BY <1>2, <2>1, FS_Subset
<1> QED BY <1>3, <1>6, <1>7

(* References when one task's entries and local variables change.           *)
LEMMA TaskChanges ==
  ASSUME TypeOK, MemMapCounts, NEW pg \in Pages, NEW q \in Procs,
         \A p \in Procs \ {q} : /\ loc'[p].page = loc[p].page
                                /\ \A a \in Addrs : pte'[p][a].page = pte[p][a].page
  PROVE  /\ References(pg)' \in Nat
         /\ Cardinality(Row(q, pg)) \in Nat /\ Cardinality(Row(q, pg)') \in Nat
         /\ Cardinality(Row(q, pg)) + Same(loc[q].page, pg) <= mem_map[pg]
         /\ References(pg)' + Cardinality(Row(q, pg)) + Same(loc[q].page, pg)
            = mem_map[pg] + Cardinality(Row(q, pg)') + Same(loc'[q].page, pg)
<1>1. /\ References(pg) = Cardinality(Users(pg)) + Cardinality(Holders(pg))
      /\ Cardinality(Users(pg)) \in Nat /\ Cardinality(Holders(pg)) \in Nat
  BY ReferenceSets
<1>2. /\ References(pg)' = Cardinality(Users(pg)') + Cardinality(Holders(pg)')
      /\ Cardinality(Users(pg)') \in Nat /\ Cardinality(Holders(pg)') \in Nat
  <2>1. Users(pg)' \subseteq Procs \X Addrs /\ Holders(pg)' \subseteq Procs
    BY DEF Users, Holders
  <2>2. IsFiniteSet(Users(pg)') /\ IsFiniteSet(Holders(pg)')
    BY <2>1, AllFinite, FS_Subset
  <2>3. Cardinality(Users(pg)') \in Nat /\ Cardinality(Holders(pg)') \in Nat
    BY <2>2, FS_CardinalityType
  <2> QED BY <2>3 DEF References, Users, Holders
<1>3. ASSUME NEW p \in Procs, NEW a \in Addrs
      PROVE  /\ <<p, a>> \in Users(pg) <=> pte[p][a].page = pg
             /\ <<p, a>> \in Users(pg)' <=> pte'[p][a].page = pg
  <2>1. <<p, a>> \in Procs \X Addrs /\ <<p, a>>[1] = p /\ <<p, a>>[2] = a
    OBVIOUS
  <2> QED BY <2>1 DEF Users
<1>4. IsRow(Row(q, pg), Users(pg), q, Addrs) /\ IsRow(Row(q, pg)', Users(pg)', q, Addrs)
  BY <1>3 DEF Row, IsRow
<1>5. SameElsewhere(Users(pg), Users(pg)', q, Procs, Addrs)
  <2>1. Users(pg) \in SUBSET (Procs \X Addrs) /\ Users(pg)' \in SUBSET (Procs \X Addrs)
    BY DEF Users
  <2> QED BY <1>3, <2>1 DEF SameElsewhere
<1>6. /\ Cardinality(Row(q, pg)) \in Nat /\ Cardinality(Row(q, pg)') \in Nat
      /\ Cardinality(Row(q, pg)) <= Cardinality(Users(pg))
      /\ Cardinality(Users(pg)') + Cardinality(Row(q, pg))
         = Cardinality(Users(pg)) + Cardinality(Row(q, pg)')
  BY <1>4, <1>5, RowChanges, AllFinite
<1>7. /\ Holders(pg) \in SUBSET Procs /\ Holders(pg)' \in SUBSET Procs
      /\ \A p \in Procs \ {q} : p \in Holders(pg) <=> p \in Holders(pg)'
      /\ q \in Holders(pg) <=> loc[q].page = pg
      /\ q \in Holders(pg)' <=> loc'[q].page = pg
  BY DEF Holders
<1>8. Cardinality(Holders(pg)') + One(q \in Holders(pg)) = Cardinality(Holders(pg)) + One(q \in Holders(pg)')
  BY <1>7, OneChanges, AllFinite
<1>9. /\ One(q \in Holders(pg)) = Same(loc[q].page, pg)
      /\ One(q \in Holders(pg)') = Same(loc'[q].page, pg)
      /\ Same(loc[q].page, pg) \in {0, 1} /\ Same(loc'[q].page, pg) \in {0, 1}
  BY <1>7 DEF One, Same
<1>10. Same(loc[q].page, pg) <= Cardinality(Holders(pg))
  <2>1. CASE loc[q].page = pg
    <3>1. Holders(pg) # {} /\ IsFiniteSet(Holders(pg))
      BY <1>7, <2>1, ReferenceSets
    <3>2. Cardinality(Holders(pg)) # 0
      BY <3>1, SmallSets
    <3> QED BY <1>1, <2>1, <3>2 DEF One, Same
  <2>2. CASE loc[q].page # pg
    BY <1>1, <2>2 DEF One, Same
  <2> QED BY <2>1, <2>2
<1>11. mem_map[pg] = Cardinality(Users(pg)) + Cardinality(Holders(pg))
  BY <1>1 DEF MemMapCounts
<1> QED BY <1>1, <1>2, <1>6, <1>8, <1>9, <1>10, <1>11

(* The same when one entry changes.                                         *)
LEMMA EntryChanges ==
  ASSUME TypeOK, MemMapCounts, NEW pg \in Pages, NEW q \in Procs, NEW c \in Addrs,
         \A p \in Procs \ {q} : /\ loc'[p].page = loc[p].page
                                /\ \A a \in Addrs : pte'[p][a].page = pte[p][a].page,
         \A a \in Addrs \ {c} : pte'[q][a].page = pte[q][a].page
  PROVE  /\ References(pg)' \in Nat
         /\ References(pg)' + Same(pte[q][c].page, pg) + Same(loc[q].page, pg)
            = mem_map[pg] + Same(pte'[q][c].page, pg) + Same(loc'[q].page, pg)
<1>1. /\ References(pg)' \in Nat
      /\ Cardinality(Row(q, pg)) \in Nat /\ Cardinality(Row(q, pg)') \in Nat
      /\ References(pg)' + Cardinality(Row(q, pg)) + Same(loc[q].page, pg)
         = mem_map[pg] + Cardinality(Row(q, pg)') + Same(loc'[q].page, pg)
  BY TaskChanges
<1>2. /\ Row(q, pg) \in SUBSET Addrs /\ Row(q, pg)' \in SUBSET Addrs
      /\ \A a \in Addrs \ {c} : a \in Row(q, pg) <=> a \in Row(q, pg)'
      /\ c \in Row(q, pg) <=> pte[q][c].page = pg
      /\ c \in Row(q, pg)' <=> pte'[q][c].page = pg
  BY DEF Row
<1>3. Cardinality(Row(q, pg)') + One(c \in Row(q, pg)) = Cardinality(Row(q, pg)) + One(c \in Row(q, pg)')
  BY <1>2, OneChanges, AllFinite
<1>4. /\ One(c \in Row(q, pg)) = Same(pte[q][c].page, pg)
      /\ One(c \in Row(q, pg)') = Same(pte'[q][c].page, pg)
      /\ Same(pte[q][c].page, pg) \in {0, 1} /\ Same(pte'[q][c].page, pg) \in {0, 1}
      /\ Same(loc[q].page, pg) \in {0, 1} /\ Same(loc'[q].page, pg) \in {0, 1}
  BY <1>2 DEF One, Same
<1>5. mem_map[pg] \in Nat
  BY DEF TypeOK
<1> QED BY <1>1, <1>3, <1>4, <1>5

(* ... or none.                                                             *)
LEMMA NothingChanges ==
  ASSUME TypeOK, MemMapCounts, mem_map' = mem_map,
         \A p \in Procs : /\ loc'[p].page = loc[p].page
                          /\ \A a \in Addrs : pte'[p][a].page = pte[p][a].page
  PROVE  \A pg \in Pages : mem_map'[pg] = References(pg)'
<1> SUFFICES ASSUME NEW pg \in Pages PROVE mem_map[pg] = References(pg)'
  OBVIOUS
<1>1. Users(pg)' = Users(pg)
  <2>1. ASSUME NEW x \in Procs \X Addrs PROVE x[1] \in Procs /\ x[2] \in Addrs
    OBVIOUS
  <2> QED BY <2>1 DEF Users
<1>2. Holders(pg)' = Holders(pg)
  BY DEF Holders
<1>3. References(pg)' = References(pg)
  BY <1>1, <1>2 DEF References, Users, Holders
<1> QED BY <1>3 DEF MemMapCounts

(* The pages of the kernel when one task's page tables and place change.    *)
LEMMA KernelChanges ==
  ASSUME TypeOK, MemMapCounts, scenario \in Scenarios, scenario' = scenario,
         NEW q \in Procs, kernel_pages' \in Int,
         \A p \in Procs \ {q} : dir'[p] = dir[p] /\ pc'[p] = pc[p]
  PROVE  /\ Cardinality(Tables(q)) \in Nat /\ Cardinality(Tables(q)') \in Nat
         /\ Cardinality(Tables(q)) + One(pc[q] # "none") <= kernel_pages
         /\ kernel_pages + Cardinality(Tables(q)') + One(pc'[q] # "none")
            = kernel_pages' + Cardinality(Tables(q)) + One(pc[q] # "none")
            => kernel_pages' = scenario'.used + Cardinality({p \in Procs : pc'[p] # "none"})
                               + Cardinality({x \in Procs \X Dirs : dir'[x[1]][x[2]]})
<1>1. ASSUME NEW p \in Procs, NEW d \in Dirs
      PROVE  /\ <<p, d>> \in AllTables <=> dir[p][d]
             /\ <<p, d>> \in AllTables' <=> dir'[p][d]
  <2>1. <<p, d>> \in Procs \X Dirs /\ <<p, d>>[1] = p /\ <<p, d>>[2] = d
    OBVIOUS
  <2> QED BY <2>1 DEF AllTables
<1>2. IsRow(Tables(q), AllTables, q, Dirs) /\ IsRow(Tables(q)', AllTables', q, Dirs)
  BY <1>1 DEF Tables, IsRow
<1>3. SameElsewhere(AllTables, AllTables', q, Procs, Dirs)
  <2>1. AllTables \in SUBSET (Procs \X Dirs) /\ AllTables' \in SUBSET (Procs \X Dirs)
    BY DEF AllTables
  <2> QED BY <1>1, <2>1 DEF SameElsewhere
<1>4. /\ Cardinality(Tables(q)) \in Nat /\ Cardinality(Tables(q)') \in Nat
      /\ Cardinality(AllTables) \in Nat /\ Cardinality(AllTables') \in Nat
      /\ Cardinality(Tables(q)) <= Cardinality(AllTables)
      /\ Cardinality(AllTables') + Cardinality(Tables(q))
         = Cardinality(AllTables) + Cardinality(Tables(q)')
  BY <1>2, <1>3, RowChanges, AllFinite
<1>5. /\ Tasks \in SUBSET Procs /\ Tasks' \in SUBSET Procs
      /\ \A p \in Procs \ {q} : p \in Tasks <=> p \in Tasks'
      /\ q \in Tasks <=> pc[q] # "none"
      /\ q \in Tasks' <=> pc'[q] # "none"
  BY DEF Tasks
<1>6. /\ Cardinality(Tasks) \in Nat /\ Cardinality(Tasks') \in Nat
      /\ Cardinality(Tasks') + One(q \in Tasks) = Cardinality(Tasks) + One(q \in Tasks')
  BY <1>5, OneChanges, AllFinite
<1>7. /\ One(q \in Tasks) = One(pc[q] # "none")
      /\ One(q \in Tasks') = One(pc'[q] # "none")
      /\ One(pc[q] # "none") \in {0, 1} /\ One(pc'[q] # "none") \in {0, 1}
  BY <1>5 DEF One
<1>8. One(pc[q] # "none") <= Cardinality(Tasks)
  <2>1. CASE pc[q] # "none"
    <3>1. Tasks # {} /\ IsFiniteSet(Tasks)
      BY <1>5, <2>1, AllFinite, FS_Subset
    <3>2. Cardinality(Tasks) # 0
      BY <3>1, SmallSets
    <3> QED BY <1>6, <2>1, <3>2 DEF One
  <2>2. CASE pc[q] = "none"
    BY <1>6, <2>2 DEF One
  <2> QED BY <2>1, <2>2
<1>9. kernel_pages = scenario.used + Cardinality(Tasks) + Cardinality(AllTables)
  BY DEF MemMapCounts, Tasks, AllTables
<1>10. /\ Tasks' = {p \in Procs : pc'[p] # "none"}
       /\ AllTables' = {x \in Procs \X Dirs : dir'[x[1]][x[2]]}
  BY DEF Tasks, AllTables
<1>11. scenario.used \in Nat /\ kernel_pages \in Nat
  BY MemoryAssumption DEF TypeOK
<1>12. Cardinality(Tables(q)) + One(pc[q] # "none") <= kernel_pages
  BY <1>4, <1>6, <1>7, <1>8, <1>9, <1>11
<1>13. ASSUME kernel_pages + Cardinality(Tables(q)') + One(pc'[q] # "none")
              = kernel_pages' + Cardinality(Tables(q)) + One(pc[q] # "none")
       PROVE  kernel_pages' = scenario.used + Cardinality(Tasks') + Cardinality(AllTables')
  BY <1>4, <1>6, <1>7, <1>9, <1>11, <1>13
<1> QED BY <1>4, <1>10, <1>12, <1>13
-----------------------------------------------------------------------------
(* MemMapCounts, in two parts.                                              *)
PagesRight == \A pg \in Pages : mem_map[pg] = References(pg)
KernelRight ==
  kernel_pages = scenario.used + Cardinality({p \in Procs : pc[p] # "none"})
                 + Cardinality({x \in Procs \X Dirs : dir[x[1]][x[2]]})

(* Pages are left when no page is taken but k for page tables, or one more. *)
LEMMA LeftChanges ==
  ASSUME TypeOK, TypeOK', arg_pages' = arg_pages, NEW k \in Nat,
         kernel_pages' <= kernel_pages + k
  PROVE  /\ (\A pg \in Pages : mem_map'[pg] # 0 => mem_map[pg] # 0) /\ Left >= k => Left' >= 0
         /\ \A n : (\A pg \in Pages : mem_map'[pg] # 0 => mem_map[pg] # 0 \/ pg = n) /\ Left > k
                   => Left' >= 0
<1>1. /\ Left = PAGING_PAGES - kernel_pages - arg_pages - Cardinality(Used(mem_map))
      /\ Left' = PAGING_PAGES - kernel_pages' - arg_pages - Cardinality(Used(mem_map'))
  BY DEF Left, Used
<1>2. /\ kernel_pages \in Nat /\ kernel_pages' \in Nat /\ PAGING_PAGES \in Nat
      /\ arg_pages \in Nat
      /\ mem_map \in [Pages -> Nat] /\ mem_map' \in [Pages -> Nat]
  BY MemoryAssumption DEF TypeOK
<1>3. Cardinality(Used(mem_map)) \in Nat /\ Cardinality(Used(mem_map')) \in Nat
  <2>1. Used(mem_map) \subseteq Pages /\ Used(mem_map') \subseteq Pages
    BY DEF Used
  <2> QED BY <2>1, AllFinite, FS_Subset, FS_CardinalityType
<1>4. ASSUME \A pg \in Pages : mem_map'[pg] # 0 => mem_map[pg] # 0, Left >= k
      PROVE  Left' >= 0
  <2>1. Cardinality(Used(mem_map')) <= Cardinality(Used(mem_map))
    BY <1>2, <1>4, UsedChanges
  <2> QED BY <1>1, <1>2, <1>3, <1>4, <2>1
<1>5. ASSUME NEW n, \A pg \in Pages : mem_map'[pg] # 0 => mem_map[pg] # 0 \/ pg = n, Left > k
      PROVE  Left' >= 0
  <2>1. Cardinality(Used(mem_map')) <= Cardinality(Used(mem_map)) + 1
    BY <1>2, <1>5, UsedChanges
  <2> QED BY <1>1, <1>2, <1>3, <1>5, <2>1
<1> QED BY <1>4, <1>5

(* A number of pages is left.                                               *)
LEMMA LeftType == TypeOK => Left \in Int
<1> SUFFICES ASSUME TypeOK PROVE Left \in Int
  OBVIOUS
<1>1. Used(mem_map) \subseteq Pages
  BY DEF Used
<1>2. Cardinality(Used(mem_map)) \in Nat
  BY <1>1, AllFinite, FS_Subset, FS_CardinalityType
<1> QED BY <1>2, MemoryAssumption DEF Left, Used, TypeOK

(* Tasks and page tables that stay what they are.                           *)
LEMMA KernelSame ==
  ASSUME MemInv, scenario' = scenario, UNCHANGED <<kernel_pages, dir>>,
         \A r \in Procs : pc'[r] = "none" <=> pc[r] = "none"
  PROVE  KernelRight'
<1>1. {p \in Procs : pc'[p] # "none"} = {p \in Procs : pc[p] # "none"}
  OBVIOUS
<1> QED BY <1>1 DEF KernelRight, MemInv, MemMapCounts

(* A page table added when it is not there.                                 *)
LEMMA TableAdded ==
  ASSUME MemInv, scenario' = scenario, NEW p \in Procs, NEW a \in Addrs, AddTable(p, a),
         \A r \in Procs \ {p} : pc'[r] = pc[r], pc'[p] = "none" <=> pc[p] = "none"
  PROVE  /\ NewTable(p, a) \in {0, 1} /\ kernel_pages' = kernel_pages + NewTable(p, a)
         /\ dir' \in [Procs -> [Dirs -> BOOLEAN]]
         /\ \A r \in Procs : \A d \in Dirs :
              dir'[r][d] = IF r = p /\ d = DirOf[a] THEN TRUE ELSE dir[r][d]
         /\ KernelRight'
<1>1. TypeOK /\ MemMapCounts /\ scenario \in Scenarios
  BY DEF MemInv
<1>2. dir \in [Procs -> [Dirs -> BOOLEAN]] /\ kernel_pages \in Nat
  BY <1>1 DEF TypeOK
<1>3. DirOf[a] \in Dirs
  BY DEF Dirs
<1>4. dir' = [dir EXCEPT ![p][DirOf[a]] = TRUE] /\ kernel_pages' = kernel_pages + NewTable(p, a)
  BY DEF AddTable
<1>5. NewTable(p, a) \in {0, 1} /\ NewTable(p, a) = One(~dir[p][DirOf[a]])
  BY <1>2, <1>3 DEF NewTable, One
<1>6. /\ dir' \in [Procs -> [Dirs -> BOOLEAN]]
      /\ \A r \in Procs : \A d \in Dirs :
           dir'[r][d] = IF r = p /\ d = DirOf[a] THEN TRUE ELSE dir[r][d]
      /\ \A r \in Procs \ {p} : dir'[r] = dir[r]
  BY <1>2, <1>3, <1>4
<1>7. Cardinality(Tables(p)') = Cardinality(Tables(p)) + NewTable(p, a)
  <2>1. /\ Tables(p) \in SUBSET Dirs /\ Tables(p)' \in SUBSET Dirs
        /\ \A d \in Dirs \ {DirOf[a]} : d \in Tables(p) <=> d \in Tables(p)'
        /\ DirOf[a] \in Tables(p) <=> dir[p][DirOf[a]]
        /\ DirOf[a] \in Tables(p)'
    BY <1>3, <1>6 DEF Tables
  <2>2. /\ Cardinality(Tables(p)) \in Nat /\ Cardinality(Tables(p)') \in Nat
        /\ Cardinality(Tables(p)') + One(DirOf[a] \in Tables(p))
           = Cardinality(Tables(p)) + One(DirOf[a] \in Tables(p)')
    BY <1>3, <2>1, OneChanges, AllFinite
  <2>3. /\ One(DirOf[a] \in Tables(p)) = 1 - NewTable(p, a)
        /\ One(DirOf[a] \in Tables(p)') = 1
    BY <1>5, <2>1 DEF One
  <2> QED BY <1>5, <2>2, <2>3
<1>8. KernelRight'
  <2>1. One(pc'[p] # "none") = One(pc[p] # "none") /\ One(pc[p] # "none") \in {0, 1}
    BY DEF One
  <2>2. kernel_pages' \in Int
    BY <1>2, <1>4, <1>5
  <2>3. Cardinality(Tables(p)) \in Nat
    BY <1>1, <1>6, <2>2, KernelChanges
  <2>4. kernel_pages + Cardinality(Tables(p)') + One(pc'[p] # "none")
        = kernel_pages' + Cardinality(Tables(p)) + One(pc[p] # "none")
    BY <1>2, <1>4, <1>5, <1>7, <2>1, <2>3
  <2> QED BY <1>1, <1>6, <2>2, <2>4, KernelChanges DEF KernelRight
<1> QED BY <1>4, <1>5, <1>6, <1>8

(* The parts put together again.                                            *)
LEMMA Counted ==
  ASSUME PagesRight', KernelRight', Left' >= 0
  PROVE  MemMapCounts'
BY DEF MemMapCounts, PagesRight, KernelRight

(* mem_map is right when it changes as one entry and one task's local       *)
(* variables do.                                                            *)
LEMMA EntryCounted ==
  ASSUME TypeOK, MemMapCounts, mem_map' \in [Pages -> Int], NEW q \in Procs, NEW c \in Addrs,
         \A p \in Procs \ {q} : loc'[p] = loc[p],
         \A p \in Procs : \A a \in Addrs : p # q \/ a # c => pte'[p][a].page = pte[p][a].page,
         \A pg \in Pages :
           mem_map'[pg] + Same(pte[q][c].page, pg) + Same(loc[q].page, pg)
           = mem_map[pg] + Same(pte'[q][c].page, pg) + Same(loc'[q].page, pg)
  PROVE  PagesRight'
<1> SUFFICES ASSUME NEW pg \in Pages PROVE mem_map'[pg] = References(pg)'
  BY DEF PagesRight
<1>1. /\ References(pg)' \in Nat
      /\ References(pg)' + Same(pte[q][c].page, pg) + Same(loc[q].page, pg)
         = mem_map[pg] + Same(pte'[q][c].page, pg) + Same(loc'[q].page, pg)
  BY EntryChanges
<1>2. /\ Same(pte[q][c].page, pg) \in {0, 1} /\ Same(loc[q].page, pg) \in {0, 1}
      /\ Same(pte'[q][c].page, pg) \in {0, 1} /\ Same(loc'[q].page, pg) \in {0, 1}
  BY DEF Same
<1>3. mem_map[pg] \in Nat /\ mem_map'[pg] \in Int
  BY DEF TypeOK
<1> QED BY <1>1, <1>2, <1>3

(* Task r stays where it is, or goes into a call that stores to its memory. *)
SamePlace(r) ==
  \/ pc'[r] = pc[r] /\ loc'[r] = loc[r]
  \/ /\ pc[r] = "user" /\ pc'[r] = "kernel"
     /\ loc'[r].page = 0 /\ loc'[r].addr \in Addrs
     /\ "read" \in scenario.ops

(* A task whose entries keep their pages keeps what it finds there, when    *)
(* only pages it does not use are stored to.  Its pages may be protected    *)
(* when they are clean, or by fork().                                       *)
LEMMA OtherTask ==
  ASSUME MemInv, scenario' = scenario, NEW r \in Procs, SamePlace(r),
         executable'[r] = executable[r], image'[r] = image[r],
         \A d \in Dirs : dir'[r][d] = dir[r][d],
         \A b \in Addrs : /\ pte'[r][b].page = pte[r][b].page
                          /\ pte'[r][b].dirty = pte[r][b].dirty
                          /\ pte[r][b].w => \/ pte'[r][b].w \/ ~pte[r][b].dirty
                                            \/ "fork" \in scenario.ops
                          /\ Present(r, b) => content'[pte[r][b].page] = content[pte[r][b].page],
         loc[r].page # 0 => content'[loc[r].page] = content[loc[r].page]
  PROVE  TaskRight(r)' /\ MemoryRight(r)'
<1>1. TaskRight(r) /\ MemoryRight(r)
  BY DEF MemInv
<1>2. DirOf[Stack] \in Dirs
  BY MemoryAssumption DEF Dirs
<1>3. \A b \in Addrs : Present(r, b)' = Present(r, b)
  BY DEF Present
<1>4. TaskRight(r)'
  <2>1. CASE pc'[r] = pc[r] /\ loc'[r] = loc[r]
    BY <1>1, <1>2, <1>3, <2>1 DEF TaskRight, FromFile
  <2>2. CASE pc[r] = "user" /\ pc'[r] = "kernel" /\ loc'[r].page = 0 /\ loc'[r].addr \in Addrs
    BY <1>1, <1>2, <1>3, <2>2 DEF TaskRight
  <2> QED BY <2>1, <2>2 DEF SamePlace
<1>5. \A b \in Addrs : View(r, b)' = View(r, b)
  BY <1>3 DEF View, FromFile
<1>6. MemoryRight(r)'
  <2> SUFFICES ASSUME Separate PROVE MemoryRight(r)'
    BY DEF MemoryRight, Separate
  <2>1. pc'[r] = pc[r] /\ loc'[r] = loc[r]
    BY DEF SamePlace, Separate
  <2>2. /\ pc'[r] \notin {"kernel", "args", "exec"}
        /\ pc'[r] = "load" => loc'[r].ret = "user"
        /\ "fork" \in scenario'.ops => executable'[r] = NULL
        /\ HasMemory(r)' => HasMemory(r)
    BY <1>1, <2>1 DEF MemoryRight, HasMemory
  <2>3. ASSUME executable'[r] # NULL, NEW a \in ExecAddrs, Present(r, a)'
        PROVE  /\ pte'[r][a].w \/ ~pte'[r][a].dirty
               /\ ~pte'[r][a].dirty => content'[pte'[r][a].page] = executable'[r]
    <3>1. a \in Addrs
      BY MemoryAssumption
    <3>2. Present(r, a) /\ executable[r] # NULL /\ "fork" \notin scenario.ops
      BY <1>1, <1>3, <2>3, <3>1 DEF MemoryRight
    <3>3. /\ pte[r][a].w \/ ~pte[r][a].dirty
          /\ ~pte[r][a].dirty => content[pte[r][a].page] = executable[r]
      BY <1>1, <3>2 DEF MemoryRight
    <3> QED BY <3>1, <3>2, <3>3
  <2>4. HasMemory(r)' => \A b \in Addrs : View(r, b)' = image'[r][b]
    BY <1>1, <1>5, <2>2 DEF MemoryRight
  <2> QED BY <2>2, <2>3, <2>4 DEF MemoryRight
<1> QED BY <1>4, <1>6

(* The types of what the tables hold.                                       *)
LEMMA Types ==
  ASSUME TypeOK
  PROVE  /\ 0 \notin Pages
         /\ \A pg \in Pages : mem_map[pg] \in Nat
         /\ \A r \in Procs : \A b \in Addrs : /\ pte[r][b].page \in Pages \union {0}
                                              /\ pte[r][b].w \in BOOLEAN
                                              /\ pte[r][b].dirty \in BOOLEAN
         /\ \A r \in Procs : loc[r].page \in Pages \union {0}
<1>1. 0 \notin Pages
  BY DEF Pages
<1>2. mem_map \in [Pages -> Nat]
  BY DEF TypeOK
<1>3. pte \in [Procs -> [Addrs -> Entries]]
  BY DEF TypeOK
<1>4. ASSUME NEW r \in Procs PROVE loc[r].page \in Pages \union {0}
  BY DEF TypeOK
<1>5. ASSUME NEW r \in Procs, NEW b \in Addrs
      PROVE  /\ pte[r][b].page \in Pages \union {0}
             /\ pte[r][b].w \in BOOLEAN
             /\ pte[r][b].dirty \in BOOLEAN
  BY <1>3 DEF Entries
<1> QED BY <1>1, <1>2, <1>4, <1>5

(* The page get_free_page() returns is nobody's.                            *)
LEMMA Fresh ==
  ASSUME MemInv, Left > 0
  PROVE  /\ NewPage \in Pages /\ mem_map[NewPage] = 0
         /\ \A r \in Procs : \A b \in Addrs : pte[r][b].page # NewPage
         /\ \A r \in Procs : loc[r].page # NewPage
<1>1. TypeOK /\ MemMapCounts
  BY DEF MemInv
<1>2. NewPage \in Pages /\ mem_map[NewPage] = 0
  BY <1>1, NewPageIsFree
<1> QED BY <1>1, <1>2, NoUser

(* Whoever stores to a page, or fills one, is its only user.                *)
LEMMA Alone ==
  ASSUME MemInv, NEW pg \in Pages, mem_map[pg] = 1
  PROVE  /\ \A p, q \in Procs : \A a, b \in Addrs :
              pte[p][a].page = pg /\ pte[q][b].page = pg => p = q /\ a = b
         /\ \A p, q \in Procs : \A a \in Addrs : ~(pte[p][a].page = pg /\ loc[q].page = pg)
         /\ \A p, q \in Procs : loc[p].page = pg /\ loc[q].page = pg => p = q
<1>1. MemMapCounts
  BY DEF MemInv
<1> QED BY <1>1, SoleUser
-----------------------------------------------------------------------------
(* get_empty_page(), used by do_no_page() outside the executable.           *)
LEMMA GetEmptyPageStep ==
  ASSUME MemInv, UNCHANGED <<scenario, arg_pages>>, NEW p \in Procs, NEW a \in Addrs, GetEmptyPage(p, a)
  PROVE  MemInv'
<1> DEFINE n == NewPage
<1>1. /\ TypeOK /\ MemMapCounts /\ StoresAlone /\ scenario \in Scenarios
      /\ TaskRight(p) /\ MemoryRight(p)
  BY DEF MemInv
<1>2. /\ pc[p] \in {"user", "kernel", "args"} /\ pte[p][a].page = 0 /\ ~FromFile(p, a)
      /\ Left >= 1 + NewTable(p, a)
      /\ AddTable(p, a)
      /\ pte' = [pte EXCEPT ![p][a] = [page |-> n, w |-> TRUE, dirty |-> FALSE]]
      /\ mem_map' = [mem_map EXCEPT ![n] = 1]
      /\ content' = [content EXCEPT ![n] = Zero]
      /\ UNCHANGED <<executable, pc, loc, image>>
  BY DEF GetEmptyPage, Faults, PutPage, Present
<1>3. /\ NewTable(p, a) \in {0, 1} /\ kernel_pages' = kernel_pages + NewTable(p, a)
      /\ dir' \in [Procs -> [Dirs -> BOOLEAN]]
      /\ \A r \in Procs : \A d \in Dirs :
           dir'[r][d] = IF r = p /\ d = DirOf[a] THEN TRUE ELSE dir[r][d]
      /\ KernelRight'
  BY <1>2, TableAdded
<1>4. Left \in Int /\ Left > 0
  <2>1. Left \in Int
    BY <1>1, LeftType
  <2> QED BY <1>2, <1>3, <2>1
<1>5. /\ n \in Pages /\ mem_map[n] = 0
      /\ \A r \in Procs : \A b \in Addrs : pte[r][b].page # n
      /\ \A r \in Procs : loc[r].page # n
  BY <1>4, Fresh
<1> HIDE DEF n
<1>6. /\ \A r \in Procs : \A b \in Addrs :
           pte'[r][b] = IF r = p /\ b = a THEN [page |-> n, w |-> TRUE, dirty |-> FALSE]
                        ELSE pte[r][b]
      /\ pte' \in [Procs -> [Addrs -> Entries]]
      /\ \A pg \in Pages : mem_map'[pg] = IF pg = n THEN 1 ELSE mem_map[pg]
      /\ mem_map' \in [Pages -> Nat]
      /\ \A pg \in Pages : content'[pg] = IF pg = n THEN Zero ELSE content[pg]
      /\ content' \in [Pages -> Vals]
  BY <1>1, <1>2, <1>5 DEF TypeOK, Entries, Vals
<1>7. TypeOK'
  BY <1>1, <1>2, <1>3, <1>6 DEF TypeOK
<1>8. PagesRight'
  <2>1. ASSUME NEW pg \in Pages
        PROVE  mem_map'[pg] + Same(pte[p][a].page, pg) + Same(loc[p].page, pg)
               = mem_map[pg] + Same(pte'[p][a].page, pg) + Same(loc'[p].page, pg)
    <3>1. /\ pte[p][a].page # pg /\ pte'[p][a].page = n /\ loc'[p].page = loc[p].page
          /\ mem_map[pg] \in Nat
      BY <1>1, <1>2, <1>6, Types
    <3> QED BY <1>5, <1>6, <3>1 DEF Same
  <2> QED BY <1>1, <1>2, <1>6, <2>1, EntryCounted
<1>9. Left' >= 0
  <2>1. \A pg \in Pages : mem_map'[pg] # 0 => mem_map[pg] # 0 \/ pg = n
    BY <1>6
  <2>2. NewTable(p, a) \in Nat /\ kernel_pages' <= kernel_pages + NewTable(p, a) /\ Left > NewTable(p, a)
    BY <1>1, <1>2, <1>3, <1>4 DEF TypeOK
  <2> QED BY <1>1, <1>7, <2>1, <2>2, LeftChanges
<1>10. StoresAlone'
  BY <1>1, <1>2, <1>5, <1>6 DEF StoresAlone, TypeOK, Present, Entries, Pages
<1>11. ASSUME NEW r \in Procs \ {p} PROVE TaskRight(r)' /\ MemoryRight(r)'
  <2>1. \A b \in Addrs : pte'[r][b] = pte[r][b] /\ pte[r][b].page \in Pages \union {0}
    BY <1>1, <1>6 DEF TypeOK, Entries
  <2>2. /\ \A b \in Addrs : Present(r, b) => content'[pte[r][b].page] = content[pte[r][b].page]
        /\ loc[r].page # 0 => content'[loc[r].page] = content[loc[r].page]
    BY <1>1, <1>5, <1>6, <2>1, Types DEF Present
  <2>3. SamePlace(r) /\ executable'[r] = executable[r] /\ image'[r] = image[r]
    BY <1>2 DEF SamePlace
  <2>4. \A d \in Dirs : dir'[r][d] = dir[r][d]
    BY <1>3
  <2> QED BY <2>1, <2>2, <2>3, <2>4, OtherTask
<1>12. TaskRight(p)'
  <2>1. DirOf[Stack] \in Dirs
    BY MemoryAssumption DEF Dirs
  <2>2. /\ pc'[p] = pc[p] /\ loc'[p] = loc[p] /\ dir'[p][DirOf[Stack]]
        /\ pc[p] \in {"user", "kernel", "args"}
    BY <1>1, <1>2, <1>3, <2>1 DEF TaskRight
  <2> QED BY <1>1, <2>2 DEF TaskRight
<1>13. MemoryRight(p)'
  <2> SUFFICES ASSUME Separate PROVE MemoryRight(p)'
    BY DEF MemoryRight, Separate
  <2>1. pte'[p][a].page = n /\ n # 0 /\ content'[n] = Zero /\ ~pte'[p][a].dirty /\ pte'[p][a].w
    BY <1>5, <1>6 DEF Pages
  <2>2. \A b \in Addrs \ {a} : /\ pte'[p][b] = pte[p][b]
                               /\ Present(p, b) => content'[pte[p][b].page] = content[pte[p][b].page]
    BY <1>1, <1>5, <1>6 DEF Present, TypeOK, Entries
  <2>3. ASSUME NEW b \in Addrs PROVE View(p, b)' = View(p, b)
    BY <1>2, <2>1, <2>2 DEF View, Present, FromFile
  <2>4. ASSUME executable[p] # NULL PROVE a \notin ExecAddrs
    BY <1>2, <2>4 DEF FromFile
  <2>5. \A b \in ExecAddrs : b \in Addrs
    BY MemoryAssumption
  <2> QED BY <1>1, <1>2, <2>2, <2>3, <2>4, <2>5 DEF MemoryRight, HasMemory, Present
<1>14. MemMapCounts'
  BY <1>3, <1>8, <1>9, Counted
<1> QED BY <1>1, <1>7, <1>10, <1>11, <1>12, <1>13, <1>14 DEF MemInv

(* do_no_page() takes a page to read the file into ...                      *)
LEMMA LoadPageStep ==
  ASSUME MemInv, UNCHANGED <<scenario, arg_pages>>, NEW p \in Procs, NEW a \in Addrs, LoadPage(p, a)
  PROVE  MemInv'
<1> DEFINE n == NewPage
<1>1. /\ TypeOK /\ MemMapCounts /\ StoresAlone /\ scenario \in Scenarios
      /\ TaskRight(p) /\ MemoryRight(p)
  BY DEF MemInv
<1>2. /\ pc[p] \in {"user", "kernel", "args"} /\ ~Present(p, a) /\ FromFile(p, a)
      /\ Left > 0
      /\ mem_map' = [mem_map EXCEPT ![n] = 1]
      /\ content' = [content EXCEPT ![n] = executable[p]]
      /\ loc' = [loc EXCEPT ![p] = [page |-> n, addr |-> a, ret |-> pc[p]]]
      /\ pc' = [pc EXCEPT ![p] = "load"]
      /\ UNCHANGED <<kernel_pages, dir, pte, executable, image>>
  BY DEF LoadPage, Faults
<1>3. loc[p].page = 0
  BY <1>1, <1>2 DEF TaskRight
<1>4. executable[p] \in Execs
  BY <1>1, <1>2 DEF TypeOK, FromFile
<1>5. /\ n \in Pages /\ mem_map[n] = 0
      /\ \A r \in Procs : \A b \in Addrs : pte[r][b].page # n
      /\ \A r \in Procs : loc[r].page # n
  BY <1>2, Fresh
<1> HIDE DEF n
<1>6. /\ \A pg \in Pages : mem_map'[pg] = IF pg = n THEN 1 ELSE mem_map[pg]
      /\ mem_map' \in [Pages -> Nat]
      /\ \A pg \in Pages : content'[pg] = IF pg = n THEN executable[p] ELSE content[pg]
      /\ content' \in [Pages -> Vals]
  BY <1>1, <1>2, <1>4, <1>5 DEF TypeOK, Vals
<1>7. /\ \A r \in Procs \ {p} : loc'[r] = loc[r] /\ pc'[r] = pc[r]
      /\ loc'[p] = [page |-> n, addr |-> a, ret |-> pc[p]] /\ pc'[p] = "load"
      /\ loc' \in [Procs -> [page : Pages \union {0}, addr : Addrs \union {NULL}, ret : Locations]]
      /\ pc' \in [Procs -> Locations]
  BY <1>1, <1>2, <1>5 DEF TypeOK, Locations
<1>8. TypeOK'
  BY <1>1, <1>2, <1>6, <1>7 DEF TypeOK
<1>9. PagesRight'
  <2>1. ASSUME NEW pg \in Pages
        PROVE  mem_map'[pg] + Same(pte[p][a].page, pg) + Same(loc[p].page, pg)
               = mem_map[pg] + Same(pte'[p][a].page, pg) + Same(loc'[p].page, pg)
    <3>1. /\ loc[p].page # pg /\ loc'[p].page = n /\ pte'[p][a].page = pte[p][a].page
          /\ mem_map[pg] \in Nat
      BY <1>1, <1>2, <1>3, <1>7, Types
    <3> QED BY <1>5, <1>6, <3>1 DEF Same
  <2> QED BY <1>1, <1>2, <1>6, <1>7, <2>1, EntryCounted
<1>10. MemMapCounts'
  <2>1. \A pg \in Pages : mem_map'[pg] # 0 => mem_map[pg] # 0 \/ pg = n
    BY <1>6
  <2>2. 0 \in Nat /\ kernel_pages' <= kernel_pages + 0 /\ Left > 0
    BY <1>1, <1>2 DEF TypeOK
  <2>3. Left' >= 0
    BY <1>1, <1>8, <2>1, <2>2, LeftChanges
  <2>4. \A r \in Procs : pc'[r] = "none" <=> pc[r] = "none"
    BY <1>2, <1>7
  <2>5. KernelRight'
    BY <1>2, <2>4, KernelSame
  <2> QED BY <1>9, <2>3, <2>5, Counted
<1>11. StoresAlone'
  BY <1>1, <1>2, <1>5, <1>6, <1>7, Types DEF StoresAlone, Present
<1>12. ASSUME NEW r \in Procs PROVE MemoryRight(r)' /\ (r # p => TaskRight(r)')
  <2>1. /\ \A b \in Addrs : Present(r, b) => content'[pte[r][b].page] = content[pte[r][b].page]
        /\ loc[r].page # 0 => content'[loc[r].page] = content[loc[r].page]
    BY <1>1, <1>5, <1>6, Types DEF Present
  <2>2. CASE r # p
    <3>1. SamePlace(r)
      BY <1>7, <2>2 DEF SamePlace
    <3> QED BY <1>2, <2>1, <2>2, <3>1, OtherTask
  <2>3. CASE r = p
    <3> SUFFICES ASSUME Separate PROVE MemoryRight(p)'
      BY <2>3 DEF MemoryRight, Separate
    <3>1. pc[p] = "user" /\ pc'[p] = "load" /\ loc'[p].ret = "user"
      BY <1>1, <1>2, <1>7 DEF MemoryRight
    <3>2. ASSUME NEW b \in Addrs PROVE View(p, b)' = View(p, b)
      BY <1>2, <2>1, <2>3 DEF View, Present, FromFile
    <3>3. \A b \in ExecAddrs : b \in Addrs
      BY MemoryAssumption
    <3> QED BY <1>1, <1>2, <2>1, <2>3, <3>1, <3>2, <3>3 DEF MemoryRight, HasMemory, Present
  <2> QED BY <2>2, <2>3
<1>13. TaskRight(p)'
  <2>1. loc'[p].page = n /\ n # 0 /\ loc'[p].addr = a /\ loc'[p].ret = pc[p] /\ pc'[p] = "load"
    BY <1>1, <1>5, <1>7, Types
  <2>2. content'[n] = executable[p]
    BY <1>5, <1>6
  <2> QED BY <1>1, <1>2, <2>1, <2>2 DEF TaskRight, Present, FromFile
<1> QED BY <1>1, <1>8, <1>10, <1>11, <1>12, <1>13 DEF MemInv

(* ... and maps it when it has been read.                                   *)
LEMMA LoadDoneStep ==
  ASSUME MemInv, UNCHANGED <<scenario, arg_pages>>, NEW p \in Procs, LoadDone(p)
  PROVE  MemInv'
<1> DEFINE n == loc[p].page
           a == loc[p].addr
<1>1. /\ TypeOK /\ MemMapCounts /\ StoresAlone /\ scenario \in Scenarios
      /\ TaskRight(p) /\ MemoryRight(p)
  BY DEF MemInv
<1>2. /\ pc[p] = "load"
      /\ Left >= NewTable(p, a)
      /\ AddTable(p, a)
      /\ pte' = [pte EXCEPT ![p][a] = [page |-> n, w |-> TRUE, dirty |-> FALSE]]
      /\ loc' = [loc EXCEPT ![p] = IF loc[p].ret = "kernel" THEN [NoLoc EXCEPT !.addr = a] ELSE NoLoc]
      /\ pc' = [pc EXCEPT ![p] = loc[p].ret]
      /\ UNCHANGED <<mem_map, content, executable, image>>
  BY DEF LoadDone, PutPage
<1>3. /\ a \in Addrs /\ loc[p].ret \in {"user", "kernel", "args"} /\ FromFile(p, a) /\ ~Present(p, a)
      /\ content[n] = executable[p] /\ n # 0
  BY <1>1, <1>2 DEF TaskRight
<1>4. n \in Pages /\ mem_map[n] = 1
  BY <1>1, <1>3, Types DEF StoresAlone
<1>5. /\ \A r \in Procs : \A b \in Addrs : pte[r][b].page # n
      /\ \A r \in Procs \ {p} : loc[r].page # n
  BY <1>4, Alone
<1>6. /\ \A r \in Procs \ {p} : loc'[r] = loc[r] /\ pc'[r] = pc[r]
      /\ loc'[p].page = 0 /\ (loc[p].ret = "kernel" => loc'[p].addr = a)
      /\ pc'[p] = loc[p].ret
      /\ loc' \in [Procs -> [page : Pages \union {0}, addr : Addrs \union {NULL}, ret : Locations]]
      /\ pc' \in [Procs -> Locations]
  <2>1. PICK l : l = IF loc[p].ret = "kernel" THEN [NoLoc EXCEPT !.addr = a] ELSE NoLoc
    OBVIOUS
  <2>2. /\ l \in [page : Pages \union {0}, addr : Addrs \union {NULL}, ret : Locations]
        /\ l.page = 0 /\ (loc[p].ret = "kernel" => l.addr = a)
    BY <1>3, <2>1 DEF NoLoc, Locations
  <2>3. /\ loc \in [Procs -> [page : Pages \union {0}, addr : Addrs \union {NULL}, ret : Locations]]
        /\ pc \in [Procs -> Locations]
    BY <1>1 DEF TypeOK
  <2>4. loc' = [loc EXCEPT ![p] = l]
    BY <1>2, <2>1
  <2> HIDE DEF n, a
  <2> QED BY <1>2, <1>3, <2>2, <2>3, <2>4 DEF Locations
<1>7. /\ NewTable(p, a) \in {0, 1} /\ kernel_pages' = kernel_pages + NewTable(p, a)
      /\ dir' \in [Procs -> [Dirs -> BOOLEAN]]
      /\ \A r \in Procs : \A d \in Dirs :
           dir'[r][d] = IF r = p /\ d = DirOf[a] THEN TRUE ELSE dir[r][d]
      /\ KernelRight'
  <2>1. pc'[p] = "none" <=> pc[p] = "none"
    BY <1>2, <1>3, <1>6
  <2> QED BY <1>2, <1>3, <1>6, <2>1, TableAdded
<1>8. loc[p].page = n
  OBVIOUS
<1> HIDE DEF n, a
<1>9. /\ \A r \in Procs : \A b \in Addrs :
           pte'[r][b] = IF r = p /\ b = a THEN [page |-> n, w |-> TRUE, dirty |-> FALSE]
                        ELSE pte[r][b]
      /\ pte' \in [Procs -> [Addrs -> Entries]]
  BY <1>1, <1>2, <1>3, <1>4 DEF TypeOK, Entries
<1>10. TypeOK'
  BY <1>1, <1>2, <1>6, <1>7, <1>9 DEF TypeOK
<1>11. PagesRight'
  <2>1. ASSUME NEW pg \in Pages
        PROVE  mem_map'[pg] + Same(pte[p][a].page, pg) + Same(loc[p].page, pg)
               = mem_map[pg] + Same(pte'[p][a].page, pg) + Same(loc'[p].page, pg)
    <3>1. /\ loc[p].page = n /\ loc'[p].page # pg /\ pte'[p][a].page = n /\ pte[p][a].page # pg
          /\ mem_map[pg] \in Nat /\ mem_map'[pg] = mem_map[pg]
      BY <1>1, <1>2, <1>3, <1>6, <1>8, <1>9, Types DEF Present
    <3> QED BY <3>1 DEF Same
  <2>2. mem_map' \in [Pages -> Int]
    BY <1>10 DEF TypeOK
  <2>3. /\ \A r \in Procs \ {p} : loc'[r] = loc[r]
        /\ \A r \in Procs : \A b \in Addrs : r # p \/ b # a => pte'[r][b].page = pte[r][b].page
    BY <1>6, <1>9
  <2> QED BY <1>1, <1>3, <2>1, <2>2, <2>3, EntryCounted
<1>12. MemMapCounts'
  <2>1. \A pg \in Pages : mem_map'[pg] # 0 => mem_map[pg] # 0
    BY <1>2
  <2>2. /\ NewTable(p, a) \in Nat /\ kernel_pages' <= kernel_pages + NewTable(p, a)
        /\ Left >= NewTable(p, a)
    BY <1>1, <1>2, <1>7 DEF TypeOK
  <2>3. Left' >= 0
    BY <1>1, <1>10, <2>1, <2>2, LeftChanges
  <2> QED BY <1>7, <1>11, <2>3, Counted
<1>13. StoresAlone'
  BY <1>1, <1>2, <1>3, <1>4, <1>6, <1>9 DEF StoresAlone, Present
<1>14. ASSUME NEW r \in Procs \ {p} PROVE TaskRight(r)' /\ MemoryRight(r)'
  <2>1. \A b \in Addrs : pte'[r][b] = pte[r][b]
    BY <1>9
  <2>2. SamePlace(r) /\ executable'[r] = executable[r] /\ image'[r] = image[r] /\ content' = content
    BY <1>2, <1>6 DEF SamePlace
  <2>3. \A d \in Dirs : dir'[r][d] = dir[r][d]
    BY <1>7
  <2> QED BY <2>1, <2>2, <2>3, OtherTask
<1>15. TaskRight(p)'
  <2>1. DirOf[Stack] \in Dirs
    BY MemoryAssumption DEF Dirs
  <2>2. dir'[p][DirOf[Stack]]
    <3>1. dir[p][DirOf[Stack]]
      BY <1>1, <1>2 DEF TaskRight
    <3> QED BY <1>7, <2>1, <3>1
  <2>3. /\ loc'[p].page = 0 /\ pc'[p] \in {"user", "kernel", "args"}
        /\ pc'[p] = "kernel" => loc'[p].addr \in Addrs
    BY <1>3, <1>6
  <2> QED BY <2>2, <2>3 DEF TaskRight
<1>16. MemoryRight(p)'
  <2> SUFFICES ASSUME Separate PROVE MemoryRight(p)'
    BY DEF MemoryRight, Separate
  <2>1. pte'[p][a].page = n /\ content'[n] = executable[p] /\ ~pte'[p][a].dirty /\ pte'[p][a].w
    BY <1>2, <1>3, <1>9
  <2>2. \A b \in Addrs \ {a} : pte'[p][b] = pte[p][b]
    BY <1>9
  <2>3. ASSUME NEW b \in Addrs PROVE View(p, b)' = View(p, b)
    BY <1>2, <1>3, <2>1, <2>2 DEF View, Present, FromFile
  <2>4. \A b \in ExecAddrs : b \in Addrs
    BY MemoryAssumption
  <2>5. pc'[p] = "user"
    BY <1>1, <1>2, <1>6 DEF MemoryRight
  <2> QED BY <1>1, <1>2, <2>1, <2>2, <2>3, <2>4, <2>5 DEF MemoryRight, HasMemory, Present
<1> QED BY <1>1, <1>10, <1>12, <1>13, <1>14, <1>15, <1>16 DEF MemInv

(* A step that changes nothing but whether pages are writable.              *)
LEMMA ProtectStep ==
  ASSUME MemInv, UNCHANGED <<scenario, arg_pages>>,
         UNCHANGED <<mem_map, kernel_pages, content, dir, executable, image>>,
         TypeOK', StoresAlone',
         \A r \in Procs : SamePlace(r),
         \A r \in Procs : \A b \in Addrs :
           /\ pte'[r][b].page = pte[r][b].page
           /\ pte'[r][b].dirty = pte[r][b].dirty
           /\ pte[r][b].w => pte'[r][b].w \/ ~pte[r][b].dirty \/ "fork" \in scenario.ops
  PROVE  MemInv'
<1>1. TypeOK /\ MemMapCounts /\ scenario \in Scenarios /\ \A r \in Procs : TaskRight(r)
  BY DEF MemInv
<1>2. \A r \in Procs : loc'[r].page = loc[r].page /\ (pc'[r] = "none" <=> pc[r] = "none")
  BY <1>1 DEF SamePlace, TaskRight
<1>3. PagesRight'
  BY <1>1, <1>2, NothingChanges DEF PagesRight
<1>4. KernelRight'
  BY <1>2, KernelSame
<1>5. Left' >= 0
  <2>1. Left' = Left
    BY DEF Left
  <2> QED BY <1>1, <2>1 DEF MemMapCounts
<1>6. MemMapCounts'
  BY <1>3, <1>4, <1>5, Counted
<1>7. ASSUME NEW r \in Procs PROVE TaskRight(r)' /\ MemoryRight(r)'
  BY OtherTask
<1> QED BY <1>1, <1>6, <1>7 DEF MemInv

(* try_to_share() and share_page().                                         *)
LEMMA SharePageStep ==
  ASSUME MemInv, UNCHANGED <<scenario, arg_pages>>, NEW p \in Procs, NEW a \in Addrs, SharePage(p, a)
  PROVE  MemInv'
<1> DEFINE q == Max(Sharers(p, a))
           n == pte[q][a].page
<1>1. /\ TypeOK /\ MemMapCounts /\ StoresAlone /\ scenario \in Scenarios
      /\ TaskRight(p) /\ MemoryRight(p) /\ \A r \in Procs : MemoryRight(r)
  BY DEF MemInv
<1>2. /\ pc[p] \in {"user", "kernel", "args"} /\ ~Present(p, a) /\ FromFile(p, a)
      /\ Sharers(p, a) # {}
      /\ Left >= NewTable(p, a)
      /\ AddTable(p, a)
      /\ pte' = [pte EXCEPT ![q][a].w = FALSE, ![p][a] = [pte[q][a] EXCEPT !.w = FALSE]]
      /\ mem_map' = [mem_map EXCEPT ![n] = @ + 1]
      /\ UNCHANGED <<content, executable, pc, loc, image>>
  BY DEF SharePage, Faults
<1>3. /\ q \in Procs \ {p} /\ executable[q] = executable[p]
      /\ Present(q, a) /\ ~pte[q][a].dirty
  <2>1. Sharers(p, a) \in SUBSET (0 .. NR_TASKS) /\ NR_TASKS \in Nat
    BY MemoryAssumption DEF Sharers, Procs
  <2>2. q \in Sharers(p, a)
    BY <1>2, <2>1, MaxFacts
  <2> HIDE DEF q
  <2> QED BY <2>2 DEF Sharers
<1> HIDE DEF q
<1>4. n \in Pages /\ pte[q][a].page = n
  BY <1>1, <1>3, Types DEF Present
<1>5. /\ NewTable(p, a) \in {0, 1} /\ kernel_pages' = kernel_pages + NewTable(p, a)
      /\ dir' \in [Procs -> [Dirs -> BOOLEAN]]
      /\ \A r \in Procs : \A d \in Dirs :
           dir'[r][d] = IF r = p /\ d = DirOf[a] THEN TRUE ELSE dir[r][d]
      /\ KernelRight'
  BY <1>2, TableAdded
<1> HIDE DEF n
<1>6. /\ \A r \in Procs : \A b \in Addrs :
           IF r \in {p, q} /\ b = a
             THEN pte'[r][b].page = n /\ pte'[r][b].w = FALSE /\ pte'[r][b].dirty = FALSE
             ELSE pte'[r][b] = pte[r][b]
      /\ pte' \in [Procs -> [Addrs -> Entries]]
  <2>1. pte \in [Procs -> [Addrs -> Entries]]
    BY <1>1 DEF TypeOK
  <2>2. pte[q][a] \in Entries /\ pte[q][a].dirty = FALSE
    BY <1>3, <2>1 DEF Entries
  <2>3. PICK e \in Entries : e = pte[q][a]
    BY <2>2
  <2>4. PICK c : c = [e EXCEPT !.w = FALSE]
    OBVIOUS
  <2>5. c \in Entries /\ c.page = e.page /\ c.w = FALSE /\ c.dirty = e.dirty
    BY <2>4 DEF Entries
  <2>6. pte' = [pte EXCEPT ![q][a] = c, ![p][a] = c]
    BY <1>2, <2>1, <2>3, <2>4
  <2>7. /\ \A r \in Procs : \A b \in Addrs :
             pte'[r][b] = IF r \in {p, q} /\ b = a THEN c ELSE pte[r][b]
        /\ pte' \in [Procs -> [Addrs -> Entries]]
    BY <1>3, <2>1, <2>5, <2>6
  <2> QED BY <1>4, <2>2, <2>3, <2>5, <2>7
<1>7. /\ \A pg \in Pages : mem_map'[pg] = IF pg = n THEN mem_map[pg] + 1 ELSE mem_map[pg]
      /\ mem_map' \in [Pages -> Nat]
  BY <1>1, <1>2, <1>4 DEF TypeOK
<1>8. TypeOK'
  <2>1. /\ pte' \in [Procs -> [Addrs -> Entries]] /\ mem_map' \in [Pages -> Nat]
        /\ dir' \in [Procs -> [Dirs -> BOOLEAN]]
    BY <1>5, <1>6, <1>7
  <2>2. kernel_pages' \in Nat
    BY <1>1, <1>5 DEF TypeOK
  <2>3. UNCHANGED <<content, executable, pc, loc, image>>
    BY <1>2
  <2> QED BY <1>1, <2>1, <2>2, <2>3 DEF TypeOK
<1>9. PagesRight'
  <2>1. ASSUME NEW pg \in Pages
        PROVE  mem_map'[pg] + Same(pte[p][a].page, pg) + Same(loc[p].page, pg)
               = mem_map[pg] + Same(pte'[p][a].page, pg) + Same(loc'[p].page, pg)
    <3>1. /\ pte[p][a].page # pg /\ pte'[p][a].page = n /\ loc'[p].page = loc[p].page
          /\ mem_map[pg] \in Nat
      BY <1>1, <1>2, <1>6, Types DEF Present
    <3> QED BY <1>7, <3>1 DEF Same
  <2>2. \A r \in Procs \ {p} : loc'[r] = loc[r]
    BY <1>2
  <2>3. \A r \in Procs : \A b \in Addrs : r # p \/ b # a => pte'[r][b].page = pte[r][b].page
    BY <1>4, <1>6
  <2> QED BY <1>1, <1>7, <2>1, <2>2, <2>3, EntryCounted
<1>10. MemMapCounts'
  <2>1. \A pg \in Pages : mem_map'[pg] # 0 => mem_map[pg] # 0
    <3>1. mem_map[n] # 0
      BY <1>1, <1>3, <1>4, NoUser
    <3> QED BY <1>7, <3>1
  <2>2. /\ NewTable(p, a) \in Nat /\ kernel_pages' <= kernel_pages + NewTable(p, a)
        /\ Left >= NewTable(p, a)
    BY <1>1, <1>2, <1>5 DEF TypeOK
  <2>3. Left' >= 0
    BY <1>1, <1>8, <2>1, <2>2, LeftChanges
  <2> QED BY <1>5, <1>9, <2>3, Counted
<1>11. StoresAlone'
  <2>1. ASSUME NEW r \in Procs, NEW b \in Addrs, pte'[r][b].w
        PROVE  Present(r, b)' /\ mem_map'[pte'[r][b].page] = 1
    <3>1. ~(r \in {p, q} /\ b = a) /\ pte'[r][b] = pte[r][b]
      BY <1>6, <2>1
    <3>2. Present(r, b) /\ mem_map[pte[r][b].page] = 1 /\ pte[r][b].page \in Pages
      BY <1>1, <2>1, <3>1, Types DEF StoresAlone, Present
    <3>3. pte[r][b].page # n
      BY <1>3, <1>4, <3>1, <3>2, Alone
    <3> QED BY <1>7, <3>1, <3>2, <3>3 DEF Present
  <2>2. ASSUME NEW r \in Procs, loc'[r].page # 0 PROVE mem_map'[loc'[r].page] = 1
    <3>1. mem_map[loc[r].page] = 1 /\ loc[r].page \in Pages /\ loc'[r] = loc[r]
      BY <1>1, <1>2, <2>2, Types DEF StoresAlone
    <3>2. loc[r].page # n
      BY <1>3, <1>4, <3>1, Alone
    <3> QED BY <1>7, <3>1, <3>2
  <2> QED BY <2>1, <2>2 DEF StoresAlone
<1>12. ASSUME NEW r \in Procs \ {p} PROVE TaskRight(r)' /\ MemoryRight(r)'
  <2>1. \A b \in Addrs : /\ pte'[r][b].page = pte[r][b].page
                         /\ pte'[r][b].dirty = pte[r][b].dirty
                         /\ pte[r][b].w => pte'[r][b].w \/ ~pte[r][b].dirty
    <3>1. pte[q][a].dirty = FALSE
      BY <1>1, <1>3, Types
    <3>2. CASE r = q
      <4>1. ASSUME NEW b \in Addrs, b # a PROVE pte'[r][b] = pte[r][b]
        BY <1>6, <4>1
      <4>2. /\ pte'[r][a].page = pte[r][a].page /\ pte'[r][a].dirty = pte[r][a].dirty
            /\ ~pte[r][a].dirty
        BY <1>4, <1>6, <3>1, <3>2
      <4> QED BY <4>1, <4>2
    <3>3. CASE r # q
      BY <1>6, <3>3
    <3> QED BY <3>2, <3>3
  <2>2. SamePlace(r) /\ executable'[r] = executable[r] /\ image'[r] = image[r] /\ content' = content
    BY <1>2 DEF SamePlace
  <2>3. \A d \in Dirs : dir'[r][d] = dir[r][d]
    BY <1>5
  <2> QED BY <2>1, <2>2, <2>3, OtherTask
<1>13. TaskRight(p)'
  <2>1. DirOf[Stack] \in Dirs
    BY MemoryAssumption DEF Dirs
  <2>2. dir[p][DirOf[Stack]] /\ loc[p].page = 0 /\ (pc[p] = "kernel" => loc[p].addr \in Addrs)
    BY <1>1, <1>2 DEF TaskRight
  <2>3. dir'[p][DirOf[Stack]]
    BY <1>5, <2>1, <2>2
  <2> QED BY <1>2, <2>2, <2>3 DEF TaskRight
<1>14. MemoryRight(p)'
  <2> SUFFICES ASSUME Separate PROVE MemoryRight(p)'
    BY DEF MemoryRight, Separate
  <2>1. content[n] = executable[p]
    <3>1. MemoryRight(q) /\ executable[q] # NULL /\ a \in ExecAddrs
      BY <1>1, <1>2, <1>3 DEF FromFile
    <3> QED BY <1>3, <1>4, <3>1 DEF MemoryRight
  <2>2. pte'[p][a].page = n /\ n # 0 /\ ~pte'[p][a].dirty
    BY <1>1, <1>4, <1>6, Types
  <2>3. \A b \in Addrs \ {a} : pte'[p][b] = pte[p][b]
    BY <1>6
  <2>4. ASSUME NEW b \in Addrs PROVE View(p, b)' = View(p, b)
    <3>1. content' = content /\ executable' = executable
      BY <1>2
    <3>2. CASE b = a
      <4>1. View(p, a) = executable[p]
        BY <1>2 DEF View
      <4>2. View(p, a)' = content'[n]
        BY <2>2 DEF View, Present
      <4> QED BY <2>1, <3>1, <3>2, <4>1, <4>2
    <3>3. CASE b # a
      BY <2>3, <3>1, <3>3 DEF View, Present, FromFile
    <3> QED BY <3>2, <3>3
  <2>5. \A b \in ExecAddrs : b \in Addrs
    BY MemoryAssumption
  <2>6. content' = content /\ executable' = executable /\ pc' = pc /\ loc' = loc /\ image' = image
    BY <1>2
  <2>7. ASSUME executable[p] # NULL, NEW b \in ExecAddrs, Present(p, b)'
        PROVE  /\ pte'[p][b].w \/ ~pte'[p][b].dirty
               /\ ~pte'[p][b].dirty => content'[pte'[p][b].page] = executable[p]
    <3>1. CASE b = a
      BY <2>1, <2>2, <2>6, <3>1
    <3>2. CASE b # a
      <4>1. Present(p, b)
        BY <2>3, <2>5, <2>7, <3>2 DEF Present
      <4>2. /\ pte[p][b].w \/ ~pte[p][b].dirty
            /\ ~pte[p][b].dirty => content[pte[p][b].page] = executable[p]
        BY <1>1, <2>7, <4>1 DEF MemoryRight
      <4> QED BY <2>3, <2>5, <2>6, <3>2, <4>2
    <3> QED BY <3>1, <3>2
  <2> QED BY <1>1, <2>4, <2>6, <2>7 DEF MemoryRight, HasMemory
<1> QED BY <1>1, <1>8, <1>10, <1>11, <1>12, <1>13, <1>14 DEF MemInv

(* The two outcomes of un_wp_page(), for the last user of a page and for    *)
(* another one, and where p goes on.                                        *)
TakesBack(p, a) ==
  /\ Present(p, a) /\ mem_map[pte[p][a].page] = 1
  /\ pte' = [pte EXCEPT ![p][a].w = TRUE]
  /\ UNCHANGED <<mem_map, kernel_pages, content, dir, executable, image>>

TakesCopy(p, a) ==
  /\ pc[p] = "user"
  /\ Present(p, a) /\ mem_map[pte[p][a].page] # 1 /\ Left > 0
  /\ mem_map' = [mem_map EXCEPT ![pte[p][a].page] = @ - 1, ![NewPage] = 1]
  /\ pte' = [pte EXCEPT ![p][a] = [page |-> NewPage, w |-> TRUE, dirty |-> FALSE]]
  /\ content' = [content EXCEPT ![NewPage] = content[pte[p][a].page]]
  /\ UNCHANGED <<kernel_pages, dir, executable, image>>

Moved(p) ==
  /\ pc' \in [Procs -> Locations]
  /\ loc' \in [Procs -> [page : Pages \union {0}, addr : Addrs \union {NULL}, ret : Locations]]
  /\ \A r \in Procs \ {p} : pc'[r] = pc[r] /\ loc'[r] = loc[r]
  /\ SamePlace(p)

(* un_wp_page() of the last user of a page.                                 *)
LEMMA TakenBack ==
  ASSUME MemInv, UNCHANGED <<scenario, arg_pages>>, NEW p \in Procs, NEW a \in Addrs,
         TakesBack(p, a), Moved(p)
  PROVE  MemInv'
<1>1. TypeOK /\ StoresAlone /\ \A r \in Procs : TaskRight(r)
  BY DEF MemInv
<1>0. /\ Present(p, a) /\ mem_map[pte[p][a].page] = 1
      /\ UNCHANGED <<mem_map, kernel_pages, content, dir, executable, image>>
      /\ \A r \in Procs : SamePlace(r)
  BY DEF TakesBack, Moved, SamePlace
<1>2. /\ \A r \in Procs : \A b \in Addrs :
           IF r = p /\ b = a
             THEN /\ pte'[r][b].page = pte[r][b].page /\ pte'[r][b].w = TRUE
                  /\ pte'[r][b].dirty = pte[r][b].dirty
             ELSE pte'[r][b] = pte[r][b]
      /\ pte' \in [Procs -> [Addrs -> Entries]]
  <2>1. pte \in [Procs -> [Addrs -> Entries]]
    BY <1>1 DEF TypeOK
  <2>2. PICK e \in Entries : e = pte[p][a]
    BY <2>1
  <2>3. PICK c : c = [e EXCEPT !.w = TRUE]
    OBVIOUS
  <2>4. c \in Entries /\ c.page = e.page /\ c.w = TRUE /\ c.dirty = e.dirty
    BY <2>3 DEF Entries
  <2>5. pte' = [pte EXCEPT ![p][a] = c]
    BY <2>1, <2>2, <2>3 DEF TakesBack
  <2>6. /\ \A r \in Procs : \A b \in Addrs :
             pte'[r][b] = IF r = p /\ b = a THEN c ELSE pte[r][b]
        /\ pte' \in [Procs -> [Addrs -> Entries]]
    BY <2>1, <2>4, <2>5
  <2> QED BY <2>2, <2>4, <2>6
<1>3. TypeOK'
  <2>1. pte' \in [Procs -> [Addrs -> Entries]]
    BY <1>2
  <2> QED BY <1>0, <1>1, <2>1 DEF TypeOK, Moved
<1>4. StoresAlone'
  <2>1. ASSUME NEW r \in Procs, NEW b \in Addrs, pte'[r][b].w
        PROVE  Present(r, b)' /\ mem_map'[pte'[r][b].page] = 1
    <3>1. CASE r = p /\ b = a
      BY <1>0, <1>2, <3>1 DEF Present
    <3>2. CASE ~(r = p /\ b = a)
      BY <1>0, <1>1, <1>2, <2>1, <3>2 DEF Present, StoresAlone
    <3> QED BY <3>1, <3>2
  <2>2. ASSUME NEW r \in Procs, loc'[r].page # 0 PROVE mem_map'[loc'[r].page] = 1
    BY <1>0, <1>1, <2>2 DEF StoresAlone, SamePlace
  <2> QED BY <2>1, <2>2 DEF StoresAlone
<1>5. ASSUME NEW r \in Procs, NEW b \in Addrs
      PROVE  /\ pte'[r][b].page = pte[r][b].page
             /\ pte'[r][b].dirty = pte[r][b].dirty
             /\ pte[r][b].w => pte'[r][b].w
  BY <1>2
<1> QED BY <1>0, <1>3, <1>4, <1>5, ProtectStep

(* un_wp_page() of another user.                                            *)
LEMMA Copied ==
  ASSUME MemInv, UNCHANGED <<scenario, arg_pages>>, NEW p \in Procs, NEW a \in Addrs,
         TakesCopy(p, a), Moved(p)
  PROVE  MemInv'
<1> DEFINE n == NewPage
           m == pte[p][a].page
<1>1. /\ TypeOK /\ MemMapCounts /\ StoresAlone /\ scenario \in Scenarios
      /\ TaskRight(p) /\ MemoryRight(p)
  BY DEF MemInv
<1>2. /\ n \in Pages /\ mem_map[n] = 0
      /\ \A r \in Procs : \A b \in Addrs : pte[r][b].page # n
      /\ \A r \in Procs : loc[r].page # n
  BY Fresh DEF TakesCopy
<1>3. m \in Pages /\ pte[p][a].page = m /\ m # n /\ mem_map[m] # 1
  BY <1>1, <1>2, Types DEF Present, TakesCopy
<1>4. mem_map[m] # 0
  BY <1>1, <1>3, NoUser
<1>5. /\ mem_map' = [mem_map EXCEPT ![m] = @ - 1, ![n] = 1]
      /\ pte' = [pte EXCEPT ![p][a] = [page |-> n, w |-> TRUE, dirty |-> FALSE]]
      /\ content' = [content EXCEPT ![n] = content[m]]
      /\ UNCHANGED <<kernel_pages, dir, executable, image>>
      /\ pc[p] = "user" /\ Left > 0
  BY DEF TakesCopy
<1> HIDE DEF n, m
<1>6. /\ \A pg \in Pages : mem_map'[pg] = IF pg = n THEN 1
                                          ELSE IF pg = m THEN mem_map[pg] - 1 ELSE mem_map[pg]
      /\ mem_map' \in [Pages -> Nat]
  <2>1. mem_map \in [Pages -> Nat]
    BY <1>1 DEF TypeOK
  <2>2. mem_map[m] - 1 \in Nat
    BY <1>3, <1>4, <2>1
  <2> QED BY <1>2, <1>3, <1>5, <2>1, <2>2
<1>7. /\ \A r \in Procs : \A b \in Addrs :
           pte'[r][b] = IF r = p /\ b = a THEN [page |-> n, w |-> TRUE, dirty |-> FALSE]
                        ELSE pte[r][b]
      /\ pte' \in [Procs -> [Addrs -> Entries]]
      /\ \A pg \in Pages : content'[pg] = IF pg = n THEN content[m] ELSE content[pg]
      /\ content' \in [Pages -> Vals]
  <2>1. pte \in [Procs -> [Addrs -> Entries]] /\ content \in [Pages -> Vals]
    BY <1>1 DEF TypeOK
  <2>2. [page |-> n, w |-> TRUE, dirty |-> FALSE] \in Entries /\ content[m] \in Vals
    BY <1>2, <1>3, <2>1 DEF Entries
  <2> QED BY <1>2, <1>5, <2>1, <2>2
<1>8. TypeOK'
  <2>1. /\ pte' \in [Procs -> [Addrs -> Entries]] /\ mem_map' \in [Pages -> Nat]
        /\ content' \in [Pages -> Vals]
    BY <1>6, <1>7
  <2> QED BY <1>1, <1>5, <2>1 DEF TypeOK, Moved
<1>9. loc'[p].page = 0 /\ loc[p].page = 0
  BY <1>1, <1>5 DEF SamePlace, TaskRight, Moved
<1>10. PagesRight'
  <2>1. ASSUME NEW pg \in Pages
        PROVE  mem_map'[pg] + Same(pte[p][a].page, pg) + Same(loc[p].page, pg)
               = mem_map[pg] + Same(pte'[p][a].page, pg) + Same(loc'[p].page, pg)
    <3>1. /\ pte[p][a].page = m /\ pte'[p][a].page = n /\ loc'[p].page # pg /\ loc[p].page # pg
          /\ mem_map[pg] \in Nat
      BY <1>1, <1>3, <1>7, <1>9, Types
    <3> QED BY <1>2, <1>3, <1>6, <3>1 DEF Same
  <2>2. \A r \in Procs : \A b \in Addrs : r # p \/ b # a => pte'[r][b].page = pte[r][b].page
    BY <1>7
  <2>3. mem_map' \in [Pages -> Int] /\ \A r \in Procs \ {p} : loc'[r] = loc[r]
    BY <1>6 DEF Moved
  <2> QED BY <1>1, <2>1, <2>2, <2>3, EntryCounted
<1>11. MemMapCounts'
  <2>1. \A pg \in Pages : mem_map'[pg] # 0 => mem_map[pg] # 0 \/ pg = n
    BY <1>4, <1>6
  <2>2. 0 \in Nat /\ kernel_pages' <= kernel_pages + 0 /\ Left > 0
    BY <1>1, <1>5 DEF TypeOK
  <2>3. Left' >= 0
    BY <1>1, <1>8, <2>1, <2>2, LeftChanges
  <2>4. \A r \in Procs : pc'[r] = "none" <=> pc[r] = "none"
    BY DEF SamePlace, Moved
  <2>5. KernelRight'
    BY <1>5, <2>4, KernelSame
  <2> QED BY <1>10, <2>3, <2>5, Counted
<1>12. StoresAlone'
  <2>1. ASSUME NEW r \in Procs, NEW b \in Addrs, pte'[r][b].w
        PROVE  Present(r, b)' /\ mem_map'[pte'[r][b].page] = 1
    <3>1. CASE r = p /\ b = a
      <4>1. pte'[r][b].page = n
        BY <1>7, <3>1
      <4> QED BY <1>1, <1>2, <1>6, <4>1, Types DEF Present
    <3>2. CASE ~(r = p /\ b = a)
      <4>1. pte'[r][b] = pte[r][b]
        BY <1>7, <3>2
      <4>2. Present(r, b) /\ mem_map[pte[r][b].page] = 1 /\ pte[r][b].page \in Pages
        BY <1>1, <2>1, <4>1, Types DEF StoresAlone, Present
      <4> QED BY <1>2, <1>3, <1>6, <4>1, <4>2 DEF Present
    <3> QED BY <3>1, <3>2
  <2>2. ASSUME NEW r \in Procs, loc'[r].page # 0 PROVE mem_map'[loc'[r].page] = 1
    <3>1. r # p /\ loc'[r] = loc[r]
      BY <1>9, <2>2 DEF Moved
    <3>2. mem_map[loc[r].page] = 1 /\ loc[r].page \in Pages
      BY <1>1, <2>2, <3>1, Types DEF StoresAlone
    <3> QED BY <1>2, <1>3, <1>6, <3>1, <3>2
  <2> QED BY <2>1, <2>2 DEF StoresAlone
<1>13. ASSUME NEW r \in Procs
       PROVE  /\ \A b \in Addrs : Present(r, b) => content'[pte[r][b].page] = content[pte[r][b].page]
              /\ loc[r].page # 0 => content'[loc[r].page] = content[loc[r].page]
  BY <1>1, <1>2, <1>7, Types DEF Present
<1>14. ASSUME NEW r \in Procs \ {p} PROVE TaskRight(r)' /\ MemoryRight(r)'
  <2>1. \A b \in Addrs : pte'[r][b] = pte[r][b]
    BY <1>7
  <2>2. SamePlace(r)
    BY DEF SamePlace, Moved
  <2> QED BY <1>5, <1>13, <2>1, <2>2, OtherTask
<1>15. TaskRight(p)'
  BY <1>1, <1>5, <1>9 DEF TaskRight, SamePlace, Moved
<1>16. MemoryRight(p)'
  <2> SUFFICES ASSUME Separate PROVE MemoryRight(p)'
    BY DEF MemoryRight, Separate
  <2>1. pc'[p] = "user"
    BY <1>5 DEF SamePlace, Separate, Moved
  <2>2. pte'[p][a].page = n /\ n # 0 /\ pte'[p][a].w /\ content'[n] = content[m]
    BY <1>1, <1>2, <1>7, Types
  <2>3. \A b \in Addrs \ {a} : pte'[p][b] = pte[p][b]
    BY <1>7
  <2>4. ASSUME NEW b \in Addrs PROVE View(p, b)' = View(p, b)
    <3>1. CASE b = a
      BY <1>3, <2>2, <3>1 DEF View, Present, TakesCopy
    <3>2. CASE b # a
      BY <1>5, <1>13, <2>3, <3>2 DEF View, Present, FromFile
    <3> QED BY <3>1, <3>2
  <2>5. ASSUME executable[p] # NULL, NEW b \in ExecAddrs, Present(p, b)'
        PROVE  /\ pte'[p][b].w \/ ~pte'[p][b].dirty
               /\ ~pte'[p][b].dirty => content'[pte'[p][b].page] = executable[p]
    <3>1. b \in Addrs
      BY MemoryAssumption
    <3>2. Present(p, b)
      BY <2>3, <2>5, <3>1 DEF Present, TakesCopy
    <3>3. /\ pte[p][b].w \/ ~pte[p][b].dirty
          /\ ~pte[p][b].dirty => content[pte[p][b].page] = executable[p]
      BY <1>1, <2>5, <3>2 DEF MemoryRight
    <3>4. CASE b = a
      <4>1. ~pte[p][a].w
        BY <1>1, <1>3 DEF StoresAlone
      <4> QED BY <1>3, <2>2, <3>3, <3>4, <4>1
    <3>5. CASE b # a
      BY <1>13, <2>3, <3>1, <3>2, <3>3, <3>5
    <3> QED BY <3>4, <3>5
  <2> QED BY <1>1, <1>5, <2>1, <2>4, <2>5 DEF MemoryRight, HasMemory
<1> QED BY <1>1, <1>8, <1>11, <1>12, <1>14, <1>15, <1>16 DEF MemInv

(* do_wp_page().                                                            *)
LEMMA WpFaultStep ==
  ASSUME MemInv, UNCHANGED <<scenario, arg_pages>>, NEW p \in Procs, NEW a \in Addrs, WpFault(p, a)
  PROVE  MemInv'
<1>1. Moved(p)
  <2>1. TypeOK
    BY DEF MemInv
  <2>2. UNCHANGED <<pc, loc>>
    BY DEF WpFault, UnWpPage
  <2> QED BY <2>1, <2>2 DEF Moved, SamePlace, TypeOK
<1>2. CASE TakesBack(p, a)
  BY <1>1, <1>2, TakenBack
<1>3. CASE TakesCopy(p, a)
  BY <1>1, <1>3, Copied
<1>4. TakesBack(p, a) \/ TakesCopy(p, a)
  BY DEF WpFault, UnWpPage, TakesBack, TakesCopy
<1> QED BY <1>2, <1>3, <1>4

(* verify_area() and the sleep after it.                                    *)
LEMMA VerifyAreaStep ==
  ASSUME MemInv, UNCHANGED <<scenario, arg_pages>>, NEW p \in Procs, NEW a \in Addrs, VerifyArea(p, a)
  PROVE  MemInv'
<1>1. TypeOK /\ StoresAlone /\ TaskRight(p)
  BY DEF MemInv
<1>2. Moved(p)
  <2>1. /\ loc' = [loc EXCEPT ![p] = [NoLoc EXCEPT !.addr = a]]
        /\ pc' = [pc EXCEPT ![p] = "kernel"]
        /\ pc[p] = "user" /\ "read" \in scenario.ops
    BY DEF VerifyArea, WriteVerify, UnWpPage
  <2>2. PICK l : l = [NoLoc EXCEPT !.addr = a]
    OBVIOUS
  <2>3. /\ l \in [page : Pages \union {0}, addr : Addrs \union {NULL}, ret : Locations]
        /\ l.page = 0 /\ l.addr = a
    BY <2>2 DEF NoLoc, Locations
  <2>4. /\ loc \in [Procs -> [page : Pages \union {0}, addr : Addrs \union {NULL}, ret : Locations]]
        /\ pc \in [Procs -> Locations]
    BY <1>1 DEF TypeOK
  <2>5. loc' = [loc EXCEPT ![p] = l]
    BY <2>1, <2>2
  <2>6. /\ loc' \in [Procs -> [page : Pages \union {0}, addr : Addrs \union {NULL}, ret : Locations]]
        /\ \A r \in Procs : loc'[r] = IF r = p THEN l ELSE loc[r]
    BY <2>3, <2>4, <2>5
  <2>7. /\ pc' \in [Procs -> Locations]
        /\ \A r \in Procs : pc'[r] = IF r = p THEN "kernel" ELSE pc[r]
    BY <2>1, <2>4 DEF Locations
  <2>8. SamePlace(p)
    BY <2>1, <2>3, <2>6, <2>7 DEF SamePlace
  <2> QED BY <2>6, <2>7, <2>8 DEF Moved
<1>3. CASE TakesBack(p, a)
  BY <1>2, <1>3, TakenBack
<1>4. CASE TakesCopy(p, a)
  BY <1>2, <1>4, Copied
<1>5. CASE UNCHANGED <<mem_map, content, pte>>
  <2>1. UNCHANGED <<mem_map, kernel_pages, content, dir, executable, image, pte>>
    BY <1>5 DEF VerifyArea
  <2>2. TypeOK'
    BY <1>1, <1>2, <2>1 DEF TypeOK, Moved
  <2>3. \A r \in Procs : SamePlace(r)
    BY <1>2 DEF Moved, SamePlace
  <2>4. StoresAlone'
    BY <1>1, <2>1, <2>3 DEF StoresAlone, SamePlace, Present
  <2> QED BY <2>1, <2>2, <2>3, <2>4, ProtectStep
<1>6. TakesBack(p, a) \/ TakesCopy(p, a) \/ UNCHANGED <<mem_map, content, pte>>
  BY DEF VerifyArea, WriteVerify, UnWpPage, TakesBack, TakesCopy
<1> QED BY <1>3, <1>4, <1>5, <1>6

(* A task keeps its entries but for whether they are writable, when its     *)
(* page tables in D are write-protected.                                    *)
LEMMA Protected ==
  ASSUME TypeOK, NEW p \in Procs, NEW D, NEW a \in Addrs
  PROVE  /\ WriteProtect(p, D) \in [Addrs -> Entries]
         /\ WriteProtect(p, D)[a].page = pte[p][a].page
         /\ WriteProtect(p, D)[a].dirty = pte[p][a].dirty
         /\ WriteProtect(p, D)[a].w => pte[p][a].w
         /\ DirOf[a] \in D => ~WriteProtect(p, D)[a].w
<1>1. pte[p] \in [Addrs -> Entries]
  BY DEF TypeOK
<1>2. ASSUME NEW e \in Entries
      PROVE  /\ [e EXCEPT !.w = FALSE] \in Entries
             /\ [e EXCEPT !.w = FALSE].page = e.page
             /\ [e EXCEPT !.w = FALSE].dirty = e.dirty
             /\ ~[e EXCEPT !.w = FALSE].w
  <2>1. PICK c : c = [e EXCEPT !.w = FALSE]
    OBVIOUS
  <2>2. c \in Entries /\ c.page = e.page /\ c.dirty = e.dirty /\ ~c.w
    BY <2>1 DEF Entries
  <2> QED BY <2>1, <2>2
<1>3. \A b \in Addrs : pte[p][b] \in Entries
  BY <1>1
<1>4. ASSUME NEW b \in Addrs
      PROVE  WriteProtect(p, D)[b] = IF DirOf[b] \in D THEN [pte[p][b] EXCEPT !.w = FALSE]
                                     ELSE pte[p][b]
  BY DEF WriteProtect
<1>5. WriteProtect(p, D) \in [Addrs -> Entries]
  <2>1. ASSUME NEW b \in Addrs
        PROVE  (IF DirOf[b] \in D THEN [pte[p][b] EXCEPT !.w = FALSE] ELSE pte[p][b]) \in Entries
    BY <1>2, <1>3
  <2> QED BY <2>1 DEF WriteProtect
<1>6. CASE DirOf[a] \in D
  <2>1. WriteProtect(p, D)[a] = [pte[p][a] EXCEPT !.w = FALSE] /\ pte[p][a] \in Entries
    BY <1>3, <1>4, <1>6
  <2> QED BY <1>2, <1>5, <2>1
<1>7. CASE DirOf[a] \notin D
  <2>1. WriteProtect(p, D)[a] = pte[p][a]
    BY <1>4, <1>7
  <2> QED BY <1>5, <1>7, <2>1
<1> QED BY <1>6, <1>7

(* copy_mem() runs out of memory.                                           *)
LEMMA ForkFailsStep ==
  ASSUME MemInv, UNCHANGED <<scenario, arg_pages>>, NEW p \in Procs, ForkFails(p)
  PROVE  MemInv'
<1>1. TypeOK /\ StoresAlone
  BY DEF MemInv
<1>2. PICK D : pte' = [pte EXCEPT ![p] = WriteProtect(p, D)]
  BY DEF ForkFails
<1>3. /\ UNCHANGED <<mem_map, kernel_pages, content, dir, executable, image, pc, loc>>
      /\ "fork" \in scenario.ops
  BY DEF ForkFails
<1>4. pte' \in [Procs -> [Addrs -> Entries]]
  <2>1. Addrs # {} /\ pte \in [Procs -> [Addrs -> Entries]]
    BY <1>1, MemoryAssumption DEF TypeOK
  <2>2. WriteProtect(p, D) \in [Addrs -> Entries]
    BY <1>1, <2>1, Protected
  <2> QED BY <1>2, <2>1, <2>2
<1>5. ASSUME NEW r \in Procs, NEW b \in Addrs
      PROVE  /\ pte'[r][b].page = pte[r][b].page
             /\ pte'[r][b].dirty = pte[r][b].dirty
             /\ pte'[r][b].w => pte[r][b].w
  <2>1. pte \in [Procs -> [Addrs -> Entries]]
    BY <1>1 DEF TypeOK
  <2>2. CASE r = p
    <3>1. pte'[p] = WriteProtect(p, D)
      BY <1>2, <2>1
    <3> QED BY <1>1, <2>2, <3>1, Protected
  <2>3. CASE r # p
    <3>1. pte'[r] = pte[r]
      BY <1>2, <2>1, <2>3
    <3> QED BY <3>1
  <2> QED BY <2>2, <2>3
<1>6. TypeOK'
  BY <1>1, <1>3, <1>4 DEF TypeOK
<1>7. StoresAlone'
  BY <1>1, <1>3, <1>5 DEF StoresAlone, Present
<1>8. \A r \in Procs : SamePlace(r)
  BY <1>3 DEF SamePlace
<1> QED BY <1>3, <1>5, <1>6, <1>7, <1>8, ProtectStep

(* A store to a page, by user code or by the kernel for a task.             *)
StoresTo(p, a, v) ==
  /\ Present(p, a) /\ v \in Vals
  /\ content' = [content EXCEPT ![pte[p][a].page] = v]
  /\ pte' = [pte EXCEPT ![p][a].dirty = TRUE]
  /\ image' = [image EXCEPT ![p][a] = v]
  /\ UNCHANGED <<mem_map, kernel_pages, dir, executable>>
  /\ \/ pc[p] = "user" /\ pte[p][a].w /\ UNCHANGED <<pc, loc>>
     \/ /\ pc[p] = "kernel"
        /\ loc' = [loc EXCEPT ![p] = NoLoc] /\ pc' = [pc EXCEPT ![p] = "user"]

(* Only the task that stores sees the change: it is alone, or it is the     *)
(* kernel that stores.                                                      *)
LEMMA StoredStep ==
  ASSUME MemInv, UNCHANGED <<scenario, arg_pages>>, NEW p \in Procs, NEW a \in Addrs, NEW v, StoresTo(p, a, v)
  PROVE  MemInv'
<1> DEFINE n == pte[p][a].page
<1>1. /\ TypeOK /\ MemMapCounts /\ StoresAlone /\ scenario \in Scenarios
      /\ TaskRight(p) /\ MemoryRight(p)
  BY DEF MemInv
<1>2. /\ v \in Vals
      /\ content' = [content EXCEPT ![n] = v]
      /\ pte' = [pte EXCEPT ![p][a].dirty = TRUE]
      /\ image' = [image EXCEPT ![p][a] = v]
      /\ UNCHANGED <<mem_map, kernel_pages, dir, executable>>
  BY DEF StoresTo
<1>3. n \in Pages /\ pte[p][a].page = n
  BY <1>1, Types DEF StoresTo, Present
<1> HIDE DEF n
<1>4. /\ pte' \in [Procs -> [Addrs -> Entries]]
      /\ \A r \in Procs : \A b \in Addrs :
           IF r = p /\ b = a
             THEN pte'[r][b].page = n /\ pte'[r][b].w = pte[r][b].w /\ pte'[r][b].dirty = TRUE
             ELSE pte'[r][b] = pte[r][b]
  <2>1. pte \in [Procs -> [Addrs -> Entries]]
    BY <1>1 DEF TypeOK
  <2>2. PICK e \in Entries : e = pte[p][a]
    BY <2>1
  <2>3. PICK c : c = [e EXCEPT !.dirty = TRUE]
    OBVIOUS
  <2>4. c \in Entries /\ c.page = e.page /\ c.w = e.w /\ c.dirty = TRUE
    BY <2>3 DEF Entries
  <2>5. pte' = [pte EXCEPT ![p][a] = c]
    BY <1>2, <2>1, <2>2, <2>3
  <2>6. /\ \A r \in Procs : \A b \in Addrs :
             pte'[r][b] = IF r = p /\ b = a THEN c ELSE pte[r][b]
        /\ pte' \in [Procs -> [Addrs -> Entries]]
    BY <2>1, <2>4, <2>5
  <2> QED BY <1>3, <2>2, <2>4, <2>6
<1>5. /\ \A pg \in Pages : content'[pg] = IF pg = n THEN v ELSE content[pg]
      /\ content' \in [Pages -> Vals]
      /\ \A r \in Procs : \A b \in Addrs : image'[r][b] = IF r = p /\ b = a THEN v ELSE image[r][b]
      /\ \A r \in Procs \ {p} : image'[r] = image[r]
      /\ image' \in [Procs -> [Addrs -> Vals]]
  <2>1. content \in [Pages -> Vals] /\ image \in [Procs -> [Addrs -> Vals]]
    BY <1>1 DEF TypeOK
  <2> QED BY <1>2, <1>3, <2>1
<1>6. /\ \A r \in Procs \ {p} : pc'[r] = pc[r] /\ loc'[r] = loc[r]
      /\ pc[p] \in {"user", "kernel"} /\ pc'[p] = "user"
      /\ loc[p].page = 0 /\ loc'[p].page = 0
      /\ pc[p] = "user" => pte[p][a].w
      /\ pc' \in [Procs -> Locations]
      /\ loc' \in [Procs -> [page : Pages \union {0}, addr : Addrs \union {NULL}, ret : Locations]]
  <2>1. /\ pc \in [Procs -> Locations]
        /\ loc \in [Procs -> [page : Pages \union {0}, addr : Addrs \union {NULL}, ret : Locations]]
    BY <1>1 DEF TypeOK
  <2>2. pc[p] \in {"user", "kernel"} /\ (pc[p] = "user" => pte[p][a].w)
    BY DEF StoresTo
  <2>3. loc[p].page = 0
    BY <1>1, <2>2 DEF TaskRight
  <2>4. CASE UNCHANGED <<pc, loc>> /\ pc[p] = "user"
    BY <2>1, <2>2, <2>3, <2>4
  <2>5. CASE loc' = [loc EXCEPT ![p] = NoLoc] /\ pc' = [pc EXCEPT ![p] = "user"]
    <3>1. /\ NoLoc \in [page : Pages \union {0}, addr : Addrs \union {NULL}, ret : Locations]
          /\ NoLoc.page = 0 /\ "user" \in Locations
      BY DEF NoLoc, Locations
    <3> QED BY <2>1, <2>2, <2>3, <2>5, <3>1
  <2> QED BY <2>4, <2>5 DEF StoresTo
<1>7. TypeOK'
  BY <1>1, <1>2, <1>4, <1>5, <1>6 DEF TypeOK
<1>8. MemMapCounts'
  <2>1. \A r \in Procs : /\ loc'[r].page = loc[r].page
                         /\ \A b \in Addrs : pte'[r][b].page = pte[r][b].page
    BY <1>3, <1>4, <1>6
  <2>2. PagesRight'
    BY <1>1, <1>2, <2>1, NothingChanges DEF PagesRight
  <2>3. \A r \in Procs : pc'[r] = "none" <=> pc[r] = "none"
    BY <1>6
  <2>4. KernelRight'
    BY <1>2, <2>3, KernelSame
  <2>5. Left' = Left
    BY <1>2 DEF Left
  <2>6. Left' >= 0
    BY <1>1, <2>5 DEF MemMapCounts
  <2> QED BY <2>2, <2>4, <2>6, Counted
<1>9. StoresAlone'
  <2>1. \A r \in Procs : \A b \in Addrs : pte'[r][b].page = pte[r][b].page /\ pte'[r][b].w = pte[r][b].w
    BY <1>3, <1>4
  <2>2. \A r \in Procs : loc'[r].page = loc[r].page
    BY <1>6
  <2> QED BY <1>1, <1>2, <2>1, <2>2 DEF StoresAlone, Present
<1>10. ASSUME NEW r \in Procs, loc[r].page # 0
       PROVE  content'[loc[r].page] = content[loc[r].page]
  <2>1. mem_map[loc[r].page] = 1 /\ loc[r].page \in Pages
    BY <1>1, <1>10, Types DEF StoresAlone
  <2>2. loc[r].page # n
    BY <1>3, <2>1, Alone
  <2> QED BY <1>5, <2>1, <2>2
<1>11. ASSUME pc[p] = "user", NEW r \in Procs, NEW b \in Addrs, Present(r, b), ~(r = p /\ b = a)
       PROVE  content'[pte[r][b].page] = content[pte[r][b].page]
  <2>1. mem_map[n] = 1
    BY <1>1, <1>3, <1>6, <1>11 DEF StoresAlone
  <2>2. pte[r][b].page # n
    BY <1>3, <1>11, <2>1, Alone
  <2>3. pte[r][b].page \in Pages
    BY <1>1, <1>11, Types DEF Present
  <2> QED BY <1>5, <2>2, <2>3
<1>12. ASSUME NEW r \in Procs \ {p} PROVE TaskRight(r)' /\ (pc[p] = "user" => MemoryRight(r)')
  <2>1. SamePlace(r) /\ executable'[r] = executable[r] /\ image'[r] = image[r] /\ dir'[r] = dir[r]
    BY <1>2, <1>5, <1>6 DEF SamePlace
  <2>2. \A b \in Addrs : pte'[r][b] = pte[r][b]
    BY <1>4
  <2>3. TaskRight(r)'
    <3>1. TaskRight(r) /\ \A b \in Addrs : Present(r, b)' = Present(r, b)
      BY <2>2 DEF MemInv, Present
    <3>2. pc'[r] = pc[r] /\ loc'[r] = loc[r]
      BY <1>6
    <3>3. pc[r] = "load" => content'[loc[r].page] = content[loc[r].page]
      BY <1>10, <3>1 DEF TaskRight
    <3> QED BY <2>1, <3>1, <3>2, <3>3 DEF TaskRight, FromFile
  <2>4. ASSUME pc[p] = "user" PROVE MemoryRight(r)'
    <3>1. \A b \in Addrs : Present(r, b) => content'[pte[r][b].page] = content[pte[r][b].page]
      BY <1>11, <2>4
    <3> QED BY <1>10, <2>1, <2>2, <3>1, OtherTask
  <2> QED BY <2>3, <2>4
<1>13. TaskRight(p)'
  BY <1>1, <1>2, <1>6 DEF TaskRight
<1>14. MemoryRight(p)'
  <2> SUFFICES ASSUME Separate PROVE MemoryRight(p)'
    BY DEF MemoryRight, Separate
  <2>1. pc[p] = "user"
    BY <1>1, <1>6 DEF MemoryRight
  <2>2. pte'[p][a].page = n /\ pte'[p][a].w = pte[p][a].w /\ pte'[p][a].dirty = TRUE /\ content'[n] = v
    BY <1>3, <1>4, <1>5
  <2>3. \A b \in Addrs \ {a} : pte'[p][b] = pte[p][b]
    BY <1>4
  <2>4. ASSUME HasMemory(p)', NEW b \in Addrs PROVE View(p, b)' = image'[p][b]
    <3>1. View(p, b) = image[p][b]
      BY <1>1, <2>1 DEF MemoryRight, HasMemory
    <3>2. CASE b = a
      <4>1. n # 0
        BY <1>1, <1>3, Types
      <4>2. View(p, a)' = v
        BY <2>2, <4>1 DEF View, Present
      <4>3. image'[p][a] = v
        BY <1>5
      <4> QED BY <3>2, <4>2, <4>3
    <3>3. CASE b # a
      <4>1. View(p, b)' = View(p, b)
        BY <1>2, <1>11, <2>1, <2>3, <3>3 DEF View, Present, FromFile
      <4>2. image'[p][b] = image[p][b]
        BY <1>5, <3>3
      <4> QED BY <3>1, <4>1, <4>2
    <3> QED BY <3>2, <3>3
  <2>5. ASSUME executable[p] # NULL, NEW b \in ExecAddrs, Present(p, b)'
        PROVE  /\ pte'[p][b].w \/ ~pte'[p][b].dirty
               /\ ~pte'[p][b].dirty => content'[pte'[p][b].page] = executable[p]
    <3>1. b \in Addrs
      BY MemoryAssumption
    <3>2. CASE b = a
      BY <1>6, <2>1, <2>2, <3>2
    <3>3. CASE b # a
      <4>1. Present(p, b)
        BY <2>3, <2>5, <3>1, <3>3 DEF Present
      <4>2. /\ pte[p][b].w \/ ~pte[p][b].dirty
            /\ ~pte[p][b].dirty => content[pte[p][b].page] = executable[p]
        BY <1>1, <2>5, <4>1 DEF MemoryRight
      <4>3. content'[pte[p][b].page] = content[pte[p][b].page]
        BY <1>11, <2>1, <3>1, <3>3, <4>1
      <4> QED BY <2>3, <3>1, <3>3, <4>2, <4>3
    <3> QED BY <3>2, <3>3
  <2> QED BY <1>1, <1>2, <1>6, <2>4, <2>5 DEF MemoryRight
<1>15. ASSUME NEW r \in Procs PROVE TaskRight(r)' /\ MemoryRight(r)'
  <2>1. CASE r = p
    BY <1>13, <1>14, <2>1
  <2>2. CASE r # p /\ pc[p] = "user"
    BY <1>12, <2>2
  <2>3. CASE r # p /\ pc[p] = "kernel"
    <3>1. ~Separate
      BY <1>1, <2>3 DEF MemoryRight
    <3>2. MemoryRight(r)'
      BY <3>1 DEF MemoryRight, Separate
    <3> QED BY <1>12, <2>3, <3>2
  <2> QED BY <1>6, <2>1, <2>2, <2>3
<1> QED BY <1>1, <1>7, <1>8, <1>9, <1>15 DEF MemInv

(* A store of user code, and put_fs_byte().                                 *)
LEMMA StoreSteps ==
  ASSUME MemInv, UNCHANGED <<scenario, arg_pages>>, NEW p \in Procs, NEW v \in scenario.data,
         PutFs(p, v) \/ \E a \in Addrs : Store(p, a, v)
  PROVE  MemInv'
<1>1. v \in Vals
  BY MemoryAssumption DEF MemInv, Vals
<1>2. ASSUME NEW a \in Addrs, Store(p, a, v) PROVE MemInv'
  <2>1. StoresTo(p, a, v)
    BY <1>1, <1>2 DEF Store, StoresTo
  <2> QED BY <2>1, StoredStep
<1>3. CASE PutFs(p, v)
  <2>1. pc[p] = "kernel"
    BY <1>3 DEF PutFs
  <2>2. loc[p].addr \in Addrs
    BY <2>1 DEF MemInv, TaskRight
  <2>3. StoresTo(p, loc[p].addr, v)
    BY <1>1, <1>3 DEF PutFs, StoresTo
  <2> QED BY <2>2, <2>3, StoredStep
<1> QED BY <1>2, <1>3
-----------------------------------------------------------------------------
(* After a step, too, a page that is not counted has no user.               *)
LEMMA NoUserNext ==
  ASSUME PagesRight', NEW pg \in Pages, mem_map'[pg] = 0
  PROVE  /\ \A p \in Procs : \A a \in Addrs : pte'[p][a].page # pg
         /\ \A p \in Procs : loc'[p].page # pg
<1>1. References(pg)' = Cardinality(Users(pg)') + Cardinality(Holders(pg)')
  BY DEF References, Users, Holders
<1>2. /\ IsFiniteSet(Users(pg)') /\ IsFiniteSet(Holders(pg)')
      /\ Cardinality(Users(pg)') \in Nat /\ Cardinality(Holders(pg)') \in Nat
  <2>1. Users(pg)' \subseteq Procs \X Addrs /\ Holders(pg)' \subseteq Procs
    BY DEF Users, Holders
  <2>2. IsFiniteSet(Users(pg)') /\ IsFiniteSet(Holders(pg)')
    BY <2>1, AllFinite, FS_Subset
  <2> QED BY <2>2, FS_CardinalityType
<1>3. Cardinality(Users(pg)') = 0 /\ Cardinality(Holders(pg)') = 0
  <2>1. References(pg)' = 0
    BY DEF PagesRight
  <2> QED BY <1>1, <1>2, <2>1
<1>4. Users(pg)' = {} /\ Holders(pg)' = {}
  BY <1>2, <1>3, SmallSets
<1>5. ASSUME NEW p \in Procs, NEW a \in Addrs, pte'[p][a].page = pg PROVE FALSE
  <2>1. <<p, a>> \in Procs \X Addrs /\ <<p, a>>[1] = p /\ <<p, a>>[2] = a
    OBVIOUS
  <2>2. <<p, a>> \in Users(pg)'
    BY <1>5, <2>1 DEF Users
  <2> QED BY <1>4, <2>2
<1>6. \A p \in Procs : loc'[p].page # pg
  BY <1>4 DEF Holders
<1> QED BY <1>5, <1>6

(* ... and one that is counted once has no other than the one known.        *)
LEMMA SoleUserNext ==
  ASSUME PagesRight', NEW pg \in Pages, mem_map'[pg] = 1,
         NEW p \in Procs, NEW a \in Addrs, pte'[p][a].page = pg
  PROVE  /\ \A q \in Procs \ {p} : \A b \in Addrs : pte'[q][b].page # pg
         /\ \A q \in Procs : loc'[q].page # pg
<1>1. References(pg)' = Cardinality(Users(pg)') + Cardinality(Holders(pg)')
  BY DEF References, Users, Holders
<1>2. /\ IsFiniteSet(Users(pg)') /\ IsFiniteSet(Holders(pg)')
      /\ Cardinality(Users(pg)') \in Nat /\ Cardinality(Holders(pg)') \in Nat
  <2>1. Users(pg)' \subseteq Procs \X Addrs /\ Holders(pg)' \subseteq Procs
    BY DEF Users, Holders
  <2>2. IsFiniteSet(Users(pg)') /\ IsFiniteSet(Holders(pg)')
    BY <2>1, AllFinite, FS_Subset
  <2> QED BY <2>2, FS_CardinalityType
<1>3. ASSUME NEW q \in Procs, NEW b \in Addrs
      PROVE  <<q, b>> \in Users(pg)' <=> pte'[q][b].page = pg
  <2>1. <<q, b>> \in Procs \X Addrs /\ <<q, b>>[1] = q /\ <<q, b>>[2] = b
    OBVIOUS
  <2> QED BY <2>1 DEF Users
<1>4. Cardinality(Users(pg)') = 1 /\ Cardinality(Holders(pg)') = 0
  <2>1. References(pg)' = 1
    BY DEF PagesRight
  <2>2. Users(pg)' # {}
    BY <1>3
  <2>3. Cardinality(Users(pg)') # 0
    BY <1>2, <2>2, SmallSets
  <2> QED BY <1>1, <1>2, <2>1, <2>3
<1>5. Holders(pg)' = {} /\ \A x, y \in Users(pg)' : x = y
  BY <1>2, <1>4, SmallSets
<1>6. ASSUME NEW q \in Procs \ {p}, NEW b \in Addrs, pte'[q][b].page = pg PROVE FALSE
  <2>1. <<p, a>> \in Users(pg)' /\ <<q, b>> \in Users(pg)'
    BY <1>3, <1>6
  <2>2. <<p, a>> = <<q, b>>
    BY <1>5, <2>1
  <2> QED BY <1>6, <2>2
<1>7. \A q \in Procs : loc'[q].page # pg
  BY <1>5 DEF Holders
<1> QED BY <1>6, <1>7

(* What is in use is not forgotten.                                         *)
LEMMA Remembered ==
  ASSUME PagesRight', content' = Forget(mem_map'), NEW pg \in Pages, NEW r \in Procs,
         loc'[r].page = pg \/ \E b \in Addrs : pte'[r][b].page = pg
  PROVE  content'[pg] = content[pg]
<1>1. mem_map'[pg] # 0
  BY NoUserNext
<1> QED BY <1>1 DEF Forget

(* Forgetting leaves the types alone.                                       *)
LEMMA ForgetType ==
  ASSUME content \in [Pages -> Vals], NEW map
  PROVE  Forget(map) \in [Pages -> Vals]
BY DEF Forget, Vals

(* A task that does not use a page has an empty row for it.                 *)
LEMMA EmptyRow ==
  ASSUME NEW p \in Procs, NEW pg, \A a \in Addrs : pte[p][a].page # pg
  PROVE  Cardinality(Row(p, pg)) = 0
<1>1. Row(p, pg) = {}
  BY DEF Row
<1> QED BY <1>1, FS_EmptySet

(* do_exit() gives back the memory of p.                                    *)
LEMMA DoExitStep ==
  ASSUME MemInv, UNCHANGED <<scenario, arg_pages>>, NEW p \in Procs, DoExit(p),
         pc[p] \in {"user", "kernel", "args", "load"}
  PROVE  MemInv'
<1>1. /\ TypeOK /\ MemMapCounts /\ StoresAlone /\ scenario \in Scenarios
      /\ TaskRight(p) /\ MemoryRight(p)
  BY DEF MemInv
<1>2. /\ kernel_pages' = kernel_pages - Cardinality(Tables(p))
      /\ dir' = [dir EXCEPT ![p] = NoTables]
      /\ pte' = [pte EXCEPT ![p] = NoPages]
      /\ loc' = [loc EXCEPT ![p] = NoLoc]
      /\ pc' = [pc EXCEPT ![p] = "exit"]
      /\ content' = Forget(mem_map')
      /\ image' = [image EXCEPT ![p] = NoImage]
      /\ executable' = executable
  BY DEF DoExit
<1>3. /\ pte' \in [Procs -> [Addrs -> Entries]]
      /\ \A r \in Procs \ {p} : pte'[r] = pte[r]
      /\ \A a \in Addrs : pte'[p][a].page = 0 /\ pte'[p][a].w = FALSE
  <2>1. pte \in [Procs -> [Addrs -> Entries]]
    BY <1>1 DEF TypeOK
  <2>2. NotPresent \in Entries /\ NotPresent.page = 0 /\ NotPresent.w = FALSE
    BY DEF NotPresent, Entries
  <2>3. NoPages \in [Addrs -> Entries] /\ \A a \in Addrs : NoPages[a] = NotPresent
    BY <2>2 DEF NoPages
  <2>4. /\ pte' \in [Procs -> [Addrs -> Entries]]
        /\ \A r \in Procs : pte'[r] = IF r = p THEN NoPages ELSE pte[r]
    BY <1>2, <2>1, <2>3
  <2> QED BY <2>2, <2>3, <2>4
<1>4. /\ loc' \in [Procs -> [page : Pages \union {0}, addr : Addrs \union {NULL}, ret : Locations]]
      /\ \A r \in Procs \ {p} : loc'[r] = loc[r]
      /\ loc'[p].page = 0
  <2>1. loc \in [Procs -> [page : Pages \union {0}, addr : Addrs \union {NULL}, ret : Locations]]
    BY <1>1 DEF TypeOK
  <2>2. /\ NoLoc \in [page : Pages \union {0}, addr : Addrs \union {NULL}, ret : Locations]
        /\ NoLoc.page = 0
    BY DEF NoLoc, Locations
  <2> QED BY <1>2, <2>1, <2>2
<1>5. /\ dir' \in [Procs -> [Dirs -> BOOLEAN]]
      /\ \A r \in Procs \ {p} : dir'[r] = dir[r]
      /\ \A d \in Dirs : dir'[p][d] = FALSE
  <2>1. dir \in [Procs -> [Dirs -> BOOLEAN]]
    BY <1>1 DEF TypeOK
  <2>2. NoTables \in [Dirs -> BOOLEAN] /\ \A d \in Dirs : NoTables[d] = FALSE
    BY DEF NoTables
  <2> QED BY <1>2, <2>1, <2>2
<1>6. /\ pc' \in [Procs -> Locations]
      /\ \A r \in Procs \ {p} : pc'[r] = pc[r]
      /\ pc'[p] = "exit"
  BY <1>1, <1>2 DEF TypeOK, Locations
<1>7. /\ image' \in [Procs -> [Addrs -> Vals]]
      /\ \A r \in Procs \ {p} : image'[r] = image[r]
  <2>1. image \in [Procs -> [Addrs -> Vals]] /\ NoImage \in [Addrs -> Vals]
    BY <1>1 DEF TypeOK, NoImage, Vals
  <2> QED BY <1>2, <2>1
<1>8. ASSUME NEW pg \in Pages
      PROVE  /\ Cardinality(Row(p, pg)) \in Nat
             /\ mem_map'[pg] = mem_map[pg] - Same(loc[p].page, pg) - Cardinality(Row(p, pg))
             /\ mem_map'[pg] = References(pg)' /\ mem_map'[pg] \in Nat
  <2>1. mem_map \in [Pages -> Nat] /\ loc[p].page \in Pages \union {0} /\ 0 \notin Pages
    BY <1>1, Types DEF TypeOK
  <2>2. mem_map'[pg] = (IF loc[p].page = 0 THEN mem_map
                        ELSE [mem_map EXCEPT ![loc[p].page] = @ - 1])[pg] - Cardinality(Row(p, pg))
    BY DEF DoExit, FreePageTables, Row
  <2>3. (IF loc[p].page = 0 THEN mem_map ELSE [mem_map EXCEPT ![loc[p].page] = @ - 1])[pg]
        = mem_map[pg] - Same(loc[p].page, pg)
    BY <2>1 DEF Same
  <2>4. /\ References(pg)' \in Nat /\ Cardinality(Row(p, pg)) \in Nat
        /\ References(pg)' + Cardinality(Row(p, pg)) + Same(loc[p].page, pg)
           = mem_map[pg] + Cardinality(Row(p, pg)') + Same(loc'[p].page, pg)
    BY <1>1, <1>3, <1>4, TaskChanges
  <2>5. Cardinality(Row(p, pg)') = 0
    <3>1. Row(p, pg)' = {}
      BY <1>3, <2>1 DEF Row
    <3> QED BY <3>1, FS_EmptySet
  <2>6. Same(loc'[p].page, pg) = 0 /\ Same(loc[p].page, pg) \in {0, 1} /\ mem_map[pg] \in Nat
    BY <1>4, <2>1 DEF Same
  <2> QED BY <2>2, <2>3, <2>4, <2>5, <2>6
<1>9. mem_map' \in [Pages -> Nat]
  <2> DEFINE m == IF loc[p].page = 0 THEN mem_map ELSE [mem_map EXCEPT ![loc[p].page] = @ - 1]
  <2>1. mem_map' = [pg \in Pages |-> m[pg] - Cardinality({a \in Addrs : pte[p][a].page = pg})]
    BY DEF DoExit, FreePageTables
  <2> HIDE DEF m
  <2> QED BY <1>8, <2>1
<1>10. PagesRight'
  BY <1>8 DEF PagesRight
<1>11. kernel_pages' \in Nat /\ kernel_pages' <= kernel_pages /\ KernelRight'
  <2>1. kernel_pages \in Nat /\ kernel_pages' \in Int
    <3>1. Tables(p) \subseteq Dirs
      BY DEF Tables
    <3>2. Cardinality(Tables(p)) \in Nat
      BY <3>1, AllFinite, FS_Subset, FS_CardinalityType
    <3> QED BY <1>1, <1>2, <3>2 DEF TypeOK
  <2>2. /\ Cardinality(Tables(p)) \in Nat
        /\ Cardinality(Tables(p)) + One(pc[p] # "none") <= kernel_pages
        /\ kernel_pages + Cardinality(Tables(p)') + One(pc'[p] # "none")
           = kernel_pages' + Cardinality(Tables(p)) + One(pc[p] # "none")
           => KernelRight'
    BY <1>1, <1>5, <1>6, <2>1, KernelChanges DEF KernelRight
  <2>3. Cardinality(Tables(p)') = 0
    <3>1. Tables(p)' = {}
      BY <1>5 DEF Tables
    <3> QED BY <3>1, FS_EmptySet
  <2>4. One(pc[p] # "none") = 1 /\ One(pc'[p] # "none") = 1
    BY <1>6 DEF One
  <2> QED BY <1>2, <2>1, <2>2, <2>3, <2>4
<1>12. TypeOK'
  <2>1. content' \in [Pages -> Vals]
    BY <1>1, <1>2, ForgetType DEF TypeOK
  <2> QED BY <1>1, <1>2, <1>3, <1>4, <1>5, <1>6, <1>7, <1>9, <1>11, <2>1 DEF TypeOK
<1>13. MemMapCounts'
  <2>1. \A pg \in Pages : mem_map'[pg] # 0 => mem_map[pg] # 0
    <3>1. ASSUME NEW pg \in Pages, mem_map[pg] = 0 PROVE mem_map'[pg] = 0
      <4>1. Same(loc[p].page, pg) \in {0, 1}
        BY DEF Same
      <4> QED BY <1>8, <3>1, <4>1
    <3> QED BY <3>1
  <2>2. 0 \in Nat /\ kernel_pages' <= kernel_pages + 0 /\ Left >= 0
    BY <1>1, <1>11 DEF TypeOK, MemMapCounts
  <2>3. Left' >= 0
    BY <1>1, <1>12, <2>1, <2>2, LeftChanges
  <2> QED BY <1>10, <1>11, <2>3, Counted
<1>14. ASSUME NEW pg \in Pages, mem_map[pg] = 1, \A a \in Addrs : pte[p][a].page # pg, loc[p].page # pg
       PROVE  mem_map'[pg] = 1
  <2>1. Cardinality(Row(p, pg)) = 0
    BY <1>14, EmptyRow
  <2>2. Same(loc[p].page, pg) = 0
    BY <1>14 DEF Same
  <2> QED BY <1>8, <1>14, <2>1, <2>2
<1>15. StoresAlone'
  <2>1. ASSUME NEW r \in Procs, NEW b \in Addrs, pte'[r][b].w
        PROVE  Present(r, b)' /\ mem_map'[pte'[r][b].page] = 1
    <3>1. r # p /\ pte'[r][b] = pte[r][b]
      BY <1>3, <2>1
    <3>2. Present(r, b) /\ mem_map[pte[r][b].page] = 1 /\ pte[r][b].page \in Pages
      BY <1>1, <2>1, <3>1, Types DEF StoresAlone, Present
    <3>3. loc[p].page # pte[r][b].page /\ \A a \in Addrs : pte[p][a].page # pte[r][b].page
      BY <3>1, <3>2, Alone
    <3> QED BY <1>14, <3>1, <3>2, <3>3 DEF Present
  <2>2. ASSUME NEW r \in Procs, loc'[r].page # 0 PROVE mem_map'[loc'[r].page] = 1
    <3>1. r # p /\ loc'[r] = loc[r]
      BY <1>4, <2>2
    <3>2. mem_map[loc[r].page] = 1 /\ loc[r].page \in Pages
      BY <1>1, <2>2, <3>1, Types DEF StoresAlone
    <3>3. loc[p].page # loc[r].page /\ \A a \in Addrs : pte[p][a].page # loc[r].page
      BY <3>1, <3>2, Alone
    <3> QED BY <1>14, <3>1, <3>2, <3>3
  <2> QED BY <2>1, <2>2 DEF StoresAlone
<1>16. ASSUME NEW r \in Procs \ {p} PROVE TaskRight(r)' /\ MemoryRight(r)'
  <2>1. SamePlace(r) /\ executable'[r] = executable[r] /\ image'[r] = image[r] /\ dir'[r] = dir[r]
    BY <1>2, <1>4, <1>5, <1>6, <1>7 DEF SamePlace
  <2>2. pte'[r] = pte[r] /\ loc'[r] = loc[r]
    BY <1>3, <1>4
  <2>3. ASSUME NEW b \in Addrs, Present(r, b) PROVE content'[pte[r][b].page] = content[pte[r][b].page]
    <3>1. pte[r][b].page \in Pages /\ pte'[r][b].page = pte[r][b].page
      BY <1>1, <2>2, <2>3, Types DEF Present
    <3> QED BY <1>2, <1>10, <3>1, Remembered
  <2>4. ASSUME loc[r].page # 0 PROVE content'[loc[r].page] = content[loc[r].page]
    <3>1. loc[r].page \in Pages /\ loc'[r].page = loc[r].page
      BY <1>1, <2>2, <2>4, Types
    <3> QED BY <1>2, <1>10, <3>1, Remembered
  <2> QED BY <2>1, <2>2, <2>3, <2>4, OtherTask
<1>17. TaskRight(p)'
  BY <1>3, <1>4, <1>5, <1>6 DEF TaskRight, Present
<1>18. MemoryRight(p)'
  <2>1. Separate' => Separate
    BY DEF Separate
  <2> QED BY <1>1, <1>2, <1>3, <1>6, <2>1, MemoryAssumption DEF MemoryRight, HasMemory, Present
<1> QED BY <1>1, <1>12, <1>13, <1>15, <1>16, <1>17, <1>18 DEF MemInv

(* exit(), and oom() wherever it is called.                                 *)
LEMMA ExitSteps ==
  ASSUME MemInv, UNCHANGED <<scenario, arg_pages>>, NEW p \in Procs, Oom(p) \/ Exit(p)
  PROVE  MemInv'
<1>1. DoExit(p) /\ pc[p] \in {"user", "kernel", "args", "load"}
  BY DEF Oom, Exit, Faults
<1> QED BY <1>1, DoExitStep

(* The rest of do_exit().                                                   *)
LEMMA ExitDoneStep ==
  ASSUME MemInv, UNCHANGED <<scenario, arg_pages>>, NEW p \in Procs, ExitDone(p)
  PROVE  MemInv'
<1>1. /\ TypeOK /\ MemMapCounts /\ StoresAlone /\ scenario \in Scenarios
      /\ TaskRight(p) /\ MemoryRight(p)
  BY DEF MemInv
<1>2. /\ pc[p] = "exit"
      /\ executable' = [executable EXCEPT ![p] = NULL]
      /\ pc' = [pc EXCEPT ![p] = "zombie"]
      /\ UNCHANGED <<mem_map, kernel_pages, content, dir, pte, loc, image>>
  BY DEF ExitDone
<1>3. /\ executable' \in [Procs -> Execs \union {NULL}] /\ pc' \in [Procs -> Locations]
      /\ \A r \in Procs \ {p} : executable'[r] = executable[r] /\ pc'[r] = pc[r]
      /\ executable'[p] = NULL /\ pc'[p] = "zombie"
  BY <1>1, <1>2 DEF TypeOK, Locations
<1>4. TypeOK'
  BY <1>1, <1>2, <1>3 DEF TypeOK
<1>5. MemMapCounts'
  <2>1. PagesRight'
    BY <1>1, <1>2, NothingChanges DEF PagesRight
  <2>2. \A r \in Procs : pc'[r] = "none" <=> pc[r] = "none"
    BY <1>2, <1>3
  <2>3. KernelRight'
    BY <1>2, <2>2, KernelSame
  <2>4. Left' = Left
    BY <1>2 DEF Left
  <2>5. Left' >= 0
    BY <1>1, <2>4 DEF MemMapCounts
  <2> QED BY <2>1, <2>3, <2>5, Counted
<1>6. StoresAlone'
  BY <1>1, <1>2 DEF StoresAlone, Present
<1>7. ASSUME NEW r \in Procs \ {p} PROVE TaskRight(r)' /\ MemoryRight(r)'
  <2>1. SamePlace(r) /\ executable'[r] = executable[r]
    BY <1>2, <1>3 DEF SamePlace
  <2> QED BY <1>2, <2>1, OtherTask
<1>8. TaskRight(p)'
  BY <1>1, <1>2, <1>3 DEF TaskRight, Present
<1>9. MemoryRight(p)'
  BY <1>3 DEF MemoryRight, HasMemory
<1> QED BY <1>1, <1>4, <1>5, <1>6, <1>7, <1>8, <1>9 DEF MemInv

(* release() gives back the task structure.                                 *)
LEMMA ReleaseStep ==
  ASSUME MemInv, UNCHANGED <<scenario, arg_pages>>, NEW p \in Procs, Release(p)
  PROVE  MemInv'
<1>1. /\ TypeOK /\ MemMapCounts /\ StoresAlone /\ scenario \in Scenarios
      /\ TaskRight(p) /\ MemoryRight(p)
  BY DEF MemInv
<1>2. /\ pc[p] = "zombie"
      /\ kernel_pages' = kernel_pages - 1
      /\ pc' = [pc EXCEPT ![p] = "none"]
      /\ UNCHANGED <<mem_map, content, dir, pte, executable, loc, image>>
  BY DEF Release
<1>3. /\ pc' \in [Procs -> Locations]
      /\ \A r \in Procs \ {p} : pc'[r] = pc[r]
      /\ pc'[p] = "none"
  BY <1>1, <1>2 DEF TypeOK, Locations
<1>4. kernel_pages' \in Nat /\ KernelRight'
  <2>1. kernel_pages \in Nat /\ kernel_pages' \in Int
    BY <1>1, <1>2 DEF TypeOK
  <2>2. /\ Cardinality(Tables(p)) \in Nat
        /\ Cardinality(Tables(p)) + One(pc[p] # "none") <= kernel_pages
        /\ kernel_pages + Cardinality(Tables(p)') + One(pc'[p] # "none")
           = kernel_pages' + Cardinality(Tables(p)) + One(pc[p] # "none")
           => KernelRight'
    BY <1>1, <1>2, <1>3, <2>1, KernelChanges DEF KernelRight
  <2>3. Cardinality(Tables(p)') = Cardinality(Tables(p))
    BY <1>2 DEF Tables
  <2>4. One(pc[p] # "none") = 1 /\ One(pc'[p] # "none") = 0
    BY <1>2, <1>3 DEF One
  <2> QED BY <1>2, <2>1, <2>2, <2>3, <2>4
<1>5. TypeOK'
  BY <1>1, <1>2, <1>3, <1>4 DEF TypeOK
<1>6. MemMapCounts'
  <2>1. PagesRight'
    BY <1>1, <1>2, NothingChanges DEF PagesRight
  <2>2. \A pg \in Pages : mem_map'[pg] # 0 => mem_map[pg] # 0
    BY <1>2
  <2>3. 0 \in Nat /\ kernel_pages' <= kernel_pages + 0 /\ Left >= 0
    BY <1>1, <1>2 DEF TypeOK, MemMapCounts
  <2>4. Left' >= 0
    BY <1>1, <1>5, <2>2, <2>3, LeftChanges
  <2> QED BY <1>4, <2>1, <2>4, Counted
<1>7. StoresAlone'
  BY <1>1, <1>2 DEF StoresAlone, Present
<1>8. ASSUME NEW r \in Procs \ {p} PROVE TaskRight(r)' /\ MemoryRight(r)'
  <2>1. SamePlace(r)
    BY <1>2, <1>3 DEF SamePlace
  <2> QED BY <1>2, <2>1, OtherTask
<1>9. TaskRight(p)'
  BY <1>1, <1>2, <1>3 DEF TaskRight, Present
<1>10. MemoryRight(p)'
  <2>1. ASSUME NEW a \in Addrs PROVE ~Present(p, a)'
    BY <1>1, <1>2 DEF TaskRight, Present
  <2>2. Separate' => Separate
    BY DEF Separate
  <2> QED BY <1>1, <1>2, <1>3, <2>1, <2>2, MemoryAssumption DEF MemoryRight, HasMemory
<1> QED BY <1>1, <1>5, <1>6, <1>7, <1>8, <1>9, <1>10 DEF MemInv
-----------------------------------------------------------------------------
(* copy_strings() of do_execve() takes a page, and gives it back on an      *)
(* error.                                                                   *)
LEMMA ExecArgsSteps ==
  ASSUME MemInv, scenario' = scenario, NEW p \in Procs,
         ExecArgs(p) \/ (ExecError(p) /\ arg_pages > 0)
  PROVE  MemInv'
<1>1. /\ TypeOK /\ MemMapCounts /\ StoresAlone /\ scenario \in Scenarios
      /\ TaskRight(p)
  BY DEF MemInv
<1>2. /\ UNCHANGED <<mem_map, kernel_pages, content, dir, pte, executable, loc, image>>
      /\ \/ /\ pc[p] = "user" /\ pc' = [pc EXCEPT ![p] = "args"]
            /\ Left > 0 /\ arg_pages' = arg_pages + 1
            /\ "execve" \in scenario.ops
         \/ /\ pc[p] = "args" /\ pc' = [pc EXCEPT ![p] = "user"]
            /\ arg_pages > 0 /\ arg_pages' = arg_pages - 1
  BY DEF ExecArgs, ExecError
<1>3. /\ pc' \in [Procs -> Locations]
      /\ \A r \in Procs \ {p} : pc'[r] = pc[r]
      /\ pc[p] \in {"user", "args"} /\ pc'[p] \in {"user", "args"}
  BY <1>1, <1>2 DEF TypeOK, Locations
<1>4. arg_pages \in Nat /\ arg_pages' \in Nat
  BY <1>1, <1>2 DEF TypeOK
<1>5. TypeOK'
  BY <1>1, <1>2, <1>3, <1>4 DEF TypeOK
<1>6. MemMapCounts'
  <2>1. PagesRight'
    BY <1>1, <1>2, NothingChanges DEF PagesRight
  <2>2. \A r \in Procs : pc'[r] = "none" <=> pc[r] = "none"
    BY <1>3
  <2>3. KernelRight'
    BY <1>2, <2>2, KernelSame
  <2>4. Left' = Left + arg_pages - arg_pages'
    <3>1. Used(mem_map) \subseteq Pages
      BY DEF Used
    <3>2. Cardinality(Used(mem_map)) \in Nat
      BY <3>1, AllFinite, FS_Subset, FS_CardinalityType
    <3>3. kernel_pages \in Nat /\ PAGING_PAGES \in Nat
      BY <1>1, MemoryAssumption DEF TypeOK
    <3>4. /\ Left = PAGING_PAGES - kernel_pages - arg_pages - Cardinality(Used(mem_map))
          /\ Left' = PAGING_PAGES - kernel_pages - arg_pages' - Cardinality(Used(mem_map))
      BY <1>2 DEF Left, Used
    <3> QED BY <1>4, <3>2, <3>3, <3>4
  <2>5. Left \in Int /\ Left >= 0
    BY <1>1, LeftType DEF MemMapCounts
  <2>6. Left' >= 0
    BY <1>2, <1>4, <2>4, <2>5
  <2> QED BY <2>1, <2>3, <2>6, Counted
<1>7. StoresAlone'
  BY <1>1, <1>2 DEF StoresAlone, Present
<1>8. ASSUME NEW r \in Procs \ {p} PROVE TaskRight(r)'
  <2>1. SamePlace(r)
    BY <1>2, <1>3 DEF SamePlace
  <2> QED BY <1>2, <2>1, OtherTask
<1>9. TaskRight(p)'
  BY <1>1, <1>2, <1>3 DEF TaskRight
<1>10. \A r \in Procs : MemoryRight(r)'
  <2>1. ~Separate
    <3>1. MemoryRight(p)
      BY DEF MemInv
    <3>2. CASE "execve" \in scenario.ops
      BY <3>2 DEF Separate
    <3>3. CASE pc[p] = "args"
      BY <3>1, <3>3 DEF MemoryRight
    <3> QED BY <1>2, <3>2, <3>3
  <2> QED BY <2>1 DEF MemoryRight, Separate
<1> QED BY <1>1, <1>5, <1>6, <1>7, <1>8, <1>9, <1>10 DEF MemInv

(* do_execve() changes current->executable ...                              *)
LEMMA ExecCommitStep ==
  ASSUME MemInv, UNCHANGED <<scenario, arg_pages>>, NEW p \in Procs, NEW e \in Execs, ExecCommit(p, e)
  PROVE  MemInv'
<1>1. /\ TypeOK /\ MemMapCounts /\ StoresAlone /\ scenario \in Scenarios
      /\ TaskRight(p) /\ MemoryRight(p)
  BY DEF MemInv
<1>2. /\ pc[p] = "args"
      /\ executable' = [executable EXCEPT ![p] = e]
      /\ pc' = [pc EXCEPT ![p] = "exec"]
      /\ UNCHANGED <<mem_map, kernel_pages, content, dir, pte, loc, image>>
  BY DEF ExecCommit
<1>3. /\ executable' \in [Procs -> Execs \union {NULL}] /\ pc' \in [Procs -> Locations]
      /\ \A r \in Procs \ {p} : executable'[r] = executable[r] /\ pc'[r] = pc[r]
      /\ pc'[p] = "exec"
  BY <1>1, <1>2 DEF TypeOK, Locations
<1>4. TypeOK'
  BY <1>1, <1>2, <1>3 DEF TypeOK
<1>5. MemMapCounts'
  <2>1. PagesRight'
    BY <1>1, <1>2, NothingChanges DEF PagesRight
  <2>2. \A r \in Procs : pc'[r] = "none" <=> pc[r] = "none"
    BY <1>2, <1>3
  <2>3. KernelRight'
    BY <1>2, <2>2, KernelSame
  <2>4. Left' = Left
    BY <1>2 DEF Left
  <2>5. Left' >= 0
    BY <1>1, <2>4 DEF MemMapCounts
  <2> QED BY <2>1, <2>3, <2>5, Counted
<1>6. StoresAlone'
  BY <1>1, <1>2 DEF StoresAlone, Present
<1>7. ASSUME NEW r \in Procs \ {p} PROVE TaskRight(r)'
  <2>1. SamePlace(r) /\ executable'[r] = executable[r]
    BY <1>2, <1>3 DEF SamePlace
  <2> QED BY <1>2, <2>1, OtherTask
<1>8. TaskRight(p)'
  BY <1>1, <1>2, <1>3 DEF TaskRight
<1>9. \A r \in Procs : MemoryRight(r)'
  BY <1>1, <1>2 DEF MemoryRight, Separate
<1> QED BY <1>1, <1>4, <1>5, <1>6, <1>7, <1>8, <1>9 DEF MemInv

(* ... and the memory for the new program.                                  *)
LEMMA ExecDoneStep ==
  ASSUME MemInv, scenario' = scenario, NEW p \in Procs, ExecDone(p), arg_pages > 0
  PROVE  MemInv'
<1> DEFINE freed == FreePageTables(mem_map, p)
           n == FreePage(freed)
<1>1. /\ TypeOK /\ MemMapCounts /\ StoresAlone /\ scenario \in Scenarios
      /\ TaskRight(p) /\ MemoryRight(p)
  BY DEF MemInv
<1>2. /\ pc[p] = "exec"
      /\ mem_map' = [freed EXCEPT ![n] = 1]
      /\ kernel_pages' = kernel_pages - Cardinality(Tables(p)) + 1
      /\ arg_pages' = arg_pages - 1
      /\ content' = [Forget(freed) EXCEPT ![n] = Args]
      /\ dir' = [dir EXCEPT ![p] = [NoTables EXCEPT ![DirOf[Stack]] = TRUE]]
      /\ pte' = [pte EXCEPT ![p] = [NoPages EXCEPT ![Stack] =
                                      [page |-> n, w |-> TRUE, dirty |-> FALSE]]]
      /\ pc' = [pc EXCEPT ![p] = "user"]
      /\ image' = [image EXCEPT ![p] = NewImage(executable[p])]
      /\ executable' = executable /\ loc' = loc
  BY DEF ExecDone
<1>3. dir[p][DirOf[Stack]] /\ loc[p].page = 0 /\ 0 \notin Pages
  BY <1>1, <1>2, Types DEF TaskRight
<1>4. \A r \in Procs \ {p} : pte'[r] = pte[r]
  <2>1. pte \in [Procs -> [Addrs -> Entries]]
    BY <1>1 DEF TypeOK
  <2> HIDE DEF n
  <2> QED BY <1>2, <2>1
<1>5. ASSUME NEW pg \in Pages
      PROVE  /\ Cardinality(Row(p, pg)) \in Nat /\ freed[pg] \in Nat
             /\ freed[pg] = mem_map[pg] - Cardinality(Row(p, pg))
             /\ References(pg)' = freed[pg] + Cardinality(Row(p, pg)')
  <2>1. mem_map[pg] \in Nat
    BY <1>1, Types
  <2>2. freed[pg] = mem_map[pg] - Cardinality(Row(p, pg))
    BY DEF FreePageTables, Row
  <2>3. /\ References(pg)' \in Nat
        /\ Cardinality(Row(p, pg)) \in Nat /\ Cardinality(Row(p, pg)') \in Nat
        /\ Cardinality(Row(p, pg)) + Same(loc[p].page, pg) <= mem_map[pg]
        /\ References(pg)' + Cardinality(Row(p, pg)) + Same(loc[p].page, pg)
           = mem_map[pg] + Cardinality(Row(p, pg)') + Same(loc'[p].page, pg)
    BY <1>1, <1>2, <1>4, TaskChanges
  <2>4. Same(loc[p].page, pg) = 0 /\ Same(loc'[p].page, pg) = 0
    BY <1>2, <1>3 DEF Same
  <2> HIDE DEF freed, n
  <2> QED BY <2>1, <2>2, <2>3, <2>4
<1>6. freed \in [Pages -> Nat]
  <2>1. freed = [pg \in Pages |-> mem_map[pg] - Cardinality({a \in Addrs : pte[p][a].page = pg})]
    BY DEF FreePageTables
  <2> HIDE DEF freed, n
  <2> QED BY <1>5, <2>1
<1> HIDE DEF freed
<1>7. /\ Stack \in Addrs /\ DirOf[Stack] \in Dirs
      /\ dir' \in [Procs -> [Dirs -> BOOLEAN]]
      /\ \A r \in Procs \ {p} : dir'[r] = dir[r]
      /\ \A d \in Dirs : dir'[p][d] = (d = DirOf[Stack])
  <2>1. dir \in [Procs -> [Dirs -> BOOLEAN]] /\ Stack \in Addrs /\ DirOf[Stack] \in Dirs
    BY <1>1, MemoryAssumption DEF TypeOK, Dirs
  <2>2. NoTables \in [Dirs -> BOOLEAN] /\ \A d \in Dirs : NoTables[d] = FALSE
    BY DEF NoTables
  <2>3. PICK row : row = [NoTables EXCEPT ![DirOf[Stack]] = TRUE]
    OBVIOUS
  <2>4. row \in [Dirs -> BOOLEAN] /\ \A d \in Dirs : row[d] = (d = DirOf[Stack])
    BY <2>1, <2>2, <2>3
  <2>5. /\ dir' \in [Procs -> [Dirs -> BOOLEAN]]
        /\ \A r \in Procs : dir'[r] = IF r = p THEN row ELSE dir[r]
    BY <1>2, <2>1, <2>3, <2>4
  <2> QED BY <2>1, <2>4, <2>5
<1>8. /\ pc' \in [Procs -> Locations]
      /\ \A r \in Procs \ {p} : pc'[r] = pc[r]
      /\ pc'[p] = "user"
  BY <1>1, <1>2 DEF TypeOK, Locations
<1>9. kernel_pages' \in Nat /\ kernel_pages > 0 /\ kernel_pages' <= kernel_pages /\ KernelRight'
  <2>1. Tables(p) \subseteq Dirs /\ DirOf[Stack] \in Tables(p)
    BY <1>3, <1>7 DEF Tables
  <2>2. IsFiniteSet(Tables(p))
    BY <2>1, AllFinite, FS_Subset
  <2>3. Cardinality(Tables(p)) \in Nat /\ Cardinality(Tables(p)) # 0
    BY <2>1, <2>2, SmallSets
  <2>4. kernel_pages \in Nat /\ kernel_pages' \in Int
    BY <1>1, <1>2, <2>3 DEF TypeOK
  <2>5. /\ Cardinality(Tables(p)) + One(pc[p] # "none") <= kernel_pages
        /\ kernel_pages + Cardinality(Tables(p)') + One(pc'[p] # "none")
           = kernel_pages' + Cardinality(Tables(p)) + One(pc[p] # "none")
           => KernelRight'
    BY <1>1, <1>7, <1>8, <2>4, KernelChanges DEF KernelRight
  <2>6. Cardinality(Tables(p)') = 1
    <3>1. Tables(p)' = {DirOf[Stack]}
      BY <1>7 DEF Tables
    <3> QED BY <3>1, FS_Singleton
  <2>7. One(pc[p] # "none") = 1 /\ One(pc'[p] # "none") = 1
    BY <1>2, <1>8 DEF One
  <2>8. kernel_pages' = kernel_pages - Cardinality(Tables(p)) + 1
    BY <1>2
  <2> QED BY <2>3, <2>4, <2>5, <2>6, <2>7, <2>8
<1>10. /\ Cardinality(Used(freed)) \in Nat /\ Cardinality(Used(mem_map)) \in Nat
       /\ Cardinality(Used(freed)) <= Cardinality(Used(mem_map))
  <2>1. mem_map \in [Pages -> Nat]
    BY <1>1 DEF TypeOK
  <2>2. ASSUME NEW pg \in Pages, freed[pg] # 0 PROVE mem_map[pg] # 0
    BY <1>5, <2>1, <2>2
  <2>3. PICK any : any = 0
    OBVIOUS
  <2>4. \A pg \in Pages : freed[pg] # 0 => mem_map[pg] # 0 \/ pg = any
    BY <2>2
  <2> QED BY <1>6, <2>1, <2>2, <2>4, UsedChanges
<1>11. /\ arg_pages \in Nat /\ arg_pages' \in Nat /\ kernel_pages \in Nat /\ PAGING_PAGES \in Nat
       /\ PAGING_PAGES >= kernel_pages + arg_pages + Cardinality(Used(mem_map))
  <2>1. arg_pages \in Nat /\ kernel_pages \in Nat /\ PAGING_PAGES \in Nat
    BY <1>1, MemoryAssumption DEF TypeOK
  <2>2. Left = PAGING_PAGES - kernel_pages - arg_pages - Cardinality(Used(mem_map)) /\ Left >= 0
    BY <1>1 DEF Left, Used, MemMapCounts
  <2> QED BY <1>2, <1>10, <2>1, <2>2
<1>12. n \in Pages /\ freed[n] = 0
  <2>1. Cardinality(Used(freed)) < PAGING_PAGES
    BY <1>9, <1>10, <1>11
  <2> QED BY <1>6, <2>1, FreePageIsFree
<1> HIDE DEF n
<1>13. /\ pte' \in [Procs -> [Addrs -> Entries]]
       /\ \A a \in Addrs \ {Stack} : pte'[p][a].page = 0 /\ pte'[p][a].w = FALSE
       /\ pte'[p][Stack].page = n
  <2>1. pte \in [Procs -> [Addrs -> Entries]]
    BY <1>1 DEF TypeOK
  <2>2. NotPresent \in Entries /\ NotPresent.page = 0 /\ NotPresent.w = FALSE
    BY DEF NotPresent, Entries
  <2>3. NoPages \in [Addrs -> Entries] /\ \A a \in Addrs : NoPages[a] = NotPresent
    BY <2>2 DEF NoPages
  <2>4. PICK c \in Entries : c = [page |-> n, w |-> TRUE, dirty |-> FALSE]
    BY <1>12 DEF Entries
  <2>5. c.page = n
    BY <2>4
  <2>6. PICK row : row = [NoPages EXCEPT ![Stack] = c]
    OBVIOUS
  <2>7. /\ row \in [Addrs -> Entries] /\ row[Stack] = c
        /\ \A a \in Addrs \ {Stack} : row[a] = NotPresent
    BY <1>7, <2>3, <2>4, <2>6
  <2>8. pte' = [pte EXCEPT ![p] = row]
    BY <1>2, <2>4, <2>6
  <2>9. /\ pte' \in [Procs -> [Addrs -> Entries]]
        /\ \A r \in Procs : pte'[r] = IF r = p THEN row ELSE pte[r]
    BY <2>1, <2>7, <2>8
  <2> QED BY <2>2, <2>5, <2>7, <2>9
<1>14. /\ image' \in [Procs -> [Addrs -> Vals]]
       /\ \A r \in Procs \ {p} : image'[r] = image[r]
  <2>1. image \in [Procs -> [Addrs -> Vals]] /\ executable[p] \in Execs \union {NULL}
    BY <1>1 DEF TypeOK
  <2>2. NewImage(executable[p]) \in [Addrs -> Vals]
    BY <2>1 DEF NewImage, Vals
  <2> QED BY <1>2, <2>1, <2>2
<1>15. /\ mem_map' \in [Pages -> Nat]
       /\ \A pg \in Pages : mem_map'[pg] = IF pg = n THEN 1 ELSE freed[pg]
  BY <1>2, <1>6, <1>12
<1>16. PagesRight'
  <2> SUFFICES ASSUME NEW pg \in Pages PROVE mem_map'[pg] = References(pg)'
    BY DEF PagesRight
  <2>1. CASE pg = n
    <3>1. Row(p, pg)' = {Stack}
      BY <1>3, <1>7, <1>12, <1>13, <2>1 DEF Row
    <3>2. Cardinality(Row(p, pg)') = 1
      BY <3>1, FS_Singleton
    <3> QED BY <1>5, <1>12, <1>15, <2>1, <3>2
  <2>2. CASE pg # n
    <3>1. Row(p, pg)' = {}
      BY <1>3, <1>13, <2>2 DEF Row
    <3>2. Cardinality(Row(p, pg)') = 0
      BY <3>1, FS_EmptySet
    <3> QED BY <1>5, <1>15, <2>2, <3>2
  <2> QED BY <2>1, <2>2
<1>17. TypeOK'
  <2>1. content' \in [Pages -> Vals]
    <3>1. Forget(freed) \in [Pages -> Vals] /\ Args \in Vals
      BY <1>1, ForgetType DEF TypeOK, Vals
    <3> QED BY <1>2, <3>1
  <2>2. executable' \in [Procs -> Execs \union {NULL}]
    BY <1>1, <1>2 DEF TypeOK
  <2>3. loc' \in [Procs -> [page : Pages \union {0}, addr : Addrs \union {NULL}, ret : Locations]]
    BY <1>1, <1>2 DEF TypeOK
  <2> QED BY <1>7, <1>8, <1>9, <1>11, <1>13, <1>14, <1>15, <2>1, <2>2, <2>3 DEF TypeOK
<1>18. MemMapCounts'
  <2>1. \A pg \in Pages : mem_map'[pg] # 0 => freed[pg] # 0 \/ pg = n
    BY <1>15
  <2>2. /\ Cardinality(Used(mem_map')) \in Nat
        /\ Cardinality(Used(mem_map')) <= Cardinality(Used(freed)) + 1
    BY <1>6, <1>15, <2>1, UsedChanges
  <2>3. Left' = PAGING_PAGES - kernel_pages' - arg_pages' - Cardinality(Used(mem_map'))
    BY DEF Left, Used
  <2>4. arg_pages' = arg_pages - 1
    BY <1>2
  <2>5. Left' >= 0
    BY <1>9, <1>10, <1>11, <2>2, <2>3, <2>4
  <2> QED BY <1>9, <1>16, <2>5, Counted
<1>19. /\ \A r \in Procs \ {p} : \A b \in Addrs : pte[r][b].page # n
       /\ \A r \in Procs : loc[r].page # n
  <2>1. mem_map'[n] = 1
    BY <1>12, <1>15
  <2>2. /\ \A r \in Procs \ {p} : \A b \in Addrs : pte'[r][b].page # n
        /\ \A r \in Procs : loc'[r].page # n
    BY <1>7, <1>12, <1>13, <1>16, <2>1, SoleUserNext
  <2> QED BY <1>2, <1>4, <2>2
<1>20. ASSUME NEW pg \in Pages, mem_map[pg] = 1, pg # n, \A a \in Addrs : pte[p][a].page # pg
       PROVE  mem_map'[pg] = 1
  <2>1. Cardinality(Row(p, pg)) = 0
    BY <1>20, EmptyRow
  <2> QED BY <1>5, <1>15, <1>20, <2>1
<1>21. StoresAlone'
  <2>1. ASSUME NEW r \in Procs, NEW b \in Addrs, pte'[r][b].w
        PROVE  Present(r, b)' /\ mem_map'[pte'[r][b].page] = 1
    <3>1. CASE r = p
      <4>1. b = Stack
        BY <1>13, <2>1, <3>1
      <4> QED BY <1>3, <1>12, <1>13, <1>15, <3>1, <4>1 DEF Present
    <3>2. CASE r # p
      <4>1. pte'[r][b] = pte[r][b]
        BY <1>4, <3>2
      <4>2. Present(r, b) /\ mem_map[pte[r][b].page] = 1 /\ pte[r][b].page \in Pages
        BY <1>1, <2>1, <4>1, Types DEF StoresAlone, Present
      <4>3. \A a \in Addrs : pte[p][a].page # pte[r][b].page
        BY <3>2, <4>2, Alone
      <4> QED BY <1>19, <1>20, <3>2, <4>1, <4>2, <4>3 DEF Present
    <3> QED BY <3>1, <3>2
  <2>2. ASSUME NEW r \in Procs, loc'[r].page # 0 PROVE mem_map'[loc'[r].page] = 1
    <3>1. r # p /\ loc'[r] = loc[r]
      BY <1>2, <1>3, <2>2
    <3>2. mem_map[loc[r].page] = 1 /\ loc[r].page \in Pages
      BY <1>1, <2>2, <3>1, Types DEF StoresAlone
    <3>3. \A a \in Addrs : pte[p][a].page # loc[r].page
      BY <3>1, <3>2, Alone
    <3> QED BY <1>19, <1>20, <3>1, <3>2, <3>3
  <2> QED BY <2>1, <2>2 DEF StoresAlone
<1>22. ASSUME NEW r \in Procs \ {p} PROVE TaskRight(r)'
  <2>1. SamePlace(r) /\ executable'[r] = executable[r] /\ image'[r] = image[r] /\ dir'[r] = dir[r]
    BY <1>2, <1>7, <1>8, <1>14 DEF SamePlace
  <2>2. pte'[r] = pte[r] /\ loc'[r] = loc[r]
    BY <1>2, <1>4
  <2>3. ASSUME NEW pg \in Pages, loc[r].page = pg \/ \E b \in Addrs : pte[r][b].page = pg
        PROVE  content'[pg] = content[pg]
    <3>1. pg # n
      BY <1>19, <2>3
    <3>2. mem_map'[pg] # 0
      BY <1>16, <2>2, <2>3, NoUserNext
    <3>3. freed[pg] # 0
      BY <1>15, <3>1, <3>2
    <3>4. Forget(freed)[pg] = content[pg]
      BY <3>3 DEF Forget
    <3>5. content'[pg] = Forget(freed)[pg]
      <4>1. Forget(freed) \in [Pages -> Vals]
        BY <1>1, ForgetType DEF TypeOK
      <4> QED BY <1>2, <1>12, <3>1, <4>1
    <3> QED BY <3>4, <3>5
  <2>4. ASSUME NEW b \in Addrs, Present(r, b) PROVE content'[pte[r][b].page] = content[pte[r][b].page]
    <3>1. pte[r][b].page \in Pages
      BY <1>1, <2>4, Types DEF Present
    <3> QED BY <2>3, <3>1
  <2>5. ASSUME loc[r].page # 0 PROVE content'[loc[r].page] = content[loc[r].page]
    <3>1. loc[r].page \in Pages
      BY <1>1, <2>5, Types
    <3> QED BY <2>3, <3>1
  <2> QED BY <2>1, <2>2, <2>4, <2>5, OtherTask
<1>23. TaskRight(p)'
  BY <1>2, <1>3, <1>7, <1>8 DEF TaskRight
<1>24. \A r \in Procs : MemoryRight(r)'
  BY <1>1, <1>2 DEF MemoryRight, Separate
<1> QED BY <1>1, <1>17, <1>18, <1>21, <1>22, <1>23, <1>24 DEF MemInv

(* fork(): father and son have the same pages, all of them protected.       *)
LEMMA ForkStep ==
  ASSUME MemInv, UNCHANGED <<scenario, arg_pages>>, NEW p \in Procs, NEW q \in Procs, Fork(p, q)
  PROVE  MemInv'
<1> DEFINE row == WriteProtect(p, Dirs)
<1>1. /\ TypeOK /\ MemMapCounts /\ StoresAlone /\ scenario \in Scenarios
      /\ TaskRight(p) /\ MemoryRight(p) /\ TaskRight(q)
  BY DEF MemInv
<1>2. /\ "fork" \in scenario.ops
      /\ pc[p] = "user" /\ pc[q] = "none"
      /\ Left >= 1 + Cardinality(Tables(p))
      /\ kernel_pages' = kernel_pages + 1 + Cardinality(Tables(p))
      /\ dir' = [dir EXCEPT ![q] = dir[p]]
      /\ pte' = [pte EXCEPT ![p] = row, ![q] = row]
      /\ mem_map' = [pg \in Pages |-> mem_map[pg] + Cardinality(Row(p, pg))]
      /\ executable' = [executable EXCEPT ![q] = executable[p]]
      /\ pc' = [pc EXCEPT ![q] = "user"]
      /\ image' = [image EXCEPT ![q] = image[p]]
      /\ content' = content /\ loc' = loc
  BY DEF Fork, Row
<1>3. p # q /\ loc[p].page = 0 /\ loc[q].page = 0 /\ dir[p][DirOf[Stack]]
  BY <1>1, <1>2 DEF TaskRight
<1>4. (\A a \in Addrs : pte[q][a].page = 0) /\ (\A d \in Dirs : ~dir[q][d])
  BY <1>1, <1>2 DEF TaskRight, Present
<1>5. /\ row \in [Addrs -> Entries]
      /\ \A a \in Addrs : /\ row[a].page = pte[p][a].page
                          /\ row[a].dirty = pte[p][a].dirty
                          /\ ~row[a].w
  <2>1. Addrs # {} /\ \A a \in Addrs : DirOf[a] \in Dirs
    BY MemoryAssumption DEF Dirs
  <2> HIDE DEF row
  <2>2. ASSUME NEW a \in Addrs
        PROVE  /\ row \in [Addrs -> Entries]
               /\ row[a].page = pte[p][a].page
               /\ row[a].dirty = pte[p][a].dirty
               /\ ~row[a].w
    BY <1>1, <2>1, Protected DEF row
  <2> QED BY <2>1, <2>2
<1> HIDE DEF row
<1>6. /\ pte' \in [Procs -> [Addrs -> Entries]]
      /\ \A r \in Procs : pte'[r] = IF r = p \/ r = q THEN row ELSE pte[r]
  <2>1. pte \in [Procs -> [Addrs -> Entries]]
    BY <1>1 DEF TypeOK
  <2> QED BY <1>2, <1>5, <2>1
<1>7. /\ \A r \in Procs \ {q} : \A a \in Addrs : /\ pte'[r][a].page = pte[r][a].page
                                                 /\ pte'[r][a].dirty = pte[r][a].dirty
      /\ \A a \in Addrs : /\ pte'[q][a].page = pte[p][a].page
                          /\ pte'[q][a].dirty = pte[p][a].dirty
  BY <1>5, <1>6
<1>8. /\ dir' \in [Procs -> [Dirs -> BOOLEAN]]
      /\ \A r \in Procs \ {q} : dir'[r] = dir[r]
      /\ dir'[q] = dir[p]
  <2>1. dir \in [Procs -> [Dirs -> BOOLEAN]]
    BY <1>1 DEF TypeOK
  <2> QED BY <1>2, <2>1
<1>9. /\ pc' \in [Procs -> Locations]
      /\ \A r \in Procs \ {q} : pc'[r] = pc[r]
      /\ pc'[q] = "user"
  BY <1>1, <1>2 DEF TypeOK, Locations
<1>10. /\ image' \in [Procs -> [Addrs -> Vals]]
       /\ \A r \in Procs \ {q} : image'[r] = image[r]
       /\ image'[q] = image[p]
  <2>1. image \in [Procs -> [Addrs -> Vals]]
    BY <1>1 DEF TypeOK
  <2> QED BY <1>2, <2>1
<1>11. /\ executable' \in [Procs -> Execs \union {NULL}]
       /\ \A r \in Procs \ {q} : executable'[r] = executable[r]
       /\ executable'[q] = executable[p]
  <2>1. executable \in [Procs -> Execs \union {NULL}]
    BY <1>1 DEF TypeOK
  <2> QED BY <1>2, <2>1
<1>12. ASSUME NEW pg \in Pages
       PROVE  /\ Cardinality(Row(p, pg)) \in Nat
              /\ mem_map'[pg] = mem_map[pg] + Cardinality(Row(p, pg))
              /\ mem_map'[pg] = References(pg)' /\ mem_map'[pg] \in Nat
  <2>1. mem_map[pg] \in Nat /\ 0 \notin Pages
    BY <1>1, Types
  <2>2. mem_map'[pg] = mem_map[pg] + Cardinality(Row(p, pg))
    BY <1>2
  <2>3. /\ References(pg)' \in Nat /\ Cardinality(Row(q, pg)') \in Nat
        /\ References(pg)' + Cardinality(Row(q, pg)) + Same(loc[q].page, pg)
           = mem_map[pg] + Cardinality(Row(q, pg)') + Same(loc'[q].page, pg)
    BY <1>1, <1>2, <1>7, TaskChanges
  <2>4. Cardinality(Row(q, pg)) = 0
    BY <1>4, <2>1, EmptyRow
  <2>5. Row(q, pg)' = Row(p, pg)
    BY <1>7 DEF Row
  <2>6. Same(loc'[q].page, pg) = 0 /\ Same(loc[q].page, pg) = 0
    BY <1>2, <1>3, <2>1 DEF Same
  <2> QED BY <2>1, <2>2, <2>3, <2>4, <2>5, <2>6
<1>13. mem_map' \in [Pages -> Nat]
  BY <1>2, <1>12
<1>14. PagesRight'
  BY <1>12 DEF PagesRight
<1>15. /\ Cardinality(Tables(p)) \in Nat /\ kernel_pages \in Nat
       /\ kernel_pages' \in Nat /\ KernelRight'
  <2>1. Tables(p) \subseteq Dirs
    BY DEF Tables
  <2>2. Cardinality(Tables(p)) \in Nat
    BY <2>1, AllFinite, FS_Subset, FS_CardinalityType
  <2>3. kernel_pages \in Nat /\ kernel_pages' = kernel_pages + 1 + Cardinality(Tables(p))
    BY <1>1, <1>2 DEF TypeOK
  <2>4. kernel_pages' \in Nat /\ kernel_pages' \in Int
    BY <2>2, <2>3
  <2>5. kernel_pages + Cardinality(Tables(q)') + One(pc'[q] # "none")
        = kernel_pages' + Cardinality(Tables(q)) + One(pc[q] # "none")
        => KernelRight'
    BY <1>1, <1>8, <1>9, <2>4, KernelChanges DEF KernelRight
  <2>6. Tables(q)' = Tables(p)
    BY <1>8 DEF Tables
  <2>7. Cardinality(Tables(q)) = 0
    <3>1. Tables(q) = {}
      BY <1>4 DEF Tables
    <3> QED BY <3>1, FS_EmptySet
  <2>8. One(pc[q] # "none") = 0 /\ One(pc'[q] # "none") = 1
    BY <1>2, <1>9 DEF One
  <2> QED BY <2>2, <2>3, <2>4, <2>5, <2>6, <2>7, <2>8
<1>16. TypeOK'
  <2>1. content' \in [Pages -> Vals]
    BY <1>1, <1>2 DEF TypeOK
  <2>2. loc' \in [Procs -> [page : Pages \union {0}, addr : Addrs \union {NULL}, ret : Locations]]
    BY <1>1, <1>2 DEF TypeOK
  <2>3. arg_pages' \in Nat
    BY <1>1 DEF TypeOK
  <2> QED BY <1>6, <1>8, <1>9, <1>10, <1>11, <1>13, <1>15, <2>1, <2>2, <2>3 DEF TypeOK
<1>17. MemMapCounts'
  <2>1. \A pg \in Pages : mem_map'[pg] # 0 => mem_map[pg] # 0
    <3>1. ASSUME NEW pg \in Pages, mem_map[pg] = 0 PROVE mem_map'[pg] = 0
      <4>1. Cardinality(Row(p, pg)) = 0
        BY <1>1, <3>1, NoUser, EmptyRow
      <4> QED BY <1>12, <3>1, <4>1
    <3> QED BY <3>1
  <2>2. PICK k \in Nat : k = 1 + Cardinality(Tables(p))
    BY <1>15
  <2>3. kernel_pages' <= kernel_pages + k /\ Left >= k
    BY <1>2, <1>15, <2>2
  <2>4. Left' >= 0
    BY <1>1, <1>16, <2>1, <2>3, LeftChanges
  <2> QED BY <1>14, <1>15, <2>4, Counted
<1>18. ASSUME NEW pg \in Pages, mem_map[pg] = 1, \A a \in Addrs : pte[p][a].page # pg
       PROVE  mem_map'[pg] = 1
  <2>1. Cardinality(Row(p, pg)) = 0
    BY <1>18, EmptyRow
  <2> QED BY <1>12, <1>18, <2>1
<1>19. StoresAlone'
  <2>1. ASSUME NEW r \in Procs, NEW b \in Addrs, pte'[r][b].w
        PROVE  Present(r, b)' /\ mem_map'[pte'[r][b].page] = 1
    <3>1. r # p /\ pte'[r] = pte[r]
      BY <1>5, <1>6, <2>1
    <3>2. Present(r, b) /\ mem_map[pte[r][b].page] = 1 /\ pte[r][b].page \in Pages
      BY <1>1, <2>1, <3>1, Types DEF StoresAlone, Present
    <3>3. \A a \in Addrs : pte[p][a].page # pte[r][b].page
      BY <3>1, <3>2, Alone
    <3> QED BY <1>18, <3>1, <3>2, <3>3 DEF Present
  <2>2. ASSUME NEW r \in Procs, loc'[r].page # 0 PROVE mem_map'[loc'[r].page] = 1
    <3>1. loc'[r] = loc[r]
      BY <1>2
    <3>2. mem_map[loc[r].page] = 1 /\ loc[r].page \in Pages
      BY <1>1, <2>2, <3>1, Types DEF StoresAlone
    <3>3. \A a \in Addrs : pte[p][a].page # loc[r].page
      BY <3>2, Alone
    <3> QED BY <1>18, <3>1, <3>2, <3>3
  <2> QED BY <2>1, <2>2 DEF StoresAlone
<1>20. ASSUME NEW r \in Procs \ {q} PROVE TaskRight(r)' /\ MemoryRight(r)'
  <2>1. SamePlace(r) /\ executable'[r] = executable[r] /\ image'[r] = image[r] /\ dir'[r] = dir[r]
    BY <1>2, <1>8, <1>9, <1>10, <1>11 DEF SamePlace
  <2>2. \A b \in Addrs : /\ pte'[r][b].page = pte[r][b].page
                         /\ pte'[r][b].dirty = pte[r][b].dirty
    BY <1>7
  <2>3. "fork" \in scenario.ops /\ content' = content
    BY <1>2
  <2> QED BY <2>1, <2>2, <2>3, OtherTask
<1>21. TaskRight(q)'
  BY <1>2, <1>3, <1>8, <1>9 DEF TaskRight
<1>22. MemoryRight(q)'
  <2> SUFFICES ASSUME Separate PROVE MemoryRight(q)'
    BY DEF MemoryRight, Separate
  <2>1. executable[p] = NULL /\ \A b \in Addrs : View(p, b) = image[p][b]
    BY <1>1, <1>2 DEF MemoryRight, HasMemory
  <2>2. ASSUME NEW b \in Addrs PROVE View(q, b)' = View(p, b)
    <3>1. /\ pte'[q][b].page = pte[p][b].page /\ content' = content
          /\ executable'[q] = executable[p]
      BY <1>2, <1>7, <1>11
    <3> QED BY <3>1 DEF View, Present, FromFile
  <2> QED BY <1>9, <1>10, <1>11, <2>1, <2>2 DEF MemoryRight
<1> QED BY <1>1, <1>16, <1>17, <1>19, <1>20, <1>21, <1>22 DEF MemInv
-----------------------------------------------------------------------------
(* At the start every task has its arguments in a page of its own.          *)
LEMMA InitRight == Init => MemInv
<1> SUFFICES ASSUME Init PROVE MemInv
  OBVIOUS
<1>1. PICK sc \in Scenarios :
        /\ mem_map = [pg \in Pages |-> IF pg \in DOMAIN sc.started THEN 1 ELSE 0]
        /\ kernel_pages = sc.used + 2 * Cardinality(DOMAIN sc.started)
        /\ arg_pages = 0
        /\ content = [pg \in Pages |-> IF pg \in DOMAIN sc.started THEN Args ELSE Zero]
        /\ dir = [p \in Procs |-> [d \in Dirs |-> p \in DOMAIN sc.started /\ d = DirOf[Stack]]]
        /\ pte = [p \in Procs |-> [a \in Addrs |->
                   IF p \in DOMAIN sc.started /\ a = Stack
                     THEN [page |-> p, w |-> TRUE, dirty |-> FALSE] ELSE NotPresent]]
        /\ executable = [p \in Procs |-> IF p \in DOMAIN sc.started THEN sc.started[p] ELSE NULL]
        /\ pc = [p \in Procs |-> IF p \in DOMAIN sc.started THEN "user" ELSE "none"]
        /\ loc = [p \in Procs |-> NoLoc]
        /\ image = [p \in Procs |-> IF p \in DOMAIN sc.started THEN NewImage(sc.started[p])
                                    ELSE NoImage]
        /\ scenario = sc
  BY DEF Init
<1> DEFINE S == DOMAIN sc.started
<1>2. /\ S \subseteq Procs /\ S \subseteq Pages
      /\ \A p \in S : sc.started[p] \in Execs \union {NULL}
      /\ sc.used \in Nat /\ sc.used + 3 * Cardinality(S) <= PAGING_PAGES
  BY MemoryAssumption
<1>3. /\ Stack \in Addrs /\ DirOf[Stack] \in Dirs /\ 0 \notin Pages /\ PAGING_PAGES \in Nat
      /\ Stack \notin ExecAddrs /\ ExecAddrs \subseteq Addrs
  BY MemoryAssumption DEF Dirs, Pages
<1>4. IsFiniteSet(S) /\ Cardinality(S) \in Nat
  BY <1>2, AllFinite, FS_Subset, FS_CardinalityType
<1>5. ASSUME NEW p \in Procs, NEW a \in Addrs
      PROVE  /\ pte[p][a] \in Entries
             /\ pte[p][a].page = IF p \in S /\ a = Stack THEN p ELSE 0
             /\ pte[p][a].w = IF p \in S /\ a = Stack THEN TRUE ELSE FALSE
  <2>1. pte[p][a] = IF p \in S /\ a = Stack THEN [page |-> p, w |-> TRUE, dirty |-> FALSE]
                    ELSE NotPresent
    BY <1>1
  <2>2. CASE p \in S /\ a = Stack
    <3>1. pte[p][a] = [page |-> p, w |-> TRUE, dirty |-> FALSE] /\ p \in Pages
      BY <1>2, <2>1, <2>2
    <3>2. pte[p][a] \in Entries /\ pte[p][a].page = p /\ pte[p][a].w = TRUE
      BY <3>1 DEF Entries
    <3> HIDE DEF S
    <3> QED BY <2>2, <3>2
  <2>3. CASE ~(p \in S /\ a = Stack)
    <3>1. pte[p][a] = NotPresent
      BY <2>1, <2>3
    <3>2. pte[p][a] \in Entries /\ pte[p][a].page = 0 /\ pte[p][a].w = FALSE
      BY <3>1 DEF Entries, NotPresent
    <3> HIDE DEF S
    <3> QED BY <2>3, <3>2
  <2> QED BY <2>2, <2>3
<1>6. ASSUME NEW p \in Procs
      PROVE  /\ executable[p] = IF p \in S THEN sc.started[p] ELSE NULL
             /\ pc[p] = IF p \in S THEN "user" ELSE "none"
             /\ image[p] = IF p \in S THEN NewImage(sc.started[p]) ELSE NoImage
             /\ \A d \in Dirs : dir[p][d] = (p \in S /\ d = DirOf[Stack])
             /\ loc[p].page = 0
  <2>1. NoLoc.page = 0
    BY DEF NoLoc
  <2> QED BY <1>1, <2>1
<1>7. \A pg \in Pages : /\ mem_map[pg] = IF pg \in S THEN 1 ELSE 0
                        /\ content[pg] = IF pg \in S THEN Args ELSE Zero
  BY <1>1
<1>8. TypeOK
  <2>1. mem_map \in [Pages -> Nat]
    BY <1>1
  <2>2. content \in [Pages -> Vals]
    BY <1>1 DEF Vals
  <2>3. kernel_pages \in Nat /\ arg_pages \in Nat
    BY <1>1, <1>2, <1>4
  <2>4. dir \in [Procs -> [Dirs -> BOOLEAN]]
    BY <1>1
  <2>5. pte \in [Procs -> [Addrs -> Entries]]
    <3>1. /\ pte = [p \in Procs |-> pte[p]]
          /\ \A p \in Procs : pte[p] = [a \in Addrs |-> pte[p][a]]
      BY <1>1
    <3> QED BY <1>5, <3>1
  <2>6. executable \in [Procs -> Execs \union {NULL}]
    BY <1>1, <1>2
  <2>7. pc \in [Procs -> Locations]
    BY <1>1 DEF Locations
  <2>8. image \in [Procs -> [Addrs -> Vals]]
    <3>1. NoImage \in [Addrs -> Vals]
      BY DEF NoImage, Vals
    <3>2. \A e \in Execs \union {NULL} : NewImage(e) \in [Addrs -> Vals]
      BY DEF NewImage, Vals
    <3> QED BY <1>1, <1>2, <3>1, <3>2
  <2>9. loc \in [Procs -> [page : Pages \union {0}, addr : Addrs \union {NULL}, ret : Locations]]
    <3>1. NoLoc \in [page : Pages \union {0}, addr : Addrs \union {NULL}, ret : Locations]
      BY DEF NoLoc, Locations
    <3> QED BY <1>1, <3>1
  <2> QED BY <2>1, <2>2, <2>3, <2>4, <2>5, <2>6, <2>7, <2>8, <2>9 DEF TypeOK
<1> HIDE DEF S
<1>9. ASSUME NEW pg \in Pages PROVE mem_map[pg] = References(pg)
  <2>1. Holders(pg) = {}
    BY <1>3, <1>6 DEF Holders
  <2>2. CASE pg \in S
    <3>1. Users(pg) = {<<pg, Stack>>}
      <4>1. ASSUME NEW p \in Procs, NEW a \in Addrs
            PROVE  <<p, a>> \in Users(pg) <=> p = pg /\ a = Stack
        <5>1. pte[p][a].page = IF p \in S /\ a = Stack THEN p ELSE 0
          BY <1>5
        <5>2. <<p, a>> \in Users(pg) <=> pte[p][a].page = pg
          BY UsersPair
        <5> QED BY <1>3, <2>2, <5>1, <5>2
      <4>2. ASSUME NEW x \in Users(pg) PROVE x = <<pg, Stack>>
        <5>1. PICK p \in Procs, a \in Addrs : x = <<p, a>>
          BY DEF Users
        <5> QED BY <4>1, <5>1
      <4>3. <<pg, Stack>> \in Users(pg)
        BY <1>2, <1>3, <2>2, <4>1
      <4> QED BY <4>2, <4>3
    <3>2. Cardinality(Users(pg)) = 1 /\ Cardinality(Holders(pg)) = 0
      BY <2>1, <3>1, FS_Singleton, FS_EmptySet
    <3> QED BY <1>7, <2>2, <3>2, ReferenceSets
  <2>3. CASE pg \notin S
    <3>1. Users(pg) = {}
      <4>1. ASSUME NEW p \in Procs, NEW a \in Addrs PROVE <<p, a>> \notin Users(pg)
        <5>1. pte[p][a].page = IF p \in S /\ a = Stack THEN p ELSE 0
          BY <1>5
        <5>2. <<p, a>> \in Users(pg) <=> pte[p][a].page = pg
          BY UsersPair
        <5> QED BY <1>3, <2>3, <5>1, <5>2
      <4>2. ASSUME NEW x \in Users(pg) PROVE FALSE
        <5>1. PICK p \in Procs, a \in Addrs : x = <<p, a>>
          BY DEF Users
        <5> QED BY <4>1, <5>1
      <4> QED BY <4>2
    <3>2. Cardinality(Users(pg)) = 0 /\ Cardinality(Holders(pg)) = 0
      BY <2>1, <3>1, FS_EmptySet
    <3> QED BY <1>7, <2>3, <3>2, ReferenceSets
  <2> QED BY <2>2, <2>3
<1>10. Cardinality(AllTables) = Cardinality(S)
  <2>1. AllTables = S \X {DirOf[Stack]}
    <3>1. ASSUME NEW x \in Procs \X Dirs
          PROVE  x \in AllTables <=> x \in S \X {DirOf[Stack]}
      <4>1. PICK p \in Procs, d \in Dirs : x = <<p, d>>
        OBVIOUS
      <4>2. x \in AllTables <=> dir[p][d]
        BY <4>1 DEF AllTables
      <4> QED BY <1>6, <4>1, <4>2
    <3>2. AllTables \subseteq Procs \X Dirs
      BY DEF AllTables
    <3>3. S \X {DirOf[Stack]} \subseteq Procs \X Dirs
      BY <1>2, <1>3 DEF S
    <3> QED BY <3>1, <3>2, <3>3
  <2>2. IsFiniteSet({DirOf[Stack]}) /\ Cardinality({DirOf[Stack]}) = 1
    BY FS_Singleton
  <2>3. Cardinality(S \X {DirOf[Stack]}) = Cardinality(S) * Cardinality({DirOf[Stack]})
    BY <1>4, <2>2, FS_Product
  <2> QED BY <1>4, <2>1, <2>2, <2>3
<1>11. Tasks = S /\ Used(mem_map) = S
  <2>1. S \subseteq Procs /\ S \subseteq Pages
    BY <1>2 DEF S
  <2> QED BY <1>6, <1>7, <2>1 DEF Tasks, Used
<1>12. MemMapCounts
  <2>1. kernel_pages = sc.used + 2 * Cardinality(S) /\ scenario = sc
    BY <1>1 DEF S
  <2>2. kernel_pages = scenario.used + Cardinality(Tasks) + Cardinality(AllTables)
    <3>1. sc.used \in Nat
      BY <1>2
    <3> QED BY <1>4, <1>10, <1>11, <2>1, <3>1
  <2>3. Left >= 0
    <3>1. /\ Left = PAGING_PAGES - kernel_pages - arg_pages - Cardinality(Used(mem_map))
          /\ arg_pages = 0
      BY <1>1 DEF Left, Used
    <3>2. sc.used \in Nat /\ sc.used + 3 * Cardinality(S) <= PAGING_PAGES
      BY <1>2 DEF S
    <3> QED BY <1>3, <1>4, <1>11, <2>1, <3>1, <3>2
  <2> QED BY <1>9, <2>2, <2>3 DEF MemMapCounts, Tasks, AllTables
<1>13. StoresAlone
  <2>1. ASSUME NEW p \in Procs, NEW a \in Addrs, pte[p][a].w
        PROVE  Present(p, a) /\ mem_map[pte[p][a].page] = 1
    <3>1. p \in S /\ pte[p][a].page = p
      BY <1>5, <2>1
    <3>2. p \in Pages
      BY <1>2, <3>1 DEF S
    <3> QED BY <1>3, <1>7, <3>1, <3>2 DEF Present
  <2> QED BY <1>6, <2>1 DEF StoresAlone
<1>14. ASSUME NEW p \in Procs PROVE TaskRight(p)
  <2>1. \A a \in Addrs : Present(p, a) => p \in S
    BY <1>5 DEF Present
  <2> QED BY <1>3, <1>6, <2>1 DEF TaskRight
<1>15. ASSUME NEW p \in Procs PROVE MemoryRight(p)
  <2> SUFFICES ASSUME Separate PROVE MemoryRight(p)
    BY DEF MemoryRight
  <2>1. /\ pc[p] \notin {"kernel", "args", "exec", "load"}
        /\ HasMemory(p) => p \in S
    BY <1>6 DEF HasMemory
  <2>2. "fork" \in scenario.ops => executable[p] = NULL
    <3>1. scenario = sc
      BY <1>1
    <3> QED BY <1>6, <3>1 DEF Separate, S
  <2>3. ASSUME NEW a \in ExecAddrs PROVE ~Present(p, a)
    BY <1>3, <1>5 DEF Present
  <2>4. ASSUME p \in S, NEW a \in Addrs PROVE View(p, a) = image[p][a]
    <3>1. /\ executable[p] = sc.started[p] /\ image[p][a] = NewImage(sc.started[p])[a]
          /\ p \in Pages
      BY <1>2, <1>6, <2>4 DEF S
    <3>2. CASE a = Stack
      <4>1. pte[p][a].page = p /\ content[p] = Args
        BY <1>3, <1>5, <1>7, <2>4, <3>1, <3>2
      <4>2. Present(p, a)
        BY <1>3, <3>1, <4>1 DEF Present
      <4> QED BY <1>3, <3>1, <3>2, <4>1, <4>2 DEF View, NewImage
    <3>3. CASE a # Stack
      <4>1. ~Present(p, a)
        BY <1>5, <3>3 DEF Present
      <4> QED BY <3>1, <3>3, <4>1 DEF View, NewImage, FromFile
    <3> QED BY <3>2, <3>3
  <2> QED BY <2>1, <2>2, <2>3, <2>4 DEF MemoryRight
<1>16. scenario \in Scenarios
  BY <1>1
<1> QED BY <1>8, <1>12, <1>13, <1>14, <1>15, <1>16 DEF MemInv

(* At the start no task is inside execve().                                 *)
LEMMA InitArgs == Init => ArgPagesCounted
<1> SUFFICES ASSUME Init PROVE ArgPagesCounted
  OBVIOUS
<1>1. arg_pages = 0 /\ leaked = 0
  BY DEF Init
<1>2. \A p \in Procs : pc[p] \in {"user", "none"}
  BY DEF Init
<1>3. ArgHolders = {}
  BY <1>2 DEF ArgHolders, HoldsArgs
<1>4. Cardinality(ArgHolders) = 0
  BY <1>3, FS_EmptySet
<1> QED BY <1>1, <1>4 DEF ArgPagesCounted, ArgHolders

(* The count follows when one task at most takes or drops its arguments.    *)
LEMMA ArgsChange ==
  ASSUME MemInv, ArgPagesCounted, NEW p \in Procs,
         \A r \in Procs \ {p} : pc'[r] = pc[r] /\ loc'[r] = loc[r],
         leaked' \in Nat,
         arg_pages' = arg_pages + One(HoldsArgs(p)') - One(HoldsArgs(p)) + leaked' - leaked
  PROVE  ArgPagesCounted'
<1>1. /\ ArgHolders \in SUBSET Procs /\ ArgHolders' \in SUBSET Procs
      /\ \A r \in Procs \ {p} : r \in ArgHolders <=> r \in ArgHolders'
      /\ p \in ArgHolders <=> HoldsArgs(p)
      /\ p \in ArgHolders' <=> HoldsArgs(p)'
  BY DEF ArgHolders, HoldsArgs
<1>2. /\ Cardinality(ArgHolders) \in Nat /\ Cardinality(ArgHolders') \in Nat
      /\ Cardinality(ArgHolders') + One(p \in ArgHolders)
         = Cardinality(ArgHolders) + One(p \in ArgHolders')
  BY <1>1, OneChanges, AllFinite
<1>3. /\ One(p \in ArgHolders) = One(HoldsArgs(p)) /\ One(p \in ArgHolders') = One(HoldsArgs(p)')
      /\ One(HoldsArgs(p)) \in {0, 1} /\ One(HoldsArgs(p)') \in {0, 1}
  BY <1>1 DEF One
<1>4. leaked \in Nat /\ arg_pages = Cardinality(ArgHolders) + leaked
  BY DEF ArgPagesCounted, ArgHolders
<1>5. PICK x \in {0, 1}, y \in {0, 1} : x = One(HoldsArgs(p)) /\ y = One(HoldsArgs(p)')
  BY <1>3
<1>6. arg_pages' = arg_pages + y - x + leaked' - leaked
  BY <1>5
<1>7. Cardinality(ArgHolders') + x = Cardinality(ArgHolders) + y
  BY <1>2, <1>3, <1>5
<1>8. arg_pages' = Cardinality(ArgHolders') + leaked'
  BY <1>2, <1>4, <1>6, <1>7
<1> QED BY <1>8 DEF ArgPagesCounted, ArgHolders

(* A task that holds arguments is counted.                                  *)
LEMMA ArgsHeld ==
  ASSUME ArgPagesCounted, NEW p \in Procs, HoldsArgs(p)
  PROVE  arg_pages > 0
<1>1. ArgHolders \subseteq Procs /\ p \in ArgHolders
  BY DEF ArgHolders
<1>2. IsFiniteSet(ArgHolders)
  BY <1>1, AllFinite, FS_Subset
<1>3. Cardinality(ArgHolders) \in Nat /\ Cardinality(ArgHolders) # 0
  BY <1>1, <1>2, SmallSets
<1> QED BY <1>3 DEF ArgPagesCounted, ArgHolders

(* The calls that leave the arguments of every task alone.                  *)
LEMMA OtherSteps ==
  ASSUME MemInv, ArgPagesCounted, NEW p \in Procs, UNCHANGED <<scenario, arg_pages, leaked>>,
         \/ \E a \in Addrs, v \in scenario.data : Store(p, a, v)
         \/ Fault(p)
         \/ Syscall(p)
  PROVE  ArgPagesCounted'
<1>1. pc \in [Procs -> Locations] /\ leaked \in Nat /\ TaskRight(p)
  BY DEF MemInv, TypeOK, ArgPagesCounted
<1>2. loc \in [Procs -> [page : Pages \union {0}, addr : Addrs \union {NULL}, ret : Locations]]
  BY DEF MemInv, TypeOK
<1>3. \E q \in Procs :
        /\ \A r \in Procs \ {q} : pc'[r] = pc[r] /\ loc'[r] = loc[r]
        /\ HoldsArgs(q)' <=> HoldsArgs(q)
  <2>1. CASE \E a \in Addrs, v \in scenario.data : Store(p, a, v)
    BY <2>1 DEF Store, HoldsArgs
  <2>2. CASE \E a \in Addrs : WpFault(p, a) \/ GetEmptyPage(p, a) \/ SharePage(p, a)
    BY <2>2 DEF WpFault, UnWpPage, GetEmptyPage, SharePage, HoldsArgs
  <2>3. ASSUME NEW a \in Addrs, LoadPage(p, a)
        PROVE  /\ \A r \in Procs \ {p} : pc'[r] = pc[r] /\ loc'[r] = loc[r]
               /\ HoldsArgs(p)' <=> HoldsArgs(p)
    <3>1. /\ pc[p] \in {"user", "kernel", "args"} /\ pc' = [pc EXCEPT ![p] = "load"]
          /\ loc' = [loc EXCEPT ![p] = [page |-> NewPage, addr |-> a, ret |-> pc[p]]]
      BY <2>3 DEF LoadPage, Faults
    <3>2. /\ pc'[p] = "load" /\ loc'[p].ret = pc[p]
          /\ \A r \in Procs \ {p} : pc'[r] = pc[r] /\ loc'[r] = loc[r]
      BY <1>1, <1>2, <3>1
    <3> QED BY <3>1, <3>2 DEF HoldsArgs
  <2>4. CASE LoadDone(p)
    <3>1. /\ pc[p] = "load" /\ pc' = [pc EXCEPT ![p] = loc[p].ret]
          /\ loc[p].ret \in {"user", "kernel", "args"}
          /\ \A r \in Procs \ {p} : loc'[r] = loc[r]
      BY <1>1, <2>4 DEF LoadDone, TaskRight
    <3>2. pc'[p] = loc[p].ret /\ \A r \in Procs \ {p} : pc'[r] = pc[r]
      BY <1>1, <3>1
    <3> QED BY <3>1, <3>2 DEF HoldsArgs
  <2>5. ASSUME NEW q \in Procs, Fork(p, q)
        PROVE  /\ \A r \in Procs \ {q} : pc'[r] = pc[r] /\ loc'[r] = loc[r]
               /\ HoldsArgs(q)' <=> HoldsArgs(q)
    <3>1. pc[q] = "none" /\ pc' = [pc EXCEPT ![q] = "user"] /\ loc' = loc
      BY <2>5 DEF Fork
    <3> QED BY <1>1, <3>1 DEF HoldsArgs
  <2>6. CASE ForkFails(p) \/ \E e \in Execs : ExecCommit(p, e)
    <3>1. loc' = loc
      BY <2>6 DEF ForkFails, ExecCommit
    <3>2. pc' = pc \/ (pc[p] = "args" /\ pc' = [pc EXCEPT ![p] = "exec"])
      BY <2>6 DEF ForkFails, ExecCommit
    <3> QED BY <1>1, <3>1, <3>2 DEF HoldsArgs
  <2>7. CASE Exit(p) \/ ExitDone(p) \/ Release(p)
    <3>1. /\ pc[p] \in {"user", "exit", "zombie"}
          /\ \/ pc' = [pc EXCEPT ![p] = "exit"]
             \/ pc' = [pc EXCEPT ![p] = "zombie"]
             \/ pc' = [pc EXCEPT ![p] = "none"]
          /\ loc' = loc \/ loc' = [loc EXCEPT ![p] = NoLoc]
      BY <2>7 DEF Exit, ExitDone, Release, DoExit
    <3>2. /\ pc'[p] \in {"exit", "zombie", "none"}
          /\ \A r \in Procs \ {p} : pc'[r] = pc[r] /\ loc'[r] = loc[r]
      BY <1>1, <1>2, <3>1
    <3> QED BY <3>1, <3>2 DEF HoldsArgs
  <2>8. CASE (\E a \in Addrs : VerifyArea(p, a)) \/ (\E v \in scenario.data : PutFs(p, v))
    <3>1. ASSUME NEW a \in Addrs, VerifyArea(p, a)
          PROVE  /\ pc[p] = "user" /\ pc' = [pc EXCEPT ![p] = "kernel"]
                 /\ loc' = [loc EXCEPT ![p] = [NoLoc EXCEPT !.addr = a]]
      BY <3>1 DEF VerifyArea, WriteVerify, UnWpPage
    <3>2. ASSUME NEW v \in scenario.data, PutFs(p, v)
          PROVE  /\ pc[p] = "kernel" /\ pc' = [pc EXCEPT ![p] = "user"]
                 /\ loc' = [loc EXCEPT ![p] = NoLoc]
      BY <3>2 DEF PutFs
    <3>3. /\ pc[p] \in {"user", "kernel"} /\ pc'[p] \in {"user", "kernel"}
          /\ \A r \in Procs \ {p} : pc'[r] = pc[r] /\ loc'[r] = loc[r]
      BY <1>1, <1>2, <2>8, <3>1, <3>2
    <3> QED BY <3>3 DEF HoldsArgs
  <2> QED BY <2>1, <2>2, <2>3, <2>4, <2>5, <2>6, <2>7, <2>8 DEF Fault, Syscall
<1>4. PICK q \in Procs : /\ \A r \in Procs \ {q} : pc'[r] = pc[r] /\ loc'[r] = loc[r]
                         /\ HoldsArgs(q)' <=> HoldsArgs(q)
  BY <1>3
<1>5. One(HoldsArgs(q)') = One(HoldsArgs(q)) /\ One(HoldsArgs(q)) \in {0, 1}
  BY <1>4 DEF One
<1>6. arg_pages' = arg_pages + One(HoldsArgs(q)') - One(HoldsArgs(q)) + leaked' - leaked
  <2>1. arg_pages \in Nat /\ arg_pages' = arg_pages /\ leaked' = leaked
    BY DEF MemInv, TypeOK
  <2> QED BY <1>1, <1>5, <2>1
<1> QED BY <1>1, <1>4, <1>6, ArgsChange

(* execve() takes a page and gives it back, or maps it; a task that runs    *)
(* out of memory inside it leaves the page behind.                          *)
LEMMA ArgSteps ==
  ASSUME MemInv, ArgPagesCounted, NEW p \in Procs,
         ExecArgs(p) \/ ExecError(p) \/ ExecDone(p) \/ Oom(p)
  PROVE  ArgPagesCounted'
<1>1. pc \in [Procs -> Locations] /\ leaked \in Nat /\ arg_pages \in Nat
  BY DEF MemInv, TypeOK, ArgPagesCounted
<1>2. CASE ExecArgs(p) \/ ExecError(p) \/ ExecDone(p)
  <2>1. /\ loc' = loc /\ leaked' = leaked
        /\ \/ pc[p] = "user" /\ pc' = [pc EXCEPT ![p] = "args"] /\ arg_pages' = arg_pages + 1
           \/ /\ pc[p] \in {"args", "exec"} /\ pc' = [pc EXCEPT ![p] = "user"]
              /\ arg_pages' = arg_pages - 1
    BY <1>2 DEF ExecArgs, ExecError, ExecDone
  <2>2. /\ \A r \in Procs \ {p} : pc'[r] = pc[r] /\ loc'[r] = loc[r]
        /\ \/ ~HoldsArgs(p) /\ HoldsArgs(p)' /\ arg_pages' = arg_pages + 1
           \/ HoldsArgs(p) /\ ~HoldsArgs(p)' /\ arg_pages' = arg_pages - 1
    BY <1>1, <2>1 DEF HoldsArgs
  <2>3. arg_pages' = arg_pages + One(HoldsArgs(p)') - One(HoldsArgs(p)) + leaked' - leaked
    BY <1>1, <2>1, <2>2 DEF One
  <2> QED BY <1>1, <2>1, <2>2, <2>3, ArgsChange
<1>3. CASE Oom(p)
  <2>1. /\ pc' = [pc EXCEPT ![p] = "exit"] /\ \A r \in Procs \ {p} : loc'[r] = loc[r]
        /\ leaked' = leaked + IF HoldsArgs(p) THEN 1 ELSE 0
        /\ arg_pages' = arg_pages
    BY <1>3 DEF Oom, DoExit
  <2>2. (\A r \in Procs \ {p} : pc'[r] = pc[r]) /\ ~HoldsArgs(p)'
    BY <1>1, <2>1 DEF HoldsArgs
  <2>3. /\ leaked' \in Nat
        /\ arg_pages' = arg_pages + One(HoldsArgs(p)') - One(HoldsArgs(p)) + leaked' - leaked
    BY <1>1, <2>1, <2>2 DEF One
  <2> QED BY <2>1, <2>2, <2>3, ArgsChange
<1> QED BY <1>2, <1>3

(* The inductive invariant of PagesStayCounted.                             *)
PagesInv == MemInv /\ ArgPagesCounted

(* Every step keeps it.                                                     *)
LEMMA NextKeeps == PagesInv /\ [Next]_vars => PagesInv'
<1> SUFFICES ASSUME MemInv, ArgPagesCounted, [Next]_vars PROVE MemInv' /\ ArgPagesCounted'
  BY DEF PagesInv
<1>1. CASE UNCHANGED vars
  <2>1. /\ UNCHANGED <<mem_map, kernel_pages, content, dir, pte, executable>>
        /\ UNCHANGED <<pc, loc, image, scenario, arg_pages, leaked>>
    BY <1>1 DEF vars
  <2>2. scenario \in Scenarios /\ TypeOK /\ MemMapCounts /\ StoresAlone
    BY DEF MemInv
  <2>3. TypeOK'
    BY <2>1, <2>2 DEF TypeOK
  <2>4. StoresAlone'
    BY <2>1, <2>2 DEF StoresAlone, Present
  <2>5. \A r \in Procs : SamePlace(r)
    BY <2>1 DEF SamePlace
  <2>6. MemInv'
    BY <2>1, <2>3, <2>4, <2>5, ProtectStep
  <2>7. ArgPagesCounted'
    BY <2>1 DEF ArgPagesCounted, HoldsArgs
  <2> QED BY <2>6, <2>7
<1>2. CASE Next
  <2>1. scenario' = scenario
    BY <1>2 DEF Next
  <2>2. PICK p \in Procs :
          \/ /\ \/ \E a \in Addrs, v \in scenario.data : Store(p, a, v)
                \/ Fault(p)
                \/ Syscall(p)
             /\ UNCHANGED <<arg_pages, leaked>>
          \/ ExecArgs(p) \/ ExecError(p) \/ ExecDone(p)
          \/ Oom(p)
    BY <1>2 DEF Next
  <2>3. CASE /\ \E a \in Addrs, v \in scenario.data : Store(p, a, v)
             /\ UNCHANGED <<arg_pages, leaked>>
    BY <2>1, <2>3, StoreSteps, OtherSteps
  <2>4. CASE Fault(p) /\ UNCHANGED <<arg_pages, leaked>>
    <3>1. MemInv'
      BY <2>1, <2>4, WpFaultStep, GetEmptyPageStep, SharePageStep, LoadPageStep, LoadDoneStep
         DEF Fault
    <3> QED BY <2>1, <2>4, <3>1, OtherSteps
  <2>5. CASE Syscall(p) /\ UNCHANGED <<arg_pages, leaked>>
    <3>1. CASE \E q \in Procs : Fork(p, q)
      BY <2>1, <2>5, <3>1, ForkStep, OtherSteps
    <3>2. CASE ForkFails(p) \/ \E e \in Execs : ExecCommit(p, e)
      BY <2>1, <2>5, <3>2, ForkFailsStep, ExecCommitStep, OtherSteps
    <3>3. CASE Exit(p) \/ ExitDone(p) \/ Release(p)
      BY <2>1, <2>5, <3>3, ExitSteps, ExitDoneStep, ReleaseStep, OtherSteps
    <3>4. CASE \E a \in Addrs : VerifyArea(p, a)
      BY <2>1, <2>5, <3>4, VerifyAreaStep, OtherSteps
    <3>5. CASE \E v \in scenario.data : PutFs(p, v)
      BY <2>1, <2>5, <3>5, StoreSteps, OtherSteps
    <3> QED BY <2>5, <3>1, <3>2, <3>3, <3>4, <3>5 DEF Syscall
  <2>6. CASE ExecArgs(p)
    BY <2>1, <2>6, ExecArgsSteps, ArgSteps
  <2>7. CASE ExecError(p) \/ ExecDone(p)
    <3>1. HoldsArgs(p)
      BY <2>7 DEF HoldsArgs, ExecError, ExecDone
    <3>2. arg_pages > 0
      BY <3>1, ArgsHeld
    <3> QED BY <2>1, <2>7, <3>2, ExecArgsSteps, ExecDoneStep, ArgSteps
  <2>8. CASE Oom(p)
    <3>1. arg_pages' = arg_pages
      BY <2>8 DEF Oom
    <3> QED BY <2>1, <2>8, <3>1, ExitSteps, ArgSteps
  <2> QED BY <2>2, <2>3, <2>4, <2>5, <2>6, <2>7, <2>8
<1> QED BY <1>1, <1>2

(* Hence it always holds.                                                   *)
LEMMA InvHolds == Spec => []PagesInv
<1>1. Init => PagesInv
  BY InitRight, InitArgs DEF PagesInv
<1> QED BY <1>1, NextKeeps, PTL DEF Spec
-----------------------------------------------------------------------------
(* mem_map counts the users of every page, whatever order the tasks fork,   *)
(* fault, execute and exit in, on the paths where memory runs out too:      *)
(* free_page() never panics, and no page is lost but for the arguments of   *)
(* the tasks that run out of memory while copy_strings() reads them, which  *)
(* are exactly those in leaked (memory.c:33-37, 63-131, 150-189, 231-235,   *)
(* 278-281, 393-396; exec.c:126, 146, 347-351).                             *)
THEOREM PagesStayCounted == Spec => []PagesCounted
<1>1. PagesInv => PagesCounted
  BY DEF PagesInv, MemInv, PagesCounted
<1> QED BY <1>1, InvHolds, PTL

(* A page that a task can store to, or that is being filled while its task  *)
(* sleeps, has one user: copy_page_tables() and try_to_share() protect what *)
(* they share, and un_wp_page() gives back only what is not shared          *)
(* (memory.c:177-184, 226-237, 326-332).                                    *)
THEOREM WritableStaysPrivate == Spec => []WritableIsPrivate
<1>1. PagesInv => WritableIsPrivate
  <2> SUFFICES ASSUME PagesInv, NEW pg \in Pages,
                      \/ \E p \in Procs : \E a \in Addrs : pte[p][a].page = pg /\ pte[p][a].w
                      \/ \E p \in Procs : loc[p].page = pg
               PROVE  References(pg) = 1
    BY DEF WritableIsPrivate
  <2>1. mem_map[pg] = References(pg) /\ StoresAlone /\ pg # 0
    BY DEF PagesInv, MemInv, MemMapCounts, Pages
  <2> QED BY <2>1 DEF StoresAlone
<1> QED BY <1>1, InvHolds, PTL

(* Sharing is invisible: as long as no execve() or kernel store meets tasks *)
(* that share the pages of a program, each task finds in its memory what it *)
(* or its program put there, and a clean page of the executable's addresses *)
(* holds what the file has (memory.c:133-189, 221-259, 284-397).            *)
THEOREM SharingStaysInvisible == Spec => []SharingInvisible
<1>1. PagesInv => SharingInvisible
  <2> SUFFICES ASSUME PagesInv, Separate PROVE SharingInvisible
    BY DEF SharingInvisible, CleanIsFile, MemoryIsPrivate
  <2>1. \A p \in Procs : MemoryRight(p)
    BY DEF PagesInv, MemInv
  <2>2. CleanIsFile
    BY <2>1 DEF MemoryRight, CleanIsFile
  <2>3. MemoryIsPrivate
    BY <2>1 DEF MemoryRight, MemoryIsPrivate
  <2> QED BY <2>2, <2>3 DEF SharingInvisible
<1> QED BY <1>1, InvHolds, PTL
=============================================================================
