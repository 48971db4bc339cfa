------------------------------ MODULE MCMemory ------------------------------
(* Memory with one page of the executable and one of the stack, in two page *)
(* tables.                                                                  *)
EXTENDS Memory, TLC

CONSTANT e   \* an executable

TwoTables == ("text" :> 1) @@ ("stack" :> 2)

(* Every call from one program, in eight pages; tasks without an executable *)
(* that fork, in ten; three tasks of one program that share its pages.      *)
Mixed ==
  {[started |-> 1 :> e, ops |-> {"fork", "execve", "exit", "read"}, data |-> {"x"},
    used |-> 6],
   [started |-> 1 :> NULL, ops |-> {"fork", "exit"}, data |-> {"x"}, used |-> 4],
   [started |-> (1 :> e) @@ (2 :> e) @@ (3 :> e), ops |-> {"exit"},
    data |-> {"x", "y"}, used |-> 0]}
=============================================================================
