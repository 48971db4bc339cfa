---------------------------- MODULE MCInodeCache ----------------------------
(* InodeCache with three processes and a table of three inodes.             *)
EXTENDS InodeCache

CONSTANTS a, b, c

Each(x, y, z) == [p \in Procs |-> IF p = a THEN x ELSE IF p = b THEN y ELSE z]

(* Two processes use inodes while a third one writes them back.             *)
UseAndSync == [calls |-> Each({"change"}, {"change"}, {"sync"}),
  names |-> {1, 2}, devices |-> {2}, spare |-> 3]

(* Three processes use the same inodes.                                     *)
Use == [calls |-> Each({"change"}, {"change"}, {"change"}),
  names |-> {1, 2}, devices |-> {}, spare |-> 3]

(* A pipe and a file that is made and written back.                         *)
PipeAndSync == [calls |-> Each({"pipe"}, {"create"}, {"sync"}),
  names |-> {}, devices |-> {}, spare |-> 1]

(* Two processes remove a file that a third one uses.                       *)
Remove == [calls |-> Each({"unlink"}, {"unlink"}, {"change"}),
  names |-> {1}, devices |-> {}, spare |-> 3]

(* Files are removed while others are made or written back.                 *)
RemoveAndCreate == [calls |-> Each({"unlink"}, {"create"}, {}),
  names |-> {1}, devices |-> {}, spare |-> 2]
RemoveAndSync == [calls |-> Each({"unlink"}, {"change"}, {"sync"}),
  names |-> {1}, devices |-> {}, spare |-> 3]

All == {Use, UseAndSync, PipeAndSync, Remove, RemoveAndCreate, RemoveAndSync}
=============================================================================
