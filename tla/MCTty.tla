------------------------------- MODULE MCTty -------------------------------
(* Tty with queues of four places, which hold three characters.             *)
EXTENDS Tty

(* The console and a serial line as tty_table[] sets them up, and a serial  *)
(* line that somebody logs in on.                                           *)
Terminals ==
  {[con |-> TRUE, canon |-> TRUE, echo |-> TRUE],
   [con |-> FALSE, canon |-> FALSE, echo |-> FALSE],
   [con |-> FALSE, canon |-> TRUE, echo |-> TRUE]}

(* The console's handlers are interleaved with each other, instruction by   *)
(* instruction, which leaves room for less input and output.                *)
Typed == [m \in Terminals |-> IF m.con THEN 2 ELSE 3]
Written == [m \in Terminals |-> IF m.con THEN 1 ELSE IF m.canon THEN 1 ELSE 4]
=============================================================================
