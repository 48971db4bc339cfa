----------------------------- MODULE MCProcess -----------------------------
(***************************************************************************)
(* Bounds for Process: init and two other slots, four process numbers.     *)
(***************************************************************************)
EXTENDS Process

(* fork(), exit() and wait() are always there; besides them, signals and    *)
(* masks, handlers and waits for one child, sessions, and groups.           *)
MCScenarios == {{"kill", "ssetmask"}, {"signal", "waitpid"}, {"setsid"}, {"setpgid"}}
=============================================================================
