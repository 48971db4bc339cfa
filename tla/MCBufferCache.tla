--------------------------- MODULE MCBufferCache ---------------------------
(* BufferCache on a few buffers.                                            *)
EXTENDS BufferCache

CONSTANTS P, Q   \* two processes

Only(opsP, opsQ) == [p \in Procs |-> IF p = P THEN opsP ELSE opsQ]

ReaderAndWriter == Only({"read"}, {"write"})
ReadAheadSyncAndWriter == Only({"read_ahead", "sync"}, {"fault_write"})
ReadAheadAndWriter == Only({"read_ahead"}, {"write"})

(* The contents of a block are interchangeable.                             *)
Symmetry == Permutations(Vals)
=============================================================================
