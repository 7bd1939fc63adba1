----------------------- MODULE MCDebouncedStateStore -----------------------
(* Small instances of DebouncedStateStore.                                 *)
EXTENDS DebouncedStateStore

CONSTANTS d1, d2, t1, t2
=============================================================================
