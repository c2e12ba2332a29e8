--------------------------- MODULE MCAtomicWrite ---------------------------
(* Calls of atomic_write_bytes by up to three processes. *)
EXTENDS AtomicWrite

CONSTANTS w1, w2, w3

Three == {w1, w2, w3}
============================================================================
