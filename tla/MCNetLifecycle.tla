--------------------------- MODULE MCNetLifecycle ---------------------------
(* Threads for the runs of NetLifecycle. *)
EXTENDS NetLifecycle

CONSTANTS t1, t2

Two == {t1, t2}
=============================================================================
