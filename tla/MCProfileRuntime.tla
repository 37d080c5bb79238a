-------------------------- MODULE MCProfileRuntime --------------------------
(* The small instance of ProfileRuntime that TLC checks.                     *)
EXTENDS ProfileRuntime

\* What a read past g_stats may find: zeros, or a record that looks called.
AnyRecord == {ZeroStats, [calls |-> 1, total |-> 1, self |-> 0, max |-> 0]}
=============================================================================
