--------------------------- MODULE MCDeferLowering ---------------------------
(* Instances of DeferLowering for TLC.  A statement that branches many ways  *)
(* weighs more, so that every body of two statements, six defers, or a loop  *)
(* with a block, two defers, a jump and a return fit the same bound.         *)
EXTENDS DeferLowering

MCWeight == [k \in Kinds |-> CASE k = "break" -> 2
                               [] k \in {"block", "defer", "return"} -> 3
                               [] k = "while" -> 4
                               [] k \in {"errdefer", "if"} -> 7
                               [] OTHER -> 9]

MCBodies == {Plain, Body("return", NoUserLabel, TRUE), Body("break", NoUserLabel, TRUE),
             Body("continue", NoUserLabel, FALSE), Body("break", "outer", FALSE)}
=============================================================================
