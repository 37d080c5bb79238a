---------------------------- MODULE MCOptimizer ----------------------------
(***************************************************************************)
(* The optimizer on small functions of three variables x, y and n, a       *)
(* global g, and a pointer p to the memory m or to g.                      *)
(***************************************************************************)
EXTENDS Optimizer, IRLower

X == Var("x")
Y == Var("y")

\* Every function ends by showing its variables.
Shown == << CallWith(X), CallWith(Y), CallWith(Var("n")), Give(Infix("+", X, Y)) >>
Function(block) == LowerFunction(block \o Shown)

\* Each operator applied to a variable or a literal and each of Rights; what is
\* undefined comes last.
Rights == << Num(2), Num(1), X, Num(7), Num(4), Num(-8), Y, Num(-1), Num(0) >>
Lefts == {X, Num(-8), Num(-1), Num(0), Num(1), Num(2), Num(7)}
Folding ==
    { LowerFunction([k \in 1 .. 2 * Len(Rights) |->
          IF k % 2 = 1 THEN Set("y", Infix(op, left, Rights[(k + 1) \div 2])) ELSE CallWith(Y)]
          \o <<Give(Y)>>) : op \in BinaryOps, left \in Lefts }

Unaries ==
    { LowerFunction(<<Set("y", Prefix(op, left)), CallWith(Y), Give(Prefix(op, Y))>>) :
        op \in UnaryOps, left \in Lefts }

\* Three simple statements after each other.
Arithmetic ==
    { <<Set("x", Infix("+", X, Num(1)))>>,
      <<Set("y", Infix("+", X, Num(1)))>>,
      <<Set("y", Infix("+", Num(1), X))>>,
      <<Set("x", Infix("*", X, Y))>>,
      <<Set("n", Infix("*", X, Y))>> }
Simple == Arithmetic \cup
    { <<Set("x", Y)>>,
      <<Set("y", X)>>,
      <<Set("x", Deref("p"))>>,
      <<SetTarget("p", X)>>,
      <<Set("g", Deref("p"))>>,
      <<Set("y", Var("g"))>>,
      <<Set("p", AddressOfVar("x"))>>,
      <<CallWith(X)>>,
      <<Set("n", Infix("+", X, Y)), Set("x", Y), Set("y", Var("n"))>> }
Straight == { Function(a \o b \o c) : a, b, c \in Simple }

\* Conditions and what they guard.
Conditions ==
    { Infix("==", X, Num(1)), Infix("!=", X, Num(0)), Infix("<", X, Y),
      Infix("==", Infix("%", X, Num(2)), Num(0)), Num(0), Num(1),
      Both(Infix("==", X, Num(1)), Infix("!=", Y, Num(0))),
      Either(Infix("==", X, Num(1)), Infix("==", Y, Num(0))),
      Either(Infix("==", X, Num(1)), Both(Infix("<", X, Y), Infix("==", Y, Num(2)))) }
Arms == { <<>>, <<Set("x", Y)>>, <<Give(X)>>, <<CallWith(X)>>,
          <<If(Infix("==", Y, Num(1)), <<>>, <<>>)>>,
          <<Set("n", Both(X, Y))>> }
Branching == { Function(<<If(c, a, b)>>) : c \in Conditions, a, b \in Arms }

\* Loops that end because x or y reaches a value.
Loops ==
    { Function(<<While(Both(Infix("<", X, Y), c), <<If(d, a, <<>>), Set("x", Infix("+", X, Num(1)))>>)>>) :
        c \in {Num(1), Infix("!=", X, Num(0))}, d \in {Num(0), Infix("==", X, Y), Infix("==", X, Num(1))},
        a \in Arms }

Programs == Folding \cup Unaries \cup Straight \cup Branching \cup Loops

Starts ==
    { [x |-> x, y |-> y, n |-> 0, g |-> 3, m |-> 5, p |-> p] :
        x, y \in {-8, -1, 1, 2}, p \in {"m", "g"} }
=============================================================================
