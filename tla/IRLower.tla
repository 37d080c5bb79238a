------------------------------- MODULE IRLower -------------------------------
(***************************************************************************)
(* How src/ir/ir_lowering.c turns the statements of a function body into   *)
(* instructions: one fresh temporary per expression, labels numbered in    *)
(* the order they are created.  The code the optimizer is given in the     *)
(* runs is what this lowering makes of small source programs, so that only *)
(* code the compiler can produce is considered.  Runtime checks are off    *)
(* (--release) and the bodies have no defer statements.                    *)
(***************************************************************************)
EXTENDS IRCode

----------------------------------------------------------------------------
(* Source expressions.                                                     *)

Var(x)           == [e |-> "atom", a |-> Sym(x)]
Num(v)           == [e |-> "atom", a |-> Lit(v)]
Infix(op, a, b)  == [e |-> "infix", op |-> op, a |-> a, b |-> b]
Prefix(op, a)    == [e |-> "prefix", op |-> op, a |-> a]
Both(x, y)       == [e |-> "and", a |-> x, b |-> y]      \* x && y
Either(x, y)     == [e |-> "or", a |-> x, b |-> y]       \* x || y
Deref(p)         == [e |-> "deref", a |-> Sym(p)]
AddressOfVar(s)  == [e |-> "address", a |-> Sym(s)]

(* Source statements.                                                      *)

Set(x, exp)        == [s |-> "set", x |-> x, exp |-> exp]
SetTarget(p, exp)  == [s |-> "set_target", p |-> p, exp |-> exp]   \* *p = exp
CallWith(exp)      == [s |-> "call", exp |-> exp]                  \* f(exp)
If(c, then, else)  == [s |-> "if", c |-> c, then |-> then, else |-> else]
While(c, body)     == [s |-> "while", c |-> c, body |-> body]
Give(exp)          == [s |-> "return", exp |-> exp]

----------------------------------------------------------------------------
(* The lowering context: the code so far and the next temporary and label. *)

Emit(c, ins)    == [c EXCEPT !.code = Append(@, ins)]
EmitAll(c, seq) == [c EXCEPT !.code = @ \o seq]
TakeTemp(c)     == [c EXCEPT !.temps = @ + 1]
TakeLabels(c, n) == [c EXCEPT !.labels = @ + n]

\* An expression leaves its value in an operand.
Lowered(c, o) == [c |-> c, o |-> o]

RECURSIVE LowerExpression(_, _)

\* a && b and a || b as values: the temporary is written on both sides.
LowerShortCircuit(c, exp) ==
    LET d == Temp(c.temps)
        left == LowerExpression(TakeTemp(c), exp.a)
        rhs == left.c.labels
        isTrue == rhs + 1
        isFalse == rhs + 2
        end == rhs + 3
        test == IF exp.e = "and" THEN <<BranchZero(left.o, isFalse), Label(rhs)>>
                ELSE <<BranchZero(left.o, rhs), Jump(isTrue), Label(rhs)>>
        right == LowerExpression(EmitAll(TakeLabels(left.c, 4), test), exp.b)
    IN  Lowered(EmitAll(right.c,
                        << BranchZero(right.o, isFalse), Label(isTrue), Assign(d, Lit(1)), Jump(end),
                           Label(isFalse), Assign(d, Lit(0)), Label(end) >>), d)

LowerExpression(c, exp) ==
    CASE exp.e = "atom"    -> Lowered(c, exp.a)
      [] exp.e = "infix"   ->
            LET left == LowerExpression(c, exp.a)
                right == LowerExpression(left.c, exp.b)
                d == Temp(right.c.temps)
            IN  Lowered(Emit(TakeTemp(right.c), Binary(d, exp.op, left.o, right.o)), d)
      [] exp.e = "prefix"  ->
            LET v == LowerExpression(c, exp.a)
                d == Temp(v.c.temps)
            IN  Lowered(Emit(TakeTemp(v.c), Unary(d, exp.op, v.o)), d)
      [] exp.e = "deref"   -> Lowered(Emit(TakeTemp(c), Load(Temp(c.temps), exp.a)), Temp(c.temps))
      [] exp.e = "address" -> Lowered(Emit(TakeTemp(c), AddressOf(Temp(c.temps), exp.a)), Temp(c.temps))
      [] exp.e \in {"and", "or"} -> LowerShortCircuit(c, exp)

\* Go to isFalse unless the condition holds.  && and || are branches here, and
\* no temporary holds their value.
RECURSIVE FalseBranch(_, _, _), TrueBranch(_, _, _)
FalseBranch(c, cond, isFalse) ==
    CASE cond.e = "and" -> FalseBranch(FalseBranch(c, cond.a, isFalse), cond.b, isFalse)
      [] cond.e = "or"  ->
            LET done == c.labels
            IN  Emit(FalseBranch(TrueBranch(TakeLabels(c, 1), cond.a, done), cond.b, isFalse), Label(done))
      [] OTHER -> LET v == LowerExpression(c, cond)
                  IN  Emit(v.c, BranchZero(v.o, isFalse))

\* Go to isTrue if the condition holds.
TrueBranch(c, cond, isTrue) ==
    CASE cond.e = "or"  -> TrueBranch(TrueBranch(c, cond.a, isTrue), cond.b, isTrue)
      [] cond.e = "and" ->
            LET done == c.labels
            IN  Emit(TrueBranch(FalseBranch(TakeLabels(c, 1), cond.a, done), cond.b, isTrue), Label(done))
      [] OTHER -> LET v == LowerExpression(c, cond)
                      skip == v.c.labels
                  IN  EmitAll(TakeLabels(v.c, 1), <<BranchZero(v.o, skip), Jump(isTrue), Label(skip)>>)

\* A return goes through the branch that tells a deferred call whether the
\* function fails, also when nothing is deferred.
LowerReturn(c, exp) ==
    LET v == LowerExpression(c, exp)
        t == Temp(v.c.temps)
        ok == v.c.labels
        end == v.c.labels + 1
    IN  EmitAll(TakeLabels(TakeTemp(v.c), 2),
                << Assign(t, v.o), BranchZero(t, ok), Jump(end), Label(ok), Label(end), Return(v.o) >>)

RECURSIVE LowerBlock(_, _)
LowerStatement(c, st) ==
    CASE st.s = "set" ->
            LET v == LowerExpression(c, st.exp) IN Emit(v.c, Assign(Sym(st.x), v.o))
      [] st.s = "set_target" ->
            LET v == LowerExpression(c, st.exp) IN Emit(v.c, Store(Sym(st.p), v.o))
      [] st.s = "call" ->
            LET v == LowerExpression(c, st.exp) IN Emit(TakeTemp(v.c), Call(Temp(v.c.temps), <<v.o>>))
      [] st.s = "if" ->
            LET end == c.labels
                next == c.labels + 1
                then == LowerBlock(FalseBranch(TakeLabels(c, 2), st.c, next), st.then)
                else == LowerBlock(EmitAll(then, <<Jump(end), Label(next)>>), st.else)
            IN  Emit(else, Label(end))
      [] st.s = "while" ->
            LET start == c.labels
                end == c.labels + 1
                test == FalseBranch(Emit(TakeLabels(c, 2), Label(start)), st.c, end)
            IN  EmitAll(LowerBlock(test, st.body), <<Jump(start), Label(end)>>)
      [] st.s = "return" -> LowerReturn(c, st.exp)

LowerBlock(c, block) ==
    IF block = <<>> THEN c ELSE LowerBlock(LowerStatement(c, Head(block)), Tail(block))

\* A function starts with its entry label.
LowerFunction(block) ==
    LowerBlock([code |-> <<Label(1)>>, temps |-> 0, labels |-> 2], block).code
=============================================================================
