------------------------------- MODULE IRCode -------------------------------
(***************************************************************************)
(* The intermediate representation of one function (src/ir/ir.h) and what  *)
(* running it means.  The code is a sequence of instructions over the      *)
(* temporaries %t, the named symbols @s and the literals; control flow is  *)
(* by label.  The meaning is the reference the optimizer is held against:  *)
(* the calls a run makes, what each of them could see, the value that is   *)
(* returned and the memory that outlives the function.                     *)
(***************************************************************************)
EXTENDS Integers, Sequences, FiniteSets, TLC

LOCAL INSTANCE Bitwise

CONSTANTS
    W,          \* the width of an integer; 64 in the code
    Fuel        \* steps after which a run counts as not ending

ASSUME WidthAssumption == W \in Nat /\ W >= 2

----------------------------------------------------------------------------
(* Operands: IROperand, its kind and its name or value.                    *)

None   == <<"none", 0>>
Temp(n) == <<"temp", n>>
Sym(s) == <<"symbol", s>>
Lit(v) == <<"int", v>>

IsTemp(o) == o[1] = "temp"
IsSym(o)  == o[1] = "symbol"
IsLit(o)  == o[1] = "int"

\* IRInstruction.  text is the operator; a label's number stands for the
\* label that jumps, branches and label instructions keep in text.
Instruction(op, dest, lhs, rhs, text, label, args) ==
    [op |-> op, dest |-> dest, lhs |-> lhs, rhs |-> rhs,
     text |-> text, label |-> label, args |-> args]

Nop                  == Instruction("nop", None, None, None, "", 0, <<>>)
Label(l)             == Instruction("label", None, None, None, "", l, <<>>)
Jump(l)              == Instruction("jump", None, None, None, "", l, <<>>)
BranchZero(o, l)     == Instruction("branch_zero", None, o, None, "", l, <<>>)
BranchEq(a, b, l)    == Instruction("branch_eq", None, a, b, "", l, <<>>)
Assign(d, o)         == Instruction("assign", d, o, None, "", 0, <<>>)
Binary(d, op, a, b)  == Instruction("binary", d, a, b, op, 0, <<>>)
Unary(d, op, a)      == Instruction("unary", d, a, None, op, 0, <<>>)
AddressOf(d, s)      == Instruction("address_of", d, s, None, "", 0, <<>>)
Load(d, a)           == Instruction("load", d, a, None, "", 0, <<>>)
Store(a, o)          == Instruction("store", a, o, None, "", 0, <<>>)
Call(d, args)        == Instruction("call", d, None, None, "", 0, args)
Return(o)            == Instruction("return", None, o, None, "", 0, <<>>)
RotateAdd(n, a, b)   == Instruction("rotate_add", n, a, b, "+", 0, <<>>)

IsBranch(ins) == ins.op \in {"branch_zero", "branch_eq"}
Transfers(ins) == ins.op = "jump" \/ IsBranch(ins)

----------------------------------------------------------------------------
(* Two's-complement arithmetic of width W.                                 *)

Modulus   == 2 ^ W
MinInt    == -(2 ^ (W - 1))
Ints      == MinInt .. (2 ^ (W - 1)) - 1
Signed(u) == IF u >= 2 ^ (W - 1) THEN u - Modulus ELSE u
Wrap(v)   == Signed(v % Modulus)
AsBit(b)  == IF b THEN 1 ELSE 0

\* Division truncates toward zero, and the remainder has the dividend's sign.
Magnitude(v)  == IF v < 0 THEN -v ELSE v
Truncated(a, b) ==
    LET q == Magnitude(a) \div Magnitude(b)
    IN  IF (a < 0) = (b < 0) THEN q ELSE -q

ArithmeticOps == {"+", "-", "*", "/", "%", "&", "|", "^", "<<", ">>"}
CompareOps    == {"==", "!=", "<", "<=", ">", ">="}
BinaryOps     == ArithmeticOps \cup CompareOps
UnaryOps      == {"+", "-", "!", "~"}

\* Division by zero, and of the least integer by -1, is undefined.
Defined(op, a, b) ==
    op \in {"/", "%"} => b # 0 /\ ~(a = MinInt /\ b = -1)

\* What the machine computes; it takes a shift count modulo the width.
Machine(op, a, b) ==
    CASE op = "+"  -> Wrap(a + b)
      [] op = "-"  -> Wrap(a - b)
      [] op = "*"  -> Wrap(a * b)
      [] op = "/"  -> Truncated(a, b)
      [] op = "%"  -> a - b * Truncated(a, b)
      [] op = "&"  -> Signed((a % Modulus) & (b % Modulus))
      [] op = "|"  -> Signed((a % Modulus) | (b % Modulus))
      [] op = "^"  -> Signed((a % Modulus) ^^ (b % Modulus))
      [] op = "<<" -> Wrap(a * 2 ^ (b % W))
      [] op = ">>" -> a \div 2 ^ (b % W)
      [] op = "==" -> AsBit(a = b)
      [] op = "!=" -> AsBit(a # b)
      [] op = "<"  -> AsBit(a < b)
      [] op = "<=" -> AsBit(a <= b)
      [] op = ">"  -> AsBit(a > b)
      [] op = ">=" -> AsBit(a >= b)

MachineUnary(op, a) ==
    CASE op = "+" -> a
      [] op = "-" -> Wrap(-a)
      [] op = "!" -> AsBit(a = 0)
      [] op = "~" -> -a - 1

----------------------------------------------------------------------------
(* Control flow.                                                           *)

LabelAt(code, l) == {i \in 1 .. Len(code) : code[i].op = "label" /\ code[i].label = l}
HasLabel(code, l) == LabelAt(code, l) # {}

\* ir_find_label_index: the first instruction that carries the label.
Target(code, l) == CHOOSE i \in LabelAt(code, l) : \A j \in LabelAt(code, l) : i <= j

\* The instructions control can go to from i: the edges of ir_function_rebuild_cfg.
Successors(code, i) ==
    (IF Transfers(code[i]) /\ HasLabel(code, code[i].label)
        THEN {Target(code, code[i].label)} ELSE {})
    \cup
    (IF code[i].op \in {"jump", "return"} \/ i = Len(code) THEN {} ELSE {i + 1})

----------------------------------------------------------------------------
(* A run.  sym and tmp hold the values of the symbols and of the           *)
(* temporaries written so far; an address is the name of the symbol it     *)
(* points at; out records the calls, each with its argument and the value  *)
(* of the global g the callee reads and then changes.                      *)

Value(m, o) ==
    CASE IsLit(o)  -> o[2]
      [] IsSym(o)  -> m.sym[o[2]]
      [] IsTemp(o) -> m.tmp[o[2]]

Written(m, o, v) ==
    CASE IsSym(o)  -> [m EXCEPT !.sym[o[2]] = v]
      [] IsTemp(o) -> [m EXCEPT !.tmp = (o[2] :> v) @@ @]

\* The operands an instruction reads.
Reads(ins) ==
    {ins.lhs, ins.rhs} \cup {ins.args[k] : k \in 1 .. Len(ins.args)}
        \cup (IF ins.op = "store" THEN {ins.dest} ELSE {})

\* Some temporary is read that no instruction has written.
ReadsUnwritten(m, ins) ==
    \E o \in Reads(ins) : IsTemp(o) /\ o[2] \notin DOMAIN m.tmp

\* g and the memory m are what is left when the function has returned.
End(kind, m, v) == [kind |-> kind, out |-> m.out, value |-> v, left |-> <<m.sym["g"], m.sym["m"]>>]

\* One instruction that does not transfer control.
Effect(m, ins) ==
    CASE ins.op \in {"nop", "label"} -> m
      [] ins.op = "assign"     -> Written(m, ins.dest, Value(m, ins.lhs))
      [] ins.op = "binary"     -> Written(m, ins.dest, Machine(ins.text, Value(m, ins.lhs), Value(m, ins.rhs)))
      [] ins.op = "unary"      -> Written(m, ins.dest, MachineUnary(ins.text, Value(m, ins.lhs)))
      [] ins.op = "address_of" -> Written(m, ins.dest, ins.lhs[2])
      [] ins.op = "load"       -> Written(m, ins.dest, m.sym[Value(m, ins.lhs)])
      [] ins.op = "store"      -> [m EXCEPT !.sym[Value(m, ins.dest)] = Value(m, ins.lhs)]
      [] ins.op = "call"       ->
            Written([m EXCEPT !.sym["g"] = Wrap(@ + 1),
                              !.out = Append(@, <<Value(m, ins.args[1]), m.sym["g"]>>)],
                    ins.dest, m.sym["g"])
      [] ins.op = "rotate_add" ->
            LET n == Written(m, ins.dest, Machine("+", Value(m, ins.lhs), Value(m, ins.rhs)))
                a == Written(n, ins.lhs, Value(n, ins.rhs))
            IN  Written(a, ins.rhs, Value(a, ins.dest))

Taken(m, ins) ==
    \/ ins.op = "jump"
    \/ ins.op = "branch_zero" /\ Value(m, ins.lhs) = 0
    \/ ins.op = "branch_eq" /\ Value(m, ins.lhs) = Value(m, ins.rhs)

RECURSIVE Run(_, _, _, _)
Run(code, pc, m, fuel) ==
    IF fuel = 0 THEN [End("diverges", m, 0) EXCEPT !.out = <<>>, !.left = <<>>]
    ELSE IF pc > Len(code) THEN End("falls off", m, 0)
    ELSE LET ins == code[pc] IN
         IF ins.op \in {"nop", "label"} THEN Run(code, pc + 1, m, fuel)
         ELSE IF ReadsUnwritten(m, ins) THEN End("wild", m, 0)
         ELSE IF ins.op = "return" THEN End("returns", m, Value(m, ins.lhs))
         ELSE IF Transfers(ins)
              THEN IF ~Taken(m, ins) THEN Run(code, pc + 1, m, fuel - 1)
                   ELSE IF HasLabel(code, ins.label)
                        THEN Run(code, Target(code, ins.label), m, fuel - 1)
                        ELSE End("wild", m, 0)
         ELSE IF ins.op = "binary" /\ ~Defined(ins.text, Value(m, ins.lhs), Value(m, ins.rhs))
              THEN End("undefined", m, 0)
         ELSE Run(code, pc + 1, Effect(m, ins), fuel - 1)

\* What the code does from the given values of the symbols.
Outcome(code, sym) == Run(code, 1, [sym |-> sym, tmp |-> <<>>, out |-> <<>>], Fuel)
=============================================================================
