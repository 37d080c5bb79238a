---------------------------- MODULE BackendEmit ----------------------------
(***************************************************************************)
(* The machine code of one IR instruction (codegen/binary/emit.c) and of   *)
(* the runs of instructions that are emitted together (peephole.c).        *)
(*                                                                         *)
(* e is the function being compiled: fn, its context ctx, the convention   *)
(* abi, the signatures sigs of what it calls, and the temporaries tagged   *)
(* as holding a pointer to a struct.  A jump's last operand is the label   *)
(* it goes to, or ReturnLabel for the epilogue.                            *)
(***************************************************************************)
EXTENDS BackendFrame

ReturnLabel == 0

\* Half a word stands for the 32 bits of an immediate.
HalfMax     == 2 ^ ((W \div 2) - 1) - 1
FitsSigned32(v) == -HalfMax - 1 <= v /\ v <= HalfMax
Immediate(o) == IsLit(o) /\ FitsSigned32(o[2])

----------------------------------------------------------------------------
(* Operands.                                                               *)

RegisterOf(e, o) == IF IsSym(o) THEN AssignedRegister(e.fn, e.ctx, o[2]) ELSE ""
SlotOf(e, o)     == IF IsTemp(o) THEN e.ctx.temps[o[2]] ELSE e.ctx.slots[o[2]]
HasSlot(e, o)    == IsTemp(o) \/ o[2] \in DOMAIN e.ctx.slots
IsIndirectParam(e, o) == IsSym(o) /\ o[2] \in e.ctx.params /\ ClassOf(e.fn, o[2]) = "struct"

\* A value in the frame, and the global.
SlotLoad(e, o, r)  == <<<<"ld", r, "rbp", -SlotOf(e, o)>>>>
SlotStore(e, o, r) == <<<<"st", "rbp", -SlotOf(e, o), r>>>>
GlobalLoad(r)      == <<<<"ldg", r>>>>
GlobalStore(r)     == <<<<"stg", r>>>>

\* emit_operand_load: an alias is read from the symbol it stands for.
RECURSIVE OperandLoad(_, _, _)
OperandLoad(e, o, r) ==
    IF o[1] = "none" THEN <<<<"imm", r, 0>>>>
    ELSE IF IsLit(o) THEN <<<<"imm", r, o[2]>>>>
    ELSE IF IsSym(o) /\ o[2] \in DOMAIN e.ctx.aliases THEN OperandLoad(e, Sym(e.ctx.aliases[o[2]]), r)
    ELSE IF RegisterOf(e, o) # "" THEN (IF RegisterOf(e, o) = r THEN <<>> ELSE <<<<"mov", r, RegisterOf(e, o)>>>>)
    ELSE IF HasSlot(e, o) THEN SlotLoad(e, o, r)
    ELSE GlobalLoad(r)

\* emit_destination_store
DestinationStore(e, o, r) ==
    IF o[1] = "none" THEN <<>>
    ELSE IF RegisterOf(e, o) # "" THEN (IF RegisterOf(e, o) = r THEN <<>> ELSE <<<<"mov", RegisterOf(e, o), r>>>>)
    ELSE IF HasSlot(e, o) THEN SlotStore(e, o, r)
    ELSE GlobalStore(r)

\* An operand where it is, or loaded into r.
InPlaceOr(e, o, r) == IF RegisterOf(e, o) # "" THEN RegisterOf(e, o) ELSE r
LoadUnlessInPlace(e, o, r) == IF RegisterOf(e, o) # "" THEN <<>> ELSE OperandLoad(e, o, r)

\* emit_symbol_address and the address parts of emit_address_of and
\* emit_struct_destination_address: a struct parameter's slot is a pointer.
AddressOfSymbol(e, o, r) ==
    IF ~HasSlot(e, o) THEN <<<<"leag", r>>>>
    ELSE IF IsIndirectParam(e, o) THEN SlotLoad(e, o, r)
    ELSE <<<<"lea", r, "rbp", -SlotOf(e, o)>>>>

\* emit_indirect_source_address: so is a tagged temporary's.
StructSource(e, o, r) ==
    IF IsSym(o) THEN AddressOfSymbol(e, o, r)
    ELSE IF o[2] \in e.tagged THEN SlotLoad(e, o, r)
    ELSE <<<<"lea", r, "rbp", -SlotOf(e, o)>>>>

\* emit_rep_movsb; it keeps neither rsi nor rdi nor rcx.
StructBytes == 16
RepMovsb(src, dst) ==
    <<<<"mov", "rsi", src>>, <<"mov", "rdi", dst>>, <<"imm", "rcx", StructBytes>>, <<"movs">>>>

----------------------------------------------------------------------------
(* Integer operations.                                                     *)

Commutative   == {"+", "*", "&", "|", "^"}
RhsImmediate  == Commutative \cup {"-", "<<", ">>"} \cup CompareOps
ShiftCount(v) == 0 <= v /\ v < W

\* extract_positive_power_of_two
IsPowerOfTwo(v) == \E k \in 0 .. W - 2 : v = 2 ^ k
Log2(v) == CHOOSE k \in 0 .. W - 2 : v = 2 ^ k

\* emit_and_mask
AndMask(r, mask) ==
    IF mask <= HalfMax THEN <<<<"opi", "&", r, mask>>>>
    ELSE <<<<"imm", "r10", mask>>, <<"op", "&", r, "r10">>>>

\* rax / 2^k and rax % 2^k, the quotient rounded toward zero: a negative
\* dividend is biased by 2^k - 1 first.
DividePowerOfTwo(op, v) ==
    LET k == Log2(v)
        quotient == <<<<"mov", "rcx", "rax">>, <<"opi", ">>", "rcx", W - 1>>>> \o AndMask("rcx", v - 1)
                        \o <<<<"op", "+", "rax", "rcx">>, <<"opi", ">>", "rax", k>>>>
    IN  IF op = "/" THEN (IF k = 0 THEN <<>> ELSE quotient)
        ELSE IF k = 0 THEN <<<<"imm", "rax", 0>>>>
        ELSE <<<<"mov", "r11", "rax">>>> \o quotient
                \o <<<<"opi", "<<", "rax", k>>, <<"op", "-", "r11", "rax">>, <<"mov", "rax", "r11">>>>

\* rax op r10, for an arithmetic op.
RaxOpR10(op) ==
    CASE op = "+" -> <<<<"leax", "rax", "rax", "r10", 1>>>>
      [] op = "/" -> <<<<"idiv", "r10">>>>
      [] op = "%" -> <<<<"idiv", "r10">>, <<"mov", "rax", "rdx">>>>
      [] op \in {"<<", ">>"} -> <<<<"mov", "rcx", "r10">>, <<"op", op, "rax", "rcx">>>>
      [] OTHER -> <<<<"op", op, "rax", "r10">>>>

SetccRax(op) == <<<<"setcc", op>>>>

ByPowerOfTwo(ins) == ins.text \in {"/", "%"} /\ IsLit(ins.rhs) /\ IsPowerOfTwo(ins.rhs[2])

\* The operand beside an immediate one, and the immediate; none if there is none.
ImmediateSide(ins) ==
    IF ins.text \in RhsImmediate /\ Immediate(ins.rhs) THEN [value |-> ins.lhs, imm |-> ins.rhs[2], found |-> TRUE]
    ELSE IF ins.text \in Commutative \cup {"==", "!="} /\ Immediate(ins.lhs)
         THEN [value |-> ins.rhs, imm |-> ins.lhs[2], found |-> TRUE]
    ELSE [value |-> None, imm |-> 0, found |-> FALSE]

\* The operations done in the register of a promoted destination.
InPlaceOp(op, imm) == op \in Commutative \cup {"-"} \/ (op \in {"<<", ">>"} /\ ShiftCount(imm))

\* An operation with an immediate: in the register of a promoted
\* destination, or through rax.
EmitImmediate(e, ins, side) ==
    LET dest  == RegisterOf(e, ins.dest)
        store == DestinationStore(e, ins.dest, "rax")
    IN  IF ins.text \in CompareOps
        THEN OperandLoad(e, side.value, "rax") \o <<<<"cmpi", "rax", side.imm>>>> \o SetccRax(ins.text) \o store
        ELSE IF dest # ""
        THEN OperandLoad(e, side.value, dest) \o <<<<"opi", ins.text, dest, side.imm>>>>
        ELSE OperandLoad(e, side.value, "rax") \o <<<<"opi", ins.text, "rax", side.imm>>>> \o store

\* binary_emit_binary_integer
EmitBinary(e, ins) ==
    LET side  == ImmediateSide(ins)
        store == DestinationStore(e, ins.dest, "rax")
    IN  IF ByPowerOfTwo(ins)
        THEN OperandLoad(e, ins.lhs, "rax") \o DividePowerOfTwo(ins.text, ins.rhs[2]) \o store
        ELSE IF side.found /\ (InPlaceOp(ins.text, side.imm) \/ ins.text \in CompareOps)
        THEN EmitImmediate(e, ins, side)
        ELSE OperandLoad(e, ins.rhs, "r10") \o OperandLoad(e, ins.lhs, "rax")
                \o (IF ins.text \in CompareOps THEN <<<<"cmp", "rax", "r10">>>> \o SetccRax(ins.text)
                    ELSE RaxOpR10(ins.text))
                \o store

\* emit_unary
EmitUnary(e, ins) ==
    OperandLoad(e, ins.lhs, "rax")
        \o (CASE ins.text = "!" -> <<<<"test", "rax", "rax">>, <<"setcc", "==">>>>
              [] ins.text = "+" -> <<>>
              [] OTHER -> <<<<"unary", ins.text, "rax">>>>)
        \o DestinationStore(e, ins.dest, "rax")

\* emit_rotate_add: dest = lhs + rhs, lhs = rhs, rhs = dest.
EmitRotateAdd(e, ins) ==
    LET next == RegisterOf(e, ins.dest)
        a    == RegisterOf(e, ins.lhs)
        b    == RegisterOf(e, ins.rhs)
    IN  IF next # "" /\ a # "" /\ b # ""
        THEN <<<<"leax", next, a, b, 1>>, <<"mov", a, b>>, <<"mov", b, next>>>>
        ELSE OperandLoad(e, ins.lhs, "rax")
                \o (IF b # "" THEN <<<<"leax", "rax", "rax", b, 1>>>>
                    ELSE OperandLoad(e, ins.rhs, "r10") \o <<<<"leax", "rax", "rax", "r10", 1>>>>)
                \o <<<<"mov", "r11", "rax">>>> \o DestinationStore(e, ins.dest, "r11")
                \o (IF a # "" /\ b # "" THEN <<<<"mov", a, b>>>>
                    ELSE OperandLoad(e, ins.rhs, "r10") \o DestinationStore(e, ins.lhs, "r10"))
                \o DestinationStore(e, ins.rhs, "r11")

----------------------------------------------------------------------------
(* Memory.                                                                 *)

StoreValue == "rcx"     \* BINARY_GP_STORE_VALUE

EmitAddressOf(e, ins) == AddressOfSymbol(e, ins.lhs, "rax") \o DestinationStore(e, ins.dest, "rax")

EmitLoad(e, ins) ==
    LET value   == InPlaceOr(e, ins.dest, "rax")
        address == InPlaceOr(e, ins.lhs, "rax")
    IN  LoadUnlessInPlace(e, ins.lhs, "rax") \o <<<<"ld", value, address, 0>>>>
            \o (IF value = "rax" THEN DestinationStore(e, ins.dest, "rax") ELSE <<>>)

EmitStore(e, ins) ==
    LET value   == InPlaceOr(e, ins.lhs, StoreValue)
        address == InPlaceOr(e, ins.dest, "rax")
    IN  LoadUnlessInPlace(e, ins.lhs, StoreValue) \o LoadUnlessInPlace(e, ins.dest, "rax")
            \o <<<<"st", address, 0, value>>>>

\* IR_OP_ASSIGN in emit_instruction
EmitAssign(e, ins) ==
    IF IsSym(ins.dest) /\ IsSym(ins.lhs) /\ ins.dest[2] \in DOMAIN e.ctx.aliases
          /\ e.ctx.aliases[ins.dest[2]] = ins.lhs[2]
    THEN <<>>
    ELSE IF IsTemp(ins.lhs) /\ ins.lhs[2] \in e.tagged /\ IsSym(ins.dest) /\ ClassOf(e.fn, ins.dest[2]) = "struct"
    THEN SlotLoad(e, ins.lhs, "rax") \o AddressOfSymbol(e, ins.dest, "rdx") \o RepMovsb("rax", "rdx")
    ELSE IF RegisterOf(e, ins.dest) # "" THEN OperandLoad(e, ins.lhs, RegisterOf(e, ins.dest))
    ELSE OperandLoad(e, ins.lhs, "rax") \o DestinationStore(e, ins.dest, "rax")

\* IR_OP_RETURN in emit_instruction
EmitReturn(e, ins) ==
    (IF e.fn.ret = "struct"
     THEN StructSource(e, ins.lhs, "rax") \o <<<<"ld", "rdx", "rbp", -8>>>> \o RepMovsb("rax", "rdx")
             \o <<<<"ld", "rax", "rbp", -8>>>>
     ELSE IF ins.lhs[1] = "none" THEN <<>> ELSE OperandLoad(e, ins.lhs, "rax"))
        \o <<<<"jmp", ReturnLabel>>>>

----------------------------------------------------------------------------
(* emit_call.                                                              *)

RECURSIVE Joined(_)
Joined(seqs) == IF seqs = <<>> THEN <<>> ELSE Head(seqs) \o Joined(Tail(seqs))

\* The copies of struct arguments lie at the bottom of the space made for the
\* call, the shadow space and the stack arguments above them.
StructArgs(sig) == {i \in 1 .. Len(sig.params) : sig.params[i] = "struct"}
TempRegion(sig) == AlignUp(StructBytes * Cardinality(StructArgs(sig)), 16)
TempAt(sig, i)  == StructBytes * Cardinality({j \in StructArgs(sig) : j < i})

OutgoingLayout(e, sig) == ComputeArgLayout(e.abi, HiddenFirst(sig))
\* Mutant: the space for a call not rounded up.
CallSpaceUnaligned(e, sig) == TempRegion(sig) + BinaryAbi(e.abi).shadow + OutgoingLayout(e, sig).bytes
CallSpace(e, sig) ==
    AlignUp(TempRegion(sig) + BinaryAbi(e.abi).shadow + OutgoingLayout(e, sig).bytes, 16)

CallCopies(e, ins, sig) ==
    Joined([i \in 1 .. Len(ins.args) |->
        IF i \notin StructArgs(sig) THEN <<>>
        ELSE StructSource(e, ins.args[i], "rax") \o <<<<"lea", "rdx", "rsp", TempAt(sig, i)>>>> \o RepMovsb("rax", "rdx")])

CallStackArgs(e, ins, sig) ==
    LET places == OutgoingLayout(e, sig).at
        at(i)  == places[i + Len(places) - Len(ins.args)]
    IN  Joined([i \in 1 .. Len(ins.args) |->
            IF at(i)[1] # "stack" THEN <<>>
            ELSE (IF i \in StructArgs(sig) THEN <<<<"lea", "rax", "rsp", TempAt(sig, i)>>>>
                  ELSE OperandLoad(e, ins.args[i], "rax"))
                 \o <<<<"st", "rsp", TempRegion(sig) + BinaryAbi(e.abi).shadow + at(i)[2], "rax">>>>])

ArgumentLoad(e, o, place) ==
    IF place[1] = "xmm" THEN OperandLoad(e, o, "rax") \o <<<<"toxmm", place[2], "rax">>>>
    ELSE OperandLoad(e, o, place[2])

CallRegisterArgs(e, ins, sig) ==
    LET places == OutgoingLayout(e, sig).at
        at(i)  == places[i + Len(places) - Len(ins.args)]
    IN  Joined([i \in 1 .. Len(ins.args) |->
            IF at(i)[1] = "stack" THEN <<>>
            ELSE IF i \in StructArgs(sig) THEN <<<<"lea", at(i)[2], "rsp", TempAt(sig, i)>>>>
            ELSE ArgumentLoad(e, ins.args[i], at(i))])

\* What becomes of the result; slot is the frame slot of a struct result.
CallResult(e, ins, sig, slot) ==
    IF sig.ret = "struct"
    THEN <<<<"lea", "rax", "rbp", -slot>>>>
            \o (IF IsSym(ins.dest) THEN AddressOfSymbol(e, ins.dest, "rdx") \o RepMovsb("rax", "rdx")
                ELSE DestinationStore(e, ins.dest, "rax"))
    ELSE (IF sig.ret = "float" THEN <<<<"fromxmm", "rax", "xmm0">>>> ELSE <<>>)
            \o DestinationStore(e, ins.dest, "rax")

\* The pointer to the result's slot goes in last, when the arguments are in place.
CallItself(e, ins, sig, slot) ==
    (IF sig.ret = "struct" THEN <<<<"lea", BinaryAbi(e.abi).out, "rbp", -slot>>>> ELSE <<>>) \o <<<<"call", ins.text>>>>

\* cursor numbers the struct results the function has taken so far.
EmitCall(e, ins, cursor) ==
    LET sig   == e.sigs[ins.text]
        space == CallSpace(e, sig)
        slot  == IF sig.ret = "struct" THEN e.ctx.results[cursor + 1] ELSE 0
        move(n) == IF n = 0 THEN <<>> ELSE <<<<"addsp", n>>>>
    IN  move(-space) \o CallCopies(e, ins, sig) \o CallStackArgs(e, ins, sig) \o CallRegisterArgs(e, ins, sig)
            \o CallItself(e, ins, sig, slot) \o move(space) \o CallResult(e, ins, sig, slot)

----------------------------------------------------------------------------
(* emit_instruction, except for labels, which emit nothing.                *)

EmitInstruction(e, ins, cursor) ==
    CASE ins.op \in {"nop", "label", "local"} -> <<>>
      [] ins.op = "jump"        -> <<<<"jmp", ins.label>>>>
      [] ins.op = "branch_zero" -> OperandLoad(e, ins.lhs, "rax")
                                      \o <<<<"test", "rax", "rax">>, <<"jcc", "==", ins.label>>>>
      [] ins.op = "branch_eq"   -> OperandLoad(e, ins.rhs, "r10") \o OperandLoad(e, ins.lhs, "rax")
                                      \o <<<<"cmp", "rax", "r10">>, <<"jcc", "==", ins.label>>>>
      [] ins.op = "assign"      -> EmitAssign(e, ins)
      [] ins.op = "address_of"  -> EmitAddressOf(e, ins)
      [] ins.op = "load"        -> EmitLoad(e, ins)
      [] ins.op = "store"       -> EmitStore(e, ins)
      [] ins.op = "binary"      -> EmitBinary(e, ins)
      [] ins.op = "unary"       -> EmitUnary(e, ins)
      [] ins.op = "rotate_add"  -> EmitRotateAdd(e, ins)
      [] ins.op = "call"        -> EmitCall(e, ins, cursor)
      [] ins.op = "return"      -> EmitReturn(e, ins)

----------------------------------------------------------------------------
(* emit_prologue and the end of emit_binary_function.                      *)

IncomingClasses(fn) ==
    (IF fn.ret = "struct" THEN <<"int">> ELSE <<>>) \o [i \in 1 .. Len(fn.params) |-> fn.params[i].class]

\* A parameter moves to its register or its slot, in the order of the list.
HomeParameter(e, i) ==
    LET fn    == e.fn
        name  == fn.params[i].name
        place == ComputeArgLayout(e.abi, IncomingClasses(fn)).at[i + Hidden(fn)]
        reg   == AssignedRegister(fn, e.ctx, name)
        via   == IF reg # "" THEN reg ELSE "rax"
        home  == IF reg # "" THEN <<>> ELSE <<<<"st", "rbp", -e.ctx.slots[name], "rax">>>>
    IN  CASE place[1] = "gp"    -> IF reg # "" THEN <<<<"mov", reg, place[2]>>>>
                                   ELSE <<<<"st", "rbp", -e.ctx.slots[name], place[2]>>>>
          [] place[1] = "xmm"   -> <<<<"fromxmm", via, place[2]>>>> \o home
          [] place[1] = "stack" -> <<<<"ld", via, "rbp", 16 + BinaryAbi(e.abi).shadow + place[2]>>>> \o home

EmitPrologue(e) ==
    <<<<"push", "rbp">>, <<"mov", "rbp", "rsp">>>>
        \o (IF e.ctx.frame = 0 THEN <<>> ELSE <<<<"addsp", -e.ctx.frame>>>>)
        \o [i \in 1 .. Len(e.ctx.saved) |-> <<"st", "rbp", -e.ctx.savedAt[i], e.ctx.saved[i]>>]
        \o (IF e.fn.ret = "struct" THEN <<<<"st", "rbp", -8, BinaryAbi(e.abi).out>>>> ELSE <<>>)
        \o Joined([i \in 1 .. Len(e.fn.params) |-> HomeParameter(e, i)])

EmitEpilogue(e) ==
    LET n == Len(e.ctx.saved)
    IN  [i \in 1 .. n |-> <<"ld", e.ctx.saved[n + 1 - i], "rbp", -e.ctx.savedAt[n + 1 - i]>>]
            \o (IF e.fn.ret = "float" THEN <<<<"toxmm", "xmm0", "rax">>>> ELSE <<>>)
            \o <<<<"mov", "rsp", "rbp">>, <<"pop", "rbp">>, <<"ret">>>>

----------------------------------------------------------------------------
(* Peepholes.  A match is how many instructions it takes, from i, and the  *)
(* code it emits for them; Declined takes none.                            *)

Declined == [taken |-> 0, code |-> <<>>]
Taken2(n, code) == [taken |-> n, code |-> code]

\* function_temp_use_count = 1: the one instruction that reads the temporary
\* is then the one the match joins it with, and it needs no slot.
TempUses(ins, t) ==
    AsBit(ins.lhs = t) + AsBit(ins.rhs = t) + AsBit(ins.op = "store" /\ ins.dest = t)
        + Cardinality({k \in 1 .. Len(ins.args) : ins.args[k] = t})
UsedOnce(code, t) ==
    /\ Cardinality({i \in 1 .. Len(code) : TempUses(code[i], t) # 0}) = 1
    /\ \A i \in 1 .. Len(code) : TempUses(code[i], t) <= 1

LabelRefs(code, l) == Cardinality({i \in 1 .. Len(code) : Transfers(code[i]) /\ code[i].label = l})

IsBinaryTo(ins, ops) == ins.op = "binary" /\ ins.text \in ops /\ IsTemp(ins.dest)

\* compare_false_jcc
FalseCondition(op) ==
    CASE op = "==" -> "!=" [] op = "!=" -> "==" [] op = "<" -> ">="
      [] op = "<=" -> ">" [] op = ">" -> "<=" [] op = ">=" -> "<"

\* emit_compare_flags; emit_compare_false_branch begins with the same code.
CompareFlags(e, cmp) ==
    IF Immediate(cmp.rhs)
    THEN LoadUnlessInPlace(e, cmp.lhs, "rax") \o <<<<"cmpi", InPlaceOr(e, cmp.lhs, "rax"), cmp.rhs[2]>>>>
    ELSE IF cmp.text \in {"==", "!="} /\ Immediate(cmp.lhs)
    THEN LoadUnlessInPlace(e, cmp.rhs, "rax") \o <<<<"cmpi", InPlaceOr(e, cmp.rhs, "rax"), cmp.lhs[2]>>>>
    ELSE LoadUnlessInPlace(e, cmp.rhs, "r10") \o LoadUnlessInPlace(e, cmp.lhs, "rax")
            \o <<<<"cmp", InPlaceOr(e, cmp.lhs, "rax"), InPlaceOr(e, cmp.rhs, "r10")>>>>

\* A shift left by 0 to 3 of something that is not a literal: a scaled index.
IsScale(ins) == IsBinaryTo(ins, {"<<"}) /\ IsLit(ins.rhs) /\ ins.rhs[2] \in 0 .. 3 /\ ~IsLit(ins.lhs)

\* emit_integer_binary_to_rax
ZeroProduct(op, v) == v = 0 /\ op \in {"*", "&"}
BinaryToRax(e, ins) ==
    LET side == ImmediateSide(ins) IN
    IF ByPowerOfTwo(ins) THEN OperandLoad(e, ins.lhs, "rax") \o DividePowerOfTwo(ins.text, ins.rhs[2])
    ELSE IF side.found /\ InPlaceOp(ins.text, side.imm)
    THEN IF ZeroProduct(ins.text, side.imm) THEN <<<<"imm", "rax", 0>>>>
         ELSE OperandLoad(e, side.value, "rax") \o <<<<"opi", ins.text, "rax", side.imm>>>>
    ELSE OperandLoad(e, ins.rhs, "r10") \o OperandLoad(e, ins.lhs, "rax") \o RaxOpR10(ins.text)

\* emit_rax_binary_rhs
RaxBinaryRhs(e, op, rhs) ==
    IF Immediate(rhs) /\ InPlaceOp(op, rhs[2])
    THEN IF ZeroProduct(op, rhs[2]) THEN <<<<"imm", "rax", 0>>>> ELSE <<<<"opi", op, "rax", rhs[2]>>>>
    ELSE OperandLoad(e, rhs, "r10") \o RaxOpR10(op)

\* try_emit_compare_branch_zero: cmp, branch.
CompareBranchZero(e, i) ==
    LET code == e.fn.code IN
    IF /\ i + 1 <= Len(code) /\ IsBinaryTo(code[i], CompareOps)
       /\ code[i + 1].op = "branch_zero" /\ code[i + 1].lhs = code[i].dest
       /\ UsedOnce(code, code[i].dest)
    THEN Taken2(2, CompareFlags(e, code[i]) \o <<<<"jcc", FalseCondition(code[i].text), code[i + 1].label>>>>)
    ELSE Declined

\* try_emit_and_mask_compare_false_branch: x & mask against zero is one test.
MaskTest(e, prod, cmp, other, label) ==
    LET side == ImmediateSide(prod) IN
    IF prod.text = "&" /\ cmp.text \in {"==", "!="} /\ other = Lit(0) /\ side.found
    THEN LoadUnlessInPlace(e, side.value, "rax")
            \o <<<<"testi", InPlaceOr(e, side.value, "rax"), side.imm>>, <<"jcc", FalseCondition(cmp.text), label>>>>
    ELSE <<>>

\* try_emit_binary_compare_branch_chain: arithmetic, cmp, branch.
CompareBranchChain(e, i) ==
    LET code  == e.fn.code
        prod  == code[i]
        cmp   == code[i + 1]
        branch == code[i + 2]
        left  == cmp.lhs = prod.dest
        other == IF left THEN cmp.rhs ELSE cmp.lhs
        mask  == MaskTest(e, prod, cmp, other, branch.label)
        against == IF Immediate(other) THEN <<<<"cmpi", "rax", other[2]>>>>
                   ELSE OperandLoad(e, other, "r10") \o <<<<"cmp", "rax", "r10">>>>
    IN  IF /\ i + 2 <= Len(code) /\ IsBinaryTo(prod, ArithmeticOps) /\ IsBinaryTo(cmp, CompareOps)
           /\ branch.op = "branch_zero" /\ branch.lhs = cmp.dest
           /\ UsedOnce(code, prod.dest) /\ UsedOnce(code, cmp.dest)
           /\ left \/ (cmp.text \in {"==", "!="} /\ cmp.rhs = prod.dest)
        THEN Taken2(3, IF mask # <<>> THEN mask
                       ELSE BinaryToRax(e, prod) \o against
                               \o <<<<"jcc", FalseCondition(cmp.text), branch.label>>>>)
        ELSE Declined

\* try_emit_compare_assign_diamond: a branch around one assignment becomes a
\* conditional move.  When one of the eight instructions before gave the
\* compared symbol the very temporary that is assigned, that is compared.
LookBack == 8
ComparedValue(code, i) ==
    LET cmp == code[i]
        assign == code[i + 2]
    IN  IF /\ IsSym(cmp.lhs) /\ IsTemp(assign.lhs) /\ IsSym(cmp.rhs) /\ i > LookBack
           /\ \E j \in i - LookBack .. i - 1 :
                 code[j].op = "assign" /\ code[j].dest = cmp.lhs /\ code[j].lhs = assign.lhs
        THEN assign.lhs ELSE cmp.lhs

CompareAssignDiamond(e, i) ==
    LET code == e.fn.code
        cmp  == code[i]
        assign == code[i + 2]
    IN  IF /\ i + 5 <= Len(code) /\ IsBinaryTo(cmp, CompareOps)
           /\ code[i + 1].op = "branch_zero" /\ code[i + 1].lhs = cmp.dest /\ UsedOnce(code, cmp.dest)
           /\ assign.op = "assign" /\ code[i + 3].op = "jump"
           /\ code[i + 4].op = "label" /\ code[i + 4].label = code[i + 1].label
           /\ code[i + 5].op = "label" /\ code[i + 5].label = code[i + 3].label
           /\ LabelRefs(code, code[i + 4].label) = 1 /\ LabelRefs(code, code[i + 5].label) = 1
        THEN Taken2(6, CompareFlags(e, [cmp EXCEPT !.lhs = ComparedValue(code, i)])
                          \o OperandLoad(e, assign.dest, "rax") \o OperandLoad(e, assign.lhs, "r10")
                          \o <<<<"cmov", cmp.text, "rax", "r10">>>> \o DestinationStore(e, assign.dest, "rax"))
        ELSE Declined

\* emit_scaled_address_to_rax
ScaledAddress(e, base, index, scale) ==
    OperandLoad(e, index, "r10") \o OperandLoad(e, base, "rax") \o <<<<"leax", "rax", "rax", "r10", scale>>>>

\* emit_address_add_to_rax
AddressAdd(e, add) ==
    IF Immediate(add.rhs) THEN OperandLoad(e, add.lhs, "rax") \o <<<<"opi", "+", "rax", add.rhs[2]>>>>
    ELSE IF Immediate(add.lhs) THEN OperandLoad(e, add.rhs, "rax") \o <<<<"opi", "+", "rax", add.lhs[2]>>>>
    ELSE OperandLoad(e, add.rhs, "r10") \o OperandLoad(e, add.lhs, "rax") \o <<<<"leax", "rax", "rax", "r10", 1>>>>

\* find_temp_producer_before
ProducersBefore(code, i, t) == {j \in 1 .. i - 1 : code[j].dest = t}
LastProducer(code, i, t) == CHOOSE j \in ProducersBefore(code, i, t) : \A k \in ProducersBefore(code, i, t) : k <= j

\* try_match_scaled_temp_address: the sum at i of a base and a scaled index
\* that an earlier shift computed.  The index must be a symbol: a temporary
\* may never have been stored.
ScaledOperand(code, i, o, other) ==
    /\ IsTemp(o) /\ ~IsLit(other) /\ ProducersBefore(code, i, o) # {}
    /\ IsScale(code[LastProducer(code, i, o)])

MatchScaledTemp(code, i) ==
    LET add  == code[i]
        side == IF ScaledOperand(code, i, add.lhs, add.rhs) THEN <<add.lhs, add.rhs>>
                ELSE IF ScaledOperand(code, i, add.rhs, add.lhs) THEN <<add.rhs, add.lhs>> ELSE <<>>
        shift == code[LastProducer(code, i, side[1])]
    IN  IF side # <<>> /\ IsSym(shift.lhs)
        THEN [found |-> TRUE, base |-> side[2], index |-> shift.lhs, scale |-> 2 ^ shift.rhs[2]]
        ELSE [found |-> FALSE]

AddressToRax(e, i) ==
    LET match == MatchScaledTemp(e.fn.code, i)
    IN  IF match.found THEN ScaledAddress(e, match.base, match.index, match.scale)
        ELSE AddressAdd(e, e.fn.code[i])

\* A sum that only the load or store right after it uses, as its address.
FeedsMemory(code, i) ==
    /\ i + 1 <= Len(code) /\ IsBinaryTo(code[i], {"+"}) /\ UsedOnce(code, code[i].dest)
    /\ \/ code[i + 1].op = "load" /\ code[i + 1].lhs = code[i].dest
       \/ code[i + 1].op = "store" /\ code[i + 1].dest = code[i].dest

\* The access through the address that the given code leaves in rax.
AccessThrough(e, mem, address) ==
    IF mem.op = "load"
    THEN address \o <<<<"ld", "rax", "rax", 0>>>> \o DestinationStore(e, mem.dest, "rax")
    ELSE OperandLoad(e, mem.lhs, StoreValue) \o address \o <<<<"st", "rax", 0, StoreValue>>>>

\* try_emit_address_add_load and try_emit_address_add_store: add, memory.
AddressAddMemory(e, i) ==
    IF FeedsMemory(e.fn.code, i) THEN Taken2(2, AccessThrough(e, e.fn.code[i + 1], AddressToRax(e, i)))
    ELSE Declined

\* try_match_scaled_address with try_emit_scaled_address_load and _store:
\* shift, add, memory.
ScaledAddressMemory(e, i) ==
    LET code == e.fn.code
        shift == code[i]
        add  == code[i + 1]
        base == IF add.lhs = shift.dest THEN add.rhs ELSE add.lhs
    IN  IF /\ i + 2 <= Len(code) /\ IsScale(shift) /\ UsedOnce(code, shift.dest)
           /\ FeedsMemory(code, i + 1) /\ shift.dest \in {add.lhs, add.rhs} /\ ~IsLit(base)
        THEN Taken2(3, AccessThrough(e, code[i + 2], ScaledAddress(e, base, shift.lhs, 2 ^ shift.rhs[2])))
        ELSE Declined

\* shift_only_feeds_scaled_addresses: every use will compute the index again.
SkipScaledShift(e, i) ==
    LET code == e.fn.code
        uses == {j \in 1 .. Len(code) : TempUses(code[j], code[i].dest) # 0}
    IN  IF /\ IsScale(code[i]) /\ IsSym(code[i].lhs) /\ uses # {}
           /\ \A j \in uses : FeedsMemory(code, j) /\ ~IsLit(code[j].lhs) /\ ~IsLit(code[j].rhs)
        THEN Taken2(1, <<>>) ELSE Declined

\* try_emit_binary_expression_chain: the first result stays in rax.
ExpressionChain(e, i) ==
    LET code == e.fn.code
        prod == code[i]
        cons == code[i + 1]
        left == cons.lhs = prod.dest
    IN  IF /\ i + 1 <= Len(code) /\ IsBinaryTo(prod, ArithmeticOps) /\ UsedOnce(code, prod.dest)
           /\ cons.op = "binary" /\ cons.text \in ArithmeticOps
           /\ left \/ (cons.text \in Commutative /\ cons.rhs = prod.dest)
        THEN Taken2(2, BinaryToRax(e, prod) \o RaxBinaryRhs(e, cons.text, IF left THEN cons.rhs ELSE cons.lhs)
                          \o DestinationStore(e, cons.dest, "rax"))
        ELSE Declined

\* The order in which emit_binary_function tries them.
Peepholes(e, i) ==
    LET matches == <<SkipScaledShift(e, i), CompareBranchChain(e, i), CompareAssignDiamond(e, i),
                     AddressAddMemory(e, i), ScaledAddressMemory(e, i), ExpressionChain(e, i),
                     CompareBranchZero(e, i)>>
        hits == {k \in 1 .. Len(matches) : matches[k].taken > 0}
    IN  IF hits = {} THEN Declined ELSE matches[CHOOSE k \in hits : \A j \in hits : k <= j]
=============================================================================
