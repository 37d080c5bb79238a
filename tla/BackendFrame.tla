---------------------------- MODULE BackendFrame ----------------------------
(***************************************************************************)
(* Where the binary backend keeps the values of a function                 *)
(* (codegen/binary/abi.c and abi_spec.c): the convention's argument        *)
(* layout, the slots of the stack frame, the locals that share another     *)
(* symbol's place, and the symbols that live in a register instead.        *)
(*                                                                         *)
(* A function is a record: params, a sequence of [name, class]; ret, the   *)
(* class of its result; code, its IR, in which op "local" declares the     *)
(* symbol dest with the class text.  The classes are "int" (any scalar or  *)
(* pointer), "float", "struct" (16 bytes, passed by pointer), and for      *)
(* locals "array" (16 bytes), "record12" (aligned to 4) and "bytes3".      *)
(***************************************************************************)
EXTENDS X86

----------------------------------------------------------------------------
(* The argument layout.                                                    *)

\* select_abi and the two BinaryAbi tables.
BinaryAbi(abi) ==
    IF abi = "ms"
    THEN [ints |-> <<"rcx", "rdx", "r8", "r9">>, floats |-> <<"xmm0", "xmm1", "xmm2", "xmm3">>,
          shadow |-> 32, out |-> "rcx", separate |-> FALSE]
    ELSE [ints |-> <<"rdi", "rsi", "rdx", "rcx", "r8", "r9">>,
          floats |-> <<"xmm0", "xmm1", "xmm2", "xmm3", "xmm4", "xmm5", "xmm6", "xmm7">>,
          shadow |-> 0, out |-> "rdi", separate |-> TRUE]

\* The loop of compute_arg_layout from argument i: used counts the integer
\* and the float registers taken, cursor the stack bytes.  The shared
\* sequence of the Windows convention takes both counters forward at once.
RECURSIVE LayoutFrom(_, _, _, _, _)
LayoutFrom(conv, floats, i, used, cursor) ==
    IF i > Len(floats) THEN [at |-> <<>>, bytes |-> cursor]
    ELSE LET file  == IF floats[i] THEN conv.floats ELSE conv.ints
             taken == used[floats[i]]
             inReg == taken < Len(file)
             place == IF inReg THEN <<IF floats[i] THEN "xmm" ELSE "gp", file[taken + 1]>>
                      ELSE <<"stack", cursor>>
             rest  == LayoutFrom(conv, floats, i + 1,
                          IF conv.separate THEN [used EXCEPT ![floats[i]] = @ + 1]
                          ELSE [b \in BOOLEAN |-> used[b] + 1],
                          IF inReg THEN cursor ELSE cursor + 8)
         IN  [at |-> <<place>> \o rest.at, bytes |-> rest.bytes]

ComputeArgLayout(abi, classes) ==
    LayoutFrom(BinaryAbi(abi), [i \in 1 .. Len(classes) |-> classes[i] = "float"],
               1, [b \in BOOLEAN |-> 0], 0)

----------------------------------------------------------------------------
(* Facts about the code.                                                   *)

AlignUp(n, a) == ((n + a - 1) \div a) * a
NamesOf(seq)  == {seq[i] : i \in 1 .. Len(seq)}

Params(fn)     == [i \in 1 .. Len(fn.params) |-> fn.params[i].name]
Declared(fn)   == SelectSeq(fn.code, LAMBDA ins : ins.op = "local")
ClassOf(fn, s) ==
    IF s \in NamesOf(Params(fn))
    THEN fn.params[CHOOSE i \in 1 .. Len(fn.params) : fn.params[i].name = s].class
    ELSE IF \E i \in 1 .. Len(fn.code) : fn.code[i].op = "local" /\ fn.code[i].dest = Sym(s)
    THEN fn.code[CHOOSE i \in 1 .. Len(fn.code) : fn.code[i].op = "local" /\ fn.code[i].dest = Sym(s)].text
    ELSE "int"

SizeOf(class)  == CASE class \in {"int", "float"} -> 8 [] class = "record12" -> 12
                    [] class = "bytes3" -> 3 [] OTHER -> 16
AlignOf(class) == CASE class = "record12" -> 4 [] class = "bytes3" -> 1 [] OTHER -> 8

AddressTaken(code) ==
    {code[i].lhs[2] : i \in {j \in 1 .. Len(code) : code[j].op = "address_of" /\ IsSym(code[j].lhs)}}

\* instruction_writes_dest
WritesDest(ins) == ins.op \notin {"nop", "label", "jump", "branch_zero", "branch_eq", "local"}

\* symbol_write_count
WriteCount(code, s) == Cardinality({i \in 1 .. Len(code) : WritesDest(code[i]) /\ code[i].dest = Sym(s)})

----------------------------------------------------------------------------
(* Slots: offsets below rbp.                                               *)

Hidden(fn)    == IF fn.ret = "struct" THEN 1 ELSE 0
ParamHome(fn) == 8 * (Len(fn.params) + Hidden(fn))
ParamSlots(fn) ==
    [s \in NamesOf(Params(fn)) |-> 8 * ((CHOOSE i \in 1 .. Len(fn.params) : fn.params[i].name = s) + Hidden(fn))]

\* The locals in the order of their declarations: <<slots, bytes in all>>.
\* A second declaration of a name keeps the first one's slot.
RECURSIVE LocalSlotsFrom(_, _, _, _)
LocalSlotsFrom(fn, decls, slots, total) ==
    IF decls = <<>> THEN [slots |-> slots, total |-> total]
    ELSE LET d   == Head(decls)
             end == AlignUp(total, AlignOf(d.text)) + SizeOf(d.text)
         IN  IF d.dest[2] \in DOMAIN slots THEN LocalSlotsFrom(fn, Tail(decls), slots, total)
             ELSE LocalSlotsFrom(fn, Tail(decls), (d.dest[2] :> ParamHome(fn) + end) @@ slots, end)

LocalSlots(fn) == LocalSlotsFrom(fn, Declared(fn), <<>>, 0)

\* Mutant: the temporaries numbered from zero.
TempSlotsFromZero(fn, localTotal) ==
    LET code == fn.code
        temps == {code[i].dest[2] : i \in {j \in 1 .. Len(code) : IsTemp(code[j].dest)}}
        first(t) == CHOOSE i \in 1 .. Len(code) :
                        code[i].dest = Temp(t) /\ \A j \in 1 .. i - 1 : code[j].dest # Temp(t)
    IN  [t \in temps |-> ParamHome(fn) + localTotal + 8 * Cardinality({u \in temps : first(u) < first(t)})]

\* A temporary's slot: one word each, in the order of the first writes.
TempSlots(fn, localTotal) ==
    LET code == fn.code
        temps == {code[i].dest[2] : i \in {j \in 1 .. Len(code) : IsTemp(code[j].dest)}}
        first(t) == CHOOSE i \in 1 .. Len(code) :
                        code[i].dest = Temp(t) /\ \A j \in 1 .. i - 1 : code[j].dest # Temp(t)
    IN  [t \in temps |-> ParamHome(fn) + localTotal + 8 * Cardinality({u \in temps : first(u) <= first(t)})]

----------------------------------------------------------------------------
(* collect_symbol_aliases: a local written once, from a symbol written     *)
(* once, is not stored at all and reads the other symbol.                  *)

AliasOf(fn, slots, aliases, ins) ==
    /\ ins.op = "assign" /\ IsSym(ins.dest) /\ IsSym(ins.lhs) /\ ins.dest # ins.lhs
    /\ ins.dest[2] \in DOMAIN LocalSlots(fn).slots
    /\ ins.lhs[2] \in slots
    /\ WriteCount(fn.code, ins.dest[2]) = 1
    /\ WriteCount(fn.code, ins.lhs[2]) = 1
    /\ {ins.dest[2], ins.lhs[2]} \cap AddressTaken(fn.code) = {}
    /\ ins.lhs[2] \notin DOMAIN aliases
    /\ ClassOf(fn, ins.dest[2]) = "int" /\ ClassOf(fn, ins.lhs[2]) = "int"

RECURSIVE CollectAliases(_, _, _, _)
CollectAliases(fn, slots, i, aliases) ==
    IF i > Len(fn.code) THEN aliases
    ELSE CollectAliases(fn, slots, i + 1,
            IF AliasOf(fn, slots, aliases, fn.code[i])
            THEN (fn.code[i].dest[2] :> fn.code[i].lhs[2]) @@ aliases ELSE aliases)

----------------------------------------------------------------------------
(* promote_hot_symbols.                                                    *)

\* build_loop_weights: 4 to the number of loops around an instruction, a
\* loop being a jump back to the first label of its name; at most 4^10.
MaxDepth == 10
Loops(code) ==
    {<<Target(code, code[j].label), j>> :
        j \in {k \in 1 .. Len(code) : code[k].op = "jump" /\ HasLabel(code, code[k].label)}}
LoopWeight(loops, i) ==
    LET around == Cardinality({l \in loops : l[1] < l[2] /\ l[1] <= i /\ i <= l[2]})
    IN  4 ^ (IF around < MaxDepth THEN around ELSE MaxDepth)

\* function_symbol_score: the weighted mentions of the symbol and its aliases.
MentionCount(aliases, ins, s) ==
    LET is(o) == IsSym(o) /\ (o[2] = s \/ (o[2] \in DOMAIN aliases /\ aliases[o[2]] = s))
    IN  AsBit(is(ins.dest)) + AsBit(is(ins.lhs)) + AsBit(is(ins.rhs))
            + Cardinality({k \in 1 .. Len(ins.args) : is(ins.args[k])})

RECURSIVE ScoreFrom(_, _, _, _, _)
ScoreFrom(code, loops, aliases, s, i) ==
    IF i > Len(code) THEN 0
    ELSE LoopWeight(loops, i) * MentionCount(aliases, code[i], s) + ScoreFrom(code, loops, aliases, s, i + 1)
\* (Twice that for the __ptr_ names of the pointer loops, which IRPasses leaves out.)
SymbolScore(code, aliases, s) == ScoreFrom(code, Loops(code), aliases, s, 1)

PromotionRegisters == <<"r12", "r13", "r14", "r15", "rbx", "rsi", "rdi">>

HasCalls(code) == \E i \in 1 .. Len(code) : code[i].op = "call"

\* function_can_promote_rsi_rdi: not where a struct is copied for a call or
\* a result, for the copy uses both registers.  (Of what else forbids it,
\* strings, new, calls through a pointer and assembly, the code has nothing.)
CanPromoteRsiRdi(fn, sigs) ==
    /\ fn.ret # "struct"
    /\ \A i \in 1 .. Len(fn.code) : fn.code[i].op = "call" =>
          "struct" \notin {sigs[fn.code[i].text].ret} \cup NamesOf(sigs[fn.code[i].text].params)

\* The symbols of the first phase, in the order met: those a rotation moves
\* and those that step by one or four.
Steps14 == {1, -1, 4, -4}
FirstPhase(ins) ==
    IF ins.op = "rotate_add" THEN <<ins.dest[2], ins.lhs[2], ins.rhs[2]>>
    ELSE IF /\ ins.op = "binary" /\ ins.text = "+" /\ IsSym(ins.dest) /\ ins.lhs = ins.dest
            /\ IsLit(ins.rhs) /\ ins.rhs[2] \in Steps14
         THEN <<ins.dest[2]>> ELSE <<>>

RECURSIVE FirstPhaseAll(_)
FirstPhaseAll(code) == IF code = <<>> THEN <<>> ELSE FirstPhase(Head(code)) \o FirstPhaseAll(Tail(code))

\* Gives the next registers to the names that may have one.
RECURSIVE PromoteFirst(_, _, _, _)
PromoteFirst(names, barred, max, regs) ==
    IF names = <<>> \/ Cardinality(DOMAIN regs) >= max THEN regs
    ELSE PromoteFirst(Tail(names), barred, max,
            IF Head(names) \in barred \cup DOMAIN regs THEN regs
            ELSE (Head(names) :> PromotionRegisters[Cardinality(DOMAIN regs) + 1]) @@ regs)

\* The hottest of the names, the first of equals; "" when none is mentioned twice.
Hottest(fn, aliases, names) ==
    LET heat == {<<SymbolScore(fn.code, aliases, names[i]), i>> : i \in 1 .. Len(names)}
        warm == {h \in heat : h[1] >= 2}
    IN  IF warm = {} THEN ""
        ELSE names[(CHOOSE h \in warm : \A k \in warm : k[1] < h[1] \/ (k[1] = h[1] /\ h[2] <= k[2]))[2]]

\* The second phase: the parameters by heat, then the locals.
RECURSIVE PromoteHot(_, _, _, _, _)
PromoteHot(fn, aliases, barred, max, regs) ==
    LET free(s) == s \notin barred \cup DOMAIN regs /\ ClassOf(fn, s) = "int"
        locals == [i \in 1 .. Len(Declared(fn)) |-> Declared(fn)[i].dest[2]]
        param == Hottest(fn, aliases, SelectSeq(Params(fn), free))
        best  == IF param # "" THEN param ELSE Hottest(fn, aliases, SelectSeq(locals, free))
    IN  IF Cardinality(DOMAIN regs) >= max \/ best = "" THEN regs
        ELSE PromoteHot(fn, aliases, barred, max,
                (best :> PromotionRegisters[Cardinality(DOMAIN regs) + 1]) @@ regs)

Promote(fn, sigs, aliases) ==
    LET max    == IF CanPromoteRsiRdi(fn, sigs) THEN 7 ELSE 5
        barred == AddressTaken(fn.code) \cup DOMAIN aliases
    IN  PromoteHot(fn, aliases, barred, max,
            IF HasCalls(fn.code) THEN <<>> ELSE PromoteFirst(FirstPhaseAll(fn.code), barred, max, <<>>))

----------------------------------------------------------------------------
(* prepare_function_context.                                               *)

\* The calls whose result comes back through a slot of this frame.
StructCalls(fn, sigs) ==
    {i \in 1 .. Len(fn.code) : fn.code[i].op = "call" /\ sigs[fn.code[i].text].ret = "struct"}

FunctionContext(fn, sigs) ==
    LET params  == ParamSlots(fn)
        local   == LocalSlots(fn)
        temps   == TempSlots(fn, local.total)
        aliases == CollectAliases(fn, DOMAIN params \cup DOMAIN local.slots, 1, <<>>)
        regs    == Promote(fn, sigs, aliases)
        above   == ParamHome(fn) + AlignUp(local.total, 8) + 8 * Cardinality(DOMAIN temps)
        calls   == Cardinality(StructCalls(fn, sigs))
        saved   == SubSeq(PromotionRegisters, 1, Cardinality(DOMAIN regs))
    IN  [slots   |-> params @@ local.slots, params |-> DOMAIN params, temps |-> temps,
         aliases |-> aliases, regs |-> regs, saved |-> saved,
         savedAt |-> [i \in 1 .. Len(saved) |-> above + 16 * calls + 8 * i],
         results |-> [i \in 1 .. calls |-> above + 16 * i],
         frame   |-> AlignUp(above + 16 * calls + 8 * Len(saved), 16)]

\* symbol_assigned_register: "" unless the symbol has a slot, which it then
\* does not use, and is an integer whose address nobody takes.  (The registers
\* of the other code generator, is_in_register, are never set here.)
AssignedRegister(fn, ctx, s) ==
    IF s \in DOMAIN ctx.regs /\ s \in DOMAIN ctx.slots /\ ClassOf(fn, s) = "int"
          /\ s \notin AddressTaken(fn.code)
    THEN ctx.regs[s] ELSE ""
=============================================================================
