------------------------------ MODULE Backend ------------------------------
(***************************************************************************)
(* The binary backend compiling one function                               *)
(* (emit_binary_function in codegen/binary/driver.c): it lays out the      *)
(* frame, emits the prologue, walks the IR trying the peepholes at every   *)
(* instruction, emits the epilogue and resolves the jumps.  The machine    *)
(* code is held against what the IR means, run by a caller that keeps to   *)
(* the platform's convention.                                              *)
(***************************************************************************)
EXTENDS BackendEmit

CONSTANTS
    Functions,      \* the functions compiled
    Signatures,     \* of what they call: name |-> [params, ret, foreign]
    ArgWords,       \* the words passed for a parameter
    GlobalWords     \* the values of g at the call

VARIABLES
    fn,         \* the function
    abi,        \* the convention of the object format
    phase,      \* "start", "prologue", "body", "end", "resolve", "done" or "failed"
    ctx,        \* BinaryFunctionContext: where the values live
    next,       \* the next IR instruction
    code,       \* the machine code
    labels,     \* labels: where each defined label is in the code
    tagged,     \* the temporaries that hold a pointer to a struct
    cursor,     \* indirect_return_slot_cursor
    returnAt    \* return_offset

vars_ == <<fn, abi, phase, ctx, next, code, labels, tagged, cursor, returnAt>>

Env == [fn |-> fn, ctx |-> ctx, abi |-> abi, sigs |-> Signatures, tagged |-> tagged]

Init ==
    /\ fn \in Functions
    /\ abi \in {"ms", "sysv"}
    /\ phase = "start"
    /\ ctx = <<>> /\ next = 1 /\ code = <<>> /\ labels = <<>>
    /\ tagged = {} /\ cursor = 0 /\ returnAt = 0

Prepare ==
    /\ phase = "start"
    /\ ctx' = FunctionContext(fn, Signatures)
    /\ phase' = "prologue"
    /\ UNCHANGED <<fn, abi, next, code, labels, tagged, cursor, returnAt>>

Prologue ==
    /\ phase = "prologue"
    /\ code' = EmitPrologue(Env)
    /\ phase' = "body"
    /\ UNCHANGED <<fn, abi, ctx, next, labels, tagged, cursor, returnAt>>

\* A peephole takes several instructions at once, the labels of a diamond
\* among them: nothing jumps to those any more, and they are not defined.
EmitTogether ==
    /\ phase = "body" /\ next <= Len(fn.code)
    /\ LET match == Peepholes(Env, next)
       IN  /\ match.taken > 0
           /\ code' = code \o match.code
           /\ next' = next + match.taken
    /\ UNCHANGED <<fn, abi, phase, ctx, labels, tagged, cursor, returnAt>>

\* A label is defined where the code stands; a second definition is an error.
DefineLabel ==
    /\ phase = "body" /\ next <= Len(fn.code) /\ fn.code[next].op = "label"
    /\ IF fn.code[next].label \in DOMAIN labels
       THEN phase' = "failed" /\ UNCHANGED <<labels, next>>
       ELSE /\ labels' = (fn.code[next].label :> Len(code) + 1) @@ labels
            /\ next' = next + 1
            /\ UNCHANGED phase
    /\ UNCHANGED <<fn, abi, ctx, code, tagged, cursor, returnAt>>

StructResult(ins) == ins.op = "call" /\ Signatures[ins.text].ret = "struct"

EmitOne ==
    /\ phase = "body" /\ next <= Len(fn.code) /\ fn.code[next].op # "label"
    /\ Peepholes(Env, next).taken = 0
    /\ LET ins == fn.code[next]
       IN  /\ code' = code \o EmitInstruction(Env, ins, cursor)
           /\ cursor' = IF StructResult(ins) THEN cursor + 1 ELSE cursor
           /\ tagged' = IF StructResult(ins) /\ IsTemp(ins.dest) THEN tagged \cup {ins.dest[2]} ELSE tagged
    /\ next' = next + 1
    /\ UNCHANGED <<fn, abi, phase, ctx, labels, returnAt>>

Epilogue ==
    /\ phase = "body" /\ next > Len(fn.code)
    /\ returnAt' = Len(code) + 1
    /\ code' = code \o EmitEpilogue(Env)
    /\ phase' = "resolve"
    /\ UNCHANGED <<fn, abi, ctx, next, labels, tagged, cursor>>

\* resolve_fixups: every jump gets the place of its label, or that of the
\* epilogue; a label nobody defined is an error.
JumpLabels(c) == {c[i][Len(c[i])] : i \in {j \in 1 .. Len(c) : c[j][1] \in {"jmp", "jcc"}}}
Patched(c, at, ret) ==
    [i \in 1 .. Len(c) |->
        IF c[i][1] \notin {"jmp", "jcc"} THEN c[i]
        ELSE [c[i] EXCEPT ![Len(c[i])] = IF @ = ReturnLabel THEN ret ELSE at[@]]]

ResolveFixups ==
    /\ phase = "resolve"
    /\ IF JumpLabels(code) \ {ReturnLabel} \subseteq DOMAIN labels
       THEN phase' = "done" /\ code' = Patched(code, labels, returnAt)
       ELSE phase' = "failed" /\ UNCHANGED code
    /\ UNCHANGED <<fn, abi, ctx, next, labels, tagged, cursor, returnAt>>

Next ==
    \/ Prepare
    \/ Prologue
    \/ EmitTogether
    \/ DefineLabel
    \/ EmitOne
    \/ Epilogue
    \/ ResolveFixups

Spec == Init /\ [][Next]_vars_

----------------------------------------------------------------------------
(* What the IR means: the symbols are places of their own in memory, a     *)
(* value is one word or, of a struct, two.                                 *)

Homes(f) ==
    LET names == Params(f) \o [i \in 1 .. Len(Declared(f)) |-> Declared(f)[i].dest[2]]
    IN  [s \in NamesOf(names) |-> 1000 + 32 * (CHOOSE i \in 1 .. Len(names) : names[i] = s)]
HomeOf(f, s) == IF s = "g" THEN GlobalAt ELSE Homes(f)[s]

Words(f, s) == IF ClassOf(f, s) = "struct" THEN 2 ELSE 1

\* The words of an operand, or <<>> when it has no value yet.
IRValue(f, m, o) ==
    IF o[1] = "none" THEN <<0>>
    ELSE IF IsLit(o) THEN <<o[2]>>
    ELSE IF IsTemp(o) THEN (IF o[2] \in DOMAIN m.tmp THEN m.tmp[o[2]] ELSE <<>>)
    ELSE LET cells == [k \in 1 .. Words(f, o[2]) |-> HomeOf(f, o[2]) + 8 * (k - 1)]
         IN  IF NamesOf(cells) \subseteq DOMAIN m.mem THEN [k \in 1 .. Len(cells) |-> m.mem[cells[k]]] ELSE <<>>

IRStore(mem, at, words) ==
    [k \in {at + 8 * (j - 1) : j \in 1 .. Len(words)} |-> words[((k - at) \div 8) + 1]] @@ mem

IRWritten(f, m, o, words) ==
    IF o[1] = "none" THEN m
    ELSE IF IsTemp(o) THEN [m EXCEPT !.tmp = (o[2] :> words) @@ @]
    ELSE [m EXCEPT !.mem = IRStore(@, HomeOf(f, o[2]), words)]

\* The words a pointer may go to: those of the symbols and g.
Pointable(f) == {GlobalAt} \cup {Homes(f)[s] : s \in DOMAIN Homes(f)}
                    \cup {Homes(f)[s] + 8 : s \in {z \in DOMAIN Homes(f) : SizeOf(ClassOf(f, z)) = 16}}

IRUndefined(f, m, ins) ==
    LET first(o) == IRValue(f, m, o)[1]
        read == Reads(ins) \ (IF ins.op = "address_of" THEN {ins.lhs} ELSE {})
    IN  \/ \E o \in read : IRValue(f, m, o) = <<>>
        \/ ins.op = "binary" /\ ~Defined(ins.text, first(ins.lhs), first(ins.rhs))
        \/ ins.op = "load" /\ first(ins.lhs) \notin DOMAIN m.mem
        \/ ins.op = "store" /\ first(ins.dest) \notin Pointable(f)

\* A call tells the world its arguments and g, changes g, and returns what g was.
IRCall(f, m, ins) ==
    LET g == m.mem[GlobalAt]
        told == [m EXCEPT !.mem = IRStore(@, GlobalAt, <<Wrap(g + 1)>>),
                          !.out = Append(@, <<ins.text, [k \in 1 .. Len(ins.args) |-> IRValue(f, m, ins.args[k])], g>>)]
    IN  IRWritten(f, told, ins.dest, IF StructResult(ins) THEN <<g, Wrap(g + 1)>> ELSE <<g>>)

IREffect(f, m, ins) ==
    LET value(o) == IRValue(f, m, o)
        give(words) == IRWritten(f, m, ins.dest, words)
    IN  CASE ins.op = "assign"     -> give(value(ins.lhs))
          [] ins.op = "binary"     -> give(<<Machine(ins.text, value(ins.lhs)[1], value(ins.rhs)[1])>>)
          [] ins.op = "unary"      -> give(<<MachineUnary(ins.text, value(ins.lhs)[1])>>)
          [] ins.op = "address_of" -> give(<<HomeOf(f, ins.lhs[2])>>)
          [] ins.op = "load"       -> give(<<m.mem[value(ins.lhs)[1]]>>)
          [] ins.op = "store"      -> [m EXCEPT !.mem = IRStore(@, value(ins.dest)[1], value(ins.lhs))]
          [] ins.op = "call"       -> IRCall(f, m, ins)
          [] ins.op = "rotate_add" ->
                LET sum == <<Machine("+", value(ins.lhs)[1], value(ins.rhs)[1])>>
                IN  IRWritten(f, IRWritten(f, IRWritten(f, m, ins.dest, sum), ins.lhs, value(ins.rhs)), ins.rhs, sum)

IREnd(kind, m, words) == [kind |-> kind, out |-> m.out, value |-> words, g |-> m.mem[GlobalAt]]

RECURSIVE IRSteps(_, _, _, _)
IRSteps(f, m, pc, fuel) ==
    IF fuel = 0 THEN IREnd("diverges", m, <<>>)
    ELSE IF pc > Len(f.code) THEN IREnd("falls off", m, <<>>)
    ELSE LET ins == f.code[pc]
             goes == \/ ins.op = "jump"
                     \/ ins.op = "branch_zero" /\ IRValue(f, m, ins.lhs) = <<0>>
                     \/ ins.op = "branch_eq" /\ IRValue(f, m, ins.lhs) = IRValue(f, m, ins.rhs)
         IN  IF ins.op \in {"nop", "label", "local"} THEN IRSteps(f, m, pc + 1, fuel)
             ELSE IF IRUndefined(f, m, ins) THEN IREnd("undefined", m, <<>>)
             ELSE IF ins.op = "return" THEN IREnd("returns", m, IRValue(f, m, ins.lhs))
             ELSE IF Transfers(ins)
                  THEN IRSteps(f, m, IF goes THEN Target(f.code, ins.label) ELSE pc + 1, fuel - 1)
             ELSE IRSteps(f, IREffect(f, m, ins), pc + 1, fuel - 1)

RECURSIVE IREntry(_, _, _, _)
IREntry(f, args, i, mem) ==
    IF i > Len(args) THEN mem
    ELSE IREntry(f, args, i + 1, IRStore(mem, HomeOf(f, f.params[i].name), args[i]))

IROutcome(f, args, g) ==
    IRSteps(f, [mem |-> IREntry(f, args, 1, (GlobalAt :> g)), tmp |-> <<>>, out |-> <<>>], 1, Fuel)

----------------------------------------------------------------------------
(* Functions the backend is known to miscompile, by cause.  They are kept  *)
(* out of CompiledMeansIR so that it says something about all the others.  *)

RECURSIVE ReachedFrom(_, _)
ReachedFrom(f, S) ==
    LET more == S \cup UNION {Successors(f, i) : i \in S}
    IN  IF more = S THEN S ELSE ReachedFrom(f, more)

WritesSymbol(ins, s) ==
    \/ WritesDest(ins) /\ ins.dest = Sym(s)
    \/ ins.op = "rotate_add" /\ Sym(s) \in {ins.lhs, ins.rhs}

\* The symbol an alias stands for changes after the copy, or the alias itself
\* is written by a rotation, which symbol_write_count does not see.
StaleAlias ==
    \E w \in DOMAIN ctx.aliases :
        LET copy == CHOOSE i \in 1 .. Len(fn.code) :
                        fn.code[i].op = "assign" /\ fn.code[i].dest = Sym(w)
        IN  \/ \E i \in ReachedFrom(fn.code, Successors(fn.code, copy)) : WritesSymbol(fn.code[i], ctx.aliases[w])
            \/ \E i \in 1 .. Len(fn.code) : i # copy /\ WritesSymbol(fn.code[i], w)

\* The copies of struct arguments lie where the callee expects the shadow
\* space and the stack arguments.
StructTempsShift ==
    \E i \in 1 .. Len(fn.code) : fn.code[i].op = "call" /\
        LET sig == Signatures[fn.code[i].text]
        IN  StructArgs(sig) # {} /\ (OutgoingLayout(Env, sig).bytes > 0 \/ (abi = "ms" /\ sig.foreign))

\* rsi and rdi belong to the callee on System V, and carry its first two
\* arguments, but are given out as if they were kept.
VolatilePromotion ==
    /\ abi = "sysv"
    /\ \E s \in DOMAIN ctx.regs : ctx.regs[s] \in {"rsi", "rdi"} /\ (HasCalls(fn.code) \/ s \in ctx.params)

\* The compare of a diamond reads the temporary its symbol was copied from,
\* although the symbol or the temporary was written since.
StaleComparison ==
    \E i \in LookBack + 1 .. Len(fn.code) - 5 :
        /\ CompareAssignDiamond(Env, i).taken > 0
        /\ ComparedValue(fn.code, i) # fn.code[i].lhs
        /\ LET source == ComparedValue(fn.code, i)
               copy == CHOOSE j \in i - LookBack .. i - 1 :
                          /\ fn.code[j].op = "assign" /\ fn.code[j].dest = fn.code[i].lhs /\ fn.code[j].lhs = source
                          /\ \A k \in j + 1 .. i - 1 : fn.code[k] # fn.code[j]
           IN  \E k \in copy + 1 .. i - 1 :
                  WritesSymbol(fn.code[k], fn.code[i].lhs[2]) \/ fn.code[k].dest = source

\* A scaled index is computed again from its symbol, which was written since.
StaleIndex ==
    \E i \in 1 .. Len(fn.code) :
        /\ FeedsMemory(fn.code, i)
        /\ MatchScaledTemp(fn.code, i).found
        /\ LET index == MatchScaledTemp(fn.code, i).index[2]
           IN  \E j \in 1 .. i - 1 : \E k \in j + 1 .. i - 1 :
                  /\ IsScale(fn.code[j]) /\ fn.code[j].lhs = Sym(index)
                  /\ fn.code[j].dest \in {fn.code[i].lhs, fn.code[i].rhs}
                  /\ WritesSymbol(fn.code[k], index)

KnownDefect == StructTempsShift \/ VolatilePromotion \/ StaleComparison \/ StaleIndex

\* emit_rep_movsb destroys rsi and rdi, which a Windows caller expects back.
LosesRsiRdi == abi = "ms" /\ \E i \in 1 .. Len(code) : code[i][1] = "movs"

CheckedRegisters == (Preserved(abi) \ {"rsp"}) \ (IF LosesRsiRdi THEN {"rsi", "rdi"} ELSE {})

----------------------------------------------------------------------------
(* Properties.                                                             *)

RECURSIVE Inputs(_)
Inputs(params) ==
    IF params = <<>> THEN {<<>>}
    ELSE {<<v>> \o rest : v \in ArgWords[Head(params).name], rest \in Inputs(Tail(params))}

Signature == [params |-> [i \in 1 .. Len(fn.params) |-> fn.params[i].class], ret |-> fn.ret, foreign |-> FALSE]

AgreesWithIR ==
    \A args \in Inputs(fn.params), g \in GlobalWords :
        LET meant == IROutcome(fn, args, g)
        IN  meant.kind = "returns" =>
                MachineOutcome(abi, code, Signature, Signatures, args, g, CheckedRegisters) = meant

\* The emitted code of a function makes the calls the IR makes, with the same
\* arguments, returns the same value, leaves the same g and gives the caller
\* its registers and its stack back, on both conventions.  At stake: operands
\* fused by a peephole are still computed once and read from where they are;
\* no register holding a value is overwritten by the code of another operand;
\* flags survive from a compare to its use; arguments, shadow space and
\* struct pointers lie where the platform's convention says; and every jump
\* finds its label although a conditional move leaves labels out.
CompiledMeansIR ==
    /\ phase # "failed"
    /\ phase = "done" /\ ~StaleAlias /\ ~KnownDefect => AgreesWithIR

\* The same of functions with aliased locals: what the comment over
\* collect_symbol_aliases promises of a local that is not stored.
AliasKeepsItsValue ==
    phase = "done" /\ ctx.aliases # <<>> /\ ~KnownDefect => AgreesWithIR

\* Slots are disjoint, inside the frame and as aligned as their class wants:
\* the regions of emit_prologue, the saved registers, the homes and the struct
\* results, are laid out by five separate computations.
Regions ==
    {<<"hidden", 1, 8, 8, 8>> : i \in 1 .. Hidden(fn)}
        \cup {<<"param", s, ctx.slots[s], 8, 8>> : s \in ctx.params}
        \cup {<<"local", s, ctx.slots[s], SizeOf(ClassOf(fn, s)), AlignOf(ClassOf(fn, s))>>
                 : s \in DOMAIN ctx.slots \ ctx.params}
        \cup {<<"temp", t, ctx.temps[t], 8, 1>> : t \in DOMAIN ctx.temps}
        \cup {<<"result", i, ctx.results[i], 16, 8>> : i \in DOMAIN ctx.results}
        \cup {<<"saved", i, ctx.savedAt[i], 8, 8>> : i \in DOMAIN ctx.savedAt}
FrameSound ==
    phase = "prologue" =>
        /\ ctx.frame % 16 = 0
        /\ \A p \in Regions : p[4] <= p[3] /\ p[3] <= ctx.frame /\ p[3] % p[5] = 0
        /\ \A p, q \in Regions : p = q \/ p[3] <= q[3] - q[4] \/ q[3] <= p[3] - p[4]

=============================================================================
