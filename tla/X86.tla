-------------------------------- MODULE X86 --------------------------------
(***************************************************************************)
(* The machine the binary backend generates code for, as far as the code   *)
(* generator relies on it: the general and the vector registers, the       *)
(* flags, a byte-addressed stack and one global, and the two calling       *)
(* conventions seen from outside (what a caller may expect of a function   *)
(* and what a function may expect of the ones it calls).  A word has W     *)
(* bits, an immediate or displacement half as many.                        *)
(***************************************************************************)
EXTENDS IRCode

CONSTANTS
    StackTop,   \* the stack pointer in the caller, a multiple of 16
    GlobalAt,   \* the address of the global g
    Junk        \* what a register or cell holds that nobody may rely on

ASSUME StackAssumption ==
    StackTop \in Ints /\ StackTop % 16 = 0 /\ GlobalAt \in Ints /\ Junk \in Ints

----------------------------------------------------------------------------
(* Registers.                                                              *)

General == {"rax", "rcx", "rdx", "rbx", "rsp", "rbp", "rsi", "rdi",
            "r8", "r9", "r10", "r11", "r12", "r13", "r14", "r15"}
Vector  == {"xmm0", "xmm1", "xmm2", "xmm3", "xmm4", "xmm5", "xmm6", "xmm7"}

\* The registers a function must give back as it got them.
Preserved(abi) ==
    {"rbx", "rbp", "rsp", "r12", "r13", "r14", "r15"}
        \cup (IF abi = "ms" THEN {"rsi", "rdi"} ELSE {})

\* The registers the two platforms pass arguments in, the space a caller
\* leaves for the callee, and the register of the pointer to a large result.
PlatformInts(abi) == IF abi = "ms" THEN <<"rcx", "rdx", "r8", "r9">>
                     ELSE <<"rdi", "rsi", "rdx", "rcx", "r8", "r9">>
PlatformFloats(abi) == IF abi = "ms" THEN <<"xmm0", "xmm1", "xmm2", "xmm3">>
                       ELSE <<"xmm0", "xmm1", "xmm2", "xmm3", "xmm4", "xmm5", "xmm6", "xmm7">>
HomeSpace(abi) == IF abi = "ms" THEN 32 ELSE 0

\* Where the platform passes arguments of the given classes.  Windows counts
\* an argument's position, System V its rank among those of its class.
Passed(abi, classes) ==
    LET file(c) == IF c = "float" THEN PlatformFloats(abi) ELSE PlatformInts(abi)
        rank(i) == Cardinality({j \in 1 .. i : abi = "ms" \/ (classes[j] = "float") = (classes[i] = "float")})
        onStack(i) == rank(i) > Len(file(classes[i]))
    IN  [i \in 1 .. Len(classes) |->
            IF onStack(i)
            THEN <<"stack", 8 * Cardinality({j \in 1 .. i - 1 : onStack(j)})>>
            ELSE <<IF classes[i] = "float" THEN "xmm" ELSE "gp", file(classes[i])[rank(i)]>>]

----------------------------------------------------------------------------
(* Memory.  A cell is the 8 bytes stored at an address; a later store      *)
(* that overlaps it destroys it.                                           *)

Peek(mem, a) == IF a \in DOMAIN mem THEN mem[a] ELSE Junk
Keep(mem, S) == [a \in DOMAIN mem \cap S |-> mem[a]]
Poke(mem, a, v) == (a :> v) @@ Keep(mem, {c \in DOMAIN mem : c <= a - 8 \/ c >= a + 8})

\* What a condition code says of the flags, the two values last compared.
Holds(cc, flags) == Machine(cc, flags[1], flags[2]) = 1

----------------------------------------------------------------------------
(* A call, seen by the caller: the callee finds its arguments where the    *)
(* convention puts them, reads and changes the global, gives back the      *)
(* preserved registers, and may leave anything in the others, below the    *)
(* stack pointer and, if foreign, in its shadow space.                     *)

\* The value of an argument: the word itself, or the two words it points at.
ArgumentValue(m, place, class, base) ==
    LET word == CASE place[1] = "gp"    -> m.r[place[2]]
                  [] place[1] = "xmm"   -> m.x[place[2]]
                  [] place[1] = "stack" -> Peek(m.mem, m.r["rsp"] + base + place[2])
    IN  IF class = "struct" THEN <<Peek(m.mem, word), Peek(m.mem, word + 8)>> ELSE <<word>>

HiddenFirst(sig) == (IF sig.ret = "struct" THEN <<"int">> ELSE <<>>) \o sig.params

CalledFunction(abi, m, name, sig) ==
    LET layout == Passed(abi, HiddenFirst(sig))
        hidden == Len(layout) - Len(sig.params)
        args   == [i \in 1 .. Len(sig.params) |->
                      ArgumentValue(m, layout[i + hidden], sig.params[i], HomeSpace(abi))]
        g      == Peek(m.mem, GlobalAt)
        sp     == m.r["rsp"]
        live   == {a \in DOMAIN m.mem : a >= sp + (IF sig.foreign THEN HomeSpace(abi) ELSE 0)}
        kept   == Poke(Keep(m.mem, live), GlobalAt, Wrap(g + 1))
        ptr    == m.r[PlatformInts(abi)[1]]
    IN  [m EXCEPT
            !.out = Append(@, <<name, args, g>>),
            !.mem = IF sig.ret = "struct" THEN Poke(Poke(kept, ptr, g), ptr + 8, Wrap(g + 1)) ELSE kept,
            !.r   = [q \in General |-> IF q \in Preserved(abi) THEN @[q]
                                       ELSE IF q # "rax" THEN Junk
                                       ELSE IF sig.ret = "struct" THEN ptr
                                       ELSE IF sig.ret = "float" THEN Junk ELSE g],
            !.x   = [q \in Vector |-> IF q = "xmm0" /\ sig.ret = "float" THEN g ELSE Junk],
            !.flags = <<Junk, 0>>]

----------------------------------------------------------------------------
(* Instructions: tuples of a mnemonic and its operands, the destination    *)
(* first.  Every operation of the arithmetic unit sets the flags; moves,   *)
(* lea and the conditional move leave them.                                *)

SetReg(m, q, v) == [m EXCEPT !.r[q] = v]
Alu(m, q, v)    == [m EXCEPT !.r[q] = v, !.flags = <<v, 0>>]

\* rep movsb: the cells of n bytes from [rsi] to [rdi], lowest first.
RECURSIVE CopyBytes(_, _, _, _)
CopyBytes(mem, from, to, n) ==
    IF n <= 0 THEN mem
    ELSE CopyBytes(Poke(mem, to, Peek(mem, from)), from + 8, to + 8, n - 8)

Execute(m, i) ==
    CASE i[1] = "mov"  -> SetReg(m, i[2], m.r[i[3]])
      [] i[1] = "imm"  -> SetReg(m, i[2], i[3])
      [] i[1] = "ld"   -> SetReg(m, i[2], Peek(m.mem, m.r[i[3]] + i[4]))
      [] i[1] = "st"   -> [m EXCEPT !.mem = Poke(@, m.r[i[2]] + i[3], m.r[i[4]])]
      [] i[1] = "lea"  -> SetReg(m, i[2], Wrap(m.r[i[3]] + i[4]))
      [] i[1] = "leax" -> SetReg(m, i[2], Wrap(m.r[i[3]] + i[5] * m.r[i[4]]))
      [] i[1] = "ldg"  -> SetReg(m, i[2], Peek(m.mem, GlobalAt))
      [] i[1] = "stg"  -> [m EXCEPT !.mem = Poke(@, GlobalAt, m.r[i[2]])]
      [] i[1] = "leag" -> SetReg(m, i[2], GlobalAt)
      [] i[1] = "op"   -> Alu(m, i[3], Machine(i[2], m.r[i[3]], m.r[i[4]]))
      [] i[1] = "opi"  -> Alu(m, i[3], Machine(i[2], m.r[i[3]], i[4]))
      [] i[1] = "unary" -> Alu(m, i[3], MachineUnary(i[2], m.r[i[3]]))
      [] i[1] = "idiv" -> [m EXCEPT !.r["rax"] = Machine("/", m.r["rax"], m.r[i[2]]),
                                    !.r["rdx"] = Machine("%", m.r["rax"], m.r[i[2]]),
                                    !.flags = <<Junk, 0>>]
      [] i[1] = "cmp"  -> [m EXCEPT !.flags = <<m.r[i[2]], m.r[i[3]]>>]
      [] i[1] = "cmpi" -> [m EXCEPT !.flags = <<m.r[i[2]], i[3]>>]
      [] i[1] = "testi" -> [m EXCEPT !.flags = <<Machine("&", m.r[i[2]], i[3]), 0>>]
      [] i[1] = "test" -> [m EXCEPT !.flags = <<Machine("&", m.r[i[2]], m.r[i[3]]), 0>>]
      [] i[1] = "setcc" -> SetReg(m, "rax", AsBit(Holds(i[2], m.flags)))
      [] i[1] = "cmov" -> IF Holds(i[2], m.flags) THEN SetReg(m, i[3], m.r[i[4]]) ELSE m
      [] i[1] = "push" -> [m EXCEPT !.r["rsp"] = @ - 8, !.mem = Poke(@, m.r["rsp"] - 8, m.r[i[2]])]
      [] i[1] = "pop"  -> [m EXCEPT !.r = [@ EXCEPT !["rsp"] = @ + 8, ![i[2]] = Peek(m.mem, m.r["rsp"])]]
      [] i[1] = "addsp" -> Alu(m, "rsp", m.r["rsp"] + i[2])
      [] i[1] = "movs" -> [m EXCEPT !.mem = CopyBytes(@, m.r["rsi"], m.r["rdi"], m.r["rcx"]),
                                    !.r["rsi"] = @ + m.r["rcx"], !.r["rdi"] = @ + m.r["rcx"], !.r["rcx"] = 0]
      [] i[1] = "toxmm"   -> [m EXCEPT !.x[i[2]] = m.r[i[3]]]
      [] i[1] = "fromxmm" -> SetReg(m, i[2], m.x[i[3]])

\* Division as the machine does it raises a fault where IR leaves it undefined.
Faults(m, i) == i[1] = "idiv" /\ ~Defined("/", m.r["rax"], m.r[i[2]])

\* The stack pointer must be a multiple of 16 at a call.
Misaligned(m, i) == i[1] = "call" /\ m.r["rsp"] % 16 # 0

Goes(m, i) == i[1] = "jmp" \/ (i[1] = "jcc" /\ Holds(i[2], m.flags))

\* Runs the code from instruction pc; jumps hold instruction numbers.
RECURSIVE Steps(_, _, _, _, _, _)
Steps(abi, code, sigs, m, pc, fuel) ==
    IF fuel = 0 THEN [m EXCEPT !.end = "diverges"]
    ELSE IF pc > Len(code) THEN [m EXCEPT !.end = "falls off"]
    ELSE LET i == code[pc] IN
         IF i[1] = "ret" THEN [m EXCEPT !.end = "returns", !.r["rsp"] = @ + 8]
         ELSE IF Faults(m, i) THEN [m EXCEPT !.end = "faults"]
         ELSE IF Misaligned(m, i) THEN [m EXCEPT !.end = "misaligned"]
         ELSE IF i[1] \in {"jmp", "jcc"}
              THEN Steps(abi, code, sigs, m, IF Goes(m, i) THEN i[Len(i)] ELSE pc + 1, fuel - 1)
         ELSE IF i[1] = "call"
              THEN Steps(abi, code, sigs, CalledFunction(abi, m, i[2], sigs[i[2]]), pc + 1, fuel - 1)
         ELSE Steps(abi, code, sigs, Execute(m, i), pc + 1, fuel - 1)

----------------------------------------------------------------------------
(* A call of the compiled function: the caller puts the arguments where    *)
(* the convention says, a struct argument and the result of an indirect    *)
(* return in its own frame, and expects its registers back.                *)

CallerRegister(q) ==
    CASE q = "rbx" -> 201 [] q = "rsi" -> 202 [] q = "rdi" -> 203 [] q = "r12" -> 204
      [] q = "r13" -> 205 [] q = "r14" -> 206 [] q = "r15" -> 207 [] q = "rbp" -> 208

ResultAt == StackTop + 200
StructAt(i) == StackTop + 216 + 16 * i

\* The machine at the first instruction: sig is the compiled function's,
\* args its argument values, g the global.
Entry(abi, sig, args, g) ==
    LET layout == Passed(abi, HiddenFirst(sig))
        hidden == Len(layout) - Len(sig.params)
        structs == {i \in 1 .. Len(args) : sig.params[i] = "struct"}
        word(i) == IF i <= hidden THEN ResultAt
                   ELSE IF i - hidden \in structs THEN StructAt(i - hidden) ELSE args[i - hidden][1]
        at(kind, q) == {i \in 1 .. Len(layout) : layout[i] = <<kind, q>>}
        stack  == {i \in 1 .. Len(layout) : layout[i][1] = "stack"}
        sp     == StackTop - 8
        slot(i) == StackTop + HomeSpace(abi) + layout[i][2]
        cells  == {GlobalAt} \cup {slot(i) : i \in stack}
                      \cup {StructAt(i) : i \in structs} \cup {StructAt(i) + 8 : i \in structs}
    IN  [r     |-> [q \in General |->
                       IF q = "rsp" THEN sp
                       ELSE IF at("gp", q) # {} THEN word(CHOOSE i \in at("gp", q) : TRUE)
                       ELSE IF q \in Preserved(abi) THEN CallerRegister(q) ELSE Junk],
         x     |-> [q \in Vector |-> IF at("xmm", q) # {} THEN word(CHOOSE i \in at("xmm", q) : TRUE) ELSE Junk],
         mem   |-> [a \in cells |->
                       IF a = GlobalAt THEN g
                       ELSE IF \E i \in stack : a = slot(i) THEN word(CHOOSE i \in stack : a = slot(i))
                       ELSE IF \E i \in structs : a = StructAt(i)
                            THEN args[CHOOSE i \in structs : a = StructAt(i)][1]
                       ELSE args[CHOOSE i \in structs : a = StructAt(i) + 8][2]],
         flags |-> <<Junk, 0>>, out |-> <<>>, end |-> "runs"]

\* What the caller sees of the run of the compiled function; it checks the
\* given registers.
Seen(sig, m, checked) ==
    IF m.end # "returns" THEN [kind |-> m.end, out |-> m.out, value |-> <<>>, g |-> 0]
    ELSE IF m.r["rsp"] # StackTop \/ \E q \in checked : m.r[q] # CallerRegister(q)
         THEN [kind |-> "registers lost", out |-> m.out, value |-> <<>>, g |-> 0]
    ELSE [kind |-> "returns", out |-> m.out, g |-> Peek(m.mem, GlobalAt),
          value |-> CASE sig.ret = "int" -> <<m.r["rax"]>>
                      [] sig.ret = "float" -> <<m.x["xmm0"]>>
                      [] sig.ret = "struct" -> <<Peek(m.mem, m.r["rax"]), Peek(m.mem, m.r["rax"] + 8)>>]

MachineOutcome(abi, code, sig, sigs, args, g, checked) ==
    Seen(sig, Steps(abi, code, sigs, Entry(abi, sig, args, g), 1, 16 * Fuel), checked)
=============================================================================
