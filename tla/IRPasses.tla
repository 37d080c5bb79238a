------------------------------ MODULE IRPasses ------------------------------
(***************************************************************************)
(* The passes of src/ir/ir_optimize.c that rewrite a function without      *)
(* recognising a particular loop: copy and constant propagation, common    *)
(* subexpressions, folding, dead temporaries, the clean-up of jumps,       *)
(* branches and labels, and the fusing of a rotate.  A pass takes the code *)
(* and returns the code it leaves; removed instructions become nops, so    *)
(* the positions of the others stay what they were.                        *)
(***************************************************************************)
EXTENDS IRCode, SequencesExt

\* s after Step has been applied for i = 1, 2 ... n.
Through(n, Step(_, _), s) ==
    LET After[i \in 0 .. n] == IF i = 0 THEN s ELSE Step(After[i - 1], i)
    IN  After[n]

\* The map without some of its keys, and the map that knows nothing.
Without(map, keys) == [k \in DOMAIN map \ keys |-> map[k]]
Nothing == [k \in {} |-> None]

----------------------------------------------------------------------------
(* What an instruction writes and reads.                                   *)

Writers == {"assign", "address_of", "load", "binary", "unary", "rotate_add", "call"}
WritesTemp(ins) == ins.op \in Writers /\ IsTemp(ins.dest)
WritesSymbol(ins) == ins.op \in Writers /\ IsSym(ins.dest)

\* ir_collect_instruction_temp_uses: the operands counted as uses.
UsedOperands(ins) ==
    CASE ins.op = "store" -> <<ins.dest, ins.lhs, ins.rhs>> \o ins.args
      [] ins.op \in {"assign", "address_of", "load", "binary", "unary", "branch_zero",
                     "branch_eq", "call", "return"} -> <<ins.lhs, ins.rhs>> \o ins.args
      [] OTHER -> <<>>

UsesTemp(ins, o) == Contains(UsedOperands(ins), o)

\* How often a temporary is used in the whole function.
UseCount(code, o) ==
    Cardinality(UNION {{<<i, k>> : k \in {k \in DOMAIN UsedOperands(code[i]) : UsedOperands(code[i])[k] = o}}
                        : i \in DOMAIN code})

\* Calls and stores may change any symbol.
Clobbers(ins) == ins.op \in {"store", "call"}

NextNonNop(code, i) ==
    IF \E j \in i .. Len(code) : code[j].op # "nop"
    THEN CHOOSE j \in i .. Len(code) :
            code[j].op # "nop" /\ \A k \in i .. j - 1 : code[k].op = "nop"
    ELSE 0

\* The next instruction of the block, 0 where a label or the end comes first.
NextInBlock(code, i) ==
    LET j == NextNonNop(code, i)
    IN  IF j # 0 /\ code[j].op # "label" THEN j ELSE 0

\* The last non-nop instruction before i, 0 if there is none.
Previous(code, i) ==
    IF \E j \in 1 .. i - 1 : code[j].op # "nop"
    THEN CHOOSE j \in 1 .. i - 1 :
            code[j].op # "nop" /\ \A k \in j + 1 .. i - 1 : code[k].op = "nop"
    ELSE 0

LabelFollows(code, i, l) ==
    LET j == NextNonNop(code, i)
    IN  j # 0 /\ code[j].op = "label" /\ code[j].label = l

----------------------------------------------------------------------------
(* ir_copy_and_constant_propagation_pass.  map holds what the temporaries  *)
(* are known to be copies of, smap the same for symbols within the block,  *)
(* and into[l] what every flow seen so far into label l agrees on.  The    *)
(* operands are replaced as the sweep goes; sweeps repeat until into stays *)
(* the same, at most PropagationRounds times.                              *)

PropagationRounds == 8
ResolveDepth == 64

Known(map, smap, o) ==
    \/ IsTemp(o) /\ o[2] \in DOMAIN map
    \/ IsSym(o) /\ o[2] \in DOMAIN smap

RECURSIVE Resolve(_, _, _, _)
Resolve(map, smap, o, depth) ==
    IF depth > ResolveDepth \/ ~Known(map, smap, o) THEN o
    ELSE Resolve(map, smap, IF IsTemp(o) THEN map[o[2]] ELSE smap[o[2]], depth + 1)

Resolved(map, smap, o) == Resolve(map, smap, o, 0)

\* Which operands are replaced, and for which of them the symbols' values too.
PropagatedOperands(map, smap, ins) ==
    LET full(o) == Resolved(map, smap, o)
        temps(o) == Resolved(map, Nothing, o)
    IN  CASE ins.op = "store" -> [ins EXCEPT !.dest = full(@), !.lhs = full(@), !.rhs = full(@)]
          [] ins.op = "assign" -> [ins EXCEPT !.lhs = full(@)]
          [] ins.op \in {"branch_zero", "branch_eq"} -> [ins EXCEPT !.lhs = temps(@), !.rhs = temps(@)]
          [] ins.op \in {"address_of", "load", "binary", "unary", "call", "return"} ->
                [ins EXCEPT !.lhs = temps(@), !.rhs = temps(@),
                            !.args = [k \in DOMAIN @ |-> full(@[k])]]
          [] OTHER -> ins

\* The values that name symbol s, forgotten.
WithoutValue(map, s) == Without(map, {k \in DOMAIN map : map[k] = Sym(s)})
ForgetSymbol(smap, s) == WithoutValue(Without(smap, {s}), s)
WithoutSymbols(map) == Without(map, {k \in DOMAIN map : IsSym(map[k])})

\* The temporaries' values after ins.
TempsAfter(map, ins) ==
    LET w == IF ~WritesTemp(ins) THEN map
             ELSE IF ins.op = "assign" /\ ins.lhs # ins.dest
                  THEN (ins.dest[2] :> ins.lhs) @@ map
                  ELSE Without(map, {ins.dest[2]})
        s == IF WritesSymbol(ins) THEN WithoutValue(w, ins.dest[2]) ELSE w
    IN  IF Clobbers(ins) THEN WithoutSymbols(s) ELSE s

\* Mutant: a symbol that was copied from another keeps its value when the
\* other is written.
SymbolsAfterKeepsCopies(smap, ins) ==
    LET w == IF ~WritesSymbol(ins) THEN smap
             ELSE IF ins.op = "assign" /\ ins.lhs # ins.dest
                  THEN (ins.dest[2] :> ins.lhs) @@ smap
                  ELSE Without(smap, {ins.dest[2]})
    IN  IF Clobbers(ins) THEN Nothing ELSE w

\* The symbols' values after ins.
SymbolsAfter(smap, ins) ==
    LET w == IF ~WritesSymbol(ins) THEN smap
             ELSE IF ins.op = "assign" /\ ins.lhs # ins.dest
                  THEN (ins.dest[2] :> ins.lhs) @@ ForgetSymbol(smap, ins.dest[2])
                  ELSE ForgetSymbol(smap, ins.dest[2])
        lost == {o[2] : o \in {o \in {ins.lhs, ins.rhs} : ins.op = "rotate_add" /\ IsSym(o)}}
        r == Without(w, lost \cup {k \in DOMAIN w : IsSym(w[k]) /\ w[k][2] \in lost})
    IN  IF Clobbers(ins) THEN Nothing ELSE r

\* Merge the flow map into what label l expects.
Merged(into, l, map) ==
    IF l \notin DOMAIN into THEN (l :> map) @@ into
    ELSE [into EXCEPT ![l] = Without(@, {k \in DOMAIN @ : k \notin DOMAIN map \/ @[k] # map[k]})]

\* Control reaches position i from the instruction before it.
FallsInto(code, i) ==
    i # 1 /\ (Previous(code, i) # 0 => code[Previous(code, i)].op \notin {"jump", "return"})

PropagationStep(s, i) ==
    LET ins == s.code[i]
        here == IF ins.op = "label" /\ FallsInto(s.code, i) THEN Merged(s.into, ins.label, s.map) ELSE s.into
        at == IF ins.op # "label" THEN s.map
              ELSE IF ins.label \in DOMAIN here THEN here[ins.label] ELSE Nothing
        sat == IF ins.op = "label" THEN Nothing ELSE s.smap
        new == PropagatedOperands(at, sat, ins)
        map == TempsAfter(at, new)
        smap == SymbolsAfter(sat, new)
        left == new.op \in {"jump", "return"}
    IN  [code |-> [s.code EXCEPT ![i] = new],
         into |-> IF Transfers(new) THEN Merged(here, new.label, map) ELSE here,
         map |-> IF left THEN Nothing ELSE map,
         smap |-> IF left THEN Nothing ELSE smap]

CopyPropagation(code) ==
    LET Sweep(s) == Through(Len(code), PropagationStep, [s EXCEPT !.map = Nothing, !.smap = Nothing])
        Round(s, r) == IF s.done THEN s
                       ELSE LET t == Sweep(s.sweep) IN [sweep |-> t, done |-> t.into = s.sweep.into]
    IN  Through(PropagationRounds, Round,
                [sweep |-> [code |-> code, into |-> [l \in {} |-> Nothing], map |-> Nothing, smap |-> Nothing],
                 done |-> FALSE]).sweep.code

----------------------------------------------------------------------------
(* ir_coalesce_single_use_temp_assign_pass: the instruction before writes  *)
(* the destination itself.  The uses are counted once, at the start.       *)

CoalesceTemps(code) ==
    LET Step(c, i) ==
            LET ins == c[i]
                k == Previous(c, i)
            IN  IF /\ ins.op = "assign" /\ IsTemp(ins.lhs)
                   /\ UseCount(code, ins.lhs) = 1
                   /\ k # 0
                   /\ WritesTemp(c[k]) /\ c[k].dest = ins.lhs
                THEN [c EXCEPT ![k].dest = ins.dest, ![i] = Nop]
                ELSE c
    IN  Through(Len(code), Step, code)

----------------------------------------------------------------------------
(* ir_common_subexpression_elimination_pass: within a block, an expression *)
(* computed before becomes a copy of where it was put.                     *)

Commutative == {"+", "*", "&", "|", "^", "==", "!="}

IsExpression(ins) == ins.op \in {"binary", "unary", "address_of"}

\* An available expression: the instruction that computes it, its dest the value.
SameExpression(e, ins) ==
    /\ e.op = ins.op /\ e.text = ins.text
    /\ \/ e.lhs = ins.lhs /\ e.rhs = ins.rhs
       \/ ins.op = "binary" /\ ins.text \in Commutative /\ e.lhs = ins.rhs /\ e.rhs = ins.lhs

\* ir_expression_map_invalidate_named: forget what o was part of, before the
\* instruction that writes it is looked up.
Invalidated(map, ins) ==
    IF WritesTemp(ins) \/ WritesSymbol(ins)
    THEN {e \in map : ins.dest \notin {e.lhs, e.rhs, e.dest}} ELSE map

CommonSubexpressions(code) ==
    LET Step(s, i) ==
            LET ins == s.code[i]
                map == Invalidated(s.map, ins)
                same == {e \in map : SameExpression(e, ins)}
            IN  IF ins.op = "label" \/ Clobbers(ins) \/ Transfers(ins) \/ ins.op = "return"
                THEN [s EXCEPT !.map = {}]
                ELSE IF ~IsExpression(ins) THEN [s EXCEPT !.map = map]
                ELSE IF same = {} THEN [s EXCEPT !.map = map \cup {ins}]
                ELSE [code |-> [s.code EXCEPT ![i] = Assign(ins.dest, (CHOOSE e \in same : TRUE).dest)],
                      map |-> map]
    IN  Through(Len(code), Step, [code |-> code, map |-> {}]).code

----------------------------------------------------------------------------
(* ir_eliminate_dead_temp_writes_pass: from the end, a write to a temp not *)
(* seen used is removed.  Once a label has been crossed a use stays.       *)

RemovableIfUnused == {"assign", "address_of", "binary", "unary"}

DeadTemps(code) ==
    LET Step(s, k) ==
            LET i == Len(code) + 1 - k
                ins == s.code[i]
                crossed == s.crossed \/ ins.op = "label"
                used == {o \in ToSet(UsedOperands(ins)) : IsTemp(o)}
            IN  IF WritesTemp(ins) /\ ins.dest \notin s.live /\ ins.op \in RemovableIfUnused
                THEN [s EXCEPT !.code[i] = Nop]
                ELSE [code |-> s.code, crossed |-> crossed,
                      live |-> (IF WritesTemp(ins) /\ ~crossed THEN s.live \ {ins.dest} ELSE s.live) \cup used]
    IN  Through(Len(code), Step, [code |-> code, crossed |-> FALSE, live |-> {}]).code

----------------------------------------------------------------------------
(* Folding of integer instructions.  The compiler computes with unsigned   *)
(* numbers of the same width and refuses what the machine leaves undefined *)
(* or does differently.                                                    *)

Unsigned(v) == v % Modulus

\* ir_try_evaluate_integer_binary: may it, and to what.
CanEvaluate(op, a, b) ==
    CASE op \in {"/", "%"}   -> ~(b = 0 \/ (a = MinInt /\ b = -1))
      [] op \in {"<<", ">>"} -> ~(b < 0 \/ b >= W)
      [] OTHER               -> TRUE

Evaluated(op, a, b) ==
    CASE op = "+"  -> Signed((Unsigned(a) + Unsigned(b)) % Modulus)
      [] op = "-"  -> Signed((Unsigned(a) - Unsigned(b)) % Modulus)
      [] op = "*"  -> Signed((Unsigned(a) * Unsigned(b)) % Modulus)
      [] op = "<<" -> Signed((Unsigned(a) * 2 ^ b) % Modulus)
      [] op = ">>" -> a \div 2 ^ b
      [] OTHER     -> Machine(op, a, b)

\* ir_try_get_positive_pow2_shift.
IsPowerOfTwo(v) == \E k \in 0 .. W - 2 : v = 2 ^ k
ShiftOf(v) == CHOOSE k \in 0 .. W - 2 : v = 2 ^ k

\* A literal that multiplies by a shift.
ShiftsBy(o) == IsLit(o) /\ o[2] > 1 /\ IsPowerOfTwo(o[2])

\* The identities for operands that are the same: the result, or None.
SameOperands(op, a) ==
    CASE op \in {"-", "^", "!=", "<", ">"} -> Lit(0)
      [] op \in {"==", "<=", ">="}         -> Lit(1)
      [] op \in {"|", "&"}                 -> a
      [] OTHER                             -> None

\* The identities for one literal operand: the result, or None.
Identity(op, a, b) ==
    CASE op \in {"+", "|", "^"} -> IF b = Lit(0) THEN a ELSE IF a = Lit(0) THEN b ELSE None
      [] op \in {"-", "<<", ">>"} -> IF b = Lit(0) THEN a ELSE None
      [] op = "*" -> IF Lit(0) \in {a, b} THEN Lit(0)
                     ELSE IF b = Lit(1) THEN a ELSE IF a = Lit(1) THEN b ELSE None
      [] op = "/" -> IF b = Lit(1) THEN a ELSE None
      [] op = "%" -> IF b = Lit(1) THEN Lit(0) ELSE None
      [] op = "&" -> IF Lit(0) \in {a, b} THEN Lit(0)
                     ELSE IF b = Lit(-1) THEN a ELSE IF a = Lit(-1) THEN b ELSE None
      [] OTHER -> None

\* ir_try_fold_integer_binary.
FoldBinary(ins) ==
    LET a == ins.lhs
        b == ins.rhs
        known == IF a = b THEN SameOperands(ins.text, a) ELSE None
    IN  IF IsLit(a) /\ IsLit(b) /\ CanEvaluate(ins.text, a[2], b[2])
        THEN Assign(ins.dest, Lit(Evaluated(ins.text, a[2], b[2])))
        ELSE IF known # None THEN Assign(ins.dest, known)
        ELSE IF ins.text = "*" /\ ShiftsBy(b) THEN Binary(ins.dest, "<<", a, Lit(ShiftOf(b[2])))
        ELSE IF ins.text = "*" /\ ShiftsBy(a) THEN Binary(ins.dest, "<<", b, Lit(ShiftOf(a[2])))
        ELSE IF Identity(ins.text, a, b) # None THEN Assign(ins.dest, Identity(ins.text, a, b))
        ELSE ins

\* ir_try_fold_integer_unary, with the width made explicit.
FoldUnary(ins) ==
    IF ~IsLit(ins.lhs) THEN ins
    ELSE LET v == ins.lhs[2] IN
         Assign(ins.dest, Lit(CASE ins.text = "+" -> v
                                [] ins.text = "-" -> Signed((Modulus - Unsigned(v)) % Modulus)
                                [] ins.text = "!" -> AsBit(v = 0)
                                [] ins.text = "~" -> Signed(Modulus - 1 - Unsigned(v))))

\* ir_simplify_branch: a branch on literals, or on an operand and itself.
SimplifyBranch(ins) ==
    LET literal == IsLit(ins.lhs) /\ (ins.op = "branch_eq" => IsLit(ins.rhs))
        taken == IF ins.op = "branch_zero" THEN ins.lhs = Lit(0) ELSE ins.lhs = ins.rhs
    IN  IF literal THEN (IF taken THEN Jump(ins.label) ELSE Nop)
        ELSE IF ins.op = "branch_eq" /\ taken THEN Jump(ins.label)
        ELSE ins

\* The last loop of ir_constant_and_branch_simplify_pass, one instruction.
Simplified(ins) ==
    LET folded == CASE ins.op = "binary" -> FoldBinary(ins)
                    [] ins.op = "unary"  -> FoldUnary(ins)
                    [] OTHER             -> ins
    IN  IF folded.op = "assign" /\ folded.dest = folded.lhs THEN Nop
        ELSE IF IsBranch(folded) THEN SimplifyBranch(folded)
        ELSE folded

----------------------------------------------------------------------------
(* The rewrites that need more than one instruction.  Uses are counted     *)
(* once, before the loop over the function.                                *)

\* The last write to temporary o before i in the block, 0 if there is none.
ProducerInBlock(code, i, o) ==
    LET at == {j \in 1 .. i - 1 :
                 /\ WritesTemp(code[j]) /\ code[j].dest = o
                 /\ \A k \in j + 1 .. i - 1 : code[k].op # "label"}
    IN  IF at = {} THEN 0 ELSE CHOOSE j \in at : \A k \in at : k <= j

\* ir_mod_even_bitcheck_pass: v % 2^k compared with 0 becomes v & (2^k - 1).
ModuloToMask(code) ==
    LET Step(c, i) ==
            LET ins == c[i]
                o == IF IsTemp(ins.lhs) /\ ins.rhs = Lit(0) THEN ins.lhs
                     ELSE IF IsTemp(ins.rhs) /\ ins.lhs = Lit(0) THEN ins.rhs ELSE None
                k == IF o = None THEN 0 ELSE ProducerInBlock(c, i, o)
            IN  IF /\ ins.op = "binary" /\ ins.text \in {"==", "!="}
                   /\ k # 0 /\ UseCount(code, o) = 1
                   /\ c[k].op = "binary" /\ c[k].text = "%" /\ ShiftsBy(c[k].rhs)
                   /\ ShiftOf(c[k].rhs[2]) < W - 1
                THEN [c EXCEPT ![k].text = "&", ![k].rhs = Lit(@[2] - 1)]
                ELSE c
    IN  Through(Len(code), Step, code)

\* ir_branch_eq_chain_shortcut_pass: t = a == b; branch_zero t -> L; jump M;
\* label L becomes branch_eq a, b -> M; label L.
BranchEqChain(code) ==
    LET Step(c, i) ==
            LET ins == c[i]
                b == NextInBlock(c, i + 1)
                j == NextInBlock(c, b + 1)
            IN  IF /\ ins.op = "binary" /\ ins.text = "==" /\ IsTemp(ins.dest)
                   /\ UseCount(code, ins.dest) = 1
                   /\ b # 0 /\ c[b].op = "branch_zero" /\ c[b].lhs = ins.dest
                   /\ j # 0 /\ c[j].op = "jump"
                   /\ LabelFollows(c, j + 1, c[b].label)
                THEN [c EXCEPT ![b] = BranchEq(ins.lhs, ins.rhs, c[j].label), ![i] = Nop, ![j] = Nop]
                ELSE c
    IN  Through(Len(code), Step, code)

\* ir_branch_zero_not_equal_zero_forwarding_pass: t = a != 0; branch_zero t
\* becomes branch_zero a.
ForwardNotEqualZero(code) ==
    LET Step(c, i) ==
            LET ins == c[i]
                b == NextInBlock(c, i + 1)
            IN  IF /\ ins.op = "binary" /\ ins.text = "!=" /\ IsTemp(ins.dest)
                   /\ UseCount(code, ins.dest) = 1
                   /\ Lit(0) \in {ins.lhs, ins.rhs}
                   /\ b # 0 /\ c[b].op = "branch_zero" /\ c[b].lhs = ins.dest
                THEN [c EXCEPT ![b].lhs = IF ins.rhs = Lit(0) THEN ins.lhs ELSE ins.rhs, ![i] = Nop]
                ELSE c
    IN  Through(Len(code), Step, code)

\* ir_constant_and_branch_simplify_pass: which of the three rewrites run is
\* decided from the code as it was.
SimplifyConstants(code) ==
    LET has(op) == \E i \in DOMAIN code : code[i].op = op
        computes(t) == \E i \in DOMAIN code : code[i].op = "binary" /\ code[i].text = t
        masked == IF computes("%") /\ (computes("==") \/ computes("!=")) THEN ModuloToMask(code) ELSE code
        chained == IF computes("==") /\ has("branch_zero") /\ has("jump") /\ has("label")
                   THEN BranchEqChain(masked) ELSE masked
        forwarded == IF computes("!=") /\ has("branch_zero") THEN ForwardNotEqualZero(chained) ELSE chained
    IN  [i \in DOMAIN code |-> Simplified(forwarded[i])]
----------------------------------------------------------------------------
(* The clean-up of control flow.                                           *)

\* ir_remove_redundant_jumps_pass: a jump to the label that follows it.
RedundantJumps(code) ==
    [i \in DOMAIN code |->
        IF code[i].op = "jump" /\ LabelFollows(code, i + 1, code[i].label) THEN Nop ELSE code[i]]

\* ir_remove_redundant_fallthrough_branches_pass: the same for branches.
FallthroughBranches(code) ==
    [i \in DOMAIN code |->
        IF IsBranch(code[i]) /\ LabelFollows(code, i + 1, code[i].label) THEN Nop ELSE code[i]]

ThreadDepth == 32

\* Where a jump to l ends up, following the jumps that labels lead to.
RECURSIVE Threaded(_, _, _)
Threaded(code, l, depth) ==
    LET n == IF HasLabel(code, l) THEN NextNonNop(code, Target(code, l) + 1) ELSE 0
    IN  IF depth = 0 \/ n = 0 THEN l
        ELSE IF code[n].op # "jump" \/ code[n].label = l THEN l
        ELSE Threaded(code, code[n].label, depth - 1)

\* ir_thread_jump_targets_pass: later instructions see the targets already moved.
ThreadJumps(code) ==
    LET Step(c, i) == IF Transfers(c[i]) THEN [c EXCEPT ![i].label = Threaded(c, @, ThreadDepth)] ELSE c
    IN  Through(Len(code), Step, code)

\* Only labels stand between i and the label l.
OnlyLabelsUpTo(code, i, l) ==
    \E j \in i .. Len(code) :
        /\ code[j].op = "label" /\ code[j].label = l
        /\ \A k \in i .. j - 1 : code[k].op \in {"nop", "label"}

\* The branch at i and the jump at j lead to the same place: both name the
\* label right after the jump, or the branch's label is there and the jump's
\* comes with nothing in between.
ClosesDiamond(code, i, j) ==
    IF code[i].label = code[j].label
    THEN LabelFollows(code, j + 1, code[j].label)
    ELSE /\ LabelFollows(code, j + 1, code[i].label)
         /\ OnlyLabelsUpTo(code, NextNonNop(code, j + 1) + 1, code[j].label)

\* ir_remove_empty_conditional_diamonds_pass.
EmptyDiamonds(code) ==
    LET Step(c, i) ==
            LET j == IF IsBranch(c[i]) THEN NextInBlock(c, i + 1) ELSE 0
            IN  IF j # 0 /\ c[j].op = "jump" /\ ClosesDiamond(c, i, j)
                THEN [c EXCEPT ![i] = Nop, ![j] = Nop] ELSE c
    IN  Through(Len(code), Step, code)

\* ir_eliminate_unreachable_straightline_pass: up to the next label, what
\* follows a jump or a return.
UnreachableStraightline(code) ==
    LET dead(i) == \E j \in 1 .. i - 1 :
                     /\ code[j].op \in {"jump", "return"}
                     /\ \A k \in j + 1 .. i : code[k].op # "label"
    IN  [i \in DOMAIN code |-> IF dead(i) THEN Nop ELSE code[i]]

\* ir_eliminate_unreachable_blocks_pass: what control cannot reach from the
\* first instruction.
UnreachableBlocks(code) ==
    LET Step(reached, i) == reached \cup UNION {Successors(code, j) : j \in reached}
        reached == Through(Len(code), Step, {1})
    IN  [i \in DOMAIN code |-> IF i \in reached THEN code[i] ELSE Nop]

\* ir_remove_unused_labels_pass.
UnusedLabels(code) ==
    LET used == {code[i].label : i \in {i \in DOMAIN code : Transfers(code[i])}}
    IN  [i \in DOMAIN code |-> IF code[i].op = "label" /\ code[i].label \notin used THEN Nop ELSE code[i]]

----------------------------------------------------------------------------
(* ir_fuse_rotate_add_pass: t = a + b; next = t; a = b; b = next (or b = t)*)
(* becomes one instruction.                                                *)

Rotates(code, i) ==
    /\ i + 3 <= Len(code)
    /\ code[i].op = "binary" /\ code[i].text = "+"
    /\ IsTemp(code[i].dest) /\ IsSym(code[i].lhs) /\ IsSym(code[i].rhs)
    /\ \A k \in 1 .. 3 : code[i + k].op = "assign" /\ IsSym(code[i + k].dest)
    /\ code[i + 1].lhs = code[i].dest
    /\ code[i + 2].dest = code[i].lhs /\ code[i + 2].lhs = code[i].rhs
    /\ code[i + 3].dest = code[i].rhs
    /\ code[i + 3].lhs \in {code[i + 1].dest, code[i].dest}

FuseRotateAdd(code) ==
    LET Step(c, i) ==
            IF Rotates(c, i)
            THEN [c EXCEPT ![i] = RotateAdd(c[i + 1].dest, c[i].lhs, c[i].rhs),
                           ![i + 1] = Nop, ![i + 2] = Nop, ![i + 3] = Nop]
            ELSE c
    IN  Through(Len(code), Step, code)

----------------------------------------------------------------------------
(* ir_eliminate_load_symbol_copy_pass: t = load p; x = t, where x is used  *)
(* a few times before it is written again and no control flow comes first: *)
(* the operands that name x become t, and x is not written.  The arguments *)
(* of a call count as uses and stay as they are.                           *)

MaxCopyUses == 6

CopiesLoad(code, i) ==
    /\ i + 1 <= Len(code)
    /\ code[i].op = "load" /\ IsTemp(code[i].dest)
    /\ code[i + 1].op = "assign" /\ IsSym(code[i + 1].dest) /\ code[i + 1].lhs = code[i].dest

\* The first instruction after the copy that ends its range, Len + 1 if none.
CopyEnd(code, i) ==
    LET x == code[i + 1].dest
        stops(j) == \/ code[j].op = "label" \/ Transfers(code[j])
                    \/ WritesSymbol(code[j]) /\ code[j].dest = x
    IN  CHOOSE j \in i + 2 .. Len(code) + 1 :
            /\ j <= Len(code) => stops(j)
            /\ \A k \in i + 2 .. j - 1 : ~stops(k)

\* One for an instruction that names x, one more for each argument.
CopyUses(code, i) ==
    LET x == code[i + 1].dest
        range == i + 2 .. CopyEnd(code, i) - 1
    IN  Cardinality({j \in range : x \in {code[j].dest, code[j].lhs, code[j].rhs}})
            + Cardinality(UNION {{<<j, k>> : k \in {k \in DOMAIN code[j].args : code[j].args[k] = x}} : j \in range})

StopsOnControl(code, i) ==
    LET j == CopyEnd(code, i) IN j <= Len(code) /\ (code[j].op = "label" \/ Transfers(code[j]))

DropsCopy(code, i) ==
    CopiesLoad(code, i) /\ ~StopsOnControl(code, i) /\ CopyUses(code, i) \in 1 .. MaxCopyUses

LoadSymbolCopy(code) ==
    LET Step(c, i) ==
            LET x == c[i + 1].dest
                t == c[i].dest
                named(o) == IF o = x THEN t ELSE o
            IN  IF DropsCopy(c, i)
                THEN [j \in DOMAIN c |->
                        IF j = i + 1 THEN Nop
                        ELSE IF j \in i + 2 .. CopyEnd(c, i) - 1
                        THEN [c[j] EXCEPT !.lhs = named(@), !.rhs = named(@),
                                          !.dest = IF c[j].op = "store" THEN @ ELSE named(@)]
                        ELSE c[j]]
                ELSE c
    IN  Through(Len(code), Step, code)
=============================================================================
