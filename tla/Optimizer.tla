------------------------------ MODULE Optimizer ------------------------------
(***************************************************************************)
(* The optimizer of src/ir/ir_optimize.c: the driver of OptDriver with the *)
(* passes of IRPasses.  The passes of the table that recognise whole loops *)
(* (0, 3 to 8, 12, 15, 22, 24 to 27) are left out: none of them applies to *)
(* the functions of the runs, which have no counted, buffer or string loop *)
(* and no memcpy.                                                          *)
(***************************************************************************)
EXTENDS OptDriver, IRPasses

CONSTANT Inputs     \* the values the symbols may start with

\* The passes of the table that are modelled, by index.
PassTable == <<1, 2, 9, 10, 11, 13, 14, 16, 17, 18, 19, 20, 21, 23>>

ApplyPass(p, code) ==
    CASE p = 1  -> CopyPropagation(code)
      [] p = 2  -> FuseRotateAdd(code)
      [] p = 9  -> CoalesceTemps(code)
      [] p = 10 -> CommonSubexpressions(code)
      [] p = 11 -> SimplifyConstants(code)
      [] p = 13 -> DeadTemps(code)
      [] p = 14 -> ThreadJumps(code)
      [] p = 16 -> EmptyDiamonds(code)
      [] p = 17 -> FallthroughBranches(code)
      [] p = 18 -> RedundantJumps(code)
      [] p = 19 -> UnreachableStraightline(code)
      [] p = 20 -> UnreachableBlocks(code)
      [] p = 21 -> UnusedLabels(code)
      [] p = 23 -> LoadSymbolCopy(code)

\* ir_collect_function_features: what the function has, as far as the
\* conditions of the modelled passes ask.
FeaturesOf(code) ==
    {code[i].op : i \in DOMAIN code}
        \cup (IF \E i \in DOMAIN code : WritesTemp(code[i]) THEN {"temp write"} ELSE {})

Branches == {"branch_zero", "branch_eq"}

\* The conditions of DRIVE_PASS_IF.
GateOf(p, fs) ==
    CASE p = 9 -> "assign" \in fs
      [] p = 13 -> "temp write" \in fs
      [] p \in {14, 20} -> "label" \in fs /\ fs \cap (Branches \cup {"jump"}) # {}
      [] p = 16 -> {"label", "jump"} \subseteq fs /\ fs \cap Branches # {}
      [] p = 17 -> "label" \in fs /\ fs \cap Branches # {}
      [] p = 18 -> {"label", "jump"} \subseteq fs
      [] p = 21 -> "label" \in fs
      [] OTHER -> TRUE

Unconditional == {1, 2, 10, 11, 19, 23}

----------------------------------------------------------------------------
(* The properties.                                                         *)

\* Every outcome of the code before is an outcome of the code after, unless it
\* was undefined (a division that may not be made) or did not end.
Keeps(before, after) ==
    \A sym \in Inputs :
        LET b == Outcome(before, sym)
        IN  b.kind # "undefined" => Outcome(after, sym) = b

(* Two passes do not keep the meaning, each in cases of its own.           *)

\* What an instruction writes; a rotate writes its operands too (ir.h:47).
Writes(ins) ==
    IF ins.op = "rotate_add" THEN {ins.dest, ins.lhs, ins.rhs}
    ELSE IF ins.op \in Writers THEN {ins.dest} ELSE {}

\* The common subexpression pass reuses the value k computed where an operand
\* was written since: by k itself (x = x + 1), or by a rotate.
StaleReuse(code) ==
    \E i \in DOMAIN code :
        LET v == CommonSubexpressions(code)[i].lhs
        IN  /\ CommonSubexpressions(code)[i] # code[i]
            /\ \E k \in 1 .. i - 1 :
                 /\ SameExpression(code[k], code[i]) /\ code[k].dest = v
                 /\ \A j \in k + 1 .. i - 1 : ~(SameExpression(code[j], code[i]) /\ code[j].dest = v)
                 /\ \E j \in k .. i - 1 :
                      \/ Writes(code[j]) \cap {code[k].lhs, code[k].rhs} # {}
                      \/ j # k /\ v \in Writes(code[j])

\* The load copy pass drops the write of x though x is still needed: as a
\* call's argument, as the address of a store, by a rotate, by the instruction
\* that writes x next, or from outside, x being global or its address known.
CopyStillNeeded(code) ==
    \E i \in DOMAIN code :
        /\ DropsCopy(code, i)
        /\ LET x == code[i + 1].dest
               end == CopyEnd(code, i)
           IN  \/ x = Sym("g")
               \/ \E j \in DOMAIN code : code[j].op = "address_of" /\ code[j].lhs = x
               \/ end <= Len(code) /\ x \in Reads(code[end])
               \/ \E j \in i + 2 .. end - 1 :
                    \/ Contains(code[j].args, x)
                    \/ code[j].op = "store" /\ code[j].dest = x
                    \/ code[j].op = "rotate_add" /\ x \in {code[j].lhs, code[j].rhs}

KnownFault(p, code) ==
    \/ p = 10 /\ StaleReuse(code)
    \/ p = 23 /\ CopyStillNeeded(code)

\* Every pass, run on whatever the passes before it have made of the function,
\* leaves its calls, their arguments, what the callee sees and the result as
\* they were.  The two passes known to be at fault are held to it on the
\* functions that do not have the patterns they trip over.
PassesKeepMeaning ==
    [][\/ function' = function
       \/ stage = "round" /\ KnownFault(Due, function)
       \/ Keeps(function, function')]_vars

\* A pass whose condition fails, or that counts as clean, would leave the
\* function as it is, if its condition holds for the function as it is now.
EnabledPassesAreDone ==
    stage = "done" /\ ~changed =>
        \A p \in Passes \ SkipList : Gate(p, Features(function)) => Apply(p, function) = function

=============================================================================
