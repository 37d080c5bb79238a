---------------------------- MODULE DeferLowering ----------------------------
(***************************************************************************)
(* How src/src/ir/ir_lowering.c lowers defer and errdefer.                 *)
(*                                                                         *)
(* First the lowering of one function body: the parser hands it statements *)
(* one at a time (the environment chooses them), `open' is the recursion   *)
(* of ir_lower_statement_with_defers, and every statement appends its      *)
(* instructions to `code'.  A statement inside a switch case is lowered    *)
(* with defers = NULL (ctx = FALSE).                                       *)
(*                                                                         *)
(* Then the emitted code runs, branch by branch.  Three instructions are   *)
(* marks that generate no code: "open" and "close" around a block of the   *)
(* source and "defer" where a defer statement stands.  With them the run   *)
(* keeps `pending', the defers whose statement was reached and whose scope *)
(* is still open, and records in `missed', `wild' and `misordered' how the *)
(* emitted cleanup differs from it.                                        *)
(*                                                                         *)
(* A deferred statement is a call, an assignment or a block.  What a block *)
(* does before it ends is one instruction, "run"; when it ends in a        *)
(* return, a break or a continue, on every path (sure) or on some, that    *)
(* exit is a second one, lowered where the cleanup is emitted.  Scopes and *)
(* defers of its own stay inside a deferred block and are part of "run".   *)
(***************************************************************************)
EXTENDS Integers, Sequences, FiniteSets

CONSTANTS
  Statements,     \* the kinds of statement the body may use
  LoopLabels,     \* user labels a loop may carry
  Bodies,         \* how a deferred statement may end
  Weight,         \* what a statement of each kind counts against MaxWeight
  MaxWeight,      \* bound on the size of a body
  MaxSteps        \* bound on the number of executed instructions

Kinds == {"block", "defer", "errdefer", "if", "while", "for", "switch", "match",
          "break", "continue", "return"}
NoUserLabel == "none"
Body(exit, user, sure) == [exit |-> exit, user |-> user, sure |-> sure]
Plain == Body("none", NoUserLabel, FALSE)

ASSUME StatementsAssumption == Statements \subseteq Kinds
ASSUME BoundsAssumption ==
  MaxWeight \in Nat /\ MaxSteps \in Nat /\ Weight \in [Kinds -> Nat \ {0}]
ASSUME LabelsAssumption == NoUserLabel \notin LoopLabels
ASSUME BodiesAssumption ==
  Bodies \subseteq {Plain} \cup [exit : {"return", "break", "continue"},
                                user : LoopLabels \cup {NoUserLabel}, sure : BOOLEAN]

VARIABLES
  phase,       \* "lowering", "running", "returned", "rejected"
  open,        \* the statements being lowered, outermost first
  scopes,      \* the IRDeferScope chain, the function's root scope first
  frames,      \* context->control_stack
  code,        \* function->instructions, with the marks
  labels,      \* labels made so far (ir_new_label_name)
  decls,       \* the defer statements lowered so far
  used,        \* weight of the statements used, against MaxWeight
  pc, value, pending, steps,      \* the run of the emitted code
  missed, wild, misordered,
  abandoned    \* defers run for a return that a deferred body's jump undid

lowering == <<open, scopes, frames, code, labels, decls, used>>
execution == <<pc, value, pending, steps, missed, wild, misordered, abandoned>>
vars == <<phase, lowering, execution>>

Top == open[Len(open)]
Under == SubSeq(open, 1, Len(open) - 1)
Ctx == Top.ctx            \* defers # NULL
Depth == Top.depth        \* blocks of the source open around the statement

Instr(op, arg, flag) == [op |-> op, arg |-> arg, flag |-> flag, depth |-> Depth]
Label(l) == Instr("label", l, FALSE)
Jump(l) == Instr("jump", l, FALSE)
Branch(l) == Instr("branch", l, FALSE)

Item(kind, ctx, depth, left, next, end) ==
  [kind |-> kind, ctx |-> ctx, depth |-> depth, left |-> left,
   next |-> next, end |-> end]

\* ir_new_label_name hands out each number once.
FreshAfter(n) == labels + n

\* ir_current_break_label, ir_current_continue_label, ir_find_labeled_break and
\* ir_find_labeled_continue: the index of the frame a jump refers to, 0 if none.
TargetFrame(kind, user) ==
  LET fits(i) == IF user # NoUserLabel THEN frames[i].user = user
                 ELSE kind = "break" \/ frames[i].cont # 0
      found == {i \in 1 .. Len(frames) : fits(i)}
  IN  IF found = {} THEN 0
      ELSE CHOOSE i \in found : \A j \in found : j <= i

JumpTarget(kind, user) ==
  LET i == TargetFrame(kind, user)
  IN  IF kind = "break" THEN frames[i].brk ELSE frames[i].cont

\* ir_lower_deferred_statement lowers the body in a scope without a parent: a
\* return in it runs no defer of the function, and a break or a continue means
\* the loop or switch around the cleanup, not around the defer statement.
Exit(body) ==
  CASE body.exit = "none"   -> <<>>
    [] body.exit = "return" -> <<Instr("bodyreturn", 0, body.sure)>>
    [] OTHER -> <<Instr("bodyjump", JumpTarget(body.exit, body.user), body.sure)>>
RunOf(d) == <<Instr("run", d, FALSE)>> \o Exit(decls[d].body)
\* A jump without a target stops the compilation.
Lowerable(d) ==
  LET body == decls[d].body
  IN  body.exit \in {"none", "return"} \/ TargetFrame(body.exit, body.user) # 0

\* ir_emit_deferred_calls_filtered: newest first, errdefers only if asked for.
RunsOldestFirst(stack, includeErr) ==
  LET upto[n \in 0 .. Len(stack)] ==
        IF n = 0 THEN <<>>
        ELSE IF includeErr \/ ~decls[stack[n]].err
        THEN upto[n - 1] \o RunOf(stack[n])
        ELSE upto[n - 1]
  IN  upto[Len(stack)]
Runs(stack, includeErr) ==
  LET upto[n \in 0 .. Len(stack)] ==
        IF n = 0 THEN <<>>
        ELSE IF includeErr \/ ~decls[stack[n]].err
        THEN RunOf(stack[n]) \o upto[n - 1]
        ELSE upto[n - 1]
  IN  upto[Len(stack)]
CanRun(stack, includeErr) ==
  \A k \in 1 .. Len(stack) : (includeErr \/ ~decls[stack[k]].err) => Lowerable(stack[k])

\* ir_emit_deferred_scopes, ir_emit_deferred_scopes_non_err: from the innermost
\* scope to the function's.
ScopeRunsInnermost(includeErr) == Runs(scopes[Len(scopes)], includeErr)
ScopeRuns(includeErr) ==
  LET all[n \in 0 .. Len(scopes)] ==
        IF n = 0 THEN <<>> ELSE Runs(scopes[n], includeErr) \o all[n - 1]
  IN  all[Len(scopes)]

\* ir_emit_return_with_defers; v is 0, 1 (any nonzero value) or, for a return
\* without a value, 0.
ReturnCode(v, ctx) ==
  LET ok == labels
      end == labels + 1
  IN  IF ~ctx THEN <<Instr("value", v, FALSE), Instr("return", v, TRUE)>>
      ELSE <<Instr("value", v, FALSE), Instr("brz", ok, FALSE)>>
           \o ScopeRuns(TRUE)
           \o <<Jump(end), Label(ok)>>
           \o ScopeRuns(FALSE)
           \o <<Label(end), Instr("return", v, FALSE)>>
CanReturn(ctx) == ctx => \A n \in 1 .. Len(scopes) : CanRun(scopes[n], TRUE)

-----------------------------------------------------------------------------
\* A statement may be lowered inside a block, or as the only statement of an
\* arm or a loop body.
CanStart(kind) ==
  /\ phase = "lowering" /\ kind \in Statements
  /\ used + Weight[kind] <= MaxWeight
  /\ Top.kind # "switch" /\ Top.left > 0
Begin(kind) ==
  /\ CanStart(kind)
  /\ used' = used + Weight[kind]
\* The enclosing statement, with one statement fewer to come.
Outer == [Top EXCEPT !.left = IF Top.kind = "block" THEN @ ELSE @ - 1]
Into(item) == open' = Append(Append(Under, Outer), item)
Simple == open' = Append(Under, Outer)
Emit(instrs) == code' = code \o instrs
NotRunning == UNCHANGED <<phase, execution>>
\* Lowering failed: the function is given up.
Reject ==
  /\ phase' = "rejected"
  /\ UNCHANGED <<scopes, frames, code, labels, decls, execution>>

BlockItem(ctx, depth) == Item("block", ctx, depth + 1, 1, 0, 0)

\* AST_PROGRAM: with defers = NULL no scope is created.
Block ==
  /\ Begin("block")
  /\ Into(BlockItem(Ctx, Depth))
  /\ scopes' = IF Ctx THEN Append(scopes, <<>>) ELSE scopes
  /\ Emit(<<Instr("open", 0, FALSE)>>)
  /\ UNCHANGED <<frames, labels, decls>> /\ NotRunning

ScopesAfterBlockKept == scopes
ScopesAfterBlock == SubSeq(scopes, 1, Len(scopes) - 1)

\* The end of a block: its own defers, then the scope is gone.
EndBlock ==
  LET own == scopes[Len(scopes)]
  IN  /\ phase = "lowering" /\ Len(open) > 1 /\ Top.kind = "block"
      /\ open' = Under /\ UNCHANGED used
      /\ IF ~Ctx THEN /\ Emit(<<Instr("close", 0, FALSE)>>)
                      /\ UNCHANGED <<scopes, frames, labels, decls>> /\ NotRunning
         ELSE IF CanRun(own, FALSE)
         THEN /\ Emit(Runs(own, FALSE) \o <<Instr("close", 0, FALSE)>>)
              /\ scopes' = ScopesAfterBlock
              /\ UNCHANGED <<frames, labels, decls>> /\ NotRunning
         ELSE Reject

\* type_checker_check_statement lets a break stand inside a loop or a switch and
\* a continue inside a loop; labels are not looked at.
Checked(body) ==
  /\ body.exit = "break" => frames # <<>>
  /\ body.exit = "continue" => \E i \in 1 .. Len(frames) : frames[i].cont # 0

\* AST_DEFER_STATEMENT, AST_ERRDEFER_STATEMENT: recorded when there is a scope,
\* forgotten when defers is NULL.
Defer(kind, body) ==
  LET d == Len(decls) + 1
      n == Len(scopes)
      weight == Weight[kind] + (IF body = Plain THEN 0 ELSE Weight[body.exit])
  IN  /\ CanStart(kind) /\ used + weight <= MaxWeight
      /\ Checked(body)
      /\ used' = used + weight
      /\ Simple
      /\ decls' = Append(decls, [err |-> kind = "errdefer", ctx |-> Ctx,
                                 bare |-> Top.kind # "block", body |-> body])
      /\ scopes' = IF Ctx THEN [scopes EXCEPT ![n] = Append(@, d)] ELSE scopes
      /\ Emit(<<Instr("defer", d, FALSE)>>)
      /\ UNCHANGED <<frames, labels>> /\ NotRunning

\* AST_IF_STATEMENT, its arms one after the other.
If ==
  /\ Begin("if")
  /\ Into(Item("arm", Ctx, Depth, 1, labels, labels + 1))
  /\ labels' = FreshAfter(2)
  /\ Emit(<<Branch(labels)>>)
  /\ UNCHANGED <<scopes, frames, decls>> /\ NotRunning

EndArm ==
  LET done == <<Jump(Top.end), Label(Top.next)>>
  IN  /\ phase = "lowering" /\ Top.kind = "arm" /\ Top.left = 0
      /\ \/ /\ Emit(done \o <<Label(Top.end)>>)             \* no else branch
            /\ open' = Under /\ UNCHANGED <<labels, used>>
         \/ /\ used + Weight["if"] <= MaxWeight              \* else if
            /\ Emit(done \o <<Branch(labels)>>)
            /\ open' = Append(Under, [Top EXCEPT !.left = 1, !.next = labels])
            /\ labels' = FreshAfter(1) /\ used' = used + Weight["if"]
         \/ /\ used < MaxWeight                              \* else
            /\ Emit(done)
            /\ open' = Append(Under, [Top EXCEPT !.kind = "else", !.left = 1])
            /\ UNCHANGED <<labels, used>>
      /\ UNCHANGED <<scopes, frames, decls>> /\ NotRunning

EndElse ==
  /\ phase = "lowering" /\ Top.kind = "else" /\ Top.left = 0
  /\ Emit(<<Label(Top.end)>>)
  /\ open' = Under
  /\ UNCHANGED <<scopes, frames, labels, decls, used>> /\ NotRunning

\* AST_WHILE_STATEMENT: continue goes back to the condition.
While(user) ==
  LET start == labels
      end == labels + 1
  IN  /\ Begin("while")
      /\ Into(Item("while", Ctx, Depth, 1, start, end))
      /\ labels' = FreshAfter(2)
      /\ Emit(<<Label(start), Branch(end)>>)
      /\ frames' = Append(frames, [brk |-> end, cont |-> start, user |-> user])
      /\ UNCHANGED <<scopes, decls>> /\ NotRunning

\* AST_FOR_STATEMENT: continue goes to the step; the condition may be missing.
For(user, hasCondition) ==
  LET cond == labels
      step == labels + 1
      end == labels + 2
  IN  /\ Begin("for")
      /\ Into(Item("for", Ctx, Depth, 1, cond, end))
      /\ labels' = FreshAfter(3)
      /\ Emit(IF hasCondition THEN <<Label(cond), Branch(end)>> ELSE <<Label(cond)>>)
      /\ frames' = Append(frames, [brk |-> end, cont |-> step, user |-> user])
      /\ UNCHANGED <<scopes, decls>> /\ NotRunning

StepLabelMissing == <<>>
StepLabel == IF Top.kind = "for" THEN <<Label(Top.next + 1)>> ELSE <<>>

EndLoop ==
  /\ phase = "lowering" /\ Top.kind \in {"while", "for"} /\ Top.left = 0
  /\ Emit(StepLabel \o <<Jump(Top.next), Label(Top.end)>>)
  /\ frames' = SubSeq(frames, 1, Len(frames) - 1)
  /\ open' = Under
  /\ UNCHANGED <<scopes, labels, decls, used>> /\ NotRunning

\* ir_lower_switch_statement with n cases, the last one a default or not: the
\* dispatch chain, then the bodies, which fall through.  Every body is lowered
\* with defers = NULL.
CaseCtx(ctx) == FALSE

Switch(n, hasDefault) ==
  LET end == labels
      dispatch == [i \in 1 .. n - (IF hasDefault THEN 1 ELSE 0) |-> Branch(labels + i)]
  IN  /\ Begin("switch")
      /\ open' = Append(Append(Append(Under, Outer),
                               Item("switch", Ctx, Depth, n - 1, labels + 1, end)),
                        BlockItem(CaseCtx(Ctx), Depth))
      /\ labels' = FreshAfter(n + 1)
      /\ Emit(dispatch
              \o <<Jump(IF hasDefault THEN labels + n ELSE end),
                   Label(labels + 1), Instr("open", 0, FALSE)>>)
      /\ scopes' = IF CaseCtx(Ctx) THEN Append(scopes, <<>>) ELSE scopes
      /\ frames' = Append(frames, [brk |-> end, cont |-> 0, user |-> NoUserLabel])
      /\ UNCHANGED decls /\ NotRunning

NextCase ==
  LET item == [Top EXCEPT !.left = @ - 1, !.next = @ + 1]
  IN  /\ phase = "lowering" /\ Top.kind = "switch" /\ Top.left > 0
      /\ open' = Append(Append(Under, item), BlockItem(CaseCtx(Ctx), Depth))
      /\ scopes' = IF CaseCtx(Ctx) THEN Append(scopes, <<>>) ELSE scopes
      /\ Emit(<<Label(item.next), Instr("open", 0, FALSE)>>)
      /\ UNCHANGED <<frames, labels, decls, used>> /\ NotRunning

EndSwitch ==
  /\ phase = "lowering" /\ Top.kind = "switch" /\ Top.left = 0
  /\ Emit(<<Label(Top.end)>>)
  /\ frames' = SubSeq(frames, 1, Len(frames) - 1)
  /\ open' = Under
  /\ UNCHANGED <<scopes, labels, decls, used>> /\ NotRunning

\* ir_lower_match_statement with n arms, the last one a default or not, each a
\* statement lowered with the enclosing defers and followed by a jump to the end.
Match(n, hasDefault) ==
  LET end == labels
      tests == [i \in 1 .. n - (IF hasDefault THEN 1 ELSE 0) |-> Branch(labels + i)]
  IN  /\ Begin("match")
      /\ open' = Append(Append(Append(Under, Outer),
                               Item("match", Ctx, Depth, n - 1, labels + 1, end)),
                        Item("body", Ctx, Depth, 1, 0, 0))
      /\ labels' = FreshAfter(n + 1)
      /\ Emit(tests \o <<Jump(IF hasDefault THEN labels + n ELSE end), Label(labels + 1)>>)
      /\ UNCHANGED <<scopes, frames, decls>> /\ NotRunning

EndMatchArm ==
  LET match == open[Len(open) - 1]
      arms == SubSeq(open, 1, Len(open) - 2)
  IN  /\ phase = "lowering" /\ Top.kind = "body" /\ Top.left = 0
      /\ IF match.left > 0
         THEN /\ Emit(<<Jump(match.end), Label(match.next + 1)>>)
              /\ open' = arms \o <<[match EXCEPT !.left = @ - 1, !.next = @ + 1],
                                   [Top EXCEPT !.left = 1]>>
         ELSE /\ Emit(<<Jump(match.end), Label(match.end)>>)
              /\ open' = arms
      /\ UNCHANGED <<scopes, frames, labels, decls, used>> /\ NotRunning

-----------------------------------------------------------------------------
\* AST_BREAK_STATEMENT, AST_CONTINUE_STATEMENT: a jump and nothing else, or an
\* error that stops the compilation.
BreakOrContinue(kind, user) ==
  /\ Begin(kind)
  /\ Simple
  /\ IF TargetFrame(kind, user) = 0 THEN Reject
     ELSE /\ Emit(<<Instr("jump", JumpTarget(kind, user), TRUE)>>)
          /\ UNCHANGED <<scopes, frames, labels, decls>> /\ NotRunning

\* AST_RETURN_STATEMENT.
Return(v) ==
  /\ Begin("return")
  /\ Simple
  /\ IF ~CanReturn(Ctx) THEN Reject
     ELSE /\ Emit(ReturnCode(v, Ctx))
          /\ labels' = FreshAfter(2)
          /\ UNCHANGED <<scopes, frames, decls>> /\ NotRunning

\* The last instruction that is not a mark is a return.
Returns(instr) == instr.op = "return" \/ (instr.op = "bodyreturn" /\ instr.flag)
EndsInReturn ==
  \E i \in 1 .. Len(code) :
    /\ Returns(code[i])
    /\ \A k \in i + 1 .. Len(code) : code[k].op \in {"open", "close", "defer", "value"}

\* The end of ir_lower_function: the body's block, then an implicit return with
\* the root scope's defers unless the code already ends in a return.
NeedsImplicitReturn == ~EndsInReturn

EndFunction ==
  /\ phase = "lowering" /\ Len(open) = 1 /\ Top.kind = "root"
  /\ UNCHANGED <<open, used>>
  /\ IF NeedsImplicitReturn /\ ~CanReturn(TRUE) THEN Reject
     ELSE /\ phase' = "running"
          /\ code' = IF NeedsImplicitReturn THEN code \o ReturnCode(0, TRUE) ELSE code
          /\ labels' = FreshAfter(2)
          /\ UNCHANGED <<scopes, frames, decls, execution>>

-----------------------------------------------------------------------------
\* The run of the emitted code.
Here == code[pc]
PositionOf(l) == CHOOSE i \in 1 .. Len(code) : code[i].op = "label" /\ code[i].arg = l
Executing(op) ==
  /\ phase = "running" /\ steps < MaxSteps /\ pc <= Len(code) /\ Here.op = op
  /\ steps' = steps + 1
  /\ UNCHANGED lowering
Continue == pc' = pc + 1 /\ UNCHANGED phase

Ids(entries) == {entries[i].id : i \in 1 .. Len(entries)}
\* Scopes deeper than depth are left: what was still pending there is lost.
Leave(depth, how) ==
  LET lost == SelectSeq(pending, LAMBDA e : e.depth > depth)
  IN  /\ pending' = SelectSeq(pending, LAMBDA e : e.depth <= depth)
      /\ missed' = missed \cup {[id |-> d, how |-> how] :
                                  d \in {x \in Ids(lost) : ~decls[x].err}}

Goto(l, how) ==
  /\ pc' = PositionOf(l)
  /\ Leave(code[PositionOf(l)].depth, how)
  /\ UNCHANGED phase

RunLabelOrOpen ==
  /\ Executing("label") \/ Executing("open")
  /\ Continue
  /\ UNCHANGED <<value, pending, missed, wild, misordered, abandoned>>

RunJump ==
  /\ Executing("jump")
  /\ Goto(Here.arg, IF Here.flag THEN "jump" ELSE "leak")
  /\ UNCHANGED <<value, wild, misordered, abandoned>>

\* A condition of the source decides.
RunBranch ==
  /\ Executing("branch")
  /\ \/ Goto(Here.arg, "leak")
     \/ Continue /\ UNCHANGED <<pending, missed>>
  /\ UNCHANGED <<value, wild, misordered, abandoned>>

RunValue ==
  /\ Executing("value")
  /\ value' = Here.arg
  /\ Continue
  /\ UNCHANGED <<pending, missed, wild, misordered, abandoned>>

RunBranchZero ==
  /\ Executing("brz")
  /\ IF value = 0 THEN Goto(Here.arg, "leak")
     ELSE Continue /\ UNCHANGED <<pending, missed>>
  /\ UNCHANGED <<value, wild, misordered, abandoned>>

ReachDefer ==
  /\ Executing("defer")
  /\ pending' = Append(pending, [id |-> Here.arg, depth |-> Here.depth])
  /\ Continue
  /\ UNCHANGED <<value, missed, wild, misordered, abandoned>>

CloseBlock ==
  /\ Executing("close")
  /\ Leave(Here.depth - 1, "close")
  /\ Continue
  /\ UNCHANGED <<value, wild, misordered, abandoned>>

\* A deferred statement runs: its newest pending registration is used up.
RunDeferred ==
  LET at == {i \in 1 .. Len(pending) : pending[i].id = Here.arg}
      k == CHOOSE i \in at : \A j \in at : j <= i
      newer == {i \in k + 1 .. Len(pending) :
                  LET e == decls[pending[i].id]
                  IN  (~e.err \/ value # 0) /\ ~e.bare}
  IN  /\ Executing("run")
      /\ IF at = {} THEN wild' = wild \cup {Here.arg} /\ UNCHANGED <<pending, misordered>>
         ELSE /\ pending' = SubSeq(pending, 1, k - 1) \o SubSeq(pending, k + 1, Len(pending))
              /\ misordered' = (misordered \/ newer # {})
              /\ UNCHANGED wild
      /\ Continue
      /\ UNCHANGED <<value, missed, abandoned>>

\* The function is left: what was still pending is lost.
Finish(how) ==
  /\ phase' = "returned"
  /\ missed' = missed \cup {[id |-> d, how |-> how] :
                              d \in {x \in Ids(pending) : ~decls[x].err \/ value # 0}}
  /\ pending' = <<>>
  /\ UNCHANGED pc

RunReturn ==
  /\ Executing("return")
  /\ Finish(IF Here.flag THEN "switch" ELSE "return")
  /\ UNCHANGED <<value, wild, misordered, abandoned>>

\* A deferred body ends the function, or, on some path, does not.
RunBodyReturn ==
  /\ Executing("bodyreturn")
  /\ \/ Finish("deferred")
     \/ ~Here.flag /\ Continue /\ UNCHANGED <<pending, missed>>
  /\ UNCHANGED <<value, wild, misordered, abandoned>>

\* A deferred body jumps away: the rest of the cleanup, and the return it was
\* for, if any, are given up.
CleanupOps == {"run", "bodyreturn", "bodyjump"}
RunSoFar ==
  {code[k].arg : k \in {i \in 1 .. pc : /\ code[i].op = "run"
                                      /\ \A j \in i .. pc : code[j].op \in CleanupOps}}
RunBodyJump ==
  /\ Executing("bodyjump")
  /\ \/ /\ Goto(Here.arg, "deferred")
        /\ value' = 0
        /\ abandoned' = abandoned \cup RunSoFar
     \/ ~Here.flag /\ Continue /\ UNCHANGED <<value, pending, missed, abandoned>>
  /\ UNCHANGED <<wild, misordered>>


Init ==
  /\ phase = "lowering"
  /\ open = <<Item("root", TRUE, 0, 0, 0, 0), Item("block", TRUE, 1, 1, 0, 0)>>
  /\ scopes = <<<<>>, <<>>>>
  /\ frames = <<>>
  /\ code = <<[op |-> "label", arg |-> 1, flag |-> FALSE, depth |-> 0],
              [op |-> "open", arg |-> 0, flag |-> FALSE, depth |-> 0]>>
  /\ labels = 2 /\ decls = <<>> /\ used = 0
  /\ pc = 1 /\ value = 0 /\ pending = <<>> /\ steps = 0
  /\ missed = {} /\ wild = {} /\ misordered = FALSE /\ abandoned = {}

Lower ==
  \/ Block \/ EndBlock \/ If \/ EndArm \/ EndElse \/ EndLoop
  \/ NextCase \/ EndSwitch \/ EndMatchArm \/ EndFunction
  \/ \E kind \in {"defer", "errdefer"}, body \in Bodies : Defer(kind, body)
  \/ \E user \in LoopLabels \cup {NoUserLabel} : 
       \/ While(user)
       \/ \E hasCondition \in BOOLEAN : For(user, hasCondition)
  \/ \E n \in 1 .. 2, hasDefault \in BOOLEAN :
       Switch(n, hasDefault) \/ Match(n, hasDefault)
  \/ \E kind \in {"break", "continue"}, user \in LoopLabels \cup {NoUserLabel} :
       BreakOrContinue(kind, user)
  \/ \E v \in {0, 1} : Return(v)

Run ==
  \/ RunLabelOrOpen \/ RunJump \/ RunBranch \/ RunValue \/ RunBranchZero
  \/ ReachDefer \/ CloseBlock \/ RunDeferred \/ RunReturn
  \/ RunBodyReturn \/ RunBodyJump

Next == Lower \/ Run

Spec == Init /\ [][Next]_vars

-----------------------------------------------------------------------------
\* When a function is finished, every label its jumps and branches name has been
\* placed exactly once, the control stack is empty and only the root scope is
\* left, whatever way loops, switches, matches, breaks and returns nest, and
\* control never runs off its end: when the last instruction is not a return,
\* ir_lower_function appends one.
CodeWellFormed ==
  phase = "running" =>
    /\ pc <= Len(code)
    /\ frames = <<>> /\ Len(scopes) = 1
    /\ \A i \in 1 .. Len(code) : code[i].op \in {"jump", "branch", "brz", "bodyjump"} =>
         Cardinality({k \in 1 .. Len(code) : code[k].op = "label"
                                              /\ code[k].arg = code[i].arg}) = 1

\* Deferred statements of braced bodies run newest first, on every path.
LastInFirstOut == ~misordered

\* Whatever exit is taken, a defer that was reached runs before its scope is
\* gone, with exactly five exceptions: its scope was left by break or continue,
\* the function returned from inside a switch case, a deferred body returned or
\* jumped away before its turn, the defer itself stands in a switch case, or it
\* is the unbraced body of a loop that came round again.
DefersRunAtExit ==
  \A m \in missed : \/ m.how \in {"jump", "switch", "deferred"}
                    \/ ~decls[m.id].ctx
                    \/ decls[m.id].bare

\* An errdefer runs only on the way to a return of a nonzero value, whatever
\* return it was emitted for: ir_emit_return_with_defers tests the value first.
ErrdefersRunOnError ==
  (phase = "running" /\ pc <= Len(code) /\ Here.op = "run" /\ decls[Here.arg].err)
    => value # 0

\* A deferred statement runs once for each time its statement was reached, and
\* never otherwise, unless it is the unbraced body of an if, a loop or an arm, or
\* it has run before for a return that a deferred body's break or continue then
\* undid; an errdefer runs only on the way to a return of a nonzero value.
OnlyDueDefersRun ==
  /\ \A d \in wild : decls[d].bare \/ d \in abandoned
  /\ ErrdefersRunOnError

==============================================================================
