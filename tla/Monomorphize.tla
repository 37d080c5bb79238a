---------------------------- MODULE Monomorphize ----------------------------
(***************************************************************************)
(* src/src/semantic/monomorphize.c: generics and traits are compiled away  *)
(* before type checking.  A type is its text, a sequence of tokens, and an *)
(* instance of a generic is known by its mangled name only; whether a name *)
(* still means the type its author wrote is what this module asks.         *)
(*                                                                         *)
(* A declaration has a signature (the types of a struct's fields, or of a  *)
(* function's parameters and its result) and a body, the sequence of its   *)
(* nodes that carry a type or call something.  A node is `walked' when the *)
(* three walks over the tree (substitute_types_in_ast, collect_type_       *)
(* instantiations, rewrite_generic_references) reach it; none enters match *)
(* arms or casts.  `from' and `binds' are not in the code: the types as    *)
(* they stand in the source and what the type parameters are bound to.     *)
(***************************************************************************)
EXTENDS Integers, Sequences, FiniteSets
LOCAL INSTANCE SequencesExt
LOCAL INSTANCE FiniteSetsExt

CONSTANTS
    Programs,       \* the programs the pass is given
    Builtin,        \* texts of the types that need no declaration
    MaxInstances    \* bound on the instances made; the code has none

ASSUME InstancesAssumption == MaxInstances \in Nat

VARIABLES
    source,         \* the program as parsed
    prog,           \* prog->declarations
    traits, impls, defs,    \* MonoContext: what collect_generic_defs found
    instances,      \* ctx.instances
    processed,      \* the instances the loop of step 3 is done with
    phase

vars == <<source, prog, traits, impls, defs, instances, processed, phase>>

----------------------------------------------------------------------------
(* Type texts.                                                             *)

Ptr == "*"
IsArray(token) == token \in {"[4]"}

Nesting(t, i) ==
    Cardinality({j \in 1 .. i : t[j] = "<"}) - Cardinality({j \in 1 .. i : t[j] = ">"})
Opens(t)  == {i \in 1 .. Len(t) : t[i] = "<"}
Closes(t) == {i \in 1 .. Len(t) : t[i] = ">" /\ Nesting(t, i) = 0 /\ Opens(t) # {} /\ i > Min(Opens(t))}

\* The pieces of t between the commas outside every bracket.
Pieces(t) ==
    LET cuts == SetToSortSeq({0, Len(t) + 1} \cup {i \in 1 .. Len(t) : t[i] = "," /\ Nesting(t, i) = 0}, <)
    IN  [k \in 1 .. Len(cuts) - 1 |-> SubSeq(t, cuts[k] + 1, cuts[k + 1] - 1)]

\* parse_generic_type_name: the base and the arguments; what follows the
\* closing bracket is lost.
IsGeneric(t) == Opens(t) # {} /\ Closes(t) # {}
Base(t) == SubSeq(t, 1, Min(Opens(t)) - 1)
Args(t) == Pieces(SubSeq(t, Min(Opens(t)) + 1, Min(Closes(t)) - 1))

\* mangle_name.
MangledToken(c) == IF c = Ptr THEN <<"_", "ptr">> ELSE IF c \in {"<", ">", ","} THEN <<"_">> ELSE <<c>>
Mangled(base, args) ==
    base \o FlattenSeq([i \in 1 .. Len(args) |->
                <<"_", "_">> \o FlattenSeq([j \in 1 .. Len(args[i]) |-> MangledToken(args[i][j])])])

\* The text without its array suffix and its pointers, and what was cut off.
Unsuffixed(t) ==
    LET brackets == {i \in 1 .. Len(t) : IsArray(t[i]) /\ Nesting(t, i) = 0}
        upto == IF brackets = {} THEN Len(t) ELSE Min(brackets) - 1
        stars == {n \in 0 .. upto : \A i \in n + 1 .. upto : t[i] = Ptr}
    IN  Min(stars)
Core(t)   == SubSeq(t, 1, Unsuffixed(t))
Suffix(t) == SubSeq(t, Unsuffixed(t) + 1, Len(t))

WithInstanceAgain(insts, base, args) ==
    Append(insts, [generic |-> base, args |-> args, name |-> Mangled(base, args)])
\* mono_add_instantiation: an instance is made once per mangled name.
WithInstance(insts, base, args) ==
    LET name == Mangled(base, args)
    IN  IF \E i \in 1 .. Len(insts) : insts[i].name = name THEN insts
        ELSE Append(insts, [generic |-> base, args |-> args, name |-> name])
\* substitute_type_string: the new text, and the instances with those it used.
\* A type parameter is replaced by its argument as written.
RECURSIVE Substituted(_, _, _, _), SubstitutedFrom(_, _, _, _)
AndText(done, one) == [texts |-> Append(done.texts, one.text), insts |-> one.insts]
SubstitutedFrom(done, ts, params, args) ==
    IF ts = <<>> THEN done
    ELSE SubstitutedFrom(AndText(done, Substituted(Head(ts), params, args, done.insts)), Tail(ts), params, args)
SubstitutedAll(ts, params, args, insts) == SubstitutedFrom([texts |-> <<>>, insts |-> insts], ts, params, args)

InstanceOf(base, inner, suffix) ==
    [text |-> Mangled(base, inner.texts) \o suffix, insts |-> WithInstance(inner.insts, base, inner.texts)]
Substituted(t, params, args, insts) ==
    LET core == Core(t)
        bound == {i \in 1 .. Len(params) : core = params[i]}
    IN  IF bound # {} THEN [text |-> args[Min(bound)] \o Suffix(t), insts |-> insts]
        ELSE IF ~IsGeneric(core) THEN [text |-> t, insts |-> insts]
        ELSE InstanceOf(Base(core), SubstitutedAll(Args(core), params, args, insts), Suffix(t))

\* rewrite_generic_type_name_in_place: only trailing pointers survive.
Stars(t) == {n \in 0 .. Len(t) : \A i \in n + 1 .. Len(t) : t[i] = Ptr}
Rewritten(t) ==
    LET core == SubSeq(t, 1, Min(Stars(t)))
    IN  IF IsGeneric(core) THEN Mangled(Base(core), Args(core)) \o SubSeq(t, Len(core) + 1, Len(t)) ELSE t

----------------------------------------------------------------------------
(* The three walks over a body.                                            *)

\* substitute_types_in_ast, for one node and for a body.
SubstitutedNode(n, params, args, insts) ==
    LET Typed(r)  == [node |-> [n EXCEPT !.text = r.text], insts |-> r.insts]
        Called(r) == [node |-> [n EXCEPT !.targs = r.texts], insts |-> r.insts]
    IN  IF ~n.walked \/ n.kind = "cast" THEN [node |-> n, insts |-> insts]
        ELSE IF n.kind = "call" THEN Called(SubstitutedAll(n.targs, params, args, insts))
        ELSE Typed(Substituted(n.text, params, args, insts))
AndNode(done, one) == [body |-> Append(done.body, one.node), insts |-> one.insts]
RECURSIVE SubstitutedNodes(_, _, _, _)
SubstitutedNodes(done, body, params, args) ==
    IF body = <<>> THEN done
    ELSE SubstitutedNodes(AndNode(done, SubstitutedNode(Head(body), params, args, done.insts)), Tail(body), params, args)
SubstitutedBody(body, params, args, insts) == SubstitutedNodes([body |-> <<>>, insts |-> insts], body, params, args)

\* record_generic_type_use.
WithUse(insts, t) == IF IsGeneric(t) THEN WithInstance(insts, Base(t), Args(t)) ELSE insts

\* collect_type_instantiations: the body, then the signature, of a function
\* that is not generic; the fields of a struct are not looked at.
WithNode(insts, n) ==
    IF ~n.walked \/ n.kind = "cast" THEN insts
    ELSE IF n.kind # "call" THEN WithUse(insts, n.text)
    ELSE IF n.targs = <<>> THEN insts ELSE WithInstance(insts, n.text, n.targs)
RECURSIVE WithNodes(_, _), WithUses(_, _), CollectedAll(_, _)
WithNodes(insts, body) == IF body = <<>> THEN insts ELSE WithNodes(WithNode(insts, Head(body)), Tail(body))
WithUses(insts, sig)   == IF sig = <<>> THEN insts ELSE WithUses(WithUse(insts, Head(sig)), Tail(sig))
Collected(insts, d) ==
    IF d.kind # "fn" \/ d.params # <<>> THEN insts
    ELSE WithUses(WithNodes(insts, d.body), d.sig)
CollectedAll(insts, decls) == IF decls = <<>> THEN insts ELSE CollectedAll(Collected(insts, Head(decls)), Tail(decls))

\* rewrite_generic_references.
RewrittenNode(n) ==
    IF ~n.walked THEN n
    ELSE CASE n.kind = "var"  -> [n EXCEPT !.text = Rewritten(@)]
           [] n.kind = "new"  -> [n EXCEPT !.text = IF IsGeneric(@) THEN Mangled(Base(@), Args(@)) ELSE @]
           [] n.kind = "call" -> IF n.targs = <<>> THEN n
                                 ELSE [n EXCEPT !.text = Mangled(@, n.targs), !.targs = <<>>]
           [] n.kind = "cast" -> n
RewrittenDecl(d) ==
    IF d.kind \notin {"fn", "struct"} \/ d.params # <<>> THEN d
    ELSE [d EXCEPT !.sig = [k \in 1 .. Len(@) |-> Rewritten(@[k])],
                   !.body = [k \in 1 .. Len(@) |-> RewrittenNode(@[k])]]

----------------------------------------------------------------------------
(* Traits and their implementations.                                       *)

Decls(kind) == SelectSeq(prog, LAMBDA d : d.kind = kind)
Indices(s) == 1 .. Len(s)

\* mono_type_implements_trait compares texts.
Implements(trait, t, known) == \E i \in Indices(known) : known[i].trait = trait /\ known[i].for = t

MethodNamed(methods, name) ==
    LET at == {i \in Indices(methods) : methods[i].name = name}
    IN  IF at = {} THEN <<>> ELSE <<methods[Min(at)]>>

\* mono_validate_impl_methods.  Both sides are compared after Self has been
\* replaced.  (The instances this records are recorded again when the methods
\* are emitted, so only their order could differ; they are left out here.)
Self == <<"Self">>
SameSignature(a, b, for) ==
    /\ Len(a.sig) = Len(b.sig)
    /\ \A k \in Indices(a.sig) :
          Substituted(a.sig[k], <<Self>>, <<for>>, <<>>).text = Substituted(b.sig[k], <<Self>>, <<for>>, <<>>).text
ValidImpl(trait, impl) ==
    \A i \in Indices(trait.methods) :
        LET m == MethodNamed(impl.methods, trait.methods[i].name)
        IN  m # <<>> /\ SameSignature(trait.methods[i], m[1], impl.for)

\* mono_mangle_impl_method_name.
SanitizedToken(c) == IF c \in {"<", ">", ",", "*", "[4]"} THEN "_" ELSE c
MethodSymbol(trait, for, method) ==
    <<"__trait_", trait, "_", "_">> \o [i \in Indices(for) |-> SanitizedToken(for[i])] \o <<"_", "_", method>>

\* mono_add_trait: a second declaration of the name is an error.
TraitsUnique == \A i, j \in Indices(Decls("trait")) :
                    Decls("trait")[i].name = Decls("trait")[j].name => i = j
\* mono_add_impl: the trait exists and the text has no impl of it yet.
ImplsAccepted ==
    LET declared == Decls("trait") known == Decls("impl") IN
    \A i \in Indices(known) :
        \E k \in Indices(declared) :
            /\ declared[k].name = known[i].trait
            /\ ~Implements(known[i].trait, known[i].for, SubSeq(known, 1, i - 1))
            /\ ValidImpl(declared[k], known[i])
\* mono_validate_bound_traits.
BoundsKnown ==
    \A i \in Indices(prog) : \A k \in Indices(prog[i].bounds) :
        prog[i].bounds[k] \subseteq {Decls("trait")[j].name : j \in Indices(Decls("trait"))}

\* collect_generic_defs; any error ends the pass.
CollectDefs ==
    /\ phase = "defs"
    /\ traits' = Decls("trait")
    /\ impls' = Decls("impl")
    /\ defs' = SelectSeq(prog, LAMBDA d : d.params # <<>>)
    /\ phase' = IF TraitsUnique /\ ImplsAccepted /\ BoundsKnown THEN "impls" ELSE "failed"
    /\ UNCHANGED <<source, prog, instances, processed>>

\* mono_create_impl_method_function for one method of one impl.
ImplMethod(impl, m, insts) ==
    LET sig == SubstitutedAll(m.sig, <<Self>>, <<impl.for>>, insts)
        body == SubstitutedBody(m.body, <<Self>>, <<impl.for>>, sig.insts)
    IN  [decl |-> [kind |-> "fn", name |-> MethodSymbol(impl.trait, impl.for, m.name),
                   params |-> <<>>, bounds |-> <<>>, vars |-> m.vars,
                   sig |-> sig.texts, body |-> body.body,
                   from |-> [sig |-> m.sig, body |-> m.body], binds |-> <<<<Self, impl.for>>>>],
         insts |-> body.insts]

AndMethod(done, one) == [decls |-> Append(done.decls, one.decl), insts |-> one.insts]
RECURSIVE Emitted(_, _)
Emitted(done, all) ==
    IF all = <<>> THEN done
    ELSE Emitted(AndMethod(done, ImplMethod(Head(all)[1], Head(all)[2], done.insts)), Tail(all))

\* mono_emit_impl_method_functions; without generics, step 2 to 4 are skipped.
EmitImplMethods ==
    LET all == FlattenSeq([i \in Indices(impls) |->
                  [j \in Indices(impls[i].methods) |-> <<impls[i], impls[i].methods[j]>>]])
        done == Emitted([decls |-> <<>>, insts |-> instances], all)
    IN  /\ phase = "impls"
        /\ prog' = prog \o done.decls
        /\ instances' = done.insts
        /\ phase' = IF defs = <<>> THEN "methods" ELSE "collect"
        /\ UNCHANGED <<source, traits, impls, defs, processed>>

----------------------------------------------------------------------------
(* Instances.                                                              *)

CollectUses ==
    /\ phase = "collect"
    /\ instances' = CollectedAll(instances, prog)
    /\ phase' = "instantiate"
    /\ UNCHANGED <<source, prog, traits, impls, defs, processed>>

\* find_generic_def.
DefsNamed(name) == {i \in Indices(defs) : defs[i].name = name}

\* mono_type_satisfies_bounds.
MeetsBounds(def, inst, k) == \A trait \in def.bounds[k] : Implements(trait, inst.args[k], impls)

\* validate_instantiation.
Valid(def, inst) ==
    /\ Len(def.params) = Len(inst.args)
    /\ \A k \in Indices(def.params) : MeetsBounds(def, inst, k)
CollectedFromNot(made) == made.insts
\* The scan of the declaration just made.
CollectedFrom(made) == Collected(made.insts, made.decl)
\* create_monomorphized_struct, create_monomorphized_function.
Instance(def, inst, insts) ==
    LET sig == SubstitutedAll(def.sig, def.params, inst.args, insts)
        body == SubstitutedBody(def.body, def.params, inst.args, sig.insts)
    IN  [decl |-> [def EXCEPT !.name = inst.name, !.params = <<>>, !.bounds = <<>>,
                              !.sig = sig.texts, !.body = body.body,
                              !.binds = [k \in Indices(inst.args) |-> <<def.params[k], inst.args[k]>>]],
         insts |-> body.insts]

\* inst points into ctx.instances.  A substitution that adds an instance may
\* move the array, and inst->type_args is read again for the next type of the
\* signature and once more for the body.
ReadsStale(def, inst) ==
    \E k \in Indices(def.sig) :
        /\ k < Len(def.sig) \/ def.kind = "fn"
        /\ SubstitutedAll(SubSeq(def.sig, 1, k), def.params, inst.args, instances).insts # instances

Current == instances[processed + 1]
Def == defs[Min(DefsNamed(Current.generic))]

InstantiateNext ==
    /\ phase = "instantiate"
    /\ processed < Len(instances)
    /\ Len(instances) <= MaxInstances
    /\ IF DefsNamed(Current.generic) = {}
         THEN processed' = processed + 1 /\ UNCHANGED <<prog, instances, phase>>
         ELSE IF ~Valid(Def, Current)
         THEN phase' = "failed" /\ UNCHANGED <<prog, instances, processed>>
         ELSE LET made == Instance(Def, Current, instances)
              IN  /\ prog' = Append(prog, made.decl)
                  /\ instances' = CollectedFrom(made)
                  /\ processed' = processed + 1
                  /\ UNCHANGED phase
    /\ UNCHANGED <<source, traits, impls, defs>>

\* The array was moved and the read goes through the freed block.
InstantiateStale ==
    /\ phase = "instantiate"
    /\ processed < Len(instances)
    /\ Len(instances) <= MaxInstances
    /\ DefsNamed(Current.generic) # {}
    /\ Valid(Def, Current)
    /\ ReadsStale(Def, Current)
    /\ phase' = "undefined"
    /\ UNCHANGED <<source, prog, traits, impls, defs, instances, processed>>

\* Step 4, once every instance has been made.
Rewrite ==
    /\ phase = "instantiate"
    /\ processed = Len(instances)
    /\ prog' = [i \in Indices(prog) |-> RewrittenDecl(prog[i])]
    /\ phase' = "methods"
    /\ UNCHANGED <<source, traits, impls, defs, instances, processed>>

----------------------------------------------------------------------------
(* Method calls, and the end.                                              *)

\* The MonoVarEnv of a function at node k: one flat table, a later
\* declaration of a name replaces an earlier one whatever block it is in.
VarType(d, k, name) ==
    LET locals == {j \in 1 .. k - 1 : d.body[j].kind = "var" /\ d.body[j].name = name}
        params == {j \in Indices(d.vars) : d.vars[j] = name}
    IN  IF locals # {} THEN <<d.body[Max(locals)].text>>
        ELSE IF params # {} THEN <<d.sig[Max(params)]>> ELSE <<>>

ProvidersFirst(t, method) ==
    LET all == {i \in Indices(impls) : impls[i].for = t /\ MethodNamed(impls[i].methods, method) # <<>>}
    IN  IF all = {} THEN {} ELSE {Min(all)}
\* mono_find_impl_for_method.
Providers(t, method) ==
    {i \in Indices(impls) : impls[i].for = t /\ MethodNamed(impls[i].methods, method) # <<>>}
\* mono_rewrite_trait_method_call.
ObjectProviders(d, k) ==
    LET n == d.body[k] t == VarType(d, k, n.name)
    IN  IF n.kind # "call" \/ n.name = "" \/ t = <<>> THEN {} ELSE Providers(t[1], n.text[1])
Dispatched(d, k) ==
    LET n == d.body[k] found == ObjectProviders(d, k)
    IN  IF Cardinality(found) # 1 THEN n
        ELSE LET impl == impls[Min(found)]
             IN  [n EXCEPT !.text = MethodSymbol(impl.trait, impl.for, n.text[1]), !.name = ""]
Callers == {i \in Indices(prog) : prog[i].kind = "fn" /\ prog[i].params = <<>>}

\* mono_rewrite_trait_method_calls: an ambiguous call ends the pass.
DispatchMethods ==
    /\ phase = "methods"
    /\ IF \E i \in Callers : \E k \in Indices(prog[i].body) : Cardinality(ObjectProviders(prog[i], k)) > 1
         THEN phase' = "failed" /\ UNCHANGED prog
         ELSE /\ phase' = "remove"
              /\ prog' = [i \in Indices(prog) |->
                    IF i \in Callers
                    THEN [prog[i] EXCEPT !.body = [k \in Indices(@) |-> Dispatched(prog[i], k)]]
                    ELSE prog[i]]
    /\ UNCHANGED <<source, traits, impls, defs, instances, processed>>

\* Step 5.
RemoveGenerics ==
    /\ phase = "remove"
    /\ prog' = SelectSeq(prog, LAMBDA d : d.params = <<>> /\ d.kind \in {"fn", "struct"})
    /\ phase' = "done"
    /\ UNCHANGED <<source, traits, impls, defs, instances, processed>>

Init ==
    /\ source \in Programs
    /\ prog = source
    /\ traits = <<>> /\ impls = <<>> /\ defs = <<>> /\ instances = <<>>
    /\ processed = 0
    /\ phase = "defs"

\* The pass has returned, or is given up at the bound.
Stop ==
    /\ phase \in {"done", "failed", "undefined"} \/ Len(instances) > MaxInstances
    /\ UNCHANGED vars

Next == CollectDefs \/ EmitImplMethods \/ CollectUses \/ InstantiateNext \/ InstantiateStale
          \/ Rewrite \/ DispatchMethods \/ RemoveGenerics \/ Stop
Spec == Init /\ [][Next]_vars

----------------------------------------------------------------------------
(* What the names mean.                                                    *)

Spelled(base, args) ==
    base \o <<"<">> \o FlattenSeq([k \in Indices(args) |-> IF k = 1 THEN args[k] ELSE <<",">> \o args[k]]) \o <<">">>

\* The type a text stands for, every instance spelled out.
RECURSIVE Denoted(_)
Denoted(t) ==
    LET core == Core(t)
        found == {i \in Indices(instances) : instances[i].name = core /\ DefsNamed(instances[i].generic) # {}}
        Of(base, args) == Spelled(base, [k \in Indices(args) |-> Denoted(args[k])]) \o Suffix(t)
    IN  IF IsGeneric(core) THEN Of(Base(core), Args(core))
        ELSE IF found # {} THEN Of(instances[Min(found)].generic, instances[Min(found)].args)
        ELSE t

\* The type a text of the source means in a declaration with these bindings.
Meant(t, binds) ==
    FlattenSeq([j \in Indices(t) |->
        LET k == {i \in Indices(binds) : binds[i][1] = <<t[j]>>}
        IN  IF k = {} THEN <<t[j]>> ELSE Denoted(binds[Min(k)][2])])

StructNames == {prog[i].name : i \in {j \in Indices(prog) : prog[j].kind = "struct"}}
FunctionNames == {prog[i].name : i \in {j \in Indices(prog) : prog[j].kind = "fn"}}

\* The types and the generic calls of a declaration, with what the source says.
Uses(d) ==
    {[now |-> d.sig[k], then |-> d.from.sig[k], call |-> FALSE, walked |-> TRUE] : k \in Indices(d.sig)}
    \cup
    {LET n == d.body[k] o == d.from.body[k] IN
       [now |-> n.text, then |-> IF o.targs = <<>> THEN o.text ELSE Spelled(o.text, o.targs),
        call |-> o.kind = "call", walked |-> o.walked /\ o.kind # "cast"]
     : k \in {j \in Indices(d.body) : d.from.body[j].kind # "call" \/ d.from.body[j].targs # <<>>}}

\* The declaration the text names exists and is the type the source means.
Kept(d, use) ==
    /\ IF use.call THEN use.now \in FunctionNames ELSE Core(use.now) \in Builtin \cup StructNames
    /\ Denoted(use.now) = Meant(use.then, d.binds)

Declared(use) == IsGeneric(use.then) => DefsNamed(Base(use.then)) # {}

\* What the three walks do not handle: a use they do not reach, a generic that
\* is not declared, a struct's field outside the generics, and in code that is not generic an array of an
\* instance and an instance as the argument of another.
Handled(d, use) ==
    /\ use.walked
    /\ Declared(use)
    /\ \A k \in Indices(d.binds) : ~IsGeneric(d.binds[k][2])
    /\ d.binds = <<>> /\ IsGeneric(use.then) =>
          /\ d.kind = "fn"
          /\ Cardinality(Opens(use.then)) = 1
          /\ \A j \in Indices(use.then) : ~IsArray(use.then[j])

\* One name stands for two types.
Clash ==
    LET meanings == UNION {{<<u.now, Meant(u.then, prog[i].binds)>> : u \in Uses(prog[i])} : i \in Indices(prog)}
    IN  Cardinality(meanings) # Cardinality({m[1] : m \in meanings})

\* Names keep their meaning: when the pass succeeds, each type and each generic
\* call it handles names a declaration that exists and is the instance, down to
\* pointers and arrays, that the source means there, inside instances of
\* instances too; unless two types got one name.
UsesKeepTheirMeaning ==
    phase = "done" /\ ~Clash =>
        \A i \in Indices(prog) : \A use \in Uses(prog[i]) : Handled(prog[i], use) => Kept(prog[i], use)

\* Bounds are decided on types, not on spellings: when the pass succeeds every
\* argument of every instance has the impls its parameter asks for, and an
\* instance is refused only when one is missing (or the argument is itself an
\* instance, whose impl is looked up under another spelling).
BoundsDecided ==
    LET Meets(inst, def) == \A k \in Indices(def.params) : \A trait \in def.bounds[k] :
                               Implements(trait, Denoted(inst.args[k]), impls)
    IN  /\ phase = "done" =>
              \A i \in Indices(instances) : \A j \in DefsNamed(instances[i].generic) :
                  Len(instances[i].args) = Len(defs[j].params) /\ Meets(instances[i], defs[j])
        /\ phase = "failed" /\ processed < Len(instances) =>
              \/ Len(Current.args) # Len(Def.params)
              \/ ~Meets(Current, Def)
              \/ \E k \in Indices(Current.args) : IsGeneric(Denoted(Current.args[k]))

\* A method call on a variable goes to the one impl its declared type has, in
\* instances too, and stays a member call when there is none; two impls end the
\* pass.  Only for names with one declaration in the function (the table of
\* variables knows no blocks) and types that are no instances (impls are found
\* by their text).
MethodsDispatchOnType ==
    phase = "done" =>
        \A i \in Callers :
          LET d == prog[i]
              Places(x) == {<<"local", j>> : j \in {j \in Indices(d.from.body) : d.from.body[j].kind = "var" /\ d.from.body[j].name = x}}
                             \cup {<<"param", j>> : j \in {j \in Indices(d.vars) : d.vars[j] = x}}
              TypeAt(p) == Meant(IF p[1] = "local" THEN d.from.body[p[2]].text ELSE d.from.sig[p[2]], d.binds)
          IN  \A k \in Indices(d.body) :
                LET o == d.from.body[k] IN
                o.kind = "call" /\ o.name # "" /\ Cardinality(Places(o.name)) = 1 =>
                  \A p \in Places(o.name) :
                    p[1] = "param" \/ p[2] < k =>
                      LET has == {j \in Indices(source) : /\ source[j].kind = "impl" /\ source[j].for = TypeAt(p)
                                                          /\ \E m \in Indices(source[j].methods) : source[j].methods[m].name = o.text[1]}
                      IN  IsGeneric(TypeAt(p)) \/
                          (IF has = {} THEN d.body[k].name = o.name /\ d.body[k].text = o.text
                           ELSE \E j \in has : /\ has = {j} /\ d.body[k].name = ""
                                                /\ d.body[k].text = MethodSymbol(source[j].trait, source[j].for, o.text[1]))

\* Impls are found by type, for bounds and for method calls.
ImplsFoundByType == BoundsDecided /\ MethodsDispatchOnType

\* The generic uses inside a definition, nested ones included.
RECURSIVE Nested(_)
Nested(t) == IF ~IsGeneric(Core(t)) THEN {}
             ELSE {<<Base(Core(t)), Args(Core(t))>>} \cup UNION {Nested(Args(Core(t))[k]) : k \in Indices(Args(Core(t)))}
Mentions(d) ==
    UNION ({Nested(d.sig[k]) : k \in Indices(d.sig)} \cup
           {IF d.body[k].kind = "call"
            THEN {<<d.body[k].text, d.body[k].targs>>} \cup UNION {Nested(d.body[k].targs[j]) : j \in Indices(d.body[k].targs)}
            ELSE Nested(d.body[k].text) : k \in Indices(d.body)})
RECURSIVE Reached(_)
Reached(names) ==
    LET next == names \cup {m[1] : m \in UNION {Mentions(source[i]) : i \in {j \in Indices(source) : source[j].params # <<>> /\ source[j].name \in names}}}
    IN  IF next = names THEN names ELSE Reached(next)
\* A generic comes back to itself with an argument built around a parameter.
GrowsForever ==
    \E i \in Indices(source) : source[i].params # <<>> /\
        \E m \in Mentions(source[i]) :
            /\ source[i].name \in Reached({m[1]})
            /\ \E k \in Indices(m[2]) : Len(m[2][k]) > 1

\* The loop over the instances ends, and soon, unless a generic instantiates
\* itself at ever larger types: that alone makes more instances than the program
\* has distinct uses, and the code does not limit it.
InstancesAreFinite == Len(instances) > MaxInstances => GrowsForever
=============================================================================
