---------------------------- MODULE SymbolTable ----------------------------
(***************************************************************************)
(* Types, symbols and scopes (src/src/semantic/symbol_table.c).            *)
(*                                                                         *)
(* A type is a tuple that starts with its kind:                            *)
(*   <<"int32">>, <<"float64">>, <<"bool">>, <<"string">>, <<"void">> ...  *)
(*   <<"ptr", base, name>>, <<"arr", base, length, name>>,                 *)
(*   <<"fn", parameter types, return type>>,                               *)
(*   <<"struct", name, fields, size, alignment>> with fields               *)
(*     [name, type, off], <<"enum", name>>,                                *)
(*   <<"tagged", name, variants, size, alignment, data offset>> with       *)
(*     variants <<name, payload type or Null>>.                            *)
(* A name is the sequence of its tokens.  A struct cannot refer to itself  *)
(* (its fields are resolved before it is declared), so types are finite.   *)
(*                                                                         *)
(* The table is a sequence of scopes, the global one first; a scope is     *)
(* [kind, syms, index], where index is the open-addressing hash table over *)
(* syms that replaces the linear scan in scopes that have grown (<<>>      *)
(* while there is none; a bucket holds 0 or a position in syms).           *)
(***************************************************************************)
EXTENDS Integers, Sequences

CONSTANTS Hash(_),                         \* mettle_fnv1a_hash
          SYMBOL_NAME_INDEX_MIN_SYMBOLS,   \* 24 in the code
          InitialBuckets                   \* 64 in the code

\* A new index has room for the symbols that make a scope worth indexing.
ASSUME IndexAssumption ==
  /\ SYMBOL_NAME_INDEX_MIN_SYMBOLS \in Nat /\ InitialBuckets \in Nat
  /\ (SYMBOL_NAME_INDEX_MIN_SYMBOLS + 1) * 10 < InitialBuckets * 7

RECURSIVE TypesCompatible(_, _), Probe(_, _, _), Vacant(_, _), Reindexed(_, _, _), Placed(_, _, _, _), VisibleFrom(_, _, _)

Null == <<>>
Kind(t) == t[1]

(***************************************************************************)
(* Types                                                                   *)
(***************************************************************************)
SizeOfKind == [k \in {"int8", "uint8", "bool", "int16", "uint16", "int32", "uint32", "float32", "int64", "uint64", "float64",
                      "ptr", "enum", "fn", "string", "void"} |->
  CASE k \in {"int8", "uint8", "bool"} -> 1 [] k \in {"int16", "uint16"} -> 2
    [] k \in {"int32", "uint32", "float32"} -> 4 [] k = "string" -> 16 [] k = "void" -> 0 [] OTHER -> 8]

RECURSIVE SizeOf(_), AlignOf(_)
SizeOf(t) == CASE Kind(t) \in {"struct", "tagged"} -> t[4] [] Kind(t) = "arr" -> SizeOf(t[2]) * t[3] [] OTHER -> SizeOfKind[Kind(t)]
AlignOf(t) == CASE Kind(t) \in {"struct", "tagged"} -> t[5] [] Kind(t) = "arr" -> AlignOf(t[2])
                [] Kind(t) = "string" -> 8 [] Kind(t) = "void" -> 1 [] OTHER -> SizeOfKind[Kind(t)]

\* Two types of one kind; only structs, pointers, arrays and functions are
\* looked into.
TypesCompatible(a, b) ==
  \/ a = b
  \/ /\ Kind(a) = Kind(b)
     /\ CASE Kind(a) = "fn" -> /\ Len(a[2]) = Len(b[2])
                               /\ TypesCompatible(a[3], b[3])
                               /\ \A i \in DOMAIN a[2] : TypesCompatible(a[2][i], b[2][i])
          [] Kind(a) = "arr" -> a[3] = b[3] /\ TypesCompatible(a[2], b[2])
          [] Kind(a) = "ptr" -> TypesCompatible(a[2], b[2])
          [] Kind(a) = "struct" -> a[2] = b[2]
          [] OTHER -> TRUE

\* The next offset from off on that is a multiple of align.
PadUp(off, align) == off + ((align - (off % align)) % align)

\* A bug: a field is not moved to its alignment.
PlacedTight(fields, i, placed, at) ==
  IF i > Len(fields) THEN [fields |-> placed, off |-> at.off, align |-> at.align]
  ELSE LET t == fields[i][2]
       IN  Placed(fields, i + 1, Append(placed, [name |-> fields[i][1], type |-> t, off |-> at.off]),
                  [off |-> at.off + SizeOf(t), align |-> IF AlignOf(t) > at.align THEN AlignOf(t) ELSE at.align])

\* Fields one after the other, each at its alignment: [fields, off, align].
Placed(fields, i, placed, at) ==
  IF i > Len(fields) THEN [fields |-> placed, off |-> at.off, align |-> at.align]
  ELSE LET t == fields[i][2]
           off == PadUp(at.off, AlignOf(t))
       IN  Placed(fields, i + 1, Append(placed, [name |-> fields[i][1], type |-> t, off |-> off]),
                  [off |-> off + SizeOf(t), align |-> IF AlignOf(t) > at.align THEN AlignOf(t) ELSE at.align])

\* type_create_struct; there is no struct without fields.
StructType(name, fields) ==
  LET p == Placed(fields, 1, <<>>, [off |-> 0, align |-> 1])
  IN  IF fields = <<>> THEN Null
      ELSE <<"struct", name, p.fields, PadUp(p.off, p.align), p.align>>

StringFields == <<[name |-> <<"chars">>, type |-> <<"ptr", <<"uint8">>, <<"uint8", "*">>>>, off |-> 0],
                  [name |-> <<"length">>, type |-> <<"uint64">>, off |-> 8]>>
FieldsOf(t) == IF Kind(t) = "string" THEN StringFields ELSE t[3]

\* The type of the first field of that name, or Null.
FieldType(t, name) ==
  LET f == SelectSeq(FieldsOf(t), LAMBDA x : x.name = name) IN IF f = <<>> THEN Null ELSE f[1].type

(***************************************************************************)
(* Symbols and scopes                                                      *)
(***************************************************************************)
Sym(name, kind, type) ==
  [name |-> name, kind |-> kind, type |-> type, ext |-> FALSE, link |-> name, fwd |-> FALSE,
   params |-> <<>>, value |-> 0, payload |-> Null]
NoSymbol == Sym(Null, "none", Null)

Scope(kind) == [kind |-> kind, syms |-> <<>>, index |-> <<>>]

FirstNamed(syms, name) ==
  IF \E i \in DOMAIN syms : syms[i].name = name
  THEN CHOOSE i \in DOMAIN syms : syms[i].name = name /\ \A j \in 1..(i - 1) : syms[j].name # name
  ELSE 0

\* Buckets are numbered from 1.
Bucket(index, name) == (Hash(name) % Len(index)) + 1
NextBucket(index, pos) == (pos % Len(index)) + 1
Vacant(index, pos) == IF index[pos] = 0 THEN pos ELSE Vacant(index, NextBucket(index, pos))

\* scope_name_index_rebuild
Reindexed(syms, i, index) ==
  IF i > Len(syms) THEN index
  ELSE Reindexed(syms, i + 1, [index EXCEPT ![Vacant(index, Bucket(index, syms[i].name))] = i])

\* A bug: the new symbol is left out of an index that has room for it.
WithIndexStale(scope) ==
  LET n == Len(scope.syms)
      size == Len(scope.index)
      room == IF size = 0 THEN InitialBuckets ELSE size * 2
  IN  IF n < SYMBOL_NAME_INDEX_MIN_SYMBOLS THEN scope
      ELSE IF size = 0 \/ (n + 1) * 10 >= size * 7
      THEN [scope EXCEPT !.index = Reindexed(scope.syms, 1, [i \in 1..room |-> 0])]
      ELSE scope

\* The index after the last symbol of scope has been appended.
WithIndex(scope) ==
  LET n == Len(scope.syms)
      size == Len(scope.index)
      room == IF size = 0 THEN InitialBuckets ELSE size * 2
  IN  IF n < SYMBOL_NAME_INDEX_MIN_SYMBOLS THEN scope
      ELSE IF size = 0 \/ (n + 1) * 10 >= size * 7
      THEN [scope EXCEPT !.index = Reindexed(scope.syms, 1, [i \in 1..room |-> 0])]
      ELSE [scope EXCEPT !.index[Vacant(scope.index, Bucket(scope.index, scope.syms[n].name))] = n]

Probe(scope, name, pos) ==
  LET i == scope.index[pos]
  IN  IF i = 0 THEN 0 ELSE IF scope.syms[i].name = name THEN i ELSE Probe(scope, name, NextBucket(scope.index, pos))

\* scope_lookup_symbol: the position of a symbol in its scope, or 0.
Position(scope, name) ==
  IF scope.index # <<>> THEN Probe(scope, name, Bucket(scope.index, name)) ELSE FirstNamed(scope.syms, name)

InScope(scope, name) == LET i == Position(scope, name) IN IF i = 0 THEN NoSymbol ELSE scope.syms[i]

\* The innermost symbol of that name among the first n scopes.
VisibleFrom(scopes, n, name) ==
  IF n = 0 THEN [sym |-> NoSymbol, global |-> TRUE]
  ELSE LET s == InScope(scopes[n], name)
       IN  IF s # NoSymbol THEN [sym |-> s, global |-> scopes[n].kind = "global"] ELSE VisibleFrom(scopes, n - 1, name)
LookupSymbol(scopes, name) == VisibleFrom(scopes, Len(scopes), name).sym
IsGlobal(scopes, name) == VisibleFrom(scopes, Len(scopes), name).global
LookupCurrent(scopes, name) == InScope(scopes[Len(scopes)], name)

EnterScope(scopes, kind) == Append(scopes, Scope(kind))
ExitScope(scopes) == IF Len(scopes) = 1 THEN scopes ELSE SubSeq(scopes, 1, Len(scopes) - 1)

\* symbol_table_insert: without any check.
Inserted(scopes, sym) ==
  [scopes EXCEPT ![Len(scopes)] = WithIndex([@ EXCEPT !.syms = Append(@, sym)])]

SignaturesMatch(decl, defn) ==
  /\ decl.kind = "function" /\ defn.kind = "function"
  /\ Len(decl.params) = Len(defn.params)
  /\ decl.ext = defn.ext
  /\ decl.ext => decl.link = defn.link
  /\ TypesCompatible(decl.type, defn.type)
  /\ \A i \in DOMAIN decl.params : TypesCompatible(decl.params[i], defn.params[i])

\* The table after a declaration in the current scope, or Null if it is refused.
Declared(scopes, sym) ==
  LET cur == scopes[Len(scopes)]
      i == Position(cur, sym.name)
  IN  IF sym.type = Null \/ (\E p \in DOMAIN sym.params : sym.params[p] = Null) THEN Null
      ELSE IF i = 0 THEN Inserted(scopes, sym)
      ELSE IF sym.kind = "function" /\ cur.syms[i].kind = "function" /\ cur.syms[i].fwd /\ SignaturesMatch(cur.syms[i], sym)
      THEN [scopes EXCEPT ![Len(scopes)].syms[i].fwd = FALSE]
      ELSE Null

\* symbol_table_declare_forward: a repeated one must agree.
DeclaredForward(scopes, sym) ==
  LET old == LookupCurrent(scopes, sym.name)
  IN  IF old = NoSymbol THEN Declared(scopes, [sym EXCEPT !.fwd = TRUE])
      ELSE IF old.kind = "function" /\ old.fwd /\ SignaturesMatch(old, sym) THEN scopes ELSE Null

\* symbol_table_resolve_forward_declaration
Resolved(scopes, sym) ==
  LET cur == Len(scopes)
      i == Position(scopes[cur], sym.name)
  IN  IF i = 0 THEN Declared(scopes, [sym EXCEPT !.fwd = FALSE])
      ELSE IF scopes[cur].syms[i].fwd /\ SignaturesMatch(scopes[cur].syms[i], sym)
      THEN [scopes EXCEPT ![cur].syms[i].fwd = FALSE]
      ELSE Null
=============================================================================
