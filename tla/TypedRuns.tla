----------------------------- MODULE TypedRuns -----------------------------
(***************************************************************************)
(* What can happen when a function of a program runs, whatever the values  *)
(* are: the reference the type checker is held against.  A value is known  *)
(* by what it is at run time, an integer, a floating-point number, a       *)
(* string, a pointer to something of a type, and so on; Wrong stands for   *)
(* an operation on a value that is not of the kind it needs, a name that   *)
(* means nothing, a variable read before it was assigned, or a match       *)
(* without an arm for its value.  Every branch may go either way and a     *)
(* loop runs zero, one or two times.                                       *)
(*                                                                         *)
(* The locals are a stack env of [name, type, assigned], so that a name    *)
(* means its innermost declaration.  The operators are independent of the  *)
(* checker except that a type is named by GetType.                         *)
(***************************************************************************)
EXTENDS TypeChecker, FiniteSets

RECURSIVE Eval(_, _), Shape(_), Exec(_, _), ExecAll(_, _, _), LoopRuns(_, _, _)

Wrong == <<"wrong">>
IntV == <<"int">>
Zero == <<"zero">>      \* the constant 0, which is also the null pointer
FloatV == <<"float">>
StringV == <<"string">>

\* A type without the names of its pointers and arrays.
Shape(t) ==
  CASE Kind(t) = "ptr" -> <<"ptr", Shape(t[2])>>
    [] Kind(t) = "arr" -> <<"arr", Shape(t[2]), t[3]>>
    [] Kind(t) \in {"struct", "tagged"} -> <<Kind(t), t[2]>>
    [] Kind(t) \in {"int8", "uint8"} -> <<"byte">>
    [] Kind(t) = "fn" -> <<"fn", [i \in DOMAIN t[2] |-> Shape(t[2][i])], Shape(t[3])>>
    [] OTHER -> <<Kind(t)>>

\* What a value of type t is at run time.
ValueOf(t) == IF IsInteger(t) THEN IntV ELSE IF IsFloat(t) THEN FloatV ELSE IF Kind(t) = "string" THEN StringV ELSE t

IsInt(v) == v \in {IntV, Zero}
IsNumber(v) == IsInt(v) \/ v = FloatV
Is(v, kind) == v # Null /\ v[1] = kind

\* A value v stored where a value of type t is wanted.
Fits(v, t) ==
  \/ IsInt(v) /\ IsNumeric(t)
  \/ v = FloatV /\ IsFloat(t)
  \/ v = StringV /\ (Kind(t) = "string" \/ Shape(t) = <<"ptr", <<"byte">>>>)
  \/ v = Zero /\ Kind(t) = "ptr"
  \/ Is(v, "arr") /\ Kind(t) = "ptr" /\ Shape(v[2]) = Shape(t[2])
  \/ v[1] = Kind(t) /\ ~IsNumeric(t) /\ v # StringV /\ Shape(v) = Shape(t)

TypeNamed(name) == IF name = Null THEN Ok ELSE GetType(ck, name).t

\* The declarations of a name at the top level.
DeclsOf(name) == {d \in {program[i] : i \in DOMAIN program} :
                    \/ d[1] \in {"function", "var"} /\ d[2] = name
                    \/ d[1] = "extern" /\ d[2][2] = name}
Function(name) == LET d == CHOOSE d \in DeclsOf(name) : TRUE IN IF d[1] = "extern" THEN d[2] ELSE d
Enums == {d \in {program[i] : i \in DOMAIN program} : d[1] = "enum"}
VariantOf(name) == UNION {{<<d, d[4][i]>> : i \in {j \in DOMAIN d[4] : d[4][j][1] = name}} : d \in Enums}

Innermost(env, name) == MaxOf({0} \cup {i \in DOMAIN env : env[i].name = name})

Read(env, name) ==
  LET i == Innermost(env, name)
  IN  IF i # 0 THEN (IF env[i].assigned THEN ValueOf(env[i].type) ELSE Wrong)
      ELSE IF \E d \in DeclsOf(name) : d[1] = "var" THEN ValueOf(TypeNamed((CHOOSE d \in DeclsOf(name) : TRUE)[3]))
      ELSE IF name \in {<<"true">>, <<"false">>} \/ VariantOf(name) # {} THEN IntV ELSE Wrong

\* The operators on values.
OnTwo(op, a, b) ==
  CASE Wrong \in {a, b} -> Wrong
    [] op = "+" /\ a = StringV /\ b = StringV -> StringV
    [] op \in {"+", "-"} /\ Is(a, "ptr") /\ IsInt(b) -> a
    [] op = "+" /\ IsInt(a) /\ Is(b, "ptr") -> b
    [] op = "-" /\ Is(a, "ptr") /\ Is(b, "ptr") -> IF Shape(a) = Shape(b) THEN IntV ELSE Wrong
    [] op \in {"+", "-", "*", "/"} /\ IsNumber(a) /\ IsNumber(b) -> IF FloatV \in {a, b} THEN FloatV ELSE IntV
    [] op \in {"%", "&", "|", "^", "<<", ">>"} /\ IsInt(a) /\ IsInt(b) -> IntV
    [] op \in {"&&", "||", "<", "<=", ">", ">="} /\ IsNumber(a) /\ IsNumber(b) -> IntV
    [] op \in {"==", "!="} ->
         IF \/ IsNumber(a) /\ IsNumber(b)
            \/ a = Zero /\ Is(b, "ptr")
            \/ b = Zero /\ Is(a, "ptr")
            \/ a[1] = b[1] /\ ~IsNumber(a) /\ (a = StringV \/ Shape(a) = Shape(b))
         THEN IntV ELSE Wrong
    [] OTHER -> Wrong

OnOne(op, v) ==
  CASE v = Wrong -> Wrong
    [] op \in {"+", "-"} /\ IsNumber(v) -> IF IsInt(v) THEN IntV ELSE v
    [] op = "~" /\ IsInt(v) -> IntV
    [] op = "!" /\ (IsNumber(v) \/ Is(v, "ptr")) -> IntV
    [] op = "*" /\ Is(v, "ptr") -> ValueOf(v[2])
    [] OTHER -> Wrong

Element(a, i) == IF IsInt(i) /\ (Is(a, "ptr") \/ Is(a, "arr")) THEN ValueOf(a[2]) ELSE Wrong
Field(v, name) == IF ~(Is(v, "struct") \/ v = StringV) \/ FieldType(v, name) = Null THEN Wrong ELSE ValueOf(FieldType(v, name))

\* The type of the place e denotes, or Null.
PlaceType(e, env) ==
  LET i == Innermost(env, e[2])
      of(vs) == LET v == CHOOSE v \in vs : TRUE IN v
  IN  CASE e[1] = "id" -> IF i = 0 THEN Null ELSE env[i].type
        [] e[1] = "mem" -> FieldType(of(Eval(e[2], env)), e[3])
        [] e[1] = "idx" -> of(Eval(e[2], env))[2]
        [] OTHER -> of(Eval(e[3], env))[2]

ArgsFit(params, args, env) ==
  /\ Len(args) = Len(params)
  /\ \A i \in DOMAIN args : \A v \in Eval(args[i], env) : v # Wrong /\ Fits(v, TypeNamed(params[i]))

\* A call, of a local function pointer, a function or a constructor.
CallResult(name, args, env) ==
  LET i == Innermost(env, name)
      f == Function(name)
      d == CHOOSE x \in VariantOf(name) : TRUE
      good(params, ret) == {IF ArgsFit(params, args, env) THEN ValueOf(ret) ELSE Wrong}
  IN  IF name = <<"sizeof">> THEN {IntV}
      ELSE IF i # 0
      THEN IF env[i].assigned /\ Kind(env[i].type) = "fn" /\ Len(args) = Len(env[i].type[2])
                /\ \A a \in DOMAIN args : \A v \in Eval(args[a], env) : v # Wrong /\ Fits(v, env[i].type[2][a])
           THEN {ValueOf(env[i].type[3])} ELSE {Wrong}
      ELSE IF DeclsOf(name) # {} THEN good([p \in DOMAIN f[4] |-> f[4][p][2]], TypeNamed(f[5]))
      ELSE IF VariantOf(name) # {} THEN good(IF d[2][2] = Null THEN <<>> ELSE <<d[2][2]>>, TypeNamed(d[1][2]))
      ELSE {Wrong}

\* The variants a value of the tagged type t may have, each with its arm (0 if
\* there is none) and the environment the arm runs in.
Taken(t, arms, env) ==
  {LET named == {a \in DOMAIN arms : arms[a][1] = t[3][v][1]}
       others == {a \in DOMAIN arms : arms[a][1] = <<"default">>}
       arm == MaxOf({0} \cup IF named # {} THEN named ELSE others)
   IN  [arm |-> arm,
        env |-> IF arm # 0 /\ named # {} /\ arms[arm][2] # Null
                THEN Append(env, [name |-> arms[arm][2], type |-> t[3][v][2], assigned |-> TRUE]) ELSE env]
   : v \in DOMAIN t[3]}

\* Everything the value of e may be.
Eval(e, env) ==
  CASE e[1] = "num" -> {IF e[2] = 0 THEN Zero ELSE IntV}
    [] e[1] = "float" -> {FloatV}
    [] e[1] = "str" -> {StringV}
    [] e[1] = "id" -> {Read(env, e[2])}
    [] e[1] = "un" /\ e[2] = "&" ->
         IF e[3][1] = "id" /\ Innermost(env, e[3][2]) = 0 /\ DeclsOf(e[3][2]) # {}
         THEN LET f == Function(e[3][2])
              IN  {<<"fn", [p \in DOMAIN f[4] |-> TypeNamed(f[4][p][2])], TypeNamed(f[5])>>}
         ELSE IF Wrong \in Eval(e[3], env) THEN {Wrong} ELSE {<<"ptr", PlaceType(e[3], env), <<>>>>}
    [] e[1] = "un" /\ e[2] # "&" -> {OnOne(e[2], v) : v \in Eval(e[3], env)}
    [] e[1] = "bin" -> {OnTwo(e[2], a, b) : a \in Eval(e[3], env), b \in Eval(e[4], env)}
    [] e[1] = "call" -> CallResult(e[2], e[4], env)
    [] e[1] = "mcall" -> LET r == CHOOSE v \in Eval(e[2], env) : TRUE
                             s == IF Is(r, "ptr") THEN r[2] ELSE r
                         IN  IF ~Is(s, "struct") THEN {Wrong} ELSE CallResult(s[2] \o <<"_">> \o e[3], <<e[2]>> \o e[4], env)
    [] e[1] = "mem" -> {IF v = Wrong THEN Wrong ELSE Field(v, e[3]) : v \in Eval(e[2], env)}
    [] e[1] = "idx" -> {IF Wrong \in {a, i} THEN Wrong ELSE Element(a, i) : a \in Eval(e[2], env), i \in Eval(e[3], env)}
    [] e[1] = "new" -> {<<"ptr", TypeNamed(e[2]), <<>>>>}
    [] e[1] = "cast" -> {IF v = Wrong \/ Is(v, "struct") \/ Is(v, "tagged") \/ v = StringV THEN Wrong
                         ELSE ValueOf(TypeNamed(e[2])) : v \in Eval(e[3], env)}
    [] e[1] = "match_expr" ->
         UNION {IF ~Is(v, "tagged") THEN {Wrong}
                ELSE UNION {IF x.arm = 0 THEN {Wrong} ELSE Eval(e[3][x.arm][3], x.env) : x \in Taken(v, e[3], env)}
                : v \in Eval(e[2], env)}

\* What a statement may lead to: the environment and how it ends.
To(env, how) == [env |-> env, how |-> how]
Broken == To(<<>>, "wrong")
Assigned(env, i) == [env EXCEPT ![i].assigned = TRUE]
Until(rs, env) == {IF r.how = "wrong" THEN r ELSE To(SubSeq(r.env, 1, Len(env)), r.how) : r \in rs}

\* The statements from the i-th on.
ExecAll(sts, i, env) ==
  IF i > Len(sts) THEN {To(env, "next")}
  ELSE UNION {IF r.how = "next" THEN ExecAll(sts, i + 1, r.env) ELSE {r} : r \in Exec(sts[i], env)}

\* body, then step, up to n more times.
LoopRuns(env, turn, n) ==
  {To(env, "next")}
    \cup (IF n = 0 THEN {}
          ELSE UNION {CASE r.how \in {"next", "continue"} -> LoopRuns(r.env, turn, n - 1)
                        [] r.how = "break" -> {To(r.env, "next")}
                        [] OTHER -> {r} : r \in Until(Exec(turn, env), env)})

Test(e, env) == \A v \in Eval(e, env) : v # Wrong /\ IsNumber(v)

Exec(st, env) ==
  CASE st[1] = "block" -> Until(ExecAll(st[2], 1, env), env)
    [] st[1] = "var" ->
         LET vs == IF st[4] = Null THEN {} ELSE Eval(st[4], env)
             v == CHOOSE v \in vs : TRUE
             t == IF st[3] # Null THEN TypeNamed(st[3])
                  ELSE CASE IsInt(v) -> <<"int64">> [] v = FloatV -> <<"float64">> [] OTHER -> v
         IN  IF \E x \in vs : x = Wrong \/ (st[3] # Null /\ ~Fits(x, t)) THEN {Broken}
             ELSE {To(Append(env, [name |-> st[2], type |-> t,
                                   assigned |-> st[4] # Null \/ Kind(t) \in {"arr", "struct", "string"}]), "next")}
    [] st[1] = "assign" ->
         LET i == Innermost(env, st[2])
         IN  IF i = 0 \/ \E v \in Eval(st[3], env) : v = Wrong \/ ~Fits(v, env[i].type) THEN {Broken}
             ELSE {To(Assigned(env, i), "next")}
    [] st[1] = "fassign" ->
         IF \/ Wrong \in Eval(st[2], env) \cup Eval(st[3], env)
            \/ \E v \in Eval(st[3], env) : ~Fits(v, PlaceType(st[2], env)) THEN {Broken} ELSE {To(env, "next")}
    [] st[1] \in {"call", "mcall"} -> {IF Wrong \in Eval(st, env) THEN Broken ELSE To(env, "next")}
    [] st[1] \in {"defer", "errdefer"} -> {IF r.how = "wrong" THEN r ELSE To(env, "next") : r \in Exec(st[2], env)}
    [] st[1] = "return" ->
         {IF st[2] # Null /\ \E v \in Eval(st[2], env) : v = Wrong \/ ~Fits(v, env[1].type) THEN Broken ELSE To(env, "return")}
    [] st[1] \in {"break", "continue"} -> {To(env, st[1])}
    [] st[1] = "label" -> Exec(st[3], env)
    [] st[1] = "asm" -> {To(env, "next")}
    [] st[1] = "if" ->
         LET clauses == <<<<st[2], st[3]>>>> \o st[4][1]
             other == IF st[4][2] = Null THEN {To(env, "next")} ELSE Exec(st[4][2], env)
         IN  IF \E i \in DOMAIN clauses : ~Test(clauses[i][1], env) THEN {Broken}
             ELSE other \cup UNION {Exec(clauses[i][2], env) : i \in DOMAIN clauses}
    [] st[1] = "while" -> IF ~Test(st[2], env) THEN {Broken} ELSE LoopRuns(env, st[3], 2)
    [] st[1] = "for" ->
         Until(UNION {IF r.how = "wrong" \/ (st[3] # Null /\ ~Test(st[3], r.env)) THEN {Broken}
                      ELSE LoopRuns(r.env, st[5], 2) : r \in IF st[2] = Null THEN {To(env, "next")} ELSE Exec(st[2], env)}, env)
    [] st[1] = "switch" ->
         IF \E v \in Eval(st[2], env) : v = Wrong \/ ~IsInt(v) THEN {Broken}
         ELSE {IF r.how = "break" THEN To(r.env, "next") ELSE r :
                 r \in UNION {Exec(<<"block", st[3][i][2]>>, env) : i \in DOMAIN st[3]}}
                \cup (IF \E i \in DOMAIN st[3] : st[3][i][1] = Null THEN {} ELSE {To(env, "next")})
    [] st[1] = "match" ->
         UNION {IF ~Is(v, "tagged") THEN {Broken}
                ELSE UNION {IF x.arm = 0 THEN {Broken} ELSE Until(Exec(st[3][x.arm][3], x.env), env)
                            : x \in Taken(v, st[3], env)}
                : v \in Eval(st[2], env)}

\* Everything a call of the function d may lead to, its parameters given; the
\* first entry of the environment stands for its result.
RunsOf(d) ==
  Exec(d[7], <<[name |-> <<"return">>, type |-> TypeNamed(d[5]), assigned |-> TRUE]>>
               \o [i \in DOMAIN d[4] |-> [name |-> d[4][i][1], type |-> TypeNamed(d[4][i][2]), assigned |-> TRUE]])
=============================================================================
