------------------------------- MODULE Validator -------------------------------
(***************************************************************************)
(* The validator of a determined module: the first rule that is broken, or  *)
(* "".  It looks at the statements of a function's body and of no other     *)
(* block, and at an identifier or a call only where it is a whole           *)
(* expression of one of them.                                               *)
(***************************************************************************)
EXTENDS Ast

\* The validator at work: the stacks of variables and functions, and the rule.
Start == [scopes |-> <<<<>>>>, functions |-> {}, current |-> Null, broken |-> ""]
Valid(s) == s.broken = ""
add_error(s, code) == IF Valid(s) THEN [s EXCEPT !.broken = code] ELSE s
Check(s, holds, code) == IF holds THEN s ELSE add_error(s, code)
Each(Step(_, _), s, xs) == FoldLeft(LAMBDA acc, x : IF Valid(acc) THEN Step(acc, x) ELSE acc, s, xs)

Known(s, n) == \E i \in DOMAIN s.scopes : n \in DOMAIN s.scopes[i]
IsGlobal(s, n) == n \notin DOMAIN Last(s.scopes)
Get(s, n) == LET i == SelectLastInSeq(s.scopes, LAMBDA x : n \in DOMAIN x) IN s.scopes[i][n]
Declare(s, v) == [s EXCEPT !.scopes[Len(s.scopes)] = (v.n :> v) @@ @]

RECURSIVE IsStorable(_)
IsStorable(t) ==
  CASE Is(t, "array")  -> IsStorable(t.of)
    [] Is(t, "alias")  -> IsStorable(t.of)
    [] Is(t, "struct") -> \A i \in DOMAIN t.members : IsStorable(t.members[i].ty)
    [] OTHER           -> is_scalar(t) \/ t.k \in {"vec", "mat"}

-----------------------------------------------------------------------------
(* Expressions *)

\* An intrinsic is what no function of the module is named.
ValidateCallExpr(s, e, m) ==
  LET user == \E i \in DOMAIN m.functions : m.functions[i].n = e.f
  IN  IF ~user THEN s
      ELSE Check(Check(s, e.f \in s.functions, "v-0005"), e.f # s.current.n, "v-0004")

ValidateExpression(s, e, m) ==
  CASE Is(e, "id")   -> Check(s, Known(s, e.n), "v-0006")
    [] Is(e, "call") -> ValidateCallExpr(s, e, m)
    [] OTHER         -> s

-----------------------------------------------------------------------------
(* Statements *)

ValidateDeclStatement(s, v) ==
  IF Known(s, v.n) THEN add_error(s, IF IsGlobal(s, v.n) THEN "v-0013" ELSE "v-0014")
  ELSE Check(Declare(s, v), ~IsRuntimeArray(UnwrapAll(v.ty)), "v-0015")

\* Mutant of ValidateReturnStatement: only whether there is a value is checked.
ReturnsSomething(s, r) == Check(s, (s.current.ret = Void) = (r.e = Null), "v-000y")

ValidateReturnStatement(s, r) ==
  Check(s, s.current.ret = (IF r.e = Null THEN Void ELSE UnwrapAll(r.e.rt)), "v-000y")

ValidateBadAssignmentToIdentifier(s, l) ==
  IF ~Is(l, "id") THEN s
  ELSE Check(Check(s, Known(s, l.n), "v-0006"), Known(s, l.n) => ~Get(s, l.n).const, "v-0021")

ValidateAssign(s, a, m) ==
  LET read == ValidateExpression(ValidateExpression(s, a.l, m), a.r, m)
      value == UnwrapAll(a.r.rt)
      place == UnwrapIfNeeded(a.l.rt)
      stored == Check(read, IsStorable(value), "v-000x")
  IN  IF ~Valid(stored) THEN stored
      ELSE IF Is(place, "ptr") THEN Check(stored, UnwrapIfNeeded(place.of) = value, "v-000x")
      ELSE add_error(ValidateBadAssignmentToIdentifier(stored, a.l), "v-000x")

\* The selectors of the cases before number i.
SelectorsBefore(cases, i) == UNION {{cases[j].sels[n].v : n \in DOMAIN cases[j].sels} : j \in 1..(i - 1)}

ValidateSwitch(s, x, m) ==
  LET selector == UnwrapAll(x.c.rt)
      Case(acc, i) ==
        LET sels == x.cases[i].sels
            seen == SelectorsBefore(x.cases, i)
            Twice(n) == sels[n].v \in seen \/ \E o \in 1..(n - 1) : sels[o].v = sels[n].v
            Selector(a, n) == Check(Check(a, sels[n].ty = selector, "v-0026"), ~Twice(n), "v-0027")
        IN  Each(Selector, acc, [n \in DOMAIN sels |-> n])
      read == Check(ValidateExpression(s, x.c, m), is_integer_scalar(selector), "v-0025")
      cases == Each(Case, read, [i \in DOMAIN x.cases |-> i])
      defaults == Len(SelectSeq(x.cases, IsDefault))
  IN  Check(Check(cases, defaults = 1, "v-0008"),
            ~Is(LastStatement(LastStatement(x.cases).body), "fallthrough"), "v-0028")

ValidateStatement(s, x, m) ==
  CASE Is(x, "decl")     -> LET init == IF x.v.init = Null THEN s ELSE ValidateExpression(s, x.v.init, m)
                            IN  IF Valid(init) THEN ValidateDeclStatement(init, x.v) ELSE init
    [] Is(x, "assign")   -> ValidateAssign(s, x, m)
    [] Is(x, "return")   -> ValidateReturnStatement(s, x)
    [] Is(x, "callstmt") -> ValidateCallExpr(s, x.e, m)
    [] Is(x, "switch")   -> ValidateSwitch(s, x, m)
    [] OTHER             -> s

-----------------------------------------------------------------------------
(* The module *)

ValidateParameter(s, v) == Check(Declare(s, v), ~IsRuntimeArray(UnwrapAll(v.ty)), "v-0015")

ValidateFunction(s, f, m) ==
  LET unique == Check(s, f.n \notin s.functions, "v-0016")
      entered == [unique EXCEPT !.functions = @ \cup {f.n}, !.current = f, !.scopes = Append(@, <<>>)]
      body == Each(LAMBDA a, x : ValidateStatement(a, x, m), Each(ValidateParameter, entered, f.params), f.body)
      returns == Check(body, Is(f.ret, "void") \/ Is(LastStatement(f.body), "return"), "v-0002")
  IN  IF Valid(unique) THEN [returns EXCEPT !.scopes = Front(@), !.current = Null] ELSE unique

ValidateGlobalVariable(s, v) ==
  LET new == Check(s, ~Known(s, v.n), "v-0011")
      stored == Check(new, v.const \/ v.sc # "none", "v-0022")
      constant == Check(stored, ~v.const \/ v.sc = "none", "v-global01")
  IN  Declare(constant, v)

ValidateConstructedType(s, t) ==
  LET Runtime(i) == IsRuntimeArray(UnwrapAll(t.members[i].ty))
      Member(acc, i) == IF Runtime(i) THEN Check(Check(acc, i = Len(t.members), "v-0015"), t.block, "v-0031") ELSE acc
  IN  IF Is(t, "struct") THEN Each(Member, s, [i \in DOMAIN t.members |-> i]) ELSE s

ValidateEntryPoint(s, functions) ==
  LET Entry(acc, f) == IF ~IsEntryPoint(f) THEN acc
                       ELSE Check(Check(acc, f.params = <<>>, "v-0023"), Is(f.ret, "void"), "v-0024")
  IN  Check(Each(Entry, s, functions), \E i \in DOMAIN functions : IsEntryPoint(functions[i]), "v-0003")

\* The rule the determined module m breaks first, or "".
Validate(m) ==
  LET globals == Each(ValidateGlobalVariable, Start, m.globals)
      types == Each(ValidateConstructedType, globals, m.types)
      functions == Each(LAMBDA s, f : ValidateFunction(s, f, m), types, m.functions)
  IN  ValidateEntryPoint(functions, m.functions).broken
=============================================================================
