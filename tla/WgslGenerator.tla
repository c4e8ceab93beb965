---------------------------- MODULE WgslGenerator ----------------------------
(***************************************************************************)
(* The WGSL writer: a module as a sequence of tokens.  A token is a kind    *)
(* and, for names, literals, types and decorations, what it stands for: a   *)
(* type or a list of decorations is one token, however it is spelled.       *)
(***************************************************************************)
EXTENDS Ast

Tok(t) == [t |-> t, v |-> Null]
Word(t, v) == [t |-> t, v |-> v]
Name(n) == Word("name", n)
Toks(ts) == [i \in DOMAIN ts |-> Tok(ts[i])]

EmitType(t) == <<Word("type", t)>>
EmitLiteral(l) == <<Word("literal", Literal(l.ty, l.v))>>

\* What Emit makes of the ones of a list, with sep between them.
Joined(Emit(_), xs, sep) ==
  FoldLeft(LAMBDA acc, i : acc \o (IF i > 1 THEN sep ELSE <<>>) \o Emit(xs[i]), <<>>, [i \in DOMAIN xs |-> i])
All(Emit(_), xs) == Joined(Emit, xs, <<>>)
Comma == Toks(<<",">>)

-----------------------------------------------------------------------------
(* Expressions *)

RECURSIVE EmitExpression(_)
Paren(ts) == Toks(<<"(">>) \o ts \o Toks(<<")">>)
EmitArgs(es) == Paren(Joined(EmitExpression, es, Comma))

EmitArrayAccessor(e) == EmitExpression(e.e) \o Toks(<<"[">>) \o EmitExpression(e.i) \o Toks(<<"]">>)
EmitMemberAccessor(e) == EmitExpression(e.e) \o Toks(<<".">>) \o <<Name(e.m)>>
EmitBitcast(e) == Toks(<<"bitcast">>) \o EmitType(e.ty) \o Paren(EmitExpression(e.e))
EmitCall(e) == <<Name(e.f)>> \o EmitArgs(e.args)
EmitTypeConstructor(e) == EmitType(e.ty) \o EmitArgs(e.args)
EmitIdentifier(e) == <<Name(e.n)>>
\* Mutant of EmitBinary: a binary expression without its parentheses.
EmitBinaryBare(e) == EmitExpression(e.l) \o <<Word("op", e.op)>> \o EmitExpression(e.r)

EmitBinary(e) == Paren(EmitExpression(e.l) \o <<Word("op", e.op)>> \o EmitExpression(e.r))
EmitUnaryOp(e) == <<Word("op", e.op)>> \o Paren(EmitExpression(e.e))

EmitExpression(e) ==
  CASE Is(e, "index")     -> EmitArrayAccessor(e)
    [] Is(e, "binary")    -> EmitBinary(e)
    [] Is(e, "bitcast")   -> EmitBitcast(e)
    [] Is(e, "call")      -> EmitCall(e)
    [] Is(e, "id")        -> EmitIdentifier(e)
    [] Is(e, "literal")   -> EmitLiteral(e)
    [] Is(e, "construct") -> EmitTypeConstructor(e)
    [] Is(e, "member")    -> EmitMemberAccessor(e)
    [] Is(e, "unary")     -> EmitUnaryOp(e)

-----------------------------------------------------------------------------
(* Statements and declarations *)

Semicolon == Toks(<<";">>)

EmitVariableDecorations(v) == IF v.decos = NoDeco THEN <<>> ELSE <<Word("decorations", v.decos)>>

\* The storage class of a variable of a function is left out.
EmitVariable(v) ==
  LET class == IF v.const \/ v.sc \in {"none", "function"} THEN <<>> ELSE <<Word("class", v.sc)>>
      init == IF v.init = Null THEN <<>> ELSE Toks(<<"=">>) \o EmitExpression(v.init)
  IN  EmitVariableDecorations(v) \o Toks(<<IF v.const THEN "const" ELSE "var">>) \o class
      \o <<Name(v.n)>> \o Toks(<<":">>) \o EmitType(v.ty) \o init \o Semicolon

RECURSIVE EmitStatement(_)
EmitBlock(ss) == Toks(<<"{">>) \o All(EmitStatement, ss) \o Toks(<<"}">>)

EmitAssign(s) == EmitExpression(s.l) \o Toks(<<"=">>) \o EmitExpression(s.r) \o Semicolon

EmitElse(x) == (IF HasCondition(x) THEN Toks(<<"elseif">>) \o Paren(EmitExpression(x.c)) ELSE Toks(<<"else">>)) \o EmitBlock(x.body)
EmitIf(s) == Toks(<<"if">>) \o Paren(EmitExpression(s.c)) \o EmitBlock(s.body) \o All(EmitElse, s.elses)

EmitCase(c) ==
  (IF IsDefault(c) THEN Toks(<<"default">>) ELSE Toks(<<"case">>) \o Joined(EmitLiteral, c.sels, Comma))
  \o Toks(<<":">>) \o EmitBlock(c.body)
EmitSwitch(s) == Toks(<<"switch">>) \o Paren(EmitExpression(s.c)) \o Toks(<<"{">>) \o All(EmitCase, s.cases) \o Toks(<<"}">>)

EmitLoop(s) ==
  Toks(<<"loop", "{">>) \o All(EmitStatement, s.body)
  \o (IF s.cont = <<>> THEN <<>> ELSE Toks(<<"continuing">>) \o EmitBlock(s.cont)) \o Toks(<<"}">>)

EmitReturn(s) == Toks(<<"return">>) \o (IF s.e = Null THEN <<>> ELSE EmitExpression(s.e)) \o Semicolon

EmitStatement(s) ==
  CASE Is(s, "assign")   -> EmitAssign(s)
    [] Is(s, "block")    -> EmitBlock(s.body)
    [] Is(s, "callstmt") -> EmitCall(s.e) \o Semicolon
    [] Is(s, "if")       -> EmitIf(s)
    [] Is(s, "loop")     -> EmitLoop(s)
    [] Is(s, "return")   -> EmitReturn(s)
    [] Is(s, "switch")   -> EmitSwitch(s)
    [] Is(s, "decl")     -> EmitVariable(s.v)
    [] OTHER             -> Toks(<<s.k>>) \o Semicolon   \* break, continue, discard and fallthrough

EmitFunction(f) ==
  LET stage == IF IsEntryPoint(f) THEN <<Word("decorations", [stage |-> f.stage])>> ELSE <<>>
      Param(p) == <<Name(p.n)>> \o Toks(<<":">>) \o EmitType(p.ty)
  IN  stage \o Toks(<<"fn">>) \o <<Name(f.n)>> \o Paren(Joined(Param, f.params, Comma))
      \o Toks(<<"->">>) \o EmitType(f.ret) \o EmitBlock(f.body)

EmitConstructedType(t) == <<Word("declared", t)>>

Generate(m) == All(EmitConstructedType, m.types) \o All(EmitVariable, m.globals) \o All(EmitFunction, m.functions)

\* Mutant of EntryVariables: only what the function refers to itself, not what it calls.
OwnVariables(func) == func.local

EntryVariables(func) == func.refs

\* What one entry point needs of a determined module.
GenerateEntryPoint(m, name) ==
  LET func == m.functions[SelectInSeq(m.functions, LAMBDA f : f.n = name)]
      Global(n) == m.globals[SelectInSeq(m.globals, LAMBDA v : v.n = n)]
  IN  All(EmitConstructedType, m.types) \o All(EmitVariable, SelectSeq(m.globals, LAMBDA v : v.const))
      \o All(EmitVariable, [i \in DOMAIN EntryVariables(func) |-> Global(EntryVariables(func)[i])])
      \o All(EmitFunction, SelectSeq(m.functions, LAMBDA f : Contains(f.entry_points, name))) \o EmitFunction(func)
=============================================================================
