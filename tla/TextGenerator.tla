----------------------------- MODULE TextGenerator -----------------------------
(***************************************************************************)
(* What the writers of C-like texts have in common: the generator at work,  *)
(* the lookup of what a name stands for, and the forms that HLSL and MSL    *)
(* share.                                                                   *)
(***************************************************************************)
EXTENDS Meaning

(* The generator at work: the expression emitted last, what it needs before *)
(* its statement, the statements emitted so far, the number of generated    *)
(* names, the entry point ("" in a function that is emitted once) and       *)
(* whether it is the entry point itself that is emitted.                    *)
Start(m) == [module |-> m, out |-> Null, pre |-> <<>>, code |-> <<>>, names |-> 0, ep |-> "",
             generating_entry_point |-> FALSE, error |-> ""]

Good(g) == g.error = ""
Fails(g, why) == IF Good(g) THEN [g EXCEPT !.error = why] ELSE g
Out(g, e) == [g EXCEPT !.out = e]
After(g, Rest(_)) == IF Good(g) THEN Rest(g) ELSE g
\* What is made of the expression emitted last.
With(g, Made(_)) == After(g, LAMBDA h : Out(h, Made(h.out)))

\* A statement, after what its expressions need before it.
Line(g, s) == IF Good(g) THEN [g EXCEPT !.code = @ \o g.pre \o <<s>>, !.pre = <<>>] ELSE g

\* The statement made of the expression emitted last.
Emitted(g, Made(_)) == After(g, LAMBDA h : Line(h, Made(h.out)))

\* The statements Emit leads to, in "out", apart from the ones so far.
Within(Emit(_), g) ==
  LET Back(r) == [r EXCEPT !.code = g.code, !.out = r.code] IN Back(Emit([g EXCEPT !.code = <<>>]))

\* What Emit makes of each of xs, in order, in "out".
EmitEach(Emit(_, _), xs, g) ==
  FoldLeft(LAMBDA h, x : After(h, LAMBDA k : With(Emit(x, k), LAMBDA made : Append(k.out, made))), Out(g, <<>>), xs)

generate_name(g) == [g EXCEPT !.names = @ + 1]

Global(m, n) == m.globals[SelectInSeq(m.globals, LAMBDA v : v.n = n)]
IsGlobal(m, n) == \E i \in DOMAIN m.globals : m.globals[i].n = n
FunctionOf(m, n) == m.functions[SelectInSeq(m.functions, LAMBDA f : f.n = n)]
IsIntrinsic(call, m) == \A i \in DOMAIN m.functions : m.functions[i].n # call.f

\* The module's variables a function refers to, itself or in what it calls.
Referenced(m, f, Test(_)) == SelectSeq(f.refs, LAMBDA n : Test(Global(m, n)))
IsBound(v) == Has(v, "binding") /\ Has(v, "group")

\* The structs of an entry point's inputs and outputs, as names and types.
StructVar == [input |-> "tint_in", output |-> "tint_out"]
StructOf(m, sc, names) ==
  Struct(StructVar[sc], [i \in DOMAIN names |-> [n |-> names[i], ty |-> Global(m, names[i]).ty]], FALSE)
StructId(m, sc, names) == Identifier(StructVar[sc]) @@ [rt |-> StructOf(m, sc, names)]
DuplicateName(f, ep) == f.n \o "_" \o ep

\* A member or a swizzle is emitted as an identifier is, so one with the name of an input or
\* an output gets their struct before it.
MemberName(e) == Identifier(e.m) @@ [rt |-> e.rt]
Accessor(e, x, name) ==
  IF Is(name, "id") THEN [e EXCEPT !.e = x] ELSE [e EXCEPT !.e = MemberAccessor(x, name.e.n) @@ [rt |-> name.e.rt]]

Role(call, role) == SelectInSeq(call.roles, LAMBDA r : r = role)
Uses(call, role) == Role(call, role) > 0

\* A query of a texture: what it is asked for as the level is the index of the argument.
TextureQuery(call, texture) ==
  LET level == Literal(I32, Role(call, "level") - 1) @@ [rt |-> I32]
  IN  [call EXCEPT !.args = <<texture>> \o IF Uses(call, "level") THEN <<level>> ELSE <<>>]

ZeroOf(t) == TypeConstructor(t, <<>>) @@ [rt |-> t]
last_is_break_or_fallthrough(ss) == LastStatement(ss).k \in {"break", "fallthrough"}

\* A loop with a continuing part: that comes first, from the second iteration on.
Flag(v) == Literal(Bool, v) @@ [rt |-> Bool]
\* Mutant of GuardedLoop: the guard is not reset, the continuing part never comes.
UnguardedLoop(guard, decls, cont, body) ==
  Block(<<VariableDecl(Variable(guard.n, "function", Bool, FALSE, Flag(1), NoDeco))>> \o decls
        \o <<LoopStatement(<<IfStatement(UnaryOp("!", guard) @@ [rt |-> Bool], cont, <<>>)>> \o body, <<>>)>>)

GuardedLoop(guard, decls, cont, body) ==
  Block(<<VariableDecl(Variable(guard.n, "function", Bool, FALSE, Flag(1), NoDeco))>> \o decls
        \o <<LoopStatement(<<IfStatement(UnaryOp("!", guard) @@ [rt |-> Bool], cont, <<>>), Assignment(guard, Flag(0))>>
                           \o body, <<>>)>>)
=============================================================================
