---------------------------- MODULE HlslGenerator ----------------------------
(***************************************************************************)
(* The HLSL writer: a determined module as HLSL text.  The text is a tree   *)
(* of the same nodes, in the forms of Meaning where HLSL has others; the    *)
(* spelling of names, types and literals, registers and semantics are left  *)
(* out.                                                                     *)
(*                                                                          *)
(* An expression may need statements of its own before it ("pre"): they     *)
(* come before the whole statement it is in.                                *)
(***************************************************************************)
EXTENDS TextGenerator

Before(g, s) == [g EXCEPT !.pre = Append(@, s)]
Temp(g) == "tint_tmp_" \o ToString(g.names)

-----------------------------------------------------------------------------
(* The structs of an entry point's inputs and outputs                       *)

InStruct(v, sc) == v.sc = sc /\ (Has(v, "location") \/ Has(v, "builtin"))
global_is_in_struct(v) == InStruct(v, "input") \/ InStruct(v, "output")

\* The variables of a storage class a function refers to: by location, then builtin.
StructVariables(m, f, sc) ==
  LET Of(deco) == Referenced(m, f, LAMBDA v : v.sc = sc /\ Has(v, deco))
  IN  Of("location") \o Of("builtin")
has_referenced(m, f, sc) == StructVariables(m, f, sc) # <<>>

StructType(m, ep, sc) == StructOf(m, sc, StructVariables(m, FunctionOf(m, ep), sc))
HasStruct(m, ep, sc) == ep # "" /\ has_referenced(m, FunctionOf(m, ep), sc)
EntryStruct(m, ep, sc) == StructId(m, sc, StructVariables(m, FunctionOf(m, ep), sc))

\* A function with inputs or outputs is emitted for each entry point it is reached from.
IsDuplicated(m, f) == f.entry_points # <<>> /\ (has_referenced(m, f, "input") \/ has_referenced(m, f, "output"))

-----------------------------------------------------------------------------
(* Storage buffers are accessed by byte offsets                             *)

RECURSIVE is_storage_buffer_access(_, _)
is_storage_buffer_access(m, e) ==
  CASE Is(e, "index")  -> e.e.k \in {"member", "index"} /\ is_storage_buffer_access(m, e.e)
    [] Is(e, "member") ->
         /\ ~(Is(UnwrapAll(e.e.rt), "vec") /\ Len(Swizzle[e.m]) > 1)
         /\ IF Is(e.e, "id") THEN IsGlobal(m, e.e.n) /\ Global(m, e.e.n).sc = "storage"
            ELSE e.e.k \in {"member", "index"} /\ is_storage_buffer_access(m, e.e)
    [] OTHER           -> FALSE

RECURSIVE get_buffer_name(_), EmitNode(_, _)
get_buffer_name(e) == IF Is(e, "id") THEN e.n ELSE get_buffer_name(e.e)

Term(times, e) == [times |-> times, e |-> e]
One == Literal(I32, 1) @@ [rt |-> I32]

\* How far apart the parts of t are that an index selects.
IndexStride(t) == CASE Is(t, "array") -> t.stride [] Is(t, "vec") -> 4 [] OTHER -> IF t.n = 2 THEN 8 ELSE 16

\* The terms of the offset, from the last accessor to the first, in "out".
RECURSIVE generate_storage_buffer_index_expression(_, _)
generate_storage_buffer_index_expression(e, g) ==
  LET t == UnwrapAll(e.e.rt)
      member == t.members[MemberIndex(t, e.m)]
      term == CASE Is(e, "index") -> With(EmitNode(e.i, g), LAMBDA i : Term(IndexStride(t), i))
                [] Is(t, "struct") -> IF "off" \in DOMAIN member THEN Out(g, Term(member.off, One))
                                      ELSE Fails(g, "missing offset decoration for struct member")
                [] OTHER           -> Out(g, Term(4 * (Swizzle[e.m][1] - 1), One))
  IN  IF Is(e, "id") THEN Out(g, <<>>)
      ELSE After(term, LAMBDA h : With(generate_storage_buffer_index_expression(e.e, h), LAMBDA terms : <<h.out>> \o terms))

\* The access; of a matrix, column by column.
EmitStorageBufferAccessor(e, g) ==
  LET t == UnwrapAll(e.rt)
      of == Global(g.module, get_buffer_name(e)).ty
      At0(terms, ty) == BufferAccess(get_buffer_name(e), of, terms, ty)
      column == IF t.rows = 2 THEN 8 ELSE 16
      Column(terms, i) == At0(Append(terms, Term((i - 1) * column, One)), Vector(t.of, t.rows))
      Made(terms) == IF Is(t, "mat") THEN TypeConstructor(t, [i \in 1..t.n |-> Column(terms, i)]) @@ [rt |-> t]
                     ELSE At0(terms, t)
  IN  With(generate_storage_buffer_index_expression(e, g), Made)

-----------------------------------------------------------------------------
(* Expressions *)

EmitAll(es, g) == EmitEach(EmitNode, es, g)

\* An expression with two parts.
EmitBoth(l, r, g, Made(_, _)) ==
  After(EmitNode(l, g), LAMBDA a : With(EmitNode(r, a), LAMBDA b : Made(a.out, b)))

\* Mutant of RightSide: what the right side needs comes before the choice.
RightFirst(tmp, decl, test, r) == r.pre \o <<decl, IfStatement(test, <<Assignment(tmp, r.out)>>, <<>>)>>

\* The right side is evaluated, with what it needs, when the left one has not decided.
RightSide(tmp, decl, test, r) == <<decl, IfStatement(test, Append(r.pre, Assignment(tmp, r.out)), <<>>)>>

\* && and || are an if before the statement: l, emitted, has got the name of the result.
EmitRight(e, l) ==
  LET tmp == Identifier(Temp(l)) @@ [rt |-> Bool]
      test == IF e.op = "||" THEN UnaryOp("!", tmp) @@ [rt |-> Bool] ELSE tmp
      decl == VariableDecl(Variable(tmp.n, "function", Bool, FALSE, l.out, NoDeco))
  IN  After(EmitNode(e.r, [l EXCEPT !.pre = <<>>]), LAMBDA r : Out([r EXCEPT !.pre = l.pre \o RightSide(tmp, decl, test, r)], tmp))
EmitLogical(e, g) == After(EmitNode(e.l, g), LAMBDA l : EmitRight(e, generate_name(l)))

EmitBinary(e, g) ==
  LET l == UnwrapAll(e.l.rt)
      r == UnwrapAll(e.r.rt)
      mul == /\ e.op = "*" /\ (Is(l, "mat") \/ Is(r, "mat"))
             /\ l.k \in {"mat", "vec"} /\ r.k \in {"mat", "vec"}
      Made(a, b) == [e EXCEPT !.op = IF mul THEN "mul" ELSE @, !.l = a, !.r = b]
  IN  IF e.op \in {"&&", "||"} THEN EmitLogical(e, g) ELSE EmitBoth(e.l, e.r, g, Made)

EmitBitcast(e, g) ==
  IF e.ty.k \notin {"i32", "u32", "f32"} THEN Fails(g, "Unable to do bitcast to type")
  ELSE With(EmitNode(e.e, g), LAMBDA x : [e EXCEPT !.e = x])

\* The type a variable of the module is declared with.
DeclaredType(v) == IF v.sc = "storage" THEN ByteAddressBuffer(v.ty) ELSE v.ty

\* The name of a buffer is no load of it.
EmitIdentifier(e, g) ==
  LET v == Global(g.module, e.n)
  IN  CASE ~IsGlobal(g.module, e.n)        -> Out(g, e)
        [] v.sc = "storage"                -> Out(g, [e EXCEPT !.rt = DeclaredType(v)])
        [] ~global_is_in_struct(v)         -> Out(g, e)
        [] HasStruct(g.module, g.ep, v.sc) -> Out(g, MemberAccessor(EntryStruct(g.module, g.ep, v.sc), e.n) @@ [rt |-> e.rt])
        [] OTHER                           -> Fails(g, "unable to find entry point data for variable")

EmitTypeConstructor(e, g) ==
  IF e.args = <<>> /\ ~(is_scalar(e.ty) \/ e.ty.k \in {"vec", "mat"}) THEN Fails(g, "Invalid type for zero emission")
  ELSE With(EmitAll(e.args, g), LAMBDA args : [e EXCEPT !.args = args])

\* The intrinsics HLSL has a name for.
generate_intrinsic_name ==
  {"any", "all", "countOneBits", "dot", "dpdx", "dpdxFine", "dpdxCoarse", "dpdy", "dpdyFine", "dpdyCoarse",
   "fwidth", "fwidthFine", "fwidthCoarse", "isFinite", "isInf", "isNan", "reverseBits"}
generate_builtin_name ==
  {"acos", "asin", "atan", "atan2", "ceil", "cos", "cosh", "cross", "determinant", "distance", "exp", "exp2",
   "floor", "fma", "length", "log", "log2", "normalize", "pow", "reflect", "round", "sin", "sinh", "sqrt", "step",
   "tan", "tanh", "trunc", "mix", "sign", "abs", "max", "min", "clamp", "faceForward", "fract", "inverseSqrt",
   "smoothStep"}

CanBeQueried(f, dim) ==
  CASE f = "textureNumLayers"  -> dim \in {"1d_array", "2d_array", "cube_array"}
    [] f = "textureNumLevels"  -> dim \in {"2d", "cube", "2d_array", "3d", "cube_array"}
    [] f = "textureNumSamples" -> dim \in {"2d", "2d_array"}
    [] OTHER                   -> TRUE

\* GetDimensions() into a variable before the statement.
EmitTextureQuery(call, g) ==
  LET Query(texture) == VariableDecl(Variable(Temp(texture), "function", call.rt, FALSE, TextureQuery(call, texture.out), NoDeco))
  IN  IF CanBeQueried(call.f, UnwrapAll(call.args[1].rt).dim)
      THEN After(EmitNode(call.args[1], generate_name(g)),
                 LAMBDA texture : Out(Before(texture, Query(texture)), Identifier(Temp(texture)) @@ [rt |-> call.rt]))
      ELSE Fails(g, "texture dimension does not support the query")

\* The order of the arguments; Load() takes its level with the coordinates, where it is
\* always 0, and takes what comes next for an offset.
HlslOrder == <<"texture", "sampler", "coords", "array_index", "depth_ref", "bias", "level", "ddx", "ddy",
               "sample_index", "offset", "value">>
EmitTextureCall(call, g) ==
  LET roles == SelectSeq(HlslOrder, LAMBDA r : Uses(call, r))
      Named(r) == IF call.f = "textureLoad" /\ r = "level" THEN "offset" ELSE r
  IN  IF call.f \in {"textureDimensions", "textureNumLayers", "textureNumLevels", "textureNumSamples"}
      THEN EmitTextureQuery(call, g)
      ELSE With(EmitAll([i \in DOMAIN roles |-> call.args[Role(call, roles[i])]], g),
                LAMBDA args : [call EXCEPT !.args = args, !.roles = [i \in DOMAIN roles |-> Named(roles[i])]])

\* A call of a function: the structs it refers to itself, or through its callees, come first.
EmitUserCall(call, g) ==
  LET f == FunctionOf(g.module, call.f)
      Passed(sc) == IF has_referenced(g.module, f, sc) /\ HasStruct(g.module, g.ep, sc)
                    THEN <<EntryStruct(g.module, g.ep, sc)>> ELSE <<>>
      remapped == g.ep # "" /\ IsDuplicated(g.module, f) /\ Contains(f.entry_points, g.ep)
      n == IF remapped THEN DuplicateName(f, g.ep) ELSE call.f
  IN  With(EmitAll(call.args, g), LAMBDA args : [call EXCEPT !.f = n, !.args = Passed("input") \o Passed("output") \o args])

EmitCall(call, g) ==
  CASE ~IsIntrinsic(call, g.module)       -> EmitUserCall(call, g)
    [] call.f \in {"select", "isNormal"}  -> Fails(g, "not supported in HLSL backend yet")
    [] "roles" \in DOMAIN call            -> EmitTextureCall(call, g)
    [] call.f \in generate_intrinsic_name \cup generate_builtin_name ->
         With(EmitAll(call.args, g), LAMBDA args : [call EXCEPT !.args = args])
    [] OTHER                              -> Fails(g, "Unknown builtin method")

EmitArrayAccessor(e, g) ==
  IF is_storage_buffer_access(g.module, e) THEN EmitStorageBufferAccessor(e, g)
  ELSE EmitBoth(e.e, e.i, g, LAMBDA a, i : [e EXCEPT !.e = a, !.i = i])

EmitMemberAccessor(e, g) ==
  IF is_storage_buffer_access(g.module, e) THEN EmitStorageBufferAccessor(e, g)
  ELSE After(EmitNode(e.e, g), LAMBDA x : With(EmitNode(MemberName(e), x), LAMBDA name : Accessor(e, x.out, name)))

EmitUnaryOp(e, g) == With(EmitNode(e.e, g), LAMBDA x : [e EXCEPT !.e = x])

EmitExpression(e, g) ==
  CASE ~Good(g)            -> g
    [] Is(e, "index")      -> EmitArrayAccessor(e, g)
    [] Is(e, "binary")     -> EmitBinary(e, g)
    [] Is(e, "bitcast")    -> EmitBitcast(e, g)
    [] Is(e, "call")       -> EmitCall(e, g)
    [] Is(e, "literal")    -> Out(g, e)
    [] Is(e, "construct")  -> EmitTypeConstructor(e, g)
    [] Is(e, "id")         -> EmitIdentifier(e, g)
    [] Is(e, "member")     -> EmitMemberAccessor(e, g)
    [] Is(e, "unary")      -> EmitUnaryOp(e, g)

-----------------------------------------------------------------------------
(* Statements *)

EmitStatements(ss, g) == FoldLeft(LAMBDA h, s : After(h, LAMBDA k : EmitNode(s, k)), g, ss)
EmitBlock(ss, g) == Within(LAMBDA h : EmitStatements(ss, h), g)

EmitAssign(s, g) == Emitted(EmitBoth(s.l, s.r, g, Assignment), LAMBDA x : x)

\* The statements before the condition c are kept for the statement of what Rest makes of it.
Conditional(c, g, Rest(_)) ==
  After(EmitNode(c, g), LAMBDA cond : After(Rest([cond EXCEPT !.pre = <<>>]), LAMBDA r : Line([r EXCEPT !.pre = cond.pre], r.out)))

EmitCase(c, g) ==
  With(EmitBlock(c.body, g),
       LAMBDA body : [c EXCEPT !.body = body \o IF last_is_break_or_fallthrough(c.body) THEN <<>> ELSE <<Break>>])

EmitSwitch(s, g) ==
  Conditional(s.c, g, LAMBDA cond : With(EmitEach(EmitCase, s.cases, cond), LAMBDA cases : CSwitch(cond.out, cases)))

\* An else with a condition is an if in the else before it.
RECURSIVE EmitElses(_, _)
EmitElses(elses, g) ==
  LET x == Head(elses)
      If(cond) == After(EmitBlock(x.body, [cond EXCEPT !.pre = <<>>]),
                        LAMBDA body : With(EmitElses(Tail(elses), body),
                          LAMBDA rest : <<ElseStatement(Null, Append(cond.pre, IfStatement(cond.out, body.out, rest)))>>))
  IN  CASE elses = <<>> \/ ~Good(g) -> Out(g, <<>>)
        [] HasCondition(x)          -> After(EmitNode(x.c, g), If)
        [] OTHER                    -> With(EmitBlock(x.body, g), LAMBDA body : <<ElseStatement(Null, body)>>)

EmitIf(s, g) ==
  Conditional(s.c, g, LAMBDA cond : After(EmitBlock(s.body, cond), LAMBDA body :
    With(EmitElses(s.elses, body), LAMBDA elses : IfStatement(cond.out, body.out, elses))))

EmitVariable(v, skip_constructor, g) ==
  IF v.decos # NoDeco THEN Fails(g, "Variable decorations are not handled yet")
  ELSE IF skip_constructor \/ v.init = Null THEN Line(g, Undefined(v))
  ELSE Emitted(EmitNode(v.init, g), LAMBDA init : VariableDecl([v EXCEPT !.init = init]))

HasZeroValue(t) == is_scalar(t) \/ t.k \in {"vec", "mat"}

\* A declaration of a body whose variables were declared before the loop.
EmitInLoop(s, g) ==
  LET place == Identifier(s.v.n) @@ [rt |-> s.v.ty]
  IN  IF ~Is(s, "decl") THEN EmitNode(s, g)
      ELSE IF s.v.init # Null THEN Emitted(EmitNode(s.v.init, g), LAMBDA init : Assignment(place, init))
      ELSE IF HasZeroValue(s.v.ty) THEN Line(g, Assignment(place, ZeroOf(s.v.ty)))
      ELSE Fails(g, "Invalid type for zero emission")

\* With a continuing part: it comes first in the loop, from the second iteration on.
EmitLoopWithContinuing(s, g) ==
  LET guard == Identifier("tint_hlsl_is_first_" \o ToString(g.names)) @@ [rt |-> Bool]
      Decls(h) == FoldLeft(LAMBDA acc, x : EmitVariable(x.v, TRUE, acc), h, SelectSeq(s.body, LAMBDA x : Is(x, "decl")))
      Body(h) == FoldLeft(LAMBDA acc, x : After(acc, LAMBDA k : EmitInLoop(x, k)), h, s.body)
  IN  After(Within(Decls, g), LAMBDA decls : After(EmitBlock(s.cont, decls), LAMBDA cont :
        Emitted(Within(Body, cont), LAMBDA body : GuardedLoop(guard, decls.out, cont.out, body))))

EmitLoop(s, g) ==
  IF s.cont = <<>> THEN Emitted(EmitBlock(s.body, g), LAMBDA body : LoopStatement(body, <<>>))
  ELSE EmitLoopWithContinuing(s, generate_name(g))

\* An entry point returns the struct of its outputs.
EmitReturn(s, g) ==
  IF g.generating_entry_point
  THEN Line(g, Return(IF HasStruct(g.module, g.ep, "output") THEN EntryStruct(g.module, g.ep, "output") ELSE Null))
  ELSE IF s.e = Null THEN Line(g, s) ELSE Emitted(EmitNode(s.e, g), Return)

EmitStatement(s, g) ==
  CASE Is(s, "assign")      -> EmitAssign(s, g)
    [] Is(s, "block")       -> Emitted(EmitBlock(s.body, g), Block)
    [] Is(s, "callstmt")    -> Emitted(EmitNode(s.e, g), CallStatement)
    [] Is(s, "fallthrough") -> g
    [] Is(s, "if")          -> EmitIf(s, g)
    [] Is(s, "loop")        -> EmitLoop(s, g)
    [] Is(s, "return")      -> EmitReturn(s, g)
    [] Is(s, "switch")      -> EmitSwitch(s, g)
    [] Is(s, "decl")        -> EmitVariable(s.v, FALSE, g)
    [] OTHER                -> Line(g, s)

\* A node of either kind.
EmitNode(x, g) == IF IsStatement(x) THEN EmitStatement(x, g) ELSE EmitExpression(x, g)

-----------------------------------------------------------------------------
(* Functions and the module: the text is the functions, with the module's   *)
(* variables that no struct has                                             *)

\* The structs of the entry point, in this order, whether the function needs them or not.
StructParams(m, ep) ==
  LET Param(sc, how) ==
        IF HasStruct(m, ep, sc)
        THEN <<[n |-> StructVar[sc], ty |-> StructType(m, ep, sc), by |-> how]>> ELSE <<>>
  IN  Param("input", "value") \o Param("output", "out")

EmitFunctionInternal(f, n, ep, g) ==
  LET params == IF n = f.n THEN <<>> ELSE StructParams(g.module, ep)
  IN  With([EmitBlock(f.body, [g EXCEPT !.ep = ep]) EXCEPT !.ep = ""],
           LAMBDA body : [f EXCEPT !.n = n, !.params = params \o @, !.body = body])

EmitEntryPointFunction(f, g) ==
  LET statements == IF Is(LastStatement(f.body), "return") THEN f.body ELSE Append(f.body, Return(Null))
      outs == Variable(StructVar.output, "function", StructType(g.module, f.n, "output"), FALSE, Null, NoDeco)
      params == SelectSeq(StructParams(g.module, f.n), LAMBDA p : p.by = "value")
      first == IF HasStruct(g.module, f.n, "output") THEN <<Undefined(outs)>> ELSE <<>>
  IN  With([EmitBlock(statements, [g EXCEPT !.ep = f.n, !.generating_entry_point = TRUE])
              EXCEPT !.ep = "", !.generating_entry_point = FALSE],
           LAMBDA body : [f EXCEPT !.params = params, !.body = first \o body])

\* What keeps the data of an entry point from being emitted.
EntryPointDataFails(m, f) ==
  \E i \in DOMAIN f.refs :
    LET v == Global(m, f.refs[i])
    IN  \/ v.sc = "storage" /\ IsBound(v) /\ ~Has(v, "access")
        \/ v.sc \in {"input", "output"} /\ Has(v, "location") /\ f.stage = "compute"
        \/ v.sc \in {"input", "output"} /\ Has(v, "builtin") /\ v.decos.builtin = "pointsize"

RECURSIVE HasRuntimeArray(_)
HasRuntimeArray(t) ==
  CASE Is(t, "struct") -> \E i \in DOMAIN t.members : HasRuntimeArray(t.members[i].ty)
    [] Is(t, "array")  -> IsRuntimeArray(t) \/ HasRuntimeArray(t.of)
    [] OTHER           -> FALSE

EmitFunction(f, g) ==
  LET Named(ep) == IF ep = "" THEN f.n ELSE DuplicateName(f, ep)
      Add(h, Emit(_)) == After(h, LAMBDA k : With(Emit(k), LAMBDA made : Append(k.out, made)))
      eps == IF IsDuplicated(g.module, f) THEN f.entry_points ELSE <<"">>
  IN  IF IsEntryPoint(f) THEN Add(g, LAMBDA h : EmitEntryPointFunction(f, h))
      ELSE FoldLeft(LAMBDA h, ep : Add(h, LAMBDA k : EmitFunctionInternal(f, Named(ep), ep, k)), g, eps)

Generate(m) ==
  LET kept == SelectSeq(m.globals, LAMBDA v : ~global_is_in_struct(v))
      variables == [i \in DOMAIN kept |-> [kept[i] EXCEPT !.ty = DeclaredType(kept[i])]]
      ready == CASE \E i \in DOMAIN m.types : HasRuntimeArray(m.types[i]) -> Fails(Start(m), "runtime array not supported yet.")
                 [] \E i \in DOMAIN m.functions : IsEntryPoint(m.functions[i]) /\ EntryPointDataFails(m, m.functions[i]) ->
                      Fails(Start(m), "invalid entry point data")
                 [] OTHER -> Start(m)
      Text(g) == [error |-> g.error, globals |-> variables, functions |-> g.out]
  IN  Text(FoldLeft(LAMBDA g, f : After(g, LAMBDA h : EmitFunction(f, h)), Out(ready, <<>>), m.functions))

\* What is seen of a run of the text.
Run(text, m, ep, env, bits, iterations) ==
  LET functions == FunctionsOf(text)
      ins == StructVariables(m, FunctionOf(m, ep), "input")
      outs == StructVariables(m, FunctionOf(m, ep), "output")
      Given(st) == IF ins = <<>> THEN st ELSE Bind(st, StructVar.input, [i \in DOMAIN ins |-> env[ins[i]]])
      SeenOf(ran) == [Seen(ran) EXCEPT !.outputs = IF ran.sig = "return" THEN {<<outs[i], ran.v[i]>> : i \in DOMAIN outs} ELSE {}]
  IN  SeenOf(ExecAll(functions[ep].body, Given(Enter(Globals(text, env, Begin(functions, bits, iterations))))))
=============================================================================
