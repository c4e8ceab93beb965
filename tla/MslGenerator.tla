----------------------------- MODULE MslGenerator -----------------------------
(***************************************************************************)
(* The MSL writer: a determined module as Metal text.  The text is a tree   *)
(* of the same nodes, in the forms of Meaning where Metal has others; the   *)
(* spelling of names, types, literals and attributes is left out.           *)
(*                                                                          *)
(* Metal has no variables of the module for inputs, outputs and buffers:    *)
(* they are parameters of the entry point, and of every function that       *)
(* refers to them.                                                          *)
(***************************************************************************)
EXTENDS TextGenerator

-----------------------------------------------------------------------------
(* What becomes of the module's variables a function refers to              *)

in_locations(m, f) == Referenced(m, f, LAMBDA v : v.sc = "input" /\ Has(v, "location"))
out_variables(m, f) ==
  LET Of(deco) == Referenced(m, f, LAMBDA v : v.sc = "output" /\ Has(v, deco)) IN Of("location") \o Of("builtin")
has_referenced_in_var_needing_struct(m, f) == in_locations(m, f) # <<>>
has_referenced_out_var_needing_struct(m, f) == out_variables(m, f) # <<>>

\* The variables that are passed by reference, in this order.
Passed(m, f) ==
  Referenced(m, f, LAMBDA v : v.sc = "input" /\ Has(v, "builtin"))
  \o Referenced(m, f, LAMBDA v : v.sc = "uniform" /\ IsBound(v))
  \o Referenced(m, f, LAMBDA v : v.sc = "storage" /\ IsBound(v))

\* The struct the current entry point has, if any, as a list.
current_ep_var_name(m, ep, sc) ==
  LET f == FunctionOf(m, ep)
      names == IF sc = "input" THEN in_locations(m, f) ELSE out_variables(m, f)
  IN  IF ep = "" \/ names = <<>> THEN <<>> ELSE <<StructId(m, sc, names)>>

global_is_in_struct(v) ==
  \/ v.sc \in {"input", "output"} /\ Has(v, "location")
  \/ v.sc = "output" /\ Has(v, "builtin")

builtin_to_attribute ==
  {"position", "vertex_index", "instance_index", "front_facing", "frag_coord", "frag_depth",
   "local_invocation_id", "local_invocation_idx", "global_invocation_id"}

\* What keeps the data of an entry point from being emitted.
EntryPointDataFails(m, f) ==
  \E n \in ToSet(in_locations(m, f) \o out_variables(m, f)) :
    LET v == Global(m, n)
    IN  \/ Has(v, "location") /\ f.stage \notin {"vertex", "fragment"}
        \/ ~Has(v, "location") /\ v.decos.builtin \notin builtin_to_attribute

-----------------------------------------------------------------------------
(* Struct types: padding up to where a member has to be                     *)

RECURSIVE calculate_alignment_size(_), calculate_largest_alignment(_), DividesByZero(_)
\* Undefined without an alignment.
adjust_for_alignment(count, alignment) ==
  LET spill == count % alignment IN IF spill = 0 THEN count ELSE count + alignment - spill

\* The size of a struct without members is adjusted for no alignment, and with it the size of
\* what it is in.
DividesByZero(t) ==
  CASE t.k \in {"alias", "array"} -> DividesByZero(t.of)
    [] Is(t, "struct") ->
         \/ t.members = <<>>
         \/ \E i \in DOMAIN t.members : /\ DividesByZero(t.members[i].ty)
                                        /\ \A j \in 1..(i - 1) : calculate_alignment_size(t.members[j].ty) # 0
    [] OTHER -> FALSE

\* 0 if it is not known; of a type whose size divides by zero there is none.
calculate_alignment_size(t) ==
  LET Place1(acc, member) ==
        LET align == calculate_alignment_size(member.ty)
            own == IF Is(member.ty, "struct") THEN calculate_largest_alignment(member.ty) ELSE align
            count == adjust_for_alignment(IF "off" \in DOMAIN member THEN member.off ELSE acc.count, align)
        IN  IF ~acc.known \/ align = 0 THEN [acc EXCEPT !.known = FALSE]
            ELSE [acc EXCEPT !.count = count + align, !.largest = IF own > @ THEN own ELSE @]
      all == FoldLeft(Place1, [count |-> 0, known |-> TRUE, largest |-> 0], t.members)
  IN  CASE Is(t, "alias")  -> calculate_alignment_size(t.of)
        [] Is(t, "array")  -> t.n * calculate_alignment_size(t.of)
        [] Is(t, "bool")   -> 1
        [] is_scalar(t)    -> 4
        [] Is(t, "mat")    -> t.n * t.rows * calculate_alignment_size(t.of)
        [] Is(t, "vec")    -> (IF t.n = 2 THEN 2 ELSE 4) * calculate_alignment_size(t.of)
        [] Is(t, "struct") -> IF all.known THEN adjust_for_alignment(all.count, all.largest) ELSE 0
        [] OTHER           -> 0

calculate_largest_alignment(t) ==
  LET Of(x) == IF Is(x, "struct") THEN calculate_largest_alignment(x) ELSE calculate_alignment_size(x)
      Larger(acc, member) == IF Of(member.ty) > acc THEN Of(member.ty) ELSE acc
  IN  IF \E i \in DOMAIN t.members : calculate_alignment_size(t.members[i].ty) = 0 THEN 0
      ELSE FoldLeft(Larger, 0, t.members)

\* The members of the text: paddings, with their sizes, and the members of the type.
\* A padding back to an earlier offset is unsigned: it has about 2^32 bytes.
\* Mutant of PaddingSize: a padding of words, not of bytes.
PaddingWords(n) == IF n < 0 THEN 2 ^ 30 ELSE n \div 4

PaddingSize(n) == IF n < 0 THEN 2 ^ 30 ELSE n
DivisionByZero == "division by zero"
UnknownSize == "unable to calculate byte size"
EmitStructType(t) ==
  LET Emit(acc, member) ==
        LET offset == IF "off" \in DOMAIN member THEN member.off ELSE acc.current
            pad == IF offset = acc.current THEN <<>> ELSE <<[pad |-> PaddingSize(offset - acc.current)]>>
            size == calculate_alignment_size(member.ty)
        IN  [current |-> offset + size, text |-> acc.text \o pad \o <<[ty |-> member.ty]>>,
             error |-> IF size = 0 THEN UnknownSize ELSE ""]
      Next1(acc, member) == CASE acc.error # ""            -> acc
                              [] DividesByZero(member.ty) -> [acc EXCEPT !.error = DivisionByZero]
                              [] OTHER                    -> Emit(acc, member)
  IN  FoldLeft(Next1, [current |-> 0, text |-> <<>>, error |-> ""], t.members)

-----------------------------------------------------------------------------
(* Expressions *)

RECURSIVE EmitNode(_, _)

\* The parts of a node, in this order.
EmitParts(x, parts, g) ==
  FoldLeft(LAMBDA h, p : After(h, LAMBDA k : With(EmitNode(x[p], k), LAMBDA e : [k.out EXCEPT ![p] = e])), Out(g, x), parts)
EmitAll(es, g) == EmitEach(EmitNode, es, g)

EmitArrayAccessor(e, g) == EmitParts(e, <<"e", "i">>, g)
EmitBitcast(e, g) == EmitParts(e, <<"e">>, g)
EmitBinary(e, g) == EmitParts(e, <<"l", "r">>, g)
EmitMemberAccessor(e, g) ==
  After(EmitNode(e.e, g), LAMBDA x : With(EmitNode(MemberName(e), x), LAMBDA name : Accessor(e, x.out, name)))
EmitUnaryOp(e, g) == EmitParts(e, <<"e">>, g)

EmitIdentifier(e, g) ==
  LET v == Global(g.module, e.n)
      struct == current_ep_var_name(g.module, g.ep, v.sc)
  IN  CASE ~IsGlobal(g.module, e.n) \/ ~global_is_in_struct(v) -> Out(g, e)
        [] struct # <<>> -> Out(g, MemberAccessor(struct[1], e.n) @@ [rt |-> e.rt])
        [] OTHER         -> Fails(g, "unable to find entry point data for variable")

RECURSIVE EmitZeroValue(_)
EmitZeroValue(t) ==
  CASE Is(t, "array") -> EmitZeroValue(t.of)
    [] OTHER          -> is_scalar(t) \/ t.k \in {"vec", "mat", "struct"}

EmitTypeConstructor(e, g) ==
  IF e.args # <<>> THEN With(EmitAll(e.args, g), LAMBDA args : [e EXCEPT !.args = args])
  ELSE IF EmitZeroValue(e.ty) THEN Out(g, e) ELSE Fails(g, "Invalid type for zero emission")

\* The intrinsics Metal has a name for.
generate_intrinsic_name ==
  {"any", "all", "countOneBits", "dot", "dpdx", "dpdxFine", "dpdxCoarse", "dpdy", "dpdyFine", "dpdyCoarse",
   "fwidth", "fwidthFine", "fwidthCoarse", "isFinite", "isInf", "isNan", "isNormal", "reverseBits", "select"}
generate_builtin_name ==
  {"acos", "asin", "atan", "atan2", "ceil", "cos", "cosh", "cross", "determinant", "distance", "exp", "exp2",
   "floor", "fma", "fract", "length", "log", "log2", "mix", "normalize", "pow", "reflect", "round", "sin", "sinh",
   "sqrt", "step", "tan", "tanh", "trunc", "sign", "clamp", "abs", "max", "min", "faceForward", "smoothStep",
   "inverseSqrt"}

\* The order of the arguments.
MslOrder == <<"texture", "value", "sampler", "coords", "array_index", "depth_ref", "sample_index", "bias", "level",
              "ddx", "ddy", "offset">>
EmitTextureCall(call, g) ==
  LET roles == SelectSeq(MslOrder, LAMBDA r : Uses(call, r))
      dim == UnwrapAll(call.args[1].rt).dim
  IN  CASE IsQuery(call.f) -> With(EmitNode(call.args[1], g), LAMBDA texture : TextureQuery(call, texture))
        [] Uses(call, "ddx") /\ dim \in {"1d", "1d_array"} -> Fails(g, "MSL does not support gradients")
        [] OTHER -> With(EmitAll([i \in DOMAIN roles |-> call.args[Role(call, roles[i])]], g),
                         LAMBDA args : [call EXCEPT !.args = args, !.roles = roles])

\* The arguments of an intrinsic as Metal takes them: its select() yields the first one
\* when the condition does not hold.
InMetal(f, args) ==
  IF f = "select" THEN [args EXCEPT ![3] = UnaryOp("!", @) @@ [rt |-> @.rt]] ELSE args

IsDuplicated(m, f) ==
  f.entry_points # <<>> /\ (has_referenced_in_var_needing_struct(m, f) \/ has_referenced_out_var_needing_struct(m, f))

\* A call of a function: what it is given apart from its arguments comes first.
EmitUserCall(call, g) ==
  LET m == g.module
      f == FunctionOf(m, call.f)
      remapped == g.ep # "" /\ IsDuplicated(m, f) /\ Contains(f.entry_points, g.ep)
      struct(sc, referenced) == IF referenced THEN current_ep_var_name(m, g.ep, sc) ELSE <<>>
      structs == struct("input", has_referenced_in_var_needing_struct(m, f))
                 \o struct("output", has_referenced_out_var_needing_struct(m, f))
      Id(n) == Identifier(n) @@ [rt |-> Global(m, n).ty]
      passed == [i \in DOMAIN Passed(m, f) |-> Id(Passed(m, f)[i])]
      n == IF remapped THEN DuplicateName(f, g.ep) ELSE call.f
  IN  With(EmitAll(call.args, g), LAMBDA args : [call EXCEPT !.f = n, !.args = structs \o passed \o args])

EmitCall(call, g) ==
  CASE ~IsIntrinsic(call, g.module) -> EmitUserCall(call, g)
    [] "roles" \in DOMAIN call      -> EmitTextureCall(call, g)
    [] call.f \in generate_intrinsic_name \cup generate_builtin_name ->
         With(EmitAll(call.args, g), LAMBDA args : [call EXCEPT !.args = InMetal(call.f, args)])
    [] OTHER                        -> Fails(g, "Unknown import method")

EmitExpression(e, g) ==
  CASE ~Good(g)            -> g
    [] Is(e, "index")      -> EmitArrayAccessor(e, g)
    [] Is(e, "binary")     -> EmitBinary(e, g)
    [] Is(e, "bitcast")    -> EmitBitcast(e, g)
    [] Is(e, "call")       -> EmitCall(e, g)
    [] Is(e, "literal")    -> Out(g, e)
    [] Is(e, "construct")  -> EmitTypeConstructor(e, g)
    [] Is(e, "id")         -> EmitIdentifier(e, g)
    [] Is(e, "member")     -> EmitMemberAccessor(e, g)
    [] Is(e, "unary")      -> EmitUnaryOp(e, g)

-----------------------------------------------------------------------------
(* Statements *)

EmitStatements(ss, g) == FoldLeft(LAMBDA h, s : After(h, LAMBDA k : EmitNode(s, k)), g, ss)
EmitBlock(ss, g) == Within(LAMBDA h : EmitStatements(ss, h), g)

EmitAssign(s, g) == Emitted(EmitParts(s, <<"l", "r">>, g), LAMBDA x : x)

EmitCase(c, g) ==
  With(EmitBlock(c.body, g),
       LAMBDA body : [c EXCEPT !.body = body \o IF last_is_break_or_fallthrough(c.body) THEN <<>> ELSE <<Break>>])

EmitSwitch(s, g) ==
  After(EmitNode(s.c, g), LAMBDA cond : Emitted(EmitEach(EmitCase, s.cases, cond), LAMBDA cases : CSwitch(cond.out, cases)))

EmitElse(x, g) ==
  After(IF HasCondition(x) THEN EmitNode(x.c, g) ELSE Out(g, Null),
        LAMBDA cond : With(EmitBlock(x.body, cond), LAMBDA body : ElseStatement(cond.out, body)))

EmitIf(s, g) ==
  After(EmitNode(s.c, g), LAMBDA cond : After(EmitBlock(s.body, cond), LAMBDA body :
    Emitted(EmitEach(EmitElse, s.elses, body), LAMBDA elses : IfStatement(cond.out, body.out, elses))))

\* What a declaration has for a value: its constructor, or zero.
EmitConstructorOrZero(v, g) ==
  IF v.init # Null THEN EmitNode(v.init, g)
  ELSE IF EmitZeroValue(v.ty) THEN Out(g, ZeroOf(v.ty)) ELSE Fails(g, "Invalid type for zero emission")

EmitVariable(v, skip_constructor, g) ==
  IF v.decos # NoDeco THEN Fails(g, "Variable decorations are not handled yet")
  ELSE IF skip_constructor THEN Line(g, Undefined(v))
  ELSE Emitted(EmitConstructorOrZero(v, g), LAMBDA init : VariableDecl([v EXCEPT !.init = init]))

\* A declaration of a body whose variables were declared before the loop.
EmitInLoop(s, g) ==
  IF Is(s, "decl") THEN Emitted(EmitConstructorOrZero(s.v, g), LAMBDA init : Assignment(Identifier(s.v.n) @@ [rt |-> s.v.ty], init))
  ELSE EmitNode(s, g)

\* With a continuing part: it comes first in the loop, from the second iteration on.
EmitLoopWithContinuing(s, g) ==
  LET guard == Identifier("tint_msl_is_first_" \o ToString(g.names)) @@ [rt |-> Bool]
      Decls(h) == FoldLeft(LAMBDA acc, x : EmitVariable(x.v, TRUE, acc), h, SelectSeq(s.body, LAMBDA x : Is(x, "decl")))
      Body(h) == FoldLeft(LAMBDA acc, x : After(acc, LAMBDA k : EmitInLoop(x, k)), h, s.body)
  IN  After(Within(Decls, g), LAMBDA decls : After(EmitBlock(s.cont, decls), LAMBDA cont :
        Emitted(Within(Body, cont), LAMBDA body : GuardedLoop(guard, decls.out, cont.out, body))))

EmitLoop(s, g) ==
  IF s.cont = <<>> THEN Emitted(EmitBlock(s.body, generate_name(g)), LAMBDA body : LoopStatement(body, <<>>))
  ELSE EmitLoopWithContinuing(s, generate_name(g))

\* An entry point returns the struct of its outputs.
EmitReturn(s, g) ==
  LET outs == current_ep_var_name(g.module, g.ep, "output")
  IN  IF g.generating_entry_point THEN Line(g, Return(IF outs = <<>> THEN Null ELSE outs[1]))
      ELSE IF s.e = Null THEN Line(g, s) ELSE Emitted(EmitNode(s.e, g), Return)

EmitStatement(s, g) ==
  CASE Is(s, "assign")      -> EmitAssign(s, g)
    [] Is(s, "block")       -> Emitted(EmitBlock(s.body, g), Block)
    [] Is(s, "callstmt")    -> Emitted(EmitNode(s.e, g), CallStatement)
    [] Is(s, "fallthrough") -> g
    [] Is(s, "if")          -> EmitIf(s, g)
    [] Is(s, "loop")        -> EmitLoop(s, g)
    [] Is(s, "return")      -> EmitReturn(s, g)
    [] Is(s, "switch")      -> EmitSwitch(s, g)
    [] Is(s, "decl")        -> EmitVariable(s.v, FALSE, g)
    [] OTHER                -> Line(g, s)

\* A node of either kind.
EmitNode(x, g) == IF IsStatement(x) THEN EmitStatement(x, g) ELSE EmitExpression(x, g)

-----------------------------------------------------------------------------
(* Functions and the module *)

\* The structs of the entry point come first, whether the function needs them or not.
EmitFunctionInternal(f, n, ep, g) ==
  LET m == g.module
      Reference(v, ty) == [n |-> v, ty |-> ty, by |-> "reference"]
      structs == IF n = f.n THEN <<>> ELSE current_ep_var_name(m, ep, "input") \o current_ep_var_name(m, ep, "output")
      params == [i \in DOMAIN structs |-> Reference(structs[i].n, structs[i].rt)]
                \o [i \in DOMAIN Passed(m, f) |-> Reference(Passed(m, f)[i], Global(m, Passed(m, f)[i]).ty)] \o f.params
  IN  IF \E x \in ToSet(Passed(m, f)) : Global(m, x).sc = "storage" /\ ~Has(Global(m, x), "access")
      THEN Fails(g, "invalid type for storage buffer, expected access control")
      ELSE With([EmitBlock(f.body, [g EXCEPT !.ep = ep]) EXCEPT !.ep = ""],
                LAMBDA body : [f EXCEPT !.n = n, !.params = params, !.body = body])

EmitFunction(f, g) ==
  LET eps == IF IsDuplicated(g.module, f) THEN f.entry_points ELSE <<"">>
      Emit(ep, h) == EmitFunctionInternal(f, IF ep = "" THEN f.n ELSE DuplicateName(f, ep), ep, h)
  IN  IF IsEntryPoint(f) THEN g ELSE With(EmitEach(Emit, eps, g), LAMBDA made : g.out \o made)

\* The outputs are a struct of zeros at first; "resources" is what the entry point is given.
EmitEntryPointFunction(f, g) ==
  LET m == g.module
      outs == StructOf(m, "output", out_variables(m, f))
      zeros == VariableDecl(Variable(StructVar.output, "function", outs, FALSE, ZeroOf(outs), NoDeco))
      first == IF out_variables(m, f) = <<>> THEN <<>> ELSE <<zeros>>
      statements == IF Is(LastStatement(f.body), "return") THEN f.body ELSE Append(f.body, Return(Null))
      resources == [i \in DOMAIN Passed(m, f) |-> Global(m, Passed(m, f)[i])]
      Unusable(v) == (v.sc = "storage" /\ ~Has(v, "access"))
                     \/ (v.sc = "input" /\ v.decos.builtin \notin builtin_to_attribute)
  IN  IF \E i \in DOMAIN resources : Unusable(resources[i]) THEN Fails(g, "invalid parameter of an entry point")
      ELSE With([EmitBlock(statements, [g EXCEPT !.ep = f.n, !.generating_entry_point = TRUE])
                   EXCEPT !.ep = "", !.generating_entry_point = FALSE],
                LAMBDA body : Append(g.out, [f EXCEPT !.body = first \o body] @@ [resources |-> resources]))

\* A constant with an id has no value of its own.
EmitProgramConstVariable(v) == IF Has(v, "constant_id") THEN [v EXCEPT !.init = Null] ELSE v

Generate(m) ==
  LET consts == SelectSeq(m.globals, LAMBDA v : v.const)
      others == SelectSeq(m.globals, LAMBDA v : ~v.const /\ v.sc \in {"private", "workgroup", "uniform_constant"})
      structs == SelectSeq(m.types, LAMBDA t : Is(t, "struct"))
      emitted == FoldLeft(LAMBDA g, t : IF EmitStructType(t).error = "" THEN g ELSE Fails(g, EmitStructType(t).error), Start(m), structs)
      ready == CASE ~Good(emitted) -> emitted
                 [] \E i \in DOMAIN m.functions : IsEntryPoint(m.functions[i]) /\ EntryPointDataFails(m, m.functions[i]) ->
                      Fails(Start(m), "invalid entry point data")
                 [] OTHER -> Out(Start(m), <<>>)
      entry_points == SelectSeq(m.functions, IsEntryPoint)
      Functions(g) == FoldLeft(LAMBDA h, f : After(h, LAMBDA k : EmitFunction(f, k)), g, m.functions)
      EntryPoints(g) == FoldLeft(LAMBDA h, f : After(h, LAMBDA k : EmitEntryPointFunction(f, k)), g, entry_points)
      Text(g) == [error |-> g.error, globals |-> [i \in DOMAIN consts |-> EmitProgramConstVariable(consts[i])] \o others,
                  functions |-> g.out]
  IN  Text(EntryPoints(Functions(ready)))

\* What is seen of a run of the text.
Run(text, m, ep, env, bits, iterations) ==
  LET functions == FunctionsOf(text)
      ins == in_locations(m, FunctionOf(m, ep))
      outs == out_variables(m, FunctionOf(m, ep))
      resources == [globals |-> functions[ep].resources]
      Given(st) == IF ins = <<>> THEN st ELSE Bind(st, StructVar.input, [i \in DOMAIN ins |-> env[ins[i]]])
      SeenOf(ran) == [Seen(ran) EXCEPT !.outputs = IF ran.sig = "return" THEN {<<outs[i], ran.v[i]>> : i \in DOMAIN outs} ELSE {}]
  IN  SeenOf(ExecAll(functions[ep].body, Given(Globals(resources, env, Globals(text, env, Begin(functions, bits, iterations))))))
=============================================================================
