---------------------------- MODULE SpirvBuilder ----------------------------
(***************************************************************************)
(* The SPIR-V writer: a module as the sections of a SPIR-V binary.          *)
(*                                                                          *)
(* Ids are numbered in the order the instructions are pushed (the builder   *)
(* reserves some of them earlier, which changes the numbers only); names    *)
(* for debuggers, layout decorations and the words of the binary are left   *)
(* out.  Every operator passes on the builder as it is after its work, with *)
(* the id of the value it generated in "id"; after an error nothing more is *)
(* generated.                                                               *)
(***************************************************************************)
EXTENDS Ast, Integers

Fresh(m) ==
  [next |-> 1, id |-> 0, error |-> "", module |-> m,
   types |-> <<>>, type_ids |-> <<>>, function_types |-> <<>>, sampled_types |-> <<>>,
   literals |-> <<>>, composites |-> <<>>,                 \* const_to_id_
   scopes |-> <<<<>>>>, function_ids |-> <<>>, functions |-> <<>>, entry_points |-> <<>>,
   capabilities |-> {"Shader"}, merge_stack |-> <<>>, continue_stack |-> <<>>,
   in_function |-> FALSE, label |-> 0, vars |-> <<>>, code |-> <<>>]

Ok(b) == b.error = ""
Then(b, Rest(_)) == IF Ok(b) THEN Rest(b) ELSE b
set_error(b, why) == IF Ok(b) THEN [b EXCEPT !.error = why] ELSE b

-----------------------------------------------------------------------------
(* Instructions *)

Instruction(op, ty, id, args) == [op |-> op, ty |-> ty, id |-> id, args |-> args]

Reserve(b) == [b EXCEPT !.next = @ + 1, !.id = b.next]

\* push_function_inst, without and with a result.
Push(b, op, args) ==
  CASE ~Ok(b)         -> b
    [] ~b.in_function -> set_error(b, "instruction outside a function")
    [] OTHER          -> [b EXCEPT !.code = Append(@, Instruction(op, 0, 0, args))]
PushResult(b, op, ty, args) ==
  CASE ~Ok(b)         -> b
    [] ~b.in_function -> set_error(b, "instruction outside a function")
    [] OTHER -> [Reserve(b) EXCEPT !.code = Append(@, Instruction(op, ty, b.next, args))]
push_type(b, op, ty, args) ==
  IF Ok(b) THEN [Reserve(b) EXCEPT !.types = Append(@, Instruction(op, ty, b.next, args))] ELSE b
push_function_var(b, ty, init) ==
  IF Ok(b) THEN [Reserve(b) EXCEPT !.vars = Append(@, Instruction("OpVariable", ty, b.next, <<"function", init>>))]
  ELSE b
push_capability(b, c) == [b EXCEPT !.capabilities = @ \cup {c}]

GenerateLabel(b, id) ==
  LET p == Push(b, "OpLabel", <<id>>) IN IF Ok(p) THEN [p EXCEPT !.label = id] ELSE p
Branch(b, to) == Push(b, "OpBranch", <<to>>)

\* The ids Step yields for xs, in order, and what is made with them.
Each(Step(_, _), xs, b) ==
  LET Add(acc, r) == [b |-> r, list |-> Append(acc.list, r.id)]
  IN  FoldLeft(LAMBDA acc, x : Add(acc, Step(x, acc.b)), [b |-> b, list |-> <<>>], xs)
WithEach(Step(_, _), xs, b, Made(_, _)) ==
  LET Use(all) == Then(all.b, LAMBDA c : Made(c, all.list)) IN Use(Each(Step, xs, b))

-----------------------------------------------------------------------------
(* Scopes *)

SetName(b, n, id) == [b EXCEPT !.scopes[Len(b.scopes)] = (n :> id) @@ @]
SetGlobal(b, n, id) == [b EXCEPT !.scopes[1] = (n :> id) @@ @]
\* Mutant of ScopeOf: only the innermost scope.
InnermostScope(b, n) == IF n \in DOMAIN Last(b.scopes) THEN Len(b.scopes) ELSE 0

ScopeOf(b, n) == SelectLastInSeq(b.scopes, LAMBDA s : n \in DOMAIN s)
PushScope(b) == [b EXCEPT !.scopes = Append(@, <<>>)]
PopScope(b) == IF Ok(b) THEN [b EXCEPT !.scopes = Front(@)] ELSE b

-----------------------------------------------------------------------------
(* Types and constants: each is declared once for every name it has.        *)

RECURSIVE GenerateTypeIfNeeded(_, _)

\* A literal has a kind, a type and a value; spec: it can be specialised.
LiteralOf(kind, ty, v) == [kind |-> kind, ty |-> ty, v |-> v, spec |-> FALSE]

\* An unsigned literal is named without its type.
GenerateLiteralIfNeeded(l, b) ==
  LET op == CASE l.kind = "null" -> "OpConstantNull" [] l.spec -> "OpSpecConstant" [] OTHER -> "OpConstant"
      Declare(t) == IF l \in DOMAIN t.literals THEN [t EXCEPT !.id = t.literals[l]]
                    ELSE [push_type(t, op, t.id, <<l.v>>) EXCEPT !.literals = (l :> t.next) @@ @]
  IN  Then(GenerateTypeIfNeeded(l.ty, b), Declare)

Null0(ty) == LiteralOf("null", ty, 0)
Constant(ty, v) == LiteralOf("value", ty, v)
GenerateU32Literal(v, b) == GenerateLiteralIfNeeded(LiteralOf("sint", U32, v), b)

GenerateArrayType(t, b) ==
  Then(GenerateTypeIfNeeded(t.of, b),
       LAMBDA of : IF IsRuntimeArray(t) THEN push_type(of, "OpTypeRuntimeArray", 0, <<of.id>>)
                   ELSE Then(GenerateU32Literal(t.n, of), LAMBDA len : push_type(len, "OpTypeArray", 0, <<of.id, len.id>>)))

GenerateMatrixType(t, b) ==
  Then(GenerateTypeIfNeeded(Vector(t.of, t.rows), b), LAMBDA column : push_type(column, "OpTypeMatrix", 0, <<column.id, t.n>>))

GeneratePointerType(t, b) ==
  Then(GenerateTypeIfNeeded(t.of, b),
       LAMBDA of : IF t.sc = "none" THEN set_error(of, "invalid storage class for pointer")
                   ELSE push_type(of, "OpTypePointer", 0, <<t.sc, of.id>>))

GenerateStructType(t, b) ==
  WithEach(LAMBDA m, r : GenerateTypeIfNeeded(m.ty, r), t.members, b, LAMBDA c, ids : push_type(c, "OpTypeStruct", 0, ids))

GenerateVectorType(t, b) ==
  Then(GenerateTypeIfNeeded(t.of, b), LAMBDA of : push_type(of, "OpTypeVector", 0, <<of.id, t.n>>))

Arrayed(t) == t.dim \in {"1d_array", "2d_array", "cube_array"}
GenerateTextureType(t, b) ==
  LET needs == CASE t.dim \in {"1d", "1d_array"} -> {IF t.class = "sampled" THEN "Sampled1D" ELSE "Image1D"}
                 [] t.dim = "cube_array" /\ t.class \in {"sampled", "depth"} -> {"SampledCubeArray"}
                 [] OTHER -> {}
  IN  Then(GenerateTypeIfNeeded(IF t.class = "depth" THEN F32 ELSE t.of, b),
           LAMBDA of : push_type([of EXCEPT !.capabilities = @ \cup needs], "OpTypeImage", 0, <<of.id, t.class, t.dim>>))

DeclareType(t, b) ==
  CASE Is(t, "array")   -> GenerateArrayType(t, b)
    [] Is(t, "mat")     -> GenerateMatrixType(t, b)
    [] Is(t, "ptr")     -> GeneratePointerType(t, b)
    [] Is(t, "struct")  -> GenerateStructType(t, b)
    [] Is(t, "vec")     -> GenerateVectorType(t, b)
    [] Is(t, "texture") -> GenerateTextureType(t, b)
    [] OTHER            -> push_type(b, "OpType", 0, <<t.k>>)

GenerateTypeIfNeeded(t, b) ==
  IF ~Ok(b) THEN b
  ELSE IF Is(t, "alias") THEN GenerateTypeIfNeeded(t.of, b)
  ELSE IF t \in DOMAIN b.type_ids THEN [b EXCEPT !.id = b.type_ids[t]]
  ELSE Then(DeclareType(t, b), LAMBDA d : [d EXCEPT !.type_ids = (t :> d.id) @@ @])

GenerateFunctionTypeIfNeeded(f, b) ==
  LET name == <<f.ret, [i \in DOMAIN f.params |-> f.params[i].ty]>>
      Declare(ret, c, ids) == [push_type(c, "OpTypeFunction", 0, <<ret.id>> \o ids) EXCEPT !.function_types = (name :> c.next) @@ @]
  IN  IF name \in DOMAIN b.function_types THEN [b EXCEPT !.id = b.function_types[name]]
      ELSE Then(GenerateTypeIfNeeded(f.ret, b),
                LAMBDA ret : WithEach(GenerateTypeIfNeeded, name[2], ret, LAMBDA c, ids : Declare(ret, c, ids)))

-----------------------------------------------------------------------------
(* Expressions *)

RECURSIVE GenerateNode(_, _)

\* An instruction with a result of type t.
Operation(b, op, t, args) == Then(GenerateTypeIfNeeded(t, b), LAMBDA r : PushResult(r, op, r.id, args))

GenerateStore(b, to, from) == Push(b, "OpStore", <<to, from>>)
GenerateLoadIfNeeded(t, b) == IF Is(t, "ptr") THEN Operation(b, "OpLoad", t.of, <<b.id>>) ELSE b

\* The value of an expression.
Value(e, b) == Then(GenerateNode(e, b), LAMBDA r : GenerateLoadIfNeeded(e.rt, r))

\* A value computed from the ones of es.
OperationOn(es, op, t, before, b) ==
  WithEach(Value, es, b, LAMBDA c, ids : Operation(c, op, t, before \o ids))

GenerateIdentifierExpression(e, b) ==
  LET s == ScopeOf(b, e.n)
  IN  IF s = 0 THEN set_error(b, "unable to find variable") ELSE [b EXCEPT !.id = b.scopes[s][e.n]]

\* A chain of accessors: the accessors, the innermost first, and what they start at.
RECURSIVE Accessors(_), SourceOf(_)
Accessors(e) == IF e.k \in {"member", "index"} THEN Append(Accessors(e.e), e) ELSE <<>>
SourceOf(e) == IF e.k \in {"member", "index"} THEN SourceOf(e.e) ELSE e

\* AccessorInfo: the builder, the id and the type the chain is at, and the indices
\* gathered for an access chain.
Chained(info, b, id, t) == [info EXCEPT !.b = b, !.chain = Append(@, id), !.ty = t]
Extracted(info, b, t) == [info EXCEPT !.b = b, !.id = b.id, !.ty = t]

IsComposedArray(t) == Is(t, "array") /\ ~is_scalar(t.of)

GenerateArrayAccessor(e, info) ==
  LET Access(i) == IF Is(info.ty, "ptr") \/ IsComposedArray(info.ty) THEN Chained(info, i, i.id, e.rt)
                   ELSE Extracted(info, Operation(i, "OpVectorExtractDynamic", e.rt, <<info.id, i.id>>), e.rt)
  IN  Access(Value(e.i, info.b))

AccessChain(info, t) == Operation(info.b, "OpAccessChain", t, <<info.id>> \o info.chain)

Lanes == [x |-> <<0>>, y |-> <<1>>, xy |-> <<0, 1>>, yx |-> <<1, 0>>]

GenerateSwizzle(e, info) ==
  LET at == IF info.chain = <<>> THEN [info.b EXCEPT !.id = info.id] ELSE AccessChain(info, info.ty)
      Shuffled(vec) == Operation(vec, "OpVectorShuffle", e.rt, <<vec.id, vec.id, Lanes[e.m]>>)
  IN  [Extracted(info, Shuffled(GenerateLoadIfNeeded(info.ty, at)), e.rt) EXCEPT !.chain = <<>>]

GenerateMemberAccessor(e, info) ==
  LET data == UnwrapIfNeeded(UnwrapPtrIfNeeded(e.e.rt))
      is_struct == Is(data, "struct")
      i == IF is_struct THEN MemberIndex(data, e.m) - 1 ELSE Lanes[e.m][1]
      index == GenerateU32Literal(i, info.b)
  IN  CASE is_struct /\ ~Is(info.ty, "ptr") -> [info EXCEPT !.b = set_error(@, "struct member on a non-pointer")]
        [] is_struct                 -> Chained(info, index, index.id, e.rt)
        [] Len(Lanes[e.m]) > 1       -> GenerateSwizzle(e, info)
        [] Is(info.ty, "ptr")        -> Chained(info, index, index.id, info.ty)
        [] OTHER -> Extracted(info, Operation(info.b, "OpCompositeExtract", e.rt, <<info.id, i>>), e.rt)

\* A composed array that is a value is put in a variable first.
InVariable(t, b) ==
  Then(GenerateTypeIfNeeded(Pointer(t, "function"), b), LAMBDA ptr : Then(GenerateLiteralIfNeeded(Null0(t), ptr),
    LAMBDA init : Then(push_function_var(init, ptr.id, init.id),
      LAMBDA var : [GenerateStore(var, var.id, b.id) EXCEPT !.id = var.id])))

GenerateAccessorExpression(e, b) ==
  LET accessors == Accessors(e)
      t == SourceOf(e).rt
      At0(source) == IF Is(accessors[1], "index") /\ IsComposedArray(t) THEN InVariable(t, source) ELSE source
      Info(at) == [b |-> at, id |-> at.id, ty |-> t, chain |-> <<>>]
      Step(info, a) == IF ~Ok(info.b) THEN info
                       ELSE IF Is(a, "index") THEN GenerateArrayAccessor(a, info) ELSE GenerateMemberAccessor(a, info)
      Reached(info) == IF info.chain = <<>> \/ ~Ok(info.b) THEN [info.b EXCEPT !.id = info.id] ELSE AccessChain(info, e.rt)
  IN  Then(GenerateNode(SourceOf(e), b), LAMBDA source : Reached(FoldLeft(Step, Info(At0(source)), accessors)))

GenerateUnaryOpExpression(e, b) ==
  LET op == CASE e.op = "!" -> "OpLogicalNot"
              [] is_float_scalar_or_vector(e.rt) -> "OpFNegate"
              [] OTHER -> "OpSNegate"
  IN  OperationOn(<<e.e>>, op, e.rt, <<>>, b)

\* Mutant of FromLeft: || is left as && is.
WhenTrue(op, block, merge) == <<block, merge>>

\* Where to go from the left side of && and ||, when it holds and when it does not.
FromLeft(op, block, merge) == IF op = "&&" THEN <<block, merge>> ELSE <<merge, block>>

\* Both sides of && and ||: the right one has a block of its own.
RightSide(e, l, merge, block) ==
  LET split == Push(Push(block, "OpSelectionMerge", <<merge.id>>), "OpBranchConditional", <<l.id>> \o FromLeft(e.op, block.id, merge.id))
      Merged(r) == Operation(GenerateLabel(Branch(r, merge.id), merge.id), "OpPhi", e.rt, <<<<l.id, l.label>>, <<r.id, r.label>>>>)
  IN  Then(Value(e.r, GenerateLabel(split, block.id)), Merged)
GenerateShortCircuitBinaryExpression(e, b) ==
  Then(Value(e.l, b), LAMBDA l : RightSide(e, l, Reserve(l), Reserve(Reserve(l))))

\* The operation for floats, for unsigned and for signed integers.
Operators ==
  LET Arithmetic(o) == <<"OpF" \o o, "OpI" \o o, "OpI" \o o>>
      Comparison(o) == <<"OpFOrd" \o o, "OpU" \o o, "OpS" \o o>>
      Same(o) == <<"Op" \o o, "Op" \o o, "Op" \o o>>
  IN  ("+" :> Arithmetic("Add")) @@ ("-" :> Arithmetic("Sub"))
      @@ ("==" :> <<"OpFOrdEqual", "OpIEqual", "OpIEqual">>)
      @@ ("!=" :> <<"OpFOrdNotEqual", "OpINotEqual", "OpINotEqual">>)
      @@ ("<" :> Comparison("LessThan")) @@ (">" :> Comparison("GreaterThan"))
      @@ ("<=" :> Comparison("LessThanEqual")) @@ (">=" :> Comparison("GreaterThanEqual"))
      @@ ("/" :> <<"OpFDiv", "OpUDiv", "OpSDiv">>) @@ ("%" :> <<"OpFMod", "OpUMod", "OpSMod">>)
      @@ ("&" :> Same("BitwiseAnd")) @@ ("|" :> Same("BitwiseOr")) @@ ("^" :> Same("BitwiseXor"))
      @@ ("<<" :> Same("ShiftLeftLogical"))
      @@ (">>" :> <<"OpShiftRightLogical", "OpShiftRightLogical", "OpShiftRightArithmetic">>)

\* A product: its operation and whether its operands change places.
Multiply(l, r) ==
  LET shape(t) == IF t.k \in {"vec", "mat"} THEN t.k ELSE "scalar"
      s == <<shape(l), shape(r)>>
  IN  CASE is_integer_scalar_or_vector(l) -> <<"OpIMul", FALSE>>
        [] s \in {<<"scalar", "scalar">>, <<"vec", "vec">>} -> <<"OpFMul", FALSE>>
        [] s = <<"scalar", "vec">> -> <<"OpVectorTimesScalar", TRUE>>
        [] s = <<"vec", "scalar">> -> <<"OpVectorTimesScalar", FALSE>>
        [] s = <<"scalar", "mat">> -> <<"OpMatrixTimesScalar", TRUE>>
        [] s = <<"mat", "scalar">> -> <<"OpMatrixTimesScalar", FALSE>>
        [] s = <<"vec", "mat">>    -> <<"OpVectorTimesMatrix", FALSE>>
        [] s = <<"mat", "vec">>    -> <<"OpMatrixTimesVector", FALSE>>
        [] OTHER                   -> <<"OpMatrixTimesMatrix", FALSE>>

GenerateBinaryExpression(e, b) ==
  LET l == UnwrapPtrIfNeeded(e.l.rt)
      r == UnwrapPtrIfNeeded(e.r.rt)
      class == IF is_float_scalar_or_vector(l) THEN 1 ELSE IF is_unsigned_scalar_or_vector(l) THEN 2 ELSE 3
      op == IF e.op = "*" THEN Multiply(l, r) ELSE <<Operators[e.op][class], FALSE>>
  IN  IF e.op \in {"&&", "||"} THEN GenerateShortCircuitBinaryExpression(e, b)
      ELSE WithEach(Value, <<e.l, e.r>>, b, LAMBDA c, ids : Operation(c, op[1], e.rt, IF op[2] THEN Reverse(ids) ELSE ids))

GenerateBitcastExpression(e, b) ==
  OperationOn(<<e.e>>, IF UnwrapPtrIfNeeded(e.e.rt) = UnwrapPtrIfNeeded(e.rt) THEN "OpCopyObject" ELSE "OpBitcast",
              e.rt, <<>>, b)

-----------------------------------------------------------------------------
(* Constructors *)

RECURSIVE is_constructor_const(_, _), GenerateTypeConstructorExpression(_, _, _)

IsConstructor(e) == e.k \in {"literal", "construct"}

\* Whether a constructor is made of literals of the types it needs: yes, no, or error.
is_constructor_const(e, is_global_init) ==
  LET t == UnwrapAll(e.ty)
      Wanted(i) == IF t.k \in {"vec", "mat", "array"} THEN UnwrapAll(t.of)
                   ELSE IF Is(t, "struct") THEN UnwrapAll(t.members[i].ty) ELSE t
      Judge(i) ==
        LET v == e.args[i]
            inner == is_constructor_const(v, is_global_init)
        IN  CASE ~IsConstructor(v)     -> IF is_global_init THEN "error" ELSE "no"
              [] inner # "yes"         -> inner
              [] Is(v, "literal")      -> IF Wanted(i) = UnwrapAll(v.rt) THEN "yes" ELSE "no"
              [] OTHER                 -> IF Is(t, "vec") THEN "no" ELSE "yes"
  IN  IF Is(e, "literal") THEN "yes"
      ELSE FoldLeft(LAMBDA acc, i : IF acc = "yes" THEN Judge(i) ELSE acc, "yes", [i \in DOMAIN e.args |-> i])

LiteralFor(v, e) ==
  [Constant(e.ty, e.v) EXCEPT !.spec = (v # Null) /\ Has(v, "constant_id")]

GenerateConstructorExpression(v, e, is_global_init, b) ==
  IF Is(e, "literal") THEN GenerateLiteralIfNeeded(LiteralFor(v, e), b)
  ELSE GenerateTypeConstructorExpression(e, is_global_init, b)

Conversions ==
  [i32 |-> [f32 |-> "OpConvertSToF", u32 |-> "OpBitcast"], u32 |-> [f32 |-> "OpConvertUToF", i32 |-> "OpBitcast"],
   f32 |-> [i32 |-> "OpConvertFToS", u32 |-> "OpConvertFToU"]]

GenerateCastOrCopyOrPassthrough(to, e, b) ==
  LET from == UnwrapPtrIfNeeded(e.rt)
      Element(t) == IF Is(t, "vec") THEN t.of.k ELSE t.k
      Cast(v) == CASE from = to -> v
                   [] Element(from) \in DOMAIN Conversions /\ Element(to) \in DOMAIN Conversions[Element(from)] ->
                        Operation(v, Conversions[Element(from)][Element(to)], to, <<v.id>>)
                   [] OTHER     -> set_error(v, "unable to determine conversion type")
  IN  Then(Value(e, GenerateTypeIfNeeded(to, b)), Cast)

\* The components of the vector at id, of type from.
ExtractConstant(id, from, i, b) ==
  Then(GenerateTypeIfNeeded(from.of, b), LAMBDA ty : Then(GenerateU32Literal(i - 1, ty),
    LAMBDA n : push_type(n, "OpSpecConstantOp", ty.id, <<"OpCompositeExtract", id, n.id>>)))
Extract(id, from, is_global_init, i, b) ==
  IF is_global_init THEN ExtractConstant(id, from, i, b) ELSE Operation(b, "OpCompositeExtract", from.of, <<id, i - 1>>)

\* One more value of a composite with parts of type t: acc has what is gathered.
AddPart(e, v, t, const, is_global_init, acc) ==
  LET from == UnwrapPtrIfNeeded(v.rt)
      Gathered(b, ids) == [acc EXCEPT !.b = b, !.ids = @ \o ids]
      One(b) == Gathered(b, <<b.id>>)
      Split(all) ==
        [Gathered(all.b, all.list) EXCEPT !.op = IF is_global_init THEN "OpSpecConstantComposite"
                                                 ELSE IF @ = "OpConstantComposite" THEN "OpCompositeConstruct" ELSE @]
      Add(p) ==
        CASE ~Ok(p) -> [acc EXCEPT !.b = p]
          [] t = from \/ t.k \in {"mat", "array", "struct"} -> One(p)
          [] is_scalar(from) /\ is_scalar(t)                -> One(GenerateCastOrCopyOrPassthrough(t, e.args[1], p))
          [] Is(from, "vec") ->
               Split(Each(LAMBDA i, b : Extract(p.id, from, is_global_init, i, b), [i \in 1..from.n |-> i], p))
          [] OTHER -> [acc EXCEPT !.b = set_error(p, "Unhandled type cast value type")]
  IN  Add(IF const THEN GenerateConstructorExpression(Null, v, is_global_init, acc.b) ELSE Value(v, acc.b))

\* The composite of what is gathered: a constant, or a value made where it is needed.
Composite(ty, parts) ==
  LET made == IF parts.op = "OpCompositeConstruct" THEN PushResult(parts.b, parts.op, ty, parts.ids)
              ELSE push_type(parts.b, parts.op, ty, parts.ids)
  IN  CASE ~Ok(parts.b)           -> parts.b
        [] parts.ids \in DOMAIN parts.b.composites -> [parts.b EXCEPT !.id = parts.b.composites[parts.ids]]
        [] OTHER                  -> Then(made, LAMBDA c : [c EXCEPT !.composites = (parts.ids :> c.id) @@ @])

GenerateTypeConstructorExpression(e, is_global_init, b) ==
  LET t == UnwrapAll(e.ty)
      const == is_constructor_const(e, is_global_init)
      first == UnwrapAll(e.args[1].rt)
      can_cast_or_copy == is_scalar(t) \/ (Is(t, "vec") /\ Is(first, "vec") /\ first.n = t.n)
      element == IF Is(t, "vec") THEN t.of ELSE t
      Add(acc, v) == IF Ok(acc.b) THEN AddPart(e, v, element, const = "yes", is_global_init, acc) ELSE acc
      Start(ty) == [b |-> ty, ids |-> <<>>, op |-> IF const = "yes" THEN "OpConstantComposite" ELSE "OpCompositeConstruct"]
  IN  CASE e.args = <<>>    -> GenerateLiteralIfNeeded(Null0(UnwrapPtrIfNeeded(e.ty)), b)
        [] const = "error"  -> set_error(b, "constructor must be a constant expression")
        [] can_cast_or_copy -> GenerateCastOrCopyOrPassthrough(t, e.args[1], b)
        [] OTHER -> Then(GenerateTypeIfNeeded(e.ty, b), LAMBDA ty : Composite(ty.id, FoldLeft(Add, Start(ty), e.args)))

-----------------------------------------------------------------------------
(* Calls *)

IsIntrinsic(call, b) == \A i \in DOMAIN b.module.functions : b.module.functions[i].n # call.f

IntrinsicOps ==
  [any |-> "OpAny", all |-> "OpAll", countOneBits |-> "OpBitCount", dot |-> "OpDot", dpdx |-> "OpDPdx",
   dpdxCoarse |-> "OpDPdxCoarse", dpdxFine |-> "OpDPdxFine", dpdy |-> "OpDPdy", dpdyCoarse |-> "OpDPdyCoarse",
   dpdyFine |-> "OpDPdyFine", fwidth |-> "OpFwidth", fwidthCoarse |-> "OpFwidthCoarse",
   fwidthFine |-> "OpFwidthFine", isInf |-> "OpIsInf", isNan |-> "OpIsNan", reverseBits |-> "OpBitReverse",
   select |-> "OpSelect"]

\* A method of the extended instruction set, for floats, unsigned or signed integers.
intrinsic_to_glsl_method(t, f) ==
  <<f, IF f \in {"clamp", "max", "min"} /\ is_unsigned_scalar_or_vector(t) THEN "U"
       ELSE IF f \in {"abs", "clamp", "max", "min"} /\ ~is_float_scalar_or_vector(t) THEN "S" ELSE "F">>

IntrinsicCapabilities(f) ==
  CASE f \in {"dpdxCoarse", "dpdyCoarse", "fwidthCoarse", "dpdxFine", "dpdyFine", "fwidthFine"} -> {"DerivativeControl"}
    [] f \in {"textureDimensions", "textureNumLayers", "textureNumLevels", "textureNumSamples"} -> {"ImageQuery"}
    [] OTHER -> {}

GenerateArrayLength(call, b) ==
  LET accessor == call.args[1]
      t == UnwrapAll(accessor.e.rt)
  IN  CASE ~Is(accessor, "member") -> set_error(b, "invalid expression for array length")
        [] ~Is(t, "struct")        -> set_error(b, "invalid type for runtime array length")
        [] OTHER -> Then(GenerateNode(accessor.e, b),
                         LAMBDA of : Operation(of, "OpArrayLength", call.rt, <<of.id, Len(t.members) - 1>>))

\* A vector with a scalar more: a constructor of vectors is taken apart.
AppendVector(vector, scalar) ==
  LET is_vec == Is(vector.rt, "vec")
      packed_el_ty == IF is_vec THEN vector.rt.of ELSE vector.rt
      packed_ty == Vector(packed_el_ty, IF is_vec THEN vector.rt.n + 1 ELSE 2)
      cast == TypeConstructor(packed_el_ty, <<scalar>>) @@ [rt |-> packed_el_ty]
      values == IF Is(vector, "construct") /\ Is(vector.ty, "vec") THEN vector.args ELSE <<vector>>
  IN  TypeConstructor(packed_ty, Append(values, IF packed_el_ty = scalar.rt THEN scalar ELSE cast)) @@ [rt |-> packed_ty]

Uses(call, role) == Contains(call.roles, role)
ArgOf(call, role) == call.args[SelectInSeq(call.roles, LAMBDA r : r = role)]

\* An argument of a texture call: an error leaves the id 0, and is passed over.
Param(call, role, b) ==
  LET Kept(v) == IF Ok(v) THEN v ELSE [v EXCEPT !.error = "", !.id = 0] IN Kept(Value(ArgOf(call, role), b))

Coordinates(call, b) ==
  IF Uses(call, "array_index")
  THEN GenerateNode(AppendVector(ArgOf(call, "coords"), ArgOf(call, "array_index")), b)
  ELSE Param(call, "coords", b)

SampledImageType(t, b) ==
  IF t \in DOMAIN b.sampled_types THEN [b EXCEPT !.id = b.sampled_types[t]]
  ELSE Then(GenerateTypeIfNeeded(t, b),
            LAMBDA image : [push_type(image, "OpTypeSampledImage", 0, <<image.id>>) EXCEPT !.sampled_types = (t :> image.next) @@ @])
GenerateSampledImage(t, texture, sampler, b) ==
  Then(SampledImageType(t, b), LAMBDA ty : PushResult(ty, "OpSampledImage", ty.id, <<texture, sampler>>))

\* The size of a texture has its layers last, and of a cube no depth: it is swizzled.
SizeParts(f, dim) ==
  IF f = "textureNumLayers" THEN IF dim = "1d_array" THEN <<1>> ELSE <<2>>
  ELSE CASE dim = "1d_array" -> <<0>> [] dim \in {"cube", "cube_array"} -> <<0, 1, 1>>
         [] dim = "2d_array" -> <<0, 1>> [] OTHER -> <<>>
SizeWidth(dim) == IF dim \in {"1d_array", "cube"} THEN 2 ELSE 3

GenerateSize(call, t, b) ==
  LET Level(image) == IF call.f = "textureDimensions" /\ Uses(call, "level") THEN Param(call, "level", image)
                      ELSE GenerateLiteralIfNeeded(Constant(I32, 0), image)
      swizzle == SizeParts(call.f, t.dim)
      element == IF Is(call.rt, "vec") THEN call.rt.of ELSE call.rt
      ty == IF swizzle = <<>> THEN call.rt ELSE Vector(element, SizeWidth(t.dim))
      Query(image) == IF t.class \in {"multisampled", "storage"} THEN Operation(image, "OpImageQuerySize", ty, <<image.id>>)
                      ELSE Then(Level(image), LAMBDA level : Operation(level, "OpImageQuerySizeLod", ty, <<image.id, level.id>>))
      Swizzled(size) == CASE swizzle = <<>>   -> size
                          [] Len(swizzle) = 1 -> Operation(size, "OpCompositeExtract", call.rt, <<size.id, swizzle[1]>>)
                          [] OTHER            -> Operation(size, "OpVectorShuffle", call.rt, <<size.id, size.id, swizzle>>)
  IN  IF call.f = "textureNumLayers" /\ ~Arrayed(t) THEN set_error(b, "texture is not arrayed")
      ELSE Then(Then(Param(call, "texture", b), Query), Swizzled)

\* The image operands a call has, by mask, in the order they are generated in.
ImageOperands(call, b) ==
  LET Operand(mask, role) == IF Uses(call, role) THEN <<<<mask, role>>>> ELSE <<>>
      wanted == (IF call.f \in {"textureLoad", "textureSampleLevel"} THEN Operand("Lod", "level") ELSE <<>>)
                \o Operand("Sample", "sample_index") \o Operand("Bias", "bias") \o Operand("Grad", "ddx")
                \o Operand("Grad", "ddy") \o (IF call.f = "textureSampleCompare" THEN <<<<"Lod", "0.0">>>> ELSE <<>>)
                \o Operand("ConstOffset", "offset")
      AsFloat(e) == TypeConstructor(F32, <<e>>) @@ [rt |-> F32]
      One(w, r) ==
        CASE w[2] = "0.0" -> GenerateLiteralIfNeeded(Constant(F32, 0), r)
          [] call.f = "textureSampleLevel" /\ w[2] = "level" /\ ArgOf(call, "level").rt = I32 ->
               GenerateNode(AsFloat(ArgOf(call, "level")), r)
          [] OTHER        -> Param(call, w[2], r)
      Masked(all) == [b |-> all.b, list |-> [i \in DOMAIN wanted |-> <<wanted[i][1], all.list[i]>>]]
  IN  Masked(Each(One, wanted, b))

TextureOp(call, t) ==
  CASE call.f = "textureLoad" -> IF t.class = "storage" THEN "OpImageRead" ELSE "OpImageFetch"
    [] call.f = "textureSampleCompare" -> "OpImageSampleDrefExplicitLod"
    [] call.f \in {"textureSampleLevel", "textureSampleGrad"} -> "OpImageSampleExplicitLod"
    [] OTHER -> "OpImageSampleImplicitLod"

\* A read: of a depth texture it is the first component that is meant.
TextureImage(call, t, b) ==
  IF ~Uses(call, "sampler") THEN Param(call, "texture", b)
  ELSE Then(Param(call, "sampler", b), LAMBDA sampler : Then(Param(call, "texture", sampler),
         LAMBDA texture : GenerateSampledImage(t, texture.id, sampler.id, texture)))
Compares(call) == call.f = "textureSampleCompare"
ReadResult(call, t) == IF t.class = "depth" /\ ~Compares(call) THEN Vector(F32, 4) ELSE call.rt
ReadWith(call, t, all, ids) == Operation(all.b, TextureOp(call, t), ReadResult(call, t), ids \o all.list)
GenerateRead(call, t, b) ==
  LET reference == IF Compares(call) THEN <<"depth_ref">> ELSE <<>>
      given == Then(TextureImage(call, t, b), LAMBDA image : Then(Coordinates(call, image),
                 LAMBDA c : WithEach(LAMBDA role, r : Param(call, role, r), reference, c,
                   LAMBDA d, ids : ReadWith(call, t, ImageOperands(call, d), <<image.id, c.id>> \o ids))))
  IN  Then(given, LAMBDA read : IF ReadResult(call, t) # call.rt THEN Operation(read, "OpCompositeExtract", call.rt, <<read.id, 0>>) ELSE read)

GenerateWrite(call, b) ==
  Then(Param(call, "texture", b), LAMBDA texture : Then(Coordinates(call, texture), LAMBDA coords :
    Then(Param(call, "value", coords), LAMBDA value : Push(value, "OpImageWrite", <<texture.id, coords.id, value.id>>))))

GenerateTextureIntrinsic(call, b) ==
  LET t == UnwrapAll(ArgOf(call, "texture").rt)
      Query(op) == Then(Param(call, "texture", b), LAMBDA image : Operation(image, op, call.rt, <<image.id>>))
  IN  CASE call.f \in {"textureDimensions", "textureNumLayers"} -> GenerateSize(call, t, b)
        [] call.f = "textureNumLevels"  -> Query("OpImageQueryLevels")
        [] call.f = "textureNumSamples" -> Query("OpImageQuerySamples")
        [] call.f = "textureStore"      -> GenerateWrite(call, b)
        [] OTHER                        -> GenerateRead(call, t, b)

GenerateIntrinsic(call, b) ==
  LET c == [GenerateTypeIfNeeded(call.rt, b) EXCEPT !.capabilities = @ \cup IntrinsicCapabilities(call.f)]
  IN  CASE "roles" \in DOMAIN call         -> GenerateTextureIntrinsic(call, c)
        [] call.f = "arrayLength"          -> GenerateArrayLength(call, c)
        [] call.f \in DOMAIN IntrinsicOps  -> OperationOn(call.args, IntrinsicOps[call.f], call.rt, <<>>, c)
        [] call.f \in {"isFinite", "isNormal"} -> set_error(c, "unknown method")
        [] OTHER -> OperationOn(call.args, "OpExtInst", call.rt, <<intrinsic_to_glsl_method(call.rt, call.f)>>, c)

GenerateCallExpression(e, b) ==
  CASE IsIntrinsic(e, b)             -> GenerateIntrinsic(e, b)
    [] e.f \notin DOMAIN b.function_ids -> set_error(b, "unable to find called function")
    [] OTHER -> OperationOn(e.args, "OpFunctionCall", e.rt, <<b.function_ids[e.f]>>, b)

GenerateExpression(e, b) ==
  CASE e.k \in {"index", "member"} -> GenerateAccessorExpression(e, b)
    [] Is(e, "binary")           -> GenerateBinaryExpression(e, b)
    [] Is(e, "bitcast")          -> GenerateBitcastExpression(e, b)
    [] Is(e, "call")             -> GenerateCallExpression(e, b)
    [] IsConstructor(e)          -> GenerateConstructorExpression(Null, e, FALSE, b)
    [] Is(e, "id")               -> GenerateIdentifierExpression(e, b)
    [] Is(e, "unary")            -> GenerateUnaryOpExpression(e, b)

-----------------------------------------------------------------------------
(* Statements *)

RECURSIVE GenerateConditionalBlock(_, _, _, _)

GenerateStatements(ss, b) == FoldLeft(LAMBDA r, s : GenerateNode(s, r), b, ss)
GenerateBlockStatement(ss, b) == PopScope(GenerateStatements(ss, PushScope(b)))

LastIsFallthrough(ss) == Is(LastStatement(ss), "fallthrough")
LastIsTerminator(ss) == LastStatement(ss).k \in {"break", "continue", "discard", "return", "fallthrough"}

\* Mutant of BranchUnlessTerminated: a branch at the end of every body.
BranchAlways(b, ss, to) == Branch(b, to)

\* A branch at the end of a body, unless the last statement of the body makes one.
BranchUnlessTerminated(b, ss, to) == IF LastIsTerminator(ss) THEN b ELSE Branch(b, to)

GenerateAssignStatement(s, b) ==
  Then(GenerateNode(s.l, b), LAMBDA l : Then(Value(s.r, l), LAMBDA r : GenerateStore(r, l.id, r.id)))

\* Branch to the innermost block of a stack.
BranchOut(b, stack, why) == IF stack = <<>> THEN set_error(b, why) ELSE Branch(b, Last(stack))

GenerateFunctionVariable(v, b) ==
  LET Stored(var, id) == IF v.init = Null THEN var ELSE GenerateStore(var, var.id, id)
      Declare(init) ==
        Then(GenerateTypeIfNeeded(Pointer(v.ty, "function"), init), LAMBDA ty :
          Then(GenerateLiteralIfNeeded(Null0(UnwrapPtrIfNeeded(v.ty)), ty), LAMBDA null :
            Then(push_function_var(null, ty.id, null.id), LAMBDA var : SetName(Stored(var, init.id), v.n, var.id))))
  IN  IF v.const /\ v.init = Null THEN set_error(b, "missing constructor for constant")
      ELSE Then(IF v.init = Null THEN b ELSE Value(v.init, b),
                LAMBDA init : IF v.const THEN SetName(init, v.n, init.id) ELSE Declare(init))

\* A condition, its body, and the else statements from the first of elses on.
AfterCondition(body, elses, cond, merge) ==
  LET true == Reserve(merge)
      false == IF elses = <<>> THEN [true EXCEPT !.id = merge.id] ELSE Reserve(true)
      split == Push(Push(false, "OpSelectionMerge", <<merge.id>>), "OpBranchConditional", <<cond.id, true.id, false.id>>)
      next == Head(elses)
      Other(at) == IF HasCondition(next) THEN GenerateConditionalBlock(next.c, next.body, Tail(elses), at)
                   ELSE GenerateBlockStatement(next.body, at)
      Elses(r) == IF elses = <<>> THEN r ELSE BranchUnlessTerminated(Other(GenerateLabel(r, false.id)), next.body, merge.id)
      then == BranchUnlessTerminated(GenerateBlockStatement(body, GenerateLabel(split, true.id)), body, merge.id)
  IN  GenerateLabel(Elses(then), merge.id)
GenerateConditionalBlock(c, body, elses, b) ==
  Then(Value(c, b), LAMBDA cond : AfterCondition(body, elses, cond, Reserve(cond)))

GenerateIfStatement(s, b) == GenerateConditionalBlock(s.c, s.body, s.elses, b)

\* The cases, once their labels have ids, and the default one, which is there in any case.
SwitchCases(s, merge, default, split, ids) ==
  LET Ended(r, i) ==
        LET body == s.cases[i].body
        IN  CASE LastIsFallthrough(body) /\ i = Len(s.cases) -> set_error(r, "fallthrough of last case statement")
              [] LastIsFallthrough(body) -> Branch(r, ids[i + 1])
              [] OTHER                   -> BranchUnlessTerminated(r, body, merge)
      Case(r, i) == Then(r, LAMBDA c : Ended(GenerateBlockStatement(s.cases[i].body, GenerateLabel(c, ids[i])), i))
      Default(r) == IF \E i \in DOMAIN s.cases : IsDefault(s.cases[i]) THEN r ELSE Branch(GenerateLabel(r, default), merge)
      Done(r) == Then(Default(r), LAMBDA c : GenerateLabel([c EXCEPT !.merge_stack = Front(@)], merge))
  IN  Done(FoldLeft(Case, split, [i \in DOMAIN s.cases |-> i]))

GenerateSwitchStatement(s, b) ==
  LET merge == Reserve(b)
      Targets(ids) == FlattenSeq([i \in DOMAIN s.cases |->
                                    [j \in DOMAIN s.cases[i].sels |-> <<s.cases[i].sels[j].v, ids[i]>>]])
      Split(cond, default, c, ids) ==
        Push(Push(c, "OpSelectionMerge", <<merge.id>>), "OpSwitch", <<cond.id, default.id>> \o Targets(ids))
      Cases(cond, default) ==
        WithEach(LAMBDA c, r : IF IsDefault(c) THEN [r EXCEPT !.id = default.id] ELSE Reserve(r), s.cases, default,
                 LAMBDA c, ids : SwitchCases(s, merge.id, default.id, Split(cond, default, c, ids), ids))
      Checked(cond) ==
        IF \E i \in DOMAIN s.cases : \E j \in DOMAIN s.cases[i].sels : s.cases[i].sels[j].ty # I32
        THEN set_error(cond, "expected integer literal for switch case label") ELSE Cases(cond, Reserve(cond))
  IN  Then(Value(s.c, [merge EXCEPT !.merge_stack = Append(@, merge.id)]), Checked)

GenerateReturnStatement(s, b) ==
  IF s.e = Null THEN Push(b, "OpReturn", <<>>) ELSE Then(Value(s.e, b), LAMBDA v : Push(v, "OpReturnValue", <<v.id>>))

GenerateLoopStatement(s, b) ==
  LET header == Reserve(b)
      merge == Reserve(GenerateLabel(Branch(header, header.id), header.id))
      continue == Reserve(merge)
      body == Reserve(continue)
      split == Branch(Push(body, "OpLoopMerge", <<merge.id, continue.id>>), body.id)
      inside == [split EXCEPT !.merge_stack = Append(@, merge.id), !.continue_stack = Append(@, continue.id)]
      ran == GenerateBlockStatement(s.body, GenerateLabel(inside, body.id))
      at == GenerateLabel(BranchUnlessTerminated(ran, s.body, continue.id), continue.id)
      done == Branch(GenerateBlockStatement(s.cont, at), header.id)
  IN  Then(done, LAMBDA r : GenerateLabel([r EXCEPT !.merge_stack = Front(@), !.continue_stack = Front(@)], merge.id))

GenerateStatement(s, b) ==
  CASE Is(s, "assign")      -> GenerateAssignStatement(s, b)
    [] Is(s, "block")       -> GenerateBlockStatement(s.body, b)
    [] Is(s, "break")       -> BranchOut(b, b.merge_stack, "Attempted to break without a merge block")
    [] Is(s, "callstmt")    -> GenerateNode(s.e, b)
    [] Is(s, "continue")    -> BranchOut(b, b.continue_stack, "Attempted to continue without a continue block")
    [] Is(s, "discard")     -> Push(b, "OpKill", <<>>)
    [] Is(s, "fallthrough") -> b
    [] Is(s, "if")          -> GenerateIfStatement(s, b)
    [] Is(s, "loop")        -> GenerateLoopStatement(s, b)
    [] Is(s, "return")      -> GenerateReturnStatement(s, b)
    [] Is(s, "switch")      -> GenerateSwitchStatement(s, b)
    [] Is(s, "decl")        -> GenerateFunctionVariable(s.v, b)

-----------------------------------------------------------------------------
(* Functions and the module *)

\* The inputs and the outputs an entry point refers to, by id.
Interface(f, b) ==
  LET wanted == SelectSeq(b.module.globals, LAMBDA v : Contains(f.refs, v.n) /\ v.sc \in {"input", "output"})
  IN  {b.scopes[1][wanted[i].n] : i \in DOMAIN wanted}

ExecutionModes(f, b) ==
  (CASE f.stage = "fragment" -> {"OriginUpperLeft"} [] f.stage = "compute" -> {"LocalSize"} [] OTHER -> {})
  \cup {"DepthReplacing" : v \in {x \in ToSet(b.module.globals) : Contains(f.refs, x.n) /\ IsBuiltin(x, "frag_depth")}}

GenerateEntryPoint(f, id, b) ==
  [b EXCEPT !.entry_points = Append(@, [stage |-> f.stage, id |-> id, n |-> f.n, interface |-> Interface(f, b),
                                        modes |-> ExecutionModes(f, b)])]

\* A function that does not end in a return or a kill is given a return.
Terminated(code) ==
  IF Last(code).op \in {"OpReturn", "OpReturnValue", "OpKill"} THEN code ELSE Append(code, Instruction("OpReturn", 0, 0, <<>>))

\* Its body, after its parameters.
GenerateBody(f, id, ret, params) ==
  LET start == [Reserve(params.b) EXCEPT !.in_function = TRUE, !.vars = <<>>, !.code = <<>>]
      Code(b) == <<Head(b.code)>> \o b.vars \o Tail(b.code)
      Made(b) == [id |-> id, n |-> f.n, ty |-> ret.id, params |-> params.list, code |-> Terminated(Code(b))]
      Entered(b) == IF IsEntryPoint(f) THEN GenerateEntryPoint(f, id, b) ELSE b
  IN  Then(GenerateStatements(f.body, GenerateLabel(start, start.id)),
           LAMBDA b : [PopScope(Entered(b)) EXCEPT !.functions = Append(@, Made(b)), !.function_ids = (f.n :> id) @@ @])

GenerateFunction(f, b) ==
  LET Parameter(acc, p) ==
        LET Add(ty) == [b |-> SetName(Reserve(ty), p.n, ty.next),
                        list |-> Append(acc.list, Instruction("OpFunctionParameter", ty.id, ty.next, <<>>))]
        IN  Add(GenerateTypeIfNeeded(p.ty, acc.b))
      Params(ret) == FoldLeft(Parameter, [b |-> PushScope(ret), list |-> <<>>], f.params)
  IN  Then(GenerateFunctionTypeIfNeeded(f, b), LAMBDA type : Then(GenerateTypeIfNeeded(f.ret, Reserve(type)),
        LAMBDA ret : GenerateBody(f, type.next, ret, Params(ret))))

\* The initial value of a module variable that needs one, or 0.
Initializer(v, t, init, b) ==
  CASE v.init # Null                -> [b EXCEPT !.id = init]
    [] t.k \in {"texture", "sampler"} -> [b EXCEPT !.id = 0]
    [] Has(v, "constant_id")        -> GenerateLiteralIfNeeded([Constant(t, 0) EXCEPT !.spec = TRUE], b)
    [] v.sc \in {"private", "none", "output"} -> GenerateLiteralIfNeeded(Null0(t), b)
    [] OTHER                        -> [b EXCEPT !.id = 0]

GenerateGlobalVariable(v, b) ==
  LET sc == IF v.sc = "none" THEN "private" ELSE v.sc
      Declare(init) ==
        Then(GenerateTypeIfNeeded(Pointer(v.ty, sc), init), LAMBDA ty :
          Then(Initializer(v, UnwrapAll(v.ty), init.id, ty), LAMBDA first :
            Then(push_type(first, "OpVariable", ty.id, <<sc, first.id, v.decos>>), LAMBDA var : SetGlobal(var, v.n, var.id))))
  IN  CASE v.init # Null /\ ~IsConstructor(v.init) -> set_error(b, "scalar constructor expected")
        [] v.const /\ v.init = Null -> set_error(b, "missing constructor for constant")
        [] OTHER -> Then(IF v.init = Null THEN b ELSE GenerateConstructorExpression(v, v.init, TRUE, b),
                         LAMBDA init : IF v.const THEN SetGlobal(init, v.n, init.id) ELSE Declare(init))

\* A node of any kind.
GenerateNode(x, b) ==
  CASE ~Ok(b)            -> b
    [] Is(x, "var")      -> GenerateGlobalVariable(x, b)
    [] Is(x, "function") -> GenerateFunction(x, b)
    [] IsStatement(x)    -> GenerateStatement(x, b)
    [] OTHER             -> GenerateExpression(x, b)

Build(m) == FoldLeft(LAMBDA r, x : GenerateNode(x, r), Fresh(m), m.globals \o m.functions)
=============================================================================
