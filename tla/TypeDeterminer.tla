---------------------------- MODULE TypeDeterminer ----------------------------
(***************************************************************************)
(* The type determiner: it walks a module in order, gives every expression  *)
(* a result type ("rt"), every variable of a function its storage class,    *)
(* every texture call the roles of its arguments, and every function the    *)
(* module variables it needs and the entry points it is reached from.  It   *)
(* stops at the first error.  (CallGraph is about the last two for any      *)
(* calls; here no function calls itself.)                                   *)
(***************************************************************************)
EXTENDS Ast

(* The determiner at work: the node it has just been through, with what it  *)
(* added to it; the stack of scopes, the module's variables first; the      *)
(* return types of the functions seen so far; the module's functions; the   *)
(* function it is in, what that refers to, itself or through its callees;   *)
(* who calls whom; and the error.                                           *)
Fresh(m) ==
  [node |-> Null, scopes |-> <<<<>>>>, functions |-> <<>>, module |-> m.functions, current |-> "",
   refs |-> <<>>, local |-> <<>>, calls |-> <<>>, error |-> ""]

Ok(d) == d.error = ""
set_error(d, why) == IF Ok(d) THEN [d EXCEPT !.error = why] ELSE d
With(d, node) == [d EXCEPT !.node = node]
Then(d, Rest(_)) == IF Ok(d) THEN Rest(d) ELSE d
Typed(d, node, t) == With(d, [rt |-> t] @@ node)

\* Step over xs, each starting from where the one before ended; the nodes in order.
All(Step(_, _), xs, d) ==
  FoldLeft(LAMBDA acc, x : Then(acc, LAMBDA a : LET With1(r) == With(r, Append(a.node, r.node)) IN With1(Step(x, a))),
           With(d, <<>>), xs)

Set(d, v) == [d EXCEPT !.scopes[Len(d.scopes)] = (v.n :> v) @@ @]
Scope(d, n) == SelectLastInSeq(d.scopes, LAMBDA s : n \in DOMAIN s)
Found(d, n) == d.scopes[Scope(d, n)][n]

Remember(list, x) == IF Contains(list, x) THEN list ELSE Append(list, x)

set_referenced_from_function_if_needed(d, v, is_local) ==
  IF d.current = "" \/ v.sc \in {"none", "function"} THEN d
  ELSE [d EXCEPT !.refs[d.current] = Remember(@, v.n),
                 !.local[d.current] = IF is_local THEN Remember(@, v.n) ELSE @]

-----------------------------------------------------------------------------
(* The intrinsics *)

Derivatives == {"dpdx", "dpdxCoarse", "dpdxFine", "dpdy", "dpdyCoarse", "dpdyFine",
                "fwidth", "fwidthCoarse", "fwidthFine"}
FloatClassification == {"isFinite", "isInf", "isNan", "isNormal"}
Sampling == {"textureSample", "textureSampleBias", "textureSampleLevel", "textureSampleCompare",
             "textureSampleGrad"}
TextureQueries == {"textureDimensions", "textureNumLayers", "textureNumLevels", "textureNumSamples"}
TextureIntrinsics == Sampling \cup TextureQueries \cup {"textureLoad", "textureStore"}

\* The number of arguments of the other intrinsics, by what those have to be.
kIntrinsicData ==
  LET Of(names, count, class) == [n \in names |-> [count |-> count, class |-> class]]
  IN  Of({"acos", "asin", "atan", "ceil", "cos", "cosh", "exp", "exp2", "floor", "fract", "inverseSqrt",
          "length", "log", "log2", "normalize", "round", "sign", "sin", "sinh", "sqrt", "tan", "tanh",
          "trunc"}, 1, "float")
      @@ Of({"atan2", "distance", "frexp", "ldexp", "modf", "pow", "reflect", "step"}, 2, "float")
      @@ Of({"faceForward", "fma", "mix", "smoothStep"}, 3, "float")
      @@ Of({"abs"}, 1, "float or int") @@ Of({"max", "min"}, 2, "float or int")
      @@ Of({"clamp"}, 3, "float or int")
      @@ Of({"countOneBits", "reverseBits"}, 1, "int")
      @@ Of({"cross"}, 2, "float vector") @@ Of({"determinant"}, 1, "matrix")

SetIntrinsicIfNeeded(n) ==
  n \in DOMAIN kIntrinsicData \cup Derivatives \cup FloatClassification \cup TextureIntrinsics
        \cup {"all", "any", "arrayLength", "dot", "select"}

ClassFits(class, t) ==
  CASE class = "float or int" -> is_float_scalar_or_vector(t) \/ is_integer_scalar_or_vector(t)
    [] class = "float"        -> is_float_scalar_or_vector(t)
    [] class = "int"          -> is_integer_scalar_or_vector(t)
    [] class = "float vector" -> IsVectorOf(t, "f32") /\ t.n = 3
    [] class = "matrix"       -> Is(t, "mat")

IsArrayed(texture) == texture.dim \in {"1d_array", "2d_array", "cube_array"}

\* What the arguments of a texture call with argc of them are, in order.
TextureSignature(f, texture, argc) ==
  LET index == IF IsArrayed(texture) THEN <<"array_index">> ELSE <<>>
      always ==
        CASE f \in TextureQueries -> <<"texture">>
          [] f = "textureLoad"    -> <<"texture", "coords">> \o index
          [] f = "textureStore"   -> <<"texture", "coords">> \o index \o <<"value">>
          [] f \in Sampling       ->
               <<"texture", "sampler", "coords">> \o index
               \o CASE f = "textureSample"        -> <<>>
                    [] f = "textureSampleBias"    -> <<"bias">>
                    [] f = "textureSampleLevel"   -> <<"level">>
                    [] f = "textureSampleCompare" -> <<"depth_ref">>
                    [] f = "textureSampleGrad"    -> <<"ddx", "ddy">>
      optional ==
        CASE f = "textureDimensions" -> <<"level">>
          [] f = "textureLoad"       -> IF texture.class = "multisampled" THEN <<"sample_index">> ELSE <<"level">>
          [] f \in Sampling          -> <<"offset">>
          [] OTHER                   -> <<>>
  IN  IF argc > Len(always) THEN always \o optional ELSE always

TextureResult(f, texture) ==
  CASE f = "textureDimensions" ->
         IF texture.dim \in {"1d", "1d_array"} THEN I32
         ELSE Vector(I32, IF texture.dim \in {"2d", "2d_array"} THEN 2 ELSE 3)
    [] f \in TextureQueries    -> I32
    [] f = "textureStore"      -> Void
    [] texture.class = "depth" -> F32
    [] OTHER                   -> Vector(texture.of, 4)

TextureCall(call, d) ==
  LET t == UnwrapAll(call.args[1].rt)
      roles == TextureSignature(call.f, t, Len(call.args))
  IN  IF ~Is(t, "texture") THEN set_error(d, "invalid first argument")
      ELSE IF Len(roles) # Len(call.args) THEN set_error(d, "incorrect number of parameters")
      ELSE Typed(d, call @@ [roles |-> roles], TextureResult(call.f, t))

\* An intrinsic of the table.
TableCall(call, d) ==
  LET data == kIntrinsicData[call.f]
      ts == [i \in DOMAIN call.args |-> UnwrapPtrIfNeeded(call.args[i].rt)]
  IN  IF Len(call.args) # data.count THEN set_error(d, "incorrect number of parameters")
      ELSE IF \E i \in DOMAIN ts : ~ClassFits(data.class, ts[i]) THEN set_error(d, "incorrect type")
      ELSE IF \E i \in DOMAIN ts : ts[i] # ts[1] THEN set_error(d, "mismatched parameter types")
      ELSE Typed(d, call, CASE call.f \in {"length", "distance"} -> F32
                            [] call.f = "determinant"            -> ts[1].of
                            [] OTHER                             -> ts[1])

DetermineIntrinsic(call, d) ==
  LET t == UnwrapPtrIfNeeded(call.args[1].rt)
      Takes(n, type) == IF Len(call.args) = n THEN Typed(d, call, type)
                        ELSE set_error(d, "incorrect number of parameters")
  IN  CASE call.f \in Derivatives         -> Takes(1, t)
        [] call.f \in {"any", "all"}      -> Typed(d, call, Bool)
        [] call.f = "arrayLength"         -> Typed(d, call, U32)
        [] call.f \in FloatClassification -> Takes(1, IF Is(t, "vec") THEN Vector(Bool, t.n) ELSE Bool)
        [] call.f \in TextureIntrinsics   -> TextureCall(call, d)
        [] call.f = "dot"                 -> Typed(d, call, F32)
        [] call.f = "select"              -> Takes(3, t)
        [] OTHER                          -> TableCall(call, d)

-----------------------------------------------------------------------------
(* The expressions *)

RECURSIVE DetermineResultType(_, _)

DetermineIdentifier(e, d) ==
  IF Scope(d, e.n) > 0
  THEN LET v == Found(d, e.n)
           t == IF v.const \/ Is(v.ty, "ptr") THEN v.ty ELSE Pointer(v.ty, v.sc)
       IN  Typed(set_referenced_from_function_if_needed(d, v, TRUE), e, t)
  ELSE IF e.n \in DOMAIN d.functions THEN Typed(d, e, d.functions[e.n])
  ELSE IF SetIntrinsicIfNeeded(e.n) THEN With(d, e)
  ELSE set_error(d, "v-0006")

IsIntrinsic(d, n) == Scope(d, n) = 0 /\ n \notin DOMAIN d.functions /\ SetIntrinsicIfNeeded(n)

\* A call of a function of the module inherits what the callee refers to.
CallOf(call, t, d) ==
  LET i == SelectInSeq(d.module, LAMBDA f : f.n = call.f)
      inherited == IF call.f \in DOMAIN d.refs THEN d.refs[call.f] ELSE <<>>
      Called == [d EXCEPT !.calls[d.current] = Append(@, call.f),
                          !.refs[d.current] = FoldLeft(Remember, @, inherited)]
  IN  IF i = 0 THEN set_error(d, "unable to find called function")
      ELSE Typed(Called, call, t)

DetermineCall(e, d) ==
  Then(DetermineIdentifier(Identifier(e.f), d),
       LAMBDA callee : Then(All(DetermineResultType, e.args, callee),
         LAMBDA args : IF IsIntrinsic(d, e.f) THEN DetermineIntrinsic([e EXCEPT !.args = args.node], args)
                       ELSE CallOf([e EXCEPT !.args = args.node], callee.node.rt, args)))

\* The type of a part of a value of type res; a composed array is in a variable.
ElementType(res) ==
  LET parent == UnwrapAll(res)
      part == PartType(parent, 1)
  IN  CASE Is(res, "ptr") -> Pointer(part, res.sc)
        [] Is(parent, "array") /\ ~is_scalar(part) -> Pointer(part, "function")
        [] OTHER -> part

DetermineArrayAccessor(e, d) ==
  Then(DetermineResultType(e.e, d), LAMBDA a : Then(DetermineResultType(e.i, a),
    LAMBDA i : IF UnwrapAll(a.node.rt).k \notin {"array", "vec", "mat"} THEN set_error(i, "invalid parent type")
               ELSE Typed(i, [e EXCEPT !.e = a.node, !.i = i.node], ElementType(a.node.rt))))

SwizzleSize(m) == IF m \in {"x", "y", "z", "w"} THEN 1 ELSE 2

MemberOf(e, res, s) ==
  LET data == UnwrapIfNeeded(UnwrapPtrIfNeeded(res))
      In(t) == IF Is(res, "ptr") THEN Pointer(t, res.sc) ELSE t
      Done(t) == Typed(s, [e EXCEPT !.e = s.node], t)
  IN  CASE Is(data, "struct") /\ MemberIndex(data, e.m) > 0 -> Done(In(data.members[MemberIndex(data, e.m)].ty))
        [] Is(data, "struct")                               -> set_error(s, "struct member not found")
        [] Is(data, "vec") /\ SwizzleSize(e.m) = 1          -> Done(In(data.of))
        [] Is(data, "vec")                                  -> Done(Vector(data.of, SwizzleSize(e.m)))
        [] OTHER                                            -> set_error(s, "v-0007")
DetermineMemberAccessor(e, d) == Then(DetermineResultType(e.e, d), LAMBDA s : MemberOf(e, s.node.rt, s))

LogicalOps == {"&&", "||", "==", "!=", "<", ">", "<=", ">="}

MultiplyType(l, r) ==
  CASE Is(l, "mat") /\ Is(r, "mat") -> Matrix(l.of, l.rows, r.n)
    [] Is(l, "mat") /\ Is(r, "vec") -> Vector(l.of, l.rows)
    [] Is(l, "vec") /\ Is(r, "mat") -> Vector(r.of, r.n)
    [] Is(l, "mat") -> l
    [] Is(r, "mat") -> r
    [] Is(l, "vec") -> l
    [] Is(r, "vec") -> r
    [] OTHER        -> l

BinaryType(op, l, r) ==
  CASE op \in LogicalOps -> IF Is(l, "vec") THEN Vector(Bool, l.n) ELSE Bool
    [] op = "*"          -> MultiplyType(l, r)
    [] OTHER             -> l

DetermineBinary(e, d) ==
  Then(DetermineResultType(e.l, d), LAMBDA a : Then(DetermineResultType(e.r, a),
    LAMBDA b : Typed(b, [e EXCEPT !.l = a.node, !.r = b.node],
                     BinaryType(e.op, UnwrapPtrIfNeeded(a.node.rt), UnwrapPtrIfNeeded(b.node.rt)))))

DetermineUnaryOp(e, d) ==
  Then(DetermineResultType(e.e, d), LAMBDA x : Typed(x, [e EXCEPT !.e = x.node], UnwrapPtrIfNeeded(x.node.rt)))
DetermineBitcast(e, d) ==
  Then(DetermineResultType(e.e, d), LAMBDA x : Typed(x, [e EXCEPT !.e = x.node], e.ty))

DetermineConstructor(e, d) ==
  IF Is(e, "literal") THEN Typed(d, e, e.ty)
  ELSE Then(All(DetermineResultType, e.args, d), LAMBDA args : Typed(args, [e EXCEPT !.args = args.node], e.ty))

DetermineResultType(e, d) ==
  CASE ~Ok(d)          -> d
    [] Is(e, "null")   -> With(d, e)
    [] Is(e, "index")  -> DetermineArrayAccessor(e, d)
    [] Is(e, "binary") -> DetermineBinary(e, d)
    [] Is(e, "bitcast") -> DetermineBitcast(e, d)
    [] Is(e, "call")   -> DetermineCall(e, d)
    [] e.k \in {"literal", "construct"} -> DetermineConstructor(e, d)
    [] Is(e, "id")     -> DetermineIdentifier(e, d)
    [] Is(e, "member") -> DetermineMemberAccessor(e, d)
    [] Is(e, "unary")  -> DetermineUnaryOp(e, d)

-----------------------------------------------------------------------------
(* The statements: a declaration, at any depth, is set in the one scope of  *)
(* the function.                                                            *)

DetermineVariableStorageClass(v, d) ==
  CASE v.const \/ v.sc = "function" -> With(d, v)
    [] v.sc # "none" -> set_error(d, "function variable has a non-function storage class")
    [] OTHER         -> With(d, [v EXCEPT !.sc = "function"])

RECURSIVE DetermineStatement(_, _)
DetermineStatements(ss, d) == All(DetermineStatement, ss, d)

\* The parts of a statement, in the order they are determined in.
Order(s) ==
  CASE s.k \in {"assign"}           -> <<"l", "r">>
    [] s.k \in {"callstmt", "return"} -> <<"e">>
    [] s.k \in {"block", "case"}    -> <<"body">>
    [] Is(s, "else")                -> <<"c", "body">>
    [] Is(s, "if")                  -> <<"c", "body", "elses">>
    [] Is(s, "loop")                -> <<"body", "cont">>
    [] Is(s, "switch")              -> <<"c", "cases">>
    [] OTHER                        -> <<>>

\* Mutant of DetermineDecl: what a declared variable starts with is not determined.
DetermineDeclOnly(s, d) ==
  Then(DetermineVariableStorageClass(s.v, d), LAMBDA v : With(Set(v, v.node), [s EXCEPT !.v = v.node]))

DetermineDecl(s, d) ==
  Then(DetermineVariableStorageClass(s.v, d), LAMBDA v : Then(DetermineResultType(s.v.init, Set(v, v.node)),
    LAMBDA init : With(init, [s EXCEPT !.v = [v.node EXCEPT !.init = init.node]])))

DetermineStatement(s, d) ==
  LET Part(p, acc) == IF p \in {"body", "elses", "cont", "cases"}
                      THEN DetermineStatements(s[p], acc) ELSE DetermineResultType(s[p], acc)
  IN  IF Is(s, "decl") THEN DetermineDecl(s, d)
      ELSE FoldLeft(LAMBDA acc, p : Then(acc, LAMBDA a : Then(Part(p, a), LAMBDA r : With(r, [a.node EXCEPT ![p] = r.node]))),
                    With(d, s), Order(s))

-----------------------------------------------------------------------------
(* The module *)

DetermineFunction(f, d) ==
  LET known == [d EXCEPT !.functions = (f.n :> f.ret) @@ @, !.current = f.n, !.scopes = Append(@, <<>>),
                         !.refs = (f.n :> <<>>) @@ @, !.local = (f.n :> <<>>) @@ @,
                         !.calls = (f.n :> <<>>) @@ @]
  IN  Then(DetermineStatements(f.body, FoldLeft(Set, known, f.params)),
           LAMBDA body : [With(body, [f EXCEPT !.body = body.node]) EXCEPT !.scopes = Front(@), !.current = ""])

DetermineGlobal(v, d) ==
  Then(DetermineResultType(v.init, Set(d, v)), LAMBDA init : With(init, [v EXCEPT !.init = init.node]))

\* The functions reached from n.
RECURSIVE Reached(_, _)
Reached(calls, n) == UNION {{calls[n][i]} \cup Reached(calls, calls[n][i]) : i \in DOMAIN calls[n]}

set_entry_points(fs, d) ==
  LET entries == SelectSeq(fs, IsEntryPoint)
      To(f) == SelectSeq(entries, LAMBDA e : f.n \in Reached(d.calls, e.n))
      Annotated(f) == f @@ [refs |-> d.refs[f.n], local |-> d.local[f.n],
                            entry_points |-> LET es == To(f) IN [i \in DOMAIN es |-> es[i].n]]
  IN  [i \in DOMAIN fs |-> Annotated(fs[i])]

\* The module determined, or an error.
Determine(m) ==
  LET Done(globals, functions) ==
        IF ~Ok(functions) THEN [error |-> functions.error]
        ELSE [m EXCEPT !.globals = globals.node, !.functions = set_entry_points(functions.node, functions)]
               @@ [error |-> ""]
      Functions(globals) == Done(globals, Then(globals, LAMBDA g : All(DetermineFunction, m.functions, g)))
  IN  Functions(All(DetermineGlobal, m.globals, Fresh(m)))
=============================================================================
