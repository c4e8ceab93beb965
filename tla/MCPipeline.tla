------------------------------ MODULE MCPipeline ------------------------------
(***************************************************************************)
(* The programs the pipeline is checked on.  A program first writes its     *)
(* output; p, q and the members of the buffer are what others write, so     *)
(* the bits of a run decide every branch.                                   *)
(***************************************************************************)
EXTENDS Pipeline

\* Short names for the nodes the reader makes.
id(n) == Identifier(n)
i(v) == Literal(I32, v)
u(v) == Literal(U32, v)
f(v) == Literal(F32, v)
Set(l, r) == Assignment(l, r)
Let(n, t, e) == VariableDecl(Variable(n, "none", t, FALSE, e, NoDeco))
Fix(n, t, e) == VariableDecl(Variable(n, "none", t, TRUE, e, NoDeco))
If(c, body) == IfStatement(c, body, <<>>)
Else(body) == ElseStatement(Null, body)
ElseIf(c, body) == ElseStatement(c, body)
Param(n, t) == Variable(n, "none", t, TRUE, Null, NoDeco)
Private(n, t) == Variable(n, "private", t, FALSE, Null, NoDeco)
Vec(t, a, b) == TypeConstructor(Vector(t, 2), <<a, b>>)
Less(a, b) == Binary("<", a, b)

p == id("p")
q == id("q")

Buf == Struct("Buf", <<[n |-> "x", ty |-> I32, off |-> 0], [n |-> "arr", ty |-> Array(I32, 2), off |-> 4],
                       [n |-> "v", ty |-> Vector(I32, 2), off |-> 16]>>, TRUE)
x == MemberAccessor(id("b"), "x")
arr(e) == ArrayAccessor(MemberAccessor(id("b"), "arr"), e)
v == MemberAccessor(id("b"), "v")

In == Variable("in", "input", I32, FALSE, Null, [location |-> 0])
Out == Variable("out", "output", I32, FALSE, Null, [location |-> 0])
Buffer == Variable("b", "storage", Buf, FALSE, Null, [binding |-> 0, group |-> 0, access |-> "read_write"])
VertexIndex == Variable("vi", "input", U32, FALSE, Null, [builtin |-> "vertex_index"])
InstanceIndex == Variable("ii", "input", U32, FALSE, Null, [builtin |-> "instance_index"])
Memory == <<Private("p", I32), Private("q", I32), Private("w", F32), In, Out, Buffer>>

Main(kind, body) == Function("main", <<>>, Void, <<Set(id("out"), i(0))>> \o body, kind)
Module(globals, functions) == [types |-> <<Buf>>, globals |-> globals, functions |-> functions]
\* g reads an input and memory, h writes them.
g == Function("g", <<Param("a", I32)>>, I32, <<Return(Binary("+", id("in"), Binary("+", id("a"), q)))>>, "none")
Calls(e) == \E n \in Nodes(e) : Is(n, "call") /\ n.f = "g"
Needed(es) == IF \E e \in es : Calls(e) THEN <<g>> ELSE <<>>
\* What the other functions see, and main with a body.
With(functions, body) == Module(Memory, functions \o <<Main("fragment", body)>>)

Env == [in |-> 2, vi |-> 1, ii |-> 3, ub |-> <<7>>]
Job(name, module) ==
  [name |-> name, module |-> module, ep |-> "main", env |-> Env, plan |-> <<>>, cfg |-> TR!NoConfig,
   deviates |-> {}, refused |-> {}, crashes |-> {}, wrong |-> FALSE]

\* What is known to come out wrong, and in which language, or already in the transform.
Wrong ==
  [called |-> {"hlsl", "msl"}, twice |-> {"hlsl", "msl"}, call |-> {"hlsl", "msl"}, chosen |-> {"spirv", "msl"},
   afresh |-> {"spirv", "hlsl"}, elements |-> {"hlsl"}, zeroed |-> {"hlsl"}, mixed |-> {"spirv"},
   matrices |-> {"hlsl"}, unordered |-> {"hlsl"}, hoisted |-> {"hlsl", "msl"}, negated |-> {"wgsl"},
   elsewhere |-> {"spirv_form"}, enclosed |-> {"spirv_form"}, unreached |-> {"spirv_form"}, truths |-> {"spirv_form"},
   cached |-> {"spirv_form"}, retyped |-> {"spirv_form"}, load |-> {"hlsl"}, size_of |-> {"hlsl", "msl"},
   inner |-> {"spirv_form"}, hidden |-> {"spirv_form"}, copied |-> {"hlsl"}, prefixed |-> {"hlsl", "msl"},
   offset_both |-> {"hlsl"}, offset_swapped |-> {"hlsl"}, pull_unsigned |-> {"spirv_form", "transform"},
   pull_mismatched |-> {"spirv_form", "transform"}, pull_integers |-> {"transform"}, pull_both |-> {"transform"},
   pull_offset |-> {"spirv_form", "transform"},
   triple |-> {"msl_layout"}, triples |-> {"msl_layout"}, odd |-> {"msl_layout"}, spaced |-> {"msl_layout"}]
Refused == [carried |-> {"spirv"}, unsigned |-> {"spirv"}, chosen |-> {"hlsl"}, grad_1d |-> {"msl"}, packed |-> {"spirv"},
            outside |-> {"spirv"}, bound_runtime |-> {"hlsl", "msl"}, pull_two |-> {"hlsl", "msl"},
            pull_packed |-> {"hlsl", "msl"}, pull_unsigned |-> {"hlsl", "msl"}, pull_bounded |-> {"hlsl", "msl"},
            pull_pointed |-> {"hlsl", "msl"}, pull_mismatched |-> {"hlsl", "msl"}, pull_skipped |-> {"hlsl", "msl"},
            pull_offset |-> {"hlsl", "msl"},
            unprefixed |-> {"hlsl", "msl"}, hollow |-> {"msl"}]
Known(n) ==
  [deviates |-> IF n \in DOMAIN Wrong THEN Wrong[n] ELSE {}, refused |-> IF n \in DOMAIN Refused THEN Refused[n] ELSE {},
   crashes |-> IF n = "hollow" THEN {"msl"} ELSE {}]

-----------------------------------------------------------------------------
(* Expressions *)

Values ==
  [name |-> p, input |-> id("in"), negation |-> UnaryOp("-", p), product |-> Binary("*", Binary("+", p, i(1)), q),
   quotient |-> Binary("-", q, Binary("-", p, i(1))), both |-> Binary("+", p, q),
   least |-> CallExpr("min", <<p, q>>), clamped |-> CallExpr("clamp", <<p, q, i(1)>>),
   part |-> MemberAccessor(Vec(I32, p, q), "y"), swizzled |-> MemberAccessor(MemberAccessor(Vec(I32, p, q), "yx"), "x"),
   buffered |-> x, element |-> arr(p), nested |-> arr(arr(x)), lane |-> MemberAccessor(v, "y"),
   lanes |-> MemberAccessor(MemberAccessor(v, "yx"), "y"), indexed |-> ArrayAccessor(v, p),
   called |-> CallExpr("g", <<Binary("+", p, q)>>), twice |-> CallExpr("g", <<CallExpr("g", <<p>>)>>),
   converted |-> TypeConstructor(I32, <<TypeConstructor(U32, <<p>>)>>),
   rounded |-> TypeConstructor(I32, <<Binary("+", id("w"), f(1))>>),
   casted |-> Bitcast(I32, Bitcast(U32, p)), chosen |-> CallExpr("select", <<p, q, Less(p, q)>>),
   sum |-> Binary("+", MemberAccessor(Binary("+", Vec(I32, p, q), Vec(I32, i(1), p)), "x"), i(1)),
   scaled |-> TypeConstructor(I32, <<MemberAccessor(Binary("*", id("w"), Vec(F32, f(1), f(2))), "y")>>)]

Conditions ==
  [less |-> Less(p, q), equal |-> Binary("==", p, q), not |-> UnaryOp("!", Less(p, q)),
   and |-> Binary("&&", Less(p, i(1)), Less(q, i(1))), or |-> Binary("||", Less(p, i(1)), Less(q, i(1))),
   nested |-> Binary("||", Less(p, i(1)), Binary("&&", Less(q, i(1)), Less(x, q))),
   both |-> Binary("||", Binary("&&", Less(p, i(1)), Less(q, i(1))), Less(x, p)),
   call |-> Binary("&&", Less(p, i(1)), Less(CallExpr("g", <<p>>), i(3))),
   any |-> CallExpr("any", <<Less(Vec(I32, p, q), Vec(I32, q, p))>>)]

ValueJobs == {Known(n) @@ Job(<<"value", n>>, With(Needed({Values[n]}), <<Set(q, Values[n])>>)) : n \in DOMAIN Values}
ConditionJobs ==
  {Known(n) @@ Job(<<"condition", n>>, With(Needed({Conditions[n]}), <<IfStatement(Conditions[n], <<Set(q, i(1))>>, <<ElseIf(Conditions[n], <<Set(q, i(2))>>)>>)>>))
     : n \in DOMAIN Conditions}

-----------------------------------------------------------------------------
(* Statements *)

Contexts ==
  {"then", "else", "elseif", "block", "body", "loop", "continuing", "case", "fallthrough"}
Inside(c, body) ==
  CASE c = "then"   -> <<If(Less(p, i(1)), body)>>
    [] c = "else"   -> <<IfStatement(Less(p, i(1)), <<Set(q, i(1))>>, <<Else(body)>>)>>
    [] c = "elseif" -> <<IfStatement(Less(p, i(0)), <<Set(q, i(1))>>, <<ElseIf(Less(q, i(1)), body), Else(<<Set(q, i(2))>>)>>)>>
    [] c = "block"  -> <<Block(body)>>
    [] c = "body"   -> <<LoopStatement(<<If(Less(p, i(1)), <<Break>>)>> \o body, <<>>)>>
    [] c = "loop"   -> <<LoopStatement(<<If(Less(p, i(1)), <<Break>>)>> \o body, <<Set(q, i(3))>>)>>
    [] c = "continuing"  -> <<LoopStatement(<<If(Less(p, i(1)), <<Break>>), If(Less(q, i(1)), <<Continue>>), Set(q, i(4))>>, body)>>
    [] c = "case"   -> <<SwitchStatement(p, <<CaseStatement(<<i(0), i(2)>>, body), CaseStatement(<<>>, <<Set(q, i(5))>>)>>)>>
    [] c = "fallthrough" ->
         <<SwitchStatement(p, <<CaseStatement(<<i(1)>>, body \o <<Fallthrough>>), CaseStatement(<<>>, <<Set(q, i(6))>>),
                                CaseStatement(<<i(0)>>, <<Set(q, i(7)), Break>>)>>)>>

\* A statement and its declaration in one context, in another.
Leaf == <<Let("y", I32, Binary("+", p, i(1))), Set(q, id("y"))>>
NestedJobs == {Job(<<"nested", c, d>>, With(<<>>, Inside(c, Inside(d, Leaf)))) : c \in Contexts, d \in Contexts}


-----------------------------------------------------------------------------
(* Ways out of statements, and what is declared where *)

h == Function("h", <<>>, Void, <<If(Less(p, i(1)), <<Return(Null)>>), Set(q, i(8))>>, "none")
Leave1 == If(Less(p, i(1)), <<Break>>)
Next1 == If(Less(q, i(1)), <<Continue>>)

Bodies ==
  [early |-> <<If(Less(p, i(1)), <<Set(q, i(1)), Return(Null)>>), Set(q, i(2))>>,
   either |-> <<IfStatement(Less(p, i(1)), <<Set(q, i(1)), Return(Null)>>, <<Else(<<Set(q, i(2)), Return(Null)>>)>>)>>,
   away |-> <<IfStatement(Less(p, i(1)), <<Discard>>, <<Else(<<Set(q, i(2))>>)>>), Set(q, i(3))>>,
   once |-> <<LoopStatement(<<Set(q, p), Break>>, <<>>)>>,
   continues |-> <<LoopStatement(<<Leave1, Next1, Set(q, i(2)), Continue>>, <<Set(q, i(3))>>)>>,
   left |-> <<LoopStatement(<<If(Less(p, i(1)), <<Return(Null)>>), Set(q, p)>>, <<Set(x, q)>>)>>,
   switched |-> <<LoopStatement(<<SwitchStatement(p, <<CaseStatement(<<i(1)>>, <<Continue>>), CaseStatement(<<>>, <<Break>>)>>),
                                  If(Less(q, i(1)), <<Break>>)>>, <<>>)>>,
   partway |-> <<SwitchStatement(p, <<CaseStatement(<<i(1)>>, <<If(Less(q, i(1)), <<Break>>), Set(q, i(2))>>),
                                      CaseStatement(<<>>, <<Set(q, i(3)), Return(Null)>>)>>), Set(q, i(4))>>,
   chain |-> <<SwitchStatement(p, <<CaseStatement(<<i(0)>>, <<Set(q, i(1)), Fallthrough>>),
                                    CaseStatement(<<i(1)>>, <<Set(q, i(2)), Fallthrough>>),
                                    CaseStatement(<<>>, <<Set(q, i(3))>>)>>)>>,
   zeroed |-> <<Let("y", I32, Null), Set(q, Binary("+", id("y"), p)), Set(id("y"), q), Set(q, id("y"))>>,
   fixed |-> <<Fix("c", Vector(I32, 2), Vec(I32, p, q)), Set(q, MemberAccessor(id("c"), "y")), Set(v, id("c"))>>,
   elements |-> <<Let("a", Array(I32, 2), Null), Set(ArrayAccessor(id("a"), p), i(1)), Set(q, ArrayAccessor(id("a"), i(1)))>>,
   rows |-> <<Fix("a", Array(Vector(I32, 2), 2), TypeConstructor(Array(Vector(I32, 2), 2), <<Vec(I32, p, q), Vec(I32, i(1), i(2))>>)),
              Set(q, MemberAccessor(ArrayAccessor(id("a"), p), "x"))>>,
   component |-> <<Let("c", Vector(I32, 2), Vec(I32, i(1), i(2))), Set(MemberAccessor(id("c"), "y"), p), Set(v, id("c")),
                   Set(ArrayAccessor(v, q), i(3))>>,
   copied |-> <<Let("s", Buf, id("b")), Set(MemberAccessor(id("s"), "x"), p), Set(x, MemberAccessor(id("s"), "x")),
                Set(q, ArrayAccessor(MemberAccessor(id("s"), "arr"), i(1)))>>,
   shadowed |-> <<Let("y", I32, p), Block(<<Let("z", I32, id("y")), Set(id("y"), i(3)), Set(q, id("z"))>>), Set(q, id("y"))>>,
   matrices |-> <<Let("m", Matrix(F32, 2, 2), TypeConstructor(Matrix(F32, 2, 2), <<Vec(F32, id("w"), f(1)), Vec(F32, f(2), id("w"))>>)),
                 Set(id("w"), MemberAccessor(ArrayAccessor(Binary("*", id("m"), id("m")), i(1)), "x")),
                 Set(id("w"), MemberAccessor(Binary("*", id("m"), Vec(F32, f(1), f(3))), "y")),
                 Set(id("w"), MemberAccessor(Binary("*", Vec(F32, f(1), f(3)), id("m")), "x"))>>,
   logic |-> <<Let("t", Bool, Binary("&&", Less(p, i(1)), Less(q, i(1)))), If(id("t"), <<Set(q, i(5))>>),
               Let("t2", Bool, Binary("||", id("t"), UnaryOp("!", id("t")))), If(id("t2"), <<Set(q, i(6))>>)>>,
   voids |-> <<CallStatement(CallExpr("h", <<>>)), Set(q, i(1)), If(Less(p, i(1)), <<CallStatement(CallExpr("h", <<>>))>>)>>,
   arguments |-> <<Set(q, CallExpr("k", <<p, Less(q, i(1))>>))>>,
   unordered |-> <<Set(q, CallExpr("k", <<p, Binary("&&", Less(q, i(1)), Less(p, i(1)))>>))>>,
   reused |-> <<Let("y", I32, p), LoopStatement(<<Leave1, Let("z", I32, id("y")), Set(id("y"), Binary("+", id("z"), i(1)))>>,
                                                <<Set(q, id("y"))>>)>>,
   (* What is known to come out wrong: *)
   afresh |-> <<LoopStatement(<<Leave1, Let("z", I32, Null), Set(q, id("z")), Set(id("z"), i(3))>>, <<>>)>>,
   carried |-> <<LoopStatement(<<Leave1, Let("z", I32, p)>>, <<Set(q, id("z"))>>)>>,
   hoisted |-> <<LoopStatement(<<Leave1, Fix("z", I32, p), Set(q, id("z"))>>, <<Set(q, i(1))>>)>>,
   elsewhere |-> <<IfStatement(Less(p, i(1)), <<Set(q, i(1))>>, <<ElseIf(Less(q, i(1)), <<Return(Null)>>)>>), Set(q, i(2))>>,
   enclosed |-> <<If(Less(p, i(1)), <<Block(<<Set(q, i(1)), Return(Null)>>)>>), Set(q, i(2))>>,
   unreached |-> <<Set(q, i(1)), Return(Null), Set(q, i(2)), Return(Null)>>,
   truths |-> <<If(Binary("==", Less(p, i(1)), Less(q, i(1))), <<Set(q, i(1))>>)>>,
   unsigned |-> <<SwitchStatement(TypeConstructor(U32, <<p>>), <<CaseStatement(<<u(1)>>, <<Set(q, i(1))>>), CaseStatement(<<>>, <<>>)>>)>>,
   mixed |-> <<Set(v, TypeConstructor(Vector(I32, 2), <<p, id("w")>>))>>,
   cached |-> <<Fix("c", I32, p), If(Less(p, i(1)), <<Set(v, Vec(I32, id("c"), id("c")))>>), Set(v, Vec(I32, id("c"), id("c")))>>,
   retyped |-> <<Fix("c", I32, p), Let("a", Array(I32, 2), TypeConstructor(Array(I32, 2), <<id("c"), id("c")>>)),
                 Set(v, Vec(I32, id("c"), id("c")))>>,
   negated |-> <<Fix("c", Vector(I32, 2), v), Set(q, MemberAccessor(UnaryOp("-", id("c")), "x"))>>]

k == Function("k", <<Param("a", I32), Param("t", Bool)>>, I32, <<If(id("t"), <<Return(id("a"))>>), Return(i(9))>>, "none")
CalledIn == [voids |-> <<h>>, arguments |-> <<k>>, unordered |-> <<k>>]
BodyJobs ==
  {Known(n) @@ Job(<<"body", n>>, With(IF n \in DOMAIN CalledIn THEN CalledIn[n] ELSE <<>>, Bodies[n])) : n \in DOMAIN Bodies}


-----------------------------------------------------------------------------
(* Functions, entry points and what they refer to *)

Param1(n, b) == Function(n, <<Param("a", I32)>>, I32, b, "none")
Uniform == Variable("ub", "uniform", Struct("Ub", <<[n |-> "k", ty |-> I32, off |-> 0]>>, TRUE), FALSE, Null, [binding |-> 1, group |-> 0])
Constant == Variable("gc", "none", I32, TRUE, i(2), NoDeco)
ConstantPair == Variable("gv", "none", Vector(I32, 2), TRUE, TypeConstructor(Vector(I32, 2), <<i(1), i(2)>>), NoDeco)
Started == Variable("z", "private", I32, FALSE, i(2), NoDeco)
More == Memory \o <<Uniform, Constant, ConstantPair, Started, VertexIndex, InstanceIndex>>
Index(n) == TypeConstructor(I32, <<id(n)>>)

\* f2 refers to everything there is, f1 calls it.
f2 == Param1("f2", <<Set(id("out"), Binary("+", id("in"), id("a"))), Set(x, MemberAccessor(id("ub"), "k")),
                     Set(q, Index("vi")), Set(id("z"), Binary("+", id("gc"), MemberAccessor(id("gv"), "y"))),
                     Return(Binary("+", x, q))>>)
f1 == Param1("f1", <<If(Less(id("a"), i(1)), <<Return(id("z"))>>), Return(CallExpr("f2", <<id("a")>>))>>)
\* It writes the output in one of the branches only.
f3 == Function("f3", <<>>, Void, <<If(Less(p, i(1)), <<Set(id("out"), id("in"))>>)>>, "none")
Entry(n, kind, body) == Function(n, <<>>, Void, body, kind)
\* An input with the name of a part of a vector, which main or a function accesses.
InputY == Variable("y", "input", I32, FALSE, Null, [location |-> 1])
lane == Param1("lane", <<Return(MemberAccessor(Vec(I32, id("a"), q), "y"))>>)
PrefixJob(n, functions, body) ==
  [Known(n) @@ Job(<<"module", n>>, Module(Append(Memory, InputY), functions \o <<Main("fragment", body)>>)) EXCEPT !.env = ("y" :> 4) @@ Env]

ModuleJobs ==
  {PrefixJob("prefixed", <<>>, <<Set(q, MemberAccessor(Vec(I32, p, id("y")), "y"))>>),
   PrefixJob("unprefixed", <<lane>>, <<Set(q, CallExpr("lane", <<p>>))>>),
   Job(<<"module", "through">>, Module(More, <<f2, f1, Main("vertex", <<Set(q, CallExpr("f1", <<p>>)), Set(q, CallExpr("f2", <<q>>))>>)>>)),
   Job(<<"module", "two">>, Module(More, <<f2, Entry("other", "vertex", <<Set(id("out"), CallExpr("f2", <<p>>))>>),
                                           Main("vertex", <<Set(q, CallExpr("f2", <<i(1)>>))>>)>>)),
   [Job(<<"module", "other">>, Module(More, <<f2, Main("vertex", <<Set(q, CallExpr("f2", <<i(1)>>))>>), h,
                                             Entry("other", "vertex", <<Set(id("out"), CallExpr("f2", <<p>>)), CallStatement(CallExpr("h", <<>>))>>)>>))
      EXCEPT !.ep = "other"],
   [Job(<<"module", "branch">>, Module(Memory, <<f3, Main("fragment", <<CallStatement(CallExpr("f3", <<>>))>>)>>)) EXCEPT !.deviates = {"hlsl"}],
   [Job(<<"module", "unreached">>, Module(Memory, <<f3, Main("fragment", <<>>)>>)) EXCEPT !.refused = {"hlsl", "msl"}],
   [Job(<<"module", "unset">>, Module(Memory, <<Entry("main", "fragment", <<If(Less(p, i(1)), <<Set(id("out"), id("in"))>>)>>)>>)) EXCEPT !.deviates = {"hlsl"}]}

-----------------------------------------------------------------------------
(* Textures *)

Texture(class, dim) == Variable("t", "uniform_constant", [k |-> "texture", class |-> class, dim |-> dim, of |-> F32], FALSE, Null, NoDeco)
Sampler == Variable("s", "uniform_constant", [k |-> "sampler"], FALSE, Null, NoDeco)
Read4(e) == Fix("e", Vector(F32, 4), e)
Coords == Vec(F32, id("w"), f(2))
Texel == Vec(I32, p, i(2))
Sample(name, rest) == Read4(CallExpr(name, <<id("t"), id("s"), Coords>> \o rest))
TextureJob(n, class, dim, body) ==
  Known(n) @@ Job(<<"texture", n>>, Module(Memory \o <<Texture(class, dim), Sampler>>, <<Main("fragment", <<body>>)>>))

TextureJobs ==
  {TextureJob("sample", "sampled", "2d", Sample("textureSample", <<>>)),
   TextureJob("offset", "sampled", "2d", Sample("textureSample", <<Texel>>)),
   TextureJob("bias", "sampled", "2d", Sample("textureSampleBias", <<id("w")>>)),
   TextureJob("level", "sampled", "2d", Sample("textureSampleLevel", <<f(0)>>)),
   TextureJob("grad", "sampled", "2d", Sample("textureSampleGrad", <<Coords, Vec(F32, f(3), f(4))>>)),
   TextureJob("layer", "sampled", "2d_array", Sample("textureSample", <<p>>)),
   TextureJob("layers", "sampled", "2d_array", Set(q, CallExpr("textureNumLayers", <<id("t")>>))),
   TextureJob("size", "sampled", "2d_array", Set(v, CallExpr("textureDimensions", <<id("t")>>))),
   TextureJob("levels", "sampled", "2d", Set(q, CallExpr("textureNumLevels", <<id("t")>>))),
   TextureJob("depth", "depth", "2d", Set(id("w"), CallExpr("textureSampleCompare", <<id("t"), id("s"), Coords, f(1)>>))),
   TextureJob("depth_sample", "depth", "2d", Set(id("w"), CallExpr("textureSample", <<id("t"), id("s"), Coords>>))),
   TextureJob("store", "storage", "2d", CallStatement(CallExpr("textureStore", <<id("t"), Texel, TypeConstructor(Vector(F32, 4), <<f(1), f(2), f(3), f(4)>>)>>))),
   TextureJob("samples", "multisampled", "2d", Read4(CallExpr("textureLoad", <<id("t"), Texel, p>>))),
   (* What is known to come out wrong: *)
   TextureJob("load", "sampled", "2d", Read4(CallExpr("textureLoad", <<id("t"), Texel, p>>))),
   TextureJob("size_of", "sampled", "2d", Set(v, CallExpr("textureDimensions", <<id("t"), p>>))),
   TextureJob("packed", "sampled", "2d_array",
     Block(<<Let("c", Vector(F32, 2), Coords), Read4(CallExpr("textureSample", <<id("t"), id("s"), id("c"), p>>))>>)),
   TextureJob("grad_1d", "sampled", "1d", Read4(CallExpr("textureSampleGrad", <<id("t"), id("s"), id("w"), f(1), f(2)>>)))}

-----------------------------------------------------------------------------
(* Programs that go wrong, or would: the ones the validator rejects, and    *)
(* the ones it has nothing to say of.                                       *)

WrongBodies ==
  [mismatch |-> <<Set(q, v)>>,
   nothing |-> <<Set(q, CallExpr("h", <<>>))>>,
   undeclared |-> <<Set(q, id("y"))>>,
   later |-> <<Set(q, id("y")), Let("y", I32, p)>>,
   unknown |-> <<CallStatement(CallExpr("late", <<>>))>>,
   (* A parameter or a variable in its body only is not known elsewhere: *)
   foreign |-> <<Set(q, CallExpr("g", <<p>>)), Set(q, id("a"))>>,
   uncovered |-> <<SwitchStatement(p, <<CaseStatement(<<i(1)>>, <<Set(q, i(1))>>)>>)>>,
   duplicate |-> <<SwitchStatement(p, <<CaseStatement(<<i(1), i(1)>>, <<Set(q, i(1))>>), CaseStatement(<<>>, <<>>)>>)>>,
   beyond |-> <<SwitchStatement(p, <<CaseStatement(<<>>, <<Set(q, i(1)), Fallthrough>>)>>)>>,
   scalar |-> <<SwitchStatement(id("w"), <<CaseStatement(<<>>, <<>>)>>)>>,
   constant |-> <<Fix("c", I32, p), Set(id("c"), q)>>,
   again |-> <<Let("y", I32, p), Let("y", Vector(I32, 2), v), Set(q, id("y"))>>,
   unbounded |-> <<Let("a", Array(I32, 0), Null)>>,
   literal |-> <<Set(i(1), p)>>]

\* The last function is of the wrong kind.
WrongFunctions ==
  [returned |-> Param1("late", <<Return(v)>>),
   unreturned |-> Param1("late", <<If(Less(p, i(1)), <<Return(p)>>)>>)]
CallsLate == Set(q, CallExpr("late", <<p>>))

WrongJobs ==
  {Job(<<"wrong", n>>, With(<<g, h>>, WrongBodies[n])) : n \in DOMAIN WrongBodies}
  \cup {Job(<<"wrong", n>>, With(<<WrongFunctions[n]>>, <<CallsLate>>)) : n \in DOMAIN WrongFunctions}
  \cup {Job(<<"wrong", "twice">>, With(<<k, [k EXCEPT !.params = <<>>, !.body = <<Return(i(9))>>]>>, Bodies["arguments"])),
         Job(<<"wrong", "no entry">>, Module(Memory, <<h>>)),
         Job(<<"wrong", "parameters">>, Module(Memory, <<[Main("vertex", <<>>) EXCEPT !.params = <<Param("a", I32)>>]>>)),
         Job(<<"wrong", "result">>, Module(Memory, <<[Main("vertex", <<Return(p)>>) EXCEPT !.ret = I32]>>)),
         Job(<<"wrong", "globals">>, Module(Memory \o <<Private("p", Vector(I32, 2))>>, <<Main("vertex", <<Set(q, p)>>)>>)),
         Job(<<"wrong", "storage class">>, Module(Memory \o <<Variable("l", "none", I32, FALSE, Null, NoDeco)>>, <<Main("vertex", <<>>)>>))}

\* Where the validator does not look.
Missed ==
  [inner |-> <<If(Less(p, i(1)), <<Set(q, v)>>)>>,
   hidden |-> <<Let("y", I32, p), If(Less(p, i(1)), <<Let("y", Vector(I32, 2), v)>>), Set(v, id("y"))>>,
   outside |-> <<Block(<<Let("y", I32, p)>>), If(Less(p, i(1)), <<Set(q, id("y"))>>)>>,
   short |-> <<Set(q, CallExpr("g", <<>>))>>]
MissedJobs ==
  {[Known(n) @@ Job(<<"missed", n>>, With(Needed(IF n = "short" THEN {CallExpr("g", <<>>)} ELSE {}), Missed[n])) EXCEPT !.wrong = TRUE] : n \in DOMAIN Missed}

-----------------------------------------------------------------------------
(* Transforms *)

Planned(plan, j) == [j EXCEPT !.plan = plan]

\* What is accessed at p and q, which may be out of bounds.
Mat == Matrix(F32, 2, 2)
MatOf(a, b) == TypeConstructor(Mat, <<Vec(F32, a, b), Vec(F32, f(2), f(3))>>)
Runtime == Variable("rb", "storage", Struct("Rb", <<[n |-> "k", ty |-> I32, off |-> 0], [n |-> "data", ty |-> Array(I32, 0), off |-> 4]>>, TRUE),
                    FALSE, Null, [binding |-> 2, group |-> 0, access |-> "read_write"])
data(e) == ArrayAccessor(MemberAccessor(id("rb"), "data"), e)
Accesses ==
  [bound_element |-> <<Set(q, arr(p))>>,
   bound_nested |-> <<Set(arr(arr(x)), q)>>,
   bound_local |-> <<Let("a", Array(I32, 2), TypeConstructor(Array(I32, 2), <<p, q>>)), Set(ArrayAccessor(id("a"), p), i(1)),
                     Set(q, ArrayAccessor(id("a"), q))>>,
   bound_lane |-> <<Set(ArrayAccessor(v, p), ArrayAccessor(v, q))>>,
   bound_matrix |-> <<Let("m", Mat, MatOf(id("w"), f(1))), Set(ArrayAccessor(ArrayAccessor(id("m"), p), q), f(5)),
                      Set(id("w"), MemberAccessor(ArrayAccessor(id("m"), p), "y"))>>,
   bound_literals |-> <<Set(q, arr(i(5))), Set(q, arr(i(-2))), Set(q, arr(u(7))), Set(q, arr(i(1)))>>,
   bound_condition |-> <<If(Binary("&&", Less(arr(p), i(1)), Less(arr(q), i(1))), <<Set(q, i(1))>>),
                         LoopStatement(<<If(Less(arr(q), i(1)), <<Break>>)>>, <<Set(q, arr(p))>>)>>,
   bound_switch |-> <<SwitchStatement(arr(p), <<CaseStatement(<<i(1)>>, <<Set(q, arr(q))>>), CaseStatement(<<>>, <<Return(Null)>>)>>)>>,
   bound_callee |-> <<Set(q, CallExpr("e", <<arr(p)>>))>>,
   bound_runtime |-> <<Set(q, data(p)), Set(data(q), p), Set(q, data(i(2)))>>]
e == Function("e", <<Param("a", I32)>>, I32, <<Return(Binary("+", arr(id("a")), id("a")))>>, "none")
RuntimeEnv == ("rb" :> <<0, <<0, 0>>>>) @@ Env
BoundJobs ==
  {[Planned(<<"bound_array_accessors">>, Known(n) @@ Job(<<"transform", n>>,
      Module(Memory \o (IF n = "bound_runtime" THEN <<Runtime>> ELSE <<>>),
             (IF n = "bound_callee" THEN <<e>> ELSE <<>>) \o <<Main("fragment", Accesses[n])>>))) EXCEPT !.env = RuntimeEnv]
     : n \in DOMAIN Accesses}

\* Vertex shaders that end in several ways, and other functions beside them.
Vertex(body) == Main("vertex", body)
PointJobs ==
  {Planned(<<"emit_vertex_point_size">>, [j EXCEPT !.refused = @ \cup {"hlsl", "msl"}]) :
     j \in {Job(<<"transform", "point">>, Module(Memory, <<Vertex(Bodies["early"])>>)),
            Job(<<"transform", "point_call">>, Module(Memory, <<h, Vertex(Bodies["voids"])>>)),
            [Job(<<"transform", "points">>, Module(Memory, <<Vertex(<<>>), Entry("other", "vertex", <<Set(id("out"), i(0))>> \o Bodies["left"])>>)) EXCEPT !.ep = "other"]}}
  \cup {Planned(<<"emit_vertex_point_size">>, Job(<<"transform", "no_point">>, With(<<>>, Bodies["early"])))}

\* Functions that read one of the indices, both, or one in a callee.
i1 == Param1("i1", <<Return(Binary("+", Index("vi"), id("a")))>>)
i2 == Param1("i2", <<If(Less(id("a"), i(1)), <<Return(Index("ii"))>>), Return(Binary("+", Index("ii"), Index("vi")))>>)
OffsetJobs ==
  LET Data == (TR!kBufferName :> <<0, 0>>) @@ (TR!kIndexOffsetPrefix \o "vi" :> 1) @@ (TR!kIndexOffsetPrefix \o "ii" :> 3) @@ Env
      One == (TR!kBufferName :> <<0>>) @@ Data
      Of(n, env, globals, functions) ==
        [Planned(<<"first_index_offset">>, Known(n) @@ Job(<<"transform", n>>, Module(globals, functions))) EXCEPT !.env = env]
  IN  {Of("offset_both", Data, Memory \o <<VertexIndex, InstanceIndex>>,
          <<i1, i2, Vertex(<<Set(q, CallExpr("i2", <<p>>)), Set(q, CallExpr("i1", <<Index("ii")>>)), Set(q, Index("vi"))>>)>>),
       Of("offset_instance", One, Memory \o <<InstanceIndex>>, <<Vertex(<<If(Less(p, i(1)), <<Set(q, Index("ii"))>>)>>)>>),
       Of("offset_swapped", Data, <<InstanceIndex>> \o Memory \o <<VertexIndex>>, <<i1, Vertex(<<Set(q, CallExpr("i1", <<p>>))>>)>>)}

\* Inputs of a vertex shader, and the buffers they are pulled from.
Pulled(n, t, location) == Variable(n, "input", t, FALSE, Null, [location |-> location])
Attribute(location, offset, format) == [location |-> location, offset |-> offset, format |-> format]
VertexBuffer(step, stride, attributes) == [step |-> step, stride |-> stride, attributes |-> attributes]
VertexMemory == <<Private("p", I32), Private("q", I32), Out>>
UsesPulled == <<Set(q, CallExpr("l1", <<p>>)), Set(q, TypeConstructor(I32, <<MemberAccessor(id("l"), "y")>>))>>
l1 == Param1("l1", <<Return(Binary("+", id("n"), id("a")))>>)
PullJobs ==
  LET Of(n, plan, globals, state) ==
        LET buffers == [j \in {TR!VertexBufferName(s) : s \in DOMAIN state} |-> <<[s \in 1..8 |-> 0]>>]
        IN  [Planned(plan, Known(n) @@ Job(<<"transform", n>>, Module(VertexMemory \o globals, <<l1, Vertex(UsesPulled)>>)))
               EXCEPT !.env = buffers @@ [_tint_pulling_vertex_index |-> 2, _tint_pulling_instance_index |-> 1, vi |-> 1, ii |-> 3],
                      !.cfg = [entry |-> "main", state |-> state]]
      Inputs == <<Pulled("n", I32, 0), Pulled("l", Vector(F32, 2), 1)>>
      Index2(b, n, t) == Variable(n, "input", t, FALSE, Null, [builtin |-> b])
      Two == <<VertexBuffer("vertex_index", 8, <<Attribute(1, 4, Vector(F32, 2))>>),
               VertexBuffer("instance_index", 12, <<Attribute(7, 0, F32), Attribute(0, 8, I32)>>)>>
      Packed == <<VertexBuffer("vertex_index", 12, <<Attribute(0, 8, I32), Attribute(1, 0, Vector(F32, 2))>>)>>
  IN  {Of("pull_two", <<"vertex_pulling">>, Inputs, Two),
       Of("pull_packed", <<"vertex_pulling">>, Inputs \o <<Index2("vertex_index", "vi", I32)>>, Packed),
       Of("pull_skipped", <<"vertex_pulling">>, Inputs, <<VertexBuffer("vertex_index", 8, <<Attribute(0, 0, I32), Attribute(7, 4, Vector(U32, 2))>>)>>),
       (* What is known to come out wrong: *)
       Of("pull_unsigned", <<"vertex_pulling">>, Inputs \o <<VertexIndex>>, Packed),
       Of("pull_mismatched", <<"vertex_pulling">>, Inputs, <<VertexBuffer("vertex_index", 8, <<Attribute(0, 0, U32)>>)>>),
       Of("pull_integers", <<"vertex_pulling">>, Append(Inputs, Pulled("m", Vector(U32, 2), 2)),
          <<VertexBuffer("vertex_index", 8, <<Attribute(0, 0, I32), Attribute(2, 4, Vector(U32, 2))>>)>>),
       Of("pull_both", <<"vertex_pulling", "bound_array_accessors">>, Inputs, <<VertexBuffer("vertex_index", 8, <<Attribute(1, 0, Vector(I32, 2))>>)>>),
       [Of("pull_offset", <<"vertex_pulling", "first_index_offset">>, Inputs, Two)
          EXCEPT !.env = (TR!kBufferName :> <<0, 0>>) @@ (TR!kIndexOffsetPrefix \o "_tint_pulling_vertex_index" :> 2)
                         @@ (TR!kIndexOffsetPrefix \o "_tint_pulling_instance_index" :> 1) @@ @],
       Of("pull_bounded", <<"vertex_pulling", "bound_array_accessors">>, Inputs, Two),
       Of("pull_pointed", <<"vertex_pulling", "emit_vertex_point_size">>, Inputs, Two),
       Of("pull_nothing", <<"vertex_pulling">>, Inputs, <<>>)}
TransformJobs == BoundJobs \cup PointJobs \cup OffsetJobs \cup PullJobs

-----------------------------------------------------------------------------
(* Structs, with the offsets of their members *)

Member(n, t, offset) == [n |-> n, ty |-> t, off |-> offset]
Inner == Struct("Inner", <<Member("a", Vector(F32, 2), 0), Member("b", F32, 8)>>, TRUE)
Layouts ==
  [scalars |-> <<Member("a", I32, 0), Member("b", F32, 12), Member("c", U32, 16)>>,
   vectors |-> <<Member("a", F32, 4), Member("b", Vector(F32, 2), 16), Member("c", Vector(F32, 4), 32), Member("d", I32, 48)>>,
   arrays |-> <<Member("a", Array(I32, 3), 0), Member("b", Vector(I32, 2), 16), Member("c", Array(Vector(F32, 2), 2), 32)>>,
   matrix |-> <<Member("a", Matrix(F32, 2, 2), 0), Member("b", Matrix(F32, 4, 2), 16), Member("c", Matrix(F32, 2, 3), 48), Member("d", F32, 80)>>,
   nested |-> <<Member("a", F32, 0), Member("b", Inner, 8), Member("c", F32, 24)>>,
   aliased |-> <<Member("a", F32, 0), Member("b", Alias("A", Vector(F32, 2)), 16)>>,
   (* What is known to come out wrong: *)
   triple |-> <<Member("a", Vector(F32, 3), 0), Member("b", F32, 12)>>,
   triples |-> <<Member("a", Matrix(F32, 3, 2), 0), Member("b", F32, 32)>>,
   hollow |-> <<Member("a", Struct("Empty", <<>>, FALSE), 0), Member("b", F32, 4)>>,
   odd |-> <<Member("a", Struct("Odd", <<Member("x", F32, 0), Member("y", Array(I32, 3), 4)>>, TRUE), 0), Member("b", F32, 16)>>,
   spaced |-> <<Member("a", [Array(F32, 2) EXCEPT !.stride = 16], 0), Member("b", F32, 32)>>]
LayoutJobs ==
  {Known(n) @@ Job(<<"layout", n>>, [Module(Memory, <<Main("fragment", <<Set(q, p)>>)>>)
     EXCEPT !.types = <<Buf, Inner, Struct("S", Layouts[n], TRUE)>>]) : n \in DOMAIN Layouts}

AllJobs == LayoutJobs \cup WrongJobs \cup MissedJobs \cup TransformJobs \cup ValueJobs \cup ConditionJobs \cup NestedJobs \cup BodyJobs \cup ModuleJobs \cup TextureJobs
MCBits == {<<0, 1, 0, 1, 1, 0, 1>>, <<1, 1, 0, 0, 1, 1>>, <<1, 0, 2, 1, 3, 0>>, <<2, -1, 1, 0, 1>>}
=============================================================================
