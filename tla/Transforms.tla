------------------------------ MODULE Transforms ------------------------------
(***************************************************************************)
(* Cloning a program, and the transforms: each clones the determined module *)
(* it is given with some nodes replaced, into a module of its own that has  *)
(* to be determined again.                                                  *)
(***************************************************************************)
EXTENDS Ast

Output(m, errors) == [module |-> m, errors |-> errors]
Empty == [types |-> <<>>, globals |-> <<>>, functions |-> <<>>]

-----------------------------------------------------------------------------
(* Cloning *)

\* What the determiner has added to a node stays behind.
Annotations == {"rt", "roles", "refs", "local", "entry_points", "error"}
Bare(n) == [f \in DOMAIN n \ Annotations |-> n[f]]

RECURSIVE Clone(_, _)

CloneAll(ns, ctx) == [i \in DOMAIN ns |-> Clone(ns[i], ctx)]

\* The Clone() of a class: its parts are cloned by the context.
CloneParts(n, parts, ctx) ==
  [f \in DOMAIN Bare(n) |->
     CASE f \notin DOMAIN parts -> n[f]
       [] parts[f] = "list"     -> CloneAll(n[f], ctx)
       [] OTHER                 -> Clone(n[f], ctx)]
CloneNode(n, ctx) == CloneParts(n, Parts(n), ctx)

\* Mutant of CloneWithStatementsAtStart: the statements come last.
CloneWithStatementsAtEnd(ctx, f, statements) ==
  [CloneNode(f, ctx) EXCEPT !.body = @ \o statements]

CloneWithStatementsAtStart(ctx, f, statements) ==
  [CloneNode(f, ctx) EXCEPT !.body = statements \o @]

\* The module's declarations after those that are in the clone already.
CloneModule(m, ctx, before) ==
  [types     |-> before.types \o m.types,
   globals   |-> before.globals \o CloneAll(m.globals, ctx),
   functions |-> before.functions \o CloneAll(m.functions, ctx)]

-----------------------------------------------------------------------------
(* Bounds of array accesses *)

Uint(v) == Literal(U32, v)
IsLiteral(e) == Is(e, "literal")
Lesser(a, b) == IF a < b THEN a ELSE b
Greater(a, b) == IF a < b THEN b ELSE a

\* Mutant of LastIndex: an index may be the size.
SizeOf(t) == t.n

LastIndex(t) == t.n - 1

\* An access whose index is kept in 0..size-1; Null for what is not accessed so.
BoundArrayAccess(e, ctx) ==
  LET t == UnwrapAll(e.e.rt)
      Least(limit) == CallExpr("min", <<TypeConstructor(U32, <<Clone(e.i, ctx)>>), limit>>)
      Signed(v) == Greater(Lesser(v, LastIndex(t)), 0)
      index ==
        CASE IsRuntimeArray(t) ->
               Least(Binary("-", CallExpr("arrayLength", <<Clone(e.e, ctx)>>), Uint(1)))
          [] IsLiteral(e.i) -> Literal(e.i.ty, IF Is(e.i.ty, "i32") THEN Signed(e.i.v) ELSE Lesser(e.i.v, LastIndex(t)))
          [] OTHER -> Least(Uint(LastIndex(t)))
  IN  IF t.k \notin {"array", "vec", "mat"} THEN Null ELSE ArrayAccessor(Clone(e.e, ctx), index)

BadIndex(n) == Is(n, "index") /\ IsLiteral(n.i) /\ ~is_integer_scalar(n.i.ty)

-----------------------------------------------------------------------------
(* The offset of the first vertex and of the first instance *)

kStructName == "TintFirstIndexOffsetData"
kBufferName == "tint_first_index_data"
kIndexOffsetPrefix == "tint_first_index_offset_"
Field == [vertex_index |-> "tint_first_vertex_index", instance_index |-> "tint_first_instance_index"]

IsIndex(v) == Has(v, "builtin") /\ v.decos.builtin \in DOMAIN Field

RenameIndex(v, ctx) ==
  IF IsIndex(v) THEN [CloneNode(v, ctx) EXCEPT !.n = kIndexOffsetPrefix \o v.n] ELSE Null

\* The last variable with a builtin is the one whose name is remembered.
NameOf(ctx, b) == LET vs == SelectSeq(ctx.src.globals, LAMBDA v : IsBuiltin(v, b)) IN Last(vs).n

\* Mutant of CreateFirstIndexOffset: the first vertex is added to both.
CreateFirstVertexOffset(ctx, b) ==
  VariableDecl(Variable(NameOf(ctx, b), "none", U32, TRUE,
                        Binary("+", Identifier(kIndexOffsetPrefix \o NameOf(ctx, b)),
                               MemberAccessor(Identifier(kBufferName), Field["vertex_index"])), NoDeco))

CreateFirstIndexOffset(ctx, b) ==
  VariableDecl(Variable(NameOf(ctx, b), "none", U32, TRUE,
                        Binary("+", Identifier(kIndexOffsetPrefix \o NameOf(ctx, b)),
                               MemberAccessor(Identifier(kBufferName), Field[b])), NoDeco))

\* A function starts with a constant for each index it reads itself.
OffsetIndices(f, ctx) ==
  LET Index(n) == LET i == SelectInSeq(ctx.src.globals, LAMBDA v : v.n = n) IN ctx.src.globals[i]
      indices == SelectSeq(f.local, LAMBDA n : IsIndex(Index(n)))
  IN  CloneWithStatementsAtStart(ctx, f,
        [i \in DOMAIN indices |-> CreateFirstIndexOffset(ctx, Index(indices[i]).decos.builtin)])

AddUniformBuffer(m) ==
  LET Used(b) == \E i \in DOMAIN m.globals : IsBuiltin(m.globals[i], b)
      after == IF Used("vertex_index") THEN 4 ELSE 0
      Member(b, offset) == IF Used(b) THEN <<[n |-> Field[b], ty |-> U32, off |-> offset]>> ELSE <<>>
      data == Struct(kStructName, Member("vertex_index", 0) \o Member("instance_index", after), TRUE)
  IN  [type |-> data, var |-> Variable(kBufferName, "uniform", data, FALSE, Null, [binding |-> 0, group |-> 0])]

-----------------------------------------------------------------------------
(* The size of points *)

kPointSizeVar == "tint_pointsize"

SetPointSize(f, ctx) ==
  IF f.stage # "vertex" THEN Null
  ELSE CloneWithStatementsAtStart(ctx, f, <<Assignment(Identifier(kPointSizeVar), Literal(F32, 1))>>)

-----------------------------------------------------------------------------
(* Vertex pulling: the inputs of an entry point are read from buffers.      *)
(* ctx.cfg: the name of the entry point and, for each buffer, its stride,   *)
(* its step mode and its attributes.                                        *)

kPullingPosVarName == "_tint_pulling_pos"
kStructBufferName == "_tint_vertex_data"
VertexBufferName(i) == "_tint_pulling_vertex_buffer_" \o ToString(i - 1)
DefaultIndexName == [vertex_index |-> "_tint_pulling_vertex_index",
                     instance_index |-> "_tint_pulling_instance_index"]

VertexData == Struct("TintVertexData", <<[n |-> kStructBufferName, ty |-> Array(U32, 0), off |-> 0]>>, TRUE)

StepsBy(cfg, b) == \E i \in DOMAIN cfg.state : cfg.state[i].step = b
IndexVariables(m, b) == SelectSeq(m.globals, LAMBDA v : v.sc = "input" /\ IsBuiltin(v, b))

\* The variable that counts vertices or instances: the program's, or one of its own.
IndexName(m, b) == IF IndexVariables(m, b) = <<>> THEN DefaultIndexName[b] ELSE Head(IndexVariables(m, b)).n
InsertIndexIfUsed(m, cfg, b) ==
  IF ~StepsBy(cfg, b) \/ IndexVariables(m, b) # <<>> THEN <<>>
  ELSE <<Variable(DefaultIndexName[b], "input", I32, FALSE, Null, [builtin |-> b])>>

AddVertexStorageBuffers(cfg) ==
  [i \in DOMAIN cfg.state |-> Variable(VertexBufferName(i), "storage", VertexData, FALSE, Null, [binding |-> i - 1, group |-> 0])]

ConvertToPrivate(v) ==
  IF v.sc = "input" /\ Has(v, "location") THEN Variable(v.n, "private", v.ty, FALSE, Null, NoDeco) ELSE Null

PullingPosition == Identifier(kPullingPosVarName)
\* Mutant of AccessU32: the position is not divided by the size of an element.
AccessByte(i, pos) == ArrayAccessor(MemberAccessor(Identifier(VertexBufferName(i)), kStructBufferName), pos)

AccessU32(i, pos) ==
  ArrayAccessor(MemberAccessor(Identifier(VertexBufferName(i)), kStructBufferName), Binary("/", pos, Uint(4)))
\* Mutant of AccessPrimitive: the bits are stored as they are read.
AccessWord(i, pos, t) == AccessU32(i, pos)

AccessPrimitive(i, pos, t) == IF Is(t, "u32") THEN AccessU32(i, pos) ELSE Bitcast(t, AccessU32(i, pos))
AccessVec(i, t, count) ==
  TypeConstructor(Vector(t, count),
    [c \in 1..count |-> AccessPrimitive(i, Binary("+", PullingPosition, Uint(4 * (c - 1))), t)])
\* A format is the type of what it is read as, whatever the variable's type is.
AccessByFormat(i, format) ==
  CASE is_scalar(format)         -> AccessPrimitive(i, PullingPosition, format)
    [] IsVectorOf(format, "f32") -> AccessVec(i, F32, format.n)
    [] OTHER                     -> Null

CreateVertexPullingPreamble(ctx) ==
  LET Pulled(a) == SelectInSeq(ctx.src.globals, LAMBDA v : ConvertToPrivate(v) # Null /\ v.decos.location = a.location)
      Read(i, a) ==
        IF Pulled(a) = 0 THEN <<>>
        ELSE <<Assignment(PullingPosition,
                 Binary("+", Binary("*", Identifier(IndexName(ctx.src, ctx.cfg.state[i].step)), Uint(ctx.cfg.state[i].stride)),
                        Uint(a.offset))),
               Assignment(Identifier(ctx.src.globals[Pulled(a)].n), AccessByFormat(i, a.format))>>
      Buffer(i) == FlattenSeq([j \in DOMAIN ctx.cfg.state[i].attributes |-> Read(i, ctx.cfg.state[i].attributes[j])])
  IN  Block(<<VariableDecl(Variable(kPullingPosVarName, "function", I32, FALSE, Null, NoDeco))>>
            \o FlattenSeq([i \in DOMAIN ctx.cfg.state |-> Buffer(i)]))

PullVertices(f, ctx) ==
  IF f.n # ctx.cfg.entry \/ f.stage # "vertex" THEN Null
  ELSE CloneWithStatementsAtStart(ctx, f, <<CreateVertexPullingPreamble(ctx)>>)

-----------------------------------------------------------------------------
(* What a transform puts in the place of a node, or Null.                   *)

Replacement(n, ctx) ==
  CASE ctx.transform = "bound_array_accessors" /\ Is(n, "index")    -> BoundArrayAccess(n, ctx)
    [] ctx.transform = "first_index_offset" /\ Is(n, "var")         -> RenameIndex(n, ctx)
    [] ctx.transform = "first_index_offset" /\ Is(n, "function")    -> OffsetIndices(n, ctx)
    [] ctx.transform = "emit_vertex_point_size" /\ Is(n, "function") -> SetPointSize(n, ctx)
    [] ctx.transform = "vertex_pulling" /\ Is(n, "var")             -> ConvertToPrivate(n)
    [] ctx.transform = "vertex_pulling" /\ Is(n, "function")        -> PullVertices(n, ctx)
    [] OTHER                                                        -> Null

Clone(n, ctx) ==
  IF n = Null THEN Null
  ELSE LET r == Replacement(n, ctx) IN IF r = Null THEN CloneNode(n, ctx) ELSE r

-----------------------------------------------------------------------------
(* The transforms *)

Context(name, m, cfg) == [transform |-> name, src |-> m, cfg |-> cfg]
NoConfig == [entry |-> "", state |-> <<>>]

BoundArrayAccessors(m) ==
  LET nodes == UNION {Nodes(m.functions[i]) : i \in DOMAIN m.functions}
  IN  Output(CloneModule(m, Context("bound_array_accessors", m, NoConfig), Empty), \E n \in nodes : BadIndex(n))

FirstIndexOffset(m) ==
  LET ctx == Context("first_index_offset", m, NoConfig)
      copy == CloneModule(m, ctx, Empty)
      buffer == AddUniformBuffer(m)
  IN  IF \E i \in DOMAIN m.globals : m.globals[i].n = kBufferName THEN Output(Empty, TRUE)
      ELSE IF m.functions = <<>> THEN Output(copy, FALSE)
      ELSE Output([copy EXCEPT !.globals = Append(@, buffer.var), !.types = Append(@, buffer.type)], FALSE)

EmitVertexPointSize(m) ==
  LET var == Variable(kPointSizeVar, "output", F32, FALSE, Null, [builtin |-> "pointsize"])
      ctx == Context("emit_vertex_point_size", m, NoConfig)
  IN  IF \E i \in DOMAIN m.functions : m.functions[i].stage = "vertex"
      THEN Output(CloneModule(m, ctx, [Empty EXCEPT !.globals = <<var>>]), FALSE)
      ELSE Output(CloneModule(m, Context("none", m, NoConfig), Empty), FALSE)

VertexPulling(m, cfg) ==
  LET entry == SelectInSeq(m.functions, LAMBDA f : f.n = cfg.entry /\ f.stage = "vertex")
      before == [Empty EXCEPT !.types = <<VertexData>>,
                              !.globals = InsertIndexIfUsed(m, cfg, "vertex_index")
                                          \o InsertIndexIfUsed(m, cfg, "instance_index")
                                          \o AddVertexStorageBuffers(cfg)]
  IN  IF cfg.state = <<>> \/ entry = 0 THEN Output(Empty, TRUE)
      ELSE Output(CloneModule(m, Context("vertex_pulling", m, cfg), before), FALSE)

RunTransform(name, m, cfg) ==
  CASE name = "bound_array_accessors"  -> BoundArrayAccessors(m)
    [] name = "first_index_offset"     -> FirstIndexOffset(m)
    [] name = "emit_vertex_point_size" -> EmitVertexPointSize(m)
    [] name = "vertex_pulling"         -> VertexPulling(m, cfg)
=============================================================================
