---------------------------- MODULE SpirvMachine ----------------------------
(***************************************************************************)
(* What a SPIR-V module of SpirvBuilder is: whether it keeps the rules of   *)
(* SPIR-V, and what it does when it is run, seen the way Meaning sees a     *)
(* program.  (Rules and meaning of SPIR-V are the ones of its               *)
(* specification: external to this code.)                                   *)
(***************************************************************************)
EXTENDS Meaning, FiniteSets

B == INSTANCE SpirvBuilder

-----------------------------------------------------------------------------
(* Blocks and the ids instructions use *)

Terminators == {"OpBranch", "OpBranchConditional", "OpSwitch", "OpReturn", "OpReturnValue", "OpKill"}
Merges == {"OpSelectionMerge", "OpLoopMerge"}
IsTerminator(ins) == ins.op \in Terminators

\* The blocks of a function by label, without the labels.
Blocks(f) ==
  LET starts == SelectSeq([i \in DOMAIN f.code |-> i], LAMBDA i : f.code[i].op = "OpLabel")
      End(j) == IF j = Len(starts) THEN Len(f.code) ELSE starts[j + 1] - 1
      At0(j) == f.code[starts[j]].args[1]
      Of(l) == CHOOSE j \in DOMAIN starts : At0(j) = l
  IN  [l \in {At0(j) : j \in DOMAIN starts} |-> SubSeq(f.code, starts[Of(l)] + 1, End(Of(l)))]
Entry(f) == f.code[1].args[1]

Targets(ins) ==
  CASE ins.op = "OpBranch"            -> {ins.args[1]}
    [] ins.op = "OpBranchConditional" -> {ins.args[2], ins.args[3]}
    [] ins.op = "OpSwitch"            -> {ins.args[2]} \cup {ins.args[i][2] : i \in 3..Len(ins.args)}
    [] OTHER                          -> {}
Successors(block) == IF block = <<>> THEN {} ELSE Targets(Last(block))

\* The blocks reached from the entry without going through one of avoid.
RECURSIVE Spread(_, _, _)
Spread(blocks, seen, avoid) ==
  LET next == (UNION {Successors(blocks[l]) : l \in seen} \cap DOMAIN blocks) \ avoid
  IN  IF next \subseteq seen THEN seen ELSE Spread(blocks, seen \cup next, avoid)
Reached(f, blocks, avoid) == IF Entry(f) \in avoid THEN {} ELSE Spread(blocks, {Entry(f)}, avoid)

IdsAt(ins, where) == {ins.args[i] : i \in where \cap DOMAIN ins.args}
Uses(ins) ==
  CASE ins.op \in {"OpType", "OpConstant", "OpConstantNull", "OpLabel", "OpBranch", "OpReturn", "OpKill"} \cup Merges -> {}
    [] ins.op \in {"OpTypePointer", "OpVariable"} -> IdsAt(ins, {2}) \ {0}
    [] ins.op = "OpSpecConstantOp"      -> IdsAt(ins, {2, 3})
    [] ins.op = "OpVectorShuffle"       -> IdsAt(ins, {1, 2})
    [] ins.op \in {"OpTypeVector", "OpTypeMatrix", "OpTypeImage", "OpCompositeExtract", "OpArrayLength",
                   "OpBranchConditional", "OpSwitch"} -> IdsAt(ins, {1})
    [] ins.op \in {"OpExtInst", "OpFunctionCall"} -> IdsAt(ins, 2..Len(ins.args))
    [] ins.op = "OpPhi"                 -> {}
    [] ins.op \in {"OpImageSampleImplicitLod", "OpImageSampleExplicitLod", "OpImageFetch", "OpImageRead"} ->
         IdsAt(ins, {1, 2}) \cup {ins.args[i][2] : i \in 3..Len(ins.args)}
    [] ins.op = "OpImageSampleDrefExplicitLod" -> IdsAt(ins, {1, 2, 3}) \cup {ins.args[i][2] : i \in 4..Len(ins.args)}
    [] OTHER                            -> IdsAt(ins, DOMAIN ins.args)
UsesTyped(ins) == Uses(ins) \cup ({ins.ty} \ {0})

-----------------------------------------------------------------------------
(* The rules *)

Defined(code) == {code[i].id : i \in DOMAIN code} \ {0}

\* One terminator in each block, at its end, after its merge if it has one.
BlocksEnd(f) ==
  LET blocks == Blocks(f)
      labels == {i \in DOMAIN f.code : f.code[i].op = "OpLabel"}
      Ends(b) == /\ b # <<>>
                 /\ \A i \in DOMAIN b : IsTerminator(b[i]) <=> i = Len(b)
                 /\ \A i \in DOMAIN b : b[i].op \in Merges => i = Len(b) - 1
  IN  /\ Cardinality(DOMAIN blocks) = Cardinality(labels)
      /\ \A l \in DOMAIN blocks : Ends(blocks[l]) /\ Successors(blocks[l]) \subseteq DOMAIN blocks \ {Entry(f)}

\* What an instruction uses has been computed on every path to it.
UsesAreDominated(f, globals) ==
  LET blocks == Blocks(f)
      known == globals \cup {f.params[i].id : i \in DOMAIN f.params}
      reached == Reached(f, blocks, {})
      Dominators(l) == {d \in reached : l \notin Reached(f, blocks, {d})}
      Before(l) == UNION {Defined(blocks[d]) : d \in Dominators(l) \ {l}}
      Parents(l) == {p \in DOMAIN blocks : l \in Successors(blocks[p])}
      PhiFits(l, phi) ==
        /\ {phi.args[i][2] : i \in DOMAIN phi.args} = Parents(l)
        /\ \A i \in DOMAIN phi.args :
             phi.args[i][1] \in known \cup Before(phi.args[i][2]) \cup Defined(blocks[phi.args[i][2]])
  IN  \A l \in reached : \A i \in DOMAIN blocks[l] :
        LET ins == blocks[l][i]
        IN  IF ins.op = "OpPhi" THEN PhiFits(l, ins)
            ELSE UsesTyped(ins) \subseteq known \cup Before(l) \cup Defined(SubSeq(blocks[l], 1, i - 1))

\* Types and constants are declared before what uses them, each id once.
DeclaredInOrder(types) ==
  \A i \in DOMAIN types : UsesTyped(types[i]) \subseteq Defined(SubSeq(types, 1, i - 1))
Unique(code) == \A i, j \in DOMAIN code : (code[i].id = code[j].id /\ code[i].id # 0) => i = j

\* The functions an entry point reaches, by id.
RECURSIVE Calls(_, _)
Calls(b, id) ==
  LET f == b.functions[SelectInSeq(b.functions, LAMBDA x : x.id = id)]
      called == {f.code[i].args[1] : i \in {j \in DOMAIN f.code : f.code[j].op = "OpFunctionCall"}}
  IN  {f} \cup UNION {Calls(b, c) : c \in called}

UsedBy(b, id) == UNION {UNION {Uses(f.code[i]) : i \in DOMAIN f.code} : f \in Calls(b, id)}
InterfaceIsComplete(b) ==
  \A i \in DOMAIN b.entry_points : \A j \in DOMAIN b.types :
    LET v == b.types[j]
    IN  (v.op = "OpVariable" /\ v.args[1] \in {"input", "output"} /\ v.id \in UsedBy(b, b.entry_points[i].id))
          => v.id \in b.entry_points[i].interface

Instructions(b) == FlattenSeq(<<b.types>> \o [i \in DOMAIN b.functions |-> b.functions[i].params \o b.functions[i].code])
\* A module with its instructions by id.
Indexed(b) ==
  b @@ [definitions |-> FoldLeft(LAMBDA d, ins : (ins.id :> ins) @@ d, <<>>, Instructions(b))]

\* What is stored and loaded has the type the pointer points to, and integer operations
\* have no boolean operands; types are compared by id.
TypesMatch(b) ==
  LET defs == Indexed(b).definitions
      PointsTo(id) == defs[defs[id].ty].args[2]
      Scalars(id) == LET t == defs[id] IN IF t.op = "OpTypeVector" THEN defs[t.args[1]].args ELSE t.args
      Matches(ins) ==
        CASE ins.op = "OpStore" -> PointsTo(ins.args[1]) = defs[ins.args[2]].ty
          [] ins.op = "OpLoad"  -> PointsTo(ins.args[1]) = ins.ty
          [] ins.op \in {"OpIEqual", "OpINotEqual", "OpBitwiseAnd", "OpBitwiseOr"} ->
               \A i \in {1, 2} : Scalars(defs[ins.args[i]].ty) # <<"bool">>
          [] OTHER -> TRUE
  IN  \A i \in DOMAIN Instructions(b) : Matches(Instructions(b)[i])

IsWellFormed(b) ==
  /\ DeclaredInOrder(b.types)
  /\ Unique(Instructions(b))
  /\ \A i \in DOMAIN b.functions : BlocksEnd(b.functions[i]) /\ UsesAreDominated(b.functions[i], Defined(b.types))
  /\ TypesMatch(b)
  /\ InterfaceIsComplete(b)

-----------------------------------------------------------------------------
(* Running it: st has the value of every id computed so far in "vals"; a    *)
(* pointer is a location and a path.                                        *)

RECURSIVE TypeOf(_, _)
TypeOf(b, id) ==
  LET ins == b.definitions[id]
      Part(i) == TypeOf(b, ins.args[i])
  IN  CASE ins.op = "OpType"             -> [k |-> ins.args[1]]
        [] ins.op = "OpTypeVector"       -> Vector(Part(1), ins.args[2])
        [] ins.op = "OpTypeMatrix"       -> Matrix(Part(1).of, Part(1).n, ins.args[2])
        [] ins.op = "OpTypeArray"        -> Array(Part(1), b.definitions[ins.args[2]].args[1])
        [] ins.op = "OpTypeRuntimeArray" -> Array(Part(1), 0)
        [] ins.op = "OpTypeStruct"       -> Struct("", [i \in DOMAIN ins.args |-> [n |-> i, ty |-> Part(i)]], FALSE)
        [] ins.op = "OpTypePointer"      -> Pointer(Part(2), ins.args[1])
        [] ins.op = "OpTypeImage"        -> [k |-> "texture", class |-> ins.args[2], dim |-> ins.args[3], of |-> Part(1)]
        [] OTHER                         -> [k |-> "sampler"]   \* an image with its sampler, taken as a whole

\* The type of the value an id stands for.
ValueType(b, id) == TypeOf(b, b.definitions[id].ty)

Give(st, id, v) == [st EXCEPT !.vals = (id :> v) @@ @]

\* The symbol whose operation an opcode is.
Symbols == {"+", "-", "==", "!=", "<", ">", "<=", ">=", "/", "&", "|"}
SymbolsOf(op) == {s \in Symbols : \E i \in 1..3 : B!Operators[s][i] = op}
Products == {"OpIMul", "OpFMul", "OpVectorTimesScalar", "OpMatrixTimesScalar", "OpVectorTimesMatrix",
             "OpMatrixTimesVector", "OpMatrixTimesMatrix"}
UnsignedOps == {"OpUDiv", "OpUMod", "OpULessThan", "OpUGreaterThan", "OpULessThanEqual", "OpUGreaterThanEqual"}
SignedOps == {"OpSDiv", "OpSMod", "OpSLessThan", "OpSGreaterThan", "OpSLessThanEqual", "OpSGreaterThanEqual"}

\* An operand as an operation that minds the sign takes it.
Taken(op, v) ==
  LET One(x) == IF op \in UnsignedOps THEN Wrap(U32, x) ELSE IF op \in SignedOps THEN Wrap(I32, x) ELSE x
  IN  IF IsNumber(v) THEN One(v) ELSE [i \in DOMAIN v |-> One(v[i])]

\* Parts of a value along indices, from the end of a pointer on.
Follow(st, ref, indices) ==
  FoldLeft(LAMBDA s, i : LET n == Len(At(s.mem[s.ref[1]], s.ref[2]))
                         IN  [Bounded(s, i, n) EXCEPT !.ref[2] = Append(@, Clamped(i, n))],
           [st EXCEPT !.ref = ref], indices)

\* What a query of the size of an image yields: a cube has no depth, layers come last.
RawSize(image, level) ==
  LET extent == Extent(image.dim, level)
      size == (IF image.dim \in {"cube", "cube_array"} THEN SubSeq(extent, 1, 2) ELSE extent)
              \o (IF B!Arrayed(image) THEN <<Layers>> ELSE <<>>)
  IN  IF Len(size) = 1 THEN size[1] ELSE size

\* What is seen of an image instruction: which intrinsic it is, and its arguments by role.
RoleOf == [Lod |-> "level", Sample |-> "sample_index", Bias |-> "bias", ConstOffset |-> "offset"]

ImageEvent(b, ins, st) ==
  LET V(i) == st.vals[ins.args[i]]
      sampled == ins.op \notin {"OpImageFetch", "OpImageRead", "OpImageWrite"}
      image == IF sampled THEN V(1)[1] ELSE V(1)
      type == image[2]
      compares == ins.op = "OpImageSampleDrefExplicitLod"
      first == IF ins.op = "OpImageWrite" \/ compares THEN 4 ELSE 3
      operands == [i \in first..Len(ins.args) |-> ins.args[i]]
      masks == {operands[i][1] : i \in DOMAIN operands}
      f == CASE ins.op = "OpImageWrite" -> "textureStore"
             [] ~sampled                -> "textureLoad"
             [] compares                -> "textureSampleCompare"
             [] "Bias" \in masks        -> "textureSampleBias"
             [] "Lod" \in masks         -> "textureSampleLevel"
             [] "Grad" \in masks        -> "textureSampleGrad"
             [] OTHER                   -> "textureSample"
      packed == B!Arrayed(type)
      scalar(v) == IF Len(v) = 1 THEN v[1] ELSE v
      coords == IF packed THEN {<<"coords", scalar(Front(V(2)))>>, <<"array_index", Last(V(2))>>} ELSE {<<"coords", V(2)>>}
      Role(i) == IF operands[i][1] # "Grad" THEN RoleOf[operands[i][1]]
                 ELSE IF \E j \in first..(i - 1) : operands[j][1] = "Grad" THEN "ddy" ELSE "ddx"
      Shown(i) == <<Role(i), st.vals[operands[i][2]]>>
  IN  <<f, {<<"texture", image[1]>>} \cup coords
           \cup (IF sampled THEN {<<"sampler", V(1)[2][1]>>} ELSE {})
           \cup (IF ins.op = "OpImageWrite" THEN {<<"value", V(3)>>} ELSE IF compares THEN {<<"depth_ref", V(3)>>} ELSE {})
           \cup {Shown(i) : i \in {j \in DOMAIN operands : ~(compares /\ operands[j][1] = "Lod")}}>>

\* The value of an instruction of the types section.
Declared(b, st, ins) ==
  LET t == TypeOf(b, ins.ty)
      V(i) == st.vals[ins.args[i]]
  IN  CASE ins.op = "OpConstant"       -> Give(st, ins.id, ins.args[1])
        [] ins.op = "OpSpecConstant"   -> Give(st, ins.id, ins.args[1])
        [] ins.op = "OpConstantNull"   -> Give(st, ins.id, Zero(t))
        [] ins.op = "OpSpecConstantOp" -> Give(st, ins.id, V(2)[V(3) + 1])
        [] ins.op \in {"OpConstantComposite", "OpSpecConstantComposite"} -> Give(st, ins.id, [i \in DOMAIN ins.args |-> V(i)])
        [] OTHER                       -> st

\* A module variable gets the value the run gives it, its initializer, or zero.
NameOf(b, id) == CHOOSE n \in DOMAIN b.scopes[1] : b.scopes[1][n] = id
ModuleVariable(b, st, ins, env) ==
  LET t == TypeOf(b, ins.ty).of
      n == NameOf(b, ins.id)
      v == CASE n \in DOMAIN env   -> env[n]
             [] t.k \in {"texture", "sampler"} -> <<n, t>>
             [] ins.args[2] # 0    -> st.vals[ins.args[2]]
             [] OTHER              -> Zero(t)
      loc == Len(st.mem) + 1
      s == Give([st EXCEPT !.mem = Append(@, v)], ins.id, <<loc, <<>>>>)
  IN  IF ins.args[1] \in {"private", "storage", "workgroup"} THEN [s EXCEPT !.observed = (loc :> n) @@ @]
      ELSE IF ins.args[1] = "output" THEN [s EXCEPT !.outputs = (loc :> n) @@ @] ELSE s

RECURSIVE Load(_, _, _, _)
Load(b, types, st, env) ==
  IF types = <<>> \/ ~Goes(st) THEN st
  ELSE Load(b, Tail(types),
            IF Head(types).op = "OpVariable" THEN ModuleVariable(b, st, Head(types), env) ELSE Declared(b, st, Head(types)), env)

RECURSIVE RunFunction(_, _, _), RunBlock(_, _, _, _, _), Steps(_, _, _, _)

\* What an instruction computes from the values of its operands, if that is all it does.
Computed(b, st, ins) ==
  LET V(i) == st.vals[ins.args[i]]
      T(i) == UnwrapAll(ValueType(b, ins.args[i]))
      t == TypeOf(b, ins.ty)
  IN  CASE SymbolsOf(ins.op) # {} ->
             Combined(CHOOSE s \in SymbolsOf(ins.op) : TRUE, t, T(2), Taken(ins.op, V(1)), Taken(ins.op, V(2)))
        [] ins.op \in Products -> Combined("*", T(1), T(2), V(1), V(2))
        [] ins.op \in {"OpFNegate", "OpSNegate"} -> Negated("-", t, V(1))
        [] ins.op = "OpLogicalNot"       -> Negated("!", t, V(1))
        [] ins.op \in {"OpConvertSToF", "OpConvertUToF", "OpConvertFToS", "OpConvertFToU", "OpBitcast"} ->
             Converted(t, T(1), V(1))
        [] ins.op = "OpCopyObject"       -> V(1)
        [] ins.op = "OpCompositeExtract" -> V(1)[ins.args[2] + 1]
        [] ins.op = "OpVectorShuffle"    -> [i \in DOMAIN ins.args[3] |-> V(1)[ins.args[3][i] + 1]]
        [] ins.op = "OpCompositeConstruct" -> [i \in DOMAIN ins.args |-> V(i)]
        [] ins.op = "OpSelect"           -> IF V(1) = 1 THEN V(2) ELSE V(3)
        [] ins.op = "OpExtInst"          -> Intrinsic(ins.args[1][1], [i \in 1..(Len(ins.args) - 1) |-> V(i + 1)], <<t>>)
        [] ins.op = "OpDot"              -> Dot(t, V(1), V(2))
        [] ins.op \in {"OpAny", "OpAll"} -> Intrinsic(IF ins.op = "OpAny" THEN "any" ELSE "all", <<V(1)>>, <<t>>)
        [] ins.op = "OpSampledImage"     -> <<V(1), V(2)>>
        [] ins.op = "OpImageQuerySize"    -> RawSize(V(1)[2], 0)
        [] ins.op = "OpImageQuerySizeLod" -> RawSize(V(1)[2], V(2))
        [] ins.op = "OpImageQueryLevels" -> Queried("textureNumLevels", V(1)[2], 0)
        [] ins.op = "OpImageQuerySamples" -> Queried("textureNumSamples", V(1)[2], 0)

\* One instruction of a block; from: the block before it.
Step(b, st, ins, from) ==
  LET V(i) == st.vals[ins.args[i]]
      Indices == [i \in 1..(Len(ins.args) - 1) |-> V(i + 1)]
      Result(s) == IF Goes(s) THEN Give(s, ins.id, s.v) ELSE s
  IN  CASE IsTerminator(ins) \/ ins.op \in Merges -> st
        [] ins.op = "OpVariable"    ->
             Give([st EXCEPT !.mem = Append(@, V(2))], ins.id, <<Len(st.mem) + 1, <<>>>>)
        [] ins.op = "OpLoad"        -> Result(Read([st EXCEPT !.ref = V(1)]))
        [] ins.op = "OpStore"       -> Write(st, V(1), V(2))
        [] ins.op = "OpAccessChain" -> LET s == Follow(st, V(1), Indices) IN Give(s, ins.id, s.ref)
        [] ins.op = "OpVectorExtractDynamic" ->
             Result(Yield(Bounded(st, V(2), Len(V(1))), V(1)[Clamped(V(2), Len(V(1)))]))
        [] ins.op = "OpArrayLength" -> Result(Yield(st, Len(At(st.mem[V(1)[1]], V(1)[2])[ins.args[2] + 1])))
        [] ins.op = "OpPhi"         ->
             LET i == SelectInSeq(ins.args, LAMBDA a : a[2] = from) IN Result(Yield(st, st.vals[ins.args[i][1]]))
        [] ins.op = "OpFunctionCall" ->
             LET f == b.functions[SelectInSeq(b.functions, LAMBDA x : x.id = ins.args[1])]
                 given == FoldLeft(LAMBDA s, i : Give(s, f.params[i].id, V(i + 1)), st, [i \in DOMAIN f.params |-> i])
             IN  Result(RunFunction(b, f, given))
        [] ins.op = "OpImageWrite"  -> Observe(st, ImageEvent(b, ins, st))
        [] ins.op \in {"OpImageSampleImplicitLod", "OpImageSampleExplicitLod", "OpImageSampleDrefExplicitLod",
                       "OpImageFetch", "OpImageRead"} ->
             Result(Yield(Observe(st, ImageEvent(b, ins, st)), Zero(TypeOf(b, ins.ty))))
        [] OTHER                    -> Result(Checked(TypeOf(b, ins.ty), Yield(st, Computed(b, st, ins))))

Steps(b, st, instructions, from) ==
  IF instructions = <<>> \/ ~Goes(st) THEN st
  ELSE Steps(b, Step(b, st, Head(instructions), from), Tail(instructions), from)

RunFunction(b, f, st) ==
  LET s == RunBlock(b, Blocks(f), Entry(f), 0, st) IN [s EXCEPT !.sig = IF @ = "return" THEN "next" ELSE @]

\* Where a block that has come to its end goes on.
BranchFrom(b, blocks, l, last, s) ==
  LET To(x) == RunBlock(b, blocks, x, l, s)
  IN  CASE ~Goes(s)                -> s
        [] last.op = "OpBranch"    -> To(last.args[1])
        [] last.op = "OpBranchConditional" -> To(IF s.vals[last.args[1]] = 1 THEN last.args[2] ELSE last.args[3])
        [] last.op = "OpSwitch"    ->
             LET hit == {i \in 3..Len(last.args) : last.args[i][1] = s.vals[last.args[1]]}
             IN  To(IF hit = {} THEN last.args[2] ELSE last.args[CHOOSE i \in hit : TRUE][2])
        [] last.op = "OpKill"      -> Stop(s, "discard")
        [] last.op = "OpReturn"    -> Stop(s, "return")
        [] OTHER                   -> Stop(Yield(s, s.vals[last.args[1]]), "return")

\* A loop is entered at its header as often as there are iterations left.
AtHeader(block, st) ==
  IF \A i \in DOMAIN block : block[i].op # "OpLoopMerge" THEN st
  ELSE IF st.left = 0 THEN Stop(st, "cut") ELSE [st EXCEPT !.left = @ - 1]

RunBlock(b, blocks, l, from, st) ==
  BranchFrom(b, blocks, l, Last(blocks[l]), Steps(b, AtHeader(blocks[l], st), blocks[l], from))

Run(module, n, env, bits, iterations) ==
  LET b == Indexed(module)
      f == b.functions[SelectInSeq(b.functions, LAMBDA x : x.n = n)]
      start == Load(b, b.types, [vals |-> <<>>] @@ Begin(<<>>, bits, iterations), env)
  IN  Seen(RunFunction(b, f, start))
=============================================================================
