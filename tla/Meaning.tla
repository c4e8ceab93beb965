------------------------------ MODULE Meaning ------------------------------
(***************************************************************************)
(* What a program does when it is run: the reference the outputs of the     *)
(* compiler are compared with.                                              *)
(*                                                                          *)
(* A variable of the module is memory that others write, too: each read of  *)
(* a scalar of it yields the next of the bits the run is given, and reads   *)
(* and writes are observed, in order.  So two texts that do the same        *)
(* accesses with the same values, under all bits, do the same.  Inputs and  *)
(* uniforms have the values the run is given, outputs are seen at its end.  *)
(* A call of a texture intrinsic is observed with its arguments, by role.   *)
(* The run ends when no bits or no iterations of loops are left.            *)
(*                                                                          *)
(* The same definitions run the C-like texts of the HLSL and MSL writers,   *)
(* which have some forms of their own: a switch that goes on to the next    *)
(* case, a declaration that leaves its variable undefined, an assignment    *)
(* to a variable declared in an outer scope of the text only, a parameter   *)
(* that is passed by reference or copied out, and an access to a buffer of  *)
(* bytes at an offset.                                                      *)
(***************************************************************************)
EXTENDS Ast, Integers

CONSTANT Width   \* bits of an integer

ASSUME WidthAssumption == Width \in Nat \ {0, 1}

CSwitch(c, cases) == [k |-> "cswitch", c |-> c, cases |-> cases]
Undefined(v) == [k |-> "undefined", v |-> v]
\* terms: what the offset is the sum of, each a number times an expression.
BufferAccess(n, of, terms, rt) == [k |-> "buffer", n |-> n, of |-> of, terms |-> terms, rt |-> rt]
\* The type of a buffer of bytes that are a value of type t: its name stands for no value.
ByteAddressBuffer(t) == [k |-> "bytes", of |-> t]

-----------------------------------------------------------------------------
(* Values: integers, with 0 and 1 for booleans; composites are sequences.   *)

Modulus == 2 ^ Width
Signed(x) == ((x + Modulus \div 2) % Modulus) - Modulus \div 2
Wrap(t, x) == IF Is(t, "u32") THEN x % Modulus ELSE IF Is(t, "i32") THEN Signed(x) ELSE x

RECURSIVE Filled(_, _)
Filled(t, x) ==
  CASE is_scalar(t)    -> x
    [] t.k \in {"alias", "bytes"} -> Filled(t.of, x)
    [] Is(t, "void")   -> 0
    [] OTHER           -> [i \in 1..PartCount(t) |-> Filled(PartType(t, i), x)]
Zero(t) == Filled(t, 0)
Junk == 1000000

Bit(p) == IF p THEN 1 ELSE 0

Scalar(op, t, a, b) ==
  CASE op = "+"  -> Wrap(t, a + b)
    [] op = "-"  -> Wrap(t, a - b)
    [] op = "*"  -> Wrap(t, a * b)
    [] op = "/"  -> a \div b
    [] op \in {"&", "&&"} -> IF a = 0 THEN 0 ELSE b
    [] op \in {"|", "||"} -> IF a = 0 THEN b ELSE a
    [] op = "<"  -> Bit(a < b)
    [] op = ">"  -> Bit(a > b)
    [] op = "<=" -> Bit(a <= b)
    [] op = ">=" -> Bit(a >= b)
    [] op = "==" -> Bit(a = b)
    [] op = "!=" -> Bit(a # b)

\* Products with a matrix, a sequence of columns.
Dot(t, a, b) == FoldLeft(LAMBDA sum, i : Wrap(t, sum + a[i] * b[i]), 0, [i \in DOMAIN a |-> i])
MatrixTimesVector(m, t, v) == [row \in 1..m.rows |-> Dot(m.of, [c \in 1..m.n |-> t[c][row]], v)]
VectorTimesMatrix(v, m, t) == [c \in 1..m.n |-> Dot(m.of, v, t[c])]
Product(l, r, a, b) ==
  CASE Is(l, "mat") /\ Is(r, "mat") -> [c \in 1..r.n |-> MatrixTimesVector(l, a, b[c])]
    [] Is(l, "mat") /\ Is(r, "vec") -> MatrixTimesVector(l, a, b)
    [] Is(l, "vec") /\ Is(r, "mat") -> VectorTimesMatrix(a, r, b)
    [] Is(l, "mat") -> [c \in 1..l.n |-> [row \in 1..l.rows |-> Wrap(l.of, a[c][row] * b)]]
    [] OTHER        -> [c \in 1..r.n |-> [row \in 1..r.rows |-> Wrap(r.of, a * b[c][row])]]

\* A binary operator on scalars, on vectors, or on a vector and a scalar.
Combined(op, lt, rt, a, b) ==
  LET l == UnwrapAll(lt)  r == UnwrapAll(rt)
  IN  CASE op = "mul"                     -> Product(r, l, b, a)   \* of matrices kept by rows
        [] Is(l, "mat") \/ Is(r, "mat")   -> Product(l, r, a, b)
        [] Is(l, "vec") /\ Is(r, "vec") -> [i \in DOMAIN a |-> Scalar(op, l.of, a[i], b[i])]
        [] Is(l, "vec")                 -> [i \in DOMAIN a |-> Scalar(op, l.of, a[i], b)]
        [] Is(r, "vec")                 -> [i \in DOMAIN b |-> Scalar(op, l, a, b[i])]
        [] OTHER                        -> Scalar(op, l, a, b)

Negated(op, t, a) ==
  LET One(x) == IF op = "!" THEN 1 - x ELSE IF Is(t, "vec") THEN Wrap(t.of, -x) ELSE Wrap(t, -x)
  IN  IF Is(t, "vec") THEN [i \in DOMAIN a |-> One(a[i])] ELSE One(a)

\* A number can be told from a sequence by the way it is written.
NumberTexts == {ToString(i) : i \in (-99..99) \cup {Junk}}
IsNumber(v) == ToString(v) \in NumberTexts

\* v has the shape of the values of type t.
RECURSIVE Fits(_, _)
Fits(t, v) ==
  CASE Is(t, "void") -> TRUE
    [] Is(t, "bool") -> IsNumber(v) /\ v \in {0, 1}
    [] is_scalar(t)  -> IsNumber(v)
    [] Is(t, "alias") -> Fits(t.of, v)
    [] Is(t, "texture") \/ Is(t, "sampler") -> TRUE
    [] OTHER -> /\ ~IsNumber(v)
                /\ IsRuntimeArray(t) \/ Len(v) = PartCount(t)
                /\ \A i \in DOMAIN v : Fits(PartType(t, i), v[i])

\* A value of type f as one of type t, in a constructor or a bitcast.
RECURSIVE Converted(_, _, _)
Converted(t, f, x) ==
  CASE Is(t, "vec")  -> [i \in 1..t.n |-> Converted(t.of, f.of, x[i])]
    [] Is(t, "bool") -> Bit(x # 0)
    [] OTHER         -> Wrap(t, x)

Swizzle == [x |-> <<1>>, y |-> <<2>>, xy |-> <<1, 2>>, yx |-> <<2, 1>>]

-----------------------------------------------------------------------------
(* Runs *)

\* sig: why the next statement is not run, or "next"; v: the value of the last
\* expression; ref: location and path of the last reference; observed: the names
\* of the module variables that others write, by location.
Begin(functions, bits, iterations) ==
  [sig |-> "next", v |-> 0, ref |-> <<>>, mem |-> <<>>, scopes |-> <<>>, observed |-> <<>>,
   trace |-> <<>>, bits |-> bits, left |-> iterations, outputs |-> <<>>,
   functions |-> functions]

Goes(st) == st.sig = "next"
Observe(st, event) == IF Goes(st) THEN [st EXCEPT !.trace = Append(@, event)] ELSE st
Then(st, Rest(_)) == IF Goes(st) THEN Rest(st) ELSE st
Stop(st, sig) == IF Goes(st) THEN [st EXCEPT !.sig = sig] ELSE st
Yield(st, v) == [st EXCEPT !.v = v]

\* A name gets a location of its own in the innermost scope.
Bind(st, n, v) ==
  [st EXCEPT !.mem = Append(@, v), !.scopes = Front(@) \o <<(n :> Len(st.mem) + 1) @@ Last(st.scopes)>>]
Location(st, n) ==
  LET i == SelectLastInSeq(st.scopes, LAMBDA s : n \in DOMAIN s) IN st.scopes[i][n]
IsKnown(st, n) == \E i \in DOMAIN st.scopes : n \in DOMAIN st.scopes[i]

RECURSIVE At(_, _)
At(v, path) == IF path = <<>> THEN v ELSE At(v[Head(path)], Tail(path))
RECURSIVE Updated(_, _, _)
Updated(v, path, x) ==
  IF path = <<>> THEN x ELSE [v EXCEPT ![Head(path)] = Updated(@, Tail(path), x)]

IsObserved(st, loc) == loc \in DOMAIN st.observed

\* The value of a reference: of a variable that others write, scalar by scalar.
RECURSIVE Fetched(_, _, _)
Fetched(st, path, v) ==
  LET name == st.observed[st.ref[1]]
      Part(s, i) == LET r == Fetched(s, Append(path, i), v[i]) IN Yield(r, Append(s.v, r.v))
  IN  IF ~Goes(st) THEN st
      ELSE IF ~IsNumber(v) THEN FoldLeft(Part, Yield(st, <<>>), [i \in DOMAIN v |-> i])
      ELSE IF st.bits = <<>> THEN Stop(st, "cut")
      ELSE [Observe(st, <<"read", name, path>>) EXCEPT !.v = Head(st.bits), !.bits = Tail(@)]

Read(st) ==
  LET v == At(st.mem[st.ref[1]], st.ref[2])
  IN  IF ~Goes(st) THEN st
      ELSE IF IsObserved(st, st.ref[1]) THEN Fetched(st, st.ref[2], v)
      ELSE Yield(IF IsNumber(v) /\ v = Junk THEN Observe(st, <<"junk">>) ELSE st, v)

RECURSIVE Sent(_, _, _, _)
Sent(st, name, path, v) ==
  IF IsNumber(v) THEN Observe(st, <<"write", name, path, v>>)
  ELSE FoldLeft(LAMBDA s, i : Sent(s, name, Append(path, i), v[i]), st, [i \in DOMAIN v |-> i])

Write(st, ref, v) ==
  IF ~Goes(st) THEN st
  ELSE IF IsObserved(st, ref[1]) THEN Sent(st, st.observed[ref[1]], ref[2], v)
  ELSE [st EXCEPT !.mem[ref[1]] = Updated(@, ref[2], v)]

\* Part number i of a composite with n parts: outside of it is an event of its own.
InBounds(i, n) == i \in 0..(n - 1)
Bounded(st, i, n) == IF InBounds(i, n) THEN st ELSE Observe(st, <<"out of bounds">>)
Clamped(i, n) == IF InBounds(i, n) THEN i + 1 ELSE 1

\* The parts an accessor selects; a text can name a member that is none.
IsMember(e) == Is(UnwrapAll(e.e.rt), "struct")
Fields(e) == IF IsMember(e) THEN <<MemberIndex(UnwrapAll(e.e.rt), e.m)>>
             ELSE IF e.m \in DOMAIN Swizzle THEN Swizzle[e.m] ELSE <<0>>
Selects(e, st) == IF Fields(e) = <<0>> THEN Stop(st, "unknown name") ELSE st

RECURSIVE IsPlace(_)
IsPlace(e) ==
  CASE Is(e, "id")     -> TRUE
    [] Is(e, "member") -> IsPlace(e.e) /\ Len(Fields(e)) = 1
    [] Is(e, "index")  -> IsPlace(e.e)
    [] OTHER           -> Is(e, "buffer")

\* Where in a value of type t the one of type rt at a byte offset is; out of a
\* runtime array it is an event.
Stride(t) == IF Is(t, "mat") THEN (IF t.rows = 2 THEN 8 ELSE 16) ELSE IF Is(t, "vec") THEN 4 ELSE t.stride
RECURSIVE PathAt(_, _, _)
PathAt(t, offset, rt) ==
  LET member == SelectLastInSeq(t.members, LAMBDA m : m.off <= offset)
      part == offset \div Stride(t)
  IN  IF Is(t, "alias") THEN PathAt(t.of, offset, rt)
      ELSE IF t = rt \/ is_scalar(t) THEN <<>>
      ELSE IF Is(t, "struct") THEN <<member>> \o PathAt(t.members[member].ty, offset - t.members[member].off, rt)
      ELSE <<part + 1>> \o PathAt(PartType(t, 1), offset % Stride(t), rt)

\* Whether v has a part at the end of path.
RECURSIVE HasPart(_, _)
HasPart(v, path) == path = <<>> \/ (Head(path) \in DOMAIN v /\ HasPart(v[Head(path)], Tail(path)))

RECURSIVE Eval(_, _), Place(_, _), EvalAll(_, _), ExecAll(_, _)

\* The values of es, from left to right, as a sequence.
EvalAll(es, st) ==
  IF es = <<>> THEN Yield(st, <<>>)
  ELSE Then(EvalAll(Front(es), st),
            LAMBDA before : Then(Eval(Last(es), before), LAMBDA s : Yield(s, Append(before.v, s.v))))

\* The part at i of the reference of st.
PartAt(st, ref, n) == [Bounded(st, st.v, n) EXCEPT !.ref = <<ref[1], Append(ref[2], Clamped(st.v, n))>>]

\* The place of a value of type rt at a byte offset of the buffer called n.
AtOffset(loc, path, st) ==
  IF HasPart(st.mem[loc], path) THEN [st EXCEPT !.ref = <<loc, path>>]
  ELSE Stop(Observe(st, <<"out of bounds">>), "out of bounds")
Offset(terms, vs) == FoldLeft(LAMBDA sum, i : sum + terms[i].times * vs[i], 0, [i \in DOMAIN terms |-> i])

\* The reference an expression stands for.
Place(e, st) ==
  CASE Is(e, "id") /\ ~IsKnown(st, e.n)         -> Stop(st, "unknown name")
    [] Is(e, "id") /\ Is(UnwrapAll(e.rt), "bytes") -> Stop(st, "ill typed")
    [] Is(e, "id")     -> [st EXCEPT !.ref = <<Location(st, e.n), <<>>>>]
    [] Is(e, "member") -> Then(Selects(e, Place(e.e, st)), LAMBDA s : [s EXCEPT !.ref[2] = @ \o Fields(e)])
    [] Is(e, "index")  ->
         Then(Place(e.e, st),
              LAMBDA s : Then(Eval(e.i, s), LAMBDA i : PartAt(i, s.ref, Len(At(s.mem[s.ref[1]], s.ref[2])))))
    [] Is(e, "buffer") ->
         Then(EvalAll([i \in DOMAIN e.terms |-> e.terms[i].e], st),
              LAMBDA s : AtOffset(Location(st, e.n), PathAt(e.of, Offset(e.terms, s.v), UnwrapAll(e.rt)), s))

Intrinsic(f, args, ts) ==
  LET t == UnwrapAll(ts[1])
      Each(Op(_, _), a, b) == IF Is(t, "vec") THEN [i \in DOMAIN a |-> Op(a[i], b[i])] ELSE Op(a, b)
      Lesser(a, b) == IF a < b THEN a ELSE b
      Greater(a, b) == IF a < b THEN b ELSE a
  IN  CASE f = "min"    -> Each(Lesser, args[1], args[2])
        [] f = "max"    -> Each(Greater, args[1], args[2])
        [] f = "clamp"  -> Each(Lesser, Each(Greater, args[1], args[2]), args[3])
        [] f = "select" -> IF args[3] = 1 THEN args[1] ELSE args[2]
        [] f = "dot"    -> Dot(t.of, args[1], args[2])
        [] f = "any"    -> Bit(\E i \in DOMAIN args[1] : args[1][i] = 1)
        [] f = "all"    -> Bit(\A i \in DOMAIN args[1] : args[1][i] = 1)

\* The components of the arguments of a vector's constructor, one after the other.
Components(args, ts) ==
  FoldLeft(LAMBDA acc, i : acc \o IF Is(UnwrapAll(ts[i]), "vec") THEN args[i] ELSE <<args[i]>>,
           <<>>, [i \in DOMAIN args |-> i])

Built(ty, args, ts) ==
  LET t == UnwrapAll(ty)
  IN  CASE args = <<>>   -> Zero(t)
        [] is_scalar(t)  -> Converted(t, UnwrapAll(ts[1]), args[1])
        [] Is(t, "vec") /\ Len(args) = 1 /\ Is(UnwrapAll(ts[1]), "vec") -> Converted(t, UnwrapAll(ts[1]), args[1])
        [] Is(t, "vec")  -> Components(args, ts)
        [] OTHER         -> args

Types(es) == [i \in DOMAIN es |-> es[i].rt]

\* What a query of a texture yields: a size, or a count, by its type.
Layers == 3
Extent(dim, level) ==
  LET size == CASE dim \in {"1d", "1d_array"} -> <<1>>
                [] dim \in {"2d", "2d_array"} -> <<1, 2>>
                [] dim = "3d"                 -> <<1, 2, 3>>
                [] OTHER                      -> <<1, 2, 2>>
  IN  [i \in DOMAIN size |-> size[i] - level]
IsQuery(f) == f \in {"textureDimensions", "textureNumLayers", "textureNumLevels", "textureNumSamples"}
Queried(f, texture, level) ==
  LET size == Extent(texture.dim, level)
  IN CASE f = "textureDimensions" -> IF Len(size) = 1 THEN size[1] ELSE size
       [] f = "textureNumLayers"  -> Layers
       [] OTHER                   -> IF f = "textureNumLevels" THEN -1 ELSE -2

\* What is seen of a call of a texture intrinsic; a texture or a sampler is its name.
Sampled(e, st) ==
  LET Shown(i) == IF e.roles[i] \in {"texture", "sampler"} THEN e.args[i].n ELSE st.v[i]
      event == <<e.f, {<<e.roles[i], Shown(i)>> : i \in DOMAIN e.roles}>>
      level == SelectInSeq(e.roles, LAMBDA r : r = "level")
  IN  IF IsQuery(e.f) THEN Yield(st, Queried(e.f, UnwrapAll(e.args[1].rt), IF level = 0 THEN 0 ELSE st.v[level])) ELSE Yield(Observe(st, event), Zero(e.rt))

\* A call of a function of the module: parameters are values, unless "by" says so.
PassedBy(p, way) == "by" \in DOMAIN p /\ p.by = way
\* Its parameters are in a scope of their own; "out" ones are copied back.
Pass(f, args, st) ==
  LET Named(s, n, loc) == [s EXCEPT !.scopes = Front(@) \o <<(n :> loc) @@ Last(s.scopes)>>]
      One(s, i) ==
        LET p == f.params[i]
        IN  IF PassedBy(p, "reference") THEN Named(s, p.n, Location(st, args[i].n))
            ELSE Bind(s, p.n, IF PassedBy(p, "out") THEN Filled(p.ty, Junk) ELSE st.v[i])
  IN  FoldLeft(One, [st EXCEPT !.scopes = <<st.scopes[1], <<>>>>], [i \in DOMAIN f.params |-> i])

CopiedBack(f, args, bound, ran) ==
  FoldLeft(LAMBDA s, i : IF PassedBy(f.params[i], "out")
                         THEN [s EXCEPT !.mem[Location(bound, args[i].n)] = ran.mem[Location(ran, f.params[i].n)]] ELSE s,
           ran, [i \in DOMAIN f.params |-> i])

Returned(f, args, st, ran) ==
  LET fits == Is(f.ret, "void") \/ (ran.sig = "return" /\ Fits(f.ret, ran.v))
  IN  IF ran.sig \in {"next", "return"} /\ ~fits THEN [ran EXCEPT !.sig = "ill typed"]
      ELSE [CopiedBack(f, args, st, ran) EXCEPT !.scopes = st.scopes, !.sig = IF @ = "return" THEN "next" ELSE @]

Called(f, args, st) ==
  IF Len(args) # Len(f.params) THEN Stop(st, "wrong number of arguments")
  ELSE Returned(f, args, st, ExecAll(f.body, Pass(f, args, st)))

EvalCall(e, st) ==
  LET Given(f) == [i \in DOMAIN e.args |-> IF i \in DOMAIN f.params /\ PassedBy(f.params[i], "reference")
                                           THEN Literal(I32, 0) @@ [rt |-> I32] ELSE e.args[i]]
      args == IF e.f \in DOMAIN st.functions THEN Given(st.functions[e.f]) ELSE e.args
      Apply(s) == CASE e.f \in DOMAIN st.functions -> Called(st.functions[e.f], e.args, s)
                    [] "roles" \in DOMAIN e        -> Sampled(e, s)
                    [] OTHER                       -> Yield(s, Intrinsic(e.f, s.v, Types(e.args)))
  IN  IF e.f = "arrayLength" THEN Then(Place(e.args[1], st), LAMBDA s : Yield(s, Len(At(s.mem[s.ref[1]], s.ref[2]))))
      ELSE Then(EvalAll(args, st), Apply)

EvalBinary(e, st) ==
  Then(Eval(e.l, st),
       LAMBDA l : IF e.op \in {"&&", "||"} THEN (IF (l.v = 1) = (e.op = "&&") THEN Eval(e.r, l) ELSE l)
                  ELSE Then(Eval(e.r, l), LAMBDA r : Yield(r, Combined(e.op, e.l.rt, e.r.rt, l.v, r.v))))

Component(v, fields) == IF Len(fields) = 1 THEN v[fields[1]] ELSE [i \in DOMAIN fields |-> v[fields[i]]]

EvalBare(e, st) ==
  CASE Is(e, "literal") -> Yield(st, e.v)
    [] IsPlace(e)       -> Read(Place(e, st))
    [] Is(e, "unary")   -> Then(Eval(e.e, st), LAMBDA s : Yield(s, Negated(e.op, UnwrapAll(e.rt), s.v)))
    [] Is(e, "binary")  -> EvalBinary(e, st)
    [] Is(e, "call")    -> EvalCall(e, st)
    [] Is(e, "construct") -> Then(EvalAll(e.args, st), LAMBDA s : Yield(s, Built(e.ty, s.v, Types(e.args))))
    [] Is(e, "bitcast") -> Then(Eval(e.e, st), LAMBDA s : Yield(s, Converted(UnwrapAll(e.ty), UnwrapAll(e.e.rt), s.v)))
    [] Is(e, "member")  -> Then(Selects(e, Eval(e.e, st)), LAMBDA s : Yield(s, Component(s.v, Fields(e))))
    [] Is(e, "index")   ->
         Then(Eval(e.e, st),
              LAMBDA s : Then(Eval(e.i, s),
                              LAMBDA i : Yield(Bounded(i, i.v, Len(s.v)), s.v[Clamped(i.v, Len(s.v))])))

Checked(t, s) == IF Goes(s) /\ ~Fits(t, s.v) THEN Stop(s, "ill typed") ELSE s

\* Statements in a scope of their own, and the end of it.
Enter(st) == [st EXCEPT !.scopes = Append(@, <<>>)]
Leave(st, outer) == [st EXCEPT !.scopes = outer.scopes]
ExecBlock(ss, st) == Leave(ExecAll(ss, Enter(st)), st)

\* The part of an if that runs once its condition is known.
RECURSIVE Branch(_, _, _)
Branch(body, elses, st) ==
  CASE st.v = 1     -> ExecBlock(body, st)
    [] elses = <<>> -> st
    [] OTHER        ->
         LET next == Head(elses)
         IN  Then(IF HasCondition(next) THEN Eval(next.c, st) ELSE Yield(st, 1), LAMBDA s : Branch(next.body, Tail(elses), s))

\* A loop; the continuing part is in the scope of the body.
Ended(st) == [st EXCEPT !.sig = IF @ = "break" THEN "next" ELSE @]
RECURSIVE Iterate(_, _)
Iterate(l, st) ==
  LET Continuing(body) ==
        IF body.sig \in {"next", "continue"}
        THEN ExecBlock(l.cont, [body EXCEPT !.sig = "next", !.scopes = SubSeq(@, 1, Len(st.scopes) + 1)])
        ELSE body
  IN  IF st.left = 0 THEN Stop(st, "cut")
      ELSE Then(Leave(Continuing(ExecAll(l.body, Enter([st EXCEPT !.left = @ - 1]))), st), LAMBDA s : Iterate(l, s))

\* The cases of a switch from number i on.
RECURSIVE RunCases(_, _, _)
RunCases(s, i, st) ==
  LET After(r) == IF r.sig = "fallthrough" \/ (Goes(r) /\ Is(s, "cswitch")) THEN RunCases(s, i + 1, [r EXCEPT !.sig = "next"])
                  ELSE r
  IN  IF i > Len(s.cases) THEN st ELSE After(ExecBlock(s.cases[i].body, st))

CaseFor(s, v) ==
  LET hit == SelectInSeq(s.cases, LAMBDA c : \E i \in DOMAIN c.sels : c.sels[i].v = v)
      default == SelectInSeq(s.cases, LAMBDA c : IsDefault(c))
  IN  IF hit > 0 THEN hit ELSE IF default > 0 THEN default ELSE Len(s.cases) + 1

Assign(x, p) == Then(Checked(UnwrapAll(x.l.rt), Eval(x.r, p)), LAMBDA s : Write(s, p.ref, s.v))

Exec(x, st) ==
  CASE Is(x, "assign")   -> Then(Place(x.l, st), LAMBDA p : Assign(x, p))
    [] Is(x, "callstmt") -> Eval(x.e, st)
    [] Is(x, "decl")     -> Then(IF x.v.init = Null THEN Yield(st, Zero(x.v.ty)) ELSE Eval(x.v.init, st),
                                 LAMBDA s : Bind(s, x.v.n, s.v))
    [] Is(x, "undefined") -> IF x.v.const THEN Stop(st, "constant without a value") ELSE Bind(st, x.v.n, Filled(x.v.ty, Junk))
    [] Is(x, "if")       -> Then(Eval(x.c, st), LAMBDA s : Branch(x.body, x.elses, s))
    [] Is(x, "loop")     -> Ended(Iterate(x, st))
    [] x.k \in {"switch", "cswitch"} -> Ended(Then(Eval(x.c, st), LAMBDA s : RunCases(x, CaseFor(x, s.v), s)))
    [] Is(x, "block")    -> ExecBlock(x.body, st)
    [] Is(x, "return")   -> Stop(IF x.e = Null THEN st ELSE Eval(x.e, st), "return")
    [] OTHER             -> Stop(st, x.k)

\* An expression, which is what has a type, or a statement.
Eval(x, st) ==
  CASE ~Goes(st)        -> st
    [] "rt" \in DOMAIN x -> Checked(UnwrapAll(x.rt), EvalBare(x, st))
    [] OTHER            -> Exec(x, st)

ExecAll(ss, st) == IF ss = <<>> \/ ~Goes(st) THEN st ELSE ExecAll(Tail(ss), Eval(Head(ss), st))

\* A module is run at one of its functions: its variables, then the function.
\* env: the values of inputs and uniforms, by name.
Observable(v) == v.sc \in {"private", "storage", "workgroup"}

Declare(v, st) ==
  LET Located(b, loc) == CASE Observable(v)      -> [b EXCEPT !.observed = (loc :> v.n) @@ @]
                           [] v.sc = "output"    -> [b EXCEPT !.outputs = (loc :> v.n) @@ @]
                           [] OTHER              -> b
  IN  Located(Bind(st, v.n, st.v), Len(st.mem) + 1)

Globals(m, env, st) ==
  FoldLeft(LAMBDA s, v : Declare(v, CASE v.n \in DOMAIN env -> Yield(s, env[v.n])
                                      [] v.init # Null      -> Eval(v.init, s)
                                      [] v.ty.k \in {"texture", "sampler"} -> Yield(s, 0)
                                      [] OTHER              -> Yield(s, Zero(v.ty))),
           Enter(st), m.globals)

FunctionsOf(m) == [n \in {m.functions[i].n : i \in DOMAIN m.functions} |->
                     m.functions[SelectInSeq(m.functions, LAMBDA f : f.n = n)]]

\* What is seen of a run: the accesses, whether it ended, was cut or discarded, and
\* the values of the outputs when it ended.
Seen(st) ==
  LET end == IF st.sig = "return" THEN "next" ELSE st.sig
  IN  [trace |-> st.trace, end |-> end,
       outputs |-> IF end = "next" THEN {<<st.outputs[l], st.mem[l]>> : l \in DOMAIN st.outputs} ELSE {}]

RunOf(m, n, env, bits, iterations) ==
  LET functions == FunctionsOf(m)
      start == Globals(m, env, Begin(functions, bits, iterations))
  IN  Seen(ExecAll(functions[n].body, Enter(start)))
=============================================================================
