-------------------------------- MODULE Ast --------------------------------
(***************************************************************************)
(* The abstract syntax tree as data: types, expressions, statements,        *)
(* variables and functions are records with the name of their class in "k". *)
(* An expression also has "rt", its result type, once the determiner has    *)
(* been there.  A symbol is its name.                                       *)
(***************************************************************************)
EXTENDS Naturals, Sequences, SequencesExt, TLC

-----------------------------------------------------------------------------
(* Types *)

Is(t, k) == t.k = k

Void == [k |-> "void"]
Bool == [k |-> "bool"]
I32 == [k |-> "i32"]
U32 == [k |-> "u32"]
F32 == [k |-> "f32"]
Vector(t, n) == [k |-> "vec", of |-> t, n |-> n]
Matrix(t, rows, cols) == [k |-> "mat", of |-> t, n |-> cols, rows |-> rows]
\* n = 0: runtime sized; the elements of those in buffers are 4 or 8 bytes apart.
Array(t, n) == [k |-> "array", of |-> t, n |-> n, stride |-> IF Is(t, "vec") THEN 8 ELSE 4]
Pointer(t, sc) == [k |-> "ptr", of |-> t, sc |-> sc]
Struct(n, members, block) == [k |-> "struct", name |-> n, members |-> members, block |-> block]
Alias(n, t) == [k |-> "alias", alias |-> n, of |-> t]

UnwrapPtrIfNeeded(t) == IF Is(t, "ptr") THEN t.of ELSE t

RECURSIVE UnwrapIfNeeded(_)
UnwrapIfNeeded(t) == IF Is(t, "alias") THEN UnwrapIfNeeded(t.of) ELSE t

UnwrapAll(t) == UnwrapIfNeeded(UnwrapPtrIfNeeded(UnwrapIfNeeded(t)))

is_integer_scalar(t) == t.k \in {"i32", "u32"}
is_scalar(t) == is_integer_scalar(t) \/ t.k \in {"f32", "bool"}
IsVectorOf(t, k) == Is(t, "vec") /\ Is(t.of, k)
ScalarOrVector(t, k) == Is(t, k) \/ IsVectorOf(t, k)
is_float_scalar_or_vector(t) == ScalarOrVector(t, "f32")
is_unsigned_scalar_or_vector(t) == ScalarOrVector(t, "u32")
is_signed_scalar_or_vector(t) == ScalarOrVector(t, "i32")
is_integer_scalar_or_vector(t) == is_unsigned_scalar_or_vector(t) \/ is_signed_scalar_or_vector(t)
is_float_matrix(t) == Is(t, "mat") /\ Is(t.of, "f32")

\* What the parts of a composite are: t of it, or the member with a number.
PartType(t, i) ==
  CASE Is(t, "struct") -> t.members[i].ty
    [] Is(t, "mat")    -> Vector(t.of, t.rows)
    [] OTHER           -> t.of
PartCount(t) == IF Is(t, "struct") THEN Len(t.members) ELSE t.n

MemberIndex(t, m) == SelectInSeq(t.members, LAMBDA x : x.n = m)

-----------------------------------------------------------------------------
(* Nodes *)

Null == [k |-> "null"]

Literal(ty, v) == [k |-> "literal", ty |-> ty, v |-> v]
Identifier(n) == [k |-> "id", n |-> n]
UnaryOp(op, e) == [k |-> "unary", op |-> op, e |-> e]
Binary(op, l, r) == [k |-> "binary", op |-> op, l |-> l, r |-> r]
CallExpr(f, args) == [k |-> "call", f |-> f, args |-> args]
TypeConstructor(ty, args) == [k |-> "construct", ty |-> ty, args |-> args]
Bitcast(ty, e) == [k |-> "bitcast", ty |-> ty, e |-> e]
MemberAccessor(e, m) == [k |-> "member", e |-> e, m |-> m]
ArrayAccessor(e, i) == [k |-> "index", e |-> e, i |-> i]

Assignment(l, r) == [k |-> "assign", l |-> l, r |-> r]
CallStatement(e) == [k |-> "callstmt", e |-> e]
VariableDecl(v) == [k |-> "decl", v |-> v]
IfStatement(c, body, elses) == [k |-> "if", c |-> c, body |-> body, elses |-> elses]
ElseStatement(c, body) == [k |-> "else", c |-> c, body |-> body]
LoopStatement(body, cont) == [k |-> "loop", body |-> body, cont |-> cont]
SwitchStatement(c, cases) == [k |-> "switch", c |-> c, cases |-> cases]
CaseStatement(sels, body) == [k |-> "case", sels |-> sels, body |-> body]
Block(body) == [k |-> "block", body |-> body]
Return(e) == [k |-> "return", e |-> e]
Break == [k |-> "break"]
Continue == [k |-> "continue"]
Discard == [k |-> "discard"]
Fallthrough == [k |-> "fallthrough"]

\* sc: storage class; init: constructor; decos: the values of its decorations, by kind.
Variable(n, sc, ty, is_const, init, decos) ==
  [k |-> "var", n |-> n, sc |-> sc, ty |-> ty, const |-> is_const, init |-> init, decos |-> decos]
NoDeco == [d \in {} |-> 0]
Has(v, deco) == deco \in DOMAIN v.decos
IsBuiltin(v, b) == Has(v, "builtin") /\ v.decos.builtin = b
Function(n, params, ret, body, stage) ==
  [k |-> "function", n |-> n, params |-> params, ret |-> ret, body |-> body, stage |-> stage]

IsStatement(x) ==
  x.k \in {"assign", "block", "break", "callstmt", "continue", "decl", "discard", "fallthrough", "if", "loop",
          "return", "switch"}
HasCondition(s) == s.c # Null
IsDefault(c) == c.sels = <<>>     \* the selectors are literals
IsRuntimeArray(t) == Is(t, "array") /\ t.n = 0
IsEntryPoint(f) == f.stage # "none"
LastStatement(s) == IF s = <<>> THEN Null ELSE s[Len(s)]

-----------------------------------------------------------------------------
(* What each class has to have, and clones: parts that must be there, may   *)
(* be there, or are lists.                                                  *)

unary_parts == [e |-> "must"]
binary_parts == [l |-> "must", r |-> "must"]
call_parts == [args |-> "list"]
construct_parts == [args |-> "list"]
bitcast_parts == [e |-> "must"]
member_parts == [e |-> "must"]
index_parts == [e |-> "must", i |-> "must"]
assign_parts == [l |-> "must", r |-> "must"]
callstmt_parts == [e |-> "must"]
decl_parts == [v |-> "must"]
var_parts == [init |-> "may"]
if_parts == [c |-> "must", body |-> "list", elses |-> "list"]
else_parts == [c |-> "may", body |-> "list"]
loop_parts == [body |-> "list", cont |-> "list"]
switch_parts == [c |-> "must", cases |-> "list"]
case_parts == [body |-> "list"]
block_parts == [body |-> "list"]
return_parts == [e |-> "may"]
function_parts == [params |-> "list", body |-> "list"]

PartsOf ==
  [unary |-> unary_parts, binary |-> binary_parts, call |-> call_parts, construct |-> construct_parts,
   bitcast |-> bitcast_parts, member |-> member_parts, index |-> index_parts, assign |-> assign_parts,
   callstmt |-> callstmt_parts, decl |-> decl_parts, var |-> var_parts, if |-> if_parts,
   else |-> else_parts, loop |-> loop_parts, switch |-> switch_parts, case |-> case_parts,
   block |-> block_parts, return |-> return_parts, function |-> function_parts]
Parts(n) == IF n.k \in DOMAIN PartsOf THEN PartsOf[n.k] ELSE [x \in {} |-> ""]

\* The nodes directly below n.
Children(n) ==
  LET parts == Parts(n)
  IN  UNION {IF parts[p] = "list" THEN ToSet(n[p]) ELSE {n[p]} \ {Null} : p \in DOMAIN parts}

RECURSIVE Nodes(_)
Nodes(n) == {n} \cup UNION {Nodes(x) : x \in Children(n)}

ElseIsLast(elses) == \A i \in DOMAIN elses : HasCondition(elses[i]) \/ i = Len(elses)

\* Node::IsValid() of every class.
RECURSIVE IsValid(_)
IsValid(n) ==
  /\ n # Null
  /\ \A p \in DOMAIN Parts(n) : Parts(n)[p] = "must" => n[p] # Null
  /\ Is(n, "if") => ElseIsLast(n.elses)
  /\ \A x \in Children(n) : IsValid(x)

\* Module::IsValid().
ModuleIsValid(m) ==
  /\ \A i \in DOMAIN m.types : m.types[i].k \in {"alias", "struct"}
  /\ \A i \in DOMAIN m.globals : IsValid(m.globals[i])
  /\ \A i \in DOMAIN m.functions : IsValid(m.functions[i])
=============================================================================
