---------------------------- MODULE WgslGrammar ----------------------------
(***************************************************************************)
(* The grammar functions of ParserImpl, one definition per function and    *)
(* with its name, as data that WgslParser interprets.                      *)
(*                                                                         *)
(* A function returns "matched", "nomatch" or "errored" (Maybe, Expect).   *)
(* The nodes it creates are left out, except for what a later test looks   *)
(* at: decorations, and the names that are types.                          *)
(***************************************************************************)
EXTENDS Sequences

CONSTANT Names  \* the identifiers without a meaning of their own

-----------------------------------------------------------------------------
(* Kinds of tokens.  Tokens the parser treats alike are one kind. *)

DecorationKind == [
  location |-> "variable", binding |-> "variable", group |-> "variable", builtin |-> "variable",
  stage |-> "function", workgroup_size |-> "function",
  block |-> "struct", offset |-> "member", stride |-> "array", access |-> "access"]

Decorations == DOMAIN DecorationKind
Values == {"vertex", "position", "read", "f"}  \* a stage, a builtin, an access, a suffix
Identifiers == Names \cup Decorations \cup Values

SintLiterals == {"int", "int0", "int-"}
IntLiterals == SintLiterals \cup {"uint"}
Literals == IntLiterals \cup {"float", "bool"}

Semicolon == {";"}
Comma == {","}
OpenBrace == {"{"}

Openers == [attrs |-> "[[", brace |-> "{", bracket |-> "[", paren |-> "("]
Closers == [attrs |-> "]]", brace |-> "}", bracket |-> "]", paren |-> ")"]

-----------------------------------------------------------------------------
(* The forms a function has *)

\* One item after the other; the function matches after the last one, unless it
\* has noted an error.
Do(items) == [form |-> "do", items |-> items]

\* The first function that does not return "nomatch".
Alt(of) == [form |-> "alt", of |-> of]

\* for (;;) until "nomatch"; an error is returned at once.
Many(p) == [form |-> "many", of |-> p]

\* while (synchronized_) until "nomatch" or a token of `stop`; errors are noted.
While(p, stop) == [form |-> "while", of |-> p, stop |-> stop]

\* sync(close, p), and expect_block(open, close, p).
Sync(close, p) == [form |-> "sync", close |-> close, of |-> p]
Block(open, close, p) == [form |-> "block", open |-> open, close |-> close, of |-> p]

(* Items that call a function: what is done for each of its results *)

Call(p, matched, nomatch, errored) ==
  [do |-> "call", of |-> p, matched |-> matched, nomatch |-> nomatch, errored |-> errored]

First(p) == Call(p, "next", "nomatch", "errored")
Must(p)  == Call(p, "next", "report", "errored")
May(p)   == Call(p, "next", "next", "errored")
Note(p)  == Call(p, "next", "next", "note")
List     == Call("decoration_list", "keep", "next", "errored")

(* Items that look at the next token: done if it is one of S *)

Item(do, S) == [do |-> do, toks |-> S]

Match(S)      == Item("match", S)       \* taken; else no match
Peek(S)       == Item("peek", S)        \* else no match
Expect(S)     == Item("expect", S)      \* taken and synchronized; else neither
Need(S)       == Item("need", S)        \* taken; else an error
Take(S)       == Item("take", S)        \* taken, and matched
MatchedAt(S)  == Item("matchedat", S)   \* matched
MatchedBut(S) == Item("matchedbut", S)  \* else matched
Refuse(S)     == Item("refuse", S)      \* taken, and an error
Suffix(S)     == Item("suffix", S)      \* taken, an error is reported and parsing goes on
Lack(S)       == Item("lack", S)        \* expect() of another token fails
Decorate(S)   == Item("decorate", S)    \* taken, and listed as a decoration
Name(S)       == Item("name", S)        \* as Expect; the name is kept
TypeName      == Item("typename", Identifiers)   \* taken, and an error if not a type
PlainName     == Item("plainname", Identifiers)  \* taken if not a type; else no match

Then(S, p)    == [do |-> "then", toks |-> S, of |-> p]    \* taken, and then a p
Each(S, p)    == [do |-> "each", toks |-> S, of |-> p]    \* the same, any number of times
Unless(S, p)  == [do |-> "unless", toks |-> S, of |-> p]  \* else a p
Back(S)       == Item("back", S)        \* taken, and back to the first item

Match2(S, T)  == [do |-> "match2", toks |-> S, and |-> T]   \* two tokens, taken
Refuse2(S, T) == [do |-> "refuse2", toks |-> S, and |-> T]  \* two tokens, an error

(* Other items *)

Act(do)       == [do |-> do]
Fail          == Act("fail")            \* return add_error()
StopIfBad     == Act("stopifbad")       \* if (errored) return kErrored
InSync        == Act("insync")          \* if (!synchronized_) return kErrored
Cast(kind)     == [do |-> "cast", kind |-> kind, errored |-> "errored"]
NoteCast(kind) == [do |-> "cast", kind |-> kind, errored |-> "note"]

-----------------------------------------------------------------------------
(* Declarations *)

expect_global_decl == Do(<<
  Take(Semicolon \cup {"eof"}),
  Call("decoration_list", "keep", "next", "note"), InSync,
  Call("global_sync", "matched", "next", "note"),
  Call("function_decl", "matched", "next", "note"),
  StopIfBad, Act("unused"),
  Call("statement", "salvage", "skip", "report")>>)

global_sync == Sync(";", "global")
global == Alt(<<"global_variable", "global_constant", "alias", "struct">>)
global_variable == Do(<<First("global_variable_decl"), Expect(Semicolon)>>)
global_constant == Do(<<First("global_constant_decl"), Expect(Semicolon)>>)
alias == Do(<<First("type_alias"), Expect(Semicolon)>>)
struct == Do(<<Call("struct_decl", "keep", "nomatch", "errored"), Expect(Semicolon), Act("register")>>)

global_variable_decl == Do(<<First("variable_decl"), Cast("variable"), Then({"="}, "const_expr")>>)

global_constant_decl == Do(<<
  Match({"const"}), Must("variable_ident_decl"), Expect({"="}), Must("const_expr")>>)

variable_decl == Do(<<
  Match({"var"}), May("variable_storage_decoration"), Must("variable_ident_decl")>>)

variable_ident_decl == Do(<<
  Expect(Identifiers), Expect({":"}), List, Act("takeaccess"),
  Must("type_decl_of"), Act("consumed"), Act("oneaccess")>>)

variable_storage_decoration == Do(<<Peek({"<"}), Must("storage_class_block")>>)
storage_class_block == Block("<", ">", "storage_class")
storage_class == Do(<<Need({"in"})>>)

type_alias == Do(<<
  Match({"type"}), Name(Identifiers), Expect({"="}), Must("type_decl"), Act("register")>>)

\* Mutant of struct_decl: the decorations are not cast.
struct_decl_NoCast == Do(<<Match({"struct"}), Name(Identifiers), Must("struct_body_decl")>>)

struct_decl == Do(<<
  Match({"struct"}), Name(Identifiers), Must("struct_body_decl"), Cast("struct")>>)
struct_body_decl == Block("{", "}", "struct_members")
struct_members == While("struct_member_sync", {"}", "eof"})
struct_member_sync == Sync(";", "member")
member == Do(<<
  Call("decoration_list", "keep", "next", "outer"), InSync, Must("struct_member")>>)
struct_member == Do(<<Must("variable_ident_decl"), Cast("member"), Expect(Semicolon)>>)

function_decl == Do(<<
  Call("function_header", "next", "nomatch", "body"), NoteCast("function"), Note("body_stmt")>>)

function_header == Do(<<
  Match({"fn"}), Call("function_name", "next", "next", "params"),
  Note("function_params"), InSync, Expect({"->"}),
  Call("function_type_decl", "next", "report", "note")>>)
function_name == Do(<<Expect(Identifiers)>>)
function_params == Block("(", ")", "param_list")
param_list == Do(<<
  MatchedBut(Identifiers), Must("variable_ident_decl"), Each(Comma, "variable_ident_decl")>>)
function_type_decl == Do(<<Take({"void"}), First("type_decl")>>)

-----------------------------------------------------------------------------
(* Types *)

type_decl == Do(<<List, First("type_decl_of"), Act("consumed")>>)

type_decl_of == Alt(<<
  "constructed_type", "scalar_type", "vector_type", "pointer_type", "array_type",
  "texture_sampler_types">>)

constructed_type == Do(<<TypeName>>)
scalar_type == Do(<<Match({"f32"})>>)
vector_type == Do(<<Match({"vec"}), Must("type_block")>>)
type_block == Block("<", ">", "expect_type")
expect_type == Do(<<Must("type_decl")>>)
pointer_type == Do(<<Match({"ptr"}), Must("pointer_block")>>)
pointer_block == Block("<", ">", "pointer")
pointer == Do(<<Must("storage_class"), Expect(Comma), Must("expect_type")>>)
array_type == Do(<<Match({"array"}), Cast("array"), Must("array_block")>>)
array_block == Block("<", ">", "array")
array == Do(<<Must("expect_type"), Then(Comma, "nonzero_positive_sint")>>)

texture_sampler_types == Alt(<<"sampler_type", "sampled_texture", "storage_texture">>)
sampler_type == Do(<<Match({"sampler"})>>)
sampled_texture == Do(<<Match({"sampled"}), Must("type_block")>>)
storage_texture == Do(<<Match({"storage"}), Must("image_block")>>)
image_block == Block("<", ">", "image_storage_type")
image_storage_type == Do(<<Need({"format"})>>)

-----------------------------------------------------------------------------
(* Statements *)

body_stmt == Block("{", "}", "statements")
statements == While("statement", {})

statement == Do(<<
  May("empty_statements"), Call("statement_sync", "matched", "next", "errored"), First("block_statement")>>)
empty_statements == Many("empty_statement")
empty_statement == Do(<<Match(Semicolon)>>)
statement_sync == Sync(";", "non_block_statement")
non_block_statement == Do(<<First("simple_statement"), Expect(Semicolon)>>)
simple_statement == Alt(<<
  "return_stmt", "func_call_stmt", "variable_stmt", "break_stmt", "assignment_stmt", "discard_stmt">>)
block_statement == Alt(<<"if_stmt", "switch_stmt", "loop_stmt", "for_stmt", "nested_body">>)
nested_body == Do(<<Peek(OpenBrace), Must("body_stmt")>>)

return_stmt == Do(<<Match({"return"}), MatchedAt(Semicolon), May("logical_or_expression")>>)
break_stmt == Do(<<Match({"break", "continue"})>>)
discard_stmt == Do(<<Match({"discard"})>>)

func_call_stmt == Do(<<Match2(Identifiers, {"("}), Unless({")", "eof"}, "argument_expression_list"),
  Expect({")"})>>)

variable_stmt == Alt(<<"const_stmt", "var_stmt">>)
const_stmt == Do(<<
  Match({"const"}), Must("variable_ident_decl"), Expect({"="}), Must("logical_or_expression")>>)
var_stmt == Do(<<First("variable_decl"), Then({"="}, "logical_or_expression")>>)

assignment_stmt == Do(<<
  Refuse2(Identifiers, {":"}), First("unary_expression"), Expect({"="}), Must("logical_or_expression")>>)

if_stmt == Do(<<
  Match({"if"}), Must("else_if"), Each({"elseif"}, "else_if"), May("else_stmt")>>)
else_if == Do(<<Must("paren_rhs_stmt"), Must("body_stmt")>>)
else_stmt == Do(<<Match({"else"}), Must("body_stmt")>>)

switch_stmt == Do(<<Match({"switch"}), Must("paren_rhs_stmt"), Must("switch_block")>>)
switch_block == Block("{", "}", "switch_bodies")
switch_bodies == While("switch_body", {})
switch_body == Alt(<<"case_stmt", "default_stmt">>)
case_stmt == Do(<<Match({"case"}), Must("case_selectors"), Expect({":"}), Must("case_block")>>)
default_stmt == Do(<<Match({"default"}), Expect({":"}), Must("case_block")>>)
case_selectors == Do(<<Refuse(Comma), Must("case_selector"), May("more_selectors")>>)
case_selector == Alt(<<"int_selector", "bad_selector">>)
int_selector == Do(<<Match(IntLiterals)>>)
bad_selector == Do(<<First("const_literal"), Fail>>)
more_selectors == Many("next_selector")
next_selector == Alt(<<"comma_selector", "bad_selector">>)
comma_selector == Do(<<Match(Comma), Must("case_selector")>>)
case_block == Block("{", "}", "case_body")
case_body == Do(<<
  Call("fallthrough", "matched", "next", "errored"), Call("statement", "first", "matched", "errored")>>)
fallthrough == Do(<<Match({"fallthrough"}), Expect(Semicolon)>>)

loop_stmt == Do(<<Match({"loop"}), Must("loop_block")>>)
loop_block == Block("{", "}", "loop_body")
loop_body == Do(<<Must("statements"), May("continuing_stmt")>>)
continuing_stmt == Do(<<Match({"continuing"}), Must("body_stmt")>>)

for_stmt == Do(<<Match({"for"}), Must("for_header_block"), Must("body_stmt")>>)
for_header_block == Block("(", ")", "for_header")
for_header == Do(<<
  May("for_header_initializer"), Expect(Semicolon), May("logical_or_expression"), Expect(Semicolon),
  Call("for_header_continuing", "next", "endless", "errored")>>)
for_header_initializer == Alt(<<"func_call_stmt", "variable_stmt", "assignment_stmt">>)
for_header_continuing == Alt(<<"func_call_stmt", "assignment_stmt">>)

-----------------------------------------------------------------------------
(* Expressions *)

\* An operand, and any number of operators with one more operand each.
Binary(operand, operators) == Do(<<First(operand), Each(operators, operand)>>)

paren_rhs_stmt == Block("(", ")", "paren_expression")
paren_expression == Do(<<Must("logical_or_expression")>>)

primary_expression == Alt(<<
  "const_literal", "parenthesized", "bitcast", "identifier", "type_constructor">>)
parenthesized == Do(<<Peek({"("}), Must("paren_rhs_stmt")>>)
bitcast == Do(<<Match({"bitcast"}), Must("type_block"), Must("paren_rhs_stmt")>>)
identifier == Do(<<PlainName>>)
type_constructor == Do(<<First("type_decl"), Must("constructor_block")>>)
constructor_block == Block("(", ")", "constructor_arguments")
constructor_arguments == Do(<<Unless({")", "eof"}, "argument_expression_list")>>)

postfix_expression == Do(<<First("primary_expression"), May("postfix_expr")>>)
postfix_expr == Many("postfix")
postfix == Alt(<<"array_accessor", "call", "member_accessor">>)
array_accessor == Do(<<Match({"["}), Must("logical_or_expression"), Expect({"]"})>>)
call == Do(<<
  Match({"("}), Unless({")", "eof"}, "argument_expression_list"), Expect({")"})>>)
member_accessor == Do(<<Match({"."}), Expect(Identifiers)>>)

argument_expression_list == Do(<<
  Must("logical_or_expression"), Each(Comma, "logical_or_expression")>>)

unary_expression == Alt(<<"unary", "postfix_expression">>)
unary == Do(<<Match({"-", "!"}), Must("unary_expression")>>)

multiplicative_expression == Binary("unary_expression", {"*"})
additive_expression == Binary("multiplicative_expression", {"+", "-"})
shift_expression == Do(<<First("additive_expression"), May("shift_expr")>>)
shift_expr == Many("shift")
shift == Alt(<<"shift_left", "shift_right">>)
shift_left == Do(<<Match2({"<"}, {"<"}), Must("additive_expression")>>)
shift_right == Do(<<Match2({">"}, {">"}), Must("additive_expression")>>)
relational_expression == Binary("shift_expression", {"<", ">", "<="})
equality_expression == Binary("relational_expression", {"=="})
and_expression == Binary("equality_expression", {"&"})
exclusive_or_expression == Binary("and_expression", {"^"})
inclusive_or_expression == Binary("exclusive_or_expression", {"|"})
logical_and_expression == Binary("inclusive_or_expression", {"&&"})
logical_or_expression == Binary("logical_and_expression", {"||"})

const_literal == Alt(<<"plain_literal", "float_literal">>)
plain_literal == Do(<<Match(Literals \ {"float"})>>)
float_literal == Do(<<Match({"float"}), Suffix({"f"})>>)

const_expr == Do(<<Act("depth"), Must("const_value")>>)
const_value == Alt(<<"const_constructor", "const_literal">>)
const_constructor == Do(<<First("type_decl"), Must("const_block")>>)
const_block == Block("(", ")", "const_arguments")
const_arguments == Do(<<Must("const_expr"), Each(Comma, "const_expr")>>)

-----------------------------------------------------------------------------
(* Decorations *)

\* while (synchronized_) until a list does not match, or fails.
decoration_list == [form |-> "list", of |-> "decoration_bracketed_list"]

decoration_bracketed_list == Do(<<Match({"[["}), Refuse({"]]"}), Must("decoration_sync")>>)
decoration_sync == Sync("]]", "decorations")
decorations == Do(<<
  Note("expect_decoration"), Back(Comma), Lack(Decorations), StopIfBad, Expect({"]]"})>>)

expect_decoration == Alt(<<
  "position_decoration", "stride_decoration", "workgroup_decoration", "builtin_decoration",
  "access_decoration", "stage_decoration", "block_decoration", "no_decoration">>)
position_decoration == Do(<<
  Decorate({"location", "binding", "group", "offset"}), Must("position_block")>>)
position_block == Block("(", ")", "positive_sint")
stride_decoration == Do(<<Decorate({"stride"}), Must("stride_block")>>)
stride_block == Block("(", ")", "nonzero_positive_sint")
workgroup_decoration == Do(<<Decorate({"workgroup_size"}), Must("workgroup_block")>>)
workgroup_block == Block("(", ")", "workgroup_x")
workgroup_x == Do(<<Must("nonzero_positive_sint"), Then(Comma, "workgroup_y")>>)
workgroup_y == Do(<<Must("nonzero_positive_sint"), Then(Comma, "nonzero_positive_sint")>>)
builtin_decoration == Do(<<Decorate({"builtin"}), Must("builtin_block")>>)
builtin_block == Block("(", ")", "builtin_name")
builtin_name == Do(<<Refuse(Identifiers \ {"position"}), Expect({"position"})>>)
access_decoration == Do(<<Decorate({"access"}), Must("access_block")>>)
access_block == Block("(", ")", "access_name")
access_name == Do(<<Refuse(Identifiers \ {"read"}), Expect({"read"})>>)
stage_decoration == Do(<<Decorate({"stage"}), Must("stage_block")>>)
stage_block == Block("(", ")", "pipeline_stage")
pipeline_stage == Do(<<Need({"vertex"})>>)
block_decoration == Do(<<Decorate({"block"})>>)
no_decoration == Do(<<Act("reject")>>)

positive_sint == Do(<<Refuse({"int-"}), Need({"int", "int0"})>>)
nonzero_positive_sint == Do(<<Refuse({"int-", "int0"}), Need({"int"})>>)

-----------------------------------------------------------------------------
Functions == [
  expect_global_decl |-> expect_global_decl, global_sync |-> global_sync, global |-> global,
  global_variable |-> global_variable, global_constant |-> global_constant, alias |-> alias,
  struct |-> struct, global_variable_decl |-> global_variable_decl,
  global_constant_decl |-> global_constant_decl, variable_decl |-> variable_decl,
  variable_ident_decl |-> variable_ident_decl,
  variable_storage_decoration |-> variable_storage_decoration,
  storage_class_block |-> storage_class_block, storage_class |-> storage_class,
  type_alias |-> type_alias, struct_decl |-> struct_decl,
  struct_body_decl |-> struct_body_decl, struct_members |-> struct_members,
  struct_member_sync |-> struct_member_sync, member |-> member,
  struct_member |-> struct_member, function_decl |-> function_decl,
  function_header |-> function_header, function_name |-> function_name,
  function_params |-> function_params, param_list |-> param_list,
  function_type_decl |-> function_type_decl, type_decl |-> type_decl,
  type_decl_of |-> type_decl_of, constructed_type |-> constructed_type,
  scalar_type |-> scalar_type, vector_type |-> vector_type, type_block |-> type_block,
  expect_type |-> expect_type, pointer_type |-> pointer_type, pointer_block |-> pointer_block,
  pointer |-> pointer, array_type |-> array_type, array_block |-> array_block, array |-> array,
  texture_sampler_types |-> texture_sampler_types, sampler_type |-> sampler_type,
  sampled_texture |-> sampled_texture, storage_texture |-> storage_texture,
  image_block |-> image_block, image_storage_type |-> image_storage_type,
  body_stmt |-> body_stmt, statements |-> statements, statement |-> statement,
  empty_statements |-> empty_statements, empty_statement |-> empty_statement,
  statement_sync |-> statement_sync, non_block_statement |-> non_block_statement,
  simple_statement |-> simple_statement, block_statement |-> block_statement,
  nested_body |-> nested_body, return_stmt |-> return_stmt, break_stmt |-> break_stmt,
  discard_stmt |-> discard_stmt, func_call_stmt |-> func_call_stmt,
  variable_stmt |-> variable_stmt, const_stmt |-> const_stmt, var_stmt |-> var_stmt,
  assignment_stmt |-> assignment_stmt, if_stmt |-> if_stmt, else_if |-> else_if,
  else_stmt |-> else_stmt, switch_stmt |-> switch_stmt, switch_block |-> switch_block,
  switch_bodies |-> switch_bodies, switch_body |-> switch_body, case_stmt |-> case_stmt,
  default_stmt |-> default_stmt, case_selectors |-> case_selectors,
  case_selector |-> case_selector, int_selector |-> int_selector,
  bad_selector |-> bad_selector, more_selectors |-> more_selectors,
  next_selector |-> next_selector, comma_selector |-> comma_selector,
  case_block |-> case_block, case_body |-> case_body, fallthrough |-> fallthrough,
  loop_stmt |-> loop_stmt, loop_block |-> loop_block, loop_body |-> loop_body,
  continuing_stmt |-> continuing_stmt, for_stmt |-> for_stmt,
  for_header_block |-> for_header_block, for_header |-> for_header,
  for_header_initializer |-> for_header_initializer,
  for_header_continuing |-> for_header_continuing, paren_rhs_stmt |-> paren_rhs_stmt,
  paren_expression |-> paren_expression, primary_expression |-> primary_expression,
  parenthesized |-> parenthesized, bitcast |-> bitcast, identifier |-> identifier,
  type_constructor |-> type_constructor, constructor_block |-> constructor_block,
  constructor_arguments |-> constructor_arguments, postfix_expression |-> postfix_expression,
  postfix_expr |-> postfix_expr, postfix |-> postfix, array_accessor |-> array_accessor,
  call |-> call, member_accessor |-> member_accessor,
  argument_expression_list |-> argument_expression_list, unary_expression |-> unary_expression,
  unary |-> unary, multiplicative_expression |-> multiplicative_expression,
  additive_expression |-> additive_expression, shift_expression |-> shift_expression,
  shift_expr |-> shift_expr, shift |-> shift, shift_left |-> shift_left,
  shift_right |-> shift_right, relational_expression |-> relational_expression,
  equality_expression |-> equality_expression, and_expression |-> and_expression,
  exclusive_or_expression |-> exclusive_or_expression,
  inclusive_or_expression |-> inclusive_or_expression,
  logical_and_expression |-> logical_and_expression,
  logical_or_expression |-> logical_or_expression, const_literal |-> const_literal,
  plain_literal |-> plain_literal, float_literal |-> float_literal, const_expr |-> const_expr,
  const_value |-> const_value, const_constructor |-> const_constructor,
  const_block |-> const_block, const_arguments |-> const_arguments,
  decoration_list |-> decoration_list, decoration_bracketed_list |-> decoration_bracketed_list,
  decoration_sync |-> decoration_sync, decorations |-> decorations,
  expect_decoration |-> expect_decoration, position_decoration |-> position_decoration,
  position_block |-> position_block, stride_decoration |-> stride_decoration,
  stride_block |-> stride_block, workgroup_decoration |-> workgroup_decoration,
  workgroup_block |-> workgroup_block, workgroup_x |-> workgroup_x,
  workgroup_y |-> workgroup_y, builtin_decoration |-> builtin_decoration,
  builtin_block |-> builtin_block, builtin_name |-> builtin_name,
  access_decoration |-> access_decoration, access_block |-> access_block,
  access_name |-> access_name, stage_decoration |-> stage_decoration,
  stage_block |-> stage_block, pipeline_stage |-> pipeline_stage,
  block_decoration |-> block_decoration, no_decoration |-> no_decoration,
  positive_sint |-> positive_sint, nonzero_positive_sint |-> nonzero_positive_sint]
=============================================================================
