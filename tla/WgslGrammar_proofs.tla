-------------------------- MODULE WgslGrammar_proofs --------------------------
(***************************************************************************)
(* What the proofs about WgslParser need to know of the grammar: what each *)
(* function calls, from where, and what it does with the results.          *)
(***************************************************************************)
EXTENDS WgslGrammar, Naturals, TLAPS

\* The functions of the grammar, but for the outermost one.
Declarations == {
  "global_sync", "global", "global_variable", "global_constant", "alias", "struct",
  "global_variable_decl", "global_constant_decl", "variable_decl", "variable_ident_decl",
  "variable_storage_decoration", "storage_class_block", "storage_class", "type_alias",
  "struct_decl", "struct_body_decl", "struct_members", "struct_member_sync", "member",
  "struct_member", "function_decl", "function_header", "function_name", "function_params",
  "param_list", "function_type_decl"}
TypeFunctions == {
  "type_decl", "type_decl_of", "constructed_type", "scalar_type", "vector_type", "type_block",
  "expect_type", "pointer_type", "pointer_block", "pointer", "array_type", "array_block",
  "array", "texture_sampler_types", "sampler_type", "sampled_texture", "storage_texture",
  "image_block", "image_storage_type"}
StatementFunctions == {
  "body_stmt", "statements", "statement", "empty_statements", "empty_statement",
  "statement_sync", "non_block_statement", "simple_statement", "block_statement", "nested_body",
  "return_stmt", "break_stmt", "discard_stmt", "func_call_stmt", "variable_stmt", "const_stmt",
  "var_stmt", "assignment_stmt", "if_stmt", "else_if", "else_stmt", "switch_stmt",
  "switch_block", "switch_bodies", "switch_body", "case_stmt", "default_stmt", "case_selectors",
  "case_selector", "int_selector", "bad_selector", "more_selectors", "next_selector",
  "comma_selector", "case_block", "case_body", "fallthrough", "loop_stmt", "loop_block",
  "loop_body", "continuing_stmt", "for_stmt", "for_header_block", "for_header",
  "for_header_initializer", "for_header_continuing"}
Expressions == {
  "paren_rhs_stmt", "paren_expression", "primary_expression", "parenthesized", "bitcast",
  "identifier", "type_constructor", "constructor_block", "constructor_arguments",
  "postfix_expression", "postfix_expr", "postfix", "array_accessor", "call", "member_accessor",
  "argument_expression_list", "unary_expression", "unary", "multiplicative_expression",
  "additive_expression", "shift_expression", "shift_expr", "shift", "shift_left", "shift_right",
  "relational_expression", "equality_expression", "and_expression", "exclusive_or_expression",
  "inclusive_or_expression", "logical_and_expression", "logical_or_expression"}
Constants == {
  "const_literal", "plain_literal", "float_literal", "const_expr", "const_value",
  "const_constructor", "const_block", "const_arguments"}
DecorationFunctions == {
  "decoration_list", "decoration_bracketed_list", "decoration_sync", "decorations",
  "expect_decoration", "position_decoration", "position_block", "stride_decoration",
  "stride_block", "workgroup_decoration", "workgroup_block", "workgroup_x", "workgroup_y",
  "builtin_decoration", "builtin_block", "builtin_name", "access_decoration", "access_block",
  "access_name", "stage_decoration", "stage_block", "pipeline_stage", "block_decoration",
  "no_decoration", "positive_sint", "nonzero_positive_sint"}
Callable ==
  Declarations \cup TypeFunctions \cup StatementFunctions \cup Expressions \cup Constants
    \cup DecorationFunctions

\* What is called outside of a block of statements.
Outer ==
  {"expect_global_decl", "body_stmt"} \cup Declarations \cup TypeFunctions \cup Constants
    \cup DecorationFunctions

\* The items that call a function.
Jobs == {"call", "then", "each", "unless"}

\* Functions that one function calls.
Caller == [
  global_sync |-> "expect_global_decl", function_decl |-> "expect_global_decl",
  global |-> "global_sync", global_variable |-> "global", struct |-> "global",
  global_variable_decl |-> "global_variable", struct_decl |-> "struct",
  struct_member |-> "member"]

\* Function p can call q at item i: statements are called by statements, in a block,
\* and where a declaration is missing.
CalleeOK(p, i, q) ==
  /\ q \in Callable
  /\ q \in DOMAIN Caller => p = Caller[q]
  /\ p \in Outer /\ ~(p = "expect_global_decl" /\ i = 8) => q \in Outer

\* An error is returned, reported or noted, and nothing else is.
PolicyOK(it) ==
  /\ it.matched \in {"next", "keep", "matched", "first", "salvage"}
  /\ it.nomatch \in {"next", "nomatch", "report", "matched", "skip", "endless"}
  /\ it.errored \in {"errored", "note", "params", "body", "outer", "report"}

\* Item i of function p.
ItemOK(p, i, it) ==
  /\ it.do \in Jobs => CalleeOK(p, i, it.of)
  /\ it.do = "call" =>
       /\ PolicyOK(it)
       /\ it.matched = "salvage" => p = "expect_global_decl"
       /\ it.matched = "keep" => p \notin {"type_alias", "struct_decl"}
  /\ it.do = "takeaccess" => p = "variable_ident_decl" /\ i = 4
  /\ it.do = "register" => p \in {"struct", "type_alias"}
  /\ it.do = "cast" => it.errored \in {"errored", "note"}
  /\ it.do = "name" => it.toks = Identifiers
  /\ "and" \in DOMAIN it => p \notin Outer /\ it.do \in {"match2", "refuse2"}

FunctionOK(p, f) ==
  /\ f.form \in {"do", "alt", "many", "while", "list", "sync", "block"}
  /\ f.form = "do" =>
       /\ Len(f.items) \in Nat /\ DOMAIN f.items = 1..Len(f.items)
       /\ \A i \in DOMAIN f.items : ItemOK(p, i, f.items[i])
  /\ f.form = "alt" =>
       /\ Len(f.of) \in Nat \ {0} /\ DOMAIN f.of = 1..Len(f.of)
       /\ \A i \in DOMAIN f.of : CalleeOK(p, 1, f.of[i])
  /\ f.form \in {"many", "while", "list", "sync"} => CalleeOK(p, 1, f.of)
  /\ f.form = "block" => f.of \in Callable /\ f.of \notin DOMAIN Caller /\ f.close # "eof"

-----------------------------------------------------------------------------
(* Functions of many items, one item at a time *)

LEMMA DoForm == \A s : Do(s).form = "do" /\ Do(s).items = s
BY DEF Do

LEMMA Do5 ==
  ASSUME NEW p, NEW a, NEW b, NEW c, NEW d, NEW e,
         ItemOK(p, 1, a), ItemOK(p, 2, b), ItemOK(p, 3, c), ItemOK(p, 4, d), ItemOK(p, 5, e)
  PROVE  FunctionOK(p, Do(<<a, b, c, d, e>>))
<1> DEFINE s == <<a, b, c, d, e>>
<1>1. Len(s) = 5 /\ DOMAIN s = 1..5
  OBVIOUS
<1>2. s[1] = a /\ s[2] = b /\ s[3] = c /\ s[4] = d /\ s[5] = e
  OBVIOUS
<1> HIDE DEF s
<1>3. \A i \in DOMAIN s : ItemOK(p, i, s[i])
  BY <1>1, <1>2
<1>4. FunctionOK(p, Do(s))
  BY <1>1, <1>3, DoForm DEF FunctionOK
<1> QED BY <1>4 DEF s

LEMMA Do8 ==
  ASSUME NEW p, NEW a, NEW b, NEW c, NEW d, NEW e, NEW f, NEW g, NEW h,
         ItemOK(p, 1, a), ItemOK(p, 2, b), ItemOK(p, 3, c), ItemOK(p, 4, d),
         ItemOK(p, 5, e), ItemOK(p, 6, f), ItemOK(p, 7, g), ItemOK(p, 8, h)
  PROVE  FunctionOK(p, Do(<<a, b, c, d, e, f, g, h>>))
<1> DEFINE s == <<a, b, c, d, e, f, g, h>>
<1>1. Len(s) = 8 /\ DOMAIN s = 1..8
  OBVIOUS
<1>2. s[1] = a /\ s[2] = b /\ s[3] = c /\ s[4] = d /\ s[5] = e /\ s[6] = f /\ s[7] = g /\ s[8] = h
  OBVIOUS
<1> HIDE DEF s
<1>3. \A i \in DOMAIN s : ItemOK(p, i, s[i])
  BY <1>1, <1>2
<1>4. FunctionOK(p, Do(s))
  BY <1>1, <1>3, DoForm DEF FunctionOK
<1> QED BY <1>4 DEF s

-----------------------------------------------------------------------------
(* The functions, as the parser finds them *)

LEMMA DomainOfFunctions == DOMAIN Functions = Callable \cup {"expect_global_decl"}
BY SMTT(60) DEF Functions, Callable, Declarations, TypeFunctions, StatementFunctions, Expressions, Constants, DecorationFunctions

USE DEF CalleeOK, PolicyOK, ItemOK, FunctionOK, Jobs, Caller,
  Callable, Outer, Declarations, TypeFunctions, StatementFunctions, Expressions, Constants, DecorationFunctions,
  Do, Alt, Many, While, Sync, Block, Call, First, Must, May, Note, List, Item, Match, Peek, Expect,
  Need, Take, MatchedAt, MatchedBut, Refuse, Suffix, Lack, Decorate, Name, TypeName, PlainName,
  Then, Each, Unless, Back, Match2, Refuse2, Act, Fail, StopIfBad, InSync, Cast, NoteCast, Binary

LEMMA DeclarationsOK == \A p \in Declarations : FunctionOK(p, Functions[p])
<1>1. /\ Functions["global_sync"] = global_sync
      /\ Functions["global"] = global
      /\ Functions["global_variable"] = global_variable
      /\ Functions["global_constant"] = global_constant
      /\ Functions["alias"] = alias
      /\ Functions["struct"] = struct
  BY DEF Functions
<1>2. /\ Functions["global_variable_decl"] = global_variable_decl
      /\ Functions["global_constant_decl"] = global_constant_decl
      /\ Functions["variable_decl"] = variable_decl
      /\ Functions["variable_ident_decl"] = variable_ident_decl
      /\ Functions["variable_storage_decoration"] = variable_storage_decoration
      /\ Functions["storage_class_block"] = storage_class_block
  BY DEF Functions
<1>3. /\ Functions["storage_class"] = storage_class
      /\ Functions["type_alias"] = type_alias
      /\ Functions["struct_decl"] = struct_decl
      /\ Functions["struct_body_decl"] = struct_body_decl
      /\ Functions["struct_members"] = struct_members
      /\ Functions["struct_member_sync"] = struct_member_sync
  BY DEF Functions
<1>4. /\ Functions["member"] = member
      /\ Functions["struct_member"] = struct_member
      /\ Functions["function_decl"] = function_decl
      /\ Functions["function_header"] = function_header
      /\ Functions["function_name"] = function_name
      /\ Functions["function_params"] = function_params
  BY DEF Functions
<1>5. /\ Functions["param_list"] = param_list
      /\ Functions["function_type_decl"] = function_type_decl
  BY DEF Functions
<1>6. FunctionOK("global_sync", global_sync)
  BY DEF global_sync
<1>7. FunctionOK("global", global)
  BY DEF global
<1>8. FunctionOK("global_variable", global_variable)
  BY DEF global_variable
<1>9. FunctionOK("global_constant", global_constant)
  BY DEF global_constant
<1>10. FunctionOK("alias", alias)
  BY DEF alias
<1>11. FunctionOK("struct", struct)
  BY DEF struct
<1>12. FunctionOK("global_variable_decl", global_variable_decl)
  BY DEF global_variable_decl
<1>13. FunctionOK("global_constant_decl", global_constant_decl)
  BY DEF global_constant_decl
<1>14. FunctionOK("variable_decl", variable_decl)
  BY DEF variable_decl
<1>15. FunctionOK("variable_ident_decl", variable_ident_decl)
  BY DEF variable_ident_decl
<1>16. FunctionOK("variable_storage_decoration", variable_storage_decoration)
  BY DEF variable_storage_decoration
<1>17. FunctionOK("storage_class_block", storage_class_block)
  BY DEF storage_class_block
<1>18. FunctionOK("storage_class", storage_class)
  BY DEF storage_class
<1>19. FunctionOK("type_alias", type_alias)
  BY DEF type_alias
<1>20. FunctionOK("struct_decl", struct_decl)
  BY DEF struct_decl
<1>21. FunctionOK("struct_body_decl", struct_body_decl)
  BY DEF struct_body_decl
<1>22. FunctionOK("struct_members", struct_members)
  BY DEF struct_members
<1>23. FunctionOK("struct_member_sync", struct_member_sync)
  BY DEF struct_member_sync
<1>24. FunctionOK("member", member)
  BY DEF member
<1>25. FunctionOK("struct_member", struct_member)
  BY DEF struct_member
<1>26. FunctionOK("function_decl", function_decl)
  BY DEF function_decl
<1>27. FunctionOK("function_header", function_header)
  BY DEF function_header
<1>28. FunctionOK("function_name", function_name)
  BY DEF function_name
<1>29. FunctionOK("function_params", function_params)
  BY DEF function_params
<1>30. FunctionOK("param_list", param_list)
  BY DEF param_list
<1>31. FunctionOK("function_type_decl", function_type_decl)
  BY DEF function_type_decl
<1> HIDE DEF FunctionOK
<1> QED BY <1>1, <1>2, <1>3, <1>4, <1>5, <1>6, <1>7, <1>8, <1>9, <1>10, <1>11, <1>12, <1>13,
       <1>14, <1>15, <1>16, <1>17, <1>18, <1>19, <1>20, <1>21, <1>22, <1>23, <1>24, <1>25, <1>26,
       <1>27, <1>28, <1>29, <1>30, <1>31

LEMMA TypeFunctionsOK == \A p \in TypeFunctions : FunctionOK(p, Functions[p])
<1>1. /\ Functions["type_decl"] = type_decl
      /\ Functions["type_decl_of"] = type_decl_of
      /\ Functions["constructed_type"] = constructed_type
      /\ Functions["scalar_type"] = scalar_type
      /\ Functions["vector_type"] = vector_type
      /\ Functions["type_block"] = type_block
  BY DEF Functions
<1>2. /\ Functions["expect_type"] = expect_type
      /\ Functions["pointer_type"] = pointer_type
      /\ Functions["pointer_block"] = pointer_block
      /\ Functions["pointer"] = pointer
      /\ Functions["array_type"] = array_type
      /\ Functions["array_block"] = array_block
  BY DEF Functions
<1>3. /\ Functions["array"] = array
      /\ Functions["texture_sampler_types"] = texture_sampler_types
      /\ Functions["sampler_type"] = sampler_type
      /\ Functions["sampled_texture"] = sampled_texture
      /\ Functions["storage_texture"] = storage_texture
      /\ Functions["image_block"] = image_block
  BY DEF Functions
<1>4. /\ Functions["image_storage_type"] = image_storage_type
  BY DEF Functions
<1>5. FunctionOK("type_decl", type_decl)
  BY DEF type_decl
<1>6. FunctionOK("type_decl_of", type_decl_of)
  BY DEF type_decl_of
<1>7. FunctionOK("constructed_type", constructed_type)
  BY DEF constructed_type
<1>8. FunctionOK("scalar_type", scalar_type)
  BY DEF scalar_type
<1>9. FunctionOK("vector_type", vector_type)
  BY DEF vector_type
<1>10. FunctionOK("type_block", type_block)
  BY DEF type_block
<1>11. FunctionOK("expect_type", expect_type)
  BY DEF expect_type
<1>12. FunctionOK("pointer_type", pointer_type)
  BY DEF pointer_type
<1>13. FunctionOK("pointer_block", pointer_block)
  BY DEF pointer_block
<1>14. FunctionOK("pointer", pointer)
  BY DEF pointer
<1>15. FunctionOK("array_type", array_type)
  BY DEF array_type
<1>16. FunctionOK("array_block", array_block)
  BY DEF array_block
<1>17. FunctionOK("array", array)
  BY DEF array
<1>18. FunctionOK("texture_sampler_types", texture_sampler_types)
  BY DEF texture_sampler_types
<1>19. FunctionOK("sampler_type", sampler_type)
  BY DEF sampler_type
<1>20. FunctionOK("sampled_texture", sampled_texture)
  BY DEF sampled_texture
<1>21. FunctionOK("storage_texture", storage_texture)
  BY DEF storage_texture
<1>22. FunctionOK("image_block", image_block)
  BY DEF image_block
<1>23. FunctionOK("image_storage_type", image_storage_type)
  BY DEF image_storage_type
<1> HIDE DEF FunctionOK
<1> QED BY <1>1, <1>2, <1>3, <1>4, <1>5, <1>6, <1>7, <1>8, <1>9, <1>10, <1>11, <1>12, <1>13,
       <1>14, <1>15, <1>16, <1>17, <1>18, <1>19, <1>20, <1>21, <1>22, <1>23

LEMMA StatementFunctionsOK == \A p \in StatementFunctions : FunctionOK(p, Functions[p])
<1>1. /\ Functions["body_stmt"] = body_stmt
      /\ Functions["statements"] = statements
      /\ Functions["statement"] = statement
      /\ Functions["empty_statements"] = empty_statements
      /\ Functions["empty_statement"] = empty_statement
      /\ Functions["statement_sync"] = statement_sync
  BY DEF Functions
<1>2. /\ Functions["non_block_statement"] = non_block_statement
      /\ Functions["simple_statement"] = simple_statement
      /\ Functions["block_statement"] = block_statement
      /\ Functions["nested_body"] = nested_body
      /\ Functions["return_stmt"] = return_stmt
      /\ Functions["break_stmt"] = break_stmt
  BY DEF Functions
<1>3. /\ Functions["discard_stmt"] = discard_stmt
      /\ Functions["func_call_stmt"] = func_call_stmt
      /\ Functions["variable_stmt"] = variable_stmt
      /\ Functions["const_stmt"] = const_stmt
      /\ Functions["var_stmt"] = var_stmt
      /\ Functions["assignment_stmt"] = assignment_stmt
  BY DEF Functions
<1>4. /\ Functions["if_stmt"] = if_stmt
      /\ Functions["else_if"] = else_if
      /\ Functions["else_stmt"] = else_stmt
      /\ Functions["switch_stmt"] = switch_stmt
      /\ Functions["switch_block"] = switch_block
      /\ Functions["switch_bodies"] = switch_bodies
  BY DEF Functions
<1>5. /\ Functions["switch_body"] = switch_body
      /\ Functions["case_stmt"] = case_stmt
      /\ Functions["default_stmt"] = default_stmt
      /\ Functions["case_selectors"] = case_selectors
      /\ Functions["case_selector"] = case_selector
      /\ Functions["int_selector"] = int_selector
  BY DEF Functions
<1>6. /\ Functions["bad_selector"] = bad_selector
      /\ Functions["more_selectors"] = more_selectors
      /\ Functions["next_selector"] = next_selector
      /\ Functions["comma_selector"] = comma_selector
      /\ Functions["case_block"] = case_block
      /\ Functions["case_body"] = case_body
  BY DEF Functions
<1>7. /\ Functions["fallthrough"] = fallthrough
      /\ Functions["loop_stmt"] = loop_stmt
      /\ Functions["loop_block"] = loop_block
      /\ Functions["loop_body"] = loop_body
      /\ Functions["continuing_stmt"] = continuing_stmt
      /\ Functions["for_stmt"] = for_stmt
  BY DEF Functions
<1>8. /\ Functions["for_header_block"] = for_header_block
      /\ Functions["for_header"] = for_header
      /\ Functions["for_header_initializer"] = for_header_initializer
      /\ Functions["for_header_continuing"] = for_header_continuing
  BY DEF Functions
<1>9. FunctionOK("body_stmt", body_stmt)
  BY DEF body_stmt
<1>10. FunctionOK("statements", statements)
  BY DEF statements
<1>11. FunctionOK("statement", statement)
  BY DEF statement
<1>12. FunctionOK("empty_statements", empty_statements)
  BY DEF empty_statements
<1>13. FunctionOK("empty_statement", empty_statement)
  BY DEF empty_statement
<1>14. FunctionOK("statement_sync", statement_sync)
  BY DEF statement_sync
<1>15. FunctionOK("non_block_statement", non_block_statement)
  BY DEF non_block_statement
<1>16. FunctionOK("simple_statement", simple_statement)
  BY DEF simple_statement
<1>17. FunctionOK("block_statement", block_statement)
  BY DEF block_statement
<1>18. FunctionOK("nested_body", nested_body)
  BY DEF nested_body
<1>19. FunctionOK("return_stmt", return_stmt)
  BY DEF return_stmt
<1>20. FunctionOK("break_stmt", break_stmt)
  BY DEF break_stmt
<1>21. FunctionOK("discard_stmt", discard_stmt)
  BY DEF discard_stmt
<1>22. FunctionOK("func_call_stmt", func_call_stmt)
  BY DEF func_call_stmt
<1>23. FunctionOK("variable_stmt", variable_stmt)
  BY DEF variable_stmt
<1>24. FunctionOK("const_stmt", const_stmt)
  BY DEF const_stmt
<1>25. FunctionOK("var_stmt", var_stmt)
  BY DEF var_stmt
<1>26. FunctionOK("assignment_stmt", assignment_stmt)
  BY DEF assignment_stmt
<1>27. FunctionOK("if_stmt", if_stmt)
  BY DEF if_stmt
<1>28. FunctionOK("else_if", else_if)
  BY DEF else_if
<1>29. FunctionOK("else_stmt", else_stmt)
  BY DEF else_stmt
<1>30. FunctionOK("switch_stmt", switch_stmt)
  BY DEF switch_stmt
<1>31. FunctionOK("switch_block", switch_block)
  BY DEF switch_block
<1>32. FunctionOK("switch_bodies", switch_bodies)
  BY DEF switch_bodies
<1>33. FunctionOK("switch_body", switch_body)
  BY DEF switch_body
<1>34. FunctionOK("case_stmt", case_stmt)
  BY DEF case_stmt
<1>35. FunctionOK("default_stmt", default_stmt)
  BY DEF default_stmt
<1>36. FunctionOK("case_selectors", case_selectors)
  BY DEF case_selectors
<1>37. FunctionOK("case_selector", case_selector)
  BY DEF case_selector
<1>38. FunctionOK("int_selector", int_selector)
  BY DEF int_selector
<1>39. FunctionOK("bad_selector", bad_selector)
  BY DEF bad_selector
<1>40. FunctionOK("more_selectors", more_selectors)
  BY DEF more_selectors
<1>41. FunctionOK("next_selector", next_selector)
  BY DEF next_selector
<1>42. FunctionOK("comma_selector", comma_selector)
  BY DEF comma_selector
<1>43. FunctionOK("case_block", case_block)
  BY DEF case_block
<1>44. FunctionOK("case_body", case_body)
  BY DEF case_body
<1>45. FunctionOK("fallthrough", fallthrough)
  BY DEF fallthrough
<1>46. FunctionOK("loop_stmt", loop_stmt)
  BY DEF loop_stmt
<1>47. FunctionOK("loop_block", loop_block)
  BY DEF loop_block
<1>48. FunctionOK("loop_body", loop_body)
  BY DEF loop_body
<1>49. FunctionOK("continuing_stmt", continuing_stmt)
  BY DEF continuing_stmt
<1>50. FunctionOK("for_stmt", for_stmt)
  BY DEF for_stmt
<1>51. FunctionOK("for_header_block", for_header_block)
  BY DEF for_header_block
<1>52. FunctionOK("for_header_initializer", for_header_initializer)
  BY DEF for_header_initializer
<1>53. FunctionOK("for_header_continuing", for_header_continuing)
  BY DEF for_header_continuing
<1>54. FunctionOK("for_header", for_header)
  <2>1. ItemOK("for_header", 1, May("for_header_initializer")) OBVIOUS
  <2>2. ItemOK("for_header", 2, Expect(Semicolon)) OBVIOUS
  <2>3. ItemOK("for_header", 3, May("logical_or_expression")) OBVIOUS
  <2>4. ItemOK("for_header", 4, Expect(Semicolon)) OBVIOUS
  <2>5. ItemOK("for_header", 5, Call("for_header_continuing", "next", "endless", "errored")) OBVIOUS
  <2> HIDE DEF ItemOK, FunctionOK, Call, Do, Expect, May
  <2> QED BY <2>1, <2>2, <2>3, <2>4, <2>5, Do5 DEF for_header
<1> HIDE DEF FunctionOK
<1> QED BY <1>1, <1>2, <1>3, <1>4, <1>5, <1>6, <1>7, <1>8, <1>9, <1>10, <1>11, <1>12, <1>13,
       <1>14, <1>15, <1>16, <1>17, <1>18, <1>19, <1>20, <1>21, <1>22, <1>23, <1>24, <1>25, <1>26,
       <1>27, <1>28, <1>29, <1>30, <1>31, <1>32, <1>33, <1>34, <1>35, <1>36, <1>37, <1>38, <1>39,
       <1>40, <1>41, <1>42, <1>43, <1>44, <1>45, <1>46, <1>47, <1>48, <1>49, <1>50, <1>51, <1>52,
       <1>53, <1>54

LEMMA ExpressionsOK == \A p \in Expressions : FunctionOK(p, Functions[p])
<1>1. /\ Functions["paren_rhs_stmt"] = paren_rhs_stmt
      /\ Functions["paren_expression"] = paren_expression
      /\ Functions["primary_expression"] = primary_expression
      /\ Functions["parenthesized"] = parenthesized
      /\ Functions["bitcast"] = bitcast
      /\ Functions["identifier"] = identifier
  BY DEF Functions
<1>2. /\ Functions["type_constructor"] = type_constructor
      /\ Functions["constructor_block"] = constructor_block
      /\ Functions["constructor_arguments"] = constructor_arguments
      /\ Functions["postfix_expression"] = postfix_expression
      /\ Functions["postfix_expr"] = postfix_expr
      /\ Functions["postfix"] = postfix
  BY DEF Functions
<1>3. /\ Functions["array_accessor"] = array_accessor
      /\ Functions["call"] = call
      /\ Functions["member_accessor"] = member_accessor
      /\ Functions["argument_expression_list"] = argument_expression_list
      /\ Functions["unary_expression"] = unary_expression
      /\ Functions["unary"] = unary
  BY DEF Functions
<1>4. /\ Functions["multiplicative_expression"] = multiplicative_expression
      /\ Functions["additive_expression"] = additive_expression
      /\ Functions["shift_expression"] = shift_expression
      /\ Functions["shift_expr"] = shift_expr
      /\ Functions["shift"] = shift
      /\ Functions["shift_left"] = shift_left
  BY DEF Functions
<1>5. /\ Functions["shift_right"] = shift_right
      /\ Functions["relational_expression"] = relational_expression
      /\ Functions["equality_expression"] = equality_expression
      /\ Functions["and_expression"] = and_expression
      /\ Functions["exclusive_or_expression"] = exclusive_or_expression
      /\ Functions["inclusive_or_expression"] = inclusive_or_expression
  BY DEF Functions
<1>6. /\ Functions["logical_and_expression"] = logical_and_expression
      /\ Functions["logical_or_expression"] = logical_or_expression
  BY DEF Functions
<1>7. FunctionOK("paren_rhs_stmt", paren_rhs_stmt)
  BY DEF paren_rhs_stmt
<1>8. FunctionOK("paren_expression", paren_expression)
  BY DEF paren_expression
<1>9. FunctionOK("primary_expression", primary_expression)
  BY DEF primary_expression
<1>10. FunctionOK("parenthesized", parenthesized)
  BY DEF parenthesized
<1>11. FunctionOK("bitcast", bitcast)
  BY DEF bitcast
<1>12. FunctionOK("identifier", identifier)
  BY DEF identifier
<1>13. FunctionOK("type_constructor", type_constructor)
  BY DEF type_constructor
<1>14. FunctionOK("constructor_block", constructor_block)
  BY DEF constructor_block
<1>15. FunctionOK("constructor_arguments", constructor_arguments)
  BY DEF constructor_arguments
<1>16. FunctionOK("postfix_expression", postfix_expression)
  BY DEF postfix_expression
<1>17. FunctionOK("postfix_expr", postfix_expr)
  BY DEF postfix_expr
<1>18. FunctionOK("postfix", postfix)
  BY DEF postfix
<1>19. FunctionOK("array_accessor", array_accessor)
  BY DEF array_accessor
<1>20. FunctionOK("call", call)
  BY DEF call
<1>21. FunctionOK("member_accessor", member_accessor)
  BY DEF member_accessor
<1>22. FunctionOK("argument_expression_list", argument_expression_list)
  BY DEF argument_expression_list
<1>23. FunctionOK("unary_expression", unary_expression)
  BY DEF unary_expression
<1>24. FunctionOK("unary", unary)
  BY DEF unary
<1>25. FunctionOK("multiplicative_expression", multiplicative_expression)
  BY DEF multiplicative_expression
<1>26. FunctionOK("additive_expression", additive_expression)
  BY DEF additive_expression
<1>27. FunctionOK("shift_expression", shift_expression)
  BY DEF shift_expression
<1>28. FunctionOK("shift_expr", shift_expr)
  BY DEF shift_expr
<1>29. FunctionOK("shift", shift)
  BY DEF shift
<1>30. FunctionOK("shift_left", shift_left)
  BY DEF shift_left
<1>31. FunctionOK("shift_right", shift_right)
  BY DEF shift_right
<1>32. FunctionOK("relational_expression", relational_expression)
  BY DEF relational_expression
<1>33. FunctionOK("equality_expression", equality_expression)
  BY DEF equality_expression
<1>34. FunctionOK("and_expression", and_expression)
  BY DEF and_expression
<1>35. FunctionOK("exclusive_or_expression", exclusive_or_expression)
  BY DEF exclusive_or_expression
<1>36. FunctionOK("inclusive_or_expression", inclusive_or_expression)
  BY DEF inclusive_or_expression
<1>37. FunctionOK("logical_and_expression", logical_and_expression)
  BY DEF logical_and_expression
<1>38. FunctionOK("logical_or_expression", logical_or_expression)
  BY DEF logical_or_expression
<1> HIDE DEF FunctionOK
<1> QED BY <1>1, <1>2, <1>3, <1>4, <1>5, <1>6, <1>7, <1>8, <1>9, <1>10, <1>11, <1>12, <1>13,
       <1>14, <1>15, <1>16, <1>17, <1>18, <1>19, <1>20, <1>21, <1>22, <1>23, <1>24, <1>25, <1>26,
       <1>27, <1>28, <1>29, <1>30, <1>31, <1>32, <1>33, <1>34, <1>35, <1>36, <1>37, <1>38

LEMMA ConstantsOK == \A p \in Constants : FunctionOK(p, Functions[p])
<1>1. /\ Functions["const_literal"] = const_literal
      /\ Functions["plain_literal"] = plain_literal
      /\ Functions["float_literal"] = float_literal
      /\ Functions["const_expr"] = const_expr
      /\ Functions["const_value"] = const_value
      /\ Functions["const_constructor"] = const_constructor
  BY DEF Functions
<1>2. /\ Functions["const_block"] = const_block
      /\ Functions["const_arguments"] = const_arguments
  BY DEF Functions
<1>3. FunctionOK("const_literal", const_literal)
  BY DEF const_literal
<1>4. FunctionOK("plain_literal", plain_literal)
  BY DEF plain_literal
<1>5. FunctionOK("float_literal", float_literal)
  BY DEF float_literal
<1>6. FunctionOK("const_expr", const_expr)
  BY DEF const_expr
<1>7. FunctionOK("const_value", const_value)
  BY DEF const_value
<1>8. FunctionOK("const_constructor", const_constructor)
  BY DEF const_constructor
<1>9. FunctionOK("const_block", const_block)
  BY DEF const_block
<1>10. FunctionOK("const_arguments", const_arguments)
  BY DEF const_arguments
<1> HIDE DEF FunctionOK
<1> QED BY <1>1, <1>2, <1>3, <1>4, <1>5, <1>6, <1>7, <1>8, <1>9, <1>10

LEMMA DecorationFunctionsOK == \A p \in DecorationFunctions : FunctionOK(p, Functions[p])
<1>1. /\ Functions["decoration_list"] = decoration_list
      /\ Functions["decoration_bracketed_list"] = decoration_bracketed_list
      /\ Functions["decoration_sync"] = decoration_sync
      /\ Functions["decorations"] = decorations
      /\ Functions["expect_decoration"] = expect_decoration
      /\ Functions["position_decoration"] = position_decoration
  BY DEF Functions
<1>2. /\ Functions["position_block"] = position_block
      /\ Functions["stride_decoration"] = stride_decoration
      /\ Functions["stride_block"] = stride_block
      /\ Functions["workgroup_decoration"] = workgroup_decoration
      /\ Functions["workgroup_block"] = workgroup_block
      /\ Functions["workgroup_x"] = workgroup_x
  BY DEF Functions
<1>3. /\ Functions["workgroup_y"] = workgroup_y
      /\ Functions["builtin_decoration"] = builtin_decoration
      /\ Functions["builtin_block"] = builtin_block
      /\ Functions["builtin_name"] = builtin_name
      /\ Functions["access_decoration"] = access_decoration
      /\ Functions["access_block"] = access_block
  BY DEF Functions
<1>4. /\ Functions["access_name"] = access_name
      /\ Functions["stage_decoration"] = stage_decoration
      /\ Functions["stage_block"] = stage_block
      /\ Functions["pipeline_stage"] = pipeline_stage
      /\ Functions["block_decoration"] = block_decoration
      /\ Functions["no_decoration"] = no_decoration
  BY DEF Functions
<1>5. /\ Functions["positive_sint"] = positive_sint
      /\ Functions["nonzero_positive_sint"] = nonzero_positive_sint
  BY DEF Functions
<1>6. FunctionOK("decoration_list", decoration_list)
  BY DEF decoration_list
<1>7. FunctionOK("decoration_bracketed_list", decoration_bracketed_list)
  BY DEF decoration_bracketed_list
<1>8. FunctionOK("decoration_sync", decoration_sync)
  BY DEF decoration_sync
<1>9. FunctionOK("expect_decoration", expect_decoration)
  BY DEF expect_decoration
<1>10. FunctionOK("position_decoration", position_decoration)
  BY DEF position_decoration
<1>11. FunctionOK("position_block", position_block)
  BY DEF position_block
<1>12. FunctionOK("stride_decoration", stride_decoration)
  BY DEF stride_decoration
<1>13. FunctionOK("stride_block", stride_block)
  BY DEF stride_block
<1>14. FunctionOK("workgroup_decoration", workgroup_decoration)
  BY DEF workgroup_decoration
<1>15. FunctionOK("workgroup_block", workgroup_block)
  BY DEF workgroup_block
<1>16. FunctionOK("workgroup_x", workgroup_x)
  BY DEF workgroup_x
<1>17. FunctionOK("workgroup_y", workgroup_y)
  BY DEF workgroup_y
<1>18. FunctionOK("builtin_decoration", builtin_decoration)
  BY DEF builtin_decoration
<1>19. FunctionOK("builtin_block", builtin_block)
  BY DEF builtin_block
<1>20. FunctionOK("builtin_name", builtin_name)
  BY DEF builtin_name
<1>21. FunctionOK("access_decoration", access_decoration)
  BY DEF access_decoration
<1>22. FunctionOK("access_block", access_block)
  BY DEF access_block
<1>23. FunctionOK("access_name", access_name)
  BY DEF access_name
<1>24. FunctionOK("stage_decoration", stage_decoration)
  BY DEF stage_decoration
<1>25. FunctionOK("stage_block", stage_block)
  BY DEF stage_block
<1>26. FunctionOK("pipeline_stage", pipeline_stage)
  BY DEF pipeline_stage
<1>27. FunctionOK("block_decoration", block_decoration)
  BY DEF block_decoration
<1>28. FunctionOK("no_decoration", no_decoration)
  BY DEF no_decoration
<1>29. FunctionOK("positive_sint", positive_sint)
  BY DEF positive_sint
<1>30. FunctionOK("nonzero_positive_sint", nonzero_positive_sint)
  BY DEF nonzero_positive_sint
<1>31. FunctionOK("decorations", decorations)
  <2>1. ItemOK("decorations", 1, Note("expect_decoration")) OBVIOUS
  <2>2. ItemOK("decorations", 2, Back(Comma)) OBVIOUS
  <2>3. ItemOK("decorations", 3, Lack(Decorations)) OBVIOUS
  <2>4. ItemOK("decorations", 4, StopIfBad) OBVIOUS
  <2>5. ItemOK("decorations", 5, Expect({"]]"})) OBVIOUS
  <2> HIDE DEF ItemOK, FunctionOK, Back, Do, Expect, Lack, Note, StopIfBad
  <2> QED BY <2>1, <2>2, <2>3, <2>4, <2>5, Do5 DEF decorations
<1> HIDE DEF FunctionOK
<1> QED BY <1>1, <1>2, <1>3, <1>4, <1>5, <1>6, <1>7, <1>8, <1>9, <1>10, <1>11, <1>12, <1>13,
       <1>14, <1>15, <1>16, <1>17, <1>18, <1>19, <1>20, <1>21, <1>22, <1>23, <1>24, <1>25, <1>26,
       <1>27, <1>28, <1>29, <1>30, <1>31

LEMMA ExpectGlobalDeclOK == FunctionOK("expect_global_decl", Functions["expect_global_decl"])
<1>1. FunctionOK("expect_global_decl", expect_global_decl)
  <2>1. ItemOK("expect_global_decl", 1, Take(Semicolon \cup {"eof"})) OBVIOUS
  <2>2. ItemOK("expect_global_decl", 2, Call("decoration_list", "keep", "next", "note")) OBVIOUS
  <2>3. ItemOK("expect_global_decl", 3, InSync) OBVIOUS
  <2>4. ItemOK("expect_global_decl", 4, Call("global_sync", "matched", "next", "note")) OBVIOUS
  <2>5. ItemOK("expect_global_decl", 5, Call("function_decl", "matched", "next", "note")) OBVIOUS
  <2>6. ItemOK("expect_global_decl", 6, StopIfBad) OBVIOUS
  <2>7. ItemOK("expect_global_decl", 7, Act("unused")) OBVIOUS
  <2>8. ItemOK("expect_global_decl", 8, Call("statement", "salvage", "skip", "report")) OBVIOUS
  <2> HIDE DEF ItemOK, FunctionOK, CalleeOK, PolicyOK, Act, Call, Do, InSync, StopIfBad, Take
  <2> QED BY <2>1, <2>2, <2>3, <2>4, <2>5, <2>6, <2>7, <2>8, Do8 DEF expect_global_decl
<1> HIDE DEF FunctionOK
<1>2. Functions["expect_global_decl"] = expect_global_decl
  BY DEF Functions
<1> QED BY <1>1, <1>2

HIDE DEF CalleeOK, PolicyOK, ItemOK, FunctionOK, Jobs, Caller,
  Callable, Outer, Declarations, TypeFunctions, StatementFunctions, Expressions, Constants, DecorationFunctions,
  Do, Alt, Many, While, Sync, Block, Call, First, Must, May, Note, List, Item, Match, Peek, Expect,
  Need, Take, MatchedAt, MatchedBut, Refuse, Suffix, Lack, Decorate, Name, TypeName, PlainName,
  Then, Each, Unless, Back, Match2, Refuse2, Act, Fail, StopIfBad, InSync, Cast, NoteCast, Binary

\* Every function of the grammar is well-formed.
THEOREM GrammarOK == \A p \in DOMAIN Functions : FunctionOK(p, Functions[p])
BY DomainOfFunctions, ExpectGlobalDeclOK, DeclarationsOK, TypeFunctionsOK, StatementFunctionsOK, ExpressionsOK, ConstantsOK, DecorationFunctionsOK DEF Callable

-----------------------------------------------------------------------------
(* Functions that hold decorations, or a name *)

\* The item at which a function uses the decorations of its declaration.
Turn == [
  variable_ident_decl |-> 6, type_decl |-> 3, global_variable_decl |-> 2, global_variable |-> 1,
  struct_decl |-> 4, function_decl |-> 2, struct_member |-> 2]

\* Functions that hold the name of what they declare.
Naming == {"type_alias", "struct_decl", "struct"}

Plain == {
  "variable_ident_decl", "type_decl", "global_variable_decl", "global_variable", "struct_decl",
  "function_decl", "struct_member", "type_alias", "struct"}

\* What such a function does, one item after the other: it lists decorations before it
\* uses them, and it is the last item at which it returns that it has matched.
PlainItem(p, i, it) ==
  /\ it.do \in {"match", "expect", "name", "then", "call", "cast", "takeaccess", "consumed",
                "oneaccess", "register"}
  /\ it.do = "call" =>
       /\ it.matched \in {"next", "keep"} /\ it.nomatch \in {"next", "nomatch", "report"}
       /\ it.errored \in {"errored", "note", "body"}
  /\ p \in DOMAIN Turn /\ i >= Turn[p] =>
       it.do \notin {"name", "takeaccess"} /\ (it.do = "call" => it.matched = "next")
  /\ p \in DOMAIN Turn /\ i = Turn[p] =>
       \/ it.do = "cast"
       \/ it.do = "consumed" /\ p \in {"variable_ident_decl", "type_decl"}
       \/ /\ it.do = "call" /\ p = "global_variable"
          /\ it.nomatch = "nomatch" /\ it.errored = "errored"
  /\ it.do \in Jobs =>
       /\ p = "global_variable" => it.of = "global_variable_decl"
       /\ p = "struct" => it.of = "struct_decl"

PlainOK(p, f) ==
  /\ f.form = "do" /\ Len(f.items) \in Nat /\ DOMAIN f.items = 1..Len(f.items)
  /\ \A i \in DOMAIN f.items : PlainItem(p, i, f.items[i])
  /\ p \in DOMAIN Turn => Turn[p] \in Nat \ {0} /\ Turn[p] <= Len(f.items)

LEMMA PlainItems == \A p \in Plain : PlainOK(p, Functions[p])
<1> USE DEF PlainOK, PlainItem, Turn, Plain, Jobs, Do, Call, First, Must, Note, List, Item, Match,
      Expect, Name, Then, Act, Cast, NoteCast
<1>1. PlainOK("type_decl", type_decl) /\ PlainOK("global_variable_decl", global_variable_decl)
  BY DEF type_decl, global_variable_decl
<1>2. PlainOK("global_variable", global_variable) /\ PlainOK("struct_decl", struct_decl)
  BY DEF global_variable, struct_decl
<1>3. PlainOK("function_decl", function_decl) /\ PlainOK("struct_member", struct_member)
  BY DEF function_decl, struct_member
<1>4. PlainOK("type_alias", type_alias) /\ PlainOK("struct", struct)
  BY DEF type_alias, struct
<1>5. PlainOK("variable_ident_decl", variable_ident_decl)
  BY DEF variable_ident_decl
<1> HIDE DEF PlainOK
<1>6. /\ Functions["variable_ident_decl"] = variable_ident_decl
      /\ Functions["type_decl"] = type_decl
      /\ Functions["global_variable_decl"] = global_variable_decl
      /\ Functions["global_variable"] = global_variable
      /\ Functions["struct_decl"] = struct_decl
      /\ Functions["function_decl"] = function_decl
      /\ Functions["struct_member"] = struct_member
      /\ Functions["type_alias"] = type_alias
      /\ Functions["struct"] = struct
  BY SMTT(60) DEF Functions
<1> QED BY <1>1, <1>2, <1>3, <1>4, <1>5, <1>6

\* const_expr() tests its depth before anything else.
LEMMA ConstExprItem ==
  LET f == Functions["const_expr"]
  IN  f.form = "do" /\ Len(f.items) \in Nat \ {0} /\ f.items[1].do = "depth"
BY DoForm DEF Functions, const_expr, Act
===============================================================================
