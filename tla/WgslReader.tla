----------------------------- MODULE WgslReader -----------------------------
(***************************************************************************)
(* What the WGSL reader builds from a text without errors: the functions of *)
(* the parser that create the nodes, each from a sequence of tokens to the  *)
(* node and the rest of the tokens.  (WgslParser has what the parser does   *)
(* with texts that have errors.)                                            *)
(***************************************************************************)
EXTENDS Ast

Got(node, rest) == [node |-> node, rest |-> rest]
Take(got, Rest(_, _)) == Rest(got.node, got.rest)
Starts(ts, t) == ts # <<>> /\ ts[1].t = t
StartsWithOp(ts, ops) == Starts(ts, "op") /\ ts[1].v \in ops
After(ts, n) == SubSeq(ts, n + 1, Len(ts))

-----------------------------------------------------------------------------
(* Expressions *)

\* The binary operators, from the ones that bind least.
Levels == <<{"||"}, {"&&"}, {"|"}, {"^"}, {"&"}, {"==", "!="}, {"<", ">", "<=", ">="}, {"<<", ">>"},
            {"+", "-"}, {"*", "/", "%"}>>

RECURSIVE binary_expression(_, _), binary_expr(_, _, _), unary_expression(_), postfix_expr(_, _), arguments(_, _)
logical_or_expression(ts) == binary_expression(1, ts)
paren_rhs_stmt(ts) == Take(logical_or_expression(After(ts, 1)), LAMBDA e, rest : Got(e, After(rest, 1)))

\* The arguments up to the closing parenthesis, after the ones already read.
arguments(ts, so_far) ==
  LET More(e, rest) == IF Starts(rest, ",") THEN arguments(After(rest, 1), Append(so_far, e))
                       ELSE Got(Append(so_far, e), After(rest, 1))
  IN  IF Starts(ts, ")") THEN Got(so_far, After(ts, 1)) ELSE Take(logical_or_expression(ts), More)

primary_expression(ts) ==
  CASE Starts(ts, "literal") -> Got(ts[1].v, After(ts, 1))
    [] Starts(ts, "(")       -> paren_rhs_stmt(ts)
    [] Starts(ts, "bitcast") -> Take(paren_rhs_stmt(After(ts, 2)), LAMBDA e, rest : Got(Bitcast(ts[2].v, e), rest))
    [] Starts(ts, "name")    -> Got(Identifier(ts[1].v), After(ts, 1))
    [] Starts(ts, "type")    ->
         Take(arguments(After(ts, 2), <<>>), LAMBDA args, rest : Got(TypeConstructor(ts[1].v, args), rest))

postfix_expr(prefix, ts) ==
  CASE Starts(ts, "[") -> Take(logical_or_expression(After(ts, 1)),
                               LAMBDA i, rest : postfix_expr(ArrayAccessor(prefix, i), After(rest, 1)))
    [] Starts(ts, "(") -> Take(arguments(After(ts, 1), <<>>),
                               LAMBDA args, rest : postfix_expr(CallExpr(prefix.n, args), rest))
    [] Starts(ts, ".") -> postfix_expr(MemberAccessor(prefix, ts[2].v), After(ts, 2))
    [] OTHER           -> Got(prefix, ts)

postfix_expression(ts) == Take(primary_expression(ts), postfix_expr)

unary_expression(ts) ==
  IF StartsWithOp(ts, {"-", "!"})
  THEN Take(unary_expression(After(ts, 1)), LAMBDA e, rest : Got(UnaryOp(ts[1].v, e), rest))
  ELSE postfix_expression(ts)

LevelOf(ts) == IF ts = <<>> THEN 0 ELSE SelectInSeq(Levels, LAMBDA ops : StartsWithOp(ts, ops))

\* The functions of the parser for the operators of a level and of those that bind more.
binary_expression(level, ts) == Take(unary_expression(ts), LAMBDA e, rest : binary_expr(level, e, rest))

\* lhs, with the operators that follow it: to the left first.
binary_expr(level, lhs, ts) ==
  IF LevelOf(ts) < level THEN Got(lhs, ts)
  ELSE Take(binary_expression(LevelOf(ts) + 1, After(ts, 1)),
            LAMBDA rhs, rest : binary_expr(level, Binary(ts[1].v, lhs, rhs), rest))

-----------------------------------------------------------------------------
(* Statements *)

RECURSIVE statement(_), statements(_, _), elses_of(_, _), cases_of(_, _)

\* { statements }; the closing brace, or what else no statement starts with, ends them.
body_stmt(ts) == Take(statements(After(ts, 1), <<>>), LAMBDA ss, rest : Got(ss, After(rest, 1)))
statements(ts, so_far) ==
  IF Starts(ts, "}") \/ Starts(ts, "continuing") THEN Got(so_far, ts)
  ELSE Take(statement(ts), LAMBDA s, rest : statements(rest, Append(so_far, s)))

variable_ident_decl(ts) == Got([n |-> ts[1].v, ty |-> ts[3].v], After(ts, 3))

\* An initial value, if there is one, and the semicolon.
initializer(ts) ==
  IF Starts(ts, "=") THEN Take(logical_or_expression(After(ts, 1)), LAMBDA e, rest : Got(e, After(rest, 1)))
  ELSE Got(Null, After(ts, 1))

\* A declaration, here or in the module: var <class> name : type = init;
variable_decl(ts, decos) ==
  LET class == IF Starts(After(ts, 1), "class") THEN ts[2].v ELSE "none"
  IN  Take(variable_ident_decl(After(ts, IF class = "none" THEN 1 ELSE 2)), LAMBDA decl, rest : Take(initializer(rest),
        LAMBDA init, end : Got(Variable(decl.n, class, decl.ty, Starts(ts, "const"), init, decos), end)))

assignment_stmt(ts) ==
  Take(unary_expression(ts), LAMBDA l, rest : Take(logical_or_expression(After(rest, 1)),
    LAMBDA r, end : Got(Assignment(l, r), After(end, 1))))

func_call_stmt(ts) ==
  Take(arguments(After(ts, 2), <<>>), LAMBDA args, rest : Got(CallStatement(CallExpr(ts[1].v, args)), After(rest, 1)))

\* A condition in parentheses and a body.
Guarded(ts, Made(_, _, _)) ==
  Take(paren_rhs_stmt(ts), LAMBDA c, rest : Take(body_stmt(rest), LAMBDA body, end : Made(c, body, end)))

if_stmt(ts) ==
  Guarded(After(ts, 1), LAMBDA c, body, rest : Take(elses_of(rest, <<>>),
    LAMBDA elses, end : Got(IfStatement(c, body, elses), end)))

elses_of(ts, so_far) ==
  CASE Starts(ts, "elseif") ->
         Guarded(After(ts, 1), LAMBDA c, body, rest : elses_of(rest, Append(so_far, ElseStatement(c, body))))
    [] Starts(ts, "else")   ->
         Take(body_stmt(After(ts, 1)), LAMBDA body, rest : Got(Append(so_far, ElseStatement(Null, body)), rest))
    [] OTHER                -> Got(so_far, ts)

case_selectors(ts) ==
  LET colon == SelectInSeq(ts, LAMBDA t : t.t = ":")
      literals == SelectSeq(SubSeq(ts, 1, colon), LAMBDA t : t.t = "literal")
  IN  Got([i \in DOMAIN literals |-> literals[i].v], After(ts, colon))

\* case or default: { ... }
switch_body(ts) ==
  Take(IF Starts(ts, "case") THEN case_selectors(After(ts, 1)) ELSE Got(<<>>, After(ts, 2)),
       LAMBDA sels, rest : Take(body_stmt(rest), LAMBDA body, end : Got(CaseStatement(sels, body), end)))
cases_of(ts, so_far) ==
  IF Starts(ts, "}") THEN Got(so_far, After(ts, 1))
  ELSE Take(switch_body(ts), LAMBDA c, rest : cases_of(rest, Append(so_far, c)))
switch_stmt(ts) ==
  Take(paren_rhs_stmt(After(ts, 1)), LAMBDA c, rest : Take(cases_of(After(rest, 1), <<>>),
    LAMBDA cases, end : Got(SwitchStatement(c, cases), end)))

loop_stmt(ts) ==
  LET Continuing(rest) == IF Starts(rest, "continuing") THEN body_stmt(After(rest, 1)) ELSE Got(<<>>, rest)
  IN  Take(statements(After(ts, 2), <<>>), LAMBDA body, rest : Take(Continuing(rest),
        LAMBDA cont, end : Got(LoopStatement(body, cont), After(end, 1))))

return_stmt(ts) ==
  IF Starts(After(ts, 1), ";") THEN Got(Return(Null), After(ts, 2))
  ELSE Take(logical_or_expression(After(ts, 1)), LAMBDA e, rest : Got(Return(e), After(rest, 1)))

Simple == [break |-> Break, continue |-> Continue, discard |-> Discard, fallthrough |-> Fallthrough]

statement(ts) ==
  LET k == ts[1].t
  IN  CASE k \in DOMAIN Simple    -> Got(Simple[k], After(ts, 2))
        [] k = "return"           -> return_stmt(ts)
        [] k \in {"var", "const"} -> Take(variable_decl(ts, NoDeco), LAMBDA v, rest : Got(VariableDecl(v), rest))
        [] k = "if"               -> if_stmt(ts)
        [] k = "switch"           -> switch_stmt(ts)
        [] k = "loop"             -> loop_stmt(ts)
        [] k = "{"                -> Take(body_stmt(ts), LAMBDA body, rest : Got(Block(body), rest))
        [] OTHER                  -> IF Starts(ts, "name") /\ Starts(After(ts, 1), "(") THEN func_call_stmt(ts) ELSE assignment_stmt(ts)

-----------------------------------------------------------------------------
(* The module *)

RECURSIVE params_of(_, _), translation_unit(_, _)
params_of(ts, so_far) ==
  LET decl == variable_ident_decl(ts)
      all == Append(so_far, Variable(decl.node.n, "none", decl.node.ty, TRUE, Null, NoDeco))
  IN  CASE Starts(ts, ")")        -> Got(so_far, After(ts, 1))
        [] Starts(decl.rest, ",") -> params_of(After(decl.rest, 1), all)
        [] OTHER                  -> Got(all, After(decl.rest, 1))

function_decl(ts, decos) ==
  LET stage == IF "stage" \in DOMAIN decos THEN decos.stage ELSE "none"
  IN  Take(params_of(After(ts, 3), <<>>), LAMBDA params, rest : Take(body_stmt(After(rest, 2)),
        LAMBDA body, end : Got(Function(ts[2].v, params, rest[2].v, body, stage), end)))

\* One declaration after the other, with the decorations before it.
translation_unit(ts, m) ==
  LET decos == IF Starts(ts, "decorations") THEN ts[1].v ELSE NoDeco
      from == IF Starts(ts, "decorations") THEN After(ts, 1) ELSE ts
  IN  CASE ts = <<>>                -> m
        [] Starts(from, "declared") -> translation_unit(After(from, 1), [m EXCEPT !.types = Append(@, from[1].v)])
        [] Starts(from, "fn")       ->
             Take(function_decl(from, decos), LAMBDA f, rest : translation_unit(rest, [m EXCEPT !.functions = Append(@, f)]))
        [] OTHER                    ->
             Take(variable_decl(from, decos), LAMBDA v, rest : translation_unit(rest, [m EXCEPT !.globals = Append(@, v)]))

Parse(ts) == translation_unit(ts, [types |-> <<>>, globals |-> <<>>, functions |-> <<>>])
=============================================================================
