------------------------------ MODULE SpirvEmit ------------------------------
(***************************************************************************)
(* How the SPIR-V reader turns the blocks of a function, once SpirvCfg has *)
(* classified them, into nested WGSL statements                            *)
(* (FunctionEmitter::EmitFunctionBodyStatements, function.cc).             *)
(*                                                                         *)
(* Statement lists are numbered in the order they are created; list 1 is   *)
(* the body of the function.  The nested lists of a statement are named by *)
(* number, 0 for a list it does not have, so that a StatementBuilder and   *)
(* the statement it builds are the same record.  What a basic block        *)
(* computes is one statement, "block".                                     *)
(***************************************************************************)
EXTENDS SpirvCfg

VARIABLES
  stage,   \* "analysis", "emit", "emitted", "failed" (an internal error), and
           \* the stages of WgslRun
  next,    \* the block to be emitted
  code,    \* statement list -> the sequence of its statements
  stack    \* statements_stack_: the list, its construct, and the block it ends at

output == <<stage, next, code, stack>>

-----------------------------------------------------------------------------
(* StatementBlock and its stack; st has the two parts of `output` they change *)

TopOf(st) == st.stack[Len(st.stack)]

AddStatement(st, s) == [st EXCEPT !.code[TopOf(st).list] = Append(@, s)]

\* PushNewStatementBlock; the new list is number Len(st.code) + 1.
PushList(st, k, end) ==
  [st EXCEPT !.code  = Append(@, <<>>),
             !.stack = Append(@, [list |-> Len(st.code) + 1, construct |-> k, end |-> end])]

If(cond, of, then, else) == [op |-> "if", cond |-> cond, of |-> of, then |-> then, else |-> else]

\* PushGuard for the guard of header h, and PushTrueGuard: an `if` around what
\* follows up to block end.
PushGuard(st, h, end) ==
  PushList(AddStatement(st, If("guard", h, Len(st.code) + 1, 0)), TopOf(st).construct, end)
PushTrueGuard(st, end) ==
  PushList(AddStatement(st, If("true", 0, Len(st.code) + 1, 0)), TopOf(st).construct, end)

\* MakeSimpleIf: an `if` on the branch condition of block b, with the given
\* statements, of which there is at most one on either side.
AddSimpleIf(st, b, thens, elses) ==
  IF thens = <<>> /\ elses = <<>> THEN st
  ELSE [AddStatement(st, If("branch", b, Len(st.code) + 1, Len(st.code) + 2))
          EXCEPT !.code = @ \o <<thens, elses>>]

-----------------------------------------------------------------------------
(* Terminators *)

\* MakeBranchDetailed: the statement that goes from block b to block d, if one
\* is needed.
SwitchBreakIsImplicit(b, d) ==
  LET exiting == construct[HeaderForMerge(d)]
  IN  \/ b + 1 = d
      \/ Holds(exiting, b + 1) /\ exiting \in {caseHead[b + 1], defaultHead[b + 1]}

\* Mutant of Branch: a switch break is never needed.
Branch_NoSwitchBreak(b, d, forced) ==
  CASE kind[b][d] = "switch_break" -> IF forced THEN <<[op |-> "break"]>> ELSE <<>>
    [] kind[b][d] = "loop_break"   -> <<[op |-> "break"]>>
    [] kind[b][d] = "continue"     -> IF d = b + 1 THEN <<>> ELSE <<[op |-> "continue"]>>
    [] kind[b][d] = "if_break"     -> IF HeaderForMerge(d) \in guard
                                      THEN <<[op |-> "clear", of |-> HeaderForMerge(d)]>> ELSE <<>>
    [] kind[b][d] = "fallthrough"  -> <<[op |-> "fallthrough"]>>
    [] OTHER -> <<>>

Branch(b, d, forced) ==
  CASE kind[b][d] = "switch_break" -> IF ~forced /\ SwitchBreakIsImplicit(b, d)
                                      THEN <<>> ELSE <<[op |-> "break"]>>
    [] kind[b][d] = "loop_break"   -> <<[op |-> "break"]>>
    [] kind[b][d] = "continue"     -> IF d = b + 1 THEN <<>> ELSE <<[op |-> "continue"]>>
    [] kind[b][d] = "if_break"     -> IF HeaderForMerge(d) \in guard
                                      THEN <<[op |-> "clear", of |-> HeaderForMerge(d)]>> ELSE <<>>
    [] kind[b][d] = "fallthrough"  -> <<[op |-> "fallthrough"]>>
    [] OTHER -> <<>>

AddAll(st, ss) == IF ss = <<>> THEN st ELSE AddStatement(st, ss[1])

\* EmitConditionalCaseFallThrough towards the other destination d; the
\* fallthrough comes last.
FallThroughFails(b, d) == kind[b][d] \in {"forward", "if_break", "back"}

ConditionalFallThrough(st, b, d, onTrue) ==
  LET other == Branch(b, d, TRUE)
      split == IF onTrue THEN AddSimpleIf(st, b, <<>>, other) ELSE AddSimpleIf(st, b, other, <<>>)
  IN  AddStatement(split, [op |-> "fallthrough"])

\* The flow guard a branch from b to d clears, or 0.
FlowGuard(b, d) ==
  IF kind[b][d] = "if_break" /\ HeaderForMerge(d) \in guard THEN HeaderForMerge(d) ELSE 0

\* EmitNormalTerminator for an OpBranchConditional to t and f.  What follows a
\* branch to the merge of a guarded selection is put under the guard.
ConditionalBranch(st, b, t, f) ==
  IF t = f THEN AddAll(st, Branch(b, t, FALSE))
  ELSE IF kind[b][t] = "fallthrough" THEN ConditionalFallThrough(st, b, f, TRUE)
  ELSE IF kind[b][f] = "fallthrough" THEN ConditionalFallThrough(st, b, t, FALSE)
  ELSE LET split == AddSimpleIf(st, b, Branch(b, t, FALSE), Branch(b, f, FALSE))
           g     == IF FlowGuard(b, f) # 0 THEN FlowGuard(b, f) ELSE FlowGuard(b, t)
       IN  IF g = 0 THEN split ELSE PushGuard(split, g, TopOf(split).end)

TerminatorFails(b) ==
  /\ Len(targets[b]) = 2 /\ targets[b][1] # targets[b][2]
  /\ \/ kind[b][targets[b][1]] = "fallthrough" /\ FallThroughFails(b, targets[b][2])
     \/ kind[b][targets[b][1]] # "fallthrough" /\ kind[b][targets[b][2]] = "fallthrough"
          /\ FallThroughFails(b, targets[b][1])

NormalTerminator(st, b) ==
  CASE Len(targets[b]) = 0 -> AddStatement(st, [op |-> "return"])
    [] Len(targets[b]) = 1 -> AddAll(st, Branch(b, targets[b][1], FALSE))
    [] Len(targets[b]) = 2 -> ConditionalBranch(st, b, targets[b][1], targets[b][2])

-----------------------------------------------------------------------------
(* Constructs *)

\* The guard variable of the selection headed by b is declared before its `if`.
\* Mutant of DeclareGuard: nothing is declared.
DeclareGuard_Never(st, b) == st

DeclareGuard(st, b) ==
  IF b \in guard THEN AddStatement(st, [op |-> "declare", of |-> b]) ELSE st

\* EmitIfStart.  The lists are pushed in the reverse order of their blocks: what
\* follows a premerge, the else-clause, the then-clause.
IfStart(st, b) ==
  LET k        == construct[b]
      end      == constructs[k].end
      guarded  == b \in guard
      merged   == IF premerge[b] # 0 THEN premerge[b] ELSE end
      thenEnd  == IF FalseHead(b) # 0 THEN FalseHead(b) ELSE merged
      elseEnd  == merged
      elseGuard == TrueHead(b) # 0 /\ FalseHead(b) # 0 /\ guarded
      s0    == DeclareGuard(st, b)
      \* the numbers the lists of the two clauses are going to have
      else  == Len(st.code) + (IF premerge[b] # 0 THEN 2 ELSE 1)
      then  == else + (IF elseGuard THEN 2 ELSE 1)
      s1    == AddStatement(s0, If("branch", b, then, else))
      s2    == IF premerge[b] = 0 THEN s1
               ELSE IF guarded THEN PushGuard(s1, b, end) ELSE PushTrueGuard(s1, end)
      s3    == PushList(s2, k, elseEnd)
      s4    == IF elseGuard THEN PushGuard(s3, b, elseEnd) ELSE s3
  IN  IF elseEnd < thenEnd
      THEN PushList(AddStatement(s0, If("branch", b, 0, Len(st.code) + 1)), k, elseEnd)
      ELSE PushList(s4, k, thenEnd)

\* EmitSwitchStart: one list for the switch, whose statements go nowhere, and
\* one for every clause, pushed from the last clause to the first; a default
\* that is also a case gets a clause of its own that falls through to it.
SwitchStart(st, b) ==
  LET k      == construct[b]
      end    == constructs[k].end
      labels == targets[b]
      heads  == SetToSortSeq(ToSet(labels), <)
      m      == Len(heads)
      values(i)  == {j \in 2..Len(labels) : labels[j] = heads[i]}
      listOf(i)  == Len(st.code) + 1 + (m - i + 1)
      endOf(i)   == IF i < m THEN heads[i + 1] ELSE end
      clause(i)  == [on |-> IF values(i) = {} THEN {1} ELSE values(i), list |-> listOf(i)]
      extra(i)   == heads[i] = labels[1] /\ values(i) # {} /\ Holds(k, labels[1])
      fallClause == [on |-> {1}, list |-> Len(st.code) + m + 2]
      clauses == FlattenSeq([i \in 1..m |-> IF extra(i) THEN <<fallClause, clause(i)>>
                                                        ELSE <<clause(i)>>])
      s1 == PushList(AddStatement(st, [op |-> "switch", of |-> b, clauses |-> clauses]), k, end)
  IN  [s1 EXCEPT !.code  = @ \o [i \in 1..m |-> <<>>] \o <<<<[op |-> "fallthrough"]>>>>,
                 !.stack = @ \o [i \in 1..m |-> [list |-> listOf(m - i + 1), construct |-> k,
                                                 end |-> endOf(m - i + 1)]]]

LoopStart(st, k) ==
  PushList(AddStatement(st, [op |-> "loop", body |-> Len(st.code) + 1, continuing |-> 0]),
           k, constructs[k].end)

\* EmitContinuingStart: the list becomes the continuing part of the loop that is
\* the last statement.
LastIsLoop(st) ==
  LET list == st.code[TopOf(st).list] IN list # <<>> /\ Last(list).op = "loop"

ContinuingStart(st, k) ==
  LET top == TopOf(st).list
  IN  PushList([st EXCEPT !.code[top][Len(st.code[top])].continuing = Len(st.code) + 1],
               k, constructs[k].end)

-----------------------------------------------------------------------------
(* EmitBasicBlock *)

\* Mutant of Close: only one list is closed.
Close_One(st, b) == IF TopOf(st).end = b THEN [st EXCEPT !.stack = Front(@)] ELSE st

\* The lists that end at block b are closed.
Close(st, b) ==
  [st EXCEPT !.stack = SubSeq(@, 1, SelectLastInSeq(@, LAMBDA e : e.end # b))]

\* The constructs from block b's own up to the one on top of the stack, and
\* those among them that b is the head of, the outermost first.
RECURSIVE Outwards(_, _)
Outwards(k, top) ==
  IF k = top THEN <<>>
  ELSE IF k = 0 THEN <<0>> ELSE Append(Outwards(constructs[k].parent, top), k)

Entering(st, b) ==
  SelectSeq(Outwards(construct[b], TopOf(st).construct),
            LAMBDA k : k # 0 /\ constructs[k].begin = b)

NestingOK(st, b) ==
  LET ks == Entering(st, b)
  IN  /\ \A i \in DOMAIN ks : constructs[ks[i]].kind # "function"
      /\ Len(ks) <= 2
      /\ Len(ks) = 2 => /\ constructs[ks[1]].kind = "continue"
                        /\ constructs[ks[2]].kind \in {"if", "switch", "loop"}

EntireLoop(b) == ct[b] = b

\* The statements of the block are added once.
Statements(st, b) ==
  IF st.done THEN st ELSE [AddStatement(st, [op |-> "block", of |-> b]) EXCEPT !.done = TRUE]

Enter(st, b, k) ==
  CASE constructs[k].kind = "loop" -> Statements(LoopStart(st, k), b)
    [] constructs[k].kind = "continue" /\ EntireLoop(b) -> Statements(LoopStart(st, k), b)
    [] constructs[k].kind = "continue" /\ ~EntireLoop(b) -> ContinuingStart(st, k)
    [] constructs[k].kind = "if" -> IfStart(Statements(st, b), b)
    [] constructs[k].kind = "switch" -> SwitchStart(Statements(st, b), b)

Closed(b) == Close([code |-> code, stack |-> stack, done |-> FALSE], b)

\* What the emitter takes for granted at block b, and reports as an internal
\* error (or trips over, at a construct above the top of the stack).
ExpectationsHold(b) ==
  LET st == Closed(b)
      ks == Entering(st, b)
  IN  /\ 0 \notin ToSet(Outwards(construct[b], TopOf(st).construct))
      /\ NestingOK(st, b)
      /\ \A i \in DOMAIN ks :
           constructs[ks[i]].kind = "continue" /\ ~EntireLoop(b) => LastIsLoop(st)
      /\ (\A i \in DOMAIN ks : constructs[ks[i]].kind \notin {"if", "switch"})
           => ~TerminatorFails(b)

EmitBasicBlock ==
  /\ stage = "emit" /\ next <= n
  /\ LET st      == Closed(next)
         ks      == Entering(st, next)
         entered == FoldLeft(LAMBDA s, k : Enter(s, next, k), st, ks)
         last    == Statements(entered, next)
         final   == IF \E i \in DOMAIN ks : constructs[ks[i]].kind \in {"if", "switch"}
                    THEN last ELSE NormalTerminator(last, next)
     IN  IF ExpectationsHold(next)
         THEN code' = final.code /\ stack' = final.stack /\ next' = next + 1 /\ stage' = stage
         ELSE stage' = "failed" /\ UNCHANGED <<next, code, stack>>
  /\ UNCHANGED vars

\* Emit() finds one list on the stack, or else reports an internal error, and
\* makes it the body of the function.
EmitEnds ==
  /\ stage = "emit" /\ next = n + 1
  /\ stage' = IF Len(stack) = 1 THEN "emitted" ELSE "failed"
  /\ UNCHANGED <<next, code, stack, vars>>

-----------------------------------------------------------------------------
InitEmit ==
  /\ Init
  /\ stage = "analysis" /\ next = 1
  /\ code = <<<<>>>>
  /\ stack = <<[list |-> 1, construct |-> 1, end |-> 0]>>

Accepted ==
  /\ stage = "analysis" /\ phase = "accepted"
  /\ stage' = "emit"
  /\ UNCHANGED <<next, code, stack, vars>>

EmitStep == Accepted \/ EmitBasicBlock \/ EmitEnds

NextEmit == (Analyse /\ UNCHANGED output) \/ EmitStep
=============================================================================
