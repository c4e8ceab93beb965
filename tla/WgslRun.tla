------------------------------ MODULE WgslRun ------------------------------
(***************************************************************************)
(* The WGSL statements that SpirvEmit makes of a function, executed in step*)
(* with its control flow graph: what the graph does next is compared with  *)
(* what the statements do next.                                            *)
(*                                                                         *)
(* The outcome of a terminator is chosen when its block has been executed; *)
(* every condition the statements evaluate must be about that choice or a  *)
(* flow guard variable.                                                    *)
(***************************************************************************)
EXTENDS SpirvEmit

VARIABLES
  frames,  \* the nested statement lists that are being executed, and where
  flags,   \* the headers whose flow guard variable is true
  cur,     \* the block executed last, or 0
  pick     \* which of its labels its terminator goes to

running == <<frames, flags, cur, pick>>

\* The block the graph is to execute next; 0 if it returns.
Due == IF cur = 0 THEN 1 ELSE IF targets[cur] = <<>> THEN 0 ELSE targets[cur][pick]

-----------------------------------------------------------------------------
(* Frames: a list, the place in it, and the statement it belongs to *)

Frame(role, list, s) == [role |-> role, list |-> list, ix |-> 1, of |-> s]

Nested == Len(frames)
TopFrame == frames[Nested]
List == IF TopFrame.list = 0 THEN <<>> ELSE code[TopFrame.list]
AtEnd == TopFrame.ix > Len(List)
Current == List[TopFrame.ix]
At(op) == stage = "running" /\ frames # <<>> /\ ~AtEnd /\ Current.op = op

\* The frames with the one on top past its current statement.
Advanced == [frames EXCEPT ![Nested].ix = @ + 1]
Into(role, list) == Append(Advanced, Frame(role, list, Current))
Outer(i) == SubSeq(frames, 1, i)

Goto(fs) == frames' = fs /\ UNCHANGED <<vars, output, flags, cur, pick>>

\* The innermost frame with one of these roles, or 0.
Enclosing(roles) == SelectLastInSeq(frames, LAMBDA f : f.role \in roles)

-----------------------------------------------------------------------------
Start ==
  /\ stage = "emitted"
  /\ stage' = "running"
  /\ frames' = <<Frame("body", 1, 0)>>
  /\ UNCHANGED <<vars, next, code, stack, flags, cur, pick>>

RunBlock ==
  /\ At("block")
  /\ cur' = Current.of
  /\ pick' \in 1..Max({1, Len(targets[Current.of])})
  /\ frames' = Advanced
  /\ UNCHANGED <<vars, output, flags>>

\* The condition of an if: the outcome of a branch, a flow guard, or true.
Condition(s) ==
  CASE s.cond = "branch" -> pick = 1
    [] s.cond = "guard"  -> s.of \in flags
    [] s.cond = "true"   -> TRUE

RunIf ==
  /\ At("if")
  /\ Goto(Into("if", IF Condition(Current) THEN Current.then ELSE Current.else))

\* The clause for the value picked, the default clause, or none.
RunSwitch ==
  /\ At("switch")
  /\ LET chosen == {i \in DOMAIN Current.clauses : pick \in Current.clauses[i].on}
     IN  IF chosen = {} THEN Goto(Advanced)
         ELSE Goto(Into("case", Current.clauses[Min(chosen)].list))

RunLoop == At("loop") /\ Goto(Into("loop", Current.body))

\* `break` leaves the nearest loop, its continuing part or a switch.
RunBreak ==
  /\ At("break") /\ Enclosing({"loop", "continuing", "case"}) # 0
  /\ Goto(Outer(Enclosing({"loop", "continuing", "case"}) - 1))

\* `continue` goes to the continuing part of the nearest loop.
Continuing(i) == Append(Outer(i - 1), Frame("continuing", frames[i].of.continuing, frames[i].of))

RunContinue ==
  /\ At("continue") /\ Enclosing({"loop"}) > Enclosing({"continuing"})
  /\ Goto(Continuing(Enclosing({"loop"})))

\* `fallthrough` ends a clause, and goes to the next one.
NextClause ==
  LET clauses == TopFrame.of.clauses
  IN  {i \in 2..Len(clauses) : clauses[i - 1].list = TopFrame.list}

FallthroughIsLegal ==
  /\ TopFrame.role = "case" /\ NextClause # {}
  /\ TopFrame.ix = Len(List)

RunFallthrough ==
  /\ At("fallthrough") /\ FallthroughIsLegal
  /\ LET i == CHOOSE i \in NextClause : TRUE
     IN  Goto(Append(Outer(Nested - 1), Frame("case", TopFrame.of.clauses[i].list, TopFrame.of)))

RunAssign ==
  /\ At("declare") \/ At("clear")
  /\ flags' = IF Current.op = "declare" THEN flags \cup {Current.of} ELSE flags \ {Current.of}
  /\ frames' = Advanced
  /\ UNCHANGED <<vars, output, cur, pick>>

RunReturn ==
  /\ At("return")
  /\ stage' = "returned"
  /\ UNCHANGED <<vars, next, code, stack, running>>

\* The end of a list; a loop goes on in its continuing part, and starts again
\* after it.
RunEnd ==
  /\ stage = "running" /\ Nested > 1 /\ AtEnd
  /\ Goto(CASE TopFrame.role \in {"if", "case"} -> Outer(Nested - 1)
            [] TopFrame.role = "loop"           -> Continuing(Nested)
            [] TopFrame.role = "continuing"     ->
                 Append(Outer(Nested - 1), Frame("loop", TopFrame.of.body, TopFrame.of)))

RunStep == \/ Start \/ RunBlock \/ RunIf \/ RunSwitch \/ RunLoop \/ RunBreak
           \/ RunContinue \/ RunFallthrough \/ RunAssign \/ RunReturn \/ RunEnd

-----------------------------------------------------------------------------
InitRun == InitEmit /\ frames = <<>> /\ flags = {} /\ cur = 0 /\ pick = 1

NextRun == (NextEmit /\ UNCHANGED running) \/ RunStep

allvars == <<vars, output, running>>

SpecRun == InitRun /\ [][NextRun]_allvars

-----------------------------------------------------------------------------
(* Properties *)

\* What the statements do next is what the graph does next: a block is the one
\* the last terminator chose, a condition is that of the last terminator, the
\* function is left by a return where the graph returns, and never falls off the
\* end; a break, continue or fallthrough is where WGSL has a meaning for it.
Matches ==
  /\ At("block") => Current.of = Due
  /\ At("return") => Due = 0
  /\ At("if") => Current.cond # "branch" \/ Current.of = cur
  /\ At("switch") => Current.of = cur
  /\ stage = "running" => ~(Nested = 1 /\ AtEnd)
  /\ At("break") => Enclosing({"loop", "continuing", "case"}) # 0
  /\ At("continue") => Enclosing({"loop"}) > Enclosing({"continuing"})
  /\ At("fallthrough") => FallthroughIsLegal

\* The shapes of graphs that are accepted and that the statements do not follow:
\* an if-selection whose two labels are one block inside the selection,
TwinIf ==
  \E b \in Blocks : header[b] = "if" /\ targets[b][1] = targets[b][2] /\ TrueHead(b) # 0

\* a loop header that branches to two blocks of its loop,
SplitLoopHead ==
  \E b \in Blocks : header[b] = "loop" /\ Cardinality(Normal(b, ToSet(targets[b]))) > 1

\* a case that falls through to the default past another case,
ClausesOf(b) == {caseHead[b], defaultHead[b]} \ {0}
FarFallthrough ==
  \E b \in Blocks : \E d \in DOMAIN kind[b] :
    /\ kind[b][d] = "fallthrough"
    /\ \E c \in (b + 1)..(d - 1) : ClausesOf(c) \cap ClausesOf(d) # {}

\* and an unreachable block that goes to the merge block of a construct it is no
\* part of: the traversal puts blocks into that construct that are not its own.
DeclaredFlow == [b \in Blocks |-> DOMAIN kind[b] \cup ({merge[b], ct[b]} \ {0})]
StrayBlock ==
  \E h \in Blocks : merge[h] \in ReachableWithout(DeclaredFlow, {h}, 1)

\* The WGSL statements of an accepted function execute the blocks of its graph in
\* the order of the graph, whatever the conditions and the selectors are.
FollowsCfg == Matches \/ TwinIf \/ SplitLoopHead \/ FarFallthrough \/ StrayBlock

\* What the passes have accepted can be emitted: none of the "internal error"
\* checks of the emitter fails.
EmissionSucceeds == stage = "failed" => StrayBlock

\* A flow guard variable is used where its declaration is in scope: in a list that
\* declares it earlier, or in one nested in such a list.
InScope(g) ==
  \E i \in 1..Nested : frames[i].list # 0 /\
    \E j \in 1..(frames[i].ix - 1) : code[frames[i].list][j] = [op |-> "declare", of |-> g]

GuardsAreDeclared ==
  /\ At("if") => Current.cond # "guard" \/ InScope(Current.of)
  /\ At("clear") => InScope(Current.of)

\* function.h:150: "this block is an if-selection header, and `true_head` is the
\* target id of the true branch [...] and that target is inside the if-selection":
\* an if-selection executes its target also when both labels are the same.
TwinIfFollowsCfg == Matches \/ ~TwinIf

\* function.h:86: a fallthrough is "An edge from one switch case to the next
\* sibling switch case": that is what the fallthrough statement then does.
FallthroughFollowsCfg == Matches \/ ~FarFallthrough
=============================================================================
