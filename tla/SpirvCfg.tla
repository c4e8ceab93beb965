------------------------------ MODULE SpirvCfg ------------------------------
(***************************************************************************)
(* How the SPIR-V reader finds structure in the control flow graph of a    *)
(* function (FunctionEmitter::EmitBody, src/reader/spirv/function.cc):     *)
(* merge instructions, the structured block order, the nesting of          *)
(* constructs, switch cases, the kinds of the edges, and the parts of an   *)
(* if-selection.  A pass that fails makes the reader reject the module.    *)
(*                                                                         *)
(* A block is named by its place in block_order_, so that block 1 is the   *)
(* entry and begin_id, begin_pos and so on coincide.  The graph is revealed*)
(* as the passes read it; Traverse then computes the order from the whole  *)
(* graph and drops the graphs whose order is another one, which another    *)
(* naming of their blocks covers.                                          *)
(***************************************************************************)
EXTENDS Naturals, Sequences, FiniteSets, SequencesExt

CONSTANTS MaxBlocks,    \* bound: blocks of the function
          MaxCases(_),  \* bound: cases of an OpSwitch, beside its default,
          Headers(_)    \* and kinds of headers, in a function of so many blocks

ASSUME BoundsOK == MaxBlocks \in Nat \ {0} /\ \A k \in 1..MaxBlocks : MaxCases(k) \in Nat
ASSUME HeadersOK == \A k \in 1..MaxBlocks : Headers(k) \subseteq {"if", "switch", "loop"}

VARIABLES
  n,            \* the number of blocks in block_order_
  phase,        \* the pass that runs: "label", "cases", "edges", "ifs",
                \* "order", and at the end "accepted" or "rejected"
  at,           \* the block, or the construct, the pass is at
  header,       \* block -> "none", or what it heads: "if", "switch", "loop"
  merge,        \* block -> its declared merge block, or 0
  ct,           \* block -> its declared continue target, or 0
  targets,      \* block -> the labels of its terminator, in operand order
  constructs,   \* constructs_
  enclosing,    \* the stack of LabelControlFlowConstructs
  construct,    \* block -> its nearest enclosing construct
  caseHead,     \* block -> the switch construct it is a case head for, or 0
  defaultHead,  \* block -> the switch construct it is the default head for
  kind,         \* block -> successor -> EdgeKind
  guard,        \* if-selection headers that need a flow guard variable
  premerge      \* block -> premerge_head, or 0

graph == <<n, header, merge, ct, targets>>
found == <<constructs, enclosing, construct, caseHead, defaultHead, kind, guard, premerge>>
vars  == <<phase, at, graph, found>>

Blocks == 1..n

Holds(k, b) == constructs[k].begin <= b /\ b < constructs[k].end

HeaderForMerge(b) ==
  IF \E h \in Blocks : merge[h] = b THEN CHOOSE h \in Blocks : merge[h] = b ELSE 0
HeaderForContinue(b) ==
  IF \E h \in Blocks : ct[h] = b THEN CHOOSE h \in Blocks : ct[h] = b ELSE 0

Reject ==
  /\ phase' = "rejected"
  /\ UNCHANGED <<at, graph, found>>

-----------------------------------------------------------------------------
Init ==
  /\ n \in 1..MaxBlocks
  /\ phase = "label" /\ at = 1
  /\ header = [b \in Blocks |-> "none"]
  /\ merge = [b \in Blocks |-> 0]
  /\ ct = [b \in Blocks |-> 0]
  /\ targets = [b \in Blocks |-> <<>>]
  /\ constructs = <<[kind |-> "function", begin |-> 1, end |-> n + 1, depth |-> 0,
                     parent |-> 0, loop |-> 0, cont |-> 0, breakable |-> 0]>>
  /\ enclosing = <<1>>
  /\ construct = [b \in Blocks |-> 0]
  /\ caseHead = [b \in Blocks |-> 0]
  /\ defaultHead = [b \in Blocks |-> 0]
  /\ kind = [b \in Blocks |-> <<>>]
  /\ guard = {}
  /\ premerge = [b \in Blocks |-> 0]

-----------------------------------------------------------------------------
(* RegisterMerges, VerifyHeaderContinueMergeOrder and                      *)
(* LabelControlFlowConstructs, for one block after the other               *)

\* What a block's merge instruction can say.
Declarations ==
  {[header |-> "none", merge |-> 0, ct |-> 0]} \cup
  {[header |-> h, merge |-> m, ct |-> 0] : h \in Headers(n) \ {"loop"}, m \in Blocks} \cup
  {[header |-> h, merge |-> m, ct |-> c] :
     h \in Headers(n) \cap {"loop"}, m \in Blocks, c \in Blocks}

\* The merge instruction is well-formed and keeps the interval rules
\*    pos(header) < pos(merge),  pos(header) <= pos(ct) < pos(merge).
DeclarationOK(b, d) ==
  /\ d.header # "none" => d.merge > b /\ HeaderForMerge(d.merge) = 0
  /\ d.header = "loop" =>
       /\ b # 1
       /\ b <= d.ct /\ d.ct < d.merge
       /\ HeaderForContinue(d.ct) = 0

\* The stack without the constructs that end at block b.
Leave(b) ==
  SubSeq(enclosing, 1, SelectLastInSeq(enclosing, LAMBDA k : constructs[k].end # b))

\* Mutant of NewConstruct: a continue construct is not breakable.
NewConstruct_NoBreakOutOfContinue(k, sort, begin, end, depth, p, cs) ==
  LET inherited == IF p # 0 /\ cs[p].depth < depth
                   THEN cs[p] ELSE [loop |-> 0, cont |-> 0, breakable |-> 0]
  IN  [kind |-> sort, begin |-> begin, end |-> end, depth |-> depth, parent |-> p,
       loop |-> IF sort = "loop" THEN k ELSE inherited.loop,
       cont |-> IF sort = "continue" THEN k ELSE inherited.cont,
       breakable |-> IF sort \in {"loop", "switch"}
                     THEN k ELSE inherited.breakable]

\* A new construct with index k inside construct p, numbered as the
\* constructor does: the enclosing construct of a sort is the new one if it
\* is of that sort, else its parent's if the parent is less deep.
NewConstruct(k, sort, begin, end, depth, p, cs) ==
  LET inherited == IF p # 0 /\ cs[p].depth < depth
                   THEN cs[p] ELSE [loop |-> 0, cont |-> 0, breakable |-> 0]
  IN  [kind |-> sort, begin |-> begin, end |-> end, depth |-> depth, parent |-> p,
       loop |-> IF sort = "loop" THEN k ELSE inherited.loop,
       cont |-> IF sort = "continue" THEN k ELSE inherited.cont,
       breakable |-> IF sort \in {"loop", "continue", "switch"}
                     THEN k ELSE inherited.breakable]

\* The constructs that block b heads, inside construct top, outermost first: a
\* loop is pushed after its continue construct, and is given the same parent.
Headed(b, d, top) ==
  LET k     == Len(constructs) + 1
      depth == 1 + constructs[top].depth
      cont  == NewConstruct(k, "continue", d.ct, d.merge, depth, top, constructs)
      loop  == NewConstruct(k + 1, "loop", b, d.ct, depth, top, constructs)
  IN  CASE d.header = "none" -> <<>>
        [] d.header \in {"if", "switch"} ->
             <<NewConstruct(k, d.header, b, d.merge, depth, top, constructs)>>
        [] d.header = "loop" /\ d.ct = b -> <<cont>>
        [] d.header = "loop" /\ d.ct # b -> <<cont, loop>>

LabelBlock(d) ==
  /\ phase = "label" /\ at <= n /\ DeclarationOK(at, d)
  /\ header' = [header EXCEPT ![at] = d.header]
  /\ merge' = [merge EXCEPT ![at] = d.merge]
  /\ ct' = [ct EXCEPT ![at] = d.ct]
  /\ LET left == Leave(at)
         new  == Headed(at, d, Last(left))
     IN  /\ constructs' = constructs \o new
         /\ enclosing' = left \o [i \in DOMAIN new |-> Len(constructs) + i]
         /\ construct' = [construct EXCEPT ![at] = Last(enclosing')]
  /\ at' = at + 1
  /\ UNCHANGED <<phase, n, targets, caseHead, defaultHead, kind, guard, premerge>>

RejectDeclaration(d) ==
  /\ phase = "label" /\ at <= n /\ ~DeclarationOK(at, d)
  /\ Reject

\* Only the construct of the function is left, or merge blocks are missing.
EndLabel ==
  /\ phase = "label" /\ at = n + 1 /\ Len(enclosing) = 1
  /\ phase' = "cases" /\ at' = 1
  /\ UNCHANGED <<graph, found>>

RejectUnbalanced ==
  /\ phase = "label" /\ at = n + 1 /\ Len(enclosing) # 1
  /\ Reject

-----------------------------------------------------------------------------
(* FindSwitchCaseHeaders, for one construct after the other *)

\* A target of the OpSwitch of construct k: ahead, not past the merge block,
\* and not the merge block of another header.
CaseTargetOK(k, b) ==
  /\ constructs[k].begin < b /\ b <= constructs[k].end
  /\ HeaderForMerge(b) \in {0, constructs[k].begin}

\* labels: the default label, then the labels of the cases.
FindCases(labels) ==
  /\ phase = "cases" /\ at <= Len(constructs) /\ constructs[at].kind = "switch"
  /\ \A i \in DOMAIN labels : CaseTargetOK(at, labels[i])
  /\ defaultHead[labels[1]] = 0
  /\ \A i \in 2..Len(labels) : caseHead[labels[i]] = 0
  /\ targets' = [targets EXCEPT ![constructs[at].begin] = labels]
  /\ defaultHead' = [defaultHead EXCEPT ![labels[1]] = at]
  /\ caseHead' = [b \in Blocks |->
                    IF \E i \in 2..Len(labels) : labels[i] = b THEN at ELSE caseHead[b]]
  /\ at' = at + 1
  /\ UNCHANGED <<phase, n, header, merge, ct, constructs, enclosing, construct,
                 kind, guard, premerge>>

RejectCases(labels) ==
  /\ phase = "cases" /\ at <= Len(constructs) /\ constructs[at].kind = "switch"
  /\ \/ \E i \in DOMAIN labels : ~CaseTargetOK(at, labels[i])
     \/ defaultHead[labels[1]] # 0
     \/ \E i \in 2..Len(labels) : caseHead[labels[i]] # 0
  /\ Reject

SkipConstruct ==
  /\ phase = "cases" /\ at <= Len(constructs) /\ constructs[at].kind # "switch"
  /\ at' = at + 1
  /\ UNCHANGED <<phase, graph, found>>

EndCases ==
  /\ phase = "cases" /\ at = Len(constructs) + 1
  /\ phase' = "edges" /\ at' = 1
  /\ UNCHANGED <<graph, found>>

-----------------------------------------------------------------------------
(* ClassifyCFGEdges, for one block after the other *)

\* The header a `break` or a `continue` out of construct k is about, or 0.
HeaderIfBreakable(k) ==
  IF k = 0 THEN 0
  ELSE CASE constructs[k].kind \in {"loop", "switch"} -> constructs[k].begin
         [] constructs[k].kind = "continue" -> HeaderForContinue(constructs[k].begin)
         [] OTHER -> 0

\* The EdgeKind of the edge from block b to block d.
EdgeKind(b, d) ==
  LET own    == constructs[construct[b]]
      breaks == HeaderIfBreakable(own.breakable)
      loops  == HeaderIfBreakable(own.loop)
      switch == IF caseHead[d] # 0 THEN caseHead[d] ELSE defaultHead[d]
  IN  IF d <= b THEN "back"
      ELSE IF breaks # 0 /\ d = merge[breaks]
           THEN IF constructs[construct[breaks]].kind = "switch"
                THEN "switch_break" ELSE "loop_break"
      ELSE IF loops # 0 /\ d = ct[loops] THEN "continue"
      ELSE IF d = merge[own.begin] THEN "if_break"
      ELSE IF switch # 0 /\ b # constructs[switch].begin THEN "fallthrough"
      ELSE "forward"

\* A back-edge leaves the last block of a continue construct, for its header.
BackEdgeOK(b, d) ==
  LET cont == constructs[construct[b]].cont
  IN  /\ cont # 0
      /\ b = constructs[cont].end - 1
      /\ HeaderForContinue(constructs[cont].begin) = d

\* Mutant of StaysInContinue: a continue construct may be left from any block.
StaysInContinue_Anywhere(b, d) == TRUE

\* Only the last block of a continue construct leaves it.
StaysInContinue(b, d) ==
  LET cont == constructs[construct[b]].cont
  IN  cont # 0 /\ Holds(cont, b) /\ ~Holds(cont, d) => b = constructs[cont].end - 1

\* Mutant of NormalEdgeOK: a construct may be entered anywhere.
NormalEdgeOK_AnyEntry(b, d) == d < constructs[construct[b]].end

\* A normal edge does not pass the end of its construct, and enters the
\* construct of its destination at the head unless it starts inside.
NormalEdgeOK(b, d) ==
  LET own  == constructs[construct[b]]
      dest == constructs[construct[d]]
  IN  /\ d < own.end
      /\ d = dest.begin \/ Holds(construct[d], b)

EdgeOK(b, d) ==
  LET k == EdgeKind(b, d)
  IN  /\ d # 1
      /\ k = "back" => BackEdgeOK(b, d)
      /\ k # "back" => StaysInContinue(b, d)
      /\ k \in {"forward", "fallthrough"} => NormalEdgeOK(b, d)

Normal(b, ds) == {d \in ds : EdgeKind(b, d) \in {"forward", "fallthrough"}}
IfBreaks(b, ds) == {d \in ds : EdgeKind(b, d) = "if_break"}

\* The terminators block b can have with labels in ds: OpReturn and its like
\* have no label.
Terminators(b, ds) ==
  CASE header[b] = "if"     -> [1..2 -> ds]
    [] header[b] = "switch" -> {ls \in {targets[b]} : ToSet(ls) \subseteq ds}
    [] header[b] = "loop"   -> [1..1 -> ds] \cup [1..2 -> ds]
    [] header[b] = "none"   -> {<<>>} \cup [1..1 -> ds] \cup [1..2 -> ds]

EdgesOK(b, ds) ==
  /\ \A d \in ds : EdgeOK(b, d)
  /\ ds = {} => constructs[construct[b]].cont = 0
  /\ b \in ds => ct[b] = b
  /\ Cardinality(Normal(b, ds)) > 1 => merge[b] # 0

\* Mutant of GuardedHeaders: every edge of the block is taken for an if-break.
GuardedHeaders_AllEdges(b, ds) ==
  IF Cardinality(Normal(b, ds)) + Cardinality(IfBreaks(b, ds)) > 1 /\ merge[b] = 0
  THEN {HeaderForMerge(d) : d \in ds} ELSE {}

\* A normal edge next to a branch to the merge block of the if-selection: what
\* follows in the selection must be guarded by a variable.
GuardedHeaders(b, ds) ==
  IF Cardinality(Normal(b, ds)) + Cardinality(IfBreaks(b, ds)) > 1 /\ merge[b] = 0
  THEN {HeaderForMerge(d) : d \in IfBreaks(b, ds)} ELSE {}

\* An earlier block mentions block b: if none does, b is not its place in the
\* order, and Traverse would drop the graph.
Mentioned(b) ==
  \/ b = 1
  \/ \E a \in 1..(b - 1) : b \in {merge[a], ct[a]} \cup ToSet(targets[a])

ClassifyEdges(labels) ==
  /\ phase = "edges" /\ at <= n /\ EdgesOK(at, ToSet(labels))
  /\ targets' = [targets EXCEPT ![at] = labels]
  /\ kind' = [kind EXCEPT ![at] = [d \in ToSet(labels) |-> EdgeKind(at, d)]]
  /\ guard' = guard \cup GuardedHeaders(at, ToSet(labels))
  /\ at' = at + 1
  /\ UNCHANGED <<phase, n, header, merge, ct, constructs, enclosing, construct,
                 caseHead, defaultHead, premerge>>

RejectEdges ==
  /\ phase = "edges" /\ at <= n
  /\ ~ \A labels \in Terminators(at, Blocks) : EdgesOK(at, ToSet(labels))
  /\ Reject

EndEdges ==
  /\ phase = "edges" /\ at = n + 1
  /\ phase' = "ifs"
  /\ UNCHANGED <<at, graph, found>>

-----------------------------------------------------------------------------
(* FindIfSelectionInternalHeaders *)

IfConstructs == {k \in DOMAIN constructs : constructs[k].kind = "if"}

\* true_head and false_head of the if-selection headed by b, or 0.
TrueHead(b)  == IF Holds(construct[b], targets[b][1]) THEN targets[b][1] ELSE 0
FalseHead(b) == IF Holds(construct[b], targets[b][2]) THEN targets[b][2] ELSE 0

\* The last block of the clause that comes first, when there are two clauses;
\* else 0.
EndFirstClause(b) ==
  IF TrueHead(b) # 0 /\ FalseHead(b) # 0 /\ TrueHead(b) # FalseHead(b)
  THEN Max({TrueHead(b), FalseHead(b)}) - 1 ELSE 0

\* Where a kForward edge continues inside the selection headed by b after the
\* first clause: the premerge.
Premerges(b) ==
  LET e == EndFirstClause(b)
  IN  IF e = 0 THEN {}
      ELSE {d \in DOMAIN kind[e] : kind[e][d] = "forward" /\ Holds(construct[b], d)}

IfHeadersOK(k) ==
  LET b == constructs[k].begin
      e == EndFirstClause(b)
  IN  /\ \A i \in 1..2 : HeaderForMerge(targets[b][i]) \in {0, b}
      /\ Cardinality(Premerges(b)) <= 1
      /\ \A d \in Premerges(b) : HeaderForMerge(d) = 0
      /\ Premerges(b) # {} => \A d \in DOMAIN kind[e] : kind[e][d] # "if_break"

FindIfHeaders ==
  /\ phase = "ifs" /\ \A k \in IfConstructs : IfHeadersOK(k)
  /\ premerge' = [b \in Blocks |-> IF header[b] = "if" /\ Premerges(b) # {}
                                   THEN CHOOSE d \in Premerges(b) : TRUE ELSE 0]
  /\ phase' = "order"
  /\ UNCHANGED <<at, graph, constructs, enclosing, construct, caseHead,
                 defaultHead, kind, guard>>

RejectIfHeaders ==
  /\ phase = "ifs" /\ \E k \in IfConstructs : ~IfHeadersOK(k)
  /\ Reject

-----------------------------------------------------------------------------
(* ComputeBlockOrderAndPositions *)

\* What VisitBackward goes on to from block b, in this order: the merge block,
\* the continue target, the labels; of a conditional branch the false one first.
VisitNext(b) ==
  SelectSeq(<<merge[b], ct[b]>>, LAMBDA d : d # 0) \o
  (IF header[b] # "switch" /\ Len(targets[b]) = 2 THEN Reverse(targets[b]) ELSE targets[b])

\* The reverse post-order of the blocks, as StructuredTraverser visits them: the
\* blocks of bs one after the other, each before those in st.order.
BlockOrder ==
  LET visit[bs \in Seq(Blocks), st \in [visited : SUBSET Blocks, order : Seq(Blocks)]] ==
        IF bs = <<>> THEN st
        ELSE LET b     == Head(bs)
                 after == visit[VisitNext(b), [st EXCEPT !.visited = @ \cup {b}]]
             IN  visit[Tail(bs), IF b \in st.visited THEN st
                                 ELSE [after EXCEPT !.order = <<b>> \o @]]
  IN  visit[<<1>>, [visited |-> {}, order |-> <<>>]].order

\* Where control can go from a block.
Flow == [b \in Blocks |-> DOMAIN kind[b]]

\* The blocks that paths of `flow` from block b lead to, outside S.
ReachableWithout(flow, S, b) ==
  LET reach[i \in 0..n] ==
        IF i = 0 THEN {b} \ S
        ELSE LET before == reach[i - 1]
             IN  before \cup (UNION {flow[a] : a \in before} \ S)
  IN  reach[n]
Reachable == ReachableWithout(Flow, {}, 1)

\* The blocks that every path from the entry goes through block h to reach.
Dominated(h) == Reachable \ ReachableWithout(Flow, {h}, 1)
Dominates(h, b) == b \in Dominated(h) \/ b \notin Reachable

\* The dominance rule of SPIR-V for headers.
HeadersDominate ==
  \A h \in Blocks : /\ merge[h] # 0 => Dominates(h, merge[h])
                    /\ ct[h] # 0 => Dominates(h, ct[h])

\* Every loop header has a back-edge.
LoopsHaveBackEdge == \A h \in Blocks : ct[h] # 0 => \E b \in h..n : h \in DOMAIN kind[b]

\* The construct of SPIR-V from block h to before block m, and the blocks it
\* branches to.
Within(h, m) == Dominated(h) \ Dominated(m)
ExitsOf(h, m) == UNION {DOMAIN kind[b] : b \in Within(h, m)} \ Within(h, m)

\* Selections, loops and continue constructs are left for their merge block (or
\* the loop header); a selection is left for an enclosing loop or switch, too.
ExitsAreStructured ==
  \A h \in Blocks : merge[h] # 0 =>
    LET around(sort) == {g \in Blocks : header[g] = sort /\ h \in Within(g, merge[g])}
        outer == {merge[g] : g \in around("loop") \cup around("switch")}
                   \cup {ct[g] : g \in around("loop")}
    IN  /\ ExitsOf(h, merge[h]) \subseteq {merge[h]} \cup (IF ct[h] = 0 THEN outer ELSE {})
        /\ ct[h] # 0 => ExitsOf(ct[h], merge[h]) \subseteq {h, merge[h]}

\* The other case constructs of OpSwitch h that the one of target t branches to.
FallsTo(h, t) ==
  ExitsOf(t, merge[h]) \cap (ToSet(targets[h]) \ {merge[h]})

\* Label t comes immediately before label d among the cases of OpSwitch h.
Precedes(h, t, d) ==
  \E i \in 2..(Len(targets[h]) - 1) : targets[h][i] = t /\ targets[h][i + 1] = d

\* The rules of SPIR-V for case constructs: one is left for the merge block, for
\* an enclosing loop, or for one other case construct, which is the default or
\* comes next, if it does not do so by way of the default.
CasesAreStructured ==
  \A h \in Blocks : header[h] = "switch" =>
    LET default == targets[h][1]
        cases   == ToSet(targets[h]) \ {merge[h]}
        loops   == {g \in 1..(h - 1) : ct[g] # 0}
    IN  /\ \A t \in cases : ExitsOf(t, merge[h]) \subseteq
             ToSet(targets[h]) \cup {merge[h]} \cup {merge[g] : g \in loops} \cup {ct[g] : g \in loops}
        /\ \A t \in cases : Cardinality(FallsTo(h, t)) <= 1
        /\ \A t, s \in cases : FallsTo(h, t) \cap FallsTo(h, s) # {} => t = s
        /\ \A t \in cases \ {default} :
             \A d \in (IF default \in FallsTo(h, t) THEN FallsTo(h, default) ELSE FallsTo(h, t)) :
               Precedes(h, t, d)

\* What ParserImpl has SPIR-V Tools validate before any function is read.
ValidSpirv == HeadersDominate /\ LoopsHaveBackEdge /\ ExitsAreStructured /\ CasesAreStructured

Traverse ==
  /\ phase = "order" /\ BlockOrder = [b \in Blocks |-> b] /\ ValidSpirv
  /\ phase' = "accepted"
  /\ UNCHANGED <<at, graph, found>>

-----------------------------------------------------------------------------
LabelStep == \/ \E d \in Declarations : LabelBlock(d) \/ RejectDeclaration(d)
             \/ EndLabel
             \/ RejectUnbalanced

CasesStep == \/ \E c \in 0..MaxCases(n) : \E labels \in [1..(c + 1) -> Blocks] :
                  FindCases(labels) \/ RejectCases(labels)
             \/ SkipConstruct
             \/ EndCases

EdgesStep == \/ /\ phase = "edges" /\ at \in Blocks /\ Mentioned(at)
                /\ \/ \E labels \in Terminators(at, {d \in Blocks : EdgeOK(at, d)}) :
                        ClassifyEdges(labels)
                   \/ RejectEdges
             \/ EndEdges

Analyse == LabelStep \/ CasesStep \/ EdgesStep \/ FindIfHeaders \/ RejectIfHeaders \/ Traverse

Spec == Init /\ [][Analyse]_vars

-----------------------------------------------------------------------------
(* Properties *)

EdgeKinds == {"back", "switch_break", "loop_break", "continue", "if_break",
              "fallthrough", "forward"}

\* The types of the state.
TypeOK ==
  /\ n \in 1..MaxBlocks
  /\ phase \in {"label", "cases", "edges", "ifs", "order", "accepted", "rejected"}
  /\ at \in 1..(2 * n + 2)
  /\ header \in [Blocks -> Headers(n) \cup {"none"}]
  /\ merge \in [Blocks -> 0..n] /\ ct \in [Blocks -> 0..n]
  /\ \A b \in Blocks : ToSet(targets[b]) \subseteq Blocks
  /\ \A k \in DOMAIN constructs :
       /\ constructs[k].begin \in Blocks /\ constructs[k].end \in 2..(n + 1)
       /\ {constructs[k].parent, constructs[k].loop, constructs[k].cont,
           constructs[k].breakable} \subseteq 0..Len(constructs)
  /\ ToSet(enclosing) \subseteq DOMAIN constructs
  /\ construct \in [Blocks -> 0..Len(constructs)]
  /\ caseHead \in [Blocks -> 0..Len(constructs)]
  /\ defaultHead \in [Blocks -> 0..Len(constructs)]
  /\ \A b \in Blocks : \A d \in DOMAIN kind[b] : kind[b][d] \in EdgeKinds
  /\ guard \subseteq Blocks
  /\ premerge \in [Blocks -> 0..n]

\* Only the last block of a continue construct leaves it (function.cc:1628), for
\* each of the continue constructs that hold a block.  The passes look at the
\* nearest one only; what they miss is a `continue` of an outer loop, from the
\* last block of a continue construct inside.
ContinueLeftAtItsEnd ==
  \A k \in DOMAIN constructs : constructs[k].kind = "continue" =>
    \A b \in Blocks : \A d \in DOMAIN kind[b] :
      Holds(k, b) /\ ~Holds(k, d) =>
        \/ b = constructs[k].end - 1
        \/ /\ kind[b][d] = "continue"
           /\ b = constructs[constructs[construct[b]].cont].end - 1

IsNormal(b, d) == kind[b][d] \in {"forward", "fallthrough"}

\* Construct j is inside construct k.
Encloses(k, j) ==
  constructs[k].begin <= constructs[j].begin /\ constructs[j].end <= constructs[k].end

\* A normal edge between blocks of two constructs goes to the first block of a
\* construct inside the other.  (function.cc:1545 says that the one is the parent
\* of the other, which the code does not check: a case of a switch may be a loop
\* that the order puts into an inner switch, because its merge block, which
\* nothing reaches, branches there.)
NormalEdgesEnterAtHead ==
  \A b \in Blocks : \A d \in DOMAIN kind[b] :
    IsNormal(b, d) /\ construct[b] # construct[d] =>
      d = constructs[construct[d]].begin /\ Encloses(construct[b], construct[d])

\* A flow guard is that of an if-selection: EmitIfStart declares it.
GuardsAreOfIfs == \A h \in guard : h \in Blocks /\ header[h] = "if"

\* The enclosing constructs of a block are what its nesting says: the nearest
\* loop, continue construct and breakable construct among those that hold it.
\* (construct.cc computes them from depths, as a loop and its continue construct
\* are siblings of which one is pushed over the other.)
Holding(b, sorts) == {k \in DOMAIN constructs : Holds(k, b) /\ constructs[k].kind \in sorts}

IsInnermost(k, b, sorts) ==
  IF k = 0 THEN Holding(b, sorts) = {}
  ELSE k \in Holding(b, sorts) /\ \A j \in Holding(b, sorts) : Encloses(j, k)

NestingIsExact ==
  phase \in {"cases", "edges", "ifs", "order", "accepted"} =>
    \A b \in Blocks :
      LET own == constructs[construct[b]]
      IN  /\ Holds(construct[b], b)
          /\ IsInnermost(own.loop, b, {"loop"})
          /\ IsInnermost(own.cont, b, {"continue"})
          /\ IsInnermost(own.breakable, b, {"loop", "continue", "switch"})
          /\ \A k \in DOMAIN constructs : Holds(k, b) => Encloses(k, construct[b])
=============================================================================
