----------------------- MODULE ProgramLifecycle_proofs -----------------------
(***************************************************************************)
(* Proofs about ProgramLifecycle, for any builders, programs and units.    *)
(*                                                                         *)
(* Ownership is not inductive on its own: a moved object keeps a dangling  *)
(* ast_, an assignment may refill a program that was moved from, and a     *)
(* verdict may change while a builder owns the unit.  The invariant below  *)
(* says what holds of every slot, live or not.                             *)
(***************************************************************************)
EXTENDS ProgramLifecycle, TLAPS

\* The three arenas of any object, live or moved from, belong together.
ArenasTogether ==
  \A s \in Slots : types[s] = nodes[s] /\ symbols[s] = nodes[s]

\* ast_ of a live object points into its own nodes; a live builder has some;
\* an absent object owns nothing.
PointerInside ==
  /\ \A s \in Slots : Live(s) => ast[s] = nodes[s]
  /\ \A b \in Builders : Live(b) => nodes[b] # NoUnit
  /\ \A s \in Slots : Absent(s) => nodes[s] = NoUnit /\ ast[s] = NoUnit

OneHolder ==
  \A s, t \in Slots : s # t /\ nodes[s] # NoUnit => nodes[s] # nodes[t]

\* What a program owns and calls valid was never refused.
ValidUnitSound ==
  \A p \in Programs :
    isValid[p] /\ nodes[p] # NoUnit => nodes[p] \notin condemned /\ astOk[nodes[p]]

Inv == TypeOK /\ ArenasTogether /\ PointerInside /\ OneHolder /\ ValidUnitSound

USE SlotsDisjoint, NoUnitOutside DEF Slots

-----------------------------------------------------------------------------
LEMMA InitInv == Init => Inv
  BY DEF Init, Inv, TypeOK, ArenasTogether, PointerInside, OneHolder,
         ValidUnitSound, Live, Absent

\* A move keeps the types of what it moves, and the ast_ of every other object.
LEMMA MoveTyped ==
  ASSUME NEW arena \in [Slots -> Units \cup {NoUnit}], NEW to \in Slots, NEW from \in Slots
  PROVE  Move(arena, to, from) \in [Slots -> Units \cup {NoUnit}]
BY DEF Move

LEMMA MoveUnitTyped ==
  ASSUME TypeOK, NEW to \in Slots, NEW from \in Slots, MoveUnit(to, from)
  PROVE  /\ nodes' \in [Slots -> Units \cup {NoUnit}] /\ types' \in [Slots -> Units \cup {NoUnit}]
         /\ symbols' \in [Slots -> Units \cup {NoUnit}] /\ ast' \in [Slots -> Units \cup {NoUnit}]
         /\ \A b \in Slots : b # to => ast'[b] = ast[b]
<1>1. /\ nodes' = Move(nodes, to, from) /\ types' = Move(types, to, from)
      /\ symbols' = Move(symbols, to, from) /\ ast' = [ast EXCEPT ![to] = ast[from]]
  BY DEF MoveUnit
<1>2. /\ nodes' \in [Slots -> Units \cup {NoUnit}] /\ types' \in [Slots -> Units \cup {NoUnit}]
      /\ symbols' \in [Slots -> Units \cup {NoUnit}]
  BY <1>1, MoveTyped DEF TypeOK
<1>3. ast' \in [Slots -> Units \cup {NoUnit}] /\ \A b \in Slots : b # to => ast'[b] = ast[b]
  BY <1>1 DEF TypeOK
<1> QED BY <1>2, <1>3

LEMMA InvConstructBuilder ==
  ASSUME Inv, NEW b \in Builders, NEW u \in Units, ConstructBuilder(b, u)
  PROVE  Inv'
<1> USE DEF ConstructBuilder, Absent, Live, NewUnit, Judge, Free, owned, facts
<1>1. TypeOK'         BY DEF Inv, TypeOK, PointerInside
<1>2. ArenasTogether' BY DEF Inv, TypeOK, ArenasTogether
<1>3. PointerInside'  BY DEF Inv, TypeOK, PointerInside
<1>4. OneHolder'      BY DEF Inv, TypeOK, OneHolder, PointerInside
<1>5. ValidUnitSound' BY DEF Inv, TypeOK, ValidUnitSound, OneHolder, PointerInside
<1> QED BY <1>1, <1>2, <1>3, <1>4, <1>5 DEF Inv

LEMMA InvAddInvalidNode ==
  ASSUME Inv, NEW b \in Builders, AddInvalidNode(b)
  PROVE  Inv'
<1> USE DEF AddInvalidNode, Absent, Live, owned, facts
<1>1. TypeOK'         BY DEF Inv, TypeOK, PointerInside
<1>2. ArenasTogether' BY DEF Inv, TypeOK, ArenasTogether
<1>3. PointerInside'  BY DEF Inv, TypeOK, PointerInside
<1>4. OneHolder'      BY DEF Inv, TypeOK, OneHolder, PointerInside
<1>5. ValidUnitSound' BY DEF Inv, TypeOK, ValidUnitSound, OneHolder, PointerInside
<1> QED BY <1>1, <1>2, <1>3, <1>4, <1>5 DEF Inv

LEMMA InvAddUntypableNode ==
  ASSUME Inv, NEW b \in Builders, AddUntypableNode(b)
  PROVE  Inv'
<1> USE DEF AddUntypableNode, Absent, Live, owned, facts
<1>1. TypeOK'         BY DEF Inv, TypeOK, PointerInside
<1>2. ArenasTogether' BY DEF Inv, TypeOK, ArenasTogether
<1>3. PointerInside'  BY DEF Inv, TypeOK, PointerInside
<1>4. OneHolder'      BY DEF Inv, TypeOK, OneHolder, PointerInside
<1>5. ValidUnitSound' BY DEF Inv, TypeOK, ValidUnitSound, OneHolder, PointerInside
<1> QED BY <1>1, <1>2, <1>3, <1>4, <1>5 DEF Inv

LEMMA InvReportError ==
  ASSUME Inv, NEW b \in Builders, ReportError(b)
  PROVE  Inv'
<1> USE DEF ReportError, Absent, Live, owned, facts
<1>1. TypeOK'         BY DEF Inv, TypeOK, PointerInside
<1>2. ArenasTogether' BY DEF Inv, TypeOK, ArenasTogether
<1>3. PointerInside'  BY DEF Inv, TypeOK, PointerInside
<1>4. OneHolder'      BY DEF Inv, TypeOK, OneHolder, PointerInside
<1>5. ValidUnitSound' BY DEF Inv, TypeOK, ValidUnitSound, OneHolder, PointerInside
<1> QED BY <1>1, <1>2, <1>3, <1>4, <1>5 DEF Inv

LEMMA InvSetResolveOnBuild ==
  ASSUME Inv, NEW b \in Builders, NEW e \in BOOLEAN, SetResolveOnBuild(b, e)
  PROVE  Inv'
<1> USE DEF SetResolveOnBuild, Absent, Live, owned, facts
<1>1. TypeOK'         BY DEF Inv, TypeOK, PointerInside
<1>2. ArenasTogether' BY DEF Inv, TypeOK, ArenasTogether
<1>3. PointerInside'  BY DEF Inv, TypeOK, PointerInside
<1>4. OneHolder'      BY DEF Inv, TypeOK, OneHolder, PointerInside
<1>5. ValidUnitSound' BY DEF Inv, TypeOK, ValidUnitSound, OneHolder, PointerInside
<1> QED BY <1>1, <1>2, <1>3, <1>4, <1>5 DEF Inv

LEMMA InvMoveConstructBuilder ==
  ASSUME Inv, NEW b \in Builders, NEW c \in Builders, MoveConstructBuilder(b, c)
  PROVE  Inv'
<1> USE DEF MoveConstructBuilder, Absent, Live, MoveUnit, Move, owned, facts
<1>1. TypeOK'         BY DEF Inv, TypeOK, PointerInside
<1>2. ArenasTogether' BY DEF Inv, TypeOK, ArenasTogether
<1>3. PointerInside'  BY DEF Inv, TypeOK, PointerInside
<1>4. OneHolder'      BY DEF Inv, TypeOK, OneHolder, PointerInside
<1>5. ValidUnitSound' BY DEF Inv, TypeOK, ValidUnitSound, OneHolder, PointerInside
<1> QED BY <1>1, <1>2, <1>3, <1>4, <1>5 DEF Inv

LEMMA InvMoveAssignBuilder ==
  ASSUME Inv, NEW b \in Builders, NEW c \in Builders, MoveAssignBuilder(b, c)
  PROVE  Inv'
<1> USE DEF MoveAssignBuilder, Absent, Live, MoveUnit, Move, owned, facts
<1>1. TypeOK'         BY DEF Inv, TypeOK, PointerInside
<1>2. ArenasTogether' BY DEF Inv, TypeOK, ArenasTogether
<1>3. PointerInside'  BY DEF Inv, TypeOK, PointerInside
<1>4. OneHolder'      BY DEF Inv, TypeOK, OneHolder, PointerInside
<1>5. ValidUnitSound' BY DEF Inv, TypeOK, ValidUnitSound, OneHolder, PointerInside
<1> QED BY <1>1, <1>2, <1>3, <1>4, <1>5 DEF Inv

LEMMA InvBuildProgram ==
  ASSUME Inv, NEW p \in Programs, NEW b \in Builders, BuildProgram(p, b)
  PROVE  Inv'
<1>0. TypeOK /\ MoveUnit(p, b) /\ p \in Slots /\ b \in Slots /\ p \notin Builders
  BY DEF Inv, BuildProgram
<1>1. TypeOK'
  <2>1. \A c \in Builders : Live(c)' => Live(c) /\ ast'[c] = ast[c]
    BY <1>0, MoveUnitTyped DEF BuildProgram, Live, TypeOK
  <2>2. /\ life' \in [Slots -> {"absent", "live", "moved"}] /\ errors' \in [Slots -> BOOLEAN]
        /\ isValid' \in [Programs -> BOOLEAN] /\ condemned' \subseteq Units
        /\ typed' \in [Units -> {"no", "yes", "failed"}]
    BY <1>0 DEF Inv, BuildProgram, TypeOK, Judge, PointerInside, Verdict, BuilderIsValid, Live
  <2> QED BY <1>0, <2>1, <2>2, MoveUnitTyped DEF BuildProgram, TypeOK
<1> USE DEF BuildProgram, Absent, Live, MoveUnit, Move, Judge, BuilderIsValid, Verdict, owned, facts
<1>2. ArenasTogether' BY DEF Inv, TypeOK, ArenasTogether
<1>3. PointerInside'  BY DEF Inv, TypeOK, PointerInside
<1>4. OneHolder'      BY DEF Inv, TypeOK, OneHolder, PointerInside
<1>5. ValidUnitSound'
  <2>1. ast[b] = nodes[b] /\ ast[b] \in Units /\ p # b
    BY DEF Inv, TypeOK, PointerInside
  <2> SUFFICES ASSUME NEW q \in Programs, isValid'[q], nodes'[q] # NoUnit
               PROVE  nodes'[q] \notin condemned' /\ astOk'[nodes'[q]]
    BY DEF ValidUnitSound
  <2>2. CASE q = p
    <3>1. nodes'[q] = ast[b] BY <2>1, <2>2 DEF Inv, TypeOK
    <3>2. isValid'[q] = (~errors[b] /\ astOk[ast[b]]) BY <2>2 DEF Inv, TypeOK
    <3>3. condemned' = condemned \ {ast[b]} BY <3>2
    <3> QED BY <3>1, <3>2, <3>3
  <2>3. CASE q # p
    <3>1. nodes'[q] = nodes[q] /\ isValid'[q] = isValid[q] BY <2>3 DEF Inv, TypeOK
    <3>2. nodes[q] # ast[b] BY <2>1, <3>1 DEF Inv, OneHolder
    <3>3. nodes[q] \notin condemned /\ astOk[nodes[q]] BY <3>1 DEF Inv, ValidUnitSound
    <3> QED BY <3>1, <3>2, <3>3
  <2> QED BY <2>2, <2>3
<1> QED BY <1>1, <1>2, <1>3, <1>4, <1>5 DEF Inv

LEMMA InvDefaultProgram ==
  ASSUME Inv, NEW p \in Programs, DefaultProgram(p)
  PROVE  Inv'
<1> USE DEF DefaultProgram, Absent, Live, owned, facts
<1>1. TypeOK'         BY DEF Inv, TypeOK, PointerInside
<1>2. ArenasTogether' BY DEF Inv, TypeOK, ArenasTogether
<1>3. PointerInside'  BY DEF Inv, TypeOK, PointerInside
<1>4. OneHolder'      BY DEF Inv, TypeOK, OneHolder, PointerInside
<1>5. ValidUnitSound' BY DEF Inv, TypeOK, ValidUnitSound, OneHolder, PointerInside
<1> QED BY <1>1, <1>2, <1>3, <1>4, <1>5 DEF Inv

LEMMA InvMoveConstructProgram ==
  ASSUME Inv, NEW p \in Programs, NEW q \in Programs, MoveConstructProgram(p, q)
  PROVE  Inv'
<1>0. TypeOK /\ MoveUnit(p, q) /\ p \in Slots /\ q \in Slots /\ p \notin Builders
  BY DEF Inv, MoveConstructProgram
<1>1. TypeOK'
  <2>1. \A b \in Builders : Live(b)' => Live(b) /\ ast'[b] = ast[b]
    BY <1>0, MoveUnitTyped DEF MoveConstructProgram, Live, TypeOK
  <2>2. /\ life' \in [Slots -> {"absent", "live", "moved"}] /\ errors' \in [Slots -> BOOLEAN]
        /\ isValid' \in [Programs -> BOOLEAN]
    BY <1>0 DEF MoveConstructProgram, TypeOK
  <2> QED BY <1>0, <2>1, <2>2, MoveUnitTyped DEF MoveConstructProgram, TypeOK, facts
<1> USE DEF MoveConstructProgram, Absent, Live, MoveUnit, Move, owned, facts
<1>2. ArenasTogether' BY DEF Inv, TypeOK, ArenasTogether
<1>3. PointerInside'  BY DEF Inv, TypeOK, PointerInside
<1>4. OneHolder'      BY DEF Inv, TypeOK, OneHolder, PointerInside
<1>5. ValidUnitSound' BY DEF Inv, TypeOK, ValidUnitSound, OneHolder, PointerInside
<1> QED BY <1>1, <1>2, <1>3, <1>4, <1>5 DEF Inv

LEMMA InvMoveAssignProgram ==
  ASSUME Inv, NEW p \in Programs, NEW q \in Programs, MoveAssignProgram(p, q)
  PROVE  Inv'
<1>0. TypeOK /\ MoveUnit(p, q) /\ p \in Slots /\ q \in Slots /\ p \notin Builders
  BY DEF Inv, MoveAssignProgram
<1>1. TypeOK'
  <2>1. \A b \in Builders : Live(b)' => Live(b) /\ ast'[b] = ast[b]
    BY <1>0, MoveUnitTyped DEF MoveAssignProgram, Live, TypeOK
  <2>2. /\ life' \in [Slots -> {"absent", "live", "moved"}] /\ errors' \in [Slots -> BOOLEAN]
        /\ isValid' \in [Programs -> BOOLEAN]
    BY <1>0 DEF MoveAssignProgram, TypeOK
  <2> QED BY <1>0, <2>1, <2>2, MoveUnitTyped DEF MoveAssignProgram, TypeOK, facts
<1> USE DEF MoveAssignProgram, Absent, Live, MoveUnit, Move, owned, facts
<1>2. ArenasTogether' BY DEF Inv, TypeOK, ArenasTogether
<1>3. PointerInside'  BY DEF Inv, TypeOK, PointerInside
<1>4. OneHolder'      BY DEF Inv, TypeOK, OneHolder, PointerInside
<1>5. ValidUnitSound' BY DEF Inv, TypeOK, ValidUnitSound, OneHolder, PointerInside
<1> QED BY <1>1, <1>2, <1>3, <1>4, <1>5 DEF Inv

LEMMA InvCloneAsBuilder ==
  ASSUME Inv, NEW p \in Programs, NEW b \in Builders, NEW u \in Units, CloneAsBuilder(p, b, u)
  PROVE  Inv'
<1> USE DEF CloneAsBuilder, Absent, Live, NewUnit, Judge, Free, owned, facts
<1>1. TypeOK'         BY DEF Inv, TypeOK, PointerInside
<1>2. ArenasTogether' BY DEF Inv, TypeOK, ArenasTogether
<1>3. PointerInside'  BY DEF Inv, TypeOK, PointerInside
<1>4. OneHolder'      BY DEF Inv, TypeOK, OneHolder, PointerInside
<1>5. ValidUnitSound' BY DEF Inv, TypeOK, ValidUnitSound, OneHolder, PointerInside
<1> QED BY <1>1, <1>2, <1>3, <1>4, <1>5 DEF Inv

LEMMA InvCloneProgram ==
  ASSUME Inv, NEW p \in Programs, NEW q \in Programs, NEW u \in Units, CloneProgram(p, q, u)
  PROVE  Inv'
<1> USE DEF CloneProgram, Absent, Live, NewUnit, Judge, Free, Verdict, owned, facts
<1>1. TypeOK'         BY DEF Inv, TypeOK, PointerInside
<1>2. ArenasTogether' BY DEF Inv, TypeOK, ArenasTogether
<1>3. PointerInside'  BY DEF Inv, TypeOK, PointerInside
<1>4. OneHolder'      BY DEF Inv, TypeOK, OneHolder, PointerInside
<1>5. ValidUnitSound' BY DEF Inv, TypeOK, ValidUnitSound, OneHolder, PointerInside
<1> QED BY <1>1, <1>2, <1>3, <1>4, <1>5 DEF Inv

LEMMA InvTypeDeterminerRun ==
  ASSUME Inv, NEW p \in Programs, NEW u \in Units, TypeDeterminerRun(p, u)
  PROVE  Inv'
<1> USE DEF TypeDeterminerRun, Absent, Live, NewUnit, Judge, Free, owned, facts
<1>1. TypeOK'         BY DEF Inv, TypeOK, PointerInside
<1>2. ArenasTogether' BY DEF Inv, TypeOK, ArenasTogether
<1>3. PointerInside'  BY DEF Inv, TypeOK, PointerInside
<1>4. OneHolder'      BY DEF Inv, TypeOK, OneHolder, PointerInside
<1>5. ValidUnitSound' BY DEF Inv, TypeOK, ValidUnitSound, OneHolder, PointerInside
<1> QED BY <1>1, <1>2, <1>3, <1>4, <1>5 DEF Inv

LEMMA InvDestroy ==
  ASSUME Inv, NEW s \in Slots, Destroy(s)
  PROVE  Inv'
<1> USE DEF Destroy, Absent, Live, owned, facts
<1>1. TypeOK'         BY DEF Inv, TypeOK, PointerInside
<1>2. ArenasTogether' BY DEF Inv, TypeOK, ArenasTogether
<1>3. PointerInside'  BY DEF Inv, TypeOK, PointerInside
<1>4. OneHolder'      BY DEF Inv, TypeOK, OneHolder, PointerInside
<1>5. ValidUnitSound' BY DEF Inv, TypeOK, ValidUnitSound, OneHolder, PointerInside
<1> QED BY <1>1, <1>2, <1>3, <1>4, <1>5 DEF Inv
-----------------------------------------------------------------------------
LEMMA InvStep == Inv /\ [Next]_vars => Inv'
<1> SUFFICES ASSUME Inv, [Next]_vars PROVE Inv'
  OBVIOUS
<1>1. CASE UNCHANGED vars
  BY <1>1 DEF vars, owned, facts, Inv, TypeOK, ArenasTogether, PointerInside,
              OneHolder, ValidUnitSound, Live, Absent
<1>2. CASE BuilderStep
  BY <1>2, InvConstructBuilder, InvAddInvalidNode, InvAddUntypableNode,
     InvReportError, InvSetResolveOnBuild, InvMoveConstructBuilder,
     InvMoveAssignBuilder DEF BuilderStep
<1>3. CASE ProgramStep
  BY <1>3, InvDefaultProgram, InvBuildProgram, InvMoveConstructProgram,
     InvMoveAssignProgram, InvCloneAsBuilder, InvCloneProgram,
     InvTypeDeterminerRun DEF ProgramStep
<1>4. CASE \E s \in Slots : Destroy(s)
  BY <1>4, InvDestroy
<1> QED BY <1>1, <1>2, <1>3, <1>4 DEF Next

\* The inductive invariant holds of every reachable state.
THEOREM Invariance == Spec => []Inv
<1>1. Init => Inv BY InitInv
<1>2. Inv /\ [Next]_vars => Inv' BY InvStep
<1> QED BY <1>1, <1>2, PTL DEF Spec

\* Type correctness of the builders' and programs' state.
THEOREM TypeCorrect == Spec => []TypeOK
<1>1. Inv => TypeOK BY DEF Inv
<1> QED BY <1>1, Invariance, PTL

\* However builders and programs are moved, cloned and built, no arena has two
\* owners and every live object reads the unit it owns (program.cc:29-80,
\* program_builder.cc:29-49).
THEOREM OwnershipHolds == Spec => []Ownership
<1>1. Inv => Ownership
  BY DEF Inv, TypeOK, ArenasTogether, PointerInside, OneHolder, Ownership,
         Exclusive, Coherent, Live
<1> QED BY <1>1, Invariance, PTL

\* No sequence of moves and assignments makes a refused program valid again
\* (program.cc:35, :41, :77).
THEOREM RefusalIsFinal == Spec => []RefusedStaysRefused
<1>1. Inv => RefusedStaysRefused
  BY DEF Inv, TypeOK, PointerInside, ValidUnitSound, RefusedStaysRefused, Live
<1> QED BY <1>1, Invariance, PTL

-----------------------------------------------------------------------------
(* Refinement: the arenas follow UnitOwnership, with `holding` = `nodes`. *)

LEMMA InitRefines == Init => Owner!Init
  BY DEF Init, Owner!Init

LEMMA StepRefines == Inv /\ [Next]_vars => [Owner!Next]_nodes
<1> SUFFICES ASSUME Inv, [Next]_vars PROVE [Owner!Next]_nodes
  OBVIOUS
<1> USE DEF Inv, TypeOK
<1>1. ASSUME NEW s \in Slots, NEW u \in Units, Free(u), nodes' = [nodes EXCEPT ![s] = u]
      PROVE  Owner!Next
  <2>1. Owner!Acquire(s, u) BY <1>1 DEF Free, Owner!Acquire, Owner!Unheld
  <2> QED BY <2>1 DEF Owner!Next
<1>2. ASSUME NEW s \in Slots, NEW t \in Slots, s # t, nodes' = Move(nodes, s, t)
      PROVE  Owner!Next
  <2>1. Owner!Transfer(s, t) BY <1>2 DEF Move, Owner!Transfer
  <2> QED BY <2>1 DEF Owner!Next
<1>3. CASE UNCHANGED vars
  BY <1>3 DEF vars, owned
<1>4. CASE BuilderStep
  <2>1. ASSUME NEW b \in Builders, NEW u \in Units, ConstructBuilder(b, u)
        PROVE  Owner!Next
    BY <2>1, <1>1 DEF ConstructBuilder, NewUnit
  <2>2. ASSUME NEW a \in Builders, NEW b \in Builders, MoveConstructBuilder(a, b) \/ MoveAssignBuilder(a, b)
        PROVE  Owner!Next
    <3>1. a # b /\ nodes' = Move(nodes, a, b)
      BY <2>2 DEF MoveConstructBuilder, MoveAssignBuilder, MoveUnit, Absent, Live
    <3> QED BY <3>1, <1>2
  <2>3. ASSUME NEW b \in Builders, NEW e \in BOOLEAN,
               AddInvalidNode(b) \/ AddUntypableNode(b) \/ ReportError(b) \/ SetResolveOnBuild(b, e)
        PROVE  UNCHANGED nodes
    BY <2>3 DEF AddInvalidNode, AddUntypableNode, ReportError, SetResolveOnBuild, owned
  <2> QED BY <1>4, <2>1, <2>2, <2>3 DEF BuilderStep
<1>5. CASE ProgramStep
  <2>1. CASE \E p \in Programs : DefaultProgram(p)
    BY <2>1 DEF DefaultProgram, owned
  <2>2. CASE \E p \in Programs, b \in Builders : BuildProgram(p, b)
    BY <2>2, <1>2 DEF BuildProgram, MoveUnit, Absent, Live
  <2>3. CASE \E p, q \in Programs : MoveConstructProgram(p, q) \/ MoveAssignProgram(p, q)
    BY <2>3, <1>2 DEF MoveConstructProgram, MoveAssignProgram, MoveUnit, Absent, Live
  <2>4. ASSUME NEW p \in Programs, NEW b \in Builders, NEW u \in Units, CloneAsBuilder(p, b, u)
        PROVE  Owner!Next
    <3>1. Free(u) /\ nodes' = [nodes EXCEPT ![b] = u]
      BY <2>4 DEF CloneAsBuilder, NewUnit
    <3> QED BY <3>1, <1>1
  <2>5. ASSUME NEW p \in Programs, NEW q \in Programs, NEW u \in Units, CloneProgram(p, q, u)
        PROVE  Owner!Next
    <3>1. Free(u) /\ nodes' = [nodes EXCEPT ![q] = u]
      BY <2>5 DEF CloneProgram, NewUnit
    <3> QED BY <3>1, <1>1
  <2>6. CASE \E p \in Programs, u \in Units : TypeDeterminerRun(p, u)
    BY <2>6, <1>1 DEF TypeDeterminerRun, NewUnit
  <2> QED BY <1>5, <2>1, <2>2, <2>3, <2>4, <2>5, <2>6 DEF ProgramStep
<1>6. CASE \E s \in Slots : Destroy(s)
  <2>1. PICK s \in Slots : Destroy(s) BY <1>6
  <2>2. Owner!Release(s) BY <2>1 DEF Destroy, Owner!Release
  <2> QED BY <2>2 DEF Owner!Next
<1> QED BY <1>3, <1>4, <1>5, <1>6 DEF Next

\* Every step of a builder or a program is a step of the ownership protocol or
\* leaves ownership unchanged.
THEOREM FollowsProtocol == Spec => OwnershipProtocol
<1>1. Init => Owner!Init BY InitRefines
<1>2. Inv /\ [Next]_vars => [Owner!Next]_nodes BY StepRefines
<1> QED BY <1>1, <1>2, Invariance, PTL DEF Spec, OwnershipProtocol, Owner!Spec
=============================================================================
