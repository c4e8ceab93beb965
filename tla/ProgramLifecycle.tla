-------------------------- MODULE ProgramLifecycle --------------------------
(***************************************************************************)
(* The life of ProgramBuilder and Program objects (program_builder.cc and  *)
(* program.cc): construction, error reports, building, moves, clones,      *)
(* destruction.                                                            *)
(*                                                                         *)
(* A builder or a program owns three arenas that are created together: the *)
(* AST nodes, the types and the symbols.  A *unit* is the identity of such *)
(* a triple; NoUnit is the content of an arena that was moved from or that *)
(* was never filled.  ast_ is a raw pointer into a nodes arena, so it is   *)
(* tracked on its own: nothing clears it when the arenas move.             *)
(*                                                                         *)
(* Abstractions.  Of the diagnostics only "contains errors" is kept.  Of   *)
(* the AST two verdicts are kept: what Module::IsValid() says of it, and   *)
(* whether the TypeDeterminer can type it; both are facts of the tree, so  *)
(* a deep copy has the verdicts of its original.                           *)
(***************************************************************************)
EXTENDS FiniteSets

CONSTANTS Builders,   \* the ProgramBuilder objects of the compilation
          Programs,   \* the Program objects
          Units,      \* identities of arena triples (a bound: one per owner)
          NoUnit      \* an empty arena, or a pointer that was never set

ASSUME SlotsDisjoint == Builders \cap Programs = {}
ASSUME NoUnitOutside == NoUnit \notin Units

Slots == Builders \cup Programs

VARIABLES
  life,       \* slot -> is the C++ object absent, live, or moved from
  nodes,      \* slot -> unit of nodes_
  types,      \* slot -> unit of types_
  symbols,    \* slot -> unit of symbols_
  ast,        \* slot -> unit the ast_ pointer points into
  errors,     \* slot -> diagnostics_.contains_errors(); a list that was moved
              \* from keeps its error_count_
  isValid,    \* program -> is_valid_
  resolve,    \* builder -> resolve_on_build_
  ty,         \* builder -> the builder its `ty` factory points back to
  astOk,      \* unit -> what ast::Module::IsValid() answers
  typable,    \* unit -> what TypeDeterminer::Determine() answers
  typed,      \* unit -> "no", "yes", or "failed": what Determine() left
  condemned   \* ghost: units a program was built from that IsValid() refused

owned == <<nodes, types, symbols, ast>>
facts == <<astOk, typable, typed>>
vars  == <<life, owned, errors, isValid, resolve, ty, facts, condemned>>

-----------------------------------------------------------------------------
Absent(s) == life[s] = "absent"
Live(s)   == life[s] = "live"

\* A unit no arena holds: the next construction may use its identity.
Free(u) == \A s \in Slots : u \notin {nodes[s], types[s], symbols[s]}

\* Mutant of Move: a copy, the source keeps its arena.
Move_Copies(arena, to, from) == [arena EXCEPT ![to] = arena[from]]

\* std::move of an arena: the source is left empty.
Move(arena, to, from) == [arena EXCEPT ![to] = arena[from], ![from] = NoUnit]

\* ProgramBuilder::IsValid()
BuilderIsValid(b) == ~errors[b] /\ astOk[ast[b]]

\* A fresh triple of arenas in slot s, with an ast_ of the given verdicts.
NewUnit(s, u, ok, canType) ==
  /\ nodes'   = [nodes EXCEPT ![s] = u]
  /\ types'   = [types EXCEPT ![s] = u]
  /\ symbols' = [symbols EXCEPT ![s] = u]
  /\ ast'     = [ast EXCEPT ![s] = u]
  /\ astOk'   = [astOk EXCEPT ![u] = ok]
  /\ typable' = [typable EXCEPT ![u] = canType]

\* What becomes of the ghost when unit u is built with verdict ok.
Judge(u, ok) == condemned' = IF ok THEN condemned \ {u} ELSE condemned \cup {u}

\* Mutant of MoveUnit: symbols_ is missing from the list of members.
MoveUnit_WithoutSymbols(to, from) ==
  /\ nodes' = Move(nodes, to, from)
  /\ types' = Move(types, to, from)
  /\ ast'   = [ast EXCEPT ![to] = ast[from]]
  /\ UNCHANGED symbols

\* Mutant of MoveUnit: ast_ is missing from the list of members.
MoveUnit_WithoutAst(to, from) ==
  /\ nodes'   = Move(nodes, to, from)
  /\ types'   = Move(types, to, from)
  /\ symbols' = Move(symbols, to, from)
  /\ UNCHANGED ast

\* The moves of types_, nodes_ and symbols_, and the copy of ast_.
MoveUnit(to, from) ==
  /\ nodes'   = Move(nodes, to, from)
  /\ types'   = Move(types, to, from)
  /\ symbols' = Move(symbols, to, from)
  /\ ast'     = [ast EXCEPT ![to] = ast[from]]

-----------------------------------------------------------------------------
Init ==
  /\ life      = [s \in Slots |-> "absent"]
  /\ nodes     = [s \in Slots |-> NoUnit]
  /\ types     = [s \in Slots |-> NoUnit]
  /\ symbols   = [s \in Slots |-> NoUnit]
  /\ ast       = [s \in Slots |-> NoUnit]
  /\ errors    = [s \in Slots |-> FALSE]
  /\ isValid   = [p \in Programs |-> TRUE]
  /\ resolve   = [b \in Builders |-> TRUE]
  /\ ty        = [b \in Builders |-> b]
  /\ astOk     = [u \in Units |-> TRUE]
  /\ typable   = [u \in Units |-> TRUE]
  /\ typed     = [u \in Units |-> "no"]
  /\ condemned = {}

-----------------------------------------------------------------------------
(* ProgramBuilder *)

ConstructBuilder(b, u) ==
  /\ Absent(b) /\ Free(u)
  /\ life' = [life EXCEPT ![b] = "live"]
  /\ NewUnit(b, u, TRUE, TRUE) /\ Judge(u, TRUE)
  /\ typed' = [typed EXCEPT ![u] = "no"]
  /\ ty' = [ty EXCEPT ![b] = b]
  /\ errors' = [errors EXCEPT ![b] = FALSE]
  /\ resolve' = [resolve EXCEPT ![b] = TRUE]
  /\ UNCHANGED isValid

\* create<>() of nodes that make Module::IsValid() false (a null child).
AddInvalidNode(b) ==
  /\ Live(b)
  /\ astOk' = [astOk EXCEPT ![ast[b]] = FALSE]
  /\ UNCHANGED <<life, owned, errors, isValid, resolve, ty, typable, typed, condemned>>

\* create<>() of well-formed nodes the TypeDeterminer cannot type.
AddUntypableNode(b) ==
  /\ Live(b)
  /\ typable' = [typable EXCEPT ![ast[b]] = FALSE]
  /\ UNCHANGED <<life, owned, errors, isValid, resolve, ty, astOk, typed, condemned>>

\* Diagnostics().add_error(...)
ReportError(b) ==
  /\ Live(b)
  /\ errors' = [errors EXCEPT ![b] = TRUE]
  /\ UNCHANGED <<life, owned, isValid, resolve, ty, facts, condemned>>

SetResolveOnBuild(b, enable) ==
  /\ Live(b)
  /\ resolve' = [resolve EXCEPT ![b] = enable]
  /\ UNCHANGED <<life, owned, errors, isValid, ty, facts, condemned>>

\* ProgramBuilder(ProgramBuilder&& rhs): diagnostics_ and resolve_on_build_
\* are not in the initialiser list, and ty is copied with its back pointer.
MoveConstructBuilder(b, rhs) ==
  /\ Absent(b) /\ Live(rhs)
  /\ life' = [life EXCEPT ![b] = "live", ![rhs] = "moved"]
  /\ MoveUnit(b, rhs)
  /\ ty' = [ty EXCEPT ![b] = ty[rhs]]
  /\ errors' = [errors EXCEPT ![b] = FALSE]
  /\ resolve' = [resolve EXCEPT ![b] = TRUE]
  /\ UNCHANGED <<isValid, facts, condemned>>

\* operator=(ProgramBuilder&& rhs): the target keeps its own diagnostics_ and
\* its own resolve_on_build_; its old arenas are destroyed.
MoveAssignBuilder(b, rhs) ==
  /\ b # rhs /\ Live(b) /\ Live(rhs)
  /\ life' = [life EXCEPT ![rhs] = "moved"]
  /\ MoveUnit(b, rhs)
  /\ ty' = [ty EXCEPT ![b] = ty[rhs]]
  /\ UNCHANGED <<errors, isValid, resolve, facts, condemned>>

-----------------------------------------------------------------------------
(* Program *)

\* The TypeDeterminer part of Program(ProgramBuilder&&): what it makes of a
\* unit that was `before`.
Verdict(resolveOnBuild, valid, canType, before) ==
  IF ~(resolveOnBuild /\ valid) THEN before ELSE IF canType THEN "yes" ELSE "failed"

\* Program(ProgramBuilder&& builder).  The error of a failed determination is
\* added to diagnostics_, which the later move assignment from the builder's
\* list overwrites, and is_valid_ was fixed before the determination: neither
\* shows in the new program.  An error is added when is_valid_ is false and
\* the builder reported none.
BuildProgram(p, b) ==
  /\ Absent(p) /\ Live(b)
  /\ life' = [life EXCEPT ![p] = "live", ![b] = "moved"]
  /\ isValid' = [isValid EXCEPT ![p] = BuilderIsValid(b)]
  /\ typed' = [typed EXCEPT ![ast[b]] =
                 Verdict(resolve[b], BuilderIsValid(b), typable[ast[b]], typed[ast[b]])]
  /\ MoveUnit(p, b)
  /\ errors' = [errors EXCEPT ![p] = errors[b] \/ ~BuilderIsValid(b)]
  /\ Judge(ast[b], BuilderIsValid(b))
  /\ UNCHANGED <<resolve, ty, astOk, typable>>

\* Program(): empty arenas, an ast_ nobody set, is_valid_ = true.
DefaultProgram(p) ==
  /\ Absent(p)
  /\ life' = [life EXCEPT ![p] = "live"]
  /\ isValid' = [isValid EXCEPT ![p] = TRUE]
  /\ errors' = [errors EXCEPT ![p] = FALSE]
  /\ UNCHANGED <<owned, resolve, ty, facts, condemned>>

MoveConstructProgram(p, rhs) ==
  /\ Absent(p) /\ Live(rhs)
  /\ life' = [life EXCEPT ![p] = "live", ![rhs] = "moved"]
  /\ MoveUnit(p, rhs)
  /\ errors' = [errors EXCEPT ![p] = errors[rhs]]
  /\ isValid' = [isValid EXCEPT ![p] = isValid[rhs]]
  /\ UNCHANGED <<resolve, ty, facts, condemned>>

\* Mutant of MoveAssignProgram: is_valid_ is not assigned.
MoveAssignProgram_KeepsIsValid(p, rhs) ==
  /\ p # rhs /\ ~Absent(p) /\ Live(rhs)
  /\ life' = [life EXCEPT ![rhs] = "moved"]
  /\ MoveUnit(p, rhs)
  /\ UNCHANGED <<isValid, errors, resolve, ty, facts, condemned>>

\* operator=(Program&& program): diagnostics_ stays where it is, and a target
\* that was moved from stays marked so.
MoveAssignProgram(p, rhs) ==
  /\ p # rhs /\ ~Absent(p) /\ Live(rhs)
  /\ life' = [life EXCEPT ![rhs] = "moved"]
  /\ MoveUnit(p, rhs)
  /\ isValid' = [isValid EXCEPT ![p] = isValid[rhs]]
  /\ UNCHANGED <<errors, resolve, ty, facts, condemned>>

\* Program::CloneAsBuilder(): a new builder, deep copies, no diagnostics and
\* no types for the expressions.
CloneAsBuilder(p, b, u) ==
  /\ Live(p) /\ ast[p] # NoUnit /\ Absent(b) /\ Free(u)
  /\ life' = [life EXCEPT ![b] = "live"]
  /\ NewUnit(b, u, astOk[ast[p]], typable[ast[p]]) /\ Judge(u, TRUE)
  /\ typed' = [typed EXCEPT ![u] = "no"]
  /\ ty' = [ty EXCEPT ![b] = b]
  /\ errors' = [errors EXCEPT ![b] = FALSE]
  /\ resolve' = [resolve EXCEPT ![b] = TRUE]
  /\ UNCHANGED isValid

\* Program::Clone(): CloneAsBuilder() and Program(ProgramBuilder&&) in one
\* expression; the builder is a temporary.
CloneProgram(p, q, u) ==
  /\ Live(p) /\ ast[p] # NoUnit /\ Absent(q) /\ Free(u)
  /\ LET ok      == astOk[ast[p]]
         canType == typable[ast[p]]
     IN  /\ NewUnit(q, u, ok, canType) /\ Judge(u, ok)
         /\ typed'   = [typed EXCEPT ![u] = Verdict(TRUE, ok, canType, "no")]
         /\ isValid' = [isValid EXCEPT ![q] = ok]
         /\ errors'  = [errors EXCEPT ![q] = ~ok]
  /\ life' = [life EXCEPT ![q] = "live"]
  /\ UNCHANGED <<resolve, ty>>

\* TypeDeterminer::Run(program): clone, determine the clone, and assign it
\* back when that succeeds.  The clone and its program are temporaries.
TypeDeterminerRun(p, u) ==
  /\ Live(p) /\ ast[p] # NoUnit /\ typable[ast[p]] /\ Free(u)
  /\ NewUnit(p, u, astOk[ast[p]], TRUE) /\ Judge(u, astOk[ast[p]])
  /\ typed' = [typed EXCEPT ![u] = "yes"]
  /\ isValid' = [isValid EXCEPT ![p] = astOk[ast[p]]]
  /\ UNCHANGED <<life, errors, resolve, ty>>

\* The destructor; the members of an absent object get their first values.
Destroy(s) ==
  /\ ~Absent(s)
  /\ life'    = [life EXCEPT ![s] = "absent"]
  /\ nodes'   = [nodes EXCEPT ![s] = NoUnit]
  /\ types'   = [types EXCEPT ![s] = NoUnit]
  /\ symbols' = [symbols EXCEPT ![s] = NoUnit]
  /\ ast'     = [ast EXCEPT ![s] = NoUnit]
  /\ errors'  = [errors EXCEPT ![s] = FALSE]
  /\ isValid' = [p \in Programs |-> p = s \/ isValid[p]]
  /\ resolve' = [b \in Builders |-> b = s \/ resolve[b]]
  /\ ty'      = [b \in Builders |-> IF b = s THEN b ELSE ty[b]]
  /\ UNCHANGED <<facts, condemned>>

-----------------------------------------------------------------------------
BuilderStep ==
  \/ \E b \in Builders : AddInvalidNode(b) \/ AddUntypableNode(b) \/ ReportError(b)
  \/ \E b \in Builders, u \in Units : ConstructBuilder(b, u)
  \/ \E b \in Builders, e \in BOOLEAN : SetResolveOnBuild(b, e)
  \/ \E b, c \in Builders : MoveConstructBuilder(b, c) \/ MoveAssignBuilder(b, c)

ProgramStep ==
  \/ \E p \in Programs : DefaultProgram(p)
  \/ \E p \in Programs, b \in Builders : BuildProgram(p, b)
  \/ \E p, q \in Programs : MoveConstructProgram(p, q) \/ MoveAssignProgram(p, q)
  \/ \E p \in Programs, b \in Builders, u \in Units : CloneAsBuilder(p, b, u)
  \/ \E p, q \in Programs, u \in Units : CloneProgram(p, q, u)
  \/ \E p \in Programs, u \in Units : TypeDeterminerRun(p, u)

Next == BuilderStep \/ ProgramStep \/ \E s \in Slots : Destroy(s)

Spec == Init /\ [][Next]_vars
-----------------------------------------------------------------------------
(* Properties *)

\* The types of the state: every arena holds a unit or nothing, and a live
\* builder always has a module (AST() and IsValid() follow ast_ unchecked).
TypeOK ==
  /\ life \in [Slots -> {"absent", "live", "moved"}]
  /\ nodes \in [Slots -> Units \cup {NoUnit}]
  /\ types \in [Slots -> Units \cup {NoUnit}]
  /\ symbols \in [Slots -> Units \cup {NoUnit}]
  /\ ast \in [Slots -> Units \cup {NoUnit}]
  /\ errors \in [Slots -> BOOLEAN]
  /\ isValid \in [Programs -> BOOLEAN]
  /\ resolve \in [Builders -> BOOLEAN]
  /\ ty \in [Builders -> Builders]
  /\ astOk \in [Units -> BOOLEAN]
  /\ typable \in [Units -> BOOLEAN]
  /\ typed \in [Units -> {"no", "yes", "failed"}]
  /\ condemned \subseteq Units
  /\ \A b \in Builders : Live(b) => ast[b] \in Units

\* No arena has two owners, so nothing is freed twice and no builder can
\* change the nodes, types or symbols of a finished program.
Exclusive ==
  \A s, t \in Slots :
    s # t => /\ nodes[s] # NoUnit => nodes[s] # nodes[t]
             /\ types[s] # NoUnit => types[s] # types[t]
             /\ symbols[s] # NoUnit => symbols[s] # symbols[t]

\* A live object reads one compilation unit: its ast_ points into the nodes it
\* owns, and those nodes use the types and symbols it owns.
Coherent ==
  \A s \in Slots :
    Live(s) => nodes[s] = ast[s] /\ types[s] = ast[s] /\ symbols[s] = ast[s]

\* Through every move, clone and build, ownership of the three arenas and the
\* raw ast_ pointer stay together (program.cc and program_builder.cc list the
\* members of every move by hand).
Ownership == Exclusive /\ Coherent

\* What a program made of a builder that IsValid() refused stays refused: no
\* move or assignment of Programs (program.cc:29, :70) turns is_valid_ back
\* on, and the AST of a program that says it is valid is well-formed.
RefusedStaysRefused ==
  \A p \in Programs :
    Live(p) /\ isValid[p] /\ ast[p] # NoUnit =>
      ast[p] \notin condemned /\ astOk[ast[p]]

\* program.h:97: "returns true if the program has no error diagnostics and is
\* not missing information".  A program whose types could not be determined
\* (program.cc:44) is missing them.
ValidProgramIsTyped ==
  \A p \in Programs :
    Live(p) /\ isValid[p] /\ ast[p] # NoUnit => typed[ast[p]] # "failed"

\* program.cc:61: "If the builder claims to be invalid, then we really should
\* have an error message generated."
InvalidProgramExplainsItself ==
  \A p \in Programs : Live(p) /\ ~isValid[p] => errors[p]

\* program_builder.h:866: "Once set, no methods may be called on this builder."
\* Every use of b.ty calls create<>() on the builder ty points back to
\* (program_builder.h:224), so for a live b that builder must be live.
FactoryReachesLiveBuilder == \A b \in Builders : Live(b) => Live(ty[b])

\* The arenas follow the ownership protocol of UnitOwnership.
Owner == INSTANCE UnitOwnership WITH Slots <- Slots, holding <- nodes

\* Every step of a builder or a program acquires, transfers or releases a unit
\* as UnitOwnership allows, or leaves ownership alone.
OwnershipProtocol == Owner!Spec
=============================================================================
