# A TLA+ model of Tint

Tint compiles shaders between WGSL, SPIR-V, HLSL and MSL.  This directory holds
TLA+ modules for the parts of the compiler that keep state over many steps and
for its pipeline from a parsed module to the text of a writer, the TLC
configurations that check them on small instances, and TLAPS proofs of the
results that hold for every instance.  Paths below are relative to the
repository; `function.cc` without a directory is `src/reader/spirv/function.cc`.

Contents: [the system](#the-system) ·
[the modules](#the-modules) · [the runs](#the-runs) ·
[what the code does otherwise than it says](#findings) ·
[the proofs](#the-proofs) · [limits](#limits) ·
[not modelled](#not-modelled) · [the plan](#the-plan)

## The system

One compilation is one thread that runs these parts in turn
(`samples/main.cc` is the pipeline in one file: read, transform, validate,
write).

| part | state | operations | what makes it hard |
|---|---|---|---|
| `ProgramBuilder`, `Program` (`src/program*.{h,cc}`) | three arenas (types, nodes, symbols), the raw pointer `ast_`, diagnostics, `is_valid_`, `moved_` | construct, `create<>()`, build, move, assign, clone, destroy | members of every move are listed by hand; validity and diagnostics are kept apart |
| type determiner (`src/type_determiner.cc`) | scope stack, current function, call records, per-function references and ancestors | one pass over the functions, then a walk over the calls | inherits half-known facts of callees; the walk recurses without memory |
| SPIR-V reader (`src/reader/spirv`) | block order, constructs, edge kinds; the emission stack; the namer | parse, order the blocks, nest constructs, classify edges, emit statements | an arbitrary graph becomes nested statements; guards replace forward jumps |
| WGSL reader (`src/reader/wgsl`) | token queue, sync tokens, `synchronized_`, error count | lex, match, sync, recover | error recovery must neither loop nor lose the end of a construct |
| `CloneContext` (`src/clone_context.*`) | map from original to clone, replacement transforms | clone by pointer, replace | sharing must be kept, replacements must be seen by every later clone |
| transforms (`src/transform`) | the program they clone, per-transform counters and flags | `Manager::Run`, four transforms | one transform fails in the middle of a chain |
| validator (`src/validator`) | scope stack, declared names, diagnostics | one pass | scopes, and what the pass does not descend into |
| inspector (`src/inspector`) | none of its own | queries | relies on the determiner's annotations |
| writers (`src/writer/{spirv,hlsl,msl,wgsl}`) | result ids, caches of types and constants, scope stack, merge and continue stacks, output buffers | one pass over the AST | statement nesting becomes blocks with exactly one terminator |
| support (`scope_stack.h`, `block_allocator.h`, `symbol_table.cc`, `namer.cc`, `demangler.cc`, `diagnostic/`) | maps and counters | register, look up, name | name collisions, moved-from state |

Nothing in `src/` is concurrent: there are no threads, no locks and no
messages.  What is hard are orders of calls, ownership, error paths, recursion,
and the translation of control flow.

How they interact:

* A reader owns a `ProgramBuilder`, fills it, and moves it into a `Program`.
  The constructor of `Program` runs the type determiner on the builder, which
  annotates the AST in place.
* A transform makes a new builder, clones the program into it through a
  `CloneContext` with its replacements, and builds a program of it;
  `Manager::Run` chains them, and the driver assigns the result over its
  program.
* Validator, inspector and writers read a finished program.  They rely on the
  determiner: the SPIR-V writer makes an entry point's interface of
  `referenced_module_variables()`, the HLSL and MSL writers emit a function
  once for each of its `ancestor_entry_points()`.
* The SPIR-V reader relies on SPIR-V Tools, which validates a module before any
  function of it is read.

What correctness means, part by part:

* *Lifecycle*: an arena has one owner; what a live object points to is what it
  owns; a refused builder never becomes a program that says it is valid; an
  invalid program explains itself.
* *Determiner*: what it records of variables and entry points is what the call
  graph says; it ends.
* *SPIR-V control flow*: what is accepted is emitted; what is emitted executes
  the blocks of the graph in its order.
* *CloneContext and names*: a clone has the shape of its original with every
  replacement applied; different symbols stay different.
* *WGSL reader*: parsing ends, and after an error it goes on at the token that
  ends the construct with the error.
* *Validator and scopes*: a name resolves to the declaration WGSL says.
* *SPIR-V writer*: a block has one terminator, a branch goes to a block of the
  function, an id is defined once and before its use.
* *Transforms*: a chain has the effect of its members, or fails as a whole.

## The modules

```
UnitOwnership  <--refined by--  ProgramLifecycle  <--  MCProgramLifecycle
                                      ^-- ProgramLifecycle_proofs
CallGraph  <--  MCCallGraph
   ^-- CallGraph_proofs
SpirvCfg  <--  SpirvEmit  <--  WgslRun  <--  MCWgslRun
   ^-- SpirvCfg_proofs
WgslGrammar  <--  WgslParser  <--  MCWgslParser
    ^                 ^-- WgslParser_proofs
    |                         ^-- WgslParserStack_proofs  <--  WgslParserResults_proofs
    +-- WgslGrammar_proofs  <-----------+                         ^-- WgslParserHeld_proofs

Ast  <--  TypeDeterminer, Validator, Transforms, WgslGenerator, WgslReader
     <--  SpirvBuilder  <--  SpirvMachine
     <--  Meaning  <--  TextGenerator  <--  HlslGenerator, MslGenerator
All of these  <--  Pipeline  <--  MCPipeline
```

### ProgramLifecycle (and UnitOwnership)

`ProgramBuilder` and `Program` objects are slots that are absent, live, or moved
from.  The three arenas of an object are created together, so one identity, a
*unit*, stands for the three; each arena of each slot holds a unit or `NoUnit`,
and the raw pointer `ast_` is tracked on its own, because nothing clears it when
the arenas move.  There is one action per constructor, move, assignment, clone,
build and destructor, with the members each one moves, copies or forgets, as the
C++ lists them: the moves of a builder leave `diagnostics_` and
`resolve_on_build_` behind, the move assignment of a program leaves
`diagnostics_` behind, `Program(ProgramBuilder&&)` fixes `is_valid_`, determines
the types, and overwrites the diagnostics, in this order.  Of the diagnostics
only "contains errors" is kept; of the AST, the verdicts of `Module::IsValid()`
and of `TypeDeterminer::Determine()`, facts of the tree that a deep copy shares.
A moved-from object is never used again but for destruction and, for programs,
assignment: `AssertNotMoved` guards the rest.

`UnitOwnership` is the abstract specification: a unit enters through the slot
that creates it, changes hands by a transfer that empties the giver, and leaves
with its holder.  `ProgramLifecycle` implements it with `holding <- nodes`.

### CallGraph

`TypeDeterminer::Determine()`: functions in order, in each any sequence of
references to module variables and of calls (so one behaviour is one module and
its determination), then the loop over the entry points, with the frames of the
recursive `set_entry_points()` as `stack`.  A call of an unknown function fails
the determination.  The reference definition of reachability, `CalledFrom`, is
the least closed set, written without recursion.

### SpirvCfg, SpirvEmit, WgslRun

`FunctionEmitter::EmitBody()` finds structure in a function's control flow graph
and emits nested statements.  The three modules are its analysis, its emission,
and the execution of what was emitted.

*SpirvCfg* has one phase for each pass, and one action per block or construct:
`RegisterMerges`, `VerifyHeaderContinueMergeOrder` and
`LabelControlFlowConstructs` ("label"), `FindSwitchCaseHeaders` ("cases"),
`ClassifyCFGEdges` ("edges"), `FindIfSelectionInternalHeaders` ("ifs"), each
with its rejections.  The graph is revealed when a pass reads it: the merge
instruction of a block in the first, the labels of an `OpSwitch` in the second,
the other terminators in the third.  `ComputeBlockOrderAndPositions` comes first
in the code and needs the whole graph; here a block is named by its position,
and `Traverse` at the end computes the traversal from the revealed graph and
keeps the graph if the order it gives is 1, 2, 3 and so on.  A graph whose order
is another one is the same graph with its blocks renamed.  `Traverse` also asks
for `ValidSpirv`, the rules of structured control flow SPIR-V Tools enforces
before the reader sees a function: dominance of headers, a back-edge for every
loop, exits of constructs, and the rules for case constructs.

*SpirvEmit* has `statements_stack_` and the lists under construction: the
action `EmitBasicBlock` closes the lists that end at the block, enters
constructs (`EmitIfStart`, `EmitSwitchStart`, `EmitLoopStart`,
`EmitContinuingStart`), and emits the terminator (`EmitNormalTerminator`,
`MakeBranchDetailed`, `EmitConditionalCaseFallThrough`, `PushGuard`).  An
"internal error" of the emitter is the stage "failed".  What a block computes is
one statement.

*WgslRun* executes the emitted statements: nested lists are frames; `break`,
`continue`, `fallthrough`, loops with a continuing part, flow guard variables.
When a block has run, the outcome of its terminator is chosen, and from then on
`Due` is the block the SPIR-V graph executes next.  `Matches` compares: the next
block the statements reach must be the one that is due, a condition must be that
of the terminator that is due, and the function must be left where the graph
returns.  As every terminator's outcome is chosen freely, every path through the
graph, and every path through the statements, is run.

### WgslGrammar, WgslParser

*WgslGrammar* is `parser_impl.cc` as data: one entry for each grammar function,
in one of a few forms (a sequence of steps, alternatives, a loop, a bracketed
block, a body under `sync()`), with what each of its steps does when a token
does not match, when a function it calls matches nothing, and when that function
fails.  The order of the steps, the early returns and the errors they report are
those of the code; `Then`, `Each`, `Expect`, `Must` name the idioms of the code
(`match`, `while`, `expect`, `if (x.errored) return Failure::kErrored`).

*WgslParser* runs these functions on an explicit call stack: one action per kind
of step, with the token queue of `peek()`, the sync tokens that are the frames of
`sync()` and `expect_block()`, `sync_to()` token by token with its bracket
counters and its look-ahead, `synchronized_`, `add_error()` with silenced errors,
`max_errors_`, and the depth limit of constant expressions.  A token that has
been looked at is the set of the kinds it may still be; a test splits the set.
So every text is covered, and two texts are told apart only by what the parser
asks of them.  A text may end at any token, also inside brackets, and may hold a
character that no token starts with, which the lexer then returns again and
again.  The names of declarations are kept as far as redefinitions matter.

What the model says of a text (how many errors are reported, whether the module
is valid) was compared with the parser itself on some eighty thousand texts of
up to nine tokens, valid and broken: no difference.

### Ast, TypeDeterminer, Validator, Transforms

*Ast* has one constructor for each class of nodes, with the parts each class
clones and the condition its `IsValid()` asks for, and the types with the
questions the compiler asks of them (`UnwrapAll`, `is_integer_scalar`).  A node
is a record; a name is its own symbol.

*TypeDeterminer* is the pass over a module that gives every expression its
`result_type()`: scopes (`variable_stack_`, where a declaration lands in the
scope of the function, whatever block it is in), statements, the rules of each
class of expressions, the table of intrinsics, the texture intrinsics with the
roles of their arguments, and the module variables a function refers to.  It is
the companion of *CallGraph*, which has the same determination as a state
machine for every call graph; here it is one step and has the types.

*Validator* is `ValidatorImpl`: the first rule that is broken, or none.  It looks
at the statements of a function's body and of no other block.

*Transforms* has the clone (globals before functions, what a replacement gives
instead of a node, the determiner's annotations left behind) and the four
transforms on it: bounded accesses, the first-index offset, the point size, and
vertex pulling.  An attribute of vertex pulling has a format, which is the type of
what is read and need not be the type of its variable; a format without an access
gives no expression, as in `AccessByFormat`.

### SpirvBuilder, TextGenerator, HlslGenerator, MslGenerator, WgslGenerator, WgslReader

*SpirvBuilder* is the SPIR-V writer: result ids, the caches of types and constants
(`type_name_to_id_`, `const_to_id_`), the scope stack, the stacks of merge and
continue blocks, and one operator for each `Generate...` method, with its errors.
Its result is a list of instructions.

*HlslGenerator* and *MslGenerator* are the two C-like writers.  A text is modelled
by the program it stands for: the writer's choices that matter (statements that
are hoisted before the one they belong to, loops with a continuing part, the
module's variables as parameters or members of structs, the byte offsets of
buffer accesses, the arguments of texture methods, the paddings of Metal structs)
are in the nodes of that program; what they share is in *TextGenerator*.

*WgslGenerator* makes tokens, of a whole module or of what one entry point refers
to, and *WgslReader* makes the nodes of tokens again, by the grammar functions of
`parser_impl.cc` and the precedence they give to operators.

### Meaning, SpirvMachine, Pipeline

What it means that an output is right is said by running it.  *Meaning* runs a
module: a variable of the module is memory that others write, too, so every read
of it yields the next of the *bits* the run is given, and reads, writes and
texture calls are observed in order.  Two programs that do the same accesses with
the same values under all bits do the same.  The same definitions run the texts
of the C-like writers, which have some statements of their own.  *SpirvMachine*
says which lists of instructions are well-formed SPIR-V (blocks, terminators,
merges, dominance of uses, types of operands, interfaces of entry points) and runs
them.  Both are about languages and not about this code (`external` in the map).

*Pipeline* is the driver: a job's module is determined (`Resolve`), validated,
goes through the transforms of its plan, and is written in one of the languages.
What a transform has made is determined again if it has all its parts (`Program`
asks its builder); if not, or if that fails, it is *broken*.  A writer writes,
refuses, or crashes.  The properties compare runs: of the program
with runs of each output, of the program before a transform with the one after it,
of the module with the one that is read back from its text.  *MCPipeline* has the
jobs: every kind of expression and statement by itself, every statement inside
every other, functions that share variables, textures, programs the validator
rejects, programs it should reject, transforms alone and after one another, and
structs with offsets.  A job for which a property is known to fail says so
(`deviates`, `refused`, `wrong`), and the properties are equivalences: what is
listed does fail, and nothing else.

## The runs

| run | instance | states | shows |
|---|---|---|---|
| `lifecycle` | 2 builders, 2 programs, 2 units | 524 thousand | `Ownership`, `RefusedStaysRefused`, the protocol of `UnitOwnership` |
| `lifecycle_lost_error` | the same | stops at the violation | a program with untyped expressions says it is valid |
| `lifecycle_silent_invalid` | the same | stops | an invalid program without an error |
| `lifecycle_stale_factory` | the same | stops | a builder whose type factory is the moved-from builder's |
| `call_graph` | 3 functions, 2 variables, 2 calls per body | 777 thousand | `ReferencesExact`, `AncestorsExact`, `WalkIsBounded`, `DeterminationEnds` |
| `call_graph_recursion` | the same, with self-calls | stops | the walk exceeds any bound |
| `spirv_control_flow` | graphs of up to 5 blocks, of 6 blocks with if-selections only | 1.6 million | `NestingIsExact`, `ContinueLeftAtItsEnd`, `NormalEdgesEnterAtHead`, `GuardsAreOfIfs`, `EmissionSucceeds`, `GuardsAreDeclared`, `FollowsCfg` |
| `spirv_twin_if` | if-selections, 4 blocks | stops | a block that is not executed |
| `spirv_far_fallthrough` | switches with two cases, 5 blocks | stops | a block of the wrong case |
| `wgsl_parser` | texts of the parts of the grammar, 2 errors, look-ahead 4 | 631 thousand | `ErrorsAreReported`, `SuccessMeansWholeText`, `DecorationsAreUsed`, `RecoveryStaysInBlock`, `ParseEnds` |
| `wgsl_parser_for` | `for` statements | stops | a text that is accepted and makes an invalid module |
| `pipeline` | some 240 programs, through the determiner, the validator, the transforms and each writer | 1807 | `AcceptedGoesRight`, `AcceptedIsWritten`, the output that runs as the program does, and what each transform promises |

Every property of a passing run has a mutant in `PROJECT.json`: a definition of
the model changed as a plausible bug would change the code, with which the same
run finds the property violated.

**Bounds.**  *Lifecycle*: two of each kind is the least that has a move and an
assignment between two objects of a kind, and two units are enough for a clone
next to its original; `SYMMETRY` is over the objects of a kind.  What two
objects can do to a third is left to the proofs, which have any number.
*CallGraph*: three functions make chains of two calls and two ways to one callee (two
calls per body, also repeated ones); two variables tell inheritance from
invention; `MaxDepth` is one more than the number of functions, so that a walk
that is too deep is seen and does not go on for ever.  *SpirvCfg*: `MaxBlocks`
bounds the blocks, `MaxCases` the cases of a switch beside its default (two up
to four blocks, one with five), `Headers` the kinds of merge instructions.  Five
blocks hold a loop with a body, a continue construct and a break, a switch with
a fallthrough and a break, a selection with both clauses and a premerge, a flow
guard, and every kind of edge; six blocks with if-selections hold a selection
inside a clause of another.  A selection with a merge block of its own inside
the body of a loop with a separate continue construct needs six blocks with
loops, which is beyond the run's time and is left out.
*WgslParser*: `MCWgslParser` lists, for each part of the grammar, the tokens a text
starts with, the kinds its other tokens may be, and how many there are; two
errors (`MaxErrors`, ten or more in the program) are the least at which a second
error follows a recovery; a look-ahead of four tokens (32 in the program) makes
the recovery give up within these texts; `MaxConstExprDepth` 1 (128) nests a
constant expression once too deep.
*Pipeline*: the state space is small, one path per job and writer, and the work is
in the properties, each of which runs programs.  `Width` 6 is the least that
tells a shift amount from the sign and holds every constant of the jobs;
`Iterations` 2 lets a value go from one turn of a loop to the next (an output is
given more turns, as a continuing part moves to the start of the next one);
`Bits` are four sequences of up to seven values that between them take both sides
of each condition and have equal, different, negative and out-of-range values.  A
run ends when it has read them all, and is compared as far as it goes.
`CHECK_DEADLOCK FALSE` is used everywhere because a compilation ends (and, in
SpirvCfg, because graphs that are dropped go nowhere).

**Fairness.**  `CallGraph` (`DeterminationEnds`) and `WgslParser` (`ParseEnds`)
have a liveness property, each with weak fairness of the whole next-state
relation: `Determine()` and `Parse()` are one sequential call each, which goes
on as long as it has a step to take.  Nothing else is assumed; which step it
takes next is decided by the module it is given, not by a scheduler.

## Findings

Where a run shows the code to do something else than the repository says of it
(`findings` in `PROJECT.json` quote the lines):

* **A failed type determination is lost** (`src/program.cc:44`).  The error is
  added to a list that line 57 overwrites, and `is_valid_` was fixed before.
* **An invalid program without an error** (`src/program.cc:70`).  Move
  assignment does not move the diagnostics.
* **A stale type factory** (`src/program_builder.cc:30`).  `ty` is moved with
  the pointer to the builder it came from.
* **Recursion** (`src/type_determiner.cc:153`).  `set_entry_points()` does not
  remember what it has visited; the validator's test for recursion expects such
  a program to get that far.
* **Both labels the same block** (`function.cc:2308`).  In an if-selection whose
  two labels are one block inside the selection, that block is emitted in the
  else-clause only.
* **A fallthrough past another case** (`function.cc:2685`).  A case that branches
  to the default, with another case between them in the block order, gets a
  `fallthrough` to that other case.
* **A `for` without a continuing part** (`src/reader/wgsl/parser_impl.cc:1950`).
  The loop it makes has a null continuing block, which its `IsValid()` refuses;
  the assertion at the end of `translation_unit()` fails.

`FollowsCfg` excepts four shapes of graphs, each named by a definition of
`WgslRun`, so that everything else is checked.  Two are the last two findings
(`TwinIf`, `FarFallthrough`).  The others:

* `SplitLoopHead`: a loop header that branches to two blocks of its own loop is a
  loop header and a selection header at once.  A comment in the code
  (`function.cc:1516`) and a test that asks "what to make of this?"
  (`function_cfg_test.cc`) show that the developers know of it.
* `StrayBlock`: a merge block that nothing reaches has a branch to the merge
  block of a construct it is no part of.  The traversal then puts the block into
  that construct.  `EmissionSucceeds` has this exception, too.

### What the pipeline's outputs do otherwise

The jobs of `MCPipeline` that are listed as coming out wrong, by job.  They are
not findings in the sense above, because nothing in the repository says the
opposite; they are what a reader of `SpirvRunsAlike` and its kin should know.

*What the validator lets pass* (`inner`, `hidden`, `outside`, `short`): an
assignment of another type, a redeclaration or a use of a name in an inner block,
which it does not visit; a name that is used after the block that declares it; a
call with too few arguments.

*SPIR-V*:

* An `else if` whose body ends in a terminator leaves the merge block of the
  nested selection without one (`elsewhere`).
* After a nested block that ends in a terminator the enclosing block gets another
  one, and what follows a terminator is put into the same block (`enclosed`,
  `unreached`).
* A variable without a value in a loop keeps the one of the last iteration
  (`afresh`); a continuing part that uses a variable of the body is an error
  (`carried`).
* Constant composites are shared by the ids of their operands: with other types,
  or where the first does not dominate the second (`retyped`, `cached`).  Two
  specialization constants with one type and default are one (no job).
* A vector constructor that mixes scalar types casts its first value again
  (`mixed`); `==`, `!=`, `&` and `|` of booleans are integer operations
  (`truths`); unsigned case selectors are refused (`unsigned`); `select` has its
  operands in WGSL's order, which is the opposite of `OpSelect`'s (`chosen`).
* Coordinates that are a `var` give a vector of pointers (`packed`).

*The transforms*.  `TransformedIsValid` asks of a program a transform has made that
it has all its parts, that the determiner and the validator accept it, that no run
of it goes wrong, and that at every depth the right side of an assignment, and the
value of a declaration, has the type of its place.  Nobody in the code asks all
that: the validator does not visit the nested block the preamble of vertex pulling
is in, and `Manager::Run` and the driver do not ask whether the program is valid.
It fails for

* an attribute whose format has no access (`pull_integers`, `pull_both`): its
  assignment has no right side, and the program is not even determined;
* an attribute whose format is not the type of its variable (`pull_mismatched`;
  the comment at `vertex_pulling.cc:382` knows of it);
* a vertex index that is an `u32`, and steps the `i32` position of vertex pulling
  (`pull_unsigned`);
* first-index offset after vertex pulling (`pull_offset`): the first declares the
  index as an `u32` whose value, of the `i32` index the second has added, is an
  `i32`.

Of these the SPIR-V of `pull_mismatched`, `pull_unsigned` and `pull_offset` is not
well-formed, either.  The other attributes, one without a variable
among them (`pull_skipped`), are read as they should.

*HLSL*:

* What stood before a `&&`, a `||` or a texture query in its statement is
  evaluated after it (`unordered`).
* A function is given the structs of the entry point, and its calls pass only
  those the callee refers to (`called`, `twice`, `call`); a struct of outputs is an
  `out` parameter, so what was written before the call is lost.
* A `const` in the body of a loop with a continuing part is assigned (`hoisted`);
  a variable without a value is not initialized (`zeroed`, `elements`, `afresh`),
  nor is an output that is not written (`unset`, `branch`).
* `textureDimensions` takes the position of the level argument as the level
  (`size_of`), `textureLoad` loads from level 0 and passes the level as a further
  argument (`load`).
* Products of matrices and vectors have their operands in an order that makes
  them transposed ones, and columns of a stored matrix are as far apart as it has
  columns and not rows (`matrices`).
* A storage buffer is declared as a `ByteAddressBuffer`, whatever its struct, and
  its bare name is written as it stands: `var s : Buf = b` becomes an
  initialization that is ill-typed (`copied`).
* The member of an accessor is emitted as any identifier is: `v.y` with an input
  named `y` has the struct of the inputs before the `y` (`prefixed`), or an error
  where the entry point has no such struct (`unprefixed`).
* Refused: `select`, `isNormal`, `arrayLength`, the point size, storage without
  access control, a function no entry point reaches that has inputs or outputs
  (`unreached`).

*MSL*: `called`, `twice`, `call`, `hoisted`, `size_of`, `prefixed` and `unprefixed`
as in HLSL; `select` as in SPIR-V; a padding that wraps because Metal's size of the member before is
larger than its room (`triple`, `triples`, `odd`), and elements that are not as far
apart as the stride says (`spaced`).  Refused: the point size, `arrayLength`, a
struct with a runtime array, the zero value of an alias, gradients of
one-dimensional textures (`grad_1d`).  A struct with a member that is a struct
without members (`hollow`) divides by zero (`adjust_for_alignment`,
`msl/generator_impl.cc:92`), which is undefined: the writer crashes, or goes on with
some size and, at the member, refuses it as unknown.

*WGSL*: `-(v).x` is written without outer parentheses and is read as `-(v.x)`
(`negated`).

## The proofs

The theorems hold for any values of the constants that satisfy the named
assumptions: builders and programs are disjoint sets (`SlotsDisjoint`), `NoUnit` is
no unit (`NoUnitOutside`), `None` is no function (`NoneOutside`), a module has
finitely many functions (`FuncsFinite`), the bounds are numbers (`BoundsOK`,
`SelfCallsOK`, `BoundsAssumption`), the headers are some of the three kinds there
are (`HeadersOK`), and a text consists of kinds of tokens that can
be written (`TextsAssumption`: not the end, which the lexer adds, and some kind as
long as there are tokens left).

**ProgramLifecycle.**  `TypeCorrect`, `OwnershipHolds`, `RefusalIsFinal` and
`FollowsProtocol` follow from one inductive invariant.  `Ownership` is about
live objects, and is not inductive: a moved object keeps a dangling `ast_`, an
assignment may refill a program that was moved from, and a unit's verdict changes
while a builder owns it.  `Inv` therefore says of every slot, live or not, that
its three arenas agree (`ArenasTogether`), that the `ast_` of a live object is
its own and an absent object owns nothing (`PointerInside`), that no unit has two
holders (`OneHolder`), and that what a program owns and calls valid was never
refused (`ValidUnitSound`).  There is one lemma per action, with one step per
conjunct.  `FollowsProtocol` is the refinement: initial states map to initial
states (`InitRefines`), and each action to an acquisition, a transfer, a release
or a stutter (`StepRefines`).

**CallGraph.**  `TypeCorrect`, `ReferencesAreExact` and `AncestorsAreExact`.  Two
facts do the work.  While functions are determined, `refs` is a fixpoint of
inheritance over the calls recorded so far (`Inherited`), and never more than
what can be reached (`NothingInvented`): this is why it is enough that a callee
is finished before its caller, and why a self-call does no harm to it.  During
the walk, every callee of a visited function is marked or still ahead of a frame
(`Covered`); when no frame is left, the marked functions are closed under calls,
and so hold all that the entry point reaches.  `CalledFrom` quantifies over closed
sets, so that these steps need no induction over paths.

`WalkBounded`: without self-calls, `set_entry_points()` is never nested deeper than
there are functions.  `ChainInv` says that each frame is of a function the frame
below calls, and that a function calls only functions declared before it
(`AcyclicCall`); so the functions of the frames are distinct, and there are no more
of them than functions (the pigeonhole principle, which the library has for
injections between finite sets, hence `FuncsFinite`).  The theorem has the
condition in its statement, because with self-calls the walk has no bound; that is
a finding.

**WgslParser.**  `RecoveryHolds`: when `sync_to()` drops tokens, it drops no
closing bracket that an enclosing `sync()` or block waits for, unless it drops the
opening one too; for any text, any look-ahead and any limit of errors.  The
property is about the tokens that are dropped, and the code only has the counters
of `BlockCounters`.  `ScanInv` relates them: a scan never starts in
`translation_unit()` and has looked at every token up to its position (`ScanOK`),
each counter is the number of opening minus the number of closing brackets among
the tokens passed (`Balanced`), and the counter of a bracket somebody waits for is
never negative (`NotBelow`).  The last holds because such a closing bracket is a
synchronization point unless it is nested (`WaitedForIsNested`): a scan goes past
it only while its counter is positive.  A counter nobody waits for may well become
negative.  Steps without a scan matter only in that they leave none behind and
keep the queue a sequence of sets of kinds (`TokensOK`).

**WgslGrammar.**  `GrammarOK` is what the other proofs need to know of the hundred
and more grammar functions: each calls functions of the grammar only, has a result
for each result of a call that the parser knows what to do with, goes to items it
has, and calls a statement only from a statement, a block, or the last item of
`expect_global_decl()`, which salvages a statement where a declaration has to be.
The proof goes through the functions in groups, because a function is found by its
name and each name costs the solver a comparison with all others.

**WgslParserStack.**  `ErrorsReported`: a declaration that has failed has left an
error.  What must be shown is that no path through the grammar fails silently, and
there is one that does: the errors of a statement outside of a function are
silenced, and `expect_global_decl()` makes up for it with an error of its own.
`StackInv` has two halves.  `StackOK` says that the frames are a chain of calls of
the grammar, from `translation_unit()` by `expect_global_decl()` to the top, and
that a result is only there for a function that waits for one.  `FaultsOK` says that
whatever is left behind by an error (a result "errored", a scan, lost
synchronization, an error a function has noted) has been counted, or is above the
item of `expect_global_decl()` that will count it.  `variable_ident_decl()` notes a
second access decoration three items before it reports it, and is the exception the
invariant names (`Exempt`).  Each kind of step has a lemma; where the model has a
recursive function over a list (`Others`), the lemma takes the least element at
which it could fail (`Least`), as the induction theorems can not be instantiated.

**WgslParserResults.**  `SuccessIsWholeText`: a text that is accepted has been read to
its end.  The loop of `translation_unit()` ends at the end of the text or out of
synchronization, and the latter, by `FaultsOK`, only after an error.  That the queue
then holds the end and nothing else needs `EndsOK`: no token is looked at behind the
end, unless an error was counted or is silenced, or a statement looks at two tokens.
The latter happens in an open block only (`InnerIsInBlock`, from `GrammarOK`), and a
block is left by its closing bracket only (`BlockStays`), which is not the end; so
where `translation_unit()` is reached again, there is nothing behind the end.

**WgslParserHeld.**  `DecorationsUsed` and `TypesOK`.  The decorations of a declaration
are held by one function (the `Owner`) and used by others it calls, some frames up.
`UsedOK` says that the owner holds none once the function that uses them is behind the
item at which it does (its `Turn`), unless the header of a function had errors; the
property at the end of the function follows.  Two things make it inductive.  The
functions concerned are sequences of items (`PlainItems`), so that a step with one of
them at the top calls, returns, goes on by one item, or skips the rest of a header
(`PlainStep`), and what the frames below hold is kept or dropped (`HeldStays`).  And
the owner is where it is expected: `Owner` takes the last frame that could be one,
which is the right one because each function of a declaration is called by one
function only (`GlobalsAt`, `OwnerIs`).  `global_variable()` hands the casting on to
`global_variable_decl()`, so the invariant also has a word for the moment at which the
latter has just returned (`MatchedCallee`).

`TypesOK` needs two invariants more.  `NamesOK`: what `register_constructed()` takes is
a name and never a decoration, though both are held in the same place of a frame;
`struct` takes the name over from `struct_decl()`.  `DepthOK`: the limit on nested
constant expressions is passed by one frame only, which is at its first item and
can only report (`TooDeepReturns`).

**SpirvCfg.**  `TypeCorrect`, `NestingIsRight`, `ContinueLeftLast`, `NormalEdgesEnter`
and `GuardsAreIfs`: whatever graph the passes are given, the constructs they find
are nested as the constructor of `Construct` assumes, and an edge they let pass
respects them, also if the graph is rejected later.  None of these rests on
`ValidSpirv`, which is asked for at the end only.

`Inv` has a part for the declarations and the constructs made from them
(`Declared`, `Originates`), and one each for the pass that labels (`LabelInv`) and
for those after it (`LaterInv`).  The difficulty is that merge and continue blocks
of different headers may be out of step: `RegisterMerges` compares a header with
its own blocks only.  Nothing notices before `LabelControlFlowConstructs` finds its
stack not empty at the end, and until then the nearest constructs may be wrong.
`Doomed` says when a stack can no longer be emptied: the end of a construct in it
has passed, or one over it ends later.  A doomed stack stays doomed
(`EndLabel` then rejects), and otherwise the stack is `Stacked`, that is, its
constructs are inside one another, but for a loop, which is over its continue
construct and ends where that begins, and the constructs so far are `Nested`:
* `Fields`: the recorded loop, continue construct and breakable construct are the
  nearest ones; this is `NestingIsExact`, said of constructs;
* `Located`: the construct of a block is inside each that holds the block;
* `Distinct`: no two constructs are the same blocks;
* `LoopsInside` and `MergesInside`: what is around a continue construct holds the
  loop's header, and what holds a header reaches to its merge block.

Each part has a lemma for the step `LabelBlock`.  When an edge is classified, they
tell why it is enough that the code looks at the nearest constructs.  A normal edge
does not pass the end of its construct, so its destination is inside (`Located`), and
the nearest construct of the destination cannot hold its start unless the two are one
(`Distinct`); so the edge enters at a head (`EntersAtHead`).  For an edge that leaves
some continue construct around its block (`LeavesAtEnd`), the code has tested the
nearest one, and it leaves no other: a back-edge goes to the header of the nearest
loop, which every outer continue construct holds (`LoopsInside`); a break goes to a
merge block at the end of the nearest one at the latest (`MergesInside`), and an
outer one ends later (`EndsApart`).  What remains is a `continue` of an outer loop,
which the property names.  Two comments of the code say a little more than it does
(`function.cc:1628`, that an exit from a continue construct can only be from its last
block, and `function.cc:1545`, that one construct is the parent of the other); the
properties say in their comments what the code lets pass.

**Only model-checked.** `DeterminationEnds` and `ParseEnds` (liveness under
fairness is out of the proof system's reach).  Of the SPIR-V reader `FollowsCfg`,
`EmissionSucceeds` and `GuardsAreDeclared`: the lists of the emitter are trees, the
walk through them and the block order are recursive operators, which the provers
can not handle, and what `FollowsCfg` says of all graphs is a compiler correctness
proof of another size.  The same is true of the pipeline: programs are trees, every
operator over them is recursive, and the properties run them.

## Limits

* SpirvCfg: no `OpSwitch` literals beyond "which label" (two literals with the
  same label are two entries of `targets`), no `OpKill` or `OpUnreachable` beside
  `OpReturn`, which the control flow passes treat alike.  Phis, hoisted
  variables and values that are used once are part of the statements of a block
  and left out, so the model says nothing of a value moved to another block.
* A block is executed under every outcome of its terminator; the model does not
  know that two conditions are related.  This only adds executions.
* `ValidSpirv` is modelled from the SPIR-V specification's rules, as SPIR-V Tools
  is not part of the repository; a graph the validator lets pass although it
  breaks these rules is not considered.
* ProgramLifecycle: creation of nodes is one action for each verdict they can
  have; references from one program's nodes into another program's arenas, which
  a wrong `Clone()` would make, are a matter of `CloneContext` and not modelled.
* CallGraph: module variables with a storage class; no scopes, no types.
* Pipeline: a module is checked as it is in one of the jobs; no property is about
  all modules.  Floats are integers, so rounding and division are not compared;
  specialization constants and recursive functions are in no job.  What becomes
  of a program that could not be determined, or of one a transform has broken, is
  left out: the first is `lifecycle_lost_error`; the second, which vertex pulling
  can make (`pull_integers`, `pull_both`), is cloned by the next transform, or given
  to a writer, all the same.
  `Manager::Run` without transforms, which clones, is left out.
* The texts of the HLSL and MSL writers are compared as if the private variables
  and textures of the module were declared, which `Generate()` does not do for a
  whole module.
* `discard` ends the run of a shader in every language.
* A clone is made by value: that two references to one node stay one node is not
  in the model.

## Not modelled

* **SPIR-V reader: modules, types, expressions and names.**  The translation of
  single instructions is a case table; the hoisting of values and the phis need a
  meaning of SPIR-V input, with the control flow of `SpirvCfg` under it.  Next in
  the plan.
* **Symbols and names, the map of `CloneContext`.**  The registration of names is
  seen only in what `OffsetsAreAdded` says of the names a transform takes over.
* **Inspector.**  Queries without state on annotations that are modelled.
* **Castable, formatting, Fuzzers, build files.**  Run-time type information, text
  layout and test drivers: no state and no order to get wrong.

## The plan

Done, in this order: the life of builders and programs (everything else happens
inside it), the determiner's call graph (all writers read it), the SPIR-V
reader's control flow (the most intricate algorithm of the compiler), the WGSL
parser with its recovery, and the pipeline: determiner, validator, transforms and
the four writers, composed as the driver composes them.  Next:

1. The values of the SPIR-V reader: singly used values, hoisted variables and
   phis, on the graphs of `SpirvCfg`, with `SpirvMachine` as the meaning of the
   input; with `SpirvBuilder` this gives a round trip.
2. `CloneContext` as a state machine: the map from originals to clones, the order
   in which a replacement is recorded, the symbol table.  Theorems: an original
   has one clone; different symbols stay different.
3. More of `SpirvCfg` in proofs: that the heads of if-selections are inside them
   (`FindIfHeaders`), and that `EmissionSucceeds`, for which `EntireLoop` and
   `Outwards` would have to be written as recursive functions.
4. Larger instances of `SpirvCfg` with loops of six blocks.
