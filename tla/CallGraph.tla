------------------------------ MODULE CallGraph ------------------------------
(***************************************************************************)
(* What the TypeDeterminer learns about functions: which module variables  *)
(* each one references (src/type_determiner.cc, src/ast/function.cc) and   *)
(* from which entry points it is called.  The writers rely on both: the    *)
(* SPIR-V entry point interface, the duplicated HLSL and MSL functions and *)
(* the Inspector are built from them.                                      *)
(*                                                                         *)
(* Functions are determined in the order of the module.  The body of the   *)
(* function at hand is chosen as the run goes: any sequence of references  *)
(* to module variables and of calls, so a behaviour is one module and its  *)
(* determination.  Then the walk of set_entry_points() goes over the       *)
(* recorded calls, with the frames of the recursion in `stack`.            *)
(*                                                                         *)
(* Abstractions.  Function symbols are unique (v-0016).  Vars are the      *)
(* module variables with a storage class, the only ones recorded; the      *)
(* deduplicated vectors of ast::Function are sets.                         *)
(***************************************************************************)
EXTENDS Naturals, Sequences, FiniteSets

CONSTANTS Funcs,       \* function symbols
          Vars,        \* module variables with a storage class
          None,        \* no function is being determined
          MaxCalls,    \* bound: calls in one function body
          MaxDepth,    \* bound: frames of the recursion that are followed
          SelfCalls    \* whether a body may call its own function

ASSUME NoneOutside == None \notin Funcs
ASSUME FuncsFinite == IsFiniteSet(Funcs)
ASSUME BoundsOK == MaxCalls \in Nat /\ MaxDepth \in Nat
ASSUME SelfCallsOK == SelfCalls \in BOOLEAN

VARIABLES
  phase,      \* "functions", "walk", "done", or "failed"
  known,      \* keys of symbol_to_function_
  current,    \* current_function_
  entry,      \* functions with a stage decoration
  local,      \* function -> local_referenced_module_vars_
  refs,       \* function -> referenced_module_vars_
  calls,      \* function -> caller_to_callee_, in order and with duplicates
  ancestors,  \* function -> ancestor_entry_points_
  pending,    \* entry points the loop at the end of Determine() has not met
  ep,         \* the entry point being walked, or None
  stack       \* frames of the walk: function and index of its next callee

annotations == <<known, entry, local, refs, calls>>
walk == <<ancestors, pending, ep, stack>>
vars == <<phase, current, annotations, walk>>

Callees(f) == {calls[f][i] : i \in DOMAIN calls[f]}

-----------------------------------------------------------------------------
Init ==
  /\ phase = "functions"
  /\ known = {}
  /\ current = None
  /\ entry = {}
  /\ local = [f \in Funcs |-> {}]
  /\ refs = [f \in Funcs |-> {}]
  /\ calls = [f \in Funcs |-> <<>>]
  /\ ancestors = [f \in Funcs |-> {}]
  /\ pending = {}
  /\ ep = None
  /\ stack = <<>>

\* DetermineFunction(func), up to the body.
BeginFunction(f, isEntry) ==
  /\ phase = "functions" /\ current = None /\ f \notin known
  /\ known' = known \cup {f}
  /\ current' = f
  /\ entry' = IF isEntry THEN entry \cup {f} ELSE entry
  /\ UNCHANGED <<phase, local, refs, calls, walk>>

\* DetermineIdentifier() of a module variable in the body of `current`.
Reference(v) ==
  /\ phase = "functions" /\ current # None
  /\ local' = [local EXCEPT ![current] = @ \cup {v}]
  /\ refs' = [refs EXCEPT ![current] = @ \cup {v}]
  /\ UNCHANGED <<phase, current, known, entry, calls, walk>>

\* Mutant of Call: the callee's variables are not inherited.
Call_NoInherit(g) ==
  /\ phase = "functions" /\ current # None
  /\ g \in known /\ (g = current => SelfCalls)
  /\ Len(calls[current]) < MaxCalls
  /\ calls' = [calls EXCEPT ![current] = Append(@, g)]
  /\ UNCHANGED <<phase, current, known, entry, local, refs, walk>>

\* Mutant of Call: the callee need not be declared yet.
Call_AnyFunction(g) ==
  /\ phase = "functions" /\ current # None
  /\ g = current => SelfCalls
  /\ Len(calls[current]) < MaxCalls
  /\ calls' = [calls EXCEPT ![current] = Append(@, g)]
  /\ refs' = [refs EXCEPT ![current] = @ \cup refs[g]]
  /\ UNCHANGED <<phase, current, known, entry, local, walk>>

\* DetermineCall() of a function that was declared: the call is recorded and
\* the variables the callee references by now are inherited.
Call(g) ==
  /\ phase = "functions" /\ current # None
  /\ g \in known /\ (g = current => SelfCalls)
  /\ Len(calls[current]) < MaxCalls
  /\ calls' = [calls EXCEPT ![current] = Append(@, g)]
  /\ refs' = [refs EXCEPT ![current] = @ \cup refs[g]]
  /\ UNCHANGED <<phase, current, known, entry, local, walk>>

\* DetermineCall() of an identifier nothing declares: v-0006, and Determine()
\* returns false.
CallUnknown(g) ==
  /\ phase = "functions" /\ current # None /\ g \notin known
  /\ phase' = "failed"
  /\ UNCHANGED <<current, annotations, walk>>

EndFunction ==
  /\ phase = "functions" /\ current # None
  /\ current' = None
  /\ UNCHANGED <<phase, annotations, walk>>

\* DetermineFunctions() is over; the loop over the entry points begins.
BeginWalk ==
  /\ phase = "functions" /\ current = None
  /\ phase' = "walk"
  /\ pending' = entry
  /\ UNCHANGED <<current, annotations, ancestors, ep, stack>>

-----------------------------------------------------------------------------
Frame == [fn : Funcs, next : Nat \ {0}]
Top == stack[Len(stack)]

\* The loop of the innermost frame goes on to its next callee.
Advance(st) ==
  [st EXCEPT ![Len(st)] = [fn |-> st[Len(st)].fn, next |-> st[Len(st)].next + 1]]

\* The recursive call for callee g, and the return from it.
Push(st, g) == Append(Advance(st), [fn |-> g, next |-> 1])
Pop(st) == SubSeq(st, 1, Len(st) - 1)

\* The next entry point of the loop in Determine().
StartEntryPoint(e) ==
  /\ phase = "walk" /\ ep = None /\ e \in pending
  /\ pending' = pending \ {e}
  /\ ep' = e
  /\ stack' = <<[fn |-> e, next |-> 1]>>
  /\ UNCHANGED <<phase, current, annotations, ancestors>>

\* Mutant of Visit: only the callees of the entry point itself are marked.
Visit_OneLevel ==
  /\ phase = "walk" /\ stack # <<>> /\ Len(stack) < MaxDepth
  /\ Top.next <= Len(calls[Top.fn])
  /\ LET callee == calls[Top.fn][Top.next]
     IN  /\ ancestors' = [ancestors EXCEPT ![callee] = @ \cup {ep}]
         /\ stack' = Advance(stack)
  /\ UNCHANGED <<phase, current, annotations, pending, ep>>

\* set_entry_points(callee, ep): mark the callee, then go over its callees.
Visit ==
  /\ phase = "walk" /\ stack # <<>> /\ Len(stack) < MaxDepth
  /\ Top.next <= Len(calls[Top.fn])
  /\ LET callee == calls[Top.fn][Top.next]
     IN  /\ ancestors' = [ancestors EXCEPT ![callee] = @ \cup {ep}]
         /\ stack' = Push(stack, callee)
  /\ UNCHANGED <<phase, current, annotations, pending, ep>>

\* Mutant of Return: the next entry point does not start afresh.
Return_KeepsEntryPoint ==
  /\ phase = "walk" /\ stack # <<>> /\ Top.next > Len(calls[Top.fn])
  /\ stack' = Pop(stack)
  /\ UNCHANGED <<phase, current, annotations, ancestors, pending, ep>>

\* The loop over one function's callees is over.
Return ==
  /\ phase = "walk" /\ stack # <<>> /\ Top.next > Len(calls[Top.fn])
  /\ stack' = Pop(stack)
  /\ ep' = IF Len(stack) = 1 THEN None ELSE ep
  /\ UNCHANGED <<phase, current, annotations, ancestors, pending>>

Finish ==
  /\ phase = "walk" /\ ep = None /\ pending = {}
  /\ phase' = "done"
  /\ UNCHANGED <<current, annotations, walk>>

-----------------------------------------------------------------------------
Next ==
  \/ \E f \in Funcs, e \in BOOLEAN : BeginFunction(f, e)
  \/ \E v \in Vars : Reference(v)
  \/ \E g \in Funcs : Call(g) \/ CallUnknown(g)
  \/ EndFunction
  \/ BeginWalk
  \/ \E e \in Funcs : StartEntryPoint(e)
  \/ Visit
  \/ Return
  \/ Finish

\* Determine() is one sequential call: while it has a step to take, it goes on.
Spec == Init /\ [][Next]_vars /\ WF_vars(Next)

-----------------------------------------------------------------------------
(* Properties *)

\* The types of the state; an entry point is being walked exactly while the
\* recursion has frames.
TypeOK ==
  /\ phase \in {"functions", "walk", "done", "failed"}
  /\ known \subseteq Funcs
  /\ current \in Funcs \cup {None}
  /\ entry \subseteq Funcs
  /\ local \in [Funcs -> SUBSET Vars]
  /\ refs \in [Funcs -> SUBSET Vars]
  /\ calls \in [Funcs -> Seq(Funcs)]
  /\ ancestors \in [Funcs -> SUBSET Funcs]
  /\ pending \subseteq Funcs
  /\ ep \in Funcs \cup {None}
  /\ stack \in Seq(Frame)
  /\ ep = None <=> stack = <<>>

\* A set of functions that is closed under calls.
ClosedUnderCalls(S) == \A f \in S : Callees(f) \subseteq S

\* The functions some chain of one or more calls leads to from f: what is in
\* every closed set with f's callees.
CalledFrom(f) ==
  {g \in Funcs : \A S \in SUBSET Funcs :
                   ClosedUnderCalls(S) /\ Callees(f) \subseteq S => g \in S}

\* Once a function is determined, its referenced_module_variables are those it
\* names itself and those named by any function it can end up calling: no chain
\* of calls hides a variable from the entry point's interface
\* (type_determiner.cc:418), and none is invented.
ReferencesExact ==
  \A f \in known \ {current} :
    refs[f] = local[f] \cup UNION {local[g] : g \in CalledFrom(f)}

\* When the determination is done, a function's ancestor entry points are
\* exactly the entry points with a chain of calls to it (type_determiner.cc:136).
AncestorsExact ==
  phase = "done" =>
    \A f \in Funcs : ancestors[f] = {e \in entry : f \in CalledFrom(e)}

\* The walk recurses along chains of calls of distinct functions, so it never
\* holds more frames than there are functions.
WalkIsBounded == Len(stack) <= Cardinality(Funcs)

\* The determination ends, whatever the module.
DeterminationEnds == <>(phase \in {"done", "failed"})
=============================================================================
