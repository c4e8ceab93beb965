--------------------------- MODULE CallGraph_proofs ---------------------------
(***************************************************************************)
(* Proofs about CallGraph: for any module, what the TypeDeterminer records *)
(* of variables and entry points is what the calls of the module say.      *)
(*                                                                         *)
(* Two invariants do the work.  While functions are determined, refs is a  *)
(* fixpoint over the calls recorded so far (Inherited) that never exceeds  *)
(* what can be reached (NothingInvented).  During the walk, a callee of a  *)
(* visited function is marked or is still ahead of a frame (Covered).      *)
(***************************************************************************)
EXTENDS CallGraph, SequenceTheorems, FiniteSetTheorems, TLAPS

USE NoneOutside, BoundsOK, SelfCallsOK

\* What is known of functions at any time of their determination.
FunctionsOK ==
  /\ current # None => current \in known
  /\ \A f \in Funcs : Callees(f) \subseteq known
  /\ \A f \in Funcs \ known : calls[f] = <<>> /\ refs[f] = {} /\ local[f] = {}
  /\ entry \subseteq known
  /\ \A f \in Funcs : current \in Callees(f) => f = current

\* refs is a fixpoint of inheritance over the recorded calls.
Inherited ==
  \A f \in Funcs :
    /\ local[f] \subseteq refs[f]
    /\ \A g \in Callees(f) : refs[g] \subseteq refs[f]

\* Every recorded variable is named by the function or by one it can call.
NothingInvented ==
  \A f \in Funcs : \A v \in refs[f] :
    v \in local[f] \/ \E g \in CalledFrom(f) : v \in local[g]

\* The phases of Determine(): the walk begins when no function is at hand, and
\* nothing is marked before.
PhaseOK ==
  /\ phase \in {"functions", "failed"} =>
       stack = <<>> /\ ep = None /\ \A f \in Funcs : ancestors[f] = {}
  /\ phase \in {"walk", "done"} => current = None /\ pending \subseteq entry
  /\ phase = "done" => pending = {} /\ ep = None

\* A mark is the name of an entry point that has been met and reaches f.
MarksSound ==
  \A f \in Funcs : \A e \in ancestors[f] :
    e \in entry \ pending /\ f \in CalledFrom(e)

\* The frames are of functions the entry point reaches, itself first.
FramesSound ==
  /\ ep # None => ep \in entry \ pending
  /\ \A k \in 1..Len(stack) : stack[k].fn = ep \/ ep \in ancestors[stack[k].fn]

\* The i-th callee of f is still ahead of some frame of f in e's walk.
Ahead(e, f, i) ==
  ep = e /\ \E k \in 1..Len(stack) : stack[k].fn = f /\ stack[k].next <= i

Covered ==
  phase \in {"walk", "done"} =>
    \A e \in entry \ pending : \A f \in Funcs :
      f = e \/ e \in ancestors[f] =>
        \A i \in 1..Len(calls[f]) : e \in ancestors[calls[f][i]] \/ Ahead(e, f, i)

\* No chain of calls leads from a function back to it: a function calls only
\* functions declared before it.
Acyclic == \A f \in Funcs : f \notin CalledFrom(f)

\* A frame is of a function that the frames below it can end up calling.
FramesChain ==
  \A k, j \in 1..Len(stack) : k < j => stack[j].fn \in CalledFrom(stack[k].fn)

FunctionsInv == FunctionsOK /\ Inherited /\ NothingInvented
WalkInv == PhaseOK /\ MarksSound /\ FramesSound /\ Covered
Inv == TypeOK /\ FunctionsInv /\ WalkInv
ChainInv == ~SelfCalls => Acyclic /\ FramesChain

-----------------------------------------------------------------------------
(* Reachability *)

\* A callee is called, and so is whatever it calls in turn.
LEMMA CalledFromStep ==
  ASSUME NEW f \in Funcs, NEW g \in Funcs, g \in Callees(f)
  PROVE  g \in CalledFrom(f) /\ CalledFrom(g) \subseteq CalledFrom(f)
<1>1. g \in CalledFrom(f) BY DEF CalledFrom
<1>2. ASSUME NEW h \in CalledFrom(g), NEW S \in SUBSET Funcs,
             ClosedUnderCalls(S), Callees(f) \subseteq S
      PROVE  h \in S
  <2>1. Callees(g) \subseteq S BY <1>2 DEF ClosedUnderCalls
  <2> QED BY <1>2, <2>1 DEF CalledFrom
<1> QED BY <1>1, <1>2 DEF CalledFrom

\* From what e calls one reaches the callees of what e calls.
LEMMA CalledFromTransitive ==
  ASSUME NEW e \in Funcs, NEW f \in CalledFrom(e), NEW g \in Funcs, g \in Callees(f)
  PROVE  g \in CalledFrom(e)
<1>1. ASSUME NEW S \in SUBSET Funcs, ClosedUnderCalls(S), Callees(e) \subseteq S
      PROVE  g \in S
  <2>1. f \in S BY <1>1 DEF CalledFrom
  <2> QED BY <1>1, <2>1 DEF ClosedUnderCalls
<1> QED BY <1>1 DEF CalledFrom

\* More calls reach no fewer functions.
LEMMA CalledFromMonotone ==
  ASSUME \A f \in Funcs : Callees(f) \subseteq Callees(f)', NEW f \in Funcs
  PROVE  CalledFrom(f) \subseteq CalledFrom(f)'
<1>1. ASSUME NEW g \in CalledFrom(f), NEW S \in SUBSET Funcs,
             ClosedUnderCalls(S)', Callees(f)' \subseteq S
      PROVE  g \in S
  <2>1. ClosedUnderCalls(S) BY <1>1 DEF ClosedUnderCalls
  <2> QED BY <1>1, <2>1 DEF CalledFrom
<1> QED BY <1>1 DEF CalledFrom

\* CalledFromStep, of the calls recorded after a step.
LEMMA CalledFromStepNext ==
  ASSUME NEW f \in Funcs, NEW g \in Funcs, g \in Callees(f)'
  PROVE  g \in CalledFrom(f)' /\ CalledFrom(g)' \subseteq CalledFrom(f)'
<1>1. g \in CalledFrom(f)' BY DEF CalledFrom
<1>2. ASSUME NEW h \in CalledFrom(g)', NEW S \in SUBSET Funcs,
             ClosedUnderCalls(S)', Callees(f)' \subseteq S
      PROVE  h \in S
  <2>1. Callees(g)' \subseteq S BY <1>2 DEF ClosedUnderCalls
  <2> QED BY <1>2, <2>1 DEF CalledFrom
<1> QED BY <1>1, <1>2 DEF CalledFrom

-----------------------------------------------------------------------------
(* Frames *)

\* What Visit does to the stack.
LEMMA PushFrame ==
  ASSUME NEW st \in Seq(Frame), st # <<>>, NEW g \in Funcs
  PROVE  /\ Push(st, g) \in Seq(Frame) /\ Push(st, g) # <<>>
         /\ Len(Push(st, g)) = Len(st) + 1
         /\ \A k \in 1..Len(st) : /\ Push(st, g)[k].fn = st[k].fn
                                  /\ Push(st, g)[k].next = IF k = Len(st) THEN st[k].next + 1
                                                                  ELSE st[k].next
         /\ Push(st, g)[Len(st) + 1] = [fn |-> g, next |-> 1]
<1> DEFINE n == Len(st)
           up == [fn |-> st[n].fn, next |-> st[n].next + 1]
<1>1. n \in 1..Len(st) BY EmptySeq
<1>2. st[n] \in Frame BY <1>1, ElementOfSeq
<1>3. up \in Frame BY <1>2 DEF Frame
<1>4. Advance(st) \in Seq(Frame) /\ Len(Advance(st)) = n
      /\ \A k \in 1..n : Advance(st)[k] = IF k = n THEN up ELSE st[k]
  BY <1>1, <1>3, ExceptSeq DEF Advance
<1>5. [fn |-> g, next |-> 1] \in Frame BY DEF Frame
<1>6. \A k \in 1..n : /\ Advance(st)[k].fn = st[k].fn
                     /\ Advance(st)[k].next = IF k = n THEN st[k].next + 1 ELSE st[k].next
  <2>1. up.fn = st[n].fn /\ up.next = st[n].next + 1 OBVIOUS
  <2> HIDE DEF up, n
  <2> QED BY ONLY <1>4, <2>1
<1>7. n \in Nat BY EmptySeq
<1>8. /\ Push(st, g) \in Seq(Frame) /\ Len(Push(st, g)) = n + 1
      /\ \A k \in 1..n : Push(st, g)[k] = Advance(st)[k]
      /\ Push(st, g)[n + 1] = [fn |-> g, next |-> 1]
  <2> DEFINE sq == Advance(st)
             fr == [fn |-> g, next |-> 1]
  <2>1. Push(st, g) = Append(sq, fr) BY DEF Push
  <2>2. sq \in Seq(Frame) /\ Len(sq) = n /\ fr \in Frame BY <1>4, <1>5
  <2> HIDE DEF sq, fr, n
  <2>3. /\ Append(sq, fr) \in Seq(Frame) /\ Len(Append(sq, fr)) = n + 1
        /\ \A k \in 1..n : Append(sq, fr)[k] = sq[k]
        /\ Append(sq, fr)[n + 1] = fr
    BY ONLY <1>7, <2>2, AppendProperties
  <2> QED BY ONLY <2>1, <2>3 DEF sq, fr
<1>9. Push(st, g) # <<>>
  <2> HIDE DEF n
  <2> QED BY ONLY <1>7, <1>8, EmptySeq
<1> HIDE DEF up
<1> QED BY <1>6, <1>8, <1>9

\* What Return does to the stack.
LEMMA PopFrame ==
  ASSUME NEW st \in Seq(Frame), st # <<>>, NEW n \in Nat, Len(st) = n + 1
  PROVE  /\ Pop(st) \in Seq(Frame)
         /\ Len(Pop(st)) = n
         /\ \A k \in 1..n : Pop(st)[k] = st[k]
         /\ Pop(st) = <<>> <=> n = 0
<1>1. \A i \in 1..n : st[i] \in Frame BY ElementOfSeq
<1>2. Pop(st) = SubSeq(st, 1, n) BY DEF Pop
<1>3. /\ Pop(st) \in Seq(Frame)
      /\ Len(Pop(st)) = IF 1 <= n THEN n - 1 + 1 ELSE 0
      /\ \A i \in 1 .. n - 1 + 1 : Pop(st)[i] = st[1 + i - 1]
  BY <1>1, <1>2, SubSeqProperties
<1>4. Len(Pop(st)) = n BY <1>3
<1>5. Pop(st) = <<>> <=> Len(Pop(st)) = 0 BY <1>3, EmptySeq
<1>6. \A k \in 1..n : Pop(st)[k] = st[k] BY <1>3
<1> QED BY <1>3, <1>4, <1>5, <1>6

-----------------------------------------------------------------------------
(* The determination of functions *)

LEMMA InitInv == Init => Inv
<1> SUFFICES ASSUME Init PROVE Inv
  OBVIOUS
<1> USE DEF Init
<1>1. TypeOK BY EmptySeq DEF TypeOK
<1>2. FunctionsInv
  BY DEF FunctionsInv, FunctionsOK, Inherited, NothingInvented, Callees
<1>3. WalkInv
  BY EmptySeq DEF WalkInv, PhaseOK, MarksSound, FramesSound, Covered
<1> QED BY <1>1, <1>2, <1>3 DEF Inv

\* While nothing has been marked, the walk's part of the invariant is vacuous.
LEMMA WalkInvVacuous ==
  ASSUME PhaseOK, TypeOK, phase = "functions", UNCHANGED walk,
         phase' \in {"functions", "failed"}
  PROVE  WalkInv'
<1>1. stack' = <<>> /\ ep' = None /\ \A f \in Funcs : ancestors'[f] = {}
  BY DEF PhaseOK, walk
<1>2. Len(stack') = 0 BY <1>1
<1> QED BY <1>1, <1>2 DEF WalkInv, PhaseOK, MarksSound, FramesSound, Covered

\* The invariant of functions does not depend on the walk.
LEMMA FunctionsInvKept ==
  ASSUME TypeOK, FunctionsInv, UNCHANGED annotations, current' \in {current, None}
  PROVE  FunctionsInv'
<1> USE DEF FunctionsInv, annotations
<1>1. \A f : Callees(f)' = Callees(f) BY DEF Callees
<1>2. \A f : CalledFrom(f)' = CalledFrom(f)
  BY <1>1 DEF CalledFrom, ClosedUnderCalls
<1>3. known \subseteq Funcs BY DEF TypeOK
<1>4. \A f \in Funcs : None \notin Callees(f) BY <1>3 DEF FunctionsOK
<1>5. FunctionsOK' BY <1>1, <1>4 DEF FunctionsOK
<1>6. Inherited' BY <1>1 DEF Inherited
<1>7. NothingInvented' BY <1>2 DEF NothingInvented
<1> QED BY <1>5, <1>6, <1>7
LEMMA InvBeginFunction ==
  ASSUME Inv, NEW f \in Funcs, NEW e \in BOOLEAN, BeginFunction(f, e)
  PROVE  Inv'
<1> USE DEF Inv, BeginFunction
<1>1. TypeOK' BY DEF TypeOK, walk
<1>2. WalkInv' BY WalkInvVacuous DEF WalkInv
<1>3. \A g : Callees(g)' = Callees(g) BY DEF Callees
<1>4. \A g : CalledFrom(g)' = CalledFrom(g)
  BY <1>3 DEF CalledFrom, ClosedUnderCalls
<1>5. FunctionsOK' BY <1>3 DEF FunctionsInv, FunctionsOK
<1>6. Inherited' BY <1>3 DEF FunctionsInv, Inherited
<1>7. NothingInvented' BY <1>4 DEF FunctionsInv, NothingInvented
<1> QED BY <1>1, <1>2, <1>5, <1>6, <1>7 DEF FunctionsInv

LEMMA InvReference ==
  ASSUME Inv, NEW v \in Vars, Reference(v)
  PROVE  Inv'
<1> USE DEF Inv, Reference
<1>1. TypeOK' BY DEF TypeOK, walk
<1>2. WalkInv' BY WalkInvVacuous DEF WalkInv
<1>3. \A g : Callees(g)' = Callees(g) BY DEF Callees
<1>4. \A g : CalledFrom(g)' = CalledFrom(g)
  BY <1>3 DEF CalledFrom, ClosedUnderCalls
<1>5. current \in Funcs /\ current \in known BY DEF TypeOK, FunctionsInv, FunctionsOK
<1>6. FunctionsOK' BY <1>3, <1>5 DEF TypeOK, FunctionsInv, FunctionsOK
<1>7. Inherited'
  <2> SUFFICES ASSUME NEW f \in Funcs
               PROVE  local'[f] \subseteq refs'[f] /\
                      \A g \in Callees(f) : refs'[g] \subseteq refs'[f]
    BY <1>3 DEF Inherited
  <2>1. \A g \in Callees(f) : g \in Funcs /\ refs[g] \subseteq refs[f]
    BY DEF TypeOK, FunctionsInv, FunctionsOK, Inherited
  <2>2. f # current => current \notin Callees(f) BY DEF FunctionsInv, FunctionsOK
  <2>3. refs' = [refs EXCEPT ![current] = refs[current] \cup {v}] OBVIOUS
  <2>4. \A g \in Funcs : refs'[g] = IF g = current THEN refs[g] \cup {v} ELSE refs[g]
    BY <1>5, <2>3 DEF TypeOK
  <2>5. \A g \in Funcs : local'[g] = IF g = current THEN local[g] \cup {v} ELSE local[g]
    BY <1>5 DEF TypeOK
  <2>6. local[f] \subseteq refs[f] BY DEF FunctionsInv, Inherited
  <2>7. local'[f] \subseteq refs'[f] BY <2>4, <2>5, <2>6
  <2>8. \A g \in Callees(f) : refs'[g] \subseteq refs'[f]
    BY <2>1, <2>2, <2>4
  <2> QED BY <2>7, <2>8
<1>8. NothingInvented'
  <2> SUFFICES ASSUME NEW f \in Funcs, NEW w \in refs'[f]
               PROVE  w \in local'[f] \/ \E g \in CalledFrom(f) : w \in local'[g]
    BY <1>4 DEF NothingInvented
  <2>1. \A g \in Funcs : local[g] \subseteq local'[g] BY DEF TypeOK
  <2>2. CASE w \in refs[f]
    BY <2>1, <2>2 DEF FunctionsInv, NothingInvented, CalledFrom
  <2>3. CASE w \notin refs[f]
    <3>1. f = current /\ w = v BY <2>3, <1>5 DEF TypeOK
    <3> QED BY <3>1 DEF TypeOK
  <2> QED BY <2>2, <2>3
<1> QED BY <1>1, <1>2, <1>6, <1>7, <1>8 DEF FunctionsInv

LEMMA InvCall ==
  ASSUME Inv, NEW g \in Funcs, Call(g)
  PROVE  Inv'
<1> USE DEF Inv, Call
<1>1. current \in Funcs /\ current \in known BY DEF TypeOK, FunctionsInv, FunctionsOK
<1>2. calls[current] \in Seq(Funcs) BY <1>1 DEF TypeOK
<1>3. Append(calls[current], g) \in Seq(Funcs) BY <1>2
<1>4. refs' = [refs EXCEPT ![current] = refs[current] \cup refs[g]] OBVIOUS
<1>5. \A f \in Funcs : refs'[f] = IF f = current THEN refs[f] \cup refs[g] ELSE refs[f]
  BY <1>1, <1>4 DEF TypeOK
<1>6. calls' = [calls EXCEPT ![current] = Append(calls[current], g)] OBVIOUS
<1>7. TypeOK' BY <1>1, <1>3, <1>4, <1>6 DEF TypeOK, walk
<1>8. WalkInv' BY WalkInvVacuous DEF WalkInv
<1>9. \A f \in Funcs : f # current => Callees(f)' = Callees(f)
  BY <1>1, <1>6 DEF Callees, TypeOK
<1>10. Callees(current)' = Callees(current) \cup {g}
  <2>1. calls'[current] = Append(calls[current], g) BY <1>1, <1>6 DEF TypeOK
  <2>2. DOMAIN calls'[current] = 1 .. Len(calls[current]) + 1
    BY <2>1, <1>2, <1>3, LenProperties
  <2>3. DOMAIN calls[current] = 1 .. Len(calls[current]) BY <1>2, LenProperties
  <2> QED BY <2>1, <2>2, <2>3, <1>2 DEF Callees
<1>11. \A f \in Funcs : CalledFrom(f) \subseteq CalledFrom(f)'
  BY <1>9, <1>10, CalledFromMonotone
<1>12. FunctionsOK'
  <2>1. g \in known /\ known' = known /\ entry' = entry /\ current' = current OBVIOUS
  <2>2. \A f \in Funcs : Callees(f)' \subseteq known
    BY <1>9, <1>10, <2>1 DEF FunctionsInv, FunctionsOK
  <2>3. \A f \in Funcs \ known : calls'[f] = <<>> /\ refs'[f] = {} /\ local'[f] = {}
    BY <1>1, <1>5, <1>6 DEF TypeOK, FunctionsInv, FunctionsOK
  <2>4. \A f \in Funcs : current \in Callees(f)' => f = current
    BY <1>9 DEF FunctionsInv, FunctionsOK
  <2>5. current \in known /\ entry \subseteq known BY <1>1 DEF FunctionsInv, FunctionsOK
  <2> QED BY <2>1, <2>2, <2>3, <2>4, <2>5 DEF FunctionsOK
<1>13. Inherited'
  <2> SUFFICES ASSUME NEW f \in Funcs
               PROVE  local[f] \subseteq refs'[f] /\
                      \A h \in Callees(f)' : refs'[h] \subseteq refs'[f]
    BY DEF Inherited
  <2>1. local[f] \subseteq refs[f] /\ \A h \in Callees(f) : h \in Funcs /\ refs[h] \subseteq refs[f]
    BY DEF TypeOK, FunctionsInv, FunctionsOK, Inherited
  <2>2. f # current => current \notin Callees(f) BY DEF FunctionsInv, FunctionsOK
  <2>3. CASE f = current
    <3>1. refs'[f] = refs[f] \cup refs[g] BY <2>3, <1>5
    <3>2. \A h \in Callees(f) \cup {g} : h \in Funcs /\ refs'[h] \subseteq refs[f] \cup refs[g]
      BY <2>1, <2>3, <1>5
    <3> QED BY <2>1, <2>3, <3>1, <3>2, <1>10
  <2>4. CASE f # current
    BY <2>1, <2>2, <2>4, <1>5, <1>9
  <2> QED BY <2>3, <2>4
<1>14. NothingInvented'
  <2> SUFFICES ASSUME NEW f \in Funcs, NEW w \in refs'[f]
               PROVE  w \in local[f] \/ \E h \in CalledFrom(f)' : w \in local[h]
    BY DEF NothingInvented
  <2>1. CASE w \in refs[f]
    BY <2>1, <1>11 DEF FunctionsInv, NothingInvented
  <2>2. CASE w \notin refs[f]
    <3>1. f = current /\ w \in refs[g] BY <2>2, <1>5
    <3>2. w \in local[g] \/ \E h \in CalledFrom(g) : w \in local[h]
      BY <3>1 DEF FunctionsInv, NothingInvented
    <3>3. CalledFrom(g) \subseteq CalledFrom(g)' BY <1>11
    <3>4. g \in Callees(f)' BY <3>1, <1>10
    <3>5. g \in CalledFrom(f)' /\ CalledFrom(g)' \subseteq CalledFrom(f)'
      BY <3>4, CalledFromStepNext
    <3> QED BY <3>2, <3>3, <3>5
  <2> QED BY <2>1, <2>2
<1> QED BY <1>7, <1>8, <1>12, <1>13, <1>14 DEF FunctionsInv
LEMMA InvEndOfFunction ==
  ASSUME Inv, EndFunction \/ \E g \in Funcs : CallUnknown(g)
  PROVE  Inv'
<1> USE DEF Inv, EndFunction, CallUnknown
<1>1. TypeOK' BY DEF TypeOK, walk, annotations
<1>2. FunctionsInv' BY FunctionsInvKept
<1>3. WalkInv' BY WalkInvVacuous DEF WalkInv
<1> QED BY <1>1, <1>2, <1>3

-----------------------------------------------------------------------------
(* The walk *)

\* Every index of a call is that of a function, and reachability is kept.
LEMMA CallsKept ==
  ASSUME TypeOK, UNCHANGED annotations
  PROVE  /\ \A f \in Funcs : \A i \in 1..Len(calls[f]) :
               calls[f][i] \in Funcs /\ calls[f][i] \in Callees(f)
         /\ \A f : CalledFrom(f)' = CalledFrom(f)
<1>1. \A f \in Funcs : calls[f] \in Seq(Funcs) BY DEF TypeOK
<1>2. \A f \in Funcs : DOMAIN calls[f] = 1..Len(calls[f]) BY <1>1, LenProperties
<1>3. \A f \in Funcs : \A i \in 1..Len(calls[f]) : calls[f][i] \in Funcs
  BY <1>1, ElementOfSeq
<1>4. \A f : CalledFrom(f)' = CalledFrom(f)
  BY DEF annotations, CalledFrom, ClosedUnderCalls, Callees
<1> QED BY <1>2, <1>3, <1>4 DEF Callees

LEMMA InvBeginWalk ==
  ASSUME Inv, BeginWalk
  PROVE  Inv'
<1> USE DEF Inv, BeginWalk
<1>1. TypeOK' BY DEF TypeOK, annotations
<1>2. FunctionsInv' BY FunctionsInvKept
<1>3. \A f \in Funcs : ancestors'[f] = {} BY DEF WalkInv, PhaseOK
<1>4. PhaseOK' BY DEF WalkInv, PhaseOK, annotations
<1>5. MarksSound' BY <1>3 DEF MarksSound
<1>6. stack' = <<>> /\ ep' = None BY DEF WalkInv, PhaseOK
<1>7. FramesSound' BY <1>6, EmptySeq DEF FramesSound
<1>8. Covered' BY DEF Covered, annotations
<1> QED BY <1>1, <1>2, <1>4, <1>5, <1>7, <1>8 DEF WalkInv

LEMMA InvStartEntryPoint ==
  ASSUME Inv, NEW x \in Funcs, StartEntryPoint(x)
  PROVE  Inv'
<1> USE DEF Inv, StartEntryPoint
<1> DEFINE fr == [fn |-> x, next |-> 1]
<1>1. fr \in Frame BY DEF Frame
<1>2. stack' = <<fr>> /\ stack' \in Seq(Frame) /\ Len(stack') = 1 /\ stack'[1] = fr /\ stack' # <<>>
  BY <1>1
<1>3. TypeOK' BY <1>2 DEF TypeOK, annotations
<1>4. FunctionsInv' BY FunctionsInvKept
<1>5. PhaseOK' /\ x \in entry BY DEF WalkInv, PhaseOK, annotations
<1>6. \A f \in Funcs : x \notin ancestors[f] BY DEF WalkInv, MarksSound
<1>7. \A f : CalledFrom(f)' = CalledFrom(f) BY CallsKept
<1>8. MarksSound' BY <1>6, <1>7 DEF WalkInv, MarksSound, annotations
<1>9. FramesSound' BY <1>2, <1>5 DEF FramesSound, annotations
<1>10. Covered'
  <2> SUFFICES ASSUME NEW e \in entry \ (pending \ {x}), NEW f \in Funcs,
                      f = e \/ e \in ancestors[f], NEW i \in 1..Len(calls[f])
               PROVE  e \in ancestors[calls[f][i]] \/ Ahead(e, f, i)'
    BY DEF Covered, annotations
  <2>1. CASE e = x
    <3>1. f = x BY <1>6, <2>1
    <3>2. stack'[1].fn = f /\ stack'[1].next <= i BY <1>2, <3>1, CallsKept
    <3> QED BY <1>2, <2>1, <3>2 DEF Ahead
  <2>2. CASE e # x
    <3>1. e \notin pending /\ e # ep BY <2>2 DEF TypeOK
    <3> QED BY <3>1 DEF WalkInv, Covered, Ahead
  <2> QED BY <2>1, <2>2
<1> QED BY <1>3, <1>4, <1>5, <1>8, <1>9, <1>10 DEF WalkInv

LEMMA InvVisit ==
  ASSUME Inv, Visit
  PROVE  Inv'
<1> DEFINE n == Len(stack)
           fn == stack[n].fn
           nx == stack[n].next
           callee == calls[fn][nx]
<1>0. TypeOK /\ FunctionsInv /\ PhaseOK /\ MarksSound /\ FramesSound /\ Covered
  BY DEF Inv, WalkInv
<1>a. /\ phase = "walk" /\ stack # <<>> /\ nx <= Len(calls[fn])
      /\ ancestors' = [ancestors EXCEPT ![callee] = ancestors[callee] \cup {ep}]
      /\ stack' = Push(stack, callee)
      /\ UNCHANGED <<phase, current, annotations, pending, ep>>
  BY DEF Visit, Top
<1>1. stack \in Seq(Frame) /\ n \in Nat \ {0} /\ n \in 1..n
  BY <1>0, <1>a, EmptySeq DEF TypeOK
<1>b. \A k \in 1..n : stack[k] \in Frame /\ stack[k].fn \in Funcs /\ stack[k].next \in Nat \ {0}
  <2> SUFFICES ASSUME NEW k \in 1..n
               PROVE  stack[k] \in Frame /\ stack[k].fn \in Funcs /\ stack[k].next \in Nat \ {0}
    OBVIOUS
  <2>1. stack[k] \in Frame BY <1>1, ElementOfSeq
  <2> QED BY <2>1 DEF Frame
<1>2. fn \in Funcs /\ nx \in Nat \ {0} /\ nx \in 1..Len(calls[fn])
  <2>1. fn \in Funcs /\ nx \in Nat \ {0} BY <1>1, <1>b
  <2>2. Len(calls[fn]) \in Nat BY <2>1, <1>0 DEF TypeOK
  <2> QED BY <2>1, <2>2, <1>a
<1>3. callee \in Funcs /\ callee \in Callees(fn) BY <1>0, <1>a, <1>2, CallsKept
<1>4. ep \in Funcs /\ ep \in entry \ pending BY <1>0, <1>a DEF TypeOK, FramesSound
<1>5. \A f \in Funcs : ancestors'[f] = IF f = callee THEN ancestors[f] \cup {ep} ELSE ancestors[f]
  BY <1>0, <1>3, <1>a DEF TypeOK
<1> HIDE DEF fn, nx, callee
<1>7. /\ stack' \in Seq(Frame) /\ stack' # <<>> /\ Len(stack') = n + 1
      /\ \A k \in 1..n : /\ stack'[k].fn = stack[k].fn
                         /\ stack'[k].next = IF k = n THEN stack[k].next + 1 ELSE stack[k].next
      /\ stack'[n + 1] = [fn |-> callee, next |-> 1]
  <2>1. stack \in Seq(Frame) /\ stack # <<>> /\ callee \in Funcs BY <1>1, <1>3, <1>a
  <2>2. stack' = Push(stack, callee) BY <1>a DEF fn, nx, callee
  <2> QED BY <2>1, <2>2, PushFrame
<1>8. TypeOK' BY <1>0, <1>a, <1>3, <1>4, <1>5, <1>7 DEF TypeOK, annotations
<1>9. FunctionsInv' BY <1>0, <1>a, FunctionsInvKept
<1>10. PhaseOK' BY <1>0, <1>a DEF PhaseOK, annotations
<1>11. \A f : CalledFrom(f)' = CalledFrom(f) BY <1>0, <1>a, CallsKept
<1>12. callee \in CalledFrom(ep)
  <2>1. fn = ep \/ ep \in ancestors[fn] BY <1>0, <1>1 DEF FramesSound, fn
  <2>2. CASE fn = ep BY <2>2, <1>2, <1>3, CalledFromStep
  <2>3. CASE ep \in ancestors[fn]
    <3>1. fn \in CalledFrom(ep) BY <2>3, <1>0, <1>2 DEF MarksSound
    <3> QED BY <3>1, <1>3, <1>4, CalledFromTransitive
  <2> QED BY <2>1, <2>2, <2>3
<1>13. MarksSound'
  <2> SUFFICES ASSUME NEW f \in Funcs, NEW e \in ancestors'[f]
               PROVE  e \in entry \ pending /\ f \in CalledFrom(e)
    BY <1>11, <1>a DEF MarksSound, annotations
  <2>1. CASE e \in ancestors[f] BY <2>1, <1>0 DEF MarksSound
  <2>2. CASE e \notin ancestors[f] BY <2>2, <1>4, <1>5, <1>12
  <2> QED BY <2>1, <2>2
<1>14. FramesSound'
  <2> SUFFICES ASSUME NEW k \in 1..(n + 1)
               PROVE  stack'[k].fn = ep \/ ep \in ancestors'[stack'[k].fn]
    BY <1>4, <1>7, <1>a DEF FramesSound, annotations
  <2>1. CASE k = n + 1
    <3>1. stack'[k].fn = callee BY <2>1, <1>7
    <3> QED BY <3>1, <1>3, <1>5
  <2>2. CASE k \in 1..n
    <3>1. stack[k].fn = ep \/ ep \in ancestors[stack[k].fn]
      BY <2>2, <1>0 DEF FramesSound
    <3>2. stack'[k].fn = stack[k].fn /\ stack[k].fn \in Funcs BY <2>2, <1>b, <1>7
    <3> QED BY <3>1, <3>2, <1>5
  <2> QED BY <2>1, <2>2, <1>1
<1>15. Covered'
  <2> SUFFICES ASSUME NEW e \in entry \ pending, NEW f \in Funcs,
                      f = e \/ e \in ancestors'[f], NEW i \in 1..Len(calls[f])
               PROVE  e \in ancestors'[calls[f][i]] \/ Ahead(e, f, i)'
    BY <1>a DEF Covered, annotations
  <2>1. calls[f][i] \in Funcs BY <1>0, <1>a, CallsKept
  <2>2. CASE f = callee /\ e = ep
    <3>1. stack'[n + 1].fn = f /\ stack'[n + 1].next <= i /\ n + 1 \in 1..Len(stack')
      <4>1. i \in Nat /\ 1 <= i
        BY <1>0 DEF TypeOK
      <4> QED BY <4>1, <2>2, <1>1, <1>7
    <3> QED BY <2>2, <3>1, <1>a DEF Ahead
  <2>3. CASE f # callee \/ e # ep
    <3>1. f = e \/ e \in ancestors[f] BY <2>3, <1>5
    <3>2. e \in ancestors[calls[f][i]] \/ Ahead(e, f, i)
      BY <3>1, <1>0, <1>a DEF Covered
    <3>3. CASE e \in ancestors[calls[f][i]] BY <3>3, <2>1, <1>5
    <3>4. CASE Ahead(e, f, i)
      <4>1. PICK k \in 1..n : e = ep /\ stack[k].fn = f /\ stack[k].next <= i
        BY <3>4 DEF Ahead
      <4>2. CASE k = n /\ stack[k].next = i
        BY <4>1, <4>2, <2>1, <1>5 DEF fn, nx, callee
      <4>3. CASE ~(k = n /\ stack[k].next = i)
        <5>1. stack[k].next \in Nat /\ i \in Int BY <1>b, <4>1
        <5>2. stack'[k].fn = f /\ stack'[k].next <= i
          BY <4>1, <4>3, <5>1, <1>7
        <5>3. k \in 1..Len(stack') BY <1>1, <1>7
        <5> QED BY <4>1, <5>2, <5>3, <1>a DEF Ahead
      <4> QED BY <4>2, <4>3
    <3> QED BY <3>2, <3>3, <3>4
  <2> QED BY <2>2, <2>3
<1> QED BY <1>8, <1>9, <1>10, <1>13, <1>14, <1>15 DEF Inv, WalkInv
LEMMA InvReturn ==
  ASSUME Inv, Return
  PROVE  Inv'
<1>0. TypeOK /\ FunctionsInv /\ PhaseOK /\ MarksSound /\ FramesSound /\ Covered
  BY DEF Inv, WalkInv
<1>1. stack \in Seq(Frame) /\ stack # <<>>
  <2>1. stack # <<>> BY DEF Return
  <2> QED BY <1>0, <2>1 DEF TypeOK
<1>2. PICK n \in Nat : Len(stack) = n + 1
  <2>1. Len(stack) \in Nat \ {0} BY <1>1, EmptySeq
  <2>2. \A k \in Nat \ {0} : k - 1 \in Nat /\ k = (k - 1) + 1 OBVIOUS
  <2>3. Len(stack) - 1 \in Nat /\ Len(stack) = (Len(stack) - 1) + 1 BY ONLY <2>1, <2>2
  <2> QED BY ONLY <2>3
<1>3. /\ phase = "walk" /\ stack[n + 1].next > Len(calls[stack[n + 1].fn])
      /\ stack' = Pop(stack) /\ ep' = IF n + 1 = 1 THEN None ELSE ep
      /\ UNCHANGED <<phase, current, annotations, ancestors, pending>>
  BY <1>2 DEF Return, Top
<1>4. /\ stack' \in Seq(Frame) /\ Len(stack') = n
      /\ \A k \in 1..n : stack'[k] = stack[k]
      /\ stack' = <<>> <=> n = 0
  <2>1. stack' = Pop(stack) BY <1>3
  <2>2. /\ Pop(stack) \in Seq(Frame) /\ Len(Pop(stack)) = n
        /\ \A k \in 1..n : Pop(stack)[k] = stack[k]
        /\ Pop(stack) = <<>> <=> n = 0
    BY ONLY <1>1, <1>2, n \in Nat, PopFrame
  <2> QED BY ONLY <2>1, <2>2
<1>5. ep \in Funcs /\ ep \in entry \ pending BY <1>0, <1>1 DEF TypeOK, FramesSound
<1>6. ep' = IF n = 0 THEN None ELSE ep BY <1>3
<1>7. TypeOK'
  <2>1. ep' = None <=> stack' = <<>> BY <1>4, <1>5, <1>6
  <2> QED BY <1>0, <1>3, <1>4, <1>6, <2>1 DEF TypeOK, annotations
<1>8. FunctionsInv' BY <1>0, <1>3, FunctionsInvKept
<1>9. PhaseOK' BY <1>0, <1>3 DEF PhaseOK, annotations
<1>10. \A f : CalledFrom(f)' = CalledFrom(f) BY <1>0, <1>3, CallsKept
<1>11. MarksSound' BY <1>0, <1>3, <1>10 DEF MarksSound, annotations
<1>12. FramesSound'
  <2>1. CASE n = 0 BY <2>1, <1>4, <1>6 DEF FramesSound
  <2>2. CASE n # 0
    <3>1. ep' = ep BY <2>2, <1>6
    <3>2. \A k \in 1..n : stack[k].fn = ep \/ ep \in ancestors[stack[k].fn]
      BY <1>0, <1>2 DEF FramesSound
    <3> QED BY <3>1, <3>2, <1>3, <1>4, <1>5 DEF FramesSound, annotations
  <2> QED BY <2>1, <2>2
<1>13. Covered'
  <2> SUFFICES ASSUME NEW e \in entry \ pending, NEW f \in Funcs,
                      f = e \/ e \in ancestors[f], NEW i \in 1..Len(calls[f])
               PROVE  e \in ancestors[calls[f][i]] \/ Ahead(e, f, i)'
    BY <1>3 DEF Covered, annotations
  <2>1. e \in ancestors[calls[f][i]] \/ Ahead(e, f, i)
    BY <1>0, <1>3 DEF Covered
  <2>2. CASE Ahead(e, f, i)
    <3>1. PICK k \in 1..(n + 1) : e = ep /\ stack[k].fn = f /\ stack[k].next <= i
      BY <2>2, <1>2 DEF Ahead
    <3>2. k # n + 1
      <4> SUFFICES ASSUME k = n + 1 PROVE FALSE
        OBVIOUS
      <4>1. stack[k] \in Frame BY <1>1, <1>2, ElementOfSeq
      <4>2. stack[k].next \in Nat BY <4>1 DEF Frame
      <4>3. Len(calls[f]) \in Nat BY <1>0 DEF TypeOK
      <4> QED BY <3>1, <4>2, <4>3, <1>3
    <3>3. k \in 1..n /\ n # 0 BY <3>2
    <3>4. ep' = ep /\ stack'[k] = stack[k] BY <3>3, <1>4, <1>6
    <3> QED BY <3>1, <3>3, <3>4, <1>4 DEF Ahead
  <2> QED BY <2>1, <2>2
<1> QED BY <1>7, <1>8, <1>9, <1>11, <1>12, <1>13 DEF Inv, WalkInv

LEMMA InvFinish ==
  ASSUME Inv, Finish
  PROVE  Inv'
<1>0. TypeOK /\ FunctionsInv /\ PhaseOK /\ MarksSound /\ FramesSound /\ Covered
  BY DEF Inv, WalkInv
<1>1. /\ phase = "walk" /\ phase' = "done" /\ pending = {} /\ ep = None
      /\ UNCHANGED <<current, annotations, walk>>
  BY DEF Finish
<1>2. TypeOK' BY <1>0, <1>1 DEF TypeOK, annotations, walk
<1>3. FunctionsInv' BY <1>0, <1>1, FunctionsInvKept
<1>4. PhaseOK' BY <1>0, <1>1 DEF PhaseOK, annotations, walk
<1>5. \A f : CalledFrom(f)' = CalledFrom(f) BY <1>0, <1>1, CallsKept
<1>6. MarksSound' BY <1>0, <1>1, <1>5 DEF MarksSound, annotations, walk
<1>7. FramesSound' BY <1>0, <1>1 DEF FramesSound, annotations, walk
<1>8. Covered' BY <1>0, <1>1 DEF Covered, Ahead, annotations, walk
<1> QED BY <1>2, <1>3, <1>4, <1>6, <1>7, <1>8 DEF Inv, WalkInv

LEMMA InvStutter ==
  ASSUME Inv, UNCHANGED vars
  PROVE  Inv'
<1>1. /\ TypeOK /\ FunctionsInv /\ PhaseOK /\ MarksSound /\ FramesSound /\ Covered
      /\ UNCHANGED <<phase, current, annotations, walk>>
  BY DEF Inv, WalkInv, vars
<1>2. TypeOK' BY <1>1 DEF TypeOK, annotations, walk
<1>3. FunctionsInv' BY <1>1, FunctionsInvKept
<1>4. PhaseOK' BY <1>1 DEF PhaseOK, annotations, walk
<1>5. \A f : CalledFrom(f)' = CalledFrom(f) BY <1>1, CallsKept
<1>6. MarksSound' BY <1>1, <1>5 DEF MarksSound, annotations, walk
<1>7. FramesSound' BY <1>1 DEF FramesSound, annotations, walk
<1>8. Covered' BY <1>1 DEF Covered, Ahead, annotations, walk
<1> QED BY <1>2, <1>3, <1>4, <1>6, <1>7, <1>8 DEF Inv, WalkInv

LEMMA InvStep == Inv /\ [Next]_vars => Inv'
  BY InvStutter, InvBeginFunction, InvReference, InvCall, InvEndOfFunction,
     InvBeginWalk, InvStartEntryPoint, InvVisit, InvReturn, InvFinish DEF Next

-----------------------------------------------------------------------------
\* The inductive invariant holds of every reachable state.
THEOREM Invariance == Spec => []Inv
<1>1. Init => Inv BY InitInv
<1>2. Inv /\ [Next]_vars => Inv' BY InvStep
<1> QED BY <1>1, <1>2, PTL DEF Spec

\* Type correctness of the TypeDeterminer's records.
THEOREM TypeCorrect == Spec => []TypeOK
<1>1. Inv => TypeOK BY DEF Inv
<1> QED BY <1>1, Invariance, PTL

\* For every module, the module variables a determined function is said to
\* reference are exactly those it or a function it can end up calling names
\* (type_determiner.cc:418): the interface the writers emit is complete.
THEOREM ReferencesAreExact == Spec => []ReferencesExact
<1>1. Inv => ReferencesExact
  <2> SUFFICES ASSUME Inv, NEW f \in Funcs
               PROVE  refs[f] = local[f] \cup UNION {local[g] : g \in CalledFrom(f)}
    BY DEF ReferencesExact, Inv, TypeOK
  <2>1. TypeOK /\ FunctionsOK /\ Inherited /\ NothingInvented
    BY DEF Inv, FunctionsInv
  <2>2. ASSUME NEW g \in CalledFrom(f) PROVE local[g] \subseteq refs[f]
    <3> DEFINE S == {h \in Funcs : refs[h] \subseteq refs[f]}
    <3>1. \A h \in Funcs : Callees(h) \subseteq Funcs BY <2>1 DEF TypeOK, FunctionsOK
    <3>2. ClosedUnderCalls(S)
      BY <3>1, <2>1 DEF ClosedUnderCalls, Inherited
    <3>3. Callees(f) \subseteq S BY <3>1, <2>1 DEF Inherited
    <3>4. g \in Funcs /\ g \in S BY <3>2, <3>3, <2>2 DEF CalledFrom
    <3> QED BY <3>4, <2>1 DEF Inherited
  <2>3. local[f] \subseteq refs[f] BY <2>1 DEF Inherited
  <2>4. \A v \in refs[f] : v \in local[f] \/ \E g \in CalledFrom(f) : v \in local[g]
    BY <2>1 DEF NothingInvented
  <2> QED BY <2>2, <2>3, <2>4
<1> QED BY <1>1, Invariance, PTL

\* For every module, the ancestor entry points of a function are exactly the
\* entry points with a chain of calls to it (type_determiner.cc:136-156).
THEOREM AncestorsAreExact == Spec => []AncestorsExact
<1>1. Inv => AncestorsExact
  <2> SUFFICES ASSUME Inv, phase = "done", NEW f \in Funcs
               PROVE  ancestors[f] = {e \in entry : f \in CalledFrom(e)}
    BY DEF AncestorsExact
  <2>1. TypeOK /\ FunctionsOK /\ PhaseOK /\ MarksSound /\ Covered
    BY DEF Inv, FunctionsInv, WalkInv
  <2>2. pending = {} /\ ep = None BY <2>1 DEF PhaseOK
  <2>3. ASSUME NEW e \in entry, f \in CalledFrom(e) PROVE e \in ancestors[f]
    <3> DEFINE S == {h \in Funcs : e \in ancestors[h]}
    <3>1. e \in Funcs /\ e # ep BY <2>1, <2>2 DEF TypeOK
    <3>2. ASSUME NEW h \in Funcs, h = e \/ e \in ancestors[h]
          PROVE  Callees(h) \subseteq S
      <4>1. \A i \in 1..Len(calls[h]) : e \in ancestors[calls[h][i]]
        BY <2>1, <2>2, <3>1, <3>2 DEF Covered, Ahead
      <4>2. calls[h] \in Seq(Funcs) BY <2>1 DEF TypeOK
      <4>3. DOMAIN calls[h] = 1..Len(calls[h]) BY <4>2, LenProperties
      <4>4. Callees(h) \subseteq Funcs BY <2>1 DEF TypeOK, FunctionsOK
      <4> QED BY <4>1, <4>3, <4>4 DEF Callees
    <3>3. ClosedUnderCalls(S) BY <3>2 DEF ClosedUnderCalls
    <3>4. Callees(e) \subseteq S BY <3>1, <3>2
    <3>5. f \in S BY <3>3, <3>4, <2>3 DEF CalledFrom
    <3> QED BY <3>5
  <2>4. \A e \in ancestors[f] : e \in entry /\ f \in CalledFrom(e)
    BY <2>1 DEF MarksSound
  <2> QED BY <2>3, <2>4
<1> QED BY <1>1, Invariance, PTL

-----------------------------------------------------------------------------
(* The depth of the walk *)

\* A call of a function that is declared, and is not the one at hand, closes no cycle:
\* nothing calls the function at hand yet.
LEMMA AcyclicCall ==
  ASSUME Inv, ~SelfCalls, Acyclic, NEW g \in Funcs, Call(g)
  PROVE  Acyclic'
<1>0. TypeOK /\ FunctionsOK BY DEF Inv, FunctionsInv
<1>1. current \in Funcs /\ g # current BY <1>0 DEF Call, TypeOK
<1>c. PICK c \in Funcs : c = current BY <1>1
<1>2. \A f \in Funcs : Callees(f) \subseteq Funcs BY <1>0 DEF TypeOK, FunctionsOK
<1>3. \A f \in Funcs : current \notin Callees(f)
  <2> SUFFICES ASSUME NEW f \in Funcs, current \in Callees(f) PROVE FALSE
    OBVIOUS
  <2>1. f = current BY <1>0 DEF FunctionsOK
  <2>2. current \in CalledFrom(current) BY <2>1, <1>1, CalledFromStep
  <2> QED BY <2>2, <1>1 DEF Acyclic
<1>4. \A f \in Funcs : f # current => Callees(f)' = Callees(f)
  BY <1>0, <1>1 DEF Call, Callees, TypeOK
<1>5. Callees(c)' = Callees(c) \cup {g}
  <2>1. calls[c] \in Seq(Funcs) BY <1>0 DEF TypeOK
  <2>2. calls'[c] = Append(calls[c], g) BY <1>0, <1>c DEF Call, TypeOK
  <2>3. DOMAIN calls'[c] = 1 .. Len(calls[c]) + 1
    BY <2>1, <2>2, LenProperties, AppendProperties
  <2>4. DOMAIN calls[c] = 1 .. Len(calls[c]) BY <2>1, LenProperties
  <2> QED BY <2>1, <2>2, <2>3, <2>4 DEF Callees
<1> SUFFICES ASSUME NEW f \in Funcs PROVE f \notin CalledFrom(f)'
  BY DEF Acyclic
<1>6. CASE f = current
  <2> DEFINE S == Funcs \ {c}
  <2>1. ClosedUnderCalls(S)' BY <1>c, <1>2, <1>3, <1>4 DEF ClosedUnderCalls
  <2>2. Callees(f)' \subseteq S BY <1>c, <1>1, <1>2, <1>3, <1>5, <1>6
  <2>3. f \notin S BY <1>6, <1>c
  <2> HIDE DEF S
  <2>4. S \in SUBSET Funcs BY DEF S
  <2> QED BY <2>1, <2>2, <2>3, <2>4 DEF CalledFrom
<1>7. CASE f # current
  <2>1. PICK R \in SUBSET Funcs : ClosedUnderCalls(R) /\ Callees(f) \subseteq R /\ f \notin R
    BY DEF Acyclic, CalledFrom
  <2> DEFINE S == R \ {c}
  <2>2. ClosedUnderCalls(S)' BY <1>c, <2>1, <1>3, <1>4 DEF ClosedUnderCalls
  <2>3. Callees(f)' \subseteq S BY <1>c, <2>1, <1>3, <1>4, <1>7
  <2>4. f \notin S BY <2>1
  <2> HIDE DEF S
  <2>5. S \in SUBSET Funcs BY DEF S
  <2> QED BY <2>2, <2>3, <2>4, <2>5 DEF CalledFrom
<1> QED BY <1>6, <1>7

\* The callee that is visited is called by every function that has a frame.
LEMMA ChainVisit ==
  ASSUME Inv, FramesChain, Visit
  PROVE  FramesChain'
<1> DEFINE n == Len(stack)
           fn == stack[n].fn
           callee == calls[fn][stack[n].next]
<1>0. TypeOK BY DEF Inv
<1>1. stack \in Seq(Frame) /\ stack # <<>> /\ n \in Nat \ {0} /\ n \in 1..n
  BY <1>0, EmptySeq DEF Visit, TypeOK
<1>2. \A k \in 1..n : stack[k].fn \in Funcs /\ stack[k].next \in Nat \ {0}
  <2> SUFFICES ASSUME NEW k \in 1..n
               PROVE  stack[k].fn \in Funcs /\ stack[k].next \in Nat \ {0}
    OBVIOUS
  <2>1. stack[k] \in Frame BY <1>1, ElementOfSeq
  <2> QED BY <2>1 DEF Frame
<1>3. fn \in Funcs /\ stack[n].next \in 1..Len(calls[fn])
  <2>1. fn \in Funcs /\ stack[n].next \in Nat \ {0} BY <1>1, <1>2
  <2>2. Len(calls[fn]) \in Nat BY <2>1, <1>0 DEF TypeOK
  <2>3. stack[n].next <= Len(calls[fn]) BY DEF Visit, Top
  <2> QED BY <2>1, <2>2, <2>3
<1>a. UNCHANGED annotations BY DEF Visit
<1>4. callee \in Funcs /\ callee \in Callees(fn) BY <1>0, <1>3, <1>a, CallsKept
<1>5. stack' = Push(stack, callee) BY DEF Visit, Top
<1>n. Len(stack) = n OBVIOUS
<1> HIDE DEF callee, fn, n
<1>6. /\ Len(stack') = n + 1
      /\ \A k \in 1..n : stack'[k].fn = stack[k].fn
      /\ stack'[n + 1].fn = callee
  <2> DEFINE st == Push(stack, callee)
  <2>1. /\ Len(st) = Len(stack) + 1
        /\ \A k \in 1..Len(stack) : st[k].fn = stack[k].fn
        /\ st[Len(stack) + 1] = [fn |-> callee, next |-> 1]
    BY <1>1, <1>4, PushFrame
  <2> HIDE DEF st
  <2>2. stack' = st BY <1>5 DEF st
  <2> QED BY <1>n, <2>1, <2>2
<1>7. \A f : CalledFrom(f)' = CalledFrom(f) BY <1>0, <1>a, CallsKept
<1>8. \A k \in 1..n : callee \in CalledFrom(stack[k].fn)
  <2> SUFFICES ASSUME NEW k \in 1..n PROVE callee \in CalledFrom(stack[k].fn)
    OBVIOUS
  <2>1. CASE k = n BY <2>1, <1>3, <1>4, CalledFromStep DEF fn
  <2>2. CASE k < n
    <3>1. fn \in CalledFrom(stack[k].fn) BY <2>2, <1>1, <1>n DEF FramesChain, fn
    <3> QED BY <3>1, <1>2, <1>4, CalledFromTransitive
  <2> QED BY <2>1, <2>2, <1>1
<1> SUFFICES ASSUME NEW k \in 1..(n + 1), NEW j \in 1..(n + 1), k < j
             PROVE  stack'[j].fn \in CalledFrom(stack'[k].fn)
  BY <1>6, <1>7 DEF FramesChain
<1>9. k \in 1..n /\ stack'[k].fn = stack[k].fn BY <1>1, <1>6
<1>10. CASE j = n + 1 BY <1>6, <1>8, <1>9, <1>10
<1>11. CASE j \in 1..n BY <1>n, <1>6, <1>9, <1>11 DEF FramesChain
<1> QED BY <1>10, <1>11, <1>1

LEMMA ChainReturn ==
  ASSUME Inv, FramesChain, Return
  PROVE  FramesChain'
<1>0. TypeOK BY DEF Inv
<1>1. stack \in Seq(Frame) /\ stack # <<>>
  <2>1. stack # <<>> BY DEF Return
  <2> QED BY <1>0, <2>1 DEF TypeOK
<1>2. PICK n \in Nat : Len(stack) = n + 1
  <2>1. Len(stack) \in Nat \ {0} BY <1>1, EmptySeq
  <2>2. \A k \in Nat \ {0} : k - 1 \in Nat /\ k = (k - 1) + 1 OBVIOUS
  <2>3. Len(stack) - 1 \in Nat /\ Len(stack) = (Len(stack) - 1) + 1 BY ONLY <2>1, <2>2
  <2> QED BY ONLY <2>3
<1>3. Len(stack') = n /\ \A k \in 1..n : stack'[k] = stack[k]
  BY <1>1, <1>2, PopFrame DEF Return
<1>4. \A f : CalledFrom(f)' = CalledFrom(f) BY <1>0, CallsKept DEF Return
<1> QED BY <1>2, <1>3, <1>4 DEF FramesChain

LEMMA ChainStep == Inv /\ ChainInv /\ [Next]_vars => ChainInv'
<1> SUFFICES ASSUME Inv, ChainInv, [Next]_vars, ~SelfCalls
             PROVE  Acyclic' /\ FramesChain'
  BY DEF ChainInv
<1>0. TypeOK /\ PhaseOK /\ Acyclic /\ FramesChain BY DEF Inv, WalkInv, ChainInv
<1>1. ASSUME UNCHANGED calls PROVE \A f : CalledFrom(f)' = CalledFrom(f)
  BY <1>1 DEF CalledFrom, ClosedUnderCalls, Callees
<1>2. ASSUME stack' = <<>> PROVE FramesChain'
  <2>1. Len(stack') = 0 BY <1>2
  <2> QED BY <2>1 DEF FramesChain
<1>3. CASE \E g \in Funcs : Call(g)
  <2>1. Acyclic' BY <1>0, <1>3, AcyclicCall
  <2>2. stack' = <<>> BY <1>0, <1>3 DEF Call, walk, PhaseOK
  <2> QED BY <2>1, <2>2, <1>2
<1>4. CASE \/ \E f \in Funcs, e \in BOOLEAN : BeginFunction(f, e)
           \/ \E v \in Vars : Reference(v)
           \/ EndFunction \/ \E g \in Funcs : CallUnknown(g)
           \/ BeginWalk \/ Finish \/ UNCHANGED vars
  <2>1. UNCHANGED <<calls, stack>>
    BY <1>4 DEF BeginFunction, Reference, EndFunction, CallUnknown, BeginWalk, Finish, vars,
       annotations, walk
  <2> QED BY <2>1, <1>0, <1>1 DEF Acyclic, FramesChain
<1>5. CASE \E e \in Funcs : StartEntryPoint(e)
  <2>1. UNCHANGED calls /\ Len(stack') = 1 BY <1>5 DEF StartEntryPoint, annotations
  <2> QED BY <2>1, <1>0, <1>1 DEF Acyclic, FramesChain
<1>6. CASE Visit
  <2>1. UNCHANGED calls BY <1>6 DEF Visit, annotations
  <2> QED BY <2>1, <1>0, <1>1, <1>6, ChainVisit DEF Acyclic
<1>7. CASE Return
  <2>1. UNCHANGED calls BY <1>7 DEF Return, annotations
  <2> QED BY <2>1, <1>0, <1>1, <1>7, ChainReturn DEF Acyclic
<1> QED BY <1>3, <1>4, <1>5, <1>6, <1>7 DEF Next

\* When no function calls itself, the recursion of set_entry_points() never holds more
\* frames than there are functions (type_determiner.cc:146), whatever MaxDepth is.
THEOREM WalkBounded == ~SelfCalls => (Spec => []WalkIsBounded)
<1>1. Init => ChainInv
  <2> SUFFICES ASSUME Init PROVE Acyclic /\ FramesChain
    BY DEF ChainInv
  <2>1. \A f \in Funcs : Callees(f) = {} BY DEF Init, Callees
  <2>2. ClosedUnderCalls({}) BY DEF ClosedUnderCalls
  <2>3. Acyclic BY <2>1, <2>2 DEF Acyclic, CalledFrom
  <2>4. Len(stack) = 0 BY DEF Init
  <2> QED BY <2>3, <2>4 DEF FramesChain
<1>2. Inv /\ ChainInv /\ ~SelfCalls => WalkIsBounded
  <2> SUFFICES ASSUME TypeOK, Acyclic, FramesChain PROVE WalkIsBounded
    BY DEF Inv, ChainInv
  <2> DEFINE n == Len(stack)
             F == [k \in 1..n |-> stack[k].fn]
  <2>1. stack \in Seq(Frame) /\ n \in Nat BY DEF TypeOK
  <2>2. \A k \in 1..n : stack[k].fn \in Funcs
    <3> SUFFICES ASSUME NEW k \in 1..n PROVE stack[k].fn \in Funcs
      OBVIOUS
    <3>1. stack[k] \in Frame BY <2>1, ElementOfSeq
    <3> QED BY <3>1 DEF Frame
  <2>3. ASSUME NEW k \in 1..n, NEW j \in 1..n, stack[k].fn = stack[j].fn PROVE k = j
    <3>1. ~(k < j) /\ ~(j < k) BY <2>2, <2>3 DEF FramesChain, Acyclic
    <3> QED BY <3>1, <2>1
  <2> HIDE DEF n
  <2>4. F \in Injection(1..n, Funcs) BY <2>2, <2>3 DEF Injection, IsInjective
  <2>5. Cardinality(1..n) <= Cardinality(Funcs) BY <2>4, FuncsFinite, FS_Injection
  <2>6. Cardinality(1..n) = n
    <3>1. 1 \in Int /\ n \in Int BY <2>1
    <3>2. Cardinality(1..n) = IF 1 > n THEN 0 ELSE n - 1 + 1 BY ONLY <3>1, FS_Interval
    <3> QED BY <2>1, <3>2
  <2> QED BY <2>5, <2>6 DEF WalkIsBounded, n
<1>3. SUFFICES ASSUME ~SelfCalls PROVE Spec => []WalkIsBounded
  OBVIOUS
<1>4. Inv /\ ChainInv => WalkIsBounded BY <1>2, <1>3
<1> QED BY <1>1, <1>4, ChainStep, Invariance, PTL DEF Spec
=============================================================================
