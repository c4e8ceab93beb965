------------------------ MODULE WgslParserHeld_proofs ------------------------
(***************************************************************************)
(* Proofs about WgslParser: what the functions on the stack hold.          *)
(*                                                                         *)
(* Behind the item at which a function uses the decorations of its         *)
(* declaration, the owner of the decorations holds none (UsedOK); and the  *)
(* functions that register a construct hold names only (NamesOK).  Both    *)
(* follow from what a step can do to the top of the stack while it is one  *)
(* of these functions (PlainStep).  With the limit on the depth of         *)
(* const_expr() (DepthOK) they give the type invariant.                    *)
(***************************************************************************)
EXTENDS WgslParserResults_proofs

-----------------------------------------------------------------------------
(* What a step does when one of these functions is at the top *)

\* All frames are as before; there may be one more.
Rests == Len(stack') >= Len(stack) /\ \A i \in 1..Len(stack) : stack'[i] = stack[i]

\* The function returns: that it has matched, only at its end and without an error.
Leaves == Len(stack') = Len(stack) - 1 /\ (result' = "matched" => AtEnd /\ ~Top.bad)

\* The function goes on at the next item.
Advances ==
  /\ Running /\ Len(stack') = Len(stack)
  /\ Top.at \in DOMAIN Function.items
  /\ stack'[Len(stack)].at = Top.at + 1
  /\ Top.bad => stack'[Len(stack)].bad \/ This.do = "takeaccess"
  /\ \/ stack'[Len(stack)].held \in {Top.held, <<>>}
     \/ This.do = "name" /\ stack'[Len(stack)].held \in Seq(Identifiers)
     \/ /\ This.do = "call" /\ This.matched = "keep" /\ result = "matched"
        /\ stack'[Len(stack)].held = value
     \/ This.do = "takeaccess"
  /\ This.do = "cast" => stack'[Owner].held = <<>>
  /\ This.do = "consumed" => Top.held = <<>>
  /\ This.do = "call" => result # "" /\ This[result] \in {"next", "keep", "note"}

\* function_decl() goes on behind its header, with the error noted.
Skips ==
  /\ Len(stack') = Len(stack) /\ Top.p = "function_decl"
  /\ stack'[Len(stack)].bad /\ stack'[Len(stack)].held = Top.held

PlainMove == Rests \/ Leaves \/ Advances \/ Skips

LEMMA PlainFacts ==
  ASSUME StackInv, Running \/ scan # <<>>, Top.p \in Plain
  PROVE  /\ Function = Functions[Top.p] /\ Function.form = "do" /\ PlainOK(Top.p, Function)
         /\ \A form : In(form) => form = "do"
<1>1. Function = Functions[Top.p]
  BY RunningFacts
<1>2. PlainOK(Top.p, Function)
  BY <1>1, PlainItems
<1> QED BY <1>1, <1>2 DEF PlainOK, In

\* An item of such a function.
LEMMA PlainItemFacts ==
  ASSUME StackInv, NEW do, At(do), Top.p \in Plain
  PROVE  /\ Running /\ In("do") /\ result = "" /\ This.do = do /\ Top.at \in DOMAIN Function.items
         /\ PlainItem(Top.p, Top.at, This) /\ ItemOK(Top.p, Top.at, This)
<1>1. /\ Running /\ In("do") /\ result = "" /\ This.do = do /\ ItemOK(Top.p, Top.at, This)
      /\ Top.at <= Len(Function.items)
  BY ItemFacts DEF At
<1>2. PlainOK(Top.p, Function)
  BY <1>1, PlainFacts
<1>3. Top.at \in DOMAIN Function.items
  <2>1. \A a, n \in Nat : a # 0 /\ a <= n => a \in 1..n
    OBVIOUS
  <2>2. Top.at \in Nat /\ Top.at # 0
    BY <1>1, RunningFacts
  <2> QED BY <1>1, <1>2, <2>1, <2>2 DEF PlainOK
<1> QED BY <1>1, <1>2, <1>3 DEF PlainOK, This

\* The stack when only the top frame is changed.
LEMMA TopChanged ==
  ASSUME StackInv, Running \/ scan # <<>>, NEW g \in Frames, stack' = WithTop(g)
  PROVE  /\ Len(stack') = Len(stack) /\ stack'[Len(stack)] = g
         /\ \A i \in 1..(Len(stack) - 1) : stack'[i] = stack[i]
<1>1. stack \in Seq(Frames) /\ Len(stack) \in Nat /\ Len(stack) > 0 /\ Depth = Len(stack)
  BY RunningFacts DEF StackInv, StackOK, Chain
<1>2. stack' = [stack EXCEPT ![Len(stack)] = g]
  BY <1>1 DEF WithTop
<1>3. Len(stack) \in 1..Len(stack) /\ stack \in [1..Len(stack) -> Frames]
  BY <1>1, LenProperties
<1>4. Len(stack') = Len(stack)
  BY <1>1, <1>2, <1>3, ExceptSeq
<1>5. stack'[Len(stack)] = g /\ \A i \in 1..(Len(stack) - 1) : stack'[i] = stack[i]
  BY <1>1, <1>2, <1>3
<1> QED BY <1>4, <1>5

LEMMA PastTop ==
  ASSUME StackInv, Running, stack' = Past
  PROVE  /\ Len(stack') = Len(stack) /\ stack'[Len(stack)].at = Top.at + 1
         /\ stack'[Len(stack)].bad = Top.bad /\ stack'[Len(stack)].held = Top.held
<1> DEFINE g == [Top EXCEPT !.at = Top.at + 1]
<1>1. Top \in Frames /\ Top.at \in Nat
  BY RunningFacts
<1>2. g \in Frames /\ g.at = Top.at + 1 /\ g.bad = Top.bad /\ g.held = Top.held
  BY <1>1, NextItem, FrameAt
<1>3. stack' = WithTop(g)
  BY DEF Past, Goto
<1> HIDE DEF g
<1> QED BY <1>2, <1>3, TopChanged

\* A function is called.
LEMMA CallRests ==
  ASSUME StackInv, NEW q, stack' = Calling(q)
  PROVE  Rests
<1> DEFINE f == Frame(q)
           S == Frames \cup {f}
<1>1. stack \in Seq(S) /\ f \in S /\ Len(stack) \in Nat
  <2>1. stack \in [1..Len(stack) -> Frames] /\ Len(stack) \in Nat
    BY LenProperties DEF StackInv, StackOK, Chain
  <2>2. stack \in [1..Len(stack) -> S]
    BY <2>1
  <2> QED BY <2>1, <2>2, SeqDef
<1> HIDE DEF f, S
<1>2. stack' = Append(stack, f)
  BY DEF Calling, f
<1>3. Len(stack') = Len(stack) + 1 /\ \A i \in 1..Len(stack) : stack'[i] = stack[i]
  BY <1>1, <1>2, AppendProperties
<1> QED BY <1>1, <1>3 DEF Rests

LEMMA ReturnLeaves ==
  ASSUME StackInv, Running \/ scan # <<>>, stack' = Front(stack), result' = "matched" => AtEnd /\ ~Top.bad
  PROVE  Leaves
<1>1. Chain(stack) /\ Len(stack) > 0
  BY RunningFacts DEF StackInv, StackOK
<1> QED BY <1>1, ChainReturn DEF Leaves

LEMMA ReportLeaves ==
  ASSUME StackInv, Running, Report
  PROVE  Leaves
BY ReturnLeaves DEF Report, Return

-----------------------------------------------------------------------------
(* Items *)

\* A step goes on at the next item and changes nothing else.
LEMMA PastAdvances ==
  ASSUME StackInv, Running, stack' = Past, Top.at \in DOMAIN Function.items, This.do # "cast",
         This.do = "consumed" => Top.held = <<>>,
         This.do = "call" => result # "" /\ This[result] \in {"next", "keep", "note"}
  PROVE  Advances
BY PastTop DEF Advances

LEMMA PlainOutcome ==
  ASSUME StackInv, NEW do, At(do), Top.p \in Plain, do \notin {"call", "cast", "consumed"},
         NEW o \in {"next", "call", "sync", "nomatch", "lost"}, Outcome(o)
  PROVE  PlainMove
<1>1. Running /\ This.do = do /\ Top.at \in DOMAIN Function.items
  BY PlainItemFacts
<1>2. CASE o \in {"next", "sync"}
  <2>1. stack' = Past
    BY <1>2 DEF Outcome, Step
  <2> QED BY <1>1, <2>1, PastAdvances DEF PlainMove
<1>3. CASE o = "call"
  <2>1. stack' = Calling(This.of)
    BY <1>3 DEF Outcome, Step
  <2> QED BY <2>1, CallRests DEF PlainMove
<1>4. CASE o \in {"nomatch", "lost"}
  <2>1. stack' = Front(stack) /\ result' \in {"nomatch", "errored"}
    BY <1>4 DEF Outcome, Return
  <2> QED BY <1>1, <2>1, ReturnLeaves DEF PlainMove
<1> QED BY <1>2, <1>3, <1>4

\* cast_decorations(): none is left to the owner.
LEMMA PlainCast ==
  ASSUME StackInv, CastItem, Top.p \in Plain
  PROVE  PlainMove
<1>0. PICK do \in {"cast"} : At(do)
  BY DEF CastItem
<1>1. Running /\ This.do = "cast" /\ Top.at \in DOMAIN Function.items
  BY <1>0, PlainItemFacts
<1> DEFINE n == Len(stack)
           f == [stack[Owner] EXCEPT !.held = <<>>]
           cast == [stack EXCEPT ![Owner].held = <<>>]
<1>2. Owner \in 1..n /\ Chain(stack) /\ stack[Owner] \in Frames /\ n \in 1..n /\ Top = stack[n] /\ Depth = n
  <2>1. n \in 1..n /\ Top = stack[n] /\ Depth = n
    BY <1>1, RunningFacts
  <2>2. Owner \in 1..n /\ Chain(stack)
    BY <1>1, OwnerFacts DEF StackInv, StackOK
  <2>3. stack[Owner] \in Frames
    BY <2>2, ChainFacts
  <2> QED BY <2>1, <2>2, <2>3
<1>3. f \in Frames /\ f.p = stack[Owner].p /\ f.at = stack[Owner].at /\ f.bad = stack[Owner].bad /\ f.held = <<>>
  <2>1. f \in Frames
    BY <1>2, EmptySeq DEF Frames
  <2> QED BY <1>2, <2>1 DEF Frames
<1>4. cast = Put(stack, Owner, f)
  BY <1>2 DEF Put
<1> HIDE DEF f
<1>5. /\ Chain(cast) /\ Len(cast) = n /\ cast[Owner] = f
      /\ \A j \in 1..n : j # Owner => cast[j] = stack[j]
  <2> HIDE DEF cast
  <2> QED BY <1>2, <1>3, <1>4, Retouched
<1>6. /\ cast[n].at = Top.at /\ cast[n].bad = Top.bad /\ cast[n].held \in {Top.held, <<>>}
      /\ cast[n] \in Frames /\ n > 0 /\ Top.at + 1 \in Nat \ {0}
  <2>1. n > 0 /\ Top.at \in Nat
    BY <1>1, RunningFacts
  <2>2. cast[n] \in Frames
    BY <1>2, <1>5, ChainFacts
  <2> QED BY <1>2, <1>3, <1>5, <2>1, <2>2, NextItem
<1>7. \/ \E b \in BOOLEAN : stack' = [cast EXCEPT ![n] = [cast[n] EXCEPT !.at = Top.at + 1, !.bad = @ \/ b]]
      \/ stack' = Front(cast) /\ result' = "errored"
  <2>1. CASE stack' = [cast EXCEPT ![Depth].at = @ + 1]
    <3> HIDE DEF cast
    <3>1. [cast[n] EXCEPT !.at = @ + 1] = [cast[n] EXCEPT !.at = Top.at + 1, !.bad = @ \/ FALSE]
      BY <1>6 DEF Frames
    <3>2. stack' = [cast EXCEPT ![n] = [cast[n] EXCEPT !.at = @ + 1]]
      BY <1>2, <2>1
    <3> QED BY <3>1, <3>2
  <2>2. CASE stack' = [cast EXCEPT ![Depth].at = @ + 1, ![Depth].bad = TRUE]
    <3> HIDE DEF cast
    <3>1. [cast[n] EXCEPT !.at = @ + 1, !.bad = TRUE] = [cast[n] EXCEPT !.at = Top.at + 1, !.bad = @ \/ TRUE]
      BY <1>6 DEF Frames
    <3>2. stack' = [cast EXCEPT ![n] = [cast[n] EXCEPT !.at = @ + 1, !.bad = TRUE]]
      BY <1>2, <1>5, <2>2
    <3> QED BY <3>1, <3>2
  <2>3. CASE stack' = Front(cast) /\ result' = "errored"
    BY <2>3
  <2> QED BY <2>1, <2>2, <2>3 DEF CastItem
<1>8. ASSUME stack' = Front(cast), result' = "errored"
      PROVE  Leaves
  <2> HIDE DEF cast
  <2>1. Len(Front(cast)) = Len(cast) - 1
    BY <1>5, <1>6, ChainReturn
  <2> QED BY <1>5, <1>8, <2>1 DEF Leaves
<1>9. ASSUME NEW b \in BOOLEAN,
             stack' = [cast EXCEPT ![n] = [cast[n] EXCEPT !.at = Top.at + 1, !.bad = @ \/ b]]
      PROVE  Advances
  <2> HIDE DEF cast
  <2> DEFINE g == [cast[n] EXCEPT !.at = Top.at + 1, !.bad = @ \/ b]
  <2>1. g \in Frames
    BY <1>6 DEF Frames
  <2>2. g.at = Top.at + 1 /\ (Top.bad => g.bad) /\ g.held = cast[n].held
    BY <1>6, <2>1 DEF Frames
  <2>3. stack' = [cast EXCEPT ![n] = g]
    BY <1>9
  <2> HIDE DEF g
  <2>4. cast \in Seq(Frames) /\ cast \in [1..n -> Frames]
    BY <1>5, ChainFacts DEF Chain
  <2>5. Len(stack') = n /\ stack'[n] = g /\ \A j \in 1..n : j # n => stack'[j] = cast[j]
    BY <1>2, <1>5, <2>1, <2>3, <2>4, ExceptSeq
  <2>6. stack'[Owner].held = <<>>
    <3>1. CASE Owner = n
      BY <1>3, <1>5, <2>2, <2>5, <3>1
    <3>2. CASE Owner # n
      BY <1>2, <1>3, <1>5, <2>5, <3>2
    <3> QED BY <3>1, <3>2
  <2> QED BY <1>1, <1>6, <2>2, <2>5, <2>6 DEF Advances
<1> QED BY <1>7, <1>8, <1>9 DEF PlainMove

LEMMA PlainItemStep ==
  ASSUME StackInv, ItemStep, Top.p \in Plain
  PROVE  PlainMove
<1>0. \A do : At(do) => do \in {"match", "expect", "name", "then", "call", "cast", "takeaccess",
                                "consumed", "oneaccess", "register"}
  BY PlainItemFacts DEF PlainItem
<1>1. CASE TokenHit
  <2>1. PICK do \in DOMAIN OnHit : At(do)
    BY <1>1 DEF TokenHit, AtToken
  <2>2. do = This.do /\ do \in {"match", "expect", "then"}
    BY <1>0, <1>1, <2>1, PlainItemFacts DEF TokenHit, OnHit
  <2>3. OnHit[do] \in {"next", "sync", "call"}
    <3>1. OnHit["match"] = "next" /\ OnHit["expect"] = "sync" /\ OnHit["then"] = "call"
      BY DEF OnHit
    <3> QED BY <2>2, <3>1
  <2> QED BY <1>1, <2>1, <2>2, <2>3, PlainOutcome DEF TokenHit
<1>2. CASE TokenMiss
  <2>1. PICK do \in DOMAIN OnHit : At(do)
    BY <1>2 DEF TokenMiss, AtToken
  <2>2. do = This.do /\ do \in {"match", "expect", "name", "then"}
    BY <1>0, <2>1, PlainItemFacts DEF OnHit
  <2>3. OnMiss[do] \in {"next", "nomatch", "lost"}
    <3>1. /\ OnMiss["match"] = "nomatch" /\ OnMiss["expect"] = "lost" /\ OnMiss["name"] = "lost"
          /\ OnMiss["then"] = "next"
      BY DEF OnMiss
    <3> QED BY <2>2, <3>1
  <2> QED BY <1>2, <2>1, <2>2, <2>3, PlainOutcome DEF TokenMiss
<1>3. CASE NameHit
  <2>0. PICK do \in {"name"} : At(do)
    BY <1>3 DEF NameHit
  <2>1. This.do = "name" /\ Running /\ Top.at \in DOMAIN Function.items /\ This.toks = Identifiers
    BY <2>0, PlainItemFacts DEF ItemOK
  <2>2. PICK k \in This.toks : Step(WithTop([Top EXCEPT !.at = @ + 1, !.held = <<k>>]))
    BY <1>3 DEF NameHit
  <2>3. \A s : s = Append(<<>>, k) => s \in Seq(Identifiers) /\ s \in Seq(Marks)
    <3>1. k \in Identifiers /\ k \in Marks
      BY <2>1 DEF Marks
    <3>2. <<>> \in Seq(Identifiers) /\ <<>> \in Seq(Marks)
      BY EmptySeq
    <3>3. Append(<<>>, k) \in Seq(Identifiers)
      BY <3>1, <3>2, AppendProperties
    <3>4. Append(<<>>, k) \in Seq(Marks)
      BY <3>1, <3>2, AppendProperties
    <3> QED BY <3>3, <3>4
  <2>4. <<k>> = Append(<<>>, k)
    OBVIOUS
  <2> DEFINE held == <<k>>
             g == [Top EXCEPT !.at = Top.at + 1, !.held = held]
  <2>10. held \in Seq(Identifiers) /\ held \in Seq(Marks)
    BY <2>3, <2>4
  <2> HIDE DEF held
  <2>5. Top \in Frames /\ Top.at \in Nat /\ Top.at + 1 \in Nat \ {0}
    BY <2>1, RunningFacts, NextItem
  <2>6. g \in Frames
    BY <2>10, <2>5 DEF Frames
  <2>7. g.at = Top.at + 1 /\ g.bad = Top.bad /\ g.held = held
    BY <2>5, <2>6 DEF Frames
  <2>8. stack' = WithTop(g)
    BY <2>2 DEF Step, held
  <2> HIDE DEF g
  <2>9. Len(stack') = Len(stack) /\ stack'[Len(stack)] = g
    BY <2>1, <2>6, <2>8, TopChanged
  <2> QED BY <2>1, <2>10, <2>7, <2>9 DEF Advances, PlainMove
<1>4. CASE CallItem
  BY <1>4, CallRests DEF CallItem, Step, PlainMove
<1>5. CASE CastItem
  BY <1>5, PlainCast
<1>6. CASE TakeAccess
  <2>0. PICK do \in {"takeaccess"} : At(do)
    BY <1>6 DEF TakeAccess
  <2>1. This.do = "takeaccess" /\ Running /\ Top.at \in DOMAIN Function.items
    BY <2>0, PlainItemFacts
  <2> DEFINE rest == Others(Top.held, "access")
             b == Len(Top.held) > Len(rest) + 1
             g == [Top EXCEPT !.at = Top.at + 1, !.bad = b, !.held = rest]
  <2>2. stack' = WithTop(g)
    BY <1>6 DEF TakeAccess, Step
  <2>3. Top \in Frames /\ Top.held \in Seq(Marks) /\ Top.at \in Nat /\ Top.at + 1 \in Nat \ {0}
    BY <2>1, RunningFacts, NextItem
  <2>4. rest \in Seq(Marks)
    BY <2>3, OthersType
  <2> HIDE DEF rest
  <2>8. b \in BOOLEAN
    <3>1. Len(Top.held) \in Nat /\ Len(rest) \in Nat
      BY <2>3, <2>4, LenProperties
    <3>2. \A m, n \in Nat : (m > n + 1) \in BOOLEAN
      OBVIOUS
    <3> QED BY <3>1, <3>2
  <2> HIDE DEF b
  <2>5. g \in Frames
    BY <2>3, <2>4, <2>8 DEF Frames
  <2>6. g.at = Top.at + 1
    BY <2>3, <2>5 DEF Frames
  <2> HIDE DEF g
  <2>7. Len(stack') = Len(stack) /\ stack'[Len(stack)] = g
    BY <2>1, <2>2, <2>5, TopChanged
  <2> QED BY <2>1, <2>6, <2>7 DEF Advances, PlainMove
<1>7. CASE Consumed
  <2>0. PICK do \in {"consumed", "oneaccess"} : At(do)
    BY <1>7 DEF Consumed
  <2>1. This.do = do /\ Running /\ Top.at \in DOMAIN Function.items
    BY <2>0, PlainItemFacts
  <2>2. CASE Report
    BY <2>1, <2>2, ReportLeaves DEF PlainMove
  <2>3. CASE ~Report
    <3>1. stack' = Past /\ (do = "consumed" => Top.held = <<>>)
      BY <1>7, <2>1, <2>3 DEF Consumed, Step
    <3> QED BY <2>0, <2>1, <3>1, PastAdvances DEF PlainMove
  <2> QED BY <2>2, <2>3
<1>8. CASE Register
  <2>0. PICK do \in {"register"} : At(do)
    BY <1>8 DEF Register
  <2>1. This.do = do /\ Running /\ Top.at \in DOMAIN Function.items /\ stack' = Past
    BY <1>8, <2>0, PlainItemFacts DEF Register, Step
  <2> QED BY <2>0, <2>1, PastAdvances DEF PlainMove
<1>9. CASE Finish
  <2>1. Running /\ AtEnd /\ stack' = Front(stack) /\ result' = (IF Top.bad THEN "errored" ELSE "matched")
    BY <1>9 DEF Finish, In, Return
  <2>2. result' = "matched" => ~Top.bad
    BY <2>1
  <2> QED BY <2>1, <2>2, ReturnLeaves DEF PlainMove
<1> DEFINE Never == {"typename", "decorate", "match2", "refuse2", "fail", "stopifbad", "insync",
                     "unused", "depth", "reject"}
<1>10. \A do \in Never : ~At(do)
  BY <1>0
<1>11. ~TypeNameHit /\ ~TypeNameMiss /\ ~DecorateHit /\ ~DecorateMiss /\ ~TwoHit /\ ~TwoMiss
  <2>1. ~At("typename") /\ ~At("decorate") /\ ~At("match2") /\ ~At("refuse2")
    BY <1>10
  <2> QED BY <2>1 DEF TypeNameHit, TypeNameMiss, DecorateHit, DecorateMiss, TwoHit, TwoMiss
<1>12. ~FailItem /\ ~Stop /\ ~GoOn /\ ~TooDeep /\ ~Reject
  <2>1. /\ ~At("fail") /\ ~At("stopifbad") /\ ~At("insync") /\ ~At("unused") /\ ~At("depth")
        /\ ~At("reject")
    BY <1>10
  <2> QED BY <2>1 DEF FailItem, Stop, GoOn, TooDeep, Reject
<1> QED BY <1>1, <1>2, <1>3, <1>4, <1>5, <1>6, <1>7, <1>8, <1>9, <1>11, <1>12 DEF ItemStep

-----------------------------------------------------------------------------
(* Results *)

\* A function that waits stands at an item that calls another one.
LEMMA WaitingItem ==
  ASSUME StackInv, NEW o, Back2(o), Top.p \in Plain
  PROVE  /\ Running /\ result \in {"matched", "nomatch", "errored"}
         /\ Top.at \in DOMAIN Function.items /\ This.do \in Jobs
         /\ PlainItem(Top.p, Top.at, This)
         /\ o = IF This.do = "call" THEN This[result]
                ELSE IF result = "matched" THEN IF This.do = "each" THEN "stay" ELSE "next"
                ELSE IF result = "nomatch" THEN "report" ELSE "errored"
<1>1. Running /\ Function.form = "do" /\ Function = Functions[Top.p] /\ result # "" /\ Policy = o
  BY PolicyFacts DEF Back2
<1>2. result \in {"matched", "nomatch", "errored"} /\ Waits(stack)
  BY <1>1 DEF StackInv, StackOK, Results
<1>3. PICK q : Calls(Top.p, Top.at, q)
  BY <1>1, <1>2, RunningFacts DEF Waits
<1>4. Top.at <= Len(Function.items) /\ This.do \in Jobs
  BY <1>1, <1>3 DEF Calls, This
<1>5. PlainOK(Top.p, Function)
  BY <1>1, PlainItems
<1>6. Top.at \in DOMAIN Function.items
  <2>1. \A a, n \in Nat : a # 0 /\ a <= n => a \in 1..n
    OBVIOUS
  <2>2. Top.at \in Nat /\ Top.at # 0
    BY <1>1, RunningFacts
  <2> QED BY <1>4, <1>5, <2>1, <2>2 DEF PlainOK
<1>7. PlainItem(Top.p, Top.at, This)
  BY <1>5, <1>6 DEF PlainOK, This
<1>8. o = IF This.do = "call" THEN This[result]
          ELSE [matched |-> IF This.do = "each" THEN "stay" ELSE "next",
                nomatch |-> "report", errored |-> "errored"][result]
  BY <1>1 DEF Policy
<1>9. CASE result = "matched"
  BY <1>1, <1>2, <1>4, <1>6, <1>7, <1>8, <1>9
<1>10. CASE result = "nomatch"
  BY <1>1, <1>2, <1>4, <1>6, <1>7, <1>8, <1>10
<1>11. CASE result = "errored"
  BY <1>1, <1>2, <1>4, <1>6, <1>7, <1>8, <1>11
<1> QED BY <1>2, <1>9, <1>10, <1>11

\* What it makes of the result.
LEMMA PlainPolicy ==
  ASSUME StackInv, NEW o, Back2(o), Top.p \in Plain
  PROVE  /\ Running /\ result # "" /\ Top.at \in DOMAIN Function.items
         /\ o \in {"next", "keep", "nomatch", "report", "errored", "note", "body"}
         /\ This.do \notin {"cast", "consumed", "name", "takeaccess"}
         /\ This.do = "call" => This[result] = o
         /\ o = "keep" => This.do = "call" /\ result = "matched" /\ This.matched = "keep"
<1>1. /\ Running /\ result \in {"matched", "nomatch", "errored"}
      /\ Top.at \in DOMAIN Function.items /\ This.do \in Jobs /\ PlainItem(Top.p, Top.at, This)
      /\ o = IF This.do = "call" THEN This[result]
             ELSE IF result = "matched" THEN IF This.do = "each" THEN "stay" ELSE "next"
             ELSE IF result = "nomatch" THEN "report" ELSE "errored"
  BY WaitingItem
<1>2. This.do \in {"call", "then"}
  BY <1>1 DEF PlainItem, Jobs
<1>3. CASE This.do = "then"
  BY <1>1, <1>3
<1>4. CASE This.do = "call"
  <2>1. /\ This.matched \in {"next", "keep"} /\ This.nomatch \in {"next", "nomatch", "report"}
        /\ This.errored \in {"errored", "note", "body"}
    BY <1>1, <1>4 DEF PlainItem
  <2>2. o = This[result]
    BY <1>1, <1>4
  <2>3. /\ result = "matched" => This[result] = This.matched
        /\ result = "nomatch" => This[result] = This.nomatch
        /\ result = "errored" => This[result] = This.errored
    OBVIOUS
  <2> QED BY <1>1, <1>4, <2>1, <2>2, <2>3
<1> QED BY <1>2, <1>3, <1>4

LEMMA SameRests ==
  ASSUME StackInv, UNCHANGED stack
  PROVE  Rests
<1>1. Len(stack) \in Nat
  BY ChainFacts DEF StackInv, StackOK
<1> QED BY <1>1 DEF Rests

LEMMA PlainDone ==
  ASSUME StackInv, ItemDone, Top.p \in Plain
  PROVE  PlainMove
<1>0. PICK o \in {"next", "stay", "first", "keep", "note", "outer", "matched", "nomatch", "errored"} :
        /\ Back2(o)
        /\ o = "next" => stack' = Past
        /\ o = "keep" => stack' = WithTop([Top EXCEPT !.at = @ + 1, !.held = value])
        /\ o = "note" => stack' = Noted(Top.at + 1)
        /\ o \in {"matched", "nomatch", "errored"} => stack' = Front(stack) /\ result' = o
  BY DEF ItemDone, Step, Return
<1>1. /\ Running /\ result # "" /\ Top.at \in DOMAIN Function.items
      /\ o \in {"next", "keep", "nomatch", "errored", "note"}
      /\ This.do \notin {"cast", "consumed", "name", "takeaccess"}
      /\ This.do = "call" => This[result] = o
      /\ o = "keep" => This.do = "call" /\ result = "matched" /\ This.matched = "keep"
  BY <1>0, PlainPolicy
<1>2. Top \in Frames /\ Top.at \in Nat /\ Top.at + 1 \in Nat \ {0} /\ Top.bad \in BOOLEAN
  BY <1>1, RunningFacts, NextItem
<1>3. CASE o = "next"
  BY <1>0, <1>1, <1>3, PastAdvances DEF PlainMove
<1>4. CASE o = "keep"
  <2> DEFINE g == [Top EXCEPT !.at = Top.at + 1, !.held = value]
  <2>1. value \in Seq(Marks)
    BY DEF StackInv, StackOK
  <2>2. g \in Frames
    BY <1>2, <2>1 DEF Frames
  <2>3. g.at = Top.at + 1 /\ g.bad = Top.bad /\ g.held = value
    BY <1>2, <2>2 DEF Frames
  <2>4. stack' = WithTop(g)
    BY <1>0, <1>4
  <2> HIDE DEF g
  <2>5. Len(stack') = Len(stack) /\ stack'[Len(stack)] = g
    BY <1>1, <2>2, <2>4, TopChanged
  <2> QED BY <1>1, <1>4, <2>3, <2>5 DEF Advances, PlainMove
<1>5. CASE o = "note"
  <2> DEFINE g == [Top EXCEPT !.at = Top.at + 1, !.bad = TRUE]
  <2>1. g \in Frames
    BY <1>2 DEF Frames
  <2>2. g.at = Top.at + 1 /\ g.bad /\ g.held = Top.held
    BY <1>2, <2>1 DEF Frames
  <2>3. stack' = WithTop(g)
    BY <1>0, <1>5 DEF Noted
  <2> HIDE DEF g
  <2>4. Len(stack') = Len(stack) /\ stack'[Len(stack)] = g
    BY <1>1, <2>1, <2>3, TopChanged
  <2> QED BY <1>1, <1>5, <2>2, <2>4 DEF Advances, PlainMove
<1>6. CASE o \in {"nomatch", "errored"}
  BY <1>0, <1>1, <1>6, ReturnLeaves DEF PlainMove
<1> QED BY <1>1, <1>3, <1>4, <1>5, <1>6

LEMMA PlainReturnStep ==
  ASSUME StackInv, ReturnStep, Top.p \in Plain
  PROVE  PlainMove
<1>1. CASE ItemDone
  BY <1>1, PlainDone
<1>2. CASE ItemFails
  <2>1. Running /\ Report
    BY <1>2, PlainPolicy DEF ItemFails
  <2> QED BY <2>1, ReportLeaves DEF PlainMove
<1>3. CASE ItemSeeks
  BY <1>3, SameRests DEF ItemSeeks, PlainMove
<1>4. ~Back2("endless") /\ ~Back2("skip")
  <2>1. \A o \in {"endless", "skip"} : ~Back2(o)
    <3> SUFFICES ASSUME NEW o \in {"endless", "skip"}, Back2(o) PROVE FALSE
      OBVIOUS
    <3>1. o \in {"next", "keep", "nomatch", "report", "errored", "note", "body"}
      BY PlainPolicy
    <3> QED BY <3>1
  <2> QED BY <2>1
<1>5. ~InUnit
  BY DEF InUnit, Plain
<1>6. \A form : In(form) => form = "do"
  BY PlainFacts DEF In
<1>7. ~In("alt") /\ ~In("many") /\ ~In("while") /\ ~In("list") /\ ~In("sync") /\ ~In("block")
  BY <1>6
<1>8. ~Descend /\ ~AltReturns /\ ~ManyReturns /\ ~WhileRound /\ ~WhileStop /\ ~WhileReturns
  BY <1>7 DEF Descend, AltReturns, ManyReturns, WhileRound, WhileStop, WhileReturns
<1>9. ~SyncReturns /\ ~BlockOpens /\ ~BlockCloses /\ ~NoContinuing /\ ~Skip
  BY <1>4, <1>7 DEF SyncReturns, BlockOpens, BlockCloses, NoContinuing, Skip
<1>10. ~NextDeclaration /\ ~DeclarationDone /\ ~EndOfUnit
  BY <1>5 DEF NextDeclaration, DeclarationDone, EndOfUnit
<1> QED BY <1>1, <1>2, <1>3, <1>8, <1>9, <1>10 DEF ReturnStep

-----------------------------------------------------------------------------
(* sync_to and the lexer *)

\* The function that called sync_to() fails, or goes on behind its header.
LEMMA PlainResume ==
  ASSUME StackInv, scan # <<>>, NEW found \in BOOLEAN, Resume(found), Top.p \in Plain
  PROVE  PlainMove
<1>1. CASE stack' = Front(stack) /\ result' = "errored"
  BY <1>1, ReturnLeaves DEF PlainMove
<1>2. CASE ~(stack' = Front(stack) /\ result' = "errored")
  <2>1. Top.p \in {"function_header", "function_decl"}
    BY <1>2 DEF Resume
  <2>2. Top.p = "function_decl"
    BY <2>1 DEF Plain
  <2>3. stack' = Noted(3)
    BY <1>2, <2>2 DEF Resume
  <2> DEFINE g == [Top EXCEPT !.at = 3, !.bad = TRUE]
  <2>4. Top \in Frames
    BY RunningFacts
  <2>9. 3 \in Nat \ {0} /\ TRUE \in BOOLEAN
    OBVIOUS
  <2>5. g \in Frames
    BY <2>4, <2>9 DEF Frames
  <2>6. g.bad /\ g.held = Top.held
    BY <2>4, <2>5 DEF Frames
  <2>7. stack' = WithTop(g)
    BY <2>3 DEF Noted
  <2> HIDE DEF g
  <2>8. Len(stack') = Len(stack) /\ stack'[Len(stack)] = g
    BY <2>5, <2>7, TopChanged
  <2> QED BY <2>2, <2>6, <2>8 DEF Skips, PlainMove
<1> QED BY <1>1, <1>2

LEMMA PlainStep ==
  ASSUME StackInv, [Next]_vars, Top.p \in Plain
  PROVE  PlainMove
<1>1. CASE Lex \/ UNCHANGED vars
  BY <1>1, SameRests DEF Lex, vars, PlainMove
<1>2. CASE SyncTo
  <2>1. PICK c, q : ScanPast(c, q) \/ ScanStop(c, q)
    BY <1>2 DEF SyncTo
  <2>2. UNCHANGED stack \/ \E found \in BOOLEAN : Resume(found)
    BY <2>1 DEF ScanPast, ScanStop
  <2> QED BY <1>2, <2>2, SameRests, PlainResume DEF SyncTo, PlainMove
<1> QED BY <1>1, <1>2, PlainItemStep, PlainReturnStep DEF Next

-----------------------------------------------------------------------------
(* The owner of the decorations *)

\* The place of the owner, for a function at place i.
OwnerAt(p, i) ==
  IF p \in {"variable_ident_decl", "type_decl"} THEN i ELSE IF p = "struct_member" THEN i - 1 ELSE 2

LEMMA TurnFacts ==
  /\ \A p \in DOMAIN Turn : p \in Plain /\ Turn[p] \in Nat /\ Turn[p] >= 1
  /\ DOMAIN Turn = {"variable_ident_decl", "type_decl", "global_variable_decl", "global_variable",
                    "struct_decl", "function_decl", "struct_member"}
  /\ Turn["global_variable_decl"] = 2
BY DEF Turn, Plain

\* A function that only one function calls has been called by that one.
LEMMA CalledBy ==
  ASSUME NEW s, Chain(s), NEW i \in 2..Len(s), s[i].p \in DOMAIN Caller
  PROVE  i > 2 /\ i - 1 \in 2..Len(s) /\ s[i - 1].p = Caller[s[i].p]
<1>1. Len(s) \in Nat
  BY ChainFacts
<1>2. s[i].p # "expect_global_decl"
  BY DEF Caller
<1>3. i # 2
  BY <1>1, <1>2 DEF Chain
<1>4. PICK j \in 2..(Len(s) - 1) : i = j + 1
  <2>1. \A n \in Nat : \A k \in 2..n : k # 2 => k - 1 \in 2..(n - 1) /\ k = (k - 1) + 1
    OBVIOUS
  <2> QED BY <1>1, <1>3, <2>1
<1>5. j \in 1..Len(s) /\ j # 1 /\ i - 1 = j /\ i > 2 /\ j \in 2..Len(s)
  BY <1>1, <1>4
<1>6. Calls(s[j].p, s[j].at, s[i].p)
  BY <1>4 DEF Chain
<1>7. s[j].p \in DOMAIN Functions /\ s[j].at \in Nat \ {0}
  <2>1. s[j].p \in Programs /\ s[j].at \in Nat /\ s[j].at # 0
    BY <1>5, ChainFacts
  <2>2. s[j].p # "translation_unit"
    BY <1>5 DEF Chain
  <2> QED BY <2>1, <2>2 DEF Programs
<1> QED BY <1>5, <1>6, <1>7, CalleeFacts

\* The functions of a global declaration stand where the first ones are.
LEMMA GlobalsAt ==
  ASSUME NEW s, Chain(s), NEW i \in 2..Len(s)
  PROVE  /\ s[i].p \in {"global_sync", "function_decl"} => i = 3
         /\ s[i].p = "global" => i = 4
         /\ s[i].p \in {"global_variable", "struct"} => i = 5
         /\ s[i].p \in {"global_variable_decl", "struct_decl"} => i = 6
<1>0. /\ \A q \in {"global_sync", "function_decl"} : q \in DOMAIN Caller /\ Caller[q] = "expect_global_decl"
      /\ "global" \in DOMAIN Caller /\ Caller["global"] = "global_sync"
      /\ \A q \in {"global_variable", "struct"} : q \in DOMAIN Caller /\ Caller[q] = "global"
      /\ "global_variable_decl" \in DOMAIN Caller /\ Caller["global_variable_decl"] = "global_variable"
      /\ "struct_decl" \in DOMAIN Caller /\ Caller["struct_decl"] = "struct"
  BY DEF Caller
<1>1. \A k \in 2..Len(s) : s[k].p \in {"global_sync", "function_decl"} => k = 3
  <2> SUFFICES ASSUME NEW k \in 2..Len(s), s[k].p \in {"global_sync", "function_decl"} PROVE k = 3
    OBVIOUS
  <2>1. k - 1 \in 2..Len(s) /\ s[k - 1].p = "expect_global_decl"
    BY <1>0, CalledBy
  <2>2. k - 1 \in 1..Len(s)
    BY <2>1
  <2>3. k - 1 = 2
    BY <2>1, <2>2 DEF Chain
  <2> QED BY <2>3
<1>2. \A k \in 2..Len(s) : s[k].p = "global" => k = 4
  <2> SUFFICES ASSUME NEW k \in 2..Len(s), s[k].p = "global" PROVE k = 4
    OBVIOUS
  <2>1. k - 1 \in 2..Len(s) /\ s[k - 1].p = "global_sync"
    BY <1>0, CalledBy
  <2>2. k - 1 = 3
    BY <1>1, <2>1
  <2> QED BY <2>2
<1>3. \A k \in 2..Len(s) : s[k].p \in {"global_variable", "struct"} => k = 5
  <2> SUFFICES ASSUME NEW k \in 2..Len(s), s[k].p \in {"global_variable", "struct"} PROVE k = 5
    OBVIOUS
  <2>1. k - 1 \in 2..Len(s) /\ s[k - 1].p = "global"
    BY <1>0, CalledBy
  <2>2. k - 1 = 4
    BY <1>2, <2>1
  <2> QED BY <2>2
<1>4. \A k \in 2..Len(s) : s[k].p \in {"global_variable_decl", "struct_decl"} => k = 6
  <2> SUFFICES ASSUME NEW k \in 2..Len(s), s[k].p \in {"global_variable_decl", "struct_decl"} PROVE k = 6
    OBVIOUS
  <2>1. k - 1 \in 2..Len(s) /\ s[k - 1].p \in {"global_variable", "struct"}
    BY <1>0, CalledBy
  <2>2. k - 1 = 5
    BY <1>3, <2>1
  <2> QED BY <2>2
<1> QED BY <1>1, <1>2, <1>3, <1>4

\* Between it and the declaration, no function owns decorations.
LEMMA GlobalsBelow ==
  ASSUME NEW s, Chain(s), NEW i \in 2..Len(s),
         s[i].p \in {"global_variable", "struct", "global_variable_decl", "struct_decl"}
  PROVE  \A k \in 3..i : s[k].p \notin Owners
<1>0. /\ "global" \in DOMAIN Caller /\ Caller["global"] = "global_sync"
      /\ \A q \in {"global_variable", "struct"} : q \in DOMAIN Caller /\ Caller[q] = "global"
      /\ "global_variable_decl" \in DOMAIN Caller /\ Caller["global_variable_decl"] = "global_variable"
      /\ "struct_decl" \in DOMAIN Caller /\ Caller["struct_decl"] = "struct"
  BY DEF Caller
<1>1. ASSUME NEW k \in 2..Len(s), s[k].p \in {"global_variable", "struct"}
      PROVE  k = 5 /\ s[4].p = "global" /\ s[3].p = "global_sync"
  <2>1. k = 5 /\ k - 1 \in 2..Len(s) /\ s[k - 1].p = "global"
    BY <1>0, <1>1, GlobalsAt, CalledBy
  <2>2. k - 1 - 1 \in 2..Len(s) /\ s[k - 1 - 1].p = "global_sync"
    BY <1>0, <2>1, CalledBy
  <2> QED BY <2>1, <2>2
<1>2. CASE s[i].p \in {"global_variable", "struct"}
  <2>1. \A k \in 3..i : k = 3 \/ k = 4 \/ k = i
    BY <1>1, <1>2
  <2> QED BY <1>1, <1>2, <2>1 DEF Owners
<1>3. CASE s[i].p \in {"global_variable_decl", "struct_decl"}
  <2>1. i = 6 /\ i - 1 \in 2..Len(s) /\ s[i - 1].p \in {"global_variable", "struct"}
    BY <1>0, <1>3, GlobalsAt, CalledBy
  <2>2. 5 \in 2..Len(s) /\ s[5].p \in {"global_variable", "struct"}
    BY <2>1
  <2>3. \A k \in 3..i : k = 3 \/ k = 4 \/ k = 5 \/ k = i
    BY <2>1
  <2> QED BY <1>1, <1>3, <2>2, <2>3 DEF Owners
<1> QED BY <1>2, <1>3

\* The owner is below the function, or the function itself.
LEMMA OwnerAtFacts ==
  ASSUME NEW s, Chain(s), NEW i \in 2..Len(s), s[i].p \in DOMAIN Turn
  PROVE  /\ OwnerAt(s[i].p, i) \in 2..i /\ s[OwnerAt(s[i].p, i)].p \in Owners
         /\ s[i].p \notin {"variable_ident_decl", "type_decl"} => OwnerAt(s[i].p, i) < i
<1>1. Len(s) \in Nat
  BY ChainFacts
<1>2. CASE s[i].p \in {"variable_ident_decl", "type_decl"}
  BY <1>1, <1>2 DEF OwnerAt, Owners
<1>3. CASE s[i].p = "struct_member"
  <2>1. "struct_member" \in DOMAIN Caller /\ Caller["struct_member"] = "member"
    BY DEF Caller
  <2>2. i - 1 \in 2..Len(s) /\ s[i - 1].p = "member"
    BY <1>3, <2>1, CalledBy
  <2> QED BY <1>1, <1>3, <2>2 DEF OwnerAt, Owners
<1>4. CASE s[i].p \notin {"variable_ident_decl", "type_decl", "struct_member"}
  <2>1. i \in {3, 5, 6}
    BY <1>4, TurnFacts, GlobalsAt
  <2>2. 2 \in 1..Len(s) /\ 2 \in 2..i /\ 2 < i
    BY <1>1, <2>1
  <2>3. s[2].p = "expect_global_decl"
    BY <2>2 DEF Chain
  <2> QED BY <1>4, <2>2, <2>3 DEF OwnerAt, Owners
<1> QED BY <1>2, <1>3, <1>4

\* It is the one whose decorations the function uses.
LEMMA OwnerIs ==
  ASSUME StackInv, Running, Top.p \in DOMAIN Turn
  PROVE  Owner = OwnerAt(Top.p, Len(stack))
<1> DEFINE n == Len(stack)
           o == OwnerAt(Top.p, n)
<1>1. Chain(stack) /\ n \in Nat /\ n > 1 /\ Top = stack[n]
  BY RunningFacts DEF StackInv, StackOK
<1>2. n \in 2..n
  BY <1>1
<1>3. o \in 2..n /\ stack[o].p \in Owners
  BY <1>1, <1>2, OwnerAtFacts
<1>4. /\ Owner \in 1..n /\ stack[Owner].p \in Owners
      /\ \A i \in 1..n : stack[i].p \in Owners => i <= Owner
  BY OwnerFacts
<1>5. o \in 1..n /\ o <= Owner
  BY <1>1, <1>3, <1>4
<1>6. CASE Top.p \in {"variable_ident_decl", "type_decl"}
  BY <1>1, <1>4, <1>5, <1>6 DEF OwnerAt
<1>7. CASE Top.p = "struct_member"
  <2>1. Owner # n
    BY <1>1, <1>4, <1>7 DEF Owners
  <2>2. o = n - 1
    BY <1>7 DEF OwnerAt
  <2> QED BY <1>1, <1>4, <1>5, <2>1, <2>2
<1>8. CASE Top.p \notin {"variable_ident_decl", "type_decl", "struct_member"}
  <2>1. o = 2
    BY <1>8 DEF OwnerAt
  <2>2. Owner \in 2..n
    BY <1>1, <1>4, <1>5, <2>1
  <2>3. Top.p \in {"global_variable", "struct_decl", "global_variable_decl"} \/ Top.p = "function_decl"
    BY <1>8, TurnFacts
  <2>4. \A k \in 3..n : stack[k].p \notin Owners
    <3>1. CASE Top.p = "function_decl"
      <4>1. n = 3
        BY <1>1, <1>2, <3>1, GlobalsAt
      <4>2. \A k \in 3..n : k = n
        BY <4>1
      <4>3. Top.p \notin Owners
        BY <3>1 DEF Owners
      <4> QED BY <1>1, <4>2, <4>3
    <3>2. CASE Top.p # "function_decl"
      BY <1>1, <1>2, <2>3, <3>2, GlobalsBelow
    <3> QED BY <3>1, <3>2
  <2>5. Owner \notin 3..n
    BY <1>4, <2>4
  <2> QED BY <1>1, <2>1, <2>2, <2>5
<1> QED BY <1>6, <1>7, <1>8

-----------------------------------------------------------------------------
(* What a function that has matched leaves behind *)

\* A function that returns hands on what it holds.
HandsOn ==
  \/ result' # "matched"
  \/ UNCHANGED <<stack, result, value>>
  \/ Running /\ stack' = Front(stack) /\ value' = Top.held

LEMMA HandedOn ==
  /\ \A s : Step(s) => HandsOn
  /\ Running => \A r : Return(r) => HandsOn
  /\ Running /\ Report => HandsOn
  /\ Running => \A o : Outcome(o) => HandsOn
<1>1. \A s : Step(s) => HandsOn
  BY DEF Step, HandsOn
<1>2. Running => \A r : Return(r) => HandsOn
  BY DEF Return, HandsOn
<1>3. Running /\ Report => HandsOn
  BY <1>2 DEF Report
<1>4. Running => \A o : Outcome(o) => HandsOn
  BY <1>1, <1>2, <1>3 DEF Outcome
<1> QED BY <1>1, <1>2, <1>3, <1>4

LEMMA ItemHandsOn ==
  ASSUME StackInv, ItemStep
  PROVE  HandsOn
<1>0. Running
  <2>1. \A do : At(do) => Running
    BY DEF At, In
  <2> QED BY <2>1 DEF ItemStep, TokenHit, TokenMiss, NameHit, TypeNameHit, TypeNameMiss,
       DecorateHit, DecorateMiss, TwoHit, TwoMiss, CallItem, FailItem, CastItem, TakeAccess,
       Consumed, Register, Stop, GoOn, TooDeep, Reject, Finish, AtToken, In
<1>1. CASE TokenHit \/ TokenMiss
  BY <1>0, <1>1, HandedOn DEF TokenHit, TokenMiss
<1>2. CASE NameHit \/ TypeNameHit \/ TypeNameMiss
  BY <1>0, <1>2, HandedOn DEF NameHit, TypeNameHit, TypeNameMiss
<1>3. CASE DecorateHit \/ DecorateMiss
  BY <1>0, <1>3, HandedOn DEF DecorateHit, DecorateMiss
<1>4. CASE TwoHit \/ TwoMiss
  BY <1>0, <1>4, HandedOn DEF TwoHit, TwoMiss
<1>5. CASE CallItem \/ FailItem \/ TakeAccess
  BY <1>0, <1>5, HandedOn DEF CallItem, FailItem, TakeAccess
<1>6. CASE CastItem
  <2>1. result' = "" \/ result' = "errored"
    BY <1>6 DEF CastItem
  <2> QED BY <2>1 DEF HandsOn
<1>7. CASE Consumed \/ Register
  BY <1>0, <1>7, HandedOn DEF Consumed, Register
<1>8. CASE Stop \/ GoOn \/ TooDeep \/ Reject \/ Finish
  BY <1>0, <1>8, HandedOn DEF Stop, GoOn, TooDeep, Reject, Finish
<1> QED BY <1>1, <1>2, <1>3, <1>4, <1>5, <1>6, <1>7, <1>8 DEF ItemStep

LEMMA StepHandsOn ==
  ASSUME StackInv, [Next]_vars
  PROVE  HandsOn
<1>1. CASE Lex \/ UNCHANGED vars
  BY <1>1 DEF Lex, vars, HandsOn
<1>2. CASE SyncTo
  <2>1. PICK c, q : ScanPast(c, q) \/ ScanStop(c, q)
    BY <1>2 DEF SyncTo
  <2>2. UNCHANGED <<stack, result, value>> \/ \E found \in BOOLEAN : Resume(found)
    BY <2>1 DEF ScanPast, ScanStop
  <2>3. result = ""
    BY <1>2 DEF SyncTo, StackInv, StackOK
  <2>4. \A found \in BOOLEAN : Resume(found) => result' = "" \/ result' = "errored"
    BY <2>3 DEF Resume
  <2> QED BY <2>2, <2>4 DEF HandsOn
<1>3. ASSUME ReturnStep
      PROVE  HandsOn
  <2>1. \A form : In(form) => Running
    BY DEF In
  <2>2. \A o : Back2(o) => Running
    BY DEF Back2, In
  <2>3. \A to, take : Seek(to, take) => result' = ""
    BY DEF Seek
  <2>4. \A r : r # "matched" /\ Return(r) => HandsOn
    BY DEF Return, HandsOn
  <2>5. CASE ItemDone
    BY <2>2, <2>5, HandedOn DEF ItemDone
  <2>6. CASE NoContinuing \/ ItemFails \/ Skip
    BY <2>2, <2>6, HandedOn DEF NoContinuing, ItemFails, Skip
  <2>7. CASE ItemSeeks
    <3>1. result' = ""
      BY <2>3, <2>7 DEF ItemSeeks
    <3> QED BY <3>1 DEF HandsOn
  <2>8. CASE Descend \/ AltReturns \/ ManyReturns
    BY <2>1, <2>8, HandedOn DEF Descend, AltReturns, ManyReturns
  <2>9. CASE WhileRound \/ WhileStop \/ WhileReturns
    BY <2>1, <2>9, HandedOn DEF WhileRound, WhileStop, WhileReturns
  <2>10. CASE SyncReturns
    <3>1. CASE Seek(Function.close, TRUE)
      BY <2>3, <3>1 DEF HandsOn
    <3>2. CASE ~Seek(Function.close, TRUE)
      BY <2>1, <2>10, <3>2, HandedOn DEF SyncReturns
    <3> QED BY <3>1, <3>2
  <2>11. CASE BlockOpens \/ BlockCloses
    <3>1. Running
      BY <2>1, <2>11 DEF BlockOpens, BlockCloses
    <3>2. CASE UNCHANGED <<stack, result, value>>
      BY <3>2 DEF HandsOn
    <3>3. CASE ~UNCHANGED <<stack, result, value>>
      BY <2>11, <3>1, <3>3, HandedOn DEF BlockOpens, BlockCloses
    <3> QED BY <3>2, <3>3
  <2>12. CASE NextDeclaration \/ DeclarationDone \/ EndOfUnit
    BY <2>4, <2>12, HandedOn DEF NextDeclaration, DeclarationDone, EndOfUnit
  <2> QED BY <1>3, <2>5, <2>6, <2>7, <2>8, <2>9, <2>10, <2>11, <2>12 DEF ReturnStep
<1> QED BY <1>1, <1>2, <1>3, ItemHandsOn DEF Next

\* The function that has matched is the only one that its caller calls.
LEMMA MatchedCallee ==
  ASSUME StackInv, [Next]_vars, result' = "matched", Len(stack') > 1,
         NEW p \in {"global_variable", "struct"}, stack'[Len(stack')].p = p
  PROVE  \/ UNCHANGED <<stack, result, value>>
         \/ /\ Running /\ stack' = Front(stack) /\ value' = Top.held
            /\ Len(stack') = Len(stack) - 1 /\ Len(stack) > 2
            /\ p = "global_variable" => Top.p = "global_variable_decl"
            /\ p = "struct" => Top.p = "struct_decl"
<1> SUFFICES ASSUME Running, stack' = Front(stack), value' = Top.held
             PROVE  /\ Len(stack') = Len(stack) - 1 /\ Len(stack) > 2
                    /\ p = "global_variable" => Top.p = "global_variable_decl"
                    /\ p = "struct" => Top.p = "struct_decl"
  BY StepHandsOn DEF HandsOn
<1> DEFINE n == Len(stack)
<1>1. Chain(stack) /\ n \in Nat /\ n > 1 /\ Top = stack[n]
  BY RunningFacts DEF StackInv, StackOK
<1>2. Len(stack') = n - 1 /\ \A i \in 1..(n - 1) : stack'[i] = stack[i]
  BY <1>1, ChainReturn
<1>3. n > 2 /\ n - 1 \in 2..(n - 1) /\ n - 1 \in 1..(n - 1) /\ n - 1 \in 1..n /\ n - 1 + 1 = n
  BY <1>1, <1>2
<1>4. stack[n - 1].p = p
  BY <1>2, <1>3
<1>5. Calls(p, stack[n - 1].at, Top.p)
  BY <1>1, <1>3, <1>4 DEF Chain
<1>6. p \in Plain /\ PlainOK(p, Functions[p])
  BY PlainItems DEF Plain
<1>7. stack[n - 1].at \in Nat /\ stack[n - 1].at # 0
  BY <1>1, <1>3, ChainFacts
<1> DEFINE f == Functions[p]
           i == stack[n - 1].at
<1>8. f.form = "do" /\ i <= Len(f.items) /\ f.items[i].do \in Jobs /\ Top.p = f.items[i].of
  BY <1>5, <1>6 DEF Calls, PlainOK
<1>9. i \in DOMAIN f.items
  <2>1. \A a, m \in Nat : a # 0 /\ a <= m => a \in 1..m
    OBVIOUS
  <2> HIDE DEF f, i
  <2>2. i \in Nat /\ i # 0
    BY <1>7 DEF i
  <2> QED BY <1>6, <1>8, <2>1, <2>2 DEF PlainOK, f
<1>10. PlainItem(p, i, f.items[i])
  BY <1>6, <1>9 DEF PlainOK
<1> QED BY <1>2, <1>3, <1>8, <1>10 DEF PlainItem

-----------------------------------------------------------------------------
(* Decorations *)

\* Function f has used the decorations, and its declaration has no error in its header.
Turned(f) == f.p \in DOMAIN Turn /\ f.at > Turn[f.p] /\ ~(f.p = "function_decl" /\ f.bad)

\* Behind the item that uses them, the owner holds no decorations.
UsedOK ==
  /\ \A i \in 2..Len(stack) : Turned(stack[i]) => stack[OwnerAt(stack[i].p, i)].held = <<>>
  /\ result = "matched" /\ Len(stack) > 1 /\ Top.p = "global_variable" => stack[2].held = <<>>

\* Below the top, a function that holds nothing holds nothing then.
LEMMA HeldBelow ==
  ASSUME StackInv, Shape(stack, stack'), NEW j \in 1..(Len(stack) - 1),
         stack[j].p # "decoration_list", stack[j].held = <<>>
  PROVE  stack'[j].held = <<>>
<1>1. HeldStays(stack[j], stack'[j])
  BY DEF Shape
<1> QED BY <1>1 DEF HeldStays

\* Below the top, nothing changes for a function that has used its decorations.
LEMMA UsedBelow ==
  ASSUME StackInv, UsedOK, Shape(stack, stack'), NEW i \in 2..(Len(stack) - 1), Turned(stack'[i])
  PROVE  stack'[OwnerAt(stack'[i].p, i)].held = <<>>
<1> DEFINE n == Len(stack)
<1>1. Chain(stack) /\ n \in Nat
  BY ChainFacts DEF StackInv, StackOK
<1>2. i \in 1..n /\ i \in 1..(n - 1) /\ i \in 2..n /\ i <= Len(stack')
  <2>1. Len(stack') \in Nat /\ Len(stack') >= n - 1
    BY DEF Shape
  <2> QED BY <1>1, <2>1
<1>3. stack'[i].p = stack[i].p /\ stack'[i].at = stack[i].at /\ (stack[i].bad => stack'[i].bad)
  BY <1>2 DEF Shape, HeldStays
<1>4. Turned(stack[i])
  BY <1>3 DEF Turned
<1> DEFINE o == OwnerAt(stack[i].p, i)
<1>5. stack[o].held = <<>>
  BY <1>2, <1>4 DEF UsedOK
<1>6. o \in 2..i /\ stack[o].p \in Owners
  BY <1>1, <1>2, <1>4, OwnerAtFacts DEF Turned
<1> HIDE DEF o
<1>7. o \in 1..(n - 1) /\ stack[o].p # "decoration_list"
  BY <1>1, <1>2, <1>6 DEF Owners
<1>8. stack'[o].held = <<>>
  BY <1>5, <1>7, HeldBelow
<1> QED BY <1>3, <1>8 DEF o

\* The top function goes on at the next item.
LEMMA UsedAtTop ==
  ASSUME StackInv, UsedOK, Shape(stack, stack'), Advances, stack'[Len(stack)].p = Top.p,
         Turned(stack'[Len(stack)])
  PROVE  stack'[OwnerAt(Top.p, Len(stack))].held = <<>>
<1> DEFINE n == Len(stack)
           o == OwnerAt(Top.p, n)
           t == Turn[Top.p]
<1>1. /\ Chain(stack) /\ n \in Nat /\ n > 1 /\ Top = stack[n] /\ Running
      /\ Top.at \in Nat /\ Top.at # 0 /\ Top.bad \in BOOLEAN
  BY RunningFacts DEF StackInv, StackOK, Advances
<1>2. n \in 2..n /\ n \in 1..n
  BY <1>1
<1>3. Top.p \in DOMAIN Turn /\ Top.p \in Plain /\ t \in Nat
  BY TurnFacts DEF Turned
<1>4. stack'[n].at = Top.at + 1
  BY DEF Advances
<1>5. Top.at + 1 > t
  BY <1>4 DEF Turned
<1>6. /\ o \in 2..n /\ stack[o].p \in Owners
      /\ Top.p \notin {"variable_ident_decl", "type_decl"} => o < n
  BY <1>1, <1>2, <1>3, OwnerAtFacts
<1>7. Top.p \in {"variable_ident_decl", "type_decl"} => o = n
  BY DEF OwnerAt
<1>8. Owner = o
  BY <1>1, <1>3, OwnerIs
<1>9. PlainItem(Top.p, Top.at, This)
  <2>1. PlainOK(Top.p, Function)
    BY <1>1, <1>3, PlainFacts
  <2>2. Top.at \in DOMAIN Function.items
    BY DEF Advances
  <2> QED BY <2>1, <2>2 DEF PlainOK, This
<1>13. SUFFICES stack'[o].held = <<>>
  OBVIOUS
<1> HIDE DEF o, t
<1>10. ASSUME stack[o].held = <<>>, o = n => stack'[n].held \in {Top.held, <<>>}
       PROVE  stack'[o].held = <<>>
  <2>1. CASE o = n
    BY <1>1, <1>10, <2>1
  <2>2. CASE o # n
    <3>1. o \in 1..(n - 1) /\ stack[o].p # "decoration_list"
      BY <1>1, <1>6, <2>2 DEF Owners
    <3> QED BY <1>10, <3>1, HeldBelow
  <2> QED BY <2>1, <2>2
<1>11. CASE Top.at = t
  <2>1. \/ This.do = "cast"
        \/ This.do = "consumed" /\ Top.p \in {"variable_ident_decl", "type_decl"}
        \/ /\ This.do = "call" /\ Top.p = "global_variable"
           /\ This.nomatch = "nomatch" /\ This.errored = "errored"
    BY <1>3, <1>9, <1>11 DEF PlainItem, t
  <2>2. CASE This.do = "cast"
    BY <1>8, <2>2 DEF Advances
  <2>3. CASE This.do = "consumed" /\ Top.p \in {"variable_ident_decl", "type_decl"}
    <3>1. Top.held = <<>> /\ stack'[n].held \in {Top.held, <<>>}
      BY <2>3 DEF Advances
    <3> QED BY <1>7, <2>3, <3>1 DEF o
  <2>4. CASE /\ This.do = "call" /\ Top.p = "global_variable"
             /\ This.nomatch = "nomatch" /\ This.errored = "errored"
    <3>1. result # "" /\ This[result] \in {"next", "keep", "note"} /\ result \in Results
      BY <2>4 DEF Advances, StackInv, StackOK
    <3>2. result # "nomatch" /\ result # "errored"
      BY <2>4, <3>1
    <3>3. result = "matched"
      BY <3>1, <3>2 DEF Results
    <3>4. o = 2
      BY <2>4 DEF o, OwnerAt
    <3>5. stack[o].held = <<>>
      BY <1>1, <2>4, <3>3, <3>4 DEF UsedOK
    <3>6. o # n
      BY <1>1, <1>6, <2>4
    <3> QED BY <1>10, <3>5, <3>6
  <2> QED BY <2>1, <2>2, <2>3, <2>4
<1>12. CASE Top.at # t
  <2>1. Top.at > t /\ Top.at >= t
    BY <1>1, <1>3, <1>5, <1>12
  <2>2. This.do \notin {"name", "takeaccess"} /\ (This.do = "call" => This.matched = "next")
    BY <1>3, <1>9, <2>1 DEF PlainItem, t
  <2>3. stack'[n].held \in {Top.held, <<>>}
    BY <2>2 DEF Advances
  <2>4. Top.p = "function_decl" => ~Top.bad
    BY <2>2 DEF Advances, Turned
  <2>5. Turned(Top)
    BY <1>3, <2>1, <2>4 DEF Turned, t
  <2>6. stack[o].held = <<>>
    BY <1>1, <1>2, <2>5 DEF UsedOK, o
  <2> QED BY <1>10, <2>3, <2>6
<1> QED BY <1>11, <1>12

LEMMA UsedStep ==
  ASSUME StackInv, UsedOK, [Next]_vars
  PROVE  UsedOK'
<1> DEFINE n == Len(stack)
           m == Len(stack')
<1>1. StackInv' /\ Shape(stack, stack')
  BY EveryStep DEF StackStep
<1>2. Chain(stack) /\ n \in Nat /\ Chain(stack') /\ m \in Nat /\ m >= n - 1 /\ m <= n + 1
  BY <1>1, ChainFacts DEF StackInv, StackOK, Shape
<1>3. Top = stack[n]
  BY DEF Top, Depth
<1>4. ASSUME NEW i \in 2..m, Turned(stack'[i])
      PROVE  stack'[OwnerAt(stack'[i].p, i)].held = <<>>
  <2>1. CASE i < n
    <3>1. i \in 2..(n - 1)
      BY <1>2, <2>1
    <3> QED BY <1>1, <1>4, <3>1, UsedBelow
  <2>2. CASE i = n
    <3>1. n \in 1..n /\ i <= m /\ n > 1
      BY <1>2, <2>2
    <3>2. stack'[n].p = Top.p
      BY <1>1, <1>3, <2>2, <3>1 DEF Shape
    <3>3. Top.p \in DOMAIN Turn /\ Top.p \in Plain
      BY <1>4, <2>2, <3>2, TurnFacts DEF Turned
    <3>4. PlainMove
      BY <3>3, PlainStep
    <3>5. CASE Rests
      <4>1. \A j \in 1..n : stack'[j] = stack[j]
        BY <3>5 DEF Rests
      <4>2. Turned(stack[n]) /\ stack[n].p \in DOMAIN Turn /\ n \in 2..n
        BY <1>2, <1>4, <2>2, <3>1, <4>1 DEF Turned
      <4>3. OwnerAt(stack[n].p, n) \in 2..n
        BY <1>2, <4>2, OwnerAtFacts
      <4>4. OwnerAt(stack[n].p, n) \in 1..n
        BY <1>2, <4>3
      <4>5. stack[OwnerAt(stack[n].p, n)].held = <<>>
        BY <4>2 DEF UsedOK
      <4> QED BY <2>2, <3>1, <4>1, <4>4, <4>5
    <3>6. CASE Leaves
      BY <1>2, <2>2, <3>1, <3>6 DEF Leaves
    <3>7. CASE Advances
      BY <1>1, <1>4, <2>2, <3>2, <3>7, UsedAtTop
    <3>8. CASE Skips
      BY <1>4, <2>2, <3>2, <3>8 DEF Skips, Turned
    <3> QED BY <3>4, <3>5, <3>6, <3>7, <3>8 DEF PlainMove
  <2>3. CASE i > n
    <3>1. i = m /\ m > n
      BY <1>2, <2>3
    <3>2. stack'[m] = Frame(stack'[m].p)
      BY <1>1, <3>1 DEF Shape
    <3>3. stack'[i].at = 1
      BY <3>1, <3>2 DEF Frame
    <3>4. Turn[stack'[i].p] \in Nat /\ Turn[stack'[i].p] >= 1 /\ 1 > Turn[stack'[i].p]
      BY <1>4, <3>3, TurnFacts DEF Turned
    <3> QED BY <3>4
  <2> QED BY <1>2, <2>1, <2>2, <2>3
<1>5. ASSUME result' = "matched", m > 1, stack'[m].p = "global_variable"
      PROVE  stack'[2].held = <<>>
  <2>1. CASE UNCHANGED <<stack, result, value>>
    BY <1>5, <2>1 DEF UsedOK, Top, Depth
  <2>2. CASE ~UNCHANGED <<stack, result, value>>
    <3>1. /\ Running /\ stack' = Front(stack) /\ m = n - 1 /\ n > 2 /\ Top.p = "global_variable_decl"
      BY <1>5, <2>2, MatchedCallee
    <3>2. PlainMove
      BY <3>1, PlainStep DEF Plain
    <3>3. Leaves
      <4>1. ~Rests /\ ~Advances /\ ~Skips
        <5>1. \A a, b \in Nat : a = b - 1 => ~(a >= b) /\ a # b
          OBVIOUS
        <5>2. ~(m >= n) /\ m # n
          BY <1>2, <3>1, <5>1
        <5> QED BY <5>2 DEF Rests, Advances, Skips
      <4> QED BY <3>2, <4>1 DEF PlainMove
    <3>4. AtEnd /\ ~Top.bad
      BY <1>5, <3>3 DEF Leaves
    <3>5. Top.at > 2
      <4>1. PlainOK(Top.p, Function)
        BY <3>1, PlainFacts DEF Plain
      <4>2. Len(Function.items) \in Nat /\ 2 <= Len(Function.items)
        BY <3>1, <4>1, TurnFacts DEF PlainOK
      <4>3. Top.at \in Nat /\ Top.at > Len(Function.items)
        BY <3>1, <3>4, RunningFacts DEF AtEnd
      <4> QED BY <4>2, <4>3
    <3>6. Turned(Top)
      BY <3>1, <3>5, TurnFacts DEF Turned
    <3>7. n \in 2..n /\ 2 \in 1..(n - 1)
      BY <1>2, <3>1
    <3>8. stack[2].held = <<>>
      BY <1>3, <3>1, <3>6, <3>7 DEF UsedOK, OwnerAt
    <3>9. stack'[2] = stack[2]
      BY <1>2, <3>1, <3>7, ChainReturn
    <3> QED BY <3>8, <3>9
  <2> QED BY <2>1, <2>2
<1> QED BY <1>4, <1>5 DEF UsedOK, Top, Depth

LEMMA InitUsed == Init => UsedOK
<1> SUFFICES ASSUME Init PROVE UsedOK
  OBVIOUS
<1>1. stack = <<Frame("translation_unit")>> /\ result = ""
  BY DEF Init
<1>2. Len(stack) = 1
  BY <1>1
<1>3. \A i \in 2..Len(stack) : FALSE
  <2>1. \A n : n = 1 => (\A i \in 2..n : FALSE)
    OBVIOUS
  <2> QED BY <1>2, <2>1
<1> QED BY <1>1, <1>3 DEF UsedOK

LEMMA UsedInvariant == Spec => []UsedOK
<1>1. StackInv /\ UsedOK /\ [Next]_vars => UsedOK'
  BY UsedStep
<1> QED BY <1>1, InitUsed, StackInvariant, PTL DEF Spec

\* The decorations of a declaration are cast to the kind it takes, or refused: for every
\* text, a variable, a struct or a function that ends without an error leaves none that
\* nobody has looked at.
THEOREM DecorationsUsed == Spec => []DecorationsAreUsed
<1>1. StackInv /\ UsedOK => DecorationsAreUsed
  <2> SUFFICES ASSUME StackInv, UsedOK, In("do"), AtEnd, ~Top.bad, Top.p \in Users
               PROVE  Range(stack[Owner].held) \subseteq Identifiers
    BY DEF DecorationsAreUsed
  <2>1. /\ Running /\ Top.at \in Nat /\ Len(stack) \in Nat /\ Len(stack) > 1
        /\ Top = stack[Len(stack)]
    BY RunningFacts DEF In
  <2>2. Top.p \in DOMAIN Turn /\ Top.p \in Plain /\ Turn[Top.p] \in Nat
    BY TurnFacts DEF Users
  <2>3. Turn[Top.p] <= Len(Function.items) /\ Len(Function.items) \in Nat
    BY <2>1, <2>2, PlainFacts DEF PlainOK
  <2>4. Top.at > Turn[Top.p]
    BY <2>1, <2>2, <2>3 DEF AtEnd
  <2>5. Turned(stack[Len(stack)]) /\ Len(stack) \in 2..Len(stack)
    BY <2>1, <2>2, <2>4 DEF Turned
  <2>6. stack[Owner].held = <<>>
    BY <2>1, <2>2, <2>5, OwnerIs DEF UsedOK
  <2>7. Range(<<>>) = {}
    BY DEF Range
  <2> QED BY <2>6, <2>7
<1> QED BY <1>1, StackInvariant, UsedInvariant, PTL

-----------------------------------------------------------------------------
(* Names *)

\* The functions that declare a name hold only that name, and only such names are
\* registered.
NamesOK ==
  /\ \A i \in 2..Len(stack) : stack[i].p \in Naming => stack[i].held \in Seq(Identifiers)
  /\ result = "matched" /\ Len(stack) > 1 /\ Top.p = "struct" => value \in Seq(Identifiers)
  /\ constructed \subseteq Identifiers

\* Only one item registers a construct, and only a for statement makes a module that is
\* not valid.
Registers == Register \/ UNCHANGED constructed
StatusMove == Registers /\ valid' \in {valid, FALSE}

LEMMA OutcomeStatus ==
  /\ Report => StatusMove
  /\ UNCHANGED status => StatusMove
  /\ \A o : Outcome(o) => StatusMove
<1>1. UNCHANGED <<constructed, valid>> => StatusMove
  BY DEF StatusMove, Registers
<1>2. Report => UNCHANGED <<constructed, valid>>
  BY DEF Report
<1>3. UNCHANGED status => UNCHANGED <<constructed, valid>>
  BY DEF status
<1>4. \A o : Outcome(o) => UNCHANGED <<constructed, valid>>
  BY <1>2, <1>3 DEF Outcome
<1> QED BY <1>1, <1>2, <1>3, <1>4

LEMMA StatusMoves ==
  ASSUME [Next]_vars
  PROVE  StatusMove
<1>0. UNCHANGED <<constructed, valid>> => StatusMove
  BY DEF StatusMove, Registers
<1>1. CASE Lex \/ UNCHANGED vars
  BY <1>1, OutcomeStatus DEF Lex, vars
<1>2. CASE SyncTo
  <2>1. PICK c, q : ScanPast(c, q) \/ ScanStop(c, q)
    BY <1>2 DEF SyncTo
  <2>2. UNCHANGED status \/ \E found \in BOOLEAN : Resume(found)
    BY <2>1 DEF ScanPast, ScanStop
  <2>3. \A found \in BOOLEAN : Resume(found) => UNCHANGED <<constructed, valid>>
    BY DEF Resume
  <2> QED BY <1>0, <2>2, <2>3, OutcomeStatus
<1>3. ASSUME ItemStep
      PROVE  StatusMove
  <2>1. CASE TokenHit \/ TokenMiss
    BY <2>1, OutcomeStatus DEF TokenHit, TokenMiss
  <2>2. CASE NameHit \/ TypeNameHit \/ TypeNameMiss
    BY <1>0, <2>2, OutcomeStatus DEF NameHit, TypeNameHit, TypeNameMiss
  <2>3. CASE DecorateHit \/ DecorateMiss
    BY <2>3, OutcomeStatus DEF DecorateHit, DecorateMiss
  <2>4. CASE TwoHit \/ TwoMiss
    BY <2>4, OutcomeStatus DEF TwoHit, TwoMiss
  <2>5. CASE CallItem \/ FailItem \/ TakeAccess
    BY <2>5, OutcomeStatus DEF CallItem, FailItem, TakeAccess
  <2>6. CASE CastItem
    BY <1>0, <2>6 DEF CastItem
  <2>7. CASE Consumed
    BY <2>7, OutcomeStatus DEF Consumed
  <2>8. CASE Register
    BY <2>8 DEF Register, StatusMove, Registers
  <2>9. CASE Stop \/ GoOn \/ TooDeep \/ Reject \/ Finish
    BY <2>9, OutcomeStatus DEF Stop, GoOn, TooDeep, Reject, Finish
  <2> QED BY <1>3, <2>1, <2>2, <2>3, <2>4, <2>5, <2>6, <2>7, <2>8, <2>9 DEF ItemStep
<1>4. ASSUME ReturnStep
      PROVE  StatusMove
  <2>1. \A to, take : Seek(to, take) => UNCHANGED <<constructed, valid>>
    BY DEF Seek
  <2>2. CASE ItemDone \/ ItemFails \/ Skip
    BY <2>2, OutcomeStatus DEF ItemDone, ItemFails, Skip
  <2>3. CASE NoContinuing
    BY <2>3 DEF NoContinuing, StatusMove, Registers
  <2>4. CASE ItemSeeks
    BY <1>0, <2>1, <2>4 DEF ItemSeeks
  <2>5. CASE Descend \/ AltReturns \/ ManyReturns
    BY <2>5, OutcomeStatus DEF Descend, AltReturns, ManyReturns
  <2>6. CASE WhileRound \/ WhileStop \/ WhileReturns
    BY <2>6, OutcomeStatus DEF WhileRound, WhileStop, WhileReturns
  <2>7. CASE SyncReturns
    BY <1>0, <2>1, <2>7, OutcomeStatus DEF SyncReturns
  <2>8. CASE BlockOpens \/ BlockCloses
    BY <1>0, <2>8, OutcomeStatus DEF BlockOpens, BlockCloses
  <2>9. CASE NextDeclaration \/ EndOfUnit
    BY <2>9, OutcomeStatus DEF NextDeclaration, EndOfUnit
  <2>10. CASE DeclarationDone
    BY <2>10, OutcomeStatus DEF DeclarationDone
  <2> QED BY <1>4, <2>2, <2>3, <2>4, <2>5, <2>6, <2>7, <2>8, <2>9, <2>10 DEF ReturnStep
<1> QED BY <1>1, <1>2, <1>3, <1>4 DEF Next

\* What such a function holds when it goes on.
LEMMA NameAdvances ==
  ASSUME StackInv, NamesOK, Advances, Top.p \in Naming
  PROVE  stack'[Len(stack)].held \in Seq(Identifiers)
<1>1. /\ Running /\ Len(stack) \in Nat /\ Len(stack) > 1 /\ Top = stack[Len(stack)]
      /\ FunctionOK(Top.p, Function)
  BY RunningFacts DEF Advances
<1>2. Top.held \in Seq(Identifiers)
  <2>1. Len(stack) \in 2..Len(stack)
    BY <1>1
  <2> QED BY <1>1, <2>1 DEF NamesOK
<1>3. ItemOK(Top.p, Top.at, This)
  <2>1. Function.form = "do"
    BY <1>1, PlainFacts DEF Naming, Plain
  <2> QED BY <1>1, <2>1 DEF FunctionOK, Advances, This
<1>4. This.do # "takeaccess"
  BY <1>3 DEF ItemOK, Naming
<1>5. ASSUME This.do = "call", This.matched = "keep", result = "matched"
      PROVE  value \in Seq(Identifiers)
  <2>1. Top.p = "struct"
    BY <1>3, <1>5 DEF ItemOK, Naming
  <2> QED BY <1>1, <1>5, <2>1 DEF NamesOK
<1> QED BY <1>2, <1>4, <1>5, EmptySeq DEF Advances

LEMMA NamesStep ==
  ASSUME StackInv, NamesOK, [Next]_vars
  PROVE  NamesOK'
<1> DEFINE n == Len(stack)
           m == Len(stack')
<1>1. StackInv' /\ Shape(stack, stack')
  BY EveryStep DEF StackStep
<1>2. Chain(stack) /\ n \in Nat /\ Chain(stack') /\ m \in Nat /\ m >= n - 1 /\ m <= n + 1
  BY <1>1, ChainFacts DEF StackInv, StackOK, Shape
<1>3. Top = stack[n]
  BY DEF Top, Depth
<1>4. ASSUME NEW i \in 2..m, stack'[i].p \in Naming
      PROVE  stack'[i].held \in Seq(Identifiers)
  <2>1. CASE i < n
    <3>1. i \in 1..(n - 1) /\ i \in 1..n /\ i \in 2..n /\ i <= m
      BY <1>2, <2>1
    <3>2. stack'[i].p = stack[i].p /\ HeldStays(stack[i], stack'[i])
      BY <1>1, <3>1 DEF Shape
    <3>3. stack[i].held \in Seq(Identifiers)
      BY <1>4, <3>1, <3>2 DEF NamesOK
    <3>4. stack[i].p # "decoration_list"
      BY <1>4, <3>2 DEF Naming
    <3> QED BY <3>2, <3>3, <3>4, EmptySeq DEF HeldStays
  <2>2. CASE i = n
    <3>1. n \in 1..n /\ n \in 2..n /\ n <= m /\ n > 1
      BY <1>2, <2>2
    <3>2. stack'[n].p = Top.p
      BY <1>1, <1>3, <3>1 DEF Shape
    <3>3. Top.p \in Naming /\ Top.p \in Plain
      BY <1>4, <2>2, <3>2 DEF Naming, Plain
    <3>4. Top.held \in Seq(Identifiers)
      BY <1>3, <3>1, <3>3 DEF NamesOK
    <3>5. ~Skips /\ ~Leaves
      BY <1>2, <3>1, <3>3 DEF Skips, Leaves, Naming
    <3>6. CASE Rests
      <4>1. stack'[n] = stack[n]
        BY <3>1, <3>6 DEF Rests
      <4> QED BY <1>3, <2>2, <3>4, <4>1
    <3>7. CASE Advances
      BY <2>2, <3>3, <3>7, NameAdvances
    <3> QED BY <3>3, <3>5, <3>6, <3>7, PlainStep DEF PlainMove
  <2>3. CASE i > n
    <3>1. i = m /\ m > n
      BY <1>2, <2>3
    <3>2. stack'[m] = Frame(stack'[m].p)
      BY <1>1, <3>1 DEF Shape
    <3>3. stack'[i].held = <<>>
      BY <3>1, <3>2 DEF Frame
    <3> QED BY <3>3, EmptySeq
  <2> QED BY <1>2, <2>1, <2>2, <2>3
<1>5. ASSUME result' = "matched", m > 1, stack'[m].p = "struct"
      PROVE  value' \in Seq(Identifiers)
  <2>1. CASE UNCHANGED <<stack, result, value>>
    BY <1>5, <2>1 DEF NamesOK, Top, Depth
  <2>2. CASE ~UNCHANGED <<stack, result, value>>
    <3>1. value' = Top.held /\ n > 2 /\ Top.p = "struct_decl"
      BY <1>5, <2>2, MatchedCallee
    <3>2. n \in 2..n
      BY <1>2, <3>1
    <3> QED BY <1>3, <3>1, <3>2 DEF NamesOK, Naming
  <2> QED BY <2>1, <2>2
<1>6. constructed' \subseteq Identifiers
  <2>1. CASE Register
    <3>1. At("register")
      BY <2>1 DEF Register
    <3>2. PICK do \in {"register"} : At(do)
      BY <3>1
    <3>3. Running /\ ItemOK(Top.p, Top.at, This) /\ This.do = "register"
      BY <3>2, ItemFacts
    <3>4. Top.p \in Naming
      BY <3>3 DEF ItemOK, Naming
    <3>5. n \in 2..n
      BY <1>2, <3>3, RunningFacts
    <3>6. Top.held \in Seq(Identifiers)
      BY <1>3, <3>4, <3>5 DEF NamesOK
    <3>7. Range(Top.held) \subseteq Identifiers
      BY <3>6, RangeOfSeq
    <3> QED BY <2>1, <3>7 DEF Register, NamesOK
  <2>2. CASE UNCHANGED constructed
    BY <2>2 DEF NamesOK
  <2> QED BY <2>1, <2>2, StatusMoves DEF StatusMove, Registers
<1> QED BY <1>4, <1>5, <1>6 DEF NamesOK, Top, Depth

LEMMA InitNames == Init => NamesOK
<1> SUFFICES ASSUME Init PROVE NamesOK
  OBVIOUS
<1>1. stack = <<Frame("translation_unit")>> /\ result = "" /\ constructed = {}
  BY DEF Init
<1>2. Len(stack) = 1
  BY <1>1
<1>3. \A i \in 2..Len(stack) : FALSE
  <2>1. \A n : n = 1 => (\A i \in 2..n : FALSE)
    OBVIOUS
  <2> QED BY <1>2, <2>1
<1> QED BY <1>1, <1>3 DEF NamesOK

LEMMA NamesInvariant == Spec => []NamesOK
<1>1. StackInv /\ NamesOK /\ [Next]_vars => NamesOK'
  BY NamesStep
<1> QED BY <1>1, InitNames, StackInvariant, PTL DEF Spec

-----------------------------------------------------------------------------
(* The depth of const_expr() *)

ConstExprs == {i \in DOMAIN stack : stack[i].p = "const_expr"}

\* The limit is passed once, by a call that does nothing but report it.
DepthOK ==
  \/ Cardinality(ConstExprs) <= MaxConstExprDepth + 1
  \/ /\ Cardinality(ConstExprs) = MaxConstExprDepth + 2
     /\ Top.p = "const_expr" /\ Top.at = 1

LEMMA ConstExprsFacts ==
  ASSUME StackInv
  PROVE  IsFiniteSet(ConstExprs) /\ Cardinality(ConstExprs) \in Nat /\ DOMAIN stack = 1..Len(stack)
<1>1. Len(stack) \in Nat /\ DOMAIN stack = 1..Len(stack)
  BY ChainFacts DEF StackInv, StackOK
<1>2. IsFiniteSet(1..Len(stack))
  BY <1>1, FS_Interval
<1>3. ConstExprs \subseteq 1..Len(stack)
  BY <1>1 DEF ConstExprs
<1>4. IsFiniteSet(ConstExprs)
  BY <1>2, <1>3, FS_Subset
<1> QED BY <1>1, <1>4, FS_CardinalityType

\* A const_expr() that is too deep calls nothing.
LEMMA TooDeepReturns ==
  ASSUME StackInv, [Next]_vars, stack # <<>>, IsTooDeep, Top.p = "const_expr", Top.at = 1
  PROVE  stack' = stack \/ stack' = Front(stack)
<1>1. Chain(stack) /\ Len(stack) \in Nat /\ Len(stack) # 0 /\ Top = stack[Len(stack)]
  BY ChainFacts DEF StackInv, StackOK, Top, Depth
<1>2. Len(stack) > 1
  <2>1. Len(stack) \in 1..Len(stack)
    BY <1>1
  <2>2. Len(stack) # 1
    BY <1>1, <2>1 DEF Chain
  <2> QED BY <1>1, <2>2
<1>3. ~InUnit
  BY DEF InUnit
<1>4. Running => Function = Functions["const_expr"]
  BY RunningFacts
<1>5. /\ Functions["const_expr"].form = "do" /\ Functions["const_expr"].items[1].do = "depth"
      /\ Len(Functions["const_expr"].items) \in Nat \ {0}
  BY ConstExprItem
<1>6. result = ""
  <2> SUFFICES ASSUME result # "" PROVE FALSE
    OBVIOUS
  <2>1. PICK q : Calls("const_expr", 1, q)
    BY <1>1, <1>2 DEF StackInv, StackOK, Waits
  <2> QED BY <1>5, <2>1 DEF Calls, Jobs
<1>7. \A form : In(form) => form = "do"
  BY <1>4, <1>5 DEF In
<1>8. \A do : At(do) => do = "depth" /\ Running
  BY <1>4, <1>5 DEF At, This, In
<1>9. \A o : ~Back2(o)
  BY <1>6 DEF Back2
<1>10. CASE Lex \/ UNCHANGED vars
  BY <1>10 DEF Lex, vars
<1>11. CASE SyncTo
  <2>1. PICK c, q : ScanPast(c, q) \/ ScanStop(c, q)
    BY <1>11 DEF SyncTo
  <2>2. UNCHANGED stack \/ \E found \in BOOLEAN : Resume(found)
    BY <2>1 DEF ScanPast, ScanStop
  <2>3. \A found \in BOOLEAN : Resume(found) => stack' = Front(stack)
    BY DEF Resume
  <2> QED BY <2>2, <2>3
<1>12. ASSUME ItemStep
       PROVE  stack' = Front(stack)
  <2>1. ~Finish
    <3>1. Running => ~AtEnd
      BY <1>4, <1>5 DEF AtEnd
    <3> QED BY <3>1 DEF Finish, In
  <2>2. ~GoOn
    <3>1. ~At("stopifbad") /\ ~At("insync") /\ ~At("unused")
      BY <1>8
    <3> QED BY <3>1 DEF GoOn
  <2>3. ~AtToken
    BY <1>8 DEF AtToken, OnHit
  <2>4. /\ ~At("name") /\ ~At("typename") /\ ~At("decorate") /\ ~At("match2") /\ ~At("refuse2")
        /\ ~At("call") /\ ~At("fail") /\ ~At("cast") /\ ~At("takeaccess") /\ ~At("consumed")
        /\ ~At("oneaccess") /\ ~At("register") /\ ~At("stopifbad") /\ ~At("insync")
        /\ ~At("reject") /\ ~At("unused")
    BY <1>8
  <2>5. TooDeep
    BY <1>12, <2>1, <2>2, <2>3, <2>4 DEF ItemStep, TokenHit, TokenMiss, NameHit, TypeNameHit,
       TypeNameMiss, DecorateHit, DecorateMiss, TwoHit, TwoMiss, CallItem, FailItem, CastItem,
       TakeAccess, Consumed, Register, Stop, Reject
  <2> QED BY <2>5 DEF TooDeep, Report, Return
<1>13. ~ReturnStep
  <2>1. ~ItemDone
    BY <1>9 DEF ItemDone
  <2>2. ~NoContinuing /\ ~ItemFails /\ ~ItemSeeks /\ ~Skip
    BY <1>9 DEF NoContinuing, ItemFails, ItemSeeks, Skip
  <2>3. ~In("alt") /\ ~In("many") /\ ~In("sync") /\ ~In("while") /\ ~In("list") /\ ~In("block")
    BY <1>7
  <2>4. ~Descend /\ ~AltReturns /\ ~ManyReturns /\ ~WhileRound /\ ~WhileStop /\ ~WhileReturns
    BY <2>3 DEF Descend, AltReturns, ManyReturns, WhileRound, WhileStop, WhileReturns
  <2>5. ~SyncReturns /\ ~BlockOpens /\ ~BlockCloses
    BY <2>3 DEF SyncReturns, BlockOpens, BlockCloses
  <2>6. ~NextDeclaration /\ ~DeclarationDone /\ ~EndOfUnit
    BY <1>3 DEF NextDeclaration, DeclarationDone, EndOfUnit
  <2> QED BY <2>1, <2>2, <2>4, <2>5, <2>6 DEF ReturnStep
<1> QED BY <1>10, <1>11, <1>12, <1>13 DEF Next

LEMMA DepthStep ==
  ASSUME StackInv, DepthOK, [Next]_vars
  PROVE  DepthOK'
<1> DEFINE n == Len(stack)
           m == Len(stack')
           C == ConstExprs
           D == ConstExprs'
           K == MaxConstExprDepth
<1>1. StackInv' /\ Shape(stack, stack')
  BY EveryStep DEF StackStep
<1>2. Chain(stack) /\ n \in Nat /\ Chain(stack') /\ m \in Nat /\ m >= n - 1 /\ m <= n + 1
  BY <1>1, ChainFacts DEF StackInv, StackOK, Shape
<1>3. /\ C = {i \in 1..n : stack[i].p = "const_expr"}
      /\ D = {i \in 1..m : stack'[i].p = "const_expr"}
  BY <1>2, ChainFacts DEF ConstExprs
<1>4. IsFiniteSet(C) /\ Cardinality(C) \in Nat
  BY ConstExprsFacts
<1>5. IsFiniteSet(D) /\ Cardinality(D) \in Nat
  <2>1. IsFiniteSet(1..m)
    BY <1>2, FS_Interval
  <2>2. D \subseteq 1..m
    BY <1>3
  <2>3. IsFiniteSet(D)
    BY <2>1, <2>2, FS_Subset
  <2> QED BY <2>3, FS_CardinalityType
<1>6. K \in Nat
  BY BoundsAssumption
<1>7. \A i \in 1..n : i <= m => stack'[i].p = stack[i].p
  BY <1>1 DEF Shape
<1>8. SUFFICES \/ Cardinality(D) <= K + 1
               \/ Cardinality(D) = K + 2 /\ Top'.p = "const_expr" /\ Top'.at = 1
  BY DEF DepthOK
<1>9. \/ Cardinality(C) <= K + 1
      \/ Cardinality(C) = K + 2 /\ Top.p = "const_expr" /\ Top.at = 1
  BY DEF DepthOK
<1>10. Top = stack[n] /\ Top' = stack'[m]
  BY DEF Top, Depth
<1> HIDE DEF C, D, K
<1>11. ASSUME D \subseteq C
       PROVE  Cardinality(D) <= Cardinality(C)
  BY <1>4, <1>11, FS_Subset
<1>12. CASE Cardinality(C) <= K + 1
  <2>1. CASE m <= n
    <3>1. D \subseteq C
      BY <1>2, <1>3, <1>7, <2>1
    <3> QED BY <1>4, <1>5, <1>6, <1>11, <1>12, <3>1
  <2>2. CASE m > n /\ stack'[m].p # "const_expr"
    <3>1. m = n + 1
      BY <1>2, <2>2
    <3>2. D \subseteq C
      BY <1>2, <1>3, <1>7, <2>2, <3>1
    <3> QED BY <1>4, <1>5, <1>6, <1>11, <1>12, <3>2
  <2>3. CASE m > n /\ stack'[m].p = "const_expr"
    <3>1. m = n + 1 /\ m \notin 1..n
      BY <1>2, <2>3
    <3>2. stack'[m].at = 1
      <4>1. stack'[m] = Frame(stack'[m].p)
        BY <1>1, <2>3 DEF Shape
      <4> QED BY <4>1 DEF Frame
    <3>3. D \subseteq C \cup {m} /\ m \notin C
      BY <1>2, <1>3, <1>7, <3>1
    <3>4. IsFiniteSet(C \cup {m}) /\ Cardinality(C \cup {m}) = Cardinality(C) + 1
      BY <1>4, <3>3, FS_AddElement
    <3>5. Cardinality(D) <= Cardinality(C) + 1
      BY <3>3, <3>4, FS_Subset
    <3>6. \A a, b, k \in Nat : a <= b + 1 /\ b <= k + 1 => a <= k + 1 \/ a = k + 2
      OBVIOUS
    <3>7. Cardinality(D) <= K + 1 \/ Cardinality(D) = K + 2
      BY <1>4, <1>5, <1>6, <1>12, <3>5, <3>6
    <3> QED BY <1>10, <2>3, <3>2, <3>7
  <2> QED BY <1>2, <2>1, <2>2, <2>3
<1>13. CASE Cardinality(C) = K + 2 /\ Top.p = "const_expr" /\ Top.at = 1
  <2>1. IsTooDeep
    <3>1. Cardinality(ConstExprs) > MaxConstExprDepth + 1
      <4>1. \A k \in Nat : k + 2 > k + 1
        OBVIOUS
      <4> QED BY <1>6, <1>13, <4>1 DEF C, K
    <3> QED BY <3>1 DEF IsTooDeep, ConstExprs
  <2>2. C # {}
    <3>1. \A k \in Nat : k + 2 # 0
      OBVIOUS
    <3> QED BY <1>6, <1>13, <3>1, FS_EmptySet
  <2>3. n # 0 /\ stack # <<>>
    <3>1. n # 0
      BY <1>2, <1>3, <2>2
    <3> QED BY <1>2, <3>1, ChainFacts
  <2>4. CASE stack' = stack
    <3>1. D = C
      BY <1>3, <2>4
    <3> QED BY <1>10, <1>13, <2>4, <3>1
  <2>5. CASE stack' = Front(stack)
    <3>1. m = n - 1
      BY <1>2, <2>3, <2>5, ChainReturn
    <3>2. n \in C /\ D \subseteq C \ {n}
      BY <1>2, <1>3, <1>7, <1>10, <1>13, <2>3, <3>1
    <3>3. IsFiniteSet(C \ {n}) /\ Cardinality(C \ {n}) = Cardinality(C) - 1
      BY <1>4, <3>2, FS_RemoveElement
    <3>4. Cardinality(D) <= Cardinality(C) - 1
      BY <3>2, <3>3, FS_Subset
    <3>5. \A a, b, k \in Nat : a <= b - 1 /\ b = k + 2 => a <= k + 1
      OBVIOUS
    <3> QED BY <1>4, <1>5, <1>6, <1>13, <3>4, <3>5
  <2> QED BY <1>13, <2>1, <2>3, <2>4, <2>5, TooDeepReturns
<1> QED BY <1>9, <1>12, <1>13

LEMMA InitDepth == Init => DepthOK
<1> SUFFICES ASSUME Init PROVE DepthOK
  OBVIOUS
<1>1. stack = <<Frame("translation_unit")>>
  BY DEF Init
<1>2. ConstExprs = {}
  BY <1>1 DEF ConstExprs, Frame
<1>3. Cardinality(ConstExprs) = 0
  BY <1>2, FS_EmptySet
<1>4. \A k \in Nat : 0 <= k + 1
  OBVIOUS
<1>5. MaxConstExprDepth \in Nat
  BY BoundsAssumption
<1> QED BY <1>3, <1>4, <1>5 DEF DepthOK

LEMMA DepthInvariant == Spec => []DepthOK
<1>1. StackInv /\ DepthOK /\ [Next]_vars => DepthOK'
  BY DepthStep
<1> QED BY <1>1, InitDepth, StackInvariant, PTL DEF Spec

LEMMA ValidInvariant == Spec => [](valid \in BOOLEAN)
<1>1. Init => valid \in BOOLEAN
  BY DEF Init
<1>2. valid \in BOOLEAN /\ [Next]_vars => (valid \in BOOLEAN)'
  BY StatusMoves DEF StatusMove
<1> QED BY <1>1, <1>2, PTL DEF Spec

\* The call stack holds functions of the grammar, each at one of its items, with
\* decorations and names; no token that has been looked at has become impossible; and
\* const_expr() is entered at most kMaxConstExprDepth + 2 times, for every limit.
THEOREM TypesOK == Spec => []TypeOK
<1>1. ASSUME TokensOK, StackInv, NamesOK, DepthOK, valid \in BOOLEAN
      PROVE  TypeOK
  <2>1. Chain(stack) /\ DOMAIN stack = 1..Len(stack)
    BY <1>1, ChainFacts DEF StackInv, StackOK
  <2>2. ASSUME NEW i \in DOMAIN stack
        PROVE  /\ stack[i].p \in DOMAIN Functions \cup {"translation_unit"}
               /\ stack[i].p = "translation_unit" <=> i = 1
               /\ stack[i].at \in Nat \ {0} /\ stack[i].bad \in BOOLEAN
               /\ Range(stack[i].held) \subseteq Range(DecorationKind) \cup Identifiers
    <3>1. /\ stack[i].p \in Programs /\ stack[i].at \in Nat /\ stack[i].at # 0
          /\ stack[i].bad \in BOOLEAN /\ stack[i].held \in Seq(Marks)
      BY <2>1, ChainFacts
    <3>2. stack[i].p = "translation_unit" <=> i = 1
      BY <2>1 DEF Chain
    <3>3. Range(stack[i].held) \subseteq Marks
      BY <3>1, RangeOfSeq
    <3> QED BY <3>1, <3>2, <3>3 DEF Programs, Marks
  <2>3. Cardinality({i \in DOMAIN stack : stack[i].p = "const_expr"}) <= MaxConstExprDepth + 2
    <3>1. Cardinality(ConstExprs) \in Nat /\ MaxConstExprDepth \in Nat
      BY <1>1, ConstExprsFacts, BoundsAssumption
    <3>2. \A c, k \in Nat : c <= k + 1 \/ c = k + 2 => c <= k + 2
      OBVIOUS
    <3>3. Cardinality(ConstExprs) <= MaxConstExprDepth + 2
      BY <1>1, <3>1, <3>2 DEF DepthOK
    <3> QED BY <3>3 DEF ConstExprs
  <2>4. ASSUME NEW i \in DOMAIN queue
        PROVE  queue[i] # {}
    <3>1. queue \in Seq(Tokens)
      BY <1>1 DEF TokensOK
    <3>2. queue[i] \in Tokens
      BY <3>1, LenProperties, ElementOfSeq
    <3> QED BY <3>2 DEF Tokens
  <2>5. result \in Results /\ synchronized \in BOOLEAN /\ errors \in 0..MaxErrors
    BY <1>1 DEF StackInv, StackOK, FaultsOK
  <2>6. constructed \subseteq Identifiers /\ valid \in BOOLEAN
    BY <1>1 DEF NamesOK
  <2> QED BY <2>2, <2>3, <2>4, <2>5, <2>6 DEF TypeOK
<1>2. ScanInv => TokensOK
  BY DEF ScanInv
<1> QED BY <1>1, <1>2, ScanInvInvariant, StackInvariant, NamesInvariant, DepthInvariant, ValidInvariant, PTL

==============================================================================
