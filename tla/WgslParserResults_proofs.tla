----------------------- MODULE WgslParserResults_proofs -----------------------
(***************************************************************************)
(* What Parse() promises when it returns: a text it has accepted has been  *)
(* read to its end (SuccessMeansWholeText).                                *)
(*                                                                         *)
(* The end of the text is found again and again, so the parser has read a  *)
(* text to its end when nothing but that is left in token_queue_.  Tokens  *)
(* behind the end are only in the queue after an error, or where a         *)
(* statement looks at two tokens, in a block that is not closed (EndsOK).  *)
(***************************************************************************)
EXTENDS WgslParserStack_proofs

-----------------------------------------------------------------------------
(* Blocks *)

\* A block that has been opened and not closed.
IsOpen(f) == f.p \in DOMAIN Functions /\ Functions[f.p].form = "block" /\ f.at > 1
InBlock(s) == \E j \in 2..Len(s) : IsOpen(s[j])

\* A statement is only read in a block, or where a declaration has to be.
LEMMA InnerIsInBlock ==
  ASSUME NEW s, Chain(s), ~Salvaging(s), NEW i \in 2..Len(s), s[i].p \notin Outer
  PROVE  InBlock(s)
<1> DEFINE n == Len(s)
           Bad == {k \in 2..n : s[k].p \notin Outer}
<1>0. n \in Nat /\ i \in Bad
  BY ChainFacts
<1>1. PICK k \in Bad : \A m \in Bad : k <= m
  <2>1. Bad \in SUBSET Nat
    BY <1>0
  <2> HIDE DEF Bad
  <2> QED BY <1>0, <2>1, Least
<1>2. k \in 2..n /\ k \in 1..n /\ s[k].p \notin Outer
  BY <1>0, <1>1
<1>3. k # 2
  BY <1>2 DEF Chain, Outer
<1>4. PICK j \in 2..(n - 1) : k = j + 1
  BY <1>0, <1>2, <1>3
<1>5. /\ j \in 1..n /\ j # 1 /\ j \in 2..n /\ j < k
      /\ Calls(s[j].p, s[j].at, s[k].p)
  BY <1>0, <1>4 DEF Chain
<1>6. s[j].p \in DOMAIN Functions /\ s[j].at \in Nat \ {0}
  <2>1. s[j].p \in Programs /\ s[j].at \in Nat /\ s[j].at # 0
    BY <1>5, ChainFacts
  <2>2. s[j].p # "translation_unit"
    BY <1>5 DEF Chain
  <2> QED BY <2>1, <2>2 DEF Programs
<1>7. CASE Functions[s[j].p].form = "block"
  BY <1>5, <1>6, <1>7 DEF Calls, InBlock, IsOpen
<1>8. CASE Functions[s[j].p].form # "block"
  <2>1. s[j].p \in Outer
    BY <1>1, <1>5
  <2>2. ~(s[j].p = "expect_global_decl" /\ s[j].at = 8)
    <3> SUFFICES ASSUME s[j].p = "expect_global_decl", s[j].at = 8 PROVE FALSE
      OBVIOUS
    <3>1. j = 2
      BY <1>5 DEF Chain
    <3>2. n > 1
      BY <1>0, <1>5
    <3> QED BY <3>1, <3>2 DEF Salvaging
  <2> QED BY <1>2, <1>5, <1>6, <1>8, <2>1, <2>2, CalleeFacts
<1> QED BY <1>7, <1>8

\* A block stays open as long as it does not return.
LEMMA BlockStays ==
  ASSUME StackInv, Shape(stack, stack'), InBlock(stack), ~IsOpen(Top)
  PROVE  InBlock(stack')
<1>1. Chain(stack) /\ Len(stack) \in Nat
  BY ChainFacts DEF StackInv, StackOK
<1>2. PICK j \in 2..Len(stack) : IsOpen(stack[j])
  BY DEF InBlock
<1>3. Top = stack[Len(stack)]
  BY DEF Top, Depth
<1>4. j # Len(stack)
  BY <1>2, <1>3
<1>5. Len(stack') \in Nat /\ Len(stack') >= Len(stack) - 1
  BY DEF Shape
<1>6. j \in 1..Len(stack) /\ j \in 1..(Len(stack) - 1) /\ j \in 2..Len(stack') /\ j <= Len(stack')
  BY <1>1, <1>2, <1>4, <1>5
<1>7. stack'[j].p = stack[j].p /\ stack'[j].at = stack[j].at
  BY <1>6 DEF Shape
<1> QED BY <1>2, <1>6, <1>7 DEF InBlock, IsOpen

-----------------------------------------------------------------------------
(* The queue *)

\* A step only takes tokens from the front of the queue, and narrows them.
Kept == \A i \in 1..(Len(queue') - 1) : i \in 1..(Len(queue) - 1) /\ queue'[i] \subseteq queue[i]
Shifted ==
  \A i \in 1..(Len(queue') - 1) : \E j \in 2..(Len(queue) - 1) : queue'[i] \subseteq queue[j]

LEMMA NarrowedKept ==
  ASSUME TokensOK, NEW i, NEW S, S \subseteq queue[i], NEW q \in Narrowed(i, S)
  PROVE  /\ q \in Seq(Tokens) /\ Len(q) = Len(queue) /\ Len(q) \in Nat /\ i \in 1..Len(q)
         /\ q # <<>> /\ \A j \in 1..Len(q) : q[j] \subseteq queue[j]
<1>1. i \in DOMAIN queue
  BY DEF Narrowed
<1>2. queue \in Seq(Tokens) /\ queue \in [1..Len(queue) -> Tokens] /\ DOMAIN queue = 1..Len(queue)
  BY LenProperties DEF TokensOK
<1>3. S \in SUBSET Kinds
  BY <1>1, <1>2 DEF Tokens
<1>4. q \in Seq(Tokens) /\ q # <<>> /\ q = [queue EXCEPT ![i] = S] /\ Len(q) = Len(queue)
  BY <1>3, NarrowedTokens
<1>5. \A j \in 1..Len(queue) : q[j] \subseteq queue[j]
  BY <1>2, <1>4
<1>6. Len(q) \in Nat
  BY <1>4, LenProperties
<1> QED BY <1>1, <1>2, <1>4, <1>5, <1>6

LEMMA HitMissKept ==
  ASSUME TokensOK, NEW i, NEW S, NEW q \in Hit(i, S) \cup Miss(i, S)
  PROVE  /\ q \in Seq(Tokens) /\ Len(q) = Len(queue) /\ Len(q) \in Nat /\ i \in 1..Len(q)
         /\ q # <<>> /\ \A j \in 1..Len(q) : q[j] \subseteq queue[j]
<1>1. CASE q \in Hit(i, S)
  BY <1>1, NarrowedKept DEF Hit
<1>2. CASE q \in Miss(i, S)
  BY <1>2, NarrowedKept DEF Miss
<1> QED BY <1>1, <1>2

LEMMA KeptWhenNarrowed ==
  ASSUME TokensOK, NEW q \in Seq(Tokens), Len(q) = Len(queue), queue' = q,
         \A j \in 1..Len(q) : q[j] \subseteq queue[j]
  PROVE  Kept
<1>1. Len(q) \in Nat
  BY LenProperties
<1> QED BY <1>1 DEF Kept

LEMMA ShiftedByTail ==
  ASSUME TokensOK, NEW q \in Seq(Tokens), q # <<>>, Len(q) = Len(queue), queue' = Tail(q),
         \A j \in 1..Len(q) : q[j] \subseteq queue[j]
  PROVE  Shifted
<1>1. Len(q) \in Nat /\ Len(Tail(q)) = Len(q) - 1
  BY LenProperties, HeadTailProperties
<1>2. \A i \in 1..(Len(q) - 1) : Tail(q)[i] = q[i + 1]
  BY <1>1, HeadTailProperties
<1>3. ASSUME NEW i \in 1..(Len(q) - 1 - 1)
      PROVE  i + 1 \in 2..(Len(q) - 1) /\ Tail(q)[i] \subseteq queue[i + 1]
  <2>1. i + 1 \in 2..(Len(q) - 1) /\ i + 1 \in 1..Len(q) /\ i \in 1..(Len(q) - 1)
    BY <1>1, <1>3
  <2> QED BY <1>2, <2>1
<1> QED BY <1>1, <1>3 DEF Shifted
LEMMA KeptWhenSame == TokensOK /\ UNCHANGED input => Kept
<1> SUFFICES ASSUME UNCHANGED input, TokensOK PROVE Kept
  OBVIOUS
<1>1. queue' = queue
  BY DEF input
<1> QED BY <1>1 DEF Kept

LEMMA ShiftedWhenTaken == TokensOK /\ Taken => Shifted
<1> SUFFICES ASSUME TokensOK, Taken PROVE Shifted
  OBVIOUS
<1>1. queue \in Seq(Tokens) /\ queue # <<>> /\ queue' = Tail(queue)
  BY DEF TokensOK, Taken, Reads
<1> QED BY <1>1, ShiftedByTail

\* A step at an item: the queue is narrowed, or a token is taken.
LEMMA ItemStepMoves ==
  ASSUME TokensOK, ItemStep
  PROVE  Running /\ Function.form = "do" /\ (Kept \/ Shifted)
<1>1. CASE TokenHit
  <2>1. PICK q \in Hit(1, Toks) : Reads(IF This.do \in Peeks THEN q ELSE Tail(q))
    BY <1>1 DEF TokenHit
  <2>0. /\ q \in Seq(Tokens) /\ Len(q) = Len(queue) /\ q # <<>>
        /\ \A j \in 1..Len(q) : q[j] \subseteq queue[j]
    BY HitMissKept
  <2>2. ASSUME This.do \in Peeks PROVE Kept
    <3>1. queue' = q
      BY <2>1, <2>2 DEF Reads
    <3> QED BY <2>0, <3>1, KeptWhenNarrowed
  <2>3. ASSUME This.do \notin Peeks PROVE Shifted
    <3>1. queue' = Tail(q)
      BY <2>1, <2>3 DEF Reads
    <3> QED BY <2>0, <3>1, ShiftedByTail
  <2> QED BY <1>1, <2>2, <2>3 DEF TokenHit, AtToken, At, In
<1>2. CASE TokenMiss
  <2>1. PICK q \in Miss(1, Toks) : Reads(q)
    BY <1>2 DEF TokenMiss
  <2>2. Kept
    BY <2>1, HitMissKept, KeptWhenNarrowed DEF Reads
  <2> QED BY <1>2, <2>2 DEF TokenMiss, AtToken, At, In
<1>3. CASE NameHit
  BY <1>3, ShiftedWhenTaken DEF NameHit, At, In
<1>4. CASE TypeNameHit
  BY <1>4, ShiftedWhenTaken DEF TypeNameHit, At, In
<1>5. CASE TypeNameMiss
  <2>1. PICK q \in Miss(1, This.toks) : Reads(q)
    BY <1>5 DEF TypeNameMiss
  <2>2. Kept
    BY <2>1, HitMissKept, KeptWhenNarrowed DEF Reads
  <2> QED BY <1>5, <2>2 DEF TypeNameMiss, At, In
<1>6. CASE DecorateHit
  BY <1>6, ShiftedWhenTaken DEF DecorateHit, At, In
<1>7. CASE DecorateMiss
  <2>1. PICK q \in Miss(1, This.toks) : Reads(q)
    BY <1>7 DEF DecorateMiss
  <2>2. Kept
    BY <2>1, HitMissKept, KeptWhenNarrowed DEF Reads
  <2> QED BY <1>7, <2>2 DEF DecorateMiss, At, In
<1>8. CASE TwoHit
  <2>1. PICK q \in Hit(1, This.toks), r \in Hit(2, This.and) : TRUE
    BY <1>8 DEF TwoHit
  <2>2. queue \in Seq(Tokens) /\ 1 \in 1..Len(queue) /\ 2 \in 1..Len(queue)
    BY <2>1, HitMissKept DEF TokensOK
  <2>3. CASE Reads(Tail(Tail(queue)))
    <3> DEFINE q2 == Tail(queue)
    <3>1. Len(queue) \in Nat /\ Len(queue) >= 2
      BY <2>2, LenProperties
    <3>2. queue # <<>>
      BY <2>2, EmptySeq
    <3>3. q2 \in Seq(Tokens) /\ Len(q2) = Len(queue) - 1 /\ \A i \in 1..Len(q2) : q2[i] = queue[i + 1]
      BY <2>2, <3>2, HeadTailProperties
    <3>4. q2 # <<>>
      <4>1. Len(q2) # 0
        BY <3>1, <3>3
      <4> QED BY <4>1, EmptySeq
    <3> HIDE DEF q2
    <3>5. Len(Tail(q2)) = Len(q2) - 1 /\ \A i \in 1..Len(Tail(q2)) : Tail(q2)[i] = q2[i + 1]
      BY <3>3, <3>4, HeadTailProperties
    <3>6. queue' = Tail(q2)
      BY <2>3 DEF Reads, q2
    <3>7. ASSUME NEW i \in 1..(Len(queue') - 1)
          PROVE  i + 2 \in 2..(Len(queue) - 1) /\ queue'[i] = queue[i + 2]
      <4>1. Len(queue') = Len(queue) - 2
        BY <3>1, <3>3, <3>5, <3>6
      <4>2. i + 2 \in 2..(Len(queue) - 1) /\ i \in 1..Len(Tail(q2)) /\ i + 1 \in 1..Len(q2) /\ i + 1 + 1 = i + 2
        BY <3>1, <3>3, <3>5, <3>7, <4>1
      <4> QED BY <3>3, <3>5, <3>6, <4>2
    <3>8. Shifted
      BY <3>7 DEF Shifted
    <3> QED BY <1>8, <3>8 DEF TwoHit, At, In
  <2>4. CASE Reads([queue EXCEPT ![1] = @ \cap This.toks, ![2] = @ \cap This.and])
    <3>1. Kept
      BY <1>8, <2>4, BothTokens, KeptWhenNarrowed DEF TwoHit, Reads
    <3> QED BY <1>8, <3>1 DEF TwoHit, At, In
  <2> QED BY <1>8, <2>3, <2>4 DEF TwoHit
<1>9. CASE TwoMiss
  <2>1. PICK q \in Miss(1, This.toks) \cup {[h EXCEPT ![2] = @ \ This.and] : h \in Hit(1, This.toks)} :
          q[2] # {} /\ Reads(q)
    <3>1. \E q \in Miss(1, This.toks) \cup {[h EXCEPT ![2] = @ \ This.and] : h \in Hit(1, This.toks)} :
            q[2] # {} /\ Reads(q)
      BY <1>9 DEF TwoMiss
    <3> QED BY ONLY <3>1
  <2>3. queue' = q
    BY <2>1 DEF Reads
  <2>4. q \in Miss(1, This.toks) \/ \E h \in Hit(1, This.toks) : q = [h EXCEPT ![2] = @ \ This.and]
    BY ONLY <2>1
  <2>5. q \in Seq(Tokens) /\ Len(q) = Len(queue) /\ \A j \in 1..Len(q) : q[j] \subseteq queue[j]
    BY <2>1, <2>4, OneMissTokens
  <2>2. Kept
    BY <2>3, <2>5, KeptWhenNarrowed
  <2> QED BY <1>9, <2>2 DEF TwoMiss, At, In
<1>10. CASE CallItem
  BY <1>10, KeptWhenSame DEF CallItem, At, In
<1>11. CASE FailItem
  BY <1>11, KeptWhenSame DEF FailItem, At, In
<1>12. CASE CastItem
  BY <1>12, KeptWhenSame DEF CastItem, At, In
<1>13. CASE TakeAccess
  BY <1>13, KeptWhenSame DEF TakeAccess, At, In
<1>14. CASE Consumed
  BY <1>14, KeptWhenSame DEF Consumed, At, In
<1>15. CASE Register
  BY <1>15, KeptWhenSame DEF Register, At, In
<1>16. CASE Stop
  BY <1>16, KeptWhenSame DEF Stop, At, In
<1>17. CASE GoOn
  BY <1>17, KeptWhenSame DEF GoOn, At, In
<1>18. CASE TooDeep
  BY <1>18, KeptWhenSame DEF TooDeep, At, In
<1>19. CASE Reject
  BY <1>19, ShiftedWhenTaken DEF Reject, At, In
<1>20. CASE Finish
  BY <1>20, KeptWhenSame DEF Finish, In
<1> QED
  BY <1>1, <1>2, <1>3, <1>4, <1>5, <1>6, <1>7, <1>8, <1>9, <1>10, <1>11, <1>12, <1>13, <1>14,
     <1>15, <1>16, <1>17, <1>18, <1>19, <1>20 DEF ItemStep
\* A function that is no block has nothing to close.
LEMMA OtherForm ==
  ASSUME Running, NEW form, In(form), form # "block"
  PROVE  ~IsOpen(Top)
BY DEF In, Function, IsOpen

LEMMA BackForm == \A o : Back2(o) => In("do")
BY DEF Back2

\* Another step of a parser that has met no error: a block is left when its closing
\* bracket is taken.
LEMMA ReturnStepMoves ==
  ASSUME TokensOK, StackInv, ~Faulty, ReturnStep
  PROVE  Shifted \/ (Kept /\ (InBlock(stack) => InBlock(stack')))
<1>0. Shape(stack, stack') /\ result # "errored"
  BY EveryStep DEF Next, StackStep, Faulty
<1>1. ASSUME NEW form, In(form), form # "block", Kept
      PROVE  Kept /\ (InBlock(stack) => InBlock(stack'))
  BY <1>0, <1>1, OtherForm, BlockStays DEF In
<1>2. CASE ItemDone
  BY <1>1, <1>2, KeptWhenSame, BackForm DEF ItemDone
<1>3. CASE NoContinuing
  <2>1. In("do") /\ UNCHANGED input
    BY <1>3, BackForm DEF NoContinuing
  <2> QED BY <1>1, <2>1, KeptWhenSame
<1>4. CASE ItemFails
  <2>1. In("do") /\ UNCHANGED input
    BY <1>4, BackForm DEF ItemFails
  <2> QED BY <1>1, <2>1, KeptWhenSame
<1>5. CASE ItemSeeks
  <2>1. In("do") /\ UNCHANGED input
    BY <1>5, BackForm DEF ItemSeeks, Seek
  <2> QED BY <1>1, <2>1, KeptWhenSame
<1>6. CASE Skip
  BY <1>6, ShiftedWhenTaken DEF Skip
<1>7. CASE Descend
  <2>1. PICK form \in {"alt", "many", "sync"} : In(form) /\ UNCHANGED input
    BY <1>7 DEF Descend
  <2> QED BY <1>1, <2>1, KeptWhenSame
<1>8. CASE AltReturns
  <2>1. In("alt") /\ UNCHANGED input
    BY <1>8 DEF AltReturns
  <2> QED BY <1>1, <2>1, KeptWhenSame
<1>9. CASE ManyReturns
  <2>1. In("many") /\ UNCHANGED input
    BY <1>9 DEF ManyReturns
  <2> QED BY <1>1, <2>1, KeptWhenSame
<1>10. CASE WhileRound
  <2>1. PICK form \in {"while", "list"} : In(form)
    BY <1>10 DEF WhileRound
  <2>2. UNCHANGED input \/ \E q \in Miss(1, Function.stop) : Reads(q)
    BY <1>10 DEF WhileRound
  <2>3. Kept
    BY <2>2, KeptWhenSame, HitMissKept, KeptWhenNarrowed DEF Reads
  <2> QED BY <1>1, <2>1, <2>3
<1>11. CASE WhileStop
  <2>1. PICK form \in {"while", "list"} : In(form)
    BY <1>11 DEF WhileStop
  <2>2. UNCHANGED input \/ \E q \in Hit(1, Function.stop) : Reads(q)
    BY <1>11 DEF WhileStop
  <2>3. Kept
    BY <2>2, KeptWhenSame, HitMissKept, KeptWhenNarrowed DEF Reads
  <2> QED BY <1>1, <2>1, <2>3
<1>12. CASE WhileReturns
  <2>1. PICK form \in {"while", "list"} : In(form) /\ UNCHANGED input
    BY <1>12 DEF WhileReturns
  <2> QED BY <1>1, <2>1, KeptWhenSame
<1>13. CASE SyncReturns
  <2>1. UNCHANGED input /\ (In("sync") \/ In("block"))
    BY <1>0, <1>13 DEF SyncReturns
  <2>2. CASE In("sync")
    BY <1>1, <2>1, <2>2, KeptWhenSame
  <2>3. CASE ~In("sync")
    <3>1. In("block") /\ stack' = Past
      BY <1>0, <1>13, <2>1, <2>3 DEF SyncReturns, Step
    <3>2. /\ Len(stack) \in Nat /\ Len(stack) > 1 /\ Top \in Frames /\ Top.at \in Nat /\ Top.at # 0
          /\ Depth = Len(stack) /\ Function = Functions[Top.p] /\ Top.p \in DOMAIN Functions
      BY <3>1, RunningFacts DEF In
    <3> DEFINE g == [Top EXCEPT !.at = Top.at + 1]
    <3>3. g.p = Top.p /\ g.at = Top.at + 1
      BY <3>2, NextItem, FrameAt
    <3>4. stack' = [stack EXCEPT ![Len(stack)] = g]
      BY <3>1, <3>2 DEF Past, Goto, WithTop
    <3> HIDE DEF g
    <3>5. Len(stack) \in 2..Len(stack) /\ Top.at + 1 > 1
      BY <3>2
    <3>6. Chain(stack)
      BY DEF StackInv, StackOK
    <3>7. Len(stack) \in 1..Len(stack) /\ stack \in Seq(Frames)
      BY <3>5, <3>6 DEF Chain
    <3>8. g \in Frames
      BY <3>2, NextItem, FrameAt DEF g
    <3>9. stack'[Len(stack)] = g /\ Len(stack') = Len(stack)
      BY <3>4, <3>7, <3>8, ExceptSeq
    <3>10. IsOpen(g)
      BY <3>1, <3>2, <3>3, <3>5 DEF IsOpen, In
    <3>11. InBlock(stack')
      BY <3>5, <3>9, <3>10 DEF InBlock
    <3> QED BY <2>1, <3>11, KeptWhenSame
  <2> QED BY <2>2, <2>3
<1>14. CASE BlockOpens
  <2>0. \A n \in Nat : n = 1 => ~(n > 1)
    OBVIOUS
  <2>4. Top.at \in Nat /\ Top.at = 1
    BY <1>14, RunningFacts DEF BlockOpens, In
  <2>1. ~IsOpen(Top)
    BY <2>0, <2>4 DEF IsOpen
  <2>2. PICK q \in Hit(1, {Function.open}) \cup Miss(1, {Function.open}) : queue' = q \/ queue' = Tail(q)
    BY <1>14 DEF BlockOpens, Reads
  <2>3. Kept \/ Shifted
    BY <2>2, HitMissKept, KeptWhenNarrowed, ShiftedByTail
  <2> QED BY <1>0, <2>1, <2>3, BlockStays
<1>15. CASE BlockCloses
  <2>1. CASE \E q \in Hit(1, {Function.close}) : Reads(Tail(q))
    BY <2>1, HitMissKept, ShiftedByTail DEF Reads
  <2>2. CASE \E q \in Miss(1, {Function.close}) : queue' = q /\ stack' = stack
    BY <2>2, HitMissKept, KeptWhenNarrowed
  <2> QED BY <1>15, <2>1, <2>2 DEF BlockCloses
<1>16. CASE NextDeclaration \/ DeclarationDone \/ EndOfUnit
  <2>1. InUnit
    BY <1>16 DEF NextDeclaration, DeclarationDone, EndOfUnit
  <2>2. ~InBlock(stack)
    <3>1. 2..Len(stack) = {}
      BY <2>1, UnitFacts
    <3> QED BY <3>1 DEF InBlock
  <2>3. UNCHANGED input \/ \E q \in Hit(1, {"eof"}) \cup Miss(1, {"eof"}) : Reads(q)
    BY <1>16 DEF NextDeclaration, DeclarationDone, EndOfUnit
  <2>4. Kept
    BY <2>3, KeptWhenSame, HitMissKept, KeptWhenNarrowed DEF Reads
  <2> QED BY <2>2, <2>4
<1> QED
  BY <1>2, <1>3, <1>4, <1>5, <1>6, <1>7, <1>8, <1>9, <1>10, <1>11, <1>12, <1>13, <1>14, <1>15,
     <1>16 DEF ReturnStep

-----------------------------------------------------------------------------
(* The end of the text *)

\* Errors are counted, or silenced.
HasFailed == errors > 0 \/ Salvaging(stack)

\* There is no token behind the end of the text, unless there has been an error or a
\* statement has looked at the token behind the next one.
EndsOK ==
  \A i \in 1..(Len(queue) - 1) : "eof" \in queue[i] => HasFailed \/ (i = 1 /\ InBlock(stack))

LEMMA FailedStays ==
  ASSUME StackInv, [Next]_vars, HasFailed
  PROVE  HasFailed'
<1>1. errors \in Nat /\ errors' \in Nat /\ (errors' = 0 => errors = 0 /\ (Salvaging(stack) => Salvaging(stack')))
  <2>1. StackStep
    BY EveryStep
  <2>2. errors \in 0..MaxErrors /\ errors' \in 0..MaxErrors /\ MaxErrors \in Nat
    BY <2>1, BoundsAssumption DEF StackStep, StackInv, FaultsOK
  <2> QED BY <2>1, <2>2 DEF StackStep
<1> QED BY <1>1 DEF HasFailed

LEMMA NotFailed ==
  ASSUME StackInv, ~HasFailed
  PROVE  ~Faulty /\ ~Salvaging(stack) /\ errors = 0 /\ scan = <<>>
<1>1. errors = 0 /\ ~Salvaging(stack)
  BY BoundsAssumption DEF StackInv, FaultsOK, HasFailed
<1> QED BY <1>1 DEF StackInv, FaultsOK, Faulty

LEMMA LexKeepsEnds ==
  ASSUME TokensOK, StackInv, ~HasFailed, EndsOK, Lex
  PROVE  EndsOK'
<1>1. PICK t \in Lexed : queue' = Append(queue, t)
  BY DEF Lex
<1>2. UNCHANGED <<stack, errors>> /\ Len(queue) < Wanted
  BY DEF Lex, status
<1>3. queue \in Seq(Tokens) /\ Len(queue) \in Nat
  BY LenProperties DEF TokensOK
<1>4. t \in Tokens
  BY LexedTokens
<1>5. Len(queue') = Len(queue) + 1 /\ \A i \in 1..Len(queue) : queue'[i] = queue[i]
  BY <1>1, <1>3, <1>4, AppendProperties
<1>6. ASSUME Len(queue) > 0
      PROVE  Len(queue) = 1 /\ InBlock(stack)
  <2>1. scan = <<>>
    BY NotFailed
  <2> DEFINE Two == result = "" /\ In("do") /\ ~AtEnd /\ "and" \in DOMAIN This
  <2>0. Wanted \in {0, 1} \/ (Two /\ Wanted \in {2})
    <3>0. ~(In("block") /\ In("do")) /\ ~(In("while") /\ In("do")) /\ ~(InUnit /\ In("do"))
      BY DEF In, Running
    <3>1. CASE stack = <<>> \/ result # ""
      BY <2>1, <3>1 DEF Wanted
    <3>2. CASE ~(stack = <<>> \/ result # "") /\ In("do") /\ ~AtEnd
      <4>1. Wanted = IF "and" \in DOMAIN This THEN 2 ELSE IF "toks" \in DOMAIN This THEN 1 ELSE 0
        BY <2>1, <3>0, <3>2 DEF Wanted
      <4> QED BY <3>2, <4>1
    <3>3. CASE ~(stack = <<>> \/ result # "") /\ ~(In("do") /\ ~AtEnd)
      <4>1. CASE InUnit
        BY <2>1, <3>3, <4>1 DEF Wanted, Running, In
      <4>2. CASE In("block") /\ ~InUnit
        BY <2>1, <3>3, <4>2 DEF Wanted
      <4>3. CASE In("while") /\ ~InUnit /\ ~In("block")
        BY <2>1, <3>3, <4>3 DEF Wanted
      <4>4. CASE ~In("while") /\ ~InUnit /\ ~In("block")
        BY <2>1, <3>3, <4>4 DEF Wanted
      <4> QED BY <4>1, <4>2, <4>3, <4>4
    <3> QED BY <3>1, <3>2, <3>3
  <2>9. \A w, n \in Nat : n > 0 /\ n < w => w # 0 /\ w # 1 /\ (w = 2 => n = 1)
    OBVIOUS
  <2>10. Wanted \in Nat
    <3> HIDE DEF Two
    <3>1. \A w \in {0, 1} \cup {2} : w \in Nat
      OBVIOUS
    <3> QED BY <2>0, <3>1
  <2>2. Two /\ Wanted = 2 /\ Len(queue) = 1
    <3> HIDE DEF Two
    <3>1. Wanted # 0 /\ Wanted # 1 /\ (Wanted = 2 => Len(queue) = 1)
      BY <1>2, <1>3, <1>6, <2>9, <2>10
    <3> QED BY <2>0, <3>1
  <2>3. PICK do : At(do)
    BY <2>2 DEF At
  <2>4. ItemOK(Top.p, Top.at, This)
    BY <2>3, ItemFacts
  <2>5. Top.p \notin Outer
    BY <2>2, <2>4 DEF ItemOK
  <2>6. Len(stack) \in 2..Len(stack) /\ Top = stack[Len(stack)]
    <3>1. Len(stack) \in Nat /\ Len(stack) > 1 /\ Top = stack[Len(stack)]
      BY <2>2, RunningFacts DEF In
    <3>2. \A n \in Nat : n > 1 => n \in 2..n
      OBVIOUS
    <3> QED BY <3>1, <3>2
  <2>7. InBlock(stack)
    BY <2>5, <2>6, NotFailed, InnerIsInBlock DEF StackInv, StackOK
  <2> QED BY <2>2, <2>7
<1>7. ASSUME NEW i \in 1..(Len(queue') - 1), "eof" \in queue'[i]
      PROVE  i = 1 /\ InBlock(stack)
  <2>1. i \in 1..Len(queue) /\ "eof" \in queue[i]
    BY <1>3, <1>5, <1>7
  <2>2. CASE i \in 1..(Len(queue) - 1)
    BY <2>1, <2>2 DEF EndsOK
  <2>3. CASE i \notin 1..(Len(queue) - 1)
    <3>1. Len(queue) > 0 /\ i = Len(queue)
      BY <1>3, <2>1, <2>3
    <3> QED BY <1>6, <3>1
  <2> QED BY <2>2, <2>3
<1> QED BY <1>2, <1>7 DEF EndsOK

LEMMA EndsStep ==
  ASSUME TokensOK, StackInv, EndsOK, [Next]_vars
  PROVE  EndsOK'
<1>1. CASE HasFailed
  BY <1>1, FailedStays DEF EndsOK
<1>2. CASE ~HasFailed
  <2>1. ~Faulty /\ scan = <<>> /\ Shape(stack, stack')
    BY <1>2, NotFailed, EveryStep DEF StackStep
  <2>2. CASE UNCHANGED vars
    BY <2>2 DEF vars, input, status, EndsOK, HasFailed
  <2>3. CASE Lex
    BY <1>2, <2>3, LexKeepsEnds
  <2>4. CASE ItemStep \/ ReturnStep
    <3>1. Shifted \/ (Kept /\ (InBlock(stack) => InBlock(stack')))
      <4>1. CASE ItemStep
        <5>1. In("do") /\ Running /\ (Kept \/ Shifted)
          BY <4>1, ItemStepMoves DEF In
        <5> QED BY <2>1, <5>1, OtherForm, BlockStays
      <4>2. CASE ReturnStep
        BY <2>1, <4>2, ReturnStepMoves
      <4> QED BY <2>4, <4>1, <4>2
    <3>2. Shifted => \A i \in 1..(Len(queue') - 1) : "eof" \notin queue'[i]
      <4> SUFFICES ASSUME Shifted, NEW i \in 1..(Len(queue') - 1), "eof" \in queue'[i] PROVE FALSE
        OBVIOUS
      <4>1. PICK j \in 2..(Len(queue) - 1) : queue'[i] \subseteq queue[j]
        BY DEF Shifted
      <4>2. j \in 1..(Len(queue) - 1) /\ j # 1
        BY LenProperties DEF TokensOK
      <4> QED BY <1>2, <4>1, <4>2 DEF EndsOK
    <3>3. Kept => \A i \in 1..(Len(queue') - 1) : "eof" \in queue'[i] => i = 1 /\ InBlock(stack)
      BY <1>2 DEF EndsOK, Kept
    <3> QED BY <3>1, <3>2, <3>3 DEF EndsOK
  <2> QED BY <2>1, <2>2, <2>3, <2>4 DEF Next, SyncTo
<1> QED BY <1>1, <1>2

\* Only translation_unit() does anything while no function of the grammar runs.
LEMMA NotRunning ==
  ASSUME ~Running
  PROVE  ~ItemStep /\ (ReturnStep => NextDeclaration \/ DeclarationDone \/ EndOfUnit)
<1>5. \A do : ~At(do)
  BY DEF At, In
<1>6. \A form : ~In(form)
  BY DEF In
<1>8. \A o : ~Back2(o)
  BY <1>6 DEF Back2
<1>9. ~ItemStep
  <2> SUFFICES ASSUME ItemStep PROVE FALSE
    OBVIOUS
  <2> QED BY <1>5, <1>6 DEF ItemStep, TokenHit, TokenMiss, AtToken, NameHit, TypeNameHit,
    TypeNameMiss, DecorateHit, DecorateMiss, TwoHit, TwoMiss, CallItem, FailItem, CastItem,
    TakeAccess, Consumed, Register, Stop, GoOn, TooDeep, Reject, Finish
<1>10. ReturnStep => NextDeclaration \/ DeclarationDone \/ EndOfUnit
  BY <1>6, <1>8 DEF ReturnStep, ItemDone, NoContinuing, ItemFails, ItemSeeks, Skip,
    Descend, AltReturns, ManyReturns, WhileRound, WhileStop, WhileReturns, SyncReturns, BlockOpens,
    BlockCloses
<1> QED BY <1>9, <1>10

\* A parser that has returned does nothing more.
LEMMA NothingAfterReturn ==
  ASSUME StackInv, stack = <<>>, Next
  PROVE  FALSE
<1>1. scan = <<>>
  <2>1. ~(Len(stack) > 1)
    BY EmptySeq
  <2> QED BY <2>1 DEF StackInv, StackOK
<1>2. ~Running /\ ~InUnit
  BY DEF Running, InUnit
<1>3. ~Lex
  <2>1. Wanted = 0
    BY <1>1 DEF Wanted
  <2> QED BY <2>1, LenProperties DEF Lex
<1>4. ~SyncTo
  BY <1>1 DEF SyncTo
<1>5. ~NextDeclaration /\ ~DeclarationDone /\ ~EndOfUnit
  BY <1>2 DEF NextDeclaration, DeclarationDone, EndOfUnit
<1> QED BY <1>2, <1>3, <1>4, <1>5, NotRunning DEF Next

\* When only the end of the text can be left of a token, it is the only token.
LEMMA OnlyTheEnd ==
  ASSUME TokensOK, StackInv, EndsOK, ~HasFailed, InUnit, NEW q \in Hit(1, {"eof"})
  PROVE  q = <<{"eof"}>>
<1> DEFINE e == {"eof"}
<1>1. queue[1] \cap e \in SUBSET Kinds
  BY DEF Kinds, Ends
<1>2. q \in Seq(Tokens) /\ Len(q) = Len(queue) /\ q = [queue EXCEPT ![1] = queue[1] \cap e]
  BY <1>1, NarrowedTokens DEF Hit
<1>3. 1 \in 1..Len(queue) /\ queue[1] \cap e # {}
  BY <1>1, NarrowedTokens DEF Hit
<1>4. "eof" \in queue[1] /\ queue[1] \cap e = e
  BY <1>3
<1>5. ~InBlock(stack)
  <2>1. 2..Len(stack) = {}
    BY UnitFacts
  <2> QED BY <2>1 DEF InBlock
<1>6. Len(queue) = 1
  <2>1. 1 \notin 1..(Len(queue) - 1)
    BY <1>4, <1>5 DEF EndsOK
  <2>2. Len(queue) \in Nat
    BY LenProperties DEF TokensOK
  <2>3. \A n \in Nat : 1 \in 1..n /\ 1 \notin 1..(n - 1) => n = 1
    OBVIOUS
  <2> QED BY <1>3, <2>1, <2>2, <2>3
<1>7. q[1] = e
  <2>1. DOMAIN queue = 1..Len(queue)
    BY LenProperties DEF TokensOK
  <2> QED BY <1>2, <1>3, <1>4, <2>1
<1>8. e \in Tokens
  BY <1>1, <1>4 DEF Tokens
<1> HIDE DEF e
<1>9. PICK r : r = Append(<<>>, e)
  OBVIOUS
<1>10. r \in Seq(Tokens) /\ Len(r) = 1 /\ r[1] = e
  <2>1. <<>> \in Seq(Tokens) /\ Len(<<>>) = 0
    BY EmptySeq
  <2> QED BY <1>8, <1>9, <2>1, AppendProperties
<1>11. q = r
  <2>1. Len(q) = Len(r) /\ \A i \in 1..Len(q) : i = 1
    BY <1>2, <1>6, <1>10
  <2>2. \A i \in 1..Len(q) : q[i] = r[i]
    BY <1>7, <1>10, <2>1
  <2> QED BY <1>2, <1>10, <2>1, <2>2, SeqEqual
<1>12. <<e>> = Append(<<>>, e)
  OBVIOUS
<1> QED BY <1>9, <1>11, <1>12 DEF e

LEMMA SuccessStep ==
  ASSUME TokensOK, StackInv, EndsOK, SuccessMeansWholeText, [Next]_vars
  PROVE  SuccessMeansWholeText'
<1>1. CASE UNCHANGED vars
  BY <1>1 DEF vars, input, status, SuccessMeansWholeText
<1>2. CASE Next
  <2> SUFFICES ASSUME stack' = <<>>, errors' = 0 PROVE queue' = <<{"eof"}>>
    BY DEF SuccessMeansWholeText
  <2>1. stack # <<>>
    BY <1>2, NothingAfterReturn
  <2>2. errors = 0 /\ Len(stack') >= Len(stack) - 1
    BY EveryStep DEF StackStep, Shape
  <2>3. Chain(stack) /\ Len(stack) \in Nat /\ Len(stack) # 0
    BY <2>1, ChainFacts DEF StackInv, StackOK
  <2>4. Len(stack) = 1
    <3>1. Len(stack') = 0
      BY EmptySeq
    <3>2. \A m, n \in Nat : m = 0 /\ m >= n - 1 /\ n # 0 => n = 1
      OBVIOUS
    <3> QED BY <2>2, <2>3, <3>1, <3>2
  <2>5. InUnit
    <3>1. 1 \in 1..Len(stack) /\ Top = stack[1]
      BY <2>4 DEF Top, Depth
    <3> QED BY <2>1, <2>3, <3>1 DEF InUnit, Chain
  <2>6. scan = <<>> /\ ~Salvaging(stack) /\ ~Faulty
    BY <2>2, <2>5, UnitFacts
  <2>7. ~HasFailed
    BY <2>2, <2>6 DEF HasFailed
  <2>8. ~Running
    BY <2>5 DEF Running
  <2>9. ~Lex
    BY <2>1 DEF Lex
  <2>10. ~NextDeclaration
    <3> SUFFICES ASSUME NextDeclaration PROVE FALSE
      OBVIOUS
    <3>1. StackStep
      BY EveryStep
    <3>2. stack' = Append(stack, Frame("expect_global_decl"))
      BY DEF NextDeclaration, Step, Calling
    <3>3. "expect_global_decl" \in Programs
      BY DomainOfFunctions DEF Programs
    <3>4. Frame("expect_global_decl") \in Frames
      BY <3>3, FramesFacts
    <3>5. stack' # <<>>
      BY <2>3, <3>2, <3>4, AppendProperties DEF Chain
    <3> QED BY <3>5
  <2>11. ~DeclarationDone
    BY <2>1, <2>2, BoundsAssumption DEF DeclarationDone, Step
  <2>12. EndOfUnit
    BY <1>2, <2>6, <2>8, <2>9, <2>10, <2>11, NotRunning DEF Next, SyncTo
  <2>13. PICK q \in Hit(1, {"eof"}) : queue' = q
    BY <2>6, <2>12 DEF EndOfUnit, Faulty, Reads
  <2> QED BY <2>5, <2>7, <2>13, OnlyTheEnd
<1> QED BY <1>1, <1>2

LEMMA InitEnds == Init => EndsOK /\ SuccessMeansWholeText
<1> SUFFICES ASSUME Init PROVE EndsOK /\ stack # <<>>
  BY DEF SuccessMeansWholeText
<1>1. PICK t \in Texts : queue = [i \in DOMAIN t.first |-> {t.first[i]}]
  BY DEF Init
<1>2. t.first \in Seq(Written)
  BY TextsAssumption
<1>3. DOMAIN t.first = 1..Len(t.first) /\ Len(t.first) \in Nat
  BY <1>2, LenProperties
<1>4. Len(queue) = Len(t.first)
  BY <1>1, <1>3
<1>5. ASSUME NEW i \in 1..(Len(queue) - 1)
      PROVE  "eof" \notin queue[i]
  <2>1. i \in 1..Len(t.first)
    BY <1>3, <1>4
  <2>2. queue[i] = {t.first[i]}
    BY <1>1, <1>3, <2>1
  <2>3. t.first[i] \in Written
    BY <1>2, <2>1, ElementOfSeq
  <2> QED BY <2>2, <2>3 DEF Written
<1>6. stack # <<>>
  BY DEF Init
<1> QED BY <1>5, <1>6 DEF EndsOK

\* Parse() returns true only when the parser has come to the end of the text: whatever
\* the text, when it returns and diags_ holds no error, nothing but the end is left.
\* Out of synchronization it has reported an error, and it does not take the end of the
\* text for a token of a declaration.
THEOREM SuccessIsWholeText == Spec => []SuccessMeansWholeText
<1> DEFINE Inv == EndsOK /\ SuccessMeansWholeText
<1>1. Init => Inv
  BY InitEnds
<1>2. ScanInv /\ StackInv /\ Inv /\ [Next]_vars => Inv'
  BY EndsStep, SuccessStep DEF ScanInv
<1>3. Spec => [](ScanInv /\ StackInv)
  BY ScanInvInvariant, StackInvariant, PTL
<1> QED BY <1>1, <1>2, <1>3, PTL DEF Spec
===============================================================================
