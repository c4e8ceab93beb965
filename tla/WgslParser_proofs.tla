-------------------------- MODULE WgslParser_proofs --------------------------
(***************************************************************************)
(* Proofs about WgslParser: for any texts and any bounds, error recovery   *)
(* drops no bracket that closes a block the parser is in.                  *)
(*                                                                         *)
(* The counters of a scan are the brackets among the tokens it has passed  *)
(* (Balanced), and the counter of a bracket somebody waits for does not    *)
(* become negative (NotBelow): a closing one is passed only while the      *)
(* counter is positive.                                                    *)
(***************************************************************************)
EXTENDS WgslParser, Integers, FiniteSetTheorems, SequenceTheorems, TLAPS

\* The kinds of tokens; no prover knows that "eof" is a string.
Kinds == STRING \cup UNION Ends

\* A token is the kinds it may still be: at least one.
Tokens == (SUBSET Kinds) \ {{}}

TokensOK ==
  /\ queue \in Seq(Tokens)
  /\ text \in [kinds : SUBSET Kinds, left : Nat] /\ (text.left > 0 => text.kinds # {})

\* A scan belongs to a function that has called sync_to.
ScanOK ==
  scan # <<>> =>
    /\ scan = [to |-> scan.to, take |-> scan.take, ix |-> scan.ix, depth |-> scan.depth]
    /\ stack # <<>> /\ ~InUnit
    /\ scan.ix \in Nat \ {0} /\ scan.ix <= Len(queue) + 1
    /\ scan.depth \in [DOMAIN Openers -> Int]

Balanced ==
  scan # <<>> =>
    \A b \in DOMAIN Openers : scan.depth[b] = NumberOf(Openers[b]) - NumberOf(Closers[b])

NotBelow ==
  scan # <<>> =>
    \A b \in DOMAIN Openers : Closers[b] \in SyncTokens \cup {scan.to} => scan.depth[b] >= 0

ScanInv == TokensOK /\ ScanOK /\ Balanced /\ NotBelow
-----------------------------------------------------------------------------
(* Tokens *)

\* An opening and a closing bracket are never the same kind.
LEMMA Sides ==
  /\ DOMAIN Openers = DOMAIN Closers
  /\ \A b, d \in DOMAIN Openers :
       /\ Openers[b] # Closers[d]
       /\ Openers[b] = Openers[d] => b = d
       /\ Closers[b] = Closers[d] => b = d
<1> DEFINE Pairs == {"attrs", "brace", "bracket", "paren"}
<1>1. DOMAIN Openers = Pairs /\ DOMAIN Closers = Pairs
  BY DEF Openers, Closers
<1>2. /\ Openers["attrs"] = "[[" /\ Openers["brace"] = "{" /\ Openers["bracket"] = "[" /\ Openers["paren"] = "("
      /\ Closers["attrs"] = "]]" /\ Closers["brace"] = "}" /\ Closers["bracket"] = "]" /\ Closers["paren"] = ")"
  BY DEF Openers, Closers
<1> HIDE DEF Pairs
<1>3. \A b \in Pairs : b = "attrs" \/ b = "brace" \/ b = "bracket" \/ b = "paren"
  BY DEF Pairs
<1>5. \A b, d \in Pairs : Openers[b] # Closers[d]
  BY <1>2, <1>3
<1>6. \A b, d \in Pairs : (Openers[b] = Openers[d] => b = d) /\ (Closers[b] = Closers[d] => b = d)
  BY <1>2, <1>3
<1> QED BY <1>1, <1>5, <1>6

LEMMA TailOfTokens ==
  ASSUME NEW q \in Seq(Tokens), q # <<>>
  PROVE  Tail(q) \in Seq(Tokens)
BY HeadTailProperties

LEMMA TailOfTailOfTokens ==
  ASSUME NEW q \in Seq(Tokens), 2 \in 1..Len(q)
  PROVE  Tail(Tail(q)) \in Seq(Tokens)
<1>1. Len(<<>>) = 0
  BY EmptySeq
<1>2. Len(q) \in Nat /\ Len(q) >= 2
  BY LenProperties
<1>3. q # <<>>
  BY <1>1, <1>2
<1>4. Tail(q) \in Seq(Tokens) /\ Len(Tail(q)) = Len(q) - 1
  BY <1>3, HeadTailProperties
<1>5. Len(Tail(q)) # 0
  BY <1>2, <1>4
<1>6. Tail(q) # <<>>
  BY <1>1, <1>5
<1> QED BY <1>4, <1>6, TailOfTokens

\* A token is narrowed in its place.
LEMMA NarrowedTokens ==
  ASSUME TokensOK, NEW i, NEW kinds \in SUBSET Kinds, NEW q \in Narrowed(i, kinds)
  PROVE  /\ q \in Seq(Tokens) /\ q # <<>>
         /\ i \in 1..Len(queue) /\ kinds # {}
         /\ q = [queue EXCEPT ![i] = kinds] /\ Len(q) = Len(queue)
<1>1. i \in DOMAIN queue /\ kinds # {} /\ q = [queue EXCEPT ![i] = kinds]
  BY DEF Narrowed
<1>2. i \in 1..Len(queue) /\ queue \in Seq(Tokens)
  BY <1>1, LenProperties DEF TokensOK
<1>5. kinds \in Tokens
  BY <1>1 DEF Tokens
<1>3. q \in Seq(Tokens) /\ Len(q) = Len(queue)
  BY <1>1, <1>2, <1>5, ExceptSeq
<1>4. q # <<>>
  BY <1>2, <1>3, EmptySeq
<1> QED BY <1>1, <1>2, <1>3, <1>4

LEMMA HitTokens ==
  ASSUME TokensOK, NEW i, NEW S, NEW q \in Hit(i, S)
  PROVE  q \in Seq(Tokens) /\ q # <<>> /\ i \in 1..Len(queue) /\ Len(q) = Len(queue)
<1>1. i \in DOMAIN queue
  BY DEF Hit, Narrowed
<1>2. queue[i] \cap S \in SUBSET Kinds
  BY <1>1, LenProperties, ElementOfSeq DEF TokensOK, Tokens
<1> QED BY <1>2, NarrowedTokens DEF Hit

LEMMA MissTokens ==
  ASSUME TokensOK, NEW i, NEW S, NEW q \in Miss(i, S)
  PROVE  q \in Seq(Tokens) /\ q # <<>> /\ i \in 1..Len(queue) /\ Len(q) = Len(queue)
<1>1. i \in DOMAIN queue
  BY DEF Miss, Narrowed
<1>2. queue[i] \ S \in SUBSET Kinds
  BY <1>1, LenProperties, ElementOfSeq DEF TokensOK, Tokens
<1> QED BY <1>2, NarrowedTokens DEF Miss

\* Both tokens are narrowed.
LEMMA BothTokens ==
  ASSUME TokensOK, NEW S, NEW T, Hit(1, S) # {}, Hit(2, T) # {}, NEW q,
         q = [queue EXCEPT ![1] = @ \cap S, ![2] = @ \cap T]
  PROVE  /\ queue \in Seq(Tokens) /\ 1 \in 1..Len(queue) /\ 2 \in 1..Len(queue)
         /\ q \in Seq(Tokens) /\ Len(q) = Len(queue) /\ \A j \in 1..Len(q) : q[j] \subseteq queue[j]
<1>1. PICK q1 \in Hit(1, S), q2 \in Hit(2, T) : TRUE
  OBVIOUS
<1>2. queue \in Seq(Tokens) /\ 1 \in 1..Len(queue) /\ 2 \in 1..Len(queue)
  BY <1>1, HitTokens DEF TokensOK
<1>3. queue[1] \cap S \in Tokens /\ queue[2] \cap T \in Tokens
  <2>1. queue[1] \cap S # {} /\ queue[2] \cap T # {}
    BY <1>1 DEF Hit, Narrowed
  <2> QED BY <1>2, <2>1, ElementOfSeq DEF Tokens
<1> DEFINE h == [queue EXCEPT ![1] = queue[1] \cap S]
<1>4. h \in Seq(Tokens) /\ Len(h) = Len(queue) /\ h[2] = queue[2]
  BY <1>2, <1>3, ExceptSeq
<1>5. q = [h EXCEPT ![2] = h[2] \cap T]
  OBVIOUS
<1>6. q \in Seq(Tokens) /\ Len(q) = Len(queue)
  BY <1>2, <1>3, <1>4, <1>5, ExceptSeq
<1>7. \A j \in 1..Len(queue) : q[j] \subseteq queue[j]
  BY <1>2, LenProperties
<1> QED BY <1>2, <1>6, <1>7

\* The first token is another one, or the second.
LEMMA OneMissTokens ==
  ASSUME TokensOK, NEW S, NEW T,
         NEW q, q \in Miss(1, S) \/ \E h \in Hit(1, S) : q = [h EXCEPT ![2] = @ \ T], q[2] # {}
  PROVE  q \in Seq(Tokens) /\ Len(q) = Len(queue) /\ \A j \in 1..Len(q) : q[j] \subseteq queue[j]
<1>0. \A r \in Hit(1, S) \cup Miss(1, S) :
        r \in Seq(Tokens) /\ Len(r) = Len(queue) /\ \A j \in 1..Len(r) : r[j] \subseteq queue[j]
  <2> TAKE r \in Hit(1, S) \cup Miss(1, S)
  <2>1. r \in Seq(Tokens) /\ Len(r) = Len(queue)
    BY HitTokens, MissTokens
  <2>2. PICK kinds : kinds \subseteq queue[1] /\ r = [queue EXCEPT ![1] = kinds]
    BY DEF Hit, Miss, Narrowed
  <2>3. \A j \in 1..Len(queue) : r[j] \subseteq queue[j]
    BY <2>2, LenProperties DEF TokensOK
  <2> QED BY <2>1, <2>3
<1>1. CASE q \in Miss(1, S)
  BY <1>0, <1>1
<1>2. CASE q \notin Miss(1, S)
  <2>1. PICK h \in Hit(1, S) : q = [h EXCEPT ![2] = @ \ T]
    BY <1>2
  <2>2. /\ h \in Seq(Tokens) /\ h \in [1..Len(h) -> Tokens] /\ Len(h) \in Nat /\ DOMAIN h = 1..Len(h)
        /\ Len(h) = Len(queue) /\ \A j \in 1..Len(h) : h[j] \subseteq queue[j]
    BY <1>0, LenProperties
  <2>3. CASE 2 \in 1..Len(h)
    <3>1. q[2] = h[2] \ T
      BY <2>1, <2>2, <2>3
    <3>2. h[2] \ T \in Tokens
      BY <2>2, <2>3, <3>1 DEF Tokens
    <3>3. q \in Seq(Tokens) /\ Len(q) = Len(h)
      BY <2>1, <2>2, <2>3, <3>2, ExceptSeq
    <3>4. \A j \in 1..Len(h) : q[j] \subseteq h[j]
      BY <2>1, <2>2
    <3> QED BY <2>2, <3>3, <3>4
  <2>4. CASE 2 \notin 1..Len(h)
    <3>1. q = h
      BY <2>1, <2>2, <2>4
    <3> QED BY <2>2, <3>1
  <2> QED BY <2>3, <2>4
<1> QED BY <1>1, <1>2

LEMMA TakenTokens == TokensOK /\ Taken => TokensOK'
BY TailOfTokens DEF Taken, Reads, TokensOK

LEMMA SameTokens == TokensOK /\ UNCHANGED input => TokensOK'
BY DEF TokensOK, input

-----------------------------------------------------------------------------
(* Steps without a scan *)

LEMMA NoScan == TokensOK' /\ scan' = <<>> => ScanInv'
BY DEF ScanInv, ScanOK, Balanced, NotBelow

LEMMA OutcomeKeepsScan ==
  ASSUME NEW o, Outcome(o)
  PROVE  scan' = scan
BY DEF Outcome, Step, Return, Report

\* Outside of translation_unit() a function runs only while there is no scan.
LEMMA RunningHasNoScan ==
  /\ \A do : At(do) => scan = <<>> /\ stack # <<>> /\ ~InUnit
  /\ \A form : In(form) => scan = <<>> /\ stack # <<>> /\ ~InUnit
  /\ \A o : Back2(o) => scan = <<>> /\ stack # <<>> /\ ~InUnit
BY DEF At, In, Back2, Running

LEMMA ItemStepPreserves == ScanInv /\ ItemStep => ScanInv'
<1> SUFFICES ASSUME ScanInv, ItemStep PROVE TokensOK' /\ scan' = <<>>
  BY NoScan
<1> USE RunningHasNoScan
<1>0. TokensOK
  BY DEF ScanInv
<1>1. CASE TokenHit
  <2>1. scan' = <<>>
    BY <1>1, OutcomeKeepsScan DEF TokenHit, AtToken
  <2>2. PICK q \in Hit(1, Toks) : Reads(IF This.do \in Peeks THEN q ELSE Tail(q))
    BY <1>1 DEF TokenHit
  <2>3. queue' \in Seq(Tokens) /\ text' = text
    BY <1>0, <2>2, HitTokens, TailOfTokens DEF Reads
  <2> QED BY <1>0, <2>1, <2>3 DEF TokensOK
<1>2. CASE TokenMiss
  <2>1. scan' = <<>>
    BY <1>2, OutcomeKeepsScan DEF TokenMiss, AtToken
  <2>2. PICK q \in Miss(1, Toks) : Reads(q)
    BY <1>2 DEF TokenMiss
  <2> QED BY <1>0, <2>1, <2>2, MissTokens DEF Reads, TokensOK
<1>3. CASE NameHit
  BY <1>0, <1>3, TakenTokens DEF NameHit, Step
<1>4. CASE TypeNameHit
  BY <1>0, <1>4, TakenTokens DEF TypeNameHit, Return, Report
<1>5. CASE TypeNameMiss
  BY <1>0, <1>5, MissTokens DEF TypeNameMiss, Return, Reads, TokensOK
<1>6. CASE DecorateHit
  BY <1>0, <1>6, TakenTokens DEF DecorateHit, Step
<1>7. CASE DecorateMiss
  BY <1>0, <1>7, MissTokens DEF DecorateMiss, Return, Reads, TokensOK
<1>8. CASE TwoHit
  <2>1. scan' = <<>>
    BY <1>8 DEF TwoHit, Step, Report, Return
  <2> DEFINE both == [queue EXCEPT ![1] = @ \cap This.toks, ![2] = @ \cap This.and]
  <2>2. queue \in Seq(Tokens) /\ 2 \in 1..Len(queue) /\ both \in Seq(Tokens)
    BY <1>0, <1>8, BothTokens DEF TwoHit
  <2>4. Tail(Tail(queue)) \in Seq(Tokens)
    BY <2>2, TailOfTailOfTokens
  <2> QED BY <1>0, <1>8, <2>1, <2>2, <2>4 DEF TwoHit, Reads, TokensOK
<1>9. CASE TwoMiss
  <2>1. scan' = <<>>
    BY <1>9 DEF TwoMiss, Step, Return
  <2>2. PICK q \in Miss(1, This.toks) \cup {[h EXCEPT ![2] = @ \ This.and] : h \in Hit(1, This.toks)} :
          q[2] # {} /\ Reads(q)
    BY <1>9 DEF TwoMiss
  <2>3. q \in Seq(Tokens)
    BY <1>0, <2>2, OneMissTokens
  <2> QED BY <1>0, <2>1, <2>2, <2>3 DEF Reads, TokensOK
<1>10. CASE CallItem
  BY <1>0, <1>10, SameTokens DEF CallItem, Step
<1>11. CASE FailItem
  BY <1>0, <1>11, SameTokens DEF FailItem, Report, Return
<1>12. CASE CastItem
  BY <1>0, <1>12, SameTokens DEF CastItem
<1>13. CASE TakeAccess
  BY <1>0, <1>13, SameTokens DEF TakeAccess, Step
<1>14. CASE Consumed
  BY <1>0, <1>14, SameTokens DEF Consumed, Step, Report, Return
<1>15. CASE Register
  BY <1>0, <1>15, SameTokens DEF Register, Step
<1>16. CASE Stop
  BY <1>0, <1>16, SameTokens DEF Stop, Return
<1>17. CASE GoOn
  BY <1>0, <1>17, SameTokens DEF GoOn, Step
<1>18. CASE TooDeep
  BY <1>0, <1>18, SameTokens DEF TooDeep, Report, Return
<1>19. CASE Reject
  BY <1>0, <1>19, TakenTokens DEF Reject, Report, Return
<1>20. CASE Finish
  BY <1>0, <1>20, SameTokens DEF Finish, Return
<1> QED
  BY <1>1, <1>2, <1>3, <1>4, <1>5, <1>6, <1>7, <1>8, <1>9, <1>10, <1>11, <1>12, <1>13, <1>14,
     <1>15, <1>16, <1>17, <1>18, <1>19, <1>20 DEF ItemStep

-----------------------------------------------------------------------------
(* A scan starts *)

\* No token has been passed, and all counters are zero.
LEMMA ScanStarts ==
  ASSUME TokensOK', stack # <<>>, ~InUnit, stack' = stack, NEW to, NEW take,
         scan' = [to |-> to, take |-> take, ix |-> 1, depth |-> [b \in DOMAIN Openers |-> 0]]
  PROVE  ScanInv'
<1>1. ScanOK'
  BY LenProperties DEF ScanOK, TokensOK, InUnit, Top, Depth
<1>2. \A k : NumberOf(k)' = 0
  <2>1. Dropped' = <<>>
    BY SubSeqEmpty DEF Dropped
  <2>2. DOMAIN Dropped' = {}
    BY <2>1
  <2> QED BY <2>2, FS_EmptySet DEF NumberOf
<1>3. Balanced'
  BY <1>2 DEF Balanced
<1>4. NotBelow'
  BY DEF NotBelow
<1> QED BY <1>1, <1>3, <1>4 DEF ScanInv

LEMMA SeekStarts ==
  ASSUME TokensOK, stack # <<>>, ~InUnit, UNCHANGED stack, NEW to, NEW take, Seek(to, take)
  PROVE  ScanInv'
BY ScanStarts, SameTokens DEF Seek

LEMMA ReturnStepPreserves == ScanInv /\ ReturnStep => ScanInv'
<1> SUFFICES ASSUME ScanInv, ReturnStep PROVE ScanInv'
  OBVIOUS
<1> USE RunningHasNoScan
<1>0. TokensOK /\ (InUnit => scan = <<>>)
  BY DEF ScanInv, ScanOK
<1>1. CASE ItemDone
  BY <1>0, <1>1, SameTokens, NoScan DEF ItemDone, Step, Return
<1>2. CASE NoContinuing
  BY <1>0, <1>2, SameTokens, NoScan DEF NoContinuing, Step
<1>3. CASE ItemFails
  BY <1>0, <1>3, SameTokens, NoScan DEF ItemFails, Report, Return
<1>4. CASE ItemSeeks
  BY <1>0, <1>4, SeekStarts DEF ItemSeeks
<1>5. CASE Skip
  BY <1>0, <1>5, TakenTokens, NoScan DEF Skip, Report, Return
<1>6. CASE AltReturns
  BY <1>0, <1>6, SameTokens, NoScan DEF AltReturns, Step, Return
<1>7. CASE ManyReturns
  BY <1>0, <1>7, SameTokens, NoScan DEF ManyReturns, Step, Return
<1>8. CASE WhileRound
  <2>1. scan' = <<>>
    BY <1>8 DEF WhileRound, Step
  <2>2. TokensOK'
    BY <1>0, <1>8, MissTokens, SameTokens DEF WhileRound, Reads, TokensOK
  <2> QED BY <2>1, <2>2, NoScan
<1>9. CASE WhileStop
  <2>1. scan' = <<>>
    BY <1>9 DEF WhileStop, Return
  <2>2. TokensOK'
    BY <1>0, <1>9, HitTokens, SameTokens DEF WhileStop, Reads, TokensOK
  <2> QED BY <2>1, <2>2, NoScan
<1>10. CASE WhileReturns
  BY <1>0, <1>10, SameTokens, NoScan DEF WhileReturns, Step, Return
<1>11. CASE SyncReturns
  <2>1. CASE result = "errored"
    BY <1>0, <1>11, <2>1, SeekStarts DEF SyncReturns
  <2>2. CASE result # "errored"
    BY <1>0, <1>11, <2>2, SameTokens, NoScan DEF SyncReturns, Step, Return
  <2> QED BY <2>1, <2>2
<1>12. CASE BlockOpens
  <2>1. scan' = <<>>
    BY <1>12, OutcomeKeepsScan DEF BlockOpens, Step
  <2>2. TokensOK'
    BY <1>0, <1>12, HitTokens, MissTokens, TailOfTokens DEF BlockOpens, Reads, TokensOK
  <2> QED BY <2>1, <2>2, NoScan
<1>13. CASE BlockCloses
  <2>1. stack # <<>> /\ ~InUnit /\ scan = <<>>
    BY <1>13 DEF BlockCloses
  <2>2. CASE Return("matched")
    <3>1. TokensOK'
      BY <1>0, <1>13, HitTokens, MissTokens, TailOfTokens DEF BlockCloses, Reads, TokensOK
    <3> QED BY <2>1, <2>2, <3>1, NoScan DEF Return
  <2>3. CASE ~Return("matched")
    <3>1. TokensOK'
      BY <1>0, <1>13, <2>3, MissTokens DEF BlockCloses, TokensOK
    <3> QED BY <1>13, <2>1, <2>3, <3>1, ScanStarts DEF BlockCloses
  <2> QED BY <2>2, <2>3
<1>14. CASE NextDeclaration
  BY <1>0, <1>14, MissTokens, NoScan DEF NextDeclaration, Reads, Step, TokensOK
<1>15. CASE DeclarationDone
  BY <1>0, <1>15, SameTokens, NoScan DEF DeclarationDone, Step, Return
<1>16. CASE EndOfUnit
  <2>1. TokensOK'
    BY <1>0, <1>16, HitTokens, SameTokens DEF EndOfUnit, Reads, TokensOK
  <2> QED BY <1>0, <1>16, <2>1, NoScan DEF EndOfUnit, Return
<1>17. CASE Descend
  BY <1>0, <1>17, SameTokens, NoScan DEF Descend, Step
<1> QED
  BY <1>1, <1>2, <1>3, <1>4, <1>5, <1>6, <1>7, <1>8, <1>9, <1>10, <1>11, <1>12, <1>13, <1>14,
     <1>15, <1>16, <1>17 DEF ReturnStep

-----------------------------------------------------------------------------
(* A scan goes on *)

\* While there is a scan, its position is the number of tokens that are wanted.
LEMMA WantedByScan ==
  ASSUME scan # <<>>
  PROVE  Wanted = scan.ix
BY DEF Wanted

\* How often k is among the first n tokens of q.
Among(k, q, n) == Cardinality({i \in 1..n : q[i] = {k}})

LEMMA DroppedTokens ==
  ASSUME NEW q \in Seq(Tokens), NEW n \in Nat, n <= Len(q), NEW k
  PROVE  Cardinality({i \in DOMAIN SubSeq(q, 1, n) : SubSeq(q, 1, n)[i] = {k}}) = Among(k, q, n)
<1>1. Len(q) \in Nat /\ \A i \in 1..n : q[i] \in Tokens
  BY LenProperties, ElementOfSeq
<1>2. /\ SubSeq(q, 1, n) \in Seq(Tokens)
      /\ Len(SubSeq(q, 1, n)) = n
      /\ \A i \in 1..n : SubSeq(q, 1, n)[i] = q[i]
  BY <1>1, SubSeqProperties
<1>3. DOMAIN SubSeq(q, 1, n) = 1..n
  BY <1>2, LenProperties
<1>4. {i \in DOMAIN SubSeq(q, 1, n) : SubSeq(q, 1, n)[i] = {k}} = {i \in 1..n : q[i] = {k}}
  BY <1>2, <1>3
<1> QED BY <1>4 DEF Among

LEMMA AmongNext ==
  ASSUME NEW k, NEW q, NEW n \in Nat
  PROVE  /\ Among(k, q, n) \in Nat
         /\ Among(k, q, n + 1) = Among(k, q, n) + (IF q[n + 1] = {k} THEN 1 ELSE 0)
<1> DEFINE Places(m) == {i \in 1..m : q[i] = {k}}
<1>1. IsFiniteSet(1..n) /\ IsFiniteSet(1..(n + 1))
  BY FS_Interval
<1>2. IsFiniteSet(Places(n))
  BY <1>1, FS_Subset
<1>3. Cardinality(Places(n)) \in Nat
  BY <1>2, FS_CardinalityType
<1>4. CASE q[n + 1] = {k}
  <2>1. Places(n + 1) = Places(n) \cup {n + 1} /\ n + 1 \notin Places(n)
    BY <1>4
  <2>2. Cardinality(Places(n + 1)) = Cardinality(Places(n)) + 1
    BY <1>2, <2>1, FS_AddElement
  <2>3. Among(k, q, n) = Cardinality(Places(n)) /\ Among(k, q, n + 1) = Cardinality(Places(n + 1))
    BY DEF Among
  <2> HIDE DEF Places
  <2> QED BY <1>3, <1>4, <2>2, <2>3
<1>5. CASE q[n + 1] # {k}
  <2>1. Places(n + 1) = Places(n)
    BY <1>5
  <2>2. Among(k, q, n) = Cardinality(Places(n)) /\ Among(k, q, n + 1) = Cardinality(Places(n + 1))
    BY DEF Among
  <2> HIDE DEF Places
  <2> QED BY <1>3, <1>5, <2>1, <2>2
<1> QED BY <1>4, <1>5

LEMMA AmongSame ==
  ASSUME NEW k, NEW q, NEW r, NEW n \in Nat, \A i \in 1..n : q[i] = r[i]
  PROVE  Among(k, q, n) = Among(k, r, n)
<1>1. {i \in 1..n : q[i] = {k}} = {i \in 1..n : r[i] = {k}}
  OBVIOUS
<1> QED BY <1>1 DEF Among

\* A token that is read is one of the text, or its end.
LEMMA LexedTokens ==
  ASSUME TokensOK, NEW t \in Lexed
  PROVE  t \in Tokens /\ (t \notin Ends => text.left > 0)
<1>1. \A e \in Ends : e \in Tokens
  BY DEF Ends, Kinds, Tokens
<1>2. t \in Ends \/ (t = text.kinds /\ text.left > 0)
  BY DEF Lexed, TokensOK
<1> QED BY <1>1, <1>2 DEF TokensOK, Tokens

LEMMA LexPreserves == ScanInv /\ Lex => ScanInv'
<1> SUFFICES ASSUME ScanInv, Lex PROVE ScanInv'
  OBVIOUS
<1>1. PICK t \in Lexed :
        /\ queue' = Append(queue, t)
        /\ text' = IF t \in Ends THEN [kinds |-> t, left |-> 0] ELSE [text EXCEPT !.left = @ - 1]
  BY DEF Lex
<1>2. t \in Tokens /\ (t \notin Ends => text.left > 0)
  BY LexedTokens DEF ScanInv
<1>3. /\ queue' \in Seq(Tokens) /\ Len(queue') = Len(queue) + 1
      /\ \A i \in 1..Len(queue) : queue'[i] = queue[i]
  BY <1>1, <1>2, AppendProperties DEF ScanInv, TokensOK
<1>4. TokensOK'
  <2>1. text.left \in Nat /\ text = [kinds |-> text.kinds, left |-> text.left] /\ text.kinds \in SUBSET Kinds
        /\ (text.left > 0 => text.kinds # {})
    BY DEF ScanInv, TokensOK
  <2>2. CASE t \in Ends
    <3>1. text' = [kinds |-> t, left |-> 0]
      BY <1>1, <2>2
    <3> QED BY <1>2, <1>3, <3>1 DEF TokensOK, Tokens
  <2>3. CASE t \notin Ends
    <3>1. text' = [kinds |-> text.kinds, left |-> text.left - 1]
      BY <1>1, <2>1, <2>3
    <3> QED BY <1>2, <1>3, <2>1, <2>3, <3>1 DEF TokensOK
  <2> QED BY <2>2, <2>3
<1>5. CASE scan = <<>>
  BY <1>4, <1>5, NoScan DEF Lex
<1>6. CASE scan # <<>>
  <2>1. UNCHANGED <<stack, scan>>
    BY DEF Lex
  <2>2. scan.ix \in Nat \ {0} /\ scan.ix <= Len(queue) + 1 /\ queue \in Seq(Tokens)
    BY <1>6 DEF ScanInv, ScanOK, TokensOK
  <2>3. Len(queue) \in Nat
    BY <2>2, LenProperties
  <2>4. ScanOK'
    BY <1>3, <1>6, <2>1, <2>2, <2>3 DEF ScanInv, ScanOK, InUnit, Top, Depth
  <2>5. \A k : NumberOf(k)' = NumberOf(k)
    <3> SUFFICES ASSUME NEW k PROVE NumberOf(k)' = NumberOf(k)
      OBVIOUS
    <3>0. scan.ix - 1 \in Nat /\ scan.ix - 1 <= Len(queue) /\ scan.ix - 1 <= Len(queue')
      BY <1>3, <2>2, <2>3
    <3>1. NumberOf(k) = Among(k, queue, scan.ix - 1)
      <4>1. Cardinality({i \in DOMAIN SubSeq(queue, 1, scan.ix - 1) : SubSeq(queue, 1, scan.ix - 1)[i] = {k}})
              = Among(k, queue, scan.ix - 1)
        BY <2>2, <3>0, DroppedTokens
      <4> QED BY <4>1 DEF NumberOf, Dropped
    <3>2. NumberOf(k)' = Among(k, queue', scan.ix - 1)
      <4>1. Cardinality({i \in DOMAIN SubSeq(queue', 1, scan.ix - 1) : SubSeq(queue', 1, scan.ix - 1)[i] = {k}})
              = Among(k, queue', scan.ix - 1)
        BY <1>3, <3>0, DroppedTokens
      <4> QED BY <2>1, <4>1 DEF NumberOf, Dropped
    <3>3. Among(k, queue, scan.ix - 1) = Among(k, queue', scan.ix - 1)
      <4>1. \A i \in 1..(scan.ix - 1) : queue[i] = queue'[i]
        BY <1>3, <2>2, <2>3
      <4> QED BY <3>0, <4>1, AmongSame
    <3> QED BY <3>1, <3>2, <3>3
  <2>6. Balanced'
    BY <1>6, <2>1, <2>5 DEF ScanInv, Balanced
  <2>7. NotBelow'
    BY <1>6, <2>1 DEF ScanInv, NotBelow, SyncTokens, Depth
  <2> QED BY <1>4, <2>4, <2>6, <2>7 DEF ScanInv
<1> QED BY <1>5, <1>6

\* A token of its own is counted once, on its own side.
LEMMA CountedOnce ==
  ASSUME NEW c, NEW b \in DOMAIN Openers
  PROVE  Counted(c)[b] = scan.depth[b] + (IF c = {Openers[b]} THEN 1 ELSE 0)
                                       - (IF c = {Closers[b]} THEN 1 ELSE 0)
<1> DEFINE Side(f) == {s \in {f} : b \in Counts(s, c)}
<1>1. ASSUME NEW f, DOMAIN f = DOMAIN Openers
      PROVE  Cardinality(Side(f)) = IF c = {f[b]} THEN 1 ELSE 0
  <2>1. CASE c = {f[b]}
    <3>1. Side(f) = {f}
      BY <1>1, <2>1 DEF Counts
    <3>2. Cardinality(Side(f)) = 1
      BY <3>1, FS_Singleton
    <3> HIDE DEF Side
    <3> QED BY <2>1, <3>2
  <2>2. CASE c # {f[b]}
    <3>1. Side(f) = {}
      BY <2>2 DEF Counts
    <3>2. Cardinality(Side(f)) = 0
      BY <3>1, FS_EmptySet
    <3> HIDE DEF Side
    <3> QED BY <2>2, <3>2
  <2> QED BY <2>1, <2>2
<1>2. Cardinality(Side(Openers)) = IF c = {Openers[b]} THEN 1 ELSE 0
  BY <1>1
<1>3. Cardinality(Side(Closers)) = IF c = {Closers[b]} THEN 1 ELSE 0
  BY <1>1, Sides
<1>4. Counted(c)[b] = scan.depth[b] + Cardinality(Side(Openers)) - Cardinality(Side(Closers))
  BY DEF Counted
<1> HIDE DEF Side
<1> QED BY <1>2, <1>3, <1>4

\* Only a nested token closes a bracket that somebody waits for.
LEMMA WaitedForIsNested ==
  ASSUME NEW b \in DOMAIN Openers, Closers[b] \in SyncTokens \cup {scan.to},
         NEW c, c = {Closers[b]},
         IsNested(c) \/ (c # {scan.to} /\ ~(c \subseteq SyncTokens))
  PROVE  scan.depth[b] > 0
<1>1. PICK d \in Counts(Openers, c) \cup Counts(Closers, c) : scan.depth[d] > 0
  BY DEF IsNested
<1>2. d \in DOMAIN Openers /\ (c = {Openers[d]} \/ c = {Closers[d]})
  BY Sides DEF Counts
<1>3. Closers[b] = Openers[d] \/ Closers[b] = Closers[d]
  BY <1>2
<1>4. d = b
  BY <1>2, <1>3, Sides
<1> QED BY <1>1, <1>4

LEMMA SyncToPreserves == ScanInv /\ SyncTo => ScanInv'
<1> SUFFICES ASSUME ScanInv, SyncTo PROVE ScanInv'
  OBVIOUS
<1> USE DEF ScanInv
<1>1. PICK c \in Classes(queue[scan.ix]) : \E q \in Narrowed(scan.ix, c) : ScanPast(c, q) \/ ScanStop(c, q)
  BY DEF SyncTo
<1>2. PICK q \in Narrowed(scan.ix, c) : ScanPast(c, q) \/ ScanStop(c, q)
  BY <1>1
<1>3. scan # <<>> /\ scan.ix \in Nat \ {0} /\ scan.ix <= Len(queue)
  <2>1. scan # <<>> /\ Len(queue) >= Wanted
    BY DEF SyncTo, Known
  <2> QED BY <2>1, WantedByScan DEF ScanOK
<1>4. queue \in Seq(Tokens) /\ Len(queue) \in Nat /\ scan.ix \in DOMAIN queue
  BY <1>3, LenProperties DEF TokensOK
<1>5. c \in SUBSET Kinds
  <2>1. queue[scan.ix] \in SUBSET Kinds
    BY <1>3, <1>4, ElementOfSeq DEF Tokens
  <2> QED BY <2>1 DEF Classes
<1>6. q \in Seq(Tokens) /\ q = [queue EXCEPT ![scan.ix] = c] /\ Len(q) = Len(queue)
  BY <1>5, NarrowedTokens
<1>7. CASE ScanPast(c, q) /\ scan.ix < Lookahead
  <2>1. /\ scan' = [scan EXCEPT !.ix = @ + 1, !.depth = Counted(c)]
        /\ stack' = stack /\ queue' = q /\ text' = text
        /\ IsNested(c) \/ (c # {scan.to} /\ ~(c \subseteq SyncTokens))
    BY <1>7 DEF ScanPast, Reads
  <2>2. TokensOK'
    BY <1>6, <2>1 DEF TokensOK
  <2>3. /\ scan.depth \in [DOMAIN Openers -> Int]
        /\ scan = [to |-> scan.to, take |-> scan.take, ix |-> scan.ix, depth |-> scan.depth]
        /\ stack # <<>> /\ ~InUnit
    BY <1>3 DEF ScanOK
  <2>4. scan' = [to |-> scan.to, take |-> scan.take, ix |-> scan.ix + 1, depth |-> Counted(c)]
    BY <2>1, <2>3
  <2>5. /\ scan' # <<>> /\ scan'.to = scan.to /\ scan'.take = scan.take
        /\ scan'.ix = scan.ix + 1 /\ scan'.depth = Counted(c)
    BY <2>4
  <2>6. Counted(c) \in [DOMAIN Openers -> Int]
    <3>1. \A b \in DOMAIN Openers : Counted(c)[b] \in Int
      BY <2>3, CountedOnce
    <3> QED BY <3>1 DEF Counted
  <2>7. ScanOK'
    <3>1. scan' = [to |-> scan'.to, take |-> scan'.take, ix |-> scan'.ix, depth |-> scan'.depth]
      BY <2>4, <2>5
    <3>2. (stack # <<>>)' /\ (~InUnit)'
      BY <2>1, <2>3 DEF InUnit, Top, Depth
    <3>3. scan'.ix \in Nat \ {0} /\ scan'.ix <= Len(queue') + 1
      <4>1. scan'.ix = scan.ix + 1 /\ Len(queue') = Len(queue)
        BY <1>6, <2>1, <2>5
      <4> QED BY <1>3, <1>4, <4>1
    <3>4. scan'.depth \in [DOMAIN Openers -> Int]
      BY <2>5, <2>6
    <3> QED BY <3>1, <3>2, <3>3, <3>4 DEF ScanOK
  <2>8. \A k : NumberOf(k) \in Nat /\ NumberOf(k)' = NumberOf(k) + (IF c = {k} THEN 1 ELSE 0)
    <3> SUFFICES ASSUME NEW k
                 PROVE  NumberOf(k) \in Nat /\ NumberOf(k)' = NumberOf(k) + (IF c = {k} THEN 1 ELSE 0)
      OBVIOUS
    <3>1. scan.ix - 1 \in Nat /\ scan.ix - 1 <= Len(queue) /\ scan.ix <= Len(q) /\ (scan.ix - 1) + 1 = scan.ix
      BY <1>3, <1>4, <1>6
    <3>2. NumberOf(k) = Among(k, queue, scan.ix - 1)
      <4>1. Cardinality({i \in DOMAIN SubSeq(queue, 1, scan.ix - 1) : SubSeq(queue, 1, scan.ix - 1)[i] = {k}})
              = Among(k, queue, scan.ix - 1)
        BY <1>4, <3>1, DroppedTokens
      <4> QED BY <4>1 DEF NumberOf, Dropped
    <3>3. NumberOf(k)' = Among(k, q, scan.ix)
      <4>1. Cardinality({i \in DOMAIN SubSeq(q, 1, scan.ix) : SubSeq(q, 1, scan.ix)[i] = {k}})
              = Among(k, q, scan.ix)
        BY <1>3, <1>6, <3>1, DroppedTokens
      <4>2. Dropped' = SubSeq(q, 1, scan.ix)
        <5>1. scan'.ix - 1 = scan.ix
          BY <1>3, <2>5
        <5> QED BY <2>1, <5>1 DEF Dropped
      <4> QED BY <4>1, <4>2 DEF NumberOf
    <3>4. Among(k, queue, scan.ix - 1) = Among(k, q, scan.ix - 1)
      <4>1. \A i \in 1..(scan.ix - 1) : queue[i] = q[i]
        BY <1>3, <1>4, <1>6
      <4> QED BY <3>1, <4>1, AmongSame
    <3>5. /\ Among(k, q, scan.ix - 1) \in Nat
          /\ Among(k, q, (scan.ix - 1) + 1)
               = Among(k, q, scan.ix - 1) + (IF q[(scan.ix - 1) + 1] = {k} THEN 1 ELSE 0)
      BY <3>1, AmongNext
    <3>6. q[scan.ix] = c
      BY <1>4, <1>6
    <3> QED BY <3>1, <3>2, <3>3, <3>4, <3>5, <3>6
  <2>9. Balanced'
    <3> SUFFICES ASSUME NEW b \in DOMAIN Openers
                 PROVE  scan'.depth[b] = NumberOf(Openers[b])' - NumberOf(Closers[b])'
      BY DEF Balanced
    <3>1. scan.depth[b] = NumberOf(Openers[b]) - NumberOf(Closers[b])
      BY <1>3 DEF Balanced
    <3>2. scan'.depth[b] = scan.depth[b] + (IF c = {Openers[b]} THEN 1 ELSE 0)
                                         - (IF c = {Closers[b]} THEN 1 ELSE 0)
      BY <2>5, CountedOnce
    <3> QED BY <2>8, <3>1, <3>2
  <2>10. NotBelow'
    <3> SUFFICES ASSUME NEW b \in DOMAIN Openers, Closers[b] \in (SyncTokens \cup {scan.to})'
                 PROVE  scan'.depth[b] >= 0
      BY DEF NotBelow
    <3>1. Closers[b] \in SyncTokens \cup {scan.to}
      BY <2>1, <2>5 DEF SyncTokens, Depth
    <3>2. scan.depth[b] >= 0 /\ scan.depth[b] \in Int
      BY <1>3, <2>3, <3>1 DEF NotBelow
    <3>3. c = {Closers[b]} => scan.depth[b] > 0
      BY <2>1, <3>1, WaitedForIsNested
    <3>4. scan'.depth[b] = scan.depth[b] + (IF c = {Openers[b]} THEN 1 ELSE 0)
                                         - (IF c = {Closers[b]} THEN 1 ELSE 0)
      BY <2>5, CountedOnce
    <3> QED BY <3>2, <3>3, <3>4
  <2> QED BY <2>2, <2>7, <2>9, <2>10
<1>8. CASE ScanPast(c, q) /\ ~(scan.ix < Lookahead)
  <2>1. scan' = <<>> /\ queue' = q /\ text' = text
    BY <1>8 DEF ScanPast, Resume, Reads
  <2> QED BY <1>6, <2>1, NoScan DEF TokensOK
<1>9. CASE ScanStop(c, q)
  <2>1. scan' = <<>> /\ text' = text
    BY <1>9 DEF ScanStop, Resume, Reads
  <2>2. queue' = SubSeq(q, scan.ix, Len(q)) \/ queue' = SubSeq(q, scan.ix + 1, Len(q))
    <3>1. scan.ix + 0 = scan.ix
      BY <1>3
    <3>2. CASE Reads(SubSeq(q, scan.ix + (IF scan.take THEN 1 ELSE 0), Len(q)))
      <4>1. queue' = SubSeq(q, scan.ix + (IF scan.take THEN 1 ELSE 0), Len(q))
        BY <3>2 DEF Reads
      <4>2. CASE scan.take
        BY <4>1, <4>2
      <4>3. CASE ~scan.take
        <5>1. (IF scan.take THEN 1 ELSE 0) = 0
          BY <4>3
        <5> QED BY <3>1, <4>1, <5>1
      <4> QED BY <4>2, <4>3
    <3>3. CASE Reads(SubSeq(q, scan.ix, Len(q)))
      BY <3>3 DEF Reads
    <3> QED BY <1>9, <3>2, <3>3 DEF ScanStop
  <2>3. ASSUME NEW m \in {scan.ix, scan.ix + 1}
        PROVE  SubSeq(q, m, Len(q)) \in Seq(Tokens)
    <3>1. m \in 1..(Len(q) + 1) /\ Len(q) \in (m - 1)..Len(q)
      BY <1>3, <1>4, <1>6
    <3>2. \A i \in m..Len(q) : q[i] \in Tokens
      BY <1>4, <1>6, <3>1, ElementOfSeq
    <3> QED BY <1>6, <3>1, <3>2, SubSeqProperties
  <2>4. TokensOK'
    BY <2>1, <2>2, <2>3 DEF TokensOK
  <2> QED BY <2>1, <2>4, NoScan
<1> QED BY <1>2, <1>7, <1>8, <1>9

-----------------------------------------------------------------------------

LEMMA InitHolds == Init => ScanInv
<1> SUFFICES ASSUME Init PROVE TokensOK /\ scan = <<>>
  BY DEF ScanInv, ScanOK, Balanced, NotBelow
<1>1. PICK t \in Texts :
        /\ text = [kinds |-> t.kinds, left |-> t.left]
        /\ queue = [i \in DOMAIN t.first |-> {t.first[i]}]
  BY DEF Init
<1>2. t.first \in Seq(STRING) /\ t.kinds \in SUBSET STRING
  BY <1>1, TextsAssumption DEF Written
<1>3. /\ Len(t.first) \in Nat /\ DOMAIN t.first = 1..Len(t.first)
      /\ \A i \in 1..Len(t.first) : t.first[i] \in STRING
  BY <1>2, LenProperties, ElementOfSeq
<1>4. queue \in [1..Len(t.first) -> Tokens]
  BY <1>1, <1>3 DEF Kinds, Tokens
<1>5. queue \in Seq(Tokens)
  BY <1>3, <1>4, SeqDef
<1>6. text \in [kinds : SUBSET Kinds, left : Nat] /\ (text.left > 0 => text.kinds # {})
  <2>1. t.left \in Nat /\ (t.left > 0 => t.kinds # {})
    BY TextsAssumption
  <2> QED BY <1>1, <1>2, <2>1 DEF Kinds
<1> QED BY <1>5, <1>6 DEF Init, TokensOK

LEMMA ScanInvInvariant == Spec => []ScanInv
<1>1. ScanInv /\ [Next]_vars => ScanInv'
  <2> SUFFICES ASSUME ScanInv, [Next]_vars PROVE ScanInv'
    OBVIOUS
  <2>1. CASE Next
    BY <2>1, LexPreserves, SyncToPreserves, ItemStepPreserves, ReturnStepPreserves DEF Next
  <2>2. CASE UNCHANGED vars
    BY <2>2 DEF vars, input, status, ScanInv, TokensOK, ScanOK, Balanced, NotBelow, NumberOf,
       Dropped, SyncTokens, InUnit, Top, Depth
  <2> QED BY <2>1, <2>2
<1> QED BY <1>1, InitHolds, PTL DEF Spec

\* Error recovery (sync_to) drops no bracket that closes a block the parser is in:
\* whatever the text, a bracket somebody waits for is passed only behind its
\* opening one.
THEOREM RecoveryHolds == Spec => RecoveryStaysInBlock
<1> DEFINE Kept == scan # <<>> /\ scan' = <<>> /\ Len(queue') < Len(queue) =>
                     \A b \in DOMAIN Openers : Closers[b] \in SyncTokens \cup {scan.to} =>
                       NumberOf(Closers[b]) <= NumberOf(Openers[b])
<1>1. ScanInv => Kept
  <2> SUFFICES ASSUME ScanInv, scan # <<>>,
                      NEW b \in DOMAIN Openers, Closers[b] \in SyncTokens \cup {scan.to}
               PROVE  NumberOf(Closers[b]) <= NumberOf(Openers[b])
    OBVIOUS
  <2>1. NumberOf(Openers[b]) - NumberOf(Closers[b]) >= 0
    BY DEF ScanInv, Balanced, NotBelow
  <2>2. \A k : NumberOf(k) \in Nat
    <3>1. queue \in Seq(Tokens) /\ scan.ix - 1 \in Nat /\ scan.ix - 1 <= Len(queue)
      BY LenProperties DEF ScanInv, ScanOK, TokensOK
    <3>2. \A k : NumberOf(k) = Among(k, queue, scan.ix - 1)
      BY <3>1, DroppedTokens DEF NumberOf, Dropped
    <3> QED BY <3>1, <3>2, AmongNext
  <2> QED BY <2>1, <2>2
<1>2. ScanInv => [Kept]_vars
  BY <1>1
<1>3. Spec => []ScanInv
  BY ScanInvInvariant
<1> QED BY <1>2, <1>3, PTL DEF RecoveryStaysInBlock
=============================================================================
