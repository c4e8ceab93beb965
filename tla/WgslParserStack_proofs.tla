----------------------- MODULE WgslParserStack_proofs -----------------------
(***************************************************************************)
(* The call stack of WgslParser: every function on it has been called by   *)
(* the one below it, at the item where that one stands (Chain).  From that *)
(* and the grammar follows that a declaration that fails has left an error *)
(* in diags_ (ErrorsAreReported).                                          *)
(***************************************************************************)
EXTENDS WgslParser_proofs, WgslGrammar_proofs, WellFoundedInduction

-----------------------------------------------------------------------------
(* Lists of decorations *)

\* A set of natural numbers that is not empty has a smallest member.
LEMMA Least ==
  ASSUME NEW T \in SUBSET Nat, T # {}
  PROVE  \E m \in T : \A y \in T : m <= y
<1>1. PICK m \in T : \A y \in T : ~ (<<y, m>> \in OpToRel(<, Nat))
  BY WFMin, NatLessThanWellFounded
<1>2. \A y \in T : ~ (y < m)
  BY <1>1 DEF OpToRel
<1> QED BY <1>2

\* The definition of `rest` in Others, for the first n decorations.
OthersUpTo(rest, n, list, kind) ==
  rest = [i \in 0..n |->
            IF i = 0 THEN <<>>
            ELSE IF list[i] = kind THEN rest[i - 1] ELSE Append(rest[i - 1], list[i])]

LEMMA OthersExist ==
  ASSUME NEW list, NEW kind, NEW N \in Nat
  PROVE  \E rest : OthersUpTo(rest, N, list, kind)
<1> DEFINE Missing == {n \in Nat : ~\E rest : OthersUpTo(rest, n, list, kind)}
<1>1. SUFFICES ASSUME Missing # {} PROVE FALSE
  OBVIOUS
<1>2. PICK n \in Missing : \A m \in Missing : n <= m
  BY <1>1, Least
<1>3. CASE n = 0
  <2>1. OthersUpTo([i \in 0..0 |-> <<>>], 0, list, kind)
    BY DEF OthersUpTo
  <2> QED BY <1>2, <1>3, <2>1
<1>4. CASE n # 0
  <2>1. n - 1 \in Nat /\ n - 1 \notin Missing
    BY <1>2, <1>4
  <2>2. PICK r : OthersUpTo(r, n - 1, list, kind)
    BY <2>1
  <2> DEFINE last == IF list[n] = kind THEN r[n - 1] ELSE Append(r[n - 1], list[n])
             s == [i \in 0..n |-> IF i = n THEN last ELSE r[i]]
  <2>3. \A i \in 0..(n - 1) : s[i] = r[i]
    BY <2>1
  <2>4. s[n] = last /\ DOMAIN s = 0..n
    BY <2>1
  <2>5. \A i \in 0..n : s[i] = IF i = 0 THEN <<>>
            ELSE IF list[i] = kind THEN s[i - 1] ELSE Append(s[i - 1], list[i])
    <3> HIDE DEF s
    <3> TAKE i \in 0..n
    <3>1. CASE i = n
      BY <1>4, <2>1, <2>3, <2>4, <3>1
    <3>2. CASE i # n
      <4>1. i \in 0..(n - 1) /\ (i # 0 => i - 1 \in 0..(n - 1))
        BY <2>1, <3>2
      <4>2. r[i] = IF i = 0 THEN <<>>
            ELSE IF list[i] = kind THEN r[i - 1] ELSE Append(r[i - 1], list[i])
        BY <2>2, <4>1 DEF OthersUpTo
      <4> QED BY <2>3, <4>1, <4>2
    <3> QED BY <3>1, <3>2
  <2>6. OthersUpTo(s, n, list, kind)
    BY <2>4, <2>5 DEF OthersUpTo
  <2> QED BY <1>2, <2>6
<1> QED BY <1>3, <1>4

\* What is left of a list of S is a list of S.
LEMMA OthersType ==
  ASSUME NEW S, NEW list \in Seq(S), NEW kind
  PROVE  Others(list, kind) \in Seq(S)
<1> DEFINE N == Len(list)
           rest == CHOOSE r : OthersUpTo(r, N, list, kind)
<1>1. N \in Nat
  BY LenProperties
<1>2. OthersUpTo(rest, N, list, kind)
  BY <1>1, OthersExist
<1>3. Others(list, kind) = rest[N]
  BY DEF Others, OthersUpTo
<1> HIDE DEF rest, N
<1> DEFINE Wrong == {n \in 0..N : rest[n] \notin Seq(S)}
<1>4. SUFFICES ASSUME Wrong # {} PROVE FALSE
  BY <1>1, <1>3
<1>5. PICK n \in Wrong : \A m \in Wrong : n <= m
  <2>1. Wrong \in SUBSET Nat
    BY <1>1
  <2> HIDE DEF Wrong
  <2> QED BY <2>1, <1>4, Least
<1>6. rest[n] = IF n = 0 THEN <<>>
         ELSE IF list[n] = kind THEN rest[n - 1] ELSE Append(rest[n - 1], list[n])
  BY <1>2, <1>5 DEF OthersUpTo
<1>7. n # 0
  <2>1. <<>> \in Seq(S)
    BY EmptySeq
  <2> QED BY <2>1, <1>5, <1>6
<1>8. n - 1 \in 0..N /\ n - 1 \notin Wrong
  BY <1>1, <1>5, <1>7
<1>9. list[n] \in S
  BY <1>5, <1>7, ElementOfSeq DEF N
<1>10. rest[n - 1] \in Seq(S) /\ rest[n] \notin Seq(S)
  BY <1>5, <1>8
<1>11. Append(rest[n - 1], list[n]) \in Seq(S)
  BY <1>9, <1>10, AppendProperties
<1> QED BY <1>6, <1>7, <1>10, <1>11

\* The largest of some of the numbers from 1 to n.
LEMMA Greatest ==
  ASSUME NEW n \in Nat, NEW T \in SUBSET (1..n), T # {}
  PROVE  \E x \in T : \A y \in T : x >= y
<1> DEFINE U == {n - x : x \in T}
<1>1. \A x \in T : x \in Int /\ x <= n
  OBVIOUS
<1>2. U \in SUBSET Nat /\ U # {}
  <2>1. \A x \in T : n - x \in Nat
    BY <1>1
  <2> QED BY <2>1
<1>3. PICK m \in U : \A u \in U : m <= u
  BY <1>2, Least
<1>4. PICK x \in T : m = n - x
  OBVIOUS
<1>5. \A y \in T : n - x <= n - y
  BY <1>3, <1>4
<1> QED BY <1>1, <1>5
-----------------------------------------------------------------------------
(* Stacks *)

Marks == Range(DecorationKind) \cup Identifiers
Programs == DOMAIN Functions \cup {"translation_unit"}
Frames == [p : Programs, at : Nat \ {0}, bad : BOOLEAN, held : Seq(Marks)]

\* Function p calls q when it is at item i.
Calls(p, i, q) ==
  LET f == Functions[p]
  IN  \/ f.form = "do" /\ i <= Len(f.items) /\ f.items[i].do \in Jobs /\ q = f.items[i].of
      \/ f.form = "alt" /\ i <= Len(f.of) /\ q = f.of[i]
      \/ f.form \in {"many", "while", "list", "sync"} /\ q = f.of
      \/ f.form = "block" /\ i > 1 /\ q = f.of

\* Function p can stand at item i.
Fits(p, i) == p # "translation_unit" /\ Functions[p].form = "alt" => i <= Len(Functions[p].of)

Chain(s) ==
  /\ s \in Seq(Frames)
  /\ \A i \in 1..Len(s) :
       /\ s[i].p = "translation_unit" <=> i = 1
       /\ s[i].p = "expect_global_decl" <=> i = 2
       /\ Fits(s[i].p, s[i].at)
  /\ \A i \in 2..(Len(s) - 1) : Calls(s[i].p, s[i].at, s[i + 1].p)

\* The top function waits for the result of one it has called.
Waits(s) == Len(s) > 1 => \E q : Calls(s[Len(s)].p, s[Len(s)].at, q)

\* variable_ident_decl() notes that there is more than one access decoration before it
\* reports it.
Exempt(f) == f.p = "variable_ident_decl" /\ f.at \in 5..7

\* A function has noted an error that has been reported.
HasNoted(s) == \E i \in 1..Len(s) : s[i].bad /\ ~Exempt(s[i])

\* A statement is read where a declaration has to be: its errors are silenced.
Salvaging(s) == Len(s) > 1 /\ s[2].at = 8

\* A step changes the top of the stack; below it, only decorations are listed or cast,
\* and an error may be noted.
HeldStays(f, g) ==
  /\ f.bad => g.bad
  /\ g.held \in {f.held, <<>>} \/ f.p = "decoration_list"
Shape(s, t) ==
  /\ Len(t) \in Nat /\ Len(t) >= Len(s) - 1 /\ Len(t) <= Len(s) + 1
  /\ \A i \in 1..Len(s) : i <= Len(t) => t[i].p = s[i].p
  /\ \A i \in 1..(Len(s) - 1) : t[i].at = s[i].at /\ HeldStays(s[i], t[i])
  /\ Len(t) > Len(s) => t[Len(t)] = Frame(t[Len(t)].p)

\* The frames are only changed in what they hold and have noted.
Retyped(s, t) ==
  \A i \in 1..Len(s) : t[i].p = s[i].p /\ t[i].at = s[i].at /\ HeldStays(s[i], t[i])

LEMMA RetypedShape ==
  ASSUME NEW s, NEW t, NEW u, Len(t) = Len(s), Len(s) \in Nat, Retyped(s, t), Shape(t, u)
  PROVE  Shape(s, u)
<1>1. \A i \in 1..Len(s) : i <= Len(u) => u[i].p = s[i].p
  BY DEF Retyped, Shape
<1>2. \A i \in 1..(Len(s) - 1) : u[i].at = s[i].at /\ HeldStays(s[i], u[i])
  <2> TAKE i \in 1..(Len(s) - 1)
  <2>1. i \in 1..Len(s)
    OBVIOUS
  <2>2. t[i].p = s[i].p /\ t[i].at = s[i].at /\ HeldStays(s[i], t[i])
    BY <2>1 DEF Retyped
  <2>3. u[i].at = t[i].at /\ HeldStays(t[i], u[i])
    BY DEF Shape
  <2> QED BY <2>2, <2>3 DEF HeldStays
<1> QED BY <1>1, <1>2 DEF Shape

LEMMA ShapeOf ==
  ASSUME NEW s, NEW t, Len(s) \in Nat, Len(t) \in Nat, Len(t) >= Len(s) - 1, Len(t) <= Len(s) + 1,
         \A i \in 1..(Len(s) - 1) : t[i] = s[i],
         Len(t) >= Len(s) /\ Len(s) > 0 => t[Len(s)].p = s[Len(s)].p,
         Len(t) > Len(s) => t[Len(t)] = Frame(t[Len(t)].p)
  PROVE  Shape(s, t)
<1>1. \A i \in 1..Len(s) : i <= Len(t) => t[i].p = s[i].p
  <2> TAKE i \in 1..Len(s)
  <2>1. CASE i < Len(s)
    <3>1. i \in 1..(Len(s) - 1)
      BY <2>1
    <3> QED BY <3>1
  <2>2. CASE ~(i < Len(s))
    <3>1. i = Len(s) /\ Len(s) > 0
      BY <2>2
    <3> QED BY <3>1
  <2> QED BY <2>1, <2>2
<1> QED BY <1>1 DEF Shape, HeldStays

LEMMA FramesFacts ==
  /\ \A f \in Frames :
       f.p \in Programs /\ f.at \in Nat /\ f.at # 0 /\ f.bad \in BOOLEAN /\ f.held \in Seq(Marks)
  /\ \A q \in Programs :
       /\ Frame(q) \in Frames
       /\ Frame(q).p = q /\ Frame(q).at = 1 /\ Frame(q).bad = FALSE /\ Frame(q).held = <<>>
BY EmptySeq DEF Frames, Frame

\* Every frame is one of Frames, by its index.
LEMMA ChainFacts ==
  ASSUME NEW s, Chain(s)
  PROVE  /\ Len(s) \in Nat /\ DOMAIN s = 1..Len(s) /\ s \in [1..Len(s) -> Frames]
         /\ s = <<>> <=> Len(s) = 0
         /\ \A i \in 1..Len(s) :
              /\ s[i] \in Frames /\ s[i].p \in Programs /\ s[i].at \in Nat /\ s[i].at # 0
              /\ s[i].bad \in BOOLEAN /\ s[i].held \in Seq(Marks)
<1>1. s \in Seq(Frames)
  BY DEF Chain
<1>2. Len(s) \in Nat /\ DOMAIN s = 1..Len(s) /\ s \in [1..Len(s) -> Frames]
  BY <1>1, LenProperties
<1>3. \A i \in 1..Len(s) : s[i] \in Frames
  BY <1>1, ElementOfSeq
<1>4. s = <<>> <=> Len(s) = 0
  BY <1>1, EmptySeq
<1> QED BY <1>2, <1>3, <1>4, FramesFacts

\* The frames are only changed in what they hold and have noted.
LEMMA ChainRetouch ==
  ASSUME NEW s, NEW t, Chain(s), t \in Seq(Frames), Len(t) = Len(s),
         \A i \in 1..Len(s) : t[i].p = s[i].p /\ t[i].at = s[i].at
  PROVE  Chain(t) /\ (Waits(s) <=> Waits(t))
<1>1. Len(s) \in Nat
  BY ChainFacts
<1>2. Chain(t)
  BY <1>1 DEF Chain
<1>3. Waits(s) <=> Waits(t)
  BY <1>1 DEF Waits
<1> QED BY <1>2, <1>3

\* The top function goes to another item.
LEMMA ChainMove ==
  ASSUME NEW s, Chain(s), Len(s) > 0, NEW g \in Frames, g.p = s[Len(s)].p, Fits(g.p, g.at),
         NEW t, t = [s EXCEPT ![Len(s)] = g]
  PROVE  /\ Chain(t) /\ Len(t) = Len(s) /\ t[Len(s)] = g
         /\ \A i \in 1..(Len(s) - 1) : t[i] = s[i]
         /\ HasNoted(t) => HasNoted(s) \/ (g.bad /\ ~Exempt(g))
         /\ Salvaging(s) /\ Len(s) > 2 => Salvaging(t)
         /\ Shape(s, t)
<1> DEFINE n == Len(s)
<1>1. n \in Nat /\ n > 0 /\ s \in Seq(Frames)
  BY ChainFacts DEF Chain
<1>a. n \in 1..Len(s) /\ n = Len(s) /\ t = [s EXCEPT ![n] = g]
  BY <1>1
<1>b. \A k \in 1..Len(s) : LET u == [s EXCEPT ![k] = g] IN
        /\ u \in Seq(Frames) /\ Len(u) = Len(s)
        /\ \A j \in 1..Len(s) : u[j] = IF j = k THEN g ELSE s[j]
  <2> SUFFICES ASSUME NEW k \in 1..Len(s)
               PROVE  LET u == [s EXCEPT ![k] = g] IN
                      /\ u \in Seq(Frames) /\ Len(u) = Len(s)
                      /\ \A j \in 1..Len(s) : u[j] = IF j = k THEN g ELSE s[j]
    OBVIOUS
  <2> QED BY ONLY ExceptSeq, <1>1, g \in Frames, k \in 1..Len(s)
<1>c. t \in Seq(Frames) /\ Len(t) = Len(s) /\ \A j \in 1..Len(s) : t[j] = IF j = n THEN g ELSE s[j]
  <2> HIDE DEF n
  <2> QED BY ONLY <1>a, <1>b
<1>2. t \in Seq(Frames) /\ Len(t) = n
  BY <1>c
<1>3. t[n] = g /\ \A i \in 1..(n - 1) : t[i] = s[i]
  <2> HIDE DEF n
  <2> QED BY ONLY <1>1, <1>a, <1>c
<1>0. g.p = s[n].p
  OBVIOUS
<1> HIDE DEF n
<1>4. \A i \in 1..n : t[i].p = s[i].p /\ (i < n => t[i] = s[i])
  BY <1>0, <1>1, <1>3
<1>5. \A i \in 1..n : Fits(t[i].p, t[i].at)
  BY <1>0, <1>1, <1>3, <1>4 DEF Chain, n
<1>6. \A i \in 2..(n - 1) : Calls(t[i].p, t[i].at, t[i + 1].p)
  BY <1>1, <1>4 DEF Chain, n
<1>d. \A i \in 1..n : (s[i].p = "translation_unit" <=> i = 1) /\ (s[i].p = "expect_global_decl" <=> i = 2)
  BY DEF Chain, n
<1>e. \A i \in 1..n : (t[i].p = "translation_unit" <=> i = 1) /\ (t[i].p = "expect_global_decl" <=> i = 2)
  BY ONLY <1>d, <1>4
<1>7. Chain(t)
  BY ONLY <1>2, <1>5, <1>6, <1>e DEF Chain
<1>8. HasNoted(t) => HasNoted(s) \/ (g.bad /\ ~Exempt(g))
  <2> SUFFICES ASSUME NEW i \in 1..n, t[i].bad, ~Exempt(t[i]) PROVE HasNoted(s) \/ (g.bad /\ ~Exempt(g))
    BY <1>2 DEF HasNoted
  <2> QED BY <1>1, <1>3 DEF HasNoted, n
<1>9. Salvaging(s) /\ n > 2 => Salvaging(t)
  <2>1. n > 2 => t[2] = s[2]
    BY <1>1, <1>3
  <2> QED BY <1>1, <1>2, <2>1 DEF Salvaging
<1>10. Shape(s, t)
  <2>1. Len(t) >= n - 1 /\ Len(t) <= n + 1 /\ ~(Len(t) > n) /\ Len(t) \in Nat
    BY <1>1, <1>2
  <2> QED BY <1>0, <1>1, <1>3, <2>1, ShapeOf DEF n
<1> QED BY <1>2, <1>3, <1>7, <1>8, <1>9, <1>10 DEF n

\* The top function calls q; the outermost one calls expect_global_decl() only.
LEMMA ChainCall ==
  ASSUME NEW s, Chain(s), NEW q \in DOMAIN Functions, Len(s) > 0,
         IF Len(s) > 1 THEN q # "expect_global_decl" /\ Calls(s[Len(s)].p, s[Len(s)].at, q)
         ELSE q = "expect_global_decl",
         Fits(q, 1),
         NEW t, t = Append(s, Frame(q))
  PROVE  /\ Chain(t) /\ Len(t) = Len(s) + 1 /\ t[Len(s) + 1] = Frame(q)
         /\ \A i \in 1..Len(s) : t[i] = s[i]
         /\ HasNoted(t) => HasNoted(s)
         /\ Salvaging(s) => Salvaging(t)
         /\ Shape(s, t)
<1> DEFINE n == Len(s)
<1>1. n \in Nat /\ n > 0 /\ s \in Seq(Frames)
  BY ChainFacts DEF Chain
<1>2. Frame(q) \in Frames /\ Frame(q).p = q /\ Frame(q).at = 1
  BY FramesFacts DEF Programs
<1>3. t \in Seq(Frames) /\ Len(t) = n + 1 /\ t[n + 1] = Frame(q) /\ \A i \in 1..n : t[i] = s[i]
  BY <1>1, <1>2, AppendProperties
<1>4. q # "translation_unit"
  BY DomainOfFunctions DEF Callable, Declarations, TypeFunctions, StatementFunctions, Expressions,
     Constants, DecorationFunctions
<1>5. \A i \in 1..(n + 1) :
        /\ t[i].p = "translation_unit" <=> i = 1
        /\ t[i].p = "expect_global_decl" <=> i = 2
        /\ Fits(t[i].p, t[i].at)
  <2> TAKE i \in 1..(n + 1)
  <2>1. CASE i = n + 1
    <3>1. t[i] = Frame(q)
      BY <1>3, <2>1
    <3>2. t[i].p = q /\ t[i].at = 1
      BY <1>2, <3>1
    <3>3. i # 1 /\ (i = 2 <=> ~(n > 1))
      <4> HIDE DEF n
      <4> QED BY <1>1, <2>1
    <3>4. ~(n > 1) <=> q = "expect_global_decl"
      OBVIOUS
    <3> HIDE DEF n
    <3> QED BY <1>4, <3>2, <3>3, <3>4
  <2>2. CASE i # n + 1
    BY <1>1, <1>3, <2>2 DEF Chain
  <2> QED BY <2>1, <2>2
<1>6. \A i \in 2..n : Calls(t[i].p, t[i].at, t[i + 1].p)
  BY <1>1, <1>2, <1>3 DEF Chain
<1>7. Chain(t)
  BY <1>1, <1>3, <1>5, <1>6 DEF Chain
<1>8. HasNoted(t) => HasNoted(s)
  <2> SUFFICES ASSUME NEW i \in 1..(n + 1), t[i].bad, ~Exempt(t[i]) PROVE HasNoted(s)
    BY <1>3 DEF HasNoted
  <2>1. Frame(q).bad = FALSE
    BY DEF Frame
  <2> HIDE DEF n
  <2>2. i \in 1..n
    BY <1>1, <1>3, <2>1
  <2> QED BY <1>3, <2>2 DEF HasNoted, n
<1>9. Salvaging(s) => Salvaging(t)
  <2>1. n > 1 => t[2] = s[2]
    BY <1>1, <1>3
  <2> QED BY <1>1, <1>3, <2>1 DEF Salvaging
<1>10. Shape(s, t)
  <2>1. Len(t) >= n - 1 /\ Len(t) <= n + 1 /\ Len(t) \in Nat
    BY <1>1, <1>3
  <2>2. t[Len(t)] = Frame(t[Len(t)].p)
    BY <1>2, <1>3
  <2>3. n \in 1..n
    BY <1>1
  <2>4. \A i \in 1..(n - 1) : t[i] = s[i]
    BY <1>1, <1>3
  <2> QED BY <1>1, <1>3, <2>1, <2>2, <2>3, <2>4, ShapeOf
<1> QED BY <1>3, <1>7, <1>8, <1>9, <1>10

\* The top function returns.
LEMMA ChainReturn ==
  ASSUME NEW s, Chain(s), Len(s) > 0, NEW t, t = Front(s)
  PROVE  /\ Chain(t) /\ Waits(t) /\ Len(t) = Len(s) - 1
         /\ \A i \in 1..(Len(s) - 1) : t[i] = s[i]
         /\ HasNoted(t) => HasNoted(s)
         /\ Salvaging(s) /\ Len(s) > 2 => Salvaging(t)
         /\ Shape(s, t)
<1> DEFINE n == Len(s)
<1>1. n \in Nat /\ s \in Seq(Frames) /\ \A i \in 1..(n - 1) : s[i] \in Frames
  BY ChainFacts DEF Chain
<1>2. t \in Seq(Frames) /\ Len(t) = n - 1 /\ \A i \in 1..(n - 1) : t[i] = s[i]
  <2>1. t = SubSeq(s, 1, n - 1) /\ n - 1 \in Int
    BY <1>1 DEF Front
  <2> HIDE DEF n
  <2>2. t \in Seq(Frames)
    BY <1>1, <2>1, SubSeqProperties
  <2>3. Len(t) = n - 1
    <3>1. Len(SubSeq(s, 1, n - 1)) = IF 1 <= n - 1 THEN n - 1 - 1 + 1 ELSE 0
      BY <1>1, <2>1, SubSeqProperties
    <3>2. n \in Nat /\ n > 0
      BY <1>1 DEF n
    <3> QED BY <2>1, <3>1, <3>2
  <2>4. \A i \in 1..(n - 1) : t[i] = s[i]
    BY <1>1, <2>1, SubSeqProperties
  <2> QED BY <2>2, <2>3, <2>4
<1>3. Chain(t)
  <2> HIDE DEF n
  <2>1. \A i \in 1..(n - 1) : i \in 1..n
    BY <1>1
  <2>2. /\ \A i \in 1..n :
             /\ s[i].p = "translation_unit" <=> i = 1
             /\ s[i].p = "expect_global_decl" <=> i = 2
             /\ Fits(s[i].p, s[i].at)
        /\ \A i \in 2..(n - 1) : Calls(s[i].p, s[i].at, s[i + 1].p)
    BY DEF Chain, n
  <2>3. \A i \in 2..(n - 1 - 1) : i \in 1..(n - 1) /\ i + 1 \in 1..(n - 1) /\ i \in 2..(n - 1)
    BY <1>1
  <2>4. ASSUME NEW i \in 1..Len(t)
        PROVE  /\ t[i].p = "translation_unit" <=> i = 1
               /\ t[i].p = "expect_global_decl" <=> i = 2
               /\ Fits(t[i].p, t[i].at)
    <3>1. i \in 1..n /\ t[i] = s[i]
      BY ONLY <1>2, <2>1, i \in 1..Len(t)
    <3> QED BY <2>2, <3>1
  <2>5. \A i \in 2..(Len(t) - 1) : Calls(t[i].p, t[i].at, t[i + 1].p)
    BY ONLY <1>2, <2>2, <2>3
  <2> QED BY ONLY <1>2, <2>4, <2>5 DEF Chain
<1>4. Waits(t)
  BY <1>1, <1>2 DEF Waits, Chain
<1>5. HasNoted(t) => HasNoted(s)
  <2> SUFFICES ASSUME NEW i \in 1..(n - 1), t[i].bad, ~Exempt(t[i]) PROVE HasNoted(s)
    BY <1>2 DEF HasNoted
  <2>1. i \in 1..n /\ t[i] = s[i]
    BY <1>1, <1>2
  <2> QED BY <2>1 DEF HasNoted
<1>6. Salvaging(s) /\ n > 2 => Salvaging(t)
  <2>1. n > 2 => t[2] = s[2]
    BY <1>1, <1>2
  <2> QED BY <1>1, <1>2, <2>1 DEF Salvaging
<1>7. Shape(s, t)
  <2>1. \A k \in Nat : k > 0 =>
          k - 1 \in Nat /\ k - 1 <= k + 1 /\ k - 1 >= k - 1 /\ ~(k - 1 >= k) /\ ~(k - 1 > k)
    OBVIOUS
  <2>2. n > 0
    OBVIOUS
  <2> HIDE DEF n
  <2>3. Len(t) \in Nat /\ Len(t) <= n + 1 /\ Len(t) >= n - 1 /\ ~(Len(t) >= n) /\ ~(Len(t) > n)
    BY <1>1, <1>2, <2>1, <2>2
  <2> QED BY <1>1, <1>2, <2>3, ShapeOf DEF n
<1> QED BY <1>2, <1>3, <1>4, <1>5, <1>6, <1>7

-----------------------------------------------------------------------------
(* The grammar *)

\* A function that is called is one of the grammar, and starts at an item it has.
LEMMA CalleeFacts ==
  ASSUME NEW p \in DOMAIN Functions, NEW i \in Nat \ {0}, NEW q, Calls(p, i, q)
  PROVE  /\ q \in Callable /\ q \in DOMAIN Functions /\ q # "expect_global_decl" /\ Fits(q, 1)
         /\ Functions[p].form # "block" =>
              /\ q \in DOMAIN Caller => p = Caller[q]
              /\ p \in Outer /\ ~(p = "expect_global_decl" /\ i = 8) => q \in Outer
         /\ Functions[p].form = "block" => q \notin DOMAIN Caller
<1> DEFINE f == Functions[p]
<1>1. FunctionOK(p, f)
  BY GrammarOK
<1> HIDE DEF f
<1>2. /\ q \in Callable
      /\ f.form # "block" =>
           /\ q \in DOMAIN Caller => p = Caller[q]
           /\ p \in Outer /\ ~(p = "expect_global_decl" /\ i = 8) => q \in Outer
      /\ f.form = "block" => q \notin DOMAIN Caller
  <2>1. CASE f.form = "do"
    <3>1. i \in DOMAIN f.items /\ f.items[i].do \in Jobs /\ q = f.items[i].of
      BY <1>1, <2>1 DEF Calls, FunctionOK, f
    <3>2. CalleeOK(p, i, q)
      BY <1>1, <2>1, <3>1 DEF FunctionOK, ItemOK
    <3> QED BY <2>1, <3>2 DEF CalleeOK
  <2>2. CASE f.form = "alt"
    <3>1. i \in DOMAIN f.of /\ q = f.of[i]
      BY <1>1, <2>2 DEF Calls, FunctionOK, f
    <3>2. CalleeOK(p, 1, q)
      BY <1>1, <2>2, <3>1 DEF FunctionOK
    <3> QED BY <2>2, <3>2 DEF CalleeOK
  <2>3. CASE f.form \in {"many", "while", "list", "sync"}
    <3>1. CalleeOK(p, 1, q)
      BY <1>1, <2>3 DEF FunctionOK, Calls, f
    <3> QED BY <2>3, <3>1 DEF CalleeOK
  <2>4. CASE f.form = "block"
    BY <1>1, <2>4 DEF FunctionOK, Calls, f
  <2> QED BY <1>1, <2>1, <2>2, <2>3, <2>4 DEF FunctionOK
<1>3. q \in DOMAIN Functions
  BY <1>2, DomainOfFunctions
<1>4. q # "expect_global_decl"
  BY <1>2 DEF Callable, Declarations, TypeFunctions, StatementFunctions, Expressions, Constants,
    DecorationFunctions
<1>5. Fits(q, 1)
  BY <1>3, GrammarOK DEF Fits, FunctionOK
<1> QED BY <1>2, <1>3, <1>4, <1>5 DEF f

\* The items of expect_global_decl() before the last only note errors; the last one is
\* a statement that stands where a declaration has to be.
LEMMA GlobalDeclItems ==
  LET f == Functions["expect_global_decl"]
  IN  /\ f.form = "do" /\ Len(f.items) = 8
      /\ f.items[8].do = "call" /\ f.items[8].matched = "salvage" /\ f.items[8].nomatch = "skip"
      /\ f.items[8].errored = "report"
      /\ \A i \in 1..7 : f.items[i].do = "call" =>
           f.items[i].matched # "salvage" /\ f.items[i].nomatch # "skip"
<1> DEFINE a == Take(Semicolon \cup {"eof"})
           s == <<a, Call("decoration_list", "keep", "next", "note"), InSync,
                  Call("global_sync", "matched", "next", "note"),
                  Call("function_decl", "matched", "next", "note"),
                  StopIfBad, Act("unused"),
                  Call("statement", "salvage", "skip", "report")>>
<1>1. a.do = "take"
  BY DEF Take, Item
<1>2. /\ \A p, m, n, e : /\ Call(p, m, n, e).do = "call" /\ Call(p, m, n, e).matched = m
                         /\ Call(p, m, n, e).nomatch = n /\ Call(p, m, n, e).errored = e
      /\ InSync.do = "insync" /\ StopIfBad.do = "stopifbad" /\ Act("unused").do = "unused"
  BY DEF Call, InSync, StopIfBad, Act
<1>3. Functions["expect_global_decl"] = Do(s)
  BY DEF Functions, expect_global_decl
<1> HIDE DEF a
<1>4. /\ Len(s) = 8 /\ s[1] = a /\ s[2] = Call("decoration_list", "keep", "next", "note")
      /\ s[3] = InSync /\ s[4] = Call("global_sync", "matched", "next", "note")
      /\ s[5] = Call("function_decl", "matched", "next", "note")
      /\ s[6] = StopIfBad /\ s[7] = Act("unused")
      /\ s[8] = Call("statement", "salvage", "skip", "report")
  OBVIOUS
<1> HIDE DEF s
<1>5. \A i \in 1..7 : i = 1 \/ i = 2 \/ i = 3 \/ i = 4 \/ i = 5 \/ i = 6 \/ i = 7
  OBVIOUS
<1>6. \A i \in 1..7 : s[i].do = "call" => s[i].matched # "salvage" /\ s[i].nomatch # "skip"
  BY <1>1, <1>2, <1>4, <1>5
<1> QED BY <1>2, <1>3, <1>4, <1>6, DoForm

\* The items of variable_ident_decl() behind the one that notes access decorations.
LEMMA VariableItems ==
  LET f == Functions["variable_ident_decl"]
  IN  /\ f.form = "do" /\ Len(f.items) = 7
      /\ f.items[4].do = "takeaccess" /\ f.items[6].do = "consumed" /\ f.items[7].do = "oneaccess"
      /\ f.items[5].do = "call" /\ f.items[5].matched = "next" /\ f.items[5].nomatch = "report"
      /\ f.items[5].errored = "errored"
<1> DEFINE s == <<Expect(Identifiers), Expect({":"}), List, Act("takeaccess"),
                  Must("type_decl_of"), Act("consumed"), Act("oneaccess")>>
<1>1. /\ Must("type_decl_of").do = "call" /\ Must("type_decl_of").matched = "next"
      /\ Must("type_decl_of").nomatch = "report" /\ Must("type_decl_of").errored = "errored"
      /\ \A do : Act(do).do = do
  BY DEF Must, Call, Act
<1>2. Functions["variable_ident_decl"] = Do(s)
  BY DEF Functions, variable_ident_decl
<1>3. /\ Len(s) = 7 /\ s[4] = Act("takeaccess") /\ s[5] = Must("type_decl_of")
      /\ s[6] = Act("consumed") /\ s[7] = Act("oneaccess")
  OBVIOUS
<1> HIDE DEF s
<1> QED BY <1>1, <1>2, <1>3, DoForm

\* The functions that go on behind the token that sync_to() has found.
LEMMA HeaderForms == \A p \in {"function_header", "function_decl"} : Functions[p].form = "do"
BY DoForm DEF Functions, function_header, function_decl

-----------------------------------------------------------------------------
(* The invariant *)

\* There has been an error.
Faulty == result = "errored" \/ scan # <<>> \/ ~synchronized \/ HasNoted(stack)

StackOK ==
  /\ Chain(stack)
  /\ value \in Seq(Marks) /\ result \in Results
  /\ result # "" => Waits(stack)
  /\ scan # <<>> => result = "" /\ Len(stack) > 1

FaultsOK ==
  /\ errors \in 0..MaxErrors /\ synchronized \in BOOLEAN
  /\ errors = 0 /\ Faulty => Salvaging(stack)

StackInv == StackOK /\ FaultsOK

\* What every step does: the errors of a statement that stands where a declaration has
\* to be are silenced until one is reported.
StackStep ==
  /\ StackInv' /\ Shape(stack, stack')
  /\ errors' = 0 => errors = 0 /\ (Salvaging(stack) => Salvaging(stack'))

\* Below the last item of expect_global_decl(), and at it.
Silent == Len(stack) > 2 /\ stack[2].at = 8
AtLast == ~(Len(stack) > 2) /\ Salvaging(stack)

LEMMA FrameAt ==
  ASSUME NEW f \in Frames, NEW n \in Nat \ {0}, NEW g, g = [f EXCEPT !.at = n]
  PROVE  g \in Frames /\ g.p = f.p /\ g.at = n /\ g.bad = f.bad /\ g.held = f.held
<1>1. g \in Frames
  BY DEF Frames
<1> QED BY <1>1 DEF Frames

\* A function that runs, or calls sync_to(), is one of the grammar, and has been called.
LEMMA RunningFacts ==
  ASSUME StackInv, Running \/ scan # <<>>
  PROVE  /\ Len(stack) \in Nat /\ Len(stack) > 1 /\ Len(stack) > 0 /\ Depth = Len(stack) /\ Top = stack[Len(stack)]
         /\ Top \in Frames /\ Top.p \in DOMAIN Functions /\ Top.p # "translation_unit"
         /\ Top.at \in Nat /\ Top.at # 0 /\ Top.bad \in BOOLEAN /\ Top.held \in Seq(Marks)
         /\ Function = Functions[Top.p] /\ FunctionOK(Top.p, Function)
         /\ Fits(Top.p, Top.at) /\ (Running => scan = <<>>) /\ stack # <<>>
         /\ Top.p = "expect_global_decl" <=> Len(stack) = 2
<1>1. Chain(stack)
  BY DEF StackInv, StackOK
<1>2. Len(stack) \in Nat /\ (stack # <<>> => Len(stack) > 0)
  BY <1>1, ChainFacts
<1>3. Depth = Len(stack) /\ Top = stack[Len(stack)] /\ (Running => scan = <<>>)
  BY DEF Depth, Top, Running
<1>4. Len(stack) > 0 /\ Len(stack) \in 1..Len(stack) /\ stack # <<>>
  <2>1. CASE Running
    BY <1>2, <2>1 DEF Running
  <2>2. CASE scan # <<>>
    <3>1. Len(stack) > 1
      BY <2>2 DEF StackInv, StackOK
    <3> QED BY <1>1, <1>2, <3>1, ChainFacts
  <2> QED BY <2>1, <2>2
<1>5. /\ Top \in Frames /\ Top.p \in Programs /\ Top.at \in Nat /\ Top.at # 0
      /\ Top.bad \in BOOLEAN /\ Top.held \in Seq(Marks)
  BY <1>1, <1>3, <1>4, ChainFacts
<1>6. /\ Fits(Top.p, Top.at) /\ (Top.p = "translation_unit" <=> Len(stack) = 1)
      /\ Top.p = "expect_global_decl" <=> Len(stack) = 2
  BY <1>1, <1>3, <1>4 DEF Chain
<1>0. \A n \in Nat : (n > 0 /\ n # 1 => n > 1) /\ (n > 1 => n # 1)
  OBVIOUS
<1>7. Len(stack) > 1
  <2>1. CASE Running
    <3>1. Len(stack) # 1
      BY <1>6, <2>1 DEF Running, InUnit
    <3> QED BY <1>0, <1>2, <1>4, <3>1
  <2>2. CASE scan # <<>>
    BY <2>2 DEF StackInv, StackOK
  <2> QED BY <2>1, <2>2
<1>8. Len(stack) # 1
  BY <1>0, <1>2, <1>7
<1>9. Top.p \in DOMAIN Functions /\ Top.p # "translation_unit"
  BY <1>5, <1>6, <1>8 DEF Programs
<1>10. Function = Functions[Top.p] /\ FunctionOK(Top.p, Function)
  BY <1>9, GrammarOK DEF Function
<1> QED BY <1>2, <1>3, <1>4, <1>5, <1>6, <1>7, <1>9, <1>10

LEMMA MinOfTwo ==
  ASSUME NEW a \in Nat, NEW b \in Nat
  PROVE  Min({a, b}) = IF a <= b THEN a ELSE b
BY DEF Min

\* add_error() leaves an error, but for a statement whose errors are silenced.
LEMMA AddFacts ==
  ASSUME StackInv, NEW n \in Nat, Add(n)
  PROVE  /\ errors' \in errors..MaxErrors
         /\ n > 0 /\ errors' = 0 => Silent
<1>1. Chain(stack) /\ errors \in 0..MaxErrors /\ MaxErrors \in Nat /\ MaxErrors # 0
  BY BoundsAssumption DEF StackInv, StackOK, FaultsOK
<1>2. Len(stack) \in Nat
  BY <1>1, ChainFacts
<1>3. Silenced <=> Silent
  <2>1. \A i \in 1..Len(stack) : stack[i].p = "expect_global_decl" <=> i = 2
    BY <1>1 DEF Chain
  <2> QED BY <1>2, <2>1 DEF Silenced, Silent, Depth
<1>4. Min({errors + n, MaxErrors}) = IF errors + n <= MaxErrors THEN errors + n ELSE MaxErrors
  BY <1>1, MinOfTwo
<1>5. CASE Silenced
  BY <1>1, <1>3, <1>5 DEF Add
<1>6. CASE ~Silenced
  <2>1. errors' = IF errors + n <= MaxErrors THEN errors + n ELSE MaxErrors
    BY <1>4, <1>6 DEF Add
  <2> QED BY <1>1, <2>1
<1> QED BY <1>5, <1>6

-----------------------------------------------------------------------------
(* Steps of the stack *)

\* Errors are not forgotten.
LEMMA ErrorsGrow ==
  ASSUME StackInv, errors' \in errors..MaxErrors
  PROVE  errors' \in 0..MaxErrors /\ (errors' = 0 => errors = 0)
<1>1. \A m, n \in Int : \A k \in m..n : m >= 0 => k \in 0..n /\ (k = 0 => m = 0)
  OBVIOUS
<1>2. errors \in Int /\ errors >= 0 /\ MaxErrors \in Int
  BY BoundsAssumption DEF StackInv, FaultsOK
<1> QED BY <1>1, <1>2

LEMMA ErrorsKept == errors' = errors => (errors' = 0 => errors = 0)
OBVIOUS

LEMMA ErrorsStay == StackInv => errors \in errors..MaxErrors
<1>1. \A m \in Int : \A n \in 0..m : n \in n..m
  OBVIOUS
<1> QED BY <1>1, BoundsAssumption DEF StackInv, FaultsOK

\* A step below the last item of expect_global_decl() does not leave it.
LEMMA SilentSalvages ==
  ASSUME NEW t, Salvaging(stack) /\ Len(stack) > 2 => Salvaging(t)
  PROVE  /\ Salvaging(stack) /\ ~AtLast => Salvaging(t)
         /\ StackInv /\ Silent => Salvaging(t) /\ Salvaging(stack)
<1>1. Salvaging(stack) /\ ~AtLast => Salvaging(t)
  BY DEF AtLast
<1>2. StackInv => Len(stack) \in Nat
  BY ChainFacts DEF StackInv, StackOK
<1>3. StackInv /\ Silent => Salvaging(stack)
  BY <1>2 DEF Silent, Salvaging
<1> QED BY <1>1, <1>3 DEF Silent

\* The top function returns; an error is new only if it is reported.
LEMMA Returned ==
  ASSUME StackInv, Running \/ scan # <<>>, stack' = Front(stack), result' \in Results, value' \in Seq(Marks),
         scan' = <<>>, synchronized' \in BOOLEAN, errors' \in errors..MaxErrors,
         errors' = 0 => \/ Silent
                        \/ /\ ~AtLast /\ (result' = "errored" => Faulty)
                           /\ (synchronized' \/ Faulty)
  PROVE  StackStep
<1>1. Chain(stack) /\ Len(stack) \in Nat /\ Len(stack) > 1 /\ errors \in 0..MaxErrors
  BY RunningFacts DEF StackInv, StackOK, FaultsOK
<1> DEFINE t == Front(stack)
<1>2. /\ Chain(t) /\ Waits(t)
      /\ HasNoted(t) => HasNoted(stack)
      /\ Salvaging(stack) /\ Len(stack) > 2 => Salvaging(t)
      /\ Shape(stack, t)
  BY <1>1, ChainReturn
<1> HIDE DEF t
<1>3. StackOK'
  BY <1>2 DEF StackOK, t
<1>4. HasNoted(t) => HasNoted(stack)
  BY <1>2
<1>5. (Salvaging(stack) /\ ~AtLast => Salvaging(t)) /\ (Silent => Salvaging(t))
  BY <1>2, SilentSalvages
<1>7. errors' = 0 /\ Faulty' => Salvaging(t)
  <2> SUFFICES ASSUME errors' = 0, Faulty' PROVE Salvaging(t)
    OBVIOUS
  <2>1. errors = 0
    BY ErrorsGrow
  <2>2. CASE Silent
    BY <1>5, <2>2
  <2>3. CASE ~Silent
    <3>1. ~AtLast /\ (result' = "errored" => Faulty) /\ (synchronized' \/ Faulty)
      BY <2>3
    <3>2. Faulty
      BY <1>4, <3>1 DEF Faulty, t
    <3> QED BY <1>5, <2>1, <3>1, <3>2 DEF StackInv, FaultsOK
  <2> QED BY <2>2, <2>3
<1>8. FaultsOK'
  BY <1>7, ErrorsGrow DEF FaultsOK, t
<1>9. errors' = 0 => errors = 0 /\ (Salvaging(stack) => Salvaging(t))
  <2>1. errors' = 0 => errors = 0
    BY ErrorsGrow
  <2>2. errors' = 0 /\ Salvaging(stack) => Salvaging(t)
    BY <1>5
  <2> QED BY <2>1, <2>2
<1> QED BY <1>2, <1>3, <1>8, <1>9 DEF StackInv, StackStep, t

\* The top function goes to another item.
LEMMA Moved ==
  ASSUME StackInv, Running \/ scan # <<>>, NEW g \in Frames, g.p = Top.p, Fits(g.p, g.at), stack' = WithTop(g),
         result' = "", UNCHANGED value, scan' = <<>>, synchronized' \in BOOLEAN,
         errors' \in errors..MaxErrors,
         errors' = 0 => \/ Silent
                        \/ /\ ~AtLast /\ (g.bad /\ ~Exempt(g) => Faulty)
                           /\ (synchronized' \/ Faulty)
  PROVE  StackStep
<1>1. /\ Chain(stack) /\ Len(stack) > 0
      /\ errors \in 0..MaxErrors /\ value \in Seq(Marks)
  BY RunningFacts DEF StackInv, StackOK, FaultsOK
<1>9. Depth = Len(stack) /\ g.p = stack[Len(stack)].p
  BY RunningFacts
<1> DEFINE t == [stack EXCEPT ![Len(stack)] = g]
<1>2. /\ Chain(t)
      /\ HasNoted(t) => HasNoted(stack) \/ (g.bad /\ ~Exempt(g))
      /\ Salvaging(stack) /\ Len(stack) > 2 => Salvaging(t)
      /\ Shape(stack, t)
  BY <1>1, <1>9, ChainMove
<1>0. stack' = t
  BY <1>9 DEF WithTop
<1> HIDE DEF t
<1>3. StackOK'
  BY <1>0, <1>1, <1>2 DEF StackOK, Results
<1>4. HasNoted(t) => HasNoted(stack) \/ (g.bad /\ ~Exempt(g))
  BY <1>2
<1>5. (Salvaging(stack) /\ ~AtLast => Salvaging(t)) /\ (Silent => Salvaging(t))
  BY <1>2, SilentSalvages
<1>7. errors' = 0 /\ Faulty' => Salvaging(t)
  <2> SUFFICES ASSUME errors' = 0, Faulty' PROVE Salvaging(t)
    OBVIOUS
  <2>1. errors = 0
    BY ErrorsGrow
  <2>2. CASE Silent
    BY <1>5, <2>2
  <2>3. CASE ~Silent
    <3>1. ~AtLast /\ (g.bad /\ ~Exempt(g) => Faulty) /\ (synchronized' \/ Faulty)
      BY <2>3
    <3>2. Faulty
      BY <1>0, <1>4, <3>1 DEF Faulty
    <3> QED BY <1>5, <2>1, <3>1, <3>2 DEF StackInv, FaultsOK
  <2> QED BY <2>2, <2>3
<1>8. FaultsOK'
  BY <1>0, <1>7, ErrorsGrow DEF FaultsOK
<1>10. errors' = 0 => errors = 0 /\ (Salvaging(stack) => Salvaging(t))
  <2>1. errors' = 0 => errors = 0
    BY ErrorsGrow
  <2>2. errors' = 0 /\ Salvaging(stack) => Salvaging(t)
    BY <1>5
  <2> QED BY <2>1, <2>2
<1> QED BY <1>0, <1>2, <1>3, <1>8, <1>10 DEF StackInv, StackStep

\* The top function calls another one.
LEMMA Called ==
  ASSUME StackInv, Running, NEW q, Calls(Top.p, Top.at, q), stack' = Calling(q),
         result' = "", UNCHANGED <<value, scan, synchronized, errors>>
  PROVE  StackStep
<1>1. /\ Chain(stack) /\ Len(stack) > 1 /\ Len(stack) > 0 /\ scan = <<>>
      /\ errors \in 0..MaxErrors /\ value \in Seq(Marks) /\ synchronized \in BOOLEAN
  BY RunningFacts DEF StackInv, StackOK, FaultsOK
<1>2. q \in DOMAIN Functions /\ q # "expect_global_decl" /\ Fits(q, 1)
  BY RunningFacts, CalleeFacts
<1>7. Calls(stack[Len(stack)].p, stack[Len(stack)].at, q)
  BY RunningFacts
<1> DEFINE t == Append(stack, Frame(q))
<1>3. /\ Chain(t) /\ (HasNoted(t) => HasNoted(stack)) /\ (Salvaging(stack) => Salvaging(t))
      /\ Shape(stack, t)
  BY <1>1, <1>2, <1>7, ChainCall
<1>0. stack' = t
  BY DEF Calling
<1> HIDE DEF t
<1>4. StackOK'
  BY <1>0, <1>1, <1>3 DEF StackOK, Results
<1>5. Faulty' => Faulty
  BY <1>0, <1>3 DEF Faulty
<1>6. FaultsOK'
  BY <1>0, <1>1, <1>3, <1>5 DEF FaultsOK, StackInv
<1> QED BY <1>0, <1>3, <1>4, <1>6 DEF StackInv, StackStep

LEMMA SameShape ==
  ASSUME NEW s, Chain(s)
  PROVE  Shape(s, s)
<1>1. Len(s) \in Nat
  BY ChainFacts
<1>2. Len(s) >= Len(s) - 1 /\ Len(s) <= Len(s) + 1 /\ ~(Len(s) > Len(s))
  BY <1>1
<1> QED BY <1>1, <1>2 DEF Shape, HeldStays

\* The stack is as before, and nothing has been returned.
LEMMA Stayed ==
  ASSUME StackInv, UNCHANGED <<stack, value, synchronized, errors>>,
         scan' = scan, result' = ""
  PROVE  StackStep
<1>1. StackInv'
  BY DEF StackInv, StackOK, FaultsOK, Faulty, Results
<1> QED BY <1>1, SameShape DEF StackStep, StackInv, StackOK

\* sync_to() is called after an error.
LEMMA Sought ==
  ASSUME StackInv, Running, UNCHANGED <<stack, value>>, result' = "",
         synchronized' = FALSE, errors' \in errors..MaxErrors,
         errors' = 0 => Silent \/ Salvaging(stack) \/ Faulty
  PROVE  StackStep
<1>1. /\ Chain(stack) /\ Len(stack) \in Nat /\ Len(stack) > 1 /\ errors \in 0..MaxErrors
      /\ value \in Seq(Marks)
  BY RunningFacts DEF StackInv, StackOK, FaultsOK
<1>2. StackOK'
  BY <1>1 DEF StackOK, Results
<1>3. Silent => Salvaging(stack)
  BY SilentSalvages
<1>4. FaultsOK'
  BY <1>3, ErrorsGrow DEF StackInv, FaultsOK
<1>5. errors' = 0 => errors = 0
  BY ErrorsGrow
<1> QED BY <1>1, <1>2, <1>4, <1>5, SameShape DEF StackInv, StackStep

-----------------------------------------------------------------------------
(* The top function *)

\* The last item of expect_global_decl() is reached by expect_global_decl() only.
LEMMA AtLastFacts ==
  ASSUME StackInv, Running \/ scan # <<>>, AtLast
  PROVE  Top.p = "expect_global_decl" /\ Top.at = 8
<1>1. Len(stack) \in Nat /\ Len(stack) > 1 /\ ~(Len(stack) > 2) /\ Top = stack[Len(stack)]
  BY RunningFacts DEF AtLast
<1>2. \A n \in Nat : n > 1 /\ ~(n > 2) => n = 2
  OBVIOUS
<1>3. Len(stack) = 2
  BY <1>1, <1>2
<1> QED BY <1>1, <1>3, RunningFacts DEF AtLast, Salvaging

LEMMA TopHasNoted ==
  ASSUME StackInv, Running, Top.bad, ~Exempt(Top)
  PROVE  Faulty
<1>1. Len(stack) \in 1..Len(stack) /\ Top = stack[Len(stack)]
  BY RunningFacts
<1> QED BY <1>1 DEF Faulty, HasNoted

\* An item that comes next.
LEMMA ItemFacts ==
  ASSUME StackInv, NEW do, At(do)
  PROVE  /\ Running /\ result = "" /\ This.do = do /\ Function.form = "do"
         /\ Top.at <= Len(Function.items) /\ ItemOK(Top.p, Top.at, This)
         /\ do # "call" => ~AtLast
         /\ Exempt(Top) => do \in {"call", "consumed", "oneaccess"}
<1>1. Running /\ result = "" /\ This.do = do /\ Function.form = "do" /\ ~AtEnd
  BY DEF At, In
<1>2. /\ Len(Function.items) \in Nat /\ DOMAIN Function.items = 1..Len(Function.items)
      /\ \A i \in DOMAIN Function.items : ItemOK(Top.p, i, Function.items[i])
  BY <1>1, RunningFacts DEF FunctionOK
<1>3. Top.at \in Nat /\ Top.at # 0 /\ ~(Top.at > Len(Function.items))
  BY <1>1, RunningFacts DEF AtEnd
<1>4. Top.at <= Len(Function.items) /\ Top.at \in 1..Len(Function.items)
  BY <1>2, <1>3
<1>5. ItemOK(Top.p, Top.at, This)
  BY <1>2, <1>4 DEF This
<1>6. AtLast => do = "call"
  BY <1>1, AtLastFacts, GlobalDeclItems, RunningFacts DEF This
<1>7. Exempt(Top) => do \in {"call", "consumed", "oneaccess"}
  <2> SUFFICES ASSUME Exempt(Top) PROVE do \in {"call", "consumed", "oneaccess"}
    OBVIOUS
  <2>1. Top.at = 5 \/ Top.at = 6 \/ Top.at = 7
    BY DEF Exempt
  <2>2. Function = Functions["variable_ident_decl"]
    BY <1>1, RunningFacts DEF Exempt
  <2> QED BY <1>1, <2>1, <2>2, VariableItems DEF This
<1> QED BY <1>1, <1>4, <1>5, <1>6, <1>7

\* The top function goes on at item n.
LEMMA GoesTo ==
  ASSUME StackInv, In("do"), NEW n \in Nat \ {0}, Exempt(Top) /\ Top.bad => n \in 5..7,
         stack' = Goto(n), result' = "", UNCHANGED <<value, scan>>, synchronized' \in BOOLEAN,
         errors' \in errors..MaxErrors,
         errors' = 0 => Silent \/ (~AtLast /\ (synchronized' \/ Faulty))
  PROVE  StackStep
<1>1. Running /\ Function.form = "do"
  BY DEF In
<1> DEFINE g == [Top EXCEPT !.at = n]
<1>2. Top \in Frames /\ scan = <<>> /\ Function = Functions[Top.p]
  BY <1>1, RunningFacts
<1>4. stack' = WithTop(g)
  BY DEF Goto
<1>3. g \in Frames /\ g.p = Top.p /\ g.at = n /\ g.bad = Top.bad
  <2>1. Top \in Frames /\ n \in Nat \ {0} /\ g = [Top EXCEPT !.at = n]
    BY <1>2
  <2> HIDE DEF g
  <2> QED BY ONLY <2>1, FrameAt
<1> HIDE DEF g
<1>5. Fits(g.p, g.at)
  BY <1>1, <1>2, <1>3 DEF Fits
<1>6. g.bad /\ ~Exempt(g) => Faulty
  BY <1>1, <1>3, TopHasNoted DEF Exempt
<1> QED BY <1>1, <1>2, <1>3, <1>4, <1>5, <1>6, Moved

LEMMA NextItem == \A n \in Nat : n + 1 \in Nat \ {0}
OBVIOUS

\* The top function goes on at the next item.
LEMMA GoesOn ==
  ASSUME StackInv, In("do"), ~(Exempt(Top) /\ Top.bad),
         stack' = Past, result' = "", UNCHANGED <<value, scan>>, synchronized' \in BOOLEAN,
         errors' \in errors..MaxErrors,
         errors' = 0 => Silent \/ (~AtLast /\ (synchronized' \/ Faulty))
  PROVE  StackStep
<1>1. Running /\ (Exempt(Top) /\ Top.bad => Top.at + 1 \in 5..7)
  BY DEF In
<1>2. Top.at \in Nat
  BY <1>1, RunningFacts
<1>3. Top.at + 1 \in Nat \ {0}
  BY <1>2, NextItem
<1> QED BY <1>1, <1>3, GoesTo DEF Past

\* An error is reported and returned.
LEMMA Reported ==
  ASSUME StackInv, Running, NEW n \in Nat, n > 0, Add(n), NEW r \in Results, Return(r),
         synchronized' \in BOOLEAN
  PROVE  StackStep
<1>1. errors' \in errors..MaxErrors /\ (errors' = 0 => Silent)
  BY AddFacts
<1>2. Top.held \in Seq(Marks) /\ scan = <<>>
  BY RunningFacts
<1> QED BY <1>1, <1>2, Returned DEF Return

LEMMA ReportStep ==
  ASSUME StackInv, Running, Report
  PROVE  StackStep
<1>1. synchronized' \in BOOLEAN
  BY DEF Report, StackInv, FaultsOK
<1>2. Add(1) /\ Return("errored") /\ "errored" \in Results /\ 1 \in Nat /\ 1 > 0
  BY DEF Report, Results
<1> QED BY <1>1, <1>2, Reported

\* A result is returned that is no new error.
LEMMA ReturnStep1 ==
  ASSUME StackInv, Running, NEW r \in Results, Return(r), r = "errored" => Faulty,
         ~AtLast, errors' = errors, synchronized' = synchronized \/ synchronized' = TRUE
  PROVE  StackStep
<1>1. Top.held \in Seq(Marks) /\ scan = <<>>
  BY RunningFacts
<1>2. errors' \in errors..MaxErrors /\ synchronized' \in BOOLEAN /\ (synchronized' \/ Faulty)
  BY ErrorsStay DEF StackInv, FaultsOK, Faulty
<1> QED BY <1>1, <1>2, Returned DEF Return

\* What follows a token.
LEMMA OutcomeStep ==
  ASSUME StackInv, NEW do, At(do), do \notin {"call", "consumed", "oneaccess"}, NEW o, Outcome(o),
         o = "call" => do \in Jobs
  PROVE  StackStep
<1>1. /\ Running /\ In("do") /\ ~AtLast /\ ~Exempt(Top) /\ Function.form = "do" /\ This.do = do
      /\ Top.at <= Len(Function.items)
  BY ItemFacts DEF At
<1>2. /\ synchronized \in BOOLEAN /\ errors \in errors..MaxErrors /\ (synchronized \/ Faulty)
      /\ Top.at \in Nat /\ Function = Functions[Top.p]
  BY <1>1, RunningFacts, BoundsAssumption DEF StackInv, FaultsOK, Faulty
<1>3. CASE o = "next"
  BY <1>1, <1>2, <1>3, GoesOn DEF Outcome, Step, status
<1>4. CASE o = "call"
  <2>1. Calls(Top.p, Top.at, This.of)
    BY <1>1, <1>2, <1>4 DEF Calls, This
  <2> QED BY <1>1, <1>4, <2>1, Called DEF Outcome, Step, status
<1>5. CASE o \in {"matched", "nomatch"}
  <2>1. Return(o) /\ UNCHANGED status /\ o \in Results /\ o # "errored"
    BY <1>5 DEF Outcome, Results
  <2> QED BY <1>1, <2>1, ReturnStep1 DEF status
<1>6. CASE o = "error"
  BY <1>1, <1>6, ReportStep DEF Outcome
<1>7. CASE o = "warn"
  <2>1. Add(1) /\ Step(Past) /\ UNCHANGED synchronized
    BY <1>7 DEF Outcome
  <2>2. errors' \in errors..MaxErrors
    BY <2>1, AddFacts
  <2> QED BY <1>1, <1>2, <2>1, <2>2, GoesOn DEF Step
<1>8. CASE o = "sync"
  BY <1>1, <1>2, <1>8, GoesOn DEF Outcome, Step
<1>9. CASE o = "lost"
  <2>1. synchronized' = FALSE /\ Add(1) /\ Return("errored") /\ "errored" \in Results /\ 1 \in Nat /\ 1 > 0
    BY <1>9 DEF Outcome, Results
  <2> QED BY <1>1, <2>1, Reported
<1>10. CASE o = "back"
  <2>1. Step(IF synchronized THEN Goto(1) ELSE Goto(Top.at + 2)) /\ UNCHANGED status
    BY <1>10 DEF Outcome
  <2>2. 1 \in Nat \ {0} /\ Top.at + 2 \in Nat \ {0}
    BY <1>2
  <2>3. CASE synchronized
    <3>1. stack' = Goto(1)
      BY <2>1, <2>3 DEF Step
    <3> QED BY <1>1, <1>2, <2>1, <2>2, <3>1, GoesTo DEF Step, status
  <2>4. CASE ~synchronized
    <3>1. stack' = Goto(Top.at + 2)
      BY <2>1, <2>4 DEF Step
    <3> QED BY <1>1, <1>2, <2>1, <2>2, <3>1, GoesTo DEF Step, status
  <2> QED BY <2>3, <2>4
<1> QED BY <1>3, <1>4, <1>5, <1>6, <1>7, <1>8, <1>9, <1>10 DEF Outcome

-----------------------------------------------------------------------------
(* Items *)

\* The frame that a search from the top finds is one that it looks for.
LEMMA LastFacts ==
  ASSUME NEW s, Chain(s), NEW Places \in SUBSET (1..Len(s)), Places # {}
  PROVE  Max(Places) \in Places /\ \A i \in Places : i <= Max(Places)
<1>1. Len(s) \in Nat
  BY ChainFacts
<1>2. \E x \in Places : \A y \in Places : x >= y
  BY <1>1, Greatest
<1>3. Max(Places) \in Places /\ \A y \in Places : Max(Places) >= y
  BY <1>2 DEF Max
<1> QED BY <1>1, <1>3

\* The declaration whose decorations are used is below, or at, the top.
LEMMA OwnerFacts ==
  ASSUME StackInv, Running
  PROVE  /\ Owner \in 1..Len(stack) /\ stack[Owner].p \in Owners
         /\ \A i \in 1..Len(stack) : stack[i].p \in Owners => i <= Owner
<1> DEFINE Places == {i \in 1..Len(stack) : stack[i].p \in Owners}
<1>1. Chain(stack)
  BY DEF StackInv, StackOK
<1>2. 2 \in 1..Len(stack)
  BY RunningFacts
<1>3. stack[2].p = "expect_global_decl"
  BY <1>1, <1>2 DEF Chain
<1>4. Places \in SUBSET (1..Len(stack)) /\ Places # {}
  BY <1>2, <1>3 DEF Owners
<1>5. Owner = Max(Places)
  BY <1>4 DEF Owner, SelectLastInSeq
<1> HIDE DEF Places
<1>6. Owner \in Places /\ \A i \in Places : i <= Owner
  BY <1>1, <1>4, <1>5, LastFacts
<1> QED BY <1>6 DEF Places

\* A frame that is changed in what it holds and has noted.
Put(s, i, f) == [s EXCEPT ![i] = f]

LEMMA Retouched ==
  ASSUME NEW s, Chain(s), NEW i \in 1..Len(s), NEW f \in Frames, f.p = s[i].p, f.at = s[i].at,
         NEW t, t = Put(s, i, f)
  PROVE  /\ Chain(t) /\ (Waits(s) <=> Waits(t)) /\ Len(t) = Len(s) /\ t[i] = f
         /\ \A j \in 1..Len(s) : j # i => t[j] = s[j]
         /\ HasNoted(t) => HasNoted(s) \/ (f.bad /\ ~s[i].bad)
         /\ Salvaging(s) <=> Salvaging(t)
<1> DEFINE n == Len(s)
<1>1. n \in Nat /\ s \in Seq(Frames)
  BY ChainFacts DEF Chain
<1>2. t \in Seq(Frames) /\ Len(t) = n /\ \A j \in 1..n : t[j] = IF j = i THEN f ELSE s[j]
  BY <1>1, ExceptSeq, ChainFacts DEF Put
<1>3. \A j \in 1..n : t[j].p = s[j].p /\ t[j].at = s[j].at
  BY <1>2
<1>4. Chain(t) /\ (Waits(s) <=> Waits(t))
  BY <1>2, <1>3, ChainRetouch
<1>5. HasNoted(t) => HasNoted(s) \/ (f.bad /\ ~s[i].bad)
  <2> SUFFICES ASSUME NEW j \in 1..n, t[j].bad, ~Exempt(t[j])
               PROVE  HasNoted(s) \/ (f.bad /\ ~s[i].bad)
    BY <1>2 DEF HasNoted
  <2>1. ~Exempt(s[j])
    BY <1>3 DEF Exempt
  <2>2. CASE j = i
    BY <1>2, <2>1, <2>2 DEF HasNoted
  <2>3. CASE j # i
    BY <1>2, <2>1, <2>3 DEF HasNoted
  <2> QED BY <2>2, <2>3
<1>6. Salvaging(s) <=> Salvaging(t)
  <2>1. n > 1 => t[2].at = s[2].at
    BY <1>1, <1>3
  <2> QED BY <1>2, <2>1 DEF Salvaging
<1> QED BY <1>2, <1>4, <1>5, <1>6

\* A change of the stack is an error only if there was one, or one is reported.
LEMMA FaultsStep ==
  ASSUME StackInv, errors' \in errors..MaxErrors, synchronized' \in BOOLEAN,
         Salvaging(stack) /\ Len(stack) > 2 => Salvaging(stack'),
         errors' = 0 => Silent \/ (~AtLast /\ (Faulty' => Faulty))
  PROVE  FaultsOK' /\ (errors' = 0 => errors = 0 /\ (Salvaging(stack) => Salvaging(stack')))
<1>1. (Salvaging(stack) /\ ~AtLast => Salvaging(stack')) /\ (Silent => Salvaging(stack'))
  BY SilentSalvages
<1>2. errors' \in 0..MaxErrors /\ (errors' = 0 => errors = 0)
  BY ErrorsGrow
<1>3. errors' = 0 /\ Faulty' => Salvaging(stack')
  BY <1>1, <1>2 DEF StackInv, FaultsOK
<1>4. FaultsOK'
  BY <1>2, <1>3 DEF FaultsOK
<1> QED BY <1>1, <1>2, <1>4

\* The next item, in a stack of which a frame is changed as well.
LEMMA PastFacts ==
  ASSUME StackInv, In("do"), ~(Exempt(Top) /\ Top.bad), NEW c, c = Past
  PROVE  /\ Chain(c) /\ Len(c) = Len(stack) /\ (HasNoted(c) => Faulty)
         /\ Salvaging(stack) /\ Len(stack) > 2 => Salvaging(c)
         /\ \A i \in 1..(Len(stack) - 1) : c[i] = stack[i]
         /\ \A i \in 1..Len(stack) : c[i].p = stack[i].p
<1>1. Running /\ Function.form = "do"
  BY DEF In
<1> DEFINE g == [Top EXCEPT !.at = Top.at + 1]
<1>2. Top \in Frames /\ Top.at \in Nat /\ Function = Functions[Top.p] /\ Len(stack) > 0
  BY <1>1, RunningFacts
<1>3. Top.at + 1 \in Nat \ {0}
  BY <1>2, NextItem
<1>4. g \in Frames /\ g.p = Top.p /\ g.bad = Top.bad
  BY <1>2, <1>3, FrameAt
<1>5. c = [stack EXCEPT ![Len(stack)] = g] /\ Top = stack[Len(stack)]
  BY DEF Past, Goto, WithTop, Depth, Top
<1> HIDE DEF g
<1>6. Fits(g.p, g.at)
  BY <1>1, <1>2, <1>4 DEF Fits
<1>7. Chain(stack)
  BY DEF StackInv, StackOK
<1>8. g.p = stack[Len(stack)].p
  BY <1>4, <1>5
<1>12. c = [stack EXCEPT ![Len(stack)] = g]
  BY <1>5
<1>9. /\ Chain(c) /\ Len(c) = Len(stack)
      /\ HasNoted(c) => HasNoted(stack) \/ (g.bad /\ ~Exempt(g))
      /\ Salvaging(stack) /\ Len(stack) > 2 => Salvaging(c)
      /\ Shape(stack, c)
  BY <1>2, <1>4, <1>6, <1>7, <1>8, <1>12, ChainMove
<1>13. \A i \in 1..(Len(stack) - 1) : c[i] = stack[i]
  BY <1>2, <1>4, <1>6, <1>7, <1>8, <1>12, ChainMove
<1>10. HasNoted(c) => Faulty
  BY <1>1, <1>4, <1>9, TopHasNoted DEF Faulty
<1>11. \A i \in 1..Len(stack) : c[i].p = stack[i].p
  <2>1. \A i \in 1..Len(stack) : i <= Len(c)
    BY <1>9, RunningFacts, <1>1
  <2> QED BY <1>9, <2>1 DEF Shape
<1> QED BY <1>9, <1>10, <1>11, <1>13

LEMMA Before == \A m \in Nat : \A k \in 1..(m - 1) : k \in 1..m
OBVIOUS

LEMMA SameLength == \A n \in Nat : n >= n - 1 /\ n <= n + 1 /\ ~(n > n)
OBVIOUS

\* Frame f can take the place of the i-th one.
CanReplace(i, c, f) ==
  /\ c[i].bad => f.bad
  /\ i \in 1..Len(stack) => stack[i].p = "decoration_list" \/ c[i].held = f.held

\* What stays the same when f takes the place of the i-th frame.
Replaces(c, i, f, t) ==
  /\ Chain(t) /\ (Salvaging(c) <=> Salvaging(t)) /\ Len(t) = Len(c)
  /\ HasNoted(t) => HasNoted(c) \/ (f.bad /\ ~c[i].bad)
  /\ \A j \in 1..Len(c) : t[j] = IF j = i THEN f ELSE c[j]

LEMMA Replaced ==
  ASSUME NEW c, Chain(c), NEW i, NEW f \in Frames, f.p = c[i].p, f.at = c[i].at,
         NEW t, t = Put(c, i, f)
  PROVE  Replaces(c, i, f, t)
<1>1. CASE i \in 1..Len(c)
  <2>0. c \in Seq(Frames)
    BY DEF Chain
  <2>1. PICK k \in 1..Len(c) : k = i
    BY <1>1
  <2>2. f.p = c[k].p /\ f.at = c[k].at /\ t = Put(c, k, f)
    BY <2>1
  <2>3. Chain(t) /\ (Salvaging(c) <=> Salvaging(t))
    BY <2>2, Retouched
  <2>4. HasNoted(t) => HasNoted(c) \/ (f.bad /\ ~c[k].bad)
    BY <2>2, Retouched
  <2>5. \A j \in 1..Len(c) : t[j] = IF j = k THEN f ELSE c[j]
    BY <2>2, Retouched
  <2>6. Len(t) = Len(c)
    BY <2>2, Retouched
  <2> QED BY <2>1, <2>3, <2>4, <2>5, <2>6 DEF Replaces
<1>2. CASE i \notin 1..Len(c)
  <2>1. c \in [1..Len(c) -> Frames]
    BY ChainFacts
  <2>2. t = c
    BY <1>2, <2>1 DEF Put
  <2> QED BY <1>2, <2>2 DEF Replaces
<1> QED BY <1>1, <1>2

LEMMA GoesOnElsewhere ==
  ASSUME StackInv, In("do"), ~(Exempt(Top) /\ Top.bad), ~AtLast,
         NEW i, NEW f \in Frames,
         NEW c, c = Past, f.p = c[i].p, f.at = c[i].at, f.bad => c[i].bad \/ Faulty,
         CanReplace(i, c, f),
         stack' = Put(c, i, f),
         result' = "", UNCHANGED <<value, scan, synchronized, errors>>
  PROVE  StackStep
<1>1. /\ Chain(c) /\ Len(c) = Len(stack) /\ (HasNoted(c) => Faulty)
      /\ Salvaging(stack) /\ Len(stack) > 2 => Salvaging(c)
      /\ \A j \in 1..(Len(stack) - 1) : c[j] = stack[j]
      /\ \A j \in 1..Len(stack) : c[j].p = stack[j].p
  BY PastFacts
<1>0. PICK t : t = Put(c, i, f)
  OBVIOUS
<1>2. /\ Chain(t) /\ (HasNoted(t) => Faulty) /\ (Salvaging(c) => Salvaging(t))
      /\ Len(t) = Len(stack) /\ \A j \in 1..Len(stack) : t[j] = IF j = i THEN f ELSE c[j]
  <2>1. Replaces(c, i, f, t)
    BY <1>0, <1>1, Replaced
  <2>2. Len(t) = Len(stack)
    BY <1>1, <2>1 DEF Replaces
  <2>3. \A j \in 1..Len(stack) : t[j] = IF j = i THEN f ELSE c[j]
    BY <1>1, <2>1 DEF Replaces
  <2>4. Chain(t) /\ (HasNoted(t) => Faulty) /\ (Salvaging(c) => Salvaging(t))
    BY <1>1, <2>1 DEF Replaces
  <2> QED BY <2>2, <2>3, <2>4
<1>3. stack' = t
  BY <1>0 DEF Put
<1>4. scan = <<>> /\ value \in Seq(Marks) /\ synchronized \in BOOLEAN
  BY RunningFacts DEF In, StackInv, StackOK, FaultsOK
<1>5. StackOK'
  BY <1>2, <1>3, <1>4 DEF StackOK, Results
<1>6. Faulty' => Faulty
  BY <1>2, <1>3 DEF Faulty
<1>7. FaultsOK' /\ (errors' = 0 => errors = 0 /\ (Salvaging(stack) => Salvaging(stack')))
  BY <1>1, <1>2, <1>3, <1>4, <1>6, ErrorsStay, FaultsStep
<1>8. Shape(stack, t)
  <2>1. Len(stack) \in Nat
    BY RunningFacts DEF In
  <2>2. \A j \in 1..Len(stack) : t[j].p = stack[j].p
    BY <1>1, <1>2
  <2>3. \A j \in 1..(Len(stack) - 1) : t[j].at = stack[j].at /\ HeldStays(stack[j], t[j])
    <3> TAKE j \in 1..(Len(stack) - 1)
    <3>1. c[j] = stack[j]
      BY <1>1
    <3>2. j \in 1..Len(stack)
      BY <2>1, Before, Zenon
    <3>3. t[j] = IF j = i THEN f ELSE c[j]
      BY <1>2, <3>2
    <3> QED BY <3>1, <3>2, <3>3 DEF HeldStays, CanReplace
  <2>4. Len(t) \in Nat /\ Len(t) >= Len(stack) - 1 /\ Len(t) <= Len(stack) + 1 /\ ~(Len(t) > Len(stack))
    <3>1. Len(t) = Len(stack)
      BY <1>2
    <3> QED BY <2>1, <3>1, SameLength, Zenon
  <2> QED BY <2>2, <2>3, <2>4 DEF Shape
<1> QED BY <1>3, <1>5, <1>7, <1>8 DEF StackInv, StackStep

\* Without an error the parser is in synchronization, and what has gone before stays.
LEMMA StatusFacts ==
  ASSUME StackInv, UNCHANGED <<synchronized, errors>>
  PROVE  /\ synchronized' \in BOOLEAN /\ errors' \in errors..MaxErrors
         /\ synchronized' \/ Faulty
BY ErrorsStay DEF StackInv, FaultsOK, Faulty

LEMMA CastStep ==
  ASSUME StackInv, CastItem
  PROVE  StackStep
<1>0. PICK do \in {"cast"} : At(do) /\ UNCHANGED <<synchronized, value, scan>>
  BY DEF CastItem
<1>1. /\ UNCHANGED <<synchronized, value, scan>>
      /\ Running /\ ~AtLast /\ ~Exempt(Top) /\ Function.form = "do"
  BY <1>0, ItemFacts DEF At
<1> DEFINE n == Len(stack)
           held == stack[Owner].held
           wrong == Others(held, This.kind)
           f == [stack[Owner] EXCEPT !.held = <<>>]
           cast == [stack EXCEPT ![Owner].held = <<>>]
<1>2. /\ Owner \in 1..n /\ Chain(stack) /\ stack[Owner] \in Frames /\ held \in Seq(Marks)
      /\ synchronized \in BOOLEAN /\ value \in Seq(Marks)
  BY <1>1, OwnerFacts, ChainFacts DEF StackInv, StackOK, FaultsOK
<1>3. wrong \in Seq(Marks)
  BY <1>2, OthersType
<1>4. Len(wrong) \in Nat /\ (wrong # <<>> => Len(wrong) > 0)
  BY <1>3, LenProperties, EmptySeq
<1>5. f \in Frames /\ f.p = stack[Owner].p /\ f.at = stack[Owner].at /\ f.bad = stack[Owner].bad
  BY <1>2, EmptySeq DEF Frames
<1>6. cast = Put(stack, Owner, f)
  BY <1>2 DEF Put
<1> HIDE DEF f
<1>7. /\ Chain(cast) /\ Len(cast) = n /\ (HasNoted(cast) => HasNoted(stack))
      /\ Salvaging(stack) <=> Salvaging(cast)
      /\ cast[n].p = Top.p /\ cast[n].bad = Top.bad /\ cast[n].at = Top.at
      /\ Retyped(stack, cast)
  <2> HIDE DEF cast
  <2>1. /\ Chain(cast) /\ Len(cast) = n /\ cast[Owner] = f
        /\ \A j \in 1..n : j # Owner => cast[j] = stack[j]
        /\ HasNoted(cast) => HasNoted(stack) \/ (f.bad /\ ~stack[Owner].bad)
        /\ Salvaging(stack) <=> Salvaging(cast)
    BY <1>2, <1>5, <1>6, Retouched
  <2>2. n \in 1..n /\ Top = stack[n]
    BY <1>1, RunningFacts
  <2>3. Retyped(stack, cast)
    <3> SUFFICES ASSUME NEW j \in 1..n
                 PROVE  cast[j].p = stack[j].p /\ cast[j].at = stack[j].at /\ HeldStays(stack[j], cast[j])
      BY DEF Retyped
    <3>1. f.held = <<>>
      BY <1>2, EmptySeq DEF Frames, f
    <3>2. CASE j = Owner
      BY <1>5, <2>1, <3>1, <3>2 DEF HeldStays
    <3>3. CASE j # Owner
      BY <2>1, <3>3 DEF HeldStays
    <3> QED BY <3>2, <3>3
  <2> QED BY <1>5, <2>1, <2>2, <2>3
<1>12. \A u : Shape(cast, u) => Shape(stack, u)
  <2>1. Len(cast) = n /\ Retyped(stack, cast)
    BY <1>7
  <2> HIDE DEF cast
  <2> QED BY <2>1, RetypedShape
<1>8. /\ n > 0 /\ Depth = n /\ Len(cast) > 0 /\ Top.at + 1 \in Nat \ {0}
      /\ cast[n] \in Frames /\ scan = <<>>
  <2>1. n > 0 /\ n \in 1..n /\ Depth = n /\ Top.at \in Nat /\ scan = <<>>
    BY <1>1, RunningFacts
  <2>2. cast[n] \in Frames
    BY <1>7, <2>1, ChainFacts
  <2> QED BY <1>7, <2>1, <2>2, NextItem
<1>9. CASE wrong = <<>>
  <2>1. result' = "" /\ stack' = [cast EXCEPT ![Depth].at = @ + 1] /\ UNCHANGED errors
    BY <1>9 DEF CastItem
  <2> HIDE DEF cast
  <2> DEFINE g == [cast[n] EXCEPT !.at = Top.at + 1]
             t == [cast EXCEPT ![Len(cast)] = g]
  <2>2. g \in Frames /\ g.p = Top.p /\ g.bad = Top.bad
    BY <1>7, <1>8, FrameAt
  <2>3. stack' = t
    BY <1>7, <1>8, <2>1
  <2>4. g.p = cast[Len(cast)].p /\ Fits(g.p, g.at)
    BY <1>1, <1>7, <2>2, RunningFacts DEF Fits
  <2> HIDE DEF g
  <2>5. /\ Chain(t) /\ (HasNoted(t) => HasNoted(cast) \/ (g.bad /\ ~Exempt(g)))
        /\ Salvaging(cast) /\ Len(cast) > 2 => Salvaging(t)
        /\ Shape(cast, t)
    BY <1>7, <1>8, <2>2, <2>4, ChainMove
  <2> HIDE DEF t
  <2>6. StackOK'
    BY <1>1, <1>2, <1>8, <2>1, <2>3, <2>5 DEF StackOK, Results
  <2>7. HasNoted(t) => Faulty
    BY <1>1, <1>7, <2>2, <2>5, TopHasNoted DEF Faulty
  <2>8. Faulty' => Faulty
    BY <1>1, <1>8, <2>1, <2>3, <2>7 DEF Faulty
  <2>9. Salvaging(stack) /\ n > 2 => Salvaging(t)
    BY <1>7, <2>5
  <2>10. FaultsOK' /\ (errors' = 0 => errors = 0 /\ (Salvaging(stack) => Salvaging(stack')))
    BY <1>1, <2>1, <2>3, <2>8, <2>9, StatusFacts, FaultsStep
  <2> QED BY <1>12, <2>3, <2>5, <2>6, <2>10 DEF StackInv, StackStep
<1>10. CASE wrong # <<>> /\ This.errored = "note"
  <2>1. result' = "" /\ stack' = [cast EXCEPT ![Depth].at = @ + 1, ![Depth].bad = TRUE] /\ Add(Len(wrong))
    BY <1>10 DEF CastItem
  <2>0. errors' \in errors..MaxErrors /\ (errors' = 0 => Silent)
    BY <1>4, <1>10, <2>1, AddFacts
  <2> HIDE DEF cast, wrong
  <2> DEFINE g == [cast[n] EXCEPT !.at = Top.at + 1, !.bad = TRUE]
             t == [cast EXCEPT ![Len(cast)] = g]
  <2>2. g \in Frames /\ g.p = Top.p
    <3>1. g \in Frames
      BY <1>8 DEF Frames
    <3> QED BY <1>7, <1>8, <3>1 DEF Frames
  <2>3. stack' = t
    BY <1>7, <1>8, <2>1
  <2>4. g.p = cast[Len(cast)].p /\ Fits(g.p, g.at)
    BY <1>1, <1>7, <2>2, RunningFacts DEF Fits
  <2> HIDE DEF g
  <2>5. Chain(t) /\ (Salvaging(cast) /\ Len(cast) > 2 => Salvaging(t)) /\ Shape(cast, t)
    BY <1>7, <1>8, <2>2, <2>4, ChainMove
  <2> HIDE DEF t
  <2>6. StackOK'
    BY <1>1, <1>2, <1>8, <2>1, <2>3, <2>5 DEF StackOK, Results
  <2>9. Salvaging(stack) /\ n > 2 => Salvaging(t)
    BY <1>7, <2>5
  <2>10. FaultsOK' /\ (errors' = 0 => errors = 0 /\ (Salvaging(stack) => Salvaging(stack')))
    BY <1>1, <1>2, <2>0, <2>3, <2>9, FaultsStep
  <2> QED BY <1>12, <2>3, <2>5, <2>6, <2>10 DEF StackInv, StackStep
<1>11. CASE wrong # <<>> /\ This.errored # "note"
  <2>1. result' = "errored" /\ stack' = Front(cast) /\ Add(Len(wrong))
    BY <1>11 DEF CastItem
  <2>0. errors' \in errors..MaxErrors /\ (errors' = 0 => Silent)
    BY <1>4, <1>11, <2>1, AddFacts
  <2> HIDE DEF cast, wrong
  <2> DEFINE t == Front(cast)
  <2>5. Chain(t) /\ Waits(t) /\ (Salvaging(cast) /\ Len(cast) > 2 => Salvaging(t)) /\ Shape(cast, t)
    BY <1>7, <1>8, ChainReturn
  <2>3. stack' = t
    BY <2>1
  <2> HIDE DEF t
  <2>6. StackOK'
    BY <1>1, <1>2, <1>8, <2>1, <2>3, <2>5 DEF StackOK, Results
  <2>9. Salvaging(stack) /\ n > 2 => Salvaging(t)
    BY <1>7, <2>5
  <2>10. FaultsOK' /\ (errors' = 0 => errors = 0 /\ (Salvaging(stack) => Salvaging(stack')))
    BY <1>1, <1>2, <2>0, <2>3, <2>9, FaultsStep
  <2> QED BY <1>12, <2>3, <2>5, <2>6, <2>10 DEF StackInv, StackStep
<1> QED BY <1>9, <1>10, <1>11

\* After the last item.
LEMMA EndFacts ==
  ASSUME StackInv, In("do"), AtEnd
  PROVE  Running /\ ~AtLast /\ ~Exempt(Top)
<1>1. Running /\ Function = Functions[Top.p]
  BY RunningFacts DEF In
<1>2. ~AtLast
  <2> SUFFICES ASSUME AtLast PROVE FALSE
    OBVIOUS
  <2>1. Top.p = "expect_global_decl" /\ Top.at = 8
    BY <1>1, AtLastFacts
  <2>2. Len(Functions["expect_global_decl"].items) = 8
    BY GlobalDeclItems
  <2>3. Top.at > Len(Function.items)
    BY DEF AtEnd
  <2> QED BY ONLY <1>1, <2>1, <2>2, <2>3
<1>3. ~Exempt(Top)
  <2> SUFFICES ASSUME Exempt(Top) PROVE FALSE
    OBVIOUS
  <2>1. Top.p = "variable_ident_decl" /\ Top.at \in 5..7
    BY DEF Exempt
  <2>2. Len(Function.items) = 7
    BY <1>1, <2>1, VariableItems
  <2> QED BY <2>1, <2>2 DEF AtEnd
<1> QED BY <1>1, <1>2, <1>3

LEMMA ItemStepKeepsStack ==
  ASSUME StackInv, ItemStep
  PROVE  StackStep
<1>0. /\ synchronized \in BOOLEAN /\ errors \in errors..MaxErrors /\ (synchronized \/ Faulty)
      /\ (Running => scan = <<>>)
  BY ErrorsStay, RunningFacts DEF StackInv, FaultsOK, Faulty
<1>1. CASE TokenHit
  <2>1. PICK do \in DOMAIN OnHit : At(do)
    BY <1>1 DEF TokenHit, AtToken
  <2>2. This.do = do /\ Outcome(OnHit[do])
    BY <1>1, <2>1, ItemFacts DEF TokenHit
  <2>3. do \notin {"call", "consumed", "oneaccess"} /\ (OnHit[do] = "call" => do \in Jobs)
    BY <2>1 DEF OnHit, Jobs
  <2> QED BY <2>1, <2>2, <2>3, OutcomeStep
<1>2. CASE TokenMiss
  <2>1. PICK do \in DOMAIN OnHit : At(do)
    BY <1>2 DEF TokenMiss, AtToken
  <2>2. This.do = do /\ Outcome(OnMiss[do])
    BY <1>2, <2>1, ItemFacts DEF TokenMiss
  <2>3. do \notin {"call", "consumed", "oneaccess"} /\ (OnMiss[do] = "call" => do \in Jobs)
    BY <2>1 DEF OnHit, OnMiss, Jobs
  <2> QED BY <2>1, <2>2, <2>3, OutcomeStep
<1>3. CASE NameHit
  <2>1. PICK do \in {"name"} : At(do)
    BY <1>3 DEF NameHit
  <2>2. /\ Running /\ ~AtLast /\ ~Exempt(Top) /\ Function.form = "do" /\ This.do = "name"
        /\ ItemOK(Top.p, Top.at, This)
    BY <2>1, ItemFacts DEF At
  <2>3. PICK m \in queue[1] \cap This.toks : Step(WithTop([Top EXCEPT !.at = @ + 1, !.held = <<m>>]))
    BY <1>3 DEF NameHit
  <2>4. m \in Marks
    BY <2>2, <2>3 DEF ItemOK, Marks
  <2>5. <<m>> \in Seq(Marks)
    BY <2>4
  <2> DEFINE g == [Top EXCEPT !.at = Top.at + 1, !.held = <<m>>]
  <2>6. Top \in Frames /\ Top.at + 1 \in Nat \ {0} /\ Function = Functions[Top.p]
    BY <2>2, RunningFacts, NextItem
  <2>7. g \in Frames /\ g.p = Top.p /\ g.bad = Top.bad
    <3>1. g \in Frames
      BY <2>5, <2>6 DEF Frames
    <3> QED BY <2>6, <3>1 DEF Frames
  <2>8. stack' = WithTop(g) /\ result' = "" /\ UNCHANGED <<value, scan>>
    BY <2>3 DEF Step
  <2> HIDE DEF g
  <2>9. Fits(g.p, g.at) /\ (g.bad => Faulty)
    BY <2>2, <2>6, <2>7, TopHasNoted DEF Fits
  <2>10. synchronized' = TRUE /\ UNCHANGED errors
    BY <1>3 DEF NameHit
  <2> QED BY <1>0, <2>2, <2>7, <2>8, <2>9, <2>10, Moved
<1>4. CASE TypeNameHit
  <2>1. PICK do \in {"typename"} : At(do) /\ ((Return("matched") /\ UNCHANGED status) \/ Report)
    BY <1>4 DEF TypeNameHit
  <2>2. Running /\ ~AtLast
    BY <2>1, ItemFacts DEF At
  <2>3. CASE Report
    BY <2>2, <2>3, ReportStep
  <2>4. CASE ~Report
    <3>1. "matched" \in Results
      BY DEF Results
    <3> QED BY <2>1, <2>2, <2>4, <3>1, ReturnStep1 DEF status
  <2> QED BY <2>3, <2>4
<1>5. CASE TypeNameMiss
  <2>1. PICK do \in {"typename"} : At(do) /\ Return("nomatch") /\ UNCHANGED status /\ "nomatch" \in Results
    BY <1>5 DEF TypeNameMiss, Results
  <2>2. Running /\ ~AtLast
    BY <2>1, ItemFacts DEF At
  <2> QED BY <2>1, <2>2, ReturnStep1 DEF status
<1>6. CASE DecorateHit
  <2>1. At("decorate") /\ UNCHANGED status
    BY <1>6 DEF DecorateHit
  <2>2. In("do") /\ ~AtLast /\ ~Exempt(Top)
    BY <2>1, ItemFacts DEF At
  <2> DEFINE list == SelectLastInSeq(stack, LAMBDA f : f.p = "decoration_list")
             c == Past
  <2>3. PICK kind \in Range(DecorationKind) : Step([c EXCEPT ![list].held = Append(@, kind)])
    BY <1>6 DEF DecorateHit
  <2>7. list \in 1..Len(stack) => stack[list].p = "decoration_list"
    <3> DEFINE Places == {i \in 1..Len(stack) : stack[i].p = "decoration_list"}
    <3>1. list = IF Places = {} THEN 0 ELSE Max(Places)
      BY DEF SelectLastInSeq
    <3>2. Chain(stack)
      BY DEF StackInv, StackOK
    <3>3. Places # {} => Max(Places) \in Places
      <4>1. Places \in SUBSET (1..Len(stack))
        OBVIOUS
      <4> HIDE DEF Places
      <4> QED BY <3>2, <4>1, LastFacts
    <3>4. 0 \notin 1..Len(stack)
      OBVIOUS
    <3> HIDE DEF list
    <3> QED BY <3>1, <3>3, <3>4
  <2> HIDE DEF list
  <2>4. Chain(c)
    BY <2>2, PastFacts
  <2> HIDE DEF c
  <2>5. CASE list \in 1..Len(c)
    <3> DEFINE f == [c[list] EXCEPT !.held = Append(@, kind)]
    <3>1. c[list] \in Frames /\ c[list].held \in Seq(Marks) /\ kind \in Marks
      BY <2>3, <2>4, <2>5, ChainFacts DEF Marks
    <3>2. Append(c[list].held, kind) \in Seq(Marks)
      BY <3>1, AppendProperties
    <3>3. f \in Frames /\ f.p = c[list].p /\ f.at = c[list].at /\ f.bad = c[list].bad
      BY <3>1, <3>2 DEF Frames
    <3>4. [c EXCEPT ![list].held = Append(@, kind)] = [c EXCEPT ![list] = f]
      BY <2>5
    <3>5. stack' = [c EXCEPT ![list] = f] /\ result' = "" /\ UNCHANGED <<value, scan>>
      BY <2>3, <3>4 DEF Step
    <3> HIDE DEF f
    <3>6. CanReplace(list, c, f)
      BY <2>7, <3>3 DEF CanReplace
    <3>7. stack' = Put(c, list, f)
      BY <3>5 DEF Put
    <3> QED BY <2>1, <2>2, <3>3, <3>5, <3>6, <3>7, GoesOnElsewhere DEF c, status
  <2>6. CASE list \notin 1..Len(c)
    <3>1. c \in [1..Len(c) -> Frames]
      BY <2>4, ChainFacts
    <3>2. [c EXCEPT ![list].held = Append(@, kind)] = c
      BY <2>6, <3>1
    <3>3. Step(Past)
      BY <2>3, <3>2 DEF c
    <3> QED BY <1>0, <2>1, <2>2, <3>3, GoesOn DEF Step, status
  <2> QED BY <2>5, <2>6
<1>7. CASE DecorateMiss
  <2>1. PICK do \in {"decorate"} : At(do) /\ Return("nomatch") /\ UNCHANGED status /\ "nomatch" \in Results
    BY <1>7 DEF DecorateMiss, Results
  <2>2. Running /\ ~AtLast
    BY <2>1, ItemFacts DEF At
  <2> QED BY <2>1, <2>2, ReturnStep1 DEF status
<1>8. CASE TwoHit
  <2>1. In("do") /\ Running /\ ~AtLast /\ ~Exempt(Top)
    BY <1>8, ItemFacts DEF TwoHit, At
  <2>2. (Step(Past) /\ UNCHANGED status) \/ Report
    BY <1>8 DEF TwoHit
  <2> QED BY <1>0, <2>1, <2>2, GoesOn, ReportStep DEF Step, status
<1>9. CASE TwoMiss
  <2>1. In("do") /\ Running /\ ~AtLast /\ ~Exempt(Top)
    BY <1>9, ItemFacts DEF TwoMiss, At
  <2>2. (Step(Past) \/ Return("nomatch")) /\ UNCHANGED status /\ "nomatch" \in Results
    BY <1>9 DEF TwoMiss, Results
  <2> QED BY <1>0, <2>1, <2>2, GoesOn, ReturnStep1 DEF Step, status
<1>10. CASE CallItem
  <2>1. PICK do \in {"call"} : At(do) /\ Step(Calling(This.of)) /\ UNCHANGED status
    BY <1>10 DEF CallItem
  <2>2. /\ Running /\ Function.form = "do" /\ Top.at <= Len(Function.items) /\ This.do = "call"
        /\ Function = Functions[Top.p]
    BY <2>1, ItemFacts, RunningFacts DEF At
  <2>3. Calls(Top.p, Top.at, This.of)
    BY <2>2 DEF Calls, This, Jobs
  <2> QED BY <2>1, <2>2, <2>3, Called DEF Step, status
<1>11. CASE FailItem
  BY <1>11, ItemFacts, ReportStep DEF FailItem
<1>12. CASE CastItem
  BY <1>12, CastStep
<1>13. CASE TakeAccess
  <2>1. PICK do \in {"takeaccess"} : At(do) /\ UNCHANGED status
    BY <1>13 DEF TakeAccess
  <2>2. /\ Running /\ ~AtLast /\ Function.form = "do" /\ This.do = "takeaccess"
        /\ ItemOK(Top.p, Top.at, This)
    BY <2>1, ItemFacts DEF At
  <2>3. Top.p = "variable_ident_decl" /\ Top.at = 4
    BY <2>2 DEF ItemOK
  <2> DEFINE rest == Others(Top.held, "access")
             b == Len(Top.held) > Len(rest) + 1
             g == [Top EXCEPT !.at = Top.at + 1, !.bad = b, !.held = rest]
  <2>4. Step(WithTop(g))
    BY <1>13 DEF TakeAccess
  <2>5. Top \in Frames /\ Top.held \in Seq(Marks) /\ Function = Functions[Top.p]
    BY <2>2, RunningFacts
  <2>6. rest \in Seq(Marks) /\ b \in BOOLEAN
    BY <2>5, OthersType
  <2> HIDE DEF rest, b
  <2>7. g \in Frames /\ g.p = Top.p /\ g.at = 5
    <3>1. Top.at + 1 = 5 /\ 5 \in Nat \ {0}
      BY <2>3
    <3>2. g \in Frames
      BY <2>5, <2>6, <3>1 DEF Frames
    <3> QED BY <2>5, <3>1, <3>2 DEF Frames
  <2> HIDE DEF g
  <2>8. Fits(g.p, g.at) /\ Exempt(g)
    BY <2>2, <2>3, <2>5, <2>7 DEF Fits, Exempt
  <2>9. stack' = WithTop(g) /\ result' = "" /\ UNCHANGED <<value, scan>>
    BY <2>4 DEF Step
  <2> QED BY <1>0, <2>1, <2>2, <2>7, <2>8, <2>9, Moved DEF status
<1>14. CASE Consumed
  <2>1. PICK do \in {"consumed", "oneaccess"} : At(do)
    BY <1>14 DEF Consumed
  <2>2. Running /\ In("do") /\ ~AtLast /\ This.do = do /\ Function = Functions[Top.p]
    BY <2>1, ItemFacts, RunningFacts DEF At
  <2>3. CASE Report
    BY <2>2, <2>3, ReportStep
  <2>4. CASE ~Report
    <3>1. Step(Past) /\ UNCHANGED status /\ (do = "oneaccess" => ~Top.bad)
      BY <1>14, <2>1, <2>2, <2>4 DEF Consumed
    <3>2. Exempt(Top) /\ Top.bad => Top.at = 6
      <4> SUFFICES ASSUME Exempt(Top), Top.bad PROVE Top.at = 6
        OBVIOUS
      <4>1. Top.at = 5 \/ Top.at = 6 \/ Top.at = 7
        BY DEF Exempt
      <4>2. do = "consumed"
        BY <2>1, <3>1
      <4> QED BY <2>2, <4>1, <4>2, VariableItems DEF This, Exempt
    <3>3. Top.at + 1 \in Nat \ {0}
      BY <2>2, RunningFacts, NextItem
    <3>4. Exempt(Top) /\ Top.bad => Top.at + 1 \in 5..7
      BY <3>2
    <3>5. stack' = Goto(Top.at + 1)
      BY <3>1 DEF Step, Past
    <3> QED BY <1>0, <2>2, <3>1, <3>3, <3>4, <3>5, GoesTo DEF Step, status
  <2> QED BY <2>3, <2>4
<1>15. CASE Register
  <2>1. At("register") /\ Step(Past) /\ UNCHANGED <<synchronized, errors>>
    BY <1>15 DEF Register
  <2>2. In("do") /\ ~AtLast /\ ~Exempt(Top)
    BY <2>1, ItemFacts DEF At
  <2> QED BY <1>0, <2>1, <2>2, GoesOn DEF Step
<1>16. CASE Stop
  <2>1. Return("errored") /\ UNCHANGED status /\ "errored" \in Results
    BY <1>16 DEF Stop, Results
  <2>0. PICK do \in {"stopifbad", "insync"} : At(do)
    BY <1>16 DEF Stop
  <2>2. Running /\ ~AtLast /\ ~Exempt(Top)
    BY <2>0, ItemFacts DEF At
  <2>3. Top.bad \/ ~synchronized
    BY <1>16 DEF Stop
  <2>4. Faulty
    BY <2>2, <2>3, TopHasNoted DEF Faulty
  <2> QED BY <2>1, <2>2, <2>4, ReturnStep1 DEF status
<1>17. CASE GoOn
  <2>1. Step(Past) /\ UNCHANGED status
    BY <1>17 DEF GoOn
  <2>2. In("do") /\ ~AtLast /\ ~Exempt(Top)
    BY <1>17, ItemFacts DEF GoOn, At
  <2> QED BY <1>0, <2>1, <2>2, GoesOn DEF Step, status
<1>18. CASE TooDeep
  BY <1>18, ItemFacts, ReportStep DEF TooDeep
<1>19. CASE Reject
  BY <1>19, ItemFacts, ReportStep DEF Reject
<1>20. CASE Finish
  <2>1. Running /\ ~AtLast /\ ~Exempt(Top)
    BY <1>20, EndFacts DEF Finish
  <2>2. UNCHANGED status /\ ((Return("errored") /\ Top.bad) \/ Return("matched"))
    BY <1>20 DEF Finish
  <2>3. "matched" \in Results /\ "errored" \in Results
    BY DEF Results
  <2> QED BY <2>1, <2>2, <2>3, TopHasNoted, ReturnStep1 DEF status
<1> QED
  BY <1>1, <1>2, <1>3, <1>4, <1>5, <1>6, <1>7, <1>8, <1>9, <1>10, <1>11, <1>12, <1>13, <1>14,
     <1>15, <1>16, <1>17, <1>18, <1>19, <1>20 DEF ItemStep

-----------------------------------------------------------------------------
(* Results *)

\* The top function goes to item n after an error.
LEMMA Notes ==
  ASSUME StackInv, Running \/ scan # <<>>, Faulty, ~AtLast, NEW n \in Nat \ {0}, Fits(Top.p, n),
         stack' = Noted(n), result' = "", UNCHANGED value, scan' = <<>>,
         synchronized' \in BOOLEAN, errors' \in errors..MaxErrors
  PROVE  StackStep
<1> DEFINE g == [Top EXCEPT !.at = n, !.bad = TRUE]
<1>1. Top \in Frames
  BY RunningFacts
<1>2. g \in Frames /\ g.p = Top.p /\ g.at = n
  <2>1. g \in Frames
    BY <1>1 DEF Frames
  <2> QED BY <1>1, <2>1 DEF Frames
<1>3. stack' = WithTop(g)
  BY DEF Noted
<1> HIDE DEF g
<1>4. Fits(g.p, g.at)
  BY <1>2
<1> QED BY <1>2, <1>3, <1>4, Moved

\* The top function goes on at the next item; it is one of several, or a block.
LEMMA GoesOnIn ==
  ASSUME StackInv, Running, ~Exempt(Top), ~AtLast, Fits(Top.p, Top.at + 1),
         stack' = Past, result' = "", UNCHANGED <<value, scan, synchronized, errors>>
  PROVE  StackStep
<1> DEFINE g == [Top EXCEPT !.at = Top.at + 1]
<1>1. Top \in Frames /\ Top.at \in Nat /\ scan = <<>>
  BY RunningFacts
<1>2. Top.at + 1 \in Nat \ {0}
  BY <1>1, NextItem
<1>3. g \in Frames /\ g.p = Top.p /\ g.at = Top.at + 1 /\ g.bad = Top.bad
  <2>1. g \in Frames
    BY <1>1, <1>2 DEF Frames
  <2> QED BY <1>1, <2>1 DEF Frames
<1>4. stack' = WithTop(g)
  BY DEF Past, Goto
<1> HIDE DEF g
<1>5. Fits(g.p, g.at) /\ (g.bad => Faulty)
  BY <1>3, TopHasNoted
<1>6. synchronized' \in BOOLEAN /\ errors' \in errors..MaxErrors /\ (synchronized' \/ Faulty)
  BY StatusFacts
<1> QED BY <1>1, <1>3, <1>4, <1>5, <1>6, Moved

\* A function of another form than a list of items.
LEMMA OtherForms ==
  ASSUME StackInv, NEW form, In(form), form # "do"
  PROVE  Running /\ Function = Functions[Top.p] /\ Function.form = form /\ ~AtLast /\ ~Exempt(Top)
<1>1. Running /\ Function = Functions[Top.p] /\ Function.form = form
  BY RunningFacts DEF In
<1>2. ~AtLast
  BY <1>1, AtLastFacts, GlobalDeclItems
<1>3. ~Exempt(Top)
  BY <1>1, VariableItems DEF Exempt
<1> QED BY <1>1, <1>2, <1>3

\* What an item makes of the result of the function that it has called.
LEMMA PolicyFacts ==
  ASSUME StackInv, NEW o, Back2(o)
  PROVE  /\ Running /\ In("do") /\ Function.form = "do" /\ Function = Functions[Top.p]
         /\ o \in {"next", "stay", "first", "keep", "note", "outer", "matched", "nomatch", "errored",
                   "endless", "report", "params", "body", "salvage", "skip"}
         /\ o \in {"note", "outer", "errored", "params", "body"} => Faulty
         /\ AtLast => o \in {"salvage", "skip", "report"}
         /\ o = "salvage" => Salvaging(stack)
         /\ Exempt(Top) => o \in {"next", "report", "errored"} /\ Top.at + 1 \in 5..7
<1>1. /\ Running /\ In("do") /\ Function.form = "do" /\ Function = Functions[Top.p] /\ result # ""
      /\ Policy = o
  BY RunningFacts DEF Back2, In
<1>2. result \in {"matched", "nomatch", "errored"} /\ Waits(stack)
  BY <1>1 DEF StackInv, StackOK, Results
<1>3. PICK q : Calls(Top.p, Top.at, q)
  BY <1>1, <1>2, RunningFacts DEF Waits
<1>4. Top.at <= Len(Function.items) /\ This.do \in Jobs
  BY <1>1, <1>3 DEF Calls, This
<1>5. /\ Len(Function.items) \in Nat /\ DOMAIN Function.items = 1..Len(Function.items)
      /\ \A i \in DOMAIN Function.items : ItemOK(Top.p, i, Function.items[i])
  BY <1>1, RunningFacts DEF FunctionOK
<1>6. Top.at \in 1..Len(Function.items)
  <2>1. \A a, n \in Nat : a # 0 /\ a <= n => a \in 1..n
    OBVIOUS
  <2>2. Top.at \in Nat /\ Top.at # 0
    BY <1>1, RunningFacts
  <2> QED BY <1>4, <1>5, <2>1, <2>2
<1>7. ItemOK(Top.p, Top.at, This)
  BY <1>5, <1>6 DEF This
<1>8. o = IF This.do = "call" THEN This[result]
          ELSE IF result = "matched" THEN IF This.do = "each" THEN "stay" ELSE "next"
          ELSE IF result = "nomatch" THEN "report" ELSE "errored"
  <2>1. o = IF This.do = "call" THEN This[result]
            ELSE [matched |-> IF This.do = "each" THEN "stay" ELSE "next",
                  nomatch |-> "report", errored |-> "errored"][result]
    BY <1>1 DEF Policy
  <2>2. CASE result = "matched"
    BY <2>1, <2>2
  <2>3. CASE result = "nomatch"
    BY <2>1, <2>3
  <2>4. CASE result = "errored"
    BY <2>1, <2>4
  <2> QED BY <1>2, <2>2, <2>3, <2>4
<1>9. This.do = "call" =>
        /\ PolicyOK(This) /\ (This.matched = "salvage" => Top.p = "expect_global_decl")
        /\ This[result] = IF result = "matched" THEN This.matched
                          ELSE IF result = "nomatch" THEN This.nomatch ELSE This.errored
  BY <1>2, <1>7 DEF ItemOK
<1>10. /\ o \in {"next", "stay", "first", "keep", "note", "outer", "matched", "nomatch", "errored",
                 "endless", "report", "params", "body", "salvage", "skip"}
       /\ o \in {"note", "outer", "errored", "params", "body"} => result = "errored"
       /\ o = "salvage" => This.do = "call" /\ result = "matched" /\ This.matched = "salvage"
  BY <1>2, <1>8, <1>9 DEF PolicyOK
<1>11. AtLast => o \in {"salvage", "skip", "report"}
  <2> SUFFICES ASSUME AtLast PROVE o \in {"salvage", "skip", "report"}
    OBVIOUS
  <2>1. This = Functions["expect_global_decl"].items[8]
    BY <1>1, AtLastFacts DEF This
  <2> QED BY <1>2, <1>8, <1>9, <2>1, GlobalDeclItems
<1>12. o = "salvage" => Salvaging(stack)
  <2> SUFFICES ASSUME o = "salvage" PROVE Salvaging(stack)
    OBVIOUS
  <2>1. Top.p = "expect_global_decl" /\ This.do = "call" /\ This.matched = "salvage"
    BY <1>9, <1>10
  <2>2. Len(stack) = 2 /\ Top = stack[Len(stack)] /\ Top.at \in Nat /\ Top.at # 0 /\ Len(stack) > 1
    BY <1>1, <2>1, RunningFacts
  <2>3. Function = Functions["expect_global_decl"]
    BY <1>1, <2>1
  <2>4. Top.at \in 1..8
    BY <1>6, <2>3, GlobalDeclItems
  <2>5. Top.at \notin 1..7
    BY <2>1, <2>3, GlobalDeclItems DEF This
  <2>6. Top.at = 8
    BY <2>4, <2>5
  <2> QED BY <2>2, <2>6 DEF Salvaging
<1>13. Exempt(Top) => o \in {"next", "report", "errored"} /\ Top.at + 1 \in 5..7
  <2> SUFFICES ASSUME Exempt(Top) PROVE o \in {"next", "report", "errored"} /\ Top.at + 1 \in 5..7
    OBVIOUS
  <2>1. Top.at = 5 \/ Top.at = 6 \/ Top.at = 7
    BY DEF Exempt
  <2>2. Function = Functions["variable_ident_decl"]
    BY <1>1 DEF Exempt
  <2>3. Top.at = 5
    BY <1>4, <2>1, <2>2, VariableItems DEF This, Jobs
  <2>4. This = Functions["variable_ident_decl"].items[5]
    BY <2>2, <2>3 DEF This
  <2> QED BY <1>2, <1>8, <1>9, <2>3, <2>4, VariableItems
<1>14. result = "errored" => Faulty
  BY DEF Faulty
<1> QED BY <1>1, <1>10, <1>11, <1>12, <1>13, <1>14

\* A search from the top ends in the frame that it looks for, or in none.
LEMMA ItemDoneStep ==
  ASSUME StackInv, ItemDone
  PROVE  StackStep
<1>0. UNCHANGED <<synchronized, errors>>
  BY DEF ItemDone, status
<1>1. synchronized' \in BOOLEAN /\ errors' \in errors..MaxErrors /\ (synchronized' \/ Faulty)
  BY <1>0, StatusFacts
<1>2. CASE Back2("next") /\ Step(Past)
  <2>1. Running /\ In("do") /\ ~AtLast /\ (Exempt(Top) => Top.at + 1 \in 5..7)
    BY <1>2, PolicyFacts
  <2>2. Top.at + 1 \in Nat \ {0}
    BY <2>1, RunningFacts, NextItem
  <2>3. stack' = Goto(Top.at + 1) /\ result' = "" /\ UNCHANGED <<value, scan>>
    BY <1>2 DEF Step, Past
  <2> QED BY <1>1, <2>1, <2>2, <2>3, GoesTo
<1>3. CASE Back2("stay") /\ Step(stack)
  BY <1>0, <1>3, Stayed DEF Step
<1>4. CASE Back2("first") /\ Step(Goto(1))
  <2>1. In("do") /\ ~AtLast /\ ~Exempt(Top)
    BY <1>4, PolicyFacts
  <2>2. stack' = Goto(1) /\ result' = "" /\ UNCHANGED <<value, scan>>
    BY <1>4 DEF Step
  <2>3. 1 \in Nat \ {0}
    OBVIOUS
  <2> QED BY <1>1, <2>1, <2>2, <2>3, GoesTo
<1>5. CASE Back2("keep") /\ Step(WithTop([Top EXCEPT !.at = @ + 1, !.held = value]))
  <2> DEFINE g == [Top EXCEPT !.at = Top.at + 1, !.held = value]
  <2>1. Running /\ Function.form = "do" /\ ~AtLast /\ ~Exempt(Top) /\ Function = Functions[Top.p]
    BY <1>5, PolicyFacts
  <2>2. Top \in Frames /\ Top.at \in Nat /\ value \in Seq(Marks) /\ scan = <<>>
    BY <2>1, RunningFacts DEF StackInv, StackOK
  <2>3. Top.at + 1 \in Nat \ {0}
    BY <2>2, NextItem
  <2>4. g \in Frames /\ g.p = Top.p /\ g.bad = Top.bad
    <3>1. g \in Frames
      BY <2>2, <2>3 DEF Frames
    <3> QED BY <2>2, <3>1 DEF Frames
  <2>5. stack' = WithTop(g) /\ result' = "" /\ UNCHANGED <<value, scan>>
    BY <1>5 DEF Step
  <2> HIDE DEF g
  <2>6. Fits(g.p, g.at) /\ (g.bad => Faulty)
    BY <2>1, <2>4, TopHasNoted DEF Fits
  <2> QED BY <1>1, <2>1, <2>2, <2>4, <2>5, <2>6, Moved
<1>6. CASE Back2("note") /\ Step(Noted(Top.at + 1))
  <2>1. Running /\ Faulty /\ ~AtLast /\ Function.form = "do" /\ Function = Functions[Top.p]
    BY <1>6, PolicyFacts
  <2>2. Top.at + 1 \in Nat \ {0} /\ scan = <<>>
    BY <2>1, RunningFacts, NextItem
  <2>3. Fits(Top.p, Top.at + 1)
    BY <2>1 DEF Fits
  <2>4. stack' = Noted(Top.at + 1) /\ result' = "" /\ UNCHANGED <<value, scan>>
    BY <1>6 DEF Step
  <2> QED BY <1>1, <2>1, <2>2, <2>3, <2>4, Notes
<1>7. CASE /\ Back2("outer")
           /\ LET body == SelectLastInSeq(stack, LAMBDA f : f.p = "struct_members")
              IN  Step([Past EXCEPT ![body].bad = TRUE])
  <2> DEFINE body == SelectLastInSeq(stack, LAMBDA f : f.p = "struct_members")
             c == Past
  <2>1. In("do") /\ Faulty /\ ~AtLast /\ ~Exempt(Top)
    BY <1>7, PolicyFacts
  <2>2. Step([c EXCEPT ![body].bad = TRUE])
    BY <1>7
  <2> HIDE DEF body
  <2>3. Chain(c)
    BY <2>1, PastFacts
  <2> HIDE DEF c
  <2>4. CASE body \in 1..Len(c)
    <3> DEFINE f == [c[body] EXCEPT !.bad = TRUE]
    <3>1. c[body] \in Frames
      BY <2>3, <2>4, ChainFacts
    <3>2. f \in Frames /\ f.p = c[body].p /\ f.at = c[body].at /\ f.held = c[body].held /\ f.bad
      BY <3>1 DEF Frames
    <3>3. [c EXCEPT ![body].bad = TRUE] = [c EXCEPT ![body] = f]
      BY <2>4
    <3>4. stack' = [c EXCEPT ![body] = f] /\ result' = "" /\ UNCHANGED <<value, scan>>
      BY <2>2, <3>3 DEF Step
    <3> HIDE DEF f
    <3>5. CanReplace(body, c, f)
      BY <3>2 DEF CanReplace
    <3>6. stack' = Put(c, body, f)
      BY <3>4 DEF Put
    <3> QED BY <1>0, <2>1, <3>2, <3>4, <3>5, <3>6, GoesOnElsewhere DEF c
  <2>5. CASE body \notin 1..Len(c)
    <3>1. c \in [1..Len(c) -> Frames]
      BY <2>3, ChainFacts
    <3>2. [c EXCEPT ![body].bad = TRUE] = c
      BY <2>5, <3>1
    <3>3. Step(Past)
      BY <2>2, <3>2 DEF c
    <3> QED BY <1>1, <2>1, <3>3, GoesOn DEF Step
  <2> QED BY <2>4, <2>5
<1>8. ASSUME NEW r \in {"matched", "nomatch", "errored"}, Back2(r), Return(r)
      PROVE  StackStep
  <2>1. Running /\ ~AtLast /\ (r = "errored" => Faulty)
    BY <1>8, PolicyFacts
  <2>2. r \in Results
    BY <1>8 DEF Results
  <2> QED BY <1>0, <1>8, <2>1, <2>2, ReturnStep1
<1> QED BY <1>2, <1>3, <1>4, <1>5, <1>6, <1>7, <1>8 DEF ItemDone

\* A result that ends in an error, or that sync_to() is called for.
LEMMA ItemEndsStep ==
  ASSUME StackInv, NoContinuing \/ ItemFails \/ ItemSeeks \/ Skip
  PROVE  StackStep
<1>1. CASE NoContinuing
  <2>1. In("do") /\ ~AtLast /\ ~Exempt(Top)
    BY <1>1, PolicyFacts DEF NoContinuing
  <2>2. Step(Past) /\ UNCHANGED <<synchronized, errors>>
    BY <1>1 DEF NoContinuing
  <2>3. synchronized' \in BOOLEAN /\ errors' \in errors..MaxErrors /\ (synchronized' \/ Faulty)
    BY <2>2, StatusFacts
  <2> QED BY <2>1, <2>2, <2>3, GoesOn DEF Step
<1>2. CASE ItemFails
  <2>1. Running /\ Report
    BY <1>2, PolicyFacts DEF ItemFails
  <2> QED BY <2>1, ReportStep
<1>3. CASE Skip
  <2>1. Running /\ Report
    BY <1>3, PolicyFacts DEF Skip
  <2> QED BY <2>1, ReportStep
<1>4. CASE ItemSeeks
  <2>0. \A to, take : Seek(to, take) => result' = "" /\ synchronized' = FALSE /\ UNCHANGED value
    BY DEF Seek
  <2>1. PICK o \in {"params", "body", "salvage"} : Back2(o)
    BY <1>4 DEF ItemSeeks
  <2>2. result' = "" /\ synchronized' = FALSE /\ UNCHANGED <<value, stack, errors>>
    BY <1>4, <2>0 DEF ItemSeeks
  <2>3. Running /\ (Faulty \/ Salvaging(stack))
    BY <2>1, PolicyFacts
  <2>4. errors' \in errors..MaxErrors
    BY <2>2, ErrorsStay
  <2> QED BY <2>2, <2>3, <2>4, Sought
<1> QED BY <1>1, <1>2, <1>3, <1>4

\* A function calls one of those that it is made of.
LEMMA DescendStep ==
  ASSUME StackInv, Descend
  PROVE  StackStep
<1>1. UNCHANGED <<synchronized, errors>>
  BY DEF Descend, status
<1>2. CASE In("alt") /\ Step(Calling(Function.of[Top.at]))
  <2>1. Running /\ Function = Functions[Top.p] /\ Function.form = "alt"
    BY <1>2, RunningFacts DEF In
  <2>2. Top.at <= Len(Function.of)
    BY <2>1, RunningFacts DEF Fits
  <2>3. Calls(Top.p, Top.at, Function.of[Top.at])
    BY <2>1, <2>2 DEF Calls
  <2> QED BY <1>1, <1>2, <2>1, <2>3, Called DEF Step
<1>3. CASE (In("many") \/ In("sync")) /\ Step(Calling(Function.of))
  <2>1. Running /\ Function = Functions[Top.p] /\ Function.form \in {"many", "sync"}
    BY <1>3, RunningFacts DEF In
  <2>2. Calls(Top.p, Top.at, Function.of)
    BY <2>1 DEF Calls
  <2> QED BY <1>1, <1>3, <2>1, <2>2, Called DEF Step
<1> QED BY <1>2, <1>3 DEF Descend

LEMMA AltManyReturn ==
  ASSUME StackInv, AltReturns \/ ManyReturns
  PROVE  StackStep
<1>0. /\ result \in Results /\ (result = "errored" => Faulty)
      /\ "matched" \in Results /\ "errored" \in Results
  BY DEF StackInv, StackOK, Faulty, Results
<1>1. CASE AltReturns
  <2>1. In("alt") /\ UNCHANGED <<synchronized, errors>>
    BY <1>1 DEF AltReturns, status
  <2>2. Running /\ Function = Functions[Top.p] /\ Function.form = "alt" /\ ~AtLast /\ ~Exempt(Top)
    BY <2>1, OtherForms
  <2>3. CASE Top.at < Len(Function.of) /\ Step(Past)
    <3>1. Top.at \in Nat /\ Len(Function.of) \in Nat
      BY <2>2, RunningFacts DEF FunctionOK
    <3>2. Top.at + 1 <= Len(Function.of)
      BY <2>3, <3>1
    <3>3. Fits(Top.p, Top.at + 1)
      BY <2>2, <3>2 DEF Fits
    <3> QED BY <2>1, <2>2, <2>3, <3>3, GoesOnIn DEF Step
  <2>4. CASE Return(result)
    BY <1>0, <2>1, <2>2, <2>4, ReturnStep1
  <2> QED BY <1>1, <2>3, <2>4 DEF AltReturns
<1>2. CASE ManyReturns
  <2>1. In("many") /\ UNCHANGED <<synchronized, errors>>
    BY <1>2 DEF ManyReturns, status
  <2>2. Running /\ ~AtLast
    BY <2>1, OtherForms
  <2>3. CASE Step(stack)
    BY <2>1, <2>3, Stayed DEF Step
  <2>4. CASE ~Step(stack)
    <3>1. Return(IF result = "nomatch" THEN "matched" ELSE "errored") /\ result # "" /\ result # "matched"
      BY <1>2, <2>4 DEF ManyReturns
    <3>2. result = "nomatch" \/ result = "errored"
      BY <1>0, <3>1 DEF Results
    <3>3. Return("matched") \/ (Return("errored") /\ Faulty)
      BY <1>0, <3>1, <3>2
    <3> QED BY <1>0, <2>1, <2>2, <3>3, ReturnStep1
  <2> QED BY <2>3, <2>4
<1> QED BY <1>1, <1>2

\* A loop ends in an error only if it has noted one, or one has been returned.
LEMMA LoopEnds ==
  ASSUME StackInv, In("while") \/ In("list"), Return(LoopResult), UNCHANGED <<synchronized, errors>>
  PROVE  StackStep
<1>1. Running /\ ~AtLast /\ ~Exempt(Top)
  BY OtherForms
<1>2. LoopResult \in Results /\ (LoopResult = "errored" => Top.bad \/ result = "errored")
  BY DEF LoopResult, Results
<1>3. LoopResult = "errored" => Faulty
  BY <1>1, <1>2, TopHasNoted DEF Faulty
<1> QED BY <1>1, <1>2, <1>3, ReturnStep1

LEMMA LoopStep ==
  ASSUME StackInv, WhileRound \/ WhileStop \/ WhileReturns
  PROVE  StackStep
<1>0. (In("while") \/ In("list")) /\ UNCHANGED <<synchronized, errors>>
  BY DEF WhileRound, WhileStop, WhileReturns, status
<1>1. /\ Running /\ Function = Functions[Top.p] /\ Function.form \in {"while", "list"}
      /\ ~AtLast /\ ~Exempt(Top)
  BY <1>0, OtherForms
<1>2. CASE WhileRound
  <2>1. Calls(Top.p, Top.at, Function.of)
    BY <1>1 DEF Calls
  <2>2. Step(Calling(Function.of))
    BY <1>2 DEF WhileRound
  <2> QED BY <1>0, <1>1, <2>1, <2>2, Called DEF Step
<1>3. CASE WhileStop
  BY <1>0, <1>3, LoopEnds DEF WhileStop
<1>4. CASE WhileReturns
  <2>1. CASE Return(LoopResult)
    BY <1>0, <2>1, LoopEnds
  <2>2. CASE Step(stack)
    BY <1>0, <2>2, Stayed DEF Step
  <2>3. CASE result = "errored" /\ Step(Noted(Top.at))
    <3>1. Faulty /\ Top.at \in Nat \ {0} /\ Fits(Top.p, Top.at) /\ scan = <<>>
      BY <1>1, <2>3, RunningFacts DEF Faulty
    <3>2. synchronized' \in BOOLEAN /\ errors' \in errors..MaxErrors
      BY <1>0, StatusFacts
    <3> QED BY <1>1, <2>3, <3>1, <3>2, Notes DEF Step
  <2> QED BY <1>4, <2>1, <2>2, <2>3 DEF WhileReturns
<1> QED BY <1>2, <1>3, <1>4

LEMMA SyncReturnsStep ==
  ASSUME StackInv, SyncReturns
  PROVE  StackStep
<1>1. /\ Running /\ Function = Functions[Top.p] /\ Function.form \in {"sync", "block"}
      /\ ~AtLast /\ ~Exempt(Top)
  BY OtherForms DEF SyncReturns
<1>2. CASE result = "errored"
  <2>1. Seek(Function.close, TRUE) /\ UNCHANGED <<stack, errors>> /\ Faulty
    BY <1>2 DEF SyncReturns, Faulty
  <2>2. errors' \in errors..MaxErrors
    BY <2>1, ErrorsStay
  <2> QED BY <1>1, <2>1, <2>2, Sought DEF Seek
<1>3. CASE result # "errored"
  <2>1. (Return(result) \/ Step(Past)) /\ UNCHANGED <<synchronized, errors>> /\ result \in Results
    BY <1>3 DEF SyncReturns, status, StackInv, StackOK
  <2>2. Fits(Top.p, Top.at + 1)
    BY <1>1 DEF Fits
  <2> QED BY <1>1, <1>3, <2>1, <2>2, ReturnStep1, GoesOnIn DEF Step
<1> QED BY <1>2, <1>3

\* A block calls its function behind its first token.
LEMMA BlockOpensStep ==
  ASSUME StackInv, BlockOpens
  PROVE  StackStep
<1>0. Running /\ Function = Functions[Top.p] /\ Function.form = "block" /\ ~AtLast /\ ~Exempt(Top)
  BY OtherForms DEF BlockOpens
<1>1. CASE Outcome("lost")
  <2>1. synchronized' = FALSE /\ Add(1) /\ Return("errored")
    BY <1>1 DEF Outcome
  <2>2. "errored" \in Results /\ 1 \in Nat /\ 1 > 0
    BY DEF Results
  <2> QED BY <1>0, <2>1, <2>2, Reported
<1>2. CASE ~Outcome("lost")
  <2>1. /\ Step(Append(Past, Frame(Function.of))) /\ synchronized' = TRUE /\ UNCHANGED errors
        /\ Top.at = 1
    BY <1>2 DEF BlockOpens
  <2> DEFINE g == [Top EXCEPT !.at = Top.at + 1]
             c == [stack EXCEPT ![Len(stack)] = g]
             q == Function.of
             t == Append(c, Frame(q))
  <2>2. Top \in Frames /\ Len(stack) > 0 /\ Len(stack) > 1 /\ Top = stack[Len(stack)] /\ scan = <<>>
    BY <1>0, RunningFacts
  <2>3. g \in Frames /\ g.p = Top.p /\ g.at = 2 /\ g.bad = Top.bad
    <3>1. Top.at + 1 = 2 /\ 2 \in Nat \ {0}
      BY <2>1
    <3>2. g \in Frames
      BY <2>2, <3>1 DEF Frames
    <3> QED BY <2>2, <3>1, <3>2 DEF Frames
  <2>4. stack' = t
    BY <2>1 DEF Step, Past, Goto, WithTop, Depth
  <2> HIDE DEF g
  <2>5. Chain(stack) /\ Fits(g.p, g.at) /\ g.p = stack[Len(stack)].p /\ value \in Seq(Marks)
    BY <1>0, <2>2, <2>3 DEF StackInv, StackOK, Fits
  <2>6. /\ Chain(c) /\ Len(c) = Len(stack) /\ c[Len(stack)] = g
        /\ HasNoted(c) => HasNoted(stack) \/ (g.bad /\ ~Exempt(g))
        /\ Salvaging(stack) /\ Len(stack) > 2 => Salvaging(c)
        /\ Shape(stack, c)
    BY <2>2, <2>3, <2>5, ChainMove
  <2>15. \A i \in 1..(Len(stack) - 1) : c[i] = stack[i]
    BY <2>2, <2>3, <2>5, ChainMove
  <2> HIDE DEF c
  <2>7. Calls(g.p, g.at, q)
    BY <1>0, <2>3 DEF Calls
  <2>8. q \in DOMAIN Functions /\ q # "expect_global_decl" /\ Fits(q, 1)
    <3>1. g.p \in DOMAIN Functions /\ g.at \in Nat \ {0}
      BY <1>0, <2>3, RunningFacts
    <3> QED BY <2>7, <3>1, CalleeFacts
  <2> HIDE DEF q
  <2>9. Calls(c[Len(c)].p, c[Len(c)].at, q) /\ Len(c) > 0 /\ Len(c) > 1
    BY <2>2, <2>6, <2>7
  <2>10. /\ Chain(t) /\ (HasNoted(t) => HasNoted(c)) /\ (Salvaging(c) => Salvaging(t))
         /\ Len(t) = Len(c) + 1 /\ t[Len(c) + 1] = Frame(q) /\ Shape(c, t)
    BY <2>6, <2>8, <2>9, ChainCall
  <2>16. \A i \in 1..Len(c) : t[i] = c[i]
    BY <2>6, <2>8, <2>9, ChainCall
  <2> HIDE DEF t
  <2>17. Shape(stack, t)
    <3>1. Len(stack) \in Nat /\ Len(t) \in Nat /\ Len(t) = Len(stack) + 1
      BY <1>0, <2>6, <2>10, ChainFacts, RunningFacts
    <3>2. \A m, n \in Nat : m = n + 1 =>
            m >= n - 1 /\ m <= n + 1 /\ (\A i \in 1..(n - 1) : i \in 1..n) /\ (n > 0 => n \in 1..n)
      OBVIOUS
    <3>3. \A i \in 1..(Len(stack) - 1) : t[i] = stack[i]
      BY <2>6, <2>15, <2>16, <3>1, <3>2
    <3>4. t[Len(stack)].p = stack[Len(stack)].p
      BY <2>2, <2>3, <2>6, <2>16, <3>1, <3>2
    <3>5. t[Len(t)] = Frame(t[Len(t)].p)
      <4>1. t[Len(t)] = Frame(q)
        BY <2>6, <2>10
      <4> QED BY <4>1 DEF Frame
    <3> QED BY <3>1, <3>2, <3>3, <3>4, <3>5, ShapeOf
  <2>11. StackOK'
    BY <2>1, <2>2, <2>4, <2>5, <2>10 DEF StackOK, Results, Step
  <2>12. Faulty' => Faulty
    <3>1. HasNoted(t) => Faulty
      BY <1>0, <2>3, <2>6, <2>10, TopHasNoted DEF Faulty
    <3> QED BY <2>1, <2>2, <2>4, <3>1 DEF Faulty, Step
  <2>13. errors' \in errors..MaxErrors /\ synchronized' \in BOOLEAN
    BY <2>1, ErrorsStay
  <2>14. FaultsOK' /\ (errors' = 0 => errors = 0 /\ (Salvaging(stack) => Salvaging(stack')))
    BY <1>0, <2>4, <2>6, <2>10, <2>12, <2>13, FaultsStep
  <2> QED BY <2>4, <2>11, <2>14, <2>17 DEF StackInv, StackStep
<1> QED BY <1>1, <1>2

LEMMA BlockClosesStep ==
  ASSUME StackInv, BlockCloses
  PROVE  StackStep
<1>0. Running /\ ~AtLast
  BY OtherForms DEF BlockCloses
<1>1. CASE Return("matched")
  <2>1. (errors' = errors /\ synchronized' = TRUE) \/ Add(1)
    BY <1>1 DEF BlockCloses
  <2>0. synchronized' \in BOOLEAN
    BY DEF BlockCloses
  <2>2. synchronized' \in BOOLEAN /\ "matched" \in Results /\ 1 \in Nat /\ 1 > 0
    BY <2>0 DEF Results
  <2>3. CASE Add(1)
    BY <1>0, <1>1, <2>2, <2>3, Reported
  <2>4. CASE ~Add(1)
    BY <1>0, <1>1, <2>1, <2>2, <2>4, ReturnStep1
  <2> QED BY <2>3, <2>4
<1>2. CASE ~Return("matched")
  <2>1. synchronized' = FALSE /\ Add(1) /\ UNCHANGED <<stack, result, value>> /\ result = ""
    BY <1>2 DEF BlockCloses
  <2>2. 1 \in Nat /\ 1 > 0
    OBVIOUS
  <2>3. errors' \in errors..MaxErrors /\ (errors' = 0 => Silent)
    BY <2>1, <2>2, AddFacts
  <2> QED BY <1>0, <2>1, <2>3, Sought
<1> QED BY <1>1, <1>2

-----------------------------------------------------------------------------
(* translation_unit *)

\* The outermost function is alone on the stack, and no error is silenced there.
LEMMA UnitFacts ==
  ASSUME StackInv, InUnit
  PROVE  /\ Chain(stack) /\ Len(stack) = 1 /\ Len(stack) > 0 /\ ~(Len(stack) > 1) /\ Depth = Len(stack)
         /\ Top.held \in Seq(Marks) /\ scan = <<>> /\ ~Salvaging(stack)
         /\ errors = 0 => ~Faulty
<1>1. Chain(stack) /\ stack # <<>> /\ Top.p = "translation_unit"
  BY DEF StackInv, StackOK, InUnit
<1>2. Len(stack) \in Nat /\ Len(stack) > 0
  BY <1>1, ChainFacts
<1>3. Depth = Len(stack) /\ Top = stack[Len(stack)] /\ Len(stack) \in 1..Len(stack)
  BY <1>2 DEF Depth, Top
<1>4. Len(stack) = 1 /\ Top.held \in Seq(Marks)
  BY <1>1, <1>3, ChainFacts DEF Chain
<1>5. ~(Len(stack) > 1)
  BY <1>4
<1>6. ~Salvaging(stack) /\ scan = <<>>
  BY <1>5 DEF Salvaging, StackInv, StackOK
<1>7. errors = 0 => ~Faulty
  BY <1>6 DEF StackInv, FaultsOK
<1> QED BY <1>1, <1>2, <1>3, <1>4, <1>5, <1>6, <1>7

LEMMA UnitStep ==
  ASSUME StackInv, NextDeclaration \/ DeclarationDone \/ EndOfUnit
  PROVE  StackStep
<1>0. InUnit /\ UNCHANGED <<synchronized, errors>>
  BY DEF NextDeclaration, DeclarationDone, EndOfUnit, status
<1>1. /\ Chain(stack) /\ Len(stack) > 0 /\ ~(Len(stack) > 1) /\ Top.held \in Seq(Marks) /\ scan = <<>>
      /\ errors = 0 => ~Faulty
      /\ ~Salvaging(stack)
  BY <1>0, UnitFacts
<1>2. value \in Seq(Marks) /\ errors \in 0..MaxErrors /\ synchronized \in BOOLEAN
  BY DEF StackInv, StackOK, FaultsOK
<1>3. CASE Step(Calling("expect_global_decl"))
  <2> DEFINE t == Append(stack, Frame("expect_global_decl"))
  <2>1. "expect_global_decl" \in DOMAIN Functions
    BY DomainOfFunctions
  <2>2. Fits("expect_global_decl", 1)
    BY GlobalDeclItems DEF Fits
  <2>3. PICK q \in DOMAIN Functions : q = "expect_global_decl"
    BY <2>1
  <2>4. Chain(t) /\ (HasNoted(t) => HasNoted(stack)) /\ Shape(stack, t)
    BY <1>1, <2>2, <2>3, ChainCall
  <2>5. stack' = t /\ result' = "" /\ UNCHANGED <<value, scan>>
    BY <1>3 DEF Step, Calling
  <2> HIDE DEF t
  <2>6. StackOK'
    BY <1>1, <1>2, <2>4, <2>5 DEF StackOK, Results
  <2>7. Faulty' => Faulty
    BY <1>0, <2>4, <2>5 DEF Faulty
  <2>8. FaultsOK'
    BY <1>0, <1>1, <1>2, <2>7 DEF FaultsOK
  <2> QED BY <1>0, <1>1, <2>4, <2>5, <2>6, <2>8, ErrorsKept DEF StackInv, StackStep
<1>4. CASE Step(stack)
  BY <1>0, <1>4, Stayed DEF Step
<1>5. CASE Return("")
  <2> DEFINE t == Front(stack)
  <2>1. Chain(t) /\ Waits(t) /\ (HasNoted(t) => HasNoted(stack)) /\ Shape(stack, t)
    BY <1>1, ChainReturn
  <2>2. stack' = t /\ result' = "" /\ value' = Top.held /\ UNCHANGED scan
    BY <1>5 DEF Return
  <2> HIDE DEF t
  <2>3. StackOK'
    BY <1>1, <2>1, <2>2 DEF StackOK, Results
  <2>4. Faulty' => Faulty
    BY <1>0, <2>1, <2>2 DEF Faulty
  <2>5. FaultsOK'
    BY <1>0, <1>1, <1>2, <2>4 DEF FaultsOK
  <2> QED BY <1>0, <1>1, <2>1, <2>2, <2>3, <2>5, ErrorsKept DEF StackInv, StackStep
<1> QED BY <1>3, <1>4, <1>5 DEF NextDeclaration, DeclarationDone, EndOfUnit

LEMMA ReturnStepKeepsStack ==
  ASSUME StackInv, ReturnStep
  PROVE  StackStep
BY ItemDoneStep, ItemEndsStep, DescendStep, AltManyReturn, LoopStep, SyncReturnsStep,
   BlockOpensStep, BlockClosesStep, UnitStep DEF ReturnStep

-----------------------------------------------------------------------------
(* sync_to and the lexer *)

\* The function that called sync_to() goes on, or fails, with an error that is known.
LEMMA ResumeStep ==
  ASSUME StackInv, scan # <<>>, NEW found \in BOOLEAN, Resume(found), synchronized' \in BOOLEAN
  PROVE  StackStep
<1>1. Faulty /\ value \in Seq(Marks) /\ scan' = <<>>
  BY DEF Faulty, StackInv, StackOK, Resume
<1>2. CASE found /\ Top.p \in {"function_header", "function_decl"}
  <2> DEFINE n == IF Top.p = "function_header" THEN Top.at + 1 ELSE 3
  <2>1. stack' = Noted(n) /\ UNCHANGED <<result, value, errors>>
    BY <1>2 DEF Resume
  <2>2. Top.at \in Nat /\ Function = Functions[Top.p]
    BY RunningFacts
  <2>3. n \in Nat \ {0}
    BY <2>2
  <2> HIDE DEF n
  <2>4. Fits(Top.p, n) /\ Top.p # "expect_global_decl"
    BY <1>2, HeaderForms DEF Fits
  <2>5. ~AtLast /\ result = ""
    BY <2>4, AtLastFacts DEF StackInv, StackOK
  <2>6. errors' \in errors..MaxErrors
    BY <2>1, ErrorsStay
  <2> QED BY <1>1, <2>1, <2>3, <2>4, <2>5, <2>6, Notes
<1>3. CASE ~(found /\ Top.p \in {"function_header", "function_decl"})
  <2>1. stack' = Front(stack) /\ result' = "errored" /\ value' = <<>>
    BY <1>3 DEF Resume
  <2>2. result' \in Results /\ value' \in Seq(Marks)
    BY <2>1, EmptySeq DEF Results
  <2>3. CASE Top.p = "expect_global_decl"
    <3>1. Add(1) /\ 1 \in Nat /\ 1 > 0
      BY <1>3, <2>3 DEF Resume
    <3>2. errors' \in errors..MaxErrors /\ (errors' = 0 => Silent)
      BY <3>1, AddFacts
    <3> QED BY <1>1, <2>1, <2>2, <3>2, Returned
  <2>4. CASE Top.p # "expect_global_decl"
    <3>1. UNCHANGED errors
      BY <1>3, <2>4 DEF Resume
    <3>2. errors' \in errors..MaxErrors /\ ~AtLast
      BY <2>4, <3>1, ErrorsStay, AtLastFacts
    <3> QED BY <1>1, <2>1, <2>2, <3>2, Returned
  <2> QED BY <2>3, <2>4
<1> QED BY <1>2, <1>3

LEMMA SyncToKeepsStack ==
  ASSUME StackInv, SyncTo
  PROVE  StackStep
<1>1. scan # <<>> /\ synchronized \in BOOLEAN
  BY DEF SyncTo, StackInv, FaultsOK
<1>2. PICK c, q : ScanPast(c, q) \/ ScanStop(c, q)
  BY DEF SyncTo
<1>3. CASE ScanPast(c, q)
  <2>1. CASE UNCHANGED <<stack, result, value, status>>
    <3>1. StackInv'
      BY <1>1, <2>1 DEF StackInv, StackOK, FaultsOK, Faulty, status
    <3>2. UNCHANGED <<stack, errors>>
      BY <2>1 DEF status
    <3> QED BY <3>1, <3>2, SameShape, ErrorsKept DEF StackStep, StackInv, StackOK
  <2>2. CASE Resume(FALSE) /\ UNCHANGED synchronized
    BY <1>1, <2>2, ResumeStep
  <2> QED BY <1>3, <2>1, <2>2 DEF ScanPast
<1>4. CASE ScanStop(c, q)
  <2>1. PICK found \in BOOLEAN : Resume(found) /\ synchronized' \in BOOLEAN
    BY <1>1, <1>4 DEF ScanStop
  <2> QED BY <1>1, <2>1, ResumeStep
<1> QED BY <1>2, <1>3, <1>4

LEMMA InitHasStack == Init => StackInv
<1> SUFFICES ASSUME Init PROVE StackInv
  OBVIOUS
<1> DEFINE f == Frame("translation_unit")
<1>1. /\ stack = <<f>> /\ result = "" /\ value = <<>> /\ scan = <<>> /\ synchronized = TRUE
      /\ errors = 0
  BY DEF Init
<1>2. f \in Frames /\ f.p = "translation_unit" /\ f.bad = FALSE
  BY FramesFacts DEF Programs
<1> HIDE DEF f
<1>3. /\ stack \in Seq(Frames) /\ Len(stack) = 1 /\ stack[1] = f /\ ~(Len(stack) > 1)
      /\ \A i \in 1..Len(stack) : i = 1
      /\ \A i \in 2..(Len(stack) - 1) : FALSE
  <2>0. <<f>> = Append(<<>>, f)
    OBVIOUS
  <2>3. <<>> \in Seq(Frames) /\ Len(<<>>) = 0
    BY EmptySeq
  <2>1. stack \in Seq(Frames) /\ Len(stack) = 1 /\ stack[1] = f
    BY <1>1, <1>2, <2>0, <2>3, AppendProperties
  <2>2. \A n : n = 1 => ~(n > 1) /\ (\A i \in 1..n : i = 1) /\ (\A i \in 2..(n - 1) : FALSE)
    OBVIOUS
  <2> QED BY <2>1, <2>2
<1>4. Chain(stack)
  BY <1>2, <1>3 DEF Chain, Fits
<1>5. value \in Seq(Marks)
  BY <1>1, EmptySeq
<1>6. ~Faulty
  BY <1>1, <1>2, <1>3 DEF Faulty, HasNoted
<1>7. errors \in 0..MaxErrors
  <2>1. \A m \in Nat : 0 \in 0..m
    OBVIOUS
  <2> QED BY <1>1, <2>1, BoundsAssumption
<1> QED BY <1>1, <1>4, <1>5, <1>6, <1>7 DEF StackInv, StackOK, FaultsOK, Results

LEMMA EveryStep ==
  ASSUME StackInv, [Next]_vars
  PROVE  StackStep
<1>1. CASE Lex \/ UNCHANGED vars
  <2>1. UNCHANGED <<stack, errors>> /\ StackInv'
    BY <1>1 DEF Lex, vars, status, StackInv, StackOK, FaultsOK, Faulty
  <2> QED BY <2>1, SameShape, ErrorsKept DEF StackStep, StackInv, StackOK
<1> QED BY <1>1, SyncToKeepsStack, ItemStepKeepsStack, ReturnStepKeepsStack DEF Next

LEMMA StackInvariant == Spec => []StackInv
<1>1. StackInv /\ [Next]_vars => StackInv'
  BY EveryStep DEF StackStep
<1> QED BY <1>1, InitHasStack, PTL DEF Spec

-----------------------------------------------------------------------------
(* What is proved of it *)

\* "In the case of a parse error the called method will have called add_error()": when
\* expect_global_decl() has failed, diags_ holds an error, for every text and whatever
\* the limits.  The errors of a statement outside of a function are silenced only while
\* expect_global_decl() runs, and it reports one of its own.
THEOREM ErrorsReported == Spec => []ErrorsAreReported
<1>1. StackInv => ErrorsAreReported
  <2> SUFFICES ASSUME StackInv, InUnit, result = "errored" PROVE errors > 0
    BY DEF ErrorsAreReported
  <2>1. errors # 0
    BY UnitFacts DEF Faulty
  <2> QED BY <2>1, BoundsAssumption DEF StackInv, FaultsOK
<1> QED BY <1>1, StackInvariant, PTL

=============================================================================
