------------------------- MODULE SpirvCfg_proofs -------------------------
(***************************************************************************)
(* Proofs about SpirvCfg: the types (TypeCorrect), the nesting of the      *)
(* constructs (NestingIsRight), and what the edges that are classified     *)
(* keep of it (ContinueLeftLast, NormalEdgesEnter, GuardsAreIfs).          *)
(*                                                                         *)
(* What an invariant says of the graph and its constructs is stated of     *)
(* values (a sequence cs of constructs, the declarations hd, mg and cn of  *)
(* N blocks), so that the lemmas on how the constructs grow do without     *)
(* primes.                                                                 *)
(***************************************************************************)
EXTENDS SpirvCfg, TLAPS, SequenceTheorems, WellFoundedInduction

Sorts == {"function", "if", "switch", "loop", "continue"}
Breakable == {"loop", "continue", "switch"}

Records == [kind : Sorts, begin : Nat, end : Nat, depth : Nat,
            parent : Nat, loop : Nat, cont : Nat, breakable : Nat]

\* Construct j is around construct k, and construct k holds block b.
Around(cs, j, k) == cs[j].begin <= cs[k].begin /\ cs[k].end <= cs[j].end
In(cs, k, b) == cs[k].begin <= b /\ b < cs[k].end

-----------------------------------------------------------------------------
(* The invariant *)

\* The declarations of N blocks, of which those from block t on are not known.
Declared(N, t, hd, mg, cn) ==
  /\ hd \in [1..N -> {"none", "if", "switch", "loop"}]
  /\ mg \in [1..N -> 0..N] /\ cn \in [1..N -> 0..N]
  /\ \A b \in 1..N :
       \/ hd[b] = "none" /\ mg[b] = 0 /\ cn[b] = 0
       \/ b < t /\ hd[b] \in {"if", "switch"} /\ b < mg[b] /\ cn[b] = 0
       \/ b < t /\ hd[b] = "loop" /\ b # 1 /\ b <= cn[b] /\ cn[b] < mg[b]
  /\ \A a, b \in 1..N : mg[a] = mg[b] /\ mg[a] # 0 => a = b
  /\ \A a, b \in 1..N : cn[a] = cn[b] /\ cn[a] # 0 => a = b

\* Construct r is one of those that block a heads.
Heads(r, a, hd, mg, cn) ==
  \/ r.kind = hd[a] /\ hd[a] \in {"if", "switch"} /\ r.begin = a /\ r.end = mg[a]
  \/ r.kind = "loop" /\ hd[a] = "loop" /\ r.begin = a /\ r.end = cn[a] /\ cn[a] # a
  \/ r.kind = "continue" /\ hd[a] = "loop" /\ r.begin = cn[a] /\ r.end = mg[a]

\* Block b is inside what block a heads, up to the merge block of a.
Originates(N, cs, hd, mg, cn) ==
  /\ cs \in Seq(Records) /\ Len(cs) >= 1
  /\ cs[1].kind = "function" /\ cs[1].begin = 1 /\ cs[1].end = N + 1
  /\ \A k \in 2..Len(cs) : \E a \in 1..N : Heads(cs[k], a, hd, mg, cn)
  /\ \A a, b \in 1..N : a <= b /\ b < mg[a] =>
       \E k \in 2..Len(cs) : In(cs, k, b) /\ cs[k].end <= mg[a] /\ Heads(cs[k], a, hd, mg, cn)

\* f is the nearest construct of a sort around construct k.
Nearest(cs, f, k, sorts) ==
  IF f = 0 THEN \A j \in 1..Len(cs) : cs[j].kind \in sorts => ~Around(cs, j, k)
  ELSE /\ f \in 1..Len(cs) /\ cs[f].kind \in sorts /\ Around(cs, f, k)
       /\ \A j \in 1..Len(cs) : cs[j].kind \in sorts /\ Around(cs, j, k) => Around(cs, j, f)

Fields(cs) ==
  \A k \in 1..Len(cs) :
    /\ cs[k].parent \in 0..Len(cs)
    /\ Nearest(cs, cs[k].loop, k, {"loop"})
    /\ Nearest(cs, cs[k].cont, k, {"continue"})
    /\ Nearest(cs, cs[k].breakable, k, Breakable)
    /\ cs[k].kind \in Breakable => cs[k].breakable = k

\* The construct of a block is inside every construct that holds the block.
Located(N, cs, con) ==
  \A b \in 1..N : con[b] # 0 =>
    /\ In(cs, con[b], b)
    /\ \A k \in 1..Len(cs) : In(cs, k, b) => Around(cs, k, con[b])

\* No two constructs are the same interval.
Distinct(cs) ==
  \A j, k \in 1..Len(cs) : Around(cs, j, k) /\ Around(cs, k, j) => j = k

\* What is around the continue construct of a loop holds the header, too.
LoopsInside(N, cs, cn) ==
  \A a \in 1..N : \A k \in 1..Len(cs) :
    cn[a] # 0 /\ cs[k].kind = "continue" /\ cs[k].begin = cn[a] =>
      \A j \in 1..Len(cs) : j # k /\ Around(cs, j, k) => In(cs, j, a)

\* What holds a header reaches to its merge block, but for the loop itself.
MergesInside(N, cs, mg) ==
  \A a \in 1..N : mg[a] # 0 =>
    \A j \in 1..Len(cs) : In(cs, j, a) =>
      mg[a] <= cs[j].end \/ (cs[j].kind = "loop" /\ cs[j].begin = a)

Nested(N, cs, mg, cn, con) ==
  /\ Fields(cs) /\ Located(N, cs, con) /\ Distinct(cs)
  /\ LoopsInside(N, cs, cn) /\ MergesInside(N, cs, mg)

\* Some construct of the stack can not be left any more: its end has passed, or
\* is before that of a construct over it.
Doomed(t, cs, st) ==
  \E i \in 2..Len(st) : \/ cs[st[i]].end < t
                        \/ \E j \in (i + 1)..Len(st) : cs[st[j]].end > cs[st[i]].end

\* The constructs of the stack are inside one another, but for a loop, which is
\* over its continue construct and ends where that begins.  The others have ended.
Stacked(t, cs, st) ==
  /\ \A i \in 1..Len(st) : \A j \in (i + 1)..Len(st) :
       cs[st[i]].begin <= cs[st[j]].begin \/ cs[st[j]].end <= cs[st[i]].begin
  /\ \A i \in 2..Len(st) : cs[st[i]].begin >= t =>
       i < Len(st) /\ cs[st[i + 1]].end = cs[st[i]].begin
  /\ \A k \in 1..Len(cs) : (\E i \in 1..Len(st) : st[i] = k) \/ cs[k].end < t

IsStack(cs, st) == st \in Seq(1..Len(cs)) /\ Len(st) >= 1 /\ st[1] = 1

LabelInv ==
  /\ at <= n + 1 /\ Len(constructs) <= 2 * at - 1
  /\ Declared(n, at, header, merge, ct)
  /\ IsStack(constructs, enclosing)
  /\ \A b \in Blocks : construct[b] = 0 <=> b >= at
  /\ \/ Doomed(at, constructs, enclosing)
     \/ Stacked(at, constructs, enclosing) /\ Nested(n, constructs, merge, ct, construct)
  /\ kind = [b \in Blocks |-> <<>>] /\ guard = {}

Later == {"cases", "edges", "ifs", "order", "accepted"}

LaterInv ==
  /\ Nested(n, constructs, merge, ct, construct)
  /\ \A b \in Blocks : construct[b] # 0
  /\ phase = "cases" => at <= Len(constructs) + 1
  /\ phase # "cases" => at <= n + 1
  /\ phase # "cases" =>
       \A b \in Blocks : header[b] = "if" /\ (phase = "edges" => b < at) => Len(targets[b]) = 2

TypeInv ==
  /\ n \in 1..MaxBlocks
  /\ phase \in {"label", "rejected"} \cup Later
  /\ at \in 1..(2 * n + 2) /\ Len(constructs) <= 2 * n + 1
  /\ header \in [Blocks -> Headers(n) \cup {"none"}]
  /\ targets \in [Blocks -> Seq(Blocks)]
  /\ \A k \in 1..Len(constructs) :
       /\ {constructs[k].parent, constructs[k].loop, constructs[k].cont,
           constructs[k].breakable} \subseteq 0..Len(constructs)
  /\ enclosing \in Seq(1..Len(constructs))
  /\ construct \in [Blocks -> 0..Len(constructs)]
  /\ caseHead \in [Blocks -> 0..Len(constructs)]
  /\ defaultHead \in [Blocks -> 0..Len(constructs)]
  /\ DOMAIN kind = Blocks
  /\ \A b \in Blocks : DOMAIN kind[b] \subseteq Blocks
  /\ \A b \in Blocks : \A d \in DOMAIN kind[b] : kind[b][d] \in EdgeKinds
  /\ premerge \in [Blocks -> 0..n]

GraphInv ==
  /\ Declared(n, n + 1, header, merge, ct)
  /\ Originates(n, constructs, header, merge, ct)

Inv ==
  /\ TypeInv /\ GraphInv
  /\ phase = "label" => LabelInv
  /\ phase \in Later => LaterInv
  /\ ContinueLeftAtItsEnd /\ NormalEdgesEnterAtHead /\ GuardsAreOfIfs

-----------------------------------------------------------------------------
(* Lists and numbers *)

\* A set of natural numbers that is not empty has a smallest member.
LEMMA Smallest ==
  ASSUME NEW T \in SUBSET Nat, T # {}
  PROVE  \E m \in T : \A y \in T : m <= y
<1>1. PICK m \in T : \A y \in T : ~ (<<y, m>> \in OpToRel(<, Nat))
  BY WFMin, NatLessThanWellFounded
<1>2. \A y \in T : ~ (y < m)
  BY <1>1 DEF OpToRel
<1> QED BY <1>2

\* So a bounded one has a largest, which Max returns.
LEMMA Largest ==
  ASSUME NEW N \in Nat, NEW T \in SUBSET (0..N), T # {}
  PROVE  Max(T) \in T /\ \A y \in T : y <= Max(T)
<1> DEFINE U == {m \in 0..N : \A y \in T : y <= m}
<1>1. N \in U /\ U \in SUBSET Nat
  OBVIOUS
<1>2. PICK m \in U : \A y \in U : m <= y
  BY <1>1, Smallest
<1>3. m \in T
  <2>1. SUFFICES ASSUME m \notin T PROVE FALSE
    OBVIOUS
  <2>2. PICK x \in T : TRUE
    OBVIOUS
  <2>3. m \in 0..N /\ x <= m /\ x # m /\ x \in 0..N
    BY <1>2, <2>1, <2>2
  <2>4. \A y \in T : y <= m - 1
    BY <1>2, <2>1, <2>3
  <2>5. m - 1 \in U
    BY <2>3, <2>4
  <2> QED BY <1>2, <2>3, <2>5
<1>4. \E x \in T : \A y \in T : x >= y
  BY <1>2, <1>3
<1> HIDE DEF U
<1>5. Max(T) \in T /\ \A y \in T : Max(T) >= y
  BY <1>4 DEF Max
<1> QED BY <1>5

-----------------------------------------------------------------------------
(* How LabelBlock makes the lists grow *)

Is(r, sort, b, e) == r.kind = sort /\ r.begin = b /\ r.end = e

\* Construct k of cs has the nearest constructs of construct up, but for itself.
Inherits(cs, k, up) ==
  /\ cs[k].parent = up
  /\ cs[k].loop = IF cs[k].kind = "loop" THEN k ELSE cs[up].loop
  /\ cs[k].cont = IF cs[k].kind = "continue" THEN k ELSE cs[up].cont
  /\ cs[k].breakable = IF cs[k].kind \in Breakable THEN k ELSE cs[up].breakable

\* The stack keeps its first p constructs, and q new ones are added.
Grows(p, q) ==
  /\ p \in 1..Len(enclosing) /\ q \in 0..2
  /\ constructs[enclosing[p]].end # at
  /\ \A i \in (p + 1)..Len(enclosing) : constructs[enclosing[i]].end = at
  /\ constructs' \in Seq(Records) /\ Len(constructs') = Len(constructs) + q
  /\ \A k \in 1..Len(constructs) : constructs'[k] = constructs[k]
  /\ enclosing' \in Seq(1..Len(constructs')) /\ Len(enclosing') = p + q
  /\ \A i \in 1..p : enclosing'[i] = enclosing[i]
  /\ \A i \in 1..q : enclosing'[p + i] = Len(constructs) + i
  /\ construct' = [construct EXCEPT ![at] = IF q = 0 THEN enclosing[p] ELSE Len(constructs) + q]

\* What the new ones are, inside construct up.
Adds(d, q, up) ==
  /\ \A i \in 1..q : Inherits(constructs', Len(constructs) + i, up)
  /\ d.header = "none" => q = 0
  /\ d.header \in {"if", "switch"} =>
       q = 1 /\ Is(constructs'[Len(constructs) + 1], d.header, at, d.merge)
  /\ d.header = "loop" =>
       /\ q = IF d.ct = at THEN 1 ELSE 2
       /\ Is(constructs'[Len(constructs) + 1], "continue", d.ct, d.merge)
       /\ d.ct # at => Is(constructs'[Len(constructs) + 2], "loop", at, d.ct)

\* r is construct k, a new one inside construct up of cs.
IsNew(r, k, sort, b, e, up, cs) ==
  /\ r \in Records /\ Is(r, sort, b, e)
  /\ r.parent = up
  /\ r.loop = IF sort = "loop" THEN k ELSE cs[up].loop
  /\ r.cont = IF sort = "continue" THEN k ELSE cs[up].cont
  /\ r.breakable = IF sort \in Breakable THEN k ELSE cs[up].breakable

\* A new construct is deeper than its parent, so it inherits.
LEMMA NewConstructIs ==
  ASSUME NEW cs \in Seq(Records), NEW up \in 1..Len(cs), NEW k \in Nat,
         NEW sort \in Sorts, NEW b \in Nat, NEW e \in Nat
  PROVE  IsNew(NewConstruct(k, sort, b, e, 1 + cs[up].depth, up, cs), k, sort, b, e, up, cs)
<1> DEFINE c == cs[up]
           r == NewConstruct(k, sort, b, e, 1 + c.depth, up, cs)
<1>1. c \in Records /\ up # 0 /\ up \in Nat
  BY ElementOfSeq
<1>2. /\ c.depth \in Nat /\ c.loop \in Nat /\ c.cont \in Nat /\ c.breakable \in Nat
      /\ c.depth < 1 + c.depth
  <2> HIDE DEF c
  <2>1. c.depth \in Nat /\ c.loop \in Nat /\ c.cont \in Nat /\ c.breakable \in Nat
    BY <1>1 DEF Records
  <2> QED BY <2>1
<1>3. r = [kind |-> sort, begin |-> b, end |-> e, depth |-> 1 + c.depth, parent |-> up,
           loop |-> IF sort = "loop" THEN k ELSE c.loop,
           cont |-> IF sort = "continue" THEN k ELSE c.cont,
           breakable |-> IF sort \in Breakable THEN k ELSE c.breakable]
  BY <1>1, <1>2 DEF NewConstruct, Breakable
<1> DEFINE l == IF sort = "loop" THEN k ELSE c.loop
           o == IF sort = "continue" THEN k ELSE c.cont
           w == IF sort \in Breakable THEN k ELSE c.breakable
<1> HIDE DEF c, r
<1>4. l \in Nat /\ o \in Nat /\ w \in Nat
  BY <1>2
<1> HIDE DEF l, o, w
<1>6. r = [kind |-> sort, begin |-> b, end |-> e, depth |-> 1 + c.depth, parent |-> up,
           loop |-> l, cont |-> o, breakable |-> w]
  BY <1>3 DEF l, o, w
<1>7. r \in Records
  <2>1. 1 + c.depth \in Nat
    BY <1>2
  <2>2. [kind |-> sort, begin |-> b, end |-> e, depth |-> 1 + c.depth, parent |-> up,
           loop |-> l, cont |-> o, breakable |-> w] \in Records
    BY <1>1, <1>4, <2>1 DEF Records
  <2> QED BY <1>6, <2>2
<1>5. Is(r, sort, b, e)
  BY <1>3 DEF Is
<1> QED BY <1>3, <1>5, <1>7 DEF IsNew, r, c

\* What is read off a new construct.
LEMMA NewInherits ==
  ASSUME NEW cs, NEW up, NEW k, NEW sort, NEW b, NEW e, NEW cs2, cs2[up] = cs[up],
         IsNew(cs2[k], k, sort, b, e, up, cs)
  PROVE  Is(cs2[k], sort, b, e) /\ Inherits(cs2, k, up)
BY DEF IsNew, Is, Inherits

\* Short sequences.
LEMMA Pair ==
  ASSUME NEW S, NEW x \in S, NEW y \in S
  PROVE  /\ <<>> \in Seq(S) /\ Len(<<>>) = 0
         /\ <<x>> \in Seq(S) /\ Len(<<x>>) = 1 /\ <<x>>[1] = x
         /\ <<x, y>> \in Seq(S) /\ Len(<<x, y>>) = 2 /\ <<x, y>>[1] = x /\ <<x, y>>[2] = y
OBVIOUS

\* The constructs that a block heads.
AreHeaded(new, b, d, up) ==
  /\ new \in Seq(Records) /\ Len(new) \in 0..2
  /\ d.header = "none" => Len(new) = 0
  /\ d.header \in {"if", "switch"} =>
       /\ Len(new) = 1
       /\ IsNew(new[1], Len(constructs) + 1, d.header, b, d.merge, up, constructs)
  /\ d.header = "loop" =>
       /\ Len(new) = IF d.ct = b THEN 1 ELSE 2
       /\ IsNew(new[1], Len(constructs) + 1, "continue", d.ct, d.merge, up, constructs)
       /\ d.ct # b => IsNew(new[2], Len(constructs) + 2, "loop", b, d.ct, up, constructs)

\* Headed returns them, one for a selection, and two for most loops.
LEMMA HeadedIs ==
  ASSUME constructs \in Seq(Records), NEW up \in 1..Len(constructs),
         NEW b \in Nat, NEW d, d.merge \in Nat, d.ct \in Nat,
         d.header \in {"none", "if", "switch", "loop"}
  PROVE  AreHeaded(Headed(b, d, up), b, d, up)
<1> DEFINE new == Headed(b, d, up)
           k == Len(constructs) + 1
           one == NewConstruct(k, d.header, b, d.merge, 1 + constructs[up].depth, up, constructs)
           cont == NewConstruct(k, "continue", d.ct, d.merge, 1 + constructs[up].depth, up, constructs)
           loop == NewConstruct(k + 1, "loop", b, d.ct, 1 + constructs[up].depth, up, constructs)
<1>1. k \in Nat /\ k + 1 \in Nat /\ k + 1 = Len(constructs) + 2
  OBVIOUS
<1>2. d.header \in {"if", "switch"} => IsNew(one, k, d.header, b, d.merge, up, constructs)
  <2>1. SUFFICES ASSUME d.header \in {"if", "switch"}
                 PROVE  IsNew(one, k, d.header, b, d.merge, up, constructs)
    OBVIOUS
  <2>2. d.header \in Sorts
    BY <2>1 DEF Sorts
  <2> QED BY <1>1, <2>2, NewConstructIs
<1>3. IsNew(cont, k, "continue", d.ct, d.merge, up, constructs)
  <2>1. "continue" \in Sorts
    BY DEF Sorts
  <2> QED BY <1>1, <2>1, NewConstructIs
<1>4. IsNew(loop, k + 1, "loop", b, d.ct, up, constructs)
  <2>1. "loop" \in Sorts
    BY DEF Sorts
  <2> QED BY <1>1, <2>1, NewConstructIs
<1>5. CASE d.header = "none"
  <2>1. new = <<>>
    BY <1>5 DEF Headed
  <2>2. new \in Seq(Records) /\ Len(new) = 0
    <3> HIDE DEF new
    <3> QED BY <2>1
  <2> QED BY <1>5, <2>2 DEF AreHeaded
<1>6. CASE d.header \in {"if", "switch"}
  <2>1. new = <<one>>
    BY <1>6 DEF Headed
  <2> HIDE DEF new, one
  <2>2. one \in Records
    BY <1>2, <1>6 DEF IsNew
  <2>3. new \in Seq(Records) /\ Len(new) = 1 /\ new[1] = one
    BY <2>1, <2>2, Pair
  <2> QED BY <1>2, <1>6, <2>3 DEF AreHeaded, new, k
<1>7. CASE d.header = "loop" /\ d.ct = b
  <2>1. new = <<cont>>
    BY <1>7 DEF Headed
  <2> HIDE DEF new, cont
  <2>2. cont \in Records
    BY <1>3 DEF IsNew
  <2>3. new \in Seq(Records) /\ Len(new) = 1 /\ new[1] = cont
    BY <2>1, <2>2, Pair
  <2> QED BY <1>3, <1>7, <2>3 DEF AreHeaded, new, k
<1>8. CASE d.header = "loop" /\ d.ct # b
  <2>1. new = <<cont, loop>>
    BY <1>8 DEF Headed
  <2> HIDE DEF new, cont, loop
  <2>2. cont \in Records /\ loop \in Records
    BY <1>3, <1>4 DEF IsNew
  <2>3. new \in Seq(Records) /\ Len(new) = 2 /\ new[1] = cont /\ new[2] = loop
    BY <2>1, <2>2, Pair
  <2>4. IsNew(new[2], Len(constructs) + 2, "loop", b, d.ct, up, constructs)
    BY <1>1, <1>4, <2>3
  <2> QED BY <1>3, <1>8, <2>3, <2>4 DEF AreHeaded, new, k
<1> QED BY <1>5, <1>6, <1>7, <1>8

\* Leave(b) keeps the stack up to its last construct that does not end at b.
LEMMA LeaveIs ==
  ASSUME NEW b, enclosing \in Seq(1..Len(constructs)), Len(enclosing) >= 1,
         constructs[enclosing[1]].end # b
  PROVE  \E p \in 1..Len(enclosing) :
           /\ Leave(b) \in Seq(1..Len(constructs)) /\ Len(Leave(b)) = p
           /\ \A i \in 1..p : Leave(b)[i] = enclosing[i]
           /\ constructs[enclosing[p]].end # b
           /\ \A i \in (p + 1)..Len(enclosing) : constructs[enclosing[i]].end = b
<1> DEFINE L == Len(enclosing)
           T == {i \in 1..L : constructs[enclosing[i]].end # b}
           p == Max(T)
<1>1. L \in Nat /\ 1 \in T /\ T \in SUBSET (0..L)
  OBVIOUS
<1>2. \A i \in 1..L : i \in T <=> constructs[enclosing[i]].end # b
  OBVIOUS
<1>3. T \in SUBSET (1..L)
  OBVIOUS
<1>4. SelectLastInSeq(enclosing, LAMBDA k : constructs[k].end # b) = IF T # {} THEN p ELSE 0
  <2>1. {i \in 1..Len(enclosing) : constructs[enclosing[i]].end # b} = T
    OBVIOUS
  <2> QED BY <2>1 DEF SelectLastInSeq
<1> HIDE DEF T
<1>5. p \in T /\ \A y \in T : y <= p
  BY <1>1, Largest
<1> HIDE DEF p
<1>6. Leave(b) = SubSeq(enclosing, 1, p)
  BY <1>1, <1>4 DEF Leave
<1>7. p \in 1..L /\ \A i \in 1..p : enclosing[i] \in 1..Len(constructs)
  BY <1>3, <1>5, ElementOfSeq
<1>8. /\ Leave(b) \in Seq(1..Len(constructs)) /\ Len(Leave(b)) = p
      /\ \A i \in 1..p : Leave(b)[i] = enclosing[i]
  BY <1>1, <1>6, <1>7, SubSeqProperties
<1>9. \A i \in (p + 1)..L : constructs[enclosing[i]].end = b
  <2> TAKE i \in (p + 1)..L
  <2>1. i \in 1..L /\ ~ (i <= p)
    BY <1>1, <1>7
  <2> QED BY <1>2, <1>5, <2>1
<1>10. constructs[enclosing[p]].end # b
  BY <1>2, <1>5, <1>7
<1> QED BY <1>7, <1>8, <1>9, <1>10

\* The members of Declarations, by field.
LEMMA DeclarationIs ==
  ASSUME n \in 1..MaxBlocks, NEW d \in Declarations
  PROVE  /\ d.header \in {"none", "if", "switch", "loop"}
         /\ d.header \in Headers(n) \cup {"none"}
         /\ d.merge \in 0..n /\ d.ct \in 0..n
         /\ d.header = "none" => d.merge = 0 /\ d.ct = 0
         /\ d.header \in {"if", "switch"} => d.ct = 0
<1>1. Headers(n) \subseteq {"if", "switch", "loop"} /\ n \in Nat
  BY BoundsOK, HeadersOK
<1>2. CASE d \in {[header |-> "none", merge |-> 0, ct |-> 0]}
  BY <1>1, <1>2
<1>3. CASE d \in {[header |-> h, merge |-> m, ct |-> 0] : h \in Headers(n) \ {"loop"}, m \in Blocks}
  <2>1. PICK h \in Headers(n) \ {"loop"}, m \in Blocks : d = [header |-> h, merge |-> m, ct |-> 0]
    BY <1>3
  <2>2. d.header = h /\ d.merge = m /\ d.ct = 0
    BY <2>1
  <2> QED BY <1>1, <2>2 DEF Blocks
<1>4. CASE d \in {[header |-> h, merge |-> m, ct |-> c] :
                    h \in Headers(n) \cap {"loop"}, m \in Blocks, c \in Blocks}
  <2>1. PICK h \in Headers(n) \cap {"loop"}, m \in Blocks, c \in Blocks :
          d = [header |-> h, merge |-> m, ct |-> c]
    BY <1>4
  <2>2. d.header = h /\ d.merge = m /\ d.ct = c
    BY <2>1
  <2> QED BY <1>1, <2>2 DEF Blocks
<1> QED BY <1>2, <1>3, <1>4 DEF Declarations

\* What is known before a block is labelled.
LEMMA BeforeLabel ==
  ASSUME Inv, NEW d \in Declarations, LabelBlock(d)
  PROVE  /\ n \in Nat /\ at \in 1..n /\ LabelInv
         /\ constructs \in Seq(Records) /\ Len(constructs) >= 1
         /\ constructs[1].end = n + 1
         /\ enclosing \in Seq(1..Len(constructs)) /\ Len(enclosing) >= 1 /\ enclosing[1] = 1
<1>1. TypeInv /\ GraphInv /\ LabelInv /\ at <= n
  BY DEF Inv, LabelBlock
<1>2. n \in Nat /\ at \in 1..n
  BY <1>1, BoundsOK DEF TypeInv
<1> QED BY <1>1, <1>2 DEF GraphInv, Originates, LabelInv, IsStack

\* LabelBlock leaves the stack's end, and adds the new constructs to it.
LEMMA LabelGrows ==
  ASSUME Inv, NEW d \in Declarations, LabelBlock(d)
  PROVE  \E p \in 1..Len(enclosing), q \in 0..2 : Grows(p, q) /\ Adds(d, q, enclosing[p])
<1> DEFINE K == Len(constructs)
           left == Leave(at)
<1>1. /\ n \in Nat /\ at \in 1..n
      /\ constructs \in Seq(Records) /\ K \in Nat /\ K >= 1 /\ constructs[1].end = n + 1
      /\ enclosing \in Seq(1..K) /\ Len(enclosing) >= 1 /\ enclosing[1] = 1
  BY BeforeLabel
<1>2. /\ d.header \in {"none", "if", "switch", "loop"}
      /\ d.merge \in Nat /\ d.ct \in Nat
  <2>1. n \in 1..MaxBlocks
    BY DEF Inv, TypeInv
  <2> QED BY <1>1, <2>1, DeclarationIs
<1>3. constructs[enclosing[1]].end # at
  BY <1>1
<1>4. PICK p \in 1..Len(enclosing) :
        /\ left \in Seq(1..K) /\ Len(left) = p
        /\ \A i \in 1..p : left[i] = enclosing[i]
        /\ constructs[enclosing[p]].end # at
        /\ \A i \in (p + 1)..Len(enclosing) : constructs[enclosing[i]].end = at
  BY <1>1, <1>3, LeaveIs
<1>5. p \in Nat /\ Last(left) = enclosing[p] /\ enclosing[p] \in 1..K
  <2>1. p \in Nat /\ p \in 1..p /\ Last(left) = left[p]
    BY <1>1, <1>4 DEF Last
  <2> QED BY <1>1, <1>4, <2>1, ElementOfSeq
<1> DEFINE up == enclosing[p]
           new == Headed(at, d, up)
           q == Len(new)
<1>6. /\ constructs' = constructs \o new
      /\ enclosing' = left \o [i \in DOMAIN new |-> K + i]
      /\ construct' = [construct EXCEPT ![at] = Last(enclosing')]
  BY <1>5 DEF LabelBlock
<1> HIDE DEF left, up
<1>7. AreHeaded(new, at, d, up)
  <2>1. at \in Nat /\ up \in 1..K
    BY <1>1, <1>5 DEF up
  <2> QED BY <1>1, <1>2, <2>1, HeadedIs
<1> HIDE DEF new
<1>14. new \in Seq(Records) /\ q \in 0..2
  BY <1>7 DEF AreHeaded
<1>8. /\ constructs' \in Seq(Records) /\ Len(constructs') = K + q
      /\ \A k \in 1..K : constructs'[k] = constructs[k]
      /\ \A i \in 1..q : constructs'[K + i] = new[i]
  <2>1. /\ constructs' \in Seq(Records) /\ Len(constructs') = K + q
        /\ \A i \in 1..(K + q) : constructs'[i] = IF i <= K THEN constructs[i] ELSE new[i - K]
    BY <1>1, <1>6, <1>14, ConcatProperties
  <2>2. ASSUME NEW i \in 1..q PROVE constructs'[K + i] = new[i]
    <3>1. K + i \in 1..(K + q) /\ ~ (K + i <= K) /\ (K + i) - K = i
      BY <1>1, <1>14
    <3> QED BY <2>1, <3>1
  <2>3. ASSUME NEW k \in 1..K PROVE constructs'[k] = constructs[k]
    <3>1. k \in 1..(K + q) /\ k <= K
      BY <1>1, <1>14
    <3> QED BY <2>1, <3>1
  <2> QED BY <2>1, <2>2, <2>3
<1> DEFINE names == [i \in DOMAIN new |-> K + i]
<1>9. names \in Seq(1..(K + q)) /\ Len(names) = q /\ \A i \in 1..q : names[i] = K + i
  <2>1. DOMAIN new = 1..q /\ q \in Nat
    BY <1>14
  <2>2. \A i \in 1..q : K + i \in 1..(K + q)
    BY <1>1, <2>1
  <2> HIDE DEF q, K
  <2>3. names = [i \in 1..q |-> K + i]
    BY <2>1
  <2> QED BY <2>1, <2>2, <2>3, IsASeq
<1> HIDE DEF names
<1>10. /\ enclosing' \in Seq(1..(K + q)) /\ Len(enclosing') = p + q
       /\ \A i \in 1..p : enclosing'[i] = enclosing[i]
       /\ \A i \in 1..q : enclosing'[p + i] = K + i
  <2>1. left \in Seq(1..(K + q))
    <3>1. 1..K \subseteq 1..(K + q)
      BY <1>1, <1>14
    <3> QED BY <1>4, <3>1, SeqMonotonic
  <2>2. enclosing' = left \o names
    BY <1>6 DEF names
  <2>3. /\ enclosing' \in Seq(1..(K + q)) /\ Len(enclosing') = p + q
        /\ \A i \in 1..(p + q) : enclosing'[i] = IF i <= p THEN left[i] ELSE names[i - p]
    <3> DEFINE S == 1..(K + q)
    <3>1. left \in Seq(S) /\ names \in Seq(S)
      BY <1>9, <2>1
    <3> HIDE DEF S
    <3>2. /\ left \o names \in Seq(S) /\ Len(left \o names) = Len(left) + Len(names)
          /\ \A i \in 1..(Len(left) + Len(names)) :
               (left \o names)[i] = IF i <= Len(left) THEN left[i] ELSE names[i - Len(left)]
      BY <3>1, ConcatProperties
    <3>3. Len(left) = p /\ Len(names) = q
      BY <1>4, <1>9
    <3> QED BY <2>2, <3>2, <3>3 DEF S
  <2>4. ASSUME NEW i \in 1..p PROVE enclosing'[i] = enclosing[i]
    <3>1. i \in 1..(p + q) /\ i <= p
      BY <1>5, <1>14
    <3> QED BY <1>4, <2>3, <3>1
  <2>5. ASSUME NEW i \in 1..q PROVE enclosing'[p + i] = K + i
    <3>1. p + i \in 1..(p + q) /\ ~ (p + i <= p) /\ (p + i) - p = i
      BY <1>5, <1>14
    <3> QED BY <1>9, <2>3, <3>1
  <2> QED BY <2>3, <2>4, <2>5
<1>11. Last(enclosing') = IF q = 0 THEN up ELSE K + q
  <2>1. Last(enclosing') = enclosing'[p + q]
    BY <1>10 DEF Last
  <2>2. CASE q = 0
    <3>1. p + q \in 1..p /\ p + q = p
      BY <1>5, <2>2
    <3> QED BY <1>10, <2>1, <2>2, <3>1 DEF up
  <2>3. CASE q # 0
    <3>1. q \in 1..q
      BY <1>14, <2>3
    <3> QED BY <1>10, <2>1, <2>3, <3>1
  <2> QED BY <2>2, <2>3
<1>12. Grows(p, q)
  <2> HIDE DEF q
  <2> QED BY <1>4, <1>6, <1>14, <1>8, <1>10, <1>11 DEF Grows, up
<1>13. Adds(d, q, up)
  <2>1. up \in 1..K
    BY <1>5 DEF up
  <2>2. constructs'[up] = constructs[up]
    BY <1>8, <2>1
  <2>3. CASE d.header = "none"
    <3>1. q = 0
      BY <1>7, <2>3 DEF AreHeaded
    <3> HIDE DEF q
    <3> QED BY <2>3, <3>1 DEF Adds
  <2>4. CASE d.header \in {"if", "switch"}
    <3>1. q = 1 /\ IsNew(new[1], K + 1, d.header, at, d.merge, up, constructs)
      BY <1>7, <2>4 DEF AreHeaded
    <3> HIDE DEF q
    <3>2. constructs'[K + 1] = new[1]
      BY <1>8, <3>1
    <3>3. Is(constructs'[K + 1], d.header, at, d.merge) /\ Inherits(constructs', K + 1, up)
      BY <2>2, <3>1, <3>2, NewInherits
    <3> QED BY <2>4, <3>1, <3>3 DEF Adds
  <2>5. CASE d.header = "loop"
    <3>1. /\ q = IF d.ct = at THEN 1 ELSE 2
          /\ IsNew(new[1], K + 1, "continue", d.ct, d.merge, up, constructs)
          /\ d.ct # at => IsNew(new[2], K + 2, "loop", at, d.ct, up, constructs)
      BY <1>7, <2>5 DEF AreHeaded
    <3> HIDE DEF q
    <3>2. constructs'[K + 1] = new[1]
      BY <1>8, <3>1
    <3>3. Is(constructs'[K + 1], "continue", d.ct, d.merge) /\ Inherits(constructs', K + 1, up)
      BY <2>2, <3>1, <3>2, NewInherits
    <3>4. d.ct # at => constructs'[K + 2] = new[2]
      BY <1>8, <3>1
    <3>5. d.ct # at => Is(constructs'[K + 2], "loop", at, d.ct) /\ Inherits(constructs', K + 2, up)
      BY <2>2, <3>1, <3>4, NewInherits
    <3>6. CASE d.ct = at
      BY <2>5, <3>1, <3>3, <3>6 DEF Adds
    <3>7. CASE d.ct # at
      <4>1. q = 2 /\ \A i \in 1..q : i = 1 \/ i = 2
        BY <3>1, <3>7
      <4> QED BY <2>5, <3>1, <3>3, <3>5, <3>7, <4>1 DEF Adds
    <3> QED BY <3>6, <3>7
  <2> QED BY <1>2, <2>3, <2>4, <2>5
<1> QED BY <1>14, <1>12, <1>13 DEF up

-----------------------------------------------------------------------------
(* Where the new constructs are among the old ones *)

\* The declaration keeps the rules of DeclarationOK, for block at.
Fresh(d) ==
  \/ d.header = "none" /\ d.merge = 0 /\ d.ct = 0
  \/ /\ d.header \in {"if", "switch"} /\ d.ct = 0
     /\ at < d.merge /\ d.merge <= n /\ \A a \in 1..n : merge[a] # d.merge
  \/ /\ d.header = "loop" /\ at # 1 /\ at <= d.ct /\ d.ct < d.merge /\ d.merge <= n
     /\ \A a \in 1..n : merge[a] # d.merge /\ ct[a] # d.ct

\* A block is labelled, and the stack is not doomed.
Labels(d, p, q) ==
  /\ n \in Nat /\ at \in 1..n /\ d.merge \in Nat /\ d.ct \in Nat /\ Fresh(d)
  /\ Declared(n, at, header, merge, ct)
  /\ Originates(n, constructs, header, merge, ct)
  /\ IsStack(constructs, enclosing)
  /\ construct \in [1..n -> 0..Len(constructs)]
  /\ \A b \in 1..n : construct[b] = 0 <=> b >= at
  /\ Stacked(at, constructs, enclosing)
  /\ Nested(n, constructs, merge, ct, construct)
  /\ Grows(p, q) /\ Adds(d, q, enclosing[p])
  /\ merge' = [merge EXCEPT ![at] = d.merge] /\ ct' = [ct EXCEPT ![at] = d.ct]
  /\ ~ Doomed(at + 1, constructs', enclosing')

Old == 1..Len(constructs)
New(q) == (Len(constructs) + 1)..(Len(constructs) + q)

\* The three kinds of new constructs.
LEMMA NewIs ==
  ASSUME NEW d, NEW p, NEW q, Labels(d, p, q), NEW k \in New(q)
  PROVE  \/ /\ k = Len(constructs) + 1 /\ q = 1 /\ d.header \in {"if", "switch"}
            /\ Is(constructs'[k], d.header, at, d.merge) /\ at < d.merge
         \/ /\ k = Len(constructs) + 1 /\ d.header = "loop"
            /\ Is(constructs'[k], "continue", d.ct, d.merge) /\ at <= d.ct /\ d.ct < d.merge
            /\ q = IF d.ct = at THEN 1 ELSE 2
         \/ /\ k = Len(constructs) + 2 /\ q = 2 /\ d.header = "loop"
            /\ Is(constructs'[k], "loop", at, d.ct) /\ at < d.ct
<1>1. /\ q \in 0..2 /\ Len(constructs) \in Nat /\ at \in Nat /\ d.ct \in Nat
      /\ Adds(d, q, enclosing[p]) /\ Fresh(d)
  BY DEF Labels, Grows, Originates
<1>2. q # 0 /\ (k = Len(constructs) + 1 \/ (k = Len(constructs) + 2 /\ q = 2))
  BY <1>1 DEF New
<1>3. d.header \in {"if", "switch"} \/ d.header = "loop"
  BY <1>1, <1>2 DEF Fresh, Adds
<1>4. CASE d.header \in {"if", "switch"}
  BY <1>1, <1>2, <1>4 DEF Adds, Fresh
<1>5. CASE d.header = "loop"
  BY <1>1, <1>2, <1>5 DEF Adds, Fresh
<1> QED BY <1>3, <1>4, <1>5

\* All constructs are intervals of blocks.
LEMMA Intervals ==
  ASSUME NEW N \in Nat, NEW hd, NEW mg, NEW cn, NEW t \in Nat, NEW cs,
         Declared(N, t, hd, mg, cn), Originates(N, cs, hd, mg, cn), N # 0,
         NEW k \in 1..Len(cs)
  PROVE  /\ cs[k].begin \in 1..N /\ cs[k].end \in 1..(N + 1) /\ cs[k].begin < cs[k].end
         /\ k # 1 => cs[k].end <= N
         /\ cs[k] \in Records
<1>1. cs[k] \in Records
  BY ElementOfSeq DEF Originates
<1>2. CASE k = 1
  BY <1>1, <1>2 DEF Originates
<1>3. CASE k # 1
  <2>1. k \in 2..Len(cs)
    BY <1>3 DEF Originates
  <2>2. PICK a \in 1..N : Heads(cs[k], a, hd, mg, cn)
    BY <2>1 DEF Originates
  <2>3. /\ mg[a] \in 0..N /\ cn[a] \in 0..N
        /\ hd[a] \in {"if", "switch"} => a < mg[a]
        /\ hd[a] = "loop" => a <= cn[a] /\ cn[a] < mg[a]
    BY <2>2 DEF Declared
  <2> QED BY <1>1, <1>3, <2>2, <2>3 DEF Heads
<1> QED BY <1>2, <1>3

\* The numbers the following lemmas are about.
LEMMA Numbers ==
  ASSUME NEW d, NEW p, NEW q, Labels(d, p, q)
  PROVE  /\ n \in Nat /\ at \in 1..n /\ Len(constructs) \in Nat /\ Len(constructs) >= 1
         /\ q \in 0..2 /\ Len(enclosing) \in Nat /\ p \in 1..Len(enclosing)
         /\ \A i \in 1..Len(enclosing) : enclosing[i] \in Old
         /\ enclosing[1] = 1
         /\ Len(constructs') = Len(constructs) + q
         /\ \A k \in Old : constructs'[k] = constructs[k]
         /\ \A k \in Old : /\ constructs[k].begin \in 1..n /\ constructs[k].end \in 1..(n + 1)
                           /\ constructs[k].begin < constructs[k].end
                           /\ k # 1 => constructs[k].end <= n
         /\ constructs[1].begin = 1 /\ constructs[1].end = n + 1
         /\ \A k \in New(q) : /\ constructs'[k].begin \in at..n /\ constructs'[k].end \in at..n
                              /\ constructs'[k].begin < constructs'[k].end
<1>1. /\ n \in Nat /\ at \in 1..n /\ n # 0 /\ at \in Nat
      /\ Declared(n, at, header, merge, ct) /\ Originates(n, constructs, header, merge, ct)
  BY DEF Labels
<1>2. /\ Len(constructs) \in Nat /\ Len(constructs) >= 1
      /\ constructs[1].begin = 1 /\ constructs[1].end = n + 1
  BY <1>1 DEF Originates
<1>3. /\ q \in 0..2 /\ p \in 1..Len(enclosing)
      /\ Len(constructs') = Len(constructs) + q
      /\ \A k \in Old : constructs'[k] = constructs[k]
  BY DEF Labels, Grows, Old
<1>4. enclosing \in Seq(Old) /\ enclosing[1] = 1
  BY DEF Labels, IsStack, Old
<1>5. Len(enclosing) \in Nat /\ \A i \in 1..Len(enclosing) : enclosing[i] \in Old
  BY <1>4, ElementOfSeq
<1>6. \A k \in Old : /\ constructs[k].begin \in 1..n /\ constructs[k].end \in 1..(n + 1)
                     /\ constructs[k].begin < constructs[k].end
                     /\ k # 1 => constructs[k].end <= n
  BY <1>1, Intervals DEF Old
<1>7. \A k \in New(q) : /\ constructs'[k].begin \in at..n /\ constructs'[k].end \in at..n
                        /\ constructs'[k].begin < constructs'[k].end
  <2> TAKE k \in New(q)
  <2>1. d.merge \in Nat /\ d.ct \in Nat /\ d.merge <= n
    BY <1>1 DEF Labels, Fresh
  <2>2. \/ Is(constructs'[k], d.header, at, d.merge) /\ at < d.merge
        \/ Is(constructs'[k], "continue", d.ct, d.merge) /\ at <= d.ct /\ d.ct < d.merge
        \/ Is(constructs'[k], "loop", at, d.ct) /\ at < d.ct /\ d.ct < d.merge
    BY NewIs DEF Labels, Fresh
  <2> QED BY <1>1, <2>1, <2>2 DEF Is
<1> QED BY <1>1, <1>2, <1>3, <1>4, <1>5, <1>6, <1>7

Interval(r) == r.begin \in Nat /\ r.end \in Nat

\* Being around is transitive.
LEMMA AroundAgain ==
  ASSUME NEW cs, NEW i, NEW j, NEW k,
         Interval(cs[i]), Interval(cs[j]), Interval(cs[k]),
         Around(cs, i, j), Around(cs, j, k)
  PROVE  Around(cs, i, k)
BY DEF Around, Interval

\* What is around a construct holds the blocks of that.
LEMMA InAgain ==
  ASSUME NEW cs, NEW j, NEW k, NEW b \in Nat,
         Interval(cs[j]), Interval(cs[k]), Around(cs, j, k), In(cs, k, b)
  PROVE  In(cs, j, b)
BY DEF Around, Interval, In

\* The old constructs are intervals, too.
LEMMA OldIntervals ==
  ASSUME NEW d, NEW p, NEW q, Labels(d, p, q)
  PROVE  \A k \in Old : Interval(constructs[k])
<1>1. n \in Nat /\ 1..n \subseteq Nat /\ 1..(n + 1) \subseteq Nat
  BY Numbers
<1>2. \A k \in Old : constructs[k].begin \in 1..n /\ constructs[k].end \in 1..(n + 1)
  BY Numbers
<1> QED BY <1>1, <1>2 DEF Interval

\* What is left of the stack ends after the block, the outer no sooner than the
\* inner, and the new constructs no later.
LEMMA StackEnds ==
  ASSUME NEW d, NEW p, NEW q, Labels(d, p, q)
  PROVE  /\ \A i \in 1..p : at < constructs[enclosing[i]].end
         /\ \A i \in 1..p : \A j \in i..p :
              constructs[enclosing[j]].end <= constructs[enclosing[i]].end
         /\ \A i \in 1..p : \A k \in New(q) :
              constructs'[k].end <= constructs[enclosing[i]].end
<1>1. /\ n \in Nat /\ at \in 1..n /\ Len(constructs) \in Nat /\ q \in 0..2
      /\ Len(enclosing) \in Nat /\ p \in 1..Len(enclosing)
      /\ \A i \in 1..Len(enclosing) : enclosing[i] \in Old
      /\ enclosing[1] = 1 /\ constructs[1].end = n + 1
      /\ \A k \in Old : constructs'[k] = constructs[k] /\ constructs[k].end \in 1..(n + 1)
      /\ \A k \in New(q) : constructs'[k].end \in at..n
  BY Numbers
<1>2. /\ Len(enclosing') = p + q
      /\ \A i \in 1..p : enclosing'[i] = enclosing[i]
      /\ \A i \in 1..q : enclosing'[p + i] = Len(constructs) + i
  BY DEF Labels, Grows
<1>3. \A i \in 2..(p + q) :
        /\ ~ (constructs'[enclosing'[i]].end < at + 1)
        /\ \A j \in (i + 1)..(p + q) : ~ (constructs'[enclosing'[j]].end > constructs'[enclosing'[i]].end)
  BY <1>2 DEF Labels, Doomed
<1> DEFINE End(i) == constructs[enclosing[i]].end
<1>4. \A i \in 1..p : /\ enclosing[i] \in Old /\ constructs'[enclosing'[i]].end = End(i)
                      /\ End(i) \in 1..(n + 1)
  <2> TAKE i \in 1..p
  <2>1. i \in 1..Len(enclosing)
    BY <1>1
  <2> QED BY <1>1, <1>2, <2>1
<1>5. End(1) = n + 1
  BY <1>1
<1> HIDE DEF End
<1>6. \A i \in 1..p : at < End(i)
  <2> TAKE i \in 1..p
  <2>1. CASE i = 1
    BY <1>1, <1>5, <2>1
  <2>2. CASE i # 1
    <3>1. i \in 2..(p + q)
      BY <1>1, <2>2
    <3>2. ~ (End(i) < at + 1) /\ End(i) \in 1..(n + 1)
      BY <1>3, <1>4, <3>1
    <3>3. at \in Nat /\ n \in Nat
      BY <1>1
    <3> QED BY <3>2, <3>3
  <2> QED BY <2>1, <2>2
<1>7. \A i \in 1..p : \A j \in i..p : End(j) <= End(i)
  <2> TAKE i \in 1..p
  <2> TAKE j \in i..p
  <2>1. j \in 1..p /\ End(i) \in 1..(n + 1) /\ End(j) \in 1..(n + 1)
    BY <1>1, <1>4
  <2>2. CASE i = 1
    BY <1>1, <1>5, <2>1, <2>2
  <2>3. CASE i # 1 /\ j # i
    <3>1. i \in 2..(p + q) /\ j \in (i + 1)..(p + q)
      BY <1>1, <2>3
    <3>2. ~ (End(j) > End(i))
      BY <1>3, <1>4, <2>1, <3>1
    <3>3. n \in Nat
      BY <1>1
    <3> QED BY <2>1, <3>2, <3>3
  <2> QED BY <1>1, <2>1, <2>2, <2>3
<1>8. \A i \in 1..p : \A k \in New(q) : constructs'[k].end <= End(i)
  <2> TAKE i \in 1..p
  <2> TAKE k \in New(q)
  <2>1. constructs'[k].end \in at..n /\ End(i) \in 1..(n + 1)
    BY <1>1, <1>4
  <2>2. CASE i = 1
    BY <1>1, <1>5, <2>1, <2>2
  <2>3. CASE i # 1
    <3> DEFINE m == k - Len(constructs)
    <3>1. m \in 1..q /\ Len(constructs) + m = k
      BY <1>1 DEF New
    <3> HIDE DEF m
    <3>2. i \in 2..(p + q) /\ p + m \in (i + 1)..(p + q) /\ enclosing'[p + m] = k
      BY <1>1, <1>2, <2>3, <3>1
    <3>3. ~ (constructs'[k].end > End(i))
      BY <1>3, <1>4, <3>2
    <3>4. n \in Nat /\ at \in Nat
      BY <1>1
    <3> QED BY <2>1, <3>3, <3>4
  <2> QED BY <2>2, <2>3
<1> QED BY <1>6, <1>7, <1>8 DEF End

\* The old constructs that do not end before the block are on the stack.
LEMMA OldOnes ==
  ASSUME NEW d, NEW p, NEW q, Labels(d, p, q), NEW j \in Old
  PROVE  (\E i \in 1..p : enclosing[i] = j) \/ constructs[j].end <= at
<1>1. /\ at \in Nat /\ Len(enclosing) \in Nat /\ p \in 1..Len(enclosing) /\ n \in Nat
      /\ constructs[j].end \in 1..(n + 1)
  BY Numbers
<1>2. (\E i \in 1..Len(enclosing) : enclosing[i] = j) \/ constructs[j].end < at
  BY DEF Labels, Stacked, Old
<1>3. \A i \in (p + 1)..Len(enclosing) : constructs[enclosing[i]].end = at
  BY DEF Labels, Grows
<1>4. ASSUME NEW i \in 1..Len(enclosing), enclosing[i] = j
      PROVE  (\E h \in 1..p : enclosing[h] = j) \/ constructs[j].end <= at
  <2>1. CASE i \in 1..p
    BY <1>4, <2>1
  <2>2. CASE i \notin 1..p
    <3>1. i \in (p + 1)..Len(enclosing)
      BY <1>1, <2>2
    <3> QED BY <1>1, <1>3, <1>4, <3>1
  <2> QED BY <2>1, <2>2
<1> QED BY <1>1, <1>2, <1>4

\* The top of what is left holds the block.
LEMMA TopHolds ==
  ASSUME NEW d, NEW p, NEW q, Labels(d, p, q)
  PROVE  constructs[enclosing[p]].begin <= at /\ at < constructs[enclosing[p]].end
<1>1. /\ n \in Nat /\ at \in 1..n /\ Len(enclosing) \in Nat /\ p \in 1..Len(enclosing)
      /\ enclosing[p] \in Old /\ enclosing[1] = 1 /\ constructs[1].begin = 1
      /\ constructs[enclosing[p]].begin \in 1..n
  BY Numbers
<1>2. at < constructs[enclosing[p]].end
  BY <1>1, StackEnds
<1>3. CASE p = 1
  BY <1>1, <1>2, <1>3
<1>4. CASE p # 1
  <2>1. SUFFICES ASSUME ~ (constructs[enclosing[p]].begin <= at) PROVE FALSE
    BY <1>2
  <2>2. p \in 2..Len(enclosing) /\ constructs[enclosing[p]].begin >= at
    BY <1>1, <1>4, <2>1
  <2>3. p < Len(enclosing) /\ constructs[enclosing[p + 1]].end = constructs[enclosing[p]].begin
    BY <2>2 DEF Labels, Stacked
  <2>4. p + 1 \in (p + 1)..Len(enclosing)
    BY <1>1, <2>3
  <2>5. constructs[enclosing[p + 1]].end = at
    BY <2>4 DEF Labels, Grows
  <2> QED BY <1>1, <2>1, <2>3, <2>5
<1> QED BY <1>3, <1>4

\* What is on the stack begins no later than the block, or after the new constructs.
LEMMA BeforeNew ==
  ASSUME NEW d, NEW p, NEW q, Labels(d, p, q), NEW i \in 1..p
  PROVE  \/ constructs[enclosing[i]].begin <= at
         \/ \A k \in New(q) : constructs'[k].end <= constructs[enclosing[i]].begin
<1>1. /\ n \in Nat /\ at \in 1..n /\ Len(enclosing) \in Nat /\ p \in 1..Len(enclosing)
      /\ enclosing[1] = 1 /\ constructs[1].begin = 1
      /\ i \in 1..Len(enclosing)
  BY Numbers
<1>2. constructs[enclosing[i]].begin \in 1..n
  BY <1>1, Numbers
<1>3. CASE i = 1
  BY <1>1, <1>3
<1>4. CASE i = p
  BY <1>4, TopHolds
<1>5. CASE i # 1 /\ i # p /\ ~ (constructs[enclosing[i]].begin <= at)
  <2>1. i \in 2..Len(enclosing) /\ constructs[enclosing[i]].begin >= at /\ i + 1 \in 1..p
    BY <1>1, <1>2, <1>5
  <2>2. constructs[enclosing[i + 1]].end = constructs[enclosing[i]].begin
    BY <2>1 DEF Labels, Stacked
  <2>3. \A k \in New(q) : constructs'[k].end <= constructs[enclosing[i + 1]].end
    BY <2>1, StackEnds
  <2> QED BY <2>2, <2>3
<1> QED BY <1>3, <1>4, <1>5

\* An old construct on the stack begins no later than the top, or where it ended.
LEMMA UnderTop ==
  ASSUME NEW d, NEW p, NEW q, Labels(d, p, q), NEW i \in 1..p
  PROVE  \/ constructs[enclosing[i]].begin <= constructs[enclosing[p]].begin
         \/ constructs[enclosing[p]].end <= constructs[enclosing[i]].begin
<1>1. /\ Len(enclosing) \in Nat /\ p \in 1..Len(enclosing) /\ n \in Nat
      /\ i \in 1..Len(enclosing)
  BY Numbers
<1>2. constructs[enclosing[i]].begin \in 1..n
  BY <1>1, Numbers
<1>3. CASE i = p
  BY <1>2, <1>3
<1>4. CASE i # p
  <2>1. p \in (i + 1)..Len(enclosing)
    BY <1>1, <1>4
  <2> QED BY <1>1, <2>1 DEF Labels, Stacked
<1> QED BY <1>3, <1>4

\* What holds the block is around the top.
LEMMA HoldsTop ==
  ASSUME NEW d, NEW p, NEW q, Labels(d, p, q), NEW j \in Old, In(constructs, j, at)
  PROVE  Around(constructs, j, enclosing[p])
<1>1. /\ n \in Nat /\ at \in 1..n /\ Len(enclosing) \in Nat /\ p \in 1..Len(enclosing)
      /\ constructs[j].begin \in 1..n /\ constructs[j].end \in 1..(n + 1)
      /\ enclosing[p] \in Old
      /\ constructs[enclosing[p]].begin \in 1..n /\ constructs[enclosing[p]].end \in 1..(n + 1)
  BY Numbers
<1>2. constructs[j].begin <= at /\ at < constructs[j].end
  BY DEF In
<1>3. PICK i \in 1..p : enclosing[i] = j
  BY <1>1, <1>2, OldOnes
<1>4. constructs[enclosing[p]].end <= constructs[j].end
  <2>1. p \in i..p
    BY <1>1
  <2> QED BY <1>3, <2>1, StackEnds
<1>5. at < constructs[enclosing[p]].end
  BY TopHolds
<1>6. \/ constructs[j].begin <= constructs[enclosing[p]].begin
      \/ constructs[enclosing[p]].end <= constructs[j].begin
  BY <1>3, UnderTop
<1> QED BY <1>1, <1>2, <1>4, <1>5, <1>6 DEF Around

\* (a) What is around a new construct is around the top.
LEMMA AroundNew ==
  ASSUME NEW d, NEW p, NEW q, Labels(d, p, q), NEW j \in Old, NEW k \in New(q),
         Around(constructs', j, k)
  PROVE  Around(constructs, j, enclosing[p])
<1>1. /\ n \in Nat /\ at \in 1..n /\ Len(enclosing) \in Nat /\ p \in 1..Len(enclosing)
      /\ constructs[j].begin \in 1..n /\ constructs[j].end \in 1..(n + 1)
      /\ enclosing[p] \in Old
      /\ constructs[enclosing[p]].begin \in 1..n /\ constructs[enclosing[p]].end \in 1..(n + 1)
      /\ constructs'[k].begin \in at..n /\ constructs'[k].end \in at..n
      /\ constructs'[k].begin < constructs'[k].end
      /\ constructs'[j] = constructs[j]
  BY Numbers
<1>2. constructs[j].begin <= constructs'[k].begin /\ constructs'[k].end <= constructs[j].end
  BY <1>1 DEF Around
<1>3. ~ (constructs[j].end <= at)
  BY <1>1, <1>2
<1>4. PICK i \in 1..p : enclosing[i] = j
  BY <1>3, OldOnes
<1>5. constructs[enclosing[p]].end <= constructs[j].end
  <2>1. p \in i..p
    BY <1>1
  <2> QED BY <1>4, <2>1, StackEnds
<1>6. constructs'[k].end <= constructs[enclosing[p]].end
  <2>1. p \in 1..p
    BY <1>1
  <2> QED BY <2>1, StackEnds
<1>7. \/ constructs[j].begin <= constructs[enclosing[p]].begin
      \/ constructs[enclosing[p]].end <= constructs[j].begin
  BY <1>4, UnderTop
<1>8. constructs[j].begin <= constructs[enclosing[p]].begin
  <2> DEFINE u == constructs[enclosing[p]].end
             v == constructs[enclosing[p]].begin
             w == constructs[j].begin
             x == constructs'[k].begin
             y == constructs'[k].end
  <2>1. /\ u \in 1..(n + 1) /\ v \in 1..n /\ w \in 1..n /\ x \in at..n /\ y \in at..n
        /\ n \in Nat /\ at \in Nat
    BY <1>1
  <2>2. w <= x /\ x < y /\ y <= u /\ (w <= v \/ u <= w)
    BY <1>1, <1>2, <1>6, <1>7
  <2> HIDE DEF u, v, w, x, y
  <2>3. w <= v
    BY <2>1, <2>2
  <2> QED BY <2>3 DEF v, w
<1> QED BY <1>5, <1>8 DEF Around

\* (b) The top is around the new constructs.
LEMMA TopAround ==
  ASSUME NEW d, NEW p, NEW q, Labels(d, p, q), NEW k \in New(q)
  PROVE  Around(constructs', enclosing[p], k)
<1>1. /\ n \in Nat /\ at \in 1..n /\ Len(enclosing) \in Nat /\ p \in 1..Len(enclosing)
      /\ enclosing[p] \in Old
      /\ constructs[enclosing[p]].begin \in 1..n
      /\ constructs'[k].begin \in at..n
      /\ constructs'[enclosing[p]] = constructs[enclosing[p]]
  BY Numbers
<1>2. constructs'[k].end <= constructs[enclosing[p]].end
  <2>1. p \in 1..p
    BY <1>1
  <2> QED BY <2>1, StackEnds
<1>3. constructs[enclosing[p]].begin <= at
  BY TopHolds
<1> QED BY <1>1, <1>2, <1>3 DEF Around

\* (c) A new construct is not around another new one.
LEMMA NewApart ==
  ASSUME NEW d, NEW p, NEW q, Labels(d, p, q), NEW j \in New(q), NEW k \in New(q),
         Around(constructs', j, k)
  PROVE  j = k
<1>1. /\ Len(constructs) \in Nat /\ at \in Nat /\ d.ct \in Nat /\ d.merge \in Nat
  BY Numbers DEF Labels
<1>2. \/ j = Len(constructs) + 1 /\ k = Len(constructs) + 1
      \/ j = Len(constructs) + 2 /\ k = Len(constructs) + 2
      \/ j # k /\ q = 2
    BY <1>1, NewIs
<1>3. SUFFICES ASSUME j # k, q = 2 PROVE FALSE
  BY <1>2
<1>4. \A m \in New(q) :
        \/ m = Len(constructs) + 1 /\ constructs'[m].begin = d.ct /\ constructs'[m].end = d.merge
           /\ at < d.ct /\ d.ct < d.merge
        \/ m = Len(constructs) + 2 /\ constructs'[m].begin = at /\ constructs'[m].end = d.ct
           /\ at < d.ct
  <2> TAKE m \in New(q)
  <2> QED BY <1>1, <1>3, NewIs DEF Is
<1> QED BY <1>1, <1>3, <1>4 DEF Around

\* (d) A new construct is not around an old one.
LEMMA NewNotAround ==
  ASSUME NEW d, NEW p, NEW q, Labels(d, p, q), NEW j \in Old, NEW k \in New(q),
         Around(constructs', k, j)
  PROVE  FALSE
<1>1. /\ n \in Nat /\ at \in 1..n /\ Len(constructs) \in Nat
      /\ constructs[j].begin \in 1..n /\ constructs[j].end \in 1..(n + 1)
      /\ constructs[j].begin < constructs[j].end
      /\ constructs'[k].begin \in at..n /\ constructs'[k].end \in at..n
      /\ constructs'[j] = constructs[j]
      /\ constructs[1].end = n + 1
  BY Numbers
<1>2. constructs'[k].begin <= constructs[j].begin /\ constructs[j].end <= constructs'[k].end
  BY <1>1 DEF Around
<1>3. ~ (constructs[j].end <= at)
  BY <1>1, <1>2
<1>4. PICK i \in 1..p : enclosing[i] = j
  BY <1>3, OldOnes
<1>5. \A m \in New(q) : constructs'[m].end <= constructs[j].end
  BY <1>4, StackEnds
<1>6. constructs[j].begin <= at \/ constructs'[k].end <= constructs[j].begin
  BY <1>4, BeforeNew
<1>7. constructs'[k].end = constructs[j].end /\ constructs[j].begin = at
  <2> DEFINE u == constructs[j].begin
             v == constructs[j].end
             x == constructs'[k].begin
             y == constructs'[k].end
  <2>1. u \in 1..n /\ v \in 1..(n + 1) /\ x \in at..n /\ y \in at..n /\ n \in Nat /\ at \in Nat
    BY <1>1
  <2>2. u < v /\ x <= u /\ v <= y /\ y <= v /\ (u <= at \/ y <= u)
    BY <1>1, <1>2, <1>5, <1>6
  <2> HIDE DEF u, v, x, y
  <2>3. y = v /\ u = at
    BY <2>1, <2>2
  <2> QED BY <2>3 DEF u, v, y
<1>8. j \in 2..Len(constructs)
  BY <1>1, <1>7 DEF Old
<1>9. PICK a \in 1..n : Heads(constructs[j], a, header, merge, ct)
  BY <1>8 DEF Labels, Originates
<1>10. constructs[j].end = merge[a] /\ merge[a] \in Nat
  <2>1. header[a] # "none" => a < at
    BY <1>1 DEF Labels, Declared
  <2>2. ~ (a < at) \/ a # at
    BY <1>1
  <2>3. merge[a] \in 0..n
    BY DEF Labels, Declared
  <2> QED BY <1>1, <1>7, <1>9, <2>1, <2>2, <2>3 DEF Heads
<1>11. d.header # "none" => merge[a] # d.merge
  BY <1>9 DEF Labels, Fresh
<1>12. CASE constructs'[k].end = d.merge
  <2>1. d.header # "none"
    BY NewIs
  <2> QED BY <1>7, <1>10, <1>11, <1>12, <2>1
<1>13. CASE constructs'[k].end = d.ct /\ q = 2 /\ d.header = "loop" /\ k = Len(constructs) + 2
  <2>1. Len(constructs) + 1 \in New(q) /\ d.ct < d.merge /\ d.ct \in Nat /\ d.merge \in Nat
    BY <1>1, <1>13 DEF New, Labels, Fresh
  <2>2. constructs'[Len(constructs) + 1].end = d.merge
    BY <1>13 DEF Labels, Adds, Is
  <2> QED BY <1>5, <1>7, <1>13, <2>1, <2>2
<1> QED BY <1>12, <1>13, NewIs DEF Is

-----------------------------------------------------------------------------
(* The nesting is kept *)

\* A construct is an old or a new one.
LEMMA OldOrNew ==
  ASSUME NEW d, NEW p, NEW q, Labels(d, p, q)
  PROVE  /\ Len(constructs') = Len(constructs) + q
         /\ Old \subseteq 1..Len(constructs') /\ New(q) \subseteq 1..Len(constructs')
         /\ \A k \in 1..Len(constructs') : k \in Old \/ k \in New(q)
         /\ enclosing[p] \in Old
         /\ \A j, k \in Old : Around(constructs', j, k) <=> Around(constructs, j, k)
         /\ \A j \in Old : \A b : In(constructs', j, b) <=> In(constructs, j, b)
         /\ \A j \in Old : constructs'[j] = constructs[j]
<1>1. /\ Len(constructs) \in Nat /\ q \in 0..2 /\ Len(constructs') = Len(constructs) + q
      /\ \A k \in Old : constructs'[k] = constructs[k]
      /\ enclosing[p] \in Old
  BY Numbers
<1>2. /\ Old \subseteq 1..Len(constructs') /\ New(q) \subseteq 1..Len(constructs')
      /\ \A k \in 1..Len(constructs') : k \in Old \/ k \in New(q)
  BY <1>1 DEF Old, New
<1>3. /\ \A j, k \in Old : Around(constructs', j, k) <=> Around(constructs, j, k)
      /\ \A j \in Old : \A b : In(constructs', j, b) <=> In(constructs, j, b)
  BY <1>1 DEF Around, In
<1> QED BY <1>1, <1>2, <1>3

\* The nearest constructs around an old construct stay the same ones.
LEMMA NearestOld ==
  ASSUME NEW d, NEW p, NEW q, Labels(d, p, q), NEW k \in Old, NEW f, NEW sorts,
         Nearest(constructs, f, k, sorts)
  PROVE  Nearest(constructs', f, k, sorts)
<1>1. \A j \in 1..Len(constructs') : Around(constructs', j, k) =>
        j \in Old /\ Around(constructs, j, k) /\ constructs'[j] = constructs[j]
  BY OldOrNew, NewNotAround
<1>2. CASE f = 0
  BY <1>1, <1>2 DEF Nearest, Old
<1>3. CASE f # 0
  <2>1. f \in Old /\ constructs[f].kind \in sorts /\ Around(constructs, f, k)
    BY <1>3 DEF Nearest, Old
  <2>2. f \in 1..Len(constructs') /\ constructs'[f].kind \in sorts /\ Around(constructs', f, k)
    BY <2>1, OldOrNew
  <2>3. \A j \in Old : constructs[j].kind \in sorts /\ Around(constructs, j, k) => Around(constructs, j, f)
    BY <1>3 DEF Nearest, Old
  <2>4. \A j \in Old : Around(constructs, j, f) => Around(constructs', j, f)
    BY <2>1, OldOrNew
  <2>5. \A j \in 1..Len(constructs') :
          constructs'[j].kind \in sorts /\ Around(constructs', j, k) => Around(constructs', j, f)
    BY <1>1, <2>3, <2>4
  <2> QED BY <1>3, <2>2, <2>5 DEF Nearest
<1> QED BY <1>2, <1>3

\* Those around a new construct are those around the top,
LEMMA NearestNew ==
  ASSUME NEW d, NEW p, NEW q, Labels(d, p, q), NEW k \in New(q), NEW f, NEW sorts,
         Nearest(constructs, f, enclosing[p], sorts), constructs'[k].kind \notin sorts
  PROVE  Nearest(constructs', f, k, sorts)
<1> DEFINE up == enclosing[p]
<1>1. \A j \in 1..Len(constructs') : constructs'[j].kind \in sorts /\ Around(constructs', j, k) =>
        j \in Old /\ constructs[j].kind \in sorts /\ Around(constructs, j, up)
  <2> TAKE j \in 1..Len(constructs')
  <2>1. SUFFICES ASSUME constructs'[j].kind \in sorts, Around(constructs', j, k)
                 PROVE  j \in Old /\ constructs[j].kind \in sorts /\ Around(constructs, j, up)
    OBVIOUS
  <2>2. j \notin New(q)
    BY <2>1, NewApart
  <2>3. j \in Old /\ constructs'[j] = constructs[j]
    BY <2>2, OldOrNew
  <2> QED BY <2>1, <2>3, AroundNew
<1>2. CASE f = 0
  <2>1. \A j \in Old : constructs[j].kind \in sorts => ~ Around(constructs, j, up)
    BY <1>2 DEF Nearest, Old
  <2> QED BY <1>1, <1>2, <2>1 DEF Nearest
<1>3. CASE f # 0
  <2>1. f \in Old /\ constructs[f].kind \in sorts /\ Around(constructs, f, up)
    BY <1>3 DEF Nearest, Old
  <2>2. f \in 1..Len(constructs') /\ constructs'[f] = constructs[f] /\ up \in Old
    BY <2>1, OldOrNew
  <2>3. \A j \in Old : constructs[j].kind \in sorts /\ Around(constructs, j, up) => Around(constructs', j, f)
    <3>1. \A j \in Old : constructs[j].kind \in sorts /\ Around(constructs, j, up) => Around(constructs, j, f)
      BY <1>3 DEF Nearest, Old
    <3> QED BY <2>1, <3>1, OldOrNew
  <2>4. Around(constructs', f, k)
    <3>1. Around(constructs', f, up) /\ Around(constructs', up, k)
      BY <2>1, <2>2, OldOrNew, TopAround
    <3>2. /\ n \in Nat /\ at \in 1..n
          /\ constructs'[up].begin \in 1..n /\ constructs'[f].begin \in 1..n
          /\ constructs'[up].end \in 1..(n + 1) /\ constructs'[f].end \in 1..(n + 1)
          /\ constructs'[k].begin \in at..n /\ constructs'[k].end \in at..n
      <4>1. constructs'[up] = constructs[up] /\ constructs'[f] = constructs[f]
        BY <2>2, OldOrNew
      <4> QED BY <2>1, <2>2, <4>1, Numbers
    <3> HIDE DEF up
    <3> QED BY <3>1, <3>2 DEF Around
  <2>5. \A j \in 1..Len(constructs') :
          constructs'[j].kind \in sorts /\ Around(constructs', j, k) => Around(constructs', j, f)
    BY <1>1, <2>3
  <2> QED BY <1>3, <2>1, <2>2, <2>4, <2>5 DEF Nearest
<1> QED BY <1>2, <1>3

\* but for the new construct itself.
LEMMA NearestSelf ==
  ASSUME NEW d, NEW p, NEW q, Labels(d, p, q), NEW k \in New(q), NEW sorts,
         constructs'[k].kind \in sorts
  PROVE  Nearest(constructs', k, k, sorts)
<1>1. k \in 1..Len(constructs') /\ k # 0 /\ Len(constructs) \in Nat
  BY OldOrNew, Numbers DEF New
<1>2. Around(constructs', k, k)
  <2>1. /\ n \in Nat /\ at \in 1..n
        /\ constructs'[k].begin \in at..n /\ constructs'[k].end \in at..n
    BY Numbers
  <2> QED BY <2>1 DEF Around
<1> QED BY <1>1, <1>2 DEF Nearest

\* So the fields of the constructs stay right.
LEMMA FieldsKept ==
  ASSUME NEW d, NEW p, NEW q, Labels(d, p, q)
  PROVE  Fields(constructs')
<1> DEFINE up == enclosing[p]
<1>1. /\ Len(constructs) \in Nat /\ q \in 0..2 /\ Len(constructs') = Len(constructs) + q
      /\ up \in Old
  BY Numbers
<1>2. \A k \in Old : /\ constructs[k].parent \in 0..Len(constructs)
                     /\ Nearest(constructs, constructs[k].loop, k, {"loop"})
                     /\ Nearest(constructs, constructs[k].cont, k, {"continue"})
                     /\ Nearest(constructs, constructs[k].breakable, k, Breakable)
                     /\ constructs[k].kind \in Breakable => constructs[k].breakable = k
  BY DEF Labels, Nested, Fields, Old
<1>3. ASSUME NEW k \in Old
      PROVE  /\ constructs'[k].parent \in 0..Len(constructs')
             /\ Nearest(constructs', constructs'[k].loop, k, {"loop"})
             /\ Nearest(constructs', constructs'[k].cont, k, {"continue"})
             /\ Nearest(constructs', constructs'[k].breakable, k, Breakable)
             /\ constructs'[k].kind \in Breakable => constructs'[k].breakable = k
  <2>1. constructs'[k] = constructs[k]
    BY OldOrNew
  <2>2. constructs[k].parent \in 0..Len(constructs')
    BY <1>1, <1>2
  <2>3. /\ Nearest(constructs', constructs[k].loop, k, {"loop"})
        /\ Nearest(constructs', constructs[k].cont, k, {"continue"})
        /\ Nearest(constructs', constructs[k].breakable, k, Breakable)
    BY <1>2, NearestOld
  <2> QED BY <1>2, <2>1, <2>2, <2>3
<1>4. ASSUME NEW k \in New(q)
      PROVE  /\ constructs'[k].parent \in 0..Len(constructs')
             /\ Nearest(constructs', constructs'[k].loop, k, {"loop"})
             /\ Nearest(constructs', constructs'[k].cont, k, {"continue"})
             /\ Nearest(constructs', constructs'[k].breakable, k, Breakable)
             /\ constructs'[k].kind \in Breakable => constructs'[k].breakable = k
  <2>1. Inherits(constructs', k, up)
    <3> DEFINE i == k - Len(constructs)
    <3>1. i \in 1..q /\ Len(constructs) + i = k
      BY <1>1 DEF New
    <3> HIDE DEF i
    <3>2. \A h \in 1..q : Inherits(constructs', Len(constructs) + h, up)
      BY DEF Labels, Adds
    <3> QED BY <3>1, <3>2
  <2>2. constructs'[up] = constructs[up]
    BY <1>1, OldOrNew
  <2>3. constructs'[k].parent \in 0..Len(constructs')
    BY <1>1, <2>1 DEF Inherits, Old
  <2>4. Nearest(constructs', constructs'[k].loop, k, {"loop"})
    <3>1. CASE constructs'[k].kind = "loop"
      BY <2>1, <3>1, NearestSelf DEF Inherits
    <3>2. CASE constructs'[k].kind # "loop"
      BY <1>1, <1>2, <2>1, <2>2, <3>2, NearestNew DEF Inherits
    <3> QED BY <3>1, <3>2
  <2>5. Nearest(constructs', constructs'[k].cont, k, {"continue"})
    <3>1. CASE constructs'[k].kind = "continue"
      BY <2>1, <3>1, NearestSelf DEF Inherits
    <3>2. CASE constructs'[k].kind # "continue"
      BY <1>1, <1>2, <2>1, <2>2, <3>2, NearestNew DEF Inherits
    <3> QED BY <3>1, <3>2
  <2>6. Nearest(constructs', constructs'[k].breakable, k, Breakable)
    <3>1. CASE constructs'[k].kind \in Breakable
      BY <2>1, <3>1, NearestSelf DEF Inherits
    <3>2. CASE constructs'[k].kind \notin Breakable
      BY <1>1, <1>2, <2>1, <2>2, <3>2, NearestNew DEF Inherits
    <3> QED BY <3>1, <3>2
  <2> QED BY <2>1, <2>3, <2>4, <2>5, <2>6 DEF Inherits
<1>5. \A k \in 1..Len(constructs') : k \in Old \/ k \in New(q)
  BY OldOrNew
<1> QED BY <1>3, <1>4, <1>5 DEF Fields

\* The new constructs are other intervals than the old ones.
LEMMA DistinctKept ==
  ASSUME NEW d, NEW p, NEW q, Labels(d, p, q)
  PROVE  Distinct(constructs')
<1>1. \A j, k \in Old : Around(constructs, j, k) /\ Around(constructs, k, j) => j = k
  BY DEF Labels, Nested, Distinct, Old
<1>2. SUFFICES ASSUME NEW j \in 1..Len(constructs'), NEW k \in 1..Len(constructs'),
                      Around(constructs', j, k), Around(constructs', k, j)
               PROVE  j = k
  BY DEF Distinct
<1>3. (j \in Old \/ j \in New(q)) /\ (k \in Old \/ k \in New(q))
  BY OldOrNew
<1>4. CASE j \in Old /\ k \in Old
  BY <1>1, <1>2, <1>4, OldOrNew
<1>5. CASE j \in New(q) /\ k \in New(q)
  BY <1>2, <1>5, NewApart
<1> QED BY <1>2, <1>3, <1>4, <1>5, NewNotAround

\* The construct of the block is the top, or the last of the new ones.
LEMMA LocatedKept ==
  ASSUME NEW d, NEW p, NEW q, Labels(d, p, q)
  PROVE  /\ Located(n, constructs', construct')
         /\ construct' \in [1..n -> 0..Len(constructs')]
         /\ \A b \in 1..n : construct'[b] = 0 <=> b >= at + 1
<1> DEFINE up == enclosing[p]
           top == IF q = 0 THEN up ELSE Len(constructs) + q
<1>1. /\ n \in Nat /\ at \in 1..n /\ Len(constructs) \in Nat /\ q \in 0..2
      /\ Len(constructs') = Len(constructs) + q /\ up \in Old
      /\ \A k \in Old : constructs[k].begin \in 1..n /\ constructs[k].end \in 1..(n + 1)
      /\ \A k \in New(q) : constructs'[k].begin \in at..n /\ constructs'[k].end \in at..n
  BY Numbers
<1>2. /\ construct' = [construct EXCEPT ![at] = top]
      /\ construct \in [1..n -> 0..Len(constructs)]
      /\ \A b \in 1..n : construct[b] = 0 <=> b >= at
  BY DEF Labels, Grows
<1>3. top \in 1..Len(constructs') /\ (q = 0 => top = up) /\ (q # 0 => top \in New(q))
  BY <1>1 DEF Old, New
<1> HIDE DEF top
<1>4. /\ construct' \in [1..n -> 0..Len(constructs')]
      /\ construct'[at] = top /\ \A b \in 1..n : b # at => construct'[b] = construct[b]
  BY <1>1, <1>2, <1>3
<1>5. \A b \in 1..n : construct'[b] = 0 <=> b >= at + 1
  BY <1>1, <1>2, <1>3, <1>4
<1>6. \A k \in New(q) : In(constructs', k, at) => k = Len(constructs) + q
  <2> TAKE k \in New(q)
  <2>1. d.ct \in Nat /\ d.merge \in Nat
    BY DEF Labels
  <2> QED BY <1>1, <2>1, NewIs DEF Is, In
<1>7. q # 0 => In(constructs', top, at)
  <2>1. SUFFICES ASSUME q # 0 PROVE In(constructs', top, at)
    OBVIOUS
  <2>2. d.ct \in Nat /\ d.merge \in Nat /\ top \in New(q) /\ top = Len(constructs) + q
    BY <1>3, <2>1 DEF Labels, top
  <2> QED BY <1>1, <2>2, NewIs DEF Is, In
<1>8. In(constructs', top, at)
  <2>1. In(constructs', up, at)
    BY <1>1, TopHolds, OldOrNew DEF In
  <2> QED BY <1>3, <1>7, <2>1
<1>9. ASSUME NEW k \in 1..Len(constructs'), In(constructs', k, at)
      PROVE  Around(constructs', k, top)
  <2>1. CASE k \in New(q)
    <3>1. k = top /\ k \in New(q)
      BY <1>1, <1>6, <1>9, <2>1 DEF New, top
    <3> QED BY <1>1, <3>1 DEF Around
  <2>2. CASE k \in Old
    <3>1. In(constructs, k, at)
      BY <1>9, <2>2, OldOrNew
    <3>2. Around(constructs, k, up)
      BY <2>2, <3>1, HoldsTop
    <3>3. Around(constructs', k, up)
      BY <1>1, <2>2, <3>2, OldOrNew
    <3>4. CASE q = 0
      BY <1>3, <3>3, <3>4
    <3>5. CASE q # 0
      <4>1. top \in New(q) /\ Around(constructs', up, top)
        BY <1>3, <3>5, TopAround
      <4>2. constructs'[k] = constructs[k] /\ constructs'[up] = constructs[up]
        BY <1>1, <2>2, OldOrNew
      <4>3. Interval(constructs[k]) /\ Interval(constructs[up])
        <5>1. 1..n \subseteq Nat /\ 1..(n + 1) \subseteq Nat
          BY <1>1
        <5>2. \A i \in Old : constructs[i].begin \in Nat /\ constructs[i].end \in Nat
          BY <1>1, <5>1
        <5> QED BY <1>1, <2>2, <5>2 DEF Interval
      <4>4. Interval(constructs'[top])
        <5>1. at..n \subseteq Nat
          BY <1>1
        <5> QED BY <1>1, <4>1, <5>1 DEF Interval
      <4> QED BY <3>3, <4>1, <4>2, <4>3, <4>4, AroundAgain
    <3> QED BY <3>4, <3>5
  <2> QED BY <2>1, <2>2, OldOrNew
<1>10. ASSUME NEW b \in 1..n, b < at
       PROVE  /\ In(constructs', construct[b], b)
              /\ \A k \in 1..Len(constructs') : In(constructs', k, b) => Around(constructs', k, construct[b])
  <2>1. construct[b] \in Old
    BY <1>1, <1>2, <1>10 DEF Old
  <2>2. In(constructs, construct[b], b) /\ \A k \in Old : In(constructs, k, b) => Around(constructs, k, construct[b])
    BY <1>1, <2>1 DEF Labels, Nested, Located, Old
  <2>3. \A k \in New(q) : ~ In(constructs', k, b)
    BY <1>1, <1>10 DEF In
  <2> QED BY <2>1, <2>2, <2>3, OldOrNew
<1>11. Located(n, constructs', construct')
  <2>1. SUFFICES ASSUME NEW b \in 1..n, construct'[b] # 0
                 PROVE  /\ In(constructs', construct'[b], b)
                        /\ \A k \in 1..Len(constructs') :
                             In(constructs', k, b) => Around(constructs', k, construct'[b])
    BY DEF Located
  <2>2. b = at \/ b < at
    BY <1>1, <1>5, <2>1
  <2>3. CASE b = at
    BY <1>4, <1>8, <1>9, <2>3
  <2>4. CASE b # at
    BY <1>4, <1>10, <2>2, <2>4
  <2> QED BY <2>3, <2>4
<1> QED BY <1>4, <1>5, <1>11

\* The declarations of the old blocks are kept, and one is added.
LEMMA Declares ==
  ASSUME NEW d, NEW p, NEW q, Labels(d, p, q)
  PROVE  /\ merge'[at] = d.merge /\ ct'[at] = d.ct
         /\ \A a \in 1..n : a # at => merge'[a] = merge[a] /\ ct'[a] = ct[a]
         /\ \A a \in 1..n : merge[a] # 0 => a < at /\ merge[a] # d.merge
         /\ \A a \in 1..n : ct[a] # 0 => ct[a] # d.ct
         /\ \A k \in Old : constructs[k].kind = "continue" =>
              \E a \in 1..n : ct[a] = constructs[k].begin /\ ct[a] # 0
<1>1. /\ n \in Nat /\ at \in 1..n /\ Fresh(d)
      /\ Declared(n, at, header, merge, ct) /\ Originates(n, constructs, header, merge, ct)
      /\ merge' = [merge EXCEPT ![at] = d.merge] /\ ct' = [ct EXCEPT ![at] = d.ct]
  BY DEF Labels
<1>2. merge \in [1..n -> 0..n] /\ ct \in [1..n -> 0..n]
  BY <1>1 DEF Declared
<1>3. /\ merge'[at] = d.merge /\ ct'[at] = d.ct
      /\ \A a \in 1..n : a # at => merge'[a] = merge[a] /\ ct'[a] = ct[a]
  BY <1>1, <1>2
<1>4. \A a \in 1..n : merge[a] # 0 => a < at /\ merge[a] # d.merge
  BY <1>1 DEF Declared, Fresh
<1>5. \A a \in 1..n : ct[a] # 0 => ct[a] # d.ct
  BY <1>1 DEF Fresh
<1>6. ASSUME NEW k \in Old, constructs[k].kind = "continue"
      PROVE  \E a \in 1..n : ct[a] = constructs[k].begin /\ ct[a] # 0
  <2>1. k \in 2..Len(constructs)
    BY <1>1, <1>6 DEF Old, Originates
  <2>2. PICK a \in 1..n : Heads(constructs[k], a, header, merge, ct)
    BY <1>1, <2>1 DEF Originates
  <2>3. header[a] = "loop" /\ constructs[k].begin = ct[a]
    BY <1>6, <2>2 DEF Heads
  <2>4. ct[a] # 0
    <3>1. a <= ct[a]
      BY <1>1, <2>3 DEF Declared
    <3> QED BY <1>1, <3>1
  <2> QED BY <2>3, <2>4
<1> QED BY <1>3, <1>4, <1>5, <1>6

\* What is around the new continue construct holds the new header.
LEMMA LoopsInsideKept ==
  ASSUME NEW d, NEW p, NEW q, Labels(d, p, q)
  PROVE  LoopsInside(n, constructs', ct')
<1>1. /\ n \in Nat /\ at \in 1..n /\ enclosing[p] \in Old
  BY Numbers
<1>2. SUFFICES ASSUME NEW a \in 1..n, NEW k \in 1..Len(constructs'),
                      ct'[a] # 0, constructs'[k].kind = "continue",
                      constructs'[k].begin = ct'[a],
                      NEW j \in 1..Len(constructs'), j # k, Around(constructs', j, k)
               PROVE  In(constructs', j, a)
  BY DEF LoopsInside
<1>3. CASE k \in Old
  <2>1. j \in Old /\ constructs'[k] = constructs[k] /\ Around(constructs, j, k)
    BY <1>2, <1>3, OldOrNew, NewNotAround
  <2>2. a # at
    BY <1>2, <1>3, <2>1, Declares
  <2>3. ct[a] # 0 /\ constructs[k].begin = ct[a]
    BY <1>2, <2>1, <2>2, Declares
  <2>4. In(constructs, j, a)
    <3>1. LoopsInside(n, constructs, ct)
      BY DEF Labels, Nested
    <3>2. k \in 1..Len(constructs) /\ j \in 1..Len(constructs)
      BY <1>3, <2>1 DEF Old
    <3>3. constructs[k].kind = "continue" /\ j # k
      BY <1>2, <2>1
    <3> QED BY <2>1, <2>3, <3>1, <3>2, <3>3 DEF LoopsInside
  <2> QED BY <2>1, <2>4, OldOrNew
<1>4. CASE k \in New(q)
  <2>1. constructs'[k].begin = d.ct
    BY <1>2, <1>4, NewIs DEF Is
  <2>2. a = at
    BY <1>2, <2>1, Declares
  <2>3. j \in Old
    BY <1>2, <1>4, OldOrNew, NewApart
  <2>4. Around(constructs, j, enclosing[p])
    BY <1>2, <1>4, <2>3, AroundNew
  <2>5. In(constructs, enclosing[p], at)
    BY TopHolds DEF In
  <2>6. Interval(constructs[j]) /\ Interval(constructs[enclosing[p]])
    BY <1>1, <2>3, OldIntervals
  <2>7. In(constructs, j, at)
    <3>1. at \in Nat
      BY <1>1
    <3> QED BY <2>4, <2>5, <2>6, <3>1, InAgain
  <2> QED BY <2>2, <2>3, <2>7, OldOrNew
<1> QED BY <1>3, <1>4, OldOrNew

\* What holds the new header reaches to its merge block.
LEMMA MergesInsideKept ==
  ASSUME NEW d, NEW p, NEW q, Labels(d, p, q)
  PROVE  MergesInside(n, constructs', merge')
<1>1. /\ n \in Nat /\ at \in 1..n /\ Len(constructs) \in Nat /\ q \in 0..2
      /\ d.merge \in Nat /\ d.ct \in Nat
  BY Numbers DEF Labels
<1>2. SUFFICES ASSUME NEW a \in 1..n, merge'[a] # 0,
                      NEW j \in 1..Len(constructs'), In(constructs', j, a)
               PROVE  \/ merge'[a] <= constructs'[j].end
                      \/ constructs'[j].kind = "loop" /\ constructs'[j].begin = a
  BY DEF MergesInside
<1>3. CASE a # at
  <2>1. merge'[a] = merge[a] /\ merge[a] # 0 /\ a < at
    BY <1>2, <1>3, Declares
  <2>2. j \notin New(q)
    <3>1. SUFFICES ASSUME j \in New(q) PROVE FALSE
      OBVIOUS
    <3>2. constructs'[j].begin \in at..n
      BY <3>1, Numbers
    <3>3. constructs'[j].begin <= a
      BY <1>2 DEF In
    <3> QED BY <1>1, <2>1, <3>2, <3>3
  <2>3. j \in Old /\ constructs'[j] = constructs[j] /\ In(constructs, j, a)
    BY <1>2, <2>2, OldOrNew
  <2>4. MergesInside(n, constructs, merge) /\ j \in 1..Len(constructs)
    BY <2>3 DEF Labels, Nested, Old
  <2>5. merge[a] <= constructs[j].end \/ (constructs[j].kind = "loop" /\ constructs[j].begin = a)
    BY <2>1, <2>3, <2>4 DEF MergesInside
  <2> QED BY <2>1, <2>3, <2>5
<1>4. CASE a = at
  <2>1. merge'[a] = d.merge
    BY <1>4, Declares
  <2>2. CASE j \in New(q)
    BY <1>1, <1>4, <2>1, <2>2, NewIs DEF Is
  <2>3. CASE j \in Old
    <3>1. constructs'[j] = constructs[j] /\ at < constructs[j].end /\ constructs[j].end \in 1..(n + 1)
      BY <1>2, <1>4, <2>3, OldOrNew, Numbers DEF In
    <3>2. PICK i \in 1..p : enclosing[i] = j
      BY <1>1, <2>3, <3>1, OldOnes
    <3>3. d.header \in {"if", "switch", "loop"}
      BY <1>2, <2>1 DEF Labels, Fresh
    <3>4. Len(constructs) + 1 \in New(q) /\ constructs'[Len(constructs) + 1].end = d.merge
      BY <1>1, <3>3 DEF Labels, Adds, Is, New
    <3>5. constructs'[Len(constructs) + 1].end <= constructs[enclosing[i]].end
      BY <3>4, StackEnds
    <3> QED BY <2>1, <3>1, <3>2, <3>4, <3>5
  <2> QED BY <2>2, <2>3, OldOrNew
<1> QED BY <1>3, <1>4

\* The constructs of the stack are old ones, and then the new ones.
LEMMA StackIs ==
  ASSUME NEW d, NEW p, NEW q, Labels(d, p, q)
  PROVE  /\ Len(enclosing') = p + q /\ p \in Nat /\ p >= 1 /\ q \in 0..2
         /\ \A i \in 1..p : enclosing'[i] = enclosing[i] /\ enclosing[i] \in Old
         /\ \A i \in (p + 1)..(p + q) :
              enclosing'[i] = Len(constructs) + (i - p) /\ enclosing'[i] \in New(q)
         /\ \A k \in New(q) : \E i \in (p + 1)..(p + q) : enclosing'[i] = k
<1>1. /\ Len(constructs) \in Nat /\ q \in 0..2 /\ Len(enclosing) \in Nat
      /\ p \in 1..Len(enclosing) /\ \A i \in 1..Len(enclosing) : enclosing[i] \in Old
  BY Numbers
<1>2. /\ Len(enclosing') = p + q
      /\ \A i \in 1..p : enclosing'[i] = enclosing[i]
      /\ \A i \in 1..q : enclosing'[p + i] = Len(constructs) + i
  BY DEF Labels, Grows
<1>3. \A i \in 1..p : enclosing'[i] = enclosing[i] /\ enclosing[i] \in Old
  BY <1>1, <1>2
<1>4. ASSUME NEW i \in (p + 1)..(p + q)
      PROVE  enclosing'[i] = Len(constructs) + (i - p) /\ enclosing'[i] \in New(q)
  <2>1. i - p \in 1..q /\ p + (i - p) = i
    BY <1>1
  <2>2. enclosing'[i] = Len(constructs) + (i - p)
    BY <1>2, <2>1
  <2> QED BY <1>1, <2>1, <2>2 DEF New
<1>5. ASSUME NEW k \in New(q)
      PROVE  \E i \in (p + 1)..(p + q) : enclosing'[i] = k
  <2> DEFINE m == k - Len(constructs)
  <2>1. m \in 1..q /\ Len(constructs) + m = k
    BY <1>1 DEF New
  <2> HIDE DEF m
  <2>2. enclosing'[p + m] = k /\ p + m \in (p + 1)..(p + q)
    BY <1>1, <1>2, <2>1
  <2> QED BY <2>2
<1> QED BY <1>1, <1>2, <1>3, <1>4, <1>5

\* The new constructs are on the stack as they should be.
LEMMA StackedKept ==
  ASSUME NEW d, NEW p, NEW q, Labels(d, p, q)
  PROVE  Stacked(at + 1, constructs', enclosing')
<1>1. /\ n \in Nat /\ at \in 1..n /\ Len(constructs) \in Nat
      /\ Len(enclosing) \in Nat /\ p \in 1..Len(enclosing)
      /\ \A k \in Old : constructs'[k] = constructs[k]
      /\ \A k \in Old : constructs[k].begin \in 1..n /\ constructs[k].end \in 1..(n + 1)
      /\ \A k \in New(q) : constructs'[k].begin \in at..n /\ constructs'[k].end \in at..n
      /\ d.merge \in Nat /\ d.ct \in Nat
  BY Numbers DEF Labels
<1>2. /\ Len(enclosing') = p + q /\ p \in Nat /\ p >= 1 /\ q \in 0..2
      /\ \A i \in 1..p : enclosing'[i] = enclosing[i] /\ enclosing[i] \in Old
      /\ \A i \in (p + 1)..(p + q) :
           enclosing'[i] = Len(constructs) + (i - p) /\ enclosing'[i] \in New(q)
      /\ \A k \in New(q) : \E i \in (p + 1)..(p + q) : enclosing'[i] = k
  BY StackIs
<1>3. /\ \A i \in 1..Len(enclosing) : \A j \in (i + 1)..Len(enclosing) :
           \/ constructs[enclosing[i]].begin <= constructs[enclosing[j]].begin
           \/ constructs[enclosing[j]].end <= constructs[enclosing[i]].begin
      /\ \A i \in 2..Len(enclosing) : constructs[enclosing[i]].begin >= at =>
           i < Len(enclosing) /\ constructs[enclosing[i + 1]].end = constructs[enclosing[i]].begin
  BY DEF Labels, Stacked
<1>4. ASSUME NEW i \in 1..(p + q), NEW j \in (i + 1)..(p + q)
      PROVE  \/ constructs'[enclosing'[i]].begin <= constructs'[enclosing'[j]].begin
             \/ constructs'[enclosing'[j]].end <= constructs'[enclosing'[i]].begin
  <2>1. CASE j <= p
    <3>1. i \in 1..p /\ j \in 1..p /\ i \in 1..Len(enclosing) /\ j \in (i + 1)..Len(enclosing)
      BY <1>1, <1>2, <2>1
    <3>2. /\ constructs'[enclosing'[i]] = constructs[enclosing[i]]
          /\ constructs'[enclosing'[j]] = constructs[enclosing[j]]
      BY <1>1, <1>2, <3>1
    <3> QED BY <1>3, <3>1, <3>2
  <2>2. CASE i <= p /\ ~ (j <= p)
    <3>1. i \in 1..p /\ j \in (p + 1)..(p + q)
      BY <1>2, <2>2
    <3>2. enclosing'[j] \in New(q) /\ constructs'[enclosing'[i]] = constructs[enclosing[i]]
      BY <1>1, <1>2, <3>1
    <3>3. constructs[enclosing[i]].begin \in 1..n /\ constructs'[enclosing'[j]].begin \in at..n
      BY <1>1, <1>2, <3>1, <3>2
    <3>4. \/ constructs[enclosing[i]].begin <= at
          \/ constructs'[enclosing'[j]].end <= constructs[enclosing[i]].begin
      BY <3>1, <3>2, BeforeNew
    <3>5. n \in Nat /\ at \in Nat
      BY <1>1
    <3>6. constructs[enclosing[i]].begin <= at =>
            constructs[enclosing[i]].begin <= constructs'[enclosing'[j]].begin
      BY <3>3, <3>5
    <3> QED BY <3>2, <3>4, <3>6
  <2>3. CASE ~ (i <= p)
    <3>1. i = p + 1 /\ j = p + 2 /\ q = 2
      BY <1>2, <2>3
    <3>2. i \in (p + 1)..(p + q) /\ j \in (p + 1)..(p + q) /\ i - p = 1 /\ j - p = 2
      BY <1>2, <3>1
    <3>3. enclosing'[i] = Len(constructs) + 1 /\ enclosing'[j] = Len(constructs) + 2
      BY <1>2, <3>2
    <3>4. d.header = "loop" /\ d.ct # at
      <4>1. Adds(d, q, enclosing[p]) /\ d.header \in {"none", "if", "switch", "loop"}
        BY DEF Labels, Fresh
      <4> QED BY <3>1, <4>1 DEF Adds
    <3>5. /\ constructs'[Len(constructs) + 1].begin = d.ct
          /\ constructs'[Len(constructs) + 2].end = d.ct
      BY <3>4 DEF Labels, Adds, Is
    <3> QED BY <1>1, <3>3, <3>5
  <2> QED BY <2>1, <2>2, <2>3
<1>5. ASSUME NEW i \in 2..(p + q), constructs'[enclosing'[i]].begin >= at + 1
      PROVE  i < p + q /\ constructs'[enclosing'[i + 1]].end = constructs'[enclosing'[i]].begin
  <2>1. CASE i <= p
    <3>1. i \in 1..p /\ i \in 2..Len(enclosing)
      BY <1>1, <1>2, <2>1
    <3>2. constructs'[enclosing'[i]] = constructs[enclosing[i]] /\ constructs[enclosing[i]].begin \in 1..n
      BY <1>1, <1>2, <3>1
    <3>8. n \in Nat /\ at \in Nat
      BY <1>1
    <3>3. constructs[enclosing[i]].begin >= at /\ constructs[enclosing[i]].begin # at
      BY <1>5, <3>2, <3>8
    <3>4. i < Len(enclosing) /\ constructs[enclosing[i + 1]].end = constructs[enclosing[i]].begin
      BY <1>3, <3>1, <3>3
    <3>5. i + 1 \notin (p + 1)..Len(enclosing)
      <4>1. \A h \in (p + 1)..Len(enclosing) : constructs[enclosing[h]].end = at
        BY DEF Labels, Grows
      <4>2. constructs[enclosing[i + 1]].end # at
        BY <3>3, <3>4
      <4> QED BY <4>1, <4>2
    <3>6. i + 1 \in 1..p /\ i < p + q
      BY <1>1, <1>2, <3>1, <3>4, <3>5
    <3>7. constructs'[enclosing'[i + 1]] = constructs[enclosing[i + 1]]
      BY <1>1, <1>2, <3>6
    <3> QED BY <3>2, <3>4, <3>6, <3>7
  <2>2. CASE ~ (i <= p)
    <3>1. i \in (p + 1)..(p + q)
      BY <1>2, <2>2
    <3>2. enclosing'[i] = Len(constructs) + (i - p) /\ enclosing'[i] \in New(q)
      BY <1>2, <3>1
    <3>3. /\ enclosing'[i] = Len(constructs) + 1 /\ q = 2 /\ d.header = "loop" /\ d.ct # at
          /\ constructs'[enclosing'[i]].begin = d.ct
      <4>1. constructs'[enclosing'[i]].begin # at
        <5>1. at \in Nat
          BY <1>1
        <5> QED BY <1>5, <5>1
      <4>2. \/ constructs'[enclosing'[i]].begin = at
            \/ /\ enclosing'[i] = Len(constructs) + 1 /\ d.header = "loop"
               /\ constructs'[enclosing'[i]].begin = d.ct
               /\ q = IF d.ct = at THEN 1 ELSE 2
        <5> DEFINE k == enclosing'[i]
        <5>1. k \in New(q)
          BY <3>2
        <5> HIDE DEF k
        <5>2. \/ Is(constructs'[k], d.header, at, d.merge) \/ Is(constructs'[k], "loop", at, d.ct)
              \/ /\ k = Len(constructs) + 1 /\ d.header = "loop"
                 /\ Is(constructs'[k], "continue", d.ct, d.merge)
                 /\ q = IF d.ct = at THEN 1 ELSE 2
          BY <5>1, NewIs
        <5>3. \/ constructs'[k].begin = at
              \/ /\ k = Len(constructs) + 1 /\ d.header = "loop"
                 /\ constructs'[k].begin = d.ct
                 /\ q = IF d.ct = at THEN 1 ELSE 2
          BY <5>2 DEF Is
        <5> QED BY <5>3 DEF k
      <4> QED BY <4>1, <4>2
    <3>4. i = p + 1
      <4>1. Len(constructs) + (i - p) = Len(constructs) + 1
        BY <3>2, <3>3
      <4>2. Len(constructs) \in Nat /\ p \in Nat /\ i \in Nat
        BY <1>1, <1>2
      <4> QED BY <4>1, <4>2
    <3>5. i < p + q /\ i + 1 \in (p + 1)..(p + q) /\ (i + 1) - p = 2
      BY <1>2, <3>3, <3>4
    <3>6. enclosing'[i + 1] = Len(constructs) + 2
      BY <1>2, <3>5
    <3>7. constructs'[Len(constructs) + 2].end = d.ct
      BY <3>3 DEF Labels, Adds, Is
    <3> QED BY <3>3, <3>5, <3>6, <3>7
  <2> QED BY <2>1, <2>2
<1>6. ASSUME NEW k \in 1..Len(constructs')
      PROVE  (\E i \in 1..(p + q) : enclosing'[i] = k) \/ constructs'[k].end < at + 1
  <2>1. CASE k \in New(q)
    <3>1. PICK i \in (p + 1)..(p + q) : enclosing'[i] = k
      BY <1>2, <2>1
    <3>2. i \in 1..(p + q)
      BY <1>2
    <3> QED BY <3>1, <3>2
  <2>2. CASE k \in Old
    <3>1. constructs'[k] = constructs[k] /\ constructs[k].end \in 1..(n + 1)
      BY <1>1, <2>2
    <3>2. CASE constructs[k].end <= at
      BY <1>1, <3>1, <3>2
    <3>3. CASE \E i \in 1..p : enclosing[i] = k
      <4>1. PICK i \in 1..p : enclosing[i] = k
        BY <3>3
      <4>2. i \in 1..(p + q) /\ enclosing'[i] = k
        BY <1>2, <4>1
      <4> QED BY <4>2
    <3> QED BY <2>2, <3>2, <3>3, OldOnes
  <2> QED BY <2>1, <2>2, OldOrNew
<1> QED BY <1>2, <1>4, <1>5, <1>6 DEF Stacked

\* All together.
LEMMA NestingKept ==
  ASSUME NEW d, NEW p, NEW q, Labels(d, p, q)
  PROVE  /\ Stacked(at + 1, constructs', enclosing')
         /\ Nested(n, constructs', merge', ct', construct')
BY FieldsKept, LocatedKept, DistinctKept, LoopsInsideKept, MergesInsideKept, StackedKept
   DEF Nested

\* A stack that is doomed stays so.
LEMMA DoomedKept ==
  ASSUME NEW p, NEW q, Grows(p, q), at \in Nat, constructs \in Seq(Records),
         enclosing \in Seq(1..Len(constructs)), Doomed(at, constructs, enclosing)
  PROVE  Doomed(at + 1, constructs', enclosing')
<1> DEFINE End(i) == constructs[enclosing[i]].end
<1>1. /\ p \in 1..Len(enclosing) /\ q \in 0..2 /\ Len(enclosing) \in Nat /\ p \in Nat
      /\ \A i \in (p + 1)..Len(enclosing) : End(i) = at
      /\ Len(enclosing') = p + q
  BY DEF Grows
<1>2. \A i \in 1..Len(enclosing) : enclosing[i] \in 1..Len(constructs) /\ End(i) \in Nat
  <2> TAKE i \in 1..Len(enclosing)
  <2>1. enclosing[i] \in 1..Len(constructs)
    BY ElementOfSeq
  <2>2. constructs[enclosing[i]] \in Records
    BY <2>1, ElementOfSeq
  <2> QED BY <2>1, <2>2 DEF Records
<1>3. \A i \in 1..p : constructs'[enclosing'[i]].end = End(i)
  <2> TAKE i \in 1..p
  <2>1. i \in 1..Len(enclosing)
    BY <1>1
  <2>2. enclosing[i] \in 1..Len(constructs)
    BY <1>2, <2>1
  <2>3. enclosing'[i] = enclosing[i] /\ \A k \in 1..Len(constructs) : constructs'[k] = constructs[k]
    BY DEF Grows
  <2> QED BY <2>2, <2>3
<1>4. PICK i \in 2..Len(enclosing) : \/ End(i) < at
                                     \/ \E j \in (i + 1)..Len(enclosing) : End(j) > End(i)
  BY DEF Doomed
<1> HIDE DEF End
<1>5. i \in 1..Len(enclosing) /\ End(i) \in Nat
  BY <1>1, <1>2
<1>6. i \in 2..p
  <2>1. SUFFICES ASSUME i \notin 2..p PROVE FALSE
    OBVIOUS
  <2>2. i \in (p + 1)..Len(enclosing) /\ \A j \in (i + 1)..Len(enclosing) : j \in (p + 1)..Len(enclosing)
    BY <1>1, <2>1
  <2>3. End(i) = at /\ \A j \in (i + 1)..Len(enclosing) : End(j) = at
    BY <1>1, <2>2
  <2> QED BY <1>4, <2>3
<1>7. i \in 2..Len(enclosing') /\ constructs'[enclosing'[i]].end = End(i)
  BY <1>1, <1>3, <1>6
<1>8. CASE End(i) < at + 1
  BY <1>7, <1>8 DEF Doomed
<1>9. CASE ~ (End(i) < at + 1)
  <2>1. PICK j \in (i + 1)..Len(enclosing) : End(j) > End(i)
    BY <1>4, <1>5, <1>9
  <2>2. j \in 1..Len(enclosing) /\ End(j) \in Nat
    BY <1>1, <1>2, <1>5
  <2>3. j \notin (p + 1)..Len(enclosing)
    BY <1>1, <1>5, <1>9, <2>1
  <2>4. j \in (i + 1)..p /\ j \in 1..p
    BY <1>1, <1>5, <2>2, <2>3
  <2>5. j \in (i + 1)..Len(enclosing') /\ constructs'[enclosing'[j]].end = End(j)
    BY <1>1, <1>3, <2>4
  <2> QED BY <1>7, <2>1, <2>5 DEF Doomed
<1> QED BY <1>8, <1>9

-----------------------------------------------------------------------------
(* LabelBlock *)

\* The header of a merge block is the one that declares it, or 0.
LEMMA MergeHeader ==
  ASSUME n \in Nat, Declared(n, n + 1, header, merge, ct), NEW b, b # 0
  PROVE  /\ HeaderForMerge(b) \in 0..n
         /\ HeaderForMerge(b) = 0 => \A a \in 1..n : merge[a] # b
         /\ \A a \in 1..n : merge[a] = b => HeaderForMerge(b) = a
<1>1. \A x, y \in 1..n : merge[x] = b /\ merge[y] = b => x = y
  BY DEF Declared
<1>2. CASE \E h \in Blocks : merge[h] = b
  <2>1. HeaderForMerge(b) \in 1..n /\ merge[HeaderForMerge(b)] = b
    BY <1>2 DEF HeaderForMerge, Blocks
  <2> QED BY <1>1, <2>1
<1>3. CASE ~ \E h \in Blocks : merge[h] = b
  BY <1>3 DEF HeaderForMerge, Blocks
<1> QED BY <1>2, <1>3

\* And that of a continue target is the one that declares it.
LEMMA ContinueHeader ==
  ASSUME n \in Nat, Declared(n, n + 1, header, merge, ct), NEW b, b # 0
  PROVE  /\ HeaderForContinue(b) \in 0..n
         /\ HeaderForContinue(b) = 0 => \A a \in 1..n : ct[a] # b
         /\ \A a \in 1..n : ct[a] = b => HeaderForContinue(b) = a
<1>1. \A x, y \in 1..n : ct[x] = b /\ ct[y] = b => x = y
  BY DEF Declared
<1>2. CASE \E h \in Blocks : ct[h] = b
  <2>1. HeaderForContinue(b) \in 1..n /\ ct[HeaderForContinue(b)] = b
    BY <1>2 DEF HeaderForContinue, Blocks
  <2> QED BY <1>1, <2>1
<1>3. CASE ~ \E h \in Blocks : ct[h] = b
  BY <1>3 DEF HeaderForContinue, Blocks
<1> QED BY <1>2, <1>3

\* A block is labelled, whether the stack is doomed or not.
Registers(d, p, q) ==
  /\ n \in Nat /\ at \in 1..n
  /\ d.header \in {"none", "if", "switch", "loop"} /\ d.merge \in 0..n /\ d.ct \in 0..n
  /\ Fresh(d)
  /\ Declared(n, at, header, merge, ct)
  /\ Originates(n, constructs, header, merge, ct)
  /\ Grows(p, q) /\ Adds(d, q, enclosing[p])
  /\ header' = [header EXCEPT ![at] = d.header]
  /\ merge' = [merge EXCEPT ![at] = d.merge] /\ ct' = [ct EXCEPT ![at] = d.ct]

\* DeclarationOK looks the merge and the continue block up among the headers.
LEMMA DeclarationIsFresh ==
  ASSUME Inv, NEW d \in Declarations, LabelBlock(d)
  PROVE  Fresh(d)
<1>1. /\ n \in Nat /\ at \in 1..n /\ n \in 1..MaxBlocks
      /\ Declared(n, n + 1, header, merge, ct) /\ DeclarationOK(at, d)
  BY BeforeLabel DEF Inv, GraphInv, TypeInv, LabelBlock
<1>2. /\ d.header \in {"none", "if", "switch", "loop"} /\ d.merge \in 0..n /\ d.ct \in 0..n
      /\ d.header = "none" => d.merge = 0 /\ d.ct = 0
      /\ d.header \in {"if", "switch"} => d.ct = 0
  BY <1>1, DeclarationIs
<1>3. d.header # "none" => d.merge > at /\ d.merge # 0 /\ \A a \in 1..n : merge[a] # d.merge
  <2>1. SUFFICES ASSUME d.header # "none"
                 PROVE  d.merge > at /\ d.merge # 0 /\ \A a \in 1..n : merge[a] # d.merge
    OBVIOUS
  <2>2. d.merge > at /\ HeaderForMerge(d.merge) = 0
    BY <1>1, <2>1 DEF DeclarationOK
  <2>3. d.merge # 0
    BY <1>1, <2>2
  <2> QED BY <1>1, <2>2, <2>3, MergeHeader
<1>4. d.header = "loop" => /\ at # 1 /\ at <= d.ct /\ d.ct < d.merge
                           /\ \A a \in 1..n : ct[a] # d.ct
  <2>1. SUFFICES ASSUME d.header = "loop"
                 PROVE  /\ at # 1 /\ at <= d.ct /\ d.ct < d.merge
                        /\ \A a \in 1..n : ct[a] # d.ct
    OBVIOUS
  <2>2. at # 1 /\ at <= d.ct /\ d.ct < d.merge /\ HeaderForContinue(d.ct) = 0
    BY <1>1, <2>1 DEF DeclarationOK
  <2>3. d.ct # 0
    BY <1>1, <2>2
  <2> QED BY <1>1, <2>2, <2>3, ContinueHeader
<1> QED BY <1>1, <1>2, <1>3, <1>4 DEF Fresh

\* All that LabelBlock does is in Registers, for some p and q.
LEMMA LabelRegisters ==
  ASSUME Inv, NEW d \in Declarations, LabelBlock(d)
  PROVE  \E p \in 1..Len(enclosing), q \in 0..2 : Registers(d, p, q)
<1>1. PICK p \in 1..Len(enclosing), q \in 0..2 : Grows(p, q) /\ Adds(d, q, enclosing[p])
  BY LabelGrows
<1>2. n \in Nat /\ at \in 1..n /\ LabelInv
  BY BeforeLabel
<1>3. n \in 1..MaxBlocks /\ Originates(n, constructs, header, merge, ct)
  BY DEF Inv, TypeInv, GraphInv
<1>4. d.header \in {"none", "if", "switch", "loop"} /\ d.merge \in 0..n /\ d.ct \in 0..n
  BY <1>3, DeclarationIs
<1>5. /\ header' = [header EXCEPT ![at] = d.header]
      /\ merge' = [merge EXCEPT ![at] = d.merge] /\ ct' = [ct EXCEPT ![at] = d.ct]
  BY DEF LabelBlock
<1>6. Declared(n, at, header, merge, ct)
  BY <1>2 DEF LabelInv
<1> QED BY <1>1, <1>2, <1>3, <1>4, <1>5, <1>6, DeclarationIsFresh DEF Registers

\* The declarations stay in order, and different from one another.
LEMMA DeclaredKept ==
  ASSUME NEW d, NEW p, NEW q, Registers(d, p, q)
  PROVE  /\ Declared(n, at + 1, header', merge', ct')
         /\ Declared(n, n + 1, header', merge', ct')
<1>1. /\ n \in Nat /\ at \in 1..n /\ Fresh(d)
      /\ d.header \in {"none", "if", "switch", "loop"} /\ d.merge \in 0..n /\ d.ct \in 0..n
      /\ Declared(n, at, header, merge, ct)
      /\ header' = [header EXCEPT ![at] = d.header]
      /\ merge' = [merge EXCEPT ![at] = d.merge] /\ ct' = [ct EXCEPT ![at] = d.ct]
  BY DEF Registers
<1>2. /\ header \in [1..n -> {"none", "if", "switch", "loop"}]
      /\ merge \in [1..n -> 0..n] /\ ct \in [1..n -> 0..n]
  BY <1>1 DEF Declared
<1>3. /\ header' \in [1..n -> {"none", "if", "switch", "loop"}]
      /\ merge' \in [1..n -> 0..n] /\ ct' \in [1..n -> 0..n]
      /\ header'[at] = d.header /\ merge'[at] = d.merge /\ ct'[at] = d.ct
      /\ \A a \in 1..n : a # at => header'[a] = header[a] /\ merge'[a] = merge[a] /\ ct'[a] = ct[a]
  BY <1>1, <1>2
<1>4. ASSUME NEW b \in 1..n
      PROVE  \/ header'[b] = "none" /\ merge'[b] = 0 /\ ct'[b] = 0
             \/ b < at + 1 /\ header'[b] \in {"if", "switch"} /\ b < merge'[b] /\ ct'[b] = 0
             \/ b < at + 1 /\ header'[b] = "loop" /\ b # 1 /\ b <= ct'[b] /\ ct'[b] < merge'[b]
  <2>1. CASE b = at
    <3>1. \/ d.header = "none" /\ d.merge = 0 /\ d.ct = 0
          \/ d.header \in {"if", "switch"} /\ d.ct = 0 /\ at < d.merge
          \/ d.header = "loop" /\ at # 1 /\ at <= d.ct /\ d.ct < d.merge
      BY <1>1 DEF Fresh
    <3>2. at < at + 1
      BY <1>1
    <3> QED BY <1>3, <2>1, <3>1, <3>2
  <2>2. CASE b # at
    <3>1. \/ header[b] = "none" /\ merge[b] = 0 /\ ct[b] = 0
          \/ b < at /\ header[b] \in {"if", "switch"} /\ b < merge[b] /\ ct[b] = 0
          \/ b < at /\ header[b] = "loop" /\ b # 1 /\ b <= ct[b] /\ ct[b] < merge[b]
      BY <1>1 DEF Declared
    <3>2. b < at => b < at + 1
      BY <1>1
    <3> QED BY <1>3, <2>2, <3>1, <3>2
  <2> QED BY <2>1, <2>2
<1>5. \A a, b \in 1..n : merge'[a] = merge'[b] /\ merge'[a] # 0 => a = b
  <2>1. \A a, b \in 1..n : merge[a] = merge[b] /\ merge[a] # 0 => a = b
    BY <1>1 DEF Declared
  <2>2. d.merge # 0 => \A a \in 1..n : merge[a] # d.merge
    BY <1>1 DEF Fresh
  <2> QED BY <1>1, <1>3, <2>1, <2>2
<1>6. \A a, b \in 1..n : ct'[a] = ct'[b] /\ ct'[a] # 0 => a = b
  <2>1. \A a, b \in 1..n : ct[a] = ct[b] /\ ct[a] # 0 => a = b
    BY <1>1 DEF Declared
  <2>2. d.ct # 0 => \A a \in 1..n : ct[a] # d.ct
    BY <1>1 DEF Fresh
  <2> QED BY <1>1, <1>3, <2>1, <2>2
<1>7. Declared(n, at + 1, header', merge', ct')
  BY <1>3, <1>4, <1>5, <1>6 DEF Declared
<1>8. \A b \in 1..n : b < at + 1 => b < n + 1
  BY <1>1
<1>9. Declared(n, n + 1, header', merge', ct')
  BY <1>3, <1>4, <1>5, <1>6, <1>8 DEF Declared
<1> QED BY <1>7, <1>9

\* The new constructs are headed by the block, and hold what it heads.
LEMMA NewOriginate ==
  ASSUME NEW d, NEW p, NEW q, Registers(d, p, q)
  PROVE  /\ \A k \in New(q) : Heads(constructs'[k], at, header', merge', ct')
         /\ \A b \in 1..n : at <= b /\ b < d.merge =>
              \E k \in New(q) : In(constructs', k, b) /\ constructs'[k].end <= d.merge
<1>1. /\ n \in Nat /\ at \in 1..n /\ Fresh(d) /\ q \in 0..2 /\ Len(constructs) \in Nat
      /\ d.merge \in Nat /\ d.ct \in Nat /\ Adds(d, q, enclosing[p])
  BY DEF Registers, Grows, Originates
<1>2. header'[at] = d.header /\ merge'[at] = d.merge /\ ct'[at] = d.ct
  BY DEF Registers, Declared
<1> DEFINE one == constructs'[Len(constructs) + 1]
           two == constructs'[Len(constructs) + 2]
<1>3. \A k \in New(q) : k = Len(constructs) + 1 \/ (k = Len(constructs) + 2 /\ q = 2)
  BY <1>1 DEF New
<1>4. /\ q # 0 => Len(constructs) + 1 \in New(q)
      /\ q = 2 => Len(constructs) + 2 \in New(q)
  BY <1>1 DEF New
<1>5. CASE d.header = "none"
  <2>1. q = 0 /\ d.merge = 0
    BY <1>1, <1>5 DEF Adds, Fresh
  <2>2. New(q) = {}
    BY <1>1, <2>1 DEF New
  <2> QED BY <1>1, <2>1, <2>2
<1>6. CASE d.header \in {"if", "switch"}
  <2>1. /\ q = 1 /\ one.kind = d.header /\ one.begin = at /\ one.end = d.merge
    BY <1>1, <1>6 DEF Adds, Is
  <2> HIDE DEF one
  <2>2. Heads(one, at, header', merge', ct')
    BY <1>2, <1>6, <2>1 DEF Heads
  <2>3. \A k \in New(q) : constructs'[k] = one
    BY <1>3, <2>1 DEF one
  <2>4. Len(constructs) + 1 \in New(q) /\ constructs'[Len(constructs) + 1] = one
    BY <1>4, <2>1 DEF one
  <2> QED BY <1>1, <2>1, <2>2, <2>3, <2>4 DEF In
<1>7. CASE d.header = "loop" /\ d.ct = at
  <2>1. q = 1 /\ one.kind = "continue" /\ one.begin = d.ct /\ one.end = d.merge
    BY <1>1, <1>7 DEF Adds, Is
  <2> HIDE DEF one
  <2>2. Heads(one, at, header', merge', ct')
    BY <1>2, <1>7, <2>1 DEF Heads
  <2>3. \A k \in New(q) : constructs'[k] = one
    BY <1>3, <2>1 DEF one
  <2>4. Len(constructs) + 1 \in New(q) /\ constructs'[Len(constructs) + 1] = one
    BY <1>4, <2>1 DEF one
  <2> QED BY <1>1, <1>7, <2>1, <2>2, <2>3, <2>4 DEF In
<1>8. CASE d.header = "loop" /\ d.ct # at
  <2>1. /\ q = 2 /\ one.kind = "continue" /\ one.begin = d.ct /\ one.end = d.merge
        /\ two.kind = "loop" /\ two.begin = at /\ two.end = d.ct /\ d.ct < d.merge
    BY <1>1, <1>8 DEF Adds, Is, Fresh
  <2> HIDE DEF one, two
  <2>2. Heads(one, at, header', merge', ct') /\ Heads(two, at, header', merge', ct')
    BY <1>2, <1>8, <2>1 DEF Heads
  <2>3. \A k \in New(q) : constructs'[k] = one \/ constructs'[k] = two
    BY <1>3 DEF one, two
  <2>4. /\ Len(constructs) + 1 \in New(q) /\ constructs'[Len(constructs) + 1] = one
        /\ Len(constructs) + 2 \in New(q) /\ constructs'[Len(constructs) + 2] = two
    BY <1>4, <2>1 DEF one, two
  <2>5. ASSUME NEW b \in 1..n, at <= b, b < d.merge
        PROVE  \E k \in New(q) : In(constructs', k, b) /\ constructs'[k].end <= d.merge
    <3>1. b < d.ct \/ d.ct <= b
      BY <1>1
    <3>2. CASE b < d.ct
      <4>1. In(constructs', Len(constructs) + 2, b) /\ constructs'[Len(constructs) + 2].end <= d.merge
        BY <1>1, <2>1, <2>4, <2>5, <3>2 DEF In
      <4> QED BY <2>4, <4>1
    <3>3. CASE d.ct <= b
      <4>1. In(constructs', Len(constructs) + 1, b) /\ constructs'[Len(constructs) + 1].end <= d.merge
        BY <1>1, <2>1, <2>4, <2>5, <3>3 DEF In
      <4> QED BY <2>4, <4>1
    <3> QED BY <3>1, <3>2, <3>3
  <2> QED BY <2>2, <2>3, <2>5
<1> QED BY <1>1, <1>5, <1>6, <1>7, <1>8 DEF Registers

\* Each construct still is one that a header heads.
LEMMA OriginatesKept ==
  ASSUME NEW d, NEW p, NEW q, Registers(d, p, q)
  PROVE  Originates(n, constructs', header', merge', ct')
<1>1. /\ n \in Nat /\ at \in 1..n /\ q \in 0..2 /\ Len(constructs) \in Nat /\ Len(constructs) >= 1
      /\ Declared(n, at, header, merge, ct) /\ Originates(n, constructs, header, merge, ct)
      /\ constructs' \in Seq(Records) /\ Len(constructs') = Len(constructs) + q
      /\ \A k \in Old : constructs'[k] = constructs[k]
  BY DEF Registers, Grows, Originates, Old
<1>2. /\ merge'[at] = d.merge
      /\ header[at] = "none" /\ merge[at] = 0
      /\ \A a \in 1..n : a # at => header'[a] = header[a] /\ merge'[a] = merge[a] /\ ct'[a] = ct[a]
  <2>1. \A b \in 1..n : (header[b] = "none" /\ merge[b] = 0) \/ b < at
    BY <1>1 DEF Declared
  <2>2. header[at] = "none" /\ merge[at] = 0
    BY <1>1, <2>1
  <2>3. DOMAIN header = 1..n /\ DOMAIN merge = 1..n /\ DOMAIN ct = 1..n
    BY <1>1 DEF Declared
  <2> QED BY <1>1, <2>2, <2>3 DEF Registers
<1>3. ASSUME NEW k \in 2..Len(constructs), NEW a \in 1..n, Heads(constructs[k], a, header, merge, ct)
      PROVE  a # at /\ constructs'[k] = constructs[k] /\ Heads(constructs'[k], a, header', merge', ct')
  <2>1. a # at
    BY <1>2, <1>3 DEF Heads
  <2>2. constructs'[k] = constructs[k]
    BY <1>1 DEF Old
  <2> QED BY <1>2, <1>3, <2>1, <2>2 DEF Heads
<1>4. /\ Len(constructs') >= 1 /\ constructs'[1] = constructs[1]
      /\ \A k \in 2..Len(constructs') : k \in 2..Len(constructs) \/ k \in New(q)
      /\ 2..Len(constructs) \subseteq 2..Len(constructs')
      /\ New(q) \subseteq 2..Len(constructs')
  BY <1>1 DEF Old, New
<1>5. \A k \in 2..Len(constructs') : \E a \in 1..n : Heads(constructs'[k], a, header', merge', ct')
  <2> TAKE k \in 2..Len(constructs')
  <2>1. CASE k \in New(q)
    BY <1>1, <2>1, NewOriginate
  <2>2. CASE k \in 2..Len(constructs)
    <3>1. PICK a \in 1..n : Heads(constructs[k], a, header, merge, ct)
      BY <1>1, <2>2 DEF Originates
    <3> QED BY <1>3, <2>2, <3>1
  <2> QED BY <1>4, <2>1, <2>2
<1>6. ASSUME NEW a \in 1..n, NEW b \in 1..n, a <= b, b < merge'[a]
      PROVE  \E k \in 2..Len(constructs') :
               /\ In(constructs', k, b) /\ constructs'[k].end <= merge'[a]
               /\ Heads(constructs'[k], a, header', merge', ct')
  <2>1. CASE a = at
    BY <1>2, <1>4, <1>6, <2>1, NewOriginate
  <2>2. CASE a # at
    <3>1. PICK k \in 2..Len(constructs) :
            /\ In(constructs, k, b) /\ constructs[k].end <= merge[a]
            /\ Heads(constructs[k], a, header, merge, ct)
      <4>1. merge'[a] = merge[a]
        BY <1>2, <2>2
      <4> QED BY <1>1, <1>6, <4>1 DEF Originates
    <3>2. constructs'[k] = constructs[k] /\ Heads(constructs'[k], a, header', merge', ct')
      BY <1>3, <3>1
    <3>3. In(constructs', k, b) /\ constructs'[k].end <= merge'[a]
      BY <1>2, <2>2, <3>1, <3>2 DEF In
    <3> QED BY <1>4, <3>2, <3>3
  <2> QED BY <2>1, <2>2
<1>7. constructs'[1].kind = "function" /\ constructs'[1].begin = 1 /\ constructs'[1].end = n + 1
  BY <1>1, <1>4 DEF Originates
<1> QED BY <1>1, <1>4, <1>5, <1>6, <1>7 DEF Originates

\* What TypeInv and LabelInv say of the lists.
LEMMA LabelLists ==
  ASSUME NEW d, NEW p, NEW q, Registers(d, p, q), Inv, phase = "label"
  PROVE  /\ at + 1 \in 1..(2 * n + 2) /\ at + 1 <= n + 1
         /\ Len(constructs') <= 2 * n + 1 /\ Len(constructs') <= 2 * (at + 1) - 1
         /\ IsStack(constructs', enclosing')
         /\ construct' \in [1..n -> 0..Len(constructs')]
         /\ \A b \in 1..n : construct'[b] = 0 <=> b >= at + 1
         /\ \A k \in 1..Len(constructs') :
              {constructs'[k].parent, constructs'[k].loop, constructs'[k].cont,
               constructs'[k].breakable} \subseteq 0..Len(constructs')
<1>1. /\ n \in Nat /\ at \in 1..n /\ q \in 0..2 /\ Len(constructs) \in Nat
      /\ Len(constructs') = Len(constructs) + q
  BY DEF Registers, Grows, Originates
<1>2. /\ Len(constructs) <= 2 * at - 1
      /\ IsStack(constructs, enclosing) /\ \A b \in 1..n : construct[b] = 0 <=> b >= at
  BY DEF Inv, LabelInv, Blocks
<1>3. /\ construct \in [1..n -> 0..Len(constructs)]
      /\ \A k \in Old : {constructs[k].parent, constructs[k].loop, constructs[k].cont,
                         constructs[k].breakable} \subseteq 0..Len(constructs)
  BY DEF Inv, TypeInv, Blocks, Old
<1>4. /\ p \in 1..Len(enclosing) /\ enclosing \in Seq(1..Len(constructs)) /\ Len(enclosing) \in Nat
      /\ enclosing[1] = 1
  BY <1>2 DEF Registers, Grows, IsStack
<1>5. enclosing[p] \in Old
  BY <1>4, ElementOfSeq DEF Old
<1>6. /\ at + 1 \in 1..(2 * n + 2) /\ at + 1 <= n + 1
      /\ Len(constructs') <= 2 * n + 1 /\ Len(constructs') <= 2 * (at + 1) - 1
  BY <1>1, <1>2
<1>7. IsStack(constructs', enclosing')
  <2>1. /\ enclosing' \in Seq(1..Len(constructs')) /\ Len(enclosing') = p + q
        /\ \A i \in 1..p : enclosing'[i] = enclosing[i]
    BY DEF Registers, Grows
  <2>2. 1 \in 1..p /\ p + q >= 1
    BY <1>1, <1>4
  <2> QED BY <1>4, <2>1, <2>2 DEF IsStack
<1> DEFINE top == IF q = 0 THEN enclosing[p] ELSE Len(constructs) + q
<1>8. construct' = [construct EXCEPT ![at] = top]
  BY DEF Registers, Grows
<1>9. top \in 1..Len(constructs')
  BY <1>1, <1>5 DEF Old
<1> HIDE DEF top
<1>10. construct' \in [1..n -> 0..Len(constructs')] /\ \A b \in 1..n : construct'[b] = 0 <=> b >= at + 1
  <2>1. construct'[at] = top /\ \A b \in 1..n : b # at => construct'[b] = construct[b]
    BY <1>1, <1>3, <1>8
  <2>2. construct' \in [1..n -> 0..Len(constructs')]
    BY <1>1, <1>3, <1>8, <1>9
  <2>3. top # 0
    BY <1>9
  <2>4. ASSUME NEW b \in 1..n PROVE construct'[b] = 0 <=> b >= at + 1
    <3>1. at \in Nat /\ b \in Nat
      BY <1>1
    <3>2. CASE b = at
      BY <2>1, <2>3, <3>1, <3>2
    <3>3. CASE b # at
      <4>1. construct'[b] = 0 <=> b >= at
        BY <1>2, <2>1, <3>3
      <4> QED BY <3>1, <3>3, <4>1
    <3> QED BY <3>2, <3>3
  <2> QED BY <2>2, <2>4
<1>11. ASSUME NEW k \in 1..Len(constructs')
       PROVE  {constructs'[k].parent, constructs'[k].loop, constructs'[k].cont,
               constructs'[k].breakable} \subseteq 0..Len(constructs')
  <2>1. 0..Len(constructs) \subseteq 0..Len(constructs') /\ k \in 0..Len(constructs')
    BY <1>1
  <2>2. \A h \in Old : constructs'[h] = constructs[h]
    BY DEF Registers, Grows, Old
  <2>3. CASE k \in Old
    BY <1>3, <2>1, <2>2, <2>3
  <2>4. CASE k \notin Old
    <3>1. k - Len(constructs) \in 1..q /\ k = Len(constructs) + (k - Len(constructs))
      BY <1>1, <2>4 DEF Old
    <3>2. Inherits(constructs', k, enclosing[p])
      BY <3>1 DEF Registers, Adds
    <3>3. enclosing[p] \in 0..Len(constructs)
      BY <1>5 DEF Old
    <3>4. constructs'[enclosing[p]] = constructs[enclosing[p]]
      BY <1>5, <2>2
    <3>5. {constructs'[enclosing[p]].loop, constructs'[enclosing[p]].cont,
           constructs'[enclosing[p]].breakable} \subseteq 0..Len(constructs')
      BY <1>3, <1>5, <2>1, <3>4
    <3> QED BY <2>1, <3>2, <3>3, <3>5 DEF Inherits
  <2> QED BY <2>3, <2>4
<1> QED BY <1>6, <1>7, <1>10, <1>11

\* What there is to keep while no edge is classified.
LEMMA NoEdges ==
  ASSUME kind = [b \in Blocks |-> <<>>], guard = {}
  PROVE  ContinueLeftAtItsEnd /\ NormalEdgesEnterAtHead /\ GuardsAreOfIfs
BY DEF ContinueLeftAtItsEnd, NormalEdgesEnterAtHead, GuardsAreOfIfs

\* LabelBlock keeps the invariant, whether it dooms the stack or not.
LEMMA LabelBlockKeeps ==
  ASSUME Inv, NEW d \in Declarations, LabelBlock(d)
  PROVE  Inv'
<1>1. PICK p \in 1..Len(enclosing), q \in 0..2 : Registers(d, p, q)
  BY LabelRegisters
<1>2. /\ phase = "label" /\ phase' = "label" /\ n' = n /\ at' = at + 1 /\ at \in 1..n /\ n \in Nat
      /\ UNCHANGED <<targets, caseHead, defaultHead, kind, guard, premerge>>
      /\ TypeInv /\ LabelInv
  BY <1>1 DEF LabelBlock, Registers, Inv
<1>3. /\ at + 1 \in 1..(2 * n + 2) /\ at + 1 <= n + 1
      /\ Len(constructs') <= 2 * n + 1 /\ Len(constructs') <= 2 * (at + 1) - 1
      /\ IsStack(constructs', enclosing')
      /\ construct' \in [1..n -> 0..Len(constructs')]
      /\ \A b \in 1..n : construct'[b] = 0 <=> b >= at + 1
      /\ \A k \in 1..Len(constructs') :
           {constructs'[k].parent, constructs'[k].loop, constructs'[k].cont,
            constructs'[k].breakable} \subseteq 0..Len(constructs')
  BY <1>1, <1>2, LabelLists
<1>4. /\ Declared(n, at + 1, header', merge', ct')
      /\ Declared(n, n + 1, header', merge', ct')
      /\ Originates(n, constructs', header', merge', ct')
  BY <1>1, DeclaredKept, OriginatesKept
<1>5. GraphInv'
  BY <1>2, <1>4 DEF GraphInv
<1>6. kind' = [b \in Blocks' |-> <<>>] /\ guard' = {}
  BY <1>2 DEF LabelInv, Blocks
<1>7. TypeInv'
  <2>1. n \in 1..MaxBlocks /\ targets \in [Blocks -> Seq(Blocks)] /\ premerge \in [Blocks -> 0..n]
    BY <1>2 DEF TypeInv
  <2>2. header' \in [1..n -> Headers(n) \cup {"none"}]
    <3>1. header \in [1..n -> Headers(n) \cup {"none"}]
      BY <1>2 DEF TypeInv, Blocks
    <3>2. d.header \in Headers(n) \cup {"none"}
      BY <2>1, DeclarationIs
    <3> QED BY <1>1, <3>1, <3>2 DEF Registers
  <2>3. /\ caseHead \in [1..n -> 0..Len(constructs')]
        /\ defaultHead \in [1..n -> 0..Len(constructs')]
    <3>1. /\ caseHead \in [1..n -> 0..Len(constructs)]
          /\ defaultHead \in [1..n -> 0..Len(constructs)]
      BY <1>2 DEF TypeInv, Blocks
    <3>2. /\ Len(constructs') = Len(constructs) + q /\ Len(constructs) \in Nat
      BY <1>1 DEF Registers, Grows, Originates
    <3>3. 0..Len(constructs) \subseteq 0..Len(constructs')
      BY <3>2
    <3> QED BY <3>1, <3>3
  <2>4. enclosing' \in Seq(1..Len(constructs'))
    BY <1>3 DEF IsStack
  <2>5. /\ DOMAIN kind' = Blocks'
        /\ \A b \in Blocks' : DOMAIN kind'[b] \subseteq Blocks'
        /\ \A b \in Blocks' : \A c \in DOMAIN kind'[b] : kind'[b][c] \in EdgeKinds
    BY <1>6
  <2> QED BY <1>2, <1>3, <2>1, <2>2, <2>3, <2>4, <2>5 DEF TypeInv, Blocks
<1>8. \/ Doomed(at + 1, constructs', enclosing')
      \/ /\ Stacked(at + 1, constructs', enclosing')
         /\ Nested(n, constructs', merge', ct', construct')
  <2>1. SUFFICES ASSUME ~ Doomed(at + 1, constructs', enclosing')
                 PROVE  /\ Stacked(at + 1, constructs', enclosing')
                        /\ Nested(n, constructs', merge', ct', construct')
    OBVIOUS
  <2>2. IsStack(constructs, enclosing) /\ constructs \in Seq(Records) /\ Grows(p, q)
    BY <1>1, <1>2 DEF LabelInv, Registers, Originates
  <2>3. ~ Doomed(at, constructs, enclosing)
    BY <1>2, <2>1, <2>2, DoomedKept DEF IsStack
  <2>4. /\ Stacked(at, constructs, enclosing) /\ Nested(n, constructs, merge, ct, construct)
        /\ \A b \in 1..n : construct[b] = 0 <=> b >= at
        /\ construct \in [1..n -> 0..Len(constructs)]
    BY <1>2, <2>3 DEF LabelInv, TypeInv, Blocks
  <2>5. d.merge \in Nat /\ d.ct \in Nat
    BY <1>1 DEF Registers
  <2>6. Labels(d, p, q)
    BY <1>1, <1>2, <2>1, <2>2, <2>4, <2>5 DEF Labels, Registers
  <2> QED BY <2>6, NestingKept
<1>9. LabelInv'
  BY <1>2, <1>3, <1>4, <1>6, <1>8 DEF LabelInv, Blocks
<1>10. (ContinueLeftAtItsEnd /\ NormalEdgesEnterAtHead /\ GuardsAreOfIfs)'
  <2>1. (kind = [b \in Blocks |-> <<>>] /\ guard = {})'
    BY <1>6
  <2> QED BY <2>1, NoEdges, PTL
<1>11. phase' \notin Later
  BY <1>2 DEF Later
<1> QED BY <1>2, <1>5, <1>7, <1>9, <1>10, <1>11 DEF Inv

-----------------------------------------------------------------------------
(* The other passes, but for ClassifyEdges *)

\* A step that leaves the edges alone keeps what is said of them.
LEMMA SameEdges ==
  ASSUME UNCHANGED <<n, header, constructs, construct, kind, guard>>,
         ContinueLeftAtItsEnd, NormalEdgesEnterAtHead, GuardsAreOfIfs
  PROVE  (ContinueLeftAtItsEnd /\ NormalEdgesEnterAtHead /\ GuardsAreOfIfs)'
<1>1. ContinueLeftAtItsEnd'
  BY DEF ContinueLeftAtItsEnd, Holds, Blocks
<1>2. NormalEdgesEnterAtHead'
  BY DEF NormalEdgesEnterAtHead, IsNormal, Encloses, Blocks
<1>3. GuardsAreOfIfs'
  BY DEF GuardsAreOfIfs, Blocks
<1> QED BY <1>1, <1>2, <1>3

\* So does one that leaves the graph alone keep what is said of it.
LEMMA SameGraph ==
  ASSUME UNCHANGED <<n, header, merge, ct, constructs>>, GraphInv
  PROVE  GraphInv'
BY DEF GraphInv

\* To reject the module changes nothing else.
LEMMA RejectKeeps ==
  ASSUME Inv, Reject
  PROVE  Inv'
<1>1. phase' = "rejected" /\ UNCHANGED <<at, graph, found>> /\ Inv
  BY DEF Reject
<1>2. /\ UNCHANGED <<at, n, header, merge, ct, targets, constructs, enclosing, construct>>
      /\ UNCHANGED <<caseHead, defaultHead, kind, guard, premerge>>
  BY <1>1 DEF graph, found
<1>3. TypeInv'
  BY <1>1, <1>2 DEF Inv, TypeInv, Blocks
<1>4. GraphInv' /\ (ContinueLeftAtItsEnd /\ NormalEdgesEnterAtHead /\ GuardsAreOfIfs)'
  BY <1>1, <1>2, SameGraph, SameEdges DEF Inv
<1>5. phase' # "label" /\ phase' \notin Later
  BY <1>1 DEF Later
<1> QED BY <1>3, <1>4, <1>5 DEF Inv

\* A stack of one construct is not doomed, so all is nested after the first pass.
LEMMA EndLabelKeeps ==
  ASSUME Inv, EndLabel
  PROVE  Inv'
<1>1. /\ phase = "label" /\ at = n + 1 /\ Len(enclosing) = 1
      /\ phase' = "cases" /\ at' = 1
      /\ UNCHANGED <<n, header, merge, ct, targets, constructs, enclosing, construct>>
      /\ UNCHANGED <<caseHead, defaultHead, kind, guard, premerge>>
      /\ TypeInv /\ GraphInv /\ LabelInv
  BY DEF EndLabel, graph, found, Inv
<1>2. n \in Nat /\ Len(constructs) \in Nat
  BY <1>1, BoundsOK DEF TypeInv, GraphInv, Originates
<1>3. 1 \in 1..(2 * n + 2) /\ "cases" \in Later /\ 1 <= Len(constructs) + 1
  BY <1>2 DEF Later
<1>4. TypeInv'
  BY <1>1, <1>3 DEF TypeInv, Blocks
<1>5. GraphInv' /\ (ContinueLeftAtItsEnd /\ NormalEdgesEnterAtHead /\ GuardsAreOfIfs)'
  BY <1>1, SameGraph, SameEdges DEF Inv
<1>6. ~ Doomed(at, constructs, enclosing)
  BY <1>1 DEF Doomed
<1>7. Nested(n, constructs, merge, ct, construct)
  BY <1>1, <1>6 DEF LabelInv
<1>8. \A b \in Blocks : construct[b] # 0
  BY <1>1, <1>2 DEF LabelInv, Blocks
<1>9. LaterInv'
  BY <1>1, <1>3, <1>7, <1>8 DEF LaterInv, Blocks
<1>10. phase' # "label"
  BY <1>1
<1> QED BY <1>4, <1>5, <1>9, <1>10 DEF Inv

\* What is known after the first pass.
LEMMA AfterLabel ==
  ASSUME Inv, phase \in Later
  PROVE  /\ n \in Nat /\ Len(constructs) \in Nat /\ at \in Nat
         /\ TypeInv /\ GraphInv /\ LaterInv
  BY BoundsOK DEF Inv, TypeInv, GraphInv, Originates

\* FindCases writes numbers of constructs, and the labels.
LEMMA FindCasesKeeps ==
  ASSUME Inv, NEW c \in 0..MaxCases(n), NEW labels \in [1..(c + 1) -> Blocks], FindCases(labels)
  PROVE  Inv'
<1>1. /\ phase = "cases" /\ phase' = "cases" /\ at <= Len(constructs) /\ at' = at + 1
      /\ targets' = [targets EXCEPT ![constructs[at].begin] = labels]
      /\ defaultHead' = [defaultHead EXCEPT ![labels[1]] = at]
      /\ caseHead' = [b \in Blocks |->
                        IF \E i \in 2..Len(labels) : labels[i] = b THEN at ELSE caseHead[b]]
      /\ UNCHANGED <<n, header, merge, ct, constructs, enclosing, construct>>
      /\ UNCHANGED <<kind, guard, premerge>>
  BY DEF FindCases
<1>2. /\ n \in Nat /\ Len(constructs) \in Nat /\ at \in Nat
      /\ TypeInv /\ GraphInv /\ LaterInv
  BY <1>1, AfterLabel DEF Later
<1>3. c \in Nat
  <2>1. n \in 1..MaxBlocks
    BY <1>2 DEF TypeInv
  <2>2. MaxCases(n) \in Nat
    BY <2>1, BoundsOK
  <2> QED BY <2>2
<1>4. labels \in Seq(Blocks)
  BY <1>3
<1>5. /\ at' \in 1..(2 * n + 2) /\ at' <= Len(constructs) + 1
      /\ at \in 0..Len(constructs)
  BY <1>1, <1>2 DEF TypeInv
<1>6. TypeInv'
  <2>1. targets' \in [Blocks -> Seq(Blocks)]
    BY <1>1, <1>2, <1>4 DEF TypeInv
  <2>2. defaultHead' \in [Blocks -> 0..Len(constructs)]
    BY <1>1, <1>2, <1>5 DEF TypeInv
  <2>3. caseHead' \in [Blocks -> 0..Len(constructs)]
    BY <1>1, <1>2, <1>5 DEF TypeInv
  <2> QED BY <1>1, <1>2, <1>5, <2>1, <2>2, <2>3 DEF TypeInv, Blocks
<1>7. GraphInv' /\ (ContinueLeftAtItsEnd /\ NormalEdgesEnterAtHead /\ GuardsAreOfIfs)'
  BY <1>1, <1>2, SameGraph, SameEdges DEF Inv
<1>8. LaterInv'
  BY <1>1, <1>2, <1>5 DEF LaterInv, Blocks
<1>9. phase' # "label"
  BY <1>1
<1> QED BY <1>6, <1>7, <1>8, <1>9 DEF Inv

\* The other steps of the second pass count.
LEMMA SkipConstructKeeps ==
  ASSUME Inv, SkipConstruct
  PROVE  Inv'
<1>1. /\ phase = "cases" /\ phase' = "cases" /\ at <= Len(constructs) /\ at' = at + 1
      /\ UNCHANGED <<n, header, merge, ct, targets, constructs, enclosing, construct>>
      /\ UNCHANGED <<caseHead, defaultHead, kind, guard, premerge>>
  BY DEF SkipConstruct, graph, found
<1>2. /\ n \in Nat /\ Len(constructs) \in Nat /\ at \in Nat
      /\ TypeInv /\ GraphInv /\ LaterInv
  BY <1>1, AfterLabel DEF Later
<1>3. at' \in 1..(2 * n + 2) /\ at' <= Len(constructs) + 1
  BY <1>1, <1>2 DEF TypeInv
<1>4. TypeInv'
  BY <1>1, <1>2, <1>3 DEF TypeInv, Blocks
<1>5. GraphInv' /\ (ContinueLeftAtItsEnd /\ NormalEdgesEnterAtHead /\ GuardsAreOfIfs)'
  BY <1>1, <1>2, SameGraph, SameEdges DEF Inv
<1>6. LaterInv'
  BY <1>1, <1>2, <1>3 DEF LaterInv, Blocks
<1>7. phase' # "label"
  BY <1>1
<1> QED BY <1>4, <1>5, <1>6, <1>7 DEF Inv

\* No block has its edges when the third pass starts,
LEMMA EndCasesKeeps ==
  ASSUME Inv, EndCases
  PROVE  Inv'
<1>1. /\ phase = "cases" /\ phase' = "edges" /\ at' = 1
      /\ UNCHANGED <<n, header, merge, ct, targets, constructs, enclosing, construct>>
      /\ UNCHANGED <<caseHead, defaultHead, kind, guard, premerge>>
  BY DEF EndCases, graph, found
<1>2. /\ n \in Nat /\ Len(constructs) \in Nat /\ at \in Nat
      /\ TypeInv /\ GraphInv /\ LaterInv
  BY <1>1, AfterLabel DEF Later
<1>3. at' \in 1..(2 * n + 2) /\ at' <= n + 1 /\ "edges" \in Later
  BY <1>1, <1>2 DEF Later
<1>4. TypeInv'
  BY <1>1, <1>2, <1>3 DEF TypeInv, Blocks
<1>5. GraphInv' /\ (ContinueLeftAtItsEnd /\ NormalEdgesEnterAtHead /\ GuardsAreOfIfs)'
  BY <1>1, <1>2, SameGraph, SameEdges DEF Inv
<1>6. \A b \in Blocks : ~ (b < at')
  BY <1>1, <1>2 DEF Blocks
<1>7. LaterInv'
  BY <1>1, <1>2, <1>3, <1>6 DEF LaterInv, Blocks
<1>8. phase' # "label"
  BY <1>1
<1> QED BY <1>4, <1>5, <1>7, <1>8 DEF Inv

\* and all do when it ends.
LEMMA EndEdgesKeeps ==
  ASSUME Inv, EndEdges
  PROVE  Inv'
<1>1. /\ phase = "edges" /\ at = n + 1 /\ phase' = "ifs"
      /\ UNCHANGED <<at, n, header, merge, ct, targets, constructs, enclosing, construct>>
      /\ UNCHANGED <<caseHead, defaultHead, kind, guard, premerge>>
  BY DEF EndEdges, graph, found
<1>2. /\ n \in Nat /\ Len(constructs) \in Nat /\ at \in Nat
      /\ TypeInv /\ GraphInv /\ LaterInv
  BY <1>1, AfterLabel DEF Later
<1>3. "ifs" \in Later
  BY DEF Later
<1>4. TypeInv'
  BY <1>1, <1>2, <1>3 DEF TypeInv, Blocks
<1>5. GraphInv' /\ (ContinueLeftAtItsEnd /\ NormalEdgesEnterAtHead /\ GuardsAreOfIfs)'
  BY <1>1, <1>2, SameGraph, SameEdges DEF Inv
<1>6. \A b \in Blocks : b < at
  BY <1>1, <1>2 DEF Blocks
<1>7. LaterInv'
  BY <1>1, <1>2, <1>6 DEF LaterInv, Blocks
<1>8. phase' # "label"
  BY <1>1
<1> QED BY <1>4, <1>5, <1>7, <1>8 DEF Inv

\* The first clause of an if-selection ends at a block.
LEMMA ClauseEnds ==
  ASSUME Inv, phase = "ifs", NEW b \in Blocks, header[b] = "if", EndFirstClause(b) # 0
  PROVE  EndFirstClause(b) \in Blocks
<1>1. n \in Nat /\ TypeInv /\ LaterInv
  BY AfterLabel DEF Later
<1>2. Len(targets[b]) = 2 /\ targets[b] \in Seq(Blocks)
  BY <1>1 DEF LaterInv, TypeInv
<1>3. targets[b][1] \in Blocks /\ targets[b][2] \in Blocks
  BY <1>2, ElementOfSeq
<1> DEFINE T == {TrueHead(b), FalseHead(b)}
<1>4. /\ TrueHead(b) # 0 /\ FalseHead(b) # 0 /\ TrueHead(b) # FalseHead(b)
      /\ EndFirstClause(b) = Max(T) - 1
  BY DEF EndFirstClause
<1>5. TrueHead(b) \in 1..n /\ FalseHead(b) \in 1..n
  BY <1>3, <1>4 DEF TrueHead, FalseHead, Blocks
<1>6. T \in SUBSET (0..n) /\ T # {}
  BY <1>1, <1>5
<1>7. Max(T) \in T /\ \A y \in T : y <= Max(T)
  BY <1>1, <1>6, Largest
<1>8. Max(T) \in 1..n /\ Max(T) # 1
  BY <1>4, <1>5, <1>7
<1> QED BY <1>1, <1>4, <1>8 DEF Blocks

\* The premerge block of a selection is a block.
LEMMA FindIfHeadersKeeps ==
  ASSUME Inv, FindIfHeaders
  PROVE  Inv'
<1>1. /\ phase = "ifs" /\ phase' = "order"
      /\ premerge' = [b \in Blocks |-> IF header[b] = "if" /\ Premerges(b) # {}
                                       THEN CHOOSE d \in Premerges(b) : TRUE ELSE 0]
      /\ UNCHANGED <<at, n, header, merge, ct, targets, constructs, enclosing, construct>>
      /\ UNCHANGED <<caseHead, defaultHead, kind, guard>>
  BY DEF FindIfHeaders, graph
<1>2. /\ n \in Nat /\ Len(constructs) \in Nat /\ at \in Nat
      /\ TypeInv /\ GraphInv /\ LaterInv
  BY <1>1, AfterLabel DEF Later
<1>3. "order" \in Later
  BY DEF Later
<1>4. ASSUME NEW b \in Blocks, header[b] = "if", NEW d \in Premerges(b)
      PROVE  d \in 0..n
  <2>1. EndFirstClause(b) # 0 /\ d \in DOMAIN kind[EndFirstClause(b)]
    BY <1>4 DEF Premerges
  <2>2. EndFirstClause(b) \in Blocks
    BY <1>1, <1>4, <2>1, ClauseEnds
  <2>3. d \in Blocks
    BY <1>2, <2>1, <2>2 DEF TypeInv
  <2> QED BY <1>2, <2>3 DEF Blocks
<1>5. premerge' \in [Blocks -> 0..n]
  <2>1. 0 \in 0..n
    BY <1>2
  <2> QED BY <1>1, <1>4, <2>1
<1>6. TypeInv'
  BY <1>1, <1>2, <1>3, <1>5 DEF TypeInv, Blocks
<1>7. GraphInv' /\ (ContinueLeftAtItsEnd /\ NormalEdgesEnterAtHead /\ GuardsAreOfIfs)'
  BY <1>1, <1>2, SameGraph, SameEdges DEF Inv
<1>8. LaterInv'
  BY <1>1, <1>2 DEF LaterInv, Blocks
<1>9. phase' # "label"
  BY <1>1
<1> QED BY <1>6, <1>7, <1>8, <1>9 DEF Inv

\* To accept the function changes nothing else.
LEMMA TraverseKeeps ==
  ASSUME Inv, Traverse
  PROVE  Inv'
<1>1. /\ phase = "order" /\ phase' = "accepted"
      /\ UNCHANGED <<at, n, header, merge, ct, targets, constructs, enclosing, construct>>
      /\ UNCHANGED <<caseHead, defaultHead, kind, guard, premerge>>
  BY DEF Traverse, graph, found
<1>2. /\ n \in Nat /\ Len(constructs) \in Nat /\ at \in Nat
      /\ TypeInv /\ GraphInv /\ LaterInv
  BY <1>1, AfterLabel DEF Later
<1>3. "accepted" \in Later
  BY DEF Later
<1>4. TypeInv'
  BY <1>1, <1>2, <1>3 DEF TypeInv, Blocks
<1>5. GraphInv' /\ (ContinueLeftAtItsEnd /\ NormalEdgesEnterAtHead /\ GuardsAreOfIfs)'
  BY <1>1, <1>2, SameGraph, SameEdges DEF Inv
<1>6. LaterInv'
  BY <1>1, <1>2 DEF LaterInv, Blocks
<1>7. phase' # "label"
  BY <1>1
<1> QED BY <1>4, <1>5, <1>6, <1>7 DEF Inv

\* Nor does a stuttering step.
LEMMA StutterKeeps ==
  ASSUME Inv, UNCHANGED vars
  PROVE  Inv'
<1>1. /\ UNCHANGED <<phase, at, n, header, merge, ct, targets, constructs, enclosing, construct>>
      /\ UNCHANGED <<caseHead, defaultHead, kind, guard, premerge>>
  BY DEF vars, graph, found
<1>2. TypeInv'
  BY <1>1 DEF Inv, TypeInv, Blocks
<1>3. GraphInv' /\ (ContinueLeftAtItsEnd /\ NormalEdgesEnterAtHead /\ GuardsAreOfIfs)'
  BY <1>1, SameGraph, SameEdges DEF Inv
<1>4. (phase = "label" => LabelInv)'
  BY <1>1 DEF Inv, LabelInv, Blocks
<1>5. (phase \in Later => LaterInv)'
  BY <1>1 DEF Inv, LaterInv, Blocks, Later
<1> QED BY <1>2, <1>3, <1>4, <1>5 DEF Inv

-----------------------------------------------------------------------------
(* ClassifyEdges *)

\* What the invariant says of the constructs, by number.
LEMMA Known ==
  ASSUME Inv, phase \in Later
  PROVE  /\ n \in Nat /\ n # 0 /\ Blocks = 1..n /\ DOMAIN constructs = 1..Len(constructs)
         /\ Declared(n, n + 1, header, merge, ct)
         /\ Originates(n, constructs, header, merge, ct)
         /\ Nested(n, constructs, merge, ct, construct)
         /\ \A k \in 1..Len(constructs) :
              /\ constructs[k].begin \in 1..n /\ constructs[k].end \in 1..(n + 1)
              /\ constructs[k].begin < constructs[k].end
              /\ k # 1 => constructs[k].end <= n
              /\ Interval(constructs[k])
<1>1. n \in Nat /\ TypeInv /\ GraphInv /\ LaterInv
  BY AfterLabel
<1>2. n # 0 /\ Blocks = 1..n /\ n + 1 \in Nat
  BY <1>1 DEF TypeInv, Blocks
<1>3. /\ Declared(n, n + 1, header, merge, ct)
      /\ Originates(n, constructs, header, merge, ct)
      /\ Nested(n, constructs, merge, ct, construct)
  BY <1>1 DEF GraphInv, LaterInv
<1>4. ASSUME NEW k \in 1..Len(constructs)
      PROVE  /\ constructs[k].begin \in 1..n /\ constructs[k].end \in 1..(n + 1)
             /\ constructs[k].begin < constructs[k].end
             /\ k # 1 => constructs[k].end <= n
  BY <1>1, <1>2, <1>3, Intervals
<1>5. 1..n \subseteq Nat /\ 1..(n + 1) \subseteq Nat
  BY <1>1
<1>6. \A k \in 1..Len(constructs) : Interval(constructs[k])
  BY <1>4, <1>5 DEF Interval
<1>7. DOMAIN constructs = 1..Len(constructs)
  BY <1>3 DEF Originates
<1> QED BY <1>1, <1>2, <1>3, <1>4, <1>6, <1>7

\* The construct of a block holds it, inside of all that do.
LEMMA OwnIs ==
  ASSUME Inv, phase \in Later, NEW b \in Blocks
  PROVE  /\ construct[b] \in 1..Len(constructs) /\ In(constructs, construct[b], b)
         /\ \A k \in 1..Len(constructs) : In(constructs, k, b) => Around(constructs, k, construct[b])
<1>1. TypeInv /\ LaterInv /\ Len(constructs) \in Nat
  BY AfterLabel
<1>2. construct[b] \in 1..Len(constructs) /\ construct[b] # 0
  BY <1>1 DEF TypeInv, LaterInv
<1>3. Located(n, constructs, construct)
  BY Known DEF Nested
<1> QED BY <1>2, <1>3 DEF Located, Blocks

\* A continue construct is that of a loop header.
LEMMA ContinueIs ==
  ASSUME Inv, phase \in Later, NEW k \in 1..Len(constructs), constructs[k].kind = "continue"
  PROVE  /\ HeaderForContinue(constructs[k].begin) \in 1..n
         /\ ct[HeaderForContinue(constructs[k].begin)] = constructs[k].begin
         /\ merge[HeaderForContinue(constructs[k].begin)] = constructs[k].end
<1>1. /\ n \in Nat /\ Declared(n, n + 1, header, merge, ct)
      /\ Originates(n, constructs, header, merge, ct) /\ constructs[k].begin \in 1..n
  BY Known
<1>2. k # 1
  BY <1>1 DEF Originates
<1>3. PICK a \in 1..n : Heads(constructs[k], a, header, merge, ct)
  <2>1. k \in 2..Len(constructs)
    BY <1>1, <1>2 DEF Originates
  <2> QED BY <1>1, <2>1 DEF Originates
<1>4. constructs[k].begin = ct[a] /\ constructs[k].end = merge[a]
  BY <1>3 DEF Heads
<1>5. HeaderForContinue(constructs[k].begin) = a
  <2>1. constructs[k].begin # 0
    BY <1>1
  <2> QED BY <1>1, <1>4, <2>1, ContinueHeader
<1> QED BY <1>4, <1>5

\* Any other construct, but that of the function, starts at its header.
LEMMA SelectionIs ==
  ASSUME Inv, phase \in Later, NEW k \in 1..Len(constructs),
         constructs[k].kind \in {"if", "switch", "loop"}
  PROVE  /\ constructs[k].begin \in 1..n /\ header[constructs[k].begin] = constructs[k].kind
         /\ merge[constructs[k].begin] # 0
<1>1. /\ n \in Nat /\ Declared(n, n + 1, header, merge, ct)
      /\ Originates(n, constructs, header, merge, ct) /\ constructs[k].begin \in 1..n
  BY Known
<1>2. k # 1
  BY <1>1 DEF Originates
<1>3. PICK a \in 1..n : Heads(constructs[k], a, header, merge, ct)
  <2>1. k \in 2..Len(constructs)
    BY <1>1, <1>2 DEF Originates
  <2> QED BY <1>1, <2>1 DEF Originates
<1>4. constructs[k].begin = a /\ header[a] = constructs[k].kind
  BY <1>3 DEF Heads
<1>5. \A x \in 1..n : merge[x] = 0 => header[x] = "none"
  <2> TAKE x \in 1..n
  <2>1. header[x] = "none" \/ x < merge[x] \/ (x <= ct[x] /\ ct[x] < merge[x])
    BY <1>1 DEF Declared
  <2>2. ct[x] \in 0..n
    BY <1>1 DEF Declared
  <2> QED BY <1>1, <2>1, <2>2
<1> QED BY <1>1, <1>4, <1>5

\* Continue constructs around one another do not end at the same block.
LEMMA EndsApart ==
  ASSUME Inv, phase \in Later, NEW j \in 1..Len(constructs), NEW k \in 1..Len(constructs),
         constructs[j].kind = "continue", constructs[k].kind = "continue",
         Around(constructs, k, j), j # k
  PROVE  constructs[j].end < constructs[k].end
<1> DEFINE a == HeaderForContinue(constructs[j].begin)
           c == HeaderForContinue(constructs[k].begin)
<1>1. /\ n \in Nat /\ Declared(n, n + 1, header, merge, ct)
      /\ constructs[j].end \in 1..(n + 1) /\ constructs[k].end \in 1..(n + 1)
      /\ Interval(constructs[j]) /\ Interval(constructs[k])
      /\ Distinct(constructs)
  BY Known DEF Nested
<1>2. /\ a \in 1..n /\ ct[a] = constructs[j].begin /\ merge[a] = constructs[j].end
      /\ c \in 1..n /\ ct[c] = constructs[k].begin /\ merge[c] = constructs[k].end
  BY ContinueIs
<1> HIDE DEF a, c
<1>3. constructs[j].end # constructs[k].end
  <2>1. SUFFICES ASSUME constructs[j].end = constructs[k].end PROVE FALSE
    OBVIOUS
  <2>2. merge[a] = merge[c] /\ merge[a] # 0
    BY <1>1, <1>2, <2>1
  <2>3. a = c
    BY <1>1, <1>2, <2>2 DEF Declared
  <2>4. constructs[j].begin = constructs[k].begin
    BY <1>2, <2>3
  <2>5. Around(constructs, j, k)
    BY <1>1, <2>1, <2>4 DEF Around, Interval
  <2> QED BY <1>1, <2>5 DEF Distinct
<1> QED BY <1>1, <1>3 DEF Around

\* A merge block inside of a continue construct, or its own, is at its end at the
\* latest: that of a header it holds,
LEMMA MergeInside ==
  ASSUME Inv, phase \in Later, NEW k \in 1..Len(constructs), constructs[k].kind = "continue",
         NEW a \in 1..n, In(constructs, k, a), merge[a] # 0
  PROVE  merge[a] <= constructs[k].end
<1>1. MergesInside(n, constructs, merge)
  BY Known DEF Nested
<1> QED BY <1>1 DEF MergesInside

\* and that of what can be left by a break.
LEMMA BreakInside ==
  ASSUME Inv, phase \in Later, NEW k \in 1..Len(constructs), constructs[k].kind = "continue",
         NEW w \in 1..Len(constructs), constructs[w].kind \in Breakable,
         Around(constructs, k, w)
  PROVE  merge[HeaderIfBreakable(w)] <= constructs[k].end
<1>1. /\ n \in Nat /\ Interval(constructs[k]) /\ Interval(constructs[w]) /\ w # 0
      /\ constructs[w].begin \in 1..n /\ constructs[w].begin < constructs[w].end
  BY Known
<1>2. CASE constructs[w].kind = "continue"
  <2>1. HeaderIfBreakable(w) = HeaderForContinue(constructs[w].begin)
    BY <1>1, <1>2 DEF HeaderIfBreakable
  <2>2. merge[HeaderIfBreakable(w)] = constructs[w].end
    BY <1>2, <2>1, ContinueIs
  <2> QED BY <2>2 DEF Around
<1>3. CASE constructs[w].kind \in {"loop", "switch"}
  <2>1. HeaderIfBreakable(w) = constructs[w].begin
    BY <1>1, <1>3 DEF HeaderIfBreakable
  <2>2. merge[constructs[w].begin] # 0
    BY <1>3, SelectionIs
  <2>3. constructs[w].begin \in Nat /\ In(constructs, w, constructs[w].begin)
    BY <1>1 DEF In, Interval
  <2>4. In(constructs, k, constructs[w].begin)
    BY <1>1, <2>3, InAgain
  <2> QED BY <1>1, <2>1, <2>2, <2>4, MergeInside
<1> QED BY <1>2, <1>3 DEF Breakable

\* An if-break goes to the merge block of an if-selection.
LEMMA IfBreakIs ==
  ASSUME Inv, phase \in Later, NEW b \in Blocks, NEW d \in Blocks,
         EdgeKind(b, d) = "if_break"
  PROVE  HeaderForMerge(d) \in Blocks /\ header[HeaderForMerge(d)] = "if"
<1> DEFINE k == construct[b]
           own == constructs[k]
           breaks == HeaderIfBreakable(own.breakable)
<1>1. /\ n \in Nat /\ n # 0 /\ Blocks = 1..n /\ b \in 1..n /\ d \in 1..n
      /\ Declared(n, n + 1, header, merge, ct)
      /\ Originates(n, constructs, header, merge, ct)
      /\ Nested(n, constructs, merge, ct, construct)
  BY Known
<1>2. /\ k \in 1..Len(constructs) /\ In(constructs, k, b)
      /\ \A j \in 1..Len(constructs) : In(constructs, j, b) => Around(constructs, j, k)
  BY OwnIs
<1>3. /\ ~ (d <= b) /\ d = merge[own.begin] /\ ~ (breaks # 0 /\ d = merge[breaks])
  BY DEF EdgeKind
<1>4. /\ own.begin \in 1..n /\ own.end \in 1..(n + 1) /\ own.begin < own.end
      /\ own.kind \in Sorts
  <2>1. own \in Records
    BY <1>1, <1>2, ElementOfSeq DEF Originates
  <2> QED BY <1>2, <2>1, Known DEF Records
<1>5. own.kind \in Breakable => own.breakable = k
  BY <1>1, <1>2 DEF Nested, Fields
<1> HIDE DEF k, own, breaks
<1>6. HeaderForMerge(d) = own.begin
  <2>1. d # 0
    BY <1>1
  <2> QED BY <1>1, <1>3, <1>4, <2>1, MergeHeader
<1>7. own.begin <= b /\ b < merge[own.begin]
  <2>1. own.begin <= b
    BY <1>2 DEF In, own
  <2> QED BY <1>1, <1>3, <2>1
<1>8. PICK j \in 2..Len(constructs) :
        /\ In(constructs, j, b) /\ constructs[j].end <= merge[own.begin]
        /\ Heads(constructs[j], own.begin, header, merge, ct)
  BY <1>1, <1>4, <1>7 DEF Originates
<1>9. /\ j \in 1..Len(constructs) /\ j # 1 /\ constructs[j].begin \in 1..n
      /\ constructs[j].end <= n /\ own.end <= constructs[j].end
  <2>1. j \in 1..Len(constructs) /\ j # 1
    BY <1>8
  <2>2. own.end <= constructs[j].end
    BY <1>2, <1>8, <2>1 DEF Around, own
  <2> QED BY <2>1, <2>2, Known
<1>10. own.kind # "function"
  <2>1. SUFFICES ASSUME own.kind = "function" PROVE FALSE
    OBVIOUS
  <2>2. k = 1
    <3>1. SUFFICES ASSUME k # 1 PROVE FALSE
      OBVIOUS
    <3>2. k \in 2..Len(constructs)
      BY <1>1, <1>2, <3>1 DEF Originates
    <3>3. PICK a \in 1..n : Heads(constructs[k], a, header, merge, ct)
      BY <1>1, <3>2 DEF Originates
    <3> QED BY <2>1, <3>3 DEF Heads, own
  <2>3. own.end = n + 1
    BY <1>1, <2>2 DEF Originates, own
  <2>4. constructs[j].end \in 1..(n + 1)
    BY <1>9, Known
  <2> QED BY <1>1, <1>9, <2>3, <2>4
<1>11. own.kind \notin {"switch", "loop"}
  <2>1. SUFFICES ASSUME own.kind \in {"switch", "loop"} PROVE FALSE
    OBVIOUS
  <2>2. own.breakable = k /\ k # 0
    BY <1>2, <1>5, <2>1 DEF Breakable
  <2>3. breaks = own.begin
    BY <2>1, <2>2 DEF breaks, own, HeaderIfBreakable
  <2>4. own.begin # 0
    BY <1>4
  <2> QED BY <1>3, <2>3, <2>4
<1>12. own.kind # "continue"
  <2>1. SUFFICES ASSUME own.kind = "continue" PROVE FALSE
    OBVIOUS
  <2>2. own.breakable = k /\ k # 0
    BY <1>2, <1>5, <2>1 DEF Breakable
  <2>3. breaks = HeaderForContinue(own.begin)
    BY <2>1, <2>2 DEF breaks, own, HeaderIfBreakable
  <2>4. breaks \in 1..n /\ ct[breaks] = own.begin /\ merge[breaks] = own.end
    BY <1>2, <2>1, <2>3, ContinueIs DEF own
  <2>5. merge[own.begin] <= own.end
    <3>1. In(constructs, k, own.begin)
      BY <1>4 DEF In, own
    <3>2. merge[own.begin] # 0
      BY <1>1, <1>3
    <3> QED BY <1>2, <1>4, <2>1, <3>1, <3>2, MergeInside DEF own
  <2>6. merge[own.begin] = own.end
    <3>1. constructs[j].end \in 1..(n + 1)
      BY <1>9, Known
    <3>2. own.end <= constructs[j].end /\ constructs[j].end <= merge[own.begin]
      BY <1>8, <1>9
    <3>3. merge[own.begin] \in 1..n
      BY <1>1, <1>3
    <3> QED BY <1>1, <1>4, <2>5, <3>1, <3>2, <3>3
  <2>7. d = merge[breaks] /\ breaks # 0
    BY <1>3, <2>4, <2>6
  <2> QED BY <1>3, <2>7
<1>13. own.kind = "if"
  BY <1>4, <1>10, <1>11, <1>12 DEF Sorts
<1>14. header[own.begin] = "if"
  BY <1>2, <1>13, SelectionIs DEF own
<1> QED BY <1>1, <1>4, <1>6, <1>14

\* An edge that leaves a continue construct.
LEMMA LeavesAtEnd ==
  ASSUME Inv, phase \in Later, NEW b \in Blocks, NEW d \in Blocks, EdgeOK(b, d),
         NEW k \in 1..Len(constructs), constructs[k].kind = "continue",
         In(constructs, k, b), ~ In(constructs, k, d)
  PROVE  \/ b = constructs[k].end - 1
         \/ /\ EdgeKind(b, d) = "continue"
            /\ b = constructs[constructs[construct[b]].cont].end - 1
<1> DEFINE own == constructs[construct[b]]
           j == own.cont
<1>1. /\ n \in Nat /\ n # 0 /\ Blocks = 1..n /\ b \in 1..n /\ d \in 1..n /\ b \in Nat /\ d \in Nat
      /\ Declared(n, n + 1, header, merge, ct)
      /\ Nested(n, constructs, merge, ct, construct)
  BY Known
<1>2. /\ construct[b] \in 1..Len(constructs) /\ In(constructs, construct[b], b)
      /\ Around(constructs, k, construct[b])
  BY OwnIs
<1>3. Nearest(constructs, j, construct[b], {"continue"})
  BY <1>1, <1>2 DEF Nested, Fields
<1>4. /\ j # 0 /\ j \in 1..Len(constructs) /\ constructs[j].kind = "continue"
      /\ Around(constructs, j, construct[b]) /\ Around(constructs, k, j)
  BY <1>2, <1>3 DEF Nearest
<1>5. /\ Interval(own) /\ Interval(constructs[j]) /\ Interval(constructs[k])
      /\ own.begin \in 1..n /\ own.begin < own.end
      /\ constructs[j].begin \in 1..n /\ constructs[j].end \in 1..(n + 1)
      /\ constructs[k].end \in 1..(n + 1)
  BY <1>2, <1>4, Known
<1>6. In(constructs, j, b)
  BY <1>1, <1>2, <1>4, <1>5, InAgain
<1>7. CASE EdgeKind(b, d) = "back"
  <2>1. b = constructs[j].end - 1 /\ HeaderForContinue(constructs[j].begin) = d
    BY <1>7 DEF EdgeOK, BackEdgeOK
  <2>2. ct[d] = constructs[j].begin /\ ct[d] # 0
    <3>1. ct[d] = constructs[j].begin
      BY <1>4, <2>1, ContinueIs
    <3>2. constructs[j].begin # 0
      BY <1>1, <1>5
    <3> QED BY <3>1, <3>2
  <2>3. LoopsInside(n, constructs, ct)
    BY <1>1 DEF Nested
  <2>4. k = j
    BY <1>1, <1>4, <2>2, <2>3 DEF LoopsInside
  <2> QED BY <2>1, <2>4
<1>8. CASE EdgeKind(b, d) # "back"
  <2>1. ~ (d <= b)
    BY <1>8 DEF EdgeKind
  <2>2. constructs[k].end <= d
    <3>1. constructs[k].begin <= b /\ (constructs[k].begin <= d => ~ (d < constructs[k].end))
      BY DEF In
    <3>2. constructs[k].begin \in Nat /\ constructs[k].end \in Nat
      BY <1>5 DEF Interval
    <3> QED BY <1>1, <2>1, <3>1, <3>2
  <2>3. ~ In(constructs, j, d)
    BY <1>1, <1>4, InAgain, <1>5
  <2>4. b = constructs[j].end - 1
    <3>1. StaysInContinue(b, d)
      BY <1>8 DEF EdgeOK
    <3>2. Holds(j, b) /\ ~ Holds(j, d)
      BY <1>6, <2>3 DEF Holds, In
    <3> QED BY <1>4, <3>1, <3>2 DEF StaysInContinue
  <2>5. SUFFICES ASSUME k # j, EdgeKind(b, d) # "continue" PROVE FALSE
    BY <2>4
  <2>6. constructs[j].end < constructs[k].end
    BY <1>4, <2>5, EndsApart
  <2>7. ~ (d <= constructs[j].end)
    <3>1. constructs[j].end \in Nat /\ constructs[k].end \in Nat
      BY <1>5 DEF Interval
    <3> HIDE DEF own, j
    <3> QED BY <1>1, <2>2, <2>6, <3>1
  <2>8. EdgeKind(b, d) \notin {"switch_break", "loop_break"}
    <3>1. SUFFICES ASSUME EdgeKind(b, d) \in {"switch_break", "loop_break"} PROVE FALSE
      OBVIOUS
    <3> DEFINE w == own.breakable
    <3>2. HeaderIfBreakable(w) # 0 /\ d = merge[HeaderIfBreakable(w)]
      BY <1>8, <3>1 DEF EdgeKind
    <3>3. w # 0
      BY <3>2 DEF HeaderIfBreakable
    <3>4. Nearest(constructs, w, construct[b], Breakable)
      BY <1>1, <1>2 DEF Nested, Fields
    <3>5. w \in 1..Len(constructs) /\ constructs[w].kind \in Breakable /\ Around(constructs, j, w)
      <4>1. constructs[j].kind \in Breakable
        BY <1>4 DEF Breakable
      <4> QED BY <1>4, <3>3, <3>4, <4>1 DEF Nearest
    <3> HIDE DEF w
    <3>6. merge[HeaderIfBreakable(w)] <= constructs[j].end
      BY <1>4, <3>5, BreakInside
    <3> QED BY <2>7, <3>2, <3>6
  <2>9. EdgeKind(b, d) # "if_break"
    <3>1. SUFFICES ASSUME EdgeKind(b, d) = "if_break" PROVE FALSE
      OBVIOUS
    <3>2. d = merge[own.begin]
      BY <3>1 DEF EdgeKind
    <3>3. own.begin \in Nat /\ In(constructs, construct[b], own.begin)
      BY <1>5 DEF In, Interval
    <3>4. In(constructs, j, own.begin)
      BY <1>4, <1>5, <3>3, InAgain
    <3>5. d <= constructs[j].end
      <4>1. merge[own.begin] # 0
        BY <1>1, <3>2
      <4> QED BY <1>4, <1>5, <3>2, <3>4, <4>1, MergeInside
    <3> QED BY <2>7, <3>5
  <2>10. EdgeKind(b, d) \notin {"forward", "fallthrough"}
    <3>1. SUFFICES ASSUME EdgeKind(b, d) \in {"forward", "fallthrough"} PROVE FALSE
      OBVIOUS
    <3>2. d < own.end
      BY <3>1 DEF EdgeOK, NormalEdgeOK
    <3>3. own.end <= constructs[j].end
      BY <1>4 DEF Around
    <3>4. own.end \in Nat /\ constructs[j].end \in Nat
      BY <1>5 DEF Interval
    <3> HIDE DEF own, j
    <3> QED BY <1>1, <2>7, <3>2, <3>3, <3>4
  <2> QED BY <1>8, <2>5, <2>8, <2>9, <2>10 DEF EdgeKind
<1> QED BY <1>7, <1>8

\* A normal edge.
LEMMA EntersAtHead ==
  ASSUME Inv, phase \in Later, NEW b \in Blocks, NEW d \in Blocks, EdgeOK(b, d),
         EdgeKind(b, d) \in {"forward", "fallthrough"}, construct[b] # construct[d]
  PROVE  d = constructs[construct[d]].begin /\ Encloses(construct[b], construct[d])
<1> DEFINE own == constructs[construct[b]]
           dest == constructs[construct[d]]
<1>1. n \in Nat /\ Blocks = 1..n /\ b \in Nat /\ d \in Nat /\ Distinct(constructs)
  BY Known DEF Nested
<1>2. ~ (d <= b) /\ d < own.end /\ (d = dest.begin \/ Holds(construct[d], b))
  BY DEF EdgeOK, NormalEdgeOK, EdgeKind
<1>3. /\ construct[b] \in 1..Len(constructs) /\ In(constructs, construct[b], b)
      /\ \A k \in 1..Len(constructs) : In(constructs, k, b) => Around(constructs, k, construct[b])
  BY OwnIs
<1>4. /\ construct[d] \in 1..Len(constructs) /\ In(constructs, construct[d], d)
      /\ \A k \in 1..Len(constructs) : In(constructs, k, d) => Around(constructs, k, construct[d])
  BY OwnIs
<1>5. own.begin \in Nat
  BY <1>3, Known DEF Interval
<1>6. In(constructs, construct[b], d)
  BY <1>1, <1>2, <1>3, <1>5 DEF In
<1>7. Around(constructs, construct[b], construct[d])
  BY <1>3, <1>4, <1>6
<1>8. ~ Holds(construct[d], b)
  <2>1. SUFFICES ASSUME Holds(construct[d], b) PROVE FALSE
    OBVIOUS
  <2>2. In(constructs, construct[d], b)
    BY <2>1 DEF Holds, In
  <2>3. Around(constructs, construct[d], construct[b])
    BY <1>3, <1>4, <2>2
  <2> QED BY <1>1, <1>3, <1>4, <1>7, <2>3 DEF Distinct
<1> QED BY <1>2, <1>7, <1>8 DEF Around, Encloses

\* The blocks that are labels of a terminator.
LEMMA LabelsAre ==
  ASSUME Inv, phase \in Later, NEW b \in Blocks, NEW ds \in SUBSET Blocks,
         NEW labels \in Terminators(b, ds)
  PROVE  /\ labels \in Seq(Blocks) /\ ToSet(labels) \subseteq Blocks
         /\ header[b] = "if" => Len(labels) = 2
<1>1. /\ targets \in [Blocks -> Seq(Blocks)]
      /\ header[b] \in {"none", "if", "switch", "loop"}
  BY AfterLabel, Known DEF TypeInv, Declared
<1>2. /\ \A s \in [1..1 -> ds] : s \in Seq(ds)
      /\ \A s \in [1..2 -> ds] : s \in Seq(ds) /\ Len(s) = 2
      /\ <<>> \in Seq(ds)
  <2>1. \A m \in Nat : \A s \in [1..m -> ds] : s \in Seq(ds)
    OBVIOUS
  <2>2. \A s \in [1..2 -> ds] : s \in Seq(ds) /\ DOMAIN s = 1..2
    BY <2>1
  <2>3. \A s \in Seq(ds) : DOMAIN s = 1..2 => Len(s) = 2
    <3> TAKE s \in Seq(ds)
    <3>1. Len(s) \in Nat /\ DOMAIN s = 1..Len(s)
      OBVIOUS
    <3>2. SUFFICES ASSUME 1..Len(s) = 1..2 PROVE Len(s) = 2
      BY <3>1
    <3>3. 2 \in 1..Len(s)
      BY <3>2
    <3>4. Len(s) \in 1..2
      BY <3>1, <3>2, <3>3
    <3> QED BY <3>1, <3>3, <3>4
  <2>4. <<>> \in Seq(ds)
    OBVIOUS
  <2> QED BY <2>1, <2>2, <2>3, <2>4
<1>3. \A s \in Seq(ds) : s \in Seq(Blocks)
  BY SeqMonotonic
<1>4. labels \in Seq(Blocks) /\ (header[b] = "if" => Len(labels) = 2)
  <2>1. CASE header[b] = "if"
    BY <1>2, <1>3, <2>1 DEF Terminators
  <2>2. CASE header[b] = "switch"
    BY <1>1, <2>2 DEF Terminators
  <2>3. CASE header[b] = "loop"
    BY <1>2, <1>3, <2>3 DEF Terminators
  <2>4. CASE header[b] = "none"
    BY <1>2, <1>3, <2>4 DEF Terminators
  <2> QED BY <1>1, <2>1, <2>2, <2>3, <2>4
<1>5. ToSet(labels) \subseteq Blocks
  BY <1>4, ElementOfSeq DEF ToSet
<1> QED BY <1>4, <1>5

\* The step of the pass: the edges of block b that it classifies.
LEMMA EdgesAreKept ==
  ASSUME Inv, phase \in Later, at \in Blocks, NEW ds \in SUBSET Blocks,
         \A d \in ds : EdgeOK(at, d),
         UNCHANGED <<n, header, constructs, construct>>,
         kind' = [kind EXCEPT ![at] = [d \in ds |-> EdgeKind(at, d)]],
         guard' = guard \cup GuardedHeaders(at, ds)
  PROVE  (ContinueLeftAtItsEnd /\ NormalEdgesEnterAtHead /\ GuardsAreOfIfs)'
<1>1. /\ Blocks = 1..n /\ Blocks' = Blocks /\ DOMAIN constructs = 1..Len(constructs)
      /\ header' = header /\ constructs' = constructs /\ construct' = construct
  BY Known DEF Blocks
<1>2. DOMAIN kind = Blocks
  BY AfterLabel DEF TypeInv
<1>3. /\ kind'[at] = [d \in ds |-> EdgeKind(at, d)]
      /\ \A b \in Blocks : b # at => kind'[b] = kind[b]
  BY <1>2
<1>4. /\ DOMAIN kind'[at] = ds /\ \A d \in ds : kind'[at][d] = EdgeKind(at, d)
  BY <1>3
<1>5. ContinueLeftAtItsEnd'
  <2> DEFINE Left(k, b, d) == \/ b = constructs[k].end - 1
                              \/ /\ kind'[b][d] = "continue"
                                 /\ b = constructs[constructs[construct[b]].cont].end - 1
  <2>4. ASSUME \A k \in DOMAIN constructs : \A b \in Blocks : \A d \in DOMAIN kind'[b] :
                 constructs[k].kind = "continue" /\ Holds(k, b) /\ ~ Holds(k, d) => Left(k, b, d)
        PROVE  ContinueLeftAtItsEnd'
    <3> SUFFICES ASSUME NEW k \in DOMAIN constructs', constructs'[k].kind = "continue",
                        NEW b \in Blocks', NEW d \in DOMAIN kind'[b],
                        Holds(k, b)', ~ Holds(k, d)'
                 PROVE  \/ b = constructs'[k].end - 1
                        \/ /\ kind'[b][d] = "continue"
                           /\ b = constructs'[constructs'[construct'[b]].cont].end - 1
      BY DEF ContinueLeftAtItsEnd
    <3>1. k \in DOMAIN constructs /\ constructs[k].kind = "continue" /\ b \in Blocks
      BY <1>1
    <3>2. Holds(k, b) /\ ~ Holds(k, d)
      BY <1>1 DEF Holds
    <3>3. Left(k, b, d)
      BY <2>4, <3>1, <3>2
    <3> QED BY <1>1, <3>3
  <2>1. SUFFICES ASSUME NEW k \in DOMAIN constructs, NEW b \in Blocks, NEW d \in DOMAIN kind'[b],
                        constructs[k].kind = "continue", Holds(k, b), ~ Holds(k, d)
                 PROVE  Left(k, b, d)
    BY <2>4
  <2>2. CASE b = at
    <3>1. d \in Blocks /\ EdgeOK(b, d) /\ kind'[b][d] = EdgeKind(b, d)
      BY <1>4, <2>1, <2>2
    <3>2. In(constructs, k, b) /\ ~ In(constructs, k, d) /\ k \in 1..Len(constructs)
      BY <1>1, <2>1 DEF Holds, In
    <3> QED BY <2>1, <3>1, <3>2, LeavesAtEnd
  <2>3. CASE b # at
    <3>1. kind'[b] = kind[b] /\ ContinueLeftAtItsEnd
      BY <1>3, <2>3 DEF Inv
    <3> QED BY <2>1, <3>1 DEF ContinueLeftAtItsEnd
  <2> QED BY <2>2, <2>3
<1>6. NormalEdgesEnterAtHead'
  <2>1. SUFFICES ASSUME NEW b \in Blocks, NEW d \in DOMAIN kind'[b],
                        kind'[b][d] \in {"forward", "fallthrough"},
                        construct[b] # construct[d]
                 PROVE  d = constructs[construct[d]].begin /\ Encloses(construct[b], construct[d])
    <3> SUFFICES ASSUME NEW b \in Blocks', NEW d \in DOMAIN kind'[b],
                        IsNormal(b, d)', construct'[b] # construct'[d]
                 PROVE  /\ d = constructs'[construct'[d]].begin
                        /\ Encloses(construct[b], construct[d])'
      BY DEF NormalEdgesEnterAtHead
    <3>1. /\ b \in Blocks /\ kind'[b][d] \in {"forward", "fallthrough"}
          /\ construct[b] # construct[d]
      BY <1>1 DEF IsNormal
    <3>2. d = constructs[construct[d]].begin /\ Encloses(construct[b], construct[d])
      BY <2>1, <3>1
    <3> QED BY <1>1, <3>2 DEF Encloses
  <2>2. CASE b = at
    <3>1. d \in Blocks /\ EdgeOK(b, d) /\ kind'[b][d] = EdgeKind(b, d)
      BY <1>4, <2>1, <2>2
    <3> QED BY <2>1, <3>1, EntersAtHead
  <2>3. CASE b # at
    <3>1. kind'[b] = kind[b] /\ NormalEdgesEnterAtHead
      BY <1>3, <2>3 DEF Inv
    <3> QED BY <2>1, <3>1 DEF NormalEdgesEnterAtHead, IsNormal
  <2> QED BY <2>2, <2>3
<1>7. GuardsAreOfIfs'
  <2>1. \A h \in guard : h \in Blocks /\ header[h] = "if"
    BY DEF Inv, GuardsAreOfIfs
  <2>2. \A h \in GuardedHeaders(at, ds) : h \in Blocks /\ header[h] = "if"
    <3> TAKE h \in GuardedHeaders(at, ds)
    <3>1. PICK d \in IfBreaks(at, ds) : h = HeaderForMerge(d)
      BY DEF GuardedHeaders
    <3>2. d \in Blocks /\ EdgeKind(at, d) = "if_break"
      BY DEF IfBreaks
    <3> QED BY <3>1, <3>2, IfBreakIs
  <2> QED BY <1>1, <2>1, <2>2 DEF GuardsAreOfIfs
<1> QED BY <1>5, <1>6, <1>7

\* ClassifyEdges keeps the invariant.
LEMMA ClassifyEdgesKeeps ==
  ASSUME Inv, phase = "edges", at \in Blocks,
         NEW labels \in Terminators(at, {d \in Blocks : EdgeOK(at, d)}),
         ClassifyEdges(labels)
  PROVE  Inv'
<1> DEFINE ds == ToSet(labels)
<1>1. /\ phase' = "edges" /\ at' = at + 1 /\ EdgesOK(at, ds)
      /\ targets' = [targets EXCEPT ![at] = labels]
      /\ kind' = [kind EXCEPT ![at] = [d \in ds |-> EdgeKind(at, d)]]
      /\ guard' = guard \cup GuardedHeaders(at, ds)
      /\ UNCHANGED <<n, header, merge, ct, constructs, enclosing, construct>>
      /\ UNCHANGED <<caseHead, defaultHead, premerge>>
  BY DEF ClassifyEdges
<1>2. /\ phase \in Later /\ n \in Nat /\ at \in Nat /\ Blocks = 1..n
      /\ TypeInv /\ GraphInv /\ LaterInv
  BY AfterLabel DEF Later, Blocks
<1>3. labels \in Seq(Blocks) /\ ds \in SUBSET Blocks /\ (header[at] = "if" => Len(labels) = 2)
  BY <1>2, LabelsAre
<1>4. \A d \in ds : EdgeOK(at, d)
  BY <1>1 DEF EdgesOK
<1> HIDE DEF ds
<1>5. (ContinueLeftAtItsEnd /\ NormalEdgesEnterAtHead /\ GuardsAreOfIfs)'
  BY <1>1, <1>2, <1>3, <1>4, EdgesAreKept
<1>6. at' \in 1..(2 * n + 2) /\ at' <= n + 1
  BY <1>1, <1>2
<1>7. TypeInv'
  <2>1. targets' \in [Blocks -> Seq(Blocks)]
    BY <1>1, <1>2, <1>3 DEF TypeInv
  <2>2. DOMAIN kind = Blocks /\ Blocks' = Blocks
    BY <1>1, <1>2 DEF TypeInv, Blocks
  <2>3. /\ DOMAIN kind' = Blocks'
        /\ kind'[at] = [d \in ds |-> EdgeKind(at, d)]
        /\ \A b \in Blocks : b # at => kind'[b] = kind[b]
    BY <1>1, <2>2
  <2>4. \A b \in Blocks' : DOMAIN kind'[b] \subseteq Blocks'
    <3>1. \A b \in Blocks : DOMAIN kind[b] \subseteq Blocks
      BY <1>2 DEF TypeInv
    <3> QED BY <1>3, <2>2, <2>3, <3>1
  <2>5. \A b \in Blocks' : \A d \in DOMAIN kind'[b] : kind'[b][d] \in EdgeKinds
    <3>1. \A b \in Blocks : \A d \in DOMAIN kind[b] : kind[b][d] \in EdgeKinds
      BY <1>2 DEF TypeInv
    <3>2. \A d : EdgeKind(at, d) \in EdgeKinds
      BY DEF EdgeKind, EdgeKinds
    <3>3. \A d \in DOMAIN kind'[at] : kind'[at][d] \in EdgeKinds
      BY <2>3, <3>2
    <3> QED BY <2>2, <2>3, <3>1, <3>3
  <2>6. /\ n' = n /\ constructs' = constructs /\ Blocks' = Blocks
        /\ header' = header /\ enclosing' = enclosing /\ construct' = construct
        /\ caseHead' = caseHead /\ defaultHead' = defaultHead /\ premerge' = premerge
    BY <1>1, <2>2
  <2>7. phase' \in {"label", "rejected"} \cup Later
    BY <1>1 DEF Later
  <2> HIDE DEF ds
  <2> QED BY <1>2, <1>6, <2>1, <2>3, <2>4, <2>5, <2>6, <2>7 DEF TypeInv
<1>8. GraphInv'
  BY <1>1, <1>2, SameGraph
<1>9. LaterInv'
  <2>1. \A b \in Blocks : header[b] = "if" /\ b < at => Len(targets[b]) = 2
    BY <1>2 DEF LaterInv
  <2>2. /\ targets'[at] = labels
        /\ \A b \in Blocks : b # at => targets'[b] = targets[b]
    BY <1>1, <1>2 DEF TypeInv
  <2>3. \A b \in Blocks : header[b] = "if" /\ b < at + 1 => Len(targets'[b]) = 2
    <3> TAKE b \in Blocks
    <3>1. b < at + 1 => b < at \/ b = at
      BY <1>2
    <3> QED BY <1>3, <2>1, <2>2, <3>1
  <2>4. /\ Nested(n, constructs, merge, ct, construct) /\ \A b \in Blocks : construct[b] # 0
    BY <1>2 DEF LaterInv
  <2> QED BY <1>1, <1>6, <2>3, <2>4 DEF LaterInv, Blocks
<1>10. phase' # "label"
  BY <1>1
<1> QED BY <1>5, <1>7, <1>8, <1>9, <1>10 DEF Inv

-----------------------------------------------------------------------------
(* The theorems *)

\* The construct of the function alone is nested.
LEMMA InitHolds ==
  ASSUME Init
  PROVE  Inv
<1> DEFINE f == [kind |-> "function", begin |-> 1, end |-> n + 1, depth |-> 0,
                 parent |-> 0, loop |-> 0, cont |-> 0, breakable |-> 0]
<1>1. /\ n \in 1..MaxBlocks /\ n \in Nat /\ n # 0
      /\ phase = "label" /\ at = 1
      /\ header = [b \in Blocks |-> "none"]
      /\ merge = [b \in Blocks |-> 0] /\ ct = [b \in Blocks |-> 0]
      /\ targets = [b \in Blocks |-> <<>>]
      /\ constructs = <<f>> /\ enclosing = <<1>>
      /\ construct = [b \in Blocks |-> 0]
      /\ caseHead = [b \in Blocks |-> 0] /\ defaultHead = [b \in Blocks |-> 0]
      /\ kind = [b \in Blocks |-> <<>>] /\ guard = {}
      /\ premerge = [b \in Blocks |-> 0]
  BY BoundsOK DEF Init
<1>2. /\ f \in Records /\ f.kind = "function" /\ f.begin = 1 /\ f.end = n + 1
      /\ f.parent = 0 /\ f.loop = 0 /\ f.cont = 0 /\ f.breakable = 0
  <2>1. "function" \in Sorts /\ n + 1 \in Nat
    BY <1>1 DEF Sorts
  <2> QED BY <2>1 DEF Records
<1> HIDE DEF f
<1>3. constructs \in Seq(Records) /\ Len(constructs) = 1 /\ constructs[1] = f
  BY <1>1, <1>2, Pair
<1>4. /\ enclosing \in Seq(1..Len(constructs)) /\ Len(enclosing) = 1 /\ enclosing[1] = 1
  <2>1. 1 \in 1..Len(constructs)
    BY <1>3
  <2> QED BY <1>1, <2>1, Pair
<1>5. \A k \in 1..Len(constructs) : k = 1 /\ constructs[k] = f
  BY <1>3
<1>6. TypeInv
  <2>1. /\ header \in [Blocks -> Headers(n) \cup {"none"}]
        /\ targets \in [Blocks -> Seq(Blocks)]
        /\ construct \in [Blocks -> 0..Len(constructs)]
        /\ caseHead \in [Blocks -> 0..Len(constructs)]
        /\ defaultHead \in [Blocks -> 0..Len(constructs)]
        /\ premerge \in [Blocks -> 0..n]
    BY <1>1, <1>3
  <2>2. \A k \in 1..Len(constructs) :
          {constructs[k].parent, constructs[k].loop, constructs[k].cont,
           constructs[k].breakable} \subseteq 0..Len(constructs)
    BY <1>2, <1>3, <1>5
  <2>3. /\ DOMAIN kind = Blocks
        /\ \A b \in Blocks : DOMAIN kind[b] \subseteq Blocks
        /\ \A b \in Blocks : \A d \in DOMAIN kind[b] : kind[b][d] \in EdgeKinds
    BY <1>1
  <2>4. at \in 1..(2 * n + 2) /\ Len(constructs) <= 2 * n + 1
    BY <1>1, <1>3
  <2> QED BY <1>1, <1>4, <2>1, <2>2, <2>3, <2>4 DEF TypeInv
<1>7. Declared(n, 1, header, merge, ct) /\ Declared(n, n + 1, header, merge, ct)
  <2>1. /\ header \in [1..n -> {"none", "if", "switch", "loop"}]
        /\ merge \in [1..n -> 0..n] /\ ct \in [1..n -> 0..n]
        /\ \A b \in 1..n : header[b] = "none" /\ merge[b] = 0 /\ ct[b] = 0
    BY <1>1 DEF Blocks
  <2> QED BY <2>1 DEF Declared
<1>8. Originates(n, constructs, header, merge, ct)
  <2>1. \A a \in 1..n : merge[a] = 0
    BY <1>1 DEF Blocks
  <2>2. \A a, b \in 1..n : ~ (a <= b /\ b < merge[a])
    BY <1>1, <2>1
  <2>3. \A k \in 2..Len(constructs) : FALSE
    BY <1>3
  <2> QED BY <1>2, <1>3, <2>2, <2>3 DEF Originates
<1>9. Nested(n, constructs, merge, ct, construct)
  <2>1. Fields(constructs)
    <3>1. f.kind \notin {"loop", "continue"} /\ f.kind \notin Breakable
      BY <1>2 DEF Breakable
    <3> QED BY <1>2, <1>3, <1>5, <3>1 DEF Fields, Nearest
  <2>2. Located(n, constructs, construct)
    BY <1>1 DEF Located, Blocks
  <2>3. Distinct(constructs)
    BY <1>5 DEF Distinct
  <2>4. LoopsInside(n, constructs, ct) /\ MergesInside(n, constructs, merge)
    BY <1>1 DEF LoopsInside, MergesInside, Blocks
  <2> QED BY <2>1, <2>2, <2>3, <2>4 DEF Nested
<1>10. Stacked(1, constructs, enclosing)
  <2>1. \A i \in 1..Len(enclosing) : i = 1
    BY <1>4
  <2>2. \A i \in 1..Len(enclosing) : \A j \in (i + 1)..Len(enclosing) : FALSE
    BY <1>4
  <2>3. \A i \in 2..Len(enclosing) : FALSE
    BY <1>4
  <2>4. \A k \in 1..Len(constructs) : \E i \in 1..Len(enclosing) : enclosing[i] = k
    BY <1>4, <1>5
  <2> QED BY <2>2, <2>3, <2>4 DEF Stacked
<1>11. LabelInv
  <2>1. at <= n + 1 /\ Len(constructs) <= 2 * at - 1
    BY <1>1, <1>3
  <2>2. IsStack(constructs, enclosing)
    BY <1>4 DEF IsStack
  <2>3. \A b \in Blocks : construct[b] = 0 <=> b >= at
    BY <1>1 DEF Blocks
  <2> QED BY <1>1, <1>7, <1>9, <1>10, <2>1, <2>2, <2>3 DEF LabelInv
<1>12. phase \notin Later
  BY <1>1 DEF Later
<1>13. ContinueLeftAtItsEnd /\ NormalEdgesEnterAtHead /\ GuardsAreOfIfs
  BY <1>1, NoEdges
<1> QED BY <1>6, <1>7, <1>8, <1>11, <1>12, <1>13 DEF Inv, GraphInv

\* One step of any pass keeps the invariant.
LEMMA NextKeeps ==
  ASSUME Inv, [Analyse]_vars
  PROVE  Inv'
<1>1. CASE LabelStep
  <2>1. CASE \E d \in Declarations : LabelBlock(d)
    BY <2>1, LabelBlockKeeps
  <2>2. CASE \E d \in Declarations : RejectDeclaration(d)
    BY <2>2, RejectKeeps DEF RejectDeclaration
  <2>3. CASE EndLabel
    BY <2>3, EndLabelKeeps
  <2>4. CASE RejectUnbalanced
    BY <2>4, RejectKeeps DEF RejectUnbalanced
  <2> QED BY <1>1, <2>1, <2>2, <2>3, <2>4 DEF LabelStep
<1>2. CASE CasesStep
  <2>1. CASE \E c \in 0..MaxCases(n) : \E labels \in [1..(c + 1) -> Blocks] : FindCases(labels)
    BY <2>1, FindCasesKeeps
  <2>2. CASE \E c \in 0..MaxCases(n) : \E labels \in [1..(c + 1) -> Blocks] : RejectCases(labels)
    BY <2>2, RejectKeeps DEF RejectCases
  <2>3. CASE SkipConstruct
    BY <2>3, SkipConstructKeeps
  <2>4. CASE EndCases
    BY <2>4, EndCasesKeeps
  <2> QED BY <1>2, <2>1, <2>2, <2>3, <2>4 DEF CasesStep
<1>3. CASE EdgesStep
  <2>1. CASE phase = "edges" /\ at \in Blocks /\
               \E labels \in Terminators(at, {d \in Blocks : EdgeOK(at, d)}) : ClassifyEdges(labels)
    BY <2>1, ClassifyEdgesKeeps
  <2>2. CASE RejectEdges
    BY <2>2, RejectKeeps DEF RejectEdges
  <2>3. CASE EndEdges
    BY <2>3, EndEdgesKeeps
  <2> QED BY <1>3, <2>1, <2>2, <2>3 DEF EdgesStep
<1>4. CASE FindIfHeaders
  BY <1>4, FindIfHeadersKeeps
<1>5. CASE RejectIfHeaders
  BY <1>5, RejectKeeps DEF RejectIfHeaders
<1>6. CASE Traverse
  BY <1>6, TraverseKeeps
<1>7. CASE UNCHANGED vars
  BY <1>7, StutterKeeps
<1> QED BY <1>1, <1>2, <1>3, <1>4, <1>5, <1>6, <1>7 DEF Analyse

\* So it holds in all states.
LEMMA SpecHolds == Spec => []Inv
<1>1. Init => Inv
  BY InitHolds
<1>2. Inv /\ [Analyse]_vars => Inv'
  BY NextKeeps
<1> QED BY <1>1, <1>2, PTL DEF Spec

\* The invariant says the types of the state.
LEMMA InvTypes ==
  ASSUME Inv
  PROVE  TypeOK
<1>1. TypeInv /\ GraphInv /\ GuardsAreOfIfs
  BY DEF Inv
<1>2. /\ n \in Nat /\ n # 0 /\ Blocks = 1..n
      /\ Declared(n, n + 1, header, merge, ct) /\ Originates(n, constructs, header, merge, ct)
  BY <1>1, BoundsOK DEF TypeInv, GraphInv, Blocks
<1>3. merge \in [Blocks -> 0..n] /\ ct \in [Blocks -> 0..n]
  BY <1>2 DEF Declared
<1>4. \A b \in Blocks : ToSet(targets[b]) \subseteq Blocks
  <2> TAKE b \in Blocks
  <2>1. targets[b] \in Seq(Blocks)
    BY <1>1 DEF TypeInv
  <2> QED BY <2>1, ElementOfSeq DEF ToSet
<1>5. DOMAIN constructs = 1..Len(constructs)
  BY <1>2 DEF Originates
<1>6. \A k \in 1..Len(constructs) : constructs[k].begin \in Blocks /\ constructs[k].end \in 2..(n + 1)
  <2> TAKE k \in 1..Len(constructs)
  <2>1. /\ constructs[k].begin \in 1..n /\ constructs[k].end \in 1..(n + 1)
        /\ constructs[k].begin < constructs[k].end
    <3>1. n + 1 \in Nat
      BY <1>2
    <3> QED BY <1>2, <3>1, Intervals
  <2> QED BY <1>2, <2>1
<1>7. ToSet(enclosing) \subseteq DOMAIN constructs
  <2>1. enclosing \in Seq(1..Len(constructs))
    BY <1>1 DEF TypeInv
  <2> QED BY <1>5, <2>1, ElementOfSeq DEF ToSet
<1>8. guard \subseteq Blocks
  BY <1>1 DEF GuardsAreOfIfs
<1>9. phase \in {"label", "cases", "edges", "ifs", "order", "accepted", "rejected"}
  BY <1>1 DEF TypeInv, Later
<1> QED BY <1>1, <1>3, <1>4, <1>5, <1>6, <1>7, <1>8, <1>9 DEF TypeInv, TypeOK

\* The nearest construct of a sort around the construct of a block is the nearest
\* one that holds the block.
LEMMA NearestIsInnermost ==
  ASSUME Inv, phase \in Later, NEW b \in Blocks, NEW f, NEW sorts,
         Nearest(constructs, f, construct[b], sorts)
  PROVE  IsInnermost(f, b, sorts)
<1>1. DOMAIN constructs = 1..Len(constructs) /\ b \in Nat
  BY Known
<1>2. /\ construct[b] \in 1..Len(constructs) /\ In(constructs, construct[b], b)
      /\ \A k \in 1..Len(constructs) : In(constructs, k, b) => Around(constructs, k, construct[b])
  BY OwnIs
<1>3. \A k \in 1..Len(constructs) : Holds(k, b) <=> In(constructs, k, b)
  BY DEF Holds, In
<1>4. CASE f = 0
  <2>1. \A k \in 1..Len(constructs) : constructs[k].kind \in sorts => ~ In(constructs, k, b)
    BY <1>2, <1>4 DEF Nearest
  <2> QED BY <1>1, <1>3, <1>4, <2>1 DEF IsInnermost, Holding
<1>5. CASE f # 0
  <2>1. /\ f \in 1..Len(constructs) /\ constructs[f].kind \in sorts
        /\ Around(constructs, f, construct[b])
        /\ \A j \in 1..Len(constructs) : constructs[j].kind \in sorts /\ Around(constructs, j, construct[b])
             => Around(constructs, j, f)
    BY <1>5 DEF Nearest
  <2>2. In(constructs, f, b)
    <3>1. Interval(constructs[f]) /\ Interval(constructs[construct[b]])
      BY <1>2, <2>1, Known
    <3> QED BY <1>1, <1>2, <2>1, <3>1, InAgain
  <2>3. f \in Holding(b, sorts)
    BY <1>1, <1>3, <2>1, <2>2 DEF Holding
  <2>4. ASSUME NEW j \in Holding(b, sorts) PROVE Encloses(j, f)
    <3>1. j \in 1..Len(constructs) /\ In(constructs, j, b) /\ constructs[j].kind \in sorts
      BY <1>1, <1>3 DEF Holding
    <3> QED BY <1>2, <2>1, <3>1 DEF Encloses, Around
  <2> QED BY <1>5, <2>3, <2>4 DEF IsInnermost
<1> QED BY <1>4, <1>5

\* The invariant says that the nesting is exact.
LEMMA InvNests ==
  ASSUME Inv
  PROVE  NestingIsExact
<1>1. SUFFICES ASSUME phase \in Later, NEW b \in Blocks
               PROVE  LET own == constructs[construct[b]]
                      IN  /\ Holds(construct[b], b)
                          /\ IsInnermost(own.loop, b, {"loop"})
                          /\ IsInnermost(own.cont, b, {"continue"})
                          /\ IsInnermost(own.breakable, b, {"loop", "continue", "switch"})
                          /\ \A k \in DOMAIN constructs : Holds(k, b) => Encloses(k, construct[b])
  BY DEF NestingIsExact, Later
<1>2. /\ construct[b] \in 1..Len(constructs) /\ In(constructs, construct[b], b)
      /\ \A k \in 1..Len(constructs) : In(constructs, k, b) => Around(constructs, k, construct[b])
  BY <1>1, OwnIs
<1>3. Fields(constructs) /\ DOMAIN constructs = 1..Len(constructs)
  BY <1>1, Known DEF Nested
<1>4. /\ Nearest(constructs, constructs[construct[b]].loop, construct[b], {"loop"})
      /\ Nearest(constructs, constructs[construct[b]].cont, construct[b], {"continue"})
      /\ Nearest(constructs, constructs[construct[b]].breakable, construct[b], Breakable)
  BY <1>2, <1>3 DEF Fields
<1>5. /\ IsInnermost(constructs[construct[b]].loop, b, {"loop"})
      /\ IsInnermost(constructs[construct[b]].cont, b, {"continue"})
      /\ IsInnermost(constructs[construct[b]].breakable, b, Breakable)
  BY <1>1, <1>4, NearestIsInnermost
<1>6. /\ Holds(construct[b], b)
      /\ \A k \in DOMAIN constructs : Holds(k, b) => Encloses(k, construct[b])
  BY <1>2, <1>3 DEF Holds, In, Encloses, Around
<1> QED BY <1>5, <1>6 DEF Breakable

\* The state of the analysis has its types: the constructs are intervals of
\* blocks, and the numbers of constructs and blocks that LabelControlFlowConstructs
\* and the passes after it record are those of constructs and blocks.
THEOREM TypeCorrect == Spec => []TypeOK
<1>1. Inv => TypeOK
  BY InvTypes
<1> QED BY <1>1, SpecHolds, PTL

\* What the constructor of Construct computes from depths is the nesting, once
\* LabelControlFlowConstructs has gone through: the enclosing loop, continue
\* construct and breakable construct of a block are the innermost that hold it,
\* although a loop is pushed over its continue construct as its sibling, and
\* although the merge and continue blocks of the headers may be out of step.
THEOREM NestingIsRight == Spec => []NestingIsExact
<1>1. Inv => NestingIsExact
  BY InvNests
<1> QED BY <1>1, SpecHolds, PTL

\* Only the last block of a continue construct leaves it, for all of those that
\* hold a block, though ClassifyCFGEdges looks at the innermost alone.  What that
\* lets pass is a `continue` of an outer loop from the end of an inner construct.
THEOREM ContinueLeftLast == Spec => []ContinueLeftAtItsEnd
<1>1. Inv => ContinueLeftAtItsEnd
  BY DEF Inv
<1> QED BY <1>1, SpecHolds, PTL

\* A normal edge into another construct enters it at its head, from around it.
THEOREM NormalEdgesEnter == Spec => []NormalEdgesEnterAtHead
<1>1. Inv => NormalEdgesEnterAtHead
  BY DEF Inv
<1> QED BY <1>1, SpecHolds, PTL

\* The flow guards that ClassifyCFGEdges names are those of if-selections, which
\* EmitIfStart declares.
THEOREM GuardsAreIfs == Spec => []GuardsAreOfIfs
<1>1. Inv => GuardsAreOfIfs
  BY DEF Inv
<1> QED BY <1>1, SpecHolds, PTL
=============================================================================
