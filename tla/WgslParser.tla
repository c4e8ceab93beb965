----------------------------- MODULE WgslParser -----------------------------
(***************************************************************************)
(* ParserImpl: the grammar functions of WgslGrammar on a call stack, over a*)
(* text whose tokens are not known before they are looked at.              *)
(*                                                                         *)
(* A token that has been looked at is the set of the kinds it may still be:*)
(* a test splits the set, so two texts are told apart only by what the     *)
(* parser asks.                                                            *)
(***************************************************************************)
EXTENDS WgslGrammar, Naturals, SequencesExt, FiniteSetsExt

CONSTANTS
  Texts,              \* the texts: first tokens, kinds of the others, their number
  MaxErrors,          \* max_errors_
  MaxConstExprDepth,  \* kMaxConstExprDepth
  Lookahead           \* kMaxResynchronizeLookahead

\* A text is kinds of tokens, and its end is not one of them.
Written == STRING \ {"eof", "error"}
ASSUME TextsAssumption ==
  \A t \in Texts :
    /\ t.first \in Seq(Written) /\ t.kinds \in SUBSET Written /\ t.left \in Nat
    /\ t.left > 0 => t.kinds # {}

ASSUME BoundsAssumption == {MaxErrors, Lookahead} \subseteq Nat \ {0} /\ MaxConstExprDepth \in Nat

VARIABLES
  text,          \* kinds and number of the tokens the lexer has not read
  queue,         \* token_queue_
  stack,         \* the functions that have been called, outermost first
  result,        \* what the function that just returned has returned, or ""
  value,         \* the decorations, or the name, that came with it
  scan,          \* the progress of sync_to, or <<>>
  synchronized,  \* synchronized_
  errors,        \* diags_.error_count(), up to MaxErrors
  constructed,   \* the names in registered_constructs_
  valid          \* no for statement without a continuing part has been read

input == <<text, queue>>
status == <<synchronized, errors, constructed, valid>>
vars == <<input, stack, result, value, scan, status>>

-----------------------------------------------------------------------------
(* The call stack *)

Frame(p) == [p |-> p, at |-> 1, bad |-> FALSE, held |-> <<>>]

Depth == Len(stack)
Top == stack[Depth]
InUnit == stack # <<>> /\ Top.p = "translation_unit"
Running == stack # <<>> /\ ~InUnit /\ scan = <<>>
Function == Functions[Top.p]
In(form) == Running /\ Function.form = form

\* The item of the top function that comes next, or whose call has returned.
This == Function.items[Top.at]
AtEnd == Top.at > Len(Function.items)
At(do) == result = "" /\ In("do") /\ ~AtEnd /\ This.do = do

WithTop(f) == [stack EXCEPT ![Depth] = f]
Goto(n) == WithTop([Top EXCEPT !.at = n])
Past == Goto(Top.at + 1)
Noted(n) == WithTop([Top EXCEPT !.at = n, !.bad = TRUE])

Calling(p) == Append(stack, Frame(p))

Step(s) == stack' = s /\ result' = "" /\ UNCHANGED <<value, scan>>
Return(r) == stack' = Front(stack) /\ result' = r /\ value' = Top.held /\ UNCHANGED scan

\* Mutant of Silenced: the errors are silenced until expect_global_decl() returns.
Silenced_TooLong == \E i \in 1..Depth : stack[i].p = "expect_global_decl" /\ stack[i].at = 8

\* add_error(); a statement outside of a function is parsed with errors silenced.
Silenced == \E i \in 1..(Depth - 1) : stack[i].p = "expect_global_decl" /\ stack[i].at = 8
Add(n) == errors' = IF Silenced THEN errors ELSE Min({errors + n, MaxErrors})
Report == Add(1) /\ Return("errored") /\ UNCHANGED <<synchronized, constructed, valid>>

-----------------------------------------------------------------------------
(* Tokens *)

Ends == {{"eof"}, {"error"}}

\* How many tokens have to be known for the next step.
Wanted ==
  IF scan # <<>> THEN scan.ix
  ELSE IF stack = <<>> \/ result # "" THEN 0
  ELSE CASE InUnit            -> 1
         [] In("block")       -> 1
         [] In("while")       -> IF Function.stop = {} THEN 0 ELSE 1
         [] In("do") /\ ~AtEnd ->
              IF "and" \in DOMAIN This THEN 2 ELSE IF "toks" \in DOMAIN This THEN 1 ELSE 0
         [] OTHER             -> 0

\* lexer_->next(): the end of the text is found again and again, and so is a
\* character that no token starts with.
Lexed ==
  IF text.kinds \in Ends THEN {text.kinds}
  ELSE Ends \cup IF text.left = 0 THEN {} ELSE {text.kinds}

Lex ==
  /\ Len(queue) < Wanted
  /\ \E t \in Lexed :
       /\ queue' = Append(queue, t)
       /\ text' = IF t \in Ends THEN [kinds |-> t, left |-> 0] ELSE [text EXCEPT !.left = @ - 1]
  /\ UNCHANGED <<stack, result, value, scan, status>>

Known == Len(queue) >= Wanted

\* Token i is one of S: the queues in which it is, and in which it is not.
Narrowed(i, kinds) == IF i \notin DOMAIN queue \/ kinds = {} THEN {} ELSE {[queue EXCEPT ![i] = kinds]}
Hit(i, S) == Narrowed(i, queue[i] \cap S)
Miss(i, S) == Narrowed(i, queue[i] \ S)

Reads(q) == queue' = q /\ UNCHANGED text
Taken == queue # <<>> /\ Reads(Tail(queue))

-----------------------------------------------------------------------------
(* sync_to *)

\* sync_tokens_: the token of each sync() that is not left yet.
SyncTokens ==
  {Functions[stack[i].p].close : i \in {j \in 2..Depth :
     \/ Functions[stack[j].p].form = "sync"
     \/ Functions[stack[j].p].form = "block" /\ stack[j].at > 1}}

Brackets == Range(Openers) \cup Range(Closers)

Seek(to, take) ==
  /\ scan' = [to |-> to, take |-> take, ix |-> 1, depth |-> [b \in DOMAIN Openers |-> 0]]
  /\ synchronized' = FALSE
  /\ result' = ""
  /\ UNCHANGED <<input, value, constructed, valid>>

\* The kinds of a token that sync_to tells apart.
Classes(t) ==
  LET single == t \cap (Brackets \cup {scan.to})
  IN  ({{k} : k \in single} \cup {(t \ single) \cap SyncTokens, t \ (single \cup SyncTokens)}) \ {{}}

\* BlockCounters::consume(): the counters a token counts for, and their next values.
Counts(sides, c) == {b \in DOMAIN sides : c = {sides[b]}}
IsNested(c) == \E b \in Counts(Openers, c) \cup Counts(Closers, c) : scan.depth[b] > 0

\* Mutant of Counted: a bracket that is closed is not counted.
Counted_OpenOnly(c) ==
  [b \in DOMAIN Openers |-> scan.depth[b] + Cardinality({s \in {Openers} : b \in Counts(s, c)})]

Counted(c) ==
  [b \in DOMAIN Openers |->
     scan.depth[b] + Cardinality({s \in {Openers} : b \in Counts(s, c)})
                   - Cardinality({s \in {Closers} : b \in Counts(s, c)})]

\* Mutant of Resume: the statement outside of a function is not reported.
Resume_Unreported(found) ==
  /\ scan' = <<>>
  /\ IF found /\ Top.p \in {"function_header", "function_decl"}
     THEN /\ stack' = Noted(IF Top.p = "function_header" THEN Top.at + 1 ELSE 3)
          /\ UNCHANGED <<result, value, errors>>
     ELSE stack' = Front(stack) /\ result' = "errored" /\ value' = <<>> /\ UNCHANGED errors
  /\ UNCHANGED <<constructed, valid>>

\* What the function that called sync_to does next.
Resume(found) ==
  /\ scan' = <<>>
  /\ IF found /\ Top.p \in {"function_header", "function_decl"}
     THEN /\ stack' = Noted(IF Top.p = "function_header" THEN Top.at + 1 ELSE 3)
          /\ UNCHANGED <<result, value, errors>>
     ELSE /\ stack' = Front(stack) /\ result' = "errored" /\ value' = <<>>
          /\ IF Top.p = "expect_global_decl" THEN Add(1) ELSE UNCHANGED errors
  /\ UNCHANGED <<constructed, valid>>

\* The scan goes on behind a token that is nested, or no synchronization point.
ScanPast(c, q) ==
  /\ IsNested(c) \/ (c # {scan.to} /\ ~(c \subseteq SyncTokens))
  /\ Reads(q)
  /\ IF scan.ix < Lookahead
     THEN /\ scan' = [scan EXCEPT !.ix = @ + 1, !.depth = Counted(c)]
          /\ UNCHANGED <<stack, result, value, status>>
     ELSE Resume(FALSE) /\ UNCHANGED synchronized

\* The tokens before a synchronization point are dropped.
ScanStop(c, q) ==
  /\ ~IsNested(c)
  /\ \/ /\ c = {scan.to}
        /\ Reads(SubSeq(q, scan.ix + (IF scan.take THEN 1 ELSE 0), Len(q)))
        /\ synchronized' = TRUE /\ Resume(TRUE)
     \/ /\ c # {scan.to} /\ c \subseteq SyncTokens
        /\ Reads(SubSeq(q, scan.ix, Len(q)))
        /\ Resume(FALSE) /\ UNCHANGED synchronized

SyncTo ==
  /\ scan # <<>> /\ Known
  /\ \E c \in Classes(queue[scan.ix]) : \E q \in Narrowed(scan.ix, c) :
       ScanPast(c, q) \/ ScanStop(c, q)

-----------------------------------------------------------------------------
(* Items that look at the next token *)

\* What is done if the next token is one of the item's, and if it is not.
OnHit == [
  match |-> "next", peek |-> "next", expect |-> "sync", need |-> "next", take |-> "matched",
  matchedat |-> "matched", matchedbut |-> "next", refuse |-> "error", suffix |-> "warn",
  lack |-> "lost", name |-> "sync", plainname |-> "next", then |-> "call", each |-> "call",
  unless |-> "next", back |-> "back"]
OnMiss == [
  match |-> "nomatch", peek |-> "nomatch", expect |-> "lost", need |-> "error", take |-> "next",
  matchedat |-> "next", matchedbut |-> "matched", refuse |-> "next", suffix |-> "next",
  lack |-> "next", name |-> "lost", plainname |-> "nomatch", then |-> "next", each |-> "next",
  unless |-> "call", back |-> "next"]

\* The tokens that are looked at but not taken.
Peeks == {"peek", "matchedat", "matchedbut", "lack", "unless"}

Outcome(o) ==
  \/ o = "next" /\ Step(Past) /\ UNCHANGED status
  \/ o = "call" /\ Step(Calling(This.of)) /\ UNCHANGED status
  \/ o \in {"matched", "nomatch"} /\ Return(o) /\ UNCHANGED status
  \/ o = "error" /\ Report
  \/ o = "warn" /\ Add(1) /\ Step(Past) /\ UNCHANGED <<synchronized, constructed, valid>>
  \/ o = "sync" /\ synchronized' = TRUE /\ Step(Past) /\ UNCHANGED <<errors, constructed, valid>>
  \/ o = "lost" /\ synchronized' = FALSE /\ Add(1) /\ Return("errored") /\ UNCHANGED <<constructed, valid>>
  \/ o = "back" /\ Step(IF synchronized THEN Goto(1) ELSE Goto(Top.at + 2)) /\ UNCHANGED status

AtToken == \E do \in DOMAIN OnHit : At(do)
Toks == IF This.do = "plainname" THEN This.toks \ constructed ELSE This.toks

TokenHit ==
  /\ AtToken /\ Known /\ This.do # "name"
  /\ \E q \in Hit(1, Toks) : Reads(IF This.do \in Peeks THEN q ELSE Tail(q))
  /\ Outcome(OnHit[This.do])

TokenMiss ==
  /\ AtToken /\ Known
  /\ \E q \in Miss(1, Toks) : Reads(q)
  /\ Outcome(OnMiss[This.do])

\* The name of an alias or a struct.
NameHit ==
  /\ At("name") /\ Known
  /\ \E n \in queue[1] \cap This.toks :
       /\ Taken
       /\ Step(WithTop([Top EXCEPT !.at = @ + 1, !.held = <<n>>]))
  /\ synchronized' = TRUE
  /\ UNCHANGED <<errors, constructed, valid>>

TypeNameHit ==
  /\ At("typename") /\ Known
  /\ \/ Hit(1, constructed) # {} /\ Return("matched") /\ UNCHANGED status
     \/ Hit(1, This.toks \ constructed) # {} /\ Report
  /\ Taken

TypeNameMiss ==
  /\ At("typename") /\ Known
  /\ \E q \in Miss(1, This.toks) : Reads(q)
  /\ Return("nomatch") /\ UNCHANGED status

\* A decoration is put into the list that is being read.
DecorateHit ==
  /\ At("decorate") /\ Known
  /\ \E kind \in Range(DecorationKind) :
       /\ Hit(1, {d \in This.toks : DecorationKind[d] = kind}) # {}
       /\ LET list == SelectLastInSeq(stack, LAMBDA f : f.p = "decoration_list")
          IN  Step([Past EXCEPT ![list].held = Append(@, kind)])
  /\ Taken /\ UNCHANGED status

DecorateMiss ==
  /\ At("decorate") /\ Known
  /\ \E q \in Miss(1, This.toks) : Reads(q)
  /\ Return("nomatch") /\ UNCHANGED status

\* Two tokens: taken and gone on with, or refused.
TwoHit ==
  /\ At("match2") \/ At("refuse2")
  /\ Known /\ Hit(1, This.toks) # {} /\ Hit(2, This.and) # {}
  /\ IF This.do = "match2" THEN Reads(Tail(Tail(queue))) /\ Step(Past) /\ UNCHANGED status
     ELSE Reads([queue EXCEPT ![1] = @ \cap This.toks, ![2] = @ \cap This.and]) /\ Report

TwoMiss ==
  /\ At("match2") \/ At("refuse2")
  /\ Known
  /\ \E q \in Miss(1, This.toks) \cup {[h EXCEPT ![2] = @ \ This.and] : h \in Hit(1, This.toks)} :
       q[2] # {} /\ Reads(q)
  /\ IF This.do = "match2" THEN Return("nomatch") ELSE Step(Past)
  /\ UNCHANGED status

-----------------------------------------------------------------------------
(* Other items *)

CallItem == At("call") /\ Step(Calling(This.of)) /\ UNCHANGED <<input, status>>

FailItem == At("fail") /\ Report /\ UNCHANGED input

\* The decorations of a declaration, wherever in it they are used.
Owners == {"expect_global_decl", "variable_ident_decl", "type_decl", "member"}
Owner == SelectLastInSeq(stack, LAMBDA f : f.p \in Owners)

\* The decorations of a list that are of another kind.
Others(list, kind) ==
  LET rest[n \in 0..Len(list)] ==
        IF n = 0 THEN <<>>
        ELSE IF list[n] = kind THEN rest[n - 1] ELSE Append(rest[n - 1], list[n])
  IN  rest[Len(list)]

\* cast_decorations(): one error for each decoration that is of another kind, and
\* none is left.  A function whose header had errors is not cast.
CastItem ==
  /\ At("cast") /\ UNCHANGED <<input, synchronized, constructed, valid, value, scan>>
  /\ LET wrong == Others(stack[Owner].held, This.kind)
         cast  == [stack EXCEPT ![Owner].held = <<>>]
     IN  \/ /\ wrong = <<>> /\ UNCHANGED errors
            /\ result' = "" /\ stack' = [cast EXCEPT ![Depth].at = @ + 1]
         \/ /\ wrong # <<>> /\ Add(Len(wrong))
            /\ IF This.errored = "note"
               THEN result' = "" /\ stack' = [cast EXCEPT ![Depth].at = @ + 1, ![Depth].bad = TRUE]
               ELSE result' = "errored" /\ stack' = Front(cast)

\* Access decorations are taken out of the list; more than one is an error later.
TakeAccess ==
  /\ At("takeaccess")
  /\ LET rest == Others(Top.held, "access")
     IN  Step(WithTop([Top EXCEPT
           !.at = @ + 1, !.bad = Len(Top.held) > Len(rest) + 1, !.held = rest]))
  /\ UNCHANGED <<input, status>>

\* expect_decorations_consumed(), and the test for more than one access.
Consumed ==
  /\ At("consumed") \/ At("oneaccess")
  /\ UNCHANGED input
  /\ IF CASE This.do = "consumed" -> Top.held # <<>> [] OTHER -> Top.bad
     THEN Report
     ELSE Step(Past) /\ UNCHANGED status

\* register_constructed()
Register ==
  /\ At("register")
  /\ constructed' = constructed \cup Range(Top.held)
  /\ Step(Past) /\ UNCHANGED <<input, synchronized, errors, valid>>

\* Mutant of IsTooDeep: the depth is not passed on to the nested const_expr().
IsTooDeep_PerCall == FALSE

IsTooDeep ==
  Cardinality({i \in DOMAIN stack : stack[i].p = "const_expr"}) > MaxConstExprDepth + 1

Stop ==
  /\ \/ At("stopifbad") /\ Top.bad
     \/ At("insync") /\ ~synchronized
  /\ Return("errored") /\ UNCHANGED <<input, status>>

GoOn ==
  /\ \/ At("stopifbad") /\ ~Top.bad
     \/ At("insync") /\ synchronized
     \/ At("unused") /\ Top.held = <<>>
     \/ At("depth") /\ ~IsTooDeep
  /\ Step(Past) /\ UNCHANGED <<input, status>>

TooDeep ==
  /\ At("depth") /\ IsTooDeep
  /\ Report /\ UNCHANGED input

\* A token that cannot be a decoration, or that comes after decorations without a
\* declaration, is taken.
Reject ==
  /\ \/ At("reject")
     \/ At("unused") /\ Top.held # <<>>
  /\ Taken /\ Report

\* After the last item.
Finish ==
  /\ In("do") /\ result = "" /\ AtEnd
  /\ Return(IF Top.bad THEN "errored" ELSE "matched") /\ UNCHANGED <<input, status>>

-----------------------------------------------------------------------------
(* What a function does with the result of a function it has called *)

Policy ==
  IF This.do = "call" THEN This[result]
  ELSE [matched |-> IF This.do = "each" THEN "stay" ELSE "next",
        nomatch |-> "report", errored |-> "errored"][result]

Back2(o) == result # "" /\ In("do") /\ Policy = o

ItemDone ==
  /\ \/ Back2("next") /\ Step(Past)
     \/ Back2("stay") /\ Step(stack)
     \/ Back2("first") /\ Step(Goto(1))
     \/ Back2("keep") /\ Step(WithTop([Top EXCEPT !.at = @ + 1, !.held = value]))
     \/ Back2("note") /\ Step(Noted(Top.at + 1))
     \/ Back2("outer") /\ LET body == SelectLastInSeq(stack, LAMBDA f : f.p = "struct_members")
                          IN  Step([Past EXCEPT ![body].bad = TRUE])
     \/ \E r \in {"matched", "nomatch", "errored"} : Back2(r) /\ Return(r)
  /\ UNCHANGED <<input, status>>

\* for_stmt() makes a LoopStatement with a null continuing block, which is not valid.
NoContinuing ==
  /\ Back2("endless") /\ Step(Past)
  /\ valid' = FALSE /\ UNCHANGED <<input, synchronized, errors, constructed>>

ItemFails == Back2("report") /\ Report /\ UNCHANGED input

\* The name or the header of a function had an error; a statement was found where a
\* declaration has to be.
ItemSeeks ==
  /\ \/ Back2("params") /\ Seek("(", FALSE)
     \/ Back2("body") /\ Seek("{", FALSE)
     \/ Back2("salvage") /\ Seek("}", TRUE)
  /\ UNCHANGED <<stack, errors>>

\* Neither a declaration nor a statement: at least one token is taken.
Skip == Back2("skip") /\ Taken /\ Report

Descend ==
  /\ result = "" /\ UNCHANGED <<input, status>>
  /\ \/ In("alt") /\ Step(Calling(Function.of[Top.at]))
     \/ (In("many") \/ In("sync")) /\ Step(Calling(Function.of))

AltReturns ==
  /\ result # "" /\ In("alt") /\ UNCHANGED <<input, status>>
  /\ IF result = "nomatch" /\ Top.at < Len(Function.of)
     THEN Step(Past)
     ELSE Return(result)

ManyReturns ==
  /\ result # "" /\ In("many") /\ UNCHANGED <<input, status>>
  /\ IF result = "matched" THEN Step(stack)
     ELSE Return(IF result = "nomatch" THEN "matched" ELSE "errored")

\* The end of a loop that notes errors.
LoopResult ==
  IF Top.bad \/ result = "errored" THEN "errored"
  ELSE IF Function.form = "list" /\ Top.held = <<>> THEN "nomatch" ELSE "matched"

WhileRound ==
  /\ result = "" /\ (In("while") \/ In("list")) /\ synchronized /\ Known
  /\ IF "stop" \in DOMAIN Function /\ Function.stop # {}
     THEN \E q \in Miss(1, Function.stop) : Reads(q)
     ELSE UNCHANGED input
  /\ Step(Calling(Function.of)) /\ UNCHANGED status

WhileStop ==
  /\ result = "" /\ (In("while") \/ In("list"))
  /\ \/ ~synchronized /\ UNCHANGED input
     \/ In("while") /\ synchronized /\ Known /\ Function.stop # {}
        /\ \E q \in Hit(1, Function.stop) : Reads(q)
  /\ Return(LoopResult) /\ UNCHANGED status

WhileReturns ==
  /\ result # "" /\ (In("while") \/ In("list")) /\ UNCHANGED <<input, status>>
  /\ IF result = "nomatch" \/ (In("list") /\ result = "errored") THEN Return(LoopResult)
     ELSE Step(IF result = "errored" THEN Noted(Top.at) ELSE stack)

SyncReturns ==
  /\ result # "" /\ (In("sync") \/ In("block"))
  /\ IF result = "errored" THEN Seek(Function.close, TRUE) /\ UNCHANGED <<stack, errors>>
     ELSE /\ UNCHANGED <<input, status>>
          /\ IF In("sync") THEN Return(result) ELSE Step(Past)

BlockOpens ==
  /\ result = "" /\ In("block") /\ Known /\ Top.at = 1
  /\ \/ /\ \E q \in Hit(1, {Function.open}) : Reads(Tail(q))
        /\ Step(Append(Past, Frame(Function.of)))
        /\ synchronized' = TRUE /\ UNCHANGED <<errors, constructed, valid>>
     \/ /\ \E q \in Miss(1, {Function.open}) : Reads(q)
        /\ Outcome("lost")

BlockCloses ==
  /\ result = "" /\ In("block") /\ Known /\ Top.at > 1
  /\ \/ /\ \E q \in Hit(1, {Function.close}) : Reads(Tail(q))
        /\ Return("matched")
        /\ synchronized' = TRUE /\ UNCHANGED <<errors, constructed, valid>>
     \/ /\ \E q \in Miss(1, {Function.close}) : queue' = q
        /\ scan' = [to |-> Function.close, take |-> TRUE, ix |-> 1,
                    depth |-> [b \in DOMAIN Openers |-> 0]]
        /\ synchronized' = FALSE /\ Add(1)
        /\ UNCHANGED <<text, stack, result, value, constructed, valid>>

-----------------------------------------------------------------------------
(* translation_unit *)

NextDeclaration ==
  /\ InUnit /\ result = "" /\ synchronized /\ Known
  /\ \E q \in Miss(1, {"eof"}) : Reads(q)
  /\ Step(Calling("expect_global_decl")) /\ UNCHANGED status

\* Mutant of DeclarationDone: errors do not stop the parser.
DeclarationDone_Unlimited ==
  InUnit /\ result # "" /\ Step(stack) /\ UNCHANGED <<input, status>>

DeclarationDone ==
  /\ InUnit /\ result # ""
  /\ IF errors = MaxErrors THEN Return("") ELSE Step(stack)
  /\ UNCHANGED <<input, status>>

EndOfUnit ==
  /\ InUnit /\ result = ""
  /\ \/ ~synchronized /\ UNCHANGED input
     \/ synchronized /\ Known /\ \E q \in Hit(1, {"eof"}) : Reads(q)
  /\ Return("") /\ UNCHANGED status

ItemStep ==
  \/ TokenHit \/ TokenMiss \/ NameHit \/ TypeNameHit \/ TypeNameMiss \/ DecorateHit
  \/ DecorateMiss \/ TwoHit \/ TwoMiss \/ CallItem \/ FailItem \/ CastItem \/ TakeAccess
  \/ Consumed \/ Register \/ Stop \/ GoOn \/ TooDeep \/ Reject \/ Finish

ReturnStep ==
  \/ ItemDone \/ NoContinuing \/ ItemFails \/ ItemSeeks \/ Skip \/ Descend \/ AltReturns \/ ManyReturns
  \/ WhileRound \/ WhileStop \/ WhileReturns \/ SyncReturns \/ BlockOpens \/ BlockCloses
  \/ NextDeclaration \/ DeclarationDone \/ EndOfUnit

Init ==
  /\ \E t \in Texts :
       /\ text = [kinds |-> t.kinds, left |-> t.left]
       /\ queue = [i \in DOMAIN t.first |-> {t.first[i]}]
  /\ stack = <<Frame("translation_unit")>>
  /\ result = "" /\ value = <<>> /\ scan = <<>>
  /\ synchronized = TRUE /\ errors = 0 /\ constructed = {} /\ valid = TRUE

Next == Lex \/ SyncTo \/ ItemStep \/ ReturnStep

\* The parser is a loop of one thread: it goes on as long as there is a next step.
Spec == Init /\ [][Next]_vars /\ WF_vars(Next)
-----------------------------------------------------------------------------
(* Properties *)

Results == {"", "matched", "nomatch", "errored"}

\* The stack holds functions of the grammar at one of their items; const_expr() is
\* entered at most kMaxConstExprDepth + 2 times, the last time for its error.
TypeOK ==
  /\ \A i \in DOMAIN stack :
       /\ stack[i].p \in DOMAIN Functions \cup {"translation_unit"}
       /\ stack[i].p = "translation_unit" <=> i = 1
       /\ stack[i].at \in Nat \ {0} /\ stack[i].bad \in BOOLEAN
       /\ Range(stack[i].held) \subseteq Range(DecorationKind) \cup Identifiers
  /\ Cardinality({i \in DOMAIN stack : stack[i].p = "const_expr"}) <= MaxConstExprDepth + 2
  /\ \A i \in DOMAIN queue : queue[i] # {}
  /\ result \in Results /\ synchronized \in BOOLEAN /\ valid \in BOOLEAN
  /\ errors \in 0..MaxErrors /\ constructed \subseteq Identifiers

\* "In the case of a parse error the called method will have called add_error()":
\* a declaration that has failed has left an error in diags_, though the errors of a
\* statement outside of a function are silenced.
ErrorsAreReported == InUnit /\ result = "errored" => errors > 0

\* Parse() returns true only when the parser has come to the end of the text: it has
\* not stopped early because it was out of synchronization.
SuccessMeansWholeText == stack = <<>> /\ errors = 0 => queue = <<{"eof"}>>

\* Error recovery drops no bracket that closes a block the parser is in: of the
\* brackets somebody waits for, it drops only those opened behind the error.
Dropped == SubSeq(queue, 1, scan.ix - 1)
NumberOf(k) == Cardinality({i \in DOMAIN Dropped : Dropped[i] = {k}})
RecoveryStaysInBlock ==
  [][scan # <<>> /\ scan' = <<>> /\ Len(queue') < Len(queue) =>
       \A b \in DOMAIN Openers : Closers[b] \in SyncTokens \cup {scan.to} =>
         NumberOf(Closers[b]) <= NumberOf(Openers[b])]_vars

\* A variable, a struct or a function that has no error does not end with decorations
\* that nobody has looked at: each has been cast to the kind the declaration takes, or
\* refused.
Users == {"global_variable", "struct_member", "struct_decl", "function_decl", "variable_ident_decl",
          "type_decl"}
DecorationsAreUsed ==
  result = "" /\ In("do") /\ AtEnd /\ ~Top.bad /\ Top.p \in Users =>
    Range(stack[Owner].held) \subseteq Identifiers

\* Parse() ends for every text, in the middle of a token too: either the text or
\* the errors come to their end.
ParseEnds == <>(stack = <<>>)

\* assert(builder_.IsValid()) at the end of translation_unit(): a text that has been
\* read without an error makes a valid module.
AcceptedTextIsValid == stack = <<>> /\ errors = 0 => valid
=============================================================================
