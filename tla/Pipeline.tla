------------------------------- MODULE Pipeline -------------------------------
(***************************************************************************)
(* The compiler from a parsed module to an output, as its driver runs it:   *)
(* the program is determined and validated, goes through the transforms it  *)
(* is to go through, and is written in one of the languages.                *)
(*                                                                          *)
(* A job is a module and the transforms.  What its program does and what    *)
(* the output does are compared on all the runs that Bits and Iterations    *)
(* give.  A job names the outputs it is known to come out wrong in, so a    *)
(* property says both that all others are right and that these are not.     *)
(***************************************************************************)
EXTENDS Meaning

CONSTANTS Jobs,       \* [module, ep, env, plan, cfg, deviates, refused, crashes, wrong]
          Bits,       \* what a run may read from the memory others write
          Iterations  \* of loops, in a run

TD == INSTANCE TypeDeterminer
VA == INSTANCE Validator
TR == INSTANCE Transforms
SB == INSTANCE SpirvBuilder
SM == INSTANCE SpirvMachine
HG == INSTANCE HlslGenerator
MG == INSTANCE MslGenerator
WG == INSTANCE WgslGenerator
WR == INSTANCE WgslReader

VARIABLES
  job,
  stage,    \* "parsed", "resolved", "undetermined", "valid", "broken", "rejected", "written",
            \* "refused" or "crashed"
  program,  \* the module as it is now
  pending,  \* the names of the transforms still to run
  output    \* the language it was written in, and what was written

vars == <<job, stage, program, pending, output>>

None == [target |-> "none"]

Init ==
  /\ job \in Jobs
  /\ stage = "parsed" /\ program = job.module /\ pending = job.plan /\ output = None

\* The program is made of what the reader has built.  One that could not be determined
\* says it is valid all the same (ProgramLifecycle): what becomes of it is left out.
Resolve ==
  /\ stage = "parsed"
  /\ program' = TD!Determine(program)
  /\ stage' = IF ~ModuleIsValid(program) THEN "rejected"
              ELSE IF program'.error = "" THEN "resolved" ELSE "undetermined"
  /\ UNCHANGED <<job, pending, output>>

Validate ==
  /\ stage = "resolved"
  /\ stage' = IF VA!Validate(program) = "" THEN "valid" ELSE "rejected"
  /\ UNCHANGED <<job, program, pending, output>>

\* The next transform.  Its errors end the run.  The program of a module that is not valid
\* is not determined; that does not end the run, nor that a program could not be: what
\* becomes of the two is left out.
TransformTo(out) ==
  \/ out.errors /\ stage' = "rejected" /\ UNCHANGED program
  \/ ~out.errors /\ ~ModuleIsValid(out.module) /\ stage' = "broken" /\ program' = out.module
  \/ /\ ~out.errors /\ ModuleIsValid(out.module)
     /\ program' = TD!Determine(out.module)
     /\ stage' = IF program'.error = "" THEN "valid" ELSE "broken"

RunTransform ==
  /\ stage = "valid" /\ pending # <<>>
  /\ TransformTo(TR!RunTransform(Head(pending), program, job.cfg))
  /\ pending' = Tail(pending)
  /\ UNCHANGED <<job, output>>

\* A division by zero stops the process, or yields 0, which is an unknown size.
Written(target, text) ==
  /\ stage = "valid" /\ pending = <<>>
  /\ output' = [target |-> target, text |-> text]
  /\ stage' \in CASE text.error = ""                -> {"written"}
                  [] text.error = MG!DivisionByZero -> {"crashed", "refused"}
                  [] OTHER                          -> {"refused"}
  /\ UNCHANGED <<job, program, pending>>

WriteSpirv == Written("spirv", SB!Build(program))
WriteHlsl == Written("hlsl", HG!Generate(program))
WriteMsl == Written("msl", MG!Generate(program))
WriteWgsl == Written("wgsl", [error |-> "", tokens |-> WG!Generate(program)])
WriteEntryPoint == Written("wgsl_entry_point", [error |-> "", tokens |-> WG!GenerateEntryPoint(program, job.ep)])

Next == Resolve \/ Validate \/ RunTransform \/ WriteSpirv \/ WriteHlsl \/ WriteMsl \/ WriteWgsl \/ WriteEntryPoint

Spec == Init /\ [][Next]_vars

-----------------------------------------------------------------------------
(* What the outputs do *)

Does(m, env, bits) == RunOf(m, job.ep, env, bits, Iterations)
Source == TD!Determine(job.module)

Happens(run, event) == \E i \in DOMAIN run.trace : run.trace[i] = event
InBoundsOnly(run) == ~Happens(run, <<"out of bounds">>)
GoesWrong(run) == run.end \in {"ill typed", "unknown name", "wrong number of arguments"}

WrittenAs(target) == stage = "written" /\ output.target = target
Deviates(target) == target \in job.deviates

\* The program the transforms have led to.
Transformed == stage = "valid" /\ pending = <<>> /\ job.plan # <<>>
TransformedBy(name) == Transformed /\ Contains(job.plan, name)
TransformedOnlyBy(name) == Transformed /\ job.plan = <<name>>

\* Each run does what the one of the program with the same bits does, which is compared as
\* far as it goes when it is cut; the ones that leave the bounds of something, or go wrong,
\* are left out.
Alike(does, run) ==
  CASE ~InBoundsOnly(does) \/ GoesWrong(does) -> TRUE
    [] does.end = "cut"    -> IsPrefix(does.trace, run.trace)
    [] OTHER               -> run = does
RunsAlike(Run(_)) == \A bits \in Bits : Alike(Does(program, job.env, bits), Run(bits))

\* A continuing part comes in the next iteration of the loop of a text.
Longer == Iterations + 2
SpirvRun(bits) == SM!Run(output.text, job.ep, job.env, bits, Longer)
HlslRun(bits) == HG!Run(output.text, program, job.ep, job.env, bits, Longer)
MslRun(bits) == MG!Run(output.text, program, job.ep, job.env, bits, Longer)

\* The module a reader makes of the tokens.
ReadBack == WR!Parse(output.text.tokens)
GoesAlike(m) ==
  m.error = "" /\ VA!Validate(m) = "" /\ RunsAlike(LAMBDA bits : Does(m, job.env, bits))

-----------------------------------------------------------------------------
(* Properties *)

Expressions == {"literal", "id", "unary", "binary", "call", "construct", "bitcast", "member", "index"}
IsTyped(m) ==
  \A i \in DOMAIN m.functions : \A n \in Nodes(m.functions[i]) : n.k \in Expressions => "rt" \in DOMAIN n

\* After the determiner every expression of every function has a result type, wherever it
\* is: writers and transforms take it without asking.
TypeOK ==
  /\ stage \in {"parsed", "resolved", "undetermined", "valid", "broken", "rejected", "written", "refused", "crashed"}
  /\ stage = "written" => output # None
  /\ stage \in {"resolved", "valid", "written", "refused", "crashed"} => IsTyped(program)

\* A program the validator accepts does not go wrong in a run: every name is in scope, every
\* value has the type of its place, every call has its arguments and yields what it says.
\* The jobs that are wrong in a place the validator does not look at do go wrong.
AcceptedGoesRight ==
  stage = "valid" /\ pending = job.plan =>
    ((\E bits \in Bits : GoesWrong(Does(program, job.env, bits))) <=> job.wrong)

\* No writer refuses a program that was accepted, save for what it does not support, and none
\* crashes, save where the size of a struct without members is needed.
AcceptedIsWritten ==
  output # None =>
    /\ stage # "written" <=> output.target \in job.refused
    /\ stage = "crashed" => output.target \in job.crashes

\* A SPIR-V module the builder makes: each block ends in its one terminator, an id is
\* defined once and before its uses, on every way to them, and entry points list the
\* inputs and outputs they use.
SpirvIsWellFormed == WrittenAs("spirv") => (SM!IsWellFormed(output.text) <=> ~Deviates("spirv_form"))

\* Run, the SPIR-V module does what the program does.
SpirvRunsAlike == WrittenAs("spirv") /\ ~Deviates("spirv_form") => (RunsAlike(SpirvRun) <=> ~Deviates("spirv"))

\* So does the HLSL text, where && and || and the queries of textures are statements of
\* their own, a loop with a continuing part is another loop, and buffers are bytes.
HlslRunsAlike == WrittenAs("hlsl") => (RunsAlike(HlslRun) <=> ~Deviates("hlsl"))

\* So does the MSL text, where the module's variables are parameters of the functions.
MslRunsAlike == WrittenAs("msl") => (RunsAlike(MslRun) <=> ~Deviates("msl"))

\* The WGSL writer and the WGSL reader agree: what was written is read as the program it
\* was written from.
WgslReadsBack == WrittenAs("wgsl") /\ job.plan = <<>> => (ReadBack = job.module <=> ~Deviates("wgsl"))

\* What the WGSL writer writes for one entry point is a program, and does the same from there.
EntryPointRunsAlike == WrittenAs("wgsl_entry_point") => GoesAlike(TD!Determine(ReadBack))

\* Every place, and every variable, at any depth, gets a value of its own type.
FitsWhatItGets(n) ==
  CASE Is(n, "assign") -> LET place == UnwrapIfNeeded(n.l.rt) IN Is(place, "ptr") /\ UnwrapIfNeeded(place.of) = UnwrapAll(n.r.rt)
    [] Is(n, "var")    -> n.init = Null \/ UnwrapIfNeeded(n.ty) = UnwrapAll(n.init.rt)
    [] OTHER           -> TRUE
IsSound(m) ==
  /\ VA!Validate(m) = ""
  /\ \A i \in DOMAIN m.functions : \A n \in Nodes(m.functions[i]) : FitsWhatItGets(n)
  /\ \A bits \in Bits : ~GoesWrong(Does(m, job.env, bits))

\* What a transform has made is a program with all its parts, that the determiner and the
\* validator accept, that goes nowhere wrong in a run, and whose assignments and
\* declarations, at any depth, have the types of their values: nobody looks again before
\* the next transform or the writer.  Known to break this are the jobs with attributes the
\* preamble of vertex_pulling cannot read, or reads as another type, and with an index of
\* i32, which vertex_pulling adds and first_index_offset declares again as u32.
TransformedIsValid ==
  stage = "broken" \/ Transformed => (stage = "valid" /\ IsSound(program) <=> ~Deviates("transform"))

\* A run of a program whose accesses are bounded, and the one of the program before.
StaysInBounds(before, after) ==
  InBoundsOnly(after) /\ (TransformedOnlyBy("bound_array_accessors") /\ InBoundsOnly(before) => after = before)

\* With its accesses bounded, the program stays in the bounds of everything it accesses, and
\* does what it did whenever it stayed in them before.
BoundsAreKept ==
  TransformedBy("bound_array_accessors") =>
    \A bits \in Bits : StaysInBounds(Does(Source, job.env, bits), Does(program, job.env, bits))

\* A run that has given points the size 1 besides.
WithPointSize(run) ==
  LET size == IF run.end = "next" /\ FunctionsOf(program)[job.ep].stage = "vertex" THEN {<<TR!kPointSizeVar, 1>>} ELSE {}
  IN  [run EXCEPT !.outputs = @ \cup size]

\* However the vertex shader ends, it has given points the size 1, and done what it did.
PointSizeIsWritten ==
  TransformedOnlyBy("emit_vertex_point_size") =>
    \A bits \in Bits : Does(program, job.env, bits) = WithPointSize(Does(Source, job.env, bits))

\* The first vertex and the first instance, as they are given to the transformed program.
Firsts == [vertex_index |-> 1, instance_index |-> 2]
IndexVariables == SelectSeq(job.module.globals, TR!IsIndex)
FirstOf(n) == Firsts[job.module.globals[SelectInSeq(job.module.globals, LAMBDA v : v.n = n)].decos.builtin]
IsIndexName(n) == \E i \in DOMAIN IndexVariables : IndexVariables[i].n = n
Used(b) == \E i \in DOMAIN IndexVariables : IsBuiltin(IndexVariables[i], b)
FirstIndexData ==
  LET used == SelectSeq(<<"vertex_index", "instance_index">>, Used) IN [i \in DOMAIN used |-> Firsts[used[i]]]
OffsetEnv == [n \in DOMAIN job.env |-> IF IsIndexName(n) THEN job.env[n] + FirstOf(n) ELSE job.env[n]]
RenamedEnv ==
  (TR!kBufferName :> FirstIndexData)
  @@ [n \in DOMAIN job.env \cup {TR!kIndexOffsetPrefix \o n : n \in {x \in DOMAIN job.env : IsIndexName(x)}} |->
        IF n \in DOMAIN job.env THEN job.env[n]
        ELSE job.env[CHOOSE x \in DOMAIN job.env : TR!kIndexOffsetPrefix \o x = n]]

\* Given its indices without the first ones, and those in the buffer, the program does what
\* it did with the sums: in every function, whatever calls it.
OffsetsAreAdded ==
  TransformedOnlyBy("first_index_offset") =>
    \A bits \in Bits : Does(program, RenamedEnv, bits) = Does(Source, OffsetEnv, bits)

\* What the preamble of a pulling vertex shader does for an attribute of buffer i: it reads
\* the elements of the buffer from where the attribute is on, and writes them to the variable
\* that has its location, if there is one.
IsPulled(v, a) == v.sc = "input" /\ Has(v, "location") /\ v.decos.location = a.location
Pull(bits, i, a) ==
  LET buffer == job.cfg.state[i]
      index == job.env[TR!IndexName(job.module, buffer.step)]
      first == (index * buffer.stride + a.offset) \div 4
      n == IF is_scalar(a.format) THEN 1 ELSE a.format.n
      variable == job.module.globals[SelectInSeq(job.module.globals, LAMBDA v : IsPulled(v, a))].n
      Path(c) == IF is_scalar(a.format) THEN <<>> ELSE <<c>>
  IN  IF ~\E j \in DOMAIN job.module.globals : IsPulled(job.module.globals[j], a) THEN <<>>
      ELSE [c \in 1..n |-> <<"read", TR!VertexBufferName(i), <<1, first + c>>>>]
           \o [c \in 1..n |-> <<"write", variable, Path(c), bits[c]>>]

\* The attributes in order, each from the bits the ones before have left.
RECURSIVE Pulls(_, _, _)
Pulls(bits, i, j) ==
  LET attributes == job.cfg.state[i].attributes
      pull == Pull(bits, i, attributes[j])
  IN  IF i > Len(job.cfg.state) THEN <<>>
      ELSE IF j > Len(attributes) THEN Pulls(bits, i + 1, 1)
      ELSE pull \o Pulls(SubSeq(bits, Len(pull) \div 2 + 1, Len(bits)), i, j + 1)

\* Before anything else the pulled variables get the parts of the buffers their attributes
\* are, at the vertex or the instance the run is for.
PulledAttributesMatch ==
  TransformedBy("vertex_pulling") =>
    \A bits \in Bits : IsPrefix(Pulls(bits, 1, 1), Does(program, job.env, bits).trace)

\* Sizes and alignments in Metal; a struct has the paddings of its text, which are bytes.
RECURSIVE MetalAlign(_), MetalSize(_), MetalLayout(_)
MetalAlign(t) ==
  CASE Is(t, "struct") -> FoldLeft(LAMBDA a, m : TR!Greater(a, MetalAlign(m.ty)), 1, t.members)
    [] Is(t, "alias")  -> MetalAlign(t.of)
    [] t.k \in {"array", "mat"} -> MetalAlign(PartType(t, 1))
    [] OTHER           -> MetalSize(t)
MetalSize(t) ==
  CASE Is(t, "bool")   -> 1
    [] Is(t, "alias")  -> MetalSize(t.of)
    [] Is(t, "vec")    -> (IF t.n = 2 THEN 2 ELSE 4) * MetalSize(t.of)
    [] Is(t, "struct") -> MG!adjust_for_alignment(MetalLayout(t).at, MetalAlign(t))
    [] t.k \in {"array", "mat"} -> t.n * MetalSize(PartType(t, 1))
    [] OTHER           -> 4
MetalLayout(t) ==
  LET Next1(acc, part) ==
        IF "pad" \in DOMAIN part THEN [acc EXCEPT !.at = @ + part.pad]
        ELSE LET at == MG!adjust_for_alignment(acc.at, MetalAlign(part.ty))
             IN  [at |-> at + MetalSize(part.ty), offsets |-> Append(acc.offsets, at)]
  IN  FoldLeft(Next1, [at |-> 0, offsets |-> <<>>], MG!EmitStructType(t).text)

RECURSIVE StridesMatch(_)
StridesMatch(t) ==
  CASE Is(t, "array")  -> t.stride = MetalSize(t.of) /\ StridesMatch(t.of)
    [] Is(t, "struct") -> \A i \in DOMAIN t.members : StridesMatch(t.members[i].ty)
    [] OTHER           -> TRUE

\* The paddings of an MSL struct put every member where its offset says, and the elements
\* of its arrays are as far apart as the array says.
LayoutIsKept ==
  WrittenAs("msl") =>
    ((\A i \in DOMAIN program.types : LET t == program.types[i] IN
        Is(t, "struct") => MetalLayout(t).offsets = [j \in DOMAIN t.members |-> t.members[j].off] /\ StridesMatch(t))
       <=> ~Deviates("msl_layout"))
=============================================================================
