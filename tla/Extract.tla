------------------------------- MODULE Extract -------------------------------
(***************************************************************************)
(* `body_to_rust_source`: a body is printed as the source of a function,   *)
(* one `let` for each assignment along the chain of blocks. A source is a  *)
(* signature and a sequence of lines over names; its meaning is that of    *)
(* Rust: a `let` declares a new variable in the innermost scope, and       *)
(* shadows another of the same name until the scope is closed. A name that *)
(* is none, is not in scope or has not the type wanted there is refused by *)
(* the compiler. Every type the model has can be copied, so that nothing   *)
(* is moved away.                                                          *)
(***************************************************************************)
EXTENDS Ingest

CONSTANTS NameOf,  \* the sanitized name of a declared local
          Illegal  \* the sanitized names nothing can be declared by, or that
                   \* cannot be read: the empty one, `_`, keywords

VARIABLES exStatus,   \* "idle", "running", "ok", "NoReturnPlace"
          exStack, exVisited,
          params,     \* the parameters, with their types
          returns,    \* the type returned
          source      \* the lines written so far

extractVars == <<exStatus, exStack, exVisited, params, returns, source>>

SX == INSTANCE SequencesExt

\* A `let` is printed without a type. ty: the local's, which is the one rustc
\* infers for numbers alone where the variable is used at that type.
LetLine(name, ty, rv) == [kind |-> "let", name |-> name, ty |-> ty, rvalue |-> rv]
OpenLine == [kind |-> "open"]
CloseLine == [kind |-> "close"]
CheckLine(op, expected) == [kind |-> "check", op |-> op, expected |-> expected]
TailLine(name) == [kind |-> "tail", name |-> name]

\* A local that is not declared has a name made from its number, as every
\* local of an ingested body has.
Unnamed(l) == <<"_", l>>
SourceName(l) ==
  IF l \in DOMAIN body.locals /\ function = None THEN NameOf[l] ELSE Unnamed(l)

SourceOperand(op) == IF op.kind = "local" THEN Local(SourceName(op.of)) ELSE op
\* Mutant: the operands change places.
SwappedRvalue(rv) == [op |-> rv.op, a |-> SourceOperand(rv.b), b |-> SourceOperand(rv.a)]
SourceRvalue(rv) == [op |-> rv.op, a |-> SourceOperand(rv.a), b |-> SourceOperand(rv.b)]

\* The unsafe blocks that end with statement i.
EndingAt(ss, i) == {j \in 1..i : ss[j].kind = "unsafe" /\ j + ss[j].inside = i}
StatementLines(ss, i) ==
  (IF ss[i].kind = "unsafe" THEN <<OpenLine>>
   ELSE <<LetLine(SourceName(ss[i].place), RustType(body, ss[i].place), SourceRvalue(ss[i].rvalue))>>)
    \o [j \in 1..Cardinality(EndingAt(ss, i)) |-> CloseLine]
TerminatorLines(t) ==
  CASE t.kind = "return" -> <<TailLine(SourceName(0))>>
    [] t.kind = "assert" -> <<CheckLine(SourceOperand(t.condition), t.expected)>>
    [] OTHER -> <<>>
BlockLines(b) ==
  SX!FlattenSeq([i \in DOMAIN b.statements |-> StatementLines(b.statements, i)])
    \o TerminatorLines(b.terminator)
Targets(t) == IF t.kind = "return" THEN <<>> ELSE <<t.target>>

ExtractIdle ==
  /\ exStatus = "idle" /\ exStack = <<>> /\ exVisited = {}
  /\ params = <<>> /\ returns = None /\ source = <<>>

Declared(l) == l \in DOMAIN body.locals
\* An argument that is not declared has no parameter.
Parameter(l) ==
  IF Declared(l) THEN <<[name |-> SourceName(l), ty |-> RustType(body, l)]>> ELSE <<>>
BeginExtract ==
  /\ exStatus = "idle"
  /\ IF Declared(0)
     THEN /\ exStatus' = "running"
          /\ exStack' = <<0>>
          /\ params' = SX!FlattenSeq([k \in DOMAIN body.args |-> Parameter(body.args[k])])
          /\ returns' = RustType(body, 0)
     ELSE exStatus' = "NoReturnPlace" /\ UNCHANGED <<exStack, params, returns>>
  /\ UNCHANGED <<exVisited, source>>

ExTop == SX!Last(exStack)
PopExtract == exStack' = SX!Front(exStack)

\* Mutants: a block that is not there is passed over; a block seen before is
\* left on the stack.
MissingSkipped ==
  /\ exStatus = "running" /\ exStack # <<>> /\ ExTop \notin exVisited
  /\ ExTop \notin DOMAIN body.blocks
  /\ exVisited' = exVisited \cup {ExTop}
  /\ PopExtract
  /\ UNCHANGED <<exStatus, params, returns, source>>
SeenPeek ==
  /\ exStatus = "running" /\ exStack # <<>> /\ ExTop \in exVisited
  /\ UNCHANGED extractVars

ExtractSeen ==
  /\ exStatus = "running" /\ exStack # <<>> /\ ExTop \in exVisited
  /\ PopExtract
  /\ UNCHANGED <<exStatus, exVisited, params, returns, source>>

ExtractMissing ==
  /\ exStatus = "running" /\ exStack # <<>> /\ ExTop \notin exVisited
  /\ ExTop \notin DOMAIN body.blocks
  /\ exStatus' = "NoReturnPlace"
  /\ exVisited' = exVisited \cup {ExTop}
  /\ PopExtract
  /\ UNCHANGED <<params, returns, source>>

ExtractBlock ==
  /\ exStatus = "running" /\ exStack # <<>> /\ ExTop \notin exVisited
  /\ ExTop \in DOMAIN body.blocks
  /\ exVisited' = exVisited \cup {ExTop}
  /\ source' = source \o BlockLines(body.blocks[ExTop])
  /\ exStack' = SX!Front(exStack) \o Targets(body.blocks[ExTop].terminator)
  /\ UNCHANGED <<exStatus, params, returns>>

EndExtract ==
  /\ exStatus = "running" /\ exStack = <<>>
  /\ exStatus' = "ok"
  /\ UNCHANGED <<exStack, exVisited, params, returns, source>>

ExtractStep == BeginExtract \/ ExtractSeen \/ ExtractMissing \/ ExtractBlock \/ EndExtract
-----------------------------------------------------------------------------
(* What the source means.                                                  *)

OperandNames(op) == IF op.kind = "local" THEN {op.of} ELSE {}
NamesRead(line) ==
  CASE line.kind = "let" -> OperandNames(line.rvalue.a) \cup OperandNames(line.rvalue.b)
    [] line.kind = "check" -> OperandNames(line.op)
    [] line.kind = "tail" -> {line.name}
    [] OTHER -> {}

\* A scope is what is declared in it, the innermost last.
Variable(ty, value) == [ty |-> ty, value |-> value]
InScope(scopes, name) == \E i \in DOMAIN scopes : name \in DOMAIN scopes[i]
Innermost(scopes, name) ==
  LET i == CHOOSE j \in DOMAIN scopes :
             name \in DOMAIN scopes[j] /\ \A k \in (j + 1)..Len(scopes) : name \notin DOMAIN scopes[k]
  IN  scopes[i][name]
Declare(scopes, name, variable) ==
  [scopes EXCEPT ![Len(scopes)] =
     [x \in DOMAIN @ \cup {name} |-> IF x = name THEN variable ELSE @[x]]]
Meant(op, scopes) ==
  CASE op.kind = "nat" -> op.of
    [] op.kind = "bool" -> Truth(op.of)
    [] op.kind = "local" -> Innermost(scopes, op.of).value
LetValue(rv, scopes) == Apply(rv.op, Meant(rv.a, scopes), Meant(rv.b, scopes))

\* The types of what is in scope: those of the locals of a function of rustc.
Typing(scopes) ==
  [locals |-> [x \in UNION {DOMAIN scopes[i] : i \in DOMAIN scopes} |-> Innermost(scopes, x).ty]]
Inferred(line, scopes) ==
  LET a == line.rvalue.a
      b == line.rvalue.b
  IN  CASE line.rvalue.op = "le" \/ a.kind = "bool" -> "bool"
        [] line.rvalue.op # "le" /\ a.kind = "local" -> Innermost(scopes, a.of).ty
        [] line.rvalue.op # "le" /\ a.kind = "nat" /\ b.kind = "local" -> Innermost(scopes, b.of).ty
        [] OTHER -> line.ty
Accepted(line, scopes) ==
  /\ \A x \in NamesRead(line) : InScope(scopes, x)
  /\ line.kind = "let" =>
       line.name \notin Illegal /\ RvalueTyped(Typing(scopes), line.rvalue, Inferred(line, scopes))
  /\ line.kind = "check" => OperandTyped(Typing(scopes), line.op, "bool")

NoResult == Variable(None, 0)
Going(scopes) == [verdict |-> "going", result |-> NoResult, scopes |-> scopes]
Ended(verdict, result) == [verdict |-> verdict, result |-> result, scopes |-> <<>>]

\* One line of a debug build, in which an assertion is checked.
AfterLine(st, line) ==
  IF st.verdict # "going" THEN st
  ELSE IF ~Accepted(line, st.scopes) THEN Ended("rejected", NoResult)
  ELSE CASE line.kind = "open" -> Going(Append(st.scopes, <<>>))
         [] line.kind = "close" -> Going(SX!Front(st.scopes))
         [] line.kind = "let" ->
              Going(Declare(st.scopes, line.name,
                            Variable(Inferred(line, st.scopes), LetValue(line.rvalue, st.scopes))))
         [] line.kind = "check" ->
              IF Meant(line.op, st.scopes) = Truth(line.expected) THEN st ELSE Ended("panicked", NoResult)
         [] line.kind = "tail" -> Ended("returned", Innermost(st.scopes, line.name))
\* The state after the first i lines, from the one before them.
RunTo(start, lines, i, after) == IF i = 0 THEN start ELSE AfterLine(after[i - 1], lines[i])
RunUpTo(start, lines) ==
  LET after[i \in 0..Len(lines)] == RunTo(start, lines, i, after) IN after
RunLines(start, lines) == RunUpTo(start, lines)[Len(lines)]
Started(ps, arguments) ==
  Going(<<[x \in {ps[k].name : k \in DOMAIN ps} |->
             LET k == CHOOSE j \in DOMAIN ps : ps[j].name = x
             IN  Variable(ps[k].ty, arguments[k])]>>)

\* A type with a name rustc may not know is taken for one it does not.
KnownType == Integer \cup {"bool"}
SignatureAccepted(ps, ty) ==
  /\ ty \in KnownType
  /\ \A k \in DOMAIN ps : ps[k].name \notin Illegal /\ ps[k].ty \in KnownType
  /\ \A j, k \in DOMAIN ps : ps[j].name = ps[k].name => j = k
\* What the tail says has the type returned, and there is one.
RunSource(ps, ty, lines, arguments) ==
  LET end == RunLines(Started(ps, arguments), lines)
  IN  IF \/ ~SignatureAccepted(ps, ty)
         \/ end.verdict = "going"
         \/ end.verdict = "returned" /\ end.result.ty # ty
      THEN Ended("rejected", NoResult)
      ELSE end
=============================================================================
