------------------------------- MODULE Ingest -------------------------------
(***************************************************************************)
(* Ingestion of a function compiled by rustc: its MIR is translated, block *)
(* by block, into a MIR-lite body, and the body is verified. A function    *)
(* has the shape of a MIR-lite body with more in it: integer types, signed *)
(* ones too, other statements and operators, switches and calls. Nothing   *)
(* is shared between the functions of a file, so one of them is followed.  *)
(***************************************************************************)
EXTENDS VerifyBody, Integers, FiniteSets

CONSTANTS Functions,   \* functions, as rustc gives them
          HandWritten, \* MIR-lite bodies that were not ingested
          WordSize     \* bound: how many values an integer has (2^64)

VARIABLE function  \* the function ingested, None for a body written by hand

ingestVars == <<function, vars>>

\* What rustc has and MIR-lite has not.
Sub(a, b) == [op |-> "sub", a |-> a, b |-> b]
Lt(a, b) == [op |-> "lt", a |-> a, b |-> b]
Projection(l) == [kind |-> "projection", of |-> l]
Storage == [kind |-> "storage"]
OtherStatement == [kind |-> "other"]
Call == [kind |-> "call"]
\* branches: a sequence of <<value, block>>.
Switch(discr, branches, otherwise) ==
  [kind |-> "switch", discr |-> discr, branches |-> branches, otherwise |-> otherwise]
-----------------------------------------------------------------------------
(* The translation.                                                        *)

\* Mutant: the value of the branch is the one asserted.
ExpectedOfBranch(value) == value = 1
\* The value of the only branch leads to the panic.
Expected(value) == value # 1

\* A constant of the size of a pointer is read as its bits; one of another
\* size (a truth value) is refused.
TranslateOperand(op) == IF op.kind = "nat" THEN NatConst(op.of % WordSize) ELSE op
OperandSupported(op) == op.kind \in {"nat", "local"}

TranslateRvalue(rv) ==
  [op |-> rv.op, a |-> TranslateOperand(rv.a), b |-> TranslateOperand(rv.b)]
RvalueSupported(rv) ==
  /\ rv.op \in {"use", "add", "mul", "le"}
  /\ OperandSupported(rv.a) /\ OperandSupported(rv.b)

StatementSupported(s) ==
  \/ s.kind = "storage"
  \/ s.kind = "assign" /\ RvalueSupported(s.rvalue)
TranslateStatement(s) ==
  IF s.kind = "assign" THEN <<Assign(s.place, TranslateRvalue(s.rvalue))>> ELSE <<>>
\* What the first i statements are translated to.
Extended(ss, i, upTo) == IF i = 0 THEN <<>> ELSE upTo[i - 1] \o TranslateStatement(ss[i])
TranslatedUpTo(ss) == LET upTo[i \in 0..Len(ss)] == Extended(ss, i, upTo) IN upTo
TranslateStatements(ss) == TranslatedUpTo(ss)[Len(ss)]

AssertShape(t) == Len(t.branches) = 1 /\ t.branches[1][1] \in {0, 1}
TerminatorSupported(t) ==
  \/ t.kind \in {"return", "goto"}
  \/ t.kind = "assert" /\ OperandSupported(t.condition)
  \/ t.kind = "switch" /\ AssertShape(t) /\ OperandSupported(t.discr)
TranslateTerminator(t) ==
  CASE t.kind \in {"return", "goto"} -> t
    [] t.kind = "assert" -> Assert(TranslateOperand(t.condition), t.expected, t.target)
    [] t.kind = "switch" ->
         Assert(TranslateOperand(t.discr), Expected(t.branches[1][1]), t.otherwise)

BlockSupported(b) ==
  /\ \A i \in DOMAIN b.statements : StatementSupported(b.statements[i])
  /\ TerminatorSupported(b.terminator)
TranslateBlock(b) == Block(TranslateStatements(b.statements), TranslateTerminator(b.terminator))

\* Only the success edge of an assertion or a switch is followed.
Successors(t) ==
  CASE t.kind \in {"goto", "assert"} -> {t.target}
    [] t.kind = "switch" -> {t.otherwise}
    [] OTHER -> {}
Closed(f, bs) == 0 \in bs /\ \A b \in bs : Successors(f.blocks[b].terminator) \subseteq bs
Reachable(f) ==
  {b \in DOMAIN f.blocks : \A bs \in SUBSET DOMAIN f.blocks : Closed(f, bs) => b \in bs}

Translatable(f) == \A b \in Reachable(f) : BlockSupported(f.blocks[b])
\* map_ty keeps the types of the locals.
TranslateBody(f) ==
  MirBody(f.args, f.locals,
          [b \in DOMAIN f.blocks |->
             IF b \in Reachable(f) THEN TranslateBlock(f.blocks[b]) ELSE Block(<<>>, Return)])
-----------------------------------------------------------------------------
(* What rustc accepts: the types it has checked, blocks that are there.     *)

RustType(f, l) == IF l \in DOMAIN f.locals THEN f.locals[l] ELSE "usize"
Values(ty) ==
  CASE ty = "isize" -> (-(WordSize \div 2))..(WordSize \div 2 - 1)
    [] ty \in Integer \ {"isize"} -> 0..(WordSize - 1)
    [] OTHER -> {0, 1}

OperandTyped(f, op, ty) ==
  \/ op.kind = "nat" /\ ty \in Integer /\ op.of \in Values(ty)
  \/ op.kind = "bool" /\ ty = "bool" /\ op.of \in BOOLEAN
  \/ op.kind \in {"local", "projection"} /\ RustType(f, op.of) = ty
BothTyped(f, rv, ty) == OperandTyped(f, rv.a, ty) /\ OperandTyped(f, rv.b, ty)
RvalueTyped(f, rv, ty) ==
  \/ rv.op = "use" /\ BothTyped(f, rv, ty)
  \/ rv.op \in {"add", "sub", "mul"} /\ ty \in Integer /\ BothTyped(f, rv, ty)
  \/ rv.op \in {"le", "lt"} /\ ty = "bool" /\ \E t \in Integer : BothTyped(f, rv, t)
TerminatorTyped(f, t) ==
  /\ t.kind = "assert" => OperandTyped(f, t.condition, "bool")
  /\ t.kind = "switch" =>
       /\ DOMAIN t.branches = 1..Len(t.branches)
       /\ \E ty \in Integer \cup {"bool"} : OperandTyped(f, t.discr, ty)
  /\ Successors(t) \subseteq DOMAIN f.blocks
FunctionTyped(f) ==
  /\ Len(f.args) \in Nat /\ DOMAIN f.args = 1..Len(f.args)
  /\ DOMAIN f.blocks \subseteq Nat
  /\ 0 \in DOMAIN f.blocks /\ None \notin DOMAIN f.blocks
  /\ \A b \in DOMAIN f.blocks :
       LET ss == f.blocks[b].statements
       IN  /\ Len(ss) \in Nat /\ DOMAIN ss = 1..Len(ss)
           /\ \A i \in DOMAIN ss :
                /\ ss[i].kind \in {"assign", "storage", "other"}
                /\ ss[i].kind = "assign" =>
                     RvalueTyped(f, ss[i].rvalue, RustType(f, ss[i].place))
           /\ TerminatorTyped(f, f.blocks[b].terminator)

ASSUME WordSizeAssumption ==
  WordSize \in Nat \ {0} /\ WordSize % 2 = 0 /\ 0..(WordSize - 1) \subseteq Word
ASSUME FunctionsAssumption == None \notin Functions /\ \A f \in Functions : FunctionTyped(f)
ASSUME HandWrittenAssumption == \A b \in HandWritten : WellFormedBody(b)
-----------------------------------------------------------------------------
NoBody == MirBody(<<>>, <<>>, <<>>)

IngestInit ==
  /\ \/ function \in Functions /\ body = NoBody /\ status = "ingesting"
     \/ function = None /\ body \in HandWritten /\ status = "running"
  /\ stack = <<0>> /\ visited = {} /\ block = None /\ pc = 1
  /\ values = ArgValues(body)
  /\ report = <<>>

Translate ==
  /\ status = "ingesting" /\ Translatable(function)
  /\ body' = TranslateBody(function)
  /\ values' = ArgValues(body')
  /\ status' = "running"
  /\ UNCHANGED <<function, stack, visited, block, pc, report>>

Refuse ==
  /\ status = "ingesting" /\ ~Translatable(function)
  /\ Fail("Untranslatable")
  /\ UNCHANGED function

IngestNext == Translate \/ Refuse \/ (Next /\ UNCHANGED function)
=============================================================================
