----------------------------- MODULE VerifyBody -----------------------------
(***************************************************************************)
(* `verify_body`: a walk over the blocks reachable from block 0 that       *)
(* inlines every local into a kernel term over the arguments, checks the   *)
(* type of each assignment, and submits the obligation of each assertion   *)
(* and unsafe block to the tactic engine or to the kernel.                 *)
(*                                                                         *)
(* A kernel term over the arguments is modelled by its type, by the value  *)
(* it has under each argument tuple, and by whether `term_to_expr` can     *)
(* translate it. The tactic engine is trusted to be sound and nothing      *)
(* else: it may discharge a valid obligation and may give up on any.       *)
(***************************************************************************)
EXTENDS Mir

VARIABLES status,  \* "running", "ok" or the error returned
          stack,   \* blocks to visit
          visited,
          block,   \* the block being verified, None between two
          pc,      \* the statement to verify next; the terminator after the last
          values,  \* the inlined value of every local assigned so far
          report   \* outcomes: where, and what discharged it

vars == <<body, status, stack, visited, block, pc, values, report>>

\* Mutant: arguments are numbered from the innermost binder.
ArgVarReversed(b, k) ==
  [ty |-> DeclaredType(b, b.args[k]), den |-> [v \in Inputs(b) |-> v[Len(b.args) + 1 - k]],
   arith |-> TRUE]

Term(ty, den, arith) == [ty |-> ty, den |-> den, arith |-> arith]
ConstTerm(ty, n) == Term(ty, [v \in Inputs(body) |-> n], TRUE)
ArgVar(b, k) == Term(DeclaredType(b, b.args[k]), [v \in Inputs(b) |-> v[k]], TRUE)

\* An argument is the variable that stands for it.
ArgValues(b) ==
  [l \in {b.args[k] : k \in DOMAIN b.args} |->
     ArgVar(b, CHOOSE k \in DOMAIN b.args : b.args[k] = l)]

Init == /\ body \in Bodies
        /\ status = "running"
        /\ stack = <<0>>
        /\ visited = {}
        /\ block = None
        /\ pc = 1
        /\ values = ArgValues(body)
        /\ report = <<>>
-----------------------------------------------------------------------------
Reads(op) == IF op.kind = "local" THEN {op.of} ELSE {}
Assigned(op) == Reads(op) \subseteq DOMAIN values
RvalueAssigned(rv) == Assigned(rv.a) /\ Assigned(rv.b)

OperandTerm(op) ==
  CASE op.kind = "nat" -> ConstTerm("Nat", op.of)
    [] op.kind = "bool" -> ConstTerm("Bool", Truth(op.of))
    [] op.kind = "local" -> values[op.of]

\* `infer` on the term of an rvalue.
InferredType(rv) ==
  LET a == OperandTerm(rv.a)
      b == OperandTerm(rv.b)
  IN  CASE rv.op = "use" -> a.ty
        [] rv.op # "use" /\ a.ty = "Nat" /\ b.ty = "Nat" ->
             IF rv.op = "le" THEN "Bool" ELSE "Nat"
        [] OTHER -> "ill-typed"

RvalueTerm(rv) ==
  LET a == OperandTerm(rv.a)
      b == OperandTerm(rv.b)
  IN  Term(InferredType(rv), [v \in Inputs(body) |-> Apply(rv.op, a.den[v], b.den[v])],
           a.arith /\ b.arith)

\* discharge_bool: the ways an obligation that `term` equals `expected` ends.
Valid(term, expected) == \A v \in Inputs(body) : term.den[v] = Truth(expected)
Dischargeable(term, expected) == term.arith /\ Valid(term, expected)

\* check_unsafe_proof. Only the assumption, pushed as a hypothesis, can have a
\* proposition as its type, and it has the assumption as its type; without
\* one, a proof would have to be `true`, whose type is Bool.
\* Mutant: the hypothesis proves whatever is asked.
ProofUnasked(s) == s.proof = "hypothesis"
ProofChecks(s) == s.proof = "hypothesis" /\ s.assumption = s.obligation
ProofComputesToTrue(s) == s.proof = "true"
ProofAccepted(s) == ProofChecks(s) /\ (s.assumption = None => ProofComputesToTrue(s))

Statements(b) == body.blocks[b].statements
Terminator(b) == body.blocks[b].terminator
InBlock == status = "running" /\ block # None
AtStatement(kind) ==
  InBlock /\ pc <= Len(Statements(block)) /\ Statements(block)[pc].kind = kind
AtTerminator(kind) ==
  InBlock /\ pc = Len(Statements(block)) + 1 /\ Terminator(block).kind = kind

Fail(error) ==
  /\ status' = error
  /\ UNCHANGED <<body, stack, visited, block, pc, values, report>>

Outcome(by) == [at |-> <<block, pc>>, by |-> by]
-----------------------------------------------------------------------------
(* The walk.                                                               *)

Popped == status = "running" /\ block = None /\ stack # <<>>
TopBlock == stack[Len(stack)]
Pop == stack' = SubSeq(stack, 1, Len(stack) - 1)

\* Mutant: the block is looked at and left on the stack.
RevisitPeek ==
  /\ Popped
  /\ TopBlock \in visited
  /\ UNCHANGED vars

Revisit ==
  /\ Popped
  /\ TopBlock \in visited
  /\ Pop
  /\ UNCHANGED <<body, status, visited, block, pc, values, report>>

MissingBlock ==
  /\ Popped
  /\ TopBlock \notin visited
  /\ TopBlock \notin DOMAIN body.blocks
  /\ Pop
  /\ visited' = visited \cup {TopBlock}
  /\ status' = "MissingBlock"
  /\ UNCHANGED <<body, block, pc, values, report>>

\* Mutant: the block is not marked as visited.
EnterUnmarked ==
  /\ Popped
  /\ TopBlock \notin visited
  /\ TopBlock \in DOMAIN body.blocks
  /\ Pop
  /\ block' = TopBlock
  /\ pc' = 1
  /\ UNCHANGED <<body, status, visited, values, report>>

Enter ==
  /\ Popped
  /\ TopBlock \notin visited
  /\ TopBlock \in DOMAIN body.blocks
  /\ Pop
  /\ visited' = visited \cup {TopBlock}
  /\ block' = TopBlock
  /\ pc' = 1
  /\ UNCHANGED <<body, status, values, report>>

Done ==
  /\ status = "running" /\ block = None /\ stack = <<>>
  /\ status' = "ok"
  /\ UNCHANGED <<body, stack, visited, block, pc, values, report>>

Leave(targets) ==
  /\ stack' = stack \o targets
  /\ block' = None
  /\ UNCHANGED <<body, visited, pc, values>>

TakeReturn == AtTerminator("return") /\ Leave(<<>>) /\ UNCHANGED <<status, report>>
TakeGoto ==
  AtTerminator("goto") /\ Leave(<<Terminator(block).target>>) /\ UNCHANGED <<status, report>>
-----------------------------------------------------------------------------
(* Statements.                                                             *)

\* Mutant: the type of the assigned expression is not compared.
AssignUntyped ==
  /\ AtStatement("assign")
  /\ LET s == Statements(block)[pc]
     IN  /\ RvalueAssigned(s.rvalue)
         /\ values' = [l \in DOMAIN values \cup {s.place} |->
                         IF l = s.place THEN RvalueTerm(s.rvalue) ELSE values[l]]
  /\ pc' = pc + 1
  /\ UNCHANGED <<body, status, stack, visited, block, report>>

AssignLocal ==
  /\ AtStatement("assign")
  /\ LET s == Statements(block)[pc]
     IN  /\ RvalueAssigned(s.rvalue)
         /\ InferredType(s.rvalue) = DeclaredType(body, s.place)
         /\ values' = [l \in DOMAIN values \cup {s.place} |->
                         IF l = s.place THEN RvalueTerm(s.rvalue) ELSE values[l]]
  /\ pc' = pc + 1
  /\ UNCHANGED <<body, status, stack, visited, block, report>>

AssignFails ==
  /\ AtStatement("assign")
  /\ LET s == Statements(block)[pc]
     IN  \/ ~RvalueAssigned(s.rvalue) /\ Fail("UnassignedLocal")
         \/ /\ RvalueAssigned(s.rvalue)
            /\ InferredType(s.rvalue) # DeclaredType(body, s.place)
            /\ Fail("IllTypedAssignment")

UnsafeBy(by) ==
  /\ report' = Append(report, Outcome(by))
  /\ pc' = pc + 1
  /\ UNCHANGED <<body, status, stack, visited, block, values>>

AtObligation == AtStatement("unsafe") /\ Statements(block)[pc].obligation.ty = "Bool"

UnsafeProved ==
  /\ AtObligation
  /\ LET s == Statements(block)[pc]
     IN  s.proof # None /\ ProofAccepted(s) /\ UnsafeBy("kernel")

UnsafeDischarged ==
  /\ AtObligation
  /\ LET s == Statements(block)[pc]
     IN  s.proof = None /\ Dischargeable(s.obligation, TRUE) /\ UnsafeBy("auto")

UnsafeUnchecked ==
  /\ AtObligation
  /\ LET s == Statements(block)[pc]
     IN  s.proof = None /\ ~s.obligation.arith /\ UnsafeBy("unchecked")

UnsafeFails ==
  /\ AtStatement("unsafe")
  /\ LET s == Statements(block)[pc]
         assumed == s.proof # None /\ s.assumption # None
     IN  CASE s.obligation.ty # "Bool" -> Fail("IllFormedObligation")
           [] s.obligation.ty = "Bool" /\ assumed /\ s.assumption.ty # "Bool" ->
                Fail("IllFormedAssumption")
           [] OTHER -> \/ s.proof # None /\ ~ProofAccepted(s) /\ Fail("UnsafeNotJustified")
                       \/ s.proof = None /\ s.obligation.arith /\ Fail("ObligationFailed")
-----------------------------------------------------------------------------
(* Assertions. The walk builds its terms from numerals, truth values,      *)
(* variables and add, mul and le: all can be translated, and no assertion  *)
(* is ever left unchecked (see TypeOK).                                    *)

AssertReady == AtTerminator("assert") /\ Assigned(Terminator(block).condition)
Condition == OperandTerm(Terminator(block).condition)

\* Mutants: whatever was proved last is taken for the assertion; its outcome
\* is not recorded.
AssertAssumed ==
  /\ AssertReady /\ Condition.ty = "Bool" /\ Condition.arith
  /\ report' = Append(report, Outcome("auto"))
  /\ Leave(<<Terminator(block).target>>)
  /\ UNCHANGED status
AssertSilent ==
  /\ AssertReady /\ Condition.ty = "Bool"
  /\ Dischargeable(Condition, Terminator(block).expected)
  /\ Leave(<<Terminator(block).target>>)
  /\ UNCHANGED <<status, report>>

AssertDischarged ==
  /\ AssertReady /\ Condition.ty = "Bool"
  /\ Dischargeable(Condition, Terminator(block).expected)
  /\ report' = Append(report, Outcome("auto"))
  /\ Leave(<<Terminator(block).target>>)
  /\ UNCHANGED status

AssertFails ==
  /\ AtTerminator("assert")
  /\ \/ ~Assigned(Terminator(block).condition) /\ Fail("UnassignedLocal")
     \/ AssertReady /\ Condition.ty # "Bool" /\ Fail("IllFormedObligation")
     \/ AssertReady /\ Condition.ty = "Bool" /\ Condition.arith /\ Fail("ObligationFailed")
-----------------------------------------------------------------------------
Walk == Revisit \/ MissingBlock \/ Enter \/ Done \/ TakeReturn \/ TakeGoto
Statement ==
  \/ AssignLocal \/ AssignFails
  \/ UnsafeProved \/ UnsafeDischarged \/ UnsafeUnchecked \/ UnsafeFails
Assertion == AssertDischarged \/ AssertFails

Next == Walk \/ Statement \/ Assertion
Spec == Init /\ [][Next]_vars

AllDischarged == \A i \in DOMAIN report : report[i].by # "unchecked"
-----------------------------------------------------------------------------
Errors ==
  {"UnassignedLocal", "IllTypedAssignment", "IllFormedObligation", "IllFormedAssumption",
   "UnsafeNotJustified", "ObligationFailed", "MissingBlock"}

\* One block at most is waiting, the one in progress has been marked, and every
\* inlined value is a term the solver can be given.
WalkOK ==
  /\ status \in {"running", "ok"} \cup Errors
  /\ stack = <<>> \/ (stack = <<stack[1]>> /\ block = None)
  /\ block # None =>
       /\ block \in DOMAIN body.blocks \cap visited
       /\ pc \in 1..(Len(Statements(block)) + 1)
  /\ \A l \in DOMAIN values : values[l].arith /\ DOMAIN values[l].den = Inputs(body)
  /\ report \in Seq([at : Nat \X Nat, by : {"kernel", "auto", "unchecked"}])

\* Type invariant of the walk of a body.
TypeOK == body \in Bodies /\ WalkOK

\* Every local, argument or assigned, has the type it is declared with, and a
\* local of type bool is 0 or 1 whatever the arguments (verify_statements, the
\* conversion test on each assignment).
ValuesTyped ==
  \A l \in DOMAIN values :
    /\ values[l].ty = DeclaredType(body, l)
    /\ values[l].ty = "Bool" => \A v \in Inputs(body) : values[l].den[v] \in {0, 1}

\* The obligations of a block.
Sites(b) ==
  {<<b, i>> : i \in {j \in DOMAIN Statements(b) : Statements(b)[j].kind = "unsafe"}}
    \cup (IF Terminator(b).kind = "assert" THEN {<<b, Len(Statements(b)) + 1>>} ELSE {})

\* A report that comes with success accounts for every obligation of every
\* block walked, once each: none is skipped on the way (verify_body).
ReportComplete ==
  status = "ok" =>
    /\ {report[i].at : i \in DOMAIN report} = UNION {Sites(b) : b \in visited}
    /\ \A i, j \in DOMAIN report : report[i].at = report[j].at => i = j
=============================================================================
