----------------------------- MODULE WalkProofs -----------------------------
(***************************************************************************)
(* Lemmas about the walk of `verify_body` and its history, for every       *)
(* well-formed body, wherever it comes from.                               *)
(***************************************************************************)
EXTENDS History, TLAPS

Typed == WellFormedBody(body) /\ WalkOK
-----------------------------------------------------------------------------
(* A stack of at most one block.                                           *)

\* Popping the only block of a stack yields that block and the empty stack.
LEMMA PopOne ==
  ASSUME NEW t, NEW s, s = <<t>>
  PROVE  s[Len(s)] = t /\ SubSeq(s, 1, Len(s) - 1) = <<>> /\ s # <<>>
OBVIOUS

\* Pushing the targets of a terminator on the empty stack.
LEMMA PushOne ==
  ASSUME NEW t
  PROVE  <<>> \o <<t>> = <<t>> /\ <<>> \o <<>> = <<>>
OBVIOUS

\* Appending an outcome keeps the outcomes recorded before.
LEMMA AppendKeeps ==
  ASSUME NEW S, NEW s \in Seq(S), NEW e \in S
  PROVE  /\ Append(s, e) \in Seq(S)
         /\ \A i \in DOMAIN s : i \in DOMAIN Append(s, e) /\ Append(s, e)[i] = s[i]
         /\ Len(s) + 1 \in DOMAIN Append(s, e) /\ Append(s, e)[Len(s) + 1] = e
OBVIOUS
-----------------------------------------------------------------------------
(* Type correctness.                                                       *)

\* The statement or terminator the walk has reached is well formed.
LEMMA ReachedWellFormed ==
  ASSUME Typed, block # None
  PROVE  /\ WellFormedBlock(body.blocks[block])
         /\ block \in Nat
         /\ Len(Statements(block)) \in Nat
         /\ DOMAIN Statements(block) = 1..Len(Statements(block))
BY DEF Typed, WalkOK, WellFormedBody, WellFormedBlock, Statements

\* The term of an operand that has one can be translated, and has a value for
\* every argument tuple.
LEMMA OperandTermOK ==
  ASSUME Typed, NEW op, Operand(op), Assigned(op)
  PROVE  /\ OperandTerm(op).arith
         /\ DOMAIN OperandTerm(op).den = Inputs(body)
<1>1. CASE op.kind = "nat" BY <1>1 DEF OperandTerm, ConstTerm, Term
<1>2. CASE op.kind = "bool" BY <1>2 DEF OperandTerm, ConstTerm, Term
<1>3. CASE op.kind = "local"
  BY <1>3 DEF OperandTerm, Assigned, Reads, Typed, WalkOK
<1> QED BY <1>1, <1>2, <1>3 DEF Operand

\* Recording an outcome keeps the report well typed.
LEMMA ReportTyped ==
  ASSUME Typed, block # None, NEW by \in {"kernel", "auto", "unchecked"},
         pc \in Nat
  PROVE  /\ Outcome(by) \in [at : Nat \X Nat, by : {"kernel", "auto", "unchecked"}]
         /\ Append(report, Outcome(by)) \in Seq([at : Nat \X Nat, by : {"kernel", "auto", "unchecked"}])
<1>1. block \in Nat BY ReachedWellFormed
<1>2. Outcome(by) \in [at : Nat \X Nat, by : {"kernel", "auto", "unchecked"}]
  BY <1>1 DEF Outcome
<1> QED BY <1>2, AppendKeeps DEF Typed, WalkOK

\* Inlined values are typed after an assignment.
LEMMA AssignTyped ==
  ASSUME Typed, AssignLocal
  PROVE  Typed'
<1> DEFINE s == Statements(block)[pc]
<1>1. block # None /\ pc \in DOMAIN Statements(block) /\ s.kind = "assign"
  BY ReachedWellFormed DEF AssignLocal, AtStatement, InBlock, Typed, WalkOK
<1>2. Operand(s.rvalue.a) /\ Operand(s.rvalue.b)
  BY <1>1, ReachedWellFormed DEF WellFormedBlock, WellFormedStatement, Statements
<1>3. Assigned(s.rvalue.a) /\ Assigned(s.rvalue.b)
  BY DEF AssignLocal, RvalueAssigned
<1>4. RvalueTerm(s.rvalue).arith /\ DOMAIN RvalueTerm(s.rvalue).den = Inputs(body)
  BY <1>2, <1>3, OperandTermOK DEF RvalueTerm, Term
<1>5. \A l \in DOMAIN values' : values'[l].arith /\ DOMAIN values'[l].den = Inputs(body)
  BY <1>4 DEF AssignLocal, Typed, WalkOK
<1>6. pc' \in 1..(Len(Statements(block)) + 1)
  BY <1>1, ReachedWellFormed DEF AssignLocal, Typed, WalkOK
<1>7. UNCHANGED <<body, status, stack, visited, block, report>>
  BY DEF AssignLocal
<1> QED
  BY <1>5, <1>6, <1>7 DEF Typed, WalkOK, Statements

\* A step over an unsafe statement, whatever justified it.
LEMMA UnsafeTyped ==
  ASSUME Typed, AtStatement("unsafe"), NEW by \in {"kernel", "auto", "unchecked"}, UnsafeBy(by)
  PROVE  Typed'
<1>1. block # None /\ pc \in Nat /\ pc <= Len(Statements(block))
  BY ReachedWellFormed DEF AtStatement, InBlock, Typed, WalkOK
<1>2. report' \in Seq([at : Nat \X Nat, by : {"kernel", "auto", "unchecked"}])
  BY <1>1, ReportTyped DEF UnsafeBy
<1>3. pc' \in 1..(Len(Statements(block)) + 1)
  BY <1>1, ReachedWellFormed DEF UnsafeBy, Typed, WalkOK
<1>4. UNCHANGED <<body, status, stack, visited, block, values>>
  BY DEF UnsafeBy
<1> QED BY <1>2, <1>3, <1>4 DEF Typed, WalkOK, Statements

\* Leaving a block with at most one target.
LEMMA LeaveTyped ==
  ASSUME Typed, InBlock, NEW targets, targets = <<>> \/ \E t : targets = <<t>>,
         Leave(targets), status' = status,
         report' \in Seq([at : Nat \X Nat, by : {"kernel", "auto", "unchecked"}])
  PROVE  Typed'
<1>1. stack = <<>> BY DEF Typed, WalkOK, InBlock
<1>2. stack' = <<>> \/ \E t : stack' = <<t>> BY <1>1, PushOne DEF Leave
<1>3. stack' = <<>> \/ stack' = <<stack'[1]>> BY <1>2
<1> QED BY <1>3 DEF Typed, WalkOK, Leave

\* An error changes the status only.
LEMMA FailTyped ==
  ASSUME Typed, NEW e \in Errors, Fail(e)
  PROVE  Typed'
BY DEF Typed, WalkOK, Fail, Statements

\* A step is one of a verification in progress, and of the same body.
LEMMA NextRuns == Next => status = "running" /\ body' = body
BY DEF Next, Walk, Statement, Assertion, Revisit, MissingBlock, Enter, Done, TakeReturn, TakeGoto,
   Leave, AssignLocal, AssignFails, UnsafeProved, UnsafeDischarged, UnsafeUnchecked, UnsafeBy,
   UnsafeFails, AssertDischarged, AssertFails, AssertReady, AtObligation, AtStatement,
   AtTerminator, InBlock, Popped, Fail

\* Every step of the verification keeps Typed.
LEMMA NextTyped == Typed /\ Next => Typed'
<1> SUFFICES ASSUME Typed, Next PROVE Typed' OBVIOUS
<1>1. CASE Revisit
  <2>1. stack' = <<>> BY <1>1, PopOne DEF Revisit, Popped, Pop, Typed, WalkOK
  <2> QED BY <1>1, <2>1 DEF Revisit, Typed, WalkOK, Popped
<1>2. CASE MissingBlock
  <2>1. stack' = <<>> BY <1>2, PopOne DEF MissingBlock, Popped, Pop, Typed, WalkOK
  <2> QED BY <1>2, <2>1 DEF MissingBlock, Typed, WalkOK, Popped, Errors
<1>3. CASE Enter
  <2>1. stack' = <<>> BY <1>3, PopOne DEF Enter, Popped, Pop, Typed, WalkOK
  <2>2. block' \in DOMAIN body'.blocks \cap visited' BY <1>3 DEF Enter
  <2>3. pc' \in 1..(Len(Statements(block)') + 1)
    BY <1>3 DEF Enter, Typed, WalkOK, WellFormedBody, WellFormedBlock, Statements
  <2> QED BY <1>3, <2>1, <2>2, <2>3 DEF Enter, Typed, WalkOK, Popped
<1>4. CASE Done BY <1>4 DEF Done, Typed, WalkOK
<1>5. CASE TakeReturn
  BY <1>5, LeaveTyped DEF TakeReturn, AtTerminator, Typed, WalkOK
<1>6. CASE TakeGoto
  BY <1>6, LeaveTyped DEF TakeGoto, AtTerminator, Typed, WalkOK
<1>7. CASE AssignLocal BY <1>7, AssignTyped
<1>8. CASE AssignFails BY <1>8, FailTyped DEF AssignFails, Errors
<1>9. CASE UnsafeProved BY <1>9, UnsafeTyped DEF UnsafeProved, AtObligation
<1>10. CASE UnsafeDischarged BY <1>10, UnsafeTyped DEF UnsafeDischarged, AtObligation
<1>11. CASE UnsafeUnchecked BY <1>11, UnsafeTyped DEF UnsafeUnchecked, AtObligation
<1>12. CASE UnsafeFails BY <1>12, FailTyped DEF UnsafeFails, Errors
<1>13. CASE AssertDischarged
  <2>1. InBlock /\ block # None /\ pc \in Nat
    BY <1>13, ReachedWellFormed DEF AssertDischarged, AssertReady, AtTerminator, InBlock
  <2>2. report' \in Seq([at : Nat \X Nat, by : {"kernel", "auto", "unchecked"}])
    BY <1>13, <2>1, ReportTyped DEF AssertDischarged
  <2> QED BY <1>13, <2>1, <2>2, LeaveTyped DEF AssertDischarged
<1>14. CASE AssertFails BY <1>14, FailTyped DEF AssertFails, Errors
<1> QED
  BY <1>1, <1>2, <1>3, <1>4, <1>5, <1>6, <1>7, <1>8, <1>9, <1>10, <1>11, <1>12, <1>13, <1>14
     DEF Next, Walk, Statement, Assertion

-----------------------------------------------------------------------------
(* Every local has the type it is declared with.                           *)

\* The value of a boolean operand is 0 or 1.
LEMMA BooleanOperand ==
  ASSUME Typed, ValuesTyped, NEW op, Operand(op), Assigned(op), OperandTerm(op).ty = "Bool",
         NEW v \in Inputs(body)
  PROVE  OperandTerm(op).den[v] \in {0, 1}
<1>1. CASE op.kind = "nat" BY <1>1 DEF OperandTerm, ConstTerm, Term
<1>2. CASE op.kind = "bool" BY <1>2 DEF OperandTerm, ConstTerm, Term, Truth
<1>3. CASE op.kind = "local"
  BY <1>3 DEF OperandTerm, Assigned, Reads, ValuesTyped
<1> QED BY <1>1, <1>2, <1>3 DEF Operand

\* An expression inferred to be a bool is 0 or 1 for all arguments.
LEMMA BooleanRvalue ==
  ASSUME Typed, ValuesTyped, NEW rv, RvalueAssigned(rv), Operand(rv.a), Operand(rv.b),
         rv.op \in {"use", "add", "mul", "le"}, InferredType(rv) = "Bool", NEW v \in Inputs(body)
  PROVE  RvalueTerm(rv).den[v] \in {0, 1}
<1>1. RvalueTerm(rv).den[v] = Apply(rv.op, OperandTerm(rv.a).den[v], OperandTerm(rv.b).den[v])
  BY DEF RvalueTerm, Term
<1>2. CASE rv.op = "use"
  <2>1. OperandTerm(rv.a).ty = "Bool" BY <1>2 DEF InferredType
  <2>2. OperandTerm(rv.a).den[v] \in {0, 1} BY <2>1, BooleanOperand DEF RvalueAssigned
  <2> QED BY <1>1, <1>2, <2>2 DEF Apply
<1>3. CASE rv.op = "le" BY <1>1, <1>3 DEF Apply, Truth
<1>4. CASE rv.op \in {"add", "mul"} BY <1>4 DEF InferredType
<1> QED BY <1>2, <1>3, <1>4

-----------------------------------------------------------------------------
(* The report. While a body is verified, what is recorded is exactly the   *)
(* obligations of the blocks walked, up to the statement reached, each of  *)
(* them once.                                                              *)

Reported(p) == \E i \in DOMAIN report : report[i].at = p
Passed(p) ==
  p[1] \in visited /\ p \in Sites(p[1]) /\ (block = p[1] => p[2] < pc)

ReportInv ==
  status \in {"running", "ok"} =>
    /\ visited \subseteq DOMAIN body.blocks
    /\ status = "ok" => block = None
    /\ \A p : Reported(p) <=> Passed(p)
    /\ \A i, j \in DOMAIN report : report[i].at = report[j].at => i = j

\* An obligation is a position of its own block.
LEMMA SitePlaced ==
  ASSUME Typed, NEW b \in DOMAIN body.blocks, NEW p \in Sites(b)
  PROVE  p = <<b, p[2]>> /\ p[1] = b /\ p[2] \in 1..(Len(Statements(b)) + 1)
<1>1. WellFormedBlock(body.blocks[b]) BY DEF Typed, WalkOK, WellFormedBody
<1>2. Len(Statements(b)) \in Nat /\ DOMAIN Statements(b) = 1..Len(Statements(b))
  BY <1>1 DEF WellFormedBlock, Statements
<1> QED BY <1>2 DEF Sites

\* Whether the position reached is an obligation.
LEMMA SiteHere ==
  ASSUME Typed, block # None
  PROVE  <<block, pc>> \in Sites(block) <=>
           \/ pc <= Len(Statements(block)) /\ Statements(block)[pc].kind = "unsafe"
           \/ pc = Len(Statements(block)) + 1 /\ Terminator(block).kind = "assert"
<1>1. pc \in 1..(Len(Statements(block)) + 1) /\ Len(Statements(block)) \in Nat
      /\ DOMAIN Statements(block) = 1..Len(Statements(block))
  BY ReachedWellFormed DEF Typed, WalkOK
<1> QED BY <1>1 DEF Sites

\* Going past the position reached, to the next statement or out of the block.
LEMMA PassHere ==
  ASSUME Typed, ReportInv, InBlock, NEW p,
         UNCHANGED <<body, visited>>,
         \/ block' = block /\ pc' = pc + 1
         \/ block' = None /\ pc = Len(Statements(block)) + 1
  PROVE  Passed(p)' <=> Passed(p) \/ (p = <<block, pc>> /\ p \in Sites(block))
<1>1. /\ block \in DOMAIN body.blocks \cap visited /\ block # None
      /\ pc \in 1..(Len(Statements(block)) + 1) /\ Len(Statements(block)) \in Nat
      /\ visited \subseteq DOMAIN body.blocks
  BY ReachedWellFormed DEF Typed, WalkOK, InBlock, ReportInv
<1>2. \A b : Sites(b)' = Sites(b) BY DEF Sites, Statements, Terminator
<1>3. \A b \in visited : b # None BY <1>1 DEF Typed, WalkOK, WellFormedBody
<1>4. CASE p[1] = block /\ p \in Sites(block)
  <2>1. p = <<block, p[2]>> /\ p[2] \in 1..(Len(Statements(block)) + 1)
    BY <1>1, <1>4, SitePlaced
  <2> QED BY <1>1, <1>2, <1>4, <2>1 DEF Passed
<1>5. CASE ~(p[1] = block /\ p \in Sites(block))
  <2>1. ~(p = <<block, pc>> /\ p \in Sites(block)) BY <1>5
  <2>2. p[1] = block => ~Passed(p) /\ ~Passed(p)' BY <1>2, <1>5 DEF Passed
  <2>3. p[1] # block => (Passed(p)' <=> Passed(p)) BY <1>2, <1>3, <1>1 DEF Passed
  <2> QED BY <2>1, <2>2, <2>3
<1> QED BY <1>4, <1>5

\* A step past a position that is no obligation, with nothing recorded.
LEMMA SilentStep ==
  ASSUME Typed, ReportInv, InBlock, <<block, pc>> \notin Sites(block),
         UNCHANGED <<body, status, visited, report>>,
         \/ block' = block /\ pc' = pc + 1
         \/ block' = None /\ pc = Len(Statements(block)) + 1
  PROVE  ReportInv'
<1>1. \A p : Reported(p)' <=> Reported(p) BY DEF Reported
<1>2. \A p : Passed(p)' <=> Passed(p) BY PassHere
<1>3. status' = "running" BY DEF InBlock
<1> QED BY <1>1, <1>2, <1>3 DEF ReportInv, InBlock

\* A step past an obligation, with its outcome recorded.
LEMMA RecordedStep ==
  ASSUME Typed, ReportInv, InBlock, <<block, pc>> \in Sites(block),
         UNCHANGED <<body, status, visited>>,
         NEW by \in {"kernel", "auto", "unchecked"}, report' = Append(report, Outcome(by)),
         \/ block' = block /\ pc' = pc + 1
         \/ block' = None /\ pc = Len(Statements(block)) + 1
  PROVE  ReportInv'
<1> DEFINE S == [at : Nat \X Nat, by : {"kernel", "auto", "unchecked"}]
           n == Len(report) + 1
           here == <<block, pc>>
<1>1. block # None /\ pc \in Nat BY ReachedWellFormed DEF InBlock, Typed, WalkOK
<1>2. Outcome(by) \in S /\ report \in Seq(S) BY <1>1, ReportTyped DEF Typed, WalkOK
<1>3. Outcome(by).at = here BY DEF Outcome
<1> HIDE DEF S
<1>4. /\ n \notin DOMAIN report /\ DOMAIN report' = DOMAIN report \cup {n}
      /\ \A i \in DOMAIN report : report'[i] = report[i]
      /\ report'[n].at = here
  BY <1>2, <1>3
<1> HIDE DEF n
<1>5. \A p : Reported(p)' <=> Reported(p) \/ p = here BY <1>4 DEF Reported
<1>6. \A p : Passed(p)' <=> Passed(p) \/ p = here BY PassHere
<1>7. ~Passed(here) BY <1>1 DEF Passed
<1>8. status = "running" BY DEF InBlock
<1>9. ~Reported(here) BY <1>7, <1>8 DEF ReportInv
<1>10. \A i, j \in DOMAIN report' : report'[i].at = report'[j].at => i = j
  BY <1>4, <1>8, <1>9 DEF ReportInv, Reported
<1>11. (\A p : Reported(p) <=> Passed(p)) /\ visited \subseteq DOMAIN body.blocks
  BY <1>8 DEF ReportInv
<1> QED BY <1>5, <1>6, <1>8, <1>10, <1>11 DEF ReportInv

\* Every step of the verification keeps the report exact.
LEMMA ReportNext == Typed /\ ReportInv /\ Next => ReportInv'
<1> SUFFICES ASSUME Typed, ReportInv, Next PROVE ReportInv' OBVIOUS
<1>1. CASE Revisit
  BY <1>1 DEF Revisit, ReportInv, Reported, Passed, Sites, Statements, Terminator
<1>2. CASE Enter
  <2>1. PICK b : b = TopBlock OBVIOUS
  <2>2. /\ b \in DOMAIN body.blocks \ visited /\ visited' = visited \cup {b}
        /\ block = None /\ block' = b /\ pc' = 1 /\ status = "running"
        /\ UNCHANGED <<body, status, report>>
    BY <1>2, <2>1 DEF Enter, Popped
  <2>3. visited \subseteq DOMAIN body.blocks /\ \A p : Reported(p) <=> Passed(p)
    BY <2>2 DEF ReportInv
  <2>4. \A c : Sites(c)' = Sites(c) BY <2>2 DEF Sites, Statements, Terminator
  <2>5. \A c \in visited : c # b /\ c # None BY <2>2, <2>3 DEF Typed, WalkOK, WellFormedBody
  <2>6. \A p \in Sites(b) : ~(p[2] < 1)
    <3>1. \A p \in Sites(b) : p[2] \in 1..(Len(Statements(b)) + 1) BY <2>2, SitePlaced
    <3> QED BY <3>1
  <2>7. ASSUME NEW p PROVE Passed(p)' <=> Passed(p)
    <3>1. CASE p[1] = b BY <2>2, <2>4, <2>6, <3>1 DEF Passed
    <3>2. CASE p[1] # b BY <2>2, <2>4, <2>5, <3>2 DEF Passed
    <3> QED BY <3>1, <3>2
  <2>8. \A p : Reported(p)' <=> Reported(p) BY <2>2 DEF Reported
  <2> QED BY <2>2, <2>3, <2>7, <2>8 DEF ReportInv
<1>3. CASE Done
  BY <1>3 DEF Done, ReportInv, Reported, Passed, Sites, Statements, Terminator
<1>4. CASE TakeReturn \/ TakeGoto
  <2>1. /\ InBlock /\ block # None /\ pc = Len(Statements(block)) + 1
        /\ Terminator(block).kind # "assert"
        /\ block' = None /\ UNCHANGED <<body, status, visited, report>>
    BY <1>4 DEF TakeReturn, TakeGoto, AtTerminator, InBlock, Leave
  <2>2. ~(pc <= Len(Statements(block))) BY <2>1, ReachedWellFormed
  <2>3. <<block, pc>> \notin Sites(block) BY <2>1, <2>2, SiteHere
  <2> QED BY <2>1, <2>3, SilentStep
<1>5. CASE AssignLocal
  <2>1. /\ InBlock /\ block # None /\ pc <= Len(Statements(block))
        /\ Statements(block)[pc].kind = "assign"
        /\ block' = block /\ pc' = pc + 1 /\ UNCHANGED <<body, status, visited, report>>
    BY <1>5 DEF AssignLocal, AtStatement, InBlock
  <2>2. pc # Len(Statements(block)) + 1 BY <2>1, ReachedWellFormed
  <2>3. <<block, pc>> \notin Sites(block) BY <2>1, <2>2, SiteHere
  <2> QED BY <2>1, <2>3, SilentStep
<1>6. CASE UnsafeProved \/ UnsafeDischarged \/ UnsafeUnchecked
  <2>1. AtStatement("unsafe")
    BY <1>6 DEF UnsafeProved, UnsafeDischarged, UnsafeUnchecked, AtObligation
  <2>2. PICK by \in {"kernel", "auto", "unchecked"} : UnsafeBy(by)
    BY <1>6 DEF UnsafeProved, UnsafeDischarged, UnsafeUnchecked
  <2>3. InBlock /\ <<block, pc>> \in Sites(block)
    BY <2>1, SiteHere DEF AtStatement, InBlock
  <2>4. /\ block' = block /\ pc' = pc + 1 /\ report' = Append(report, Outcome(by))
        /\ UNCHANGED <<body, status, visited>>
    BY <2>2 DEF UnsafeBy
  <2> QED BY <2>3, <2>4, RecordedStep
<1>7. CASE AssertDischarged
  <2>1. AtTerminator("assert") /\ InBlock /\ block # None
    BY <1>7 DEF AssertDischarged, AssertReady, AtTerminator, InBlock
  <2>2. pc = Len(Statements(block)) + 1 /\ <<block, pc>> \in Sites(block)
    BY <2>1, SiteHere DEF AtTerminator
  <2>3. /\ block' = None /\ report' = Append(report, Outcome("auto"))
        /\ UNCHANGED <<body, status, visited>>
    BY <1>7 DEF AssertDischarged, Leave
  <2> QED BY <2>1, <2>2, <2>3, RecordedStep
<1>8. CASE MissingBlock \/ AssignFails \/ UnsafeFails \/ AssertFails
  <2>1. status' \notin {"running", "ok"}
    BY <1>8 DEF MissingBlock, AssignFails, UnsafeFails, AssertFails, Fail
  <2> QED BY <2>1 DEF ReportInv
<1> QED
  BY <1>1, <1>2, <1>3, <1>4, <1>5, <1>6, <1>7, <1>8 DEF Next, Walk, Statement, Assertion

-----------------------------------------------------------------------------
(* Soundness. The invariant of the walk says that every position passed so *)
(* far was passed rightly: the values recorded at the next position are    *)
(* those the step yields, the obligation met there holds for all arguments,*)
(* and the block a terminator leads to was entered, or is about to be,     *)
(* with the values the terminator was left with.                           *)

AllAuto == \A i \in DOMAIN report : report[i].by = "auto"

\* An operand under the values m: what it denotes, and when it has a term.
Has(m, op) == op.kind = "local" => op.of \in DOMAIN m
OpDen(m, op, v) ==
  CASE op.kind = "nat" -> op.of
    [] op.kind = "bool" -> Truth(op.of)
    [] op.kind = "local" -> m[op.of].den[v]

AssignTaken(b, s, m, n) ==
  /\ Has(m, s.rvalue.a) /\ Has(m, s.rvalue.b)
  /\ DOMAIN n = DOMAIN m \cup {s.place}
  /\ \A l \in DOMAIN n, v \in Inputs(b) :
       n[l].den[v] = IF l = s.place
                     THEN Apply(s.rvalue.op, OpDen(m, s.rvalue.a, v), OpDen(m, s.rvalue.b, v))
                     ELSE m[l].den[v]
UnsafeTaken(s, m, n) ==
  n = m /\ (AllAuto => \A v \in Inputs(body) : s.obligation.den[v] = 1)

StepTaken(p) ==
  LET s == Statements(p[1])[p[2]]
      n == <<p[1], p[2] + 1>>
  IN  /\ n \in DOMAIN trace
      /\ s.kind = "assign" => AssignTaken(body, s, trace[p], trace[n])
      /\ s.kind = "unsafe" => UnsafeTaken(s, trace[p], trace[n])

Reaches(t, m) ==
  \/ stack = <<t>> /\ values = m
  \/ <<t, 1>> \in DOMAIN trace /\ trace[<<t, 1>>] = m

ExitTaken(p) ==
  LET t == Terminator(p[1])
  IN  /\ t.kind # "return" => Reaches(t.target, trace[p])
      /\ t.kind = "assert" => /\ Has(trace[p], t.condition)
                              /\ \A v \in Inputs(body) :
                                   OpDen(trace[p], t.condition, v) = Truth(t.expected)

Taken(p) == IF p[2] <= Len(Statements(p[1])) THEN StepTaken(p) ELSE ExitTaken(p)
Current(p) == block # None /\ p = <<block, pc>>

PlacedRight(p) ==
  /\ p = <<p[1], p[2]>>
  /\ p[1] \in DOMAIN body.blocks \cap visited
  /\ p[2] \in 1..(Len(Statements(p[1])) + 1)

Walked ==
  /\ \A p \in DOMAIN trace : PlacedRight(p) /\ (Current(p) \/ Taken(p))
  /\ block # None =>
       /\ <<block, pc>> \in DOMAIN trace
       /\ trace[<<block, pc>>] = values
       /\ \A p \in DOMAIN trace : p[1] = block => p[2] <= pc
  /\ Reaches(0, ArgValues(body))
  /\ status = "ok" => block = None /\ stack = <<>>

WalkInv == status \in {"running", "ok"} /\ ~looped => Walked

\* A position passed rightly stays so when positions are added to the trace.
LEMMA TakenKept ==
  ASSUME body' = body, AllAuto' => AllAuto,
         \A q \in DOMAIN trace : q \in DOMAIN trace' /\ trace'[q] = trace[q],
         \A t, m : Reaches(t, m) => Reaches(t, m)',
         NEW p \in DOMAIN trace, PlacedRight(p), Taken(p)
  PROVE  Taken(p)'
<1>1. Statements(p[1])' = Statements(p[1]) /\ Terminator(p[1])' = Terminator(p[1])
  BY DEF Statements, Terminator
<1>2. trace'[p] = trace[p] OBVIOUS
<1>3. CASE p[2] <= Len(Statements(p[1]))
  <2> DEFINE s == Statements(p[1])[p[2]]
             n == <<p[1], p[2] + 1>>
  <2>1. StepTaken(p) BY <1>3 DEF Taken
  <2>2. n \in DOMAIN trace' /\ trace'[n] = trace[n] BY <2>1 DEF StepTaken
  <2>3. s.kind = "assign" => AssignTaken(body, s, trace[p], trace[n])
    BY <2>1 DEF StepTaken
  <2>4. s.kind = "unsafe" => UnsafeTaken(s, trace[p], trace[n])
    BY <2>1 DEF StepTaken
  <2>5. s.kind = "assign" => AssignTaken(body, s, trace[p], trace[n])'
    BY <1>1, <1>2, <2>2, <2>3
  <2>6. s.kind = "unsafe" => UnsafeTaken(s, trace[p], trace[n])'
    BY <1>1, <1>2, <2>2, <2>4 DEF UnsafeTaken
  <2>7. StepTaken(p)'
    BY <1>1, <2>2, <2>5, <2>6 DEF StepTaken
  <2> QED BY <1>1, <1>3, <2>7 DEF Taken
<1>4. CASE ~(p[2] <= Len(Statements(p[1])))
  <2> DEFINE t == Terminator(p[1])
  <2>1. ExitTaken(p) BY <1>4 DEF Taken
  <2>2. t.kind # "return" => Reaches(t.target, trace[p])'
    <3>1. t.kind # "return" => Reaches(t.target, trace[p]) BY <2>1 DEF ExitTaken
    <3>2. PICK target, m : target = t.target /\ m = trace[p] OBVIOUS
    <3>3. t.kind # "return" => Reaches(target, m) BY <3>1, <3>2
    <3>4. t.kind # "return" => Reaches(target, m)' BY <3>3
    <3>5. t'.target = target /\ trace'[p] = m BY <1>1, <1>2, <3>2
    <3> QED BY <3>4, <3>5, <1>1
  <2>3. t.kind = "assert" => /\ Has(trace[p], t.condition)'
                             /\ \A v \in Inputs(body)' : OpDen(trace[p], t.condition, v)' = Truth(t.expected)
    BY <1>1, <1>2, <2>1 DEF ExitTaken, OpDen, Has
  <2>4. ExitTaken(p)' BY <1>1, <2>2, <2>3 DEF ExitTaken
  <2> QED BY <1>1, <1>4, <2>4 DEF Taken
<1> QED BY <1>3, <1>4

\* Positions are kept when nothing is recorded and the stack is not popped.
LEMMA LeaveKeeps ==
  ASSUME Typed, block # None, body' = body, trace' = trace
  PROVE  /\ \A q \in DOMAIN trace : q \in DOMAIN trace' /\ trace'[q] = trace[q]
         /\ \A t, m : Reaches(t, m) => Reaches(t, m)'
<1>1. stack = <<>> BY DEF Typed, WalkOK
<1> QED BY <1>1 DEF Reaches

\* Leaving a block through a terminator that was passed rightly.
LEMMA LeaveWalked ==
  ASSUME Typed, Walked, InBlock, pc = Len(Statements(block)) + 1,
         NEW targets, Leave(targets), status' = status, trace' = trace,
         AllAuto' => AllAuto,
         NEW here, here = <<block, pc>>, ExitTaken(here)'
  PROVE  Walked'
<1>1. body' = body /\ visited' = visited /\ block' = None BY DEF Leave
<1>2. block # None /\ status' = "running" BY DEF InBlock
<1>3. /\ \A q \in DOMAIN trace : q \in DOMAIN trace' /\ trace'[q] = trace[q]
      /\ \A t, m : Reaches(t, m) => Reaches(t, m)'
  BY <1>1, <1>2, LeaveKeeps
<1>4. ASSUME NEW p \in DOMAIN trace PROVE PlacedRight(p)' /\ Taken(p)'
  <2>1. PlacedRight(p)' BY <1>1 DEF Walked, PlacedRight, Statements
  <2>2. CASE Current(p)
    <3>1. p = <<block, pc>> BY <2>2 DEF Current
    <3>2. p[1] = block /\ p[2] = pc BY <3>1
    <3>3. pc \in Nat /\ Len(Statements(block)) \in Nat
      <4>1. pc \in 1..(Len(Statements(block)) + 1) BY <1>2 DEF Typed, WalkOK
      <4> QED BY <1>2, <4>1, ReachedWellFormed
    <3>4. ~(p[2] <= Len(Statements(p[1])))' BY <1>1, <3>2, <3>3 DEF Statements
    <3>5. ExitTaken(p)' BY <3>1
    <3> QED BY <2>1, <3>4, <3>5 DEF Taken
  <2>3. CASE ~Current(p)
    <3>1. Taken(p) /\ PlacedRight(p) BY <2>3 DEF Walked
    <3> QED BY <1>1, <1>3, <2>1, <3>1, TakenKept
  <2> QED BY <2>2, <2>3
<1>5. Reaches(0, ArgValues(body))'
  <2>1. PICK m : m = ArgValues(body) OBVIOUS
  <2>2. Reaches(0, m)' BY <1>3, <2>1 DEF Walked
  <2>3. ArgValues(body') = m BY <1>1, <2>1
  <2> QED BY <2>2, <2>3
<1> QED BY <1>1, <1>2, <1>4, <1>5 DEF Walked

\* Going on to the next statement, past one that was passed rightly.
LEMMA AdvanceWalked ==
  ASSUME Typed, Walked, InBlock, pc \in DOMAIN Statements(block),
         UNCHANGED <<body, status, stack, visited, block>>, pc' = pc + 1,
         trace' = Recorded, AllAuto' => AllAuto,
         NEW s, s = Statements(block)[pc],
         s.kind = "assign" => AssignTaken(body, s, values, values'),
         s.kind = "unsafe" =>
           values' = values /\ (AllAuto' => \A v \in Inputs(body) : s.obligation.den[v] = 1)
  PROVE  Walked'
<1>1. block # None /\ status' = "running" /\ stack = <<>> BY DEF InBlock, Typed, WalkOK
<1>2. pc \in Nat /\ Len(Statements(block)) \in Nat
      /\ DOMAIN Statements(block) = 1..Len(Statements(block))
  BY <1>1, ReachedWellFormed DEF Typed, WalkOK
<1>3. PICK c, x, here, n : c = block /\ x = pc /\ here = <<c, x>> /\ n = <<c, x + 1>>
  OBVIOUS
<1>4. trace' = [p \in DOMAIN trace \cup {n} |-> IF p = n THEN values' ELSE trace[p]]
  BY <1>1, <1>3 DEF Recorded
<1>5. n \notin DOMAIN trace /\ here # n BY <1>1, <1>2, <1>3 DEF Walked
<1>6. here \in DOMAIN trace /\ trace[here] = values BY <1>1, <1>3 DEF Walked
<1>7. \A q \in DOMAIN trace : q \in DOMAIN trace' /\ trace'[q] = trace[q]
  BY <1>4, <1>5
<1>8. \A t, m : Reaches(t, m) => Reaches(t, m)'
  BY <1>1, <1>7 DEF Reaches
<1>9. n \in DOMAIN trace' /\ trace'[n] = values' /\ DOMAIN trace' = DOMAIN trace \cup {n}
  BY <1>4
<1>10. trace'[here] = values BY <1>6, <1>7
<1>11. \A b : Statements(b)' = Statements(b) BY DEF Statements
<1>12. here[1] = c /\ here[2] = x /\ <<here[1], here[2] + 1>> = n BY <1>3
<1>13. Statements(here[1])'[here[2]] = s BY <1>3, <1>11, <1>12
<1>14. StepTaken(here)'
  <2>1. s.kind = "unsafe" => UnsafeTaken(s, trace[here], trace[n])'
    BY <1>9, <1>10 DEF UnsafeTaken
  <2>2. s.kind = "assign" => AssignTaken(body', s, trace'[here], trace'[n])
    BY <1>9, <1>10
  <2> QED BY <1>9, <1>12, <1>13, <2>1, <2>2 DEF StepTaken
<1>15. Taken(here)' /\ ~Current(here)'
  <2>1. here[2] <= Len(Statements(here[1])') BY <1>2, <1>3, <1>11, <1>12
  <2> QED BY <1>2, <1>3, <1>12, <1>14, <2>1 DEF Taken, Current
<1>16. ASSUME NEW p \in DOMAIN trace PROVE PlacedRight(p)' /\ (Current(p)' \/ Taken(p)')
  <2>1. PlacedRight(p) BY DEF Walked
  <2>2. PlacedRight(p)' BY <2>1, <1>11 DEF PlacedRight
  <2>3. CASE Current(p) BY <2>2, <2>3, <1>3, <1>15 DEF Current
  <2>4. CASE ~Current(p)
    <3>1. Taken(p) BY <2>4 DEF Walked
    <3> QED BY <1>7, <1>8, <2>1, <2>2, <3>1, TakenKept
  <2> QED BY <2>3, <2>4
<1>17. PlacedRight(n)' /\ Current(n)'
  <2>1. Current(n)' BY <1>1, <1>3 DEF Current
  <2>2. PlacedRight(here) BY <1>6 DEF Walked
  <2>3. n[1] = here[1] /\ n[2] = x + 1 /\ n = <<n[1], n[2]>> BY <1>3
  <2>4. n[2] \in 1..(Len(Statements(n[1])') + 1)
    BY <1>2, <1>3, <1>11, <1>12, <2>3
  <2> QED BY <2>1, <2>2, <2>3, <2>4 DEF PlacedRight
<1>18. \A p \in DOMAIN trace' : p[1] = block' => p[2] <= pc'
  <2>1. \A p \in DOMAIN trace : p[1] = block => p[2] <= pc BY <1>1 DEF Walked
  <2>2. \A p \in DOMAIN trace : p[2] \in Nat
    <3> TAKE p \in DOMAIN trace
    <3>1. PlacedRight(p) BY DEF Walked
    <3> QED BY <3>1 DEF PlacedRight
  <2> QED BY <1>2, <1>3, <1>9, <2>1, <2>2
<1>19. Reaches(0, ArgValues(body))'
  <2>1. PICK m : m = ArgValues(body) OBVIOUS
  <2>2. Reaches(0, m)' BY <1>8, <2>1 DEF Walked
  <2> QED BY <2>1, <2>2
<1>20. <<block', pc'>> = n BY <1>3
<1> QED BY <1>1, <1>9, <1>16, <1>17, <1>18, <1>19, <1>20 DEF Walked

\* The value of an operand is that of the term it stands for.
LEMMA OperandDenotes ==
  ASSUME NEW op, Operand(op), Assigned(op), NEW v \in Inputs(body)
  PROVE  Has(values, op) /\ OpDen(values, op, v) = OperandTerm(op).den[v]
BY DEF Operand, Assigned, Reads, Has, OpDen, OperandTerm, ConstTerm, Term

\* What every outcome says, the outcomes before said.
LEMMA AutoBefore ==
  ASSUME Typed, block # None, pc \in Nat, NEW by \in {"kernel", "auto", "unchecked"},
         report' = Append(report, Outcome(by))
  PROVE  AllAuto' => AllAuto /\ by = "auto"
<1> DEFINE S == [at : Nat \X Nat, by : {"kernel", "auto", "unchecked"}]
<1>1. Outcome(by) \in S /\ report \in Seq(S) BY ReportTyped DEF Typed, WalkOK
<1>2. Outcome(by).by = by BY DEF Outcome
<1> HIDE DEF S
<1>3. /\ \A i \in DOMAIN report : i \in DOMAIN report' /\ report'[i] = report[i]
      /\ Len(report) + 1 \in DOMAIN report' /\ report'[Len(report) + 1] = Outcome(by)
  BY <1>1, AppendKeeps
<1> QED BY <1>2, <1>3 DEF AllAuto

\* Every step of the verification passes the position it leaves rightly.
LEMMA VerifyWalked == Typed /\ WalkInv /\ Next /\ Remember => WalkInv'
<1> SUFFICES ASSUME Typed, WalkInv, Next, Remember, status' \in {"running", "ok"}, ~looped'
             PROVE  Walked'
  BY DEF WalkInv
<1>1. status = "running" /\ ~looped /\ ~Revisit /\ Next /\ trace' = Recorded
  BY DEF Remember, Next, Walk, Statement, Assertion, Revisit, MissingBlock, Enter, Done,
     TakeReturn, TakeGoto, AssignLocal, AssignFails, UnsafeProved, UnsafeDischarged,
     UnsafeUnchecked, UnsafeFails, AssertDischarged, AssertFails, AssertReady, AtObligation,
     AtStatement, AtTerminator, InBlock, Popped
<1>2. Walked BY <1>1 DEF WalkInv
<1>3. ASSUME NEW e \in Errors, Fail(e) PROVE FALSE BY <1>3 DEF Fail, Errors
<1>4. CASE MissingBlock BY <1>4 DEF MissingBlock
<1>5. CASE AssignFails BY <1>3, <1>5 DEF AssignFails, Errors
<1>6. CASE UnsafeFails BY <1>3, <1>6 DEF UnsafeFails, Errors
<1>7. CASE AssertFails BY <1>3, <1>7 DEF AssertFails, Errors
<1>8. CASE Enter
  <2>1. PICK t : stack = <<t>> /\ stack' = <<>> /\ block' = t /\ pc' = 1 /\ t \notin visited
                 /\ t \in DOMAIN body.blocks /\ visited' = visited \cup {t}
    BY <1>8, PopOne DEF Enter, Popped, Pop, TopBlock, Typed, WalkOK
  <2>2. UNCHANGED <<body, status, values, report>> /\ block = None
    BY <1>8 DEF Enter, Popped
  <2>3. PICK n : n = <<t, 1>> OBVIOUS
  <2>4. t # None BY <2>1 DEF Typed, WalkOK, WellFormedBody
  <2>5. trace' = [p \in DOMAIN trace \cup {n} |-> IF p = n THEN values' ELSE trace[p]]
    BY <1>1, <2>1, <2>3, <2>4 DEF Recorded
  <2>6. \A q \in DOMAIN trace : q # n /\ q[1] # t
    <3> SUFFICES ASSUME NEW q \in DOMAIN trace PROVE q # n /\ q[1] # t OBVIOUS
    <3>1. PlacedRight(q) BY <1>2 DEF Walked
    <3> QED BY <2>1, <2>3, <3>1 DEF PlacedRight
  <2>7. \A q \in DOMAIN trace : q \in DOMAIN trace' /\ trace'[q] = trace[q]
    BY <2>5, <2>6
  <2>8. n \in DOMAIN trace' /\ trace'[n] = values /\ DOMAIN trace' = DOMAIN trace \cup {n}
    BY <2>2, <2>5
  <2>9. ASSUME NEW u, NEW m, Reaches(u, m) PROVE Reaches(u, m)'
    <3>1. CASE stack = <<u>> /\ values = m
      <4>1. u = t BY <2>1, <3>1
      <4> QED BY <2>3, <2>8, <3>1, <4>1 DEF Reaches
    <3>2. CASE <<u, 1>> \in DOMAIN trace /\ trace[<<u, 1>>] = m
      BY <2>7, <3>2 DEF Reaches
    <3> QED BY <2>9, <3>1, <3>2 DEF Reaches
  <2>10. AllAuto' => AllAuto BY <2>2 DEF AllAuto
  <2>11. ASSUME NEW p \in DOMAIN trace PROVE PlacedRight(p)' /\ Taken(p)'
    <3>1. PlacedRight(p) /\ Taken(p) BY <1>2, <2>2 DEF Walked, Current
    <3>2. PlacedRight(p)' BY <2>1, <2>2, <3>1 DEF PlacedRight, Statements
    <3>3. Taken(p)' BY <2>2, <2>7, <2>9, <2>10, <3>1, TakenKept
    <3> QED BY <3>2, <3>3
  <2>12. PlacedRight(n)' /\ Current(n)'
    <3>1. Len(body.blocks[t].statements) \in Nat
      BY <2>1 DEF Typed, WalkOK, WellFormedBody, WellFormedBlock
    <3>2. n = <<n[1], n[2]>> /\ n[1] = t /\ n[2] = 1 BY <2>3
    <3> QED BY <2>1, <2>2, <2>3, <2>4, <3>1, <3>2 DEF PlacedRight, Current, Statements
  <2>13. Reaches(0, ArgValues(body))'
    <3>1. PICK m : m = ArgValues(body) OBVIOUS
    <3>2. Reaches(0, m)' BY <1>2, <2>9, <3>1 DEF Walked
    <3> QED BY <2>2, <3>1, <3>2
  <2>14. \A p \in DOMAIN trace' : p[1] = block' => p[2] <= pc'
    BY <2>1, <2>3, <2>6, <2>8
  <2>15. status' # "ok" BY <1>1, <2>2
  <2> QED BY <2>1, <2>2, <2>3, <2>8, <2>11, <2>12, <2>13, <2>14, <2>15 DEF Walked
<1>9. CASE Done
  <2>1. UNCHANGED <<body, stack, visited, block, pc, values, report>> /\ block = None /\ stack = <<>>
    BY <1>9 DEF Done
  <2>2. trace' = trace BY <1>1, <2>1 DEF Recorded
  <2>3. \A t, m : Reaches(t, m) => Reaches(t, m)' BY <2>1, <2>2 DEF Reaches
  <2>4. ASSUME NEW p \in DOMAIN trace PROVE PlacedRight(p)' /\ Taken(p)'
    <3>1. PlacedRight(p) /\ Taken(p) BY <1>2, <2>1 DEF Walked, Current
    <3>2. PlacedRight(p)' BY <2>1, <3>1 DEF PlacedRight, Statements
    <3>3. AllAuto' => AllAuto BY <2>1 DEF AllAuto
    <3>4. Taken(p)' BY <2>1, <2>2, <2>3, <3>1, <3>3, TakenKept
    <3> QED BY <3>2, <3>4
  <2>5. Reaches(0, ArgValues(body))'
    <3>1. PICK m : m = ArgValues(body) OBVIOUS
    <3>2. Reaches(0, m)' BY <1>2, <2>3, <3>1 DEF Walked
    <3> QED BY <2>1, <3>1, <3>2
  <2> QED BY <2>1, <2>2, <2>4, <2>5 DEF Walked
<1>10. CASE TakeReturn \/ TakeGoto \/ AssertDischarged
  <2>1. /\ InBlock /\ pc = Len(Statements(block)) + 1
        /\ status' = status /\ UNCHANGED <<body, visited, pc, values>> /\ block' = None
    BY <1>10 DEF TakeReturn, TakeGoto, AssertDischarged, AssertReady, AtTerminator, Leave
  <2>2. trace' = trace BY <1>1, <2>1 DEF Recorded
  <2>3. block # None BY <2>1 DEF InBlock
  <2>4. PICK here, term : here = <<block, pc>> /\ term = Terminator(block) OBVIOUS
  <2>5. trace'[here] = values /\ Terminator(here[1])' = term /\ values' = values
    BY <1>2, <2>1, <2>2, <2>3, <2>4 DEF Walked, Terminator
  <2>6. stack = <<>> BY <2>3 DEF Typed, WalkOK
  <2>7. CASE TakeReturn
    <3>1. term.kind = "return" BY <2>4, <2>7 DEF TakeReturn, AtTerminator
    <3>2. ExitTaken(here)' BY <2>5, <3>1 DEF ExitTaken
    <3>3. Leave(<<>>) /\ (AllAuto' => AllAuto) BY <2>7 DEF TakeReturn, AllAuto
    <3> QED BY <1>2, <2>1, <2>2, <2>4, <3>2, <3>3, LeaveWalked
  <2>8. CASE TakeGoto
    <3>1. term.kind = "goto" BY <2>4, <2>8 DEF TakeGoto, AtTerminator
    <3>2. Leave(<<term.target>>) /\ (AllAuto' => AllAuto) BY <2>4, <2>8 DEF TakeGoto, AllAuto
    <3>3. stack' = <<term.target>> BY <2>6, <3>2, PushOne DEF Leave
    <3>4. ExitTaken(here)' BY <2>5, <3>1, <3>3 DEF ExitTaken, Reaches
    <3> QED BY <1>2, <2>1, <2>2, <2>4, <3>2, <3>4, LeaveWalked
  <2>9. CASE AssertDischarged
    <3>1. /\ term.kind = "assert" /\ Assigned(term.condition)
          /\ Dischargeable(OperandTerm(term.condition), term.expected)
          /\ Leave(<<term.target>>) /\ report' = Append(report, Outcome("auto"))
      BY <2>4, <2>9 DEF AssertDischarged, AssertReady, AtTerminator, Condition
    <3>2. stack' = <<term.target>> BY <2>6, <3>1, PushOne DEF Leave
    <3>3. Operand(term.condition)
      BY <2>3, <2>4, <3>1, ReachedWellFormed DEF WellFormedBlock, Terminator
    <3>4. \A v \in Inputs(body) : OpDen(values, term.condition, v) = Truth(term.expected)
      BY <3>1, <3>3, OperandDenotes DEF Dischargeable, Valid
    <3>5. Has(values, term.condition) BY <3>1, <3>3 DEF Has, Assigned, Reads
    <3>6. ExitTaken(here)'
      <4>1. Reaches(term.target, values)' BY <2>5, <3>2 DEF Reaches
      <4>2. \A v \in Inputs(body') : OpDen(trace'[here], term.condition, v) = Truth(term.expected)
        BY <2>1, <2>5, <3>4
      <4> QED BY <2>5, <3>5, <4>1, <4>2 DEF ExitTaken, Reaches
    <3>7. AllAuto' => AllAuto
      BY <2>1, <2>3, <3>1, AutoBefore, ReachedWellFormed
    <3> QED BY <1>2, <2>1, <2>2, <2>4, <3>1, <3>6, <3>7, LeaveWalked
  <2> QED BY <1>10, <2>7, <2>8, <2>9
<1>11. CASE AssignLocal
  <2>1. /\ AtStatement("assign") /\ pc' = pc + 1
        /\ UNCHANGED <<body, status, stack, visited, block, report>>
    BY <1>11 DEF AssignLocal
  <2>2. InBlock /\ pc \in DOMAIN Statements(block) /\ block # None
    BY <2>1, ReachedWellFormed DEF AtStatement, InBlock, Typed, WalkOK
  <2>3. PICK s : s = Statements(block)[pc] OBVIOUS
  <2>4. s.kind = "assign" BY <2>1, <2>3 DEF AtStatement
  <2>5. Operand(s.rvalue.a) /\ Operand(s.rvalue.b)
    BY <2>2, <2>3, <2>4, ReachedWellFormed DEF WellFormedBlock, WellFormedStatement, Statements
  <2>6. /\ Assigned(s.rvalue.a) /\ Assigned(s.rvalue.b)
        /\ values' = [l \in DOMAIN values \cup {s.place} |->
                        IF l = s.place THEN RvalueTerm(s.rvalue) ELSE values[l]]
    BY <1>11, <2>3 DEF AssignLocal, RvalueAssigned
  <2>7. \A v \in Inputs(body) :
          RvalueTerm(s.rvalue).den[v] =
            Apply(s.rvalue.op, OpDen(values, s.rvalue.a, v), OpDen(values, s.rvalue.b, v))
    BY <2>5, <2>6, OperandDenotes DEF RvalueTerm, Term
  <2>8. Has(values, s.rvalue.a) /\ Has(values, s.rvalue.b)
    BY <2>5, <2>6 DEF Has, Assigned, Reads
  <2>9. AssignTaken(body, s, values, values')
    BY <2>6, <2>7, <2>8 DEF AssignTaken
  <2>10. AllAuto' => AllAuto BY <2>1 DEF AllAuto
  <2> QED BY <1>1, <1>2, <2>1, <2>2, <2>3, <2>4, <2>9, <2>10, AdvanceWalked
<1>12. CASE UnsafeProved \/ UnsafeDischarged \/ UnsafeUnchecked
  <2>1. PICK by \in {"kernel", "auto", "unchecked"} : UnsafeBy(by) /\ AtStatement("unsafe")
          /\ (by = "auto" => Dischargeable(Statements(block)[pc].obligation, TRUE))
    BY <1>12 DEF UnsafeProved, UnsafeDischarged, UnsafeUnchecked, AtObligation
  <2>2. /\ pc' = pc + 1 /\ values' = values /\ report' = Append(report, Outcome(by))
        /\ UNCHANGED <<body, status, stack, visited, block>>
    BY <2>1 DEF UnsafeBy
  <2>3. InBlock /\ pc \in DOMAIN Statements(block) /\ block # None /\ pc \in Nat
    BY <2>1, ReachedWellFormed DEF AtStatement, InBlock, Typed, WalkOK
  <2>4. PICK s : s = Statements(block)[pc] OBVIOUS
  <2>5. s.kind = "unsafe" BY <2>1, <2>4 DEF AtStatement
  <2>6. AllAuto' => AllAuto /\ by = "auto" BY <2>2, <2>3, AutoBefore
  <2>7. AllAuto' => \A v \in Inputs(body) : s.obligation.den[v] = 1
    BY <2>1, <2>4, <2>6 DEF Dischargeable, Valid, Truth
  <2> QED BY <1>1, <1>2, <2>2, <2>3, <2>4, <2>5, <2>6, <2>7, AdvanceWalked
<1> QED
  BY <1>1, <1>4, <1>5, <1>6, <1>7, <1>8, <1>9, <1>10, <1>11, <1>12
     DEF Next, Walk, Statement, Assertion

\* The walk of a well-formed body starts right.
WalkStart ==
  /\ WellFormedBody(body)
  /\ status = "running" /\ stack = <<0>> /\ visited = {} /\ block = None /\ pc = 1
  /\ values = ArgValues(body) /\ report = <<>> /\ trace = <<>>

\* The state a walk starts in is typed and satisfies the invariant of the walk.
LEMMA WalkStarts == WalkStart => Typed /\ WalkInv
<1> SUFFICES ASSUME WalkStart PROVE Typed /\ WalkInv OBVIOUS
<1>1. \A l \in DOMAIN values : values[l].arith /\ DOMAIN values[l].den = Inputs(body)
  BY DEF WalkStart, ArgValues, ArgVar, Term
<1>2. Typed BY <1>1 DEF WalkStart, Typed, WalkOK
<1>3. Reaches(0, ArgValues(body)) BY DEF WalkStart, Reaches
<1>4. WalkInv BY <1>3 DEF WalkStart, WalkInv, Walked
<1> QED BY <1>2, <1>4

\* What does not touch the walk keeps its invariant.
LEMMA WalkKept == WalkInv /\ UNCHANGED <<vars, historyVars>> => WalkInv'
<1> SUFFICES ASSUME WalkInv, UNCHANGED <<vars, historyVars>> PROVE WalkInv' OBVIOUS
<1>1. /\ body' = body /\ status' = status /\ stack' = stack /\ visited' = visited
      /\ block' = block /\ pc' = pc /\ values' = values /\ report' = report
      /\ trace' = trace /\ looped' = looped
  BY DEF vars, historyVars
<1>2. \A t, m : Reaches(t, m)' <=> Reaches(t, m) BY <1>1 DEF Reaches
<1>3. Reaches(0, ArgValues(body))' <=> Reaches(0, ArgValues(body)) BY <1>1 DEF Reaches
<1>4. AllAuto' <=> AllAuto BY <1>1 DEF AllAuto
<1>5. \A p : (PlacedRight(p)' <=> PlacedRight(p)) /\ (Current(p)' <=> Current(p))
  BY <1>1 DEF PlacedRight, Current, Statements
<1>6. ASSUME NEW p \in DOMAIN trace, PlacedRight(p), Taken(p) PROVE Taken(p)'
  BY <1>1, <1>2, <1>4, <1>6, TakenKept
<1> QED BY <1>1, <1>3, <1>5, <1>6 DEF WalkInv, Walked
-----------------------------------------------------------------------------
(* The shape of a walk that met no block twice: a chain of blocks from the *)
(* first one, of which the last may return.                                *)

ReturnsAt(b) == Terminator(b).kind = "return"
Leads(b, c) == ~ReturnsAt(b) /\ Terminator(b).target = c
Exit(b) == <<b, Len(Statements(b)) + 1>>
\* The blocks the walk has left.
Left == visited \ {block}
\* The block waiting was visited before: the walk is about to find a cycle.
Doomed == \E t \in visited : stack = <<t>>

Chain ==
  /\ visited \subseteq DOMAIN body.blocks
  /\ 0 \in visited \/ stack = <<0>>
  /\ \A b \in Left :
       /\ ReturnsAt(b) => /\ block = None /\ stack = <<>>
                        /\ Exit(b) \in DOMAIN trace /\ values = trace[Exit(b)]
       /\ ~ReturnsAt(b) => Terminator(b).target \in visited \/ stack = <<Terminator(b).target>>
  /\ \A b, c \in Left : ReturnsAt(b) /\ ReturnsAt(c) => b = c
  /\ Doomed \/ /\ \A b \in Left : ~Leads(b, 0)
               /\ \A b, c \in Left : \A t : Leads(b, t) /\ Leads(c, t) => b = c

ChainInv == status \in {"running", "ok"} /\ ~looped => Chain

\* A step inside a block leaves the chain as it is.
LEMMA ChainInside ==
  ASSUME Typed, Chain, InBlock, UNCHANGED <<body, stack, visited, block>>
  PROVE  Chain'
<1>1. block # None /\ stack = <<>> BY DEF InBlock, Typed, WalkOK
<1>2. \A b : (ReturnsAt(b)' <=> ReturnsAt(b)) /\ Terminator(b)' = Terminator(b)
  BY DEF ReturnsAt, Terminator
<1>3. Left' = Left /\ \A b, t : Leads(b, t)' <=> Leads(b, t) BY <1>2 DEF Left, Leads
<1>4. \A b \in Left : ~ReturnsAt(b) BY <1>1 DEF Chain
<1>5. ~Doomed BY <1>1 DEF Doomed
<1> QED BY <1>1, <1>2, <1>3, <1>4, <1>5 DEF Chain

\* Every step of a walk that meets no block twice makes the chain longer.
LEMMA ChainNext == Typed /\ WalkInv /\ ChainInv /\ Next /\ Remember => ChainInv'
<1> SUFFICES ASSUME Typed, WalkInv, ChainInv, Next, Remember, status' \in {"running", "ok"}, ~looped'
             PROVE  Chain'
  BY DEF ChainInv
<1>1. status = "running" /\ body' = body /\ ~looped /\ ~Revisit /\ trace' = Recorded
  BY NextRuns DEF Remember
<1>2. Chain /\ Walked BY <1>1 DEF ChainInv, WalkInv
<1>3. \A b : /\ (ReturnsAt(b)' <=> ReturnsAt(b)) /\ Terminator(b)' = Terminator(b)
             /\ Exit(b)' = Exit(b) /\ \A t : Leads(b, t)' <=> Leads(b, t)
  BY <1>1 DEF ReturnsAt, Terminator, Exit, Statements, Leads
<1>4. CASE MissingBlock \/ AssignFails \/ UnsafeFails \/ AssertFails
  <2>1. status' \notin {"running", "ok"}
    BY <1>4 DEF MissingBlock, AssignFails, UnsafeFails, AssertFails, Fail
  <2> QED BY <2>1
<1>5. CASE Enter
  <2>1. PICK t : /\ stack = <<t>> /\ stack' = <<>> /\ block' = t /\ t \notin visited
                 /\ t \in DOMAIN body.blocks /\ visited' = visited \cup {t} /\ block = None
    BY <1>5, PopOne DEF Enter, Popped, Pop, TopBlock, Typed, WalkOK
  <2>2. None \notin visited BY <1>2 DEF Chain, Typed, WalkOK, WellFormedBody
  <2>3. Left = visited /\ Left' = visited BY <2>1, <2>2 DEF Left
  <2>4. \A s : stack = <<s>> => s = t
    <3> TAKE s
    <3>1. stack[1] = t BY <2>1
    <3> QED BY <3>1
  <2>5. stack # <<>> BY <2>1
  <2>6. ~Doomed BY <2>1, <2>4 DEF Doomed
  <2>7. \A b \in Left : ~ReturnsAt(b) BY <1>2, <2>5 DEF Chain
  <2>8. 0 \in visited' BY <1>2, <2>1, <2>4 DEF Chain
  <2>9. \A b \in Left : Terminator(b).target \in visited' BY <1>2, <2>1, <2>4, <2>7 DEF Chain
  <2> QED BY <1>1, <1>2, <1>3, <2>1, <2>3, <2>6, <2>7, <2>8, <2>9 DEF Chain
<1>6. CASE Done
  <2>1. UNCHANGED <<body, stack, visited, block, values>> /\ block = None BY <1>6 DEF Done
  <2>2. trace' = trace BY <1>1, <2>1 DEF Recorded
  <2>3. Left' = Left /\ (Doomed' <=> Doomed) BY <2>1 DEF Left, Doomed
  <2> QED BY <1>2, <1>3, <2>1, <2>2, <2>3 DEF Chain
<1>7. CASE TakeReturn \/ TakeGoto \/ AssertDischarged
  <2>1. PICK c : c = block OBVIOUS
  <2>2. /\ InBlock /\ pc = Len(Statements(c)) + 1 /\ c # None /\ stack = <<>> /\ c \in visited
        /\ UNCHANGED <<body, visited, values>> /\ block' = None
    BY <1>7, <2>1 DEF TakeReturn, TakeGoto, AssertDischarged, AssertReady, AtTerminator, Leave,
       InBlock, Typed, WalkOK
  <2>3. trace' = trace BY <1>1, <2>2 DEF Recorded
  <2>4. None \notin visited BY <1>2 DEF Chain, Typed, WalkOK, WellFormedBody
  <2>5. Left' = Left \cup {c} /\ Left' = visited /\ c \notin Left BY <2>1, <2>2, <2>4 DEF Left
  <2>6. /\ \A b \in Left : ~ReturnsAt(b) /\ Terminator(b).target \in visited
        /\ 0 \in visited /\ ~Doomed
    BY <1>2, <2>1, <2>2 DEF Chain, Doomed
  <2>7. CASE ReturnsAt(c)
    <3>1. stack' = <<>>
      <4>1. Leave(<<>>)
        BY <1>7, <2>1, <2>7 DEF TakeReturn, TakeGoto, AssertDischarged, AssertReady, AtTerminator,
           ReturnsAt
      <4> QED BY <2>2, <4>1, PushOne DEF Leave
    <3>2. Exit(c) \in DOMAIN trace /\ values = trace[Exit(c)]
      BY <1>2, <2>1, <2>2 DEF Walked, Exit
    <3>3. \A t : ~Leads(c, t) BY <2>7 DEF Leads
    <3>4. ~Doomed' BY <3>1 DEF Doomed
    <3>5. \A b \in Left' : ~Leads(b, 0)' BY <1>2, <1>3, <2>5, <2>6, <3>3 DEF Chain
    <3>6. \A b, d \in Left' : \A t : Leads(b, t)' /\ Leads(d, t)' => b = d
      BY <1>2, <1>3, <2>5, <2>6, <3>3 DEF Chain
    <3>7. \A b \in Left' : ReturnsAt(b)' => b = c BY <1>3, <2>5, <2>6
    <3>8. \A b \in Left' : ~ReturnsAt(b)' => Terminator(b)'.target \in visited'
      BY <1>3, <2>2, <2>5, <2>6, <2>7
    <3> QED BY <1>1, <1>2, <1>3, <2>2, <2>3, <2>6, <3>1, <3>2, <3>5, <3>6, <3>7, <3>8 DEF Chain
  <2>8. CASE ~ReturnsAt(c)
    <3>1. PICK u : u = Terminator(c).target OBVIOUS
    <3>2. stack' = <<u>>
      <4>1. Leave(<<u>>)
        BY <1>7, <2>1, <2>8, <3>1
           DEF TakeReturn, TakeGoto, AssertDischarged, AtTerminator, ReturnsAt
      <4> QED BY <2>2, <4>1, PushOne DEF Leave
    <3>3. \A t : Leads(c, t) <=> t = u BY <2>8, <3>1 DEF Leads
    <3>4. \A b \in Left' : ~ReturnsAt(b)' BY <1>3, <2>5, <2>6, <2>8
    <3>5. \A b \in Left' : Terminator(b)'.target \in visited' \/ stack' = <<Terminator(b)'.target>>
      BY <1>3, <2>2, <2>5, <2>6, <3>1, <3>2
    <3>6. u \in visited => Doomed' BY <2>2, <3>2 DEF Doomed
    <3>7. ASSUME u \notin visited
          PROVE  /\ \A b \in Left' : ~Leads(b, 0)'
                 /\ \A b, d \in Left' : \A t : Leads(b, t)' /\ Leads(d, t)' => b = d
      <4>1. \A b \in Left : ~Leads(b, u) /\ ~Leads(b, 0) BY <1>2, <2>6, <3>7 DEF Leads, Chain
      <4>2. ~Leads(c, 0) BY <2>6, <3>3, <3>7
      <4>3. \A b, d \in Left : \A t : Leads(b, t) /\ Leads(d, t) => b = d
        BY <1>2, <2>6 DEF Chain
      <4> QED BY <1>3, <2>5, <3>3, <4>1, <4>2, <4>3
    <3> QED BY <1>1, <1>2, <1>3, <2>2, <2>6, <3>4, <3>5, <3>6, <3>7 DEF Chain
  <2> QED BY <2>7, <2>8
<1>8. CASE AssignLocal \/ UnsafeProved \/ UnsafeDischarged \/ UnsafeUnchecked
  <2>1. InBlock /\ UNCHANGED <<body, stack, visited, block>>
    BY <1>8 DEF AssignLocal, UnsafeProved, UnsafeDischarged, UnsafeUnchecked, UnsafeBy,
       AtObligation, AtStatement
  <2> QED BY <1>2, <2>1, ChainInside
<1> QED
  BY <1>1, <1>4, <1>5, <1>6, <1>7, <1>8 DEF Next, Walk, Statement, Assertion

\* The walk of a body starts with the empty chain.
LEMMA ChainStarts == WalkStart => ChainInv
BY DEF WalkStart, ChainInv, Chain, Left, Doomed

\* What does not touch the walk keeps the chain.
LEMMA ChainKept == ChainInv /\ UNCHANGED <<vars, historyVars>> => ChainInv'
<1> SUFFICES ASSUME ChainInv, UNCHANGED <<vars, historyVars>> PROVE ChainInv' OBVIOUS
<1>1. UNCHANGED <<body, status, stack, visited, block, values, trace, looped>>
  BY DEF vars, historyVars
<1> QED BY <1>1 DEF ChainInv, Chain, Left, Doomed, Leads, ReturnsAt, Exit, Terminator, Statements
=============================================================================
