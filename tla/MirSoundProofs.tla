--------------------------- MODULE MirSoundProofs ---------------------------
(***************************************************************************)
(* Proofs about MirSound, for every set of well-formed bodies, every word  *)
(* range and every bound on the values of a run.                           *)
(***************************************************************************)
EXTENDS MirSound, WalkProofs

\* The bodies given are well formed.
LEMMA BodyTyped == TypeOK <=> body \in Bodies /\ Typed
BY BodiesAssumption DEF TypeOK, WellFormedBody, Typed

\* Type correctness, with the run that follows the verification.
THEOREM TypeCorrect == SoundSpec => []TypeOK
<1>1. SoundInit => TypeOK
  BY DEF SoundInit, Init, TypeOK, WalkOK, ArgValues, ArgVar, Term
<1>2. TypeOK /\ [SoundNext]_soundVars => TypeOK'
  <2> SUFFICES ASSUME TypeOK, [SoundNext]_soundVars PROVE TypeOK' OBVIOUS
  <2>1. CASE Verify BY <2>1, BodyTyped, NextTyped, NextRuns DEF Verify, TypeOK, Typed
  <2>2. CASE Run BY <2>2 DEF Run, vars, historyVars, TypeOK, WalkOK, Statements
  <2>3. CASE UNCHANGED soundVars BY <2>3 DEF soundVars, vars, historyVars, TypeOK, WalkOK, Statements
  <2> QED BY <2>1, <2>2, <2>3 DEF SoundNext
<1> QED BY <1>1, <1>2, PTL DEF SoundSpec
-----------------------------------------------------------------------------
\* The conversion test on every assignment keeps the locals typed.
THEOREM LocalsTyped == SoundSpec => []ValuesTyped
<1>1. SoundInit => ValuesTyped
  <2> SUFFICES ASSUME SoundInit, NEW l \in DOMAIN values
               PROVE  /\ values[l].ty = DeclaredType(body, l)
                      /\ values[l].ty = "Bool" => \A v \in Inputs(body) : values[l].den[v] \in {0, 1}
    BY DEF ValuesTyped
  <2> DEFINE k == CHOOSE i \in DOMAIN body.args : body.args[i] = l
  <2>1. l \in {body.args[i] : i \in DOMAIN body.args} /\ values[l] = ArgVar(body, k)
    BY DEF SoundInit, Init, ArgValues
  <2>2. k \in DOMAIN body.args /\ body.args[k] = l BY <2>1
  <2> HIDE DEF k
  <2>3. values[l].ty = DeclaredType(body, l) BY <2>1, <2>2 DEF ArgVar, Term
  <2>4. ASSUME values[l].ty = "Bool", NEW v \in Inputs(body) PROVE values[l].den[v] \in {0, 1}
    <3>1. values[l].den[v] = v[k] BY <2>1, <2>4 DEF ArgVar, Term
    <3>2. DeclaredType(body, body.args[k]) = "Bool" BY <2>2, <2>3, <2>4
    <3>3. v[k] \in {0, 1} BY <2>2, <2>4, <3>2 DEF Inputs
    <3> QED BY <3>1, <3>3
  <2> QED BY <2>3, <2>4
<1>2. TypeOK /\ ValuesTyped /\ [SoundNext]_soundVars => ValuesTyped'
  <2> SUFFICES ASSUME TypeOK, ValuesTyped, [SoundNext]_soundVars PROVE ValuesTyped' OBVIOUS
  <2>1. CASE Verify /\ AssignLocal
    <3> DEFINE s == Statements(block)[pc]
    <3>1. block # None /\ pc \in DOMAIN Statements(block) /\ s.kind = "assign"
      BY <2>1, BodyTyped, ReachedWellFormed DEF AssignLocal, AtStatement, InBlock, TypeOK, WalkOK
    <3>2. Operand(s.rvalue.a) /\ Operand(s.rvalue.b) /\ s.rvalue.op \in {"use", "add", "mul", "le"}
      BY <3>1, BodyTyped, ReachedWellFormed DEF WellFormedBlock, WellFormedStatement, Statements
    <3>3. RvalueAssigned(s.rvalue) /\ InferredType(s.rvalue) = DeclaredType(body, s.place)
      BY <2>1 DEF AssignLocal
    <3>4. RvalueTerm(s.rvalue).ty = InferredType(s.rvalue) BY DEF RvalueTerm, Term
    <3>5. InferredType(s.rvalue) = "Bool" => \A v \in Inputs(body) : RvalueTerm(s.rvalue).den[v] \in {0, 1}
      BY <3>2, <3>3, BodyTyped, BooleanRvalue
    <3>6. /\ body' = body
          /\ values' = [l \in DOMAIN values \cup {s.place} |->
                           IF l = s.place THEN RvalueTerm(s.rvalue) ELSE values[l]]
      BY <2>1 DEF AssignLocal
    <3> HIDE DEF s
    <3> QED BY <3>3, <3>4, <3>5, <3>6 DEF ValuesTyped
  <2>2. CASE Verify /\ ~AssignLocal
    <3>1. body' = body /\ values' = values
      BY <2>2 DEF Verify, Next, Walk, Statement, Assertion, Revisit, MissingBlock, Enter, Done,
         TakeReturn, TakeGoto, Leave, AssignFails, Fail, UnsafeProved, UnsafeDischarged,
         UnsafeUnchecked, UnsafeBy, UnsafeFails, AssertDischarged, AssertFails
    <3> QED BY <3>1 DEF ValuesTyped
  <2>3. CASE Run BY <2>3 DEF Run, vars, ValuesTyped
  <2>4. CASE UNCHANGED soundVars BY <2>4 DEF soundVars, vars, ValuesTyped
  <2> QED BY <2>1, <2>2, <2>3, <2>4 DEF SoundNext
<1> QED BY <1>1, <1>2, TypeCorrect, PTL DEF SoundSpec
-----------------------------------------------------------------------------
\* A report that comes with success lists every obligation of every block
\* walked, once each (verify_body, verify_statements, verify_terminator).
THEOREM ReportExact == SoundSpec => []ReportComplete
<1>1. SoundInit => ReportInv
  BY DEF SoundInit, Init, ReportInv, Reported, Passed
<1>2. TypeOK /\ ReportInv /\ [SoundNext]_soundVars => ReportInv'
  <2> SUFFICES ASSUME TypeOK, ReportInv, [SoundNext]_soundVars PROVE ReportInv' OBVIOUS
  <2>1. CASE Verify BY <2>1, BodyTyped, ReportNext DEF Verify
  <2>2. CASE UNCHANGED vars
    BY <2>2 DEF vars, ReportInv, Reported, Passed, Sites, Statements, Terminator
  <2> QED BY <2>1, <2>2 DEF SoundNext, Run, soundVars
<1>3. TypeOK /\ ReportInv => ReportComplete
  <2> SUFFICES ASSUME TypeOK, ReportInv, status = "ok" PROVE
        /\ {report[i].at : i \in DOMAIN report} = UNION {Sites(b) : b \in visited}
        /\ \A i, j \in DOMAIN report : report[i].at = report[j].at => i = j
    BY DEF ReportComplete
  <2>1. /\ visited \subseteq DOMAIN body.blocks /\ block = None
        /\ \A p : Reported(p) <=> Passed(p)
        /\ \A i, j \in DOMAIN report : report[i].at = report[j].at => i = j
    BY DEF ReportInv
  <2>2. \A b \in visited : b # None
    <3>1. WellFormedBody(body) BY BodyTyped DEF Typed
    <3>2. None \notin DOMAIN body.blocks BY <3>1 DEF WellFormedBody
    <3> QED BY <2>1, <3>2
  <2>3. \A b \in visited : \A p : p \in Sites(b) => p[1] = b BY <2>1, BodyTyped, SitePlaced
  <2>4. \A p : Passed(p) <=> \E b \in visited : p \in Sites(b)
    BY <2>1, <2>2, <2>3 DEF Passed
  <2>5. \A p : p \in {report[i].at : i \in DOMAIN report} <=> Reported(p) BY DEF Reported
  <2> QED BY <2>1, <2>4, <2>5
<1> QED BY <1>1, <1>2, <1>3, TypeCorrect, PTL DEF SoundSpec
-----------------------------------------------------------------------------
RunInv ==
  /\ outcome = "idle" => at = 0 /\ ip = 1
  /\ outcome # "idle" => status # "running"
  /\ Proved /\ StraightLine /\ outcome # "idle" =>
       /\ outcome \in {"running", "returned"}
       /\ input \in Inputs(body)
       /\ <<at, ip>> \in DOMAIN trace
       /\ store = [l \in DOMAIN trace[<<at, ip>>] |-> trace[<<at, ip>>][l].den[input]]

IInv == TypeOK /\ WalkInv /\ RunInv

\* The values of the terms m on the arguments of the run.
Stored(m) == store = [l \in DOMAIN m |-> m[l].den[input]]

\* An operand has the value of its term.
LEMMA ValueIsDenoted ==
  ASSUME NEW m, Stored(m), NEW op, Operand(op), Has(m, op)
  PROVE  Defined(op) /\ Value(op) = OpDen(m, op, input)
BY DEF Stored, Operand, Has, Defined, Value, OpDen

\* A run starts, and goes on, at positions the walk went through.
LEMMA RunFollows ==
  ASSUME TypeOK, WalkInv, RunInv, Run, Proved', StraightLine'
  PROVE  /\ outcome' \in {"running", "returned"}
         /\ input' \in Inputs(body)
         /\ <<at', ip'>> \in DOMAIN trace
         /\ store' = [l \in DOMAIN trace[<<at', ip'>>] |-> trace[<<at', ip'>>][l].den[input']]
<1>1. Proved /\ StraightLine /\ status = "ok" /\ ~looped /\ AllAuto
  BY DEF Run, vars, historyVars, Proved, StraightLine, AllAuto
<1>2. Walked /\ block = None /\ stack = <<>> BY <1>1 DEF WalkInv, Walked
<1>3. \A p \in DOMAIN trace : PlacedRight(p) /\ Taken(p) BY <1>2 DEF Walked, Current
<1>4. \A t, m : Reaches(t, m) => <<t, 1>> \in DOMAIN trace /\ trace[<<t, 1>>] = m
  BY <1>2 DEF Reaches
<1>5. ASSUME NEW v \in Inputs(body), Begin(v)
      PROVE  /\ outcome' \in {"running", "returned"}
             /\ input' \in Inputs(body)
             /\ <<at', ip'>> \in DOMAIN trace
             /\ store' = [l \in DOMAIN trace[<<at', ip'>>] |-> trace[<<at', ip'>>][l].den[input']]
  <2>1. outcome' = "running" /\ input' = v /\ at' = 0 /\ ip' = 1
    BY <1>5 DEF Begin, RunInv
  <2>2. <<at', ip'>> \in DOMAIN trace /\ trace[<<at', ip'>>] = ArgValues(body)
    BY <1>2, <1>4, <2>1 DEF Walked
  <2> DEFINE arg(l) == CHOOSE k \in DOMAIN body.args : body.args[k] = l
             A == {body.args[k] : k \in DOMAIN body.args}
  <2>3. store' = [l \in A |-> v[arg(l)]] BY <1>5 DEF Begin
  <2>4. ArgValues(body) = [l \in A |-> ArgVar(body, arg(l))] BY DEF ArgValues
  <2>5. \A k : ArgVar(body, k).den[v] = v[k] BY DEF ArgVar, Term
  <2> HIDE DEF arg, A
  <2> QED BY <2>1, <2>2, <2>3, <2>4, <2>5
<1>6. CASE Step
  <2>1. outcome = "running" BY <1>6 DEF Step, RunNowhere
  <2>2. PICK p, m : p = <<at, ip>> /\ p \in DOMAIN trace /\ m = trace[p]
    BY <1>1, <2>1 DEF RunInv
  <2>3. Stored(m) /\ input \in Inputs(body) BY <1>1, <2>1, <2>2 DEF RunInv, Stored
  <2>4. p[1] = at /\ p[2] = ip BY <2>2
  <2>5. at \in DOMAIN body.blocks /\ ip \in 1..(Len(Statements(at)) + 1) /\ Taken(p)
    BY <1>3, <2>2, <2>4 DEF PlacedRight
  <2>6. PICK b : b = body.blocks[at] OBVIOUS
  <2>7. WellFormedBlock(b) BY <2>5, <2>6, BodiesAssumption DEF TypeOK, WellFormedBody
  <2>8. Statements(at) = b.statements /\ Terminator(at) = b.terminator
    BY <2>6 DEF Statements, Terminator
  <2>9. PICK n : n = <<at, ip + 1>> OBVIOUS
  <2>10. RunAssign(b) \/ RunUnsafe(b) \/ RunGoto(b) \/ RunReturn(b) \/ RunAssert(b)
    BY <1>6, <2>5, <2>6 DEF Step, RunNowhere
  <2>11. CASE ip <= Len(b.statements)
    <3>1. PICK s : s = b.statements[ip] OBVIOUS
    <3>2. StepTaken(p) BY <2>4, <2>5, <2>8, <2>11 DEF Taken
    <3>3. /\ n \in DOMAIN trace
          /\ s.kind = "assign" => AssignTaken(body, s, m, trace[n])
          /\ s.kind = "unsafe" => UnsafeTaken(s, m, trace[n])
      BY <2>2, <2>4, <2>8, <2>9, <3>1, <3>2 DEF StepTaken
    <3>4. WellFormedStatement(s)
      BY <2>5, <2>7, <2>8, <2>11, <3>1 DEF WellFormedBlock
    <3>5. ~(ip = Len(b.statements) + 1) BY <2>7, <2>11 DEF WellFormedBlock
    <3>6. CASE RunAssign(b)
      <4>1. s.kind = "assign" BY <3>1, <3>6 DEF RunAssign, AtStep
      <4>2. Operand(s.rvalue.a) /\ Operand(s.rvalue.b) /\ AssignTaken(body, s, m, trace[n])
        BY <3>3, <3>4, <4>1 DEF WellFormedStatement
      <4>3. /\ Defined(s.rvalue.a) /\ Value(s.rvalue.a) = OpDen(m, s.rvalue.a, input)
            /\ Defined(s.rvalue.b) /\ Value(s.rvalue.b) = OpDen(m, s.rvalue.b, input)
        BY <2>3, <4>2, ValueIsDenoted DEF AssignTaken
      <4>4. /\ store' = [l \in DOMAIN store \cup {s.place} |->
                           IF l = s.place THEN Result(s.rvalue) ELSE store[l]]
            /\ ip' = ip + 1 /\ UNCHANGED <<input, at, outcome>>
        BY <3>1, <3>6, <4>3 DEF RunAssign
      <4>5. /\ DOMAIN trace[n] = DOMAIN m \cup {s.place}
            /\ \A l \in DOMAIN trace[n] :
                 trace[n][l].den[input] = IF l = s.place THEN Result(s.rvalue) ELSE m[l].den[input]
        BY <2>3, <4>2, <4>3 DEF AssignTaken, Result
      <4>6. store' = [l \in DOMAIN trace[n] |-> trace[n][l].den[input]]
        BY <2>3, <4>4, <4>5 DEF Stored
      <4> QED BY <2>1, <2>3, <2>9, <3>3, <4>4, <4>6
    <3>7. CASE RunUnsafe(b)
      <4>1. s.kind = "unsafe" BY <3>1, <3>7 DEF RunUnsafe, AtStep
      <4>2. trace[n] = m /\ s.obligation.den[input] = 1
        BY <1>1, <2>3, <3>3, <4>1 DEF UnsafeTaken
      <4>3. ip' = ip + 1 /\ UNCHANGED <<input, at, store, outcome>>
        BY <3>1, <3>7, <4>2 DEF RunUnsafe
      <4> QED BY <2>1, <2>3, <2>9, <3>3, <4>2, <4>3 DEF Stored
    <3> QED BY <2>10, <3>5, <3>6, <3>7 DEF RunGoto, RunReturn, RunAssert, AtEnd
  <2>12. CASE ~(ip <= Len(b.statements))
    <3>1. PICK t : t = b.terminator OBVIOUS
    <3>2. ExitTaken(p) BY <2>4, <2>5, <2>8, <2>12 DEF Taken
    <3>3. /\ t.kind # "return" => <<t.target, 1>> \in DOMAIN trace /\ trace[<<t.target, 1>>] = m
          /\ t.kind = "assert" => /\ Has(m, t.condition)
                                  /\ \A v \in Inputs(body) :
                                       OpDen(m, t.condition, v) = Truth(t.expected)
      BY <1>4, <2>2, <2>4, <2>8, <3>1, <3>2 DEF ExitTaken
    <3>4. ASSUME Jump(t.target), t.kind # "return"
          PROVE  /\ outcome' \in {"running", "returned"}
                 /\ input' \in Inputs(body)
                 /\ <<at', ip'>> \in DOMAIN trace
                 /\ store' = [l \in DOMAIN trace[<<at', ip'>>] |-> trace[<<at', ip'>>][l].den[input']]
      BY <2>1, <2>3, <3>3, <3>4 DEF Jump, Stored
    <3>5. CASE RunGoto(b) BY <3>1, <3>4, <3>5 DEF RunGoto, AtEnd
    <3>6. CASE RunReturn(b)
      BY <2>2, <2>3, <3>6 DEF RunReturn, Stop, Stored
    <3>7. CASE RunAssert(b)
      <4>1. t.kind = "assert" BY <3>1, <3>7 DEF RunAssert, AtEnd
      <4>2. Operand(t.condition) BY <2>7, <3>1, <4>1 DEF WellFormedBlock
      <4>3. Defined(t.condition) /\ Value(t.condition) = Truth(t.expected)
        BY <2>3, <3>3, <4>1, <4>2, ValueIsDenoted
      <4>4. Jump(t.target) BY <3>1, <3>7, <4>3 DEF RunAssert
      <4> QED BY <3>4, <4>1, <4>4
    <3> QED BY <2>10, <2>12, <3>5, <3>6, <3>7 DEF RunAssign, RunUnsafe, AtStep
  <2> QED BY <2>11, <2>12
<1> QED BY <1>5, <1>6 DEF Run
-----------------------------------------------------------------------------
(* The invariant is inductive, and implies both properties.                *)

\* The initial states satisfy the inductive invariant.
LEMMA InvInit == SoundInit => IInv
<1> SUFFICES ASSUME SoundInit PROVE IInv OBVIOUS
<1>1. TypeOK BY DEF SoundInit, Init, TypeOK, WalkOK, ArgValues, ArgVar, Term
<1>2. WalkInv BY DEF SoundInit, Init, NoHistory, WalkInv, Walked, Reaches
<1>3. RunInv BY DEF SoundInit, Idle, RunInv
<1> QED BY <1>1, <1>2, <1>3 DEF IInv

\* Every step preserves the inductive invariant.
LEMMA InvNext == IInv /\ [SoundNext]_soundVars => IInv'
<1> SUFFICES ASSUME TypeOK, WalkInv, RunInv, [SoundNext]_soundVars PROVE IInv' BY DEF IInv
<1>1. CASE Verify
  <2>1. TypeOK' /\ WalkInv' BY <1>1, BodyTyped, NextTyped, NextRuns, VerifyWalked DEF Verify, TypeOK, Typed
  <2>2. status = "running"
    BY <1>1, NextRuns DEF Verify
  <2>3. outcome = "idle" BY <2>2 DEF RunInv
  <2>4. RunInv' BY <1>1, <2>3 DEF Verify, execVars, RunInv
  <2> QED BY <2>1, <2>4 DEF IInv
<1>2. CASE Run
  <2>1. TypeOK' BY <1>2 DEF Run, vars, historyVars, TypeOK, WalkOK, Statements
  <2>2. WalkInv' BY <1>2, WalkKept DEF Run
  <2>3. RunInv'
    <3>1. status' # "running" /\ trace' = trace /\ body' = body BY <1>2 DEF Run, vars, historyVars
    <3>2. outcome' # "idle"
      BY <1>2 DEF Run, Begin, Step, RunNowhere, RunAssign, RunUnsafe, RunGoto, RunReturn,
         RunAssert, Jump, Stop
    <3> QED BY <1>2, <3>1, <3>2, RunFollows DEF RunInv
  <2> QED BY <2>1, <2>2, <2>3 DEF IInv
<1>3. CASE UNCHANGED soundVars
  <2>1. TypeOK' BY <1>3 DEF soundVars, vars, historyVars, TypeOK, WalkOK, Statements
  <2>2. WalkInv' BY <1>3, WalkKept DEF soundVars
  <2>3. RunInv' BY <1>3 DEF soundVars, vars, execVars, historyVars, RunInv, Proved, StraightLine
  <2> QED BY <2>1, <2>2, <2>3 DEF IInv
<1> QED BY <1>1, <1>2, <1>3 DEF SoundNext

\* No run of a body verified by the solver alone panics or is undefined.
THEOREM Soundness == SoundSpec => []NoPanic
<1>1. IInv => NoPanic BY DEF IInv, RunInv, NoPanic, Safe
<1> QED BY <1>1, InvInit, InvNext, PTL DEF SoundSpec

\* The terms inlined for the locals denote the values they have when run.
THEOREM InliningCorrect == SoundSpec => []Inlining
<1>1. IInv => Inlining BY DEF IInv, RunInv, Inlining
<1> QED BY <1>1, InvInit, InvNext, PTL DEF SoundSpec
=============================================================================
