------------------------------- MODULE MirExec -------------------------------
(***************************************************************************)
(* What a MIR-lite body does when it is run: the meaning its definition    *)
(* gives to statements and terminators, with integers that do not wrap.    *)
(* Running an unsafe block whose obligation is false, reading a local      *)
(* that has no value or jumping to a block that does not exist is          *)
(* undefined.                                                              *)
(***************************************************************************)
EXTENDS Mir

VARIABLES input,    \* the argument tuple
          at, ip,   \* the block, and the position in it
          store,    \* the value of every local assigned so far
          outcome   \* "idle", "running", "returned", "panicked", "undefined"

execVars == <<input, at, ip, store, outcome>>

Idle == /\ outcome = "idle"
        /\ input = <<>> /\ at = 0 /\ ip = 1 /\ store = <<>>

Begin(v) ==
  /\ outcome = "idle"
  /\ input' = v
  /\ store' = [l \in {body.args[k] : k \in DOMAIN body.args} |->
                 v[CHOOSE k \in DOMAIN body.args : body.args[k] = l]]
  /\ outcome' = "running"
  /\ UNCHANGED <<at, ip>>

Defined(op) == op.kind = "local" => op.of \in DOMAIN store
Value(op) ==
  CASE op.kind = "nat" -> op.of
    [] op.kind = "bool" -> Truth(op.of)
    [] op.kind = "local" -> store[op.of]

Stop(result) == outcome' = result /\ UNCHANGED <<input, at, ip, store>>
Jump(target) == at' = target /\ ip' = 1 /\ UNCHANGED <<input, store, outcome>>

AtEnd(b, kind) == ip = Len(b.statements) + 1 /\ b.terminator.kind = kind
AtStep(b, kind) == ip <= Len(b.statements) /\ b.statements[ip].kind = kind

Result(rv) == Apply(rv.op, Value(rv.a), Value(rv.b))

RunAssign(b) ==
  /\ AtStep(b, "assign")
  /\ LET s == b.statements[ip]
     IN  IF Defined(s.rvalue.a) /\ Defined(s.rvalue.b)
         THEN /\ Result(s.rvalue) <= MaxWord
              /\ store' = [l \in DOMAIN store \cup {s.place} |->
                             IF l = s.place THEN Result(s.rvalue) ELSE store[l]]
              /\ ip' = ip + 1
              /\ UNCHANGED <<input, at, outcome>>
         ELSE Stop("undefined")

RunUnsafe(b) ==
  /\ AtStep(b, "unsafe")
  /\ IF b.statements[ip].obligation.den[input] = 1
     THEN ip' = ip + 1 /\ UNCHANGED <<input, at, store, outcome>>
     ELSE Stop("undefined")

RunGoto(b) == AtEnd(b, "goto") /\ Jump(b.terminator.target)
RunReturn(b) == AtEnd(b, "return") /\ Stop("returned")
RunAssert(b) ==
  /\ AtEnd(b, "assert")
  /\ LET t == b.terminator
     IN  IF Defined(t.condition)
         THEN IF Value(t.condition) = Truth(t.expected) THEN Jump(t.target) ELSE Stop("panicked")
         ELSE Stop("undefined")

RunNowhere == outcome = "running" /\ at \notin DOMAIN body.blocks /\ Stop("undefined")

Step ==
  \/ RunNowhere
  \/ /\ outcome = "running" /\ at \in DOMAIN body.blocks
     /\ LET b == body.blocks[at]
        IN  RunAssign(b) \/ RunUnsafe(b) \/ RunGoto(b) \/ RunReturn(b) \/ RunAssert(b)
=============================================================================
