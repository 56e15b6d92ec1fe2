------------------------------ MODULE RustExec ------------------------------
(***************************************************************************)
(* What the compiled function does, as rustc compiles it for ingestion:    *)
(* integers have a width and wrap, signed ones are negative for half of    *)
(* their values. A body written by hand is run the same way. `beyond`      *)
(* remembers that a value left the naturals the verification is about;     *)
(* `astray`, that the run entered a block the translation has not.         *)
(***************************************************************************)
EXTENDS Ingest

VARIABLES input, at, ip, store,
          outcome,  \* "idle", "running", "returned", "panicked", "undefined"
          beyond, astray

rustVars == <<input, at, ip, store, outcome, beyond, astray>>

Program == IF function = None THEN body ELSE function
TypeOf(l) == RustType(Program, l)
Truncate(ty, x) ==
  CASE ty = "isize" -> ((x + WordSize \div 2) % WordSize) - WordSize \div 2
    [] ty \in Integer \ {"isize"} -> x % WordSize
    [] OTHER -> x
Arguments ==
  {v \in [DOMAIN Program.args -> (-WordSize)..WordSize] :
     \A k \in DOMAIN Program.args : v[k] \in Values(TypeOf(Program.args[k]))}

RustIdle ==
  /\ outcome = "idle" /\ input = <<>> /\ at = 0 /\ ip = 1 /\ store = <<>>
  /\ beyond = FALSE /\ astray = FALSE

CallWith(v) ==
  /\ outcome = "idle"
  /\ input' = v
  /\ store' = [l \in {Program.args[k] : k \in DOMAIN v} |->
                 v[CHOOSE k \in DOMAIN v : Program.args[k] = l]]
  /\ beyond' = (\E k \in DOMAIN v : v[k] < 0)
  /\ outcome' = "running"
  /\ UNCHANGED <<at, ip, astray>>

Running == outcome = "running" /\ at \in DOMAIN Program.blocks
Here == Program.blocks[at]
AtKind(kind) == ip <= Len(Here.statements) /\ Here.statements[ip].kind = kind
AtExit(kind) == ip = Len(Here.statements) + 1 /\ Here.terminator.kind = kind
Held(op) == op.kind \in {"local", "projection"} => op.of \in DOMAIN store
Read(op) ==
  CASE op.kind = "bool" -> Truth(op.of)
    [] op.kind = "nat" -> op.of
    [] OTHER -> store[op.of]

Computed(op, x, y) ==
  CASE op = "sub" -> x - y
    [] op = "lt" -> Truth(x < y)
    [] OTHER -> Apply(op, x, y)

\* An operation other than a comparison has the type of the place it is for.
WidthOf(s) ==
  IF s.rvalue.op \in {"le", "lt"} THEN "bool" ELSE TypeOf(s.place)

Finish(result) == outcome' = result /\ UNCHANGED <<input, at, ip, store, beyond, astray>>
Advance == ip' = ip + 1 /\ UNCHANGED <<input, at, outcome, astray>>
JumpTo(target) ==
  /\ at' = target /\ ip' = 1
  /\ astray' = (astray \/ (function # None /\ target \notin Reachable(function)))
  /\ UNCHANGED <<input, store, outcome, beyond>>

Store(s) ==
  LET exact == Computed(s.rvalue.op, Read(s.rvalue.a), Read(s.rvalue.b))
      value == Truncate(WidthOf(s), exact)
  IN  /\ store' = [l \in DOMAIN store \cup {s.place} |-> IF l = s.place THEN value ELSE store[l]]
      /\ beyond' = (beyond \/ value # exact \/ value < 0
                      \/ Read(s.rvalue.a) < 0 \/ Read(s.rvalue.b) < 0)

RustAssign ==
  /\ Running /\ AtKind("assign")
  /\ LET s == Here.statements[ip]
     IN  IF Held(s.rvalue.a) /\ Held(s.rvalue.b) THEN Store(s) /\ Advance
         ELSE Finish("undefined")

\* Storage markers, and what does not touch a local.
RustSkip ==
  /\ Running /\ (AtKind("storage") \/ AtKind("other"))
  /\ Advance
  /\ UNCHANGED <<store, beyond>>

RustUnsafe ==
  /\ Running /\ AtKind("unsafe")
  /\ IF beyond \/ Here.statements[ip].obligation.den[input] = 1
     THEN Advance /\ UNCHANGED <<store, beyond>>
     ELSE Finish("undefined")

RustGoto == Running /\ AtExit("goto") /\ JumpTo(Here.terminator.target)
RustReturn == Running /\ AtExit("return") /\ Finish("returned")
RustPanic == Running /\ AtExit("call") /\ Finish("panicked")

RustAssert ==
  /\ Running /\ AtExit("assert")
  /\ LET t == Here.terminator
     IN  CASE ~Held(t.condition) -> Finish("undefined")
           [] Held(t.condition) /\ Read(t.condition) = Truth(t.expected) -> JumpTo(t.target)
           [] OTHER -> Finish("panicked")

RustSwitch ==
  /\ Running /\ AtExit("switch")
  /\ LET t == Here.terminator
         taken == {i \in DOMAIN t.branches : t.branches[i][1] = Read(t.discr)}
     IN  JumpTo(IF taken = {} THEN t.otherwise ELSE t.branches[CHOOSE i \in taken : TRUE][2])

RustNowhere == outcome = "running" /\ at \notin DOMAIN Program.blocks /\ Finish("undefined")

RustStep ==
  \/ RustAssign \/ RustSkip \/ RustUnsafe \/ RustGoto \/ RustReturn \/ RustPanic
  \/ RustAssert \/ RustSwitch \/ RustNowhere
=============================================================================
