--------------------------------- MODULE Mir ---------------------------------
(***************************************************************************)
(* MIR-lite bodies. A statement list is flat: the statements of an unsafe  *)
(* block, `inside` of them, follow the statement that states its           *)
(* obligation, which is how both a verification and an execution go        *)
(* through them. Values are naturals, a truth value being 0 or 1. A local  *)
(* has a type of Rust, which verification reads in the kernel: every       *)
(* integer type is "Nat" there, and a type that is neither an integer type *)
(* nor "bool" is opaque.                                                   *)
(***************************************************************************)
EXTENDS Naturals, Sequences

CONSTANTS Bodies,  \* the bodies to verify
          Word,    \* the values an argument of an integer type may have
          MaxWord, \* bound: a run is followed up to the first larger value
          None     \* no assumption, no proof, no block

VARIABLE body  \* the body verified and run

NatConst(n) == [kind |-> "nat", of |-> n]
BoolConst(b) == [kind |-> "bool", of |-> b]
Local(l) == [kind |-> "local", of |-> l]

Use(a) == [op |-> "use", a |-> a, b |-> a]
Add(a, b) == [op |-> "add", a |-> a, b |-> b]
Mul(a, b) == [op |-> "mul", a |-> a, b |-> b]
Le(a, b) == [op |-> "le", a |-> a, b |-> b]

Truth(b) == IF b THEN 1 ELSE 0
Apply(op, x, y) ==
  CASE op = "use" -> x
    [] op = "add" -> x + y
    [] op = "mul" -> x * y
    [] op = "le" -> Truth(x <= y)

Assign(place, rvalue) == [kind |-> "assign", place |-> place, rvalue |-> rvalue]
Unsafe(obligation, assumption, proof, inside) ==
  [kind |-> "unsafe", obligation |-> obligation, assumption |-> assumption, proof |-> proof,
   inside |-> inside]

Return == [kind |-> "return"]
Goto(target) == [kind |-> "goto", target |-> target]
Assert(condition, expected, target) ==
  [kind |-> "assert", condition |-> condition, expected |-> expected, target |-> target]

\* locals: the declared ones, with their types; blocks: a function on 0..n-1.
MirBody(args, locals, blocks) == [args |-> args, locals |-> locals, blocks |-> blocks]
Block(statements, terminator) == [statements |-> statements, terminator |-> terminator]

\* The integer types, of the size of a word: to_core_term and the aliases of
\* the library make a Nat of all of them.
Integer == {"usize", "isize", "u64"}
ToCoreTerm(ty) ==
  CASE ty \in Integer -> "Nat"
    [] ty = "bool" -> "Bool"
    [] OTHER -> ty

\* An undeclared local is an integer.
DeclaredType(b, l) == IF l \in DOMAIN b.locals THEN ToCoreTerm(b.locals[l]) ELSE "Nat"

\* The argument tuples a body can be called with.
Inputs(b) ==
  {v \in [DOMAIN b.args -> Word \cup {0, 1}] :
     \A k \in DOMAIN b.args : DeclaredType(b, b.args[k]) = "Bool" => v[k] \in {0, 1}}

Operand(op) == op.kind \in {"nat", "bool", "local"}
WellFormedStatement(s) ==
  \/ s.kind = "unsafe"
  \/ /\ s.kind = "assign"
     /\ s.rvalue.op \in {"use", "add", "mul", "le"}
     /\ Operand(s.rvalue.a) /\ Operand(s.rvalue.b)
WellFormedBlock(b) ==
  /\ Len(b.statements) \in Nat /\ DOMAIN b.statements = 1..Len(b.statements)
  /\ \A i \in DOMAIN b.statements : WellFormedStatement(b.statements[i])
  /\ \A i \in DOMAIN b.statements :
       LET s == b.statements[i]
       IN  s.kind = "unsafe" => s.inside \in Nat /\ i + s.inside <= Len(b.statements)
  /\ b.terminator.kind \in {"return", "goto", "assert"}
  /\ b.terminator.kind = "assert" => Operand(b.terminator.condition)

WellFormedBody(b) ==
  /\ Len(b.args) \in Nat /\ DOMAIN b.args = 1..Len(b.args)
  /\ DOMAIN b.blocks \subseteq Nat
  /\ None \notin DOMAIN b.blocks
  /\ \A k \in DOMAIN b.blocks : WellFormedBlock(b.blocks[k])

ASSUME WordAssumption == Word \subseteq Nat
ASSUME BodiesAssumption == \A b \in Bodies : WellFormedBody(b)
=============================================================================
