------------------------------- MODULE Outputs -------------------------------
(***************************************************************************)
(* What leaves the kernel: the Rust types and values extracted from it,    *)
(* the expressions its terms become for the solver, and the text the REPL  *)
(* prints. Each must mean what the term it comes from means, at any stage  *)
(* of the reduction of the term.                                           *)
(***************************************************************************)
EXTENDS Kernel, Erase, FromCore

Text == INSTANCE Surface

\* A tuple value or type, its last component spread: the type of a chain of
\* pairs is flat where it reads as a chain, and the value always nests.
RECURSIVE Flat(_)
Spread(s) == IF s.tag = "tuple" THEN s.parts ELSE <<s>>
Spreading(parts) == Front(parts) \o Spread(Last(parts))
Flat(s) ==
  IF s.tag # "tuple" THEN s
  ELSE Tuple(Spreading([i \in DOMAIN s.parts |-> Flat(s.parts[i])]))

RECURSIVE Fits(_, _)
Fits(v, ty) ==
  \/ v.tag = "number" /\ ty.tag = "u32"
  \/ v.tag = "truth" /\ ty.tag = "bool"
  \/ /\ v.tag = "tuple" /\ ty.tag = "tuple" /\ Len(v.parts) = Len(ty.parts)
     /\ \A i \in DOMAIN v.parts : Fits(v.parts[i], ty.parts[i])

FitsIfBoth(v, ty) == IsRefused(v) \/ IsRefused(ty) \/ Fits(Flat(v), Flat(ty))

\* The value extracted from a pair has the Rust type extracted from the type
\* of the pair, the dependency resolved by its first component, component by
\* component up to the nesting of tuples (pair_value_to_rust against
\* pair_type_to_tuple_source_with_witness, whose walk counts binders).
ErasedValueFits ==
  t.op = "Pair" => FitsIfBoth(ValueSource(t), TupleSource(t.kids[3], <<t.kids[1]>>))

Literals(ty) ==
  CASE ty.tag = "u32" -> {Zero, Succ(Zero)}
    [] ty.tag = "bool" -> {True, False}
    [] OTHER -> {}
ArgumentsOf(sig) ==
  {v \in [1..(Len(sig) - 1) -> Literals(U32) \cup Literals(BoolSource)] :
     \A i \in DOMAIN v : v[i] \in Literals(sig[i])}
Result(f, v) == ValueSource(Normalize(FoldLeft(App, f, v)))

SignatureOfFunction(f) == FnSource(Infer(NoCtx, f))
ReturnsAnnounced(f, fn) ==
  ~IsRefused(fn) => \A v \in ArgumentsOf(fn.parts) : Fits(Flat(Result(f, v)), Flat(Last(fn.parts)))

\* A function called through the signature extracted for it returns a value of
\* the Rust type announced, on every argument of the types announced
\* (pi_type_to_fn_source erases nothing it should not).
FunctionErases == t.op = "Lambda" => ReturnsAnnounced(t, SignatureOfFunction(t))

\* An obligation over two numbers at most, closed by their values.
Takes(u) == u.op = "Lambda" /\ u.kids[1] = NatT
Obligation(u) ==
  CASE ~Takes(u) -> u
    [] Takes(u) /\ ~Takes(u.kids[2]) -> u.kids[2]
    [] OTHER -> u.kids[2].kids[2]
Instance(u, a) ==
  CASE ~Takes(u) -> u
    [] Takes(u) /\ ~Takes(u.kids[2]) -> App(u, Num(a[1]))
    [] OTHER -> App2(u, Num(a[2]), Num(a[1]))
AsMeaning(u) ==
  IF u \in {True, False} THEN [sort |-> "Bool", value |-> IF u = True THEN 1 ELSE 0]
  ELSE [sort |-> "Nat", value |-> Says[u].args[1]]
Means(e, a) == [sort |-> Last(Solver!Evaluate(e)).sort, value |-> Last(Solver!Evaluate(e)).at[a]]

\* The expression the solver is asked about is equal, under every assignment,
\* to what the kernel computes for the term it was translated from: what the
\* solver discharges is what verify_body was asked (term_to_expr).
TranslationAgrees ==
  LET e == TermToExpr(Obligation(t))
  IN  Interpreted(e) => \A a \in Assignments : AsMeaning(Normalize(Instance(t, a))) = Means(e, a)

\* A term printed where it can be read back is the term that is read: a name
\* chosen by the printer never captures another (fresh_name, Scope::resolve).
ReadsBack == Text!Legible(t) => Text!Lower(Text!Show(t, <<>>), <<>>) = t
=============================================================================
