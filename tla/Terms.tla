-------------------------------- MODULE Terms --------------------------------
(***************************************************************************)
(* Kernel terms with de Bruijn indices. A term is a node: its constructor, *)
(* the index or level it carries, the names it carries, and its children,  *)
(* in the order of the fields of `TermKind`. Interning makes structurally  *)
(* equal terms one object, which is equality here.                         *)
(***************************************************************************)
EXTENDS Naturals, Sequences

CONSTANT Term  \* the terms there are (IsTermSet): what the functions below are defined on

Node(op, n, name, kids) == [op |-> op, n |-> n, name |-> name, kids |-> kids]
Leaf(op) == Node(op, 0, <<>>, <<>>)

Var(n) == Node("Var", n, <<>>, <<>>)
Const(c) == Node("Const", 0, <<c>>, <<>>)
Universe(i) == Node("Universe", i, <<>>, <<>>)
Pi(dom, cod) == Node("Pi", 0, <<>>, <<dom, cod>>)
Lambda(dom, body) == Node("Lambda", 0, <<>>, <<dom, body>>)
App(f, a) == Node("App", 0, <<>>, <<f, a>>)
Sigma(a, b) == Node("Sigma", 0, <<>>, <<a, b>>)
Pair(a, b, ty) == Node("Pair", 0, <<>>, <<a, b, ty>>)
Fst(p) == Node("Fst", 0, <<>>, <<p>>)
Snd(p) == Node("Snd", 0, <<>>, <<p>>)
NatT == Leaf("Nat")
Zero == Leaf("Zero")
Succ(n) == Node("Succ", 0, <<>>, <<n>>)
NatRec(m, base, step, t) == Node("NatRec", 0, <<>>, <<m, base, step, t>>)
BoolT == Leaf("Bool")
True == Leaf("True")
False == Leaf("False")
BoolRec(m, ct, cf, t) == Node("BoolRec", 0, <<>>, <<m, ct, cf, t>>)
Let(ty, val, body) == Node("Let", 0, <<>>, <<ty, val, body>>)
Inductive(ind, params) == Node("Inductive", 0, <<ind>>, params)
Con(ind, con, args) == Node("Con", 0, <<ind, con>>, args)
\* cases: a sequence of <<constructor, body>>.
IndRec(ind, m, cases, t) ==
  Node("IndRec", 0, <<ind>> \o [i \in DOMAIN cases |-> cases[i][1]],
       <<m>> \o [i \in DOMAIN cases |-> cases[i][2]] \o <<t>>)

App2(f, a, b) == App(App(f, a), b)

WithKids(t, kids) == [t EXCEPT !.kids = kids]

Ops ==
  {"Var", "Const", "Universe", "Pi", "Lambda", "App", "Sigma", "Pair", "Fst", "Snd", "Nat", "Zero",
   "Succ", "NatRec", "Bool", "True", "False", "BoolRec", "Let", "Inductive", "Con", "IndRec"}
Arity(op) ==
  CASE op \in {"Succ", "Fst", "Snd"} -> 1
    [] op \in {"Pi", "Lambda", "App", "Sigma"} -> 2
    [] op \in {"Pair", "Let"} -> 3
    [] op \in {"NatRec", "BoolRec"} -> 4
    [] OTHER -> 0
\* The fields each constructor has. IndRec is named by its type and its cases.
Shaped(t) ==
  /\ t.op \notin {"Var", "Universe"} => t.n = 0
  /\ t.op \notin {"Const", "Inductive", "Con", "IndRec"} => t.name = <<>>
  /\ t.op \in {"Const", "Inductive"} => Len(t.name) = 1
  /\ t.op = "Con" => Len(t.name) = 2
  /\ t.op \notin {"Inductive", "Con", "IndRec"} => Len(t.kids) = Arity(t.op)
  /\ t.op = "IndRec" => Len(t.name) >= 1 /\ Len(t.kids) = Len(t.name) + 1
\* T is all terms: every node over terms is one, and each is built of others
\* in finitely many steps.
IsTermSet(T) ==
  /\ T = {t \in [op : Ops, n : Nat, name : Seq(STRING), kids : Seq(T)] : Shaped(t)}
  /\ \A S \in SUBSET T : S # {} => \E t \in S : \A i \in DOMAIN t.kids : t.kids[i] \notin S

\* Mutant: a dependent codomain is treated as if it bound nothing.
BindersNoCodomain(t, i) ==
  IF (t.op = "Lambda" /\ i = 2) \/ (t.op = "Let" /\ i = 3) THEN 1 ELSE 0

\* Binders `shift` and `subst` cross on the way into child i. A case body of
\* IndRec counts for one, whatever the number of constructor arguments.
Binders(t, i) ==
  IF \/ t.op \in {"Pi", "Lambda", "Sigma"} /\ i = 2
     \/ t.op = "Let" /\ i = 3
     \/ t.op = "IndRec" /\ 1 < i /\ i < Len(t.kids)
  THEN 1 ELSE 0

\* The functions below recur on the children of a term.
ShiftBy(amount) ==
  LET shifted[t \in Term] ==
        [cutoff \in Nat |->
           IF t.op = "Var"
           THEN IF t.n >= cutoff THEN Var(t.n + amount) ELSE t
           ELSE WithKids(t, [i \in DOMAIN t.kids |-> shifted[t.kids[i]][cutoff + Binders(t, i)]])]
  IN  shifted
Shift(t, cutoff, amount) == ShiftBy(amount)[t][cutoff]

\* Mutant: the image is not shifted past the binders it is carried under.
SubstVarNoShift(n, depth, image) ==
  IF n = depth THEN image ELSE Var(IF n > depth THEN n - 1 ELSE n)
SubstVar(n, depth, image) ==
  IF n = depth THEN Shift(image, 0, depth) ELSE Var(IF n > depth THEN n - 1 ELSE n)

SubstWith(image) ==
  LET replaced[t \in Term] ==
        [depth \in Nat |->
           IF t.op = "Var"
           THEN SubstVar(t.n, depth, image)
           ELSE WithKids(t, [i \in DOMAIN t.kids |-> replaced[t.kids[i]][depth + Binders(t, i)]])]
  IN  replaced
Subst(t, depth, image) == SubstWith(image)[t][depth]

SubstTop(body, arg) == Subst(body, 0, arg)
=============================================================================
