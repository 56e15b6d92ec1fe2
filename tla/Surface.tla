------------------------------- MODULE Surface -------------------------------
(***************************************************************************)
(* The surface syntax, from a term to what is printed and back. The text   *)
(* is kept as the tree the parser reads in it: `Show` is the printer,     *)
(* `Legible` says where the parser reads back what was printed, `Lower`    *)
(* resolves the names. A name is a word and a number, 0 when it has none.  *)
(***************************************************************************)
EXTENDS Terms, SequencesExt

Ast(kind, name, kids) == [kind |-> kind, name |-> name, kids |-> kids]
Word(w) == <<w, 0>>
Ref(name) == Ast("Var", name, <<>>)
Applied1(f, a) == Ast("App", Word(""), <<f, a>>)
Spine(head, args) == FoldLeft(Applied1, head, args)
-----------------------------------------------------------------------------
(* The printer.                                                            *)

Bases == <<"x", "y", "z", "w", "v", "u">>
FreeBases(names) == {i \in DOMAIN Bases : Word(Bases[i]) \notin {names[k] : k \in DOMAIN names}}
\* Mutant: the names in scope are not looked at.
FreshFirst(names) == Word("x")
FreshName(names) ==
  IF FreeBases(names) = {} THEN <<"x", Len(names)>>
  ELSE Word(Bases[CHOOSE i \in FreeBases(names) : \A j \in FreeBases(names) : i <= j])

Keyword ==
  [Nat |-> "Nat", Bool |-> "Bool", Zero |-> "zero", True |-> "true", False |-> "false",
   Succ |-> "succ", Fst |-> "fst", Snd |-> "snd", NatRec |-> "natrec", BoolRec |-> "boolrec"]

RECURSIVE Show(_, _)
\* A binder opens a scope for its last child.
PrintBinder(u, names) ==
  Ast(u.op, FreshName(names),
      [i \in DOMAIN u.kids |->
         Show(u.kids[i], IF Binders(u, i) = 1 THEN Append(names, FreshName(names)) ELSE names)])
Show(u, names) ==
  CASE u.op = "Var" -> Ref(IF u.n < Len(names) THEN names[Len(names) - u.n] ELSE <<"#", u.n>>)
    [] u.op \in {"Const", "Inductive"} ->
         Spine(Ref(Word(u.name[1])), [i \in DOMAIN u.kids |-> Show(u.kids[i], names)])
    [] u.op = "Universe" -> Ref(<<"Type", u.n>>)
    [] u.op \in DOMAIN Keyword ->
         Spine(Ref(Word(Keyword[u.op])), [i \in DOMAIN u.kids |-> Show(u.kids[i], names)])
    [] u.op \in {"Pi", "Sigma", "Lambda", "Let"} -> PrintBinder(u, names)
    [] u.op = "App" -> Applied1(Show(u.kids[1], names), Show(u.kids[2], names))
    [] u.op = "Pair" -> Ast("Pair", Word(""), <<Show(u.kids[1], names), Show(u.kids[2], names)>>)
    [] u.op = "Con" ->
         Ast("ConApp", u.name, [i \in DOMAIN u.kids |-> Show(u.kids[i], names)])
    [] u.op = "IndRec" ->
         Ast("Elim", u.name, [i \in 1..(Len(u.kids) - 1) |-> Show(u.kids[i], names)])

\* What is printed in the place of an argument stands there by itself.
Delimited(u) == u.op \notin {"Pi", "Sigma", "NatRec", "BoolRec", "Con"}
Tight(u, i) == u.op = "App" \/ u.op \in DOMAIN Keyword \/ u.op = "Con"
\* An application to more arguments than a keyword takes.
Overapplied(u) == u.op = "App" /\ u.kids[1].op \in DOMAIN Keyword
\* The text is read back as what was printed, and says all there is to say:
\* `let` is printed with a sign the parser does not have, a pair without its
\* type, an elimination without what it eliminates, an inductive type as a
\* constant, and several arguments of a constructor as one application.
RECURSIVE Legible(_)
Legible(u) ==
  /\ u.op \notin {"Let", "Inductive", "IndRec"}
  /\ u.op = "Pair" => u.kids[3] = Sigma(NatT, NatT)
  /\ u.op = "Con" => Len(u.kids) <= 1
  /\ ~Overapplied(u)
  /\ \A i \in DOMAIN u.kids : Legible(u.kids[i]) /\ (Tight(u, i) => Delimited(u.kids[i]))
-----------------------------------------------------------------------------
(* Lowering.                                                               *)

LowerError(what) == Leaf(what)
LowerErrors == {LowerError("ArityMismatch"), LowerError("InvalidConstructorType")}
\* The first error among the parts, or what they make.
Lowered(parts, whole) ==
  IF \E i \in DOMAIN parts : parts[i] \in LowerErrors
  THEN parts[CHOOSE i \in DOMAIN parts :
               parts[i] \in LowerErrors /\ \A j \in 1..(i - 1) : parts[j] \notin LowerErrors]
  ELSE whole

Nullary == [Nat |-> NatT, Bool |-> BoolT, zero |-> Zero, true |-> True, false |-> False]
IsBuiltin(name) == name[1] = "Type" \/ name[1] \in DOMAIN Nullary
Builtin(name) == IF name[1] = "Type" THEN Universe(name[2]) ELSE Nullary[name[1]]

\* The nearest binder of that name; a builtin is not looked up.
Bound(scope, name) == {i \in DOMAIN scope : scope[i] = name}
Nearest(scope, name) == CHOOSE i \in Bound(scope, name) : \A j \in Bound(scope, name) : j <= i
LowerName(name, scope) ==
  CASE IsBuiltin(name) -> Builtin(name)
    [] ~IsBuiltin(name) /\ Bound(scope, name) # {} -> Var(Len(scope) - Nearest(scope, name))
    [] OTHER -> Const(name[1])

RECURSIVE HeadOf(_)
HeadOf(e) == IF e.kind = "App" THEN HeadOf(e.kids[1]) ELSE e
RECURSIVE ArgsOf(_)
ArgsOf(e) == IF e.kind = "App" THEN Append(ArgsOf(e.kids[1]), e.kids[2]) ELSE <<>>

\* Heads that take a fixed number of arguments, parentheses or not.
FixedArity == [succ |-> 1, fst |-> 1, snd |-> 1, natrec |-> 4, boolrec |-> 4]
FixedOp == [succ |-> "Succ", fst |-> "Fst", snd |-> "Snd", natrec |-> "NatRec", boolrec |-> "BoolRec"]
IsFixed(head) == head.kind = "Var" /\ head.name[1] \in DOMAIN FixedArity

RECURSIVE Lower(_, _)
LowerAll(es, scope) == [i \in DOMAIN es |-> Lower(es[i], scope)]
LowerFixed(name, args) ==
  IF Len(args) # FixedArity[name] THEN LowerError("ArityMismatch")
  ELSE Lowered(args, Node(FixedOp[name], 0, <<>>, args))
LowerApp(head, args, scope) ==
  IF IsFixed(head) THEN LowerFixed(head.name[1], args)
  ELSE Lowered(<<Lower(head, scope)>> \o args, FoldLeft(App, Lower(head, scope), args))
\* The last child is in the scope of the name.
LowerBinder(op, parts) == Lowered(parts, Node(op, 0, <<>>, parts))
LowerPair(parts) == Lowered(parts, Pair(parts[1], parts[2], Sigma(NatT, NatT)))
Lower(e, scope) ==
  CASE e.kind = "Var" -> LowerName(e.name, scope)
    [] e.kind \in {"Pi", "Sigma", "Lambda", "Let"} ->
         LowerBinder(e.kind, Append(LowerAll(Front(e.kids), scope), Lower(Last(e.kids), Append(scope, e.name))))
    [] e.kind = "Pair" -> LowerPair(LowerAll(e.kids, scope))
    [] e.kind = "App" -> LowerApp(HeadOf(e), LowerAll(ArgsOf(e), scope), scope)
    [] e.kind = "ConApp" -> Lowered(LowerAll(e.kids, scope), Con(e.name[1], e.name[2], LowerAll(e.kids, scope)))
    [] e.kind = "Elim" -> Lowered(LowerAll(e.kids, scope), LowerError("InvalidConstructorType"))
=============================================================================
