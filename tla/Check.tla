-------------------------------- MODULE Check --------------------------------
(***************************************************************************)
(* Bidirectional type-checking. `Infer` returns a type or an error node;   *)
(* a context is the sequence of the types of the variables in scope, the   *)
(* innermost last.                                                         *)
(***************************************************************************)
EXTENDS Convert, SequencesExt

Err(what) == Leaf(what)
Errors ==
  {Err(e) : e \in {"UnboundVar", "UnknownConst", "NotAFunctionType", "NotAPairType",
                   "NotAUniverse", "UnknownInductive", "UnknownConstructor", "Mismatch",
                   "CannotInfer"}}
IsErr(r) == r \in Errors

Lookup(ctx, n) ==
  IF n >= Len(ctx) THEN Err("UnboundVar") ELSE Shift(ctx[Len(ctx) - n], 0, n + 1)

\* The first error of a sequence of checks, or the result.
FirstErr(results, result) ==
  IF \E i \in DOMAIN results : IsErr(results[i])
  THEN results[SelectInSeq(results, IsErr)] ELSE result

UniverseOrErr(w) == IF w.op = "Universe" THEN w ELSE Err("NotAUniverse")

\* Success of a checking judgement.
Ok == Leaf("Ok")
Then(first, second) == IF IsErr(first) THEN first ELSE second
ExpectUniverse(ty) == Then(ty, UniverseOrErr(Whnf(ty)))
Same(found, expected) ==
  IF IsErr(found) THEN found ELSE IF Conv(found, expected) THEN Ok ELSE Err("Mismatch")

\* Mutant: the motive is shifted once under two binders.
StepTypeUnshifted(motive) ==
  Pi(NatT, Pi(App(Shift(motive, 0, 1), Var(0)), App(Shift(motive, 0, 1), Succ(Var(1)))))
\* (n : Nat) -> motive n -> motive (succ n).
StepType(motive) ==
  Pi(NatT, Pi(App(Shift(motive, 0, 1), Var(0)), App(Shift(motive, 0, 2), Succ(Var(1)))))

\* Mutant: a lambda is accepted whatever domain it announces.
DomainAny(dom, exp_dom) == TRUE
DomainAgrees(dom, exp_dom) == Conv(dom, exp_dom)

\* check_motive, given the inferred type of the motive.
MotivePi(w, domain) ==
  CASE w.op # "Pi" -> Err("NotAFunctionType")
    [] w.op = "Pi" /\ ~Conv(w.kids[1], domain) -> Err("Mismatch")
    [] OTHER -> Then(ExpectUniverse(w.kids[2]), Ok)
MotiveOk(motive_ty, domain) ==
  Then(motive_ty, MotivePi(Whnf(motive_ty), domain))

\* The inductive type at the head of the type of a scrutinee.
RECURSIVE Spine(_)
Spine(ty) == IF ty.op = "App" THEN Spine(ty.kids[1]) ELSE ty

Constructors(ind) == IF ind \in DOMAIN Inductives THEN Inductives[ind].constructors ELSE <<>>

\* The context of a case: one entry per constructor argument; and the last
\* codomain met, if any.
RECURSIVE CaseScope(_, _, _)
CaseScope(w, ctx, final) ==
  IF w.op = "Pi" THEN CaseScope(Whnf(w.kids[2]), Append(ctx, w.kids[1]), <<w.kids[2]>>)
  ELSE [ctx |-> ctx, final |-> final]

RECURSIVE Infer(_, _)
RECURSIVE Checks(_, _, _)
RECURSIVE ConType(_, _, _)

\* Each argument against the next domain of the constructor's type.
ConType(ctx, ty, args) ==
  IF args = <<>> THEN ty
  ELSE IF ty.op # "Pi" THEN Err("CannotInfer")
  ELSE Then(Checks(ctx, Head(args), ty.kids[1]),
            ConType(ctx, SubstTop(ty.kids[2], Head(args)), Tail(args)))

\* Parameter i is checked where the previous arguments were pushed as types.
ParamChecks(ctx, ind, args) ==
  [i \in DOMAIN ind.params |-> Checks(ctx \o SubSeq(args, 1, i - 1), args[i], ind.params[i])]

Scrutinee(t) == t.kids[Len(t.kids)]
CaseType(t, scope) ==
  IF scope.final = <<>> THEN App(t.kids[1], Scrutinee(t))
  ELSE SubstTop(scope.final[1], Scrutinee(t))
CheckCase(t, i, scope) == Checks(scope.ctx, t.kids[i], CaseType(t, scope))
CaseCheck(ctx, t, i) ==
  IF t.name[i] \notin DOMAIN Constructors(t.name[1]) THEN Err("UnknownConstructor")
  ELSE CheckCase(t, i, CaseScope(Whnf(Constructors(t.name[1])[t.name[i]]), ctx, <<>>))

IsOf(head, ind) == head.op = "Inductive" /\ head.name[1] = ind
Eliminated(ctx, t, scrut_ty) ==
  IF IsOf(Spine(Whnf(scrut_ty)), t.name[1])
  THEN FirstErr(<<MotiveOk(Infer(ctx, t.kids[1]), scrut_ty)>>
                  \o [i \in 1..(Len(t.name) - 1) |-> CaseCheck(ctx, t, i + 1)],
                App(t.kids[1], Scrutinee(t)))
  ELSE Err("Mismatch")
InferIndRec(ctx, t, scrut_ty) ==
  IF t.name[1] \in DOMAIN Inductives THEN Then(scrut_ty, Eliminated(ctx, t, scrut_ty))
  ELSE Err("UnknownInductive")

\* Pi and Sigma: the type of the type former is the universe of the codomain.
InferBinderType(ctx, t) ==
  Then(ExpectUniverse(Infer(ctx, t.kids[1])),
       ExpectUniverse(Infer(Append(ctx, t.kids[1]), t.kids[2])))

InferLambda(ctx, t, body_ty) ==
  Then(ExpectUniverse(Infer(ctx, t.kids[1])), Then(body_ty, Pi(t.kids[1], body_ty)))

Applied(ctx, a, w) ==
  IF w.op # "Pi" THEN Err("NotAFunctionType")
  ELSE Then(Checks(ctx, a, w.kids[1]), SubstTop(w.kids[2], a))
InferApp(ctx, t, f_ty) == Then(f_ty, Applied(ctx, t.kids[2], Whnf(f_ty)))

\* The components of a pair against a Sigma type.
PairChecks(ctx, t, w) ==
  IF w.op # "Sigma" THEN Err("NotAPairType")
  ELSE Then(Checks(ctx, t.kids[1], w.kids[1]),
            Checks(ctx, t.kids[2], SubstTop(w.kids[2], t.kids[1])))

Projected(t, w) ==
  CASE w.op # "Sigma" -> Err("NotAPairType")
    [] w.op = "Sigma" /\ t.op = "Fst" -> w.kids[1]
    [] w.op = "Sigma" /\ t.op = "Snd" -> SubstTop(w.kids[2], Fst(t.kids[1]))
InferProjection(t, p_ty) == Then(p_ty, Projected(t, Whnf(p_ty)))

\* NatRec and BoolRec: scrutinee, motive, then the two branches.
Scrutinized(t) == IF t.op = "NatRec" THEN NatT ELSE BoolT
BranchType(t, i) ==
  CASE t.op = "NatRec" -> IF i = 2 THEN App(t.kids[1], Zero) ELSE StepType(t.kids[1])
    [] t.op = "BoolRec" -> App(t.kids[1], IF i = 2 THEN True ELSE False)
InferRec(ctx, t) ==
  FirstErr(<<Checks(ctx, t.kids[4], Scrutinized(t)),
             MotiveOk(Infer(ctx, t.kids[1]), Scrutinized(t))>>
             \o [i \in 1..2 |-> Checks(ctx, t.kids[i + 1], BranchType(t, i + 1))],
           App(t.kids[1], t.kids[4]))

InferLet(ctx, t, body_ty) ==
  Then(Checks(ctx, t.kids[2], t.kids[1]), Then(body_ty, SubstTop(body_ty, t.kids[2])))

Infer(ctx, t) ==
  CASE t.op = "Var" -> Lookup(ctx, t.n)
    [] t.op = "Const" -> IF t.name[1] \in DOMAIN Defs THEN Defs[t.name[1]].ty ELSE Err("UnknownConst")
    [] t.op = "Universe" -> Universe(t.n + 1)
    [] t.op \in {"Nat", "Bool"} -> Universe(0)
    [] t.op = "Zero" -> NatT
    [] t.op = "Succ" -> Then(Checks(ctx, t.kids[1], NatT), NatT)
    [] t.op \in {"True", "False"} -> BoolT
    [] t.op \in {"Pi", "Sigma"} -> InferBinderType(ctx, t)
    [] t.op = "Lambda" -> InferLambda(ctx, t, Infer(Append(ctx, t.kids[1]), t.kids[2]))
    [] t.op = "App" -> InferApp(ctx, t, Infer(ctx, t.kids[1]))
    [] t.op = "Pair" -> Then(PairChecks(ctx, t, Whnf(t.kids[3])), t.kids[3])
    [] t.op \in {"Fst", "Snd"} -> InferProjection(t, Infer(ctx, t.kids[1]))
    [] t.op \in {"NatRec", "BoolRec"} -> InferRec(ctx, t)
    [] t.op = "Inductive" ->
         IF t.name[1] \in DOMAIN Inductives
         THEN FirstErr(ParamChecks(ctx, Inductives[t.name[1]], t.kids), Universe(0))
         ELSE Err("UnknownInductive")
    [] t.op = "Con" ->
         IF t.name[2] \in DOMAIN Constructors(t.name[1])
         THEN ConType(ctx, Whnf(Constructors(t.name[1])[t.name[2]]), t.kids)
         ELSE Err("UnknownConstructor")
    [] t.op = "IndRec" -> InferIndRec(ctx, t, Infer(ctx, Scrutinee(t)))
    [] t.op = "Let" -> InferLet(ctx, t, Infer(Append(ctx, t.kids[1]), t.kids[3]))

\* Check mode for a lambda, a pair and an inductive type; for any other term,
\* infer and convert.
CheckLambda(ctx, t, w) ==
  CASE w.op # "Pi" -> Err("NotAFunctionType")
    [] w.op = "Pi" /\ ~DomainAgrees(t.kids[1], w.kids[1]) -> Err("Mismatch")
    [] OTHER -> Checks(Append(ctx, t.kids[1]), t.kids[2], w.kids[2])

CheckInductive(ctx, t, w) ==
  IF t.name[1] \notin DOMAIN Inductives THEN Err("UnknownInductive")
  ELSE FirstErr(ParamChecks(ctx, Inductives[t.name[1]], t.kids),
                IF /\ w.op = "Inductive" /\ w.name = t.name
                   /\ Len(w.kids) = Len(t.kids)
                   /\ \A i \in DOMAIN t.kids : Conv(t.kids[i], w.kids[i])
                THEN Ok ELSE Err("Mismatch"))

Introduction(ctx, t, w) ==
  CASE t.op = "Lambda" -> CheckLambda(ctx, t, w)
    [] t.op = "Pair" -> PairChecks(ctx, t, w)
    [] t.op = "Inductive" -> CheckInductive(ctx, t, w)
Checks(ctx, t, expected) ==
  IF t.op \in {"Lambda", "Pair", "Inductive"} THEN Introduction(ctx, t, Whnf(expected))
  ELSE Same(Infer(ctx, t), expected)
=============================================================================
