------------------------------- MODULE Tactic -------------------------------
(***************************************************************************)
(* The tactic engine: `run` of a tactic on a goal. A tactic that is tried  *)
(* goes through stages: saturation with one set of rules or the other, the *)
(* two cases of an induction, or the SMT solver.                           *)
(***************************************************************************)
EXTENDS Saturation, Smt

CONSTANTS Goals,   \* [lhs, rhs]; a side that cannot be parsed is the empty sequence
          Tactics, \* what `run` may be called with
          None

VARIABLES goal, tactic,
          smtBuilt,  \* the `smt` feature was compiled in
          tries,     \* the tactics still to be tried, the current one first
          stage,     \* "simp", "definitional", "base", "step" or "smt"
          status     \* "running", "ok", "panic" or an error

vars == <<goal, tactic, smtBuilt, tries, stage, status, satVars>>
caseVars == <<goal, tactic, smtBuilt>>

Simp == [kind |-> "simp"]
SmtOnly == [kind |-> "smt"]
AutoOn(var) == [kind |-> "auto", var |-> var]
InductionOn(var) == [kind |-> "induction", var |-> var]
OrElse(ts) == [kind |-> "orelse", of |-> ts]
DefaultTactic == OrElse(<<Simp, SmtOnly>>)

\* The variable of an induction is a symbol; an OrElse is not inside another.
Single ==
  {Simp, SmtOnly} \cup {AutoOn(x) : x \in Symbol \cup {None}} \cup {InductionOn(x) : x \in Symbol}
ASSUME GoalAssumption ==
  \A g \in Goals : IsTerm(g.lhs) /\ IsTerm(g.rhs) /\ Rooted(g.lhs) /\ Rooted(g.rhs)
ASSUME TacticAssumption ==
  \A t \in Tactics :
    t \in Single \/ (t = OrElse(t.of) /\ t.of \in Seq(Single) /\ t.of # <<>>)

\* Mutant: induction starts at the step case.
FirstStageStep(t) ==
  CASE t.kind = "simp" -> "simp"
    [] t.kind = "auto" -> "definitional"
    [] t.kind = "induction" -> "step"
    [] t.kind = "smt" -> "smt"

FirstStage(t) ==
  CASE t.kind = "simp" -> "simp"
    [] t.kind = "auto" -> "definitional"
    [] t.kind = "induction" -> "base"
    [] t.kind = "smt" -> "smt"

Tried(t) == IF t.kind = "orelse" THEN t.of ELSE <<t>>

Init ==
  /\ goal \in Goals /\ tactic \in Tactics /\ smtBuilt \in BOOLEAN
  /\ tries = Tried(tactic)
  /\ stage = FirstStage(Head(tries))
  /\ status = "running"
  /\ SatIdle
-----------------------------------------------------------------------------
(* substitute_var, which replaces the leaves that are exactly the variable.*)

Var == Head(tries).var
Rename(e, x, op) == [i \in DOMAIN e |-> IF e[i] = Leaf(x) THEN Leaf(op) ELSE e[i]]

\* (succ x) in place of x: every leaf x now stands for the second node.
PutSucc(e, x) ==
  IF e = <<Leaf(x)>> THEN <<Leaf(x), Succ(1)>>
  ELSE <<Leaf(x), Succ(1)>>
         \o [i \in DOMAIN e |->
               Node(e[i].op, [k \in DOMAIN e[i].args |->
                                IF e[e[i].args[k]] = Leaf(x) THEN 2 ELSE e[i].args[k] + 2])]

Hypothesis(x) ==
  Rule("induction-hypothesis", Rename(goal.lhs, x, "?v"), Rename(goal.rhs, x, "?v"))
\* Mutant: the variables of the wrong side are looked at.
HypothesisBoundLeft(x) == PatVarsOf(Hypothesis(x).lhs) \subseteq PatVarsOf(Hypothesis(x).rhs)
HypothesisBound(x) == PatVarsOf(Hypothesis(x).rhs) \subseteq PatVarsOf(Hypothesis(x).lhs)
-----------------------------------------------------------------------------
Parses == goal.lhs # <<>> /\ goal.rhs # <<>>
AtStage(s) == status = "running" /\ stage = s /\ phase = "idle"

BeginSimp ==
  /\ AtStage("simp") /\ Parses
  /\ Compare(goal.lhs, goal.rhs, AlgebraicRules)
  /\ UNCHANGED <<caseVars, tries, stage, status>>

BeginDefinitional ==
  /\ AtStage("definitional") /\ Parses
  /\ Compare(goal.lhs, goal.rhs, DefinitionalRules)
  /\ UNCHANGED <<caseVars, tries, stage, status>>

BeginBase ==
  /\ AtStage("base") /\ Parses
  /\ Compare(Rename(goal.lhs, Var, "zero"), Rename(goal.rhs, Var, "zero"), DefinitionalRules)
  /\ UNCHANGED <<caseVars, tries, stage, status>>

BeginStep ==
  /\ AtStage("step") /\ HypothesisBound(Var)
  /\ Compare(PutSucc(goal.lhs, Var), PutSucc(goal.rhs, Var),
             Append(DefinitionalRules, Hypothesis(Var)))
  /\ UNCHANGED <<caseVars, tries, stage, status>>

\* Rewrite::new refuses a right side with a variable the left side does not
\* bind, and its result is unwrapped.
HypothesisPanics ==
  /\ AtStage("step") /\ ~HypothesisBound(Var)
  /\ status' = "panic"
  /\ UNCHANGED <<caseVars, tries, stage, satVars>>
-----------------------------------------------------------------------------
(* The end of a stage.                                                     *)

Succeed == status' = "ok" /\ UNCHANGED <<caseVars, tries, stage>>
GoTo(s) == stage' = s /\ UNCHANGED <<caseVars, tries, status>>

\* The current tactic fails: an OrElse goes on with the next one.
TacticFails(error) ==
  IF tactic.kind = "orelse" /\ Len(tries) > 1
  THEN /\ tries' = Tail(tries)
       /\ stage' = FirstStage(tries[2])
       /\ UNCHANGED <<caseVars, status>>
  ELSE /\ status' = IF tactic.kind = "orelse" THEN "NoTacticApplied" ELSE error
       /\ UNCHANGED <<caseVars, tries, stage>>

\* The current stage fails: Auto goes on with induction, then SMT.
StageFails(error) ==
  CASE stage = "definitional" /\ Var # None -> GoTo("base")
    [] stage = "definitional" /\ Var = None -> GoTo("smt")
    [] stage \in {"base", "step"} /\ Head(tries).kind = "auto" -> GoTo("smt")
    [] OTHER -> TacticFails(error)

ParseFails ==
  /\ status = "running" /\ phase = "idle" /\ stage # "smt" /\ ~Parses
  /\ StageFails(IF stage = "base" THEN "BaseCaseFailed" ELSE "Parse")
  /\ UNCHANGED satVars

StageError ==
  CASE stage = "base" -> "BaseCaseFailed"
    [] stage = "step" -> "StepCaseFailed"
    [] OTHER -> "SimpFailed"

Saturated ==
  /\ status = "running" /\ phase = "stopped"
  /\ IF ProvedEqual
     THEN IF stage = "base" THEN GoTo("step") ELSE Succeed
     ELSE StageFails(StageError)
  /\ Drop

AskSmt ==
  /\ AtStage("smt")
  /\ IF ~smtBuilt THEN TacticFails("SmtUnavailable")
     ELSE IF ~Parses THEN TacticFails("Parse")
     ELSE \E answer \in SmtAnswers(goal.lhs, goal.rhs) :
            CASE answer = "ok" -> Succeed
              [] answer = "panic" -> status' = "panic" /\ UNCHANGED <<caseVars, tries, stage>>
              [] OTHER -> TacticFails(answer)
  /\ UNCHANGED satVars

Saturate == SatStep /\ UNCHANGED <<caseVars, tries, stage, status>>

Next ==
  \/ BeginSimp \/ BeginDefinitional \/ BeginBase \/ BeginStep \/ HypothesisPanics
  \/ Saturate \/ Saturated \/ ParseFails \/ AskSmt

Spec == Init /\ [][Next]_vars
\* `run` is a loop of the calling thread: it goes on until it returns.
LiveSpec == Spec /\ WF_vars(Next)
-----------------------------------------------------------------------------
Errors ==
  {"Parse", "SimpFailed", "BaseCaseFailed", "StepCaseFailed", "NoTacticApplied", "SmtUnavailable"}
    \cup SmtErrors

TypeOK ==
  /\ goal \in Goals /\ tactic \in Tactics /\ smtBuilt \in BOOLEAN
  /\ tries # <<>> /\ stage \in {"simp", "definitional", "base", "step", "smt"}
  /\ status \in {"running", "ok", "panic"} \cup Errors
  /\ phase \in {"idle", "load", "search", "apply", "instantiate", "rebuild", "stopped"}
  /\ Len(rep) = Len(nodes) /\ Len(meaning) = Len(nodes)
  /\ \A i \in DOMAIN nodes : rep[i] \in DOMAIN nodes /\ rep[rep[i]] = rep[i]
  /\ \A t \in todo : t[1] \in DOMAIN rules
  /\ iter \in 0..MaxIter

Trusted == Len(sides) = 2 /\ GoalSorted(sides[1], sides[2]) /\ stage # "step"

\* Whatever the order in which rules are applied and wherever the limits cut
\* the saturation short, two nodes of one class mean the same: the rules of
\* lang.rs preserve meaning under every assignment, and so do the unions that
\* restore congruence.
ClassesAgree == Trusted => \A i \in DOMAIN nodes : meaning[i] = meaning[rep[i]]

\* What saturation proved: no induction was involved.
GoalOk == GoalSorted(goal.lhs, goal.rhs)
DischargedIsValid ==
  status = "ok" /\ GoalOk /\ stage \in {"simp", "definitional"} => Valid(goal.lhs, goal.rhs)

\* A goal proved by induction holds at zero, and nothing more can be said: the
\* hypothesis is a rule whose variable matches any term (see InductionIsSound).
ProvedHoldsAtZero ==
  status = "ok" /\ GoalOk /\ stage = "step" /\ SymbolSort[Var] = "Nat" =>
    Valid(Rename(goal.lhs, Var, "zero"), Rename(goal.rhs, Var, "zero"))

\* A goal the SMT solver discharges is valid if no node of its left side
\* stands in the cache for a different node of its right side.
SmtAlignedIsValid ==
  status = "ok" /\ GoalOk /\ stage = "smt" /\ Aligned(goal.lhs, goal.rhs) =>
    Valid(goal.lhs, goal.rhs)

\* Closed goals are decided: if no limit cuts it short, saturation with either
\* set of rules proves every valid goal without a free symbol.
Closed(e) == \A i \in DOMAIN e : e[i].op \notin Symbol
ClosedComplete ==
  Trusted /\ phase = "stopped" /\ ~limit /\ Closed(sides[1]) /\ Closed(sides[2]) =>
    (ProvedEqual <=> Valid(sides[1], sides[2]))

\* The engine panics only on an induction variable that occurs on the right
\* side of a goal and not on the left, and on a comparison given to the solver.
PanicsAreKnown ==
  status = "panic" =>
    \/ /\ stage = "step"
       /\ \E i \in DOMAIN goal.rhs : goal.rhs[i].op = Var
       /\ \A i \in DOMAIN goal.lhs : goal.lhs[i].op # Var
    \/ /\ stage = "smt"
       /\ \E e \in {goal.lhs, goal.rhs} : \E i \in DOMAIN e : e[i].op = "le"

\* `run` returns (or panics): the limits stop every saturation.
Terminates == <>(status # "running")

\* tactic.rs: "Structural induction over `Nat` on `var`": a goal it proves holds.
InductionIsSound ==
  status = "ok" /\ GoalOk /\ stage = "step" => Valid(goal.lhs, goal.rhs)

\* smt.rs: "the goal `lhs = rhs` is proved by asking Z3 whether `lhs # rhs` is
\* unsatisfiable", and "Well-sortedness is assumed and checked", `le` being one
\* of the connectives: a well-sorted goal over numbers is never refused for its
\* sorts, and it holds if it is discharged.
OverNumbers(e) == \A i \in DOMAIN e : e[i].op \in Symbol => SymbolSort[e[i].op] = "Nat"
SmtDecides ==
  GoalOk /\ OverNumbers(goal.lhs) /\ OverNumbers(goal.rhs) =>
    /\ status # "IllSorted"
    /\ status = "ok" /\ stage = "smt" => Valid(goal.lhs, goal.rhs)
=============================================================================
