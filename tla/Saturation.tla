----------------------------- MODULE Saturation -----------------------------
(***************************************************************************)
(* `prove_equal`: equality saturation of the two sides of a goal. The      *)
(* e-graph is the sequence of the nodes ever added, an e-node being named  *)
(* by its position, and `rep`, the canonical name of the class of each.    *)
(* The runner is a library: an iteration searches every rule on a clean    *)
(* e-graph, then applies the matches, rule by rule, then restores          *)
(* congruence; it stops when an iteration changed nothing or a limit on    *)
(* iterations, nodes or time is reached, which is looked at between two    *)
(* rules. `meaning` is a history variable: what each node meant when it    *)
(* was added.                                                              *)
(***************************************************************************)
EXTENDS Lang, FiniteSets

CONSTANTS MaxIter,   \* bound: the iteration limit of the runner (30)
          MaxNodes   \* bound: its node limit (10000)

VARIABLES sides,     \* the two expressions compared
          rules,     \* the rules used
          phase,     \* "idle", "load", "search", "apply", "instantiate", "rebuild", "stopped"
          nodes, rep, meaning,
          roots,     \* the classes of the sides loaded so far
          todo,      \* matches found and not yet applied: <<rule, classes>>
          match,     \* the match being applied
          regs,      \* classes of the nodes inserted so far of the current expression
          iter, changed,
          limit      \* a limit was hit

graphVars == <<nodes, rep, meaning>>
runVars == <<sides, rules, phase, roots, todo, match, regs, iter, changed, limit>>
satVars == <<graphVars, runVars>>

NoMatch == <<0, <<>>>>

SatIdle ==
  /\ sides = <<>> /\ rules = <<>> /\ phase = "idle"
  /\ nodes = <<>> /\ rep = <<>> /\ meaning = <<>>
  /\ roots = <<>> /\ todo = {} /\ match = NoMatch /\ regs = <<>>
  /\ iter = 0 /\ changed = FALSE /\ limit = FALSE

\* A new runner on `lhs` and `rhs`, and dropping one.
Compare(lhs, rhs, rs) ==
  /\ sides' = <<lhs, rhs>> /\ rules' = rs /\ phase' = "load"
  /\ nodes' = <<>> /\ rep' = <<>> /\ meaning' = <<>>
  /\ roots' = <<>> /\ todo' = {} /\ match' = NoMatch /\ regs' = <<>>
  /\ iter' = 0 /\ changed' = FALSE /\ limit' = FALSE
Drop ==
  /\ sides' = <<>> /\ rules' = <<>> /\ phase' = "idle"
  /\ nodes' = <<>> /\ rep' = <<>> /\ meaning' = <<>>
  /\ roots' = <<>> /\ todo' = {} /\ match' = NoMatch /\ regs' = <<>>
  /\ iter' = 0 /\ changed' = FALSE /\ limit' = FALSE

Same(i, j) == rep[i] = rep[j]
\* Mutant: a saturation that was cut short proves the goal.
ProvedOrCut == phase = "stopped" /\ (limit \/ Same(roots[1], roots[2]))
ProvedEqual == phase = "stopped" /\ Same(roots[1], roots[2])
-----------------------------------------------------------------------------
(* Inserting an expression, node by node.                                  *)

Inserting == phase \in {"load", "instantiate"}
Code == IF phase = "load" THEN sides[Len(roots) + 1] ELSE rules[match[1]].rhs
Inserted == Inserting /\ Len(regs) = Len(Code)
Current == Code[Len(regs) + 1]

\* The class a pattern variable stands for in the match being applied.
Bound(x) ==
  LET lhs == rules[match[1]].lhs
  IN  match[2][CHOOSE i \in DOMAIN lhs : lhs[i].op = x]

Children(e) == [k \in DOMAIN e.args |-> rep[regs[e.args[k]]]]
Congruent(i, op, classes) ==
  nodes[i].op = op /\ [k \in DOMAIN nodes[i].args |-> rep[nodes[i].args[k]]] = classes
Known(op, classes) == {i \in DOMAIN nodes : Congruent(i, op, classes)}

TakeVariable ==
  /\ phase = "instantiate" /\ ~Inserted
  /\ Current.op \in PatVar
  /\ regs' = Append(regs, rep[Bound(Current.op)])
  /\ UNCHANGED <<graphVars, sides, rules, phase, roots, todo, match, iter, changed, limit>>

InsertNode ==
  /\ Inserting /\ ~Inserted
  /\ Current.op \notin PatVar
  /\ LET new == Children(Current)
         old == Known(Current.op, new)
     IN  IF old # {}
         THEN /\ regs' = Append(regs, rep[CHOOSE i \in old : TRUE])
              /\ UNCHANGED graphVars
         ELSE /\ nodes' = Append(nodes, Node(Current.op, new))
              /\ rep' = Append(rep, Len(nodes) + 1)
              /\ meaning' = Append(meaning,
                              Denote(Current.op, [k \in DOMAIN new |-> meaning[new[k]]]))
              /\ regs' = Append(regs, Len(nodes) + 1)
  /\ UNCHANGED <<sides, rules, phase, roots, todo, match, iter, changed, limit>>

Loaded ==
  /\ phase = "load" /\ Inserted
  /\ roots' = Append(roots, Last(regs))
  /\ regs' = <<>>
  /\ phase' = IF Len(roots) = 1 THEN "search" ELSE "load"
  /\ UNCHANGED <<graphVars, sides, rules, todo, match, iter, changed, limit>>
-----------------------------------------------------------------------------
(* An iteration.                                                           *)

Classes == {rep[i] : i \in DOMAIN nodes}

\* Mutant: a variable that occurs twice may stand for two classes.
IsMatchLinear(p, m) ==
  \A i \in DOMAIN p :
    IF p[i].op \in PatVar THEN m[i] \in Classes
    ELSE \E x \in Known(p[i].op, [k \in DOMAIN p[i].args |-> m[p[i].args[k]]]) : rep[x] = m[i]

\* m names the class of every node of the pattern p.
IsMatch(p, m) ==
  /\ \A i \in DOMAIN p :
       IF p[i].op \in PatVar
       THEN /\ m[i] \in Classes
            /\ \A j \in DOMAIN p : p[j].op = p[i].op => m[j] = m[i]
       ELSE \E n \in Known(p[i].op, [k \in DOMAIN p[i].args |-> m[p[i].args[k]]]) : rep[n] = m[i]

\* A choice of a node for each node of the pattern that is not a variable
\* determines the classes of the variables below them.
Fixed(p) == {i \in DOMAIN p : p[i].op \notin PatVar}
Parent(p, i) == CHOOSE j \in Fixed(p) : \E k \in DOMAIN p[j].args : p[j].args[k] = i
Below(p, i) == nodes[i].op \in {p[j].op : j \in Fixed(p)}
Read(p, pick) ==
  [i \in DOMAIN p |->
     IF i \in Fixed(p) THEN rep[pick[i]]
     ELSE LET j == Parent(p, i)
          IN  rep[nodes[pick[j]].args[CHOOSE k \in DOMAIN p[j].args : p[j].args[k] = i]]]
Picks(p) ==
  {f \in [Fixed(p) -> {i \in DOMAIN nodes : Below(p, i)}] :
     \A i \in Fixed(p) : nodes[f[i]].op = p[i].op}
Candidates(p) == IF Fixed(p) = {} THEN {<<c>> : c \in Classes} ELSE {Read(p, f) : f \in Picks(p)}
Matches(p) == {m \in Candidates(p) : IsMatch(p, m)}

Search ==
  /\ phase = "search"
  /\ todo' = UNION {{<<r, m>> : m \in Matches(rules[r].lhs)} : r \in DOMAIN rules}
  /\ iter' = iter + 1
  /\ changed' = FALSE
  /\ match' = NoMatch
  /\ phase' = "apply"
  /\ UNCHANGED <<graphVars, sides, rules, roots, regs, limit>>

NextMatch == CHOOSE t \in todo : \A u \in todo : t[1] <= u[1]
NewRule == NextMatch[1] # match[1]

TakeMatch ==
  /\ phase = "apply" /\ todo # {}
  /\ NewRule => Len(nodes) <= MaxNodes
  /\ match' = NextMatch
  /\ todo' = todo \ {NextMatch}
  /\ regs' = <<>>
  /\ phase' = "instantiate"
  /\ UNCHANGED <<graphVars, sides, rules, roots, iter, changed, limit>>

\* The clock ran out, or there are too many nodes: the other rules are not applied.
CutShort ==
  /\ phase = "apply" /\ todo # {} /\ NewRule
  /\ todo' = {}
  /\ limit' = TRUE
  /\ UNCHANGED <<graphVars, sides, rules, phase, roots, match, regs, iter, changed>>

\* Mutant: only the canonical node of the class moves.
MergeOne(i, j) == rep' = [rep EXCEPT ![rep[j]] = rep[i]]

\* The class of j becomes part of the class of i.
Merge(i, j) == rep' = [n \in DOMAIN rep |-> IF rep[n] = rep[j] THEN rep[i] ELSE rep[n]]

\* Mutant: only the last match counts as a change.
UnionLast ==
  /\ phase = "instantiate" /\ Inserted
  /\ Merge(Last(match[2]), Last(regs))
  /\ changed' = ~Same(Last(match[2]), Last(regs))
  /\ phase' = "apply"
  /\ UNCHANGED <<nodes, meaning, sides, rules, roots, todo, match, regs, iter, limit>>

Union ==
  /\ phase = "instantiate" /\ Inserted
  /\ Merge(Last(match[2]), Last(regs))
  /\ changed' = (changed \/ ~Same(Last(match[2]), Last(regs)))
  /\ phase' = "apply"
  /\ UNCHANGED <<nodes, meaning, sides, rules, roots, todo, match, regs, iter, limit>>

EndApply ==
  /\ phase = "apply" /\ todo = {}
  /\ phase' = "rebuild"
  /\ UNCHANGED <<graphVars, sides, rules, roots, todo, match, regs, iter, changed, limit>>

\* Two nodes with the same children in different classes.
Apart ==
  {p \in (DOMAIN nodes) \X (DOMAIN nodes) :
     /\ ~Same(p[1], p[2])
     /\ nodes[p[1]].op = nodes[p[2]].op
     /\ \A k \in DOMAIN nodes[p[1]].args : Same(nodes[p[1]].args[k], nodes[p[2]].args[k])}

\* Mutant: congruence is found broken and left so.
RebuildNothing == phase = "rebuild" /\ Apart # {} /\ UNCHANGED satVars
Rebuild ==
  /\ phase = "rebuild" /\ Apart # {}
  /\ LET p == CHOOSE q \in Apart : TRUE IN Merge(p[1], p[2])
  /\ UNCHANGED <<nodes, meaning, runVars>>

EndIteration ==
  /\ phase = "rebuild" /\ Apart = {}
  /\ limit' = (limit \/ (changed /\ iter = MaxIter))
  /\ phase' = IF limit' \/ ~changed THEN "stopped" ELSE "search"
  /\ UNCHANGED <<graphVars, sides, rules, roots, todo, match, regs, iter, changed>>

SatStep ==
  \/ TakeVariable \/ InsertNode \/ Loaded
  \/ Search \/ TakeMatch \/ CutShort \/ Union \/ EndApply \/ Rebuild \/ EndIteration

ASSUME BoundAssumption == MaxIter \in Nat \ {0} /\ MaxNodes \in Nat
=============================================================================
