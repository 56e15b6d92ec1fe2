------------------------------- MODULE History -------------------------------
(***************************************************************************)
(* Two history variables that remember a walk of `verify_body`.            *)
(***************************************************************************)
EXTENDS VerifyBody

VARIABLES trace,   \* values held at each position of the walk
          looped   \* the walk met a block for the second time

historyVars == <<trace, looped>>

\* The position the walk has reached, with the values held there.
Recorded ==
  IF block' # None
  THEN [p \in DOMAIN trace \cup {<<block', pc'>>} |->
          IF p = <<block', pc'>> THEN values' ELSE trace[p]]
  ELSE trace

NoHistory == trace = <<>> /\ looped = FALSE
Remember == trace' = Recorded /\ looped' = (looped \/ Revisit)

\* What the solver alone established, on a body without a cycle.
Proved == status = "ok" /\ \A i \in DOMAIN report : report[i].by = "auto"
StraightLine == ~looped
=============================================================================
