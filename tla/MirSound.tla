------------------------------ MODULE MirSound ------------------------------
(***************************************************************************)
(* A body is verified, then run on some arguments: what the report says of *)
(* it must be true of the run.                                             *)
(***************************************************************************)
EXTENDS History, MirExec

soundVars == <<vars, execVars, historyVars>>

SoundInit == Init /\ Idle /\ NoHistory

Verify == Next /\ Remember /\ UNCHANGED execVars

\* A body can be run whatever its verification answered.
Run == /\ status # "running"
       /\ (\E v \in Inputs(body) : Begin(v)) \/ Step
       /\ UNCHANGED <<vars, historyVars>>

SoundNext == Verify \/ Run
SoundSpec == SoundInit /\ [][SoundNext]_soundVars
\* `verify_body` runs to its end; nobody has to call the function it verified.
LiveSpec == SoundSpec /\ WF_soundVars(Verify)
-----------------------------------------------------------------------------
Safe == outcome \in {"idle", "running", "returned"}

\* Soundness of verification: if verification succeeds, every obligation was
\* discharged by the tactic engine and the walk met no block twice, then no
\* run of the body panics, reads an unassigned local, leaves the body or enters an
\* unsafe block whose obligation is false, whatever the arguments.
NoPanic == Proved /\ StraightLine => Safe

\* At every position a run reaches, each local has the value that the term
\* inlined for it there takes on the arguments of the run (operand_term,
\* rvalue_term and the order of the walk against the order of execution).
Inlining ==
  outcome # "idle" /\ Proved /\ StraightLine =>
    /\ <<at, ip>> \in DOMAIN trace
    /\ store = [l \in DOMAIN trace[<<at, ip>>] |-> trace[<<at, ip>>][l].den[input]]

\* verify_body always returns: a cycle in the body does not hold it up.
Returns == <>(status # "running")

\* What a report is worth when blocks were justified by a proof as well: if
\* everything is discharged, by the solver or the kernel, a run of the body goes
\* wrong only where it enters an unsafe block that was justified by its own
\* assumption, with arguments for which the assumption is false. The report does
\* not tell such a block from another (verify.rs, check_unsafe_proof), although
\* mir.rs calls the assumption "trusted but recorded in the verification report".
AtAssumption ==
  /\ at \in DOMAIN body.blocks /\ AtStep(body.blocks[at], "unsafe")
  /\ LET s == Statements(at)[ip]
     IN  s.proof # None /\ s.assumption # None /\ s.assumption.den[input] # 1
WrongOnlyByAssumption ==
  status = "ok" /\ AllDischarged /\ StraightLine => Safe \/ AtAssumption

\* README of the ingestion crate: a body with a loop is reported as an error,
\* so a body reported as discharged is safe as a whole.
DischargedLoopIsSafe == Proved => Safe
=============================================================================
