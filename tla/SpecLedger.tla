----------------------------- MODULE SpecLedger -----------------------------
(***************************************************************************)
(* What `cargo tpt verify` promises, with no files, hashes or caches in    *)
(* sight: a run claims a specification only if some run really discharged  *)
(* it, and a run passes only if it refused nothing.                        *)
(***************************************************************************)
CONSTANTS Run,    \* the verification runs
          Spec,   \* the specification strings
          Valid   \* those the discharge pipeline is able to discharge

VARIABLES discharged, \* specifications some run has discharged
          claims,     \* claims[r]: specifications run r reports as passing
          refused,    \* refused[r]: run r met something it could not accept
          verdict     \* verdict[r]: the exit status of run r

ledger == <<discharged, claims, refused, verdict>>

LInit ==
  /\ discharged \in SUBSET Valid
  /\ claims = [r \in Run |-> {}]
  /\ refused = [r \in Run |-> FALSE]
  /\ verdict = [r \in Run |-> "none"]

\* A new run in slot r; an interrupted run leaves nothing behind either.
Begin(r) ==
  /\ claims' = [claims EXCEPT ![r] = {}]
  /\ refused' = [refused EXCEPT ![r] = FALSE]
  /\ verdict' = [verdict EXCEPT ![r] = "none"]
  /\ UNCHANGED discharged

Establish(r, s) ==
  /\ verdict[r] = "none" /\ s \in Valid
  /\ discharged' = discharged \cup {s}
  /\ claims' = [claims EXCEPT ![r] = @ \cup {s}]
  /\ UNCHANGED <<refused, verdict>>

Recall(r, s) ==
  /\ verdict[r] = "none" /\ s \in discharged
  /\ claims' = [claims EXCEPT ![r] = @ \cup {s}]
  /\ UNCHANGED <<discharged, refused, verdict>>

Refuse(r) ==
  /\ verdict[r] = "none"
  /\ refused' = [refused EXCEPT ![r] = TRUE]
  /\ UNCHANGED <<discharged, claims, verdict>>

Abort(r) ==
  /\ verdict[r] = "none"
  /\ refused' = [refused EXCEPT ![r] = TRUE]
  /\ verdict' = [verdict EXCEPT ![r] = "failure"]
  /\ UNCHANGED <<discharged, claims>>

Decide(r) ==
  /\ verdict[r] = "none"
  /\ verdict' = [verdict EXCEPT ![r] = IF refused[r] THEN "failure" ELSE "success"]
  /\ UNCHANGED <<discharged, claims, refused>>

LNext ==
  \E r \in Run :
    \/ Begin(r) \/ Refuse(r) \/ Abort(r) \/ Decide(r)
    \/ \E s \in Spec : Establish(r, s) \/ Recall(r, s)

LSpec == LInit /\ [][LNext]_ledger
=============================================================================
