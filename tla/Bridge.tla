------------------------------- MODULE Bridge -------------------------------
(***************************************************************************)
(* From compiled Rust to verified Rust and back: a function is ingested    *)
(* (or a body written by hand), verified and extracted, then the original  *)
(* is called. What was verified must be true of the call, and the source   *)
(* extracted must do what the original does.                               *)
(***************************************************************************)
EXTENDS RustExec, Extract, History

bridgeVars == <<ingestVars, rustVars, extractVars, historyVars>>

BridgeInit == IngestInit /\ RustIdle /\ ExtractIdle /\ NoHistory

Verifying ==
  /\ IngestNext /\ Remember
  /\ UNCHANGED <<rustVars, extractVars>>

Extracting ==
  /\ status \notin {"ingesting", "running", "Untranslatable"}
  /\ ExtractStep
  /\ UNCHANGED <<ingestVars, rustVars, historyVars>>

Answered == status = "Untranslatable" \/ exStatus \in {"ok", "NoReturnPlace"}
Calling ==
  /\ Answered
  /\ (\E v \in Arguments : CallWith(v)) \/ RustStep
  /\ UNCHANGED <<ingestVars, extractVars, historyVars>>

BridgeNext == Verifying \/ Extracting \/ Calling
BridgeSpec == BridgeInit /\ [][BridgeNext]_bridgeVars
\* Ingestion, verification and extraction are loops of the calling thread.
LiveBridge == BridgeSpec /\ WF_bridgeVars(Verifying \/ Extracting)
-----------------------------------------------------------------------------
Discharged == Proved /\ StraightLine

\* What verification is worth on compiled code: a function whose obligations
\* the solver discharged panics, reads a local without a value or goes where
\* the translation put an empty block only in a run in which some value was
\* negative or some operation wrapped (translate_terminator, reachable_blocks,
\* and the caveat of the crate: "signedness, overflow and wraparound are not
\* modeled yet").
AstrayOnlyBeyond ==
  Discharged /\ (astray \/ outcome \in {"panicked", "undefined"}) => beyond

\* The unsafe blocks around a statement.
Around(b, i) ==
  {j \in 1..(i - 1) : Statements(b)[j].kind = "unsafe" /\ i <= j + Statements(b)[j].inside}
Assignments(b) == {i \in DOMAIN Statements(b) : Statements(b)[i].kind = "assign"}
ReadsAt(b, i) ==
  IF i \in DOMAIN Statements(b)
  THEN Reads(Statements(b)[i].rvalue.a) \cup Reads(Statements(b)[i].rvalue.b)
  ELSE IF Terminator(b).kind = "assert" THEN Reads(Terminator(b).condition) ELSE {}
ReadOutside(l, b, j) ==
  \/ l = 0
  \/ \E c \in exVisited : \E i \in Assignments(c) \cup {Len(Statements(c)) + 1} :
        l \in ReadsAt(c, i) /\ ~(c = b /\ j \in Around(b, i))
\* What an unsafe block assigns is read nowhere else: its `let` ends with it.
Contained ==
  \A b \in exVisited : \A i \in Assignments(b) : \A j \in Around(b, i) :
    ~ReadOutside(Statements(b)[i].place, b, j)

Named ==
  {0} \cup {body.args[k] : k \in DOMAIN body.args}
    \cup UNION {{Statements(b)[i].place : i \in Assignments(b)} : b \in exVisited}
NamesDistinct == \A k, l \in Named : SourceName(k) = SourceName(l) => k = l
\* Each argument is declared, and none is given twice.
ArgsDeclared ==
  /\ \A k \in DOMAIN body.args : Declared(body.args[k])
  /\ \A j, k \in DOMAIN body.args : body.args[j] = body.args[k] => j = k

NamesLegal == \A l \in Named : SourceName(l) \notin Illegal

\* The locals have the types rustc would ask for: verification takes all
\* integer types for one.
TypesFit ==
  /\ \A l \in Named : RustType(body, l) \in KnownType
  /\ \A b \in exVisited :
       /\ \A i \in Assignments(b) :
            RvalueTyped(body, Statements(b)[i].rvalue, RustType(body, Statements(b)[i].place))
       /\ Terminator(b).kind = "assert" => OperandTyped(body, Terminator(b).condition, "bool")
\* Numbers alone are assigned to the return place only, and nothing else is:
\* rustc makes an i32 of any others, where the source is read here with the
\* type of the local.
NumbersTyped ==
  \A b \in exVisited : \A i \in Assignments(b) :
    LET s == Statements(b)[i]
    IN  s.rvalue.a.kind = "nat" /\ s.rvalue.b.kind = "nat" =>
          /\ s.place = 0 /\ s.rvalue.op # "le"
          /\ \A c \in exVisited : \A j \in Assignments(c) :
               Statements(c)[j].place = 0 => c = b /\ j = i

Printed == RunSource(params, returns, source, input)

\* A body that verifies, called with arguments for which no value leaves the
\* naturals, is extracted as a function that compiles, and that returns what
\* the original does (body_to_rust_source against the order of execution,
\* shadowing, scopes, types and the checks it emits). The body may be written
\* by hand: then nothing in verification or extraction sees to it that its
\* unsafe blocks keep what they assign to themselves, that its names stay
\* distinct and legal when they are sanitized, that the arguments are
\* declared, and that its types fit each other, and all of it is wanted here.
ExtractedAgrees ==
  /\ exStatus = "ok" /\ status = "ok" /\ ~looped
  /\ 0 \in DOMAIN values /\ Contained /\ NamesDistinct /\ NamesLegal /\ ArgsDeclared
  /\ TypesFit /\ NumbersTyped
  /\ outcome \in {"returned", "panicked"} /\ ~beyond /\ ~astray
  => /\ outcome = "returned"
     /\ Printed.verdict = "returned" /\ Printed.result.value = store[0]

\* "Verified code compiles to standard ... Rust" (spec.txt): what is extracted
\* of a body that verifies is not refused by rustc. It does not hold of bodies
\* written by hand: of one that returns a usize as a u64, of one with a local
\* named after a keyword, of one that assigns what it returns in an unsafe
\* block.
PrintedCompiles ==
  exStatus = "ok" /\ status = "ok" /\ outcome = "returned" /\ ~beyond =>
    Printed.verdict # "rejected"

\* Type invariant: in a function rustc accepted, every local holds a value of
\* its type whatever was run; the walks mark what they visit.
BridgeTypeOK ==
  /\ status \in {"ingesting", "running", "ok", "Untranslatable"} \cup Errors
  /\ exStatus \in {"idle", "running", "ok", "NoReturnPlace"}
  /\ Len(exStack) <= 1
  /\ exVisited \ DOMAIN body.blocks # {} => exStatus = "NoReturnPlace"
  /\ outcome \in {"idle", "running", "returned", "panicked", "undefined"}
  /\ function # None => \A l \in DOMAIN store : store[l] \in Values(TypeOf(l))

\* A function is answered for: ingestion, verification and extraction end,
\* on bodies with cycles too.
EveryFunctionAnswered == <>Answered
=============================================================================
