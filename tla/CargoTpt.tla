------------------------------ MODULE CargoTpt ------------------------------
(***************************************************************************)
(* `cargo tpt check` and `cargo tpt verify`: several invocations over one  *)
(* workspace, sharing target/tpt/cache.json without a lock, while sources  *)
(* are edited, `cargo clean` runs and invocations are killed.              *)
(***************************************************************************)
EXTENDS Naturals, Sequences, FiniteSets

CONSTANTS
  Proc,        \* invocations of the tool (slots; a slot may run again)
  File,        \* paths, ordered as `collect_rs_files` sorts them
  Spec,        \* nonempty specification strings
  NoSpec,      \* the empty string: a bare #[tpt::verify] or a non-literal argument
  Key,         \* cache keys
  HashSpec,    \* HashSpec[s]: hex SHA-256 of the specification string
  Build,       \* builds of the tool (rule set, `smt` feature)
  Discharges,  \* Discharges[b]: specifications build b is able to discharge
  Timed,       \* those whose e-graph search may hit its time limit instead
  WellFormed,  \* specifications that parse and elaborate (`cargo tpt check`)
  Contents,    \* the states a source file may be in
  Faults,      \* which of "kill", "clean", "disk" may happen
  MaxRuns,     \* bound on the invocations started
  MaxEdits     \* bound on the edits to sources

Valid == UNION {Discharges[b] : b \in Build}
Attr == Spec \cup {NoSpec}
Content == [state : {"ok", "absent", "unreadable", "not_rust"}, specs : Seq(Attr)]

ASSUME PathsAssumption == File \subseteq Nat /\ MaxRuns \in Nat /\ MaxEdits \in Nat
\* A digest has a fixed width; two specifications never collide.
ASSUME HashAssumption ==
  /\ IsFiniteSet(Key)
  /\ HashSpec \in [Spec -> Key]
  /\ \A s, t \in Spec : HashSpec[s] = HashSpec[t] => s = t
ASSUME SolverAssumption ==
  /\ NoSpec \notin Spec
  /\ Discharges \in [Build -> SUBSET Spec]
  /\ WellFormed \subseteq Spec
  /\ Valid \subseteq WellFormed
ASSUME ContentAssumption == Contents \subseteq Content

VARIABLES
  src,      \* src[f]: what a path holds
  disk,     \* target/tpt/cache.json
  pc, cmd, noCache, build,   \* per invocation: control point, subcommand, flag, binary
  todo, attrs,               \* files left in `files`, attributes left in `attrs`
  cache, dirty, linked,      \* Cache.ok, Cache.dirty, is the opened file still in place
  failed, results, exit,     \* the report and the exit code
  runs, edits,               \* bounds
  discharged, remembered, stable  \* history: discharges made, keys saved, sources untouched

world == <<src, edits>>
args == <<cmd, noCache, build>>
scan == <<todo, attrs>>
memo == <<cache, dirty, linked>>
report == <<failed, results>>
history == <<discharged, remembered, stable>>
vars == <<world, disk, pc, args, scan, memo, report, exit, runs, history>>

CACHE_VERSION == 1
\* A file is its length (in keys), whether it is valid JSON, and what it says.
NoFile == [len |-> 0, json |-> FALSE, version |-> CACHE_VERSION, ok |-> {}]
CacheFile(v, keys) == [len |-> Cardinality(keys), json |-> TRUE, version |-> v, ok |-> keys]
\* fs::write leaves the old tail in place when it overwrites a longer text
\* another invocation wrote after the truncation: trailing garbage, no JSON.
Overlay(old, new) == IF old.len > new.len THEN [old EXCEPT !.json = FALSE] ELSE new

Result == [spec : Spec, status : {"ok", "cached", "FAIL"}]
caching(p) == cmd[p] = "verify" /\ ~noCache[p]
Accepts(p) == IF cmd[p] = "verify" THEN Discharges[build[p]] ELSE WellFormed
MayReject(p, s) == s \notin Accepts(p) \/ (cmd[p] = "verify" /\ s \in Timed)

\* Any cache a past release may have left: none, or one of another version.
Init ==
  /\ src \in [File -> Contents]
  /\ disk \in {NoFile, CacheFile(CACHE_VERSION + 1, Key)}
  /\ pc = [p \in Proc |-> "idle"] /\ exit = [p \in Proc |-> "none"]
  /\ cmd = [p \in Proc |-> "check"] /\ noCache = [p \in Proc |-> FALSE]
  /\ build \in [Proc -> Build]
  /\ todo = [p \in Proc |-> {}] /\ attrs = [p \in Proc |-> <<>>]
  /\ cache = [p \in Proc |-> {}] /\ dirty = [p \in Proc |-> FALSE]
  /\ linked = [p \in Proc |-> FALSE]
  /\ failed = [p \in Proc |-> 0] /\ results = [p \in Proc |-> <<>>]
  /\ runs = 0 /\ edits = 0
  /\ discharged = {} /\ remembered = {} /\ stable = [p \in Proc |-> FALSE]

\* main: parse the command line and enter `run` with fresh locals.
Enter(p, c, nc, b, start) ==
  /\ pc' = [pc EXCEPT ![p] = start]
  /\ cmd' = [cmd EXCEPT ![p] = c] /\ noCache' = [noCache EXCEPT ![p] = nc]
  /\ build' = [build EXCEPT ![p] = b]
  /\ todo' = [todo EXCEPT ![p] = {}] /\ attrs' = [attrs EXCEPT ![p] = <<>>]
  /\ cache' = [cache EXCEPT ![p] = {}] /\ dirty' = [dirty EXCEPT ![p] = FALSE]
  /\ linked' = [linked EXCEPT ![p] = FALSE]
  /\ failed' = [failed EXCEPT ![p] = 0] /\ results' = [results EXCEPT ![p] = <<>>]
  /\ exit' = [exit EXCEPT ![p] = "none"]

Start(p) ==
  /\ pc[p] \in {"idle", "exited"} /\ runs < MaxRuns
  /\ \E c \in {"check", "verify"}, nc \in BOOLEAN, b \in Build :
       Enter(p, c, nc, b, "collect")
  /\ runs' = runs + 1
  /\ stable' = [stable EXCEPT ![p] = TRUE]
  /\ UNCHANGED <<world, disk, discharged, remembered>>

Present == {f \in File : src[f].state # "absent"}

Collect(p) ==
  /\ pc[p] = "collect"
  /\ todo' = [todo EXCEPT ![p] = Present]
  /\ pc' = [pc EXCEPT ![p] = "load"]
  /\ UNCHANGED <<world, disk, args, attrs, memo, report, exit, runs, history>>

\* Mutant: the early return forgets the exit code.
CollectFailsMute(p) ==
  /\ pc[p] = "collect"
  /\ pc' = [pc EXCEPT ![p] = "exited"]
  /\ UNCHANGED <<world, disk, args, scan, memo, report, exit, runs, history>>

\* A directory that cannot be listed ends the run before anything is scanned.
CollectFails(p) ==
  /\ "disk" \in Faults
  /\ pc[p] = "collect"
  /\ pc' = [pc EXCEPT ![p] = "exited"]
  /\ exit' = [exit EXCEPT ![p] = "failure"]
  /\ UNCHANGED <<world, disk, args, scan, memo, report, runs, history>>

\* Mutant: the version filter is gone.
LoadedAnyVersion == IF disk.json THEN disk.ok ELSE {}

\* Cache::load: whatever is not valid JSON of this version counts as empty.
Loaded == IF disk.json /\ disk.version = CACHE_VERSION THEN disk.ok ELSE {}

\* Mutant: every run starts from an empty cache.
LoadNothing(p) ==
  /\ pc[p] = "load"
  /\ pc' = [pc EXCEPT ![p] = "scan"]
  /\ UNCHANGED <<world, disk, args, scan, memo, report, exit, runs, history>>

LoadCache(p) ==
  /\ pc[p] = "load"
  /\ cache' = [cache EXCEPT ![p] = IF caching(p) THEN Loaded ELSE {}]
  /\ pc' = [pc EXCEPT ![p] = "scan"]
  /\ UNCHANGED <<world, disk, args, scan, dirty, linked, report, exit, runs, history>>

\* Mutants: a bad file is skipped without counting it, or tried again for ever.
ReadFileLenient(p) ==
  /\ pc[p] = "scan" /\ attrs[p] = <<>>
  /\ \E f \in todo[p] :
       /\ \A g \in todo[p] : f <= g
       /\ todo' = [todo EXCEPT ![p] = @ \ {f}]
       /\ attrs' = [attrs EXCEPT ![p] = IF src[f].state = "ok" THEN src[f].specs ELSE <<>>]
  /\ UNCHANGED <<world, disk, pc, args, memo, report, exit, runs, history>>
ReadFileRetry(p) ==
  /\ pc[p] = "scan" /\ attrs[p] = <<>>
  /\ \E f \in todo[p] :
       /\ \A g \in todo[p] : f <= g
       /\ src[f].state = "ok"
       /\ todo' = [todo EXCEPT ![p] = @ \ {f}]
       /\ attrs' = [attrs EXCEPT ![p] = src[f].specs]
  /\ UNCHANGED <<world, disk, pc, args, memo, report, exit, runs, history>>

\* The next file in path order; one that cannot be read or parsed is a failure,
\* and the loop goes on.
ReadFile(p) ==
  /\ pc[p] = "scan" /\ attrs[p] = <<>>
  /\ \E f \in todo[p] :
       /\ \A g \in todo[p] : f <= g
       /\ todo' = [todo EXCEPT ![p] = @ \ {f}]
       /\ IF src[f].state = "ok"
          THEN attrs' = [attrs EXCEPT ![p] = src[f].specs] /\ UNCHANGED failed
          ELSE failed' = [failed EXCEPT ![p] = @ + 1] /\ UNCHANGED attrs
  /\ UNCHANGED <<world, disk, pc, args, memo, results, exit, runs, history>>

AtAttr(p, s) == pc[p] = "scan" /\ attrs[p] # <<>> /\ s = Head(attrs[p])
NextAttr(p) == attrs' = [attrs EXCEPT ![p] = Tail(@)]
Report(p, s, status) ==
  results' = [results EXCEPT ![p] = Append(@, [spec |-> s, status |-> status])]

\* Mutant: the empty string goes through the pipeline, where it does not parse.
FailEmpty(p) ==
  /\ AtAttr(p, NoSpec) /\ NextAttr(p)
  /\ failed' = [failed EXCEPT ![p] = @ + 1]
  /\ UNCHANGED <<world, disk, pc, args, todo, memo, results, exit, runs, history>>

SkipEmpty(p) ==
  /\ AtAttr(p, NoSpec) /\ NextAttr(p)
  /\ UNCHANGED <<world, disk, pc, args, todo, memo, report, exit, runs, history>>

ReportCached(p, s) ==
  /\ AtAttr(p, s) /\ caching(p) /\ HashSpec[s] \in cache[p]
  /\ NextAttr(p) /\ Report(p, s, "cached")
  /\ UNCHANGED <<world, disk, pc, args, todo, memo, failed, exit, runs, history>>

Miss(p, s) == ~(caching(p) /\ HashSpec[s] \in cache[p])

\* Mutant: the cache is marked dirty, and the key never inserted.
RecordNothing(p, s) ==
  /\ dirty' = [dirty EXCEPT ![p] = @ \/ caching(p)]
  /\ UNCHANGED cache

\* Cache::record_ok
RecordOk(p, s) ==
  IF caching(p)
  THEN /\ cache' = [cache EXCEPT ![p] = @ \cup {HashSpec[s]}]
       /\ dirty' = [dirty EXCEPT ![p] = @ \/ HashSpec[s] \notin cache[p]]
  ELSE UNCHANGED <<cache, dirty>>

ReportOk(p, s) ==
  /\ AtAttr(p, s) /\ Miss(p, s) /\ s \in Accepts(p)
  /\ NextAttr(p) /\ Report(p, s, "ok") /\ RecordOk(p, s)
  /\ discharged' = IF cmd[p] = "verify" THEN discharged \cup {s} ELSE discharged
  /\ UNCHANGED <<world, disk, pc, args, todo, linked, failed, exit, runs, remembered, stable>>

\* Mutant: every outcome is remembered, not only successes.
ReportFailAndCache(p, s) ==
  /\ AtAttr(p, s) /\ Miss(p, s) /\ MayReject(p, s)
  /\ NextAttr(p) /\ Report(p, s, "FAIL") /\ RecordOk(p, s)
  /\ failed' = [failed EXCEPT ![p] = @ + 1]
  /\ UNCHANGED <<world, disk, pc, args, todo, linked, exit, runs, history>>

ReportFail(p, s) ==
  /\ AtAttr(p, s) /\ Miss(p, s) /\ MayReject(p, s)
  /\ NextAttr(p) /\ Report(p, s, "FAIL")
  /\ failed' = [failed EXCEPT ![p] = @ + 1]
  /\ UNCHANGED <<world, disk, pc, args, todo, memo, exit, runs, history>>

\* The loops are over. Cache::save does nothing unless something was recorded.
EndScan(p) ==
  /\ pc[p] = "scan" /\ attrs[p] = <<>> /\ todo[p] = {}
  /\ pc' = [pc EXCEPT ![p] = IF dirty[p] THEN "save" ELSE "report"]
  /\ UNCHANGED <<world, disk, args, scan, memo, report, exit, runs, history>>

\* fs::write opens with truncation and only then writes: two steps on disk.
SaveOpen(p) ==
  /\ pc[p] = "save"
  /\ disk' = NoFile
  /\ linked' = [linked EXCEPT ![p] = TRUE]
  /\ pc' = [pc EXCEPT ![p] = "write"]
  /\ UNCHANGED <<world, args, scan, cache, dirty, report, exit, runs, history>>

SaveWrite(p) ==
  /\ pc[p] = "write"
  /\ IF linked[p]
     THEN /\ disk' = Overlay(disk, CacheFile(CACHE_VERSION, cache[p]))
          /\ remembered' = remembered \cup cache[p]
     ELSE UNCHANGED <<disk, remembered>>
  /\ pc' = [pc EXCEPT ![p] = "report"]
  /\ UNCHANGED <<world, args, scan, memo, report, exit, runs, discharged, stable>>

\* Either call may fail; `save` ignores both errors.
SaveFails(p) ==
  /\ "disk" \in Faults
  /\ pc[p] \in {"save", "write"}
  /\ pc' = [pc EXCEPT ![p] = "report"]
  /\ UNCHANGED <<world, disk, args, scan, memo, report, exit, runs, history>>

ExitStatus(p) == IF failed[p] = 0 THEN "success" ELSE "failure"

Exit(p) ==
  /\ pc[p] = "report"
  /\ exit' = [exit EXCEPT ![p] = ExitStatus(p)]
  /\ pc' = [pc EXCEPT ![p] = "exited"]
  /\ UNCHANGED <<world, disk, args, scan, memo, report, runs, history>>

\* The environment: ^C or a crash, an editor, `cargo clean`.
Kill(p) ==
  /\ "kill" \in Faults /\ pc[p] \notin {"idle", "exited"}
  /\ Enter(p, cmd[p], noCache[p], build[p], "idle")
  /\ UNCHANGED <<world, disk, runs, history>>

Edit(f) ==
  /\ edits < MaxEdits
  /\ \E c \in Contents : c # src[f] /\ src' = [src EXCEPT ![f] = c]
  /\ edits' = edits + 1
  /\ stable' = [p \in Proc |-> FALSE]
  /\ UNCHANGED <<disk, pc, args, scan, memo, report, exit, runs, discharged, remembered>>

\* The cache file goes; an invocation that has it open writes to a dead file.
Clean ==
  /\ "clean" \in Faults
  /\ disk' = NoFile /\ remembered' = {}
  /\ linked' = [p \in Proc |-> FALSE]
  /\ UNCHANGED <<world, pc, args, scan, cache, dirty, report, exit, runs, discharged, stable>>

Step(p) ==
  \/ Collect(p) \/ CollectFails(p) \/ LoadCache(p) \/ ReadFile(p) \/ SkipEmpty(p)
  \/ \E s \in Spec : ReportCached(p, s) \/ ReportOk(p, s) \/ ReportFail(p, s)
  \/ EndScan(p) \/ SaveOpen(p) \/ SaveWrite(p) \/ SaveFails(p) \/ Exit(p)

Next ==
  \/ \E p \in Proc : Start(p) \/ Step(p) \/ Kill(p)
  \/ \E f \in File : Edit(f)
  \/ Clean

Safety == Init /\ [][Next]_vars
\* An invocation that is not killed keeps being scheduled.
Live == Safety /\ \A p \in Proc : WF_vars(Step(p))
-----------------------------------------------------------------------------
(* Properties *)

Disk == [len : Nat, json : BOOLEAN, version : Nat, ok : SUBSET Key]

\* Types of the whole state; also ties the control point to the exit status.
TypeOK ==
  /\ src \in [File -> Content] /\ edits \in Nat /\ runs \in Nat
  /\ disk \in Disk
  /\ pc \in [Proc -> {"idle", "collect", "load", "scan", "save", "write", "report", "exited"}]
  /\ cmd \in [Proc -> {"check", "verify"}] /\ noCache \in [Proc -> BOOLEAN]
  /\ build \in [Proc -> Build]
  /\ todo \in [Proc -> SUBSET File] /\ attrs \in [Proc -> Seq(Attr)]
  /\ cache \in [Proc -> SUBSET Key] /\ dirty \in [Proc -> BOOLEAN]
  /\ linked \in [Proc -> BOOLEAN]
  /\ failed \in [Proc -> Nat] /\ results \in [Proc -> Seq(Result)]
  /\ exit \in [Proc -> {"none", "success", "failure"}]
  /\ discharged \in SUBSET Spec /\ remembered \in SUBSET Key
  /\ stable \in [Proc -> BOOLEAN]
  /\ \A p \in Proc : exit[p] # "none" <=> pc[p] = "exited"

SpecsOf(f) == {src[f].specs[i] : i \in DOMAIN src[f].specs}
HashesOf(S) == {HashSpec[s] : s \in S}

\* A key in memory, or in a file the next run would believe, is the hash of a
\* specification some verification really discharged: failures are never
\* cached, and neither a foreign version nor a torn file is believed.
CacheSound ==
  /\ Loaded \subseteq HashesOf(discharged)
  /\ \A p \in Proc : cache[p] \subseteq HashesOf(discharged)

\* The CI gate: a zero exit status over sources nobody touched meanwhile means
\* that every file was readable Rust and every specification in it would be
\* accepted (for `verify`: by one of the builds in use).
AcceptedBy(c) == IF c = "verify" THEN Valid ELSE WellFormed
GateSound ==
  \A p \in Proc : exit[p] = "success" /\ stable[p] =>
    \A f \in Present :
      src[f].state = "ok" /\ SpecsOf(f) \ {NoSpec} \subseteq AcceptedBy(cmd[p])

\* The other direction: a failure counted over untouched sources has a cause in
\* them. A cache shared with other invocations never makes a run fail.
FailureJustified ==
  \A p \in Proc : failed[p] > 0 /\ stable[p] =>
    \E f \in Present :
      \/ src[f].state # "ok"
      \/ \E s \in SpecsOf(f) \ {NoSpec} : MayReject(p, s)

\* Within one caching run a specification that passed is not tried again: every
\* later occurrence is answered from the cache, so a run cannot contradict
\* itself about it, even where the search is subject to a time limit.
VerdictsAgree ==
  \A p \in Proc : caching(p) =>
    \A j \in DOMAIN results[p], i \in DOMAIN results[p] :
      (i < j /\ results[p][i].spec = results[p][j].spec /\ results[p][i].status # "FAIL")
        => results[p][j].status = "cached"

\* README: `verify` remembers the specifications it discharged. What a completed
\* save recorded is loaded by the next run, until `cargo clean`.
Remembered == (\A p \in Proc : pc[p] # "write") => remembered \subseteq Loaded

\* Every invocation that is not killed reaches its exit status.
RunTerminates == \A p \in Proc : pc[p] = "collect" ~> pc[p] = "exited"

\* The specifications a verification run reports as passing.
Claims(p) ==
  IF cmd[p] = "verify"
  THEN {results[p][i].spec : i \in {j \in DOMAIN results[p] : results[p][j].status # "FAIL"}}
  ELSE {}

Ledger == INSTANCE SpecLedger WITH
  Run <- Proc,
  claims <- [p \in Proc |-> Claims(p)],
  refused <- [p \in Proc |-> failed[p] > 0 \/ exit[p] = "failure"],
  verdict <- exit

\* The tool implements the ledger: it claims only what was discharged.
LedgerSpec == Ledger!LSpec
=============================================================================
