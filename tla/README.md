# A TLA+ model of tpt-rustir

`tpt-rustir` is a verification toolchain for Rust: a small dependently typed kernel,
an e-graph based tactic engine with an optional SMT backend, a bridge from a subset of
MIR to kernel terms, and a `cargo tpt` command that checks the specifications written
in the attributes of a workspace. This directory holds TLA+ modules that model it, TLC
configurations that check them on small instances, and TLAPS proofs of the results that
should hold for every instance. Paths below are relative to `src/`.

## 1. The system

| Component | Code | State | Operations |
|---|---|---|---|
| CLI driver, scanner, cache | `tpt-rustir-cli/src/{main,cache,scan}.rs` | locals of `run` (files left, results, failure count), `Cache { ok, dirty }`, `target/tpt/cache.json` | `check`, `verify [--no-cache]`, `Cache::load / contains / record_ok / save` |
| Specification pipeline | `tpt-rustir-solver/src/specs.rs` | none | `check_spec_string`, `verify_spec_string` |
| Kernel | `tpt-rustir-core/src/{term,reduce,check,env}.rs` | environment of definitions and inductive types; context | `shift`, `subst`, `whnf`, `normalize`, `conv`, `infer`, `check` |
| Arithmetic library | `tpt-rustir-mir/src/stdlib.rs` | six definitions and the integer aliases | `stdlib()` |
| MIR-lite and `verify_body` | `tpt-rustir-mir/src/{mir,verify}.rs` | stack, visited set, inlined values, report | one walk over the reachable blocks |
| Type mapping, borrow states | `tpt-rustir-mir/src/lib.rs` | none | `RustType::to_core_term` |
| E-graph simplifier and rules | `tpt-rustir-solver/src/{lang,simplify}.rs` | an e-graph, 30 iterations, 10 000 nodes, 5 s | `simplify_with` |
| Tactic engine | `tpt-rustir-solver/src/tactic.rs` | none | `run`, `run_induction`, `run_smt` |
| SMT backend | `tpt-rustir-solver/src/smt.rs` | a cache of Z3 terms per goal | `type_tree`, `build`, `smt_prove_parsed` |
| Kernel-to-solver translation | `tpt-rustir-solver/src/from_core.rs` | none | `term_to_expr` |
| Procedural macros | `tpt-rustir-macros/src/lib.rs` | none | the attributes, at build time |
| MIR ingestion | `tpt-rustir-mir-ingest/src/lib.rs` | none | `translate_body` and its helpers |
| Extraction | `tpt-rustir-mir/src/extract.rs` | names in scope | `body_to_rust_source` |
| Surface syntax, REPL | `tpt-rustir-syntax/src/` | the environment of a session | parse, `lower`, print |

How they interact. `cargo tpt` collects the `.rs` files, reads each, and hands every
specification string found in an attribute to the specification pipeline, which parses
it and calls the tactic engine (rewriting, then SMT as a fallback). Several invocations
(an editor, a terminal, CI) share only the sources and the cache file, with no lock.
`verify_body` takes a body, built by hand or by the ingestion crate, turns every local
into a kernel term over the arguments, asks the kernel for its type, and submits each
assertion and unsafe obligation to the tactic engine through `term_to_expr`, or to the
kernel when the unsafe block carries a proof. The library's definitions are looked up
by the kernel whenever it unfolds a constant. The macros run the specification pipeline
at build time. There are no threads inside a run: the concurrency is between
invocations and with whoever edits or removes files.

What makes each component correct:

- **CLI**: a zero exit status means the workspace was really acceptable; the cache never
  claims a discharge that did not happen, whatever crashed or overlapped; a failure has
  a cause in the sources; work that was saved is not forgotten; a run ends.
- **Kernel**: reduction preserves types; conversion does not depend on the order of
  reduction; `check` and `infer` agree; closed terms evaluate to values; de Bruijn
  arithmetic never loses a binder.
- **Library**: the definitions have the types they are declared with, and compute.
- **verify_body**: the inlined terms denote what an execution computes; a body reported
  as proved cannot panic; the report accounts for every obligation; the walk ends.
- **E-graph and tactics**: the nodes of one class mean the same under every assignment,
  whatever rules fired and wherever a limit fell; a discharged goal is valid; a closed
  goal is decided; `run` returns.
- **SMT backend**: a goal it discharges is valid.
- **Ingestion**: what was proved of the translation holds of the calls of the function
  `rustc` compiled.
- **Extraction**: the source written for a body compiles and does what the body does; the
  types, values and signatures written for kernel terms fit one another.
- **Translation to the solver**: the solver is asked what the kernel term says.
- **Printer and lowering**: what is printed reads back as the same term.

What is hard to test is listed at its line in `PROJECT.json` ("hazards").

## 2. Modules and their code

### The command line: `SpecLedger`, `CargoTpt`

`SpecLedger` is the promise of `cargo tpt verify` with no file, hash or cache in sight: a
run claims a specification only if some run discharged it, and passes only if it
refused nothing.

`CargoTpt` is the program. An element of `Proc` is an invocation and runs `run`
(`main.rs:76-196`) one step at a time. `pc` is where it is:

| `pc` | Action | Code |
|---|---|---|
| `idle`, `exited` | `Start` | `main`: parsing the command line, entering `run` |
| `collect` | `Collect`, `CollectFails` | `collect_rs_files`, and the early return when it fails |
| `load` | `LoadCache` | `Cache::load`: not JSON, or another version, is the empty cache |
| `scan` | `ReadFile` | next file in path order; unreadable or not Rust counts as a failure and the loop goes on |
| `scan` | `SkipEmpty`, `ReportCached`, `ReportOk`, `ReportFail` | one attribute, with `Cache::contains` and `record_ok` |
| `scan` | `EndScan` | end of the loops; `save` returns at once unless the cache is dirty |
| `save`, `write` | `SaveOpen`, `SaveWrite`, `SaveFails` | `fs::write` is a truncation followed by a write; errors are ignored |
| `report` | `Exit` | the exit status |

`Kill`, `Edit` and `Clean` are the environment: an interrupted invocation, an editor,
`cargo clean`. Data: a file is the sequence of specification strings the scanner finds
in it (the empty string is a bare attribute or a non-literal argument); a cache file
is its length, whether it is JSON, its version and its keys. The length is what
decides what `fs::write` leaves behind when two invocations write over each other: a
longer text written after the truncation survives as a tail, and the result is no JSON
(`Overlay`). A file removed while it is open takes the write with it (`linked`). The
discharge pipeline is a set of specifications per build of the tool (`Discharges`):
builds differ in rules and in the `smt` feature, while the key is the hash of the text
alone. `Timed` specifications may be rejected on any attempt, since the e-graph search
has a time limit. Three history variables say what was really discharged, which keys
completed saves recorded, and whether the sources were touched during an invocation.

### The kernel: `Terms`, `Reduce`, `Convert`, `Reduction`, `Check`, `Stdlib`, `Library`, `Kernel`

`Terms` has the constructors, the binders each of their positions is under, `shift` and
`subst` (`term.rs`); `Reduce` has `whnf_step`, and `Convert` the loops over it, `whnf`,
`normalize` and `conv` (`reduce.rs`); `Check` has `infer` and `check` (`check.rs`), with an
error for every way they fail; `Stdlib` the library as terms. A term is a record of
constructor, number, names and children; interning is structural equality. `Reduction` makes a
state machine of it: a submitted term is reduced at any of its subterms, one `whnf_step` at
a time, so every order of reduction is explored. `Kernel` adds what `whnf`, `conv`, `infer`
and `check` have to do with that machine.

`shift`, `subst`, `whnf_step` and the rest of `Terms`, `Reduce`, `Reduction` and `Stdlib` are
recursive functions on a set of terms, the constant `Term`. `IsTermSet(Term)` says that it is
the set of all terms: every node whose fields have the shape of its constructor and whose
children are terms, each built in finitely many steps. TLC only asks whether a value is a
term, and the instance answers yes (`MCTerm`). `Convert`, `Check`, `Erase`, `FromCore` and
`Surface` have recursive operators, since nothing bounds their depth by the size of a term.

`Library` is the promise of the library with no reduction in sight: `Says[u]` is the number or the
truth value a term over the library and the numerals stands for, by arithmetic on the
naturals, or nothing; `Answers` is that a reduction that ended has computed it.

Five things are modelled as the code has them though they look odd: `check` ignores the
annotation of a pair; `check` accepts an inductive type only against itself; a binder's
annotation in a `Let` or a `Pair` is not checked; a `Pi` or a `Sigma` is in the universe
of its codomain; and the case of an inductive elimination has one binder for `shift` and
`subst`, one per argument for `check`, and none for `whnf_step`.

### Verification of bodies: `Mir`, `VerifyBody`, `History`, `MirExec`, `MirSound`

`Mir` has the bodies (`mir.rs`). `VerifyBody` is `verify_body` (`verify.rs`): `stack`,
`visited` and `values` are its locals, `report` the outcomes, `status` the result or the
error, and one action stands for each statement, terminator and exit. `MirExec` is what
a body does when it runs. Its meaning is not in the code, which has no interpreter: it
is the one the definitions in `mir.rs` give, and it takes any false unsafe obligation
for undefined behaviour. `MirSound` lets a body be verified and then run on some
arguments, and compares the two. `History` adds two history variables to the walk, `trace` (the
values held at each position) and `looped` (a block was met again); `Bridge` has them too.

A kernel term over the arguments is represented there by its type, its value under each
argument tuple, and whether `term_to_expr` can translate it. The tactic engine is
assumed sound and nothing else: it may discharge a valid obligation, and may give up on
any. The obligation of an unsafe block is a term the caller supplies, so it may have any
type and any value. Consequences of the code worth knowing:

- A kernel proof without an assumption must both have the obligation as its type and
  compute to `true` (`verify.rs:225-233`). No term does, so such a proof is always
  refused; the only proof ever accepted is the assumption itself.
- A hypothesis proves an obligation when the two are convertible. The model compares
  their abstractions, so it accepts a few more; the runs that use it only claim
  something of reports the solver alone is responsible for.
- The condition of an assertion is built of numerals, truth values, arguments, `add`,
  `mul` and `le`. All of them can be translated, so an assertion is never left
  unchecked, only an unsafe obligation is. `TypeOK` carries this (`arith`), and it is
  proved.
- Integers do not wrap: every integer type unfolds to `Nat`, as the repository says.
  What that is worth for compiled code is the subject of `Bridge`.

### The solver: `Lang`, `Saturation`, `Smt`, `Tactic`

`Lang` has the expressions of `lang.rs`, as `egg::RecExpr` keeps them: a sequence of nodes
whose children come before them. It also has what an expression means (a value for each
assignment in `Env`, and a sort), and the rules of `definitional_rules` and
`algebraic_rules`, one by one.

`Saturation` is `prove_equal` (`simplify.rs:33-40`) with the `egg` runner under it, which is
external and modelled from how it is used. `phase` is where the runner is: `load` (both
sides are inserted node by node), `search` (every rule is matched against the e-graph as
it is at the start of an iteration), `apply` and `instantiate` (a match is taken, its right
side built, its classes merged), `rebuild` (congruence is restored one pair at a time),
`stopped`. `rep` is the union-find and `meaning` a history variable, the value of a node when
it was added. Rules are applied in their order, and the matches of one rule in an order the
model leaves to `CHOOSE`, as it does the order in which congruence is restored. The limits
are looked at where the runner does, between two rules: `CutShort` may drop the rest of an
iteration there, since 5 seconds may have passed, and must when there are more than
`MaxNodes` nodes; so a property that holds here holds on a fast and on a slow machine.
`BackoffScheduler` (rules banned after many matches) only makes a saturation smaller and is
left out: its effect on what is proved is that of a limit.

`Smt` is `smt_prove_parsed`: `type_tree`, then `build` on both sides through one cache
indexed by node, then Z3 asked whether the sides can differ over the *integers*, which is
what the code declares its symbols as. `Tactic` is `run` (`tactic.rs:177-207`): a tactic that
is tried goes through stages, `simp`, `definitional`, `base`, `step`, `smt`, each a saturation
or a question to `Smt`, and `StageFails` and `TacticFails` are the fallbacks of `Auto` and
`OrElse`. `substitute_var`, the rule of the hypothesis and the `unwrap` that panics on it
are the code's. A limit of the saturation is not a fault, a panic is: `build` unwraps the
operands of a node as integers or truth values (`smt.rs:131-144`), and `UnwrapPanics` is the
answer "panic" when an operand has the other sort.

### Compiled code and back: `Ingest`, `RustExec`, `Extract`, `Bridge`

`Ingest` is `translate_body` of the ingestion crate: a function as `rustc` gives it (signed
and unsigned integers, storage statements, switches, calls, checked operations) becomes a
`Mir` body, or is refused, and the body goes to `VerifyBody`. The two guesses of the code
are there: a switch of one branch is read as an assertion (`lib.rs:261-275`), and a block
that cannot be reached in its reading becomes an empty `Return`. `FunctionTyped` says what
`rustc` has checked before a function is ingested: operands and places have one type, an
arithmetic operation is for integers, constants are values of their type, and an edge leads
to a block. Nothing is translated that it excludes; what it leaves open (projections,
other operators, calls) is what the ingestion refuses.

`RustExec` calls the *original* function, with integers modulo `WordSize`, signed ones in two's
complement; it is what `rustc` compiles and is external. Two history variables say what no
promise covers: `beyond`, a value was negative or an operation wrapped, and `astray`, the
run is in a block the translation emptied.

`Extract` is `body_to_rust_source`: the body is written as lines (`let`, the braces of an unsafe
block, a check, the result), and the lines are given the meaning Rust gives them: a `let`
ends with its block and shadows what it repeats. An argument that is declared is a parameter;
`ArgsDeclared` says that all are, each once. `Bridge` puts them in a row (ingest,
verify, extract, call) and compares the call with the report and the source with the call.

The locals of a body have the types of Rust: `usize`, `isize` and `u64` stand for the integer types
(distinct types of one width), `bool`, and any other type is opaque. Verification sees them
through `ToCoreTerm`, which makes `Nat` of every integer type (`to_core_term` and the aliases
of `stdlib.rs`); the extracted source has them in its signature. A line of the source is refused,
as `rustc` would, when it reads a name that is not in scope, declares one of `Illegal` (what
`sanitize_ident` lets through though nothing can be declared by it), or uses a variable at a
type it does not have (`Accepted`); the signature when a type is unknown, a name illegal
or twice there; the whole when what it returns has another type than the signature says.

### What leaves the kernel: `Erase`, `FromCore`, `Surface`, `Outputs`

`Erase` has `rust_type_source`, `pair_type_to_tuple_source_with_witness`, `pair_value_to_rust`
and `pi_type_to_fn_source` (`extract.rs:1-384`), with every error. `FromCore` has `term_to_expr`.
`Surface` has the printer of terms, `fresh_name`, and `lower`, over syntax trees: lexing and
parsing are text processing, and `Legible` says which printed terms the parser reads back as
they were meant (see section 5). `Outputs` states what each must preserve over the states of
`Kernel`, so it is checked on every term at every stage of its reduction.

## 3. The runs

| Run | Instance | What it shows |
|---|---|---|
| `cli_shared` | two invocations at once, two files with four shapes each, one edit, kills, `cargo clean`, disk errors | the cache is sound, a zero exit status is deserved, a failure has a cause, one run does not contradict itself, and the tool implements `SpecLedger` |
| `cli_single` | three invocations in a row by two builds, six shapes of file, one edit, `cargo clean` | what was saved is believed by the next run, a success is never owed to a specification that only failed, and each run ends |
| `cli_lost_update` | two invocations, no fault | **violated**: the second save overwrites the first |
| `kernel` | 24 298 pairs of a term and a reduct of it, the definitions of the library among them | subject reduction (terms that unfold to `is_zero` apart, see section 5), confluence, one normal form, canonicity (a value, unless an elimination has no case for its constructor), agreement of `check` and `infer`, the arithmetic of the library by `normalize` and in every other order; extracted types, values and signatures fit, the solver is asked the right obligation, printed terms read back |
| `kernel_cases` | eliminations whose cases use a variable or an argument | **violated**: they lose their type when they are reduced |
| `mir_sound` | every body of two blocks with at most one statement each over eight statements and seven terminators, guarded blocks with every kind of obligation, assumption and proof, and longer bodies | a body the solver alone discharged does not panic; one discharged by proofs as well goes wrong only at an unsafe block whose assumption is false; inlining is right; the report is complete; the walk ends |
| `mir_loop` | a loop whose assertion holds the first time | **violated**: it is reported as discharged |
| `tactic` | 43 goals (provable, true and out of reach, false, ill-sorted, unparsable) under seven tactics, with and without SMT | classes have one meaning, what is discharged is valid as far as the code can promise, closed goals are decided, a panic has one of two known causes, `run` returns |
| `tactic_induction` | `n + 0 = n` and `n <= 0 = true` by induction | **violated**: the second is proved |
| `tactic_smt` | the goals of the repository's own SMT tests, goals with sides of one node, and two of several | **violated**: the comparison of numbers is refused as ill-sorted, and `n = m` is discharged |
| `bridge` | 644 generated functions, four odd ones, 23 bodies written by hand, called on all arguments | a discharged function goes wrong only beyond the naturals, the extracted source agrees with it where its names, scopes and types are right, every function is answered |
| `bridge_compiles` | three bodies: a `usize` returned as a `u64`; a local named by a keyword; a return place assigned in an unsafe block | **violated**, by each of them alone: it verifies and the source extracted is refused |

Each property of a passing run has a mutant, a plausible bug in one definition, under
which TLC finds the property violated; the mutated definitions stand in the modules next
to the original, marked `Mutant`.

**Bounds.** For the CLI, every race on the cache is between a load, a truncation and a
write of two invocations, so two are enough to show it, and both may hold a cache of any
length, loaded before or after the other's save. A third *concurrent* invocation meets
the file in the same three states. Three invocations *in a row* show a cache that was
filled, cleaned and filled again, or filled by a weaker build. `MaxRuns` and `MaxEdits`
only bound how many of those happen; the proofs have no such bound. For the kernel, terms
are generated from a type down to depth two, so that each elimination form occurs inside
each other under up to four binders, where the off-by-one errors of de Bruijn arithmetic
show; terms whose types depend on values are chosen by hand, since generated ones are
not dependent. For bodies, two blocks and one statement each are enough for a back edge,
a missing block, an unassigned local and an assertion that depends on an assignment on
the way; the longer ones have blocks visited out of order, two arguments of different
types, an argument overwritten before its old value is used, and an undeclared local.
Arguments range over `0..2`, and `MaxWord` stops a run of a cycle that keeps multiplying;
the numbers are large enough to tell `i`, `i + 1`, `i * i` and the constants apart.

For the solver, `MaxIter = 3` and `MaxNodes = 24` stand for 30 iterations and 10 000 nodes:
enough for the goals of the instance that are provable to be proved, for congruence to be
restored several times, and for both limits to be met. Validity is judged on the assignments of `Env` (five, and
two more with negative numbers for Z3), chosen so that no two expressions of the instance
that differ agree on all of them. For the bridge, `WordSize = 4` makes both integers of a
sum wrap, and `Word = 0..5`, the numbers verification looks at, goes past it: were
it as small as the machine's, `i <= 3` would be valid and the gap between the two would not
show. For the outputs, obligations are compared on arguments `0..2` (`Sample`).

**Deadlock** checking is off because the systems really stop: a process exits, a
normal form has no reduct, a body returns.

**Fairness.** `cli_single` assumes weak fairness of the steps of an invocation that has
started: the operating system schedules it, and there are no locks to wait for. Nothing
is assumed of the environment, and that run has no kill, since a killed invocation has
no exit status. `mir_sound` assumes weak fairness of the verification, a plain loop, and
nothing of the execution of the body: `Returns` is about `verify_body`, not about the
body. `tactic` and `bridge` assume weak fairness of `run`, and of ingestion, verification and
extraction together: each is a loop of the calling thread that waits for nobody. No fairness
makes a saturation end: its limits do.

## 4. What is proved

Eight modules hold proofs, for every value of the constants: `CargoTptProofs`; `KernelProofs` for
the kernel and its library; `WalkProofs`, the
lemmas on `verify_body` that `MirSoundProofs` and `BridgeProofs` share;
`SaturationProofs` and `TacticProofs` for the solver; `BridgeProofs` for compiled code and back; `Numbers`, the induction the others use.

Assumptions, all stated in the modules and evaluated by TLC on the instances:

- `PathsAssumption`: paths are ordered (numbers), bounds are naturals.
- `HashAssumption`: two specifications never have one SHA-256 digest.
- `SolverAssumption`: what a build discharges parses; the empty string is no specification.
- `ContentAssumption`, `WordAssumption`, `BodiesAssumption`: sources, arguments and
  bodies have the shape the types of the code give them.
- `SymbolAssumption`: symbols are not operators, and each has a sort and a value of it under
  every assignment. `Env` may be infinite.
- `BoundAssumption`: the limits of the runner are numbers, and at least one iteration runs.
- `GoalAssumption`, `TacticAssumption`: both sides of a goal are parsed trees (or nothing, when
  parsing failed); the variable of an induction is a symbol, and an `OrElse` is neither
  empty nor inside another.
- `IntAssumption`: Z3 takes every symbol for an integer, and looks for a counterexample among
  the assignments of `Env` too.
- `WordSizeAssumption`: an integer has an even number of values, and verification looks at all
  those an unsigned one has.
- `FunctionsAssumption`, `HandWrittenAssumption`: a function to ingest is one `rustc` accepts
  (`FunctionTyped`); another body has the shape the types of `mir.rs` give it.

The theorems on the kernel have their hypotheses in their statements, since TLC cannot evaluate
them (the set of terms is infinite):

- `Submission`: `Term` is the set of all terms, each definition of the environment is closed,
  and so is each submitted term, *the cases of inductive eliminations included*. The last is
  more than being without free variables, and section 5 says why it is needed: `whnf_step`
  puts a case in place without substituting under it. No term of the instance of `kernel`
  is excluded by it, the seeds of `kernel_cases` are.
- `HasLibrary`: the environment has the definitions of `stdlib.rs`, and maybe others.
- `LibraryNamed`: the names of the library are strings. They are string literals, but the
  backends do not relate a literal to `STRING`.

`CargoTptProofs`:

- `TypeCorrect`: `Safety => []TypeOK`.
- `CacheIsSound`: `Safety => []CacheSound`, for any number of invocations, builds, faults
  and edits. The invariant is `LedgerInv == TypeOK /\ CacheSound /\ discharged \subseteq
  Valid`; the last part is what the next two theorems need, since a cached answer is only
  as good as the discharge behind it. The step that needs care is `SaveWrite`: whatever
  is under the write, what can be read afterwards is the writer's own keys or nothing.
- `GateIsSound`: `Safety => []GateSound`. The invariant `GateInv` adds what holds in the
  middle of a scan: while nothing has failed, each specification of a file already taken
  is accepted or still in `attrs` (`Settled`), and after the scan nothing is left. A
  cached answer is acceptable because `CacheSound` makes its key the hash of a
  discharged, hence valid, specification, and hashes do not collide.
- `ToolImplementsLedger`: `Safety => LedgerSpec`. `LedgerInit` and `LedgerStep` map the
  initial states and each action to a step of `SpecLedger` or a stutter: `ReportOk` to
  `Establish`, `ReportCached` to `Recall`, a failure to `Refuse`, `CollectFails` to
  `Abort`, `Exit` to `Decide`, `Start` and `Kill` to `Begin`.
- `RunAgrees` (`VerdictsAgree`) and `FailuresJustified` (`FailureJustified`), by `RunInv`, which
  adds two parts to `TypeOK` for each invocation: what passed in a caching run is in its
  memory (`AgreePart`), and what is on the lists of a run over untouched sources is in the
  sources (`CausePart`). A step of one invocation leaves the part of another alone, except
  an edit, which ends `stable`.
- `SerialRemembers` (`Remembered`): `Safety /\ []Serial => []Remembered`, when no fault but
  `cargo clean` is possible (`Orderly`). Without these premises `Remembered` is false:
  `cli_lost_update` is a run of two invocations that overlap, and one that is killed or
  meets a full disk between truncation and write leaves nothing. With them it holds for any
  number of invocations and builds, each after the other: `MemoryInv` follows a
  saved key from the file into the memory of whoever loads it, which is the only one active.

`KernelProofs`, about every term of any size, every environment and every order of reduction:

- `TypeCorrect`: `Spec => []TypeOK`, no de Bruijn variable is ever left without its binder. The
  invariant is `IInv`: both terms are `Closed` and one is `Reached` from the other. `TypeOK` alone
  is not inductive: it says nothing of the cases of an elimination, which shift under one
  binder and are applied under none. `Scopes` counts them as standing under none, and is what
  reduction preserves.
- `ChurchRosser` and `Confluent`: two reductions of one closed term can always be brought together
  again, and a reduction that is finished has the only answer. The `Confluence` of the runs,
  which asks `conv`, stays with TLC; the theorem is about the terms themselves.
  A step may copy a subterm or drop it, so single steps do not commute; the proof goes
  through `Parallel`, where a term becomes another by any number of steps at once, the children
  before the node. `Develop[u]` takes all the steps there are in `u`, and `Triangle` says that
  whatever `u` becomes in parallel becomes `Develop[u]`. Two parallel reductions
  therefore meet, and each is made of single steps (`ParallelReached`).
- `LibraryAnswers`: `Spec => []Answers`. When an arithmetic term cannot be reduced further, it is the
  numeral or truth value arithmetic gives it, for all six definitions, all numbers, and calls nested
  at will. For each definition there is one reduction that computes it on numerals (`AddLeads`,
  `MulLeads` and so on, by induction on the number recursed on); `SaysShown` puts them together
  along the term. That is one order of many: `ChurchRosser` and the fact that numerals and
  truth values have no reduct (`NumClosed`, `Constants0`) make it the answer of any. It says nothing of
  whether a reduction ends.
- `LibraryIsClosed`: the definitions of the library are closed, so that the hypotheses above hold
  of the environment `stdlib()` makes.

These rest on laws of the code's own arithmetic of indices: how a `shift` commutes with
another, a `subst` with a `shift`, and a `subst` with another (`Traverses` has what is common to
both functions: they walk a term and count its binders). Induction and recursion on terms are the
lemmas `TermInduction` and `TermRecursion`: the well-foundedness in `IsTermSet` gives
a minimal counterexample in place of an induction theorem, and shows that the recursive
functions of `Terms`, `Reduce`, `Reduction` and `Library` exist and satisfy their equations.
`Counting` does the same for numbers.

`MirSoundProofs`:

- `TypeCorrect`: `SoundSpec => []TypeOK`.
- `LocalsTyped`: `SoundSpec => []ValuesTyped`, which is inductive with `TypeOK`.
- `Soundness` (`NoPanic`) and `InliningCorrect` (`Inlining`), by one invariant,
  `IInv == TypeOK /\ WalkInv /\ RunInv`. Neither property is inductive: they speak of a run
  that begins after the walk ended, of blocks the walk visited in another order, and
  obligations are checked before the blocks they lead to. `WalkInv` therefore says of each
  position in `trace`, other than the current one, that it was passed rightly (`Taken`):
  the values at the next position are those the statement yields, its obligation holds
  for all arguments if every outcome is the solver's, and the block its terminator
  leads to is on the stack with exactly these values or was entered with them. This is
  where `looped` matters: a block entered with one set of values and reached with another
  breaks it. `RunInv` says a run is at a position of the trace, with the store its values
  denote. `IInv` was itself checked by TLC on the instance of `mir_sound`.
  The part about the walk is in `WalkProofs`: `WalkStarts` and `VerifyWalked` say that
  `Typed /\ WalkInv` holds where a well-formed body is submitted and is kept by each step of
  `verify_body`, whoever runs it, so that `BridgeProofs` can start from them.
- `ReportExact` (`ReportComplete`), by `ReportInv`: while verification has met no error, a
  position has an outcome exactly when it is an obligation of a block already walked, or of
  the current block before the statement reached, and no two outcomes share a position.
  The property itself speaks only of the end.

`SaturationProofs` begins with the rules, `RulesSound`. For each rule of `lang.rs`, if the classes its left side matched
have meanings of the right sorts and the left side's root means what its operator says, then
the right side, built over the same variables, has the same sort and the same value under
every assignment. Each rule is one step; the arithmetic is left to SMT.

It then has two invariants of the e-graph, each with one lemma per action:

- `SatOK`, its shape: children, representatives, matches, registers and roots point to nodes,
  and representatives are idempotent.
- `MeaningOK`, under `Believed` (the goal is sorted and the rules are sound): a node means what
  its operator makes of its children, the nodes of a class mean the same, a match taken
  reads the left side of its rule, the part of the right side built so far agrees with it
  on the variables, and the roots mean the two sides. A match is found long before it is
  applied, when the classes it was found in may have merged; it is still right since
  merging never changes a meaning. That congruence merges only equals is the step
  `RebuildMeans`.

The meaning of an expression is a recursive function on its nodes. Induction theorems cannot
be instantiated here, so `LeastNat` of `Numbers` (every nonempty set of numbers has a least element, from
the well-foundedness of strict inclusion on finite sets) takes their place: the first node
for which a statement fails cannot exist. `EvaluateUpTo` shows in this way that the function
is defined, and `NextSorted` that a sorted expression has sorted meanings.

`TacticProofs`, from `Inv` (the shape, the control, what is being saturated at each stage, and
`MeaningOK` while it is believed):

- `TypeCorrect`, `OneMeaning` (`ClassesAgree`), `DischargedValid` (`DischargedIsValid`).
- `HoldsAtZero` (`ProvedHoldsAtZero`): a goal proved by induction holds at zero. Its base case
  keeps the sorts (`RenameSorted`) and is saturated with sound rules; what the step case
  proves has no value, as `tactic_induction` shows.
- `SmtValid` (`SmtAlignedIsValid`): an obligation Z3 discharges is valid. `BuildMeans` follows the
  translation through the cache of the other side: since the two sides agree wherever both
  have a node, a cached value is the right one, and where the symbols are naturals it is the
  meaning of the node. Z3 looks for a counterexample among more assignments than `Env`, so none
  in `Env` is left. Without `Aligned` the statement is false, as `tactic_smt` shows.
- `PanicsKnown` (`PanicsAreKnown`): the rule of the hypothesis is refused by `egg` only when the
  variable of the induction is on the right side alone, and `build` panics only on a
  comparison.

This discharges, for the tactic `Simp`, the assumption `VerifyBody` makes of the solver; the
other half, that the expression is the one the kernel term says, is `TranslationAgrees`. So the
assumption is right of the default build, which has no SMT backend. It is **not** right of a build
with the feature `smt`: `verify_body` then falls back on Z3 (`verify.rs:238-271`), and for an
obligation that is a single node, as the assertion on a truth value `b`, the goal `b = true` has
two sides of one node each, which the shared cache makes equal (`tactic_smt`). `NoPanic`,
`AstrayOnlyBeyond` and the theorems about them say nothing of what such a build discharged.

`BridgeProofs`, from `BridgeInv == WalkedOK /\ ExtractOK /\ CallOK /\ FollowInv`, which TLC checked
first on the instance of `bridge`:

- `BridgeTypeCorrect`: `BridgeSpec => []BridgeTypeOK`. In a function `rustc` accepts every local
  holds a value of its type, after any number of operations that wrapped.
- `IngestionSound`: `BridgeSpec => []AstrayOnlyBeyond`, the promise of the whole chain for compiled
  code: a function whose obligations were discharged goes wrong only in a run in which a
  value was negative or an operation wrapped. `FollowInv` is the simulation behind it: as
  long as no value left the naturals, the run stands at a position of the walk, with
  the values the inlined terms have on its arguments. The position differs: a statement
  of the function is translated to one assignment or to nothing, so the run at `ip` is at
  `Mapped(statements, ip)` of the walk. What a list of statements is translated to is a
  recursive function (`TranslatedUpTo`), and `MappedRight`, by `LeastNat`, says where each
  assignment of it goes. `BodyTranslated` shows that what is submitted is well formed,
  `ReachableClosed` that the run never enters a block the translation emptied, and
  `SwitchFollows` that a switch read as an assertion takes the branch asserted: the step
  that fails for `ExpectedOfBranch`, the mutant of the run. A constant is read as its bits,
  which is right for those that are not negative (`BitsOfNatural`); the others set `beyond`
  when they are read.
- `ExtractionAgrees`: `BridgeSpec => []ExtractedAgrees`. A body that verifies is extracted as a
  function that `rustc` accepts and that returns, on every argument, what the original returns, as long
  as it has no back edge and assigns its return place, no value leaves the naturals, and the body
  satisfies what neither verification nor extraction asks of it: sanitized names are distinct (`NamesDistinct`) and legal (`NamesLegal`),
  every argument is declared, once (`ArgsDeclared`), unsafe blocks keep what they assign to
  themselves (`Contained`), the types are ones `rustc` knows and each statement and assertion
  has the types `rustc` wants (`TypesFit`), and numbers alone are assigned to the return
  place only (`NumbersTyped`, a `let` of which `rustc` would infer `i32`, or another type
  from a later use). Each but the last is needed: TLC finds a counterexample without it, and
  three of these are the bodies of `bridge_compiles`. The last is a
  limit of the meaning given to the source, which has no inference. An
  ingested body satisfies the first four, and `TypesFit` as long as it has no local of a type
  other than the integers and `bool`. The theorem is about any number of blocks and
  statements, with unsafe blocks nested at will, whatever their obligations: where one that was not
  left to the solver is false the original is undefined (`Undone`), and otherwise the run follows
  the walk (`FollowInv`). The argument has four parts.
  - The walk is a chain (`ChainInv`, of `WalkProofs`): until it meets a block again, no two of its
    blocks lead to one, none leads to the first, and at most one returns. It is the walk of
    `verify_body`; the extraction is another loop over the same blocks with a stack of its own.
  - The extraction stays on that chain (`SourceInv`). While it runs, one block waits, which the
    walk entered and the extraction has not printed (`OnTrack`): were it printed already, two
    blocks would lead to it. The lines so far, run on any argument, are still going, with
    all scopes closed but the first, which gives each local the value the walk entered this
    block with, except those an unsafe block took with it (`LostIn`). When a block that returns is
    printed the run has returned, and there is only one (`Complete`).
  - The lines of a block do to the scopes what its statements do to the values (`BlockRuns`, from
    `StatementRuns`, `CheckAgrees` and `TailAgrees`). Inside a block there is a stack of scopes
    (`Stands`): one for each unsafe block around the statement (`Around`), the outer ones
    unchanged since each was opened (`Opened`), and the innermost one in agreement with the
    walk at this statement. Closing a block therefore returns to the agreement it was opened
    with, which is still right of every local the block did not assign. A scope in agreement also
    has the types of the locals (`ScopeTyped`), so that what is read is accepted and a `let` is
    given the type its local has.
  - `Contained` is a premise about the whole of what was printed, so it says little of a
    single step. What a step needs of it is `Sheltered`: what an unsafe block assigned is
    read only inside it, so that every local a line reads is one its scopes still hold
    (`ReadKept`). `ContainedBefore` takes the premise back from what is printed to what had been
    printed before; the names go the same way, since `NamesDistinct` speaks of more locals as more
    is printed.

  The lines are a flattened sequence of sequences and their meaning a recursive function of
  the line; `RunJoined`, `PartsRun` and `RunFlattened` (by `LeastNat`) say that running a
  concatenation is running its parts in turn. The run of the original stands at the exit of the
  block that returns (`Follows`), which is the block `Complete` names.

The last step of each theorem combines the initial, the inductive and the implication
step by propositional temporal logic.

Only model-checked:

- `WrongOnlyByAssumption`: it is the argument of `NoPanic` over again, with a case for the blocks a
  hypothesis justified.
- `RunTerminates`, `Returns`, `Terminates` and `EveryFunctionAnswered`: liveness under fairness is
  outside the prover.
- `ClosedComplete`: that saturation finds every proof depends on the limits, the order of the
  matches and the goals of the instance. Its other half, that what it proves is valid, is
  `DischargedValid`.
- `Confluence`, `NormalForm`, `Computes`, `Preservation`, `CheckAgrees` and `Canonicity` of `Kernel`: they
  run `whnf`, `normalize`, `conv`, `infer` or `check` to the end. Nothing that can be computed
  from a term bounds how long that takes (that well-typed terms normalize is a theorem of
  another order), so these are recursive operators, and no theorem can be stated in a module
  that reaches one. What can be said without running them to the end is proved: `Confluent` for the
  first two, `LibraryAnswers` for the third. Preservation does not hold of all that
  `check` accepts (`kernel_cases`), only of the terms of the instance.
- `ErasedValueFits`, `FunctionErases`, `TranslationAgrees` and `ReadsBack` of `Outputs`, for the same
  reason: each writes a term after reducing it to weak-head normal form, or reads it back.

`Remembered` is proved for invocations that follow one another and is false for others.

## 5. Disagreements between the code and its documentation

Each shows in a run that TLC finds violated and is an entry of "findings" in `PROJECT.json`.

1. `cli_lost_update`: `Cache::save` writes the keys this invocation holds over whatever
   another one saved since (`cache.rs:67-84`). Only work is lost: `CacheSound` holds.
2. `kernel_cases`: the case of an inductive elimination is checked, shifted, substituted
   and applied under different numbers of binders (`check.rs:276`, `term.rs:195`,
   `reduce.rs:84`).
3. `mir_loop`: a loop is accepted and verified for its first pass; the README of the
   ingestion crate says loops are rejected.
4. `tactic_induction`: the hypothesis of an induction is a rewrite rule with a pattern variable
   in place of the induction variable (`tactic.rs:151`), so it rewrites the step case itself:
   `n <= 0` is proved for all `n`. `tactic.rs:38-39` calls it structural induction.
5. `tactic_smt`: `type_tree` wants the operands of a comparison to be truth values
   (`smt.rs:111`), so every comparison of numbers is refused as ill-sorted, and one of truth
   values panics in `build`; the module's header and `tests/milestone2.rs:114-118` expect
   `x + 0 <= x` to be proved.
6. `tactic_smt`, again: one cache serves both sides of an SMT goal, whose nodes are numbered from
   zero on each side (`smt.rs:245-247`): the right side is never translated where the left one
   has a node of that number, and `n = m` is discharged. `SmtAlignedIsValid` says what is
   left: a discharged goal is valid if no position holds two different nodes.
7. `bridge_compiles`: every integer type is `Nat` for verification and itself in the signature that
   is printed (`extract.rs:523`): a body that copies a `usize` to a `u64` verifies and is
   extracted as source that does not compile. `spec.txt:12` says that verified code does.
8. `bridge_compiles`, the second body: `sanitize_ident` (`extract.rs:117`) is to make "a legal Rust
   identifier" of any name, and leaves keywords, `_` and the empty name as they are.
9. `bridge_compiles`, the third body: a `let` in an emitted unsafe block ends with it
   (`extract.rs:486`), while `verify_body` verifies the block "in the same scope" (`verify.rs:448`):
   a body that reads the local after the block is extracted as source that does not compile, or
   reads an older one.

Met while modelling, and without a run of their own:

- The step of `is_zero` binds its induction hypothesis at `Nat` where the motive says `Bool`
  (`stdlib.rs:116`): the kernel refuses the definition, and `stdlib()` does not ask it, although the
  header of the file calls the definitions type-checked. It still computes the right answers
  (`Computes`). It is the only such definition: `Preservation` and `CheckAgrees` are checked of all
  the others but `le`, which unfolds to it, and leave out such terms (`Grounded`).
- An unsafe block justified by its own assumption is reported like a proof (`verify.rs:430`), while
  `mir.rs:98-100` says the assumption is "recorded in the verification report". What such a report
  is worth is `WrongOnlyByAssumption`.
- `infer` checks the cases an inductive elimination has, and asks for no other
  (`check.rs:269-299`): a closed elimination without a case for its constructor is accepted,
  and never becomes a value (`reduce.rs:82-92`). `Canonicity` says that this is the only way for
  an accepted closed term not to become one. No comment or document promises more.
- Z3 symbols are integers, so `Smt` refuses goals that hold of the naturals only. That is safe.
- The tuple type written for a chain of pairs is flat, `(u32, bool, u32)`, and the value is
  nested, `(1, (true, 2))` (`extract.rs:287-344`). `ErasedValueFits` compares them up to nesting.
- Constants unfold before their type is written, so an alias such as `Inti64` becomes `u32`,
  contrary to `extract.rs:128-129`.
- `lower` flattens an application through its parentheses, so the text `(fst p) a` is refused
  as an arity error; an annotation on what is not a pair is dropped unchecked
  (`lower.rs:183-190`); the printer writes `let x : T := v`, which the parser does not accept,
  leaves a `Pi`, a recursor or a constant without parentheses where it is an argument, and
  omits the annotation of a pair. `Legible` leaves these terms out of `ReadsBack`.

## 6. Not modelled

- The procedural macros: the expansion of an attribute is a pure function of that attribute,
  and its work is `check_spec_string` and `verify_spec_string`, whose tactic `Tactic` models
  (`DefaultTactic`); the rest is tokens.
- Lexing, parsing, JSON and report layout, the `rustc` driver, the loop over the items of a
  crate, exit codes beyond success and failure: input, output and text.
- `simplify` and `normal_form`, which extract a smallest term from an e-graph: nothing that
  decides a goal calls them. Rules banned by the scheduler, as said in section 2. An `OrElse`
  inside another or empty: nothing builds one.
- Lowering of number literals, annotations and inductive declarations, which the printer never
  writes, and the REPL. Its one hazard, a declaration that stays in the environment when
  its line fails (`repl.rs:36`), is listed.
- `RustLifetime` and `BorrowState` (`tpt-rustir-mir/src/lib.rs`): nothing in the workspace
  uses them.
- Panics on ill-formed input to the kernel (`check.rs:172`) and the exhaustion of memory
  by unary numerals (`stdlib.rs:15`).
- What the scanner does not see (`scan.rs:84`, `scan.rs:43`): that an attribute it skips is not
  verified is the definition of its scope, and no state depends on it.

## 7. Plan

The order puts first what a wrong answer of which nothing else would catch. Done: the CLI
and its cache, with the abstract specification and its proofs; the kernel and its library;
`verify_body` against the execution of bodies, with its soundness proof; the rules, the
e-graph, the tactics and the SMT backend, with the soundness proofs of saturation and of the SMT
fallback; ingestion and extraction against the compiled function, with the proofs that
ingestion is sound and that extraction keeps what a body does; what leaves
the kernel; the kernel's machine for every term, confluent, and the library right on every
number.

Next:

1. The REPL as a session: its environment against what was accepted.
