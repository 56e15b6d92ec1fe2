----------------------------- MODULE MCCargoTpt -----------------------------
(* Instances of CargoTpt for TLC: both builds discharge `two`; `timed` only *)
(* b1, and only when the search fits its budget; `open` neither; `bad` does *)
(* not even parse.                                                          *)
EXTENDS CargoTpt

CONSTANTS p1, p2, b1, b2, two, timed, open, bad

MCFile == 1..2
MCSpec == {two, timed, open, bad}
\* Model keys: any injection will do, so a specification is its own hash.
MCHash == [s \in MCSpec |-> s]
MCWellFormed == {two, timed, open}
MCDischarges == [b \in Build |-> IF b = b1 THEN {two, timed} ELSE {two}]
Src(state, specs) == [state |-> state, specs |-> specs]
Good(specs) == Src("ok", specs)
\* For concurrency: short files, a repeated timed obligation.
SharedContents == {Good(<<two>>), Good(<<timed, NoSpec>>), Good(<<open, two>>), Src("not_rust", <<>>)}
\* For one invocation at a time: all the shapes.
SingleContents ==
  {Good(<<two, timed, NoSpec, timed>>), Good(<<timed, bad>>), Good(<<open, two>>),
   Src("absent", <<>>), Src("unreadable", <<>>), Src("not_rust", <<>>)}
=============================================================================
