-------------------------------- MODULE Erase --------------------------------
(***************************************************************************)
(* Extraction of kernel types and values as Rust types and values. What is *)
(* printed is kept as a tree: a tag, the number of a literal, and the      *)
(* parts of a tuple or of a function type, its result last.                *)
(***************************************************************************)
EXTENDS Convert, SequencesExt

Rust(tag, of, parts) == [tag |-> tag, of |-> of, parts |-> parts]
U32 == Rust("u32", 0, <<>>)
BoolSource == Rust("bool", 0, <<>>)
Named(name) == Rust(name, 0, <<>>)
Tuple(parts) == Rust("tuple", 0, parts)
FnType(parts) == Rust("fn", 0, parts)
Literal(n) == Rust("number", n, <<>>)
TruthLiteral(b) == Rust("truth", IF b THEN 1 ELSE 0, <<>>)

Refused(error) == Rust(error, 0, <<>>)
ExtractErrors ==
  {"UnsupportedType", "UnsupportedValue", "DependencyNotResolvable", "NotAPairType", "NotAPiType"}
IsRefused(s) == s.tag \in ExtractErrors
\* The first error met, or what the parts make together.
Collect(parts, whole) ==
  IF \E i \in DOMAIN parts : IsRefused(parts[i])
  THEN parts[SelectInSeq(parts, IsRefused)] ELSE whole
-----------------------------------------------------------------------------
\* mentions_binder and mentions_exact.
RECURSIVE MentionsBinder(_, _)
MentionsBinder(u, depth) ==
  IF u.op = "Var" THEN u.n >= depth
  ELSE \E i \in DOMAIN u.kids : MentionsBinder(u.kids[i], depth + Binders(u, i))

RECURSIVE MentionsExact(_, _)
MentionsExact(u, target) ==
  IF u.op = "Var" THEN u.n = target
  ELSE \E i \in DOMAIN u.kids : MentionsExact(u.kids[i], target + Binders(u, i))

\* Mutant: the components walked are counted from the first.
WalkedFromFirst(witnesses, i) == witnesses[i + 1]
\* The witness, if there is one, of the component whose variable is i.
Walked(witnesses, i) == witnesses[Len(witnesses) - i]

\* Every variable of a component walked before is replaced by its witness.
Unresolved == Leaf("Unresolved")
RECURSIVE Resolve(_, _, _)
Resolve(a, witnesses, i) ==
  CASE i = Len(witnesses) -> a
    [] i < Len(witnesses) /\ ~MentionsExact(a, i) -> Resolve(a, witnesses, i + 1)
    [] i < Len(witnesses) /\ MentionsExact(a, i) /\ Walked(witnesses, i) = <<>> -> Unresolved
    [] OTHER -> Resolve(Subst(a, i, Walked(witnesses, i)[1]), witnesses, i + 1)

RECURSIVE TypeSource(_)
RECURSIVE Components(_, _, _)

ComponentSource(resolved) ==
  IF resolved = Unresolved THEN Refused("DependencyNotResolvable") ELSE TypeSource(Whnf(resolved))
\* The components of a chain of pair types; the witness is for the first.
Walk(w, witness, witnesses) ==
  IF w.op # "Sigma" THEN <<ComponentSource(Resolve(w, witnesses, 0))>>
  ELSE <<ComponentSource(Resolve(w.kids[1], witnesses, 0))>>
         \o Components(w.kids[2], <<>>, Append(witnesses, witness))
Components(ty, witness, witnesses) == Walk(Whnf(ty), witness, witnesses)

TupleFrom(parts, isPair) ==
  Collect(parts, IF isPair THEN Tuple(parts) ELSE Refused("NotAPairType"))
\* witness: a sequence of one term, or of none.
TupleSource(ty, witness) ==
  TupleFrom(Components(Whnf(ty), witness, <<>>), Whnf(ty).op = "Sigma")

SourceOf(w) ==
  CASE w.op = "Nat" -> U32
    [] w.op = "Bool" -> BoolSource
    [] w.op = "Const" -> Named(w.name[1])
    [] w.op = "Sigma" -> TupleSource(w, <<>>)
    [] OTHER -> Refused("UnsupportedType")
TypeSource(ty) == SourceOf(Whnf(ty))

\* Domains that stand alone, then the result.
RECURSIVE Signature(_)
DomainSource(w) ==
  IF MentionsBinder(w.kids[1], 0) \/ MentionsExact(w.kids[2], 0)
  THEN Refused("DependencyNotResolvable") ELSE TypeSource(w.kids[1])
SignatureOf(w) ==
  IF w.op = "Pi" THEN <<DomainSource(w)>> \o Signature(w.kids[2]) ELSE <<TypeSource(w)>>
Signature(ty) == SignatureOf(Whnf(ty))

\* Mutant: an argument is put before those already there.
FnReversed(parts) == FnType(Reverse(Front(parts)) \o <<Last(parts)>>)
Fn(parts) == FnType(parts)
FnSource(ty) ==
  IF Whnf(ty).op # "Pi" THEN Refused("NotAPiType") ELSE Collect(Signature(ty), Fn(Signature(ty)))
-----------------------------------------------------------------------------
\* nat_value: a chain of successors of zero.
RECURSIVE NatSource(_)
OneMore(s) == IF IsRefused(s) THEN s ELSE Literal(s.of + 1)
NatSource(u) ==
  CASE u.op = "Zero" -> Literal(0)
    [] u.op = "Succ" -> OneMore(NatSource(u.kids[1]))
    [] OTHER -> Refused("UnsupportedValue")

RECURSIVE ValueSource(_)
PairSource(parts) == Collect(parts, Tuple(parts))
ValueSource(u) ==
  CASE u.op \in {"Zero", "Succ"} -> NatSource(u)
    [] u.op \in {"True", "False"} -> TruthLiteral(u = True)
    [] u.op = "Pair" -> PairSource(<<ValueSource(u.kids[1]), ValueSource(u.kids[2])>>)
    [] OTHER -> Refused("UnsupportedValue")
=============================================================================
