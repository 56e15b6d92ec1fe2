------------------------------ MODULE MCKernel ------------------------------
(* Terms for the kernel: generated from a type, so that every one is well  *)
(* typed; chosen by hand where a motive or a pair is dependent; arithmetic *)
(* expressions over the library; and eliminations of inductive types.      *)
EXTENDS Outputs, TLC

\* The terms: TLC asks whether a value is one, and is told that it is.
MCTerm == Any

VarsOf(ctx, ty) == {Var(j) : j \in {k \in 0..(Len(ctx) - 1) : ctx[Len(ctx) - k] = ty}}
Base(ctx, ty) == VarsOf(ctx, ty) \cup (IF ty = NatT THEN {Zero} ELSE {True, False})

\* One elimination form at a time around a term of depth d - 1.
RECURSIVE Gen(_, _, _)
Gen(ctx, ty, d) ==
  IF d = 0 THEN Base(ctx, ty)
  ELSE LET S == {NatT, BoolT}
           deep == Gen(ctx, ty, d - 1)
       IN  UNION
           {deep,
            IF ty = NatT THEN {Succ(u) : u \in deep} ELSE {},
            UNION {{App(Lambda(s, u), a) : u \in Gen(Append(ctx, s), ty, d - 1),
                                           a \in Base(ctx, s)} : s \in S},
            UNION {{Let(s, a, u) : u \in Gen(Append(ctx, s), ty, d - 1),
                                   a \in Base(ctx, s)} : s \in S},
            {Fst(Pair(u, True, Sigma(ty, BoolT))) : u \in deep},
            {Snd(Pair(Zero, u, Sigma(NatT, ty))) : u \in deep},
            {BoolRec(Lambda(BoolT, ty), u, x, c) :
               u \in deep, x \in VarsOf(ctx, ty) \cup {CHOOSE y \in Base(ctx, ty) : TRUE},
               c \in Base(ctx, BoolT)},
            {NatRec(Lambda(NatT, ty), x, Lambda(NatT, Lambda(ty, u)), Succ(n)) :
               u \in Gen(ctx \o <<NatT, ty>>, ty, d - 1), x \in Base(ctx, ty),
               n \in VarsOf(ctx, NatT) \cup {Zero}}}

Generated == Gen(<<>>, NatT, 2) \cup Gen(<<>>, BoolT, 1)

\* Bool -> Type0 by large elimination: Nat at true, Bool at false.
D == Lambda(BoolT, BoolRec(Lambda(BoolT, Universe(0)), NatT, BoolT, Var(0)))
\* Nat -> Type0: Nat at zero, Bool above.
M == Lambda(NatT, NatRec(Lambda(NatT, Universe(0)), NatT,
                         Lambda(NatT, Lambda(Universe(0), BoolT)), Var(0)))
DPair == Sigma(BoolT, App(D, Var(0)))
Choice(b) == BoolRec(D, Zero, True, b)
NatToNat == Pi(NatT, NatT)

Dependent ==
  {App(Lambda(BoolT, Choice(Var(0))), b) : b \in {True, False}}
    \cup {Snd(App(Lambda(BoolT, Pair(Var(0), Choice(Var(0)), DPair)), b)) : b \in {True, False}}
    \cup {Let(DPair, Pair(False, True, DPair), Snd(Var(0))),
          Lambda(BoolT, App(Lambda(BoolT, Choice(Var(0))), Var(0))),
          \* The motive of the recursion mentions the enclosing variable.
          App(Lambda(BoolT, NatRec(Lambda(NatT, App(D, Var(1))), Choice(Var(0)),
                                   Lambda(NatT, Lambda(App(D, Var(1)), Var(0))),
                                   Succ(Zero))), False),
          NatRec(M, Zero, Lambda(NatT, Lambda(App(M, Var(0)), True)), Succ(Succ(Zero))),
          Pi(BoolT, App(D, Var(0))), Sigma(NatT, App(M, Var(0)))}
HigherOrder ==
  {App(Lambda(NatToNat, App(Var(0), App(Var(0), Succ(Succ(Zero))))), f) :
     f \in {Const("pred"), Lambda(NatT, Succ(Var(0))), App(Const("add"), Succ(Zero))}}
    \cup {App(Lambda(NatT, Lambda(NatT, App2(Const("add"), Var(1), Var(0)))), Succ(Zero)),
          Lambda(NatT, App(Lambda(NatT, Lambda(NatT, Var(1))), Var(0))),
          Lambda(NatT, App(App(Lambda(NatT, Lambda(NatT, Var(1))), Var(0)), Zero)),
          \* Carried under a binder before or after it is replaced itself.
          App(Lambda(NatT, App(Lambda(NatT, Lambda(NatT, Var(1))), Var(0))), Succ(Zero)),
          Let(NatToNat, Lambda(NatT, Var(0)), Var(0)),
          Let(NatToNat, Lambda(NatT, Zero), Lambda(NatT, App(Var(1), Var(0)))),
          \* An integer type of Rust unfolds to Nat.
          App(Lambda(Const("Natu32"), App2(Const("add"), Var(0), Var(0))), Succ(Zero))}

\* An enumeration, and a type with a constructor argument.
MCInductives ==
  [Color |-> [params |-> <<>>,
              constructors |-> [red |-> Inductive("Color", <<>>),
                                blue |-> Inductive("Color", <<>>)]],
   Boxed |-> [params |-> <<>>,
            constructors |-> [box |-> Pi(NatT, Inductive("Boxed", <<>>))]]]
Color(c) == Con("Color", c, <<>>)
ByColor(red, blue, c) ==
  IndRec("Color", Lambda(Inductive("Color", <<>>), NatT), <<<<"red", red>>, <<"blue", blue>>>>, c)
Boxed(n) == Con("Boxed", "box", <<n>>)
\* A case is missing; the result is used, or never looked at.
OnlyRed(u, c) == IndRec("Color", Lambda(Inductive("Color", <<>>), NatT), <<<<"red", u>>>>, c)
Partial ==
  {OnlyRed(Zero, Color(c)) : c \in {"red", "blue"}}
    \cup {App(Lambda(Inductive("Color", <<>>), OnlyRed(Zero, Var(0))), Color("blue")),
          NatRec(Lambda(NatT, NatT), Zero, Lambda(NatT, Lambda(NatT, Succ(Var(0)))),
                 OnlyRed(Zero, Color("blue"))),
          Let(NatT, OnlyRed(Zero, Color("blue")), Succ(Var(0))),
          App(Lambda(NatT, Num(1)), OnlyRed(Zero, Color("blue")))}
\* Cases that mention no enclosing variable, of constructors without arguments.
Enumerations ==
  Partial \cup {ByColor(Zero, Succ(Zero), Color(c)) : c \in {"red", "blue"}}
    \cup {App(Lambda(Inductive("Color", <<>>), ByColor(Zero, Num(2), Var(0))), Color("blue")),
          App(Lambda(NatT, Boxed(Var(0))), Succ(Zero))}

Low == {Zero, Num(1)}
Small == Low \cup {Num(2)}
Op2(f, S, R) == {App2(Const(f), a, b) : a \in S, b \in R}
Arith ==
  UNION {Op2("add", Small, Small), Op2("minus", Small, Small), Op2("le", Low, Low),
         Op2("mul", Low, Small), {App(Const(f), a) : f \in {"pred", "is_zero"}, a \in Small}}

\* Pairs and functions to extract: dependent on the first component, nested on
\* either side, over an integer type of Rust; a function that returns a pair.
NatBool == Sigma(NatT, BoolT)
OnFirst == Sigma(BoolT, Sigma(NatT, App(D, Var(1))))
\* A type that reads as a pair only once its dependency is resolved.
Late == Sigma(BoolT, BoolRec(Lambda(BoolT, Universe(0)), NatBool, NatT, Var(0)))
OnSecond == Sigma(BoolT, Sigma(BoolT, App(D, Var(0))))
Extracted ==
  {Pair(Zero, Pair(True, Num(1), Sigma(BoolT, NatT)), Sigma(NatT, Sigma(BoolT, NatT))),
   Pair(Pair(Num(1), False, NatBool), Succ(App(Const("pred"), Num(2))), Sigma(NatBool, Const("Natu32"))),
   App(Lambda(BoolT, Pair(Var(0), Choice(Var(0)), DPair)), True),
   Pair(BoolRec(Lambda(BoolT, BoolT), False, True, True), True, DPair),
   Pair(True, Pair(Num(1), True, NatBool), Late), Pair(False, Num(2), Late),
   Pair(False, Pair(Num(1), True, NatBool), OnFirst),
   Pair(True, Pair(False, True, DPair), OnSecond), Pair(False, Pair(True, Zero, DPair), OnSecond),
   Lambda(NatT, Lambda(BoolT, Pair(App(Const("is_zero"), Var(1)), Succ(Var(1)), Sigma(BoolT, NatT)))),
   Lambda(BoolT, Lambda(NatT, App2(Const("le"), Var(0), BoolRec(Lambda(BoolT, NatT), Zero, Num(1), Var(1))))),
   Lambda(BoolT, Choice(Var(0))), Lambda(Const("Natu32"), App2(Const("add"), Var(0), Num(1)))}
\* Obligations over two arguments.
Obligations ==
  {Lambda(NatT, App2(Const("le"), App2(Const("add"), Var(0), Num(1)), Var(0)))}
    \cup {Lambda(NatT, Lambda(NatT, u)) :
            u \in {App2(Const("le"), Var(1), Succ(Var(0))),
                   App2(Const("add"), Var(0), App2(Const("mul"), Var(1), Var(0)))}}
\* Three binders that refer to one another, the middle one in the domain.
Nested ==
  {Lambda(Universe(0), Lambda(Var(0), Lambda(Pi(Var(1), Var(2)), App(Var(0), Var(1))))),
   Lambda(NatT, Pair(Var(0), App(Lambda(NatT, Succ(Var(1))), Zero), Sigma(NatT, NatT))),
   Fst(Pair(Zero, Num(1), Sigma(NatT, NatT))), App(Lambda(NatT, Color("red")), Zero)}

\* The constants of the library, which unfold to their definitions.
Definitions == {Const(c) : c \in DOMAIN StdlibDefs}

MCSeeds == UNION {Definitions, Generated, Dependent, HigherOrder, Enumerations, Arith, Extracted,
                  Obligations, Nested}
MCProbes == {NatT, BoolT, NatToNat, Pi(BoolT, NatT), Pi(BoolT, App(D, Var(0))), Universe(0), Universe(1),
             DPair, Sigma(BoolT, NatT), Const("Natu32"), Inductive("Boxed", <<>>)}

\* Cases that mention an enclosing variable, or belong to a constructor with
\* an argument.
CaseSeeds ==
  {App(Lambda(NatT, ByColor(Var(0), Zero, Color("red"))), Succ(Zero)),
   IndRec("Boxed", Lambda(Inductive("Boxed", <<>>), BoolT), <<<<"box", Boxed(Var(0))>>>>, Boxed(Zero))}
    \cup Enumerations \cup Gen(<<>>, NatT, 1)

=============================================================================
