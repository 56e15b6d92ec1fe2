----------------------------- MODULE MCMirSound -----------------------------
(* Bodies for TLC. `Small` is every body of two blocks with at most one    *)
(* statement each, over an argument i (local 1), a truth value (local 2)   *)
(* and the return place (local 0); the others are written out.             *)
EXTENDS MirSound

I == Local(1)
C == Local(2)
Nat1 == <<1>>
Locals == [l \in 0..2 |-> IF l = 2 THEN "bool" ELSE "usize"]
Locals3 == [l \in 0..3 |-> IF l \in {2, 3} THEN "bool" ELSE "usize"]
Blocks(bs) == [i \in 0..(Len(bs) - 1) |-> bs[i + 1]]
Body1(bs) == MirBody(Nat1, Locals, Blocks(bs))

\* Obligations over the argument: i <= i, i <= 0, a term the solver cannot be
\* given, and a number where a proposition is due.
Inputs1 == [{1} -> Word \cup {0, 1}]
Over(ty, arith, F(_)) == Term(ty, [v \in Inputs1 |-> F(v[1])], arith)
Trivial == Over("Bool", TRUE, LAMBDA i : 1)
Strict == Over("Bool", TRUE, LAMBDA i : Truth(i <= 0))
Opaque == Over("Bool", FALSE, LAMBDA i : 1)
Number == Over("Nat", TRUE, LAMBDA i : i)

Statement1 ==
  {Assign(2, Le(I, I)), Assign(2, Le(I, NatConst(0))), Assign(2, Use(I)), Assign(0, Add(I, NatConst(1))),
   Assign(1, Mul(I, I)), Assign(2, Le(Local(0), I)), Assign(2, Use(BoolConst(FALSE))),
   Unsafe(Trivial, None, None, 0)}
Terminator1 ==
  {Return, Goto(0), Goto(1), Goto(2), Assert(C, TRUE, 1), Assert(C, FALSE, 0), Assert(I, TRUE, 1)}
Block1 == {Block(s, t) : s \in {<<>>} \cup {<<x>> : x \in Statement1}, t \in Terminator1}
Small == {Body1(<<a, b>>) : a \in Block1, b \in Block1}

Guarded(obligation, assumption, proof) ==
  Body1(<<Block(<<Unsafe(obligation, assumption, proof, 1), Assign(0, Use(I))>>, Return)>>)
Guards ==
  {Guarded(ob, as, pr) : ob \in {Trivial, Strict, Opaque, Number}, as \in {None, Trivial, Strict, Number},
                         pr \in {None, "hypothesis", "true"}}

\* Three blocks in the order 0, 2, 1; two arguments, the second a bool; an
\* argument overwritten before it is read; an undeclared and an opaque local.
Longer ==
  {Body1(<<Block(<<Assign(2, Le(I, Local(1))), Assign(1, Add(I, NatConst(1)))>>, Assert(C, TRUE, 2)),
           Block(<<Assign(0, Use(I))>>, Return),
           Block(<<Assign(2, Le(NatConst(1), I)), Unsafe(Trivial, None, None, 0)>>, Assert(C, TRUE, 1))>>),
   MirBody(<<1, 3>>, Locals3,
           Blocks(<<Block(<<Assign(2, Use(Local(3))), Assign(5, Add(I, I)), Assign(0, Use(Local(5)))>>, Goto(1)),
                    Block(<<Assign(2, Le(I, Local(0)))>>, Assert(C, TRUE, 2)),
                    Block(<<Assign(2, Use(Local(3)))>>, Return)>>)),
   MirBody(<<1, 3>>, Locals3,
           Blocks(<<Block(<<>>, Assert(Local(3), TRUE, 1)), Block(<<>>, Return)>>)),
   MirBody(<<1, 3>>, [l \in 0..3 |-> IF l \in {0, 3} THEN "&T" ELSE "usize"],
           Blocks(<<Block(<<Assign(0, Use(Local(3)))>>, Goto(1)),
                    Block(<<Assign(2, Add(Local(3), I))>>, Return)>>))}

MCBodies == Small \cup Guards \cup Longer

\* A loop: the assertion holds the first time round.
Loop == Body1(<<Block(<<Assign(0, Use(NatConst(0)))>>, Goto(1)),
                Block(<<Assign(2, Le(Local(0), NatConst(0)))>>, Assert(C, TRUE, 2)),
                Block(<<Assign(0, Add(Local(0), NatConst(1)))>>, Goto(1))>>)
LoopBodies == {Loop} \cup Longer
=============================================================================
