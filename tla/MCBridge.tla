------------------------------ MODULE MCBridge ------------------------------
(* Functions and bodies for TLC. A function has two arguments of one type  *)
(* (locals 1 and 2), a truth value (3) and a temporary (4); it computes a  *)
(* condition, leaves its first block by it, and ends in the second block,  *)
(* or in the third when the condition is not met.                          *)
EXTENDS Bridge

I == Local(1)
J == Local(2)
C == Local(3)
Tmp == Local(4)
Num(n) == NatConst(n)
Blocks(bs) == [i \in 0..(Len(bs) - 1) |-> bs[i + 1]]

Conditions ==
  {<<Storage, Assign(3, Le(I, I))>>, <<Assign(3, Le(Num(0), I))>>, <<Assign(3, Le(I, J))>>,
   <<Assign(4, Add(I, J)), Assign(3, Le(I, Tmp))>>, <<Assign(4, Add(Num(1), I)), Assign(3, Le(Num(1), Tmp))>>,
   <<Assign(4, Mul(I, I)), Storage, Assign(3, Le(I, Tmp))>>,
   <<Assign(3, Lt(I, J))>>, <<Assign(3, Use(BoolConst(TRUE)))>>, <<OtherStatement, Assign(3, Le(I, I))>>,
   <<Assign(3, Le(Projection(1), I))>>, <<Assign(4, Add(I, Num(1))), Assign(3, Le(Tmp, I))>>}
\* A negative constant is one of a signed type.
Signed == {<<Assign(4, Use(Num(-1))), Assign(3, Le(I, I))>>}
Exits ==
  {Switch(C, <<<<0, 2>>>>, 1), Switch(C, <<<<1, 2>>>>, 1), Switch(I, <<<<0, 2>>>>, 1),
   Switch(C, <<<<0, 2>>, <<1, 1>>>>, 1), Assert(C, TRUE, 1), Assert(C, FALSE, 1), Goto(1)}
Tails == {<<Assign(0, Add(I, J))>>, <<Assign(1, Add(I, Num(1))), Assign(0, Use(I))>>}
Others == {Block(<<>>, Call), Block(<<Assign(0, Sub(I, J))>>, Return)}

Function(ty, condition, exit, tail, other) ==
  MirBody(<<1, 2>>, [l \in 0..4 |-> IF l = 3 THEN "bool" ELSE ty],
          Blocks(<<Block(condition, exit), Block(tail, Return), other>>))
Generated ==
  {Function(ty, c, e, t, o) :
     ty \in {"usize", "isize"}, c \in Conditions, e \in Exits, t \in Tails, o \in Others}
    \cup {Function("isize", c, e, t, o) : c \in Signed, e \in Exits, t \in Tails, o \in Others}

\* A loop, a call where a block is wanted, an opaque type, no argument at all.
Odd ==
  {MirBody(<<1>>, [l \in 0..4 |-> IF l = 3 THEN "bool" ELSE "usize"],
           Blocks(<<Block(<<Assign(0, Use(Num(0)))>>, Goto(1)),
                    Block(<<Assign(3, Le(Local(0), Num(0)))>>, Switch(C, <<<<0, 3>>>>, 2)),
                    Block(<<Assign(0, Add(Local(0), Num(1)))>>, Goto(1)),
                    Block(<<>>, Call)>>)),
   MirBody(<<1>>, [l \in 0..1 |-> IF l = 1 THEN "&T" ELSE "usize"],
           Blocks(<<Block(<<Assign(0, Use(Num(2)))>>, Goto(1)), Block(<<>>, Return)>>)),
   MirBody(<<>>, [l \in {0} |-> "usize"], Blocks(<<Block(<<Assign(0, Mul(Num(2), Num(3)))>>, Return)>>)),
   MirBody(<<1>>, [l \in 0..1 |-> "usize"], Blocks(<<Block(<<>>, Call)>>))}
MCFunctions == Generated \cup Odd

\* By hand: local 5 has the name of local 4 once sanitized, 6 is not declared,
\* 8 is named by a keyword.
MCNameOf ==
  [l \in 0..5 \cup {8} |->
     <<CASE l = 0 -> "_" [] l = 1 -> "i" [] l = 2 -> "j" [] l = 3 -> "ok" [] l = 8 -> "fn"
         [] OTHER -> "a_b", 0>>]
MCIllegal == {<<"fn", 0>>}
Locals == [l \in 0..5 |-> IF l = 3 THEN "bool" ELSE "usize"]
True2 == Term("Bool", [v \in [{1, 2} -> Word \cup {0, 1}] |-> 1], TRUE)
Body2(bs) == MirBody(<<1, 2>>, Locals, Blocks(bs))
Ordered(arith) ==
  Unsafe(Term("Bool", [v \in [{1, 2} -> Word \cup {0, 1}] |-> Truth(v[1] <= v[2])], arith), None, None, 1)
Guard(inside) == Unsafe(True2, None, None, inside)

Bodies1 ==
  {Body2(<<Block(<<Guard(n)>> \o ss, Return)>>) :
     n \in 0..2, ss \in {<<Assign(4, Add(I, J)), Assign(0, Use(Tmp))>>,
                         <<Assign(0, Use(I)), Assign(0, Use(J))>>,
                         <<Assign(4, Add(I, I)), Assign(6, Use(Tmp)), Assign(0, Use(J))>>}}
Bodies2 ==
  {Body2(<<Block(<<Assign(4, Use(I)), Assign(5, Use(J)), Assign(0, Use(Tmp))>>, Return)>>),
   Body2(<<Block(<<Assign(6, Add(I, J)), Assign(3, Le(I, Local(6)))>>, Assert(C, TRUE, 2)),
           Block(<<Assign(0, Use(Local(6)))>>, Return),
           Block(<<Assign(1, Mul(J, Local(6)))>>, Goto(1))>>),
   Body2(<<Block(<<Guard(2), Assign(4, Use(I)), Guard(1), Assign(0, Use(Tmp))>>, Goto(1)),
           Block(<<Assign(0, Use(J))>>, Return)>>),
   Body2(<<Block(<<Ordered(TRUE), Assign(0, Use(I))>>, Return)>>),
   Body2(<<Block(<<Ordered(FALSE), Assign(0, Use(I))>>, Return)>>),
   Body2(<<Block(<<Assign(0, Use(I))>>, Assert(C, TRUE, 1)), Block(<<>>, Return)>>),
   Body2(<<Block(<<Assign(3, Le(I, J))>>, Goto(3))>>),
   Body2(<<Block(<<Assign(0, Use(I))>>, Goto(0))>>),
   Body2(<<Block(<<Assign(3, Le(I, Num(0)))>>, Assert(C, FALSE, 1)), Block(<<>>, Return)>>),
   MirBody(<<7, 2>>, Locals, Blocks(<<Block(<<Assign(0, Use(J))>>, Return)>>)),
   MirBody(<<1>>, <<>>, Blocks(<<Block(<<Assign(0, Use(I))>>, Return)>>))}

\* A usize returned as a u64; a local named by a keyword; what is returned
\* assigned in an unsafe block.
Copied(l, ty) ==
  MirBody(<<1>>, [k \in {0, 1, l} |-> IF k = 1 THEN "usize" ELSE ty],
          Blocks(<<Block(<<Assign(l, Use(I)), Assign(0, Use(Local(l)))>>, Return)>>))
TypeBodies == {Copied(4, "u64")}
NameBodies == {Copied(8, "usize")}
ScopeBodies == {Body2(<<Block(<<Guard(1), Assign(0, Use(I))>>, Return)>>)}
CompileBodies == TypeBodies \cup NameBodies \cup ScopeBodies
MCHandWritten == Bodies1 \cup Bodies2 \cup TypeBodies \cup NameBodies \cup {Copied(4, "usize")}
=============================================================================
