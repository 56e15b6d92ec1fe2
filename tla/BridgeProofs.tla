---------------------------- MODULE BridgeProofs ----------------------------
(***************************************************************************)
(* Proofs about Bridge, for every set of functions rustc accepts and of    *)
(* well-formed bodies, and every width of an integer.                      *)
(***************************************************************************)
EXTENDS Bridge, WalkProofs, Numbers

-----------------------------------------------------------------------------
(* The translation of a list of statements.                                *)

TranslatedTo(ss, n, u) == u = [i \in 0..n |-> Extended(ss, i, u)]

\* The first n statements can be translated, for every n: the least n for which
\* they cannot does not exist.
LEMMA TranslateUpTo ==
  ASSUME NEW ss, Len(ss) \in Nat
  PROVE  \A n \in 0..Len(ss) : \E u : TranslatedTo(ss, n, u)
<1> DEFINE T == {n \in 0..Len(ss) : ~ \E u : TranslatedTo(ss, n, u)}
<1>1. SUFFICES ASSUME T # {} PROVE FALSE
  OBVIOUS
<1>2. PICK n \in T : \A y \in T : n <= y
  <2>1. T \in SUBSET Nat
    OBVIOUS
  <2> HIDE DEF T
  <2> QED BY <1>1, <2>1, LeastNat
<1>3. n # 0
  <2> DEFINE u == [i \in 0..0 |-> <<>>]
  <2>1. u = [i \in 0..0 |-> Extended(ss, i, u)] BY DEF Extended
  <2>2. TranslatedTo(ss, 0, u) BY <2>1 DEF TranslatedTo
  <2> QED BY <1>2, <2>2
<1>4. n \in 1..Len(ss) /\ n - 1 \in 0..Len(ss) /\ n - 1 \notin T
  BY <1>2, <1>3
<1>5. PICK u : TranslatedTo(ss, n - 1, u)
  BY <1>4
<1> DEFINE f == [i \in 0..n |-> IF i = n THEN Extended(ss, n, u) ELSE u[i]]
<1>6. ASSUME NEW i \in 0..n PROVE f[i] = Extended(ss, i, f)
  <2>1. i # 0 => i - 1 \in 0..(n - 1) /\ f[i - 1] = u[i - 1] BY <1>4
  <2>2. Extended(ss, i, f) = Extended(ss, i, u) BY <2>1 DEF Extended
  <2>3. CASE i = n BY <2>2, <2>3
  <2>4. CASE i # n
    <3>1. i \in 0..(n - 1) BY <1>4, <2>4
    <3>2. u[i] = Extended(ss, i, u) BY <1>5, <3>1 DEF TranslatedTo
    <3> QED BY <2>2, <2>4, <3>2
  <2> QED BY <2>3, <2>4
<1>7. TranslatedTo(ss, n, f)
  <2>1. f = [i \in 0..n |-> f[i]] OBVIOUS
  <2> HIDE DEF f
  <2> QED BY <1>6, <2>1 DEF TranslatedTo
<1> QED BY <1>2, <1>7

\* The recursive function is defined.
LEMMA UpToIs ==
  ASSUME NEW ss, Len(ss) \in Nat
  PROVE  /\ TranslatedUpTo(ss)[0] = <<>>
         /\ \A i \in 1..Len(ss) :
              TranslatedUpTo(ss)[i] = TranslatedUpTo(ss)[i - 1] \o TranslateStatement(ss[i])
<1>1. PICK u : TranslatedTo(ss, Len(ss), u) BY TranslateUpTo
<1>2. u = [i \in 0..Len(ss) |-> Extended(ss, i, u)] BY <1>1 DEF TranslatedTo
<1>3. TranslatedUpTo(ss) = [i \in 0..Len(ss) |-> Extended(ss, i, TranslatedUpTo(ss))]
  BY <1>2 DEF TranslatedUpTo
<1>4. PICK U : U = TranslatedUpTo(ss) OBVIOUS
<1>5. U = [i \in 0..Len(ss) |-> Extended(ss, i, U)] BY <1>3, <1>4
<1>6. \A i \in 0..Len(ss) : U[i] = Extended(ss, i, U) BY <1>5
<1>7. U[0] = <<>> /\ \A i \in 1..Len(ss) : U[i] = U[i - 1] \o TranslateStatement(ss[i])
  <2>1. 0 \in 0..Len(ss) /\ \A i \in 1..Len(ss) : i \in 0..Len(ss) /\ i # 0 OBVIOUS
  <2> QED BY <1>6, <2>1, Zenon DEF Extended
<1> QED BY <1>4, <1>7

\* Concatenation of at most one element.
LEMMA ConcatOne ==
  ASSUME NEW S, NEW s \in Seq(S), NEW e \in S
  PROVE  /\ s \o <<>> = s
         /\ s \o <<e>> \in Seq(S) /\ Len(s \o <<e>>) = Len(s) + 1
         /\ (s \o <<e>>)[Len(s) + 1] = e
         /\ \A k \in 1..Len(s) : (s \o <<e>>)[k] = s[k]
OBVIOUS

\* What the statements of a list can be translated to.
Image(ss) ==
  {Assign(ss[i].place, TranslateRvalue(ss[i].rvalue)) :
     i \in {j \in 1..Len(ss) : ss[j].kind = "assign"}}

\* u is a beginning of w.
Begins(u, w) == Len(u) <= Len(w) /\ \A k \in 1..Len(u) : w[k] = u[k]

\* One more statement.
LEMMA OneMore ==
  ASSUME NEW ss, Len(ss) \in Nat, NEW i \in 1..Len(ss), TranslatedUpTo(ss)[i - 1] \in Seq(Image(ss))
  PROVE  /\ TranslatedUpTo(ss)[i] \in Seq(Image(ss))
         /\ Begins(TranslatedUpTo(ss)[i - 1], TranslatedUpTo(ss)[i])
         /\ ss[i].kind = "assign" =>
              LET n == Len(TranslatedUpTo(ss)[i - 1]) + 1
              IN  /\ Len(TranslatedUpTo(ss)[i]) = n
                  /\ TranslatedUpTo(ss)[i][n] = Assign(ss[i].place, TranslateRvalue(ss[i].rvalue))
         /\ ss[i].kind # "assign" => TranslatedUpTo(ss)[i] = TranslatedUpTo(ss)[i - 1]
<1>1. PICK u, w, S, e :
        /\ u = TranslatedUpTo(ss)[i - 1] /\ w = TranslatedUpTo(ss)[i] /\ S = Image(ss)
        /\ e = Assign(ss[i].place, TranslateRvalue(ss[i].rvalue))
  OBVIOUS
<1>2. u \in Seq(S) BY <1>1
<1>3. CASE ss[i].kind = "assign"
  <2>1. e \in S BY <1>1, <1>3 DEF Image
  <2>2. w = u \o <<e>> BY <1>1, <1>3, UpToIs DEF TranslateStatement
  <2>3. /\ w \in Seq(S) /\ Len(w) = Len(u) + 1 /\ w[Len(u) + 1] = e
        /\ \A k \in 1..Len(u) : w[k] = u[k]
    BY <1>2, <2>1, <2>2, ConcatOne
  <2>4. Len(u) \in Nat BY <1>2
  <2>5. Begins(u, w) BY <2>3, <2>4 DEF Begins
  <2> QED BY <1>1, <1>3, <2>3, <2>5
<1>4. CASE ss[i].kind # "assign"
  <2>1. TranslatedUpTo(ss)[i] = TranslatedUpTo(ss)[i - 1] \o TranslateStatement(ss[i]) BY UpToIs
  <2>2. TranslateStatement(ss[i]) = <<>> BY <1>4 DEF TranslateStatement
  <2>3. w = u \o <<>> BY <1>1, <2>1, <2>2
  <2>4. w = u BY <1>2, <2>3
  <2>5. Len(u) \in Nat BY <1>2
  <2>6. Begins(u, w) BY <2>4, <2>5 DEF Begins
  <2> QED BY <1>1, <1>2, <1>4, <2>4, <2>6
<1> QED BY <1>3, <1>4

\* What the first n statements are translated to is a list of translations of
\* assignments, and begins with what fewer of them are translated to.
Growing(ss, n) ==
  /\ TranslatedUpTo(ss)[n] \in Seq(Image(ss))
  /\ \A i \in 0..n : Begins(TranslatedUpTo(ss)[i], TranslatedUpTo(ss)[n])

\* That holds for every n: there is no least n for which it does not.
LEMMA UpToGrows ==
  ASSUME NEW ss, Len(ss) \in Nat
  PROVE  \A n \in 0..Len(ss) : Growing(ss, n)
<1> DEFINE T == {n \in 0..Len(ss) : ~Growing(ss, n)}
<1>1. SUFFICES ASSUME T # {} PROVE FALSE
  OBVIOUS
<1>2. PICK n \in T : \A y \in T : n <= y
  <2>1. T \in SUBSET Nat
    OBVIOUS
  <2> HIDE DEF T
  <2> QED BY <1>1, <2>1, LeastNat
<1>3. n # 0
  <2>1. TranslatedUpTo(ss)[0] = <<>> BY UpToIs
  <2>2. Begins(<<>>, <<>>) BY DEF Begins
  <2>3. \A i \in 0..0 : i = 0 OBVIOUS
  <2>4. Growing(ss, 0) BY <2>1, <2>2, <2>3 DEF Growing
  <2> QED BY <1>2, <2>4
<1>4. n \in 1..Len(ss) /\ n - 1 \in 0..Len(ss) /\ n - 1 \notin T
  BY <1>2, <1>3
<1>5. Growing(ss, n - 1)
  BY <1>4
<1> HIDE DEF T
<1>6. PICK u, w : u = TranslatedUpTo(ss)[n - 1] /\ w = TranslatedUpTo(ss)[n] OBVIOUS
<1>7. u \in Seq(Image(ss)) /\ \A i \in 0..(n - 1) : Begins(TranslatedUpTo(ss)[i], u)
  BY <1>5, <1>6 DEF Growing
<1>8. w \in Seq(Image(ss)) /\ Begins(u, w) BY <1>4, <1>6, <1>7, OneMore
<1>9. Begins(w, w) BY <1>8 DEF Begins
<1>10. ASSUME NEW i \in 0..n PROVE Begins(TranslatedUpTo(ss)[i], w)
  <2>1. CASE i = n BY <1>6, <1>9, <2>1
  <2>2. CASE i # n
    <3>1. PICK x : x = TranslatedUpTo(ss)[i] OBVIOUS
    <3>2. i \in 0..(n - 1) /\ i \in 0..Len(ss) BY <1>4, <2>2
    <3>3. Begins(x, u) BY <1>7, <3>1, <3>2
    <3>4. i \notin T BY <1>2, <1>4, <3>2
    <3>5. Growing(ss, i) BY <3>2, <3>4 DEF T
    <3>6. x \in Seq(Image(ss)) BY <3>1, <3>5 DEF Growing
    <3>7. Len(x) \in Nat /\ Len(u) \in Nat /\ Len(w) \in Nat BY <1>7, <1>8, <3>6
    <3>8. Begins(x, w) BY <1>8, <3>3, <3>7 DEF Begins
    <3> QED BY <3>1, <3>8
  <2> QED BY <2>1, <2>2
<1>11. Growing(ss, n) BY <1>6, <1>8, <1>10 DEF Growing
<1> QED BY <1>2, <1>11 DEF T

\* Where a statement of a list is in its translation, or would be.
Mapped(ss, i) == Len(TranslatedUpTo(ss)[i - 1]) + 1

\* The translation is a list, it starts and ends where the list does, an
\* assignment goes where it is mapped and every other statement nowhere.
LEMMA MappedRight ==
  ASSUME NEW ss, Len(ss) \in Nat
  PROVE  /\ TranslateStatements(ss) \in Seq(Image(ss))
         /\ Mapped(ss, 1) = 1 /\ Mapped(ss, Len(ss) + 1) = Len(TranslateStatements(ss)) + 1
         /\ \A i \in 1..Len(ss) :
              /\ ss[i].kind = "assign" =>
                   /\ Mapped(ss, i) \in 1..Len(TranslateStatements(ss))
                   /\ TranslateStatements(ss)[Mapped(ss, i)]
                        = Assign(ss[i].place, TranslateRvalue(ss[i].rvalue))
                   /\ Mapped(ss, i + 1) = Mapped(ss, i) + 1
              /\ ss[i].kind # "assign" => Mapped(ss, i + 1) = Mapped(ss, i)
<1>1. PICK all : all = TranslateStatements(ss) OBVIOUS
<1>2. Growing(ss, Len(ss)) BY UpToGrows
<1>3. all \in Seq(Image(ss)) /\ \A i \in 0..Len(ss) : Begins(TranslatedUpTo(ss)[i], all)
  BY <1>1, <1>2 DEF Growing, TranslateStatements
<1>4. Mapped(ss, 1) = 1
  <2>1. PICK u : u = TranslatedUpTo(ss)[0] OBVIOUS
  <2>2. u = <<>> BY <2>1, UpToIs
  <2>3. Len(u) = 0 /\ 1 - 1 = 0 BY <2>2
  <2> QED BY <2>1, <2>3 DEF Mapped
<1>5. Mapped(ss, Len(ss) + 1) = Len(all) + 1 BY <1>1 DEF Mapped, TranslateStatements
<1>6. ASSUME NEW i \in 1..Len(ss)
      PROVE  /\ ss[i].kind = "assign" =>
                   /\ Mapped(ss, i) \in 1..Len(all)
                   /\ all[Mapped(ss, i)] = Assign(ss[i].place, TranslateRvalue(ss[i].rvalue))
                   /\ Mapped(ss, i + 1) = Mapped(ss, i) + 1
             /\ ss[i].kind # "assign" => Mapped(ss, i + 1) = Mapped(ss, i)
  <2>1. i - 1 \in 0..Len(ss) /\ i \in 0..Len(ss) BY <1>6
  <2>2. PICK u, w : u = TranslatedUpTo(ss)[i - 1] /\ w = TranslatedUpTo(ss)[i] OBVIOUS
  <2>3. u \in Seq(Image(ss)) /\ w \in Seq(Image(ss)) /\ Begins(w, all)
    BY <1>3, <2>1, <2>2, UpToGrows DEF Growing
  <2>4. Len(u) \in Nat /\ Len(w) \in Nat /\ Len(all) \in Nat BY <1>3, <2>3
  <2>5. Mapped(ss, i) = Len(u) + 1 BY <2>2 DEF Mapped
  <2>6. Mapped(ss, i + 1) = Len(w) + 1
    <3>1. (i + 1) - 1 = i BY <1>6
    <3> QED BY <2>2, <3>1 DEF Mapped
  <2>7. CASE ss[i].kind = "assign"
    <3>1. /\ Len(w) = Len(u) + 1
          /\ w[Len(u) + 1] = Assign(ss[i].place, TranslateRvalue(ss[i].rvalue))
      BY <2>2, <2>3, <2>7, OneMore
    <3>2. Len(u) + 1 \in 1..Len(w) /\ Len(w) <= Len(all) BY <2>3, <2>4, <3>1 DEF Begins
    <3>3. all[Len(u) + 1] = w[Len(u) + 1] BY <2>3, <3>2 DEF Begins
    <3> QED BY <2>4, <2>5, <2>6, <2>7, <3>1, <3>2, <3>3
  <2>8. CASE ss[i].kind # "assign"
    <3>1. w = u BY <2>2, <2>3, <2>8, OneMore
    <3> QED BY <2>5, <2>6, <2>8, <3>1
  <2> QED BY <2>7, <2>8
<1> QED BY <1>1, <1>3, <1>4, <1>5, <1>6
-----------------------------------------------------------------------------
(* The translation of a function.                                          *)

\* The blocks reached contain the first one and the successors of each.
LEMMA ReachableClosed ==
  ASSUME NEW f, FunctionTyped(f)
  PROVE  /\ Reachable(f) \subseteq DOMAIN f.blocks /\ 0 \in Reachable(f)
         /\ \A b \in Reachable(f) : Successors(f.blocks[b].terminator) \subseteq Reachable(f)
<1>1. 0 \in DOMAIN f.blocks
      /\ \A b \in DOMAIN f.blocks : Successors(f.blocks[b].terminator) \subseteq DOMAIN f.blocks
  BY DEF FunctionTyped, TerminatorTyped
<1>2. \A bs : Closed(f, bs) =>
        0 \in bs /\ \A b \in bs : Successors(f.blocks[b].terminator) \subseteq bs
  BY DEF Closed
<1> QED BY <1>1, <1>2 DEF Reachable

\* A supported block is translated to a well-formed one.
LEMMA BlockTranslated ==
  ASSUME NEW b, BlockSupported(b), Len(b.statements) \in Nat,
         DOMAIN b.statements = 1..Len(b.statements)
  PROVE  WellFormedBlock(TranslateBlock(b))
<1>1. PICK ss, all, t :
        ss = b.statements /\ all = TranslateStatements(ss) /\ t = TranslateTerminator(b.terminator)
  OBVIOUS
<1>2. TranslateBlock(b) = [statements |-> all, terminator |-> t]
  BY <1>1 DEF TranslateBlock, Block
<1>3. all \in Seq(Image(ss)) BY <1>1, MappedRight
<1>4. Len(all) \in Nat /\ DOMAIN all = 1..Len(all) /\ \A i \in DOMAIN all : all[i] \in Image(ss)
  BY <1>3
<1>5. \A op : OperandSupported(op) => Operand(TranslateOperand(op))
  BY DEF OperandSupported, Operand, TranslateOperand, NatConst
<1>6. ASSUME NEW s \in Image(ss) PROVE WellFormedStatement(s) /\ s.kind # "unsafe"
  <2>1. PICK i \in 1..Len(ss) :
          ss[i].kind = "assign" /\ s = Assign(ss[i].place, TranslateRvalue(ss[i].rvalue))
    BY <1>6 DEF Image
  <2>2. RvalueSupported(ss[i].rvalue)
    BY <1>1, <2>1 DEF BlockSupported, StatementSupported
  <2>3. /\ s.kind = "assign" /\ s.rvalue.op = ss[i].rvalue.op
        /\ s.rvalue.a = TranslateOperand(ss[i].rvalue.a)
        /\ s.rvalue.b = TranslateOperand(ss[i].rvalue.b)
    BY <2>1 DEF Assign, TranslateRvalue
  <2> QED BY <1>5, <2>2, <2>3 DEF WellFormedStatement, RvalueSupported
<1>7. t.kind \in {"return", "goto", "assert"} /\ (t.kind = "assert" => Operand(t.condition))
  <2>1. TerminatorSupported(b.terminator) BY DEF BlockSupported
  <2>2. CASE b.terminator.kind \in {"return", "goto"}
    BY <1>1, <2>2 DEF TranslateTerminator
  <2>3. CASE b.terminator.kind = "assert"
    BY <1>1, <1>5, <2>1, <2>3 DEF TranslateTerminator, TerminatorSupported, Assert
  <2>4. CASE b.terminator.kind = "switch"
    BY <1>1, <1>5, <2>1, <2>4 DEF TranslateTerminator, TerminatorSupported, Assert
  <2> QED BY <2>1, <2>2, <2>3, <2>4 DEF TerminatorSupported
<1> QED BY <1>2, <1>4, <1>6, <1>7 DEF WellFormedBlock

\* A function that can be translated is translated to a well-formed body.
LEMMA BodyTranslated ==
  ASSUME NEW f, FunctionTyped(f), Translatable(f)
  PROVE  WellFormedBody(TranslateBody(f))
<1>1. PICK bs : bs = [b \in DOMAIN f.blocks |->
                        IF b \in Reachable(f) THEN TranslateBlock(f.blocks[b]) ELSE Block(<<>>, Return)]
  OBVIOUS
<1>2. TranslateBody(f).blocks = bs BY <1>1 DEF TranslateBody, MirBody
<1>3. DOMAIN bs \subseteq Nat /\ None \notin DOMAIN bs BY <1>1 DEF FunctionTyped
<1>4. ASSUME NEW b \in DOMAIN bs PROVE WellFormedBlock(bs[b])
  <2>1. CASE b \in Reachable(f)
    <3>1. BlockSupported(f.blocks[b]) BY <2>1 DEF Translatable
    <3>2. /\ Len(f.blocks[b].statements) \in Nat
          /\ DOMAIN f.blocks[b].statements = 1..Len(f.blocks[b].statements)
      BY <1>1, <1>4 DEF FunctionTyped
    <3>3. WellFormedBlock(TranslateBlock(f.blocks[b])) BY <3>1, <3>2, BlockTranslated
    <3> QED BY <1>1, <1>4, <2>1, <3>3
  <2>2. CASE b \notin Reachable(f)
    <3>1. WellFormedBlock(Block(<<>>, Return)) BY DEF WellFormedBlock, Block, Return
    <3> QED BY <1>1, <1>4, <2>2, <3>1
  <2> QED BY <2>1, <2>2
<1>5. Len(f.args) \in Nat /\ DOMAIN f.args = 1..Len(f.args) BY DEF FunctionTyped
<1>6. TranslateBody(f).args = f.args BY DEF TranslateBody, MirBody
<1> QED BY <1>2, <1>3, <1>4, <1>5, <1>6 DEF WellFormedBody
-----------------------------------------------------------------------------
(* Integers of a given width.                                              *)

\* A remainder is less than the divisor, and less than it is its own.
LEMMA Remainder ==
  ASSUME NEW x \in Int, NEW w \in Nat \ {0}
  PROVE  x % w \in 0..(w - 1) /\ (x \in 0..(w - 1) => x % w = x)
OBVIOUS

\* Half of the values of a word are negative for a signed type.
LEMMA Halves ==
  /\ WordSize \in Nat \ {0} /\ WordSize \div 2 \in Nat
  /\ WordSize = 2 * (WordSize \div 2)
BY WordSizeAssumption

\* What is stored in a place of an integer type is one of its values.
LEMMA TruncateFits ==
  ASSUME NEW ty \in Integer, NEW x \in Int
  PROVE  Truncate(ty, x) \in Values(ty)
<1>1. PICK w, h : w = WordSize /\ h = WordSize \div 2 OBVIOUS
<1>2. w \in Nat \ {0} /\ h \in Nat /\ w = 2 * h BY <1>1, Halves
<1>3. CASE ty \in Integer \ {"isize"}
  <2>1. x % w \in 0..(w - 1) BY <1>2, Remainder
  <2> QED BY <1>1, <1>3, <2>1 DEF Truncate, Values
<1>4. CASE ty = "isize"
  <2>1. (x + h) % w \in 0..(w - 1) BY <1>2, Remainder
  <2>2. ((x + h) % w) - h \in (-h)..(h - 1) BY <1>2, <2>1
  <2> QED BY <1>1, <1>4, <2>2 DEF Truncate, Values
<1> QED BY <1>3, <1>4 DEF Integer

\* Every value is an integer; a natural one is an argument a solver knows.
LEMMA ValuesInt ==
  ASSUME NEW ty, NEW x \in Values(ty)
  PROVE  /\ x \in Int
         /\ ~(x < 0) => x \in Word \cup {0, 1}
         /\ ty \notin Integer => x \in {0, 1}
<1>1. PICK w, h : w = WordSize /\ h = WordSize \div 2 OBVIOUS
<1>2. w \in Nat \ {0} /\ h \in Nat /\ w = 2 * h BY <1>1, Halves
<1>3. 0..(w - 1) \subseteq Word BY <1>1, WordSizeAssumption
<1>4. CASE ty = "isize"
  <2>1. x \in (-h)..(h - 1) BY <1>1, <1>4 DEF Values
  <2> QED BY <1>2, <1>3, <1>4, <2>1 DEF Integer
<1>5. CASE ty \in Integer \ {"isize"}
  <2>1. x \in 0..(w - 1) BY <1>1, <1>5 DEF Values
  <2> QED BY <1>2, <1>3, <1>5, <2>1
<1>6. CASE ty \notin Integer BY <1>6 DEF Values, Integer
<1> QED BY <1>4, <1>5, <1>6 DEF Integer

\* The bits of a natural constant are the constant.
LEMMA BitsOfNatural ==
  ASSUME NEW ty \in Integer, NEW n \in Values(ty), ~(n < 0)
  PROVE  n % WordSize = n
<1>1. PICK w, h : w = WordSize /\ h = WordSize \div 2 OBVIOUS
<1>2. w \in Nat \ {0} /\ h \in Nat /\ w = 2 * h BY <1>1, Halves
<1>3. n \in 0..(w - 1)
  <2>1. CASE ty = "isize"
    <3>1. n \in (-h)..(h - 1) BY <1>1, <2>1 DEF Values
    <3> QED BY <1>2, <3>1
  <2>2. CASE ty # "isize"
    <3>1. ty \in Integer \ {"isize"} BY <2>2
    <3>2. Values(ty) = 0..(w - 1) BY <1>1, <2>2, <3>1 DEF Values
    <3> QED BY <3>2
  <2> QED BY <2>1, <2>2
<1>4. n \in Int /\ w \in Nat \ {0} BY <1>2, <1>3
<1>5. n % w = n BY <1>3, <1>4, Remainder, Zenon
<1> QED BY <1>1, <1>5
-----------------------------------------------------------------------------
(* The invariant. A body that is verified is well formed and, when it was  *)
(* ingested, is the translation of its function; a call of the function    *)
(* that met no negative value and no wrapping stands at a position the     *)
(* walk went through, with the values the walk inlined there.              *)

WalkedOK ==
  /\ function \in Functions \cup {None}
  /\ status \in {"ingesting", "running", "ok", "Untranslatable"} \cup Errors
  /\ status = "ingesting" =>
       /\ function \in Functions
       /\ stack = <<0>> /\ visited = {} /\ block = None /\ pc = 1 /\ report = <<>>
       /\ trace = <<>> /\ ~looped
  /\ status \notin {"ingesting", "Untranslatable"} =>
       /\ Typed /\ WalkInv /\ ChainInv
       /\ function # None => Translatable(function) /\ body = TranslateBody(function)

ExtractOK ==
  /\ status \in {"ingesting", "running", "Untranslatable"} => exStatus = "idle"
  /\ exStatus \in {"idle", "running", "ok", "NoReturnPlace"}
  /\ exStatus = "idle" => exVisited = {}
  /\ exStack = <<>> \/ exStack = <<exStack[1]>>
  /\ exVisited \ DOMAIN body.blocks # {} => exStatus = "NoReturnPlace"

\* Where the walk was when the run is at ip: the translation has fewer statements.
Position == <<at, IF function = None THEN ip ELSE Mapped(Here.statements, ip)>>
\* The values of the terms m on the arguments of the run.
Stored(m) == store = [l \in DOMAIN m |-> m[l].den[input]]
Follows ==
  /\ ~astray /\ outcome \in {"running", "returned"}
  /\ input \in Inputs(body)
  /\ at \in DOMAIN Program.blocks /\ (function # None => at \in Reachable(function))
  /\ ip \in 1..(Len(Here.statements) + 1)
  /\ Position \in DOMAIN trace /\ Stored(trace[Position])
  /\ outcome = "returned" => Position = Exit(at) /\ ReturnsAt(at)
\* Or it met an obligation that was assumed, or left to the kernel, and does not hold.
Undone == outcome = "undefined" /\ ~astray /\ ~AllAuto
\* The walk ended, and met no block twice.
Verified == status = "ok" /\ ~looped

CallOK ==
  /\ outcome \in {"idle", "running", "returned", "panicked", "undefined"}
  /\ outcome = "idle" => at = 0 /\ ip = 1 /\ ~astray
  /\ outcome # "idle" => status \notin {"ingesting", "running"}
  /\ ip \in Nat \ {0}
  /\ function # None => \A l \in DOMAIN store : store[l] \in Values(TypeOf(l))
FollowInv == Verified /\ ~beyond /\ outcome # "idle" => Follows \/ Undone

BridgeInv == WalkedOK /\ ExtractOK /\ CallOK /\ FollowInv

\* Ingestion starts with nothing done, on a function or a well-formed body.
LEMMA BridgeStarts == BridgeInit => BridgeInv
<1> SUFFICES ASSUME BridgeInit PROVE BridgeInv OBVIOUS
<1>1. /\ stack = <<0>> /\ visited = {} /\ block = None /\ pc = 1 /\ values = ArgValues(body)
      /\ report = <<>> /\ trace = <<>> /\ looped = FALSE
      /\ outcome = "idle" /\ at = 0 /\ ip = 1 /\ store = <<>> /\ astray = FALSE
      /\ exStatus = "idle" /\ exStack = <<>> /\ exVisited = {}
  BY DEF BridgeInit, IngestInit, NoHistory, RustIdle, ExtractIdle
<1>2. CASE function \in Functions /\ status = "ingesting"
  BY <1>1, <1>2 DEF BridgeInv, WalkedOK, ExtractOK, CallOK, FollowInv
<1>3. CASE function = None /\ body \in HandWritten /\ status = "running"
  <2>1. WellFormedBody(body) BY <1>3, HandWrittenAssumption
  <2>2. WalkStart BY <1>1, <1>3, <2>1 DEF WalkStart
  <2>3. Typed /\ WalkInv /\ ChainInv BY <2>2, WalkStarts, ChainStarts
  <2> QED BY <1>1, <1>3, <2>2, <2>3 DEF BridgeInv, WalkedOK, ExtractOK, CallOK, FollowInv
<1> QED BY <1>2, <1>3 DEF BridgeInit, IngestInit

\* What does not touch the walk keeps what is known of it.
LEMMA WalkedKept == WalkedOK /\ UNCHANGED <<ingestVars, historyVars>> => WalkedOK'
<1> SUFFICES ASSUME WalkedOK, UNCHANGED <<ingestVars, historyVars>> PROVE WalkedOK' OBVIOUS
<1>1. UNCHANGED <<function, vars, historyVars>> BY DEF ingestVars
<1>2. UNCHANGED <<function, body, status, stack, visited, block, pc, values, report, trace, looped>>
  BY <1>1 DEF vars, historyVars
<1>3. (WalkInv => WalkInv') /\ (ChainInv => ChainInv') BY <1>1, WalkKept, ChainKept
<1>4. Typed => Typed' BY <1>2 DEF Typed, WalkOK, Statements
<1> QED BY <1>2, <1>3, <1>4 DEF WalkedOK

\* The same for the extraction.
LEMMA ExtractKept == ExtractOK /\ UNCHANGED <<ingestVars, extractVars>> => ExtractOK'
BY DEF ExtractOK, ingestVars, vars, extractVars

\* The same for the call.
LEMMA CallKept ==
  CallOK /\ FollowInv /\ UNCHANGED <<ingestVars, rustVars, historyVars>> => CallOK' /\ FollowInv'
<1> SUFFICES ASSUME CallOK, FollowInv, UNCHANGED <<ingestVars, rustVars, historyVars>>
             PROVE  CallOK' /\ FollowInv'
  OBVIOUS
<1>1. UNCHANGED <<function, body, status, report, trace, looped>>
      /\ UNCHANGED <<input, at, ip, store, outcome, beyond, astray>>
  BY DEF ingestVars, vars, rustVars, historyVars
<1>2. CallOK' BY <1>1 DEF CallOK, TypeOf, Program
<1>3. Verified' <=> Verified BY <1>1 DEF Verified
<1>4. Here' = Here /\ Program' = Program BY <1>1 DEF Here, Program
<1>5. Position' = Position BY <1>1, <1>4 DEF Position
<1>6. Stored(trace[Position])' <=> Stored(trace[Position]) BY <1>1, <1>5 DEF Stored
<1>7. (ReturnsAt(at)' <=> ReturnsAt(at)) /\ Exit(at)' = Exit(at)
  BY <1>1 DEF ReturnsAt, Exit, Terminator, Statements
<1>8. (Follows' <=> Follows) /\ (Undone' <=> Undone)
  BY <1>1, <1>4, <1>5, <1>6, <1>7 DEF Follows, Undone, AllAuto
<1> QED BY <1>1, <1>2, <1>3, <1>8 DEF FollowInv

\* A function that can be translated becomes a well-formed body, and a step of
\* its verification keeps the invariant of the walk.
LEMMA VerifyingKeeps == WalkedOK /\ IngestNext /\ Remember => WalkedOK'
<1> SUFFICES ASSUME WalkedOK, IngestNext, Remember PROVE WalkedOK' OBVIOUS
<1>1. CASE Translate
  <2>1. /\ status = "ingesting" /\ Translatable(function) /\ body' = TranslateBody(function)
        /\ values' = ArgValues(body') /\ status' = "running"
        /\ UNCHANGED <<function, stack, visited, block, pc, report>>
    BY <1>1 DEF Translate
  <2>2. /\ function \in Functions /\ stack = <<0>> /\ visited = {} /\ block = None /\ pc = 1
        /\ report = <<>> /\ trace = <<>>
    BY <2>1 DEF WalkedOK
  <2>3. trace' = <<>> BY <2>1, <2>2 DEF Remember, Recorded
  <2>4. WellFormedBody(body') BY <2>1, <2>2, FunctionsAssumption, BodyTranslated
  <2>5. WalkStart' BY <2>1, <2>2, <2>3, <2>4 DEF WalkStart
  <2>6. Typed' /\ WalkInv' /\ ChainInv' BY <2>5, WalkStarts, ChainStarts, PTL
  <2> QED BY <2>1, <2>2, <2>6 DEF WalkedOK
<1>2. CASE Refuse
  BY <1>2 DEF Refuse, WalkedOK, Fail
<1>3. CASE Next /\ UNCHANGED function
  <2>1. status = "running" /\ body' = body BY <1>3, NextRuns
  <2>2. Typed /\ WalkInv /\ ChainInv BY <2>1 DEF WalkedOK
  <2>3. Typed' /\ WalkInv' /\ ChainInv' BY <1>3, <2>2, NextTyped, VerifyWalked, ChainNext
  <2>4. status' \in {"running", "ok"} \cup Errors BY <2>3 DEF Typed, WalkOK
  <2>5. status' \notin {"ingesting", "Untranslatable"} BY <2>4 DEF Errors
  <2>6. function # None => Translatable(function) /\ body = TranslateBody(function)
    BY <2>1 DEF WalkedOK
  <2> QED BY <1>3, <2>1, <2>3, <2>4, <2>5, <2>6 DEF WalkedOK
<1> QED BY <1>1, <1>2, <1>3 DEF IngestNext

\* Until a function is verified it is neither extracted nor called.
LEMMA VerifyingWaits ==
  ASSUME WalkedOK, ExtractOK, CallOK, FollowInv, IngestNext, UNCHANGED <<rustVars, extractVars>>
  PROVE  ExtractOK' /\ CallOK' /\ FollowInv'
<1>1. status \in {"ingesting", "running"} /\ function' = function
  BY NextRuns DEF IngestNext, Translate, Refuse
<1>2. UNCHANGED <<input, at, ip, store, outcome, beyond, astray>>
      /\ UNCHANGED <<exStatus, exStack, exVisited>>
  BY DEF rustVars, extractVars
<1>3. exStatus = "idle" /\ exVisited = {} /\ outcome = "idle" BY <1>1 DEF ExtractOK, CallOK
<1>4. ExtractOK' BY <1>2, <1>3 DEF ExtractOK
<1>5. function # None => Program = function /\ Program' = function BY <1>1 DEF Program
<1>6. CallOK' BY <1>1, <1>2, <1>3, <1>5 DEF CallOK, TypeOf
<1>7. FollowInv' BY <1>2, <1>3 DEF FollowInv
<1> QED BY <1>4, <1>6, <1>7

\* The stack of the extraction holds one block at most, and a block that is not
\* there ends it.
LEMMA ExtractStepKeeps ==
  ASSUME ExtractOK, ExtractStep, UNCHANGED ingestVars,
         status \notin {"ingesting", "running", "Untranslatable"}
  PROVE  ExtractOK'
<1>1. UNCHANGED <<body, status>> BY DEF ingestVars, vars
<1>2. CASE BeginExtract
  <2>1. exStatus = "idle" /\ exVisited' = exVisited BY <1>2 DEF BeginExtract
  <2>2. exStatus' \in {"running", "NoReturnPlace"} /\ (exStack' = <<0>> \/ exStack' = exStack)
    BY <1>2 DEF BeginExtract
  <2>3. <<0>> = <<<<0>>[1]>> OBVIOUS
  <2> QED BY <1>1, <2>1, <2>2, <2>3 DEF ExtractOK
<1>3. ASSUME exStack # <<>> PROVE SX!Front(exStack) = <<>>
  <2>1. PICK b : exStack = <<b>> BY <1>3 DEF ExtractOK
  <2> QED BY <2>1 DEF SX!Front
<1>4. CASE ExtractSeen
  BY <1>1, <1>3, <1>4 DEF ExtractSeen, PopExtract, ExtractOK
<1>5. CASE ExtractMissing
  BY <1>1, <1>3, <1>5 DEF ExtractMissing, PopExtract, ExtractOK
<1>6. CASE ExtractBlock
  <2>1. PICK targets : targets = Targets(body.blocks[ExTop].terminator) OBVIOUS
  <2>2. targets = <<>> \/ \E b : targets = <<b>> BY <2>1 DEF Targets
  <2>3. exStack' = <<>> \o targets BY <1>3, <1>6, <2>1 DEF ExtractBlock
  <2>4. exStack' = <<>> \/ \E b : exStack' = <<b>> BY <2>2, <2>3, PushOne
  <2>5. exStack' = <<>> \/ exStack' = <<exStack'[1]>> BY <2>4
  <2>6. /\ exStatus = "running" /\ exStatus' = exStatus
        /\ exVisited' = exVisited \cup {ExTop} /\ ExTop \in DOMAIN body.blocks
    BY <1>6 DEF ExtractBlock
  <2> QED BY <1>1, <2>5, <2>6 DEF ExtractOK
<1>7. CASE EndExtract
  BY <1>1, <1>7 DEF EndExtract, ExtractOK
<1> QED BY <1>2, <1>4, <1>5, <1>6, <1>7 DEF ExtractStep
-----------------------------------------------------------------------------
(* A call follows the walk.                                                *)

\* A verification that is done passed every position rightly.
LEMMA WalkDone ==
  ASSUME WalkedOK, Verified
  PROVE  /\ WellFormedBody(body)
         /\ \A p \in DOMAIN trace : PlacedRight(p) /\ Taken(p)
         /\ \A t, m : Reaches(t, m) => <<t, 1>> \in DOMAIN trace /\ trace[<<t, 1>>] = m
         /\ <<0, 1>> \in DOMAIN trace /\ trace[<<0, 1>>] = ArgValues(body)
         /\ function # None =>
              /\ FunctionTyped(function) /\ Translatable(function)
              /\ body = TranslateBody(function)
<1>1. status = "ok" /\ ~looped BY DEF Verified
<1>2. Typed /\ Walked /\ block = None /\ stack = <<>>
  BY <1>1 DEF WalkedOK, WalkInv, Walked
<1>3. \A p \in DOMAIN trace : PlacedRight(p) /\ Taken(p) BY <1>2 DEF Walked, Current
<1>4. \A t, m : Reaches(t, m) => <<t, 1>> \in DOMAIN trace /\ trace[<<t, 1>>] = m
  BY <1>2 DEF Reaches
<1>5. PICK m : m = ArgValues(body) OBVIOUS
<1>6. Reaches(0, m) BY <1>2, <1>5 DEF Walked
<1>7. <<0, 1>> \in DOMAIN trace /\ trace[<<0, 1>>] = m BY <1>4, <1>6
<1>8. function # None => FunctionTyped(function) /\ Translatable(function)
                          /\ body = TranslateBody(function)
  BY <1>1, FunctionsAssumption DEF WalkedOK
<1> QED BY <1>1, <1>2, <1>3, <1>4, <1>5, <1>7, <1>8 DEF Typed

\* The body has the arguments of the function, and the types of its locals.
LEMMA BodyOfProgram ==
  ASSUME function # None => body = TranslateBody(function)
  PROVE  /\ Program.args = body.args
         /\ \A l : DeclaredType(body, l) = "Bool" => TypeOf(l) \notin Integer
         /\ function = None => Program = body
<1>1. Program.args = body.args /\ Program.locals = body.locals
      /\ (function = None => Program = body)
  BY DEF Program, TranslateBody, MirBody
<1>2. ASSUME NEW l, DeclaredType(body, l) = "Bool"
      PROVE  TypeOf(l) \notin Integer
  <2>1. l \in DOMAIN body.locals /\ ToCoreTerm(body.locals[l]) = "Bool" BY <1>2 DEF DeclaredType
  <2>2. PICK ty : ty = body.locals[l] OBVIOUS
  <2>3. ty \in Integer => ToCoreTerm(ty) = "Nat" BY DEF ToCoreTerm, Integer
  <2>4. ty \notin Integer BY <2>1, <2>2, <2>3
  <2> QED BY <1>1, <2>1, <2>2, <2>4 DEF TypeOf, RustType
<1> QED BY <1>1, <1>2

\* The blocks of a program have lists of statements.
LEMMA BlocksListed ==
  ASSUME WalkedOK, Verified, NEW b \in DOMAIN Program.blocks
  PROVE  LET ss == Program.blocks[b].statements
         IN  Len(ss) \in Nat /\ DOMAIN ss = 1..Len(ss)
<1>1. CASE function = None
  BY <1>1, WalkDone DEF Program, WellFormedBody, WellFormedBlock
<1>2. CASE function # None
  BY <1>2, WalkDone DEF Program, FunctionTyped
<1> QED BY <1>1, <1>2

\* The first statement is mapped to the first.
LEMMA MappedFirst ==
  ASSUME NEW ss, Len(ss) \in Nat
  PROVE  Mapped(ss, 1) = 1
BY MappedRight

\* A call on arguments that are not negative starts where the walk does.
LEMMA CallFollows ==
  ASSUME WalkedOK, CallOK, Verified, NEW v \in Arguments, CallWith(v), ~beyond',
         UNCHANGED <<ingestVars, historyVars>>
  PROVE  Follows'
<1>1. UNCHANGED <<function, body, trace>> BY DEF ingestVars, vars, historyVars
<1>2. /\ outcome' = "running" /\ input' = v /\ at' = 0 /\ ip' = 1 /\ ~astray'
      /\ \A k \in DOMAIN v : ~(v[k] < 0)
  BY DEF CallWith, CallOK
<1>3. /\ Program.args = body.args
      /\ \A l : DeclaredType(body, l) = "Bool" => TypeOf(l) \notin Integer
      /\ function = None => Program = body
  BY WalkDone, BodyOfProgram
<1>4. /\ DOMAIN v = DOMAIN body.args
      /\ \A k \in DOMAIN body.args : v[k] \in Values(TypeOf(body.args[k]))
      /\ v = [k \in DOMAIN body.args |-> v[k]]
  BY <1>3 DEF Arguments
<1>5. ASSUME NEW k \in DOMAIN body.args
      PROVE  /\ v[k] \in Word \cup {0, 1}
             /\ DeclaredType(body, body.args[k]) = "Bool" => v[k] \in {0, 1}
  <2>1. PICK ty, x : ty = TypeOf(body.args[k]) /\ x = v[k] OBVIOUS
  <2>2. x \in Values(ty) /\ ~(x < 0) BY <1>2, <1>4, <2>1
  <2> QED BY <1>3, <2>1, <2>2, ValuesInt
<1>6. v \in Inputs(body) BY <1>4, <1>5 DEF Inputs
<1>7. <<0, 1>> \in DOMAIN trace /\ trace[<<0, 1>>] = ArgValues(body) BY WalkDone
<1>8. 0 \in DOMAIN Program.blocks /\ (function # None => 0 \in Reachable(function))
  <2>1. CASE function = None
    <3>1. PlacedRight(<<0, 1>>) BY <1>7, WalkDone
    <3> QED BY <1>3, <2>1, <3>1 DEF PlacedRight
  <2>2. CASE function # None
    <3>1. FunctionTyped(function) /\ Program = function BY <2>2, WalkDone DEF Program
    <3> QED BY <3>1, ReachableClosed
  <2> QED BY <2>1, <2>2
<1>9. PICK ss : ss = Program.blocks[0].statements OBVIOUS
<1>10. Len(ss) \in Nat BY <1>8, <1>9, BlocksListed
<1>11. Program' = Program /\ Here'.statements = ss BY <1>1, <1>2, <1>9 DEF Here, Program
<1>12. Position' = <<0, 1>> BY <1>1, <1>2, <1>10, <1>11, MappedFirst DEF Position
<1>13. store' = [l \in DOMAIN trace[<<0, 1>>] |-> trace[<<0, 1>>][l].den[v]]
  <2> DEFINE arg(l) == CHOOSE k \in DOMAIN body.args : body.args[k] = l
             A == {body.args[k] : k \in DOMAIN body.args}
  <2>1. store' = [l \in A |-> v[arg(l)]] BY <1>3, <1>4 DEF CallWith
  <2>2. ArgValues(body) = [l \in A |-> ArgVar(body, arg(l))] BY DEF ArgValues
  <2>3. \A k : ArgVar(body, k).den[v] = v[k] BY <1>6 DEF ArgVar, Term
  <2> HIDE DEF arg, A
  <2> QED BY <1>7, <2>1, <2>2, <2>3
<1>14. Stored(trace[Position])' BY <1>1, <1>2, <1>12, <1>13 DEF Stored
<1> QED BY <1>1, <1>2, <1>6, <1>7, <1>8, <1>10, <1>11, <1>12, <1>14 DEF Follows

\* A constant whose bits the walk read was one of its type.
Bits(op) == op.kind = "nat" => \E ty \in Integer : op.of \in Values(ty)
\* w is what the walk made of an operand: the operand of a body written by hand,
\* or the translation of one of a function.
Meets(op, w) ==
  \/ w = op /\ Operand(op)
  \/ w = TranslateOperand(op) /\ OperandSupported(op) /\ Bits(op)

\* An operand with a term has a value, which is that of the term unless negative.
LEMMA OperandFollows ==
  ASSUME NEW m, Stored(m), NEW op, NEW w, Meets(op, w), Has(m, w)
  PROVE  /\ Held(op)
         /\ ~(Read(op) < 0) => Read(op) = OpDen(m, w, input)
<1>1. CASE w = op /\ Operand(op)
  BY <1>1 DEF Operand, Held, Read, Has, OpDen, Stored
<1>2. CASE w = TranslateOperand(op) /\ OperandSupported(op) /\ Bits(op)
  <2>1. CASE op.kind = "local"
    <3>1. w = op BY <1>2, <2>1 DEF TranslateOperand
    <3> QED BY <2>1, <3>1 DEF Held, Read, Has, OpDen, Stored
  <2>2. CASE op.kind = "nat"
    <3>1. PICK ty \in Integer : op.of \in Values(ty) BY <1>2, <2>2 DEF Bits
    <3>2. w.kind = "nat" /\ w.of = op.of % WordSize
      BY <1>2, <2>2 DEF TranslateOperand, NatConst
    <3>3. Held(op) /\ Read(op) = op.of BY <2>2 DEF Held, Read
    <3>4. OpDen(m, w, input) = op.of % WordSize BY <3>2 DEF OpDen
    <3> QED BY <3>1, <3>3, <3>4, BitsOfNatural
  <2> QED BY <1>2, <2>1, <2>2 DEF OperandSupported
<1> QED BY <1>1, <1>2 DEF Meets

\* The constants of a well-typed expression.
LEMMA RvalueBits ==
  ASSUME NEW f, NEW rv, NEW ty, RvalueTyped(f, rv, ty), RvalueSupported(rv)
  PROVE  Bits(rv.a) /\ Bits(rv.b)
<1>1. \A op, t : OperandTyped(f, op, t) => Bits(op) BY DEF OperandTyped, Bits
<1>2. \E t : OperandTyped(f, rv.a, t) /\ OperandTyped(f, rv.b, t)
  BY DEF RvalueTyped, BothTyped, RvalueSupported
<1> QED BY <1>1, <1>2

\* Where the run is, for the walk.
Standing == WalkedOK /\ Verified /\ Follows /\ outcome = "running"
WalkStatement == Statements(at)[Position[2]]

\* A block of the translation, and of a body written by hand.
LEMMA BlockWalked ==
  ASSUME Standing
  PROVE  /\ function = None =>
              /\ Statements(at) = Here.statements /\ Terminator(at) = Here.terminator
              /\ WellFormedBlock(Here)
         /\ function # None =>
              /\ Statements(at) = TranslateStatements(Here.statements)
              /\ Terminator(at) = TranslateTerminator(Here.terminator)
              /\ BlockSupported(Here) /\ at \in Reachable(function)
              /\ TerminatorTyped(function, Here.terminator)
              /\ \A i \in DOMAIN Here.statements :
                   LET s == Here.statements[i]
                   IN  /\ s.kind \in {"assign", "storage", "other"}
                       /\ s.kind = "assign" => RvalueTyped(function, s.rvalue, TypeOf(s.place))
         /\ Len(Here.statements) \in Nat /\ DOMAIN Here.statements = 1..Len(Here.statements)
<1>1. at \in DOMAIN Program.blocks /\ (function # None => at \in Reachable(function))
  BY DEF Standing, Follows
<1>2. Len(Here.statements) \in Nat /\ DOMAIN Here.statements = 1..Len(Here.statements)
  BY <1>1, BlocksListed DEF Standing, Here
<1>3. CASE function = None
  <2>1. Program = body /\ Here = body.blocks[at] BY <1>3 DEF Program, Here
  <2>2. WellFormedBody(body) BY WalkDone DEF Standing
  <2> QED BY <1>1, <1>2, <1>3, <2>1, <2>2 DEF Statements, Terminator, WellFormedBody
<1>4. CASE function # None
  <2>1. PICK f : f = function OBVIOUS
  <2>2. Program = f /\ Here = f.blocks[at] BY <1>4, <2>1 DEF Program, Here
  <2>3. FunctionTyped(f) /\ Translatable(f) /\ body = TranslateBody(f)
    BY <1>4, <2>1, WalkDone DEF Standing
  <2>4. at \in Reachable(f) /\ at \in DOMAIN f.blocks BY <1>1, <1>4, <2>1, <2>2
  <2>5. body.blocks[at] = TranslateBlock(Here)
    BY <2>2, <2>3, <2>4 DEF TranslateBody, MirBody
  <2>6. Statements(at) = TranslateStatements(Here.statements)
        /\ Terminator(at) = TranslateTerminator(Here.terminator)
    BY <2>5 DEF Statements, Terminator, TranslateBlock, Block
  <2>7. BlockSupported(Here) BY <2>2, <2>3, <2>4 DEF Translatable
  <2>8. /\ TerminatorTyped(f, Here.terminator)
        /\ \A i \in DOMAIN Here.statements :
             LET s == Here.statements[i]
             IN  /\ s.kind \in {"assign", "storage", "other"}
                 /\ s.kind = "assign" => RvalueTyped(f, s.rvalue, RustType(f, s.place))
    BY <2>2, <2>3, <2>4 DEF FunctionTyped
  <2>9. \A l : TypeOf(l) = RustType(f, l) BY <2>2 DEF TypeOf
  <2> QED BY <1>2, <1>4, <2>1, <2>4, <2>6, <2>7, <2>8, <2>9
<1> QED BY <1>3, <1>4

\* An assignment the run has reached is one the walk passed.
LEMMA AssignWalked ==
  ASSUME Standing, AtKind("assign"), NEW s, s = Here.statements[ip]
  PROVE  /\ Position[2] <= Len(Statements(at))
         /\ WalkStatement.kind = "assign" /\ WalkStatement.place = s.place
         /\ WalkStatement.rvalue.op = s.rvalue.op /\ s.rvalue.op \in {"use", "add", "mul", "le"}
         /\ Meets(s.rvalue.a, WalkStatement.rvalue.a) /\ Meets(s.rvalue.b, WalkStatement.rvalue.b)
         /\ Position[2] \in Nat
         /\ (IF function = None THEN ip + 1 ELSE Mapped(Here.statements, ip + 1)) = Position[2] + 1
<1>1. ip \in DOMAIN Here.statements /\ s.kind = "assign" /\ ip \in Nat
  BY BlockWalked DEF Standing, Follows, AtKind
<1>2. CASE function = None
  <2>1. Position[2] = ip /\ WalkStatement = s BY <1>2, BlockWalked DEF Position, WalkStatement
  <2>2. WellFormedStatement(s) BY <1>1, <1>2, BlockWalked DEF WellFormedBlock
  <2> QED BY <1>1, <1>2, <2>1, <2>2, BlockWalked DEF WellFormedStatement, Meets, AtKind
<1>3. CASE function # None
  <2>1. PICK ss, all, q :
          ss = Here.statements /\ all = TranslateStatements(ss) /\ q = Mapped(ss, ip)
    OBVIOUS
  <2>2. Position[2] = q /\ Statements(at) = all BY <1>3, <2>1, BlockWalked DEF Position
  <2>3. Len(ss) \in Nat /\ ip \in 1..Len(ss) BY <1>1, <2>1, BlockWalked
  <2>4. /\ q \in 1..Len(all) /\ all[q] = Assign(s.place, TranslateRvalue(s.rvalue))
        /\ Mapped(ss, ip + 1) = q + 1 /\ all \in Seq(Image(ss))
    BY <1>1, <2>1, <2>3, MappedRight
  <2>5. WalkStatement = Assign(s.place, TranslateRvalue(s.rvalue))
    BY <2>2, <2>4 DEF WalkStatement
  <2>6. RvalueSupported(s.rvalue)
    BY <1>1, <1>3, BlockWalked DEF BlockSupported, StatementSupported
  <2>7. Bits(s.rvalue.a) /\ Bits(s.rvalue.b)
    BY <1>1, <1>3, <2>6, BlockWalked, RvalueBits
  <2>8. /\ WalkStatement.kind = "assign" /\ WalkStatement.place = s.place
        /\ WalkStatement.rvalue.op = s.rvalue.op
        /\ WalkStatement.rvalue.a = TranslateOperand(s.rvalue.a)
        /\ WalkStatement.rvalue.b = TranslateOperand(s.rvalue.b)
    BY <2>5 DEF Assign, TranslateRvalue
  <2>9. Meets(s.rvalue.a, WalkStatement.rvalue.a) /\ Meets(s.rvalue.b, WalkStatement.rvalue.b)
    BY <2>6, <2>7, <2>8 DEF Meets, RvalueSupported
  <2>10. q \in Nat /\ q <= Len(all) BY <2>4
  <2> QED BY <1>3, <2>1, <2>2, <2>4, <2>6, <2>8, <2>9, <2>10 DEF RvalueSupported
<1> QED BY <1>2, <1>3

\* What the walk passed at the position of the run.
LEMMA PositionTaken ==
  ASSUME Standing
  PROVE  /\ Position \in DOMAIN trace /\ Position = <<at, Position[2]>>
         /\ Stored(trace[Position]) /\ input \in Inputs(body)
         /\ Position[2] <= Len(Statements(at)) => StepTaken(Position)
         /\ ~(Position[2] <= Len(Statements(at))) => ExitTaken(Position)
<1>1. Position \in DOMAIN trace /\ Stored(trace[Position]) /\ input \in Inputs(body)
  BY DEF Standing, Follows
<1>2. Taken(Position) BY <1>1, WalkDone DEF Standing
<1>3. Position[1] = at /\ Position = <<at, Position[2]>> BY DEF Position
<1> QED BY <1>1, <1>2, <1>3 DEF Taken

\* The run goes on to the next statement, with the values recorded there.
LEMMA AdvanceFollows ==
  ASSUME Standing, Advance, UNCHANGED <<ingestVars, historyVars>>, ip <= Len(Here.statements),
         NEW n \in DOMAIN trace,
         n = <<at, IF function = None THEN ip + 1 ELSE Mapped(Here.statements, ip + 1)>>,
         store' = [l \in DOMAIN trace[n] |-> trace[n][l].den[input]]
  PROVE  Follows'
<1>1. UNCHANGED <<function, body, trace>> BY DEF ingestVars, vars, historyVars
<1>2. ip' = ip + 1 /\ UNCHANGED <<input, at, outcome, astray>> BY DEF Advance
<1>3. Here' = Here /\ Program' = Program BY <1>1, <1>2 DEF Here, Program
<1>4. Position' = n BY <1>1, <1>2, <1>3 DEF Position
<1>5. ip' \in 1..(Len(Here.statements) + 1) BY <1>2, BlockWalked DEF Standing, Follows
<1>6. Stored(trace[Position])' BY <1>1, <1>2, <1>4 DEF Stored
<1> QED BY <1>1, <1>2, <1>3, <1>4, <1>5, <1>6 DEF Follows, Standing

\* An assignment stores the value of its term, unless that wraps or is negative.
LEMMA AssignFollows ==
  ASSUME Standing, RustAssign, ~beyond', UNCHANGED <<ingestVars, historyVars>>
  PROVE  Follows'
<1>1. PICK s, w, p, m, n :
        s = Here.statements[ip] /\ w = WalkStatement /\ p = Position /\ m = trace[p]
        /\ n = <<at, p[2] + 1>>
  OBVIOUS
<1>2. AtKind("assign") BY DEF RustAssign
<1>3. /\ p[2] <= Len(Statements(at))
      /\ w.kind = "assign" /\ w.place = s.place
      /\ w.rvalue.op = s.rvalue.op /\ s.rvalue.op \in {"use", "add", "mul", "le"}
      /\ Meets(s.rvalue.a, w.rvalue.a) /\ Meets(s.rvalue.b, w.rvalue.b)
      /\ (IF function = None THEN ip + 1 ELSE Mapped(Here.statements, ip + 1)) = p[2] + 1
  BY <1>1, <1>2, AssignWalked
<1>4. p = <<at, p[2]>> /\ p[1] = at /\ StepTaken(p) /\ Stored(m) /\ input \in Inputs(body)
  BY <1>1, <1>3, PositionTaken
<1>5. n \in DOMAIN trace /\ AssignTaken(body, w, m, trace[n])
  BY <1>1, <1>3, <1>4 DEF StepTaken, WalkStatement
<1>6. Has(m, w.rvalue.a) /\ Has(m, w.rvalue.b) BY <1>5 DEF AssignTaken
<1>7. /\ Held(s.rvalue.a) /\ (~(Read(s.rvalue.a) < 0) => Read(s.rvalue.a) = OpDen(m, w.rvalue.a, input))
      /\ Held(s.rvalue.b) /\ (~(Read(s.rvalue.b) < 0) => Read(s.rvalue.b) = OpDen(m, w.rvalue.b, input))
  BY <1>3, <1>4, <1>6, OperandFollows
<1>8. Store(s) /\ Advance BY <1>1, <1>7 DEF RustAssign
<1>9. PICK exact, value :
        /\ exact = Computed(s.rvalue.op, Read(s.rvalue.a), Read(s.rvalue.b))
        /\ value = Truncate(WidthOf(s), exact)
  OBVIOUS
<1>10. /\ store' = [l \in DOMAIN store \cup {s.place} |-> IF l = s.place THEN value ELSE store[l]]
       /\ value = exact /\ ~(Read(s.rvalue.a) < 0) /\ ~(Read(s.rvalue.b) < 0)
  BY <1>8, <1>9 DEF Store
<1>11. value = Apply(w.rvalue.op, OpDen(m, w.rvalue.a, input), OpDen(m, w.rvalue.b, input))
  BY <1>3, <1>7, <1>9, <1>10 DEF Computed
<1>12. /\ DOMAIN trace[n] = DOMAIN m \cup {s.place}
       /\ \A l \in DOMAIN trace[n] :
            trace[n][l].den[input] = IF l = s.place THEN value ELSE m[l].den[input]
  BY <1>3, <1>4, <1>5, <1>11 DEF AssignTaken
<1>13. store' = [l \in DOMAIN trace[n] |-> trace[n][l].den[input]]
  BY <1>4, <1>10, <1>12 DEF Stored
<1>14. ip <= Len(Here.statements) BY <1>2 DEF AtKind
<1> QED BY <1>1, <1>3, <1>5, <1>8, <1>13, <1>14, AdvanceFollows

\* A statement that is not translated changes nothing.
LEMMA SkipFollows ==
  ASSUME Standing, RustSkip, UNCHANGED <<ingestVars, historyVars>>
  PROVE  Follows'
<1>1. PICK s, n : s = Here.statements[ip] /\ n = Position OBVIOUS
<1>2. /\ ip <= Len(Here.statements) /\ s.kind \in {"storage", "other"}
      /\ Advance /\ store' = store
  BY <1>1 DEF RustSkip, AtKind
<1>3. ip \in DOMAIN Here.statements BY <1>2, BlockWalked DEF Standing, Follows
<1>4. function # None
  BY <1>1, <1>2, <1>3, BlockWalked DEF WellFormedBlock, WellFormedStatement
<1>5. PICK ss : ss = Here.statements OBVIOUS
<1>6. Len(ss) \in Nat /\ ip \in 1..Len(ss) BY <1>3, <1>5, BlockWalked
<1>7. Mapped(ss, ip + 1) = Mapped(ss, ip) BY <1>1, <1>2, <1>5, <1>6, MappedRight
<1>8. n = <<at, Mapped(Here.statements, ip + 1)>> BY <1>1, <1>4, <1>5, <1>7 DEF Position
<1>9. n \in DOMAIN trace /\ Stored(trace[n]) BY <1>1, PositionTaken
<1>10. store' = [l \in DOMAIN trace[n] |-> trace[n][l].den[input]] BY <1>2, <1>9 DEF Stored
<1> QED BY <1>2, <1>4, <1>8, <1>9, <1>10, AdvanceFollows

\* The obligation of an unsafe block the run has reached holds, if the solver
\* discharged it.
LEMMA UnsafeFollows ==
  ASSUME Standing, RustUnsafe, ~beyond', UNCHANGED <<ingestVars, historyVars>>
  PROVE  Follows' \/ Undone'
<1>1. PICK s, p, n : s = Here.statements[ip] /\ p = Position /\ n = <<at, ip + 1>> OBVIOUS
<1>2. ip <= Len(Here.statements) /\ s.kind = "unsafe" BY <1>1 DEF RustUnsafe, AtKind
<1>3. ip \in DOMAIN Here.statements BY <1>2, BlockWalked DEF Standing, Follows
<1>4. function = None BY <1>1, <1>2, <1>3, BlockWalked
<1>5. p = <<at, ip>> /\ p[1] = at /\ p[2] = ip /\ Statements(at) = Here.statements
  BY <1>1, <1>4, BlockWalked DEF Position
<1>6. StepTaken(p) /\ Stored(trace[p]) /\ input \in Inputs(body)
  BY <1>1, <1>2, <1>5, PositionTaken
<1>7. n \in DOMAIN trace /\ UnsafeTaken(s, trace[p], trace[n])
  BY <1>1, <1>2, <1>5, <1>6 DEF StepTaken
<1>8. trace[n] = trace[p] /\ (AllAuto => s.obligation.den[input] = 1)
  BY <1>6, <1>7 DEF UnsafeTaken
<1>9. CASE Advance /\ store' = store
  <2>1. store' = [l \in DOMAIN trace[n] |-> trace[n][l].den[input]]
    BY <1>6, <1>8, <1>9 DEF Stored
  <2> QED BY <1>1, <1>2, <1>4, <1>7, <1>9, <2>1, AdvanceFollows
<1>10. CASE Finish("undefined") /\ s.obligation.den[input] # 1
  <2>1. ~AllAuto BY <1>8, <1>10
  <2>2. AllAuto' <=> AllAuto BY DEF AllAuto, ingestVars, vars
  <2> QED BY <1>10, <2>1, <2>2 DEF Undone, Finish, Standing, Follows
<1> QED BY <1>1, <1>9, <1>10 DEF RustUnsafe

\* At the end of a block, the run is where the walk left it.
LEMMA ExitReached ==
  ASSUME Standing, ip = Len(Here.statements) + 1
  PROVE  /\ Position \in DOMAIN trace /\ ExitTaken(Position) /\ Position[1] = at
         /\ Position = Exit(at) /\ Stored(trace[Position]) /\ input \in Inputs(body)
<1>1. Position[2] = Len(Statements(at)) + 1
  <2>1. CASE function = None BY <2>1, BlockWalked DEF Position
  <2>2. CASE function # None BY <2>2, BlockWalked, MappedRight DEF Position
  <2> QED BY <2>1, <2>2
<1>2. Len(Statements(at)) \in Nat
  <2>1. CASE function = None BY <2>1, BlockWalked
  <2>2. CASE function # None
    <3>1. PICK ss : ss = Here.statements OBVIOUS
    <3>2. TranslateStatements(ss) \in Seq(Image(ss)) BY <3>1, BlockWalked, MappedRight
    <3> QED BY <2>2, <3>1, <3>2, BlockWalked
  <2> QED BY <2>1, <2>2
<1>3. ~(Position[2] <= Len(Statements(at))) BY <1>1, <1>2
<1>4. Position = <<at, Position[2]>> BY PositionTaken
<1> QED BY <1>1, <1>3, <1>4, PositionTaken DEF Exit

\* A jump to a block the walk entered with the same values.
LEMMA JumpFollows ==
  ASSUME Standing, UNCHANGED <<ingestVars, historyVars>>, NEW target, JumpTo(target),
         Reaches(target, trace[Position]), function # None => target \in Reachable(function)
  PROVE  Follows'
<1>1. UNCHANGED <<function, body, trace>> BY DEF ingestVars, vars, historyVars
<1>2. /\ at' = target /\ ip' = 1 /\ ~astray' /\ UNCHANGED <<input, store, outcome>>
  BY DEF JumpTo, Standing, Follows
<1>3. PICK m : m = trace[Position] OBVIOUS
<1>4. <<target, 1>> \in DOMAIN trace /\ trace[<<target, 1>>] = m
  BY <1>3, WalkDone DEF Standing
<1>5. Stored(m) /\ input \in Inputs(body) BY <1>3, PositionTaken
<1>6. target \in DOMAIN Program.blocks
  <2>1. CASE function = None
    <3>1. PlacedRight(<<target, 1>>) BY <1>4, WalkDone DEF Standing
    <3> QED BY <2>1, <3>1 DEF PlacedRight, Program
  <2>2. CASE function # None
    <3>1. FunctionTyped(function) /\ Program = function BY <2>2, WalkDone DEF Program, Standing
    <3> QED BY <2>2, <3>1, ReachableClosed
  <2> QED BY <2>1, <2>2
<1>7. PICK ss : ss = Program.blocks[target].statements OBVIOUS
<1>8. Len(ss) \in Nat BY <1>6, <1>7, BlocksListed DEF Standing
<1>9. Program' = Program /\ Here'.statements = ss BY <1>1, <1>2, <1>7 DEF Here, Program
<1>10. Position' = <<target, 1>> BY <1>1, <1>2, <1>8, <1>9, MappedFirst DEF Position
<1>11. Stored(trace[Position])' BY <1>1, <1>2, <1>4, <1>5, <1>10 DEF Stored
<1> QED BY <1>1, <1>2, <1>4, <1>5, <1>6, <1>8, <1>9, <1>10, <1>11 DEF Follows, Standing

\* The success edge of a terminator leads to a block of the translation.
LEMMA EdgeReached ==
  ASSUME Standing, function # None, NEW target \in Successors(Here.terminator)
  PROVE  target \in Reachable(function)
<1>1. FunctionTyped(function) /\ Program = function BY WalkDone DEF Program, Standing
<1>2. at \in Reachable(function) BY DEF Standing, Follows
<1> QED BY <1>1, <1>2, ReachableClosed DEF Here

\* A goto goes where the walk did.
LEMMA GotoFollows ==
  ASSUME Standing, RustGoto, UNCHANGED <<ingestVars, historyVars>>
  PROVE  Follows'
<1>1. PICK t : t = Here.terminator OBVIOUS
<1>2. ip = Len(Here.statements) + 1 /\ t.kind = "goto" /\ JumpTo(t.target)
  BY <1>1 DEF RustGoto, AtExit
<1>3. Terminator(at) = t BY <1>1, <1>2, BlockWalked DEF TranslateTerminator
<1>4. Reaches(t.target, trace[Position]) BY <1>2, <1>3, ExitReached DEF ExitTaken
<1>5. function # None => t.target \in Reachable(function)
  BY <1>1, <1>2, EdgeReached DEF Successors
<1> QED BY <1>2, <1>4, <1>5, JumpFollows

\* A return leaves the values as they are.
LEMMA ReturnFollows ==
  ASSUME Standing, RustReturn, UNCHANGED <<ingestVars, historyVars>>
  PROVE  Follows'
<1>1. UNCHANGED <<function, body, trace>> BY DEF ingestVars, vars, historyVars
<1>2. outcome' = "returned" /\ UNCHANGED <<input, at, ip, store, astray>>
  BY DEF RustReturn, Finish
<1>3. Here' = Here /\ Program' = Program BY <1>1, <1>2 DEF Here, Program
<1>4. Position' = Position BY <1>1, <1>2, <1>3 DEF Position
<1>5. Stored(trace[Position])' <=> Stored(trace[Position]) BY <1>1, <1>2, <1>4 DEF Stored
<1>6. ip = Len(Here.statements) + 1 /\ Here.terminator.kind = "return"
  BY DEF RustReturn, AtExit
<1>7. Position = Exit(at) /\ ReturnsAt(at)
  <2>1. Terminator(at).kind = "return" BY <1>6, BlockWalked DEF TranslateTerminator
  <2> QED BY <1>6, <2>1, ExitReached DEF ReturnsAt
<1>8. Exit(at)' = Exit(at) /\ (ReturnsAt(at)' <=> ReturnsAt(at))
  BY <1>1, <1>2 DEF Exit, ReturnsAt, Statements, Terminator
<1> QED BY <1>1, <1>2, <1>3, <1>4, <1>5, <1>7, <1>8 DEF Follows, Standing

\* The walk refuses what ends in a call.
LEMMA NoCall ==
  ASSUME Standing, RustPanic
  PROVE  FALSE
<1>1. Here.terminator.kind = "call" BY DEF RustPanic, AtExit
<1> QED
  BY <1>1, BlockWalked DEF WellFormedBlock, BlockSupported, TerminatorSupported

\* An assertion the run has reached succeeds.
LEMMA AssertFollows ==
  ASSUME Standing, RustAssert, UNCHANGED <<ingestVars, historyVars>>
  PROVE  Follows'
<1>1. PICK t, w, m : t = Here.terminator /\ w = Terminator(at) /\ m = trace[Position] OBVIOUS
<1>2. ip = Len(Here.statements) + 1 /\ t.kind = "assert" BY <1>1 DEF RustAssert, AtExit
<1>3. /\ w.kind = "assert" /\ w.expected = t.expected /\ w.target = t.target
      /\ w.condition = t.condition /\ t.condition.kind \in {"nat", "bool", "local"}
      /\ function # None => t.condition.kind = "local"
  <2>1. CASE function = None
    BY <1>1, <1>2, <2>1, BlockWalked DEF WellFormedBlock, Operand
  <2>2. CASE function # None
    <3>1. OperandSupported(t.condition) /\ OperandTyped(function, t.condition, "bool")
      BY <1>1, <1>2, <2>2, BlockWalked DEF BlockSupported, TerminatorSupported, TerminatorTyped
    <3>2. t.condition.kind = "local"
      BY <3>1 DEF OperandSupported, OperandTyped, Integer
    <3>3. w = Assert(TranslateOperand(t.condition), t.expected, t.target)
      BY <1>1, <1>2, <2>2, BlockWalked DEF TranslateTerminator
    <3> QED BY <3>2, <3>3 DEF Assert, TranslateOperand
  <2> QED BY <2>1, <2>2
<1>4. /\ ExitTaken(Position) /\ Position[1] = at /\ Stored(m) /\ input \in Inputs(body)
  BY <1>1, <1>2, ExitReached
<1>5. /\ Reaches(t.target, m) /\ Has(m, t.condition)
      /\ OpDen(m, t.condition, input) = Truth(t.expected)
  BY <1>1, <1>3, <1>4 DEF ExitTaken
<1>6. Held(t.condition) /\ Read(t.condition) = Truth(t.expected)
  BY <1>3, <1>4, <1>5 DEF Held, Read, Has, OpDen, Stored
<1>7. JumpTo(t.target) BY <1>1, <1>6 DEF RustAssert
<1>8. function # None => t.target \in Reachable(function)
  BY <1>1, <1>2, EdgeReached DEF Successors
<1> QED BY <1>1, <1>5, <1>7, <1>8, JumpFollows

\* A switch the run has reached does not take the branch that panics.
LEMMA SwitchFollows ==
  ASSUME Standing, RustSwitch, UNCHANGED <<ingestVars, historyVars>>
  PROVE  Follows'
<1>1. PICK t, w, m, v :
        t = Here.terminator /\ w = Terminator(at) /\ m = trace[Position] /\ v = t.branches[1][1]
  OBVIOUS
<1>2. ip = Len(Here.statements) + 1 /\ t.kind = "switch" BY <1>1 DEF RustSwitch, AtExit
<1>3. function # None
  BY <1>1, <1>2, BlockWalked DEF WellFormedBlock
<1>4. AssertShape(t) /\ OperandSupported(t.discr)
      /\ \E ty \in Integer \cup {"bool"} : OperandTyped(function, t.discr, ty)
  BY <1>1, <1>2, <1>3, BlockWalked DEF BlockSupported, TerminatorSupported, TerminatorTyped
<1>5. /\ w.kind = "assert" /\ w.expected = Expected(v) /\ w.target = t.otherwise
      /\ w.condition = TranslateOperand(t.discr)
  BY <1>1, <1>2, <1>3, BlockWalked DEF TranslateTerminator, Assert
<1>6. /\ ExitTaken(Position) /\ Position[1] = at /\ Stored(m) /\ input \in Inputs(body)
  BY <1>1, <1>2, ExitReached
<1>7. /\ Reaches(t.otherwise, m) /\ Has(m, w.condition)
      /\ OpDen(m, w.condition, input) = Truth(Expected(v))
  BY <1>1, <1>5, <1>6 DEF ExitTaken
<1>8. Bits(t.discr) BY <1>4 DEF OperandTyped, Bits
<1>9. Meets(t.discr, w.condition) BY <1>4, <1>5, <1>8 DEF Meets
<1>10. ~(Read(t.discr) < 0) => Read(t.discr) = Truth(Expected(v))
  BY <1>6, <1>7, <1>9, OperandFollows
<1>11. v \in {0, 1} BY <1>1, <1>4 DEF AssertShape
<1>12. Read(t.discr) # v BY <1>10, <1>11 DEF Truth, Expected
<1>13. {i \in DOMAIN t.branches : t.branches[i][1] = Read(t.discr)} = {}
  <2>1. DOMAIN t.branches = 1..1
    BY <1>1, <1>2, <1>3, <1>4, BlockWalked DEF AssertShape, TerminatorTyped
  <2> QED BY <1>1, <1>12, <2>1
<1>14. JumpTo(t.otherwise) BY <1>1, <1>13 DEF RustSwitch
<1>15. t.otherwise \in Reachable(function)
  BY <1>1, <1>2, <1>3, EdgeReached DEF Successors
<1> QED BY <1>1, <1>7, <1>14, <1>15, JumpFollows
-----------------------------------------------------------------------------
(* Every local of a function holds a value of its type.                    *)

\* A value of a type is still one when it is cut to its width.
LEMMA TruncateKeeps ==
  ASSUME NEW ty, NEW x \in Values(ty)
  PROVE  Truncate(ty, x) \in Values(ty)
<1>1. x \in Int BY ValuesInt
<1>2. CASE ty \in Integer BY <1>1, <1>2, TruncateFits
<1>3. CASE ty \notin Integer
  <2>1. Truncate(ty, x) = x BY <1>3 DEF Truncate, Integer
  <2> QED BY <2>1
<1> QED BY <1>2, <1>3

\* What is read for an operand is a value of its type.
LEMMA ReadTyped ==
  ASSUME CallOK, function # None, NEW op, NEW ty, OperandTyped(function, op, ty), Held(op)
  PROVE  Read(op) \in Values(ty)
<1>1. CASE op.kind = "nat" BY <1>1 DEF OperandTyped, Read
<1>2. CASE op.kind = "bool"
  <2>1. ty = "bool" /\ op.of \in BOOLEAN BY <1>2 DEF OperandTyped
  <2>2. Read(op) = Truth(op.of) BY <1>2 DEF Read
  <2>3. Truth(op.of) \in {0, 1} BY DEF Truth
  <2>4. Values("bool") = {0, 1} BY DEF Values, Integer
  <2> QED BY <2>1, <2>2, <2>3, <2>4
<1>3. CASE op.kind \in {"local", "projection"}
  <2>1. RustType(function, op.of) = ty /\ op.of \in DOMAIN store
    BY <1>3 DEF OperandTyped, Held
  <2>2. TypeOf(op.of) = ty BY <2>1 DEF TypeOf, Program
  <2>3. Read(op) = store[op.of] BY <1>3 DEF Read
  <2> QED BY <2>1, <2>2, <2>3 DEF CallOK
<1> QED BY <1>1, <1>2, <1>3 DEF OperandTyped

\* What is stored is a value of the type of its place.
LEMMA ComputedTyped ==
  ASSUME CallOK, function # None, NEW rv, NEW ty, RvalueTyped(function, rv, ty),
         Held(rv.a), Held(rv.b)
  PROVE  Truncate(IF rv.op \in {"le", "lt"} THEN "bool" ELSE ty,
                  Computed(rv.op, Read(rv.a), Read(rv.b))) \in Values(ty)
<1>1. PICK x, y : x = Read(rv.a) /\ y = Read(rv.b) OBVIOUS
<1>2. CASE rv.op = "use"
  <2>1. x \in Values(ty) BY <1>1, <1>2, ReadTyped DEF RvalueTyped, BothTyped
  <2>2. Computed(rv.op, x, y) = x BY <1>2 DEF Computed, Apply
  <2> QED BY <1>1, <1>2, <2>1, <2>2, TruncateKeeps
<1>3. CASE rv.op \in {"add", "sub", "mul"}
  <2>1. ty \in Integer /\ x \in Values(ty) /\ y \in Values(ty)
    BY <1>1, <1>3, ReadTyped DEF RvalueTyped, BothTyped
  <2>2. x \in Int /\ y \in Int BY <2>1, ValuesInt
  <2>3. PICK z : z = Computed(rv.op, x, y) OBVIOUS
  <2>4. z \in Int
    <3>1. CASE rv.op = "add" BY <2>2, <2>3, <3>1 DEF Computed, Apply
    <3>2. CASE rv.op = "sub" BY <2>2, <2>3, <3>2 DEF Computed
    <3>3. CASE rv.op = "mul"
      <4>1. z = x * y BY <2>3, <3>3 DEF Computed, Apply
      <4> QED BY <2>2, <4>1
    <3> QED BY <1>3, <3>1, <3>2, <3>3
  <2>5. Truncate(ty, z) \in Values(ty) BY <2>1, <2>4, TruncateFits
  <2> QED BY <1>1, <1>3, <2>3, <2>5
<1>4. CASE rv.op \in {"le", "lt"}
  <2>1. ty = "bool" BY <1>4 DEF RvalueTyped
  <2>2. Computed(rv.op, x, y) \in {0, 1} BY <1>4 DEF Computed, Apply, Truth
  <2>3. Truncate("bool", Computed(rv.op, x, y)) = Computed(rv.op, x, y) BY DEF Truncate, Integer
  <2>4. Values("bool") = {0, 1} BY DEF Values, Integer
  <2> QED BY <1>1, <1>4, <2>1, <2>2, <2>3, <2>4
<1> QED BY <1>2, <1>3, <1>4 DEF RvalueTyped

\* An assignment of a function rustc accepts.
LEMMA StoreTyped ==
  ASSUME WalkedOK, CallOK, function # None, Running, AtKind("assign"),
         NEW s, s = Here.statements[ip], Held(s.rvalue.a), Held(s.rvalue.b), Store(s)
  PROVE  \A l \in DOMAIN store' : store'[l] \in Values(TypeOf(l))
<1>1. FunctionTyped(function) BY FunctionsAssumption DEF WalkedOK
<1>2. Program = function BY DEF Program
<1>3. at \in DOMAIN function.blocks /\ Here = function.blocks[at] BY <1>2 DEF Running, Here
<1>4. PICK ss : ss = Here.statements OBVIOUS
<1>5. Len(ss) \in Nat /\ DOMAIN ss = 1..Len(ss) BY <1>1, <1>3, <1>4 DEF FunctionTyped
<1>6. ip \in DOMAIN ss /\ s.kind = "assign" BY <1>4, <1>5 DEF AtKind, CallOK
<1>7. RvalueTyped(function, s.rvalue, RustType(function, s.place))
  BY <1>1, <1>3, <1>4, <1>6 DEF FunctionTyped
<1>8. PICK ty, value :
        /\ ty = TypeOf(s.place)
        /\ value = Truncate(WidthOf(s), Computed(s.rvalue.op, Read(s.rvalue.a), Read(s.rvalue.b)))
  OBVIOUS
<1>9. value \in Values(ty) BY <1>2, <1>7, <1>8, ComputedTyped DEF WidthOf, TypeOf
<1>10. store' = [l \in DOMAIN store \cup {s.place} |-> IF l = s.place THEN value ELSE store[l]]
  BY <1>8 DEF Store
<1>11. \A l \in DOMAIN store : store[l] \in Values(TypeOf(l)) BY DEF CallOK
<1> QED BY <1>8, <1>9, <1>10, <1>11

\* A call stores its arguments.
LEMMA ArgumentsTyped ==
  ASSUME NEW v \in Arguments, CallWith(v)
  PROVE  \A l \in DOMAIN store' : store'[l] \in Values(TypeOf(l))
<1> DEFINE arg(l) == CHOOSE k \in DOMAIN v : Program.args[k] = l
<1>1. store' = [l \in {Program.args[k] : k \in DOMAIN v} |-> v[arg(l)]] BY DEF CallWith
<1>2. DOMAIN v = DOMAIN Program.args
      /\ \A k \in DOMAIN v : v[k] \in Values(TypeOf(Program.args[k]))
  BY DEF Arguments
<1>3. \A l : (\E k \in DOMAIN v : Program.args[k] = l)
             => arg(l) \in DOMAIN v /\ Program.args[arg(l)] = l
  OBVIOUS
<1> HIDE DEF arg
<1>4. ASSUME NEW l \in DOMAIN store' PROVE store'[l] \in Values(TypeOf(l))
  <2>1. \E k \in DOMAIN v : Program.args[k] = l BY <1>1, <1>4
  <2>2. store'[l] = v[arg(l)] BY <1>1, <1>4
  <2>3. arg(l) \in DOMAIN v /\ Program.args[arg(l)] = l BY <1>3, <2>1
  <2> QED BY <1>2, <2>2, <2>3
<1> QED BY <1>4

\* A step of a call keeps what is known of it.
LEMMA CallingCallOK ==
  ASSUME WalkedOK, ExtractOK, CallOK, Calling
  PROVE  CallOK'
<1>1. UNCHANGED <<function, body, status>> BY DEF Calling, ingestVars, vars
<1>2. \A l : TypeOf(l)' = TypeOf(l) BY <1>1 DEF TypeOf, Program
<1>3. status \notin {"ingesting", "running"} BY DEF Calling, Answered, ExtractOK
<1>4. SUFFICES /\ outcome' \in {"running", "returned", "panicked", "undefined"}
               /\ ip' \in Nat \ {0}
               /\ function # None => \A l \in DOMAIN store' : store'[l] \in Values(TypeOf(l))
  BY <1>1, <1>2, <1>3 DEF CallOK
<1>5. ip \in Nat \ {0} /\ (function # None => \A l \in DOMAIN store : store[l] \in Values(TypeOf(l)))
  BY DEF CallOK
<1>6. ASSUME NEW v \in Arguments, CallWith(v)
      PROVE  /\ outcome' = "running" /\ ip' = ip
             /\ \A l \in DOMAIN store' : store'[l] \in Values(TypeOf(l))
  BY <1>6, ArgumentsTyped DEF CallWith
<1>7. ASSUME NEW r \in {"undefined", "returned", "panicked"}, Finish(r)
      PROVE  outcome' = r /\ ip' = ip /\ store' = store
  BY <1>7 DEF Finish
<1>8. ASSUME NEW t, JumpTo(t), outcome = "running"
      PROVE  outcome' = "running" /\ ip' = 1 /\ store' = store
  BY <1>8 DEF JumpTo
<1>9. ASSUME Advance, outcome = "running"
      PROVE  outcome' = "running" /\ ip' = ip + 1
  BY <1>9 DEF Advance
<1>10. ASSUME RustAssign
       PROVE  \/ \E r \in {"undefined", "returned", "panicked"} : Finish(r)
              \/ /\ Advance /\ outcome = "running"
                 /\ function # None => \A l \in DOMAIN store' : store'[l] \in Values(TypeOf(l))
  <2>1. PICK s : s = Here.statements[ip] OBVIOUS
  <2>2. Running /\ AtKind("assign") BY <1>10 DEF RustAssign
  <2>3. CASE Held(s.rvalue.a) /\ Held(s.rvalue.b)
    <3>1. Store(s) /\ Advance BY <1>10, <2>1, <2>3 DEF RustAssign
    <3> QED BY <2>1, <2>2, <2>3, <3>1, StoreTyped DEF Running
  <2>4. CASE ~(Held(s.rvalue.a) /\ Held(s.rvalue.b))
    BY <1>10, <2>1, <2>4 DEF RustAssign
  <2> QED BY <2>3, <2>4
<1>11. ASSUME RustStep, ~RustAssign
       PROVE  \/ \E r \in {"undefined", "returned", "panicked"} : Finish(r)
              \/ outcome = "running" /\ \E t : JumpTo(t)
              \/ outcome = "running" /\ Advance /\ store' = store
  BY <1>11, Zenon DEF RustStep, RustSkip, RustUnsafe, RustGoto, RustReturn, RustPanic, RustAssert,
     RustSwitch, RustNowhere, Running
<1> QED BY <1>5, <1>6, <1>7, <1>8, <1>9, <1>10, <1>11 DEF Calling

\* A value that left the naturals is remembered.
LEMMA BeyondStays == RustStep /\ ~beyond' => ~beyond
<1> SUFFICES ASSUME RustStep, ~beyond' PROVE ~beyond OBVIOUS
<1>1. CASE RustAssign
  <2>1. PICK s : s = Here.statements[ip] OBVIOUS
  <2>2. Store(s) \/ Finish("undefined") BY <1>1, <2>1 DEF RustAssign
  <2> QED BY <2>2 DEF Store, Finish
<1>2. CASE RustStep /\ ~RustAssign
  BY <1>2, Zenon DEF RustStep, RustSkip, RustUnsafe, RustGoto, RustReturn, RustPanic, RustAssert,
     RustSwitch, RustNowhere, Finish, JumpTo
<1> QED BY <1>1, <1>2

\* A step of a call goes where the walk did.
LEMMA StepFollows ==
  ASSUME WalkedOK, CallOK, FollowInv, Verified, RustStep, ~beyond',
         UNCHANGED <<ingestVars, historyVars>>
  PROVE  Follows' \/ Undone'
<1>1. outcome = "running"
  BY Zenon DEF RustStep, RustAssign, RustSkip, RustUnsafe, RustGoto, RustReturn, RustPanic,
     RustAssert, RustSwitch, RustNowhere, Running
<1>2. Standing BY <1>1, BeyondStays DEF FollowInv, Standing, Undone
<1>3. ~RustNowhere BY <1>2 DEF RustNowhere, Standing, Follows
<1> QED
  BY <1>2, <1>3, AssignFollows, SkipFollows, UnsafeFollows, GotoFollows, ReturnFollows, NoCall,
     AssertFollows, SwitchFollows DEF RustStep

\* A call, and every step of it, keeps the invariant.
LEMMA CallingKeeps ==
  ASSUME BridgeInv, Calling
  PROVE  BridgeInv'
<1>1. UNCHANGED <<ingestVars, extractVars, historyVars>> BY DEF Calling
<1>2. WalkedOK /\ ExtractOK /\ CallOK /\ FollowInv BY DEF BridgeInv
<1>3. WalkedOK' /\ ExtractOK' /\ CallOK' BY <1>1, <1>2, WalkedKept, ExtractKept, CallingCallOK
<1>4. Verified' <=> Verified BY <1>1 DEF Verified, ingestVars, vars, historyVars
<1>5. ASSUME Verified, ~beyond' PROVE Follows' \/ Undone'
  <2>1. CASE \E v \in Arguments : CallWith(v)
    BY <1>1, <1>2, <1>5, <2>1, CallFollows
  <2>2. CASE RustStep
    BY <1>1, <1>2, <1>5, <2>2, StepFollows
  <2> QED BY <2>1, <2>2 DEF Calling
<1> QED BY <1>3, <1>4, <1>5 DEF BridgeInv, FollowInv

\* Every step keeps the invariant.
LEMMA BridgeKeeps == BridgeInv /\ [BridgeNext]_bridgeVars => BridgeInv'
<1> SUFFICES ASSUME BridgeInv, [BridgeNext]_bridgeVars PROVE BridgeInv' OBVIOUS
<1>1. WalkedOK /\ ExtractOK /\ CallOK /\ FollowInv BY DEF BridgeInv
<1>2. CASE Verifying
  BY <1>1, <1>2, VerifyingKeeps, VerifyingWaits DEF Verifying, BridgeInv
<1>3. CASE Extracting
  BY <1>1, <1>3, WalkedKept, ExtractStepKeeps, CallKept DEF Extracting, BridgeInv
<1>4. CASE Calling
  BY <1>4, CallingKeeps
<1>5. CASE UNCHANGED bridgeVars
  BY <1>1, <1>5, WalkedKept, ExtractKept, CallKept DEF bridgeVars, BridgeInv
<1> QED BY <1>2, <1>3, <1>4, <1>5 DEF BridgeNext

\* The invariant holds in every behaviour.
LEMMA BridgeInvariant == BridgeSpec => []BridgeInv
BY BridgeStarts, BridgeKeeps, PTL DEF BridgeSpec
-----------------------------------------------------------------------------
\* Type correctness: the walks mark what they visit, one block at most waits for
\* extraction, and in a function rustc accepted every local holds a value of its
\* type whatever was run, wrapped or not (translate_body, body_to_rust_source).
THEOREM BridgeTypeCorrect == BridgeSpec => []BridgeTypeOK
<1>1. BridgeInv => BridgeTypeOK
  <2> SUFFICES ASSUME BridgeInv PROVE BridgeTypeOK OBVIOUS
  <2>1. WalkedOK /\ ExtractOK /\ CallOK BY DEF BridgeInv
  <2>2. Len(exStack) <= 1
    <3>1. CASE exStack = <<>> BY <3>1
    <3>2. CASE exStack = <<exStack[1]>>
      <4>1. PICK b : exStack = <<b>> BY <3>2
      <4> QED BY <4>1
    <3> QED BY <2>1, <3>1, <3>2 DEF ExtractOK
  <2> QED BY <2>1, <2>2 DEF BridgeTypeOK, WalkedOK, ExtractOK, CallOK
<1> QED BY <1>1, BridgeInvariant, PTL

\* What verification is worth on compiled code: a function whose obligations the
\* solver discharged panics, reads a local without a value or goes where the
\* translation put an empty block only in a run in which some value was negative
\* or some operation wrapped, for every function rustc accepts, every body, every
\* argument and every width (translate_terminator, reachable_blocks, verify_body).
THEOREM IngestionSound == BridgeSpec => []AstrayOnlyBeyond
<1>1. Discharged => Verified /\ AllAuto
  BY DEF Discharged, Proved, StraightLine, Verified, AllAuto
<1>2. BridgeInv => AstrayOnlyBeyond
  BY <1>1 DEF BridgeInv, CallOK, FollowInv, Follows, Undone, AstrayOnlyBeyond
<1> QED BY <1>2, BridgeInvariant, PTL
-----------------------------------------------------------------------------
(* The lines of a source.                                                  *)

\* Sequences laid end to end.
LEMMA Joined ==
  ASSUME NEW S, NEW s \in Seq(S), NEW t \in Seq(S)
  PROVE  /\ s \o t \in Seq(S) /\ Len(s \o t) = Len(s) + Len(t)
         /\ \A k \in 1..Len(s) : (s \o t)[k] = s[k]
         /\ \A k \in 1..Len(t) : (s \o t)[Len(s) + k] = t[k]
OBVIOUS

FlattensTo(ps, n, g) == g = [i \in 1..n |-> IF i = 1 THEN ps[i] ELSE g[i - 1] \o ps[i]]

\* The first n parts of a sequence of sequences can be laid end to end.
LEMMA PartsFlatten ==
  ASSUME NEW ps, Len(ps) \in Nat
  PROVE  \A n \in 1..Len(ps) : \E g : FlattensTo(ps, n, g)
<1> DEFINE T == {n \in 1..Len(ps) : ~ \E g : FlattensTo(ps, n, g)}
<1>1. SUFFICES ASSUME T # {} PROVE FALSE
  OBVIOUS
<1>2. PICK n \in T : \A y \in T : n <= y
  <2>1. T \in SUBSET Nat
    OBVIOUS
  <2> HIDE DEF T
  <2> QED BY <1>1, <2>1, LeastNat
<1>3. n # 1
  <2> DEFINE g == [i \in 1..1 |-> ps[1]]
  <2>1. g = [i \in 1..1 |-> IF i = 1 THEN ps[i] ELSE g[i - 1] \o ps[i]] OBVIOUS
  <2>2. FlattensTo(ps, 1, g) BY <2>1 DEF FlattensTo
  <2> QED BY <1>2, <2>2
<1>4. n \in 2..Len(ps) /\ n - 1 \in 1..Len(ps) /\ n - 1 \notin T
  BY <1>2, <1>3
<1>5. PICK g : FlattensTo(ps, n - 1, g)
  BY <1>4
<1>6. PICK last : last = g[n - 1] \o ps[n] OBVIOUS
<1> DEFINE f == [i \in 1..n |-> IF i = n THEN last ELSE g[i]]
<1>7. ASSUME NEW i \in 1..n PROVE f[i] = IF i = 1 THEN ps[i] ELSE f[i - 1] \o ps[i]
  <2>1. i # 1 => i - 1 \in 1..(n - 1) /\ f[i - 1] = g[i - 1] BY <1>4
  <2>2. CASE i = n BY <1>3, <1>6, <2>1, <2>2
  <2>3. CASE i # n
    <3>1. i \in 1..(n - 1) BY <1>4, <2>3
    <3>2. g[i] = IF i = 1 THEN ps[i] ELSE g[i - 1] \o ps[i] BY <1>5, <3>1 DEF FlattensTo
    <3> QED BY <2>1, <2>3, <3>2
  <2> QED BY <2>2, <2>3
<1>8. FlattensTo(ps, n, f)
  <2>1. f = [i \in 1..n |-> f[i]] OBVIOUS
  <2> HIDE DEF f
  <2> QED BY <1>7, <2>1 DEF FlattensTo
<1> QED BY <1>2, <1>8

\* Sequences laid end to end, one after the other.
LEMMA FlattenIs ==
  ASSUME NEW ps, Len(ps) \in Nat, Len(ps) # 0
  PROVE  \E g : /\ g[1] = ps[1] /\ \A i \in 2..Len(ps) : g[i] = g[i - 1] \o ps[i]
                /\ SX!FlattenSeq(ps) = g[Len(ps)]
<1> DEFINE Step(h) == [i \in 1..Len(ps) |-> IF i = 1 THEN ps[i] ELSE h[i - 1] \o ps[i]]
<1>1. \E f : f = Step(f)
  <2>1. PICK n : n = Len(ps) OBVIOUS
  <2>2. n \in 1..Len(ps) BY <2>1
  <2>3. PICK u : FlattensTo(ps, n, u) BY <2>2, PartsFlatten
  <2> QED BY <2>1, <2>3 DEF FlattensTo
<1>2. PICK g : g = CHOOSE f : f = Step(f) OBVIOUS
<1>3. g = Step(g) BY <1>1, <1>2
<1>4. SX!FlattenSeq(ps) = g[Len(ps)] BY <1>2 DEF SX!FlattenSeq
<1>5. \A i \in 1..Len(ps) : g[i] = IF i = 1 THEN ps[i] ELSE g[i - 1] \o ps[i] BY <1>3
<1>6. 1 \in 1..Len(ps) /\ \A i \in 2..Len(ps) : i \in 1..Len(ps) /\ i # 1 OBVIOUS
<1>7. g[1] = ps[1] /\ \A i \in 2..Len(ps) : g[i] = g[i - 1] \o ps[i] BY <1>5, <1>6, Zenon
<1> QED BY <1>4, <1>7

\* Sequences of one element each, laid end to end, are the sequence of those.
LEMMA FlattenSingles ==
  ASSUME NEW n \in Nat, NEW e
  PROVE  SX!FlattenSeq([i \in 1..n |-> <<e[i]>>]) = [i \in 1..n |-> e[i]]
<1>1. PICK ps : ps = [i \in 1..n |-> <<e[i]>>] OBVIOUS
<1>2. Len(ps) = n /\ \A i \in 1..n : ps[i] = <<e[i]>> BY <1>1
<1>3. CASE n = 0
  <2>1. ps = [i \in 1..n |-> e[i]] BY <1>1, <1>3
  <2> QED BY <1>1, <1>2, <1>3, <2>1 DEF SX!FlattenSeq
<1>4. CASE n # 0
  <2>1. PICK g : /\ g[1] = ps[1] /\ \A i \in 2..n : g[i] = g[i - 1] \o ps[i]
                 /\ SX!FlattenSeq(ps) = g[n]
    BY <1>2, <1>4, FlattenIs
  <2> DEFINE T == {i \in 1..n : g[i] # [k \in 1..i |-> e[k]]}
  <2>2. T = {}
    <3>1. SUFFICES ASSUME T # {} PROVE FALSE OBVIOUS
    <3>2. PICK i \in T : \A y \in T : i <= y
      <4>1. T \in SUBSET Nat OBVIOUS
      <4> HIDE DEF T
      <4> QED BY <3>1, <4>1, LeastNat
    <3>3. CASE i = 1
      <4>1. [k \in 1..1 |-> e[k]] = <<e[1]>>
        <5>1. \A k \in 1..1 : k = 1 OBVIOUS
        <5> QED BY <5>1
      <4> QED BY <1>2, <2>1, <3>2, <3>3, <4>1
    <3>4. CASE i # 1
      <4>1. PICK j : j = i - 1 OBVIOUS
      <4>2. j \in 1..n /\ j \in Nat /\ i = j + 1 /\ i \in 2..n /\ ~(i <= j) BY <3>2, <3>4, <4>1
      <4>3. g[j] = [k \in 1..j |-> e[k]] BY <3>2, <4>2
      <4>4. [k \in 1..j |-> e[k]] \o <<e[j + 1]>> = [k \in 1..(j + 1) |-> e[k]] BY <4>2
      <4>5. g[i] = g[j] \o <<e[i]>> BY <1>2, <2>1, <3>2, <4>1, <4>2
      <4>6. g[i] = [k \in 1..i |-> e[k]] BY <4>2, <4>3, <4>4, <4>5
      <4> QED BY <3>2, <4>6
    <3> QED BY <3>3, <3>4
  <2>3. n \in 1..n BY <1>4
  <2> QED BY <1>1, <2>1, <2>2, <2>3
<1> QED BY <1>3, <1>4

RunsTo(start, lines, n, u) == u = [i \in 0..n |-> RunTo(start, lines, i, u)]

\* The first n lines can be run, for every n: there is no least n for which they
\* cannot.
LEMMA LinesRun ==
  ASSUME NEW start, NEW lines, Len(lines) \in Nat
  PROVE  \A n \in 0..Len(lines) : \E u : RunsTo(start, lines, n, u)
<1> DEFINE T == {n \in 0..Len(lines) : ~ \E u : RunsTo(start, lines, n, u)}
<1>1. SUFFICES ASSUME T # {} PROVE FALSE
  OBVIOUS
<1>2. PICK n \in T : \A y \in T : n <= y
  <2>1. T \in SUBSET Nat
    OBVIOUS
  <2> HIDE DEF T
  <2> QED BY <1>1, <2>1, LeastNat
<1>3. n # 0
  <2> DEFINE u == [i \in 0..0 |-> start]
  <2>1. u = [i \in 0..0 |-> RunTo(start, lines, i, u)] BY DEF RunTo
  <2>2. RunsTo(start, lines, 0, u) BY <2>1 DEF RunsTo
  <2> QED BY <1>2, <2>2
<1>4. n \in 1..Len(lines) /\ n - 1 \in 0..Len(lines) /\ n - 1 \notin T
  BY <1>2, <1>3
<1>5. PICK u : RunsTo(start, lines, n - 1, u)
  BY <1>4
<1> DEFINE f == [i \in 0..n |-> IF i = n THEN RunTo(start, lines, n, u) ELSE u[i]]
<1>6. ASSUME NEW i \in 0..n PROVE f[i] = RunTo(start, lines, i, f)
  <2>1. i # 0 => i - 1 \in 0..(n - 1) /\ f[i - 1] = u[i - 1] BY <1>4
  <2>2. RunTo(start, lines, i, f) = RunTo(start, lines, i, u) BY <2>1 DEF RunTo
  <2>3. CASE i = n BY <2>2, <2>3
  <2>4. CASE i # n
    <3>1. i \in 0..(n - 1) BY <1>4, <2>4
    <3>2. u[i] = RunTo(start, lines, i, u) BY <1>5, <3>1 DEF RunsTo
    <3> QED BY <2>2, <2>4, <3>2
  <2> QED BY <2>3, <2>4
<1>7. RunsTo(start, lines, n, f)
  <2>1. f = [i \in 0..n |-> f[i]] OBVIOUS
  <2> HIDE DEF f
  <2> QED BY <1>6, <2>1 DEF RunsTo
<1> QED BY <1>2, <1>7

\* The state after each line is that of the line before, run one line further.
LEMMA RunUpToIs ==
  ASSUME NEW start, NEW lines, Len(lines) \in Nat
  PROVE  /\ RunUpTo(start, lines)[0] = start
         /\ \A i \in 1..Len(lines) :
              RunUpTo(start, lines)[i] = AfterLine(RunUpTo(start, lines)[i - 1], lines[i])
<1>1. PICK u : RunsTo(start, lines, Len(lines), u)
  <2>1. PICK n : n = Len(lines) OBVIOUS
  <2>2. n \in 0..Len(lines) BY <2>1
  <2> QED BY <2>1, <2>2, LinesRun
<1>2. u = [i \in 0..Len(lines) |-> RunTo(start, lines, i, u)] BY <1>1 DEF RunsTo
<1>3. RunUpTo(start, lines) = [i \in 0..Len(lines) |-> RunTo(start, lines, i, RunUpTo(start, lines))]
  BY <1>2 DEF RunUpTo
<1>4. PICK U : U = RunUpTo(start, lines) OBVIOUS
<1>5. U = [i \in 0..Len(lines) |-> RunTo(start, lines, i, U)] BY <1>3, <1>4
<1>6. \A i \in 0..Len(lines) : U[i] = RunTo(start, lines, i, U) BY <1>5
<1>7. U[0] = start /\ \A i \in 1..Len(lines) : U[i] = AfterLine(U[i - 1], lines[i])
  <2>1. 0 \in 0..Len(lines) /\ \A i \in 1..Len(lines) : i \in 0..Len(lines) /\ i # 0 OBVIOUS
  <2> QED BY <1>6, <2>1, Zenon DEF RunTo
<1> QED BY <1>4, <1>7

\* Lines that are added do not change what the lines before them do.
LEMMA RunPrefix ==
  ASSUME NEW start, NEW lines, NEW more, Len(lines) \in Nat, Len(more) \in Nat, Begins(lines, more)
  PROVE  RunUpTo(start, more)[Len(lines)] = RunLines(start, lines)
<1> DEFINE T == {i \in 0..Len(lines) : RunUpTo(start, more)[i] # RunUpTo(start, lines)[i]}
<1>1. T = {}
  <2>1. SUFFICES ASSUME T # {} PROVE FALSE OBVIOUS
  <2>2. PICK i \in T : \A y \in T : i <= y
    <3>1. T \in SUBSET Nat OBVIOUS
    <3> HIDE DEF T
    <3> QED BY <2>1, <3>1, LeastNat
  <2>3. i # 0 BY RunUpToIs
  <2>4. /\ i \in 1..Len(lines) /\ i \in 1..Len(more) /\ i - 1 \in 0..Len(lines) /\ ~(i <= i - 1)
        /\ more[i] = lines[i]
    BY <2>3 DEF Begins
  <2>5. RunUpTo(start, more)[i - 1] = RunUpTo(start, lines)[i - 1] BY <2>2, <2>4
  <2>6. RunUpTo(start, more)[i] = RunUpTo(start, lines)[i] BY <2>4, <2>5, RunUpToIs
  <2> QED BY <2>6
<1>2. Len(lines) \in 0..Len(lines) OBVIOUS
<1> QED BY <1>1, <1>2 DEF RunLines

\* Lines laid end to end are run one after the other.
LEMMA RunJoined ==
  ASSUME NEW start, NEW R, NEW u \in Seq(R), NEW w \in Seq(R)
  PROVE  RunLines(start, u \o w) = RunLines(RunLines(start, u), w)
<1>1. PICK o, n, all, mid :
        o = Len(u) /\ n = Len(w) /\ all = u \o w /\ mid = RunLines(start, u)
  OBVIOUS
<1>2. /\ o \in Nat /\ n \in Nat /\ Len(all) = o + n
      /\ \A k \in 1..o : all[k] = u[k]
      /\ \A k \in 1..n : all[o + k] = w[k]
  BY <1>1, Joined
<1>3. PICK U, V : U = RunUpTo(start, all) /\ V = RunUpTo(mid, w) OBVIOUS
<1>4. \A i \in 1..(o + n) : U[i] = AfterLine(U[i - 1], all[i])
  <2>1. Len(all) \in Nat BY <1>2
  <2>2. \A i \in 1..Len(all) : U[i] = AfterLine(U[i - 1], all[i]) BY <1>3, <2>1, RunUpToIs
  <2> QED BY <1>2, <2>2
<1>5. V[0] = mid /\ \A i \in 1..n : V[i] = AfterLine(V[i - 1], w[i])
  <2>1. Len(w) \in Nat BY <1>1, <1>2
  <2> QED BY <1>1, <1>3, <2>1, RunUpToIs
<1>6. U[o] = mid
  <2>1. Begins(u, all) BY <1>1, <1>2 DEF Begins
  <2>2. Len(u) \in Nat /\ Len(all) \in Nat BY <1>1, <1>2
  <2> QED BY <1>1, <1>3, <2>1, <2>2, RunPrefix
<1> DEFINE T == {j \in 0..n : U[o + j] # V[j]}
<1>7. T = {}
  <2>1. SUFFICES ASSUME T # {} PROVE FALSE OBVIOUS
  <2>2. PICK j \in T : \A y \in T : j <= y
    <3>1. T \in SUBSET Nat OBVIOUS
    <3> HIDE DEF T
    <3> QED BY <2>1, <3>1, LeastNat
  <2>3. j # 0
    <3>1. o + 0 = o BY <1>2
    <3> QED BY <1>5, <1>6, <2>2, <3>1
  <2>4. PICK i : i = j - 1 OBVIOUS
  <2>5. j \in 1..n /\ i \in 0..n /\ ~(j <= i) /\ o + j \in 1..(o + n) /\ (o + j) - 1 = o + i
    BY <1>2, <2>2, <2>3, <2>4
  <2>6. U[o + i] = V[i] BY <2>2, <2>5
  <2>7. U[o + j] = AfterLine(U[o + i], w[j]) BY <1>2, <1>4, <2>5
  <2>8. V[j] = AfterLine(V[i], w[j]) BY <1>5, <2>4, <2>5
  <2> QED BY <2>2, <2>6, <2>7, <2>8
<1>8. U[o + n] = V[n]
  <2>1. n \in 0..n BY <1>2
  <2> QED BY <1>7, <2>1
<1> QED BY <1>1, <1>2, <1>3, <1>8 DEF RunLines

\* No line does nothing, and one line what it does.
LEMMA RunFew ==
  ASSUME NEW start
  PROVE  /\ RunLines(start, <<>>) = start
         /\ \A x : RunLines(start, <<x>>) = AfterLine(start, x)
<1>1. RunLines(start, <<>>) = start
  <2>1. Len(<<>>) = 0 OBVIOUS
  <2> QED BY <2>1, RunUpToIs DEF RunLines
<1>2. ASSUME NEW x PROVE RunLines(start, <<x>>) = AfterLine(start, x)
  <2>1. PICK w : w = <<x>> OBVIOUS
  <2>2. Len(w) = 1 /\ w[1] = x BY <2>1
  <2>3. 1 \in 1..Len(w) /\ 1 - 1 = 0 BY <2>2
  <2>4. /\ RunUpTo(start, w)[0] = start
        /\ RunUpTo(start, w)[1] = AfterLine(RunUpTo(start, w)[1 - 1], w[1])
    BY <2>2, <2>3, RunUpToIs
  <2> QED BY <2>1, <2>2, <2>3, <2>4 DEF RunLines
<1> QED BY <1>1, <1>2

\* s is the state after each of the n parts.
PartsRun(start, ps, n, s) ==
  /\ s[0] = start /\ \A i \in 1..n : s[i] = RunLines(s[i - 1], ps[i])
  /\ RunLines(start, SX!FlattenSeq(ps)) = s[n]

\* The parts of a source are run one after the other.
LEMMA RunFlattened ==
  ASSUME NEW start, NEW R, NEW n \in Nat, NEW ps, ps = [i \in 1..n |-> ps[i]],
         \A i \in 1..n : ps[i] \in Seq(R)
  PROVE  SX!FlattenSeq(ps) \in Seq(R) /\ \E s : PartsRun(start, ps, n, s)
<1>1. Len(ps) = n OBVIOUS
<1>2. CASE n = 0
  <2>1. SX!FlattenSeq(ps) = ps BY <1>1, <1>2 DEF SX!FlattenSeq
  <2>2. ps = <<>> BY <1>2
  <2>3. <<>> \in Seq(R) OBVIOUS
  <2>4. PICK s : s = [i \in 0..0 |-> start] OBVIOUS
  <2>5. s[0] = start BY <2>4
  <2>6. \A i \in 1..n : FALSE BY <1>2
  <2>7. RunLines(start, <<>>) = start BY RunFew
  <2> QED BY <1>2, <2>1, <2>2, <2>3, <2>5, <2>6, <2>7 DEF PartsRun
<1>3. CASE n # 0
  <2>1. PICK g : /\ g[1] = ps[1] /\ \A i \in 2..n : g[i] = g[i - 1] \o ps[i]
                 /\ SX!FlattenSeq(ps) = g[n]
    BY <1>1, <1>3, FlattenIs
  <2> DEFINE T == {i \in 1..n : g[i] \notin Seq(R)}
  <2>2. T = {}
    <3>1. SUFFICES ASSUME T # {} PROVE FALSE OBVIOUS
    <3>2. PICK i \in T : \A y \in T : i <= y
      <4>1. T \in SUBSET Nat OBVIOUS
      <4> HIDE DEF T
      <4> QED BY <3>1, <4>1, LeastNat
    <3>3. i # 1 BY <2>1, <3>2
    <3>4. PICK j : j = i - 1 OBVIOUS
    <3>5. j \in 1..n /\ i \in 2..n /\ ~(i <= j) BY <3>2, <3>3, <3>4
    <3>6. g[j] \in Seq(R) /\ g[i] = g[j] \o ps[i] /\ ps[i] \in Seq(R) BY <2>1, <3>2, <3>4, <3>5
    <3>7. g[i] \in Seq(R) BY <3>6, Joined
    <3> QED BY <3>2, <3>7
  <2>3. \A i \in 1..n : g[i] \in Seq(R) BY <2>2
  <2> HIDE DEF T
  <2>4. PICK s : s = [i \in 0..n |-> IF i = 0 THEN start ELSE RunLines(start, g[i])] OBVIOUS
  <2>5. s[0] = start /\ \A i \in 1..n : s[i] = RunLines(start, g[i]) BY <2>4
  <2>6. ASSUME NEW i \in 1..n PROVE s[i] = RunLines(s[i - 1], ps[i])
    <3>1. CASE i = 1
      <4>1. i - 1 = 0 BY <3>1
      <4> QED BY <2>1, <2>5, <3>1, <4>1
    <3>2. CASE i # 1
      <4>1. PICK j : j = i - 1 OBVIOUS
      <4>2. j \in 1..n /\ i \in 2..n BY <3>2, <4>1
      <4>3. g[i] = g[j] \o ps[i] /\ g[j] \in Seq(R) /\ ps[i] \in Seq(R) BY <2>1, <2>3, <4>1, <4>2
      <4>4. RunLines(start, g[i]) = RunLines(RunLines(start, g[j]), ps[i]) BY <4>3, RunJoined
      <4> QED BY <2>5, <4>1, <4>2, <4>4
    <3> QED BY <3>1, <3>2
  <2>7. n \in 1..n BY <1>3
  <2>8. PartsRun(start, ps, n, s) BY <2>1, <2>5, <2>6, <2>7 DEF PartsRun
  <2> QED BY <2>1, <2>3, <2>7, <2>8
<1> QED BY <1>2, <1>3

-----------------------------------------------------------------------------
(* What a line does. A scope of the printed function holds the variables   *)
(* of the locals; what an unsafe block assigned is lost when it ends.      *)

\* A name declared in the only scope means what that scope says.
LEMMA OneScope ==
  ASSUME NEW sc, NEW x \in DOMAIN sc
  PROVE  InScope(<<sc>>, x) /\ Innermost(<<sc>>, x) = sc[x]
<1>1. PICK scopes : scopes = <<sc>> OBVIOUS
<1>2. DOMAIN scopes = {1} /\ Len(scopes) = 1 /\ scopes[1] = sc BY <1>1
<1>3. PICK i : i = CHOOSE j \in DOMAIN scopes :
                     x \in DOMAIN scopes[j] /\ \A k \in (j + 1)..Len(scopes) : x \notin DOMAIN scopes[k]
  OBVIOUS
<1>4. \A k : k \notin 2..1 OBVIOUS
<1>5. x \in DOMAIN scopes[1] /\ \A k \in (1 + 1)..Len(scopes) : x \notin DOMAIN scopes[k]
  BY <1>2, <1>4
<1>6. i = 1 BY <1>2, <1>3, <1>5
<1> QED BY <1>1, <1>2, <1>3, <1>6 DEF InScope, Innermost

\* The variables of a scope are the locals with a term in m that are not lost, each
\* under its name and with the value of its term on the arguments v.
ScopeAgrees(sc, m, v, lost) ==
  \A l \in DOMAIN m \ lost :
    SourceName(l) \in DOMAIN sc /\ sc[SourceName(l)].value = m[l].den[v]
\* A variable is that of a local of N, and has its type.
ScopeTyped(sc, N) ==
  \A x \in DOMAIN sc : \E l \in N : x = SourceName(l) /\ sc[x].ty = RustType(body, l)
AllTyped(w, N) == \A n \in DOMAIN w : ScopeTyped(w[n], N)
GoingWith(st, m, v, lost, N) ==
  \E sc : st = Going(<<sc>>) /\ ScopeAgrees(sc, m, v, lost) /\ ScopeTyped(sc, N)

\* The locals of N have distinct names.
Apart(N) == \A k, l \in N : SourceName(k) = SourceName(l) => k = l

\* The greatest member of a set of positions.
LEMMA GreatestPosition ==
  ASSUME NEW n \in Nat, NEW T \in SUBSET (1..n), T # {}
  PROVE  \E j \in T : \A k \in (j + 1)..n : k \notin T
<1> DEFINE R == {k \in 0..n : n - k \in T}
<1>1. R # {}
  <2>1. PICK j \in T : TRUE OBVIOUS
  <2>2. n - j \in 0..n /\ n - (n - j) = j OBVIOUS
  <2> QED BY <2>1, <2>2
<1>2. PICK r \in R : \A y \in R : r <= y
  <2>1. R \in SUBSET Nat OBVIOUS
  <2> HIDE DEF R
  <2> QED BY <1>1, <2>1, LeastNat
<1>3. PICK j : j = n - r OBVIOUS
<1>4. j \in T /\ r \in 0..n /\ j \in 1..n BY <1>2, <1>3
<1>5. ASSUME NEW k \in (j + 1)..n PROVE k \notin T
  <2>1. n - k \in 0..n /\ ~(r <= n - k) /\ n - (n - k) = k BY <1>3, <1>4
  <2> QED BY <1>2, <2>1
<1> QED BY <1>4, <1>5

\* A local of N that is in scope has its type there.
LEMMA InnermostTyped ==
  ASSUME NEW S, NEW w \in Seq(S), NEW N, AllTyped(w, N), Apart(N), NEW l \in N,
         InScope(w, SourceName(l))
  PROVE  Innermost(w, SourceName(l)).ty = RustType(body, l)
<1>1. PICK x, n : x = SourceName(l) /\ n = Len(w) OBVIOUS
<1>2. n \in Nat /\ DOMAIN w = 1..n BY <1>1
<1>3. PICK T : T = {j \in 1..n : x \in DOMAIN w[j]} OBVIOUS
<1>4. T # {} /\ T \in SUBSET (1..n) BY <1>1, <1>2, <1>3 DEF InScope
<1>5. \E j \in T : \A k \in (j + 1)..n : k \notin T BY <1>2, <1>4, GreatestPosition
<1>6. \E j \in DOMAIN w : x \in DOMAIN w[j] /\ \A k \in (j + 1)..Len(w) : x \notin DOMAIN w[k]
  <2>1. PICK j \in T : \A k \in (j + 1)..n : k \notin T BY <1>5
  <2>2. \A k \in (j + 1)..n : k \in 1..n BY <1>2, <1>3
  <2> QED BY <1>1, <1>2, <1>3, <2>1, <2>2
<1>7. PICK i : i = CHOOSE j \in DOMAIN w :
                     x \in DOMAIN w[j] /\ \A k \in (j + 1)..Len(w) : x \notin DOMAIN w[k]
  OBVIOUS
<1>8. i \in DOMAIN w /\ x \in DOMAIN w[i] BY <1>6, <1>7
<1>9. Innermost(w, x) = w[i][x] BY <1>7 DEF Innermost
<1>10. PICK k \in N : x = SourceName(k) /\ w[i][x].ty = RustType(body, k)
  BY <1>8 DEF AllTyped, ScopeTyped
<1>11. k = l BY <1>1, <1>10 DEF Apart
<1> QED BY <1>1, <1>9, <1>10, <1>11

\* An operand in scope has in the source the type it has in the body.
LEMMA OperandFits ==
  ASSUME NEW S, NEW w \in Seq(S), NEW N, AllTyped(w, N), Apart(N),
         NEW op, Operand(op), Reads(op) \subseteq N, NEW ty, OperandTyped(body, op, ty),
         \A x \in OperandNames(SourceOperand(op)) : InScope(w, x)
  PROVE  /\ OperandTyped(Typing(w), SourceOperand(op), ty)
         /\ op.kind = "local" => Innermost(w, SourceOperand(op).of).ty = ty
<1>1. CASE op.kind = "local"
  <2>1. PICK l, x, u : l = op.of /\ x = SourceName(l) /\ u = SourceOperand(op) OBVIOUS
  <2>2. l \in N /\ RustType(body, l) = ty BY <1>1, <2>1 DEF Reads, OperandTyped
  <2>3. u.kind = "local" /\ u.of = x BY <1>1, <2>1 DEF SourceOperand, Local
  <2>4. InScope(w, x) BY <2>1, <2>3 DEF OperandNames
  <2>5. Innermost(w, x).ty = ty BY <2>1, <2>2, <2>4, InnermostTyped
  <2>6. PICK D : D = UNION {DOMAIN w[i] : i \in DOMAIN w} OBVIOUS
  <2>7. x \in D BY <2>4, <2>6 DEF InScope
  <2>8. RustType(Typing(w), x) = ty BY <2>5, <2>6, <2>7 DEF RustType, Typing
  <2> QED BY <1>1, <2>1, <2>3, <2>5, <2>8 DEF OperandTyped
<1>2. CASE op.kind # "local"
  BY <1>2 DEF Operand, SourceOperand, OperandTyped
<1> QED BY <1>1, <1>2

\* An operand with a term, when it is not lost, is in scope and means what its
\* term denotes.
LEMMA OperandMeant ==
  ASSUME NEW sc, NEW m, NEW v, NEW lost, ScopeAgrees(sc, m, v, lost), NEW op, Operand(op),
         Has(m, op), Reads(op) \cap lost = {}
  PROVE  /\ \A x \in OperandNames(SourceOperand(op)) : InScope(<<sc>>, x)
         /\ Meant(SourceOperand(op), <<sc>>) = OpDen(m, op, v)
<1>1. CASE op.kind = "local"
  <2>1. PICK l : l = op.of OBVIOUS
  <2>2. l \in DOMAIN m \ lost BY <1>1, <2>1 DEF Has, Reads
  <2>3. SourceName(l) \in DOMAIN sc /\ sc[SourceName(l)].value = m[l].den[v]
    BY <2>2 DEF ScopeAgrees
  <2>4. PICK w : w = SourceOperand(op) OBVIOUS
  <2>5. w.kind = "local" /\ w.of = SourceName(l) BY <1>1, <2>1, <2>4 DEF SourceOperand, Local
  <2>6. InScope(<<sc>>, w.of) /\ Innermost(<<sc>>, w.of).value = m[l].den[v]
    BY <2>3, <2>5, OneScope
  <2> QED BY <1>1, <2>1, <2>4, <2>5, <2>6 DEF OperandNames, Meant, OpDen
<1>2. CASE op.kind # "local"
  BY <1>2 DEF Operand, SourceOperand, OperandNames, Meant, OpDen
<1> QED BY <1>1, <1>2

LetOf(s) == LetLine(SourceName(s.place), RustType(body, s.place), SourceRvalue(s.rvalue))
\* The assignment s, to a local of N, fits in the source.
StatementFits(s, N) ==
  /\ s.place \in N /\ SourceName(s.place) \notin Illegal /\ s.rvalue.op # "lt"
  /\ RvalueTyped(body, s.rvalue, RustType(body, s.place))
NamesIn(s, w) ==
  \A x \in OperandNames(SourceOperand(s.rvalue.a)) \cup OperandNames(SourceOperand(s.rvalue.b)) :
    InScope(w, x)

\* The `let` of an assignment that fits is accepted where what it reads is in scope,
\* and its variable has the type of its place.
LEMMA LetAccepted ==
  ASSUME NEW S, NEW w \in Seq(S), NEW N, AllTyped(w, N), Apart(N), NEW s, StatementFits(s, N),
         Operand(s.rvalue.a), Operand(s.rvalue.b),
         Reads(s.rvalue.a) \cup Reads(s.rvalue.b) \subseteq N, NamesIn(s, w)
  PROVE  Accepted(LetOf(s), w) /\ Inferred(LetOf(s), w) = RustType(body, s.place)
<1>1. PICK ty, rv, a, b, line :
        /\ ty = RustType(body, s.place) /\ rv = SourceRvalue(s.rvalue)
        /\ a = s.rvalue.a /\ b = s.rvalue.b /\ line = LetOf(s)
  OBVIOUS
<1>2. /\ rv.op = s.rvalue.op /\ rv.a = SourceOperand(a) /\ rv.b = SourceOperand(b)
      /\ line.kind = "let" /\ line.name = SourceName(s.place) /\ line.rvalue = rv /\ line.ty = ty
  BY <1>1 DEF SourceRvalue, LetLine, LetOf
<1>3. RvalueTyped(body, s.rvalue, ty) BY <1>1 DEF StatementFits
<1>13. rv.op # "lt" BY <1>2 DEF StatementFits
<1>4. /\ Operand(a) /\ Reads(a) \subseteq N
      /\ \A x \in OperandNames(SourceOperand(a)) : InScope(w, x)
      /\ Operand(b) /\ Reads(b) \subseteq N
      /\ \A x \in OperandNames(SourceOperand(b)) : InScope(w, x)
  BY <1>1 DEF NamesIn
<1>5. ASSUME NEW t, OperandTyped(body, a, t)
      PROVE  /\ OperandTyped(Typing(w), rv.a, t)
             /\ a.kind = "local" => Innermost(w, rv.a.of).ty = t
  BY <1>2, <1>4, <1>5, OperandFits
<1>6. ASSUME NEW t, OperandTyped(body, b, t)
      PROVE  /\ OperandTyped(Typing(w), rv.b, t)
             /\ b.kind = "local" => Innermost(w, rv.b.of).ty = t
  BY <1>2, <1>4, <1>6, OperandFits
<1>7. \A t : BothTyped(body, s.rvalue, t) => BothTyped(Typing(w), rv, t)
  BY <1>1, <1>5, <1>6 DEF BothTyped
<1>8. RvalueTyped(Typing(w), rv, ty) BY <1>2, <1>3, <1>7 DEF RvalueTyped
<1>9. /\ (rv.a.kind = "bool" <=> a.kind = "bool") /\ (rv.a.kind = "local" <=> a.kind = "local")
      /\ (rv.a.kind = "nat" <=> a.kind = "nat") /\ (rv.b.kind = "local" <=> b.kind = "local")
  BY <1>2 DEF SourceOperand, Local
<1>10. Inferred(line, w) = ty
  <2>1. CASE rv.op = "le"
    <3>1. ty = "bool" BY <1>2, <1>3, <2>1 DEF RvalueTyped
    <3> QED BY <1>2, <2>1, <3>1 DEF Inferred
  <2>2. CASE rv.op # "le"
    <3>1. OperandTyped(body, a, ty) /\ OperandTyped(body, b, ty)
      BY <1>1, <1>2, <1>3, <1>13, <2>2 DEF RvalueTyped, BothTyped
    <3>2. CASE a.kind = "bool"
      <4>1. ty = "bool" BY <3>1, <3>2 DEF OperandTyped
      <4> QED BY <1>2, <1>9, <2>2, <3>2, <4>1 DEF Inferred
    <3>3. CASE a.kind = "local"
      <4>1. Innermost(w, rv.a.of).ty = ty BY <1>5, <3>1, <3>3
      <4> QED BY <1>2, <1>9, <2>2, <3>3, <4>1 DEF Inferred
    <3>4. CASE a.kind = "nat" /\ b.kind = "local"
      <4>1. Innermost(w, rv.b.of).ty = ty BY <1>6, <3>1, <3>4
      <4> QED BY <1>2, <1>9, <2>2, <3>4, <4>1 DEF Inferred
    <3>5. CASE a.kind = "nat" /\ b.kind # "local"
      BY <1>2, <1>9, <2>2, <3>5 DEF Inferred
    <3> QED BY <1>4, <3>2, <3>3, <3>4, <3>5 DEF Operand
  <2> QED BY <2>1, <2>2
<1>11. NamesRead(line) = OperandNames(rv.a) \cup OperandNames(rv.b) BY <1>2 DEF NamesRead
<1>12. Accepted(line, w)
  BY <1>2, <1>4, <1>8, <1>10, <1>11 DEF Accepted, StatementFits
<1> QED BY <1>1, <1>10, <1>12

\* A `let` that is accepted declares its place in the innermost scope.
LEMMA LetDeclares ==
  ASSUME NEW scopes, NEW s, Accepted(LetOf(s), scopes), NEW ty, Inferred(LetOf(s), scopes) = ty
  PROVE  AfterLine(Going(scopes), LetOf(s))
           = Going(Declare(scopes, SourceName(s.place),
                           Variable(ty, LetValue(SourceRvalue(s.rvalue), scopes))))
<1>1. PICK st, name, rv, line :
        /\ st = Going(scopes) /\ name = SourceName(s.place) /\ rv = SourceRvalue(s.rvalue)
        /\ line = LetOf(s)
  OBVIOUS
<1>2. line.kind = "let" /\ line.name = name /\ line.rvalue = rv
  BY <1>1 DEF LetLine, LetOf
<1>3. st.verdict = "going" /\ st.scopes = scopes BY <1>1 DEF Going
<1>4. Accepted(line, scopes) /\ Inferred(line, scopes) = ty BY <1>1
<1>5. AfterLine(st, line) = Going(Declare(scopes, name, Variable(ty, LetValue(rv, scopes))))
  BY <1>2, <1>3, <1>4 DEF AfterLine
<1> QED BY <1>1, <1>5

\* The `let` of s changes the only scope, to the values n.
LetGoes(sc, s, n, v, lost, N) ==
  \E d : /\ AfterLine(Going(<<sc>>), LetOf(s)) = Going(<<d>>) /\ ScopeTyped(d, N)
         /\ ScopeAgrees(d, n, v, lost) /\ DOMAIN d = DOMAIN sc \cup {SourceName(s.place)}

\* A scope in which the local l is declared.
LEMMA DeclaredTyped ==
  ASSUME NEW sc, NEW N, ScopeTyped(sc, N), NEW l \in N, NEW d,
         DOMAIN d = DOMAIN sc \cup {SourceName(l)}, d[SourceName(l)].ty = RustType(body, l),
         \A y \in DOMAIN sc \ {SourceName(l)} : d[y] = sc[y]
  PROVE  ScopeTyped(d, N)
<1> SUFFICES ASSUME NEW y \in DOMAIN d
             PROVE  \E k \in N : y = SourceName(k) /\ d[y].ty = RustType(body, k)
  BY DEF ScopeTyped
<1>1. CASE y = SourceName(l) BY <1>1
<1>2. CASE y # SourceName(l)
  <2>1. y \in DOMAIN sc /\ d[y] = sc[y] BY <1>2
  <2> QED BY <2>1 DEF ScopeTyped
<1> QED BY <1>1, <1>2

\* Outside unsafe blocks, the `let` of an assignment the walk passed goes from the
\* values before to the values after, when the name of its place is that of no
\* other local, its types fit and nothing it reads is lost.
LEMMA LetAgrees ==
  ASSUME NEW v \in Inputs(body), NEW s, NEW m, NEW n, AssignTaken(body, s, m, n),
         Operand(s.rvalue.a), Operand(s.rvalue.b),
         NEW N, Apart(N), DOMAIN n \subseteq N, StatementFits(s, N),
         NEW lost, (Reads(s.rvalue.a) \cup Reads(s.rvalue.b)) \cap lost = {},
         NEW sc, ScopeAgrees(sc, m, v, lost), ScopeTyped(sc, N)
  PROVE  LetGoes(sc, s, n, v, lost, N)
<1>1. PICK name, rv : name = SourceName(s.place) /\ rv = SourceRvalue(s.rvalue) OBVIOUS
<1>2. rv.op = s.rvalue.op /\ rv.a = SourceOperand(s.rvalue.a) /\ rv.b = SourceOperand(s.rvalue.b)
  BY <1>1 DEF SourceRvalue
<1>3. /\ Has(m, s.rvalue.a) /\ Has(m, s.rvalue.b) /\ DOMAIN n = DOMAIN m \cup {s.place}
      /\ \A l \in DOMAIN n : n[l].den[v] =
           IF l = s.place
           THEN Apply(s.rvalue.op, OpDen(m, s.rvalue.a, v), OpDen(m, s.rvalue.b, v))
           ELSE m[l].den[v]
  BY DEF AssignTaken
<1>4. /\ \A x \in OperandNames(rv.a) \cup OperandNames(rv.b) : InScope(<<sc>>, x)
      /\ Meant(rv.a, <<sc>>) = OpDen(m, s.rvalue.a, v)
      /\ Meant(rv.b, <<sc>>) = OpDen(m, s.rvalue.b, v)
  <2>1. Reads(s.rvalue.a) \cap lost = {} /\ Reads(s.rvalue.b) \cap lost = {} OBVIOUS
  <2> QED BY <1>2, <1>3, <2>1, OperandMeant
<1>5. PICK value, var, ty :
        value = LetValue(rv, <<sc>>) /\ ty = RustType(body, s.place) /\ var = Variable(ty, value)
  OBVIOUS
<1>6. value = Apply(s.rvalue.op, OpDen(m, s.rvalue.a, v), OpDen(m, s.rvalue.b, v))
  BY <1>2, <1>4, <1>5 DEF LetValue
<1>7. PICK d : d = [y \in DOMAIN sc \cup {name} |-> IF y = name THEN var ELSE sc[y]] OBVIOUS
<1>8. Declare(<<sc>>, name, var) = <<d>>
  <2>1. [<<sc>> EXCEPT ![1] = d] = <<d>> OBVIOUS
  <2>2. Len(<<sc>>) = 1 /\ <<sc>>[1] = sc OBVIOUS
  <2> QED BY <1>7, <2>1, <2>2 DEF Declare
<1>9. AfterLine(Going(<<sc>>), LetOf(s)) = Going(<<d>>)
  <2>1. PICK w : w = <<sc>> OBVIOUS
  <2>2. w \in Seq({sc}) /\ AllTyped(w, N) BY <2>1 DEF AllTyped
  <2>3. NamesIn(s, w) BY <1>2, <1>4, <2>1 DEF NamesIn
  <2>4. Reads(s.rvalue.a) \cup Reads(s.rvalue.b) \subseteq N BY <1>3 DEF Has, Reads
  <2>5. Accepted(LetOf(s), w) /\ Inferred(LetOf(s), w) = ty
    BY <1>5, <2>2, <2>3, <2>4, LetAccepted
  <2>6. AfterLine(Going(w), LetOf(s)) = Going(Declare(w, name, var))
    BY <1>1, <1>5, <2>1, <2>5, LetDeclares
  <2> QED BY <1>8, <2>1, <2>6
<1>10. ScopeAgrees(d, n, v, lost)
  <2> SUFFICES ASSUME NEW l \in DOMAIN n \ lost
               PROVE  SourceName(l) \in DOMAIN d /\ d[SourceName(l)].value = n[l].den[v]
    BY DEF ScopeAgrees
  <2>1. CASE l = s.place BY <1>1, <1>3, <1>5, <1>6, <1>7, <2>1 DEF Variable
  <2>2. CASE l # s.place
    <3>1. l \in DOMAIN m \ lost /\ n[l].den[v] = m[l].den[v] BY <1>3, <2>2
    <3>2. SourceName(l) # name BY <1>1, <1>3, <2>2 DEF Apart
    <3>3. SourceName(l) \in DOMAIN sc /\ sc[SourceName(l)].value = m[l].den[v]
      BY <3>1 DEF ScopeAgrees
    <3> QED BY <1>7, <3>1, <3>2, <3>3
  <2> QED BY <2>1, <2>2
<1>11. ScopeTyped(d, N)
  <2>1. /\ DOMAIN d = DOMAIN sc \cup {name} /\ \A y \in DOMAIN sc \ {name} : d[y] = sc[y]
        /\ d[name].ty = RustType(body, s.place)
    BY <1>5, <1>7 DEF Variable
  <2> QED BY <1>1, <2>1, DeclaredTyped DEF StatementFits
<1>12. DOMAIN d = DOMAIN sc \cup {SourceName(s.place)} BY <1>1, <1>7
<1> QED BY <1>9, <1>10, <1>11, <1>12 DEF LetGoes

\* The check of an assertion the walk passed succeeds.
LEMMA CheckAgrees ==
  ASSUME NEW v, NEW m, NEW op, Operand(op), Has(m, op), NEW expected,
         OpDen(m, op, v) = Truth(expected), NEW lost, Reads(op) \cap lost = {},
         NEW N, Apart(N), DOMAIN m \subseteq N, OperandTyped(body, op, "bool"),
         NEW st, GoingWith(st, m, v, lost, N)
  PROVE  AfterLine(st, CheckLine(SourceOperand(op), expected)) = st
<1>1. PICK sc : st = Going(<<sc>>) /\ ScopeAgrees(sc, m, v, lost) /\ ScopeTyped(sc, N)
  BY DEF GoingWith
<1>2. PICK line, w : line = CheckLine(SourceOperand(op), expected) /\ w = <<sc>> OBVIOUS
<1>3. line.kind = "check" /\ line.op = SourceOperand(op) /\ line.expected = expected
  BY <1>2 DEF CheckLine
<1>4. st.verdict = "going" /\ st.scopes = w BY <1>1, <1>2 DEF Going
<1>5. NamesRead(line) = OperandNames(SourceOperand(op)) BY <1>3 DEF NamesRead
<1>6. /\ \A x \in OperandNames(SourceOperand(op)) : InScope(w, x)
      /\ Meant(SourceOperand(op), w) = OpDen(m, op, v)
  BY <1>1, <1>2, OperandMeant
<1>7. OperandTyped(Typing(w), SourceOperand(op), "bool")
  <2>1. w \in Seq({sc}) /\ AllTyped(w, N) BY <1>1, <1>2 DEF AllTyped
  <2>2. Reads(op) \subseteq N BY DEF Has, Reads
  <2> QED BY <1>6, <2>1, <2>2, OperandFits
<1>8. Accepted(line, w) BY <1>3, <1>5, <1>6, <1>7 DEF Accepted
<1>9. AfterLine(st, line) = st BY <1>3, <1>4, <1>6, <1>8 DEF AfterLine
<1> QED BY <1>2, <1>9

\* The value x is returned, at the type of the return place.
Answers(st, x) ==
  \E r : st = Ended("returned", r) /\ r.value = x /\ r.ty = RustType(body, 0)

\* The tail returns the value of the return place.
LEMMA TailAgrees ==
  ASSUME NEW v, NEW m, NEW lost, 0 \in DOMAIN m \ lost, NEW N, Apart(N), DOMAIN m \subseteq N,
         NEW st, GoingWith(st, m, v, lost, N)
  PROVE  Answers(AfterLine(st, TailLine(SourceName(0))), m[0].den[v])
<1>1. PICK sc : st = Going(<<sc>>) /\ ScopeAgrees(sc, m, v, lost) /\ ScopeTyped(sc, N)
  BY DEF GoingWith
<1>2. PICK line, x, w : x = SourceName(0) /\ line = TailLine(x) /\ w = <<sc>> OBVIOUS
<1>3. line.kind = "tail" /\ line.name = x BY <1>2 DEF TailLine
<1>4. st.verdict = "going" /\ st.scopes = w BY <1>1, <1>2 DEF Going
<1>5. NamesRead(line) = {x} BY <1>3 DEF NamesRead
<1>6. x \in DOMAIN sc /\ sc[x].value = m[0].den[v] BY <1>1, <1>2 DEF ScopeAgrees
<1>7. InScope(w, x) /\ Innermost(w, x) = sc[x] BY <1>2, <1>6, OneScope
<1>8. PICK l \in N : x = SourceName(l) /\ sc[x].ty = RustType(body, l) BY <1>1, <1>6 DEF ScopeTyped
<1>9. l = 0 BY <1>2, <1>8 DEF Apart
<1>10. Accepted(line, w) BY <1>3, <1>5, <1>7 DEF Accepted
<1>11. AfterLine(st, line) = Ended("returned", sc[x]) BY <1>3, <1>4, <1>7, <1>10 DEF AfterLine
<1> QED BY <1>2, <1>6, <1>8, <1>9, <1>11 DEF Answers

-----------------------------------------------------------------------------
(* Unsafe blocks.                                                          *)

\* A scope is opened, closed, or declares.
LEMMA ScopesMove ==
  ASSUME NEW S, NEW w \in Seq(S), Len(w) # 0
  PROVE  /\ \A e : LET u == Append(w, e)
                   IN  u \in Seq(S \cup {e}) /\ Len(u) = Len(w) + 1 /\ \A n \in 1..Len(w) : u[n] = w[n]
         /\ \A e : LET u == [w EXCEPT ![Len(w)] = e]
                   IN  /\ u \in Seq(S \cup {e}) /\ Len(u) = Len(w) /\ u[Len(w)] = e
                       /\ \A n \in 1..(Len(w) - 1) : u[n] = w[n]
         /\ LET u == SX!Front(w)
            IN  u \in Seq(S) /\ Len(u) = Len(w) - 1 /\ \A n \in 1..(Len(w) - 1) : u[n] = w[n]
<1>1. ASSUME NEW e
      PROVE  LET u == Append(w, e)
             IN  u \in Seq(S \cup {e}) /\ Len(u) = Len(w) + 1 /\ \A n \in 1..Len(w) : u[n] = w[n]
  <2>1. w \in Seq(S \cup {e}) OBVIOUS
  <2> QED BY <2>1
<1>2. ASSUME NEW e
      PROVE  LET u == [w EXCEPT ![Len(w)] = e]
             IN  /\ u \in Seq(S \cup {e}) /\ Len(u) = Len(w) /\ u[Len(w)] = e
                 /\ \A n \in 1..(Len(w) - 1) : u[n] = w[n]
  <2>1. w \in Seq(S \cup {e}) /\ e \in S \cup {e} OBVIOUS
  <2> QED BY <2>1
<1>3. LET u == SX!Front(w)
      IN  u \in Seq(S) /\ Len(u) = Len(w) - 1 /\ \A n \in 1..(Len(w) - 1) : u[n] = w[n]
  <2>1. PICK m : m = Len(w) - 1 OBVIOUS
  <2>2. m \in Nat /\ m <= Len(w) /\ \A n \in 1..m : n \in 1..Len(w) BY <2>1
  <2>3. PICK u : u = SubSeq(w, 1, m) OBVIOUS
  <2>4. u \in Seq(S) /\ Len(u) = m /\ \A n \in 1..m : u[n] = w[n] BY <2>2, <2>3
  <2> QED BY <2>1, <2>3, <2>4 DEF SX!Front
<1> QED BY <1>1, <1>2, <1>3

\* Lines that close scopes close as many.
LEMMA RunClosing ==
  ASSUME NEW S, NEW w \in Seq(S), NEW c \in Nat, c < Len(w)
  PROVE  \E u \in Seq(S) : /\ RunLines(Going(w), [j \in 1..c |-> CloseLine]) = Going(u)
                           /\ Len(u) = Len(w) - c /\ \A n \in 1..Len(u) : u[n] = w[n]
<1>1. PICK lines, start : lines = [j \in 1..c |-> CloseLine] /\ start = Going(w) OBVIOUS
<1>2. Len(lines) = c /\ \A j \in 1..c : lines[j] = CloseLine BY <1>1
<1>3. PICK after : after = RunUpTo(start, lines) OBVIOUS
<1>4. after[0] = start /\ \A j \in 1..c : after[j] = AfterLine(after[j - 1], CloseLine)
  BY <1>2, <1>3, RunUpToIs
<1> DEFINE Good(j) == \E u \in Seq(S) : /\ after[j] = Going(u)
                                        /\ Len(u) = Len(w) - j /\ \A n \in 1..Len(u) : u[n] = w[n]
           T == {j \in 0..c : ~Good(j)}
<1>5. T = {}
  <2>1. SUFFICES ASSUME T # {} PROVE FALSE OBVIOUS
  <2>2. PICK j \in T : \A y \in T : j <= y
    <3>1. T \in SUBSET Nat OBVIOUS
    <3> HIDE DEF T
    <3> QED BY <2>1, <3>1, LeastNat
  <2>3. Good(0)
    <3>1. Len(w) = Len(w) - 0 OBVIOUS
    <3> QED BY <1>1, <1>4, <3>1
  <2>4. PICK i : i = j - 1 OBVIOUS
  <2>5. j # 0 BY <2>2, <2>3
  <2>6. j \in 1..c /\ i \in 0..c /\ i = j - 1 /\ j = i + 1 /\ ~(j <= i) BY <2>2, <2>4, <2>5
  <2>7. Good(i) BY <2>2, <2>6
  <2>8. PICK u \in Seq(S) : /\ after[i] = Going(u)
                            /\ Len(u) = Len(w) - i /\ \A n \in 1..Len(u) : u[n] = w[n]
    BY <2>7
  <2>9. PICK x : x = SX!Front(u) OBVIOUS
  <2>10. x \in Seq(S) /\ Len(x) = Len(u) - 1 /\ \A n \in 1..(Len(u) - 1) : x[n] = u[n]
    <3>1. Len(u) # 0 BY <2>6, <2>8
    <3> QED BY <2>8, <2>9, <3>1, ScopesMove
  <2>11. after[j] = Going(x)
    <3>1. after[j] = AfterLine(Going(u), CloseLine) BY <1>4, <2>6, <2>8
    <3>2. PICK st, line : st = Going(u) /\ line = CloseLine OBVIOUS
    <3>3. st.verdict = "going" /\ st.scopes = u /\ line.kind = "close" BY <3>2 DEF Going, CloseLine
    <3>4. Accepted(line, u) BY <3>3 DEF Accepted, NamesRead
    <3>5. AfterLine(st, line) = Going(x) BY <2>9, <3>3, <3>4 DEF AfterLine
    <3> QED BY <3>1, <3>2, <3>5
  <2>12. Len(x) = Len(w) - j /\ \A n \in 1..Len(x) : x[n] = w[n]
    <3>1. Len(w) \in Nat /\ Len(u) \in Nat BY <2>8
    <3>2. Len(x) = Len(w) - j BY <2>6, <2>8, <2>10, <3>1
    <3>3. \A n \in 1..Len(x) : n \in 1..(Len(u) - 1) /\ n \in 1..Len(u) BY <2>10, <3>1
    <3> QED BY <2>8, <2>10, <3>2, <3>3
  <2>13. Good(j) BY <2>10, <2>11, <2>12
  <2> QED BY <2>2, <2>13
<1>6. c \in 0..c OBVIOUS
<1>7. Good(c) BY <1>5, <1>6
<1> QED BY <1>1, <1>2, <1>3, <1>7 DEF RunLines

\* The blocks around the next statement.
LEMMA AroundNext ==
  ASSUME NEW t \in DOMAIN body.blocks, WellFormedBody(body), NEW i \in 1..Len(Statements(t))
  PROVE  LET ss == Statements(t)
             opened == IF ss[i].kind = "unsafe" THEN 1 ELSE 0
         IN  /\ IsFiniteSet(Around(t, i)) /\ Cardinality(Around(t, i)) \in Nat
             /\ IsFiniteSet(Around(t, i + 1))
             /\ Cardinality(EndingAt(ss, i)) \in Nat
             /\ Cardinality(Around(t, i + 1)) \in Nat
             /\ Cardinality(Around(t, i + 1)) + Cardinality(EndingAt(ss, i))
                  = Cardinality(Around(t, i)) + opened
             /\ Around(t, i + 1) \subseteq Around(t, i) \cup {i}
             /\ ss[i].kind # "unsafe" => Around(t, i + 1) \subseteq Around(t, i)
<1>1. PICK ss, n : ss = Statements(t) /\ n = Len(ss) OBVIOUS
<1>2. /\ n \in Nat /\ DOMAIN ss = 1..n
      /\ \A j \in 1..n : ss[j].kind = "unsafe" => ss[j].inside \in Nat /\ j + ss[j].inside <= n
  BY <1>1 DEF WellFormedBody, WellFormedBlock, Statements
<1>3. PICK A, B, E : A = Around(t, i) /\ B = Around(t, i + 1) /\ E = EndingAt(ss, i) OBVIOUS
<1>4. i \in Nat /\ (i + 1) - 1 = i OBVIOUS
<1>5. A = {j \in 1..(i - 1) : ss[j].kind = "unsafe" /\ i <= j + ss[j].inside}
      /\ B = {j \in 1..i : ss[j].kind = "unsafe" /\ i + 1 <= j + ss[j].inside}
      /\ E = {j \in 1..i : ss[j].kind = "unsafe" /\ j + ss[j].inside = i}
  BY <1>1, <1>3, <1>4 DEF Around, EndingAt
<1>6. IsFiniteSet(A) /\ Cardinality(A) \in Nat
  <2>1. A \in SUBSET Nat /\ \A j \in A : j <= i BY <1>5
  <2>2. IsFiniteSet(A) BY <1>4, <2>1, FS_BoundedSetOfNaturals
  <2> QED BY <2>2, FS_CardinalityType
<1>7. PICK X : X = IF ss[i].kind = "unsafe" THEN A \cup {i} ELSE A OBVIOUS
<1>8. i \notin A BY <1>5
<1>9. /\ IsFiniteSet(X)
      /\ Cardinality(X) = Cardinality(A) + (IF ss[i].kind = "unsafe" THEN 1 ELSE 0)
  BY <1>6, <1>7, <1>8, FS_AddElement
<1>10. B = X \ E /\ X \cap E = E
  <2>1. \A j \in 1..i : j \in 1..n /\ (ss[j].kind = "unsafe" => ss[j].inside \in Nat)
    BY <1>1, <1>2
  <2>2. X = {j \in 1..i : ss[j].kind = "unsafe" /\ i <= j + ss[j].inside}
    <3>1. CASE ss[i].kind = "unsafe"
      <4>1. i <= i + ss[i].inside BY <1>4, <2>1, <3>1
      <4> QED BY <1>5, <1>7, <3>1, <4>1
    <3>2. CASE ss[i].kind # "unsafe" BY <1>5, <1>7, <3>2
    <3> QED BY <3>1, <3>2
  <2> QED BY <1>5, <2>1, <2>2
<1>11. /\ IsFiniteSet(B) /\ Cardinality(B) = Cardinality(X) - Cardinality(E)
  <2>1. IsFiniteSet(X) BY <1>9
  <2>2. IsFiniteSet(X \ E) /\ Cardinality(X \ E) = Cardinality(X) - Cardinality(X \cap E)
    BY <2>1, FS_Difference, Zenon
  <2> QED BY <1>10, <2>2
<1>12. IsFiniteSet(E)
  <2>1. E \in SUBSET X BY <1>10
  <2> QED BY <1>9, <2>1, FS_Subset
<1>13. Cardinality(B) \in Nat /\ Cardinality(E) \in Nat BY <1>11, <1>12, FS_CardinalityType
<1>14. Cardinality(B) + Cardinality(E) = Cardinality(A) + (IF ss[i].kind = "unsafe" THEN 1 ELSE 0)
  BY <1>6, <1>9, <1>11, <1>13
<1>15. B \subseteq A \cup {i} /\ (ss[i].kind # "unsafe" => B \subseteq A) BY <1>7, <1>10
<1> QED BY <1>1, <1>3, <1>6, <1>11, <1>13, <1>14, <1>15

\* There is no block around the first statement nor around the end.
LEMMA AroundEnds ==
  ASSUME NEW t \in DOMAIN body.blocks, WellFormedBody(body)
  PROVE  /\ Around(t, 1) = {} /\ Cardinality(Around(t, 1)) = 0
         /\ LET i == Len(Statements(t)) + 1
            IN  Around(t, i) = {} /\ Cardinality(Around(t, i)) = 0
<1>1. PICK ss, n : ss = Statements(t) /\ n = Len(ss) OBVIOUS
<1>2. /\ n \in Nat
      /\ \A j \in 1..n : ss[j].kind = "unsafe" => ss[j].inside \in Nat /\ j + ss[j].inside <= n
  BY <1>1 DEF WellFormedBody, WellFormedBlock, Statements
<1>3. (n + 1) - 1 = n BY <1>2
<1>4. Around(t, 1) = {} /\ Around(t, n + 1) = {} BY <1>1, <1>2, <1>3 DEF Around
<1>5. PICK empty : empty = {} OBVIOUS
<1>6. Cardinality(empty) = 0 BY <1>5, FS_EmptySet
<1> QED BY <1>1, <1>4, <1>5, <1>6

\* What the proofs below take from a verification that is done: every position of
\* the walk was passed rightly.
WalkEnded ==
  /\ WellFormedBody(body)
  /\ \A p \in DOMAIN trace : Taken(p)
  /\ \A t, m : Reaches(t, m) => <<t, 1>> \in DOMAIN trace /\ trace[<<t, 1>>] = m

PlacesBefore(b, j) == {Statements(b)[i].place : i \in {k \in Assignments(b) : k < j}}
Places(b) == {Statements(b)[i].place : i \in Assignments(b)}

\* The statements of a block are assignments and unsafe blocks.
LEMMA BlockShape ==
  ASSUME WalkEnded, NEW t \in DOMAIN body.blocks
  PROVE  /\ Len(Statements(t)) \in Nat /\ DOMAIN Statements(t) = 1..Len(Statements(t))
         /\ \A i \in 1..Len(Statements(t)) :
              LET s == Statements(t)[i]
              IN  \/ s.kind = "unsafe"
                  \/ s.kind = "assign" /\ Operand(s.rvalue.a) /\ Operand(s.rvalue.b)
         /\ Terminator(t).kind \in {"return", "goto", "assert"}
         /\ Terminator(t).kind = "assert" => Operand(Terminator(t).condition)
BY DEF WalkEnded, WellFormedBody, WellFormedBlock, WellFormedStatement, Statements, Terminator

\* A block the walk entered was passed from its first statement to its end.
LEMMA BlockPassed ==
  ASSUME WalkEnded, NEW t \in DOMAIN body.blocks, <<t, 1>> \in DOMAIN trace
  PROVE  /\ \A j \in 1..(Len(Statements(t)) + 1) :
              /\ <<t, j>> \in DOMAIN trace
              /\ DOMAIN trace[<<t, j>>] \subseteq DOMAIN trace[<<t, 1>>] \cup PlacesBefore(t, j)
         /\ \A j \in 1..Len(Statements(t)) :
              LET s == Statements(t)[j]
              IN  /\ s.kind = "assign" => AssignTaken(body, s, trace[<<t, j>>], trace[<<t, j + 1>>])
                  /\ s.kind = "unsafe" => trace[<<t, j + 1>>] = trace[<<t, j>>]
         /\ ExitTaken(Exit(t))
<1>1. PICK n, ss : n = Len(ss) /\ ss = Statements(t) OBVIOUS
<1>2. n \in Nat /\ DOMAIN ss = 1..n BY <1>1, BlockShape
<1>3. ASSUME NEW j \in 1..n, <<t, j>> \in DOMAIN trace
      PROVE  /\ <<t, j + 1>> \in DOMAIN trace
             /\ ss[j].kind = "assign" =>
                  AssignTaken(body, ss[j], trace[<<t, j>>], trace[<<t, j + 1>>])
             /\ ss[j].kind = "unsafe" => trace[<<t, j + 1>>] = trace[<<t, j>>]
  <2>1. PICK p : p = <<t, j>> OBVIOUS
  <2>2. p[1] = t /\ p[2] = j BY <2>1
  <2>3. Taken(p) BY <1>3, <2>1 DEF WalkEnded
  <2>4. j <= Len(Statements(t)) BY <1>1, <1>2
  <2>5. StepTaken(p) BY <2>2, <2>3, <2>4 DEF Taken
  <2> QED BY <1>1, <2>1, <2>2, <2>5 DEF StepTaken, UnsafeTaken
<1> DEFINE Good(j) == /\ <<t, j>> \in DOMAIN trace
                      /\ DOMAIN trace[<<t, j>>] \subseteq DOMAIN trace[<<t, 1>>] \cup PlacesBefore(t, j)
           T == {j \in 1..(n + 1) : ~Good(j)}
<1>4. T = {}
  <2>1. SUFFICES ASSUME T # {} PROVE FALSE OBVIOUS
  <2>2. PICK j \in T : \A y \in T : j <= y
    <3>1. T \in SUBSET Nat BY <1>2
    <3> HIDE DEF T
    <3> QED BY <2>1, <3>1, LeastNat
  <2>3. j # 1 BY <2>2
  <2>4. PICK i : i = j - 1 OBVIOUS
  <2>5. i \in 1..n /\ i \in 1..(n + 1) /\ i + 1 = j /\ ~(j <= i) /\ i < j
    BY <1>2, <2>2, <2>3, <2>4
  <2>6. Good(i) BY <2>2, <2>5
  <2>7. /\ <<t, j>> \in DOMAIN trace
        /\ ss[i].kind = "assign" => AssignTaken(body, ss[i], trace[<<t, i>>], trace[<<t, j>>])
        /\ ss[i].kind = "unsafe" => trace[<<t, j>>] = trace[<<t, i>>]
    BY <1>3, <2>5, <2>6
  <2>8. PlacesBefore(t, i) \subseteq PlacesBefore(t, j)
    <3>1. \A k \in Assignments(t) : k < i => k < j BY <1>1, <1>2, <2>5 DEF Assignments
    <3> QED BY <3>1 DEF PlacesBefore
  <2>9. CASE ss[i].kind = "assign"
    <3>1. DOMAIN trace[<<t, j>>] = DOMAIN trace[<<t, i>>] \cup {ss[i].place}
      BY <2>7, <2>9 DEF AssignTaken
    <3>2. ss[i].place \in PlacesBefore(t, j)
      BY <1>1, <1>2, <2>5, <2>9 DEF PlacesBefore, Assignments
    <3>3. Good(j) BY <2>6, <2>7, <2>8, <3>1, <3>2
    <3> QED BY <2>2, <3>3
  <2>10. CASE ss[i].kind = "unsafe"
    <3>1. Good(j) BY <2>6, <2>7, <2>8, <2>10
    <3> QED BY <2>2, <3>1
  <2> QED BY <1>1, <2>5, <2>9, <2>10, BlockShape
<1>5. \A j \in 1..(n + 1) : Good(j) BY <1>4
<1>6. ExitTaken(Exit(t))
  <2>1. PICK p : p = Exit(t) OBVIOUS
  <2>2. p = <<t, n + 1>> /\ p[1] = t /\ p[2] = n + 1 BY <1>1, <2>1 DEF Exit
  <2>3. n + 1 \in 1..(n + 1) /\ ~(n + 1 <= n) BY <1>2
  <2>4. Taken(p) BY <1>5, <2>2, <2>3 DEF WalkEnded
  <2> QED BY <1>1, <2>1, <2>2, <2>3, <2>4 DEF Taken
<1>7. \A j \in 1..n : j \in 1..(n + 1) BY <1>2
<1> QED BY <1>1, <1>3, <1>5, <1>6, <1>7

\* What the unsafe blocks of b assign, and those of a set of blocks.
Hidden(b) == {Statements(b)[i].place : i \in {k \in Assignments(b) : Around(b, k) # {}}}
LostIn(V) == UNION {Hidden(b) : b \in V}

\* Where t reads what an unsafe block of V assigns, it stands in that block.
ShelteredAt(t, i, V) ==
  \A l \in ReadsAt(t, i) : \A c \in V : \A k \in Assignments(c) :
    Statements(c)[k].place = l /\ Around(c, k) # {} => c = t /\ Around(c, k) \subseteq Around(t, i)
Sheltered(t, V) ==
  \A i \in Assignments(t) \cup {Len(Statements(t)) + 1} : ShelteredAt(t, i, V)

\* A local t reads outside its unsafe blocks is not lost.
LEMMA ReadKept ==
  ASSUME NEW t, NEW i, NEW V, ShelteredAt(t, i, V), Around(t, i) = {}
  PROVE  ReadsAt(t, i) \cap LostIn(V) = {}
BY DEF ShelteredAt, LostIn, Hidden

\* The scopes before statement i of t: the locals of `base` are declared in the
\* first, and what is assigned in blocks that are still open in theirs.
Opened(w, t, i, base) ==
  /\ Len(w) = 1 + Cardinality(Around(t, i))
  /\ \A l \in base : SourceName(l) \in DOMAIN w[1]
  /\ \A k \in Assignments(t) :
       k < i /\ Around(t, k) \subseteq Around(t, i)
         => SourceName(Statements(t)[k].place) \in DOMAIN w[1 + Cardinality(Around(t, k))]
\* The printed function before statement i of t.
Stands(st, t, i, base, m, v, lost, N) ==
  \E S : \E w \in Seq(S) :
    /\ st = Going(w) /\ Opened(w, t, i, base) /\ ScopeAgrees(w[1], m, v, lost) /\ AllTyped(w, N)

\* What t reads at a statement the walk passed is in scope there.
LEMMA ReadInScope ==
  ASSUME WalkEnded, NEW t \in DOMAIN body.blocks, <<t, 1>> \in DOMAIN trace,
         NEW i \in 1..Len(Statements(t)), NEW U, t \notin U, ShelteredAt(t, i, U \cup {t}),
         NEW S, NEW w \in Seq(S), Opened(w, t, i, DOMAIN trace[<<t, 1>>] \ LostIn(U)),
         NEW l \in ReadsAt(t, i), l \in DOMAIN trace[<<t, i>>]
  PROVE  InScope(w, SourceName(l))
<1>1. /\ IsFiniteSet(Around(t, i)) /\ Cardinality(Around(t, i)) \in Nat
      /\ WellFormedBody(body)
  BY AroundNext DEF WalkEnded
<1>2. Len(w) = 1 + Cardinality(Around(t, i)) /\ DOMAIN w = 1..Len(w) BY DEF Opened
<1>3. CASE l \in DOMAIN trace[<<t, 1>>]
  <2>1. l \notin LostIn(U) BY DEF LostIn, Hidden, ShelteredAt
  <2>2. SourceName(l) \in DOMAIN w[1] BY <1>3, <2>1 DEF Opened
  <2>3. 1 \in DOMAIN w BY <1>1, <1>2
  <2> QED BY <2>2, <2>3 DEF InScope
<1>4. CASE l \in PlacesBefore(t, i)
  <2>1. PICK k \in Assignments(t) : k < i /\ Statements(t)[k].place = l
    BY <1>4 DEF PlacesBefore
  <2>2. Around(t, k) \subseteq Around(t, i) BY <2>1 DEF ShelteredAt
  <2>3. SourceName(l) \in DOMAIN w[1 + Cardinality(Around(t, k))] BY <2>1, <2>2 DEF Opened
  <2>4. k \in 1..Len(Statements(t)) BY BlockShape DEF Assignments
  <2>5. Cardinality(Around(t, k)) \in Nat BY <1>1, <2>4, AroundNext
  <2>6. Cardinality(Around(t, k)) <= Cardinality(Around(t, i)) BY <1>1, <2>2, FS_Subset
  <2>7. 1 + Cardinality(Around(t, k)) \in DOMAIN w BY <1>1, <1>2, <2>5, <2>6
  <2> QED BY <2>3, <2>7 DEF InScope
<1>5. i \in 1..(Len(Statements(t)) + 1) BY BlockShape
<1> QED BY <1>3, <1>4, <1>5, BlockPassed

\* The line of statement i.
LineOf(s) == IF s.kind = "unsafe" THEN OpenLine ELSE LetOf(s)

\* The line of s leads from the scopes w to scopes with the values m.
LineGoes(w, s, m, v, lost, N) ==
  \E R : \E u \in Seq(R) :
    /\ AfterLine(Going(w), LineOf(s)) = Going(u)
    /\ Len(u) = Len(w) + (IF s.kind = "unsafe" THEN 1 ELSE 0)
    /\ \A n \in 1..Len(w) : DOMAIN w[n] \subseteq DOMAIN u[n]
    /\ s.kind = "assign" => SourceName(s.place) \in DOMAIN u[Len(w)]
    /\ ScopeAgrees(u[1], m, v, lost) /\ AllTyped(u, N)

\* The line of a statement opens a scope, or declares a variable in the innermost one.
LEMMA LineRuns ==
  ASSUME WalkEnded, NEW t \in DOMAIN body.blocks, <<t, 1>> \in DOMAIN trace,
         NEW i \in 1..Len(Statements(t)), NEW U, t \notin U,
         NEW N, Apart(N), DOMAIN trace[<<t, i>>] \subseteq N, DOMAIN trace[<<t, i + 1>>] \subseteq N,
         Statements(t)[i].kind = "assign" =>
           ShelteredAt(t, i, U \cup {t}) /\ StatementFits(Statements(t)[i], N),
         NEW v \in Inputs(body),
         NEW S, NEW w \in Seq(S), Opened(w, t, i, DOMAIN trace[<<t, 1>>] \ LostIn(U)),
         ScopeAgrees(w[1], trace[<<t, i>>], v, LostIn(U \cup {t})), AllTyped(w, N)
  PROVE  LineGoes(w, Statements(t)[i], trace[<<t, i + 1>>], v, LostIn(U \cup {t}), N)
<1>1. PICK s, m, m2, lost :
        /\ s = Statements(t)[i] /\ m = trace[<<t, i>>] /\ m2 = trace[<<t, i + 1>>]
        /\ lost = LostIn(U \cup {t})
  OBVIOUS
<1>2. Cardinality(Around(t, i)) \in Nat BY AroundNext DEF WalkEnded
<1>3. Len(w) = 1 + Cardinality(Around(t, i)) /\ Len(w) # 0 /\ 1 \in 1..Len(w)
  BY <1>2 DEF Opened
<1>4. CASE s.kind = "unsafe"
  <2>1. PICK u : u = Append(w, <<>>) OBVIOUS
  <2>2. u \in Seq(S \cup {<<>>}) /\ Len(u) = Len(w) + 1 /\ \A n \in 1..Len(w) : u[n] = w[n]
    BY <1>3, <2>1, ScopesMove
  <2>3. AfterLine(Going(w), OpenLine) = Going(u)
    <3>1. PICK st, line : st = Going(w) /\ line = OpenLine OBVIOUS
    <3>2. st.verdict = "going" /\ st.scopes = w /\ line.kind = "open" BY <3>1 DEF Going, OpenLine
    <3>3. NamesRead(line) = {} BY <3>2 DEF NamesRead
    <3>4. Accepted(line, w) BY <3>2, <3>3 DEF Accepted
    <3>5. AfterLine(st, line) = Going(u) BY <2>1, <3>2, <3>4 DEF AfterLine
    <3> QED BY <3>1, <3>5
  <2>4. m2 = m BY <1>1, <1>4, BlockPassed
  <2>5. u[1] = w[1] BY <1>3, <2>2
  <2>6. LineOf(s) = OpenLine /\ s.kind # "assign" BY <1>4 DEF LineOf
  <2>7. AllTyped(u, N)
    <3> SUFFICES ASSUME NEW n \in DOMAIN u PROVE ScopeTyped(u[n], N) BY DEF AllTyped
    <3>1. CASE n \in 1..Len(w)
      <4>1. u[n] = w[n] /\ n \in DOMAIN w BY <2>2, <3>1
      <4> QED BY <4>1 DEF AllTyped
    <3>2. CASE n \notin 1..Len(w)
      <4>1. n = Len(w) + 1 BY <2>2, <3>2
      <4>2. u[n] = <<>> BY <2>1, <4>1
      <4> QED BY <4>2 DEF ScopeTyped
    <3> QED BY <3>1, <3>2
  <2> QED BY <1>1, <1>4, <2>2, <2>3, <2>4, <2>5, <2>6, <2>7 DEF LineGoes
<1>5. CASE s.kind = "assign"
  <2>1. AssignTaken(body, s, m, m2) BY <1>1, <1>5, BlockPassed
  <2>2. Operand(s.rvalue.a) /\ Operand(s.rvalue.b) BY <1>1, <1>5, BlockShape
  <2>3. i \in Assignments(t) BY <1>1, <1>5, BlockShape DEF Assignments
  <2>4. ReadsAt(t, i) = Reads(s.rvalue.a) \cup Reads(s.rvalue.b)
    BY <1>1, <2>3 DEF ReadsAt, Assignments
  <2>5. /\ LineOf(s) = LetOf(s) /\ s.kind # "unsafe" /\ ShelteredAt(t, i, U \cup {t})
        /\ StatementFits(s, N)
    BY <1>1, <1>5 DEF LineOf
  <2>6. CASE Around(t, i) = {}
    <3>1. ReadsAt(t, i) \cap lost = {} BY <1>1, <2>5, <2>6, ReadKept
    <3>2. PICK sc : sc = w[1] OBVIOUS
    <3>3. Len(w) = 1 BY <1>3, <2>6, FS_EmptySet
    <3>4. w = <<sc>> BY <3>2, <3>3
    <3>5. PICK d : /\ AfterLine(Going(<<sc>>), LetOf(s)) = Going(<<d>>)
                   /\ ScopeAgrees(d, m2, v, lost) /\ DOMAIN d = DOMAIN sc \cup {SourceName(s.place)}
                   /\ ScopeTyped(d, N)
      <4>1. (Reads(s.rvalue.a) \cup Reads(s.rvalue.b)) \cap lost = {} BY <2>4, <3>1
      <4>2. ScopeAgrees(sc, m, v, lost) /\ DOMAIN m2 \subseteq N BY <1>1, <3>2
      <4>3. ScopeTyped(sc, N) BY <1>3, <3>2 DEF AllTyped
      <4>4. LetGoes(sc, s, m2, v, lost, N) BY <2>1, <2>2, <2>5, <4>1, <4>2, <4>3, LetAgrees
      <4> QED BY <4>4 DEF LetGoes
    <3>6. PICK u : u = <<d>> OBVIOUS
    <3>7. u \in Seq({d}) /\ Len(u) = 1 /\ u[1] = d BY <3>6
    <3>12. AllTyped(u, N) BY <3>5, <3>6 DEF AllTyped
    <3>8. \A n \in 1..Len(w) : DOMAIN w[n] \subseteq DOMAIN u[n]
      <4>1. \A n \in 1..Len(w) : n = 1 BY <3>3
      <4> QED BY <3>2, <3>5, <3>7, <4>1
    <3>9. Len(u) = Len(w) + 0 BY <3>3, <3>7
    <3>10. AfterLine(Going(w), LineOf(s)) = Going(u) BY <2>5, <3>4, <3>5, <3>6
    <3>11. SourceName(s.place) \in DOMAIN u[Len(w)] BY <3>3, <3>5, <3>7
    <3> QED BY <1>1, <2>5, <3>5, <3>7, <3>8, <3>9, <3>10, <3>11, <3>12 DEF LineGoes
  <2>7. CASE Around(t, i) # {}
    <3>1. Cardinality(Around(t, i)) # 0
      BY <2>7, FS_EmptySet, AroundNext DEF WalkEnded
    <3>2. Len(w) \in Nat /\ Len(w) # 1 BY <1>2, <1>3, <3>1
    <3>3. PICK name, ty, value, var :
            /\ name = SourceName(s.place) /\ value = LetValue(SourceRvalue(s.rvalue), w)
            /\ ty = RustType(body, s.place) /\ var = Variable(ty, value)
      OBVIOUS
    <3>4. PICK top, d :
            top = w[Len(w)] /\ d = [y \in DOMAIN top \cup {name} |-> IF y = name THEN var ELSE top[y]]
      OBVIOUS
    <3>5. PICK u : u = [w EXCEPT ![Len(w)] = d] OBVIOUS
    <3>6. u = Declare(w, name, var)
      <4>1. Len(w) \in DOMAIN w BY <1>3
      <4> QED BY <3>4, <3>5, <4>1 DEF Declare
    <3>7. \A op : Operand(op) /\ Has(m, op) /\ Reads(op) \subseteq ReadsAt(t, i) =>
            \A x \in OperandNames(SourceOperand(op)) : InScope(w, x)
      <4> SUFFICES ASSUME NEW op, Operand(op), Has(m, op), Reads(op) \subseteq ReadsAt(t, i),
                          NEW x \in OperandNames(SourceOperand(op))
                   PROVE  InScope(w, x)
        OBVIOUS
      <4>1. op.kind = "local" BY DEF OperandNames, SourceOperand
      <4>2. PICK l : l = op.of OBVIOUS
      <4>3. x = SourceName(l) BY <4>1, <4>2 DEF OperandNames, SourceOperand, Local
      <4>4. l \in DOMAIN m /\ l \in ReadsAt(t, i) BY <4>1, <4>2 DEF Has, Reads
      <4>5. l \in DOMAIN trace[<<t, i>>] BY <1>1, <4>4
      <4> QED BY <2>5, <4>3, <4>4, <4>5, ReadInScope
    <3>8. Accepted(LetOf(s), w) /\ Inferred(LetOf(s), w) = ty
      <4>1. Has(m, s.rvalue.a) /\ Has(m, s.rvalue.b) BY <2>1 DEF AssignTaken
      <4>2. Reads(s.rvalue.a) \subseteq ReadsAt(t, i) /\ Reads(s.rvalue.b) \subseteq ReadsAt(t, i)
        BY <2>4
      <4>3. NamesIn(s, w) BY <2>2, <3>7, <4>1, <4>2 DEF NamesIn
      <4>4. Reads(s.rvalue.a) \cup Reads(s.rvalue.b) \subseteq N BY <1>1, <4>1 DEF Has, Reads
      <4> QED BY <2>2, <2>5, <3>3, <4>3, <4>4, LetAccepted
    <3>9. AfterLine(Going(w), LineOf(s)) = Going(u) BY <2>5, <3>3, <3>6, <3>8, LetDeclares
    <3>10. /\ u \in Seq(S \cup {d}) /\ Len(u) = Len(w) /\ u[Len(w)] = d
           /\ \A n \in 1..(Len(w) - 1) : u[n] = w[n]
      BY <1>3, <3>5, ScopesMove
    <3>11. \A n \in 1..Len(w) : DOMAIN w[n] \subseteq DOMAIN u[n]
      <4>1. DOMAIN d = DOMAIN top \cup {name} BY <3>4
      <4>2. \A n \in 1..Len(w) : n = Len(w) \/ n \in 1..(Len(w) - 1) BY <3>2
      <4> QED BY <3>4, <3>10, <4>1, <4>2
    <3>12. name \in DOMAIN u[Len(w)] BY <3>4, <3>10
    <3>13. u[1] = w[1]
      <4>1. 1 \in 1..(Len(w) - 1) BY <1>3, <3>2
      <4> QED BY <3>10, <4>1
    <3>14. s.place \in lost BY <1>1, <2>3, <2>7 DEF LostIn, Hidden
    <3>15. ScopeAgrees(u[1], m2, v, lost)
      <4>1. \A l \in DOMAIN m2 \ lost : l \in DOMAIN m \ lost /\ m2[l].den[v] = m[l].den[v]
        BY <2>1, <3>14 DEF AssignTaken
      <4> QED BY <1>1, <3>13, <4>1 DEF ScopeAgrees
    <3>16. Len(u) = Len(w) + 0 BY <3>2, <3>10
    <3>17. AllTyped(u, N)
      <4>1. s.place \in N BY <2>5 DEF StatementFits
      <4>2. ScopeTyped(top, N) BY <1>3, <3>4 DEF AllTyped
      <4>3. name = SourceName(s.place) BY <3>3
      <4>4. /\ DOMAIN d = DOMAIN top \cup {name} /\ \A y \in DOMAIN top \ {name} : d[y] = top[y]
            /\ d[name].ty = RustType(body, s.place)
        BY <3>3, <3>4 DEF Variable
      <4>5. ScopeTyped(d, N) BY <4>1, <4>2, <4>3, <4>4, DeclaredTyped
      <4> SUFFICES ASSUME NEW n \in DOMAIN u PROVE ScopeTyped(u[n], N) BY DEF AllTyped
      <4>6. CASE n = Len(w) BY <3>10, <4>5, <4>6
      <4>7. CASE n # Len(w)
        <5>1. n \in 1..(Len(w) - 1) /\ n \in DOMAIN w BY <3>2, <3>10, <4>7
        <5>2. u[n] = w[n] BY <3>10, <5>1
        <5> QED BY <5>1, <5>2 DEF AllTyped
      <4> QED BY <4>6, <4>7
    <3> QED BY <1>1, <2>5, <3>3, <3>9, <3>10, <3>11, <3>12, <3>15, <3>16, <3>17 DEF LineGoes
  <2> QED BY <2>6, <2>7
<1> QED BY <1>1, <1>4, <1>5, BlockShape

\* The lines of a statement go from the values and the scopes before it to those
\* after it.
LEMMA StatementRuns ==
  ASSUME WalkEnded, NEW t \in DOMAIN body.blocks, <<t, 1>> \in DOMAIN trace,
         NEW i \in 1..Len(Statements(t)), NEW U, t \notin U,
         NEW N, Apart(N), DOMAIN trace[<<t, i>>] \subseteq N, DOMAIN trace[<<t, i + 1>>] \subseteq N,
         Statements(t)[i].kind = "assign" =>
           ShelteredAt(t, i, U \cup {t}) /\ StatementFits(Statements(t)[i], N),
         NEW v \in Inputs(body), NEW base, base = DOMAIN trace[<<t, 1>>] \ LostIn(U),
         NEW st, Stands(st, t, i, base, trace[<<t, i>>], v, LostIn(U \cup {t}), N)
  PROVE  Stands(RunLines(st, StatementLines(Statements(t), i)), t, i + 1, base,
                trace[<<t, i + 1>>], v, LostIn(U \cup {t}), N)
<1>1. PICK ss, s, c, opened :
        /\ ss = Statements(t) /\ s = ss[i] /\ c = Cardinality(EndingAt(ss, i))
        /\ opened = IF s.kind = "unsafe" THEN 1 ELSE 0
  OBVIOUS
<1>2. PICK a, b : a = Cardinality(Around(t, i)) /\ b = Cardinality(Around(t, i + 1)) OBVIOUS
<1>3. /\ IsFiniteSet(Around(t, i)) /\ IsFiniteSet(Around(t, i + 1))
      /\ a \in Nat /\ b \in Nat /\ c \in Nat /\ b + c = a + opened
      /\ Around(t, i + 1) \subseteq Around(t, i) \cup {i}
      /\ s.kind # "unsafe" => Around(t, i + 1) \subseteq Around(t, i)
  BY <1>1, <1>2, AroundNext DEF WalkEnded
<1>4. opened \in {0, 1} BY <1>1
<1>5. PICK S, w :
        /\ w \in Seq(S) /\ st = Going(w) /\ Opened(w, t, i, base)
        /\ ScopeAgrees(w[1], trace[<<t, i>>], v, LostIn(U \cup {t})) /\ AllTyped(w, N)
  BY DEF Stands
<1>6. PICK R, u :
        /\ u \in Seq(R)
        /\ AfterLine(Going(w), LineOf(s)) = Going(u)
        /\ Len(u) = Len(w) + opened
        /\ \A n \in 1..Len(w) : DOMAIN w[n] \subseteq DOMAIN u[n]
        /\ s.kind = "assign" => SourceName(s.place) \in DOMAIN u[Len(w)]
        /\ ScopeAgrees(u[1], trace[<<t, i + 1>>], v, LostIn(U \cup {t}))
        /\ AllTyped(u, N)
  <2>1. LineGoes(w, s, trace[<<t, i + 1>>], v, LostIn(U \cup {t}), N) BY <1>1, <1>5, LineRuns
  <2> QED BY <1>1, <2>1 DEF LineGoes
<1>7. Len(w) = 1 + a BY <1>2, <1>5 DEF Opened
<1>8. PICK closing : closing = [j \in 1..c |-> CloseLine] OBVIOUS
<1>9. PICK x \in Seq(R) : /\ RunLines(Going(u), closing) = Going(x)
                          /\ Len(x) = Len(u) - c /\ \A n \in 1..Len(x) : x[n] = u[n]
  <2>1. c < Len(u) BY <1>3, <1>4, <1>6, <1>7
  <2> QED BY <1>3, <1>6, <1>8, <2>1, RunClosing
<1>10. Len(x) = 1 + b BY <1>3, <1>4, <1>6, <1>7, <1>9
<1>11. RunLines(st, StatementLines(ss, i)) = Going(x)
  <2>1. PICK first, lines, L : first = LineOf(s) /\ lines = <<first>> /\ L = {first, CloseLine}
    OBVIOUS
  <2>2. StatementLines(ss, i) = lines \o closing
    <3>1. s.kind = "unsafe" => first = OpenLine BY <2>1 DEF LineOf
    <3>2. s.kind # "unsafe" =>
            first = LetLine(SourceName(s.place), RustType(body, s.place), SourceRvalue(s.rvalue))
      BY <2>1 DEF LineOf, LetOf
    <3> QED BY <1>1, <1>8, <2>1, <3>1, <3>2 DEF StatementLines
  <2>3. lines \in Seq(L) BY <2>1
  <2>4. closing \in Seq(L)
    <3>1. closing \in [1..c -> L] BY <1>8, <2>1
    <3> QED BY <1>3, <3>1
  <2>5. RunLines(st, lines \o closing) = RunLines(RunLines(st, lines), closing)
    BY <2>3, <2>4, RunJoined
  <2>6. RunLines(st, lines) = AfterLine(st, first) BY <2>1, RunFew
  <2> QED BY <1>5, <1>6, <1>9, <2>1, <2>2, <2>5, <2>6
<1>12. ScopeAgrees(x[1], trace[<<t, i + 1>>], v, LostIn(U \cup {t}))
  <2>1. 1 \in 1..Len(x) BY <1>3, <1>10
  <2> QED BY <1>6, <1>9, <2>1
<1>13. \A n \in 1..(1 + b) : n <= 1 + a => DOMAIN w[n] \subseteq DOMAIN x[n]
  BY <1>3, <1>6, <1>7, <1>9, <1>10
<1>14. ASSUME NEW k \in Assignments(t), k < i + 1, Around(t, k) \subseteq Around(t, i + 1)
       PROVE  SourceName(ss[k].place) \in DOMAIN x[1 + Cardinality(Around(t, k))]
  <2>1. PICK d : d = Cardinality(Around(t, k)) OBVIOUS
  <2>2. k \in 1..Len(ss) /\ i \in Nat /\ ss[k].kind = "assign"
    BY <1>1, BlockShape DEF Assignments
  <2>3. d \in Nat BY <1>1, <2>1, <2>2, AroundNext DEF WalkEnded
  <2>4. d <= b BY <1>2, <1>3, <1>14, <2>1, FS_Subset
  <2>5. CASE k < i
    <3>1. i \notin Around(t, k) BY <2>2, <2>5 DEF Around
    <3>2. Around(t, k) \subseteq Around(t, i) BY <1>3, <1>14, <3>1
    <3>3. d <= a BY <1>2, <1>3, <2>1, <3>2, FS_Subset
    <3>4. SourceName(ss[k].place) \in DOMAIN w[1 + d] BY <1>1, <1>5, <2>1, <2>5, <3>2 DEF Opened
    <3>5. 1 + d \in 1..(1 + b) /\ 1 + d <= 1 + a BY <1>3, <2>3, <2>4, <3>3
    <3> QED BY <1>13, <2>1, <3>4, <3>5
  <2>6. CASE k = i
    <3>1. s.kind = "assign" /\ s.kind # "unsafe" /\ opened = 0 BY <1>1, <2>2, <2>6
    <3>2. Around(t, i + 1) = Around(t, i) BY <1>3, <1>14, <2>6, <3>1
    <3>3. d = a /\ a = b BY <1>2, <2>1, <2>6, <3>2
    <3>4. 1 + d \in 1..Len(x) /\ Len(w) = 1 + d BY <1>3, <1>7, <1>10, <3>3
    <3>5. x[1 + d] = u[1 + d] BY <1>9, <3>4
    <3> QED BY <1>1, <1>6, <2>1, <2>6, <3>1, <3>4, <3>5
  <2>7. k < i \/ k = i BY <1>1, <1>14, <2>2
  <2> QED BY <2>5, <2>6, <2>7
<1>15. Opened(x, t, i + 1, base)
  <2>1. \A l \in base : SourceName(l) \in DOMAIN x[1]
    <3>1. 1 \in 1..(1 + b) /\ 1 <= 1 + a BY <1>3
    <3> QED BY <1>5, <1>13, <3>1 DEF Opened
  <2> QED BY <1>1, <1>2, <1>10, <1>14, <2>1 DEF Opened
<1>16. AllTyped(x, N)
  <2> SUFFICES ASSUME NEW n \in DOMAIN x PROVE ScopeTyped(x[n], N) BY DEF AllTyped
  <2>1. n \in 1..Len(x) /\ n \in DOMAIN u BY <1>3, <1>6, <1>7, <1>9, <1>10
  <2>2. x[n] = u[n] BY <1>9, <2>1
  <2> QED BY <1>6, <2>1, <2>2 DEF AllTyped
<1> QED BY <1>1, <1>11, <1>12, <1>15, <1>16 DEF Stands

\* The lines of the statements of a block.
LinesOf(t) == SX!FlattenSeq([i \in 1..Len(Statements(t)) |-> StatementLines(Statements(t), i)])

\* The lines of statements.
LineSet(ss) == {OpenLine, CloseLine} \cup {LetOf(s) : s \in {ss[k] : k \in 1..Len(ss)}}

\* What the lines of a block are made of.
LEMMA StatementLinesTyped ==
  ASSUME WalkEnded, NEW t \in DOMAIN body.blocks, NEW i \in 1..Len(Statements(t))
  PROVE  StatementLines(Statements(t), i) \in Seq(LineSet(Statements(t)))
<1>1. PICK ss, c, R :
        ss = Statements(t) /\ c = Cardinality(EndingAt(ss, i)) /\ R = LineSet(ss)
  OBVIOUS
<1>2. c \in Nat BY <1>1, AroundNext DEF WalkEnded
<1>3. PICK line, closing :
        /\ line = IF ss[i].kind = "unsafe" THEN OpenLine ELSE LetOf(ss[i])
        /\ closing = [j \in 1..c |-> CloseLine]
  OBVIOUS
<1>4. line \in R /\ CloseLine \in R BY <1>1, <1>3 DEF LineSet
<1>5. closing \in Seq(R)
  <2>1. closing \in [1..c -> R] BY <1>3, <1>4
  <2> QED BY <1>2, <2>1
<1>6. PICK first : first = <<line>> OBVIOUS
<1>7. first \in Seq(R) BY <1>4, <1>6
<1>8. StatementLines(ss, i) = first \o closing BY <1>1, <1>3, <1>6 DEF StatementLines, LetOf
<1>9. first \o closing \in Seq(R) BY <1>5, <1>7, Joined
<1> QED BY <1>1, <1>8, <1>9

\* They are a sequence of lines, and so is a source they are added to.
LEMMA LinesTyped ==
  ASSUME WalkEnded, NEW t \in DOMAIN body.blocks
  PROVE  LinesOf(t) \in Seq(LineSet(Statements(t)))
<1>1. PICK ss, n, ps, R :
        /\ ss = Statements(t) /\ n = Len(ss) /\ ps = [i \in 1..n |-> StatementLines(ss, i)]
        /\ R = LineSet(ss)
  OBVIOUS
<1>2. n \in Nat BY <1>1, BlockShape
<1>3. \A i \in 1..n : ps[i] \in Seq(R) BY <1>1, StatementLinesTyped
<1>4. ps = [i \in 1..n |-> ps[i]] BY <1>1
<1>5. SX!FlattenSeq(ps) \in Seq(R) BY <1>2, <1>3, <1>4, RunFlattened
<1> QED BY <1>1, <1>5 DEF LinesOf

\* The statements of t, and what it ends with, fit in the source.
BlockFits(t, N) ==
  /\ \A i \in Assignments(t) : StatementFits(Statements(t)[i], N)
  /\ Terminator(t).kind = "assert" => OperandTyped(body, Terminator(t).condition, "bool")

\* The lines of the statements of a block the walk entered, run on the values it
\* entered it with, leave the values before its end.
LEMMA StatementsRun ==
  ASSUME WalkEnded, NEW t \in DOMAIN body.blocks, <<t, 1>> \in DOMAIN trace,
         NEW U, t \notin U, Sheltered(t, U \cup {t}),
         NEW N, Apart(N), DOMAIN trace[<<t, 1>>] \subseteq N, BlockFits(t, N),
         NEW v \in Inputs(body), NEW st, GoingWith(st, trace[<<t, 1>>], v, LostIn(U), N)
  PROVE  /\ GoingWith(RunLines(st, LinesOf(t)), trace[Exit(t)], v, LostIn(U \cup {t}), N)
         /\ DOMAIN trace[Exit(t)] \subseteq N
<1>1. PICK ss, n, ps, R :
        /\ ss = Statements(t) /\ n = Len(ss) /\ ps = [i \in 1..n |-> StatementLines(ss, i)]
        /\ R = LineSet(ss)
  OBVIOUS
<1>2. n \in Nat /\ DOMAIN ss = 1..n /\ WellFormedBody(body) BY <1>1, BlockShape DEF WalkEnded
<1>3. \A i \in 1..n : ps[i] = StatementLines(ss, i) /\ ps[i] \in Seq(R)
  BY <1>1, StatementLinesTyped
<1>4. ps = [i \in 1..n |-> ps[i]] BY <1>1
<1>5. PICK go : /\ go[0] = st /\ \A i \in 1..n : go[i] = RunLines(go[i - 1], ps[i])
                /\ RunLines(st, SX!FlattenSeq(ps)) = go[n]
  <2>1. \A i \in 1..n : ps[i] \in Seq(R) BY <1>3
  <2>2. \E go : PartsRun(st, ps, n, go)
    BY <1>2, <1>4, <2>1, RunFlattened
  <2> QED BY <2>2 DEF PartsRun
<1>6. LinesOf(t) = SX!FlattenSeq(ps) BY <1>1 DEF LinesOf
<1>7. PICK base, lost : base = DOMAIN trace[<<t, 1>>] \ LostIn(U) /\ lost = LostIn(U \cup {t})
  OBVIOUS
<1>8. \A j \in 1..(n + 1) : DOMAIN trace[<<t, j>>] \subseteq N
  <2>1. \A j \in 1..(n + 1) : PlacesBefore(t, j) \subseteq N
    BY DEF PlacesBefore, BlockFits, StatementFits
  <2> QED BY <1>1, <2>1, BlockPassed
<1> DEFINE Good(j) == Stands(go[j], t, j + 1, base, trace[<<t, j + 1>>], v, lost, N)
           T == {j \in 0..n : ~Good(j)}
<1>9. Good(0)
  <2>1. PICK sc : /\ st = Going(<<sc>>) /\ ScopeAgrees(sc, trace[<<t, 1>>], v, LostIn(U))
                  /\ ScopeTyped(sc, N)
    BY DEF GoingWith
  <2>2. PICK w : w = <<sc>> OBVIOUS
  <2>3. w \in Seq({sc}) /\ Len(w) = 1 /\ w[1] = sc BY <2>2
  <2>9. AllTyped(w, N) BY <2>1, <2>2 DEF AllTyped
  <2>4. LostIn(U) \subseteq lost BY <1>7 DEF LostIn
  <2>5. ScopeAgrees(w[1], trace[<<t, 1>>], v, lost) BY <2>1, <2>3, <2>4 DEF ScopeAgrees
  <2>6. Opened(w, t, 1, base)
    <3>1. Cardinality(Around(t, 1)) = 0 BY <1>2, AroundEnds
    <3>2. Len(w) = 1 + Cardinality(Around(t, 1)) BY <2>3, <3>1
    <3>3. \A l \in base : SourceName(l) \in DOMAIN w[1] BY <1>7, <2>1, <2>3 DEF ScopeAgrees
    <3>4. \A k \in Assignments(t) : ~(k < 1) BY <1>1, <1>2 DEF Assignments
    <3> QED BY <3>2, <3>3, <3>4 DEF Opened
  <2>7. Stands(go[0], t, 1, base, trace[<<t, 1>>], v, lost, N)
    BY <1>5, <2>1, <2>2, <2>3, <2>5, <2>6, <2>9 DEF Stands
  <2>8. 0 + 1 = 1 OBVIOUS
  <2> QED BY <2>7, <2>8
<1>10. ASSUME NEW j \in 1..n, Good(j - 1) PROVE Good(j)
  <2>1. PICK s : s = go[j - 1] OBVIOUS
  <2>2. (j - 1) + 1 = j /\ j + 1 \in 1..(n + 1) BY <1>2
  <2>3. Stands(s, t, j, base, trace[<<t, j>>], v, lost, N) BY <1>10, <2>1, <2>2
  <2>4. Statements(t)[j].kind = "assign" =>
          ShelteredAt(t, j, U \cup {t}) /\ StatementFits(Statements(t)[j], N)
    BY <1>1, <1>2 DEF Assignments, Sheltered, BlockFits
  <2>5. DOMAIN trace[<<t, j>>] \subseteq N /\ DOMAIN trace[<<t, j + 1>>] \subseteq N
    BY <1>2, <1>8, <2>2
  <2>6. j \in 1..Len(Statements(t)) BY <1>1
  <2>7. Stands(RunLines(s, StatementLines(Statements(t), j)), t, j + 1, base,
               trace[<<t, j + 1>>], v, LostIn(U \cup {t}), N)
    BY <1>7, <2>3, <2>4, <2>5, <2>6, StatementRuns
  <2>8. go[j] = RunLines(s, StatementLines(Statements(t), j)) BY <1>1, <1>3, <1>5, <2>1
  <2> QED BY <1>7, <2>7, <2>8
<1>11. T = {}
  <2>1. SUFFICES ASSUME T # {} PROVE FALSE OBVIOUS
  <2>2. PICK j \in T : \A y \in T : j <= y
    <3>1. T \in SUBSET Nat OBVIOUS
    <3> HIDE DEF T
    <3> QED BY <2>1, <3>1, LeastNat
  <2>3. j # 0 BY <1>9, <2>2
  <2>4. j \in 1..n /\ j - 1 \in 0..n /\ ~(j <= j - 1) BY <1>2, <2>2, <2>3
  <2>5. Good(j - 1) BY <2>2, <2>4
  <2> HIDE DEF Good
  <2>6. Good(j) BY <1>10, <2>4, <2>5
  <2> QED BY <2>2, <2>6
<1>12. Good(n)
  <2>1. n \in 0..n BY <1>2
  <2> QED BY <1>11, <2>1
<1>13. PICK S, w :
         /\ w \in Seq(S) /\ go[n] = Going(w) /\ Opened(w, t, n + 1, base)
         /\ ScopeAgrees(w[1], trace[<<t, n + 1>>], v, lost) /\ AllTyped(w, N)
  BY <1>12 DEF Stands
<1>14. Cardinality(Around(t, n + 1)) = 0 BY <1>1, <1>2, AroundEnds
<1>15. PICK sc : sc = w[1] OBVIOUS
<1>16. w = <<sc>>
  <2>1. Len(w) = 1 BY <1>13, <1>14 DEF Opened
  <2> QED BY <1>13, <1>15, <2>1
<1>17. ScopeTyped(sc, N) BY <1>13, <1>15, <1>16 DEF AllTyped
<1>18. GoingWith(go[n], trace[<<t, n + 1>>], v, lost, N) BY <1>13, <1>15, <1>16, <1>17 DEF GoingWith
<1>19. n + 1 \in 1..(n + 1) BY <1>2
<1> QED BY <1>1, <1>5, <1>6, <1>7, <1>8, <1>18, <1>19 DEF Exit

\* The lines of a block can be added to a source.
LEMMA BlockAdded ==
  ASSUME WalkEnded, NEW t \in DOMAIN body.blocks, NEW S, NEW before \in Seq(S)
  PROVE  LET end == TerminatorLines(Terminator(t))
         IN  /\ BlockLines(body.blocks[t]) = LinesOf(t) \o end
             /\ \E R : /\ before \in Seq(R) /\ LinesOf(t) \in Seq(R) /\ end \in Seq(R)
                       /\ before \o BlockLines(body.blocks[t]) \in Seq(R)
<1>1. PICK lines, end, R1 :
        /\ lines = LinesOf(t) /\ end = TerminatorLines(Terminator(t)) /\ R1 = LineSet(Statements(t))
  OBVIOUS
<1>2. BlockLines(body.blocks[t]) = lines \o end
  <2>1. DOMAIN Statements(t) = 1..Len(Statements(t)) BY BlockShape
  <2> QED BY <1>1, <2>1 DEF BlockLines, LinesOf, Statements, Terminator
<1>3. PICK x : end = <<>> \/ end = <<x>> BY <1>1 DEF TerminatorLines
<1>4. PICK R : R = S \cup R1 \cup {x} OBVIOUS
<1>5. S \subseteq R /\ R1 \subseteq R /\ x \in R BY <1>4
<1>6. before \in Seq(R) BY <1>5
<1>7. lines \in Seq(R)
  <2>1. lines \in Seq(R1) BY <1>1, LinesTyped
  <2> QED BY <1>5, <2>1
<1>8. end \in Seq(R)
  <2>1. CASE end = <<>> BY <2>1
  <2>2. CASE end = <<x>> BY <1>5, <2>2
  <2> QED BY <1>3, <2>1, <2>2
<1>9. PICK added : added = lines \o end OBVIOUS
<1>10. added \in Seq(R) BY <1>7, <1>8, <1>9, Joined
<1>11. before \o added \in Seq(R) BY <1>6, <1>10, Joined
<1> QED BY <1>1, <1>2, <1>6, <1>7, <1>8, <1>9, <1>11

\* A block the walk entered, run on the values the walk entered it with, leaves
\* the values the walk left it with, or returns the first of them.
LEMMA BlockRuns ==
  ASSUME WalkEnded, NEW t \in DOMAIN body.blocks, <<t, 1>> \in DOMAIN trace,
         NEW U, t \notin U, Sheltered(t, U \cup {t}),
         NEW N, Apart(N), DOMAIN trace[<<t, 1>>] \subseteq N, BlockFits(t, N),
         NEW v \in Inputs(body), NEW start, NEW S, NEW before \in Seq(S),
         GoingWith(RunLines(start, before), trace[<<t, 1>>], v, LostIn(U), N)
  PROVE  LET w == before \o BlockLines(body.blocks[t])
         IN  /\ ~ReturnsAt(t) =>
                  GoingWith(RunLines(start, w), trace[Exit(t)], v, LostIn(U \cup {t}), N)
             /\ ReturnsAt(t) /\ 0 \in DOMAIN trace[Exit(t)] \ LostIn(U \cup {t}) =>
                  Answers(RunLines(start, w), trace[Exit(t)][0].den[v])
<1>1. PICK lines, end, st, term, lost, m :
        /\ lines = LinesOf(t) /\ term = Terminator(t) /\ end = TerminatorLines(term)
        /\ st = RunLines(start, before \o lines) /\ lost = LostIn(U \cup {t}) /\ m = trace[Exit(t)]
  OBVIOUS
<1>2. BlockLines(body.blocks[t]) = lines \o end BY <1>1, BlockAdded
<1>3. GoingWith(RunLines(RunLines(start, before), lines), m, v, lost, N) /\ DOMAIN m \subseteq N
  <2>1. PICK from : from = RunLines(start, before) OBVIOUS
  <2>2. GoingWith(from, trace[<<t, 1>>], v, LostIn(U), N) BY <2>1
  <2> QED BY <1>1, <2>1, <2>2, StatementsRun
<1>4. PICK R : before \in Seq(R) /\ lines \in Seq(R) /\ end \in Seq(R) BY <1>1, BlockAdded
<1>5. before \o (lines \o end) = (before \o lines) \o end BY <1>4
<1>6. before \o lines \in Seq(R) BY <1>4, Joined
<1>7. RunLines(start, before \o (lines \o end)) = RunLines(st, end)
  <2>1. PICK both : both = before \o lines OBVIOUS
  <2>2. both \in Seq(R) /\ end \in Seq(R) BY <1>4, <1>6, <2>1
  <2>3. RunLines(start, both \o end) = RunLines(RunLines(start, both), end) BY <2>2, RunJoined
  <2> QED BY <1>1, <1>5, <2>1, <2>3
<1>8. GoingWith(st, m, v, lost, N)
  <2>1. st = RunLines(RunLines(start, before), lines) BY <1>1, <1>4, RunJoined
  <2> QED BY <1>3, <2>1
<1>9. PICK all : all = RunLines(start, before \o BlockLines(body.blocks[t])) OBVIOUS
<1>10. all = RunLines(st, end) BY <1>2, <1>7, <1>9
<1>11. CASE term.kind = "return"
  <2>1. end = <<TailLine(SourceName(0))>> BY <1>1, <1>11 DEF TerminatorLines
  <2>2. all = AfterLine(st, TailLine(SourceName(0))) BY <1>10, <2>1, RunFew
  <2>3. 0 \in DOMAIN m \ lost => Answers(all, m[0].den[v]) BY <1>3, <1>8, <2>2, TailAgrees
  <2> QED BY <1>1, <1>9, <1>11, <2>3 DEF ReturnsAt
<1>12. CASE term.kind = "goto"
  <2>1. end = <<>> BY <1>1, <1>12 DEF TerminatorLines
  <2>2. all = st BY <1>10, <2>1, RunFew
  <2> QED BY <1>1, <1>8, <1>9, <1>12, <2>2 DEF ReturnsAt
<1>13. CASE term.kind = "assert"
  <2>1. PICK line : line = CheckLine(SourceOperand(term.condition), term.expected) OBVIOUS
  <2>2. end = <<line>> BY <1>1, <1>13, <2>1 DEF TerminatorLines
  <2>3. all = AfterLine(st, line) BY <1>10, <2>2, RunFew
  <2>4. PICK p : p = Exit(t) OBVIOUS
  <2>5. ExitTaken(p) /\ p[1] = t BY <2>4, BlockPassed DEF Exit
  <2>6. Has(m, term.condition) /\ OpDen(m, term.condition, v) = Truth(term.expected)
    BY <1>1, <1>13, <2>4, <2>5 DEF ExitTaken
  <2>7. Operand(term.condition) BY <1>1, <1>13, BlockShape
  <2>8. Reads(term.condition) \cap lost = {}
    <3>1. PICK i : i = Len(Statements(t)) + 1 OBVIOUS
    <3>2. Around(t, i) = {} BY <3>1, AroundEnds DEF WalkEnded
    <3>3. i \notin DOMAIN Statements(t) BY <3>1, BlockShape
    <3>4. ReadsAt(t, i) = Reads(term.condition) BY <1>1, <1>13, <3>3 DEF ReadsAt
    <3>5. ShelteredAt(t, i, U \cup {t}) BY <3>1 DEF Sheltered
    <3> QED BY <1>1, <3>2, <3>4, <3>5, ReadKept
  <2>9. OperandTyped(body, term.condition, "bool") BY <1>1, <1>13 DEF BlockFits
  <2>10. all = st BY <1>3, <1>8, <2>1, <2>3, <2>6, <2>7, <2>8, <2>9, CheckAgrees
  <2> QED BY <1>1, <1>8, <1>9, <1>13, <2>10 DEF ReturnsAt
<1> QED BY <1>1, <1>11, <1>12, <1>13, BlockShape

-----------------------------------------------------------------------------
(* The extraction follows the chain of the walk: what it has printed so    *)
(* far, run on any arguments, goes as far as the block that waits, with    *)
(* the values the walk entered it with.                                    *)

Ran(v) == RunLines(Started(params, v), source)

\* The premises of ExtractedAgrees that speak of what was printed so far.
Fitting == NamesDistinct /\ Contained /\ NamesLegal /\ TypesFit

\* The block t waits. It has not been printed, since the walk met no block twice:
\* the block printed last leads to it, and other blocks to those printed before.
OnTrack(t) ==
  /\ <<t, 1>> \in DOMAIN trace
  /\ \/ t = 0 /\ exVisited = {}
     \/ \E c \in exVisited :
          Leads(c, t) /\ \A s \in exVisited \ {0} : \E d \in exVisited \ {c} : Leads(d, s)
  /\ DOMAIN trace[<<t, 1>>] \subseteq Named
  /\ Fitting =>
       \A v \in Inputs(body) : GoingWith(Ran(v), trace[<<t, 1>>], v, LostIn(exVisited), Named)
\* The block that returns has been printed.
Complete ==
  \E b \in exVisited :
    /\ ReturnsAt(b)
    /\ Fitting /\ 0 \in DOMAIN trace[Exit(b)] =>
         \A v \in Inputs(body) : Answers(Ran(v), trace[Exit(b)][0].den[v])

Printing == Verified /\ ArgsDeclared
ParamOf(l) == [name |-> SourceName(l), ty |-> RustType(body, l)]
Params == [k \in 1..Len(body.args) |-> ParamOf(body.args[k])]
InPrint ==
  /\ params = Params /\ returns = RustType(body, 0)
  /\ exVisited \subseteq visited
  /\ \E S : source \in Seq(S)
  /\ \/ exStatus = "running" /\ \E t : exStack = <<t>> /\ OnTrack(t)
     \/ exStack = <<>> /\ Complete
SourceInv ==
  /\ exStatus = "idle" => source = <<>> /\ exVisited = {}
  /\ Printing /\ exStatus \in {"running", "ok"} => InPrint

\* A verification that is done.
LEMMA EndDone ==
  ASSUME WalkedOK, Verified
  PROVE  WalkEnded
BY WalkDone DEF WalkEnded

\* The walk of a verification that is done is a whole chain.
LEMMA ChainDone ==
  ASSUME WalkedOK, Verified
  PROVE  /\ \A b \in visited : ReturnsAt(b) => values = trace[Exit(b)]
         /\ \A b, c \in visited : ReturnsAt(b) /\ ReturnsAt(c) => b = c
         /\ \A b, c \in visited : \A t : Leads(b, t) /\ Leads(c, t) => b = c
         /\ \A b \in visited : ~Leads(b, 0)
<1>1. status = "ok" /\ ~looped BY DEF Verified
<1>2. Chain /\ Walked /\ Typed BY <1>1 DEF WalkedOK, ChainInv, WalkInv
<1>3. block = None /\ stack = <<>> BY <1>1, <1>2 DEF Walked
<1>4. Left = visited /\ ~Doomed
  <2>1. None \notin visited BY <1>2 DEF Chain, Typed, WalkOK, WellFormedBody
  <2> QED BY <1>3, <2>1 DEF Left, Doomed
<1> QED BY <1>2, <1>4 DEF Chain

\* What a step of the extraction leaves alone.
LEMMA PrintedSame ==
  ASSUME UNCHANGED <<ingestVars, historyVars>>
  PROVE  /\ (Printing' <=> Printing) /\ Inputs(body)' = Inputs(body) /\ trace' = trace
         /\ body' = body /\ visited' = visited /\ Params' = Params
         /\ \A l : SourceName(l)' = SourceName(l)
         /\ \A st, m, v, lost, N : GoingWith(st, m, v, lost, N)' <=> GoingWith(st, m, v, lost, N)
         /\ \A st, x : Answers(st, x)' <=> Answers(st, x)
         /\ \A N : Apart(N)' <=> Apart(N)
         /\ \A V : LostIn(V)' = LostIn(V)
         /\ \A b : (ReturnsAt(b)' <=> ReturnsAt(b)) /\ Exit(b)' = Exit(b) /\ Assignments(b)' = Assignments(b)
                   /\ Statements(b)' = Statements(b) /\ Terminator(b)' = Terminator(b)
                   /\ \A k : Around(b, k)' = Around(b, k) /\ ReadsAt(b, k)' = ReadsAt(b, k)
                   /\ \A c : Leads(b, c)' <=> Leads(b, c)
<1>1. UNCHANGED <<function, body, status, visited, report, trace, looped>>
  BY DEF ingestVars, vars, historyVars
<1>2. \A l : SourceName(l)' = SourceName(l) BY <1>1 DEF SourceName
<1>3. \A sc, m, v, lost : ScopeAgrees(sc, m, v, lost)' <=> ScopeAgrees(sc, m, v, lost)
  BY <1>2 DEF ScopeAgrees
<1>12. \A sc, N : ScopeTyped(sc, N)' <=> ScopeTyped(sc, N) BY <1>1, <1>2 DEF ScopeTyped
<1>4. \A st, m, v, lost, N : GoingWith(st, m, v, lost, N)' <=> GoingWith(st, m, v, lost, N)
  BY <1>3, <1>12 DEF GoingWith
<1>13. \A st, x : Answers(st, x)' <=> Answers(st, x) BY <1>1 DEF Answers
<1>5. \A N : Apart(N)' <=> Apart(N) BY <1>2 DEF Apart
<1>6. \A b : Statements(b)' = Statements(b) /\ Terminator(b)' = Terminator(b)
  BY <1>1 DEF Statements, Terminator
<1>7. Printing' <=> Printing
  BY <1>1, <1>6 DEF Printing, Verified, ArgsDeclared, Declared
<1>8. Params' = Params BY <1>1, <1>2 DEF Params, ParamOf
<1>9. \A b, k : /\ Around(b, k)' = Around(b, k) /\ ReadsAt(b, k)' = ReadsAt(b, k)
               /\ Assignments(b)' = Assignments(b)
  BY <1>6 DEF Around, ReadsAt, Assignments
<1>10. \A b : Hidden(b)' = Hidden(b) BY <1>6, <1>9 DEF Hidden
<1>11. \A V : LostIn(V)' = LostIn(V) BY <1>10 DEF LostIn
<1> QED BY <1>1, <1>2, <1>4, <1>5, <1>6, <1>7, <1>8, <1>9, <1>11, <1>13 DEF ReturnsAt, Exit, Leads

\* The locals that are named may be more.
LEMMA GoingWithMore ==
  ASSUME NEW st, NEW m, NEW v, NEW lost, NEW N, NEW M, N \subseteq M, GoingWith(st, m, v, lost, N)
  PROVE  GoingWith(st, m, v, lost, M)
<1>1. PICK sc : st = Going(<<sc>>) /\ ScopeAgrees(sc, m, v, lost) /\ ScopeTyped(sc, N)
  BY DEF GoingWith
<1>2. ScopeTyped(sc, M) BY <1>1 DEF ScopeTyped
<1> QED BY <1>1, <1>2 DEF GoingWith

\* What fits when more blocks are printed did when fewer were; and then no block
\* reads what an unsafe block assigns elsewhere.
LEMMA ContainedBefore ==
  ASSUME UNCHANGED <<ingestVars, historyVars>>, exVisited \subseteq exVisited', Fitting'
  PROVE  /\ Fitting
         /\ \A t \in exVisited' : Sheltered(t, exVisited')
         /\ 0 \notin LostIn(exVisited')
<1>1. PICK V : V = exVisited' OBVIOUS
<1>2. /\ body' = body /\ \A l : SourceName(l)' = SourceName(l)
      /\ \A b : Statements(b)' = Statements(b) /\ Assignments(b)' = Assignments(b)
      /\ \A b, k : Around(b, k)' = Around(b, k) /\ ReadsAt(b, k)' = ReadsAt(b, k)
  BY PrintedSame
<1>3. \A b \in V : \A k \in Assignments(b) : \A j \in Around(b, k) :
        /\ Statements(b)[k].place # 0
        /\ \A c \in V : \A i \in Assignments(c) \cup {Len(Statements(c)) + 1} :
             Statements(b)[k].place \in ReadsAt(c, i) => c = b /\ j \in Around(b, i)
  BY <1>1, <1>2 DEF Fitting, Contained, ReadOutside
<1>4. Contained BY <1>1, <1>3 DEF Contained, ReadOutside
<1>5. Named \subseteq Named' BY <1>2 DEF Named
<1>6. NamesDistinct BY <1>2, <1>5 DEF Fitting, NamesDistinct
<1>7. ASSUME NEW t \in V PROVE Sheltered(t, V)
  BY <1>3, <1>7 DEF Sheltered, ShelteredAt
<1>8. 0 \notin LostIn(V) BY <1>3 DEF LostIn, Hidden
<1>9. NamesLegal BY <1>2, <1>5 DEF Fitting, NamesLegal
<1>10. TypesFit
  <2>1. \A b : Terminator(b)' = Terminator(b) BY PrintedSame
  <2> QED BY <1>2, <1>5, <2>1 DEF Fitting, TypesFit
<1> QED BY <1>1, <1>4, <1>6, <1>7, <1>8, <1>9, <1>10 DEF Fitting

\* A block that is printed fits in the source.
LEMMA BlockFitting ==
  ASSUME UNCHANGED <<ingestVars, historyVars>>, Fitting', NEW t \in exVisited',
         t \in DOMAIN body.blocks, WalkEnded
  PROVE  BlockFits(t, Named')
<1>1. /\ body' = body /\ \A l : SourceName(l)' = SourceName(l)
      /\ Statements(t)' = Statements(t) /\ Assignments(t)' = Assignments(t)
      /\ Terminator(t)' = Terminator(t)
  BY PrintedSame
<1>2. Terminator(t).kind = "assert" => OperandTyped(body, Terminator(t).condition, "bool")
  BY <1>1 DEF Fitting, TypesFit
<1>3. ASSUME NEW i \in Assignments(t) PROVE StatementFits(Statements(t)[i], Named')
  <2>1. PICK s : s = Statements(t)[i] OBVIOUS
  <2>2. s.place \in Named' BY <1>1, <2>1 DEF Named
  <2>3. SourceName(s.place) \notin Illegal BY <1>1, <2>2 DEF Fitting, NamesLegal
  <2>4. RvalueTyped(body, s.rvalue, RustType(body, s.place)) BY <1>1, <2>1 DEF Fitting, TypesFit
  <2>5. s.rvalue.op # "lt"
    BY <2>1 DEF WalkEnded, WellFormedBody, WellFormedBlock, WellFormedStatement, Assignments, Statements
  <2> QED BY <2>1, <2>2, <2>3, <2>4, <2>5 DEF StatementFits
<1> QED BY <1>2, <1>3 DEF BlockFits

\* The variables of a function that starts are its parameters.
LEMMA StartAgrees ==
  ASSUME ArgsDeclared, Len(body.args) \in Nat, DOMAIN body.args = 1..Len(body.args),
         NEW N, Apart(N), {body.args[k] : k \in DOMAIN body.args} \subseteq N,
         NEW v \in Inputs(body), NEW lost
  PROVE  GoingWith(Started(Params, v), ArgValues(body), v, lost, N)
<1>1. PICK n, ps : n = Len(body.args) /\ ps = Params OBVIOUS
<1>2. /\ n \in Nat /\ DOMAIN ps = 1..n /\ DOMAIN body.args = 1..n
      /\ \A k \in 1..n : /\ ps[k].name = SourceName(body.args[k])
                         /\ ps[k].ty = RustType(body, body.args[k]) /\ body.args[k] \in N
  BY <1>1 DEF Params, ParamOf
<1>3. \A j, k \in 1..n : ps[j].name = ps[k].name => j = k
  <2>1. ASSUME NEW j \in 1..n, NEW k \in 1..n, ps[j].name = ps[k].name PROVE j = k
    <3>1. SourceName(body.args[j]) = SourceName(body.args[k]) BY <1>2, <2>1
    <3>2. body.args[j] = body.args[k] BY <1>2, <3>1 DEF Apart
    <3> QED BY <1>2, <3>2 DEF ArgsDeclared
  <2> QED BY <2>1
<1> DEFINE which(x) == CHOOSE j \in DOMAIN ps : ps[j].name = x
           arg(l) == CHOOSE k \in DOMAIN body.args : body.args[k] = l
<1>4. ASSUME NEW k \in 1..n PROVE which(ps[k].name) = k
  <2>1. \A j \in DOMAIN ps : ps[j].name = ps[k].name => j = k BY <1>2, <1>3
  <2> QED BY <1>2, <2>1
<1>5. ASSUME NEW k \in 1..n PROVE arg(body.args[k]) = k
  <2>1. \A j \in DOMAIN body.args : body.args[j] = body.args[k] => j = k
    BY <1>2 DEF ArgsDeclared
  <2> QED BY <1>2, <2>1
<1> HIDE DEF which, arg
<1>6. PICK sc : sc = [x \in {ps[k].name : k \in DOMAIN ps} |-> Variable(ps[which(x)].ty, v[which(x)])]
  OBVIOUS
<1>7. Started(ps, v) = Going(<<sc>>) BY <1>6 DEF Started, which
<1>8. \A k \in 1..n : /\ ps[k].name \in DOMAIN sc
                      /\ sc[ps[k].name].ty = ps[k].ty /\ sc[ps[k].name].value = v[k]
  BY <1>2, <1>4, <1>6 DEF Variable
<1>9. ScopeAgrees(sc, ArgValues(body), v, lost)
  <2>1. PICK m : m = ArgValues(body) OBVIOUS
  <2>2. m = [l \in {body.args[k] : k \in DOMAIN body.args} |-> ArgVar(body, arg(l))]
    BY <2>1 DEF ArgValues, arg
  <2> SUFFICES ASSUME NEW l \in DOMAIN m
               PROVE  SourceName(l) \in DOMAIN sc /\ sc[SourceName(l)].value = m[l].den[v]
    BY <2>1 DEF ScopeAgrees
  <2>3. PICK k \in 1..n : l = body.args[k] BY <1>2, <2>2
  <2>4. m[l] = ArgVar(body, k) BY <1>5, <2>2, <2>3
  <2>5. m[l].den[v] = v[k] BY <2>4 DEF ArgVar, Term
  <2>6. SourceName(l) = ps[k].name BY <1>2, <2>3
  <2> QED BY <1>8, <2>5, <2>6
<1>10. ScopeTyped(sc, N)
  <2> SUFFICES ASSUME NEW x \in DOMAIN sc
               PROVE  \E l \in N : x = SourceName(l) /\ sc[x].ty = RustType(body, l)
    BY DEF ScopeTyped
  <2>1. PICK k \in 1..n : x = ps[k].name BY <1>2, <1>6
  <2> QED BY <1>2, <1>8, <2>1
<1> QED BY <1>1, <1>7, <1>9, <1>10 DEF GoingWith

\* The extraction starts with the parameters and no line.
LEMMA BeginPrints ==
  ASSUME WalkedOK, SourceInv, BeginExtract, UNCHANGED <<ingestVars, historyVars>>
  PROVE  SourceInv'
<1> SUFFICES ASSUME Printing', exStatus' \in {"running", "ok"}
             PROVE  InPrint'
  BY DEF SourceInv, BeginExtract
<1>1. /\ exStatus' = "running" /\ exStack' = <<0>> /\ exVisited' = {} /\ source' = <<>>
      /\ params' = SX!FlattenSeq([k \in DOMAIN body.args |-> Parameter(body.args[k])])
      /\ returns' = RustType(body, 0)
  BY DEF BeginExtract, SourceInv
<1>2. Printing /\ Verified /\ ArgsDeclared BY PrintedSame DEF Printing
<1>3. PICK n : n = Len(body.args) OBVIOUS
<1>4. n \in Nat /\ DOMAIN body.args = 1..n BY <1>2, <1>3, WalkDone DEF WellFormedBody
<1>5. params' = Params
  <2>1. PICK e : e = [k \in 1..n |-> ParamOf(body.args[k])] OBVIOUS
  <2>2. \A k \in 1..n : Parameter(body.args[k]) = <<e[k]>>
    BY <1>2, <1>4, <2>1 DEF ArgsDeclared, Parameter, ParamOf
  <2>3. [k \in DOMAIN body.args |-> Parameter(body.args[k])] = [k \in 1..n |-> <<e[k]>>]
    BY <1>4, <2>2
  <2>4. [k \in 1..n |-> e[k]] = e BY <2>1
  <2>5. PICK f : f = [k \in 1..n |-> <<e[k]>>] OBVIOUS
  <2>6. SX!FlattenSeq(f) = [k \in 1..n |-> e[k]] BY <1>4, <2>5, FlattenSingles
  <2> QED BY <1>1, <1>3, <2>1, <2>3, <2>4, <2>5, <2>6 DEF Params
<1>6. \E S : source' \in Seq(S)
  <2>1. <<>> \in Seq({}) OBVIOUS
  <2> QED BY <1>1, <2>1
<1>7. OnTrack(0)'
  <2>1. PICK m : m = ArgValues(body) OBVIOUS
  <2>2. <<0, 1>> \in DOMAIN trace /\ trace[<<0, 1>>] = m BY <1>2, <2>1, WalkDone
  <2>3. DOMAIN m = {body.args[k] : k \in DOMAIN body.args} BY <2>1 DEF ArgValues
  <2>4. {body.args[k] : k \in DOMAIN body.args} \subseteq Named' BY PrintedSame DEF Named
  <2>5. ASSUME Fitting', NEW v \in Inputs(body) PROVE GoingWith(Ran(v)', m, v, LostIn({}), Named')
    <3>1. Apart(Named') BY <2>5, PrintedSame DEF Fitting, NamesDistinct, Apart
    <3>2. PICK start : start = Started(params', v) OBVIOUS
    <3>3. GoingWith(start, m, v, LostIn({}), Named')
      BY <1>2, <1>3, <1>4, <1>5, <2>1, <2>4, <3>1, <3>2, StartAgrees
    <3>4. RunLines(start, <<>>) = start BY RunFew
    <3>5. Ran(v)' = start BY <1>1, <3>2, <3>4 DEF Ran
    <3> QED BY <3>3, <3>5
  <2>6. /\ trace' = trace /\ Inputs(body)' = Inputs(body)
        /\ \A st, v, lost, N : GoingWith(st, m, v, lost, N)' <=> GoingWith(st, m, v, lost, N)
        /\ \A V : LostIn(V)' = LostIn(V)
    BY PrintedSame
  <2>7. DOMAIN trace[<<0, 1>>]' \subseteq Named' BY <2>2, <2>3, <2>4, <2>6
  <2>8. Fitting' =>
          \A v \in Inputs(body)' :
            GoingWith(Ran(v), trace[<<0, 1>>], v, LostIn(exVisited), Named)'
    BY <1>1, <2>2, <2>5, <2>6
  <2> QED BY <1>1, <2>2, <2>6, <2>7, <2>8 DEF OnTrack
<1>8. params' = Params' /\ returns' = RustType(body, 0)' BY <1>1, <1>5, PrintedSame
<1>9. exVisited' \subseteq visited' BY <1>1
<1> QED BY <1>1, <1>6, <1>7, <1>8, <1>9 DEF InPrint

\* The block that waits is printed, once: what it leads to waits next, unless it
\* returns.
LEMMA BlockPrints ==
  ASSUME WalkedOK, SourceInv, ExtractBlock, UNCHANGED <<ingestVars, historyVars>>
  PROVE  SourceInv'
<1> SUFFICES ASSUME Printing', exStatus' \in {"running", "ok"}
             PROVE  InPrint'
  BY DEF SourceInv, ExtractBlock
<1>1. Printing /\ Verified /\ exStatus = "running" /\ exStack # <<>>
  BY PrintedSame DEF Printing, ExtractBlock
<1>2. /\ params = Params /\ returns = RustType(body, 0)
      /\ exVisited \subseteq visited
      /\ \E S : source \in Seq(S)
      /\ \E t : exStack = <<t>> /\ OnTrack(t)
  <2>1. InPrint BY <1>1 DEF SourceInv
  <2> QED BY <1>1, <2>1 DEF InPrint
<1>3. PICK t : exStack = <<t>> /\ OnTrack(t) BY <1>2
<1>4. ExTop = t /\ SX!Front(exStack) = <<>> BY <1>3 DEF ExTop, SX!Last, SX!Front
<1>5. /\ t \notin exVisited /\ t \in DOMAIN body.blocks /\ exVisited' = exVisited \cup {t}
      /\ source' = source \o BlockLines(body.blocks[t]) /\ exStatus' = "running"
      /\ params' = params /\ returns' = returns
  BY <1>1, <1>4 DEF ExtractBlock
<1>6. exStack' = <<>> \o Targets(Terminator(t)) BY <1>4 DEF ExtractBlock, Terminator
<1>7. <<t, 1>> \in DOMAIN trace BY <1>3 DEF OnTrack
<1>8. t \in visited
  <2>1. PICK p : p = <<t, 1>> OBVIOUS
  <2>2. PlacedRight(p) BY <1>1, <1>7, <2>1, WalkDone
  <2> QED BY <2>1, <2>2 DEF PlacedRight
<1>9. WalkEnded BY <1>1, EndDone
<1>10. \E R : source' \in Seq(R)
  <2>1. PICK S : source \in Seq(S) BY <1>2
  <2>2. PICK before, w : before = source /\ w = source' OBVIOUS
  <2>3. before \in Seq(S) /\ w = before \o BlockLines(body.blocks[t]) /\ t \in DOMAIN body.blocks
    BY <1>5, <2>1, <2>2
  <2>4. \E R : w \in Seq(R) BY <1>9, <2>3, BlockAdded
  <2> QED BY <2>2, <2>4
<1>11. Named' = Named \cup Places(t)
  <2>1. \A b : Assignments(b)' = Assignments(b) /\ Statements(b)' = Statements(b) BY PrintedSame
  <2>2. body' = body BY PrintedSame
  <2> QED BY <1>5, <2>1, <2>2 DEF Named, Places
<1>18. params' = Params' /\ returns' = RustType(body, 0)' /\ exVisited' \subseteq visited'
  BY <1>2, <1>5, <1>8, PrintedSame
<1>12. PICK m0, m : m0 = trace[<<t, 1>>] /\ m = trace[Exit(t)] OBVIOUS
<1>13. DOMAIN m0 \subseteq Named BY <1>3, <1>12 DEF OnTrack
<1>14. DOMAIN m \subseteq Named'
  <2>1. Len(Statements(t)) + 1 \in 1..(Len(Statements(t)) + 1) BY <1>5, <1>9, BlockShape
  <2>2. DOMAIN m \subseteq DOMAIN m0 \cup PlacesBefore(t, Len(Statements(t)) + 1)
    BY <1>5, <1>7, <1>9, <1>12, <2>1, BlockPassed DEF Exit
  <2>3. PlacesBefore(t, Len(Statements(t)) + 1) \subseteq Places(t) BY DEF PlacesBefore, Places
  <2> QED BY <1>11, <1>13, <2>2, <2>3
<1>15. ASSUME Fitting', NEW v \in Inputs(body)
       PROVE  /\ ~ReturnsAt(t) => GoingWith(Ran(v)', m, v, LostIn(exVisited'), Named')
              /\ ReturnsAt(t) /\ 0 \in DOMAIN m => Answers(Ran(v)', m[0].den[v])
  <2>1. PICK N, U, S : N = Named' /\ U = exVisited /\ source \in Seq(S) BY <1>2
  <2>2. Fitting /\ Sheltered(t, U \cup {t}) /\ 0 \notin LostIn(U \cup {t})
    BY <1>5, <1>15, <2>1, ContainedBefore
  <2>3. Apart(N) BY <1>15, <2>1, PrintedSame DEF Fitting, NamesDistinct, Apart
  <2>4. DOMAIN m0 \subseteq N /\ Named \subseteq N BY <1>11, <1>13, <2>1
  <2>10. BlockFits(t, N) BY <1>5, <1>9, <1>15, <2>1, BlockFitting
  <2>5. PICK start, before, w :
          /\ start = Started(params, v) /\ before = source
          /\ w = before \o BlockLines(body.blocks[t])
    OBVIOUS
  <2>6. GoingWith(RunLines(start, before), m0, v, LostIn(U), N)
    <3>1. GoingWith(RunLines(start, before), m0, v, LostIn(U), Named)
      BY <1>3, <1>12, <1>15, <2>1, <2>2, <2>5 DEF OnTrack, Ran
    <3> QED BY <2>4, <3>1, GoingWithMore
  <2>7. t \notin U /\ before \in Seq(S) BY <1>5, <2>1, <2>5
  <2>8. /\ ~ReturnsAt(t) => GoingWith(RunLines(start, w), m, v, LostIn(U \cup {t}), N)
        /\ ReturnsAt(t) /\ 0 \in DOMAIN m \ LostIn(U \cup {t}) =>
             Answers(RunLines(start, w), m[0].den[v])
    BY <1>5, <1>7, <1>9, <1>12, <2>2, <2>3, <2>4, <2>5, <2>6, <2>7, <2>10, BlockRuns
  <2>9. Ran(v)' = RunLines(start, w) BY <1>5, <2>5 DEF Ran
  <2> QED BY <1>5, <2>1, <2>2, <2>8, <2>9
<1>16. CASE ReturnsAt(t)
  <2>1. exStack' = <<>> BY <1>6, <1>16 DEF Targets, ReturnsAt
  <2>2. Exit(t)' = Exit(t) /\ (ReturnsAt(t)' <=> ReturnsAt(t)) /\ trace' = trace
        /\ Inputs(body)' = Inputs(body) /\ \A st, x : Answers(st, x)' <=> Answers(st, x)
    BY PrintedSame
  <2>3. Fitting' /\ 0 \in DOMAIN trace'[Exit(t)'] =>
          \A v \in Inputs(body)' : Answers(Ran(v), trace[Exit(t)][0].den[v])'
    BY <1>12, <1>15, <1>16, <2>2
  <2>4. Complete' BY <1>5, <1>16, <2>2, <2>3 DEF Complete
  <2> QED BY <1>10, <1>18, <2>1, <2>4 DEF InPrint
<1>17. CASE ~ReturnsAt(t)
  <2>1. PICK u : u = Terminator(t).target OBVIOUS
  <2>2. exStack' = <<u>> BY <1>6, <1>17, <2>1, PushOne DEF Targets, ReturnsAt
  <2>3. Leads(t, u) BY <1>17, <2>1 DEF Leads
  <2>4. <<u, 1>> \in DOMAIN trace /\ trace[<<u, 1>>] = m
    <3>1. PICK p : p = Exit(t) OBVIOUS
    <3>2. ExitTaken(p) /\ p[1] = t BY <1>5, <1>7, <1>9, <3>1, BlockPassed DEF Exit
    <3>3. Reaches(u, m) BY <1>12, <1>17, <2>1, <3>1, <3>2 DEF ExitTaken, ReturnsAt
    <3> QED BY <1>9, <3>3 DEF WalkEnded
  <2>5. \A s \in exVisited' \ {0} : \E d \in exVisited' \ {t} : Leads(d, s)
    <3>1. CASE t = 0 /\ exVisited = {} BY <1>5, <3>1
    <3>2. CASE \E c \in exVisited :
                 Leads(c, t) /\ \A s \in exVisited \ {0} : \E d \in exVisited \ {c} : Leads(d, s)
      BY <1>5, <3>2
    <3> QED BY <1>3, <3>1, <3>2 DEF OnTrack
  <2>6. \A b, c : Leads(b, c)' <=> Leads(b, c) BY PrintedSame
  <2>7. /\ trace' = trace /\ Inputs(body)' = Inputs(body)
        /\ \A st, v, lost, N : GoingWith(st, m, v, lost, N)' <=> GoingWith(st, m, v, lost, N)
        /\ \A V : LostIn(V)' = LostIn(V)
    BY PrintedSame
  <2>8. \E c \in exVisited' :
          Leads(c, u)' /\ \A s \in exVisited' \ {0} : \E d \in exVisited' \ {c} : Leads(d, s)'
    BY <1>5, <2>3, <2>5, <2>6
  <2>9. DOMAIN trace'[<<u, 1>>] \subseteq Named' BY <1>14, <2>4, <2>7
  <2>12. Fitting' =>
           \A v \in Inputs(body)' :
             GoingWith(Ran(v), trace[<<u, 1>>], v, LostIn(exVisited), Named)'
    BY <1>15, <1>17, <2>4, <2>7
  <2>11. OnTrack(u)' BY <2>4, <2>7, <2>8, <2>9, <2>12 DEF OnTrack
  <2> QED BY <1>5, <1>10, <1>18, <2>2, <2>11 DEF InPrint
<1> QED BY <1>16, <1>17

\* A step that prints nothing leaves the runs of what is printed as they are.
LEMMA PrintKept ==
  ASSUME UNCHANGED <<ingestVars, historyVars, exVisited, params, source>>
  PROVE  (Complete => Complete') /\ \A t : OnTrack(t) => OnTrack(t)'
<1>1. UNCHANGED <<exVisited, params, source>> OBVIOUS
<1>2. /\ Inputs(body)' = Inputs(body) /\ trace' = trace /\ body' = body
      /\ \A l : SourceName(l)' = SourceName(l)
      /\ \A st, m, v, lost, N : GoingWith(st, m, v, lost, N)' <=> GoingWith(st, m, v, lost, N)
      /\ \A st, x : Answers(st, x)' <=> Answers(st, x)
      /\ \A b : (ReturnsAt(b)' <=> ReturnsAt(b)) /\ Exit(b)' = Exit(b)
      /\ \A b : Assignments(b)' = Assignments(b) /\ Statements(b)' = Statements(b)
      /\ \A b, c : Leads(b, c)' <=> Leads(b, c)
  BY PrintedSame
<1>3. Named' = Named BY <1>1, <1>2 DEF Named
<1>4. Fitting' => Fitting BY <1>1, ContainedBefore
<1>5. \A v : Ran(v)' = Ran(v) BY <1>1 DEF Ran
<1>6. ASSUME Complete PROVE Complete'
  <2>1. PICK b \in exVisited :
          /\ ReturnsAt(b)
          /\ Fitting /\ 0 \in DOMAIN trace[Exit(b)] =>
               \A v \in Inputs(body) : Answers(Ran(v), trace[Exit(b)][0].den[v])
    BY <1>6 DEF Complete
  <2>2. b \in exVisited' /\ ReturnsAt(b)' /\ Exit(b)' = Exit(b) BY <1>1, <1>2, <2>1
  <2>3. Fitting' /\ 0 \in DOMAIN trace'[Exit(b)'] =>
          \A v \in Inputs(body)' : Answers(Ran(v), trace[Exit(b)][0].den[v])'
    BY <1>2, <1>4, <1>5, <2>1, <2>2
  <2> QED BY <2>2, <2>3 DEF Complete
<1>7. ASSUME NEW t, OnTrack(t) PROVE OnTrack(t)'
  <2>1. <<t, 1>> \in DOMAIN trace' /\ DOMAIN trace'[<<t, 1>>] \subseteq Named'
    BY <1>2, <1>3, <1>7 DEF OnTrack
  <2>2. \/ t = 0 /\ exVisited' = {}
        \/ \E c \in exVisited' :
             Leads(c, t)' /\ \A s \in exVisited' \ {0} : \E d \in exVisited' \ {c} : Leads(d, s)'
    BY <1>1, <1>2, <1>7 DEF OnTrack
  <2>3. PICK lost : lost = LostIn(exVisited) OBVIOUS
  <2>4. LostIn(exVisited)' = lost BY <1>1, <2>3, PrintedSame
  <2>5. Fitting' =>
          \A v \in Inputs(body)' :
            GoingWith(Ran(v), trace[<<t, 1>>], v, LostIn(exVisited), Named)'
    BY <1>2, <1>3, <1>4, <1>5, <1>7, <2>3, <2>4 DEF OnTrack
  <2> QED BY <2>1, <2>2, <2>5 DEF OnTrack
<1> QED BY <1>6, <1>7

\* A step that prints nothing and leaves the stack alone.
LEMMA SourceKept ==
  ASSUME SourceInv, UNCHANGED <<ingestVars, historyVars, exStack, exVisited, params, returns, source>>,
         \/ exStatus' = exStatus
         \/ exStatus = "running" /\ exStack = <<>> /\ exStatus' = "ok"
         \/ exStatus' = "NoReturnPlace"
  PROVE  SourceInv'
<1>1. UNCHANGED <<exStack, exVisited, params, returns, source>> OBVIOUS
<1>2. (Complete => Complete') /\ \A t : OnTrack(t) => OnTrack(t)' BY PrintKept
<1>3. (Printing' <=> Printing) /\ visited' = visited /\ Params' = Params /\ body' = body
  BY PrintedSame
<1>4. exStatus' = "idle" => source' = <<>> /\ exVisited' = {} BY <1>1 DEF SourceInv
<1>5. ASSUME Printing', exStatus' \in {"running", "ok"} PROVE InPrint'
  <2>1. InPrint /\ Printing BY <1>3, <1>5 DEF SourceInv
  <2>2. /\ params' = Params' /\ returns' = RustType(body, 0)'
        /\ exVisited' \subseteq visited' /\ \E S : source' \in Seq(S)
    BY <1>1, <1>3, <2>1 DEF InPrint
  <2>3. \/ exStatus' = "running" /\ \E t : exStack' = <<t>> /\ OnTrack(t)'
        \/ exStack' = <<>> /\ Complete'
    <3>1. CASE exStack = <<>>
      <4>1. \A t : exStack # <<t>> BY <3>1
      <4> QED BY <1>1, <1>2, <2>1, <3>1, <4>1 DEF InPrint
    <3>2. CASE exStack # <<>>
      <4>1. exStatus' = exStatus BY <1>5, <3>2
      <4> QED BY <1>1, <1>2, <2>1, <3>2, <4>1 DEF InPrint
    <3> QED BY <3>1, <3>2
  <2> QED BY <2>2, <2>3 DEF InPrint
<1> QED BY <1>4, <1>5 DEF SourceInv

\* The block that waits was never printed: no two blocks lead to one.
LEMMA SeenNever ==
  ASSUME WalkedOK, SourceInv, ExtractSeen
  PROVE  ~Printing
<1> SUFFICES ASSUME Printing PROVE FALSE OBVIOUS
<1>1. exStatus = "running" /\ exStack # <<>> /\ ExTop \in exVisited BY DEF ExtractSeen
<1>2. exVisited \subseteq visited /\ \E t : exStack = <<t>> /\ OnTrack(t)
  <2>1. InPrint BY <1>1 DEF SourceInv
  <2> QED BY <1>1, <2>1 DEF InPrint
<1>3. PICK t : exStack = <<t>> /\ OnTrack(t) BY <1>2
<1>4. t \in exVisited BY <1>1, <1>3 DEF ExTop, SX!Last
<1>5. PICK c \in exVisited :
        Leads(c, t) /\ \A s \in exVisited \ {0} : \E d \in exVisited \ {c} : Leads(d, s)
  BY <1>3, <1>4 DEF OnTrack
<1>6. /\ \A b, d \in visited : \A s : Leads(b, s) /\ Leads(d, s) => b = d
      /\ \A b \in visited : ~Leads(b, 0)
  BY ChainDone DEF Printing
<1>7. t # 0 BY <1>2, <1>5, <1>6
<1>8. PICK d \in exVisited \ {c} : Leads(d, t) BY <1>4, <1>5, <1>7
<1> QED BY <1>2, <1>5, <1>6, <1>8

\* Extraction starts with nothing printed.
LEMMA SourceStarts == BridgeInit => SourceInv
BY DEF BridgeInit, ExtractIdle, SourceInv

\* Every step keeps what is printed on the track of the walk.
LEMMA SourceKeeps == BridgeInv /\ SourceInv /\ [BridgeNext]_bridgeVars => SourceInv'
<1> SUFFICES ASSUME BridgeInv, SourceInv, [BridgeNext]_bridgeVars PROVE SourceInv' OBVIOUS
<1>1. WalkedOK /\ ExtractOK BY DEF BridgeInv
<1>2. CASE Verifying
  <2>1. status \in {"ingesting", "running"}
    BY <1>1, <1>2, NextRuns DEF Verifying, IngestNext, Translate, Refuse
  <2>2. exStatus = "idle" BY <1>1, <2>1 DEF ExtractOK
  <2>3. UNCHANGED extractVars BY <1>2 DEF Verifying
  <2> QED BY <2>2, <2>3 DEF SourceInv, extractVars
<1>3. CASE Extracting
  <2>1. ExtractStep /\ UNCHANGED <<ingestVars, historyVars>> BY <1>3 DEF Extracting
  <2>2. CASE BeginExtract BY <1>1, <2>1, <2>2, BeginPrints
  <2>3. CASE ExtractSeen
    <3>1. ~Printing' BY <1>1, <2>1, <2>3, SeenNever, PrintedSame
    <3>2. exStatus' = "running" BY <2>3 DEF ExtractSeen
    <3> QED BY <3>1, <3>2 DEF SourceInv
  <2>4. CASE ExtractMissing
    <3>1. exStatus' = "NoReturnPlace" BY <2>4 DEF ExtractMissing
    <3> QED BY <3>1 DEF SourceInv
  <2>5. CASE ExtractBlock BY <1>1, <2>1, <2>5, BlockPrints
  <2>6. CASE EndExtract
    <3>1. UNCHANGED <<exStack, exVisited, params, returns, source>>
          /\ exStatus = "running" /\ exStack = <<>> /\ exStatus' = "ok"
      BY <2>6 DEF EndExtract
    <3> QED BY <2>1, <3>1, SourceKept
  <2> QED BY <2>1, <2>2, <2>3, <2>4, <2>5, <2>6 DEF ExtractStep
<1>4. CASE UNCHANGED <<ingestVars, extractVars, historyVars>>
  <2>1. UNCHANGED <<exStatus, exStack, exVisited, params, returns, source>>
    BY <1>4 DEF extractVars
  <2> QED BY <1>4, <2>1, SourceKept
<1>5. CASE Calling BY <1>4, <1>5 DEF Calling
<1>6. CASE UNCHANGED bridgeVars BY <1>4, <1>6 DEF bridgeVars
<1> QED BY <1>2, <1>3, <1>5, <1>6 DEF BridgeNext

\* The extraction of a body stays on the track of the walk.
LEMMA SourceInvariant == BridgeSpec => [](BridgeInv /\ SourceInv)
<1>1. BridgeInit => BridgeInv /\ SourceInv BY BridgeStarts, SourceStarts
<1>2. BridgeInv /\ SourceInv /\ [BridgeNext]_bridgeVars => BridgeInv' /\ SourceInv'
  BY BridgeKeeps, SourceKeeps
<1> QED BY <1>1, <1>2, PTL DEF BridgeSpec

\* The signature of a body that fits is accepted.
LEMMA SignatureFits ==
  ASSUME Fitting, ArgsDeclared, DOMAIN body.args = 1..Len(body.args)
  PROVE  SignatureAccepted(Params, RustType(body, 0))
<1>1. PICK n, ps : n = Len(body.args) /\ ps = Params OBVIOUS
<1>2. /\ DOMAIN ps = 1..n /\ DOMAIN body.args = 1..n
      /\ \A k \in 1..n : /\ ps[k].name = SourceName(body.args[k])
                         /\ ps[k].ty = RustType(body, body.args[k]) /\ body.args[k] \in Named
  BY <1>1 DEF Params, ParamOf, Named
<1>3. 0 \in Named BY DEF Named
<1>4. \A j, k \in DOMAIN ps : ps[j].name = ps[k].name => j = k
  <2>1. ASSUME NEW j \in 1..n, NEW k \in 1..n, ps[j].name = ps[k].name PROVE j = k
    <3>1. SourceName(body.args[j]) = SourceName(body.args[k]) BY <1>2, <2>1
    <3>2. body.args[j] = body.args[k] BY <1>2, <3>1 DEF Fitting, NamesDistinct
    <3> QED BY <1>2, <3>2 DEF ArgsDeclared
  <2> QED BY <1>2, <2>1
<1>5. /\ \A l \in Named : SourceName(l) \notin Illegal
      /\ \A l \in Named : RustType(body, l) \in KnownType
  BY DEF Fitting, NamesLegal, TypesFit
<1> QED BY <1>1, <1>2, <1>3, <1>4, <1>5 DEF SignatureAccepted

\* The block that returns, and what the printed function returns there.
LEMMA PrintAgrees ==
  ASSUME BridgeInv, SourceInv
  PROVE  ExtractedAgrees
<1> SUFFICES ASSUME exStatus = "ok", Verified, 0 \in DOMAIN values, Fitting, ArgsDeclared,
                    outcome \in {"returned", "panicked"}, ~beyond
             PROVE  /\ outcome = "returned"
                    /\ Printed.verdict = "returned" /\ Printed.result.value = store[0]
  BY DEF ExtractedAgrees, Verified, Fitting
<1>1. WalkedOK /\ FollowInv BY DEF BridgeInv
<1>2. Follows BY <1>1 DEF FollowInv, Undone
<1>3. /\ outcome = "returned" /\ Position = Exit(at) /\ ReturnsAt(at)
      /\ Position \in DOMAIN trace /\ Stored(trace[Position]) /\ input \in Inputs(body)
  BY <1>2 DEF Follows
<1>4. at \in visited
  <2>1. PICK p : p = Exit(at) OBVIOUS
  <2>2. PlacedRight(p) /\ p[1] = at BY <1>1, <1>3, <2>1, WalkDone DEF Exit
  <2> QED BY <2>2 DEF PlacedRight
<1>5. InPrint BY DEF SourceInv, Printing
<1>6. PICK b \in exVisited :
        /\ ReturnsAt(b)
        /\ 0 \in DOMAIN trace[Exit(b)] =>
             \A v \in Inputs(body) : Answers(Ran(v), trace[Exit(b)][0].den[v])
  BY <1>5 DEF InPrint, Complete
<1>7. b = at /\ values = trace[Exit(at)]
  <2>1. b \in visited BY <1>5 DEF InPrint
  <2> QED BY <1>1, <1>3, <1>4, <1>6, <2>1, ChainDone
<1>8. Answers(Ran(input), values[0].den[input]) BY <1>3, <1>6, <1>7
<1>9. store[0] = values[0].den[input] BY <1>3, <1>7 DEF Stored
<1>10. SignatureAccepted(params, returns)
  <2>1. DOMAIN body.args = 1..Len(body.args) BY <1>1, WalkDone DEF WellFormedBody
  <2> QED BY <1>5, <2>1, SignatureFits DEF InPrint
<1>11. PICK end : end = Ran(input) OBVIOUS
<1>12. PICK r : end = Ended("returned", r) /\ r.value = store[0] /\ r.ty = RustType(body, 0)
  BY <1>8, <1>9, <1>11 DEF Answers
<1>13. end.verdict = "returned" /\ end.result = r BY <1>12 DEF Ended
<1>14. end.result.ty = returns BY <1>5, <1>12, <1>13 DEF InPrint
<1>15. Printed = end
  <2>1. end = RunLines(Started(params, input), source) BY <1>11 DEF Ran
  <2> QED BY <1>10, <1>13, <1>14, <2>1 DEF Printed, RunSource
<1> QED BY <1>3, <1>12, <1>13, <1>15
-----------------------------------------------------------------------------
\* A body that verifies is extracted as a function that compiles and does, on every
\* argument, what the original does, as long as no value leaves the naturals: for
\* every body, however many blocks, statements and nested unsafe blocks, every
\* function ingested, and every width (body_to_rust_source). Of a body written by
\* hand it is asked that its types fit each other, that its names are distinct and
\* legal when they are sanitized, that its arguments are declared and that its
\* unsafe blocks keep what they assign to themselves.
THEOREM ExtractionAgrees == BridgeSpec => []ExtractedAgrees
<1>1. BridgeInv /\ SourceInv => ExtractedAgrees BY PrintAgrees
<1> QED BY <1>1, SourceInvariant, PTL
=============================================================================
