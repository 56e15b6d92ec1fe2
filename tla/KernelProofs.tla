---------------------------- MODULE KernelProofs ----------------------------
(***************************************************************************)
(* What holds of every term, of any size: recursion on terms, the laws of  *)
(* `shift` and `subst`, closed terms, parallel reduction and confluence,   *)
(* type correctness of the machine, and what the library computes.         *)
(***************************************************************************)
EXTENDS Library, Numbers

-----------------------------------------------------------------------------
(* Sequences.                                                              *)

\* A sequence is a function on its indices.
LEMMA SeqIsFunction ==
  ASSUME NEW S, NEW s \in Seq(S)
  PROVE  /\ Len(s) \in Nat
         /\ DOMAIN s = 1..Len(s)
         /\ s \in [1..Len(s) -> S]
         /\ \A i \in 1..Len(s) : s[i] \in S
  OBVIOUS

\* A function on the first numbers is a sequence.
LEMMA FunctionIsSeq ==
  ASSUME NEW S, NEW n \in Nat, NEW f \in [1..n -> S]
  PROVE  f \in Seq(S) /\ Len(f) = n /\ DOMAIN f = 1..n
  OBVIOUS

\* Sequences with the same elements are equal.
LEMMA SameSeq ==
  ASSUME NEW S, NEW r \in Seq(S), NEW s \in Seq(S), Len(r) = Len(s),
         \A i \in 1..Len(r) : r[i] = s[i]
  PROVE  r = s
  OBVIOUS
-----------------------------------------------------------------------------
(* Recursion and induction on terms.                                       *)

\* No descent along the children of the elements of X goes on forever.
Founded(X, kids) ==
  \A S \in SUBSET X : S # {} => \E x \in S : \A i \in DOMAIN kids[x] : kids[x][i] \notin S

\* A value for each element of X, made of the values of its children.
IsRecursive(f, X, kids, G) ==
  \A x \in X : f[x] = G[x][[i \in 1..Len(kids[x]) |-> f[kids[x][i]]]]

\* A function can be defined by recursion on the children.
LEMMA Recursion ==
  ASSUME NEW X, NEW kids, NEW S, NEW G,
         Founded(X, kids),
         \A x \in X : kids[x] \in Seq(X),
         \A x \in X : \A ks \in Seq(S) : Len(ks) = Len(kids[x]) => G[x][ks] \in S
  PROVE  \E f \in [X -> S] : IsRecursive(f, X, kids, G)
<1> DEFINE Fits(R, x, ks) == /\ Len(ks) = Len(kids[x])
                             /\ \A i \in 1..Len(kids[x]) : <<kids[x][i], ks[i]>> \in R
           Closed(R) == \A x \in X : \A ks \in Seq(S) : Fits(R, x, ks) => <<x, G[x][ks]>> \in R
           L == {p \in X \X S : \A R \in SUBSET (X \X S) : Closed(R) => p \in R}
           Values(x) == {s \in S : <<x, s>> \in L}
           Bad == {x \in X : ~ \E s \in S : Values(x) = {s}}
<1>1. Closed(L)
  <2> SUFFICES ASSUME NEW x \in X, NEW ks \in Seq(S), Fits(L, x, ks)
               PROVE  <<x, G[x][ks]>> \in L
    OBVIOUS
  <2>1. <<x, G[x][ks]>> \in X \X S
    OBVIOUS
  <2>2. ASSUME NEW R \in SUBSET (X \X S), Closed(R) PROVE <<x, G[x][ks]>> \in R
    <3>1. Fits(R, x, ks)
      BY <2>2
    <3>2. QED
      BY <2>2, <3>1
  <2>3. QED
    BY <2>1, <2>2
<1>2. Bad = {}
  <2> SUFFICES ASSUME Bad # {} PROVE FALSE
    OBVIOUS
  <2>1. PICK x \in Bad : \A i \in DOMAIN kids[x] : kids[x][i] \notin Bad
    <3>1. Bad \in SUBSET X
      OBVIOUS
    <3>2. QED
      BY <3>1 DEF Founded
  <2> DEFINE n == Len(kids[x])
             ks == [i \in 1..n |-> CHOOSE s \in S : Values(kids[x][i]) = {s}]
             v == G[x][ks]
  <2>2. x \in X /\ n \in Nat /\ DOMAIN kids[x] = 1..n /\ \A i \in 1..n : kids[x][i] \in X
    OBVIOUS
  <2>3. \A i \in 1..n : ks[i] \in S /\ Values(kids[x][i]) = {ks[i]}
    <3>1. \A i \in 1..n : \E s \in S : Values(kids[x][i]) = {s}
      BY <2>1, <2>2
    <3> HIDE DEF Values
    <3>2. QED
      BY <3>1
  <2>4. ks \in Seq(S) /\ Len(ks) = n
    <3> HIDE DEF Values
    <3>1. ks \in [1..n -> S]
      BY <2>3
    <3> HIDE DEF ks
    <3>2. QED
      BY <3>1, <2>2, FunctionIsSeq
  <2>5. Fits(L, x, ks)
    <3>1. \A i \in 1..n : ks[i] \in Values(kids[x][i])
      <4> HIDE DEF Values, ks
      <4> QED BY <2>3
    <3> HIDE DEF L, ks
    <3>2. QED
      BY <3>1, <2>4
  <2>6. v \in S /\ v \in Values(x)
    <3>1. v \in S
      <4> HIDE DEF ks
      <4> QED BY <2>2, <2>4
    <3>2. <<x, v>> \in L
      <4> HIDE DEF L, Fits, ks
      <4> QED BY <1>1, <2>2, <2>4, <2>5
    <3> HIDE DEF L, v
    <3>3. QED
      BY <3>1, <3>2
  <2>7. ASSUME NEW s \in Values(x), s # v PROVE FALSE
    <3> DEFINE R == L \ {<<x, s>>}
    <3>1. Closed(R)
      <4> SUFFICES ASSUME NEW y \in X, NEW ms \in Seq(S), Fits(R, y, ms)
                   PROVE  <<y, G[y][ms]>> \in R
        OBVIOUS
      <4>1. <<y, G[y][ms]>> \in L
        <5>1. Fits(L, y, ms)
          <6> HIDE DEF L
          <6> QED OBVIOUS
        <5> HIDE DEF L, Fits
        <5>2. QED
          BY <1>1, <5>1
      <4>2. ASSUME <<y, G[y][ms]>> = <<x, s>> PROVE FALSE
        <5>1. y = x /\ G[x][ms] = s
          BY <4>2
        <5>2. \A i \in 1..n : ms[i] \in Values(kids[x][i])
          <6> HIDE DEF L, ks
          <6>1. Len(ms) = n /\ \A i \in 1..n : <<kids[x][i], ms[i]>> \in L /\ ms[i] \in S
            BY <5>1
          <6> QED BY <6>1
        <5>3. \A i \in 1..n : ms[i] = ks[i]
          <6> HIDE DEF Values, ks, Fits, L
          <6> QED BY <2>3, <5>2
        <5>4. ms = ks
          <6>1. Len(ms) = n
            <7> HIDE DEF L, ks
            <7> QED BY <5>1
          <6> HIDE DEF L, ks, Fits, n
          <6> QED BY <2>4, <5>3, <6>1, SameSeq
        <5>5. QED
          <6> HIDE DEF ks, L, Fits, Values
          <6> QED BY <5>1, <5>4, <2>7
      <4>3. QED
        <5> HIDE DEF L
        <5> QED BY <4>1, <4>2
    <3>2. R \in SUBSET (X \X S)
      OBVIOUS
    <3>3. <<x, s>> \in L
      OBVIOUS
    <3>4. <<x, s>> \in R
      <4> HIDE DEF R, Closed
      <4> QED BY <3>1, <3>2, <3>3
    <3>5. QED
      <4> HIDE DEF L
      <4> QED BY <3>4
  <2>8. Values(x) = {v}
    <3> HIDE DEF Values, v
    <3> QED BY <2>6, <2>7
  <2>9. QED
    <3> HIDE DEF Values, v
    <3> QED BY <2>1, <2>6, <2>8
<1> DEFINE f == [x \in X |-> CHOOSE s \in S : Values(x) = {s}]
<1>3. ASSUME NEW x \in X PROVE f[x] \in S /\ Values(x) = {f[x]}
  <2>1. \E s \in S : Values(x) = {s}
    BY <1>2
  <2> HIDE DEF Values
  <2>2. QED
    BY <2>1
<1>4. f \in [X -> S]
  <2> HIDE DEF Values
  <2> QED BY <1>3
<1>5. ASSUME NEW x \in X PROVE f[x] = G[x][[i \in 1..Len(kids[x]) |-> f[kids[x][i]]]]
  <2> DEFINE n == Len(kids[x])
             ks == [i \in 1..n |-> f[kids[x][i]]]
  <2>1. n \in Nat /\ \A i \in 1..n : kids[x][i] \in X
    OBVIOUS
  <2>2. ks \in [1..n -> S]
    <3> HIDE DEF f
    <3> QED BY <1>4, <2>1
  <2>3. ks \in Seq(S) /\ Len(ks) = n
    <3> HIDE DEF ks
    <3> QED BY <2>1, <2>2
  <2>4. \A i \in 1..n : ks[i] \in Values(kids[x][i])
    <3> HIDE DEF Values, f
    <3> QED BY <1>3, <2>1
  <2>5. Fits(L, x, ks)
    <3> HIDE DEF L, f
    <3>1. \A i \in 1..n : <<kids[x][i], ks[i]>> \in L
      BY <2>4
    <3> HIDE DEF ks
    <3> QED BY <2>3, <3>1
  <2>6. <<x, G[x][ks]>> \in L
    <3> HIDE DEF L, Fits, ks
    <3> QED BY <1>1, <2>3, <2>5
  <2>7. G[x][ks] \in Values(x)
    <3> HIDE DEF L, ks
    <3> QED BY <2>6, <2>3
  <2>8. QED
    <3> HIDE DEF Values, ks, f
    <3>1. G[x][ks] = f[x]
      BY <2>7, <1>3
    <3> USE DEF ks
    <3> QED BY <3>1
<1>6. QED
  <2> HIDE DEF f
  <2> QED BY <1>4, <1>5 DEF IsRecursive

\* What a term is made of.
LEMMA TermFields ==
  ASSUME IsTermSet(Term), NEW u \in Term
  PROVE  /\ u.op \in Ops /\ u.n \in Nat /\ u.name \in Seq(STRING) /\ u.kids \in Seq(Term)
         /\ Len(u.kids) \in Nat /\ DOMAIN u.kids = 1..Len(u.kids)
         /\ \A i \in 1..Len(u.kids) : u.kids[i] \in Term
         /\ u = Node(u.op, u.n, u.name, u.kids)
         /\ Shaped(u)
<1>1. u \in [op : Ops, n : Nat, name : Seq(STRING), kids : Seq(Term)] /\ Shaped(u)
  BY DEF IsTermSet
<1> HIDE DEF Ops
<1>2. u = Node(u.op, u.n, u.name, u.kids)
  BY <1>1 DEF Node
<1>3. u.op \in Ops /\ u.n \in Nat /\ u.name \in Seq(STRING) /\ u.kids \in Seq(Term)
  BY <1>1
<1>4. QED
  BY <1>1, <1>2, <1>3, SeqIsFunction

\* What makes a term.
LEMMA NodeIsTerm ==
  ASSUME IsTermSet(Term), NEW op \in Ops, NEW n \in Nat, NEW name \in Seq(STRING),
         NEW kids \in Seq(Term), Shaped(Node(op, n, name, kids))
  PROVE  Node(op, n, name, kids) \in Term
<1>1. Node(op, n, name, kids) \in [op : Ops, n : Nat, name : Seq(STRING), kids : Seq(Term)]
  BY DEF Node
<1>2. QED
  BY <1>1 DEF IsTermSet

\* G makes a value of S from the values of the children of a term.
Makes(G, S) == \A u \in Term : \A ks \in Seq(S) : Len(ks) = Len(u.kids) => G[u][ks] \in S
IsFold(f, S, G) ==
  /\ f \in [Term -> S]
  /\ \A u \in Term : f[u] = G[u][[i \in 1..Len(u.kids) |-> f[u.kids[i]]]]

\* A function on terms can be defined by recursion on the children.
LEMMA TermRecursion ==
  ASSUME IsTermSet(Term), NEW S, NEW G, Makes(G, S)
  PROVE  \E f : IsFold(f, S, G)
<1> DEFINE kids == [u \in Term |-> u.kids]
<1>1. Founded(Term, kids)
  <2>1. \A T \in SUBSET Term : T # {} => \E x \in T : \A i \in DOMAIN x.kids : x.kids[i] \notin T
    BY DEF IsTermSet
  <2>2. QED
    BY <2>1 DEF Founded
<1>2. \A x \in Term : kids[x] = x.kids /\ kids[x] \in Seq(Term)
  BY TermFields
<1>3. \A x \in Term : \A ks \in Seq(S) : Len(ks) = Len(kids[x]) => G[x][ks] \in S
  BY <1>2 DEF Makes
<1> HIDE DEF kids
<1>4. PICK f \in [Term -> S] : IsRecursive(f, Term, kids, G)
  <2>1. \A x \in Term : kids[x] \in Seq(Term)
    BY <1>2
  <2>2. QED
    BY <1>1, <1>3, <2>1, Recursion
<1>5. \A u \in Term : f[u] = G[u][[i \in 1..Len(u.kids) |-> f[u.kids[i]]]]
  BY <1>2, <1>4 DEF IsRecursive
<1>6. QED
  BY <1>5 DEF IsFold

\* What holds of a term when it holds of its children holds of all terms.
LEMMA TermInduction ==
  ASSUME IsTermSet(Term), NEW P \in SUBSET Term,
         \A u \in Term : (\A i \in 1..Len(u.kids) : u.kids[i] \in P) => u \in P
  PROVE  \A u \in Term : u \in P
<1> SUFFICES ASSUME Term \ P # {} PROVE FALSE
  OBVIOUS
<1>1. PICK u \in Term \ P : \A i \in DOMAIN u.kids : u.kids[i] \notin Term \ P
  <2>1. Term \ P \in SUBSET Term
    OBVIOUS
  <2>2. QED
    BY <2>1 DEF IsTermSet
<1>2. \A i \in 1..Len(u.kids) : u.kids[i] \in P
  BY <1>1, TermFields
<1>3. QED
  BY <1>1, <1>2

\* A term with other children.
LEMMA WithKidsIsTerm ==
  ASSUME IsTermSet(Term), NEW u \in Term, NEW ks \in Seq(Term), Len(ks) = Len(u.kids)
  PROVE  /\ WithKids(u, ks) \in Term
         /\ WithKids(u, ks) = Node(u.op, u.n, u.name, ks)
         /\ WithKids(u, ks).op = u.op /\ WithKids(u, ks).n = u.n
         /\ WithKids(u, ks).name = u.name /\ WithKids(u, ks).kids = ks
<1> HIDE DEF Ops
<1>1. u = Node(u.op, u.n, u.name, u.kids) /\ Shaped(u)
  BY TermFields
<1>2. WithKids(u, ks) = Node(u.op, u.n, u.name, ks)
  BY <1>1 DEF WithKids, Node
<1>3. Shaped(Node(u.op, u.n, u.name, ks))
  BY <1>1 DEF Shaped, Node
<1>4. Node(u.op, u.n, u.name, ks) \in Term
  BY <1>3, TermFields, NodeIsTerm
<1>5. QED
  BY <1>2, <1>4 DEF Node

\* Terms with equal fields are equal.
LEMMA SameTerm ==
  ASSUME IsTermSet(Term), NEW u \in Term, NEW v \in Term,
         u.op = v.op, u.n = v.n, u.name = v.name, Len(u.kids) = Len(v.kids),
         \A i \in 1..Len(u.kids) : u.kids[i] = v.kids[i]
  PROVE  u = v
<1>1. u.kids = v.kids
  BY TermFields, SameSeq
<1>2. QED
  BY <1>1, TermFields

\* Variables are terms, and no other term is a variable.
LEMMA VarIsTerm ==
  ASSUME IsTermSet(Term)
  PROVE  /\ \A n \in Nat : /\ Var(n) \in Term /\ Var(n).op = "Var" /\ Var(n).n = n
                           /\ Var(n).kids = <<>> /\ Len(Var(n).kids) = 0
         /\ \A u \in Term : u.op = "Var" => u = Var(u.n)
<1>1. ASSUME NEW n \in Nat PROVE Var(n) \in Term
  <2>1. Shaped(Node("Var", n, <<>>, <<>>))
    BY DEF Shaped, Node, Arity
  <2>2. QED
    <3>1. "Var" \in Ops /\ 0 \in Nat /\ <<>> \in Seq(STRING) /\ <<>> \in Seq(Term)
      BY DEF Ops
    <3>2. Node("Var", n, <<>>, <<>>) \in Term
      BY <2>1, <3>1, NodeIsTerm
    <3>3. QED
      BY <3>2 DEF Var
<1>2. ASSUME NEW u \in Term, u.op = "Var" PROVE u = Var(u.n)
  <2>1. u.name = <<>> /\ Len(u.kids) = 0
    BY <1>2, TermFields DEF Shaped, Arity
  <2>2. u.kids = <<>>
    BY <2>1, TermFields
  <2>3. QED
    BY <1>2, <2>1, <2>2, TermFields DEF Var
<1>3. QED
  BY <1>1, <1>2 DEF Var, Node

\* Under a child there is one binder more, or none.
LEMMA BindersType ==
  \A u, i : Binders(u, i) \in {0, 1}
BY DEF Binders

\* Every child of a term is one.
LEMMA KidIsTerm ==
  ASSUME IsTermSet(Term), NEW u \in Term, NEW i \in 1..Len(u.kids)
  PROVE  u.kids[i] \in Term /\ Binders(u, i) \in Nat
<1>1. u.kids[i] \in Term
  BY TermFields
<1>2. Binders(u, i) \in Nat
  BY BindersType
<1>3. QED
  BY <1>1, <1>2
-----------------------------------------------------------------------------
(* `shift` and `subst`: what is done to the variables of a term, at every  *)
(* depth.                                                                  *)

\* The children of u, each as f makes it under its binders.
KidsBy(f, u, d) == [i \in 1..Len(u.kids) |-> f[u.kids[i]][d + Binders(u, i)]]
\* f does to a term that is no variable what it does to its children.
Traverses(f) ==
  \A u \in Term : \A d \in Nat : u.op # "Var" => f[u][d] = WithKids(u, KidsBy(f, u, d))
OnVars(f, leaf) == \A n \in Nat : \A d \in Nat : f[Var(n)][d] = leaf[n][d]

\* A traversal makes terms if it makes them of variables.
LEMMA TraversalType ==
  ASSUME IsTermSet(Term), NEW f, Traverses(f), \A n \in Nat : \A d \in Nat : f[Var(n)][d] \in Term
  PROVE  \A u \in Term : \A d \in Nat : f[u][d] \in Term
<1> DEFINE P == {u \in Term : \A d \in Nat : f[u][d] \in Term}
<1>1. ASSUME NEW u \in Term, \A i \in 1..Len(u.kids) : u.kids[i] \in P, NEW d \in Nat
      PROVE  f[u][d] \in Term
  <2>1. CASE u.op = "Var"
    BY <2>1, VarIsTerm, TermFields
  <2>2. CASE u.op # "Var"
    <3> DEFINE ks == KidsBy(f, u, d)
    <3>1. \A i \in 1..Len(u.kids) : f[u.kids[i]][d + Binders(u, i)] \in Term
      BY <1>1, BindersType
    <3>2. ks \in [1..Len(u.kids) -> Term] /\ Len(u.kids) \in Nat
      BY <3>1, TermFields DEF KidsBy
    <3>3. f[u][d] = WithKids(u, ks)
      BY <2>2 DEF Traverses
    <3> HIDE DEF ks
    <3>4. ks \in Seq(Term) /\ Len(ks) = Len(u.kids)
      BY <3>2, FunctionIsSeq
    <3>5. QED
      BY <3>3, <3>4, WithKidsIsTerm
  <2>3. QED
    BY <2>1, <2>2
<1>2. P \in SUBSET Term /\ \A u \in Term : (\A i \in 1..Len(u.kids) : u.kids[i] \in P) => u \in P
  BY <1>1
<1>3. \A u \in Term : u \in P
  <2> HIDE DEF P
  <2> QED BY <1>2, TermInduction
<1>4. QED
  BY <1>3

\* There is a traversal for whatever is done to variables.
LEMMA TraversalExists ==
  ASSUME IsTermSet(Term), NEW leaf, \A n \in Nat : \A d \in Nat : leaf[n][d] \in Term
  PROVE  \E f : f \in [Term -> [Nat -> Term]] /\ Traverses(f) /\ OnVars(f, leaf)
<1> DEFINE S == [Nat -> Term]
           Kids(u, ks, d) == [i \in 1..Len(u.kids) |-> ks[i][d + Binders(u, i)]]
           At(u, ks, d) == IF u.op = "Var" THEN leaf[u.n][d] ELSE WithKids(u, Kids(u, ks, d))
           G == [u \in Term |-> [ks \in Seq(S) |-> [d \in Nat |-> At(u, ks, d)]]]
<1>1. ASSUME NEW u \in Term, NEW ks \in Seq(S), Len(ks) = Len(u.kids), NEW d \in Nat
      PROVE  At(u, ks, d) \in Term
  <2>1. CASE u.op = "Var"
    BY <2>1, TermFields
  <2>2. CASE u.op # "Var"
    <3> DEFINE ms == Kids(u, ks, d)
    <3>1. ASSUME NEW i \in 1..Len(u.kids) PROVE ks[i][d + Binders(u, i)] \in Term
      <4>1. ks[i] \in [Nat -> Term]
        BY <1>1, SeqIsFunction
      <4>2. d + Binders(u, i) \in Nat
        BY BindersType
      <4>3. QED
        BY <4>1, <4>2
    <3>2. ms \in Seq(Term) /\ Len(ms) = Len(u.kids)
      <4>1. ms \in [1..Len(u.kids) -> Term] /\ Len(u.kids) \in Nat
        BY <3>1, TermFields
      <4> HIDE DEF ms
      <4>2. QED
        BY <4>1, FunctionIsSeq
    <3> HIDE DEF ms
    <3>3. WithKids(u, ms) \in Term
      BY <3>2, WithKidsIsTerm
    <3>4. QED
      BY <2>2, <3>3 DEF ms
  <2>3. QED
    BY <2>1, <2>2
<1>2. Makes(G, S)
  <2>1. \A u \in Term : \A ks \in Seq(S) : Len(ks) = Len(u.kids) => G[u][ks] \in S
    <3> HIDE DEF At
    <3> QED BY <1>1
  <2> HIDE DEF G, S
  <2>2. QED
    BY <2>1 DEF Makes
<1>3. PICK f : IsFold(f, S, G)
  <2> HIDE DEF G, S
  <2> QED BY <1>2, TermRecursion
<1>4. f \in [Term -> [Nat -> Term]]
  <2> HIDE DEF G
  <2> QED BY <1>3 DEF IsFold
<1>5. ASSUME NEW u \in Term, NEW d \in Nat
      PROVE  f[u][d] = IF u.op = "Var" THEN leaf[u.n][d] ELSE WithKids(u, KidsBy(f, u, d))
  <2> DEFINE ks == [i \in 1..Len(u.kids) |-> f[u.kids[i]]]
  <2>1. Len(u.kids) \in Nat /\ ks \in [1..Len(u.kids) -> S]
    BY <1>4, TermFields
  <2>2. ks \in Seq(S)
    <3> HIDE DEF ks, S
    <3> QED BY <2>1, FunctionIsSeq
  <2>3. f[u] = G[u][ks]
    <3> HIDE DEF G, S
    <3> QED BY <1>3 DEF IsFold
  <2>4. G[u][ks][d] = At(u, ks, d)
    <3> HIDE DEF At, ks, S
    <3> QED BY <2>2
  <2>5. Kids(u, ks, d) = KidsBy(f, u, d)
    BY DEF KidsBy
  <2>6. QED
    <3> HIDE DEF ks, G, Kids
    <3> QED BY <2>3, <2>4, <2>5
<1>6. Traverses(f)
  <2>1. ASSUME NEW u \in Term, NEW d \in Nat, u.op # "Var" PROVE f[u][d] = WithKids(u, KidsBy(f, u, d))
    BY <1>5, <2>1
  <2>2. QED
    BY <2>1 DEF Traverses
<1>7. OnVars(f, leaf)
  <2>1. ASSUME NEW n \in Nat, NEW d \in Nat PROVE f[Var(n)][d] = leaf[n][d]
    <3>1. Var(n) \in Term /\ Var(n).op = "Var" /\ Var(n).n = n
      BY VarIsTerm
    <3>2. QED
      BY <1>5, <3>1
  <2>2. QED
    BY <2>1 DEF OnVars
<1>8. QED
  BY <1>4, <1>6, <1>7

\* `shift` is a traversal.
LEMMA ShiftFunction ==
  ASSUME IsTermSet(Term), NEW amount \in Nat
  PROVE  /\ Traverses(ShiftBy(amount))
         /\ \A n \in Nat : \A c \in Nat :
              ShiftBy(amount)[Var(n)][c] = IF n >= c THEN Var(n + amount) ELSE Var(n)
<1> DEFINE leaf == [n \in Nat |-> [c \in Nat |-> IF n >= c THEN Var(n + amount) ELSE Var(n)]]
           Body(g, u, c) ==
             IF u.op = "Var"
             THEN IF u.n >= c THEN Var(u.n + amount) ELSE u
             ELSE WithKids(u, [i \in DOMAIN u.kids |-> g[u.kids[i]][c + Binders(u, i)]])
           Is(g) == g = [u \in Term |-> [c \in Nat |-> Body(g, u, c)]]
<1>1. ASSUME NEW n \in Nat, NEW c \in Nat
      PROVE  /\ leaf[n][c] = IF n >= c THEN Var(n + amount) ELSE Var(n)
             /\ leaf[n][c] \in Term
  BY VarIsTerm
<1> HIDE DEF leaf
<1>2. PICK f : f \in [Term -> [Nat -> Term]] /\ Traverses(f) /\ OnVars(f, leaf)
  BY <1>1, TraversalExists
<1>3. ASSUME NEW g, NEW u \in Term, NEW c \in Nat
      PROVE  /\ u.op = "Var" => u = Var(u.n) /\ u.n \in Nat /\ Body(g, u, c) = leaf[u.n][c]
             /\ u.op # "Var" => Body(g, u, c) = WithKids(u, KidsBy(g, u, c))
  <2>1. CASE u.op = "Var"
    <3>1. u = Var(u.n) /\ u.n \in Nat
      BY <2>1, VarIsTerm, TermFields
    <3>2. Body(g, u, c) = IF u.n >= c THEN Var(u.n + amount) ELSE u
      BY <2>1
    <3> HIDE DEF Body
    <3>3. leaf[u.n][c] = IF u.n >= c THEN Var(u.n + amount) ELSE Var(u.n)
      BY <1>1, <3>1
    <3>4. QED
      BY <2>1, <3>1, <3>2, <3>3
  <2>2. CASE u.op # "Var"
    <3>1. DOMAIN u.kids = 1..Len(u.kids)
      BY TermFields
    <3>2. QED
      BY <2>2, <3>1 DEF KidsBy
  <2>3. QED
    BY <2>1, <2>2
<1>4. Is(f)
  <2>1. ASSUME NEW u \in Term, NEW c \in Nat PROVE f[u][c] = Body(f, u, c)
    <3> HIDE DEF Body
    <3>1. CASE u.op = "Var"
      <4>1. u = Var(u.n) /\ u.n \in Nat /\ Body(f, u, c) = leaf[u.n][c]
        BY <1>3, <3>1
      <4>2. f[Var(u.n)][c] = leaf[u.n][c]
        BY <1>2, <4>1 DEF OnVars
      <4>3. QED
        BY <4>1, <4>2
    <3>2. CASE u.op # "Var"
      BY <1>2, <1>3, <3>2 DEF Traverses
    <3>3. QED
      BY <3>1, <3>2
  <2> HIDE DEF Body
  <2>2. f = [u \in Term |-> [c \in Nat |-> Body(f, u, c)]]
    BY <1>2, <2>1
  <2>3. QED
    BY <2>2
<1>5. PICK h : h = ShiftBy(amount) /\ Is(h)
  <2>1. ShiftBy(amount) = CHOOSE g : Is(g)
    BY DEF ShiftBy
  <2> HIDE DEF Is
  <2>2. QED
    BY <1>4, <2>1
<1>6. ASSUME NEW u \in Term, NEW c \in Nat PROVE h[u][c] = Body(h, u, c)
  <2> HIDE DEF Body
  <2>1. h[u] = [d \in Nat |-> Body(h, u, d)]
    BY <1>5, Zenon
  <2>2. QED
    BY <2>1
<1> HIDE DEF Body, Is
<1>7. Traverses(h)
  BY <1>3, <1>6 DEF Traverses
<1>8. ASSUME NEW n \in Nat, NEW c \in Nat
      PROVE  h[Var(n)][c] = IF n >= c THEN Var(n + amount) ELSE Var(n)
  <2>1. Var(n) \in Term /\ Var(n).op = "Var" /\ Var(n).n = n
    BY VarIsTerm
  <2>2. h[Var(n)][c] = leaf[n][c]
    BY <1>3, <1>6, <2>1
  <2>3. QED
    BY <1>1, <2>2
<1>9. QED
  BY <1>5, <1>7, <1>8

ShiftKids(u, c, a) == [i \in 1..Len(u.kids) |-> Shift(u.kids[i], c + Binders(u, i), a)]
SubstKids(u, d, b) == [i \in 1..Len(u.kids) |-> Subst(u.kids[i], d + Binders(u, i), b)]

\* `shift` maps terms to terms: a variable by its index, another term by its
\* children.
LEMMA ShiftType ==
  ASSUME IsTermSet(Term), NEW a \in Nat
  PROVE  /\ \A u \in Term : \A c \in Nat : Shift(u, c, a) \in Term
         /\ \A n \in Nat : \A c \in Nat :
              Shift(Var(n), c, a) = IF n >= c THEN Var(n + a) ELSE Var(n)
         /\ \A u \in Term : \A c \in Nat :
              u.op # "Var" => Shift(u, c, a) = WithKids(u, ShiftKids(u, c, a))
<1> DEFINE f == ShiftBy(a)
<1>1. Traverses(f) /\ \A n \in Nat : \A c \in Nat : f[Var(n)][c] = IF n >= c THEN Var(n + a) ELSE Var(n)
  BY ShiftFunction
<1>2. \A u, c : Shift(u, c, a) = f[u][c]
  BY DEF Shift
<1> HIDE DEF f
<1>3. \A n \in Nat : \A c \in Nat : f[Var(n)][c] \in Term
  BY <1>1, VarIsTerm
<1>4. \A u \in Term : \A c \in Nat : f[u][c] \in Term
  BY <1>1, <1>3, TraversalType
<1>5. ASSUME NEW u \in Term, NEW c \in Nat, u.op # "Var"
      PROVE  Shift(u, c, a) = WithKids(u, ShiftKids(u, c, a))
  <2>1. ShiftKids(u, c, a) = KidsBy(f, u, c)
    BY <1>2 DEF ShiftKids, KidsBy
  <2>2. QED
    BY <1>1, <1>2, <1>5, <2>1 DEF Traverses
<1>6. QED
  BY <1>1, <1>2, <1>4, <1>5

\* What `subst` makes of a variable is a term.
LEMMA SubstVarType ==
  ASSUME IsTermSet(Term), NEW n \in Nat, NEW d \in Nat, NEW b \in Term
  PROVE  SubstVar(n, d, b) \in Term
<1>1. Shift(b, 0, d) \in Term
  BY ShiftType
<1>2. n > d => n - 1 \in Nat
  OBVIOUS
<1>3. QED
  BY <1>1, <1>2, VarIsTerm DEF SubstVar

\* `subst` is a traversal.
LEMMA SubstFunction ==
  ASSUME IsTermSet(Term), NEW b \in Term
  PROVE  /\ Traverses(SubstWith(b))
         /\ \A n \in Nat : \A d \in Nat : SubstWith(b)[Var(n)][d] = SubstVar(n, d, b)
<1> DEFINE leaf == [n \in Nat |-> [d \in Nat |-> SubstVar(n, d, b)]]
           Body(g, u, d) ==
             IF u.op = "Var"
             THEN SubstVar(u.n, d, b)
             ELSE WithKids(u, [i \in DOMAIN u.kids |-> g[u.kids[i]][d + Binders(u, i)]])
           Is(g) == g = [u \in Term |-> [d \in Nat |-> Body(g, u, d)]]
<1>1. ASSUME NEW n \in Nat, NEW d \in Nat
      PROVE  leaf[n][d] = SubstVar(n, d, b) /\ leaf[n][d] \in Term
  BY SubstVarType
<1> HIDE DEF leaf
<1>2. PICK f : f \in [Term -> [Nat -> Term]] /\ Traverses(f) /\ OnVars(f, leaf)
  BY <1>1, TraversalExists
<1>3. ASSUME NEW g, NEW u \in Term, NEW d \in Nat
      PROVE  /\ u.op = "Var" => u = Var(u.n) /\ u.n \in Nat /\ Body(g, u, d) = leaf[u.n][d]
             /\ u.op # "Var" => Body(g, u, d) = WithKids(u, KidsBy(g, u, d))
  <2>1. CASE u.op = "Var"
    <3>1. u = Var(u.n) /\ u.n \in Nat
      BY <2>1, VarIsTerm, TermFields
    <3>2. Body(g, u, d) = SubstVar(u.n, d, b)
      BY <2>1
    <3> HIDE DEF Body
    <3>3. QED
      BY <1>1, <2>1, <3>1, <3>2
  <2>2. CASE u.op # "Var"
    <3>1. DOMAIN u.kids = 1..Len(u.kids)
      BY TermFields
    <3>2. QED
      BY <2>2, <3>1 DEF KidsBy
  <2>3. QED
    BY <2>1, <2>2
<1>4. Is(f)
  <2>1. ASSUME NEW u \in Term, NEW d \in Nat PROVE f[u][d] = Body(f, u, d)
    <3> HIDE DEF Body
    <3>1. CASE u.op = "Var"
      <4>1. u = Var(u.n) /\ u.n \in Nat /\ Body(f, u, d) = leaf[u.n][d]
        BY <1>3, <3>1
      <4>2. f[Var(u.n)][d] = leaf[u.n][d]
        BY <1>2, <4>1 DEF OnVars
      <4>3. QED
        BY <4>1, <4>2
    <3>2. CASE u.op # "Var"
      BY <1>2, <1>3, <3>2 DEF Traverses
    <3>3. QED
      BY <3>1, <3>2
  <2> HIDE DEF Body
  <2>2. f = [u \in Term |-> [d \in Nat |-> Body(f, u, d)]]
    BY <1>2, <2>1
  <2>3. QED
    BY <2>2
<1>5. PICK h : h = SubstWith(b) /\ Is(h)
  <2>1. SubstWith(b) = CHOOSE g : Is(g)
    BY DEF SubstWith
  <2> HIDE DEF Is
  <2>2. QED
    BY <1>4, <2>1
<1>6. ASSUME NEW u \in Term, NEW d \in Nat PROVE h[u][d] = Body(h, u, d)
  <2> HIDE DEF Body
  <2>1. h[u] = [c \in Nat |-> Body(h, u, c)]
    BY <1>5, Zenon
  <2>2. QED
    BY <2>1
<1> HIDE DEF Body, Is
<1>7. Traverses(h)
  BY <1>3, <1>6 DEF Traverses
<1>8. ASSUME NEW n \in Nat, NEW d \in Nat PROVE h[Var(n)][d] = SubstVar(n, d, b)
  <2>1. Var(n) \in Term /\ Var(n).op = "Var" /\ Var(n).n = n
    BY VarIsTerm
  <2>2. h[Var(n)][d] = leaf[n][d]
    BY <1>3, <1>6, <2>1
  <2>3. QED
    BY <1>1, <2>2
<1>9. QED
  BY <1>5, <1>7, <1>8

\* `subst` maps terms to terms: a variable by its index, another term by its
\* children.
LEMMA SubstType ==
  ASSUME IsTermSet(Term), NEW b \in Term
  PROVE  /\ \A u \in Term : \A d \in Nat : Subst(u, d, b) \in Term
         /\ \A n \in Nat : \A d \in Nat : Subst(Var(n), d, b) = SubstVar(n, d, b)
         /\ \A u \in Term : \A d \in Nat :
              u.op # "Var" => Subst(u, d, b) = WithKids(u, SubstKids(u, d, b))
<1> DEFINE f == SubstWith(b)
<1>1. Traverses(f) /\ \A n \in Nat : \A d \in Nat : f[Var(n)][d] = SubstVar(n, d, b)
  BY SubstFunction
<1>2. \A u, d : Subst(u, d, b) = f[u][d]
  BY DEF Subst
<1> HIDE DEF f
<1>3. \A n \in Nat : \A d \in Nat : f[Var(n)][d] \in Term
  BY <1>1, SubstVarType
<1>4. \A u \in Term : \A d \in Nat : f[u][d] \in Term
  BY <1>1, <1>3, TraversalType
<1>5. ASSUME NEW u \in Term, NEW d \in Nat, u.op # "Var"
      PROVE  Subst(u, d, b) = WithKids(u, SubstKids(u, d, b))
  <2>1. SubstKids(u, d, b) = KidsBy(f, u, d)
    BY <1>2 DEF SubstKids, KidsBy
  <2>2. QED
    BY <1>1, <1>2, <1>5, <2>1 DEF Traverses
<1>6. QED
  BY <1>1, <1>2, <1>4, <1>5

\* The children a traversal makes.
LEMMA KidsByType ==
  ASSUME IsTermSet(Term), NEW f, \A u \in Term : \A d \in Nat : f[u][d] \in Term,
         NEW u \in Term, NEW d \in Nat
  PROVE  /\ KidsBy(f, u, d) \in Seq(Term) /\ Len(KidsBy(f, u, d)) = Len(u.kids)
         /\ \A i \in 1..Len(u.kids) : KidsBy(f, u, d)[i] = f[u.kids[i]][d + Binders(u, i)]
<1>1. ASSUME NEW i \in 1..Len(u.kids) PROVE f[u.kids[i]][d + Binders(u, i)] \in Term
  <2>1. u.kids[i] \in Term /\ d + Binders(u, i) \in Nat
    BY KidIsTerm
  <2>2. QED
    BY <2>1
<1>2. KidsBy(f, u, d) \in [1..Len(u.kids) -> Term] /\ Len(u.kids) \in Nat
  BY <1>1, TermFields DEF KidsBy
<1>3. KidsBy(f, u, d) \in Seq(Term) /\ Len(KidsBy(f, u, d)) = Len(u.kids)
  BY <1>2, FunctionIsSeq
<1>4. QED
  BY <1>3 DEF KidsBy

\* Traversals that agree on the variables agree on all terms.
LEMMA SameTraversal ==
  ASSUME IsTermSet(Term), NEW f, NEW g, Traverses(f), Traverses(g),
         \A n \in Nat : \A d \in Nat : f[Var(n)][d] = g[Var(n)][d]
  PROVE  \A u \in Term : \A d \in Nat : f[u][d] = g[u][d]
<1> DEFINE P == {u \in Term : \A d \in Nat : f[u][d] = g[u][d]}
<1>1. ASSUME NEW u \in Term, \A i \in 1..Len(u.kids) : u.kids[i] \in P, NEW d \in Nat
      PROVE  f[u][d] = g[u][d]
  <2>1. CASE u.op = "Var"
    BY <2>1, VarIsTerm, TermFields
  <2>2. CASE u.op # "Var"
    <3>1. \A i \in 1..Len(u.kids) : f[u.kids[i]][d + Binders(u, i)] = g[u.kids[i]][d + Binders(u, i)]
      BY <1>1, BindersType
    <3>2. KidsBy(f, u, d) = KidsBy(g, u, d)
      BY <3>1 DEF KidsBy
    <3>3. QED
      BY <2>2, <3>2 DEF Traverses
  <2>3. QED
    BY <2>1, <2>2
<1>2. P \in SUBSET Term /\ \A u \in Term : (\A i \in 1..Len(u.kids) : u.kids[i] \in P) => u \in P
  BY <1>1
<1>3. \A u \in Term : u \in P
  <2> HIDE DEF P
  <2> QED BY <1>2, TermInduction
<1>4. QED
  BY <1>3

\* One traversal after another, each from a depth of its own.
After(g, q, f, p) == [u \in Term |-> [k \in Nat |-> g[f[u][p + k]][q + k]]]

\* Two traversals in a row are one.
LEMMA AfterTraverses ==
  ASSUME IsTermSet(Term), NEW f, NEW g, NEW p \in Nat, NEW q \in Nat, Traverses(f), Traverses(g),
         \A u \in Term : \A d \in Nat : f[u][d] \in Term
  PROVE  Traverses(After(g, q, f, p))
<1> DEFINE h == After(g, q, f, p)
<1>1. \A u \in Term : \A k \in Nat : h[u][k] = g[f[u][p + k]][q + k]
  BY DEF After
<1> HIDE DEF h
<1>2. ASSUME NEW u \in Term, NEW k \in Nat, u.op # "Var"
      PROVE  h[u][k] = WithKids(u, KidsBy(h, u, k))
  <2> DEFINE ks == KidsBy(f, u, p + k)
             v == WithKids(u, ks)
  <2>1. p + k \in Nat /\ q + k \in Nat
    OBVIOUS
  <2>2. /\ ks \in Seq(Term) /\ Len(ks) = Len(u.kids)
        /\ \A i \in 1..Len(u.kids) : ks[i] = f[u.kids[i]][p + k + Binders(u, i)]
    BY <2>1, KidsByType
  <2>3. f[u][p + k] = v
    BY <1>2, <2>1 DEF Traverses
  <2> HIDE DEF ks
  <2>4. v \in Term /\ v.op = u.op /\ v.kids = ks /\ v = Node(u.op, u.n, u.name, ks)
        /\ v.n = u.n /\ v.name = u.name
    BY <2>2, WithKidsIsTerm
  <2> HIDE DEF v
  <2>5. g[v][q + k] = WithKids(v, KidsBy(g, v, q + k))
    BY <1>2, <2>1, <2>4 DEF Traverses
  <2>6. ASSUME NEW i \in 1..Len(u.kids)
        PROVE  g[v.kids[i]][q + k + Binders(v, i)] = h[u.kids[i]][k + Binders(u, i)]
    <3> DEFINE e == Binders(u, i)
    <3>1. Binders(v, i) = e
      BY <2>2, <2>4 DEF Binders
    <3>2. e \in Nat /\ k + e \in Nat /\ u.kids[i] \in Term
      BY KidIsTerm
    <3> HIDE DEF e
    <3>3. h[u.kids[i]][k + e] = g[f[u.kids[i]][p + (k + e)]][q + (k + e)]
      BY <1>1, <3>2
    <3>4. p + (k + e) = p + k + e /\ q + (k + e) = q + k + e
      BY <3>2
    <3>5. v.kids[i] = f[u.kids[i]][p + k + e]
      BY <2>2, <2>4 DEF e
    <3>6. QED
      BY <3>1, <3>3, <3>4, <3>5 DEF e
  <2>7. KidsBy(g, v, q + k) = KidsBy(h, u, k)
    BY <2>2, <2>4, <2>6 DEF KidsBy
  <2>8. WithKids(v, KidsBy(h, u, k)) = WithKids(u, KidsBy(h, u, k))
    <3>1. u = Node(u.op, u.n, u.name, u.kids)
      BY TermFields
    <3>2. \A ms : WithKids(Node(u.op, u.n, u.name, ks), ms) = Node(u.op, u.n, u.name, ms)
      BY DEF WithKids, Node
    <3>3. \A ms : WithKids(Node(u.op, u.n, u.name, u.kids), ms) = Node(u.op, u.n, u.name, ms)
      BY DEF WithKids, Node
    <3>4. QED
      BY <2>4, <3>1, <3>2, <3>3
  <2>9. QED
    BY <1>1, <2>3, <2>5, <2>7, <2>8
<1>3. QED
  BY <1>2 DEF Traverses, h

\* A traversal from a depth of its own.
From(f, p) == [u \in Term |-> [k \in Nat |-> f[u][p + k]]]

\* A traversal from another depth is one.
LEMMA FromTraverses ==
  ASSUME IsTermSet(Term), NEW f, NEW p \in Nat, Traverses(f)
  PROVE  Traverses(From(f, p))
<1> DEFINE h == From(f, p)
<1>1. \A u \in Term : \A k \in Nat : h[u][k] = f[u][p + k]
  BY DEF From
<1> HIDE DEF h
<1>2. ASSUME NEW u \in Term, NEW k \in Nat, u.op # "Var"
      PROVE  h[u][k] = WithKids(u, KidsBy(h, u, k))
  <2>1. f[u][p + k] = WithKids(u, KidsBy(f, u, p + k))
    BY <1>2 DEF Traverses
  <2>2. ASSUME NEW i \in 1..Len(u.kids)
        PROVE  f[u.kids[i]][p + k + Binders(u, i)] = h[u.kids[i]][k + Binders(u, i)]
    <3> DEFINE e == Binders(u, i)
    <3>1. e \in Nat /\ k + e \in Nat /\ u.kids[i] \in Term
      BY KidIsTerm
    <3> HIDE DEF e
    <3>2. h[u.kids[i]][k + e] = f[u.kids[i]][p + (k + e)]
      BY <1>1, <3>1
    <3>3. p + (k + e) = p + k + e
      BY <3>1
    <3>4. QED
      BY <3>2, <3>3 DEF e
  <2>3. KidsBy(f, u, p + k) = KidsBy(h, u, k)
    BY <2>2 DEF KidsBy
  <2>4. QED
    BY <1>1, <2>1, <2>3
<1>3. QED
  BY <1>2 DEF Traverses, h

\* `shift` and `subst` as traversals.
LEMMA Traversals ==
  ASSUME IsTermSet(Term)
  PROVE  /\ \A a \in Nat : /\ Traverses(ShiftBy(a))
                           /\ \A u \in Term : \A d \in Nat : ShiftBy(a)[u][d] \in Term
         /\ \A b \in Term : /\ Traverses(SubstWith(b))
                            /\ \A u \in Term : \A d \in Nat : SubstWith(b)[u][d] \in Term
<1>1. ASSUME NEW a \in Nat, NEW u \in Term, NEW d \in Nat PROVE ShiftBy(a)[u][d] \in Term
  BY ShiftType DEF Shift
<1>2. ASSUME NEW b \in Term, NEW u \in Term, NEW d \in Nat PROVE SubstWith(b)[u][d] \in Term
  BY SubstType DEF Subst
<1>3. QED
  BY <1>1, <1>2, ShiftFunction, SubstFunction

\* `shift` of a variable.
LEMMA ShiftVar ==
  ASSUME IsTermSet(Term), NEW n \in Nat, NEW c \in Nat, NEW a \in Nat
  PROVE  /\ c <= n => Shift(Var(n), c, a) = Var(n + a)
         /\ n < c => Shift(Var(n), c, a) = Var(n)
<1>1. Shift(Var(n), c, a) = IF n >= c THEN Var(n + a) ELSE Var(n)
  BY ShiftType
<1>2. (n < c => ~(n >= c)) /\ (c <= n => n >= c)
  OBVIOUS
<1>3. QED
  BY <1>1, <1>2

\* A second shift where the first one made room adds to it.
LEMMA ShiftMerge ==
  ASSUME IsTermSet(Term), NEW u \in Term, NEW a \in Nat, NEW b \in Nat, NEW c \in Nat, NEW e \in Nat,
         c <= e, e <= c + a
  PROVE  Shift(Shift(u, c, a), e, b) = Shift(u, c, a + b)
<1> DEFINE f == After(ShiftBy(b), e, ShiftBy(a), c)
           g == From(ShiftBy(a + b), c)
<1>1. Traverses(f) /\ Traverses(g)
  <2>1. a + b \in Nat
    OBVIOUS
  <2>2. QED
    BY <2>1, Traversals, AfterTraverses, FromTraverses
<1>2. ASSUME NEW v \in Term, NEW k \in Nat
      PROVE  f[v][k] = Shift(Shift(v, c + k, a), e + k, b) /\ g[v][k] = Shift(v, c + k, a + b)
  BY DEF Shift, After, From
<1> HIDE DEF f, g
<1>3. ASSUME NEW n \in Nat, NEW k \in Nat PROVE f[Var(n)][k] = g[Var(n)][k]
  <2>1. Var(n) \in Term
    BY VarIsTerm
  <2>2. c + k \in Nat /\ e + k \in Nat /\ n + a \in Nat /\ a + b \in Nat
    OBVIOUS
  <2>3. CASE c + k <= n
    <3>1. e + k <= n + a
      BY <2>3
    <3>2. Shift(Var(n), c + k, a) = Var(n + a) /\ Shift(Var(n), c + k, a + b) = Var(n + (a + b))
      BY <2>2, <2>3, ShiftVar, Zenon
    <3>3. Shift(Var(n + a), e + k, b) = Var(n + a + b)
      BY <2>2, <3>1, ShiftVar, Zenon
    <3>4. n + a + b = n + (a + b)
      OBVIOUS
    <3>5. QED
      BY <1>2, <2>1, <3>2, <3>3, <3>4
  <2>4. CASE n < c + k
    <3>1. n < e + k
      BY <2>4
    <3>2. Shift(Var(n), c + k, a) = Var(n) /\ Shift(Var(n), c + k, a + b) = Var(n)
      BY <2>2, <2>4, ShiftVar, Zenon
    <3>3. Shift(Var(n), e + k, b) = Var(n)
      BY <2>2, <3>1, ShiftVar, Zenon
    <3>4. QED
      BY <1>2, <2>1, <3>2, <3>3
  <2>5. QED
    BY <2>2, <2>3, <2>4
<1>4. f[u][0] = g[u][0]
  BY <1>1, <1>3, SameTraversal
<1>5. c + 0 = c /\ e + 0 = e
  OBVIOUS
<1>6. QED
  BY <1>2, <1>4, <1>5

\* Shifts at different places can be exchanged.
LEMMA ShiftExchange ==
  ASSUME IsTermSet(Term), NEW u \in Term, NEW a \in Nat, NEW b \in Nat, NEW c \in Nat, NEW e \in Nat,
         c <= e
  PROVE  Shift(Shift(u, c, a), e + a, b) = Shift(Shift(u, e, b), c, a)
<1> DEFINE f == After(ShiftBy(b), e + a, ShiftBy(a), c)
           g == After(ShiftBy(a), c, ShiftBy(b), e)
<1>1. Traverses(f) /\ Traverses(g)
  <2>1. e + a \in Nat
    OBVIOUS
  <2>2. QED
    BY <2>1, Traversals, AfterTraverses
<1>2. ASSUME NEW v \in Term, NEW k \in Nat
      PROVE  /\ f[v][k] = Shift(Shift(v, c + k, a), e + a + k, b)
             /\ g[v][k] = Shift(Shift(v, e + k, b), c + k, a)
  BY DEF Shift, After
<1> HIDE DEF f, g
<1>3. ASSUME NEW n \in Nat, NEW k \in Nat PROVE f[Var(n)][k] = g[Var(n)][k]
  <2>1. Var(n) \in Term
    BY VarIsTerm
  <2>2. /\ c + k \in Nat /\ e + k \in Nat /\ e + a + k \in Nat /\ n + a \in Nat /\ n + b \in Nat
    OBVIOUS
  <2>3. CASE e + k <= n
    <3>1. c + k <= n /\ e + a + k <= n + a /\ c + k <= n + b
      BY <2>3
    <3>2. Shift(Var(n), c + k, a) = Var(n + a) /\ Shift(Var(n), e + k, b) = Var(n + b)
      BY <2>2, <2>3, <3>1, ShiftVar, Zenon
    <3>3. Shift(Var(n + a), e + a + k, b) = Var(n + a + b) /\ Shift(Var(n + b), c + k, a) = Var(n + b + a)
      BY <2>2, <3>1, ShiftVar, Zenon
    <3>4. n + a + b = n + b + a
      OBVIOUS
    <3>5. QED
      BY <1>2, <2>1, <3>2, <3>3, <3>4
  <2>4. CASE n < e + k /\ c + k <= n
    <3>1. n + a < e + a + k
      BY <2>4
    <3>2. Shift(Var(n), c + k, a) = Var(n + a) /\ Shift(Var(n), e + k, b) = Var(n)
      BY <2>2, <2>4, ShiftVar, Zenon
    <3>3. Shift(Var(n + a), e + a + k, b) = Var(n + a)
      BY <2>2, <3>1, ShiftVar, Zenon
    <3>4. QED
      BY <1>2, <2>1, <3>2, <3>3
  <2>5. CASE n < c + k
    <3>1. n < e + k /\ n < e + a + k
      BY <2>5
    <3>2. Shift(Var(n), c + k, a) = Var(n) /\ Shift(Var(n), e + k, b) = Var(n)
      BY <2>2, <2>5, <3>1, ShiftVar, Zenon
    <3>3. Shift(Var(n), e + a + k, b) = Var(n)
      BY <2>2, <3>1, ShiftVar, Zenon
    <3>4. QED
      BY <1>2, <2>1, <3>2, <3>3
  <2>6. e + k <= n \/ (n < e + k /\ c + k <= n) \/ n < c + k
    OBVIOUS
  <2>7. QED
    BY <2>3, <2>4, <2>5, <2>6
<1>4. f[u][0] = g[u][0]
  BY <1>1, <1>3, SameTraversal
<1>5. c + 0 = c /\ e + 0 = e /\ e + a + 0 = e + a
  OBVIOUS
<1>6. QED
  BY <1>2, <1>4, <1>5

\* The laws at the outermost place.
LEMMA ShiftMergeTop ==
  ASSUME IsTermSet(Term), NEW u \in Term, NEW a \in Nat, NEW b \in Nat, NEW e \in Nat, e <= a
  PROVE  Shift(Shift(u, 0, a), e, b) = Shift(u, 0, a + b)
<1>1. 0 <= e /\ e <= 0 + a
  OBVIOUS
<1>2. QED
  BY <1>1, ShiftMerge

\* As for any place: the outermost binder made room first.
LEMMA ShiftExchangeTop ==
  ASSUME IsTermSet(Term), NEW u \in Term, NEW a \in Nat, NEW b \in Nat, NEW e \in Nat
  PROVE  Shift(Shift(u, 0, a), e + a, b) = Shift(Shift(u, e, b), 0, a)
<1>1. 0 <= e
  OBVIOUS
<1>2. QED
  BY <1>1, ShiftExchange

\* `subst` of a variable.
LEMMA SubstOfVar ==
  ASSUME IsTermSet(Term), NEW n \in Nat, NEW d \in Nat, NEW b \in Term
  PROVE  /\ n = d => Subst(Var(n), d, b) = Shift(b, 0, d)
         /\ n < d => Subst(Var(n), d, b) = Var(n)
         /\ d <= n => Subst(Var(n + 1), d, b) = Var(n)
<1>1. Subst(Var(n), d, b) = SubstVar(n, d, b) /\ Subst(Var(n + 1), d, b) = SubstVar(n + 1, d, b)
  <2>1. n + 1 \in Nat
    OBVIOUS
  <2>2. QED
    BY <2>1, SubstType, Zenon
<1>2. n = d => SubstVar(n, d, b) = Shift(b, 0, d)
  BY DEF SubstVar
<1>3. n < d => SubstVar(n, d, b) = Var(n)
  BY DEF SubstVar
<1>4. d <= n => SubstVar(n + 1, d, b) = Var(n)
  <2>1. d <= n => n + 1 # d /\ n + 1 > d /\ (n + 1) - 1 = n
    OBVIOUS
  <2>2. QED
    BY <2>1 DEF SubstVar
<1>5. QED
  BY <1>1, <1>2, <1>3, <1>4

\* `subst` where `shift` made room takes one place away.
LEMMA SubstShifted ==
  ASSUME IsTermSet(Term), NEW u \in Term, NEW b \in Term, NEW a \in Nat, NEW c \in Nat, NEW d \in Nat,
         c <= d, d <= c + a
  PROVE  Subst(Shift(u, c, a + 1), d, b) = Shift(u, c, a)
<1> DEFINE f == After(SubstWith(b), d, ShiftBy(a + 1), c)
           g == From(ShiftBy(a), c)
<1>1. Traverses(f) /\ Traverses(g)
  <2>1. a + 1 \in Nat
    OBVIOUS
  <2>2. QED
    BY <2>1, Traversals, AfterTraverses, FromTraverses
<1>2. ASSUME NEW v \in Term, NEW k \in Nat
      PROVE  f[v][k] = Subst(Shift(v, c + k, a + 1), d + k, b) /\ g[v][k] = Shift(v, c + k, a)
  BY DEF Shift, Subst, After, From
<1> HIDE DEF f, g
<1>3. ASSUME NEW n \in Nat, NEW k \in Nat PROVE f[Var(n)][k] = g[Var(n)][k]
  <2>1. Var(n) \in Term
    BY VarIsTerm
  <2>2. c + k \in Nat /\ d + k \in Nat /\ n + a \in Nat /\ a + 1 \in Nat
    OBVIOUS
  <2>3. CASE c + k <= n
    <3>1. d + k <= n + a
      BY <2>3
    <3>2. Shift(Var(n), c + k, a + 1) = Var(n + (a + 1)) /\ Shift(Var(n), c + k, a) = Var(n + a)
      BY <2>2, <2>3, ShiftVar, Zenon
    <3>3. Subst(Var((n + a) + 1), d + k, b) = Var(n + a)
      BY <2>2, <3>1, SubstOfVar, Zenon
    <3>4. n + (a + 1) = (n + a) + 1
      OBVIOUS
    <3>5. QED
      BY <1>2, <2>1, <3>2, <3>3, <3>4
  <2>4. CASE n < c + k
    <3>1. n < d + k
      BY <2>4
    <3>2. Shift(Var(n), c + k, a + 1) = Var(n) /\ Shift(Var(n), c + k, a) = Var(n)
      BY <2>2, <2>4, ShiftVar, Zenon
    <3>3. Subst(Var(n), d + k, b) = Var(n)
      BY <2>2, <3>1, SubstOfVar, Zenon
    <3>4. QED
      BY <1>2, <2>1, <3>2, <3>3
  <2>5. QED
    BY <2>2, <2>3, <2>4
<1>4. f[u][0] = g[u][0]
  BY <1>1, <1>3, SameTraversal
<1>5. c + 0 = c /\ d + 0 = d
  OBVIOUS
<1>6. QED
  BY <1>2, <1>4, <1>5

\* As for any place: room was made at the outermost one.
LEMMA SubstShiftedTop ==
  ASSUME IsTermSet(Term), NEW u \in Term, NEW b \in Term, NEW a \in Nat, NEW d \in Nat, d <= a
  PROVE  Subst(Shift(u, 0, a + 1), d, b) = Shift(u, 0, a)
<1>1. 0 <= d /\ d <= 0 + a
  OBVIOUS
<1>2. QED
  BY <1>1, SubstShifted

\* `shift` below what is replaced.
LEMMA ShiftSubstLow ==
  ASSUME IsTermSet(Term), NEW u \in Term, NEW b \in Term, NEW a \in Nat, NEW c \in Nat, NEW d \in Nat,
         c <= d
  PROVE  Shift(Subst(u, d, b), c, a) = Subst(Shift(u, c, a), d + a, b)
<1> DEFINE f == After(ShiftBy(a), c, SubstWith(b), d)
           g == After(SubstWith(b), d + a, ShiftBy(a), c)
<1>1. Traverses(f) /\ Traverses(g)
  <2>1. d + a \in Nat
    OBVIOUS
  <2>2. QED
    BY <2>1, Traversals, AfterTraverses
<1>2. ASSUME NEW v \in Term, NEW k \in Nat
      PROVE  /\ f[v][k] = Shift(Subst(v, d + k, b), c + k, a)
             /\ g[v][k] = Subst(Shift(v, c + k, a), d + a + k, b)
  BY DEF Shift, Subst, After
<1> HIDE DEF f, g
<1>3. ASSUME NEW n \in Nat, NEW k \in Nat PROVE f[Var(n)][k] = g[Var(n)][k]
  <2>1. Var(n) \in Term
    BY VarIsTerm
  <2>2. c + k \in Nat /\ d + k \in Nat /\ d + a + k \in Nat /\ n + a \in Nat
    OBVIOUS
  <2>3. CASE n = d + k
    <3>1. c + k <= n /\ c + k <= d + k
      BY <2>3
    <3>2. Subst(Var(n), d + k, b) = Shift(b, 0, d + k)
      BY <2>2, <2>3, SubstOfVar, Zenon
    <3>3. Shift(Shift(b, 0, d + k), c + k, a) = Shift(b, 0, d + k + a)
      <4>1. \A m \in Nat : \A q \in Nat : q <= m => Shift(Shift(b, 0, m), q, a) = Shift(b, 0, m + a)
        BY ShiftMergeTop
      <4>2. QED
        BY <2>2, <3>1, <4>1, Zenon
    <3>4. Shift(Var(n), c + k, a) = Var(n + a)
      BY <2>2, <3>1, ShiftVar, Zenon
    <3>5. n + a = d + a + k /\ d + k + a = d + a + k
      BY <2>3
    <3>6. Subst(Var(n + a), d + a + k, b) = Shift(b, 0, d + a + k)
      BY <2>2, <3>5, SubstOfVar
    <3>7. QED
      BY <1>2, <2>1, <3>2, <3>3, <3>4, <3>5, <3>6
  <2>4. ASSUME NEW p \in Nat, n = p + 1, d + k <= p PROVE f[Var(n)][k] = g[Var(n)][k]
    <3>1. c + k <= p /\ c + k <= n /\ d + a + k <= p + a /\ p + a \in Nat
      BY <2>4
    <3>2. Subst(Var(p + 1), d + k, b) = Var(p)
      BY <2>2, <2>4, SubstOfVar, Zenon
    <3>3. Shift(Var(p), c + k, a) = Var(p + a) /\ Shift(Var(n), c + k, a) = Var(n + a)
      BY <2>2, <3>1, ShiftVar, Zenon
    <3>4. n + a = (p + a) + 1
      BY <2>4
    <3>5. Subst(Var((p + a) + 1), d + a + k, b) = Var(p + a)
      BY <2>2, <3>1, SubstOfVar, Zenon
    <3>6. QED
      BY <1>2, <2>1, <2>4, <3>2, <3>3, <3>4, <3>5
  <2>5. CASE n < d + k /\ c + k <= n
    <3>1. n + a < d + a + k
      BY <2>5
    <3>2. Subst(Var(n), d + k, b) = Var(n)
      BY <2>2, <2>5, SubstOfVar, Zenon
    <3>3. Shift(Var(n), c + k, a) = Var(n + a)
      BY <2>2, <2>5, ShiftVar, Zenon
    <3>4. Subst(Var(n + a), d + a + k, b) = Var(n + a)
      BY <2>2, <3>1, SubstOfVar, Zenon
    <3>5. QED
      BY <1>2, <2>1, <3>2, <3>3, <3>4
  <2>6. CASE n < c + k
    <3>1. n < d + k /\ n < d + a + k
      BY <2>6
    <3>2. Subst(Var(n), d + k, b) = Var(n) /\ Subst(Var(n), d + a + k, b) = Var(n)
      BY <2>2, <3>1, SubstOfVar, Zenon
    <3>3. Shift(Var(n), c + k, a) = Var(n)
      BY <2>2, <2>6, ShiftVar, Zenon
    <3>4. QED
      BY <1>2, <2>1, <3>2, <3>3
  <2>7. n = d + k \/ (\E p \in Nat : n = p + 1 /\ d + k <= p) \/ (n < d + k /\ c + k <= n) \/ n < c + k
    <3>1. n > d + k => n - 1 \in Nat /\ n = (n - 1) + 1 /\ d + k <= n - 1
      BY <2>2
    <3>2. n = d + k \/ n > d + k \/ (n < d + k /\ c + k <= n) \/ n < c + k
      BY <2>2
    <3>3. QED
      BY <3>1, <3>2
  <2>8. QED
    BY <2>3, <2>4, <2>5, <2>6, <2>7
<1>4. f[u][0] = g[u][0]
  BY <1>1, <1>3, SameTraversal
<1>5. c + 0 = c /\ d + 0 = d /\ d + a + 0 = d + a
  OBVIOUS
<1>6. QED
  BY <1>2, <1>4, <1>5

\* As for any place: a shift of everything.
LEMMA ShiftSubstTop ==
  ASSUME IsTermSet(Term), NEW u \in Term, NEW b \in Term, NEW a \in Nat, NEW d \in Nat
  PROVE  Shift(Subst(u, d, b), 0, a) = Subst(Shift(u, 0, a), d + a, b)
<1>1. 0 <= d
  OBVIOUS
<1>2. QED
  BY <1>1, ShiftSubstLow

\* `shift` above what is replaced.
LEMMA ShiftSubstHigh ==
  ASSUME IsTermSet(Term), NEW u \in Term, NEW b \in Term, NEW a \in Nat, NEW d \in Nat, NEW e \in Nat
  PROVE  Shift(Subst(u, d, b), d + e, a) = Subst(Shift(u, d + e + 1, a), d, Shift(b, e, a))
<1> DEFINE bb == Shift(b, e, a)
           f == After(ShiftBy(a), d + e, SubstWith(b), d)
           g == After(SubstWith(bb), d, ShiftBy(a), d + e + 1)
<1>1. bb \in Term
  BY ShiftType
<1> HIDE DEF bb
<1>2. Traverses(f) /\ Traverses(g)
  <2>1. d + e \in Nat /\ d + e + 1 \in Nat
    OBVIOUS
  <2>2. QED
    BY <1>1, <2>1, Traversals, AfterTraverses
<1>3. ASSUME NEW v \in Term, NEW k \in Nat
      PROVE  /\ f[v][k] = Shift(Subst(v, d + k, b), d + e + k, a)
             /\ g[v][k] = Subst(Shift(v, d + e + 1 + k, a), d + k, bb)
  BY DEF Shift, Subst, After
<1> HIDE DEF f, g
<1>4. ASSUME NEW n \in Nat, NEW k \in Nat PROVE f[Var(n)][k] = g[Var(n)][k]
  <2>1. Var(n) \in Term
    BY VarIsTerm
  <2>2. d + k \in Nat /\ d + e + k \in Nat /\ d + e + 1 + k \in Nat
    OBVIOUS
  <2>3. CASE n = d + k
    <3>1. n < d + e + 1 + k
      BY <2>3
    <3>2. Subst(Var(n), d + k, b) = Shift(b, 0, d + k) /\ Subst(Var(n), d + k, bb) = Shift(bb, 0, d + k)
      BY <1>1, <2>2, <2>3, SubstOfVar, Zenon
    <3>3. Shift(Var(n), d + e + 1 + k, a) = Var(n)
      BY <2>2, <3>1, ShiftVar, Zenon
    <3>4. Shift(Shift(b, 0, d + k), e + (d + k), a) = Shift(bb, 0, d + k)
      <4>1. \A m \in Nat : Shift(Shift(b, 0, m), e + m, a) = Shift(bb, 0, m)
        BY ShiftExchangeTop DEF bb
      <4>2. QED
        BY <2>2, <4>1, Zenon
    <3>5. e + (d + k) = d + e + k
      OBVIOUS
    <3>6. QED
      BY <1>3, <2>1, <3>2, <3>3, <3>4, <3>5
  <2>4. ASSUME NEW p \in Nat, n = p + 1, d + k <= p PROVE f[Var(n)][k] = g[Var(n)][k]
    <3>1. Subst(Var(p + 1), d + k, b) = Var(p) /\ Subst(Var(p + 1), d + k, bb) = Var(p)
      BY <1>1, <2>2, <2>4, SubstOfVar, Zenon
    <3>2. CASE d + e + k <= p
      <4>1. d + e + 1 + k <= n /\ p + a \in Nat /\ d + k <= p + a
        BY <2>4, <3>2
      <4>2. Shift(Var(p), d + e + k, a) = Var(p + a) /\ Shift(Var(n), d + e + 1 + k, a) = Var(n + a)
        BY <2>2, <3>2, <4>1, ShiftVar, Zenon
      <4>3. n + a = (p + a) + 1
        BY <2>4
      <4>4. Subst(Var((p + a) + 1), d + k, bb) = Var(p + a)
        BY <1>1, <2>2, <4>1, SubstOfVar, Zenon
      <4>5. QED
        BY <1>3, <2>1, <2>4, <3>1, <4>2, <4>3, <4>4
    <3>3. CASE p < d + e + k
      <4>1. n < d + e + 1 + k
        BY <2>4, <3>3
      <4>2. Shift(Var(p), d + e + k, a) = Var(p) /\ Shift(Var(n), d + e + 1 + k, a) = Var(n)
        BY <2>2, <3>3, <4>1, ShiftVar, Zenon
      <4>3. QED
        BY <1>3, <2>1, <2>4, <3>1, <4>2
    <3>4. QED
      BY <2>2, <3>2, <3>3
  <2>5. CASE n < d + k
    <3>1. n < d + e + k /\ n < d + e + 1 + k
      BY <2>5
    <3>2. Subst(Var(n), d + k, b) = Var(n) /\ Subst(Var(n), d + k, bb) = Var(n)
      BY <1>1, <2>2, <2>5, SubstOfVar, Zenon
    <3>3. Shift(Var(n), d + e + k, a) = Var(n) /\ Shift(Var(n), d + e + 1 + k, a) = Var(n)
      BY <2>2, <3>1, ShiftVar, Zenon
    <3>4. QED
      BY <1>3, <2>1, <3>2, <3>3
  <2>6. n = d + k \/ (\E p \in Nat : n = p + 1 /\ d + k <= p) \/ n < d + k
    <3>1. n > d + k => n - 1 \in Nat /\ n = (n - 1) + 1 /\ d + k <= n - 1
      BY <2>2
    <3>2. n = d + k \/ n > d + k \/ n < d + k
      BY <2>2
    <3>3. QED
      BY <3>1, <3>2
  <2>7. QED
    BY <2>3, <2>4, <2>5, <2>6
<1>5. f[u][0] = g[u][0]
  BY <1>2, <1>4, SameTraversal
<1>6. d + 0 = d /\ d + e + 0 = d + e /\ d + e + 1 + 0 = d + e + 1
  OBVIOUS
<1>7. QED
  BY <1>3, <1>5, <1>6 DEF bb

\* One replacement after another.
LEMMA SubstSubst ==
  ASSUME IsTermSet(Term), NEW u \in Term, NEW b \in Term, NEW a \in Term, NEW i \in Nat, NEW j \in Nat
  PROVE  Subst(Subst(u, i, b), i + j, a) = Subst(Subst(u, i + j + 1, a), i, Subst(b, j, a))
<1> DEFINE bb == Subst(b, j, a)
           f == After(SubstWith(a), i + j, SubstWith(b), i)
           g == After(SubstWith(bb), i, SubstWith(a), i + j + 1)
<1>1. bb \in Term
  BY SubstType
<1> HIDE DEF bb
<1>2. Traverses(f) /\ Traverses(g)
  <2>1. i + j \in Nat /\ i + j + 1 \in Nat
    OBVIOUS
  <2>2. QED
    BY <1>1, <2>1, Traversals, AfterTraverses
<1>3. ASSUME NEW v \in Term, NEW k \in Nat
      PROVE  /\ f[v][k] = Subst(Subst(v, i + k, b), i + j + k, a)
             /\ g[v][k] = Subst(Subst(v, i + j + 1 + k, a), i + k, bb)
  BY DEF Subst, After
<1> HIDE DEF f, g
<1>4. ASSUME NEW n \in Nat, NEW k \in Nat PROVE f[Var(n)][k] = g[Var(n)][k]
  <2>1. Var(n) \in Term
    BY VarIsTerm
  <2>2. i + k \in Nat /\ i + j + k \in Nat /\ i + j + 1 + k \in Nat
    OBVIOUS
  <2>3. CASE n = i + k
    <3>1. n < i + j + 1 + k
      BY <2>3
    <3>2. Subst(Var(n), i + k, b) = Shift(b, 0, i + k) /\ Subst(Var(n), i + k, bb) = Shift(bb, 0, i + k)
      BY <1>1, <2>2, <2>3, SubstOfVar, Zenon
    <3>3. Subst(Var(n), i + j + 1 + k, a) = Var(n)
      BY <2>2, <3>1, SubstOfVar, Zenon
    <3>4. Shift(bb, 0, i + k) = Subst(Shift(b, 0, i + k), j + (i + k), a)
      BY <2>2, ShiftSubstTop, Zenon DEF bb
    <3>5. j + (i + k) = i + j + k
      OBVIOUS
    <3>6. QED
      BY <1>3, <2>1, <3>2, <3>3, <3>4, <3>5
  <2>4. ASSUME NEW p \in Nat, n = p + 1, i + k <= p PROVE f[Var(n)][k] = g[Var(n)][k]
    <3>1. Subst(Var(p + 1), i + k, b) = Var(p) /\ Subst(Var(p + 1), i + k, bb) = Var(p)
      BY <1>1, <2>2, <2>4, SubstOfVar, Zenon
    <3>2. CASE p = i + j + k
      <4>1. n = i + j + 1 + k /\ i + j + 1 + k = p + 1
        BY <2>4, <3>2
      <4>2. Subst(Var(p), i + j + k, a) = Shift(a, 0, i + j + k)
        BY <2>2, <3>2, SubstOfVar, Zenon
      <4>3. Subst(Var(n), i + j + 1 + k, a) = Shift(a, 0, i + j + 1 + k)
        BY <2>2, <4>1, SubstOfVar
      <4>4. Subst(Shift(a, 0, p + 1), i + k, bb) = Shift(a, 0, p)
        BY <1>1, <2>2, <2>4, SubstShiftedTop, Zenon
      <4>5. QED
        BY <1>3, <2>1, <2>4, <3>1, <3>2, <4>1, <4>2, <4>3, <4>4
    <3>3. CASE p < i + j + k
      <4>1. n < i + j + 1 + k
        BY <2>4, <3>3
      <4>2. Subst(Var(p), i + j + k, a) = Var(p) /\ Subst(Var(n), i + j + 1 + k, a) = Var(n)
        BY <2>2, <3>3, <4>1, SubstOfVar, Zenon
      <4>3. QED
        BY <1>3, <2>1, <2>4, <3>1, <4>2
    <3>4. CASE p > i + j + k
      <4>1. PICK r \in Nat : p = r + 1
        <5>1. p - 1 \in Nat /\ p = (p - 1) + 1
          BY <2>2, <3>4
        <5>2. QED
          BY <5>1
      <4>2. i + j + k <= r /\ i + j + 1 + k <= p /\ i + k <= r
        BY <2>4, <3>4, <4>1
      <4>3. Subst(Var(r + 1), i + j + k, a) = Var(r) /\ Subst(Var(p + 1), i + j + 1 + k, a) = Var(p)
        BY <2>2, <4>2, SubstOfVar, Zenon
      <4>4. Subst(Var(r + 1), i + k, bb) = Var(r)
        BY <1>1, <2>2, <4>2, SubstOfVar, Zenon
      <4>5. QED
        BY <1>3, <2>1, <2>4, <3>1, <4>1, <4>3, <4>4
    <3>5. QED
      BY <2>2, <3>2, <3>3, <3>4
  <2>5. CASE n < i + k
    <3>1. n < i + j + k /\ n < i + j + 1 + k
      BY <2>5
    <3>2. Subst(Var(n), i + k, b) = Var(n) /\ Subst(Var(n), i + k, bb) = Var(n)
      BY <1>1, <2>2, <2>5, SubstOfVar, Zenon
    <3>3. Subst(Var(n), i + j + k, a) = Var(n) /\ Subst(Var(n), i + j + 1 + k, a) = Var(n)
      BY <2>2, <3>1, SubstOfVar, Zenon
    <3>4. QED
      BY <1>3, <2>1, <3>2, <3>3
  <2>6. n = i + k \/ (\E p \in Nat : n = p + 1 /\ i + k <= p) \/ n < i + k
    <3>1. n > i + k => n - 1 \in Nat /\ n = (n - 1) + 1 /\ i + k <= n - 1
      BY <2>2
    <3>2. n = i + k \/ n > i + k \/ n < i + k
      BY <2>2
    <3>3. QED
      BY <3>1, <3>2
  <2>7. QED
    BY <2>3, <2>4, <2>5, <2>6
<1>5. f[u][0] = g[u][0]
  BY <1>2, <1>4, SameTraversal
<1>6. i + 0 = i /\ i + j + 0 = i + j /\ i + j + 1 + 0 = i + j + 1
  OBVIOUS
<1>7. QED
  BY <1>3, <1>5, <1>6 DEF bb
-----------------------------------------------------------------------------
(* Scopes. A case body of IndRec is applied where it stands and is shifted *)
(* as if it stood under a binder: it keeps its meaning only if it is       *)
(* closed.                                                                 *)

IsCase(u, i) == u.op = "IndRec" /\ 1 < i /\ i < Len(u.kids)
\* The depth child i of u is read at.
Inner(u, i, d) == IF IsCase(u, i) THEN 0 ELSE d + Binders(u, i)

\* The depths at which every variable of u has its binder, and the cases of
\* its eliminations are closed.
Scopes[u \in Term] ==
  {d \in Nat : IF u.op = "Var" THEN u.n < d
               ELSE \A i \in 1..Len(u.kids) : Inner(u, i, d) \in Scopes[u.kids[i]]}

\* `Scopes` is what its recursive definition says.
LEMMA ScopesDef ==
  ASSUME IsTermSet(Term), NEW u \in Term, NEW d \in Nat
  PROVE  /\ u.op = "Var" => (d \in Scopes[u] <=> u.n < d)
         /\ u.op # "Var" => (d \in Scopes[u] <=> \A i \in 1..Len(u.kids) : Inner(u, i, d) \in Scopes[u.kids[i]])
<1> DEFINE S == SUBSET Nat
           In(v, ks, e) == IF v.op = "Var" THEN v.n < e
                           ELSE \A i \in 1..Len(v.kids) : Inner(v, i, e) \in ks[i]
           G == [v \in Term |-> [ks \in Seq(S) |-> {e \in Nat : In(v, ks, e)}]]
           Body(g, v) == {e \in Nat : IF v.op = "Var" THEN v.n < e
                                      ELSE \A i \in 1..Len(v.kids) : Inner(v, i, e) \in g[v.kids[i]]}
           Is(g) == g = [v \in Term |-> Body(g, v)]
<1>1. Makes(G, S)
  <2>1. \A v \in Term : \A ks \in Seq(S) : Len(ks) = Len(v.kids) => G[v][ks] \in S
    <3> HIDE DEF In
    <3> QED OBVIOUS
  <2> HIDE DEF G, S
  <2>2. QED
    BY <2>1 DEF Makes
<1>2. PICK f : IsFold(f, S, G)
  <2> HIDE DEF G, S
  <2> QED BY <1>1, TermRecursion
<1>3. f \in [Term -> S]
  <2> HIDE DEF G, S
  <2> QED BY <1>2 DEF IsFold
<1>4. ASSUME NEW v \in Term PROVE f[v] = Body(f, v)
  <2> DEFINE ks == [i \in 1..Len(v.kids) |-> f[v.kids[i]]]
  <2>1. Len(v.kids) \in Nat /\ ks \in [1..Len(v.kids) -> S]
    <3> HIDE DEF S
    <3> QED BY <1>3, TermFields
  <2>2. ks \in Seq(S)
    <3> HIDE DEF ks, S
    <3> QED BY <2>1, FunctionIsSeq
  <2>3. f[v] = G[v][ks]
    <3> HIDE DEF G, S
    <3> QED BY <1>2 DEF IsFold
  <2>4. G[v][ks] = {e \in Nat : In(v, ks, e)}
    <3> HIDE DEF In, ks, S
    <3> QED BY <2>2
  <2>5. ASSUME NEW e \in Nat
        PROVE  In(v, ks, e) <=> IF v.op = "Var" THEN v.n < e
                                ELSE \A i \in 1..Len(v.kids) : Inner(v, i, e) \in f[v.kids[i]]
    OBVIOUS
  <2>6. {e \in Nat : In(v, ks, e)} = Body(f, v)
    <3> HIDE DEF In
    <3> QED BY <2>5
  <2>7. QED
    <3> HIDE DEF In, G, ks, Body
    <3> QED BY <2>3, <2>4, <2>6
<1>5. Is(f)
  <2> HIDE DEF Body
  <2>1. f = [v \in Term |-> Body(f, v)]
    BY <1>3, <1>4
  <2>2. QED
    BY <2>1
<1>6. PICK h : h = Scopes /\ Is(h)
  <2>1. Scopes = CHOOSE g : Is(g)
    BY DEF Scopes
  <2> HIDE DEF Is
  <2>2. QED
    BY <1>5, <2>1
<1>7. h[u] = Body(h, u)
  <2> HIDE DEF Body
  <2>1. QED
    BY <1>6, Zenon
<1> HIDE DEF Is
<1>8. QED
  BY <1>6, <1>7

\* The depth of a child grows with the depth of the term.
LEMMA InnerType ==
  ASSUME NEW u, NEW i, NEW d \in Nat
  PROVE  /\ Inner(u, i, d) \in Nat /\ Inner(u, i, d) <= d + Binders(u, i)
         /\ \A e \in Nat : d <= e => Inner(u, i, d) <= Inner(u, i, e)
         /\ \A e \in Nat : d + Binders(u, i) + e \in Nat
<1>1. Binders(u, i) \in {0, 1}
  BY BindersType
<1>2. QED
  BY <1>1 DEF Inner

\* A term in scope at some depth is in scope at every greater one.
LEMMA ScopesGrow ==
  ASSUME IsTermSet(Term), NEW u \in Term, NEW d \in Scopes[u], NEW e \in Nat, d \in Nat, d <= e
  PROVE  e \in Scopes[u]
<1> DEFINE P == {v \in Term : \A k \in Nat : \A m \in Nat : k \in Scopes[v] /\ k <= m => m \in Scopes[v]}
<1>1. ASSUME NEW v \in Term, \A i \in 1..Len(v.kids) : v.kids[i] \in P,
             NEW k \in Nat, NEW m \in Nat, k \in Scopes[v], k <= m
      PROVE  m \in Scopes[v]
  <2>1. CASE v.op = "Var"
    <3>1. v.n < k /\ v.n \in Nat
      BY <1>1, <2>1, ScopesDef, TermFields
    <3>2. v.n < m
      BY <1>1, <3>1
    <3>3. QED
      BY <2>1, <3>2, ScopesDef
  <2>2. CASE v.op # "Var"
    <3>1. ASSUME NEW i \in 1..Len(v.kids) PROVE Inner(v, i, m) \in Scopes[v.kids[i]]
      <4>1. Inner(v, i, k) \in Scopes[v.kids[i]]
        BY <1>1, <2>2, ScopesDef
      <4>2. Inner(v, i, k) \in Nat /\ Inner(v, i, m) \in Nat /\ Inner(v, i, k) <= Inner(v, i, m)
        BY <1>1, InnerType
      <4>3. v.kids[i] \in P
        BY <1>1
      <4>4. QED
        BY <4>1, <4>2, <4>3
    <3>2. QED
      BY <2>2, <3>1, ScopesDef
  <2>3. QED
    BY <2>1, <2>2
<1>2. P \in SUBSET Term /\ \A v \in Term : (\A i \in 1..Len(v.kids) : v.kids[i] \in P) => v \in P
  BY <1>1
<1>3. u \in P
  <2> HIDE DEF P
  <2> QED BY <1>2, TermInduction
<1>4. QED
  BY <1>3

\* f leaves the variables below the depth it works at alone.
KeepsLow(f) == \A n \in Nat : \A d \in Nat : n < d => f[Var(n)][d] = Var(n)

\* What is in scope at a depth is left alone from that depth on.
LEMMA ScopedKept ==
  ASSUME IsTermSet(Term), NEW f, Traverses(f), KeepsLow(f)
  PROVE  \A u \in Term : \A d \in Nat : \A e \in Nat : d \in Scopes[u] /\ d <= e => f[u][e] = u
<1> DEFINE P == {u \in Term : \A d \in Nat : \A e \in Nat : d \in Scopes[u] /\ d <= e => f[u][e] = u}
<1>1. ASSUME NEW u \in Term, \A i \in 1..Len(u.kids) : u.kids[i] \in P,
             NEW d \in Nat, NEW e \in Nat, d \in Scopes[u], d <= e
      PROVE  f[u][e] = u
  <2>1. CASE u.op = "Var"
    <3>1. u.n < d /\ u.n \in Nat /\ u = Var(u.n)
      BY <1>1, <2>1, ScopesDef, TermFields, VarIsTerm
    <3>2. u.n < e
      BY <1>1, <3>1
    <3>3. QED
      BY <3>1, <3>2 DEF KeepsLow
  <2>2. CASE u.op # "Var"
    <3>1. ASSUME NEW i \in 1..Len(u.kids) PROVE f[u.kids[i]][e + Binders(u, i)] = u.kids[i]
      <4>1. Inner(u, i, d) \in Scopes[u.kids[i]]
        BY <1>1, <2>2, ScopesDef
      <4>2. Inner(u, i, d) \in Nat /\ Inner(u, i, d) <= d + Binders(u, i)
        BY InnerType
      <4>3. e + Binders(u, i) \in Nat /\ Inner(u, i, d) <= e + Binders(u, i)
        BY <1>1, <4>2, BindersType
      <4>4. u.kids[i] \in P
        BY <1>1
      <4>5. QED
        BY <4>1, <4>2, <4>3, <4>4
    <3>2. KidsBy(f, u, e) = u.kids
      <4>1. u.kids \in Seq(Term)
        BY TermFields
      <4>2. KidsBy(f, u, e) = [i \in 1..Len(u.kids) |-> u.kids[i]]
        BY <3>1 DEF KidsBy
      <4>3. QED
        BY <4>1, <4>2
    <3>3. f[u][e] = WithKids(u, u.kids)
      BY <2>2, <3>2 DEF Traverses
    <3>4. u = Node(u.op, u.n, u.name, u.kids)
      BY TermFields
    <3>5. QED
      BY <3>3, <3>4, TermFields, WithKidsIsTerm
  <2>3. QED
    BY <2>1, <2>2
<1>2. P \in SUBSET Term /\ \A u \in Term : (\A i \in 1..Len(u.kids) : u.kids[i] \in P) => u \in P
  BY <1>1
<1>3. \A u \in Term : u \in P
  <2> HIDE DEF P
  <2> QED BY <1>2, TermInduction
<1>4. QED
  BY <1>3

\* f takes what is in scope at depth p + k to what is in scope at q + k, when it
\* works at depth r + k.
Rescopes(f, p, r, q) ==
  \A u \in Term : \A k \in Nat : p + k \in Scopes[u] => q + k \in Scopes[f[u][r + k]]

\* A traversal rescopes all terms if it rescopes the variables.
LEMMA ScopedTraversal ==
  ASSUME IsTermSet(Term), NEW f, Traverses(f), KeepsLow(f), \A u \in Term : \A d \in Nat : f[u][d] \in Term,
         NEW p \in Nat, NEW q \in Nat, NEW r \in Nat,
         \A n \in Nat : \A k \in Nat : n < p + k => q + k \in Scopes[f[Var(n)][r + k]]
  PROVE  Rescopes(f, p, r, q)
<1> DEFINE P == {u \in Term : \A k \in Nat : p + k \in Scopes[u] => q + k \in Scopes[f[u][r + k]]}
<1>1. ASSUME NEW u \in Term, \A i \in 1..Len(u.kids) : u.kids[i] \in P,
             NEW k \in Nat, p + k \in Scopes[u]
      PROVE  q + k \in Scopes[f[u][r + k]]
  <2>1. p + k \in Nat /\ q + k \in Nat /\ r + k \in Nat
    OBVIOUS
  <2>2. CASE u.op = "Var"
    <3>1. u.n < p + k /\ u.n \in Nat /\ u = Var(u.n)
      BY <1>1, <2>1, <2>2, ScopesDef, TermFields, VarIsTerm, Zenon
    <3>2. q + k \in Scopes[f[Var(u.n)][r + k]]
      BY <3>1, Zenon
    <3>3. QED
      BY <3>1, <3>2, Zenon
  <2>3. CASE u.op # "Var"
    <3> DEFINE ks == KidsBy(f, u, r + k)
               v == f[u][r + k]
    <3>1. /\ ks \in Seq(Term) /\ Len(ks) = Len(u.kids)
          /\ \A i \in 1..Len(u.kids) : ks[i] = f[u.kids[i]][r + k + Binders(u, i)]
      BY <2>1, KidsByType
    <3>2. v = WithKids(u, ks)
      BY <2>1, <2>3 DEF Traverses
    <3> HIDE DEF ks, v
    <3>3. v \in Term /\ v.op = u.op /\ v.kids = ks
      BY <3>1, <3>2, WithKidsIsTerm
    <3>4. ASSUME NEW i \in 1..Len(u.kids) PROVE Inner(v, i, q + k) \in Scopes[ks[i]]
      <4> DEFINE e == Binders(u, i)
      <4>0. e \in Nat
        BY BindersType
      <4>1. k + e \in Nat /\ p + k + e = p + (k + e) /\ r + k + e = r + (k + e) /\ q + k + e = q + (k + e)
        <5> HIDE DEF e
        <5> QED BY <4>0
      <4>2. Binders(v, i) = e /\ (IsCase(v, i) <=> IsCase(u, i))
        BY <3>1, <3>3 DEF Binders, IsCase
      <4>3. Inner(u, i, p + k) \in Scopes[u.kids[i]]
        BY <1>1, <2>1, <2>3, ScopesDef
      <4>4. ks[i] = f[u.kids[i]][r + (k + e)]
        BY <3>1, <4>1
      <4>5. u.kids[i] \in Term /\ u.kids[i] \in P
        BY <1>1, KidIsTerm
      <4> HIDE DEF e
      <4>6. CASE IsCase(u, i)
        <5>1. Inner(u, i, p + k) = 0 /\ Inner(v, i, q + k) = 0
          BY <4>2, <4>6 DEF Inner
        <5>2. 0 <= r + (k + e) /\ r + (k + e) \in Nat
          BY <4>1
        <5>3. 0 \in Scopes[u.kids[i]]
          BY <4>3, <5>1
        <5>4. \A w \in Term : \A m \in Nat : 0 \in Scopes[w] => f[w][m] = w
          <6>1. \A m \in Nat : 0 \in Nat /\ 0 <= m
            OBVIOUS
          <6> QED BY <6>1, ScopedKept, Zenon
        <5>5. f[u.kids[i]][r + (k + e)] = u.kids[i]
          BY <4>5, <5>2, <5>3, <5>4, Zenon
        <5>6. QED
          BY <4>3, <4>4, <5>1, <5>5
      <4>7. CASE ~IsCase(u, i)
        <5>1. Inner(u, i, p + k) = p + (k + e) /\ Inner(v, i, q + k) = q + (k + e)
          BY <4>1, <4>2, <4>7 DEF Inner, e
        <5>2. q + (k + e) \in Scopes[f[u.kids[i]][r + (k + e)]]
          BY <4>1, <4>3, <4>5, <5>1, Zenon
        <5>3. QED
          BY <4>4, <5>1, <5>2
      <4>8. QED
        BY <4>6, <4>7
    <3>5. q + k \in Scopes[v]
      BY <2>1, <2>3, <3>1, <3>3, <3>4, ScopesDef
    <3>6. QED
      BY <3>5 DEF v
  <2>4. QED
    BY <2>2, <2>3
<1>2. P \in SUBSET Term /\ \A u \in Term : (\A i \in 1..Len(u.kids) : u.kids[i] \in P) => u \in P
  BY <1>1
<1>3. \A u \in Term : u \in P
  <2> HIDE DEF P
  <2> QED BY <1>2, TermInduction
<1>4. QED
  BY <1>3 DEF Rescopes

\* `shift` and `subst` leave the variables below where they start alone.
LEMMA LowKept ==
  ASSUME IsTermSet(Term)
  PROVE  /\ \A a \in Nat : KeepsLow(ShiftBy(a))
         /\ \A b \in Term : KeepsLow(SubstWith(b))
<1>1. ASSUME NEW a \in Nat, NEW n \in Nat, NEW d \in Nat, n < d PROVE ShiftBy(a)[Var(n)][d] = Var(n)
  <2>1. Shift(Var(n), d, a) = Var(n)
    BY <1>1, ShiftVar
  <2>2. QED
    BY <2>1 DEF Shift
<1>2. ASSUME NEW b \in Term, NEW n \in Nat, NEW d \in Nat, n < d PROVE SubstWith(b)[Var(n)][d] = Var(n)
  <2>1. Subst(Var(n), d, b) = Var(n)
    BY <1>2, SubstOfVar
  <2>2. QED
    BY <2>1 DEF Subst
<1>3. QED
  BY <1>1, <1>2 DEF KeepsLow

\* A variable is in scope below its binder.
LEMMA VarScope ==
  ASSUME IsTermSet(Term), NEW n \in Nat, NEW d \in Nat
  PROVE  d \in Scopes[Var(n)] <=> n < d
BY VarIsTerm, ScopesDef

\* A term carried under binders is in scope there.
LEMMA ShiftScopes ==
  ASSUME IsTermSet(Term), NEW u \in Term, NEW a \in Nat, NEW d \in Nat, d \in Scopes[u]
  PROVE  d + a \in Scopes[Shift(u, 0, a)]
<1> DEFINE f == ShiftBy(a)
<1>1. Traverses(f) /\ KeepsLow(f) /\ \A v \in Term : \A k \in Nat : f[v][k] \in Term
  BY Traversals, LowKept
<1>2. d + a \in Nat /\ 0 \in Nat
  OBVIOUS
<1>3. ASSUME NEW n \in Nat, NEW k \in Nat, n < d + k
      PROVE  d + a + k \in Scopes[f[Var(n)][0 + k]]
  <2>1. 0 + k = k /\ d + a + k \in Nat /\ n + a \in Nat /\ n + a < d + a + k /\ n < d + a + k
    BY <1>3
  <2>2. f[Var(n)][k] = Shift(Var(n), k, a)
    BY DEF Shift
  <2>3. f[Var(n)][k] \in {Var(n), Var(n + a)}
    <3>1. k <= n \/ n < k
      OBVIOUS
    <3>2. QED
      BY <2>2, <3>1, ShiftVar
  <2>4. d + a + k \in Scopes[Var(n)] /\ d + a + k \in Scopes[Var(n + a)]
    <3> DEFINE e == d + a + k
               m == n + a
    <3>1. e \in Nat /\ m \in Nat /\ n < e /\ m < e
      BY <2>1
    <3> HIDE DEF e, m
    <3>2. e \in Scopes[Var(n)] /\ e \in Scopes[Var(m)]
      BY <3>1, VarScope, Zenon
    <3>3. QED
      BY <3>2 DEF e, m
  <2>5. QED
    BY <2>1, <2>3, <2>4
<1> DEFINE q == d + a
           z == 0
<1>4. q \in Nat /\ z \in Nat /\ \A n \in Nat : \A k \in Nat : n < d + k => q + k \in Scopes[f[Var(n)][z + k]]
  BY <1>3
<1>5. q + z = q /\ d + z = d /\ z + z = z /\ z \in Nat
  OBVIOUS
<1> HIDE DEF f, q, z
<1>6. Rescopes(f, d, z, q)
  BY <1>1, <1>4, ScopedTraversal, Zenon
<1>7. d + z \in Scopes[u] => q + z \in Scopes[f[u][z + z]]
  BY <1>5, <1>6, Zenon DEF Rescopes
<1>8. q \in Scopes[f[u][z]]
  BY <1>5, <1>7
<1>9. QED
  BY <1>8 DEF f, q, z, Shift

\* A redex whose parts are in scope leaves a term in scope.
LEMMA SubstScopes ==
  ASSUME IsTermSet(Term), NEW u \in Term, NEW b \in Term, NEW d \in Nat, d + 1 \in Scopes[u], d \in Scopes[b]
  PROVE  d \in Scopes[Subst(u, 0, b)]
<1> DEFINE f == SubstWith(b)
<1>1. Traverses(f) /\ KeepsLow(f) /\ \A v \in Term : \A k \in Nat : f[v][k] \in Term
  BY Traversals, LowKept
<1>2. ASSUME NEW n \in Nat, NEW k \in Nat, n < d + 1 + k
      PROVE  d + k \in Scopes[f[Var(n)][k]]
  <2>1. d + k \in Nat /\ f[Var(n)][k] = Subst(Var(n), k, b)
    BY DEF Subst
  <2>2. CASE n = k
    <3>1. f[Var(n)][k] = Shift(b, 0, k)
      BY <2>1, <2>2, SubstOfVar
    <3>2. d + k \in Scopes[Shift(b, 0, k)]
      BY ShiftScopes
    <3>3. QED
      BY <3>1, <3>2
  <2>3. CASE n < k
    <3>1. f[Var(n)][k] = Var(n)
      BY <2>1, <2>3, SubstOfVar
    <3>2. n < d + k
      BY <2>3
    <3>3. d + k \in Scopes[Var(n)]
      BY <2>1, <3>2, VarScope, Zenon
    <3>4. QED
      BY <3>1, <3>3
  <2>4. CASE k < n
    <3>1. PICK m \in Nat : n = m + 1 /\ k <= m /\ m < d + k
      <4>1. n - 1 \in Nat /\ n = (n - 1) + 1 /\ k <= n - 1 /\ n - 1 < d + k
        BY <1>2, <2>4
      <4>2. QED
        BY <4>1
    <3>2. f[Var(n)][k] = Var(m)
      <4>1. Subst(Var(m + 1), k, b) = Var(m)
        BY <3>1, SubstOfVar, Zenon
      <4>2. QED
        BY <2>1, <3>1, <4>1
    <3>3. d + k \in Scopes[Var(m)]
      BY <2>1, <3>1, VarScope, Zenon
    <3>4. QED
      BY <3>2, <3>3
  <2>5. QED
    BY <2>2, <2>3, <2>4
<1> DEFINE p == d + 1
           z == 0
<1>3. p \in Nat /\ z \in Nat /\ \A n \in Nat : \A k \in Nat : n < p + k => d + k \in Scopes[f[Var(n)][z + k]]
  BY <1>2
<1>4. p + z = p /\ d + z = d /\ z + z = z /\ z \in Nat
  OBVIOUS
<1> HIDE DEF f, p, z
<1>5. Rescopes(f, p, z, d)
  BY <1>1, <1>3, ScopedTraversal, Zenon
<1>6. p + z \in Scopes[u] => d + z \in Scopes[f[u][z + z]]
  BY <1>4, <1>5, Zenon DEF Rescopes
<1>7. d \in Scopes[f[u][z]]
  BY <1>4, <1>6 DEF p
<1>8. QED
  BY <1>7 DEF f, z, Subst
-----------------------------------------------------------------------------
(* The terms a step builds.                                                *)

\* An application is a term.
LEMMA AppIsTerm ==
  ASSUME IsTermSet(Term), NEW a \in Term, NEW b \in Term
  PROVE  /\ App(a, b) \in Term /\ App(a, b).op = "App" /\ App(a, b).n = 0 /\ App(a, b).name = <<>>
         /\ App(a, b).kids = <<a, b>> /\ Len(App(a, b).kids) = 2
         /\ App(a, b).kids[1] = a /\ App(a, b).kids[2] = b
<1>1. <<a, b>> \in Seq(Term) /\ Len(<<a, b>>) = 2
  OBVIOUS
<1>2. Shaped(Node("App", 0, <<>>, <<a, b>>))
  BY <1>1 DEF Shaped, Node, Arity
<1>3. "App" \in Ops /\ 0 \in Nat /\ <<>> \in Seq(STRING)
  BY DEF Ops
<1>4. Node("App", 0, <<>>, <<a, b>>) \in Term
  BY <1>1, <1>2, <1>3, NodeIsTerm
<1>5. QED
  BY <1>1, <1>4 DEF App, Node

\* A term with one child replaced.
Replaced(u, i, v) == [u EXCEPT !.kids[i] = v]

\* It is a term.
LEMMA KidReplaced ==
  ASSUME IsTermSet(Term), NEW u \in Term, NEW i \in 1..Len(u.kids), NEW v \in Term
  PROVE  /\ Replaced(u, i, v) \in Term
         /\ Replaced(u, i, v).op = u.op /\ Replaced(u, i, v).n = u.n
         /\ Replaced(u, i, v).name = u.name
         /\ Len(Replaced(u, i, v).kids) = Len(u.kids)
         /\ \A j \in 1..Len(u.kids) : Replaced(u, i, v).kids[j] = IF j = i THEN v ELSE u.kids[j]
<1> DEFINE ks == [u.kids EXCEPT ![i] = v]
<1>1. u.kids \in Seq(Term) /\ Len(u.kids) \in Nat /\ u = Node(u.op, u.n, u.name, u.kids)
  BY TermFields
<1>2. ks \in Seq(Term) /\ Len(ks) = Len(u.kids) /\ \A j \in 1..Len(u.kids) : ks[j] = IF j = i THEN v ELSE u.kids[j]
  BY <1>1
<1>3. Replaced(u, i, v) = WithKids(u, ks)
  BY <1>1 DEF WithKids, Node, Replaced
<1> HIDE DEF ks
<1>4. /\ WithKids(u, ks) \in Term
      /\ WithKids(u, ks).op = u.op /\ WithKids(u, ks).n = u.n
      /\ WithKids(u, ks).name = u.name /\ WithKids(u, ks).kids = ks
  BY <1>2, WithKidsIsTerm
<1>5. QED
  BY <1>2, <1>3, <1>4

\* No term is the mark of a term that does not step.
LEMMA StuckIsNoTerm ==
  ASSUME IsTermSet(Term)
  PROVE  Stuck \notin Term
<1>1. Stuck.op = "Stuck"
  BY DEF Stuck, Leaf, Node
<1>2. "Stuck" \notin Ops
  BY DEF Ops
<1>3. QED
  BY <1>1, <1>2, TermFields

\* `case` and its applications, the last argument first.
LEMMA ApplyRevSteps ==
  ASSUME IsTermSet(Term), NEW case \in Term, NEW args \in Seq(Term)
  PROVE  \E f \in [0..Len(args) -> Term] :
           /\ f[0] = case
           /\ \A k \in 1..Len(args) : f[k] = App(f[k - 1], args[Len(args) + 1 - k])
           /\ ApplyRev(case, args) = f[Len(args)]
<1> DEFINE n == Len(args)
           X == 0..n
           kids == [k \in X |-> IF k = 0 THEN <<>> ELSE <<k - 1>>]
           G == [k \in X |-> [ks \in Seq(Term) |-> IF k = 0 THEN case ELSE App(ks[1], args[n + 1 - k])]]
           Body(g, k) == IF k = 0 THEN case ELSE App(g[k - 1], args[n + 1 - k])
           Is(g) == g = [k \in X |-> Body(g, k)]
<1>0. n \in Nat /\ \A k \in 1..n : args[k] \in Term
  OBVIOUS
<1>1. Founded(X, kids)
  <2>1. ASSUME NEW S \in SUBSET X, S # {} PROVE \E x \in S : \A i \in DOMAIN kids[x] : kids[x][i] \notin S
    <3>1. PICK x \in S : \A y \in S : x <= y
      <4>1. S \in SUBSET Nat
        BY <1>0
      <4>2. QED
        BY <2>1, <4>1, LeastNat
    <3>2. \A i \in DOMAIN kids[x] : kids[x][i] \notin S
      <4>1. CASE x = 0
        BY <4>1, <1>0
      <4>2. CASE x # 0
        <5>1. kids[x] = <<x - 1>> /\ x \in Nat
          BY <1>0, <4>2
        <5>2. x - 1 \notin S
          BY <3>1, <5>1
        <5>3. QED
          BY <5>1, <5>2
      <4>3. QED
        BY <4>1, <4>2
    <3>3. QED
      BY <3>2
  <2> HIDE DEF X, kids
  <2>2. QED
    BY <2>1 DEF Founded
<1>2. \A k \in X : kids[k] \in Seq(X)
  <2>1. ASSUME NEW k \in X PROVE kids[k] \in Seq(X)
    <3>1. CASE k = 0
      BY <3>1
    <3>2. CASE k # 0
      <4>1. k - 1 \in X /\ kids[k] = <<k - 1>>
        BY <1>0, <3>2
      <4>2. QED
        <5> HIDE DEF X, kids
        <5> QED BY <4>1
    <3>3. QED
      BY <3>1, <3>2
  <2>2. QED
    BY <2>1
<1>3. \A k \in X : \A ks \in Seq(Term) : Len(ks) = Len(kids[k]) => G[k][ks] \in Term
  <2>1. ASSUME NEW k \in X, NEW ks \in Seq(Term), Len(ks) = Len(kids[k]), k # 0
        PROVE  App(ks[1], args[n + 1 - k]) \in Term
    <3>1. Len(ks) = 1 /\ ks[1] \in Term
      BY <2>1
    <3>2. n + 1 - k \in 1..n
      BY <1>0, <2>1
    <3>3. QED
      BY <1>0, <3>1, <3>2, AppIsTerm
  <2>2. QED
    BY <2>1
<1>4. PICK f \in [X -> Term] : IsRecursive(f, X, kids, G)
  <2> HIDE DEF X, kids, G
  <2> QED BY <1>1, <1>2, <1>3, Recursion
<1>5. \A k \in X : f[k] = Body(f, k)
  <2>1. ASSUME NEW k \in X PROVE f[k] = Body(f, k)
    <3> DEFINE ks == [i \in 1..Len(kids[k]) |-> f[kids[k][i]]]
    <3>1. f[k] = G[k][ks]
      <4> HIDE DEF G, kids, X
      <4> QED BY <1>4 DEF IsRecursive
    <3>2. CASE k = 0
      <4>1. ks \in Seq(Term)
        BY <3>2
      <4>2. QED
        BY <3>1, <3>2, <4>1
    <3>3. CASE k # 0
      <4>1. k - 1 \in X /\ Len(kids[k]) = 1 /\ kids[k][1] = k - 1
        BY <1>0, <3>3
      <4>2. ks = <<f[k - 1]>> /\ f[k - 1] \in Term
        BY <4>1
      <4>3. ks \in Seq(Term) /\ ks[1] = f[k - 1]
        BY <4>2
      <4> HIDE DEF ks
      <4>4. QED
        BY <3>1, <3>3, <4>3
    <3>4. QED
      BY <3>2, <3>3
  <2>2. QED
    BY <2>1
<1>6. Is(f)
  <2> HIDE DEF Body, X
  <2>1. f = [k \in X |-> Body(f, k)]
    BY <1>5
  <2>2. QED
    BY <2>1
<1>7. PICK h : Is(h) /\ ApplyRev(case, args) = h[n]
  <2>1. ApplyRev(case, args) = (CHOOSE g : Is(g))[n]
    BY DEF ApplyRev
  <2> HIDE DEF Is
  <2>2. QED
    BY <1>6, <2>1
<1>8. DOMAIN h = X /\ \A k \in X : h[k] = Body(h, k)
  <2> HIDE DEF Body, X
  <2>1. h = [k \in X |-> Body(h, k)]
    BY <1>7
  <2>2. QED
    BY <2>1, Zenon
<1> HIDE DEF Is
<1>9. \A k \in X : h[k] = f[k]
  <2> SUFFICES ASSUME {k \in X : h[k] # f[k]} # {} PROVE FALSE
    OBVIOUS
  <2>1. PICK k \in X : h[k] # f[k] /\ \A j \in X : h[j] # f[j] => k <= j
    <3>1. {k \in X : h[k] # f[k]} \in SUBSET Nat
      BY <1>0
    <3>2. QED
      BY <3>1, LeastNat
  <2>2. CASE k = 0
    BY <1>5, <1>8, <2>1, <2>2
  <2>3. CASE k # 0
    <3>1. k - 1 \in X /\ ~(k <= k - 1)
      BY <1>0, <2>3
    <3>2. h[k - 1] = f[k - 1]
      BY <2>1, <3>1
    <3>3. QED
      BY <1>5, <1>8, <2>1, <2>3, <3>2
  <2>4. QED
    BY <2>2, <2>3
<1>10. n \in X /\ 0 \in X /\ \A k \in 1..n : k \in X /\ k # 0
  BY <1>0
<1>11. f[0] = case /\ \A k \in 1..n : f[k] = App(f[k - 1], args[n + 1 - k])
  BY <1>5, <1>10
<1>12. ApplyRev(case, args) = f[n]
  BY <1>7, <1>9, <1>10
<1>13. QED
  BY <1>11, <1>12
-----------------------------------------------------------------------------
(* A step at the top of a term, and what it preserves.                     *)

\* The child an elimination waits for, and the terms it waits for.
Awaited(u) == u.kids[Principal(u)]
Introductions == {"Lambda", "Pair", "Zero", "Succ", "True", "False", "Con"}

\* What the top of a term steps to, its children left as they are.
TopStep(u) ==
  CASE u.op = "Const" -> IF u.name[1] \in DOMAIN Defs THEN Defs[u.name[1]].value ELSE Stuck
    [] u.op = "Let" -> SubstTop(u.kids[3], u.kids[2])
    [] u.op \in Eliminations -> Contract(u, Awaited(u))
    [] OTHER -> Stuck

LibraryTerms == \A c \in DOMAIN Defs : Defs[c].value \in Term

\* The pairs R1 is about terms under one more binder than those of R.
Related(x, y, R, R1) ==
  /\ y.op = x.op /\ y.n = x.n /\ y.name = x.name /\ Len(y.kids) = Len(x.kids)
  /\ \A i \in 1..Len(x.kids) : <<x.kids[i], y.kids[i]>> \in IF Binders(x, i) = 0 \/ IsCase(x, i) THEN R ELSE R1
\* R and R1 are kept by what a step does.
StepKeeps(R, R1) ==
  /\ R \in SUBSET (Term \X Term) /\ R1 \in SUBSET (Term \X Term)
  /\ \A a \in Term : \A b \in Term : \A c \in Term : \A d \in Term :
       <<b, d>> \in R1 /\ <<a, c>> \in R => <<SubstTop(b, a), SubstTop(d, c)>> \in R
  /\ \A x \in Term : \A y \in Term : x.op \in {"App", "NatRec"} /\ Related(x, y, R, R1) => <<x, y>> \in R
  /\ \A c \in DOMAIN Defs : <<Defs[c].value, Defs[c].value>> \in R

\* The arity of the terms a step looks at.
LEMMA Arities ==
  ASSUME IsTermSet(Term), NEW u \in Term
  PROVE  /\ u.op \in {"Const", "Zero", "True", "False"} => Len(u.kids) = 0
         /\ u.op \in {"Fst", "Snd", "Succ"} => Len(u.kids) = 1
         /\ u.op \in {"App", "Lambda"} => Len(u.kids) = 2
         /\ u.op \in {"Let", "Pair"} => Len(u.kids) = 3
         /\ u.op \in {"NatRec", "BoolRec"} => Len(u.kids) = 4
         /\ u.op = "IndRec" => Len(u.kids) = Len(u.name) + 1 /\ Len(u.name) >= 1 /\ Len(u.name) \in Nat
         /\ u.op = "Const" => Len(u.name) = 1
         /\ u.op = "Con" => Len(u.name) = 2
<1>1. u.name \in Seq(STRING) /\ Shaped(u)
  BY TermFields
<1>2. Len(u.name) \in Nat
  BY <1>1
<1> HIDE DEF Ops
<1>3. QED
  BY <1>1, <1>2 DEF Shaped, Arity

\* Applications of related terms are related.
LEMMA AppRelated ==
  ASSUME IsTermSet(Term), NEW R, NEW R1, StepKeeps(R, R1),
         NEW a, NEW b, NEW c, NEW d, <<a, c>> \in R, <<b, d>> \in R
  PROVE  <<App(a, b), App(c, d)>> \in R
<1>1. a \in Term /\ b \in Term /\ c \in Term /\ d \in Term
  BY DEF StepKeeps
<1> DEFINE x == App(a, b)
           y == App(c, d)
<1>2. /\ x \in Term /\ x.op = "App" /\ x.n = 0 /\ x.name = <<>> /\ Len(x.kids) = 2
      /\ x.kids[1] = a /\ x.kids[2] = b
      /\ y \in Term /\ y.op = "App" /\ y.n = 0 /\ y.name = <<>> /\ Len(y.kids) = 2
      /\ y.kids[1] = c /\ y.kids[2] = d
  BY <1>1, AppIsTerm
<1> HIDE DEF x, y
<1>3. \A i \in 1..2 : <<x.kids[i], y.kids[i]>> \in R
  BY <1>2
<1>4. \A i \in 1..2 : Binders(x, i) = 0
  BY <1>2 DEF Binders
<1>5. Related(x, y, R, R1)
  BY <1>2, <1>3, <1>4 DEF Related
<1>6. QED
  BY <1>2, <1>5 DEF StepKeeps, x, y

\* A case applied to the arguments of a constructor.
LEMMA ApplyRevRelated ==
  ASSUME IsTermSet(Term), NEW R, NEW R1, StepKeeps(R, R1), NEW a \in Term, NEW c \in Term, <<a, c>> \in R,
         NEW xs \in Seq(Term), NEW ys \in Seq(Term), Len(xs) = Len(ys),
         \A i \in 1..Len(xs) : <<xs[i], ys[i]>> \in R
  PROVE  <<ApplyRev(a, xs), ApplyRev(c, ys)>> \in R
<1> DEFINE n == Len(xs)
<1>0. n \in Nat /\ Len(ys) = n
  OBVIOUS
<1>1. PICK f \in [0..n -> Term] :
        /\ f[0] = a /\ \A k \in 1..n : f[k] = App(f[k - 1], xs[n + 1 - k])
        /\ ApplyRev(a, xs) = f[n]
  BY ApplyRevSteps
<1>2. PICK g \in [0..n -> Term] :
        /\ g[0] = c /\ \A k \in 1..n : g[k] = App(g[k - 1], ys[n + 1 - k])
        /\ ApplyRev(c, ys) = g[n]
  <2>1. \E g \in [0..Len(ys) -> Term] :
        /\ g[0] = c /\ \A k \in 1..Len(ys) : g[k] = App(g[k - 1], ys[Len(ys) + 1 - k])
        /\ ApplyRev(c, ys) = g[Len(ys)]
    BY ApplyRevSteps
  <2>2. QED
    BY <1>0, <2>1
<1>3. \A i \in 1..n : <<xs[i], ys[i]>> \in R
  OBVIOUS
<1> HIDE DEF n
<1>4. ASSUME {k \in 0..n : <<f[k], g[k]>> \notin R} # {} PROVE FALSE
  <2>1. PICK k \in 0..n : <<f[k], g[k]>> \notin R /\ \A j \in 0..n : <<f[j], g[j]>> \notin R => k <= j
    <3>1. {k \in 0..n : <<f[k], g[k]>> \notin R} \in SUBSET Nat
      BY <1>0
    <3>2. QED
      BY <1>4, <3>1, LeastNat
  <2>2. k # 0
    BY <1>1, <1>2, <2>1
  <2>3. k \in 1..n /\ k - 1 \in 0..n /\ ~(k <= k - 1) /\ n + 1 - k \in 1..n
    BY <1>0, <2>2
  <2>4. <<f[k - 1], g[k - 1]>> \in R
    BY <2>1, <2>3
  <2>5. <<xs[n + 1 - k], ys[n + 1 - k]>> \in R
    BY <1>3, <2>3
  <2>6. f[k] = App(f[k - 1], xs[n + 1 - k]) /\ g[k] = App(g[k - 1], ys[n + 1 - k])
    BY <1>1, <1>2, <2>3
  <2>7. <<f[k], g[k]>> \in R
    BY <2>4, <2>5, <2>6, AppRelated
  <2>8. QED
    BY <2>1, <2>7
<1>5. n \in 0..n
  BY <1>0
<1>6. QED
  BY <1>1, <1>2, <1>4, <1>5

\* Two terms are eliminations of values that match, and related.
Twins(x, y, R, R1) ==
  /\ x \in Term /\ y \in Term /\ Related(x, y, R, R1)
  /\ x.op \in Eliminations /\ Awaited(x).op \in Introductions => Related(Awaited(x), Awaited(y), R, R1)

\* The pairs of children of an elimination that are at the depth of the term.
LEMMA ElimKids ==
  ASSUME IsTermSet(Term), NEW R, NEW R1, StepKeeps(R, R1), NEW x, NEW y, Twins(x, y, R, R1),
         x.op \in Eliminations
  PROVE  /\ y.op = x.op /\ y.name = x.name /\ Len(x.kids) \in Nat /\ Len(y.kids) = Len(x.kids)
         /\ \A i \in 1..Len(x.kids) : <<x.kids[i], y.kids[i]>> \in R
         /\ Principal(x) \in 1..Len(x.kids) /\ Principal(y) = Principal(x)
         /\ Awaited(x) \in Term /\ Awaited(y) \in Term
<1>1. x \in Term /\ y \in Term /\ Related(x, y, R, R1)
  BY DEF Twins
<1>2. y.op = x.op /\ y.name = x.name /\ Len(y.kids) = Len(x.kids) /\ Len(x.kids) \in Nat
  BY <1>1, TermFields DEF Related
<1>3. ASSUME NEW i \in 1..Len(x.kids) PROVE <<x.kids[i], y.kids[i]>> \in R
  <2>1. Binders(x, i) = 0 \/ IsCase(x, i)
    BY DEF Binders, IsCase, Eliminations
  <2>2. QED
    BY <1>1, <2>1 DEF Related
<1>4. Principal(x) \in 1..Len(x.kids) /\ Principal(y) = Principal(x)
  <2>1. Len(x.kids) >= 1
    BY <1>1, Arities DEF Eliminations
  <2>2. QED
    BY <1>2, <2>1 DEF Principal, Eliminations
<1>5. Awaited(x) \in Term /\ Awaited(y) \in Term
  BY <1>1, <1>2, <1>4, TermFields DEF Awaited
<1>6. QED
  BY <1>1, <1>2, <1>3, <1>4, <1>5

\* The pairs of children of the values an elimination waits for.
LEMMA HeadKids ==
  ASSUME IsTermSet(Term), NEW R, NEW R1, StepKeeps(R, R1), NEW x, NEW y, Twins(x, y, R, R1),
         x.op \in Eliminations, Awaited(x).op \in Introductions
  PROVE  LET p == Awaited(x)
             q == Awaited(y)
         IN  /\ q.op = p.op /\ q.name = p.name /\ Len(q.kids) = Len(p.kids)
             /\ p.op = "Lambda" => <<p.kids[2], q.kids[2]>> \in R1
             /\ p.op # "Lambda" => \A i \in 1..Len(p.kids) : <<p.kids[i], q.kids[i]>> \in R
<1> DEFINE p == Awaited(x)
           q == Awaited(y)
<1>1. Related(p, q, R, R1) /\ p \in Term
  BY ElimKids DEF Twins
<1>2. p.op \in Introductions
  OBVIOUS
<1> HIDE DEF p, q
<1>3. ASSUME p.op # "Lambda", NEW i \in 1..Len(p.kids) PROVE <<p.kids[i], q.kids[i]>> \in R
  <2>1. Binders(p, i) = 0
    BY <1>2, <1>3 DEF Binders, Introductions
  <2>2. QED
    BY <1>1, <2>1 DEF Related
<1>4. ASSUME p.op = "Lambda" PROVE <<p.kids[2], q.kids[2]>> \in R1
  <2>1. 2 \in 1..Len(p.kids) /\ Binders(p, 2) = 1 /\ ~IsCase(p, 2)
    BY <1>1, <1>4, Arities DEF Binders, IsCase
  <2>2. QED
    BY <1>1, <2>1 DEF Related
<1>5. QED
  BY <1>1, <1>3, <1>4 DEF Related, p, q

\* The case that is chosen depends on the names alone.
LEMMA CaseForNames ==
  ASSUME NEW x, NEW y, x.name = y.name, NEW con
  PROVE  CaseFor(x, con) = CaseFor(y, con)
BY DEF CaseFor, Cases

\* Related eliminations step to related terms.
LEMMA ContractRelated ==
  ASSUME IsTermSet(Term), NEW R, NEW R1, StepKeeps(R, R1), NEW x, NEW y, Twins(x, y, R, R1),
         x.op \in Eliminations, Contract(x, Awaited(x)) # Stuck
  PROVE  <<Contract(x, Awaited(x)), Contract(y, Awaited(y))>> \in R
<1> DEFINE p == Awaited(x)
           q == Awaited(y)
<1>1. /\ x \in Term /\ y \in Term /\ p \in Term /\ q \in Term
      /\ y.op = x.op /\ y.name = x.name /\ Len(y.kids) = Len(x.kids)
      /\ \A i \in 1..Len(x.kids) : <<x.kids[i], y.kids[i]>> \in R
  <2>1. x \in Term /\ y \in Term
    BY DEF Twins
  <2>2. QED
    BY <2>1, ElimKids
<1>2. /\ \A i \in 1..Len(x.kids) : x.kids[i] \in Term /\ y.kids[i] \in Term
      /\ \A i \in 1..Len(p.kids) : p.kids[i] \in Term
      /\ \A i \in 1..Len(q.kids) : q.kids[i] \in Term
  <2> HIDE DEF p, q
  <2> QED BY <1>1, TermFields
<1>3. p.op \in Introductions =>
        /\ q.op = p.op /\ q.name = p.name /\ Len(q.kids) = Len(p.kids)
        /\ p.op = "Lambda" => <<p.kids[2], q.kids[2]>> \in R1
        /\ p.op # "Lambda" => \A i \in 1..Len(p.kids) : <<p.kids[i], q.kids[i]>> \in R
  BY HeadKids
<1>4. Contract(x, p) # Stuck
  OBVIOUS
<1> SUFFICES <<Contract(x, p), Contract(y, q)>> \in R
  OBVIOUS
<1> HIDE DEF p, q
<1>5. CASE x.op = "App" /\ p.op = "Lambda"
  <2>1. Contract(x, p) = SubstTop(p.kids[2], x.kids[2])
    BY <1>5 DEF Contract
  <2>2. q.op = "Lambda" /\ <<p.kids[2], q.kids[2]>> \in R1
    BY <1>3, <1>5 DEF Introductions
  <2>3. Contract(y, q) = SubstTop(q.kids[2], y.kids[2])
    BY <1>1, <1>5, <2>2 DEF Contract
  <2>4. Len(x.kids) = 2 /\ Len(p.kids) = 2 /\ Len(q.kids) = 2
    BY <1>1, <1>5, <2>2, Arities
  <2>5. <<SubstTop(p.kids[2], x.kids[2]), SubstTop(q.kids[2], y.kids[2])>> \in R
    BY <1>1, <1>2, <2>2, <2>4 DEF StepKeeps
  <2>6. QED
    BY <2>1, <2>3, <2>5
<1>6. CASE x.op \in {"Fst", "Snd"} /\ p.op = "Pair"
  <2>1. q.op = "Pair" /\ Len(p.kids) = 3 /\ <<p.kids[1], q.kids[1]>> \in R /\ <<p.kids[2], q.kids[2]>> \in R
    BY <1>1, <1>3, <1>6, Arities DEF Introductions
  <2>2. Contract(x, p) = (IF x.op = "Fst" THEN p.kids[1] ELSE p.kids[2])
    BY <1>6 DEF Contract
  <2>3. Contract(y, q) = (IF x.op = "Fst" THEN q.kids[1] ELSE q.kids[2])
    BY <1>1, <1>6, <2>1 DEF Contract
  <2>4. QED
    BY <2>1, <2>2, <2>3
<1>7. CASE x.op = "NatRec" /\ p.op = "Zero"
  <2>1. q.op = "Zero" /\ Len(x.kids) = 4
    BY <1>1, <1>3, <1>7, Arities DEF Introductions
  <2>2. Contract(x, p) = x.kids[2] /\ Contract(y, q) = y.kids[2]
    BY <1>1, <1>7, <2>1 DEF Contract
  <2>3. QED
    BY <1>1, <2>1, <2>2
<1>8. CASE x.op = "NatRec" /\ p.op = "Succ"
  <2> DEFINE r == Replaced(x, 4, p.kids[1])
             s == Replaced(y, 4, q.kids[1])
  <2>1. q.op = "Succ" /\ Len(p.kids) = 1 /\ Len(q.kids) = 1 /\ Len(x.kids) = 4 /\ <<p.kids[1], q.kids[1]>> \in R
    BY <1>1, <1>3, <1>8, Arities DEF Introductions
  <2>2. Contract(x, p) = App2(x.kids[3], p.kids[1], r) /\ Contract(y, q) = App2(y.kids[3], q.kids[1], s)
    BY <1>1, <1>8, <2>1 DEF Contract, Replaced
  <2>3. p.kids[1] \in Term /\ q.kids[1] \in Term /\ 4 \in 1..Len(x.kids) /\ 4 \in 1..Len(y.kids)
    BY <1>1, <1>2, <2>1
  <2>4. /\ r \in Term /\ r.op = x.op /\ r.n = x.n /\ r.name = x.name /\ Len(r.kids) = Len(x.kids)
        /\ \A j \in 1..Len(x.kids) : r.kids[j] = IF j = 4 THEN p.kids[1] ELSE x.kids[j]
    <3> QED BY <1>1, <2>3, KidReplaced
  <2>5. /\ s \in Term /\ s.op = y.op /\ s.n = y.n /\ s.name = y.name /\ Len(s.kids) = Len(y.kids)
        /\ \A j \in 1..Len(y.kids) : s.kids[j] = IF j = 4 THEN q.kids[1] ELSE y.kids[j]
    <3> QED BY <1>1, <2>3, KidReplaced
  <2> HIDE DEF r, s
  <2>6. <<r, s>> \in R
    <3>1. \A j \in 1..Len(r.kids) : <<r.kids[j], s.kids[j]>> \in R
      BY <1>1, <2>1, <2>4, <2>5
    <3>2. \A j \in 1..Len(r.kids) : Binders(r, j) = 0
      BY <1>8, <2>4 DEF Binders
    <3>3. s.n = r.n
      BY <2>4, <2>5 DEF Twins, Related
    <3>4. Related(r, s, R, R1)
      BY <1>1, <2>4, <2>5, <3>1, <3>2, <3>3 DEF Related
    <3>5. QED
      BY <1>8, <2>4, <2>5, <3>4 DEF StepKeeps
  <2>7. <<x.kids[3], y.kids[3]>> \in R
    BY <1>1, <2>1
  <2>8. <<App(x.kids[3], p.kids[1]), App(y.kids[3], q.kids[1])>> \in R
    BY <2>1, <2>7, AppRelated
  <2>9. <<App(App(x.kids[3], p.kids[1]), r), App(App(y.kids[3], q.kids[1]), s)>> \in R
    BY <2>6, <2>8, AppRelated
  <2>10. QED
    BY <2>2, <2>9 DEF App2
<1>9. CASE x.op = "BoolRec" /\ p.op \in {"True", "False"}
  <2>1. q.op = p.op /\ Len(x.kids) = 4
    BY <1>1, <1>3, <1>9, Arities DEF Introductions
  <2>2. Contract(x, p) = (IF p.op = "True" THEN x.kids[2] ELSE x.kids[3])
    BY <1>9 DEF Contract
  <2>3. Contract(y, q) = (IF p.op = "True" THEN y.kids[2] ELSE y.kids[3])
    BY <1>1, <1>9, <2>1 DEF Contract
  <2>4. QED
    BY <1>1, <2>1, <2>2, <2>3
<1>10. CASE x.op = "IndRec" /\ p.op = "Con" /\ CaseFor(x, p.name[2]) # {}
  <2> DEFINE i == CHOOSE j \in CaseFor(x, p.name[2]) : TRUE
  <2>1. q.op = "Con" /\ q.name = p.name /\ Len(q.kids) = Len(p.kids)
    BY <1>3, <1>10 DEF Introductions
  <2>2. CaseFor(y, q.name[2]) = CaseFor(x, p.name[2])
    BY <1>1, <2>1, CaseForNames
  <2>3. Contract(x, p) = ApplyRev(x.kids[i], p.kids)
    BY <1>10 DEF Contract
  <2>4. Contract(y, q) = ApplyRev(y.kids[i], q.kids)
    BY <1>1, <1>10, <2>1, <2>2 DEF Contract
  <2>5. i \in 1..Len(x.kids)
    <3>1. i \in CaseFor(x, p.name[2])
      BY <1>10
    <3>2. i \in 2..Len(x.name)
      <4> HIDE DEF i
      <4> QED BY <3>1 DEF CaseFor, Cases
    <3>3. Len(x.kids) = Len(x.name) + 1 /\ Len(x.name) \in Nat
      BY <1>1, <1>10, Arities
    <3> HIDE DEF i
    <3>4. QED
      BY <3>2, <3>3
  <2> HIDE DEF i
  <2>6. x.kids[i] \in Term /\ y.kids[i] \in Term /\ <<x.kids[i], y.kids[i]>> \in R
    BY <1>1, <1>2, <2>5
  <2>7. p.kids \in Seq(Term) /\ q.kids \in Seq(Term) /\ \A j \in 1..Len(p.kids) : <<p.kids[j], q.kids[j]>> \in R
    BY <1>1, <1>3, <1>10, TermFields DEF Introductions
  <2>8. <<ApplyRev(x.kids[i], p.kids), ApplyRev(y.kids[i], q.kids)>> \in R
    BY <2>1, <2>6, <2>7, ApplyRevRelated
  <2>9. QED
    BY <2>3, <2>4, <2>8
<1>11. \/ x.op = "App" /\ p.op = "Lambda"
       \/ x.op \in {"Fst", "Snd"} /\ p.op = "Pair"
       \/ x.op = "NatRec" /\ p.op = "Zero"
       \/ x.op = "NatRec" /\ p.op = "Succ"
       \/ x.op = "BoolRec" /\ p.op \in {"True", "False"}
       \/ x.op = "IndRec" /\ p.op = "Con" /\ CaseFor(x, p.name[2]) # {}
  BY <1>4 DEF Contract
<1>12. QED
  BY <1>5, <1>6, <1>7, <1>8, <1>9, <1>10, <1>11

\* Related terms step to related terms.
LEMMA StepRelated ==
  ASSUME IsTermSet(Term), NEW R, NEW R1, StepKeeps(R, R1), NEW x, NEW y, Twins(x, y, R, R1),
         TopStep(x) # Stuck
  PROVE  <<TopStep(x), TopStep(y)>> \in R
<1>1. x \in Term /\ y \in Term /\ Related(x, y, R, R1) /\ y.op = x.op /\ y.name = x.name
  BY DEF Twins, Related
<1>2. CASE x.op = "Const"
  <2>1. x.name[1] \in DOMAIN Defs /\ TopStep(x) = Defs[x.name[1]].value /\ TopStep(y) = Defs[x.name[1]].value
    BY <1>1, <1>2 DEF TopStep, Eliminations
  <2>2. QED
    BY <2>1 DEF StepKeeps
<1>3. CASE x.op = "Let"
  <2>1. TopStep(x) = SubstTop(x.kids[3], x.kids[2]) /\ TopStep(y) = SubstTop(y.kids[3], y.kids[2])
    BY <1>1, <1>3 DEF TopStep, Eliminations
  <2>2. Len(x.kids) = 3 /\ Len(y.kids) = 3
    BY <1>1, <1>3, Arities
  <2>3. <<x.kids[3], y.kids[3]>> \in R1 /\ <<x.kids[2], y.kids[2]>> \in R
    <3>1. 3 \in 1..Len(x.kids) /\ 2 \in 1..Len(x.kids)
      BY <2>2
    <3>2. Binders(x, 3) = 1 /\ ~IsCase(x, 3) /\ Binders(x, 2) = 0
      BY <1>3 DEF Binders, IsCase
    <3>3. QED
      BY <1>1, <3>1, <3>2 DEF Related
  <2>4. x.kids[3] \in Term /\ y.kids[3] \in Term /\ x.kids[2] \in Term /\ y.kids[2] \in Term
    BY <2>3 DEF StepKeeps
  <2>5. QED
    BY <2>1, <2>3, <2>4 DEF StepKeeps
<1>4. CASE x.op \in Eliminations
  <2>1. TopStep(x) = Contract(x, Awaited(x)) /\ TopStep(y) = Contract(y, Awaited(y))
    BY <1>1, <1>4 DEF TopStep, Eliminations
  <2>2. QED
    BY <1>4, <2>1, ContractRelated
<1>5. x.op = "Const" \/ x.op = "Let" \/ x.op \in Eliminations
  BY DEF TopStep
<1>6. QED
  BY <1>2, <1>3, <1>4, <1>5

\* The library is closed terms.
LibraryClosed == \A c \in DOMAIN Defs : Defs[c].value \in Term /\ 0 \in Scopes[Defs[c].value]

\* The depths of the children of a term.
LEMMA KidScopes ==
  ASSUME IsTermSet(Term), NEW u \in Term, u.op # "Var", NEW d \in Nat, d \in Scopes[u]
  PROVE  \A i \in 1..Len(u.kids) : d + (IF Binders(u, i) = 0 \/ IsCase(u, i) THEN 0 ELSE 1) \in Scopes[u.kids[i]]
<1> SUFFICES ASSUME NEW i \in 1..Len(u.kids)
             PROVE  d + (IF Binders(u, i) = 0 \/ IsCase(u, i) THEN 0 ELSE 1) \in Scopes[u.kids[i]]
  OBVIOUS
<1>1. Inner(u, i, d) \in Scopes[u.kids[i]] /\ Binders(u, i) \in {0, 1} /\ u.kids[i] \in Term
  BY ScopesDef, BindersType, KidIsTerm
<1>2. CASE IsCase(u, i)
  <2>1. PICK z \in Nat : z = 0 /\ z \in Scopes[u.kids[i]] /\ z <= d
    BY <1>1, <1>2 DEF Inner
  <2>2. d \in Scopes[u.kids[i]]
    BY <1>1, <2>1, ScopesGrow, Zenon
  <2>3. QED
    BY <1>2, <2>2
<1>3. CASE ~IsCase(u, i)
  BY <1>1, <1>3 DEF Inner
<1>4. QED
  BY <1>2, <1>3

\* The terms in scope at depth d, each paired with itself.
ScopedPairs(d) == {<<v, v>> : v \in {w \in Term : d \in Scopes[w]}}

\* A term in scope is related to itself.
LEMMA ScopedRelated ==
  ASSUME IsTermSet(Term), NEW u \in Term, u.op # "Var", NEW d \in Nat, d \in Scopes[u]
  PROVE  Related(u, u, ScopedPairs(d), ScopedPairs(d + 1))
<1>1. \A i \in 1..Len(u.kids) : d + (IF Binders(u, i) = 0 \/ IsCase(u, i) THEN 0 ELSE 1) \in Scopes[u.kids[i]]
  BY KidScopes
<1>2. \A i \in 1..Len(u.kids) : u.kids[i] \in Term
  BY KidIsTerm
<1>3. \A i \in 1..Len(u.kids) : <<u.kids[i], u.kids[i]>>
        \in IF Binders(u, i) = 0 \/ IsCase(u, i) THEN ScopedPairs(d) ELSE ScopedPairs(d + 1)
  BY <1>1, <1>2 DEF ScopedPairs
<1>4. QED
  BY <1>3 DEF Related

\* A step keeps to the scope.
LEMMA ScopesKept ==
  ASSUME IsTermSet(Term), LibraryClosed, NEW d \in Nat
  PROVE  StepKeeps(ScopedPairs(d), ScopedPairs(d + 1))
<1> DEFINE R == ScopedPairs(d)
           R1 == ScopedPairs(d + 1)
<1>1. R \in SUBSET (Term \X Term) /\ R1 \in SUBSET (Term \X Term)
  BY DEF ScopedPairs
<1>2. ASSUME NEW a \in Term, NEW b \in Term, NEW c \in Term, NEW e \in Term, <<b, e>> \in R1, <<a, c>> \in R
      PROVE  <<SubstTop(b, a), SubstTop(e, c)>> \in R
  <2>1. b = e /\ d + 1 \in Scopes[b] /\ a = c /\ d \in Scopes[a]
    BY <1>2 DEF ScopedPairs
  <2>2. Subst(b, 0, a) \in Term
    BY SubstType
  <2>3. d \in Scopes[Subst(b, 0, a)]
    BY <2>1, SubstScopes
  <2>4. QED
    BY <2>1, <2>2, <2>3 DEF ScopedPairs, SubstTop
<1>3. ASSUME NEW x \in Term, NEW y \in Term, x.op \in {"App", "NatRec"}, Related(x, y, R, R1)
      PROVE  <<x, y>> \in R
  <2>1. \A i \in 1..Len(x.kids) : Binders(x, i) = 0 /\ ~IsCase(x, i)
    BY <1>3 DEF Binders, IsCase
  <2>2. \A i \in 1..Len(x.kids) : x.kids[i] = y.kids[i] /\ d \in Scopes[x.kids[i]]
    BY <1>3, <2>1 DEF Related, ScopedPairs
  <2>3. x = y
    BY <1>3, <2>2, SameTerm DEF Related
  <2>4. \A i \in 1..Len(x.kids) : Inner(x, i, d) = d
    BY <2>1 DEF Inner
  <2>5. d \in Scopes[x]
    BY <1>3, <2>2, <2>4, ScopesDef
  <2>6. QED
    BY <2>3, <2>5 DEF ScopedPairs
<1>4. ASSUME NEW c \in DOMAIN Defs PROVE <<Defs[c].value, Defs[c].value>> \in R
  <2>1. PICK v \in Term : v = Defs[c].value /\ 0 \in Scopes[v]
    BY DEF LibraryClosed
  <2>2. PICK z \in Nat : z = 0 /\ z \in Scopes[v] /\ z <= d
    BY <2>1
  <2>3. d \in Scopes[v]
    BY <2>1, <2>2, ScopesGrow, Zenon
  <2>4. QED
    BY <2>1, <2>3 DEF ScopedPairs
<1> HIDE DEF R, R1
<1>5. StepKeeps(R, R1)
  BY <1>1, <1>2, <1>3, <1>4 DEF StepKeeps
<1>6. QED
  BY <1>5 DEF R, R1

\* What a step is taken on.
LEMMA StepOf ==
  ASSUME IsTermSet(Term), NEW u \in Term, TopStep(u) # Stuck
  PROVE  /\ u.op # "Var"
         /\ u.op \in Eliminations => /\ Awaited(u) \in Term /\ Awaited(u).op \in Introductions
                                     /\ Principal(u) \in 1..Len(u.kids)
                                     /\ Binders(u, Principal(u)) = 0 /\ ~IsCase(u, Principal(u))
<1>1. u.op = "Const" \/ u.op = "Let" \/ u.op \in Eliminations
  BY DEF TopStep
<1>2. ASSUME u.op \in Eliminations
      PROVE  /\ Awaited(u) \in Term /\ Awaited(u).op \in Introductions
             /\ Principal(u) \in 1..Len(u.kids)
             /\ Binders(u, Principal(u)) = 0 /\ ~IsCase(u, Principal(u))
  <2>1. TopStep(u) = Contract(u, Awaited(u))
    BY <1>2 DEF TopStep, Eliminations
  <2>2. Awaited(u).op \in Introductions
    BY <2>1 DEF Contract, Introductions
  <2>3. Len(u.kids) \in Nat /\ Len(u.kids) >= 1
    <3>1. Len(u.kids) \in Nat
      BY TermFields
    <3>2. QED
      BY <1>2, <3>1, Arities DEF Eliminations
  <2>4. Principal(u) \in 1..Len(u.kids) /\ (u.op = "IndRec" => Principal(u) = Len(u.kids))
    BY <1>2, <2>3 DEF Principal, Eliminations
  <2>5. Binders(u, Principal(u)) = 0 /\ ~IsCase(u, Principal(u))
    BY <1>2, <2>3, <2>4 DEF Binders, IsCase, Eliminations
  <2>6. Awaited(u) \in Term
    BY <2>4, KidIsTerm DEF Awaited
  <2>7. QED
    BY <2>2, <2>4, <2>5, <2>6
<1>3. QED
  BY <1>1, <1>2 DEF Eliminations

\* A step leaves a term in scope.
LEMMA TopStepScopes ==
  ASSUME IsTermSet(Term), LibraryClosed, NEW u \in Term, NEW d \in Nat, d \in Scopes[u], TopStep(u) # Stuck
  PROVE  TopStep(u) \in Term /\ d \in Scopes[TopStep(u)]
<1> DEFINE R == ScopedPairs(d)
           R1 == ScopedPairs(d + 1)
<1>1. StepKeeps(R, R1)
  BY ScopesKept
<1>2. Related(u, u, R, R1)
  BY StepOf, ScopedRelated
<1>3. u.op \in Eliminations => Related(Awaited(u), Awaited(u), R, R1)
  <2> SUFFICES ASSUME u.op \in Eliminations PROVE Related(Awaited(u), Awaited(u), R, R1)
    OBVIOUS
  <2>1. Awaited(u) \in Term /\ Awaited(u).op # "Var"
    BY StepOf DEF Introductions
  <2>2. d + 0 \in Scopes[Awaited(u)]
    BY StepOf, KidScopes DEF Awaited
  <2>3. QED
    BY <2>1, <2>2, ScopedRelated
<1> HIDE DEF R, R1
<1>4. Twins(u, u, R, R1)
  BY <1>2, <1>3 DEF Twins
<1>5. <<TopStep(u), TopStep(u)>> \in R
  BY <1>1, <1>4, StepRelated
<1>6. QED
  BY <1>5 DEF R, ScopedPairs

\* f can be carried into a redex.
Distributes(f) ==
  \A b \in Term : \A a \in Term : \A d \in Nat : f[SubstTop(b, a)][d] = SubstTop(f[b][d + 1], f[a][d])
\* What `shift` and `subst` have in common.
Renames(f) ==
  /\ Traverses(f) /\ KeepsLow(f) /\ Distributes(f)
  /\ \A u \in Term : \A d \in Nat : f[u][d] \in Term
TraversedPairs(f, d) == {<<v, f[v][d]>> : v \in Term}

\* `shift` and `subst` rename.
LEMMA Renamings ==
  ASSUME IsTermSet(Term)
  PROVE  /\ \A a \in Nat : Renames(ShiftBy(a))
         /\ \A b \in Term : Renames(SubstWith(b))
<1>1. ASSUME NEW k \in Nat, NEW b \in Term, NEW a \in Term, NEW d \in Nat
      PROVE  ShiftBy(k)[SubstTop(b, a)][d] = SubstTop(ShiftBy(k)[b][d + 1], ShiftBy(k)[a][d])
  <2>1. PICK z \in Nat : z = 0
    OBVIOUS
  <2>2. Shift(Subst(b, z, a), z + d, k) = Subst(Shift(b, z + d + 1, k), z, Shift(a, d, k))
    BY ShiftSubstHigh
  <2>3. z + d = d /\ z + d + 1 = d + 1
    BY <2>1
  <2>4. Shift(Subst(b, z, a), d, k) = Subst(Shift(b, d + 1, k), z, Shift(a, d, k))
    BY <2>2, <2>3
  <2>5. QED
    BY <2>1, <2>4 DEF Shift, SubstTop
<1>2. ASSUME NEW c \in Term, NEW b \in Term, NEW a \in Term, NEW d \in Nat
      PROVE  SubstWith(c)[SubstTop(b, a)][d] = SubstTop(SubstWith(c)[b][d + 1], SubstWith(c)[a][d])
  <2>1. PICK z \in Nat : z = 0
    OBVIOUS
  <2>2. Subst(Subst(b, z, a), z + d, c) = Subst(Subst(b, z + d + 1, c), z, Subst(a, d, c))
    BY SubstSubst
  <2>3. z + d = d /\ z + d + 1 = d + 1
    BY <2>1
  <2>4. Subst(Subst(b, z, a), d, c) = Subst(Subst(b, d + 1, c), z, Subst(a, d, c))
    BY <2>2, <2>3
  <2>5. Subst(Subst(b, 0, a), d, c) = Subst(Subst(b, d + 1, c), 0, Subst(a, d, c))
    BY <2>1, <2>4
  <2>6. \A v \in Term : \A e \in Nat : Subst(v, e, c) = SubstWith(c)[v][e]
    BY DEF Subst
  <2>7. Subst(b, 0, a) \in Term /\ d + 1 \in Nat
    BY SubstType
  <2>8. QED
    BY <2>5, <2>6, <2>7 DEF SubstTop
<1>3. \A a \in Nat : Distributes(ShiftBy(a))
  BY <1>1 DEF Distributes
<1>4. \A b \in Term : Distributes(SubstWith(b))
  BY <1>2 DEF Distributes
<1>5. QED
  BY <1>3, <1>4, Traversals, LowKept DEF Renames

\* A term is related to what a traversal makes of it, its cases being closed.
LEMMA TraversedRelated ==
  ASSUME IsTermSet(Term), NEW f, Renames(f), NEW u \in Term, u.op # "Var", NEW d \in Nat,
         NEW e \in Nat, e \in Scopes[u]
  PROVE  Related(u, f[u][d], TraversedPairs(f, d), TraversedPairs(f, d + 1))
<1> DEFINE v == f[u][d]
           ks == KidsBy(f, u, d)
<1>1. ks \in Seq(Term) /\ Len(ks) = Len(u.kids) /\ \A i \in 1..Len(u.kids) : ks[i] = f[u.kids[i]][d + Binders(u, i)]
  BY KidsByType DEF Renames
<1>2. v = WithKids(u, ks)
  BY DEF Renames, Traverses
<1> HIDE DEF v, ks
<1>3. v.op = u.op /\ v.n = u.n /\ v.name = u.name /\ v.kids = ks
  BY <1>1, <1>2, WithKidsIsTerm
<1>4. ASSUME NEW i \in 1..Len(u.kids)
      PROVE  <<u.kids[i], v.kids[i]>> \in IF Binders(u, i) = 0 \/ IsCase(u, i) THEN TraversedPairs(f, d) ELSE TraversedPairs(f, d + 1)
  <2>1. u.kids[i] \in Term /\ Binders(u, i) \in {0, 1}
    BY KidIsTerm, BindersType
  <2>2. CASE Binders(u, i) = 0
    BY <1>1, <1>3, <2>1, <2>2 DEF TraversedPairs
  <2>3. CASE Binders(u, i) = 1 /\ ~IsCase(u, i)
    BY <1>1, <1>3, <2>1, <2>3 DEF TraversedPairs
  <2>4. CASE Binders(u, i) = 1 /\ IsCase(u, i)
    <3>1. PICK z \in Nat : z = 0 /\ z \in Scopes[u.kids[i]]
      BY <2>4, ScopesDef DEF Inner
    <3>2. \A m \in Nat : z <= m => f[u.kids[i]][m] = u.kids[i]
      <4>1. Traverses(f) /\ KeepsLow(f)
        BY DEF Renames
      <4>2. \A w \in Term : \A k \in Nat : \A m \in Nat : k \in Scopes[w] /\ k <= m => f[w][m] = w
        BY <4>1, ScopedKept, Zenon
      <4>3. QED
        BY <2>1, <3>1, <4>2, Zenon
    <3>3. z <= d /\ z <= d + 1 /\ d + 1 \in Nat
      BY <3>1
    <3>4. v.kids[i] = f[u.kids[i]][d]
      BY <1>1, <1>3, <2>4, <3>2, <3>3
    <3>5. QED
      BY <2>1, <2>4, <3>4 DEF TraversedPairs
  <2>5. QED
    BY <2>1, <2>2, <2>3, <2>4
<1>5. QED
  BY <1>1, <1>3, <1>4 DEF Related, v

\* Steps and traversals commute.
LEMMA TraversalKept ==
  ASSUME IsTermSet(Term), LibraryClosed, NEW f, Renames(f), NEW d \in Nat
  PROVE  StepKeeps(TraversedPairs(f, d), TraversedPairs(f, d + 1))
<1> DEFINE R == TraversedPairs(f, d)
           R1 == TraversedPairs(f, d + 1)
<1>1. R \in SUBSET (Term \X Term) /\ R1 \in SUBSET (Term \X Term)
  BY DEF TraversedPairs, Renames
<1>2. ASSUME NEW a \in Term, NEW b \in Term, NEW c \in Term, NEW e \in Term, <<b, e>> \in R1, <<a, c>> \in R
      PROVE  <<SubstTop(b, a), SubstTop(e, c)>> \in R
  <2>1. e = f[b][d + 1] /\ c = f[a][d]
    BY <1>2 DEF TraversedPairs
  <2>2. SubstTop(b, a) \in Term
    BY SubstType DEF SubstTop
  <2>3. f[SubstTop(b, a)][d] = SubstTop(e, c)
    BY <2>1 DEF Renames, Distributes
  <2>4. QED
    BY <2>2, <2>3 DEF TraversedPairs
<1>3. ASSUME NEW x \in Term, NEW y \in Term, x.op \in {"App", "NatRec"}, Related(x, y, R, R1)
      PROVE  <<x, y>> \in R
  <2> DEFINE ks == KidsBy(f, x, d)
             v == f[x][d]
  <2>1. ks \in Seq(Term) /\ Len(ks) = Len(x.kids) /\ \A i \in 1..Len(x.kids) : ks[i] = f[x.kids[i]][d + Binders(x, i)]
    BY KidsByType DEF Renames
  <2>2. v = WithKids(x, ks) /\ v \in Term
    BY <1>3 DEF Renames, Traverses
  <2> HIDE DEF v, ks
  <2>3. v.op = x.op /\ v.n = x.n /\ v.name = x.name /\ v.kids = ks
    BY <2>1, <2>2, WithKidsIsTerm
  <2>4. \A i \in 1..Len(x.kids) : Binders(x, i) = 0
    BY <1>3 DEF Binders
  <2>5. \A i \in 1..Len(x.kids) : y.kids[i] = f[x.kids[i]][d]
    BY <1>3, <2>4 DEF Related, TraversedPairs
  <2>6. \A i \in 1..Len(x.kids) : y.kids[i] = v.kids[i]
    BY <2>1, <2>3, <2>4, <2>5
  <2>7. y = v
    BY <1>3, <2>1, <2>2, <2>3, <2>6, SameTerm DEF Related
  <2>8. QED
    BY <2>7 DEF TraversedPairs, v
<1>4. ASSUME NEW c \in DOMAIN Defs PROVE <<Defs[c].value, Defs[c].value>> \in R
  <2>1. PICK v \in Term : v = Defs[c].value /\ 0 \in Scopes[v]
    BY DEF LibraryClosed
  <2>2. PICK z \in Nat : z = 0 /\ z \in Scopes[v] /\ z <= d
    BY <2>1
  <2>3. f[v][d] = v
    BY <2>1, <2>2, ScopedKept, Zenon DEF Renames
  <2>4. QED
    BY <2>1, <2>3 DEF TraversedPairs
<1> HIDE DEF R, R1
<1>5. StepKeeps(R, R1)
  BY <1>1, <1>2, <1>3, <1>4 DEF StepKeeps
<1>6. QED
  BY <1>5 DEF R, R1

\* A step can be taken before or after a traversal.
LEMMA StepCommutes ==
  ASSUME IsTermSet(Term), LibraryClosed, NEW f, Renames(f), NEW u \in Term, NEW d \in Nat,
         NEW e \in Nat, e \in Scopes[u], TopStep(u) # Stuck
  PROVE  TopStep(f[u][d]) = f[TopStep(u)][d]
<1> DEFINE R == TraversedPairs(f, d)
           R1 == TraversedPairs(f, d + 1)
           v == f[u][d]
<1>1. StepKeeps(R, R1)
  BY TraversalKept
<1>2. Related(u, v, R, R1) /\ v \in Term
  BY StepOf, TraversedRelated DEF Renames
<1>3. u.op \in Eliminations => Related(Awaited(u), Awaited(v), R, R1)
  <2> SUFFICES ASSUME u.op \in Eliminations PROVE Related(Awaited(u), Awaited(v), R, R1)
    OBVIOUS
  <2>1. Awaited(u) \in Term /\ Awaited(u).op # "Var" /\ Principal(u) \in 1..Len(u.kids)
    BY StepOf DEF Introductions
  <2>2. e + 0 \in Scopes[Awaited(u)]
    BY StepOf, KidScopes DEF Awaited
  <2>3. Related(Awaited(u), f[Awaited(u)][d], R, R1)
    BY <2>1, <2>2, TraversedRelated
  <2> HIDE DEF v
  <2>4. Principal(v) = Principal(u)
    BY <1>2 DEF Related, Principal, Eliminations
  <2>5. <<Awaited(u), Awaited(v)>> \in R
    BY <1>2, <2>1, <2>4, StepOf DEF Related, Awaited
  <2>6. Awaited(v) = f[Awaited(u)][d]
    BY <2>5 DEF TraversedPairs
  <2>7. QED
    BY <2>3, <2>6
<1> HIDE DEF R, R1, v
<1>4. Twins(u, v, R, R1)
  BY <1>2, <1>3 DEF Twins
<1>5. <<TopStep(u), TopStep(v)>> \in R
  BY <1>1, <1>4, StepRelated
<1>6. QED
  BY <1>5 DEF R, v, TraversedPairs
-----------------------------------------------------------------------------
(* Parallel reduction: any number of steps at once, the children before    *)
(* the term they belong to.                                                *)

\* What the children of u can become, if each becomes one of those in par.
Rows(u, par) == {ks \in Seq(Term) : Len(ks) = Len(u.kids) /\ \A i \in 1..Len(u.kids) : ks[i] \in par[i]}
Parallel[u \in Term] ==
  LET rows == Rows(u, [i \in 1..Len(u.kids) |-> Parallel[u.kids[i]]])
  IN  {v \in Term : \E ks \in rows : v \in {WithKids(u, ks), TopStep(WithKids(u, ks))}}
\* The children of u become ks.
Becomes(u, ks) ==
  ks \in Seq(Term) /\ Len(ks) = Len(u.kids) /\ \A i \in 1..Len(u.kids) : ks[i] \in Parallel[u.kids[i]]

\* `Parallel` is what its recursive definition says.
LEMMA ParallelDef ==
  ASSUME IsTermSet(Term), NEW u \in Term
  PROVE  Parallel[u] = {v \in Term : \E ks : Becomes(u, ks) /\ v \in {WithKids(u, ks), TopStep(WithKids(u, ks))}}
<1> DEFINE S == SUBSET Term
           Grow(v, rows) == {w \in Term : \E ks \in rows : w \in {WithKids(v, ks), TopStep(WithKids(v, ks))}}
           G == [v \in Term |-> [par \in Seq(S) |-> Grow(v, Rows(v, par))]]
           Body(g, v) == Grow(v, Rows(v, [i \in 1..Len(v.kids) |-> g[v.kids[i]]]))
           Is(g) == g = [v \in Term |-> Body(g, v)]
<1>0. ASSUME NEW v, NEW rows PROVE Grow(v, rows) \in S
  OBVIOUS
<1> HIDE DEF Grow, S
<1>1. Makes(G, S)
  <2>1. \A v \in Term : \A par \in Seq(S) : Len(par) = Len(v.kids) => G[v][par] \in S
    BY <1>0
  <2> HIDE DEF G
  <2>2. QED
    BY <2>1 DEF Makes
<1>2. PICK f : IsFold(f, S, G)
  <2> HIDE DEF G
  <2> QED BY <1>1, TermRecursion
<1>3. f \in [Term -> S]
  <2> HIDE DEF G
  <2> QED BY <1>2 DEF IsFold
<1>4. ASSUME NEW v \in Term PROVE f[v] = Body(f, v)
  <2> DEFINE par == [i \in 1..Len(v.kids) |-> f[v.kids[i]]]
  <2>1. Len(v.kids) \in Nat /\ par \in [1..Len(v.kids) -> S]
    BY <1>3, TermFields
  <2>2. par \in Seq(S)
    <3> HIDE DEF par
    <3> QED BY <2>1, FunctionIsSeq
  <2>3. f[v] = G[v][par]
    <3> HIDE DEF G
    <3> QED BY <1>2 DEF IsFold
  <2>4. G[v][par] = Grow(v, Rows(v, par))
    <3> HIDE DEF par
    <3> QED BY <2>2
  <2>5. QED
    <3> HIDE DEF G
    <3> QED BY <2>3, <2>4
<1>5. Is(f)
  <2> HIDE DEF Body
  <2>1. f = [v \in Term |-> Body(f, v)]
    BY <1>3, <1>4
  <2>2. QED
    BY <2>1
<1> USE DEF Grow
<1>6. PICK h : h = Parallel /\ Is(h)
  <2>1. Parallel = CHOOSE g : Is(g)
    BY DEF Parallel
  <2> HIDE DEF Is
  <2>2. QED
    BY <1>5, <2>1
<1>7. h[u] = Body(h, u)
  <2> HIDE DEF Body
  <2>1. QED
    BY <1>6, Zenon
<1> HIDE DEF Is
<1> DEFINE rows == Rows(u, [i \in 1..Len(u.kids) |-> h[u.kids[i]]])
<1>8. ASSUME NEW ks PROVE ks \in rows <=> Becomes(u, ks)
  BY <1>6 DEF Rows, Becomes
<1>9. h[u] = {v \in Term : \E ks \in rows : v \in {WithKids(u, ks), TopStep(WithKids(u, ks))}}
  BY <1>7
<1> HIDE DEF rows
<1>10. QED
  BY <1>6, <1>8, <1>9

\* The children left as they are, and a step or none.
LEMMA ParallelTerms ==
  ASSUME IsTermSet(Term), NEW u \in Term, NEW ks, Becomes(u, ks)
  PROVE  /\ WithKids(u, ks) \in Term /\ WithKids(u, ks) \in Parallel[u]
         /\ WithKids(u, ks).op = u.op /\ WithKids(u, ks).n = u.n
         /\ WithKids(u, ks).name = u.name /\ WithKids(u, ks).kids = ks
         /\ TopStep(WithKids(u, ks)) \in Term => TopStep(WithKids(u, ks)) \in Parallel[u]
<1> DEFINE w == WithKids(u, ks)
<1>1. w \in Term /\ w.op = u.op /\ w.n = u.n /\ w.name = u.name /\ w.kids = ks
  BY WithKidsIsTerm DEF Becomes
<1>2. w = WithKids(u, ks)
  OBVIOUS
<1> HIDE DEF w
<1>3. w \in Parallel[u] /\ (TopStep(w) \in Term => TopStep(w) \in Parallel[u])
  BY <1>1, <1>2, ParallelDef
<1>4. QED
  BY <1>1, <1>2, <1>3

\* No step at all is one way.
LEMMA ParallelRefl ==
  ASSUME IsTermSet(Term)
  PROVE  \A u \in Term : u \in Parallel[u]
<1> DEFINE P == {u \in Term : u \in Parallel[u]}
<1>1. ASSUME NEW u \in Term, \A i \in 1..Len(u.kids) : u.kids[i] \in P PROVE u \in P
  <2>1. Becomes(u, u.kids)
    BY <1>1, TermFields DEF Becomes
  <2>2. WithKids(u, u.kids) \in Parallel[u] /\ WithKids(u, u.kids) = Node(u.op, u.n, u.name, u.kids)
    BY <2>1, ParallelTerms, WithKidsIsTerm, TermFields
  <2>3. u = Node(u.op, u.n, u.name, u.kids)
    BY TermFields
  <2>4. QED
    BY <2>2, <2>3
<1>2. P \in SUBSET Term
  OBVIOUS
<1> HIDE DEF P
<1>3. \A u \in Term : u \in P
  BY <1>1, <1>2, TermInduction
<1>4. QED
  BY <1>3 DEF P

\* Other children are under as many binders.
LEMMA SameBinders ==
  ASSUME IsTermSet(Term), NEW u \in Term, NEW ks \in Seq(Term), Len(ks) = Len(u.kids), NEW i, NEW d
  PROVE  /\ Binders(WithKids(u, ks), i) = Binders(u, i) /\ (IsCase(WithKids(u, ks), i) <=> IsCase(u, i))
         /\ Inner(WithKids(u, ks), i, d) = Inner(u, i, d)
<1> DEFINE w == WithKids(u, ks)
<1>1. w.op = u.op /\ w.kids = ks /\ Len(w.kids) = Len(u.kids)
  BY WithKidsIsTerm
<1> HIDE DEF w
<1>2. Binders(w, i) = Binders(u, i) /\ (IsCase(w, i) <=> IsCase(u, i))
  BY <1>1 DEF Binders, IsCase
<1>3. Inner(w, i, d) = Inner(u, i, d)
  BY <1>2 DEF Inner
<1>4. QED
  BY <1>2, <1>3 DEF w

\* Parallel steps keep to the scope.
LEMMA ParallelScopes ==
  ASSUME IsTermSet(Term), LibraryClosed
  PROVE  \A u \in Term : \A d \in Nat : \A v \in Parallel[u] : d \in Scopes[u] => d \in Scopes[v]
<1> DEFINE P == {u \in Term : \A d \in Nat : \A v \in Parallel[u] : d \in Scopes[u] => d \in Scopes[v]}
<1>1. ASSUME NEW u \in Term, \A i \in 1..Len(u.kids) : u.kids[i] \in P,
             NEW d \in Nat, NEW v \in Parallel[u], d \in Scopes[u]
      PROVE  d \in Scopes[v]
  <2>1. PICK ks : Becomes(u, ks) /\ v \in {WithKids(u, ks), TopStep(WithKids(u, ks))} /\ v \in Term
    BY ParallelDef
  <2> DEFINE w == WithKids(u, ks)
  <2>2. w \in Term /\ w.op = u.op /\ w.n = u.n /\ w.kids = ks /\ Len(ks) = Len(u.kids) /\ ks \in Seq(Term)
    BY <2>1, ParallelTerms DEF Becomes
  <2>3. \A i \in 1..Len(u.kids) : Inner(w, i, d) = Inner(u, i, d)
    BY <2>2, SameBinders
  <2>4. v \in {w, TopStep(w)}
    BY <2>1
  <2> HIDE DEF w
  <2>5. d \in Scopes[w]
    <3>1. CASE u.op = "Var"
      BY <1>1, <2>2, <3>1, ScopesDef
    <3>2. CASE u.op # "Var"
      <4>1. ASSUME NEW i \in 1..Len(u.kids) PROVE Inner(w, i, d) \in Scopes[w.kids[i]]
        <5>1. Inner(u, i, d) \in Scopes[u.kids[i]] /\ Inner(u, i, d) \in Nat
          BY <1>1, <3>2, ScopesDef, InnerType
        <5>2. ks[i] \in Parallel[u.kids[i]] /\ u.kids[i] \in P
          BY <1>1, <2>1 DEF Becomes
        <5>3. Inner(u, i, d) \in Scopes[ks[i]]
          BY <5>1, <5>2
        <5>4. QED
          BY <2>2, <2>3, <5>3
      <4>2. QED
        BY <2>2, <3>2, <4>1, ScopesDef
    <3>3. QED
      BY <3>1, <3>2
  <2>6. QED
    BY <2>1, <2>2, <2>4, <2>5, TopStepScopes, StuckIsNoTerm
<1>2. P \in SUBSET Term /\ \A u \in Term : (\A i \in 1..Len(u.kids) : u.kids[i] \in P) => u \in P
  BY <1>1
<1>3. \A u \in Term : u \in P
  <2> HIDE DEF P
  <2> QED BY <1>2, TermInduction
<1>4. QED
  BY <1>3

\* A variable only becomes itself.
LEMMA VarParallel ==
  ASSUME IsTermSet(Term), NEW u \in Term, u.op = "Var", NEW v \in Parallel[u]
  PROVE  v = u
<1>1. PICK ks : Becomes(u, ks) /\ v \in {WithKids(u, ks), TopStep(WithKids(u, ks))} /\ v \in Term
  BY ParallelDef
<1> DEFINE w == WithKids(u, ks)
<1>2. w \in Term /\ w.op = "Var" /\ w.n = u.n /\ v \in {w, TopStep(w)}
  BY <1>1, ParallelTerms
<1> HIDE DEF w
<1>3. TopStep(w) = Stuck
  BY <1>2 DEF TopStep, Eliminations
<1>4. v = w
  BY <1>1, <1>2, <1>3, StuckIsNoTerm
<1>5. w = Var(w.n) /\ u = Var(u.n)
  BY <1>2, VarIsTerm
<1>6. QED
  BY <1>2, <1>4, <1>5

\* Traversals that take variables to parallel terms take parallel terms to
\* parallel terms.
LEMMA ParallelTraversed ==
  ASSUME IsTermSet(Term), LibraryClosed, NEW f, NEW g, Renames(f), Renames(g),
         \A n \in Nat : \A d \in Nat : g[Var(n)][d] \in Parallel[f[Var(n)][d]]
  PROVE  \A u \in Term : \A e \in Nat : \A v \in Parallel[u] : \A d \in Nat :
           e \in Scopes[u] => g[v][d] \in Parallel[f[u][d]]
<1> DEFINE P == {u \in Term : \A e \in Nat : \A v \in Parallel[u] : \A d \in Nat :
                   e \in Scopes[u] => g[v][d] \in Parallel[f[u][d]]}
<1>1. ASSUME NEW u \in Term, \A i \in 1..Len(u.kids) : u.kids[i] \in P,
             NEW e \in Nat, NEW v \in Parallel[u], NEW d \in Nat, e \in Scopes[u]
      PROVE  g[v][d] \in Parallel[f[u][d]]
  <2>1. CASE u.op = "Var"
    <3>1. v = u /\ u = Var(u.n) /\ u.n \in Nat
      BY <2>1, VarParallel, VarIsTerm, TermFields
    <3>2. g[Var(u.n)][d] \in Parallel[f[Var(u.n)][d]]
      BY <3>1
    <3>3. QED
      BY <3>1, <3>2
  <2>2. CASE u.op # "Var"
    <3>1. PICK ks : Becomes(u, ks) /\ v \in {WithKids(u, ks), TopStep(WithKids(u, ks))} /\ v \in Term
      BY ParallelDef
    <3> DEFINE w == WithKids(u, ks)
               fu == f[u][d]
               gw == g[w][d]
               fk == KidsBy(f, u, d)
               gk == KidsBy(g, w, d)
    <3>2. /\ w \in Term /\ w.op = u.op /\ w.kids = ks /\ Len(ks) = Len(u.kids) /\ ks \in Seq(Term)
          /\ w = Node(u.op, u.n, u.name, ks)
      BY <3>1, ParallelTerms, WithKidsIsTerm DEF Becomes
    <3>3. \A i \in 1..Len(u.kids) : Binders(w, i) = Binders(u, i)
      BY <3>2, SameBinders
    <3>4. v \in {w, TopStep(w)} /\ w \in Parallel[u]
      BY <3>1, ParallelTerms
    <3>5. /\ fk \in Seq(Term) /\ Len(fk) = Len(u.kids)
          /\ \A i \in 1..Len(u.kids) : fk[i] = f[u.kids[i]][d + Binders(u, i)]
      <4>1. \A x \in Term : \A k \in Nat : f[x][k] \in Term
        BY DEF Renames
      <4>2. QED
        BY <4>1, KidsByType
    <3> HIDE DEF w
    <3>6. /\ gk \in Seq(Term) /\ Len(gk) = Len(w.kids)
          /\ \A i \in 1..Len(w.kids) : gk[i] = g[w.kids[i]][d + Binders(w, i)]
      BY <3>2, KidsByType DEF Renames
    <3>7. fu = WithKids(u, fk) /\ gw = WithKids(w, gk) /\ fu \in Term /\ gw \in Term
      BY <2>2, <3>2 DEF Renames, Traverses
    <3>8. ASSUME NEW i \in 1..Len(u.kids) PROVE gk[i] \in Parallel[fk[i]]
      <4> DEFINE k == d + Binders(u, i)
      <4>1. k \in Nat
        BY BindersType
      <4>2. gk[i] = g[ks[i]][k] /\ fk[i] = f[u.kids[i]][k]
        BY <3>2, <3>3, <3>5, <3>6
      <4>3. ks[i] \in Parallel[u.kids[i]] /\ u.kids[i] \in P
        BY <1>1, <3>1 DEF Becomes
      <4>4. Inner(u, i, e) \in Scopes[u.kids[i]] /\ Inner(u, i, e) \in Nat
        BY <1>1, <2>2, ScopesDef, InnerType
      <4> HIDE DEF k
      <4>5. QED
        BY <4>1, <4>2, <4>3, <4>4
    <3> HIDE DEF fu, gw, fk, gk
    <3>9. fu.op = u.op /\ fu.n = u.n /\ fu.name = u.name /\ fu.kids = fk
      BY <3>5, <3>7, WithKidsIsTerm
    <3>10. Becomes(fu, gk)
      BY <3>2, <3>5, <3>6, <3>8, <3>9 DEF Becomes
    <3>11. gw = WithKids(fu, gk)
      <4>1. WithKids(fu, gk) = Node(u.op, u.n, u.name, gk)
        BY <3>2, <3>5, <3>6, <3>7, <3>9, WithKidsIsTerm
      <4>2. WithKids(w, gk) = Node(w.op, w.n, w.name, gk)
        BY <3>2, <3>6, WithKidsIsTerm
      <4>3. w.n = u.n /\ w.name = u.name
        BY <3>2 DEF Node
      <4>4. QED
        BY <3>2, <3>7, <4>1, <4>2, <4>3
    <3>12. gw \in Parallel[fu] /\ (TopStep(gw) \in Term => TopStep(gw) \in Parallel[fu])
      BY <3>7, <3>10, <3>11, ParallelTerms
    <3>13. CASE v = w
      BY <3>12, <3>13 DEF fu, gw
    <3>14. CASE v # w
      <4>1. v = TopStep(w) /\ TopStep(w) # Stuck
        BY <3>1, <3>4, <3>14, StuckIsNoTerm
      <4>2. e \in Scopes[w]
        BY <1>1, <3>4, ParallelScopes
      <4>3. TopStep(gw) = g[v][d]
        BY <3>2, <4>1, <4>2, StepCommutes DEF gw
      <4>4. g[v][d] \in Term
        BY <3>1 DEF Renames
      <4>5. QED
        BY <3>12, <4>3, <4>4 DEF fu
    <3>15. QED
      BY <3>13, <3>14
  <2>3. QED
    BY <2>1, <2>2
<1>2. P \in SUBSET Term /\ \A u \in Term : (\A i \in 1..Len(u.kids) : u.kids[i] \in P) => u \in P
  BY <1>1
<1>3. \A u \in Term : u \in P
  <2> HIDE DEF P
  <2> QED BY <1>2, TermInduction
<1>4. QED
  BY <1>3

\* `shift` of parallel terms.
LEMMA ShiftParallel ==
  ASSUME IsTermSet(Term), LibraryClosed, NEW u \in Term, NEW e \in Nat, e \in Scopes[u],
         NEW v \in Parallel[u], NEW k \in Nat
  PROVE  Shift(v, 0, k) \in Parallel[Shift(u, 0, k)]
<1> DEFINE f == ShiftBy(k)
<1>1. Renames(f)
  BY Renamings
<1> HIDE DEF f
<1>2. \A n \in Nat : \A d \in Nat : f[Var(n)][d] \in Parallel[f[Var(n)][d]]
  BY <1>1, VarIsTerm, ParallelRefl DEF Renames
<1>3. \A d \in Nat : f[v][d] \in Parallel[f[u][d]]
  BY <1>1, <1>2, ParallelTraversed
<1>4. QED
  BY <1>3 DEF f, Shift

\* `subst` of parallel terms.
LEMMA SubstParallel ==
  ASSUME IsTermSet(Term), LibraryClosed, NEW a \in Term, NEW b \in Term, NEW c \in Parallel[a], NEW z \in Parallel[b],
         NEW d \in Nat, NEW e \in Nat, d \in Scopes[a], e \in Scopes[b]
  PROVE  SubstTop(z, c) \in Parallel[SubstTop(b, a)]
<1>0. c \in Term
  BY ParallelDef
<1> DEFINE f == SubstWith(a)
           g == SubstWith(c)
<1>1. Renames(f) /\ Renames(g)
  BY <1>0, Renamings
<1>2. ASSUME NEW n \in Nat, NEW k \in Nat PROVE g[Var(n)][k] \in Parallel[f[Var(n)][k]]
  <2>1. f[Var(n)][k] = SubstVar(n, k, a) /\ g[Var(n)][k] = SubstVar(n, k, c)
    BY <1>0, SubstFunction
  <2>2. CASE n = k
    <3>1. SubstVar(n, k, a) = Shift(a, 0, k) /\ SubstVar(n, k, c) = Shift(c, 0, k)
      BY <2>2 DEF SubstVar
    <3>2. QED
      BY <2>1, <3>1, ShiftParallel
  <2>3. CASE n # k
    <3>1. SubstVar(n, k, a) = SubstVar(n, k, c) /\ SubstVar(n, k, a) \in Term
      BY <2>3, SubstVarType DEF SubstVar
    <3>2. QED
      BY <2>1, <3>1, ParallelRefl
  <2>4. QED
    BY <2>2, <2>3
<1> HIDE DEF f, g
<1>3. \A k \in Nat : g[z][k] \in Parallel[f[b][k]]
  BY <1>1, <1>2, ParallelTraversed
<1>4. QED
  BY <1>3 DEF f, g, SubstTop, Subst

\* The pairs of parallel terms, the first in scope at depth d.
ParallelPairs(d) == {p \in Term \X Term : d \in Scopes[p[1]] /\ p[2] \in Parallel[p[1]]}

\* A step keeps terms parallel.
LEMMA ParallelKept ==
  ASSUME IsTermSet(Term), LibraryClosed, NEW d \in Nat
  PROVE  StepKeeps(ParallelPairs(d), ParallelPairs(d + 1))
<1> DEFINE R == ParallelPairs(d)
           R1 == ParallelPairs(d + 1)
<1>1. R \in SUBSET (Term \X Term) /\ R1 \in SUBSET (Term \X Term)
  BY DEF ParallelPairs
<1>2. ASSUME NEW a \in Term, NEW b \in Term, NEW c \in Term, NEW e \in Term, <<b, e>> \in R1, <<a, c>> \in R
      PROVE  <<SubstTop(b, a), SubstTop(e, c)>> \in R
  <2>1. d + 1 \in Scopes[b] /\ d \in Scopes[a] /\ e \in Parallel[b] /\ c \in Parallel[a] /\ d + 1 \in Nat
    BY <1>2 DEF ParallelPairs
  <2>2. SubstTop(e, c) \in Parallel[SubstTop(b, a)]
    BY <2>1, SubstParallel
  <2>3. SubstTop(b, a) \in Term /\ SubstTop(e, c) \in Term
    BY SubstType DEF SubstTop
  <2>4. d \in Scopes[SubstTop(b, a)]
    BY <2>1, SubstScopes DEF SubstTop
  <2>5. QED
    BY <2>2, <2>3, <2>4 DEF ParallelPairs
<1>3. ASSUME NEW x \in Term, NEW y \in Term, x.op \in {"App", "NatRec"}, Related(x, y, R, R1)
      PROVE  <<x, y>> \in R
  <2>1. \A i \in 1..Len(x.kids) : Binders(x, i) = 0 /\ ~IsCase(x, i)
    BY <1>3 DEF Binders, IsCase
  <2>2. \A i \in 1..Len(x.kids) : y.kids[i] \in Parallel[x.kids[i]] /\ d \in Scopes[x.kids[i]]
    BY <1>3, <2>1 DEF Related, ParallelPairs
  <2>3. \A i \in 1..Len(x.kids) : Inner(x, i, d) = d
    BY <2>1 DEF Inner
  <2>4. d \in Scopes[x]
    BY <1>3, <2>2, <2>3, ScopesDef
  <2>5. Becomes(x, y.kids)
    BY <1>3, <2>2, TermFields DEF Becomes, Related
  <2>6. WithKids(x, y.kids) \in Parallel[x] /\ WithKids(x, y.kids) = Node(x.op, x.n, x.name, y.kids)
    BY <2>5, ParallelTerms, WithKidsIsTerm DEF Becomes
  <2>7. y = Node(y.op, y.n, y.name, y.kids)
    BY TermFields
  <2>8. y \in Parallel[x]
    BY <1>3, <2>6, <2>7 DEF Related
  <2>9. QED
    BY <2>4, <2>8 DEF ParallelPairs
<1>4. ASSUME NEW c \in DOMAIN Defs PROVE <<Defs[c].value, Defs[c].value>> \in R
  <2>1. PICK v \in Term : v = Defs[c].value /\ 0 \in Scopes[v]
    BY DEF LibraryClosed
  <2>2. PICK z \in Nat : z = 0 /\ z \in Scopes[v] /\ z <= d
    BY <2>1
  <2>3. d \in Scopes[v]
    BY <2>1, <2>2, ScopesGrow, Zenon
  <2>4. QED
    BY <2>1, <2>3, ParallelRefl DEF ParallelPairs
<1> HIDE DEF R, R1
<1>5. StepKeeps(R, R1)
  BY <1>1, <1>2, <1>3, <1>4 DEF StepKeeps
<1>6. QED
  BY <1>5 DEF R, R1

\* A term in scope is related to what its children become.
LEMMA ParallelRelated ==
  ASSUME IsTermSet(Term), NEW u \in Term, u.op # "Var", NEW d \in Nat, d \in Scopes[u], NEW ks, Becomes(u, ks)
  PROVE  Related(u, WithKids(u, ks), ParallelPairs(d), ParallelPairs(d + 1))
<1> DEFINE w == WithKids(u, ks)
<1>1. w \in Term /\ w.op = u.op /\ w.n = u.n /\ w.name = u.name /\ w.kids = ks /\ Len(ks) = Len(u.kids)
  BY ParallelTerms DEF Becomes
<1> HIDE DEF w
<1>2. ASSUME NEW i \in 1..Len(u.kids)
      PROVE  <<u.kids[i], ks[i]>> \in IF Binders(u, i) = 0 \/ IsCase(u, i) THEN ParallelPairs(d) ELSE ParallelPairs(d + 1)
  <2>1. d + (IF Binders(u, i) = 0 \/ IsCase(u, i) THEN 0 ELSE 1) \in Scopes[u.kids[i]]
    BY KidScopes
  <2>2. u.kids[i] \in Term /\ ks[i] \in Parallel[u.kids[i]] /\ ks[i] \in Term
    BY KidIsTerm DEF Becomes
  <2>3. QED
    BY <2>1, <2>2 DEF ParallelPairs
<1>3. QED
  BY <1>1, <1>2 DEF Related, w

\* What an introduction becomes is one, of the same children in parallel.
LEMMA IntroParallel ==
  ASSUME IsTermSet(Term), NEW p \in Term, p.op \in Introductions, NEW q \in Parallel[p]
  PROVE  \E ks : Becomes(p, ks) /\ q = WithKids(p, ks)
<1>1. PICK ks : Becomes(p, ks) /\ q \in {WithKids(p, ks), TopStep(WithKids(p, ks))} /\ q \in Term
  BY ParallelDef
<1> DEFINE w == WithKids(p, ks)
<1>2. w.op \in Introductions /\ q \in {w, TopStep(w)}
  BY <1>1, ParallelTerms
<1> HIDE DEF w
<1>3. TopStep(w) = Stuck
  BY <1>2 DEF TopStep, Introductions, Eliminations
<1>4. q = w
  BY <1>1, <1>2, <1>3, StuckIsNoTerm
<1>5. QED
  BY <1>1, <1>4 DEF w

\* A step and steps of the children can be taken in either order.
LEMMA StepParallel ==
  ASSUME IsTermSet(Term), LibraryClosed, NEW u \in Term, NEW d \in Nat, d \in Scopes[u],
         TopStep(u) # Stuck, NEW ks, Becomes(u, ks)
  PROVE  TopStep(WithKids(u, ks)) \in Parallel[TopStep(u)]
<1> DEFINE R == ParallelPairs(d)
           R1 == ParallelPairs(d + 1)
           w == WithKids(u, ks)
<1>1. StepKeeps(R, R1)
  BY ParallelKept
<1>2. Related(u, w, R, R1) /\ w \in Term /\ w.op = u.op /\ w.kids = ks /\ Len(ks) = Len(u.kids)
  BY StepOf, ParallelRelated, ParallelTerms DEF Becomes
<1>3. u.op \in Eliminations => Related(Awaited(u), Awaited(w), R, R1)
  <2> SUFFICES ASSUME u.op \in Eliminations PROVE Related(Awaited(u), Awaited(w), R, R1)
    OBVIOUS
  <2>1. Awaited(u) \in Term /\ Awaited(u).op \in Introductions /\ Principal(u) \in 1..Len(u.kids)
    BY StepOf
  <2>2. d + 0 \in Scopes[Awaited(u)]
    BY StepOf, KidScopes DEF Awaited
  <2> HIDE DEF w
  <2>3. Principal(w) = Principal(u)
    BY <1>2 DEF Principal, Eliminations
  <2>4. Awaited(w) \in Parallel[Awaited(u)]
    BY <1>2, <2>1, <2>3 DEF Awaited, Becomes
  <2>5. PICK js : Becomes(Awaited(u), js) /\ Awaited(w) = WithKids(Awaited(u), js)
    BY <2>1, <2>4, IntroParallel
  <2>6. Awaited(u).op # "Var"
    BY <2>1 DEF Introductions
  <2>7. QED
    BY <2>1, <2>2, <2>5, <2>6, ParallelRelated
<1> HIDE DEF R, R1, w
<1>4. Twins(u, w, R, R1)
  BY <1>2, <1>3 DEF Twins
<1>5. <<TopStep(u), TopStep(w)>> \in R
  BY <1>1, <1>4, StepRelated
<1>6. QED
  BY <1>5 DEF R, ParallelPairs, w

\* All the steps there are in a term, at once.
Develop[u \in Term] ==
  LET w == WithKids(u, [i \in 1..Len(u.kids) |-> Develop[u.kids[i]]])
  IN  IF TopStep(w) \in Term THEN TopStep(w) ELSE w

\* `Develop` is what its recursive definition says.
LEMMA DevelopDef ==
  ASSUME IsTermSet(Term)
  PROVE  \A u \in Term :
           LET ks == [i \in 1..Len(u.kids) |-> Develop[u.kids[i]]]
               w == WithKids(u, ks)
           IN  /\ Develop[u] \in Term /\ ks \in Seq(Term) /\ Len(ks) = Len(u.kids)
               /\ Develop[u] = IF TopStep(w) \in Term THEN TopStep(w) ELSE w
<1> DEFINE After1(w) == IF TopStep(w) \in Term THEN TopStep(w) ELSE w
           G == [v \in Term |-> [ks \in Seq(Term) |-> After1(WithKids(v, ks))]]
           Body(g, v) == After1(WithKids(v, [i \in 1..Len(v.kids) |-> g[v.kids[i]]]))
           Is(g) == g = [v \in Term |-> Body(g, v)]
<1>0. ASSUME NEW v \in Term PROVE After1(v) \in Term
  OBVIOUS
<1> HIDE DEF After1
<1>1. Makes(G, Term)
  <2>1. \A v \in Term : \A ks \in Seq(Term) : Len(ks) = Len(v.kids) => G[v][ks] \in Term
    BY <1>0, WithKidsIsTerm
  <2> HIDE DEF G
  <2>2. QED
    BY <2>1 DEF Makes
<1>2. PICK f : IsFold(f, Term, G)
  <2> HIDE DEF G
  <2> QED BY <1>1, TermRecursion
<1>3. f \in [Term -> Term]
  <2> HIDE DEF G
  <2> QED BY <1>2 DEF IsFold
<1>4. ASSUME NEW v \in Term
      PROVE  /\ f[v] = Body(f, v)
             /\ [i \in 1..Len(v.kids) |-> f[v.kids[i]]] \in Seq(Term)
             /\ Len([i \in 1..Len(v.kids) |-> f[v.kids[i]]]) = Len(v.kids)
  <2> DEFINE ks == [i \in 1..Len(v.kids) |-> f[v.kids[i]]]
  <2>1. Len(v.kids) \in Nat /\ ks \in [1..Len(v.kids) -> Term]
    BY <1>3, TermFields
  <2>2. ks \in Seq(Term) /\ Len(ks) = Len(v.kids)
    <3> HIDE DEF ks
    <3> QED BY <2>1, FunctionIsSeq
  <2>3. f[v] = G[v][ks]
    <3> HIDE DEF G
    <3> QED BY <1>2 DEF IsFold
  <2>4. G[v][ks] = After1(WithKids(v, ks))
    <3> HIDE DEF ks
    <3> QED BY <2>2
  <2>5. QED
    <3> HIDE DEF G
    <3> QED BY <2>2, <2>3, <2>4
<1>5. Is(f)
  <2> HIDE DEF Body
  <2>1. f = [v \in Term |-> Body(f, v)]
    BY <1>3, <1>4
  <2>2. QED
    BY <2>1
<1> USE DEF After1
<1>6. PICK h : h = Develop /\ Is(h)
  <2>1. Develop = CHOOSE g : Is(g)
    BY DEF Develop
  <2> HIDE DEF Is
  <2>2. QED
    BY <1>5, <2>1
<1>7. DOMAIN h = Term /\ \A v \in Term : h[v] = Body(h, v)
  <2> HIDE DEF Body
  <2>1. h = [v \in Term |-> Body(h, v)]
    BY <1>6
  <2>2. QED
    BY <2>1, Zenon
<1> HIDE DEF Is
<1>8. \A v \in Term : h[v] = f[v]
  <2> DEFINE P == {v \in Term : h[v] = f[v]}
  <2>1. ASSUME NEW v \in Term, \A i \in 1..Len(v.kids) : v.kids[i] \in P PROVE h[v] = f[v]
    <3>1. [i \in 1..Len(v.kids) |-> h[v.kids[i]]] = [i \in 1..Len(v.kids) |-> f[v.kids[i]]]
      BY <2>1
    <3> HIDE DEF After1
    <3>2. QED
      BY <1>4, <1>7, <3>1
  <2>2. P \in SUBSET Term /\ \A v \in Term : (\A i \in 1..Len(v.kids) : v.kids[i] \in P) => v \in P
    BY <2>1
  <2>3. \A v \in Term : v \in P
    <3> HIDE DEF P
    <3> QED BY <2>2, TermInduction
  <2>4. QED
    BY <2>3
<1>9. \A v \in Term : [i \in 1..Len(v.kids) |-> h[v.kids[i]]] = [i \in 1..Len(v.kids) |-> f[v.kids[i]]]
  BY <1>8, KidIsTerm
<1>10. \A v \in Term : h[v] \in Term
  BY <1>3, <1>8
<1>11. ASSUME NEW v \in Term
       PROVE  LET ks == [i \in 1..Len(v.kids) |-> h[v.kids[i]]]
                  w == WithKids(v, ks)
              IN  /\ h[v] \in Term /\ ks \in Seq(Term) /\ Len(ks) = Len(v.kids)
                  /\ h[v] = IF TopStep(w) \in Term THEN TopStep(w) ELSE w
  BY <1>4, <1>7, <1>9, <1>10
<1>12. QED
  BY <1>6, <1>11

\* Whatever steps were taken, those that are left lead to the same term.
LEMMA Triangle ==
  ASSUME IsTermSet(Term), LibraryClosed
  PROVE  \A u \in Term : \A d \in Nat : \A v \in Parallel[u] : d \in Scopes[u] => Develop[u] \in Parallel[v]
<1> DEFINE P == {u \in Term : \A d \in Nat : \A v \in Parallel[u] : d \in Scopes[u] => Develop[u] \in Parallel[v]}
<1>1. ASSUME NEW u \in Term, \A i \in 1..Len(u.kids) : u.kids[i] \in P,
             NEW d \in Nat, NEW v \in Parallel[u], d \in Scopes[u]
      PROVE  Develop[u] \in Parallel[v]
  <2>1. PICK ks : Becomes(u, ks) /\ v \in {WithKids(u, ks), TopStep(WithKids(u, ks))} /\ v \in Term
    BY ParallelDef
  <2> DEFINE w == WithKids(u, ks)
             js == [i \in 1..Len(u.kids) |-> Develop[u.kids[i]]]
             z == WithKids(u, js)
  <2>2. /\ w \in Term /\ w.op = u.op /\ w.kids = ks /\ Len(ks) = Len(u.kids) /\ ks \in Seq(Term)
        /\ w \in Parallel[u] /\ w = Node(u.op, u.n, u.name, ks) /\ v \in {w, TopStep(w)}
    BY <2>1, ParallelTerms, WithKidsIsTerm DEF Becomes
  <2>3. /\ js \in Seq(Term) /\ Len(js) = Len(u.kids) /\ Develop[u] \in Term
        /\ Develop[u] = IF TopStep(z) \in Term THEN TopStep(z) ELSE z
    BY DevelopDef
  <2>4. z = Node(u.op, u.n, u.name, js) /\ z \in Term
    BY <2>3, WithKidsIsTerm
  <2>5. CASE u.op = "Var"
    <3>1. v = u
      BY <2>5, VarParallel
    <3> HIDE DEF js, z
    <3>3. z.op = "Var" /\ z.n = u.n
      BY <2>4, <2>5 DEF Node
    <3>4. TopStep(z) = Stuck
      BY <3>3 DEF TopStep, Eliminations
    <3>5. z = u
      BY <2>4, <2>5, <3>3, VarIsTerm
    <3>6. Develop[u] = u
      BY <2>3, <3>4, <3>5, StuckIsNoTerm
    <3>7. QED
      BY <3>1, <3>6, ParallelRefl
  <2>6. CASE u.op # "Var"
    <3>1. ASSUME NEW i \in 1..Len(u.kids) PROVE js[i] \in Parallel[ks[i]]
      <4>1. Inner(u, i, d) \in Scopes[u.kids[i]] /\ Inner(u, i, d) \in Nat
        BY <1>1, <2>6, ScopesDef, InnerType
      <4>2. ks[i] \in Parallel[u.kids[i]] /\ u.kids[i] \in P
        BY <1>1, <2>1 DEF Becomes
      <4>3. QED
        BY <4>1, <4>2
    <3> HIDE DEF w, js, z
    <3>2. Becomes(w, js)
      BY <2>2, <2>3, <3>1 DEF Becomes
    <3>3. z = WithKids(w, js)
      <4>1. WithKids(w, js) = Node(w.op, w.n, w.name, js)
        BY <2>2, <2>3, WithKidsIsTerm
      <4>2. w.n = u.n /\ w.name = u.name
        BY <2>2 DEF Node
      <4>3. QED
        BY <2>2, <2>4, <4>1, <4>2
    <3>4. z \in Parallel[w] /\ (TopStep(z) \in Term => TopStep(z) \in Parallel[w])
      BY <2>2, <3>2, <3>3, ParallelTerms
    <3>5. CASE v = w
      BY <2>3, <3>4, <3>5
    <3>6. CASE v # w
      <4>1. v = TopStep(w) /\ TopStep(w) # Stuck
        BY <2>1, <2>2, <3>6, StuckIsNoTerm
      <4>2. d \in Scopes[w]
        BY <1>1, <2>2, ParallelScopes
      <4>3. TopStep(z) \in Parallel[v]
        BY <2>2, <3>2, <3>3, <4>1, <4>2, StepParallel
      <4>4. TopStep(z) \in Term
        BY <2>1, <4>3, ParallelDef
      <4>5. QED
        BY <2>3, <4>3, <4>4
    <3>7. QED
      BY <3>5, <3>6
  <2>7. QED
    BY <2>5, <2>6
<1>2. P \in SUBSET Term /\ \A u \in Term : (\A i \in 1..Len(u.kids) : u.kids[i] \in P) => u \in P
  BY <1>1
<1>3. \A u \in Term : u \in P
  <2> HIDE DEF P
  <2> QED BY <1>2, TermInduction
<1>4. QED
  BY <1>3
-----------------------------------------------------------------------------
(* The steps of the kernel.                                                *)

TermPairs == {<<v, v>> : v \in Term}

\* A step at the top of a term makes a term.
LEMMA TopStepType ==
  ASSUME IsTermSet(Term), LibraryClosed, NEW u \in Term
  PROVE  TopStep(u) \in Term \cup {Stuck}
<1> SUFFICES ASSUME TopStep(u) # Stuck PROVE TopStep(u) \in Term
  OBVIOUS
<1> DEFINE R == TermPairs
<1>1. R \in SUBSET (Term \X Term)
  BY DEF TermPairs
<1>2. ASSUME NEW a \in Term, NEW b \in Term, NEW c \in Term, NEW e \in Term, <<b, e>> \in R, <<a, c>> \in R
      PROVE  <<SubstTop(b, a), SubstTop(e, c)>> \in R
  BY <1>2, SubstType DEF TermPairs, SubstTop
<1>3. ASSUME NEW x \in Term, NEW y \in Term, Related(x, y, R, R) PROVE <<x, y>> \in R
  <2>1. \A i \in 1..Len(x.kids) : x.kids[i] = y.kids[i]
    BY <1>3 DEF Related, TermPairs
  <2>2. x = y
    BY <1>3, <2>1, SameTerm DEF Related
  <2>3. QED
    BY <2>2 DEF TermPairs
<1>4. \A c \in DOMAIN Defs : <<Defs[c].value, Defs[c].value>> \in R
  BY DEF LibraryClosed, TermPairs
<1>5. ASSUME NEW v \in Term PROVE Related(v, v, R, R)
  BY KidIsTerm DEF Related, TermPairs
<1> HIDE DEF R
<1>6. StepKeeps(R, R)
  BY <1>1, <1>2, <1>3, <1>4 DEF StepKeeps
<1>7. Twins(u, u, R, R)
  BY <1>5, StepOf DEF Twins
<1>8. <<TopStep(u), TopStep(u)>> \in R
  BY <1>6, <1>7, StepRelated
<1>9. QED
  BY <1>1, <1>8

\* The child an elimination waits for is one.
LEMMA PrincipalKid ==
  ASSUME IsTermSet(Term), NEW u \in Term, u.op \in Eliminations
  PROVE  Principal(u) \in 1..Len(u.kids) /\ Awaited(u) \in Term /\ TopStep(u) = Contract(u, Awaited(u))
<1>1. Len(u.kids) \in Nat
  BY TermFields
<1>2. Len(u.kids) >= 1
  <2>1. CASE u.op = "IndRec"
    BY <1>1, <2>1, Arities
  <2>2. CASE u.op = "App"
    BY <2>2, Arities
  <2>3. CASE u.op \in {"Fst", "Snd"}
    BY <2>3, Arities
  <2>4. CASE u.op \in {"NatRec", "BoolRec"}
    BY <2>4, Arities
  <2>5. QED
    BY <2>1, <2>2, <2>3, <2>4 DEF Eliminations
<1>3. Principal(u) \in 1..Len(u.kids)
  BY <1>1, <1>2 DEF Principal, Eliminations
<1>4. TopStep(u) = Contract(u, Awaited(u))
  BY DEF TopStep, Eliminations
<1>5. QED
  BY <1>3, <1>4, KidIsTerm DEF Awaited

\* `whnf_step` takes the step there is at the top, or one on the way to the
\* child an elimination waits for.
LEMMA WhnfStepDef ==
  ASSUME IsTermSet(Term), LibraryClosed
  PROVE  \A u \in Term :
           /\ WhnfStep[u] \in Term \cup {Stuck}
           /\ u.op \notin Eliminations => WhnfStep[u] = TopStep(u)
           /\ u.op \in Eliminations =>
                WhnfStep[u] = IF WhnfStep[Awaited(u)] # Stuck THEN Replaced(u, Principal(u), WhnfStep[Awaited(u)])
                              ELSE TopStep(u)
<1> DEFINE S == Term \cup {Stuck}
           Step(v, p) == IF v.op \in Eliminations THEN Congruence(v, Principal(v), p) ELSE Unfold(v)
           At(v, ks) == IF v.op \in Eliminations THEN ks[Principal(v)] ELSE Stuck
           G == [v \in Term |-> [ks \in Seq(S) |-> Step(v, At(v, ks))]]
           Body(g, v) == Step(v, g[v.kids[Principal(v)]])
           Is(g) == g = [v \in Term |-> Body(g, v)]
<1>1. ASSUME NEW v \in Term, NEW p
      PROVE  /\ v.op \notin Eliminations => Step(v, p) = TopStep(v)
             /\ v.op \in Eliminations => Step(v, p) = IF p # Stuck THEN Replaced(v, Principal(v), p) ELSE TopStep(v)
  <2>1. v.op \notin Eliminations => Step(v, p) = TopStep(v)
    BY DEF TopStep, Unfold
  <2>2. v.op \in Eliminations => Step(v, p) = Congruence(v, Principal(v), p)
    BY DEF Eliminations
  <2>3. v.op \in Eliminations => TopStep(v) = Contract(v, v.kids[Principal(v)])
    BY PrincipalKid DEF Awaited
  <2> HIDE DEF Step
  <2>4. QED
    BY <2>1, <2>2, <2>3 DEF Congruence, Replaced
<1> HIDE DEF Step
<1>2. ASSUME NEW v \in Term, NEW p \in S PROVE Step(v, p) \in S
  <2>1. TopStep(v) \in S
    BY TopStepType
  <2>2. CASE v.op \in Eliminations /\ p # Stuck
    <3>1. Replaced(v, Principal(v), p) \in Term
      BY <2>2, PrincipalKid, KidReplaced
    <3>2. QED
      BY <1>1, <2>2, <3>1
  <2>3. QED
    BY <1>1, <2>1, <2>2
<1> HIDE DEF S
<1>3. Makes(G, S)
  <2>1. ASSUME NEW v \in Term, NEW ks \in Seq(S), Len(ks) = Len(v.kids) PROVE G[v][ks] \in S
    <3>1. At(v, ks) \in S
      <4>1. CASE v.op \in Eliminations
        BY <2>1, <4>1, PrincipalKid, SeqIsFunction
      <4>2. CASE v.op \notin Eliminations
        BY <4>2 DEF S
      <4>3. QED
        BY <4>1, <4>2
    <3> HIDE DEF At
    <3>2. QED
      BY <1>2, <3>1
  <2> HIDE DEF G
  <2>2. QED
    BY <2>1 DEF Makes
<1>4. PICK f : IsFold(f, S, G)
  <2> HIDE DEF G
  <2> QED BY <1>3, TermRecursion
<1>5. f \in [Term -> S]
  <2> HIDE DEF G
  <2> QED BY <1>4 DEF IsFold
<1>6. ASSUME NEW v \in Term PROVE f[v] = Body(f, v)
  <2> DEFINE ks == [i \in 1..Len(v.kids) |-> f[v.kids[i]]]
  <2>1. Len(v.kids) \in Nat /\ ks \in [1..Len(v.kids) -> S]
    BY <1>5, TermFields
  <2>2. ks \in Seq(S)
    <3> HIDE DEF ks
    <3> QED BY <2>1, FunctionIsSeq
  <2>3. f[v] = G[v][ks]
    <3> HIDE DEF G
    <3> QED BY <1>4 DEF IsFold
  <2>4. G[v][ks] = Step(v, At(v, ks))
    <3> HIDE DEF ks
    <3> QED BY <2>2
  <2>5. CASE v.op \in Eliminations
    <3>1. At(v, ks) = f[v.kids[Principal(v)]]
      BY <2>5, PrincipalKid
    <3> HIDE DEF G, At
    <3>2. QED
      BY <2>3, <2>4, <3>1
  <2>6. CASE v.op \notin Eliminations
    <3> HIDE DEF G
    <3>1. Step(v, At(v, ks)) = TopStep(v) /\ Body(f, v) = TopStep(v)
      BY <1>1, <2>6
    <3>2. QED
      BY <2>3, <2>4, <3>1
  <2>7. QED
    BY <2>5, <2>6
<1>7. Is(f)
  <2> HIDE DEF Body
  <2>1. f = [v \in Term |-> Body(f, v)]
    BY <1>5, <1>6
  <2>2. QED
    BY <2>1
<1> USE DEF Step
<1>8. PICK h : h = WhnfStep /\ Is(h)
  <2>1. WhnfStep = CHOOSE g : Is(g)
    BY DEF WhnfStep
  <2> HIDE DEF Is
  <2>2. QED
    BY <1>7, <2>1
<1> HIDE DEF Step
<1>9. \A v \in Term : h[v] = Body(h, v)
  <2> HIDE DEF Body
  <2>1. h = [v \in Term |-> Body(h, v)]
    BY <1>8
  <2>2. QED
    BY <2>1, Zenon
<1> HIDE DEF Is
<1>10. \A v \in Term : h[v] \in S
  <2> DEFINE P == {v \in Term : h[v] \in S}
  <2>1. ASSUME NEW v \in Term, \A i \in 1..Len(v.kids) : v.kids[i] \in P PROVE h[v] \in S
    <3>1. CASE v.op \in Eliminations
      BY <1>2, <1>9, <2>1, <3>1, PrincipalKid
    <3>2. CASE v.op \notin Eliminations
      BY <1>1, <1>9, <3>2, TopStepType DEF S
    <3>3. QED
      BY <3>1, <3>2
  <2>2. P \in SUBSET Term /\ \A v \in Term : (\A i \in 1..Len(v.kids) : v.kids[i] \in P) => v \in P
    BY <2>1
  <2>3. \A v \in Term : v \in P
    <3> HIDE DEF P
    <3> QED BY <2>2, TermInduction
  <2>4. QED
    BY <2>3
<1>11. ASSUME NEW v \in Term
       PROVE  /\ h[v] \in Term \cup {Stuck}
              /\ v.op \notin Eliminations => h[v] = TopStep(v)
              /\ v.op \in Eliminations =>
                   h[v] = IF h[Awaited(v)] # Stuck THEN Replaced(v, Principal(v), h[Awaited(v)]) ELSE TopStep(v)
  <2>1. h[v] = Step(v, h[Awaited(v)])
    BY <1>9 DEF Awaited
  <2>2. QED
    BY <1>1, <1>10, <2>1 DEF S
<1>12. QED
  BY <1>8, <1>11

\* The terms an elimination waits for do not step.
LEMMA TopStepTaken ==
  ASSUME IsTermSet(Term), LibraryClosed, NEW u \in Term, TopStep(u) # Stuck
  PROVE  WhnfStep[u] = TopStep(u)
<1>1. CASE u.op \in Eliminations
  <2>1. Awaited(u) \in Term /\ Awaited(u).op \in Introductions
    BY <1>1, StepOf
  <2>2. Awaited(u).op \notin Eliminations /\ TopStep(Awaited(u)) = Stuck
    BY <2>1 DEF Introductions, Eliminations, TopStep
  <2>3. WhnfStep[Awaited(u)] = Stuck
    BY <2>1, <2>2, WhnfStepDef
  <2>4. QED
    BY <1>1, <2>3, WhnfStepDef
<1>2. QED
  BY <1>1, WhnfStepDef

\* `Reducts` is what its recursive definition says.
LEMMA ReductsRec ==
  ASSUME IsTermSet(Term), LibraryClosed
  PROVE  \A u \in Term :
           /\ Reducts[u] \in SUBSET Term
           /\ \A v : v \in Reducts[u] <=>
                \/ v = WhnfStep[u] /\ v # Stuck
                \/ \E i \in 1..Len(u.kids) : \E r \in Reducts[u.kids[i]] : v = Replaced(u, i, r)
<1> DEFINE S == SUBSET Term
           Grow(v, ks) == ({WhnfStep[v]} \ {Stuck}) \cup UNION {{Replaced(v, i, r) : r \in ks[i]} : i \in DOMAIN v.kids}
           G == [v \in Term |-> [ks \in Seq(S) |-> Grow(v, ks)]]
           Body(g, v) == ({WhnfStep[v]} \ {Stuck})
                           \cup UNION {{Replaced(v, i, r) : r \in g[v.kids[i]]} : i \in DOMAIN v.kids}
           Is(g) == g = [v \in Term |-> Body(g, v)]
<1>1. ASSUME NEW v \in Term, NEW ks, \A i \in 1..Len(v.kids) : ks[i] \in S PROVE Grow(v, ks) \in S
  <2>1. WhnfStep[v] \in Term \cup {Stuck}
    BY WhnfStepDef
  <2>2. ASSUME NEW i \in DOMAIN v.kids, NEW r \in ks[i] PROVE Replaced(v, i, r) \in Term
    <3>1. i \in 1..Len(v.kids) /\ r \in Term
      BY <1>1, <2>2, TermFields
    <3>2. QED
      BY <3>1, KidReplaced
  <2>3. QED
    BY <2>1, <2>2
<1>2. ASSUME NEW v \in Term, NEW ks, NEW g, \A i \in 1..Len(v.kids) : ks[i] = g[v.kids[i]] PROVE Grow(v, ks) = Body(g, v)
  <2>1. DOMAIN v.kids = 1..Len(v.kids)
    BY TermFields
  <2>2. QED
    BY <1>2, <2>1
<1>3. ASSUME NEW v \in Term, NEW g, NEW w
      PROVE  w \in Body(g, v) <=>
               \/ w = WhnfStep[v] /\ w # Stuck
               \/ \E i \in 1..Len(v.kids) : \E r \in g[v.kids[i]] : w = Replaced(v, i, r)
  <2>1. DOMAIN v.kids = 1..Len(v.kids)
    BY TermFields
  <2>2. QED
    BY <2>1
<1> HIDE DEF Grow, S
<1>4. Makes(G, S)
  <2>1. ASSUME NEW v \in Term, NEW ks \in Seq(S), Len(ks) = Len(v.kids) PROVE G[v][ks] \in S
    BY <1>1, <2>1, SeqIsFunction
  <2> HIDE DEF G
  <2>2. QED
    BY <2>1 DEF Makes
<1>5. PICK f : IsFold(f, S, G)
  <2> HIDE DEF G
  <2> QED BY <1>4, TermRecursion
<1>6. f \in [Term -> S]
  <2> HIDE DEF G
  <2> QED BY <1>5 DEF IsFold
<1>7. ASSUME NEW v \in Term PROVE f[v] = Body(f, v)
  <2> DEFINE ks == [i \in 1..Len(v.kids) |-> f[v.kids[i]]]
  <2>1. Len(v.kids) \in Nat /\ ks \in [1..Len(v.kids) -> S]
    BY <1>6, TermFields
  <2>2. ks \in Seq(S)
    <3> HIDE DEF ks
    <3> QED BY <2>1, FunctionIsSeq
  <2>3. f[v] = G[v][ks]
    <3> HIDE DEF G
    <3> QED BY <1>5 DEF IsFold
  <2>4. G[v][ks] = Grow(v, ks)
    <3> HIDE DEF ks
    <3> QED BY <2>2
  <2>5. Grow(v, ks) = Body(f, v)
    <3>1. \A i \in 1..Len(v.kids) : ks[i] = f[v.kids[i]]
      OBVIOUS
    <3> HIDE DEF Body, ks
    <3> QED BY <1>2, <3>1
  <2>6. QED
    <3> HIDE DEF G, Body, ks
    <3> QED BY <2>3, <2>4, <2>5
<1>8. Is(f)
  <2> HIDE DEF Body
  <2>1. f = [v \in Term |-> Body(f, v)]
    BY <1>6, <1>7
  <2>2. QED
    BY <2>1
<1>9. PICK h : h = Reducts /\ Is(h)
  <2>1. Reducts = CHOOSE g : Is(g)
    BY DEF Reducts, Replaced
  <2> HIDE DEF Is
  <2>2. QED
    BY <1>8, <2>1
<1> HIDE DEF Body
<1>10. \A v \in Term : h[v] = Body(h, v)
  <2>1. h = [v \in Term |-> Body(h, v)]
    BY <1>9
  <2>2. QED
    BY <2>1, Zenon
<1> HIDE DEF Is
<1>11. \A v \in Term : h[v] \in S
  <2> DEFINE P == {v \in Term : h[v] \in S}
  <2>1. ASSUME NEW v \in Term, \A i \in 1..Len(v.kids) : v.kids[i] \in P PROVE h[v] \in S
    <3> DEFINE ks == [i \in 1..Len(v.kids) |-> h[v.kids[i]]]
    <3>1. \A i \in 1..Len(v.kids) : ks[i] = h[v.kids[i]] /\ ks[i] \in S
      BY <2>1
    <3> HIDE DEF ks
    <3>2. QED
      BY <1>1, <1>2, <1>10, <3>1
  <2>2. P \in SUBSET Term /\ \A v \in Term : (\A i \in 1..Len(v.kids) : v.kids[i] \in P) => v \in P
    BY <2>1
  <2>3. \A v \in Term : v \in P
    <3> HIDE DEF P
    <3> QED BY <2>2, TermInduction
  <2>4. QED
    BY <2>3
<1>12. QED
  BY <1>3, <1>9, <1>10, <1>11 DEF S

\* A term reduces at its top or in one of its children.
LEMMA ReductsDef ==
  ASSUME IsTermSet(Term), LibraryClosed
  PROVE  \A u \in Term : \A v \in Term : v \in Reducts[u] <=>
           \/ v = TopStep(u)
           \/ \E i \in 1..Len(u.kids) : \E r \in Reducts[u.kids[i]] : v = Replaced(u, i, r)
<1> SUFFICES ASSUME NEW u \in Term, NEW v \in Term
             PROVE  v \in Reducts[u] <=>
                      \/ v = TopStep(u)
                      \/ \E i \in 1..Len(u.kids) : \E r \in Reducts[u.kids[i]] : v = Replaced(u, i, r)
  OBVIOUS
<1>1. v = TopStep(u) => v = WhnfStep[u] /\ v # Stuck
  BY StuckIsNoTerm, TopStepTaken
<1>2. ASSUME v = WhnfStep[u], v # TopStep(u)
      PROVE  \E i \in 1..Len(u.kids) : \E r \in Reducts[u.kids[i]] : v = Replaced(u, i, r)
  <2>1. /\ u.op \in Eliminations /\ WhnfStep[Awaited(u)] # Stuck
        /\ v = Replaced(u, Principal(u), WhnfStep[Awaited(u)])
    BY <1>2, WhnfStepDef
  <2>2. Principal(u) \in 1..Len(u.kids) /\ Awaited(u) \in Term /\ Awaited(u) = u.kids[Principal(u)]
    BY <2>1, PrincipalKid DEF Awaited
  <2>3. WhnfStep[Awaited(u)] \in Reducts[u.kids[Principal(u)]]
    BY <2>1, <2>2, ReductsRec
  <2>4. QED
    BY <2>1, <2>2, <2>3
<1>3. v # Stuck
  BY StuckIsNoTerm
<1>4. QED
  BY <1>1, <1>2, <1>3, ReductsRec
-----------------------------------------------------------------------------
(* What reduction reaches.                                                 *)

\* The terms reached from u, next[v] being those reached from v at once.
Reach(next, u) ==
  {v \in Term : \A X \in SUBSET Term : u \in X /\ (\A w \in X : next[w] \in SUBSET X) => v \in X}
\* The terms the kernel may make of u.
Reached(u) == Reach(Reducts, u)
Typed(next) == \A u \in Term : next[u] \in SUBSET Term

\* A term is reached from itself, and what is reached at once, or in turn.
LEMMA ReachRules ==
  ASSUME NEW next, Typed(next), NEW u \in Term
  PROVE  /\ u \in Reach(next, u)
         /\ \A v \in Reach(next, u) : v \in Term /\ \A w \in next[v] : w \in Reach(next, u)
         /\ \A v \in Reach(next, u) : \A w \in Reach(next, v) : w \in Reach(next, u)
<1>1. u \in Reach(next, u)
  BY DEF Reach
<1>2. ASSUME NEW v \in Reach(next, u), NEW w \in next[v] PROVE v \in Term /\ w \in Reach(next, u)
  <2>1. v \in Term
    BY DEF Reach
  <2>2. w \in Term
    BY <1>2, <2>1 DEF Typed
  <2>3. ASSUME NEW X \in SUBSET Term, u \in X, \A x \in X : next[x] \in SUBSET X PROVE w \in X
    <3>1. v \in X
      BY <2>3 DEF Reach
    <3>2. QED
      BY <1>2, <2>3, <3>1
  <2>4. QED
    BY <2>1, <2>2, <2>3 DEF Reach
<1>3. ASSUME NEW v \in Reach(next, u), NEW w \in Reach(next, v) PROVE w \in Reach(next, u)
  <2> DEFINE X == Reach(next, u)
  <2>1. X \in SUBSET Term
    BY DEF Reach
  <2>2. v \in X /\ \A x \in X : next[x] \in SUBSET X
    BY <1>2
  <2> HIDE DEF X
  <2>3. w \in X
    BY <2>1, <2>2 DEF Reach
  <2>4. QED
    BY <2>3 DEF X
<1>4. ASSUME NEW v \in Reach(next, u) PROVE v \in Term
  BY DEF Reach
<1>5. QED
  BY <1>1, <1>2, <1>3, <1>4

\* What is kept by every step is kept by all.
LEMMA ReachIn ==
  ASSUME NEW next, NEW u \in Term, NEW X \in SUBSET Term, u \in X, \A w \in X : next[w] \in SUBSET X
  PROVE  Reach(next, u) \in SUBSET X
BY DEF Reach

\* Both ways of reducing make terms.
LEMMA ReductionTyped ==
  ASSUME IsTermSet(Term), LibraryClosed
  PROVE  Typed(Reducts) /\ Typed(Parallel)
<1>1. Typed(Reducts)
  BY ReductsRec DEF Typed
<1>2. Typed(Parallel)
  BY ParallelDef DEF Typed
<1>3. QED
  BY <1>1, <1>2

\* A step of the kernel is one of the parallel ones.
LEMMA ReductsParallel ==
  ASSUME IsTermSet(Term), LibraryClosed
  PROVE  \A u \in Term : Reducts[u] \in SUBSET Parallel[u]
<1> DEFINE P == {u \in Term : Reducts[u] \in SUBSET Parallel[u]}
<1>1. ASSUME NEW u \in Term, \A i \in 1..Len(u.kids) : u.kids[i] \in P, NEW v \in Reducts[u]
      PROVE  v \in Parallel[u]
  <2>0. v \in Term
    BY ReductsRec
  <2>1. CASE v = TopStep(u)
    <3>1. Becomes(u, u.kids) /\ WithKids(u, u.kids) = u
      <4>1. u.kids \in Seq(Term) /\ Len(u.kids) = Len(u.kids) /\ u = Node(u.op, u.n, u.name, u.kids)
        BY TermFields
      <4>2. WithKids(u, u.kids) = Node(u.op, u.n, u.name, u.kids)
        BY <4>1, WithKidsIsTerm
      <4>3. \A i \in 1..Len(u.kids) : u.kids[i] \in Parallel[u.kids[i]]
        BY KidIsTerm, ParallelRefl
      <4>4. QED
        BY <4>1, <4>2, <4>3 DEF Becomes
    <3>2. QED
      BY <2>0, <2>1, <3>1, ParallelTerms
  <2>2. CASE v # TopStep(u)
    <3>1. PICK i \in 1..Len(u.kids) : \E r \in Reducts[u.kids[i]] : v = Replaced(u, i, r)
      BY <2>0, <2>2, ReductsDef
    <3>2. PICK r \in Reducts[u.kids[i]] : v = Replaced(u, i, r)
      BY <3>1
    <3>3. r \in Parallel[u.kids[i]] /\ r \in Term
      BY <1>1, ReductsRec, KidIsTerm
    <3>4. /\ v \in Term /\ v.op = u.op /\ v.n = u.n /\ v.name = u.name /\ Len(v.kids) = Len(u.kids)
          /\ \A j \in 1..Len(u.kids) : v.kids[j] = IF j = i THEN r ELSE u.kids[j]
      BY <3>2, <3>3, KidReplaced
    <3>5. Becomes(u, v.kids)
      <4>1. \A j \in 1..Len(u.kids) : v.kids[j] \in Parallel[u.kids[j]]
        BY <3>3, <3>4, KidIsTerm, ParallelRefl
      <4>2. v.kids \in Seq(Term)
        BY <3>4, TermFields
      <4>3. QED
        BY <3>4, <4>1, <4>2 DEF Becomes
    <3>6. WithKids(u, v.kids) = v
      <4>1. WithKids(u, v.kids) = Node(u.op, u.n, u.name, v.kids)
        BY <3>5, WithKidsIsTerm DEF Becomes
      <4>2. v = Node(v.op, v.n, v.name, v.kids)
        BY <3>4, TermFields
      <4>3. QED
        BY <3>4, <4>1, <4>2
    <3>7. QED
      BY <3>5, <3>6, ParallelTerms
  <2>3. QED
    BY <2>1, <2>2
<1>2. P \in SUBSET Term /\ \A u \in Term : (\A i \in 1..Len(u.kids) : u.kids[i] \in P) => u \in P
  BY <1>1
<1>3. \A u \in Term : u \in P
  <2> HIDE DEF P
  <2> QED BY <1>2, TermInduction
<1>4. QED
  BY <1>3

\* Replacing the child there already is, or one that was just replaced.
LEMMA ReplacedTwice ==
  ASSUME IsTermSet(Term), NEW u \in Term, NEW i \in 1..Len(u.kids)
  PROVE  /\ Replaced(u, i, u.kids[i]) = u
         /\ \A r \in Term : \A s \in Term : Replaced(Replaced(u, i, r), i, s) = Replaced(u, i, s)
<1>1. Replaced(u, i, u.kids[i]) = u
  <2> DEFINE w == Replaced(u, i, u.kids[i])
  <2>1. u.kids[i] \in Term
    BY KidIsTerm
  <2>2. /\ w \in Term /\ w.op = u.op /\ w.n = u.n /\ w.name = u.name /\ Len(w.kids) = Len(u.kids)
        /\ \A j \in 1..Len(u.kids) : w.kids[j] = IF j = i THEN u.kids[i] ELSE u.kids[j]
    BY <2>1, KidReplaced
  <2> HIDE DEF w
  <2>3. w = u
    BY <2>2, SameTerm
  <2>4. QED
    BY <2>3 DEF w
<1>2. ASSUME NEW r \in Term, NEW s \in Term PROVE Replaced(Replaced(u, i, r), i, s) = Replaced(u, i, s)
  <2> DEFINE v == Replaced(u, i, r)
             w == Replaced(v, i, s)
             x == Replaced(u, i, s)
  <2>1. /\ v \in Term /\ v.op = u.op /\ v.n = u.n /\ v.name = u.name /\ Len(v.kids) = Len(u.kids)
        /\ \A j \in 1..Len(u.kids) : v.kids[j] = IF j = i THEN r ELSE u.kids[j]
    BY KidReplaced
  <2>2. /\ x \in Term /\ x.op = u.op /\ x.n = u.n /\ x.name = u.name /\ Len(x.kids) = Len(u.kids)
        /\ \A j \in 1..Len(u.kids) : x.kids[j] = IF j = i THEN s ELSE u.kids[j]
    BY KidReplaced
  <2> HIDE DEF v, x
  <2>3. i \in 1..Len(v.kids)
    BY <2>1
  <2>4. /\ w \in Term /\ w.op = v.op /\ w.n = v.n /\ w.name = v.name /\ Len(w.kids) = Len(v.kids)
        /\ \A j \in 1..Len(v.kids) : w.kids[j] = IF j = i THEN s ELSE v.kids[j]
    BY <2>1, <2>3, KidReplaced
  <2> HIDE DEF w
  <2>5. \A j \in 1..Len(w.kids) : w.kids[j] = x.kids[j]
    BY <2>1, <2>2, <2>4
  <2>6. w = x
    BY <2>1, <2>2, <2>4, <2>5, SameTerm
  <2>7. QED
    BY <2>6 DEF v, w, x
<1>3. QED
  BY <1>1, <1>2

\* A term reaches what its child reaches in its place.
LEMMA KidReached ==
  ASSUME IsTermSet(Term), LibraryClosed, NEW u \in Term, NEW i \in 1..Len(u.kids), NEW r \in Reached(u.kids[i])
  PROVE  Replaced(u, i, r) \in Reached(u)
<1> DEFINE X == {s \in Term : Replaced(u, i, s) \in Reached(u)}
<1>0. u.kids[i] \in Term
  BY KidIsTerm
<1>1. u.kids[i] \in X
  BY <1>0, ReplacedTwice, ReachRules, ReductionTyped DEF Reached
<1>2. ASSUME NEW s \in X, NEW q \in Reducts[s] PROVE q \in X
  <2>1. s \in Term /\ q \in Term /\ Replaced(u, i, s) \in Reached(u)
    BY ReductsRec
  <2> DEFINE v == Replaced(u, i, s)
  <2>2. v \in Term /\ Len(v.kids) = Len(u.kids) /\ v.kids[i] = s
    BY <2>1, KidReplaced
  <2>3. Replaced(v, i, q) = Replaced(u, i, q) /\ Replaced(u, i, q) \in Term
    BY <2>1, ReplacedTwice, KidReplaced
  <2> HIDE DEF v
  <2>4. Replaced(v, i, q) \in Reducts[v]
    BY <2>2, <2>3, ReductsDef
  <2>5. Replaced(u, i, q) \in Reached(u)
    BY <2>1, <2>3, <2>4, ReachRules, ReductionTyped DEF Reached, v
  <2>6. QED
    BY <2>1, <2>5
<1> HIDE DEF X
<1>3. X \in SUBSET Term
  BY DEF X
<1>4. r \in X
  BY <1>0, <1>1, <1>2, <1>3, ReachIn DEF Reached
<1>5. QED
  BY <1>4 DEF X

\* A term reaches what all its children reach, one after the other.
LEMMA KidsReached ==
  ASSUME IsTermSet(Term), LibraryClosed, NEW u \in Term, NEW ks \in Seq(Term), Len(ks) = Len(u.kids),
         \A i \in 1..Len(u.kids) : ks[i] \in Reached(u.kids[i])
  PROVE  WithKids(u, ks) \in Reached(u)
<1> DEFINE n == Len(u.kids)
           Mixed(m) == [i \in 1..n |-> IF i <= m THEN ks[i] ELSE u.kids[i]]
           Partial(m) == WithKids(u, Mixed(m))
<1>0. n \in Nat /\ u.kids \in Seq(Term) /\ \A i \in 1..n : u.kids[i] \in Term /\ ks[i] \in Term
  BY TermFields, SeqIsFunction
<1>1. ASSUME NEW m \in 0..n
      PROVE  /\ Partial(m) \in Term /\ Partial(m) = Node(u.op, u.n, u.name, Mixed(m))
             /\ Partial(m).op = u.op /\ Partial(m).n = u.n /\ Partial(m).name = u.name
             /\ Len(Partial(m).kids) = n
             /\ \A i \in 1..n : Partial(m).kids[i] = IF i <= m THEN ks[i] ELSE u.kids[i]
  <2> DEFINE mixed == Mixed(m)
  <2>1. mixed \in [1..n -> Term]
    BY <1>0
  <2>2. \A i \in 1..n : mixed[i] = IF i <= m THEN ks[i] ELSE u.kids[i]
    OBVIOUS
  <2> HIDE DEF n, mixed
  <2>3. mixed \in Seq(Term) /\ Len(mixed) = n
    BY <1>0, <2>1, FunctionIsSeq
  <2> DEFINE w == WithKids(u, mixed)
  <2>4. w \in Term /\ w = Node(u.op, u.n, u.name, mixed) /\ w.op = u.op /\ w.n = u.n /\ w.name = u.name /\ w.kids = mixed
    BY <2>3, WithKidsIsTerm DEF n
  <2> HIDE DEF w
  <2>5. w = Partial(m)
    BY DEF w, mixed, n
  <2> HIDE DEF Partial, Mixed
  <2>6. QED
    BY <2>2, <2>3, <2>4, <2>5 DEF mixed
<1> HIDE DEF Partial
<1>2. Partial(0) = u
  <2>1. 0 \in 0..n /\ \A i \in 1..n : ~(i <= 0)
    BY <1>0
  <2>2. \A i \in 1..Len(u.kids) : Partial(0).kids[i] = u.kids[i]
    BY <1>1, <2>1
  <2>3. QED
    BY <1>1, <2>1, <2>2, SameTerm
<1>3. Partial(n) = WithKids(u, ks)
  <2> DEFINE w == WithKids(u, ks)
  <2>1. w \in Term /\ w.op = u.op /\ w.n = u.n /\ w.name = u.name /\ w.kids = ks
    BY WithKidsIsTerm
  <2>2. n \in 0..n /\ \A i \in 1..n : i <= n
    BY <1>0
  <2> HIDE DEF w
  <2>3. \A i \in 1..Len(w.kids) : Partial(n).kids[i] = w.kids[i]
    BY <1>1, <2>1, <2>2
  <2>4. Partial(n) = w
    BY <1>1, <2>1, <2>2, <2>3, SameTerm
  <2>5. QED
    BY <2>4 DEF w
<1>4. ASSUME NEW m \in 1..n, Partial(m - 1) \in Reached(u) PROVE Partial(m) \in Reached(u)
  <2>1. m - 1 \in 0..n /\ m \in 0..n /\ m \in 1..Len(u.kids)
    BY <1>0
  <2> DEFINE v == Partial(m - 1)
             w == Partial(m)
             x == Replaced(v, m, ks[m])
  <2>2. v \in Term /\ m \in 1..Len(v.kids) /\ v.kids[m] = u.kids[m] /\ ks[m] \in Term
    <3>1. ~(m <= m - 1) /\ m \in 1..n
      BY <1>0
    <3>2. v \in Term /\ Len(v.kids) = n /\ v.kids[m] = IF m <= m - 1 THEN ks[m] ELSE u.kids[m]
      BY <1>1, <2>1, <3>1, Zenon
    <3>3. QED
      BY <1>0, <3>1, <3>2
  <2> HIDE DEF v, w
  <2>3. x \in Reached(v)
    BY <2>1, <2>2, KidReached
  <2>4. /\ x \in Term /\ x.op = v.op /\ x.n = v.n /\ x.name = v.name /\ Len(x.kids) = Len(v.kids)
        /\ \A i \in 1..Len(v.kids) : x.kids[i] = IF i = m THEN ks[m] ELSE v.kids[i]
    BY <2>2, KidReplaced
  <2> HIDE DEF x
  <2>5. \A i \in 1..Len(x.kids) : x.kids[i] = w.kids[i]
    <3>1. ASSUME NEW i \in 1..n PROVE x.kids[i] = w.kids[i]
      <4>1. v.kids[i] = IF i <= m - 1 THEN ks[i] ELSE u.kids[i]
        BY <1>1, <2>1 DEF v
      <4>2. w.kids[i] = IF i <= m THEN ks[i] ELSE u.kids[i]
        BY <1>1, <2>1 DEF w
      <4>3. Len(v.kids) = n
        BY <1>1, <2>1 DEF v
      <4>4. x.kids[i] = IF i = m THEN ks[m] ELSE v.kids[i]
        BY <2>4, <4>3
      <4>5. i \in Nat /\ m \in Nat
        BY <1>0
      <4>6. QED
        BY <4>1, <4>2, <4>4, <4>5
    <3>2. Len(x.kids) = n
      BY <1>1, <2>1, <2>4 DEF v
    <3>3. QED
      BY <3>1, <3>2
  <2>6. x = w
    <3>1. v.op = u.op /\ v.n = u.n /\ v.name = u.name /\ Len(v.kids) = n
      BY <1>1, <2>1 DEF v
    <3>2. w \in Term /\ w.op = u.op /\ w.n = u.n /\ w.name = u.name /\ Len(w.kids) = n
      BY <1>1, <2>1 DEF w
    <3>3. QED
      BY <2>4, <2>5, <3>1, <3>2, SameTerm
  <2>7. QED
    BY <1>4, <2>3, <2>6, ReachRules, ReductionTyped DEF Reached, v, w
<1> HIDE DEF n
<1>5. ASSUME {m \in 0..n : Partial(m) \notin Reached(u)} # {} PROVE FALSE
  <2>1. PICK m \in 0..n : Partial(m) \notin Reached(u) /\ \A j \in 0..n : Partial(j) \notin Reached(u) => m <= j
    <3>1. {m \in 0..n : Partial(m) \notin Reached(u)} \in SUBSET Nat
      BY <1>0
    <3>2. QED
      BY <1>5, <3>1, LeastNat
  <2>2. m # 0
    BY <1>2, <2>1, ReachRules, ReductionTyped DEF Reached
  <2>3. m \in 1..n /\ m - 1 \in 0..n /\ ~(m <= m - 1)
    BY <1>0, <2>2
  <2>4. Partial(m - 1) \in Reached(u)
    BY <2>1, <2>3
  <2>5. QED
    BY <1>4, <2>1, <2>3, <2>4
<1>6. n \in 0..n
  BY <1>0
<1>7. QED
  BY <1>3, <1>5, <1>6

\* A parallel step is a number of steps of the kernel.
LEMMA ParallelReached ==
  ASSUME IsTermSet(Term), LibraryClosed
  PROVE  \A u \in Term : Parallel[u] \in SUBSET Reached(u)
<1> DEFINE P == {u \in Term : Parallel[u] \in SUBSET Reached(u)}
<1>1. ASSUME NEW u \in Term, \A i \in 1..Len(u.kids) : u.kids[i] \in P, NEW v \in Parallel[u]
      PROVE  v \in Reached(u)
  <2>1. PICK ks : Becomes(u, ks) /\ v \in {WithKids(u, ks), TopStep(WithKids(u, ks))} /\ v \in Term
    BY ParallelDef
  <2> DEFINE w == WithKids(u, ks)
  <2>2. \A i \in 1..Len(u.kids) : ks[i] \in Reached(u.kids[i])
    BY <1>1, <2>1 DEF Becomes
  <2>3. w \in Reached(u) /\ w \in Term /\ v \in {w, TopStep(w)}
    BY <2>1, <2>2, KidsReached, ParallelTerms DEF Becomes
  <2> HIDE DEF w
  <2>4. CASE v = w
    BY <2>3, <2>4
  <2>5. CASE v = TopStep(w)
    <3>1. v \in Reducts[w]
      BY <2>1, <2>3, <2>5, ReductsDef
    <3>2. QED
      BY <2>3, <3>1, ReachRules, ReductionTyped DEF Reached
  <2>6. QED
    BY <2>3, <2>4, <2>5
<1>2. P \in SUBSET Term /\ \A u \in Term : (\A i \in 1..Len(u.kids) : u.kids[i] \in P) => u \in P
  BY <1>1
<1>3. \A u \in Term : u \in P
  <2> HIDE DEF P
  <2> QED BY <1>2, TermInduction
<1>4. QED
  BY <1>3

\* One step at a time or many at once, the same terms are reached.
LEMMA SameReach ==
  ASSUME IsTermSet(Term), LibraryClosed, NEW u \in Term
  PROVE  Reached(u) = Reach(Parallel, u)
<1>1. ASSUME NEW v \in Reached(u) PROVE v \in Reach(Parallel, u)
  <2> DEFINE X == Reach(Parallel, u)
  <2>1. X \in SUBSET Term /\ u \in X /\ \A w \in X : Parallel[w] \in SUBSET X
    BY ReachRules, ReductionTyped
  <2>2. \A w \in X : Reducts[w] \in SUBSET X
    <3> HIDE DEF X
    <3> QED BY <2>1, ReductsParallel
  <2> HIDE DEF X
  <2>3. v \in X
    BY <2>1, <2>2, ReachIn DEF Reached
  <2>4. QED
    BY <2>3 DEF X
<1>2. ASSUME NEW v \in Reach(Parallel, u) PROVE v \in Reached(u)
  <2> DEFINE X == Reached(u)
  <2>1. X \in SUBSET Term /\ u \in X
    BY ReachRules, ReductionTyped DEF Reached
  <2>2. ASSUME NEW w \in X, NEW x \in Parallel[w] PROVE x \in X
    <3>1. w \in Term
      BY <2>1
    <3>2. x \in Reached(w)
      BY <3>1, ParallelReached
    <3>3. QED
      BY <3>2, ReachRules, ReductionTyped DEF Reached
  <2> HIDE DEF X
  <2>3. v \in X
    BY <2>1, <2>2, ReachIn
  <2>4. QED
    BY <2>3 DEF X
<1>3. QED
  BY <1>1, <1>2

\* A term without free variables, its cases closed.
Closed(u) == u \in Term /\ 0 \in Scopes[u]

\* Reduction leaves closed terms closed.
LEMMA ReachedClosed ==
  ASSUME IsTermSet(Term), LibraryClosed, NEW u, Closed(u)
  PROVE  /\ \A v \in Reached(u) : Closed(v)
         /\ \A v \in Reducts[u] : Closed(v)
<1> DEFINE X == {v \in Term : 0 \in Scopes[v]}
<1>1. ASSUME NEW w \in Term, 0 \in Scopes[w], NEW v \in Reducts[w] PROVE Closed(v)
  <2>1. v \in Parallel[w] /\ v \in Term
    BY ReductsParallel, ReductsRec
  <2>2. PICK z \in Nat : z = 0 /\ z \in Scopes[w]
    BY <1>1
  <2>3. z \in Scopes[v]
    BY <2>1, <2>2, ParallelScopes
  <2>4. QED
    BY <2>1, <2>2, <2>3 DEF Closed
<1>2. u \in X /\ X \in SUBSET Term /\ u \in Term
  BY DEF Closed
<1>3. \A w \in X : Reducts[w] \in SUBSET X
  BY <1>1 DEF Closed
<1> HIDE DEF X
<1>4. Reached(u) \in SUBSET X
  BY <1>2, <1>3, ReachIn DEF Reached
<1> USE DEF X
<1>5. QED
  BY <1>1, <1>2, <1>4 DEF Closed

\* One parallel step against many.
LEMMA Strip ==
  ASSUME IsTermSet(Term), LibraryClosed, NEW u, Closed(u), NEW v \in Reached(u), NEW a \in Parallel[u]
  PROVE  \E w \in Reached(a) : w \in Parallel[v]
<1>0. u \in Term /\ a \in Term
  BY ParallelDef DEF Closed
<1> DEFINE X == {x \in Term : Closed(x) /\ \E w \in Reached(a) : w \in Parallel[x]}
<1>1. X \in SUBSET Term
  OBVIOUS
<1>2. u \in X
  BY <1>0, ReachRules, ReductionTyped DEF Reached
<1>3. ASSUME NEW x \in X, NEW y \in Parallel[x] PROVE y \in X
  <2>1. PICK w \in Reached(a) : w \in Parallel[x]
    BY <1>3
  <2>2. x \in Term /\ y \in Term /\ w \in Term /\ Closed(x)
    BY <1>0, <2>1, ParallelDef
  <2>3. PICK z \in Nat : z = 0 /\ z \in Scopes[x]
    BY <2>2 DEF Closed
  <2>4. Develop[x] \in Parallel[w] /\ Develop[x] \in Parallel[y] /\ z \in Scopes[y]
    BY <2>1, <2>2, <2>3, Triangle, ParallelScopes
  <2>5. Develop[x] \in Reached(a)
    <3>1. Develop[x] \in Reached(w)
      BY <2>2, <2>4, ParallelReached
    <3>2. QED
      BY <1>0, <2>1, <3>1, ReachRules, ReductionTyped DEF Reached
  <2>6. Closed(y)
    BY <2>2, <2>3, <2>4 DEF Closed
  <2>7. QED
    BY <2>2, <2>4, <2>5, <2>6
<1> HIDE DEF X
<1>4. v \in X
  BY <1>0, <1>1, <1>2, <1>3, ReachIn, SameReach
<1>5. QED
  BY <1>4 DEF X

\* Church and Rosser: any two terms reached from a closed one reach a common
\* term, so the order in which the kernel reduces does not matter
\* (whnf_step, shift, subst).
THEOREM ChurchRosser ==
  ASSUME IsTermSet(Term), LibraryClosed, NEW u, Closed(u), NEW v \in Reached(u), NEW a \in Reached(u)
  PROVE  \E w : w \in Reached(a) /\ w \in Reached(v)
<1>0. u \in Term
  BY DEF Closed
<1> DEFINE X == {x \in Term : Closed(x) /\ \E w : w \in Reached(x) /\ w \in Reached(v)}
<1>1. v \in Term /\ u \in X
  <2>1. v \in Term /\ v \in Reached(v)
    BY <1>0, ReachRules, ReductionTyped DEF Reached
  <2>2. QED
    BY <1>0, <2>1
<1>2. ASSUME NEW x \in X, NEW y \in Parallel[x] PROVE y \in X
  <2>1. PICK w : w \in Reached(x) /\ w \in Reached(v)
    BY <1>2
  <2>2. x \in Term /\ y \in Term /\ w \in Term /\ Closed(x)
    BY <1>1, <1>2, <2>1, ParallelDef, ReachRules, ReductionTyped DEF Reached
  <2>3. PICK b \in Reached(y) : b \in Parallel[w]
    BY <2>1, <2>2, Strip
  <2>4. b \in Reached(w)
    BY <2>2, <2>3, ParallelReached
  <2>5. b \in Reached(v)
    BY <1>1, <2>1, <2>4, ReachRules, ReductionTyped DEF Reached
  <2>6. Closed(y)
    <3>1. y \in Reached(x)
      BY <2>2, ParallelReached
    <3>2. QED
      BY <2>2, <3>1, ReachedClosed
  <2>7. QED
    BY <2>2, <2>3, <2>5, <2>6
<1>3. X \in SUBSET Term
  OBVIOUS
<1> HIDE DEF X
<1>4. a \in X
  BY <1>0, <1>1, <1>2, <1>3, ReachIn, SameReach
<1>5. QED
  BY <1>4 DEF X
-----------------------------------------------------------------------------
(* The machine.                                                            *)

\* `WithinDepth` is what its recursive definition says.
LEMMA WithinDepthDef ==
  ASSUME IsTermSet(Term)
  PROVE  \A u \in Term : \A d \in Nat :
           WithinDepth[u][d] = IF u.op = "Var" THEN u.n < d
                               ELSE \A i \in 1..Len(u.kids) : WithinDepth[u.kids[i]][d + Binders(u, i)]
<1> DEFINE S == [Nat -> BOOLEAN]
           Within(v, ks, d) == IF v.op = "Var" THEN v.n < d
                               ELSE \A i \in DOMAIN v.kids : ks[i][d + Binders(v, i)]
           G == [v \in Term |-> [ks \in Seq(S) |-> [d \in Nat |-> Within(v, ks, d)]]]
           Body(g, v) == [d \in Nat |-> IF v.op = "Var" THEN v.n < d
                                        ELSE \A i \in DOMAIN v.kids : g[v.kids[i]][d + Binders(v, i)]]
           Is(g) == g = [v \in Term |-> Body(g, v)]
<1>1. \A v \in Term : DOMAIN v.kids = 1..Len(v.kids)
  BY TermFields
<1>2. ASSUME NEW v \in Term, NEW ks, NEW d \in Nat PROVE Within(v, ks, d) \in BOOLEAN
  <2>1. (v.n < d) \in BOOLEAN
    BY TermFields
  <2>2. (\A i \in DOMAIN v.kids : ks[i][d + Binders(v, i)]) \in BOOLEAN
    BY Zenon
  <2>3. QED
    BY <2>1, <2>2, Zenon
<1>3. ASSUME NEW v \in Term, NEW ks, NEW g, \A i \in 1..Len(v.kids) : ks[i] = g[v.kids[i]]
      PROVE  [d \in Nat |-> Within(v, ks, d)] = Body(g, v)
  <2>1. ASSUME NEW d \in Nat
        PROVE  Within(v, ks, d) = IF v.op = "Var" THEN v.n < d
                                  ELSE \A i \in DOMAIN v.kids : g[v.kids[i]][d + Binders(v, i)]
    BY <1>1, <1>3, Zenon
  <2> HIDE DEF Within
  <2>2. QED
    BY <2>1, Zenon
<1> HIDE DEF Within
<1>4. Makes(G, S)
  <2>1. \A v \in Term : \A ks \in Seq(S) : Len(ks) = Len(v.kids) => G[v][ks] \in S
    BY <1>2
  <2> HIDE DEF G, S
  <2>2. QED
    BY <2>1 DEF Makes
<1>5. PICK f : IsFold(f, S, G)
  <2> HIDE DEF G, S
  <2> QED BY <1>4, TermRecursion
<1>6. f \in [Term -> S]
  <2> HIDE DEF G, S
  <2> QED BY <1>5 DEF IsFold
<1>7. ASSUME NEW v \in Term PROVE f[v] = Body(f, v)
  <2> DEFINE ks == [i \in 1..Len(v.kids) |-> f[v.kids[i]]]
  <2>1. Len(v.kids) \in Nat /\ ks \in [1..Len(v.kids) -> S]
    <3> HIDE DEF S
    <3> QED BY <1>6, TermFields
  <2>2. ks \in Seq(S)
    <3> HIDE DEF ks, S
    <3> QED BY <2>1, FunctionIsSeq
  <2>3. f[v] = G[v][ks]
    <3> HIDE DEF G, S
    <3> QED BY <1>5 DEF IsFold
  <2>4. G[v][ks] = [d \in Nat |-> Within(v, ks, d)]
    <3> HIDE DEF ks, S
    <3> QED BY <2>2
  <2>5. [d \in Nat |-> Within(v, ks, d)] = Body(f, v)
    <3>1. \A i \in 1..Len(v.kids) : ks[i] = f[v.kids[i]]
      OBVIOUS
    <3> HIDE DEF Body, ks
    <3> QED BY <1>3, <3>1
  <2>6. QED
    <3> HIDE DEF G, Body, ks
    <3> QED BY <2>3, <2>4, <2>5
<1>8. Is(f)
  <2> HIDE DEF Body, S
  <2>1. f = [v \in Term |-> Body(f, v)]
    BY <1>6, <1>7
  <2>2. QED
    BY <2>1
<1>9. PICK h : h = WithinDepth /\ Is(h)
  <2>1. WithinDepth = CHOOSE g : Is(g)
    BY DEF WithinDepth
  <2> HIDE DEF Is
  <2>2. QED
    BY <1>8, <2>1
<1>10. \A v \in Term : h[v] = Body(h, v)
  <2> HIDE DEF Body
  <2>1. h = [v \in Term |-> Body(h, v)]
    BY <1>9
  <2>2. QED
    BY <2>1, Zenon
<1> HIDE DEF Is
<1>11. ASSUME NEW v \in Term, NEW d \in Nat
       PROVE  h[v][d] = IF v.op = "Var" THEN v.n < d
                        ELSE \A i \in 1..Len(v.kids) : h[v.kids[i]][d + Binders(v, i)]
  <2>1. h[v][d] = IF v.op = "Var" THEN v.n < d
                  ELSE \A i \in DOMAIN v.kids : h[v.kids[i]][d + Binders(v, i)]
    BY <1>10, Zenon
  <2>2. QED
    BY <1>1, <2>1, Zenon
<1>12. QED
  BY <1>9, <1>11, Zenon

\* In scope, every variable has its binder.
LEMMA ScopedWithin ==
  ASSUME IsTermSet(Term)
  PROVE  \A u \in Term : \A d \in Nat : \A e \in Nat : d \in Scopes[u] /\ d <= e => WithinDepth[u][e]
<1> DEFINE P == {u \in Term : \A d \in Nat : \A e \in Nat : d \in Scopes[u] /\ d <= e => WithinDepth[u][e]}
<1>1. ASSUME NEW u \in Term, \A i \in 1..Len(u.kids) : u.kids[i] \in P,
             NEW d \in Nat, NEW e \in Nat, d \in Scopes[u], d <= e
      PROVE  WithinDepth[u][e]
  <2>1. CASE u.op = "Var"
    <3>1. u.n < d /\ u.n \in Nat
      BY <1>1, <2>1, ScopesDef, TermFields
    <3>2. u.n < e
      BY <1>1, <3>1
    <3>3. QED
      BY <2>1, <3>2, WithinDepthDef, Zenon
  <2>2. CASE u.op # "Var"
    <3>1. ASSUME NEW i \in 1..Len(u.kids) PROVE WithinDepth[u.kids[i]][e + Binders(u, i)]
      <4>1. Inner(u, i, d) \in Scopes[u.kids[i]]
        BY <1>1, <2>2, ScopesDef
      <4>2. Inner(u, i, d) \in Nat /\ Inner(u, i, d) <= d + Binders(u, i)
        BY InnerType
      <4>3. e + Binders(u, i) \in Nat /\ Inner(u, i, d) <= e + Binders(u, i)
        BY <1>1, <4>2, BindersType
      <4>4. u.kids[i] \in P
        BY <1>1
      <4>5. QED
        BY <4>1, <4>2, <4>3, <4>4, Zenon
    <3>2. QED
      BY <2>2, <3>1, WithinDepthDef, Zenon
  <2>3. QED
    BY <2>1, <2>2
<1>2. P \in SUBSET Term /\ \A u \in Term : (\A i \in 1..Len(u.kids) : u.kids[i] \in P) => u \in P
  BY <1>1
<1>3. \A u \in Term : u \in P
  <2> HIDE DEF P
  <2> QED BY <1>2, TermInduction
<1>4. QED
  BY <1>3

\* The submitted terms and the library are closed, which the checker sees to
\* for a term that is accepted in an empty context.
Submission == IsTermSet(Term) /\ LibraryClosed /\ \A u \in Seeds : Closed(u)
\* What the machine keeps: the terms are closed, and one comes from the other.
IInv == Closed(t0) /\ Closed(t) /\ t \in Reached(t0)

\* The invariant holds at first.
LEMMA InitIInv == Submission => (Init => IInv)
<1> SUFFICES ASSUME Submission, Init PROVE IInv
  OBVIOUS
<1>1. IsTermSet(Term) /\ LibraryClosed /\ Closed(t0) /\ t = t0
  BY DEF Submission, Init
<1>2. t0 \in Term
  BY <1>1 DEF Closed
<1>3. t0 \in Reached(t0)
  BY <1>1, <1>2, ReachRules, ReductionTyped DEF Reached
<1>4. QED
  BY <1>1, <1>3 DEF IInv

\* And a reduction keeps it.
LEMMA NextIInv == Submission => (IInv /\ [Next]_vars => IInv')
<1> SUFFICES ASSUME Submission, IInv, [Next]_vars PROVE IInv'
  OBVIOUS
<1>0. IsTermSet(Term) /\ LibraryClosed
  BY DEF Submission
<1>1. CASE Reduce
  <2>1. t' \in Reducts[t] /\ t0' = t0
    BY <1>1 DEF Reduce
  <2>2. t0 \in Term /\ t \in Term
    BY DEF IInv, Closed
  <2>3. Closed(t')
    BY <1>0, <2>1, ReachedClosed DEF IInv
  <2>4. t' \in Reached(t0)
    BY <1>0, <2>1, <2>2, ReachRules, ReductionTyped DEF IInv, Reached
  <2>5. QED
    BY <2>1, <2>3, <2>4 DEF IInv, Closed, Reached
<1>2. CASE UNCHANGED vars
  BY <1>2 DEF vars, IInv, Closed, Reached
<1>3. QED
  BY <1>1, <1>2 DEF Next

\* The invariant gives the type invariant.
LEMMA IInvTypeOK == Submission => (IInv => TypeOK)
<1> SUFFICES ASSUME Submission, IInv PROVE TypeOK
  OBVIOUS
<1>1. PICK z \in Nat : z = 0 /\ z <= z
  OBVIOUS
<1>2. WithinDepth[t0][z] /\ WithinDepth[t][z]
  BY <1>1, ScopedWithin DEF Submission, IInv, Closed
<1>3. QED
  BY <1>1, <1>2 DEF TypeOK

\* No variable is ever left without its binder, in any order of reduction
\* (TypeOK; shift and subst of term.rs).
THEOREM TypeCorrect ==
  ASSUME Submission
  PROVE  Spec => []TypeOK
<1>1. Init => IInv
  BY InitIInv
<1>2. IInv /\ [Next]_vars => IInv'
  BY NextIInv
<1>3. IInv => TypeOK
  BY IInvTypeOK
<1>4. QED
  BY <1>1, <1>2, <1>3, PTL DEF Spec

\* Whatever else the submitted term could have been reduced to, what it has
\* been reduced to so far can be brought to agree with it.
Joinable == \A v \in Reached(t0) : \E w \in Reached(t) : w \in Reached(v)
\* When nothing is left to reduce, the answer is the only one: every other
\* reduction of the submitted term ends in it.
OneAnswer == Reducts[t] = {} => \A v \in Reached(t0) : t \in Reached(v)

\* A term that cannot be reduced reaches itself only.
LEMMA Finished ==
  ASSUME IsTermSet(Term), LibraryClosed, NEW u \in Term, Reducts[u] = {}, NEW v \in Reached(u)
  PROVE  v = u
<1>1. {u} \in SUBSET Term /\ u \in {u} /\ \A w \in {u} : Reducts[w] \in SUBSET {u}
  OBVIOUS
<1>2. Reach(Reducts, u) \in SUBSET {u}
  BY <1>1, ReachIn
<1>3. QED
  BY <1>2 DEF Reached

\* The order of reduction does not matter: two reductions of a submission can
\* always be brought together again (whnf_step taken anywhere, as normalize
\* and conv take it), so a verdict computed by one is never contradicted by
\* another.
THEOREM Confluent ==
  ASSUME Submission
  PROVE  Spec => [](Joinable /\ OneAnswer)
<1>1. Init => IInv
  BY InitIInv
<1>2. IInv /\ [Next]_vars => IInv'
  BY NextIInv
<1>3. IInv => Joinable /\ OneAnswer
  <2> SUFFICES ASSUME IInv PROVE Joinable /\ OneAnswer
    OBVIOUS
  <2>0. IsTermSet(Term) /\ LibraryClosed /\ t \in Term
    BY DEF Submission, IInv, Closed
  <2>1. ASSUME NEW v \in Reached(t0) PROVE \E w \in Reached(t) : w \in Reached(v)
    BY <2>0, <2>1, ChurchRosser DEF IInv
  <2>2. ASSUME Reducts[t] = {}, NEW v \in Reached(t0) PROVE t \in Reached(v)
    <3>1. PICK w \in Reached(t) : w \in Reached(v)
      BY <2>1
    <3>2. w = t
      BY <2>0, <2>2, Finished
    <3>3. QED
      BY <3>1, <3>2
  <2>3. QED
    BY <2>1, <2>2 DEF Joinable, OneAnswer
<1>4. QED
  BY <1>1, <1>2, <1>3, PTL DEF Spec
-----------------------------------------------------------------------------
(* The terms of the library.                                               *)

\* Constructors without children.
Leaves == {"Nat", "Zero", "Bool", "True", "False"}

\* They are terms, and closed.
LEMMA LeafIsTerm ==
  ASSUME IsTermSet(Term), NEW op \in Leaves
  PROVE  /\ Leaf(op) \in Term /\ Leaf(op).op = op /\ Leaf(op).kids = <<>> /\ Len(Leaf(op).kids) = 0
         /\ \A d \in Nat : d \in Scopes[Leaf(op)]
<1>1. Shaped(Node(op, 0, <<>>, <<>>)) /\ op # "Var"
  BY DEF Shaped, Node, Arity, Leaves
<1>2. op \in Ops /\ 0 \in Nat /\ <<>> \in Seq(STRING) /\ <<>> \in Seq(Term)
  BY DEF Ops, Leaves
<1>3. Node(op, 0, <<>>, <<>>) \in Term
  BY <1>1, <1>2, NodeIsTerm
<1>4. /\ Leaf(op) \in Term /\ Leaf(op).op = op /\ Leaf(op).kids = <<>> /\ Len(Leaf(op).kids) = 0
  BY <1>3 DEF Leaf, Node
<1>5. \A d \in Nat : d \in Scopes[Leaf(op)]
  BY <1>1, <1>4, ScopesDef
<1>6. QED
  BY <1>4, <1>5

\* A constant is closed.
LEMMA ConstIsTerm ==
  ASSUME IsTermSet(Term), NEW c, Const(c) \in Term
  PROVE  /\ Const(c).op = "Const" /\ Const(c).name[1] = c /\ Len(Const(c).kids) = 0
         /\ \A d \in Nat : d \in Scopes[Const(c)]
<1>1. Const(c).op = "Const" /\ Const(c).name[1] = c /\ Len(Const(c).kids) = 0
  BY DEF Const, Node
<1>2. \A d \in Nat : d \in Scopes[Const(c)]
  BY <1>1, ScopesDef
<1>3. QED
  BY <1>1, <1>2

\* Abstractions are terms.
LEMMA LambdaIsTerm ==
  ASSUME IsTermSet(Term), NEW a \in Term, NEW b \in Term
  PROVE  /\ Lambda(a, b) \in Term /\ Lambda(a, b).op = "Lambda"
         /\ Lambda(a, b).n = 0 /\ Lambda(a, b).name = <<>>
         /\ Lambda(a, b).kids = <<a, b>> /\ Len(Lambda(a, b).kids) = 2
         /\ Lambda(a, b).kids[1] = a /\ Lambda(a, b).kids[2] = b
<1>1. <<a, b>> \in Seq(Term) /\ Len(<<a, b>>) = 2
  OBVIOUS
<1>2. Shaped(Node("Lambda", 0, <<>>, <<a, b>>))
  BY <1>1 DEF Shaped, Node, Arity
<1>3. "Lambda" \in Ops /\ 0 \in Nat /\ <<>> \in Seq(STRING)
  BY DEF Ops
<1>4. Node("Lambda", 0, <<>>, <<a, b>>) \in Term
  BY <1>1, <1>2, <1>3, NodeIsTerm
<1>5. QED
  BY <1>1, <1>4 DEF Lambda, Node

\* Successors are terms.
LEMMA SuccIsTerm ==
  ASSUME IsTermSet(Term), NEW a \in Term
  PROVE  /\ Succ(a) \in Term /\ Succ(a).op = "Succ" /\ Succ(a).n = 0 /\ Succ(a).name = <<>>
         /\ Succ(a).kids = <<a>> /\ Len(Succ(a).kids) = 1 /\ Succ(a).kids[1] = a
<1>1. <<a>> \in Seq(Term) /\ Len(<<a>>) = 1
  OBVIOUS
<1>2. Shaped(Node("Succ", 0, <<>>, <<a>>))
  BY <1>1 DEF Shaped, Node, Arity
<1>3. "Succ" \in Ops /\ 0 \in Nat /\ <<>> \in Seq(STRING)
  BY DEF Ops
<1>4. Node("Succ", 0, <<>>, <<a>>) \in Term
  BY <1>1, <1>2, <1>3, NodeIsTerm
<1>5. QED
  BY <1>1, <1>4 DEF Succ, Node

\* Recursions on Nat are terms.
LEMMA NatRecIsTerm ==
  ASSUME IsTermSet(Term), NEW a \in Term, NEW b \in Term, NEW c \in Term, NEW z \in Term
  PROVE  /\ NatRec(a, b, c, z) \in Term /\ NatRec(a, b, c, z).op = "NatRec"
         /\ NatRec(a, b, c, z).n = 0 /\ NatRec(a, b, c, z).name = <<>>
         /\ NatRec(a, b, c, z).kids = <<a, b, c, z>> /\ Len(NatRec(a, b, c, z).kids) = 4
         /\ NatRec(a, b, c, z).kids[1] = a /\ NatRec(a, b, c, z).kids[2] = b
         /\ NatRec(a, b, c, z).kids[3] = c /\ NatRec(a, b, c, z).kids[4] = z
<1>1. <<a, b, c, z>> \in Seq(Term) /\ Len(<<a, b, c, z>>) = 4
  OBVIOUS
<1>2. Shaped(Node("NatRec", 0, <<>>, <<a, b, c, z>>))
  BY <1>1 DEF Shaped, Node, Arity
<1>3. "NatRec" \in Ops /\ 0 \in Nat /\ <<>> \in Seq(STRING)
  BY DEF Ops
<1>4. Node("NatRec", 0, <<>>, <<a, b, c, z>>) \in Term
  BY <1>1, <1>2, <1>3, NodeIsTerm
<1>5. QED
  BY <1>1, <1>4 DEF NatRec, Node

\* Substitution goes into an application.
LEMMA SubstApp ==
  ASSUME IsTermSet(Term), NEW a \in Term, NEW b \in Term, NEW x \in Term, NEW d \in Nat
  PROVE  Subst(App(a, b), d, x) = App(Subst(a, d, x), Subst(b, d, x))
<1> DEFINE u == App(a, b)
           y == Subst(u, d, x)
           z == App(Subst(a, d, x), Subst(b, d, x))
<1>0. d + 0 = d
  OBVIOUS
<1>1. /\ u \in Term /\ u.op = "App" /\ u.n = 0 /\ u.name = <<>> /\ Len(u.kids) = 2
      /\ u.kids[1] = a /\ u.kids[2] = b
  BY AppIsTerm
<1>2. Subst(a, d, x) \in Term /\ Subst(b, d, x) \in Term /\ y \in Term
  BY <1>1, SubstType
<1>3. /\ z \in Term /\ z.op = "App" /\ z.n = 0 /\ z.name = <<>> /\ Len(z.kids) = 2
      /\ z.kids[1] = Subst(a, d, x) /\ z.kids[2] = Subst(b, d, x)
  BY <1>2, AppIsTerm
<1> HIDE DEF u, z
<1>4. y = WithKids(u, SubstKids(u, d, x))
  BY <1>1, SubstType
<1>5. Binders(u, 1) = 0 /\ Binders(u, 2) = 0
  BY <1>1 DEF Binders
<1>6. SubstKids(u, d, x) = <<Subst(a, d, x), Subst(b, d, x)>>
  BY <1>0, <1>1, <1>5 DEF SubstKids
<1>7. SubstKids(u, d, x) \in Seq(Term) /\ Len(SubstKids(u, d, x)) = 2
  BY <1>2, <1>6
<1>8. y = Node("App", 0, <<>>, SubstKids(u, d, x))
  BY <1>1, <1>4, <1>7, WithKidsIsTerm
<1>9. QED
  BY <1>6, <1>8 DEF y, u, App

\* It goes into an abstraction, one binder deeper.
LEMMA SubstLambda ==
  ASSUME IsTermSet(Term), NEW a \in Term, NEW b \in Term, NEW x \in Term, NEW d \in Nat
  PROVE  Subst(Lambda(a, b), d, x) = Lambda(Subst(a, d, x), Subst(b, d + 1, x))
<1> DEFINE u == Lambda(a, b)
           y == Subst(u, d, x)
           e == d + 1
<1>0. d + 0 = d /\ e \in Nat
  OBVIOUS
<1>1. /\ u \in Term /\ u.op = "Lambda" /\ u.n = 0 /\ u.name = <<>> /\ Len(u.kids) = 2
      /\ u.kids[1] = a /\ u.kids[2] = b
  BY LambdaIsTerm
<1>2. Subst(a, d, x) \in Term /\ Subst(b, e, x) \in Term /\ y \in Term
  BY <1>0, <1>1, SubstType
<1> HIDE DEF u
<1>4. y = WithKids(u, SubstKids(u, d, x))
  BY <1>1, SubstType
<1>5. Binders(u, 1) = 0 /\ Binders(u, 2) = 1
  BY <1>1 DEF Binders
<1>6. SubstKids(u, d, x) = <<Subst(a, d, x), Subst(b, e, x)>>
  BY <1>0, <1>1, <1>5 DEF SubstKids
<1> HIDE DEF e
<1>7. SubstKids(u, d, x) \in Seq(Term) /\ Len(SubstKids(u, d, x)) = 2
  BY <1>2, <1>6
<1>8. y = Node("Lambda", 0, <<>>, SubstKids(u, d, x))
  BY <1>1, <1>4, <1>7, WithKidsIsTerm
<1>9. QED
  BY <1>6, <1>8 DEF y, u, e, Lambda

\* It goes into a successor.
LEMMA SubstSucc ==
  ASSUME IsTermSet(Term), NEW a \in Term, NEW x \in Term, NEW d \in Nat
  PROVE  Subst(Succ(a), d, x) = Succ(Subst(a, d, x))
<1> DEFINE u == Succ(a)
           y == Subst(u, d, x)
<1>0. d + 0 = d
  OBVIOUS
<1>1. u \in Term /\ u.op = "Succ" /\ u.n = 0 /\ u.name = <<>> /\ Len(u.kids) = 1 /\ u.kids[1] = a
  BY SuccIsTerm
<1>2. Subst(a, d, x) \in Term /\ y \in Term
  BY <1>1, SubstType
<1> HIDE DEF u
<1>4. y = WithKids(u, SubstKids(u, d, x))
  BY <1>1, SubstType
<1>5. Binders(u, 1) = 0
  BY <1>1 DEF Binders
<1>6. SubstKids(u, d, x) = <<Subst(a, d, x)>>
  BY <1>0, <1>1, <1>5 DEF SubstKids
<1>7. SubstKids(u, d, x) \in Seq(Term) /\ Len(SubstKids(u, d, x)) = 1
  BY <1>2, <1>6
<1>8. y = Node("Succ", 0, <<>>, SubstKids(u, d, x))
  BY <1>1, <1>4, <1>7, WithKidsIsTerm
<1>9. QED
  BY <1>6, <1>8 DEF y, u, Succ

\* It goes into a recursion on Nat.
LEMMA SubstNatRec ==
  ASSUME IsTermSet(Term), NEW a \in Term, NEW b \in Term, NEW c \in Term, NEW z \in Term, NEW x \in Term,
         NEW d \in Nat
  PROVE  Subst(NatRec(a, b, c, z), d, x) =
           NatRec(Subst(a, d, x), Subst(b, d, x), Subst(c, d, x), Subst(z, d, x))
<1> DEFINE u == NatRec(a, b, c, z)
           y == Subst(u, d, x)
<1>0. d + 0 = d
  OBVIOUS
<1>1. /\ u \in Term /\ u.op = "NatRec" /\ u.n = 0 /\ u.name = <<>> /\ Len(u.kids) = 4
      /\ u.kids[1] = a /\ u.kids[2] = b /\ u.kids[3] = c /\ u.kids[4] = z
  BY NatRecIsTerm
<1>2. /\ Subst(a, d, x) \in Term /\ Subst(b, d, x) \in Term /\ y \in Term
      /\ Subst(c, d, x) \in Term /\ Subst(z, d, x) \in Term
  BY <1>1, SubstType
<1> HIDE DEF u
<1>4. y = WithKids(u, SubstKids(u, d, x))
  BY <1>1, SubstType
<1>5. Binders(u, 1) = 0 /\ Binders(u, 2) = 0 /\ Binders(u, 3) = 0 /\ Binders(u, 4) = 0
  BY <1>1 DEF Binders
<1>6. SubstKids(u, d, x) = <<Subst(a, d, x), Subst(b, d, x), Subst(c, d, x), Subst(z, d, x)>>
  BY <1>0, <1>1, <1>5 DEF SubstKids
<1>7. SubstKids(u, d, x) \in Seq(Term) /\ Len(SubstKids(u, d, x)) = 4
  BY <1>2, <1>6
<1>8. y = Node("NatRec", 0, <<>>, SubstKids(u, d, x))
  BY <1>1, <1>4, <1>7, WithKidsIsTerm
<1>9. QED
  BY <1>6, <1>8 DEF y, u, NatRec

\* It leaves a closed term as it is.
LEMMA SubstClosed ==
  ASSUME IsTermSet(Term), NEW u, Closed(u), NEW x \in Term, NEW d \in Nat
  PROVE  Subst(u, d, x) = u
<1>1. Traverses(SubstWith(x)) /\ KeepsLow(SubstWith(x))
  BY Traversals, LowKept
<1>2. PICK z \in Nat : z = 0 /\ z <= d
  OBVIOUS
<1>3. z \in Scopes[u] /\ u \in Term
  BY <1>2 DEF Closed
<1>4. SubstWith(x)[u][d] = u
  BY <1>1, <1>2, <1>3, ScopedKept, Zenon
<1>5. QED
  BY <1>4 DEF Subst

\* And so does shifting.
LEMMA ShiftClosed ==
  ASSUME IsTermSet(Term), NEW u, Closed(u), NEW a \in Nat
  PROVE  Shift(u, 0, a) = u
<1>1. Traverses(ShiftBy(a)) /\ KeepsLow(ShiftBy(a))
  BY Traversals, LowKept
<1>2. PICK z \in Nat : z = 0 /\ z <= z
  OBVIOUS
<1>3. z \in Scopes[u] /\ u \in Term
  BY <1>2 DEF Closed
<1>4. ShiftBy(a)[u][z] = u
  BY <1>1, <1>2, <1>3, ScopedKept, Zenon
<1>5. QED
  BY <1>2, <1>4 DEF Shift

\* A closed term put for a variable, and the variables below it.
LEMMA SubstVars ==
  ASSUME IsTermSet(Term), NEW x, Closed(x)
  PROVE  /\ \A d \in Nat : Subst(Var(d), d, x) = x
         /\ \A n \in Nat : \A d \in Nat : n < d => Subst(Var(n), d, x) = Var(n)
<1>1. x \in Term
  BY DEF Closed
<1>2. ASSUME NEW d \in Nat PROVE Subst(Var(d), d, x) = x
  <2>1. Subst(Var(d), d, x) = Shift(x, 0, d)
    BY <1>1, SubstOfVar
  <2>2. QED
    BY <2>1, ShiftClosed
<1>3. QED
  BY <1>1, <1>2, SubstOfVar

\* The cases met in the library.
LEMMA LibraryVars ==
  ASSUME IsTermSet(Term), NEW x, Closed(x)
  PROVE  /\ Subst(Var(0), 0, x) = x /\ Subst(Var(1), 1, x) = x /\ Subst(Var(2), 2, x) = x
         /\ Subst(Var(0), 1, x) = Var(0) /\ Subst(Var(0), 2, x) = Var(0) /\ Subst(Var(0), 3, x) = Var(0)
         /\ Subst(Var(1), 2, x) = Var(1) /\ Subst(Var(1), 3, x) = Var(1) /\ Subst(Var(2), 3, x) = Var(2)
         /\ Var(0) \in Term /\ Var(1) \in Term /\ Var(2) \in Term
<1>1. \A n \in Nat : Var(n) \in Term
  BY VarIsTerm
<1>2. QED
  BY <1>1, SubstVars
-----------------------------------------------------------------------------
(* One term computed from another.                                         *)

Leads(u, v) == u \in Term /\ v \in Reached(u)

\* Computations follow one another.
LEMMA LeadsRules ==
  ASSUME IsTermSet(Term), LibraryClosed
  PROVE  /\ \A u \in Term : Leads(u, u)
         /\ \A u, v : Leads(u, v) => u \in Term /\ v \in Term
         /\ \A u, v, w : Leads(u, v) /\ Leads(v, w) => Leads(u, w)
BY ReachRules, ReductionTyped DEF Leads, Reached

\* A step at the top.
LEMMA StepLeads ==
  ASSUME IsTermSet(Term), LibraryClosed, NEW u \in Term, TopStep(u) # Stuck
  PROVE  Leads(u, TopStep(u))
<1>1. TopStep(u) \in Term
  BY TopStepType
<1>2. TopStep(u) \in Reducts[u]
  BY <1>1, ReductsDef
<1>3. QED
  BY <1>2, ReachRules, ReductionTyped DEF Leads, Reached

\* A function applied.
LEMMA BetaLeads ==
  ASSUME IsTermSet(Term), LibraryClosed, NEW a \in Term, NEW b \in Term, NEW x \in Term
  PROVE  Leads(App(Lambda(a, b), x), Subst(b, 0, x))
<1> DEFINE f == Lambda(a, b)
           u == App(f, x)
<1>1. f \in Term /\ f.op = "Lambda" /\ f.kids[2] = b
  BY LambdaIsTerm
<1> HIDE DEF f
<1>2. u \in Term /\ u.op = "App" /\ u.kids[1] = f /\ u.kids[2] = x
  BY <1>1, AppIsTerm
<1> HIDE DEF u
<1>3. Principal(u) = 1 /\ u.op \in Eliminations
  BY <1>2 DEF Principal, Eliminations
<1>4. TopStep(u) = Contract(u, f)
  BY <1>2, <1>3, PrincipalKid DEF Awaited
<1>5. Contract(u, f) = Subst(b, 0, x)
  BY <1>1, <1>2 DEF Contract, SubstTop
<1>6. Subst(b, 0, x) \in Term
  BY SubstType
<1>7. TopStep(u) # Stuck
  BY <1>4, <1>5, <1>6, StuckIsNoTerm
<1>8. Leads(u, Subst(b, 0, x))
  BY <1>2, <1>4, <1>5, <1>7, StepLeads
<1>9. QED
  BY <1>8 DEF u, f

\* A recursion at zero.
LEMMA ZeroLeads ==
  ASSUME IsTermSet(Term), LibraryClosed, NEW a \in Term, NEW b \in Term, NEW c \in Term
  PROVE  Leads(NatRec(a, b, c, Zero), b)
<1> DEFINE z == Zero
           u == NatRec(a, b, c, z)
<1>1. z \in Term /\ z.op = "Zero"
  <2>1. "Zero" \in Leaves
    BY DEF Leaves
  <2>2. QED
    BY <2>1, LeafIsTerm DEF Zero
<1> HIDE DEF z
<1>2. u \in Term /\ u.op = "NatRec" /\ u.kids[2] = b /\ u.kids[4] = z /\ Len(u.kids) = 4
  BY <1>1, NatRecIsTerm
<1> HIDE DEF u
<1>3. Principal(u) = 4 /\ u.op \in Eliminations
  BY <1>2 DEF Principal, Eliminations
<1>4. TopStep(u) = Contract(u, z)
  BY <1>2, <1>3, PrincipalKid DEF Awaited
<1>5. Contract(u, z) = b
  BY <1>1, <1>2 DEF Contract
<1>6. TopStep(u) # Stuck
  BY <1>4, <1>5, StuckIsNoTerm
<1>7. Leads(u, b)
  BY <1>2, <1>4, <1>5, <1>6, StepLeads
<1>8. QED
  BY <1>7 DEF u, z

\* A recursion at a successor.
LEMMA SuccLeads ==
  ASSUME IsTermSet(Term), LibraryClosed, NEW a \in Term, NEW b \in Term, NEW c \in Term, NEW x \in Term
  PROVE  Leads(NatRec(a, b, c, Succ(x)), App2(c, x, NatRec(a, b, c, x)))
<1> DEFINE z == Succ(x)
           u == NatRec(a, b, c, z)
           v == NatRec(a, b, c, x)
<1>1. z \in Term /\ z.op = "Succ" /\ z.kids[1] = x
  BY SuccIsTerm
<1> HIDE DEF z
<1>2. u \in Term /\ u.op = "NatRec" /\ u.kids[3] = c /\ u.kids[4] = z /\ Len(u.kids) = 4
  BY <1>1, NatRecIsTerm
<1>3. Replaced(u, 4, x) = v
  BY DEF Replaced, u, v, NatRec, Node
<1> HIDE DEF u
<1>4. Principal(u) = 4 /\ u.op \in Eliminations
  BY <1>2 DEF Principal, Eliminations
<1>5. TopStep(u) = Contract(u, z)
  BY <1>2, <1>4, PrincipalKid DEF Awaited
<1>6. Contract(u, z) = App2(c, x, Replaced(u, 4, x))
  BY <1>1, <1>2 DEF Contract, Replaced
<1>7. App2(c, x, v) \in Term
  BY AppIsTerm, NatRecIsTerm DEF App2
<1>8. TopStep(u) # Stuck
  BY <1>3, <1>5, <1>6, <1>7, StuckIsNoTerm
<1>9. Leads(u, App2(c, x, v))
  BY <1>2, <1>3, <1>5, <1>6, <1>8, StepLeads
<1>10. QED
  BY <1>9 DEF u, z, v

\* The library is inserted in the environment (insert_arithmetic_stdlib).
HasLibrary == \A c \in DOMAIN StdlibDefs : c \in DOMAIN Defs /\ Defs[c] = StdlibDefs[c]

\* A definition unfolded.
LEMMA DeltaLeads ==
  ASSUME IsTermSet(Term), LibraryClosed, NEW c, Const(c) \in Term, c \in DOMAIN Defs
  PROVE  Leads(Const(c), Defs[c].value) /\ Closed(Defs[c].value)
<1> DEFINE u == Const(c)
<1>1. u \in Term /\ u.op = "Const" /\ u.name[1] = c
  BY ConstIsTerm
<1>2. Defs[c].value \in Term /\ Closed(Defs[c].value)
  BY DEF LibraryClosed, Closed
<1> HIDE DEF u
<1>3. TopStep(u) = Defs[c].value
  <2>1. ASSUME NEW v, v.op = "Const", v.name[1] \in DOMAIN Defs PROVE TopStep(v) = Defs[v.name[1]].value
    BY <2>1 DEF TopStep, Eliminations
  <2>2. QED
    BY <1>1, <2>1, Zenon
<1>4. TopStep(u) # Stuck
  BY <1>2, <1>3, StuckIsNoTerm
<1>5. QED
  BY <1>1, <1>2, <1>3, <1>4, StepLeads DEF u

\* A computation inside a successor.
LEMMA SuccLeadsInside ==
  ASSUME IsTermSet(Term), LibraryClosed, NEW u, NEW v, Leads(u, v)
  PROVE  Leads(Succ(u), Succ(v))
<1> DEFINE s == Succ(u)
           ks == <<v>>
           w == WithKids(s, ks)
<1>1. u \in Term /\ v \in Term /\ v \in Reached(u)
  BY LeadsRules DEF Leads
<1>2. s \in Term /\ s.op = "Succ" /\ s.n = 0 /\ s.name = <<>> /\ Len(s.kids) = 1 /\ s.kids[1] = u
  BY <1>1, SuccIsTerm
<1> HIDE DEF s
<1>3. ks \in Seq(Term) /\ Len(ks) = 1 /\ ks[1] = v
  BY <1>1
<1> HIDE DEF ks
<1>4. \A i \in 1..Len(s.kids) : ks[i] \in Reached(s.kids[i])
  BY <1>1, <1>2, <1>3
<1>5. w \in Reached(s)
  BY <1>2, <1>3, <1>4, KidsReached
<1>6. w = Node("Succ", 0, <<>>, ks)
  BY <1>2, <1>3, WithKidsIsTerm
<1>7. QED
  BY <1>2, <1>5, <1>6 DEF Leads, s, ks, Succ

\* A computation inside an application.
LEMMA AppLeads ==
  ASSUME IsTermSet(Term), LibraryClosed, NEW f, NEW g, Leads(f, g), NEW a, NEW b, Leads(a, b)
  PROVE  Leads(App(f, a), App(g, b))
<1> DEFINE s == App(f, a)
           ks == <<g, b>>
           w == WithKids(s, ks)
<1>1. f \in Term /\ g \in Term /\ a \in Term /\ b \in Term /\ g \in Reached(f) /\ b \in Reached(a)
  BY LeadsRules DEF Leads
<1>2. /\ s \in Term /\ s.op = "App" /\ s.n = 0 /\ s.name = <<>> /\ Len(s.kids) = 2
      /\ s.kids[1] = f /\ s.kids[2] = a
  BY <1>1, AppIsTerm
<1> HIDE DEF s
<1>3. ks \in Seq(Term) /\ Len(ks) = 2 /\ ks[1] = g /\ ks[2] = b
  BY <1>1
<1> HIDE DEF ks
<1>4. \A i \in 1..Len(s.kids) : ks[i] \in Reached(s.kids[i])
  BY <1>1, <1>2, <1>3
<1>5. w \in Reached(s)
  BY <1>2, <1>3, <1>4, KidsReached
<1>6. w = Node("App", 0, <<>>, ks)
  BY <1>2, <1>3, WithKidsIsTerm
<1>7. QED
  BY <1>2, <1>5, <1>6 DEF Leads, s, ks, App
-----------------------------------------------------------------------------
(* Numerals and truth values.                                              *)

\* What holds of zero and of the next number holds of every number.
LEMMA Counting ==
  ASSUME NEW P \in SUBSET Nat, 0 \in P, \A n \in P : n + 1 \in P
  PROVE  \A n \in Nat : n \in P
<1> DEFINE T == Nat \ P
<1> SUFFICES ASSUME T # {} PROVE FALSE
  OBVIOUS
<1>1. PICK x \in T : \A y \in T : x <= y
  <2>1. T \in SUBSET Nat
    OBVIOUS
  <2> HIDE DEF T
  <2>2. QED
    BY <2>1, LeastNat
<1>2. x # 0 /\ x - 1 \in Nat /\ x - 1 < x /\ (x - 1) + 1 = x
  BY <1>1
<1>3. x - 1 \in P
  BY <1>1, <1>2
<1>4. QED
  BY <1>1, <1>2, <1>3

\* The terms without a reduction.
Normal(u) == u \in Term /\ Reducts[u] = {}

\* A term without a step at the top and in its children.
LEMMA NormalTerm ==
  ASSUME IsTermSet(Term), LibraryClosed, NEW u \in Term, TopStep(u) = Stuck,
         \A i \in 1..Len(u.kids) : Reducts[u.kids[i]] = {}
  PROVE  Normal(u)
<1>1. ASSUME NEW v \in Reducts[u] PROVE FALSE
  <2>1. v \in Term
    BY ReductsRec
  <2>2. v # TopStep(u)
    BY <2>1, StuckIsNoTerm
  <2>3. QED
    BY <2>1, <2>2, ReductsDef
<1>2. QED
  BY <1>1 DEF Normal

\* A closed term: every child is, when nothing is bound.
LEMMA ClosedTerm ==
  ASSUME IsTermSet(Term), NEW u \in Term, u.op # "Var",
         \A i \in 1..Len(u.kids) : Binders(u, i) = 0 /\ Closed(u.kids[i])
  PROVE  Closed(u)
<1>1. PICK z \in Nat : z = 0 /\ z <= z
  OBVIOUS
<1>2. ASSUME NEW i \in 1..Len(u.kids) PROVE Inner(u, i, z) \in Scopes[u.kids[i]]
  <2>1. Inner(u, i, z) = 0
    BY <1>1 DEF Inner
  <2>2. QED
    BY <2>1 DEF Closed
<1>3. z \in Scopes[u]
  BY <1>1, <1>2, ScopesDef
<1>4. QED
  BY <1>1, <1>3 DEF Closed

\* The constructors without children, and the constants, are closed.
LEMMA LeafClosed ==
  ASSUME IsTermSet(Term), LibraryClosed
  PROVE  /\ \A op \in Leaves : Closed(Leaf(op)) /\ Normal(Leaf(op))
         /\ \A c : Const(c) \in Term => Closed(Const(c))
<1>1. ASSUME NEW op \in Leaves PROVE Closed(Leaf(op)) /\ Normal(Leaf(op))
  <2>1. Leaf(op) \in Term /\ Leaf(op).op = op /\ Len(Leaf(op).kids) = 0 /\ 0 \in Scopes[Leaf(op)]
    BY LeafIsTerm
  <2>2. TopStep(Leaf(op)) = Stuck
    BY <2>1 DEF TopStep, Eliminations, Leaves
  <2>3. Normal(Leaf(op))
    BY <2>1, <2>2, NormalTerm
  <2>4. QED
    BY <2>1, <2>3 DEF Closed
<1>2. ASSUME NEW c, Const(c) \in Term PROVE Closed(Const(c))
  <2>1. Const(c) \in Term /\ 0 \in Scopes[Const(c)]
    BY <1>2, ConstIsTerm
  <2>2. QED
    BY <2>1 DEF Closed
<1>3. QED
  BY <1>1, <1>2

\* By their names.
LEMMA Constants0 ==
  ASSUME IsTermSet(Term), LibraryClosed
  PROVE  /\ Closed(Zero) /\ Closed(True) /\ Closed(False) /\ Closed(NatT) /\ Closed(BoolT)
         /\ Normal(Zero) /\ Normal(True) /\ Normal(False)
         /\ Zero \in Term /\ True \in Term /\ False \in Term /\ NatT \in Term /\ BoolT \in Term
<1>1. "Zero" \in Leaves /\ "True" \in Leaves /\ "False" \in Leaves /\ "Nat" \in Leaves /\ "Bool" \in Leaves
  BY DEF Leaves
<1>2. QED
  BY <1>1, LeafClosed DEF Zero, True, False, NatT, BoolT, Closed

\* Successors of closed terms are closed, of irreducible ones irreducible.
LEMMA SuccClosed ==
  ASSUME IsTermSet(Term), LibraryClosed, NEW u
  PROVE  /\ Closed(u) => Closed(Succ(u))
         /\ Normal(u) => Normal(Succ(u))
<1>1. ASSUME u \in Term
      PROVE  /\ Succ(u) \in Term /\ Succ(u).op = "Succ" /\ Len(Succ(u).kids) = 1 /\ Succ(u).kids[1] = u
  BY <1>1, SuccIsTerm
<1>2. ASSUME Closed(u) PROVE Closed(Succ(u))
  <2> DEFINE s == Succ(u)
  <2>1. s \in Term /\ s.op = "Succ" /\ Len(s.kids) = 1 /\ s.kids[1] = u
    BY <1>1, <1>2 DEF Closed
  <2> HIDE DEF s
  <2>2. \A i \in 1..Len(s.kids) : Binders(s, i) = 0 /\ Closed(s.kids[i])
    BY <1>2, <2>1 DEF Binders
  <2>3. Closed(s)
    BY <2>1, <2>2, ClosedTerm
  <2>4. QED
    BY <2>3 DEF s
<1>3. ASSUME Normal(u) PROVE Normal(Succ(u))
  <2> DEFINE s == Succ(u)
  <2>1. s \in Term /\ s.op = "Succ" /\ Len(s.kids) = 1 /\ s.kids[1] = u
    BY <1>1, <1>3 DEF Normal
  <2> HIDE DEF s
  <2>2. TopStep(s) = Stuck
    BY <2>1 DEF TopStep, Eliminations
  <2>3. \A i \in 1..Len(s.kids) : Reducts[s.kids[i]] = {}
    BY <1>3, <2>1 DEF Normal
  <2>4. Normal(s)
    BY <2>1, <2>2, <2>3, NormalTerm
  <2>5. QED
    BY <2>4 DEF s
<1>4. QED
  BY <1>2, <1>3

\* Numerals are what their recursive definition says.
LEMMA NumeralDef ==
  ASSUME IsTermSet(Term), LibraryClosed
  PROVE  /\ Num(0) = Zero
         /\ \A n \in Nat : Num(n + 1) = Succ(Num(n))
<1> DEFINE Below == [n \in Nat |-> IF n = 0 THEN <<>> ELSE <<n - 1>>]
           Made(n, ks) == IF n = 0 THEN Zero ELSE Succ(ks[1])
           G == [n \in Nat |-> [ks \in Seq(Term) |-> Made(n, ks)]]
           Body(f, n) == IF n = 0 THEN Zero ELSE Succ(f[n - 1])
           Is(f) == f = [n \in Nat |-> Body(f, n)]
<1>1. ASSUME NEW n \in Nat
      PROVE  /\ Below[n] \in Seq(Nat) /\ (n = 0 => Len(Below[n]) = 0)
             /\ (n # 0 => Len(Below[n]) = 1 /\ Below[n][1] = n - 1 /\ n - 1 \in Nat)
  OBVIOUS
<1>2. Founded(Nat, Below)
  <2> SUFFICES ASSUME NEW S \in SUBSET Nat, S # {}
               PROVE  \E x \in S : \A i \in DOMAIN Below[x] : Below[x][i] \notin S
    BY DEF Founded
  <2>1. PICK x \in S : \A y \in S : x <= y
    BY LeastNat
  <2>2. x \in Nat
    OBVIOUS
  <2>3. DOMAIN Below[x] = 1..Len(Below[x])
    BY <1>1, <2>2, SeqIsFunction
  <2> HIDE DEF Below
  <2>4. ASSUME NEW i \in DOMAIN Below[x] PROVE Below[x][i] \notin S
    <3>1. x # 0
      BY <1>1, <2>2, <2>3
    <3>2. Below[x][i] = x - 1
      BY <1>1, <2>2, <2>3, <3>1
    <3>3. QED
      BY <2>1, <2>2, <3>1, <3>2
  <2>5. QED
    BY <2>4
<1>3. \A n \in Nat : Below[n] \in Seq(Nat)
  BY <1>1
<1>4. ASSUME NEW n \in Nat, NEW ks \in Seq(Term), Len(ks) = Len(Below[n])
      PROVE  G[n][ks] = Made(n, ks) /\ G[n][ks] \in Term
  <2> HIDE DEF Below
  <2>1. G[n][ks] = Made(n, ks)
    OBVIOUS
  <2>2. CASE n = 0
    BY <2>1, <2>2, Constants0
  <2>3. CASE n # 0
    <3>1. ks[1] \in Term
      BY <1>1, <1>4, <2>3
    <3>2. Succ(ks[1]) \in Term
      BY <3>1, SuccIsTerm
    <3>3. QED
      BY <2>1, <2>3, <3>2
  <2>4. QED
    BY <2>2, <2>3
<1> HIDE DEF Below, G
<1>5. PICK f \in [Nat -> Term] : IsRecursive(f, Nat, Below, G)
  BY <1>2, <1>3, <1>4, Recursion
<1>6. ASSUME NEW n \in Nat PROVE f[n] = Body(f, n)
  <2> DEFINE ks == [i \in 1..Len(Below[n]) |-> f[Below[n][i]]]
  <2>1. Len(Below[n]) \in Nat /\ \A i \in 1..Len(Below[n]) : Below[n][i] \in Nat
    BY <1>1
  <2>2. ks \in [1..Len(Below[n]) -> Term]
    BY <2>1
  <2>3. \A i \in 1..Len(Below[n]) : ks[i] = f[Below[n][i]]
    OBVIOUS
  <2>4. f[n] = G[n][ks]
    BY <1>5 DEF IsRecursive
  <2> HIDE DEF ks
  <2>5. ks \in Seq(Term) /\ Len(ks) = Len(Below[n])
    BY <2>1, <2>2, FunctionIsSeq
  <2>6. f[n] = Made(n, ks)
    BY <1>4, <2>4, <2>5
  <2>7. n # 0 => ks[1] = f[n - 1]
    BY <1>1, <2>3
  <2>8. QED
    BY <2>6, <2>7
<1>7. Is(f)
  <2> HIDE DEF Body
  <2>1. f = [n \in Nat |-> Body(f, n)]
    BY <1>5, <1>6
  <2>2. QED
    BY <2>1
<1>8. PICK h : h = Numeral /\ Is(h)
  <2>1. Numeral = CHOOSE g : Is(g)
    BY DEF Numeral
  <2> HIDE DEF Is
  <2>2. QED
    BY <1>7, <2>1
<1>9. ASSUME NEW n \in Nat PROVE h[n] = Body(h, n)
  <2> HIDE DEF Body
  <2>1. QED
    BY <1>8, Zenon
<1>10. Num(0) = Zero
  BY <1>8, <1>9 DEF Num
<1>11. ASSUME NEW n \in Nat PROVE Num(n + 1) = Succ(Num(n))
  <2>1. n + 1 \in Nat /\ n + 1 # 0 /\ (n + 1) - 1 = n
    OBVIOUS
  <2> HIDE DEF Is
  <2>2. h[n + 1] = Succ(h[n])
    BY <1>9, <2>1
  <2>3. QED
    BY <1>8, <2>2 DEF Num
<1>12. QED
  BY <1>10, <1>11

\* Numerals are closed, and nothing is left to reduce in them.
LEMMA NumClosed ==
  ASSUME IsTermSet(Term), LibraryClosed
  PROVE  \A n \in Nat : Closed(Num(n)) /\ Normal(Num(n)) /\ Num(n) \in Term
<1> DEFINE P == {n \in Nat : Closed(Num(n)) /\ Normal(Num(n))}
<1>1. 0 \in P
  BY NumeralDef, Constants0
<1>2. ASSUME NEW n \in P PROVE n + 1 \in P
  <2>1. Closed(Succ(Num(n))) /\ Normal(Succ(Num(n)))
    BY SuccClosed
  <2>2. QED
    BY <2>1, NumeralDef
<1>3. \A n \in Nat : n \in P
  <2> HIDE DEF P
  <2>1. P \in SUBSET Nat
    BY DEF P
  <2>2. QED
    BY <1>1, <1>2, <2>1, Counting
<1>4. QED
  BY <1>3 DEF Closed
-----------------------------------------------------------------------------
(* Recursion on Nat, and the definitions of the library.                   *)

\* Recursions at a constant motive are terms.
LEMMA FoldIsTerm ==
  ASSUME IsTermSet(Term), LibraryClosed, NEW r \in Term, NEW b \in Term, NEW s \in Term, NEW z \in Term
  PROVE  /\ NatFold(r, b, s, z) \in Term
         /\ Lambda(NatT, r) \in Term /\ Lambda(NatT, s) \in Term /\ Lambda(NatT, Lambda(NatT, s)) \in Term
<1>1. NatT \in Term
  BY Constants0
<1>2. Lambda(NatT, r) \in Term /\ Lambda(NatT, s) \in Term
  BY <1>1, LambdaIsTerm
<1>3. Lambda(NatT, Lambda(NatT, s)) \in Term
  BY <1>1, <1>2, LambdaIsTerm
<1>4. QED
  BY <1>2, <1>3, NatRecIsTerm DEF NatFold

\* Substitution goes into a recursion; its step is under two binders.
LEMMA SubstFold ==
  ASSUME IsTermSet(Term), LibraryClosed, NEW r, Closed(r), NEW b \in Term, NEW s \in Term, NEW z \in Term,
         NEW x \in Term, NEW d \in Nat, NEW e \in Nat, e = d + 2
  PROVE  Subst(NatFold(r, b, s, z), d, x) = NatFold(r, Subst(b, d, x), Subst(s, e, x), Subst(z, d, x))
<1> DEFINE f == d + 1
           m == Lambda(NatT, r)
           s1 == Lambda(NatT, s)
           s2 == Lambda(NatT, s1)
<1>1. f \in Nat /\ f + 1 = e
  OBVIOUS
<1>2. r \in Term /\ NatT \in Term /\ Closed(NatT)
  BY Constants0 DEF Closed
<1>3. m \in Term /\ s1 \in Term /\ s2 \in Term
  BY <1>2, FoldIsTerm
<1>4. Subst(NatT, d, x) = NatT /\ Subst(NatT, f, x) = NatT /\ Subst(r, f, x) = r
  BY <1>1, <1>2, SubstClosed
<1>5. Subst(m, d, x) = m
  BY <1>2, <1>4, SubstLambda
<1>6. Subst(s1, f, x) = Lambda(NatT, Subst(s, e, x))
  <2> HIDE DEF f
  <2>1. Subst(s1, f, x) = Lambda(Subst(NatT, f, x), Subst(s, f + 1, x))
    BY <1>1, <1>2, SubstLambda
  <2>2. QED
    BY <1>1, <1>4, <2>1
<1>7. Subst(s2, d, x) = Lambda(NatT, Subst(s1, f, x))
  <2> HIDE DEF s1
  <2>1. QED
    BY <1>2, <1>3, <1>4, SubstLambda
<1> HIDE DEF m, s1, s2, f
<1>8. Subst(NatRec(m, b, s2, z), d, x) = NatRec(Subst(m, d, x), Subst(b, d, x), Subst(s2, d, x), Subst(z, d, x))
  BY <1>3, SubstNatRec
<1>9. NatFold(r, b, s, z) = NatRec(m, b, s2, z)
  BY DEF NatFold, m, s1, s2
<1>10. NatFold(r, Subst(b, d, x), Subst(s, e, x), Subst(z, d, x)) =
         NatRec(m, Subst(b, d, x), Lambda(NatT, Lambda(NatT, Subst(s, e, x))), Subst(z, d, x))
  BY DEF NatFold, m
<1>11. QED
  BY <1>5, <1>6, <1>7, <1>8, <1>9, <1>10

\* At zero, the base.
LEMMA FoldZero ==
  ASSUME IsTermSet(Term), LibraryClosed, NEW r \in Term, NEW b \in Term, NEW s \in Term
  PROVE  Leads(NatFold(r, b, s, Zero), b)
<1>1. Lambda(NatT, r) \in Term /\ Lambda(NatT, Lambda(NatT, s)) \in Term
  BY Constants0, FoldIsTerm
<1>2. QED
  BY <1>1, ZeroLeads DEF NatFold

\* Two functions applied.
LEMMA BetaTwice ==
  ASSUME IsTermSet(Term), LibraryClosed, NEW s \in Term, NEW x \in Term, NEW y \in Term
  PROVE  Leads(App2(Lambda(NatT, Lambda(NatT, s)), x, y), Subst(Subst(s, 1, x), 0, y))
<1> DEFINE s1 == Lambda(NatT, s)
           s2 == Lambda(NatT, s1)
           p == Subst(s, 1, x)
<1>1. NatT \in Term /\ Closed(NatT) /\ s1 \in Term /\ s2 \in Term /\ p \in Term
  BY Constants0, LambdaIsTerm, SubstType
<1>2. Leads(App(s2, x), Subst(s1, 0, x))
  <2> HIDE DEF s1
  <2>1. QED
    BY <1>1, BetaLeads
<1>3. Subst(s1, 0, x) = Lambda(NatT, p)
  <2>1. PICK z \in Nat : z = 0 /\ z + 1 = 1
    OBVIOUS
  <2>2. Subst(s1, z, x) = Lambda(Subst(NatT, z, x), Subst(s, z + 1, x))
    BY <1>1, SubstLambda
  <2>3. Subst(NatT, z, x) = NatT
    BY <1>1, SubstClosed
  <2>4. QED
    BY <2>1, <2>2, <2>3
<1> HIDE DEF s1, s2, p
<1>4. Leads(y, y)
  BY LeadsRules
<1>5. Leads(App(App(s2, x), y), App(Lambda(NatT, p), y))
  BY <1>2, <1>3, <1>4, AppLeads
<1>6. Leads(App(Lambda(NatT, p), y), Subst(p, 0, y))
  BY <1>1, BetaLeads
<1>7. Leads(App(App(s2, x), y), Subst(p, 0, y))
  BY <1>5, <1>6, LeadsRules
<1>8. QED
  BY <1>7 DEF App2, s2, s1, p

\* At a successor, the step on the predecessor and the recursion on it.
LEMMA FoldSucc ==
  ASSUME IsTermSet(Term), LibraryClosed, NEW r \in Term, NEW b \in Term, NEW s \in Term, NEW z \in Term
  PROVE  Leads(NatFold(r, b, s, Succ(z)), Subst(Subst(s, 1, z), 0, NatFold(r, b, s, z)))
<1> DEFINE m == Lambda(NatT, r)
           s2 == Lambda(NatT, Lambda(NatT, s))
           rec == NatFold(r, b, s, z)
<1>1. m \in Term /\ s2 \in Term /\ rec \in Term
  BY FoldIsTerm
<1>2. NatFold(r, b, s, Succ(z)) = NatRec(m, b, s2, Succ(z)) /\ rec = NatRec(m, b, s2, z)
  BY DEF NatFold
<1>3. Leads(App2(s2, z, rec), Subst(Subst(s, 1, z), 0, rec))
  <2> HIDE DEF rec
  <2>1. QED
    BY <1>1, BetaTwice
<1> HIDE DEF m, s2, rec
<1>4. Leads(NatRec(m, b, s2, Succ(z)), App2(s2, z, rec))
  BY <1>1, <1>2, SuccLeads
<1>5. Leads(NatFold(r, b, s, Succ(z)), Subst(Subst(s, 1, z), 0, rec))
  BY <1>2, <1>3, <1>4, LeadsRules
<1>6. QED
  BY <1>5 DEF rec

\* A definition with one parameter.
LEMMA UnaryLeads ==
  ASSUME IsTermSet(Term), LibraryClosed, NEW c, Const(c) \in Term, c \in DOMAIN Defs,
         NEW s \in Term, Defs[c].value = Unary(s), NEW x \in Term
  PROVE  Leads(App(Const(c), x), Subst(s, 0, x))
<1>1. Leads(Const(c), Lambda(NatT, s)) /\ Leads(x, x) /\ NatT \in Term
  BY DeltaLeads, LeadsRules, Constants0 DEF Unary
<1>2. Leads(App(Const(c), x), App(Lambda(NatT, s), x))
  BY <1>1, AppLeads
<1>3. Leads(App(Lambda(NatT, s), x), Subst(s, 0, x))
  BY <1>1, BetaLeads
<1>4. QED
  BY <1>2, <1>3, LeadsRules

\* A definition with two.
LEMMA BinaryLeads ==
  ASSUME IsTermSet(Term), LibraryClosed, NEW c, Const(c) \in Term, c \in DOMAIN Defs,
         NEW s \in Term, Defs[c].value = Binary(s), NEW x \in Term, NEW y \in Term
  PROVE  Leads(App2(Const(c), x, y), Subst(Subst(s, 1, x), 0, y))
<1> DEFINE f == Lambda(NatT, Lambda(NatT, s))
<1>1. Leads(Const(c), f) /\ Leads(x, x) /\ Leads(y, y)
  BY DeltaLeads, LeadsRules DEF Binary
<1>2. Leads(App2(f, x, y), Subst(Subst(s, 1, x), 0, y))
  BY BetaTwice
<1> HIDE DEF f
<1>3. Leads(App(App(Const(c), x), y), App(App(f, x), y))
  BY <1>1, AppLeads
<1>4. QED
  BY <1>2, <1>3, LeadsRules DEF App2

\* The values of the definitions.
LEMMA LibraryValues ==
  ASSUME HasLibrary
  PROVE  /\ \A c \in {"pred", "add", "mul", "minus", "is_zero", "le"} : c \in DOMAIN Defs
         /\ Defs["pred"].value = PredValue /\ Defs["add"].value = AddValue
         /\ Defs["mul"].value = MulValue /\ Defs["minus"].value = MinusValue
         /\ Defs["is_zero"].value = IsZeroValue /\ Defs["le"].value = LeValue
<1>1. ASSUME NEW c \in {"pred", "add", "mul", "minus", "is_zero", "le"}
      PROVE  c \in DOMAIN Defs /\ Defs[c] = StdlibDefs[c]
  BY DEF HasLibrary, StdlibDefs
<1>2. /\ StdlibDefs["pred"].value = PredValue /\ StdlibDefs["add"].value = AddValue
      /\ StdlibDefs["mul"].value = MulValue /\ StdlibDefs["minus"].value = MinusValue
      /\ StdlibDefs["is_zero"].value = IsZeroValue /\ StdlibDefs["le"].value = LeValue
  BY DEF StdlibDefs, Aliases
<1>3. /\ Defs["pred"] = StdlibDefs["pred"] /\ Defs["add"] = StdlibDefs["add"]
      /\ Defs["mul"] = StdlibDefs["mul"] /\ Defs["minus"] = StdlibDefs["minus"]
      /\ Defs["is_zero"] = StdlibDefs["is_zero"] /\ Defs["le"] = StdlibDefs["le"]
  <2> DEFINE S == {"pred", "add", "mul", "minus", "is_zero", "le"}
  <2>1. "pred" \in S /\ "add" \in S /\ "mul" \in S /\ "minus" \in S /\ "is_zero" \in S /\ "le" \in S
    OBVIOUS
  <2>2. \A c \in S : Defs[c] = StdlibDefs[c]
    BY <1>1
  <2> HIDE DEF S
  <2>3. QED
    BY <2>1, <2>2
<1>4. QED
  BY <1>1, <1>2, <1>3, Zenon

\* The parts of a term are terms.
LEMMA TermParts ==
  ASSUME IsTermSet(Term)
  PROVE  /\ \A a, b : Lambda(a, b) \in Term => a \in Term /\ b \in Term
         /\ \A a, b : App(a, b) \in Term => a \in Term /\ b \in Term
         /\ \A a, b, c, z : NatRec(a, b, c, z) \in Term => b \in Term /\ c \in Term /\ z \in Term
<1>0. ASSUME NEW u \in Term, NEW a, NEW b, u.kids = <<a, b>> PROVE a \in Term /\ b \in Term
  <2>1. 1 \in 1..Len(u.kids) /\ 2 \in 1..Len(u.kids) /\ u.kids[1] = a /\ u.kids[2] = b
    BY <1>0
  <2>2. QED
    BY <2>1, KidIsTerm
<1>1. ASSUME NEW a, NEW b, Lambda(a, b) \in Term PROVE a \in Term /\ b \in Term
  <2>1. Lambda(a, b).kids = <<a, b>>
    BY DEF Lambda, Node
  <2>2. QED
    BY <1>0, <1>1, <2>1
<1>2. ASSUME NEW a, NEW b, App(a, b) \in Term PROVE a \in Term /\ b \in Term
  <2>1. App(a, b).kids = <<a, b>>
    BY DEF App, Node
  <2>2. QED
    BY <1>0, <1>2, <2>1
<1>3. ASSUME NEW a, NEW b, NEW c, NEW z, NatRec(a, b, c, z) \in Term
      PROVE  b \in Term /\ c \in Term /\ z \in Term
  <2> DEFINE ks == <<a, b, c, z>>
  <2>1. NatRec(a, b, c, z).kids = ks
    BY DEF NatRec, Node
  <2>2. /\ 2 \in 1..Len(ks) /\ 3 \in 1..Len(ks) /\ 4 \in 1..Len(ks)
        /\ ks[2] = b /\ ks[3] = c /\ ks[4] = z
    OBVIOUS
  <2> HIDE DEF ks
  <2>3. QED
    BY <1>3, <2>1, <2>2, TermFields
<1>4. QED
  BY <1>1, <1>2, <1>3

\* The constants the definitions mention are terms.
LEMMA LibraryConstants ==
  ASSUME IsTermSet(Term), LibraryClosed, HasLibrary
  PROVE  /\ Const("add") \in Term /\ Const("pred") \in Term
         /\ Const("is_zero") \in Term /\ Const("minus") \in Term
<1>1. \A r, b, s, z : NatFold(r, b, s, z) \in Term => s \in Term
  BY TermParts DEF NatFold
<1>2. \A s : Binary(s) \in Term => s \in Term
  BY TermParts DEF Binary
<1>3. MulValue \in Term /\ MinusValue \in Term /\ LeValue \in Term
  BY LibraryValues DEF LibraryClosed
<1>4. App2(Const("add"), Var(2), Var(0)) \in Term
  BY <1>1, <1>2, <1>3 DEF MulValue
<1>5. App(Const("pred"), Var(0)) \in Term
  BY <1>1, <1>2, <1>3 DEF MinusValue
<1>6. App(Const("is_zero"), App2(Const("minus"), Var(1), Var(0))) \in Term
  BY <1>2, <1>3 DEF LeValue
<1>7. Const("add") \in Term
  BY <1>4, TermParts DEF App2
<1>8. Const("pred") \in Term
  BY <1>5, TermParts
<1>9. Const("is_zero") \in Term /\ App2(Const("minus"), Var(1), Var(0)) \in Term
  BY <1>6, TermParts
<1>10. Const("minus") \in Term
  BY <1>9, TermParts DEF App2
<1>11. QED
  BY <1>7, <1>8, <1>9, <1>10
-----------------------------------------------------------------------------
(* What each definition computes of numerals.                              *)

\* Substitution of a closed term at the depths the library needs.
LEMMA FoldSubst ==
  ASSUME IsTermSet(Term), LibraryClosed, NEW r, Closed(r), NEW b \in Term, NEW s \in Term, NEW z \in Term,
         NEW x \in Term
  PROVE  /\ Subst(NatFold(r, b, s, z), 0, x) = NatFold(r, Subst(b, 0, x), Subst(s, 2, x), Subst(z, 0, x))
         /\ Subst(NatFold(r, b, s, z), 1, x) = NatFold(r, Subst(b, 1, x), Subst(s, 3, x), Subst(z, 1, x))
<1>1. 0 \in Nat /\ 1 \in Nat /\ 2 \in Nat /\ 3 \in Nat /\ 2 = 0 + 2 /\ 3 = 1 + 2
  OBVIOUS
<1>2. QED
  BY <1>1, SubstFold

\* Shifting by nothing.
LEMMA ShiftNothing ==
  ASSUME IsTermSet(Term)
  PROVE  \A u \in Term : \A c \in Nat : Shift(u, c, 0) = u
<1> DEFINE P == {u \in Term : \A c \in Nat : Shift(u, c, 0) = u}
<1>1. ASSUME NEW u \in Term, \A i \in 1..Len(u.kids) : u.kids[i] \in P, NEW c \in Nat
      PROVE  Shift(u, c, 0) = u
  <2>1. CASE u.op = "Var"
    <3>1. u = Var(u.n) /\ u.n \in Nat
      BY <2>1, VarIsTerm, TermFields
    <3>2. ASSUME NEW n \in Nat PROVE Shift(Var(n), c, 0) = Var(n)
      <4>1. n + 0 = n
        OBVIOUS
      <4>2. Shift(Var(n), c, 0) = IF n >= c THEN Var(n + 0) ELSE Var(n)
        BY ShiftType
      <4>3. QED
        BY <4>1, <4>2
    <3>3. QED
      BY <3>1, <3>2
  <2>2. CASE u.op # "Var"
    <3> DEFINE ks == ShiftKids(u, c, 0)
               n == Len(u.kids)
    <3>1. Shift(u, c, 0) = WithKids(u, ks)
      BY <2>2, ShiftType
    <3>2. ASSUME NEW i \in 1..n PROVE ks[i] = u.kids[i] /\ ks[i] \in Term
      <4>1. c + Binders(u, i) \in Nat /\ u.kids[i] \in Term
        BY KidIsTerm
      <4>2. ks[i] = Shift(u.kids[i], c + Binders(u, i), 0)
        BY DEF ShiftKids
      <4>3. QED
        BY <1>1, <4>1, <4>2
    <3>3. ks = [i \in 1..n |-> ks[i]] /\ n \in Nat
      BY TermFields DEF ShiftKids
    <3> HIDE DEF ks, n
    <3>4. ks \in [1..n -> Term]
      BY <3>2, <3>3
    <3>5. ks \in Seq(Term) /\ Len(ks) = n
      BY <3>3, <3>4, FunctionIsSeq
    <3>6. ks = u.kids
      BY <3>2, <3>5, TermFields, SameSeq DEF n
    <3>7. QED
      BY <3>1, <3>5, <3>6, WithKidsIsTerm, TermFields DEF n
  <2>3. QED
    BY <2>1, <2>2
<1>2. \A u \in Term : u \in P
  <2>1. \A u \in Term : (\A i \in 1..Len(u.kids) : u.kids[i] \in P) => u \in P
    BY <1>1
  <2> HIDE DEF P
  <2>2. P \in SUBSET Term
    BY DEF P
  <2>3. QED
    BY <2>1, <2>2, TermInduction
<1>3. QED
  BY <1>2

\* What is put for the variable at the top.
LEMMA TopVar ==
  ASSUME IsTermSet(Term), NEW x \in Term
  PROVE  Subst(Var(0), 0, x) = x
<1>1. Subst(Var(0), 0, x) = Shift(x, 0, 0)
  BY SubstOfVar
<1>2. QED
  BY <1>1, ShiftNothing

\* A number is zero or follows another, and so do the numerals.
LEMMA NumCases ==
  ASSUME IsTermSet(Term), LibraryClosed, NEW n \in Nat
  PROVE  \/ n = 0 /\ Num(n) = Zero
         \/ \E m \in Nat : n = m + 1 /\ Num(n) = Succ(Num(m))
<1>1. CASE n = 0
  BY <1>1, NumeralDef
<1>2. CASE n # 0
  <2>1. PICK m \in Nat : n = m + 1
    <3>1. n - 1 \in Nat /\ n = (n - 1) + 1
      BY <1>2
    <3>2. QED
      BY <3>1
  <2>2. QED
    BY <2>1, NumeralDef
<1>3. QED
  BY <1>1, <1>2

\* The predecessor.
LEMMA PredLeads ==
  ASSUME IsTermSet(Term), LibraryClosed, HasLibrary, NEW n \in Nat
  PROVE  Leads(App(Const("pred"), Num(n)), Num(Monus(n, 1)))
<1> DEFINE x == Num(n)
           s == NatFold(NatT, Zero, Var(1), Var(0))
           u == App(Const("pred"), x)
<1>1. Closed(x) /\ x \in Term
  BY NumClosed
<1>2. NatT \in Term /\ Zero \in Term /\ Closed(NatT) /\ Closed(Zero)
  BY Constants0
<1>3. /\ Var(0) \in Term /\ Var(1) \in Term /\ Subst(Var(0), 0, x) = x /\ Subst(Var(1), 2, x) = Var(1)
  BY <1>1, LibraryVars
<1>4. Subst(Zero, 0, x) = Zero
  BY <1>1, <1>2, SubstClosed
<1>5. s \in Term
  BY <1>2, <1>3, FoldIsTerm
<1>6. Leads(u, Subst(s, 0, x))
  <2>1. Defs["pred"].value = Unary(s) /\ "pred" \in DOMAIN Defs
    BY LibraryValues DEF PredValue
  <2> HIDE DEF s, x
  <2>2. QED
    BY <1>1, <1>5, <2>1, LibraryConstants, UnaryLeads
<1> HIDE DEF x
<1>7. Subst(s, 0, x) = NatFold(NatT, Zero, Var(1), x)
  BY <1>1, <1>2, <1>3, <1>4, FoldSubst
<1>8. CASE n = 0 /\ Num(n) = Zero
  <2>1. Leads(NatFold(NatT, Zero, Var(1), x), Zero)
    BY <1>2, <1>3, <1>8, FoldZero DEF x
  <2>2. Monus(n, 1) = n
    BY <1>8 DEF Monus
  <2> HIDE DEF u
  <2>3. QED
    BY <1>6, <1>7, <1>8, <2>1, <2>2, LeadsRules DEF u, x
<1>9. ASSUME NEW m \in Nat, n = m + 1, Num(n) = Succ(Num(m))
      PROVE  Leads(App(Const("pred"), Num(n)), Num(Monus(n, 1)))
  <2> DEFINE y == Num(m)
             rec == NatFold(NatT, Zero, Var(1), y)
  <2>1. Closed(y) /\ y \in Term
    BY NumClosed
  <2>2. rec \in Term
    BY <1>2, <1>3, <2>1, FoldIsTerm
  <2>3. Leads(NatFold(NatT, Zero, Var(1), Succ(y)), Subst(Subst(Var(1), 1, y), 0, rec))
    <3> HIDE DEF y
    <3> QED BY <1>2, <1>3, <2>1, FoldSucc
  <2> HIDE DEF y, rec
  <2>4. Subst(Var(1), 1, y) = y /\ Subst(y, 0, rec) = y
    BY <2>1, <2>2, LibraryVars, SubstClosed
  <2>5. x = Succ(y)
    BY <1>9 DEF x, y
  <2>6. Leads(u, y)
    <3> HIDE DEF u, s
    <3> QED BY <1>6, <1>7, <2>3, <2>4, <2>5, LeadsRules
  <2>7. Monus(n, 1) = m
    BY <1>9 DEF Monus
  <2>8. QED
    BY <2>6, <2>7 DEF u, x, y
<1>10. QED
  BY <1>8, <1>9, NumCases DEF x, u

\* The sum.
LEMMA AddLeads ==
  ASSUME IsTermSet(Term), LibraryClosed, HasLibrary, NEW a \in Nat, NEW b \in Nat, Const("add") \in Term
  PROVE  Leads(App2(Const("add"), Num(a), Num(b)), Num(a + b))
<1> DEFINE x == Num(a)
           y == Num(b)
           step == Succ(Var(0))
           s == NatFold(NatT, Var(0), step, Var(1))
           fold(n) == NatFold(NatT, y, step, Num(n))
           u == App2(Const("add"), x, y)
<1>1. Closed(x) /\ x \in Term /\ Closed(y) /\ y \in Term
  BY NumClosed
<1>2. NatT \in Term /\ Closed(NatT)
  BY Constants0
<1>3. Var(0) \in Term /\ Var(1) \in Term /\ step \in Term
  BY <1>1, LibraryVars, SuccIsTerm
<1>4. Leads(u, Subst(Subst(s, 1, x), 0, y))
  <2>1. Defs["add"].value = Binary(s) /\ "add" \in DOMAIN Defs
    BY LibraryValues DEF AddValue
  <2>2. s \in Term
    BY <1>2, <1>3, FoldIsTerm
  <2> HIDE DEF s, x, y
  <2>3. QED
    BY <1>1, <2>1, <2>2, BinaryLeads
<1>5. Subst(Subst(s, 1, x), 0, y) = fold(a)
  <2> HIDE DEF x, y
  <2>1. Subst(step, 3, x) = step /\ Subst(step, 2, y) = step
    BY <1>1, <1>3, LibraryVars, SubstSucc
  <2> HIDE DEF step
  <2>2. Subst(s, 1, x) = NatFold(NatT, Var(0), step, x)
    BY <1>1, <1>2, <1>3, <2>1, FoldSubst, LibraryVars
  <2>3. Subst(x, 0, y) = x
    BY <1>1, SubstClosed
  <2> HIDE DEF s
  <2>4. Subst(NatFold(NatT, Var(0), step, x), 0, y) = NatFold(NatT, y, step, x)
    BY <1>1, <1>2, <1>3, <2>1, <2>3, FoldSubst, LibraryVars
  <2>5. QED
    BY <2>2, <2>4 DEF x
<1>6. Leads(fold(0), Num(0 + b))
  <2>1. Leads(NatFold(NatT, y, step, Zero), y)
    <3> HIDE DEF y, step
    <3> QED BY <1>1, <1>2, <1>3, FoldZero
  <2>2. Num(0) = Zero /\ 0 + b = b
    BY NumeralDef
  <2>3. QED
    BY <2>1, <2>2
<1>7. ASSUME NEW n \in Nat, Leads(fold(n), Num(n + b)) PROVE Leads(fold(n + 1), Num((n + 1) + b))
  <2> DEFINE z == Num(n)
             rec == NatFold(NatT, y, step, z)
  <2>1. z \in Term /\ Closed(z)
    BY NumClosed
  <2>2. rec \in Term
    BY <1>7, LeadsRules
  <2>3. fold(n + 1) = NatFold(NatT, y, step, Succ(z))
    BY NumeralDef
  <2>4. Leads(NatFold(NatT, y, step, Succ(z)), Subst(Subst(step, 1, z), 0, rec))
    <3> HIDE DEF y, z, step
    <3> QED BY <1>1, <1>2, <1>3, <2>1, FoldSucc DEF rec
  <2>5. Subst(Subst(step, 1, z), 0, rec) = Succ(rec)
    <3> HIDE DEF z, rec
    <3>1. Subst(step, 1, z) = step
      BY <1>3, <2>1, LibraryVars, SubstSucc
    <3>2. Subst(Var(0), 0, rec) = rec
      BY <2>2, TopVar
    <3>3. Subst(step, 0, rec) = Succ(rec)
      BY <1>3, <2>2, <3>2, SubstSucc
    <3>4. QED
      BY <3>1, <3>3
  <2>6. Leads(Succ(rec), Succ(Num(n + b)))
    BY <1>7, SuccLeadsInside
  <2>7. Succ(Num(n + b)) = Num((n + 1) + b)
    <3>1. n + b \in Nat /\ (n + 1) + b = (n + b) + 1
      OBVIOUS
    <3>2. QED
      BY <3>1, NumeralDef
  <2> HIDE DEF fold, step, rec
  <2>8. QED
    BY <2>3, <2>4, <2>5, <2>6, <2>7, LeadsRules
<1>8. \A n \in Nat : Leads(fold(n), Num(n + b))
  <2> DEFINE P == {n \in Nat : Leads(fold(n), Num(n + b))}
  <2> HIDE DEF fold
  <2>1. 0 \in P /\ \A n \in P : n + 1 \in P
    BY <1>6, <1>7
  <2> HIDE DEF P
  <2>2. \A n \in Nat : n \in P
    <3>1. P \in SUBSET Nat
      BY DEF P
    <3>2. QED
      BY <2>1, <3>1, Counting
  <2>3. QED
    BY <2>2 DEF P
<1>9. QED
  <2> HIDE DEF fold, s
  <2>1. Leads(u, Num(a + b))
    <3> HIDE DEF u
    <3> QED BY <1>4, <1>5, <1>8, LeadsRules
  <2>2. QED
    BY <2>1 DEF u, x, y

\* A constant applied to two terms.
LEMMA SubstCall ==
  ASSUME IsTermSet(Term), LibraryClosed, NEW c, Const(c) \in Term, NEW x \in Term, NEW d \in Nat
  PROVE  /\ \A a \in Term : Subst(App(Const(c), a), d, x) = App(Const(c), Subst(a, d, x))
         /\ \A a \in Term : \A b \in Term :
              Subst(App2(Const(c), a, b), d, x) = App2(Const(c), Subst(a, d, x), Subst(b, d, x))
<1> DEFINE f == Const(c)
<1>1. f \in Term /\ Subst(f, d, x) = f
  BY LeafClosed, SubstClosed
<1> HIDE DEF f
<1>2. ASSUME NEW a \in Term
      PROVE  App(f, a) \in Term /\ Subst(App(f, a), d, x) = App(f, Subst(a, d, x))
  BY <1>1, SubstApp, AppIsTerm
<1>3. ASSUME NEW a \in Term, NEW b \in Term
      PROVE  Subst(App2(f, a, b), d, x) = App2(f, Subst(a, d, x), Subst(b, d, x))
  <2> DEFINE g == App(f, a)
  <2>1. g \in Term /\ Subst(g, d, x) = App(f, Subst(a, d, x))
    BY <1>2
  <2> HIDE DEF g
  <2>2. Subst(App(g, b), d, x) = App(Subst(g, d, x), Subst(b, d, x))
    BY <2>1, SubstApp
  <2>3. QED
    BY <2>1, <2>2 DEF App2, g
<1>4. QED
  BY <1>2, <1>3 DEF f

\* The product.
LEMMA MulLeads ==
  ASSUME IsTermSet(Term), LibraryClosed, HasLibrary, NEW a \in Nat, NEW b \in Nat, Const("mul") \in Term
  PROVE  Leads(App2(Const("mul"), Num(a), Num(b)), Num(a * b))
<1> DEFINE x == Num(a)
           y == Num(b)
           free == App2(Const("add"), Var(2), Var(0))
           step == App2(Const("add"), y, Var(0))
           s == NatFold(NatT, Zero, free, Var(1))
           fold(n) == NatFold(NatT, Zero, step, Num(n))
           u == App2(Const("mul"), x, y)
<1>1. Closed(x) /\ x \in Term /\ Closed(y) /\ y \in Term
  BY NumClosed
<1>2. NatT \in Term /\ Closed(NatT) /\ Zero \in Term /\ Closed(Zero) /\ Const("add") \in Term
  BY Constants0, LibraryConstants
<1>3. Var(0) \in Term /\ Var(1) \in Term /\ Var(2) \in Term
  BY <1>1, LibraryVars
<1>4. free \in Term /\ step \in Term
  <2> HIDE DEF y
  <2> QED BY <1>1, <1>2, <1>3, AppIsTerm DEF App2
<1>5. Leads(u, Subst(Subst(s, 1, x), 0, y))
  <2>1. Defs["mul"].value = Binary(s) /\ "mul" \in DOMAIN Defs
    BY LibraryValues DEF MulValue
  <2>2. s \in Term
    <3> HIDE DEF free
    <3> QED BY <1>2, <1>3, <1>4, FoldIsTerm
  <2> HIDE DEF s, x, y
  <2>3. QED
    BY <1>1, <2>1, <2>2, BinaryLeads
<1>6. Subst(Subst(s, 1, x), 0, y) = fold(a)
  <2> HIDE DEF x, y
  <2>1. Subst(free, 3, x) = free
    BY <1>1, <1>2, <1>3, LibraryVars, SubstCall
  <2>2. Subst(free, 2, y) = step
    BY <1>1, <1>2, <1>3, LibraryVars, SubstCall
  <2> HIDE DEF free, step
  <2>3. Subst(Zero, 1, x) = Zero /\ Subst(Zero, 0, y) = Zero /\ Subst(x, 0, y) = x
    BY <1>1, <1>2, SubstClosed
  <2>4. Subst(s, 1, x) = NatFold(NatT, Zero, free, x)
    BY <1>1, <1>2, <1>3, <1>4, <2>1, <2>3, FoldSubst, LibraryVars
  <2> HIDE DEF s
  <2>5. Subst(NatFold(NatT, Zero, free, x), 0, y) = NatFold(NatT, Zero, step, x)
    BY <1>1, <1>2, <1>3, <1>4, <2>2, <2>3, FoldSubst
  <2>6. QED
    BY <2>4, <2>5 DEF x
<1>7. Leads(fold(0), Num(0 * b))
  <2>1. Leads(NatFold(NatT, Zero, step, Zero), Zero)
    <3> HIDE DEF step
    <3> QED BY <1>2, <1>4, FoldZero
  <2>2. Num(0) = Zero /\ 0 * b = 0
    BY NumeralDef
  <2>3. QED
    BY <2>1, <2>2
<1>8. ASSUME NEW n \in Nat, Leads(fold(n), Num(n * b)) PROVE Leads(fold(n + 1), Num((n + 1) * b))
  <2> DEFINE z == Num(n)
             rec == NatFold(NatT, Zero, step, z)
             rest == Num(n * b)
  <2>0. n * b \in Nat /\ b + n * b = (n + 1) * b
    OBVIOUS
  <2>1. z \in Term /\ Closed(z)
    BY NumClosed
  <2>2. rec \in Term /\ Leads(rec, rest)
    BY <1>8, LeadsRules
  <2>3. fold(n + 1) = NatFold(NatT, Zero, step, Succ(z))
    BY NumeralDef
  <2>4. Leads(NatFold(NatT, Zero, step, Succ(z)), Subst(Subst(step, 1, z), 0, rec))
    <3> HIDE DEF z, step
    <3> QED BY <1>2, <1>4, <2>1, FoldSucc DEF rec
  <2>5. Subst(Subst(step, 1, z), 0, rec) = App2(Const("add"), y, rec)
    <3> HIDE DEF z, rec, y
    <3>1. Subst(step, 1, z) = step
      BY <1>1, <1>2, <1>3, <2>1, LibraryVars, SubstClosed, SubstCall
    <3>2. Subst(Var(0), 0, rec) = rec /\ Subst(y, 0, rec) = y
      BY <1>1, <2>2, TopVar, SubstClosed
    <3>3. Subst(step, 0, rec) = App2(Const("add"), y, rec)
      BY <1>1, <1>2, <1>3, <2>2, <3>2, SubstCall
    <3>4. QED
      BY <3>1, <3>3
  <2>6. Leads(App2(Const("add"), y, rec), App2(Const("add"), y, rest))
    <3> HIDE DEF y, rec, rest
    <3>1. Leads(Const("add"), Const("add")) /\ Leads(y, y)
      BY <1>1, <1>2, LeadsRules
    <3>2. Leads(App(Const("add"), y), App(Const("add"), y))
      BY <3>1, AppLeads
    <3>3. QED
      BY <2>2, <3>2, AppLeads DEF App2
  <2>7. Leads(App2(Const("add"), y, rest), Num((n + 1) * b))
    BY <1>2, <2>0, AddLeads
  <2> HIDE DEF fold, step, rec, y, rest
  <2>8. QED
    BY <2>3, <2>4, <2>5, <2>6, <2>7, LeadsRules
<1>9. \A n \in Nat : Leads(fold(n), Num(n * b))
  <2> DEFINE P == {n \in Nat : Leads(fold(n), Num(n * b))}
  <2> HIDE DEF fold
  <2>1. 0 \in P /\ \A n \in P : n + 1 \in P
    BY <1>7, <1>8
  <2> HIDE DEF P
  <2>2. \A n \in Nat : n \in P
    <3>1. P \in SUBSET Nat
      BY DEF P
    <3>2. QED
      BY <2>1, <3>1, Counting
  <2>3. QED
    BY <2>2 DEF P
<1>10. QED
  <2> HIDE DEF fold, s
  <2>1. Leads(u, Num(a * b))
    <3> HIDE DEF u
    <3> QED BY <1>5, <1>6, <1>9, LeadsRules
  <2>2. QED
    BY <2>1 DEF u, x, y

\* The truncated difference.
LEMMA MinusLeads ==
  ASSUME IsTermSet(Term), LibraryClosed, HasLibrary, NEW a \in Nat, NEW b \in Nat
  PROVE  Leads(App2(Const("minus"), Num(a), Num(b)), Num(Monus(a, b)))
<1> DEFINE x == Num(a)
           y == Num(b)
           step == App(Const("pred"), Var(0))
           s == NatFold(NatT, Var(1), step, Var(0))
           fold(n) == NatFold(NatT, x, step, Num(n))
           u == App2(Const("minus"), x, y)
<1>1. Closed(x) /\ x \in Term /\ Closed(y) /\ y \in Term
  BY NumClosed
<1>2. NatT \in Term /\ Closed(NatT) /\ Const("pred") \in Term /\ Const("minus") \in Term
  BY Constants0, LibraryConstants
<1>3. Var(0) \in Term /\ Var(1) \in Term
  BY <1>1, LibraryVars
<1>4. step \in Term
  BY <1>2, <1>3, AppIsTerm
<1>5. Leads(u, Subst(Subst(s, 1, x), 0, y))
  <2>1. Defs["minus"].value = Binary(s) /\ "minus" \in DOMAIN Defs
    BY LibraryValues DEF MinusValue
  <2>2. s \in Term
    <3> HIDE DEF step
    <3> QED BY <1>2, <1>3, <1>4, FoldIsTerm
  <2> HIDE DEF s, x, y
  <2>3. QED
    BY <1>1, <1>2, <2>1, <2>2, BinaryLeads
<1>6. Subst(Subst(s, 1, x), 0, y) = fold(b)
  <2> HIDE DEF x, y
  <2>1. Subst(step, 3, x) = step /\ Subst(step, 2, y) = step
    BY <1>1, <1>2, <1>3, LibraryVars, SubstCall
  <2> HIDE DEF step
  <2>3. Subst(x, 0, y) = x
    BY <1>1, SubstClosed
  <2>4. Subst(s, 1, x) = NatFold(NatT, x, step, Var(0))
    BY <1>1, <1>2, <1>3, <1>4, <2>1, FoldSubst, LibraryVars
  <2> HIDE DEF s
  <2>5. Subst(NatFold(NatT, x, step, Var(0)), 0, y) = NatFold(NatT, x, step, y)
    BY <1>1, <1>2, <1>3, <1>4, <2>1, <2>3, FoldSubst, LibraryVars
  <2>6. QED
    BY <2>4, <2>5 DEF y
<1>7. Leads(fold(0), Num(Monus(a, 0)))
  <2>1. Leads(NatFold(NatT, x, step, Zero), x)
    <3> HIDE DEF step, x
    <3> QED BY <1>1, <1>2, <1>4, FoldZero
  <2>2. Num(0) = Zero /\ Monus(a, 0) = a
    BY NumeralDef DEF Monus
  <2>3. QED
    BY <2>1, <2>2
<1>8. ASSUME NEW n \in Nat, Leads(fold(n), Num(Monus(a, n))) PROVE Leads(fold(n + 1), Num(Monus(a, n + 1)))
  <2> DEFINE z == Num(n)
             rec == NatFold(NatT, x, step, z)
             rest == Num(Monus(a, n))
  <2>0. Monus(a, n) \in Nat /\ Monus(Monus(a, n), 1) = Monus(a, n + 1)
    BY DEF Monus
  <2>1. z \in Term /\ Closed(z)
    BY NumClosed
  <2>2. rec \in Term /\ Leads(rec, rest)
    BY <1>8, LeadsRules
  <2>3. fold(n + 1) = NatFold(NatT, x, step, Succ(z))
    BY NumeralDef
  <2>4. Leads(NatFold(NatT, x, step, Succ(z)), Subst(Subst(step, 1, z), 0, rec))
    <3> HIDE DEF z, step, x
    <3> QED BY <1>1, <1>2, <1>4, <2>1, FoldSucc DEF rec
  <2>5. Subst(Subst(step, 1, z), 0, rec) = App(Const("pred"), rec)
    <3> HIDE DEF z, rec
    <3>1. Subst(step, 1, z) = step
      BY <1>2, <1>3, <2>1, LibraryVars, SubstCall
    <3>2. Subst(Var(0), 0, rec) = rec
      BY <2>2, TopVar
    <3>3. Subst(step, 0, rec) = App(Const("pred"), rec)
      BY <1>2, <1>3, <2>2, <3>2, SubstCall
    <3>4. QED
      BY <3>1, <3>3
  <2>6. Leads(App(Const("pred"), rec), App(Const("pred"), rest))
    <3> HIDE DEF rec, rest
    <3> QED BY <1>2, <2>2, LeadsRules, AppLeads
  <2>7. Leads(App(Const("pred"), rest), Num(Monus(a, n + 1)))
    BY <2>0, PredLeads
  <2> HIDE DEF fold, step, rec, x, rest
  <2>8. QED
    BY <2>3, <2>4, <2>5, <2>6, <2>7, LeadsRules
<1>9. \A n \in Nat : Leads(fold(n), Num(Monus(a, n)))
  <2> DEFINE P == {n \in Nat : Leads(fold(n), Num(Monus(a, n)))}
  <2> HIDE DEF fold
  <2>1. 0 \in P /\ \A n \in P : n + 1 \in P
    BY <1>7, <1>8
  <2> HIDE DEF P
  <2>2. \A n \in Nat : n \in P
    <3>1. P \in SUBSET Nat
      BY DEF P
    <3>2. QED
      BY <2>1, <3>1, Counting
  <2>3. QED
    BY <2>2 DEF P
<1>10. QED
  <2> HIDE DEF fold, s
  <2>1. Leads(u, Num(Monus(a, b)))
    <3> HIDE DEF u
    <3> QED BY <1>5, <1>6, <1>9, LeadsRules
  <2>2. QED
    BY <2>1 DEF u, x, y

\* The test for zero.
LEMMA IsZeroLeads ==
  ASSUME IsTermSet(Term), LibraryClosed, HasLibrary, NEW n \in Nat
  PROVE  Leads(App(Const("is_zero"), Num(n)), Truth(n = 0))
<1> DEFINE x == Num(n)
           s == NatFold(BoolT, True, False, Var(0))
           u == App(Const("is_zero"), x)
<1>1. Closed(x) /\ x \in Term
  BY NumClosed
<1>2. /\ BoolT \in Term /\ True \in Term /\ False \in Term
      /\ Closed(BoolT) /\ Closed(True) /\ Closed(False)
  BY Constants0
<1>3. Var(0) \in Term /\ Subst(Var(0), 0, x) = x
  BY <1>1, LibraryVars
<1>4. Subst(True, 0, x) = True /\ Subst(False, 2, x) = False
  BY <1>1, <1>2, SubstClosed
<1>5. s \in Term
  BY <1>2, <1>3, FoldIsTerm
<1>6. Leads(u, Subst(s, 0, x))
  <2>1. Defs["is_zero"].value = Unary(s) /\ "is_zero" \in DOMAIN Defs
    BY LibraryValues DEF IsZeroValue
  <2> HIDE DEF s, x
  <2>2. QED
    BY <1>1, <1>5, <2>1, LibraryConstants, UnaryLeads
<1> HIDE DEF x
<1>7. Subst(s, 0, x) = NatFold(BoolT, True, False, x)
  BY <1>1, <1>2, <1>3, <1>4, FoldSubst
<1> HIDE DEF u, s
<1>8. CASE n = 0 /\ Num(n) = Zero
  <2>1. Leads(NatFold(BoolT, True, False, x), True)
    BY <1>2, <1>8, FoldZero DEF x
  <2>2. Truth(n = 0) = True
    BY <1>8 DEF Truth
  <2>3. QED
    BY <1>6, <1>7, <2>1, <2>2, LeadsRules DEF u, x
<1>9. ASSUME NEW m \in Nat, n = m + 1, Num(n) = Succ(Num(m))
      PROVE  Leads(App(Const("is_zero"), Num(n)), Truth(n = 0))
  <2> DEFINE y == Num(m)
             rec == NatFold(BoolT, True, False, y)
  <2>1. Closed(y) /\ y \in Term
    BY NumClosed
  <2>2. rec \in Term
    BY <1>2, <2>1, FoldIsTerm
  <2>3. Leads(NatFold(BoolT, True, False, Succ(y)), Subst(Subst(False, 1, y), 0, rec))
    <3> HIDE DEF y
    <3> QED BY <1>2, <2>1, FoldSucc
  <2> HIDE DEF y, rec
  <2>4. Subst(False, 1, y) = False /\ Subst(False, 0, rec) = False
    BY <1>2, <2>1, <2>2, SubstClosed
  <2>5. x = Succ(y)
    BY <1>9 DEF x, y
  <2>6. Leads(u, False)
    BY <1>6, <1>7, <2>3, <2>4, <2>5, LeadsRules
  <2>7. Truth(n = 0) = False
    BY <1>9 DEF Truth
  <2>8. QED
    BY <2>6, <2>7 DEF u, x
<1>10. QED
  BY <1>8, <1>9, NumCases DEF x, u

\* The comparison.
LEMMA LeLeads ==
  ASSUME IsTermSet(Term), LibraryClosed, HasLibrary, NEW a \in Nat, NEW b \in Nat, Const("le") \in Term
  PROVE  Leads(App2(Const("le"), Num(a), Num(b)), Truth(a <= b))
<1> DEFINE x == Num(a)
           y == Num(b)
           diff(v, w) == App2(Const("minus"), v, w)
           zero(v) == App(Const("is_zero"), v)
           s == zero(diff(Var(1), Var(0)))
           u == App2(Const("le"), x, y)
<1>1. Closed(x) /\ x \in Term /\ Closed(y) /\ y \in Term
  BY NumClosed
<1>2. Const("minus") \in Term /\ Const("is_zero") \in Term
  BY LibraryConstants
<1>3. Var(0) \in Term /\ Var(1) \in Term
  BY <1>1, LibraryVars
<1>4. ASSUME NEW v \in Term, NEW w \in Term PROVE diff(v, w) \in Term /\ zero(v) \in Term
  BY <1>2, AppIsTerm DEF App2
<1>5. ASSUME NEW v \in Term, NEW w \in Term, NEW z \in Term, NEW d \in Nat
      PROVE  Subst(zero(diff(v, w)), d, z) = zero(diff(Subst(v, d, z), Subst(w, d, z)))
  <2> DEFINE e == diff(v, w)
  <2>1. e \in Term /\ Subst(e, d, z) = diff(Subst(v, d, z), Subst(w, d, z))
    BY <1>2, <1>4, SubstCall
  <2> HIDE DEF e
  <2>2. Subst(zero(e), d, z) = zero(Subst(e, d, z))
    BY <1>2, <2>1, SubstCall
  <2>3. QED
    BY <2>1, <2>2 DEF e
<1>6. Leads(u, Subst(Subst(s, 1, x), 0, y))
  <2>1. Defs["le"].value = Binary(s) /\ "le" \in DOMAIN Defs
    BY LibraryValues DEF LeValue
  <2>2. s \in Term
    <3> HIDE DEF diff, zero
    <3> QED BY <1>3, <1>4
  <2> HIDE DEF s, x, y
  <2>3. QED
    BY <1>1, <2>1, <2>2, BinaryLeads
<1>7. Subst(Subst(s, 1, x), 0, y) = zero(diff(x, y))
  <2> HIDE DEF x, y, diff, zero
  <2>1. Subst(s, 1, x) = zero(diff(x, Var(0)))
    BY <1>1, <1>3, <1>5, LibraryVars
  <2>2. Subst(x, 0, y) = x
    BY <1>1, SubstClosed
  <2>3. Subst(zero(diff(x, Var(0))), 0, y) = zero(diff(x, y))
    BY <1>1, <1>3, <1>5, <2>2, LibraryVars
  <2> HIDE DEF s
  <2>4. QED
    BY <2>1, <2>3
<1>8. Leads(diff(x, y), Num(Monus(a, b)))
  BY MinusLeads
<1>9. Leads(zero(diff(x, y)), zero(Num(Monus(a, b))))
  <2> HIDE DEF diff
  <2> QED BY <1>2, <1>8, LeadsRules, AppLeads
<1>10. Monus(a, b) \in Nat /\ (Monus(a, b) = 0 <=> a <= b)
  BY DEF Monus
<1>11. Leads(zero(Num(Monus(a, b))), Truth(Monus(a, b) = 0))
  BY <1>10, IsZeroLeads
<1>12. Truth(Monus(a, b) = 0) = Truth(a <= b)
  BY <1>10 DEF Truth
<1>13. Leads(u, Truth(a <= b))
  <2> HIDE DEF u, zero, s, diff
  <2> QED BY <1>6, <1>7, <1>9, <1>11, <1>12, LeadsRules
<1>14. QED
  BY <1>13 DEF u, x, y
-----------------------------------------------------------------------------
(* What a term says is what it computes.                                   *)

\* What a term may say: as many numbers as it still has room for.
Sayings ==
  {Nothing} \cup {SaysNumber(n) : n \in Nat} \cup {SaysTruth(b) : b \in BOOLEAN}
    \cup {s \in [kind : Functions, args : Seq(Nat)] : Len(s.args) < Wants(s.kind)}

\* The sayings by their kinds.
LEMMA SayingKinds ==
  /\ \A n \in Nat : SaysNumber(n) \in Sayings /\ SaysNumber(n).kind = "number" /\ SaysNumber(n).args = <<n>>
  /\ \A b \in BOOLEAN : SaysTruth(b) \in Sayings /\ SaysTruth(b).kind = "truth" /\ SaysTruth(b).args = <<b>>
  /\ Nothing \in Sayings /\ Nothing.kind = "nothing"
  /\ \A s \in Sayings :
       /\ s.kind = "number" => \E n \in Nat : s = SaysNumber(n)
       /\ s.kind = "truth" => \E b \in BOOLEAN : s = SaysTruth(b)
       /\ s.kind \in Functions => /\ s = Saying(s.kind, s.args) /\ s.args \in Seq(Nat)
                                  /\ Len(s.args) < Wants(s.kind)
<1>1. \A n : SaysNumber(n).kind = "number" /\ SaysNumber(n).args = <<n>>
  BY DEF SaysNumber, Saying
<1>2. \A b : SaysTruth(b).kind = "truth" /\ SaysTruth(b).args = <<b>>
  BY DEF SaysTruth, Saying
<1>3. Nothing.kind = "nothing"
  BY DEF Nothing, Saying
<1>4. ASSUME NEW s \in [kind : Functions, args : Seq(Nat)]
      PROVE  s = Saying(s.kind, s.args) /\ s.args \in Seq(Nat) /\ s.kind \in Functions
  BY DEF Saying
<1>5. "number" \notin Functions /\ "truth" \notin Functions /\ "nothing" \notin Functions
  BY DEF Functions
<1> HIDE DEF Functions
<1>6. QED
  BY <1>1, <1>2, <1>3, <1>4, <1>5 DEF Sayings

\* One number more than a function was given.
LEMMA GivenOne ==
  ASSUME NEW f \in Functions, NEW a \in Seq(Nat), Len(a) < Wants(f), NEW n \in Nat
  PROVE  /\ Wants(f) \in {1, 2} /\ Len(a) \in {0, 1} /\ Len(a \o <<n>>) = Len(a) + 1
         /\ Len(a) = 0 => a \o <<n>> = <<n>>
         /\ Len(a) = 1 => a \o <<n>> = <<a[1], n>> /\ a[1] \in Nat
<1>1. Wants(f) \in {1, 2}
  BY DEF Wants
<1>2. Len(a) \in {0, 1}
  <2> DEFINE l == Len(a)
             w == Wants(f)
  <2>1. l \in Nat
    BY SeqIsFunction
  <2>2. l < w /\ w \in {1, 2}
    BY <1>1
  <2> HIDE DEF l, w
  <2>3. l = 0 \/ l = 1
    BY <2>1, <2>2
  <2>4. QED
    BY <2>3 DEF l
<1>3. Len(a \o <<n>>) = Len(a) + 1
  OBVIOUS
<1>4. Len(a) = 0 => a \o <<n>> = <<n>>
  OBVIOUS
<1>5. Len(a) = 1 => a \o <<n>> = <<a[1], n>> /\ a[1] \in Nat
  <2> SUFFICES ASSUME Len(a) = 1 PROVE a \o <<n>> = <<a[1], n>> /\ a[1] \in Nat
    OBVIOUS
  <2>1. a[1] \in Nat
    <3>1. a \in [1..1 -> Nat]
      BY SeqIsFunction
    <3>2. 1 \in 1..1
      OBVIOUS
    <3>3. QED
      BY <3>1, <3>2
  <2>2. PICK m \in Nat : m = a[1]
    BY <2>1
  <2>3. a = <<m>>
    <3>1. <<m>> \in Seq(Nat) /\ Len(<<m>>) = 1 /\ <<m>>[1] = m
      OBVIOUS
    <3>2. \A i \in 1..1 : a[i] = <<m>>[i]
      BY <2>2, <3>1
    <3>3. QED
      BY <3>1, <3>2, SameSeq
  <2>4. <<m>> \o <<n>> = <<m, n>>
    <3>1. <<m>> \in Seq(Nat) /\ <<n>> \in Seq(Nat) /\ <<m, n>> \in Seq(Nat)
      OBVIOUS
    <3>2. (<<m>> \o <<n>>) \in Seq(Nat) /\ Len(<<m>> \o <<n>>) = 2 /\ Len(<<m, n>>) = 2
      BY <3>1
    <3>3. (<<m>> \o <<n>>)[1] = m /\ (<<m>> \o <<n>>)[2] = n
      BY <3>1
    <3>4. \A i \in 1..2 : i = 1 \/ i = 2
      OBVIOUS
    <3>5. \A i \in 1..2 : (<<m>> \o <<n>>)[i] = <<m, n>>[i]
      BY <3>3, <3>4
    <3>6. QED
      BY <3>1, <3>2, <3>5, SameSeq
  <2>5. QED
    BY <2>2, <2>3, <2>4
<1>6. QED
  BY <1>1, <1>2, <1>3, <1>4, <1>5

\* What is given to a function of one or two parameters.
LEMMA GivenSays ==
  /\ \A n \in Nat : /\ Given("pred", <<n>>) = SaysNumber(Monus(n, 1))
                    /\ Given("is_zero", <<n>>) = SaysTruth(n = 0)
                    /\ \A f \in {"add", "mul", "minus", "le"} : Given(f, <<n>>) = Saying(f, <<n>>)
  /\ \A m \in Nat : \A n \in Nat :
       /\ Given("add", <<m, n>>) = SaysNumber(m + n)
       /\ Given("mul", <<m, n>>) = SaysNumber(m * n)
       /\ Given("minus", <<m, n>>) = SaysNumber(Monus(m, n))
       /\ Given("le", <<m, n>>) = SaysTruth(m <= n)
<1>1. ASSUME NEW n
      PROVE  Given("pred", <<n>>) = SaysNumber(Monus(n, 1)) /\ Given("is_zero", <<n>>) = SaysTruth(n = 0)
  BY DEF Given, Wants, Computed
<1>2. ASSUME NEW n, NEW f \in {"add", "mul", "minus", "le"} PROVE Given(f, <<n>>) = Saying(f, <<n>>)
  BY DEF Given, Wants
<1>3. ASSUME NEW m, NEW n
      PROVE  /\ Given("add", <<m, n>>) = SaysNumber(m + n)
             /\ Given("mul", <<m, n>>) = SaysNumber(m * n)
             /\ Given("minus", <<m, n>>) = SaysNumber(Monus(m, n))
             /\ Given("le", <<m, n>>) = SaysTruth(m <= n)
  BY DEF Given, Wants, Computed
<1>4. QED
  BY <1>1, <1>2, <1>3

\* It is a saying.
LEMMA GivenType ==
  ASSUME NEW f \in Functions, NEW a \in Seq(Nat), Len(a) < Wants(f), NEW n \in Nat
  PROVE  Given(f, a \o <<n>>) \in Sayings
<1>0. /\ Wants(f) \in {1, 2} /\ Len(a) \in {0, 1}
      /\ Len(a) = 0 => a \o <<n>> = <<n>>
      /\ Len(a) = 1 => a \o <<n>> = <<a[1], n>> /\ a[1] \in Nat
  BY GivenOne
<1>1. \A k \in Nat : SaysNumber(k) \in Sayings
  BY SayingKinds
<1>2. \A b \in BOOLEAN : SaysTruth(b) \in Sayings
  BY SayingKinds
<1>3. \A g \in {"add", "mul", "minus", "le"} : Saying(g, <<n>>) \in Sayings
  <2> SUFFICES ASSUME NEW g \in {"add", "mul", "minus", "le"} PROVE Saying(g, <<n>>) \in Sayings
    OBVIOUS
  <2>1. g \in Functions /\ Wants(g) = 2 /\ <<n>> \in Seq(Nat) /\ Len(<<n>>) = 1
    BY DEF Functions, Wants
  <2>2. Saying(g, <<n>>) \in [kind : Functions, args : Seq(Nat)]
    BY <2>1 DEF Saying
  <2>3. Saying(g, <<n>>).kind = g /\ Saying(g, <<n>>).args = <<n>>
    BY DEF Saying
  <2> HIDE DEF Functions
  <2>4. Len(Saying(g, <<n>>).args) < Wants(Saying(g, <<n>>).kind)
    <3> DEFINE w == Saying(g, <<n>>)
    <3>1. Len(w.args) = Len(<<n>>) /\ Wants(w.kind) = Wants(g)
      BY <2>3, Zenon
    <3>2. Len(w.args) = 1 /\ Wants(w.kind) = 2
      BY <2>1, <3>1, Zenon
    <3> HIDE DEF w
    <3>3. Len(w.args) < Wants(w.kind)
      BY <3>2
    <3>4. QED
      BY <3>3 DEF w
  <2>5. QED
    BY <2>2, <2>4 DEF Sayings
<1>4. CASE Len(a) = 0
  <2>1. a \o <<n>> = <<n>>
    BY <1>0, <1>4
  <2>2. CASE f = "pred"
    <3>1. Monus(n, 1) \in Nat
      BY DEF Monus
    <3>2. QED
      BY <1>1, <2>1, <2>2, <3>1, GivenSays
  <2>3. CASE f = "is_zero"
    <3>1. (n = 0) \in BOOLEAN
      OBVIOUS
    <3>2. QED
      BY <1>2, <2>1, <2>3, <3>1, GivenSays
  <2>4. CASE f \in {"add", "mul", "minus", "le"}
    BY <1>3, <2>1, <2>4, GivenSays
  <2>5. QED
    BY <2>2, <2>3, <2>4 DEF Functions
<1>5. CASE Len(a) = 1
  <2> DEFINE m == a[1]
  <2>1. a \o <<n>> = <<m, n>> /\ m \in Nat
    BY <1>0, <1>5
  <2>2. f \in {"add", "mul", "minus", "le"}
    BY <1>5 DEF Functions, Wants
  <2> HIDE DEF m
  <2>3. m + n \in Nat /\ m * n \in Nat /\ Monus(m, n) \in Nat
    BY <2>1 DEF Monus
  <2>4. (m <= n) \in BOOLEAN
    BY <2>1
  <2>5. CASE f = "add"
    <3> DEFINE k == m + n
    <3>1. Given("add", <<m, n>>) = SaysNumber(k)
      BY <2>1, GivenSays
    <3>2. k \in Nat
      BY <2>3
    <3> HIDE DEF k
    <3>3. SaysNumber(k) \in Sayings
      BY <1>1, <3>2, Zenon
    <3>4. Given(f, a \o <<n>>) = SaysNumber(k)
      BY <2>1, <2>5, <3>1, Zenon
    <3>5. QED
      BY <3>3, <3>4, Zenon
  <2>6. CASE f = "mul"
    <3> DEFINE k == m * n
    <3>1. Given("mul", <<m, n>>) = SaysNumber(k)
      BY <2>1, GivenSays
    <3>2. k \in Nat
      BY <2>3
    <3> HIDE DEF k
    <3>3. SaysNumber(k) \in Sayings
      BY <1>1, <3>2, Zenon
    <3>4. Given(f, a \o <<n>>) = SaysNumber(k)
      BY <2>1, <2>6, <3>1, Zenon
    <3>5. QED
      BY <3>3, <3>4, Zenon
  <2>7. CASE f = "minus"
    <3> DEFINE k == Monus(m, n)
    <3>1. Given("minus", <<m, n>>) = SaysNumber(k)
      BY <2>1, GivenSays
    <3>2. k \in Nat
      BY <2>3
    <3> HIDE DEF k
    <3>3. SaysNumber(k) \in Sayings
      BY <1>1, <3>2, Zenon
    <3>4. Given(f, a \o <<n>>) = SaysNumber(k)
      BY <2>1, <2>7, <3>1, Zenon
    <3>5. QED
      BY <3>3, <3>4, Zenon
  <2>8. CASE f = "le"
    <3> DEFINE k == m <= n
    <3>1. Given("le", <<m, n>>) = SaysTruth(k)
      BY <2>1, GivenSays
    <3>2. k \in BOOLEAN
      BY <2>4
    <3> HIDE DEF k
    <3>3. SaysTruth(k) \in Sayings
      BY <1>2, <3>2, Zenon
    <3>4. Given(f, a \o <<n>>) = SaysTruth(k)
      BY <2>1, <2>8, <3>1, Zenon
    <3>5. QED
      BY <3>3, <3>4, Zenon
  <2>9. QED
    BY <2>2, <2>5, <2>6, <2>7, <2>8
<1>6. QED
  BY <1>0, <1>4, <1>5

\* What an application says.
LEMMA AppSaysType ==
  ASSUME NEW p \in Sayings, NEW q \in Sayings
  PROVE  /\ AppSays(p, q) \in Sayings
         /\ \/ AppSays(p, q) = Nothing
            \/ \E f \in Functions : \E a \in Seq(Nat) : \E n \in Nat :
                 p = Saying(f, a) /\ q = SaysNumber(n) /\ Len(a) < Wants(f) /\ AppSays(p, q) = Given(f, a \o <<n>>)
<1>1. CASE p.kind \in Functions /\ q.kind = "number"
  <2>1. /\ p = Saying(p.kind, p.args) /\ p.args \in Seq(Nat) /\ Len(p.args) < Wants(p.kind)
    BY <1>1, SayingKinds
  <2>2. PICK n \in Nat : q = SaysNumber(n) /\ q.args = <<n>>
    BY <1>1, SayingKinds
  <2>3. AppSays(p, q) = Given(p.kind, p.args \o <<n>>)
    BY <1>1, <2>2 DEF AppSays
  <2>4. Given(p.kind, p.args \o <<n>>) \in Sayings
    BY <1>1, <2>1, GivenType
  <2> HIDE DEF Functions
  <2>5. QED
    BY <1>1, <2>1, <2>2, <2>3, <2>4
<1>2. CASE ~(p.kind \in Functions /\ q.kind = "number")
  BY <1>2, SayingKinds DEF AppSays
<1>3. QED
  BY <1>1, <1>2

\* What a term says is made of what its children say.
LEMMA NodeSaysType ==
  ASSUME IsTermSet(Term), NEW u \in Term, NEW ks \in Seq(Sayings), Len(ks) = Len(u.kids)
  PROVE  /\ NodeSays(u, ks) \in Sayings
         /\ \/ NodeSays(u, ks) = Nothing
            \/ u.op = "Zero" /\ NodeSays(u, ks) = SaysNumber(0)
            \/ /\ u.op = "Succ" /\ Len(ks) = 1
               /\ \E n \in Nat : ks[1] = SaysNumber(n) /\ NodeSays(u, ks) = SaysNumber(n + 1)
            \/ u.op = "Const" /\ \E f \in Functions : u.name[1] = f /\ NodeSays(u, ks) = Saying(f, <<>>)
            \/ u.op = "App" /\ Len(ks) = 2 /\ NodeSays(u, ks) = AppSays(ks[1], ks[2])
<1>1. CASE u.op = "Zero"
  <2>1. NodeSays(u, ks) = SaysNumber(0)
    BY <1>1 DEF NodeSays
  <2>2. QED
    BY <1>1, <2>1, SayingKinds
<1>2. CASE u.op = "Succ" /\ ks[1].kind = "number"
  <2>1. Len(ks) = 1
    BY <1>2, Arities
  <2>2. ks[1] \in Sayings
    BY <2>1
  <2>3. PICK n \in Nat : ks[1] = SaysNumber(n) /\ ks[1].args = <<n>>
    BY <1>2, <2>2, SayingKinds
  <2>4. NodeSays(u, ks) = SaysNumber(ks[1].args[1] + 1)
    BY <1>2 DEF NodeSays
  <2>5. ks[1].args[1] = n /\ n + 1 \in Nat
    BY <2>3
  <2>6. QED
    BY <1>2, <2>1, <2>3, <2>4, <2>5, SayingKinds
<1>3. CASE u.op = "Const" /\ u.name[1] \in Functions
  <2> DEFINE f == u.name[1]
  <2> HIDE DEF f
  <2>0. f \in Functions /\ f = u.name[1]
    BY <1>3 DEF f
  <2>1. NodeSays(u, ks) = Saying(f, <<>>)
    BY <1>3, <2>0 DEF NodeSays
  <2>2. <<>> \in Seq(Nat) /\ Len(<<>>) = 0 /\ Wants(f) \in {1, 2}
    BY DEF Wants
  <2>3. Saying(f, <<>>) \in [kind : Functions, args : Seq(Nat)]
    BY <2>0, <2>2 DEF Saying
  <2>4. Saying(f, <<>>).kind = f /\ Saying(f, <<>>).args = <<>>
    BY DEF Saying
  <2> HIDE DEF Functions
  <2>5. Len(Saying(f, <<>>).args) < Wants(Saying(f, <<>>).kind)
    BY <2>2, <2>4
  <2>6. Saying(f, <<>>) \in Sayings
    BY <2>3, <2>5 DEF Sayings
  <2>7. QED
    BY <1>3, <2>0, <2>1, <2>6
<1>4. CASE u.op = "App"
  <2>1. Len(ks) = 2
    BY <1>4, Arities
  <2>2. ks[1] \in Sayings /\ ks[2] \in Sayings
    BY <2>1
  <2>3. NodeSays(u, ks) = AppSays(ks[1], ks[2])
    BY <1>4 DEF NodeSays
  <2>4. QED
    BY <1>4, <2>1, <2>2, <2>3, AppSaysType
<1>5. CASE /\ u.op # "Zero" /\ ~(u.op = "Succ" /\ ks[1].kind = "number")
           /\ ~(u.op = "Const" /\ u.name[1] \in Functions) /\ u.op # "App"
  <2>1. NodeSays(u, ks) = Nothing
    BY <1>5 DEF NodeSays
  <2>2. QED
    BY <2>1, SayingKinds
<1>6. QED
  BY <1>1, <1>2, <1>3, <1>4, <1>5

\* `Says` is what its recursive definition says.
LEMMA SaysDef ==
  ASSUME IsTermSet(Term), NEW u \in Term
  PROVE  /\ Says[u] \in Sayings
         /\ \A i \in 1..Len(u.kids) : Says[u.kids[i]] \in Sayings
         /\ Says[u] = NodeSays(u, [i \in 1..Len(u.kids) |-> Says[u.kids[i]]])
<1> DEFINE S == Sayings
           G == [v \in Term |-> [ks \in Seq(S) |-> NodeSays(v, ks)]]
           Body(g, v) == NodeSays(v, [i \in DOMAIN v.kids |-> g[v.kids[i]]])
           Is(g) == g = [v \in Term |-> Body(g, v)]
<1> HIDE DEF S
<1>1. Makes(G, S)
  <2>1. \A v \in Term : \A ks \in Seq(S) : Len(ks) = Len(v.kids) => G[v][ks] \in S
    BY NodeSaysType DEF S
  <2> HIDE DEF G
  <2>2. QED
    BY <2>1 DEF Makes
<1>2. PICK f : IsFold(f, S, G)
  <2> HIDE DEF G
  <2> QED BY <1>1, TermRecursion
<1>3. f \in [Term -> S]
  <2> HIDE DEF G
  <2> QED BY <1>2 DEF IsFold
<1>4. ASSUME NEW v \in Term PROVE f[v] = Body(f, v)
  <2> DEFINE ks == [i \in 1..Len(v.kids) |-> f[v.kids[i]]]
  <2>1. Len(v.kids) \in Nat /\ ks \in [1..Len(v.kids) -> S] /\ DOMAIN v.kids = 1..Len(v.kids)
    BY <1>3, TermFields
  <2>2. ks \in Seq(S)
    <3> HIDE DEF ks
    <3> QED BY <2>1, FunctionIsSeq
  <2>3. f[v] = G[v][ks]
    <3> HIDE DEF G
    <3> QED BY <1>2 DEF IsFold
  <2>4. G[v][ks] = NodeSays(v, ks)
    <3> HIDE DEF ks
    <3> QED BY <2>2
  <2>5. Body(f, v) = NodeSays(v, ks)
    BY <2>1
  <2>6. QED
    <3> HIDE DEF G, ks, Body
    <3> QED BY <2>3, <2>4, <2>5
<1>5. Is(f)
  <2> HIDE DEF Body
  <2>1. f = [v \in Term |-> Body(f, v)]
    BY <1>3, <1>4
  <2>2. QED
    BY <2>1
<1>6. PICK h : h = Says /\ Is(h)
  <2>1. Says = CHOOSE g : Is(g)
    BY DEF Says
  <2> HIDE DEF Is
  <2>2. QED
    BY <1>5, <2>1
<1>7. ASSUME NEW v \in Term PROVE h[v] = Body(h, v)
  <2> HIDE DEF Body
  <2>1. QED
    BY <1>6, Zenon
<1> HIDE DEF Is
<1>8. \A v \in Term : h[v] \in S
  <2> DEFINE P == {v \in Term : h[v] \in S}
  <2>1. ASSUME NEW v \in Term, \A i \in 1..Len(v.kids) : v.kids[i] \in P PROVE v \in P
    <3> DEFINE ks == [i \in 1..Len(v.kids) |-> h[v.kids[i]]]
    <3>1. Len(v.kids) \in Nat /\ DOMAIN v.kids = 1..Len(v.kids)
      BY TermFields
    <3>2. ks \in [1..Len(v.kids) -> S]
      BY <2>1
    <3>3. h[v] = NodeSays(v, ks)
      BY <1>7, <3>1
    <3> HIDE DEF ks, P
    <3>4. ks \in Seq(S) /\ Len(ks) = Len(v.kids)
      BY <3>1, <3>2, FunctionIsSeq
    <3>5. h[v] \in S
      BY <3>3, <3>4, NodeSaysType DEF S
    <3>6. QED
      BY <3>5 DEF P
  <2> HIDE DEF P
  <2>2. P \in SUBSET Term
    BY DEF P
  <2>3. \A v \in Term : v \in P
    BY <2>1, <2>2, TermInduction
  <2>4. QED
    BY <2>3 DEF P
<1>9. h[u] = NodeSays(u, [i \in 1..Len(u.kids) |-> h[u.kids[i]]])
  <2>1. DOMAIN u.kids = 1..Len(u.kids)
    BY TermFields
  <2>2. QED
    BY <1>7, <2>1
<1>10. \A i \in 1..Len(u.kids) : h[u.kids[i]] \in S
  BY <1>8, KidIsTerm
<1>11. QED
  BY <1>6, <1>8, <1>9, <1>10 DEF S

\* The function a saying is of, given the numbers it was given.
Callee(s) == IF Len(s.args) = 0 THEN Const(s.kind) ELSE App(Const(s.kind), Num(s.args[1]))
\* The reduction that shows that u says s.
Shown(u, s) ==
  /\ s.kind = "number" => Leads(u, Num(s.args[1]))
  /\ s.kind = "truth" => Leads(u, Truth(s.args[1]))
  /\ s.kind \in Functions => Leads(u, Callee(s))

\* What it takes to show a saying.
LEMMA ShownKinds ==
  ASSUME NEW u
  PROVE  /\ Shown(u, Nothing)
         /\ \A k \in Nat : Shown(u, SaysNumber(k)) <=> Leads(u, Num(k))
         /\ \A b \in BOOLEAN : Shown(u, SaysTruth(b)) <=> Leads(u, Truth(b))
         /\ \A f \in Functions : Shown(u, Saying(f, <<>>)) <=> Leads(u, Const(f))
         /\ \A f \in Functions : \A n \in Nat :
              Shown(u, Saying(f, <<n>>)) <=> Leads(u, App(Const(f), Num(n)))
<1>1. "number" \notin Functions /\ "truth" \notin Functions /\ "nothing" \notin Functions
  BY DEF Functions
<1> HIDE DEF Functions
<1>2. Shown(u, Nothing)
  BY <1>1, SayingKinds DEF Shown
<1>3. ASSUME NEW k \in Nat PROVE Shown(u, SaysNumber(k)) <=> Leads(u, Num(k))
  <2>1. SaysNumber(k).kind = "number" /\ SaysNumber(k).args = <<k>>
    BY SayingKinds
  <2>2. SaysNumber(k).args[1] = k
    BY <2>1
  <2> DEFINE s == SaysNumber(k)
  <2>3. s.kind = "number" /\ s.args[1] = k
    BY <2>1, <2>2
  <2> HIDE DEF s
  <2>4. Shown(u, s) <=> Leads(u, Num(k))
    BY <1>1, <2>3 DEF Shown
  <2>5. QED
    BY <2>4 DEF s
<1>4. ASSUME NEW b \in BOOLEAN PROVE Shown(u, SaysTruth(b)) <=> Leads(u, Truth(b))
  <2>1. SaysTruth(b).kind = "truth" /\ SaysTruth(b).args = <<b>>
    BY SayingKinds
  <2>2. SaysTruth(b).args[1] = b
    BY <2>1
  <2> DEFINE s == SaysTruth(b)
  <2>3. s.kind = "truth" /\ s.args[1] = b
    BY <2>1, <2>2
  <2> HIDE DEF s
  <2>4. Shown(u, s) <=> Leads(u, Truth(b))
    BY <1>1, <2>3 DEF Shown
  <2>5. QED
    BY <2>4 DEF s
<1>5. ASSUME NEW f \in Functions PROVE Shown(u, Saying(f, <<>>)) <=> Leads(u, Const(f))
  <2> DEFINE s == Saying(f, <<>>)
  <2>1. s.kind = f /\ s.args = <<>> /\ Len(<<>>) = 0
    BY DEF Saying
  <2> HIDE DEF s
  <2>2. Callee(s) = Const(f)
    BY <2>1 DEF Callee
  <2>3. Shown(u, s) <=> Leads(u, Const(f))
    BY <1>1, <2>1, <2>2 DEF Shown
  <2>4. QED
    BY <2>3 DEF s
<1>6. ASSUME NEW f \in Functions, NEW n \in Nat
      PROVE  Shown(u, Saying(f, <<n>>)) <=> Leads(u, App(Const(f), Num(n)))
  <2> DEFINE s == Saying(f, <<n>>)
  <2>1. s.kind = f /\ s.args = <<n>>
    BY DEF Saying
  <2> HIDE DEF s
  <2>2. Len(s.args) = 1 /\ s.args[1] = n
    BY <2>1
  <2>3. Callee(s) = App(Const(f), Num(n))
    BY <2>1, <2>2 DEF Callee
  <2>4. Shown(u, s) <=> Leads(u, App(Const(f), Num(n)))
    BY <1>1, <2>1, <2>3 DEF Shown
  <2>5. QED
    BY <2>4 DEF s
<1>7. QED
  BY <1>2, <1>3, <1>4, <1>5, <1>6

\* A function given its first number.
LEMMA FirstShown ==
  ASSUME IsTermSet(Term), LibraryClosed, HasLibrary, NEW f \in Functions, NEW n \in Nat,
         NEW u, Leads(u, App(Const(f), Num(n)))
  PROVE  Shown(u, Given(f, <<n>>))
<1>1. CASE f = "pred"
  <2> DEFINE k == Monus(n, 1)
  <2>1. k \in Nat
    BY DEF Monus
  <2>2. Leads(App(Const("pred"), Num(n)), Num(k))
    BY PredLeads
  <2>3. Given(f, <<n>>) = SaysNumber(k)
    BY <1>1, GivenSays
  <2> HIDE DEF k
  <2>4. Leads(u, Num(k))
    BY <1>1, <2>2, LeadsRules, Zenon
  <2>5. QED
    BY <2>1, <2>3, <2>4, ShownKinds
<1>2. CASE f = "is_zero"
  <2> DEFINE b == n = 0
  <2>1. b \in BOOLEAN
    OBVIOUS
  <2>2. Leads(App(Const("is_zero"), Num(n)), Truth(b))
    BY IsZeroLeads
  <2>3. Given(f, <<n>>) = SaysTruth(b)
    BY <1>2, GivenSays
  <2> HIDE DEF b
  <2>4. Leads(u, Truth(b))
    BY <1>2, <2>2, LeadsRules, Zenon
  <2>5. QED
    BY <2>1, <2>3, <2>4, ShownKinds, Zenon
<1>3. CASE f \in {"add", "mul", "minus", "le"}
  <2>1. Given(f, <<n>>) = Saying(f, <<n>>)
    BY <1>3, GivenSays
  <2>2. QED
    BY <2>1, ShownKinds
<1>4. QED
  BY <1>1, <1>2, <1>3 DEF Functions

\* A function given its second number.
LEMMA SecondShown ==
  ASSUME IsTermSet(Term), LibraryClosed, HasLibrary, NEW f \in {"add", "mul", "minus", "le"},
         NEW m \in Nat, NEW n \in Nat, NEW u, Leads(u, App2(Const(f), Num(m), Num(n)))
  PROVE  Shown(u, Given(f, <<m, n>>))
<1>0. Const(f) \in Term
  <2>1. App(App(Const(f), Num(m)), Num(n)) \in Term
    BY LeadsRules DEF App2
  <2>2. QED
    BY <2>1, TermParts
<1>1. ASSUME NEW k \in Nat, Leads(App2(Const(f), Num(m), Num(n)), Num(k)), Given(f, <<m, n>>) = SaysNumber(k)
      PROVE  Shown(u, Given(f, <<m, n>>))
  <2>1. Leads(u, Num(k))
    BY <1>1, LeadsRules, Zenon
  <2>2. QED
    BY <1>1, <2>1, ShownKinds
<1>2. CASE f = "add"
  <2> DEFINE k == m + n
  <2>1. k \in Nat /\ Given(f, <<m, n>>) = SaysNumber(k)
    BY <1>2, GivenSays
  <2>2. Leads(App2(Const(f), Num(m), Num(n)), Num(k))
    BY <1>0, <1>2, AddLeads
  <2> HIDE DEF k
  <2>3. QED
    BY <1>1, <2>1, <2>2
<1>3. CASE f = "mul"
  <2> DEFINE k == m * n
  <2>1. k \in Nat /\ Given(f, <<m, n>>) = SaysNumber(k)
    BY <1>3, GivenSays
  <2>2. Leads(App2(Const(f), Num(m), Num(n)), Num(k))
    BY <1>0, <1>3, MulLeads
  <2> HIDE DEF k
  <2>3. QED
    BY <1>1, <2>1, <2>2
<1>4. CASE f = "minus"
  <2> DEFINE k == Monus(m, n)
  <2>0. k \in Nat
    BY DEF Monus
  <2>1. Given(f, <<m, n>>) = SaysNumber(k)
    BY <1>4, GivenSays
  <2>2. Leads(App2(Const(f), Num(m), Num(n)), Num(k))
    BY <1>4, MinusLeads
  <2> HIDE DEF k
  <2>3. QED
    BY <1>1, <2>0, <2>1, <2>2
<1>5. CASE f = "le"
  <2> DEFINE b == m <= n
  <2>0. b \in BOOLEAN
    OBVIOUS
  <2>1. Given(f, <<m, n>>) = SaysTruth(b)
    BY <1>5, GivenSays
  <2>2. Leads(App2(Const(f), Num(m), Num(n)), Truth(b))
    BY <1>0, <1>5, LeLeads
  <2> HIDE DEF b
  <2>3. Leads(u, Truth(b))
    BY <2>2, LeadsRules, Zenon
  <2>4. QED
    BY <2>0, <2>1, <2>3, ShownKinds, Zenon
<1>6. QED
  BY <1>2, <1>3, <1>4, <1>5

\* A function given one number more.
LEMMA CallShown ==
  ASSUME IsTermSet(Term), LibraryClosed, HasLibrary, NEW f \in Functions, NEW a \in Seq(Nat),
         Len(a) < Wants(f), NEW n \in Nat,
         NEW u, Shown(u, Saying(f, a)), NEW x, Shown(x, SaysNumber(n))
  PROVE  Shown(App(u, x), Given(f, a \o <<n>>))
<1>0. /\ Wants(f) \in {1, 2} /\ Len(a) \in {0, 1}
      /\ Len(a) = 0 => a \o <<n>> = <<n>>
      /\ Len(a) = 1 => a \o <<n>> = <<a[1], n>> /\ a[1] \in Nat
  BY GivenOne
<1>1. Leads(x, Num(n))
  BY ShownKinds
<1>2. Saying(f, a).kind = f /\ Saying(f, a).args = a
  BY DEF Saying
<1>3. Leads(u, Callee(Saying(f, a)))
  <2> HIDE DEF Functions
  <2> QED BY <1>2 DEF Shown
<1>4. CASE Len(a) = 0
  <2>1. Callee(Saying(f, a)) = Const(f)
    BY <1>2, <1>4 DEF Callee
  <2>2. Leads(App(u, x), App(Const(f), Num(n)))
    BY <1>1, <1>3, <2>1, AppLeads
  <2> HIDE DEF Functions
  <2>3. QED
    BY <1>0, <1>4, <2>2, FirstShown
<1>5. CASE Len(a) = 1
  <2> DEFINE m == a[1]
  <2>1. a \o <<n>> = <<m, n>> /\ m \in Nat
    BY <1>0, <1>5
  <2>2. Callee(Saying(f, a)) = App(Const(f), Num(m))
    BY <1>2, <1>5 DEF Callee
  <2>3. f \in {"add", "mul", "minus", "le"}
    BY <1>5 DEF Functions, Wants
  <2> HIDE DEF m
  <2>4. Leads(App(u, x), App2(Const(f), Num(m), Num(n)))
    BY <1>1, <1>3, <2>2, AppLeads DEF App2
  <2> HIDE DEF Functions
  <2>5. Shown(App(u, x), Given(f, <<m, n>>))
    BY <2>1, <2>3, <2>4, SecondShown
  <2>6. QED
    BY <2>1, <2>5
<1>6. QED
  BY <1>0, <1>4, <1>5

\* A term computes what it says.
LEMMA SaysShown ==
  ASSUME IsTermSet(Term), LibraryClosed, HasLibrary
  PROVE  \A u \in Term : Shown(u, Says[u])
<1> DEFINE P == {u \in Term : Shown(u, Says[u])}
<1>1. ASSUME NEW u \in Term, \A i \in 1..Len(u.kids) : u.kids[i] \in P PROVE u \in P
  <2> DEFINE ks == [i \in 1..Len(u.kids) |-> Says[u.kids[i]]]
  <2>1. /\ Says[u] = NodeSays(u, ks)
        /\ \A i \in 1..Len(u.kids) : Says[u.kids[i]] \in Sayings /\ Shown(u.kids[i], Says[u.kids[i]])
    BY <1>1, SaysDef
  <2>2. Len(u.kids) \in Nat /\ ks \in [1..Len(u.kids) -> Sayings]
    BY <2>1, TermFields
  <2>3. \A i \in 1..Len(u.kids) : ks[i] \in Sayings /\ Shown(u.kids[i], ks[i])
    BY <2>1
  <2> HIDE DEF P, ks, Shown
  <2>4. ks \in Seq(Sayings) /\ Len(ks) = Len(u.kids)
    BY <2>2, FunctionIsSeq
  <2>5. u = Node(u.op, u.n, u.name, u.kids) /\ Shaped(u) /\ u.name \in Seq(STRING) /\ u.kids \in Seq(Term)
    BY TermFields
  <2>6. CASE NodeSays(u, ks) = Nothing
    BY <2>1, <2>6, ShownKinds DEF P
  <2>7. CASE u.op = "Zero" /\ NodeSays(u, ks) = SaysNumber(0)
    <3>1. Zero \in Term /\ Zero.op = "Zero" /\ Zero.n = 0 /\ Zero.name = <<>> /\ Len(Zero.kids) = 0
      BY Constants0 DEF Zero, Leaf, Node
    <3>2. u.n = 0 /\ u.name = <<>> /\ Len(u.kids) = 0
      BY <2>5, <2>7, Arities DEF Shaped
    <3>3. u = Zero
      BY <2>7, <3>1, <3>2, SameTerm
    <3>4. Leads(u, Num(0))
      BY <3>3, LeadsRules, NumeralDef
    <3>5. PICK z \in Nat : z = 0
      OBVIOUS
    <3>6. Shown(u, SaysNumber(z))
      BY <3>4, <3>5, ShownKinds
    <3>7. QED
      BY <2>1, <2>7, <3>5, <3>6 DEF P
  <2>8. CASE /\ u.op = "Succ" /\ Len(ks) = 1
             /\ \E n \in Nat : ks[1] = SaysNumber(n) /\ NodeSays(u, ks) = SaysNumber(n + 1)
    <3>1. PICK n \in Nat : ks[1] = SaysNumber(n) /\ NodeSays(u, ks) = SaysNumber(n + 1)
      BY <2>8
    <3> DEFINE x == u.kids[1]
               m == n + 1
    <3>2. Len(u.kids) = 1 /\ x \in Term /\ Shown(x, SaysNumber(n))
      <4>1. Len(u.kids) = 1 /\ 1 \in 1..Len(u.kids)
        BY <2>4, <2>8
      <4>2. Shown(x, ks[1])
        BY <2>3, <4>1
      <4>3. x \in Term
        BY <4>1, KidIsTerm
      <4>4. QED
        BY <3>1, <4>1, <4>2, <4>3
    <3>3. Leads(x, Num(n))
      BY <3>2, ShownKinds
    <3>4. Num(m) = Succ(Num(n)) /\ m \in Nat
      BY NumeralDef
    <3>5. /\ Succ(x) \in Term /\ Succ(x).op = "Succ" /\ Succ(x).n = 0 /\ Succ(x).name = <<>>
          /\ Succ(x).kids = <<x>>
      BY <3>2, SuccIsTerm
    <3>6. u.n = 0 /\ u.name = <<>>
      BY <2>5, <2>8 DEF Shaped
    <3>7. u = Succ(x)
      <4>1. Len(Succ(x).kids) = 1 /\ Succ(x).kids[1] = x
        BY <3>5
      <4>2. \A i \in 1..1 : u.kids[i] = Succ(x).kids[i]
        BY <4>1
      <4> DEFINE v == Succ(x)
      <4>3. v \in Term /\ u.op = v.op /\ u.n = v.n /\ u.name = v.name /\ Len(u.kids) = Len(v.kids)
        BY <2>8, <3>2, <3>5, <3>6, <4>1
      <4>4. \A i \in 1..Len(u.kids) : u.kids[i] = v.kids[i]
        BY <3>2, <4>2
      <4> HIDE DEF v
      <4>5. u = v
        BY <4>3, <4>4, SameTerm
      <4>6. QED
        BY <4>5 DEF v
    <3> HIDE DEF m, x
    <3>8. Leads(u, Num(m))
      BY <3>3, <3>4, <3>7, SuccLeadsInside
    <3>9. Shown(u, SaysNumber(m))
      BY <3>4, <3>8, ShownKinds
    <3>10. QED
      BY <2>1, <3>1, <3>9 DEF P, m
  <2>9. CASE /\ u.op = "Const"
             /\ \E f \in Functions : u.name[1] = f /\ NodeSays(u, ks) = Saying(f, <<>>)
    <3>1. PICK f \in Functions : u.name[1] = f /\ NodeSays(u, ks) = Saying(f, <<>>)
      BY <2>9
    <3>2. u.n = 0 /\ Len(u.name) = 1 /\ Len(u.kids) = 0
      BY <2>5, <2>9, Arities DEF Shaped
    <3>3. u.name = <<f>> /\ u.kids = <<>>
      <4>1. f \in STRING /\ u.name \in [1..1 -> STRING]
        BY <2>5, <3>1, <3>2, SeqIsFunction
      <4>2. <<f>> \in Seq(STRING) /\ Len(<<f>>) = 1 /\ <<f>>[1] = f
        BY <4>1
      <4>3. \A i \in 1..1 : u.name[i] = <<f>>[i]
        BY <3>1, <4>2
      <4>4. u.name = <<f>>
        BY <2>5, <3>2, <4>2, <4>3, SameSeq
      <4>5. QED
        BY <2>5, <3>2, <4>4
    <3>4. u = Const(f)
      BY <2>5, <2>9, <3>2, <3>3 DEF Const
    <3> HIDE DEF Functions
    <3>5. Leads(u, Const(f))
      BY <3>4, LeadsRules
    <3>6. Shown(u, Saying(f, <<>>))
      BY <3>5, ShownKinds
    <3>7. QED
      BY <2>1, <3>1, <3>6 DEF P
  <2>10. CASE u.op = "App" /\ Len(ks) = 2 /\ NodeSays(u, ks) = AppSays(ks[1], ks[2])
    <3> DEFINE x == u.kids[1]
               y == u.kids[2]
    <3>1. /\ Len(u.kids) = 2 /\ x \in Term /\ y \in Term
          /\ ks[1] \in Sayings /\ ks[2] \in Sayings /\ Shown(x, ks[1]) /\ Shown(y, ks[2])
      <4>1. Len(u.kids) = 2 /\ 1 \in 1..Len(u.kids) /\ 2 \in 1..Len(u.kids)
        BY <2>4, <2>10
      <4>2. ks[1] \in Sayings /\ ks[2] \in Sayings /\ Shown(x, ks[1]) /\ Shown(y, ks[2])
        BY <2>3, <4>1
      <4>3. x \in Term /\ y \in Term
        BY <4>1, KidIsTerm
      <4>4. QED
        BY <4>1, <4>2, <4>3
    <3>2. u.n = 0 /\ u.name = <<>>
      BY <2>5, <2>10 DEF Shaped
    <3>3. u = App(x, y)
      <4>1. \A i \in 1..2 : i = 1 \/ i = 2
        OBVIOUS
      <4>2. \A i \in 1..2 : u.kids[i] = App(x, y).kids[i]
        BY <3>1, <4>1, AppIsTerm
      <4>3. QED
        BY <2>10, <3>1, <3>2, <4>2, AppIsTerm, SameTerm
    <3> HIDE DEF x, y, Functions
    <3>4. CASE AppSays(ks[1], ks[2]) = Nothing
      BY <2>1, <2>10, <3>4, ShownKinds DEF P
    <3>5. CASE \E f \in Functions : \E a \in Seq(Nat) : \E n \in Nat :
                 /\ ks[1] = Saying(f, a) /\ ks[2] = SaysNumber(n) /\ Len(a) < Wants(f)
                 /\ AppSays(ks[1], ks[2]) = Given(f, a \o <<n>>)
      <4>1. PICK f \in Functions, a \in Seq(Nat), n \in Nat :
                 /\ ks[1] = Saying(f, a) /\ ks[2] = SaysNumber(n) /\ Len(a) < Wants(f)
                 /\ AppSays(ks[1], ks[2]) = Given(f, a \o <<n>>)
        BY <3>5
      <4>2. Shown(x, Saying(f, a)) /\ Shown(y, SaysNumber(n))
        BY <3>1, <4>1
      <4>3. Shown(App(x, y), Given(f, a \o <<n>>))
        BY <4>1, <4>2, CallShown
      <4>4. QED
        BY <2>1, <2>10, <3>3, <4>1, <4>3 DEF P
    <3>6. QED
      BY <3>1, <3>4, <3>5, AppSaysType
  <2>11. QED
    <3> HIDE DEF Functions
    <3> QED BY <2>4, <2>6, <2>7, <2>8, <2>9, <2>10, NodeSaysType
<1>2. P \in SUBSET Term
  OBVIOUS
<1> HIDE DEF P
<1>3. \A u \in Term : u \in P
  BY <1>1, <1>2, TermInduction
<1>4. QED
  BY <1>3 DEF P

\* An arithmetic term reduces to the term that is what it says, and that is an
\* answer.
LEMMA MeaningReached ==
  ASSUME IsTermSet(Term), LibraryClosed, HasLibrary, NEW u \in Term, Arithmetic(u)
  PROVE  Leads(u, Meaning(u)) /\ Normal(Meaning(u))
<1> DEFINE s == Says[u]
<1>1. s \in Sayings /\ Shown(u, s)
  BY SaysDef, SaysShown
<1>2. s.kind \in {"number", "truth"}
  BY DEF Arithmetic
<1>3. Meaning(u) = IF s.kind = "number" THEN Num(s.args[1]) ELSE Truth(s.args[1])
  BY DEF Meaning
<1> HIDE DEF s
<1>4. CASE s.kind = "number"
  <2>1. PICK n \in Nat : s = SaysNumber(n) /\ s.args = <<n>>
    BY <1>1, <1>4, SayingKinds
  <2>2. Meaning(u) = Num(n)
    BY <1>3, <1>4, <2>1
  <2>3. Leads(u, Num(n))
    BY <1>1, <2>1, ShownKinds
  <2>4. QED
    BY <2>2, <2>3, NumClosed
<1>5. CASE s.kind = "truth"
  <2>1. PICK b \in BOOLEAN : s = SaysTruth(b) /\ s.args = <<b>>
    BY <1>1, <1>5, SayingKinds
  <2>2. Meaning(u) = Truth(b)
    BY <1>3, <1>5, <2>1
  <2>3. Leads(u, Truth(b))
    BY <1>1, <2>1, ShownKinds
  <2>4. Normal(True) /\ Normal(False)
    BY Constants0
  <2>5. QED
    BY <2>2, <2>3, <2>4 DEF Truth
<1>6. QED
  BY <1>2, <1>4, <1>5

\* The library computes arithmetic: every reduction of an arithmetic term that
\* cannot go on has computed what the term says, a truncated subtraction
\* included, in whatever order it went (the definitions of stdlib.rs under
\* whnf_step taken anywhere).
THEOREM LibraryAnswers ==
  ASSUME Submission, HasLibrary
  PROVE  Spec => []Answers
<1>1. Init => IInv
  BY InitIInv
<1>2. IInv /\ [Next]_vars => IInv'
  BY NextIInv
<1>3. IInv => Answers
  <2> SUFFICES ASSUME IInv, Arithmetic(t0), Reducts[t] = {} PROVE t = Meaning(t0)
    BY DEF Answers
  <2> DEFINE a == Meaning(t0)
  <2>1. /\ IsTermSet(Term) /\ LibraryClosed /\ t0 \in Term /\ t \in Term
        /\ Closed(t0) /\ t \in Reached(t0)
    BY DEF Submission, IInv, Closed
  <2>2. a \in Reached(t0) /\ a \in Term /\ Reducts[a] = {}
    BY <2>1, MeaningReached DEF Leads, Normal
  <2> HIDE DEF a
  <2>3. PICK w : w \in Reached(a) /\ w \in Reached(t)
    BY <2>1, <2>2, ChurchRosser
  <2>4. w = a
    BY <2>1, <2>2, <2>3, Finished
  <2>5. w = t
    BY <2>1, <2>3, Finished
  <2>6. QED
    BY <2>4, <2>5 DEF a
<1>4. QED
  BY <1>1, <1>2, <1>3, PTL DEF Spec
-----------------------------------------------------------------------------
(* The library is closed.                                                  *)

\* A term that stands under d binders.
Within(u, d) == u \in Term /\ d \in Scopes[u]

\* A sequence of one element.
LEMMA Singleton ==
  ASSUME NEW S, NEW x \in S
  PROVE  <<x>> \in Seq(S) /\ Len(<<x>>) = 1
OBVIOUS

\* Each constructor of the library under d binders.
LEMMA WithinRules ==
  ASSUME IsTermSet(Term), NEW d \in Nat
  PROVE  /\ \A n \in Nat : n < d => Within(Var(n), d)
         /\ Within(NatT, d) /\ Within(BoolT, d) /\ Within(Zero, d) /\ Within(True, d) /\ Within(False, d)
         /\ \A c \in STRING : Within(Const(c), d)
         /\ \A e \in Nat : e = d + 1 =>
              \A a, b : Within(a, d) /\ Within(b, e) => Within(Lambda(a, b), d)
         /\ \A a, b : Within(a, d) /\ Within(b, d) => Within(App(a, b), d)
         /\ \A a : Within(a, d) => Within(Succ(a), d)
         /\ \A a, b, c, z : Within(a, d) /\ Within(b, d) /\ Within(c, d) /\ Within(z, d)
                              => Within(NatRec(a, b, c, z), d)
<1>1. ASSUME NEW n \in Nat, n < d PROVE Within(Var(n), d)
  <2>1. Var(n) \in Term /\ Var(n).op = "Var" /\ Var(n).n = n
    BY VarIsTerm
  <2>2. QED
    BY <1>1, <2>1, ScopesDef DEF Within
<1>2. \A op \in Leaves : Within(Leaf(op), d)
  BY LeafIsTerm DEF Within
<1>3. ASSUME NEW c \in STRING PROVE Within(Const(c), d)
  <2>1. Const(c) \in Term
    <3>1. <<c>> \in Seq(STRING) /\ Len(<<c>>) = 1
      BY Singleton
    <3>2. Shaped(Node("Const", 0, <<c>>, <<>>))
      BY <3>1 DEF Shaped, Node, Arity
    <3>3. "Const" \in Ops /\ 0 \in Nat /\ <<>> \in Seq(Term)
      BY DEF Ops
    <3>4. QED
      BY <3>1, <3>2, <3>3, NodeIsTerm DEF Const
  <2>2. QED
    BY <2>1, ConstIsTerm DEF Within
<1>4. ASSUME NEW u \in Term, u.op # "Var",
             \A i \in 1..Len(u.kids) : (Binders(u, i) = 0 /\ Within(u.kids[i], d))
                                         \/ (/\ Binders(u, i) = 1 /\ ~IsCase(u, i)
                                             /\ \E e \in Nat : e = d + 1 /\ Within(u.kids[i], e))
      PROVE  Within(u, d)
  <2>1. ASSUME NEW i \in 1..Len(u.kids) PROVE Inner(u, i, d) \in Scopes[u.kids[i]]
    <3>1. CASE Binders(u, i) = 0 /\ Within(u.kids[i], d)
      <4>1. d + 0 = d
        OBVIOUS
      <4>2. ~IsCase(u, i) => Inner(u, i, d) = d
        BY <3>1, <4>1 DEF Inner
      <4>3. ~IsCase(u, i)
        BY <3>1 DEF IsCase, Binders
      <4>4. QED
        BY <3>1, <4>2, <4>3 DEF Within
    <3>2. CASE /\ Binders(u, i) = 1 /\ ~IsCase(u, i)
               /\ \E e \in Nat : e = d + 1 /\ Within(u.kids[i], e)
      <4>1. PICK e \in Nat : e = d + 1 /\ Within(u.kids[i], e)
        BY <3>2
      <4>2. Inner(u, i, d) = e
        BY <3>2, <4>1 DEF Inner
      <4>3. QED
        BY <4>1, <4>2 DEF Within
    <3>3. QED
      BY <1>4, <3>1, <3>2
  <2>2. QED
    BY <1>4, <2>1, ScopesDef DEF Within
<1>5. ASSUME NEW e \in Nat, e = d + 1, NEW a, NEW b, Within(a, d), Within(b, e) PROVE Within(Lambda(a, b), d)
  <2> DEFINE u == Lambda(a, b)
  <2>1. /\ u \in Term /\ u.op = "Lambda" /\ Len(u.kids) = 2 /\ u.kids[1] = a /\ u.kids[2] = b
    BY <1>5, LambdaIsTerm DEF Within
  <2> HIDE DEF u
  <2>2. Binders(u, 1) = 0 /\ Binders(u, 2) = 1 /\ ~IsCase(u, 2)
    BY <2>1 DEF Binders, IsCase
  <2>3. \A i \in 1..2 : i = 1 \/ i = 2
    OBVIOUS
  <2>4. Within(u, d)
    BY <1>4, <1>5, <2>1, <2>2, <2>3
  <2>5. QED
    BY <2>4 DEF u
<1>6. ASSUME NEW a, NEW b, Within(a, d), Within(b, d) PROVE Within(App(a, b), d)
  <2> DEFINE u == App(a, b)
  <2>1. /\ u \in Term /\ u.op = "App" /\ Len(u.kids) = 2 /\ u.kids[1] = a /\ u.kids[2] = b
    BY <1>6, AppIsTerm DEF Within
  <2> HIDE DEF u
  <2>2. Binders(u, 1) = 0 /\ Binders(u, 2) = 0
    BY <2>1 DEF Binders
  <2>3. \A i \in 1..2 : i = 1 \/ i = 2
    OBVIOUS
  <2>4. Within(u, d)
    BY <1>4, <1>6, <2>1, <2>2, <2>3
  <2>5. QED
    BY <2>4 DEF u
<1>7. ASSUME NEW a, Within(a, d) PROVE Within(Succ(a), d)
  <2> DEFINE u == Succ(a)
  <2>1. u \in Term /\ u.op = "Succ" /\ u.kids = <<a>>
    BY <1>7, SuccIsTerm DEF Within
  <2> HIDE DEF u
  <2>2. Binders(u, 1) = 0 /\ Len(u.kids) = 1 /\ u.kids[1] = a
    BY <2>1 DEF Binders
  <2>3. \A i \in 1..1 : i = 1
    OBVIOUS
  <2>4. Within(u, d)
    BY <1>4, <1>7, <2>1, <2>2, <2>3
  <2>5. QED
    BY <2>4 DEF u
<1>8. ASSUME NEW a, NEW b, NEW c, NEW z, Within(a, d), Within(b, d), Within(c, d), Within(z, d)
      PROVE  Within(NatRec(a, b, c, z), d)
  <2> DEFINE u == NatRec(a, b, c, z)
  <2>1. /\ u \in Term /\ u.op = "NatRec" /\ Len(u.kids) = 4
        /\ u.kids[1] = a /\ u.kids[2] = b /\ u.kids[3] = c /\ u.kids[4] = z
    BY <1>8, NatRecIsTerm DEF Within
  <2> HIDE DEF u
  <2>2. \A i \in 1..4 : Binders(u, i) = 0
    BY <2>1 DEF Binders
  <2>3. \A i \in 1..4 : i = 1 \/ i = 2 \/ i = 3 \/ i = 4
    OBVIOUS
  <2>4. \A i \in 1..4 : Within(u.kids[i], d)
    BY <1>8, <2>1, <2>3
  <2>5. Within(u, d)
    BY <1>4, <2>1, <2>2, <2>4
  <2>6. QED
    BY <2>5 DEF u
<1>9. Within(NatT, d) /\ Within(BoolT, d) /\ Within(Zero, d) /\ Within(True, d) /\ Within(False, d)
  BY <1>2 DEF Leaves, NatT, BoolT, Zero, True, False
<1>10. QED
  BY <1>1, <1>3, <1>5, <1>6, <1>7, <1>8, <1>9

\* The names of the library are names.
LibraryNamed == \A c \in DOMAIN StdlibDefs : c \in STRING

\* The library is what the theorems of this module take an environment to be:
\* no definition has a variable without its binder (stdlib.rs, "closed kernel
\* terms").
THEOREM LibraryIsClosed ==
  ASSUME IsTermSet(Term), LibraryNamed
  PROVE  \A c \in DOMAIN StdlibDefs : Closed(StdlibDefs[c].value)
<1>0. PICK d0 \in Nat, d1 \in Nat, d2 \in Nat, d3 \in Nat, d4 \in Nat, d5 \in Nat :
        d0 = 0 /\ d1 = d0 + 1 /\ d2 = d1 + 1 /\ d3 = d2 + 1 /\ d4 = d3 + 1 /\ d5 = d4 + 1
  <2>1. \A d \in Nat : \E e \in Nat : e = d + 1
    OBVIOUS
  <2>2. QED
    BY <2>1
<1>1. \A c \in {"pred", "add", "mul", "minus", "is_zero", "le"} : c \in STRING
  BY DEF LibraryNamed, StdlibDefs
<1>2. ASSUME NEW d \in Nat, NEW e \in Nat, e = d + 1, NEW f \in Nat, f = e + 1,
             NEW r, Within(r, e), NEW b, Within(b, d), NEW s, Within(s, f), NEW z, Within(z, d)
      PROVE  Within(NatFold(r, b, s, z), d)
  <2>1. Within(NatT, d) /\ Within(NatT, e)
    BY <1>2, WithinRules
  <2>2. Within(Lambda(NatT, r), d) /\ Within(Lambda(NatT, s), e)
    BY <1>2, <2>1, WithinRules
  <2>3. Within(Lambda(NatT, Lambda(NatT, s)), d)
    BY <1>2, <2>1, <2>2, WithinRules
  <2>4. QED
    BY <1>2, <2>1, <2>2, <2>3, WithinRules DEF NatFold
<1>3. ASSUME NEW d \in {d1, d2, d3, d4}
      PROVE  /\ Within(NatT, d) /\ Within(BoolT, d) /\ Within(Zero, d) /\ Within(True, d)
             /\ Within(False, d) /\ Within(Var(0), d)
             /\ Within(Const("add"), d) /\ Within(Const("pred"), d)
             /\ Within(Const("minus"), d) /\ Within(Const("is_zero"), d)
             /\ \A a, b : Within(a, d) /\ Within(b, d) => Within(App(a, b), d)
             /\ \A a : Within(a, d) => Within(Succ(a), d)
  <2>1. PICK e \in Nat : e = d + 1
    BY <1>0
  <2>2. d \in Nat /\ 0 < d
    BY <1>0
  <2>3. PICK z \in Nat : z = 0
    OBVIOUS
  <2>4. Within(Var(z), d)
    BY <2>1, <2>2, <2>3, WithinRules
  <2>5. Within(Var(0), d)
    BY <2>3, <2>4
  <2>6. \A c \in STRING : Within(Const(c), d)
    BY <2>1, <2>2, WithinRules
  <2>7. /\ Within(Const("add"), d) /\ Within(Const("pred"), d)
        /\ Within(Const("minus"), d) /\ Within(Const("is_zero"), d)
    BY <1>1, <2>6
  <2>8. QED
    BY <2>1, <2>2, <2>5, <2>7, WithinRules
<1>4. ASSUME NEW d \in {d2, d3, d4} PROVE Within(Var(1), d)
  <2>1. PICK z \in Nat, e \in Nat : z = 1 /\ e = d + 1 /\ d \in Nat /\ z < d
    BY <1>0
  <2>2. Within(Var(z), d)
    BY <2>1, WithinRules
  <2>3. QED
    BY <2>1, <2>2
<1>5. Within(Var(2), d4)
  <2>1. PICK z \in Nat, e \in Nat : z = 2 /\ e = d4 + 1 /\ z < d4
    BY <1>0
  <2>2. Within(Var(z), d4)
    BY <1>0, <2>1, WithinRules
  <2>3. QED
    BY <2>1, <2>2
<1>6. ASSUME NEW d \in Nat, NEW e \in Nat, e = d + 1, NEW b, Within(b, e) PROVE Within(Lambda(NatT, b), d)
  BY <1>6, WithinRules
<1>7. \A s : /\ Within(s, d1) => Within(Unary(s), d0)
             /\ Within(s, d2) => Within(Binary(s), d0)
  <2>1. \A b : Within(b, d1) => Within(Lambda(NatT, b), d0)
    BY <1>0, <1>6
  <2>2. \A b : Within(b, d2) => Within(Lambda(NatT, b), d1)
    BY <1>0, <1>6
  <2>3. QED
    BY <2>1, <2>2 DEF Unary, Binary
<1>8. Within(PredValue, d0)
  <2>1. Within(NatFold(NatT, Zero, Var(1), Var(0)), d1)
    BY <1>0, <1>2, <1>3, <1>4
  <2>2. QED
    BY <1>7, <2>1 DEF PredValue
<1>9. Within(IsZeroValue, d0)
  <2>1. Within(NatFold(BoolT, True, False, Var(0)), d1)
    BY <1>0, <1>2, <1>3
  <2>2. QED
    BY <1>7, <2>1 DEF IsZeroValue
<1>10. Within(AddValue, d0)
  <2>1. Within(NatFold(NatT, Var(0), Succ(Var(0)), Var(1)), d2)
    BY <1>0, <1>2, <1>3, <1>4
  <2>2. QED
    BY <1>7, <2>1 DEF AddValue
<1>11. Within(MulValue, d0)
  <2>1. Within(App2(Const("add"), Var(2), Var(0)), d4)
    BY <1>3, <1>5 DEF App2
  <2>2. Within(NatFold(NatT, Zero, App2(Const("add"), Var(2), Var(0)), Var(1)), d2)
    BY <1>0, <1>2, <1>3, <1>4, <2>1
  <2>3. QED
    BY <1>7, <2>2 DEF MulValue
<1>12. Within(MinusValue, d0)
  <2>1. Within(App(Const("pred"), Var(0)), d4)
    BY <1>3
  <2>2. Within(NatFold(NatT, Var(1), App(Const("pred"), Var(0)), Var(0)), d2)
    BY <1>0, <1>2, <1>3, <1>4, <2>1
  <2>3. QED
    BY <1>7, <2>2 DEF MinusValue
<1>13. Within(LeValue, d0)
  <2>1. Within(App2(Const("minus"), Var(1), Var(0)), d2)
    BY <1>3, <1>4 DEF App2
  <2>2. Within(App(Const("is_zero"), App2(Const("minus"), Var(1), Var(0))), d2)
    BY <1>3, <2>1
  <2>3. QED
    BY <1>7, <2>2 DEF LeValue
<1>14. Within(NatT, d0)
  BY <1>0, WithinRules
<1>15. \A u : Within(u, d0) => Closed(u)
  BY <1>0 DEF Within, Closed
<1>16. ASSUME NEW c \in DOMAIN StdlibDefs
       PROVE  StdlibDefs[c].value \in {PredValue, AddValue, MulValue, MinusValue, IsZeroValue, LeValue, NatT}
  BY DEF StdlibDefs
<1>17. QED
  BY <1>8, <1>9, <1>10, <1>11, <1>12, <1>13, <1>14, <1>15, <1>16
=============================================================================
