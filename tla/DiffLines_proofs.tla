--------------------------- MODULE DiffLines_proofs ---------------------------
(***************************************************************************)
(* What the line diff and the three-way merge of go/diff.go make of any    *)
(* texts, whatever their lines and their length. The recursive functions   *)
(* are shown to follow their definitions first; LCS is then shown to be a  *)
(* longest common subsequence, and to be found whole in both texts.        *)
(***************************************************************************)
EXTENDS DiffLines, SequenceTheorems, FiniteSetTheorems, WellFoundedInduction, TLAPS

-----------------------------------------------------------------------------
(* Recursive functions.                                                    *)

\* A set of numbers has a least one.
LEMMA LeastOf ==
    ASSUME NEW T \in SUBSET Nat, T # {}
    PROVE  \E n \in T : \A m \in T : n <= m
<1>1. \E x \in T : \A y \in T : ~ (<<y, x>> \in OpToRel(<,Nat))
  <2> DEFINE R == OpToRel(<,Nat)
  <2>1. IsWellFoundedOn(R, Nat)
    BY NatLessThanWellFounded
  <2> HIDE DEF R
  <2>2. \E x \in T : \A y \in T : ~ (<<y, x>> \in R)
    BY <2>1, WFMin
  <2> QED
    BY <2>2 DEF R
<1>2. \A x \in T : \A y \in T : ~ (<<y, x>> \in OpToRel(<,Nat)) => x <= y
  BY DEF OpToRel
<1> QED
  BY <1>1, <1>2

\* A set that has 0 and with each number the next one has them all.
LEMMA AllNumbers ==
    ASSUME NEW S, 0 \in S, \A n \in Nat : n \in S => n + 1 \in S
    PROVE  Nat \subseteq S
<1> SUFFICES ASSUME Nat \ S # {} PROVE FALSE
  OBVIOUS
<1>1. PICK n \in Nat \ S : \A m \in Nat \ S : n <= m
  <2> DEFINE T == Nat \ S
  <2>1. T \in SUBSET Nat /\ T # {}
    OBVIOUS
  <2> HIDE DEF T
  <2>2. \E n \in T : \A m \in T : n <= m
    BY <2>1, LeastOf
  <2> QED
    BY <2>2 DEF T
<1> QED
  BY <1>1

\* Some member of a set is of least rank.
LEMMA LeastRank ==
    ASSUME NEW S, NEW rank \in [S -> Nat], NEW T \in SUBSET S, T # {}
    PROVE  \E x \in T : \A y \in T : rank[x] <= rank[y]
<1> DEFINE R == {rank[x] : x \in T}
<1>1. R \in SUBSET Nat /\ R # {}
  OBVIOUS
<1>2. \E n \in R : \A m \in R : n <= m
  <2> HIDE DEF R
  <2> QED
    BY <1>1, LeastOf
<1> QED
  BY <1>2

\* Two functions are the same at arguments of a smaller rank than that of x.
Alike(S, rank, x, g, h) == \A y \in S : rank[y] < rank[x] => g[y] = h[y]

\* D, of a function and an argument, depends on the function only at
\* arguments of a smaller rank.
IsRecursion(S, V, rank, D) ==
    /\ rank \in [S -> Nat]
    /\ \A g \in [S -> V], x \in S : D[<<g, x>>] \in V
    /\ \A g, h \in [S -> V], x \in S : Alike(S, rank, x, g, h) => D[<<g, x>>] = D[<<h, x>>]

\* f follows the definition D at every argument.
Solves(S, f, D) == \A x \in S : f[x] = D[<<f, x>>]

\* A recursive definition has a solution.
LEMMA RecursionHolds ==
    ASSUME NEW S, NEW V, NEW rank, NEW D, NEW some \in [S -> V], IsRecursion(S, V, rank, D)
    PROVE  \E f \in [S -> V] : Solves(S, f, D)
<1>0. /\ rank \in [S -> Nat]
      /\ \A g \in [S -> V], x \in S : D[<<g, x>>] \in V
      /\ \A g, h \in [S -> V], x \in S :
            (\A y \in S : rank[y] < rank[x] => g[y] = h[y]) => D[<<g, x>>] = D[<<h, x>>]
  BY DEF IsRecursion, Alike
<1> DEFINE Good(f, n) == \A x \in S : rank[x] < n => f[x] = D[<<f, x>>]
           Sizes == {n \in Nat : \E f \in [S -> V] : Good(f, n)}
<1>1. 0 \in Sizes
  BY <1>0 DEF Sizes
<1>2. ASSUME NEW n \in Nat, n \in Sizes PROVE n + 1 \in Sizes
  <2>1. PICK f \in [S -> V] : Good(f, n)
    BY <1>2
  <2> DEFINE g == [x \in S |-> D[<<f, x>>]]
  <2>2. g \in [S -> V]
    BY <1>0
  <2>3. \A x \in S : g[x] = D[<<f, x>>]
    OBVIOUS
  <2>4. \A x \in S : rank[x] < n => g[x] = f[x]
    BY <2>1, <2>3
  <2> HIDE DEF g
  <2>5. ASSUME NEW x \in S, rank[x] < n + 1 PROVE g[x] = D[<<g, x>>]
    <3>1. \A y \in S : rank[y] < rank[x] => f[y] = g[y]
      BY <1>0, <2>4, <2>5
    <3>2. D[<<f, x>>] = D[<<g, x>>]
      BY <1>0, <2>2, <3>1
    <3> QED
      BY <2>3, <3>2
  <2> QED
    BY <2>2, <2>5
<1>3. \A n \in Nat : \E f \in [S -> V] : Good(f, n)
  <2> HIDE DEF Good
  <2>1. Nat \subseteq Sizes
    <3> HIDE DEF Sizes
    <3> QED
      BY <1>1, <1>2, AllNumbers
  <2> QED
    BY <2>1
<1>4. ASSUME NEW f \in [S -> V], NEW g \in [S -> V], NEW n \in Nat, Good(f, n), Good(g, n)
      PROVE  \A x \in S : rank[x] < n => f[x] = g[x]
  <2> DEFINE T == {x \in S : rank[x] < n /\ f[x] # g[x]}
  <2> SUFFICES ASSUME T # {} PROVE FALSE
    OBVIOUS
  <2>1. PICK x \in T : \A y \in T : rank[x] <= rank[y]
    <3>1. T \in SUBSET S
      OBVIOUS
    <3> HIDE DEF T
    <3> QED
      BY <1>0, <3>1, LeastRank
  <2>2. \A y \in S : rank[y] < rank[x] => f[y] = g[y]
    BY <1>0, <2>1
  <2>3. D[<<f, x>>] = D[<<g, x>>]
    BY <1>0, <2>2
  <2> QED
    BY <1>4, <2>3
<1> DEFINE At(n) == CHOOSE f \in [S -> V] : Good(f, n)
           F == [x \in S |-> At(rank[x] + 1)[x]]
<1>5. \A n \in Nat : At(n) \in [S -> V] /\ Good(At(n), n)
  <2> HIDE DEF Good
  <2> QED
    BY <1>3
<1> HIDE DEF At
<1>6. F \in [S -> V]
  BY <1>0, <1>5
<1>7. ASSUME NEW x \in S PROVE F[x] = D[<<F, x>>]
  <2> DEFINE f == At(rank[x] + 1)
  <2>1. f \in [S -> V] /\ Good(f, rank[x] + 1)
    BY <1>0, <1>5
  <2>2. F[x] = f[x] /\ f[x] = D[<<f, x>>]
    BY <1>0, <2>1
  <2>3. ASSUME NEW y \in S, rank[y] < rank[x] PROVE F[y] = f[y]
    <3> DEFINE g == At(rank[y] + 1)
    <3>1. g \in [S -> V] /\ Good(g, rank[y] + 1) /\ rank[y] + 1 \in Nat
      BY <1>0, <1>5
    <3>2. Good(f, rank[y] + 1)
      BY <1>0, <2>1, <2>3
    <3> HIDE DEF f, g, Good
    <3>3. g[y] = f[y]
      BY <1>0, <1>4, <2>1, <3>1, <3>2
    <3> QED
      BY <3>3 DEF g
  <2> HIDE DEF f, F
  <2>4. D[<<f, x>>] = D[<<F, x>>]
    BY <1>0, <1>6, <2>1, <2>3
  <2> QED
    BY <2>2, <2>4
<1> QED
  BY <1>6, <1>7 DEF Solves


\* And it has no other: what follows the definition at every argument is
\* that solution.
LEMMA RecursionIsTyped ==
    ASSUME NEW S, NEW V, NEW rank, NEW D, NEW some \in [S -> V], IsRecursion(S, V, rank, D),
           NEW u,
           \A f \in [S -> V], x \in S : Alike(S, rank, x, f, u) => u[x] = D[<<f, x>>]
    PROVE  \A x \in S : u[x] \in V
<1>1. PICK f \in [S -> V] : \A x \in S : f[x] = D[<<f, x>>]
  BY RecursionHolds DEF Solves
<1> DEFINE T == {x \in S : u[x] # f[x]}
<1> SUFFICES ASSUME T # {} PROVE FALSE
  OBVIOUS
<1>2. rank \in [S -> Nat] /\ T \in SUBSET S
  BY DEF IsRecursion
<1>3. PICK x \in T : \A y \in T : rank[x] <= rank[y]
  <2> HIDE DEF T
  <2> QED
    BY <1>2, LeastRank
<1>4. \A y \in S : rank[y] \in Nat
  BY <1>2
<1>5. Alike(S, rank, x, f, u)
  BY <1>3, <1>4 DEF Alike
<1> QED
  BY <1>1, <1>5

\* The least and the largest of some numbers.
LEMMA MinIs ==
    ASSUME NEW T \in SUBSET Nat, T # {}
    PROVE  Min(T) \in T /\ \A m \in T : Min(T) <= m
<1>1. \E n \in T : \A m \in T : n <= m
  BY LeastOf
<1> QED
  BY <1>1 DEF Min

\* The largest of some numbers.
LEMMA MaxIs ==
    ASSUME NEW n \in Nat, NEW T \in SUBSET (0..n), T # {}
    PROVE  Max(T) \in T /\ \A m \in T : m <= Max(T)
<1> DEFINE U == {n - m : m \in T}
<1>1. \E u \in U : \A v \in U : u <= v
  <2>0. PICK m \in T : TRUE
    OBVIOUS
  <2>1. n - m \in U /\ \A u \in U : u \in Nat
    BY <2>0
  <2>2. U \in SUBSET Nat /\ U # {}
    BY <2>1
  <2> HIDE DEF U
  <2> QED
    BY <2>2, LeastOf
<1>2. \E x \in T : \A m \in T : n - x <= n - m
  BY <1>1
<1>3. \E x \in T : \A m \in T : x >= m
  BY <1>2
<1> QED
  BY <1>3 DEF Max

-----------------------------------------------------------------------------
(* Longest common subsequence.                                             *)

\* The table is there, holds numbers and follows its definition.
LEMMA TableIs ==
    ASSUME NEW a \in Text, NEW b \in Text
    PROVE  \E t :
             /\ \A i \in 0..Len(a), k \in 0..Len(b) :
                   /\ t[<<i, k>>] \in Nat
                   /\ t[<<i, k>>] = IF i = 0 \/ k = 0 THEN 0
                                   ELSE IF a[i] = b[k] THEN t[<<i - 1, k - 1>>] + 1
                                   ELSE Max({t[<<i - 1, k>>], t[<<i, k - 1>>]})
             /\ LCSRow(a, b) = [k \in 0..Len(b) |-> t[<<Len(a), k>>]]
<1> DEFINE S == (0..Len(a)) \X (0..Len(b))
           E(t, at) == IF at[1] = 0 \/ at[2] = 0 THEN 0
                       ELSE IF a[at[1]] = b[at[2]] THEN t[<<at[1] - 1, at[2] - 1>>] + 1
                       ELSE Max({t[<<at[1] - 1, at[2]>>], t[<<at[1], at[2] - 1>>]})
           Is(t) == t = [at \in S |-> E(t, at)]
           D == [p \in [S -> Nat] \X S |-> E(p[1], p[2])]
           rank == [at \in S |-> at[1] + at[2]]
<1>0. Len(a) \in Nat /\ Len(b) \in Nat
  BY DEF Text
<1>1. \A m, n \in Nat : Max({m, n}) \in Nat
  <2> SUFFICES ASSUME NEW m \in Nat, NEW n \in Nat PROVE Max({m, n}) \in Nat
    OBVIOUS
  <2>1. {m, n} \in SUBSET (0..(m + n)) /\ m + n \in Nat
    OBVIOUS
  <2> QED
    BY <2>1, MaxIs
<1>2. \A at \in S : /\ at = <<at[1], at[2]>> /\ at[1] \in 0..Len(a) /\ at[2] \in 0..Len(b)
                    /\ at[1] # 0 /\ at[2] # 0 =>
                         /\ <<at[1] - 1, at[2] - 1>> \in S
                         /\ <<at[1] - 1, at[2]>> \in S
                         /\ <<at[1], at[2] - 1>> \in S
  BY <1>0
<1>3. rank \in [S -> Nat] /\ \A at \in S : rank[at] = at[1] + at[2]
  BY <1>0
<1>4. \A t \in [S -> Nat], at \in S : E(t, at) \in Nat
  <2> SUFFICES ASSUME NEW t \in [S -> Nat], NEW at \in S PROVE E(t, at) \in Nat
    OBVIOUS
  <2>1. CASE at[1] = 0 \/ at[2] = 0
    BY <2>1
  <2>2. CASE at[1] # 0 /\ at[2] # 0
    <3>1. <<at[1] - 1, at[2] - 1>> \in S /\ <<at[1] - 1, at[2]>> \in S /\ <<at[1], at[2] - 1>> \in S
      BY <1>2, <2>2
    <3> HIDE DEF S
    <3>2. /\ t[<<at[1] - 1, at[2] - 1>>] \in Nat /\ t[<<at[1] - 1, at[2]>>] \in Nat
          /\ t[<<at[1], at[2] - 1>>] \in Nat
      BY <3>1
    <3>3. Max({t[<<at[1] - 1, at[2]>>], t[<<at[1], at[2] - 1>>]}) \in Nat
      BY <1>1, <3>2
    <3> QED
      BY <2>2, <3>2, <3>3
  <2> QED
    BY <2>1, <2>2
<1>5. \A t \in [S -> Nat], at \in S : D[<<t, at>>] = E(t, at)
  OBVIOUS
<1>6. ASSUME NEW t, NEW u, NEW at \in S, Alike(S, rank, at, t, u) PROVE E(t, at) = E(u, at)
  <2>1. CASE at[1] = 0 \/ at[2] = 0
    BY <2>1
  <2>2. CASE at[1] # 0 /\ at[2] # 0
    <3>1. <<at[1] - 1, at[2] - 1>> \in S /\ <<at[1] - 1, at[2]>> \in S /\ <<at[1], at[2] - 1>> \in S
      BY <1>2, <2>2
    <3>2. /\ rank[<<at[1] - 1, at[2] - 1>>] < rank[at]
          /\ rank[<<at[1] - 1, at[2]>>] < rank[at]
          /\ rank[<<at[1], at[2] - 1>>] < rank[at]
      <4>1. at[1] \in Nat /\ at[2] \in Nat
        BY <1>0, <1>2
      <4> HIDE DEF S, rank
      <4> QED
        BY <1>3, <3>1, <4>1
    <3> HIDE DEF S, rank
    <3> QED
      BY <1>6, <2>2, <3>1, <3>2 DEF Alike
  <2> QED
    BY <2>1, <2>2
<1>7. IsRecursion(S, Nat, rank, D)
  <2> HIDE DEF S, D, E, rank
  <2> QED
    BY <1>3, <1>4, <1>5, <1>6 DEF IsRecursion
<1>8. PICK t \in [S -> Nat] : \A at \in S : t[at] = E(t, at)
  <2>1. PICK some : some \in [S -> Nat]
    <3>1. [at \in S |-> 0] \in [S -> Nat]
      OBVIOUS
    <3> QED
      BY <3>1
  <2> HIDE DEF S, D, E, rank
  <2>2. \E t \in [S -> Nat] : Solves(S, t, D)
    BY <1>7, <2>1, RecursionHolds
  <2> QED
    BY <1>5, <2>2 DEF Solves
<1>9. \E u : Is(u)
  <2> HIDE DEF S, E
  <2>1. t = [at \in S |-> E(t, at)]
    BY <1>8
  <2> QED
    BY <2>1
<1>10. LCSRow(a, b) = [k \in 0..Len(b) |-> (CHOOSE u : Is(u))[<<Len(a), k>>]]
  BY Zenon DEF LCSRow
<1> DEFINE u == CHOOSE u : Is(u)
<1>11. Is(u)
  <2> HIDE DEF Is
  <2> QED
    BY <1>9, Zenon
<1> HIDE DEF u
<1>12. \A at \in S : u[at] \in Nat
  <2>1. ASSUME NEW f \in [S -> Nat], NEW at \in S, Alike(S, rank, at, f, u)
        PROVE  u[at] = D[<<f, at>>]
    <3> HIDE DEF S, D, E, rank
    <3>1. E(f, at) = E(u, at)
      BY <1>6, <2>1
    <3> QED
      BY <1>5, <1>11, <3>1
  <2>2. [at \in S |-> 0] \in [S -> Nat]
    OBVIOUS
  <2> HIDE DEF S, D, E, rank
  <2> QED
    BY <1>7, <2>1, <2>2, RecursionIsTyped
<1>13. LCSRow(a, b) = [k \in 0..Len(b) |-> u[<<Len(a), k>>]]
  BY <1>10 DEF u
<1>14. \A at \in S : u[at] = E(u, at)
  <2> HIDE DEF S, E
  <2>1. u = [at \in S |-> E(u, at)]
    BY <1>11
  <2> DEFINE w == u
  <2>2. w = [at \in S |-> E(w, at)]
    BY <2>1
  <2> HIDE DEF w
  <2>3. \A at \in S : w[at] = E(w, at)
    BY <2>2
  <2> QED
    BY <2>3 DEF w
<1>15. \A i \in 0..Len(a), k \in 0..Len(b) :
          /\ u[<<i, k>>] \in Nat
          /\ u[<<i, k>>] = IF i = 0 \/ k = 0 THEN 0
                          ELSE IF a[i] = b[k] THEN u[<<i - 1, k - 1>>] + 1
                          ELSE Max({u[<<i - 1, k>>], u[<<i, k - 1>>]})
  <2> SUFFICES ASSUME NEW i \in 0..Len(a), NEW k \in 0..Len(b)
               PROVE  /\ u[<<i, k>>] \in Nat
                      /\ u[<<i, k>>] = IF i = 0 \/ k = 0 THEN 0
                                      ELSE IF a[i] = b[k] THEN u[<<i - 1, k - 1>>] + 1
                                      ELSE Max({u[<<i - 1, k>>], u[<<i, k - 1>>]})
    OBVIOUS
  <2> DEFINE at == <<i, k>>
  <2>1. at \in S /\ at[1] = i /\ at[2] = k
    OBVIOUS
  <2>2. u[at] \in Nat /\ u[at] = E(u, at)
    <3> HIDE DEF at, S, E
    <3> QED
      BY <1>12, <1>14, <2>1
  <2>3. E(u, at) = IF i = 0 \/ k = 0 THEN 0
                   ELSE IF a[i] = b[k] THEN u[<<i - 1, k - 1>>] + 1
                   ELSE Max({u[<<i - 1, k>>], u[<<i, k - 1>>]})
    OBVIOUS
  <2> HIDE DEF E
  <2> QED
    BY <2>2, <2>3
<1> HIDE DEF S
<1> QED
  BY <1>13, <1>15

\* The last row holds numbers.
LEMMA RowIsCounts ==
    ASSUME NEW a \in Text, NEW b \in Text
    PROVE  LCSRow(a, b) \in [0..Len(b) -> Nat]
<1>1. PICK t :
        /\ \A i \in 0..Len(a), k \in 0..Len(b) :
              /\ t[<<i, k>>] \in Nat
              /\ t[<<i, k>>] = IF i = 0 \/ k = 0 THEN 0
                              ELSE IF a[i] = b[k] THEN t[<<i - 1, k - 1>>] + 1
                              ELSE Max({t[<<i - 1, k>>], t[<<i, k - 1>>]})
        /\ LCSRow(a, b) = [k \in 0..Len(b) |-> t[<<Len(a), k>>]]
  BY TableIs
<1>2. Len(a) \in 0..Len(a)
  BY DEF Text
<1>3. \A k \in 0..Len(b) : t[<<Len(a), k>>] \in Nat
  BY <1>1, <1>2
<1> DEFINE row(k) == t[<<Len(a), k>>]
<1>4. LCSRow(a, b) = [k \in 0..Len(b) |-> row(k)]
  BY <1>1
<1>5. \A k \in 0..Len(b) : row(k) \in Nat
  BY <1>3
<1> HIDE DEF row
<1> QED
  BY <1>4, <1>5

\* A text back to front.
LEMMA ReverseIs ==
    ASSUME NEW S, NEW a \in Seq(S)
    PROVE  /\ Reverse(a) \in Seq(S) /\ Len(Reverse(a)) = Len(a)
           /\ \A i \in 1..Len(a) : Reverse(a)[i] = a[Len(a) - i + 1]
BY DEF Reverse

\* A part of a text, which may be empty at either end.
LEMMA PartIs ==
    ASSUME NEW S, NEW a \in Seq(S), NEW m \in 1..Len(a) + 1, NEW n \in 0..Len(a)
    PROVE  /\ SubSeq(a, m, n) \in Seq(S)
           /\ Len(SubSeq(a, m, n)) = IF m <= n THEN n - m + 1 ELSE 0
           /\ \A i \in 1..n - m + 1 : SubSeq(a, m, n)[i] = a[m + i - 1]
<1>1. m \in Int /\ n \in Int /\ \A i \in m..n : a[i] \in S
  BY ElementOfSeq, LenProperties
<1> QED
  BY <1>1, SubSeqProperties

\* The cut that hirschberg makes is one of b, and no other does better.
LEMMA SplitIsCut ==
    ASSUME NEW a \in Text, NEW b \in Text, Len(a) > 1
    PROVE  /\ SplitOf(a, b) \in 0..Len(b)
           /\ LET mid == Len(a) \div 2
                  head == LCSRow(SubSeq(a, 1, mid), b)
                  tail == LCSRow(Reverse(SubSeq(a, mid + 1, Len(a))), Reverse(b))
              IN  \A j \in 0..Len(b) :
                     head[j] + tail[Len(b) - j]
                       <= head[SplitOf(a, b)] + tail[Len(b) - SplitOf(a, b)]
<1> DEFINE mid == Len(a) \div 2
           head == LCSRow(SubSeq(a, 1, mid), b)
           tail == LCSRow(Reverse(SubSeq(a, mid + 1, Len(a))), Reverse(b))
           n == Len(b)
           sum(k) == head[k] + tail[n - k]
           best == {k \in 0..n : \A j \in 0..n : sum(j) <= sum(k)}
<1>1. Len(a) \in Nat /\ n \in Nat /\ mid \in 1..Len(a)
  BY DEF Text
<1>2. head \in [0..n -> Nat]
  <2>1. SubSeq(a, 1, mid) \in Text
    BY <1>1, PartIs DEF Text
  <2> QED
    BY <2>1, RowIsCounts
<1>3. tail \in [0..n -> Nat]
  <2>1. SubSeq(a, mid + 1, Len(a)) \in Text
    BY <1>1, PartIs DEF Text
  <2>2. Reverse(SubSeq(a, mid + 1, Len(a))) \in Text /\ Reverse(b) \in Text /\ Len(Reverse(b)) = n
    BY <2>1, ReverseIs DEF Text
  <2> QED
    BY <2>2, RowIsCounts
<1> HIDE DEF head, tail, n, mid
<1>4. \A k \in 0..n : sum(k) \in Nat
  BY <1>1, <1>2, <1>3
<1>5. best # {}
  <2>2. \E k \in 0..n : \A j \in 0..n : sum(j) <= sum(k)
    <3> DEFINE Q == {m \in Nat : m <= n => \E k \in 0..m : \A j \in 0..m : sum(j) <= sum(k)}
    <3>1. 0 \in Q
      <4> HIDE DEF sum
      <4>1. sum(0) \in Nat /\ \A j \in 0..0 : j = 0
        BY <1>1, <1>4
      <4>2. \A j \in 0..0 : sum(j) <= sum(0)
        BY <4>1
      <4> QED
        BY <4>2
    <3>2. ASSUME NEW m \in Nat, m \in Q PROVE m + 1 \in Q
      <4> SUFFICES ASSUME m + 1 <= n PROVE \E k \in 0..m + 1 : \A j \in 0..m + 1 : sum(j) <= sum(k)
        OBVIOUS
      <4>1. m <= n
        BY <1>1
      <4>2. PICK k \in 0..m : \A j \in 0..m : sum(j) <= sum(k)
        BY <3>2, <4>1
      <4>3. sum(m + 1) \in Nat /\ sum(k) \in Nat /\ \A j \in 0..m : sum(j) \in Nat
        BY <1>1, <1>4, <4>1
      <4> HIDE DEF sum
      <4>4. CASE sum(m + 1) <= sum(k)
        BY <4>2, <4>4
      <4>5. CASE ~(sum(m + 1) <= sum(k))
        <5>1. \A j \in 0..m + 1 : sum(j) <= sum(m + 1)
          BY <4>2, <4>3, <4>5
        <5> QED
          BY <5>1
      <4> QED
        BY <4>4, <4>5
    <3>3. Nat \subseteq Q
      <4> HIDE DEF Q
      <4> QED
        BY <3>1, <3>2, AllNumbers
    <3>4. n \in Q
      BY <1>1, <3>3
    <3> HIDE DEF sum
    <3> QED
      BY <3>4
  <2> HIDE DEF sum
  <2> QED
    BY <2>2
<1>6. SplitOf(a, b) = Max(best)
  BY DEF SplitOf, best, sum, head, tail, n, mid
<1>7. best \in SUBSET (0..n)
  OBVIOUS
<1>8. SplitOf(a, b) \in best
  <2> HIDE DEF best
  <2> QED
    BY <1>1, <1>5, <1>6, <1>7, MaxIs
<1>9. SplitOf(a, b) \in 0..n /\ \A j \in 0..n : sum(j) <= sum(SplitOf(a, b))
  <2> HIDE DEF sum
  <2> QED
    BY <1>8
<1> QED
  BY <1>9 DEF n, mid, head, tail

\* The halves of a text.
Mid(a) == Len(a) \div 2
Half1(a) == SubSeq(a, 1, Mid(a))
Half2(a) == SubSeq(a, Mid(a) + 1, Len(a))
Part1(a, b) == SubSeq(b, 1, SplitOf(a, b))
Part2(a, b) == SubSeq(b, SplitOf(a, b) + 1, Len(b))

\* Both halves of a text of more than one line are shorter than it, and have
\* its lines.
LEMMA HalvesAre ==
    ASSUME NEW a \in Text, NEW b \in Text, Len(a) > 1
    PROVE  /\ Half1(a) \in Text /\ Half2(a) \in Text /\ Part1(a, b) \in Text /\ Part2(a, b) \in Text
           /\ Len(Half1(a)) < Len(a) /\ Len(Half2(a)) < Len(a)
           /\ \A i \in 1..Len(Half1(a)) : Half1(a)[i] \in ToSet(a)
           /\ \A i \in 1..Len(Half2(a)) : Half2(a)[i] \in ToSet(a)
<1>1. Len(a) \in Nat /\ Len(b) \in Nat /\ Mid(a) \in 1..Len(a) - 1
  BY DEF Text, Mid
<1>2. SplitOf(a, b) \in 0..Len(b)
  BY SplitIsCut
<1>3. \A i \in 1..Len(a) : a[i] \in ToSet(a)
  BY DEF ToSet, Text
<1>4. /\ Half1(a) \in Text /\ Len(Half1(a)) = Mid(a)
      /\ \A i \in 1..Mid(a) : Half1(a)[i] = a[i]
  BY <1>1, PartIs DEF Half1, Text
<1>5. /\ Half2(a) \in Text /\ Len(Half2(a)) = Len(a) - Mid(a)
      /\ \A i \in 1..Len(a) - Mid(a) : Half2(a)[i] = a[Mid(a) + i]
  <2> DEFINE m == Mid(a) + 1
             n == Len(a)
  <2>1. m \in 1..n + 1 /\ n \in 0..n /\ m <= n /\ a \in Seq(Line)
    BY <1>1 DEF Text
  <2>2. /\ SubSeq(a, m, n) \in Seq(Line) /\ Len(SubSeq(a, m, n)) = IF m <= n THEN n - m + 1 ELSE 0
        /\ \A i \in 1..n - m + 1 : SubSeq(a, m, n)[i] = a[m + i - 1]
    <3> HIDE DEF m, n
    <3> QED
      BY <2>1, PartIs DEF n
  <2>3. n - m + 1 = n - Mid(a) /\ \A i \in Int : m + i - 1 = Mid(a) + i
    BY <1>1
  <2>4. Half2(a) = SubSeq(a, m, n)
    BY DEF Half2
  <2> HIDE DEF m, n
  <2>5. /\ Half2(a) \in Seq(Line) /\ Len(Half2(a)) = n - Mid(a)
        /\ \A i \in 1..n - Mid(a) : Half2(a)[i] = a[Mid(a) + i]
    <3>1. n - m + 1 = n - Mid(a) /\ SubSeq(a, m, n) \in Seq(Line)
          /\ Len(SubSeq(a, m, n)) = n - m + 1
      BY <2>1, <2>2, <2>3
    <3>2. ASSUME NEW i \in 1..n - Mid(a) PROVE SubSeq(a, m, n)[i] = a[Mid(a) + i]
      <4>1. i \in Int /\ i \in 1..n - m + 1
        BY <3>1
      <4>2. SubSeq(a, m, n)[i] = a[m + i - 1] /\ m + i - 1 = Mid(a) + i
        BY <2>2, <2>3, <4>1
      <4> QED
        BY <4>2
    <3> QED
      BY <2>4, <3>1, <3>2
  <2> QED
    BY <2>5 DEF Text, n
<1>6. Part1(a, b) \in Text
  BY <1>1, <1>2, PartIs DEF Part1, Text
<1>7. Part2(a, b) \in Text
  BY <1>1, <1>2, PartIs DEF Part2, Text
<1>8. Len(Half1(a)) < Len(a) /\ Len(Half2(a)) < Len(a)
  BY <1>1, <1>4, <1>5
<1>9. \A i \in 1..Len(Half1(a)) : Half1(a)[i] \in ToSet(a)
  BY <1>1, <1>3, <1>4
<1>10. ASSUME NEW i \in 1..Len(Half2(a)) PROVE Half2(a)[i] \in ToSet(a)
  <2>1. i \in 1..Len(a) - Mid(a) /\ Mid(a) + i \in 1..Len(a)
    BY <1>1, <1>5
  <2> QED
    BY <1>3, <1>5, <2>1
<1> QED
  BY <1>4, <1>5, <1>6, <1>7, <1>8, <1>9, <1>10

\* The recursion of hirschberg, on a pair of texts.
HirschbergOf(h, t) ==
    IF t[1] = <<>> \/ t[2] = <<>> THEN <<>>
    ELSE IF Len(t[1]) = 1 THEN IF Contains(t[2], t[1][1]) THEN t[1] ELSE <<>>
    ELSE h[<<Half1(t[1]), Part1(t[1], t[2])>>] \o h[<<Half2(t[1]), Part2(t[1], t[2])>>]

\* What the recursion is over.
Pairs == Text \X Text

\* The recursion of hirschberg ends at a text that is empty or has one line,
\* and goes on with shorter ones.
LEMMA PairCases ==
    ASSUME NEW t \in Pairs
    PROVE  /\ t[1] \in Text /\ t[2] \in Text
           /\ \/ t[1] = <<>> \/ t[2] = <<>> \/ Len(t[1]) = 1
              \/ /\ t[1] # <<>> /\ t[2] # <<>> /\ Len(t[1]) # 1 /\ Len(t[1]) > 1
                 /\ <<Half1(t[1]), Part1(t[1], t[2])>> \in Pairs
                 /\ <<Half2(t[1]), Part2(t[1], t[2])>> \in Pairs
<1>1. t[1] \in Text /\ t[2] \in Text
  BY DEF Pairs
<1>2. ASSUME t[1] # <<>>, Len(t[1]) # 1 PROVE Len(t[1]) > 1
  <2>1. \A s \in Seq(Line) : s # <<>> => Len(s) \in Nat \ {0}
    BY EmptySeq
  <2>2. Len(t[1]) \in Nat \ {0}
    BY <1>1, <1>2, <2>1 DEF Text
  <2>3. \A n \in Nat \ {0} : n # 1 => n > 1
    OBVIOUS
  <2> QED
    BY <1>2, <2>2, <2>3
<1>3. CASE t[1] # <<>> /\ t[2] # <<>> /\ Len(t[1]) # 1
  <2>1. Len(t[1]) > 1
    BY <1>2, <1>3
  <2>2. /\ Half1(t[1]) \in Text /\ Half2(t[1]) \in Text
        /\ Part1(t[1], t[2]) \in Text /\ Part2(t[1], t[2]) \in Text
    BY <1>1, <2>1, HalvesAre
  <2> QED
    BY <1>1, <1>3, <2>1, <2>2 DEF Pairs
<1> QED
  BY <1>1, <1>3

\* Hirschberg follows its definition at every two texts, and makes a text of
\* them (hirschberg).
LEMMA HirschbergIs ==
    /\ \A t \in Pairs : Hirschberg[t] = HirschbergOf(Hirschberg, t)
    /\ \A t \in Pairs : Hirschberg[t] \in Text
<1> DEFINE Is(h) == h = [t \in Pairs |-> HirschbergOf(h, t)]
           D == [p \in [Pairs -> Text] \X Pairs |-> HirschbergOf(p[1], p[2])]
           rank == [t \in Pairs |-> Len(t[1])]
<1>1. <<>> \in Text
  BY DEF Text
<1>2. rank \in [Pairs -> Nat] /\ \A t \in Pairs : rank[t] = Len(t[1])
  BY PairCases DEF Text
<1>3. ASSUME NEW h \in [Pairs -> Text], NEW t \in Pairs PROVE HirschbergOf(h, t) \in Text
  <2>1. CASE t[1] = <<>> \/ t[2] = <<>> \/ Len(t[1]) = 1
    BY <1>1, <2>1, PairCases DEF HirschbergOf
  <2>2. CASE ~(t[1] = <<>> \/ t[2] = <<>> \/ Len(t[1]) = 1)
    <3> DEFINE g == h[<<Half1(t[1]), Part1(t[1], t[2])>>]
               k == h[<<Half2(t[1]), Part2(t[1], t[2])>>]
    <3>1. g \in Text /\ k \in Text
      BY <2>2, PairCases
    <3>2. HirschbergOf(h, t) = g \o k
      BY <2>2 DEF HirschbergOf
    <3> HIDE DEF g, k
    <3> QED
      BY <3>1, <3>2, ConcatProperties DEF Text
  <2> QED
    BY <2>1, <2>2
<1>4. \A h \in [Pairs -> Text], t \in Pairs : D[<<h, t>>] = HirschbergOf(h, t)
  OBVIOUS
<1>5. ASSUME NEW g, NEW h, NEW t \in Pairs, Alike(Pairs, rank, t, g, h)
      PROVE  HirschbergOf(g, t) = HirschbergOf(h, t)
  <2>1. CASE t[1] = <<>> \/ t[2] = <<>> \/ Len(t[1]) = 1
    BY <2>1 DEF HirschbergOf
  <2>2. CASE ~(t[1] = <<>> \/ t[2] = <<>> \/ Len(t[1]) = 1)
    <3> DEFINE u == <<Half1(t[1]), Part1(t[1], t[2])>>
               v == <<Half2(t[1]), Part2(t[1], t[2])>>
    <3>1. u \in Pairs /\ v \in Pairs /\ t[1] \in Text /\ t[2] \in Text /\ Len(t[1]) > 1
      BY <2>2, PairCases
    <3>2. Len(u[1]) < Len(t[1]) /\ Len(v[1]) < Len(t[1])
      BY <3>1, HalvesAre
    <3>3. HirschbergOf(g, t) = g[u] \o g[v] /\ HirschbergOf(h, t) = h[u] \o h[v]
      BY <2>2 DEF HirschbergOf
    <3> HIDE DEF u, v, rank
    <3>4. rank[u] < rank[t] /\ rank[v] < rank[t]
      BY <1>2, <3>1, <3>2
    <3>5. g[u] = h[u] /\ g[v] = h[v]
      BY <1>5, <3>1, <3>4 DEF Alike
    <3> QED
      BY <3>3, <3>5
  <2> QED
    BY <2>1, <2>2
<1>6. IsRecursion(Pairs, Text, rank, D)
  <2> HIDE DEF D, rank
  <2> QED
    BY <1>2, <1>3, <1>4, <1>5 DEF IsRecursion
<1>7. PICK some : some \in [Pairs -> Text]
  <2>1. [t \in Pairs |-> <<>>] \in [Pairs -> Text]
    BY <1>1
  <2> QED
    BY <2>1
<1>8. PICK f \in [Pairs -> Text] : \A t \in Pairs : f[t] = HirschbergOf(f, t)
  <2> HIDE DEF D, rank
  <2>1. \E h \in [Pairs -> Text] : Solves(Pairs, h, D)
    BY <1>6, <1>7, RecursionHolds
  <2> QED
    BY <1>4, <2>1 DEF Solves
<1>9. \E h : Is(h)
  <2>1. f = [t \in Pairs |-> HirschbergOf(f, t)]
    BY <1>8
  <2> QED
    BY <2>1
<1>10. Hirschberg = CHOOSE h : Is(h)
  BY Zenon DEF Hirschberg, HirschbergOf, Half1, Half2, Part1, Part2, Mid, Pairs
<1>11. Is(Hirschberg)
  <2> HIDE DEF Is
  <2> QED
    BY <1>9, <1>10, Zenon
<1>12. \A t \in Pairs : Hirschberg[t] = HirschbergOf(Hirschberg, t)
  <2>1. Hirschberg = [t \in Pairs |-> HirschbergOf(Hirschberg, t)]
    BY <1>11
  <2> DEFINE h == Hirschberg
  <2>2. h = [t \in Pairs |-> HirschbergOf(h, t)]
    BY <2>1
  <2> HIDE DEF h
  <2>3. \A t \in Pairs : h[t] = HirschbergOf(h, t)
    BY <2>2
  <2> QED
    BY <2>3 DEF h
<1>13. \A t \in Pairs : Hirschberg[t] \in Text
  <2> DEFINE u == Hirschberg
  <2> HIDE DEF u
  <2>0. \A t \in Pairs : u[t] = HirschbergOf(u, t)
    BY <1>12 DEF u
  <2>1. ASSUME NEW h \in [Pairs -> Text], NEW t \in Pairs, Alike(Pairs, rank, t, h, u)
        PROVE  u[t] = D[<<h, t>>]
    <3> HIDE DEF D, rank
    <3> QED
      BY <1>4, <1>5, <2>0, <2>1
  <2> HIDE DEF D, rank
  <2>2. \A t \in Pairs : u[t] \in Text
    BY <1>6, <1>7, <2>1, RecursionIsTyped
  <2> QED
    BY <2>2 DEF u
<1> QED
  BY <1>12, <1>13

\* Where every line of a text is one of Z, its lines are.
LEMMA SetOfLines ==
    ASSUME NEW s \in Text, NEW Z, \A i \in 1..Len(s) : s[i] \in Z
    PROVE  ToSet(s) \subseteq Z
BY DEF ToSet, Text

\* Every line that hirschberg gives is one of the first text.
LEMMA HirschbergTakes ==
    \A t \in Pairs : \A i \in 1..Len(Hirschberg[t]) : Hirschberg[t][i] \in ToSet(t[1])
<1> DEFINE Holds(t) == \A i \in 1..Len(Hirschberg[t]) : Hirschberg[t][i] \in ToSet(t[1])
           T == {t \in Pairs : ~Holds(t)}
           rank == [t \in Pairs |-> Len(t[1])]
<1>1. rank \in [Pairs -> Nat] /\ \A t \in Pairs : rank[t] = Len(t[1]) /\ rank[t] \in Nat
  BY PairCases DEF Text
<1> SUFFICES ASSUME T # {} PROVE FALSE
  OBVIOUS
<1>2. PICK t \in T : \A u \in T : rank[t] <= rank[u]
  <2>1. T \in SUBSET Pairs
    OBVIOUS
  <2> HIDE DEF T, rank
  <2> QED
    BY <1>1, <2>1, LeastRank
<1>3. t \in Pairs /\ ~Holds(t) /\ Hirschberg[t] = HirschbergOf(Hirschberg, t)
  BY HirschbergIs
<1>4. \A u \in Pairs : Len(u[1]) < Len(t[1]) => Holds(u)
  <2> SUFFICES ASSUME NEW u \in Pairs, Len(u[1]) < Len(t[1]), ~Holds(u) PROVE FALSE
    OBVIOUS
  <2>1. u \in T
    OBVIOUS
  <2> HIDE DEF T, rank, Holds
  <2> QED
    BY <1>1, <1>2, <1>3, <2>1
<1>5. CASE t[1] = <<>> \/ t[2] = <<>> \/ Len(t[1]) = 1
  <2>1. Hirschberg[t] = <<>> \/ Hirschberg[t] = t[1]
    BY <1>3, <1>5 DEF HirschbergOf
  <2>2. t[1] \in Seq(Line)
    BY <1>3, PairCases DEF Text
  <2>3. Holds(t)
    BY <2>1, <2>2 DEF ToSet
  <2> QED
    BY <1>3, <2>3
<1>6. CASE ~(t[1] = <<>> \/ t[2] = <<>> \/ Len(t[1]) = 1)
  <2> DEFINE u == <<Half1(t[1]), Part1(t[1], t[2])>>
             v == <<Half2(t[1]), Part2(t[1], t[2])>>
  <2>1. u \in Pairs /\ v \in Pairs /\ t[1] \in Text /\ t[2] \in Text /\ Len(t[1]) > 1
    BY <1>3, <1>6, PairCases
  <2>2. /\ Len(u[1]) < Len(t[1]) /\ Len(v[1]) < Len(t[1])
        /\ \A i \in 1..Len(u[1]) : u[1][i] \in ToSet(t[1])
        /\ \A i \in 1..Len(v[1]) : v[1][i] \in ToSet(t[1])
    BY <2>1, HalvesAre
  <2>3. Hirschberg[t] = Hirschberg[u] \o Hirschberg[v]
    BY <1>3, <1>6 DEF HirschbergOf
  <2> HIDE DEF u, v
  <2>4. /\ \A i \in 1..Len(Hirschberg[u]) : Hirschberg[u][i] \in ToSet(u[1])
        /\ \A i \in 1..Len(Hirschberg[v]) : Hirschberg[v][i] \in ToSet(v[1])
    BY <1>4, <2>1, <2>2
  <2>5. u[1] \in Text /\ v[1] \in Text /\ Hirschberg[u] \in Text /\ Hirschberg[v] \in Text
    BY <2>1, PairCases, HirschbergIs
  <2>6. ToSet(u[1]) \subseteq ToSet(t[1]) /\ ToSet(v[1]) \subseteq ToSet(t[1])
    BY <2>2, <2>5, SetOfLines
  <2> DEFINE g == Hirschberg[u]
             h == Hirschberg[v]
  <2> HIDE DEF g, h
  <2>7. /\ g \in Seq(Line) /\ h \in Seq(Line)
        /\ \A i \in 1..Len(g) : g[i] \in ToSet(t[1])
        /\ \A i \in 1..Len(h) : h[i] \in ToSet(t[1])
    BY <2>4, <2>5, <2>6 DEF g, h, Text
  <2>8. \A i \in 1..Len(g \o h) : (g \o h)[i] \in ToSet(t[1])
    BY <2>7
  <2>9. Holds(t)
    BY <2>3, <2>8 DEF g, h
  <2> QED
    BY <1>3, <2>9
<1> QED
  BY <1>5, <1>6

\* What two texts share at their start is no longer than either, and two equal
\* texts share all.
LEMMA HeadIs ==
    ASSUME NEW a \in Text, NEW b \in Text
    PROVE  /\ CommonHead(a, b) \in 0..Len(a) /\ CommonHead(a, b) \in 0..Len(b)
           /\ \A i \in 1..CommonHead(a, b) : a[i] = b[i]
           /\ a = b => CommonHead(a, b) = Len(a)
<1> DEFINE low == Min({Len(a), Len(b)})
           same == {n \in 0..low : \A i \in 1..n : a[i] = b[i]}
<1>1. Len(a) \in Nat /\ Len(b) \in Nat
  BY DEF Text
<1>2. low \in {Len(a), Len(b)} /\ low <= Len(a) /\ low <= Len(b)
  BY <1>1, MinIs
<1>3. 0 \in same /\ low \in Nat /\ same \in SUBSET (0..low)
  BY <1>1, <1>2
<1>4. CommonHead(a, b) = Max(same)
  BY DEF CommonHead
<1>5. a = b => low \in same
  BY <1>1, <1>2
<1>6. \A n \in same : \A i \in 1..n : a[i] = b[i]
  OBVIOUS
<1> HIDE DEF same
<1>7. Max(same) \in same /\ \A m \in same : m <= Max(same)
  BY <1>3, MaxIs
<1> HIDE DEF low
<1>8. \A i \in 1..CommonHead(a, b) : a[i] = b[i]
  BY <1>4, <1>6, <1>7
<1>9. CommonHead(a, b) \in 0..low /\ (a = b => low <= CommonHead(a, b))
  BY <1>3, <1>4, <1>5, <1>7
<1> QED
  BY <1>1, <1>2, <1>3, <1>9, <1>8

\* Lines of a text, in a text.
Takes(s, a) == s \in Text /\ \A i \in 1..Len(s) : s[i] \in ToSet(a)

\* Two texts of lines of a, joined, have lines of a.
LEMMA TakesBoth ==
    ASSUME NEW s, NEW t, NEW a \in Text, Takes(s, a), Takes(t, a)
    PROVE  Takes(s \o t, a)
<1>1. s \in Seq(Line) /\ t \in Seq(Line)
  BY DEF Takes, Text
<1>2. /\ s \o t \in Seq(Line) /\ Len(s \o t) = Len(s) + Len(t)
      /\ \A i \in 1..Len(s) + Len(t) : (s \o t)[i] = IF i <= Len(s) THEN s[i] ELSE t[i - Len(s)]
  BY <1>1, ConcatProperties
<1>3. Len(s) \in Nat /\ Len(t) \in Nat
  BY <1>1
<1>4. ASSUME NEW i \in 1..Len(s) + Len(t) PROVE (s \o t)[i] \in ToSet(a)
  <2>1. CASE i <= Len(s)
    BY <1>2, <1>3, <2>1 DEF Takes
  <2>2. CASE ~(i <= Len(s))
    <3>1. i - Len(s) \in 1..Len(t)
      BY <1>3, <2>2
    <3> QED
      BY <1>2, <2>2, <3>1 DEF Takes
  <2> QED
    BY <2>1, <2>2
<1> QED
  BY <1>2, <1>4 DEF Takes, Text

\* A part of a text has its lines.
LEMMA PartTakes ==
    ASSUME NEW a \in Text, NEW m \in 1..Len(a) + 1, NEW n \in 0..Len(a)
    PROVE  Takes(SubSeq(a, m, n), a)
<1>1. a \in Seq(Line) /\ Len(a) \in Nat /\ \A i \in 1..Len(a) : a[i] \in ToSet(a)
  BY DEF Text, ToSet
<1>2. /\ SubSeq(a, m, n) \in Seq(Line)
      /\ Len(SubSeq(a, m, n)) = IF m <= n THEN n - m + 1 ELSE 0
      /\ \A i \in 1..n - m + 1 : SubSeq(a, m, n)[i] = a[m + i - 1]
  BY <1>1, PartIs
<1>3. ASSUME NEW i \in 1..Len(SubSeq(a, m, n)) PROVE SubSeq(a, m, n)[i] \in ToSet(a)
  <2>1. m <= n /\ i \in 1..n - m + 1 /\ m + i - 1 \in 1..Len(a)
    BY <1>1, <1>2
  <2> QED
    BY <1>1, <1>2, <2>1
<1> QED
  BY <1>2, <1>3 DEF Takes, Text

\* What takes its lines of a text that takes its own of a takes them of a.
LEMMA TakesOfPart ==
    ASSUME NEW a \in Text, NEW s \in Text, NEW t, Takes(s, a), Takes(t, s)
    PROVE  Takes(t, a)
BY DEF Takes, ToSet, Text

\* What LCS gives after the common prefix has lines of the first text.
LEMMA TailsTake ==
    ASSUME NEW a \in Text, NEW b \in Text
    PROVE  Takes(LCSOfTails(a, b), a)
<1> DEFINE tail == CommonHead(Reverse(a), Reverse(b))
           front == SubSeq(a, 1, Len(a) - tail)
           other == SubSeq(b, 1, Len(b) - tail)
<1>1. /\ Len(a) \in Nat /\ Len(b) \in Nat
      /\ Reverse(a) \in Text /\ Reverse(b) \in Text
      /\ Len(Reverse(a)) = Len(a) /\ Len(Reverse(b)) = Len(b)
  BY ReverseIs DEF Text
<1>2. tail \in 0..Len(a) /\ tail \in 0..Len(b)
  BY <1>1, HeadIs
<1> HIDE DEF tail
<1>3. Takes(front, a) /\ Takes(other, b) /\ Takes(SubSeq(a, Len(a) - tail + 1, Len(a)), a)
  BY <1>1, <1>2, PartTakes
<1>4. front \in Text /\ other \in Text
  BY <1>3 DEF Takes
<1>5. LCSOfTails(a, b) = Hirschberg[<<front, other>>] \o SubSeq(a, Len(a) - tail + 1, Len(a))
  BY Zenon DEF LCSOfTails, front, other, tail
<1> HIDE DEF front, other
<1>6. <<front, other>> \in Pairs
  BY <1>4 DEF Pairs
<1>7. Takes(Hirschberg[<<front, other>>], front)
  BY <1>6, HirschbergIs, HirschbergTakes DEF Takes
<1>8. Takes(Hirschberg[<<front, other>>], a)
  BY <1>3, <1>4, <1>7, TakesOfPart
<1> QED
  BY <1>3, <1>5, <1>8, TakesBoth

\* The common lines of two texts are lines of the first.
LEMMA LCSTakes ==
    ASSUME NEW a \in Text, NEW b \in Text
    PROVE  Takes(LCS(a, b), a)
<1> DEFINE head == CommonHead(a, b)
           rest == SubSeq(a, head + 1, Len(a))
           other == SubSeq(b, head + 1, Len(b))
<1>1. Len(a) \in Nat /\ Len(b) \in Nat /\ head \in 0..Len(a) /\ head \in 0..Len(b)
  BY HeadIs DEF Text
<1> HIDE DEF head
<1>2. Takes(SubSeq(a, 1, head), a) /\ Takes(rest, a) /\ Takes(other, b)
  BY <1>1, PartTakes
<1>3. LCS(a, b) = SubSeq(a, 1, head) \o LCSOfTails(rest, other)
  BY Zenon DEF LCS, head, rest, other
<1> HIDE DEF rest, other
<1>4. Takes(LCSOfTails(rest, other), rest)
  BY <1>2, TailsTake DEF Takes
<1>5. Takes(LCSOfTails(rest, other), a)
  BY <1>2, <1>4, TakesOfPart DEF Takes
<1> QED
  BY <1>2, <1>3, <1>5, TakesBoth

\* All of a text as a part of it, and what comes after it.
LEMMA WholePart ==
    ASSUME NEW S, NEW a \in Seq(S)
    PROVE  SubSeq(a, 1, Len(a)) = a /\ SubSeq(a, Len(a) + 1, Len(a)) = <<>>
OBVIOUS

\* What a text has in common with itself is the text (the common prefix of
\* LCS).
LEMMA LCSOfSame ==
    ASSUME NEW a \in Text
    PROVE  LCS(a, a) = a
<1>1. Len(a) \in Nat /\ a \in Seq(Line) /\ CommonHead(a, a) = Len(a)
  BY HeadIs DEF Text
<1>2. SubSeq(a, 1, Len(a)) = a /\ SubSeq(a, Len(a) + 1, Len(a)) = <<>>
  BY <1>1, WholePart
<1>3. LCS(a, a) = a \o LCSOfTails(<<>>, <<>>)
  BY <1>1, <1>2, Zenon DEF LCS
<1>4. <<>> \in Text
  BY DEF Text
<1>5. Takes(LCSOfTails(<<>>, <<>>), <<>>)
  BY <1>4, TailsTake
<1>6. ToSet(<<>>) = {}
  BY DEF ToSet
<1>7. LCSOfTails(<<>>, <<>>) = <<>>
  BY <1>5, <1>6 DEF Takes, Text
<1> QED
  BY <1>1, <1>3, <1>7

\* f is first at m, and then D of its value before.
IsStepwise(f, m, n, first, D) ==
    f[m] = first /\ \A k \in m + 1..n : f[k] = D[<<f[k - 1], k>>]

\* A function defined step by step from m to n is there.
LEMMA StepwiseHolds ==
    ASSUME NEW m \in Nat, NEW n \in Nat, m <= n, NEW V, NEW first \in V, NEW D,
           \A v \in V, k \in m + 1..n : D[<<v, k>>] \in V
    PROVE  \E f \in [m..n -> V] : IsStepwise(f, m, n, first, D)
<1> DEFINE Good(j) == \E f \in [m..m + j -> V] : IsStepwise(f, m, m + j, first, D)
           Q == {j \in Nat : m + j <= n => Good(j)}
<1>1. 0 \in Q
  <2> DEFINE f == [k \in m..m + 0 |-> first]
  <2>1. f \in [m..m + 0 -> V] /\ f[m] = first /\ m + 1..m + 0 = {}
    OBVIOUS
  <2> QED
    BY <2>1 DEF IsStepwise
<1>2. ASSUME NEW j \in Nat, j \in Q PROVE j + 1 \in Q
  <2> SUFFICES ASSUME m + (j + 1) <= n PROVE Good(j + 1)
    OBVIOUS
  <2>1. PICK f \in [m..m + j -> V] : IsStepwise(f, m, m + j, first, D)
    BY <1>2
  <2> DEFINE i == m + (j + 1)
             g == [k \in m..i |-> IF k = i THEN D[<<f[m + j], i>>] ELSE f[k]]
  <2>2. i \in m + 1..n /\ i \notin m..m + j /\ m + j \in m..m + j /\ i \in Nat /\ i - 1 = m + j
        /\ \A k \in m..i : k = i \/ k \in m..m + j
    OBVIOUS
  <2>3. D[<<f[m + j], i>>] \in V
    BY <2>2
  <2>4. g \in [m..i -> V]
    BY <2>2, <2>3
  <2>5. g[i] = D[<<f[m + j], i>>] /\ \A k \in m..m + j : g[k] = f[k]
    BY <2>2
  <2> HIDE DEF g
  <2>6. g[m] = first
    BY <2>1, <2>5 DEF IsStepwise
  <2>7. ASSUME NEW k \in m + 1..i PROVE g[k] = D[<<g[k - 1], k>>]
    <3>1. CASE k = i
      <4>1. g[k - 1] = f[m + j]
        BY <2>2, <2>5, <3>1
      <4> QED
        BY <2>5, <3>1, <4>1
    <3>2. CASE k # i
      <4>1. k \in m + 1..m + j /\ k \in m..m + j /\ k - 1 \in m..m + j
        BY <3>2
      <4>2. f[k] = D[<<f[k - 1], k>>]
        BY <2>1, <4>1 DEF IsStepwise
      <4> QED
        BY <2>5, <4>1, <4>2
    <3> QED
      BY <3>1, <3>2
  <2>8. IsStepwise(g, m, i, first, D)
    BY <2>6, <2>7 DEF IsStepwise
  <2> QED
    BY <2>4, <2>8
<1>3. n - m \in Q
  <2> HIDE DEF Q
  <2>1. Nat \subseteq Q
    BY <1>1, <1>2, AllNumbers
  <2>2. n - m \in Nat
    OBVIOUS
  <2> QED
    BY <2>1, <2>2
<1>4. m + (n - m) = n /\ m + (n - m) <= n
  OBVIOUS
<1>5. Good(n - m)
  BY <1>3, <1>4
<1> QED
  BY <1>4, <1>5

-----------------------------------------------------------------------------
(* Where the common lines are.                                             *)

\* The next place of a line is the first one after from that has it, or past
\* the end.
LEMMA NextIs ==
    ASSUME NEW s \in Text, NEW from \in 0..Len(s) + 1, NEW line
    PROVE  /\ NextAt(s, from, line) \in 1..Len(s) + 1
           /\ \/ NextAt(s, from, line) = Len(s) + 1
              \/ NextAt(s, from, line) > from /\ s[NextAt(s, from, line)] = line
           /\ \A i \in from + 1..Len(s) : s[i] = line => NextAt(s, from, line) <= i
<1> DEFINE all == {i \in from + 1..Len(s) : s[i] = line} \cup {Len(s) + 1}
<1>1. Len(s) \in Nat
  BY DEF Text
<1>2. all \in SUBSET Nat /\ all # {}
  BY <1>1
<1>3. NextAt(s, from, line) = Min(all)
  BY DEF NextAt
<1>4. Min(all) \in all /\ \A m \in all : Min(all) <= m
  <2> HIDE DEF all
  <2> QED
    BY <1>2, MinIs
<1>5. \A i \in all : i = Len(s) + 1 \/ (i > from /\ i <= Len(s) /\ s[i] = line)
  BY <1>1
<1>6. \A i \in from + 1..Len(s) : s[i] = line => i \in all
  BY <1>1
<1> HIDE DEF all
<1> DEFINE x == Min(all)
<1> HIDE DEF x
<1>7. x \in all /\ x \in Nat /\ \A m \in all : x <= m
  BY <1>2, <1>4 DEF x
<1>8. x \in 1..Len(s) + 1
  BY <1>1, <1>5, <1>7
<1> QED
  BY <1>3, <1>5, <1>6, <1>7, <1>8 DEF x

\* Where the common lines are found, each after the one before it (the two
\* walks of AlignLCS and Diff).
LEMMA FoundIs ==
    ASSUME NEW common \in Text, NEW s \in Text
    PROVE  /\ Found(common, s) \in [1..Len(common) -> 1..Len(s) + 1]
           /\ \A k \in 1..Len(common) :
                 Found(common, s)[k] =
                    NextAt(s, IF k = 1 THEN 0 ELSE Found(common, s)[k - 1], common[k])
<1> DEFINE n == Len(common)
           V == 0..Len(s) + 1
           Is(at) == at = [k \in 0..Len(common) |-> IF k = 0 THEN 0 ELSE NextAt(s, at[k - 1], common[k])]
           D == [p \in V \X (1..n) |-> NextAt(s, p[1], common[p[2]])]
<1>1. n \in Nat /\ Len(s) \in Nat /\ 0 \in V
  BY DEF Text
<1>2. \A v \in V, k \in 1..n : NextAt(s, v, common[k]) \in V /\ NextAt(s, v, common[k]) \in 1..Len(s) + 1
  <2> SUFFICES ASSUME NEW v \in V, NEW k \in 1..n
               PROVE  NextAt(s, v, common[k]) \in 1..Len(s) + 1
    BY <1>1
  <2> QED
    BY NextIs
<1>3. \A v \in V, k \in 1..n : D[<<v, k>>] = NextAt(s, v, common[k])
  OBVIOUS
<1>4. PICK f \in [0..n -> V] : f[0] = 0 /\ \A k \in 1..n : f[k] = NextAt(s, f[k - 1], common[k])
  <2>1. \A v \in V, k \in 0 + 1..n : D[<<v, k>>] \in V
    <3>1. 0 + 1..n = 1..n
      BY <1>1
    <3> HIDE DEF n, V, D
    <3> QED
      BY <1>2, <1>3, <3>1
  <2> HIDE DEF n, V, D
  <2>2. \E f \in [0..n -> V] : IsStepwise(f, 0, n, 0, D)
    <3>1. 0 \in Nat /\ 0 <= n
      BY <1>1
    <3> QED
      BY <1>1, <2>1, <3>1, StepwiseHolds
  <2>3. PICK f \in [0..n -> V] : f[0] = 0 /\ \A k \in 1..n : f[k] = D[<<f[k - 1], k>>]
    BY <1>1, <2>2 DEF IsStepwise
  <2>4. \A k \in 1..n : f[k - 1] \in V
    BY <1>1, <2>3
  <2> QED
    BY <1>3, <2>3, <2>4
<1>5. Is(f)
  <2>1. \A k \in 0..n : f[k] = IF k = 0 THEN 0 ELSE NextAt(s, f[k - 1], common[k])
    BY <1>1, <1>4
  <2> QED
    BY <2>1
<1> DEFINE at == CHOOSE at : Is(at)
<1>6. Is(at)
  <2> HIDE DEF Is
  <2> QED
    BY <1>5, Zenon
<1>7. Found(common, s) = [k \in 1..Len(common) |-> (CHOOSE w : Is(w))[k]]
  BY Zenon DEF Found
<1> HIDE DEF at
<1>8. at[0] = 0 /\ \A k \in 1..n : at[k] = NextAt(s, at[k - 1], common[k])
  BY <1>1, <1>6
<1>9. \A k \in 0..n : at[k] \in V
  <2> DEFINE Q == {k \in Nat : k <= n => at[k] \in V}
  <2>1. 0 \in Q
    BY <1>1, <1>8
  <2>2. ASSUME NEW k \in Nat, k \in Q PROVE k + 1 \in Q
    <3> SUFFICES ASSUME k + 1 <= n PROVE at[k + 1] \in V
      OBVIOUS
    <3>1. at[k] \in V /\ k + 1 \in 1..n /\ (k + 1) - 1 = k
      BY <1>1, <2>2
    <3>2. at[k + 1] = NextAt(s, at[k], common[k + 1])
      BY <1>8, <3>1
    <3> HIDE DEF V
    <3> QED
      BY <1>2, <3>1, <3>2
  <2>3. Nat \subseteq Q
    <3> HIDE DEF Q
    <3> QED
      BY <2>1, <2>2, AllNumbers
  <2> QED
    BY <1>1, <2>3
<1>10. Found(common, s) = [k \in 1..n |-> at[k]]
  BY <1>7 DEF at
<1>11. \A k \in 1..n : at[k] \in 1..Len(s) + 1
  <2> SUFFICES ASSUME NEW k \in 1..n PROVE at[k] \in 1..Len(s) + 1
    OBVIOUS
  <2>1. at[k - 1] \in V /\ at[k] = NextAt(s, at[k - 1], common[k])
    BY <1>1, <1>8, <1>9
  <2> HIDE DEF V, n
  <2> QED
    BY <1>2, <2>1
<1> DEFINE F == Found(common, s)
<1> HIDE DEF F
<1>12. F \in [1..n -> 1..Len(s) + 1] /\ \A k \in 1..n : F[k] = at[k]
  BY <1>10, <1>11 DEF F
<1>13. ASSUME NEW k \in 1..n PROVE F[k] = NextAt(s, IF k = 1 THEN 0 ELSE F[k - 1], common[k])
  <2>1. CASE k = 1
    BY <1>1, <1>8, <1>12, <2>1
  <2>2. CASE k # 1
    <3>1. k - 1 \in 1..n
      BY <1>1, <2>2
    <3> QED
      BY <1>8, <1>12, <2>2, <3>1
  <2> QED
    BY <2>1, <2>2
<1> QED
  BY <1>12, <1>13 DEF F

\* The places found rise, up to the first line that is not there.
LEMMA FoundRises ==
    ASSUME NEW common \in Text, NEW s \in Text
    PROVE  \A k \in 1..Len(common) : \A j \in 1..k - 1 :
              Found(common, s)[k] <= Len(s) => Found(common, s)[j] < Found(common, s)[k]
<1> DEFINE n == Len(common)
           F == Found(common, s)
           Q == {k \in Nat : k <= n => \A j \in 1..k - 1 :
                    F[j] <= F[k] /\ (F[k] <= Len(s) => F[j] < F[k])}
<1>1. n \in Nat /\ Len(s) \in Nat
  BY DEF Text
<1>2. /\ F \in [1..n -> 1..Len(s) + 1]
      /\ \A k \in 1..n : F[k] = NextAt(s, IF k = 1 THEN 0 ELSE F[k - 1], common[k])
  BY FoundIs
<1> HIDE DEF F, n
<1>3. 0 \in Q
  BY <1>1
<1>4. ASSUME NEW k \in Nat, k \in Q PROVE k + 1 \in Q
  <2> SUFFICES ASSUME k + 1 <= n, NEW j \in 1..k
               PROVE  F[j] <= F[k + 1] /\ (F[k + 1] <= Len(s) => F[j] < F[k + 1])
    BY <1>1
  <2>1. /\ k \in 1..n /\ k + 1 \in 1..n /\ j \in 1..n /\ k + 1 # 1 /\ (k + 1) - 1 = k
        /\ j = k \/ j \in 1..k - 1
    BY <1>1
  <2>2. F[k] \in 1..Len(s) + 1 /\ F[j] \in 1..Len(s) + 1 /\ F[k + 1] \in 1..Len(s) + 1
    BY <1>2, <2>1
  <2>3. F[k + 1] = NextAt(s, F[k], common[k + 1])
    BY <1>2, <2>1
  <2>4. F[k] \in 0..Len(s) + 1
    BY <1>1, <2>2
  <2>5. F[k + 1] = Len(s) + 1 \/ F[k + 1] > F[k]
    BY <2>3, <2>4, NextIs
  <2>6. F[j] <= F[k]
    BY <1>1, <1>4, <2>1, <2>2
  <2> QED
    BY <1>1, <2>2, <2>5, <2>6
<1>5. Nat \subseteq Q
  <2> HIDE DEF Q
  <2> QED
    BY <1>3, <1>4, AllNumbers
<1>6. \A k \in 1..n : k \in Nat /\ k <= n
  BY <1>1
<1> QED
  BY <1>5, <1>6 DEF F, n

\* What is found is the line that was looked for.
LEMMA FoundThere ==
    ASSUME NEW common \in Text, NEW s \in Text
    PROVE  \A k \in 1..Len(common) : 
              Found(common, s)[k] <= Len(s) => s[Found(common, s)[k]] = common[k]
<1> SUFFICES ASSUME NEW k \in 1..Len(common), Found(common, s)[k] <= Len(s)
             PROVE  s[Found(common, s)[k]] = common[k]
  OBVIOUS
<1> DEFINE F == Found(common, s)
           from == IF k = 1 THEN 0 ELSE F[k - 1]
<1>1. Len(common) \in Nat /\ Len(s) \in Nat
  BY DEF Text
<1>2. F \in [1..Len(common) -> 1..Len(s) + 1] /\ F[k] = NextAt(s, from, common[k])
  BY FoundIs
<1>3. from \in 0..Len(s) + 1
  <2>1. CASE k = 1
    BY <1>1, <2>1
  <2>2. CASE k # 1
    <3>1. k - 1 \in 1..Len(common)
      BY <1>1, <2>2
    <3> HIDE DEF F
    <3>2. F[k - 1] \in 1..Len(s) + 1
      BY <1>2, <3>1
    <3> QED
      BY <1>1, <2>2, <3>2
  <2> QED
    BY <2>1, <2>2
<1>4. F[k] <= Len(s)
  OBVIOUS
<1> HIDE DEF F, from
<1>5. F[k] = Len(s) + 1 \/ s[F[k]] = common[k]
  BY <1>2, <1>3, NextIs
<1>6. F[k] \in 1..Len(s) + 1
  BY <1>2
<1>7. s[F[k]] = common[k]
  BY <1>1, <1>4, <1>5, <1>6
<1> QED
  BY <1>7 DEF F

\* A text is found in itself, line by line.
LEMMA FoundInItself ==
    ASSUME NEW s \in Text
    PROVE  \A k \in 1..Len(s) : Found(s, s)[k] = k
<1> DEFINE n == Len(s)
           F == Found(s, s)
           Q == {k \in Nat : k \in 1..n => F[k] = k}
<1>1. n \in Nat
  BY DEF Text
<1>2. \A k \in 1..n : F[k] = NextAt(s, IF k = 1 THEN 0 ELSE F[k - 1], s[k])
  BY FoundIs
<1> HIDE DEF F
<1>3. 0 \in Q
  BY <1>1
<1>4. ASSUME NEW k \in Nat, k \in Q PROVE k + 1 \in Q
  <2> SUFFICES ASSUME k + 1 <= n PROVE F[k + 1] = k + 1
    OBVIOUS
  <2>1. k + 1 \in 1..n /\ (k + 1) - 1 = k /\ k \in 0..n + 1 /\ k + 1 \in k + 1..n /\ k + 1 <= n
    BY <1>1
  <2>2. F[k + 1] = NextAt(s, k, s[k + 1])
    <3>1. CASE k = 0
      <4>1. F[1] = NextAt(s, 0, s[1])
        BY <1>2, <2>1, <3>1
      <4> QED
        BY <3>1, <4>1
    <3>2. CASE k # 0
      <4>1. F[k] = k /\ k + 1 # 1
        BY <1>4, <2>1, <3>2
      <4> QED
        BY <1>2, <2>1, <4>1
    <3> QED
      BY <3>1, <3>2
  <2> DEFINE x == NextAt(s, k, s[k + 1])
  <2>3. /\ x \in 1..n + 1
        /\ x = n + 1 \/ x > k
        /\ \A i \in k + 1..n : s[i] = s[k + 1] => x <= i
    BY <2>1, NextIs
  <2> HIDE DEF x
  <2>4. x <= k + 1
    BY <2>1, <2>3
  <2>5. x = k + 1
    BY <1>1, <2>1, <2>3, <2>4
  <2> QED
    BY <2>2, <2>5 DEF x
<1>5. Nat \subseteq Q
  <2> HIDE DEF Q
  <2> QED
    BY <1>3, <1>4, AllNumbers
<1>6. \A k \in 1..n : k \in Nat
  BY <1>1
<1> QED
  BY <1>5, <1>6 DEF F, n

-----------------------------------------------------------------------------
(* Pairings of equal lines.                                                *)

\* The first n places of f rise.
Rises(f, n) == \A k \in 1..n : \A l \in 1..k - 1 : f[l] < f[k]

\* f and g lead to n equal lines of a and b, in the order they have in both,
\* in a after place i up to m, in b after j up to p.
IsMatch(f, g, a, i, m, b, j, p, n) ==
    /\ f \in [1..n -> i + 1..m] /\ g \in [1..n -> j + 1..p]
    /\ Rises(f, n) /\ Rises(g, n)
    /\ \A k \in 1..n : a[f[k]] = b[g[k]]

Match(a, i, m, b, j, p, n) == \E f, g : IsMatch(f, g, a, i, m, b, j, p, n)

\* Places that rise are as far apart as there are places between them.
LEMMA RisesFar ==
    ASSUME NEW n \in Nat, NEW i \in Int, NEW m \in Int, NEW f, f \in [1..n -> i + 1..m], Rises(f, n)
    PROVE  \A k \in 1..n : f[k] \in Int /\ f[k] >= i + k /\ f[k] <= m - (n - k)
<1>1. \A k \in 1..n : f[k] \in Int /\ f[k] >= i + 1 /\ f[k] <= m
  OBVIOUS
<1>2. \A k \in 1..n : k > 1 => k - 1 \in 1..n /\ f[k - 1] < f[k]
  BY DEF Rises
<1> DEFINE Q == {k \in Nat : k \in 1..n => f[k] >= i + k}
           R == {k \in Nat : k \in 0..n - 1 => f[n - k] <= m - k}
<1>3. 0 \in Q
  OBVIOUS
<1>4. ASSUME NEW k \in Nat, k \in Q PROVE k + 1 \in Q
  <2> SUFFICES ASSUME k + 1 \in 1..n PROVE f[k + 1] >= i + (k + 1)
    OBVIOUS
  <2>1. CASE k = 0
    BY <1>1, <2>1
  <2>2. CASE k # 0
    <3>1. k \in 1..n /\ (k + 1) - 1 = k /\ k + 1 > 1
      BY <2>2
    <3>2. f[k] < f[k + 1] /\ f[k] >= i + k
      BY <1>2, <1>4, <3>1
    <3> QED
      BY <1>1, <3>1, <3>2
  <2> QED
    BY <2>1, <2>2
<1>5. Nat \subseteq Q
  <2> HIDE DEF Q
  <2> QED
    BY <1>3, <1>4, AllNumbers
<1>6. 0 \in R
  <2> SUFFICES ASSUME 0 \in 0..n - 1 PROVE f[n - 0] <= m - 0
    OBVIOUS
  <2>1. n - 0 = n /\ n \in 1..n
    OBVIOUS
  <2> QED
    BY <1>1, <2>1
<1>7. ASSUME NEW k \in Nat, k \in R PROVE k + 1 \in R
  <2> SUFFICES ASSUME k + 1 \in 0..n - 1 PROVE f[n - (k + 1)] <= m - (k + 1)
    OBVIOUS
  <2>1. k \in 0..n - 1 /\ n - k \in 1..n /\ n - k > 1 /\ (n - k) - 1 = n - (k + 1) /\ n - (k + 1) \in 1..n
    OBVIOUS
  <2>2. f[n - (k + 1)] < f[n - k] /\ f[n - k] <= m - k
    BY <1>2, <1>7, <2>1
  <2> QED
    BY <1>1, <2>1, <2>2
<1>8. Nat \subseteq R
  <2> HIDE DEF R
  <2> QED
    BY <1>6, <1>7, AllNumbers
<1>9. ASSUME NEW k \in 1..n PROVE f[k] >= i + k /\ f[k] <= m - (n - k)
  <2>1. k \in Nat /\ n - k \in Nat /\ n - k \in 0..n - 1 /\ n - (n - k) = k
    OBVIOUS
  <2>2. f[n - (n - k)] <= m - (n - k)
    BY <1>8, <2>1
  <2> QED
    BY <1>5, <2>1, <2>2
<1> QED
  BY <1>1, <1>9

\* No more lines are paired than there are places for.
LEMMA MatchFits ==
    ASSUME NEW a, NEW b, NEW i \in Int, NEW m \in Int, NEW j \in Int, NEW p \in Int, NEW n \in Nat,
           Match(a, i, m, b, j, p, n)
    PROVE  n = 0 \/ (n <= m - i /\ n <= p - j)
<1>1. PICK f, g : IsMatch(f, g, a, i, m, b, j, p, n)
  BY DEF Match
<1>2. CASE n # 0
  <2>1. n \in 1..n
    BY <1>2
  <2>2. f[n] \in i + 1..m /\ f[n] >= i + n
    BY <1>1, <2>1, RisesFar DEF IsMatch
  <2>3. g[n] \in j + 1..p /\ g[n] >= j + n
    BY <1>1, <2>1, RisesFar DEF IsMatch
  <2> QED
    BY <2>2, <2>3
<1> QED
  BY <1>2

\* Some of the pairs, one after another.
LEMMA MatchPart ==
    ASSUME NEW a, NEW b, NEW i \in Int, NEW m \in Int, NEW j \in Int, NEW p \in Int, NEW n \in Nat,
           NEW f, NEW g, IsMatch(f, g, a, i, m, b, j, p, n),
           NEW h \in 0..n, NEW l \in h..n,
           NEW i1 \in Int, NEW m1 \in Int, NEW j1 \in Int, NEW p1 \in Int,
           \A k \in h + 1..l : f[k] \in i1 + 1..m1 /\ g[k] \in j1 + 1..p1
    PROVE  Match(a, i1, m1, b, j1, p1, l - h)
<1> DEFINE u == [k \in 1..l - h |-> f[h + k]]
           v == [k \in 1..l - h |-> g[h + k]]
<1>1. \A k \in 1..l - h : h + k \in h + 1..l /\ h + k \in 1..n
  OBVIOUS
<1>2. u \in [1..l - h -> i1 + 1..m1] /\ v \in [1..l - h -> j1 + 1..p1]
  BY <1>1
<1>3. \A k \in 1..l - h : u[k] = f[h + k] /\ v[k] = g[h + k]
  OBVIOUS
<1>4. ASSUME NEW k \in 1..l - h, NEW o \in 1..k - 1 PROVE u[o] < u[k] /\ v[o] < v[k]
  <2>1. o \in 1..l - h /\ h + o \in 1..(h + k) - 1 /\ h + k \in 1..n
    BY <1>1
  <2>2. f[h + o] < f[h + k] /\ g[h + o] < g[h + k]
    BY <2>1 DEF IsMatch, Rises
  <2> QED
    BY <1>3, <2>1, <2>2
<1>5. \A k \in 1..l - h : a[u[k]] = b[v[k]]
  BY <1>1, <1>3 DEF IsMatch
<1> HIDE DEF u, v
<1>6. IsMatch(u, v, a, i1, m1, b, j1, p1, l - h)
  BY <1>2, <1>4, <1>5 DEF IsMatch, Rises
<1> QED
  BY <1>6 DEF Match

\* Pairs, and pairs after them.
LEMMA MatchJoin ==
    ASSUME NEW a, NEW b, NEW i \in Int, NEW m \in Int, NEW j \in Int, NEW p \in Int, NEW n \in Nat,
           NEW m1 \in Int, NEW p1 \in Int, NEW n1 \in Nat, i <= m, m <= m1, j <= p, p <= p1,
           Match(a, i, m, b, j, p, n), Match(a, m, m1, b, p, p1, n1)
    PROVE  Match(a, i, m1, b, j, p1, n + n1)
<1>1. PICK f, g : IsMatch(f, g, a, i, m, b, j, p, n)
  BY DEF Match
<1>2. PICK u, v : IsMatch(u, v, a, m, m1, b, p, p1, n1)
  BY DEF Match
<1> DEFINE x == [k \in 1..n + n1 |-> IF k <= n THEN f[k] ELSE u[k - n]]
           y == [k \in 1..n + n1 |-> IF k <= n THEN g[k] ELSE v[k - n]]
<1>3. \A k \in 1..n + n1 : IF k <= n THEN k \in 1..n ELSE k - n \in 1..n1
  OBVIOUS
<1>4. \A k \in 1..n : f[k] \in i + 1..m /\ g[k] \in j + 1..p /\ a[f[k]] = b[g[k]]
  BY <1>1 DEF IsMatch
<1>5. \A k \in 1..n1 : u[k] \in m + 1..m1 /\ v[k] \in p + 1..p1 /\ a[u[k]] = b[v[k]]
  BY <1>2 DEF IsMatch
<1>6. \A k \in 1..n + n1 : /\ x[k] = IF k <= n THEN f[k] ELSE u[k - n]
                           /\ y[k] = IF k <= n THEN g[k] ELSE v[k - n]
  OBVIOUS
<1>7. \A k \in 1..n + n1 : x[k] \in i + 1..m1 /\ y[k] \in j + 1..p1 /\ a[x[k]] = b[y[k]]
  <2> SUFFICES ASSUME NEW k \in 1..n + n1
               PROVE  x[k] \in i + 1..m1 /\ y[k] \in j + 1..p1 /\ a[x[k]] = b[y[k]]
    OBVIOUS
  <2> HIDE DEF x, y
  <2>1. CASE k <= n
    <3>1. k \in 1..n /\ x[k] = f[k] /\ y[k] = g[k]
      BY <1>6, <2>1
    <3> QED
      BY <1>4, <3>1
  <2>2. CASE ~(k <= n)
    <3>1. k - n \in 1..n1 /\ x[k] = u[k - n] /\ y[k] = v[k - n]
      BY <1>6, <2>2
    <3> QED
      BY <1>5, <3>1
  <2> QED
    BY <2>1, <2>2
<1>8. x \in [1..n + n1 -> i + 1..m1] /\ y \in [1..n + n1 -> j + 1..p1]
  <2>1. \A k \in 1..n + n1 : x[k] \in i + 1..m1 /\ y[k] \in j + 1..p1
    BY <1>7
  <2> QED
    BY <2>1
<1> HIDE DEF x, y
<1>9. ASSUME NEW k \in 1..n + n1, NEW o \in 1..k - 1 PROVE x[o] < x[k] /\ y[o] < y[k]
  <2>0. o \in 1..n + n1
    OBVIOUS
  <2>1. CASE k <= n
    <3>1. /\ k \in 1..n /\ o \in 1..n /\ x[k] = f[k] /\ y[k] = g[k] /\ x[o] = f[o] /\ y[o] = g[o]
      BY <1>6, <2>0, <2>1
    <3> QED
      BY <1>1, <3>1 DEF IsMatch, Rises
  <2>2. CASE ~(k <= n) /\ o <= n
    <3>1. o \in 1..n /\ k - n \in 1..n1 /\ x[k] = u[k - n] /\ y[k] = v[k - n] /\ x[o] = f[o] /\ y[o] = g[o]
      BY <1>6, <2>0, <2>2
    <3> QED
      BY <1>4, <1>5, <3>1
  <2>3. CASE ~(o <= n)
    <3>1. /\ k - n \in 1..n1 /\ o - n \in 1..(k - n) - 1
          /\ x[k] = u[k - n] /\ y[k] = v[k - n] /\ x[o] = u[o - n] /\ y[o] = v[o - n]
      BY <1>6, <2>0, <2>3
    <3> QED
      BY <1>2, <3>1 DEF IsMatch, Rises
  <2> QED
    BY <2>1, <2>2, <2>3
<1>10. IsMatch(x, y, a, i, m1, b, j, p1, n + n1)
  BY <1>7, <1>8, <1>9 DEF IsMatch, Rises
<1> QED
  BY <1>10 DEF Match

\* The same lines at other places: x farther in a, y farther in b.
LEMMA MatchMoved ==
    ASSUME NEW a, NEW b, NEW i \in Int, NEW m \in Int, NEW j \in Int, NEW p \in Int, NEW n \in Nat,
           Match(a, i, m, b, j, p, n),
           NEW a1, NEW b1, NEW x \in Int, NEW y \in Int,
           \A k \in i + 1..m : a1[k + x] = a[k], \A k \in j + 1..p : b1[k + y] = b[k]
    PROVE  Match(a1, i + x, m + x, b1, j + y, p + y, n)
<1>1. PICK f, g : IsMatch(f, g, a, i, m, b, j, p, n)
  BY DEF Match
<1> DEFINE u == [k \in 1..n |-> f[k] + x]
           v == [k \in 1..n |-> g[k] + y]
<1>2. \A k \in 1..n : f[k] \in i + 1..m /\ g[k] \in j + 1..p /\ a[f[k]] = b[g[k]]
  BY <1>1 DEF IsMatch
<1>3. \A k \in 1..n : u[k] = f[k] + x /\ v[k] = g[k] + y
  OBVIOUS
<1>4. u \in [1..n -> (i + x) + 1..m + x] /\ v \in [1..n -> (j + y) + 1..p + y]
  BY <1>2
<1> HIDE DEF u, v
<1>5. \A k \in 1..n : a1[u[k]] = b1[v[k]]
  BY <1>2, <1>3
<1>6. ASSUME NEW k \in 1..n, NEW o \in 1..k - 1 PROVE u[o] < u[k] /\ v[o] < v[k]
  <2>1. o \in 1..n /\ f[o] < f[k] /\ g[o] < g[k]
    BY <1>1 DEF IsMatch, Rises
  <2> QED
    BY <1>2, <1>3, <2>1
<1>7. IsMatch(u, v, a1, i + x, m + x, b1, j + y, p + y, n)
  BY <1>4, <1>5, <1>6 DEF IsMatch, Rises
<1> QED
  BY <1>7 DEF Match

\* The same lines back to front.
LEMMA MatchTurned ==
    ASSUME NEW a, NEW b, NEW i \in Int, NEW m \in Int, NEW j \in Int, NEW p \in Int, NEW n \in Nat,
           Match(a, i, m, b, j, p, n),
           NEW a1, NEW b1, NEW x \in Int, NEW y \in Int,
           \A k \in i + 1..m : a1[x + 1 - k] = a[k], \A k \in j + 1..p : b1[y + 1 - k] = b[k]
    PROVE  Match(a1, x - m, x - i, b1, y - p, y - j, n)
<1>1. PICK f, g : IsMatch(f, g, a, i, m, b, j, p, n)
  BY DEF Match
<1> DEFINE u == [k \in 1..n |-> x + 1 - f[n + 1 - k]]
           v == [k \in 1..n |-> y + 1 - g[n + 1 - k]]
<1>2. \A k \in 1..n : f[k] \in i + 1..m /\ g[k] \in j + 1..p /\ a[f[k]] = b[g[k]]
  BY <1>1 DEF IsMatch
<1>3. \A k \in 1..n : n + 1 - k \in 1..n
  OBVIOUS
<1>4. \A k \in 1..n : u[k] = x + 1 - f[n + 1 - k] /\ v[k] = y + 1 - g[n + 1 - k]
  OBVIOUS
<1>5. u \in [1..n -> (x - m) + 1..x - i] /\ v \in [1..n -> (y - p) + 1..y - j]
  <2>1. \A k \in 1..n : /\ x + 1 - f[n + 1 - k] \in (x - m) + 1..x - i
                        /\ y + 1 - g[n + 1 - k] \in (y - p) + 1..y - j
    BY <1>2, <1>3
  <2> QED
    BY <2>1
<1> HIDE DEF u, v
<1>6. \A k \in 1..n : a1[u[k]] = b1[v[k]]
  BY <1>2, <1>3, <1>4
<1>7. ASSUME NEW k \in 1..n, NEW o \in 1..k - 1 PROVE u[o] < u[k] /\ v[o] < v[k]
  <2>1. o \in 1..n /\ n + 1 - o \in 1..n /\ n + 1 - k \in 1..(n + 1 - o) - 1 /\ n + 1 - k \in 1..n
    OBVIOUS
  <2>2. f[n + 1 - k] < f[n + 1 - o] /\ g[n + 1 - k] < g[n + 1 - o]
    BY <1>1, <2>1 DEF IsMatch, Rises
  <2>3. f[n + 1 - k] \in Int /\ f[n + 1 - o] \in Int /\ g[n + 1 - k] \in Int /\ g[n + 1 - o] \in Int
    BY <1>2, <2>1
  <2> QED
    BY <1>4, <2>1, <2>2, <2>3
<1>8. IsMatch(u, v, a1, x - m, x - i, b1, y - p, y - j, n)
  BY <1>5, <1>6, <1>7 DEF IsMatch, Rises
<1> QED
  BY <1>8 DEF Match

\* No pair at all, and one.
LEMMA MatchFew ==
    ASSUME NEW a, NEW b, NEW i \in Int, NEW m \in Int, NEW j \in Int, NEW p \in Int
    PROVE  /\ Match(a, i, m, b, j, p, 0)
           /\ a[i] = b[j] => Match(a, i - 1, i, b, j - 1, j, 1)
<1>1. Match(a, i, m, b, j, p, 0)
  <2>1. IsMatch(<<>>, <<>>, a, i, m, b, j, p, 0)
    <3>1. <<>> \in [1..0 -> i + 1..m] /\ <<>> \in [1..0 -> j + 1..p]
      OBVIOUS
    <3> QED
      BY <3>1 DEF IsMatch, Rises
  <2> QED
    BY <2>1 DEF Match
<1>2. ASSUME a[i] = b[j] PROVE Match(a, i - 1, i, b, j - 1, j, 1)
  <2> DEFINE f == [k \in 1..1 |-> i]
             g == [k \in 1..1 |-> j]
  <2>1. IsMatch(f, g, a, i - 1, i, b, j - 1, j, 1)
    BY <1>2 DEF IsMatch, Rises
  <2> QED
    BY <2>1 DEF Match
<1> QED
  BY <1>1, <1>2

\* A text is paired with itself, line by line.
LEMMA MatchItself ==
    ASSUME NEW a, NEW b, NEW i \in Int, NEW n \in Nat, \A k \in i + 1..i + n : a[k] = b[k]
    PROVE  Match(a, i, i + n, b, i, i + n, n)
<1> DEFINE f == [k \in 1..n |-> i + k]
<1>1. f \in [1..n -> i + 1..i + n] /\ \A k \in 1..n : f[k] = i + k
  OBVIOUS
<1> HIDE DEF f
<1>2. IsMatch(f, f, a, i, i + n, b, i, i + n, n)
  BY <1>1 DEF IsMatch, Rises
<1> QED
  BY <1>2 DEF Match

\* Pairs within wider bounds.
LEMMA MatchWider ==
    ASSUME NEW a, NEW b, NEW i \in Int, NEW m \in Int, NEW j \in Int, NEW p \in Int, NEW n \in Nat,
           Match(a, i, m, b, j, p, n),
           NEW i1 \in Int, NEW m1 \in Int, NEW j1 \in Int, NEW p1 \in Int,
           i1 <= i, m <= m1, j1 <= j, p <= p1
    PROVE  Match(a, i1, m1, b, j1, p1, n)
<1>1. PICK f, g : IsMatch(f, g, a, i, m, b, j, p, n)
  BY DEF Match
<1>2. \A k \in 0 + 1..n : f[k] \in i1 + 1..m1 /\ g[k] \in j1 + 1..p1
  <2>1. \A k \in 1..n : f[k] \in i + 1..m /\ g[k] \in j + 1..p
    BY <1>1 DEF IsMatch
  <2> QED
    BY <2>1
<1>3. 0 \in 0..n /\ n \in 0..n /\ n - 0 = n
  OBVIOUS
<1>4. Match(a, i1, m1, b, j1, p1, n - 0)
  BY <1>1, <1>2, <1>3, MatchPart
<1> QED
  BY <1>3, <1>4

\* n is the most lines that can be paired within the bounds.
IsMost(a, i, m, b, j, p, n) ==
    /\ n \in Nat
    /\ Match(a, i, m, b, j, p, n)
    /\ \A l \in Nat : Match(a, i, m, b, j, p, l) => l <= n

\* Each entry of the table is the most lines of the two texts up to it that
\* can be paired (lcsRow).
LEMMA TableIsMost ==
    ASSUME NEW a \in Text, NEW b \in Text, NEW t,
           \A i \in 0..Len(a), k \in 0..Len(b) :
              /\ t[<<i, k>>] \in Nat
              /\ t[<<i, k>>] = IF i = 0 \/ k = 0 THEN 0
                              ELSE IF a[i] = b[k] THEN t[<<i - 1, k - 1>>] + 1
                              ELSE Max({t[<<i - 1, k>>], t[<<i, k - 1>>]})
    PROVE  \A i \in 0..Len(a), k \in 0..Len(b) : IsMost(a, 0, i, b, 0, k, t[<<i, k>>])
<1> DEFINE S == (0..Len(a)) \X (0..Len(b))
           rank == [at \in S |-> at[1] + at[2]]
           T == {at \in S : ~IsMost(a, 0, at[1], b, 0, at[2], t[at])}
<1>0. Len(a) \in Nat /\ Len(b) \in Nat
  BY DEF Text
<1>1. rank \in [S -> Nat] /\ \A i \in 0..Len(a), k \in 0..Len(b) : rank[<<i, k>>] = i + k
  BY <1>0
<1> SUFFICES ASSUME T # {} PROVE FALSE
  <2>1. \A at \in S : IsMost(a, 0, at[1], b, 0, at[2], t[at])
    OBVIOUS
  <2> SUFFICES ASSUME NEW i \in 0..Len(a), NEW k \in 0..Len(b)
               PROVE  IsMost(a, 0, i, b, 0, k, t[<<i, k>>])
    OBVIOUS
  <2>2. <<i, k>> \in S /\ <<i, k>>[1] = i /\ <<i, k>>[2] = k
    OBVIOUS
  <2> QED
    BY <2>1, <2>2
<1>2. PICK at \in T : \A u \in T : rank[at] <= rank[u]
  <2>1. T \in SUBSET S
    OBVIOUS
  <2> HIDE DEF T, S, rank
  <2> QED
    BY <1>1, <2>1, LeastRank
<1> DEFINE i == at[1]
           k == at[2]
<1>3. i \in 0..Len(a) /\ k \in 0..Len(b) /\ at = <<i, k>> /\ ~IsMost(a, 0, i, b, 0, k, t[<<i, k>>])
  OBVIOUS
<1>4. ASSUME NEW x \in 0..Len(a), NEW y \in 0..Len(b), x + y < i + k
      PROVE  IsMost(a, 0, x, b, 0, y, t[<<x, y>>])
  <2> SUFFICES ASSUME ~IsMost(a, 0, x, b, 0, y, t[<<x, y>>]) PROVE FALSE
    OBVIOUS
  <2>1. <<x, y>> \in S /\ <<x, y>>[1] = x /\ <<x, y>>[2] = y
    OBVIOUS
  <2>2. <<x, y>> \in T
    BY <2>1
  <2>3. rank[at] = i + k /\ rank[<<x, y>>] = x + y
    BY <1>1, <1>3
  <2>4. rank[at] <= rank[<<x, y>>]
    BY <1>2, <2>2
  <2> HIDE DEF i, k
  <2> QED
    BY <1>0, <1>3, <1>4, <2>3, <2>4
<1> HIDE DEF i, k, S, T, rank
<1>5. ASSUME NEW l \in Nat, Match(a, 0, i, b, 0, k, l), NEW i1 \in 0..i, NEW k1 \in 0..k,
             NEW h \in 0..l, \A f, g : IsMatch(f, g, a, 0, i, b, 0, k, l) /\ h > 0 => f[h] <= i1 /\ g[h] <= k1
      PROVE  Match(a, 0, i1, b, 0, k1, h)
  <2>1. PICK f, g : IsMatch(f, g, a, 0, i, b, 0, k, l)
    BY <1>5 DEF Match
  <2>2. ASSUME NEW o \in 0 + 1..h PROVE f[o] \in 0 + 1..i1 /\ g[o] \in 0 + 1..k1
    <3>1. h > 0 /\ f[h] <= i1 /\ g[h] <= k1 /\ h \in 1..l /\ o \in 1..l
      BY <1>5, <2>1
    <3>2. f[o] \in 0 + 1..i /\ g[o] \in 0 + 1..k /\ f[h] \in 0 + 1..i /\ g[h] \in 0 + 1..k
      BY <2>1, <3>1 DEF IsMatch
    <3>3. o = h \/ (f[o] < f[h] /\ g[o] < g[h])
      <4>1. o = h \/ o \in 1..h - 1
        OBVIOUS
      <4> QED
        BY <2>1, <3>1, <4>1 DEF IsMatch, Rises
    <3> QED
      BY <1>3, <3>1, <3>2, <3>3
  <2>3. i \in Int /\ k \in Int /\ i1 \in Int /\ k1 \in Int /\ 0 \in 0..l /\ h \in 0..h /\ h \in 0..l /\ h - 0 = h /\ 0 \in Int
    BY <1>0, <1>3
  <2>4. Match(a, 0, i1, b, 0, k1, h - 0)
    BY <2>1, <2>2, <2>3, MatchPart
  <2> QED
    BY <2>3, <2>4
<1>6. i \in Int /\ k \in Int /\ 0 \in Int
  BY <1>0, <1>3
<1>7. CASE i = 0 \/ k = 0
  <2>1. t[<<i, k>>] = 0 /\ Match(a, 0, i, b, 0, k, 0)
    BY <1>3, <1>6, <1>7, MatchFew
  <2>2. ASSUME NEW l \in Nat, Match(a, 0, i, b, 0, k, l) PROVE l <= 0
    <3>1. l = 0 \/ (l <= i - 0 /\ l <= k - 0)
      BY <1>6, <2>2, MatchFits
    <3> QED
      BY <1>6, <1>7, <3>1
  <2>3. IsMost(a, 0, i, b, 0, k, t[<<i, k>>])
    BY <2>1, <2>2 DEF IsMost
  <2> QED
    BY <1>3, <2>3
<1>8. CASE i # 0 /\ k # 0 /\ a[i] = b[k]
  <2> DEFINE n == t[<<i - 1, k - 1>>]
  <2>1. t[<<i, k>>] = n + 1
    BY <1>3, <1>8
  <2>2. /\ i - 1 \in 0..Len(a) /\ k - 1 \in 0..Len(b) /\ (i - 1) + (k - 1) < i + k
        /\ i - 1 \in 0..i /\ k - 1 \in 0..k /\ i - 1 \in Int /\ k - 1 \in Int /\ 0 <= i - 1 /\ 0 <= k - 1
    BY <1>0, <1>3, <1>8
  <2>3. IsMost(a, 0, i - 1, b, 0, k - 1, n)
    BY <1>4, <2>2
  <2> HIDE DEF n
  <2>4. Match(a, 0, i, b, 0, k, n + 1)
    <3>1. Match(a, i - 1, i, b, k - 1, k, 1)
      BY <1>6, <1>8, MatchFew
    <3>2. n \in Nat /\ Match(a, 0, i - 1, b, 0, k - 1, n) /\ 1 \in Nat
      BY <2>3 DEF IsMost
    <3>3. i - 1 <= i /\ k - 1 <= k
      BY <1>6
    <3> QED
      BY <1>6, <2>2, <3>1, <3>2, <3>3, MatchJoin
  <2>5. ASSUME NEW l \in Nat, Match(a, 0, i, b, 0, k, l) PROVE l <= n + 1
    <3>1. CASE l = 0
      BY <2>3, <3>1 DEF IsMost
    <3>2. CASE l # 0
      <4>0. l - 1 \in 0..l /\ l - 1 \in Nat
        BY <3>2
      <4>1. ASSUME NEW f, NEW g, IsMatch(f, g, a, 0, i, b, 0, k, l), l - 1 > 0
            PROVE  f[l - 1] <= i - 1 /\ g[l - 1] <= k - 1
        <5>1. l \in 1..l /\ l - 1 \in 1..l - 1 /\ l - 1 \in 1..l
          BY <4>1
        <5>2. f[l - 1] < f[l] /\ g[l - 1] < g[l]
          BY <4>1, <5>1 DEF IsMatch, Rises
        <5>3. f[l] \in 0 + 1..i /\ g[l] \in 0 + 1..k /\ f[l - 1] \in 0 + 1..i /\ g[l - 1] \in 0 + 1..k
          BY <4>1, <5>1 DEF IsMatch
        <5> QED
          BY <1>6, <5>2, <5>3
      <4>2. Match(a, 0, i - 1, b, 0, k - 1, l - 1)
        BY <1>5, <2>2, <2>5, <4>0, <4>1
      <4>3. l - 1 <= n /\ n \in Nat
        BY <2>3, <4>0, <4>2 DEF IsMost
      <4> QED
        BY <4>3
    <3> QED
      BY <3>1, <3>2
  <2>6. n + 1 \in Nat
    BY <2>3 DEF IsMost
  <2>7. IsMost(a, 0, i, b, 0, k, t[<<i, k>>])
    BY <2>1, <2>4, <2>5, <2>6 DEF IsMost
  <2> QED
    BY <1>3, <2>7
<1>9. CASE i # 0 /\ k # 0 /\ a[i] # b[k]
  <2> DEFINE n1 == t[<<i - 1, k>>]
             n2 == t[<<i, k - 1>>]
             n == Max({n1, n2})
  <2>1. t[<<i, k>>] = n
    BY <1>3, <1>9
  <2>2. /\ i - 1 \in 0..Len(a) /\ k - 1 \in 0..Len(b) /\ (i - 1) + k < i + k /\ i + (k - 1) < i + k
        /\ i - 1 \in 0..i /\ k - 1 \in 0..k /\ i \in 0..i /\ k \in 0..k
        /\ i - 1 \in Int /\ k - 1 \in Int /\ i - 1 <= i /\ k - 1 <= k /\ i <= i /\ k <= k /\ 0 <= 0
    BY <1>0, <1>3, <1>9
  <2>3. IsMost(a, 0, i - 1, b, 0, k, n1) /\ IsMost(a, 0, i, b, 0, k - 1, n2)
    BY <1>3, <1>4, <2>2
  <2>4. n1 \in Nat /\ n2 \in Nat
    BY <2>3 DEF IsMost
  <2>5. n \in {n1, n2} /\ n1 <= n /\ n2 <= n
    <3> HIDE DEF n1, n2
    <3>1. {n1, n2} \in SUBSET (0..n1 + n2) /\ n1 + n2 \in Nat /\ {n1, n2} # {}
      BY <2>4
    <3> QED
      BY <3>1, MaxIs
  <2> HIDE DEF n, n1, n2
  <2>6. Match(a, 0, i, b, 0, k, n)
    <3>1. Match(a, 0, i, b, 0, k, n1)
      BY <1>6, <2>2, <2>3, <2>4, MatchWider DEF IsMost
    <3>2. Match(a, 0, i, b, 0, k, n2)
      BY <1>6, <2>2, <2>3, <2>4, MatchWider DEF IsMost
    <3> QED
      BY <2>5, <3>1, <3>2
  <2>7. ASSUME NEW l \in Nat, Match(a, 0, i, b, 0, k, l) PROVE l <= n
    <3>1. CASE l = 0
      BY <2>4, <2>5, <3>1
    <3>2. CASE l # 0
      <4>1. PICK f, g : IsMatch(f, g, a, 0, i, b, 0, k, l)
        BY <2>7 DEF Match
      <4>2. l \in 1..l
        BY <3>2
      <4>3. f[l] \in 0 + 1..i /\ g[l] \in 0 + 1..k /\ a[f[l]] = b[g[l]]
        BY <4>1, <4>2 DEF IsMatch
      <4>4. \A o \in 1..l : f[o] \in 0 + 1..f[l] /\ g[o] \in 0 + 1..g[l]
        <5> SUFFICES ASSUME NEW o \in 1..l PROVE f[o] \in 0 + 1..f[l] /\ g[o] \in 0 + 1..g[l]
          OBVIOUS
        <5>1. f[o] \in 0 + 1..i /\ g[o] \in 0 + 1..k
          BY <4>1 DEF IsMatch
        <5>2. o = l \/ o \in 1..l - 1
          OBVIOUS
        <5>3. o = l \/ (f[o] < f[l] /\ g[o] < g[l])
          BY <4>1, <4>2, <5>2 DEF IsMatch, Rises
        <5> QED
          BY <1>6, <4>3, <5>1, <5>3
      <4>5. 0 \in 0..l /\ l \in 0..l /\ l - 0 = l
        OBVIOUS
      <4>6. CASE f[l] < i
        <5>1. \A o \in 0 + 1..l : f[o] \in 0 + 1..i - 1 /\ g[o] \in 0 + 1..k
          BY <1>6, <4>3, <4>4, <4>6
        <5>2. Match(a, 0, i - 1, b, 0, k, l - 0)
          BY <1>6, <2>2, <4>1, <4>5, <5>1, MatchPart
        <5>3. l <= n1
          BY <2>3, <4>5, <5>2 DEF IsMost
        <5> QED
          BY <2>4, <2>5, <5>3
      <4>7. CASE g[l] < k
        <5>1. \A o \in 0 + 1..l : f[o] \in 0 + 1..i /\ g[o] \in 0 + 1..k - 1
          BY <1>6, <4>3, <4>4, <4>7
        <5>2. Match(a, 0, i, b, 0, k - 1, l - 0)
          BY <1>6, <2>2, <4>1, <4>5, <5>1, MatchPart
        <5>3. l <= n2
          BY <2>3, <4>5, <5>2 DEF IsMost
        <5> QED
          BY <2>4, <2>5, <5>3
      <4>8. f[l] < i \/ g[l] < k
        BY <1>6, <1>9, <4>3
      <4> QED
        BY <4>6, <4>7, <4>8
    <3> QED
      BY <3>1, <3>2
  <2>8. IsMost(a, 0, i, b, 0, k, t[<<i, k>>])
    BY <2>1, <2>4, <2>5, <2>6, <2>7 DEF IsMost
  <2> QED
    BY <1>3, <2>8
<1> QED
  BY <1>7, <1>8, <1>9

\* The last row holds the most lines that a and each start of b share
\* (lcsRow).
LEMMA RowIsMost ==
    ASSUME NEW a \in Text, NEW b \in Text
    PROVE  \A k \in 0..Len(b) : IsMost(a, 0, Len(a), b, 0, k, LCSRow(a, b)[k])
<1>1. PICK t :
        /\ \A i \in 0..Len(a), k \in 0..Len(b) :
              /\ t[<<i, k>>] \in Nat
              /\ t[<<i, k>>] = IF i = 0 \/ k = 0 THEN 0
                              ELSE IF a[i] = b[k] THEN t[<<i - 1, k - 1>>] + 1
                              ELSE Max({t[<<i - 1, k>>], t[<<i, k - 1>>]})
        /\ LCSRow(a, b) = [k \in 0..Len(b) |-> t[<<Len(a), k>>]]
  BY TableIs
<1>2. \A i \in 0..Len(a), k \in 0..Len(b) : IsMost(a, 0, i, b, 0, k, t[<<i, k>>])
  BY <1>1, TableIsMost
<1>3. Len(a) \in 0..Len(a)
  BY DEF Text
<1> DEFINE row(k) == t[<<Len(a), k>>]
<1>4. \A k \in 0..Len(b) : IsMost(a, 0, Len(a), b, 0, k, row(k))
  BY <1>2, <1>3
<1>5. LCSRow(a, b) = [k \in 0..Len(b) |-> row(k)]
  BY <1>1
<1> HIDE DEF row
<1>6. \A k \in 0..Len(b) : LCSRow(a, b)[k] = row(k)
  BY <1>5
<1> QED
  BY <1>4, <1>6

\* A set of numbers up to n that has with each the ones before it is a start
\* of them.
LEMMA StartIs ==
    ASSUME NEW n \in Nat, NEW P \in SUBSET (1..n), \A k \in P : \A o \in 1..k - 1 : o \in P
    PROVE  \E h \in 0..n : \A k \in 1..n : k \in P <=> k <= h
<1> DEFINE T == P \cup {0}
           h == Max(T)
<1>1. T \in SUBSET (0..n) /\ T # {}
  OBVIOUS
<1>2. h \in T /\ \A k \in T : k <= h
  <2> HIDE DEF T
  <2> QED
    BY <1>1, MaxIs
<1>3. ASSUME NEW k \in 1..n PROVE k \in P <=> k <= h
  <2>1. k \in P => k <= h
    BY <1>2
  <2>2. ASSUME k <= h PROVE k \in P
    <3> HIDE DEF h
    <3>1. h \in P /\ h \in 1..n
      BY <1>2, <2>2
    <3>2. k = h \/ k \in 1..h - 1
      BY <2>2, <3>1
    <3> QED
      BY <3>1, <3>2
  <2> QED
    BY <2>1, <2>2
<1>4. h \in 0..n
  BY <1>1, <1>2
<1> QED
  BY <1>3, <1>4

\* A pair of places that rise in both, cut where the first text is.
LEMMA MatchCut ==
    ASSUME NEW a, NEW b, NEW i \in Int, NEW m \in Int, NEW j \in Int, NEW p \in Int, NEW n \in Nat,
           Match(a, i, m, b, j, p, n), NEW mid \in Int, i <= mid, mid <= m, j <= p
    PROVE  \E h \in 0..n : \E c \in j..p :
              Match(a, i, mid, b, j, c, h) /\ Match(a, mid, m, b, c, p, n - h)
<1>1. PICK f, g : IsMatch(f, g, a, i, m, b, j, p, n)
  BY DEF Match
<1> DEFINE P == {k \in 1..n : f[k] <= mid}
<1>2. \A k \in 1..n : f[k] \in i + 1..m /\ g[k] \in j + 1..p
  BY <1>1 DEF IsMatch
<1>3. \A k \in 1..n : \A o \in 1..k - 1 : o \in 1..n /\ f[o] < f[k] /\ g[o] < g[k]
  BY <1>1 DEF IsMatch, Rises
<1>4. PICK h \in 0..n : \A k \in 1..n : k \in P <=> k <= h
  <2>1. P \in SUBSET (1..n)
    OBVIOUS
  <2>2. \A k \in P : \A o \in 1..k - 1 : o \in P
    <3> SUFFICES ASSUME NEW k \in P, NEW o \in 1..k - 1 PROVE o \in P
      OBVIOUS
    <3>1. k \in 1..n /\ f[k] <= mid
      OBVIOUS
    <3>2. o \in 1..n /\ f[o] < f[k] /\ f[o] \in i + 1..m /\ f[k] \in i + 1..m
      BY <1>2, <1>3, <3>1
    <3> QED
      BY <3>1, <3>2
  <2> HIDE DEF P
  <2> QED
    BY <2>1, <2>2, StartIs
<1> DEFINE c == IF h = 0 THEN j ELSE g[h]
<1>5. c \in j..p
  BY <1>2
<1>6. \A k \in 0 + 1..h : f[k] \in i + 1..mid /\ g[k] \in j + 1..c
  <2> SUFFICES ASSUME NEW k \in 0 + 1..h PROVE f[k] \in i + 1..mid /\ g[k] \in j + 1..c
    OBVIOUS
  <2>1. k \in 1..n /\ k <= h /\ h # 0 /\ h \in 1..n /\ (k = h \/ k \in 1..h - 1)
    OBVIOUS
  <2>2. f[k] <= mid /\ f[k] \in i + 1..m /\ g[k] \in j + 1..p /\ g[h] \in j + 1..p
    BY <1>2, <1>4, <2>1
  <2>3. k = h \/ g[k] < g[h]
    BY <1>3, <2>1
  <2>4. c = g[h]
    BY <2>1
  <2> HIDE DEF c, P
  <2> QED
    BY <2>2, <2>3, <2>4
<1>7. \A k \in h + 1..n : f[k] \in mid + 1..m /\ g[k] \in c + 1..p
  <2> SUFFICES ASSUME NEW k \in h + 1..n PROVE f[k] \in mid + 1..m /\ g[k] \in c + 1..p
    OBVIOUS
  <2>1. k \in 1..n /\ ~(k <= h)
    OBVIOUS
  <2>2. f[k] > mid /\ f[k] \in i + 1..m /\ g[k] \in j + 1..p
    BY <1>2, <1>4, <2>1
  <2>3. CASE h = 0
    BY <2>2, <2>3
  <2>4. CASE h # 0
    <3>1. h \in 1..k - 1
      BY <2>4
    <3>2. g[h] < g[k] /\ g[h] \in j + 1..p
      BY <1>2, <1>3, <2>1, <3>1
    <3>3. c = g[h]
      BY <2>4
    <3> HIDE DEF c, P
    <3> QED
      BY <2>2, <3>2, <3>3
  <2> QED
    BY <2>3, <2>4
<1> HIDE DEF c, P
<1>8. /\ 0 \in 0..n /\ h \in 0..h /\ h \in 0..n /\ n \in h..n /\ h - 0 = h /\ c \in Int
      /\ h \in 0..n /\ n \in Nat /\ h \in Int
  BY <1>5
<1>9. Match(a, i, mid, b, j, c, h - 0)
  <2>1. h \in 0..n /\ 0 \in 0..n
    OBVIOUS
  <2> QED
    BY <1>1, <1>6, <1>8, MatchPart
<1>10. Match(a, mid, m, b, c, p, n - h)
  BY <1>1, <1>7, <1>8, MatchPart
<1> QED
  BY <1>5, <1>8, <1>9, <1>10

-----------------------------------------------------------------------------
(* A longest common subsequence.                                           *)

\* The lines of s stand in a after place i up to m, in their order.
InPart(s, a, i, m) == Match(s, 0, Len(s), a, i, m, Len(s))

\* The most lines two texts share, in an order both have them in.
IsLCS(s, a, b) ==
    /\ s \in Text
    /\ InPart(s, a, 0, Len(a))
    /\ InPart(s, b, 0, Len(b))
    /\ \A l \in Nat : Match(a, 0, Len(a), b, 0, Len(b), l) => l <= Len(s)

\* Lines that stand in one part of a text, and lines in the part after it.
LEMMA PartsJoin ==
    ASSUME NEW s \in Text, NEW t \in Text, NEW a, NEW i \in Int, NEW m \in Int, NEW p \in Int,
           i <= m, m <= p, InPart(s, a, i, m), InPart(t, a, m, p)
    PROVE  InPart(s \o t, a, i, p)
<1>1. Len(s) \in Nat /\ Len(t) \in Nat /\ s \in Seq(Line) /\ t \in Seq(Line)
  BY DEF Text
<1>2. Len(s \o t) = Len(s) + Len(t)
  BY <1>1
<1> DEFINE n == Len(s)
           o == Len(t)
           u == s \o t
<1>3. \A k \in 0 + 1..n : u[k + 0] = s[k]
  BY <1>1
<1>4. \A k \in 0 + 1..o : u[k + n] = t[k]
  BY <1>1
<1> HIDE DEF n, o, u
<1>5. n \in Nat /\ o \in Nat /\ n \in Int /\ o \in Int /\ 0 \in Int
  BY <1>1 DEF n, o
<1>6. Match(s, 0, n, a, i, m, n) /\ Match(t, 0, o, a, m, p, o)
  BY DEF InPart, n, o
<1>7. \A k \in i + 1..m : a[k + 0] = a[k]
  OBVIOUS
<1>8. \A k \in m + 1..p : a[k + 0] = a[k]
  OBVIOUS
<1>9. Match(u, 0 + 0, n + 0, a, i + 0, m + 0, n)
  BY <1>3, <1>5, <1>6, <1>7, MatchMoved
<1>10. Match(u, 0 + n, o + n, a, m + 0, p + 0, o)
  BY <1>4, <1>5, <1>6, <1>8, MatchMoved
<1>11. /\ 0 + 0 = 0 /\ n + 0 = n /\ i + 0 = i /\ m + 0 = m /\ p + 0 = p /\ 0 + n = n /\ o + n = n + o
       /\ 0 <= n /\ n <= n + o /\ n + o \in Int
  BY <1>5
<1>12. Match(u, 0, n, a, i, m, n) /\ Match(u, n, n + o, a, m, p, o)
  BY <1>9, <1>10, <1>11
<1>13. Match(u, 0, n + o, a, i, p, n + o)
  BY <1>5, <1>11, <1>12, MatchJoin
<1> QED
  BY <1>2, <1>13 DEF InPart, n, o, u

\* Lines that stand in a part of a text, taken for itself.
LEMMA PartOf ==
    ASSUME NEW s \in Text, NEW a \in Text, NEW i \in 0..Len(a), NEW m \in i..Len(a),
           InPart(s, SubSeq(a, i + 1, m), 0, Len(SubSeq(a, i + 1, m)))
    PROVE  InPart(s, a, i, m)
<1> DEFINE c == SubSeq(a, i + 1, m)
<1>1. Len(s) \in Nat /\ Len(a) \in Nat
  BY DEF Text
<1>2. i + 1 \in 1..Len(a) + 1 /\ m \in 0..Len(a) /\ i \in Int /\ m \in Int
  BY <1>1
<1>3. Len(c) = m - i /\ \A k \in 1..m - (i + 1) + 1 : c[k] = a[(i + 1) + k - 1]
  <2>1. /\ Len(c) = IF i + 1 <= m THEN m - (i + 1) + 1 ELSE 0
        /\ \A k \in 1..m - (i + 1) + 1 : c[k] = a[(i + 1) + k - 1]
    BY <1>2, PartIs DEF Text
  <2> HIDE DEF c
  <2> QED
    BY <1>2, <2>1
<1> DEFINE n == Len(s)
<1>4. n \in Nat /\ Match(s, 0, n, c, 0, m - i, n)
  BY <1>1, <1>3 DEF InPart
<1>5. \A k \in 0 + 1..m - i : a[k + i] = c[k]
  <2> SUFFICES ASSUME NEW k \in 0 + 1..m - i PROVE a[k + i] = c[k]
    OBVIOUS
  <2>1. k \in 1..m - (i + 1) + 1 /\ (i + 1) + k - 1 = k + i
    BY <1>2
  <2> HIDE DEF c
  <2> QED
    BY <1>3, <2>1
<1> HIDE DEF c, n
<1>6. \A k \in 0 + 1..n : s[k + 0] = s[k]
  OBVIOUS
<1>7. Match(s, 0 + 0, n + 0, a, 0 + i, (m - i) + i, n)
  <2>1. 0 \in Int /\ n \in Int /\ m - i \in Int
    BY <1>2, <1>4
  <2> QED
    BY <1>2, <1>4, <1>5, <1>6, <2>1, MatchMoved
<1>8. 0 + 0 = 0 /\ n + 0 = n /\ 0 + i = i /\ (m - i) + i = m
  BY <1>2, <1>4
<1> QED
  BY <1>7, <1>8 DEF InPart, n

\* A pairing within parts of two texts is one of the parts.
LEMMA MatchOfParts ==
    ASSUME NEW a \in Text, NEW b \in Text, NEW n \in Nat,
           NEW i \in 0..Len(a), NEW m \in i..Len(a), NEW j \in 0..Len(b), NEW p \in j..Len(b),
           Match(a, i, m, b, j, p, n)
    PROVE  /\ Len(SubSeq(a, i + 1, m)) = m - i /\ Len(SubSeq(b, j + 1, p)) = p - j
           /\ Match(SubSeq(a, i + 1, m), 0, m - i, SubSeq(b, j + 1, p), 0, p - j, n)
<1> DEFINE c == SubSeq(a, i + 1, m)
           d == SubSeq(b, j + 1, p)
<1>1. Len(a) \in Nat /\ Len(b) \in Nat
  BY DEF Text
<1>2. /\ i + 1 \in 1..Len(a) + 1 /\ m \in 0..Len(a) /\ i \in Int /\ m \in Int
      /\ j + 1 \in 1..Len(b) + 1 /\ p \in 0..Len(b) /\ j \in Int /\ p \in Int
  BY <1>1
<1>3. /\ Len(c) = IF i + 1 <= m THEN m - (i + 1) + 1 ELSE 0
      /\ \A k \in 1..m - (i + 1) + 1 : c[k] = a[(i + 1) + k - 1]
  BY <1>2, PartIs DEF Text
<1>4. /\ Len(d) = IF j + 1 <= p THEN p - (j + 1) + 1 ELSE 0
      /\ \A k \in 1..p - (j + 1) + 1 : d[k] = b[(j + 1) + k - 1]
  BY <1>2, PartIs DEF Text
<1> HIDE DEF c, d
<1>5. Len(c) = m - i /\ Len(d) = p - j
  BY <1>2, <1>3, <1>4
<1>6. ASSUME NEW k \in i + 1..m PROVE c[k + (-i)] = a[k]
  <2>1. k + (-i) \in 1..m - (i + 1) + 1 /\ (i + 1) + (k + (-i)) - 1 = k
    BY <1>2
  <2> QED
    BY <1>3, <2>1
<1>7. ASSUME NEW k \in j + 1..p PROVE d[k + (-j)] = b[k]
  <2>1. k + (-j) \in 1..p - (j + 1) + 1 /\ (j + 1) + (k + (-j)) - 1 = k
    BY <1>2
  <2> QED
    BY <1>4, <2>1
<1>8. Match(c, i + (-i), m + (-i), d, j + (-j), p + (-j), n)
  <2>1. -i \in Int /\ -j \in Int
    BY <1>2
  <2> QED
    BY <1>2, <1>6, <1>7, <2>1, MatchMoved
<1>9. i + (-i) = 0 /\ m + (-i) = m - i /\ j + (-j) = 0 /\ p + (-j) = p - j
  BY <1>2
<1>10. Match(c, 0, m - i, d, 0, p - j, n)
  BY <1>8, <1>9
<1> QED
  BY <1>5, <1>10 DEF c, d

\* A part of a text stands where it was taken from, and in a text that is
\* alike there.
LEMMA PartStands ==
    ASSUME NEW a \in Text, NEW i \in 0..Len(a), NEW m \in i..Len(a), NEW b, NEW j \in Int,
           \A k \in 1..m - i : b[j + k] = a[i + k]
    PROVE  /\ SubSeq(a, i + 1, m) \in Text /\ Len(SubSeq(a, i + 1, m)) = m - i
           /\ InPart(SubSeq(a, i + 1, m), b, j, j + (m - i))
<1> DEFINE c == SubSeq(a, i + 1, m)
           n == m - i
<1>1. Len(a) \in Nat
  BY DEF Text
<1>2. i + 1 \in 1..Len(a) + 1 /\ m \in 0..Len(a) /\ i \in Int /\ m \in Int /\ n \in Nat
  BY <1>1
<1>3. /\ c \in Text /\ Len(c) = IF i + 1 <= m THEN m - (i + 1) + 1 ELSE 0
      /\ \A k \in 1..m - (i + 1) + 1 : c[k] = a[(i + 1) + k - 1]
  BY <1>2, PartIs DEF Text
<1> HIDE DEF c
<1>4. Len(c) = n
  BY <1>2, <1>3
<1>5. ASSUME NEW k \in 1..n PROVE c[k] = b[j + k]
  <2>1. k \in 1..m - (i + 1) + 1 /\ (i + 1) + k - 1 = i + k
    BY <1>2
  <2> QED
    BY <1>3, <2>1
<1> HIDE DEF n
<1>6. \A k \in 0 + 1..0 + n : c[k] = c[k]
  OBVIOUS
<1>7. Match(c, 0, 0 + n, c, 0, 0 + n, n)
  <2>1. 0 \in Int
    OBVIOUS
  <2> QED
    BY <1>2, <1>6, <2>1, MatchItself
<1>8. 0 + n = n
  BY <1>2
<1>9. Match(c, 0, n, c, 0, n, n)
  BY <1>7, <1>8
<1>10. \A k \in 0 + 1..n : c[k + 0] = c[k]
  BY <1>2
<1>11. \A k \in 0 + 1..n : b[k + j] = c[k]
  <2> SUFFICES ASSUME NEW k \in 0 + 1..n PROVE b[k + j] = c[k]
    OBVIOUS
  <2>1. k \in 1..n /\ k + j = j + k
    BY <1>2
  <2> QED
    BY <1>5, <2>1 DEF n
<1>12. Match(c, 0 + 0, n + 0, b, 0 + j, n + j, n)
  <2>1. 0 \in Int /\ n \in Int
    BY <1>2
  <2> QED
    BY <1>2, <1>9, <1>10, <1>11, <2>1, MatchMoved
<1>13. 0 + 0 = 0 /\ n + 0 = n /\ 0 + j = j /\ n + j = j + n
  BY <1>2
<1>14. InPart(c, b, j, j + n)
  BY <1>4, <1>12, <1>13 DEF InPart
<1> QED
  BY <1>3, <1>4, <1>14 DEF n, c

\* Lines that both texts start with can be taken as shared (LCS).
LEMMA HeadFirst ==
    ASSUME NEW a \in Text, NEW b \in Text, NEW h \in 0..Len(a), h \in 0..Len(b),
           \A k \in 1..h : a[k] = b[k], NEW s,
           IsLCS(s, SubSeq(a, h + 1, Len(a)), SubSeq(b, h + 1, Len(b)))
    PROVE  IsLCS(SubSeq(a, 1, h) \o s, a, b)
<1> DEFINE c == SubSeq(a, 1, h)
<1>1. /\ Len(a) \in Nat /\ Len(b) \in Nat /\ s \in Text /\ Len(s) \in Nat
      /\ h \in Int /\ Len(a) \in Int /\ Len(b) \in Int /\ 0 <= h /\ h <= Len(a) /\ h <= Len(b)
      /\ Len(a) \in h..Len(a) /\ Len(b) \in h..Len(b) /\ h \in 0..h /\ 0 \in 0..Len(a)
  BY DEF Text, IsLCS
<1>2. c \in Text /\ Len(c) = h /\ InPart(c, a, 0, h) /\ InPart(c, b, 0, h)
  <2>1. \A k \in 1..h - 0 : a[0 + k] = a[0 + k]
    OBVIOUS
  <2>2. \A k \in 1..h - 0 : b[0 + k] = a[0 + k]
    OBVIOUS
  <2>3. 0 \in Int /\ 0 + 1 = 1 /\ h - 0 = h /\ 0 + (h - 0) = h /\ h \in 0..Len(a)
    BY <1>1
  <2>4. /\ SubSeq(a, 0 + 1, h) \in Text /\ Len(SubSeq(a, 0 + 1, h)) = h - 0
        /\ InPart(SubSeq(a, 0 + 1, h), a, 0, 0 + (h - 0))
    BY <1>1, <2>1, <2>3, PartStands
  <2>5. InPart(SubSeq(a, 0 + 1, h), b, 0, 0 + (h - 0))
    BY <1>1, <2>2, <2>3, PartStands
  <2> QED
    BY <2>3, <2>4, <2>5
<1> HIDE DEF c
<1>3. InPart(s, a, h, Len(a)) /\ InPart(s, b, h, Len(b))
  <2>1. InPart(s, a, h, Len(a))
    BY <1>1, PartOf DEF IsLCS
  <2>2. InPart(s, b, h, Len(b))
    BY <1>1, PartOf DEF IsLCS
  <2> QED
    BY <2>1, <2>2
<1>4. InPart(c \o s, a, 0, Len(a)) /\ InPart(c \o s, b, 0, Len(b))
  BY <1>1, <1>2, <1>3, PartsJoin
<1>5. c \o s \in Text /\ Len(c \o s) = h + Len(s)
  BY <1>1, <1>2, ConcatProperties DEF Text
<1>6. ASSUME NEW l \in Nat, Match(a, 0, Len(a), b, 0, Len(b), l) PROVE l <= h + Len(s)
  <2>1. PICK f, g : IsMatch(f, g, a, 0, Len(a), b, 0, Len(b), l)
    BY <1>6 DEF Match
  <2>2. \A k \in 1..l : f[k] \in 0 + 1..Len(a) /\ g[k] \in 0 + 1..Len(b)
    BY <2>1 DEF IsMatch
  <2>3. \A k \in 1..l : \A o \in 1..k - 1 : o \in 1..l /\ f[o] < f[k] /\ g[o] < g[k]
    BY <2>1 DEF IsMatch, Rises
  <2> DEFINE P == {k \in 1..l : f[k] <= h \/ g[k] <= h}
  <2>4. PICK n \in 0..l : \A k \in 1..l : k \in P <=> k <= n
    <3>1. P \in SUBSET (1..l)
      OBVIOUS
    <3>2. \A k \in P : \A o \in 1..k - 1 : o \in P
      <4> SUFFICES ASSUME NEW k \in P, NEW o \in 1..k - 1 PROVE o \in P
        OBVIOUS
      <4>1. k \in 1..l /\ (f[k] <= h \/ g[k] <= h)
        OBVIOUS
      <4>2. /\ o \in 1..l /\ f[o] < f[k] /\ g[o] < g[k]
            /\ f[o] \in 0 + 1..Len(a) /\ f[k] \in 0 + 1..Len(a)
            /\ g[o] \in 0 + 1..Len(b) /\ g[k] \in 0 + 1..Len(b)
        BY <2>2, <2>3, <4>1
      <4>3. f[o] <= h \/ g[o] <= h
        BY <1>1, <4>1, <4>2
      <4> QED
        BY <4>2, <4>3
    <3> HIDE DEF P
    <3> QED
      BY <3>1, <3>2, StartIs
  <2>5. n <= h
    <3>1. CASE n = 0
      BY <1>1, <3>1
    <3>2. CASE n # 0
      <4>1. n \in 1..l /\ (f[n] <= h \/ g[n] <= h)
        <5>1. n \in 1..l /\ n <= n
          BY <3>2
        <5> QED
          BY <2>4, <5>1
      <4>2. f[n] \in Int /\ f[n] >= 0 + n /\ g[n] \in Int /\ g[n] >= 0 + n
        <5>1. /\ f \in [1..l -> 0 + 1..Len(a)] /\ g \in [1..l -> 0 + 1..Len(b)] /\ Rises(f, l) /\ Rises(g, l)
             /\ 0 \in Int
          BY <2>1 DEF IsMatch
        <5>2. f[n] \in Int /\ f[n] >= 0 + n
          BY <1>1, <4>1, <5>1, RisesFar
        <5>3. g[n] \in Int /\ g[n] >= 0 + n
          BY <1>1, <4>1, <5>1, RisesFar
        <5> QED
          BY <5>2, <5>3
      <4> QED
        BY <1>1, <4>1, <4>2
    <3> QED
      BY <3>1, <3>2
  <2>6. \A k \in n + 1..l : f[k] \in h + 1..Len(a) /\ g[k] \in h + 1..Len(b)
    <3> SUFFICES ASSUME NEW k \in n + 1..l PROVE f[k] \in h + 1..Len(a) /\ g[k] \in h + 1..Len(b)
      OBVIOUS
    <3>1. k \in 1..l /\ ~(k <= n)
      OBVIOUS
    <3>2. ~(f[k] <= h) /\ ~(g[k] <= h)
      BY <2>4, <3>1
    <3>3. f[k] \in 0 + 1..Len(a) /\ g[k] \in 0 + 1..Len(b)
      BY <2>2, <3>1
    <3> HIDE DEF P
    <3> QED
      BY <1>1, <3>2, <3>3
  <2> HIDE DEF P
  <2>7. Match(a, h, Len(a), b, h, Len(b), l - n)
    <3>1. l \in n..l
      OBVIOUS
    <3> QED
      BY <1>1, <2>1, <2>6, <3>1, MatchPart
  <2> DEFINE d == SubSeq(a, h + 1, Len(a))
             e == SubSeq(b, h + 1, Len(b))
             r == l - n
  <2>8. r \in Nat
    OBVIOUS
  <2>9. Len(d) = Len(a) - h /\ Len(e) = Len(b) - h /\ Match(d, 0, Len(a) - h, e, 0, Len(b) - h, r)
    <3>1. h \in 0..Len(a) /\ h \in 0..Len(b)
      BY <1>1
    <3> HIDE DEF r
    <3> QED
      BY <1>1, <2>7, <2>8, <3>1, MatchOfParts DEF r
  <2>10. r <= Len(s)
    <3> HIDE DEF r, d, e
    <3> QED
      BY <2>8, <2>9 DEF IsLCS, d, e
  <2> QED
    BY <1>1, <2>5, <2>10
<1>7. IsLCS(c \o s, a, b)
  BY <1>4, <1>5, <1>6 DEF IsLCS
<1> QED
  BY <1>7 DEF c

\* Lines that both texts end with can be taken as shared (LCS).
LEMMA TailLast ==
    ASSUME NEW a \in Text, NEW b \in Text, NEW h \in 0..Len(a), h \in 0..Len(b),
           \A k \in 1..h : a[Len(a) - h + k] = b[Len(b) - h + k], NEW s,
           IsLCS(s, SubSeq(a, 1, Len(a) - h), SubSeq(b, 1, Len(b) - h))
    PROVE  IsLCS(s \o SubSeq(a, Len(a) - h + 1, Len(a)), a, b)
<1> DEFINE x == Len(a) - h
           y == Len(b) - h
           c == SubSeq(a, x + 1, Len(a))
<1>1. /\ Len(a) \in Nat /\ Len(b) \in Nat /\ s \in Text /\ Len(s) \in Nat /\ h \in Nat
      /\ x \in 0..Len(a) /\ y \in 0..Len(b) /\ Len(a) \in x..Len(a) /\ Len(b) \in y..Len(b)
      /\ Len(a) - x = h /\ Len(b) - y = h /\ x \in Int /\ y \in Int
      /\ Len(a) \in Int /\ Len(b) \in Int /\ 0 <= x /\ x <= Len(a) /\ 0 <= y /\ y <= Len(b)
      /\ x + h = Len(a) /\ y + h = Len(b)
  BY DEF Text, IsLCS
<1>2. \A k \in 1..h : b[y + k] = a[x + k]
  OBVIOUS
<1>3. IsLCS(s, SubSeq(a, 1, x), SubSeq(b, 1, y))
  OBVIOUS
<1>4. SubSeq(a, Len(a) - h + 1, Len(a)) = c
  OBVIOUS
<1> HIDE DEF x, y
<1>5. c \in Text /\ Len(c) = h /\ InPart(c, a, x, Len(a)) /\ InPart(c, b, y, Len(b))
  <2>1. \A k \in 1..Len(a) - x : a[x + k] = a[x + k]
    OBVIOUS
  <2>2. \A k \in 1..Len(a) - x : b[y + k] = a[x + k]
    BY <1>1, <1>2
  <2>3. c \in Text /\ Len(c) = Len(a) - x /\ InPart(c, a, x, x + (Len(a) - x))
    BY <1>1, <2>1, PartStands
  <2>4. InPart(c, b, y, y + (Len(a) - x))
    BY <1>1, <2>2, PartStands
  <2> HIDE DEF c
  <2>5. x + (Len(a) - x) = Len(a) /\ y + (Len(a) - x) = Len(b)
    BY <1>1
  <2> QED
    BY <1>1, <2>3, <2>4, <2>5
<1> HIDE DEF c
<1>6. InPart(s, a, 0, x) /\ InPart(s, b, 0, y)
  <2>0. 0 + 1 = 1 /\ 0 \in 0..Len(a) /\ 0 \in 0..Len(b) /\ x \in 0..Len(a) /\ y \in 0..Len(b)
    BY <1>1
  <2>1. InPart(s, a, 0, x)
    BY <1>1, <1>3, <2>0, PartOf DEF IsLCS
  <2>2. InPart(s, b, 0, y)
    BY <1>1, <1>3, <2>0, PartOf DEF IsLCS
  <2> QED
    BY <2>1, <2>2
<1>7. InPart(s \o c, a, 0, Len(a)) /\ InPart(s \o c, b, 0, Len(b))
  BY <1>1, <1>5, <1>6, PartsJoin
<1>8. s \o c \in Text /\ Len(s \o c) = Len(s) + h
  <2>1. s \in Seq(Line) /\ c \in Seq(Line) /\ Len(c) = h
    BY <1>1, <1>5 DEF Text
  <2>2. s \o c \in Seq(Line) /\ Len(s \o c) = Len(s) + Len(c)
    BY <2>1, ConcatProperties
  <2> QED
    BY <2>1, <2>2 DEF Text
<1>9. ASSUME NEW l \in Nat, Match(a, 0, Len(a), b, 0, Len(b), l) PROVE l <= Len(s) + h
  <2>1. PICK f, g : IsMatch(f, g, a, 0, Len(a), b, 0, Len(b), l)
    BY <1>9 DEF Match
  <2>2. \A k \in 1..l : f[k] \in 0 + 1..Len(a) /\ g[k] \in 0 + 1..Len(b)
    BY <2>1 DEF IsMatch
  <2>3. \A k \in 1..l : \A o \in 1..k - 1 : o \in 1..l /\ f[o] < f[k] /\ g[o] < g[k]
    BY <2>1 DEF IsMatch, Rises
  <2> DEFINE P == {k \in 1..l : f[k] <= x /\ g[k] <= y}
  <2>4. PICK n \in 0..l : \A k \in 1..l : k \in P <=> k <= n
    <3>1. P \in SUBSET (1..l)
      OBVIOUS
    <3>2. \A k \in P : \A o \in 1..k - 1 : o \in P
      <4> SUFFICES ASSUME NEW k \in P, NEW o \in 1..k - 1 PROVE o \in P
        OBVIOUS
      <4>1. k \in 1..l /\ f[k] <= x /\ g[k] <= y
        OBVIOUS
      <4>2. /\ o \in 1..l /\ f[o] < f[k] /\ g[o] < g[k]
            /\ f[o] \in 0 + 1..Len(a) /\ f[k] \in 0 + 1..Len(a)
            /\ g[o] \in 0 + 1..Len(b) /\ g[k] \in 0 + 1..Len(b)
        BY <2>2, <2>3, <4>1
      <4>3. x \in Int /\ y \in Int
        BY <1>1
      <4>4. f[o] <= x /\ g[o] <= y
        <5> HIDE DEF P
        <5>1. f[o] \in Int /\ f[k] \in Int /\ g[o] \in Int /\ g[k] \in Int
          BY <4>2
        <5> QED
          BY <4>1, <4>2, <4>3, <5>1
      <4> QED
        BY <4>2, <4>4
    <3> HIDE DEF P
    <3> QED
      BY <3>1, <3>2, StartIs
  <2>5. l - n <= h
    <3>1. CASE n = l
      BY <1>1, <3>1
    <3>2. CASE n # l
      <4> DEFINE k == n + 1
      <4>1. k \in 1..l /\ (f[k] > x \/ g[k] > y)
        <5>1. k \in 1..l /\ ~(k <= n)
          BY <3>2
        <5>2. ~(f[k] <= x /\ g[k] <= y)
          BY <2>4, <5>1
        <5>3. f[k] \in 0 + 1..Len(a) /\ g[k] \in 0 + 1..Len(b)
          BY <2>2, <5>1
        <5> HIDE DEF k, P
        <5> QED
          BY <1>1, <5>1, <5>2, <5>3
      <4>2. f[k] \in Int /\ f[k] <= Len(a) - (l - k) /\ g[k] \in Int /\ g[k] <= Len(b) - (l - k)
        <5>1. /\ f \in [1..l -> 0 + 1..Len(a)] /\ g \in [1..l -> 0 + 1..Len(b)] /\ Rises(f, l) /\ Rises(g, l)
             /\ 0 \in Int
          BY <2>1 DEF IsMatch
        <5> HIDE DEF k
        <5>2. f[k] \in Int /\ f[k] <= Len(a) - (l - k)
          BY <1>1, <4>1, <5>1, RisesFar
        <5>3. g[k] \in Int /\ g[k] <= Len(b) - (l - k)
          BY <1>1, <4>1, <5>1, RisesFar
        <5> QED
          BY <5>2, <5>3
      <4>3. l - k = l - n - 1 /\ l - n \in Int
        OBVIOUS
      <4> DEFINE q == l - k
      <4>4. q \in Int /\ l - n = q + 1
        BY <4>3
      <4> HIDE DEF k, q, P
      <4>5. f[k] <= Len(a) - q /\ g[k] <= Len(b) - q
        BY <4>2 DEF q
      <4>6. /\ f[k] \in Int /\ g[k] \in Int /\ (f[k] > x \/ g[k] > y)
            /\ x \in Int /\ y \in Int /\ Len(a) = x + h /\ Len(b) = y + h
        BY <1>1, <4>1, <4>2
      <4>7. \A u, v, w, d, r \in Int : u > v /\ w = v + d /\ u <= w - r => r + 1 <= d
        OBVIOUS
      <4>8. q + 1 <= h
        <5>1. h \in Int
          BY <1>1
        <5> QED
          BY <1>1, <4>4, <4>5, <4>6, <4>7, <5>1
      <4> QED
        BY <4>4, <4>8
    <3> QED
      BY <3>1, <3>2
  <2>6. \A k \in 0 + 1..n : f[k] \in 0 + 1..x /\ g[k] \in 0 + 1..y
    <3> SUFFICES ASSUME NEW k \in 0 + 1..n PROVE f[k] \in 0 + 1..x /\ g[k] \in 0 + 1..y
      OBVIOUS
    <3>1. k \in 1..l /\ k <= n
      OBVIOUS
    <3>2. f[k] <= x /\ g[k] <= y
      BY <2>4, <3>1
    <3>3. f[k] \in 0 + 1..Len(a) /\ g[k] \in 0 + 1..Len(b)
      BY <2>2, <3>1
    <3> HIDE DEF P
    <3> QED
      BY <1>1, <3>2, <3>3
  <2> HIDE DEF P
  <2>7. Match(a, 0, x, b, 0, y, n)
    <3>1. 0 \in 0..l /\ n \in 0..l /\ n \in 0..n /\ n - 0 = n /\ 0 \in Int
      OBVIOUS
    <3>2. Match(a, 0, x, b, 0, y, n - 0)
      BY <1>1, <2>1, <2>6, <3>1, MatchPart
    <3> QED
      BY <3>1, <3>2
  <2>8. n \in Nat
    OBVIOUS
  <2> DEFINE d == SubSeq(a, 1, x)
             e == SubSeq(b, 1, y)
  <2>9. Len(d) = x /\ Len(e) = y /\ Match(d, 0, x, e, 0, y, n)
    <3>1. 0 + 1 = 1 /\ 0 \in 0..Len(a) /\ 0 \in 0..Len(b) /\ x \in 0..Len(a) /\ y \in 0..Len(b) /\ x - 0 = x /\ y - 0 = y
      BY <1>1
    <3>2. Len(SubSeq(a, 0 + 1, x)) = x - 0 /\ Len(SubSeq(b, 0 + 1, y)) = y - 0
          /\ Match(SubSeq(a, 0 + 1, x), 0, x - 0, SubSeq(b, 0 + 1, y), 0, y - 0, n)
      BY <1>1, <2>7, <2>8, <3>1, MatchOfParts
    <3> QED
      BY <3>1, <3>2
  <2>10. n <= Len(s)
    <3> HIDE DEF d, e
    <3> QED
      BY <1>3, <2>8, <2>9 DEF IsLCS, d, e
  <2> QED
    BY <1>1, <2>5, <2>8, <2>10
<1>10. IsLCS(s \o c, a, b)
  BY <1>7, <1>8, <1>9 DEF IsLCS
<1> QED
  BY <1>4, <1>10

\* Nothing is shared with no lines.
LEMMA NothingShared ==
    ASSUME NEW a \in Text, NEW b \in Text, a = <<>> \/ b = <<>>
    PROVE  IsLCS(<<>>, a, b)
<1>1. /\ Len(a) \in Nat /\ Len(b) \in Nat /\ Len(<<>>) = 0 /\ <<>> \in Text
      /\ Len(a) \in Int /\ Len(b) \in Int /\ 0 \in Int
      /\ Len(a) = 0 \/ Len(b) = 0
  BY DEF Text
<1>2. InPart(<<>>, a, 0, Len(a)) /\ InPart(<<>>, b, 0, Len(b))
  BY <1>1, MatchFew DEF InPart
<1>3. ASSUME NEW l \in Nat, Match(a, 0, Len(a), b, 0, Len(b), l) PROVE l <= Len(<<>>)
  <2>1. l = 0 \/ (l <= Len(a) - 0 /\ l <= Len(b) - 0)
    BY <1>1, <1>3, MatchFits
  <2> QED
    BY <1>1, <2>1
<1> QED
  BY <1>1, <1>2, <1>3 DEF IsLCS

\* A text of one line shares it or nothing (hirschberg).
LEMMA OneLineShared ==
    ASSUME NEW a \in Text, NEW b \in Text, Len(a) = 1
    PROVE  IsLCS(IF Contains(b, a[1]) THEN a ELSE <<>>, a, b)
<1>1. Len(b) \in Nat /\ Len(b) \in Int /\ 0 \in Int /\ 1 \in Int /\ 1 \in Nat /\ 0 \in Nat /\ Len(a) \in Int
  BY DEF Text
<1>2. ASSUME NEW l \in Nat, Match(a, 0, Len(a), b, 0, Len(b), l) PROVE l <= 1
  <2>1. l = 0 \/ (l <= Len(a) - 0 /\ l <= Len(b) - 0)
    BY <1>1, <1>2, MatchFits
  <2> QED
    BY <2>1
<1>3. CASE Contains(b, a[1])
  <2>1. PICK j \in 1..Len(b) : b[j] = a[1]
    BY <1>3 DEF Contains
  <2>2. Match(a, 1 - 1, 1, b, j - 1, j, 1) /\ j \in Int /\ j - 1 \in Int /\ 0 <= j - 1 /\ j <= Len(b)
    <3>1. j \in Int /\ a[1] = b[j] /\ j - 1 \in Int /\ 0 <= j - 1 /\ j <= Len(b)
      BY <1>1, <2>1
    <3>2. Match(a, 1 - 1, 1, b, j - 1, j, 1)
      BY <1>1, <3>1, MatchFew
    <3> QED
      BY <3>1, <3>2
  <2>3. Match(a, 0, 1, b, 0, Len(b), 1)
    <3>1. 1 - 1 = 0 /\ 0 <= 1 - 1 /\ 1 <= 1 /\ 1 - 1 \in Int
      OBVIOUS
    <3> QED
      BY <1>1, <2>2, <3>1, MatchWider
  <2>4. InPart(a, b, 0, Len(b))
    BY <2>3 DEF InPart
  <2>5. InPart(a, a, 0, Len(a))
    <3>1. \A k \in 0 + 1..0 + 1 : a[k] = a[k]
      OBVIOUS
    <3>2. Match(a, 0, 0 + 1, a, 0, 0 + 1, 1)
      BY <1>1, <3>1, MatchItself
    <3>3. 0 + 1 = 1
      OBVIOUS
    <3> QED
      BY <3>2, <3>3 DEF InPart
  <2>6. IsLCS(a, a, b)
    BY <1>2, <2>4, <2>5 DEF IsLCS
  <2> QED
    BY <1>3, <2>6
<1>4. CASE ~Contains(b, a[1])
  <2>1. ASSUME NEW l \in Nat, Match(a, 0, Len(a), b, 0, Len(b), l) PROVE l <= 0
    <3> SUFFICES ASSUME l # 0 PROVE FALSE
      OBVIOUS
    <3>1. PICK f, g : IsMatch(f, g, a, 0, Len(a), b, 0, Len(b), l)
      BY <2>1 DEF Match
    <3>2. 1 \in 1..l
      OBVIOUS
    <3>3. f[1] \in 0 + 1..Len(a) /\ g[1] \in 0 + 1..Len(b) /\ a[f[1]] = b[g[1]]
      BY <3>1, <3>2 DEF IsMatch
    <3>4. f[1] = 1 /\ g[1] \in 1..Len(b)
      BY <3>3
    <3> QED
      BY <1>4, <3>3, <3>4 DEF Contains
  <2>2. Len(<<>>) = 0 /\ <<>> \in Text
    BY DEF Text
  <2>3. InPart(<<>>, a, 0, Len(a)) /\ InPart(<<>>, b, 0, Len(b))
    BY <1>1, <2>2, MatchFew DEF InPart
  <2>4. IsLCS(<<>>, a, b)
    BY <2>1, <2>2, <2>3 DEF IsLCS
  <2> QED
    BY <1>4, <2>4
<1> QED
  BY <1>3, <1>4

\* The row for the second halves, back to front, counts what is shared by the
\* second half of a and what is left of b.
LEMMA TailRowIsMost ==
    ASSUME NEW c \in Text, NEW b \in Text, NEW k \in 0..Len(b)
    PROVE  IsMost(c, 0, Len(c), b, k, Len(b), LCSRow(Reverse(c), Reverse(b))[Len(b) - k])
<1> DEFINE rc == Reverse(c)
           rb == Reverse(b)
           n == LCSRow(rc, rb)[Len(b) - k]
           p == Len(b)
           m == Len(c)
<1>1. /\ m \in Nat /\ p \in Nat /\ k \in Int /\ p - k \in 0..p /\ 0 \in Int /\ m \in Int /\ p \in Int
      /\ p - k \in Int /\ k <= p
  BY DEF Text
<1>2. /\ rc \in Text /\ Len(rc) = m /\ \A i \in 1..m : rc[i] = c[m - i + 1]
      /\ rb \in Text /\ Len(rb) = p /\ \A i \in 1..p : rb[i] = b[p - i + 1]
  BY ReverseIs DEF Text
<1>3. IsMost(rc, 0, m, rb, 0, p - k, n)
  <2>1. \A i \in 0..Len(rb) : IsMost(rc, 0, Len(rc), rb, 0, i, LCSRow(rc, rb)[i])
    <3> HIDE DEF rc, rb
    <3> QED
      BY <1>2, RowIsMost
  <2> HIDE DEF rc, rb, m, p
  <2>2. IsMost(rc, 0, m, rb, 0, p - k, LCSRow(rc, rb)[p - k])
    BY <1>1, <1>2, <2>1
  <2> QED
    BY <2>2 DEF p
<1> HIDE DEF n, rc, rb, m, p
<1>4. Match(c, 0, m, b, k, p, n) /\ n \in Nat
  <2>0. n \in Nat /\ Match(rc, 0, m, rb, 0, p - k, n)
    BY <1>3 DEF IsMost
  <2>1. ASSUME NEW i \in 0 + 1..m PROVE c[m + 1 - i] = rc[i]
    <3>1. i \in 1..m /\ m - i + 1 = m + 1 - i
      BY <1>1
    <3> QED
      BY <1>2, <3>1
  <2>2. ASSUME NEW i \in 0 + 1..p - k PROVE b[p + 1 - i] = rb[i]
    <3>1. i \in 1..p /\ p - i + 1 = p + 1 - i
      BY <1>1
    <3> QED
      BY <1>2, <3>1
  <2>3. Match(c, m - m, m - 0, b, p - (p - k), p - 0, n)
    BY <1>1, <2>0, <2>1, <2>2, MatchTurned
  <2>4. m - m = 0 /\ m - 0 = m /\ p - (p - k) = k /\ p - 0 = p
    BY <1>1
  <2> QED
    BY <2>0, <2>3, <2>4
<1>5. ASSUME NEW l \in Nat, Match(c, 0, m, b, k, p, l) PROVE l <= n
  <2>1. ASSUME NEW i \in 0 + 1..m PROVE rc[m + 1 - i] = c[i]
    <3>1. m + 1 - i \in 1..m /\ m - (m + 1 - i) + 1 = i
      BY <1>1
    <3> QED
      BY <1>2, <3>1
  <2>2. ASSUME NEW i \in k + 1..p PROVE rb[p + 1 - i] = b[i]
    <3>1. p + 1 - i \in 1..p /\ p - (p + 1 - i) + 1 = i
      BY <1>1
    <3> QED
      BY <1>2, <3>1
  <2>3. Match(rc, m - m, m - 0, rb, p - p, p - k, l)
    BY <1>1, <1>5, <2>1, <2>2, MatchTurned
  <2>4. m - m = 0 /\ m - 0 = m /\ p - p = 0
    BY <1>1
  <2>5. Match(rc, 0, m, rb, 0, p - k, l)
    BY <2>3, <2>4
  <2> QED
    BY <1>3, <2>5 DEF IsMost
<1>6. IsMost(c, 0, m, b, k, p, n)
  BY <1>4, <1>5 DEF IsMost
<1> QED
  BY <1>6 DEF n, rc, rb, m, p

\* What the two halves share with the parts of b that hirschberg gives them,
\* one after the other, is what a and b share.
LEMMA HalvesShare ==
    ASSUME NEW a \in Text, NEW b \in Text, Len(a) > 1, NEW s, NEW t,
           IsLCS(s, Half1(a), Part1(a, b)), IsLCS(t, Half2(a), Part2(a, b))
    PROVE  IsLCS(s \o t, a, b)
<1> DEFINE mid == Mid(a)
           k == SplitOf(a, b)
           m == Len(a)
           p == Len(b)
           c == SubSeq(a, 1, mid)
           d == SubSeq(a, mid + 1, m)
           head == LCSRow(c, b)
           tail == LCSRow(Reverse(d), Reverse(b))
<1>1. /\ m \in Nat /\ p \in Nat /\ m \in Int /\ p \in Int /\ mid \in 0..m /\ mid \in Int /\ 0 \in Int
      /\ 0 <= mid /\ mid <= m /\ m \in mid..m /\ 0 \in 0..m /\ 0 \in 0..p /\ p \in 0..p
  BY DEF Text, Mid
<1>2. /\ k \in 0..p
      /\ \A j \in 0..p : head[j] + tail[p - j] <= head[k] + tail[p - k]
  BY SplitIsCut DEF Mid
<1>3. /\ k \in Int /\ 0 <= k /\ k <= p /\ p \in k..p
  BY <1>1, <1>2
<1>4. IsLCS(s, c, SubSeq(b, 1, k)) /\ IsLCS(t, d, SubSeq(b, k + 1, p))
  BY DEF Half1, Half2, Part1, Part2
<1> HIDE DEF mid, k
<1>5. /\ c \in Text /\ Len(c) = mid /\ \A i \in 1..mid : c[i] = a[i]
      /\ d \in Text /\ Len(d) = m - mid /\ \A i \in 1..m - mid : d[i] = a[mid + i]
  <2>1. 0 + 1 = 1 /\ \A i \in 1..mid - 0 : a[0 + i] = a[0 + i]
    OBVIOUS
  <2>2. \A i \in 1..m - mid : a[mid + i] = a[mid + i]
    OBVIOUS
  <2>3. SubSeq(a, 0 + 1, mid) \in Text /\ Len(SubSeq(a, 0 + 1, mid)) = mid - 0
    BY <1>1, <2>1, PartStands
  <2>4. SubSeq(a, mid + 1, m) \in Text /\ Len(SubSeq(a, mid + 1, m)) = m - mid
    BY <1>1, <2>2, PartStands
  <2>5. \A i \in 1..mid - 1 + 1 : SubSeq(a, 1, mid)[i] = a[1 + i - 1]
    BY <1>1, PartIs DEF Text
  <2>6. \A i \in 1..m - (mid + 1) + 1 : SubSeq(a, mid + 1, m)[i] = a[(mid + 1) + i - 1]
    BY <1>1, PartIs DEF Text
  <2>7. ASSUME NEW i \in 1..mid PROVE c[i] = a[i]
    <3>1. i \in 1..mid - 1 + 1 /\ 1 + i - 1 = i
      BY <1>1
    <3> QED
      BY <2>5, <3>1
  <2>8. ASSUME NEW i \in 1..m - mid PROVE d[i] = a[mid + i]
    <3>1. i \in 1..m - (mid + 1) + 1 /\ (mid + 1) + i - 1 = mid + i
      BY <1>1
    <3> HIDE DEF m
    <3> QED
      BY <2>6, <3>1
  <2>9. mid - 0 = mid
    BY <1>1
  <2> QED
    BY <2>1, <2>3, <2>4, <2>7, <2>8, <2>9
<1> HIDE DEF c, d
<1>6. \A j \in 0..p : IsMost(c, 0, mid, b, 0, j, head[j])
  BY <1>5, RowIsMost
<1>7. \A j \in 0..p : IsMost(d, 0, m - mid, b, j, p, tail[p - j])
  <2> SUFFICES ASSUME NEW j \in 0..p PROVE IsMost(d, 0, m - mid, b, j, p, tail[p - j])
    OBVIOUS
  <2>1. IsMost(d, 0, Len(d), b, j, Len(b), LCSRow(Reverse(d), Reverse(b))[Len(b) - j])
    BY <1>5, TailRowIsMost
  <2> QED
    BY <1>5, <2>1
<1> HIDE DEF head, tail
<1>8. s \in Text /\ t \in Text /\ Len(s) \in Nat /\ Len(t) \in Nat
  <2>1. s \in Text /\ t \in Text
    BY <1>4 DEF IsLCS
  <2> QED
    BY <2>1 DEF Text
<1>9. InPart(s, a, 0, mid) /\ InPart(t, a, mid, m) /\ InPart(s, b, 0, k) /\ InPart(t, b, k, p)
  <2>0. 0 + 1 = 1 /\ 0 \in 0..m /\ mid \in 0..m /\ k \in 0..p
    BY <1>1, <1>2
  <2>1. InPart(s, a, 0, mid)
    <3>1. InPart(s, SubSeq(a, 0 + 1, mid), 0, Len(SubSeq(a, 0 + 1, mid)))
      BY <1>4, <2>0 DEF IsLCS, c
    <3> QED
      BY <1>1, <1>8, <2>0, <3>1, PartOf
  <2>2. InPart(t, a, mid, m)
    <3>1. InPart(t, SubSeq(a, mid + 1, m), 0, Len(SubSeq(a, mid + 1, m)))
      BY <1>4 DEF IsLCS, d
    <3> QED
      BY <1>1, <1>8, <2>0, <3>1, PartOf
  <2>3. InPart(s, b, 0, k)
    <3>1. InPart(s, SubSeq(b, 0 + 1, k), 0, Len(SubSeq(b, 0 + 1, k)))
      BY <1>4, <2>0 DEF IsLCS
    <3> QED
      BY <1>1, <1>3, <1>8, <2>0, <3>1, PartOf
  <2>4. InPart(t, b, k, p)
    <3>1. InPart(t, SubSeq(b, k + 1, p), 0, Len(SubSeq(b, k + 1, p)))
      BY <1>4 DEF IsLCS
    <3> QED
      BY <1>1, <1>3, <1>8, <2>0, <3>1, PartOf
  <2> QED
    BY <2>1, <2>2, <2>3, <2>4
<1>10. InPart(s \o t, a, 0, m) /\ InPart(s \o t, b, 0, p)
  BY <1>1, <1>3, <1>8, <1>9, PartsJoin
<1>11. s \o t \in Text /\ Len(s \o t) = Len(s) + Len(t)
  <2>1. s \in Seq(Line) /\ t \in Seq(Line)
    BY <1>8 DEF Text
  <2>2. s \o t \in Seq(Line) /\ Len(s \o t) = Len(s) + Len(t)
    BY <2>1, ConcatProperties
  <2> QED
    BY <2>2 DEF Text
<1>12. head[k] \in Nat /\ head[k] <= Len(s)
  <2>1. IsMost(c, 0, mid, b, 0, k, head[k])
    BY <1>2, <1>6
  <2> DEFINE n == head[k]
  <2>2. n \in Nat /\ Match(c, 0, mid, b, 0, k, n)
    BY <2>1 DEF IsMost
  <2> HIDE DEF n
  <2>3. /\ 0 \in 0..Len(c) /\ mid \in 0..Len(c) /\ 0 \in 0..Len(b) /\ k \in 0..Len(b)
        /\ mid - 0 = mid /\ k - 0 = k /\ 0 + 1 = 1
    BY <1>1, <1>2, <1>3, <1>5
  <2>4. /\ Len(SubSeq(c, 0 + 1, mid)) = mid - 0 /\ Len(SubSeq(b, 0 + 1, k)) = k - 0
        /\ Match(SubSeq(c, 0 + 1, mid), 0, mid - 0, SubSeq(b, 0 + 1, k), 0, k - 0, n)
    BY <1>5, <2>2, <2>3, MatchOfParts
  <2>5. SubSeq(c, 1, mid) = c
    BY <1>5, WholePart DEF Text
  <2>6. Match(c, 0, Len(c), SubSeq(b, 1, k), 0, Len(SubSeq(b, 1, k)), n)
    BY <1>5, <2>3, <2>4, <2>5
  <2>7. n <= Len(s)
    BY <1>4, <2>2, <2>6 DEF IsLCS
  <2> QED
    BY <2>2, <2>7 DEF n
<1>13. tail[p - k] \in Nat /\ tail[p - k] <= Len(t)
  <2>1. IsMost(d, 0, m - mid, b, k, p, tail[p - k])
    BY <1>2, <1>7
  <2> DEFINE n == tail[p - k]
             x == m - mid
  <2>2. n \in Nat /\ Match(d, 0, x, b, k, p, n)
    BY <2>1 DEF IsMost
  <2>3. /\ x \in 0..Len(d) /\ 0 \in 0..Len(d) /\ x - 0 = x /\ 0 + 1 = 1 /\ Len(d) = x
        /\ k \in 0..Len(b) /\ p \in k..Len(b)
    BY <1>1, <1>2, <1>3, <1>5
  <2> HIDE DEF n, x
  <2>4. /\ Len(SubSeq(d, 0 + 1, x)) = x - 0 /\ Len(SubSeq(b, k + 1, p)) = p - k
        /\ Match(SubSeq(d, 0 + 1, x), 0, x - 0, SubSeq(b, k + 1, p), 0, p - k, n)
    BY <1>5, <2>2, <2>3, MatchOfParts
  <2>5. SubSeq(d, 1, x) = d
    BY <1>5, <2>3, WholePart DEF Text
  <2>6. Match(d, 0, Len(d), SubSeq(b, k + 1, p), 0, Len(SubSeq(b, k + 1, p)), n)
    BY <2>3, <2>4, <2>5
  <2>7. n <= Len(t)
    BY <1>4, <2>2, <2>6 DEF IsLCS
  <2> QED
    BY <2>2, <2>7 DEF n
<1>14. ASSUME NEW l \in Nat, Match(a, 0, m, b, 0, p, l) PROVE l <= Len(s) + Len(t)
  <2>1. PICK h \in 0..l, e \in 0..p : Match(a, 0, mid, b, 0, e, h) /\ Match(a, mid, m, b, e, p, l - h)
    <3>1. 0 <= p
      BY <1>1
    <3> QED
      BY <1>1, <1>14, <3>1, MatchCut
  <2>2. e \in Int /\ h \in Nat /\ l - h \in Nat
    BY <1>1
  <2>3. h <= head[e] /\ head[e] \in Nat
    <3>1. \A i \in 0 + 1..mid : c[i + 0] = a[i]
      BY <1>1, <1>5
    <3>2. \A i \in 0 + 1..e : b[i + 0] = b[i]
      BY <2>2
    <3>3. Match(c, 0 + 0, mid + 0, b, 0 + 0, e + 0, h)
      BY <1>1, <2>1, <2>2, <3>1, <3>2, MatchMoved
    <3>4. 0 + 0 = 0 /\ mid + 0 = mid /\ e + 0 = e
      BY <1>1, <2>2
    <3>5. Match(c, 0, mid, b, 0, e, h)
      BY <3>3, <3>4
    <3>6. IsMost(c, 0, mid, b, 0, e, head[e])
      BY <1>6
    <3> QED
      BY <2>2, <3>5, <3>6 DEF IsMost
  <2>4. l - h <= tail[p - e] /\ tail[p - e] \in Nat
    <3> DEFINE r == l - h
    <3>0. r \in Nat /\ Match(a, mid, m, b, e, p, r)
      BY <2>1, <2>2
    <3> HIDE DEF r
    <3>1. ASSUME NEW i \in mid + 1..m PROVE d[i + (-mid)] = a[i]
      <4>1. i + (-mid) \in 1..m - mid /\ mid + (i + (-mid)) = i
        BY <1>1
      <4> QED
        BY <1>5, <4>1
    <3>2. \A i \in e + 1..p : b[i + 0] = b[i]
      BY <1>1, <2>2
    <3>3. -mid \in Int
      BY <1>1
    <3>4. Match(d, mid + (-mid), m + (-mid), b, e + 0, p + 0, r)
      BY <1>1, <2>2, <3>0, <3>1, <3>2, <3>3, MatchMoved
    <3>5. mid + (-mid) = 0 /\ m + (-mid) = m - mid /\ e + 0 = e /\ p + 0 = p
      BY <1>1, <2>2
    <3>6. Match(d, 0, m - mid, b, e, p, r)
      BY <3>4, <3>5
    <3>7. IsMost(d, 0, m - mid, b, e, p, tail[p - e])
      BY <1>7
    <3>8. r <= tail[p - e] /\ tail[p - e] \in Nat
      BY <3>0, <3>6, <3>7 DEF IsMost
    <3> QED
      BY <3>8 DEF r
  <2>5. head[e] + tail[p - e] <= head[k] + tail[p - k]
    BY <1>2
  <2> DEFINE w == head[e]
             x == tail[p - e]
             y == head[k]
             z == tail[p - k]
  <2>6. w \in Nat /\ x \in Nat /\ y \in Nat /\ z \in Nat /\ w + x <= y + z /\ y <= Len(s) /\ z <= Len(t)
        /\ h <= w /\ l - h <= x
    BY <1>12, <1>13, <2>3, <2>4, <2>5
  <2> HIDE DEF w, x, y, z
  <2> QED
    BY <1>8, <2>2, <2>6
<1>15. IsLCS(s \o t, a, b)
  BY <1>10, <1>11, <1>14 DEF IsLCS
<1> QED
  BY <1>15

\* What hirschberg gives is a longest common subsequence.
LEMMA HirschbergIsLCS ==
    \A t \in Pairs : IsLCS(Hirschberg[t], t[1], t[2])
<1> DEFINE Holds(t) == IsLCS(Hirschberg[t], t[1], t[2])
           T == {t \in Pairs : ~Holds(t)}
           rank == [t \in Pairs |-> Len(t[1])]
<1>1. rank \in [Pairs -> Nat] /\ \A t \in Pairs : rank[t] = Len(t[1]) /\ rank[t] \in Nat
  BY PairCases DEF Text
<1> SUFFICES ASSUME T # {} PROVE FALSE
  OBVIOUS
<1>2. PICK t \in T : \A u \in T : rank[t] <= rank[u]
  <2>1. T \in SUBSET Pairs
    OBVIOUS
  <2> HIDE DEF T, rank
  <2> QED
    BY <1>1, <2>1, LeastRank
<1>3. t \in Pairs /\ ~Holds(t) /\ Hirschberg[t] = HirschbergOf(Hirschberg, t)
  BY HirschbergIs
<1>4. \A u \in Pairs : Len(u[1]) < Len(t[1]) => Holds(u)
  <2> SUFFICES ASSUME NEW u \in Pairs, Len(u[1]) < Len(t[1]), ~Holds(u) PROVE FALSE
    OBVIOUS
  <2>1. u \in T
    OBVIOUS
  <2> HIDE DEF T, rank, Holds
  <2> QED
    BY <1>1, <1>2, <1>3, <2>1
<1>5. t[1] \in Text /\ t[2] \in Text
  BY <1>3, PairCases
<1>6. CASE t[1] = <<>> \/ t[2] = <<>>
  <2>1. Hirschberg[t] = <<>>
    BY <1>3, <1>6 DEF HirschbergOf
  <2>2. IsLCS(<<>>, t[1], t[2])
    BY <1>5, <1>6, NothingShared
  <2> QED
    BY <1>3, <2>1, <2>2
<1>7. CASE t[1] # <<>> /\ t[2] # <<>> /\ Len(t[1]) = 1
  <2>1. Hirschberg[t] = IF Contains(t[2], t[1][1]) THEN t[1] ELSE <<>>
    BY <1>3, <1>7 DEF HirschbergOf
  <2>2. IsLCS(IF Contains(t[2], t[1][1]) THEN t[1] ELSE <<>>, t[1], t[2])
    BY <1>5, <1>7, OneLineShared
  <2> QED
    BY <1>3, <2>1, <2>2
<1>8. CASE t[1] # <<>> /\ t[2] # <<>> /\ Len(t[1]) # 1
  <2> DEFINE u == <<Half1(t[1]), Part1(t[1], t[2])>>
             v == <<Half2(t[1]), Part2(t[1], t[2])>>
  <2>1. u \in Pairs /\ v \in Pairs /\ Len(t[1]) > 1
    BY <1>3, <1>8, PairCases
  <2>2. Len(u[1]) < Len(t[1]) /\ Len(v[1]) < Len(t[1])
    BY <1>5, <2>1, HalvesAre
  <2>3. Hirschberg[t] = Hirschberg[u] \o Hirschberg[v]
    BY <1>3, <1>8 DEF HirschbergOf
  <2>4. Holds(u) /\ Holds(v)
    <3> HIDE DEF Holds, u, v
    <3> QED
      BY <1>4, <2>1, <2>2
  <2> DEFINE g == Hirschberg[u]
             h == Hirschberg[v]
  <2>5. IsLCS(g, Half1(t[1]), Part1(t[1], t[2])) /\ IsLCS(h, Half2(t[1]), Part2(t[1], t[2]))
    BY <2>4
  <2> HIDE DEF g, h
  <2>6. IsLCS(g \o h, t[1], t[2])
    BY <1>5, <2>1, <2>5, HalvesShare
  <2> QED
    BY <1>3, <2>3, <2>6 DEF g, h
<1> QED
  BY <1>6, <1>7, <1>8

\* And so it is with the common suffix after it.
LEMMA TailsAreLCS ==
    ASSUME NEW a \in Text, NEW b \in Text
    PROVE  IsLCS(LCSOfTails(a, b), a, b)
<1> DEFINE tail == CommonHead(Reverse(a), Reverse(b))
           front == SubSeq(a, 1, Len(a) - tail)
           other == SubSeq(b, 1, Len(b) - tail)
<1>1. /\ Len(a) \in Nat /\ Len(b) \in Nat
      /\ Reverse(a) \in Text /\ Reverse(b) \in Text
      /\ Len(Reverse(a)) = Len(a) /\ Len(Reverse(b)) = Len(b)
      /\ \A i \in 1..Len(a) : Reverse(a)[i] = a[Len(a) - i + 1]
      /\ \A i \in 1..Len(b) : Reverse(b)[i] = b[Len(b) - i + 1]
  BY ReverseIs DEF Text
<1>2. /\ tail \in 0..Len(a) /\ tail \in 0..Len(b)
      /\ \A i \in 1..tail : Reverse(a)[i] = Reverse(b)[i]
  BY <1>1, HeadIs
<1>3. LCSOfTails(a, b) = Hirschberg[<<front, other>>] \o SubSeq(a, Len(a) - tail + 1, Len(a))
  BY Zenon DEF LCSOfTails, front, other, tail
<1> HIDE DEF tail
<1>4. ASSUME NEW k \in 1..tail PROVE a[Len(a) - tail + k] = b[Len(b) - tail + k]
  <2> DEFINE i == tail + 1 - k
  <2>1. i \in 1..tail /\ i \in 1..Len(a) /\ i \in 1..Len(b)
        /\ Len(a) - i + 1 = Len(a) - tail + k /\ Len(b) - i + 1 = Len(b) - tail + k
    BY <1>1, <1>2
  <2> HIDE DEF i
  <2>2. Reverse(a)[i] = a[Len(a) - i + 1] /\ Reverse(b)[i] = b[Len(b) - i + 1] /\ Reverse(a)[i] = Reverse(b)[i]
    BY <1>1, <1>2, <2>1
  <2> QED
    BY <2>1, <2>2
<1>5. front \in Text /\ other \in Text
  <2>1. /\ 1 \in 1..Len(a) + 1 /\ 1 \in 1..Len(b) + 1
        /\ Len(a) - tail \in 0..Len(a) /\ Len(b) - tail \in 0..Len(b)
    BY <1>1, <1>2
  <2>2. Takes(front, a) /\ Takes(other, b)
    BY <2>1, PartTakes
  <2> QED
    BY <2>2 DEF Takes
<1> DEFINE h == Hirschberg[<<front, other>>]
<1>6. IsLCS(h, front, other)
  <2>1. <<front, other>> \in Pairs /\ <<front, other>>[1] = front /\ <<front, other>>[2] = other
    BY <1>5 DEF Pairs
  <2> HIDE DEF front, other
  <2> QED
    BY <2>1, HirschbergIsLCS
<1> HIDE DEF h
<1>7. IsLCS(h \o SubSeq(a, Len(a) - tail + 1, Len(a)), a, b)
  BY <1>2, <1>4, <1>6, TailLast
<1> QED
  BY <1>3, <1>7 DEF h

\* The common lines of two texts are a longest common subsequence of them,
\* whatever the texts (LCS: the common prefix, hirschberg, the common suffix).
THEOREM LCSIsLongest ==
    ASSUME NEW a \in Text, NEW b \in Text
    PROVE  IsLCS(LCS(a, b), a, b)
<1> DEFINE head == CommonHead(a, b)
           rest == SubSeq(a, head + 1, Len(a))
           other == SubSeq(b, head + 1, Len(b))
<1>1. /\ Len(a) \in Nat /\ Len(b) \in Nat /\ head \in 0..Len(a) /\ head \in 0..Len(b)
      /\ \A k \in 1..head : a[k] = b[k]
  BY HeadIs DEF Text
<1>2. LCS(a, b) = SubSeq(a, 1, head) \o LCSOfTails(rest, other)
  BY Zenon DEF LCS, head, rest, other
<1> HIDE DEF head
<1>3. rest \in Text /\ other \in Text
  <2>1. Takes(rest, a) /\ Takes(other, b)
    BY <1>1, PartTakes
  <2> QED
    BY <2>1 DEF Takes
<1> DEFINE s == LCSOfTails(rest, other)
<1>4. IsLCS(s, rest, other)
  <2> HIDE DEF rest, other
  <2> QED
    BY <1>3, TailsAreLCS
<1> HIDE DEF s
<1>5. IsLCS(SubSeq(a, 1, head) \o s, a, b)
  BY <1>1, <1>4, HeadFirst
<1> QED
  BY <1>2, <1>5 DEF s

\* Lines that stand in a text are all found in it, one no farther than where
\* it stands (the two walks of AlignLCS and Diff).
LEMMA FoundAll ==
    ASSUME NEW common \in Text, NEW s \in Text, InPart(common, s, 0, Len(s))
    PROVE  \A k \in 1..Len(common) : Found(common, s)[k] \in 1..Len(s)
<1> DEFINE n == Len(common)
           F == Found(common, s)
<1>1. n \in Nat /\ Len(s) \in Nat /\ 0 \in Int /\ n \in Int
  BY DEF Text
<1>2. PICK f, g : IsMatch(f, g, common, 0, n, s, 0, Len(s), n)
  BY DEF InPart, Match
<1>3. /\ F \in [1..n -> 1..Len(s) + 1]
      /\ \A k \in 1..n : F[k] = NextAt(s, IF k = 1 THEN 0 ELSE F[k - 1], common[k])
  BY FoundIs
<1>4. \A k \in 1..n : f[k] = k
  <2>1. f \in [1..n -> 0 + 1..n] /\ Rises(f, n)
    BY <1>2 DEF IsMatch
  <2>2. \A k \in 1..n : f[k] \in Int /\ f[k] >= 0 + k /\ f[k] <= n - (n - k)
    <3> HIDE DEF n, F
    <3> QED
      BY <1>1, <2>1, RisesFar
  <2> QED
    BY <1>1, <2>2
<1>5. \A k \in 1..n : g[k] \in 1..Len(s) /\ common[k] = s[g[k]]
  <2>1. \A k \in 1..n : g[k] \in 0 + 1..Len(s) /\ common[f[k]] = s[g[k]]
    BY <1>2 DEF IsMatch
  <2> QED
    BY <1>4, <2>1
<1>6. \A k \in 1..n : \A o \in 1..k - 1 : g[o] < g[k]
  BY <1>2 DEF IsMatch, Rises
<1> HIDE DEF F, n
<1> DEFINE Q == {k \in Nat : k \in 1..n => F[k] <= g[k]}
<1>7. 0 \in Q
  BY <1>1
<1>8. ASSUME NEW k \in Nat, k \in Q PROVE k + 1 \in Q
  <2> SUFFICES ASSUME k + 1 \in 1..n PROVE F[k + 1] <= g[k + 1]
    OBVIOUS
  <2> DEFINE from == IF k = 0 THEN 0 ELSE F[k]
             line == common[k + 1]
             x == g[k + 1]
  <2>1. x \in 1..Len(s) /\ s[x] = line
    BY <1>5
  <2>2. F[k + 1] = NextAt(s, from, line)
    <3>1. (k + 1) - 1 = k /\ (k + 1 = 1 <=> k = 0)
      OBVIOUS
    <3> QED
      BY <1>3, <3>1
  <2>3. from \in 0..Len(s) + 1 /\ from < x
    <3>1. CASE k = 0
      BY <1>1, <2>1, <3>1
    <3>2. CASE k # 0
      <4>1. k \in 1..n /\ k \in 1..(k + 1) - 1
        BY <1>1, <3>2
      <4>2. F[k] <= g[k] /\ g[k] < x /\ F[k] \in 1..Len(s) + 1 /\ g[k] \in 1..Len(s)
        BY <1>3, <1>5, <1>6, <1>8, <4>1
      <4>3. from = F[k]
        BY <3>2
      <4> HIDE DEF from, x, Q
      <4> QED
        BY <1>1, <2>1, <4>2, <4>3
    <3> QED
      BY <3>1, <3>2
  <2> HIDE DEF from, line, x
  <2>4. x \in from + 1..Len(s)
    BY <1>1, <2>1, <2>3
  <2>5. NextAt(s, from, line) <= x
    BY <2>1, <2>3, <2>4, NextIs
  <2> QED
    BY <2>2, <2>5 DEF x
<1>9. Nat \subseteq Q
  <2> HIDE DEF Q
  <2> QED
    BY <1>7, <1>8, AllNumbers
<1>10. \A k \in 1..n : F[k] \in 1..Len(s)
  <2> SUFFICES ASSUME NEW k \in 1..n PROVE F[k] \in 1..Len(s)
    OBVIOUS
  <2>1. F[k] <= g[k] /\ F[k] \in 1..Len(s) + 1 /\ g[k] \in 1..Len(s)
    BY <1>1, <1>3, <1>5, <1>9
  <2> QED
    BY <1>1, <2>1
<1> QED
  BY <1>10 DEF F, n

-----------------------------------------------------------------------------
(* Anchors.                                                                *)

\* A map of the lines of base to places in target: a place it gives has the
\* line, and the places rise.
IsAlignment(map, base, target) ==
    /\ map \in [1..Len(base) -> 0..Len(target)]
    /\ \A i \in 1..Len(base) : map[i] > 0 => target[map[i]] = base[i]
    /\ \A i, j \in 1..Len(base) : i < j /\ map[i] > 0 /\ map[j] > 0 => map[i] < map[j]

\* Whatever the two texts, AlignLCS pairs equal lines, in the order they have
\* on both sides.
THEOREM AlignIs ==
    ASSUME NEW base \in Text, NEW target \in Text
    PROVE  IsAlignment(AlignLCS(base, target), base, target)
<1> DEFINE common == LCS(base, target)
           inBase == Found(common, base)
           inTarget == Found(common, target)
           n == Len(common)
           Of(i) == {k \in DOMAIN inBase : inBase[k] = i /\ inTarget[k] <= Len(target)}
           map == [i \in 1..Len(base) |-> IF Of(i) = {} THEN 0 ELSE inTarget[Min(Of(i))]]
<1>1. common \in Text /\ n \in Nat /\ Len(base) \in Nat /\ Len(target) \in Nat
  BY LCSTakes DEF Takes, Text
<1>2. AlignLCS(base, target) = map
  BY Zenon DEF AlignLCS, Paired, map, Of, inBase, inTarget, common
<1> HIDE DEF common
<1>3. /\ inBase \in [1..n -> 1..Len(base) + 1] /\ inTarget \in [1..n -> 1..Len(target) + 1]
  BY <1>1, FoundIs
<1>4. \A k \in 1..n : /\ inBase[k] <= Len(base) => base[inBase[k]] = common[k]
                      /\ inTarget[k] <= Len(target) => target[inTarget[k]] = common[k]
  BY <1>1, FoundThere
<1>5. \A k \in 1..n : \A j \in 1..k - 1 :
          /\ inBase[k] <= Len(base) => inBase[j] < inBase[k]
          /\ inTarget[k] <= Len(target) => inTarget[j] < inTarget[k]
  BY <1>1, FoundRises
<1> HIDE DEF inBase, inTarget, n
<1>6. ASSUME NEW i \in 1..Len(base), Of(i) # {}
      PROVE  /\ Min(Of(i)) \in 1..n /\ inBase[Min(Of(i))] = i
             /\ inTarget[Min(Of(i))] \in 1..Len(target)
  <2>1. Of(i) \in SUBSET Nat
    BY <1>1, <1>3
  <2>2. Min(Of(i)) \in Of(i)
    <3> HIDE DEF Of
    <3> QED
      BY <1>6, <2>1, MinIs
  <2> QED
    BY <1>1, <1>3, <2>2
<1> DEFINE K(i) == Min(Of(i))
<1>7. \A i \in 1..Len(base) : map[i] = IF Of(i) = {} THEN 0 ELSE inTarget[K(i)]
  OBVIOUS
<1>8. DOMAIN map = 1..Len(base) /\ map = [i \in 1..Len(base) |-> map[i]]
  OBVIOUS
<1> HIDE DEF Of, map, K
<1>9. \A i \in 1..Len(base) : map[i] > 0 =>
          K(i) \in 1..n /\ inBase[K(i)] = i /\ inTarget[K(i)] \in 1..Len(target) /\ map[i] = inTarget[K(i)]
  BY <1>6, <1>7 DEF K
<1>10. \A i \in 1..Len(base) : map[i] \in 0..Len(target)
  BY <1>1, <1>6, <1>7 DEF K
<1>11. map \in [1..Len(base) -> 0..Len(target)]
  BY <1>8, <1>10
<1>12. ASSUME NEW i \in 1..Len(base), map[i] > 0 PROVE target[map[i]] = base[i]
  <2>1. K(i) \in 1..n /\ inBase[K(i)] = i /\ inTarget[K(i)] \in 1..Len(target) /\ map[i] = inTarget[K(i)]
    BY <1>9, <1>12
  <2>2. i <= Len(base) /\ inTarget[K(i)] <= Len(target)
    BY <1>1, <2>1
  <2> QED
    BY <1>4, <2>1, <2>2
<1>13. ASSUME NEW i \in 1..Len(base), NEW j \in 1..Len(base), i < j, map[i] > 0, map[j] > 0
       PROVE  map[i] < map[j]
  <2>1. /\ K(i) \in 1..n /\ inBase[K(i)] = i /\ map[i] = inTarget[K(i)]
        /\ inTarget[K(i)] \in 1..Len(target)
    BY <1>9, <1>13
  <2>2. /\ K(j) \in 1..n /\ inBase[K(j)] = j /\ map[j] = inTarget[K(j)]
        /\ inTarget[K(j)] \in 1..Len(target)
    BY <1>9, <1>13
  <2> DEFINE k == K(i)
             l == K(j)
  <2> HIDE DEF k, l
  <2>3. k \in Nat /\ l \in Nat /\ i \in Nat /\ j \in Nat /\ i <= Len(base)
    BY <1>1, <2>1, <2>2 DEF k, l
  <2>4. ~ (l < k)
    <3> SUFFICES ASSUME l < k PROVE FALSE
      OBVIOUS
    <3>1. l \in 1..k - 1
      BY <2>2, <2>3 DEF l
    <3>2. inBase[l] < inBase[k]
      BY <1>5, <2>1, <2>3, <3>1 DEF k
    <3> QED
      BY <1>13, <2>1, <2>2, <2>3, <3>2 DEF k, l
  <2>5. k # l
    BY <1>13, <2>1, <2>2, <2>3 DEF k, l
  <2>6. k \in 1..l - 1
    BY <2>1, <2>3, <2>4, <2>5 DEF k
  <2>7. inTarget[l] <= Len(target)
    BY <1>1, <2>2 DEF l
  <2>8. inTarget[k] < inTarget[l]
    BY <1>5, <2>2, <2>6, <2>7 DEF l
  <2> QED
    BY <2>1, <2>2, <2>8 DEF k, l
<1>14. IsAlignment(map, base, target)
  BY <1>11, <1>12, <1>13 DEF IsAlignment
<1> QED
  BY <1>2, <1>14

\* A text is aligned with itself line by line.
LEMMA AlignOfSame ==
    ASSUME NEW a \in Text
    PROVE  \A i \in 1..Len(a) : AlignLCS(a, a)[i] = i
<1> DEFINE F == Found(a, a)
           Of(i) == {k \in DOMAIN F : F[k] = i /\ F[k] <= Len(a)}
<1>1. AlignLCS(a, a) = [i \in 1..Len(a) |-> IF Of(i) = {} THEN 0 ELSE F[Min(Of(i))]]
  BY LCSOfSame, Zenon DEF AlignLCS, Paired, Of, F
<1>2. Len(a) \in Nat /\ DOMAIN F = 1..Len(a) /\ \A k \in 1..Len(a) : F[k] = k
  BY FoundIs, FoundInItself DEF Text
<1> HIDE DEF F
<1> SUFFICES ASSUME NEW i \in 1..Len(a) PROVE AlignLCS(a, a)[i] = i
  OBVIOUS
<1>3. Of(i) = {i}
  BY <1>2
<1>4. Min(Of(i)) = i
  <2>1. {i} \in SUBSET Nat
    BY <1>2
  <2> QED
    BY <1>3, <2>1, MinIs
<1> QED
  BY <1>1, <1>2, <1>3, <1>4

\* How many of the places are up to i.
UpTo(places, i) == Cardinality({j \in places : j <= i})

\* How many places are up to i, step by step.
LEMMA UpToIs ==
    ASSUME NEW n \in Nat, NEW P \in SUBSET (1..n)
    PROVE  /\ Cardinality(P) \in Nat /\ UpTo(P, 0) = 0 /\ UpTo(P, n) = Cardinality(P)
           /\ \A i \in 0..n : UpTo(P, i) \in Nat
           /\ \A i \in 0..n - 1 : UpTo(P, i + 1) = UpTo(P, i) + IF i + 1 \in P THEN 1 ELSE 0
           /\ \A i, j \in 0..n : i <= j => UpTo(P, i) <= UpTo(P, j)
           /\ \A i \in 0..n : \A j \in P : i < j => UpTo(P, i) # UpTo(P, j)
<1> DEFINE A(i) == {j \in P : j <= i}
<1>1. IsFiniteSet(P)
  <2>1. IsFiniteSet(1..n)
    BY FS_Interval
  <2> QED
    BY <2>1, FS_Subset
<1>2. \A i \in 0..n : A(i) \subseteq P /\ IsFiniteSet(A(i)) /\ Cardinality(A(i)) \in Nat
  BY <1>1, FS_Subset, FS_CardinalityType
<1>0. P \subseteq 1..n /\ \A j \in P : j \in Nat /\ 1 <= j /\ j <= n
  OBVIOUS
<1>3. A(0) = {} /\ A(n) = P
  <2>1. \A j \in P : ~ (j <= 0) /\ j <= n
    BY <1>0
  <2> QED
    BY <2>1, Zenon
<1>4. Cardinality(P) \in Nat /\ Cardinality(A(0)) = 0
  BY <1>1, <1>3, FS_CardinalityType, FS_EmptySet
<1>5. ASSUME NEW i \in 0..n - 1
      PROVE  Cardinality(A(i + 1)) = Cardinality(A(i)) + IF i + 1 \in P THEN 1 ELSE 0
  <2>1. CASE i + 1 \in P
    <3>1. A(i + 1) = A(i) \cup {i + 1} /\ i + 1 \notin A(i) /\ i \in 0..n
      <4>1. /\ \A j \in P : j <= i + 1 <=> j <= i \/ j = i + 1
            /\ ~ (i + 1 <= i) /\ i \in 0..n
        BY <1>0
      <4> QED
        BY <2>1, <4>1, Zenon
    <3> HIDE DEF A
    <3>2. Cardinality(A(i) \cup {i + 1}) = Cardinality(A(i)) + 1
      BY <1>2, <3>1, FS_AddElement
    <3> QED
      BY <2>1, <3>1, <3>2
  <2>2. CASE i + 1 \notin P
    <3>1. A(i + 1) = A(i) /\ i \in 0..n
      <4>1. /\ \A j \in P : j <= i + 1 <=> j <= i \/ j = i + 1
            /\ i \in 0..n
        BY <1>0
      <4> QED
        BY <2>2, <4>1, Zenon
    <3> HIDE DEF A
    <3> QED
      BY <1>2, <2>2, <3>1
  <2> QED
    BY <2>1, <2>2
<1>6. ASSUME NEW i \in 0..n, NEW j \in 0..n, i <= j PROVE Cardinality(A(i)) <= Cardinality(A(j))
  <2>1. A(i) \subseteq A(j)
    <3>1. \A k \in P : k <= i => k <= j
      BY <1>0, <1>6
    <3> QED
      BY <3>1, Zenon
  <2> HIDE DEF A
  <2> QED
    BY <1>2, <2>1, FS_Subset
<1>7. ASSUME NEW i \in 0..n, NEW j \in P, i < j PROVE Cardinality(A(i)) # Cardinality(A(j))
  <2>1. A(i) \subseteq A(j) /\ A(i) # A(j) /\ j \in 0..n
    <3>1. (\A k \in P : k <= i => k <= j) /\ ~ (j <= i) /\ j <= j /\ j \in 0..n
      BY <1>0, <1>7
    <3> QED
      BY <3>1, Zenon
  <2> HIDE DEF A
  <2> QED
    BY <1>2, <2>1, FS_Subset
<1>8. \A i : UpTo(P, i) = Cardinality(A(i))
  BY DEF UpTo
<1> HIDE DEF A
<1> QED
  BY <1>2, <1>3, <1>4, <1>5, <1>6, <1>7, <1>8

\* Places in their order.
IsRising(at, n) ==
    /\ at \in Seq(1..n)
    /\ \A k \in 1..Len(at) : \A j \in 1..k - 1 : at[j] < at[k]

\* The places in their order rise, and are all there.
LEMMA InOrderIs ==
    ASSUME NEW n \in Nat, NEW P \in SUBSET (1..n)
    PROVE  /\ IsRising(InOrder(P), n) /\ Len(InOrder(P)) = Cardinality(P)
           /\ \A k \in 1..Len(InOrder(P)) : InOrder(P)[k] \in P
           /\ \A i \in P : \E k \in 1..Len(InOrder(P)) : InOrder(P)[k] = i
<1> DEFINE at == InOrder(P)
           c == Cardinality(P)
<1>1. /\ c \in Nat /\ UpTo(P, 0) = 0 /\ UpTo(P, n) = c
      /\ \A i \in 0..n : UpTo(P, i) \in Nat
      /\ \A i \in 0..n - 1 : UpTo(P, i + 1) = UpTo(P, i) + IF i + 1 \in P THEN 1 ELSE 0
      /\ \A i, j \in 0..n : i <= j => UpTo(P, i) <= UpTo(P, j)
      /\ \A i \in 0..n : \A j \in P : i < j => UpTo(P, i) # UpTo(P, j)
  BY UpToIs
<1>2. at = [k \in 1..c |-> CHOOSE i \in P : UpTo(P, i) = k]
  BY DEF InOrder, UpTo
<1> DEFINE Q == {m \in Nat : m <= n => \A k \in 1..UpTo(P, m) : \E i \in P : UpTo(P, i) = k}
<1>3. n \in Q
  <2>1. 0 \in Q
    BY <1>1
  <2>2. ASSUME NEW m \in Nat, m \in Q PROVE m + 1 \in Q
    <3> SUFFICES ASSUME m + 1 <= n, NEW k \in 1..UpTo(P, m + 1) PROVE \E i \in P : UpTo(P, i) = k
      OBVIOUS
    <3>1. /\ UpTo(P, m + 1) = UpTo(P, m) + IF m + 1 \in P THEN 1 ELSE 0 
          /\ UpTo(P, m) \in Nat /\ UpTo(P, m + 1) \in Nat
          /\ \A j \in 1..UpTo(P, m) : \E i \in P : UpTo(P, i) = j
      BY <1>1, <2>2
    <3>2. CASE k \in 1..UpTo(P, m)
      BY <3>1, <3>2
    <3>3. CASE k \notin 1..UpTo(P, m)
      BY <3>1, <3>3
    <3> QED
      BY <3>2, <3>3
  <2>3. Nat \subseteq Q
    <3> HIDE DEF Q
    <3> QED
      BY <2>1, <2>2, AllNumbers
  <2> QED
    BY <2>3
<1>4. \A k \in 1..c : at[k] \in P /\ UpTo(P, at[k]) = k
  <2> SUFFICES ASSUME NEW k \in 1..c PROVE at[k] \in P /\ UpTo(P, at[k]) = k
    OBVIOUS
  <2>1. \E i \in P : UpTo(P, i) = k
    BY <1>1, <1>3
  <2>2. at[k] = CHOOSE i \in P : UpTo(P, i) = k
    BY <1>2
  <2> HIDE DEF at
  <2> QED
    BY <2>1, <2>2
<1>5. Len(at) = c /\ at \in Seq(1..n)
  <2>1. \A k \in 1..c : at[k] \in 1..n
    BY <1>4
  <2>2. at \in [1..c -> 1..n]
    BY <1>2, <2>1
  <2> HIDE DEF at, c
  <2> QED
    BY <1>1, <2>2
<1> HIDE DEF at, c
<1>6. ASSUME NEW k \in 1..c, NEW j \in 1..k - 1 PROVE at[j] < at[k]
  <2>1. j \in 1..c /\ j < k
    BY <1>1
  <2>2. at[j] \in 1..n /\ at[k] \in 1..n /\ UpTo(P, at[j]) = j /\ UpTo(P, at[k]) = k
    BY <1>4, <2>1
  <2>3. at[j] \in 0..n /\ at[k] \in 0..n /\ (at[k] <= at[j] => k <= j)
    BY <1>1, <2>2
  <2> QED
    BY <1>1, <2>1, <2>3
<1>7. ASSUME NEW i \in P PROVE \E k \in 1..c : at[k] = i
  <2> DEFINE k == UpTo(P, i)
  <2>1. i \in 0..n /\ n \in 0..n /\ i <= n /\ i - 1 \in 0..n - 1 /\ i - 1 \in 0..n /\ (i - 1) + 1 = i
    OBVIOUS
  <2>2. k = UpTo(P, i - 1) + 1 /\ k <= c /\ UpTo(P, i - 1) \in Nat /\ k \in Nat
    BY <1>1, <2>1
  <2>3. k \in 1..c
    BY <1>1, <2>2
  <2>4. at[k] \in P /\ UpTo(P, at[k]) = UpTo(P, i)
    BY <1>4, <2>3
  <2> DEFINE x == at[k]
  <2> HIDE DEF x
  <2>5. x \in P /\ x \in 0..n /\ UpTo(P, x) = UpTo(P, i)
    <3>1. \A y \in P : y \in 0..n
      OBVIOUS
    <3> QED
      BY <2>4, <3>1 DEF x
  <2>6. ~ (x < i) /\ ~ (i < x)
    BY <1>1, <2>1, <2>5
  <2>7. at[k] = i
    BY <2>1, <2>5, <2>6 DEF x
  <2> QED
    BY <2>3, <2>7
<1> QED
  BY <1>4, <1>5, <1>6, <1>7 DEF IsRising, at, c

\* f[k] is the first k texts of s, one after another.
IsJoining(f, s, n) == f[0] = <<>> /\ \A k \in 1..n : f[k] = f[k - 1] \o s[k]

\* FlattenSeq joins the texts in their order.
LEMMA FlattenIs ==
    ASSUME NEW S, NEW n \in Nat, NEW s, s \in [1..n -> Seq(S)]
    PROVE  \E f \in [0..n -> Seq(S)] : IsJoining(f, s, n) /\ FlattenSeq(s) = f[n]
<1> DEFINE V == Seq(S)
           D == [p \in V \X (1..n) |-> p[1] \o s[p[2]]]
           Is(u) == u = [i \in 1..Len(s) |-> IF i = 1 THEN s[i] ELSE u[i - 1] \o s[i]]
<1>1. Len(s) = n /\ <<>> \in V /\ s \in Seq(V)
  OBVIOUS
<1>2. \A v \in V, k \in 1..n : D[<<v, k>>] = v \o s[k] /\ v \o s[k] \in V
  <2> SUFFICES ASSUME NEW v \in V, NEW k \in 1..n PROVE D[<<v, k>>] = v \o s[k] /\ v \o s[k] \in V
    OBVIOUS
  <2>1. s[k] \in Seq(S) /\ v \in Seq(S)
    OBVIOUS
  <2>2. v \o s[k] \in V
    BY <2>1, ConcatProperties
  <2> QED
    BY <2>2
<1>3. PICK f \in [0..n -> V] : IsJoining(f, s, n)
  <2>1. 0 \in Nat /\ 0 <= n /\ 0 + 1..n = 1..n
    OBVIOUS
  <2>2. \A v \in V, k \in 0 + 1..n : D[<<v, k>>] \in V
    BY <1>2, <2>1
  <2> HIDE DEF V, D
  <2>3. \E f \in [0..n -> V] : IsStepwise(f, 0, n, <<>>, D)
    BY <1>1, <2>1, <2>2, StepwiseHolds
  <2>4. PICK f \in [0..n -> V] : f[0] = <<>> /\ \A k \in 1..n : f[k] = D[<<f[k - 1], k>>]
    BY <2>1, <2>3 DEF IsStepwise
  <2>5. \A k \in 1..n : f[k - 1] \in V
    BY <2>4
  <2> QED
    BY <1>2, <2>4, <2>5 DEF IsJoining
<1>4. CASE n = 0
  <2>1. FlattenSeq(s) = s /\ s = <<>>
    BY <1>1, <1>4 DEF FlattenSeq
  <2>2. f[n] = <<>>
    BY <1>3, <1>4 DEF IsJoining
  <2> QED
    BY <1>3, <2>1, <2>2
<1>5. CASE n # 0
  <2> DEFINE g == [k \in 1..n |-> f[k]]
  <2>1. \A k \in 1..n : g[k] = IF k = 1 THEN s[k] ELSE g[k - 1] \o s[k]
    <3> SUFFICES ASSUME NEW k \in 1..n PROVE g[k] = IF k = 1 THEN s[k] ELSE g[k - 1] \o s[k]
      OBVIOUS
    <3>1. g[k] = f[k - 1] \o s[k] /\ s[k] \in V
      BY <1>3 DEF IsJoining
    <3>2. CASE k = 1
      <4>1. f[k - 1] = <<>>
        BY <1>3, <3>2 DEF IsJoining
      <4>2. g[k] = s[k]
        BY <3>1, <4>1
      <4> QED
        BY <3>2, <4>2
    <3>3. CASE k # 1
      <4>1. k - 1 \in 1..n
        BY <3>3
      <4> QED
        BY <3>1, <3>3, <4>1
    <3> QED
      BY <3>2, <3>3
  <2>2. Is(g)
    <3> HIDE DEF g
    <3>1. g = [k \in 1..n |-> g[k]]
      BY DEF g
    <3> QED
      BY <1>1, <2>1, <3>1
  <2> DEFINE u == CHOOSE u : Is(u)
  <2>3. Is(u)
    <3> HIDE DEF Is, g
    <3> QED
      BY <2>2, Zenon
  <2>4. FlattenSeq(s) = (CHOOSE w : Is(w))[Len(s)]
    <3>1. Len(s) # 0
      BY <1>1, <1>5
    <3> QED
      BY <3>1, Zenon DEF FlattenSeq
  <2> HIDE DEF u, g
  <2>5. \A k \in 1..n : u[k] = IF k = 1 THEN s[k] ELSE u[k - 1] \o s[k]
    BY <1>1, <2>3
  <2>6. \A k \in 1..n : u[k] = f[k]
    <3> DEFINE Q == {k \in Nat : k \in 1..n => u[k] = f[k]}
    <3>1. 0 \in Q
      OBVIOUS
    <3>2. ASSUME NEW k \in Nat, k \in Q PROVE k + 1 \in Q
      <4> SUFFICES ASSUME k + 1 \in 1..n PROVE u[k + 1] = f[k + 1]
        OBVIOUS
      <4>1. f[k + 1] = f[k] \o s[k + 1] /\ (k + 1) - 1 = k /\ s[k + 1] \in V
        <5>1. k + 1 \in 1..n /\ (k + 1) - 1 = k
          OBVIOUS
        <5>2. f[k + 1] = f[(k + 1) - 1] \o s[k + 1]
          BY <1>3, <5>1 DEF IsJoining
        <5> QED
          BY <5>1, <5>2
      <4>2. CASE k = 0
        <5>1. f[k] = <<>>
          BY <1>3, <4>2 DEF IsJoining
        <5>2. f[k + 1] = s[k + 1] /\ k + 1 = 1
          BY <4>1, <4>2, <5>1
        <5>3. u[k + 1] = s[k + 1]
          BY <2>5, <5>2
        <5> QED
          BY <5>2, <5>3
      <4>3. CASE k # 0
        <5>1. k \in 1..n /\ u[k] = f[k] /\ k + 1 # 1
          BY <3>2, <4>3
        <5> QED
          BY <2>5, <4>1, <5>1
      <4> QED
        BY <4>2, <4>3
    <3>3. Nat \subseteq Q
      <4> HIDE DEF Q
      <4> QED
        BY <3>1, <3>2, AllNumbers
    <3> QED
      BY <3>3
  <2>7. FlattenSeq(s) = f[n]
    <3>1. n \in 1..n
      BY <1>5
    <3>2. FlattenSeq(s) = u[n]
      BY <1>1, <2>4 DEF u
    <3> QED
      BY <2>6, <3>1, <3>2
  <2> QED
    BY <1>3, <2>7
<1> QED
  BY <1>4, <1>5

\* The anchors on both sides of the k-th region: the places before and after.
Before(at, k) == IF k = 1 THEN 0 ELSE at[k - 1]
After(s, at, k) == IF k > Len(at) THEN Len(s) + 1 ELSE at[k]

\* A region is what stands between its two anchors.
LEMMA BetweenIs ==
    ASSUME NEW s \in Text, NEW at, IsRising(at, Len(s)), NEW k \in 1..Len(at) + 1
    PROVE  /\ Before(at, k) \in 0..Len(s) /\ After(s, at, k) \in 1..Len(s) + 1
           /\ Before(at, k) < After(s, at, k)
           /\ Between(s, at, k) = SubSeq(s, Before(at, k) + 1, After(s, at, k) - 1)
           /\ Between(s, at, k) \in Text
<1>1. /\ Len(s) \in Nat /\ Len(at) \in Nat /\ \A i \in 1..Len(at) : at[i] \in 1..Len(s)
  BY DEF IsRising, Text
<1> DEFINE n == Len(s)
           m == Len(at)
<1> HIDE DEF n, m
<1>2. Before(at, k) \in 0..n
  <2>1. CASE k = 1
    BY <1>1, <2>1 DEF Before, n
  <2>2. CASE k # 1
    <3>1. k - 1 \in 1..m
      BY <1>1, <2>2 DEF m
    <3>2. at[k - 1] \in 1..n
      BY <1>1, <3>1 DEF n, m
    <3> QED
      BY <1>1, <2>2, <3>2 DEF Before, n
  <2> QED
    BY <2>1, <2>2
<1>3. After(s, at, k) \in 1..n + 1
  <2>1. CASE k > m
    BY <1>1, <2>1 DEF After, n, m
  <2>2. CASE ~(k > m)
    <3>1. k \in 1..m
      BY <1>1, <2>2 DEF m
    <3>2. at[k] \in 1..n
      BY <1>1, <3>1 DEF n, m
    <3> QED
      BY <1>1, <2>2, <3>2 DEF After, n, m
  <2> QED
    BY <2>1, <2>2
<1>4. Before(at, k) < After(s, at, k)
  <2>1. CASE k = 1
    BY <1>1, <1>3, <2>1 DEF Before, n
  <2>2. CASE k > m
    BY <1>1, <1>2, <2>2 DEF After, n, m
  <2>3. CASE k # 1 /\ ~(k > m)
    <3>1. k \in 1..m /\ k - 1 \in 1..k - 1
      BY <1>1, <2>3 DEF m
    <3>2. at[k - 1] < at[k]
      BY <3>1 DEF IsRising, m
    <3> QED
      BY <2>3, <3>2 DEF Before, After, m
  <2> QED
    BY <2>1, <2>2, <2>3
<1>5. Between(s, at, k) = SubSeq(s, Before(at, k) + 1, After(s, at, k) - 1)
  <2>1. Before(at, k) + 1 = IF k = 1 THEN 1 ELSE at[k - 1] + 1
    BY DEF Before
  <2>2. After(s, at, k) - 1 = IF k > Len(at) THEN Len(s) ELSE at[k] - 1
    BY <1>1 DEF After
  <2> QED
    BY <2>1, <2>2 DEF Between
<1>6. Between(s, at, k) \in Text
  <2> DEFINE x == Before(at, k)
             y == After(s, at, k)
  <2>1. x \in 0..n /\ y \in 1..n + 1 /\ n \in Nat
    BY <1>1, <1>2, <1>3 DEF n
  <2> HIDE DEF x, y
  <2>2. x + 1 \in 1..n + 1 /\ y - 1 \in 0..n
    BY <2>1
  <2>3. SubSeq(s, x + 1, y - 1) \in Text
    BY <2>2, PartIs DEF Text, n
  <2> QED
    BY <1>5, <2>3 DEF x, y
<1> QED
  BY <1>2, <1>3, <1>4, <1>5, <1>6 DEF n

\* Joining texts is associative.
LEMMA JoinsAssociate ==
    ASSUME NEW a \in Seq(Line), NEW b \in Seq(Line), NEW c \in Seq(Line)
    PROVE  a \o (b \o c) = (a \o b) \o c
BY ConcatAssociative

\* A text is what is between its anchors, and the anchors.
LEMMA Reassembled ==
    ASSUME NEW s \in Text, NEW at, IsRising(at, Len(s)), NEW pieces,
           pieces \in [1..Len(at) + 1 -> Text],
           \A k \in 1..Len(at) + 1 :
              pieces[k] = Between(s, at, k) \o IF k \in DOMAIN at THEN <<s[at[k]]>> ELSE <<>>
    PROVE  FlattenSeq(pieces) = s
<1> DEFINE n == Len(s)
           m == Len(at)
<1>1. /\ n \in Nat /\ m \in Nat /\ m + 1 \in Nat /\ DOMAIN at = 1..m
      /\ \A i \in 1..m : at[i] \in 1..n /\ s[at[i]] \in Line
      /\ s \in Seq(Line)
  BY DEF IsRising, Text
<1>2. PICK f \in [0..m + 1 -> Seq(Line)] :
         IsJoining(f, pieces, m + 1) /\ FlattenSeq(pieces) = f[m + 1]
  <2> DEFINE l == m + 1
  <2>1. pieces \in [1..l -> Seq(Line)] /\ l \in Nat
    BY <1>1 DEF Text
  <2> HIDE DEF l
  <2>2. \E f \in [0..l -> Seq(Line)] : IsJoining(f, pieces, l) /\ FlattenSeq(pieces) = f[l]
    BY <2>1, FlattenIs
  <2> QED
    BY <2>2 DEF l
<1> HIDE DEF n, m
<1>3. ASSUME NEW k \in 1..m + 1, f[k - 1] = SubSeq(s, 1, Before(at, k))
      PROVE  f[k] = IF k = m + 1 THEN s ELSE SubSeq(s, 1, at[k])
  <2> DEFINE x == Before(at, k)
             y == After(s, at, k)
             add == IF k \in 1..m THEN <<s[at[k]]>> ELSE <<>>
  <2>1. /\ x \in 0..n /\ y \in 1..n + 1 /\ x < y
        /\ Between(s, at, k) = SubSeq(s, x + 1, y - 1)
    BY BetweenIs DEF n, m
  <2>2. y = IF k > m THEN n + 1 ELSE at[k]
    BY DEF After, n, m
  <2>3. add \in Seq(Line)
    <3>1. CASE k \in 1..m
      BY <1>1, <3>1
    <3>2. CASE k \notin 1..m
      BY <3>2
    <3> QED
      BY <3>1, <3>2
  <2>4. pieces[k] = Between(s, at, k) \o add
    BY <1>1 DEF m
  <2> HIDE DEF x, y, add
  <2>5. SubSeq(s, 1, x) \o SubSeq(s, x + 1, y - 1) = SubSeq(s, 1, y - 1)
    <3>1. 1 \in 1..Len(s) + 1 /\ x \in (1 - 1)..Len(s) /\ y - 1 \in x..Len(s)
      BY <1>1, <2>1 DEF n
    <3> QED
      BY <1>1, <3>1, ConcatAdjacentSubSeq
  <2>6. f[k] = SubSeq(s, 1, y - 1) \o add
    <3> DEFINE a == SubSeq(s, 1, x)
               b == SubSeq(s, x + 1, y - 1)
    <3>1. 1 \in 1..n + 1 /\ x \in 0..n /\ x + 1 \in 1..n + 1 /\ y - 1 \in 0..n
      BY <1>1, <2>1
    <3>2. a \in Seq(Line) /\ b \in Seq(Line)
      BY <1>1, <3>1, PartIs DEF n
    <3>3. f[k] = a \o (b \o add)
      BY <1>2, <1>3, <2>1, <2>4 DEF IsJoining, x
    <3>4. a \o b = SubSeq(s, 1, y - 1)
      BY <2>5
    <3> HIDE DEF a, b
    <3>5. (a \o b) \o add = a \o (b \o add)
      BY <2>3, <3>2, JoinsAssociate
    <3> QED
      BY <3>3, <3>4, <3>5
  <2>7. CASE k = m + 1
    <3>1. y - 1 = n /\ add = <<>>
      BY <1>1, <2>2, <2>7 DEF add
    <3>2. SubSeq(s, 1, n) = s
      BY <1>1, WholePart DEF n
    <3>3. s \o <<>> = s
      BY <1>1, ConcatEmptySeq
    <3> QED
      BY <2>6, <2>7, <3>1, <3>2, <3>3
  <2>8. CASE k # m + 1
    <3>1. k \in 1..m /\ ~(k > m)
      BY <1>1, <2>8
    <3>2. add = <<s[at[k]]>> /\ y = at[k] /\ at[k] \in 1..n
      BY <1>1, <2>2, <3>1 DEF add
    <3>3. 1 \in 1..Len(s) /\ at[k] \in 1..Len(s)
      BY <1>1, <3>2 DEF n
    <3>4. SubSeq(s, 1, at[k]) = SubSeq(s, 1, at[k] - 1) \o <<s[at[k]]>>
      BY <1>1, <3>3, SubSeqRecursiveSecond
    <3> QED
      BY <2>6, <2>8, <3>2, <3>4
  <2> QED
    BY <2>7, <2>8
<1> DEFINE Q == {k \in Nat : k <= m => f[k] = SubSeq(s, 1, IF k = 0 THEN 0 ELSE at[k])}
<1>4. 0 \in Q
  <2>1. SubSeq(s, 1, 0) = <<>>
    BY <1>1, SubSeqEmpty
  <2> QED
    BY <1>2, <2>1 DEF IsJoining
<1>5. ASSUME NEW k \in Nat, k \in Q PROVE k + 1 \in Q
  <2> SUFFICES ASSUME k + 1 <= m PROVE f[k + 1] = SubSeq(s, 1, at[k + 1])
    OBVIOUS
  <2>1. k + 1 \in 1..m + 1 /\ (k + 1) - 1 = k /\ k + 1 # m + 1 /\ k <= m /\ (k + 1 = 1 <=> k = 0)
    BY <1>1
  <2>2. f[k] = SubSeq(s, 1, Before(at, k + 1))
    BY <1>5, <2>1 DEF Before
  <2> QED
    BY <1>3, <2>1, <2>2
<1>6. m \in Q
  <2>1. Nat \subseteq Q
    <3> HIDE DEF Q
    <3> QED
      BY <1>4, <1>5, AllNumbers
  <2> QED
    BY <1>1, <2>1
<1>7. f[m + 1] = s
  <2>1. m + 1 \in 1..m + 1 /\ (m + 1) - 1 = m /\ (m + 1 = 1 <=> m = 0)
    BY <1>1
  <2>2. f[m] = SubSeq(s, 1, Before(at, m + 1))
    BY <1>1, <1>6, <2>1 DEF Before
  <2> QED
    BY <1>3, <2>1, <2>2
<1> QED
  BY <1>2, <1>7

\* Where the anchors stand in a text.
Across(map, at) == [i \in DOMAIN at |-> map[at[i]]]

\* The anchors stand in the other text in their order too, on the same lines.
LEMMA AcrossIs ==
    ASSUME NEW base \in Text, NEW target \in Text, NEW map, IsAlignment(map, base, target),
           NEW at, IsRising(at, Len(base)), \A k \in 1..Len(at) : map[at[k]] > 0
    PROVE  /\ IsRising(Across(map, at), Len(target)) /\ DOMAIN Across(map, at) = DOMAIN at
           /\ Len(Across(map, at)) = Len(at)
           /\ \A k \in 1..Len(at) : target[Across(map, at)[k]] = base[at[k]]
<1> DEFINE m == Len(at)
           t == Across(map, at)
<1>1. /\ m \in Nat /\ DOMAIN at = 1..m /\ Len(base) \in Nat /\ Len(target) \in Nat
      /\ \A k \in 1..m : at[k] \in 1..Len(base)
      /\ \A k \in 1..m : \A j \in 1..k - 1 : at[j] < at[k]
  BY DEF IsRising, Text
<1>2. t = [k \in 1..m |-> map[at[k]]]
  BY <1>1 DEF Across
<1>3. \A k \in 1..m : /\ t[k] = map[at[k]] /\ t[k] > 0 /\ t[k] \in 0..Len(target)
                      /\ target[t[k]] = base[at[k]]
  <2> HIDE DEF t
  <2> QED
    BY <1>1, <1>2 DEF IsAlignment
<1>4. t \in [1..m -> 1..Len(target)]
  <2> HIDE DEF t, m
  <2>1. \A k \in 1..m : map[at[k]] \in 1..Len(target)
    BY <1>1, <1>2, <1>3
  <2> QED
    BY <1>2, <2>1
<1>5. t \in Seq(1..Len(target)) /\ Len(t) = m
  <2> HIDE DEF t, m
  <2> QED
    BY <1>1, <1>4
<1> HIDE DEF t
<1>6. ASSUME NEW k \in 1..m, NEW j \in 1..k - 1 PROVE t[j] < t[k]
  <2>1. j \in 1..m
    BY <1>1
  <2>2. at[j] < at[k] /\ at[j] \in 1..Len(base) /\ at[k] \in 1..Len(base)
    BY <1>1, <2>1
  <2>3. map[at[j]] > 0 /\ map[at[k]] > 0
    BY <2>1
  <2>4. map[at[j]] < map[at[k]]
    BY <2>2, <2>3 DEF IsAlignment
  <2> QED
    BY <1>3, <2>1, <2>4
<1> QED
  BY <1>1, <1>2, <1>3, <1>5, <1>6 DEF IsRising, t

\* Two texts joined are a text.
LEMMA JoinsAreTexts ==
    ASSUME NEW a \in Text, NEW b \in Text
    PROVE  a \o b \in Text
BY ConcatProperties DEF Text

\* The texts and what comes after each make s.
MakeUp(side, anchor, m, s) == FlattenSeq([k \in 1..m |-> side[k] \o anchor[k]]) = s

\* The sides and the anchors are those of a text s cut at t, where base has
\* its anchors at.
IsSide(side, anchor, m, s, base, at, t) ==
    /\ m = Len(at) + 1 /\ IsRising(t, Len(s)) /\ DOMAIN t = DOMAIN at /\ Len(t) = Len(at)
    /\ \A k \in 1..Len(at) : s[t[k]] = base[at[k]]
    /\ \A k \in 1..m : side[k] = Between(s, t, k)
    /\ \A k \in 1..m : anchor[k] = IF k \in DOMAIN at THEN <<base[at[k]]>> ELSE <<>>

\* One side of a cut.
LEMMA SideIs ==
    ASSUME NEW s \in Text, NEW base \in Text, NEW at, NEW t, NEW m, NEW side, NEW anchor,
           IsSide(side, anchor, m, s, base, at, t)
    PROVE  (\A k \in 1..m : side[k] \in Text /\ anchor[k] \in Text) /\ MakeUp(side, anchor, m, s)
<1>0. /\ m = Len(at) + 1 /\ IsRising(t, Len(s)) /\ DOMAIN t = DOMAIN at /\ Len(t) = Len(at)
      /\ \A k \in 1..Len(at) : s[t[k]] = base[at[k]]
      /\ \A k \in 1..m : side[k] = Between(s, t, k)
      /\ \A k \in 1..m : anchor[k] = IF k \in DOMAIN at THEN <<base[at[k]]>> ELSE <<>>
  BY DEF IsSide
<1>1. /\ Len(at) \in Nat /\ Len(s) \in Nat /\ DOMAIN at = 1..Len(at)
      /\ \A k \in 1..Len(t) : t[k] \in 1..Len(s) /\ s[t[k]] \in Line
  BY <1>0 DEF IsRising, Text
<1>2. \A k \in 1..m : anchor[k] = IF k \in DOMAIN t THEN <<s[t[k]]>> ELSE <<>>
  BY <1>0, <1>1
<1>3. \A k \in 1..m : anchor[k] \in Text
  <2> SUFFICES ASSUME NEW k \in 1..m PROVE anchor[k] \in Text
    OBVIOUS
  <2>1. CASE k \in DOMAIN t
    <3>1. anchor[k] = <<s[t[k]]>>
      BY <1>2, <2>1
    <3>2. k \in 1..Len(t)
      BY <1>1, <2>1
    <3>3. s[t[k]] \in Line
      BY <1>1, <3>2
    <3> QED
      BY <3>1, <3>3 DEF Text
  <2>2. CASE k \notin DOMAIN t
    <3>1. anchor[k] = <<>>
      BY <1>2, <2>2
    <3> QED
      BY <3>1 DEF Text
  <2> QED
    BY <2>1, <2>2
<1>4. \A k \in 1..m : side[k] \in Text
  BY <1>0, BetweenIs
<1>5. \A k \in 1..m : side[k] \o anchor[k] \in Text
  BY <1>3, <1>4, JoinsAreTexts
<1> DEFINE pieces == [k \in 1..m |-> side[k] \o anchor[k]]
<1>6. pieces \in [1..Len(t) + 1 -> Text]
  BY <1>0, <1>5
<1>7. \A k \in 1..Len(t) + 1 :
         pieces[k] = Between(s, t, k) \o IF k \in DOMAIN t THEN <<s[t[k]]>> ELSE <<>>
  BY <1>0, <1>2
<1> HIDE DEF pieces
<1>8. FlattenSeq(pieces) = s
  BY <1>0, <1>6, <1>7, Reassembled
<1> QED
  BY <1>3, <1>4, <1>8 DEF pieces, MakeUp

\* The anchors of a merge are baseline lines both sides kept, in their order
\* (AlignLCS, Merge).
LEMMA AnchorsAre ==
    ASSUME NEW gen \in Text, NEW base \in Text, NEW exist \in Text, NEW gMap, NEW eMap,
           IsAlignment(gMap, base, gen), IsAlignment(eMap, base, exist)
    PROVE  /\ IsRising(Anchors(gMap, eMap), Len(base))
           /\ \A k \in 1..Len(Anchors(gMap, eMap)) :
                 gMap[Anchors(gMap, eMap)[k]] > 0 /\ eMap[Anchors(gMap, eMap)[k]] > 0
<1> DEFINE P == {i \in DOMAIN gMap : gMap[i] > 0 /\ eMap[i] > 0}
<1>1. Len(base) \in Nat /\ DOMAIN gMap = 1..Len(base)
  BY DEF IsAlignment, Text
<1>2. P \in SUBSET (1..Len(base)) /\ \A i \in P : gMap[i] > 0 /\ eMap[i] > 0
  BY <1>1
<1>3. Anchors(gMap, eMap) = InOrder(P)
  BY DEF Anchors
<1> HIDE DEF P
<1> QED
  BY <1>1, <1>2, <1>3, InOrderIs

\* The sides of the regions, and the anchors.
GenSides(R, m) == [k \in 1..m |-> R[k].gen]
BaseSides(R, m) == [k \in 1..m |-> R[k].base]
ExistSides(R, m) == [k \in 1..m |-> R[k].exist]
AnchorSides(R, m) == [k \in 1..m |-> R[k].anchor]

\* Each side of the regions, with the anchors, is one of the three texts, cut
\* (the loop over the anchors of Merge).
LEMMA CutSides ==
    ASSUME NEW gen \in Text, NEW base \in Text, NEW exist \in Text, NEW gMap, NEW eMap,
           IsAlignment(gMap, base, gen), IsAlignment(eMap, base, exist),
           NEW at, at = Anchors(gMap, eMap), NEW m, m = Len(at) + 1,
           NEW R, R = Cut(gen, base, exist, gMap, eMap)
    PROVE  /\ DOMAIN R = 1..m /\ m \in Nat /\ m > 0 /\ IsRising(at, Len(base))
           /\ IsSide(GenSides(R, m), AnchorSides(R, m), m, gen, base, at, Across(gMap, at))
           /\ IsSide(BaseSides(R, m), AnchorSides(R, m), m, base, base, at, at)
           /\ IsSide(ExistSides(R, m), AnchorSides(R, m), m, exist, base, at, Across(eMap, at))
<1>1. IsRising(at, Len(base)) /\ \A k \in 1..Len(at) : gMap[at[k]] > 0 /\ eMap[at[k]] > 0
  BY AnchorsAre
<1>2. R = [k \in 1..m |->
              [gen |-> Between(gen, Across(gMap, at), k), base |-> Between(base, at, k),
               exist |-> Between(exist, Across(eMap, at), k),
               anchor |-> IF k \in DOMAIN at THEN <<base[at[k]]>> ELSE <<>>]]
  BY Zenon DEF Cut, Across
<1>3. DOMAIN R = 1..m /\ \A k \in 1..m :
          /\ R[k].gen = Between(gen, Across(gMap, at), k)
          /\ R[k].base = Between(base, at, k)
          /\ R[k].exist = Between(exist, Across(eMap, at), k)
          /\ R[k].anchor = IF k \in DOMAIN at THEN <<base[at[k]]>> ELSE <<>>
  BY <1>2
<1>4. Len(at) \in Nat /\ m \in Nat /\ m > 0
  BY <1>1 DEF IsRising
<1>5. /\ \A k \in 1..m : AnchorSides(R, m)[k] = IF k \in DOMAIN at THEN <<base[at[k]]>> ELSE <<>>
      /\ \A k \in 1..m : GenSides(R, m)[k] = Between(gen, Across(gMap, at), k)
      /\ \A k \in 1..m : BaseSides(R, m)[k] = Between(base, at, k)
      /\ \A k \in 1..m : ExistSides(R, m)[k] = Between(exist, Across(eMap, at), k)
  BY <1>3 DEF GenSides, BaseSides, ExistSides, AnchorSides
<1>6. IsSide(GenSides(R, m), AnchorSides(R, m), m, gen, base, at, Across(gMap, at))
  BY <1>1, <1>5, AcrossIs DEF IsSide
<1>7. IsSide(BaseSides(R, m), AnchorSides(R, m), m, base, base, at, at)
  BY <1>1, <1>5 DEF IsSide
<1>8. IsSide(ExistSides(R, m), AnchorSides(R, m), m, exist, base, at, Across(eMap, at))
  BY <1>1, <1>5, AcrossIs DEF IsSide
<1> QED
  BY <1>1, <1>3, <1>4, <1>6, <1>7, <1>8

\* Every line ends in a newline.
Ended(s) == \A i \in 1..Len(s) : s[i].ended

\* A part of a well-cut text is well cut, and one before its end is ended.
LEMMA PartEnds ==
    ASSUME NEW s \in Text, WellCut(s), NEW m \in 1..Len(s) + 1, NEW n \in 0..Len(s)
    PROVE  /\ WellCut(SubSeq(s, m, n))
           /\ n < Len(s) => Ended(SubSeq(s, m, n))
           /\ Ended(s) => Ended(SubSeq(s, m, n))
<1> DEFINE p == SubSeq(s, m, n)
<1>1. s \in Seq(Line) /\ Len(s) \in Nat
  BY DEF Text
<1>2. /\ Len(p) = IF m <= n THEN n - m + 1 ELSE 0
      /\ \A i \in 1..n - m + 1 : p[i] = s[m + i - 1]
  BY <1>1, PartIs
<1> HIDE DEF p
<1>3. ASSUME NEW i \in 1..Len(p) PROVE p[i] = s[m + i - 1] /\ m + i - 1 \in 1..n
  BY <1>1, <1>2
<1>4. WellCut(p)
  <2> SUFFICES ASSUME NEW i \in 1..Len(p) - 1 PROVE p[i].ended
    BY DEF WellCut
  <2>1. Len(p) \in Nat /\ (m <= n => Len(p) = n - m + 1) /\ (~(m <= n) => Len(p) = 0)
    BY <1>1, <1>2
  <2>2. i \in 1..Len(p) /\ m + i - 1 \in 1..Len(s) - 1
    BY <1>1, <2>1
  <2> QED
    BY <1>3, <2>2 DEF WellCut
<1>5. ASSUME n < Len(s) \/ Ended(s) PROVE Ended(p)
  <2> SUFFICES ASSUME NEW i \in 1..Len(p) PROVE p[i].ended
    BY DEF Ended
  <2>1. p[i] = s[m + i - 1] /\ m + i - 1 \in 1..n
    BY <1>3
  <2>2. CASE n < Len(s)
    <3>1. m + i - 1 \in 1..Len(s) - 1
      BY <1>1, <2>1, <2>2
    <3> QED
      BY <2>1, <3>1 DEF WellCut
  <2>3. CASE Ended(s)
    <3>1. m + i - 1 \in 1..Len(s)
      BY <1>1, <2>1
    <3> QED
      BY <2>1, <2>3, <3>1 DEF Ended
  <2> QED
    BY <1>5, <2>2, <2>3
<1> QED
  BY <1>4, <1>5 DEF p

\* Between anchors of a well-cut text every line has its newline but the
\* last, and where an anchor has none, nothing follows it.
LEMMA BetweenEnds ==
    ASSUME NEW s \in Text, WellCut(s), NEW at, IsRising(at, Len(s)), NEW k \in 1..Len(at) + 1
    PROVE  /\ WellCut(Between(s, at, k))
           /\ k <= Len(at) => Ended(Between(s, at, k))
           /\ \A j \in 1..k - 1 : ~s[at[j]].ended =>
                 k = Len(at) + 1 /\ Between(s, at, k) = <<>>
<1> DEFINE x == Before(at, k)
           y == After(s, at, k)
           n == Len(s)
<1>1. /\ x \in 0..n /\ y \in 1..n + 1 /\ x < y /\ n \in Nat
      /\ Between(s, at, k) = SubSeq(s, x + 1, y - 1)
  BY BetweenIs DEF Text
<1>2. Len(at) \in Nat /\ \A i \in 1..Len(at) : at[i] \in 1..n
  BY DEF IsRising
<1>3. k <= Len(at) => y <= n
  <2>1. k <= Len(at) => k \in 1..Len(at) /\ ~ (k > Len(at))
    BY <1>2
  <2> HIDE DEF n
  <2> QED
    BY <1>2, <2>1 DEF After
<1>4. ASSUME NEW j \in 1..k - 1, ~s[at[j]].ended
      PROVE  k = Len(at) + 1 /\ x = n
  <2>1. j \in 1..Len(at) /\ k - 1 \in 1..Len(at) /\ k # 1 /\ (j = k - 1 \/ j \in 1..(k - 1) - 1)
    BY <1>2
  <2>2. at[j] \in 1..n /\ at[k - 1] \in 1..n
    BY <1>2, <2>1
  <2>3. at[j] = n
    <3>1. at[j] \notin 1..n - 1
      BY <1>4 DEF WellCut
    <3> QED
      BY <1>1, <2>2, <3>1
  <2>4. at[j] <= at[k - 1]
    <3>1. CASE j = k - 1
      BY <1>1, <2>2, <3>1
    <3>2. CASE j \in 1..(k - 1) - 1
      <4>1. at[j] < at[k - 1]
        BY <2>1, <3>2 DEF IsRising
      <4> QED
        BY <1>1, <2>2, <4>1
    <3> QED
      BY <2>1, <3>1, <3>2
  <2>5. x = n
    BY <1>1, <2>1, <2>2, <2>3, <2>4 DEF Before
  <2>6. ~ (k <= Len(at))
    BY <1>1, <1>3, <2>5
  <2> QED
    BY <1>2, <2>5, <2>6
<1> HIDE DEF x, y, n
<1>5. x + 1 \in 1..n + 1 /\ y - 1 \in 0..n /\ (y <= n => y - 1 < n)
  BY <1>1
<1>6. /\ WellCut(SubSeq(s, x + 1, y - 1))
      /\ y <= n => Ended(SubSeq(s, x + 1, y - 1))
  BY <1>5, PartEnds DEF n
<1>7. ASSUME x = n PROVE SubSeq(s, x + 1, y - 1) = <<>>
  <2>1. y - 1 < x + 1 /\ y - 1 \in Int /\ x + 1 \in Int
    BY <1>1, <1>7
  <2> QED
    BY <2>1, SubSeqEmpty
<1> QED
  BY <1>1, <1>3, <1>4, <1>6, <1>7

\* A region has lines of its text.
LEMMA BetweenDraws ==
    ASSUME NEW S \in SUBSET Line, NEW s \in Seq(S), NEW at, IsRising(at, Len(s)), NEW k \in 1..Len(at) + 1
    PROVE  Between(s, at, k) \in Seq(S)
<1> DEFINE x == Before(at, k)
           y == After(s, at, k)
<1>1. s \in Text /\ Len(s) \in Nat
  BY DEF Text
<1>2. x \in 0..Len(s) /\ y \in 1..Len(s) + 1 /\ Between(s, at, k) = SubSeq(s, x + 1, y - 1)
  BY <1>1, BetweenIs
<1> HIDE DEF x, y
<1>3. x + 1 \in 1..Len(s) + 1 /\ y - 1 \in 0..Len(s)
  BY <1>1, <1>2
<1> QED
  BY <1>2, <1>3, PartIs

\* So has a side, and its anchors have lines of the baseline.
LEMMA SideDraws ==
    ASSUME NEW s \in Text, NEW base \in Text, NEW at, NEW t, NEW m, NEW side, NEW anchor,
           IsSide(side, anchor, m, s, base, at, t), IsRising(at, Len(base)),
           NEW S \in SUBSET Line, s \in Seq(S)
    PROVE  /\ \A k \in 1..m : side[k] \in Seq(S)
           /\ base \in Seq(S) => \A k \in 1..m : anchor[k] \in Seq(S)
<1>1. ASSUME NEW k \in 1..m PROVE side[k] \in Seq(S)
  <2>1. IsRising(t, Len(s)) /\ k \in 1..Len(t) + 1 /\ side[k] = Between(s, t, k)
    BY DEF IsSide
  <2> QED
    BY <2>1, BetweenDraws
<1>2. ASSUME base \in Seq(S), NEW k \in 1..m PROVE anchor[k] \in Seq(S)
  <2>1. CASE k \in DOMAIN at
    <3>1. anchor[k] = <<base[at[k]]>>
      BY <2>1 DEF IsSide
    <3>2. at[k] \in 1..Len(base)
      BY <2>1 DEF IsRising
    <3>3. base[at[k]] \in S
      BY <1>2, <3>2
    <3> QED
      BY <3>1, <3>3
  <2>2. CASE k \notin DOMAIN at
    <3>1. anchor[k] = <<>>
      BY <2>2 DEF IsSide
    <3> QED
      BY <3>1
  <2> QED
    BY <2>1, <2>2
<1> QED
  BY <1>1, <1>2

\* The sides of a well-cut text are well cut, and after an anchor that lacks
\* its newline there is no line.
LEMMA SideEnds ==
    ASSUME NEW s \in Text, NEW base \in Text, NEW at, NEW t, NEW m, NEW side, NEW anchor,
           IsSide(side, anchor, m, s, base, at, t), IsRising(at, Len(base)), WellCut(s)
    PROVE  /\ \A k \in 1..m : WellCut(side[k]) /\ WellCut(anchor[k])
           /\ anchor[m] = <<>>
           /\ \A k \in 1..m : \A j \in 1..k - 1 :
                 /\ Ended(side[j])
                 /\ Ended(anchor[j]) \/ (side[k] = <<>> /\ anchor[k] = <<>>)
<1>1. /\ Len(at) \in Nat /\ DOMAIN at = 1..Len(at) /\ m = Len(at) + 1
      /\ Len(t) = Len(at) /\ IsRising(t, Len(s))
  BY DEF IsRising, IsSide
<1>2. \A k \in 1..m : side[k] = Between(s, t, k)
  BY DEF IsSide
<1>3. /\ \A k \in 1..Len(at) : anchor[k] = <<base[at[k]]>> /\ s[t[k]] = base[at[k]]
      /\ anchor[m] = <<>>
  <2>1. /\ \A k \in 1..m : anchor[k] = IF k \in DOMAIN at THEN <<base[at[k]]>> ELSE <<>>
        /\ \A k \in 1..Len(at) : s[t[k]] = base[at[k]]
    BY DEF IsSide
  <2>2. m \in 1..m /\ m \notin DOMAIN at /\ \A k \in 1..Len(at) : k \in 1..m /\ k \in DOMAIN at
    BY <1>1
  <2>3. \A k \in 1..Len(at) : anchor[k] = <<base[at[k]]>>
    BY <2>1, <2>2
  <2>4. anchor[m] = <<>>
    BY <2>1, <2>2
  <2> QED
    BY <2>1, <2>3, <2>4
<1>4. ASSUME NEW k \in 1..m PROVE WellCut(side[k]) /\ WellCut(anchor[k])
  <2>1. WellCut(side[k])
    BY <1>1, <1>2, BetweenEnds
  <2>2. k = m \/ k \in 1..Len(at)
    BY <1>1
  <2>3. anchor[k] = <<>> \/ anchor[k] = <<base[at[k]]>>
    BY <1>3, <2>2
  <2>4. WellCut(anchor[k])
    <3>1. CASE anchor[k] = <<>>
      BY <3>1 DEF WellCut
    <3>2. CASE anchor[k] = <<base[at[k]]>>
      <4>1. 1..Len(anchor[k]) - 1 = {}
        BY <3>2
      <4> QED
        BY <4>1 DEF WellCut
    <3> QED
      BY <2>3, <3>1, <3>2
  <2> QED
    BY <2>1, <2>4
<1>5. ASSUME NEW k \in 1..m, NEW j \in 1..k - 1
      PROVE  /\ Ended(side[j])
             /\ Ended(anchor[j]) \/ (side[k] = <<>> /\ anchor[k] = <<>>)
  <2>1. j \in 1..m /\ j \in 1..Len(at) /\ j \in 1..Len(t) + 1 /\ j <= Len(t)
    BY <1>1
  <2>2. Ended(side[j])
    BY <1>1, <1>2, <2>1, BetweenEnds
  <2>3. anchor[j] = <<base[at[j]]>> /\ s[t[j]] = base[at[j]]
    BY <1>3, <2>1
  <2>4. CASE base[at[j]].ended
    BY <2>2, <2>3, <2>4 DEF Ended
  <2>5. CASE ~base[at[j]].ended
    <3>1. ~s[t[j]].ended /\ k \in 1..Len(t) + 1
      BY <1>1, <2>3, <2>5
    <3>2. k = Len(t) + 1 /\ Between(s, t, k) = <<>>
      BY <1>1, <3>1, BetweenEnds
    <3> QED
      BY <1>1, <1>2, <1>3, <2>2, <3>2
  <2> QED
    BY <2>4, <2>5
<1> QED
  BY <1>3, <1>4, <1>5

\* The anchors of a text in itself are where they are.
LEMMA AcrossSame ==
    ASSUME NEW a \in Text, NEW at, IsRising(at, Len(a))
    PROVE  Across(AlignLCS(a, a), at) = at
<1>1. \A k \in DOMAIN at : at[k] \in 1..Len(a)
  BY DEF IsRising
<1>2. \A i \in 1..Len(a) : AlignLCS(a, a)[i] = i
  BY AlignOfSame
<1>3. at = [k \in DOMAIN at |-> at[k]]
  BY DEF IsRising
<1>4. \A k \in DOMAIN at : AlignLCS(a, a)[at[k]] = at[k]
  BY <1>1, <1>2
<1> QED
  BY <1>3, <1>4 DEF Across

\* What the full merge makes of the regions.
Reconciled(R, m, labels) == FlattenSeq([k \in 1..m |-> Reconcile(R[k], labels) \o R[k].anchor])

MergeOf(R, m, labels) ==
    [content  |-> Reconciled(R, m, labels), outcome |-> "merged",
     conflict |-> \E k \in 1..m : Clash(R[k])]

\* The regions are those of three texts: a side and the anchors are the text.
IsCut(R, m, gen, base, exist) ==
    /\ m \in Nat /\ m > 0
    /\ \A k \in 1..m : /\ R[k].gen \in Text /\ R[k].base \in Text
                       /\ R[k].exist \in Text /\ R[k].anchor \in Text
    /\ MakeUp(GenSides(R, m), AnchorSides(R, m), m, gen)
    /\ MakeUp(BaseSides(R, m), AnchorSides(R, m), m, base)
    /\ MakeUp(ExistSides(R, m), AnchorSides(R, m), m, exist)

\* Where two texts are the same, so are their sides.
SameSides(R, m, gen, base, exist) ==
    /\ gen = exist => \A k \in 1..m : R[k].gen = R[k].exist
    /\ base = gen => \A k \in 1..m : R[k].base = R[k].gen
    /\ exist = base => \A k \in 1..m : R[k].exist = R[k].base

\* The regions have lines of the texts.
Drawn(R, m, gen, base, exist) ==
    \A S \in SUBSET Line : gen \in Seq(S) /\ base \in Seq(S) /\ exist \in Seq(S) =>
        \A k \in 1..m : /\ R[k].gen \in Seq(S) /\ R[k].base \in Seq(S)
                        /\ R[k].exist \in Seq(S) /\ R[k].anchor \in Seq(S)

\* A region with nothing in it.
NoLines(r) == r.gen = <<>> /\ r.base = <<>> /\ r.exist = <<>> /\ r.anchor = <<>>

\* The regions are well cut, and what lacks its newline has no line in a
\* region after it.
CutEnds(R, m) ==
    /\ \A k \in 1..m : /\ WellCut(R[k].gen) /\ WellCut(R[k].base)
                       /\ WellCut(R[k].exist) /\ WellCut(R[k].anchor)
    /\ R[m].anchor = <<>>
    /\ \A k \in 1..m : \A j \in 1..k - 1 :
          /\ Ended(R[j].gen) /\ Ended(R[j].base) /\ Ended(R[j].exist)
          /\ Ended(R[j].anchor) \/ NoLines(R[k])

\* R is what the three texts are cut to, in m regions.
RegionsOf(R, m, gen, base, exist) ==
    /\ IsCut(R, m, gen, base, exist)
    /\ SameSides(R, m, gen, base, exist)
    /\ Drawn(R, m, gen, base, exist)
    /\ WellCut(gen) /\ WellCut(base) /\ WellCut(exist) => CutEnds(R, m)

\* The full merge of any three texts is that of some regions of theirs.
LEMMA FullMerge ==
    ASSUME NEW gen \in Text, NEW base \in Text, NEW exist \in Text, NEW labels
    PROVE  \E R, m :
              /\ RegionsOf(R, m, gen, base, exist)
              /\ MergeRegions(gen, base, exist, labels) = MergeOf(R, m, labels)
<1> DEFINE gMap == AlignLCS(base, gen)
           eMap == AlignLCS(base, exist)
           at == Anchors(gMap, eMap)
           m == Len(at) + 1
           R == Cut(gen, base, exist, gMap, eMap)
           gAt == Across(gMap, at)
           eAt == Across(eMap, at)
           G == GenSides(R, m)
           B == BaseSides(R, m)
           E == ExistSides(R, m)
           A == AnchorSides(R, m)
<1>1. IsAlignment(gMap, base, gen) /\ IsAlignment(eMap, base, exist)
  BY AlignIs
<1>2. MergeRegions(gen, base, exist, labels) =
         [content  |-> FlattenSeq([k \in DOMAIN R |-> Reconcile(R[k], labels) \o R[k].anchor]),
          outcome  |-> "merged",
          conflict |-> \E k \in DOMAIN R : Clash(R[k])]
  BY Zenon DEF MergeRegions, R, gMap, eMap
<1> HIDE DEF gMap, eMap
<1>3. /\ DOMAIN R = 1..m /\ m \in Nat /\ m > 0 /\ IsRising(at, Len(base))
      /\ IsSide(G, A, m, gen, base, at, gAt)
      /\ IsSide(B, A, m, base, base, at, at)
      /\ IsSide(E, A, m, exist, base, at, eAt)
  BY <1>1, CutSides
<1>4. \A k \in 1..m : G[k] = R[k].gen /\ B[k] = R[k].base /\ E[k] = R[k].exist /\ A[k] = R[k].anchor
  BY DEF GenSides, BaseSides, ExistSides, AnchorSides
<1> HIDE DEF R, at, m, gAt, eAt, G, B, E, A
<1>5. /\ \A k \in 1..m : G[k] \in Text /\ B[k] \in Text /\ E[k] \in Text /\ A[k] \in Text
      /\ MakeUp(G, A, m, gen) /\ MakeUp(B, A, m, base) /\ MakeUp(E, A, m, exist)
  BY <1>3, SideIs
<1>6. IsCut(R, m, gen, base, exist)
  BY <1>3, <1>4, <1>5 DEF IsCut, G, B, E, A
<1>7. SameSides(R, m, gen, base, exist)
  <2>1. \A k \in 1..m : /\ G[k] = Between(gen, gAt, k) /\ B[k] = Between(base, at, k)
                        /\ E[k] = Between(exist, eAt, k)
    BY <1>3 DEF IsSide
  <2>2. gen = exist => gAt = eAt
    BY DEF gAt, eAt, gMap, eMap
  <2>3. base = gen => gAt = at
    BY <1>3, AcrossSame DEF gAt, gMap
  <2>4. exist = base => eAt = at
    BY <1>3, AcrossSame DEF eAt, eMap
  <2> QED
    BY <1>4, <2>1, <2>2, <2>3, <2>4 DEF SameSides
<1>8. Drawn(R, m, gen, base, exist)
  <2> SUFFICES ASSUME NEW S \in SUBSET Line, gen \in Seq(S), base \in Seq(S), exist \in Seq(S),
                      NEW k \in 1..m
               PROVE  /\ R[k].gen \in Seq(S) /\ R[k].base \in Seq(S)
                      /\ R[k].exist \in Seq(S) /\ R[k].anchor \in Seq(S)
    BY DEF Drawn
  <2>1. G[k] \in Seq(S) /\ A[k] \in Seq(S)
    BY <1>3, SideDraws
  <2>2. B[k] \in Seq(S)
    BY <1>3, SideDraws
  <2>3. E[k] \in Seq(S)
    BY <1>3, SideDraws
  <2> QED
    BY <1>4, <2>1, <2>2, <2>3
<1>9. ASSUME WellCut(gen), WellCut(base), WellCut(exist) PROVE CutEnds(R, m)
  <2>1. /\ \A k \in 1..m : WellCut(G[k]) /\ WellCut(A[k])
        /\ A[m] = <<>>
        /\ \A k \in 1..m : \A j \in 1..k - 1 :
              Ended(G[j]) /\ (Ended(A[j]) \/ (G[k] = <<>> /\ A[k] = <<>>))
    BY <1>3, <1>9, SideEnds
  <2>2. /\ \A k \in 1..m : WellCut(B[k])
        /\ \A k \in 1..m : \A j \in 1..k - 1 : Ended(B[j]) /\ (Ended(A[j]) \/ B[k] = <<>>)
    BY <1>3, <1>9, SideEnds
  <2>3. /\ \A k \in 1..m : WellCut(E[k])
        /\ \A k \in 1..m : \A j \in 1..k - 1 : Ended(E[j]) /\ (Ended(A[j]) \/ E[k] = <<>>)
    BY <1>3, <1>9, SideEnds
  <2>4. \A k \in 1..m : \A j \in 1..k - 1 : j \in 1..m
    BY <1>3
  <2>5. m \in 1..m
    BY <1>3
  <2> QED
    BY <1>4, <2>1, <2>2, <2>3, <2>4, <2>5 DEF CutEnds, NoLines
<1>10. MergeRegions(gen, base, exist, labels) = MergeOf(R, m, labels)
  BY <1>2, <1>3, Zenon DEF Reconciled, MergeOf
<1> QED
  BY <1>6, <1>7, <1>8, <1>9, <1>10 DEF RegionsOf

\* Regions of which every one reconciles to the same side give that side.
LEMMA OneSideOnly ==
    ASSUME NEW R, NEW m, NEW gen, NEW base, NEW exist, NEW labels,
           IsCut(R, m, gen, base, exist)
    PROVE  /\ (\A k \in 1..m : Reconcile(R[k], labels) = R[k].gen) => Reconciled(R, m, labels) = gen
           /\ (\A k \in 1..m : Reconcile(R[k], labels) = R[k].exist) => Reconciled(R, m, labels) = exist
<1>1. ASSUME \A k \in 1..m : Reconcile(R[k], labels) = R[k].gen PROVE Reconciled(R, m, labels) = gen
  <2>1. [k \in 1..m |-> Reconcile(R[k], labels) \o R[k].anchor] = [k \in 1..m |-> R[k].gen \o R[k].anchor]
    BY <1>1
  <2> QED
    BY <2>1 DEF Reconciled, IsCut, MakeUp, GenSides, AnchorSides
<1>2. ASSUME \A k \in 1..m : Reconcile(R[k], labels) = R[k].exist
      PROVE  Reconciled(R, m, labels) = exist
  <2>1. [k \in 1..m |-> Reconcile(R[k], labels) \o R[k].anchor] = [k \in 1..m |-> R[k].exist \o R[k].anchor]
    BY <1>2
  <2> QED
    BY <2>1 DEF Reconciled, IsCut, MakeUp, ExistSides, AnchorSides
<1> QED
  BY <1>1, <1>2

\* Where two of the texts are the same, the full merge has no conflict and
\* gives the third.
LEMMA MergeOfTwo ==
    ASSUME NEW gen \in Text, NEW base \in Text, NEW exist \in Text, NEW labels
    PROVE  /\ gen = exist \/ base = exist =>
                MergeRegions(gen, base, exist, labels) =
                   [content |-> gen, outcome |-> "merged", conflict |-> FALSE]
           /\ gen = base =>
                MergeRegions(gen, base, exist, labels) =
                   [content |-> exist, outcome |-> "merged", conflict |-> FALSE]
<1>1. PICK R, m :
         /\ RegionsOf(R, m, gen, base, exist)
         /\ MergeRegions(gen, base, exist, labels) = MergeOf(R, m, labels)
  BY FullMerge
<1>2. ASSUME gen = exist \/ base = exist
      PROVE  MergeRegions(gen, base, exist, labels) =
                [content |-> gen, outcome |-> "merged", conflict |-> FALSE]
  <2>1. \A k \in 1..m : R[k].gen = R[k].exist \/ R[k].base = R[k].exist
    BY <1>1, <1>2 DEF RegionsOf, SameSides
  <2>2. \A k \in 1..m : ~Clash(R[k]) /\ Reconcile(R[k], labels) = R[k].gen
    BY <2>1 DEF Clash, Reconcile
  <2>3. Reconciled(R, m, labels) = gen
    BY <1>1, <2>2, OneSideOnly DEF RegionsOf
  <2>4. (\E k \in 1..m : Clash(R[k])) = FALSE
    BY <2>2
  <2> QED
    BY <1>1, <2>3, <2>4 DEF MergeOf
<1>3. ASSUME gen = base
      PROVE  MergeRegions(gen, base, exist, labels) =
                [content |-> exist, outcome |-> "merged", conflict |-> FALSE]
  <2>1. \A k \in 1..m : R[k].base = R[k].gen
    BY <1>1, <1>3 DEF RegionsOf, SameSides
  <2>2. \A k \in 1..m : ~Clash(R[k]) /\ Reconcile(R[k], labels) = R[k].exist
    BY <2>1 DEF Clash, Reconcile
  <2>3. Reconciled(R, m, labels) = exist
    BY <1>1, <2>2, OneSideOnly DEF RegionsOf
  <2>4. (\E k \in 1..m : Clash(R[k])) = FALSE
    BY <2>2
  <2> QED
    BY <1>1, <2>3, <2>4 DEF MergeOf
<1> QED
  BY <1>2, <1>3

-----------------------------------------------------------------------------
(* Some lines of a text, and markers.                                      *)

\* Some lines of a text, in their order, are a text.
LEMMA LinesAtIs ==
    ASSUME NEW s \in Text, NEW P \in SUBSET (1..Len(s))
    PROVE  /\ LinesAt(s, P) \in Text /\ Len(LinesAt(s, P)) = Len(InOrder(P))
           /\ \A k \in 1..Len(InOrder(P)) : LinesAt(s, P)[k] = s[InOrder(P)[k]]
<1>1. Len(s) \in Nat /\ \A i \in 1..Len(s) : s[i] \in Line
  BY DEF Text
<1> DEFINE at == InOrder(P)
<1>2. at \in Seq(1..Len(s))
  BY <1>1, InOrderIs DEF IsRising
<1> HIDE DEF at
<1>3. Len(at) \in Nat /\ DOMAIN at = 1..Len(at) /\ \A k \in 1..Len(at) : s[at[k]] \in Line
  BY <1>1, <1>2
<1>4. LinesAt(s, P) = [k \in 1..Len(at) |-> s[at[k]]]
  BY <1>3 DEF LinesAt, at
<1>5. [k \in 1..Len(at) |-> s[at[k]]] \in [1..Len(at) -> Line]
  BY <1>3
<1> DEFINE t == [k \in 1..Len(at) |-> s[at[k]]]
           l == Len(at)
<1>6. \A k \in 1..l : t[k] = s[at[k]]
  OBVIOUS
<1> HIDE DEF t, l
<1>7. t \in Seq(Line) /\ Len(t) = l
  BY <1>3, <1>5 DEF t, l
<1> QED
  BY <1>4, <1>6, <1>7 DEF Text, at, t, l

\* The lines that no run takes for the mark of a conflict.
Plain == {l \in Line : l.kind \notin {"opens", "closes"}}

\* The marks a run writes.
Marks(labels) == {Opens(s, labels) : s \in Sides} \cup {Closes(s, labels) : s \in Sides}

\* The lines of a file with marks of one run for each side.
Over(labels) == Plain \cup Marks(labels)

\* They are lines, and the marks and the line between the sides end in a
\* newline.
LEMMA OverIs ==
    ASSUME NEW labels \in [Sides -> Nat]
    PROVE  /\ Over(labels) \in SUBSET Line /\ Plain \in SUBSET Line /\ Plain \in SUBSET Over(labels)
           /\ Middle \in Plain /\ Middle.ended
           /\ \A s \in Sides : /\ Opens(s, labels) \in Over(labels) /\ Opens(s, labels).ended
                               /\ Closes(s, labels) \in Over(labels) /\ Closes(s, labels).ended
<1>1. \A s \in Sides : Opens(s, labels) \in Line /\ Closes(s, labels) \in Line
  BY DEF Line, Opens, Closes
<1>2. Middle \in Plain
  BY DEF Plain, Line, Middle
<1> QED
  BY <1>1, <1>2 DEF Over, Marks, Plain, Opens, Closes, Middle

\* A text over some lines is one over more.
LEMMA Widened ==
    ASSUME NEW S, NEW T \in SUBSET S, NEW s \in Seq(T)
    PROVE  s \in Seq(S)
OBVIOUS

\* Closing a text leaves what its lines are and say, and ends every line of a
\* well-cut one (endsWithNewline).
LEMMA ClosedIs ==
    ASSUME NEW s \in Seq(Plain)
    PROVE  /\ Closed(s) \in Seq(Plain) /\ Len(Closed(s)) = Len(s)
           /\ \A i \in 1..Len(s) : Closed(s)[i].kind = s[i].kind /\ Closed(s)[i].text = s[i].text
           /\ WellCut(s) => Ended(Closed(s))
<1>1. CASE s = <<>>
  BY <1>1 DEF Closed, Ended
<1>2. CASE s # <<>>
  <2> DEFINE n == Len(s)
             c == Closed(s)
             last == [s[n] EXCEPT !.ended = TRUE]
  <2>1. n \in Nat /\ n > 0 /\ n \in 1..n /\ \A i \in 1..n : s[i] \in Plain
    BY <1>2
  <2>2. last \in Plain /\ last.ended /\ last.kind = s[n].kind /\ last.text = s[n].text
    <3> HIDE DEF n
    <3>1. s[n] \in Plain
      BY <2>1
    <3> DEFINE l == s[n]
    <3> HIDE DEF l
    <3>2. l \in Plain
      BY <3>1 DEF l
    <3>3. [l EXCEPT !.ended = TRUE] \in Plain /\ [l EXCEPT !.ended = TRUE].ended
          /\ [l EXCEPT !.ended = TRUE].kind = l.kind /\ [l EXCEPT !.ended = TRUE].text = l.text
      BY <3>2 DEF Plain, Line
    <3> QED
      BY <3>3 DEF l
  <2>3. c = [s EXCEPT ![n] = last]
    BY <1>2 DEF Closed
  <2> HIDE DEF last, c
  <2>4. c \in Seq(Plain) /\ Len(c) = n /\ \A i \in 1..n : c[i] = IF i = n THEN last ELSE s[i]
    BY <2>1, <2>2, <2>3
  <2>5. ASSUME WellCut(s) PROVE Ended(c)
    <3> SUFFICES ASSUME NEW i \in 1..n PROVE c[i].ended
      BY <2>4 DEF Ended
    <3>1. CASE i = n
      BY <2>2, <2>4, <3>1
    <3>2. CASE i # n
      <4>1. i \in 1..n - 1
        BY <2>1, <3>2
      <4>2. s[i].ended
        BY <2>5, <4>1 DEF WellCut
      <4> QED
        BY <2>4, <3>2, <4>2
    <3> QED
      BY <3>1, <3>2
  <2>6. \A i \in 1..n : c[i].kind = s[i].kind /\ c[i].text = s[i].text
    BY <2>2, <2>4
  <2> QED
    BY <2>4, <2>5, <2>6 DEF c
<1> QED
  BY <1>1, <1>2

\* Two texts whose lines all end, joined, are one.
LEMMA EndedJoins ==
    ASSUME NEW S \in SUBSET Line, NEW a \in Seq(S), NEW b \in Seq(S), Ended(a), Ended(b)
    PROVE  a \o b \in Seq(S) /\ Ended(a \o b)
<1>1. /\ a \o b \in Seq(S) /\ Len(a \o b) = Len(a) + Len(b) /\ Len(a) \in Nat /\ Len(b) \in Nat
      /\ \A i \in 1..Len(a) + Len(b) : (a \o b)[i] = IF i <= Len(a) THEN a[i] ELSE b[i - Len(a)]
  BY ConcatProperties
<1>2. ASSUME NEW i \in 1..Len(a) + Len(b) PROVE (a \o b)[i].ended
  <2>1. CASE i <= Len(a)
    BY <1>1, <2>1 DEF Ended
  <2>2. CASE ~(i <= Len(a))
    <3>1. i - Len(a) \in 1..Len(b)
      BY <1>1, <2>2
    <3> QED
      BY <1>1, <2>2, <3>1 DEF Ended
  <2> QED
    BY <2>1, <2>2
<1> QED
  BY <1>1, <1>2 DEF Ended

\* So is one line that ends.
LEMMA OneLine ==
    ASSUME NEW S \in SUBSET Line, NEW l \in S, l.ended
    PROVE  <<l>> \in Seq(S) /\ Ended(<<l>>)
BY DEF Ended

\* A conflict has the lines of the sides and markers of one time, each with
\* its newline.
LEMMA ConflictIs ==
    ASSUME NEW labels \in [Sides -> Nat], NEW gen \in Seq(Plain), NEW exist \in Seq(Plain)
    PROVE  /\ WriteConflict(gen, exist, labels) \in Seq(Over(labels))
           /\ WellCut(gen) /\ WellCut(exist) => Ended(WriteConflict(gen, exist, labels))
<1> DEFINE S == Over(labels)
           a == <<Opens("EXISTING", labels)>>
           b == Closed(exist)
           c == <<Middle>>
           d == Closed(gen)
           e == <<Closes("GENERATED", labels)>>
<1>1. /\ S \in SUBSET Line /\ Opens("EXISTING", labels) \in S /\ Closes("GENERATED", labels) \in S
      /\ Middle \in S /\ Opens("EXISTING", labels).ended /\ Closes("GENERATED", labels).ended
      /\ Middle.ended
  BY OverIs DEF Sides
<1>2. b \in Seq(S) /\ d \in Seq(S)
  <2>1. b \in Seq(Plain) /\ d \in Seq(Plain) /\ Plain \in SUBSET S
    BY ClosedIs, OverIs
  <2> HIDE DEF b, d, S
  <2> QED
    BY <2>1, Widened
<1>3. WellCut(gen) /\ WellCut(exist) => Ended(b) /\ Ended(d)
  BY ClosedIs
<1>4. WriteConflict(gen, exist, labels) = a \o b \o c \o d \o e
  BY Zenon DEF WriteConflict
<1> HIDE DEF S
<1>5. a \in Seq(S) /\ Ended(a) /\ c \in Seq(S) /\ Ended(c) /\ e \in Seq(S) /\ Ended(e)
  BY <1>1, OneLine
<1> HIDE DEF a, b, c, d, e
<1>6. a \o b \in Seq(S) /\ a \o b \o c \in Seq(S) /\ a \o b \o c \o d \in Seq(S) /\ a \o b \o c \o d \o e \in Seq(S)
  BY <1>2, <1>5, ConcatProperties
<1>7. ASSUME WellCut(gen), WellCut(exist) PROVE Ended(a \o b \o c \o d \o e)
  <2>1. Ended(a \o b)
    BY <1>1, <1>2, <1>3, <1>5, <1>7, EndedJoins
  <2>2. Ended(a \o b \o c)
    BY <1>1, <1>5, <1>6, <2>1, EndedJoins
  <2>3. Ended(a \o b \o c \o d)
    BY <1>1, <1>2, <1>3, <1>6, <1>7, <2>2, EndedJoins
  <2> QED
    BY <1>1, <1>5, <1>6, <2>3, EndedJoins
<1> QED
  BY <1>4, <1>6, <1>7 DEF S

\* A region is reconciled to lines of its sides and marks of this run, as well
\* cut as they are.
LEMMA ReconcileIs ==
    ASSUME NEW labels \in [Sides -> Nat], NEW r, r.gen \in Seq(Plain), r.exist \in Seq(Plain)
    PROVE  /\ Reconcile(r, labels) \in Seq(Over(labels))
           /\ WellCut(r.gen) /\ WellCut(r.exist) => WellCut(Reconcile(r, labels))
           /\ Ended(r.gen) /\ Ended(r.exist) => Ended(Reconcile(r, labels))
<1>1. r.gen \in Seq(Over(labels)) /\ r.exist \in Seq(Over(labels))
  BY OverIs, Widened
<1>2. \A s \in Seq(Line) : Ended(s) => WellCut(s)
  BY DEF Ended, WellCut
<1>3. r.gen \in Seq(Line) /\ r.exist \in Seq(Line)
      /\ WriteConflict(r.gen, r.exist, labels) \in Seq(Line)
  BY ConflictIs, OverIs, Widened
<1>4. /\ WriteConflict(r.gen, r.exist, labels) \in Seq(Over(labels))
      /\ WellCut(r.gen) /\ WellCut(r.exist) => Ended(WriteConflict(r.gen, r.exist, labels))
  BY ConflictIs
<1> QED
  BY <1>1, <1>2, <1>3, <1>4 DEF Reconcile

\* After lines that all end a well-cut text may follow.
LEMMA WellCutJoins ==
    ASSUME NEW S \in SUBSET Line, NEW a \in Seq(S), NEW b \in Seq(S), Ended(a), WellCut(b)
    PROVE  WellCut(a \o b)
<1>1. /\ Len(a \o b) = Len(a) + Len(b) /\ Len(a) \in Nat /\ Len(b) \in Nat
      /\ \A i \in 1..Len(a) + Len(b) : (a \o b)[i] = IF i <= Len(a) THEN a[i] ELSE b[i - Len(a)]
  BY ConcatProperties
<1>2. ASSUME NEW i \in 1..Len(a) + Len(b) - 1 PROVE (a \o b)[i].ended
  <2>1. CASE i <= Len(a)
    BY <1>1, <2>1 DEF Ended
  <2>2. CASE ~(i <= Len(a))
    <3>1. i - Len(a) \in 1..Len(b) - 1
      BY <1>1, <2>2
    <3> QED
      BY <1>1, <2>2, <3>1 DEF WellCut
  <2> QED
    BY <2>1, <2>2
<1> QED
  BY <1>1, <1>2 DEF WellCut

\* Texts of which only the last with a line may lack a newline make one.
LEMMA FlattenCut ==
    ASSUME NEW S \in SUBSET Line, NEW n \in Nat, NEW p, p \in [1..n -> Seq(S)],
           \A k \in 1..n : WellCut(p[k]),
           \A k \in 1..n : \A j \in 1..k - 1 : p[k] = <<>> \/ Ended(p[j])
    PROVE  WellCut(FlattenSeq(p))
<1>1. PICK f \in [0..n -> Seq(S)] : IsJoining(f, p, n) /\ FlattenSeq(p) = f[n]
  BY FlattenIs
<1> DEFINE Q == {k \in Nat : k <= n =>
                    WellCut(f[k]) /\ ((\A j \in 1..k : Ended(p[j])) => Ended(f[k]))}
<1>2. 0 \in Q
  <2>1. f[0] = <<>>
    BY <1>1 DEF IsJoining
  <2> QED
    BY <2>1 DEF WellCut, Ended
<1>3. ASSUME NEW k \in Nat, k \in Q PROVE k + 1 \in Q
  <2> SUFFICES ASSUME k + 1 <= n
               PROVE  /\ WellCut(f[k + 1])
                      /\ (\A j \in 1..k + 1 : Ended(p[j])) => Ended(f[k + 1])
    OBVIOUS
  <2>1. k + 1 \in 1..n /\ (k + 1) - 1 = k /\ k <= n /\ k \in 0..n
    OBVIOUS
  <2>2. f[k + 1] = f[k] \o p[k + 1] /\ f[k] \in Seq(S) /\ p[k + 1] \in Seq(S)
    BY <1>1, <2>1 DEF IsJoining
  <2>3. WellCut(f[k]) /\ ((\A j \in 1..k : Ended(p[j])) => Ended(f[k]))
    BY <1>3, <2>1
  <2>4. WellCut(p[k + 1]) /\ \A j \in 1..k : p[k + 1] = <<>> \/ Ended(p[j])
    BY <2>1
  <2>5. WellCut(f[k + 1])
    <3>1. CASE p[k + 1] = <<>>
      <4>1. f[k + 1] = f[k]
        BY <2>2, <3>1, ConcatEmptySeq
      <4> QED
        BY <2>3, <4>1
    <3>2. CASE p[k + 1] # <<>>
      <4>1. Ended(f[k])
        BY <2>3, <2>4, <3>2
      <4> QED
        BY <2>2, <2>4, <4>1, WellCutJoins
    <3> QED
      BY <3>1, <3>2
  <2>6. ASSUME \A j \in 1..k + 1 : Ended(p[j]) PROVE Ended(f[k + 1])
    <3>1. Ended(f[k]) /\ Ended(p[k + 1])
      <4>1. \A j \in 1..k : j \in 1..k + 1
        OBVIOUS
      <4> QED
        BY <2>3, <2>6, <4>1
    <3> QED
      BY <2>2, <3>1, EndedJoins
  <2> QED
    BY <2>5, <2>6
<1>4. n \in Q
  <2>1. Nat \subseteq Q
    <3> HIDE DEF Q
    <3> QED
      BY <1>2, <1>3, AllNumbers
  <2> QED
    BY <2>1
<1> QED
  BY <1>1, <1>4

\* A merge has lines of its texts and markers of one time, and is well cut
\* if they are.
LEMMA MergeIs ==
    ASSUME NEW labels \in [Sides -> Nat],
           NEW gen \in Seq(Plain), NEW base \in Seq(Plain), NEW exist \in Seq(Plain)
    PROVE  /\ MergeRegions(gen, base, exist, labels).content \in Seq(Over(labels))
           /\ WellCut(gen) /\ WellCut(base) /\ WellCut(exist) =>
                WellCut(MergeRegions(gen, base, exist, labels).content)
<1>1. gen \in Text /\ base \in Text /\ exist \in Text
  BY OverIs, Widened DEF Text
<1>2. PICK R, m :
         /\ RegionsOf(R, m, gen, base, exist)
         /\ MergeRegions(gen, base, exist, labels) = MergeOf(R, m, labels)
  BY <1>1, FullMerge
<1>3. m \in Nat /\ m > 0
  BY <1>2 DEF RegionsOf, IsCut
<1>4. \A k \in 1..m : R[k].gen \in Seq(Plain) /\ R[k].exist \in Seq(Plain) /\ R[k].anchor \in Seq(Plain)
  BY <1>2, OverIs DEF RegionsOf, Drawn
<1> DEFINE S == Over(labels)
           C(k) == Reconcile(R[k], labels)
           p == [k \in 1..m |-> C(k) \o R[k].anchor]
<1>5. S \in SUBSET Line /\ Plain \in SUBSET S
  BY OverIs
<1>6. \A k \in 1..m : C(k) \in Seq(S) /\ R[k].anchor \in Seq(S)
  <2> HIDE DEF S
  <2>1. \A k \in 1..m : R[k].anchor \in Seq(S)
    BY <1>4, <1>5, Widened
  <2>2. \A k \in 1..m : C(k) \in Seq(S)
    BY <1>4, ReconcileIs DEF S
  <2> QED
    BY <2>1, <2>2
<1>7. MergeRegions(gen, base, exist, labels).content = FlattenSeq(p)
  BY <1>2 DEF Reconciled, MergeOf
<1> HIDE DEF S, C
<1>8. \A k \in 1..m : p[k] = C(k) \o R[k].anchor /\ p[k] \in Seq(S)
  <2>1. \A k \in 1..m : C(k) \o R[k].anchor \in Seq(S)
    BY <1>6, ConcatProperties
  <2> QED
    BY <2>1
<1>9. p \in [1..m -> Seq(S)]
  <2>1. p = [k \in 1..m |-> p[k]]
    OBVIOUS
  <2> HIDE DEF p
  <2> QED
    BY <1>8, <2>1
<1> HIDE DEF p
<1>10. FlattenSeq(p) \in Seq(S)
  <2>1. PICK f \in [0..m -> Seq(S)] : FlattenSeq(p) = f[m]
    BY <1>3, <1>9, FlattenIs
  <2> QED
    BY <1>3, <2>1
<1>11. ASSUME WellCut(gen), WellCut(base), WellCut(exist) PROVE WellCut(FlattenSeq(p))
  <2>1. CutEnds(R, m)
    BY <1>2, <1>11 DEF RegionsOf
  <2>2. ASSUME NEW j \in 1..m, j < m PROVE Ended(C(j))
    <3>1. m \in 1..m /\ j \in 1..m - 1
      BY <1>3, <2>2
    <3>2. Ended(R[j].gen) /\ Ended(R[j].exist)
      BY <2>1, <3>1 DEF CutEnds
    <3> QED
      BY <1>4, <3>2, ReconcileIs DEF C
  <2>3. \A k \in 1..m : WellCut(C(k)) /\ WellCut(R[k].anchor)
    BY <1>4, <2>1, ReconcileIs DEF C, CutEnds
  <2>4. ASSUME NEW k \in 1..m PROVE WellCut(p[k])
    <3>1. CASE k = m
      <4>1. R[k].anchor = <<>>
        BY <2>1, <3>1 DEF CutEnds
      <4>2. p[k] = C(k)
        BY <1>6, <1>8, <4>1, ConcatEmptySeq
      <4> QED
        BY <2>3, <4>2
    <3>2. CASE k # m
      <4>1. Ended(C(k))
        BY <1>3, <2>2, <3>2
      <4> QED
        BY <1>5, <1>6, <1>8, <2>3, <4>1, WellCutJoins
    <3> QED
      BY <3>1, <3>2
  <2>5. ASSUME NEW k \in 1..m, NEW j \in 1..k - 1 PROVE p[k] = <<>> \/ Ended(p[j])
    <3>1. j \in 1..m /\ j < m
      BY <1>3
    <3>2. CASE Ended(R[j].anchor)
      <4>1. Ended(C(j) \o R[j].anchor)
        BY <1>5, <1>6, <2>2, <3>1, <3>2, EndedJoins
      <4> QED
        BY <1>8, <3>1, <4>1
    <3>3. CASE NoLines(R[k])
      <4>1. C(k) = <<>>
        BY <3>3 DEF NoLines, C, Reconcile
      <4>2. R[k].anchor = <<>>
        BY <3>3 DEF NoLines
      <4> QED
        BY <1>8, <4>1, <4>2
    <3>4. Ended(R[j].anchor) \/ NoLines(R[k])
      BY <2>1 DEF CutEnds
    <3> QED
      BY <3>2, <3>3, <3>4
  <2> QED
    BY <1>3, <1>5, <1>9, <2>4, <2>5, FlattenCut
<1> QED
  BY <1>7, <1>10, <1>11 DEF S

\* Lines of a text, all of them ended, are ended.
LEMMA TakesEnded ==
    ASSUME NEW a \in Text, NEW s, Takes(s, a), Ended(a)
    PROVE  Ended(s)
<1>1. \A l \in ToSet(a) : l.ended
  BY DEF ToSet, Ended, Text
<1> QED
  BY <1>1 DEF Takes, Ended

\* The middle of a text of more than one line is inside it.
LEMMA MidIs ==
    ASSUME NEW a \in Text, Len(a) > 1
    PROVE  Mid(a) \in 1..Len(a) - 1
BY DEF Mid, Text

\* What hirschberg makes of a well-cut text is well cut.
LEMMA HirschbergEnds ==
    \A t \in Pairs : WellCut(t[1]) => WellCut(Hirschberg[t])
<1> DEFINE Holds(t) == WellCut(t[1]) => WellCut(Hirschberg[t])
           T == {t \in Pairs : ~Holds(t)}
           rank == [t \in Pairs |-> Len(t[1])]
<1>1. rank \in [Pairs -> Nat] /\ \A t \in Pairs : rank[t] = Len(t[1]) /\ rank[t] \in Nat
  BY PairCases DEF Text
<1> SUFFICES ASSUME T # {} PROVE FALSE
  OBVIOUS
<1>2. PICK t \in T : \A u \in T : rank[t] <= rank[u]
  <2>1. T \in SUBSET Pairs
    OBVIOUS
  <2> HIDE DEF T, rank
  <2> QED
    BY <1>1, <2>1, LeastRank
<1>3. t \in Pairs /\ ~Holds(t) /\ Hirschberg[t] = HirschbergOf(Hirschberg, t) /\ WellCut(t[1])
  BY HirschbergIs
<1>4. \A u \in Pairs : Len(u[1]) < Len(t[1]) => Holds(u)
  <2> SUFFICES ASSUME NEW u \in Pairs, Len(u[1]) < Len(t[1]), ~Holds(u) PROVE FALSE
    OBVIOUS
  <2>1. u \in T
    OBVIOUS
  <2> HIDE DEF T, rank, Holds
  <2> QED
    BY <1>1, <1>2, <1>3, <2>1
<1>5. CASE t[1] = <<>> \/ t[2] = <<>> \/ Len(t[1]) = 1
  <2>1. Hirschberg[t] = <<>> \/ Hirschberg[t] = t[1]
    BY <1>3, <1>5 DEF HirschbergOf
  <2>2. WellCut(<<>>)
    BY DEF WellCut
  <2> QED
    BY <1>3, <2>1, <2>2
<1>6. CASE ~(t[1] = <<>> \/ t[2] = <<>> \/ Len(t[1]) = 1)
  <2> DEFINE u == <<Half1(t[1]), Part1(t[1], t[2])>>
             v == <<Half2(t[1]), Part2(t[1], t[2])>>
  <2>1. u \in Pairs /\ v \in Pairs /\ t[1] \in Text /\ t[2] \in Text /\ Len(t[1]) > 1
    BY <1>3, <1>6, PairCases
  <2>2. Len(u[1]) < Len(t[1]) /\ Len(v[1]) < Len(t[1])
    BY <2>1, HalvesAre
  <2>3. Hirschberg[t] = Hirschberg[u] \o Hirschberg[v]
    BY <1>3, <1>6 DEF HirschbergOf
  <2>4. Ended(u[1]) /\ WellCut(v[1])
    <3> DEFINE a == t[1]
               n == Len(a)
               m == Mid(a)
    <3>1. a \in Text /\ WellCut(a) /\ n \in Nat /\ m \in 1..n - 1
      BY <1>3, <2>1, MidIs DEF Text
    <3> HIDE DEF a, n, m
    <3>2. 1 \in 1..n + 1 /\ m \in 0..n /\ m < n /\ m + 1 \in 1..n + 1 /\ n \in 0..n
      BY <3>1
    <3>3. Ended(SubSeq(a, 1, m)) /\ WellCut(SubSeq(a, m + 1, n))
      BY <3>1, <3>2, PartEnds DEF n
    <3> QED
      BY <3>3 DEF Half1, Half2, a, m, n
  <2> HIDE DEF u, v
  <2>5. u[1] \in Text /\ v[1] \in Text /\ Hirschberg[u] \in Text /\ Hirschberg[v] \in Text
    BY <2>1, PairCases, HirschbergIs
  <2>6. Ended(Hirschberg[u])
    <3>1. Takes(Hirschberg[u], u[1])
      BY <2>1, <2>5, HirschbergTakes DEF Takes
    <3> QED
      BY <2>4, <2>5, <3>1, TakesEnded
  <2>7. WellCut(Hirschberg[v])
    BY <1>4, <2>1, <2>2, <2>4
  <2>8. WellCut(Hirschberg[u] \o Hirschberg[v])
    BY <2>5, <2>6, <2>7, WellCutJoins DEF Text
  <2> QED
    BY <1>3, <2>3, <2>8
<1> QED
  BY <1>5, <1>6

\* The beginning of a well-cut text, joined to what is taken of the rest.
LEMMA HeadAndRest ==
    ASSUME NEW a \in Text, WellCut(a), NEW n \in 0..Len(a), NEW s \in Text, WellCut(s),
           Takes(s, SubSeq(a, n + 1, Len(a)))
    PROVE  WellCut(SubSeq(a, 1, n) \o s)
<1>1. Len(a) \in Nat /\ a \in Seq(Line)
  BY DEF Text
<1>2. SubSeq(a, 1, n) \in Seq(Line) /\ WellCut(SubSeq(a, 1, n)) /\ (n < Len(a) => Ended(SubSeq(a, 1, n)))
  BY <1>1, PartEnds, PartIs
<1>3. CASE n < Len(a)
  BY <1>2, <1>3, WellCutJoins DEF Text
<1>4. CASE n = Len(a)
  <2>1. SubSeq(a, n + 1, Len(a)) = <<>>
    BY <1>1, <1>4, SubSeqEmpty
  <2>2. ToSet(<<>>) = {}
    BY DEF ToSet
  <2>3. Takes(s, <<>>)
    BY <2>1
  <2>4. s = <<>>
    <3>1. Len(s) = 0 /\ s \in Seq(Line)
      BY <2>2, <2>3 DEF Takes, Text
    <3> QED
      BY <3>1, EmptySeq
  <2> QED
    BY <1>2, <2>4, ConcatEmptySeq
<1> QED
  BY <1>1, <1>3, <1>4

\* What LCS gives after the common prefix is well cut if the first text is.
LEMMA TailsEnd ==
    ASSUME NEW a \in Text, NEW b \in Text, WellCut(a)
    PROVE  WellCut(LCSOfTails(a, b))
<1> DEFINE tail == CommonHead(Reverse(a), Reverse(b))
           n == Len(a) - tail
           front == SubSeq(a, 1, n)
           other == SubSeq(b, 1, Len(b) - tail)
           back == SubSeq(a, n + 1, Len(a))
<1>1. /\ Len(a) \in Nat /\ Len(b) \in Nat
      /\ Reverse(a) \in Text /\ Reverse(b) \in Text
      /\ Len(Reverse(a)) = Len(a) /\ Len(Reverse(b)) = Len(b)
  BY ReverseIs DEF Text
<1>2. tail \in 0..Len(a) /\ tail \in 0..Len(b)
  BY <1>1, HeadIs
<1> HIDE DEF tail
<1>3. Takes(front, a) /\ Takes(other, b) /\ Takes(back, a)
  BY <1>1, <1>2, PartTakes
<1>4. front \in Text /\ other \in Text /\ back \in Text /\ n \in 0..Len(a)
  BY <1>1, <1>2, <1>3 DEF Takes
<1>5. LCSOfTails(a, b) = Hirschberg[<<front, other>>] \o back
  BY Zenon DEF LCSOfTails, front, other, tail, back, n
<1>6. WellCut(front) /\ WellCut(back) /\ (n < Len(a) => Ended(front))
  <2>1. 1 \in 1..Len(a) + 1 /\ n + 1 \in 1..Len(a) + 1 /\ Len(a) \in 0..Len(a)
    BY <1>1, <1>4
  <2> HIDE DEF n
  <2> QED
    BY <1>4, <2>1, PartEnds
<1> HIDE DEF front, other
<1> DEFINE h == Hirschberg[<<front, other>>]
<1>7. h \in Text /\ Takes(h, front) /\ WellCut(h)
  <2>1. <<front, other>> \in Pairs
    BY <1>4 DEF Pairs
  <2>2. h \in Text
    BY <2>1, HirschbergIs
  <2> QED
    BY <1>6, <2>1, <2>2, HirschbergTakes, HirschbergEnds DEF Takes
<1> HIDE DEF h
<1>8. CASE n < Len(a)
  <2>1. Ended(h)
    BY <1>4, <1>6, <1>7, <1>8, TakesEnded
  <2> HIDE DEF n, back
  <2>2. WellCut(h \o back)
    BY <1>4, <1>6, <1>7, <2>1, WellCutJoins DEF Text
  <2> QED
    BY <1>5, <2>2 DEF h
<1>9. CASE ~(n < Len(a))
  <2>1. n = Len(a)
    BY <1>1, <1>4, <1>9
  <2>2. back = <<>>
    BY <1>1, <2>1, SubSeqEmpty
  <2> HIDE DEF back
  <2>3. h \o back = h
    BY <1>7, <2>2, ConcatEmptySeq DEF Text
  <2> QED
    BY <1>5, <1>7, <2>3 DEF h
<1> QED
  BY <1>8, <1>9

\* The common lines with a well-cut text are a well-cut text.
LEMMA LCSEnds ==
    ASSUME NEW a \in Text, NEW b \in Text, WellCut(a)
    PROVE  WellCut(LCS(a, b))
<1> DEFINE head == CommonHead(a, b)
           rest == SubSeq(a, head + 1, Len(a))
           other == SubSeq(b, head + 1, Len(b))
<1>1. Len(a) \in Nat /\ Len(b) \in Nat /\ head \in 0..Len(a) /\ head \in 0..Len(b)
  BY HeadIs DEF Text
<1> HIDE DEF head
<1>2. rest \in Text /\ other \in Text
  BY <1>1, PartTakes DEF Takes
<1>3. LCS(a, b) = SubSeq(a, 1, head) \o LCSOfTails(rest, other)
  BY Zenon DEF LCS, head, rest, other
<1>4. WellCut(rest)
  BY <1>1, PartEnds
<1>5. Takes(LCSOfTails(rest, other), rest) /\ WellCut(LCSOfTails(rest, other))
  BY <1>2, <1>4, TailsTake, TailsEnd
<1> DEFINE s == LCSOfTails(rest, other)
<1>6. s \in Text /\ Takes(s, SubSeq(a, head + 1, Len(a))) /\ WellCut(s)
  BY <1>5 DEF Takes
<1> HIDE DEF s
<1> QED
  BY <1>1, <1>3, <1>6, HeadAndRest DEF s

\* A hunk of plain lines; one with sides that are well cut; and one that lines
\* may follow.
HunkShape == [kind : {"same", "change"}, generated : Seq(Plain), existing : Seq(Plain)]

CutHunks == {h \in HunkShape : WellCut(h.generated) /\ WellCut(h.existing)}

EndedHunks == {h \in CutHunks : h.kind = "same" => Ended(h.generated)}

\* What is between two places found.
LEMMA GapIs ==
    ASSUME NEW s \in Seq(Plain), WellCut(s), NEW n \in Nat, NEW F, F \in [1..n -> 1..Len(s) + 1],
           NEW k \in 1..n + 1
    PROVE  Between(s, F, k) \in Seq(Plain) /\ WellCut(Between(s, F, k))
<1> DEFINE x == IF k = 1 THEN 1 ELSE F[k - 1] + 1
           y == IF k > Len(F) THEN Len(s) ELSE F[k] - 1
<1>1. Len(s) \in Nat /\ Len(F) = n /\ \A i \in 1..n : F[i] \in 1..Len(s) + 1
  OBVIOUS
<1>2. x \in 1..Len(s) + 2
  <2>1. k = 1 \/ k - 1 \in 1..n
    OBVIOUS
  <2> QED
    BY <1>1, <2>1
<1>3. y \in 0..Len(s)
  <2>1. k > n \/ k \in 1..n
    OBVIOUS
  <2> QED
    BY <1>1, <2>1
<1>4. Between(s, F, k) = SubSeq(s, x, y)
  BY DEF Between
<1> HIDE DEF x, y
<1>5. CASE x \in 1..Len(s) + 1
  <2>1. s \in Text
    BY OverIs, Widened DEF Text, Plain
  <2>2. SubSeq(s, x, y) \in Seq(Plain)
    BY <1>3, <1>5, PartIs
  <2>3. WellCut(SubSeq(s, x, y))
    BY <1>3, <1>5, <2>1, PartEnds
  <2> QED
    BY <1>4, <2>2, <2>3
<1>6. CASE x = Len(s) + 2
  <2>1. y < x /\ x \in Int /\ y \in Int
    BY <1>1, <1>3, <1>6
  <2>2. SubSeq(s, x, y) = <<>>
    BY <2>1, SubSeqEmpty
  <2>3. WellCut(<<>>)
    BY DEF WellCut
  <2> QED
    BY <1>4, <2>2, <2>3
<1> QED
  BY <1>1, <1>2, <1>5, <1>6

\* After a line that lacks its newline there is nothing.
LEMMA NothingAfter ==
    ASSUME NEW s \in Text, WellCut(s), NEW common \in Text, common # <<>>,
           ~common[Len(common)].ended
    PROVE  Between(s, Found(common, s), Len(common) + 1) = <<>>
<1> DEFINE n == Len(common)
           F == Found(common, s)
<1>1. n \in Nat /\ n \in 1..n /\ n + 1 # 1 /\ (n + 1) - 1 = n /\ Len(s) \in Nat
  <2>1. Len(common) \in Nat /\ Len(common) # 0
    BY EmptySeq DEF Text
  <2> QED
    BY <2>1 DEF Text
<1>2. F \in [1..n -> 1..Len(s) + 1]
  BY FoundIs
<1>3. F[n] <= Len(s) => s[F[n]] = common[n]
  BY <1>1, FoundThere
<1> HIDE DEF F
<1>4. Len(F) = n /\ F[n] \in 1..Len(s) + 1
  BY <1>1, <1>2
<1>5. F[n] >= Len(s)
  <2> SUFFICES ASSUME F[n] \in 1..Len(s) - 1 PROVE FALSE
    BY <1>1, <1>4
  <2>1. s[F[n]].ended
    BY DEF WellCut
  <2> QED
    BY <1>1, <1>3, <2>1
<1>6. Between(s, F, n + 1) = SubSeq(s, F[n] + 1, Len(s))
  <2>1. n + 1 > Len(F)
    BY <1>1, <1>4
  <2> QED
    BY <1>1, <2>1 DEF Between
<1>7. SubSeq(s, F[n] + 1, Len(s)) = <<>>
  <2>1. F[n] + 1 \in Int /\ Len(s) \in Int /\ Len(s) < F[n] + 1
    BY <1>1, <1>4, <1>5
  <2> QED
    BY <2>1, SubSeqEmpty
<1> QED
  BY <1>6, <1>7 DEF F

\* A changed region may follow hunks that end, and may be followed.
LEMMA FlushIs ==
    ASSUME NEW gen \in Seq(Plain), NEW exist \in Seq(Plain), WellCut(gen), WellCut(exist), NEW o
    PROVE  /\ o \in Seq(HunkShape) => Flush(o, gen, exist) \in Seq(HunkShape)
           /\ o \in Seq(EndedHunks) => Flush(o, gen, exist) \in Seq(EndedHunks)
           /\ gen = <<>> /\ exist = <<>> => Flush(o, gen, exist) = o
<1> DEFINE h == [kind |-> "change", generated |-> gen, existing |-> exist]
<1>1. h \in HunkShape /\ h \in EndedHunks
  BY DEF HunkShape, EndedHunks, CutHunks
<1>2. Flush(o, gen, exist) = o \/ Flush(o, gen, exist) = Append(o, h)
  BY DEF Flush
<1>3. gen = <<>> /\ exist = <<>> => Flush(o, gen, exist) = o
  BY DEF Flush
<1> HIDE DEF h
<1>4. o \in Seq(HunkShape) => Append(o, h) \in Seq(HunkShape)
  BY <1>1
<1>5. o \in Seq(EndedHunks) => Append(o, h) \in Seq(EndedHunks)
  BY <1>1
<1> QED
  BY <1>2, <1>3, <1>4, <1>5

\* All hunks are well cut, and only a line of the last can lack its newline.
OnlyLastOpen(o) ==
    o \in Seq(CutHunks) /\ \A j \in 1..Len(o) - 1 : o[j] \in EndedHunks

\* A shared line may follow hunks that end; if it lacks its newline, nothing
\* may follow it.
LEMMA ShareIs ==
    ASSUME NEW l \in Plain, NEW o
    PROVE  /\ o \in Seq(HunkShape) => Share(o, l) \in Seq(HunkShape)
           /\ o \in Seq(EndedHunks) /\ l.ended => Share(o, l) \in Seq(EndedHunks)
           /\ o \in Seq(EndedHunks) => OnlyLastOpen(Share(o, l))
<1> DEFINE new == [kind |-> "same", generated |-> <<l>>, existing |-> <<>>]
           joins == o # <<>> /\ Last(o).kind = "same"
           n == Len(o)
           old == o[n]
           longer == [old EXCEPT !.generated = Append(old.generated, l)]
<1>1. new \in HunkShape /\ new \in CutHunks /\ (l.ended => new \in EndedHunks)
  <2>1. new \in HunkShape /\ new.generated = <<l>> /\ new.existing = <<>> /\ Len(<<l>>) = 1
        /\ Len(<<>>) = 0 /\ <<l>>[1] = l
    BY DEF HunkShape
  <2> HIDE DEF new
  <2>2. WellCut(new.generated) /\ WellCut(new.existing) /\ (l.ended => Ended(new.generated))
    BY <2>1 DEF WellCut, Ended
  <2> QED
    BY <2>1, <2>2 DEF CutHunks, EndedHunks
<1>2. ~joins => Share(o, l) = Append(o, new)
  BY DEF Share
<1>3. joins => Share(o, l) = [o EXCEPT ![n] = longer]
  BY DEF Share, Last
<1>4. ASSUME NEW g \in Seq(Plain), WellCut(g), Ended(g)
      PROVE  WellCut(Append(g, l)) /\ (l.ended => Ended(Append(g, l)))
  <2>1. /\ Len(g) \in Nat /\ Len(Append(g, l)) = Len(g) + 1
        /\ \A i \in 1..Len(g) + 1 : Append(g, l)[i] = IF i = Len(g) + 1 THEN l ELSE g[i]
    BY <1>4
  <2> DEFINE p == Append(g, l)
  <2> HIDE DEF p
  <2>2. \A i \in 1..Len(p) : i # Len(p) => p[i].ended
    BY <1>4, <2>1 DEF Ended, p
  <2>3. p[Len(p)] = l /\ Len(p) \in Nat
    BY <2>1 DEF p
  <2> QED
    BY <2>2, <2>3 DEF WellCut, Ended, p
<1>5. ASSUME old \in HunkShape
      PROVE  /\ longer \in HunkShape
             /\ old.kind = "same" /\ old \in EndedHunks =>
                  longer \in CutHunks /\ (l.ended => longer \in EndedHunks)
  <2> DEFINE g == Append(old.generated, l)
  <2>1. /\ longer \in HunkShape /\ longer.generated = g /\ longer.existing = old.existing
    <3>1. g \in Seq(Plain)
      <4>1. old.generated \in Seq(Plain)
        BY <1>5 DEF HunkShape
      <4> QED
        BY <4>1
    <3> DEFINE x == old
    <3> HIDE DEF x, g
    <3>2. x \in HunkShape
      BY <1>5 DEF x
    <3>3. /\ [x EXCEPT !.generated = g] \in HunkShape
          /\ [x EXCEPT !.generated = g].generated = g
          /\ [x EXCEPT !.generated = g].existing = x.existing
      BY <3>1, <3>2 DEF HunkShape
    <3> QED
      BY <3>3 DEF x, g
  <2>2. ASSUME old.kind = "same", old \in EndedHunks
        PROVE  WellCut(g) /\ WellCut(old.existing) /\ (l.ended => Ended(g))
    <3>1. old.generated \in Seq(Plain) /\ WellCut(old.generated) /\ WellCut(old.existing)
          /\ Ended(old.generated)
      BY <2>2 DEF EndedHunks, CutHunks, HunkShape
    <3> QED
      BY <1>4, <3>1
  <2> HIDE DEF g, longer
  <2> QED
    BY <2>1, <2>2 DEF CutHunks, EndedHunks
<1> HIDE DEF new, longer, joins
<1>6. o \in Seq(HunkShape) => Share(o, l) \in Seq(HunkShape)
  <2> SUFFICES ASSUME o \in Seq(HunkShape) PROVE Share(o, l) \in Seq(HunkShape)
    OBVIOUS
  <2>1. CASE joins
    <3>1. n \in Nat /\ n \in 1..n /\ old \in HunkShape
      BY <2>1 DEF joins
    <3> QED
      BY <1>3, <1>5, <2>1, <3>1
  <2>2. CASE ~joins
    BY <1>1, <1>2, <2>2
  <2> QED
    BY <2>1, <2>2
<1>7. EndedHunks \subseteq CutHunks /\ CutHunks \subseteq HunkShape
  BY DEF EndedHunks, CutHunks
<1>8. ASSUME o \in Seq(EndedHunks)
      PROVE  (l.ended => Share(o, l) \in Seq(EndedHunks)) /\ OnlyLastOpen(Share(o, l))
  <2>1. CASE joins
    <3>1. /\ n \in Nat /\ n \in 1..n /\ old \in EndedHunks /\ old.kind = "same"
          /\ \A i \in 1..n : o[i] \in EndedHunks /\ o[i] \in CutHunks
      BY <1>7, <1>8, <2>1 DEF joins, Last
    <3>2. longer \in CutHunks /\ (l.ended => longer \in EndedHunks)
      BY <1>5, <1>7, <3>1
    <3> DEFINE p == [o EXCEPT ![n] = longer]
    <3>3. Len(p) = n /\ \A i \in 1..n : p[i] = IF i = n THEN longer ELSE o[i]
      BY <1>8, <3>1
    <3>4. p \in Seq(CutHunks) /\ (l.ended => p \in Seq(EndedHunks))
      BY <1>8, <3>1, <3>2
    <3> HIDE DEF p
    <3>5. \A j \in 1..n - 1 : p[j] \in EndedHunks
      BY <3>1, <3>3
    <3> QED
      BY <1>3, <2>1, <3>3, <3>4, <3>5 DEF OnlyLastOpen, p
  <2>2. CASE ~joins
    <3> DEFINE p == Append(o, new)
    <3>1. n \in Nat /\ \A i \in 1..n : o[i] \in EndedHunks
      BY <1>8
    <3>2. Len(p) = n + 1 /\ \A i \in 1..n : p[i] = o[i]
      BY <1>8
    <3>3. o \in Seq(CutHunks)
      BY <1>7, <1>8
    <3>4. p \in Seq(CutHunks) /\ (l.ended => p \in Seq(EndedHunks))
      BY <1>1, <1>8, <3>3
    <3> HIDE DEF p
    <3>5. \A j \in 1..Len(p) - 1 : p[j] \in EndedHunks
      BY <3>1, <3>2
    <3> QED
      BY <1>2, <2>2, <3>4, <3>5 DEF OnlyLastOpen, p
  <2> QED
    BY <2>1, <2>2
<1> QED
  BY <1>6, <1>8

\* The hunks up to each common line follow from those up to the one before.
LEMMA HunksToIs ==
    ASSUME NEW gen \in Seq(Plain), NEW exist \in Seq(Plain), WellCut(gen), WellCut(exist),
           NEW common \in Seq(Plain), NEW inGen, NEW inExist,
           inGen \in [1..Len(common) -> 1..Len(gen) + 1],
           inExist \in [1..Len(common) -> 1..Len(exist) + 1]
    PROVE  /\ HunksTo(gen, exist, common, inGen, inExist)[0] = <<>>
           /\ \A k \in 1..Len(common) :
                 HunksTo(gen, exist, common, inGen, inExist)[k] =
                    Share(Flush(HunksTo(gen, exist, common, inGen, inExist)[k - 1],
                                Between(gen, inGen, k), Between(exist, inExist, k)),
                          common[k])
<1> DEFINE n == Len(common)
           V == Seq(HunkShape)
           Step(o, k) == Share(Flush(o, Between(gen, inGen, k), Between(exist, inExist, k)), common[k])
           Is(u) == u = [k \in 0..Len(common) |->
                           IF k = 0 THEN <<>>
                           ELSE Share(Flush(u[k - 1], Between(gen, inGen, k), Between(exist, inExist, k)),
                                      common[k])]
           D == [p \in V \X (1..n) |-> Step(p[1], p[2])]
<1>1. n \in Nat /\ <<>> \in V /\ \A k \in 1..n : common[k] \in Plain
  OBVIOUS
<1>2. \A v \in V, k \in 1..n : Step(v, k) \in V
  <2> SUFFICES ASSUME NEW v \in V, NEW k \in 1..n PROVE Step(v, k) \in V
    OBVIOUS
  <2> DEFINE g == Between(gen, inGen, k)
             e == Between(exist, inExist, k)
  <2>0. /\ n \in Nat /\ k \in 1..n + 1
        /\ inGen \in [1..n -> 1..Len(gen) + 1] /\ inExist \in [1..n -> 1..Len(exist) + 1]
    BY <1>1
  <2> HIDE DEF n
  <2>1. g \in Seq(Plain) /\ WellCut(g)
    BY <2>0, GapIs
  <2>2. e \in Seq(Plain) /\ WellCut(e)
    BY <2>0, GapIs
  <2> HIDE DEF g, e
  <2>3. Flush(v, g, e) \in Seq(HunkShape)
    BY <2>1, <2>2, FlushIs
  <2>4. Share(Flush(v, g, e), common[k]) \in Seq(HunkShape)
    BY <1>1, <2>3, ShareIs
  <2> QED
    BY <2>4 DEF g, e
<1>3. \A v \in V, k \in 1..n : D[<<v, k>>] = Step(v, k)
  OBVIOUS
<1> HIDE DEF Step
<1>4. PICK f \in [0..n -> V] : f[0] = <<>> /\ \A k \in 1..n : f[k] = Step(f[k - 1], k)
  <2>0. 0 \in Nat /\ 0 <= n /\ 0 + 1..n = 1..n
    BY <1>1
  <2>1. \A v \in V, k \in 0 + 1..n : D[<<v, k>>] \in V
    <3> HIDE DEF n, V, D
    <3> QED
      BY <1>2, <1>3, <2>0
  <2> HIDE DEF n, V, D
  <2>2. \E f \in [0..n -> V] : IsStepwise(f, 0, n, <<>>, D)
    BY <1>1, <2>0, <2>1, StepwiseHolds
  <2>3. PICK f \in [0..n -> V] : f[0] = <<>> /\ \A k \in 1..n : f[k] = D[<<f[k - 1], k>>]
    BY <2>0, <2>2 DEF IsStepwise
  <2>4. \A k \in 1..n : f[k - 1] \in V
    <3>1. \A k \in 1..n : k - 1 \in 0..n
      BY <1>1
    <3> QED
      BY <2>3, <3>1
  <2> QED
    BY <1>3, <2>3, <2>4
<1>5. Is(f)
  <2>1. \A k \in 0..n : f[k] = IF k = 0 THEN <<>> ELSE Step(f[k - 1], k)
    BY <1>1, <1>4
  <2> QED
    BY <2>1 DEF Step
<1> DEFINE u == CHOOSE u : Is(u)
<1>6. Is(u)
  <2> HIDE DEF Is
  <2> QED
    BY <1>5, Zenon
<1>7. HunksTo(gen, exist, common, inGen, inExist) = u
  BY Zenon DEF HunksTo
<1> HIDE DEF u
<1>8. u[0] = <<>> /\ \A k \in 1..n :
         u[k] = Share(Flush(u[k - 1], Between(gen, inGen, k), Between(exist, inExist, k)), common[k])
  <2>1. n \in Nat /\ 0 \in 0..n /\ \A k \in 1..n : k \in 0..n /\ k # 0
    BY <1>1
  <2>2. \A k \in 0..n : u[k] = IF k = 0 THEN <<>>
             ELSE Share(Flush(u[k - 1], Between(gen, inGen, k), Between(exist, inExist, k)), common[k])
    <3>1. ASSUME NEW k \in 0..n
          PROVE  u[k] = IF k = 0 THEN <<>>
             ELSE Share(Flush(u[k - 1], Between(gen, inGen, k), Between(exist, inExist, k)), common[k])
      BY <1>6, Zenon
    <3> QED
      BY <3>1
  <2> HIDE DEF Is, n
  <2>3. u[0] = <<>>
    BY <2>1, <2>2
  <2>4. ASSUME NEW k \in 1..n
        PROVE  u[k] = Share(Flush(u[k - 1], Between(gen, inGen, k), Between(exist, inExist, k)), common[k])
    <3>1. k \in 0..n /\ k # 0
      BY <2>1
    <3> QED
      BY <2>2, <3>1
  <2> QED
    BY <2>3, <2>4
<1> QED
  BY <1>7, <1>8

\* The hunks of two well-cut texts.
LEMMA HunksAre ==
    ASSUME NEW gen \in Seq(Plain), NEW exist \in Seq(Plain), WellCut(gen), WellCut(exist)
    PROVE  OnlyLastOpen(Hunks(gen, exist))
<1> DEFINE common == LCS(gen, exist)
           n == Len(common)
           inGen == Found(common, gen)
           inExist == Found(common, exist)
           H == HunksTo(gen, exist, common, inGen, inExist)
           g(k) == Between(gen, inGen, k)
           e(k) == Between(exist, inExist, k)
<1>1. gen \in Text /\ exist \in Text
  BY Widened DEF Text, Plain
<1>2. Takes(common, gen) /\ WellCut(common)
  BY <1>1, LCSTakes, LCSEnds
<1> HIDE DEF common
<1>3. common \in Text /\ common \in Seq(Plain) /\ n \in Nat
  <2>1. common \in Seq(Line) /\ \A i \in 1..n : common[i] \in ToSet(gen)
    BY <1>2 DEF Takes, Text
  <2>2. ToSet(gen) \subseteq Plain
    BY DEF ToSet
  <2>3. \A i \in 1..n : common[i] \in Plain
    BY <2>1, <2>2
  <2> QED
    BY <2>1, <2>3 DEF Text
<1>4. inGen \in [1..n -> 1..Len(gen) + 1] /\ inExist \in [1..n -> 1..Len(exist) + 1]
  BY <1>1, <1>3, FoundIs
<1>5. common # <<>> /\ ~common[n].ended => g(n + 1) = <<>> /\ e(n + 1) = <<>>
  BY <1>1, <1>3, NothingAfter
<1>6. Hunks(gen, exist) = Flush(H[n], g(n + 1), e(n + 1))
  BY Zenon DEF Hunks, HunksOf, common
<1> HIDE DEF inGen, inExist
<1>7. H[0] = <<>> /\ \A k \in 1..n : H[k] = Share(Flush(H[k - 1], g(k), e(k)), common[k])
  BY <1>3, <1>4, HunksToIs
<1>8. \A k \in 1..n + 1 : g(k) \in Seq(Plain) /\ WellCut(g(k)) /\ e(k) \in Seq(Plain) /\ WellCut(e(k))
  BY <1>3, <1>4, GapIs
<1> HIDE DEF H, g, e, n
<1> DEFINE Q == {k \in Nat : k <= n /\ (\A i \in 1..k : common[i].ended) => H[k] \in Seq(EndedHunks)}
<1>9. 0 \in Q
  <2>1. 0 \in Nat /\ H[0] = <<>> /\ <<>> \in Seq(EndedHunks)
    BY <1>7
  <2> QED
    BY <2>1
<1>10. ASSUME NEW k \in Nat, k \in Q PROVE k + 1 \in Q
  <2> SUFFICES ASSUME k + 1 <= n, \A i \in 1..k + 1 : common[i].ended
               PROVE  H[k + 1] \in Seq(EndedHunks)
    OBVIOUS
  <2>1. k + 1 \in 1..n /\ k + 1 \in 1..n + 1 /\ (k + 1) - 1 = k /\ k <= n /\ k + 1 \in 1..k + 1
    BY <1>3 DEF n
  <2>2. H[k] \in Seq(EndedHunks)
    BY <1>10, <2>1
  <2>3. Flush(H[k], g(k + 1), e(k + 1)) \in Seq(EndedHunks)
    BY <1>8, <2>1, <2>2, FlushIs
  <2>4. common[k + 1] \in Plain /\ common[k + 1].ended
    BY <1>3, <2>1 DEF n
  <2>5. H[k + 1] = Share(Flush(H[k], g(k + 1), e(k + 1)), common[k + 1])
    BY <1>7, <2>1
  <2> QED
    BY <2>3, <2>4, <2>5, ShareIs
<1>11. Nat \subseteq Q
  <2> HIDE DEF Q
  <2> QED
    BY <1>9, <1>10, AllNumbers
<1>12. EndedHunks \subseteq CutHunks
  BY DEF EndedHunks
<1>13. n \in Nat /\ n + 1 \in 1..n + 1 /\ \A i \in 1..n - 1 : common[i].ended
  BY <1>2, <1>3 DEF WellCut, n
<1>14. CASE n = 0 \/ common[n].ended
  <2>1. \A i \in 1..n : common[i].ended
    BY <1>13, <1>14
  <2>2. H[n] \in Seq(EndedHunks)
    BY <1>11, <1>13, <2>1
  <2>3. Flush(H[n], g(n + 1), e(n + 1)) \in Seq(EndedHunks)
    BY <1>8, <1>13, <2>2, FlushIs
  <2> DEFINE o == Flush(H[n], g(n + 1), e(n + 1))
  <2> HIDE DEF o
  <2>4. o \in Seq(EndedHunks)
    BY <2>3 DEF o
  <2>5. o \in Seq(CutHunks) /\ \A j \in 1..Len(o) - 1 : o[j] \in EndedHunks
    BY <1>12, <2>4
  <2> QED
    BY <1>6, <2>5 DEF OnlyLastOpen, o
<1>15. CASE n # 0 /\ ~common[n].ended
  <2>1. common # <<>>
    BY <1>3, <1>15 DEF n
  <2>2. g(n + 1) = <<>> /\ e(n + 1) = <<>>
    BY <1>5, <1>15, <2>1
  <2>3. Hunks(gen, exist) = H[n]
    BY <1>6, <1>8, <1>13, <2>2, FlushIs
  <2>4. n \in 1..n /\ n \in 1..n + 1 /\ n - 1 \in Nat /\ n - 1 <= n
    BY <1>13, <1>15
  <2>5. H[n - 1] \in Seq(EndedHunks)
    BY <1>11, <1>13, <2>4
  <2>6. Flush(H[n - 1], g(n), e(n)) \in Seq(EndedHunks)
    BY <1>8, <2>4, <2>5, FlushIs
  <2>7. H[n] = Share(Flush(H[n - 1], g(n), e(n)), common[n])
    BY <1>7, <2>4
  <2>8. common[n] \in Plain
    BY <1>3, <2>4 DEF n
  <2>9. OnlyLastOpen(Share(Flush(H[n - 1], g(n), e(n)), common[n]))
    BY <2>6, <2>8, ShareIs
  <2> QED
    BY <2>3, <2>7, <2>9
<1> QED
  BY <1>14, <1>15

\* A block is lines of its side between marks of one run, and ends.
LEMMA BlockIs ==
    ASSUME NEW labels \in [Sides -> Nat], NEW side \in Sides, NEW s \in Seq(Plain), WellCut(s)
    PROVE  Block(s, side, labels) \in Seq(Over(labels)) /\ Ended(Block(s, side, labels))
<1> DEFINE S == Over(labels)
           a == <<Opens(side, labels)>>
           b == Closed(s)
           c == <<Closes(side, labels)>>
<1>1. /\ S \in SUBSET Line /\ Plain \in SUBSET S
      /\ Opens(side, labels) \in S /\ Closes(side, labels) \in S
      /\ Opens(side, labels).ended /\ Closes(side, labels).ended
  BY OverIs
<1>2. Block(s, side, labels) = <<>> \/ Block(s, side, labels) = a \o b \o c
  BY Zenon DEF Block
<1> HIDE DEF S
<1>3. a \in Seq(S) /\ Ended(a) /\ c \in Seq(S) /\ Ended(c)
  BY <1>1, OneLine
<1>4. b \in Seq(S) /\ Ended(b)
  <2>1. b \in Seq(Plain) /\ Ended(b)
    BY ClosedIs
  <2> HIDE DEF b
  <2> QED
    BY <1>1, <2>1, Widened
<1> HIDE DEF a, b, c
<1>5. a \o b \in Seq(S) /\ Ended(a \o b)
  BY <1>1, <1>3, <1>4, EndedJoins
<1>6. a \o b \o c \in Seq(S) /\ Ended(a \o b \o c)
  BY <1>1, <1>3, <1>5, EndedJoins
<1>7. <<>> \in Seq(S) /\ Ended(<<>>)
  BY DEF Ended
<1> QED
  BY <1>2, <1>6, <1>7 DEF S

\* A hunk is shown as lines of its sides and marks of one run, well cut.
LEMMA ShownIs ==
    ASSUME NEW labels \in [Sides -> Nat], NEW h \in CutHunks
    PROVE  /\ Shown(h, labels) \in Seq(Over(labels)) /\ WellCut(Shown(h, labels))
           /\ h \in EndedHunks => Ended(Shown(h, labels))
<1>1. /\ h.generated \in Seq(Plain) /\ h.existing \in Seq(Plain)
      /\ WellCut(h.generated) /\ WellCut(h.existing)
  BY DEF CutHunks, HunkShape
<1>2. CASE h.kind = "same"
  <2>1. Shown(h, labels) = h.generated
    BY <1>2 DEF Shown
  <2>2. h.generated \in Seq(Over(labels))
    BY <1>1, OverIs, Widened
  <2> QED
    BY <1>1, <1>2, <2>1, <2>2 DEF EndedHunks
<1>3. CASE h.kind # "same"
  <2> DEFINE a == Block(h.existing, "EXISTING", labels)
             b == Block(h.generated, "GENERATED", labels)
  <2>1. Shown(h, labels) = a \o b
    BY <1>3 DEF Shown
  <2>2. a \in Seq(Over(labels)) /\ Ended(a) /\ b \in Seq(Over(labels)) /\ Ended(b)
    BY <1>1, BlockIs DEF Sides
  <2> HIDE DEF a, b
  <2>3. a \o b \in Seq(Over(labels)) /\ Ended(a \o b)
    BY <2>2, OverIs, EndedJoins
  <2>4. WellCut(a \o b)
    BY <2>3 DEF Ended, WellCut
  <2> QED
    BY <2>1, <2>3, <2>4
<1> QED
  BY <1>2, <1>3

\* A diff has lines of its texts and markers of one time, and is well cut.
LEMMA DiffIs ==
    ASSUME NEW labels \in [Sides -> Nat], NEW gen \in Seq(Plain), NEW exist \in Seq(Plain),
           WellCut(gen), WellCut(exist)
    PROVE  Diff(gen, exist, labels) \in Seq(Over(labels)) /\ WellCut(Diff(gen, exist, labels))
<1>1. CASE gen = exist
  BY <1>1, OverIs, Widened DEF Diff
<1>2. CASE gen # exist
  <2> DEFINE H == Hunks(gen, exist)
             n == Len(H)
             S == Over(labels)
             p == [k \in 1..n |-> Shown(H[k], labels)]
  <2>1. /\ H \in Seq(CutHunks) /\ \A j \in 1..n - 1 : H[j] \in EndedHunks
    BY HunksAre DEF OnlyLastOpen
  <2>2. Diff(gen, exist, labels) = FlattenSeq([k \in DOMAIN H |-> Shown(H[k], labels)])
    BY <1>2, Zenon DEF Diff
  <2> HIDE DEF H
  <2>3. n \in Nat /\ DOMAIN H = 1..n /\ \A k \in 1..n : H[k] \in CutHunks
    BY <2>1
  <2>4. Diff(gen, exist, labels) = FlattenSeq(p)
    BY <2>2, <2>3
  <2>5. \A k \in 1..n : p[k] = Shown(H[k], labels)
    OBVIOUS
  <2> HIDE DEF S, n
  <2>7. p \in [1..n -> Seq(S)]
    <3>1. \A k \in 1..n : Shown(H[k], labels) \in Seq(S)
      BY <2>3, ShownIs DEF S
    <3> QED
      BY <3>1
  <2> HIDE DEF p
  <2>8. S \in SUBSET Line
    BY OverIs DEF S
  <2>9. \A k \in 1..n : WellCut(p[k])
    BY <2>3, <2>5, ShownIs
  <2>10. ASSUME NEW k \in 1..n, NEW j \in 1..k - 1 PROVE Ended(p[j])
    <3>1. j \in 1..n - 1 /\ j \in 1..n
      BY <2>3
    <3> QED
      BY <2>1, <2>3, <2>5, <3>1, ShownIs DEF n
  <2>11. WellCut(FlattenSeq(p))
    BY <2>3, <2>7, <2>8, <2>9, <2>10, FlattenCut
  <2>12. FlattenSeq(p) \in Seq(S)
    <3>1. PICK f \in [0..n -> Seq(S)] : FlattenSeq(p) = f[n]
      BY <2>3, <2>7, FlattenIs
    <3> QED
      BY <2>3, <3>1
  <2> QED
    BY <2>4, <2>11, <2>12 DEF S
<1> QED
  BY <1>1, <1>2
=============================================================================
