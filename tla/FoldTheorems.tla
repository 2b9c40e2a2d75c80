----------------------------- MODULE FoldTheorems -----------------------------
(***************************************************************************)
(* What a fold of the community modules computes, for any operator step    *)
(* and any way to pick the next element: step(item[x], the fold of the     *)
(* rest), where x is the element picked.  MapThenFoldSet chooses a         *)
(* function over the subsets of S by its recursion; that there is one, and *)
(* one only, is proved here from the least-number principle.  The modules  *)
(* that need it take an instance for their own operator.                   *)
(***************************************************************************)
EXTENDS Integers, SequencesExt, FiniteSetTheorems, WellFoundedInduction, TLAPS

CONSTANTS step(_, _), pick(_)

\* Every set of natural numbers that has a member has a least one.
LEMMA LeastNumber ==
    ASSUME NEW T \in SUBSET Nat, T # {}
    PROVE  \E x \in T : \A y \in T : x <= y
<1> DEFINE R == {p \in Nat \X Nat : p[1] < p[2]}
<1>1. IsWellFoundedOn(R, Nat)
  BY NatLessThanWellFounded, Zenon DEF OpToRel
<1>2. \E x \in T : \A y \in T : ~ (<<y, x>> \in R)
  BY <1>1, WFMin
<1>3. \A x, y \in Nat : y < x => <<y, x>> \in R
  OBVIOUS
<1> HIDE DEF R
<1>4. PICK x \in T : \A y \in T : ~ (<<y, x>> \in R)
  BY <1>2
<1>5. \A y \in T : ~(y < x)
  BY <1>3, <1>4
<1>6. QED
  BY <1>5

\* Induction over the natural numbers, for the members of a set.
LEMMA Induction ==
    ASSUME NEW T, 0 \in T, \A n \in Nat : n \in T => n + 1 \in T
    PROVE  Nat \subseteq T
<1> SUFFICES ASSUME Nat \ T # {} PROVE FALSE
  OBVIOUS
<1>1. PICK n \in Nat \ T : \A m \in Nat \ T : n <= m
  BY LeastNumber
<1>2. n # 0 /\ n - 1 \in Nat
  BY <1>1
<1>3. n - 1 \in T
  BY <1>1, <1>2
<1>4. QED
  BY <1>1, <1>2, <1>3

\* Induction over the finite sets that a step can shrink: what holds of the
\* empty set, and of each set as soon as it holds of what is left when an
\* element was picked, holds of all.
LEMMA SetInduction ==
    ASSUME NEW S, IsFiniteSet(S), NEW Good,
           {} \in Good,
           \A s \in SUBSET S : s # {} => pick(s) \in s,
           \A s \in SUBSET S : s # {} /\ s \ {pick(s)} \in Good => s \in Good
    PROVE  SUBSET S \subseteq Good
<1> DEFINE T == {n \in Nat : \A s \in SUBSET S : Cardinality(s) = n => s \in Good}
<1>1. \A s \in SUBSET S : IsFiniteSet(s) /\ Cardinality(s) \in Nat
  BY FS_Subset, FS_CardinalityType
<1>2. 0 \in T
  BY <1>1, FS_EmptySet
<1>3. ASSUME NEW n \in Nat, n \in T
      PROVE  n + 1 \in T
  <2> SUFFICES ASSUME NEW s \in SUBSET S, Cardinality(s) = n + 1
               PROVE  s \in Good
    OBVIOUS
  <2>1. s # {} /\ pick(s) \in s
    BY FS_EmptySet
  <2>2. Cardinality(s \ {pick(s)}) = n
    BY <1>1, <2>1, FS_RemoveElement
  <2>3. s \ {pick(s)} \in Good
    BY <1>3, <2>2
  <2>4. QED
    BY <2>1, <2>3
<1>4. Nat \subseteq T
  <2> HIDE DEF T
  <2> QED
    BY <1>2, <1>3, Induction
<1>5. QED
  BY <1>1, <1>4

\* Induction over the length of sequences, one more element at the end.
LEMMA SeqInduction ==
    ASSUME NEW A, NEW Good, <<>> \in Good,
           \A q \in Seq(A) : \A e \in A : q \in Good => Append(q, e) \in Good
    PROVE  Seq(A) \subseteq Good
<1> DEFINE T == {n \in Nat : \A q \in Seq(A) : Len(q) = n => q \in Good}
<1>1. 0 \in T
  <2>1. \A q \in Seq(A) : Len(q) = 0 => q = <<>>
    OBVIOUS
  <2>2. QED
    BY <2>1
<1>2. ASSUME NEW n \in Nat, n \in T
      PROVE  n + 1 \in T
  <2> SUFFICES ASSUME NEW q \in Seq(A), Len(q) = n + 1
               PROVE  q \in Good
    OBVIOUS
  <2> DEFINE front == SubSeq(q, 1, n)
             last == q[n + 1]
  <2>1. front \in Seq(A) /\ Len(front) = n /\ last \in A
    OBVIOUS
  <2>2. q = Append(front, last)
    OBVIOUS
  <2>3. front \in Good
    BY <1>2, <2>1
  <2> HIDE DEF front, last
  <2>4. QED
    BY <2>1, <2>2, <2>3
<1>3. Nat \subseteq T
  <2> HIDE DEF T
  <2> QED
    BY <1>1, <1>2, Induction
<1>4. \A q \in Seq(A) : Len(q) \in Nat
  OBVIOUS
<1>5. QED
  BY <1>3, <1>4

-----------------------------------------------------------------------------
\* The recursion of MapThenFoldSet over the subsets in D.
Table(f, b, item, D) ==
    f = [s \in D |-> IF s = {} THEN b ELSE step(item[pick(s)], f[s \ {pick(s)}])]

Fold(b, item, S) == MapThenFoldSet(step, b, LAMBDA x : item[x], pick, S)

Picks(S) == \A s \in SUBSET S : s # {} => pick(s) \in s

\* The subsets of at most n elements.
Small(S, n) == {s \in SUBSET S : Cardinality(s) <= n}

LEMMA TableExists ==
    ASSUME NEW b, NEW item, NEW S, IsFiniteSet(S), Picks(S)
    PROVE  \E f : Table(f, b, item, SUBSET S)
<1> DEFINE T == {n \in Nat : \E f : Table(f, b, item, Small(S, n))}
<1>1. \A s \in SUBSET S : IsFiniteSet(s) /\ Cardinality(s) \in Nat
  BY FS_Subset, FS_CardinalityType
<1>2. 0 \in T
  <2>1. Table([s \in Small(S, 0) |-> b], b, item, Small(S, 0))
    BY <1>1, FS_EmptySet DEF Table, Small
  <2>2. QED
    BY <2>1
<1>3. ASSUME NEW n \in Nat, n \in T
      PROVE  n + 1 \in T
  <2>1. PICK f : Table(f, b, item, Small(S, n))
    BY <1>3
  <2> DEFINE g == [s \in Small(S, n + 1) |->
                      IF s = {} THEN b ELSE step(item[pick(s)], f[s \ {pick(s)}])]
  <2>2. ASSUME NEW s \in Small(S, n + 1), s # {}
        PROVE  g[s \ {pick(s)}] = f[s \ {pick(s)}]
    <3> DEFINE r == s \ {pick(s)}
    <3>1. Cardinality(r) = Cardinality(s) - 1 /\ r \in SUBSET S
      BY <1>1, <2>2, FS_RemoveElement DEF Small, Picks
    <3>2. r \in Small(S, n) /\ r \in Small(S, n + 1)
      BY <1>1, <3>1 DEF Small
    <3>3. f[r] = IF r = {} THEN b ELSE step(item[pick(r)], f[r \ {pick(r)}])
      BY <2>1, <3>2 DEF Table
    <3>4. QED
      BY <3>2, <3>3
  <2>3. Table(g, b, item, Small(S, n + 1))
    BY <2>2 DEF Table
  <2>4. QED
    BY <2>3
<1>4. Nat \subseteq T
  <2> HIDE DEF T
  <2> QED
    BY <1>2, <1>3, Induction
<1>5. Small(S, Cardinality(S)) = SUBSET S
  BY FS_Subset DEF Small
<1>6. Cardinality(S) \in T
  BY <1>1, <1>4
<1>7. QED
  BY <1>5, <1>6

\* Two tables agree on the subsets of what they and their items share.
LEMMA TablesAgree ==
    ASSUME NEW b, NEW item, NEW other, NEW S, NEW D, NEW E,
           IsFiniteSet(S), Picks(S), SUBSET S \subseteq D, SUBSET S \subseteq E,
           \A x \in S : item[x] = other[x],
           NEW f, NEW g, Table(f, b, item, D), Table(g, b, other, E)
    PROVE  \A s \in SUBSET S : f[s] = g[s]
<1> DEFINE Good == {s \in SUBSET S : f[s] = g[s]}
<1>1. {} \in Good
  <2>1. f[{}] = b /\ g[{}] = b
    BY DEF Table
  <2>2. QED
    BY <2>1
<1>2. ASSUME NEW s \in SUBSET S, s # {}, s \ {pick(s)} \in Good
      PROVE  s \in Good
  <2>1. f[s] = step(item[pick(s)], f[s \ {pick(s)}])
    BY <1>2 DEF Table
  <2>2. g[s] = step(other[pick(s)], g[s \ {pick(s)}])
    BY <1>2 DEF Table
  <2>3. pick(s) \in S
    BY <1>2 DEF Picks
  <2>4. QED
    BY <1>2, <2>1, <2>2, <2>3
<1> HIDE DEF Good
<1>3. SUBSET S \subseteq Good
  BY <1>1, <1>2, SetInduction DEF Picks
<1>4. QED
  BY <1>3 DEF Good

LEMMA FoldTable ==
    ASSUME NEW b, NEW item, NEW S, IsFiniteSet(S), Picks(S)
    PROVE  \E f : Table(f, b, item, SUBSET S) /\ Fold(b, item, S) = f[S]
<1>1. PICK f : Table(f, b, item, SUBSET S)
  BY TableExists
<1> DEFINE g == CHOOSE h : Table(h, b, item, SUBSET S)
<1>2. Table(g, b, item, SUBSET S)
  BY <1>1
<1>3. Fold(b, item, S)
        = (CHOOSE h : h = [s \in SUBSET S |->
               IF s = {} THEN b ELSE step(item[pick(s)], h[s \ {pick(s)}])])[S]
  BY DEF Fold, MapThenFoldSet
<1>4. Fold(b, item, S) = g[S]
  BY <1>3 DEF Table
<1>5. QED
  BY <1>2, <1>4

-----------------------------------------------------------------------------
LEMMA FoldEmpty ==
    ASSUME NEW b, NEW item
    PROVE  Fold(b, item, {}) = b
<1>1. IsFiniteSet({}) /\ Picks({})
  BY FS_EmptySet DEF Picks
<1>2. PICK f : Table(f, b, item, SUBSET {}) /\ Fold(b, item, {}) = f[{}]
  BY <1>1, FoldTable
<1>3. QED
  BY <1>2 DEF Table

\* A fold reads the items of its own elements only.
LEMMA FoldReads ==
    ASSUME NEW b, NEW item, NEW other, NEW S, IsFiniteSet(S), Picks(S),
           \A x \in S : item[x] = other[x]
    PROVE  Fold(b, item, S) = Fold(b, other, S)
<1>1. PICK f : Table(f, b, item, SUBSET S) /\ Fold(b, item, S) = f[S]
  BY FoldTable
<1>2. PICK g : Table(g, b, other, SUBSET S) /\ Fold(b, other, S) = g[S]
  BY FoldTable
<1>3. f[S] = g[S]
  BY <1>1, <1>2, TablesAgree
<1>4. QED
  BY <1>1, <1>2, <1>3

LEMMA FoldStep ==
    ASSUME NEW b, NEW item, NEW S, IsFiniteSet(S), Picks(S), S # {}
    PROVE  Fold(b, item, S) = step(item[pick(S)], Fold(b, item, S \ {pick(S)}))
<1> DEFINE R == S \ {pick(S)}
<1>1. IsFiniteSet(R) /\ Picks(R) /\ SUBSET R \subseteq SUBSET S
  BY FS_RemoveElement DEF Picks
<1>2. PICK f : Table(f, b, item, SUBSET S) /\ Fold(b, item, S) = f[S]
  BY FoldTable
<1>3. PICK g : Table(g, b, item, SUBSET R) /\ Fold(b, item, R) = g[R]
  BY <1>1, FoldTable
<1>4. f[R] = g[R]
  <2> HIDE DEF R
  <2> QED
    BY <1>1, <1>2, <1>3, TablesAgree
<1>5. f[S] = step(item[pick(S)], f[R])
  BY <1>2 DEF Table
<1>6. QED
  BY <1>2, <1>3, <1>4, <1>5

\* The same for a segment and the rest of it.
Begins(S, x, R) == IsFiniteSet(S) /\ Picks(S) /\ S # {} /\ pick(S) = x /\ S \ {x} = R

LEMMA FoldBegins ==
    ASSUME NEW b, NEW item, NEW S, NEW x, NEW R, Begins(S, x, R)
    PROVE  Fold(b, item, S) = step(item[x], Fold(b, item, R))
<1>1. IsFiniteSet(S) /\ Picks(S) /\ S # {}
  BY DEF Begins
<1>2. Fold(b, item, S) = step(item[pick(S)], Fold(b, item, S \ {pick(S)}))
  BY <1>1, FoldStep
<1>3. pick(S) = x /\ S \ {pick(S)} = R
  BY DEF Begins
<1>4. QED
  BY <1>2, <1>3

LEMMA FoldOfNothing ==
    ASSUME NEW item, NEW S, IsFiniteSet(S), Picks(S),
           \A x \in S : step(item[x], 0) = 0
    PROVE  Fold(0, item, S) = 0
<1> DEFINE Good == {s \in SUBSET S : Fold(0, item, s) = 0}
<1>1. {} \in Good
  BY FoldEmpty
<1>2. ASSUME NEW s \in SUBSET S, s # {}, s \ {pick(s)} \in Good
      PROVE  s \in Good
  <2>1. pick(s) \in s /\ IsFiniteSet(s) /\ Picks(s)
    BY <1>2, FS_Subset DEF Picks
  <2>2. Fold(0, item, s) = step(item[pick(s)], Fold(0, item, s \ {pick(s)}))
    BY <1>2, <2>1, FoldStep
  <2>3. QED
    BY <1>2, <2>1, <2>2
<1>3. SUBSET S \subseteq Good
  <2> HIDE DEF Good
  <2> QED
    BY <1>1, <1>2, SetInduction DEF Picks
<1>4. QED
  BY <1>3

\* A sum: when one item grows by d and the others stay, so does the sum.
Grown(item, other, S, role, d) ==
    /\ \A x \in S : \A n \in Nat : /\ step(item[x], n) \in Nat
                                /\ step(item[x], n + d) = step(item[x], n) + d
    /\ \A n \in Nat : step(other[role], n) = step(item[role], n) + d
    /\ \A x \in S : x # role => other[x] = item[x]

LEMMA FoldGrows ==
    ASSUME NEW item, NEW other, NEW S, IsFiniteSet(S), Picks(S),
           NEW role \in S, NEW d \in Nat, Grown(item, other, S, role, d)
    PROVE  Fold(0, item, S) \in Nat /\ Fold(0, other, S) = Fold(0, item, S) + d
<1> DEFINE F(s) == Fold(0, item, s)
           G(s) == Fold(0, other, s)
           Good == {s \in SUBSET S :
                      F(s) \in Nat /\ G(s) = F(s) + (IF role \in s THEN d ELSE 0)}
<1>1. {} \in Good
  BY FoldEmpty
<1>2. ASSUME NEW s \in SUBSET S, s # {}, s \ {pick(s)} \in Good
      PROVE  s \in Good
  <2> DEFINE x == pick(s)
             r == s \ {x}
  <2>1. x \in s /\ x \in S
    BY <1>2 DEF Picks
  <2>2. IsFiniteSet(s) /\ Picks(s)
    BY FS_Subset DEF Picks
  <2>3. F(s) = step(item[x], F(r)) /\ G(s) = step(other[x], G(r))
    BY <1>2, <2>2, FoldStep
  <2>4. F(r) \in Nat /\ G(r) = F(r) + (IF role \in r THEN d ELSE 0)
    BY <1>2
  <2> HIDE DEF F, G, x
  <2>5. CASE x = role
    <3>1. role \notin r /\ role \in s
      BY <2>1, <2>5
    <3>2. QED
      BY <2>3, <2>4, <2>5, <3>1 DEF Grown
  <2>6. CASE x # role
    <3>1. other[x] = item[x] /\ (role \in r <=> role \in s)
      BY <2>1, <2>6 DEF Grown
    <3>2. QED
      BY <2>1, <2>3, <2>4, <3>1 DEF Grown
  <2>7. QED
    BY <2>5, <2>6
<1>3. SUBSET S \subseteq Good
  <2> HIDE DEF Good
  <2> QED
    BY <1>1, <1>2, SetInduction DEF Picks
<1>4. S \in Good
  BY <1>3
<1>5. QED
  BY <1>4

-----------------------------------------------------------------------------
\* Folds over the indices of a sequence, from the left (the greatest index is
\* picked, so the last element is added last) and from the right.
LEMMA Extremes ==
    ASSUME NEW n \in Nat, NEW s \in SUBSET (1..n), s # {}
    PROVE  /\ Max(s) \in s /\ \A k \in s : k <= Max(s)
           /\ Min(s) \in s /\ \A k \in s : Min(s) <= k
<1>1. PICK y \in s : \A k \in s : y <= k
  BY LeastNumber
<1> DEFINE T == {n - k : k \in s}
<1>2. T \in SUBSET Nat /\ T # {}
  <2>1. \A k \in s : n - k \in Nat
    OBVIOUS
  <2>2. QED
    BY <2>1
<1>3. PICK x \in T : \A z \in T : x <= z
  BY <1>2, LeastNumber
<1>4. PICK m \in s : x = n - m
  BY <1>3
<1>5. \A k \in s : n - m <= n - k
  BY <1>3, <1>4
<1>6. \A k \in s : m >= k
  BY <1>5
<1>7. Max(s) \in s /\ \A k \in s : Max(s) >= k
  BY <1>6 DEF Max
<1>8. Min(s) \in s /\ \A k \in s : Min(s) <= k
  BY <1>1 DEF Min
<1>9. QED
  BY <1>7, <1>8

PicksGreatest(n) == \A s \in SUBSET (1..n) : s # {} => pick(s) = Max(s)
PicksLeast(n) == \A s \in SUBSET (1..n) : s # {} => pick(s) = Min(s)

\* The segments of 1..n.
LEMMA GreatestFirst ==
    ASSUME NEW n \in Nat, PicksGreatest(n)
    PROVE  /\ IsFiniteSet(1..n) /\ Picks(1..n)
           /\ n # 0 => Begins(1..n, n, 1..n - 1)
<1>1. IsFiniteSet(1..n)
  BY FS_Interval
<1>2. Picks(1..n)
  BY Extremes DEF Picks, PicksGreatest
<1>3. ASSUME n # 0
      PROVE  Begins(1..n, n, 1..n - 1)
  <2>1. n \in 1..n /\ (1..n) \ {n} = 1..n - 1
    BY <1>3
  <2>2. Max(1..n) \in 1..n /\ n <= Max(1..n)
    BY <2>1, Extremes
  <2>3. QED
    BY <1>1, <1>2, <2>1, <2>2 DEF PicksGreatest, Begins
<1>4. QED
  BY <1>1, <1>2, <1>3

LEMMA LeastFirst ==
    ASSUME NEW n \in Nat, PicksLeast(n), NEW i \in Nat \ {0}, NEW m \in Nat, m <= n
    PROVE  /\ IsFiniteSet(i..m) /\ Picks(i..m)
           /\ i <= m => Begins(i..m, i, (i + 1)..m)
<1>1. IsFiniteSet(i..m)
  BY FS_Interval
<1>2. i..m \in SUBSET (1..n)
  OBVIOUS
<1>3. Picks(i..m)
  BY <1>2, Extremes DEF Picks, PicksLeast
<1>4. ASSUME i <= m
      PROVE  Begins(i..m, i, (i + 1)..m)
  <2>1. i \in i..m
    BY <1>4
  <2>2. Min(i..m) \in i..m /\ Min(i..m) <= i
    BY <1>2, <2>1, Extremes
  <2>3. pick(i..m) = i
    BY <1>2, <2>1, <2>2 DEF PicksLeast
  <2>4. (i..m) \ {i} = (i + 1)..m
    OBVIOUS
  <2>5. QED
    BY <1>1, <1>3, <2>1, <2>3, <2>4 DEF Begins
<1>5. QED
  BY <1>1, <1>3, <1>4

LEMMA FoldLeftAppend ==
    ASSUME NEW b, NEW A, NEW q \in Seq(A), NEW e \in A,
           \A n \in Nat : PicksGreatest(n)
    PROVE  Fold(b, Append(q, e), 1..Len(q) + 1) = step(e, Fold(b, q, 1..Len(q)))
<1> DEFINE n == Len(q)
           k == n + 1
           long == Append(q, e)
<1>1. n \in Nat /\ k \in Nat /\ k # 0 /\ k - 1 = n
  OBVIOUS
<1>2. long[k] = e /\ \A x \in 1..n : long[x] = q[x]
  OBVIOUS
<1> HIDE DEF n, k, long
<1>3. Fold(b, long, 1..k) = step(long[k], Fold(b, long, 1..n))
  <2>1. Begins(1..k, k, 1..n)
    BY <1>1, GreatestFirst
  <2>2. QED
    BY <2>1, FoldBegins
<1>4. Fold(b, long, 1..n) = Fold(b, q, 1..n)
  <2>1. IsFiniteSet(1..n) /\ Picks(1..n)
    BY <1>1, GreatestFirst
  <2>2. QED
    BY <1>2, <2>1, FoldReads
<1>5. QED
  BY <1>2, <1>3, <1>4 DEF n, k, long

LEMMA FoldRightAppend ==
    ASSUME NEW b, NEW A, NEW q \in Seq(A), NEW e \in A,
           \A n \in Nat : PicksLeast(n)
    PROVE  Fold(b, Append(q, e), 1..Len(q) + 1) = Fold(step(e, b), q, 1..Len(q))
<1> DEFINE n == Len(q)
           k == n + 1
           long == Append(q, e)
           T == {j \in Nat : j <= n =>
                   Fold(b, long, (k - j)..k) = Fold(step(e, b), q, (k - j)..n)}
<1>1. n \in Nat /\ k \in Nat \ {0} /\ n <= k /\ k <= k /\ k = n + 1
  OBVIOUS
<1>2. long[k] = e /\ \A x \in 1..n : long[x] = q[x]
  OBVIOUS
<1> HIDE DEF n, k, long
<1>3. 0 \in T
  <2>1. Begins(k..k, k, (k + 1)..k)
    BY <1>1, LeastFirst
  <2>2. Fold(b, long, k..k) = step(long[k], Fold(b, long, (k + 1)..k))
    BY <2>1, FoldBegins
  <2>3. (k + 1)..k = {} /\ k..n = {} /\ k - 0 = k
    BY <1>1
  <2>4. Fold(b, long, {}) = b /\ Fold(step(e, b), q, {}) = step(e, b)
    BY FoldEmpty
  <2>5. QED
    BY <1>2, <2>2, <2>3, <2>4
<1>4. ASSUME NEW j \in Nat, j \in T
      PROVE  j + 1 \in T
  <2> SUFFICES ASSUME j + 1 <= n
               PROVE  Fold(b, long, (k - (j + 1))..k)
                        = Fold(step(e, b), q, (k - (j + 1))..n)
    OBVIOUS
  <2> DEFINE i == k - (j + 1)
  <2>1. /\ i \in 1..n /\ i \in Nat \ {0} /\ i <= k /\ i <= n
        /\ k - j = i + 1 /\ j <= n
    BY <1>1
  <2>2. Fold(b, long, (i + 1)..k) = Fold(step(e, b), q, (i + 1)..n)
    BY <1>4, <2>1
  <2>3. long[i] = q[i]
    BY <1>2, <2>1
  <2> HIDE DEF i
  <2>4. Fold(b, long, i..k) = step(long[i], Fold(b, long, (i + 1)..k))
    <3>1. Begins(i..k, i, (i + 1)..k)
      BY <1>1, <2>1, LeastFirst
    <3>2. QED
      BY <3>1, FoldBegins
  <2>5. Fold(step(e, b), q, i..n) = step(q[i], Fold(step(e, b), q, (i + 1)..n))
    <3>1. Begins(i..n, i, (i + 1)..n)
      BY <1>1, <2>1, LeastFirst
    <3>2. QED
      BY <3>1, FoldBegins
  <2>6. Fold(b, long, i..k) = Fold(step(e, b), q, i..n)
    BY <2>2, <2>3, <2>4, <2>5
  <2>7. QED
    BY <2>6 DEF i
<1>5. Nat \subseteq T
  <2> HIDE DEF T
  <2> QED
    BY <1>3, <1>4, Induction
<1>6. Fold(b, long, (k - n)..k) = Fold(step(e, b), q, (k - n)..n)
  BY <1>1, <1>5
<1>7. k - n = 1
  BY <1>1
<1>8. QED
  BY <1>6, <1>7 DEF n, k, long
=============================================================================
