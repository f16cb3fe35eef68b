-------------------------- MODULE Translation_proofs --------------------------
(***************************************************************************)
(* Translation for every document, every number of segments, batches and   *)
(* faults, every way OpenAI answers and every setting.  The invariant says *)
(* of each task, call and timer what it can rely on where it stands, and   *)
(* counts: the finished tasks make up the number of done batches, and what *)
(* was published is what the bar has passed.  What the operators make of   *)
(* a sequence is proved of their folds, by the first step that goes wrong. *)
(***************************************************************************)
EXTENDS Translation, FiniteSetTheorems, TLAPS

-----------------------------------------------------------------------------
(* Numbers *)

\* The larger and the smaller of two.
LEMMA MaxOfTwo ==
  ASSUME NEW a \in Int, NEW b \in Int
  PROVE  Max({a, b}) = IF a >= b THEN a ELSE b
BY DEF Max

LEMMA MinOfTwo ==
  ASSUME NEW a \in Int, NEW b \in Int
  PROVE  Min({a, b}) = IF a <= b THEN a ELSE b
BY DEF Min

\* The largest number of an initial segment.
LEMMA MaxUpTo == ASSUME NEW n \in Nat, n # 0 PROVE Max(1 .. n) = n
BY DEF Max

-----------------------------------------------------------------------------
(* Folds *)

\* A set of naturals has a least element.
LEMMA LeastExists ==
  ASSUME NEW U \in SUBSET Nat, U # {}
  PROVE  \E j \in U : \A k \in U : j <= k
<1>0. \A k \in U : k \in Nat
  OBVIOUS
<1>1. PICK i \in U : TRUE
  OBVIOUS
<1> DEFINE Upto(j) == {k \in U : k <= j}
           Sets == {Upto(j) : j \in Upto(i)}
<1>2. IsFiniteSet(Upto(i))
  <2>1. \A k \in Upto(i) : k \in 0 .. i
    BY <1>0, <1>1
  <2>2. IsFiniteSet(0 .. i)
    BY <1>1, FS_Interval
  <2> QED
    BY <2>1, <2>2, FS_Subset
<1>3. Sets \subseteq FiniteSubsetsOf(Upto(i)) /\ Sets # {}
  <2>1. \A j \in Upto(i) : \A k \in Upto(j) : k \in Upto(i)
    BY <1>0, <1>1
  <2>2. i \in Upto(i)
    BY <1>1
  <2>3. Sets # {} /\ \A t \in Sets : t \in SUBSET Upto(i)
    <3> HIDE DEF Upto
    <3> QED
      BY <2>1, <2>2
  <2> HIDE DEF Upto, Sets
  <2> QED
    BY <1>2, <2>3, FS_FiniteSubsetsOfFinite
<1>4. PICK t \in Sets : \A u \in Sets : <<u, t>> \notin StrictSubsetOrdering(Upto(i))
  <2> HIDE DEF Upto, Sets
  <2> QED
    BY <1>2, <1>3, WFMin, FS_StrictSubsetOrderingWellFounded
<1>5. PICK j \in Upto(i) : t = Upto(j)
  <2>1. t \in Sets
    BY <1>4
  <2>2. \E j \in Upto(i) : t = Upto(j)
    <3> HIDE DEF Upto
    <3> QED
      BY <2>1
  <2> QED
    BY <2>2
<1>6. ASSUME NEW k \in U, k < j PROVE FALSE
  <2>0. i \in Nat /\ j \in U /\ j \in Nat /\ k \in Nat /\ j <= i
    BY <1>0, <1>1, <1>5, <1>6
  <2>a. k \in Upto(i)
    BY <2>0, <1>6
  <2>b. j \in Upto(j) /\ j \notin Upto(k)
    BY <2>0, <1>6
  <2>c. Upto(k) \in Sets
    <3> HIDE DEF Upto
    <3> QED
      BY <2>a
  <2>1. k \in Upto(i) /\ Upto(k) \in Sets /\ j \in Upto(j) /\ j \notin Upto(k)
    <3> HIDE DEF Upto, Sets
    <3> QED
      BY <2>a, <2>b, <2>c
  <2>2. /\ \A m \in Upto(k) : m \in Upto(j) /\ m \in Upto(i)
        /\ \A m \in Upto(j) : m \in Upto(i)
    BY <1>0, <1>1, <1>5, <1>6
  <2> HIDE DEF Upto, Sets
  <2> QED
    BY <1>4, <1>5, <2>1, <2>2 DEF StrictSubsetOrdering
<1> QED
  BY <1>5, <1>6

\* Induction over 0 .. n, where good is the set of the numbers that have been reached.
LEMMA CountedUp ==
  ASSUME NEW n \in Nat, NEW good, 0 \in good, \A k \in 1 .. n : k - 1 \in good => k \in good
  PROVE  n \in good
<1> DEFINE bad == {k \in 0 .. n : k \notin good}
<1>1. SUFFICES ASSUME n \notin good PROVE FALSE
  OBVIOUS
<1>2. bad \in SUBSET Nat /\ bad # {}
  BY <1>1
<1>3. PICK k \in bad : \A m \in bad : k <= m
  <2> HIDE DEF bad
  <2> QED
    BY <1>2, LeastExists
<1>4. k \in 1 .. n /\ k - 1 \in 0 .. n
  BY <1>3
<1>5. k - 1 \in good
  BY <1>3, <1>4
<1> QED
  BY <1>3, <1>4, <1>5

\* f folds G over the subsets of S, the largest element last, as FoldLeft does: G[<<v, k>>]
\* is the value v becomes at place k.
Folds(f, base, G, S) ==
  f = [s \in SUBSET S |-> IF s = {} THEN base ELSE G[<<f[s \ {Max(s)}], Max(s)>>]]

LEMMA SmallestBad ==
  ASSUME NEW S, IsFiniteSet(S), NEW B \in SUBSET SUBSET S, B # {}
  PROVE  \E t \in B : \A s \in B : s \subseteq t => s = t
<1>1. B \subseteq FiniteSubsetsOf(S)
  BY FS_FiniteSubsetsOfFinite
<1>2. \E t \in B : \A s \in B : <<s, t>> \notin StrictSubsetOrdering(S)
  BY <1>1, WFMin, FS_StrictSubsetOrderingWellFounded
<1> QED
  BY <1>2 DEF StrictSubsetOrdering

\* The places of a sequence have a last one.
LEMMA MaxIn ==
  ASSUME NEW n \in Nat, NEW s \in SUBSET (1 .. n), s # {}
  PROVE  Max(s) \in s /\ \A k \in s : k <= Max(s)
<1> DEFINE U == {n - k : k \in s}
<1>1. U \in SUBSET Nat /\ U # {}
  <2>1. \A k \in s : n - k \in Nat
    OBVIOUS
  <2>2. PICK k \in s : TRUE
    OBVIOUS
  <2> QED
    BY <2>1, <2>2
<1>2. PICK j \in U : \A k \in U : j <= k
  <2> HIDE DEF U
  <2> QED
    BY <1>1, LeastExists
<1>3. PICK m \in s : j = n - m
  BY <1>2
<1>4. \A k \in s : m >= k
  <2> SUFFICES ASSUME NEW k \in s PROVE m >= k
    OBVIOUS
  <2>1. n - k \in U /\ k \in Nat /\ m \in Nat
    OBVIOUS
  <2>2. n - m <= n - k
    BY <1>2, <1>3, <2>1
  <2> QED
    BY <2>1, <2>2
<1>5. \E x \in s : \A y \in s : x >= y
  BY <1>3, <1>4
<1>6. Max(s) \in s /\ \A y \in s : Max(s) >= y
  <2>1. Max(s) = CHOOSE x \in s : \A y \in s : x >= y
    BY DEF Max
  <2> QED
    BY <1>5, <2>1
<1> QED
  BY <1>6

\* Two functions that go on alike from what they have in common end alike.
GoOnAlike(f, g, n) ==
  /\ f[{}] = g[{}]
  /\ \A s \in SUBSET (1 .. n) : s # {} /\ f[s \ {Max(s)}] = g[s \ {Max(s)}] => f[s] = g[s]

LEMMA FoldsAgree ==
  ASSUME NEW n \in Nat, NEW f, NEW g, GoOnAlike(f, g, n)
  PROVE  f[1 .. n] = g[1 .. n]
<1> DEFINE S == 1 .. n
           B == {s \in SUBSET S : f[s] # g[s]}
<1>1. SUFFICES ASSUME B # {} PROVE FALSE
  <2>1. 1 .. n \in SUBSET S
    OBVIOUS
  <2> QED
    BY <2>1
<1>2. PICK b \in B : \A s \in B : s \subseteq b => s = b
  <2>1. B \in SUBSET SUBSET S
    OBVIOUS
  <2>2. IsFiniteSet(S)
    BY FS_Interval
  <2> HIDE DEF B, S
  <2> QED
    BY <1>1, <2>1, <2>2, SmallestBad
<1>3. b # {} /\ b \in SUBSET (1 .. n) /\ f[b] # g[b]
  BY <1>2 DEF GoOnAlike
<1>4. Max(b) \in b
  BY <1>3, MaxIn
<1>5. b \ {Max(b)} \notin B
  BY <1>2, <1>4
<1>6. f[b \ {Max(b)}] = g[b \ {Max(b)}]
  BY <1>3, <1>5
<1> QED
  BY <1>3, <1>6 DEF GoOnAlike

\* A fold exists.
LEMMA FoldsExist ==
  ASSUME NEW n \in Nat, NEW base, NEW G
  PROVE  \E f : Folds(f, base, G, 1 .. n)
<1> DEFINE S == 1 .. n
           B == {s \in SUBSET S : ~\E f : Folds(f, base, G, s)}
<1>1. SUFFICES ASSUME B # {} PROVE FALSE
  <2>1. S \notin B
    BY <2>1
  <2> QED
    BY <2>1
<1>2. PICK b \in B : \A s \in B : s \subseteq b => s = b
  <2>1. B \in SUBSET SUBSET S
    OBVIOUS
  <2>2. IsFiniteSet(S)
    BY FS_Interval
  <2> HIDE DEF B, S
  <2> QED
    BY <1>1, <2>1, <2>2, SmallestBad
<1>3. b \in SUBSET S /\ ~\E f : Folds(f, base, G, b)
  BY <1>2
<1> DEFINE F(s) == CHOOSE f : Folds(f, base, G, s)
           next(s) == s \ {Max(s)}
           h == [t \in SUBSET b |-> IF t = {} THEN base ELSE G[<<F(next(t))[next(t)], Max(t)>>]]
<1>4. ASSUME NEW s \in SUBSET b, s # b PROVE Folds(F(s), base, G, s)
  <2>1. \E f : Folds(f, base, G, s)
    BY <1>2, <1>3, <1>4
  <2> QED
    BY <2>1, Zenon
<1>5. ASSUME NEW t \in SUBSET b, t # {} PROVE next(t) \in SUBSET b /\ next(t) # b /\ Max(t) \in t
  BY <1>3, <1>5, MaxIn
<1>6. ASSUME NEW r \in SUBSET b, NEW s \in SUBSET r, r # b PROVE F(r)[s] = F(s)[s]
  <2>1. Folds(F(r), base, G, r) /\ Folds(F(s), base, G, s) /\ r \in SUBSET S
    BY <1>3, <1>4, <1>6
  <2> HIDE DEF F, S
  <2>2. \A t \in SUBSET s : t # {} /\ F(r)[next(t)] = F(s)[next(t)] => F(r)[t] = F(s)[t]
    BY <2>1, ZenonT(60) DEF Folds
  <2>3. F(r)[{}] = F(s)[{}]
    BY <2>1 DEF Folds
  <2> DEFINE C == {t \in SUBSET s : F(r)[t] # F(s)[t]}
  <2>4. SUFFICES ASSUME C # {} PROVE FALSE
    OBVIOUS
  <2>5. PICK c \in C : \A t \in C : t \subseteq c => t = c
    <3>1. C \in SUBSET SUBSET s /\ IsFiniteSet(s)
      <4>1. s \in SUBSET S /\ IsFiniteSet(S)
        BY <2>1, FS_Interval DEF S
      <4> QED
        BY <4>1, FS_Subset
    <3> HIDE DEF C
    <3> QED
      BY <2>4, <3>1, SmallestBad
  <2>6. c # {} /\ c \in SUBSET s /\ F(r)[c] # F(s)[c]
    BY <2>3, <2>5
  <2>7. Max(c) \in c
    <3>1. c \in SUBSET (1 .. n)
      BY <2>1, <2>6 DEF S
    <3> QED
      BY <2>6, <3>1, MaxIn
  <2>8. next(c) \notin C
    BY <2>5, <2>7
  <2> QED
    BY <2>2, <2>6, <2>8
<1>7. ASSUME NEW t \in SUBSET b PROVE h[t] = IF t = {} THEN base ELSE G[<<h[next(t)], Max(t)>>]
  <2>1. h[t] = IF t = {} THEN base ELSE G[<<F(next(t))[next(t)], Max(t)>>]
    <3> HIDE DEF F
    <3> QED
      OBVIOUS
  <2>2. ASSUME t # {} PROVE h[next(t)] = F(next(t))[next(t)]
    <3> DEFINE s == next(t)
    <3>1. s \in SUBSET b /\ s # b
      BY <1>5, <2>2
    <3>2. h[s] = IF s = {} THEN base ELSE G[<<F(next(s))[next(s)], Max(s)>>]
      <4> HIDE DEF F, s
      <4> QED
        BY <3>1
    <3>3. F(s)[s] = IF s = {} THEN base ELSE G[<<F(s)[next(s)], Max(s)>>]
      <4>1. Folds(F(s), base, G, s)
        BY <1>4, <3>1
      <4> HIDE DEF F, s
      <4> QED
        BY <4>1 DEF Folds
    <3>4. F(s)[next(s)] = F(next(s))[next(s)]
      <4>1. next(s) \in SUBSET s
        OBVIOUS
      <4> HIDE DEF F, s
      <4> QED
        BY <1>6, <3>1, <4>1
    <3> HIDE DEF F, h
    <3> QED
      BY <3>2, <3>3, <3>4
  <2> HIDE DEF F, h
  <2> QED
    BY <2>1, <2>2
<1>8. Folds(h, base, G, b)
  <2> DEFINE k == [t \in SUBSET b |-> IF t = {} THEN base ELSE G[<<h[next(t)], Max(t)>>]]
  <2>1. h = [t \in SUBSET b |-> h[t]]
    <3> HIDE DEF F
    <3> QED
      OBVIOUS
  <2> HIDE DEF h
  <2>2. \A t \in SUBSET b : h[t] = k[t]
    BY <1>7
  <2>3. k = [t \in SUBSET b |-> k[t]]
    OBVIOUS
  <2>4. h = k
    <3> HIDE DEF k
    <3> QED
      BY <2>1, <2>2, <2>3, Zenon
  <2> QED
    BY <2>4 DEF Folds
<1> QED
  BY <1>3, <1>8

\* What a fold goes through: R[k] after k places.
LEMMA FoldsReach ==
  ASSUME NEW n \in Nat, NEW base, NEW G, NEW f, Folds(f, base, G, 1 .. n), NEW R, base \in R[0],
         \A k \in 1 .. n : \A v \in R[k - 1] : G[<<v, k>>] \in R[k]
  PROVE  f[1 .. n] \in R[n]
<1> DEFINE good == {k \in 0 .. n : f[1 .. k] \in R[k]}
<1>1. 0 \in good
  <2>1. 1 .. 0 = {} /\ {} \in SUBSET (1 .. n)
    OBVIOUS
  <2>2. f[{}] = base
    BY <2>1 DEF Folds
  <2> QED
    BY <2>1, <2>2
<1>2. ASSUME NEW k \in 1 .. n, k - 1 \in good PROVE k \in good
  <2>1. 1 .. k \in SUBSET (1 .. n) /\ 1 .. k # {} /\ (1 .. k) \ {k} = 1 .. k - 1
    <3>1. k \in 1 .. k /\ \A j \in 1 .. k : j \in 1 .. n
      OBVIOUS
    <3>2. \A j : j \in (1 .. k) \ {k} <=> j \in 1 .. k - 1
      OBVIOUS
    <3>3. (1 .. k) \ {k} = 1 .. k - 1
      BY <3>2
    <3> QED
      BY <3>1, <3>3
  <2>2. Max(1 .. k) = k
    BY MaxUpTo
  <2>3. f[1 .. k] = G[<<f[1 .. k - 1], k>>]
    <3>1. f[1 .. k] = G[<<f[(1 .. k) \ {Max(1 .. k)}], Max(1 .. k)>>]
      <4> DEFINE s == 1 .. k
      <4>1. s \in SUBSET (1 .. n) /\ s # {}
        BY <2>1
      <4> HIDE DEF s
      <4>2. f[s] = G[<<f[s \ {Max(s)}], Max(s)>>]
        BY <4>1 DEF Folds
      <4> QED
        BY <4>2 DEF s
    <3> QED
      BY <2>1, <2>2, <3>1
  <2>4. f[1 .. k - 1] \in R[k - 1]
    BY <1>2
  <2> QED
    BY <2>3, <2>4
<1> HIDE DEF good
<1>3. n \in good
  BY <1>1, <1>2, CountedUp
<1> QED
  BY <1>3 DEF good

\* ... and the values it has on the way, if G stays within V.
LEMMA FoldsStay ==
  ASSUME NEW n \in Nat, NEW base, NEW G, NEW f, Folds(f, base, G, 1 .. n), NEW V, base \in V,
         \A k \in 1 .. n : \A v \in V : G[<<v, k>>] \in V
  PROVE  \A s \in SUBSET (1 .. n) : f[s] \in V
<1> DEFINE S == 1 .. n
           B == {s \in SUBSET S : f[s] \notin V}
<1>1. SUFFICES ASSUME B # {} PROVE FALSE
  OBVIOUS
<1>2. PICK b \in B : \A s \in B : s \subseteq b => s = b
  <2>1. B \in SUBSET SUBSET S
    OBVIOUS
  <2>2. IsFiniteSet(S)
    BY FS_Interval
  <2> HIDE DEF B, S
  <2> QED
    BY <1>1, <2>1, <2>2, SmallestBad
<1>3. b \in SUBSET (1 .. n) /\ f[b] \notin V
  BY <1>2
<1>4. f[b] = IF b = {} THEN base ELSE G[<<f[b \ {Max(b)}], Max(b)>>]
  BY <1>3 DEF Folds
<1>5. b # {}
  BY <1>3, <1>4
<1>6. Max(b) \in b
  BY <1>3, <1>5, MaxIn
<1>7. b \ {Max(b)} \notin B
  BY <1>2, <1>6
<1>8. f[b \ {Max(b)}] \in V
  BY <1>3, <1>7
<1> QED
  BY <1>3, <1>4, <1>5, <1>6, <1>8

\* Missing as a fold.
MissingFoldsStep(S, items, found) ==
  [p \in (Seq(S)) \X (1 .. Len(items)) |-> IF items[p[2]] \notin found THEN Append(p[1], items[p[2]]) ELSE p[1]]

LEMMA MissingFolds ==
  ASSUME NEW S, NEW items \in Seq(S), NEW found
  PROVE  \E f : Folds(f, <<>>, MissingFoldsStep(S, items, found), 1 .. Len(items)) /\ Missing(items, found) = f[1 .. Len(items)]
<1> DEFINE n == Len(items)
           W == Seq(S)
           op(v, x) == IF x \notin found THEN Append(v, x) ELSE v
           G == [p \in W \X (1 .. n) |-> op(p[1], items[p[2]])]
           P(iter) == iter = [s \in SUBSET (1 .. n) |-> IF s = {} THEN <<>> ELSE op(iter[s \ {Max(s)}], items[Max(s)])]
           c == CHOOSE iter : P(iter)
<1>1. n \in Nat /\ DOMAIN items = 1 .. n
  OBVIOUS
<1>2. Missing(items, found) = c[1 .. n]
  BY <1>1 DEF Missing, Chosen, FoldLeft, MapThenFoldSet
<1>3. <<>> \in W /\ \A k \in 1 .. n : \A v \in W : op(v, items[k]) \in W
  BY <1>1
<1>4. \A k \in 1 .. n : \A v \in W : G[<<v, k>>] = op(v, items[k])
  <2> HIDE DEF op, n, W
  <2> QED
    OBVIOUS
<1>5. PICK f : Folds(f, <<>>, G, 1 .. n)
  <2> HIDE DEF G, n
  <2> QED
    BY <1>1, FoldsExist
<1>6. \A s \in SUBSET (1 .. n) : f[s] \in W
  <2> HIDE DEF G, n, W, op
  <2>1. <<>> \in W /\ \A k \in 1 .. n : \A v \in W : G[<<v, k>>] \in W
    BY <1>3, <1>4
  <2> QED
    BY <1>1, <1>5, <2>1, FoldsStay
<1>7. \A s \in SUBSET (1 .. n) : s # {} => Max(s) \in s
  <2> HIDE DEF n
  <2> QED
    BY <1>1, MaxIn
<1>8. \A s \in SUBSET (1 .. n) : f[s] = IF s = {} THEN <<>> ELSE op(f[s \ {Max(s)}], items[Max(s)])
  <2> HIDE DEF G, n, W, op
  <2> QED
    BY <1>4, <1>5, <1>6, <1>7 DEF Folds
<1>9. P(f)
  <2> DEFINE h == [s \in SUBSET (1 .. n) |-> IF s = {} THEN <<>> ELSE op(f[s \ {Max(s)}], items[Max(s)])]
  <2>1. f = [s \in SUBSET (1 .. n) |-> f[s]] /\ h = [s \in SUBSET (1 .. n) |-> h[s]]
    <3> HIDE DEF G, n, op
    <3> QED
      BY <1>5 DEF Folds
  <2>2. \A s \in SUBSET (1 .. n) : f[s] = h[s]
    <3> HIDE DEF op, n
    <3> QED
      BY <1>8
  <2>3. f = h
    <3> HIDE DEF h, n
    <3> QED
      BY <2>1, <2>2, Zenon
  <2> QED
    BY <2>3
<1>10. P(c)
  <2> HIDE DEF P
  <2> QED
    BY <1>9, Zenon
<1>11. \A s \in SUBSET (1 .. n) : c[s] = IF s = {} THEN <<>> ELSE op(c[s \ {Max(s)}], items[Max(s)])
  <2> HIDE DEF op, n, c
  <2> QED
    BY <1>10
<1>12. c[1 .. n] = f[1 .. n]
  <2> HIDE DEF op, n, c, P, G
  <2>1. {} \in SUBSET (1 .. n)
    OBVIOUS
  <2>2. c[{}] = f[{}]
    BY <1>8, <1>11, <2>1
  <2>3. \A s \in SUBSET (1 .. n) : s # {} /\ c[s \ {Max(s)}] = f[s \ {Max(s)}] => c[s] = f[s]
    BY <1>8, <1>11
  <2>4. GoOnAlike(c, f, n)
    BY <2>2, <2>3 DEF GoOnAlike
  <2> QED
    BY <1>1, <2>4, FoldsAgree
<1> HIDE DEF c, P
<1> QED
  BY <1>2, <1>5, <1>12 DEF MissingFoldsStep

\* Missing keeps the items that pass and no others.
LEMMA MissingRange ==
  ASSUME NEW S, NEW items \in Seq(S), NEW found
  PROVE  /\ Missing(items, found) \in Seq(S)
         /\ Range(Missing(items, found)) = Range(items) \ found
<1> DEFINE n == Len(items)
           V == Seq(S)
           G == MissingFoldsStep(S, items, found)
           passed(k) == {items[j] : j \in 1 .. k} \ found
           R == [k \in 0 .. n |-> {r \in V : Range(r) = passed(k)}]
           out == Missing(items, found)
<1>1. PICK f : Folds(f, <<>>, G, 1 .. n) /\ out = f[1 .. n]
  BY MissingFolds
<1>2. n \in Nat
  OBVIOUS
<1>3. <<>> \in R[0]
  <2>1. Range(<<>>) = {} /\ passed(0) = {} /\ <<>> \in V
    BY DEF Range
  <2>2. 0 \in 0 .. n
    BY <1>2
  <2> HIDE DEF passed, V, n
  <2> QED
    BY <2>1, <2>2
<1>4. ASSUME NEW k \in 1 .. n, NEW v \in R[k - 1] PROVE G[<<v, k>>] \in R[k]
  <2>1. v \in V /\ Range(v) = passed(k - 1) /\ k \in 0 .. n
    <3> HIDE DEF passed, V
    <3> QED
      BY <1>2
  <2>2. G[<<v, k>>] = IF items[k] \notin found THEN Append(v, items[k]) ELSE v
    BY <2>1 DEF MissingFoldsStep
  <2>3. items[k] \in S
    OBVIOUS
  <2>4. passed(k) = passed(k - 1) \cup ({items[k]} \ found)
    <3>1. 1 .. k = (1 .. k - 1) \cup {k}
      OBVIOUS
    <3> QED
      BY <3>1
  <2>5. CASE items[k] \in found
    <3>1. G[<<v, k>>] = v
      BY <2>2, <2>5
    <3>2. passed(k) = passed(k - 1)
      <4> HIDE DEF passed, n
      <4> QED
        BY <2>4, <2>5
    <3> HIDE DEF G, passed, V, n
    <3> QED
      BY <2>1, <3>1, <3>2
  <2>6. CASE items[k] \notin found
    <3>1. Append(v, items[k]) \in V
      BY <2>1, <2>3
    <3>2. Range(Append(v, items[k])) = Range(v) \cup {items[k]}
      BY <2>1, <2>3, SMTT(60) DEF Range
    <3> HIDE DEF G, passed, V, n
    <3> QED
      BY <2>1, <2>2, <2>4, <2>6, <3>1, <3>2
  <2> QED
    BY <2>5, <2>6
<1>5. out \in R[n]
  <2> HIDE DEF G, R, n, out
  <2> QED
    BY <1>1, <1>2, <1>3, <1>4, FoldsReach
<1>6. out \in V /\ Range(out) = passed(n)
  <2> HIDE DEF passed, V, n, out
  <2> QED
    BY <1>2, <1>5
<1>7. passed(n) = Range(items) \ found
  BY DEF Range
<1> HIDE DEF passed, out
<1> QED
  BY <1>6, <1>7 DEF out

\* PackSegmentIndices as a fold.
PackFoldsStep(size, budget, cap, items) ==
  [p \in (Seq(Seq(Nat))) \X (1 .. Len(items)) |-> IF p[1] # <<>> /\ Weight(size, Last(p[1])) + size[items[p[2]]] <= budget /\ (cap = 0 \/ Len(Last(p[1])) < cap) THEN [p[1] EXCEPT ![Len(p[1])] = Append(@, items[p[2]])] ELSE Append(p[1], <<items[p[2]]>>)]

LEMMA PackFolds ==
  ASSUME NEW size \in Seq(Nat), NEW budget, NEW cap, NEW items \in Seq(Nat), items = Indices(size)
  PROVE  \E f : Folds(f, <<>>, PackFoldsStep(size, budget, cap, items), 1 .. Len(items)) /\ PackSegmentIndices(size, budget, cap) = f[1 .. Len(items)]
<1> DEFINE n == Len(items)
           W == Seq(Seq(Nat))
           op(v, x) == IF v # <<>> /\ Weight(size, Last(v)) + size[x] <= budget /\ (cap = 0 \/ Len(Last(v)) < cap) THEN [v EXCEPT ![Len(v)] = Append(@, x)] ELSE Append(v, <<x>>)
           G == [p \in W \X (1 .. n) |-> op(p[1], items[p[2]])]
           P(iter) == iter = [s \in SUBSET (1 .. n) |-> IF s = {} THEN <<>> ELSE op(iter[s \ {Max(s)}], items[Max(s)])]
           c == CHOOSE iter : P(iter)
<1>1. n \in Nat /\ DOMAIN items = 1 .. n
  OBVIOUS
<1>2. PackSegmentIndices(size, budget, cap) = c[1 .. n]
  <2> DEFINE at(seq) == (CHOOSE iter : iter = [s \in SUBSET (DOMAIN seq) |->
                           IF s = {} THEN <<>> ELSE op(iter[s \ {Max(s)}], seq[Max(s)])])[DOMAIN seq]
  <2>1. PackSegmentIndices(size, budget, cap) = CHOOSE r \in {at(v) : v \in {Indices(size)}} : TRUE
    BY DEF PackSegmentIndices, GroupWhile, Once, FoldLeft, MapThenFoldSet
  <2>2. at(items) = c[1 .. n]
    BY <1>1
  <2> HIDE DEF at, c
  <2> QED
    BY <2>1, <2>2
<1>3. <<>> \in W /\ \A k \in 1 .. n : \A v \in W : op(v, items[k]) \in W
  BY <1>1
<1>4. \A k \in 1 .. n : \A v \in W : G[<<v, k>>] = op(v, items[k])
  <2> HIDE DEF op, n, W
  <2> QED
    OBVIOUS
<1>5. PICK f : Folds(f, <<>>, G, 1 .. n)
  <2> HIDE DEF G, n
  <2> QED
    BY <1>1, FoldsExist
<1>6. \A s \in SUBSET (1 .. n) : f[s] \in W
  <2> HIDE DEF G, n, W, op
  <2>1. <<>> \in W /\ \A k \in 1 .. n : \A v \in W : G[<<v, k>>] \in W
    BY <1>3, <1>4
  <2> QED
    BY <1>1, <1>5, <2>1, FoldsStay
<1>7. \A s \in SUBSET (1 .. n) : s # {} => Max(s) \in s
  <2> HIDE DEF n
  <2> QED
    BY <1>1, MaxIn
<1>8. \A s \in SUBSET (1 .. n) : f[s] = IF s = {} THEN <<>> ELSE op(f[s \ {Max(s)}], items[Max(s)])
  <2> HIDE DEF G, n, W, op
  <2> QED
    BY <1>4, <1>5, <1>6, <1>7 DEF Folds
<1>9. P(f)
  <2> DEFINE h == [s \in SUBSET (1 .. n) |-> IF s = {} THEN <<>> ELSE op(f[s \ {Max(s)}], items[Max(s)])]
  <2>1. f = [s \in SUBSET (1 .. n) |-> f[s]] /\ h = [s \in SUBSET (1 .. n) |-> h[s]]
    <3> HIDE DEF G, n, op
    <3> QED
      BY <1>5 DEF Folds
  <2>2. \A s \in SUBSET (1 .. n) : f[s] = h[s]
    <3> HIDE DEF op, n
    <3> QED
      BY <1>8
  <2>3. f = h
    <3> HIDE DEF h, n
    <3> QED
      BY <2>1, <2>2, Zenon
  <2> QED
    BY <2>3
<1>10. P(c)
  <2> HIDE DEF P
  <2> QED
    BY <1>9, Zenon
<1>11. \A s \in SUBSET (1 .. n) : c[s] = IF s = {} THEN <<>> ELSE op(c[s \ {Max(s)}], items[Max(s)])
  <2> HIDE DEF op, n, c
  <2> QED
    BY <1>10
<1>12. c[1 .. n] = f[1 .. n]
  <2> HIDE DEF op, n, c, P, G
  <2>1. {} \in SUBSET (1 .. n)
    OBVIOUS
  <2>2. c[{}] = f[{}]
    BY <1>8, <1>11, <2>1
  <2>3. \A s \in SUBSET (1 .. n) : s # {} /\ c[s \ {Max(s)}] = f[s \ {Max(s)}] => c[s] = f[s]
    BY <1>8, <1>11
  <2>4. GoOnAlike(c, f, n)
    BY <2>2, <2>3 DEF GoOnAlike
  <2> QED
    BY <1>1, <2>4, FoldsAgree
<1> HIDE DEF c, P
<1> QED
  BY <1>2, <1>5, <1>12 DEF PackFoldsStep

\* The groups gs hold the places 1 .. k, each once, and none is empty.
Holds(gs, k) ==
  /\ gs \in Seq(Seq(Nat))
  /\ \A g \in DOMAIN gs : gs[g] # <<>> /\ Range(gs[g]) \subseteq 1 .. k
  /\ \A i \in 1 .. k : \E g \in DOMAIN gs : i \in Range(gs[g])
  /\ \A g, h \in DOMAIN gs : g # h => Range(gs[g]) \cap Range(gs[h]) = {}

\* The groups ws are gs with x in the last one, or in a new one.
Grows(gs, x, ws) ==
  \/ ws = Append(gs, <<x>>)
  \/ gs # <<>> /\ ws = [gs EXCEPT ![Len(gs)] = Append(@, x)]

LEMMA AppendRange ==
  ASSUME NEW S, NEW s \in Seq(S), NEW x \in S
  PROVE  Append(s, x) \in Seq(S) /\ Append(s, x) # <<>> /\ Range(Append(s, x)) = Range(s) \cup {x}
<1>1. /\ Append(s, x) \in Seq(S) /\ Append(s, x) # <<>> /\ DOMAIN Append(s, x) = DOMAIN s \cup {Len(s) + 1}
      /\ Append(s, x)[Len(s) + 1] = x /\ \A i \in DOMAIN s : Append(s, x)[i] = s[i]
  OBVIOUS
<1>2. Len(s) + 1 \notin DOMAIN s
  OBVIOUS
<1>3. PICK t : t = Append(s, x)
  OBVIOUS
<1>4. Range(t) = Range(s) \cup {x}
  BY <1>1, <1>2, <1>3 DEF Range
<1> QED
  BY <1>1, <1>3, <1>4

LEMMA HoldsOneMore ==
  ASSUME NEW k \in Nat, NEW gs, Holds(gs, k), NEW ws, Grows(gs, k + 1, ws)
  PROVE  Holds(ws, k + 1)
<1>1. gs \in Seq(Seq(Nat)) /\ k + 1 \in Nat /\ k + 1 \notin 1 .. k /\ 1 .. k + 1 = (1 .. k) \cup {k + 1}
  BY DEF Holds
<1>2. CASE ws = Append(gs, <<k + 1>>)
  <2>1. /\ ws \in Seq(Seq(Nat)) /\ DOMAIN ws = DOMAIN gs \cup {Len(gs) + 1} /\ Len(gs) + 1 \notin DOMAIN gs
        /\ ws[Len(gs) + 1] = <<k + 1>> /\ \A g \in DOMAIN gs : ws[g] = gs[g]
    BY <1>1, <1>2
  <2>2. Range(<<k + 1>>) = {k + 1} /\ <<k + 1>> # <<>>
    BY DEF Range
  <2> DEFINE m == Len(gs) + 1
  <2> HIDE DEF m
  <2>3. DOMAIN ws = DOMAIN gs \cup {m} /\ m \notin DOMAIN gs
    BY <2>1 DEF m
  <2>4. \A g \in DOMAIN ws : ws[g] # <<>> /\ Range(ws[g]) = IF g = m THEN {k + 1} ELSE Range(gs[g])
    BY <2>1, <2>2 DEF Holds, m
  <2>5. \A g \in DOMAIN ws : Range(ws[g]) \subseteq 1 .. k + 1
    BY <1>1, <2>3, <2>4 DEF Holds
  <2>6. \A i \in 1 .. k + 1 : \E g \in DOMAIN ws : i \in Range(ws[g])
    BY <1>1, <2>3, <2>4 DEF Holds
  <2>7. \A g, h \in DOMAIN ws : g # h => Range(ws[g]) \cap Range(ws[h]) = {}
    <3> SUFFICES ASSUME NEW g \in DOMAIN ws, NEW h \in DOMAIN ws, g # h PROVE Range(ws[g]) \cap Range(ws[h]) = {}
      OBVIOUS
    <3>1. /\ g \in DOMAIN gs => k + 1 \notin Range(gs[g])
          /\ h \in DOMAIN gs => k + 1 \notin Range(gs[h])
          /\ g \in DOMAIN gs /\ h \in DOMAIN gs => Range(gs[g]) \cap Range(gs[h]) = {}
      BY <1>1 DEF Holds
    <3> QED
      BY <2>3, <2>4, <3>1
  <2> QED
    BY <2>1, <2>4, <2>5, <2>6, <2>7 DEF Holds
<1>3. CASE gs # <<>> /\ ws = [gs EXCEPT ![Len(gs)] = Append(@, k + 1)]
  <2> DEFINE m == Len(gs)
             last == gs[m]
  <2>1. m \in DOMAIN gs /\ last \in Seq(Nat)
    BY <1>1, <1>3
  <2>2. DOMAIN ws = DOMAIN gs /\ ws[m] = Append(last, k + 1) /\ \A g \in DOMAIN gs : g # m => ws[g] = gs[g]
    BY <1>1, <1>3, <2>1
  <2>3. Append(last, k + 1) \in Seq(Nat) /\ Append(last, k + 1) # <<>> /\ Range(Append(last, k + 1)) = Range(last) \cup {k + 1}
    BY <1>1, <2>1, AppendRange
  <2>4. ws \in Seq(Seq(Nat))
    BY <1>1, <1>3, <2>1, <2>3
  <2> HIDE DEF m, last
  <2>5. last = gs[m]
    BY DEF last, m
  <2>6. \A g \in DOMAIN ws : ws[g] # <<>> /\ Range(ws[g]) = IF g = m THEN Range(gs[g]) \cup {k + 1} ELSE Range(gs[g])
    BY <2>2, <2>3, <2>5 DEF Holds
  <2>7. \A i \in 1 .. k + 1 : \E g \in DOMAIN ws : i \in Range(ws[g])
    BY <1>1, <2>1, <2>2, <2>6 DEF Holds
  <2>8. \A g, h \in DOMAIN ws : g # h => Range(ws[g]) \cap Range(ws[h]) = {}
    <3> SUFFICES ASSUME NEW g \in DOMAIN ws, NEW h \in DOMAIN ws, g # h PROVE Range(ws[g]) \cap Range(ws[h]) = {}
      OBVIOUS
    <3>1. Range(gs[g]) \cap Range(gs[h]) = {} /\ k + 1 \notin Range(gs[g]) /\ k + 1 \notin Range(gs[h])
      BY <1>1, <2>2 DEF Holds
    <3> QED
      BY <2>6, <3>1
  <2>9. \A g \in DOMAIN ws : Range(ws[g]) \subseteq 1 .. k + 1
    BY <1>1, <2>2, <2>6 DEF Holds
  <2> QED
    BY <2>4, <2>6, <2>7, <2>8, <2>9 DEF Holds
<1> QED
  BY <1>2, <1>3 DEF Grows

\* pack_segment_indices puts every segment into one batch and leaves no batch empty,
\* whatever the sizes are.
LEMMA PackingHolds ==
  ASSUME NEW size \in Seq(Nat), NEW budget, NEW cap
  PROVE  Holds(PackSegmentIndices(size, budget, cap), Len(size))
<1>0. PICK items : items = Indices(size)
  OBVIOUS
<1> DEFINE n == Len(items)
           V == Seq(Seq(Nat))
           G == PackFoldsStep(size, budget, cap, items)
           R == [k \in 0 .. n |-> {gs \in V : Holds(gs, k)}]
           out == PackSegmentIndices(size, budget, cap)
<1>1. items \in Seq(Nat) /\ n = Len(size) /\ n \in Nat /\ \A k \in 1 .. n : items[k] = k
  BY <1>0 DEF Indices
<1>2. PICK f : Folds(f, <<>>, G, 1 .. n) /\ out = f[1 .. n]
  BY <1>0, <1>1, PackFolds
<1>3. <<>> \in R[0]
  <2>1. Holds(<<>>, 0) /\ <<>> \in V /\ 0 \in 0 .. n
    BY <1>1 DEF Holds
  <2> HIDE DEF V, n
  <2> QED
    BY <2>1
<1>4. ASSUME NEW k \in 1 .. n, NEW v \in R[k - 1] PROVE G[<<v, k>>] \in R[k]
  <2>1. v \in V /\ Holds(v, k - 1) /\ k \in 0 .. n /\ k - 1 \in 0 .. n /\ k - 1 \in Nat /\ items[k] = k
    <3>1. k \in 0 .. n /\ k - 1 \in 0 .. n /\ k - 1 \in Nat /\ items[k] = k
      BY <1>1
    <3> HIDE DEF V, n
    <3> QED
      BY <3>1
  <2>2. Grows(v, k, G[<<v, k>>])
    <3>1. G[<<v, k>>] = IF v # <<>> /\ Weight(size, Last(v)) + size[items[k]] <= budget /\ (cap = 0 \/ Len(Last(v)) < cap)
                        THEN [v EXCEPT ![Len(v)] = Append(@, items[k])] ELSE Append(v, <<items[k]>>)
      <4> HIDE DEF n
      <4>1. <<v, k>> \in Seq(Seq(Nat)) \X (1 .. Len(items))
        BY <2>1 DEF n
      <4> QED
        BY <4>1 DEF PackFoldsStep
    <3> HIDE DEF V, n, G
    <3> QED
      BY <2>1, <3>1 DEF Grows
  <2>3. Holds(G[<<v, k>>], k)
    <3> DEFINE w == G[<<v, k>>]
    <3>1. k - 1 + 1 = k
      OBVIOUS
    <3> HIDE DEF w
    <3>2. Grows(v, k - 1 + 1, w)
      BY <2>2, <3>1 DEF w
    <3>3. Holds(w, k - 1 + 1)
      BY <2>1, <3>2, HoldsOneMore
    <3> QED
      BY <3>1, <3>3 DEF w
  <2>4. G[<<v, k>>] \in V
    BY <2>3 DEF Holds
  <2> HIDE DEF G, V, n
  <2> QED
    BY <2>1, <2>3, <2>4
<1>5. out \in R[n]
  <2> HIDE DEF G, R, n, out
  <2> QED
    BY <1>1, <1>2, <1>3, <1>4, FoldsReach
<1> HIDE DEF V, n, out
<1>6. Holds(out, n)
  BY <1>1, <1>5
<1> QED
  BY <1>1, <1>6 DEF out

-----------------------------------------------------------------------------
(* Texts and replies *)

\* What stands for no text is no text.
LEMMA NoTextIsNone == NoText \notin TextType /\ NoText # <<>>
<1>1. [none |-> TRUE] \notin WordType
  <2>1. SUFFICES ASSUME [none |-> TRUE] \in WordType PROVE FALSE
    OBVIOUS
  <2>2. "id" \in DOMAIN [none |-> TRUE]
    BY <2>1 DEF WordType
  <2> QED
    BY <2>2
<1>2. NoText[1] = [none |-> TRUE] /\ NoText # <<>> /\ 1 \in DOMAIN NoText
  BY DEF NoText
<1>3. \A t \in TextType : 1 \in DOMAIN t => t[1] \in WordType
  BY DEF TextType
<1> QED
  BY <1>1, <1>2, <1>3

LEMMA TextsAreWords ==
  ASSUME NEW t \in TextType, NEW language \in STRING
  PROVE  [k \in DOMAIN t |-> [t[k] EXCEPT !.lang = language]] \in TextType
<1>1. \A k \in DOMAIN t : [t[k] EXCEPT !.lang = language] \in WordType
  <2>1. \A k \in DOMAIN t : t[k] \in WordType
    BY DEF TextType
  <2>2. \A w \in WordType : [w EXCEPT !.lang = language] \in WordType
    BY DEF WordType
  <2> QED
    BY <2>1, <2>2
<1>2. DOMAIN t = 1 .. Len(t) /\ Len(t) \in Nat
  BY DEF TextType
<1> QED
  BY <1>1, <1>2 DEF TextType

\* A reply that is parsed gives each place its own text, or an empty one.
Gives(texts, n, parsed) ==
  parsed # NotParsed => \A k \in 1 .. n : parsed[k] \in {texts[k], <<>>}

Numbered(first, n, entries, texts) ==
  DOMAIN entries = first .. first + n - 1 /\ \A k \in 1 .. n : entries[first + k - 1] \in {texts[k], <<>>}

LEMMA MapGives ==
  ASSUME NEW n \in Nat \ {0}, NEW texts, NEW entries, NEW first \in {0, 1}, Numbered(first, n, entries, texts)
  PROVE  Gives(texts, n, InOrder(entries, n)) /\ Gives(texts, n, FromMap(entries, n))
<1>1. Gives(texts, n, InOrder(entries, n))
  <2>1. CASE first = 0
    <3>1. 0 .. n - 1 \subseteq DOMAIN entries
      BY <2>1 DEF Numbered
    <3>2. InOrder(entries, n) = [i \in 1 .. n |-> entries[i - 1]]
      BY <3>1 DEF InOrder
    <3>3. \A k \in 1 .. n : entries[k - 1] \in {texts[k], <<>>}
      BY <2>1 DEF Numbered
    <3> QED
      BY <3>2, <3>3 DEF Gives
  <2>2. CASE first = 1
    <3>1. 1 .. n \subseteq DOMAIN entries /\ 0 \notin DOMAIN entries /\ 0 \in 0 .. n - 1
      BY <2>2 DEF Numbered
    <3>2. InOrder(entries, n) = [i \in 1 .. n |-> entries[i]]
      BY <3>1 DEF InOrder
    <3>3. \A k \in 1 .. n : entries[k] \in {texts[k], <<>>}
      BY <2>2 DEF Numbered
    <3> QED
      BY <3>2, <3>3 DEF Gives
  <2> QED
    BY <2>1, <2>2
<1>2. Gives(texts, n, NotParsed)
  BY DEF Gives
<1> QED
  BY <1>1, <1>2 DEF FromMap

\* A reply with one entry too few is not parsed.
LEMMA ShortGivesNone ==
  ASSUME NEW n \in Nat \ {0}, NEW entries, DOMAIN entries = 0 .. n - 2
  PROVE  FromMap(entries, n) = NotParsed
<1>1. n - 1 \in 0 .. n - 1 /\ n - 1 \notin DOMAIN entries /\ n \in 1 .. n /\ n \notin DOMAIN entries
  OBVIOUS
<1>2. ~(0 .. n - 1 \subseteq DOMAIN entries) /\ ~(1 .. n \subseteq DOMAIN entries)
  BY <1>1
<1> QED
  BY <1>2 DEF FromMap, InOrder

\* WithText as a fold.
WithTextFoldsStep(S, rows) ==
  [p \in (Seq(S)) \X (1 .. Len(rows)) |-> IF rows[p[2]].text # NoText THEN Append(p[1], rows[p[2]]) ELSE p[1]]

LEMMA WithTextFolds ==
  ASSUME NEW S, NEW rows \in Seq(S)
  PROVE  \E f : Folds(f, <<>>, WithTextFoldsStep(S, rows), 1 .. Len(rows)) /\ WithText(rows) = f[1 .. Len(rows)]
<1> DEFINE n == Len(rows)
           W == Seq(S)
           op(v, x) == IF x.text # NoText THEN Append(v, x) ELSE v
           G == [p \in W \X (1 .. n) |-> op(p[1], rows[p[2]])]
           P(iter) == iter = [s \in SUBSET (1 .. n) |-> IF s = {} THEN <<>> ELSE op(iter[s \ {Max(s)}], rows[Max(s)])]
           c == CHOOSE iter : P(iter)
<1>1. n \in Nat /\ DOMAIN rows = 1 .. n
  OBVIOUS
<1>2. WithText(rows) = c[1 .. n]
  BY <1>1 DEF WithText, Chosen, FoldLeft, MapThenFoldSet
<1>3. <<>> \in W /\ \A k \in 1 .. n : \A v \in W : op(v, rows[k]) \in W
  BY <1>1
<1>4. \A k \in 1 .. n : \A v \in W : G[<<v, k>>] = op(v, rows[k])
  <2> HIDE DEF op, n, W
  <2> QED
    OBVIOUS
<1>5. PICK f : Folds(f, <<>>, G, 1 .. n)
  <2> HIDE DEF G, n
  <2> QED
    BY <1>1, FoldsExist
<1>6. \A s \in SUBSET (1 .. n) : f[s] \in W
  <2> HIDE DEF G, n, W, op
  <2>1. <<>> \in W /\ \A k \in 1 .. n : \A v \in W : G[<<v, k>>] \in W
    BY <1>3, <1>4
  <2> QED
    BY <1>1, <1>5, <2>1, FoldsStay
<1>7. \A s \in SUBSET (1 .. n) : s # {} => Max(s) \in s
  <2> HIDE DEF n
  <2> QED
    BY <1>1, MaxIn
<1>8. \A s \in SUBSET (1 .. n) : f[s] = IF s = {} THEN <<>> ELSE op(f[s \ {Max(s)}], rows[Max(s)])
  <2> HIDE DEF G, n, W, op
  <2> QED
    BY <1>4, <1>5, <1>6, <1>7 DEF Folds
<1>9. P(f)
  <2> DEFINE h == [s \in SUBSET (1 .. n) |-> IF s = {} THEN <<>> ELSE op(f[s \ {Max(s)}], rows[Max(s)])]
  <2>1. f = [s \in SUBSET (1 .. n) |-> f[s]] /\ h = [s \in SUBSET (1 .. n) |-> h[s]]
    <3> HIDE DEF G, n, op
    <3> QED
      BY <1>5 DEF Folds
  <2>2. \A s \in SUBSET (1 .. n) : f[s] = h[s]
    <3> HIDE DEF op, n
    <3> QED
      BY <1>8
  <2>3. f = h
    <3> HIDE DEF h, n
    <3> QED
      BY <2>1, <2>2, Zenon
  <2> QED
    BY <2>3
<1>10. P(c)
  <2> HIDE DEF P
  <2> QED
    BY <1>9, Zenon
<1>11. \A s \in SUBSET (1 .. n) : c[s] = IF s = {} THEN <<>> ELSE op(c[s \ {Max(s)}], rows[Max(s)])
  <2> HIDE DEF op, n, c
  <2> QED
    BY <1>10
<1>12. c[1 .. n] = f[1 .. n]
  <2> HIDE DEF op, n, c, P, G
  <2>1. {} \in SUBSET (1 .. n)
    OBVIOUS
  <2>2. c[{}] = f[{}]
    BY <1>8, <1>11, <2>1
  <2>3. \A s \in SUBSET (1 .. n) : s # {} /\ c[s \ {Max(s)}] = f[s \ {Max(s)}] => c[s] = f[s]
    BY <1>8, <1>11
  <2>4. GoOnAlike(c, f, n)
    BY <2>2, <2>3 DEF GoOnAlike
  <2> QED
    BY <1>1, <2>4, FoldsAgree
<1> HIDE DEF c, P
<1> QED
  BY <1>2, <1>5, <1>12 DEF WithTextFoldsStep

\* The rows with a text, where they are the first m.
LEMMA WithTextIs ==
  ASSUME NEW S, NEW rows \in Seq(S), NEW m \in 0 .. Len(rows),
         \A k \in 1 .. Len(rows) : rows[k].text # NoText <=> k <= m
  PROVE  WithText(rows) = SubSeq(rows, 1, m)
<1> DEFINE n == Len(rows)
           G == WithTextFoldsStep(S, rows)
           upto(k) == SubSeq(rows, 1, IF k <= m THEN k ELSE m)
           R == [k \in 0 .. n |-> {upto(k)}]
           out == WithText(rows)
<1>1. PICK f : Folds(f, <<>>, G, 1 .. n) /\ out = f[1 .. n]
  BY WithTextFolds
<1>2. n \in Nat /\ m \in 0 .. n
  OBVIOUS
<1>3. <<>> \in R[0]
  <2>1. upto(0) = <<>> /\ 0 \in 0 .. n
    BY <1>2
  <2> HIDE DEF upto, n
  <2> QED
    BY <2>1
<1>4. ASSUME NEW k \in 1 .. n, NEW v \in R[k - 1] PROVE G[<<v, k>>] \in R[k]
  <2>1. v = upto(k - 1) /\ k \in 0 .. n /\ k - 1 \in 0 .. n
    <3>1. k \in 0 .. n /\ k - 1 \in 0 .. n
      BY <1>2
    <3> HIDE DEF upto, n
    <3> QED
      BY <3>1
  <2>2. v \in Seq(S)
    BY <1>2, <2>1
  <2>3. G[<<v, k>>] = IF rows[k].text # NoText THEN Append(v, rows[k]) ELSE v
    BY <2>2 DEF WithTextFoldsStep
  <2>4. CASE k <= m
    <3>1. upto(k) = Append(upto(k - 1), rows[k])
      <4>1. SubSeq(rows, 1, k) = Append(SubSeq(rows, 1, k - 1), rows[k])
        BY <1>2
      <4> QED
        BY <1>2, <2>4, <4>1
    <3>2. G[<<v, k>>] = upto(k)
      <4> HIDE DEF upto, G
      <4> QED
        BY <2>1, <2>3, <2>4, <3>1
    <3> HIDE DEF upto, G, n
    <3> QED
      BY <2>1, <3>2
  <2>5. CASE ~(k <= m)
    <3>1. upto(k) = upto(k - 1)
      BY <1>2, <2>5
    <3>2. G[<<v, k>>] = upto(k)
      <4> HIDE DEF upto, G
      <4> QED
        BY <2>1, <2>3, <2>5, <3>1
    <3> HIDE DEF upto, G, n
    <3> QED
      BY <2>1, <3>2
  <2> QED
    BY <2>4, <2>5
<1>5. out \in R[n]
  <2> HIDE DEF G, R, n, out
  <2> QED
    BY <1>1, <1>2, <1>3, <1>4, FoldsReach
<1>6. upto(n) = SubSeq(rows, 1, m) /\ n \in 0 .. n
  BY <1>2
<1> HIDE DEF upto, n, out
<1> QED
  BY <1>5, <1>6 DEF out

\* Rows in order that number the texts from 0, or from 1.
LEMMA RowsGive ==
  ASSUME NEW n \in Nat \ {0}, NEW texts, NEW rows, NEW first \in {0, 1},
         NEW told, told = WithText(rows), DOMAIN told = 1 .. n, Len(told) = n,
         \A k \in 1 .. n : told[k].id = first + k - 1 /\ told[k].text = texts[k]
  PROVE  Gives(texts, n, FromRows(rows, n))
<1> DEFINE ids == {told[k].id : k \in DOMAIN told} \ {-1}
           last(id) == CHOOSE k \in DOMAIN told : told[k].id = id /\ \A m \in k + 1 .. Len(told) : told[m].id # id
           entries == [id \in ids |-> told[last(id)].text]
<1>1. FromRows(rows, n) \in {NotParsed, InOrder(entries, n)}
  <2>1. ids # {}
    <3>1. 1 \in 1 .. n /\ told[1].id = first
      OBVIOUS
    <3>2. 1 \in DOMAIN told /\ first # -1
      BY <3>1
    <3>3. first \in ids
      BY <3>1, <3>2, ZenonT(60)
    <3> QED
      BY <3>3
  <2>2. FromRows(rows, n) =
          IF \/ Len(rows) < n
             \/ Len(rows) = n /\ Len(told) < n
             \/ ids # {} /\ \E k \in DOMAIN told : told[k].id = -1
          THEN NotParsed
          ELSE IF ids # {} THEN InOrder(entries, n)
          ELSE IF Len(told) = n THEN [k \in 1 .. n |-> told[k].text] ELSE NotParsed
    BY DEF FromRows
  <2> HIDE DEF ids, entries
  <2> QED
    BY <2>1, <2>2
<1>2. \A k \in 1 .. n : last(first + k - 1) = k
  <2> SUFFICES ASSUME NEW k \in 1 .. n PROVE last(first + k - 1) = k
    OBVIOUS
  <2>1. told[k].id = first + k - 1 /\ \A m \in k + 1 .. Len(told) : told[m].id # first + k - 1
    <3>1. \A m \in k + 1 .. n : m \in 1 .. n /\ first + m - 1 # first + k - 1
      OBVIOUS
    <3>2. \A m \in 1 .. n : told[m].id = first + m - 1
      OBVIOUS
    <3>3. \A m \in k + 1 .. n : told[m].id # first + k - 1
      BY <3>1, <3>2
    <3> QED
      BY <3>2, <3>3
  <2>2. \A m \in 1 .. n : told[m].id = first + k - 1 => m = k
    OBVIOUS
  <2> QED
    BY <2>1, <2>2
<1>3. ids = first .. first + n - 1
  <2>1. \A id : id \in ids <=> id \in first .. first + n - 1
    <3>1. \A id \in ids : id \in first .. first + n - 1
      OBVIOUS
    <3>2. ASSUME NEW id \in first .. first + n - 1 PROVE id \in ids
      <4>1. id - first + 1 \in 1 .. n /\ first + (id - first + 1) - 1 = id /\ id # -1
        OBVIOUS
      <4> QED
        BY <4>1, ZenonT(60)
    <3> QED
      BY <3>1, <3>2
  <2> HIDE DEF ids
  <2> QED
    BY <2>1
<1>4. Numbered(first, n, entries, texts)
  <2> HIDE DEF last
  <2>1. \A k \in 1 .. n : first + k - 1 \in first .. first + n - 1
    OBVIOUS
  <2>2. \A k \in 1 .. n : entries[first + k - 1] = texts[k]
    BY <1>2, <1>3, <2>1
  <2> HIDE DEF ids
  <2> QED
    BY <1>3, <2>2 DEF Numbered
<1>5. Gives(texts, n, InOrder(entries, n)) /\ Gives(texts, n, NotParsed)
  <2> HIDE DEF entries
  <2> QED
    BY <1>4, MapGives DEF Gives
<1> HIDE DEF entries
<1> QED
  BY <1>1, <1>5

\* ... and rows that do not number them.
LEMMA UnnamedGive ==
  ASSUME NEW n \in Nat \ {0}, NEW texts, NEW rows, NEW told, told = WithText(rows), DOMAIN told = 1 .. n, Len(told) = n,
         \A k \in 1 .. n : told[k].id = -1 /\ told[k].text = texts[k]
  PROVE  Gives(texts, n, FromRows(rows, n))
<1> DEFINE ids == {told[k].id : k \in DOMAIN told} \ {-1}
           last(id) == CHOOSE k \in DOMAIN told : told[k].id = id /\ \A m \in k + 1 .. Len(told) : told[m].id # id
           entries == [id \in ids |-> told[last(id)].text]
           own == [k \in 1 .. n |-> told[k].text]
<1>1. ids = {}
  OBVIOUS
<1>2. FromRows(rows, n) =
        IF \/ Len(rows) < n
           \/ Len(rows) = n /\ Len(told) < n
           \/ ids # {} /\ \E k \in DOMAIN told : told[k].id = -1
        THEN NotParsed
        ELSE IF ids # {} THEN InOrder(entries, n)
        ELSE IF Len(told) = n THEN own ELSE NotParsed
  BY DEF FromRows
<1>3. FromRows(rows, n) \in {NotParsed, own}
  <2> HIDE DEF ids, entries, own
  <2> QED
    BY <1>1, <1>2
<1>4. Gives(texts, n, NotParsed) /\ Gives(texts, n, own)
  BY DEF Gives
<1> HIDE DEF own
<1> QED
  BY <1>3, <1>4

LEMMA RowsChanged ==
  ASSUME NEW a, NEW b, NEW c, NEW d
  PROVE  [[kind |-> a, rows |-> b, within |-> c] EXCEPT !.rows = d] = [kind |-> a, rows |-> d, within |-> c]
OBVIOUS

LEMMA WithinChanged ==
  ASSUME NEW a, NEW b, NEW c, NEW d
  PROVE  [[kind |-> a, entries |-> b, within |-> c] EXCEPT !.within = d] = [kind |-> a, entries |-> b, within |-> d]
OBVIOUS

\* What is parsed of each of the replies.
LEMMA RepliesGive ==
  ASSUME NEW n \in Nat \ {0}, NEW texts \in Seq(TextType), Len(texts) = n, NEW shape \in Shapes
  PROVE  Gives(texts, n, Parse(RepliesTo(texts)[shape], n))
<1> USE DEF Parse, FromReply
<1>0. Gives(texts, n, NotParsed) /\ DOMAIN texts = 1 .. n /\ \A k \in 1 .. n : texts[k] # NoText
  <2>1. \A k \in 1 .. n : texts[k] \in TextType
    OBVIOUS
  <2> QED
    BY <2>1, NoTextIsNone DEF Gives
<1>1. CASE shape \in {"zero", "one"}
  <2> DEFINE first == IF shape = "zero" THEN 0 ELSE 1
             reply == Map(first, texts)
  <2>1. RepliesTo(texts)[shape] = reply
    BY <1>1 DEF RepliesTo
  <2>2. reply.kind = "map" /\ reply.within = <<>> /\ reply.entries = [k \in first .. first + n - 1 |-> texts[k - first + 1]]
    BY DEF Map
  <2>3. Numbered(first, n, reply.entries, texts)
    <3>1. \A k \in 1 .. n : first + k - 1 \in first .. first + n - 1 /\ first + k - 1 - first + 1 = k
      OBVIOUS
    <3> QED
      BY <2>2, <3>1 DEF Numbered
  <2>4. first \in {0, 1}
    OBVIOUS
  <2> HIDE DEF reply, first
  <2>5. Gives(texts, n, FromMap(reply.entries, n))
    BY <2>3, <2>4, MapGives
  <2> QED
    BY <2>1, <2>2, <2>5
<1>2. CASE shape = "values"
  <2>1. RepliesTo(texts)[shape] = Values(texts)
    BY <1>2 DEF RepliesTo
  <2>2. Values(texts).kind = "values" /\ Values(texts).within = <<>> /\ Values(texts).values = texts
    BY DEF Values
  <2>3. Gives(texts, n, FromValues(texts, n))
    BY <1>0 DEF FromValues, Gives
  <2> QED
    BY <2>1, <2>2, <2>3
<1>3. CASE shape \in {"rows", "unnamed"}
  <2> DEFINE id(k) == IF shape = "rows" THEN k - 1 ELSE -1
             rows == [k \in DOMAIN texts |-> [id |-> id(k), text |-> texts[k]]]
             reply == [kind |-> "rows", rows |-> rows, within |-> <<>>]
  <2>1. RepliesTo(texts)[shape] = reply
    <3>1. CASE shape = "rows"
      <4>1. \A k \in DOMAIN texts : id(k) = 0 + k - 1
        BY <1>0, <3>1
      <4>2. rows = [k \in DOMAIN texts |-> [id |-> 0 + k - 1, text |-> texts[k]]]
        BY <4>1
      <4>3. Rows(0, texts) = reply
        BY <4>2 DEF Rows
      <4> QED
        BY <3>1, <4>3 DEF RepliesTo
    <3>2. CASE shape = "unnamed"
      <4>1. rows = [k \in DOMAIN texts |-> [id |-> -1, text |-> texts[k]]]
        BY <3>2
      <4>2. reply = [Rows(0, texts) EXCEPT !.rows = rows]
        <5> DEFINE named == [k \in DOMAIN texts |-> [id |-> 0 + k - 1, text |-> texts[k]]]
        <5>1. Rows(0, texts) = [kind |-> "rows", rows |-> named, within |-> <<>>]
          BY DEF Rows
        <5> HIDE DEF rows, named
        <5> QED
          BY <5>1, RowsChanged
      <4>3. RepliesTo(texts)[shape] = [Rows(0, texts) EXCEPT !.rows = [k \in DOMAIN texts |-> [id |-> -1, text |-> texts[k]]]]
        BY <3>2 DEF RepliesTo
      <4> QED
        BY <4>1, <4>2, <4>3
    <3> QED
      BY <1>3, <3>1, <3>2
  <2>2. rows \in Seq([id : Int, text : TextType]) /\ Len(rows) = n /\ \A k \in 1 .. n : rows[k].id = id(k) /\ rows[k].text = texts[k]
    BY <1>0
  <2>3. rows = WithText(rows)
    <3> DEFINE S == [id : Int, text : TextType]
    <3> HIDE DEF rows, S
    <3>1. rows \in Seq(S) /\ n \in 0 .. Len(rows) /\ \A k \in 1 .. Len(rows) : rows[k].text # NoText <=> k <= n
      BY <1>0, <2>2 DEF S
    <3>2. WithText(rows) = SubSeq(rows, 1, n)
      BY <3>1, WithTextIs
    <3> QED
      BY <2>2, <3>1, <3>2
  <2>4. Gives(texts, n, FromRows(rows, n))
    <3> HIDE DEF rows
    <3>1. DOMAIN rows = 1 .. n
      BY <2>2
    <3>2. CASE shape = "rows"
      <4>1. \A k \in 1 .. n : rows[k].id = 0 + k - 1 /\ rows[k].text = texts[k]
        BY <2>2, <3>2
      <4> QED
        BY <2>2, <2>3, <3>1, <4>1, RowsGive
    <3>3. CASE shape = "unnamed"
      <4>1. \A k \in 1 .. n : rows[k].id = -1 /\ rows[k].text = texts[k]
        BY <2>2, <3>3
      <4> QED
        BY <2>2, <2>3, <3>1, <4>1, UnnamedGive
    <3> QED
      BY <1>3, <3>2, <3>3
  <2> HIDE DEF rows
  <2>5. reply.kind = "rows" /\ reply.rows = rows
    OBVIOUS
  <2> HIDE DEF reply
  <2> QED
    BY <2>1, <2>4, <2>5
<1>4. CASE shape = "extra"
  <2> DEFINE kept == [k \in DOMAIN texts |-> [id |-> 1 + k - 1, text |-> texts[k]]]
             rows == Append(kept, [id |-> -1, text |-> NoText])
             reply == [kind |-> "rows", rows |-> rows, within |-> <<>>]
             S == [id : Int, text : TextType \cup {NoText}]
  <2>1. RepliesTo(texts)[shape] = reply
    <3>1. Rows(1, texts) = [kind |-> "rows", rows |-> kept, within |-> <<>>] /\ Rows(1, texts).rows = kept
      BY DEF Rows
    <3>2. [Rows(1, texts) EXCEPT !.rows = rows] = reply
      <4> HIDE DEF kept, rows
      <4> QED
        BY <3>1, RowsChanged
    <3>3. [Rows(1, texts) EXCEPT !.rows = Append(@, [id |-> -1, text |-> NoText])] = reply
      <4> HIDE DEF kept
      <4> QED
        BY <3>1, <3>2
    <3> QED
      BY <1>4, <3>3 DEF RepliesTo
  <2>2. kept \in Seq(S) /\ Len(kept) = n /\ DOMAIN kept = 1 .. n /\ \A k \in 1 .. n : kept[k].id = 1 + k - 1 /\ kept[k].text = texts[k]
    BY <1>0
  <2> HIDE DEF kept
  <2>3. [id |-> -1, text |-> NoText] \in S
    OBVIOUS
  <2>4. rows \in Seq(S) /\ Len(rows) = n + 1 /\ rows[n + 1].text = NoText /\ (\A k \in 1 .. n : rows[k] = kept[k]) /\ SubSeq(rows, 1, n) = kept
    <3> HIDE DEF S
    <3> QED
      BY <2>2, <2>3
  <2>5. kept = WithText(rows)
    <3> HIDE DEF rows, S
    <3>1. n \in 0 .. Len(rows) /\ \A k \in 1 .. Len(rows) : rows[k].text # NoText <=> k <= n
      <4>1. \A k \in 1 .. n + 1 : k \in 1 .. n \/ k = n + 1
        OBVIOUS
      <4>2. \A k \in 1 .. n : rows[k].text # NoText
        BY <1>0, <2>2, <2>4
      <4> QED
        BY <2>4, <4>1, <4>2
    <3>2. WithText(rows) = SubSeq(rows, 1, n)
      BY <2>4, <3>1, WithTextIs
    <3> QED
      BY <2>4, <3>2
  <2>6. Gives(texts, n, FromRows(rows, n))
    <3> HIDE DEF rows
    <3> QED
      BY <2>2, <2>5, RowsGive
  <2> HIDE DEF rows
  <2>7. reply.kind = "rows" /\ reply.rows = rows
    OBVIOUS
  <2> HIDE DEF reply
  <2> QED
    BY <2>1, <2>6, <2>7
<1>5. CASE shape = "nested"
  <2> DEFINE inner == Map(1, texts)
             reply == [kind |-> "map", entries |-> Map(0, <<>>).entries, within |-> <<Reply, inner>>]
  <2>1. RepliesTo(texts)[shape] = reply
    <3>1. reply = [Map(0, <<>>) EXCEPT !.within = <<Reply, inner>>]
      <4> DEFINE none == Map(0, <<>>).entries
      <4>1. Map(0, <<>>) = [kind |-> "map", entries |-> none, within |-> <<>>]
        BY DEF Map
      <4> HIDE DEF inner, none
      <4>2. [Map(0, <<>>) EXCEPT !.within = <<Reply, inner>>] = [kind |-> "map", entries |-> none, within |-> <<Reply, inner>>]
        BY <4>1, WithinChanged
      <4> QED
        BY <4>2 DEF none
    <3> QED
      BY <1>5, <3>1 DEF RepliesTo
  <2>2. /\ inner.kind = "map" /\ inner.entries = [k \in 1 .. 1 + n - 1 |-> texts[k - 1 + 1]]
        /\ Map(0, <<>>).entries = [k \in 0 .. -1 |-> <<>>[k - 0 + 1]]
    BY DEF Map
  <2>3. Gives(texts, n, FromReply(inner, n))
    <3>1. Numbered(1, n, inner.entries, texts)
      <4>1. \A k \in 1 .. n : 1 + k - 1 \in 1 .. 1 + n - 1 /\ 1 + k - 1 - 1 + 1 = k
        OBVIOUS
      <4> QED
        BY <2>2, <4>1 DEF Numbered
    <3>2. Gives(texts, n, FromMap(inner.entries, n))
      <4> HIDE DEF inner
      <4> QED
        BY <3>1, MapGives
    <3> QED
      BY <2>2, <3>2
  <2>4. FromReply(Reply, n) = NotParsed
    BY DEF Reply
  <2>5. FromReply(reply, n) = NotParsed
    <3> DEFINE none == Map(0, <<>>).entries
    <3>1. DOMAIN none = {} /\ 0 \in 0 .. n - 1 /\ 1 \in 1 .. n
      BY <2>2
    <3>3. reply.kind = "map" /\ reply.entries = none
      OBVIOUS
    <3> HIDE DEF none, reply
    <3>2. FromMap(none, n) = NotParsed
      BY <3>1 DEF FromMap, InOrder
    <3> QED
      BY <3>2, <3>3
  <2> DEFINE found == {k \in DOMAIN reply.within : FromReply(reply.within[k], n) # NotParsed}
             least == CHOOSE k \in found : \A m \in found : k <= m
  <2>6. reply.kind = "map" /\ DOMAIN reply.within = {1, 2} /\ reply.within[1] = Reply /\ reply.within[2] = inner
    OBVIOUS
  <2> HIDE DEF reply, inner
  <2>7. found \subseteq {2}
    <3> HIDE DEF FromReply
    <3> QED
      BY <2>4, <2>6
  <2>8. found # {} => least = 2
    <3> HIDE DEF FromReply
    <3> QED
      BY <2>7
  <2>9. Parse(reply, n) = IF FromReply(reply, n) # NotParsed \/ reply.kind # "map" \/ found = {}
                          THEN FromReply(reply, n) ELSE FromReply(reply.within[least], n)
    <3> HIDE DEF FromReply
    <3> QED
      BY DEF Parse
  <2> HIDE DEF found, least, FromReply, Parse
  <2> QED
    BY <1>0, <2>1, <2>3, <2>5, <2>6, <2>8, <2>9
<1>6. CASE shape = "short"
  <2> DEFINE less == SubSeq(texts, 1, n - 1)
             reply == Map(0, less)
  <2>1. RepliesTo(texts)[shape] = reply
    BY <1>6 DEF RepliesTo
  <2>2. Len(less) = n - 1
    BY <1>0
  <2> HIDE DEF less
  <2>3. reply.kind = "map" /\ reply.within = <<>> /\ reply.entries = [k \in 0 .. 0 + Len(less) - 1 |-> less[k - 0 + 1]]
    BY DEF Map
  <2>4. DOMAIN reply.entries = 0 .. n - 2
    BY <2>2, <2>3
  <2> HIDE DEF reply
  <2>5. FromMap(reply.entries, n) = NotParsed
    BY <2>4, ShortGivesNone
  <2> QED
    BY <1>0, <2>1, <2>3, <2>5
<1>7. CASE shape \in {"untold", "empty"}
  <2> DEFINE none == IF shape = "untold" THEN NoText ELSE <<>>
             told == [texts EXCEPT ![n] = none]
             reply == Map(0, told)
  <2>1. RepliesTo(texts)[shape] = reply
    <3>1. CASE shape = "untold"
      <4>1. reply = Map(0, [texts EXCEPT ![n] = NoText])
        BY <3>1
      <4> QED
        BY <3>1, <4>1 DEF RepliesTo
    <3>2. CASE shape = "empty"
      <4>1. reply = Map(0, [texts EXCEPT ![n] = <<>>])
        BY <3>2
      <4> QED
        BY <3>2, <4>1 DEF RepliesTo
    <3> QED
      BY <1>7, <3>1, <3>2
  <2>2. Len(told) = n /\ DOMAIN told = 1 .. n /\ told[n] = none /\ \A k \in 1 .. n : k # n => told[k] = texts[k]
    BY <1>0
  <2> HIDE DEF told
  <2>3. reply.kind = "map" /\ reply.within = <<>> /\ reply.entries = [k \in 0 .. 0 + n - 1 |-> told[k - 0 + 1]]
    BY <2>2 DEF Map
  <2>4. Gives(texts, n, FromMap(reply.entries, n))
    <3>1. CASE shape = "untold"
      <4>1. n - 1 \in DOMAIN reply.entries /\ reply.entries[n - 1] = NoText
        BY <2>2, <2>3, <3>1
      <4>2. FromMap(reply.entries, n) = NotParsed
        <5> HIDE DEF reply
        <5> QED
          BY <4>1 DEF FromMap
      <4> QED
        BY <1>0, <4>2
    <3>2. CASE shape = "empty"
      <4>1. Numbered(0, n, reply.entries, texts)
        <5>1. \A k \in 1 .. n : 0 + k - 1 \in 0 .. 0 + n - 1 /\ 0 + k - 1 - 0 + 1 = k
          OBVIOUS
        <5>2. \A k \in 1 .. n : told[k] \in {texts[k], <<>>}
          BY <2>2, <3>2
        <5> QED
          BY <2>3, <5>1, <5>2 DEF Numbered
      <4> HIDE DEF reply
      <4> QED
        BY <4>1, MapGives
    <3> QED
      BY <1>7, <3>1, <3>2
  <2> HIDE DEF reply
  <2> QED
    BY <2>1, <2>3, <2>4
<1>8. CASE shape = "junk"
  <2>1. RepliesTo(texts)[shape] = Reply /\ Reply.kind = "junk"
    BY <1>8 DEF RepliesTo, Reply
  <2> QED
    BY <1>0, <2>1
<1> QED
  BY <1>1, <1>2, <1>3, <1>4, <1>5, <1>6, <1>7, <1>8 DEF Shapes

-----------------------------------------------------------------------------
(* The invariant: what the variables hold *)

TaskPcs   == {"waiting", "ready", "calling", "singles", "store", "answered", "finished", "raised"}
SinglePcs == {"none", "waiting", "ready", "calling", "put", "done", "raised"}
Tasks   == [pc : TaskPcs, misses : Seq(Nat), format : 1 .. Formats, failures : 0 .. Retries - 1, calls : Nat]
Singles == [pc : SinglePcs, tries : 0 .. Retries - 1]
Entries == {e \in [pct : 0 .. 100, stage : Range(Stages), segs : Nat \cup {Unsaid}] : OfStage(e)}
Pubs    == [pc : {"idle", "get", "set"}, new : Entries, prev : Entries]
Phases  == {"parse", "classify", "start", "translate", "generate", "write", "written", "convert", "done", "failed"}

\* The answers a segment may get, and no answer yet.
AnswersTo(i) == {<<>>, segments[i], Translated(segments[i])}

GivenOK ==
  /\ run \in Scenarios
  /\ segments \in Seq(TextType)
  /\ Holds(batches, Len(segments))

TasksOK ==
  /\ task \in [DOMAIN batches -> Tasks]
  /\ \A b \in DOMAIN batches : Range(task[b].misses) \subseteq Range(batches[b])
  /\ single \in [DOMAIN segments -> Singles]

AnswersOK ==
  /\ got \in [DOMAIN segments -> TextType \cup {NoText}]
  /\ \A i \in DOMAIN segments : got[i] = NoText \/ got[i] \in AnswersTo(i)
  /\ Truthful(cache)

BarOK ==
  /\ bar \in 0 .. 100 /\ stored \in Entries /\ pubs \in [Publishers -> Pubs]
  /\ pulses \in [parse : 10 .. 13, docx : 92 .. 95, batch : 24 .. 88, pulse : Nat]
  /\ faults \in 0 .. run.faults /\ late \in BOOLEAN

-----------------------------------------------------------------------------
(* The work of a batch *)

\* Which of the segments of batch b wait for an answer: none before it is at work, then the
\* misses, and none once it has a text for all of them.
BatchWork(b) ==
  LET t == task[b]
      missing == Range(t.misses)
  IN  /\ t.pc = "waiting" => \A i \in Range(batches[b]) : single[i].pc = "none" /\ got[i] = NoText
      /\ t.pc \in {"ready", "calling"} =>
           /\ t.misses # <<>>
           /\ \A i \in Range(batches[b]) : single[i].pc = "none" /\ (i \notin missing => got[i] # NoText)
      /\ t.pc = "singles" =>
           \A i \in Range(batches[b]) : i \notin missing => single[i].pc = "none" /\ got[i] # NoText
      /\ t.pc \in {"store", "answered", "finished"} =>
           \A i \in Range(batches[b]) : single[i].pc \in {"none", "done"} /\ got[i] # NoText

Work ==
  /\ \A b \in DOMAIN batches : BatchWork(b)
  /\ \A i \in DOMAIN segments : single[i].pc \in {"put", "done"} => got[i] # NoText

\* The results are what the finished batches have got.
ResultsOK ==
  /\ results \in [DOMAIN segments -> TextType \cup {NoText}]
  /\ \A b \in DOMAIN batches : \A i \in Range(batches[b]) :
       results[i] = IF task[b].pc = "finished" THEN got[i] ELSE NoText

Finished == {b \in DOMAIN batches : task[b].pc = "finished"}
CountOK == doneBatches = Cardinality(Finished) /\ failing \in BOOLEAN

\* Every call but the last was answered by a looser format or by one more failure.
CallsOK ==
  \A b \in DOMAIN batches :
    task[b].calls <= task[b].format + task[b].failures - (IF task[b].pc \in {"waiting", "ready"} THEN 1 ELSE 0)

CallingTasks == {b \in DOMAIN batches : task[b].pc = "calling"}
CallingSingles == {i \in DOMAIN segments : single[i].pc = "calling"}
AtWork == {b \in DOMAIN batches : task[b].pc \notin {"waiting", "finished", "raised"}}

SlotsOK ==
  /\ Cardinality(CallingTasks) + Cardinality(CallingSingles) <= run.inflight
  /\ Cardinality(AtWork) <= run.concurrency
  /\ \A b \in DOMAIN batches : Cardinality(Busy(b)) <= 4

-----------------------------------------------------------------------------
(* The main thread *)

PhaseOK ==
  /\ pc \in Phases
  /\ failing => pc \in {"translate", "failed"}
  /\ pc \in {"parse", "classify", "start"} => ~failing /\ \A b \in DOMAIN batches : task[b].pc = "waiting"
  /\ pc = "translate" => segments # <<>>
  /\ pc \in {"generate", "write", "written", "convert", "done"} => doneBatches = Len(batches)
  /\ pc = "failed" /\ ~failing => doneBatches \in {0, Len(batches)}

\* Nobody but the thread whose turn it is publishes, unless one outlived its join.
TurnsOK ==
  ~late =>
    /\ ~Idle("parse") => pc = "parse"
    /\ ~Idle("docx") => pc = "write"
    /\ ~Idle("main") => pc \in {"start", "translate", "generate", "written", "convert"}
    /\ \A who \in Publishers : pubs[who].pc = "set" => pubs[who].prev = stored

\* No entry says that all segments are done before they are.
Claims == {stored} \cup {pubs[who].new : who \in Publishers} \cup {pubs[who].prev : who \in Publishers}
ClaimsOK ==
  run.before.segs = Unsaid =>
    /\ pc \in {"parse", "classify", "start"} => \A e \in Claims : e.segs <= 0
    /\ pc = "translate" /\ doneBatches < Len(batches) => \A e \in Claims : e.segs < Len(segments)
PulsesOK == doneBatches < Len(batches) => pulses.batch <= 87

Inv ==
  /\ GivenOK /\ TasksOK /\ AnswersOK /\ BarOK /\ Work /\ ResultsOK /\ CountOK /\ CallsOK /\ SlotsOK
  /\ PhaseOK /\ TurnsOK /\ ClaimsOK /\ PulsesOK

BatchInv ==
  GivenOK /\ TasksOK /\ AnswersOK /\ Work /\ ResultsOK /\ CountOK /\ CallsOK /\ SlotsOK

-----------------------------------------------------------------------------
(* What the invariant says of the segments and their batches *)

LEMMA Settings ==
  ASSUME GivenOK
  PROVE  /\ run.inflight \in Nat /\ run.concurrency \in Nat /\ run.faults \in Nat /\ run.target \in STRING
         /\ run.replies \subseteq Shapes /\ run.pulses \subseteq Nat
         /\ Retries \in Nat \ {0} /\ Formats \in Nat \ {0}
<1>1. ScenarioOK(run)
  BY ScenariosOK DEF GivenOK
<1> QED
  BY <1>1, BatchConstants DEF ScenarioOK

LEMMA SegmentsAreTexts ==
  ASSUME GivenOK
  PROVE  /\ DOMAIN segments = 1 .. Len(segments) /\ Len(segments) \in Nat /\ IsFiniteSet(DOMAIN segments)
         /\ \A i \in DOMAIN segments : segments[i] \in TextType /\ Translated(segments[i]) \in TextType
<1>1. segments \in Seq(TextType) /\ run.target \in STRING
  BY Settings DEF GivenOK
<1>2. DOMAIN segments = 1 .. Len(segments) /\ Len(segments) \in Nat /\ \A i \in DOMAIN segments : segments[i] \in TextType
  BY <1>1
<1>3. \A t \in TextType : Translated(t) \in TextType
  BY <1>1, TextsAreWords DEF Translated
<1>4. IsFiniteSet(1 .. Len(segments))
  BY <1>2, FS_Interval
<1> QED
  BY <1>2, <1>3, <1>4

\* Every segment is in one batch.
LEMMA Placed ==
  ASSUME GivenOK
  PROVE  /\ DOMAIN batches = 1 .. Len(batches) /\ Len(batches) \in Nat
         /\ IsFiniteSet(DOMAIN batches) /\ Cardinality(DOMAIN batches) = Len(batches)
         /\ \A b \in DOMAIN batches : /\ batches[b] \in Seq(Nat) /\ batches[b] # <<>>
                                      /\ Range(batches[b]) \subseteq DOMAIN segments /\ Range(batches[b]) # {}
         /\ \A b, c \in DOMAIN batches : b # c => Range(batches[b]) \cap Range(batches[c]) = {}
         /\ \A i \in DOMAIN segments : BatchOf(i) \in DOMAIN batches /\ i \in Range(batches[BatchOf(i)])
<1>1. Holds(batches, Len(segments)) /\ batches \in Seq(Seq(Nat)) /\ DOMAIN segments = 1 .. Len(segments)
  BY SegmentsAreTexts DEF GivenOK, Holds
<1>2. DOMAIN batches = 1 .. Len(batches) /\ Len(batches) \in Nat /\ \A b \in DOMAIN batches : batches[b] \in Seq(Nat)
  BY <1>1
<1>3. ASSUME NEW s \in Seq(Nat), s # <<>> PROVE Range(s) # {}
  <2>1. 1 \in DOMAIN s
    BY <1>3
  <2>2. s[1] \in Range(s)
    BY <2>1 DEF Range
  <2> QED
    BY <2>2
<1>4. \A i \in DOMAIN segments : BatchOf(i) \in DOMAIN batches /\ i \in Range(batches[BatchOf(i)])
  <2> TAKE i \in DOMAIN segments
  <2>1. \E b \in DOMAIN batches : i \in Range(batches[b])
    BY <1>1 DEF Holds
  <2> QED
    BY <2>1 DEF BatchOf
<1>5. IsFiniteSet(1 .. Len(batches)) /\ Cardinality(1 .. Len(batches)) = Len(batches)
  <2>1. Cardinality(1 .. Len(batches)) = IF 1 > Len(batches) THEN 0 ELSE Len(batches) - 1 + 1
    BY <1>2, FS_Interval
  <2>2. IsFiniteSet(1 .. Len(batches))
    BY <1>2, FS_Interval
  <2> QED
    BY <1>2, <2>1, <2>2
<1> QED
  BY <1>1, <1>2, <1>3, <1>4, <1>5 DEF Holds

\* The segments of the other batches are left alone.
OthersStay(b) ==
  \A c \in DOMAIN batches : c # b =>
    task'[c] = task[c] /\ \A i \in Range(batches[c]) : single'[i] = single[i] /\ got'[i] = got[i]

OwnWork(b) == BatchWork(b) /\ \A i \in Range(batches[b]) : single[i].pc \in {"put", "done"} => got[i] # NoText
OwnCalls(b) ==
  task[b].calls <= task[b].format + task[b].failures - (IF task[b].pc \in {"waiting", "ready"} THEN 1 ELSE 0)

\* A step of a batch that is not done, and does not end it.
LEMMA OthersKeep ==
  ASSUME BatchInv, NEW b \in DOMAIN batches, UNCHANGED <<given, results, doneBatches>>, OthersStay(b),
         task[b].pc # "finished", task'[b].pc # "finished", OwnWork(b)', OwnCalls(b)', failing' \in BOOLEAN
  PROVE  Work' /\ ResultsOK' /\ CountOK' /\ CallsOK'
<1>0. UNCHANGED <<run, segments, batches, results, doneBatches>> /\ GivenOK
  BY DEF given, BatchInv
<1>1. Work'
  <2>1. ASSUME NEW c \in DOMAIN batches, c # b PROVE OwnWork(c)'
    <3>1. OwnWork(c)
      <4>1. Range(batches[c]) \subseteq DOMAIN segments
        BY <1>0, Placed
      <4> QED
        BY <4>1 DEF BatchInv, Work, OwnWork
    <3>2. task'[c] = task[c] /\ \A i \in Range(batches[c]) : single'[i] = single[i] /\ got'[i] = got[i]
      BY <2>1 DEF OthersStay
    <3> QED
      BY <1>0, <3>1, <3>2 DEF OwnWork, BatchWork
  <2>2. \A c \in DOMAIN batches : OwnWork(c)'
    BY <2>1
  <2>3. ASSUME NEW i \in DOMAIN segments PROVE (single[i].pc \in {"put", "done"} => got[i] # NoText)'
    <3>1. BatchOf(i) \in DOMAIN batches /\ i \in Range(batches[BatchOf(i)])
      BY <1>0, Placed
    <3> QED
      BY <1>0, <2>2, <3>1 DEF OwnWork
  <2> QED
    BY <1>0, <2>2, <2>3 DEF Work, OwnWork
<1>2. ResultsOK'
  <2>1. ASSUME NEW c \in DOMAIN batches, NEW i \in Range(batches[c])
        PROVE  results[i] = IF task'[c].pc = "finished" THEN got'[i] ELSE NoText
    <3>1. results[i] = IF task[c].pc = "finished" THEN got[i] ELSE NoText
      BY DEF BatchInv, ResultsOK
    <3> QED
      BY <3>1 DEF OthersStay
  <2> QED
    BY <1>0, <2>1 DEF BatchInv, ResultsOK
<1>3. CountOK'
  <2>1. Finished' = Finished
    BY <1>0 DEF Finished, OthersStay
  <2> QED
    BY <1>0, <2>1 DEF BatchInv, CountOK
<1>4. CallsOK'
  BY <1>0 DEF BatchInv, CallsOK, OwnCalls, OthersStay
<1> QED
  BY <1>1, <1>2, <1>3, <1>4

\* A step of batch b, and of singles of b.
LEMMA TaskMoved ==
  ASSUME BatchInv, NEW b \in DOMAIN batches, UNCHANGED given, NEW t \in Tasks, Range(t.misses) \subseteq Range(batches[b]),
         task' = [task EXCEPT ![b] = t], single' \in [DOMAIN segments -> Singles]
  PROVE  TasksOK' /\ task'[b] = t /\ \A c \in DOMAIN batches : c # b => task'[c] = task[c]
<1>1. task \in [DOMAIN batches -> Tasks] /\ UNCHANGED <<batches, segments>> /\ \A c \in DOMAIN batches : Range(task[c].misses) \subseteq Range(batches[c])
  BY DEF BatchInv, TasksOK, given
<1>2. task' \in [DOMAIN batches -> Tasks] /\ task'[b] = t /\ \A c \in DOMAIN batches : c # b => task'[c] = task[c]
  BY <1>1
<1> QED
  BY <1>1, <1>2 DEF TasksOK

-----------------------------------------------------------------------------
(* The semaphores *)

LEMMA CardFewer ==
  ASSUME NEW T, IsFiniteSet(T), NEW S \in SUBSET T
  PROVE  Cardinality(S) <= Cardinality(T) /\ Cardinality(S) \in Nat /\ Cardinality(T) \in Nat
<1>1. IsFiniteSet(S) /\ Cardinality(S) <= Cardinality(T)
  BY FS_Subset
<1> QED
  BY <1>1, FS_CardinalityType

LEMMA CardOneMore ==
  ASSUME NEW T, IsFiniteSet(T), NEW x, NEW S \in SUBSET (T \cup {x})
  PROVE  Cardinality(S) <= Cardinality(T) + 1 /\ Cardinality(S) \in Nat /\ Cardinality(T) \in Nat
<1>1. IsFiniteSet(T \cup {x}) /\ Cardinality(T \cup {x}) <= Cardinality(T) + 1 /\ Cardinality(T) \in Nat
  <2>1. IsFiniteSet(T \cup {x}) /\ Cardinality(T \cup {x}) = IF x \in T THEN Cardinality(T) ELSE Cardinality(T) + 1
    BY FS_AddElement
  <2>2. Cardinality(T) \in Nat
    BY FS_CardinalityType
  <2> QED
    BY <2>1, <2>2
<1>2. Cardinality(S) <= Cardinality(T \cup {x}) /\ Cardinality(S) \in Nat /\ Cardinality(T \cup {x}) \in Nat
  BY <1>1, CardFewer
<1> QED
  BY <1>1, <1>2

\* What the guards of the code count is what the invariant counts.
LEMMA SlotsCounted ==
  ASSUME GivenOK, TasksOK
  PROVE  /\ InFlight = Cardinality(CallingTasks) + Cardinality(CallingSingles)
         /\ InFlightOf({"calling"}) = Cardinality(CallingTasks) + Cardinality(CallingSingles)
         /\ Active = AtWork
         /\ IsFiniteSet(CallingTasks) /\ IsFiniteSet(CallingSingles) /\ IsFiniteSet(AtWork)
         /\ Cardinality(CallingTasks) \in Nat /\ Cardinality(CallingSingles) \in Nat /\ Cardinality(AtWork) \in Nat
         /\ \A b \in DOMAIN batches : IsFiniteSet(Busy(b)) /\ Cardinality(Busy(b)) \in Nat
<1>1. DOMAIN task = DOMAIN batches /\ DOMAIN single = DOMAIN segments
  BY DEF TasksOK
<1>2. /\ {b \in DOMAIN task : task[b].pc \in {"calling"}} = CallingTasks
      /\ {i \in DOMAIN single : single[i].pc = "calling"} = CallingSingles
  BY <1>1 DEF CallingTasks, CallingSingles
<1>3. /\ CallingTasks \subseteq DOMAIN batches /\ AtWork \subseteq DOMAIN batches /\ CallingSingles \subseteq DOMAIN segments
      /\ IsFiniteSet(DOMAIN batches) /\ IsFiniteSet(DOMAIN segments)
  BY Placed, SegmentsAreTexts DEF CallingTasks, AtWork, CallingSingles
<1>4. IsFiniteSet(CallingTasks) /\ IsFiniteSet(CallingSingles) /\ IsFiniteSet(AtWork)
  BY <1>3, FS_Subset
<1>5. \A b \in DOMAIN batches : IsFiniteSet(Busy(b))
  <2> TAKE b \in DOMAIN batches
  <2>1. Busy(b) \subseteq DOMAIN segments
    BY Placed DEF Busy
  <2> QED
    BY <1>3, <2>1, FS_Subset
<1>6. InFlightOf({"calling"}) = Cardinality(CallingTasks) + Cardinality(CallingSingles)
  BY <1>2 DEF InFlightOf
<1>7. Active = AtWork
  BY <1>1 DEF Active, AtWork
<1> QED
  BY <1>4, <1>5, <1>6, <1>7, FS_CardinalityType DEF InFlight

LEMMA FewerCalls ==
  ASSUME BatchInv, UNCHANGED given, \A b \in DOMAIN batches : task'[b].pc = "calling" => task[b].pc = "calling",
         \A i \in DOMAIN segments : single'[i].pc = "calling" => single[i].pc = "calling"
  PROVE  (Cardinality(CallingTasks) + Cardinality(CallingSingles) <= run.inflight)'
<1>1. UNCHANGED <<run, segments, batches>> /\ run.inflight \in Nat /\ GivenOK /\ TasksOK
  BY Settings DEF given, BatchInv
<1>2. CallingTasks' \in SUBSET CallingTasks /\ CallingSingles' \in SUBSET CallingSingles
  BY <1>1 DEF CallingTasks, CallingSingles
<1>3. IsFiniteSet(CallingTasks) /\ IsFiniteSet(CallingSingles)
  BY <1>1, SlotsCounted
<1>4. /\ Cardinality(CallingTasks') <= Cardinality(CallingTasks) /\ Cardinality(CallingTasks') \in Nat /\ Cardinality(CallingTasks) \in Nat
      /\ Cardinality(CallingSingles') <= Cardinality(CallingSingles) /\ Cardinality(CallingSingles') \in Nat /\ Cardinality(CallingSingles) \in Nat
  BY <1>2, <1>3, CardFewer
<1>5. Cardinality(CallingTasks) + Cardinality(CallingSingles) <= run.inflight
  BY DEF BatchInv, SlotsOK
<1> QED
  BY <1>1, <1>4, <1>5

LEMMA FewerAtWork ==
  ASSUME BatchInv, UNCHANGED given,
         \A b \in DOMAIN batches : task'[b].pc \notin {"waiting", "finished", "raised"} => task[b].pc \notin {"waiting", "finished", "raised"}
  PROVE  (Cardinality(AtWork) <= run.concurrency)'
<1>1. UNCHANGED <<run, segments, batches>> /\ run.concurrency \in Nat /\ GivenOK /\ TasksOK
  BY Settings DEF given, BatchInv
<1>2. AtWork' \in SUBSET AtWork
  BY <1>1 DEF AtWork
<1>3. IsFiniteSet(AtWork)
  BY <1>1, SlotsCounted
<1>4. Cardinality(AtWork') <= Cardinality(AtWork) /\ Cardinality(AtWork') \in Nat /\ Cardinality(AtWork) \in Nat
  BY <1>2, <1>3, CardFewer
<1>5. Cardinality(AtWork) <= run.concurrency
  BY DEF BatchInv, SlotsOK
<1> QED
  BY <1>1, <1>4, <1>5

LEMMA FewerBusy ==
  ASSUME BatchInv, UNCHANGED given,
         \A i \in DOMAIN segments : single'[i].pc \in {"ready", "calling", "put"} => single[i].pc \in {"ready", "calling", "put"}
  PROVE  (\A b \in DOMAIN batches : Cardinality(Busy(b)) <= 4)'
<1>1. UNCHANGED <<run, segments, batches>> /\ GivenOK /\ TasksOK
  BY DEF given, BatchInv
<1>2. ASSUME NEW b \in DOMAIN batches PROVE Cardinality(Busy(b)') <= 4
  <2>1. Busy(b)' \in SUBSET Busy(b)
    <3>1. Range(batches[b]) \subseteq DOMAIN segments
      BY <1>1, Placed
    <3> QED
      BY <1>1, <3>1 DEF Busy
  <2>2. IsFiniteSet(Busy(b))
    BY <1>1, SlotsCounted
  <2>3. Cardinality(Busy(b)') <= Cardinality(Busy(b)) /\ Cardinality(Busy(b)') \in Nat /\ Cardinality(Busy(b)) \in Nat
    BY <2>1, <2>2, CardFewer
  <2>4. Cardinality(Busy(b)) <= 4
    BY DEF BatchInv, SlotsOK
  <2> QED
    BY <2>3, <2>4
<1> QED
  BY <1>1, <1>2

-----------------------------------------------------------------------------
(* The steps of a batch *)

LEMMA BatchInvKept ==
  ASSUME BatchInv, NEW b \in DOMAIN batches, UNCHANGED <<given, results, doneBatches>>, OthersStay(b),
         task[b].pc # "finished", task'[b].pc # "finished", failing' \in BOOLEAN,
         TasksOK', AnswersOK', OwnWork(b)', OwnCalls(b)', SlotsOK'
  PROVE  BatchInv'
<1>1. Work' /\ ResultsOK' /\ CountOK' /\ CallsOK'
  BY OthersKeep
<1>2. GivenOK'
  BY DEF BatchInv, GivenOK, given
<1> QED
  BY <1>1, <1>2 DEF BatchInv

LEMMA AnswersKept ==
  ASSUME BatchInv, UNCHANGED given, got' = [i \in DOMAIN segments |-> got'[i]],
         \A i \in DOMAIN segments : got'[i] \in {got[i]} \cup AnswersTo(i), Truthful(cache')
  PROVE  AnswersOK'
<1>1. UNCHANGED <<run, segments>> /\ GivenOK /\ AnswersOK
  BY DEF given, BatchInv
<1>2. \A i \in DOMAIN segments : AnswersTo(i) \subseteq TextType
  <2>1. <<>> \in TextType
    BY DEF TextType
  <2> QED
    BY <1>1, <2>1, SegmentsAreTexts DEF AnswersTo
<1>3. \A i \in DOMAIN segments : got'[i] \in TextType \cup {NoText} /\ (got'[i] = NoText \/ got'[i] \in AnswersTo(i))
  BY <1>1, <1>2 DEF AnswersOK
<1>4. \A i : AnswersTo(i)' = AnswersTo(i)
  BY <1>1 DEF AnswersTo, Translated
<1>5. Truthful(cache)'
  BY DEF Truthful
<1> QED
  BY <1>1, <1>3, <1>4, <1>5 DEF AnswersOK

LEMMA FallsBack ==
  ASSUME BatchInv, NEW b \in DOMAIN batches, UNCHANGED given, NEW misses \in Seq(Nat), Range(misses) \subseteq Range(batches[b]),
         FallBack(b, misses)
  PROVE  /\ TasksOK'
         /\ task'[b] = [task[b] EXCEPT !.pc = "singles", !.misses = misses]
         /\ \A c \in DOMAIN batches : c # b => task'[c] = task[c]
         /\ \A i \in DOMAIN segments : IF i \in Range(misses) THEN single'[i].pc = "waiting" ELSE single'[i] = single[i]
<1> DEFINE t == [task[b] EXCEPT !.pc = "singles", !.misses = misses]
<1>0. TasksOK
  BY DEF BatchInv
<1>1. t \in Tasks /\ t.misses = misses
  BY <1>0 DEF TasksOK, Tasks, TaskPcs
<1>2. task' = [task EXCEPT ![b] = t]
  BY <1>0 DEF FallBack, TasksOK, Tasks
<1>3. /\ single' \in [DOMAIN segments -> Singles]
      /\ \A i \in DOMAIN segments : IF i \in Range(misses) THEN single'[i].pc = "waiting" ELSE single'[i] = single[i]
  <2>1. \A s \in Singles : [s EXCEPT !.pc = "waiting"] \in Singles /\ [s EXCEPT !.pc = "waiting"].pc = "waiting"
    BY DEF Singles, SinglePcs
  <2>2. single \in [DOMAIN segments -> Singles]
    BY <1>0 DEF TasksOK
  <2>3. single' = [i \in DOMAIN segments |-> IF i \in Range(misses) THEN [single[i] EXCEPT !.pc = "waiting"] ELSE single[i]]
    BY <2>2 DEF FallBack
  <2> HIDE DEF Singles
  <2> QED
    BY <2>1, <2>2, <2>3
<1> HIDE DEF t
<1>4. TasksOK' /\ task'[b] = t /\ \A c \in DOMAIN batches : c # b => task'[c] = task[c]
  BY <1>1, <1>2, <1>3, TaskMoved
<1> QED
  BY <1>3, <1>4 DEF t

LEMMA BatchCallKeeps ==
  ASSUME BatchInv, NEW b \in DOMAIN batches, BatchCall(b)
  PROVE  BatchInv'
<1> DEFINE t == [task[b] EXCEPT !.pc = "calling", !.calls = @ + 1]
<1>0. /\ TasksOK /\ GivenOK /\ AnswersOK /\ UNCHANGED <<given, single, got, results, cache, doneBatches, failing, run, batches, segments>>
      /\ task[b].pc = "ready" /\ task[b] \in Tasks
  BY DEF BatchInv, BatchCall, given, TasksOK
<1>1. t \in Tasks /\ t.misses = task[b].misses /\ t.pc = "calling" /\ t.calls = task[b].calls + 1 /\ t.format = task[b].format /\ t.failures = task[b].failures
  <2>1. task[b].calls + 1 \in Nat /\ "calling" \in TaskPcs
    BY <1>0 DEF Tasks, TaskPcs
  <2> HIDE DEF TaskPcs
  <2> QED
    BY <1>0, <2>1 DEF Tasks
<1>2. task' = [task EXCEPT ![b] = t]
  BY <1>0 DEF BatchCall, TasksOK, Tasks
<1> HIDE DEF t
<1>3. TasksOK' /\ task'[b] = t /\ \A c \in DOMAIN batches : c # b => task'[c] = task[c]
  BY <1>0, <1>1, <1>2, TaskMoved DEF TasksOK
<1>4. OthersStay(b)
  BY <1>0, <1>3 DEF OthersStay
<1>5. AnswersOK'
  BY <1>0 DEF AnswersOK, AnswersTo, Translated, Truthful
<1>6. OwnWork(b)'
  <2>1. BatchWork(b) /\ Range(batches[b]) \subseteq DOMAIN segments
    BY <1>0, Placed DEF BatchInv, Work
  <2>2. \A i \in Range(batches[b]) : single[i].pc \in {"put", "done"} => got[i] # NoText
    BY <2>1 DEF BatchInv, Work
  <2>3. BatchWork(b)'
    BY <1>0, <1>1, <1>3, <2>1 DEF BatchWork
  <2> QED
    BY <1>0, <2>2, <2>3 DEF OwnWork
<1>7. OwnCalls(b)'
  <2>1. OwnCalls(b)
    BY DEF BatchInv, CallsOK, OwnCalls
  <2>2. task[b].calls \in Nat /\ task[b].format \in Nat /\ task[b].failures \in Nat
    BY <1>0 DEF Tasks
  <2> QED
    BY <1>0, <1>1, <1>3, <2>1, <2>2 DEF OwnCalls
<1>8. SlotsOK'
  <2>1. (Cardinality(AtWork) <= run.concurrency)'
    BY <1>0, <1>3, FewerAtWork
  <2>2. (\A c \in DOMAIN batches : Cardinality(Busy(c)) <= 4)'
    BY <1>0, FewerBusy
  <2>3. (Cardinality(CallingTasks) + Cardinality(CallingSingles) <= run.inflight)'
    <3>1. CallingSingles' = CallingSingles /\ CallingTasks' \in SUBSET (CallingTasks \cup {b})
      BY <1>0, <1>3 DEF CallingSingles, CallingTasks
    <3>2. /\ IsFiniteSet(CallingTasks) /\ Cardinality(CallingSingles) \in Nat
          /\ InFlight = Cardinality(CallingTasks) + Cardinality(CallingSingles)
      BY <1>0, SlotsCounted
    <3>3. Cardinality(CallingTasks') <= Cardinality(CallingTasks) + 1 /\ Cardinality(CallingTasks') \in Nat /\ Cardinality(CallingTasks) \in Nat
      BY <3>1, <3>2, CardOneMore
    <3>4. InFlight < run.inflight /\ run.inflight \in Nat
      BY <1>0, Settings DEF BatchCall
    <3> QED
      BY <1>0, <3>1, <3>2, <3>3, <3>4
  <2> QED
    BY <2>1, <2>2, <2>3 DEF SlotsOK
<1>9. failing' \in BOOLEAN /\ task'[b].pc # "finished"
  BY <1>0, <1>1, <1>3 DEF BatchInv, CountOK
<1> QED
  BY <1>0, <1>3, <1>4, <1>5, <1>6, <1>7, <1>8, <1>9, BatchInvKept

\* A step of a batch that is at work, makes no call and leaves the singles alone.
LEMMA OwnStepKeeps ==
  ASSUME BatchInv, NEW b \in DOMAIN batches, NEW t \in Tasks, Range(t.misses) \subseteq Range(batches[b]),
         task' = [task EXCEPT ![b] = t], UNCHANGED <<given, single, results, doneBatches>>, AnswersOK',
         \A i \in DOMAIN segments : i \notin Range(batches[b]) => got'[i] = got[i],
         task[b].pc \notin {"waiting", "finished", "raised"}, t.pc \notin {"calling", "finished"}, failing' \in BOOLEAN,
         OwnWork(b)', OwnCalls(b)'
  PROVE  BatchInv'
<1>0. TasksOK /\ GivenOK /\ UNCHANGED <<given, single, results, doneBatches, run, batches, segments>> /\ single \in [DOMAIN segments -> Singles]
  BY DEF BatchInv, given, TasksOK
<1>3. TasksOK' /\ task'[b] = t /\ \A c \in DOMAIN batches : c # b => task'[c] = task[c]
  <2>1. single' \in [DOMAIN segments -> Singles]
    BY <1>0
  <2> QED
    BY <1>0, <2>1, TaskMoved
<1>4. OthersStay(b)
  <2>1. \A c \in DOMAIN batches : c # b => \A i \in Range(batches[c]) : i \in DOMAIN segments /\ i \notin Range(batches[b])
    BY <1>0, Placed
  <2> QED
    BY <1>0, <1>3, <2>1 DEF OthersStay
<1>8. SlotsOK'
  <2>1. (Cardinality(AtWork) <= run.concurrency)'
    BY <1>0, <1>3, FewerAtWork
  <2>2. (\A c \in DOMAIN batches : Cardinality(Busy(c)) <= 4)'
    BY <1>0, FewerBusy
  <2>3. (Cardinality(CallingTasks) + Cardinality(CallingSingles) <= run.inflight)'
    BY <1>0, <1>3, FewerCalls
  <2> QED
    BY <2>1, <2>2, <2>3 DEF SlotsOK
<1> QED
  BY <1>0, <1>3, <1>4, <1>8, BatchInvKept

LEMMA OwnFacts ==
  ASSUME BatchInv, NEW b \in DOMAIN batches
  PROVE  /\ TasksOK /\ GivenOK /\ AnswersOK /\ task[b] \in Tasks /\ DOMAIN task = DOMAIN batches /\ DOMAIN single = DOMAIN segments
         /\ Range(task[b].misses) \subseteq Range(batches[b]) /\ Range(batches[b]) \subseteq DOMAIN segments
         /\ BatchWork(b) /\ OwnWork(b) /\ OwnCalls(b) /\ failing \in BOOLEAN
         /\ task[b].calls \in Nat /\ task[b].format \in 1 .. Formats /\ task[b].failures \in 0 .. Retries - 1
         /\ task[b].misses \in Seq(Nat) /\ got = [i \in DOMAIN segments |-> got[i]]
<1>1. TasksOK /\ GivenOK /\ AnswersOK /\ BatchWork(b) /\ failing \in BOOLEAN /\ OwnCalls(b)
  BY DEF BatchInv, Work, CountOK, CallsOK, OwnCalls
<1>2. Range(batches[b]) \subseteq DOMAIN segments
  BY <1>1, Placed
<1>3. OwnWork(b)
  BY <1>1, <1>2 DEF BatchInv, Work, OwnWork
<1>4. task[b] \in Tasks /\ DOMAIN task = DOMAIN batches /\ DOMAIN single = DOMAIN segments /\ Range(task[b].misses) \subseteq Range(batches[b])
  BY <1>1 DEF TasksOK
<1>5. /\ task[b].calls \in Nat /\ task[b].format \in 1 .. Formats /\ task[b].failures \in 0 .. Retries - 1
      /\ task[b].misses \in Seq(Nat)
  BY <1>4 DEF Tasks
<1> QED
  BY <1>1, <1>2, <1>3, <1>4, <1>5 DEF AnswersOK

\* The fields that a step of a batch changes.
LEMMA RecordTo ==
  ASSUME NEW r \in Tasks, NEW p \in TaskPcs
  PROVE  /\ [r EXCEPT !.pc = p] \in Tasks
         /\ [r EXCEPT !.pc = p].pc = p /\ [r EXCEPT !.pc = p].misses = r.misses /\ [r EXCEPT !.pc = p].format = r.format
         /\ [r EXCEPT !.pc = p].failures = r.failures /\ [r EXCEPT !.pc = p].calls = r.calls
<1> HIDE DEF TaskPcs
<1> QED
  BY DEF Tasks

LEMMA RecordLooser ==
  ASSUME NEW r \in Tasks, NEW p \in TaskPcs, r.format < Formats, Formats \in Nat
  PROVE  LET s == [r EXCEPT !.pc = p, !.format = @ + 1]
         IN  s \in Tasks /\ s.pc = p /\ s.misses = r.misses /\ s.format = r.format + 1 /\ s.failures = r.failures /\ s.calls = r.calls
<1>1. r.format + 1 \in 1 .. Formats
  BY DEF Tasks
<1> HIDE DEF TaskPcs
<1> QED
  BY <1>1 DEF Tasks

LEMMA RecordFailed ==
  ASSUME NEW r \in Tasks, NEW p \in TaskPcs, r.failures + 1 < Retries, Retries \in Nat
  PROVE  LET s == [r EXCEPT !.pc = p, !.failures = @ + 1]
         IN  s \in Tasks /\ s.pc = p /\ s.misses = r.misses /\ s.format = r.format /\ s.failures = r.failures + 1 /\ s.calls = r.calls
<1>1. r.failures + 1 \in 0 .. Retries - 1
  BY DEF Tasks
<1> HIDE DEF TaskPcs
<1> QED
  BY <1>1 DEF Tasks

LEMMA TaskGatherKeeps ==
  ASSUME BatchInv, NEW b \in DOMAIN batches, TaskGather(b)
  PROVE  BatchInv'
<1> DEFINE p == IF Len(batches[b]) = 1 THEN "answered" ELSE "store"
           t == [task[b] EXCEPT !.pc = p]
<1>0. /\ UNCHANGED <<given, single, got, results, cache, doneBatches, failing, run, batches, segments>>
      /\ task[b].pc = "singles" /\ \A i \in Range(task[b].misses) : single[i].pc = "done"
  BY DEF TaskGather, given
<1>f. TasksOK /\ GivenOK /\ AnswersOK /\ task[b] \in Tasks /\ OwnWork(b) /\ BatchWork(b) /\ OwnCalls(b) /\ failing \in BOOLEAN
  BY OwnFacts
<1>g. Range(task[b].misses) \subseteq Range(batches[b]) /\ DOMAIN task = DOMAIN batches
  BY OwnFacts
<1>1. t \in Tasks /\ t.pc = p /\ p \in {"answered", "store"} /\ t.misses = task[b].misses /\ t.calls = task[b].calls
      /\ t.format = task[b].format /\ t.failures = task[b].failures
  <2>1. p \in TaskPcs /\ p \in {"answered", "store"}
    BY DEF TaskPcs
  <2> QED
    BY <1>f, <2>1, RecordTo
<1>2. task' = [task EXCEPT ![b] = t]
  BY <1>f, <1>g DEF TaskGather, To
<1> HIDE DEF t, p
<1>3. task'[b] = t
  BY <1>2, <1>g
<1>5. AnswersOK'
  BY <1>0, <1>f DEF AnswersOK, AnswersTo, Translated, Truthful
<1>6. OwnWork(b)'
  <2>1. \A i \in Range(batches[b]) : single[i].pc \in {"none", "done"} /\ got[i] # NoText
    BY <1>0, <1>f DEF BatchWork, OwnWork
  <2> QED
    BY <1>0, <1>1, <1>3, <2>1 DEF OwnWork, BatchWork
<1>7. OwnCalls(b)'
  BY <1>0, <1>1, <1>3, <1>f DEF OwnCalls
<1> QED
  BY <1>0, <1>1, <1>2, <1>5, <1>6, <1>7, <1>f, <1>g, OwnStepKeeps

\* A store adds translations only.
LEMMA StoreKeepsTruth ==
  ASSUME AnswersOK, NEW is \in SUBSET DOMAIN segments, NEW ok \in BOOLEAN, Store(is, ok), \A i \in is : got[i] # NoText
  PROVE  Truthful(cache')
<1> DEFINE sent == {i \in is : WorthStoring(i)}
           keys == {KeyOf(i) : i \in sent}
           value(key) == got[CHOOSE i \in sent : KeyOf(i) = key]
           spoken(key) == [k \in DOMAIN key.text |-> [key.text[k] EXCEPT !.lang = key.target]]
           all == keys \cup DOMAIN cache
           new == [key \in all |-> IF key \in keys THEN value(key) ELSE cache[key]]
<1>1. \A i \in sent : got[i] = spoken(KeyOf(i))
  <2> SUFFICES ASSUME NEW i \in sent PROVE got[i] = spoken(KeyOf(i))
    OBVIOUS
  <2>1. got[i] = Translated(segments[i])
    BY DEF AnswersOK, WorthStoring, AnswersTo
  <2>2. KeyOf(i).text = segments[i] /\ KeyOf(i).target = run.target
    BY DEF KeyOf
  <2> QED
    BY <2>1, <2>2 DEF Translated
<1>2. \A key \in keys : value(key) = spoken(key)
  <2> SUFFICES ASSUME NEW key \in keys PROVE value(key) = spoken(key)
    OBVIOUS
  <2> HIDE DEF spoken, sent
  <2>1. \E i \in sent : KeyOf(i) = key
    OBVIOUS
  <2>2. (CHOOSE i \in sent : KeyOf(i) = key) \in sent /\ KeyOf(CHOOSE i \in sent : KeyOf(i) = key) = key
    BY <2>1
  <2> QED
    BY <1>1, <2>2
<1>3. \A key \in DOMAIN cache : cache[key] = spoken(key)
  BY DEF AnswersOK, Truthful
<1>4. cache' = IF ok THEN new ELSE cache
  BY DEF Store
<1> HIDE DEF spoken, keys, value, sent
<1>5. DOMAIN cache' \subseteq all /\ \A key \in DOMAIN cache' : cache'[key] = spoken(key)
  <2>1. DOMAIN new = all /\ \A key \in all : new[key] = spoken(key)
    BY <1>2, <1>3
  <2> HIDE DEF new
  <2> QED
    BY <1>3, <1>4, <2>1
<1> QED
  BY <1>5 DEF Truthful, spoken

LEMMA TaskStoreKeeps ==
  ASSUME BatchInv, NEW b \in DOMAIN batches, NEW ok \in BOOLEAN, TaskStore(b, ok)
  PROVE  BatchInv'
<1> DEFINE t == [task[b] EXCEPT !.pc = "answered"]
<1>0. UNCHANGED <<given, single, got, results, doneBatches, failing, run, batches, segments>> /\ task[b].pc = "store"
  BY DEF TaskStore, given
<1>f. TasksOK /\ GivenOK /\ AnswersOK /\ task[b] \in Tasks /\ OwnWork(b) /\ BatchWork(b) /\ OwnCalls(b) /\ failing \in BOOLEAN
  BY OwnFacts
<1>g. /\ Range(task[b].misses) \subseteq Range(batches[b]) /\ DOMAIN task = DOMAIN batches
      /\ Range(batches[b]) \subseteq DOMAIN segments /\ got = [i \in DOMAIN segments |-> got[i]]
  BY OwnFacts
<1>1. t \in Tasks /\ t.pc = "answered" /\ t.misses = task[b].misses /\ t.calls = task[b].calls
      /\ t.format = task[b].format /\ t.failures = task[b].failures
  <2>1. "answered" \in TaskPcs
    BY DEF TaskPcs
  <2> QED
    BY <1>f, <2>1, RecordTo
<1>2. task' = [task EXCEPT ![b] = t]
  BY <1>f, <1>g DEF TaskStore, To
<1> HIDE DEF t
<1>3. task'[b] = t
  BY <1>2, <1>g
<1>4. \A i \in Range(batches[b]) : single[i].pc \in {"none", "done"} /\ got[i] # NoText
  BY <1>0, <1>f DEF BatchWork
<1>5. AnswersOK'
  <2>1. Truthful(cache')
    <3>1. Range(task[b].misses) \in SUBSET DOMAIN segments /\ \A i \in Range(task[b].misses) : got[i] # NoText
      BY <1>4, <1>g
    <3>2. Store(Range(task[b].misses), ok)
      BY DEF TaskStore
    <3> QED
      BY <1>f, <3>1, <3>2, StoreKeepsTruth
  <2> QED
    BY <1>0, <1>g, <2>1, AnswersKept
<1>6. OwnWork(b)'
  BY <1>0, <1>1, <1>3, <1>4 DEF OwnWork, BatchWork
<1>7. OwnCalls(b)'
  BY <1>0, <1>1, <1>3, <1>f DEF OwnCalls
<1> QED
  BY <1>0, <1>1, <1>2, <1>5, <1>6, <1>7, <1>f, <1>g, OwnStepKeeps

LEMMA BatchErrorKeeps ==
  ASSUME BatchInv, NEW b \in DOMAIN batches, NEW error, BatchError(b, error)
  PROVE  BatchInv'
<1>0. UNCHANGED <<given, single, got, results, cache, doneBatches, run, batches, segments>> /\ task[b].pc = "calling"
  BY DEF BatchError, given
<1>f. TasksOK /\ GivenOK /\ AnswersOK /\ task[b] \in Tasks /\ OwnWork(b) /\ BatchWork(b) /\ OwnCalls(b) /\ failing \in BOOLEAN
  BY OwnFacts
<1>g. /\ Range(task[b].misses) \subseteq Range(batches[b]) /\ DOMAIN task = DOMAIN batches /\ Retries \in Nat /\ Formats \in Nat
      /\ task[b].calls \in Nat /\ task[b].format \in 1 .. Formats /\ task[b].failures \in 0 .. Retries - 1
  BY OwnFacts, BatchConstants
<1>h. "ready" \in TaskPcs /\ "raised" \in TaskPcs
  BY DEF TaskPcs
<1>5. AnswersOK'
  BY <1>0, <1>f DEF AnswersOK, AnswersTo, Translated, Truthful
<1>1. \E t \in Tasks : /\ task' = [task EXCEPT ![b] = t] /\ failing' \in BOOLEAN /\ t.misses = task[b].misses /\ t.calls = task[b].calls
                       /\ \/ t.pc = "ready" /\ t.format + t.failures = task[b].format + task[b].failures + 1
                          \/ t.pc = "raised" /\ t.format + t.failures = task[b].format + task[b].failures
  <2>1. CASE error = "busy" /\ task[b].failures + 1 < Retries
    <3> DEFINE t == [task[b] EXCEPT !.pc = "ready", !.failures = @ + 1]
    <3>1. task' = [task EXCEPT ![b] = t] /\ failing' = failing
      BY <1>f, <1>g, <2>1 DEF BatchError, Tasks
    <3>2. t \in Tasks /\ t.pc = "ready" /\ t.misses = task[b].misses /\ t.format = task[b].format /\ t.failures = task[b].failures + 1 /\ t.calls = task[b].calls
      BY <1>f, <1>g, <1>h, <2>1, RecordFailed
    <3> HIDE DEF t
    <3>3. failing' \in BOOLEAN
      BY <1>f, <3>1
    <3>4. t.format + t.failures = task[b].format + task[b].failures + (IF t.pc = "ready" THEN 1 ELSE 0)
      BY <1>g, <3>2
    <3> QED
      BY <3>1, <3>2, <3>3, <3>4
  <2>2. CASE ~(error = "busy" /\ task[b].failures + 1 < Retries) /\ error = "rejected" /\ CanLoosen(b)
    <3> DEFINE t == [task[b] EXCEPT !.pc = "ready", !.format = @ + 1]
    <3>1. task' = [task EXCEPT ![b] = t] /\ failing' = failing
      BY <1>f, <1>g, <2>2 DEF BatchError, Tasks, Loosen
    <3>2. t \in Tasks /\ t.pc = "ready" /\ t.misses = task[b].misses /\ t.format = task[b].format + 1 /\ t.failures = task[b].failures /\ t.calls = task[b].calls
      BY <1>f, <1>g, <1>h, <2>2, RecordLooser DEF CanLoosen
    <3> HIDE DEF t
    <3>3. failing' \in BOOLEAN
      BY <1>f, <3>1
    <3>4. t.format + t.failures = task[b].format + task[b].failures + (IF t.pc = "ready" THEN 1 ELSE 0)
      BY <1>g, <3>2
    <3> QED
      BY <3>1, <3>2, <3>3, <3>4
  <2>3. CASE ~(error = "busy" /\ task[b].failures + 1 < Retries) /\ ~(error = "rejected" /\ CanLoosen(b))
    <3> DEFINE t == [task[b] EXCEPT !.pc = "raised"]
    <3>1. task' = [task EXCEPT ![b] = t] /\ failing' = TRUE
      BY <1>f, <1>g, <2>3 DEF BatchError, Raise, To
    <3>2. t \in Tasks /\ t.pc = "raised" /\ t.misses = task[b].misses /\ t.format = task[b].format /\ t.failures = task[b].failures /\ t.calls = task[b].calls
      BY <1>f, <1>h, RecordTo
    <3> HIDE DEF t
    <3>3. failing' \in BOOLEAN
      BY <1>f, <3>1
    <3>4. t.format + t.failures = task[b].format + task[b].failures + (IF t.pc = "ready" THEN 1 ELSE 0)
      BY <1>g, <3>2
    <3> QED
      BY <3>1, <3>2, <3>3, <3>4
  <2> QED
    BY <2>1, <2>2, <2>3
<1>2. PICK t \in Tasks : /\ task' = [task EXCEPT ![b] = t] /\ failing' \in BOOLEAN /\ t.misses = task[b].misses /\ t.calls = task[b].calls
                         /\ \/ t.pc = "ready" /\ t.format + t.failures = task[b].format + task[b].failures + 1
                            \/ t.pc = "raised" /\ t.format + t.failures = task[b].format + task[b].failures
  BY <1>1
<1>3. task'[b] = t
  BY <1>2, <1>g
<1>6. OwnWork(b)'
  <2>1. \A i \in Range(batches[b]) : single[i].pc = "none" /\ (i \notin Range(task[b].misses) => got[i] # NoText)
    BY <1>0, <1>f DEF BatchWork
  <2>2. task[b].misses # <<>>
    BY <1>0, <1>f DEF BatchWork
  <2>3. BatchWork(b)'
    BY <1>0, <1>2, <1>3, <2>1, <2>2 DEF BatchWork
  <2> QED
    BY <1>0, <2>1, <2>3 DEF OwnWork
<1>7. OwnCalls(b)'
  <2>1. task[b].calls <= task[b].format + task[b].failures
    BY <1>0, <1>f, <1>g DEF OwnCalls
  <2> QED
    <3>1. t.format \in Nat /\ t.failures \in Nat /\ t.calls \in Nat
      BY DEF Tasks
    <3> QED
      BY <1>2, <1>3, <1>g, <2>1, <3>1 DEF OwnCalls
<1> QED
  BY <1>0, <1>2, <1>5, <1>6, <1>7, <1>f, <1>g, OwnStepKeeps

\* A batch that falls back on one call for each of its misses.
LEMMA FallBackKeeps ==
  ASSUME BatchInv, NEW b \in DOMAIN batches, NEW misses \in Seq(Nat), Range(misses) \subseteq Range(batches[b]), FallBack(b, misses),
         UNCHANGED <<given, results, cache, doneBatches, failing>>, AnswersOK', task[b].pc \in {"waiting", "calling"},
         task[b].pc = "waiting" => Cardinality(Active) < run.concurrency,
         \A i \in DOMAIN segments : i \notin Range(batches[b]) => got'[i] = got[i],
         \A i \in Range(batches[b]) : i \notin Range(misses) => got'[i] # NoText
  PROVE  BatchInv'
<1>0. UNCHANGED <<given, results, cache, doneBatches, failing, run, batches, segments>>
  BY DEF given
<1>f. TasksOK /\ GivenOK /\ task[b] \in Tasks /\ OwnWork(b) /\ BatchWork(b) /\ OwnCalls(b) /\ failing \in BOOLEAN
  BY OwnFacts
<1>g. /\ Range(batches[b]) \subseteq DOMAIN segments
      /\ task[b].calls \in Nat /\ task[b].format \in 1 .. Formats /\ task[b].failures \in 0 .. Retries - 1
  BY OwnFacts
<1> DEFINE t == [task[b] EXCEPT !.pc = "singles", !.misses = misses]
<1>1. /\ TasksOK' /\ task'[b] = t /\ \A c \in DOMAIN batches : c # b => task'[c] = task[c]
      /\ \A i \in DOMAIN segments : IF i \in Range(misses) THEN single'[i].pc = "waiting" ELSE single'[i] = single[i]
  BY <1>0, FallsBack
<1>2. t.pc = "singles" /\ t.misses = misses /\ t.calls = task[b].calls /\ t.format = task[b].format /\ t.failures = task[b].failures
  <2>1. "singles" \in TaskPcs
    BY DEF TaskPcs
  <2>2. task[b] \in Tasks /\ misses \in Seq(Nat)
    BY <1>f
  <2> QED
    BY <2>1, <2>2 DEF Tasks
<1> HIDE DEF t
<1>3. OthersStay(b)
  <2>1. \A c \in DOMAIN batches : c # b => \A i \in Range(batches[c]) : i \in DOMAIN segments /\ i \notin Range(batches[b])
    BY <1>f, Placed
  <2> QED
    BY <1>1, <2>1 DEF OthersStay
<1>4. \A i \in Range(batches[b]) : single[i].pc = "none"
  BY <1>f DEF BatchWork
<1>6. OwnWork(b)'
  <2>1. \A i \in Range(batches[b]) : i \notin Range(misses) => single'[i].pc = "none"
    BY <1>1, <1>4, <1>g
  <2>2. \A i \in Range(batches[b]) : single'[i].pc \in {"none", "waiting"}
    BY <1>1, <1>4, <1>g
  <2> QED
    BY <1>0, <1>1, <1>2, <2>1, <2>2 DEF OwnWork, BatchWork
<1>7. OwnCalls(b)'
  <2>1. task[b].calls <= task[b].format + task[b].failures
    BY <1>f, <1>g DEF OwnCalls
  <2> QED
    BY <1>1, <1>2, <1>g, <2>1 DEF OwnCalls
<1>8. SlotsOK'
  <2>0. \A i \in DOMAIN segments : single'[i] = single[i] \/ single'[i].pc = "waiting"
    BY <1>1
  <2>1. (Cardinality(AtWork) <= run.concurrency)'
    <3>1. CASE task[b].pc = "calling"
      BY <1>0, <1>1, <3>1, FewerAtWork
    <3>2. CASE task[b].pc = "waiting"
      <4>1. AtWork' \in SUBSET (AtWork \cup {b})
        BY <1>0, <1>1 DEF AtWork
      <4>2. IsFiniteSet(AtWork) /\ Active = AtWork /\ run.concurrency \in Nat
        BY <1>f, SlotsCounted, Settings
      <4>3. Cardinality(AtWork') <= Cardinality(AtWork) + 1 /\ Cardinality(AtWork') \in Nat /\ Cardinality(AtWork) \in Nat
        BY <4>1, <4>2, CardOneMore
      <4> QED
        BY <1>0, <3>2, <4>2, <4>3
    <3> QED
      BY <3>1, <3>2
  <2>2. (\A c \in DOMAIN batches : Cardinality(Busy(c)) <= 4)'
    BY <1>0, <2>0, FewerBusy
  <2>3. (Cardinality(CallingTasks) + Cardinality(CallingSingles) <= run.inflight)'
    BY <1>0, <1>1, <1>2, <2>0, FewerCalls
  <2> QED
    BY <2>1, <2>2, <2>3 DEF SlotsOK
<1> QED
  BY <1>0, <1>1, <1>2, <1>3, <1>6, <1>7, <1>8, <1>f, BatchInvKept

LEMMA BatchReplyKeeps ==
  ASSUME BatchInv, NEW b \in DOMAIN batches, NEW shape \in run.replies, BatchReply(b, shape)
  PROVE  BatchInv'
<1> DEFINE misses == task[b].misses
           n == Len(misses)
           texts == [k \in 1 .. n |-> Translated(segments[misses[k]])]
           parsed == Parse(RepliesTo(texts)[shape], n)
           position(i) == CHOOSE k \in 1 .. n : misses[k] = i
<1>0. UNCHANGED <<given, results, cache, doneBatches, failing, run, batches, segments>> /\ task[b].pc = "calling"
  BY DEF BatchReply, given
<1>f. TasksOK /\ GivenOK /\ AnswersOK /\ task[b] \in Tasks /\ OwnWork(b) /\ BatchWork(b) /\ OwnCalls(b) /\ failing \in BOOLEAN
  BY OwnFacts
<1>g. /\ Range(misses) \subseteq Range(batches[b]) /\ DOMAIN task = DOMAIN batches /\ Range(batches[b]) \subseteq DOMAIN segments
      /\ task[b].calls \in Nat /\ task[b].format \in 1 .. Formats /\ task[b].failures \in 0 .. Retries - 1
      /\ misses \in Seq(Nat) /\ got = [i \in DOMAIN segments |-> got[i]] /\ Formats \in Nat
  BY OwnFacts, BatchConstants
<1>h. misses # <<>> /\ \A i \in Range(batches[b]) : single[i].pc = "none" /\ (i \notin Range(misses) => got[i] # NoText)
  BY <1>0, <1>f DEF BatchWork
<1>k. Truthful(cache')
  BY <1>0, <1>f DEF AnswersOK
<1>c. task[b].calls <= task[b].format + task[b].failures
  BY <1>0, <1>f, <1>g DEF OwnCalls
<1>1. CASE parsed # NotParsed
  <2> DEFINE t == [task[b] EXCEPT !.pc = "store"]
  <2>1. t \in Tasks /\ t.pc = "store" /\ t.misses = task[b].misses /\ t.calls = task[b].calls
        /\ t.format = task[b].format /\ t.failures = task[b].failures
    <3>1. "store" \in TaskPcs
      BY DEF TaskPcs
    <3> QED
      BY <1>f, <3>1, RecordTo
  <2>2. /\ task' = [task EXCEPT ![b] = t] /\ UNCHANGED single
        /\ got' = [i \in DOMAIN got |-> IF i \in Range(misses) THEN parsed[position(i)] ELSE got[i]]
    <3>1. /\ got' = [i \in DOMAIN got |-> IF i \in Range(Places(b)) THEN parsed[CHOOSE k \in 1 .. n : Places(b)[k] = i] ELSE got[i]]
          /\ To(b, "store") /\ UNCHANGED single
      BY <1>1 DEF BatchReply
    <3>2. Places(b) = misses
      BY DEF Places
    <3>3. task' = [task EXCEPT ![b] = t]
      BY <1>f, <1>g, <3>1 DEF To
    <3> QED
      BY <3>1, <3>2, <3>3
  <2>3. task'[b] = t
    BY <1>g, <2>2
  <2>4. \A i \in Range(misses) : parsed[position(i)] \in {<<>>, Translated(segments[i])}
    <3>1. n \in Nat \ {0} /\ DOMAIN misses = 1 .. n
      BY <1>g, <1>h
    <3>2. \A k \in 1 .. n : Translated(segments[misses[k]]) \in TextType
      <4>1. \A k \in 1 .. n : misses[k] \in Range(misses)
        BY <3>1 DEF Range
      <4> QED
        BY <1>f, <1>g, <4>1, SegmentsAreTexts
    <3>3. texts \in Seq(TextType) /\ Len(texts) = n
      BY <3>1, <3>2
    <3>4. shape \in Shapes
      BY <1>f, Settings
    <3>5. Gives(texts, n, parsed)
      <4> HIDE DEF texts, n
      <4> QED
        BY <3>1, <3>3, <3>4, RepliesGive
    <3> HIDE DEF parsed
    <3>6. \A k \in 1 .. n : parsed[k] \in {Translated(segments[misses[k]]), <<>>}
      BY <1>1, <3>5 DEF Gives
    <3>7. \A i \in Range(misses) : position(i) \in 1 .. n /\ misses[position(i)] = i
      <4> SUFFICES ASSUME NEW i \in Range(misses) PROVE position(i) \in 1 .. n /\ misses[position(i)] = i
        OBVIOUS
      <4>1. \E k \in 1 .. n : misses[k] = i
        BY <3>1 DEF Range
      <4> QED
        BY <4>1
    <3> HIDE DEF position, n, misses
    <3> QED
      BY <3>6, <3>7
  <2> HIDE DEF t, parsed, position
  <2>5. got' = [i \in DOMAIN segments |-> got'[i]] /\ \A i \in DOMAIN segments : got'[i] = IF i \in Range(misses) THEN parsed[position(i)] ELSE got[i]
    BY <1>g, <2>2
  <2>6. \A i \in Range(misses) : got'[i] # NoText
    <3>1. \A i \in Range(misses) : got'[i] \in TextType
      <4>1. <<>> \in TextType /\ \A i \in Range(misses) : Translated(segments[i]) \in TextType
        BY <1>f, <1>g, SegmentsAreTexts DEF TextType
      <4> QED
        BY <1>g, <2>4, <2>5, <4>1
    <3> QED
      BY <3>1, NoTextIsNone
  <2>7. AnswersOK'
    <3>1. \A i \in DOMAIN segments : got'[i] \in {got[i]} \cup AnswersTo(i)
      BY <1>g, <2>4, <2>5 DEF AnswersTo
    <3> QED
      BY <1>0, <1>k, <2>5, <3>1, AnswersKept
  <2>8. OwnWork(b)'
    <3>1. \A i \in Range(batches[b]) : got'[i] # NoText
      BY <1>g, <1>h, <2>5, <2>6
    <3> QED
      BY <1>0, <1>h, <2>1, <2>2, <2>3, <3>1 DEF OwnWork, BatchWork
  <2>9. OwnCalls(b)'
    BY <1>c, <1>g, <2>1, <2>3 DEF OwnCalls
  <2>10. \A i \in DOMAIN segments : i \notin Range(batches[b]) => got'[i] = got[i]
    BY <1>g, <2>5
  <2>11. UNCHANGED <<given, single, results, doneBatches>> /\ failing' \in BOOLEAN
    BY <1>0, <1>f, <2>2
  <2>12. Range(t.misses) \subseteq Range(batches[b]) /\ task[b].pc \notin {"waiting", "finished", "raised"} /\ t.pc \notin {"calling", "finished"}
    BY <1>0, <1>g, <2>1
  <2> QED
    BY <2>1, <2>2, <2>7, <2>8, <2>9, <2>10, <2>11, <2>12, OwnStepKeeps
<1>2. CASE parsed = NotParsed /\ CanLoosen(b)
  <2> DEFINE t == [task[b] EXCEPT !.pc = "ready", !.format = @ + 1]
  <2>1. t \in Tasks /\ t.pc = "ready" /\ t.misses = task[b].misses /\ t.format = task[b].format + 1 /\ t.failures = task[b].failures /\ t.calls = task[b].calls
    <3>1. "ready" \in TaskPcs
      BY DEF TaskPcs
    <3> QED
      BY <1>f, <1>g, <1>2, <3>1, RecordLooser DEF CanLoosen
  <2>2. task' = [task EXCEPT ![b] = t] /\ UNCHANGED <<single, got>>
    <3>1. Loosen(b) /\ UNCHANGED <<single, got>>
      BY <1>2 DEF BatchReply
    <3> QED
      BY <1>f, <1>g, <3>1 DEF Loosen, Tasks
  <2> HIDE DEF t
  <2>3. task'[b] = t
    BY <1>g, <2>2
  <2>7. AnswersOK'
    BY <1>0, <1>f, <2>2 DEF AnswersOK, AnswersTo, Translated, Truthful
  <2>8. OwnWork(b)'
    BY <1>0, <1>h, <2>1, <2>2, <2>3 DEF OwnWork, BatchWork
  <2>9. OwnCalls(b)'
    BY <1>c, <1>g, <2>1, <2>3 DEF OwnCalls
  <2>10. failing' \in BOOLEAN
    BY <1>0, <1>f
  <2> QED
    BY <1>0, <1>g, <2>1, <2>2, <2>7, <2>8, <2>9, <2>10, OwnStepKeeps
<1>3. CASE parsed = NotParsed /\ ~CanLoosen(b)
  <2>1. FallBack(b, misses) /\ UNCHANGED got
    BY <1>3 DEF BatchReply
  <2>2. AnswersOK'
    BY <1>0, <1>f, <2>1 DEF AnswersOK, AnswersTo, Translated, Truthful
  <2> HIDE DEF misses
  <2>3. misses \in Seq(Nat) /\ Range(misses) \subseteq Range(batches[b])
    BY <1>g
  <2> QED
    BY <1>0, <1>h, <2>1, <2>2, <2>3, FallBackKeeps
<1> HIDE DEF parsed
<1> QED
  BY <1>1, <1>2, <1>3

\* What the cache knows of a segment is an answer to it.
LEMMA KnownIsAnswer ==
  ASSUME GivenOK, Truthful(cache), NEW is \in SUBSET DOMAIN segments, NEW ok \in BOOLEAN, NEW i \in Found(is, ok)
  PROVE  i \in is /\ Known(i) \in AnswersTo(i) /\ Known(i) # NoText
<1>1. i \in is /\ (segments[i] = <<>> \/ KeyOf(i) \in DOMAIN cache)
  BY DEF Found
<1>2. Known(i) \in {<<>>, Translated(segments[i])}
  <2>1. CASE segments[i] = <<>>
    BY <2>1 DEF Known
  <2>2. CASE segments[i] # <<>>
    <3>1. KeyOf(i).text = segments[i] /\ KeyOf(i).target = run.target
      BY DEF KeyOf
    <3>2. cache[KeyOf(i)] = [k \in DOMAIN KeyOf(i).text |-> [KeyOf(i).text[k] EXCEPT !.lang = KeyOf(i).target]]
      BY <1>1, <2>2 DEF Truthful
    <3> QED
      BY <2>2, <3>1, <3>2 DEF Known, Translated
  <2> QED
    BY <2>1, <2>2
<1>3. <<>> \in TextType /\ Translated(segments[i]) \in TextType
  BY <1>1, SegmentsAreTexts DEF TextType
<1> QED
  BY <1>1, <1>2, <1>3, NoTextIsNone DEF AnswersTo

LEMMA Taken ==
  ASSUME BatchInv, NEW is \in SUBSET DOMAIN segments, NEW ok \in BOOLEAN, Take(Found(is, ok)), UNCHANGED <<given, cache>>
  PROVE  /\ AnswersOK' /\ Found(is, ok) \subseteq is
         /\ \A i \in DOMAIN segments : IF i \in Found(is, ok) THEN got'[i] # NoText ELSE got'[i] = got[i]
<1> DEFINE found == Found(is, ok)
<1>1. GivenOK /\ AnswersOK /\ Truthful(cache) /\ DOMAIN got = DOMAIN segments
  BY DEF BatchInv, AnswersOK
<1>2. \A i \in found : i \in is /\ Known(i) \in AnswersTo(i) /\ Known(i) # NoText
  BY <1>1, KnownIsAnswer
<1> HIDE DEF found
<1>3. got' = [i \in DOMAIN segments |-> IF i \in found THEN Known(i) ELSE got[i]]
  BY <1>1 DEF Take, found
<1>4. \A i \in DOMAIN segments : got'[i] = IF i \in found THEN Known(i) ELSE got[i]
  BY <1>3
<1>5. \A i \in DOMAIN segments : got'[i] \in {got[i]} \cup AnswersTo(i)
  BY <1>2, <1>4
<1>6. Truthful(cache') /\ got' = [i \in DOMAIN segments |-> got'[i]] /\ UNCHANGED given
  BY <1>1, <1>3
<1>7. AnswersOK'
  BY <1>5, <1>6, AnswersKept
<1> QED
  BY <1>2, <1>4, <1>7 DEF found

LEMMA TaskStartKeeps ==
  ASSUME BatchInv, NEW b \in DOMAIN batches, NEW ok \in BOOLEAN, TaskStart(b, ok)
  PROVE  BatchInv'
<1> DEFINE all == Range(batches[b])
           found == Found(all, ok)
           misses == Missing(batches[b], found)
<1>0. /\ UNCHANGED <<given, results, cache, doneBatches, failing, run, batches, segments>> /\ task[b].pc = "waiting"
      /\ Cardinality(Active) < run.concurrency
  BY DEF TaskStart, given
<1>f. TasksOK /\ GivenOK /\ AnswersOK /\ task[b] \in Tasks /\ OwnWork(b) /\ BatchWork(b) /\ OwnCalls(b) /\ failing \in BOOLEAN
  BY OwnFacts
<1>g. /\ all \subseteq DOMAIN segments /\ DOMAIN task = DOMAIN batches
      /\ task[b].calls \in Nat /\ task[b].format \in 1 .. Formats /\ task[b].failures \in 0 .. Retries - 1
  BY OwnFacts
<1>h. \A i \in all : single[i].pc = "none" /\ got[i] = NoText
  BY <1>0, <1>f DEF BatchWork
<1>b. batches[b] \in Seq(Nat)
  BY <1>f, Placed
<1>1. CASE Len(batches[b]) = 1
  <2>1. FallBack(b, batches[b]) /\ UNCHANGED got
    BY <1>1 DEF TaskStart
  <2>2. AnswersOK'
    BY <1>0, <1>f, <2>1 DEF AnswersOK, AnswersTo, Translated, Truthful
  <2> QED
    BY <1>0, <1>b, <2>1, <2>2, FallBackKeeps
<1>2. CASE Len(batches[b]) # 1
  <2>1. /\ Take(found)
        /\ CASE misses = <<>> -> To(b, "answered") /\ UNCHANGED single
             [] Len(misses) = 1 -> FallBack(b, misses)
             [] OTHER -> task' = [task EXCEPT ![b].pc = "ready", ![b].misses = misses] /\ UNCHANGED single
    BY <1>2 DEF TaskStart
  <2>2. /\ AnswersOK' /\ found \subseteq all
        /\ \A i \in DOMAIN segments : IF i \in found THEN got'[i] # NoText ELSE got'[i] = got[i]
    BY <1>0, <1>g, <2>1, Taken
  <2>3. misses \in Seq(Nat) /\ Range(misses) = all \ found
    BY <1>b, MissingRange
  <2> HIDE DEF found, misses, all
  <2>4. /\ \A i \in DOMAIN segments : i \notin all => got'[i] = got[i]
        /\ \A i \in all : i \notin Range(misses) => got'[i] # NoText
    BY <1>g, <2>2, <2>3
  <2>5. CASE misses # <<>> /\ Len(misses) = 1
    <3>1. FallBack(b, misses)
      BY <2>1, <2>5
    <3> QED
      BY <1>0, <2>2, <2>3, <2>4, <3>1, FallBackKeeps DEF all
  <2>6. CASE misses = <<>> \/ Len(misses) # 1
    <3> DEFINE p == IF misses = <<>> THEN "answered" ELSE "ready"
               ms == IF misses = <<>> THEN task[b].misses ELSE misses
               t == [task[b] EXCEPT !.pc = p, !.misses = ms]
    <3>1. t \in Tasks /\ t.pc = p /\ t.misses = ms /\ t.calls = task[b].calls /\ t.format = task[b].format /\ t.failures = task[b].failures
      <4>1. p \in TaskPcs
        BY DEF TaskPcs
      <4>2. ms \in Seq(Nat)
        BY <1>f, <2>3 DEF Tasks
      <4>3. task[b] \in Tasks
        BY <1>f
      <4> HIDE DEF p, ms
      <4> QED
        BY <4>1, <4>2, <4>3 DEF Tasks
    <3>2. task' = [task EXCEPT ![b] = t] /\ UNCHANGED single
      <4>1. CASE misses = <<>>
        <5>1. t = [task[b] EXCEPT !.pc = "answered"]
          <6>1. task[b] \in Tasks
            BY <1>f
          <6> QED
            BY <4>1, <6>1 DEF Tasks
        <5> QED
          BY <1>f, <1>g, <2>1, <4>1, <5>1 DEF To
      <4>2. CASE misses # <<>>
        <5>1. task' = [task EXCEPT ![b].pc = "ready", ![b].misses = misses] /\ UNCHANGED single
          BY <2>1, <2>6, <4>2
        <5> QED
          BY <1>f, <1>g, <4>2, <5>1 DEF Tasks
      <4> QED
        BY <4>1, <4>2
    <3>3. Range(ms) \subseteq Range(batches[b]) /\ p \in {"answered", "ready"} /\ (p = "ready" => ms = misses /\ misses # <<>>)
          /\ (p = "answered" => misses = <<>>)
      <4>1. Range(task[b].misses) \subseteq Range(batches[b])
        BY OwnFacts
      <4> QED
        BY <2>3, <4>1 DEF all
    <3> HIDE DEF t, p, ms
    <3>4. TasksOK' /\ task'[b] = t /\ \A c \in DOMAIN batches : c # b => task'[c] = task[c]
      <4>1. single' \in [DOMAIN segments -> Singles]
        BY <1>f, <3>2 DEF TasksOK
      <4> QED
        BY <1>0, <3>1, <3>2, <3>3, <4>1, TaskMoved
    <3>5. OthersStay(b)
      <4>1. \A c \in DOMAIN batches : c # b => \A i \in Range(batches[c]) : i \in DOMAIN segments /\ i \notin Range(batches[b])
        BY <1>f, Placed
      <4> QED
        BY <2>4, <3>2, <3>4, <4>1 DEF OthersStay, all
    <3>6. OwnWork(b)'
      <4>1. misses = <<>> => Range(misses) = {}
        BY DEF Range
      <4>2. \A i \in Range(batches[b]) : single'[i].pc = "none" /\ (i \notin Range(misses) => got'[i] # NoText)
        BY <1>h, <2>4, <3>2 DEF all
      <4> QED
        BY <1>0, <3>1, <3>3, <3>4, <4>1, <4>2 DEF OwnWork, BatchWork
    <3>7. OwnCalls(b)'
      <4>1. task[b].calls <= task[b].format + task[b].failures - 1
        BY <1>0, <1>f DEF OwnCalls
      <4> QED
        BY <1>g, <3>1, <3>4, <4>1 DEF OwnCalls
    <3>8. SlotsOK'
      <4>1. (Cardinality(AtWork) <= run.concurrency)'
        <5>1. AtWork' \in SUBSET (AtWork \cup {b})
          BY <1>0, <3>4 DEF AtWork
        <5>2. IsFiniteSet(AtWork) /\ Active = AtWork /\ run.concurrency \in Nat
          BY <1>f, SlotsCounted, Settings
        <5>3. Cardinality(AtWork') <= Cardinality(AtWork) + 1 /\ Cardinality(AtWork') \in Nat /\ Cardinality(AtWork) \in Nat
          BY <5>1, <5>2, CardOneMore
        <5> QED
          BY <1>0, <5>2, <5>3
      <4>2. (\A c \in DOMAIN batches : Cardinality(Busy(c)) <= 4)'
        BY <1>0, <3>2, FewerBusy
      <4>3. (Cardinality(CallingTasks) + Cardinality(CallingSingles) <= run.inflight)'
        BY <1>0, <3>1, <3>2, <3>3, <3>4, FewerCalls
      <4> QED
        BY <4>1, <4>2, <4>3 DEF SlotsOK
    <3>9. task[b].pc # "finished" /\ task'[b].pc # "finished" /\ failing' \in BOOLEAN
      BY <1>0, <1>f, <3>1, <3>3, <3>4
    <3> QED
      BY <1>0, <2>2, <3>4, <3>5, <3>6, <3>7, <3>8, <3>9, BatchInvKept
  <2> QED
    BY <2>5, <2>6
<1> QED
  BY <1>1, <1>2

LEMMA TaskFinishKeeps ==
  ASSUME BatchInv, NEW b \in DOMAIN batches, TaskFinish(b)
  PROVE  BatchInv'
<1> DEFINE t == [task[b] EXCEPT !.pc = "finished"]
<1>0. /\ UNCHANGED <<given, single, got, cache, failing, run, batches, segments>> /\ task[b].pc = "answered"
      /\ doneBatches' = doneBatches + 1
      /\ results' = [i \in DOMAIN results |-> IF i \in Range(batches[b]) THEN got[i] ELSE results[i]]
  BY DEF TaskFinish, given
<1>f. TasksOK /\ GivenOK /\ AnswersOK /\ task[b] \in Tasks /\ OwnWork(b) /\ BatchWork(b) /\ OwnCalls(b) /\ failing \in BOOLEAN
  BY OwnFacts
<1>g. /\ Range(task[b].misses) \subseteq Range(batches[b]) /\ DOMAIN task = DOMAIN batches
      /\ Range(batches[b]) \subseteq DOMAIN segments
  BY OwnFacts
<1>1. t \in Tasks /\ t.pc = "finished" /\ t.misses = task[b].misses /\ t.calls = task[b].calls
      /\ t.format = task[b].format /\ t.failures = task[b].failures
  <2>1. "finished" \in TaskPcs
    BY DEF TaskPcs
  <2> QED
    BY <1>f, <2>1, RecordTo
<1>2. task' = [task EXCEPT ![b] = t]
  BY <1>f, <1>g DEF TaskFinish, To
<1> HIDE DEF t
<1>3. TasksOK' /\ task'[b] = t /\ \A c \in DOMAIN batches : c # b => task'[c] = task[c]
  <2>1. single' \in [DOMAIN segments -> Singles]
    BY <1>0, <1>f DEF TasksOK
  <2> QED
    BY <1>0, <1>1, <1>2, <1>g, <2>1, TaskMoved
<1>4. GivenOK'
  BY <1>0, <1>f DEF GivenOK
<1>5. AnswersOK'
  BY <1>0, <1>f DEF AnswersOK, AnswersTo, Translated, Truthful
<1>6. Work'
  <2>1. ASSUME NEW c \in DOMAIN batches PROVE BatchWork(c)'
    <3>1. CASE c = b
      <4>1. \A i \in Range(batches[b]) : single[i].pc \in {"none", "done"} /\ got[i] # NoText
        BY <1>0, <1>f DEF BatchWork
      <4> QED
        BY <1>0, <1>1, <1>3, <3>1, <4>1 DEF BatchWork
    <3>2. CASE c # b
      <4>1. BatchWork(c) /\ task'[c] = task[c]
        BY <1>3, <3>2 DEF BatchInv, Work
      <4> QED
        BY <1>0, <4>1 DEF BatchWork
    <3> QED
      BY <3>1, <3>2
  <2> QED
    BY <1>0, <2>1 DEF BatchInv, Work
<1>7. ResultsOK'
  <2>1. results \in [DOMAIN segments -> TextType \cup {NoText}] /\ got \in [DOMAIN segments -> TextType \cup {NoText}]
    BY DEF BatchInv, ResultsOK, AnswersOK
  <2>2. results' \in [DOMAIN segments -> TextType \cup {NoText}]
    BY <1>0, <2>1
  <2>3. ASSUME NEW c \in DOMAIN batches, NEW i \in Range(batches[c])
        PROVE  results'[i] = IF task'[c].pc = "finished" THEN got[i] ELSE NoText
    <3>1. i \in DOMAIN segments /\ (c # b => i \notin Range(batches[b]))
      BY <1>f, Placed
    <3>2. results[i] = IF task[c].pc = "finished" THEN got[i] ELSE NoText
      BY DEF BatchInv, ResultsOK
    <3> QED
      BY <1>0, <1>1, <1>3, <2>1, <3>1, <3>2
  <2> QED
    BY <1>0, <2>2, <2>3 DEF ResultsOK
<1>8. CountOK'
  <2>1. Finished' = Finished \cup {b} /\ b \notin Finished
    BY <1>0, <1>1, <1>3 DEF Finished
  <2>2. IsFiniteSet(Finished)
    <3>1. IsFiniteSet(DOMAIN batches) /\ Finished \subseteq DOMAIN batches
      BY <1>f, Placed DEF Finished
    <3> QED
      BY <3>1, FS_Subset
  <2>3. Cardinality(Finished \cup {b}) = Cardinality(Finished) + 1
    BY <2>1, <2>2, FS_AddElement
  <2> QED
    BY <1>0, <2>1, <2>3 DEF BatchInv, CountOK
<1>9. CallsOK'
  <2>1. ASSUME NEW c \in DOMAIN batches PROVE OwnCalls(c)'
    <3>1. OwnCalls(c)
      BY DEF BatchInv, CallsOK, OwnCalls
    <3> QED
      BY <1>0, <1>1, <1>3, <3>1 DEF OwnCalls
  <2> QED
    BY <1>0, <2>1 DEF CallsOK, OwnCalls
<1>10. SlotsOK'
  <2>1. (Cardinality(AtWork) <= run.concurrency)'
    BY <1>0, <1>1, <1>3, FewerAtWork
  <2>2. (\A c \in DOMAIN batches : Cardinality(Busy(c)) <= 4)'
    BY <1>0, FewerBusy
  <2>3. (Cardinality(CallingTasks) + Cardinality(CallingSingles) <= run.inflight)'
    BY <1>0, <1>1, <1>3, FewerCalls
  <2> QED
    BY <2>1, <2>2, <2>3 DEF SlotsOK
<1> QED
  BY <1>3, <1>4, <1>5, <1>6, <1>7, <1>8, <1>9, <1>10 DEF BatchInv

-----------------------------------------------------------------------------
(* The steps of a call for one segment *)

SingleMoved(i, s) ==
  /\ i \in DOMAIN segments /\ s \in Singles /\ single' = [single EXCEPT ![i] = s]
  /\ single[i].pc \in {"waiting", "ready", "calling", "put"}
  /\ UNCHANGED <<given, results, doneBatches>>
  /\ \A j \in DOMAIN segments : j # i => got'[j] = got[j]
  /\ s.pc \in {"put", "done"} => got'[i] # NoText

LEMMA SingleMoves ==
  ASSUME BatchInv, NEW i, NEW s, SingleMoved(i, s)
  PROVE  /\ BatchOf(i) \in DOMAIN batches /\ i \in Range(batches[BatchOf(i)]) /\ GivenOK /\ TasksOK /\ AnswersOK
         /\ task[BatchOf(i)].pc \in {"singles", "raised"}
         /\ single' \in [DOMAIN segments -> Singles] /\ single'[i] = s /\ \A j \in DOMAIN segments : j # i => single'[j] = single[j]
         /\ UNCHANGED <<run, segments, batches>>
<1>1. GivenOK /\ TasksOK /\ AnswersOK /\ i \in DOMAIN segments /\ single \in [DOMAIN segments -> Singles] /\ UNCHANGED <<run, segments, batches>>
  BY DEF BatchInv, SingleMoved, TasksOK, given
<1>2. BatchOf(i) \in DOMAIN batches /\ i \in Range(batches[BatchOf(i)])
  BY <1>1, Placed
<1>3. single' \in [DOMAIN segments -> Singles] /\ single'[i] = s /\ \A j \in DOMAIN segments : j # i => single'[j] = single[j]
  <2> HIDE DEF Singles
  <2> QED
    BY <1>1 DEF SingleMoved
<1>4. task[BatchOf(i)].pc \in {"singles", "raised"}
  <2> DEFINE b == BatchOf(i)
  <2>1. BatchWork(b) /\ task[b].pc \in TaskPcs
    BY <1>1, <1>2 DEF BatchInv, Work, TasksOK, Tasks
  <2>2. i \in Range(batches[b]) /\ single[i].pc \in {"waiting", "ready", "calling", "put"}
    BY <1>2 DEF SingleMoved
  <2> HIDE DEF b
  <2>3. task[b].pc \in {"waiting", "ready", "calling"} => single[i].pc = "none"
    BY <2>1, <2>2 DEF BatchWork
  <2>4. task[b].pc \in {"store", "answered", "finished"} => single[i].pc \in {"none", "done"}
    BY <2>1, <2>2 DEF BatchWork
  <2> QED
    BY <2>1, <2>2, <2>3, <2>4 DEF TaskPcs, b
<1> QED
  BY <1>1, <1>2, <1>3, <1>4

LEMMA SingleStepKeeps ==
  ASSUME BatchInv, NEW i, NEW s, SingleMoved(i, s), AnswersOK', SlotsOK',
         UNCHANGED <<task, failing>> \/ Raise(BatchOf(i))
  PROVE  BatchInv'
<1>0. PICK b : b = BatchOf(i)
  OBVIOUS
<1>1. /\ b \in DOMAIN batches /\ i \in Range(batches[b]) /\ GivenOK /\ TasksOK
      /\ task[b].pc \in {"singles", "raised"}
      /\ single' \in [DOMAIN segments -> Singles] /\ single'[i] = s /\ \A j \in DOMAIN segments : j # i => single'[j] = single[j]
      /\ UNCHANGED <<run, segments, batches>>
  BY <1>0, SingleMoves
<1>f. /\ task[b] \in Tasks /\ OwnWork(b) /\ BatchWork(b) /\ OwnCalls(b) /\ failing \in BOOLEAN
      /\ Range(task[b].misses) \subseteq Range(batches[b]) /\ DOMAIN task = DOMAIN batches /\ Range(batches[b]) \subseteq DOMAIN segments
  BY <1>1, OwnFacts
<1>2. \E t \in Tasks : /\ task' = [task EXCEPT ![b] = t] /\ t.misses = task[b].misses /\ t.calls = task[b].calls
                       /\ t.format = task[b].format /\ t.failures = task[b].failures /\ (t.pc = task[b].pc \/ t.pc = "raised")
  <2>1. CASE UNCHANGED <<task, failing>>
    <3>1. task' = [task EXCEPT ![b] = task[b]]
      BY <1>1, <2>1 DEF TasksOK
    <3> QED
      BY <1>f, <3>1
  <2>2. CASE Raise(b)
    <3> DEFINE t == [task[b] EXCEPT !.pc = "raised"]
    <3>1. task' = [task EXCEPT ![b] = t]
      BY <1>f, <2>2 DEF Raise, To
    <3>2. t \in Tasks /\ t.pc = "raised" /\ t.misses = task[b].misses /\ t.format = task[b].format /\ t.failures = task[b].failures /\ t.calls = task[b].calls
      <4>1. "raised" \in TaskPcs
        BY DEF TaskPcs
      <4> QED
        BY <1>f, <4>1, RecordTo
    <3> HIDE DEF t
    <3> QED
      BY <3>1, <3>2
  <2> QED
    BY <1>0, <2>1, <2>2
<1>3. PICK t \in Tasks : /\ task' = [task EXCEPT ![b] = t] /\ t.misses = task[b].misses /\ t.calls = task[b].calls
                         /\ t.format = task[b].format /\ t.failures = task[b].failures /\ (t.pc = task[b].pc \/ t.pc = "raised")
  BY <1>2
<1>4. failing' \in BOOLEAN
  <2>1. CASE UNCHANGED <<task, failing>>
    BY <1>f, <2>1
  <2>2. CASE Raise(BatchOf(i))
    BY <2>2 DEF Raise
  <2> QED
    BY <2>1, <2>2
<1>5. UNCHANGED <<given, results, doneBatches>> /\ \A j \in DOMAIN segments : j # i => got'[j] = got[j]
  BY DEF SingleMoved
<1>6. TasksOK' /\ task'[b] = t /\ \A c \in DOMAIN batches : c # b => task'[c] = task[c]
  BY <1>1, <1>3, <1>5, <1>f, TaskMoved
<1>7. OthersStay(b)
  <2>1. \A c \in DOMAIN batches : c # b => \A j \in Range(batches[c]) : j \in DOMAIN segments /\ j # i
    BY <1>1, Placed
  <2> QED
    BY <1>1, <1>5, <1>6, <2>1 DEF OthersStay
<1>8. OwnWork(b)'
  <2>1. \A j \in Range(batches[b]) : single'[j].pc \in {"put", "done"} => got'[j] # NoText
    BY <1>1, <1>5, <1>f DEF OwnWork, SingleMoved
  <2>2. task[b].pc = "singles" => i \in Range(task[b].misses)
    <3>1. single[i].pc # "none"
      BY DEF SingleMoved
    <3> QED
      BY <1>1, <1>f, <3>1 DEF BatchWork
  <2>3. task[b].pc = "singles" => \A j \in Range(batches[b]) : j \notin Range(task[b].misses) => single'[j].pc = "none" /\ got'[j] # NoText
    BY <1>1, <1>5, <1>f, <2>2 DEF BatchWork
  <2>4. task'[b].pc \in {"singles", "raised"} /\ (task'[b].pc = "singles" => task[b].pc = "singles") /\ task'[b].misses = task[b].misses
    BY <1>1, <1>3, <1>6
  <2>5. batches'[b] = batches[b]
    BY <1>1
  <2>6. BatchWork(b)'
    BY <2>3, <2>4, <2>5 DEF BatchWork
  <2> QED
    BY <2>1, <2>5, <2>6 DEF OwnWork
<1>9. OwnCalls(b)'
  <2>1. task[b].calls <= task[b].format + task[b].failures - 0
    BY <1>1, <1>f DEF OwnCalls
  <2>2. task'[b].calls <= task'[b].format + task'[b].failures - 0 /\ task'[b].pc \in {"singles", "raised"}
    BY <1>1, <1>3, <1>6, <2>1
  <2> QED
    BY <2>2 DEF OwnCalls
<1>10. task[b].pc # "finished" /\ task'[b].pc # "finished" /\ b \in DOMAIN batches
  BY <1>1, <1>3, <1>6
<1>11. UNCHANGED <<given, results, doneBatches>> /\ TasksOK'
  BY <1>5, <1>6
<1> QED
  BY <1>4, <1>7, <1>8, <1>9, <1>10, <1>11, BatchInvKept

\* The semaphores where a call for one segment takes no new slot.
LEMMA SingleSlots ==
  ASSUME BatchInv, NEW i, NEW s, SingleMoved(i, s), UNCHANGED task \/ Raise(BatchOf(i)),
         s.pc \in {"ready", "calling", "put"} => single[i].pc \in {"ready", "calling", "put"}
  PROVE  /\ (Cardinality(AtWork) <= run.concurrency)'
         /\ (\A b \in DOMAIN batches : Cardinality(Busy(b)) <= 4)'
         /\ s.pc # "calling" => SlotsOK'
<1>1. /\ TasksOK /\ single'[i] = s /\ \A j \in DOMAIN segments : j # i => single'[j] = single[j]
      /\ UNCHANGED <<run, segments, batches, given>> /\ BatchOf(i) \in DOMAIN batches
  BY SingleMoves DEF SingleMoved
<1>2. \A b \in DOMAIN batches : task'[b] = task[b] \/ task'[b].pc = "raised"
  <2>1. CASE UNCHANGED task
    BY <2>1
  <2>2. CASE Raise(BatchOf(i))
    <3>1. task \in [DOMAIN batches -> Tasks]
      BY <1>1 DEF TasksOK
    <3>2. task' = [task EXCEPT ![BatchOf(i)].pc = "raised"]
      BY <2>2 DEF Raise, To
    <3> QED
      BY <1>1, <3>1, <3>2 DEF Tasks
  <2> QED
    BY <2>1, <2>2
<1>3. (Cardinality(AtWork) <= run.concurrency)'
  BY <1>1, <1>2, FewerAtWork
<1>4. (\A b \in DOMAIN batches : Cardinality(Busy(b)) <= 4)'
  BY <1>1, FewerBusy
<1>5. s.pc # "calling" => (Cardinality(CallingTasks) + Cardinality(CallingSingles) <= run.inflight)'
  BY <1>1, <1>2, FewerCalls
<1> QED
  BY <1>3, <1>4, <1>5 DEF SlotsOK

\* Nothing but the answer to i changes.
LEMMA SingleAnswers ==
  ASSUME BatchInv, NEW i \in DOMAIN segments, UNCHANGED given,
         UNCHANGED got \/ \E v \in AnswersTo(i) : got' = [got EXCEPT ![i] = v], Truthful(cache')
  PROVE  AnswersOK' /\ \A j \in DOMAIN segments : j # i => got'[j] = got[j]
<1>1. got = [j \in DOMAIN segments |-> got[j]]
  BY DEF BatchInv, AnswersOK
<1>2. CASE UNCHANGED got
  <2>1. got' = [j \in DOMAIN segments |-> got'[j]] /\ \A j \in DOMAIN segments : got'[j] = got[j]
    BY <1>1, <1>2
  <2> QED
    BY <2>1, AnswersKept
<1>3. CASE \E v \in AnswersTo(i) : got' = [got EXCEPT ![i] = v]
  <2>1. PICK v \in AnswersTo(i) : got' = [got EXCEPT ![i] = v]
    BY <1>3
  <2>2. got' = [j \in DOMAIN segments |-> got'[j]] /\ got'[i] = v /\ \A j \in DOMAIN segments : j # i => got'[j] = got[j]
    <3> HIDE DEF AnswersTo
    <3> QED
      BY <1>1, <2>1
  <2>3. \A j \in DOMAIN segments : got'[j] \in {got[j]} \cup AnswersTo(j)
    <3> HIDE DEF AnswersTo
    <3> QED
      BY <2>1, <2>2
  <2> QED
    BY <2>2, <2>3, AnswersKept
<1> QED
  BY <1>2, <1>3

\* Where single[i] goes.
LEMMA OneToMoves ==
  ASSUME TasksOK, NEW i \in DOMAIN segments, NEW p \in SinglePcs
  PROVE  LET s == [single[i] EXCEPT !.pc = p] IN s \in Singles /\ s.pc = p /\ (OneTo(i, p) => single' = [single EXCEPT ![i] = s])
<1>1. single[i] \in Singles /\ DOMAIN single = DOMAIN segments
  BY DEF TasksOK
<1>2. [single[i] EXCEPT !.pc = p] \in Singles /\ [single[i] EXCEPT !.pc = p].pc = p
  <2> HIDE DEF SinglePcs
  <2> QED
    BY <1>1 DEF Singles
<1> QED
  BY <1>1, <1>2 DEF OneTo

LEMMA SinglePutKeeps ==
  ASSUME BatchInv, NEW i \in DOMAIN segments, NEW ok \in BOOLEAN, SinglePut(i, ok)
  PROVE  BatchInv'
<1> DEFINE s == [single[i] EXCEPT !.pc = "done"]
<1>0. UNCHANGED <<given, task, got, results, doneBatches, failing>> /\ single[i].pc = "put" /\ TasksOK /\ AnswersOK
  BY DEF SinglePut, BatchInv
<1>1. s \in Singles /\ s.pc = "done" /\ single' = [single EXCEPT ![i] = s]
  BY <1>0, OneToMoves DEF SinglePut, SinglePcs
<1> HIDE DEF s
<1>2. got[i] # NoText
  BY <1>0 DEF BatchInv, Work
<1>3. AnswersOK' /\ \A j \in DOMAIN segments : j # i => got'[j] = got[j]
  <2>1. Truthful(cache')
    <3>1. Store({i}, ok)
      BY DEF SinglePut
    <3> QED
      BY <1>0, <1>2, <3>1, StoreKeepsTruth
  <2> QED
    BY <1>0, <2>1, SingleAnswers
<1>4. SingleMoved(i, s)
  BY <1>0, <1>1, <1>2, <1>3 DEF SingleMoved
<1>5. SlotsOK'
  BY <1>0, <1>1, <1>4, SingleSlots
<1> QED
  BY <1>0, <1>3, <1>4, <1>5, SingleStepKeeps

LEMMA SingleReplyKeeps ==
  ASSUME BatchInv, NEW i \in DOMAIN segments, NEW empty \in BOOLEAN, SingleReply(i, empty)
  PROVE  BatchInv'
<1> DEFINE p == IF empty THEN "done" ELSE "put"
           v == IF empty THEN segments[i] ELSE Translated(segments[i])
           s == [single[i] EXCEPT !.pc = p]
<1>0. /\ UNCHANGED <<given, task, results, cache, doneBatches, failing>> /\ single[i].pc = "calling" /\ TasksOK /\ AnswersOK /\ GivenOK
      /\ got' = [got EXCEPT ![i] = v] /\ OneTo(i, p)
  BY DEF SingleReply, BatchInv
<1>1. s \in Singles /\ s.pc = p /\ single' = [single EXCEPT ![i] = s] /\ p \in {"done", "put"}
  <2>1. p \in SinglePcs /\ p \in {"done", "put"}
    BY DEF SinglePcs
  <2> HIDE DEF p
  <2> QED
    BY <1>0, <2>1, OneToMoves
<1>2. v \in AnswersTo(i) /\ v # NoText
  <2>1. segments[i] \in TextType /\ Translated(segments[i]) \in TextType
    BY <1>0, SegmentsAreTexts
  <2> QED
    BY <2>1, NoTextIsNone DEF AnswersTo
<1> HIDE DEF s, p, v
<1>3. AnswersOK' /\ \A j \in DOMAIN segments : j # i => got'[j] = got[j]
  <2>1. Truthful(cache')
    BY <1>0 DEF AnswersOK
  <2> QED
    BY <1>0, <1>2, <2>1, SingleAnswers
<1>4. SingleMoved(i, s)
  <2>1. got'[i] = v
    <3>1. DOMAIN got = DOMAIN segments
      BY <1>0 DEF AnswersOK
    <3> QED
      BY <1>0, <3>1
  <2> QED
    BY <1>0, <1>1, <1>2, <1>3, <2>1 DEF SingleMoved
<1>5. SlotsOK'
  BY <1>0, <1>1, <1>4, SingleSlots
<1> QED
  BY <1>0, <1>3, <1>4, <1>5, SingleStepKeeps

LEMMA SingleErrorKeeps ==
  ASSUME BatchInv, NEW i \in DOMAIN segments, NEW error, SingleError(i, error)
  PROVE  BatchInv'
<1>0. /\ UNCHANGED <<given, got, results, cache, doneBatches>> /\ single[i].pc = "calling" /\ TasksOK /\ AnswersOK /\ GivenOK
      /\ single[i] \in Singles /\ DOMAIN single = DOMAIN segments
  BY DEF SingleError, BatchInv, TasksOK
<1>1. \E s \in Singles : /\ single' = [single EXCEPT ![i] = s] /\ s.pc \in {"ready", "raised"}
                         /\ UNCHANGED <<task, failing>> \/ Raise(BatchOf(i))
  <2>1. CASE error = "busy" /\ single[i].tries + 1 < Retries
    <3> DEFINE s == [single[i] EXCEPT !.pc = "ready", !.tries = @ + 1]
    <3>1. single' = [single EXCEPT ![i] = s] /\ UNCHANGED <<task, failing>>
      BY <1>0, <2>1 DEF SingleError, Singles
    <3>2. s \in Singles /\ s.pc = "ready"
      <4>1. single[i].tries + 1 \in 0 .. Retries - 1 /\ "ready" \in SinglePcs
        BY <1>0, <2>1, BatchConstants DEF Singles, SinglePcs
      <4> HIDE DEF SinglePcs
      <4> QED
        BY <1>0, <4>1 DEF Singles
    <3> HIDE DEF s
    <3> QED
      BY <3>1, <3>2
  <2>2. CASE ~(error = "busy" /\ single[i].tries + 1 < Retries)
    <3> DEFINE s == [single[i] EXCEPT !.pc = "raised"]
    <3>1. OneTo(i, "raised") /\ Raise(BatchOf(i)) /\ "raised" \in SinglePcs
      BY <2>2 DEF SingleError, SinglePcs
    <3>2. s \in Singles /\ s.pc = "raised" /\ single' = [single EXCEPT ![i] = s]
      BY <1>0, <3>1, OneToMoves
    <3> HIDE DEF s
    <3> QED
      BY <3>1, <3>2
  <2> QED
    BY <2>1, <2>2
<1>2. PICK s \in Singles : /\ single' = [single EXCEPT ![i] = s] /\ s.pc \in {"ready", "raised"}
                           /\ UNCHANGED <<task, failing>> \/ Raise(BatchOf(i))
  BY <1>1
<1>3. AnswersOK' /\ \A j \in DOMAIN segments : j # i => got'[j] = got[j]
  <2>1. Truthful(cache')
    BY <1>0 DEF AnswersOK
  <2> QED
    BY <1>0, <2>1, SingleAnswers
<1>4. SingleMoved(i, s)
  BY <1>0, <1>2, <1>3 DEF SingleMoved
<1>5. SlotsOK'
  <2>1. UNCHANGED task \/ Raise(BatchOf(i))
    BY <1>2
  <2> QED
    BY <1>0, <1>2, <1>4, <2>1, SingleSlots
<1> QED
  BY <1>2, <1>3, <1>4, <1>5, SingleStepKeeps

LEMMA SingleCallKeeps ==
  ASSUME BatchInv, NEW i \in DOMAIN segments, SingleCall(i)
  PROVE  BatchInv'
<1> DEFINE s == [single[i] EXCEPT !.pc = "calling"]
<1>0. /\ UNCHANGED <<given, task, got, results, cache, doneBatches, failing, run, batches, segments>> /\ single[i].pc = "ready"
      /\ TasksOK /\ AnswersOK /\ GivenOK /\ InFlight < run.inflight
  BY DEF SingleCall, BatchInv, given
<1>1. s \in Singles /\ s.pc = "calling" /\ single' = [single EXCEPT ![i] = s]
  BY <1>0, OneToMoves DEF SingleCall, SinglePcs
<1> HIDE DEF s
<1>3. AnswersOK' /\ \A j \in DOMAIN segments : j # i => got'[j] = got[j]
  <2>1. Truthful(cache')
    BY <1>0 DEF AnswersOK
  <2> QED
    BY <1>0, <2>1, SingleAnswers
<1>4. SingleMoved(i, s)
  BY <1>0, <1>1, <1>3 DEF SingleMoved
<1>5. SlotsOK'
  <2>1. (Cardinality(AtWork) <= run.concurrency)' /\ (\A b \in DOMAIN batches : Cardinality(Busy(b)) <= 4)'
    BY <1>0, <1>1, <1>4, SingleSlots
  <2>2. (Cardinality(CallingTasks) + Cardinality(CallingSingles) <= run.inflight)'
    <3>0. \A j \in DOMAIN segments : j # i => single'[j] = single[j]
      BY <1>4, SingleMoves
    <3>1. CallingTasks' = CallingTasks /\ CallingSingles' \in SUBSET (CallingSingles \cup {i})
      BY <1>0, <3>0 DEF CallingSingles, CallingTasks
    <3>2. /\ IsFiniteSet(CallingSingles) /\ Cardinality(CallingTasks) \in Nat
          /\ InFlight = Cardinality(CallingTasks) + Cardinality(CallingSingles)
      BY <1>0, SlotsCounted
    <3>3. Cardinality(CallingSingles') <= Cardinality(CallingSingles) + 1 /\ Cardinality(CallingSingles') \in Nat /\ Cardinality(CallingSingles) \in Nat
      BY <3>1, <3>2, CardOneMore
    <3>4. run.inflight \in Nat
      BY <1>0, Settings
    <3> QED
      BY <1>0, <3>1, <3>2, <3>3, <3>4
  <2> QED
    BY <2>1, <2>2 DEF SlotsOK
<1> QED
  BY <1>0, <1>3, <1>4, <1>5, SingleStepKeeps

\* At most four calls of a fallback.
LEMMA FourAtMost ==
  ASSUME GivenOK
  PROVE  FallbackParallelism \in 1 .. 4
<1> DEFINE half == run.concurrency \div 2
           more == Max({1, half})
           some == Min({4, more})
<1>1. half \in Int
  BY Settings
<1> HIDE DEF half
<1>2. more \in Int
  BY <1>1, MaxOfTwo
<1> HIDE DEF more
<1>3. some \in Int /\ some <= 4
  BY <1>2, MinOfTwo
<1> HIDE DEF some
<1>4. Max({1, some}) \in 1 .. 4
  BY <1>3, MaxOfTwo
<1> QED
  BY <1>4 DEF FallbackParallelism, half, more, some

LEMMA SingleStartKeeps ==
  ASSUME BatchInv, NEW i \in DOMAIN segments, NEW ok \in BOOLEAN, SingleStart(i, ok)
  PROVE  BatchInv'
<1> DEFINE found == Found({i}, ok)
           p == IF found = {} THEN "ready" ELSE "done"
           s == [single[i] EXCEPT !.pc = p]
<1>b. PICK b : b = BatchOf(i)
  OBVIOUS
<1>0. /\ UNCHANGED <<given, task, results, cache, doneBatches, failing, run, batches, segments>> /\ single[i].pc = "waiting"
      /\ TasksOK /\ GivenOK /\ OneTo(i, p) /\ Take(found) /\ Cardinality(Busy(b)) < FallbackParallelism
  BY <1>b DEF SingleStart, BatchInv, given
<1>1. s \in Singles /\ s.pc = p /\ single' = [single EXCEPT ![i] = s] /\ p \in {"ready", "done"}
  <2>1. p \in SinglePcs /\ p \in {"ready", "done"}
    BY DEF SinglePcs
  <2> HIDE DEF p
  <2> QED
    BY <1>0, <2>1, OneToMoves
<1>2. /\ AnswersOK' /\ found \subseteq {i}
      /\ \A j \in DOMAIN segments : IF j \in found THEN got'[j] # NoText ELSE got'[j] = got[j]
  BY <1>0, Taken
<1>3. p = "done" => i \in found
  BY <1>2
<1> HIDE DEF s, p, found
<1>4. SingleMoved(i, s)
  BY <1>0, <1>1, <1>2, <1>3 DEF SingleMoved
<1>5. SlotsOK'
  <2>0. /\ b \in DOMAIN batches /\ i \in Range(batches[b]) /\ single'[i] = s /\ \A j \in DOMAIN segments : j # i => single'[j] = single[j]
    BY <1>b, <1>4, SingleMoves
  <2>1. (Cardinality(AtWork) <= run.concurrency)'
    BY <1>0, FewerAtWork
  <2>2. (Cardinality(CallingTasks) + Cardinality(CallingSingles) <= run.inflight)'
    BY <1>0, <1>1, <2>0, FewerCalls
  <2>3. ASSUME NEW c \in DOMAIN batches PROVE Cardinality(Busy(c)') <= 4
    <3>1. IsFiniteSet(Busy(c)) /\ Cardinality(Busy(c)) <= 4 /\ Range(batches[c]) \subseteq DOMAIN segments
      BY <1>0, SlotsCounted, Placed DEF BatchInv, SlotsOK
    <3>2. CASE c = b
      <4>1. Busy(b)' \in SUBSET (Busy(b) \cup {i})
        BY <1>0, <2>0, <3>1, <3>2 DEF Busy
      <4>2. Cardinality(Busy(b)') <= Cardinality(Busy(b)) + 1 /\ Cardinality(Busy(b)') \in Nat /\ Cardinality(Busy(b)) \in Nat
        <5> DEFINE T == Busy(b)
                   S == Busy(b)'
        <5>1. IsFiniteSet(T) /\ S \in SUBSET (T \cup {i})
          BY <3>1, <3>2, <4>1
        <5> HIDE DEF T, S
        <5>2. Cardinality(S) <= Cardinality(T) + 1 /\ Cardinality(S) \in Nat /\ Cardinality(T) \in Nat
          BY <5>1, CardOneMore
        <5> QED
          BY <5>2 DEF T, S
      <4> QED
        BY <1>0, <3>2, <4>2, FourAtMost
    <3>3. CASE c # b
      <4>1. i \notin Range(batches[c])
        BY <1>0, <2>0, <3>3, Placed
      <4>2. Busy(c)' = Busy(c)
        BY <1>0, <2>0, <3>1, <4>1 DEF Busy
      <4> QED
        BY <3>1, <4>2
    <3> QED
      BY <3>2, <3>3
  <2> QED
    BY <1>0, <2>1, <2>2, <2>3 DEF SlotsOK
<1> QED
  BY <1>0, <1>2, <1>4, <1>5, SingleStepKeeps

-----------------------------------------------------------------------------
(* All steps of the event loop *)

\* Nothing of the translation changes.
LEMMA BatchStutters ==
  ASSUME BatchInv, UNCHANGED batchVars
  PROVE  BatchInv'
<1>0. UNCHANGED <<run, segments, batches, task, single, got, results, cache, doneBatches, failing>>
  BY DEF batchVars, given
<1>1. GivenOK'
  BY <1>0 DEF BatchInv, GivenOK
<1>2. TasksOK'
  BY <1>0 DEF BatchInv, TasksOK
<1>3. AnswersOK'
  BY <1>0 DEF BatchInv, AnswersOK, AnswersTo, Translated, Truthful
<1>4. Work'
  BY <1>0 DEF BatchInv, Work, BatchWork
<1>5. ResultsOK'
  BY <1>0 DEF BatchInv, ResultsOK
<1>6. CountOK'
  BY <1>0 DEF BatchInv, CountOK, Finished
<1>7. CallsOK'
  BY <1>0 DEF BatchInv, CallsOK
<1>8. SlotsOK'
  BY <1>0 DEF BatchInv, SlotsOK, CallingTasks, CallingSingles, AtWork, Busy
<1> QED
  BY <1>1, <1>2, <1>3, <1>4, <1>5, <1>6, <1>7, <1>8 DEF BatchInv

LEMMA TaskStepKeeps ==
  ASSUME BatchInv, NEW b \in DOMAIN task, TaskStep(b)
  PROVE  BatchInv'
<1>0. b \in DOMAIN batches
  BY DEF BatchInv, TasksOK
<1>1. CASE \E ok \in BOOLEAN : TaskStart(b, ok)
  BY <1>0, <1>1, TaskStartKeeps
<1>2. CASE \E ok \in BOOLEAN : TaskStore(b, ok)
  BY <1>0, <1>2, TaskStoreKeeps
<1>3. CASE BatchCall(b)
  BY <1>0, <1>3, BatchCallKeeps
<1>4. CASE TaskGather(b)
  BY <1>0, <1>4, TaskGatherKeeps
<1>5. CASE \E shape \in run.replies : BatchReply(b, shape)
  BY <1>0, <1>5, BatchReplyKeeps
<1>6. CASE \E error \in run.errors : BatchError(b, error)
  BY <1>0, <1>6, BatchErrorKeeps
<1> QED
  BY <1>1, <1>2, <1>3, <1>4, <1>5, <1>6 DEF TaskStep

LEMMA SingleStepsKeep ==
  ASSUME BatchInv, NEW i \in DOMAIN single, SingleStep(i)
  PROVE  BatchInv'
<1>0. i \in DOMAIN segments
  BY DEF BatchInv, TasksOK
<1>1. CASE \E ok \in BOOLEAN : SingleStart(i, ok)
  BY <1>0, <1>1, SingleStartKeeps
<1>2. CASE \E ok \in BOOLEAN : SinglePut(i, ok)
  BY <1>0, <1>2, SinglePutKeeps
<1>3. CASE SingleCall(i)
  BY <1>0, <1>3, SingleCallKeeps
<1>4. CASE \E empty \in {FALSE} \cup {shape = "empty" : shape \in run.replies} : SingleReply(i, empty)
  <2>1. PICK empty \in {FALSE} \cup {shape = "empty" : shape \in run.replies} : SingleReply(i, empty)
    BY <1>4
  <2>2. empty \in BOOLEAN
    OBVIOUS
  <2> QED
    BY <1>0, <2>1, <2>2, SingleReplyKeeps
<1>5. CASE \E error \in run.errors : SingleError(i, error)
  BY <1>0, <1>5, SingleErrorKeeps
<1> QED
  BY <1>1, <1>2, <1>3, <1>4, <1>5 DEF SingleStep

\* What such a step leaves alone, as far as the main thread can tell.
LEMMA WorkIsQuiet ==
  ASSUME BatchInv, NEW b, TaskStep(b) \/ SingleStep(b)
  PROVE  /\ UNCHANGED <<given, results, doneBatches>> /\ (faults' = faults \/ (faults < run.faults /\ faults' = faults + 1))
         /\ (failing => failing')
<1>1. CASE TaskStep(b)
  <2>1. CASE \E ok \in BOOLEAN : TaskStart(b, ok)
    BY <2>1 DEF TaskStart, Reached
  <2>2. CASE \E ok \in BOOLEAN : TaskStore(b, ok)
    BY <2>2 DEF TaskStore, Reached
  <2>3. CASE BatchCall(b)
    BY <2>3 DEF BatchCall
  <2>4. CASE TaskGather(b)
    BY <2>4 DEF TaskGather
  <2>5. CASE \E shape \in run.replies : BatchReply(b, shape)
    BY <2>5 DEF BatchReply
  <2>6. CASE \E error \in run.errors : BatchError(b, error)
    BY <2>6 DEF BatchError, Raise
  <2> QED
    BY <1>1, <2>1, <2>2, <2>3, <2>4, <2>5, <2>6 DEF TaskStep
<1>2. CASE SingleStep(b)
  <2>1. CASE \E ok \in BOOLEAN : SingleStart(b, ok)
    BY <2>1 DEF SingleStart, Reached
  <2>2. CASE \E ok \in BOOLEAN : SinglePut(b, ok)
    BY <2>2 DEF SinglePut, Reached
  <2>3. CASE SingleCall(b)
    BY <2>3 DEF SingleCall
  <2>4. CASE \E empty \in {FALSE} \cup {shape = "empty" : shape \in run.replies} : SingleReply(b, empty)
    BY <2>4 DEF SingleReply
  <2>5. CASE \E error \in run.errors : SingleError(b, error)
    BY <2>5 DEF SingleError, Raise
  <2> QED
    BY <1>2, <2>1, <2>2, <2>3, <2>4, <2>5 DEF SingleStep
<1> QED
  BY <1>1, <1>2

-----------------------------------------------------------------------------
(* The bar *)

MainInv == BarOK /\ PhaseOK /\ TurnsOK /\ ClaimsOK /\ PulsesOK

\* What an entry says of the segments is not too much, for where the main thread is.
Modest(e) ==
  /\ pc \in {"parse", "classify", "start"} => e.segs <= 0
  /\ pc = "translate" /\ doneBatches < Len(batches) => e.segs < Len(segments)

LEMMA EntriesOK ==
  /\ Silent \in Pubs /\ Silent.new.segs = Unsaid /\ Silent.prev.segs = Unsaid /\ Silent.pc = "idle"
  /\ \A n \in Nat \cup {Unsaid} :
       /\ \A pct \in 11 .. 13 : Entry(pct, "parsing_document", n) \in Entries
       /\ \A pct \in 24 .. 88 : Entry(pct, "translating", n) \in Entries
       /\ Entry(90, "generating_file", n) \in Entries
       /\ \A pct \in 93 .. 95 : Entry(pct, "writing_docx", n) \in Entries
       /\ Entry(96, "docx_ready", n) \in Entries
       /\ Entry(97, "converting_to_pdf", n) \in Entries
<1>1. Range(Stages) = {"none", "parsing_document", "translating", "generating_file", "writing_docx", "docx_ready", "converting_to_pdf"}
  BY DEF Range, Stages
<1>2. \A pct \in 0 .. 100, stage \in Range(Stages), n \in Nat \cup {Unsaid} : pct \in PercentsOf(stage) => Entry(pct, stage, n) \in Entries
  BY DEF Entries, Entry, OfStage
<1>3. /\ PercentsOf("none") = 0 .. 10 /\ PercentsOf("parsing_document") = 11 .. 13 /\ PercentsOf("translating") = 24 .. 88
      /\ PercentsOf("generating_file") = {90} /\ PercentsOf("writing_docx") = 93 .. 95 /\ PercentsOf("docx_ready") = {96}
      /\ PercentsOf("converting_to_pdf") = {97}
  BY DEF PercentsOf
<1>4. Entry(0, "none", Unsaid) \in Entries
  <2>1. 0 \in PercentsOf("none") /\ 0 \in 0 .. 100 /\ "none" \in Range(Stages) /\ Unsaid \in Nat \cup {Unsaid}
    BY <1>1, <1>3
  <2> HIDE DEF Entries
  <2> QED
    BY <1>2, <2>1
<1>5. Entry(0, "none", Unsaid).segs = Unsaid
  BY DEF Entry
<1>6. Silent \in Pubs /\ Silent.new.segs = Unsaid /\ Silent.prev.segs = Unsaid /\ Silent.pc = "idle"
  <2> HIDE DEF Entries
  <2> QED
    BY <1>4, <1>5 DEF Silent, Pubs
<1> HIDE DEF Entries
<1> QED
  BY <1>1, <1>2, <1>3, <1>6

\* A thread begins to publish.
LEMMA Published ==
  ASSUME BarOK, NEW who \in Publishers, NEW e \in Entries, Publish(who, e)
  PROVE  /\ pubs' \in [Publishers -> Pubs]
         /\ pubs'[who].pc = "get" /\ pubs'[who].new = e /\ pubs'[who].prev.segs = Unsaid
         /\ \A w \in Publishers : w # who => pubs'[w] = pubs[w]
<1> DEFINE p == [Silent EXCEPT !.pc = "get", !.new = e]
<1>1. pubs \in [Publishers -> Pubs]
  BY DEF BarOK
<1>2. p \in Pubs /\ p.pc = "get" /\ p.new = e /\ p.prev = Silent.prev
  <2> HIDE DEF Entries
  <2> QED
    BY EntriesOK DEF Pubs
<1>3. pubs' = [pubs EXCEPT ![who] = p]
  BY DEF Publish
<1> HIDE DEF p, Pubs, Publishers
<1> QED
  BY <1>1, <1>2, <1>3, EntriesOK

LEMMA Bumped ==
  ASSUME BarOK, NEW pct \in 0 .. 100, Bump(pct)
  PROVE  bar' \in 0 .. 100
<1>1. bar \in Int /\ pct \in Int /\ bar \in 0 .. 100
  BY DEF BarOK
<1>2. Max({bar, pct}) \in 0 .. 100
  BY <1>1, MaxOfTwo
<1> QED
  BY <1>2 DEF Bump

LEMMA WaitedFor ==
  ASSUME BarOK, GivenOK, NEW who, Join(who, run.faults)
  PROVE  /\ faults' \in 0 .. run.faults /\ late' \in BOOLEAN
         /\ ~late' => Idle(who) /\ ~late
<1>1. faults \in 0 .. run.faults /\ late \in BOOLEAN /\ run.faults \in Nat
  BY Settings DEF BarOK
<1>2. CASE Idle(who) /\ UNCHANGED <<faults, late>>
  BY <1>1, <1>2
<1>3. CASE ~Idle(who) /\ faults < run.faults /\ faults' = faults + 1 /\ late' = TRUE
  BY <1>1, <1>3
<1> QED
  BY <1>2, <1>3 DEF Join

\* A step that publishes e, or nothing.
LEMMA ClaimsKept ==
  ASSUME BarOK, ClaimsOK, UNCHANGED <<run, stored>>, NEW e \in Entries,
         UNCHANGED pubs \/ \E who \in Publishers : Publish(who, e) /\ Modest(e)',
         run.before.segs = Unsaid => \A c \in Claims : Modest(c)',
         ~(pc' = "translate" /\ Len(segments') = 0), Len(segments') \in Nat
  PROVE  ClaimsOK'
<1>1. SUFFICES ASSUME run.before.segs = Unsaid PROVE \A c \in Claims' : Modest(c)'
  BY DEF ClaimsOK, Modest
<1>2. \A c \in Claims : Modest(c)'
  BY <1>1
<1>3. CASE UNCHANGED pubs
  <2>1. Claims' = Claims
    BY <1>3 DEF Claims
  <2> QED
    BY <1>2, <2>1
<1>4. CASE \E who \in Publishers : Publish(who, e) /\ Modest(e)'
  <2>1. PICK who \in Publishers : Publish(who, e) /\ Modest(e)'
    BY <1>4
  <2>2. /\ pubs'[who].new = e /\ pubs'[who].prev.segs = Unsaid
        /\ \A w \in Publishers : w # who => pubs'[w] = pubs[w]
    BY <2>1, Published
  <2>3. SUFFICES ASSUME NEW c \in Claims' PROVE Modest(c)'
    OBVIOUS
  <2>4. c \in Claims \/ c = e \/ c.segs = Unsaid
    <3> HIDE DEF Publishers
    <3> QED
      BY <2>2 DEF Claims
  <2>5. c.segs = Unsaid => Modest(c)'
    BY DEF Modest, Unsaid
  <2> QED
    BY <1>2, <2>1, <2>4, <2>5
<1> QED
  BY <1>3, <1>4

-----------------------------------------------------------------------------
(* The steps of the main thread *)

LEMMA MainFacts ==
  ASSUME BatchInv, MainInv
  PROVE  /\ BarOK /\ PhaseOK /\ TurnsOK /\ ClaimsOK /\ PulsesOK /\ GivenOK /\ TasksOK
         /\ Len(segments) \in Nat /\ Len(batches) \in Nat /\ doneBatches \in 0 .. Len(batches) /\ failing \in BOOLEAN
         /\ (segments = <<>> <=> Len(segments) = 0) /\ (Len(batches) = 0 <=> Len(segments) = 0)
         /\ bar \in 0 .. 100 /\ stored \in Entries /\ pubs \in [Publishers -> Pubs]
         /\ pulses \in [parse : 10 .. 13, docx : 92 .. 95, batch : 24 .. 88, pulse : Nat]
         /\ faults \in 0 .. run.faults /\ late \in BOOLEAN /\ run.faults \in Nat
<1>1. GivenOK /\ TasksOK /\ CountOK
  BY DEF BatchInv
<1>2. /\ Len(segments) \in Nat /\ Len(batches) \in Nat /\ DOMAIN batches = 1 .. Len(batches)
      /\ IsFiniteSet(DOMAIN batches) /\ Cardinality(DOMAIN batches) = Len(batches) /\ DOMAIN segments = 1 .. Len(segments)
  BY <1>1, SegmentsAreTexts, Placed
<1>3. doneBatches \in 0 .. Len(batches)
  <2>1. Finished \in SUBSET DOMAIN batches
    BY DEF Finished
  <2>2. Cardinality(Finished) <= Len(batches) /\ Cardinality(Finished) \in Nat
    BY <1>2, <2>1, CardFewer
  <2> QED
    BY <1>1, <1>2, <2>2 DEF CountOK
<1>4. segments = <<>> <=> Len(segments) = 0
  BY <1>1 DEF GivenOK
<1>5. Len(batches) = 0 <=> Len(segments) = 0
  <2>1. Len(batches) = 0 => Len(segments) = 0
    <3>1. ASSUME Len(batches) = 0, Len(segments) # 0 PROVE FALSE
      <4>1. 1 \in DOMAIN segments
        BY <1>2, <3>1
      <4>2. BatchOf(1) \in DOMAIN batches
        BY <1>1, <4>1, Placed
      <4> QED
        BY <1>2, <3>1, <4>2
    <3> QED
      BY <3>1
  <2>2. Len(segments) = 0 => Len(batches) = 0
    <3>1. ASSUME Len(segments) = 0, Len(batches) # 0 PROVE FALSE
      <4>1. 1 \in DOMAIN batches
        BY <1>2, <3>1
      <4>2. Range(batches[1]) # {} /\ Range(batches[1]) \subseteq DOMAIN segments
        BY <1>1, <4>1, Placed
      <4> QED
        BY <1>2, <3>1, <4>2
    <3> QED
      BY <3>1
  <2> QED
    BY <2>1, <2>2
<1>6. run.faults \in Nat
  BY <1>1, Settings
<1> QED
  BY <1>1, <1>2, <1>3, <1>4, <1>5, <1>6 DEF MainInv, BarOK, CountOK

\* The state of the event loop where the main thread does something else.
LEMMA Elsewhere ==
  ASSUME UNCHANGED batchVars
  PROVE  UNCHANGED <<run, segments, batches, task, results, doneBatches, failing>>
BY DEF batchVars, given

LEMMA ParseTickKeeps ==
  ASSUME BatchInv, MainInv, ParseTick
  PROVE  MainInv'
<1>0. PICK e : e = Entry(pulses.parse + 1, "parsing_document", Unsaid)
  OBVIOUS
<1>1. /\ pc = "parse" /\ pc' = pc /\ UNCHANGED <<stored, faults, late, run, segments, batches, task, doneBatches, failing>>
      /\ Idle("parse") /\ pulses.parse < 13 /\ pulses' = [pulses EXCEPT !.parse = @ + 1]
      /\ Bump(pulses.parse + 1) /\ Publish("parse", e)
  BY <1>0, Elsewhere DEF ParseTick, Tick
<1>2. /\ BarOK /\ PhaseOK /\ TurnsOK /\ ClaimsOK /\ PulsesOK /\ Len(segments) \in Nat
      /\ pulses \in [parse : 10 .. 13, docx : 92 .. 95, batch : 24 .. 88, pulse : Nat]
  BY MainFacts
<1>3. pulses.parse + 1 \in 11 .. 13 /\ pulses' \in [parse : 10 .. 13, docx : 92 .. 95, batch : 24 .. 88, pulse : Nat] /\ pulses'.batch = pulses.batch
  <2>1. pulses.parse + 1 \in 11 .. 13
    BY <1>1, <1>2
  <2>2. pulses.parse + 1 \in 10 .. 13
    BY <2>1
  <2> QED
    BY <1>1, <1>2, <2>1, <2>2, ZenonT(60)
<1>4. e \in Entries /\ e.segs = Unsaid
  <2>1. Unsaid \in Nat \cup {Unsaid}
    OBVIOUS
  <2> HIDE DEF Entries
  <2> QED
    BY <1>0, <1>3, <2>1, EntriesOK DEF Entry
<1>5. /\ pubs' \in [Publishers -> Pubs] /\ pubs'["parse"].pc = "get" /\ \A w \in Publishers : w # "parse" => pubs'[w] = pubs[w]
  BY <1>1, <1>2, <1>4, Published DEF Publishers
<1>6. bar' \in 0 .. 100
  <2>1. pulses.parse + 1 \in 0 .. 100
    BY <1>3
  <2> QED
    BY <1>1, <1>2, <2>1, Bumped
<1>7. BarOK'
  BY <1>1, <1>2, <1>3, <1>5, <1>6 DEF BarOK
<1>8. PhaseOK'
  BY <1>1, <1>2 DEF PhaseOK
<1>9. TurnsOK'
  BY <1>1, <1>2, <1>5 DEF TurnsOK, Idle, Publishers
<1>10. ClaimsOK'
  <2>1. Modest(e)'
    BY <1>1, <1>4 DEF Modest, Unsaid
  <2>2. run.before.segs = Unsaid => \A c \in Claims : Modest(c)'
    BY <1>1, <1>2 DEF ClaimsOK, Modest
  <2>3. UNCHANGED <<run, stored>> /\ ~(pc' = "translate" /\ Len(segments') = 0) /\ Len(segments') \in Nat
    BY <1>1, <1>2
  <2>4. \E who \in Publishers : Publish(who, e) /\ Modest(e)'
    BY <1>1, <2>1 DEF Publishers
  <2> QED
    BY <1>2, <1>4, <2>2, <2>3, <2>4, ClaimsKept
<1>11. PulsesOK'
  BY <1>1, <1>2, <1>3 DEF PulsesOK
<1> QED
  BY <1>7, <1>8, <1>9, <1>10, <1>11 DEF MainInv

LEMMA DocxTickKeeps ==
  ASSUME BatchInv, MainInv, DocxTick
  PROVE  MainInv'
<1>0. PICK e : e = Entry(pulses.docx + 1, "writing_docx", Len(segments))
  OBVIOUS
<1>1. /\ pc = "write" /\ pc' = pc /\ UNCHANGED <<stored, faults, late, run, segments, batches, task, doneBatches, failing>>
      /\ Idle("docx") /\ pulses.docx < 95 /\ pulses' = [pulses EXCEPT !.docx = @ + 1]
      /\ Bump(pulses.docx + 1) /\ Publish("docx", e)
  BY <1>0, Elsewhere DEF DocxTick, Tick
<1>2. /\ BarOK /\ PhaseOK /\ TurnsOK /\ ClaimsOK /\ PulsesOK /\ Len(segments) \in Nat
      /\ pulses \in [parse : 10 .. 13, docx : 92 .. 95, batch : 24 .. 88, pulse : Nat]
  BY MainFacts
<1>3. pulses.docx + 1 \in 93 .. 95 /\ pulses' \in [parse : 10 .. 13, docx : 92 .. 95, batch : 24 .. 88, pulse : Nat] /\ pulses'.batch = pulses.batch
  <2>1. pulses.docx + 1 \in 93 .. 95
    BY <1>1, <1>2
  <2>2. pulses.docx + 1 \in 92 .. 95
    BY <2>1
  <2> QED
    BY <1>1, <1>2, <2>1, <2>2, ZenonT(60)
<1>4. e \in Entries
  <2>1. Len(segments) \in Nat \cup {Unsaid}
    BY <1>2
  <2> HIDE DEF Entries
  <2> QED
    BY <1>0, <1>3, <2>1, EntriesOK
<1>5. /\ pubs' \in [Publishers -> Pubs] /\ pubs'["docx"].pc = "get" /\ \A w \in Publishers : w # "docx" => pubs'[w] = pubs[w]
  BY <1>1, <1>2, <1>4, Published DEF Publishers
<1>6. bar' \in 0 .. 100
  <2>1. pulses.docx + 1 \in 0 .. 100
    BY <1>3
  <2> QED
    BY <1>1, <1>2, <2>1, Bumped
<1>7. BarOK'
  BY <1>1, <1>2, <1>3, <1>5, <1>6 DEF BarOK
<1>8. PhaseOK'
  BY <1>1, <1>2 DEF PhaseOK
<1>9. TurnsOK'
  BY <1>1, <1>2, <1>5 DEF TurnsOK, Idle, Publishers
<1>10. ClaimsOK'
  <2>1. Modest(e)'
    BY <1>1 DEF Modest
  <2>2. run.before.segs = Unsaid => \A c \in Claims : Modest(c)'
    BY <1>1, <1>2 DEF ClaimsOK, Modest
  <2>3. UNCHANGED <<run, stored>> /\ ~(pc' = "translate" /\ Len(segments') = 0) /\ Len(segments') \in Nat
    BY <1>1, <1>2
  <2>4. \E who \in Publishers : Publish(who, e) /\ Modest(e)'
    BY <1>1, <2>1 DEF Publishers
  <2> QED
    BY <1>2, <1>4, <2>2, <2>3, <2>4, ClaimsKept
<1>11. PulsesOK'
  BY <1>1, <1>2, <1>3 DEF PulsesOK
<1> QED
  BY <1>7, <1>8, <1>9, <1>10, <1>11 DEF MainInv

LEMMA ClaimsAreEntries ==
  ASSUME BarOK
  PROVE  Claims \subseteq Entries /\ \A c \in Claims : c.segs \in Int
<1>1. pubs \in [Publishers -> Pubs] /\ stored \in Entries
  BY DEF BarOK
<1>2. \A who \in Publishers : pubs[who].new \in Entries /\ pubs[who].prev \in Entries
  <2> HIDE DEF Entries, Publishers
  <2> QED
    BY <1>1 DEF Pubs
<1>3. Claims \subseteq Entries
  <2> HIDE DEF Entries, Publishers
  <2> QED
    BY <1>1, <1>2 DEF Claims
<1>4. \A c \in Entries : c.segs \in Int
  BY DEF Entries, Unsaid
<1> HIDE DEF Entries
<1> QED
  BY <1>3, <1>4

\* The main thread goes on.
Early == {"parse", "classify", "start"}
GoesOn ==
  /\ pc' \in Early => pc \in Early
  /\ pc' = "translate" => pc \in Early /\ Len(segments) > 0
Tells(e) == UNCHANGED pubs \/ (Publish("main", e) /\ pc' \in {"start", "generate", "written", "convert"} /\ (pc' = "start" => e.segs = 0))

LEMMA MainMoves ==
  ASSUME BatchInv, MainInv, UNCHANGED <<batchVars, stored, pulses>>, bar' \in 0 .. 100, NEW e \in Entries, Tells(e),
         faults' \in 0 .. run.faults, late' \in BOOLEAN, PhaseOK', GoesOn, ~late' => \A who \in Publishers : Idle(who)
  PROVE  MainInv'
<1>1. UNCHANGED <<run, segments, batches, doneBatches, failing>>
  BY Elsewhere
<1>2. /\ BarOK /\ PhaseOK /\ TurnsOK /\ ClaimsOK /\ PulsesOK /\ Len(segments) \in Nat /\ pubs \in [Publishers -> Pubs]
      /\ Claims \subseteq Entries /\ \A c \in Claims : c.segs \in Int
  BY MainFacts, ClaimsAreEntries
<1>3. /\ pubs' \in [Publishers -> Pubs]
      /\ UNCHANGED pubs \/ (pubs'["main"].pc = "get" /\ (\A w \in Publishers : w # "main" => pubs'[w] = pubs[w])
                            /\ pc' \in {"start", "generate", "written", "convert"})
  <2>1. CASE UNCHANGED pubs
    BY <1>2, <2>1
  <2>2. CASE Publish("main", e) /\ pc' \in {"start", "generate", "written", "convert"}
    <3>1. "main" \in Publishers
      BY DEF Publishers
    <3> HIDE DEF Publishers
    <3> QED
      BY <1>2, <2>2, <3>1, Published
  <2> QED
    BY <2>1, <2>2 DEF Tells
<1>7. BarOK'
  BY <1>1, <1>2, <1>3 DEF BarOK
<1>9. TurnsOK'
  BY <1>3 DEF TurnsOK, Idle, Publishers
<1>10. ClaimsOK'
  <2>1. run.before.segs = Unsaid => \A c \in Claims : Modest(c)'
    <3> SUFFICES ASSUME run.before.segs = Unsaid, NEW c \in Claims PROVE Modest(c)'
      OBVIOUS
    <3>1. pc \in Early => c.segs <= 0
      BY <1>2 DEF ClaimsOK, Early
    <3>2. c.segs \in Int
      BY <1>2
    <3> QED
      BY <1>1, <1>2, <3>1, <3>2 DEF Modest, GoesOn, Early
  <2>2. UNCHANGED pubs \/ \E who \in Publishers : Publish(who, e) /\ Modest(e)'
    <3>1. CASE UNCHANGED pubs
      BY <3>1
    <3>2. CASE Publish("main", e) /\ pc' \in {"start", "generate", "written", "convert"} /\ (pc' = "start" => e.segs = 0)
      <4>1. Modest(e)' /\ "main" \in Publishers
        BY <3>2 DEF Modest, Publishers
      <4> QED
        BY <3>2, <4>1
    <3> QED
      BY <3>1, <3>2 DEF Tells
  <2>3. ~(pc' = "translate" /\ Len(segments') = 0) /\ Len(segments') \in Nat
    BY <1>1, <1>2 DEF GoesOn
  <2> QED
    BY <1>1, <1>2, <2>1, <2>2, <2>3, ClaimsKept
<1>11. PulsesOK'
  BY <1>1, <1>2 DEF PulsesOK
<1> QED
  BY <1>7, <1>9, <1>10, <1>11 DEF MainInv

\* Where everybody is silent but the thread whose turn it is.
LEMMA OthersSilent ==
  ASSUME TurnsOK, ~late
  PROVE  /\ pc # "parse" => Idle("parse")
         /\ pc # "write" => Idle("docx")
         /\ pc \notin {"start", "translate", "generate", "written", "convert"} => Idle("main")
BY DEF TurnsOK

LEMMA AllIdle ==
  ASSUME Idle("main"), Idle("parse"), Idle("docx")
  PROVE  \A who \in Publishers : Idle(who)
BY DEF Publishers

\* Before the translation begins no batch is finished.
LEMMA NothingDone ==
  ASSUME BatchInv, PhaseOK, pc \in {"parse", "classify", "start"}
  PROVE  doneBatches = 0
<1>1. Finished = {}
  BY DEF PhaseOK, Finished
<1> QED
  BY <1>1, FS_EmptySet DEF BatchInv, CountOK

LEMMA ParseDoneKeeps ==
  ASSUME BatchInv, MainInv, ParseDone
  PROVE  MainInv'
<1>0. PICK e : e = stored
  OBVIOUS
<1>1. /\ pc = "parse" /\ pc' = "classify" /\ UNCHANGED <<batchVars, stored, pulses>>
      /\ UNCHANGED pubs
      /\ Bump(14)
      /\ Join("parse", run.faults)
  BY <1>0 DEF ParseDone, Goto
<1>2. /\ BarOK /\ PhaseOK /\ TurnsOK /\ GivenOK /\ Len(segments) \in Nat /\ stored \in Entries /\ bar \in 0 .. 100
      /\ faults \in 0 .. run.faults /\ late \in BOOLEAN /\ doneBatches \in 0 .. Len(batches) /\ Len(batches) \in Nat
      /\ (segments = <<>> <=> Len(segments) = 0) /\ (Len(batches) = 0 <=> Len(segments) = 0)
  BY MainFacts
<1>3. UNCHANGED <<run, segments, batches, task, doneBatches, failing>>
  BY <1>1, Elsewhere
<1>4. e \in Entries
  BY <1>0, <1>2
<1>5. bar' \in 0 .. 100
  <2>1. 14 \in 0 .. 100
    OBVIOUS
  <2> QED
    BY <1>1, <1>2, <2>1, Bumped
<1>6. faults' \in 0 .. run.faults /\ late' \in BOOLEAN /\ (~late' => Idle("parse") /\ ~late)
  BY <1>1, <1>2, WaitedFor
<1>7. ~late' => \A who \in Publishers : Idle(who)
  BY <1>1, <1>2, <1>6, OthersSilent, AllIdle
<1>8. PhaseOK'
  BY <1>1, <1>2, <1>3 DEF PhaseOK, Phases
<1>9. GoesOn /\ Tells(e)
  BY <1>1, <1>2, <1>4 DEF GoesOn, Tells, Early
<1> QED
  BY <1>1, <1>4, <1>5, <1>6, <1>7, <1>8, <1>9, MainMoves

LEMMA PlanKeeps ==
  ASSUME BatchInv, MainInv, Plan
  PROVE  MainInv'
<1>0. PICK e : e = Entry(24, "translating", 0)
  OBVIOUS
<1>1. /\ pc = "classify" /\ pc' = "start" /\ UNCHANGED <<batchVars, stored, pulses>>
      /\ Publish("main", e)
      /\ Bump(22)
      /\ Idle("main") /\ UNCHANGED <<faults, late>>
  BY <1>0 DEF Plan, At, Goto
<1>2. /\ BarOK /\ PhaseOK /\ TurnsOK /\ GivenOK /\ Len(segments) \in Nat /\ stored \in Entries /\ bar \in 0 .. 100
      /\ faults \in 0 .. run.faults /\ late \in BOOLEAN /\ doneBatches \in 0 .. Len(batches) /\ Len(batches) \in Nat
      /\ (segments = <<>> <=> Len(segments) = 0) /\ (Len(batches) = 0 <=> Len(segments) = 0)
  BY MainFacts
<1>3. UNCHANGED <<run, segments, batches, task, doneBatches, failing>>
  BY <1>1, Elsewhere
<1>4. e \in Entries
  <2>1. 0 \in Nat \cup {Unsaid}
    BY <1>2
  <2> HIDE DEF Entries
  <2> QED
    BY <1>0, <2>1, EntriesOK
<1>5. bar' \in 0 .. 100
  <2>1. 22 \in 0 .. 100
    OBVIOUS
  <2> QED
    BY <1>1, <1>2, <2>1, Bumped
<1>6. faults' \in 0 .. run.faults /\ late' \in BOOLEAN
  BY <1>1, <1>2, <1>3
<1>7. ~late' => \A who \in Publishers : Idle(who)
  BY <1>1, <1>2, OthersSilent, AllIdle
<1>8. PhaseOK'
  BY <1>1, <1>2, <1>3 DEF PhaseOK, Phases
<1>9. GoesOn /\ Tells(e)
  <2>1. e.segs = 0
    BY <1>0 DEF Entry
  <2> QED
    BY <1>1, <1>2, <2>1 DEF GoesOn, Tells, Early
<1> QED
  BY <1>1, <1>4, <1>5, <1>6, <1>7, <1>8, <1>9, MainMoves

LEMMA SkipTranslationKeeps ==
  ASSUME BatchInv, MainInv, SkipTranslation
  PROVE  MainInv'
<1>0. PICK e : e = Entry(90, "generating_file", 0)
  OBVIOUS
<1>1. /\ pc = "start" /\ pc' = "generate" /\ UNCHANGED <<batchVars, stored, pulses>>
      /\ Publish("main", e)
      /\ Bump(88)
      /\ Idle("main") /\ UNCHANGED <<faults, late>>
      /\ segments = <<>>
  BY <1>0 DEF SkipTranslation, At, Goto
<1>2. /\ BarOK /\ PhaseOK /\ TurnsOK /\ GivenOK /\ Len(segments) \in Nat /\ stored \in Entries /\ bar \in 0 .. 100
      /\ faults \in 0 .. run.faults /\ late \in BOOLEAN /\ doneBatches \in 0 .. Len(batches) /\ Len(batches) \in Nat
      /\ (segments = <<>> <=> Len(segments) = 0) /\ (Len(batches) = 0 <=> Len(segments) = 0)
  BY MainFacts
<1>3. UNCHANGED <<run, segments, batches, task, doneBatches, failing>>
  BY <1>1, Elsewhere
<1>4. e \in Entries
  <2>1. 0 \in Nat \cup {Unsaid}
    BY <1>2
  <2> HIDE DEF Entries
  <2> QED
    BY <1>0, <2>1, EntriesOK
<1>5. bar' \in 0 .. 100
  <2>1. 88 \in 0 .. 100
    OBVIOUS
  <2> QED
    BY <1>1, <1>2, <2>1, Bumped
<1>6. faults' \in 0 .. run.faults /\ late' \in BOOLEAN
  BY <1>1, <1>2, <1>3
<1>7. ~late' => \A who \in Publishers : Idle(who)
  BY <1>1, <1>2, OthersSilent, AllIdle
<1>8. PhaseOK'
  BY <1>1, <1>2, <1>3 DEF PhaseOK, Phases
<1>9. GoesOn /\ Tells(e)
  BY <1>1, <1>2, <1>4 DEF GoesOn, Tells, Early
<1> QED
  BY <1>1, <1>4, <1>5, <1>6, <1>7, <1>8, <1>9, MainMoves

LEMMA StartKeeps ==
  ASSUME BatchInv, MainInv, Start
  PROVE  MainInv'
<1>0. PICK e : e = stored
  OBVIOUS
<1>1. /\ pc = "start" /\ pc' = "translate" /\ UNCHANGED <<batchVars, stored, pulses>>
      /\ UNCHANGED pubs
      /\ bar' = bar
      /\ Idle("main") /\ UNCHANGED <<faults, late>>
      /\ segments # <<>>
  BY <1>0 DEF Start, At, Goto, progressVars
<1>2. /\ BarOK /\ PhaseOK /\ TurnsOK /\ GivenOK /\ Len(segments) \in Nat /\ stored \in Entries /\ bar \in 0 .. 100
      /\ faults \in 0 .. run.faults /\ late \in BOOLEAN /\ doneBatches \in 0 .. Len(batches) /\ Len(batches) \in Nat
      /\ (segments = <<>> <=> Len(segments) = 0) /\ (Len(batches) = 0 <=> Len(segments) = 0)
  BY MainFacts
<1>3. UNCHANGED <<run, segments, batches, task, doneBatches, failing>>
  BY <1>1, Elsewhere
<1>4. e \in Entries
  BY <1>0, <1>2
<1>5. bar' \in 0 .. 100
  BY <1>1, <1>2
<1>6. faults' \in 0 .. run.faults /\ late' \in BOOLEAN
  BY <1>1, <1>2, <1>3
<1>7. ~late' => \A who \in Publishers : Idle(who)
  BY <1>1, <1>2, OthersSilent, AllIdle
<1>8. PhaseOK'
  BY <1>1, <1>2, <1>3 DEF PhaseOK, Phases
<1>9. GoesOn /\ Tells(e)
  BY <1>1, <1>2, <1>4 DEF GoesOn, Tells, Early
<1> QED
  BY <1>1, <1>4, <1>5, <1>6, <1>7, <1>8, <1>9, MainMoves

LEMMA CloseKeeps ==
  ASSUME BatchInv, MainInv, Close
  PROVE  MainInv'
<1>0. PICK e : e = stored
  OBVIOUS
<1>1. /\ pc = "translate" /\ pc' = "failed" /\ UNCHANGED <<batchVars, stored, pulses>>
      /\ UNCHANGED pubs
      /\ bar' = 0
      /\ Idle("main") /\ UNCHANGED <<faults, late>>
      /\ failing
  BY <1>0 DEF Close, At, Goto
<1>2. /\ BarOK /\ PhaseOK /\ TurnsOK /\ GivenOK /\ Len(segments) \in Nat /\ stored \in Entries /\ bar \in 0 .. 100
      /\ faults \in 0 .. run.faults /\ late \in BOOLEAN /\ doneBatches \in 0 .. Len(batches) /\ Len(batches) \in Nat
      /\ (segments = <<>> <=> Len(segments) = 0) /\ (Len(batches) = 0 <=> Len(segments) = 0)
  BY MainFacts
<1>3. UNCHANGED <<run, segments, batches, task, doneBatches, failing>>
  BY <1>1, Elsewhere
<1>4. e \in Entries
  BY <1>0, <1>2
<1>5. bar' \in 0 .. 100
  BY <1>1, <1>2
<1>6. faults' \in 0 .. run.faults /\ late' \in BOOLEAN
  BY <1>1, <1>2, <1>3
<1>7. ~late' => \A who \in Publishers : Idle(who)
  BY <1>1, <1>2, OthersSilent, AllIdle
<1>8. PhaseOK'
  BY <1>1, <1>2, <1>3 DEF PhaseOK, Phases
<1>9. GoesOn /\ Tells(e)
  BY <1>1, <1>2, <1>4 DEF GoesOn, Tells, Early
<1> QED
  BY <1>1, <1>4, <1>5, <1>6, <1>7, <1>8, <1>9, MainMoves

LEMMA ReassembleKeeps ==
  ASSUME BatchInv, MainInv, Reassemble
  PROVE  MainInv'
<1>0. PICK e : e = Entry(90, "generating_file", Len(segments))
  OBVIOUS
<1>1. /\ pc = "translate" /\ pc' = "generate" /\ UNCHANGED <<batchVars, stored, pulses>>
      /\ Publish("main", e)
      /\ Bump(88)
      /\ Idle("main") /\ UNCHANGED <<faults, late>>
      /\ ~failing /\ doneBatches = Len(batches)
  BY <1>0 DEF Reassemble, At, Goto
<1>2. /\ BarOK /\ PhaseOK /\ TurnsOK /\ GivenOK /\ Len(segments) \in Nat /\ stored \in Entries /\ bar \in 0 .. 100
      /\ faults \in 0 .. run.faults /\ late \in BOOLEAN /\ doneBatches \in 0 .. Len(batches) /\ Len(batches) \in Nat
      /\ (segments = <<>> <=> Len(segments) = 0) /\ (Len(batches) = 0 <=> Len(segments) = 0)
  BY MainFacts
<1>3. UNCHANGED <<run, segments, batches, task, doneBatches, failing>>
  BY <1>1, Elsewhere
<1>4. e \in Entries
  <2>1. Len(segments) \in Nat \cup {Unsaid}
    BY <1>2
  <2> HIDE DEF Entries
  <2> QED
    BY <1>0, <2>1, EntriesOK
<1>5. bar' \in 0 .. 100
  <2>1. 88 \in 0 .. 100
    OBVIOUS
  <2> QED
    BY <1>1, <1>2, <2>1, Bumped
<1>6. faults' \in 0 .. run.faults /\ late' \in BOOLEAN
  BY <1>1, <1>2, <1>3
<1>7. ~late' => \A who \in Publishers : Idle(who)
  BY <1>1, <1>2, OthersSilent, AllIdle
<1>8. PhaseOK'
  BY <1>1, <1>2, <1>3 DEF PhaseOK, Phases
<1>9. GoesOn /\ Tells(e)
  BY <1>1, <1>2, <1>4 DEF GoesOn, Tells, Early
<1> QED
  BY <1>1, <1>4, <1>5, <1>6, <1>7, <1>8, <1>9, MainMoves

LEMMA WriteBeginKeeps ==
  ASSUME BatchInv, MainInv, WriteBegin
  PROVE  MainInv'
<1>0. PICK e : e = stored
  OBVIOUS
<1>1. /\ pc = "generate" /\ pc' = "write" /\ UNCHANGED <<batchVars, stored, pulses>>
      /\ UNCHANGED pubs
      /\ Bump(92)
      /\ Idle("main") /\ UNCHANGED <<faults, late>>
  BY <1>0 DEF WriteBegin, At, Goto
<1>2. /\ BarOK /\ PhaseOK /\ TurnsOK /\ GivenOK /\ Len(segments) \in Nat /\ stored \in Entries /\ bar \in 0 .. 100
      /\ faults \in 0 .. run.faults /\ late \in BOOLEAN /\ doneBatches \in 0 .. Len(batches) /\ Len(batches) \in Nat
      /\ (segments = <<>> <=> Len(segments) = 0) /\ (Len(batches) = 0 <=> Len(segments) = 0)
  BY MainFacts
<1>3. UNCHANGED <<run, segments, batches, task, doneBatches, failing>>
  BY <1>1, Elsewhere
<1>4. e \in Entries
  BY <1>0, <1>2
<1>5. bar' \in 0 .. 100
  <2>1. 92 \in 0 .. 100
    OBVIOUS
  <2> QED
    BY <1>1, <1>2, <2>1, Bumped
<1>6. faults' \in 0 .. run.faults /\ late' \in BOOLEAN
  BY <1>1, <1>2, <1>3
<1>7. ~late' => \A who \in Publishers : Idle(who)
  BY <1>1, <1>2, OthersSilent, AllIdle
<1>8. PhaseOK'
  BY <1>1, <1>2, <1>3 DEF PhaseOK, Phases
<1>9. GoesOn /\ Tells(e)
  BY <1>1, <1>2, <1>4 DEF GoesOn, Tells, Early
<1> QED
  BY <1>1, <1>4, <1>5, <1>6, <1>7, <1>8, <1>9, MainMoves

LEMMA WriteDoneKeeps ==
  ASSUME BatchInv, MainInv, WriteDone
  PROVE  MainInv'
<1>0. PICK e : e = Entry(96, "docx_ready", Len(segments))
  OBVIOUS
<1>1. /\ pc = "write" /\ pc' = "written" /\ UNCHANGED <<batchVars, stored, pulses>>
      /\ Publish("main", e)
      /\ Bump(96)
      /\ Join("docx", run.faults)
  BY <1>0 DEF WriteDone, Goto
<1>2. /\ BarOK /\ PhaseOK /\ TurnsOK /\ GivenOK /\ Len(segments) \in Nat /\ stored \in Entries /\ bar \in 0 .. 100
      /\ faults \in 0 .. run.faults /\ late \in BOOLEAN /\ doneBatches \in 0 .. Len(batches) /\ Len(batches) \in Nat
      /\ (segments = <<>> <=> Len(segments) = 0) /\ (Len(batches) = 0 <=> Len(segments) = 0)
  BY MainFacts
<1>3. UNCHANGED <<run, segments, batches, task, doneBatches, failing>>
  BY <1>1, Elsewhere
<1>4. e \in Entries
  <2>1. Len(segments) \in Nat \cup {Unsaid}
    BY <1>2
  <2> HIDE DEF Entries
  <2> QED
    BY <1>0, <2>1, EntriesOK
<1>5. bar' \in 0 .. 100
  <2>1. 96 \in 0 .. 100
    OBVIOUS
  <2> QED
    BY <1>1, <1>2, <2>1, Bumped
<1>6. faults' \in 0 .. run.faults /\ late' \in BOOLEAN /\ (~late' => Idle("docx") /\ ~late)
  BY <1>1, <1>2, WaitedFor
<1>7. ~late' => \A who \in Publishers : Idle(who)
  BY <1>1, <1>2, <1>6, OthersSilent, AllIdle
<1>8. PhaseOK'
  BY <1>1, <1>2, <1>3 DEF PhaseOK, Phases
<1>9. GoesOn /\ Tells(e)
  BY <1>1, <1>2, <1>4 DEF GoesOn, Tells, Early
<1> QED
  BY <1>1, <1>4, <1>5, <1>6, <1>7, <1>8, <1>9, MainMoves

LEMMA ExportKeeps ==
  ASSUME BatchInv, MainInv, Export
  PROVE  MainInv'
<1>0. PICK e : e = Entry(97, "converting_to_pdf", Unsaid)
  OBVIOUS
<1>1. /\ pc = "written" /\ pc' = "convert" /\ UNCHANGED <<batchVars, stored, pulses>>
      /\ Publish("main", e)
      /\ bar' = bar
      /\ Idle("main") /\ UNCHANGED <<faults, late>>
  BY <1>0 DEF Export, At, Goto
<1>2. /\ BarOK /\ PhaseOK /\ TurnsOK /\ GivenOK /\ Len(segments) \in Nat /\ stored \in Entries /\ bar \in 0 .. 100
      /\ faults \in 0 .. run.faults /\ late \in BOOLEAN /\ doneBatches \in 0 .. Len(batches) /\ Len(batches) \in Nat
      /\ (segments = <<>> <=> Len(segments) = 0) /\ (Len(batches) = 0 <=> Len(segments) = 0)
  BY MainFacts
<1>3. UNCHANGED <<run, segments, batches, task, doneBatches, failing>>
  BY <1>1, Elsewhere
<1>4. e \in Entries
  <2>1. Unsaid \in Nat \cup {Unsaid}
    BY <1>2
  <2> HIDE DEF Entries
  <2> QED
    BY <1>0, <2>1, EntriesOK
<1>5. bar' \in 0 .. 100
  BY <1>1, <1>2
<1>6. faults' \in 0 .. run.faults /\ late' \in BOOLEAN
  BY <1>1, <1>2, <1>3
<1>7. ~late' => \A who \in Publishers : Idle(who)
  BY <1>1, <1>2, OthersSilent, AllIdle
<1>8. PhaseOK'
  BY <1>1, <1>2, <1>3 DEF PhaseOK, Phases
<1>9. GoesOn /\ Tells(e)
  BY <1>1, <1>2, <1>4 DEF GoesOn, Tells, Early
<1> QED
  BY <1>1, <1>4, <1>5, <1>6, <1>7, <1>8, <1>9, MainMoves

LEMMA ShowDoneKeeps ==
  ASSUME BatchInv, MainInv, ShowDone
  PROVE  MainInv'
<1>0. PICK e : e = stored
  OBVIOUS
<1>1. /\ pc = "convert" /\ pc' = "done" /\ UNCHANGED <<batchVars, stored, pulses>>
      /\ UNCHANGED pubs
      /\ bar' = 100
      /\ Idle("main") /\ UNCHANGED <<faults, late>>
  BY <1>0 DEF ShowDone, At, Goto
<1>2. /\ BarOK /\ PhaseOK /\ TurnsOK /\ GivenOK /\ Len(segments) \in Nat /\ stored \in Entries /\ bar \in 0 .. 100
      /\ faults \in 0 .. run.faults /\ late \in BOOLEAN /\ doneBatches \in 0 .. Len(batches) /\ Len(batches) \in Nat
      /\ (segments = <<>> <=> Len(segments) = 0) /\ (Len(batches) = 0 <=> Len(segments) = 0)
  BY MainFacts
<1>3. UNCHANGED <<run, segments, batches, task, doneBatches, failing>>
  BY <1>1, Elsewhere
<1>4. e \in Entries
  BY <1>0, <1>2
<1>5. bar' \in 0 .. 100
  BY <1>1, <1>2
<1>6. faults' \in 0 .. run.faults /\ late' \in BOOLEAN
  BY <1>1, <1>2, <1>3
<1>7. ~late' => \A who \in Publishers : Idle(who)
  BY <1>1, <1>2, OthersSilent, AllIdle
<1>8. PhaseOK'
  BY <1>1, <1>2, <1>3 DEF PhaseOK, Phases
<1>9. GoesOn /\ Tells(e)
  BY <1>1, <1>2, <1>4 DEF GoesOn, Tells, Early
<1> QED
  BY <1>1, <1>4, <1>5, <1>6, <1>7, <1>8, <1>9, MainMoves

LEMMA ParseFailsKeeps ==
  ASSUME BatchInv, MainInv, ParseFails
  PROVE  MainInv'
<1>0. PICK e : e = stored
  OBVIOUS
<1>1. /\ pc = "parse" /\ pc' = "failed" /\ UNCHANGED <<batchVars, stored, pulses>>
      /\ UNCHANGED pubs
      /\ bar' = 0
      /\ Join("parse", run.faults)
  BY <1>0 DEF ParseFails, Fail, Goto
<1>2. /\ BarOK /\ PhaseOK /\ TurnsOK /\ GivenOK /\ Len(segments) \in Nat /\ stored \in Entries /\ bar \in 0 .. 100
      /\ faults \in 0 .. run.faults /\ late \in BOOLEAN /\ doneBatches \in 0 .. Len(batches) /\ Len(batches) \in Nat
      /\ (segments = <<>> <=> Len(segments) = 0) /\ (Len(batches) = 0 <=> Len(segments) = 0)
  BY MainFacts
<1>3. UNCHANGED <<run, segments, batches, task, doneBatches, failing>>
  BY <1>1, Elsewhere
<1>4. e \in Entries
  BY <1>0, <1>2
<1>5. bar' \in 0 .. 100
  BY <1>1, <1>2
<1>6. faults' \in 0 .. run.faults /\ late' \in BOOLEAN /\ (~late' => Idle("parse") /\ ~late)
  BY <1>1, <1>2, WaitedFor
<1>7. ~late' => \A who \in Publishers : Idle(who)
  BY <1>1, <1>2, <1>6, OthersSilent, AllIdle
<1>8. PhaseOK'
  BY <1>1, <1>2, <1>3, NothingDone DEF PhaseOK, Phases
<1>9. GoesOn /\ Tells(e)
  BY <1>1, <1>2, <1>4 DEF GoesOn, Tells, Early
<1> QED
  BY <1>1, <1>4, <1>5, <1>6, <1>7, <1>8, <1>9, MainMoves

LEMMA WriteFailsKeeps ==
  ASSUME BatchInv, MainInv, WriteFails
  PROVE  MainInv'
<1>0. PICK e : e = stored
  OBVIOUS
<1>1. /\ pc = "write" /\ pc' = "failed" /\ UNCHANGED <<batchVars, stored, pulses>>
      /\ UNCHANGED pubs
      /\ bar' = 0
      /\ Join("docx", run.faults)
  BY <1>0 DEF WriteFails, Fail, Goto
<1>2. /\ BarOK /\ PhaseOK /\ TurnsOK /\ GivenOK /\ Len(segments) \in Nat /\ stored \in Entries /\ bar \in 0 .. 100
      /\ faults \in 0 .. run.faults /\ late \in BOOLEAN /\ doneBatches \in 0 .. Len(batches) /\ Len(batches) \in Nat
      /\ (segments = <<>> <=> Len(segments) = 0) /\ (Len(batches) = 0 <=> Len(segments) = 0)
  BY MainFacts
<1>3. UNCHANGED <<run, segments, batches, task, doneBatches, failing>>
  BY <1>1, Elsewhere
<1>4. e \in Entries
  BY <1>0, <1>2
<1>5. bar' \in 0 .. 100
  BY <1>1, <1>2
<1>6. faults' \in 0 .. run.faults /\ late' \in BOOLEAN /\ (~late' => Idle("docx") /\ ~late)
  BY <1>1, <1>2, WaitedFor
<1>7. ~late' => \A who \in Publishers : Idle(who)
  BY <1>1, <1>2, <1>6, OthersSilent, AllIdle
<1>8. PhaseOK'
  BY <1>1, <1>2, <1>3 DEF PhaseOK, Phases
<1>9. GoesOn /\ Tells(e)
  BY <1>1, <1>2, <1>4 DEF GoesOn, Tells, Early
<1> QED
  BY <1>1, <1>4, <1>5, <1>6, <1>7, <1>8, <1>9, MainMoves

-----------------------------------------------------------------------------
(* The bar while OpenAI is at work *)

\* No percent below 88 stands for all segments.
LEMMA ApproxIsFewer ==
  ASSUME NEW n \in Nat, NEW d \in 24 .. 88, NEW done \in Nat, NEW of \in Nat
  PROVE  /\ ApproxSegments(d, n, done, of) \in Nat
         /\ done < of /\ d <= 87 /\ n > 0 => ApproxSegments(d, n, done, of) < n
<1>1. PICK q : q = (n * (d - 24)) \div 64
  OBVIOUS
<1>2. q \in Nat /\ (d <= 87 /\ n > 0 => q < n)
  <2>1. n * (d - 24) \in Nat
    OBVIOUS
  <2>2. PICK m \in Nat : m = n * (d - 24)
    BY <2>1
  <2>3. q = m \div 64
    BY <1>1, <2>2
  <2>4. q \in Nat /\ 64 * q <= m
    BY <2>2, <2>3
  <2>5. ASSUME d <= 87, n > 0 PROVE m < 64 * n
    <3>1. d - 24 \in 0 .. 63
      BY <2>5
    <3>2. n * (d - 24) <= n * 63
      BY <3>1
    <3> QED
      BY <2>2, <2>5, <3>2
  <2> QED
    BY <2>2, <2>4, <2>5
<1>3. Min({n, q}) = IF n <= q THEN n ELSE q
  BY <1>2, MinOfTwo
<1> QED
  BY <1>1, <1>2, <1>3 DEF ApproxSegments

LEMMA ClampedIs ==
  ASSUME NEW c \in Int
  PROVE  /\ Clamped(c) \in 23 .. 88
         /\ c \in 24 .. 88 => Clamped(c) = c
         /\ c <= 87 => Clamped(c) <= 87
<1>1. Max({23, c}) = IF 23 >= c THEN 23 ELSE c
  BY MaxOfTwo
<1>2. PICK m \in Int : m = Max({23, c})
  BY <1>1
<1>3. Min({88, m}) = IF 88 <= m THEN 88 ELSE m
  BY MinOfTwo
<1> QED
  BY <1>1, <1>2, <1>3 DEF Clamped

\* The share of the batches that are done.
LEMMA ShareBelow ==
  ASSUME NEW of \in Nat, of > 0, NEW done \in 0 .. of
  PROVE  (66 * done) \div of \in Nat /\ (done < of => (66 * done) \div of <= 65)
<1>1. PICK m \in Nat : m = 66 * done
  OBVIOUS
<1>2. PICK q \in Nat : q = m \div of
  BY <1>1
<1>3. of * q <= m
  BY <1>1, <1>2
<1>4. ASSUME done < of, q >= 66 PROVE FALSE
  <2>1. of * q >= of * 66
    BY <1>4
  <2> QED
    BY <1>1, <1>3, <1>4, <2>1
<1> QED
  BY <1>1, <1>2, <1>4

\* The batch translator moves the bar, done of its batches having ended.
LEMMA ProgressKeeps ==
  ASSUME BatchInv, MainInv, pc = "translate", pc' = pc, UNCHANGED <<run, segments, batches, stored, faults, late>>,
         NEW pct \in 24 .. 88, doneBatches' \in 0 .. Len(batches),
         doneBatches' < Len(batches) => doneBatches < Len(batches) /\ pct <= 87 /\ pulses'.batch <= 87,
         pulses' \in [parse : 10 .. 13, docx : 92 .. 95, batch : 24 .. 88, pulse : Nat],
         ApplyProgress(pct, Len(segments), doneBatches', Len(batches))
  PROVE  MainInv'
<1>0. PICK n : n = ApproxSegments(pct, Len(segments), doneBatches', Len(batches))
  OBVIOUS
<1>1. PICK e : e = Entry(pct, "translating", n)
  OBVIOUS
<1>2. /\ BarOK /\ PhaseOK /\ TurnsOK /\ ClaimsOK /\ Len(segments) \in Nat /\ Len(batches) \in Nat
      /\ (segments = <<>> <=> Len(segments) = 0)
  BY MainFacts
<1>3. Len(segments) > 0
  BY <1>2 DEF PhaseOK
<1>4. n \in Nat /\ (doneBatches' < Len(batches) => n < Len(segments))
  <2>1. PICK done \in Nat : done = doneBatches'
    BY <1>2
  <2>2. n = ApproxSegments(pct, Len(segments), done, Len(batches))
    BY <1>0, <2>1
  <2> QED
    BY <1>2, <1>3, <2>1, <2>2, ApproxIsFewer
<1>5. Bump(pct) /\ Publish("main", e)
  <2>1. Clamped(pct) = pct
    BY ClampedIs
  <2> QED
    BY <1>0, <1>1, <2>1 DEF ApplyProgress
<1>6. e \in Entries
  <2>1. n \in Nat \cup {Unsaid}
    BY <1>4
  <2> HIDE DEF Entries
  <2> QED
    BY <1>1, <2>1, EntriesOK
<1>7. e.segs = n
  BY <1>1 DEF Entry
<1>8. bar' \in 0 .. 100
  <2>1. pct \in 0 .. 100
    OBVIOUS
  <2> QED
    BY <1>2, <1>5, <2>1, Bumped
<1>9. pubs' \in [Publishers -> Pubs] /\ pubs'["main"].pc = "get" /\ \A w \in Publishers : w # "main" => pubs'[w] = pubs[w]
  <2>1. "main" \in Publishers
    BY DEF Publishers
  <2> HIDE DEF Publishers
  <2> QED
    BY <1>2, <1>5, <1>6, <2>1, Published
<1>10. BarOK'
  BY <1>2, <1>8, <1>9 DEF BarOK
<1>11. PhaseOK'
  BY <1>2 DEF PhaseOK
<1>12. TurnsOK'
  BY <1>2, <1>9 DEF TurnsOK, Idle, Publishers
<1>13. ClaimsOK'
  <2>1. Modest(e)'
    BY <1>4, <1>7 DEF Modest
  <2>2. run.before.segs = Unsaid => \A c \in Claims : Modest(c)'
    <3> SUFFICES ASSUME run.before.segs = Unsaid, NEW c \in Claims PROVE Modest(c)'
      OBVIOUS
    <3>1. doneBatches < Len(batches) => c.segs < Len(segments)
      BY <1>2 DEF ClaimsOK
    <3> QED
      BY <3>1 DEF Modest
  <2>3. UNCHANGED <<run, stored>> /\ ~(pc' = "translate" /\ Len(segments') = 0) /\ Len(segments') \in Nat
    BY <1>2, <1>3
  <2>4. \E who \in Publishers : Publish(who, e) /\ Modest(e)'
    BY <1>5, <2>1 DEF Publishers
  <2> QED
    BY <1>2, <1>6, <2>2, <2>3, <2>4, ClaimsKept
<1>14. PulsesOK'
  BY DEF PulsesOK
<1> QED
  BY <1>10, <1>11, <1>12, <1>13, <1>14 DEF MainInv

\* Nothing the main thread looks at changes, and what failed is counted.
LEMMA QuietKeeps ==
  ASSUME BatchInv, MainInv, pc = "translate", pc' = pc, faults' \in 0 .. run.faults, pulses'.batch = pulses.batch,
         pulses' \in [parse : 10 .. 13, docx : 92 .. 95, batch : 24 .. 88, pulse : Nat],
         UNCHANGED <<run, segments, batches, doneBatches, bar, stored, pubs, late>>
  PROVE  MainInv'
<1>1. BarOK /\ PhaseOK /\ TurnsOK /\ ClaimsOK /\ PulsesOK
  BY DEF MainInv
<1>2. BarOK'
  BY <1>1 DEF BarOK
<1>3. PhaseOK'
  BY <1>1 DEF PhaseOK
<1>4. TurnsOK'
  BY <1>1 DEF TurnsOK, Idle
<1>5. ClaimsOK'
  BY <1>1 DEF ClaimsOK, Claims
<1>6. PulsesOK'
  BY <1>1 DEF PulsesOK
<1> QED
  BY <1>2, <1>3, <1>4, <1>5, <1>6 DEF MainInv

LEMMA PulseKeeps ==
  ASSUME BatchInv, MainInv, Pulse
  PROVE  MainInv'
<1>1. /\ pc = "translate" /\ pc' = pc /\ doneBatches < Len(batches)
      /\ UNCHANGED <<run, segments, batches, doneBatches, stored, faults, late>>
  <2>1. UNCHANGED batchVars /\ pc = "translate" /\ pc' = pc /\ doneBatches < Len(batches) /\ UNCHANGED <<stored, faults, late>>
    BY DEF Pulse, At, PulseProgress
  <2> QED
    BY <2>1, Elsewhere
<1>2. /\ PulsesOK /\ BarOK /\ Len(segments) \in Nat /\ Len(batches) \in Nat /\ doneBatches \in 0 .. Len(batches) /\ GivenOK
      /\ pulses \in [parse : 10 .. 13, docx : 92 .. 95, batch : 24 .. 88, pulse : Nat] /\ faults \in 0 .. run.faults
  BY MainFacts
<1>3. PICK candidate \in run.pulses : PulseProgress(candidate, Len(segments), doneBatches, Len(batches))
  BY DEF Pulse
<1>4. candidate \in Nat /\ pulses.pulse \in Nat /\ pulses.batch \in 24 .. 87
  BY <1>1, <1>2, Settings DEF PulsesOK
<1>5. PICK pulse : pulse = Max({pulses.pulse, candidate})
  OBVIOUS
<1>6. pulse \in Nat
  BY <1>4, <1>5, MaxOfTwo
<1>7. PICK pct : pct = Max({pulses.batch, Min({87, pulse})})
  OBVIOUS
<1>8. pct \in 24 .. 87
  <2>1. Min({87, pulse}) \in Int /\ Min({87, pulse}) <= 87
    BY <1>6, MinOfTwo
  <2>2. PICK m \in Int : m = Min({87, pulse})
    BY <2>1
  <2>3. Max({pulses.batch, m}) = IF pulses.batch >= m THEN pulses.batch ELSE m
    BY <1>4, MaxOfTwo
  <2> QED
    BY <1>4, <1>7, <2>1, <2>2, <2>3
<1>9. /\ pulses' = [pulses EXCEPT !.pulse = pulse]
      /\ ApplyProgress(pct, Len(segments), doneBatches, Len(batches)) \/ UNCHANGED <<bar, pubs>>
  BY <1>3, <1>5, <1>7 DEF PulseProgress
<1>10. pulses' \in [parse : 10 .. 13, docx : 92 .. 95, batch : 24 .. 88, pulse : Nat] /\ pulses'.batch = pulses.batch
  BY <1>2, <1>6, <1>9, ZenonT(60)
<1>11. CASE ApplyProgress(pct, Len(segments), doneBatches, Len(batches))
  <2>1. /\ pct \in 24 .. 88 /\ doneBatches' \in 0 .. Len(batches) /\ pct <= 87 /\ pulses'.batch <= 87
        /\ ApplyProgress(pct, Len(segments), doneBatches', Len(batches))
    <3>1. doneBatches' = doneBatches
      BY <1>1
    <3>2. ApplyProgress(pct, Len(segments), doneBatches', Len(batches))
      BY <1>11, <3>1
    <3> QED
      <4>1. doneBatches' \in 0 .. Len(batches)
        BY <1>2, <3>1
      <4>2. pct \in 24 .. 88 /\ pct <= 87 /\ pulses'.batch <= 87
        BY <1>4, <1>8, <1>10
      <4> QED
        BY <3>2, <4>1, <4>2
  <2> QED
    BY <1>1, <1>10, <2>1, ProgressKeeps
<1>12. CASE UNCHANGED <<bar, pubs>>
  BY <1>1, <1>2, <1>10, <1>12, QuietKeeps
<1> QED
  BY <1>9, <1>11, <1>12

LEMMA FinishKeeps ==
  ASSUME BatchInv, MainInv, NEW b \in DOMAIN task, Finish(b)
  PROVE  BatchInv' /\ MainInv'
<1>0. b \in DOMAIN batches /\ TaskFinish(b)
  BY DEF BatchInv, TasksOK, Finish
<1>1. BatchInv'
  BY <1>0, TaskFinishKeeps
<1>2. /\ pc = "translate" /\ pc' = pc /\ doneBatches' = doneBatches + 1
      /\ UNCHANGED <<run, segments, batches, stored, faults, late>>
      /\ BatchProgress(Len(segments), doneBatches + 1, Len(batches))
  <2>1. UNCHANGED given /\ pc = "translate" /\ pc' = pc
    BY <1>0 DEF Finish, At, TaskFinish
  <2>2. BatchProgress(Len(segments), doneBatches + 1, Len(batches)) /\ doneBatches' = doneBatches + 1
    BY <1>0 DEF TaskFinish
  <2> QED
    BY <2>1, <2>2 DEF given, BatchProgress
<1>3. /\ PulsesOK /\ Len(segments) \in Nat /\ Len(batches) \in Nat /\ doneBatches \in 0 .. Len(batches) /\ GivenOK
      /\ pulses \in [parse : 10 .. 13, docx : 92 .. 95, batch : 24 .. 88, pulse : Nat]
  BY MainFacts
<1>4. doneBatches + 1 \in 0 .. Len(batches)
  <2>1. Finished' \in SUBSET DOMAIN batches
    BY <1>2 DEF Finished
  <2>2. IsFiniteSet(DOMAIN batches) /\ Cardinality(DOMAIN batches) = Len(batches)
    BY <1>3, Placed
  <2>3. Cardinality(Finished') <= Len(batches) /\ Cardinality(Finished') \in Nat
    BY <2>1, <2>2, CardFewer
  <2>4. doneBatches' = Cardinality(Finished')
    BY <1>1 DEF BatchInv, CountOK
  <2> QED
    BY <1>2, <1>3, <2>3, <2>4
<1>5. PICK share : share = Clamped(22 + (66 * (doneBatches + 1)) \div Len(batches))
  OBVIOUS
<1>6. share \in 23 .. 88 /\ (doneBatches + 1 < Len(batches) => share <= 87)
  <2>1. PICK done \in 0 .. Len(batches) : done = doneBatches + 1
    BY <1>4
  <2>2. Len(batches) > 0
    BY <1>3, <1>4
  <2>3. (66 * done) \div Len(batches) \in Nat /\ (done < Len(batches) => (66 * done) \div Len(batches) <= 65)
    BY <1>3, <2>1, <2>2, ShareBelow
  <2>4. PICK q \in Nat : q = (66 * done) \div Len(batches)
    BY <2>3
  <2>5. Clamped(22 + q) \in 23 .. 88 /\ (22 + q <= 87 => Clamped(22 + q) <= 87)
    <3>1. 22 + q \in Int
      BY <2>4
    <3> QED
      BY <3>1, ClampedIs
  <2> QED
    BY <1>5, <2>1, <2>3, <2>4, <2>5
<1>7. PICK pct : pct = Max({pulses.batch, share})
  OBVIOUS
<1>m. PICK m : m = pulses.batch
  OBVIOUS
<1>8. m \in 24 .. 88 /\ (doneBatches + 1 < Len(batches) => m <= 87)
  BY <1>3, <1>m DEF PulsesOK
<1>9. pct \in 24 .. 88 /\ (doneBatches + 1 < Len(batches) => pct <= 87)
  <2>1. m \in Int /\ share \in Int
    BY <1>6, <1>8
  <2>2. Max({m, share}) = IF m >= share THEN m ELSE share
    BY <2>1, MaxOfTwo
  <2>3. pct = IF m >= share THEN m ELSE share
    BY <1>7, <1>m, <2>2
  <2>4. pct \in 24 .. 88
    BY <1>6, <1>8, <2>3
  <2>5. ASSUME doneBatches + 1 < Len(batches) PROVE pct <= 87
    <3>1. m <= 87 /\ share <= 87
      BY <1>6, <1>8, <2>5
    <3> QED
      BY <2>3, <3>1
  <2> QED
    BY <2>4, <2>5
<1>10. /\ pulses' = [pulses EXCEPT !.batch = pct]
       /\ ApplyProgress(pct, Len(segments), doneBatches + 1, Len(batches))
  BY <1>2, <1>5, <1>7 DEF BatchProgress
<1>11. pulses' \in [parse : 10 .. 13, docx : 92 .. 95, batch : 24 .. 88, pulse : Nat] /\ pulses'.batch = pct
  BY <1>3, <1>9, <1>10, SMTT(60)
<1>12. MainInv'
  <2>1. /\ doneBatches' \in 0 .. Len(batches) /\ ApplyProgress(pct, Len(segments), doneBatches', Len(batches))
        /\ doneBatches' < Len(batches) => doneBatches < Len(batches) /\ pct <= 87 /\ pulses'.batch <= 87
    BY <1>2, <1>3, <1>4, <1>9, <1>10, <1>11
  <2> QED
    BY <1>2, <1>9, <1>11, <2>1, ProgressKeeps
<1> QED
  BY <1>1, <1>12

LEMMA StepKeeps ==
  ASSUME BatchInv, MainInv, NEW b, pc = "translate", TaskStep(b) \/ SingleStep(b), UNCHANGED <<pc, bar, stored, pubs, pulses, late>>
  PROVE  MainInv'
<1>1. UNCHANGED <<given, doneBatches>> /\ (faults' = faults \/ (faults < run.faults /\ faults' = faults + 1))
  BY WorkIsQuiet
<1>2. /\ pulses \in [parse : 10 .. 13, docx : 92 .. 95, batch : 24 .. 88, pulse : Nat]
      /\ faults \in 0 .. run.faults /\ run.faults \in Nat
  BY MainFacts
<1>3. UNCHANGED <<run, segments, batches>>
  BY <1>1 DEF given
<1>4. faults' \in 0 .. run.faults
  BY <1>1, <1>2
<1> QED
  BY <1>1, <1>2, <1>3, <1>4, QuietKeeps

-----------------------------------------------------------------------------
(* What publishes *)

\* What thread who is about to write becomes p, and the key becomes s.
LEMMA PublishKeeps ==
  ASSUME BatchInv, MainInv, UNCHANGED <<pc, batchVars, bar, pulses, late>>, faults' \in 0 .. run.faults,
         NEW who \in Publishers, NEW p \in Pubs, NEW s \in Entries, pubs' = [pubs EXCEPT ![who] = p], stored' = s, ~Idle(who),
         p.pc = "set" => p.prev = s, s = stored \/ p.pc = "idle",
         \A n \in {p.new.segs, p.prev.segs, s.segs} : n = Unsaid \/ \E c \in Claims : n = c.segs
  PROVE  MainInv'
<1>1. UNCHANGED <<run, segments, batches, task, doneBatches, failing>>
  BY Elsewhere
<1>2. /\ BarOK /\ PhaseOK /\ TurnsOK /\ ClaimsOK /\ PulsesOK /\ Len(segments) \in Nat /\ Len(batches) \in Nat
      /\ (segments = <<>> <=> Len(segments) = 0) /\ pubs \in [Publishers -> Pubs]
  BY MainFacts
<1>3. /\ pubs' \in [Publishers -> Pubs] /\ pubs'[who] = p /\ \A w \in Publishers : w # who => pubs'[w] = pubs[w]
  <2> HIDE DEF Pubs, Publishers
  <2> QED
    BY <1>2
<1>4. BarOK'
  BY <1>1, <1>2, <1>3 DEF BarOK
<1>5. PhaseOK'
  BY <1>1, <1>2 DEF PhaseOK
<1>6. TurnsOK'
  <2> SUFFICES ASSUME ~late
               PROVE  (/\ ~Idle("parse") => pc = "parse"
                       /\ ~Idle("docx") => pc = "write"
                       /\ ~Idle("main") => pc \in {"start", "translate", "generate", "written", "convert"}
                       /\ \A w \in Publishers : pubs[w].pc = "set" => pubs[w].prev = stored)'
    BY DEF TurnsOK
  <2>1. \A w \in Publishers : ~Idle(w)' => ~Idle(w)
    BY <1>3 DEF Idle
  <2>2. \A w \in Publishers : w # who => s = stored \/ Idle(w)
    BY <1>2 DEF TurnsOK, Idle, Publishers
  <2>3. \A w \in Publishers : pubs'[w].pc = "set" => pubs'[w].prev = stored'
    BY <1>2, <1>3, <2>2 DEF TurnsOK, Idle
  <2>4. "parse" \in Publishers /\ "docx" \in Publishers /\ "main" \in Publishers
    BY DEF Publishers
  <2> QED
    BY <1>2, <2>1, <2>3, <2>4 DEF TurnsOK
<1>7. ClaimsOK'
  <2> SUFFICES ASSUME run.before.segs = Unsaid, NEW c \in Claims' PROVE Modest(c)'
    BY <1>1 DEF ClaimsOK, Modest
  <2>1. c \in Claims \/ c \in {p.new, p.prev, s}
    <3> HIDE DEF Publishers
    <3> QED
      BY <1>3 DEF Claims
  <2>2. c.segs = Unsaid \/ \E d \in Claims : c.segs = d.segs
    BY <2>1
  <2>3. CASE c.segs = Unsaid
    <3>1. pc = "translate" => Len(segments) > 0
      BY <1>2 DEF PhaseOK
    <3> QED
      BY <1>1, <1>2, <2>3, <3>1 DEF Modest, Unsaid
  <2>4. CASE \E d \in Claims : c.segs = d.segs
    BY <1>1, <1>2, <2>4 DEF ClaimsOK, Modest
  <2> QED
    BY <2>2, <2>3, <2>4
<1>8. PulsesOK'
  BY <1>1, <1>2 DEF PulsesOK
<1> QED
  BY <1>4, <1>5, <1>6, <1>7, <1>8 DEF MainInv

LEMMA MergedIs ==
  ASSUME NEW prev \in Entries, NEW new \in Entries
  PROVE  /\ Merged(prev, new) \in Entries
         /\ Merged(prev, new).segs \in {prev.segs, new.segs}
         /\ Merged(prev, new).pct >= prev.pct
         /\ Merged(prev, new).stage = IF prev.pct > new.pct THEN prev.stage ELSE new.stage
<1>1. /\ prev.pct \in 0 .. 100 /\ new.pct \in 0 .. 100 /\ {prev.stage, new.stage} \subseteq Range(Stages)
      /\ {prev.segs, new.segs} \subseteq Nat \cup {Unsaid} /\ OfStage(prev) /\ OfStage(new)
  BY DEF Entries
<1>2. Max({prev.pct, new.pct}) = IF prev.pct >= new.pct THEN prev.pct ELSE new.pct
  <2>1. prev.pct \in Int /\ new.pct \in Int
    BY <1>1
  <2> QED
    BY <2>1, MaxOfTwo
<1>3. PICK m : m = Merged(prev, new)
  OBVIOUS
<1>4. /\ m \in [pct : 0 .. 100, stage : Range(Stages), segs : Nat \cup {Unsaid}]
      /\ m.pct = Max({prev.pct, new.pct}) /\ m.segs \in {prev.segs, new.segs}
      /\ m.stage = IF prev.pct > new.pct THEN prev.stage ELSE new.stage
  BY <1>1, <1>2, <1>3 DEF Merged
<1>5. OfStage(m)
  <2>1. CASE prev.pct > new.pct
    BY <1>1, <1>2, <1>4, <2>1, SMTT(60) DEF OfStage
  <2>2. CASE ~(prev.pct > new.pct)
    <3>1. m.pct = new.pct /\ m.stage = new.stage
      BY <1>1, <1>2, <1>4, <2>2, SMTT(60)
    <3> QED
      BY <1>1, <3>1 DEF OfStage
  <2> QED
    BY <2>1, <2>2
<1>6. m.pct >= prev.pct
  BY <1>1, <1>2, <1>4, SMTT(60)
<1> QED
  BY <1>3, <1>4, <1>5, <1>6 DEF Entries

\* What a thread has read and what it will write are claims.
LEMMA ItsClaims ==
  ASSUME BarOK, NEW who \in Publishers
  PROVE  /\ pubs[who] \in Pubs /\ pubs[who].new \in Entries /\ pubs[who].prev \in Entries
         /\ stored \in Claims /\ pubs[who].new \in Claims /\ pubs[who].prev \in Claims
<1>1. pubs[who] \in Pubs
  BY DEF BarOK
<1>2. pubs[who].new \in Entries /\ pubs[who].prev \in Entries
  <2> HIDE DEF Entries
  <2> QED
    BY <1>1 DEF Pubs
<1> HIDE DEF Publishers, Pubs, Entries
<1> QED
  BY <1>1, <1>2 DEF Claims

LEMMA PublisherKeeps ==
  ASSUME BatchInv, MainInv, NEW who \in Publishers, PublishStep(who) \/ PublishFault(who)
  PROVE  MainInv'
<1>1. /\ BarOK /\ stored \in Entries /\ faults \in 0 .. run.faults /\ run.faults \in Nat
      /\ pubs[who] \in Pubs /\ pubs[who].new \in Entries /\ pubs[who].prev \in Entries
      /\ stored \in Claims /\ pubs[who].new \in Claims /\ pubs[who].prev \in Claims
  BY MainFacts, ItsClaims
<1>2. CASE PublishGet(who) /\ UNCHANGED <<pc, batchVars>>
  <2>1. PICK p : p = [pubs[who] EXCEPT !.pc = "set", !.prev = stored]
    OBVIOUS
  <2>2. p \in Pubs /\ p.pc = "set" /\ p.prev = stored /\ p.new = pubs[who].new
    <3> HIDE DEF Entries
    <3> QED
      BY <1>1, <2>1 DEF Pubs
  <2>3. pubs' = [pubs EXCEPT ![who] = p] /\ stored' = stored /\ ~Idle(who) /\ faults' = faults
    <3>1. pubs' = [pubs EXCEPT ![who].pc = "set", ![who].prev = stored] /\ pubs[who].pc = "get"
      BY <1>2 DEF PublishGet
    <3>2. [pubs EXCEPT ![who].pc = "set", ![who].prev = stored] = [pubs EXCEPT ![who] = [pubs[who] EXCEPT !.pc = "set", !.prev = stored]]
      BY <1>1 DEF BarOK, Pubs
    <3> QED
      BY <1>2, <2>1, <3>1, <3>2 DEF PublishGet, Idle
  <2>4. \A n \in {p.new.segs, p.prev.segs, stored.segs} : \E c \in Claims : n = c.segs
    BY <1>1, <2>2
  <2>5. UNCHANGED <<pc, batchVars, bar, pulses, late>> /\ faults' \in 0 .. run.faults
    BY <1>1, <1>2, <2>3 DEF PublishGet
  <2> HIDE DEF Pubs, Entries, Publishers
  <2> QED
    BY <1>1, <2>2, <2>3, <2>4, <2>5, PublishKeeps
<1>3. CASE PublishSet(who) /\ UNCHANGED <<pc, batchVars>>
  <2>1. PICK s : s = Merged(pubs[who].prev, pubs[who].new)
    OBVIOUS
  <2>2. s \in Entries /\ s.segs \in {pubs[who].prev.segs, pubs[who].new.segs}
    BY <1>1, <2>1, MergedIs
  <2>3. pubs' = [pubs EXCEPT ![who] = Silent] /\ stored' = s /\ ~Idle(who) /\ faults' = faults
    BY <1>3, <2>1 DEF PublishSet, Idle
  <2>4. \A n \in {Silent.new.segs, Silent.prev.segs, s.segs} : n = Unsaid \/ \E c \in Claims : n = c.segs
    BY <1>1, <2>2, EntriesOK
  <2>5. UNCHANGED <<pc, batchVars, bar, pulses, late>> /\ faults' \in 0 .. run.faults
    BY <1>1, <1>3, <2>3 DEF PublishSet
  <2>6. Silent \in Pubs /\ Silent.pc = "idle"
    BY EntriesOK
  <2> HIDE DEF Pubs, Entries, Publishers
  <2> QED
    BY <2>2, <2>3, <2>4, <2>5, <2>6, PublishKeeps
<1>4. CASE PublishFails(who, run.faults) /\ UNCHANGED <<pc, batchVars>>
  <2>1. pubs' = [pubs EXCEPT ![who] = Silent] /\ stored' = stored /\ ~Idle(who) /\ faults < run.faults /\ faults' = faults + 1
    BY <1>4 DEF PublishFails
  <2>2. faults' \in 0 .. run.faults
    BY <1>1, <2>1
  <2>3. \A n \in {Silent.new.segs, Silent.prev.segs, stored.segs} : n = Unsaid \/ \E c \in Claims : n = c.segs
    BY <1>1, EntriesOK
  <2>4. UNCHANGED <<pc, batchVars, bar, pulses, late>>
    BY <1>4 DEF PublishFails
  <2>5. Silent \in Pubs /\ Silent.pc = "idle"
    BY EntriesOK
  <2> HIDE DEF Pubs, Entries, Publishers
  <2> QED
    BY <1>1, <2>1, <2>2, <2>3, <2>4, <2>5, PublishKeeps
<1> QED
  BY <1>2, <1>3, <1>4 DEF PublishStep, PublishFault

-----------------------------------------------------------------------------
(* The invariant *)

LEMMA BatchesOpened ==
  ASSUME GivenOK, OpenBatches
  PROVE  BatchInv
<1>1. /\ task = [b \in DOMAIN batches |-> NewTask] /\ single = [i \in DOMAIN segments |-> NewSingle]
      /\ got = [i \in DOMAIN segments |-> NoText] /\ results = got
      /\ cache = run.cached /\ doneBatches = 0 /\ failing = FALSE
  BY DEF OpenBatches
<1>2. NewTask \in Tasks /\ NewTask.pc = "waiting" /\ Range(NewTask.misses) = {} /\ NewTask.format = 1 /\ NewTask.failures = 0 /\ NewTask.calls = 0
  <2>1. <<>> \in Seq(Nat) /\ Range(<<>>) = {} /\ 1 \in 1 .. Formats /\ 0 \in 0 .. Retries - 1 /\ "waiting" \in TaskPcs
    BY Settings DEF Range, TaskPcs
  <2> HIDE DEF TaskPcs
  <2> QED
    BY <2>1 DEF NewTask, Tasks
<1>3. NewSingle \in Singles /\ NewSingle.pc = "none"
  <2>1. 0 \in 0 .. Retries - 1
    BY Settings
  <2> QED
    BY <2>1 DEF NewSingle, Singles, SinglePcs
<1>4. \A b \in DOMAIN batches : task[b] = NewTask
  BY <1>1
<1>5. \A i \in DOMAIN segments : single[i] = NewSingle /\ got[i] = NoText /\ results[i] = NoText
  BY <1>1
<1>6. \A b \in DOMAIN batches : Range(batches[b]) \subseteq DOMAIN segments
  BY Placed
<1>7. TasksOK
  <2> HIDE DEF Tasks, Singles
  <2> QED
    BY <1>1, <1>2, <1>3, <1>4 DEF TasksOK
<1>8. AnswersOK
  <2>1. Truthful(cache)
    <3>1. ScenarioOK(run)
      BY ScenariosOK DEF GivenOK
    <3> QED
      BY <1>1, <3>1 DEF ScenarioOK
  <2>2. got \in [DOMAIN segments -> TextType \cup {NoText}]
    BY <1>1
  <2> QED
    BY <1>5, <2>1, <2>2 DEF AnswersOK
<1>9. Work
  BY <1>2, <1>3, <1>4, <1>5, <1>6 DEF Work, BatchWork
<1>10. ResultsOK
  <2>1. results \in [DOMAIN segments -> TextType \cup {NoText}]
    BY <1>1
  <2> QED
    BY <1>2, <1>4, <1>5, <1>6, <2>1 DEF ResultsOK
<1>11. CountOK
  <2>1. Finished = {}
    BY <1>2, <1>4 DEF Finished
  <2> QED
    BY <1>1, <2>1, FS_EmptySet DEF CountOK
<1>12. CallsOK
  BY <1>2, <1>4 DEF CallsOK
<1>13. SlotsOK
  <2>1. CallingTasks = {} /\ CallingSingles = {} /\ AtWork = {}
    BY <1>2, <1>3, <1>4, <1>5 DEF CallingTasks, CallingSingles, AtWork
  <2>2. \A b \in DOMAIN batches : Busy(b) = {}
    BY <1>3, <1>5, <1>6 DEF Busy
  <2>3. Cardinality({}) = 0
    BY FS_EmptySet
  <2>4. run.inflight \in Nat /\ run.concurrency \in Nat
    BY Settings
  <2> QED
    <3>1. Cardinality(CallingTasks) + Cardinality(CallingSingles) <= run.inflight
      BY <2>1, <2>3, <2>4
    <3>2. Cardinality(AtWork) <= run.concurrency
      BY <2>1, <2>3, <2>4
    <3>3. \A b \in DOMAIN batches : Cardinality(Busy(b)) <= 4
      BY <2>2, <2>3
    <3> QED
      BY <3>1, <3>2, <3>3 DEF SlotsOK
<1> QED
  BY <1>7, <1>8, <1>9, <1>10, <1>11, <1>12, <1>13 DEF BatchInv

LEMMA BarAtFirst ==
  ASSUME GivenOK, BatchInv, Init
  PROVE  MainInv
<1>0. ScenarioOK(run) /\ run.faults \in Nat
  BY Settings, ScenariosOK DEF GivenOK
<1>1. /\ pc \in {"parse", "classify"} /\ bar = run.before.pct /\ stored = run.before
      /\ pubs = [who \in Publishers |-> Silent]
      /\ pulses = [parse |-> 10, docx |-> 92, batch |-> 24, pulse |-> 24]
      /\ faults = 0 /\ late = FALSE /\ OpenBatches
  BY DEF Init
<1>2. run.before \in Entries /\ run.before.pct \in 0 .. 100
  <2>1. PICK p, s, n : p = run.before.pct /\ s = run.before.stage /\ n = run.before.segs
    OBVIOUS
  <2>2. run.before = [pct |-> p, stage |-> s, segs |-> n] /\ s \in Range(Stages) /\ p \in PercentsOf(s) /\ n \in Nat \cup {Unsaid}
    BY <1>0, <2>1 DEF ScenarioOK, OfStage, Entry
  <2>3. Range(Stages) = {"none", "parsing_document", "translating", "generating_file", "writing_docx", "docx_ready", "converting_to_pdf"}
    BY DEF Range, Stages
  <2>4. p \in 0 .. 100
    BY <2>2, <2>3 DEF PercentsOf
  <2> HIDE DEF Stages
  <2> QED
    BY <2>1, <2>2, <2>4 DEF Entries, OfStage
<1>3. BarOK
  <2>1. pulses \in [parse : 10 .. 13, docx : 92 .. 95, batch : 24 .. 88, pulse : Nat]
    BY <1>1
  <2>2. pubs \in [Publishers -> Pubs]
    <3> HIDE DEF Pubs, Publishers
    <3> QED
      BY <1>1, EntriesOK
  <2>3. faults \in 0 .. run.faults
    BY <1>0, <1>1
  <2>4. late \in BOOLEAN
    BY <1>1
  <2> QED
    BY <1>1, <1>2, <2>1, <2>2, <2>3, <2>4 DEF BarOK
<1>4. PhaseOK
  <2>1. failing = FALSE /\ task = [b \in DOMAIN batches |-> NewTask]
    BY <1>1 DEF OpenBatches
  <2> QED
    BY <1>1, <2>1 DEF PhaseOK, Phases, NewTask
<1>5. TurnsOK
  BY <1>1, EntriesOK DEF TurnsOK, Idle, Publishers
<1>6. ClaimsOK
  <2> SUFFICES ASSUME run.before.segs = Unsaid, NEW c \in Claims PROVE c.segs <= 0
    BY <1>1 DEF ClaimsOK
  <2>1. c.segs = Unsaid
    <3> HIDE DEF Publishers
    <3> QED
      BY <1>1, EntriesOK DEF Claims
  <2> QED
    BY <2>1 DEF Unsaid
<1>7. PulsesOK
  BY <1>1 DEF PulsesOK
<1> QED
  BY <1>3, <1>4, <1>5, <1>6, <1>7 DEF MainInv

LEMMA InvIs == Inv <=> BatchInv /\ MainInv
BY DEF Inv, BatchInv, MainInv

LEMMA NextKeeps ==
  ASSUME Inv, [Next]_vars
  PROVE  Inv'
<1>0. BatchInv /\ MainInv
  BY InvIs
<1>q. ASSUME BatchInv', MainInv' PROVE Inv'
  BY <1>q DEF Inv, BatchInv, MainInv
<1>1. CASE Main
  <2>1. UNCHANGED batchVars
    BY <1>1 DEF Main, ParseDone, ParseFails, Plan, SkipTranslation, Start, Close, Reassemble, WriteBegin, WriteDone, WriteFails, Export, ShowDone, Fail
  <2>2. BatchInv'
    BY <1>0, <2>1, BatchStutters
  <2>3. MainInv'
    BY <1>0, <1>1, ParseDoneKeeps, ParseFailsKeeps, PlanKeeps, SkipTranslationKeeps, StartKeeps, CloseKeeps, ReassembleKeeps,
       WriteBeginKeeps, WriteDoneKeeps, WriteFailsKeeps, ExportKeeps, ShowDoneKeeps DEF Main
  <2> QED
    BY <1>q, <2>2, <2>3
<1>2. CASE Ticks
  <2>1. UNCHANGED batchVars
    BY <1>2 DEF Ticks, ParseTick, DocxTick, Pulse
  <2>2. BatchInv'
    BY <1>0, <2>1, BatchStutters
  <2>3. MainInv'
    BY <1>0, <1>2, ParseTickKeeps, DocxTickKeeps, PulseKeeps DEF Ticks
  <2> QED
    BY <1>q, <2>2, <2>3
<1>3. CASE \E who \in Publishers : PublishStep(who) \/ PublishFault(who)
  <2>1. PICK who \in Publishers : PublishStep(who) \/ PublishFault(who)
    BY <1>3
  <2>2. UNCHANGED batchVars
    BY <2>1 DEF PublishStep, PublishFault
  <2>3. BatchInv'
    BY <1>0, <2>2, BatchStutters
  <2>4. MainInv'
    BY <1>0, <2>1, PublisherKeeps
  <2> QED
    BY <1>q, <2>3, <2>4
<1>4. CASE \E b \in DOMAIN task : Step(b) \/ Finish(b)
  <2>1. PICK b \in DOMAIN task : Step(b) \/ Finish(b)
    BY <1>4
  <2>2. CASE Step(b)
    <3>1. TaskStep(b) /\ pc = "translate" /\ UNCHANGED <<pc, bar, stored, pubs, pulses, late>>
      BY <2>2 DEF Step, At
    <3>2. BatchInv'
      BY <1>0, <3>1, TaskStepKeeps
    <3>3. MainInv'
      BY <1>0, <3>1, StepKeeps
    <3> QED
      BY <1>q, <3>2, <3>3
  <2>3. CASE Finish(b)
    <3>1. BatchInv' /\ MainInv'
      BY <1>0, <2>3, FinishKeeps
    <3> QED
      BY <1>q, <3>1
  <2> QED
    BY <2>1, <2>2, <2>3
<1>5. CASE \E i \in DOMAIN single : StepOne(i)
  <2>1. PICK i \in DOMAIN single : StepOne(i)
    BY <1>5
  <2>2. SingleStep(i) /\ pc = "translate" /\ UNCHANGED <<pc, bar, stored, pubs, pulses, late>>
    BY <2>1 DEF StepOne, At
  <2>3. BatchInv'
    BY <1>0, <2>2, SingleStepsKeep
  <2>4. MainInv'
    BY <1>0, <2>2, StepKeeps
  <2> QED
    BY <1>q, <2>3, <2>4
<1>6. CASE UNCHANGED vars
  <2>1. UNCHANGED batchVars /\ UNCHANGED progressVars /\ pc' = pc
    BY <1>6 DEF vars
  <2>2. BatchInv'
    BY <1>0, <2>1, BatchStutters
  <2>3. UNCHANGED <<run, segments, batches, task, doneBatches, failing, bar, stored, pubs, pulses, faults, late>>
    BY <2>1, Elsewhere DEF progressVars
  <2>4. BarOK'
    BY <1>0, <2>3 DEF MainInv, BarOK
  <2>5. PhaseOK'
    BY <1>0, <2>1, <2>3 DEF MainInv, PhaseOK
  <2>6. TurnsOK'
    BY <1>0, <2>1, <2>3 DEF MainInv, TurnsOK, Idle
  <2>7. ClaimsOK'
    BY <1>0, <2>1, <2>3 DEF MainInv, ClaimsOK, Claims
  <2>8. PulsesOK'
    BY <1>0, <2>3 DEF MainInv, PulsesOK
  <2>9. MainInv'
    BY <2>4, <2>5, <2>6, <2>7, <2>8 DEF MainInv
  <2> QED
    BY <1>q, <2>2, <2>9
<1> QED
  BY <1>1, <1>2, <1>3, <1>4, <1>5, <1>6 DEF Next

-----------------------------------------------------------------------------
(* The plan: what is sent are texts *)

\* A text with another first word is a text.
LEMMA SetBreakIs ==
  ASSUME NEW t \in TextType, NEW broken \in BOOLEAN
  PROVE  SetBreak(t, broken) \in TextType
<1>1. CASE t = <<>>
  BY <1>1 DEF SetBreak
<1>2. CASE t # <<>>
  <2>1. t \in Seq(WordType) /\ t[1] \in WordType /\ 1 \in 1 .. Len(t)
    BY <1>2 DEF TextType
  <2>2. [t[1] EXCEPT !.broken = broken] \in WordType
    BY <2>1 DEF WordType
  <2>3. PICK w \in WordType : w = [t[1] EXCEPT !.broken = broken]
    BY <2>2
  <2>4. SetBreak(t, broken) = [t EXCEPT ![1] = w]
    BY <1>2, <2>3 DEF SetBreak
  <2>5. [t EXCEPT ![1] = w] \in Seq(WordType)
    <3> HIDE DEF WordType
    <3> QED
      BY <2>1, <2>3
  <2> QED
    BY <2>4, <2>5 DEF TextType
<1> QED
  BY <1>1, <1>2

\* A group takes in one more, or a new one is opened.
LEMMA GroupGrows ==
  ASSUME NEW S, NEW gs \in Seq(Seq(S) \ {<<>>}), NEW x \in S
  PROVE  /\ Append(gs, <<x>>) \in Seq(Seq(S) \ {<<>>})
         /\ gs # <<>> => [gs EXCEPT ![Len(gs)] = Append(@, x)] \in Seq(Seq(S) \ {<<>>})
<1>1. <<x>> \in Seq(S) \ {<<>>}
  OBVIOUS
<1>2. ASSUME gs # <<>> PROVE [gs EXCEPT ![Len(gs)] = Append(@, x)] \in Seq(Seq(S) \ {<<>>})
  <2>1. Len(gs) \in DOMAIN gs /\ gs[Len(gs)] \in Seq(S)
    BY <1>2
  <2>2. PICK g : g = Append(gs[Len(gs)], x)
    OBVIOUS
  <2>3. g \in Seq(S) \ {<<>>}
    BY <2>1, <2>2
  <2>4. [gs EXCEPT ![Len(gs)] = g] \in Seq(Seq(S) \ {<<>>})
    BY <2>1, <2>3
  <2> QED
    BY <2>2, <2>4
<1> QED
  BY <1>1, <1>2

\* " ".join and "\n\n".join.
LEMMA JoinedIs ==
  ASSUME NEW ts \in Seq(TextType), NEW broken \in BOOLEAN
  PROVE  Joined(ts, broken) \in TextType
<1> DEFINE n == Len(ts)
           W == TextType
           op(v, x) == v \o SetBreak(x, broken /\ v # <<>>)
           G == [p \in W \X (1 .. n) |-> op(p[1], ts[p[2]])]
           P(iter) == iter = [s \in SUBSET (1 .. n) |-> IF s = {} THEN <<>> ELSE op(iter[s \ {Max(s)}], ts[Max(s)])]
           c == CHOOSE iter : P(iter)
<1>1. n \in Nat /\ DOMAIN ts = 1 .. n
  OBVIOUS
<1>2. Joined(ts, broken) = c[1 .. n]
  BY <1>1 DEF Joined, FoldLeft, MapThenFoldSet
<1>3. <<>> \in W /\ \A k \in 1 .. n : \A v \in W : op(v, ts[k]) \in W
  <2>1. <<>> \in TextType
    BY DEF TextType
  <2>2. ASSUME NEW k \in 1 .. n, NEW v \in TextType PROVE op(v, ts[k]) \in TextType
    <3>1. ts[k] \in TextType /\ (broken /\ v # <<>>) \in BOOLEAN
      BY <2>2
    <3>2. PICK b \in BOOLEAN : b = (broken /\ v # <<>>)
      BY <3>1
    <3>3. SetBreak(ts[k], b) \in TextType
      BY <3>1, SetBreakIs
    <3>4. v \o SetBreak(ts[k], b) \in TextType
      BY <3>3 DEF TextType
    <3> QED
      BY <3>2, <3>4
  <2> QED
    BY <2>1, <2>2
<1>4. \A k \in 1 .. n : \A v \in W : G[<<v, k>>] = op(v, ts[k])
  <2> HIDE DEF op, n, W
  <2> QED
    OBVIOUS
<1>5. PICK f : Folds(f, <<>>, G, 1 .. n)
  <2> HIDE DEF G, n
  <2> QED
    BY <1>1, FoldsExist
<1>6. \A s \in SUBSET (1 .. n) : f[s] \in W
  <2> HIDE DEF G, n, W, op
  <2>1. <<>> \in W /\ \A k \in 1 .. n : \A v \in W : G[<<v, k>>] \in W
    BY <1>3, <1>4
  <2> QED
    BY <1>1, <1>5, <2>1, FoldsStay
<1>7. \A s \in SUBSET (1 .. n) : s # {} => Max(s) \in s
  <2> HIDE DEF n
  <2> QED
    BY <1>1, MaxIn
<1>8. \A s \in SUBSET (1 .. n) : f[s] = IF s = {} THEN <<>> ELSE op(f[s \ {Max(s)}], ts[Max(s)])
  <2> HIDE DEF G, n, W, op
  <2> QED
    BY <1>4, <1>5, <1>6, <1>7 DEF Folds
<1>9. P(f)
  <2> DEFINE h == [s \in SUBSET (1 .. n) |-> IF s = {} THEN <<>> ELSE op(f[s \ {Max(s)}], ts[Max(s)])]
  <2>1. f = [s \in SUBSET (1 .. n) |-> f[s]] /\ h = [s \in SUBSET (1 .. n) |-> h[s]]
    <3> HIDE DEF G, n, op
    <3> QED
      BY <1>5 DEF Folds
  <2>2. \A s \in SUBSET (1 .. n) : f[s] = h[s]
    <3> HIDE DEF op, n
    <3> QED
      BY <1>8
  <2>3. f = h
    <3> HIDE DEF h, n
    <3> QED
      BY <2>1, <2>2, Zenon
  <2> QED
    BY <2>3
<1>10. P(c)
  <2> HIDE DEF P
  <2> QED
    BY <1>9, Zenon
<1>11. \A s \in SUBSET (1 .. n) : c[s] = IF s = {} THEN <<>> ELSE op(c[s \ {Max(s)}], ts[Max(s)])
  <2> HIDE DEF op, n, c
  <2> QED
    BY <1>10
<1>12. c[1 .. n] = f[1 .. n]
  <2> HIDE DEF op, n, c, P, G
  <2>1. {} \in SUBSET (1 .. n)
    OBVIOUS
  <2>2. c[{}] = f[{}]
    BY <1>8, <1>11, <2>1
  <2>3. \A s \in SUBSET (1 .. n) : s # {} /\ c[s \ {Max(s)}] = f[s \ {Max(s)}] => c[s] = f[s]
    BY <1>8, <1>11
  <2>4. GoOnAlike(c, f, n)
    BY <2>2, <2>3 DEF GoOnAlike
  <2> QED
    BY <1>1, <2>4, FoldsAgree
<1> HIDE DEF c, P, n, W
<1> QED
  BY <1>1, <1>2, <1>6, <1>12 DEF W

\* Concat.
LEMMA ConcatIs ==
  ASSUME NEW S, NEW seqs \in Seq(Seq(S))
  PROVE  Concat(seqs) \in Seq(S)
<1> DEFINE n == Len(seqs)
           W == Seq(S)
           op(v, x) == v \o x
           G == [p \in W \X (1 .. n) |-> op(p[1], seqs[p[2]])]
           P(iter) == iter = [s \in SUBSET (1 .. n) |-> IF s = {} THEN <<>> ELSE op(iter[s \ {Max(s)}], seqs[Max(s)])]
           c == CHOOSE iter : P(iter)
<1>1. n \in Nat /\ DOMAIN seqs = 1 .. n
  OBVIOUS
<1>2. Concat(seqs) = c[1 .. n]
  BY <1>1 DEF Concat, Once, FoldLeft, MapThenFoldSet
<1>3. <<>> \in W /\ \A k \in 1 .. n : \A v \in W : op(v, seqs[k]) \in W
  OBVIOUS
<1>4. \A k \in 1 .. n : \A v \in W : G[<<v, k>>] = op(v, seqs[k])
  <2> HIDE DEF op, n, W
  <2> QED
    OBVIOUS
<1>5. PICK f : Folds(f, <<>>, G, 1 .. n)
  <2> HIDE DEF G, n
  <2> QED
    BY <1>1, FoldsExist
<1>6. \A s \in SUBSET (1 .. n) : f[s] \in W
  <2> HIDE DEF G, n, W, op
  <2>1. <<>> \in W /\ \A k \in 1 .. n : \A v \in W : G[<<v, k>>] \in W
    BY <1>3, <1>4
  <2> QED
    BY <1>1, <1>5, <2>1, FoldsStay
<1>7. \A s \in SUBSET (1 .. n) : s # {} => Max(s) \in s
  <2> HIDE DEF n
  <2> QED
    BY <1>1, MaxIn
<1>8. \A s \in SUBSET (1 .. n) : f[s] = IF s = {} THEN <<>> ELSE op(f[s \ {Max(s)}], seqs[Max(s)])
  <2> HIDE DEF G, n, W, op
  <2> QED
    BY <1>4, <1>5, <1>6, <1>7 DEF Folds
<1>9. P(f)
  <2> DEFINE h == [s \in SUBSET (1 .. n) |-> IF s = {} THEN <<>> ELSE op(f[s \ {Max(s)}], seqs[Max(s)])]
  <2>1. f = [s \in SUBSET (1 .. n) |-> f[s]] /\ h = [s \in SUBSET (1 .. n) |-> h[s]]
    <3> HIDE DEF G, n, op
    <3> QED
      BY <1>5 DEF Folds
  <2>2. \A s \in SUBSET (1 .. n) : f[s] = h[s]
    <3> HIDE DEF op, n
    <3> QED
      BY <1>8
  <2>3. f = h
    <3> HIDE DEF h, n
    <3> QED
      BY <2>1, <2>2, Zenon
  <2> QED
    BY <2>3
<1>10. P(c)
  <2> HIDE DEF P
  <2> QED
    BY <1>9, Zenon
<1>11. \A s \in SUBSET (1 .. n) : c[s] = IF s = {} THEN <<>> ELSE op(c[s \ {Max(s)}], seqs[Max(s)])
  <2> HIDE DEF op, n, c
  <2> QED
    BY <1>10
<1>12. c[1 .. n] = f[1 .. n]
  <2> HIDE DEF op, n, c, P, G
  <2>1. {} \in SUBSET (1 .. n)
    OBVIOUS
  <2>2. c[{}] = f[{}]
    BY <1>8, <1>11, <2>1
  <2>3. \A s \in SUBSET (1 .. n) : s # {} /\ c[s \ {Max(s)}] = f[s \ {Max(s)}] => c[s] = f[s]
    BY <1>8, <1>11
  <2>4. GoOnAlike(c, f, n)
    BY <2>2, <2>3 DEF GoOnAlike
  <2> QED
    BY <1>1, <2>4, FoldsAgree
<1> HIDE DEF c, P, n, W
<1> QED
  BY <1>1, <1>2, <1>6, <1>12 DEF W

\* The places of the parts of a text.
LEMMA PartPlacesAre ==
  ASSUME NEW t, NEW From, NEW n0 \in Nat, NEW items \in Seq(1 .. n0), items = Indices(t)
  PROVE  PartPlaces(t, From) \in Seq(Seq(1 .. n0) \ {<<>>})
<1> DEFINE n == Len(items)
           W == Seq(Seq(1 .. n0) \ {<<>>})
           op(v, x) == IF v # <<>> /\ x \notin From THEN [v EXCEPT ![Len(v)] = Append(@, x)] ELSE Append(v, <<x>>)
           G == [p \in W \X (1 .. n) |-> op(p[1], items[p[2]])]
           P(iter) == iter = [s \in SUBSET (1 .. n) |-> IF s = {} THEN <<>> ELSE op(iter[s \ {Max(s)}], items[Max(s)])]
           c == CHOOSE iter : P(iter)
<1>1. n \in Nat /\ DOMAIN items = 1 .. n
  OBVIOUS
<1>2. PartPlaces(t, From) = c[1 .. n]
  <2> DEFINE at(seq) == (CHOOSE iter : iter = [s \in SUBSET (DOMAIN seq) |->
                           IF s = {} THEN <<>> ELSE op(iter[s \ {Max(s)}], seq[Max(s)])])[DOMAIN seq]
  <2>1. PartPlaces(t, From) = CHOOSE r \in {at(v) : v \in {Indices(t)}} : TRUE
    BY DEF PartPlaces, GroupWhile, Once, FoldLeft, MapThenFoldSet
  <2>2. at(items) = c[1 .. n]
    BY <1>1
  <2> HIDE DEF at, c
  <2> QED
    BY <2>1, <2>2
<1>3. <<>> \in W /\ \A k \in 1 .. n : \A v \in W : op(v, items[k]) \in W
  <2>1. ASSUME NEW k \in 1 .. n, NEW v \in Seq(Seq(1 .. n0) \ {<<>>}) PROVE op(v, items[k]) \in Seq(Seq(1 .. n0) \ {<<>>})
    <3>1. items[k] \in 1 .. n0
      BY <2>1
    <3>2. PICK x \in 1 .. n0 : x = items[k]
      BY <3>1
    <3>3. Append(v, <<x>>) \in Seq(Seq(1 .. n0) \ {<<>>}) /\ (v # <<>> => [v EXCEPT ![Len(v)] = Append(@, x)] \in Seq(Seq(1 .. n0) \ {<<>>}))
      BY <3>2, GroupGrows
    <3>4. op(v, x) = Append(v, <<x>>) \/ (v # <<>> /\ op(v, x) = [v EXCEPT ![Len(v)] = Append(@, x)])
      OBVIOUS
    <3>5. op(v, x) \in Seq(Seq(1 .. n0) \ {<<>>})
      BY <3>3, <3>4
    <3> QED
      BY <3>2, <3>5
  <2>2. <<>> \in Seq(Seq(1 .. n0) \ {<<>>})
    OBVIOUS
  <2> QED
    BY <2>1, <2>2
<1>4. \A k \in 1 .. n : \A v \in W : G[<<v, k>>] = op(v, items[k])
  <2> HIDE DEF op, n, W
  <2> QED
    OBVIOUS
<1>5. PICK f : Folds(f, <<>>, G, 1 .. n)
  <2> HIDE DEF G, n
  <2> QED
    BY <1>1, FoldsExist
<1>6. \A s \in SUBSET (1 .. n) : f[s] \in W
  <2> HIDE DEF G, n, W, op
  <2>1. <<>> \in W /\ \A k \in 1 .. n : \A v \in W : G[<<v, k>>] \in W
    BY <1>3, <1>4
  <2> QED
    BY <1>1, <1>5, <2>1, FoldsStay
<1>7. \A s \in SUBSET (1 .. n) : s # {} => Max(s) \in s
  <2> HIDE DEF n
  <2> QED
    BY <1>1, MaxIn
<1>8. \A s \in SUBSET (1 .. n) : f[s] = IF s = {} THEN <<>> ELSE op(f[s \ {Max(s)}], items[Max(s)])
  <2> HIDE DEF G, n, W, op
  <2> QED
    BY <1>4, <1>5, <1>6, <1>7 DEF Folds
<1>9. P(f)
  <2> DEFINE h == [s \in SUBSET (1 .. n) |-> IF s = {} THEN <<>> ELSE op(f[s \ {Max(s)}], items[Max(s)])]
  <2>1. f = [s \in SUBSET (1 .. n) |-> f[s]] /\ h = [s \in SUBSET (1 .. n) |-> h[s]]
    <3> HIDE DEF G, n, op
    <3> QED
      BY <1>5 DEF Folds
  <2>2. \A s \in SUBSET (1 .. n) : f[s] = h[s]
    <3> HIDE DEF op, n
    <3> QED
      BY <1>8
  <2>3. f = h
    <3> HIDE DEF h, n
    <3> QED
      BY <2>1, <2>2, Zenon
  <2> QED
    BY <2>3
<1>10. P(c)
  <2> HIDE DEF P
  <2> QED
    BY <1>9, Zenon
<1>11. \A s \in SUBSET (1 .. n) : c[s] = IF s = {} THEN <<>> ELSE op(c[s \ {Max(s)}], items[Max(s)])
  <2> HIDE DEF op, n, c
  <2> QED
    BY <1>10
<1>12. c[1 .. n] = f[1 .. n]
  <2> HIDE DEF op, n, c, P, G
  <2>1. {} \in SUBSET (1 .. n)
    OBVIOUS
  <2>2. c[{}] = f[{}]
    BY <1>8, <1>11, <2>1
  <2>3. \A s \in SUBSET (1 .. n) : s # {} /\ c[s \ {Max(s)}] = f[s \ {Max(s)}] => c[s] = f[s]
    BY <1>8, <1>11
  <2>4. GoOnAlike(c, f, n)
    BY <2>2, <2>3 DEF GoOnAlike
  <2> QED
    BY <1>1, <2>4, FoldsAgree
<1> HIDE DEF c, P, n, W
<1> QED
  BY <1>1, <1>2, <1>6, <1>12 DEF W

\* Chunks of words.
LEMMA FullChunksAre ==
  ASSUME NEW t \in Seq(WordType)
  PROVE  FullChunks(t) \in Seq(Seq(WordType) \ {<<>>})
<1> DEFINE n == Len(t)
           W == Seq(Seq(WordType) \ {<<>>})
           op(v, x) == IF v # <<>> /\ Len(Last(v)) < ChunkMax THEN [v EXCEPT ![Len(v)] = Append(@, x)] ELSE Append(v, <<x>>)
           G == [p \in W \X (1 .. n) |-> op(p[1], t[p[2]])]
           P(iter) == iter = [s \in SUBSET (1 .. n) |-> IF s = {} THEN <<>> ELSE op(iter[s \ {Max(s)}], t[Max(s)])]
           c == CHOOSE iter : P(iter)
<1>1. n \in Nat /\ DOMAIN t = 1 .. n
  OBVIOUS
<1>2. FullChunks(t) = c[1 .. n]
  <2> DEFINE at(seq) == (CHOOSE iter : iter = [s \in SUBSET (DOMAIN seq) |->
                           IF s = {} THEN <<>> ELSE op(iter[s \ {Max(s)}], seq[Max(s)])])[DOMAIN seq]
  <2>1. FullChunks(t) = CHOOSE r \in {at(v) : v \in {t}} : TRUE
    BY DEF FullChunks, GroupWhile, Once, FoldLeft, MapThenFoldSet
  <2>2. at(t) = c[1 .. n]
    BY <1>1
  <2> HIDE DEF at, c
  <2> QED
    BY <2>1, <2>2
<1>3. <<>> \in W /\ \A k \in 1 .. n : \A v \in W : op(v, t[k]) \in W
  <2>1. ASSUME NEW k \in 1 .. n, NEW v \in Seq(Seq(WordType) \ {<<>>}) PROVE op(v, t[k]) \in Seq(Seq(WordType) \ {<<>>})
    <3>1. t[k] \in WordType
      BY <2>1
    <3>2. PICK x \in WordType : x = t[k]
      BY <3>1
    <3>3. Append(v, <<x>>) \in Seq(Seq(WordType) \ {<<>>}) /\ (v # <<>> => [v EXCEPT ![Len(v)] = Append(@, x)] \in Seq(Seq(WordType) \ {<<>>}))
      BY <3>2, GroupGrows
    <3>4. op(v, x) = Append(v, <<x>>) \/ (v # <<>> /\ op(v, x) = [v EXCEPT ![Len(v)] = Append(@, x)])
      OBVIOUS
    <3>5. op(v, x) \in Seq(Seq(WordType) \ {<<>>})
      BY <3>3, <3>4
    <3> QED
      BY <3>2, <3>5
  <2>2. <<>> \in Seq(Seq(WordType) \ {<<>>})
    OBVIOUS
  <2> QED
    BY <2>1, <2>2
<1>4. \A k \in 1 .. n : \A v \in W : G[<<v, k>>] = op(v, t[k])
  <2> HIDE DEF op, n, W
  <2> QED
    OBVIOUS
<1>5. PICK f : Folds(f, <<>>, G, 1 .. n)
  <2> HIDE DEF G, n
  <2> QED
    BY <1>1, FoldsExist
<1>6. \A s \in SUBSET (1 .. n) : f[s] \in W
  <2> HIDE DEF G, n, W, op
  <2>1. <<>> \in W /\ \A k \in 1 .. n : \A v \in W : G[<<v, k>>] \in W
    BY <1>3, <1>4
  <2> QED
    BY <1>1, <1>5, <2>1, FoldsStay
<1>7. \A s \in SUBSET (1 .. n) : s # {} => Max(s) \in s
  <2> HIDE DEF n
  <2> QED
    BY <1>1, MaxIn
<1>8. \A s \in SUBSET (1 .. n) : f[s] = IF s = {} THEN <<>> ELSE op(f[s \ {Max(s)}], t[Max(s)])
  <2> HIDE DEF G, n, W, op
  <2> QED
    BY <1>4, <1>5, <1>6, <1>7 DEF Folds
<1>9. P(f)
  <2> DEFINE h == [s \in SUBSET (1 .. n) |-> IF s = {} THEN <<>> ELSE op(f[s \ {Max(s)}], t[Max(s)])]
  <2>1. f = [s \in SUBSET (1 .. n) |-> f[s]] /\ h = [s \in SUBSET (1 .. n) |-> h[s]]
    <3> HIDE DEF G, n, op
    <3> QED
      BY <1>5 DEF Folds
  <2>2. \A s \in SUBSET (1 .. n) : f[s] = h[s]
    <3> HIDE DEF op, n
    <3> QED
      BY <1>8
  <2>3. f = h
    <3> HIDE DEF h, n
    <3> QED
      BY <2>1, <2>2, Zenon
  <2> QED
    BY <2>3
<1>10. P(c)
  <2> HIDE DEF P
  <2> QED
    BY <1>9, Zenon
<1>11. \A s \in SUBSET (1 .. n) : c[s] = IF s = {} THEN <<>> ELSE op(c[s \ {Max(s)}], t[Max(s)])
  <2> HIDE DEF op, n, c
  <2> QED
    BY <1>10
<1>12. c[1 .. n] = f[1 .. n]
  <2> HIDE DEF op, n, c, P, G
  <2>1. {} \in SUBSET (1 .. n)
    OBVIOUS
  <2>2. c[{}] = f[{}]
    BY <1>8, <1>11, <2>1
  <2>3. \A s \in SUBSET (1 .. n) : s # {} /\ c[s \ {Max(s)}] = f[s \ {Max(s)}] => c[s] = f[s]
    BY <1>8, <1>11
  <2>4. GoOnAlike(c, f, n)
    BY <2>2, <2>3 DEF GoOnAlike
  <2> QED
    BY <1>1, <2>4, FoldsAgree
<1> HIDE DEF c, P, n, W
<1> QED
  BY <1>1, <1>2, <1>6, <1>12 DEF W

\* Groups of texts.
LEMMA ChunkGroupsAre ==
  ASSUME NEW ts \in Seq(TextType)
  PROVE  ChunkGroups(ts) \in Seq(Seq(TextType) \ {<<>>})
<1> DEFINE n == Len(ts)
           W == Seq(Seq(TextType) \ {<<>>})
           op(v, x) == IF v # <<>> /\ FitsChunk(Last(v), x) THEN [v EXCEPT ![Len(v)] = Append(@, x)] ELSE Append(v, <<x>>)
           G == [p \in W \X (1 .. n) |-> op(p[1], ts[p[2]])]
           P(iter) == iter = [s \in SUBSET (1 .. n) |-> IF s = {} THEN <<>> ELSE op(iter[s \ {Max(s)}], ts[Max(s)])]
           c == CHOOSE iter : P(iter)
<1>1. n \in Nat /\ DOMAIN ts = 1 .. n
  OBVIOUS
<1>2. ChunkGroups(ts) = c[1 .. n]
  <2> DEFINE at(seq) == (CHOOSE iter : iter = [s \in SUBSET (DOMAIN seq) |->
                           IF s = {} THEN <<>> ELSE op(iter[s \ {Max(s)}], seq[Max(s)])])[DOMAIN seq]
  <2>1. ChunkGroups(ts) = CHOOSE r \in {at(v) : v \in {ts}} : TRUE
    BY DEF ChunkGroups, GroupWhile, Once, FoldLeft, MapThenFoldSet
  <2>2. at(ts) = c[1 .. n]
    BY <1>1
  <2> HIDE DEF at, c
  <2> QED
    BY <2>1, <2>2
<1>3. <<>> \in W /\ \A k \in 1 .. n : \A v \in W : op(v, ts[k]) \in W
  <2>1. ASSUME NEW k \in 1 .. n, NEW v \in Seq(Seq(TextType) \ {<<>>}) PROVE op(v, ts[k]) \in Seq(Seq(TextType) \ {<<>>})
    <3>1. ts[k] \in TextType
      BY <2>1
    <3>2. PICK x \in TextType : x = ts[k]
      BY <3>1
    <3>3. Append(v, <<x>>) \in Seq(Seq(TextType) \ {<<>>}) /\ (v # <<>> => [v EXCEPT ![Len(v)] = Append(@, x)] \in Seq(Seq(TextType) \ {<<>>}))
      BY <3>2, GroupGrows
    <3>4. op(v, x) = Append(v, <<x>>) \/ (v # <<>> /\ op(v, x) = [v EXCEPT ![Len(v)] = Append(@, x)])
      OBVIOUS
    <3>5. op(v, x) \in Seq(Seq(TextType) \ {<<>>})
      BY <3>3, <3>4
    <3> QED
      BY <3>2, <3>5
  <2>2. <<>> \in Seq(Seq(TextType) \ {<<>>})
    OBVIOUS
  <2> QED
    BY <2>1, <2>2
<1>4. \A k \in 1 .. n : \A v \in W : G[<<v, k>>] = op(v, ts[k])
  <2> HIDE DEF op, n, W
  <2> QED
    OBVIOUS
<1>5. PICK f : Folds(f, <<>>, G, 1 .. n)
  <2> HIDE DEF G, n
  <2> QED
    BY <1>1, FoldsExist
<1>6. \A s \in SUBSET (1 .. n) : f[s] \in W
  <2> HIDE DEF G, n, W, op
  <2>1. <<>> \in W /\ \A k \in 1 .. n : \A v \in W : G[<<v, k>>] \in W
    BY <1>3, <1>4
  <2> QED
    BY <1>1, <1>5, <2>1, FoldsStay
<1>7. \A s \in SUBSET (1 .. n) : s # {} => Max(s) \in s
  <2> HIDE DEF n
  <2> QED
    BY <1>1, MaxIn
<1>8. \A s \in SUBSET (1 .. n) : f[s] = IF s = {} THEN <<>> ELSE op(f[s \ {Max(s)}], ts[Max(s)])
  <2> HIDE DEF G, n, W, op
  <2> QED
    BY <1>4, <1>5, <1>6, <1>7 DEF Folds
<1>9. P(f)
  <2> DEFINE h == [s \in SUBSET (1 .. n) |-> IF s = {} THEN <<>> ELSE op(f[s \ {Max(s)}], ts[Max(s)])]
  <2>1. f = [s \in SUBSET (1 .. n) |-> f[s]] /\ h = [s \in SUBSET (1 .. n) |-> h[s]]
    <3> HIDE DEF G, n, op
    <3> QED
      BY <1>5 DEF Folds
  <2>2. \A s \in SUBSET (1 .. n) : f[s] = h[s]
    <3> HIDE DEF op, n
    <3> QED
      BY <1>8
  <2>3. f = h
    <3> HIDE DEF h, n
    <3> QED
      BY <2>1, <2>2, Zenon
  <2> QED
    BY <2>3
<1>10. P(c)
  <2> HIDE DEF P
  <2> QED
    BY <1>9, Zenon
<1>11. \A s \in SUBSET (1 .. n) : c[s] = IF s = {} THEN <<>> ELSE op(c[s \ {Max(s)}], ts[Max(s)])
  <2> HIDE DEF op, n, c
  <2> QED
    BY <1>10
<1>12. c[1 .. n] = f[1 .. n]
  <2> HIDE DEF op, n, c, P, G
  <2>1. {} \in SUBSET (1 .. n)
    OBVIOUS
  <2>2. c[{}] = f[{}]
    BY <1>8, <1>11, <2>1
  <2>3. \A s \in SUBSET (1 .. n) : s # {} /\ c[s \ {Max(s)}] = f[s \ {Max(s)}] => c[s] = f[s]
    BY <1>8, <1>11
  <2>4. GoOnAlike(c, f, n)
    BY <2>2, <2>3 DEF GoOnAlike
  <2> QED
    BY <1>1, <2>4, FoldsAgree
<1> HIDE DEF c, P, n, W
<1> QED
  BY <1>1, <1>2, <1>6, <1>12 DEF W

\* Runs of sentences.
LEMMA RunsAre ==
  ASSUME NEW S, NEW sentences \in Seq(S)
  PROVE  Runs(sentences) \in Seq(Seq(S) \ {<<>>})
<1> DEFINE n == Len(sentences)
           W == Seq(Seq(S) \ {<<>>})
           op(v, x) == IF v # <<>> /\ (Head(Last(v)).send /\ x.send /\ Len(Blob(Last(v))) + Len(x.text) <= ChunkMax) THEN [v EXCEPT ![Len(v)] = Append(@, x)] ELSE Append(v, <<x>>)
           G == [p \in W \X (1 .. n) |-> op(p[1], sentences[p[2]])]
           P(iter) == iter = [s \in SUBSET (1 .. n) |-> IF s = {} THEN <<>> ELSE op(iter[s \ {Max(s)}], sentences[Max(s)])]
           c == CHOOSE iter : P(iter)
<1>1. n \in Nat /\ DOMAIN sentences = 1 .. n
  OBVIOUS
<1>2. Runs(sentences) = c[1 .. n]
  <2> DEFINE at(seq) == (CHOOSE iter : iter = [s \in SUBSET (DOMAIN seq) |->
                           IF s = {} THEN <<>> ELSE op(iter[s \ {Max(s)}], seq[Max(s)])])[DOMAIN seq]
  <2>1. Runs(sentences) = CHOOSE r \in {at(v) : v \in {sentences}} : TRUE
    BY DEF Runs, GroupWhile, Once, FoldLeft, MapThenFoldSet
  <2>2. at(sentences) = c[1 .. n]
    BY <1>1
  <2> HIDE DEF at, c
  <2> QED
    BY <2>1, <2>2
<1>3. <<>> \in W /\ \A k \in 1 .. n : \A v \in W : op(v, sentences[k]) \in W
  <2>1. ASSUME NEW k \in 1 .. n, NEW v \in Seq(Seq(S) \ {<<>>}) PROVE op(v, sentences[k]) \in Seq(Seq(S) \ {<<>>})
    <3>1. sentences[k] \in S
      BY <2>1
    <3>2. PICK x \in S : x = sentences[k]
      BY <3>1
    <3>3. Append(v, <<x>>) \in Seq(Seq(S) \ {<<>>}) /\ (v # <<>> => [v EXCEPT ![Len(v)] = Append(@, x)] \in Seq(Seq(S) \ {<<>>}))
      BY <3>2, GroupGrows
    <3>4. op(v, x) = Append(v, <<x>>) \/ (v # <<>> /\ op(v, x) = [v EXCEPT ![Len(v)] = Append(@, x)])
      OBVIOUS
    <3>5. op(v, x) \in Seq(Seq(S) \ {<<>>})
      BY <3>3, <3>4
    <3> QED
      BY <3>2, <3>5
  <2>2. <<>> \in Seq(Seq(S) \ {<<>>})
    OBVIOUS
  <2> QED
    BY <2>1, <2>2
<1>4. \A k \in 1 .. n : \A v \in W : G[<<v, k>>] = op(v, sentences[k])
  <2> HIDE DEF op, n, W
  <2> QED
    OBVIOUS
<1>5. PICK f : Folds(f, <<>>, G, 1 .. n)
  <2> HIDE DEF G, n
  <2> QED
    BY <1>1, FoldsExist
<1>6. \A s \in SUBSET (1 .. n) : f[s] \in W
  <2> HIDE DEF G, n, W, op
  <2>1. <<>> \in W /\ \A k \in 1 .. n : \A v \in W : G[<<v, k>>] \in W
    BY <1>3, <1>4
  <2> QED
    BY <1>1, <1>5, <2>1, FoldsStay
<1>7. \A s \in SUBSET (1 .. n) : s # {} => Max(s) \in s
  <2> HIDE DEF n
  <2> QED
    BY <1>1, MaxIn
<1>8. \A s \in SUBSET (1 .. n) : f[s] = IF s = {} THEN <<>> ELSE op(f[s \ {Max(s)}], sentences[Max(s)])
  <2> HIDE DEF G, n, W, op
  <2> QED
    BY <1>4, <1>5, <1>6, <1>7 DEF Folds
<1>9. P(f)
  <2> DEFINE h == [s \in SUBSET (1 .. n) |-> IF s = {} THEN <<>> ELSE op(f[s \ {Max(s)}], sentences[Max(s)])]
  <2>1. f = [s \in SUBSET (1 .. n) |-> f[s]] /\ h = [s \in SUBSET (1 .. n) |-> h[s]]
    <3> HIDE DEF G, n, op
    <3> QED
      BY <1>5 DEF Folds
  <2>2. \A s \in SUBSET (1 .. n) : f[s] = h[s]
    <3> HIDE DEF op, n
    <3> QED
      BY <1>8
  <2>3. f = h
    <3> HIDE DEF h, n
    <3> QED
      BY <2>1, <2>2, Zenon
  <2> QED
    BY <2>3
<1>10. P(c)
  <2> HIDE DEF P
  <2> QED
    BY <1>9, Zenon
<1>11. \A s \in SUBSET (1 .. n) : c[s] = IF s = {} THEN <<>> ELSE op(c[s \ {Max(s)}], sentences[Max(s)])
  <2> HIDE DEF op, n, c
  <2> QED
    BY <1>10
<1>12. c[1 .. n] = f[1 .. n]
  <2> HIDE DEF op, n, c, P, G
  <2>1. {} \in SUBSET (1 .. n)
    OBVIOUS
  <2>2. c[{}] = f[{}]
    BY <1>8, <1>11, <2>1
  <2>3. \A s \in SUBSET (1 .. n) : s # {} /\ c[s \ {Max(s)}] = f[s \ {Max(s)}] => c[s] = f[s]
    BY <1>8, <1>11
  <2>4. GoOnAlike(c, f, n)
    BY <2>2, <2>3 DEF GoOnAlike
  <2> QED
    BY <1>1, <2>4, FoldsAgree
<1> HIDE DEF c, P, n, W
<1> QED
  BY <1>1, <1>2, <1>6, <1>12 DEF W

\* The shards of paragraphs.
LEMMA ShardsAre ==
  ASSUME NEW blocks \in Seq(BlockType)
  PROVE  Shards(blocks) \in Seq(Seq(BlockType) \ {<<>>})
<1> DEFINE n == Len(blocks)
           W == Seq(Seq(BlockType) \ {<<>>})
           op(v, x) == IF v # <<>> /\ (MergeCandidate(Head(Last(v))) /\ MergeCandidate(x) /\ ~StopMerge(JoinedBlock(Last(v)), x)) THEN [v EXCEPT ![Len(v)] = Append(@, x)] ELSE Append(v, <<x>>)
           G == [p \in W \X (1 .. n) |-> op(p[1], blocks[p[2]])]
           P(iter) == iter = [s \in SUBSET (1 .. n) |-> IF s = {} THEN <<>> ELSE op(iter[s \ {Max(s)}], blocks[Max(s)])]
           c == CHOOSE iter : P(iter)
<1>1. n \in Nat /\ DOMAIN blocks = 1 .. n
  OBVIOUS
<1>2. Shards(blocks) = c[1 .. n]
  <2> DEFINE at(seq) == (CHOOSE iter : iter = [s \in SUBSET (DOMAIN seq) |->
                           IF s = {} THEN <<>> ELSE op(iter[s \ {Max(s)}], seq[Max(s)])])[DOMAIN seq]
  <2>1. Shards(blocks) = CHOOSE r \in {at(v) : v \in {blocks}} : TRUE
    BY DEF Shards, GroupWhile, Once, FoldLeft, MapThenFoldSet
  <2>2. at(blocks) = c[1 .. n]
    BY <1>1
  <2> HIDE DEF at, c
  <2> QED
    BY <2>1, <2>2
<1>3. <<>> \in W /\ \A k \in 1 .. n : \A v \in W : op(v, blocks[k]) \in W
  <2>1. ASSUME NEW k \in 1 .. n, NEW v \in Seq(Seq(BlockType) \ {<<>>}) PROVE op(v, blocks[k]) \in Seq(Seq(BlockType) \ {<<>>})
    <3>1. blocks[k] \in BlockType
      BY <2>1
    <3>2. PICK x \in BlockType : x = blocks[k]
      BY <3>1
    <3>3. Append(v, <<x>>) \in Seq(Seq(BlockType) \ {<<>>}) /\ (v # <<>> => [v EXCEPT ![Len(v)] = Append(@, x)] \in Seq(Seq(BlockType) \ {<<>>}))
      BY <3>2, GroupGrows
    <3>4. op(v, x) = Append(v, <<x>>) \/ (v # <<>> /\ op(v, x) = [v EXCEPT ![Len(v)] = Append(@, x)])
      OBVIOUS
    <3>5. op(v, x) \in Seq(Seq(BlockType) \ {<<>>})
      BY <3>3, <3>4
    <3> QED
      BY <3>2, <3>5
  <2>2. <<>> \in Seq(Seq(BlockType) \ {<<>>})
    OBVIOUS
  <2> QED
    BY <2>1, <2>2
<1>4. \A k \in 1 .. n : \A v \in W : G[<<v, k>>] = op(v, blocks[k])
  <2> HIDE DEF op, n, W
  <2> QED
    OBVIOUS
<1>5. PICK f : Folds(f, <<>>, G, 1 .. n)
  <2> HIDE DEF G, n
  <2> QED
    BY <1>1, FoldsExist
<1>6. \A s \in SUBSET (1 .. n) : f[s] \in W
  <2> HIDE DEF G, n, W, op
  <2>1. <<>> \in W /\ \A k \in 1 .. n : \A v \in W : G[<<v, k>>] \in W
    BY <1>3, <1>4
  <2> QED
    BY <1>1, <1>5, <2>1, FoldsStay
<1>7. \A s \in SUBSET (1 .. n) : s # {} => Max(s) \in s
  <2> HIDE DEF n
  <2> QED
    BY <1>1, MaxIn
<1>8. \A s \in SUBSET (1 .. n) : f[s] = IF s = {} THEN <<>> ELSE op(f[s \ {Max(s)}], blocks[Max(s)])
  <2> HIDE DEF G, n, W, op
  <2> QED
    BY <1>4, <1>5, <1>6, <1>7 DEF Folds
<1>9. P(f)
  <2> DEFINE h == [s \in SUBSET (1 .. n) |-> IF s = {} THEN <<>> ELSE op(f[s \ {Max(s)}], blocks[Max(s)])]
  <2>1. f = [s \in SUBSET (1 .. n) |-> f[s]] /\ h = [s \in SUBSET (1 .. n) |-> h[s]]
    <3> HIDE DEF G, n, op
    <3> QED
      BY <1>5 DEF Folds
  <2>2. \A s \in SUBSET (1 .. n) : f[s] = h[s]
    <3> HIDE DEF op, n
    <3> QED
      BY <1>8
  <2>3. f = h
    <3> HIDE DEF h, n
    <3> QED
      BY <2>1, <2>2, Zenon
  <2> QED
    BY <2>3
<1>10. P(c)
  <2> HIDE DEF P
  <2> QED
    BY <1>9, Zenon
<1>11. \A s \in SUBSET (1 .. n) : c[s] = IF s = {} THEN <<>> ELSE op(c[s \ {Max(s)}], blocks[Max(s)])
  <2> HIDE DEF op, n, c
  <2> QED
    BY <1>10
<1>12. c[1 .. n] = f[1 .. n]
  <2> HIDE DEF op, n, c, P, G
  <2>1. {} \in SUBSET (1 .. n)
    OBVIOUS
  <2>2. c[{}] = f[{}]
    BY <1>8, <1>11, <2>1
  <2>3. \A s \in SUBSET (1 .. n) : s # {} /\ c[s \ {Max(s)}] = f[s \ {Max(s)}] => c[s] = f[s]
    BY <1>8, <1>11
  <2>4. GoOnAlike(c, f, n)
    BY <2>2, <2>3 DEF GoOnAlike
  <2> QED
    BY <1>1, <2>4, FoldsAgree
<1> HIDE DEF c, P, n, W
<1> QED
  BY <1>1, <1>2, <1>6, <1>12 DEF W

\* A paragraph put together.
LEMMA GluedIs ==
  ASSUME NEW text \in TextType, NEW blocks \in Seq(BlockType)
  PROVE  Glued(text, blocks) \in TextType
<1> DEFINE n == Len(blocks)
           W == TextType
           op(v, x) == Glue(v, x.text)
           G == [p \in W \X (1 .. n) |-> op(p[1], blocks[p[2]])]
           P(iter) == iter = [s \in SUBSET (1 .. n) |-> IF s = {} THEN text ELSE op(iter[s \ {Max(s)}], blocks[Max(s)])]
           c == CHOOSE iter : P(iter)
<1>1. n \in Nat /\ DOMAIN blocks = 1 .. n
  OBVIOUS
<1>2. Glued(text, blocks) = c[1 .. n]
  BY <1>1 DEF Glued, FoldLeft, MapThenFoldSet
<1>3. text \in W /\ \A k \in 1 .. n : \A v \in W : op(v, blocks[k]) \in W
  <2>1. ASSUME NEW k \in 1 .. n, NEW v \in TextType PROVE op(v, blocks[k]) \in TextType
    <3>1. blocks[k] \in BlockType
      BY <2>1
    <3>2. PICK u \in TextType : u = blocks[k].text
      BY <3>1 DEF BlockType
    <3>3. <<v, u>> \in Seq(TextType)
      OBVIOUS
    <3>4. Joined(<<v, u>>, TRUE) \in TextType /\ Joined(<<v, u>>, FALSE) \in TextType
      BY <3>3, JoinedIs
    <3>5. Glue(v, u) \in TextType
      BY <3>4 DEF Glue, Stacked, Spaced
    <3> QED
      BY <3>2, <3>5
  <2> QED
    BY <2>1
<1>4. \A k \in 1 .. n : \A v \in W : G[<<v, k>>] = op(v, blocks[k])
  <2> HIDE DEF op, n, W
  <2> QED
    OBVIOUS
<1>5. PICK f : Folds(f, text, G, 1 .. n)
  <2> HIDE DEF G, n
  <2> QED
    BY <1>1, FoldsExist
<1>6. \A s \in SUBSET (1 .. n) : f[s] \in W
  <2> HIDE DEF G, n, W, op
  <2>1. text \in W /\ \A k \in 1 .. n : \A v \in W : G[<<v, k>>] \in W
    BY <1>3, <1>4
  <2> QED
    BY <1>1, <1>5, <2>1, FoldsStay
<1>7. \A s \in SUBSET (1 .. n) : s # {} => Max(s) \in s
  <2> HIDE DEF n
  <2> QED
    BY <1>1, MaxIn
<1>8. \A s \in SUBSET (1 .. n) : f[s] = IF s = {} THEN text ELSE op(f[s \ {Max(s)}], blocks[Max(s)])
  <2> HIDE DEF G, n, W, op
  <2> QED
    BY <1>4, <1>5, <1>6, <1>7 DEF Folds
<1>9. P(f)
  <2> DEFINE h == [s \in SUBSET (1 .. n) |-> IF s = {} THEN text ELSE op(f[s \ {Max(s)}], blocks[Max(s)])]
  <2>1. f = [s \in SUBSET (1 .. n) |-> f[s]] /\ h = [s \in SUBSET (1 .. n) |-> h[s]]
    <3> HIDE DEF G, n, op
    <3> QED
      BY <1>5 DEF Folds
  <2>2. \A s \in SUBSET (1 .. n) : f[s] = h[s]
    <3> HIDE DEF op, n
    <3> QED
      BY <1>8
  <2>3. f = h
    <3> HIDE DEF h, n
    <3> QED
      BY <2>1, <2>2, Zenon
  <2> QED
    BY <2>3
<1>10. P(c)
  <2> HIDE DEF P
  <2> QED
    BY <1>9, Zenon
<1>11. \A s \in SUBSET (1 .. n) : c[s] = IF s = {} THEN text ELSE op(c[s \ {Max(s)}], blocks[Max(s)])
  <2> HIDE DEF op, n, c
  <2> QED
    BY <1>10
<1>12. c[1 .. n] = f[1 .. n]
  <2> HIDE DEF op, n, c, P, G
  <2>1. {} \in SUBSET (1 .. n)
    OBVIOUS
  <2>2. c[{}] = f[{}]
    BY <1>8, <1>11, <2>1
  <2>3. \A s \in SUBSET (1 .. n) : s # {} /\ c[s \ {Max(s)}] = f[s \ {Max(s)}] => c[s] = f[s]
    BY <1>8, <1>11
  <2>4. GoOnAlike(c, f, n)
    BY <2>2, <2>3 DEF GoOnAlike
  <2> QED
    BY <1>1, <2>4, FoldsAgree
<1> HIDE DEF c, P, n, W
<1> QED
  BY <1>1, <1>2, <1>6, <1>12 DEF W

\* The spans that are sent.
LEMMA JobsOfIs ==
  ASSUME NEW S, NEW plan0 \in Seq(S)
  PROVE  JobsOf(plan0) \in Seq(S)
<1> DEFINE n == Len(plan0)
           W == Seq(S)
           op(v, x) == IF x.job THEN Append(v, x) ELSE v
           G == [p \in W \X (1 .. n) |-> op(p[1], plan0[p[2]])]
           P(iter) == iter = [s \in SUBSET (1 .. n) |-> IF s = {} THEN <<>> ELSE op(iter[s \ {Max(s)}], plan0[Max(s)])]
           c == CHOOSE iter : P(iter)
<1>1. n \in Nat /\ DOMAIN plan0 = 1 .. n
  OBVIOUS
<1>2. JobsOf(plan0) = c[1 .. n]
  BY <1>1 DEF JobsOf, Chosen, FoldLeft, MapThenFoldSet
<1>3. <<>> \in W /\ \A k \in 1 .. n : \A v \in W : op(v, plan0[k]) \in W
  BY <1>1
<1>4. \A k \in 1 .. n : \A v \in W : G[<<v, k>>] = op(v, plan0[k])
  <2> HIDE DEF op, n, W
  <2> QED
    OBVIOUS
<1>5. PICK f : Folds(f, <<>>, G, 1 .. n)
  <2> HIDE DEF G, n
  <2> QED
    BY <1>1, FoldsExist
<1>6. \A s \in SUBSET (1 .. n) : f[s] \in W
  <2> HIDE DEF G, n, W, op
  <2>1. <<>> \in W /\ \A k \in 1 .. n : \A v \in W : G[<<v, k>>] \in W
    BY <1>3, <1>4
  <2> QED
    BY <1>1, <1>5, <2>1, FoldsStay
<1>7. \A s \in SUBSET (1 .. n) : s # {} => Max(s) \in s
  <2> HIDE DEF n
  <2> QED
    BY <1>1, MaxIn
<1>8. \A s \in SUBSET (1 .. n) : f[s] = IF s = {} THEN <<>> ELSE op(f[s \ {Max(s)}], plan0[Max(s)])
  <2> HIDE DEF G, n, W, op
  <2> QED
    BY <1>4, <1>5, <1>6, <1>7 DEF Folds
<1>9. P(f)
  <2> DEFINE h == [s \in SUBSET (1 .. n) |-> IF s = {} THEN <<>> ELSE op(f[s \ {Max(s)}], plan0[Max(s)])]
  <2>1. f = [s \in SUBSET (1 .. n) |-> f[s]] /\ h = [s \in SUBSET (1 .. n) |-> h[s]]
    <3> HIDE DEF G, n, op
    <3> QED
      BY <1>5 DEF Folds
  <2>2. \A s \in SUBSET (1 .. n) : f[s] = h[s]
    <3> HIDE DEF op, n
    <3> QED
      BY <1>8
  <2>3. f = h
    <3> HIDE DEF h, n
    <3> QED
      BY <2>1, <2>2, Zenon
  <2> QED
    BY <2>3
<1>10. P(c)
  <2> HIDE DEF P
  <2> QED
    BY <1>9, Zenon
<1>11. \A s \in SUBSET (1 .. n) : c[s] = IF s = {} THEN <<>> ELSE op(c[s \ {Max(s)}], plan0[Max(s)])
  <2> HIDE DEF op, n, c
  <2> QED
    BY <1>10
<1>12. c[1 .. n] = f[1 .. n]
  <2> HIDE DEF op, n, c, P, G
  <2>1. {} \in SUBSET (1 .. n)
    OBVIOUS
  <2>2. c[{}] = f[{}]
    BY <1>8, <1>11, <2>1
  <2>3. \A s \in SUBSET (1 .. n) : s # {} /\ c[s \ {Max(s)}] = f[s \ {Max(s)}] => c[s] = f[s]
    BY <1>8, <1>11
  <2>4. GoOnAlike(c, f, n)
    BY <2>2, <2>3 DEF GoOnAlike
  <2> QED
    BY <1>1, <2>4, FoldsAgree
<1> HIDE DEF c, P, n, W
<1> QED
  BY <1>1, <1>2, <1>6, <1>12 DEF W

Sentences == [text : TextType, send : BOOLEAN]
Spans     == [job : BOOLEAN, text : TextType]
Pieces    == [unit : Nat, job : BOOLEAN, text : TextType]

\* A function of the items of a sequence is a sequence.
LEMMA Mapped ==
  ASSUME NEW s, NEW S, s \in Seq(S), NEW T, NEW m, m = [k \in DOMAIN s |-> m[k]], \A k \in DOMAIN s : m[k] \in T
  PROVE  m \in Seq(T) /\ Len(m) = Len(s)
<1>1. DOMAIN s = 1 .. Len(s) /\ Len(s) \in Nat
  OBVIOUS
<1>2. m \in [1 .. Len(s) -> T]
  BY <1>1
<1> QED
  BY <1>1, <1>2

LEMMA PartsAre ==
  ASSUME NEW t \in TextType, NEW From
  PROVE  Parts(t, From) \in Seq(TextType)
<1>0. PICK items : items = Indices(t)
  OBVIOUS
<1>1. t \in Seq(WordType) /\ Len(t) \in Nat /\ items \in Seq(1 .. Len(t))
  BY <1>0 DEF TextType, Indices
<1>2. PICK g : g = PartPlaces(t, From)
  OBVIOUS
<1>3. g \in Seq(Seq(1 .. Len(t)) \ {<<>>})
  <2>1. PICK n0 \in Nat : n0 = Len(t)
    BY <1>1
  <2> QED
    BY <1>0, <1>1, <1>2, <2>1, PartPlacesAre
<1>4. PICK m : m = [k \in DOMAIN g |-> SetBreak([j \in DOMAIN g[k] |-> t[g[k][j]]], FALSE)]
  OBVIOUS
<1>5. Parts(t, From) = m
  BY <1>2, <1>4 DEF Parts, Each, Once
<1>6. ASSUME NEW k \in DOMAIN g PROVE m[k] \in TextType
  <2>1. g[k] \in Seq(1 .. Len(t))
    BY <1>3
  <2>2. [j \in DOMAIN g[k] |-> t[g[k][j]]] \in TextType
    BY <1>1, <2>1 DEF TextType
  <2>3. SetBreak([j \in DOMAIN g[k] |-> t[g[k][j]]], FALSE) \in TextType
    BY <2>2, SetBreakIs
  <2> QED
    BY <1>4, <2>3
<1>7. m = [k \in DOMAIN g |-> m[k]]
  BY <1>4
<1> QED
  BY <1>3, <1>5, <1>6, <1>7, Mapped, SMTT(60)

LEMMA HardSplitWordsAre ==
  ASSUME NEW t \in TextType
  PROVE  HardSplitWords(t) \in Seq(TextType)
<1>1. PICK g : g = FullChunks(t)
  OBVIOUS
<1>2. g \in Seq(Seq(WordType) \ {<<>>})
  BY <1>1, FullChunksAre DEF TextType
<1>3. PICK m : m = [k \in DOMAIN g |-> SetBreak(g[k], FALSE)]
  OBVIOUS
<1>4. HardSplitWords(t) = m
  BY <1>1, <1>3 DEF HardSplitWords, Each, Once
<1>5. ASSUME NEW k \in DOMAIN g PROVE m[k] \in TextType
  <2>1. g[k] \in TextType
    BY <1>2 DEF TextType
  <2> QED
    BY <1>3, <2>1, SetBreakIs
<1>6. m = [k \in DOMAIN g |-> m[k]]
  BY <1>3
<1> QED
  BY <1>2, <1>4, <1>5, <1>6, Mapped

LEMMA SpacedAndStacked ==
  ASSUME NEW ts \in Seq(TextType)
  PROVE  Spaced(ts) \in TextType /\ Stacked(ts) \in TextType
BY JoinedIs DEF Spaced, Stacked

LEMMA SplitOversizedIs ==
  ASSUME NEW para \in TextType
  PROVE  SplitOversized(para) \in Seq(TextType)
<1>1. PICK s : s = SplitSentences(para)
  OBVIOUS
<1>2. s \in Seq(TextType)
  BY <1>1, PartsAre DEF SplitSentences
<1>3. PICK g : g = ChunkGroups(s)
  OBVIOUS
<1>4. g \in Seq(Seq(TextType) \ {<<>>})
  BY <1>2, <1>3, ChunkGroupsAre
<1>5. PICK m : m = [k \in DOMAIN g |-> IF Len(Head(g[k])) > ChunkMax THEN HardSplitWords(Head(g[k])) ELSE <<Spaced(g[k])>>]
  OBVIOUS
<1>6. SplitOversized(para) = IF Len(s) <= 1 THEN HardSplitWords(para) ELSE Concat(m)
  BY <1>1, <1>3, <1>5 DEF SplitOversized, Each, Once
<1>7. ASSUME NEW k \in DOMAIN g PROVE m[k] \in Seq(TextType)
  <2>1. g[k] \in Seq(TextType) /\ g[k] # <<>>
    BY <1>4
  <2>2. Head(g[k]) \in TextType
    BY <2>1
  <2>3. HardSplitWords(Head(g[k])) \in Seq(TextType)
    BY <2>2, HardSplitWordsAre
  <2>4. <<Spaced(g[k])>> \in Seq(TextType)
    BY <2>1, SpacedAndStacked
  <2> QED
    BY <1>5, <2>3, <2>4
<1>8. m = [k \in DOMAIN g |-> m[k]]
  BY <1>5
<1>9. m \in Seq(Seq(TextType))
  BY <1>4, <1>7, <1>8, Mapped
<1>10. Concat(m) \in Seq(TextType)
  BY <1>9, ConcatIs
<1> QED
  BY <1>6, <1>10, HardSplitWordsAre

LEMMA ChunksAre ==
  ASSUME NEW t \in TextType
  PROVE  Chunks(t) \in Seq(TextType)
<1>1. PICK s : s = Paragraphs(t)
  OBVIOUS
<1>2. s \in Seq(TextType)
  BY <1>1, PartsAre DEF Paragraphs
<1>3. PICK g : g = ChunkGroups(s)
  OBVIOUS
<1>4. g \in Seq(Seq(TextType) \ {<<>>})
  BY <1>2, <1>3, ChunkGroupsAre
<1>5. PICK m : m = [k \in DOMAIN g |-> IF Len(Head(g[k])) > ChunkMax THEN SplitOversized(Head(g[k])) ELSE <<Stacked(g[k])>>]
  OBVIOUS
<1>6. Chunks(t) = Concat(m)
  BY <1>1, <1>3, <1>5 DEF Chunks, Each, Once
<1>7. ASSUME NEW k \in DOMAIN g PROVE m[k] \in Seq(TextType)
  <2>1. g[k] \in Seq(TextType) /\ g[k] # <<>>
    BY <1>4
  <2>2. Head(g[k]) \in TextType
    BY <2>1
  <2>3. SplitOversized(Head(g[k])) \in Seq(TextType)
    BY <2>2, SplitOversizedIs
  <2>4. <<Stacked(g[k])>> \in Seq(TextType)
    BY <2>1, SpacedAndStacked
  <2> QED
    BY <1>5, <2>3, <2>4
<1>8. m = [k \in DOMAIN g |-> m[k]]
  BY <1>5
<1>9. m \in Seq(Seq(TextType))
  BY <1>4, <1>7, <1>8, Mapped
<1> QED
  BY <1>6, <1>9, ConcatIs

LEMMA UnitsAre ==
  ASSUME NEW t \in TextType
  PROVE  TranslationUnits(t) \in Seq(TextType)
<1>1. PICK s : s = Paragraphs(t)
  OBVIOUS
<1>2. s \in Seq(TextType)
  BY <1>1, PartsAre DEF Paragraphs
<1>3. PICK g : g = ChunkGroups(s)
  OBVIOUS
<1>4. g \in Seq(Seq(TextType) \ {<<>>})
  BY <1>2, <1>3, ChunkGroupsAre
<1>5. PICK m : m = [k \in DOMAIN g |-> Stacked(g[k])]
  OBVIOUS
<1>6. TranslationUnits(t) = m
  BY <1>1, <1>3, <1>5 DEF TranslationUnits, Each, Once
<1>7. ASSUME NEW k \in DOMAIN g PROVE m[k] \in TextType
  <2>1. g[k] \in Seq(TextType)
    BY <1>4
  <2> QED
    BY <1>5, <2>1, SpacedAndStacked
<1>8. m = [k \in DOMAIN g |-> m[k]]
  BY <1>5
<1> QED
  BY <1>4, <1>6, <1>7, <1>8, Mapped

LEMMA PlanParagraphIs ==
  ASSUME NEW para \in TextType, NEW percent
  PROVE  PlanParagraph(para, percent) \in Seq(Sentences)
<1>1. PICK s : s = IF percent >= 100 THEN <<para>> ELSE SplitSentences(para)
  OBVIOUS
<1>2. s \in Seq(TextType)
  <2>1. <<para>> \in Seq(TextType) /\ SplitSentences(para) \in Seq(TextType)
    BY PartsAre DEF SplitSentences
  <2> QED
    BY <1>1, <2>1
<1>3. PICK send : PlanParagraph(para, percent) = [i \in DOMAIN s |-> [text |-> s[i], send |-> i \in send]]
  BY <1>1 DEF PlanParagraph
<1>4. PICK m : m = [i \in DOMAIN s |-> [text |-> s[i], send |-> i \in send]]
  OBVIOUS
<1>5. ASSUME NEW k \in DOMAIN s PROVE m[k] \in Sentences
  <2>1. s[k] \in TextType
    BY <1>2
  <2>2. m[k] = [text |-> s[k], send |-> TRUE] \/ m[k] = [text |-> s[k], send |-> FALSE]
    <3>1. CASE k \in send
      BY <1>4, <3>1
    <3>2. CASE k \notin send
      <4>1. (k \in send) = FALSE
        BY <3>2
      <4>2. m[k] = [text |-> s[k], send |-> k \in send]
        BY <1>4
      <4> QED
        BY <4>1, <4>2, Zenon
    <3> QED
      BY <3>1, <3>2
  <2>3. [text |-> s[k], send |-> TRUE] \in Sentences
    BY <2>1 DEF Sentences
  <2>4. [text |-> s[k], send |-> FALSE] \in Sentences
    BY <2>1 DEF Sentences
  <2> QED
    BY <2>2, <2>3, <2>4
<1>6. m = [k \in DOMAIN s |-> m[k]]
  BY <1>4
<1> QED
  BY <1>2, <1>3, <1>4, <1>5, <1>6, Mapped

LEMMA BlobIs ==
  ASSUME NEW r \in Seq(Sentences)
  PROVE  Blob(r) \in TextType
<1>1. PICK m : m = [k \in DOMAIN r |-> r[k].text]
  OBVIOUS
<1>2. Blob(r) = Spaced(m)
  BY <1>1 DEF Blob, Each, Once
<1>3. ASSUME NEW k \in DOMAIN r PROVE m[k] \in TextType
  <2>1. r[k] \in Sentences
    OBVIOUS
  <2> QED
    BY <1>1, <2>1 DEF Sentences
<1>4. m = [k \in DOMAIN r |-> m[k]]
  BY <1>1
<1>5. m \in Seq(TextType)
  BY <1>3, <1>4, Mapped
<1> QED
  BY <1>2, <1>5, SpacedAndStacked

\* A blob that is sent, in chunks.
LEMMA JobsAre ==
  ASSUME NEW t \in TextType, NEW jobs, jobs = IF Len(t) < MinTranslate THEN <<Skip(t)>> ELSE [k \in DOMAIN Chunks(t) |-> Job(Chunks(t)[k])]
  PROVE  jobs \in Seq(Spans)
<1>1. <<Skip(t)>> \in Seq(Spans)
  <2>1. Skip(t) \in Spans
    BY DEF Skip, Spans
  <2> QED
    BY <2>1
<1>2. PICK c \in Seq(TextType) : c = Chunks(t)
  BY ChunksAre
<1>3. PICK m : m = [k \in DOMAIN c |-> Job(c[k])]
  OBVIOUS
<1>4. ASSUME NEW k \in DOMAIN c PROVE m[k] \in Spans
  BY <1>3 DEF Job, Spans
<1>5. m = [k \in DOMAIN c |-> m[k]]
  BY <1>3
<1>6. m \in Seq(Spans)
  BY <1>4, <1>5, Mapped
<1> QED
  BY <1>1, <1>2, <1>3, <1>6

LEMMA PieceIs ==
  ASSUME NEW para \in TextType, NEW percent
  PROVE  ParagraphPiece(para, percent) \in Seq(Spans)
<1>1. PICK g : g = Runs(PlanParagraph(para, percent))
  OBVIOUS
<1>2. g \in Seq(Seq(Sentences) \ {<<>>})
  BY <1>1, PlanParagraphIs, RunsAre
<1> DEFINE jobs(t) == IF Len(t) < MinTranslate THEN <<Skip(t)>> ELSE [k \in DOMAIN Chunks(t) |-> Job(Chunks(t)[k])]
           m == [k \in DOMAIN g |-> IF Head(g[k]).send THEN jobs(Blob(g[k])) ELSE <<Skip(Blob(g[k]))>>]
<1>3. ParagraphPiece(para, percent) = Concat(m)
  BY <1>1 DEF ParagraphPiece, Each, Once
<1>4. ASSUME NEW k \in DOMAIN g PROVE m[k] \in Seq(Spans)
  <2>1. g[k] \in Seq(Sentences)
    BY <1>2
  <2>2. PICK t \in TextType : t = Blob(g[k])
    BY <2>1, BlobIs
  <2>3. <<Skip(t)>> \in Seq(Spans)
    <3>1. Skip(t) \in Spans
      BY DEF Skip, Spans
    <3> QED
      BY <3>1
  <2>4. PICK j : j = jobs(t)
    OBVIOUS
  <2>5. j \in Seq(Spans)
    BY <2>4, JobsAre
  <2>6. m[k] = IF Head(g[k]).send THEN j ELSE <<Skip(t)>>
    BY <2>2, <2>4
  <2> QED
    BY <2>3, <2>5, <2>6
<1>5. PICK mm : mm = m
  OBVIOUS
<1>6. mm = [k \in DOMAIN g |-> mm[k]]
  BY <1>5
<1>7. mm \in Seq(Seq(Spans))
  <2> HIDE DEF m
  <2> QED
    BY <1>2, <1>4, <1>5, <1>6, Mapped
<1> HIDE DEF m
<1> QED
  BY <1>3, <1>5, <1>7, ConcatIs

LEMMA PiecesAre ==
  ASSUME NEW t \in TextType, NEW percent
  PROVE  TextPieces(t, percent) \in Seq(Pieces)
<1>1. PICK u \in Seq(TextType) : u = TranslationUnits(t)
  BY UnitsAre
<1>2. PICK ps : ps = [k \in DOMAIN u |-> ParagraphPiece(u[k], percent)]
  OBVIOUS
<1>3. ASSUME NEW k \in DOMAIN u PROVE ps[k] \in Seq(Spans)
  BY <1>2, PieceIs
<1>4. ps = [k \in DOMAIN u |-> ps[k]]
  BY <1>2
<1>5. ps \in Seq(Seq(Spans))
  BY <1>3, <1>4, Mapped
<1>6. PICK m : m = [k \in DOMAIN ps |-> [j \in DOMAIN ps[k] |-> [unit |-> k, job |-> ps[k][j].job, text |-> ps[k][j].text]]]
  OBVIOUS
<1>7. TextPieces(t, percent) = Concat(m)
  <2>1. UnitPieces(t, percent) = ps
    BY <1>1, <1>2 DEF UnitPieces, Each, Once
  <2>2. NumberedByUnit(ps) = m
    BY <1>6 DEF NumberedByUnit, Each, Once
  <2> QED
    BY <2>1, <2>2 DEF TextPieces, Once
<1>8. ASSUME NEW k \in DOMAIN ps PROVE m[k] \in Seq(Pieces)
  <2>1. ps[k] \in Seq(Spans) /\ k \in Nat
    BY <1>5
  <2>2. PICK p : p = ps[k]
    OBVIOUS
  <2>3. PICK q : q = [j \in DOMAIN p |-> [unit |-> k, job |-> p[j].job, text |-> p[j].text]]
    OBVIOUS
  <2>4. ASSUME NEW j \in DOMAIN p PROVE q[j] \in Pieces
    <3>1. p[j] \in Spans
      BY <2>1, <2>2
    <3> QED
      BY <2>1, <2>3, <3>1 DEF Spans, Pieces
  <2>5. q = [j \in DOMAIN p |-> q[j]]
    BY <2>3
  <2>6. q \in Seq(Pieces)
    BY <2>1, <2>2, <2>4, <2>5, Mapped
  <2> QED
    BY <1>6, <2>2, <2>3, <2>6
<1>9. m = [k \in DOMAIN ps |-> m[k]]
  BY <1>6
<1>10. m \in Seq(Seq(Pieces))
  BY <1>5, <1>8, <1>9, Mapped
<1> QED
  BY <1>7, <1>10, ConcatIs

\* The place of a text: its block, its row and its column.
TextPlace == Nat \X Nat \X Nat
Told1  == [place : TextPlace, unit : Nat, job : BOOLEAN, text : TextType]

LEMMA GridIs ==
  ASSUME NEW b \in BlockType
  PROVE  Grid(b) \in Seq(Seq(TextType))
<1>1. b.text \in TextType /\ b.cells \in Seq(Seq(TextType))
  BY DEF BlockType
<1>2. <<<<b.text>>>> \in Seq(Seq(TextType))
  BY <1>1
<1> QED
  BY <1>1, <1>2 DEF Grid

\* The places are those of texts.
LEMMA PlacesAre ==
  ASSUME NEW blocks \in Seq(BlockType)
  PROVE  TextPlaces(blocks) \in Seq({p \in TextPlace : Grid(blocks[p[1]])[p[2]][p[3]] \in TextType})
<1> DEFINE P == {p \in TextPlace : Grid(blocks[p[1]])[p[2]][p[3]] \in TextType}
<1>1. PICK m : m = [b \in DOMAIN blocks |->
                      IF blocks[b].action # "translate" THEN <<>>
                      ELSE Concat([r \in DOMAIN Grid(blocks[b]) |-> [c \in DOMAIN Grid(blocks[b])[r] |-> <<b, r, c>>]])]
  OBVIOUS
<1>2. TextPlaces(blocks) = Concat(m)
  BY <1>1 DEF TextPlaces
<1>3. ASSUME NEW b \in DOMAIN blocks PROVE m[b] \in Seq(P)
  <2>1. blocks[b] \in BlockType /\ b \in Nat
    OBVIOUS
  <2>2. PICK grid \in Seq(Seq(TextType)) : grid = Grid(blocks[b])
    BY <2>1, GridIs
  <2>3. PICK rows : rows = [r \in DOMAIN grid |-> [c \in DOMAIN grid[r] |-> <<b, r, c>>]]
    OBVIOUS
  <2>4. ASSUME NEW r \in DOMAIN grid PROVE rows[r] \in Seq(P)
    <3>1. grid[r] \in Seq(TextType) /\ r \in Nat
      BY <2>2
    <3>2. PICK row : row = [c \in DOMAIN grid[r] |-> <<b, r, c>>]
      OBVIOUS
    <3>3. ASSUME NEW c \in DOMAIN grid[r] PROVE row[c] \in P
      <4>1. c \in Nat /\ grid[r][c] \in TextType
        BY <3>1, <3>3
      <4>2. row[c] = <<b, r, c>>
        BY <3>2
      <4>3. <<b, r, c>> \in TextPlace
        BY <2>1, <3>1, <4>1 DEF TextPlace
      <4> QED
        BY <2>2, <4>1, <4>2, <4>3
    <3>4. row = [c \in DOMAIN grid[r] |-> row[c]]
      BY <3>2
    <3>5. row \in Seq(P)
      <4> HIDE DEF P
      <4> QED
        BY <3>1, <3>3, <3>4, Mapped
    <3> QED
      BY <2>3, <3>2, <3>5
  <2>5. rows = [r \in DOMAIN grid |-> rows[r]]
    BY <2>3
  <2> HIDE DEF P
  <2>6. rows \in Seq(Seq(P))
    BY <2>2, <2>4, <2>5, Mapped
  <2>7. Concat(rows) \in Seq(P)
    BY <2>6, ConcatIs
  <2>8. m[b] = IF blocks[b].action # "translate" THEN <<>> ELSE Concat(rows)
    BY <1>1, <2>2, <2>3
  <2>9. <<>> \in Seq(P)
    OBVIOUS
  <2> QED
    BY <2>7, <2>8, <2>9
<1>4. m = [b \in DOMAIN blocks |-> m[b]]
  BY <1>1
<1> HIDE DEF P
<1>5. m \in Seq(Seq(P))
  BY <1>3, <1>4, Mapped
<1>6. TextPlaces(blocks) \in Seq(P)
  BY <1>2, <1>5, ConcatIs
<1> QED
  BY <1>6 DEF P

LEMMA PlanIs ==
  ASSUME NEW blocks \in Seq(BlockType), NEW percent
  PROVE  TranslationPlan(blocks, percent) \in Seq(Told1)
<1>1. PICK places : places = TextPlaces(blocks)
  OBVIOUS
<1>2. places \in Seq({p \in TextPlace : Grid(blocks[p[1]])[p[2]][p[3]] \in TextType})
  BY <1>1, PlacesAre
<1>3. PICK m : m = [k \in DOMAIN places |-> SpansAt(blocks, percent, places[k])]
  OBVIOUS
<1>4. TranslationPlan(blocks, percent) = Concat(m)
  BY <1>1, <1>3 DEF TranslationPlan, Each, Once
<1>5. ASSUME NEW k \in DOMAIN places PROVE m[k] \in Seq(Told1)
  <2>1. PICK p, text : p = places[k] /\ text = Grid(blocks[p[1]])[p[2]][p[3]]
    OBVIOUS
  <2>2. p \in TextPlace /\ text \in TextType
    BY <1>2, <2>1
  <2>3. PICK pieces \in Seq(Pieces) : pieces = TextPieces(text, percent)
    BY <2>2, PiecesAre
  <2>4. PICK q : q = [j \in DOMAIN pieces |->
                        [place |-> p, unit |-> pieces[j].unit, job |-> pieces[j].job, text |-> pieces[j].text]]
    OBVIOUS
  <2>5. ASSUME NEW j \in DOMAIN pieces PROVE q[j] \in Told1
    <3>1. pieces[j] \in Pieces
      BY <2>3
    <3> QED
      BY <2>2, <2>4, <3>1 DEF Told1, Pieces
  <2>6. q = [j \in DOMAIN pieces |-> q[j]]
    BY <2>4
  <2>7. q \in Seq(Told1)
    BY <2>3, <2>5, <2>6, Mapped
  <2>8. SpansAt(blocks, percent, p) = q
    BY <2>1, <2>3, <2>4 DEF SpansAt, Each, Once
  <2> QED
    BY <1>3, <2>1, <2>7, <2>8
<1>6. m = [k \in DOMAIN places |-> m[k]]
  BY <1>3
<1>7. m \in Seq(Seq(Told1))
  BY <1>2, <1>5, <1>6, Mapped
<1> QED
  BY <1>4, <1>7, ConcatIs

\* global_jobs are texts.
LEMMA GlobalJobsAre ==
  ASSUME NEW spans \in Seq(Told1)
  PROVE  GlobalJobs(spans) \in Seq(TextType)
<1>1. PICK jobs \in Seq(Told1) : jobs = JobsOf(spans)
  BY JobsOfIs
<1>2. PICK m : m = [k \in DOMAIN jobs |-> jobs[k].text]
  OBVIOUS
<1>3. GlobalJobs(spans) = m
  BY <1>1, <1>2 DEF GlobalJobs, Each, Once
<1>4. ASSUME NEW k \in DOMAIN jobs PROVE m[k] \in TextType
  <2>1. jobs[k] \in Told1
    OBVIOUS
  <2> QED
    BY <1>2, <2>1 DEF Told1
<1>5. m = [k \in DOMAIN jobs |-> m[k]]
  BY <1>2
<1> QED
  BY <1>3, <1>4, <1>5, Mapped

LEMMA TaggedIs ==
  ASSUME NEW doc \in Seq(BlockType)
  PROVE  Tagged(doc) \in Seq(BlockType)
<1>1. PICK contents, title, authors :
        /\ contents = Contents(doc)
        /\ title = Title(doc, contents)
        /\ authors = Authors(doc, contents)
  OBVIOUS
<1>2. PICK tag : tag = [k \in DOMAIN doc |-> IF k \in contents THEN "toc" ELSE IF k \in title THEN "title"
                                             ELSE IF k \in authors THEN "author" ELSE "none"]
  OBVIOUS
<1>3. PICK m : m = [k \in DOMAIN doc |-> [doc[k] EXCEPT !.tag = tag[k]]]
  OBVIOUS
<1>4. Tagged(doc) = m
  BY <1>1, <1>2, <1>3 DEF Tagged
<1>5. ASSUME NEW k \in DOMAIN doc PROVE m[k] \in BlockType
  <2>1. tag[k] \in {"toc", "title", "author", "none"}
    BY <1>2
  <2>2. doc[k] \in BlockType /\ tag[k] \in Tags
    <3>1. tag[k] \in Tags
      BY <2>1 DEF Tags
    <3>2. doc[k] \in BlockType
      OBVIOUS
    <3> QED
      BY <3>1, <3>2
  <2>3. [doc[k] EXCEPT !.tag = tag[k]] \in BlockType
    BY <2>2 DEF BlockType
  <2> QED
    BY <1>3, <2>3
<1>6. m = [k \in DOMAIN doc |-> m[k]]
  BY <1>3
<1> QED
  BY <1>4, <1>5, <1>6, Mapped

LEMMA ClassifiedIs ==
  ASSUME NEW doc0 \in Seq(BlockType)
  PROVE  Classified(doc0) \in Seq(BlockType)
<1>0. PICK doc \in Seq(BlockType) : doc = Tagged(doc0)
  BY TaggedIs
<1>1. PICK inventory, until : inventory = Inventory(doc) /\ until = SkipUntil(doc, inventory)
  OBVIOUS
<1>7. PICK unlisted : unlisted = [k \in DOMAIN doc |-> k \in inventory \/ (doc[k].tag = "toc" /\ ImprintWords(doc[k]))]
  OBVIOUS
<1>2. PICK action : action = [k \in DOMAIN doc |->
                                IF unlisted[k] THEN "omit"
                                ELSE IF doc[k].tag = "toc" THEN "skip"
                                ELSE IF until[k] > 0 \/ Clutter(doc[k]) THEN "omit" ELSE "translate"]
  OBVIOUS
<1>3. PICK m : m = [k \in DOMAIN doc |-> [doc[k] EXCEPT !.action = action[k],
                                                       !.tag = IF unlisted[k] THEN "none" ELSE @]]
  OBVIOUS
<1>4. Classified(doc0) = m
  <2>1. Classify(doc) = m
    BY <1>1, <1>2, <1>3, <1>7 DEF Classify
  <2> QED
    BY <1>0, <2>1 DEF Classified
<1>5. ASSUME NEW k \in DOMAIN doc PROVE m[k] \in BlockType
  <2>1. action[k] \in {"omit", "skip", "translate"}
    BY <1>2
  <2>2. doc[k] \in BlockType /\ action[k] \in Actions
    <3>1. action[k] \in Actions
      BY <2>1 DEF Actions
    <3>2. doc[k] \in BlockType
      OBVIOUS
    <3> QED
      BY <3>1, <3>2
  <2>3. PICK tag \in Tags : tag = IF unlisted[k] THEN "none" ELSE doc[k].tag
    <3>1. doc[k].tag \in Tags /\ "none" \in Tags
      BY <2>2 DEF BlockType, Tags
    <3> QED
      BY <3>1
  <2>4. m[k] = [doc[k] EXCEPT !.action = action[k], !.tag = tag]
    BY <1>3, <2>3
  <2>5. [doc[k] EXCEPT !.action = action[k], !.tag = tag] \in BlockType
    BY <2>2, <2>3 DEF BlockType
  <2> QED
    BY <2>4, <2>5
<1>6. m = [k \in DOMAIN doc |-> m[k]]
  BY <1>3
<1> QED
  BY <1>4, <1>5, <1>6, Mapped

\* A heading that becomes a paragraph, and a block that becomes the subtitle, stay blocks.
LEMMA DemotedIs ==
  ASSUME NEW doc \in Seq(BlockType)
  PROVE  Demoted(doc) \in Seq(BlockType)
<1>1. PICK m : m = [k \in DOMAIN doc |-> [doc[k] EXCEPT !.type = IF FalseHeading(doc[k]) THEN "paragraph" ELSE @]]
  OBVIOUS
<1>2. Demoted(doc) = m
  BY <1>1 DEF Demoted
<1>3. ASSUME NEW k \in DOMAIN doc PROVE m[k] \in BlockType
  <2>1. doc[k] \in BlockType
    OBVIOUS
  <2>2. PICK type \in Forms : type = IF FalseHeading(doc[k]) THEN "paragraph" ELSE doc[k].type
    <3>1. doc[k].type \in Forms /\ "paragraph" \in Forms
      BY <2>1 DEF BlockType, Forms
    <3> QED
      BY <3>1
  <2>3. m[k] = [doc[k] EXCEPT !.type = type]
    BY <1>1, <2>2
  <2>4. [doc[k] EXCEPT !.type = type] \in BlockType
    BY <2>1, <2>2 DEF BlockType
  <2> QED
    BY <2>3, <2>4
<1>4. m = [k \in DOMAIN doc |-> m[k]]
  BY <1>1
<1> QED
  BY <1>2, <1>3, <1>4, Mapped

LEMMA EnrichedIs ==
  ASSUME NEW doc0 \in Seq(BlockType)
  PROVE  Enriched(doc0) \in Seq(BlockType)
<1>0. PICK doc \in Seq(BlockType) : doc = Demoted(doc0)
  BY DemotedIs
<1>1. PICK at : at = SubtitleAt(doc)
  OBVIOUS
<1>2. PICK m : m = [k \in DOMAIN doc |-> [doc[k] EXCEPT !.subtitle = k \in at /\ doc[k].action = "translate"]]
  OBVIOUS
<1>3. Enriched(doc0) = m
  <2>1. Subtitled(doc) = m
    BY <1>1, <1>2 DEF Subtitled
  <2> QED
    BY <1>0, <2>1 DEF Enriched
<1>4. ASSUME NEW k \in DOMAIN doc PROVE m[k] \in BlockType
  <2>1. doc[k] \in BlockType
    OBVIOUS
  <2>2. PICK flag \in BOOLEAN : flag = (k \in at /\ doc[k].action = "translate")
    OBVIOUS
  <2>3. m[k] = [doc[k] EXCEPT !.subtitle = flag]
    BY <1>2, <2>2
  <2>4. [doc[k] EXCEPT !.subtitle = flag] \in BlockType
    BY <2>1, <2>2 DEF BlockType
  <2> QED
    BY <2>3, <2>4
<1>5. m = [k \in DOMAIN doc |-> m[k]]
  BY <1>2
<1> QED
  BY <1>3, <1>4, <1>5, Mapped

LEMMA TailIs ==
  ASSUME NEW S, NEW s \in Seq(S), s # <<>>
  PROVE  Tail(s) \in Seq(S)
OBVIOUS

LEMMA MergeAdjacentIs ==
  ASSUME NEW blocks \in Seq(BlockType)
  PROVE  MergeAdjacent(blocks) \in Seq(BlockType)
<1>1. PICK g : g = Shards(blocks)
  OBVIOUS
<1>2. g \in Seq(Seq(BlockType) \ {<<>>})
  BY <1>1, ShardsAre
<1>3. PICK m : m = [k \in DOMAIN g |-> JoinedBlock(g[k])]
  OBVIOUS
<1>4. MergeAdjacent(blocks) = m
  BY <1>1, <1>3 DEF MergeAdjacent, Each, Once
<1>5. ASSUME NEW k \in DOMAIN g PROVE m[k] \in BlockType
  <2>1. PICK group : group = g[k]
    OBVIOUS
  <2>2. group \in Seq(BlockType) /\ group # <<>>
    BY <1>2, <2>1
  <2>3. PICK first \in BlockType : first = Head(group)
    <3> HIDE DEF BlockType
    <3> QED
      BY <2>2
  <2>4. PICK rest \in Seq(BlockType) : rest = Tail(group)
    BY <2>2, TailIs
  <2>5. PICK t \in TextType : t = Glued(first.text, rest)
    <3>1. first.text \in TextType
      BY DEF BlockType
    <3> QED
      BY <3>1, GluedIs
  <2>6. m[k] = [first EXCEPT !.text = t]
    BY <1>3, <2>1, <2>3, <2>4, <2>5 DEF JoinedBlock
  <2>7. [first EXCEPT !.text = t] \in BlockType
    BY DEF BlockType
  <2> QED
    BY <2>6, <2>7
<1>6. m = [k \in DOMAIN g |-> m[k]]
  BY <1>3
<1>7. g \in Seq(Seq(BlockType))
  <2> HIDE DEF BlockType
  <2> QED
    BY <1>2
<1> QED
  BY <1>4, <1>5, <1>6, <1>7, Mapped

\* What the parser makes of the upload settles the texts and their batches.
LEMMA GivenAtFirst ==
  ASSUME Init
  PROVE  GivenOK
<1>1. run \in Scenarios /\ run.document \in Seq(BlockType)
  BY ScenariosOK DEF Init, ScenarioOK
<1>2. PICK doc \in Seq(BlockType) : doc = Enriched(Classified(run.document))
  BY <1>1, ClassifiedIs, EnrichedIs
<1>3. merged = MergeAdjacent(doc) /\ plan = TranslationPlan(merged, run.percent) /\ segments = GlobalJobs(plan) /\ batches = BatchesOf(segments)
  BY <1>2 DEF Init, OpenBatches
<1>4. merged \in Seq(BlockType)
  BY <1>3, MergeAdjacentIs
<1>5. plan \in Seq(Told1)
  BY <1>3, <1>4, PlanIs
<1>6. segments \in Seq(TextType)
  BY <1>3, <1>5, GlobalJobsAre
<1>7. PICK size : size = [i \in DOMAIN segments |-> Len(segments[i]) + Overhead]
  OBVIOUS
<1>8. size \in Seq(Nat) /\ Len(size) = Len(segments)
  <2>1. ASSUME NEW i \in DOMAIN segments PROVE size[i] \in Nat
    <3>1. segments[i] \in Seq(WordType)
      BY <1>6 DEF TextType
    <3>2. Len(segments[i]) \in Nat /\ Overhead \in Nat
      BY <3>1, BatchConstants
    <3> QED
      BY <1>7, <3>2
  <2>2. size = [i \in DOMAIN segments |-> size[i]]
    BY <1>7
  <2> QED
    BY <1>6, <2>1, <2>2, Mapped
<1>9. batches = PackSegmentIndices(size, BatchBudget, BatchCap)
  BY <1>3, <1>7 DEF BatchesOf
<1> QED
  BY <1>1, <1>6, <1>8, <1>9, PackingHolds DEF GivenOK

-----------------------------------------------------------------------------
(* Theorems *)

\* What the invariants are proved from: the invariant above holds in every state, of any
\* document, settings, cache and order of events.
THEOREM InvariantHolds == Spec => []Inv
<1>1. Init => Inv
  <2> SUFFICES ASSUME Init PROVE Inv
    OBVIOUS
  <2>1. GivenOK
    BY GivenAtFirst
  <2>2. BatchInv
    BY <2>1, BatchesOpened DEF Init
  <2>3. MainInv
    BY <2>1, <2>2, BarAtFirst
  <2> QED
    BY <2>2, <2>3, InvIs
<1>2. Inv /\ [Next]_vars => Inv'
  BY NextKeeps
<1> QED
  BY <1>1, <1>2, PTL DEF Spec

LEMMA TypesFollow ==
  ASSUME Inv
  PROVE  TypeOK
<1>0. BatchInv /\ MainInv
  BY InvIs
<1>1. /\ GivenOK /\ TasksOK /\ BarOK /\ PhaseOK /\ doneBatches \in 0 .. Len(batches) /\ failing \in BOOLEAN
      /\ bar \in 0 .. 100 /\ stored \in Entries /\ pubs \in [Publishers -> Pubs]
      /\ pulses \in [parse : 10 .. 13, docx : 92 .. 95, batch : 24 .. 88, pulse : Nat]
      /\ faults \in 0 .. run.faults /\ late \in BOOLEAN
  BY <1>0, MainFacts
<1>2. run \in Scenarios /\ pc \in Phases
  BY <1>1 DEF GivenOK, PhaseOK
<1>3. ASSUME NEW b \in DOMAIN task
      PROVE  /\ task[b].pc \in {"waiting", "ready", "calling", "singles", "store", "answered", "finished", "raised"}
             /\ Range(task[b].misses) \subseteq Range(batches[b])
             /\ task[b].format \in 1 .. Formats /\ task[b].failures \in 0 .. Retries - 1
  <2>1. task[b] \in Tasks /\ Range(task[b].misses) \subseteq Range(batches[b])
    BY <1>1, <1>3 DEF TasksOK
  <2> QED
    BY <2>1 DEF Tasks, TaskPcs
<1>4. ASSUME NEW i \in DOMAIN single
      PROVE  /\ single[i].pc \in {"none", "waiting", "ready", "calling", "put", "done", "raised"}
             /\ single[i].tries \in 0 .. Retries - 1
  <2>1. single[i] \in Singles
    BY <1>1, <1>4 DEF TasksOK
  <2> QED
    BY <2>1 DEF Singles, SinglePcs
<1>5. stored.pct \in 0 .. 100 /\ stored.stage \in Range(Stages) /\ stored.segs >= Unsaid
  BY <1>1 DEF Entries, Unsaid
<1>6. \A who \in Publishers : pubs[who].pc \in {"idle", "get", "set"}
  <2> HIDE DEF Entries, Publishers
  <2> QED
    BY <1>1 DEF Pubs
<1>7. pulses.parse \in 10 .. 13 /\ pulses.docx \in 92 .. 95 /\ pulses.batch \in 24 .. 88
  BY <1>1
<1>8. {bar, stored.pct} \subseteq 0 .. 100
  BY <1>1, <1>5
<1> HIDE DEF Entries, Pubs, Publishers, Stages
<1>9. /\ doneBatches \in 0 .. Len(batches) /\ failing \in BOOLEAN
      /\ {bar, stored.pct} \subseteq 0 .. 100 /\ stored.stage \in Range(Stages) /\ stored.segs >= Unsaid
      /\ faults \in 0 .. run.faults /\ late \in BOOLEAN
  BY <1>1, <1>5, <1>8
<1> QED
  BY <1>2, <1>3, <1>4, <1>6, <1>7, <1>9 DEF TypeOK, Phases

\* Every variable of the pipeline keeps its type, for any document, settings, replies and
\* failures; in particular no batch is sent back more often than it may be, in a format
\* there is not, and the count of the batches that are done is never above their number.
THEOREM TranslationTyped == Spec => []TypeOK
<1>1. Inv => TypeOK
  BY TypesFollow
<1> QED
  BY <1>1, InvariantHolds, PTL

\* What the cache says of a text is the translation of that very text into that very
\* language: no step stores a source text that came back, or an answer to another segment.
THEOREM CacheStaysTrue == Spec => []CacheIsTrue
<1>1. Inv => CacheIsTrue
  BY DEF Inv, AnswersOK, CacheIsTrue
<1> QED
  BY <1>1, InvariantHolds, PTL

LEMMA CallsFollow ==
  ASSUME Inv
  PROVE  CallsAreBounded
<1>0. BatchInv /\ GivenOK /\ TasksOK /\ CallsOK /\ SlotsOK
  BY InvIs DEF BatchInv
<1>1. ASSUME NEW b \in DOMAIN task PROVE task[b].calls <= Retries + Formats - 1
  <2>1. task[b] \in Tasks /\ b \in DOMAIN batches
    BY <1>0, <1>1 DEF TasksOK
  <2>2. PICK t : t = task[b]
    OBVIOUS
  <2>3. t.calls \in Nat /\ t.format \in 1 .. Formats /\ t.failures \in 0 .. Retries - 1 /\ Retries \in Nat /\ Formats \in Nat
    BY <1>0, <2>1, <2>2, Settings DEF Tasks
  <2>4. t.calls <= t.format + t.failures - (IF t.pc \in {"waiting", "ready"} THEN 1 ELSE 0)
    BY <1>0, <2>1, <2>2 DEF CallsOK
  <2>5. t.calls <= Retries + Formats - 1
    BY <2>3, <2>4
  <2> QED
    BY <2>2, <2>5
<1>2. InFlightOf({"calling"}) <= run.inflight /\ Cardinality(Active) <= run.concurrency
  <2>1. /\ InFlightOf({"calling"}) = Cardinality(CallingTasks) + Cardinality(CallingSingles)
        /\ Active = AtWork
    BY <1>0, SlotsCounted
  <2> QED
    BY <1>0, <2>1 DEF SlotsOK
<1>3. \A b \in DOMAIN batches : Cardinality(Busy(b)) <= 4
  BY <1>0 DEF SlotsOK
<1> QED
  BY <1>1, <1>2, <1>3 DEF CallsAreBounded

\* However replies and errors alternate, over any number of batches, segments, formats and
\* retries, a batch is sent Retries + Formats - 1 times at most, and the three semaphores
\* are never exceeded.
THEOREM CallsStayBounded == Spec => []CallsAreBounded
<1>1. Inv => CallsAreBounded
  BY CallsFollow
<1> QED
  BY <1>1, InvariantHolds, PTL

LEMMA AllAnswered ==
  ASSUME BatchInv, doneBatches = Len(batches)
  PROVE  \A i \in DOMAIN results : results[i] # NoText
<1>0. GivenOK /\ CountOK /\ ResultsOK /\ Work
  BY DEF BatchInv
<1>1. /\ IsFiniteSet(DOMAIN batches) /\ Cardinality(DOMAIN batches) = Len(batches)
      /\ \A i \in DOMAIN segments : BatchOf(i) \in DOMAIN batches /\ i \in Range(batches[BatchOf(i)])
  BY <1>0, Placed
<1>2. Finished = DOMAIN batches
  <2>1. Finished \subseteq DOMAIN batches
    BY DEF Finished
  <2>2. Cardinality(Finished) = Cardinality(DOMAIN batches)
    BY <1>0, <1>1 DEF CountOK
  <2> QED
    BY <1>1, <2>1, <2>2, FS_Subset
<1> SUFFICES ASSUME NEW i \in DOMAIN results PROVE results[i] # NoText
  OBVIOUS
<1>3. i \in DOMAIN segments
  BY <1>0 DEF ResultsOK
<1>4. PICK b \in DOMAIN batches : i \in Range(batches[b])
  BY <1>1, <1>3
<1>5. task[b].pc = "finished"
  BY <1>2, <1>4 DEF Finished
<1>6. results[i] = got[i] /\ got[i] # NoText
  BY <1>0, <1>4, <1>5 DEF ResultsOK, Work, BatchWork
<1> QED
  BY <1>6

LEMMA CompleteFollows ==
  ASSUME Inv
  PROVE  CompleteIsComplete
<1>0. BatchInv /\ MainInv
  BY InvIs
<1>1. Len(segments) \in Nat /\ Len(batches) \in Nat /\ doneBatches \in 0 .. Len(batches) /\ ClaimsOK
  BY <1>0, MainFacts
<1> SUFFICES ASSUME pc = "translate", run.before.segs = Unsaid, stored.segs = Len(segments)
             PROVE  \A i \in DOMAIN results : results[i] # NoText
  BY DEF CompleteIsComplete
<1>2. stored \in Claims
  BY DEF Claims
<1>3. ~(doneBatches < Len(batches))
  BY <1>1, <1>2 DEF ClaimsOK
<1>4. doneBatches = Len(batches)
  BY <1>1, <1>3
<1> QED
  BY <1>0, <1>4, AllAnswered

\* With any number of segments and batches, whatever the timer and the batches publish and
\* in whatever order, nobody who reads the key while the translation goes on is told that
\* all segments are translated before they are.
THEOREM CompleteWhenComplete == Spec => []CompleteIsComplete
<1>1. Inv => CompleteIsComplete
  BY CompleteFollows
<1> QED
  BY <1>1, InvariantHolds, PTL

LEMMA RanksAre ==
  /\ Rank("none") = 1 /\ Rank("parsing_document") = 2 /\ Rank("translating") = 3 /\ Rank("generating_file") = 4
  /\ Rank("writing_docx") = 5 /\ Rank("docx_ready") = 6 /\ Rank("converting_to_pdf") = 7
  /\ Range(Stages) = {"none", "parsing_document", "translating", "generating_file", "writing_docx", "docx_ready", "converting_to_pdf"}
<1>1. DOMAIN Stages = 1 .. 7
  BY DEF Stages
<1>2. /\ \A k \in 1 .. 7 : Stages[k] = "none" <=> k = 1
      /\ \A k \in 1 .. 7 : Stages[k] = "parsing_document" <=> k = 2
      /\ \A k \in 1 .. 7 : Stages[k] = "translating" <=> k = 3
      /\ \A k \in 1 .. 7 : Stages[k] = "generating_file" <=> k = 4
      /\ \A k \in 1 .. 7 : Stages[k] = "writing_docx" <=> k = 5
      /\ \A k \in 1 .. 7 : Stages[k] = "docx_ready" <=> k = 6
      /\ \A k \in 1 .. 7 : Stages[k] = "converting_to_pdf" <=> k = 7
  BY DEF Stages
<1>3. Range(Stages) = {"none", "parsing_document", "translating", "generating_file", "writing_docx", "docx_ready", "converting_to_pdf"}
  BY DEF Range, Stages
<1> HIDE DEF Stages
<1>4. Rank("none") = 1 /\ Rank("parsing_document") = 2 /\ Rank("translating") = 3 /\ Rank("generating_file") = 4
  BY <1>1, <1>2 DEF Rank
<1>5. Rank("writing_docx") = 5 /\ Rank("docx_ready") = 6 /\ Rank("converting_to_pdf") = 7
  BY <1>1, <1>2 DEF Rank
<1> QED
  BY <1>3, <1>4, <1>5

\* A higher percent is of the same stage or of a later one.
LEMMA StagesInOrder ==
  ASSUME NEW e \in Entries, NEW f \in Entries, e.pct <= f.pct
  PROVE  Rank(e.stage) <= Rank(f.stage)
<1>1. PICK p \in 0 .. 100 : p = e.pct
  BY DEF Entries
<1>2. PICK q \in 0 .. 100 : q = f.pct
  BY DEF Entries
<1>3. PICK s \in Range(Stages) : s = e.stage
  BY DEF Entries
<1>4. PICK t \in Range(Stages) : t = f.stage
  BY DEF Entries
<1>5. p \in PercentsOf(s) /\ q \in PercentsOf(t) /\ p <= q
  BY <1>1, <1>2, <1>3, <1>4 DEF Entries, OfStage
<1>6. Rank(s) <= Rank(t)
  BY <1>5, RanksAre DEF PercentsOf
<1> QED
  BY <1>3, <1>4, <1>6

LEMMA NeverFalls ==
  ASSUME Inv, [Next]_vars
  PROVE  late' \/ (stored'.pct >= stored.pct /\ Rank(stored'.stage) >= Rank(stored.stage))
<1>0. BatchInv /\ MainInv
  BY InvIs
<1>1. BarOK /\ TurnsOK /\ stored \in Entries
  BY <1>0, MainFacts
<1>2. CASE UNCHANGED stored
  BY <1>1, <1>2, StagesInOrder DEF Entries
<1>3. CASE \E who \in Publishers : PublishSet(who)
  <2>1. PICK who \in Publishers : PublishSet(who)
    BY <1>3
  <2>2. pubs[who].new \in Entries /\ pubs[who].prev \in Entries
    BY <1>1, ItsClaims
  <2>3. stored' = Merged(pubs[who].prev, pubs[who].new) /\ late' = late /\ pubs[who].pc = "set"
    BY <2>1 DEF PublishSet
  <2>4. ~late => pubs[who].prev = stored
    BY <1>1, <2>3 DEF TurnsOK
  <2>5. /\ stored' \in Entries /\ stored'.pct >= pubs[who].prev.pct
    BY <2>2, <2>3, MergedIs
  <2>6. CASE late
    BY <2>3, <2>6
  <2>7. CASE ~late
    <3>1. stored'.pct >= stored.pct
      BY <2>4, <2>5, <2>7
    <3>2. stored.pct <= stored'.pct
      BY <1>1, <2>5, <3>1 DEF Entries
    <3>3. Rank(stored.stage) <= Rank(stored'.stage)
      <4> HIDE DEF Entries
      <4> QED
        BY <1>1, <2>5, <3>2, StagesInOrder
    <3>4. Rank(stored.stage) \in Int /\ Rank(stored'.stage) \in Int
      <4>1. stored.stage \in Range(Stages) /\ stored'.stage \in Range(Stages)
        BY <1>1, <2>5 DEF Entries
      <4> QED
        BY <4>1, RanksAre
    <3> QED
      BY <3>1, <3>3, <3>4
  <2> QED
    BY <2>6, <2>7
<1>4. UNCHANGED stored \/ \E who \in Publishers : PublishSet(who)
  <2>1. CASE Main
    BY <2>1 DEF Main, ParseDone, ParseFails, Plan, SkipTranslation, Start, Close, Reassemble, WriteBegin, WriteDone, WriteFails, Export, ShowDone, Fail, progressVars
  <2>2. CASE Ticks
    BY <2>2 DEF Ticks, ParseTick, DocxTick, Pulse, Tick, PulseProgress
  <2>3. CASE \E who \in Publishers : PublishStep(who) \/ PublishFault(who)
    <3>1. PICK who \in Publishers : PublishStep(who) \/ PublishFault(who)
      BY <2>3
    <3> QED
      BY <3>1 DEF PublishStep, PublishFault, PublishGet, PublishFails
  <2>4. CASE \E b \in DOMAIN task : Step(b) \/ Finish(b)
    BY <2>4 DEF Step, Finish, TaskFinish, BatchProgress
  <2>5. CASE \E i \in DOMAIN single : StepOne(i)
    BY <2>5 DEF StepOne
  <2>6. CASE UNCHANGED vars
    BY <2>6 DEF vars, progressVars
  <2> QED
    BY <2>1, <2>2, <2>3, <2>4, <2>5, <2>6 DEF Next
<1> QED
  BY <1>2, <1>3, <1>4

\* Neither the percent nor the stage in the key ever goes back, though it is read and
\* written back in two round trips, unless a thread outlived its join.
THEOREM BarNeverFalls == Spec => StoredNeverFalls
<1>1. Inv /\ [Next]_vars => [late' \/ (stored'.pct >= stored.pct /\ Rank(stored'.stage) >= Rank(stored.stage))]_vars
  BY NeverFalls
<1> QED
  BY <1>1, InvariantHolds, PTL DEF Spec, StoredNeverFalls

-----------------------------------------------------------------------------
(* The batch translator implements SegmentService *)

\* Where the service is idle, for those who ask it something.
LEMMA StatesOfService ==
  ASSUME Inv, segments # <<>>
  PROVE  /\ Asked(segments) = IF ServiceState = "idle" THEN <<>> ELSE segments
         /\ pc \in {"parse", "classify", "start"} => ServiceState = "idle"
         /\ pc = "translate" => ServiceState = "asked"
         /\ pc \in {"generate", "write", "written", "convert", "done"} => ServiceState = "returned"
         /\ pc = "failed" /\ failing => ServiceState = "raised"
         /\ pc = "failed" /\ ~failing /\ doneBatches = 0 => ServiceState = "idle"
         /\ pc = "failed" /\ ~failing /\ doneBatches # 0 => ServiceState = "returned"
BY DEF ServiceState, Asked

LEMMA GivenStays ==
  ASSUME [Next]_vars
  PROVE  UNCHANGED <<run, segments, batches>>
<1>1. CASE Main
  BY <1>1 DEF Main, ParseDone, ParseFails, Plan, SkipTranslation, Start, Close, Reassemble, WriteBegin, WriteDone, WriteFails, Export, ShowDone, Fail, batchVars, given
<1>2. CASE Ticks
  BY <1>2 DEF Ticks, ParseTick, DocxTick, Pulse, batchVars, given
<1>3. CASE \E who \in Publishers : PublishStep(who) \/ PublishFault(who)
  BY <1>3 DEF PublishStep, PublishFault, batchVars, given
<1>4. CASE \E b \in DOMAIN task : Step(b) \/ Finish(b)
  <2>1. PICK b \in DOMAIN task : Step(b) \/ Finish(b)
    BY <1>4
  <2>2. CASE Finish(b)
    BY <2>2 DEF Finish, TaskFinish, given
  <2>3. CASE Step(b)
    BY <2>3 DEF Step, TaskStep, TaskStart, TaskStore, BatchCall, TaskGather, BatchReply, BatchError, given
  <2> QED
    BY <2>1, <2>2, <2>3
<1>5. CASE \E i \in DOMAIN single : StepOne(i)
  BY <1>5 DEF StepOne, SingleStep, SingleStart, SinglePut, SingleCall, SingleReply, SingleError, given
<1>6. CASE UNCHANGED vars
  BY <1>6 DEF vars, batchVars, given
<1> QED
  BY <1>1, <1>2, <1>3, <1>4, <1>5, <1>6 DEF Next

\* A step that the service knows nothing of.
LEMMA Unnoticed ==
  ASSUME UNCHANGED <<run, segments>>, UNCHANGED ServiceState, ServiceState = "idle" \/ UNCHANGED results
  PROVE  UNCHANGED <<Asked(segments), Asked(results), ServiceState, run.target>>
<1>1. UNCHANGED Asked(segments)
  BY DEF Asked
<1>2. UNCHANGED Asked(results)
  BY DEF Asked
<1> QED
  BY <1>1, <1>2

\* The steps of the service, said of the pipeline.
Asks ==
  /\ ServiceState = "idle" /\ ServiceState' = "asked" /\ segments' # <<>> /\ Asked(segments)' = segments'
  /\ Asked(results)' = [i \in DOMAIN segments' |-> NoText] /\ UNCHANGED run.target
Answers ==
  /\ ServiceState = "asked" /\ UNCHANGED <<Asked(segments), ServiceState, run.target>>
  /\ DOMAIN Asked(results)' = DOMAIN Asked(segments)
  /\ \A i \in DOMAIN Asked(segments) :
       Asked(results)'[i] # Asked(results)[i] =>
         /\ Asked(results)[i] = NoText
         /\ Asked(results)'[i] \in {Asked(segments)[i], <<>>, [k \in DOMAIN Asked(segments)[i] |-> [Asked(segments)[i][k] EXCEPT !.lang = run.target]]}
Returns ==
  /\ ServiceState = "asked" /\ ServiceState' = "returned" /\ UNCHANGED <<Asked(segments), Asked(results), run.target>>
  /\ \A i \in DOMAIN Asked(segments) : Asked(results)[i] # NoText
Raises ==
  ServiceState = "asked" /\ ServiceState' = "raised" /\ UNCHANGED <<Asked(segments), Asked(results), run.target>>
Silence == UNCHANGED <<Asked(segments), Asked(results), ServiceState, run.target>>

LEMMA MainServes ==
  ASSUME Inv, Inv', Main, segments # <<>>, UNCHANGED <<run, segments, batches>>
  PROVE  Asks \/ Returns \/ Raises \/ Silence
<1>0. BatchInv /\ MainInv /\ PhaseOK /\ PhaseOK' /\ ResultsOK
  BY InvIs DEF MainInv, BatchInv, Inv
<1>a. /\ Len(segments) \in Nat /\ Len(batches) \in Nat /\ Len(batches) # 0 /\ doneBatches \in 0 .. Len(batches)
  BY <1>0, MainFacts
<1>b. UNCHANGED batchVars
  BY DEF Main, ParseDone, ParseFails, Plan, SkipTranslation, Start, Close, Reassemble, WriteBegin, WriteDone, WriteFails, Export, ShowDone, Fail
<1>c. UNCHANGED <<run, segments, batches, task, results, doneBatches, failing>>
  BY <1>b, Elsewhere
<1>d. UNCHANGED run.target
  BY <1>c
<1>1. ASSUME pc \in {"parse", "classify", "start"}, pc' \in {"parse", "classify", "start"} PROVE Silence
  <2>1. ServiceState = "idle" /\ ServiceState' = "idle"
    BY <1>1 DEF ServiceState
  <2> QED
    BY <1>c, <2>1, Unnoticed DEF Silence
<1>2. ASSUME pc \in {"generate", "write", "written", "convert", "done"}, pc' \in {"generate", "write", "written", "convert", "done"} PROVE Silence
  <2>1. ServiceState = "returned" /\ ServiceState' = "returned"
    BY <1>2, <1>c DEF ServiceState
  <2> QED
    BY <1>c, <2>1, Unnoticed DEF Silence
<1>3. CASE ParseDone \/ Plan
  <2>1. pc \in {"parse", "classify", "start"} /\ pc' \in {"parse", "classify", "start"}
    BY <1>3 DEF ParseDone, Plan, At, Goto
  <2> QED
    BY <1>1, <2>1
<1>4. CASE ParseFails
  <2>1. pc = "parse" /\ pc' = "failed"
    BY <1>4 DEF ParseFails, Fail, Goto
  <2>2. ~failing /\ doneBatches = 0
    BY <1>0, <2>1, NothingDone DEF PhaseOK
  <2>3. ServiceState = "idle" /\ ServiceState' = "idle"
    BY <1>c, <2>1, <2>2 DEF ServiceState
  <2> QED
    BY <1>c, <2>3, Unnoticed DEF Silence
<1>5. CASE SkipTranslation
  BY <1>5 DEF SkipTranslation
<1>6. CASE Start
  <2>1. pc = "start" /\ pc' = "translate"
    BY <1>6 DEF Start, At, Goto
  <2>2. ServiceState = "idle" /\ ServiceState' = "asked"
    BY <1>c, <2>1 DEF ServiceState
  <2>3. Asked(segments)' = segments' /\ Asked(results)' = results'
    BY <2>2 DEF Asked
  <2>4. results = [i \in DOMAIN segments |-> NoText]
    <3>1. \A b \in DOMAIN batches : task[b].pc = "waiting"
      BY <1>0, <2>1 DEF PhaseOK
    <3>2. \A i \in DOMAIN segments : BatchOf(i) \in DOMAIN batches /\ i \in Range(batches[BatchOf(i)])
      BY <1>0, Placed DEF BatchInv
    <3>3. \A i \in DOMAIN segments : results[i] = NoText
      BY <1>0, <3>1, <3>2 DEF ResultsOK
    <3>4. results \in [DOMAIN segments -> TextType \cup {NoText}]
      BY <1>0 DEF ResultsOK
    <3> QED
      BY <3>3, <3>4
  <2>5. Asked(results)' = [i \in DOMAIN segments' |-> NoText]
    BY <1>c, <2>3, <2>4
  <2> QED
    BY <1>c, <1>d, <2>2, <2>3, <2>5 DEF Asks
<1>7. CASE Close
  <2>1. pc = "translate" /\ pc' = "failed" /\ failing
    BY <1>7 DEF Close, At, Goto
  <2>2. ServiceState = "asked" /\ ServiceState' = "raised"
    BY <1>c, <2>1 DEF ServiceState
  <2> QED
    BY <1>c, <1>d, <2>2 DEF Raises, Asked
<1>8. CASE Reassemble
  <2>1. pc = "translate" /\ pc' = "generate" /\ doneBatches = Len(batches)
    BY <1>8 DEF Reassemble, At, Goto
  <2>2. ServiceState = "asked" /\ ServiceState' = "returned"
    BY <1>c, <2>1 DEF ServiceState
  <2>3. Asked(segments) = segments /\ Asked(results) = results /\ UNCHANGED <<Asked(segments), Asked(results)>>
    BY <1>c, <2>2 DEF Asked
  <2>4. \A i \in DOMAIN segments : results[i] # NoText
    BY <1>0, <2>1, AllAnswered DEF ResultsOK
  <2> QED
    BY <1>d, <2>2, <2>3, <2>4 DEF Returns
<1>9. CASE WriteBegin \/ WriteDone \/ Export \/ ShowDone
  <2>1. pc \in {"generate", "write", "written", "convert", "done"} /\ pc' \in {"generate", "write", "written", "convert", "done"}
    BY <1>9 DEF WriteBegin, WriteDone, Export, ShowDone, At, Goto
  <2> QED
    BY <1>2, <2>1
<1>10. CASE WriteFails
  <2>1. pc = "write" /\ pc' = "failed"
    BY <1>10 DEF WriteFails, Fail, Goto
  <2>2. ~failing /\ doneBatches # 0
    BY <1>0, <1>a, <2>1 DEF PhaseOK
  <2>3. ServiceState = "returned" /\ ServiceState' = "returned"
    BY <1>c, <2>1, <2>2 DEF ServiceState
  <2> QED
    BY <1>c, <2>3, Unnoticed DEF Silence
<1> QED
  BY <1>3, <1>4, <1>5, <1>6, <1>7, <1>8, <1>9, <1>10 DEF Main

LEMMA FinishServes ==
  ASSUME Inv, NEW b \in DOMAIN task, Finish(b), segments # <<>>, UNCHANGED <<run, segments, batches>>
  PROVE  Answers
<1>0. BatchInv /\ ResultsOK /\ Work /\ AnswersOK /\ b \in DOMAIN batches /\ GivenOK
  BY InvIs DEF BatchInv, TasksOK
<1>1. /\ pc = "translate" /\ pc' = pc /\ task[b].pc = "answered"
      /\ results' = [i \in DOMAIN results |-> IF i \in Range(batches[b]) THEN got[i] ELSE results[i]]
  BY DEF Finish, At, TaskFinish
<1>2. ServiceState = "asked" /\ ServiceState' = "asked"
  BY <1>1 DEF ServiceState
<1>3. Asked(segments) = segments /\ Asked(results) = results /\ Asked(segments)' = segments' /\ Asked(results)' = results'
  BY <1>2 DEF Asked
<1>4. DOMAIN results = DOMAIN segments /\ DOMAIN results' = DOMAIN segments
  BY <1>0, <1>1 DEF ResultsOK
<1>5. ASSUME NEW i \in DOMAIN segments, results'[i] # results[i]
      PROVE  results[i] = NoText /\ results'[i] \in {segments[i], <<>>, [k \in DOMAIN segments[i] |-> [segments[i][k] EXCEPT !.lang = run.target]]}
  <2>1. i \in Range(batches[b]) /\ results'[i] = got[i]
    BY <1>1, <1>4, <1>5
  <2>2. results[i] = NoText
    BY <1>0, <1>1, <2>1 DEF ResultsOK
  <2>3. got[i] # NoText
    BY <1>0, <1>1, <2>1 DEF Work, BatchWork
  <2>4. got[i] \in AnswersTo(i)
    BY <1>0, <2>3 DEF AnswersOK
  <2> QED
    BY <2>1, <2>2, <2>4 DEF AnswersTo, Translated
<1>6. UNCHANGED run.target
  OBVIOUS
<1> QED
  BY <1>2, <1>3, <1>4, <1>5, <1>6 DEF Answers

LEMMA StepServes ==
  ASSUME Inv, Inv', [Next]_vars
  PROVE  Asks \/ Answers \/ Returns \/ Raises \/ Silence
<1>0. UNCHANGED <<run, segments, batches>> /\ BatchInv
  BY GivenStays, InvIs
<1>1. CASE segments = <<>>
  <2>1. ServiceState = "idle" /\ ServiceState' = "idle"
    BY <1>0, <1>1 DEF ServiceState
  <2> QED
    BY <1>0, <2>1, Unnoticed DEF Silence
<1>2. CASE segments # <<>>
  <2>1. CASE Main
    BY <1>0, <1>2, <2>1, MainServes
  <2>2. ASSUME UNCHANGED batchVars, pc' = pc PROVE Silence
    <3>1. UNCHANGED <<run, segments, batches, task, results, doneBatches, failing>>
      BY <2>2, Elsewhere
    <3>2. UNCHANGED ServiceState
      BY <2>2, <3>1 DEF ServiceState
    <3> QED
      BY <3>1, <3>2, Unnoticed DEF Silence
  <2>3. CASE Ticks
    BY <2>2, <2>3 DEF Ticks, ParseTick, DocxTick, Pulse
  <2>4. CASE \E who \in Publishers : PublishStep(who) \/ PublishFault(who)
    BY <2>2, <2>4 DEF PublishStep, PublishFault
  <2>5. ASSUME pc = "translate", pc' = pc, UNCHANGED results PROVE Silence
    <3>1. ServiceState = "asked" /\ ServiceState' = "asked"
      BY <1>0, <1>2, <2>5 DEF ServiceState
    <3> QED
      BY <1>0, <2>5, <3>1, Unnoticed DEF Silence
  <2>6. CASE \E b \in DOMAIN task : Step(b) \/ Finish(b)
    <3>1. PICK b \in DOMAIN task : Step(b) \/ Finish(b)
      BY <2>6
    <3>2. CASE Finish(b)
      BY <1>0, <1>2, <3>2, FinishServes
    <3>3. CASE Step(b)
      <4>1. TaskStep(b) /\ pc = "translate" /\ pc' = pc
        BY <3>3 DEF Step, At
      <4>2. UNCHANGED results
        BY <1>0, <4>1, WorkIsQuiet
      <4> QED
        BY <2>5, <4>1, <4>2
    <3> QED
      BY <3>1, <3>2, <3>3
  <2>7. CASE \E i \in DOMAIN single : StepOne(i)
    <3>1. PICK i \in DOMAIN single : SingleStep(i) /\ pc = "translate" /\ pc' = pc
      BY <2>7 DEF StepOne, At
    <3>2. UNCHANGED results
      BY <1>0, <3>1, WorkIsQuiet
    <3> QED
      BY <2>5, <3>1, <3>2
  <2>8. CASE UNCHANGED vars
    BY <2>2, <2>8 DEF vars
  <2> QED
    BY <2>1, <2>3, <2>4, <2>6, <2>7, <2>8 DEF Next
<1> QED
  BY <1>1, <1>2

LEMMA ServiceSteps ==
  ASSUME Asks \/ Answers \/ Returns \/ Raises \/ Silence
  PROVE  [Service!Next]_(Service!serviceVars)
<1>1. CASE Asks
  <2>1. Service!Ask
    BY <1>1 DEF Asks, Service!Ask
  <2> QED
    BY <2>1 DEF Service!Next
<1>2. CASE Answers
  <2>1. Service!Answer
    BY <1>2 DEF Answers, Service!Answer, Service!MayAnswer
  <2> QED
    BY <2>1 DEF Service!Next
<1>3. CASE Returns
  <2>1. Service!Return
    BY <1>3 DEF Returns, Service!Return
  <2> QED
    BY <2>1 DEF Service!Next
<1>4. CASE Raises
  <2>1. Service!Raise
    BY <1>4 DEF Raises, Service!Raise
  <2> QED
    BY <2>1 DEF Service!Next
<1>5. CASE Silence
  BY <1>5 DEF Silence, Service!serviceVars
<1> QED
  BY <1>1, <1>2, <1>3, <1>4, <1>5

\* translate_segments_batched_async, with its batches, cache, formats, retries, fallbacks
\* and semaphores, is the service the pipeline takes it for: it is asked once, it answers
\* each segment once and with what belongs to it, and it returns only with all of them.
THEOREM TranslatorServes == Spec => ServesSegments
<1>1. Init => Service!Init
  <2> SUFFICES ASSUME Init PROVE Service!Init
    OBVIOUS
  <2>1. pc \in {"parse", "classify"}
    BY DEF Init
  <2>2. ServiceState = "idle"
    BY <2>1 DEF ServiceState
  <2> QED
    BY <2>2 DEF Service!Init, Asked
<1>2. Inv /\ Inv' /\ [Next]_vars => [Service!Next]_(Service!serviceVars)
  BY StepServes, ServiceSteps
<1> QED
  BY <1>1, <1>2, InvariantHolds, PTL DEF Spec, ServesSegments, Service!Spec
====
