--------------------------- MODULE BackfillProofs ---------------------------
(***************************************************************************)
(* The safety theorems of Backfill, from the inductive invariant WholeInv  *)
(* of BackfillInvariant.  The first half says what the operators on bars,  *)
(* segments, gaps and windows return, for every grid and every sequence;   *)
(* the second has one lemma per action.  Facts about recursive functions   *)
(* and folds come from their last step and a least counterexample.         *)
(***************************************************************************)
EXTENDS BackfillInvariant, SequenceTheorems, FiniteSetTheorems, WellFoundedInduction,
        TLAPS

-----------------------------------------------------------------------------
(* Numbers.                                                                *)

\* A set of naturals has a least member: what induction is done with here.
LEMMA Least ==
  ASSUME NEW S \in SUBSET Nat, S # {}
  PROVE  \E i \in S : \A j \in S : i <= j
<1>1. PICK i \in S : \A j \in S : <<j, i>> \notin OpToRel(<, Nat)
  BY NatLessThanWellFounded, WFMin, Zenon
<1>2. \A j \in S : ~(j < i)
  BY <1>1 DEF OpToRel
<1> QED BY <1>2

LEMMA Greatest ==
  ASSUME NEW n \in Nat, NEW S \in SUBSET (0..n), S # {}
  PROVE  \E i \in S : \A j \in S : j <= i
<1> DEFINE T == {n - j : j \in S}
<1>0. \A j \in S : n - j \in Nat
  OBVIOUS
<1>1. T \in SUBSET Nat /\ T # {}
  BY <1>0
<1>2. PICK t \in T : \A u \in T : t <= u
  BY <1>1, Least
<1>3. PICK i \in S : t = n - i
  OBVIOUS
<1>4. \A j \in S : n - j \in T
  OBVIOUS
<1>5. \A j \in S : n - i <= n - j
  BY <1>2, <1>3, <1>4
<1> QED BY <1>5

\* Induction up to n, for a set instead of a predicate.
LEMMA Climb ==
  ASSUME NEW n \in Nat, NEW T, 0 \in T, \A k \in 1..n : k - 1 \in T => k \in T
  PROVE  \A k \in 0..n : k \in T
<1> SUFFICES ASSUME \E k \in 0..n : k \notin T PROVE FALSE
  OBVIOUS
<1> DEFINE S == {k \in 0..n : k \notin T}
<1>0. S \in SUBSET Nat /\ S # {}
  OBVIOUS
<1>1. PICK k \in S : \A j \in S : k <= j
  BY <1>0, Least
<1>2. k \in 1..n /\ k - 1 \in 0..n
  OBVIOUS
<1>3. k - 1 \in T
  BY <1>1, <1>2
<1> QED BY <1>2, <1>3

\* What CHOOSE picks, when only one member will do.
LEMMA MaxIs ==
  ASSUME NEW S \in SUBSET Int, NEW m \in S, \A x \in S : x <= m
  PROVE  Max(S) = m
<1>1. Max(S) \in S /\ \A y \in S : Max(S) >= y
  <2>1. \E x \in S : \A y \in S : x >= y
    OBVIOUS
  <2> QED BY <2>1, Zenon DEF Max
<1>2. Max(S) \in Int /\ Max(S) >= m /\ Max(S) <= m
  BY <1>1
<1> QED BY <1>2

LEMMA MinIs ==
  ASSUME NEW S \in SUBSET Int, NEW m \in S, \A x \in S : m <= x
  PROVE  Min(S) = m
<1>1. Min(S) \in S /\ \A y \in S : Min(S) =< y
  <2>1. \E x \in S : \A y \in S : x =< y
    OBVIOUS
  <2> QED BY <2>1, Zenon DEF Min
<1>2. Min(S) \in Int /\ Min(S) >= m /\ Min(S) <= m
  BY <1>1
<1> QED BY <1>2

LEMMA MaxUpTo ==
  ASSUME NEW n \in Nat, NEW S \in SUBSET (0..n), S # {}
  PROVE  Max(S) \in S /\ \A x \in S : x <= Max(S)
<1>1. PICK m \in S : \A x \in S : x <= m
  BY Greatest
<1>2. S \in SUBSET Int
  OBVIOUS
<1>3. Max(S) = m
  BY <1>1, <1>2, MaxIs
<1> QED BY <1>1, <1>3

LEMMA MinOfSome ==
  ASSUME NEW S \in SUBSET Nat, S # {}
  PROVE  Min(S) \in S /\ \A x \in S : Min(S) <= x
<1>1. PICK m \in S : \A x \in S : m <= x
  BY Least
<1>2. S \in SUBSET Int
  OBVIOUS
<1>3. Min(S) = m
  BY <1>1, <1>2, MinIs
<1> QED BY <1>1, <1>3

LEMMA TopOf ==
  ASSUME NEW k \in Nat \ {0}
  PROVE  Max(1..k) = k /\ (1..k) \ {k} = 1..(k - 1) /\ 1..k # {}
<1>1. 1..k \in SUBSET Int /\ k \in 1..k /\ \A x \in 1..k : x <= k
  OBVIOUS
<1>2. Max(1..k) = k
  BY <1>1, MaxIs
<1>3. (1..k) \ {k} = 1..(k - 1)
  OBVIOUS
<1> QED BY <1>1, <1>2, <1>3

-----------------------------------------------------------------------------
(* Folds over sequences.  A fold is a recursive function on sets of        *)
(* indexes: that there is one is shown here once for all step functions,   *)
(* and then for each fold that its value goes through its prefixes.        *)

Iterates(g, k, base, step) ==
  \A t \in SUBSET (1..k) :
    g[t] = IF t = {} THEN base ELSE step[Max(t)][g[t \ {Max(t)}]]

LEMMA TopAndRest ==
  ASSUME NEW k \in Nat, NEW t \in SUBSET (1..k), t # {}
  PROVE  Max(t) \in t /\ t \ {Max(t)} \in SUBSET (1..(k - 1))
<1>1. t \in SUBSET (0..k)
  OBVIOUS
<1>2. Max(t) \in t /\ \A x \in t : x <= Max(t)
  BY <1>1, MaxUpTo
<1>3. ASSUME NEW x \in t, x # Max(t) PROVE x \in 1..(k - 1)
  <2>1. x \in 1..k /\ Max(t) \in 1..k /\ x <= Max(t)
    BY <1>2, <1>3
  <2> QED BY <1>3, <2>1
<1> QED BY <1>2, <1>3

\* The function that MapThenFoldSet chooses is one of these.
LEMMA IterExists ==
  ASSUME NEW n \in Nat, NEW S, NEW base \in S, NEW step \in [1..n -> [S -> S]]
  PROVE  \E g \in [SUBSET (1..n) -> S] : Iterates(g, n, base, step)
<1> DEFINE T == {k \in 0..n : \E g \in [SUBSET (1..k) -> S] : Iterates(g, k, base, step)}
<1>1. 0 \in T
  <2> DEFINE g == [t \in SUBSET (1..0) |-> base]
  <2>1. g \in [SUBSET (1..0) -> S]
    OBVIOUS
  <2>2. Iterates(g, 0, base, step)
    <3>1. \A t \in SUBSET (1..0) : t = {}
      OBVIOUS
    <3> QED BY <3>1 DEF Iterates
  <2>3. 0 \in 0..n
    OBVIOUS
  <2> HIDE DEF g
  <2> QED BY <2>1, <2>2, <2>3
<1>2. ASSUME NEW k \in 1..n, k - 1 \in T PROVE k \in T
  <2>1. PICK g \in [SUBSET (1..(k - 1)) -> S] : Iterates(g, k - 1, base, step)
    BY <1>2
  <2>2. \A t \in SUBSET (1..k) :
          t # {} => Max(t) \in t /\ t \ {Max(t)} \in SUBSET (1..(k - 1))
    BY TopAndRest
  <2> DEFINE h == [t \in SUBSET (1..k) |->
                     IF t = {} THEN base ELSE step[Max(t)][g[t \ {Max(t)}]]]
  <2>3. h \in [SUBSET (1..k) -> S]
    <3>1. ASSUME NEW t \in SUBSET (1..k), t # {}
          PROVE  step[Max(t)][g[t \ {Max(t)}]] \in S
      <4>1. Max(t) \in t /\ t \ {Max(t)} \in SUBSET (1..(k - 1))
        BY <2>2, <3>1
      <4>5. Max(t) \in 1..k
        BY <4>1
      <4>3. Max(t) \in 1..n
        BY <4>5
      <4>4. g[t \ {Max(t)}] \in S
        BY <4>1
      <4>2. step[Max(t)] \in [S -> S]
        BY <4>3
      <4> QED BY <4>4, <4>2
    <3> QED BY <3>1
  <2>4. \A t \in SUBSET (1..(k - 1)) : t \in SUBSET (1..k) /\ h[t] = g[t]
    <3>1. \A t \in SUBSET (1..(k - 1)) : t \in SUBSET (1..k)
      OBVIOUS
    <3> QED BY <2>1, <3>1 DEF Iterates
  <2>5. Iterates(h, k, base, step)
    BY <2>2, <2>4 DEF Iterates
  <2> HIDE DEF h
  <2> QED BY <2>3, <2>5
<1> HIDE DEF T
<1>3. \A k \in 0..n : k \in T
  BY <1>1, <1>2, Climb
<1>4. n \in 0..n
  OBVIOUS
<1> QED BY <1>3, <1>4 DEF T

LEMMA OnlyTrace ==
  ASSUME NEW A, NEW s \in Seq(A), NEW T
  PROVE  \E F : /\ F[0] = <<>>
                /\ \A k \in 1..Len(s) :
                     F[k] = IF s[k] \in T THEN Append(F[k-1], s[k]) ELSE F[k-1]
                /\ Only(s, T) = F[Len(s)]
<1> DEFINE step == [i \in 1..Len(s) |->
                      [v \in Seq(A) |-> IF s[i] \in T THEN Append(v, s[i]) ELSE v]]
<1>0. Len(s) \in Nat /\ DOMAIN s = 1..Len(s)
  OBVIOUS
<1>1. step \in [1..Len(s) -> [Seq(A) -> Seq(A)]] /\ <<>> \in Seq(A)
  OBVIOUS
<1>2. PICK g \in [SUBSET (1..Len(s)) -> Seq(A)] : Iterates(g, Len(s), <<>>, step)
  <2> HIDE DEF step
  <2> QED BY <1>0, <1>1, IterExists
<1>3. \A t \in SUBSET (1..Len(s)) :
        t # {} => Max(t) \in 1..Len(s) /\ t \ {Max(t)} \in SUBSET (1..Len(s))
  BY <1>0, TopAndRest
<1>4. g = [t \in SUBSET DOMAIN s |->
             IF t = {} THEN <<>>
             ELSE IF s[Max(t)] \in T THEN Append(g[t \ {Max(t)}], s[Max(t)])
                  ELSE g[t \ {Max(t)}]]
  BY <1>0, <1>2, <1>3 DEF Iterates
<1>5. PICK h : /\ h = [t \in SUBSET DOMAIN s |->
                         IF t = {} THEN <<>>
                         ELSE IF s[Max(t)] \in T THEN Append(h[t \ {Max(t)}], s[Max(t)])
                              ELSE h[t \ {Max(t)}]]
               /\ Only(s, T) = h[DOMAIN s]
  <2> DEFINE h == CHOOSE h : h = [t \in SUBSET DOMAIN s |->
                         IF t = {} THEN <<>>
                         ELSE IF s[Max(t)] \in T THEN Append(h[t \ {Max(t)}], s[Max(t)])
                              ELSE h[t \ {Max(t)}]]
  <2>1. h = [t \in SUBSET DOMAIN s |->
                         IF t = {} THEN <<>>
                         ELSE IF s[Max(t)] \in T THEN Append(h[t \ {Max(t)}], s[Max(t)])
                              ELSE h[t \ {Max(t)}]]
    BY <1>4, Zenon
  <2>2. Only(s, T) = h[DOMAIN s]
    BY DEF Only, FoldLeft, MapThenFoldSet
  <2> QED BY <2>1, <2>2, Zenon
<1> DEFINE F == [k \in 0..Len(s) |-> h[1..k]]
<1>6. F[0] = <<>> /\ F[Len(s)] = h[DOMAIN s]
  BY <1>0, <1>5
<1>7. ASSUME NEW k \in 1..Len(s)
      PROVE  F[k] = IF s[k] \in T THEN Append(F[k-1], s[k]) ELSE F[k-1]
  <2>1. Max(1..k) = k /\ (1..k) \ {k} = 1..(k - 1) /\ 1..k # {}
    BY TopOf
  <2>2. 1..k \in SUBSET DOMAIN s /\ k - 1 \in 0..Len(s) /\ k \in 0..Len(s)
    BY <1>0
  <2> QED BY <1>5, <2>1, <2>2, ZenonT(30)
<1> HIDE DEF F
<1> QED BY <1>5, <1>6, <1>7

\* What Only keeps, and from where: positions in order, none left out.
KeptFrom(at, r, s, T, n) ==
  /\ at \in [1..Len(r) -> 1..n]
  /\ \A i \in 1..Len(r) : r[i] = s[at[i]] /\ r[i] \in T
  /\ \A i, j \in 1..Len(r) : i < j => at[i] < at[j]
  /\ \A k \in 1..n : s[k] \in T => \E i \in 1..Len(r) : at[i] = k

\* Only keeps the members of the set, each where it stood among the others.
LEMMA OnlyIs ==
  ASSUME NEW A, NEW s \in Seq(A), NEW T
  PROVE  /\ Only(s, T) \in Seq(A)
         /\ \E at : KeptFrom(at, Only(s, T), s, T, Len(s))
<1>1. PICK F : /\ F[0] = <<>>
               /\ \A k \in 1..Len(s) :
                    F[k] = IF s[k] \in T THEN Append(F[k-1], s[k]) ELSE F[k-1]
               /\ Only(s, T) = F[Len(s)]
  BY OnlyTrace
<1> DEFINE S == {k \in 0..Len(s) : F[k] \in Seq(A) /\ \E at : KeptFrom(at, F[k], s, T, k)}
<1>2. 0 \in S
  <2>1. KeptFrom(<<>>, <<>>, s, T, 0)
    BY DEF KeptFrom
  <2>2. 0 \in 0..Len(s) /\ <<>> \in Seq(A)
    OBVIOUS
  <2> QED BY <1>1, <2>1, <2>2
<1>3. ASSUME NEW k \in 1..Len(s), k - 1 \in S PROVE k \in S
  <2> DEFINE r == F[k-1]
  <2>1. PICK at : r \in Seq(A) /\ KeptFrom(at, r, s, T, k - 1)
    BY <1>3
  <2>2. s[k] \in A /\ Len(r) \in Nat
    BY <2>1
  <2>3. CASE s[k] \in T
    <3> DEFINE q == Append(r, s[k])
               new == [i \in 1..Len(q) |-> IF i = Len(q) THEN k ELSE at[i]]
    <3>1. /\ q \in Seq(A) /\ Len(q) = Len(r) + 1
          /\ \A i \in 1..Len(r) : q[i] = r[i]
          /\ q[Len(q)] = s[k]
      BY <2>1, <2>2
    <3>2. F[k] = q
      BY <1>1, <2>3
    <3> HIDE DEF q, r
    <3>3. /\ new \in [1..Len(q) -> 1..k]
          /\ \A i \in 1..Len(r) : new[i] = at[i] /\ new[i] \in 1..(k - 1)
          /\ new[Len(q)] = k
      BY <2>1, <2>2, <3>1 DEF KeptFrom
    <3> HIDE DEF new
    <3>4. \A i \in 1..Len(q) : i \in 1..Len(r) \/ i = Len(q)
      BY <2>2, <3>1
    <3>5. \A i \in 1..Len(q) : q[i] = s[new[i]] /\ q[i] \in T
      BY <2>1, <2>3, <3>1, <3>3, <3>4 DEF KeptFrom
    <3>6. \A i, j \in 1..Len(q) : i < j => new[i] < new[j]
      BY <2>1, <2>2, <3>1, <3>3, <3>4 DEF KeptFrom
    <3>7. \A m \in 1..k : s[m] \in T => \E i \in 1..Len(q) : new[i] = m
      <4>1. \A m \in 1..k : m \in 1..(k - 1) \/ m = k
        OBVIOUS
      <4>2. Len(q) \in 1..Len(q) /\ \A i \in 1..Len(r) : i \in 1..Len(q)
        BY <2>2, <3>1
      <4> QED BY <2>1, <3>3, <4>1, <4>2 DEF KeptFrom
    <3>8. KeptFrom(new, q, s, T, k)
      BY <3>3, <3>5, <3>6, <3>7 DEF KeptFrom
    <3> QED BY <3>1, <3>2, <3>8
  <2>4. CASE s[k] \notin T
    <3>1. F[k] = r
      BY <1>1, <2>4
    <3>2. KeptFrom(at, r, s, T, k)
      <4> HIDE DEF r
      <4>1. \A m \in 1..k : m \in 1..(k - 1) \/ m = k
        OBVIOUS
      <4>2. \A m \in 1..(k - 1) : m \in 1..k
        OBVIOUS
      <4> QED BY <2>1, <2>4, <4>1, <4>2 DEF KeptFrom
    <3> QED BY <2>1, <3>1, <3>2
  <2> QED BY <2>3, <2>4
<1> HIDE DEF S
<1>4. Len(s) \in Nat /\ Len(s) \in 0..Len(s)
  OBVIOUS
<1>5. Len(s) \in S
  BY <1>2, <1>3, <1>4, Climb
<1> QED BY <1>1, <1>5 DEF S

Rising(r) == \A i, j \in 1..Len(r) : i < j => r[i] < r[j]

\* Ascending has every instant of the set, once, in order.
LEMMA AscendingIs ==
  ASSUME NEW n \in Nat, NEW T \in SUBSET (0..n)
  PROVE  /\ Ascending(T) \in Seq(T) /\ Rising(Ascending(T))
         /\ \A x \in T : \E i \in 1..Len(Ascending(T)) : Ascending(T)[i] = x
<1>1. CASE T = {}
  BY <1>1 DEF Ascending, Rising
<1>2. CASE T # {}
  <2> DEFINE m == Max(T)
             s == [i \in 1..(m + 1) |-> i - 1]
             r == Only(s, T)
  <2>1. m \in T /\ m \in Nat /\ \A x \in T : x <= m
    <3>1. m \in T /\ \A x \in T : x <= m
      BY <1>2, MaxUpTo
    <3> HIDE DEF m
    <3> QED BY <3>1
  <2>2. /\ s \in Seq(0..m) /\ Len(s) = m + 1
        /\ \A i \in 1..(m + 1) : s[i] = i - 1
    <3> HIDE DEF m
    <3> QED BY <2>1
  <2>3. Ascending(T) = r
    BY <1>2 DEF Ascending
  <2> HIDE DEF s, m
  <2>4. PICK at : KeptFrom(at, r, s, T, m + 1)
    BY <2>2, OnlyIs
  <2>5. r \in Seq(0..m)
    BY <2>2, OnlyIs
  <2> HIDE DEF r
  <2>6. /\ \A i \in 1..Len(r) : r[i] \in T
        /\ Len(r) \in Nat
    BY <2>4, <2>5 DEF KeptFrom
  <2>7. r \in Seq(T)
    BY <2>5, <2>6
  <2>8. Rising(r)
    <3> SUFFICES ASSUME NEW i \in 1..Len(r), NEW j \in 1..Len(r), i < j
                 PROVE  r[i] < r[j]
      BY DEF Rising
    <3>1. /\ at[i] \in 1..(m + 1) /\ at[j] \in 1..(m + 1) /\ at[i] < at[j]
          /\ r[i] = s[at[i]] /\ r[j] = s[at[j]]
      BY <2>4 DEF KeptFrom
    <3> QED BY <2>1, <2>2, <3>1
  <2>9. ASSUME NEW x \in T PROVE \E i \in 1..Len(r) : r[i] = x
    <3>1. x \in 0..m /\ x + 1 \in 1..(m + 1) /\ s[x + 1] = x
      BY <2>1, <2>2
    <3>2. PICK i \in 1..Len(r) : at[i] = x + 1
      BY <2>4, <3>1 DEF KeptFrom
    <3>3. r[i] = s[at[i]]
      BY <2>4 DEF KeptFrom
    <3> QED BY <3>1, <3>2, <3>3
  <2> QED BY <2>3, <2>7, <2>8, <2>9
<1> QED BY <1>1, <1>2

-----------------------------------------------------------------------------
(* Segments.                                                               *)

InOrder(segments) == \A i \in 1..(Len(segments) - 1) : segments[i].hi <= segments[i+1].lo

LEMMA FactFields ==
  ASSUME NEW s \in Fact
  PROVE  s.lo \in Nat /\ s.hi \in Nat /\ s.lo < s.hi /\ s.status \in Statuses
BY DEF Fact

LEMMA FactMade ==
  ASSUME NEW lo \in Nat, NEW hi \in Nat, lo < hi, NEW status \in Statuses
  PROVE  /\ Segment(lo, hi, status) \in Fact
         /\ Segment(lo, hi, status).lo = lo /\ Segment(lo, hi, status).hi = hi
         /\ Segment(lo, hi, status).status = status
BY DEF Fact, Segment

LEMMA FrontIs ==
  ASSUME NEW A, NEW s \in Seq(A), s # <<>>, NEW x \in A
  PROVE  LET q == Append(Front(s), x) IN
         /\ q \in Seq(A) /\ Len(q) = Len(s) /\ Len(s) \in Nat \ {0}
         /\ \A i \in 1..(Len(s) - 1) : q[i] = s[i]
         /\ q[Len(s)] = x
<1>1. Len(s) \in Nat \ {0}
  OBVIOUS
<1>2. /\ Front(s) \in Seq(A) /\ Len(Front(s)) = Len(s) - 1
      /\ \A i \in 1..(Len(s) - 1) : Front(s)[i] = s[i]
  <2>1. /\ 1 \in Int /\ Len(s) - 1 \in Int /\ (1 <= Len(s) - 1 \/ Len(s) - 1 = 0)
        /\ \A i \in 1..(Len(s) - 1) : s[i] \in A
    <3>1. \A i \in 1..(Len(s) - 1) : i \in 1..Len(s)
      BY <1>1
    <3>2. \A n \in Nat \ {0} : n - 1 \in Int /\ (1 <= n - 1 \/ n - 1 = 0)
      OBVIOUS
    <3>3. \A i \in 1..Len(s) : s[i] \in A
      BY ElementOfSeq
    <3>4. Len(s) - 1 \in Int /\ (1 <= Len(s) - 1 \/ Len(s) - 1 = 0)
      BY <1>1, <3>2
    <3>5. \A i \in 1..(Len(s) - 1) : s[i] \in A
      BY <3>1, <3>3
    <3> QED BY <3>4, <3>5
  <2>2. /\ Front(s) \in Seq(A)
        /\ Len(Front(s)) = IF 1 <= Len(s) - 1 THEN (Len(s) - 1) - 1 + 1 ELSE 0
        /\ \A i \in 1..((Len(s) - 1) - 1 + 1) : Front(s)[i] = s[1 + i - 1]
    BY <2>1, SubSeqProperties DEF Front
  <2>3. (Len(s) - 1) - 1 + 1 = Len(s) - 1 /\ \A i \in 1..(Len(s) - 1) : 1 + i - 1 = i
    BY <1>1
  <2> QED BY <2>1, <2>2, <2>3
<1> QED BY <1>1, <1>2

\* Joining keeps what is shown.
LEMMA JoinedKeeps ==
  ASSUME NEW m \in Seq(Fact), NEW x \in Fact
  PROVE  /\ Joined(m, x) \in Seq(Fact)
         /\ Joined(m, x) # <<>> /\ Last(Joined(m, x)).hi = x.hi
         /\ \A t \in Nat, status \in Statuses :
              Shows(Joined(m, x), t, status) <=>
                Shows(m, t, status) \/ (t \in Instants(x) /\ x.status = status)
<1> DEFINE n == Len(m)
<1>0. x.lo \in Nat /\ x.hi \in Nat /\ x.lo < x.hi /\ x.status \in Statuses
  BY FactFields
<1>1. CASE m # <<>> /\ Joins(Last(m), x)
  <2> DEFINE y == Segment(Last(m).lo, x.hi, x.status)
             j == Append(Front(m), y)
  <2>1. /\ n \in Nat \ {0} /\ m[n] \in Fact /\ Last(m) = m[n]
        /\ m[n].hi = x.lo /\ m[n].status = x.status
    BY <1>1 DEF Last, Joins
  <2>2. m[n].lo \in Nat /\ m[n].lo < x.lo
    BY <2>1, FactFields
  <2>3. y \in Fact /\ y.lo = m[n].lo /\ y.hi = x.hi /\ y.status = x.status
    BY <1>0, <2>1, <2>2, FactMade
  <2> HIDE DEF y
  <2>4. /\ j \in Seq(Fact) /\ Len(j) = n
        /\ \A i \in 1..(n - 1) : j[i] = m[i]
        /\ j[n] = y
    BY <1>1, <2>3, FrontIs
  <2>5. Joined(m, x) = j
    BY <1>1 DEF Joined, y
  <2> HIDE DEF j
  <2>7. ASSUME NEW t \in Nat, NEW status \in Statuses
        PROVE  Shows(j, t, status) <=>
                 Shows(m, t, status) \/ (t \in Instants(x) /\ x.status = status)
    <3>1. t \in Instants(y) <=> t \in Instants(m[n]) \/ t \in Instants(x)
      BY <1>0, <2>1, <2>2, <2>3 DEF Instants
    <3>2. \A i \in 1..n : i \in 1..(n - 1) \/ i = n
      BY <2>1
    <3>3. n \in 1..n /\ \A i \in 1..(n - 1) : i \in 1..n
      BY <2>1
    <3>4. Shows(j, t, status) =>
            Shows(m, t, status) \/ (t \in Instants(x) /\ x.status = status)
      BY <2>1, <2>3, <2>4, <3>1, <3>2, <3>3 DEF Shows
    <3>5. Shows(m, t, status) => Shows(j, t, status)
      BY <2>1, <2>3, <2>4, <3>1, <3>2, <3>3 DEF Shows
    <3>6. t \in Instants(x) /\ x.status = status => Shows(j, t, status)
      BY <2>1, <2>3, <2>4, <3>1, <3>3 DEF Shows
    <3> QED BY <3>4, <3>5, <3>6
  <2>8. j # <<>> /\ Last(j).hi = x.hi
    BY <2>1, <2>3, <2>4 DEF Last
  <2> QED BY <2>4, <2>5, <2>7, <2>8
<1>2. CASE ~(m # <<>> /\ Joins(Last(m), x))
  <2> DEFINE j == Append(m, x)
  <2>1. /\ n \in Nat /\ j \in Seq(Fact) /\ Len(j) = n + 1
        /\ \A i \in 1..n : j[i] = m[i]
        /\ j[n + 1] = x
    OBVIOUS
  <2>2. Joined(m, x) = j
    BY <1>2 DEF Joined
  <2> HIDE DEF j
  <2>4. ASSUME NEW t \in Nat, NEW status \in Statuses
        PROVE  Shows(j, t, status) <=>
                 Shows(m, t, status) \/ (t \in Instants(x) /\ x.status = status)
    <3>1. /\ \A i \in 1..(n + 1) : i \in 1..n \/ i = n + 1
          /\ n + 1 \in 1..(n + 1) /\ \A i \in 1..n : i \in 1..(n + 1)
      BY <2>1
    <3> QED BY <2>1, <3>1 DEF Shows
  <2>5. j # <<>> /\ Last(j).hi = x.hi
    BY <2>1 DEF Last
  <2> QED BY <2>1, <2>2, <2>4, <2>5
<1> QED BY <1>1, <1>2

\* Joined in order, segments stay normal.
LEMMA JoinedNormal ==
  ASSUME NEW m \in Seq(Fact), Normal(m), NEW x \in Fact,
         m # <<>> => Last(m).hi <= x.lo
  PROVE  Normal(Joined(m, x))
<1> DEFINE n == Len(m)
<1>0. x.lo \in Nat /\ x.hi \in Nat /\ x.lo < x.hi /\ x.status \in Statuses
  BY FactFields
<1>1. CASE m # <<>> /\ Joins(Last(m), x)
  <2> DEFINE y == Segment(Last(m).lo, x.hi, x.status)
             j == Append(Front(m), y)
  <2>1. /\ n \in Nat \ {0} /\ m[n] \in Fact /\ Last(m) = m[n]
        /\ m[n].hi = x.lo /\ m[n].status = x.status
    BY <1>1 DEF Last, Joins
  <2>2. m[n].lo \in Nat /\ m[n].lo < x.lo
    BY <2>1, FactFields
  <2>3. y \in Fact /\ y.lo = m[n].lo /\ y.hi = x.hi /\ y.status = x.status
    BY <1>0, <2>1, <2>2, FactMade
  <2> HIDE DEF y
  <2>4. /\ j \in Seq(Fact) /\ Len(j) = n
        /\ \A i \in 1..(n - 1) : j[i] = m[i]
        /\ j[n] = y
    BY <1>1, <2>3, FrontIs
  <2>5. Joined(m, x) = j
    BY <1>1 DEF Joined, y
  <2> HIDE DEF j
  <2>6. Normal(j)
    <3> SUFFICES ASSUME NEW i \in 1..(n - 1)
                 PROVE  \/ j[i].hi < j[i+1].lo
                        \/ j[i].hi = j[i+1].lo /\ j[i].status # j[i+1].status
      BY <2>4 DEF Normal
    <3>1. \/ m[i].hi < m[i+1].lo
          \/ m[i].hi = m[i+1].lo /\ m[i].status # m[i+1].status
      BY DEF Normal
    <3>2. j[i] = m[i]
      BY <2>4
    <3>3. CASE i + 1 \in 1..(n - 1)
      BY <2>4, <3>1, <3>2, <3>3
    <3>4. CASE i + 1 = n
      BY <2>1, <2>3, <2>4, <3>1, <3>2, <3>4
    <3> QED BY <2>1, <3>3, <3>4
  <2> QED BY <2>5, <2>6
<1>2. CASE ~(m # <<>> /\ Joins(Last(m), x))
  <2> DEFINE j == Append(m, x)
  <2>1. /\ n \in Nat /\ j \in Seq(Fact) /\ Len(j) = n + 1
        /\ \A i \in 1..n : j[i] = m[i]
        /\ j[n + 1] = x
    OBVIOUS
  <2>2. Joined(m, x) = j
    BY <1>2 DEF Joined
  <2> HIDE DEF j
  <2> SUFFICES ASSUME NEW i \in 1..n
               PROVE  \/ j[i].hi < j[i+1].lo
                      \/ j[i].hi = j[i+1].lo /\ j[i].status # j[i+1].status
    <3>1. Len(j) - 1 = n
      BY <2>1
    <3> QED BY <2>2, <3>1 DEF Normal
  <2>3. CASE i \in 1..(n - 1)
    BY <2>1, <2>3 DEF Normal
  <2>4. CASE i = n
    <3>1. /\ m # <<>> /\ Last(m) = m[n] /\ m[n].hi <= x.lo /\ m[n] \in Fact
          /\ ~(m[n].hi = x.lo /\ m[n].status = x.status)
      BY <1>2, <2>1, <2>4 DEF Last, Joins
    <3>2. m[n].hi \in Nat
      BY <3>1, FactFields
    <3> QED BY <1>0, <2>1, <2>4, <3>1, <3>2
  <2> QED BY <2>1, <2>3, <2>4
<1> QED BY <1>1, <1>2

LEMMA CoalesceTrace ==
  ASSUME NEW s \in Seq(Fact)
  PROVE  \E F : /\ F[0] = <<>>
                /\ \A k \in 1..Len(s) : F[k] = Joined(F[k-1], s[k])
                /\ Coalesce(s) = F[Len(s)]
<1> DEFINE step == [i \in 1..Len(s) |-> [v \in Seq(Fact) |-> Joined(v, s[i])]]
<1>0. Len(s) \in Nat /\ DOMAIN s = 1..Len(s)
  OBVIOUS
<1>1. step \in [1..Len(s) -> [Seq(Fact) -> Seq(Fact)]] /\ <<>> \in Seq(Fact)
  <2>1. ASSUME NEW i \in 1..Len(s), NEW v \in Seq(Fact)
        PROVE  Joined(v, s[i]) \in Seq(Fact)
    <3>1. s[i] \in Fact
      OBVIOUS
    <3>2. CASE v # <<>> /\ Joins(Last(v), s[i])
      <4>1. v[Len(v)] \in Fact /\ Last(v) = v[Len(v)] /\ v[Len(v)].hi = s[i].lo
        BY <3>2 DEF Last, Joins
      <4>2. Segment(Last(v).lo, s[i].hi, s[i].status) \in Fact
        <5>1. /\ Last(v).lo \in Nat /\ s[i].hi \in Nat /\ Last(v).lo < s[i].hi
              /\ s[i].status \in Statuses
          BY <3>1, <4>1 DEF Fact
        <5> QED BY <5>1, FactMade
      <4> QED BY <3>2, <4>2, FrontIs DEF Joined
    <3>3. CASE ~(v # <<>> /\ Joins(Last(v), s[i]))
      BY <3>1, <3>3 DEF Joined
    <3> QED BY <3>2, <3>3
  <2> QED BY <2>1
<1>2. PICK g \in [SUBSET (1..Len(s)) -> Seq(Fact)] : Iterates(g, Len(s), <<>>, step)
  <2> HIDE DEF step
  <2> QED BY <1>0, <1>1, IterExists
<1>3. \A t \in SUBSET (1..Len(s)) :
        t # {} => Max(t) \in 1..Len(s) /\ t \ {Max(t)} \in SUBSET (1..Len(s))
  BY <1>0, TopAndRest
<1>4. g = [t \in SUBSET DOMAIN s |->
             IF t = {} THEN <<>> ELSE Joined(g[t \ {Max(t)}], s[Max(t)])]
  BY <1>0, <1>2, <1>3 DEF Iterates
<1>5. PICK h : /\ h = [t \in SUBSET DOMAIN s |->
                         IF t = {} THEN <<>> ELSE Joined(h[t \ {Max(t)}], s[Max(t)])]
               /\ Coalesce(s) = h[DOMAIN s]
  <2> DEFINE h == CHOOSE h : h = [t \in SUBSET DOMAIN s |->
                         IF t = {} THEN <<>> ELSE Joined(h[t \ {Max(t)}], s[Max(t)])]
  <2>1. h = [t \in SUBSET DOMAIN s |->
                         IF t = {} THEN <<>> ELSE Joined(h[t \ {Max(t)}], s[Max(t)])]
    BY <1>4, Zenon
  <2>2. Coalesce(s) = h[DOMAIN s]
    BY DEF Coalesce, FoldLeft, MapThenFoldSet
  <2> QED BY <2>1, <2>2, Zenon
<1> DEFINE F == [k \in 0..Len(s) |-> h[1..k]]
<1>6. F[0] = <<>> /\ F[Len(s)] = h[DOMAIN s]
  BY <1>0, <1>5
<1>7. ASSUME NEW k \in 1..Len(s)
      PROVE  F[k] = Joined(F[k-1], s[k])
  <2>1. Max(1..k) = k /\ (1..k) \ {k} = 1..(k - 1) /\ 1..k # {}
    BY TopOf
  <2>2. 1..k \in SUBSET DOMAIN s /\ k - 1 \in 0..Len(s) /\ k \in 0..Len(s)
    BY <1>0
  <2> QED BY <1>5, <2>1, <2>2
<1> HIDE DEF F
<1> QED BY <1>5, <1>6, <1>7

\* Coalescing changes nothing about what segments show.
LEMMA CoalesceKeeps ==
  ASSUME NEW s \in Seq(Fact)
  PROVE  /\ Coalesce(s) \in Seq(Fact)
         /\ \A t \in Nat, status \in Statuses :
              Shows(Coalesce(s), t, status) <=> Shows(s, t, status)
<1>1. PICK F : /\ F[0] = <<>>
               /\ \A k \in 1..Len(s) : F[k] = Joined(F[k-1], s[k])
               /\ Coalesce(s) = F[Len(s)]
  BY CoalesceTrace
<1> DEFINE Upto(k, t, status) ==
             \E i \in 1..k : t \in Instants(s[i]) /\ s[i].status = status
           S == {k \in 0..Len(s) :
                   /\ F[k] \in Seq(Fact)
                   /\ \A t \in Nat, status \in Statuses :
                        Shows(F[k], t, status) <=> Upto(k, t, status)}
<1>2. 0 \in S
  <2>1. 0 \in 0..Len(s) /\ <<>> \in Seq(Fact)
    OBVIOUS
  <2>2. \A t, status : ~Shows(<<>>, t, status) /\ ~Upto(0, t, status)
    BY DEF Shows
  <2> HIDE DEF Upto
  <2> QED BY <1>1, <2>1, <2>2
<1>3. ASSUME NEW k \in 1..Len(s), k - 1 \in S PROVE k \in S
  <2>1. s[k] \in Fact /\ F[k-1] \in Seq(Fact) /\ k \in 0..Len(s)
        /\ F[k] = Joined(F[k-1], s[k])
    BY <1>1, <1>3
  <2>2. ASSUME NEW t \in Nat, NEW status \in Statuses
        PROVE  Upto(k, t, status) <=>
                 Upto(k - 1, t, status) \/ (t \in Instants(s[k]) /\ s[k].status = status)
    <3>1. /\ \A i \in 1..k : i \in 1..(k - 1) \/ i = k
          /\ k \in 1..k /\ \A i \in 1..(k - 1) : i \in 1..k
      OBVIOUS
    <3> QED BY <3>1
  <2>3. /\ F[k] \in Seq(Fact)
        /\ \A t \in Nat, status \in Statuses :
             Shows(F[k], t, status) <=>
               Shows(F[k-1], t, status) \/ (t \in Instants(s[k]) /\ s[k].status = status)
    <3> DEFINE m == F[k-1]
               x == s[k]
    <3>1. m \in Seq(Fact) /\ x \in Fact /\ F[k] = Joined(m, x)
      BY <2>1
    <3> HIDE DEF m, x
    <3>2. /\ Joined(m, x) \in Seq(Fact)
          /\ \A t \in Nat, status \in Statuses :
               Shows(Joined(m, x), t, status) <=>
                 Shows(m, t, status) \/ (t \in Instants(x) /\ x.status = status)
      BY <3>1, JoinedKeeps
    <3> QED BY <3>1, <3>2 DEF m, x
  <2>4. \A t \in Nat, status \in Statuses :
          Shows(F[k-1], t, status) <=> Upto(k - 1, t, status)
    BY <1>3
  <2> HIDE DEF Upto
  <2> QED BY <2>1, <2>2, <2>3, <2>4
<1> HIDE DEF S
<1>4. Len(s) \in Nat /\ Len(s) \in 0..Len(s)
  OBVIOUS
<1>5. Len(s) \in S
  BY <1>2, <1>3, <1>4, Climb
<1>6. \A t, status : Upto(Len(s), t, status) <=> Shows(s, t, status)
  BY DEF Shows
<1> HIDE DEF Upto
<1> QED BY <1>1, <1>5, <1>6 DEF S

\* Coalescing segments in order makes them normal.
LEMMA CoalesceIs ==
  ASSUME NEW s \in Seq(Fact), InOrder(s)
  PROVE  /\ Coalesce(s) \in Seq(Fact) /\ Normal(Coalesce(s))
         /\ \A t \in Nat, status \in Statuses :
              Shows(Coalesce(s), t, status) <=> Shows(s, t, status)
<1>1. PICK F : /\ F[0] = <<>>
               /\ \A k \in 1..Len(s) : F[k] = Joined(F[k-1], s[k])
               /\ Coalesce(s) = F[Len(s)]
  BY CoalesceTrace
<1> DEFINE S == {k \in 0..Len(s) :
                   /\ F[k] \in Seq(Fact) /\ Normal(F[k])
                   /\ k > 0 => F[k] # <<>> /\ Last(F[k]).hi = s[k].hi}
<1>2. 0 \in S
  <2>1. 0 \in 0..Len(s) /\ <<>> \in Seq(Fact) /\ ~(0 > 0) /\ Normal(<<>>)
    BY DEF Normal
  <2> QED BY <1>1, <2>1
<1>3. ASSUME NEW k \in 1..Len(s), k - 1 \in S PROVE k \in S
  <2> DEFINE m == F[k-1]
             x == s[k]
  <2>1. /\ x \in Fact /\ k \in 0..Len(s) /\ F[k] = Joined(m, x)
        /\ m \in Seq(Fact) /\ Normal(m)
    BY <1>1, <1>3
  <2>2. m # <<>> => Last(m).hi <= x.lo
    <3>1. CASE k = 1
      BY <1>1, <3>1
    <3>2. CASE k > 1
      <4>1. k - 1 \in 1..(Len(s) - 1) /\ k - 1 > 0 /\ (k - 1) + 1 = k
        BY <3>2
      <4> QED BY <1>3, <4>1 DEF InOrder
    <3> QED BY <3>1, <3>2
  <2> HIDE DEF m, x
  <2>3. /\ Joined(m, x) \in Seq(Fact) /\ Normal(Joined(m, x))
        /\ Joined(m, x) # <<>> /\ Last(Joined(m, x)).hi = x.hi
    BY <2>1, <2>2, JoinedKeeps, JoinedNormal
  <2> QED BY <2>1, <2>3 DEF x
<1> HIDE DEF S
<1>4. Len(s) \in Nat /\ Len(s) \in 0..Len(s)
  OBVIOUS
<1>5. Len(s) \in S
  BY <1>2, <1>3, <1>4, Climb
<1> QED BY <1>1, <1>5, CoalesceKeeps DEF S

LEMMA SomeBound ==
  ASSUME NEW n \in Nat, NEW f \in [1..n -> Nat]
  PROVE  \E b \in Nat : \A i \in 1..n : f[i] <= b
<1> DEFINE S == {k \in 0..n : \E b \in Nat : \A i \in 1..k : f[i] <= b}
<1>1. 0 \in S
  OBVIOUS
<1>2. ASSUME NEW k \in 1..n, k - 1 \in S PROVE k \in S
  <2>1. PICK b \in Nat : \A i \in 1..(k - 1) : f[i] <= b
    BY <1>2
  <2>2. f[k] \in Nat /\ b + f[k] \in Nat /\ k \in 0..n
    OBVIOUS
  <2>3. ASSUME NEW i \in 1..k PROVE f[i] <= b + f[k]
    <3>1. f[i] \in Nat
      OBVIOUS
    <3> QED BY <2>1, <2>2, <3>1
  <2> QED BY <2>2, <2>3
<1> HIDE DEF S
<1>3. \A k \in 0..n : k \in S
  BY <1>1, <1>2, Climb
<1>4. n \in 0..n
  OBVIOUS
<1> QED BY <1>3, <1>4 DEF S

\* The end points of segments, in order.
EndPoints(s) == {x.lo : x \in ToSet(s)} \cup {x.hi : x \in ToSet(s)}

\* The end points of some segments, in order.
LEMMA EndPointsIs ==
  ASSUME NEW s \in Seq(Fact)
  PROVE  LET p == Ascending(EndPoints(s)) IN
         /\ p \in Seq(Nat) /\ Rising(p)
         /\ \A j \in 1..Len(s) : /\ \E i \in 1..Len(p) : p[i] = s[j].lo
                                 /\ \E i \in 1..Len(p) : p[i] = s[j].hi
<1>1. /\ Len(s) \in Nat /\ DOMAIN s = 1..Len(s)
      /\ \A j \in 1..Len(s) : s[j] \in Fact /\ s[j].lo \in Nat /\ s[j].hi \in Nat
                              /\ s[j].lo < s[j].hi
  BY ElementOfSeq, FactFields
<1>2. [j \in 1..Len(s) |-> s[j].hi] \in [1..Len(s) -> Nat]
  BY <1>1
<1>3. PICK b \in Nat : \A j \in 1..Len(s) : s[j].hi <= b
  BY <1>1, <1>2, SomeBound
<1>4. EndPoints(s) \in SUBSET (0..b)
  <2>1. ASSUME NEW j \in 1..Len(s) PROVE s[j].lo \in 0..b /\ s[j].hi \in 0..b
    BY <1>1, <1>3
  <2> QED BY <1>1, <2>1 DEF EndPoints, ToSet
<1>5. \A j \in 1..Len(s) : s[j].lo \in EndPoints(s) /\ s[j].hi \in EndPoints(s)
  BY <1>1 DEF EndPoints, ToSet
<1>6. EndPoints(s) \subseteq Nat
  BY <1>4
<1> QED BY <1>4, <1>5, <1>6, AscendingIs, SeqMonotonic

LEMMA NextRises ==
  ASSUME NEW p \in Seq(Nat), Rising(p), NEW i \in 1..(Len(p) - 1), NEW k \in 1..Len(p)
  PROVE  /\ p[i] \in Nat /\ p[i+1] \in Nat /\ p[i] < p[i+1] /\ p[k] \in Nat
         /\ k <= i => p[k] <= p[i]
         /\ k > i => p[k] >= p[i+1]
<1>1. Len(p) \in Nat /\ i \in 1..Len(p) /\ i + 1 \in 1..Len(p) /\ i < i + 1
  OBVIOUS
<1>2. p[i] \in Nat /\ p[i+1] \in Nat /\ p[k] \in Nat
  BY <1>1, ElementOfSeq
<1>3. p[i] < p[i+1]
  BY <1>1 DEF Rising
<1>4. k <= i => k = i \/ k < i
  BY <1>1
<1>5. k > i => k = i + 1 \/ i + 1 < k
  BY <1>1
<1>6. k < i => p[k] < p[i]
  BY <1>1 DEF Rising
<1>7. i + 1 < k => p[i+1] < p[k]
  BY <1>1 DEF Rising
<1> QED BY <1>2, <1>3, <1>4, <1>5, <1>6, <1>7

\* An instant between two elements is between two neighbours.
LEMMA Between ==
  ASSUME NEW p \in Seq(Nat), Rising(p), NEW k \in 1..Len(p), NEW l \in 1..Len(p),
         NEW t \in Nat, p[k] <= t, t < p[l]
  PROVE  \E i \in 1..(Len(p) - 1) : p[i] <= t /\ t < p[i+1]
<1> DEFINE S == {i \in 1..Len(p) : p[i] <= t}
<1>1. Len(p) \in Nat /\ p[k] \in Nat /\ p[l] \in Nat
  BY ElementOfSeq
<1>2. PICK i \in S : \A m \in S : m <= i
  <2>1. S \in SUBSET (0..Len(p)) /\ Len(p) \in Nat
    BY <1>1
  <2>2. k \in S
    OBVIOUS
  <2> QED BY <2>1, <2>2, Greatest
<1>3. i # Len(p)
  <2> SUFFICES ASSUME i = Len(p) PROVE FALSE
    OBVIOUS
  <2>1. l = i \/ l < i
    BY <1>1
  <2>2. p[l] <= p[i] /\ p[i] \in Nat
    BY <1>1, <2>1, ElementOfSeq DEF Rising
  <2> QED BY <1>1, <1>2, <2>2
<1>4. i \in 1..(Len(p) - 1) /\ i + 1 \in 1..Len(p) /\ i + 1 > i
  BY <1>1, <1>3
<1>5. i + 1 \notin S
  BY <1>2, <1>4
<1>6. p[i+1] \in Nat
  BY <1>4, ElementOfSeq
<1> QED BY <1>4, <1>5, <1>6

Piece == [lo : Nat, hi : Nat, status : Statuses \cup {"missing"}]

\* The pieces between end points say of each instant the best that any
\* segment says.
LEMMA ElementaryIs ==
  ASSUME NEW s \in Seq(Fact), s # <<>>
  PROVE  LET e == Elementary(s) IN
         /\ e \in Seq(Fact) /\ InOrder(e)
         /\ \A t \in Nat :
              /\ Shows(e, t, "available") <=> Shows(s, t, "available")
              /\ Shows(e, t, "unavailable") <=>
                   Shows(s, t, "unavailable") /\ ~Shows(s, t, "available")
<1> DEFINE p == Ascending(EndPoints(s))
           best(i) == BestStatus(s, p[i], p[i+1])
           pieces == [i \in 1..(Len(p) - 1) |-> Segment(p[i], p[i+1], best(i))]
           T == {q \in ToSet(pieces) : q.status # "missing"}
           e == Only(pieces, T)
<1>1. /\ Len(s) \in Nat \ {0} /\ DOMAIN s = 1..Len(s)
      /\ \A j \in 1..Len(s) :
           /\ s[j] \in Fact /\ s[j].lo \in Nat /\ s[j].hi \in Nat
           /\ s[j].lo < s[j].hi /\ s[j].status \in Statuses
  BY ElementOfSeq, FactFields
<1>2. /\ p \in Seq(Nat) /\ Rising(p)
      /\ \A j \in 1..Len(s) : /\ \E i \in 1..Len(p) : p[i] = s[j].lo
                              /\ \E i \in 1..Len(p) : p[i] = s[j].hi
  BY EndPointsIs
<1>3. Elementary(s) = e
  BY DEF Elementary, EndPoints
<1> HIDE DEF p
<1>4. Len(p) \in Nat \ {0}
  <2>1. 1 \in 1..Len(s)
    BY <1>1
  <2>2. PICK i \in 1..Len(p) : p[i] = s[1].lo
    BY <1>2, <2>1
  <2> QED BY <1>2, <2>2
<1> DEFINE n == Len(p) - 1
<1>5. n \in Nat
  BY <1>4
\* A segment lies over all of a piece or none of it.
<1>6. ASSUME NEW i \in 1..n, NEW t \in Nat, p[i] <= t, t < p[i+1], NEW j \in 1..Len(s)
      PROVE  t \in Instants(s[j]) <=> s[j].lo <= p[i] /\ s[j].hi >= p[i+1]
  <2>1. PICK k \in 1..Len(p) : p[k] = s[j].lo
    BY <1>2
  <2>2. PICK l \in 1..Len(p) : p[l] = s[j].hi
    BY <1>2
  <2>3. /\ p[i] \in Nat /\ p[i+1] \in Nat /\ p[k] \in Nat /\ p[l] \in Nat
        /\ k <= i => p[k] <= p[i]
        /\ k > i => p[k] >= p[i+1]
        /\ l <= i => p[l] <= p[i]
        /\ l > i => p[l] >= p[i+1]
    BY <1>2, NextRises
  <2>4. i \in Nat /\ k \in Nat /\ l \in Nat
    BY <1>5
  <2> QED BY <1>6, <2>1, <2>2, <2>3, <2>4, SMTT(30) DEF Instants
<1>7. ASSUME NEW i \in 1..n, NEW t \in Nat, p[i] <= t, t < p[i+1]
      PROVE  /\ best(i) \in Statuses \cup {"missing"}
             /\ best(i) = "available" <=> Shows(s, t, "available")
             /\ best(i) = "unavailable" <=>
                  Shows(s, t, "unavailable") /\ ~Shows(s, t, "available")
  <2> DEFINE over == {s[j].status : j \in {l \in DOMAIN s : s[l].lo <= p[i] /\ s[l].hi >= p[i+1]}}
  <2>1. best(i) = IF over = {} THEN "missing"
                  ELSE IF "available" \in over THEN "available" ELSE "unavailable"
    BY DEF BestStatus
  <2>2. \A status \in Statuses : status \in over <=> Shows(s, t, status)
    BY <1>1, <1>6, <1>7 DEF Shows
  <2>3. over \subseteq Statuses
    BY <1>1
  <2> HIDE DEF over, best
  <2> QED BY <2>1, <2>2, <2>3 DEF Statuses
<1>8. ASSUME NEW i \in 1..n
      PROVE  /\ pieces[i] \in Piece /\ pieces[i].lo = p[i] /\ pieces[i].hi = p[i+1]
             /\ pieces[i].status = best(i) /\ p[i] < p[i+1]
             /\ p[i] \in Nat /\ p[i+1] \in Nat
  <2>1. p[i] \in Nat /\ p[i+1] \in Nat /\ p[i] < p[i+1]
    <3>1. i \in 1..Len(p)
      BY <1>5
    <3> QED BY <1>2, <3>1, NextRises
  <2>2. best(i) \in Statuses \cup {"missing"}
    BY <1>7, <2>1
  <2> HIDE DEF best
  <2> QED BY <2>1, <2>2 DEF Piece, Segment
<1>9. pieces \in Seq(Piece) /\ Len(pieces) = n
  BY <1>5, <1>8
<1> HIDE DEF pieces, best
<1>10. PICK at : KeptFrom(at, e, pieces, T, n)
  BY <1>9, OnlyIs
<1>11. e \in Seq(Piece)
  BY <1>9, OnlyIs
<1> HIDE DEF e
<1>12. ASSUME NEW k \in 1..Len(e)
       PROVE  /\ at[k] \in 1..n /\ e[k] = pieces[at[k]] /\ e[k].status # "missing"
              /\ e[k] \in Fact
  <2>1. at[k] \in 1..n /\ e[k] = pieces[at[k]] /\ e[k] \in T
    BY <1>10 DEF KeptFrom
  <2> QED BY <1>8, <2>1, SMTT(30) DEF Fact, Piece
<1>13. e \in Seq(Fact)
  BY <1>11, <1>12
<1>14. InOrder(e)
  <2> SUFFICES ASSUME NEW k \in 1..(Len(e) - 1) PROVE e[k].hi <= e[k+1].lo
    BY DEF InOrder
  <2>1. k \in 1..Len(e) /\ k + 1 \in 1..Len(e) /\ k < k + 1
    BY <1>11
  <2>2. at[k] < at[k+1]
    BY <1>10, <2>1 DEF KeptFrom
  <2>3. at[k] \in 1..n /\ at[k+1] \in 1..n /\ at[k+1] \in 1..Len(p)
    BY <1>12, <1>5, <2>1
  <2>4. p[at[k+1]] >= p[at[k]+1]
    BY <1>2, <2>2, <2>3, NextRises
  <2>5. e[k].hi = p[at[k]+1] /\ e[k+1].lo = p[at[k+1]]
    BY <1>8, <1>12, <2>1, ZenonT(40)
  <2>6. p[at[k+1]] \in Nat /\ p[at[k]+1] \in Nat
    BY <1>8, <2>3
  <2> QED BY <2>4, <2>5, <2>6
<1>15. ASSUME NEW t \in Nat, NEW status \in Statuses
       PROVE  Shows(e, t, status) <=>
                \E i \in 1..n : p[i] <= t /\ t < p[i+1] /\ best(i) = status
  <2>1. ASSUME NEW i \in 1..n
        PROVE  t \in Instants(pieces[i]) <=> p[i] <= t /\ t < p[i+1]
    BY <1>8 DEF Instants
  <2>2. ASSUME NEW i \in 1..n, best(i) = status
        PROVE  \E k \in 1..Len(e) : at[k] = i
    <3>1. pieces[i] \in T
      BY <1>8, <1>9, <2>2 DEF ToSet, Statuses
    <3> QED BY <1>10, <3>1 DEF KeptFrom
  <2>3. Shows(e, t, status) =>
          \E i \in 1..n : p[i] <= t /\ t < p[i+1] /\ best(i) = status
    <3> SUFFICES ASSUME NEW k \in 1..Len(e), t \in Instants(e[k]), e[k].status = status
                 PROVE  \E i \in 1..n : p[i] <= t /\ t < p[i+1] /\ best(i) = status
      BY DEF Shows
    <3>1. /\ at[k] \in 1..n /\ t \in Instants(pieces[at[k]])
          /\ pieces[at[k]].status = status
      BY <1>12
    <3> QED BY <1>8, <2>1, <3>1
  <2>4. ASSUME NEW i \in 1..n, p[i] <= t, t < p[i+1], best(i) = status
        PROVE  Shows(e, t, status)
    <3>1. PICK k \in 1..Len(e) : at[k] = i
      BY <2>2, <2>4
    <3>2. e[k] = pieces[i] /\ t \in Instants(pieces[i]) /\ pieces[i].status = status
      BY <1>8, <1>12, <2>1, <2>4, <3>1
    <3> QED BY <3>2 DEF Shows
  <2> QED BY <2>3, <2>4
\* Every instant a segment lies over is in a piece.
<1>16. ASSUME NEW t \in Nat, NEW j \in 1..Len(s), t \in Instants(s[j])
       PROVE  \E i \in 1..n : p[i] <= t /\ t < p[i+1]
  <2>1. PICK k \in 1..Len(p) : p[k] = s[j].lo
    BY <1>2
  <2>2. PICK l \in 1..Len(p) : p[l] = s[j].hi
    BY <1>2
  <2>3. p[k] <= t /\ t < p[l]
    BY <1>1, <1>16, <2>1, <2>2 DEF Instants
  <2> QED BY <1>2, <2>3, Between
<1>17. ASSUME NEW t \in Nat
       PROVE  /\ Shows(e, t, "available") <=> Shows(s, t, "available")
              /\ Shows(e, t, "unavailable") <=>
                   Shows(s, t, "unavailable") /\ ~Shows(s, t, "available")
  <2>1. ASSUME NEW status \in Statuses, Shows(s, t, status)
        PROVE  \E i \in 1..n : p[i] <= t /\ t < p[i+1]
    BY <1>16, <2>1 DEF Shows
  <2>2. "available" \in Statuses /\ "unavailable" \in Statuses
    BY DEF Statuses
  <2>3. Shows(e, t, "available") <=>
          \E i \in 1..n : p[i] <= t /\ t < p[i+1] /\ best(i) = "available"
    BY <1>15, <2>2
  <2>4. Shows(e, t, "unavailable") <=>
          \E i \in 1..n : p[i] <= t /\ t < p[i+1] /\ best(i) = "unavailable"
    BY <1>15, <2>2
  <2> QED BY <1>7, <2>1, <2>2, <2>3, <2>4
<1> QED BY <1>3, <1>13, <1>14, <1>17

\* Segments one after another in order keep their distance.
LEMMA NormalSpread ==
  ASSUME NEW s \in Seq(Fact), Normal(s)
  PROVE  \A i, j \in 1..Len(s) : i < j => s[i].hi <= s[j].lo
<1>1. Len(s) \in Nat /\ \A i \in 1..Len(s) : s[i].lo \in Nat /\ s[i].hi \in Nat /\ s[i].lo < s[i].hi
  BY ElementOfSeq, FactFields
<1> SUFFICES ASSUME NEW i \in 1..Len(s) PROVE \A j \in 1..Len(s) : i < j => s[i].hi <= s[j].lo
  OBVIOUS
<1> DEFINE T == {j \in 0..Len(s) : i < j => s[i].hi <= s[j].lo}
<1>2. 0 \in T
  OBVIOUS
<1>3. ASSUME NEW j \in 1..Len(s), j - 1 \in T PROVE j \in T
  <2>1. CASE i < j - 1
    <3>1. j - 1 \in 1..(Len(s) - 1) /\ j - 1 \in 1..Len(s) /\ (j - 1) + 1 = j
      BY <2>1
    <3>2. s[j-1].hi <= s[j].lo
      <4>1. s[j-1].hi < s[j].lo \/ s[j-1].hi = s[j].lo
        BY <3>1 DEF Normal
      <4> QED BY <1>1, <3>1, <4>1
    <3>3. s[i].hi <= s[j-1].lo
      BY <1>3, <2>1
    <3>4. s[i].hi <= s[j].lo
      BY <1>1, <3>1, <3>2, <3>3
    <3> QED BY <3>4
  <2>2. CASE i = j - 1
    <3>1. i \in 1..(Len(s) - 1) /\ i + 1 = j
      BY <2>2
    <3>2. s[i].hi < s[j].lo \/ s[i].hi = s[j].lo
      BY <3>1 DEF Normal
    <3>3. s[i].hi <= s[j].lo
      BY <1>1, <3>2
    <3> QED BY <3>3
  <2>3. CASE i > j - 1
    BY <2>3
  <2> QED BY <2>1, <2>2, <2>3
<1> HIDE DEF T
<1>4. \A j \in 0..Len(s) : j \in T
  BY <1>1, <1>2, <1>3, Climb
<1> QED BY <1>4 DEF T

LEMMA NormalOnce ==
  ASSUME NEW s \in Seq(Fact), Normal(s), NEW t \in Nat,
         NEW i \in 1..Len(s), NEW j \in 1..Len(s),
         t \in Instants(s[i]), t \in Instants(s[j])
  PROVE  i = j
<1>1. /\ Len(s) \in Nat /\ i < j => s[i].hi <= s[j].lo
      /\ j < i => s[j].hi <= s[i].lo
  BY NormalSpread
<1>2. /\ s[i].lo \in Nat /\ s[i].hi \in Nat /\ s[j].lo \in Nat /\ s[j].hi \in Nat
  BY ElementOfSeq, FactFields
<1>3. s[i].lo <= t /\ t < s[i].hi /\ s[j].lo <= t /\ t < s[j].hi
  BY <1>2 DEF Instants
<1>4. ~(i < j) /\ ~(j < i)
  BY <1>1, <1>2, <1>3
<1> QED BY <1>4

\* Normal segments give every instant the status they show.
LEMMA StatusShown ==
  ASSUME NEW s \in Seq(Fact), Normal(s), NEW t \in Nat
  PROVE  /\ \A status \in Statuses : StatusAt(s, t) = status <=> Shows(s, t, status)
         /\ StatusAt(s, t) \in Statuses \cup {"missing"}
         /\ StatusAt(s, t) = "missing" <=> \A status \in Statuses : ~Shows(s, t, status)
<1>1. DOMAIN s = 1..Len(s) /\ \A i \in 1..Len(s) : s[i].status \in Statuses
  BY ElementOfSeq, FactFields
<1>2. CASE \E i \in DOMAIN s : t \in Instants(s[i])
  <2> DEFINE c == CHOOSE i \in DOMAIN s : t \in Instants(s[i])
  <2>1. c \in DOMAIN s /\ t \in Instants(s[c])
    BY <1>2, Zenon
  <2>2. StatusAt(s, t) = s[c].status
    BY <1>2 DEF StatusAt
  <2> HIDE DEF c
  <2>3. \A i \in 1..Len(s) : t \in Instants(s[i]) => i = c
    BY <1>1, <2>1, NormalOnce
  <2>4. \A status : Shows(s, t, status) <=> s[c].status = status
    BY <1>1, <2>1, <2>3 DEF Shows
  <2>5. s[c].status \in Statuses /\ "missing" \notin Statuses
    BY <1>1, <2>1 DEF Statuses
  <2> QED BY <2>2, <2>4, <2>5
<1>3. CASE ~\E i \in DOMAIN s : t \in Instants(s[i])
  <2>1. StatusAt(s, t) = "missing"
    BY <1>3 DEF StatusAt
  <2>2. \A status : ~Shows(s, t, status)
    BY <1>1, <1>3 DEF Shows
  <2>3. "missing" \notin Statuses
    BY DEF Statuses
  <2> QED BY <2>1, <2>2, <2>3
<1> QED BY <1>2, <1>3

\* Normalisation keeps what is shown; where segments disagree, available wins.
LEMMA NormalizedIs ==
  ASSUME NEW s \in Seq(Fact)
  PROVE  LET z == NormalizeSegments(s) IN
         /\ z \in Seq(Fact) /\ Normal(z)
         /\ \A t \in Nat :
              /\ Shows(z, t, "available") <=> Shows(s, t, "available")
              /\ Shows(z, t, "unavailable") <=>
                   Shows(s, t, "unavailable") /\ ~Shows(s, t, "available")
<1>1. CASE Normal(s)
  <2>1. NormalizeSegments(s) = s
    BY <1>1 DEF NormalizeSegments
  <2>2. ASSUME NEW t \in Nat PROVE ~(Shows(s, t, "unavailable") /\ Shows(s, t, "available"))
    <3>1. "available" \in Statuses /\ "unavailable" \in Statuses /\ "available" # "unavailable"
      BY DEF Statuses
    <3> QED BY <1>1, <3>1, StatusShown
  <2> QED BY <1>1, <2>1, <2>2
<1>2. CASE ~Normal(s)
  <2>1. s # <<>>
    <3>1. Normal(<<>>)
      BY DEF Normal
    <3> QED BY <1>2, <3>1
  <2> DEFINE e == Elementary(s)
  <2>2. /\ e \in Seq(Fact) /\ InOrder(e)
        /\ \A t \in Nat :
              /\ Shows(e, t, "available") <=> Shows(s, t, "available")
              /\ Shows(e, t, "unavailable") <=>
                   Shows(s, t, "unavailable") /\ ~Shows(s, t, "available")
    BY <2>1, ElementaryIs
  <2>3. NormalizeSegments(s) = Coalesce(e)
    BY <1>2 DEF NormalizeSegments
  <2> HIDE DEF e
  <2>4. /\ Coalesce(e) \in Seq(Fact) /\ Normal(Coalesce(e))
        /\ \A t \in Nat, status \in Statuses :
              Shows(Coalesce(e), t, status) <=> Shows(e, t, status)
    BY <2>2, CoalesceIs
  <2>5. "available" \in Statuses /\ "unavailable" \in Statuses
    BY DEF Statuses
  <2> QED BY <2>2, <2>3, <2>4, <2>5
<1> QED BY <1>1, <1>2

LEMMA ConcatShows ==
  ASSUME NEW r \in Seq(Fact), NEW s \in Seq(Fact)
  PROVE  /\ r \o s \in Seq(Fact)
         /\ \A t, status : Shows(r \o s, t, status) <=>
                             Shows(r, t, status) \/ Shows(s, t, status)
<1>1. /\ r \o s \in Seq(Fact) /\ Len(r \o s) = Len(r) + Len(s)
      /\ Len(r) \in Nat /\ Len(s) \in Nat
      /\ \A i \in 1..Len(r) : (r \o s)[i] = r[i]
      /\ \A i \in 1..Len(s) : (r \o s)[Len(r) + i] = s[i]
  OBVIOUS
<1> DEFINE q == r \o s
<1> HIDE DEF q
<1>2. ASSUME NEW i \in 1..Len(q)
      PROVE  i \in 1..Len(r) \/ (i - Len(r) \in 1..Len(s) /\ i = Len(r) + (i - Len(r)))
  BY <1>1 DEF q
<1>3. /\ \A i \in 1..Len(r) : i \in 1..Len(q) /\ q[i] = r[i]
      /\ \A i \in 1..Len(s) : Len(r) + i \in 1..Len(q) /\ q[Len(r) + i] = s[i]
  BY <1>1 DEF q
<1>4. \A t, status : Shows(q, t, status) <=> Shows(r, t, status) \/ Shows(s, t, status)
  <2> SUFFICES ASSUME NEW t, NEW status
               PROVE  Shows(q, t, status) <=> Shows(r, t, status) \/ Shows(s, t, status)
    OBVIOUS
  <2>1. Shows(r, t, status) => Shows(q, t, status)
    BY <1>3 DEF Shows
  <2>2. Shows(s, t, status) => Shows(q, t, status)
    BY <1>3 DEF Shows
  <2>3. Shows(q, t, status) => Shows(r, t, status) \/ Shows(s, t, status)
    <3> SUFFICES ASSUME NEW i \in 1..Len(q), t \in Instants(q[i]), q[i].status = status
                 PROVE  Shows(r, t, status) \/ Shows(s, t, status)
      BY DEF Shows
    <3>1. CASE i \in 1..Len(r)
      BY <1>3, <3>1 DEF Shows
    <3>2. CASE i - Len(r) \in 1..Len(s) /\ i = Len(r) + (i - Len(r))
      <4>1. q[i] = s[i - Len(r)]
        BY <1>3, <3>2
      <4> QED BY <3>2, <4>1 DEF Shows
    <3> QED BY <1>2, <3>1, <3>2
  <2> QED BY <2>1, <2>2, <2>3
<1> QED BY <1>1, <1>4 DEF q

\* A function on 0..n from its first value and its steps.
Steps(f, n, base, step) == f[0] = base /\ \A k \in 1..n : f[k] = step[k][f[k-1]]

LEMMA StepsExist ==
  ASSUME NEW n \in Nat, NEW S, NEW base \in S, NEW step \in [1..n -> [S -> S]]
  PROVE  \E f \in [0..n -> S] : Steps(f, n, base, step)
<1>1. PICK g \in [SUBSET (1..n) -> S] : Iterates(g, n, base, step)
  BY IterExists
<1> DEFINE f == [k \in 0..n |-> g[1..k]]
<1>2. \A k \in 0..n : 1..k \in SUBSET (1..n)
  OBVIOUS
<1>3. f \in [0..n -> S]
  BY <1>2
<1>4. f[0] = base
  <2>1. 1..0 = {} /\ 1..0 \in SUBSET (1..n) /\ 0 \in 0..n
    OBVIOUS
  <2> QED BY <1>1, <2>1 DEF Iterates
<1>5. ASSUME NEW k \in 1..n PROVE f[k] = step[k][f[k-1]]
  <2>1. Max(1..k) = k /\ (1..k) \ {k} = 1..(k - 1) /\ 1..k # {}
    <3>1. k \in Nat \ {0}
      OBVIOUS
    <3> QED BY <3>1, TopOf
  <2>2. 1..k \in SUBSET (1..n) /\ k - 1 \in 0..n /\ k \in 0..n
    OBVIOUS
  <2>3. g[1..k] = step[Max(1..k)][g[(1..k) \ {Max(1..k)}]]
    BY <1>1, <2>1, <2>2 DEF Iterates
  <2> QED BY <2>1, <2>2, <2>3
<1> HIDE DEF f
<1>6. Steps(f, n, base, step)
  BY <1>4, <1>5 DEF Steps
<1> QED BY <1>3, <1>6

LEMMA FlattenTrace ==
  ASSUME NEW A, NEW s \in Seq(Seq(A))
  PROVE  \E F \in [0..Len(s) -> Seq(A)] :
           /\ F[0] = <<>>
           /\ \A k \in 1..Len(s) : F[k] = F[k-1] \o s[k]
           /\ FlattenSeq(s) = F[Len(s)]
<1>0. Len(s) \in Nat /\ \A i \in 1..Len(s) : s[i] \in Seq(A)
  BY ElementOfSeq
<1> DEFINE step == [i \in 1..Len(s) |-> [v \in Seq(A) |-> v \o s[i]]]
<1>1. step \in [1..Len(s) -> [Seq(A) -> Seq(A)]] /\ <<>> \in Seq(A)
  BY <1>0
<1>2. PICK F \in [0..Len(s) -> Seq(A)] : Steps(F, Len(s), <<>>, step)
  <2> HIDE DEF step
  <2> QED BY <1>0, <1>1, StepsExist
<1>3. F[0] = <<>> /\ \A k \in 1..Len(s) : k - 1 \in 0..Len(s) /\ F[k] = F[k-1] \o s[k]
  <2>1. ASSUME NEW k \in 1..Len(s) PROVE F[k-1] \in Seq(A)
    <3>1. k - 1 \in 0..Len(s)
      OBVIOUS
    <3> QED BY <3>1
  <2>2. ASSUME NEW k \in 1..Len(s) PROVE step[k][F[k-1]] = F[k-1] \o s[k]
    BY <2>1
  <2>3. \A k \in 1..Len(s) : k - 1 \in 0..Len(s)
    OBVIOUS
  <2> HIDE DEF step
  <2> QED BY <1>2, <2>2, <2>3 DEF Steps
<1>4. FlattenSeq(s) = F[Len(s)]
  <2>1. CASE Len(s) = 0
    <3>1. s = <<>>
      BY <2>1
    <3> QED BY <1>3, <2>1, <3>1 DEF FlattenSeq
  <2>2. CASE Len(s) # 0
    <3> DEFINE g == [i \in 1..Len(s) |-> F[i]]
               h == CHOOSE h : h = [i \in 1..Len(s) |->
                                      IF i = 1 THEN s[i] ELSE h[i-1] \o s[i]]
    <3>1. g = [i \in 1..Len(s) |-> IF i = 1 THEN s[i] ELSE g[i-1] \o s[i]]
      <4>1. ASSUME NEW i \in 1..Len(s), i # 1 PROVE F[i] = g[i-1] \o s[i]
        <5>1. i - 1 \in 1..Len(s)
          BY <4>1
        <5> QED BY <1>3, <5>1
      <4>2. 1 \in 1..Len(s) => F[1] = s[1]
        <5> SUFFICES ASSUME 1 \in 1..Len(s) PROVE F[1] = s[1]
          OBVIOUS
        <5>1. s[1] \in Seq(A)
          BY <1>0
        <5>2. <<>> \o s[1] = s[1]
          BY <5>1, ConcatEmptySeq
        <5>3. F[1] = F[1-1] \o s[1]
          BY <1>3
        <5>4. 1 - 1 = 0
          OBVIOUS
        <5> QED BY <1>3, <5>2, <5>3, <5>4
      <4> QED BY <4>1, <4>2
    <3>2. h = [i \in 1..Len(s) |-> IF i = 1 THEN s[i] ELSE h[i-1] \o s[i]]
      <4> HIDE DEF g
      <4> QED BY <3>1, Zenon
    <3>3. FlattenSeq(s) = h[Len(s)]
      BY <2>2 DEF FlattenSeq
    <3> HIDE DEF h
    <3> DEFINE T == {i \in 0..Len(s) : i > 0 => h[i] = F[i]}
    <3>4. 0 \in T
      BY <1>0
    <3>5. ASSUME NEW i \in 1..Len(s), i - 1 \in T PROVE i \in T
      <4>1. CASE i = 1
        <5>0. s[i] \in Seq(A)
          BY <1>0
        <5>1. h[i] = s[i]
          BY <3>2, <4>1
        <5>2. F[i] = <<>> \o s[i]
          <6>1. F[i] = F[i-1] \o s[i]
            BY <1>3, Zenon
          <6>2. i - 1 = 0
            BY <4>1
          <6> QED BY <1>3, <6>1, <6>2, Zenon
        <5>3. F[i] = s[i]
          BY <5>0, <5>2, ConcatEmptySeq
        <5> QED BY <5>1, <5>3
      <4>2. CASE i # 1
        <5>1. i - 1 > 0
          BY <4>2
        <5>2. h[i-1] = F[i-1]
          BY <3>5, <5>1 DEF T
        <5>3. h[i] = h[i-1] \o s[i]
          BY <3>2, <4>2
        <5>4. F[i] = F[i-1] \o s[i]
          BY <1>3, Zenon
        <5>5. h[i] = F[i-1] \o s[i]
          BY <5>2, <5>3
        <5>6. h[i] = F[i]
          BY <5>4, <5>5, Zenon
        <5>7. i \in 0..Len(s)
          OBVIOUS
        <5> QED BY <5>6, <5>7
      <4> QED BY <4>1, <4>2
    <3> HIDE DEF T
    <3>6. \A i \in 0..Len(s) : i \in T
      BY <1>0, <3>4, <3>5, Climb
    <3>7. Len(s) \in 0..Len(s) /\ Len(s) > 0
      BY <1>0, <2>2
    <3>8. h[Len(s)] = F[Len(s)]
      BY <3>6, <3>7 DEF T
    <3> QED BY <3>3, <3>8
  <2> QED BY <2>1, <2>2
<1> QED BY <1>3, <1>4

\* What is in a sequence.
Has(s, x) == \E i \in 1..Len(s) : s[i] = x

LEMMA ConcatHas ==
  ASSUME NEW A, NEW r \in Seq(A), NEW s \in Seq(A), NEW x
  PROVE  Has(r \o s, x) <=> Has(r, x) \/ Has(s, x)
<1>1. /\ r \o s \in Seq(A) /\ Len(r \o s) = Len(r) + Len(s)
      /\ Len(r) \in Nat /\ Len(s) \in Nat
      /\ \A i \in 1..Len(r) : (r \o s)[i] = r[i]
      /\ \A i \in 1..Len(s) : (r \o s)[Len(r) + i] = s[i]
  OBVIOUS
<1> DEFINE q == r \o s
<1> HIDE DEF q
<1>2. ASSUME NEW i \in 1..Len(q)
      PROVE  i \in 1..Len(r) \/ (i - Len(r) \in 1..Len(s) /\ i = Len(r) + (i - Len(r)))
  BY <1>1 DEF q
<1>3. /\ \A i \in 1..Len(r) : i \in 1..Len(q) /\ q[i] = r[i]
      /\ \A i \in 1..Len(s) : Len(r) + i \in 1..Len(q) /\ q[Len(r) + i] = s[i]
  BY <1>1 DEF q
<1>4. ASSUME NEW i \in 1..Len(q)
      PROVE  \/ \E j \in 1..Len(r) : r[j] = q[i]
             \/ \E j \in 1..Len(s) : s[j] = q[i]
  <2>1. CASE i \in 1..Len(r)
    BY <1>3, <2>1
  <2>2. CASE i - Len(r) \in 1..Len(s) /\ i = Len(r) + (i - Len(r))
    <3>1. q[i] = s[i - Len(r)]
      BY <1>3, <2>2
    <3> QED BY <2>2, <3>1
  <2> QED BY <1>2, <2>1, <2>2
<1>5. Has(q, x) <=> Has(r, x) \/ Has(s, x)
  BY <1>3, <1>4 DEF Has
<1> QED BY <1>5 DEF q

\* What is in a flattened sequence is in one of its parts.
LEMMA FlattenHas ==
  ASSUME NEW A, NEW s \in Seq(Seq(A))
  PROVE  /\ FlattenSeq(s) \in Seq(A)
         /\ \A x : Has(FlattenSeq(s), x) <=> \E k \in 1..Len(s) : Has(s[k], x)
<1>0. Len(s) \in Nat /\ \A i \in 1..Len(s) : s[i] \in Seq(A)
  BY ElementOfSeq
<1>1. PICK F \in [0..Len(s) -> Seq(A)] :
           /\ F[0] = <<>>
           /\ \A k \in 1..Len(s) : F[k] = F[k-1] \o s[k]
           /\ FlattenSeq(s) = F[Len(s)]
  BY FlattenTrace
<1>2. F[Len(s)] \in Seq(A)
  BY <1>0
<1> SUFFICES ASSUME NEW x
             PROVE  Has(F[Len(s)], x) <=> \E k \in 1..Len(s) : Has(s[k], x)
  BY <1>1, <1>2
<1> DEFINE T == {n \in 0..Len(s) : Has(F[n], x) <=> \E k \in 1..n : Has(s[k], x)}
<1>3. 0 \in T
  <2>1. 0 \in 0..Len(s) /\ ~Has(F[0], x) /\ 1..0 = {}
    BY <1>0, <1>1 DEF Has
  <2> QED BY <2>1
<1>4. ASSUME NEW n \in 1..Len(s), n - 1 \in T PROVE n \in T
  <2>1. F[n-1] \in Seq(A) /\ s[n] \in Seq(A) /\ F[n] = F[n-1] \o s[n]
    <3>1. n - 1 \in 0..Len(s)
      OBVIOUS
    <3>2. F[n-1] \in Seq(A)
      BY <3>1
    <3> QED BY <1>0, <1>1, <3>2
  <2>2. Has(F[n], x) <=> Has(F[n-1], x) \/ Has(s[n], x)
    BY <2>1, ConcatHas
  <2>3. Has(F[n-1], x) <=> \E k \in 1..(n-1) : Has(s[k], x)
    BY <1>4
  <2>4. /\ \A i \in 1..n : i \in 1..(n - 1) \/ i = n
        /\ n \in 1..n /\ \A i \in 1..(n - 1) : i \in 1..n
    OBVIOUS
  <2>5. n \in 0..Len(s)
    OBVIOUS
  <2>6. Has(F[n], x) <=> \E k \in 1..n : Has(s[k], x)
    BY <2>2, <2>3, <2>4
  <2> QED BY <2>5, <2>6
<1> HIDE DEF T
<1>5. \A n \in 0..Len(s) : n \in T
  BY <1>0, <1>3, <1>4, Climb
<1>6. Len(s) \in 0..Len(s)
  BY <1>0
<1> QED BY <1>5, <1>6 DEF T

\* Of facts flattened, each part shows what it showed.
LEMMA FlattenShows ==
  ASSUME NEW s \in Seq(Seq(Fact))
  PROVE  /\ FlattenSeq(s) \in Seq(Fact)
         /\ \A t, status : Shows(FlattenSeq(s), t, status) <=>
                             \E k \in 1..Len(s) : Shows(s[k], t, status)
<1> DEFINE z == FlattenSeq(s)
<1>1. z \in Seq(Fact) /\ \A x : Has(z, x) <=> \E k \in 1..Len(s) : Has(s[k], x)
  BY FlattenHas
<1> HIDE DEF z
<1>2. ASSUME NEW r, NEW t, NEW status
      PROVE  Shows(r, t, status) <=> \E x : Has(r, x) /\ t \in Instants(x) /\ x.status = status
  BY DEF Shows, Has
<1>3. ASSUME NEW t, NEW status
      PROVE  Shows(z, t, status) <=> \E k \in 1..Len(s) : Shows(s[k], t, status)
  BY <1>1, <1>2, Zenon
<1> QED BY <1>1, <1>3 DEF z

-----------------------------------------------------------------------------
(* Grids.                                                                  *)

LEMMA Multiples ==
  ASSUME NEW d \in Nat \ {0}, NEW t \in Nat
  PROVE  /\ t \div d \in Nat /\ (t \div d) * d \in Nat
         /\ (t \div d) * d <= t /\ t < (t \div d) * d + d
OBVIOUS

LEMMA OneMultiple ==
  ASSUME NEW d \in Nat \ {0}, NEW k \in Nat, NEW t \in Nat, k * d <= t, t < k * d + d
  PROVE  t \div d = k
OBVIOUS

LEMMA MoreMultiples ==
  ASSUME NEW d \in Nat, NEW k \in Nat, NEW m \in Nat, m < k
  PROVE  m * d + d <= k * d
<1>1. PICK j \in Nat : k = m + 1 + j
  <2>1. k - m - 1 \in Nat /\ k = m + 1 + (k - m - 1)
    OBVIOUS
  <2> QED BY <2>1
<1>2. k * d = m * d + d + j * d /\ j * d \in Nat
  BY <1>1
<1> QED BY <1>2

LEMMA MultiplesApart ==
  ASSUME NEW d \in Nat \ {0}, NEW k \in Nat, NEW t \in Nat, k * d <= t
  PROVE  k * d <= (t \div d) * d
<1> DEFINE m == t \div d
<1>1. m \in Nat /\ m * d \in Nat /\ m * d <= t /\ t < m * d + d
  BY Multiples
<1> HIDE DEF m
<1> SUFFICES k * d <= m * d
  BY DEF m
<1>2. CASE m < k
  <2>1. m * d + d <= k * d /\ k * d \in Nat
    BY <1>1, <1>2, MoreMultiples
  <2> QED BY <1>1, <2>1
<1>3. CASE m = k
  BY <1>1, <1>3
<1>4. CASE k < m
  <2>1. k * d + d <= m * d /\ k * d \in Nat
    BY <1>1, <1>4, MoreMultiples
  <2> QED BY <1>1, <2>1
<1> QED BY <1>1, <1>2, <1>3, <1>4

\* What the modules above need of a grid: boundaries that step forward past
\* every instant up to the horizon, and the bar between two of them.
LEMMA GridFloor ==
  ASSUME NEW h \in Nat, NEW b, IsGrid(b, h), NEW t \in Nat
  PROVE  /\ Floor(b, t) \in Nat /\ Floor(b, t) <= t
         /\ Aligned(b, Floor(b, t))
         /\ \A u \in Nat : Aligned(b, u) /\ u <= t => u <= Floor(b, t)
<1>1. CASE IsCalendar(b)
  <2> DEFINE S(u) == {c \in b.starts : c <= u}
  <2>1. b.starts \in SUBSET Nat /\ 0 \in b.starts
    BY <1>1 DEF IsGrid
  <2>2. ASSUME NEW u \in Nat
        PROVE  /\ Floor(b, u) = Max(S(u)) /\ Max(S(u)) \in S(u)
               /\ \A c \in S(u) : c <= Max(S(u))
    <3>1. S(u) \in SUBSET (0..u) /\ S(u) # {}
      BY <2>1
    <3>2. Floor(b, u) = Max(S(u))
      BY <1>1 DEF Floor
    <3> HIDE DEF S
    <3> QED BY <3>1, <3>2, MaxUpTo
  <2>3. \A u \in Nat : Aligned(b, u) <=> u \in b.starts
    <3> SUFFICES ASSUME NEW u \in Nat PROVE Aligned(b, u) <=> u \in b.starts
      OBVIOUS
    <3>1. /\ Floor(b, u) = Max(S(u)) /\ Max(S(u)) \in S(u)
          /\ \A c \in S(u) : c <= Max(S(u))
      BY <2>2
    <3>2. u \in b.starts => u \in S(u)
      OBVIOUS
    <3>3. Floor(b, u) \in b.starts /\ Floor(b, u) <= u /\ Floor(b, u) \in Nat
      BY <2>1, <3>1
    <3>4. u \in b.starts => u <= Floor(b, u)
      BY <3>1, <3>2
    <3> QED BY <3>3, <3>4 DEF Aligned
  <2>4. Floor(b, t) \in b.starts /\ Floor(b, t) <= t /\ Floor(b, t) \in Nat
    BY <2>1, <2>2
  <2>5. \A c \in b.starts : c <= t => c <= Floor(b, t)
    BY <2>2
  <2> HIDE DEF S
  <2> QED BY <2>3, <2>4, <2>5
<1>2. CASE ~IsCalendar(b)
  <2> DEFINE d == b.step
  <2>1. d \in Nat \ {0}
    BY <1>2 DEF IsGrid, IsCalendar
  <2>2. \A u : Floor(b, u) = (u \div d) * d
    BY <1>2 DEF Floor
  <2> HIDE DEF d
  <2> DEFINE k == t \div d
  <2>3. k \in Nat /\ k * d \in Nat /\ k * d <= t /\ t < k * d + d
    BY <2>1, Multiples
  <2> HIDE DEF k
  <2>4. Floor(b, t) = k * d
    BY <2>2 DEF k
  <2>5. Aligned(b, k * d)
    <3>1. (k * d) \div d = k
      BY <2>1, <2>3, OneMultiple
    <3> QED BY <2>2, <3>1 DEF Aligned
  <2>6. ASSUME NEW u \in Nat, Aligned(b, u), u <= t PROVE u <= k * d
    <3> DEFINE m == u \div d
    <3>1. m \in Nat /\ u = m * d
      BY <2>1, <2>2, <2>6, Multiples DEF Aligned
    <3> HIDE DEF m
    <3>2. m * d <= t
      BY <2>6, <3>1
    <3>3. m * d <= (t \div d) * d
      BY <2>1, <3>1, <3>2, MultiplesApart
    <3> QED BY <3>1, <3>3 DEF k
  <2> QED BY <2>3, <2>4, <2>5, <2>6
<1> QED BY <1>1, <1>2

\* NextBoundary is the first boundary after it.
LEMMA GridNext ==
  ASSUME NEW h \in Nat, NEW b, IsGrid(b, h), NEW t \in 0..h
  PROVE  /\ NextBoundary(b, t) \in Nat /\ t < NextBoundary(b, t)
         /\ Aligned(b, NextBoundary(b, t))
         /\ \A u \in Nat : Aligned(b, u) /\ t < u => NextBoundary(b, t) <= u
<1> DEFINE f == Floor(b, t)
           n == NextBoundary(b, t)
<1>0. f \in Nat /\ f <= t /\ Aligned(b, f) /\ t \in Nat
      /\ \A u \in Nat : Aligned(b, u) /\ u <= t => u <= f
  BY GridFloor
<1>1. CASE IsCalendar(b)
  <2> DEFINE S == {c \in b.starts : c > f}
  <2>1. b.starts \in SUBSET Nat /\ 0 \in b.starts /\ \E c \in b.starts : t < c
    BY <1>1 DEF IsGrid
  <2>2. n = Min(S)
    BY <1>1 DEF NextBoundary, StepFrom
  <2>3. S \in SUBSET Nat /\ S # {}
    <3> HIDE DEF f
    <3> QED BY <1>0, <2>1
  <2> HIDE DEF S
  <2>4. Min(S) \in S /\ \A x \in S : Min(S) <= x
    BY <2>3, MinOfSome
  <2>5. \A u \in Nat : Aligned(b, u) <=> u \in b.starts
    <3> SUFFICES ASSUME NEW u \in Nat PROVE Aligned(b, u) <=> u \in b.starts
      OBVIOUS
    <3> DEFINE R == {c \in b.starts : c <= u}
    <3>1. R \in SUBSET (0..u) /\ R # {}
      BY <2>1
    <3>2. Floor(b, u) = Max(R)
      BY <1>1 DEF Floor
    <3>3. u \in b.starts => u \in R
      OBVIOUS
    <3>4. R \subseteq b.starts /\ \A c \in R : c <= u
      OBVIOUS
    <3> HIDE DEF R
    <3>5. Max(R) \in R /\ \A c \in R : c <= Max(R)
      BY <3>1, MaxUpTo
    <3>6. Max(R) \in Nat
      <4>1. \A x \in R : x \in Nat
        BY <3>1
      <4> QED BY <3>5, <4>1, Zenon
    <3> QED BY <3>2, <3>3, <3>4, <3>5, <3>6 DEF Aligned
  <2>6. n \in b.starts /\ n > f /\ n \in Nat
    BY <2>1, <2>2, <2>4 DEF S
  <2>7. Aligned(b, n)
    BY <2>5, <2>6
  <2> HIDE DEF f, n
  <2>8. t < n
    <3>1. ~(n <= t)
      BY <1>0, <2>6, <2>7
    <3> QED BY <1>0, <2>6, <3>1
  <2>9. ASSUME NEW u \in Nat, Aligned(b, u), t < u PROVE n <= u
    <3>1. u \in S
      BY <1>0, <2>5, <2>9 DEF S, f
    <3> QED BY <2>2, <2>4, <3>1
  <2> QED BY <2>6, <2>7, <2>8, <2>9 DEF n
<1>2. CASE ~IsCalendar(b)
  <2> DEFINE d == b.step
  <2>1. d \in Nat \ {0}
    BY <1>2 DEF IsGrid, IsCalendar
  <2>2. \A u : Floor(b, u) = (u \div d) * d
    BY <1>2 DEF Floor
  <2>3. n = f + d
    BY <1>2 DEF NextBoundary, StepFrom
  <2> HIDE DEF d
  <2> DEFINE k == t \div d
  <2>4. k \in Nat /\ k * d \in Nat /\ k * d <= t /\ t < k * d + d
    BY <2>1, Multiples
  <2> HIDE DEF k
  <2>5. f = k * d
    BY <2>2 DEF k
  <2> HIDE DEF f, n
  <2>6. n \in Nat /\ t < n /\ n = (k + 1) * d /\ k + 1 \in Nat
    BY <2>1, <2>3, <2>4, <2>5
  <2>7. Aligned(b, n)
    <3>1. n \div d = k + 1
      BY <2>1, <2>6, OneMultiple
    <3> QED BY <2>2, <2>6, <3>1 DEF Aligned
  <2>8. ASSUME NEW u \in Nat, Aligned(b, u), t < u PROVE n <= u
    <3> DEFINE m == u \div d
    <3>1. m \in Nat /\ u = m * d
      BY <2>1, <2>2, <2>8, Multiples DEF Aligned
    <3> HIDE DEF m
    <3>2. CASE k < m
      <4>1. k * d + d <= m * d
        BY <2>1, <2>4, <3>1, <3>2, MoreMultiples
      <4> QED BY <2>3, <2>5, <3>1, <4>1
    <3>3. CASE m = k
      BY <2>4, <2>8, <3>1, <3>3
    <3>4. CASE m < k
      <4>1. m * d + d <= k * d
        BY <2>1, <2>4, <3>1, <3>4, MoreMultiples
      <4>2. m * d \in Nat
        BY <3>1
      <4> QED BY <2>1, <2>4, <2>8, <3>1, <4>1, <4>2
    <3> QED BY <2>4, <3>1, <3>2, <3>3, <3>4
  <2> QED BY <2>6, <2>7, <2>8 DEF n
<1> QED BY <1>1, <1>2

\* An instant is in the bar that starts at its floor, and in no other.
LEMMA BarOf ==
  ASSUME NEW h \in Nat, NEW b, IsGrid(b, h), NEW c \in 0..h, Aligned(b, c), NEW t \in Nat
  PROVE  c <= t /\ t < NextBoundary(b, c) <=> Floor(b, t) = c
<1>1. /\ NextBoundary(b, c) \in Nat /\ c < NextBoundary(b, c)
      /\ Aligned(b, NextBoundary(b, c))
      /\ \A u \in Nat : Aligned(b, u) /\ c < u => NextBoundary(b, c) <= u
  BY GridNext
<1>2. /\ Floor(b, t) \in Nat /\ Floor(b, t) <= t /\ Aligned(b, Floor(b, t))
      /\ \A u \in Nat : Aligned(b, u) /\ u <= t => u <= Floor(b, t)
  BY GridFloor
<1>3. c \in Nat
  OBVIOUS
<1> QED BY <1>1, <1>2, <1>3

\* A range between boundaries holds all of a bar or nothing of it.
LEMMA BarInside ==
  ASSUME NEW h \in Nat, NEW b, IsGrid(b, h), NEW lo \in Nat, NEW hi \in Nat,
         Aligned(b, lo), Aligned(b, hi), NEW t \in Nat
  PROVE  lo <= t /\ t < hi <=> lo <= Floor(b, t) /\ Floor(b, t) < hi
<1>1. /\ Floor(b, t) \in Nat /\ Floor(b, t) <= t
      /\ \A u \in Nat : Aligned(b, u) /\ u <= t => u <= Floor(b, t)
  BY GridFloor
<1> QED BY <1>1

-----------------------------------------------------------------------------
(* Bars, months, windows.                                                  *)

LEMMA BarStartsIs ==
  ASSUME NEW h \in Nat, NEW b, IsGrid(b, h), NEW lo \in Nat, NEW hi \in Nat
  PROVE  /\ BarStarts(b, lo, hi) \in Seq(Nat) /\ Rising(BarStarts(b, lo, hi))
         /\ \A i \in 1..Len(BarStarts(b, lo, hi)) :
              LET s == BarStarts(b, lo, hi)[i]
              IN  s \in Nat /\ lo <= s /\ s < hi /\ Aligned(b, s)
         /\ \A s \in Nat : lo <= s /\ s < hi /\ Aligned(b, s) => Has(BarStarts(b, lo, hi), s)
<1> DEFINE T == {x \in lo..(hi - 1) : Aligned(b, x)}
           r == Ascending(T)
<1>1. T \in SUBSET (0..hi) /\ T \in SUBSET Nat
  OBVIOUS
<1>2. BarStarts(b, lo, hi) = r
  BY DEF BarStarts
<1>3. /\ r \in Seq(T) /\ Rising(r)
      /\ \A x \in T : \E i \in 1..Len(r) : r[i] = x
  <2> HIDE DEF T
  <2> QED BY <1>1, AscendingIs
<1>4. \A x \in Nat : lo <= x /\ x < hi /\ Aligned(b, x) => x \in T
  OBVIOUS
<1>5. \A x \in T : x \in Nat /\ lo <= x /\ x < hi /\ Aligned(b, x)
  OBVIOUS
<1> HIDE DEF T, r
<1>6. r \in Seq(Nat) /\ \A i \in 1..Len(r) : r[i] \in T
  BY <1>1, <1>3, SeqMonotonic, ElementOfSeq
<1> QED BY <1>2, <1>3, <1>4, <1>5, <1>6 DEF Has

LEMMA LargerSmaller ==
  ASSUME NEW x \in Nat, NEW y \in Nat
  PROVE  /\ Larger(x, y) \in Nat /\ Smaller(x, y) \in Nat
         /\ \A t \in Nat : (Larger(x, y) <= t <=> x <= t /\ y <= t)
                           /\ (t < Smaller(x, y) <=> t < x /\ t < y)
                           /\ (Larger(x, y) < t <=> x < t /\ y < t)
                           /\ (t <= Smaller(x, y) <=> t <= x /\ t <= y)
BY DEF Larger, Smaller

\* Bars clipped to [lo, hi): every instant of it has the status of its bar.
LEMMA ClippedBarsIs ==
  ASSUME NEW h \in Nat, NEW b, IsGrid(b, h), NEW lo \in Nat, NEW hi \in 0..h, lo < hi,
         NEW present
  PROVE  /\ ClippedBars(b, lo, hi, present) \in Seq(Fact)
         /\ \A t \in Nat :
              /\ Shows(ClippedBars(b, lo, hi, present), t, "available") <=>
                   lo <= t /\ t < hi /\ Floor(b, t) \in present
              /\ Shows(ClippedBars(b, lo, hi, present), t, "unavailable") <=>
                   lo <= t /\ t < hi /\ Floor(b, t) \notin present
<1> DEFINE f == Floor(b, lo)
           starts == BarStarts(b, f, hi)
           status(s) == IF s \in present THEN "available" ELSE "unavailable"
           from(s) == Larger(lo, s)
           to(s) == Smaller(hi, NextBoundary(b, s))
           c == [i \in 1..Len(starts) |-> Segment(from(starts[i]), to(starts[i]), status(starts[i]))]
<1>1. f \in Nat /\ f <= lo /\ Aligned(b, f) /\ hi \in Nat
      /\ \A u \in Nat : Aligned(b, u) /\ u <= lo => u <= f
  BY GridFloor
<1> HIDE DEF f
<1>2. /\ starts \in Seq(Nat)
      /\ \A i \in 1..Len(starts) : starts[i] \in Nat /\ f <= starts[i] /\ starts[i] < hi
                                   /\ Aligned(b, starts[i])
      /\ \A s \in Nat : f <= s /\ s < hi /\ Aligned(b, s) => Has(starts, s)
  BY <1>1, BarStartsIs
<1>3. ClippedBars(b, lo, hi, present) = c
  <2>1. DOMAIN starts = 1..Len(starts)
    BY <1>2
  <2> QED BY <2>1 DEF ClippedBars, f
<1> HIDE DEF starts
<1>4. ASSUME NEW s \in Nat, f <= s, s < hi, Aligned(b, s)
      PROVE  /\ from(s) \in Nat /\ to(s) \in Nat /\ from(s) < to(s)
             /\ \A t \in Nat : from(s) <= t /\ t < to(s) <=>
                                 lo <= t /\ t < hi /\ Floor(b, t) = s
  <2>1. s \in 0..h
    BY <1>4
  <2> DEFINE n == NextBoundary(b, s)
  <2>2. /\ n \in Nat /\ s < n /\ Aligned(b, n)
        /\ \A t \in Nat : s <= t /\ t < n <=> Floor(b, t) = s
    BY <1>4, <2>1, GridNext, BarOf
  <2> HIDE DEF n
  <2>3. lo < n
    <3>1. n <= lo => n <= f
      BY <1>1, <2>2
    <3> QED BY <1>1, <1>4, <2>2, <3>1
  <2>4. /\ from(s) \in Nat /\ to(s) \in Nat
        /\ \A t \in Nat : (from(s) <= t <=> lo <= t /\ s <= t)
                          /\ (t < to(s) <=> t < hi /\ t < n)
                          /\ (from(s) < t <=> lo < t /\ s < t)
    BY <1>1, <1>4, <2>2, LargerSmaller DEF n
  <2> HIDE DEF from, to
  <2>5. from(s) < to(s)
    <3>1. from(s) < hi /\ from(s) < n
      BY <1>1, <1>4, <2>2, <2>3, <2>4
    <3> QED BY <2>4, <3>1
  <2> QED BY <2>2, <2>4, <2>5
<1>5. ASSUME NEW i \in 1..Len(starts)
      PROVE  /\ c[i] \in Fact /\ c[i].status = status(starts[i])
             /\ \A t \in Nat : t \in Instants(c[i]) <=>
                                 lo <= t /\ t < hi /\ Floor(b, t) = starts[i]
  <2> DEFINE s == starts[i]
  <2>1. s \in Nat /\ f <= s /\ s < hi /\ Aligned(b, s)
    BY <1>2
  <2>2. c[i] = Segment(from(s), to(s), status(s))
    OBVIOUS
  <2> HIDE DEF s
  <2>3. /\ from(s) \in Nat /\ to(s) \in Nat /\ from(s) < to(s)
        /\ \A t \in Nat : from(s) <= t /\ t < to(s) <=>
                                 lo <= t /\ t < hi /\ Floor(b, t) = s
    BY <1>4, <2>1
  <2>4. status(s) \in Statuses
    BY DEF Statuses
  <2> HIDE DEF from, to, status, c
  <2>5. c[i] \in Fact /\ c[i].lo = from(s) /\ c[i].hi = to(s) /\ c[i].status = status(s)
    BY <2>2, <2>3, <2>4, FactMade
  <2> QED BY <2>3, <2>5 DEF s, Instants
<1>6. c \in Seq(Fact) /\ Len(c) = Len(starts)
  <2>1. Len(starts) \in Nat
    BY <1>2
  <2> QED BY <1>5, <2>1
<1> HIDE DEF c
<1>7. ASSUME NEW t \in Nat, lo <= t, t < hi
      PROVE  \E i \in 1..Len(starts) : starts[i] = Floor(b, t)
  <2>1. /\ Floor(b, t) \in Nat /\ Floor(b, t) <= t /\ Aligned(b, Floor(b, t))
        /\ \A u \in Nat : Aligned(b, u) /\ u <= t => u <= Floor(b, t)
    BY GridFloor
  <2>2. f <= Floor(b, t) /\ Floor(b, t) < hi
    BY <1>1, <1>7, <2>1
  <2> QED BY <1>2, <2>1, <2>2 DEF Has
<1>8. ASSUME NEW t \in Nat
      PROVE  /\ Shows(c, t, "available") <=> lo <= t /\ t < hi /\ Floor(b, t) \in present
             /\ Shows(c, t, "unavailable") <=> lo <= t /\ t < hi /\ Floor(b, t) \notin present
  <2>1. \A st : Shows(c, t, st) <=> \E i \in 1..Len(starts) :
                 lo <= t /\ t < hi /\ Floor(b, t) = starts[i] /\ status(starts[i]) = st
    BY <1>5, <1>6 DEF Shows
  <2>2. \A st : Shows(c, t, st) <=> lo <= t /\ t < hi /\ status(Floor(b, t)) = st
    <3> HIDE DEF status
    <3> QED BY <1>7, <2>1
  <2> QED BY <2>2
<1> QED BY <1>3, <1>6, <1>8

\* And so they do when they are coalesced.
LEMMA BarSegmentsIs ==
  ASSUME NEW h \in Nat, NEW b, IsGrid(b, h), NEW lo \in Nat, NEW hi \in 0..h, lo < hi,
         NEW present
  PROVE  /\ BarSegments(b, lo, hi, present) \in Seq(Fact)
         /\ \A t \in Nat :
              /\ Shows(BarSegments(b, lo, hi, present), t, "available") <=>
                   lo <= t /\ t < hi /\ Floor(b, t) \in present
              /\ Shows(BarSegments(b, lo, hi, present), t, "unavailable") <=>
                   lo <= t /\ t < hi /\ Floor(b, t) \notin present
<1> DEFINE c == ClippedBars(b, lo, hi, present)
<1>1. /\ c \in Seq(Fact)
      /\ \A t \in Nat :
           /\ Shows(c, t, "available") <=> lo <= t /\ t < hi /\ Floor(b, t) \in present
           /\ Shows(c, t, "unavailable") <=> lo <= t /\ t < hi /\ Floor(b, t) \notin present
  BY ClippedBarsIs
<1>2. BarSegments(b, lo, hi, present) = Coalesce(c)
  BY DEF BarSegments
<1> HIDE DEF c
<1>3. /\ Coalesce(c) \in Seq(Fact)
      /\ \A t \in Nat, status \in Statuses :
              Shows(Coalesce(c), t, status) <=> Shows(c, t, status)
  BY <1>1, CoalesceKeeps
<1>4. "available" \in Statuses /\ "unavailable" \in Statuses
  BY DEF Statuses
<1> QED BY <1>1, <1>2, <1>3, <1>4

\* [lo, hi) cut at months: slices inside it that hold all of it.
LEMMA MonthSlicesIs ==
  ASSUME NEW lo \in Nat, NEW hi \in Nat, lo <= hi
  PROVE  LET m == MonthSlices(lo, hi) IN
         /\ m \in Seq([lo : Nat, hi : Nat])
         /\ \A i \in 1..Len(m) : lo <= m[i].lo /\ m[i].lo < m[i].hi /\ m[i].hi <= hi
         /\ \A t \in Nat : lo <= t /\ t < hi =>
              \E i \in 1..Len(m) : m[i].lo <= t /\ t < m[i].hi
<1> DEFINE T == {lo, hi} \cup {x \in MonthFirsts : lo < x /\ x < hi}
           cuts == Ascending(T)
           m == [i \in 1..(Len(cuts) - 1) |-> Window(cuts[i], cuts[i+1])]
<1>1. T \in SUBSET (0..hi) /\ \A x \in T : x \in Nat /\ lo <= x /\ x <= hi
  <2>1. \A x \in MonthFirsts : x \in Nat
    BY IntervalsAssumption
  <2>2. \A x \in T : x \in Nat /\ lo <= x /\ x <= hi
    BY <2>1
  <2>3. \A x \in Nat : x <= hi => x \in 0..hi
    OBVIOUS
  <2> HIDE DEF T
  <2> QED BY <2>2, <2>3
<1>2. lo \in T /\ hi \in T
  OBVIOUS
<1>3. MonthSlices(lo, hi) = m
  BY DEF MonthSlices
<1> HIDE DEF T
<1>4. /\ cuts \in Seq(T) /\ Rising(cuts)
      /\ \A x \in T : \E i \in 1..Len(cuts) : cuts[i] = x
  BY <1>1, AscendingIs
<1> HIDE DEF cuts
<1>5. /\ cuts \in Seq(Nat) /\ \A i \in 1..Len(cuts) : lo <= cuts[i] /\ cuts[i] <= hi
  BY <1>1, <1>4, SeqMonotonic, ElementOfSeq
<1>6. Len(cuts) \in Nat \ {0}
  <2>1. PICK i \in 1..Len(cuts) : cuts[i] = lo
    BY <1>2, <1>4
  <2>2. Len(cuts) \in Nat
    BY <1>5
  <2> QED BY <2>1, <2>2
<1>7. ASSUME NEW i \in 1..(Len(cuts) - 1)
      PROVE  /\ m[i] \in [lo : Nat, hi : Nat] /\ m[i].lo = cuts[i] /\ m[i].hi = cuts[i+1]
             /\ lo <= m[i].lo /\ m[i].lo < m[i].hi /\ m[i].hi <= hi
  <2>1. i \in 1..Len(cuts) /\ i + 1 \in 1..Len(cuts)
    BY <1>6
  <2>2. cuts[i] \in Nat /\ cuts[i+1] \in Nat /\ cuts[i] < cuts[i+1]
    BY <1>4, <1>5, <2>1, NextRises
  <2>3. lo <= cuts[i] /\ cuts[i+1] <= hi
    BY <1>5, <2>1
  <2>4. m[i] = Window(cuts[i], cuts[i+1])
    OBVIOUS
  <2> QED BY <2>2, <2>3, <2>4 DEF Window
<1>8. m \in Seq([lo : Nat, hi : Nat]) /\ Len(m) = Len(cuts) - 1
  BY <1>6, <1>7
<1>9. ASSUME NEW t \in Nat, lo <= t, t < hi
      PROVE  \E i \in 1..(Len(cuts) - 1) : cuts[i] <= t /\ t < cuts[i+1]
  <2>1. PICK a \in 1..Len(cuts) : cuts[a] = lo
    BY <1>2, <1>4
  <2>2. PICK z \in 1..Len(cuts) : cuts[z] = hi
    BY <1>2, <1>4
  <2> QED BY <1>4, <1>5, <1>9, <2>1, <2>2, Between
<1> HIDE DEF m
<1> QED BY <1>3, <1>7, <1>8, <1>9

LEMMA SpanMade ==
  ASSUME NEW lo \in Nat, NEW hi \in Nat, lo < hi
  PROVE  /\ Window(lo, hi) \in Span /\ Window(lo, hi).lo = lo /\ Window(lo, hi).hi = hi
BY DEF Window, Span

LEMMA SpanFields ==
  ASSUME NEW s \in Span
  PROVE  s.lo \in Nat /\ s.hi \in Nat /\ s.lo < s.hi
BY DEF Span

\* One row more in the windows that rows prove.
Extended(b, windows, t) ==
  IF windows # <<>> /\ Last(windows).hi = t
  THEN Append(Front(windows), Window(Last(windows).lo, NextBoundary(b, t)))
  ELSE Append(windows, Window(t, NextBoundary(b, t)))

LEMMA ExtendedIs ==
  ASSUME NEW h \in Nat, NEW b, IsGrid(b, h), NEW m \in Seq(Span), NEW r \in 0..h
  PROVE  /\ Extended(b, m, r) \in Seq(Span)
         /\ \A t \in Nat : Over(Extended(b, m, r), t) <=>
                             Over(m, t) \/ (r <= t /\ t < NextBoundary(b, r))
<1> DEFINE n == Len(m)
           e == NextBoundary(b, r)
<1>1. e \in Nat /\ r < e /\ r \in Nat
  BY GridNext
<1> HIDE DEF e
<1>2. CASE m # <<>> /\ Last(m).hi = r
  <2> DEFINE y == Window(Last(m).lo, e)
             j == Append(Front(m), y)
  <2>1. /\ n \in Nat \ {0} /\ m[n] \in Span /\ Last(m) = m[n] /\ m[n].hi = r
    BY <1>2 DEF Last
  <2>2. m[n].lo \in Nat /\ m[n].lo < r
    BY <2>1, SpanFields
  <2>3. y \in Span /\ y.lo = m[n].lo /\ y.hi = e
    BY <1>1, <2>1, <2>2, SpanMade
  <2> HIDE DEF y
  <2>4. /\ j \in Seq(Span) /\ Len(j) = n
        /\ \A i \in 1..(n - 1) : j[i] = m[i]
        /\ j[n] = y
    BY <1>2, <2>3, FrontIs
  <2>5. Extended(b, m, r) = j
    BY <1>2 DEF Extended, y, e
  <2> HIDE DEF j
  <2>6. ASSUME NEW t \in Nat
        PROVE  Over(j, t) <=> Over(m, t) \/ (r <= t /\ t < e)
    <3>1. t \in Instants(y) <=> t \in Instants(m[n]) \/ (r <= t /\ t < e)
      BY <1>1, <2>1, <2>2, <2>3 DEF Instants
    <3>2. \A i \in 1..n : i \in 1..(n - 1) \/ i = n
      BY <2>1
    <3>3. n \in 1..n /\ \A i \in 1..(n - 1) : i \in 1..n
      BY <2>1
    <3>4. Over(j, t) => Over(m, t) \/ t \in Instants(y)
      BY <2>4, <3>2 DEF Over
    <3>5. Over(m, t) => Over(j, t)
      BY <2>4, <3>1, <3>2, <3>3 DEF Over
    <3>6. t \in Instants(y) => Over(j, t)
      BY <2>4, <3>3 DEF Over
    <3>7. t \in Instants(m[n]) => Over(m, t)
      BY <3>3 DEF Over
    <3> QED BY <3>1, <3>4, <3>5, <3>6, <3>7
  <2> QED BY <2>4, <2>5, <2>6 DEF e
<1>3. CASE ~(m # <<>> /\ Last(m).hi = r)
  <2> DEFINE y == Window(r, e)
             j == Append(m, y)
  <2>0. y \in Span /\ y.lo = r /\ y.hi = e
    BY <1>1, SpanMade
  <2> HIDE DEF y
  <2>1. /\ n \in Nat /\ j \in Seq(Span) /\ Len(j) = n + 1
        /\ \A i \in 1..n : j[i] = m[i]
        /\ j[n + 1] = y
    BY <2>0
  <2>2. Extended(b, m, r) = j
    BY <1>3 DEF Extended, y, e
  <2> HIDE DEF j
  <2>3. ASSUME NEW t \in Nat
        PROVE  Over(j, t) <=> Over(m, t) \/ (r <= t /\ t < e)
    <3>1. /\ \A i \in 1..(n + 1) : i \in 1..n \/ i = n + 1
          /\ n + 1 \in 1..(n + 1) /\ \A i \in 1..n : i \in 1..(n + 1)
      BY <2>1
    <3>2. t \in Instants(y) <=> r <= t /\ t < e
      BY <1>1, <2>0 DEF Instants
    <3> QED BY <2>1, <3>1, <3>2 DEF Over
  <2> QED BY <2>1, <2>2, <2>3 DEF e
<1> QED BY <1>2, <1>3

LEMMA RowWindowsTrace ==
  ASSUME NEW h \in Nat, NEW b, IsGrid(b, h), NEW s \in Seq(0..h)
  PROVE  \E F : /\ F[0] = <<>>
                /\ \A k \in 1..Len(s) : F[k] = Extended(b, F[k-1], s[k])
                /\ RowWindows(b, s) = F[Len(s)]
<1> DEFINE step == [i \in 1..Len(s) |-> [v \in Seq(Span) |-> Extended(b, v, s[i])]]
<1>0. Len(s) \in Nat /\ DOMAIN s = 1..Len(s)
  OBVIOUS
<1>1. step \in [1..Len(s) -> [Seq(Span) -> Seq(Span)]] /\ <<>> \in Seq(Span)
  <2>1. ASSUME NEW i \in 1..Len(s), NEW v \in Seq(Span)
        PROVE  Extended(b, v, s[i]) \in Seq(Span)
    <3>1. s[i] \in 0..h
      OBVIOUS
    <3> QED BY <3>1, ExtendedIs
  <2> QED BY <2>1
<1>2. PICK g \in [SUBSET (1..Len(s)) -> Seq(Span)] : Iterates(g, Len(s), <<>>, step)
  <2> HIDE DEF step
  <2> QED BY <1>0, <1>1, IterExists
<1>3. \A t \in SUBSET (1..Len(s)) :
        t # {} => Max(t) \in 1..Len(s) /\ t \ {Max(t)} \in SUBSET (1..Len(s))
  BY <1>0, TopAndRest
<1>4. g = [t \in SUBSET DOMAIN s |->
             IF t = {} THEN <<>> ELSE Extended(b, g[t \ {Max(t)}], s[Max(t)])]
  BY <1>0, <1>2, <1>3 DEF Iterates
<1>5. PICK f : /\ f = [t \in SUBSET DOMAIN s |->
                         IF t = {} THEN <<>> ELSE Extended(b, f[t \ {Max(t)}], s[Max(t)])]
               /\ RowWindows(b, s) = f[DOMAIN s]
  <2> DEFINE f == CHOOSE f : f = [t \in SUBSET DOMAIN s |->
                         IF t = {} THEN <<>> ELSE Extended(b, f[t \ {Max(t)}], s[Max(t)])]
  <2>1. f = [t \in SUBSET DOMAIN s |->
                         IF t = {} THEN <<>> ELSE Extended(b, f[t \ {Max(t)}], s[Max(t)])]
    BY <1>4, Zenon
  <2>2. RowWindows(b, s) = f[DOMAIN s]
    BY DEF RowWindows, FoldLeft, MapThenFoldSet, Extended
  <2> QED BY <2>1, <2>2, Zenon
<1> DEFINE F == [k \in 0..Len(s) |-> f[1..k]]
<1>6. F[0] = <<>> /\ F[Len(s)] = f[DOMAIN s]
  BY <1>0, <1>5
<1>7. ASSUME NEW k \in 1..Len(s)
      PROVE  F[k] = Extended(b, F[k-1], s[k])
  <2>1. Max(1..k) = k /\ (1..k) \ {k} = 1..(k - 1) /\ 1..k # {}
    <3>1. k \in Nat \ {0}
      OBVIOUS
    <3> QED BY <3>1, TopOf
  <2>2. 1..k \in SUBSET DOMAIN s /\ k - 1 \in 0..Len(s) /\ k \in 0..Len(s)
    BY <1>0
  <2> QED BY <1>5, <2>1, <2>2
<1> HIDE DEF F
<1> QED BY <1>5, <1>6, <1>7

\* Rows alone prove their own bars.
LEMMA RowWindowsIs ==
  ASSUME NEW h \in Nat, NEW b, IsGrid(b, h), NEW s \in Seq(0..h)
  PROVE  /\ RowWindows(b, s) \in Seq(Span)
         /\ \A t \in Nat : Over(RowWindows(b, s), t) <=>
              \E i \in 1..Len(s) : s[i] <= t /\ t < NextBoundary(b, s[i])
<1>1. PICK F : /\ F[0] = <<>>
               /\ \A k \in 1..Len(s) : F[k] = Extended(b, F[k-1], s[k])
               /\ RowWindows(b, s) = F[Len(s)]
  BY RowWindowsTrace
<1> DEFINE In(i, t) == s[i] <= t /\ t < NextBoundary(b, s[i])
           S == {k \in 0..Len(s) :
                   /\ F[k] \in Seq(Span)
                   /\ \A t \in Nat : Over(F[k], t) <=> \E i \in 1..k : In(i, t)}
<1>2. 0 \in S
  <2>1. 0 \in 0..Len(s) /\ <<>> \in Seq(Span) /\ 1..0 = {}
    OBVIOUS
  <2>2. \A t : ~Over(<<>>, t)
    BY DEF Over
  <2> HIDE DEF In
  <2> QED BY <1>1, <2>1, <2>2
<1>3. ASSUME NEW k \in 1..Len(s), k - 1 \in S PROVE k \in S
  <2>1. s[k] \in 0..h /\ F[k-1] \in Seq(Span) /\ k \in 0..Len(s)
        /\ F[k] = Extended(b, F[k-1], s[k])
    BY <1>1, <1>3
  <2>2. /\ F[k] \in Seq(Span)
        /\ \A t \in Nat : Over(F[k], t) <=> Over(F[k-1], t) \/ In(k, t)
    <3> DEFINE m == F[k-1]
               x == s[k]
    <3>1. m \in Seq(Span) /\ x \in 0..h /\ F[k] = Extended(b, m, x)
      BY <2>1
    <3> HIDE DEF m, x
    <3>2. /\ Extended(b, m, x) \in Seq(Span)
          /\ \A t \in Nat : Over(Extended(b, m, x), t) <=>
                              Over(m, t) \/ (x <= t /\ t < NextBoundary(b, x))
      BY <3>1, ExtendedIs
    <3> QED BY <3>1, <3>2 DEF m, x
  <2>3. /\ \A i \in 1..k : i \in 1..(k - 1) \/ i = k
        /\ k \in 1..k /\ \A i \in 1..(k - 1) : i \in 1..k
    OBVIOUS
  <2>4. \A t \in Nat : Over(F[k-1], t) <=> \E i \in 1..(k - 1) : In(i, t)
    BY <1>3
  <2> HIDE DEF In
  <2>5. \A t \in Nat : Over(F[k], t) <=> \E i \in 1..k : In(i, t)
    BY <2>2, <2>3, <2>4
  <2> QED BY <2>1, <2>2, <2>5
<1> HIDE DEF S
<1>4. Len(s) \in Nat /\ Len(s) \in 0..Len(s)
  OBVIOUS
<1>5. Len(s) \in S
  BY <1>2, <1>3, <1>4, Climb
<1> QED BY <1>1, <1>5 DEF S

\* Rows on the grid prove the instants whose bars they start.
LEMMA RowsProve ==
  ASSUME NEW h \in Nat, NEW b, IsGrid(b, h), NEW s \in Seq(0..h),
         \A i \in 1..Len(s) : Aligned(b, s[i])
  PROVE  \A t \in Nat : Over(RowWindows(b, s), t) <=> Has(s, Floor(b, t))
<1>1. ASSUME NEW t \in Nat, NEW i \in 1..Len(s)
      PROVE  s[i] <= t /\ t < NextBoundary(b, s[i]) <=> Floor(b, t) = s[i]
  <2>1. s[i] \in 0..h /\ Aligned(b, s[i])
    BY ElementOfSeq
  <2> QED BY <2>1, BarOf
<1> QED BY <1>1, RowWindowsIs DEF Has

\* The rows of a file prove their own bars available.
LEMMA AvailableSegmentsIs ==
  ASSUME NEW h \in Nat, NEW b, IsGrid(b, h), NEW s \in Seq(0..h),
         \A i \in 1..Len(s) : Aligned(b, s[i])
  PROVE  /\ AvailableSegments(b, s) \in Seq(Fact)
         /\ \A t \in Nat :
              /\ Shows(AvailableSegments(b, s), t, "available") <=> Has(s, Floor(b, t))
              /\ ~Shows(AvailableSegments(b, s), t, "unavailable")
<1> DEFINE r == RowWindows(b, s)
           z == [i \in 1..Len(r) |-> Segment(r[i].lo, r[i].hi, "available")]
<1>1. r \in Seq(Span) /\ \A t \in Nat : Over(r, t) <=> Has(s, Floor(b, t))
  BY RowWindowsIs, RowsProve
<1>2. AvailableSegments(b, s) = z
  <2>1. DOMAIN r = 1..Len(r)
    BY <1>1
  <2> QED BY <2>1 DEF AvailableSegments
<1> HIDE DEF r
<1>3. Len(r) \in Nat /\ \A i \in 1..Len(r) : r[i] \in Span
  BY <1>1, ElementOfSeq
<1>4. ASSUME NEW i \in 1..Len(r)
      PROVE  z[i] \in Fact /\ z[i].lo = r[i].lo /\ z[i].hi = r[i].hi /\ z[i].status = "available"
  <2>1. r[i].lo \in Nat /\ r[i].hi \in Nat /\ r[i].lo < r[i].hi /\ "available" \in Statuses
    BY <1>3, SpanFields DEF Statuses
  <2>2. z[i] = Segment(r[i].lo, r[i].hi, "available")
    OBVIOUS
  <2> HIDE DEF z
  <2> QED BY <2>1, <2>2, FactMade
<1>5. z \in Seq(Fact) /\ Len(z) = Len(r)
  BY <1>3, <1>4
<1> HIDE DEF z
<1>6. \A t : Shows(z, t, "available") <=> Over(r, t)
  BY <1>4, <1>5 DEF Shows, Over, Instants
<1>7. \A t : ~Shows(z, t, "unavailable")
  BY <1>4, <1>5 DEF Shows
<1> QED BY <1>1, <1>2, <1>5, <1>6, <1>7

-----------------------------------------------------------------------------
(* Gaps.                                                                   *)

Missing(g) == g.status = "missing"

\* Missing gaps keep a distance, end before c, lie over t.
Apart(q) == \A i, j \in 1..Len(q) : i < j /\ Missing(q[i]) /\ Missing(q[j]) => q[i].hi < q[j].lo
EndBefore(q, c) == \A i \in 1..Len(q) : Missing(q[i]) => q[i].hi < c
StartFrom(q, c) == \A i \in 1..Len(q) : Missing(q[i]) => c <= q[i].lo
Misses(q, t) == \E i \in 1..Len(q) : Missing(q[i]) /\ t \in Instants(q[i])

LEMMA GapFields ==
  ASSUME NEW s \in Gap
  PROVE  /\ s.lo \in Nat /\ s.hi \in Nat /\ s.lo < s.hi
         /\ s.status \in Statuses \cup {"missing"}
BY DEF Gap, Piece

LEMMA GapMade ==
  ASSUME NEW lo \in Nat, NEW hi \in Nat, lo < hi, NEW status \in Statuses \cup {"missing"}
  PROVE  /\ Segment(lo, hi, status) \in Gap
         /\ Segment(lo, hi, status).lo = lo /\ Segment(lo, hi, status).hi = hi
         /\ Segment(lo, hi, status).status = status
BY DEF Gap, Piece, Segment

\* A gap added behind others keeps them apart and adds its instants.
LEMMA GapAdded ==
  ASSUME NEW q \in Seq(Gap), NEW x \in Gap
  PROVE  LET r == Append(q, x) IN
         /\ r \in Seq(Gap)
         /\ Apart(q) /\ (Missing(x) => EndBefore(q, x.lo)) => Apart(r)
         /\ \A c : EndBefore(q, c) /\ (Missing(x) => x.hi < c) => EndBefore(r, c)
         /\ \A c : StartFrom(q, c) /\ (Missing(x) => c <= x.lo) => StartFrom(r, c)
         /\ \A t : Misses(r, t) <=> Misses(q, t) \/ (Missing(x) /\ t \in Instants(x))
<1> DEFINE r == Append(q, x)
           n == Len(q)
<1>1. /\ n \in Nat /\ r \in Seq(Gap) /\ Len(r) = n + 1
      /\ \A i \in 1..n : r[i] = q[i]
      /\ r[n + 1] = x
  OBVIOUS
<1> HIDE DEF r
<1>2. /\ \A i \in 1..(n + 1) : i \in 1..n \/ i = n + 1
      /\ n + 1 \in 1..(n + 1) /\ \A i \in 1..n : i \in 1..(n + 1)
      /\ \A i \in 1..n : ~(n + 1 < i)
      /\ ~(n + 1 < n + 1)
  BY <1>1
<1>3. Apart(q) /\ (Missing(x) => EndBefore(q, x.lo)) => Apart(r)
  BY <1>1, <1>2 DEF Apart, EndBefore
<1>4. \A c : EndBefore(q, c) /\ (Missing(x) => x.hi < c) => EndBefore(r, c)
  BY <1>1, <1>2 DEF EndBefore
<1>5. \A c : StartFrom(q, c) /\ (Missing(x) => c <= x.lo) => StartFrom(r, c)
  BY <1>1, <1>2 DEF StartFrom
<1>6. \A t : Misses(r, t) <=> Misses(q, t) \/ (Missing(x) /\ t \in Instants(x))
  BY <1>1, <1>2 DEF Misses
<1> QED BY <1>1, <1>3, <1>4, <1>5, <1>6 DEF r

\* One covered segment more, as Gaps visits it.
Hole(lo, cursor, s) == Segment(cursor, Larger(s.lo, lo), "missing")
Rest(lo, hi, s) == Segment(Larger(s.lo, lo), Smaller(s.hi, hi), s.status)
Visited(lo, hi, seen, s) ==
  LET hole == IF Larger(s.lo, lo) > seen.cursor
              THEN <<Segment(seen.cursor, Larger(s.lo, lo), "missing")>> ELSE <<>>
      gap  == IF s.status = "available" THEN <<>>
              ELSE <<Segment(Larger(s.lo, lo), Smaller(s.hi, hi), s.status)>>
  IN  [gaps |-> seen.gaps \o hole \o gap, cursor |-> Smaller(s.hi, hi)]

Seen == [gaps : Seq(Gap), cursor : Nat]

\* One segment of covered_and_gaps: the hole before it and, where it is not
\* available, itself become gaps.
LEMMA VisitedIs ==
  ASSUME NEW lo \in Nat, NEW hi \in Nat, NEW seen \in Seen, NEW s \in Fact,
         s.lo < hi, lo < s.hi, lo < hi
  PROVE  LET q == IF Larger(s.lo, lo) > seen.cursor
                  THEN Append(seen.gaps, Hole(lo, seen.cursor, s)) ELSE seen.gaps
         IN  /\ Visited(lo, hi, seen, s) \in Seen
             /\ Visited(lo, hi, seen, s).gaps =
                  IF s.status = "available" THEN q ELSE Append(q, Rest(lo, hi, s))
             /\ Visited(lo, hi, seen, s).cursor = Smaller(s.hi, hi)
             /\ Larger(s.lo, lo) > seen.cursor => Hole(lo, seen.cursor, s) \in Gap
             /\ Rest(lo, hi, s) \in Gap
             /\ q \in Seq(Gap)
             /\ Larger(s.lo, lo) < Smaller(s.hi, hi)
<1> DEFINE g == seen.gaps
           c == seen.cursor
           from == Larger(s.lo, lo)
           to == Smaller(s.hi, hi)
           q == IF from > c THEN Append(g, Hole(lo, c, s)) ELSE g
           hole == IF from > c THEN <<Hole(lo, c, s)>> ELSE <<>>
           gap == IF s.status = "available" THEN <<>> ELSE <<Rest(lo, hi, s)>>
           r == IF s.status = "available" THEN q ELSE Append(q, Rest(lo, hi, s))
<1>1. g \in Seq(Gap) /\ c \in Nat
  BY DEF Seen
<1>2. s.lo \in Nat /\ s.hi \in Nat /\ s.lo < s.hi /\ s.status \in Statuses
  BY FactFields
<1>3. /\ from \in Nat /\ to \in Nat
      /\ \A t \in Nat : /\ from <= t <=> s.lo <= t /\ lo <= t
                        /\ t < to <=> t < s.hi /\ t < hi
  BY <1>2, LargerSmaller
<1>4. from < to
  <2>1. from \in {s.lo, lo}
    BY DEF Larger
  <2> HIDE DEF from, to
  <2> QED BY <1>2, <1>3, <2>1
<1>5. Visited(lo, hi, seen, s) = [gaps |-> g \o hole \o gap, cursor |-> to]
  BY DEF Visited, Hole, Rest
<1>6. /\ from > c => Hole(lo, c, s) \in Gap
      /\ Rest(lo, hi, s) \in Gap
  <2>1. Hole(lo, c, s) = Segment(c, from, "missing") /\ Rest(lo, hi, s) = Segment(from, to, s.status)
    BY DEF Hole, Rest
  <2> HIDE DEF from, to, c
  <2> QED BY <1>1, <1>2, <1>3, <1>4, <2>1, GapMade
<1> DEFINE x == Hole(lo, c, s)
           y == Rest(lo, hi, s)
<1>7. /\ from > c => x \in Gap
      /\ y \in Gap
  BY <1>6
<1> HIDE DEF g, c, from, to, x, y
<1>8. g \o hole = q /\ q \in Seq(Gap)
  <2>1. from > c => g \o <<x>> = Append(g, x)
    BY <1>1, <1>7, AppendIsConcat
  <2>2. g \o <<>> = g
    BY <1>1, ConcatEmptySeq
  <2>3. from > c => Append(g, x) \in Seq(Gap)
    BY <1>1, <1>7
  <2> QED BY <1>1, <2>1, <2>2, <2>3 DEF x
<1> HIDE DEF q, hole
<1>9. q \o gap = r /\ r \in Seq(Gap)
  <2>1. q \o <<y>> = Append(q, y) /\ Append(q, y) \in Seq(Gap)
    BY <1>7, <1>8, AppendIsConcat
  <2>2. q \o <<>> = q
    BY <1>8, ConcatEmptySeq
  <2> QED BY <1>8, <2>1, <2>2 DEF y
<1> HIDE DEF gap, r
<1>10. Visited(lo, hi, seen, s) = [gaps |-> r, cursor |-> to]
  BY <1>5, <1>8, <1>9
<1>11. [gaps |-> r, cursor |-> to] \in Seen
  BY <1>3, <1>9 DEF Seen
<1> QED BY <1>3, <1>4, <1>6, <1>8, <1>10, <1>11 DEF q, r, from, to, c, g

\* The segments that reach into [lo, hi).
Inside(segments, lo, hi) ==
  Only(segments, {s \in ToSet(segments) : s.hi > lo /\ s.lo < hi})

LEMMA InsideIs ==
  ASSUME NEW z \in Seq(Fact), Normal(z), NEW lo \in Nat, NEW hi \in Nat
  PROVE  LET s == Inside(z, lo, hi) IN
         /\ s \in Seq(Fact)
         /\ \A i \in 1..Len(s) : s[i].hi > lo /\ s[i].lo < hi
         /\ \A i, j \in 1..Len(s) : i < j => s[i].hi <= s[j].lo
         /\ \A t \in Nat : lo <= t /\ t < hi => (Over(s, t) <=> Over(z, t))
<1> DEFINE T == {x \in ToSet(z) : x.hi > lo /\ x.lo < hi}
           s == Only(z, T)
<1>1. Inside(z, lo, hi) = s
  BY DEF Inside
<1>2. s \in Seq(Fact) /\ \E at : KeptFrom(at, s, z, T, Len(z))
  <2> HIDE DEF T
  <2> QED BY OnlyIs
<1>3. PICK at : KeptFrom(at, s, z, T, Len(z))
  BY <1>2
<1> HIDE DEF s
<1>4. \A i \in 1..Len(s) : s[i] \in T /\ at[i] \in 1..Len(z) /\ s[i] = z[at[i]]
  BY <1>3 DEF KeptFrom
<1>5. \A i, j \in 1..Len(s) : i < j => s[i].hi <= s[j].lo
  <2>1. \A i, j \in 1..Len(s) : i < j => at[i] < at[j]
    BY <1>3 DEF KeptFrom
  <2>2. \A i, j \in 1..Len(z) : i < j => z[i].hi <= z[j].lo
    BY NormalSpread
  <2> QED BY <1>4, <2>1, <2>2
<1>6. ASSUME NEW t \in Nat, lo <= t, t < hi
      PROVE  Over(s, t) <=> Over(z, t)
  <2>1. ASSUME NEW i \in 1..Len(z), t \in Instants(z[i]) PROVE Over(s, t)
    <3>1. z[i].lo \in Nat /\ z[i].hi \in Nat /\ z[i].lo <= t /\ t < z[i].hi
      <4>1. z[i].lo \in Nat /\ z[i].hi \in Nat
        BY ElementOfSeq, FactFields
      <4> QED BY <2>1, <4>1 DEF Instants
    <3>2. z[i] \in T
      BY <1>6, <3>1 DEF ToSet
    <3>3. PICK k \in 1..Len(s) : at[k] = i
      BY <1>3, <3>2 DEF KeptFrom
    <3> QED BY <1>4, <2>1, <3>3 DEF Over
  <2>2. Over(s, t) => Over(z, t)
    BY <1>4 DEF Over
  <2> QED BY <2>1, <2>2 DEF Over
<1> QED BY <1>1, <1>2, <1>4, <1>5, <1>6

\* The prefixes of that visit, and the gaps it ends with.
GapsRun(segments, lo, hi, s, F) ==
  /\ F[0] = [gaps |-> <<>>, cursor |-> lo]
  /\ \A k \in 1..Len(s) : F[k] = Visited(lo, hi, F[k-1], s[k])
  /\ Gaps(segments, lo, hi) =
       IF F[Len(s)].cursor < hi
       THEN Append(F[Len(s)].gaps, Segment(F[Len(s)].cursor, hi, "missing"))
       ELSE F[Len(s)].gaps

LEMMA GapsTrace ==
  ASSUME NEW segments, NEW lo \in Nat, NEW hi \in Nat, lo < hi,
         NEW s, s = Inside(NormalizeSegments(segments), lo, hi),
         s \in Seq(Fact), \A i \in 1..Len(s) : s[i].hi > lo /\ s[i].lo < hi
  PROVE  \E F : GapsRun(segments, lo, hi, s, F)
<1> DEFINE step == [i \in 1..Len(s) |-> [v \in Seen |-> Visited(lo, hi, v, s[i])]]
           base == [gaps |-> <<>>, cursor |-> lo]
<1>0. Len(s) \in Nat /\ DOMAIN s = 1..Len(s)
  OBVIOUS
<1>1. step \in [1..Len(s) -> [Seen -> Seen]] /\ base \in Seen
  <2>1. ASSUME NEW i \in 1..Len(s), NEW v \in Seen
        PROVE  Visited(lo, hi, v, s[i]) \in Seen
    <3>1. s[i] \in Fact /\ lo < s[i].hi /\ s[i].lo < hi
      <4>1. s[i] \in Fact
        BY ElementOfSeq
      <4>2. s[i].hi > lo /\ s[i].lo < hi
        OBVIOUS
      <4> QED BY <4>1, <4>2, FactFields
    <3> QED BY <3>1, VisitedIs
  <2>2. base \in Seen
    BY DEF Seen
  <2> QED BY <2>1, <2>2
<1>2. PICK g \in [SUBSET (1..Len(s)) -> Seen] : Iterates(g, Len(s), base, step)
  <2> HIDE DEF step, base
  <2> QED BY <1>0, <1>1, IterExists
<1>3. \A t \in SUBSET (1..Len(s)) :
        t # {} => Max(t) \in 1..Len(s) /\ t \ {Max(t)} \in SUBSET (1..Len(s))
  BY <1>0, TopAndRest
<1>4. g = [t \in SUBSET DOMAIN s |->
             IF t = {} THEN base ELSE Visited(lo, hi, g[t \ {Max(t)}], s[Max(t)])]
  <2> HIDE DEF base
  <2> QED BY <1>0, <1>2, <1>3 DEF Iterates
<1> DEFINE f == CHOOSE f : f = [t \in SUBSET DOMAIN s |->
             IF t = {} THEN base ELSE Visited(lo, hi, f[t \ {Max(t)}], s[Max(t)])]
<1>5. f = [t \in SUBSET DOMAIN s |->
             IF t = {} THEN base ELSE Visited(lo, hi, f[t \ {Max(t)}], s[Max(t)])]
  BY <1>4, Zenon
<1>6. Gaps(segments, lo, hi) =
        IF f[DOMAIN s].cursor < hi
        THEN Append(f[DOMAIN s].gaps, Segment(f[DOMAIN s].cursor, hi, "missing"))
        ELSE f[DOMAIN s].gaps
  BY DEF Gaps, Inside, FoldLeft, MapThenFoldSet, Visited
<1> HIDE DEF f
<1> DEFINE F == [k \in 0..Len(s) |-> f[1..k]]
<1>7. F[0] = base /\ F[Len(s)] = f[DOMAIN s]
  <2> HIDE DEF base
  <2> QED BY <1>0, <1>5
<1>8. ASSUME NEW k \in 1..Len(s)
      PROVE  F[k] = Visited(lo, hi, F[k-1], s[k])
  <2>1. Max(1..k) = k /\ (1..k) \ {k} = 1..(k - 1) /\ 1..k # {}
    <3>1. k \in Nat \ {0}
      OBVIOUS
    <3> QED BY <3>1, TopOf
  <2>2. 1..k \in SUBSET DOMAIN s /\ k - 1 \in 0..Len(s) /\ k \in 0..Len(s)
    BY <1>0
  <2> QED BY <1>5, <2>1, <2>2
<1> HIDE DEF F
<1> QED BY <1>6, <1>7, <1>8 DEF GapsRun

\* What of [lo, hi) no segment covers, in order and each instant once.
LEMMA GapsAre ==
  ASSUME NEW segments \in Seq(Fact), NEW lo \in Nat, NEW hi \in Nat, lo < hi
  PROVE  LET g == Gaps(segments, lo, hi)
             z == NormalizeSegments(segments)
         IN  /\ g \in Seq(Gap) /\ Apart(g) /\ StartFrom(g, lo) /\ EndBefore(g, hi + 1)
             /\ \A t \in Nat : Misses(g, t) <=> lo <= t /\ t < hi /\ ~Over(z, t)
<1> DEFINE z == NormalizeSegments(segments)
           s == Inside(z, lo, hi)
           n == Len(s)
<1>1. z \in Seq(Fact) /\ Normal(z)
  BY NormalizedIs
<1> HIDE DEF z
<1>2. /\ s \in Seq(Fact)
      /\ \A i \in 1..n : s[i].hi > lo /\ s[i].lo < hi
      /\ \A i, j \in 1..n : i < j => s[i].hi <= s[j].lo
      /\ \A t \in Nat : lo <= t /\ t < hi => (Over(s, t) <=> Over(z, t))
  BY <1>1, InsideIs
<1>3. s = Inside(NormalizeSegments(segments), lo, hi)
  BY DEF z
<1> HIDE DEF s
<1>4. PICK F : GapsRun(segments, lo, hi, s, F)
  BY <1>2, <1>3, GapsTrace
<1>r. /\ F[0] = [gaps |-> <<>>, cursor |-> lo]
      /\ \A k \in 1..n : F[k] = Visited(lo, hi, F[k-1], s[k])
      /\ Gaps(segments, lo, hi) =
            IF F[n].cursor < hi
            THEN Append(F[n].gaps, Segment(F[n].cursor, hi, "missing"))
            ELSE F[n].gaps
  BY <1>4 DEF GapsRun
<1>5. n \in Nat /\ \A k \in 1..n : s[k] \in Fact
  BY <1>2, ElementOfSeq
<1> DEFINE Hit(k, t) == \E i \in 1..k : t \in Instants(s[i])
           Good(k, v) ==
             /\ v \in Seen /\ lo <= v.cursor /\ v.cursor <= hi
             /\ k > 0 => v.cursor = Smaller(s[k].hi, hi)
             /\ Apart(v.gaps) /\ StartFrom(v.gaps, lo) /\ EndBefore(v.gaps, v.cursor)
             /\ \A t \in Nat : Misses(v.gaps, t) <=> lo <= t /\ t < v.cursor /\ ~Hit(k, t)
           S == {k \in 0..n : Good(k, F[k])}
<1>6. 0 \in S
  <2> DEFINE v == [gaps |-> <<>>, cursor |-> lo]
  <2>1. v \in Seen /\ v.gaps = <<>> /\ v.cursor = lo
    BY DEF Seen
  <2>2. Apart(<<>>) /\ StartFrom(<<>>, lo) /\ EndBefore(<<>>, lo) /\ \A t : ~Misses(<<>>, t)
    BY DEF Apart, StartFrom, EndBefore, Misses
  <2>3. F[0] = v
    BY <1>r
  <2> HIDE DEF v, Hit
  <2>4. Good(0, v)
    BY <2>1, <2>2
  <2>5. 0 \in 0..n
    BY <1>5
  <2> QED BY <2>3, <2>4, <2>5
<1>7. ASSUME NEW k \in 1..n, k - 1 \in S PROVE k \in S
  <2> DEFINE v == F[k-1]
             x == s[k]
             w == Visited(lo, hi, v, x)
             from == Larger(x.lo, lo)
             to == Smaller(x.hi, hi)
             hole == Hole(lo, v.cursor, x)
             rest == Rest(lo, hi, x)
             q == IF from > v.cursor THEN Append(v.gaps, hole) ELSE v.gaps
  <2>1. Good(k - 1, v)
    BY <1>7
  <2>2. /\ x \in Fact /\ x.lo \in Nat /\ x.hi \in Nat /\ x.lo < x.hi
        /\ x.lo < hi /\ lo < x.hi /\ x.status \in Statuses
    BY <1>2, <1>5, FactFields
  <2>3. F[k] = w
    BY <1>r
  <2>4. v.cursor <= from
    <3>1. CASE k - 1 = 0
      <4>1. v.cursor = lo
        BY <1>r, <3>1
      <4> QED BY <2>2, <4>1 DEF Larger
    <3>2. CASE k - 1 > 0
      <4>1. v.cursor = Smaller(s[k-1].hi, hi)
        BY <2>1, <3>2
      <4>2. k - 1 \in 1..n /\ k - 1 < k
        BY <3>2
      <4>3. s[k-1].hi <= x.lo /\ s[k-1].hi \in Nat
        BY <1>2, <1>5, <4>2, FactFields
      <4> QED BY <2>2, <4>1, <4>3 DEF Larger, Smaller
    <3> QED BY <3>1, <3>2
  <2>5. \A t \in Nat : t < v.cursor /\ lo <= t => t \notin Instants(x)
    <3>1. CASE k - 1 = 0
      <4>1. v.cursor = lo
        BY <1>r, <3>1
      <4> QED BY <4>1
    <3>2. CASE k - 1 > 0
      <4>1. v.cursor = Smaller(s[k-1].hi, hi)
        BY <2>1, <3>2
      <4>2. k - 1 \in 1..n /\ k - 1 < k
        BY <3>2
      <4>3. s[k-1].hi <= x.lo /\ s[k-1].hi \in Nat
        BY <1>2, <1>5, <4>2, FactFields
      <4> QED BY <2>2, <4>1, <4>3 DEF Smaller, Instants
    <3> QED BY <3>1, <3>2
  <2>6. v \in Seen
    BY <2>1
  <2> HIDE DEF v, x
  <2>7. /\ w \in Seen
        /\ w.gaps = IF x.status = "available" THEN q ELSE Append(q, rest)
        /\ w.cursor = to
        /\ from > v.cursor => hole \in Gap
        /\ rest \in Gap
        /\ q \in Seq(Gap)
        /\ from < to
    BY <2>2, <2>6, VisitedIs
  <2>8. /\ from \in Nat /\ to \in Nat /\ v.cursor \in Nat /\ v.gaps \in Seq(Gap)
        /\ lo <= from /\ to <= hi /\ lo <= v.cursor
        /\ \A t \in Nat : /\ from <= t <=> x.lo <= t /\ lo <= t
                          /\ t < to <=> t < x.hi /\ t < hi
    BY <2>1, <2>2, <2>6 DEF Larger, Smaller, Seen
  <2>9. /\ hole.lo = v.cursor /\ hole.hi = from /\ Missing(hole)
        /\ ~Missing(rest)
    BY <2>2 DEF Hole, Rest, Segment, Missing, Statuses
  <2>w. w \in Seen /\ F[k] = w
    BY <2>3, <2>7
  <2> HIDE DEF w, hole, rest, from, to
  <2>10. ASSUME NEW t \in Nat PROVE t \in Instants(hole) <=> v.cursor <= t /\ t < from
    BY <2>8, <2>9 DEF Instants
  <2>11. /\ Apart(q) /\ StartFrom(q, lo) /\ EndBefore(q, to)
         /\ \A t \in Nat : Misses(q, t) <=>
              Misses(v.gaps, t) \/ (v.cursor <= t /\ t < from)
    <3>0. EndBefore(v.gaps, to) /\ EndBefore(v.gaps, v.cursor) /\ Apart(v.gaps)
          /\ StartFrom(v.gaps, lo)
      <4>1. \A g \in Gap : g.hi \in Nat
        BY GapFields
      <4>2. \A i \in 1..Len(v.gaps) : v.gaps[i].hi \in Nat
        BY <2>8, <4>1, ElementOfSeq
      <4> QED BY <2>1, <2>4, <2>7, <2>8, <4>2, SMTT(30) DEF EndBefore
    <3>1. CASE from > v.cursor
      <4>1. hole \in Gap /\ q = Append(v.gaps, hole)
        BY <2>7, <3>1
      <4> HIDE DEF q
      <4>2. Apart(q)
        BY <2>8, <2>9, <3>0, <4>1, GapAdded
      <4>3. StartFrom(q, lo)
        BY <2>8, <2>9, <3>0, <4>1, GapAdded
      <4>4. EndBefore(q, to)
        BY <2>7, <2>8, <2>9, <3>0, <4>1, GapAdded
      <4>5. \A t \in Nat : Misses(q, t) <=> Misses(v.gaps, t) \/ t \in Instants(hole)
        BY <2>8, <2>9, <4>1, GapAdded
      <4> QED BY <2>10, <4>2, <4>3, <4>4, <4>5
    <3>2. CASE ~(from > v.cursor)
      <4>1. q = v.gaps /\ \A t \in Nat : ~(v.cursor <= t /\ t < from)
        BY <2>8, <3>2
      <4> HIDE DEF q
      <4> QED BY <3>0, <4>1
    <3> QED BY <3>1, <3>2
  <2> HIDE DEF q
  <2>12. /\ Apart(w.gaps) /\ StartFrom(w.gaps, lo) /\ EndBefore(w.gaps, to)
         /\ \A t \in Nat : Misses(w.gaps, t) <=> Misses(q, t)
    <3>1. CASE x.status = "available"
      BY <2>7, <2>11, <3>1
    <3>2. CASE x.status # "available"
      <4>1. w.gaps = Append(q, rest)
        BY <2>7, <3>2
      <4> QED BY <2>7, <2>9, <2>11, <4>1, GapAdded
    <3> QED BY <3>1, <3>2
  <2>13. ASSUME NEW t \in Nat
         PROVE  Misses(w.gaps, t) <=> lo <= t /\ t < to /\ ~Hit(k, t)
    <3>1. Hit(k, t) <=> Hit(k - 1, t) \/ t \in Instants(x)
      <4>1. /\ \A i \in 1..k : i \in 1..(k - 1) \/ i = k
            /\ k \in 1..k /\ \A i \in 1..(k - 1) : i \in 1..k
        OBVIOUS
      <4> QED BY <4>1 DEF x
    <3>2. Misses(v.gaps, t) <=> lo <= t /\ t < v.cursor /\ ~Hit(k - 1, t)
      BY <2>1
    <3>3. t \in Instants(x) <=> x.lo <= t /\ t < x.hi
      BY <2>2 DEF Instants
    <3>4. Hit(k - 1, t) => t < v.cursor \/ t >= hi \/ t < lo
      <4> SUFFICES ASSUME NEW i \in 1..(k - 1), t \in Instants(s[i]), t < hi
                   PROVE  t < v.cursor
        OBVIOUS
      <4>1. i \in 1..n /\ k - 1 \in 1..n /\ k - 1 > 0
        BY <1>5
      <4>2. s[i].lo \in Nat /\ s[i].hi \in Nat /\ s[k-1].lo \in Nat /\ s[k-1].hi \in Nat
            /\ s[k-1].lo < s[k-1].hi
        BY <1>5, <4>1, FactFields
      <4>3. t < s[i].hi
        BY <4>2 DEF Instants
      <4>4. s[i].hi <= s[k-1].hi
        <5>1. CASE i = k - 1
          BY <4>2, <5>1
        <5>2. CASE i < k - 1
          <6>1. s[i].hi <= s[k-1].lo
            BY <1>2, <4>1, <5>2
          <6> QED BY <4>2, <6>1
        <5> QED BY <5>1, <5>2
      <4>5. v.cursor = Smaller(s[k-1].hi, hi)
        BY <2>1, <4>1
      <4> QED BY <4>2, <4>3, <4>4, <4>5 DEF Smaller
    <3> HIDE DEF Hit
    <3> QED BY <2>4, <2>5, <2>7, <2>8, <2>11, <2>12, <3>1, <3>2, <3>3, <3>4
  <2>14. Good(k, w)
    <3>1. k > 0 => w.cursor = Smaller(s[k].hi, hi)
      BY <2>7 DEF to, x
    <3>2. lo <= w.cursor /\ w.cursor <= hi
      BY <2>7, <2>8
    <3> HIDE DEF Hit
    <3> QED BY <2>7, <2>12, <2>13, <2>w, <3>1, <3>2
  <2>15. k \in 0..n
    BY <1>5
  <2> HIDE DEF Good
  <2> QED BY <2>w, <2>14, <2>15
<1> HIDE DEF S
<1>8. n \in 0..n
  BY <1>5
<1>9. n \in S
  BY <1>5, <1>6, <1>7, <1>8, Climb
<1> DEFINE v == F[n]
<1>10. Good(n, v)
  BY <1>9 DEF S
<1>11. Gaps(segments, lo, hi) =
         IF v.cursor < hi THEN Append(v.gaps, Segment(v.cursor, hi, "missing")) ELSE v.gaps
  BY <1>r
<1> HIDE DEF v
<1>12. v.cursor \in Nat /\ v.gaps \in Seq(Gap) /\ v.cursor <= hi /\ lo <= v.cursor
  BY <1>10 DEF Seen
<1>13. \A i \in 1..Len(v.gaps) : v.gaps[i].hi \in Nat
  BY <1>12, ElementOfSeq, GapFields
<1>14. ASSUME NEW t \in Nat, lo <= t, t < hi
       PROVE  /\ Over(z, t) <=> Hit(n, t)
              /\ Hit(n, t) => t < v.cursor
  <2>1. Over(z, t) <=> Over(s, t)
    BY <1>2, <1>14
  <2>2. Over(s, t) <=> Hit(n, t)
    BY DEF Over
  <2>3. ASSUME NEW i \in 1..n, t \in Instants(s[i]) PROVE t < v.cursor
    <3>1. n > 0 /\ v.cursor = Smaller(s[n].hi, hi) /\ n \in 1..n
      BY <1>5, <1>10
    <3>2. /\ s[i].lo \in Nat /\ s[i].hi \in Nat /\ s[n].lo \in Nat /\ s[n].hi \in Nat
          /\ s[n].lo < s[n].hi
      BY <1>5, <3>1, FactFields
    <3>3. s[i].hi <= s[n].hi
      <4>1. CASE i = n
        BY <3>2, <4>1
      <4>2. CASE i < n
        <5>1. s[i].hi <= s[n].lo
          BY <1>2, <3>1, <4>2
        <5> QED BY <3>2, <5>1
      <4> QED BY <1>5, <4>1, <4>2
    <3>4. t < s[i].hi
      BY <2>3, <3>2 DEF Instants
    <3> QED BY <1>14, <3>1, <3>2, <3>3, <3>4 DEF Smaller
  <2> QED BY <2>1, <2>2, <2>3
<1> DEFINE g == Gaps(segments, lo, hi)
<1>15. CASE v.cursor < hi
  <2> DEFINE x == Segment(v.cursor, hi, "missing")
  <2>1. x \in Gap /\ x.lo = v.cursor /\ x.hi = hi /\ Missing(x)
    BY <1>12, <1>15, GapMade DEF Missing
  <2>2. g = Append(v.gaps, x)
    BY <1>11, <1>15
  <2>3. EndBefore(v.gaps, v.cursor) /\ EndBefore(v.gaps, hi + 1) /\ StartFrom(v.gaps, lo)
        /\ Apart(v.gaps)
    BY <1>10, <1>12, <1>13 DEF EndBefore
  <2>4. \A t \in Nat : t \in Instants(x) <=> v.cursor <= t /\ t < hi
    BY <1>12, <2>1 DEF Instants
  <2> HIDE DEF g, x
  <2>5. g \in Seq(Gap) /\ Apart(g) /\ StartFrom(g, lo) /\ EndBefore(g, hi + 1)
    BY <1>12, <2>1, <2>2, <2>3, GapAdded
  <2>6. \A t \in Nat : Misses(g, t) <=> Misses(v.gaps, t) \/ t \in Instants(x)
    BY <1>12, <2>1, <2>2, GapAdded
  <2>7. \A t \in Nat : Misses(v.gaps, t) <=> lo <= t /\ t < v.cursor /\ ~Hit(n, t)
    BY <1>10
  <2> HIDE DEF Hit
  <2>8. \A t \in Nat : Misses(g, t) <=> lo <= t /\ t < hi /\ ~Over(z, t)
    BY <1>12, <1>14, <2>4, <2>6, <2>7
  <2> QED BY <2>5, <2>8 DEF g, z
<1>16. CASE ~(v.cursor < hi)
  <2>1. g = v.gaps /\ v.cursor = hi
    BY <1>11, <1>12, <1>16
  <2>2. EndBefore(v.gaps, hi + 1) /\ StartFrom(v.gaps, lo) /\ Apart(v.gaps)
    BY <1>10, <1>12, <1>13, SMTT(30) DEF EndBefore
  <2>3. \A t \in Nat : Misses(v.gaps, t) <=> lo <= t /\ t < v.cursor /\ ~Hit(n, t)
    BY <1>10
  <2> HIDE DEF g, Hit
  <2>4. \A t \in Nat : Misses(g, t) <=> lo <= t /\ t < hi /\ ~Over(z, t)
    BY <1>14, <2>1, <2>3
  <2> QED BY <1>12, <2>1, <2>2, <2>4 DEF g, z
<1> QED BY <1>15, <1>16

\* Gaps in order with time between them.
Spaced(g) == \A i, j \in 1..Len(g) : i < j => g[i].hi < g[j].lo

\* The gaps that are fetched: what of the request nothing is stated of, in
\* maximal intervals.
LEMMA MissingGapsAre ==
  ASSUME NEW segments \in Seq(Fact), NEW lo \in Nat, NEW hi \in Nat, lo < hi
  PROVE  LET m == MissingGaps(segments, lo, hi)
             z == NormalizeSegments(segments)
         IN  /\ m \in Seq(Gap) /\ Spaced(m)
             /\ \A i \in 1..Len(m) : lo <= m[i].lo /\ m[i].hi <= hi
             /\ \A t \in Nat : Over(m, t) <=> lo <= t /\ t < hi /\ ~Over(z, t)
<1> DEFINE g == Gaps(segments, lo, hi)
           T == {x \in ToSet(g) : x.status = "missing"}
           m == Only(g, T)
           z == NormalizeSegments(segments)
<1>1. /\ g \in Seq(Gap) /\ Apart(g) /\ StartFrom(g, lo) /\ EndBefore(g, hi + 1)
      /\ \A t \in Nat : Misses(g, t) <=> lo <= t /\ t < hi /\ ~Over(z, t)
  BY GapsAre
<1>2. MissingGaps(segments, lo, hi) = m
  BY DEF MissingGaps
<1> HIDE DEF g, z
<1>3. \A i \in 1..Len(g) : Missing(g[i]) <=> g[i] \in T
  BY <1>1 DEF Missing, ToSet
<1> HIDE DEF T
<1>4. m \in Seq(Gap) /\ \E at : KeptFrom(at, m, g, T, Len(g))
  BY <1>1, OnlyIs
<1>5. PICK at : KeptFrom(at, m, g, T, Len(g))
  BY <1>4
<1> HIDE DEF m
<1>6. \A i \in 1..Len(m) : at[i] \in 1..Len(g) /\ m[i] = g[at[i]] /\ Missing(g[at[i]])
  BY <1>3, <1>5 DEF KeptFrom
<1>7. Spaced(m)
  <2>1. \A i, j \in 1..Len(m) : i < j => at[i] < at[j]
    BY <1>5 DEF KeptFrom
  <2> QED BY <1>1, <1>6, <2>1 DEF Spaced, Apart
<1>8. \A i \in 1..Len(m) : lo <= m[i].lo /\ m[i].hi <= hi
  <2>1. \A i \in 1..Len(m) : lo <= m[i].lo /\ m[i].hi < hi + 1 /\ m[i].hi \in Nat
    BY <1>1, <1>4, <1>6, ElementOfSeq, GapFields DEF StartFrom, EndBefore
  <2> QED BY <2>1
<1>9. \A t \in Nat : Over(m, t) <=> Misses(g, t)
  <2>1. ASSUME NEW t \in Nat, NEW i \in 1..Len(g), Missing(g[i]), t \in Instants(g[i])
        PROVE  Over(m, t)
    <3>1. PICK k \in 1..Len(m) : at[k] = i
      BY <1>3, <1>5, <2>1 DEF KeptFrom
    <3> QED BY <1>6, <2>1, <3>1 DEF Over
  <2> QED BY <1>6, <2>1 DEF Over, Misses
<1> QED BY <1>1, <1>2, <1>4, <1>7, <1>8, <1>9 DEF z

LEMMA FlattenAppend ==
  ASSUME NEW A, NEW s \in Seq(Seq(A)), NEW x \in Seq(A)
  PROVE  FlattenSeq(Append(s, x)) = FlattenSeq(s) \o x
<1> DEFINE q == Append(s, x)
           n == Len(s)
<1>1. /\ n \in Nat /\ q \in Seq(Seq(A)) /\ Len(q) = n + 1
      /\ \A i \in 1..n : q[i] = s[i]
      /\ q[n + 1] = x
  OBVIOUS
<1> HIDE DEF q
<1>2. PICK F \in [0..n -> Seq(A)] :
           /\ F[0] = <<>>
           /\ \A k \in 1..n : F[k] = F[k-1] \o s[k]
           /\ FlattenSeq(s) = F[n]
  BY FlattenTrace
<1>3. PICK G \in [0..Len(q) -> Seq(A)] :
           /\ G[0] = <<>>
           /\ \A k \in 1..Len(q) : G[k] = G[k-1] \o q[k]
           /\ FlattenSeq(q) = G[Len(q)]
  BY <1>1, FlattenTrace
<1> DEFINE T == {k \in 0..n : G[k] = F[k]}
<1>4. 0 \in T
  BY <1>1, <1>2, <1>3
<1>5. ASSUME NEW k \in 1..n, k - 1 \in T PROVE k \in T
  <2>1. k \in 1..Len(q) /\ k \in 0..n
    BY <1>1
  <2>2. G[k] = G[k-1] \o q[k] /\ F[k] = F[k-1] \o s[k] /\ q[k] = s[k]
    BY <1>1, <1>2, <1>3, <2>1
  <2>3. G[k-1] = F[k-1]
    BY <1>5
  <2>4. G[k] = F[k]
    BY <2>2, <2>3
  <2> QED BY <2>1, <2>4
<1> HIDE DEF T
<1>6. n \in 0..n
  BY <1>1
<1>7. n \in T
  BY <1>1, <1>4, <1>5, <1>6, Climb
<1>8. G[n] = F[n]
  BY <1>7 DEF T
<1>9. n + 1 \in 1..Len(q) /\ (n + 1) - 1 = n
  BY <1>1
<1>10. G[n + 1] = G[(n + 1) - 1] \o q[n + 1]
  BY <1>3, <1>9
<1> QED BY <1>1, <1>2, <1>3, <1>8, <1>9, <1>10 DEF q

-----------------------------------------------------------------------------
(* Fetch windows.                                                          *)

LEMMA GapsOfIs ==
  ASSUME NEW w \in Seq(Fetch)
  PROVE  GapsOf(w) \in Seq(Seq(Gap)) /\ Len(GapsOf(w)) = Len(w)
<1>1. Len(w) \in Nat /\ DOMAIN w = 1..Len(w) /\ \A i \in 1..Len(w) : w[i] \in Fetch
  BY ElementOfSeq
<1>2. \A i \in 1..Len(w) : w[i].gaps \in Seq(Gap)
  BY <1>1 DEF Fetch
<1> DEFINE g == [i \in 1..Len(w) |-> w[i].gaps]
<1>3. GapsOf(w) = g
  BY <1>1 DEF GapsOf
<1>4. g \in Seq(Seq(Gap)) /\ Len(g) = Len(w)
  BY <1>1, <1>2
<1> QED BY <1>3, <1>4

LEMMA GapsOfAppend ==
  ASSUME NEW w \in Seq(Fetch), NEW x \in Fetch
  PROVE  AllGaps(Append(w, x)) = AllGaps(w) \o x.gaps
<1> DEFINE q == Append(w, x)
<1>1. /\ Len(w) \in Nat /\ q \in Seq(Fetch) /\ Len(q) = Len(w) + 1
      /\ \A i \in 1..Len(w) : q[i] = w[i]
      /\ q[Len(w) + 1] = x
      /\ x.gaps \in Seq(Gap)
  BY DEF Fetch
<1> HIDE DEF q
<1>2. GapsOf(w) \in Seq(Seq(Gap)) /\ Len(GapsOf(w)) = Len(w)
      /\ GapsOf(q) \in Seq(Seq(Gap)) /\ Len(GapsOf(q)) = Len(w) + 1
  BY <1>1, GapsOfIs
<1>3. \A i \in 1..Len(w) : GapsOf(w)[i] = w[i].gaps
  BY <1>1 DEF GapsOf
<1>4. \A i \in 1..(Len(w) + 1) : GapsOf(q)[i] = q[i].gaps
  BY <1>1 DEF GapsOf
<1> DEFINE a == Append(GapsOf(w), x.gaps)
<1>5. /\ a \in Seq(Seq(Gap)) /\ Len(a) = Len(w) + 1
      /\ \A i \in 1..Len(w) : a[i] = GapsOf(w)[i]
      /\ a[Len(w) + 1] = x.gaps
  BY <1>1, <1>2
<1> HIDE DEF a
<1>6. \A i \in 1..(Len(w) + 1) : i \in 1..Len(w) \/ i = Len(w) + 1
  BY <1>1
<1>7. \A i \in 1..(Len(w) + 1) : GapsOf(q)[i] = a[i]
  BY <1>1, <1>3, <1>4, <1>5, <1>6
<1>8. GapsOf(q) = a
  BY <1>2, <1>5, <1>7, SeqEqual
<1>9. FlattenSeq(Append(GapsOf(w), x.gaps)) = FlattenSeq(GapsOf(w)) \o x.gaps
  BY <1>1, <1>2, FlattenAppend
<1> QED BY <1>8, <1>9 DEF AllGaps, q, a

\* The gaps of all windows are the gaps of each.
LEMMA AllGapsTyped ==
  ASSUME NEW w \in Seq(Fetch)
  PROVE  /\ AllGaps(w) \in Seq(Gap)
         /\ \A x : Has(AllGaps(w), x) <=> \E k \in 1..Len(w) : Has(w[k].gaps, x)
<1>1. GapsOf(w) \in Seq(Seq(Gap)) /\ Len(GapsOf(w)) = Len(w)
  BY GapsOfIs
<1>2. \A k \in 1..Len(w) : GapsOf(w)[k] = w[k].gaps
  BY DEF GapsOf
<1> DEFINE s == GapsOf(w)
<1> HIDE DEF s
<1>3. /\ FlattenSeq(s) \in Seq(Gap)
      /\ \A x : Has(FlattenSeq(s), x) <=> \E k \in 1..Len(s) : Has(s[k], x)
  BY <1>1, FlattenHas DEF s
<1> QED BY <1>1, <1>2, <1>3 DEF s, AllGaps

LEMMA FetchMade ==
  ASSUME NEW g \in Seq(Gap), g # <<>>
  PROVE  /\ FetchWindow(g) \in Fetch /\ FetchWindow(g).gaps = g
         /\ FetchWindow(g).lo = g[1].lo /\ FetchWindow(g).hi = Last(g).hi
         /\ FetchWindow(g).lo \in Nat /\ FetchWindow(g).hi \in Nat
<1>1. Len(g) \in Nat \ {0}
  OBVIOUS
<1>2. g[1] \in Gap /\ Last(g) \in Gap
  <2>1. 1 \in 1..Len(g) /\ Len(g) \in 1..Len(g)
    BY <1>1
  <2> QED BY <2>1, ElementOfSeq DEF Last
<1>3. g[1].lo \in Nat /\ Last(g).hi \in Nat
  BY <1>2, GapFields
<1> QED BY <1>3 DEF FetchWindow, Fetch

LEMMA FetchFields ==
  ASSUME NEW w \in Fetch
  PROVE  /\ w.lo \in Nat /\ w.hi \in Nat /\ w.gaps \in Seq(Gap) /\ w.gaps # <<>>
         /\ w.lo = w.gaps[1].lo /\ w.hi = Last(w.gaps).hi
BY DEF Fetch

\* One gap more in the windows to fetch.
Fetched(b, windows, gap) ==
  IF windows # <<>> /\ Fits(b, Last(windows), gap)
  THEN Append(Front(windows), FetchWindow(Append(Last(windows).gaps, gap)))
  ELSE Append(windows, FetchWindow(<<gap>>))

\* A gap joins the open window or starts the next; no gap is lost.
LEMMA FetchedIs ==
  ASSUME NEW b, NEW m \in Seq(Fetch), NEW x \in Gap
  PROVE  LET r == Fetched(b, m, x) IN
         /\ r \in Seq(Fetch) /\ r # <<>> /\ Last(r).hi = x.hi
         /\ AllGaps(r) = Append(AllGaps(m), x)
         /\ (\A i \in 1..Len(m) : Narrow(b, m[i])) => \A i \in 1..Len(r) : Narrow(b, r[i])
         /\ (m # <<>> => Last(m).hi < x.lo) /\ (\A i \in 1..Len(m) : Holds(m[i]))
              => \A i \in 1..Len(r) : Holds(r[i])
<1> DEFINE n == Len(m)
           r == Fetched(b, m, x)
<1>0. x.lo \in Nat /\ x.hi \in Nat /\ x.lo < x.hi
  BY GapFields
<1>1. CASE m # <<>> /\ Fits(b, Last(m), x)
  <2> DEFINE l == m[n]
             g == Append(l.gaps, x)
             y == FetchWindow(g)
             k == Len(l.gaps)
  <2>1. n \in Nat \ {0} /\ l \in Fetch /\ Last(m) = l
    BY <1>1, ElementOfSeq DEF Last
  <2>2. /\ l.lo \in Nat /\ l.hi \in Nat /\ l.gaps \in Seq(Gap) /\ l.gaps # <<>>
        /\ l.lo = l.gaps[1].lo /\ l.hi = Last(l.gaps).hi
    BY <2>1, FetchFields
  <2>3. r = Append(Front(m), y)
    BY <1>1, <2>1 DEF Fetched
  <2>4. x.hi <= AdvanceBars(b, l.lo, WindowBars)
    BY <1>1, <2>1 DEF Fits
  <2>12. n \in 1..n /\ l = m[n]
    BY <2>1
  <2> HIDE DEF l
  <2>5. /\ k \in Nat \ {0} /\ g \in Seq(Gap) /\ Len(g) = k + 1 /\ g # <<>>
        /\ \A i \in 1..k : g[i] = l.gaps[i]
        /\ g[k + 1] = x
    BY <2>2
  <2>6. g[1] = l.gaps[1] /\ Last(g) = x
    BY <2>5 DEF Last
  <2> HIDE DEF g
  <2>7. y \in Fetch /\ y.gaps = g /\ y.lo = l.lo /\ y.hi = x.hi
    BY <2>2, <2>5, <2>6, FetchMade
  <2> HIDE DEF y, r
  <2>8. /\ r \in Seq(Fetch) /\ Len(r) = n
        /\ \A i \in 1..(n - 1) : r[i] = m[i]
        /\ r[n] = y
    BY <1>1, <2>3, <2>7, FrontIs
  <2>9. AllGaps(r) = Append(AllGaps(m), x)
    <3> DEFINE f == Front(m)
               o == Append(f, l)
    <3>1. /\ o \in Seq(Fetch) /\ Len(o) = n
          /\ \A i \in 1..(n - 1) : o[i] = m[i]
          /\ o[n] = l
      BY <1>1, <2>1, FrontIs
    <3>2. f \in Seq(Fetch)
      <4>1. 1 \in Int /\ n - 1 \in Int /\ \A i \in 1..(n - 1) : m[i] \in Fetch
        <5>1. \A i \in 1..n : m[i] \in Fetch
          BY ElementOfSeq
        <5>2. \A i \in 1..(n - 1) : i \in 1..n
          BY <2>1
        <5> QED BY <2>1, <5>1, <5>2
      <4> QED BY <4>1, SubSeqProperties DEF Front
    <3> HIDE DEF o, f
    <3>3. \A i \in 1..n : i \in 1..(n - 1) \/ i = n
      BY <2>1
    <3>4. o = m
      <4>1. \A i \in 1..n : o[i] = m[i]
        BY <2>12, <3>1, <3>3
      <4> QED BY <3>1, <4>1, SeqEqual
    <3>5. AllGaps(m) = AllGaps(f) \o l.gaps
      BY <2>1, <3>2, <3>4, GapsOfAppend DEF o
    <3>6. AllGaps(r) = AllGaps(f) \o g
      BY <2>3, <2>7, <3>2, GapsOfAppend DEF f
    <3>7. AllGaps(f) \in Seq(Gap)
      BY <3>2, AllGapsTyped
    <3> DEFINE p == AllGaps(f)
               q == l.gaps
    <3>8. p \in Seq(Gap) /\ q \in Seq(Gap)
      BY <2>2, <3>7
    <3>9. AllGaps(m) = p \o q /\ AllGaps(r) = p \o Append(q, x)
      BY <3>5, <3>6 DEF g
    <3> HIDE DEF p, q
    <3>10. Append(q, x) = q \o <<x>> /\ Append(p \o q, x) = (p \o q) \o <<x>>
           /\ <<x>> \in Seq(Gap)
      BY <3>8, AppendIsConcat
    <3>11. (p \o q) \o <<x>> = p \o (q \o <<x>>)
      BY <3>8, <3>10, ConcatAssociative
    <3> QED BY <3>9, <3>10, <3>11
  <2>10. ASSUME \A i \in 1..n : Narrow(b, m[i]), NEW i \in 1..n
         PROVE  Narrow(b, r[i])
    <3>1. CASE i = n
      BY <2>4, <2>7, <2>8, <3>1 DEF Narrow
    <3>2. CASE i # n
      BY <2>8, <2>10, <3>2
    <3> QED BY <3>1, <3>2
  <2>11. ASSUME m # <<>> => Last(m).hi < x.lo, \A i \in 1..n : Holds(m[i]), NEW i \in 1..n
         PROVE  Holds(r[i])
    <3>1. CASE i = n
      <4>1. Holds(l) /\ l.hi < x.lo
        BY <1>1, <2>1, <2>11, <2>12
      <4>2. ASSUME NEW j \in 1..(k + 1)
            PROVE  y.lo <= g[j].lo /\ g[j].hi <= y.hi
        <5>1. CASE j \in 1..k
          <6>1. l.gaps[j].hi \in Nat /\ l.gaps[j].lo \in Nat
            BY <2>2, <5>1, ElementOfSeq, GapFields
          <6>2. l.lo <= l.gaps[j].lo /\ l.gaps[j].hi <= l.hi
            BY <4>1, <5>1 DEF Holds
          <6>3. g[j] = l.gaps[j]
            BY <2>5, <5>1
          <6>4. l.gaps[j].hi <= x.hi
            BY <1>0, <2>2, <4>1, <6>1, <6>2, SMTT(30)
          <6> QED BY <2>7, <6>2, <6>3, <6>4
        <5>2. CASE j = k + 1
          <6>1. 1 \in 1..k /\ l.gaps[1].lo \in Nat /\ l.gaps[1].hi \in Nat /\ l.gaps[1].lo < l.gaps[1].hi
            <7>1. 1 \in 1..k
              BY <2>5
            <7> QED BY <2>2, <7>1, ElementOfSeq, GapFields
          <6>2. l.gaps[1].hi <= l.hi
            BY <4>1, <6>1 DEF Holds
          <6>3. l.lo <= x.lo
            BY <1>0, <2>2, <4>1, <6>1, <6>2
          <6> QED BY <1>0, <2>5, <2>7, <5>2, <6>3
        <5> QED BY <2>5, <5>1, <5>2
      <4> QED BY <2>5, <2>7, <2>8, <3>1, <4>2 DEF Holds
    <3>2. CASE i # n
      BY <2>8, <2>11, <3>2
    <3> QED BY <3>1, <3>2
  <2>13. r # <<>> /\ Last(r).hi = x.hi
    BY <2>1, <2>7, <2>8 DEF Last
  <2> QED BY <2>8, <2>9, <2>10, <2>11, <2>13 DEF r
<1>2. CASE ~(m # <<>> /\ Fits(b, Last(m), x))
  <2> DEFINE y == FetchWindow(<<x>>)
  <2>1. <<x>> \in Seq(Gap) /\ <<x>> # <<>> /\ <<x>>[1] = x /\ Last(<<x>>) = x /\ Len(<<x>>) = 1
    BY DEF Last
  <2>2. y \in Fetch /\ y.gaps = <<x>> /\ y.lo = x.lo /\ y.hi = x.hi
    BY <2>1, FetchMade
  <2>3. r = Append(m, y)
    BY <1>2 DEF Fetched
  <2> HIDE DEF y, r
  <2>4. /\ n \in Nat /\ r \in Seq(Fetch) /\ Len(r) = n + 1
        /\ \A i \in 1..n : r[i] = m[i]
        /\ r[n + 1] = y
    BY <2>2, <2>3
  <2>5. AllGaps(r) = Append(AllGaps(m), x)
    <3>1. AllGaps(m) \in Seq(Gap)
      BY AllGapsTyped
    <3>2. AllGaps(r) = AllGaps(m) \o <<x>>
      BY <2>2, <2>3, GapsOfAppend
    <3> QED BY <3>1, <3>2, AppendIsConcat
  <2>6. \A i \in 1..(n + 1) : i \in 1..n \/ i = n + 1
    BY <2>4
  <2>7. Narrow(b, y)
    BY <2>1, <2>2 DEF Narrow
  <2>8. Holds(y)
    BY <1>0, <2>1, <2>2 DEF Holds
  <2>9. (\A i \in 1..n : Narrow(b, m[i])) => \A i \in 1..Len(r) : Narrow(b, r[i])
    BY <2>4, <2>6, <2>7
  <2>10. (\A i \in 1..n : Holds(m[i])) => \A i \in 1..Len(r) : Holds(r[i])
    BY <2>4, <2>6, <2>8
  <2>11. r # <<>> /\ Last(r).hi = x.hi
    BY <2>2, <2>4 DEF Last
  <2> QED BY <2>4, <2>5, <2>9, <2>10, <2>11 DEF r
<1> QED BY <1>1, <1>2

LEMMA FetchTrace ==
  ASSUME NEW b, NEW s \in Seq(Gap)
  PROVE  \E F : /\ F[0] = <<>>
                /\ \A k \in 1..Len(s) : F[k] = Fetched(b, F[k-1], s[k])
                /\ CoalesceFetchRanges(b, s) = F[Len(s)]
<1> DEFINE step == [i \in 1..Len(s) |-> [v \in Seq(Fetch) |-> Fetched(b, v, s[i])]]
<1>0. Len(s) \in Nat /\ DOMAIN s = 1..Len(s)
  OBVIOUS
<1>1. step \in [1..Len(s) -> [Seq(Fetch) -> Seq(Fetch)]] /\ <<>> \in Seq(Fetch)
  <2>1. ASSUME NEW i \in 1..Len(s), NEW v \in Seq(Fetch)
        PROVE  Fetched(b, v, s[i]) \in Seq(Fetch)
    <3>1. s[i] \in Gap
      OBVIOUS
    <3> QED BY <3>1, FetchedIs
  <2> QED BY <2>1
<1>2. PICK g \in [SUBSET (1..Len(s)) -> Seq(Fetch)] : Iterates(g, Len(s), <<>>, step)
  <2> HIDE DEF step
  <2> QED BY <1>0, <1>1, IterExists
<1>3. \A t \in SUBSET (1..Len(s)) :
        t # {} => Max(t) \in 1..Len(s) /\ t \ {Max(t)} \in SUBSET (1..Len(s))
  BY <1>0, TopAndRest
<1>4. g = [t \in SUBSET DOMAIN s |->
             IF t = {} THEN <<>> ELSE Fetched(b, g[t \ {Max(t)}], s[Max(t)])]
  BY <1>0, <1>2, <1>3 DEF Iterates
<1>5. PICK f : /\ f = [t \in SUBSET DOMAIN s |->
                         IF t = {} THEN <<>> ELSE Fetched(b, f[t \ {Max(t)}], s[Max(t)])]
               /\ CoalesceFetchRanges(b, s) = f[DOMAIN s]
  <2> DEFINE f == CHOOSE f : f = [t \in SUBSET DOMAIN s |->
                         IF t = {} THEN <<>> ELSE Fetched(b, f[t \ {Max(t)}], s[Max(t)])]
  <2>1. f = [t \in SUBSET DOMAIN s |->
                         IF t = {} THEN <<>> ELSE Fetched(b, f[t \ {Max(t)}], s[Max(t)])]
    BY <1>4, Zenon
  <2>2. CoalesceFetchRanges(b, s) = f[DOMAIN s]
    BY DEF CoalesceFetchRanges, FoldLeft, MapThenFoldSet, Fetched
  <2> QED BY <2>1, <2>2, Zenon
<1> DEFINE F == [k \in 0..Len(s) |-> f[1..k]]
<1>6. F[0] = <<>> /\ F[Len(s)] = f[DOMAIN s]
  BY <1>0, <1>5
<1>7. ASSUME NEW k \in 1..Len(s)
      PROVE  F[k] = Fetched(b, F[k-1], s[k])
  <2>1. Max(1..k) = k /\ (1..k) \ {k} = 1..(k - 1) /\ 1..k # {}
    <3>1. k \in Nat \ {0}
      OBVIOUS
    <3> QED BY <3>1, TopOf
  <2>2. 1..k \in SUBSET DOMAIN s /\ k - 1 \in 0..Len(s) /\ k \in 0..Len(s)
    BY <1>0
  <2> QED BY <1>5, <2>1, <2>2
<1> HIDE DEF F
<1> QED BY <1>5, <1>6, <1>7

\* The fetch windows hold exactly the gaps they were made for, in order.
LEMMA FetchRangesAre ==
  ASSUME NEW b, NEW g \in Seq(Gap), Spaced(g)
  PROVE  LET w == CoalesceFetchRanges(b, g) IN
         /\ w \in Seq(Fetch) /\ AllGaps(w) = g
         /\ \A i \in 1..Len(w) : Holds(w[i]) /\ Narrow(b, w[i])
<1>1. PICK F : /\ F[0] = <<>>
               /\ \A k \in 1..Len(g) : F[k] = Fetched(b, F[k-1], g[k])
               /\ CoalesceFetchRanges(b, g) = F[Len(g)]
  BY FetchTrace
<1>2. Len(g) \in Nat /\ \A i \in 1..Len(g) : g[i] \in Gap
  BY ElementOfSeq
<1> DEFINE S == {k \in 0..Len(g) :
                   /\ F[k] \in Seq(Fetch)
                   /\ AllGaps(F[k]) = SubSeq(g, 1, k)
                   /\ k > 0 => F[k] # <<>> /\ Last(F[k]).hi = g[k].hi
                   /\ \A i \in 1..Len(F[k]) : Holds(F[k][i]) /\ Narrow(b, F[k][i])}
<1>3. 0 \in S
  <2>1. 0 \in 0..Len(g) /\ <<>> \in Seq(Fetch) /\ ~(0 > 0) /\ 1..Len(<<>>) = {}
    BY <1>2
  <2>2. AllGaps(<<>>) = <<>>
    <3>1. GapsOf(<<>>) = <<>>
      BY DEF GapsOf
    <3> QED BY <3>1 DEF AllGaps, FlattenSeq
  <2>3. SubSeq(g, 1, 0) = <<>>
    BY SubSeqEmpty
  <2> QED BY <1>1, <2>1, <2>2, <2>3
<1>4. ASSUME NEW k \in 1..Len(g), k - 1 \in S PROVE k \in S
  <2> DEFINE m == F[k-1]
             x == g[k]
             r == Fetched(b, m, x)
  <2>1. m \in Seq(Fetch) /\ x \in Gap /\ F[k] = r /\ k \in 0..Len(g)
    BY <1>1, <1>2, <1>4
  <2>2. AllGaps(m) = SubSeq(g, 1, k - 1)
        /\ \A i \in 1..Len(m) : Holds(m[i]) /\ Narrow(b, m[i])
    BY <1>4
  <2>3. m # <<>> => Last(m).hi < x.lo
    <3>1. CASE k = 1
      BY <1>1, <3>1
    <3>2. CASE k > 1
      <4>1. k - 1 > 0 /\ k - 1 \in 1..Len(g) /\ k - 1 < k
        BY <3>2
      <4>2. Last(m).hi = g[k-1].hi
        BY <1>4, <4>1
      <4> QED BY <4>1, <4>2 DEF Spaced
    <3> QED BY <3>1, <3>2
  <2>4. SubSeq(g, 1, k) = Append(SubSeq(g, 1, k - 1), x)
    BY <1>2, SubSeqRecursiveSecond
  <2>x. x = g[k]
    OBVIOUS
  <2> HIDE DEF m, x, r
  <2>5. /\ r \in Seq(Fetch) /\ r # <<>> /\ Last(r).hi = x.hi
        /\ AllGaps(r) = Append(AllGaps(m), x)
        /\ (\A i \in 1..Len(m) : Narrow(b, m[i])) => \A i \in 1..Len(r) : Narrow(b, r[i])
        /\ (m # <<>> => Last(m).hi < x.lo) /\ (\A i \in 1..Len(m) : Holds(m[i]))
              => \A i \in 1..Len(r) : Holds(r[i])
    BY <2>1, FetchedIs DEF r
  <2>6. AllGaps(r) = SubSeq(g, 1, k)
    BY <2>2, <2>4, <2>5
  <2>7. \A i \in 1..Len(r) : Holds(r[i]) /\ Narrow(b, r[i])
    BY <2>2, <2>3, <2>5
  <2> QED BY <2>1, <2>5, <2>6, <2>7, <2>x
<1> HIDE DEF S
<1>5. Len(g) \in 0..Len(g)
  BY <1>2
<1>6. Len(g) \in S
  BY <1>2, <1>3, <1>4, <1>5, Climb
<1>7. SubSeq(g, 1, Len(g)) = g
  BY SubSeqFull
<1> QED BY <1>1, <1>6, <1>7 DEF S

LEMMA WindowPerGapIs ==
  ASSUME NEW g \in Seq(Gap), Spaced(g)
  PROVE  LET w == WindowPerGap(g) IN
         /\ w \in Seq(Fetch) /\ AllGaps(w) = g
         /\ \A i \in 1..Len(w) : Holds(w[i]) /\ Len(w[i].gaps) = 1
<1> DEFINE w == [i \in 1..Len(g) |-> FetchWindow(<<g[i]>>)]
<1>1. /\ Len(g) \in Nat /\ DOMAIN g = 1..Len(g)
      /\ \A i \in 1..Len(g) : g[i] \in Gap
  BY ElementOfSeq
<1>2. WindowPerGap(g) = w
  BY <1>1 DEF WindowPerGap
<1>3. ASSUME NEW i \in 1..Len(g)
      PROVE  /\ w[i] \in Fetch /\ w[i].gaps = <<g[i]>>
             /\ Holds(w[i]) /\ Len(w[i].gaps) = 1
  <2> DEFINE x == g[i]
  <2>1. x \in Gap
    BY <1>1
  <2>2. w[i] = FetchWindow(<<x>>)
    OBVIOUS
  <2> HIDE DEF x, w
  <2>3. <<x>> \in Seq(Gap) /\ <<x>> # <<>> /\ <<x>>[1] = x /\ Last(<<x>>) = x /\ Len(<<x>>) = 1
    BY <2>1 DEF Last
  <2>4. w[i] \in Fetch /\ w[i].gaps = <<x>> /\ w[i].lo = x.lo /\ w[i].hi = x.hi
    BY <2>2, <2>3, FetchMade
  <2>5. Holds(w[i])
    <3>1. x.lo \in Nat /\ x.hi \in Nat
      BY <2>1, GapFields
    <3> QED BY <2>3, <2>4, <3>1 DEF Holds
  <2> QED BY <2>3, <2>4, <2>5 DEF x
<1>4. w \in Seq(Fetch) /\ Len(w) = Len(g)
  BY <1>1, <1>3
<1> HIDE DEF w
<1>5. AllGaps(w) = g
  <2> DEFINE s == GapsOf(w)
  <2>1. s \in Seq(Seq(Gap)) /\ Len(s) = Len(g)
    BY <1>4, GapsOfIs
  <2>2. \A i \in 1..Len(g) : s[i] = <<g[i]>>
    BY <1>3, <1>4 DEF GapsOf
  <2>3. AllGaps(w) = FlattenSeq(s)
    BY DEF AllGaps
  <2> HIDE DEF s
  <2>4. PICK F \in [0..Len(s) -> Seq(Gap)] :
           /\ F[0] = <<>>
           /\ \A k \in 1..Len(s) : F[k] = F[k-1] \o s[k]
           /\ FlattenSeq(s) = F[Len(s)]
    BY <2>1, FlattenTrace
  <2> DEFINE T == {k \in 0..Len(g) : F[k] = SubSeq(g, 1, k)}
  <2>5. 0 \in T
    <3>1. SubSeq(g, 1, 0) = <<>> /\ 0 \in 0..Len(g)
      BY <1>1, SubSeqEmpty
    <3> QED BY <2>4, <3>1
  <2>6. ASSUME NEW k \in 1..Len(g), k - 1 \in T PROVE k \in T
    <3>1. SubSeq(g, 1, k) = Append(SubSeq(g, 1, k - 1), g[k])
      BY <1>1, SubSeqRecursiveSecond
    <3>2. F[k] = F[k-1] \o <<g[k]>>
      BY <2>1, <2>2, <2>4
    <3>3. F[k-1] = SubSeq(g, 1, k - 1) /\ F[k-1] \in Seq(Gap) /\ g[k] \in Gap
      <4>1. k - 1 \in 0..Len(s)
        BY <2>1
      <4> QED BY <1>1, <2>6, <4>1
    <3>4. F[k-1] \o <<g[k]>> = Append(F[k-1], g[k])
      BY <3>3, AppendIsConcat
    <3>5. F[k] = SubSeq(g, 1, k)
      BY <3>1, <3>2, <3>3, <3>4
    <3> QED BY <3>5
  <2> HIDE DEF T
  <2>7. Len(g) \in 0..Len(g)
    BY <1>1
  <2>8. Len(g) \in T
    BY <1>1, <2>5, <2>6, <2>7, Climb
  <2>9. SubSeq(g, 1, Len(g)) = g
    BY SubSeqFull
  <2> QED BY <2>1, <2>3, <2>4, <2>8, <2>9 DEF T
<1> QED BY <1>2, <1>3, <1>4, <1>5

-----------------------------------------------------------------------------
(* What an observation proves.                                             *)

\* Two facts with the same instants of each status.
Says(s, t, in, there) ==
  /\ Shows(s, t, "available") <=> in /\ there
  /\ Shows(s, t, "unavailable") <=> in /\ ~there

\* Choosing among facts by their status keeps all of those.
LEMMA ChosenShow ==
  ASSUME NEW f \in Seq(Fact), NEW T, NEW status,
         \A i \in 1..Len(f) : f[i] \in T <=> f[i].status = status
  PROVE  /\ Only(f, T) \in Seq(Fact)
         /\ \A t, s : Shows(Only(f, T), t, s) <=> s = status /\ Shows(f, t, s)
<1> DEFINE r == Only(f, T)
<1>1. r \in Seq(Fact) /\ \E at : KeptFrom(at, r, f, T, Len(f))
  BY OnlyIs
<1>2. PICK at : KeptFrom(at, r, f, T, Len(f))
  BY <1>1
<1> HIDE DEF r
<1>3. \A i \in 1..Len(r) : at[i] \in 1..Len(f) /\ r[i] = f[at[i]] /\ r[i].status = status
  BY <1>2 DEF KeptFrom
<1>4. \A k \in 1..Len(f) : f[k].status = status => \E i \in 1..Len(r) : r[i] = f[k]
  BY <1>2 DEF KeptFrom
<1>5. ASSUME NEW t, NEW s PROVE Shows(r, t, s) <=> s = status /\ Shows(f, t, s)
  BY <1>3, <1>4 DEF Shows
<1> QED BY <1>1, <1>5 DEF r

\* evaluate_observation_coverage states every observed instant of the window,
\* by its bar, and no other.
LEMMA ObservationIs ==
  ASSUME NEW h \in Nat, NEW b, IsGrid(b, h), NEW lo \in 0..h, NEW hi \in 0..h,
         NEW present, NEW observed \in Seq(Span)
  PROVE  /\ ObservationSegments(b, lo, hi, present, observed) \in Seq(Fact)
         /\ \A t \in Nat :
              Says(ObservationSegments(b, lo, hi, present, observed), t,
                   lo <= t /\ t < hi /\ Over(observed, t), Floor(b, t) \in present)
<1> DEFINE T == {w \in ToSet(observed) : Larger(lo, w.lo) < Smaller(hi, w.hi)}
           inside == Only(observed, T)
           from(i) == Larger(lo, inside[i].lo)
           to(i) == Smaller(hi, inside[i].hi)
           parts == [i \in 1..Len(inside) |-> ClippedBars(b, from(i), to(i), present)]
           all == FlattenSeq(parts)
           f == Coalesce(all)
           in(t) == lo <= t /\ t < hi /\ Over(observed, t)
           there(t) == Floor(b, t) \in present
<1>0. \A i \in 1..Len(observed) : observed[i] \in T <=>
           Larger(lo, observed[i].lo) < Smaller(hi, observed[i].hi)
  BY DEF ToSet
<1> HIDE DEF T
<1>1. inside \in Seq(Span) /\ \E at : KeptFrom(at, inside, observed, T, Len(observed))
  BY OnlyIs
<1>2. PICK at : KeptFrom(at, inside, observed, T, Len(observed))
  BY <1>1
<1>3. ObservationSegments(b, lo, hi, present, observed) =
        Only(f, {x \in ToSet(f) : x.status = "available"})
          \o Only(f, {x \in ToSet(f) : x.status # "available"})
  <2>1. DOMAIN inside = 1..Len(inside)
    BY <1>1
  <2> QED BY <2>1 DEF ObservationSegments, T
<1> HIDE DEF inside
<1>4. /\ Len(inside) \in Nat
      /\ \A i \in 1..Len(inside) :
           /\ inside[i] \in Span /\ at[i] \in 1..Len(observed) /\ inside[i] = observed[at[i]]
           /\ Larger(lo, inside[i].lo) < Smaller(hi, inside[i].hi)
      /\ \A k \in 1..Len(observed) :
           Larger(lo, observed[k].lo) < Smaller(hi, observed[k].hi)
             => \E i \in 1..Len(inside) : inside[i] = observed[k]
  <2>1. Len(inside) \in Nat /\ \A i \in 1..Len(inside) : inside[i] \in Span
    BY <1>1, ElementOfSeq
  <2>2. \A i \in 1..Len(inside) : /\ at[i] \in 1..Len(observed) /\ inside[i] = observed[at[i]]
                                  /\ observed[at[i]] \in T
    BY <1>2 DEF KeptFrom
  <2>3. \A k \in 1..Len(observed) : observed[k] \in T => \E i \in 1..Len(inside) : at[i] = k
    BY <1>2 DEF KeptFrom
  <2>4. \A i \in 1..Len(inside) : Larger(lo, inside[i].lo) < Smaller(hi, inside[i].hi)
    BY <1>0, <2>2
  <2>5. \A k \in 1..Len(observed) :
           Larger(lo, observed[k].lo) < Smaller(hi, observed[k].hi)
             => \E i \in 1..Len(inside) : inside[i] = observed[k]
    BY <1>0, <2>2, <2>3
  <2>6. Len(inside) \in Nat
    BY <1>1
  <2> QED BY <2>1, <2>2, <2>4, <2>5, <2>6
<1>5. ASSUME NEW i \in 1..Len(inside)
      PROVE  /\ parts[i] \in Seq(Fact)
             /\ \A t \in Nat :
                  Says(parts[i], t, lo <= t /\ t < hi /\ t \in Instants(inside[i]), there(t))
  <2>1. /\ inside[i].lo \in Nat /\ inside[i].hi \in Nat /\ lo \in Nat /\ hi \in Nat
        /\ inside[i].lo < inside[i].hi
    BY <1>4, SpanFields
  <2>2. /\ from(i) \in Nat /\ to(i) \in Nat /\ from(i) < to(i)
        /\ \A t \in Nat : /\ from(i) <= t <=> lo <= t /\ inside[i].lo <= t
                          /\ t < to(i) <=> t < hi /\ t < inside[i].hi
                          /\ t <= to(i) <=> t <= hi /\ t <= inside[i].hi
    <3>1. /\ from(i) \in Nat
          /\ \A t \in Nat : from(i) <= t <=> lo <= t /\ inside[i].lo <= t
      BY <2>1 DEF Larger, Smaller
    <3>2. /\ to(i) \in Nat
          /\ \A t \in Nat : /\ t < to(i) <=> t < hi /\ t < inside[i].hi
                            /\ t <= to(i) <=> t <= hi /\ t <= inside[i].hi
      BY <2>1 DEF Larger, Smaller
    <3>3. from(i) < to(i)
      BY <1>4
    <3> QED BY <3>1, <3>2, <3>3
  <2>3. to(i) \in 0..h
    <3>1. to(i) <= hi
      BY <2>2
    <3> HIDE DEF to
    <3> QED BY <2>2, <3>1
  <2>4. /\ ClippedBars(b, from(i), to(i), present) \in Seq(Fact)
        /\ \A t \in Nat :
             /\ Shows(ClippedBars(b, from(i), to(i), present), t, "available") <=>
                  from(i) <= t /\ t < to(i) /\ Floor(b, t) \in present
             /\ Shows(ClippedBars(b, from(i), to(i), present), t, "unavailable") <=>
                  from(i) <= t /\ t < to(i) /\ Floor(b, t) \notin present
    <3> HIDE DEF from, to
    <3> QED BY <2>2, <2>3, ClippedBarsIs
  <2>5. parts[i] = ClippedBars(b, from(i), to(i), present)
    OBVIOUS
  <2> HIDE DEF from, to, parts
  <2>6. ASSUME NEW t \in Nat
        PROVE  from(i) <= t /\ t < to(i) <=> lo <= t /\ t < hi /\ t \in Instants(inside[i])
    BY <2>1, <2>2 DEF Instants
  <2>7. ASSUME NEW t \in Nat
        PROVE  Says(parts[i], t, lo <= t /\ t < hi /\ t \in Instants(inside[i]), there(t))
    BY <2>4, <2>5, <2>6 DEF Says
  <2> QED BY <2>4, <2>5, <2>7
<1>6. parts \in Seq(Seq(Fact)) /\ Len(parts) = Len(inside)
  <2>1. parts \in [1..Len(inside) -> Seq(Fact)]
    BY <1>5
  <2> HIDE DEF parts
  <2> QED BY <1>4, <2>1
<1> HIDE DEF parts
<1>7. /\ all \in Seq(Fact)
      /\ \A t, status : Shows(all, t, status) <=>
                          \E k \in 1..Len(parts) : Shows(parts[k], t, status)
  BY <1>6, FlattenShows
<1> HIDE DEF all
<1>8. /\ f \in Seq(Fact)
      /\ \A t \in Nat, status \in Statuses : Shows(f, t, status) <=> Shows(all, t, status)
  BY <1>7, CoalesceKeeps
<1> HIDE DEF f
<1>9. ASSUME NEW t \in Nat
      PROVE  in(t) <=> \E k \in 1..Len(inside) : lo <= t /\ t < hi /\ t \in Instants(inside[k])
  <2>1. ASSUME NEW k \in 1..Len(observed), t \in Instants(observed[k]), lo <= t, t < hi
        PROVE  \E i \in 1..Len(inside) : t \in Instants(inside[i])
    <3>1. /\ observed[k].lo \in Nat /\ observed[k].hi \in Nat /\ lo \in Nat /\ hi \in Nat
      BY ElementOfSeq, SpanFields
    <3>2. /\ Larger(lo, observed[k].lo) \in Nat /\ Smaller(hi, observed[k].hi) \in Nat
          /\ Larger(lo, observed[k].lo) <= t <=> lo <= t /\ observed[k].lo <= t
          /\ t < Smaller(hi, observed[k].hi) <=> t < hi /\ t < observed[k].hi
      <4>1. /\ Larger(lo, observed[k].lo) \in Nat
            /\ Larger(lo, observed[k].lo) <= t <=> lo <= t /\ observed[k].lo <= t
        BY <3>1 DEF Larger, Smaller
      <4>2. /\ Smaller(hi, observed[k].hi) \in Nat
            /\ t < Smaller(hi, observed[k].hi) <=> t < hi /\ t < observed[k].hi
        BY <3>1 DEF Larger, Smaller
      <4> QED BY <4>1, <4>2
    <3>3. Larger(lo, observed[k].lo) < Smaller(hi, observed[k].hi)
      BY <2>1, <3>1, <3>2 DEF Instants
    <3> QED BY <1>4, <2>1, <3>3
  <2> QED BY <1>4, <2>1 DEF Over
<1> HIDE DEF in, there
<1>10. ASSUME NEW t \in Nat PROVE Says(f, t, in(t), there(t))
  <2>1. /\ Shows(f, t, "available") <=> Shows(all, t, "available")
        /\ Shows(f, t, "unavailable") <=> Shows(all, t, "unavailable")
    BY <1>8 DEF Statuses
  <2> QED BY <1>5, <1>6, <1>7, <1>9, <2>1 DEF Says
<1> DEFINE A == {x \in ToSet(f) : x.status = "available"}
           U == {x \in ToSet(f) : x.status # "available"}
<1>11. \A i \in 1..Len(f) : f[i] \in A <=> f[i].status = "available"
  BY DEF ToSet
<1>12. \A i \in 1..Len(f) : f[i] \in U <=> f[i].status = "unavailable"
  <2>1. \A i \in 1..Len(f) : f[i].status \in Statuses
    BY <1>8, ElementOfSeq, FactFields
  <2> QED BY <2>1 DEF ToSet, Statuses
<1>13. ObservationSegments(b, lo, hi, present, observed) = Only(f, A) \o Only(f, U)
  BY <1>3 DEF f, all, parts
<1> HIDE DEF A, U
<1>14. /\ Only(f, A) \in Seq(Fact)
       /\ \A t, s : Shows(Only(f, A), t, s) <=> s = "available" /\ Shows(f, t, s)
  BY <1>8, <1>11, ChosenShow
<1>15. /\ Only(f, U) \in Seq(Fact)
       /\ \A t, s : Shows(Only(f, U), t, s) <=> s = "unavailable" /\ Shows(f, t, s)
  BY <1>8, <1>12, ChosenShow
<1> DEFINE p == Only(f, A)
           q == Only(f, U)
<1> HIDE DEF p, q
<1>16. /\ p \o q \in Seq(Fact)
       /\ \A t, s : Shows(p \o q, t, s) <=> Shows(p, t, s) \/ Shows(q, t, s)
  BY <1>14, <1>15, ConcatShows DEF p, q
<1>17. ASSUME NEW t \in Nat PROVE Says(p \o q, t, in(t), there(t))
  <2>1. /\ Shows(p \o q, t, "available") <=> Shows(f, t, "available")
        /\ Shows(p \o q, t, "unavailable") <=> Shows(f, t, "unavailable")
    BY <1>14, <1>15, <1>16 DEF p, q
  <2> QED BY <1>10, <2>1 DEF Says
<1> QED BY <1>13, <1>16, <1>17 DEF p, q, in, there

LEMMA FlattenSays ==
  ASSUME NEW s \in Seq(Seq(Fact)), NEW t, NEW J, NEW x, NEW P,
         \A k \in 1..Len(s) : Says(s[k], t, k \in J, x \in P)
  PROVE  Says(FlattenSeq(s), t, \E k \in 1..Len(s) : k \in J, x \in P)
<1>1. \A status : Shows(FlattenSeq(s), t, status) <=>
                    \E k \in 1..Len(s) : Shows(s[k], t, status)
  BY FlattenShows
<1>2. \A k \in 1..Len(s) : /\ Shows(s[k], t, "available") <=> k \in J /\ x \in P
                           /\ Shows(s[k], t, "unavailable") <=> k \in J /\ x \notin P
  BY DEF Says
<1>3. Shows(FlattenSeq(s), t, "available") <=> (\E k \in 1..Len(s) : k \in J) /\ x \in P
  BY <1>1, <1>2
<1>4. Shows(FlattenSeq(s), t, "unavailable") <=> (\E k \in 1..Len(s) : k \in J) /\ x \notin P
  BY <1>1, <1>2
<1> QED BY <1>3, <1>4 DEF Says

\* The bars of [lo, hi), month by month.
CutFacts(b, lo, hi, present) ==
  LET slices == IF lo < hi THEN MonthSlices(lo, hi) ELSE <<>>
  IN  FlattenSeq([k \in DOMAIN slices |->
        BarSegments(b, slices[k].lo, slices[k].hi, present)])

LEMMA CutFactsAre ==
  ASSUME NEW h \in Nat, NEW b, IsGrid(b, h), NEW lo \in Nat, NEW hi \in 0..h, NEW present
  PROVE  /\ CutFacts(b, lo, hi, present) \in Seq(Fact)
         /\ \A t \in Nat : Says(CutFacts(b, lo, hi, present), t,
                                lo <= t /\ t < hi, Floor(b, t) \in present)
<1> DEFINE m == IF lo < hi THEN MonthSlices(lo, hi) ELSE <<>>
           part == [k \in 1..Len(m) |-> BarSegments(b, m[k].lo, m[k].hi, present)]
<1>1. /\ m \in Seq([lo : Nat, hi : Nat])
      /\ \A i \in 1..Len(m) : lo <= m[i].lo /\ m[i].lo < m[i].hi /\ m[i].hi <= hi
      /\ \A t \in Nat : lo <= t /\ t < hi =>
           \E i \in 1..Len(m) : m[i].lo <= t /\ t < m[i].hi
  <2>1. CASE lo < hi
    <3>1. m = MonthSlices(lo, hi) /\ lo <= hi /\ hi \in Nat
      BY <2>1
    <3> HIDE DEF m
    <3>2. LET n == MonthSlices(lo, hi) IN
          /\ n \in Seq([lo : Nat, hi : Nat])
          /\ \A i \in 1..Len(n) : lo <= n[i].lo /\ n[i].lo < n[i].hi /\ n[i].hi <= hi
          /\ \A t \in Nat : lo <= t /\ t < hi =>
               \E i \in 1..Len(n) : n[i].lo <= t /\ t < n[i].hi
      BY <3>1, MonthSlicesIs
    <3> QED BY <3>1, <3>2
  <2>2. CASE ~(lo < hi)
    <3>1. m = <<>>
      BY <2>2
    <3> HIDE DEF m
    <3> QED BY <2>2, <3>1
  <2> QED BY <2>1, <2>2
<1>2. CutFacts(b, lo, hi, present) = FlattenSeq(part)
  <2>1. DOMAIN m = 1..Len(m)
    BY <1>1
  <2> QED BY <2>1 DEF CutFacts
<1> HIDE DEF m
<1>3. ASSUME NEW k \in 1..Len(m)
      PROVE  /\ BarSegments(b, m[k].lo, m[k].hi, present) \in Seq(Fact)
             /\ \A t \in Nat :
                  /\ Shows(BarSegments(b, m[k].lo, m[k].hi, present), t, "available") <=>
                       m[k].lo <= t /\ t < m[k].hi /\ Floor(b, t) \in present
                  /\ Shows(BarSegments(b, m[k].lo, m[k].hi, present), t, "unavailable") <=>
                       m[k].lo <= t /\ t < m[k].hi /\ Floor(b, t) \notin present
  <2>1. m[k] \in [lo : Nat, hi : Nat]
    BY <1>1, ElementOfSeq
  <2>2. m[k].lo \in Nat /\ m[k].hi \in 0..h /\ m[k].lo < m[k].hi
    BY <1>1, <2>1
  <2> QED BY <2>2, BarSegmentsIs
<1>4. /\ part \in Seq(Seq(Fact)) /\ Len(part) = Len(m)
      /\ \A k \in 1..Len(m) : part[k] = BarSegments(b, m[k].lo, m[k].hi, present)
  <2>1. Len(m) \in Nat
    BY <1>1
  <2>2. \A k \in 1..Len(m) : BarSegments(b, m[k].lo, m[k].hi, present) \in Seq(Fact)
    BY <1>3
  <2> QED BY <2>1, <2>2
<1> HIDE DEF part
<1>5. ASSUME NEW t \in Nat
      PROVE  Says(FlattenSeq(part), t, lo <= t /\ t < hi, Floor(b, t) \in present)
  <2> DEFINE J == {k \in 1..Len(m) : m[k].lo <= t /\ t < m[k].hi}
  <2>1. \A k \in 1..Len(part) : Says(part[k], t, k \in J, Floor(b, t) \in present)
    BY <1>3, <1>4 DEF Says
  <2>2. (\E k \in 1..Len(part) : k \in J) <=> lo <= t /\ t < hi
    <3>1. \A k \in 1..Len(m) : m[k] \in [lo : Nat, hi : Nat]
      BY <1>1, ElementOfSeq
    <3>2. \A k \in 1..Len(m) : m[k].lo \in Nat /\ m[k].hi \in Nat
      BY <3>1
    <3>3. \A k \in 1..Len(m) : lo <= m[k].lo /\ m[k].hi <= hi
      BY <1>1
    <3>4. ASSUME NEW k \in 1..Len(m), m[k].lo <= t, t < m[k].hi PROVE lo <= t /\ t < hi
      BY <3>2, <3>3, <3>4
    <3>5. lo <= t /\ t < hi => \E k \in 1..Len(m) : m[k].lo <= t /\ t < m[k].hi
      BY <1>1
    <3> QED BY <1>4, <3>4, <3>5
  <2> HIDE DEF J
  <2>4. Says(FlattenSeq(part), t, \E k \in 1..Len(part) : k \in J, Floor(b, t) \in present)
    BY <1>4, <2>1, FlattenSays
  <2> QED BY <2>2, <2>4 DEF Says
<1>6. FlattenSeq(part) \in Seq(Fact)
  BY <1>4, FlattenShows
<1> QED BY <1>2, <1>5, <1>6

\* The facts of a window of bars: where an observed window meets a gap.
LEMMA BarFactsAre ==
  ASSUME IsGrid(bar, Horizon), NEW o, o = Observed, o \in Seq(Span),
         NEW g, g = W.gaps, g \in Seq(Gap),
         \A j \in 1..Len(g) : g[j].hi <= Horizon, NEW present
  PROVE  /\ BarFacts(present) \in Seq(Fact)
         /\ \A t \in Nat : Says(BarFacts(present), t, Over(o, t) /\ Over(g, t),
                                Floor(bar, t) \in present)
<1> DEFINE lo(i, j) == Larger(o[i].lo, g[j].lo)
           hi(i, j) == Smaller(o[i].hi, g[j].hi)
           one(i, j) == CutFacts(bar, lo(i, j), hi(i, j), present)
           row(i) == [j \in 1..Len(g) |-> one(i, j)]
           all == [i \in 1..Len(o) |-> FlattenSeq(row(i))]
<1>1. /\ Len(o) \in Nat /\ DOMAIN o = 1..Len(o)
      /\ Len(g) \in Nat /\ DOMAIN g = 1..Len(g)
      /\ \A i \in 1..Len(o) : o[i].lo \in Nat /\ o[i].hi \in Nat
      /\ \A j \in 1..Len(g) : g[j].lo \in Nat /\ g[j].hi \in Nat
  <2>1. \A i \in 1..Len(o) : o[i].lo \in Nat /\ o[i].hi \in Nat
    BY ElementOfSeq, SpanFields
  <2>2. \A j \in 1..Len(g) : g[j].lo \in Nat /\ g[j].hi \in Nat
    BY ElementOfSeq, GapFields
  <2> QED BY <2>1, <2>2
<1>2. BarFacts(present) = FlattenSeq(all)
  BY <1>1 DEF BarFacts, CutFacts
<1>3. ASSUME NEW i \in 1..Len(o), NEW j \in 1..Len(g)
      PROVE  /\ one(i, j) \in Seq(Fact)
             /\ \A t \in Nat : Says(one(i, j), t, t \in Instants(o[i]) /\ t \in Instants(g[j]),
                                    Floor(bar, t) \in present)
  <2>0. o[i].lo \in Nat /\ o[i].hi \in Nat /\ g[j].lo \in Nat /\ g[j].hi \in Nat
        /\ g[j].hi <= Horizon /\ Horizon \in Nat
    BY <1>1, BackfillAssumption
  <2>1. /\ lo(i, j) \in Nat /\ hi(i, j) \in 0..Horizon
        /\ \A t \in Nat : lo(i, j) <= t /\ t < hi(i, j) <=>
                            t \in Instants(o[i]) /\ t \in Instants(g[j])
    <3>1. lo(i, j) \in Nat /\ hi(i, j) \in 0..Horizon
      BY <2>0 DEF Larger, Smaller
    <3>2. \A t \in Nat : /\ lo(i, j) <= t <=> o[i].lo <= t /\ g[j].lo <= t
                         /\ t < hi(i, j) <=> t < o[i].hi /\ t < g[j].hi
      BY <2>0, SMTT(30) DEF Larger, Smaller
    <3> HIDE DEF lo, hi
    <3>3. ASSUME NEW t \in Nat
          PROVE  lo(i, j) <= t /\ t < hi(i, j) <=> t \in Instants(o[i]) /\ t \in Instants(g[j])
      <4>1. /\ t \in Instants(o[i]) <=> o[i].lo <= t /\ t < o[i].hi
            /\ t \in Instants(g[j]) <=> g[j].lo <= t /\ t < g[j].hi
        BY <2>0 DEF Instants
      <4>2. lo(i, j) <= t <=> o[i].lo <= t /\ g[j].lo <= t
        BY <3>2
      <4>3. t < hi(i, j) <=> t < o[i].hi /\ t < g[j].hi
        BY <3>2
      <4> QED BY <4>1, <4>2, <4>3
    <3> QED BY <3>1, <3>3
  <2> DEFINE l == lo(i, j)
             k == hi(i, j)
  <2>2. one(i, j) = CutFacts(bar, l, k, present)
    OBVIOUS
  <2>3. l \in Nat /\ k \in 0..Horizon /\ \A t \in Nat : l <= t /\ t < k <=>
                            t \in Instants(o[i]) /\ t \in Instants(g[j])
    BY <2>1
  <2> HIDE DEF l, k, one
  <2>4. /\ CutFacts(bar, l, k, present) \in Seq(Fact)
        /\ \A t \in Nat : Says(CutFacts(bar, l, k, present), t,
                               l <= t /\ t < k, Floor(bar, t) \in present)
    BY <2>0, <2>3, CutFactsAre
  <2> QED BY <2>2, <2>3, <2>4 DEF Says
<1> HIDE DEF one
<1>4. ASSUME NEW i \in 1..Len(o)
      PROVE  /\ FlattenSeq(row(i)) \in Seq(Fact)
             /\ \A t \in Nat : Says(FlattenSeq(row(i)), t, t \in Instants(o[i]) /\ Over(g, t),
                                    Floor(bar, t) \in present)
  <2> DEFINE r == row(i)
  <2>1. r \in Seq(Seq(Fact)) /\ Len(r) = Len(g) /\ \A j \in 1..Len(g) : r[j] = one(i, j)
    <3>1. Len(g) \in Nat
      BY <1>1
    <3>2. \A j \in 1..Len(g) : one(i, j) \in Seq(Fact)
      BY <1>3
    <3> QED BY <3>1, <3>2
  <2> HIDE DEF r
  <2>2. ASSUME NEW t \in Nat
        PROVE  Says(FlattenSeq(r), t, t \in Instants(o[i]) /\ Over(g, t), Floor(bar, t) \in present)
    <3> DEFINE J == {j \in 1..Len(g) : t \in Instants(o[i]) /\ t \in Instants(g[j])}
    <3>1. \A j \in 1..Len(r) : Says(r[j], t, j \in J, Floor(bar, t) \in present)
      BY <1>3, <2>1 DEF Says
    <3>2. (\E j \in 1..Len(r) : j \in J) <=> t \in Instants(o[i]) /\ Over(g, t)
      BY <2>1 DEF Over
    <3> HIDE DEF J
    <3>4. Says(FlattenSeq(r), t, \E j \in 1..Len(r) : j \in J, Floor(bar, t) \in present)
      BY <2>1, <3>1, FlattenSays
    <3> QED BY <3>2, <3>4 DEF Says
  <2>3. FlattenSeq(r) \in Seq(Fact)
    BY <2>1, FlattenShows
  <2> QED BY <2>2, <2>3 DEF r
<1>5. /\ all \in Seq(Seq(Fact)) /\ Len(all) = Len(o)
      /\ \A i \in 1..Len(o) : all[i] = FlattenSeq(row(i))
  <2>1. Len(o) \in Nat
    BY <1>1
  <2>2. \A i \in 1..Len(o) : FlattenSeq(row(i)) \in Seq(Fact)
    BY <1>4
  <2> HIDE DEF row
  <2> QED BY <2>1, <2>2
<1> HIDE DEF all, row
<1>6. ASSUME NEW t \in Nat
      PROVE  Says(FlattenSeq(all), t, Over(o, t) /\ Over(g, t), Floor(bar, t) \in present)
  <2> DEFINE J == {i \in 1..Len(o) : t \in Instants(o[i]) /\ Over(g, t)}
  <2>1. \A i \in 1..Len(all) : Says(all[i], t, i \in J, Floor(bar, t) \in present)
    BY <1>4, <1>5 DEF Says
  <2>2. (\E i \in 1..Len(all) : i \in J) <=> Over(o, t) /\ Over(g, t)
    BY <1>5 DEF Over
  <2> HIDE DEF J
  <2>4. Says(FlattenSeq(all), t, \E i \in 1..Len(all) : i \in J, Floor(bar, t) \in present)
    BY <1>5, <2>1, FlattenSays
  <2> QED BY <2>2, <2>4 DEF Says
<1>7. FlattenSeq(all) \in Seq(Fact)
  BY <1>5, FlattenShows
<1> QED BY <1>2, <1>6, <1>7

-----------------------------------------------------------------------------
(* The windows of a call.                                                  *)

\* Whatever the family, the windows of a call are made of its gaps.
LEMMA WindowsForIs ==
  ASSUME NEW g \in Seq(Gap), Spaced(g)
  PROVE  /\ WindowsFor(g) \in Seq(Fetch) /\ AllGaps(WindowsFor(g)) = g
         /\ \A i \in 1..Len(WindowsFor(g)) :
              /\ Holds(WindowsFor(g)[i]) /\ Narrow(bar, WindowsFor(g)[i])
              /\ ~IsBars => Len(WindowsFor(g)[i].gaps) = 1
<1>1. CASE IsBars
  <2> DEFINE w == CoalesceFetchRanges(bar, g)
  <2>1. WindowsFor(g) = w
    BY <1>1 DEF WindowsFor
  <2>2. /\ w \in Seq(Fetch) /\ AllGaps(w) = g
        /\ \A i \in 1..Len(w) : Holds(w[i]) /\ Narrow(bar, w[i])
    BY FetchRangesAre
  <2> HIDE DEF w
  <2> QED BY <1>1, <2>1, <2>2
<1>2. CASE ~IsBars
  <2> DEFINE w == WindowPerGap(g)
  <2>1. WindowsFor(g) = w
    BY <1>2 DEF WindowsFor
  <2>2. /\ w \in Seq(Fetch) /\ AllGaps(w) = g
        /\ \A i \in 1..Len(w) : Holds(w[i]) /\ Len(w[i].gaps) = 1
    BY WindowPerGapIs
  <2>3. \A i \in 1..Len(w) : Narrow(bar, w[i])
    <3>1. ~(1 > 1)
      OBVIOUS
    <3> HIDE DEF w
    <3> QED BY <2>2, <3>1 DEF Narrow
  <2> HIDE DEF w
  <2> QED BY <1>2, <2>1, <2>2, <2>3
<1> QED BY <1>1, <1>2

\* A window and its gaps lie in the range whose gaps it is made of.
LEMMA WindowBounds ==
  ASSUME NEW w \in Seq(Fetch), NEW lo \in Nat, NEW hi \in Nat,
         \A k \in 1..Len(AllGaps(w)) : lo <= AllGaps(w)[k].lo /\ AllGaps(w)[k].hi <= hi,
         NEW i \in 1..Len(w), Holds(w[i])
  PROVE  /\ w[i].lo \in Nat /\ w[i].hi \in Nat /\ w[i].gaps \in Seq(Gap)
         /\ lo <= w[i].lo /\ w[i].lo < w[i].hi /\ w[i].hi <= hi
         /\ \A j \in 1..Len(w[i].gaps) :
              /\ w[i].gaps[j] \in Gap /\ Has(AllGaps(w), w[i].gaps[j])
              /\ lo <= w[i].gaps[j].lo /\ w[i].gaps[j].hi <= hi
<1> DEFINE g == w[i].gaps
<1>1. /\ w[i] \in Fetch /\ w[i].lo \in Nat /\ w[i].hi \in Nat /\ g \in Seq(Gap) /\ g # <<>>
      /\ w[i].lo = g[1].lo /\ w[i].hi = Last(g).hi
  BY ElementOfSeq, FetchFields
<1>2. \A x : Has(AllGaps(w), x) <=> \E k \in 1..Len(w) : Has(w[k].gaps, x)
  BY AllGapsTyped
<1>3. ASSUME NEW j \in 1..Len(g)
      PROVE  g[j] \in Gap /\ Has(AllGaps(w), g[j]) /\ lo <= g[j].lo /\ g[j].hi <= hi
  <2>1. Has(w[i].gaps, g[j])
    BY DEF Has
  <2>2. Has(AllGaps(w), g[j])
    BY <1>2, <2>1
  <2>3. lo <= g[j].lo /\ g[j].hi <= hi
    BY <2>2 DEF Has
  <2> QED BY <1>1, <2>2, <2>3, ElementOfSeq
<1>4. Len(g) \in Nat /\ 1 \in 1..Len(g) /\ Len(g) \in 1..Len(g) /\ Last(g) = g[Len(g)]
  BY <1>1 DEF Last
<1>5. g[1].lo \in Nat /\ g[1].hi \in Nat /\ g[1].lo < g[1].hi
  BY <1>3, <1>4, GapFields
<1>6. g[1].hi <= w[i].hi
  BY <1>4 DEF Holds
<1>7. lo <= w[i].lo /\ w[i].hi <= hi /\ w[i].lo < w[i].hi
  BY <1>1, <1>3, <1>4, <1>5, <1>6
<1> QED BY <1>1, <1>3, <1>7

\* Gaps cut from coverage that splits no bar end where bars do.
LEMMA GapsAligned ==
  ASSUME NEW h \in Nat, NEW b, IsGrid(b, h), NEW lo \in 0..h, NEW hi \in 0..h, lo < hi,
         Aligned(b, lo), Aligned(b, hi),
         NEW s \in Seq(Fact), Normal(s),
         \A t \in 0..h : Over(s, t) <=> Over(s, Floor(b, t)),
         NEW m, m = MissingGaps(s, lo, hi), NEW i \in 1..Len(m)
  PROVE  Aligned(b, m[i].lo) /\ Aligned(b, m[i].hi)
<1>1. /\ m \in Seq(Gap) /\ Spaced(m)
      /\ \A k \in 1..Len(m) : lo <= m[k].lo /\ m[k].hi <= hi
      /\ \A t \in Nat : Over(m, t) <=> lo <= t /\ t < hi /\ ~Over(s, t)
  <2>1. NormalizeSegments(s) = s
    BY DEF NormalizeSegments
  <2>2. lo \in Nat /\ hi \in Nat
    OBVIOUS
  <2> QED BY <2>1, <2>2, MissingGapsAre
<1>2. \A k \in 1..Len(m) : m[k].lo \in Nat /\ m[k].hi \in Nat /\ m[k].lo < m[k].hi
  BY <1>1, ElementOfSeq, GapFields
<1>3. ~Over(m, m[i].hi)
  <2>1. ASSUME NEW k \in 1..Len(m), m[k].lo <= m[i].hi, m[i].hi < m[k].hi
        PROVE  FALSE
    <3>1. k # i /\ ~(k < i) /\ ~(i < k)
      BY <1>1, <1>2, <2>1 DEF Spaced
    <3> QED BY <1>1, <3>1
  <2> QED BY <1>2, <2>1 DEF Over, Instants
<1>4. ASSUME NEW c \in Nat, c + 1 = m[i].lo PROVE ~Over(m, c)
  <2>1. ASSUME NEW k \in 1..Len(m), m[k].lo <= c, c < m[k].hi
        PROVE  FALSE
    <3>0. m[k].lo \in Nat /\ m[k].hi \in Nat /\ m[i].lo \in Nat /\ m[i].hi \in Nat
          /\ m[k].lo < m[k].hi /\ m[i].lo < m[i].hi
      BY <1>2
    <3>1. k # i
      BY <1>4, <2>1, <3>0
    <3>2. k < i => m[k].hi < m[i].lo
      BY <1>1 DEF Spaced
    <3>3. i < k => m[i].hi < m[k].lo
      BY <1>1 DEF Spaced
    <3>4. ~(k < i) /\ ~(i < k)
      BY <1>4, <2>1, <3>0, <3>2, <3>3
    <3> QED BY <1>1, <3>1, <3>4
  <2> QED BY <1>2, <2>1 DEF Over, Instants
<1>5. ASSUME NEW t \in 0..h, NEW u \in 0..h, Floor(b, t) <= u, u <= t
      PROVE  /\ Floor(b, u) = Floor(b, t)
             /\ Over(s, u) <=> Over(s, t)
  <2>1. /\ Floor(b, t) \in Nat /\ Floor(b, u) \in Nat /\ Floor(b, u) <= u
        /\ Aligned(b, Floor(b, t)) /\ Aligned(b, Floor(b, u))
    BY GridFloor, SMTT(30)
  <2>2. Floor(b, t) <= Floor(b, u)
    <3>1. \A v \in Nat : Aligned(b, v) /\ v <= u => v <= Floor(b, u)
      BY GridFloor
    <3> QED BY <1>5, <2>1, <3>1
  <2>3. Floor(b, u) <= Floor(b, t)
    <3>1. \A v \in Nat : Aligned(b, v) /\ v <= t => v <= Floor(b, t)
      BY GridFloor
    <3> QED BY <1>5, <2>1, <3>1
  <2>4. Floor(b, u) = Floor(b, t)
    BY <2>1, <2>2, <2>3
  <2> QED BY <2>4
<1>6. ASSUME NEW t \in Nat, lo <= t, t <= hi PROVE t \in 0..h /\ Floor(b, t) \in Nat
        /\ lo <= Floor(b, t) /\ Floor(b, t) <= t
  BY <1>6, GridFloor, SMTT(30)
<1>7. Aligned(b, m[i].lo)
  <2> DEFINE a == m[i].lo
             f == Floor(b, a)
  <2>1. a \in Nat /\ lo <= a /\ a < hi /\ Over(m, a)
    <3>1. a \in Nat /\ m[i].hi \in Nat /\ a < m[i].hi /\ lo <= a /\ m[i].hi <= hi
      BY <1>1, <1>2
    <3>2. a \in Instants(m[i])
      BY <3>1 DEF Instants
    <3>3. Over(m, a)
      BY <3>2 DEF Over
    <3> HIDE DEF a
    <3> QED BY <3>1, <3>3
  <2>2. a \in 0..h /\ f \in Nat /\ lo <= f /\ f <= a
    BY <1>6, <2>1
  <2>3. ~Over(s, a)
    BY <1>1, <2>1
  <2>4. CASE f < a
    <3> DEFINE c == a - 1
    <3>1. c \in 0..h /\ c + 1 = a /\ f <= c /\ c <= a /\ lo <= c /\ c < hi /\ c \in Nat
      BY <2>1, <2>2, <2>4
    <3>2. ~Over(m, c)
      <4> HIDE DEF c
      <4> QED BY <1>4, <3>1
    <3>3. Over(s, c) <=> Over(s, a)
      BY <1>5, <2>2, <3>1
    <3> HIDE DEF c, a, f
    <3> QED BY <1>1, <2>3, <3>1, <3>2, <3>3
  <2>5. CASE f = a
    BY <2>5 DEF Aligned
  <2> HIDE DEF a, f
  <2> QED BY <2>2, <2>4, <2>5 DEF a
<1>8. Aligned(b, m[i].hi)
  <2> DEFINE c == m[i].hi
             f == Floor(b, c)
             p == c - 1
  <2>1. c \in Nat /\ lo < c /\ c <= hi /\ p \in Nat /\ lo <= p /\ p < c /\ Over(m, p)
    <3>1. c \in Nat /\ m[i].lo \in Nat /\ m[i].lo < c /\ lo <= m[i].lo /\ c <= hi
      BY <1>1, <1>2
    <3>2. p \in Nat /\ m[i].lo <= p /\ p < c
      BY <3>1
    <3>3. p \in Instants(m[i])
      BY <3>1, <3>2 DEF Instants
    <3>4. Over(m, p)
      BY <3>3 DEF Over
    <3> HIDE DEF c, p
    <3> QED BY <3>1, <3>2, <3>4
  <2>2. c \in 0..h /\ f \in Nat /\ lo <= f /\ f <= c
    BY <1>6, <2>1
  <2>3. CASE c = hi
    BY <2>3
  <2>4. CASE f = c
    BY <2>4 DEF Aligned
  <2>5. CASE c < hi /\ f < c
    <3>1. p \in 0..h /\ f <= p /\ p <= c
      BY <2>1, <2>2, <2>5
    <3>2. ~Over(m, c)
      BY <1>3
    <3>3. Over(s, p) <=> Over(s, c)
      BY <1>5, <2>2, <3>1
    <3> HIDE DEF c, f, p
    <3> QED BY <1>1, <2>1, <2>5, <3>2, <3>3
  <2> HIDE DEF c, f
  <2> QED BY <2>1, <2>2, <2>3, <2>4, <2>5 DEF c
<1> QED BY <1>7, <1>8

-----------------------------------------------------------------------------
(* What a venue answers.                                                   *)

LEMMA WiderSeq ==
  ASSUME NEW A, NEW B, A \subseteq B, NEW s \in Seq(A)
  PROVE  s \in Seq(B)
<1>1. Len(s) \in Nat /\ DOMAIN s = 1..Len(s) /\ \A i \in 1..Len(s) : s[i] \in B
  BY ElementOfSeq
<1> DEFINE q == [i \in 1..Len(s) |-> s[i]]
<1>2. q \in Seq(B) /\ q = s
  BY <1>1
<1> QED BY <1>2

\* An honest page is the first rows of its range.
LEMMA HonestIs ==
  ASSUME NEW n \in Nat, world \in SUBSET (0..n), NEW since, NEW bound, NEW limit \in Nat
  PROVE  LET h == Honest(since, bound, limit) IN
         /\ h \in Seq(world) /\ Rising(h) /\ Len(h) <= limit
         /\ \A i \in 1..Len(h) : since <= h[i] /\ h[i] < bound
         /\ \A e \in world : since <= e /\ e < bound =>
              \/ Has(h, e)
              \/ /\ Len(h) = limit
                 /\ \E r \in Seq(world) :
                      /\ Rising(r) /\ Len(r) = limit + 1
                      /\ \A i \in 1..limit : r[i] = h[i]
                      /\ r[limit + 1] <= e /\ since <= r[limit + 1] /\ r[limit + 1] < bound
<1> DEFINE T == {t \in world : since <= t /\ t < bound}
           r == Ascending(T)
           m == Smaller(limit, Len(r))
           h == SubSeq(r, 1, m)
<1>1. T \in SUBSET (0..n) /\ T \subseteq world
  OBVIOUS
<1>2. Honest(since, bound, limit) = h
  BY DEF Honest
<1>3. \A x \in T : x \in world /\ since <= x /\ x < bound
  OBVIOUS
<1>4. \A x \in world : since <= x /\ x < bound => x \in T
  OBVIOUS
<1> HIDE DEF T
<1>5. /\ r \in Seq(T) /\ Rising(r)
      /\ \A x \in T : \E i \in 1..Len(r) : r[i] = x
  BY <1>1, AscendingIs
<1> HIDE DEF r
<1>6. r \in Seq(world) /\ Len(r) \in Nat /\ \A i \in 1..Len(r) : r[i] \in T /\ r[i] \in Nat
  <2>1. r \in Seq(world)
    BY <1>1, <1>5, WiderSeq
  <2>2. \A i \in 1..Len(r) : r[i] \in T
    BY <1>5, ElementOfSeq
  <2>3. \A x \in T : x \in Nat
    BY <1>1
  <2>4. Len(r) \in Nat
    BY <1>5
  <2> QED BY <2>1, <2>2, <2>3, <2>4
<1>7. m \in 0..Len(r) /\ m <= limit /\ (m = limit \/ m = Len(r))
  BY <1>6 DEF Smaller
<1> HIDE DEF m
<1>8. h \in Seq(world) /\ Len(h) = m /\ \A i \in 1..m : h[i] = r[i]
  <2>1. m \in 1..Len(r) \/ m = 0
    BY <1>7
  <2>2. CASE m = 0
    <3>1. h = <<>>
      BY <1>6, <2>2, SubSeqEmpty
    <3> QED BY <2>2, <3>1
  <2>3. CASE m \in 1..Len(r)
    <3>1. \A i \in 1..(Len(r) + 1) : i \in Int
      BY <1>6
    <3>2. /\ h \in Seq(world)
          /\ Len(h) = IF 1 <= m THEN m - 1 + 1 ELSE 0
          /\ \A i \in 1..(m - 1 + 1) : h[i] = r[1 + i - 1]
      <4>1. 1 \in 1..(Len(r) + 1) /\ m \in 0..Len(r)
        BY <1>6, <1>7
      <4> QED BY <1>6, <4>1, SubSeqProperties
    <3>3. \A i \in 1..m : i \in 1..(m - 1 + 1) /\ 1 + i - 1 = i
      BY <1>6, <2>3
    <3>4. Len(h) = m
      BY <1>6, <2>3, <3>2
    <3>5. \A i \in 1..m : h[i] = r[i]
      BY <3>2, <3>3
    <3> QED BY <3>2, <3>4, <3>5
  <2> QED BY <2>1, <2>2, <2>3
<1> HIDE DEF h
<1>9. \A i \in 1..Len(h) : i \in 1..Len(r) /\ h[i] = r[i]
  BY <1>6, <1>7, <1>8
<1>10. Rising(h)
  BY <1>5, <1>9 DEF Rising
<1>11. \A i \in 1..Len(h) : since <= h[i] /\ h[i] < bound
  BY <1>3, <1>6, <1>9
<1>12. ASSUME NEW e \in world, since <= e, e < bound, ~Has(h, e)
       PROVE  /\ Len(h) = limit
              /\ \E q \in Seq(world) :
                   /\ Rising(q) /\ Len(q) = limit + 1
                   /\ \A i \in 1..limit : q[i] = h[i]
                   /\ q[limit + 1] <= e /\ since <= q[limit + 1] /\ q[limit + 1] < bound
  <2>1. PICK k \in 1..Len(r) : r[k] = e
    BY <1>4, <1>5, <1>12
  <2>2. k > m
    BY <1>6, <1>7, <1>8, <1>12, <2>1 DEF Has
  <2>3. m = limit /\ limit + 1 \in 1..Len(r)
    BY <1>6, <1>7, <2>2
  <2> DEFINE q == [i \in 1..(limit + 1) |-> r[i]]
  <2>4. \A i \in 1..(limit + 1) : i \in 1..Len(r) /\ r[i] \in world
    <3>1. \A i \in 1..(limit + 1) : i \in 1..Len(r)
      BY <1>6, <2>3
    <3> QED BY <1>1, <1>6, <3>1
  <2>5. q \in Seq(world) /\ Len(q) = limit + 1 /\ \A i \in 1..(limit + 1) : q[i] = r[i]
    BY <2>4
  <2> HIDE DEF q
  <2>6. Rising(q)
    BY <1>5, <2>4, <2>5 DEF Rising
  <2>7. \A i \in 1..limit : q[i] = h[i]
    BY <1>8, <2>3, <2>5
  <2>8. limit + 1 \in 1..(limit + 1) /\ q[limit + 1] = r[limit + 1]
    BY <2>5
  <2>9. r[limit + 1] <= e
    <3>1. limit + 1 < k => r[limit + 1] < r[k]
      BY <1>5, <2>1, <2>3 DEF Rising
    <3>2. r[limit + 1] \in Nat /\ r[k] \in Nat
      BY <1>6, <2>3
    <3> QED BY <1>6, <2>1, <2>2, <2>3, <3>1, <3>2
  <2>10. since <= r[limit + 1] /\ r[limit + 1] < bound
    BY <1>3, <1>6, <2>3
  <2> QED BY <1>8, <2>3, <2>5, <2>6, <2>7, <2>8, <2>9, <2>10
<1>13. h \in Seq(world) /\ Len(h) <= limit
  BY <1>7, <1>8
<1> QED BY <1>2, <1>10, <1>11, <1>12, <1>13

\* The rows of the pages are the venue's, and bars off the grid.
LEMMA AnswersTyped ==
  ASSUME NEW n \in Nat, world \in SUBSET (0..n), NEW since, NEW bound, NEW limit \in Nat,
         NEW page \in Answers(since, bound, limit)
  PROVE  page \in Seq(PageRows)
<1> DEFINE honest == Honest(since, bound, limit)
           strays == {t \in world : t < since \/ t >= bound}
                       \cup {t \in Strays : ~IsFunding /\ ~Aligned(bar, t)}
<1>1. honest \in Seq(world) /\ Honest(W.lo, bound, limit) \in Seq(world)
  BY HonestIs
<1>2. Honest(since, Horizon + 2, limit + 1) \in Seq(world)
  <2>1. limit + 1 \in Nat
    OBVIOUS
  <2> QED BY <2>1, HonestIs
<1>3. strays \subseteq PageRows /\ world \subseteq PageRows
  BY DEF PageRows
<1>4. \A s \in Seq(world) : s \in Seq(PageRows)
  BY <1>3, WiderSeq
<1>5. page \in Truthful(honest) \cup
        ({<<t>> \o honest : t \in strays} \cup {honest \o <<t>> : t \in strays}
        \cup {Honest(W.lo, bound, limit), Honest(since, Horizon + 2, limit + 1),
              Reverse(honest)})
  BY DEF Answers, Wild
<1> HIDE DEF honest, strays
<1>6. CASE page \in Truthful(honest)
  <2>1. CASE Exhaustive
    BY <1>1, <1>4, <1>6, <2>1 DEF Truthful
  <2>2. CASE ~Exhaustive /\ IsFunding
    <3>1. PICK k \in 0..Len(honest) : page = SubSeq(honest, 1, k)
      BY <1>6, <2>2 DEF Truthful
    <3>2. 1 \in 1..(Len(honest) + 1) /\ k \in 0..Len(honest)
      BY <1>1
    <3>3. page \in Seq(world)
      BY <1>1, <3>1, <3>2, SubSeqProperties
    <3> QED BY <1>4, <3>3
  <2>3. CASE ~Exhaustive /\ ~IsFunding
    <3>1. PICK rows \in SUBSET ToSet(honest) : page = Ascending(rows)
      BY <1>6, <2>3 DEF Truthful
    <3>2. ToSet(honest) \subseteq world
      BY <1>1 DEF ToSet
    <3>3. rows \in SUBSET (0..n) /\ rows \subseteq world
      BY <3>2
    <3>4. page \in Seq(rows)
      BY <3>1, <3>3, AscendingIs
    <3>5. page \in Seq(world)
      BY <3>3, <3>4, WiderSeq
    <3> QED BY <1>4, <3>5
  <2> QED BY <2>1, <2>2, <2>3
<1>7. CASE page \in {<<t>> \o honest : t \in strays}
  <2>1. PICK t \in strays : page = <<t>> \o honest
    BY <1>7
  <2>2. t \in PageRows /\ honest \in Seq(PageRows)
    BY <1>1, <1>3, <1>4
  <2>3. <<t>> \in Seq(PageRows)
    BY <2>2
  <2> QED BY <2>1, <2>2, <2>3, ConcatProperties
<1>8. CASE page \in {honest \o <<t>> : t \in strays}
  <2>1. PICK t \in strays : page = honest \o <<t>>
    BY <1>8
  <2>2. t \in PageRows /\ honest \in Seq(PageRows)
    BY <1>1, <1>3, <1>4
  <2>3. <<t>> \in Seq(PageRows)
    BY <2>2
  <2> QED BY <2>1, <2>2, <2>3, ConcatProperties
<1>9. CASE page \in {Honest(W.lo, bound, limit), Honest(since, Horizon + 2, limit + 1)}
  BY <1>1, <1>2, <1>4, <1>9
<1>10. CASE page = Reverse(honest)
  <2>1. Len(honest) \in Nat /\ \A i \in 1..Len(honest) : honest[i] \in PageRows
    BY <1>1, <1>4
  <2>2. \A i \in 1..Len(honest) : (Len(honest) - i) + 1 \in 1..Len(honest)
    BY <2>1
  <2>3. page = [i \in 1..Len(honest) |-> honest[(Len(honest) - i) + 1]]
    BY <1>10 DEF Reverse
  <2> QED BY <2>1, <2>2, <2>3, SMTT(30)
<1> QED BY <1>5, <1>6, <1>7, <1>8, <1>9, <1>10

\* A row an honest page leaves out comes after all of its rows.
LEMMA HonestLeaves ==
  ASSUME NEW n \in Nat, world \in SUBSET (0..n), NEW since, NEW bound, NEW limit \in Nat,
         NEW e \in world, since <= e, e < bound
  PROVE  LET h == Honest(since, bound, limit) IN
         \/ Has(h, e)
         \/ Len(h) = limit /\ \A i \in 1..Len(h) : h[i] < e
<1> DEFINE h == Honest(since, bound, limit)
<1>1. \/ Has(h, e)
      \/ /\ Len(h) = limit
         /\ \E r \in Seq(world) :
              /\ Rising(r) /\ Len(r) = limit + 1
              /\ \A i \in 1..limit : r[i] = h[i]
              /\ r[limit + 1] <= e /\ since <= r[limit + 1] /\ r[limit + 1] < bound
  BY HonestIs
<1> HIDE DEF h
<1>2. ASSUME NEW r \in Seq(world), Rising(r), Len(r) = limit + 1, Len(h) = limit,
             \A i \in 1..limit : r[i] = h[i], r[limit + 1] <= e, NEW i \in 1..Len(h)
      PROVE  h[i] < e
  <2>1. i \in 1..Len(r) /\ limit + 1 \in 1..Len(r) /\ i < limit + 1
    BY <1>2
  <2>2. r[i] \in Nat /\ r[limit + 1] \in Nat /\ e \in Nat
    <3>1. \A x \in world : x \in Nat
      OBVIOUS
    <3>2. r[i] \in world /\ r[limit + 1] \in world
      BY <2>1, ElementOfSeq
    <3> QED BY <3>1, <3>2
  <2>3. r[i] < r[limit + 1]
    BY <1>2, <2>1 DEF Rising
  <2> QED BY <1>2, <2>2, <2>3
<1>3. Has(h, e) \/ (Len(h) = limit /\ \A i \in 1..Len(h) : h[i] < e)
  BY <1>1, <1>2
<1> QED BY <1>3 DEF h

\* A page of funding misses no event up to its last; Binance's short page
\* none at all.
LEMMA FundingAnswer ==
  ASSUME NEW n \in Nat, world \in SUBSET (0..n), IsFunding,
         NEW c \in Nat, NEW hi \in 0..Horizon, W.lo <= c, W.lo \in Nat,
         NEW page \in Answers(c, hi, PageLimit),
         \A i \in 1..Len(page) : page[i] < hi,
         NEW e \in world, c <= e, e < hi
  PROVE  \/ Has(page, e)
         \/ /\ \A i \in 1..Len(page) : page[i] < e
            /\ route.kind = "binanceFunding" => PageLimit <= Len(page)
<1> DEFINE honest == Honest(c, hi, PageLimit)
           strays == {t \in world : t < c \/ t >= hi}
                       \cup {t \in Strays : ~IsFunding /\ ~Aligned(bar, t)}
           first == Honest(W.lo, hi, PageLimit)
           more == Honest(c, Horizon + 2, PageLimit + 1)
           Fine(q) == \/ Has(q, e)
                      \/ /\ \A i \in 1..Len(q) : q[i] < e
                         /\ route.kind = "binanceFunding" => PageLimit <= Len(q)
<1>0. /\ PageLimit \in Nat /\ PageLimit + 1 \in Nat /\ PageLimit > 0
      /\ Horizon \in Nat /\ e \in Nat /\ hi \in Nat
  <2>1. PageLimit \in Nat \ {0} /\ Horizon \in Nat
    BY PagingAssumption, BackfillAssumption
  <2> QED BY <2>1
<1>1. Has(honest, e) \/ (Len(honest) = PageLimit /\ \A i \in 1..Len(honest) : honest[i] < e)
  BY <1>0, HonestLeaves
<1>2. Has(first, e) \/ (Len(first) = PageLimit /\ \A i \in 1..Len(first) : first[i] < e)
  <2>1. W.lo <= e
    BY <1>0
  <2> QED BY <1>0, <2>1, HonestLeaves
<1>3. Has(more, e) \/ (Len(more) = PageLimit + 1 /\ \A i \in 1..Len(more) : more[i] < e)
  <2>1. e < Horizon + 2
    BY <1>0
  <2> QED BY <1>0, <2>1, HonestLeaves
<1>4. honest \in Seq(world) /\ Rising(honest) /\ Len(honest) \in Nat
  <2>1. honest \in Seq(world) /\ Rising(honest)
    BY <1>0, HonestIs
  <2> HIDE DEF honest
  <2> QED BY <2>1
<1>5. page \in Truthful(honest) \cup
        ({<<t>> \o honest : t \in strays} \cup {honest \o <<t>> : t \in strays}
        \cup {first, more, Reverse(honest)})
  BY DEF Answers, Wild
<1>6. \A t \in strays : t \in Nat /\ (t < c \/ t >= hi)
  OBVIOUS
<1> HIDE DEF honest, strays, first, more
<1>7. Fine(honest) /\ Fine(first) /\ Fine(more)
  BY <1>0, <1>1, <1>2, <1>3
<1>8. ASSUME page \in Truthful(honest) PROVE Fine(page)
  <2>1. CASE Exhaustive
    BY <1>7, <1>8, <2>1 DEF Truthful
  <2>2. CASE ~Exhaustive
    <3>1. PICK k \in 0..Len(honest) : page = SubSeq(honest, 1, k)
      BY <1>8, <2>2 DEF Truthful
    <3>2. route.kind # "binanceFunding"
      BY <2>2 DEF Exhaustive
    <3>3. \A i \in 1..k : i \in 1..Len(honest) /\ honest[i] \in world
      BY <1>4
    <3>4. Len(page) = k /\ \A i \in 1..k : page[i] = honest[i]
      <4>1. /\ Len(page) = IF 1 <= k THEN k - 1 + 1 ELSE 0
            /\ \A i \in 1..(k - 1 + 1) : page[i] = honest[1 + i - 1]
        BY <3>1, <3>3, SubSeqProperties
      <4>2. \A i \in 1..k : i \in 1..(k - 1 + 1) /\ 1 + i - 1 = i
        OBVIOUS
      <4> QED BY <4>1, <4>2
    <3>5. CASE \A i \in 1..Len(honest) : honest[i] < e
      BY <3>2, <3>3, <3>4, <3>5
    <3>6. CASE Has(honest, e)
      <4>1. PICK j \in 1..Len(honest) : honest[j] = e
        BY <3>6 DEF Has
      <4>2. CASE j <= k
        <5>1. j \in 1..k
          BY <1>4, <4>2
        <5> QED BY <3>4, <4>1, <5>1 DEF Has
      <4>3. CASE j > k
        <5>1. \A i \in 1..k : honest[i] < e
          <6>1. \A i \in 1..k : i < j
            BY <1>4, <4>3
          <6> QED BY <1>4, <3>3, <4>1, <6>1 DEF Rising
        <5> QED BY <3>2, <3>4, <5>1
      <4> QED BY <1>4, <4>2, <4>3
    <3> QED BY <1>1, <3>5, <3>6
  <2> QED BY <2>1, <2>2
<1>9. ASSUME NEW t \in strays, page = <<t>> \o honest
      PROVE  Fine(page)
  <2>1. /\ Len(page) = Len(honest) + 1 /\ page[1] = t
        /\ \A i \in 1..Len(honest) : page[i + 1] = honest[i]
    BY <1>4, <1>9
  <2>2. CASE Has(honest, e)
    <3>1. PICK j \in 1..Len(honest) : honest[j] = e
      BY <2>2 DEF Has
    <3>2. j + 1 \in 1..Len(page) /\ page[j + 1] = e
      BY <1>4, <2>1, <3>1
    <3>3. Has(page, e)
      BY <3>2 DEF Has
    <3> QED BY <3>3
  <2>3. CASE Len(honest) = PageLimit /\ \A i \in 1..Len(honest) : honest[i] < e
    <3>1. t \in Nat /\ 1 \in 1..Len(page)
      BY <1>4, <1>6, <2>1
    <3>2. t < hi
      BY <2>1, <3>1
    <3>3. t < e
      BY <1>0, <1>6, <3>1, <3>2
    <3>4. ASSUME NEW i \in 1..Len(page) PROVE page[i] < e
      <4>1. CASE i = 1
        BY <2>1, <3>3, <4>1
      <4>2. CASE i # 1
        <5>1. i - 1 \in 1..Len(honest) /\ (i - 1) + 1 = i
          BY <1>4, <2>1, <4>2
        <5>2. page[(i - 1) + 1] = honest[i - 1]
          BY <2>1, <5>1
        <5> QED BY <2>3, <5>1, <5>2
      <4> QED BY <4>1, <4>2
    <3>5. PageLimit <= Len(page)
      BY <1>0, <2>1, <2>3
    <3> QED BY <3>4, <3>5
  <2> QED BY <1>1, <2>2, <2>3
<1>10. ASSUME NEW t \in strays, page = honest \o <<t>>
       PROVE  Fine(page)
  <2>1. /\ Len(page) = Len(honest) + 1 /\ page[Len(honest) + 1] = t
        /\ \A i \in 1..Len(honest) : page[i] = honest[i]
    BY <1>4, <1>10
  <2>2. CASE Has(honest, e)
    <3>1. PICK j \in 1..Len(honest) : honest[j] = e
      BY <2>2 DEF Has
    <3>2. j \in 1..Len(page) /\ page[j] = e
      BY <1>4, <2>1, <3>1
    <3>3. Has(page, e)
      BY <3>2 DEF Has
    <3> QED BY <3>3
  <2>3. CASE Len(honest) = PageLimit /\ \A i \in 1..Len(honest) : honest[i] < e
    <3>1. t \in Nat /\ Len(honest) + 1 \in 1..Len(page)
      BY <1>4, <1>6, <2>1
    <3>2. t < hi
      BY <2>1, <3>1
    <3>3. t < e
      BY <1>0, <1>6, <3>1, <3>2
    <3>4. ASSUME NEW i \in 1..Len(page) PROVE page[i] < e
      <4>1. CASE i = Len(honest) + 1
        BY <2>1, <3>3, <4>1
      <4>2. CASE i # Len(honest) + 1
        <5>1. i \in 1..Len(honest)
          BY <1>4, <2>1, <4>2
        <5> QED BY <2>1, <2>3, <5>1
      <4> QED BY <4>1, <4>2
    <3>5. PageLimit <= Len(page)
      BY <1>0, <2>1, <2>3
    <3> QED BY <3>4, <3>5
  <2> QED BY <1>1, <2>2, <2>3
<1>11. ASSUME page = Reverse(honest) PROVE Fine(page)
  <2>1. page = [i \in 1..Len(honest) |-> honest[(Len(honest) - i) + 1]]
    BY <1>11 DEF Reverse
  <2>2. /\ Len(page) = Len(honest)
        /\ \A i \in 1..Len(honest) : /\ (Len(honest) - i) + 1 \in 1..Len(honest)
                                     /\ page[i] = honest[(Len(honest) - i) + 1]
    BY <1>4, <2>1
  <2>3. \A i \in 1..Len(honest) : page[(Len(honest) - i) + 1] = honest[i]
    <3>1. \A i \in 1..Len(honest) : (Len(honest) - ((Len(honest) - i) + 1)) + 1 = i
      BY <1>4
    <3> QED BY <2>2, <3>1
  <2>4. CASE Has(honest, e)
    BY <2>2, <2>3, <2>4 DEF Has
  <2>5. CASE Len(honest) = PageLimit /\ \A i \in 1..Len(honest) : honest[i] < e
    BY <1>0, <2>2, <2>5
  <2> QED BY <1>1, <2>4, <2>5
<1>12. Fine(page)
  <2> HIDE DEF Fine
  <2>1. CASE page \in {first, more}
    BY <1>7, <2>1
  <2>2. CASE page \in {<<t>> \o honest : t \in strays}
    BY <1>9, <2>2
  <2>3. CASE page \in {honest \o <<t>> : t \in strays}
    BY <1>10, <2>3
  <2> QED BY <1>5, <1>8, <1>11, <2>1, <2>2, <2>3
<1> QED BY <1>12

\* A rising sequence of numbers of another is not longer.
LEMMA RisingInto ==
  ASSUME NEW r \in Seq(Nat), Rising(r), NEW s \in Seq(Nat), Rising(s),
         \A i \in 1..Len(r) : Has(s, r[i])
  PROVE  Len(r) <= Len(s)
<1> DEFINE n == Len(r)
           T == {k \in 0..n : k = 0 \/ \E p \in 1..Len(s) : s[p] = r[k] /\ k <= p}
<1>1. n \in Nat /\ Len(s) \in Nat /\ \A i \in 1..n : r[i] \in Nat
  BY ElementOfSeq
<1>2. 0 \in T
  BY <1>1
<1>3. ASSUME NEW k \in 1..n, k - 1 \in T PROVE k \in T
  <2>1. PICK q \in 1..Len(s) : s[q] = r[k]
    BY DEF Has
  <2>2. CASE k = 1
    BY <1>1, <2>1, <2>2
  <2>3. CASE k # 1
    <3>1. k - 1 \in 1..n /\ k - 1 < k
      BY <1>1, <2>3
    <3>2. PICK p \in 1..Len(s) : s[p] = r[k-1] /\ k - 1 <= p
      BY <1>3, <2>3
    <3>3. r[k-1] < r[k]
      BY <3>1 DEF Rising
    <3>4. ~(q < p) /\ q # p
      <4>1. s[q] \in Nat /\ s[p] \in Nat
        BY ElementOfSeq
      <4>2. q < p => s[q] < s[p]
        BY DEF Rising
      <4> QED BY <2>1, <3>2, <3>3, <4>1, <4>2, SMTT(30)
    <3>5. k <= q
      BY <1>1, <3>2, <3>4
    <3> QED BY <2>1, <3>5
  <2> QED BY <2>2, <2>3
<1> HIDE DEF T
<1>4. n \in 0..n
  BY <1>1
<1>5. n \in T
  BY <1>1, <1>2, <1>3, <1>4, Climb
<1>6. n = 0 \/ \E p \in 1..Len(s) : n <= p
  BY <1>5 DEF T
<1> QED BY <1>1, <1>6

\* There are no more aligned instants in an interval than bars start in it.
LEMMA CountBars ==
  ASSUME NEW h \in Nat, NEW b, IsGrid(b, h), NEW lo \in Nat, NEW hi \in Nat,
         NEW r \in Seq(Nat), Rising(r),
         \A i \in 1..Len(r) : Aligned(b, r[i]) /\ lo <= r[i] /\ r[i] < hi
  PROVE  Len(r) <= Len(BarStarts(b, lo, hi))
<1> DEFINE s == BarStarts(b, lo, hi)
<1>1. /\ s \in Seq(Nat) /\ Rising(s)
      /\ \A x \in Nat : lo <= x /\ x < hi /\ Aligned(b, x) => Has(s, x)
  BY BarStartsIs
<1> HIDE DEF s
<1>2. \A i \in 1..Len(r) : Has(s, r[i])
  BY <1>1, ElementOfSeq
<1>3. Len(r) <= Len(s)
  BY <1>1, <1>2, RisingInto
<1> QED BY <1>3 DEF s

\* The bars of a page, one step each.
Onward(v) ==
  IF v >= W.hi \/ NextBoundary(bar, v) - call.cursor > route.maxSpan
  THEN v ELSE NextBoundary(bar, v)
PageRun(F, n) ==
  /\ F[0] = call.cursor /\ \A k \in 1..n : F[k] = Onward(F[k-1])
  /\ PageEnd = Smaller(W.hi, F[n])

LEMMA PageSteps ==
  ASSUME IsGrid(bar, Horizon), call.cursor \in 0..Horizon, W.hi \in 0..Horizon,
         NEW n \in Nat, n = BoundedLimit
  PROVE  \E F \in [0..n -> Nat] : PageRun(F, n)
<1> DEFINE step == [k \in 1..n |-> [v \in Nat |-> Onward(v)]]
<1>0. Horizon \in Nat /\ call.cursor \in Nat /\ W.hi \in Nat
  BY BackfillAssumption
<1>1. ASSUME NEW v \in Nat PROVE Onward(v) \in Nat
  <2>1. CASE v >= W.hi
    BY <2>1 DEF Onward
  <2>2. CASE ~(v >= W.hi)
    <3>1. v \in 0..Horizon
      BY <1>0, <2>2
    <3>2. NextBoundary(bar, v) \in Nat
      BY <1>0, <3>1, GridNext
    <3> QED BY <3>2 DEF Onward
  <2> QED BY <2>1, <2>2
<1>2. step \in [1..n -> [Nat -> Nat]]
  BY <1>1
<1>3. PICK F \in [0..n -> Nat] : Steps(F, n, call.cursor, step)
  <2> HIDE DEF step
  <2> QED BY <1>0, <1>2, StepsExist
<1>4. F[0] = call.cursor /\ \A k \in 1..n : k - 1 \in 0..n /\ F[k] = Onward(F[k-1])
  <2>1. ASSUME NEW k \in 1..n PROVE F[k-1] \in Nat
    <3>1. k - 1 \in 0..n
      OBVIOUS
    <3> QED BY <3>1
  <2>2. ASSUME NEW k \in 1..n PROVE step[k][F[k-1]] = Onward(F[k-1])
    BY <2>1
  <2>3. \A k \in 1..n : k - 1 \in 0..n
    OBVIOUS
  <2> HIDE DEF step
  <2> QED BY <1>3, <2>2, <2>3 DEF Steps
<1> DEFINE a == CHOOSE a : a = [k \in 0..n |-> IF k = 0 THEN call.cursor
                                                ELSE Onward(a[k-1])]
<1>5. F = [k \in 0..n |-> IF k = 0 THEN call.cursor ELSE Onward(F[k-1])]
  <2>1. ASSUME NEW k \in 0..n, k # 0 PROVE F[k] = Onward(F[k-1])
    <3>1. k \in 1..n
      BY <2>1
    <3> QED BY <1>4, <3>1
  <2> QED BY <1>4, <2>1
<1>6. a = [k \in 0..n |-> IF k = 0 THEN call.cursor ELSE Onward(a[k-1])]
  <2>1. \E f : f = [k \in 0..n |-> IF k = 0 THEN call.cursor ELSE Onward(f[k-1])]
    BY <1>5
  <2> QED BY <2>1, Zenon
<1>7. PageEnd = Smaller(W.hi, a[n])
  BY DEF PageEnd, Onward
<1> HIDE DEF a
<1> DEFINE T == {k \in 0..n : a[k] = F[k]}
<1>8. 0 \in T
  BY <1>4, <1>6
<1>9. ASSUME NEW k \in 1..n, k - 1 \in T PROVE k \in T
  <2>1. k \in 0..n /\ k # 0
    OBVIOUS
  <2>2. a[k] = Onward(a[k-1])
    BY <1>6, <2>1
  <2>3. F[k] = Onward(F[k-1])
    BY <1>4
  <2>4. a[k-1] = F[k-1]
    BY <1>9
  <2>5. a[k] = F[k]
    BY <2>2, <2>3, <2>4
  <2> QED BY <2>1, <2>5
<1> HIDE DEF T
<1>10. n \in 0..n
  OBVIOUS
<1>11. n \in T
  BY <1>8, <1>9, <1>10, Climb
<1>12. a[n] = F[n]
  BY <1>11 DEF T
<1> QED BY <1>4, <1>7, <1>12 DEF PageRun

\* A page ends in its window, after at most BoundedLimit bars.
LEMMA PageEndIs ==
  ASSUME IsGrid(bar, Horizon), call.cursor \in 0..Horizon, W.hi \in 0..Horizon,
         call.cursor <= W.hi, BoundedLimit \in Nat
  PROVE  /\ PageEnd \in Nat /\ call.cursor <= PageEnd /\ PageEnd <= W.hi
         /\ \A r \in Seq(Nat) :
              /\ Rising(r)
              /\ \A i \in 1..Len(r) : Aligned(bar, r[i]) /\ call.cursor <= r[i] /\ r[i] < PageEnd
              => Len(r) <= BoundedLimit
<1> DEFINE n == BoundedLimit
<1>0. Horizon \in Nat /\ call.cursor \in Nat /\ W.hi \in Nat /\ n \in Nat
  BY BackfillAssumption
<1>1. PICK F \in [0..n -> Nat] : PageRun(F, n)
  BY PageSteps
<1> HIDE DEF n
<1>2. /\ F[0] = call.cursor /\ \A k \in 1..n : F[k] = Onward(F[k-1])
      /\ PageEnd = Smaller(W.hi, F[n])
  BY <1>1 DEF PageRun
<1>3. \A k \in 0..n : F[k] \in Nat
  BY <1>1
<1>4. ASSUME NEW v \in Nat
      PROVE  /\ v <= Onward(v)
             /\ \A u \in Nat : Aligned(bar, u) /\ v < u => Onward(v) <= u
  <2>1. CASE v >= W.hi
    BY <1>0, <2>1 DEF Onward
  <2>2. CASE ~(v >= W.hi)
    <3>1. v \in 0..Horizon
      BY <1>0, <2>2
    <3>2. /\ NextBoundary(bar, v) \in Nat /\ v < NextBoundary(bar, v)
          /\ \A u \in Nat : Aligned(bar, u) /\ v < u => NextBoundary(bar, v) <= u
      BY <1>0, <3>1, GridNext
    <3>3. Onward(v) = v \/ Onward(v) = NextBoundary(bar, v)
      BY DEF Onward
    <3> QED BY <3>2, <3>3
  <2> QED BY <2>1, <2>2
<1>5. call.cursor <= F[n]
  <2> DEFINE T == {k \in 0..n : call.cursor <= F[k]}
  <2>1. 0 \in T
    BY <1>0, <1>2
  <2>2. ASSUME NEW k \in 1..n, k - 1 \in T PROVE k \in T
    <3>1. k - 1 \in 0..n /\ k \in 0..n /\ call.cursor <= F[k-1]
      BY <2>2
    <3>2. F[k-1] <= F[k] /\ F[k-1] \in Nat /\ F[k] \in Nat
      BY <1>2, <1>3, <1>4, <3>1
    <3> QED BY <1>0, <3>1, <3>2
  <2> HIDE DEF T
  <2>3. n \in 0..n
    BY <1>0
  <2>4. n \in T
    BY <1>0, <2>1, <2>2, <2>3, Climb
  <2> QED BY <2>4 DEF T
<1>6. n \in 0..n /\ F[n] \in Nat
  BY <1>0, <1>3
<1>7. PageEnd \in Nat /\ call.cursor <= PageEnd /\ PageEnd <= W.hi /\ PageEnd <= F[n]
  BY <1>0, <1>2, <1>5, <1>6 DEF Smaller
<1>8. ASSUME NEW r \in Seq(Nat), Rising(r),
             \A i \in 1..Len(r) : Aligned(bar, r[i]) /\ call.cursor <= r[i] /\ r[i] < PageEnd
      PROVE  Len(r) <= n
  <2> SUFFICES ASSUME n < Len(r) PROVE FALSE
    BY <1>0
  <2> DEFINE T == {k \in 0..n : F[k] <= r[k+1]}
  <2>0. \A k \in 0..n : k + 1 \in 1..Len(r) /\ r[k+1] \in Nat
    BY <1>0, ElementOfSeq
  <2>1. 0 \in T
    <3>1. 0 \in 0..n /\ 0 + 1 = 1 /\ 1 \in 1..Len(r)
      BY <1>0
    <3> QED BY <1>2, <1>8, <3>1
  <2>2. ASSUME NEW k \in 1..n, k - 1 \in T PROVE k \in T
    <3>1. k - 1 \in 0..n /\ k \in 0..n /\ F[k-1] <= r[(k-1)+1] /\ (k - 1) + 1 = k
      BY <2>2
    <3>2. F[k-1] \in Nat /\ r[k] \in Nat /\ r[k+1] \in Nat /\ k \in 1..Len(r)
          /\ k + 1 \in 1..Len(r) /\ k < k + 1
      <4>1. k + 1 \in 1..Len(r) /\ (k - 1) + 1 \in 1..Len(r) /\ r[(k-1)+1] \in Nat /\ r[k+1] \in Nat
        BY <2>0, <3>1
      <4> QED BY <1>3, <3>1, <4>1
    <3>3. r[k] < r[k+1]
      BY <1>8, <3>2 DEF Rising
    <3>4. F[k-1] < r[k+1] /\ Aligned(bar, r[k+1])
      BY <1>8, <3>1, <3>2, <3>3
    <3>5. Onward(F[k-1]) <= r[k+1]
      BY <1>4, <3>2, <3>4
    <3>6. F[k] <= r[k+1]
      BY <1>2, <3>5
    <3> QED BY <3>1, <3>6
  <2> HIDE DEF T
  <2>3. n \in T
    BY <1>0, <1>6, <2>1, <2>2, Climb
  <2>4. F[n] <= r[n+1] /\ r[n+1] \in Nat /\ n + 1 \in 1..Len(r)
    BY <1>6, <2>0, <2>3 DEF T
  <2>5. r[n+1] < PageEnd
    BY <1>8, <2>4
  <2> QED BY <1>6, <1>7, <2>4, <2>5
<1> QED BY <1>7, <1>8 DEF n

\* No rows before c on the page; at most room rows from c to e.
NotBefore(c, page) == \A i \in 1..Len(page) : c <= page[i]
Room(c, e, room) ==
  \A r \in Seq(Nat) :
    Rising(r) /\ (\A i \in 1..Len(r) : r[i] \in world /\ c <= r[i] /\ r[i] <= e)
      => Len(r) <= room

\* An honest page that is longer than that has e.
LEMMA HonestHas ==
  ASSUME NEW n \in Nat, world \in SUBSET (0..n), NEW since \in Nat, NEW bound, NEW limit \in Nat,
         NEW e \in world, since <= e, e < bound, NEW room \in Nat, room <= limit,
         NEW c \in Nat,
         NotBefore(c, Honest(since, bound, limit)), since = c \/ room > 0, Room(c, e, room)
  PROVE  Has(Honest(since, bound, limit), e)
<1> DEFINE h == Honest(since, bound, limit)
<1>1. /\ h \in Seq(world) /\ Len(h) <= limit
      /\ \/ Has(h, e)
         \/ /\ Len(h) = limit
            /\ \E r \in Seq(world) :
                 /\ Rising(r) /\ Len(r) = limit + 1
                 /\ \A i \in 1..limit : r[i] = h[i]
                 /\ r[limit + 1] <= e /\ since <= r[limit + 1] /\ r[limit + 1] < bound
  BY HonestIs
<1>2. \A i \in 1..Len(h) : c <= h[i]
  BY DEF NotBefore
<1> HIDE DEF h
<1>3. ASSUME NEW r \in Seq(world), Rising(r), Len(r) = limit + 1, Len(h) = limit,
             \A i \in 1..limit : r[i] = h[i], r[limit + 1] <= e, since <= r[limit + 1]
      PROVE  FALSE
  <2>1. \A x \in world : x \in Nat
    OBVIOUS
  <2>2. r \in Seq(Nat) /\ \A i \in 1..Len(r) : r[i] \in world /\ r[i] \in Nat
    <3>1. r \in Seq(Nat)
      BY <2>1, WiderSeq
    <3>2. \A i \in 1..Len(r) : r[i] \in world
      BY ElementOfSeq
    <3> QED BY <2>1, <3>1, <3>2
  <2>3. \A i \in 1..limit : c <= r[i] /\ i \in 1..Len(r) /\ i < limit + 1
    BY <1>2, <1>3
  <2>4. limit + 1 \in 1..Len(r) /\ r[limit + 1] \in Nat /\ e \in Nat
    BY <1>3, <2>1, <2>2
  <2>5. \A i \in 1..limit : r[i] < r[limit + 1]
    BY <1>3, <2>3, <2>4 DEF Rising
  <2>6. c <= r[limit + 1]
    <3>1. CASE since = c
      BY <1>3, <3>1
    <3>2. CASE room > 0
      <4>1. 1 \in 1..limit
        BY <3>2
      <4>2. c <= r[1] /\ r[1] < r[limit + 1] /\ r[1] \in Nat
        BY <2>2, <2>3, <2>5, <4>1
      <4> QED BY <2>4, <4>2
    <3> QED BY <3>1, <3>2
  <2>7. ASSUME NEW i \in 1..Len(r) PROVE r[i] \in world /\ c <= r[i] /\ r[i] <= e
    <3>1. CASE i = limit + 1
      BY <1>3, <2>2, <2>6, <3>1
    <3>2. CASE i # limit + 1
      <4>1. i \in 1..limit
        BY <1>3, <3>2
      <4>2. r[i] < r[limit + 1] /\ r[i] \in Nat /\ c <= r[i]
        BY <2>2, <2>3, <2>5, <4>1
      <4>3. r[i] <= e
        BY <1>3, <2>4, <4>2
      <4> QED BY <2>2, <4>2, <4>3
    <3> QED BY <3>1, <3>2
  <2>8. Len(r) <= room
    BY <1>3, <2>2, <2>7 DEF Room
  <2> QED BY <1>3, <2>8
<1>4. Has(h, e)
  BY <1>1, <1>3
<1> QED BY <1>4 DEF h

\* A page of a bounded venue has every bar of its window.
LEMMA BoundedAnswer ==
  ASSUME NEW n \in Nat, world \in SUBSET (0..n), \A t \in world : Aligned(bar, t),
         route \in Routes, route.kind = "bounded", IsGrid(bar, Horizon),
         call.cursor \in 0..Horizon, W.hi \in 0..Horizon, W.lo \in Nat,
         W.lo <= call.cursor, call.cursor <= W.hi,
         NEW page \in BoundedAnswers, WithinPage(page),
         NEW e \in world, call.cursor <= e, e < PageEnd
  PROVE  Has(page, e)
<1> DEFINE c == call.cursor
           pe == PageEnd
           accept == IF route.acceptEnd THEN 1 ELSE 0
           bars == Len(BarStarts(bar, c, pe))
           limit == Smaller(route.maxBars, bars + accept)
           bound == pe + accept
           room == Smaller(BoundedLimit, bars)
<1>0. /\ Horizon \in Nat /\ c \in Nat /\ e \in Nat /\ PageLimit \in Nat
      /\ route.maxBars \in Nat /\ accept \in Nat
  BY BackfillAssumption, PagingAssumption DEF Routes
<1>1. BoundedLimit \in Nat /\ BoundedLimit <= route.maxBars
  BY <1>0 DEF BoundedLimit, Smaller
<1>2. /\ pe \in Nat /\ c <= pe /\ pe <= W.hi
      /\ \A r \in Seq(Nat) :
           /\ Rising(r)
           /\ \A i \in 1..Len(r) : Aligned(bar, r[i]) /\ c <= r[i] /\ r[i] < pe
           => Len(r) <= BoundedLimit
  BY <1>1, PageEndIs
<1> HIDE DEF pe
<1>3. bars \in Nat
  BY <1>0, <1>2, BarStartsIs
<1>4. \A r \in Seq(Nat) :
           /\ Rising(r)
           /\ \A i \in 1..Len(r) : Aligned(bar, r[i]) /\ c <= r[i] /\ r[i] < pe
           => Len(r) <= bars
  BY <1>0, <1>2, CountBars
<1>5. page \in Answers(c, bound, limit)
  BY DEF BoundedAnswers, pe
<1> HIDE DEF bars, c, accept
<1>6. /\ limit \in Nat /\ room \in Nat /\ room <= limit /\ limit + 1 \in Nat /\ room <= limit + 1
      /\ bound \in Nat /\ pe <= bound
  BY <1>0, <1>1, <1>2, <1>3 DEF Smaller
<1>7. ASSUME NEW r \in Seq(Nat), Rising(r),
             \A i \in 1..Len(r) : r[i] \in world /\ c <= r[i] /\ r[i] <= e
      PROVE  Len(r) <= room
  <2>1. \A i \in 1..Len(r) : Aligned(bar, r[i]) /\ c <= r[i] /\ r[i] < pe
    <3>1. \A i \in 1..Len(r) : r[i] \in Nat
      BY ElementOfSeq
    <3>2. e < pe
      BY DEF pe
    <3> QED BY <1>0, <1>2, <1>7, <3>1, <3>2
  <2>2. Len(r) <= BoundedLimit /\ Len(r) <= bars
    BY <1>2, <1>4, <1>7, <2>1
  <2> QED BY <2>2 DEF Smaller
<1> HIDE DEF room, limit, bound
<1>r. Room(c, e, room)
  BY <1>7 DEF Room
<1>8. room > 0
  <2>1. <<e>> \in Seq(Nat) /\ Len(<<e>>) = 1 /\ <<e>>[1] = e
    BY <1>0
  <2>2. Rising(<<e>>)
    BY <2>1 DEF Rising
  <2>3. \A i \in 1..Len(<<e>>) : <<e>>[i] \in world /\ c <= <<e>>[i] /\ <<e>>[i] <= e
    <3>1. c <= e /\ e <= e
      BY <1>0 DEF c
    <3>2. \A i \in 1..1 : i = 1
      OBVIOUS
    <3> QED BY <2>1, <3>1, <3>2
  <2>4. Len(<<e>>) <= room
    BY <1>7, <2>1, <2>2, <2>3
  <2> QED BY <1>6, <2>1, <2>4
<1>9. e < bound /\ e < Horizon + 2 /\ c <= e /\ W.lo <= e
  <2>1. e < pe /\ c <= e /\ W.lo <= c
    BY DEF pe, c
  <2> QED BY <1>0, <1>2, <1>6, <2>1
<1> DEFINE honest == Honest(c, bound, limit)
           first == Honest(W.lo, bound, limit)
           more == Honest(c, Horizon + 2, limit + 1)
           strays == {t \in world : t < c \/ t >= bound}
                       \cup {t \in Strays : ~IsFunding /\ ~Aligned(bar, t)}
<1>10. honest \in Seq(world) /\ \A i \in 1..Len(honest) : c <= honest[i]
  BY <1>6, HonestIs
<1>11. Has(honest, e)
  <2>1. NotBefore(c, Honest(c, bound, limit))
    BY <1>10 DEF NotBefore
  <2> QED BY <1>0, <1>6, <1>r, <1>9, <2>1, HonestHas
<1>12. Has(more, e)
  <2>1. \A i \in 1..Len(more) : c <= more[i]
    BY <1>6, HonestIs
  <2>2. NotBefore(c, Honest(c, Horizon + 2, limit + 1))
    BY <2>1 DEF NotBefore
  <2> QED BY <1>0, <1>6, <1>r, <1>9, <2>2, HonestHas
<1>13. ASSUME page = first PROVE Has(page, e)
  <2>1. \A i \in 1..Len(page) : c <= page[i]
    <3>1. \A t \in ToSet(page) : c <= t \/ t = pe
      BY DEF WithinPage, pe, c
    <3>2. \A i \in 1..Len(page) : c <= page[i] \/ page[i] = pe
      <4>1. page \in Seq(world)
        BY <1>6, <1>13, HonestIs
      <4>2. \A i \in 1..Len(page) : page[i] \in ToSet(page)
        BY <4>1 DEF ToSet
      <4> QED BY <3>1, <4>2
    <3> QED BY <1>2, <3>2
  <2>2. NotBefore(c, Honest(W.lo, bound, limit))
    BY <1>13, <2>1 DEF NotBefore
  <2>3. Has(Honest(W.lo, bound, limit), e)
    BY <1>0, <1>6, <1>r, <1>8, <1>9, <2>2, HonestHas
  <2> QED BY <1>13, <2>3
<1>14. page \in Truthful(honest) \cup
        ({<<t>> \o honest : t \in strays} \cup {honest \o <<t>> : t \in strays}
        \cup {first, more, Reverse(honest)})
  BY <1>5 DEF Answers, Wild
<1> HIDE DEF honest, first, more, strays
<1>15. Len(honest) \in Nat
  BY <1>10
<1>16. PICK j \in 1..Len(honest) : honest[j] = e
  BY <1>11 DEF Has
<1>17. CASE page \in Truthful(honest)
  <2>1. Exhaustive
    BY DEF Exhaustive
  <2> QED BY <1>11, <1>17, <2>1 DEF Truthful
<1>18. ASSUME NEW t \in strays, page = <<t>> \o honest PROVE Has(page, e)
  <2>1. /\ Len(page) = Len(honest) + 1
        /\ \A i \in 1..Len(honest) : page[i + 1] = honest[i]
    BY <1>10, <1>18
  <2>2. j + 1 \in 1..Len(page) /\ page[j + 1] = e
    BY <1>15, <1>16, <2>1
  <2> QED BY <2>2 DEF Has
<1>19. ASSUME NEW t \in strays, page = honest \o <<t>> PROVE Has(page, e)
  <2>1. /\ Len(page) = Len(honest) + 1
        /\ \A i \in 1..Len(honest) : page[i] = honest[i]
    BY <1>10, <1>19
  <2>2. j \in 1..Len(page) /\ page[j] = e
    BY <1>15, <1>16, <2>1
  <2> QED BY <2>2 DEF Has
<1>20. CASE page = Reverse(honest)
  <2>1. page = [i \in 1..Len(honest) |-> honest[(Len(honest) - i) + 1]]
    BY <1>20 DEF Reverse
  <2>2. /\ (Len(honest) - j) + 1 \in 1..Len(honest)
        /\ (Len(honest) - ((Len(honest) - j) + 1)) + 1 = j
    BY <1>15, <1>16
  <2>3. Len(page) = Len(honest) /\ page[(Len(honest) - j) + 1] = e
    BY <1>15, <1>16, <2>1, <2>2
  <2> QED BY <2>2, <2>3 DEF Has
<1>21. CASE page = more
  BY <1>12, <1>21
<1>22. CASE page \in {<<t>> \o honest : t \in strays}
  BY <1>18, <1>22
<1>23. CASE page \in {honest \o <<t>> : t \in strays}
  BY <1>19, <1>23
<1> QED BY <1>13, <1>14, <1>17, <1>20, <1>21, <1>22, <1>23

-----------------------------------------------------------------------------
(* One window of a call.                                                   *)

LEMMA Bars ==
  ASSUME bar \in UsedBars
  PROVE  /\ IsGrid(bar, Horizon) /\ Horizon \in Nat
         /\ \A t \in Instant : Floor(bar, t) \in Instant /\ Floor(bar, t) <= t
                               /\ Floor(bar, Floor(bar, t)) = Floor(bar, t)
<1>1. IsGrid(bar, Horizon) /\ Horizon \in Nat
  BY BackfillAssumption
<1>2. \A t \in Instant : t \in Nat
  BY <1>1 DEF Instant
<1>3. \A t \in Instant : Floor(bar, t) \in Nat /\ Floor(bar, t) <= t /\ Aligned(bar, Floor(bar, t))
  BY <1>1, <1>2, GridFloor
<1> QED BY <1>1, <1>3 DEF Instant, Aligned

LEMMA OverShows ==
  ASSUME NEW s \in Seq(Fact), NEW t
  PROVE  Over(s, t) <=> Shows(s, t, "available") \/ Shows(s, t, "unavailable")
<1>1. \A i \in 1..Len(s) : s[i].status = "available" \/ s[i].status = "unavailable"
  BY ElementOfSeq, FactFields DEF Statuses
<1> QED BY <1>1 DEF Over, Shows

\* What a window is, where it and its gaps end.
WindowOf(w) ==
  /\ w \in Fetch /\ w.lo \in Nat /\ w.hi \in Nat /\ w.gaps \in Seq(Gap) /\ w.gaps # <<>>
  /\ call.lo <= w.lo /\ w.lo < w.hi /\ w.hi <= call.hi /\ w.hi <= Horizon
  /\ \A j \in 1..Len(w.gaps) : /\ w.gaps[j].lo \in Nat /\ w.gaps[j].hi \in Nat
                               /\ w.gaps[j].lo < w.gaps[j].hi
                               /\ w.lo <= w.gaps[j].lo /\ w.gaps[j].hi <= w.hi
  /\ ~IsFunding => /\ Aligned(bar, w.lo) /\ Aligned(bar, w.hi)
                   /\ \A j \in 1..Len(w.gaps) :
                        Aligned(bar, w.gaps[j].lo) /\ Aligned(bar, w.gaps[j].hi)
  /\ ~IsBars => \A t \in Nat : Over(w.gaps, t) <=> w.lo <= t /\ t < w.hi

\* The windows of a call are in its request and, on a grid, end where bars do.
LEMMA WindowKept ==
  ASSUME DataInv, CallInv, BackedInv, ~At("idle"), NEW i \in 1..Len(call.windows)
  PROVE  WindowOf(call.windows[i])
<1> DEFINE w == call.windows[i]
           g == w.gaps
           all == AllGaps(call.windows)
<1>1. /\ call.windows \in Seq(Fetch) /\ call.lo \in 0..Horizon /\ call.hi \in 0..Horizon
      /\ call.lo < call.hi /\ Horizon \in Nat
      /\ all = MissingGaps(coverage, call.lo, call.hi)
      /\ Holds(w) /\ (~IsBars => Len(w.gaps) = 1)
  <2>1. call.windows \in Seq(Fetch) /\ call.lo \in 0..Horizon /\ call.hi \in 0..Horizon
    BY DEF CallInv, Calls, Instant
  <2>2. /\ call.lo < call.hi
        /\ all = MissingGaps(coverage, call.lo, call.hi)
        /\ Holds(w) /\ (~IsBars => Len(w.gaps) = 1)
    BY DEF CallInv, WindowsInv
  <2> QED BY <2>1, <2>2, BackfillAssumption
<1>2. call.lo \in Nat /\ call.hi \in Nat /\ coverage \in Seq(Fact) /\ Normal(coverage)
  BY <1>1 DEF DataInv
<1>3. /\ all \in Seq(Gap)
      /\ \A k \in 1..Len(all) : call.lo <= all[k].lo /\ all[k].hi <= call.hi
  <2> DEFINE m == MissingGaps(coverage, call.lo, call.hi)
  <2>1. m \in Seq(Gap) /\ \A k \in 1..Len(m) : call.lo <= m[k].lo /\ m[k].hi <= call.hi
    BY <1>1, <1>2, MissingGapsAre
  <2> QED BY <1>1, <2>1
<1>4. w \in Fetch /\ g # <<>> /\ w.lo = g[1].lo /\ w.hi = Last(g).hi
  BY <1>1, ElementOfSeq, FetchFields
<1>5. /\ w.lo \in Nat /\ w.hi \in Nat /\ g \in Seq(Gap)
      /\ call.lo <= w.lo /\ w.lo < w.hi /\ w.hi <= call.hi
      /\ \A j \in 1..Len(g) : /\ g[j] \in Gap /\ Has(all, g[j])
                              /\ call.lo <= g[j].lo /\ g[j].hi <= call.hi
  BY <1>1, <1>2, <1>3, WindowBounds
<1>6. \A j \in 1..Len(g) : /\ g[j].lo \in Nat /\ g[j].hi \in Nat /\ g[j].lo < g[j].hi
                           /\ w.lo <= g[j].lo /\ g[j].hi <= w.hi
  BY <1>1, <1>5, GapFields DEF Holds
<1>7. w.hi <= Horizon
  BY <1>1, <1>5
<1>8. ASSUME ~IsFunding
      PROVE  /\ Aligned(bar, w.lo) /\ Aligned(bar, w.hi)
             /\ \A j \in 1..Len(g) : Aligned(bar, g[j].lo) /\ Aligned(bar, g[j].hi)
  <2>1. bar \in UsedBars
    BY DEF DataInv
  <2>2. Aligned(bar, call.lo) /\ Aligned(bar, call.hi)
    BY <1>8 DEF CallInv, WindowsInv
  <2>3. ASSUME NEW t \in 0..Horizon PROVE Over(coverage, t) <=> Over(coverage, Floor(bar, t))
    <3>1. Floor(bar, t) \in Instant /\ t \in Instant /\ Floor(bar, Floor(bar, t)) = Floor(bar, t)
      BY <2>1, Bars DEF Instant
    <3>2. /\ Shows(coverage, t, "available") <=> Floor(bar, t) \in stored
          /\ Shows(coverage, t, "unavailable") <=> Shows(coverage, Floor(bar, t), "unavailable")
          /\ Shows(coverage, Floor(bar, t), "available") <=> Floor(bar, t) \in stored
      BY <1>8, <3>1 DEF BackedInv, Backs
    <3> QED BY <1>2, <3>2, OverShows
  <2>4. IsGrid(bar, Horizon)
    BY <2>1, Bars
  <2>5. \A k \in 1..Len(all) : Aligned(bar, all[k].lo) /\ Aligned(bar, all[k].hi)
    <3> DEFINE m == MissingGaps(coverage, call.lo, call.hi)
    <3>1. \A k \in 1..Len(m) : Aligned(bar, m[k].lo) /\ Aligned(bar, m[k].hi)
      BY <1>1, <1>2, <2>2, <2>3, <2>4, GapsAligned
    <3> QED BY <1>1, <3>1
  <2>6. \A j \in 1..Len(g) : Aligned(bar, g[j].lo) /\ Aligned(bar, g[j].hi)
    BY <1>5, <2>5 DEF Has
  <2>7. 1 \in 1..Len(g) /\ Len(g) \in 1..Len(g) /\ Last(g) = g[Len(g)]
    BY <1>4, <1>5 DEF Last
  <2> QED BY <1>4, <2>6, <2>7
<1>9. ASSUME ~IsBars, NEW t \in Nat PROVE Over(g, t) <=> w.lo <= t /\ t < w.hi
  <2>1. Len(g) = 1 /\ Last(g) = g[1]
    BY <1>1, <1>9 DEF Last
  <2>2. Over(g, t) <=> t \in Instants(g[1])
    <3>1. \A j \in 1..1 : j = 1
      OBVIOUS
    <3> QED BY <2>1, <3>1 DEF Over
  <2>3. g[1].lo \in Nat /\ g[1].hi \in Nat
    BY <1>6, <2>1
  <2> QED BY <1>4, <2>1, <2>2, <2>3 DEF Instants
<1> HIDE DEF w
<1> QED BY <1>4, <1>5, <1>6, <1>7, <1>8, <1>9 DEF WindowOf, w

\* An accepted observation: rows of the venue in whole observed bars.
Observation(o, present) ==
  /\ o \in Seq(Span)
  /\ present \subseteq world
  /\ \A t \in Instant : Floor(bar, t) \in present => Over(o, t)
  /\ \A t \in Instant : Over(o, t) <=> Over(o, Floor(bar, t))
  /\ \A t \in Instant : Over(o, t) /\ Floor(bar, t) \in world => Floor(bar, t) \in present
  /\ Exhaustive => \A t \in Instant : W.lo <= t /\ t < W.hi => Over(o, t)

LEMMA ObservedRows ==
  ASSUME DataInv, CallInv, BackedInv, At("exhausted"), ValidObservation, ~IsFunding
  PROVE  /\ call.rows \in Seq(world) /\ call.rows \in Seq(0..Horizon)
         /\ \A i \in 1..Len(call.rows) : Aligned(bar, call.rows[i])
         /\ WindowOf(W)
<1>1. /\ call \in Calls /\ Looping /\ LoopInv /\ ~At("idle")
      /\ call.at \in 1..Len(call.windows)
  BY DEF CallInv, WindowsInv, Looping, At
<1>2. WindowOf(W)
  BY <1>1, WindowKept DEF W
<1>3. /\ call.rows \in Seq(PageRows)
      /\ \A i \in 1..Len(call.rows) : call.rows[i] < W.hi
  BY <1>1 DEF Calls, LoopInv
<1>4. \A i \in 1..Len(call.rows) : Aligned(bar, call.rows[i])
  BY DEF ValidObservation, ValidOnGrid, RowsOnGrid, ToSet
<1>5. \A i \in 1..Len(call.rows) : call.rows[i] \in world
  <2>1. \A i \in 1..Len(call.rows) : call.rows[i] \in PageRows
    BY <1>3, ElementOfSeq
  <2> QED BY <1>4, <2>1 DEF PageRows
<1>6. \A x \in world : x \in Nat
  BY BackfillAssumption DEF DataInv
<1>7. \A i \in 1..Len(call.rows) : call.rows[i] \in 0..Horizon
  <2>1. W.hi \in Nat /\ W.hi <= Horizon /\ Horizon \in Nat
    BY <1>2, BackfillAssumption DEF WindowOf
  <2> QED BY <1>3, <1>5, <1>6, <2>1
<1>8. ASSUME NEW A, \A i \in 1..Len(call.rows) : call.rows[i] \in A
      PROVE  call.rows \in Seq(A)
  <2>1. Len(call.rows) \in Nat /\ call.rows = [i \in 1..Len(call.rows) |-> call.rows[i]]
    BY <1>3
  <2> QED BY <1>8, <2>1
<1> QED BY <1>2, <1>4, <1>5, <1>7, <1>8

LEMMA ObservedSpans ==
  ASSUME DataInv, CallInv, BackedInv, PagesInv, At("exhausted"), ValidObservation, ~IsFunding
  PROVE  /\ Observed \in Seq(Span)
         /\ route.kind # "bounded" =>
              \A t \in Nat : Over(Observed, t) <=> Has(call.rows, Floor(bar, t))
<1>1. /\ call.rows \in Seq(world) /\ call.rows \in Seq(0..Horizon)
      /\ \A i \in 1..Len(call.rows) : Aligned(bar, call.rows[i])
  BY ObservedRows
<1>2. IsGrid(bar, Horizon) /\ Horizon \in Nat
  BY Bars DEF DataInv
<1>3. route.kind \in {"bounded", "generic", "reference", "oi"}
  <2>1. route \in Routes
    BY BackfillAssumption DEF DataInv
  <2> QED BY <2>1 DEF Routes, Kinds, IsFunding
<1>4. CASE route.kind = "bounded"
  <2>1. Observed = call.observed
    BY <1>4 DEF Observed
  <2>2. call.observed \in Seq(Span)
    BY DEF CallInv, Calls
  <2> QED BY <1>4, <2>1, <2>2
<1>5. CASE route.kind \in {"generic", "reference"}
  <2>1. Observed = RowWindows(bar, call.rows)
    BY <1>5 DEF Observed
  <2>2. RowWindows(bar, call.rows) \in Seq(Span)
    BY <1>1, <1>2, RowWindowsIs
  <2>3. \A t \in Nat : Over(RowWindows(bar, call.rows), t) <=> Has(call.rows, Floor(bar, t))
    BY <1>1, <1>2, RowsProve
  <2> QED BY <2>1, <2>2, <2>3
<1>6. CASE route.kind = "oi"
  <2> DEFINE r == call.rows
             o == [i \in 1..Len(r) |-> Window(r[i], NextBoundary(bar, r[i]))]
  <2>1. Observed = o
    <3>1. DOMAIN r = 1..Len(r)
      BY <1>1
    <3> QED BY <1>6, <3>1 DEF Observed
  <2>2. \A i \in 1..Len(r) : /\ r[i] \in 0..Horizon /\ r[i] \in Nat
                             /\ NextBoundary(bar, r[i]) \in Nat /\ r[i] < NextBoundary(bar, r[i])
    <3>1. \A i \in 1..Len(r) : r[i] \in 0..Horizon
      BY <1>1, ElementOfSeq
    <3> QED BY <1>2, <3>1, GridNext
  <2>3. \A i \in 1..Len(r) : /\ o[i] \in Span
                             /\ o[i].lo = r[i] /\ o[i].hi = NextBoundary(bar, r[i])
    BY <2>2, SpanMade
  <2>4. o \in Seq(Span) /\ Len(o) = Len(r)
    <3>1. Len(r) \in Nat
      BY <1>1
    <3>2. \A i \in 1..Len(r) : Window(r[i], NextBoundary(bar, r[i])) \in Span
      BY <2>2, SpanMade
    <3> HIDE DEF r
    <3> QED BY <3>1, <3>2
  <2>5. ASSUME NEW t \in Nat, NEW i \in 1..Len(r)
        PROVE  t \in Instants(o[i]) <=> Floor(bar, t) = r[i]
    <3>1. r[i] <= t /\ t < NextBoundary(bar, r[i]) <=> Floor(bar, t) = r[i]
      BY <1>1, <1>2, <2>2, BarOf
    <3>2. t \in Instants(o[i]) <=> r[i] <= t /\ t < NextBoundary(bar, r[i])
      <4>1. o[i].lo = r[i] /\ o[i].hi = NextBoundary(bar, r[i])
        BY <2>3
      <4>2. r[i] \in Nat /\ NextBoundary(bar, r[i]) \in Nat
        BY <2>2
      <4> HIDE DEF o, r
      <4> QED BY <4>1, <4>2 DEF Instants
    <3> QED BY <3>1, <3>2
  <2> HIDE DEF o
  <2>6. \A t \in Nat : Over(o, t) <=> Has(r, Floor(bar, t))
    BY <2>4, <2>5 DEF Over, Has
  <2> QED BY <2>1, <2>4, <2>6
<1> QED BY <1>3, <1>4, <1>5, <1>6

\* An observation that passed the checks: every row is observed, no bar in
\* part, and where the venue has a bar that is observed, its row came.
LEMMA ObservedIs ==
  ASSUME DataInv, CallInv, BackedInv, PagesInv, At("exhausted"), ValidObservation, ~IsFunding
  PROVE  Observation(Observed, ToSet(call.rows))
<1> DEFINE o == Observed
           present == ToSet(call.rows)
<1>1. /\ o \in Seq(Span)
      /\ route.kind # "bounded" => \A t \in Nat : Over(o, t) <=> Has(call.rows, Floor(bar, t))
  BY ObservedSpans
<1>2. /\ call.rows \in Seq(world) /\ \A i \in 1..Len(call.rows) : Aligned(bar, call.rows[i])
      /\ WindowOf(W)
  BY ObservedRows
<1>3. /\ IsGrid(bar, Horizon) /\ Horizon \in Nat
      /\ \A t \in Instant : Floor(bar, t) \in Instant /\ Floor(bar, t) <= t
                            /\ Floor(bar, Floor(bar, t)) = Floor(bar, t)
  BY Bars DEF DataInv
<1>4. present \subseteq world /\ \A x : x \in present <=> Has(call.rows, x)
  BY <1>2 DEF ToSet, Has
<1>5. /\ \A x \in present : Over(o, x)
      /\ \A i \in 1..Len(o) : Aligned(bar, o[i].lo) /\ Aligned(bar, o[i].hi)
  <2>1. RowsObserved(call.rows, o) /\ WindowsAligned(o)
    BY DEF ValidObservation, ValidOnGrid
  <2>2. \A w \in ToSet(o) : \E i \in 1..Len(o) : o[i] = w
    BY <1>1 DEF ToSet
  <2>3. \A x \in present : Over(o, x)
    BY <2>1, <2>2 DEF RowsObserved, Over
  <2>4. DOMAIN o = 1..Len(o)
    BY <1>1
  <2> HIDE DEF o
  <2> QED BY <2>1, <2>3, <2>4 DEF WindowsAligned
<1>6. \A i \in 1..Len(o) : o[i].lo \in Nat /\ o[i].hi \in Nat
  BY <1>1, ElementOfSeq, SpanFields
<1> HIDE DEF o, present
<1>7. ASSUME NEW t \in Instant PROVE Over(o, t) <=> Over(o, Floor(bar, t))
  <2>1. t \in Nat /\ Floor(bar, t) \in Nat
    BY <1>3 DEF Instant
  <2>2. ASSUME NEW i \in 1..Len(o)
        PROVE  t \in Instants(o[i]) <=> Floor(bar, t) \in Instants(o[i])
    <3>0. o[i].lo \in Nat /\ o[i].hi \in Nat /\ Aligned(bar, o[i].lo) /\ Aligned(bar, o[i].hi)
      BY <1>5, <1>6
    <3>1. o[i].lo <= t /\ t < o[i].hi <=> o[i].lo <= Floor(bar, t) /\ Floor(bar, t) < o[i].hi
      BY <1>3, <2>1, <3>0, BarInside
    <3> QED BY <2>1, <3>0, <3>1 DEF Instants
  <2> QED BY <2>2 DEF Over
<1>8. \A t \in Instant : Floor(bar, t) \in present => Over(o, t)
  BY <1>5, <1>7
<1>9. Looping /\ route.kind = "bounded" =>
           /\ o = call.observed
           /\ \A t \in Instant : Over(call.observed, t) <=> W.lo <= t /\ t < call.cursor
           /\ \A e \in world : W.lo <= e /\ e < call.cursor => e \in present
           /\ call.cursor = W.hi
  BY DEF PagesInv, o, Observed, present
<1>10. Looping
  BY DEF Looping, At
<1>11. ASSUME NEW t \in Instant, Over(o, t), Floor(bar, t) \in world
       PROVE  Floor(bar, t) \in present
  <2>1. CASE route.kind # "bounded"
    <3>1. t \in Nat
      BY <1>3 DEF Instant
    <3> QED BY <1>1, <1>4, <1>11, <2>1, <3>1
  <2>2. CASE route.kind = "bounded"
    <3>1. W.lo <= t /\ t < call.cursor
      BY <1>9, <1>10, <1>11, <2>2
    <3>2. W.lo <= Floor(bar, t) /\ Floor(bar, t) < call.cursor
      <4>1. /\ W.lo \in Nat /\ Aligned(bar, W.lo) /\ t \in Nat /\ Floor(bar, t) \in Nat
            /\ Floor(bar, t) <= t /\ call.cursor \in Nat
        <5>1. W.lo \in Nat /\ Aligned(bar, W.lo)
          BY <1>2 DEF WindowOf
        <5>2. call.cursor \in 0..Horizon
          BY DEF CallInv, Calls, Instant
        <5>3. t \in 0..Horizon /\ Floor(bar, t) \in 0..Horizon /\ Floor(bar, t) <= t
          BY <1>3 DEF Instant
        <5> QED BY <1>3, <5>1, <5>2, <5>3
      <4>2. \A u \in Nat : Aligned(bar, u) /\ u <= t => u <= Floor(bar, t)
        BY <1>3, <4>1, GridFloor
      <4> QED BY <3>1, <4>1, <4>2
    <3> QED BY <1>9, <1>10, <1>11, <2>2, <3>2
  <2> QED BY <2>1, <2>2
<1>12. Exhaustive => \A t \in Instant : W.lo <= t /\ t < W.hi => Over(o, t)
  BY <1>9, <1>10 DEF Exhaustive, IsFunding
<1>13. Observation(o, present)
  BY <1>1, <1>4, <1>7, <1>8, <1>11, <1>12 DEF Observation
<1> QED BY <1>13 DEF o, present

\* What the rows of a window store and what they prove.
Keeps(present) == {t \in present : \E g \in ToSet(W.gaps) : t \in Instants(g)}
Proven(f, k) ==
  /\ f \in Seq(Fact) /\ k \in SUBSET world
  /\ Backs(f, k) /\ True(f)
  /\ Exhaustive => \A t \in Instant : Over(W.gaps, t) => Over(f, t)

LEMMA KeepsIs ==
  ASSUME WindowOf(W), NEW present, NEW x
  PROVE  x \in Keeps(present) <=> x \in present /\ Over(W.gaps, x)
<1>1. \A g : g \in ToSet(W.gaps) <=> \E j \in 1..Len(W.gaps) : g = W.gaps[j]
  <2>1. W.gaps \in Seq(Gap)
    BY DEF WindowOf
  <2> QED BY <2>1 DEF ToSet
<1> QED BY <1>1 DEF Keeps, Over

LEMMA KeepsBelow ==
  ASSUME WindowOf(W), Horizon \in Nat, NEW present
  PROVE  \A x \in Keeps(present) : x < Horizon
<1> TAKE x \in Keeps(present)
<1>1. Over(W.gaps, x)
  BY KeepsIs
<1>2. PICK j \in 1..Len(W.gaps) : x \in Instants(W.gaps[j])
  BY <1>1 DEF Over
<1>3. /\ W.gaps[j].lo \in Nat /\ W.gaps[j].hi \in Nat /\ W.gaps[j].hi <= W.hi
      /\ W.hi \in Nat /\ W.hi <= Horizon
  BY DEF WindowOf
<1> QED BY <1>2, <1>3 DEF Instants

LEMMA GridFactsShow ==
  ASSUME DataInv, CallInv, WindowOf(W), ~IsFunding, Observed \in Seq(Span), NEW present
  PROVE  /\ FactsOf(present) \in Seq(Fact)
         /\ \A t \in Nat : Says(FactsOf(present), t, Over(Observed, t) /\ Over(W.gaps, t),
                                Floor(bar, t) \in present)
<1>1. IsGrid(bar, Horizon) /\ Horizon \in Nat
  BY Bars DEF DataInv
<1>2. /\ W.gaps \in Seq(Gap) /\ W.lo \in Nat /\ W.hi \in Nat /\ W.lo < W.hi /\ W.hi <= Horizon
      /\ \A j \in 1..Len(W.gaps) : W.gaps[j].hi \in Nat /\ W.gaps[j].hi <= W.hi
      /\ ~IsBars => \A t \in Nat : Over(W.gaps, t) <=> W.lo <= t /\ t < W.hi
  BY DEF WindowOf
<1>3. CASE IsBars
  <2>1. FactsOf(present) = BarFacts(present)
    BY <1>3 DEF FactsOf
  <2>2. \A j \in 1..Len(W.gaps) : W.gaps[j].hi <= Horizon
    BY <1>1, <1>2
  <2>3. \E o, g : o = Observed /\ g = W.gaps
    OBVIOUS
  <2>4. PICK o, g : o = Observed /\ g = W.gaps
    BY <2>3
  <2>5. /\ BarFacts(present) \in Seq(Fact)
        /\ \A t \in Nat : Says(BarFacts(present), t, Over(o, t) /\ Over(g, t),
                               Floor(bar, t) \in present)
    BY <1>1, <1>2, <2>2, <2>4, BarFactsAre
  <2> QED BY <2>1, <2>4, <2>5
<1>4. CASE ~IsBars
  <2>1. FactsOf(present) = ObservationSegments(bar, W.lo, W.hi, present, Observed)
    BY <1>4 DEF FactsOf
  <2> DEFINE lo == W.lo
             hi == W.hi
             o == Observed
             s == ObservationSegments(bar, lo, hi, present, o)
  <2>2. lo \in 0..Horizon /\ hi \in 0..Horizon
    BY <1>1, <1>2
  <2> HIDE DEF lo, hi, o
  <2>3. /\ s \in Seq(Fact)
        /\ \A t \in Nat : Says(s, t, lo <= t /\ t < hi /\ Over(o, t), Floor(bar, t) \in present)
    BY <1>1, <2>2, ObservationIs DEF o
  <2>4. \A t \in Nat : Over(W.gaps, t) <=> lo <= t /\ t < hi
    BY <1>2, <1>4 DEF lo, hi
  <2>5. \A t \in Nat : Says(s, t, Over(o, t) /\ Over(W.gaps, t), Floor(bar, t) \in present)
    <3> HIDE DEF s
    <3> QED BY <2>3, <2>4 DEF Says
  <2> QED BY <2>1, <2>3, <2>5 DEF lo, hi, o
<1> QED BY <1>3, <1>4

\* What such a window adds is backed by its rows and true of the venue.
LEMMA GridFactsProven ==
  ASSUME DataInv, CallInv, BackedInv, PagesInv, At("exhausted"), ValidObservation, ~IsFunding
  PROVE  Proven(FactsOf(ToSet(call.rows)), Keeps(ToSet(call.rows)))
<1> DEFINE o == Observed
           present == ToSet(call.rows)
           f == FactsOf(present)
           k == Keeps(present)
           g == W.gaps
<1>1. WindowOf(W) /\ Observation(o, present)
  BY ObservedRows, ObservedIs
<1>2. /\ o \in Seq(Span) /\ present \subseteq world
      /\ \A t \in Instant : Floor(bar, t) \in present => Over(o, t)
      /\ \A t \in Instant : Over(o, t) <=> Over(o, Floor(bar, t))
      /\ \A t \in Instant : Over(o, t) /\ Floor(bar, t) \in world => Floor(bar, t) \in present
      /\ Exhaustive => \A t \in Instant : W.lo <= t /\ t < W.hi => Over(o, t)
  BY <1>1 DEF Observation
<1>3. /\ IsGrid(bar, Horizon) /\ Horizon \in Nat
      /\ \A t \in Instant : t \in Nat /\ Floor(bar, t) \in Instant
                            /\ Floor(bar, Floor(bar, t)) = Floor(bar, t)
  BY Bars DEF DataInv, Instant
<1>4. /\ f \in Seq(Fact)
      /\ \A t \in Nat : Says(f, t, Over(o, t) /\ Over(g, t), Floor(bar, t) \in present)
  BY <1>1, <1>2, GridFactsShow
<1>5. \A x : x \in k <=> x \in present /\ Over(g, x)
  BY <1>1, KeepsIs
<1>6. /\ \A j \in 1..Len(g) : /\ g[j].lo \in Nat /\ g[j].hi \in Nat
                              /\ Aligned(bar, g[j].lo) /\ Aligned(bar, g[j].hi)
                              /\ W.lo <= g[j].lo /\ g[j].hi <= W.hi
      /\ W.lo \in Nat /\ W.hi \in Nat
  BY <1>1 DEF WindowOf
<1>7. k \in SUBSET world /\ \A e \in k : e < Horizon
  BY <1>1, <1>2, <1>3, <1>5, KeepsBelow
<1> HIDE DEF o, present, f, k, g
<1>8. ASSUME NEW t \in Instant
      PROVE  /\ Over(g, t) <=> Over(g, Floor(bar, t))
             /\ Over(g, t) => W.lo <= t /\ t < W.hi
  <2>1. t \in Nat /\ Floor(bar, t) \in Nat
    BY <1>3 DEF Instant
  <2>2. ASSUME NEW i \in 1..Len(g)
        PROVE  /\ t \in Instants(g[i]) <=> Floor(bar, t) \in Instants(g[i])
               /\ t \in Instants(g[i]) => W.lo <= t /\ t < W.hi
    <3>1. g[i].lo <= t /\ t < g[i].hi <=> g[i].lo <= Floor(bar, t) /\ Floor(bar, t) < g[i].hi
      BY <1>3, <1>6, <2>1, BarInside
    <3>2. /\ g[i].lo \in Nat /\ g[i].hi \in Nat /\ W.lo \in Nat /\ W.hi \in Nat
          /\ W.lo <= g[i].lo /\ g[i].hi <= W.hi
      BY <1>6
    <3>3. /\ t \in Instants(g[i]) <=> g[i].lo <= t /\ t < g[i].hi
          /\ Floor(bar, t) \in Instants(g[i]) <=> g[i].lo <= Floor(bar, t) /\ Floor(bar, t) < g[i].hi
      BY <2>1, <3>2 DEF Instants
    <3>4. t \in Instants(g[i]) => W.lo <= t /\ t < W.hi
      BY <2>1, <3>2, <3>3
    <3> QED BY <3>1, <3>3, <3>4
  <2> QED BY <2>2 DEF Over
<1>9. ASSUME NEW t \in Instant
      PROVE  /\ Shows(f, t, "available") <=> Over(o, t) /\ Over(g, t) /\ Floor(bar, t) \in present
             /\ Shows(f, t, "unavailable") <=> Over(o, t) /\ Over(g, t) /\ Floor(bar, t) \notin present
  BY <1>3, <1>4 DEF Says
<1>10. Backs(f, k)
  <2>1. ASSUME NEW t \in Instant
        PROVE  /\ Shows(f, t, "available") <=> Floor(bar, t) \in k
               /\ Shows(f, t, "unavailable") <=> Shows(f, Floor(bar, t), "unavailable")
    <3>1. Floor(bar, t) \in Instant /\ Floor(bar, Floor(bar, t)) = Floor(bar, t)
      BY <1>3
    <3>2. Shows(f, t, "available") <=> Floor(bar, t) \in k
      BY <1>2, <1>5, <1>8, <1>9
    <3>3. Shows(f, Floor(bar, t), "unavailable") <=>
            Over(o, Floor(bar, t)) /\ Over(g, Floor(bar, t)) /\ Floor(bar, t) \notin present
      BY <1>9, <3>1
    <3> QED BY <1>2, <1>8, <1>9, <3>2, <3>3
  <2> QED BY <1>7, <2>1 DEF Backs
<1>11. True(f)
  BY <1>2, <1>9 DEF True
<1>12. ASSUME Exhaustive, NEW t \in Instant, Over(g, t) PROVE Over(f, t)
  <2>1. Over(o, t)
    BY <1>2, <1>8, <1>12
  <2> QED BY <1>4, <1>9, <1>12, <2>1, OverShows
<1>13. Proven(f, k)
  BY <1>4, <1>7, <1>10, <1>11, <1>12 DEF Proven, g
<1> QED BY <1>13 DEF f, k, present

LEMMA OneFact ==
  ASSUME NEW lo \in Nat, NEW hi \in Nat, lo < hi
  PROVE  LET f == <<Segment(lo, hi, "available")>> IN
         /\ f \in Seq(Fact)
         /\ \A t \in Nat : Shows(f, t, "available") <=> lo <= t /\ t < hi
         /\ \A t : ~Shows(f, t, "unavailable")
<1> DEFINE x == Segment(lo, hi, "available")
           f == <<x>>
<1>1. x \in Fact /\ x.lo = lo /\ x.hi = hi /\ x.status = "available"
  <2>1. "available" \in Statuses
    BY DEF Statuses
  <2> QED BY <2>1, FactMade
<1> HIDE DEF x
<1>2. f \in Seq(Fact) /\ Len(f) = 1 /\ f[1] = x /\ \A i \in 1..1 : i = 1
  BY <1>1
<1> HIDE DEF f
<1>3. \A t \in Nat : Shows(f, t, "available") <=> t \in Instants(x)
  BY <1>1, <1>2 DEF Shows
<1>4. \A t : ~Shows(f, t, "unavailable")
  BY <1>1, <1>2 DEF Shows
<1>5. \A t \in Nat : t \in Instants(x) <=> lo <= t /\ t < hi
  BY <1>1 DEF Instants
<1>6. \A t \in Nat : Shows(f, t, "available") <=> lo <= t /\ t < hi
  BY <1>3, <1>5
<1> QED BY <1>2, <1>4, <1>6 DEF f, x

\* The observed time of a funding window has all its events.
LEMMA FundingWindow ==
  ASSUME DataInv, CallInv, BackedInv, PagesInv, At("exhausted"), ValidObservation, IsFunding
  PROVE  /\ WindowOf(W) /\ call.rows \in Seq(world)
         /\ \/ Observed = <<>> /\ route.kind # "binanceFunding"
            \/ \E to \in Nat :
                 /\ Observed = <<Window(W.lo, to)>> /\ W.lo < to /\ to <= W.hi
                 /\ route.kind = "binanceFunding" => to = W.hi
                 /\ \A e \in world : W.lo <= e /\ e < to => e \in ToSet(call.rows)
<1>1. /\ call \in Calls /\ Looping /\ ~At("idle") /\ call.at \in 1..Len(call.windows)
      /\ \A i \in 1..Len(call.rows) : call.rows[i] < W.hi
  BY DEF CallInv, WindowsInv, LoopInv, Looping, At
<1>2. WindowOf(W)
  BY <1>1, WindowKept DEF W
<1>3. W.lo \in Nat /\ W.hi \in Nat /\ W.lo < W.hi
  BY <1>2 DEF WindowOf
<1>4. call.rows \in Seq(world)
  <2>1. PageRows = world
    BY DEF PageRows
  <2> QED BY <1>1, <2>1 DEF Calls
<1>5. \A x \in world : x \in Nat
  BY BackfillAssumption DEF DataInv
<1>6. Observed = FundingObserved
  BY DEF Observed, IsFunding
<1>7. /\ \A e \in world : W.lo <= e /\ call.rows # <<>> /\ e <= Last(call.rows)
             => e \in ToSet(call.rows)
      /\ route.kind = "binanceFunding" =>
           \A e \in world : W.lo <= e /\ e < W.hi => e \in ToSet(call.rows)
  BY <1>1 DEF PagesInv
<1>8. CASE route.kind = "binanceFunding"
  <2>1. Observed = <<Window(W.lo, W.hi)>>
    BY <1>6, <1>8 DEF FundingObserved
  <2> QED BY <1>2, <1>3, <1>4, <1>7, <1>8, <2>1
<1>9. CASE route.kind # "binanceFunding" /\ call.rows = <<>>
  BY <1>2, <1>4, <1>6, <1>9 DEF FundingObserved
<1>10. CASE route.kind # "binanceFunding" /\ call.rows # <<>>
  <2> DEFINE last == Last(call.rows)
             to == Smaller(W.hi, last + 1)
  <2>1. Observed = <<Window(W.lo, to)>>
    BY <1>6, <1>10 DEF FundingObserved
  <2>2. Len(call.rows) \in 1..Len(call.rows) /\ last = call.rows[Len(call.rows)]
    BY <1>4, <1>10 DEF Last
  <2>3. last \in Nat /\ last < W.hi /\ last \in ToSet(call.rows)
    <3>1. last \in world
      BY <1>4, <2>2, ElementOfSeq
    <3>2. last \in ToSet(call.rows)
      BY <1>4, <2>2 DEF ToSet
    <3> QED BY <1>1, <1>5, <2>2, <3>1, <3>2
  <2> HIDE DEF last
  <2>4. to = last + 1
    BY <1>3, <2>3 DEF Smaller
  <2>5. W.lo <= last
    <3>1. RowsObserved(call.rows, Observed)
      BY DEF ValidObservation, ValidFunding
    <3>2. \E w \in ToSet(Observed) : last \in Instants(w)
      BY <2>3, <3>1 DEF RowsObserved
    <3>3. \A w \in ToSet(<<Window(W.lo, to)>>) : w = Window(W.lo, to)
      <4> HIDE DEF to
      <4> QED BY DEF ToSet
    <3>4. last \in Instants(Window(W.lo, to))
      BY <2>1, <3>2, <3>3
    <3> QED BY <1>3, <2>3, <2>4, <3>4 DEF Instants, Window
  <2>6. \A e \in world : W.lo <= e /\ e < to => e \in ToSet(call.rows)
    <3>1. \A e \in world : e < last + 1 => e <= last
      BY <1>5, <2>3
    <3> QED BY <1>7, <1>10, <2>4, <3>1 DEF last
  <2>7. to \in Nat /\ W.lo < to /\ to <= W.hi
    BY <1>3, <2>3, <2>4, <2>5
  <2> HIDE DEF to
  <2> QED BY <1>2, <1>4, <1>10, <2>1, <2>6, <2>7
<1> QED BY <1>8, <1>9, <1>10

LEMMA FundingFactsProven ==
  ASSUME DataInv, CallInv, BackedInv, PagesInv, At("exhausted"), ValidObservation, IsFunding
  PROVE  Proven(FactsOf(ToSet(call.rows)), Keeps(ToSet(call.rows)))
<1> DEFINE present == ToSet(call.rows)
           f == FactsOf(present)
           k == Keeps(present)
<1>1. WindowOf(W) /\ call.rows \in Seq(world)
  BY FundingWindow
<1>2. present \subseteq world
  BY <1>1 DEF ToSet
<1>3. \A x : x \in k <=> x \in present /\ Over(W.gaps, x)
  BY <1>1, KeepsIs
<1>4. /\ W.lo \in Nat /\ W.hi \in Nat /\ W.lo < W.hi
      /\ \A t \in Nat : Over(W.gaps, t) <=> W.lo <= t /\ t < W.hi
  BY <1>1 DEF WindowOf, IsBars, IsFunding
<1>5. k \in SUBSET world /\ \A e \in k : e < Horizon
  BY <1>1, <1>2, <1>3, KeepsBelow, BackfillAssumption
<1>6. f = [i \in DOMAIN Observed |-> Segment(Observed[i].lo, Observed[i].hi, "available")]
  BY DEF FactsOf, FundingFacts, IsBars, IsFunding
<1>7. (\A x \in world : x \in Nat) /\ \A t \in Instant : t \in Nat
  BY BackfillAssumption DEF DataInv, Instant
<1> HIDE DEF present, f, k
<1>8. CASE Observed = <<>> /\ route.kind # "binanceFunding"
  <2>1. f = <<>>
    BY <1>6, <1>8
  <2>2. f \in Seq(Fact) /\ Len(f) = 0
    BY <2>1
  <2>3. \A t, status : ~Shows(f, t, status)
    BY <2>2 DEF Shows
  <2>4. ~Exhaustive
    BY <1>8 DEF Exhaustive, IsFunding
  <2>5. Backs(f, k) /\ True(f)
    BY <1>5, <2>3 DEF Backs, True
  <2>6. Proven(f, k)
    BY <1>5, <2>2, <2>4, <2>5 DEF Proven
  <2> QED BY <2>6 DEF f, k, present
<1>9. ASSUME NEW to \in Nat, Observed = <<Window(W.lo, to)>>, W.lo < to, to <= W.hi,
             route.kind = "binanceFunding" => to = W.hi,
             \A e \in world : W.lo <= e /\ e < to => e \in present
      PROVE  Proven(f, k)
  <2>1. f = <<Segment(W.lo, to, "available")>>
    <3>1. Window(W.lo, to).lo = W.lo /\ Window(W.lo, to).hi = to
      BY DEF Window
    <3> QED BY <1>6, <1>9, <3>1
  <2>2. /\ f \in Seq(Fact)
        /\ \A t \in Nat : Shows(f, t, "available") <=> W.lo <= t /\ t < to
        /\ \A t : ~Shows(f, t, "unavailable")
    <3> DEFINE lo == W.lo
               s == <<Segment(lo, to, "available")>>
    <3>1. lo \in Nat /\ lo < to
      BY <1>4, <1>9
    <3> HIDE DEF lo
    <3>2. /\ s \in Seq(Fact)
          /\ \A t \in Nat : Shows(s, t, "available") <=> lo <= t /\ t < to
          /\ \A t : ~Shows(s, t, "unavailable")
      BY <1>9, <3>1, OneFact
    <3> QED BY <2>1, <3>2 DEF lo
  <2>3. ASSUME NEW e \in world, Shows(f, e, "available") PROVE e \in k
    <3>1. W.lo <= e /\ e < to /\ e \in Nat
      BY <1>7, <2>2, <2>3
    <3>2. Over(W.gaps, e)
      BY <1>4, <1>9, <3>1
    <3> QED BY <1>3, <1>9, <3>1, <3>2
  <2>4. Backs(f, k)
    BY <1>5, <2>3 DEF Backs
  <2>5. True(f)
    BY <2>2 DEF True
  <2>6. ASSUME Exhaustive, NEW t \in Instant, Over(W.gaps, t) PROVE Over(f, t)
    <3>1. route.kind = "binanceFunding"
      BY <2>6 DEF Exhaustive, IsFunding
    <3>2. t \in Nat /\ W.lo <= t /\ t < to
      BY <1>4, <1>7, <1>9, <2>6, <3>1
    <3> QED BY <2>2, <3>2, OverShows
  <2> QED BY <1>5, <2>2, <2>4, <2>5, <2>6 DEF Proven
<1>10. \/ Observed = <<>> /\ route.kind # "binanceFunding"
       \/ \E to \in Nat :
            /\ Observed = <<Window(W.lo, to)>> /\ W.lo < to /\ to <= W.hi
            /\ route.kind = "binanceFunding" => to = W.hi
            /\ \A e \in world : W.lo <= e /\ e < to => e \in present
  BY FundingWindow DEF present
<1>11. CASE ~(Observed = <<>> /\ route.kind # "binanceFunding")
  <2>1. Proven(f, k)
    BY <1>9, <1>10, <1>11
  <2> QED BY <2>1 DEF f, k, present
<1> QED BY <1>8, <1>11

\* Whatever the family, a finished window adds what rows back.
LEMMA FactsProven ==
  ASSUME DataInv, CallInv, BackedInv, PagesInv, At("exhausted"), ValidObservation
  PROVE  Proven(FactsOf(ToSet(call.rows)), Keeps(ToSet(call.rows)))
BY GridFactsProven, FundingFactsProven

-----------------------------------------------------------------------------
(* Between calls.                                                          *)

Fixed == route' = route /\ bar' = bar /\ world' = world

\* Without facts, nothing is stated.
LEMMA NoFacts ==
  /\ Backs(<<>>, {}) /\ True(<<>>) /\ Idle \in Calls
<1>1. \A t, status : ~Shows(<<>>, t, status)
  BY DEF Shows
<1>2. Backs(<<>>, {})
  BY <1>1 DEF Backs
<1>3. True(<<>>)
  BY <1>1 DEF True
<1>4. 0 \in Instant /\ 0 \in 0..MaxPages /\ 0 \in 0..MaxRetries
  BY BackfillAssumption, PagingAssumption DEF Instant
<1>5. \A S : <<>> \in Seq(S)
  OBVIOUS
<1>6. Idle \in Calls
  BY <1>4, <1>5 DEF Idle, Calls
<1> QED BY <1>2, <1>3, <1>6

\* What a call recorded, coverage and files prove.
LEMMA Idles ==
  ASSUME Fixed, DataInv', Backs(coverage', stored'), True(coverage'), call' = Idle
  PROVE  WholeInv'
<1>1. call' \in Calls /\ Backs(call'.facts, call'.kept) /\ True(call'.facts)
  BY NoFacts DEF Idle
<1>2. (call \in Calls)'
  BY <1>1 DEF Fixed, Calls, PageRows, IsFunding
<1>3. At("idle")' /\ ~Looping' /\ ~At("fetched")'
  BY DEF At, Looping, Idle
<1>4. CallInv'
  BY <1>2, <1>3 DEF CallInv, WindowsInv, LoopInv
<1>5. BackedInv'
  BY <1>1 DEF BackedInv, Backs, Fixed, IsFunding
<1>6. TruthInv'
  BY <1>1 DEF TruthInv, True, Fixed, IsFunding
<1>7. PagesInv' /\ DoneInv'
  BY <1>3 DEF PagesInv, DoneInv
<1> QED BY <1>4, <1>5, <1>6, <1>7 DEF WholeInv, SyncInv

\* Most steps leave coverage and files alone.
LEMMA DataStays ==
  ASSUME DataInv, Fixed, coverage' = coverage, stored' = stored
  PROVE  DataInv'
BY DEF DataInv, Fixed, IsFunding

\* An error leaves coverage and files as they were.
LEMMA StopsKeeps ==
  ASSUME WholeInv, Stops
  PROVE  WholeInv'
<1>1. Fixed /\ coverage' = coverage /\ stored' = stored /\ call' = Idle
  BY DEF Stops, fixed, data, Fixed
<1>2. DataInv'
  BY <1>1, DataStays DEF WholeInv, SyncInv
<1>3. Backs(coverage', stored') /\ True(coverage')
  BY <1>1 DEF WholeInv, SyncInv, BackedInv, TruthInv
<1> QED BY <1>1, <1>2, <1>3, Idles

\* A route's rows are on its grid from the start.
LEMMA WorldIs ==
  ASSUME Init
  PROVE  /\ world \subseteq 0..(Horizon + 1)
         /\ ~IsFunding => \A t \in world : Aligned(bar, t)
<1>1. PICK w \in Worlds : world = IF IsFunding THEN w ELSE {Floor(bar, t) : t \in w}
  BY DEF Init
<1>2. w \subseteq 0..(Horizon + 1) /\ Horizon \in Nat /\ IsGrid(bar, Horizon)
  BY <1>1, BackfillAssumption DEF Init
<1>3. \A t \in w : Floor(bar, t) \in 0..(Horizon + 1) /\ Aligned(bar, Floor(bar, t))
  <2> TAKE t \in w
  <2>1. t \in Nat /\ t <= Horizon + 1
    BY <1>2
  <2>2. Floor(bar, t) \in Nat /\ Floor(bar, t) <= t /\ Aligned(bar, Floor(bar, t))
    BY <1>2, <2>1, GridFloor
  <2> QED BY <1>2, <2>1, <2>2
<1> QED BY <1>1, <1>2, <1>3

\* Nothing is recorded and no call is open at first.
LEMMA InitHolds ==
  ASSUME Init
  PROVE  WholeInv
<1>1. coverage = <<>> /\ stored = {} /\ call = Idle
  BY DEF Init
<1>2. DataInv
  <2>1. <<>> \in Seq(Fact) /\ Normal(<<>>)
    BY DEF Normal
  <2> QED BY <1>1, <2>1, WorldIs DEF DataInv, Init
<1>3. Backs(call.facts, call.kept) /\ True(call.facts)
  BY <1>1, NoFacts DEF Idle
<1>4. BackedInv /\ TruthInv
  BY <1>1, <1>3, NoFacts DEF BackedInv, TruthInv
<1>5. At("idle") /\ ~Looping /\ ~At("fetched")
  BY <1>1 DEF At, Looping, Idle
<1>6. CallInv
  BY <1>1, <1>5, NoFacts DEF CallInv, WindowsInv, LoopInv
<1>7. PagesInv /\ DoneInv
  BY <1>5 DEF PagesInv, DoneInv
<1> QED BY <1>2, <1>4, <1>6, <1>7 DEF WholeInv, SyncInv

-----------------------------------------------------------------------------
(* A page changes only what the loop keeps for its window.                 *)

Turned(c) ==
  /\ c \in Calls /\ c.pc \in {"paging", "probing", "exhausted"}
  /\ c.lo = call.lo /\ c.hi = call.hi /\ c.windows = call.windows /\ c.at = call.at
  /\ c.facts = call.facts /\ c.kept = call.kept
Bounded(c) ==
  /\ W.lo <= c.cursor /\ c.cursor <= W.hi
  /\ \A i \in 1..Len(c.rows) : c.rows[i] < W.hi
  /\ (c.pc # "exhausted" /\ route.kind \in {"generic", "reference", "oi"})
       => c.pages < MaxPages
  /\ c.pc = "probing" => route.kind = "generic"
Whole(c) ==
  /\ route.kind = "bounded" =>
       /\ \A t \in Instant : Over(c.observed, t) <=> W.lo <= t /\ t < c.cursor
       /\ \A e \in world : W.lo <= e /\ e < c.cursor => e \in ToSet(c.rows)
       /\ c.pc = "exhausted" => c.cursor = W.hi
  /\ IsFunding =>
       /\ \A i, j \in 1..Len(c.rows) : i < j => c.rows[i] < c.rows[j]
       /\ \A e \in world : W.lo <= e /\ e < c.cursor => e \in ToSet(c.rows)
       /\ \A e \in world : W.lo <= e /\ c.rows # <<>> /\ e <= Last(c.rows)
            => e \in ToSet(c.rows)
  /\ (c.pc = "exhausted" /\ route.kind = "binanceFunding") =>
       \A e \in world : W.lo <= e /\ e < W.hi => e \in ToSet(c.rows)

\* Then the invariant holds if the loop's own part of it does.
LEMMA Turns ==
  ASSUME WholeInv, Fixed, coverage' = coverage, stored' = stored,
         At("paging") \/ At("probing"), Turned(call'), Bounded(call'), Whole(call')
  PROVE  WholeInv'
<1>1. DataInv'
  BY DataStays DEF WholeInv, SyncInv
<1>2. /\ call'.pc \in {"paging", "probing", "exhausted"} /\ ~At("idle") /\ ~At("idle")'
      /\ call'.lo = call.lo /\ call'.hi = call.hi /\ call'.windows = call.windows
      /\ call'.at = call.at /\ call'.facts = call.facts /\ call'.kept = call.kept
      /\ ~At("fetched") /\ ~At("fetched")' /\ Looping'
  BY DEF Turned, At, Looping
<1>3. W' = W
  BY <1>2 DEF W
<1>4. (call \in Calls)'
  BY DEF Turned, Fixed, Calls, PageRows, IsFunding
<1>5. WindowsInv'
  BY <1>2, <1>3 DEF WholeInv, SyncInv, CallInv, WindowsInv, Fixed, IsFunding, IsBars
<1>6. LoopInv'
  BY <1>2, <1>3 DEF LoopInv, Bounded, Fixed, At
<1>7. PagesInv'
  BY <1>2, <1>3 DEF PagesInv, Whole, Fixed, IsFunding, At
<1>8. BackedInv' /\ TruthInv'
  BY <1>2 DEF WholeInv, SyncInv, BackedInv, TruthInv, Fixed, IsFunding, Backs, True
<1>9. DoneInv'
  BY <1>2 DEF WholeInv, DoneInv, Done, Exhaustive, Fixed
<1> QED BY <1>1, <1>2, <1>4, <1>5, <1>6, <1>7, <1>8, <1>9 DEF WholeInv, SyncInv, CallInv

\* What holds while a loop runs.
LEMMA Loops ==
  ASSUME WholeInv, Looping
  PROVE  /\ WindowOf(W) /\ call \in Calls /\ Bounded(call) /\ Whole(call)
         /\ call.at \in 1..Len(call.windows) /\ world \subseteq 0..(Horizon + 1)
         /\ IsGrid(bar, Horizon) /\ Horizon \in Nat /\ W.hi \in 0..Horizon
         /\ call.cursor \in 0..Horizon /\ route \in Routes
         /\ call.rows \in Seq(PageRows) /\ call.observed \in Seq(Span)
<1>1. ~At("idle") /\ DataInv /\ CallInv /\ BackedInv
  BY DEF WholeInv, SyncInv, Looping, At
<1>2. call.at \in 1..Len(call.windows)
  BY <1>1 DEF CallInv, WindowsInv
<1>3. WindowOf(W)
  BY <1>1, <1>2, WindowKept DEF W
<1>4. bar \in UsedBars /\ route \in UsedRoutes /\ world \subseteq 0..(Horizon + 1)
  BY <1>1 DEF DataInv
<1>5. IsGrid(bar, Horizon) /\ Horizon \in Nat
  BY <1>4, Bars
<1>6. Bounded(call) /\ call \in Calls
  BY <1>1 DEF CallInv, LoopInv, Bounded, At
<1>7. Whole(call)
  BY DEF WholeInv, PagesInv, Whole, At
<1>8. call.cursor \in 0..Horizon /\ call.rows \in Seq(PageRows) /\ call.observed \in Seq(Span)
  BY <1>6 DEF Calls, Instant
<1>9. W.hi \in 0..Horizon
  BY <1>3, <1>5 DEF WindowOf
<1> QED BY <1>2, <1>3, <1>4, <1>5, <1>6, <1>7, <1>8, <1>9, BackfillAssumption

\* A retry changes nothing else.
LEMMA RetryKeeps ==
  ASSUME WholeInv, Retry
  PROVE  WholeInv'
<1>1. /\ Fixed /\ coverage' = coverage /\ stored' = stored /\ (At("paging") \/ At("probing"))
      /\ call' = [call EXCEPT !.attempts = @ + 1] /\ call.attempts < MaxRetries
  BY DEF Retry, TransientError, MayRetry, fixed, data, Fixed
<1>2. Looping
  BY <1>1 DEF Looping, At
<1>3. call \in Calls /\ Bounded(call) /\ Whole(call)
  BY <1>2, Loops
<1>4. call.attempts + 1 \in 0..MaxRetries
  BY <1>1, <1>3, PagingAssumption DEF Calls
<1>5. call' \in Calls
  BY <1>1, <1>3, <1>4, ZenonT(60) DEF Calls
<1>6. /\ call'.pc = call.pc /\ call'.lo = call.lo /\ call'.hi = call.hi
      /\ call'.windows = call.windows /\ call'.at = call.at /\ call'.facts = call.facts
      /\ call'.kept = call.kept /\ call'.cursor = call.cursor /\ call'.rows = call.rows
      /\ call'.observed = call.observed /\ call'.pages = call.pages
  BY <1>1, <1>3 DEF Calls
<1>7. Turned(call')
  BY <1>1, <1>5, <1>6 DEF Turned, At
<1>8. Bounded(call') /\ Whole(call')
  BY <1>3, <1>6 DEF Bounded, Whole
<1> QED BY <1>1, <1>7, <1>8, Turns

-----------------------------------------------------------------------------
(* Bounded pages: what the loop keeps has every bar up to the page's end.  *)

\* The rows of a page before an instant.
LEMMA BeforeIs ==
  ASSUME NEW A, NEW page \in Seq(A), NEW t
  PROVE  /\ Before(page, t) \in Seq(A)
         /\ \A i \in 1..Len(Before(page, t)) :
              Before(page, t)[i] < t /\ Has(page, Before(page, t)[i])
         /\ \A x : Has(page, x) /\ x < t => Has(Before(page, t), x)
<1> DEFINE T == {x \in ToSet(page) : x < t}
           r == Only(page, T)
<1>1. Before(page, t) = r
  BY DEF Before
<1>2. r \in Seq(A) /\ \E at : KeptFrom(at, r, page, T, Len(page))
  BY OnlyIs
<1>3. PICK at : KeptFrom(at, r, page, T, Len(page))
  BY <1>2
<1>4. \A x : x \in T <=> Has(page, x) /\ x < t
  BY DEF ToSet, Has
<1> HIDE DEF T, r
<1>5. ASSUME NEW i \in 1..Len(r)
      PROVE  r[i] < t /\ Has(page, r[i])
  <2>1. r[i] \in T
    BY <1>3, <1>5 DEF KeptFrom
  <2> QED BY <1>4, <2>1
<1>6. ASSUME NEW x, Has(page, x), x < t
      PROVE  Has(r, x)
  <2>1. PICK k \in 1..Len(page) : page[k] = x
    BY <1>6 DEF Has
  <2>2. page[k] \in T
    BY <1>4, <1>6, <2>1
  <2>3. PICK i \in 1..Len(r) : at[i] = k
    BY <1>3, <2>1, <2>2 DEF KeptFrom
  <2>4. r[i] = page[at[i]]
    BY <1>3, <2>3 DEF KeptFrom
  <2> QED BY <2>1, <2>3, <2>4 DEF Has
<1> QED BY <1>1, <1>2, <1>5, <1>6

\* One more window observed.
LEMMA OverAppend ==
  ASSUME NEW s \in Seq(Span), NEW lo \in Nat, NEW hi \in Nat, lo < hi
  PROVE  /\ Append(s, Window(lo, hi)) \in Seq(Span)
         /\ \A t \in Nat : Over(Append(s, Window(lo, hi)), t) <=>
                             Over(s, t) \/ (lo <= t /\ t < hi)
<1> DEFINE x == Window(lo, hi)  q == Append(s, x)
<1>1. x \in Span /\ x.lo = lo /\ x.hi = hi
  BY SpanMade
<1> HIDE DEF x
<1>2. q \in Seq(Span) /\ Len(q) = Len(s) + 1 /\ Len(s) \in Nat
  BY <1>1
<1>3. q[Len(s) + 1] = x /\ \A i \in 1..Len(s) : q[i] = s[i]
  BY <1>1
<1>4. \A t \in Nat : t \in Instants(x) <=> lo <= t /\ t < hi
  BY <1>1 DEF Instants
<1> HIDE DEF q
<1>5. \A t : Over(q, t) <=> Over(s, t) \/ t \in Instants(x)
  BY <1>2, <1>3 DEF Over
<1> QED BY <1>2, <1>4, <1>5 DEF q, x

LEMMA ToSetHas ==
  ASSUME NEW A, NEW s \in Seq(A)
  PROVE  \A x : x \in ToSet(s) <=> Has(s, x)
BY DEF ToSet, Has

LEMMA RowsAreInstants ==
  ASSUME world \subseteq 0..(Horizon + 1)
  PROVE  PageRows \subseteq 0..(Horizon + 1)
<1>1. Strays \subseteq 0..(Horizon + 1)
  BY BackfillAssumption
<1> QED BY <1>1 DEF PageRows

LEMMA Limits ==
  ASSUME route \in Routes
  PROVE  /\ BoundedLimit \in Nat /\ GenericLimit \in Nat
         /\ route.maxBars \in Nat /\ PageLimit \in Nat
BY PagingAssumption DEF Routes, BoundedLimit, GenericLimit, Smaller

LEMMA BoundedTyped ==
  ASSUME WholeInv, Looping, route.kind = "bounded", NEW page \in BoundedAnswers
  PROVE  page \in Seq(PageRows)
<1>1. world \in SUBSET (0..(Horizon + 1)) /\ Horizon \in Nat /\ route \in Routes
  BY Loops
<1>2. PageEnd \in Nat /\ call.cursor \in Nat /\ IsGrid(bar, Horizon)
  BY Loops, PageEndIs, Limits DEF Bounded
<1> DEFINE accept == IF route.acceptEnd THEN 1 ELSE 0
           bars == Len(BarStarts(bar, call.cursor, PageEnd))
           limit == Smaller(route.maxBars, bars + accept)
<1>3. bars \in Nat
  BY <1>1, <1>2, BarStartsIs
<1>4. limit \in Nat
  BY <1>1, <1>3, Limits DEF Smaller
<1>5. page \in Answers(call.cursor, PageEnd + accept, limit)
  BY DEF BoundedAnswers
<1> HIDE DEF limit, accept, bars
<1>6. Horizon + 1 \in Nat
  BY <1>1
<1> QED BY <1>1, <1>4, <1>5, <1>6, AnswersTyped

\* A bounded page moves the cursor to its end and has every bar up to it.
LEMMA BoundedKeeps ==
  ASSUME WholeInv, Fixed, coverage' = coverage, stored' = stored,
         NEW page \in BoundedAnswers, BoundedPage(page)
  PROVE  WholeInv'
<1>1. /\ At("paging") /\ route.kind = "bounded" /\ PageEnd > call.cursor /\ WithinPage(page)
      /\ call' = [call EXCEPT !.rows = @ \o Before(page, PageEnd),
                          !.observed = Append(@, Window(call.cursor, PageEnd)),
                          !.cursor = PageEnd,
                          !.attempts = 0,
                          !.pc = Turn(PageEnd < W.hi)]
  BY DEF BoundedPage
<1>2. Looping /\ ~IsFunding
  BY <1>1 DEF Looping, At, IsFunding
<1>3. /\ WindowOf(W) /\ call \in Calls /\ Bounded(call) /\ Whole(call)
      /\ world \subseteq 0..(Horizon + 1) /\ IsGrid(bar, Horizon) /\ Horizon \in Nat
      /\ W.hi \in 0..Horizon /\ call.cursor \in 0..Horizon /\ route \in Routes
      /\ call.rows \in Seq(PageRows) /\ call.observed \in Seq(Span)
  BY <1>2, Loops
<1>4. /\ PageEnd \in Nat /\ call.cursor <= PageEnd /\ PageEnd <= W.hi /\ W.lo \in Nat
      /\ W.lo <= call.cursor /\ call.cursor <= W.hi
  BY <1>3, PageEndIs, Limits DEF Bounded, WindowOf
<1>5. page \in Seq(PageRows)
  BY <1>1, <1>2, BoundedTyped
<1> DEFINE end == PageEnd  w == W
           b == Before(page, end)
           o == Append(call.observed, Window(call.cursor, end))
           r == call.rows \o b
<1>6. /\ b \in Seq(PageRows)
      /\ \A i \in 1..Len(b) : b[i] < end
      /\ \A x : Has(page, x) /\ x < end => Has(b, x)
  BY <1>5, BeforeIs
<1>7. /\ o \in Seq(Span)
      /\ \A t \in Nat : Over(o, t) <=> Over(call.observed, t) \/ (call.cursor <= t /\ t < end)
  BY <1>1, <1>3, <1>4, OverAppend
<1>8. \A e \in world : call.cursor <= e /\ e < end => Has(page, e)
  <2>1. \A t \in world : Aligned(bar, t)
    BY <1>2 DEF WholeInv, SyncInv, DataInv
  <2>2. Horizon + 1 \in Nat
    BY <1>3
  <2> QED BY <1>1, <1>3, <1>4, <2>1, <2>2, BoundedAnswer
<1>9. call' = [call EXCEPT !.rows = r, !.observed = o, !.cursor = end,
                           !.attempts = 0, !.pc = Turn(end < w.hi)]
  BY <1>1, <1>3 DEF Calls
<1> HIDE DEF b, o, end, w
<1>10. r \in Seq(PageRows) /\ \A x : Has(r, x) <=> Has(call.rows, x) \/ Has(b, x)
  BY <1>3, <1>6, ConcatHas
<1> HIDE DEF r
<1>11. Turn(end < w.hi) \in {"paging", "exhausted"}
       /\ (Turn(end < w.hi) = "exhausted" => ~(end < w.hi))
  BY DEF Turn
<1>12. end \in Instant /\ end <= W.hi /\ end \in Nat /\ w = W
  BY <1>3, <1>4 DEF Instant, end, w
<1>13. 0 \in 0..MaxRetries
  BY PagingAssumption
<1>14. call' \in Calls
  BY <1>3, <1>7, <1>9, <1>10, <1>11, <1>12, <1>13, ZenonT(60) DEF Calls
<1>15. /\ call'.pc = Turn(end < w.hi) /\ call'.lo = call.lo /\ call'.hi = call.hi
       /\ call'.windows = call.windows /\ call'.at = call.at /\ call'.facts = call.facts
       /\ call'.kept = call.kept /\ call'.cursor = end /\ call'.rows = r
       /\ call'.observed = o /\ call'.pages = call.pages
  BY <1>3, <1>9 DEF Calls
<1>16. Turned(call')
  BY <1>11, <1>14, <1>15 DEF Turned
<1>17. \A i \in 1..Len(r) : r[i] < W.hi
  <2> TAKE i \in 1..Len(r)
  <2>1. Has(call.rows, r[i]) \/ Has(b, r[i])
    BY <1>10 DEF Has
  <2>2. CASE Has(call.rows, r[i])
    BY <1>3, <2>2 DEF Has, Bounded
  <2>3. CASE Has(b, r[i])
    <3>1. PICK j \in 1..Len(b) : b[j] = r[i]
      BY <2>3 DEF Has
    <3>2. b[j] < end
      BY <1>6, <3>1 DEF end
    <3>3. b[j] \in PageRows
      BY <1>6, ElementOfSeq
    <3>4. b[j] \in 0..(Horizon + 1)
      BY <1>3, <3>3, RowsAreInstants
    <3> QED BY <1>3, <1>12, <3>1, <3>2, <3>4
  <2> QED BY <2>1, <2>2, <2>3
<1>18. Bounded(call')
  <2>1. W.lo <= end
    BY <1>3, <1>4 DEF end
  <2> QED BY <1>1, <1>11, <1>12, <1>15, <1>17, <2>1 DEF Bounded
<1>19. ASSUME NEW e \in world, W.lo <= e, e < end
       PROVE  e \in ToSet(r)
  <2>1. Has(r, e)
    <3>1. e \in Nat
      BY <1>3
    <3>2. CASE e < call.cursor
      <4>1. e \in ToSet(call.rows)
        BY <1>1, <1>3, <1>19, <3>2 DEF Whole
      <4> QED BY <1>3, <1>10, <4>1, ToSetHas
    <3>3. CASE call.cursor <= e
      BY <1>6, <1>8, <1>10, <1>19, <3>3 DEF end
    <3> QED BY <1>3, <3>1, <3>2, <3>3
  <2> QED BY <1>10, <2>1, ToSetHas
<1>20. ASSUME NEW t \in Instant
       PROVE  Over(o, t) <=> W.lo <= t /\ t < end
  <2>1. t \in Nat /\ (Over(call.observed, t) <=> W.lo <= t /\ t < call.cursor)
    BY <1>1, <1>3 DEF Whole, Instant
  <2>2. Over(o, t) <=> Over(call.observed, t) \/ (call.cursor <= t /\ t < end)
    BY <1>7, <2>1 DEF o, end
  <2> QED BY <1>3, <1>4, <1>12, <2>1, <2>2 DEF end
<1>21. call'.pc = "exhausted" => end = W.hi
  BY <1>3, <1>11, <1>12, <1>15
<1>22. Whole(call')
  BY <1>1, <1>2, <1>15, <1>19, <1>20, <1>21 DEF Whole
<1> QED BY <1>1, <1>16, <1>18, <1>22, Turns

-----------------------------------------------------------------------------
(* Pages of venues that are not taken as exhaustive.                       *)

\* A page merged with the rows before it.
LEMMA MergedIs ==
  ASSUME WholeInv, Looping, NEW page \in Seq(PageRows)
  PROVE  /\ Merged(page) \in Seq(PageRows) /\ Rising(Merged(page))
         /\ \A x : Has(Merged(page), x) <=> Has(call.rows, x) \/ Has(page, x)
<1> DEFINE T == ToSet(call.rows) \cup ToSet(page)
           m == Ascending(T)
<1>1. /\ world \subseteq 0..(Horizon + 1) /\ Horizon \in Nat /\ call.rows \in Seq(PageRows)
  BY Loops
<1>2. \A x : x \in T <=> Has(call.rows, x) \/ Has(page, x)
  BY <1>1, ToSetHas
<1>3. T \subseteq PageRows
  <2>1. ToSet(call.rows) \subseteq PageRows
    BY <1>1 DEF ToSet
  <2>2. ToSet(page) \subseteq PageRows
    BY DEF ToSet
  <2> QED BY <2>1, <2>2
<1>4. T \in SUBSET (0..(Horizon + 1)) /\ Horizon + 1 \in Nat
  BY <1>1, <1>3, RowsAreInstants
<1> HIDE DEF T
<1>5. m \in Seq(T) /\ Rising(m) /\ \A x \in T : \E i \in 1..Len(m) : m[i] = x
  BY <1>4, AscendingIs
<1>6. Merged(page) = m
  BY DEF Merged, T
<1> HIDE DEF m
<1>7. m \in Seq(PageRows)
  BY <1>3, <1>5, WiderSeq
<1>8. \A x : Has(m, x) <=> x \in T
  BY <1>5 DEF Has
<1> QED BY <1>2, <1>5, <1>6, <1>7, <1>8

LEMMA MergedBelow ==
  ASSUME WholeInv, Looping, NEW page \in Seq(PageRows),
         \A i \in 1..Len(page) : page[i] < W.hi
  PROVE  \A i \in 1..Len(Merged(page)) : Merged(page)[i] < W.hi
<1>1. \A i \in 1..Len(call.rows) : call.rows[i] < W.hi
  BY Loops DEF Bounded
<1> TAKE i \in 1..Len(Merged(page))
<1>2. Has(Merged(page), Merged(page)[i])
  BY DEF Has
<1>3. Has(call.rows, Merged(page)[i]) \/ Has(page, Merged(page)[i])
  BY <1>2, MergedIs
<1> QED BY <1>1, <1>3 DEF Has

\* The last row in range moves the cursor, not past the window.
LEMMA InRange ==
  ASSUME WholeInv, Looping, NEW page \in Seq(PageRows), Before(page, W.hi) # <<>>, ~IsFunding
  PROVE  LET last == Last(Before(page, W.hi)) IN
         /\ last \in PageRows /\ last \in Nat /\ last < W.hi /\ Has(page, last)
         /\ NextBoundary(bar, last) \in Nat /\ last < NextBoundary(bar, last)
         /\ NextBoundary(bar, last) <= W.hi
<1> DEFINE r == Before(page, W.hi)  n == Len(r)  last == Last(r)
<1>1. /\ WindowOf(W) /\ world \subseteq 0..(Horizon + 1) /\ IsGrid(bar, Horizon)
      /\ Horizon \in Nat /\ W.hi \in 0..Horizon
  BY Loops
<1>2. /\ r \in Seq(PageRows) /\ \A i \in 1..Len(r) : r[i] < W.hi /\ Has(page, r[i])
  BY BeforeIs
<1> HIDE DEF r
<1>3. n \in 1..Len(r) /\ last = r[n]
  BY <1>2 DEF Last, r
<1>4. last \in PageRows /\ last < W.hi /\ Has(page, last)
  BY <1>2, <1>3
<1>5. last \in 0..(Horizon + 1)
  BY <1>1, <1>4, RowsAreInstants
<1>6. last \in 0..Horizon /\ last \in Nat
  BY <1>1, <1>4, <1>5
<1>7. Aligned(bar, W.hi) /\ W.hi \in Nat
  BY <1>1 DEF WindowOf
<1>8. /\ NextBoundary(bar, last) \in Nat /\ last < NextBoundary(bar, last)
      /\ \A u \in Nat : Aligned(bar, u) /\ last < u => NextBoundary(bar, last) <= u
  BY <1>1, <1>6, GridNext
<1>9. NextBoundary(bar, last) <= W.hi
  BY <1>4, <1>7, <1>8
<1> QED BY <1>4, <1>6, <1>8, <1>9 DEF r

\* The budget of a generic loop is within MaxPages.
LEMMA Budget ==
  ASSUME WholeInv, Looping, InBudget
  PROVE  call.pages + 1 < MaxPages
<1>1. /\ WindowOf(W) /\ IsGrid(bar, Horizon) /\ Horizon \in Nat /\ call \in Calls
      /\ route \in Routes
  BY Loops
<1>2. call.pages \in Int /\ MaxPages \in Nat
  BY <1>1, PagingAssumption DEF Calls
<1>3. Len(BarStarts(bar, W.lo, W.hi)) \in Nat
  BY <1>1, BarStartsIs DEF WindowOf
<1>4. GenericLimit \in Nat \ {0}
  BY <1>1, PagingAssumption DEF Routes, GenericLimit, Smaller
<1>5. MaxPages * GenericLimit \in Nat
  BY <1>2, <1>4
<1>6. RequestBars \in Nat
  BY <1>3, <1>5 DEF RequestBars, Smaller
<1>7. (RequestBars + GenericLimit - 1) \div GenericLimit \in Int
  BY <1>4, <1>6
<1> QED BY <1>2, <1>7 DEF InBudget, PageBudget, Smaller

-----------------------------------------------------------------------------
(* A page of bars of an unknown endpoint, of reference bars or of open     *)
(* interest: one more page, other rows, and the cursor in the window.      *)

Paged(c) ==
  /\ c = [call EXCEPT !.rows = c.rows, !.cursor = c.cursor, !.pages = c.pages,
                      !.last = c.last, !.attempts = 0, !.pc = c.pc]
  /\ c.rows \in Seq(PageRows) /\ \A i \in 1..Len(c.rows) : c.rows[i] < W.hi
  /\ c.cursor \in Int /\ W.lo <= c.cursor /\ c.cursor <= W.hi
  /\ c.last \in {NoTime} \cup PageRows \cup {call.last}
  /\ c.pages \in {call.pages, call.pages + 1}
  /\ c.pc \in {"paging", "probing", "exhausted"}
  /\ c.pc # "exhausted" => c.pages < MaxPages
  /\ c.pc = "probing" => route.kind = "generic"

\* A page that keeps the loop in its window and in its budget.
LEMMA PagedKeeps ==
  ASSUME WholeInv, Fixed, coverage' = coverage, stored' = stored,
         At("paging") \/ At("probing"), route.kind \in {"generic", "reference", "oi"},
         Paged(call')
  PROVE  WholeInv'
<1>1. Looping /\ ~IsFunding /\ call.pc # "exhausted"
  BY DEF Looping, At, IsFunding
<1>2. /\ WindowOf(W) /\ call \in Calls /\ Bounded(call) /\ Horizon \in Nat
      /\ W.hi \in 0..Horizon
  BY <1>1, Loops
<1>3. call.pages < MaxPages /\ call.pages \in 0..MaxPages
  BY <1>1, <1>2 DEF Bounded, Calls
<1>4. call'.pages \in 0..MaxPages
  BY <1>3, PagingAssumption DEF Paged
<1>5. PageRows \subseteq world \cup Strays
  BY DEF PageRows
<1>6. call'.last \in {NoTime} \cup world \cup Strays
  BY <1>2, <1>5 DEF Paged, Calls
<1>7. call'.cursor \in Instant
  BY <1>2 DEF Paged, Instant, WindowOf
<1>8. 0 \in 0..MaxRetries
  BY PagingAssumption
<1>9. PICK pc, rows, cursor, pages, last :
        /\ pc = call'.pc /\ rows = call'.rows /\ cursor = call'.cursor
        /\ pages = call'.pages /\ last = call'.last
  OBVIOUS
<1>10. call' = [call EXCEPT !.rows = rows, !.cursor = cursor, !.pages = pages,
                            !.last = last, !.attempts = 0, !.pc = pc]
  BY <1>9 DEF Paged
<1>11. /\ rows \in Seq(PageRows) /\ cursor \in Instant /\ pages \in 0..MaxPages
       /\ last \in {NoTime} \cup world \cup Strays
       /\ pc \in {"paging", "probing", "exhausted"}
  BY <1>4, <1>6, <1>7, <1>9 DEF Paged
<1>12. call' \in Calls
  BY <1>2, <1>8, <1>10, <1>11, ZenonT(60) DEF Calls
<1>13. /\ call'.lo = call.lo /\ call'.hi = call.hi
       /\ call'.windows = call.windows /\ call'.at = call.at /\ call'.facts = call.facts
       /\ call'.kept = call.kept
  BY <1>2, <1>10 DEF Calls
<1>14. Turned(call')
  BY <1>9, <1>11, <1>12, <1>13 DEF Turned
<1>15. Bounded(call')
  BY DEF Paged, Bounded
<1>16. Whole(call')
  BY <1>1 DEF Whole, IsFunding
<1> QED BY <1>14, <1>15, <1>16, Turns

LEMMA Running ==
  ASSUME WholeInv, At("paging") \/ At("probing"),
         route.kind \in {"generic", "reference", "oi"}
  PROVE  /\ Looping /\ ~IsFunding /\ WindowOf(W) /\ call \in Calls
         /\ call.rows \in Seq(PageRows) /\ \A i \in 1..Len(call.rows) : call.rows[i] < W.hi
         /\ W.lo <= call.cursor /\ call.cursor <= W.hi /\ call.cursor \in Nat
         /\ call.pages < MaxPages /\ call.pages \in Nat /\ MaxPages \in Nat
         /\ W.lo \in Nat /\ W.hi \in Nat
         /\ world \in SUBSET (0..(Horizon + 1)) /\ Horizon + 1 \in Nat /\ route \in Routes
<1>1. Looping /\ ~IsFunding /\ call.pc # "exhausted"
  BY DEF Looping, At, IsFunding
<1>2. /\ WindowOf(W) /\ call \in Calls /\ Bounded(call) /\ Horizon \in Nat
      /\ W.hi \in 0..Horizon /\ call.rows \in Seq(PageRows) /\ route \in Routes
      /\ world \subseteq 0..(Horizon + 1) /\ call.cursor \in 0..Horizon
  BY <1>1, Loops
<1>3. call.pages \in Nat /\ MaxPages \in Nat
  BY <1>2, PagingAssumption DEF Calls
<1> QED BY <1>1, <1>2, <1>3 DEF Bounded, WindowOf

LEMMA GenericEmptyKeeps ==
  ASSUME WholeInv, Fixed, coverage' = coverage, stored' = stored, GenericEmptyPage
  PROVE  WholeInv'
<1>1. /\ At("paging") /\ route.kind = "generic"
      /\ call' = [call EXCEPT !.attempts = 0,
                          !.pc = IF call.pages = 0 THEN "probing" ELSE "exhausted"]
  BY DEF GenericEmptyPage
<1>2. /\ call \in Calls /\ call.rows \in Seq(PageRows)
      /\ \A i \in 1..Len(call.rows) : call.rows[i] < W.hi
      /\ W.lo <= call.cursor /\ call.cursor <= W.hi /\ call.cursor \in Nat
      /\ call.pages < MaxPages /\ call.pages \in Nat /\ MaxPages \in Nat
  BY <1>1, Running
<1>3. /\ call'.rows = call.rows /\ call'.cursor = call.cursor /\ call'.pages = call.pages
      /\ call'.last = call.last
      /\ call'.pc = IF call.pages = 0 THEN "probing" ELSE "exhausted"
  BY <1>1, <1>2 DEF Calls
<1>4. call' = [call EXCEPT !.rows = call'.rows, !.cursor = call'.cursor,
                           !.pages = call'.pages, !.last = call'.last,
                           !.attempts = 0, !.pc = call'.pc]
  BY <1>1, <1>2, <1>3 DEF Calls
<1>5. Paged(call')
  BY <1>1, <1>2, <1>3, <1>4 DEF Paged
<1> QED BY <1>1, <1>5, PagedKeeps

LEMMA ReferenceEmptyKeeps ==
  ASSUME WholeInv, Fixed, coverage' = coverage, stored' = stored, ReferenceEmptyPage
  PROVE  WholeInv'
<1>1. /\ At("paging") /\ route.kind = "reference"
      /\ call' = [call EXCEPT !.attempts = 0, !.pc = "exhausted"]
  BY DEF ReferenceEmptyPage
<1>2. /\ call \in Calls /\ call.rows \in Seq(PageRows)
      /\ \A i \in 1..Len(call.rows) : call.rows[i] < W.hi
      /\ W.lo <= call.cursor /\ call.cursor <= W.hi /\ call.cursor \in Nat
      /\ call.pages < MaxPages /\ call.pages \in Nat /\ MaxPages \in Nat
  BY <1>1, Running
<1>3. /\ call'.rows = call.rows /\ call'.cursor = call.cursor /\ call'.pages = call.pages
      /\ call'.last = call.last /\ call'.pc = "exhausted"
  BY <1>1, <1>2 DEF Calls
<1>4. call' = [call EXCEPT !.rows = call'.rows, !.cursor = call'.cursor,
                           !.pages = call'.pages, !.last = call'.last,
                           !.attempts = 0, !.pc = call'.pc]
  BY <1>1, <1>2, <1>3 DEF Calls
<1>5. Paged(call')
  BY <1>1, <1>2, <1>3, <1>4 DEF Paged
<1> QED BY <1>1, <1>5, PagedKeeps

-----------------------------------------------------------------------------
(* Bars of an unknown endpoint.                                            *)

LEMMA OnlyHas ==
  ASSUME NEW A, NEW page \in Seq(A), NEW T
  PROVE  /\ Only(page, T) \in Seq(A)
         /\ \A i \in 1..Len(Only(page, T)) : Only(page, T)[i] \in T
<1>1. PICK at : KeptFrom(at, Only(page, T), page, T, Len(page))
  BY OnlyIs
<1> QED BY <1>1, OnlyIs DEF KeptFrom

LEMMA ProbeKeeps ==
  ASSUME WholeInv, Fixed, coverage' = coverage, stored' = stored,
         NEW page \in {<<>>, LatestRow}, GenericProbe(page)
  PROVE  WholeInv'
<1> DEFINE T == {t \in ToSet(page) : W.lo <= t /\ t < W.hi}
           r == Only(page, T)
           m == Merged(r)
           more == r # <<>> /\ InBudget
           cursor == IF r = <<>> THEN call.cursor ELSE r[1]
           pages == call.pages + 1
<1>1. /\ At("probing")
      /\ call' = [call EXCEPT !.rows = m, !.cursor = IF r = <<>> THEN @ ELSE r[1],
                              !.pages = @ + 1, !.attempts = 0, !.pc = Turn(more)]
  BY DEF GenericProbe
<1>2. route.kind = "generic" /\ Looping
  BY <1>1 DEF WholeInv, SyncInv, CallInv, LoopInv, Looping, At
<1>3. /\ call \in Calls /\ call.rows \in Seq(PageRows)
      /\ \A i \in 1..Len(call.rows) : call.rows[i] < W.hi
      /\ W.lo <= call.cursor /\ call.cursor <= W.hi /\ call.cursor \in Nat
      /\ call.pages < MaxPages /\ call.pages \in Nat /\ MaxPages \in Nat
      /\ W.lo \in Nat /\ W.hi \in Nat
      /\ world \in SUBSET (0..(Horizon + 1)) /\ Horizon + 1 \in Nat
  BY <1>1, <1>2, Running
<1>4. page \in Seq(PageRows)
  <2>1. CASE page = <<>>
    BY <2>1
  <2>2. CASE page # <<>>
    <3>1. page = <<Max(world)>> /\ world # {}
      BY <2>2 DEF LatestRow
    <3>2. Max(world) \in world
      BY <1>3, <3>1, MaxUpTo
    <3>3. Max(world) \in PageRows
      BY <3>2 DEF PageRows
    <3> QED BY <3>1, <3>3
  <2> QED BY <2>1, <2>2
<1>5. r \in Seq(PageRows) /\ \A i \in 1..Len(r) : r[i] \in T
  BY <1>4, OnlyHas
<1>6. \A x \in T : W.lo <= x /\ x < W.hi
  OBVIOUS
<1> HIDE DEF T, r
<1>7. m \in Seq(PageRows)
  BY <1>2, <1>5, MergedIs
<1>8. \A i \in 1..Len(m) : m[i] < W.hi
  <2>1. \A i \in 1..Len(r) : r[i] < W.hi
    BY <1>5, <1>6
  <2> QED BY <1>2, <1>5, <2>1, MergedBelow
<1>9. cursor \in Int /\ W.lo <= cursor /\ cursor <= W.hi
  <2>1. CASE r = <<>>
    BY <1>3, <2>1
  <2>2. CASE r # <<>>
    <3>1. 1 \in 1..Len(r)
      BY <1>5, <2>2
    <3>2. r[1] \in T /\ r[1] \in PageRows
      BY <1>5, <3>1
    <3>3. r[1] \in 0..(Horizon + 1)
      BY <1>3, <3>2, RowsAreInstants
    <3> QED BY <1>3, <1>6, <2>2, <3>2, <3>3
  <2> QED BY <2>1, <2>2
<1>10. more => pages < MaxPages
  BY <1>2, Budget
<1>11. call' = [call EXCEPT !.rows = m, !.cursor = cursor, !.pages = pages,
                            !.attempts = 0, !.pc = Turn(more)]
  BY <1>1, <1>3 DEF Calls
<1> HIDE DEF m, cursor, pages, more
<1>12. /\ call'.rows = m /\ call'.cursor = cursor /\ call'.pages = pages
       /\ call'.last = call.last /\ call'.pc = Turn(more)
  BY <1>3, <1>11 DEF Calls
<1>13. call' = [call EXCEPT !.rows = call'.rows, !.cursor = call'.cursor,
                           !.pages = call'.pages, !.last = call'.last,
                           !.attempts = 0, !.pc = call'.pc]
  BY <1>3, <1>11, <1>12 DEF Calls
<1>14. Turn(more) \in {"paging", "exhausted"} /\ (Turn(more) = "paging" => more)
  BY DEF Turn
<1>15. pages \in {call.pages, call.pages + 1}
  BY DEF pages
<1>16. Paged(call')
  BY <1>7, <1>8, <1>9, <1>10, <1>12, <1>13, <1>14, <1>15 DEF Paged
<1> QED BY <1>1, <1>2, <1>16, PagedKeeps

LEMMA GenericKeeps ==
  ASSUME WholeInv, Fixed, coverage' = coverage, stored' = stored,
         NEW page \in Answers(call.cursor, Horizon + 2, GenericLimit), GenericPage(page)
  PROVE  WholeInv'
<1> DEFINE r == Before(page, W.hi)
           m == Merged(r)
           next == IF r = <<>> THEN call.cursor ELSE NextBoundary(bar, Last(r))
           more == ~(r # page) /\ next < W.hi /\ InBudget
           last == IF r = <<>> THEN call.last ELSE Last(r)
           pages == call.pages + 1
<1>1. /\ At("paging") /\ route.kind = "generic" /\ (r # <<>> => next > call.cursor)
      /\ call' = [call EXCEPT !.rows = m, !.last = IF r = <<>> THEN @ ELSE Last(r),
                              !.cursor = next, !.pages = @ + 1, !.attempts = 0,
                              !.pc = Turn(more)]
  BY DEF GenericPage
<1>2. Looping
  BY <1>1 DEF Looping, At
<1>3. /\ call \in Calls /\ call.rows \in Seq(PageRows) /\ ~IsFunding
      /\ \A i \in 1..Len(call.rows) : call.rows[i] < W.hi
      /\ W.lo <= call.cursor /\ call.cursor <= W.hi /\ call.cursor \in Nat
      /\ call.pages < MaxPages /\ call.pages \in Nat /\ MaxPages \in Nat
      /\ W.lo \in Nat /\ W.hi \in Nat
      /\ world \in SUBSET (0..(Horizon + 1)) /\ Horizon + 1 \in Nat /\ route \in Routes
  BY <1>1, Running
<1>4. page \in Seq(PageRows)
  BY <1>3, Limits, AnswersTyped
<1>5. r \in Seq(PageRows) /\ \A i \in 1..Len(r) : r[i] < W.hi
  BY <1>4, BeforeIs
<1>6. r # <<>> => /\ Last(r) \in PageRows /\ NextBoundary(bar, Last(r)) \in Nat
                  /\ NextBoundary(bar, Last(r)) <= W.hi
  BY <1>2, <1>3, <1>4, InRange
<1> HIDE DEF r
<1>7. m \in Seq(PageRows)
  BY <1>2, <1>5, MergedIs
<1>8. \A i \in 1..Len(m) : m[i] < W.hi
  BY <1>2, <1>5, MergedBelow
<1>9. next \in Int /\ W.lo <= next /\ next <= W.hi
  BY <1>1, <1>3, <1>6
<1>10. more => pages < MaxPages
  BY <1>2, Budget
<1>11. last \in {NoTime} \cup PageRows \cup {call.last}
  BY <1>6
<1>12. call' = [call EXCEPT !.rows = m, !.last = last, !.cursor = next, !.pages = pages,
                            !.attempts = 0, !.pc = Turn(more)]
  BY <1>1, <1>3 DEF Calls
<1> HIDE DEF m, next, pages, more, last
<1>13. /\ call'.rows = m /\ call'.cursor = next /\ call'.pages = pages
       /\ call'.last = last /\ call'.pc = Turn(more)
  BY <1>3, <1>12 DEF Calls
<1>14. call' = [call EXCEPT !.rows = call'.rows, !.cursor = call'.cursor,
                           !.pages = call'.pages, !.last = call'.last,
                           !.attempts = 0, !.pc = call'.pc]
  BY <1>3, <1>12, <1>13 DEF Calls
<1>15. Turn(more) \in {"paging", "exhausted"} /\ (Turn(more) = "paging" => more)
  BY DEF Turn
<1>16. pages \in {call.pages, call.pages + 1}
  BY DEF pages
<1>17. Paged(call')
  BY <1>7, <1>8, <1>9, <1>10, <1>11, <1>13, <1>14, <1>15, <1>16 DEF Paged
<1> QED BY <1>1, <1>17, PagedKeeps

-----------------------------------------------------------------------------
(* Reference bars and open interest.                                       *)

\* A strictly ascending page starts with its least row.
LEMMA FromFirst ==
  ASSUME NEW page \in Seq(Int), page # <<>>, Increasing(page)
  PROVE  \A i \in 1..Len(page) : page[1] <= page[i]
<1> DEFINE n == Len(page) - 1
           T == {k \in 0..n : page[1] <= page[k+1]}
<1>1. n \in Nat /\ Len(page) \in Nat /\ \A i \in 1..Len(page) : page[i] \in Int
  BY ElementOfSeq
<1>2. 0 \in T
  BY <1>1
<1>3. ASSUME NEW k \in 1..n, k - 1 \in T
      PROVE  k \in T
  <2>1. page[k] < page[k+1]
    BY <1>1, <1>3 DEF Increasing
  <2>2. page[1] <= page[k]
    BY <1>1, <1>3
  <2>3. page[1] \in Int /\ page[k] \in Int /\ page[k+1] \in Int
    BY <1>1, <1>3
  <2>4. k \in 0..n
    BY <1>1, <1>3
  <2> QED BY <2>1, <2>2, <2>3, <2>4
<1> HIDE DEF n
<1>4. \A k \in 0..n : k \in T
  <2> HIDE DEF T
  <2> QED BY <1>1, <1>2, <1>3, Climb
<1> TAKE i \in 1..Len(page)
<1>5. i - 1 \in 0..n
  BY <1>1 DEF n
<1>6. i - 1 \in T
  BY <1>4, <1>5
<1> QED BY <1>1, <1>6

LEMMA ReferenceKeeps ==
  ASSUME WholeInv, Fixed, coverage' = coverage, stored' = stored,
         NEW page \in Answers(call.cursor, Horizon + 2, PageLimit), ReferencePage(page)
  PROVE  WholeInv'
<1> DEFINE r == Before(page, W.hi)
           m == call.rows \o r
           next == IF r = <<>> THEN call.cursor ELSE NextBoundary(bar, Last(r))
           more == r = page /\ next < W.hi
           last == Last(page)
           pages == call.pages + 1
<1>1. /\ At("paging") /\ route.kind = "reference" /\ page # <<>> /\ Increasing(page)
      /\ page[1] >= call.cursor
      /\ (more => pages < MaxPages)
      /\ call' = [call EXCEPT !.rows = @ \o r, !.last = last,
                              !.cursor = next, !.pages = @ + 1, !.attempts = 0,
                              !.pc = Turn(more)]
  BY DEF ReferencePage
<1>2. Looping
  BY <1>1 DEF Looping, At
<1>3. /\ call \in Calls /\ call.rows \in Seq(PageRows) /\ ~IsFunding
      /\ \A i \in 1..Len(call.rows) : call.rows[i] < W.hi
      /\ W.lo <= call.cursor /\ call.cursor <= W.hi /\ call.cursor \in Nat
      /\ call.pages < MaxPages /\ call.pages \in Nat /\ MaxPages \in Nat
      /\ W.lo \in Nat /\ W.hi \in Nat
      /\ world \in SUBSET (0..(Horizon + 1)) /\ Horizon + 1 \in Nat /\ route \in Routes
  BY <1>1, Running
<1>4. page \in Seq(PageRows)
  BY <1>3, Limits, AnswersTyped
<1>5. /\ r \in Seq(PageRows) /\ \A i \in 1..Len(r) : r[i] < W.hi
  BY <1>4, BeforeIs
<1>6. r # <<>> => /\ Last(r) \in Nat /\ Has(page, Last(r)) /\ Last(r) < NextBoundary(bar, Last(r))
                  /\ NextBoundary(bar, Last(r)) \in Nat
                  /\ NextBoundary(bar, Last(r)) <= W.hi
  BY <1>2, <1>3, <1>4, InRange
<1>7. page \in Seq(Int)
  <2>1. PageRows \subseteq Int
    BY <1>3, RowsAreInstants
  <2> QED BY <1>4, <2>1, WiderSeq
<1>8. \A x : Has(page, x) => x \in Int /\ call.cursor <= x
  <2> SUFFICES ASSUME NEW i \in 1..Len(page)
               PROVE  page[i] \in Int /\ call.cursor <= page[i]
    BY DEF Has
  <2>1. page[i] \in Int /\ page[1] \in Int /\ page[1] <= page[i]
    BY <1>1, <1>7, FromFirst, ElementOfSeq
  <2> QED BY <1>1, <1>3, <2>1
<1>9. last \in PageRows
  BY <1>1, <1>4 DEF Last
<1> HIDE DEF r
<1>10. m \in Seq(PageRows) /\ \A x : Has(m, x) <=> Has(call.rows, x) \/ Has(r, x)
  BY <1>3, <1>5, ConcatHas
<1> HIDE DEF m
<1>11. \A i \in 1..Len(m) : m[i] < W.hi
  <2> TAKE i \in 1..Len(m)
  <2>1. Has(call.rows, m[i]) \/ Has(r, m[i])
    BY <1>10 DEF Has
  <2> QED BY <1>3, <1>5, <2>1 DEF Has
<1>12. next \in Int /\ W.lo <= next /\ next <= W.hi
  BY <1>3, <1>6, <1>8
<1>13. call' = [call EXCEPT !.rows = m, !.last = last, !.cursor = next, !.pages = pages,
                            !.attempts = 0, !.pc = Turn(more)]
  BY <1>1, <1>3 DEF Calls, m
<1> HIDE DEF next, pages, more, last
<1>14. /\ call'.rows = m /\ call'.cursor = next /\ call'.pages = pages
       /\ call'.last = last /\ call'.pc = Turn(more)
  BY <1>3, <1>13 DEF Calls
<1>15. call' = [call EXCEPT !.rows = call'.rows, !.cursor = call'.cursor,
                           !.pages = call'.pages, !.last = call'.last,
                           !.attempts = 0, !.pc = call'.pc]
  BY <1>3, <1>13, <1>14 DEF Calls
<1>16. Turn(more) \in {"paging", "exhausted"} /\ (Turn(more) = "paging" => more)
  BY DEF Turn
<1>17. pages \in {call.pages, call.pages + 1}
  BY DEF pages
<1>18. Paged(call')
  BY <1>1, <1>9, <1>10, <1>11, <1>12, <1>14, <1>15, <1>16, <1>17 DEF Paged
<1> QED BY <1>1, <1>18, PagedKeeps

\* The history loops share their handling of a page.
LEMMA HistoryFacts ==
  ASSUME WholeInv, Looping, NEW page \in Seq(PageRows), NEW more, HistoryPage(page, more)
  PROVE  /\ \A i \in 1..Len(page) : W.lo <= page[i] /\ page[i] < W.hi
         /\ ~ShortPage(page) => /\ page # <<>> /\ Last(page) \in Nat /\ Has(page, Last(page))
                                /\ call.cursor <= Last(page) /\ Last(page) < W.hi
         /\ \A i \in 1..Len(page) : page[i] \in Nat /\ page[i] <= Last(page)
<1>1. world \subseteq 0..(Horizon + 1) /\ Horizon \in Nat
  BY Loops
<1>2. \A i \in 1..Len(page) : W.lo <= page[i] /\ page[i] < W.hi
  BY DEF HistoryPage, HonorsBounds, ToSet
<1>3. \A i \in 1..Len(page) : page[i] \in Nat
  <2> TAKE i \in 1..Len(page)
  <2>1. page[i] \in PageRows
    BY ElementOfSeq
  <2> QED BY <1>1, <2>1, RowsAreInstants
<1>4. ~ShortPage(page) => /\ page # <<>> /\ Last(page) \in Nat /\ Has(page, Last(page))
                          /\ call.cursor <= Last(page) /\ Last(page) < W.hi
  <2> HAVE ~ShortPage(page)
  <2>1. Len(page) >= PageLimit /\ Len(page) \in Nat /\ PageLimit \in Nat \ {0}
    BY PagingAssumption DEF ShortPage
  <2>2. Len(page) \in 1..Len(page) /\ page # <<>>
    BY <2>1
  <2>3. Last(page) >= call.cursor
    BY DEF HistoryPage, Progress
  <2> QED BY <1>2, <1>3, <2>2, <2>3 DEF Last, Has
<1>5. \A i \in 1..Len(page) : page[i] <= Last(page)
  <2> DEFINE n == Len(page) - 1
             T == {k \in 0..n : page[Len(page) - k] <= Last(page)}
  <2> SUFFICES ASSUME page # <<>>
               PROVE  \A i \in 1..Len(page) : page[i] <= Last(page)
    OBVIOUS
  <2>1. n \in Nat /\ Len(page) \in Nat \ {0} /\ Last(page) = page[Len(page)]
    BY DEF Last
  <2>2. 0 \in T
    BY <1>3, <2>1
  <2>3. ASSUME NEW k \in 1..n, k - 1 \in T
        PROVE  k \in T
    <3>1. Len(page) - k \in 1..(Len(page) - 1) /\ (Len(page) - k) + 1 = Len(page) - (k - 1)
      BY <2>1
    <3>2. page[Len(page) - k] <= page[Len(page) - (k - 1)]
      BY <3>1 DEF HistoryPage, HonorsBounds, NonDecreasing
    <3>3. page[Len(page) - (k - 1)] <= Last(page)
      BY <2>3
    <3>4. /\ page[Len(page) - k] \in Nat /\ page[Len(page) - (k - 1)] \in Nat
          /\ Last(page) \in Nat /\ k \in 0..n
      BY <1>3, <2>1, <3>1
    <3> QED BY <3>2, <3>3, <3>4
  <2> HIDE DEF n
  <2>4. \A k \in 0..n : k \in T
    <3> HIDE DEF T
    <3> QED BY <2>1, <2>2, <2>3, Climb
  <2> TAKE i \in 1..Len(page)
  <2>5. Len(page) - i \in 0..n /\ Len(page) - (Len(page) - i) = i
    BY <2>1 DEF n
  <2>6. Len(page) - i \in T
    BY <2>4, <2>5
  <2> QED BY <2>5, <2>6
<1> QED BY <1>2, <1>3, <1>4, <1>5

LEMMA OpenInterestKeeps ==
  ASSUME WholeInv, Fixed, coverage' = coverage, stored' = stored,
         NEW page \in Answers(call.cursor, W.hi, PageLimit) \cup {<<>>}, OpenInterestPage(page)
  PROVE  WholeInv'
<1> DEFINE m == Merged(page)
           next == IF ShortPage(page) THEN call.cursor ELSE Last(page) + 1
           more == ~ShortPage(page) /\ Last(page) + 1 < W.hi
           pages == call.pages + 1
<1>1. /\ At("paging") /\ route.kind = "oi"
      /\ (~ShortPage(page) => pages < MaxPages) /\ HistoryPage(page, more)
  BY DEF OpenInterestPage
<1>2. call' = [call EXCEPT !.rows = m, !.cursor = IF ShortPage(page) THEN @ ELSE Last(page) + 1,
                           !.pages = @ + 1, !.attempts = 0, !.pc = Turn(more)]
  BY <1>1 DEF HistoryPage
<1>3. /\ call \in Calls /\ ~IsFunding /\ Looping
      /\ W.lo <= call.cursor /\ call.cursor <= W.hi /\ call.cursor \in Nat
      /\ call.pages < MaxPages /\ call.pages \in Nat /\ MaxPages \in Nat
      /\ W.lo \in Nat /\ W.hi \in Nat
      /\ world \in SUBSET (0..(Horizon + 1)) /\ Horizon + 1 \in Nat /\ route \in Routes
  BY <1>1, Running
<1>4. page \in Seq(PageRows)
  <2>1. CASE page = <<>>
    BY <2>1
  <2>2. CASE page \in Answers(call.cursor, W.hi, PageLimit)
    BY <1>3, <2>2, Limits, AnswersTyped
  <2> QED BY <2>1, <2>2
<1>5. /\ \A i \in 1..Len(page) : W.lo <= page[i] /\ page[i] < W.hi
      /\ ~ShortPage(page) => /\ Last(page) \in Nat
                             /\ call.cursor <= Last(page) /\ Last(page) < W.hi
  BY <1>1, <1>3, <1>4, HistoryFacts
<1>6. m \in Seq(PageRows)
  BY <1>3, <1>4, MergedIs
<1>7. \A i \in 1..Len(m) : m[i] < W.hi
  BY <1>3, <1>4, <1>5, MergedBelow
<1>8. next \in Int /\ W.lo <= next /\ next <= W.hi
  BY <1>3, <1>5
<1>9. call' = [call EXCEPT !.rows = m, !.cursor = next, !.pages = pages,
                           !.attempts = 0, !.pc = Turn(more)]
  BY <1>2, <1>3 DEF Calls
<1>10. more => pages < MaxPages
  BY <1>1
<1> HIDE DEF m, next, pages, more
<1>11. /\ call'.rows = m /\ call'.cursor = next /\ call'.pages = pages
       /\ call'.last = call.last /\ call'.pc = Turn(more)
  BY <1>3, <1>9 DEF Calls
<1>12. call' = [call EXCEPT !.rows = call'.rows, !.cursor = call'.cursor,
                           !.pages = call'.pages, !.last = call'.last,
                           !.attempts = 0, !.pc = call'.pc]
  BY <1>3, <1>9, <1>11 DEF Calls
<1>13. Turn(more) \in {"paging", "exhausted"} /\ (Turn(more) = "paging" => more)
  BY DEF Turn
<1>14. pages \in {call.pages, call.pages + 1}
  BY DEF pages
<1>15. Paged(call')
  BY <1>6, <1>7, <1>8, <1>10, <1>11, <1>12, <1>13, <1>14 DEF Paged
<1> QED BY <1>1, <1>15, PagedKeeps

-----------------------------------------------------------------------------
(* Settled funding: no event up to the cursor or the last row is left out. *)

\* A funding page leaves no event out up to where the loop goes on, and none
\* of the window if the venue is Binance and the loop ends.
LEMMA FundingWhole ==
  ASSUME WholeInv, At("paging"), IsFunding,
         NEW page \in Answers(call.cursor, W.hi, PageLimit), page \in Seq(PageRows),
         NEW more, HistoryPage(page, more),
         more <=> ~ShortPage(page) /\ Last(page) + 1 < W.hi,
         NEW next, next = IF ShortPage(page) THEN call.cursor ELSE Last(page) + 1,
         NEW m, m = Merged(page)
  PROVE  /\ \A i, j \in 1..Len(m) : i < j => m[i] < m[j]
         /\ \A e \in world : W.lo <= e /\ e < next => e \in ToSet(m)
         /\ \A e \in world : W.lo <= e /\ m # <<>> /\ e <= Last(m) => e \in ToSet(m)
         /\ (~more /\ route.kind = "binanceFunding") =>
              \A e \in world : W.lo <= e /\ e < W.hi => e \in ToSet(m)
<1>1. Looping
  BY DEF Looping, At
<1>2. /\ WindowOf(W) /\ Bounded(call) /\ Whole(call) /\ world \in SUBSET (0..(Horizon + 1))
      /\ Horizon \in Nat /\ Horizon + 1 \in Nat /\ W.hi \in 0..Horizon
      /\ call.cursor \in Nat /\ call.rows \in Seq(PageRows) /\ W.lo \in Nat
      /\ W.lo <= call.cursor /\ PageLimit \in Nat
  BY <1>1, Loops, PagingAssumption DEF Bounded, WindowOf
<1>3. /\ m \in Seq(PageRows) /\ Rising(m)
      /\ \A x : Has(m, x) <=> Has(call.rows, x) \/ Has(page, x)
  BY <1>1, MergedIs
<1>4. \A x : x \in ToSet(m) <=> Has(m, x)
  BY <1>3, ToSetHas
<1>5. \A x : x \in ToSet(call.rows) <=> Has(call.rows, x)
  BY <1>2, ToSetHas
<1>6. /\ \A i \in 1..Len(page) : W.lo <= page[i] /\ page[i] < W.hi
      /\ ~ShortPage(page) => /\ Last(page) \in Nat /\ Has(page, Last(page))
                             /\ call.cursor <= Last(page) /\ Last(page) < W.hi
      /\ \A i \in 1..Len(page) : page[i] \in Nat
  BY <1>1, HistoryFacts
<1>7. \A e \in world : W.lo <= e /\ e < call.cursor => Has(m, e)
  BY <1>2, <1>3, <1>5 DEF Whole
<1>8. ASSUME NEW e \in world, call.cursor <= e, e < W.hi
      PROVE  \/ Has(m, e)
             \/ /\ \A x : Has(page, x) => x < e
                /\ route.kind = "binanceFunding" => ~ShortPage(page)
  <2>1. \/ Has(page, e)
        \/ /\ \A i \in 1..Len(page) : page[i] < e
           /\ route.kind = "binanceFunding" => PageLimit <= Len(page)
    BY <1>2, <1>6, <1>8, FundingAnswer
  <2>2. PageLimit <= Len(page) => ~ShortPage(page)
    BY <1>2 DEF ShortPage
  <2>3. (\A i \in 1..Len(page) : page[i] < e) => \A x : Has(page, x) => x < e
    BY DEF Has
  <2> QED BY <1>3, <2>1, <2>2, <2>3
<1>9. \A e \in world : e \in Nat
  BY <1>2
<1>10. ASSUME NEW e \in world, W.lo <= e, NEW x, Has(page, x), e <= x
       PROVE  Has(m, e)
  <2>1. x \in Nat /\ x < W.hi
    BY <1>6, <1>10 DEF Has
  <2>2. CASE e < call.cursor
    BY <1>7, <1>10, <2>2
  <2>3. CASE call.cursor <= e
    <3>1. e < W.hi
      BY <1>2, <1>9, <1>10, <2>1
    <3>2. ~(x < e)
      BY <1>9, <1>10, <2>1
    <3> QED BY <1>8, <1>10, <2>3, <3>1, <3>2
  <2> QED BY <1>2, <1>9, <2>2, <2>3
<1>11. ASSUME NEW e \in world, W.lo <= e, e < next
       PROVE  e \in ToSet(m)
  <2>1. CASE ShortPage(page)
    BY <1>4, <1>7, <1>11, <2>1
  <2>2. CASE ~ShortPage(page)
    <3>1. Last(page) \in Nat /\ Has(page, Last(page)) /\ e <= Last(page)
      BY <1>6, <1>9, <1>11, <2>2
    <3> QED BY <1>4, <1>10, <1>11, <3>1
  <2> QED BY <2>1, <2>2
<1>12. ASSUME NEW e \in world, W.lo <= e, m # <<>>, e <= Last(m)
       PROVE  e \in ToSet(m)
  <2>1. Len(m) \in 1..Len(m) /\ Last(m) = m[Len(m)]
    BY <1>3, <1>12 DEF Last
  <2>2. Has(call.rows, Last(m)) \/ Has(page, Last(m))
    BY <1>3, <2>1 DEF Has
  <2>3. CASE Has(page, Last(m))
    BY <1>4, <1>10, <1>12, <2>3
  <2>4. CASE Has(call.rows, Last(m))
    <3>1. PICK i \in 1..Len(call.rows) : call.rows[i] = Last(m)
      BY <2>4 DEF Has
    <3>2. call.rows # <<>> /\ Len(call.rows) \in 1..Len(call.rows)
          /\ Last(call.rows) = call.rows[Len(call.rows)]
      BY <1>2, <3>1 DEF Last
    <3>3. call.rows[i] \in PageRows /\ Last(call.rows) \in PageRows
      BY <1>2, <3>1, <3>2, ElementOfSeq
    <3>4. call.rows[i] \in Nat /\ Last(call.rows) \in Nat
      BY <1>2, <3>3, RowsAreInstants
    <3>5. call.rows[i] <= Last(call.rows)
      <4>1. i < Len(call.rows) => call.rows[i] < call.rows[Len(call.rows)]
        BY <1>2, <3>1, <3>2 DEF Whole
      <4>2. i < Len(call.rows) \/ i = Len(call.rows)
        BY <1>2, <3>1
      <4> QED BY <3>2, <3>4, <4>1, <4>2
    <3>6. e <= Last(call.rows)
      BY <1>9, <1>12, <3>1, <3>4, <3>5
    <3>7. e \in ToSet(call.rows)
      BY <1>2, <1>12, <3>2, <3>6 DEF Whole
    <3> QED BY <1>3, <1>4, <1>5, <3>7
  <2> QED BY <2>2, <2>3, <2>4
<1>13. ASSUME ~more, route.kind = "binanceFunding", NEW e \in world, W.lo <= e, e < W.hi
       PROVE  e \in ToSet(m)
  <2>1. CASE e < call.cursor
    BY <1>4, <1>7, <1>13, <2>1
  <2>2. CASE call.cursor <= e
    <3> SUFFICES ASSUME ~Has(m, e)
                 PROVE  FALSE
      BY <1>4
    <3>1. ~ShortPage(page) /\ \A x : Has(page, x) => x < e
      BY <1>8, <1>13, <2>2
    <3>2. Last(page) \in Nat /\ Last(page) < e
      BY <1>6, <3>1
    <3> QED BY <1>2, <1>9, <1>13, <3>1, <3>2
  <2> QED BY <1>2, <1>9, <2>1, <2>2
<1>14. \A i, j \in 1..Len(m) : i < j => m[i] < m[j]
  BY <1>3 DEF Rising
<1> QED BY <1>11, <1>12, <1>13, <1>14

LEMMA FundingKeeps ==
  ASSUME WholeInv, Fixed, coverage' = coverage, stored' = stored,
         NEW page \in Answers(call.cursor, W.hi, PageLimit), FundingPage(page)
  PROVE  WholeInv'
<1> DEFINE m == Merged(page)
           next == IF ShortPage(page) THEN call.cursor ELSE Last(page) + 1
           more == ~ShortPage(page) /\ Last(page) + 1 < W.hi
           pages == call.pages + 1
<1>1. At("paging") /\ IsFunding /\ call.pages < MaxPages /\ HistoryPage(page, more)
  BY DEF FundingPage
<1>2. call' = [call EXCEPT !.rows = m, !.cursor = IF ShortPage(page) THEN @ ELSE Last(page) + 1,
                           !.pages = @ + 1, !.attempts = 0, !.pc = Turn(more)]
  BY <1>1 DEF HistoryPage
<1>3. Looping
  BY <1>1 DEF Looping, At
<1>4. /\ call \in Calls /\ call.cursor \in 0..Horizon /\ Horizon \in Nat
      /\ W.lo <= call.cursor /\ call.cursor <= W.hi
      /\ W.lo \in Nat /\ W.hi \in 0..Horizon
      /\ world \in SUBSET (0..(Horizon + 1)) /\ Horizon + 1 \in Nat /\ route \in Routes
  BY <1>3, Loops DEF Bounded, WindowOf
<1>5. call.pages \in Nat /\ MaxPages \in Nat
  BY <1>4, PagingAssumption DEF Calls
<1>6. page \in Seq(PageRows)
  BY <1>4, Limits, AnswersTyped
<1>7. /\ \A i \in 1..Len(page) : page[i] < W.hi
      /\ ~ShortPage(page) => /\ Last(page) \in Nat
                             /\ call.cursor <= Last(page) /\ Last(page) < W.hi
  BY <1>1, <1>3, <1>6, HistoryFacts
<1>8. m \in Seq(PageRows)
  BY <1>3, <1>6, MergedIs
<1>9. \A i \in 1..Len(m) : m[i] < W.hi
  BY <1>3, <1>6, <1>7, MergedBelow
<1>10. next \in 0..Horizon /\ W.lo <= next /\ next <= W.hi
  BY <1>4, <1>7
<1>11. call' = [call EXCEPT !.rows = m, !.cursor = next, !.pages = pages,
                           !.attempts = 0, !.pc = Turn(more)]
  BY <1>2, <1>4 DEF Calls
<1>12. /\ \A i, j \in 1..Len(m) : i < j => m[i] < m[j]
       /\ \A e \in world : W.lo <= e /\ e < next => e \in ToSet(m)
       /\ \A e \in world : W.lo <= e /\ m # <<>> /\ e <= Last(m) => e \in ToSet(m)
       /\ (~more /\ route.kind = "binanceFunding") =>
            \A e \in world : W.lo <= e /\ e < W.hi => e \in ToSet(m)
  BY <1>1, <1>6, FundingWhole
<1>13. pages \in 0..MaxPages
  BY <1>1, <1>5
<1> HIDE DEF m, next, pages, more
<1>14. /\ call'.rows = m /\ call'.cursor = next /\ call'.pc = Turn(more)
       /\ call'.lo = call.lo /\ call'.hi = call.hi /\ call'.windows = call.windows
       /\ call'.at = call.at /\ call'.facts = call.facts /\ call'.kept = call.kept
  BY <1>4, <1>11 DEF Calls
<1>15. Turn(more) \in {"paging", "exhausted"} /\ (Turn(more) = "exhausted" <=> ~more)
  BY DEF Turn
<1>16. 0 \in 0..MaxRetries /\ next \in Instant
  BY <1>10, PagingAssumption DEF Instant
<1>17. call' \in Calls
  BY <1>4, <1>8, <1>11, <1>13, <1>15, <1>16, ZenonT(60) DEF Calls
<1>18. Turned(call')
  BY <1>14, <1>15, <1>17 DEF Turned
<1>19. Bounded(call')
  BY <1>1, <1>9, <1>10, <1>14, <1>15 DEF Bounded, IsFunding
<1>20. Whole(call')
  BY <1>1, <1>12, <1>14, <1>15 DEF Whole, IsFunding
<1> QED BY <1>1, <1>18, <1>19, <1>20, Turns

\* Whatever a venue answers.
LEMMA PageKeeps ==
  ASSUME WholeInv, Page
  PROVE  WholeInv'
<1>1. Fixed /\ coverage' = coverage /\ stored' = stored
  BY DEF Page, fixed, data, Fixed
<1>2. CASE route.kind = "bounded" /\ BoundedReply
  BY <1>1, <1>2, BoundedKeeps DEF BoundedReply
<1>3. CASE route.kind = "generic" /\ GenericReply
  BY <1>1, <1>3, GenericEmptyKeeps, GenericKeeps DEF GenericReply
<1>4. CASE ProbeReply
  BY <1>1, <1>4, ProbeKeeps DEF ProbeReply
<1>5. CASE route.kind = "reference" /\ ReferenceReply
  BY <1>1, <1>5, ReferenceEmptyKeeps, ReferenceKeeps DEF ReferenceReply
<1>6. CASE IsFunding /\ FundingReply
  BY <1>1, <1>6, FundingKeeps DEF FundingReply
<1>7. CASE route.kind = "oi" /\ OpenInterestReply
  BY <1>1, <1>7, OpenInterestKeeps DEF OpenInterestReply
<1> QED BY <1>2, <1>3, <1>4, <1>5, <1>6, <1>7 DEF Page

-----------------------------------------------------------------------------
(* A window is opened: by a new call, or when the window before is done.   *)

\* What a call between two windows is.
Prepared(c, done) ==
  /\ c \in Calls /\ c.lo < c.hi
  /\ ~IsFunding => Aligned(bar, c.lo) /\ Aligned(bar, c.hi)
  /\ AllGaps(c.windows) = MissingGaps(coverage, c.lo, c.hi)
  /\ \A i \in 1..Len(c.windows) :
       /\ Holds(c.windows[i]) /\ Narrow(bar, c.windows[i])
       /\ ~IsBars => Len(c.windows[i].gaps) = 1
  /\ Backs(c.facts, c.kept) /\ True(c.facts)
  /\ Exhaustive => \A i \in 1..Len(c.windows) : i < done =>
       \A t \in Instant : Over(c.windows[i].gaps, t) => Over(c.facts, t)

\* A window opened of a call that is so prepared.
LEMMA Opens ==
  ASSUME DataInv, Fixed, coverage' = coverage, stored' = stored,
         Backs(coverage, stored), True(coverage),
         NEW c, NEW i, Prepared(c, i), i \in 1..Len(c.windows), call' = Opened(c, i)
  PROVE  WholeInv'
<1>1. c \in Calls /\ c.windows \in Seq(Fetch) /\ Horizon \in Nat /\ MaxPages \in Nat \ {0}
      /\ i \in Nat
  BY BackfillAssumption, PagingAssumption DEF Prepared, Calls
<1>2. /\ c.windows[i].lo \in Instant /\ c.windows[i].lo \in Nat /\ c.windows[i].hi \in Nat
      /\ c.windows[i].lo < c.windows[i].hi
  <2>1. coverage \in Seq(Fact) /\ c.lo \in Instant /\ c.hi \in Instant /\ c.lo < c.hi
    BY <1>1 DEF DataInv, Calls, Prepared
  <2>2. c.lo \in Nat /\ c.hi \in Nat /\ c.hi <= Horizon
    BY <1>1, <2>1 DEF Instant
  <2> DEFINE m == MissingGaps(coverage, c.lo, c.hi)
  <2>3. \A k \in 1..Len(m) : c.lo <= m[k].lo /\ m[k].hi <= c.hi
    BY <2>1, <2>2, MissingGapsAre
  <2>4. AllGaps(c.windows) = m /\ Holds(c.windows[i])
    BY DEF Prepared
  <2> HIDE DEF m
  <2>5. /\ c.windows[i].lo \in Nat /\ c.windows[i].hi \in Nat
        /\ c.windows[i].lo < c.windows[i].hi /\ c.windows[i].hi <= c.hi
    BY <1>1, <2>2, <2>3, <2>4, WindowBounds
  <2> QED BY <1>1, <2>2, <2>5 DEF Instant
<1>3. call' = [c EXCEPT !.pc = "paging", !.at = i, !.cursor = c.windows[i].lo, !.rows = <<>>,
                        !.observed = <<>>, !.pages = 0, !.attempts = 0, !.last = NoTime]
  BY DEF Opened
<1>4. /\ call'.pc = "paging" /\ call'.at = i /\ call'.cursor = c.windows[i].lo
      /\ call'.rows = <<>> /\ call'.observed = <<>> /\ call'.pages = 0
      /\ call'.lo = c.lo /\ call'.hi = c.hi /\ call'.windows = c.windows
      /\ call'.facts = c.facts /\ call'.kept = c.kept
  BY <1>1, <1>3 DEF Calls
<1>5. 0 \in 0..MaxPages /\ 0 \in 0..MaxRetries
  BY PagingAssumption
<1>6. \A S : <<>> \in Seq(S)
  OBVIOUS
<1>7. call' \in Calls
  <2> DEFINE P == {"idle", "paging", "probing", "exhausted", "fetched"}
             R == Seq(PageRows)  O == Seq(Span)  F == Seq(Fact)  K == SUBSET world
             G == 0..MaxPages    A == 0..MaxRetries
             T == {NoTime} \cup world \cup Strays
             I == Instant        X == Seq(Fetch)
             u == c.windows[i].lo
  <2>1. Calls = [pc : P, lo : I, hi : I, windows : X, at : Nat, cursor : I, rows : R,
                 observed : O, pages : G, attempts : A, last : T, facts : F, kept : K]
    BY DEF Calls
  <2>2. /\ "paging" \in P /\ <<>> \in R /\ <<>> \in O /\ 0 \in G /\ 0 \in A /\ NoTime \in T
        /\ u \in I /\ i \in Nat
    BY <1>1, <1>2, <1>5, <1>6
  <2>3. call' = [c EXCEPT !.pc = "paging", !.at = i, !.cursor = u, !.rows = <<>>,
                          !.observed = <<>>, !.pages = 0, !.attempts = 0, !.last = NoTime]
    BY <1>3
  <2>4. c \in Calls
    BY <1>1
  <2> HIDE DEF P, R, O, F, K, G, A, T, I, X, u
  <2> QED BY <2>1, <2>2, <2>3, <2>4, ZenonT(60)
<1>8. (call \in Calls)'
  BY <1>7 DEF Fixed, Calls, PageRows, IsFunding
<1>9. ~At("idle")' /\ Looping' /\ ~At("fetched")' /\ ~At("exhausted")' /\ ~At("probing")'
  BY <1>4 DEF At, Looping
<1>10. W' = c.windows[i]
  BY <1>4 DEF W
<1>11. WindowsInv'
  BY <1>4 DEF WindowsInv, Prepared, Fixed, IsFunding, IsBars
<1>12. LoopInv'
  BY <1>1, <1>2, <1>4, <1>9, <1>10 DEF LoopInv
<1>13. PagesInv'
  <2>1. \A t \in Instant : ~Over(<<>>, t)
    BY DEF Over
  <2>2. \A e \in world : ~(c.windows[i].lo <= e /\ e < c.windows[i].lo)
    <3>1. world \subseteq Int
      BY <1>1 DEF DataInv
    <3> QED BY <1>2, <3>1
  <2>3. \A t \in Instant : ~(c.windows[i].lo <= t /\ t < c.windows[i].lo)
    BY <1>1, <1>2 DEF Instant
  <2> QED BY <1>4, <1>9, <1>10, <2>1, <2>2, <2>3 DEF PagesInv, Fixed
<1>14. BackedInv'
  BY <1>4 DEF BackedInv, Backs, Prepared, Fixed, IsFunding
<1>15. TruthInv'
  BY <1>4 DEF TruthInv, True, Prepared, Fixed, IsFunding
<1>16. DoneInv'
  BY <1>4, <1>9 DEF DoneInv, Done, Prepared, Fixed, Exhaustive
<1>17. DataInv'
  BY DataStays
<1> QED BY <1>8, <1>9, <1>11, <1>12, <1>13, <1>14, <1>15, <1>16, <1>17
        DEF WholeInv, SyncInv, CallInv

\* A call whose last window is done.
LEMMA Fetches ==
  ASSUME DataInv, Fixed, coverage' = coverage, stored' = stored,
         Backs(coverage, stored), True(coverage),
         NEW c, Prepared(c, Len(c.windows) + 1), c.at \in 1..Len(c.windows),
         call' = [c EXCEPT !.pc = "fetched"]
  PROVE  WholeInv'
<1>1. c \in Calls /\ c.windows \in Seq(Fetch)
  BY DEF Prepared, Calls
<1>2. /\ call'.pc = "fetched" /\ call'.at = c.at
      /\ call'.lo = c.lo /\ call'.hi = c.hi /\ call'.windows = c.windows
      /\ call'.facts = c.facts /\ call'.kept = c.kept
  BY <1>1 DEF Calls
<1>3. call' \in Calls
  BY <1>1, ZenonT(60) DEF Calls
<1>4. (call \in Calls)'
  BY <1>3 DEF Fixed, Calls, PageRows, IsFunding
<1>5. ~At("idle")' /\ ~Looping'
  BY <1>2 DEF At, Looping
<1>6. WindowsInv'
  BY <1>2 DEF WindowsInv, Prepared, Fixed, IsFunding, IsBars
<1>7. BackedInv'
  BY <1>2 DEF BackedInv, Backs, Prepared, Fixed, IsFunding
<1>8. TruthInv'
  BY <1>2 DEF TruthInv, True, Prepared, Fixed, IsFunding
<1>9. \A i \in 1..Len(c.windows) : i < Len(c.windows) + 1
  BY <1>1
<1>10. DoneInv'
  BY <1>2, <1>9 DEF DoneInv, Done, Prepared, Fixed, Exhaustive
<1>11. DataInv'
  BY DataStays
<1> QED BY <1>4, <1>5, <1>6, <1>7, <1>8, <1>10, <1>11
        DEF WholeInv, SyncInv, CallInv, LoopInv, PagesInv

-----------------------------------------------------------------------------
(* The call's own steps.                                                   *)

\* A new call opens the first window of its gaps.
LEMMA StartKeeps ==
  ASSUME WholeInv, NEW lo, NEW hi, <<lo, hi>> \in Requests, StartSync(lo, hi)
  PROVE  WholeInv'
<1> DEFINE gaps == MissingGaps(coverage, lo, hi)
           w == WindowsFor(gaps)
           c == [Idle EXCEPT !.lo = lo, !.hi = hi, !.windows = w]
<1>1. /\ lo < hi /\ (~IsFunding => Aligned(bar, lo) /\ Aligned(bar, hi)) /\ gaps # <<>>
      /\ call' = Opened(c, 1)
      /\ Fixed /\ coverage' = coverage /\ stored' = stored
  BY DEF StartSync, fixed, data, Fixed
<1>2. /\ DataInv /\ Backs(coverage, stored) /\ True(coverage) /\ coverage \in Seq(Fact)
  BY DEF WholeInv, SyncInv, BackedInv, TruthInv, DataInv
<1>3. lo \in Instant /\ hi \in Instant /\ lo \in Nat /\ hi \in Nat
  BY BackfillAssumption DEF Instant
<1>4. gaps \in Seq(Gap) /\ Spaced(gaps)
  BY <1>1, <1>2, <1>3, MissingGapsAre
<1> HIDE DEF gaps
<1>5. /\ w \in Seq(Fetch) /\ AllGaps(w) = gaps
      /\ \A i \in 1..Len(w) : /\ Holds(w[i]) /\ Narrow(bar, w[i])
                              /\ ~IsBars => Len(w[i].gaps) = 1
  BY <1>4, WindowsForIs
<1> HIDE DEF w
<1>6. 1 \in 1..Len(w)
  <2>1. Has(gaps, gaps[1])
    BY <1>1, <1>4 DEF Has
  <2>2. PICK k \in 1..Len(w) : Has(w[k].gaps, gaps[1])
    BY <1>5, <2>1, AllGapsTyped
  <2> QED BY <1>5, <2>2
<1>7. Idle \in Calls /\ Idle.facts = <<>> /\ Idle.kept = {}
  BY NoFacts DEF Idle
<1>8. c \in Calls
  BY <1>3, <1>5, <1>7, ZenonT(60) DEF Calls
<1>10. c.lo = lo /\ c.hi = hi /\ c.windows = w /\ c.facts = <<>> /\ c.kept = {}
  BY <1>7 DEF Calls
<1>9. Backs(c.facts, c.kept) /\ True(c.facts)
  BY <1>10, NoFacts
<1> HIDE DEF c
<1>11. \A i \in 1..Len(w) : ~(i < 1)
  BY <1>5
<1>12. Prepared(c, 1)
  BY <1>1, <1>5, <1>8, <1>9, <1>10, <1>11 DEF Prepared, gaps
<1> QED BY <1>1, <1>2, <1>6, <1>10, <1>12, Opens

\* What two windows prove, their facts together prove.
LEMMA BacksBoth ==
  ASSUME NEW r \in Seq(Fact), NEW s \in Seq(Fact), NEW k, NEW l, Backs(r, k), Backs(s, l)
  PROVE  Backs(r \o s, k \cup l)
BY ConcatShows DEF Backs

LEMMA TrueBoth ==
  ASSUME NEW r \in Seq(Fact), NEW s \in Seq(Fact), True(r), True(s)
  PROVE  True(r \o s)
BY ConcatShows DEF True

\* A finished window adds its facts; the next window is opened, if there is one.
LEMMA FinishKeeps ==
  ASSUME WholeInv, FinishWindow
  PROVE  WholeInv'
<1> DEFINE present == ToSet(call.rows)
           f == FactsOf(present)
           k == Keeps(present)
           facts == call.facts \o f
           kept == call.kept \cup k
           c == [call EXCEPT !.facts = facts, !.kept = kept]
<1>1. /\ At("exhausted") /\ ValidObservation
      /\ call' = IF call.at < Len(call.windows)
                 THEN Opened([call EXCEPT !.facts = @ \o f, !.kept = @ \cup k], call.at + 1)
                 ELSE [[call EXCEPT !.facts = @ \o f, !.kept = @ \cup k] EXCEPT !.pc = "fetched"]
      /\ Fixed /\ coverage' = coverage /\ stored' = stored
  BY DEF FinishWindow, Keeps, fixed, data, Fixed
<1>2. /\ DataInv /\ CallInv /\ BackedInv /\ PagesInv /\ TruthInv /\ DoneInv
  BY DEF WholeInv, SyncInv
<1>3. Looping /\ ~At("idle") /\ ~At("fetched")
  BY <1>1 DEF Looping, At
<1>4. call \in Calls /\ call.at \in 1..Len(call.windows)
  BY <1>3, Loops
<1>5. call' = IF call.at < Len(call.windows) THEN Opened(c, call.at + 1)
              ELSE [c EXCEPT !.pc = "fetched"]
  <2>1. c = [call EXCEPT !.facts = @ \o f, !.kept = @ \cup k]
    BY <1>4 DEF Calls
  <2> QED BY <1>1, <2>1
<1>6. Proven(f, k)
  BY <1>1, <1>2, FactsProven
<1> HIDE DEF f, k
<1>7. /\ f \in Seq(Fact) /\ k \in SUBSET world /\ Backs(f, k) /\ True(f)
      /\ Exhaustive => \A t \in Instant : Over(W.gaps, t) => Over(f, t)
  BY <1>6 DEF Proven
<1>8. call.facts \in Seq(Fact) /\ call.kept \in SUBSET world /\ call.windows \in Seq(Fetch)
  BY <1>4 DEF Calls
<1>9. facts \in Seq(Fact) /\ Backs(facts, kept) /\ True(facts) /\ kept \in SUBSET world
  BY <1>2, <1>7, <1>8, BacksBoth, TrueBoth DEF BackedInv, TruthInv
<1>10. \A t \in Instant : Over(call.facts, t) \/ Over(f, t) => Over(facts, t)
  BY <1>7, <1>8, <1>9, ConcatShows, OverShows
<1> HIDE DEF facts, kept
<1>11. c \in Calls
  BY <1>4, <1>9, ZenonT(60) DEF Calls
<1>12. /\ c.lo = call.lo /\ c.hi = call.hi /\ c.windows = call.windows /\ c.at = call.at
       /\ c.facts = facts /\ c.kept = kept
  BY <1>4 DEF Calls
<1> HIDE DEF c
<1>13. /\ call.lo < call.hi
       /\ ~IsFunding => Aligned(bar, call.lo) /\ Aligned(bar, call.hi)
       /\ AllGaps(call.windows) = MissingGaps(coverage, call.lo, call.hi)
       /\ \A i \in 1..Len(call.windows) :
            /\ Holds(call.windows[i]) /\ Narrow(bar, call.windows[i])
            /\ ~IsBars => Len(call.windows[i].gaps) = 1
  BY <1>2, <1>3 DEF CallInv, WindowsInv
<1>14. ASSUME Exhaustive, NEW i \in 1..Len(call.windows), i < call.at + 1, NEW t \in Instant,
              Over(call.windows[i].gaps, t)
       PROVE  Over(facts, t)
  <2>1. CASE i = call.at
    BY <1>7, <1>10, <1>14, <2>1 DEF W
  <2>2. CASE i < call.at
    BY <1>2, <1>3, <1>10, <1>14, <2>2 DEF DoneInv, Done
  <2>3. i = call.at \/ i < call.at
    BY <1>4, <1>8, <1>14
  <2> QED BY <2>1, <2>2, <2>3
<1>15. Prepared(c, call.at + 1)
  BY <1>9, <1>11, <1>12, <1>13, <1>14 DEF Prepared
<1>16. Backs(coverage, stored) /\ True(coverage)
  BY <1>2 DEF BackedInv, TruthInv
<1>17. CASE call.at < Len(call.windows)
  <2>1. call.at + 1 \in 1..Len(c.windows)
    BY <1>4, <1>8, <1>12, <1>17
  <2>2. call' = Opened(c, call.at + 1)
    BY <1>5, <1>17
  <2> QED BY <1>1, <1>2, <1>15, <1>16, <2>1, <2>2, Opens
<1>18. CASE ~(call.at < Len(call.windows))
  <2>1. call.at = Len(c.windows) /\ c.at \in 1..Len(c.windows)
    BY <1>4, <1>8, <1>12, <1>18
  <2>2. call' = [c EXCEPT !.pc = "fetched"]
    BY <1>5, <1>18
  <2>3. Prepared(c, Len(c.windows) + 1)
    BY <1>15, <2>1
  <2> QED BY <1>1, <1>2, <1>16, <2>1, <2>2, <2>3, Fetches
<1> QED BY <1>17, <1>18

-----------------------------------------------------------------------------
(* Recording and rebuilding.                                               *)

\* Normalising keeps coverage and files in agreement.
LEMMA NormalBacks ==
  ASSUME DataInv, NEW s \in Seq(Fact), NEW k, Backs(s, k), True(s)
  PROVE  /\ Backs(NormalizeSegments(s), k) /\ True(NormalizeSegments(s))
         /\ NormalizeSegments(s) \in Seq(Fact) /\ Normal(NormalizeSegments(s))
<1> DEFINE z == NormalizeSegments(s)
<1>1. /\ z \in Seq(Fact) /\ Normal(z)
      /\ \A t \in Nat : /\ Shows(z, t, "available") <=> Shows(s, t, "available")
                        /\ Shows(z, t, "unavailable") <=>
                             Shows(s, t, "unavailable") /\ ~Shows(s, t, "available")
  BY NormalizedIs
<1>2. /\ \A t \in Instant : t \in Nat /\ Floor(bar, t) \in Nat /\ Floor(bar, t) \in Instant
                            /\ Floor(bar, Floor(bar, t)) = Floor(bar, t)
      /\ \A e \in world : e \in Nat
  BY Bars DEF DataInv, Instant
<1> HIDE DEF z
<1>3. Backs(z, k)
  <2>1. CASE IsFunding
    BY <1>1, <1>2, <2>1 DEF Backs
  <2>2. CASE ~IsFunding
    <3>1. ASSUME NEW t \in Instant
          PROVE  /\ Shows(z, t, "available") <=> Floor(bar, t) \in k
                 /\ Shows(z, t, "unavailable") <=> Shows(z, Floor(bar, t), "unavailable")
      <4>1. \A u \in Instant : Shows(s, u, "available") <=> Floor(bar, u) \in k
        BY <2>2 DEF Backs
      <4>2. Shows(s, t, "unavailable") <=> Shows(s, Floor(bar, t), "unavailable")
        BY <2>2 DEF Backs
      <4> QED BY <1>1, <1>2, <4>1, <4>2
    <3> QED BY <2>2, <3>1 DEF Backs
  <2> QED BY <2>1, <2>2
<1>4. True(z)
  BY <1>1, <1>2 DEF True
<1> QED BY <1>1, <1>3, <1>4 DEF z

\* A call records what its windows prove.
LEMMA RecordKeeps ==
  ASSUME WholeInv, Record
  PROVE  WholeInv'
<1> DEFINE s == coverage \o call.facts
           k == stored \cup call.kept
<1>1. /\ At("fetched") /\ stored' = k /\ call' = Idle /\ Fixed
      /\ coverage' = IF call.facts = <<>> THEN coverage ELSE NormalizeSegments(s)
  BY DEF Record, fixed, Fixed
<1>2. DataInv /\ CallInv /\ BackedInv /\ TruthInv
  BY DEF WholeInv, SyncInv
<1>3. /\ coverage \in Seq(Fact) /\ Normal(coverage) /\ call.facts \in Seq(Fact)
      /\ k \subseteq world
  BY <1>2 DEF DataInv, CallInv, Calls
<1>4. s \in Seq(Fact) /\ Backs(s, k) /\ True(s)
  BY <1>2, <1>3, BacksBoth, TrueBoth, ConcatShows DEF BackedInv, TruthInv
<1>5. call.facts = <<>> => s = coverage
  BY <1>3
<1> HIDE DEF s, k
<1>6. coverage' \in Seq(Fact) /\ Normal(coverage') /\ Backs(coverage', stored') /\ True(coverage')
  BY <1>1, <1>2, <1>3, <1>4, <1>5, NormalBacks
<1>7. DataInv'
  BY <1>1, <1>2, <1>3, <1>6 DEF DataInv, Fixed, IsFunding
<1> QED BY <1>1, <1>6, <1>7, Idles

LEMMA SeqMade ==
  ASSUME NEW n \in Nat, NEW A, NEW f, \A i \in 1..n : f[i] \in A
  PROVE  [i \in 1..n |-> f[i]] \in Seq(A) /\ Len([i \in 1..n |-> f[i]]) = n
OBVIOUS

\* What the files prove, month by month.
LEMMA FilesProve ==
  ASSUME DataInv, BackedInv, ~IsFunding,
         NEW slices, slices = MonthSlices(0, Horizon),
         NEW f, f = [i \in DOMAIN slices |->
                      AvailableSegments(bar, Ascending({t \in stored : t \in Instants(slices[i])}))]
  PROVE  /\ FlattenSeq(f) \in Seq(Fact)
         /\ Backs(FlattenSeq(f), stored) /\ True(FlattenSeq(f))
         /\ \A t \in Nat : ~Shows(FlattenSeq(f), t, "unavailable")
<1>1. /\ IsGrid(bar, Horizon) /\ Horizon \in Nat
      /\ \A t \in Instant : t \in Nat /\ Floor(bar, t) \in Nat /\ Floor(bar, t) \in Instant
      /\ world \subseteq 0..(Horizon + 1) /\ stored \subseteq world
      /\ \A t \in world : Aligned(bar, t)
  BY Bars DEF DataInv, Instant
<1>2. \A e \in stored : e < Horizon
  BY DEF BackedInv, Backs
<1>3. /\ slices \in Seq([lo : Nat, hi : Nat])
      /\ \A i \in 1..Len(slices) : slices[i].hi <= Horizon
      /\ \A t \in Nat : 0 <= t /\ t < Horizon =>
           \E i \in 1..Len(slices) : slices[i].lo <= t /\ t < slices[i].hi
  <2> DEFINE m == MonthSlices(0, Horizon)
  <2>1. 0 \in Nat /\ Horizon \in Nat /\ 0 <= Horizon
    BY <1>1
  <2>2. /\ m \in Seq([lo : Nat, hi : Nat])
        /\ \A i \in 1..Len(m) : 0 <= m[i].lo /\ m[i].lo < m[i].hi /\ m[i].hi <= Horizon
        /\ \A t \in Nat : 0 <= t /\ t < Horizon =>
             \E i \in 1..Len(m) : m[i].lo <= t /\ t < m[i].hi
    BY <2>1, MonthSlicesIs
  <2>3. slices = m
    OBVIOUS
  <2> HIDE DEF m
  <2> QED BY <2>2, <2>3
<1>0. DOMAIN slices = 1..Len(slices) /\ Len(slices) \in Nat
  BY <1>3
<1> DEFINE part(i) == {t \in stored : t \in Instants(slices[i])}
<1>4. ASSUME NEW i \in 1..Len(slices)
      PROVE  /\ f[i] \in Seq(Fact)
             /\ \A t \in Nat : /\ Shows(f[i], t, "available") <=> Floor(bar, t) \in part(i)
                               /\ ~Shows(f[i], t, "unavailable")
  <2> DEFINE T == part(i)  r == Ascending(T)
  <2>0. T \subseteq stored
    OBVIOUS
  <2>2. f[i] = AvailableSegments(bar, r)
    BY <1>0
  <2> HIDE DEF T
  <2>1. T \in SUBSET (0..Horizon) /\ T \subseteq world
    <3>1. \A x \in T : x \in 0..(Horizon + 1) /\ x < Horizon
      BY <1>1, <1>2, <2>0
    <3> QED BY <1>1, <2>0, <3>1
  <2>3. r \in Seq(T) /\ \A x \in T : \E j \in 1..Len(r) : r[j] = x
    BY <1>1, <2>1, AscendingIs
  <2> HIDE DEF r
  <2>4. \A x : Has(r, x) <=> x \in T
    BY <2>3 DEF Has
  <2>5. r \in Seq(0..Horizon)
    BY <2>1, <2>3, WiderSeq
  <2>6. \A j \in 1..Len(r) : Aligned(bar, r[j])
    <3> TAKE j \in 1..Len(r)
    <3>1. r[j] \in T
      BY <2>3, ElementOfSeq
    <3> QED BY <1>1, <2>1, <3>1
  <2>7. /\ f[i] \in Seq(Fact)
        /\ \A t \in Nat : /\ Shows(f[i], t, "available") <=> Has(r, Floor(bar, t))
                          /\ ~Shows(f[i], t, "unavailable")
    BY <1>1, <2>2, <2>5, <2>6, AvailableSegmentsIs
  <2>8. T = part(i)
    BY DEF T
  <2> HIDE DEF part
  <2> QED BY <2>4, <2>7, <2>8
<1>5. Len(f) = Len(slices) /\ f \in Seq(Seq(Fact))
  <2> DEFINE g == [i \in 1..Len(slices) |-> f[i]]
  <2>1. f = g
    BY <1>0
  <2>2. \A i \in 1..Len(slices) : f[i] \in Seq(Fact)
    BY <1>4
  <2>3. g \in Seq(Seq(Fact)) /\ Len(g) = Len(slices)
    <3> DEFINE n == Len(slices)  A == Seq(Fact)
    <3>1. n \in Nat /\ \A i \in 1..n : f[i] \in A
      BY <1>0, <2>2
    <3> HIDE DEF n, A
    <3>2. [i \in 1..n |-> f[i]] \in Seq(A) /\ Len([i \in 1..n |-> f[i]]) = n
      BY <3>1, SeqMade
    <3> QED BY <3>2 DEF n, A
  <2> QED BY <2>1, <2>3
<1> DEFINE z == FlattenSeq(f)
<1>6. /\ z \in Seq(Fact)
      /\ \A t, status : Shows(z, t, status) <=> \E i \in 1..Len(f) : Shows(f[i], t, status)
  BY <1>5, FlattenShows
<1>7. ASSUME NEW x \in stored
      PROVE  \E i \in 1..Len(slices) : x \in part(i)
  <2>1. x \in Nat /\ x < Horizon
    BY <1>1, <1>2
  <2>2. PICK i \in 1..Len(slices) : slices[i].lo <= x /\ x < slices[i].hi
    BY <1>3, <2>1
  <2>3. slices[i].lo \in Nat /\ slices[i].hi \in Nat
    <3>1. slices[i] \in [lo : Nat, hi : Nat]
      BY <1>3, ElementOfSeq
    <3> QED BY <3>1
  <2> QED BY <2>1, <2>2, <2>3 DEF Instants
<1>8. \A i \in 1..Len(slices) : part(i) \subseteq stored
  OBVIOUS
<1> HIDE DEF part, z
<1>9. ASSUME NEW t \in Instant
      PROVE  /\ Shows(z, t, "available") <=> Floor(bar, t) \in stored
             /\ ~Shows(z, t, "unavailable")
             /\ ~Shows(z, Floor(bar, t), "unavailable")
  <2>1. t \in Nat /\ Floor(bar, t) \in Nat
    BY <1>1
  <2>2. ~Shows(z, t, "unavailable") /\ ~Shows(z, Floor(bar, t), "unavailable")
    BY <1>4, <1>5, <1>6, <2>1
  <2>3. Shows(z, t, "available") <=> \E i \in 1..Len(slices) : Floor(bar, t) \in part(i)
    BY <1>4, <1>5, <1>6, <2>1
  <2> QED BY <1>7, <1>8, <2>2, <2>3
<1>10. \A t \in Nat : ~Shows(z, t, "unavailable")
  BY <1>4, <1>5, <1>6
<1> QED BY <1>2, <1>6, <1>9, <1>10 DEF Backs, True, z

\* A rebuild states what files prove.
LEMMA RebuildKeeps ==
  ASSUME WholeInv, Rebuild
  PROVE  WholeInv'
<1> DEFINE slices == MonthSlices(0, Horizon)
           f == [i \in DOMAIN slices |->
                   AvailableSegments(bar, Ascending({t \in stored : t \in Instants(slices[i])}))]
<1>1. /\ At("idle") /\ stored' = stored /\ call' = call /\ Fixed
      /\ coverage' = IF IsFunding THEN <<>> ELSE NormalizeSegments(FlattenSeq(f))
  BY DEF Rebuild, fixed, Fixed
<1>2. DataInv /\ CallInv /\ BackedInv /\ TruthInv
  BY DEF WholeInv, SyncInv
<1>3. call' = Idle
  BY <1>1, <1>2 DEF CallInv
<1>4. coverage' \in Seq(Fact) /\ Normal(coverage') /\ Backs(coverage', stored') /\ True(coverage')
  <2>1. CASE IsFunding
    <3>1. \A t, status : ~Shows(<<>>, t, status)
      BY DEF Shows
    <3>2. <<>> \in Seq(Fact) /\ Normal(<<>>) /\ coverage' = <<>>
      BY <1>1, <2>1 DEF Normal
    <3>3. Backs(<<>>, stored) /\ True(<<>>)
      BY <1>2, <2>1, <3>1 DEF BackedInv, Backs, True
    <3> QED BY <1>1, <3>2, <3>3
  <2>2. CASE ~IsFunding
    <3>1. /\ FlattenSeq(f) \in Seq(Fact) /\ Backs(FlattenSeq(f), stored)
          /\ True(FlattenSeq(f))
      BY <1>2, <2>2, FilesProve
    <3> HIDE DEF f
    <3> QED BY <1>1, <1>2, <2>2, <3>1, NormalBacks
  <2> QED BY <2>1, <2>2
<1>5. DataInv'
  BY <1>1, <1>2, <1>4 DEF DataInv, Fixed, IsFunding
<1> QED BY <1>1, <1>3, <1>4, <1>5, Idles

\* Every step of the specification.
LEMMA NextKeeps ==
  ASSUME WholeInv, [Next]_vars
  PROVE  WholeInv'
<1>1. CASE Stops
  BY <1>1, StopsKeeps
<1>2. CASE Page
  BY <1>2, PageKeeps
<1>3. CASE Retry
  BY <1>3, RetryKeeps
<1>4. CASE FinishWindow
  BY <1>4, FinishKeeps
<1>5. CASE Record
  BY <1>5, RecordKeeps
<1>6. CASE Rebuild
  BY <1>6, RebuildKeeps
<1>7. ASSUME NEW r \in Requests, StartSync(r[1], r[2])
      PROVE  WholeInv'
  <2>1. r = <<r[1], r[2]>>
    BY BackfillAssumption
  <2> QED BY <1>7, <2>1, StartKeeps
<1>8. CASE UNCHANGED vars
  BY <1>8 DEF vars, WholeInv, SyncInv, DataInv, CallInv, BackedInv, PagesInv, TruthInv,
              DoneInv, WindowsInv, LoopInv, Calls, PageRows, Looping, At, W, Done, Exhaustive,
              Backs, True, IsFunding, IsBars
<1> QED BY <1>1, <1>2, <1>3, <1>4, <1>5, <1>6, <1>7, <1>8 DEF Next, CallStep

\* In every reachable state coverage and files agree, the call in progress
\* stays in its gaps, its windows, its budgets and the time it observed, and
\* what it is about to record is backed and true (dataset.py, the page loops
\* of providers/ccxt, normalize_segments, evaluate_observation_coverage).
THEOREM Recorded == Spec => []WholeInv
<1>1. Init => WholeInv
  BY InitHolds
<1>2. WholeInv /\ [Next]_vars => WholeInv'
  BY NextKeeps
<1> QED BY <1>1, <1>2, PTL DEF Spec

-----------------------------------------------------------------------------
(* What the runs check.                                                    *)

LEMMA TypesHold ==
  ASSUME WholeInv
  PROVE  BackfillTypeOK
<1>1. DataInv /\ call \in Calls /\ (At("idle") => call = Idle) /\ WindowsInv
  BY DEF WholeInv, SyncInv, CallInv
<1>2. call.windows \in Seq(Fetch) /\ call.at \in Nat /\ call.rows \in Seq(PageRows)
  BY <1>1 DEF Calls
<1>3. call.at \in 0..Len(call.windows)
  <2>1. Len(call.windows) \in Nat
    BY <1>2
  <2>2. CASE At("idle")
    <3>1. call.at = 0
      BY <1>1, <2>2 DEF Idle
    <3> QED BY <2>1, <3>1
  <2>3. CASE ~At("idle")
    BY <1>1, <2>1, <2>3 DEF WindowsInv
  <2> QED BY <2>2, <2>3
<1>4. ToSet(call.rows) \subseteq world \cup Strays
  <2>1. ToSet(call.rows) \subseteq PageRows
    BY <1>2 DEF ToSet
  <2> QED BY <2>1 DEF PageRows
<1>5. \A s \in ToSet(coverage) : s.lo < s.hi /\ s.status \in Statuses
  <2>1. coverage \in Seq(Fact)
    BY <1>1 DEF DataInv
  <2>2. ToSet(coverage) \subseteq Fact
    BY <2>1 DEF ToSet
  <2> QED BY <2>2, FactFields
<1>6. /\ call.pc \in {"idle", "paging", "probing", "exhausted", "fetched"}
      /\ call.attempts \in 0..MaxRetries /\ call.pages \in 0..MaxPages
      /\ call.cursor \in 0..Horizon /\ call.last \in {NoTime} \cup world \cup Strays
  BY <1>1 DEF Calls, Instant
<1> QED BY <1>1, <1>3, <1>4, <1>5, <1>6 DEF BackfillTypeOK, DataInv

LEMMA CanonicalHolds ==
  ASSUME WholeInv
  PROVE  SegmentsCanonical
BY DEF WholeInv, SyncInv, DataInv, Normal, SegmentsCanonical

LEMMA BackedHolds ==
  ASSUME WholeInv
  PROVE  RowsBacked
<1>1. /\ coverage \in Seq(Fact) /\ Normal(coverage) /\ Backs(coverage, stored)
      /\ Horizon \in Nat /\ world \subseteq 0..(Horizon + 1)
  BY BackfillAssumption DEF WholeInv, SyncInv, DataInv, BackedInv
<1>2. \A t \in Nat : StatusAt(coverage, t) = "available" <=> Shows(coverage, t, "available")
  BY <1>1, StatusShown DEF Statuses
<1>3. CASE IsFunding
  <2>1. \A e \in world : e \in Nat
    BY <1>1
  <2> QED BY <1>1, <1>2, <1>3, <2>1 DEF Backs, RowsBacked
<1>4. CASE ~IsFunding
  <2>1. \A t \in 0..(Horizon - 1) : t \in Nat /\ t \in Instant
    BY <1>1 DEF Instant
  <2> QED BY <1>1, <1>2, <1>4, <2>1 DEF Backs, RowsBacked
<1> QED BY <1>3, <1>4

\* Of intervals that keep apart, at most one lies over an instant.
LEMMA OneOver ==
  ASSUME NEW g \in Seq(Gap), Spaced(g), NEW t \in Nat
  PROVE  Over(g, t) <=> Cardinality({i \in DOMAIN g : t \in Instants(g[i])}) = 1
<1> DEFINE S == {i \in DOMAIN g : t \in Instants(g[i])}
<1>1. DOMAIN g = 1..Len(g) /\ Len(g) \in Nat
  OBVIOUS
<1>2. \A i \in 1..Len(g) : g[i].lo \in Nat /\ g[i].hi \in Nat
  BY GapFields, ElementOfSeq
<1>3. ASSUME NEW i \in S, NEW j \in S
      PROVE  i = j
  <2>1. /\ i \in 1..Len(g) /\ j \in 1..Len(g)
        /\ t \in Instants(g[i]) /\ t \in Instants(g[j])
    BY <1>1
  <2>2. g[i].lo <= t /\ t < g[i].hi /\ g[j].lo <= t /\ t < g[j].hi
    BY <1>2, <2>1 DEF Instants
  <2>3. ~(g[i].hi < g[j].lo) /\ ~(g[j].hi < g[i].lo)
    BY <1>2, <2>1, <2>2
  <2> QED BY <1>1, <2>1, <2>3 DEF Spaced
<1>4. Over(g, t) <=> S # {}
  BY <1>1 DEF Over
<1> HIDE DEF S
<1>5. S = {} => (Over(g, t) <=> Cardinality(S) = 1)
  BY <1>4, FS_EmptySet
<1>6. S # {} => (Over(g, t) <=> Cardinality(S) = 1)
  <2> HAVE S # {}
  <2>1. PICK i \in S : TRUE
    OBVIOUS
  <2>2. S = {i}
    BY <1>3, <2>1
  <2>3. Cardinality(S) = 1
    BY <2>2, FS_Singleton
  <2> QED BY <1>4, <2>3
<1>7. Over(g, t) <=> Cardinality(S) = 1
  BY <1>5, <1>6
<1> QED BY <1>7 DEF S

\* The gaps of a call, and what its coverage says of its request.
LEMMA CallGaps ==
  ASSUME WholeInv, ~At("idle")
  PROVE  LET g == AllGaps(call.windows) IN
         /\ call.windows \in Seq(Fetch) /\ call.lo \in Nat /\ call.hi \in Nat
         /\ call.hi <= Horizon /\ Horizon \in Nat
         /\ g \in Seq(Gap) /\ Spaced(g) /\ g # <<>>
         /\ \A i \in 1..Len(g) : call.lo <= g[i].lo /\ g[i].hi <= call.hi
         /\ \A t \in Nat : Over(g, t) <=> call.lo <= t /\ t < call.hi /\ ~Over(coverage, t)
<1> DEFINE g == MissingGaps(coverage, call.lo, call.hi)
<1>1. DataInv /\ call \in Calls /\ WindowsInv /\ Horizon \in Nat
  BY BackfillAssumption DEF WholeInv, SyncInv, CallInv
<1>2. /\ coverage \in Seq(Fact) /\ Normal(coverage)
      /\ call.windows \in Seq(Fetch) /\ call.lo \in Nat /\ call.hi \in Nat
      /\ call.hi <= Horizon
  BY <1>1 DEF DataInv, Calls, Instant
<1>3. /\ call.lo < call.hi /\ AllGaps(call.windows) = g
      /\ call.at \in 1..Len(call.windows)
  BY <1>1 DEF WindowsInv
<1>4. NormalizeSegments(coverage) = coverage
  BY <1>2 DEF NormalizeSegments
<1>5. /\ g \in Seq(Gap) /\ Spaced(g)
      /\ \A i \in 1..Len(g) : call.lo <= g[i].lo /\ g[i].hi <= call.hi
      /\ \A t \in Nat : Over(g, t) <=> call.lo <= t /\ t < call.hi /\ ~Over(coverage, t)
  BY <1>2, <1>3, <1>4, MissingGapsAre
<1> HIDE DEF g
<1>6. g # <<>>
  <2> DEFINE w == call.windows[call.at]
  <2>1. w \in Fetch
    BY <1>2, <1>3, ElementOfSeq
  <2>2. w.gaps \in Seq(Gap) /\ w.gaps # <<>>
    BY <2>1, FetchFields
  <2>3. Has(w.gaps, w.gaps[1])
    BY <2>2 DEF Has
  <2>4. Has(AllGaps(call.windows), w.gaps[1])
    BY <1>2, <1>3, <2>3, AllGapsTyped
  <2> QED BY <1>3, <2>4 DEF Has
<1> QED BY <1>1, <1>2, <1>3, <1>5, <1>6

LEMMA ExactHolds ==
  ASSUME WholeInv
  PROVE  WindowsExact
<1> SUFFICES ASSUME ~At("idle")
             PROVE  WindowsExact
  BY DEF WindowsExact
<1> DEFINE g == AllGaps(call.windows)
<1>1. /\ call.windows \in Seq(Fetch) /\ call.lo \in Nat /\ call.hi \in Nat
      /\ call.hi <= Horizon /\ Horizon \in Nat
      /\ g \in Seq(Gap) /\ Spaced(g) /\ g # <<>>
      /\ \A i \in 1..Len(g) : call.lo <= g[i].lo /\ g[i].hi <= call.hi
      /\ \A t \in Nat : Over(g, t) <=> call.lo <= t /\ t < call.hi /\ ~Over(coverage, t)
  BY CallGaps
<1>2. FlattenSeq([i \in DOMAIN call.windows |-> call.windows[i].gaps]) = g
  BY DEF AllGaps, GapsOf
<1> HIDE DEF g
<1>3. ASSUME NEW t \in call.lo..(call.hi - 1)
      PROVE  StatusAt(coverage, t) = "missing"
               <=> Cardinality({i \in DOMAIN g : t \in Instants(g[i])}) = 1
  <2>1. t \in Nat /\ call.lo <= t /\ t < call.hi
    BY <1>1
  <2>2. coverage \in Seq(Fact) /\ Normal(coverage)
    BY DEF WholeInv, SyncInv, DataInv
  <2>3. StatusAt(coverage, t) = "missing" <=> ~Over(coverage, t)
    BY <2>1, <2>2, StatusShown, OverShows DEF Statuses
  <2> QED BY <1>1, <2>1, <2>3, OneOver
<1>4. \A i \in 1..(Len(g) - 1) : g[i].hi < g[i+1].lo
  <2> TAKE i \in 1..(Len(g) - 1)
  <2>1. i \in 1..Len(g) /\ i + 1 \in 1..Len(g) /\ i < i + 1
    BY <1>1
  <2> QED BY <1>1, <2>1 DEF Spaced
<1>5. call.lo <= g[1].lo /\ Last(g).hi <= call.hi
  <2>1. 1 \in 1..Len(g) /\ Len(g) \in 1..Len(g) /\ Last(g) = g[Len(g)]
    BY <1>1 DEF Last
  <2> QED BY <1>1, <2>1
<1>6. \A w \in ToSet(call.windows) : Len(w.gaps) > 1 => w.hi <= AdvanceBars(bar, w.lo, WindowBars)
  <2>1. \A i \in 1..Len(call.windows) : Narrow(bar, call.windows[i])
    BY DEF WholeInv, SyncInv, CallInv, WindowsInv
  <2> TAKE w \in ToSet(call.windows)
  <2>2. PICK i \in 1..Len(call.windows) : w = call.windows[i]
    BY <1>1 DEF ToSet
  <2> QED BY <2>1, <2>2 DEF Narrow
<1> QED BY <1>2, <1>3, <1>4, <1>5, <1>6 DEF WindowsExact

\* The counters and sequences of a call stay in the bounds the code sets
\* (max_pages, the retries of fetch_page, the window of a cursor).
THEOREM BackfillTyping == Spec => []BackfillTypeOK
BY Recorded, TypesHold, PTL

\* Stored segments are sorted, disjoint and maximal after any calls and
\* rebuilds (normalize_segments).
THEOREM Canonical == Spec => []SegmentsCanonical
BY Recorded, CanonicalHolds, PTL

\* A bar is stated available exactly if its row is stored, and no event of
\* the venue is missing from funding history stated available.
THEOREM CoverageBacked == Spec => []RowsBacked
BY Recorded, BackedHolds, PTL

\* A call asks for exactly the missing time of its request, each instant
\* once, and in no window wider than WindowBars bars over several gaps
\* (_coalesce_fetch_ranges, one window per gap in the families).
THEOREM GapsFetchedOnce == Spec => []WindowsExact
BY Recorded, ExactHolds, PTL

-----------------------------------------------------------------------------
(* What a recorded call adds to the coverage.                              *)

LEMMA RecordShows ==
  ASSUME WholeInv, Record
  PROVE  /\ coverage' \in Seq(Fact) /\ Normal(coverage')
         /\ \A t \in Nat : Over(coverage, t) \/ Over(call.facts, t) => Over(coverage', t)
         /\ \A t \in Nat : Shows(coverage, t, "available") => Shows(coverage', t, "available")
         /\ \A t \in Nat : Over(coverage', t) => Over(coverage, t) \/ Over(call.facts, t)
<1> DEFINE s == coverage \o call.facts
           z == NormalizeSegments(s)
<1>1. /\ coverage \in Seq(Fact) /\ Normal(coverage) /\ call.facts \in Seq(Fact)
  BY DEF WholeInv, SyncInv, DataInv, CallInv, Calls
<1>2. coverage' = IF call.facts = <<>> THEN coverage ELSE z
  BY DEF Record
<1>3. s \in Seq(Fact) /\ \A t, status : Shows(s, t, status) <=>
                           Shows(coverage, t, status) \/ Shows(call.facts, t, status)
  BY <1>1, ConcatShows
<1> HIDE DEF s
<1>4. /\ z \in Seq(Fact) /\ Normal(z)
      /\ \A t \in Nat : /\ Shows(z, t, "available") <=> Shows(s, t, "available")
                        /\ Shows(z, t, "unavailable") <=>
                             Shows(s, t, "unavailable") /\ ~Shows(s, t, "available")
  BY <1>3, NormalizedIs
<1> HIDE DEF z
<1>5. CASE call.facts = <<>>
  <2>1. coverage' = coverage
    BY <1>2, <1>5
  <2>2. \A t : ~Over(call.facts, t)
    BY <1>5 DEF Over
  <2> QED BY <1>1, <2>1, <2>2
<1>6. CASE call.facts # <<>>
  <2>1. coverage' = z
    BY <1>2, <1>6
  <2>2. \A t : Over(z, t) <=> Shows(z, t, "available") \/ Shows(z, t, "unavailable")
    BY <1>4, OverShows
  <2>3. \A t : Over(coverage, t) <=> Shows(coverage, t, "available") \/ Shows(coverage, t, "unavailable")
    BY <1>1, OverShows
  <2>4. \A t : Over(call.facts, t) <=> Shows(call.facts, t, "available") \/ Shows(call.facts, t, "unavailable")
    BY <1>1, OverShows
  <2> QED BY <1>3, <1>4, <2>1, <2>2, <2>3, <2>4
<1> QED BY <1>5, <1>6

\* What a call against an exhaustive venue leaves.
LEMMA Closes ==
  ASSUME WholeInv, Record, Exhaustive, NEW t \in call.lo..(call.hi - 1)
  PROVE  StatusAt(coverage', t) # "missing"
<1> DEFINE g == AllGaps(call.windows)
<1>1. At("fetched") /\ ~At("idle")
  BY DEF Record, At
<1>2. /\ call.windows \in Seq(Fetch) /\ call.lo \in Nat /\ call.hi \in Nat
      /\ call.hi <= Horizon /\ Horizon \in Nat /\ g \in Seq(Gap)
      /\ \A u \in Nat : Over(g, u) <=> call.lo <= u /\ u < call.hi /\ ~Over(coverage, u)
  BY <1>1, CallGaps
<1>3. t \in Nat /\ call.lo <= t /\ t < call.hi /\ t \in Instant
  BY <1>2 DEF Instant
<1>4. Over(coverage, t) \/ Over(call.facts, t)
  <2> SUFFICES ASSUME ~Over(coverage, t)
               PROVE  Over(call.facts, t)
    OBVIOUS
  <2>1. Over(g, t)
    BY <1>2, <1>3
  <2>2. PICK x : Has(g, x) /\ t \in Instants(x)
    BY <2>1 DEF Over, Has
  <2>3. PICK k \in 1..Len(call.windows) : Has(call.windows[k].gaps, x)
    BY <1>2, <2>2, AllGapsTyped
  <2>4. Over(call.windows[k].gaps, t)
    BY <2>2, <2>3 DEF Over, Has
  <2>5. DoneInv
    BY DEF WholeInv
  <2> QED BY <1>1, <1>3, <2>4, <2>5 DEF DoneInv, Done
<1>5. Over(coverage', t) /\ coverage' \in Seq(Fact) /\ Normal(coverage')
  BY <1>3, <1>4, RecordShows
<1> DEFINE z == coverage'
<1>6. z \in Seq(Fact) /\ Normal(z) /\ Over(z, t)
  BY <1>5
<1> HIDE DEF z
<1>7. StatusAt(z, t) # "missing"
  BY <1>3, <1>6, StatusShown, OverShows DEF Statuses
<1> QED BY <1>7 DEF z

\* A sync that succeeds against a venue taken as exhaustive leaves nothing
\* of its request missing, empty pages and cut bars included.
THEOREM SyncsClose == Spec => SyncCloses
<1>1. WholeInv /\ [Next]_vars =>
        [(Record /\ Exhaustive) =>
           \A t \in call.lo..(call.hi - 1) : StatusAt(coverage', t) # "missing"]_vars
  BY Closes
<1> QED BY <1>1, Recorded, PTL DEF Spec, SyncCloses

-----------------------------------------------------------------------------
(* The refinement of the slots' promise.                                   *)

\* Coverage tells the truth.
LEMMA Truthfully ==
  ASSUME NEW s \in Seq(Fact), Normal(s), NEW k \in SUBSET world, Backs(s, k), True(s),
         NEW t \in 0..(Horizon - 1)
  PROVE  /\ t \in Nat /\ t \in Instant
         /\ StatusAt(s, t) \in {"missing", Truth[t]}
         /\ StatusAt(s, t) = "missing" <=> ~Over(s, t)
         /\ StatusAt(s, t) = "available" <=> Shows(s, t, "available")
         /\ StatusAt(s, t) = "unavailable" <=> Shows(s, t, "unavailable")
<1>2. t \in Nat /\ t \in Instant
  BY BackfillAssumption DEF Instant
<1>3. /\ StatusAt(s, t) = "available" <=> Shows(s, t, "available")
      /\ StatusAt(s, t) = "unavailable" <=> Shows(s, t, "unavailable")
      /\ StatusAt(s, t) \in {"available", "unavailable", "missing"}
      /\ StatusAt(s, t) = "missing" <=>
           ~Shows(s, t, "available") /\ ~Shows(s, t, "unavailable")
  BY <1>2, StatusShown DEF Statuses
<1>4. Truth[t] = IF IsFunding \/ Floor(bar, t) \in world THEN "available" ELSE "unavailable"
  BY DEF Truth
<1>5. Shows(s, t, "unavailable") => Truth[t] = "unavailable"
  BY <1>2, <1>4 DEF True
<1>6. Shows(s, t, "available") => Truth[t] = "available"
  BY <1>2, <1>4 DEF Backs
<1>7. StatusAt(s, t) = "missing" <=> ~Over(s, t)
  BY <1>3, OverShows
<1> QED BY <1>2, <1>3, <1>5, <1>6, <1>7

\* What the next state's coverage is backed by.
LEMMA NextData ==
  ASSUME WholeInv', Fixed
  PROVE  /\ coverage' \in Seq(Fact) /\ Normal(coverage') /\ stored' \in SUBSET world
         /\ Backs(coverage', stored') /\ True(coverage')
<1>1. DataInv' /\ BackedInv' /\ TruthInv'
  BY DEF WholeInv, SyncInv
<1>2. coverage' \in Seq(Fact) /\ Normal(coverage') /\ stored' \in SUBSET world
  BY <1>1 DEF DataInv, Fixed
<1>3. Backs(coverage', stored')
  BY <1>1 DEF BackedInv, Backs, Fixed, IsFunding
<1>4. True(coverage')
  BY <1>1 DEF TruthInv, True, Fixed, IsFunding
<1> QED BY <1>2, <1>3, <1>4

LEMMA ThisData ==
  ASSUME WholeInv
  PROVE  /\ coverage \in Seq(Fact) /\ Normal(coverage) /\ stored \in SUBSET world
         /\ Backs(coverage, stored) /\ True(coverage)
BY DEF WholeInv, SyncInv, DataInv, BackedInv, TruthInv

LEMMA TruthStays ==
  ASSUME Fixed
  PROVE  Truth' = Truth
BY DEF Fixed, Truth, IsFunding

\* A recorded call only learns.
LEMMA RecordLearns ==
  ASSUME WholeInv, WholeInv', Record
  PROVE  Slots!Next(Kept)
<1>1. Fixed
  BY DEF Record, fixed, Fixed
<1> DEFINE z == coverage'  k == stored'
<1>2. /\ coverage \in Seq(Fact) /\ Normal(coverage) /\ stored \in SUBSET world
      /\ Backs(coverage, stored) /\ True(coverage)
  BY ThisData
<1>3. z \in Seq(Fact) /\ Normal(z) /\ k \in SUBSET world /\ Backs(z, k) /\ True(z)
  BY <1>1, NextData
<1>4. /\ \A t \in Nat : Over(coverage, t) => Over(z, t)
      /\ \A t \in Nat : Shows(coverage, t, "available") => Shows(z, t, "available")
  BY RecordShows
<1>5. Told' = [t \in 0..(Horizon - 1) |-> StatusAt(z, t)]
  BY DEF Told
<1> HIDE DEF z, k
<1>6. ASSUME NEW t \in 0..(Horizon - 1)
      PROVE  StatusAt(z, t) \in {StatusAt(coverage, t), Truth[t]}
  <2>1. /\ t \in Nat /\ StatusAt(coverage, t) \in {"missing", Truth[t]}
        /\ StatusAt(coverage, t) = "missing" <=> ~Over(coverage, t)
    BY <1>2, Truthfully
  <2>2. /\ StatusAt(z, t) \in {"missing", Truth[t]}
        /\ StatusAt(z, t) = "missing" <=> ~Over(z, t)
    BY <1>3, Truthfully
  <2> QED BY <1>4, <2>1, <2>2
<1>7. Slots!Learn
  BY <1>5, <1>6 DEF Slots!Learn, Told
<1> QED BY <1>1, <1>7, TruthStays DEF Slots!Next

\* A rebuild only forgets, and nothing that rows prove.
LEMMA RebuildForgets ==
  ASSUME WholeInv, WholeInv', Rebuild
  PROVE  Slots!Next(Kept)
<1>1. Fixed /\ stored' = stored
  BY DEF Rebuild, fixed, Fixed
<1> DEFINE z == coverage'
           slices == MonthSlices(0, Horizon)
           f == [i \in DOMAIN slices |->
                   AvailableSegments(bar, Ascending({t \in stored : t \in Instants(slices[i])}))]
<1>2. /\ coverage \in Seq(Fact) /\ Normal(coverage) /\ stored \in SUBSET world
      /\ Backs(coverage, stored) /\ True(coverage)
  BY ThisData
<1>3. z \in Seq(Fact) /\ Normal(z) /\ Backs(z, stored) /\ True(z)
  BY <1>1, NextData
<1>4. z = IF IsFunding THEN <<>> ELSE NormalizeSegments(FlattenSeq(f))
  BY DEF Rebuild
<1>5. \A t \in Nat : ~Shows(z, t, "unavailable")
  <2>1. CASE IsFunding
    <3>1. z = <<>>
      BY <1>4, <2>1
    <3> QED BY <3>1 DEF Shows
  <2>2. CASE ~IsFunding
    <3>1. FlattenSeq(f) \in Seq(Fact) /\ \A t \in Nat : ~Shows(FlattenSeq(f), t, "unavailable")
      BY <2>2, FilesProve DEF WholeInv, SyncInv
    <3> DEFINE s == FlattenSeq(f)
    <3>2. s \in Seq(Fact) /\ (\A t \in Nat : ~Shows(s, t, "unavailable")) /\ z = NormalizeSegments(s)
      BY <1>4, <2>2, <3>1
    <3> HIDE DEF s, z
    <3> QED BY <3>2, NormalizedIs
  <2> QED BY <2>1, <2>2
<1>6. Told' = [t \in 0..(Horizon - 1) |-> StatusAt(z, t)]
  BY DEF Told
<1>7. IsFunding => \A t \in Nat : ~Shows(z, t, "available")
  <2> HAVE IsFunding
  <2>1. z = <<>>
    BY <1>4
  <2> QED BY <2>1 DEF Shows
<1> HIDE DEF z
<1>8. ASSUME NEW t \in 0..(Horizon - 1), StatusAt(z, t) # StatusAt(coverage, t)
      PROVE  StatusAt(z, t) = "missing" /\ StatusAt(coverage, t) \notin Kept
  <2>1. /\ t \in Nat /\ t \in Instant
        /\ StatusAt(coverage, t) = "available" <=> Shows(coverage, t, "available")
    BY <1>2, Truthfully
  <2>2. /\ StatusAt(z, t) = "missing" <=> ~Over(z, t)
        /\ StatusAt(z, t) = "available" <=> Shows(z, t, "available")
    BY <1>2, <1>3, Truthfully
  <2>3. Over(z, t) <=> Shows(z, t, "available") \/ Shows(z, t, "unavailable")
    BY <1>3, OverShows
  <2>4. CASE IsFunding
    BY <1>5, <1>7, <2>1, <2>2, <2>3, <2>4 DEF Kept
  <2>5. CASE ~IsFunding
    <3>1. Shows(z, t, "available") <=> Shows(coverage, t, "available")
      BY <1>2, <1>3, <2>1, <2>5 DEF Backs
    <3> QED BY <1>5, <1>8, <2>1, <2>2, <2>3, <2>5, <3>1 DEF Kept
  <2> QED BY <2>4, <2>5
<1>9. Slots!Forget(Kept)
  BY <1>6, <1>8 DEF Slots!Forget, Told
<1> QED BY <1>1, <1>9, TruthStays DEF Slots!Next

LEMMA Stutters ==
  ASSUME Fixed, coverage' = coverage
  PROVE  UNCHANGED <<Told, Truth>>
BY TruthStays DEF Told

\* Every step is a step of the slots' promise or changes nothing it sees.
LEMMA StepRefines ==
  ASSUME WholeInv, WholeInv', [Next]_vars
  PROVE  [Slots!Next(Kept)]_<<Told, Truth>>
<1>1. CASE Stops \/ Page \/ Retry \/ FinishWindow \/ UNCHANGED vars
         \/ \E r \in Requests : StartSync(r[1], r[2])
  <2>1. Fixed /\ coverage' = coverage
    BY <1>1 DEF Stops, Page, Retry, FinishWindow, StartSync, vars, fixed, data, Fixed
  <2> QED BY <2>1, Stutters
<1>2. CASE Record
  BY <1>2, RecordLearns
<1>3. CASE Rebuild
  BY <1>3, RebuildForgets
<1> QED BY <1>1, <1>2, <1>3 DEF Next, CallStep

LEMMA InitRefines ==
  ASSUME Init
  PROVE  Slots!Init
<1>1. \A t : StatusAt(coverage, t) = "missing"
  BY DEF Init, StatusAt
<1>2. DOMAIN Truth = 0..(Horizon - 1)
  BY DEF Truth
<1> QED BY <1>1, <1>2 DEF Slots!Init, Told

\* Coverage implements the promise of SlotCoverage: a recorded call only
\* learns what an observer of the whole venue would state, and a rebuild
\* forgets nothing that rows prove.
THEOREM CoverageTellsTruth == Spec => ImplementsSlotCoverage
<1>1. Init => Slots!Init
  BY InitRefines
<1>2. WholeInv /\ WholeInv' /\ [Next]_vars => [Slots!Next(Kept)]_<<Told, Truth>>
  BY StepRefines
<1> QED BY <1>1, <1>2, Recorded, PTL DEF Spec, ImplementsSlotCoverage
=============================================================================
