--------------------------- MODULE TimeSpecProofs ---------------------------
(***************************************************************************)
(* Proofs about TimeSpec, for any dates and hours and inputs of any        *)
(* length: what normalize_intervals makes of a list of intervals, and      *)
(* that a rule keeps its meaning from the text or JSON to the mask, to the *)
(* range Gofer is asked for and back to text.                              *)
(***************************************************************************)
EXTENDS TimeSpec, FiniteSetTheorems, WellFoundedInduction, TLAPS

-----------------------------------------------------------------------------
(* Numbers.                                                                *)

\* A set of naturals has a least element.
LEMMA LeastOf ==
  ASSUME NEW S, S \subseteq Nat, S # {}
  PROVE  \E m \in S : \A n \in S : m <= n
<1> DEFINE R == OpToRel(<, Nat)
<1>1. IsWellFoundedOn(R, Nat)
  BY NatLessThanWellFounded
<1>2. \A x, y \in Nat : x < y => <<x, y>> \in R
  BY DEF OpToRel
<1> HIDE DEF R
<1>3. PICK m \in S : \A n \in S : ~(<<n, m>> \in R)
  BY <1>1, WFMin
<1>4. ASSUME NEW n \in S
      PROVE  m <= n
  <2>1. m \in Nat /\ n \in Nat /\ ~(n < m)
    BY <1>2, <1>3
  <2> QED
    BY <2>1
<1> QED
  BY <1>4

\* What holds of 0 and of n + 1 with n holds of every number.
LEMMA InductiveSet ==
  ASSUME NEW S, 0 \in S, \A n \in Nat : n \in S => n + 1 \in S
  PROVE  Nat \subseteq S
<1>1. SUFFICES ASSUME Nat \ S # {} PROVE FALSE
  OBVIOUS
<1>2. PICK m \in Nat \ S : \A n \in Nat \ S : m <= n
  BY <1>1, LeastOf
<1>3. m # 0 /\ m - 1 \in Nat /\ m - 1 \notin Nat \ S
  BY <1>2
<1> QED
  BY <1>2, <1>3

\* A bounded set of naturals has a greatest element.
LEMMA GreatestOf ==
  ASSUME NEW S, S \subseteq Nat, S # {}, NEW bound \in Nat, \A n \in S : n <= bound
  PROVE  \E m \in S : \A n \in S : n <= m
<1> DEFINE gaps == {bound - n : n \in S}
<1>1. gaps \subseteq Nat /\ gaps # {}
  <2>1. \A n \in S : bound - n \in Nat
    OBVIOUS
  <2>2. PICK n \in S : TRUE
    OBVIOUS
  <2>3. bound - n \in gaps
    OBVIOUS
  <2> QED
    BY <2>1, <2>3
<1>2. PICK g \in gaps : \A h \in gaps : g <= h
  BY <1>1, LeastOf
<1>3. PICK m \in S : g = bound - m
  BY <1>2
<1>4. ASSUME NEW n \in S
      PROVE  n <= m
  <2>1. bound - m <= bound - n
    BY <1>2, <1>3
  <2> QED
    BY <2>1
<1> QED
  BY <1>4

\* Max and Min of the library, where there is one.
LEMMA MaxIs ==
  ASSUME NEW S, S \subseteq Int, NEW m \in S, \A n \in S : n <= m
  PROVE  Max(S) = m
<1>1. PICK x : x = Max(S)
  OBVIOUS
<1>2. x \in S /\ \A n \in S : x >= n
  BY <1>1 DEF Max
<1>3. x >= m /\ x <= m /\ x \in Int /\ m \in Int
  BY <1>2
<1>4. x = m
  BY <1>3
<1> QED
  BY <1>1, <1>4

LEMMA MinIs ==
  ASSUME NEW S, S \subseteq Int, NEW m \in S, \A n \in S : m <= n
  PROVE  Min(S) = m
<1>1. PICK x : x = Min(S)
  OBVIOUS
<1>2. x \in S /\ \A n \in S : x <= n
  BY <1>1 DEF Min
<1>3. x >= m /\ x <= m /\ x \in Int /\ m \in Int
  BY <1>2
<1>4. x = m
  BY <1>3
<1> QED
  BY <1>1, <1>4

\* A finite set of naturals is bounded.
LEMMA FiniteIsBounded ==
  ASSUME NEW S, S \subseteq Nat, IsFiniteSet(S)
  PROVE  \E bound \in Nat : \A n \in S : n <= bound
<1>0. PICK N \in Nat : ExistsSurjection(1..N, S)
  BY FS_NatSurjection
<1>1. PICK f \in [1..N -> S] : \A x \in S : \E i \in 1..N : f[i] = x
  BY <1>0 DEF ExistsSurjection, Surjection
<1> DEFINE good == {n \in Nat : \E bound \in Nat : \A i \in 1..N : i <= n => f[i] <= bound}
<1>2. 0 \in good
  OBVIOUS
<1>3. ASSUME NEW n \in Nat, n \in good
      PROVE  n + 1 \in good
  <2>1. PICK bound \in Nat : \A i \in 1..N : i <= n => f[i] <= bound
    BY <1>3
  <2>2. CASE n + 1 \in 1..N
    <3>1. f[n + 1] \in Nat
      BY <2>2
    <3>2. \A i \in 1..N : i <= n + 1 => i <= n \/ i = n + 1
      OBVIOUS
    <3>3. \A i \in 1..N : f[i] \in Nat
      OBVIOUS
    <3>4. PICK higher \in Nat : higher = bound + f[n + 1]
      BY <3>1
    <3>5. \A i \in 1..N : i <= n + 1 => f[i] <= higher
      BY <2>1, <3>1, <3>2, <3>3, <3>4
    <3> QED
      BY <3>5
  <2>3. CASE n + 1 \notin 1..N
    BY <2>1, <2>3
  <2> QED
    BY <2>2, <2>3
<1>4. N \in good
  <2> HIDE DEF good
  <2> QED
    BY <1>2, <1>3, InductiveSet
<1>5. PICK bound \in Nat : \A i \in 1..N : i <= N => f[i] <= bound
  BY <1>4
<1>6. \A i \in 1..N : f[i] <= bound
  BY <1>5
<1> QED
  BY <1>1, <1>6


-----------------------------------------------------------------------------
(* Intervals and their bounds.                                             *)

Pairs == Nat \X Nat

\* Intervals as they are sent or made from rules.
AnyInterval == [start_date : Nat, start_hour : Nat, end_date : Nat, end_hour : Nat]

\* The hours of a pair of bounds.
Covers(b, k) == b[1] <= k /\ k < b[2]

\* Intervals as normalize_intervals writes them.
Canonical(i) ==
  /\ i \in AnyInterval /\ i.start_hour <= 23 /\ 1 <= i.end_hour /\ i.end_hour <= 24
  /\ i.start_date <= i.end_date /\ Bounds(i)[1] < Bounds(i)[2]
  /\ FromBounds(Bounds(i)) = i

LEMMA BoundsType ==
  ASSUME NEW i \in AnyInterval
  PROVE  /\ Bounds(i) \in Pairs
         /\ Bounds(i)[1] = i.start_date * 24 + i.start_hour
         /\ Bounds(i)[2] = i.end_date * 24 + i.end_hour
  BY DEF Bounds, AnyInterval, Pairs

\* Writing a pair of bounds as an interval and reading it back changes nothing.
LEMMA BoundsBack ==
  ASSUME NEW b \in Pairs, b[1] < b[2]
  PROVE  Canonical(FromBounds(b)) /\ Bounds(FromBounds(b)) = b
<1> DEFINE x == b[1]
           y == b[2]
<1>1. x \in Nat /\ y \in Nat /\ x < y /\ b = <<x, y>>
  BY DEF Pairs
<1> DEFINE xd == x \div 24
           xh == x % 24
           yd == y \div 24
           yh == y % 24
<1>2. /\ xd \in Nat /\ xh \in Nat /\ xh <= 23 /\ x = xd * 24 + xh
      /\ yd \in Nat /\ yh \in Nat /\ yh <= 23 /\ y = yd * 24 + yh
  BY <1>1
<1>3. FromBounds(b) = IF yh = 0 THEN Interval(xd, xh, yd - 1, 24) ELSE Interval(xd, xh, yd, yh)
  BY <1>1 DEF FromBounds
<1> HIDE DEF xd, xh, yd, yh
<1>4. CASE yh = 0
  <2>1. yd - 1 \in Nat /\ xd <= yd - 1
    BY <1>1, <1>2, <1>4
  <2>2. PICK i : i = Interval(xd, xh, yd - 1, 24)
    OBVIOUS
  <2>3. i \in AnyInterval /\ i.start_date = xd /\ i.start_hour = xh /\ i.end_date = yd - 1 /\ i.end_hour = 24
    BY <1>2, <2>1, <2>2 DEF Interval, AnyInterval
  <2>4. Bounds(i) \in Pairs /\ Bounds(i)[1] = x /\ Bounds(i)[2] = y
    BY <1>1, <1>2, <1>4, <2>1, <2>3, BoundsType
  <2>5. Bounds(i) = b
    BY <1>1, <2>4 DEF Pairs
  <2>6. FromBounds(b) = i
    BY <1>3, <1>4, <2>2
  <2> QED
    BY <1>1, <1>2, <2>1, <2>3, <2>5, <2>6 DEF Canonical
<1>5. CASE yh # 0
  <2>1. xd <= yd
    BY <1>1, <1>2
  <2>2. PICK i : i = Interval(xd, xh, yd, yh)
    OBVIOUS
  <2>3. i \in AnyInterval /\ i.start_date = xd /\ i.start_hour = xh /\ i.end_date = yd /\ i.end_hour = yh
    BY <1>2, <2>1, <2>2 DEF Interval, AnyInterval
  <2>4. Bounds(i) \in Pairs /\ Bounds(i)[1] = x /\ Bounds(i)[2] = y
    BY <1>1, <1>2, <1>5, <2>1, <2>3, BoundsType
  <2>5. Bounds(i) = b
    BY <1>1, <2>4 DEF Pairs
  <2>6. FromBounds(b) = i
    BY <1>3, <1>5, <2>2
  <2> QED
    BY <1>1, <1>2, <1>5, <2>1, <2>3, <2>5, <2>6 DEF Canonical
<1> QED
  BY <1>4, <1>5

-----------------------------------------------------------------------------
(* Joining intervals.                                                      *)

\* Pairs in order that neither overlap nor touch.
Apart(v) ==
  /\ v \in Seq(Pairs)
  /\ \A n \in DOMAIN v : v[n][1] < v[n][2]
  /\ \A m, n \in DOMAIN v : m < n => v[m][2] < v[n][1]

Covered(v) == {k \in Nat : \E n \in DOMAIN v : Covers(v[n], k)}

LEMMA MaxOfTwo ==
  ASSUME NEW a \in Nat, NEW b \in Nat
  PROVE  Max({a, b}) = IF a >= b THEN a ELSE b
<1>1. CASE a >= b
  BY <1>1, MaxIs
<1>2. CASE ~(a >= b)
  BY <1>2, MaxIs
<1> QED
  BY <1>1, <1>2

LEMMA PairsAre ==
  ASSUME NEW b \in Pairs
  PROVE  b[1] \in Nat /\ b[2] \in Nat /\ b = <<b[1], b[2]>>
  BY DEF Pairs

\* The two cases of Join, element by element.
LEMMA JoinExtends ==
  ASSUME NEW v \in Seq(Pairs), NEW b \in Pairs, v # <<>> /\ b[1] <= Last(v)[2]
  PROVE  /\ Join(v, b) \in Seq(Pairs) /\ Len(Join(v, b)) = Len(v) /\ Len(v) \in Nat \ {0}
         /\ \A n \in 1..Len(v) : n # Len(v) => Join(v, b)[n] = v[n]
         /\ Join(v, b)[Len(v)] =
              <<v[Len(v)][1], IF v[Len(v)][2] >= b[2] THEN v[Len(v)][2] ELSE b[2]>>
<1> DEFINE L == Len(v)
<1>1. L \in Nat \ {0} /\ v \in [1..L -> Pairs] /\ L \in 1..L
  OBVIOUS
<1>2. v[L] \in Pairs /\ v[L][1] \in Nat /\ v[L][2] \in Nat /\ b[2] \in Nat
  BY <1>1, PairsAre
<1>3. PICK e : e = <<v[L][1], IF v[L][2] >= b[2] THEN v[L][2] ELSE b[2]>>
  OBVIOUS
<1>4. e \in Pairs /\ e = <<v[L][1], Max({v[L][2], b[2]})>>
  BY <1>2, <1>3, MaxOfTwo DEF Pairs
<1>5. Join(v, b) = [v EXCEPT ![L] = e]
  BY <1>1, <1>4 DEF Join
<1>6. [v EXCEPT ![L] = e] \in [1..L -> Pairs]
  BY <1>1, <1>4
<1> QED
  BY <1>1, <1>3, <1>5, <1>6

LEMMA JoinAppends ==
  ASSUME NEW v \in Seq(Pairs), NEW b \in Pairs, ~(v # <<>> /\ b[1] <= Last(v)[2])
  PROVE  /\ Join(v, b) \in Seq(Pairs) /\ Len(Join(v, b)) = Len(v) + 1 /\ Len(v) \in Nat
         /\ \A n \in 1..Len(v) : Join(v, b)[n] = v[n]
         /\ Join(v, b)[Len(v) + 1] = b
  BY DEF Join

LEMMA JoinType ==
  ASSUME NEW v \in Seq(Pairs), NEW b \in Pairs
  PROVE  Join(v, b) \in Seq(Pairs)
  BY JoinExtends, JoinAppends

\* An interval that does not begin before the last one is joined to intervals apart: they stay
\* apart and cover its hours too.
LEMMA JoinKeepsApart ==
  ASSUME NEW v, Apart(v), NEW b \in Pairs, b[1] < b[2], v # <<>> => Last(v)[1] <= b[1]
  PROVE  /\ Apart(Join(v, b)) /\ Join(v, b) # <<>> /\ Last(Join(v, b))[1] <= b[1]
         /\ \A k \in Nat : k \in Covered(Join(v, b)) <=> k \in Covered(v) \/ Covers(b, k)
<1>a. v \in Seq(Pairs)
  BY DEF Apart
<1>b. PICK L \in Nat : L = Len(v) /\ DOMAIN v = 1..L
  BY <1>a
<1>0. /\ v \in Seq(Pairs) /\ L = Len(v) /\ DOMAIN v = 1..L /\ b[1] \in Nat /\ b[2] \in Nat
      /\ \A n \in 1..L : v[n] \in Pairs /\ v[n][1] \in Nat /\ v[n][2] \in Nat
  BY <1>a, <1>b, PairsAre
<1>00. PICK w : w = Join(v, b)
  OBVIOUS
<1>1. CASE v # <<>> /\ b[1] <= Last(v)[2]
  <2>1. /\ w \in Seq(Pairs) /\ DOMAIN w = 1..L /\ Len(w) = L /\ L \in 1..L
        /\ \A n \in 1..L : n # L => w[n] = v[n]
        /\ w[L][1] = v[L][1] /\ w[L][2] = IF v[L][2] >= b[2] THEN v[L][2] ELSE b[2]
    <3>1. /\ w \in Seq(Pairs) /\ Len(w) = L /\ L # 0
          /\ \A n \in 1..L : n # L => w[n] = v[n]
          /\ w[L] = <<v[L][1], IF v[L][2] >= b[2] THEN v[L][2] ELSE b[2]>>
      BY <1>0, <1>00, <1>1, JoinExtends
    <3> QED
      BY <3>1
  <2>a. \A n \in 1..L : n < L \/ n = L
    OBVIOUS
  <2>2. v[L][1] <= b[1] /\ b[1] <= v[L][2] /\ v[L][1] < v[L][2]
    BY <1>0, <1>1 DEF Last, Apart
  <2>b. v[L][1] \in Nat /\ v[L][2] \in Nat /\ b[1] \in Nat /\ b[2] \in Nat
    BY <1>0, <2>1
  <2>3. \A n \in 1..L : w[n][1] < w[n][2]
    BY <1>0, <2>1, <2>2, <2>b DEF Apart
  <2>4. ASSUME NEW m \in 1..L, NEW n \in 1..L, m < n
        PROVE  w[m][2] < w[n][1]
    <3>1. m # L /\ w[m] = v[m] /\ w[n][1] = v[n][1]
      BY <2>1, <2>4
    <3> QED
      BY <1>0, <2>4, <3>1 DEF Apart
  <2>5. Apart(w)
    BY <2>1, <2>3, <2>4 DEF Apart
  <2>6. Last(w)[1] <= b[1] /\ w # <<>>
    BY <2>1, <2>2 DEF Last
  <2>7. ASSUME NEW k \in Nat
        PROVE  Covers(w[L], k) <=> Covers(v[L], k) \/ Covers(b, k)
    BY <2>1, <2>2, <2>b DEF Covers
  <2>8. ASSUME NEW k \in Nat
        PROVE  k \in Covered(w) <=> k \in Covered(v) \/ Covers(b, k)
    <3>1. k \in Covered(w) <=> (\E n \in 1..L : n # L /\ Covers(v[n], k)) \/ Covers(w[L], k)
      BY <2>1 DEF Covered
    <3>2. k \in Covered(v) <=> (\E n \in 1..L : n # L /\ Covers(v[n], k)) \/ Covers(v[L], k)
      BY <1>0, <2>1 DEF Covered
    <3> QED
      BY <2>7, <3>1, <3>2
  <2> QED
    BY <1>00, <2>5, <2>6, <2>8
<1>2. CASE ~(v # <<>> /\ b[1] <= Last(v)[2])
  <2>1. /\ w \in Seq(Pairs) /\ DOMAIN w = 1..(L + 1) /\ Len(w) = L + 1
        /\ \A n \in 1..L : w[n] = v[n]
        /\ w[L + 1] = b
    BY <1>0, <1>00, <1>2, JoinAppends
  <2>2. \A n \in 1..(L + 1) : n \in 1..L \/ n = L + 1
    BY <1>0
  <2>3. \A n \in 1..L : v[n][2] < b[1]
    <3>1. SUFFICES ASSUME NEW n \in 1..L PROVE v[n][2] < b[1]
      OBVIOUS
    <3>2. L \in 1..L /\ v[L][2] < b[1]
      BY <1>0, <1>2 DEF Last
    <3>3. n < L => v[n][2] < v[L][1] /\ v[L][1] < v[L][2]
      BY <1>0, <3>2 DEF Apart
    <3>4. n < L \/ n = L
      OBVIOUS
    <3>5. v[n][2] \in Nat /\ v[L][1] \in Nat /\ v[L][2] \in Nat
      BY <1>0, <3>2
    <3> QED
      BY <1>0, <3>2, <3>3, <3>4, <3>5
  <2>4. \A n \in 1..(L + 1) : w[n][1] < w[n][2]
    BY <1>0, <2>1, <2>2 DEF Apart
  <2>5. \A m, n \in 1..(L + 1) : m < n => w[m][2] < w[n][1]
    <3>1. SUFFICES ASSUME NEW m \in 1..(L + 1), NEW n \in 1..(L + 1), m < n PROVE w[m][2] < w[n][1]
      OBVIOUS
    <3>2. m \in 1..L
      BY <1>0, <3>1
    <3> QED
      BY <1>0, <2>1, <2>2, <2>3, <3>1, <3>2 DEF Apart
  <2>6. Apart(w)
    BY <2>1, <2>4, <2>5 DEF Apart
  <2>7. Last(w)[1] <= b[1] /\ w # <<>>
    BY <1>0, <2>1 DEF Last
  <2>8. ASSUME NEW k \in Nat
        PROVE  k \in Covered(w) <=> k \in Covered(v) \/ Covers(b, k)
    BY <1>0, <2>1, <2>2 DEF Covered
  <2> QED
    BY <1>00, <2>6, <2>7, <2>8
<1> QED
  BY <1>1, <1>2

\* What the loop of normalize_intervals has after each interval.
LEMMA MergedStepwise ==
  ASSUME NEW s \in Seq(Pairs)
  PROVE  \E m : /\ m[0] = <<>> /\ \A n \in 1..Len(s) : m[n] = Join(m[n - 1], s[n])
                /\ Merged(s) = m[Len(s)]
<1> DEFINE N == Len(s)
           IsMerging(m, n) ==
             m = [j \in 0..n |-> IF j = 0 THEN <<>> ELSE Join(m[j - 1], s[j])]
           good == {n \in Nat : \E m : IsMerging(m, n)}
<1>1. 0 \in good
  <2> DEFINE m == [j \in 0..0 |-> <<>>]
  <2>1. IsMerging(m, 0)
    OBVIOUS
  <2> HIDE DEF m
  <2> QED
    BY <2>1
<1>2. ASSUME NEW n \in Nat, n \in good
      PROVE  n + 1 \in good
  <2>1. PICK m : IsMerging(m, n)
    BY <1>2
  <2> DEFINE more == [j \in 0..(n + 1) |-> IF j = n + 1 THEN Join(m[n], s[n + 1]) ELSE m[j]]
  <2>2. \A j \in 0..n : more[j] = m[j] /\ m[j] = IF j = 0 THEN <<>> ELSE Join(m[j - 1], s[j])
    BY <2>1
  <2>3. more[n + 1] = Join(m[n], s[n + 1]) /\ more[n] = m[n]
    OBVIOUS
  <2>4. ASSUME NEW j \in 0..(n + 1)
        PROVE  more[j] = IF j = 0 THEN <<>> ELSE Join(more[j - 1], s[j])
    <3> HIDE DEF more
    <3>1. CASE j = n + 1
      BY <2>3, <3>1
    <3>2. CASE j \in 1..n
      <4>1. j - 1 \in 0..n /\ j \in 0..n /\ j # 0
        BY <3>2
      <4> QED
        BY <2>2, <4>1
    <3>3. CASE j = 0
      BY <2>2, <3>3
    <3> QED
      BY <3>1, <3>2, <3>3
  <2>5. more = [j \in 0..(n + 1) |-> IF j = 0 THEN <<>> ELSE Join(more[j - 1], s[j])]
    <3>1. more = [j \in 0..(n + 1) |-> more[j]]
      OBVIOUS
    <3> HIDE DEF more
    <3> QED
      BY <2>4, <3>1
  <2> HIDE DEF more
  <2>6. IsMerging(more, n + 1)
    BY <2>5
  <2> QED
    BY <2>6
<1>3. N \in Nat /\ N \in good
  <2> HIDE DEF good
  <2> QED
    BY <1>1, <1>2, InductiveSet
<1>4. PICK m : m = CHOOSE f : IsMerging(f, N)
  OBVIOUS
<1>5. IsMerging(m, N)
  BY <1>3, <1>4
<1>6. Merged(s) = m[N]
  BY <1>4 DEF Merged
<1>7. m[0] = <<>> /\ \A n \in 1..N : m[n] = Join(m[n - 1], s[n])
  BY <1>3, <1>5
<1> QED
  BY <1>6, <1>7

\* Intervals sorted by their first hours end up apart and cover what they covered.
LEMMA MergedApart ==
  ASSUME NEW s \in Seq(Pairs), \A n \in DOMAIN s : s[n][1] < s[n][2],
         \A m, n \in DOMAIN s : m < n => s[m][1] <= s[n][1]
  PROVE  Apart(Merged(s)) /\ Covered(Merged(s)) = Covered(s)
<1> DEFINE N == Len(s)
<1>1. N \in Nat /\ DOMAIN s = 1..N /\ \A n \in 1..N : s[n] \in Pairs
  OBVIOUS
<1>2. PICK m : /\ m[0] = <<>> /\ \A n \in 1..N : m[n] = Join(m[n - 1], s[n])
               /\ Merged(s) = m[N]
  BY MergedStepwise
<1> DEFINE Good(n) ==
             /\ Apart(m[n]) /\ (m[n] # <<>> => n # 0 /\ Last(m[n])[1] <= s[n][1])
             /\ \A k \in Nat : k \in Covered(m[n]) <=> \E j \in 1..n : Covers(s[j], k)
           good == {n \in Nat : n <= N => Good(n)}
<1>3. 0 \in good
  <2>1. Apart(<<>>) /\ Covered(<<>>) = {}
    BY DEF Apart, Covered
  <2> QED
    BY <1>2, <2>1
<1>4. ASSUME NEW n \in Nat, n \in good
      PROVE  n + 1 \in good
  <2>1. SUFFICES ASSUME n + 1 <= N PROVE Good(n + 1)
    OBVIOUS
  <2>2. Good(n)
    BY <1>1, <1>4, <2>1
  <2>3. PICK b \in Pairs : b = s[n + 1] /\ b[1] < b[2]
    BY <1>1, <2>1
  <2>4. m[n + 1] = Join(m[n], b)
    BY <1>1, <1>2, <2>1, <2>3
  <2>5. m[n] # <<>> => Last(m[n])[1] <= b[1]
    <3>1. SUFFICES ASSUME m[n] # <<>> PROVE Last(m[n])[1] <= b[1]
      OBVIOUS
    <3>2. n \in 1..N /\ n + 1 \in 1..N /\ Last(m[n])[1] <= s[n][1] /\ s[n][1] <= b[1]
      BY <1>1, <2>1, <2>2, <2>3, <3>1
    <3>3. s[n][1] \in Nat /\ b[1] \in Nat
      BY <1>1, <3>2, PairsAre
    <3>4. Last(m[n])[1] \in Nat
      <4>1. m[n] \in Seq(Pairs)
        BY <2>2 DEF Apart
      <4>2. Last(m[n]) \in Pairs
        BY <3>1, <4>1 DEF Last
      <4> QED
        BY <4>2, PairsAre
    <3> QED
      BY <3>2, <3>3, <3>4
  <2>6. /\ Apart(m[n + 1]) /\ Last(m[n + 1])[1] <= b[1]
        /\ \A k \in Nat : k \in Covered(m[n + 1]) <=> k \in Covered(m[n]) \/ Covers(b, k)
    BY <2>2, <2>3, <2>4, <2>5, JoinKeepsApart
  <2>7. ASSUME NEW k \in Nat
        PROVE  k \in Covered(m[n + 1]) <=> \E j \in 1..(n + 1) : Covers(s[j], k)
    <3>1. \A j : j \in 1..(n + 1) <=> j \in 1..n \/ j = n + 1
      OBVIOUS
    <3> QED
      BY <2>2, <2>3, <2>6, <3>1
  <2> QED
    BY <2>3, <2>6, <2>7
<1>5. Good(N)
  <2>1. N \in good
    <3> HIDE DEF good
    <3> QED
      BY <1>1, <1>3, <1>4, InductiveSet
  <2> QED
    BY <1>1, <2>1
<1>6. Covered(m[N]) = Covered(s)
  BY <1>1, <1>5 DEF Covered
<1> QED
  BY <1>2, <1>5, <1>6

-----------------------------------------------------------------------------
(* Sorting.                                                                *)

LEMMA EarlierOrders ==
  /\ \A a \in Pairs : ~Earlier(a, a)
  /\ \A a, b \in Pairs : a # b => Earlier(a, b) \/ Earlier(b, a)
  /\ \A a, b, c \in Pairs : Earlier(a, b) /\ Earlier(b, c) => Earlier(a, c)
<1>1. \A a, b \in Pairs : a # b => Earlier(a, b) \/ Earlier(b, a)
  <2>1. SUFFICES ASSUME NEW a \in Pairs, NEW b \in Pairs, a # b
                 PROVE  Earlier(a, b) \/ Earlier(b, a)
    OBVIOUS
  <2>2. a[1] # b[1] \/ a[2] # b[2]
    BY <2>1, PairsAre
  <2> QED
    BY <2>2, PairsAre DEF Earlier
<1>2. \A a \in Pairs : ~Earlier(a, a)
  BY PairsAre DEF Earlier
<1>3. \A a, b, c \in Pairs : Earlier(a, b) /\ Earlier(b, c) => Earlier(a, c)
  BY PairsAre DEF Earlier
<1> QED
  BY <1>1, <1>2, <1>3

\* The members of S, each once, in order.
Lists(s, S) ==
  /\ s \in [1..Cardinality(S) -> S]
  /\ \A m, n \in 1..Cardinality(S) : m < n => Earlier(s[m], s[n])

\* A list in order has every member.
LEMMA ListsAll ==
  ASSUME NEW S, S \subseteq Pairs, IsFiniteSet(S), NEW s, Lists(s, S)
  PROVE  \A b \in S : \E n \in 1..Cardinality(S) : s[n] = b
<1>1. PICK N \in Nat : N = Cardinality(S)
  BY FS_CardinalityType
<1>2. s \in [1..N -> S] /\ \A m, n \in 1..N : m < n => Earlier(s[m], s[n])
  BY <1>1 DEF Lists
<1>3. \A m, n \in 1..N : s[m] = s[n] => m = n
  <2>1. SUFFICES ASSUME NEW m \in 1..N, NEW n \in 1..N, m # n PROVE s[m] # s[n]
    OBVIOUS
  <2>2. s[m] \in Pairs /\ s[n] \in Pairs
    BY <1>2
  <2>3. m < n \/ n < m
    BY <2>1
  <2> QED
    BY <1>2, <2>2, <2>3, EarlierOrders
<1>4. s \in Injection(1..N, S)
  BY <1>2, <1>3 DEF Injection, IsInjective
<1>5. Cardinality(1..N) = N /\ IsFiniteSet(1..N)
  BY FS_Interval
<1>6. s \in Surjection(1..N, S)
  BY <1>1, <1>4, <1>5, FS_Injection
<1> QED
  BY <1>1, <1>6 DEF Surjection

\* The number of members up to b is the place of b.
LEMMA CanBeListed ==
  ASSUME NEW S, S \subseteq Pairs, IsFiniteSet(S)
  PROVE  \E s : Lists(s, S)
<1>1. PICK N \in Nat : N = Cardinality(S)
  BY FS_CardinalityType
<1> DEFINE upto(b) == {a \in S : a = b \/ Earlier(a, b)}
           rank == [b \in S |-> Cardinality(upto(b))]
<1>2. ASSUME NEW b \in S
      PROVE  /\ IsFiniteSet(upto(b)) /\ rank[b] = Cardinality(upto(b))
             /\ rank[b] \in 1..N
  <2>1. upto(b) \subseteq S /\ {b} \subseteq upto(b)
    OBVIOUS
  <2>2. IsFiniteSet(upto(b)) /\ Cardinality(upto(b)) <= N
    BY <1>1, <2>1, FS_Subset
  <2>3. Cardinality({b}) <= Cardinality(upto(b)) /\ Cardinality({b}) = 1
    BY <2>1, <2>2, FS_Subset, FS_Singleton
  <2>4. Cardinality(upto(b)) \in Nat
    BY <2>2, FS_CardinalityType
  <2> QED
    BY <2>2, <2>3, <2>4
<1>3. ASSUME NEW a \in S, NEW b \in S, Earlier(a, b)
      PROVE  rank[a] < rank[b]
  <2>1. upto(a) \subseteq upto(b)
    BY <1>3, EarlierOrders
  <2>2. b \in upto(b) /\ b \notin upto(a)
    BY <1>3, EarlierOrders
  <2>3. Cardinality(upto(a)) <= Cardinality(upto(b)) /\ Cardinality(upto(a)) # Cardinality(upto(b))
    BY <1>2, <2>1, <2>2, FS_Subset
  <2>4. rank[a] = Cardinality(upto(a)) /\ rank[b] = Cardinality(upto(b))
    BY <1>2
  <2>5. rank[a] \in Nat /\ rank[b] \in Nat
    BY <1>2
  <2> QED
    BY <2>3, <2>4, <2>5
<1>4. \A a, b \in S : rank[a] = rank[b] => a = b
  <2>1. SUFFICES ASSUME NEW a \in S, NEW b \in S, a # b PROVE rank[a] # rank[b]
    OBVIOUS
  <2>2. Earlier(a, b) \/ Earlier(b, a)
    BY <2>1, EarlierOrders
  <2>3. rank[a] \in 1..N /\ rank[b] \in 1..N
    BY <1>2
  <2>4. rank[a] < rank[b] \/ rank[b] < rank[a]
    BY <1>3, <2>2
  <2> QED
    BY <2>3, <2>4
<1>5. rank \in [S -> 1..N]
  <2>1. rank = [b \in S |-> rank[b]]
    OBVIOUS
  <2> HIDE DEF rank
  <2> QED
    BY <1>2, <2>1
<1> HIDE DEF rank
<1>6. rank \in Surjection(S, 1..N)
  <2>1. rank \in Injection(S, 1..N)
    BY <1>4, <1>5 DEF Injection, IsInjective
  <2>2. Cardinality(1..N) = N /\ IsFiniteSet(1..N)
    BY FS_Interval
  <2> QED
    BY <1>1, <2>1, <2>2, FS_Injection
<1> DEFINE s == [n \in 1..N |-> CHOOSE b \in S : rank[b] = n]
<1>7. \A n \in 1..N : s[n] \in S /\ rank[s[n]] = n
  BY <1>6 DEF Surjection
<1>8. s \in [1..N -> S]
  BY <1>7
<1> HIDE DEF s
<1>9. ASSUME NEW m \in 1..N, NEW n \in 1..N, m < n
      PROVE  Earlier(s[m], s[n])
  <2>1. s[m] \in S /\ s[n] \in S /\ rank[s[m]] = m /\ rank[s[n]] = n
    BY <1>7
  <2>2. ~Earlier(s[n], s[m])
    BY <1>3, <1>9, <2>1
  <2>3. s[m] # s[n]
    BY <1>9, <2>1
  <2> QED
    BY <2>1, <2>2, <2>3, EarlierOrders
<1> QED
  BY <1>1, <1>8, <1>9 DEF Lists

\* There is one way to list a set in order.
LEMMA ListedOnce ==
  ASSUME NEW S, S \subseteq Pairs, IsFiniteSet(S), NEW s, NEW t, Lists(s, S), Lists(t, S)
  PROVE  s = t
<1>1. PICK N \in Nat : N = Cardinality(S)
  BY FS_CardinalityType
<1>2. /\ s \in [1..N -> S] /\ \A m, n \in 1..N : m < n => Earlier(s[m], s[n])
      /\ t \in [1..N -> S] /\ \A m, n \in 1..N : m < n => Earlier(t[m], t[n])
  BY <1>1 DEF Lists
<1>3. /\ \A b \in S : \E n \in 1..N : s[n] = b
      /\ \A b \in S : \E n \in 1..N : t[n] = b
  BY <1>1, ListsAll
<1> DEFINE differ == {n \in 1..N : s[n] # t[n]}
<1>4. SUFFICES ASSUME differ # {} PROVE FALSE
  BY <1>2
<1>5. PICK n \in differ : \A m \in differ : n <= m
  <2>1. differ \subseteq Nat
    OBVIOUS
  <2> HIDE DEF differ
  <2> QED
    BY <1>4, <2>1, LeastOf
<1>6. s[n] \in S /\ t[n] \in S /\ s[n] # t[n] /\ n \in 1..N
  BY <1>2
<1>7. \A m \in 1..N : m < n => s[m] = t[m]
  BY <1>5
<1>8. PICK i \in 1..N : s[i] = t[n]
  BY <1>3, <1>6
<1>9. PICK j \in 1..N : t[j] = s[n]
  BY <1>3, <1>6
<1>10. n < i /\ Earlier(s[n], s[i])
  <2>1. i < n => FALSE
    <3>1. SUFFICES ASSUME i < n PROVE FALSE
      OBVIOUS
    <3>2. t[i] = t[n] /\ Earlier(t[i], t[n]) /\ t[n] \in Pairs
      BY <1>2, <1>6, <1>7, <1>8, <3>1
    <3> QED
      BY <3>2, EarlierOrders
  <2>2. i # n
    BY <1>6, <1>8
  <2>3. n < i
    BY <1>6, <2>1, <2>2
  <2> QED
    BY <1>2, <1>6, <2>3
<1>11. n < j /\ Earlier(t[n], t[j])
  <2>1. j < n => FALSE
    <3>1. SUFFICES ASSUME j < n PROVE FALSE
      OBVIOUS
    <3>2. s[j] = s[n] /\ Earlier(s[j], s[n]) /\ s[n] \in Pairs
      BY <1>2, <1>6, <1>7, <1>9, <3>1
    <3> QED
      BY <3>2, EarlierOrders
  <2>2. j # n
    BY <1>6, <1>9
  <2>3. n < j
    BY <1>6, <2>1, <2>2
  <2> QED
    BY <1>2, <1>6, <2>3
<1> QED
  BY <1>6, <1>8, <1>9, <1>10, <1>11, EarlierOrders

LEMMA SortedLists ==
  ASSUME NEW S, S \subseteq Pairs, IsFiniteSet(S)
  PROVE  /\ Lists(Sorted(S), S) /\ Sorted(S) \in Seq(S)
         /\ \A s : Lists(s, S) => Sorted(S) = s
<1>1. PICK N \in Nat : N = Cardinality(S)
  BY FS_CardinalityType
<1>2. PICK s : Lists(s, S)
  BY CanBeListed
<1>3. s \in [1..N -> S] /\ \A m, n \in DOMAIN s : m < n => Earlier(s[m], s[n])
  BY <1>1, <1>2 DEF Lists
<1>4. PICK t : t = Sorted(S)
  OBVIOUS
<1>5. t \in [1..N -> S] /\ \A m, n \in DOMAIN t : m < n => Earlier(t[m], t[n])
  BY <1>1, <1>3, <1>4 DEF Sorted
<1>6. Lists(t, S)
  BY <1>1, <1>5 DEF Lists
<1>7. t \in Seq(S)
  BY <1>5
<1> QED
  BY <1>4, <1>6, <1>7, ListedOnce

-----------------------------------------------------------------------------
(* Maximal runs.                                                           *)

\* The maximal runs of a set of hours, by their bounds.
Runs(C) ==
  LET begins == {k \in C : k - 1 \notin C}
      ends == {k + 1 : k \in {j \in C : j + 1 \notin C}}
  IN {b \in begins \X ends : b[1] < b[2] /\ b[1]..(b[2] - 1) \subseteq C}

LEMMA RunIs ==
  ASSUME NEW C, C \subseteq Nat, NEW b
  PROVE  b \in Runs(C) <=>
           /\ b \in Pairs /\ b[1] < b[2] /\ b[1] - 1 \notin C /\ b[2] \notin C
           /\ \A k \in Nat : Covers(b, k) => k \in C
<1> DEFINE begins == {k \in C : k - 1 \notin C}
           ends == {k + 1 : k \in {j \in C : j + 1 \notin C}}
<1>1. b \in Runs(C) <=> b \in begins \X ends /\ b[1] < b[2] /\ b[1]..(b[2] - 1) \subseteq C
  BY DEF Runs
<1>2. ASSUME b \in begins \X ends, b[1] < b[2], b[1]..(b[2] - 1) \subseteq C
      PROVE  /\ b \in Pairs /\ b[1] - 1 \notin C /\ b[2] \notin C
             /\ \A k \in Nat : Covers(b, k) => k \in C
  <2>1. b[1] \in C /\ b[1] - 1 \notin C /\ b[2] \in ends /\ b = <<b[1], b[2]>>
    BY <1>2
  <2>2. PICK j \in C : b[2] = j + 1 /\ j + 1 \notin C
    BY <2>1
  <2>3. b[1] \in Nat /\ b[2] \in Nat
    BY <2>1, <2>2
  <2>4. \A k \in Nat : Covers(b, k) => k \in b[1]..(b[2] - 1)
    BY <2>3 DEF Covers
  <2> QED
    BY <1>2, <2>1, <2>2, <2>3, <2>4 DEF Pairs
<1>3. ASSUME b \in Pairs, b[1] < b[2], b[1] - 1 \notin C, b[2] \notin C,
             \A k \in Nat : Covers(b, k) => k \in C
      PROVE  b \in begins \X ends /\ b[1]..(b[2] - 1) \subseteq C
  <2>1. b[1] \in Nat /\ b[2] \in Nat /\ b = <<b[1], b[2]>>
    BY <1>3, PairsAre
  <2>2. Covers(b, b[1]) /\ Covers(b, b[2] - 1) /\ b[2] - 1 \in Nat
    BY <1>3, <2>1 DEF Covers
  <2>3. b[1] \in C /\ b[2] - 1 \in C
    BY <1>3, <2>1, <2>2
  <2>4. b[1] \in begins /\ (b[2] - 1) + 1 = b[2]
    BY <1>3, <2>1, <2>3
  <2>5. b[2] \in ends
    <3>1. PICK j \in C : j = b[2] - 1
      BY <2>3
    <3>2. b[2] = j + 1
      BY <2>1, <3>1
    <3> QED
      BY <1>3, <3>1, <3>2
  <2>6. \A k \in b[1]..(b[2] - 1) : k \in Nat /\ Covers(b, k)
    BY <2>1 DEF Covers
  <2>7. b \in begins \X ends
    BY <2>1, <2>4, <2>5
  <2> QED
    BY <1>3, <2>6, <2>7
<1> HIDE DEF begins, ends
<1> QED
  BY <1>1, <1>2, <1>3

\* Intervals apart are the maximal runs of what they cover, in order.
LEMMA ApartAreRuns ==
  ASSUME NEW v, Apart(v)
  PROVE  Lists(v, Runs(Covered(v))) /\ IsFiniteSet(Runs(Covered(v))) /\ Runs(Covered(v)) \subseteq Pairs
<1>a. v \in Seq(Pairs)
  BY DEF Apart
<1>b. PICK L \in Nat : L = Len(v) /\ DOMAIN v = 1..L
  BY <1>a
<1>1. /\ v \in [1..L -> Pairs]
      /\ \A n \in 1..L : v[n] \in Pairs /\ v[n][1] \in Nat /\ v[n][2] \in Nat /\ v[n][1] < v[n][2]
      /\ \A m, n \in 1..L : m < n => v[m][2] < v[n][1]
  BY <1>a, <1>b, PairsAre DEF Apart
<1>2. PICK C : C = Covered(v)
  OBVIOUS
<1>3. /\ C \subseteq Nat
      /\ \A k \in Nat : k \in C <=> \E n \in 1..L : Covers(v[n], k)
  BY <1>b, <1>2 DEF Covered
<1>4. ASSUME NEW n \in 1..L
      PROVE  v[n] \in Runs(C)
  <2>1. v[n][2] \notin C
    <3>1. SUFFICES ASSUME NEW m \in 1..L, Covers(v[m], v[n][2]) PROVE FALSE
      BY <1>1, <1>3
    <3>2. v[m][1] <= v[n][2] /\ v[n][2] < v[m][2]
      BY <3>1 DEF Covers
    <3>3. m < n \/ m = n \/ n < m
      OBVIOUS
    <3> QED
      BY <1>1, <3>2, <3>3
  <2>2. v[n][1] - 1 \notin C
    <3>1. SUFFICES ASSUME v[n][1] - 1 \in Nat, NEW m \in 1..L, Covers(v[m], v[n][1] - 1) PROVE FALSE
      BY <1>1, <1>3
    <3>2. v[m][1] <= v[n][1] - 1 /\ v[n][1] - 1 < v[m][2]
      BY <3>1 DEF Covers
    <3>3. m < n \/ m = n \/ n < m
      OBVIOUS
    <3> QED
      BY <1>1, <3>2, <3>3
  <2>3. \A k \in Nat : Covers(v[n], k) => k \in C
    BY <1>3
  <2> QED
    BY <1>1, <1>3, <2>1, <2>2, <2>3, RunIs
<1>5. ASSUME NEW b \in Runs(C)
      PROVE  \E n \in 1..L : v[n] = b
  <2>1. /\ b \in Pairs /\ b[1] \in Nat /\ b[2] \in Nat /\ b[1] < b[2]
        /\ b[1] - 1 \notin C /\ b[2] \notin C
        /\ \A k \in Nat : Covers(b, k) => k \in C
    BY <1>3, RunIs, PairsAre
  <2>2. b[1] \in C
    BY <2>1 DEF Covers
  <2>3. PICK n \in 1..L : v[n][1] <= b[1] /\ b[1] < v[n][2]
    BY <1>3, <2>1, <2>2 DEF Covers
  <2>4. v[n][1] = b[1]
    <3>1. SUFFICES ASSUME v[n][1] < b[1] PROVE FALSE
      BY <1>1, <2>1, <2>3
    <3>2. b[1] - 1 \in Nat /\ Covers(v[n], b[1] - 1)
      BY <1>1, <2>1, <2>3, <3>1 DEF Covers
    <3> QED
      BY <1>3, <2>1, <3>2
  <2>5. ~(v[n][2] < b[2])
    <3>1. SUFFICES ASSUME v[n][2] < b[2] PROVE FALSE
      OBVIOUS
    <3>2. Covers(b, v[n][2]) /\ v[n][2] \in Nat
      BY <1>1, <2>1, <2>3, <3>1 DEF Covers
    <3>3. v[n][2] \in C
      BY <2>1, <3>2
    <3>4. v[n] \in Runs(C)
      BY <1>4
    <3> QED
      BY <1>3, <3>3, <3>4, RunIs
  <2>6. ~(b[2] < v[n][2])
    <3>1. SUFFICES ASSUME b[2] < v[n][2] PROVE FALSE
      OBVIOUS
    <3>2. Covers(v[n], b[2])
      BY <1>1, <2>1, <2>4, <3>1 DEF Covers
    <3> QED
      BY <1>3, <2>1, <3>2
  <2>7. v[n][2] = b[2]
    BY <1>1, <2>1, <2>5, <2>6
  <2> QED
    BY <1>1, <2>1, <2>4, <2>7, PairsAre
<1>6. v \in [1..L -> Runs(C)]
  BY <1>1, <1>4
<1>7. ASSUME NEW m \in 1..L, NEW n \in 1..L, m < n
      PROVE  Earlier(v[m], v[n]) /\ v[m] # v[n]
  <2>1. v[m][1] < v[n][1]
    BY <1>1, <1>7
  <2> QED
    BY <1>1, <2>1 DEF Earlier
<1>8. v \in Bijection(1..L, Runs(C))
  <2>1. \A m, n \in 1..L : v[m] = v[n] => m = n
    <3>1. SUFFICES ASSUME NEW m \in 1..L, NEW n \in 1..L, m # n PROVE v[m] # v[n]
      OBVIOUS
    <3>2. m < n \/ n < m
      BY <3>1
    <3> QED
      BY <1>7, <3>2
  <2> QED
    BY <1>5, <1>6, <2>1 DEF Bijection, Injection, Surjection, IsInjective
<1>9. ExistsBijection(1..L, Runs(C))
  BY <1>8 DEF ExistsBijection
<1>10. IsFiniteSet(Runs(C)) /\ Cardinality(Runs(C)) = L
  BY <1>9, FS_NatBijection, FS_CountingElements
<1>11. Runs(C) \subseteq Pairs
  BY <1>3, RunIs
<1> QED
  BY <1>2, <1>6, <1>7, <1>10, <1>11 DEF Lists

\* Hours have one spelling as intervals apart.
LEMMA ApartOnce ==
  ASSUME NEW v, NEW w, Apart(v), Apart(w), Covered(v) = Covered(w)
  PROVE  v = w
  BY ApartAreRuns, ListedOnce

-----------------------------------------------------------------------------
(* Normalised intervals.                                                   *)

Marks(v) == [n \in DOMAIN v |-> Bounds(v[n])]

\* The hours a set of intervals speaks of.
Spoken(S) == {k \in Nat : \E i \in S : Covers(Bounds(i), k)}

Normal(v) ==
  /\ v \in Seq(AnyInterval) /\ \A n \in DOMAIN v : Canonical(v[n])
  /\ Apart(Marks(v))

LEMMA NormalSpeaks ==
  ASSUME NEW v
  PROVE  Covered(Marks(v)) = Spoken(ToSet(v))
<1>1. ASSUME NEW k \in Nat
      PROVE  (\E n \in DOMAIN Marks(v) : Covers(Marks(v)[n], k)) <=> \E i \in ToSet(v) : Covers(Bounds(i), k)
  <2>1. DOMAIN Marks(v) = DOMAIN v /\ \A n \in DOMAIN v : Marks(v)[n] = Bounds(v[n])
    BY DEF Marks
  <2>2. \A i : i \in ToSet(v) <=> \E n \in DOMAIN v : i = v[n]
    BY DEF ToSet
  <2> QED
    BY <2>1, <2>2
<1> QED
  BY <1>1 DEF Covered, Spoken

\* Hours have one spelling as normalised intervals.
LEMMA NormalOnce ==
  ASSUME NEW v, NEW w, Normal(v), Normal(w), Spoken(ToSet(v)) = Spoken(ToSet(w))
  PROVE  v = w
<1>1. Marks(v) = Marks(w)
  BY NormalSpeaks, ApartOnce DEF Normal
<1>2. DOMAIN v = DOMAIN w /\ \A n \in DOMAIN v : Bounds(v[n]) = Bounds(w[n])
  <2>1. DOMAIN Marks(v) = DOMAIN v /\ DOMAIN Marks(w) = DOMAIN w
    BY DEF Marks
  <2>2. \A n \in DOMAIN v : Marks(v)[n] = Bounds(v[n])
    BY DEF Marks
  <2>3. \A n \in DOMAIN w : Marks(w)[n] = Bounds(w[n])
    BY DEF Marks
  <2> QED
    BY <1>1, <2>1, <2>2, <2>3
<1>3. \A n \in DOMAIN v : v[n] = FromBounds(Bounds(v[n])) /\ w[n] = FromBounds(Bounds(w[n]))
  BY <1>2 DEF Normal, Canonical
<1>4. \A n \in DOMAIN v : v[n] = w[n]
  BY <1>2, <1>3
<1>5. v \in Seq(AnyInterval) /\ w \in Seq(AnyInterval)
  BY DEF Normal
<1> QED
  BY <1>2, <1>4, <1>5

LEMMA ToSetIsFinite ==
  ASSUME NEW T, NEW v \in Seq(T)
  PROVE  IsFiniteSet(ToSet(v)) /\ ToSet(v) \subseteq T
<1>1. PICK L \in Nat : L = Len(v) /\ v \in [1..L -> T]
  OBVIOUS
<1>2. v \in Surjection(1..L, ToSet(v))
  BY <1>1 DEF Surjection, ToSet
<1>3. IsFiniteSet(1..L)
  BY FS_Interval
<1>4. IsFiniteSet(ToSet(v))
  BY <1>2, <1>3, FS_Surjection
<1> QED
  BY <1>1, <1>4 DEF ToSet

\* normalize_intervals keeps the hours and writes them as normalised intervals.
LEMMA Normalizes ==
  ASSUME NEW S, S \subseteq AnyInterval, IsFiniteSet(S)
  PROVE  /\ Normal(NormalizeIntervals(S))
         /\ Spoken(ToSet(NormalizeIntervals(S))) = Spoken(S)
<1> DEFINE all == {Bounds(i) : i \in S}
<1>1. IsFiniteSet(all) /\ all \subseteq Pairs
  <2> DEFINE f == [i \in S |-> Bounds(i)]
  <2>1. f \in Surjection(S, all)
    BY DEF Surjection
  <2>2. IsFiniteSet(all)
    BY <2>1, FS_Surjection
  <2> QED
    BY <2>2, BoundsType
<1>2. PICK B : B = {b \in all : b[1] < b[2]}
  OBVIOUS
<1>3. IsFiniteSet(B) /\ B \subseteq Pairs /\ \A b \in B : b[1] < b[2]
  BY <1>1, <1>2, FS_Subset
<1>4. PICK s : s = Sorted(B)
  OBVIOUS
<1>5. Lists(s, B) /\ s \in Seq(B) /\ \A b \in B : \E n \in 1..Cardinality(B) : s[n] = b
  BY <1>3, <1>4, SortedLists, ListsAll
<1>6. PICK N \in Nat : N = Cardinality(B)
  BY <1>3, FS_CardinalityType
<1>7. /\ s \in [1..N -> B] /\ DOMAIN s = 1..N /\ s \in Seq(Pairs)
      /\ \A m, n \in 1..N : m < n => s[m][1] <= s[n][1]
  <2>1. s \in [1..N -> B] /\ \A m, n \in 1..N : m < n => Earlier(s[m], s[n])
    BY <1>5, <1>6 DEF Lists
  <2>2. \A n \in 1..N : s[n] \in Pairs /\ s[n][1] \in Nat
    BY <1>3, <2>1, PairsAre
  <2>3. \A m, n \in 1..N : Earlier(s[m], s[n]) => s[m][1] <= s[n][1]
    BY <2>2 DEF Earlier
  <2>4. s \in Seq(Pairs)
    BY <1>3, <2>1
  <2> QED
    BY <2>1, <2>3, <2>4
<1>8. PICK m : m = Merged(s)
  OBVIOUS
<1>9. Apart(m) /\ Covered(m) = Covered(s)
  BY <1>3, <1>7, <1>8, MergedApart
<1>10. PICK v : v = NormalizeIntervals(S)
  OBVIOUS
<1>11. v = [n \in DOMAIN m |-> FromBounds(m[n])]
  BY <1>2, <1>4, <1>8, <1>10 DEF NormalizeIntervals
<1>12. PICK L \in Nat : DOMAIN m = 1..L /\ L = Len(m) /\ \A n \in 1..L : m[n] \in Pairs /\ m[n][1] < m[n][2]
  <2>1. m \in Seq(Pairs)
    BY <1>9 DEF Apart
  <2> QED
    BY <1>9, <2>1 DEF Apart
<1>13. \A n \in 1..L : Canonical(v[n]) /\ Bounds(v[n]) = m[n]
  BY <1>11, <1>12, BoundsBack
<1>14. Marks(v) = m
  <2>1. DOMAIN v = 1..L
    BY <1>11, <1>12
  <2>2. m \in Seq(Pairs)
    BY <1>9 DEF Apart
  <2>3. m = [n \in 1..L |-> m[n]]
    BY <1>12, <2>2
  <2> QED
    BY <1>13, <2>1, <2>3 DEF Marks
<1>15. v \in Seq(AnyInterval) /\ DOMAIN v = 1..L
  <2>1. v \in [1..L -> AnyInterval]
    BY <1>11, <1>12, <1>13 DEF Canonical
  <2> QED
    BY <2>1
<1>16. Normal(v)
  BY <1>9, <1>13, <1>14, <1>15 DEF Normal
<1>17. Spoken(ToSet(v)) = Covered(s)
  BY <1>9, <1>14, NormalSpeaks
<1>18. ASSUME NEW k \in Nat
       PROVE  (\E n \in 1..N : Covers(s[n], k)) <=> \E i \in S : Covers(Bounds(i), k)
  <2>1. (\E n \in 1..N : Covers(s[n], k)) <=> \E b \in B : Covers(b, k)
    BY <1>5, <1>6, <1>7
  <2>2. ASSUME NEW i \in S, Covers(Bounds(i), k)
        PROVE  Bounds(i) \in B
    <3>1. Bounds(i)[1] < Bounds(i)[2]
      BY <2>2, BoundsType, PairsAre DEF Covers
    <3> QED
      BY <1>2, <3>1
  <2>3. \A b \in B : \E i \in S : b = Bounds(i)
    BY <1>2
  <2> QED
    BY <2>1, <2>2, <2>3
<1>19. Covered(s) = Spoken(S)
  BY <1>7, <1>18 DEF Covered, Spoken
<1> QED
  BY <1>10, <1>16, <1>17, <1>19

-----------------------------------------------------------------------------
(* What reading gives.                                                     *)

Daily(H) == [type |-> "daily_hours", hours |-> H]

\* What parse and from_value return.
Sound(spec) ==
  \/ spec = Rejected
  \/ spec = AllHours
  \/ \E H \in SUBSET (0..23) : H # {} /\ H # 0..23 /\ spec = Daily(H)
  \/ \E v : spec = Intervals(v) /\ Normal(v) /\ v # <<>>

\* The hours a TimeSpec stands for.
Selects(spec, k) ==
  \/ spec.type = "all"
  \/ spec.type = "daily_hours" /\ (k % 24) \in spec.hours
  \/ spec.type = "intervals" /\ k \in Spoken(ToSet(spec.intervals))

\* Rules of any date and hours.
AnyRule ==
  {[rule |-> "all"], [rule |-> "other"]}
    \cup [rule : {"day"}, date : Nat]
    \cup [rule : {"dated"}, date : Nat, from : Nat, to : Nat]
    \cup [rule : {"daily"}, from : Nat, to : Nat]

LEMMA RuleForms ==
  ASSUME NEW r \in AnyRule
  PROVE  /\ r.rule \in {"all", "other", "day", "dated", "daily"}
         /\ r.rule \in {"day", "dated"} => r.date \in Nat
         /\ r.rule \in {"dated", "daily"} => r.from \in Nat /\ r.to \in Nat
  BY DEF AnyRule

LEMMA RulesAreRules == Rules \subseteq AnyRule
<1>1. [rule: {"dated"}, date: Dates, from: FromHours, to: ToHours]
        \subseteq [rule : {"dated"}, date : Nat, from : Nat, to : Nat]
  BY DatesAssumption, HoursAssumption
<1>2. [rule: {"daily"}, from: FromHours, to: ToHours] \subseteq [rule : {"daily"}, from : Nat, to : Nat]
  BY HoursAssumption
<1>3. {[rule |-> "day", date |-> d] : d \in Dates} \subseteq [rule : {"day"}, date : Nat]
  BY DatesAssumption
<1> QED
  BY <1>1, <1>2, <1>3 DEF Rules, AnyRule

\* A dated rule becomes the interval of the hours it speaks of.
LEMMA DatedMeans ==
  ASSUME NEW r \in AnyRule, r.rule \in {"day", "dated"}, Readable(r)
  PROVE  /\ Dated(r) \in AnyInterval /\ Bounds(Dated(r))[1] < Bounds(Dated(r))[2]
         /\ Bounds(Dated(r))[2] <= (r.date + 2) * 24
         /\ \A k \in Nat : Covers(Bounds(Dated(r)), k) <=> Says(r, k)
<1>1. PICK d \in Nat : d = r.date
  BY RuleForms
<1>2. CASE r.rule = "day"
  <2>1. PICK i : i = Dated(r)
    OBVIOUS
  <2>2. i \in AnyInterval /\ i.start_date = d /\ i.start_hour = 0 /\ i.end_date = d /\ i.end_hour = 24
    BY <1>1, <1>2, <2>1 DEF Dated, Interval, AnyInterval
  <2>3. Bounds(i)[1] = d * 24 /\ Bounds(i)[2] = d * 24 + 24
    BY <2>2, BoundsType
  <2>4. \A k \in Nat : Says(r, k) <=> k \div 24 = d
    BY <1>1, <1>2 DEF Says
  <2>5. ASSUME NEW k \in Nat
        PROVE  k \div 24 = d <=> d * 24 <= k /\ k < d * 24 + 24
    OBVIOUS
  <2> QED
    BY <1>1, <2>1, <2>2, <2>3, <2>4, <2>5 DEF Covers
<1>3. CASE r.rule = "dated"
  <2>1. PICK f \in Nat, t \in Nat : f = r.from /\ t = r.to
    BY <1>3, RuleForms
  <2>2. f < 24 /\ t <= 24 /\ f # t
    BY <1>3, <2>1 DEF Readable, GoodRange
  <2>3. PICK l \in Int : l = IF t > f THEN t - f ELSE 24 + t - f
    BY <2>1
  <2>4. \A k \in Nat : Says(r, k) <=> d * 24 + f <= k /\ k < d * 24 + f + l
    <3>1. Length(r) = l
      BY <2>1, <2>3 DEF Length
    <3>2. ASSUME NEW k \in Nat
          PROVE  Says(r, k) <=> k - (d * 24 + f) \in 0..(l - 1)
      BY <1>1, <1>3, <2>1, <3>1 DEF Says
    <3> QED
      BY <3>2
  <2>5. PICK i : i = Dated(r)
    OBVIOUS
  <2>6. CASE t # 24 /\ t <= f
    <3>1. i \in AnyInterval /\ i.start_date = d /\ i.start_hour = f /\ i.end_date = d + 1 /\ i.end_hour = t
      BY <1>1, <1>3, <2>1, <2>5, <2>6 DEF Dated, Interval, AnyInterval
    <3>2. Bounds(i)[1] = d * 24 + f /\ Bounds(i)[2] = (d + 1) * 24 + t
      BY <3>1, BoundsType
    <3> QED
      BY <1>1, <2>2, <2>3, <2>4, <2>5, <2>6, <3>1, <3>2 DEF Covers
  <2>7. CASE ~(t # 24 /\ t <= f)
    <3>1. i \in AnyInterval /\ i.start_date = d /\ i.start_hour = f /\ i.end_date = d /\ i.end_hour = t
      BY <1>1, <1>3, <2>1, <2>5, <2>7 DEF Dated, Interval, AnyInterval
    <3>2. Bounds(i)[1] = d * 24 + f /\ Bounds(i)[2] = d * 24 + t
      BY <3>1, BoundsType
    <3> QED
      BY <1>1, <2>2, <2>3, <2>4, <2>5, <2>7, <3>1, <3>2 DEF Covers
  <2> QED
    BY <2>6, <2>7
<1> QED
  BY <1>2, <1>3

\* A daily rule becomes the set of the hours it speaks of.
LEMMA DailyMeans ==
  ASSUME NEW r \in AnyRule, r.rule = "daily", Readable(r)
  PROVE  /\ DailyHours(r) \subseteq 0..23 /\ DailyHours(r) # {}
         /\ \A k \in Nat : k % 24 \in DailyHours(r) <=> Says(r, k)
<1>1. PICK f \in Nat, t \in Nat : f = r.from /\ t = r.to
  BY RuleForms
<1>2. f < 24 /\ t <= 24 /\ f # t
  BY <1>1 DEF Readable, GoodRange
<1>3. DailyHours(r) = IF t <= f THEN (f..23) \cup (0..(t - 1)) ELSE f..(t - 1)
  BY <1>1 DEF DailyHours
<1>4. f \in DailyHours(r)
  BY <1>2, <1>3
<1>5. DailyHours(r) \subseteq 0..23
  BY <1>2, <1>3
<1>6. PICK l \in Int : l = IF t > f THEN t - f ELSE 24 + t - f
  BY <1>1
<1>7. ASSUME NEW k \in Nat
      PROVE  k % 24 \in DailyHours(r) <=> Says(r, k)
  <2>1. Says(r, k) <=> (k - f) % 24 < l
    <3>1. Length(r) = l
      BY <1>1, <1>6 DEF Length
    <3> QED
      BY <1>1, <3>1 DEF Says
  <2>2. PICK h \in 0..23 : h = k % 24
    OBVIOUS
  <2>3. (k - f) % 24 = IF h >= f THEN h - f ELSE h - f + 24
    BY <1>2, <2>2
  <2> QED
    BY <1>2, <1>3, <1>6, <2>1, <2>2, <2>3
<1> QED
  BY <1>4, <1>5, <1>7

LEMMA SoundForms ==
  ASSUME NEW spec, Sound(spec)
  PROVE  /\ spec.type \in {"rejected", "all", "daily_hours", "intervals"}
         /\ spec.type = "rejected" <=> spec = Rejected
         /\ spec.type = "all" <=> spec = AllHours
         /\ spec.type = "daily_hours" =>
              /\ spec.hours \subseteq 0..23 /\ spec.hours # {} /\ spec.hours # 0..23
              /\ spec = Daily(spec.hours)
         /\ spec.type = "intervals" =>
              /\ Normal(spec.intervals) /\ spec.intervals # <<>>
              /\ spec = Intervals(spec.intervals)
<1>1. CASE spec = Rejected
  BY <1>1 DEF Rejected, AllHours
<1>2. CASE spec = AllHours
  BY <1>2 DEF Rejected, AllHours
<1>3. CASE \E H \in SUBSET (0..23) : H # {} /\ H # 0..23 /\ spec = Daily(H)
  <2>1. PICK H \in SUBSET (0..23) : H # {} /\ H # 0..23 /\ spec = Daily(H)
    BY <1>3
  <2>2. spec.type = "daily_hours" /\ spec.hours = H
    BY <2>1 DEF Daily
  <2> QED
    BY <2>1, <2>2 DEF Rejected, AllHours
<1>4. CASE \E v : spec = Intervals(v) /\ Normal(v) /\ v # <<>>
  <2>1. PICK v : spec = Intervals(v) /\ Normal(v) /\ v # <<>>
    BY <1>4
  <2>2. spec.type = "intervals" /\ spec.intervals = v
    BY <2>1 DEF Intervals
  <2> QED
    BY <2>1, <2>2 DEF Rejected, AllHours
<1> QED
  BY <1>1, <1>2, <1>3, <1>4 DEF Sound

\* A union of hours, none or all of them or some.
LEMMA HoursSound ==
  ASSUME NEW H, H \subseteq 0..23, H # {}
  PROVE  /\ Sound(Hours(H)) /\ Hours(H) # Rejected
         /\ \A k \in Nat : Selects(Hours(H), k) <=> k % 24 \in H
<1>1. CASE H = 0..23
  <2>1. Hours(H) = AllHours
    BY <1>1 DEF Hours
  <2>2. \A k \in Nat : k % 24 \in 0..23
    OBVIOUS
  <2> QED
    BY <1>1, <2>1, <2>2 DEF Sound, Selects, AllHours, Rejected
<1>2. CASE H # 0..23
  <2>1. Hours(H) = Daily(H)
    BY <1>2 DEF Hours, Daily
  <2>2. Daily(H).type = "daily_hours" /\ Daily(H).hours = H
    BY DEF Daily
  <2>3. Daily(H) # Rejected
    BY <2>2 DEF Rejected
  <2> QED
    BY <1>2, <2>1, <2>2, <2>3 DEF Sound, Selects
<1> QED
  BY <1>1, <1>2

\* Intervals that are not empty.
LEMMA IntervalsSound ==
  ASSUME NEW S, S \subseteq AnyInterval, IsFiniteSet(S), S # {},
         \A i \in S : Bounds(i)[1] < Bounds(i)[2]
  PROVE  /\ Sound(Intervals(NormalizeIntervals(S))) /\ Intervals(NormalizeIntervals(S)) # Rejected
         /\ \A k \in Nat : Selects(Intervals(NormalizeIntervals(S)), k) <=> \E i \in S : Covers(Bounds(i), k)
<1>1. PICK v : v = NormalizeIntervals(S)
  OBVIOUS
<1>2. Normal(v) /\ Spoken(ToSet(v)) = Spoken(S)
  BY <1>1, Normalizes
<1>3. v # <<>>
  <2>1. PICK i \in S : Bounds(i)[1] < Bounds(i)[2]
    OBVIOUS
  <2>2. Bounds(i)[1] \in Nat /\ Covers(Bounds(i), Bounds(i)[1])
    BY <2>1, BoundsType, PairsAre DEF Covers
  <2>3. Bounds(i)[1] \in Spoken(ToSet(v))
    BY <1>2, <2>2 DEF Spoken
  <2>4. ToSet(v) # {}
    BY <2>3 DEF Spoken
  <2> QED
    BY <2>4 DEF ToSet
<1>4. Intervals(v).type = "intervals" /\ Intervals(v).intervals = v /\ Intervals(v) # Rejected
  BY DEF Intervals, Rejected
<1>5. ASSUME NEW k \in Nat
      PROVE  Selects(Intervals(v), k) <=> \E i \in S : Covers(Bounds(i), k)
  <2>1. Selects(Intervals(v), k) <=> k \in Spoken(S)
    BY <1>2, <1>4 DEF Selects
  <2> QED
    BY <2>1 DEF Spoken
<1> QED
  BY <1>1, <1>2, <1>3, <1>4, <1>5 DEF Sound

\* parse gives a TimeSpec of the hours the rules speak of, or none.
LEMMA ParseMeans ==
  ASSUME NEW rules \in Seq(AnyRule)
  PROVE  /\ Sound(Parse(rules))
         /\ Parse(rules) # Rejected =>
              \A k \in Nat : Selects(Parse(rules), k)
                               <=> rules = <<>> \/ \E r \in ToSet(rules) : Says(r, k)
<1>1. PICK R : R = ToSet(rules)
  OBVIOUS
<1>2. IsFiniteSet(R) /\ R \subseteq AnyRule
  BY <1>1, ToSetIsFinite
<1>3. rules = <<>> <=> R = {}
  <2>1. rules # <<>> => rules[1] \in R
    BY <1>1 DEF ToSet
  <2>2. rules = <<>> => R = {}
    BY <1>1 DEF ToSet
  <2> QED
    BY <2>1, <2>2
<1> DEFINE Of(kinds) == {r \in R : r.rule \in kinds}
           daily == UNION {DailyHours(r) : r \in Of({"daily"})}
           dated == {Dated(r) : r \in Of({"day", "dated"})}
<1>4. Parse(rules) =
        IF \E r \in R : ~Readable(r) THEN Rejected
        ELSE IF rules = <<>> \/ Of({"all"}) # {} THEN AllHours
        ELSE IF daily # {} /\ dated # {} THEN Rejected
        ELSE IF daily # {} THEN Hours(daily)
        ELSE Intervals(NormalizeIntervals(dated))
  BY <1>1 DEF Parse
<1>5. CASE \E r \in R : ~Readable(r)
  BY <1>4, <1>5 DEF Sound
<1>6. CASE ~(\E r \in R : ~Readable(r)) /\ (rules = <<>> \/ Of({"all"}) # {})
  <2>1. Parse(rules) = AllHours
    BY <1>4, <1>6
  <2>2. \A k \in Nat : rules = <<>> \/ \E r \in ToSet(rules) : Says(r, k)
    BY <1>1, <1>6 DEF Says
  <2>3. \A k \in Nat : Selects(AllHours, k)
    BY DEF Selects, AllHours
  <2> QED
    BY <2>1, <2>2, <2>3 DEF Sound
<1>7. CASE ~(\E r \in R : ~Readable(r)) /\ ~(rules = <<>> \/ Of({"all"}) # {})
  <2>1. \A r \in R : Readable(r) /\ r.rule \in {"day", "dated", "daily"}
    <3>1. \A r \in R : r.rule \in {"all", "other", "day", "dated", "daily"}
      BY <1>2, RuleForms
    <3>2. \A r \in R : Readable(r) /\ r.rule # "all"
      BY <1>7
    <3>3. \A r \in R : r.rule # "other"
      BY <3>2 DEF Readable
    <3> QED
      BY <3>1, <3>2, <3>3
  <2>2. daily \subseteq 0..23 /\ (daily = {} <=> Of({"daily"}) = {})
    <3>1. \A r \in Of({"daily"}) : DailyHours(r) \subseteq 0..23 /\ DailyHours(r) # {}
      BY <1>2, <2>1, DailyMeans
    <3> QED
      BY <3>1
  <2>3. /\ dated \subseteq AnyInterval /\ IsFiniteSet(dated)
        /\ \A i \in dated : Bounds(i)[1] < Bounds(i)[2]
        /\ dated = {} <=> Of({"day", "dated"}) = {}
    <3>1. \A r \in Of({"day", "dated"}) : Dated(r) \in AnyInterval /\ Bounds(Dated(r))[1] < Bounds(Dated(r))[2]
      BY <1>2, <2>1, DatedMeans
    <3>2. IsFiniteSet(Of({"day", "dated"}))
      BY <1>2, FS_Subset
    <3> DEFINE f == [r \in Of({"day", "dated"}) |-> Dated(r)]
    <3>3. f \in Surjection(Of({"day", "dated"}), dated)
      BY DEF Surjection
    <3>4. IsFiniteSet(dated)
      BY <3>2, <3>3, FS_Surjection
    <3> QED
      BY <3>1, <3>4
  <2>4. ASSUME NEW k \in Nat
        PROVE  (\E r \in R : Says(r, k)) <=>
                 \/ k % 24 \in daily
                 \/ \E i \in dated : Covers(Bounds(i), k)
    <3>1. \A r \in Of({"daily"}) : k % 24 \in DailyHours(r) <=> Says(r, k)
      BY <1>2, <2>1, DailyMeans
    <3>2. \A r \in Of({"day", "dated"}) : Covers(Bounds(Dated(r)), k) <=> Says(r, k)
      BY <1>2, <2>1, DatedMeans
    <3>3. k % 24 \in daily <=> \E r \in Of({"daily"}) : k % 24 \in DailyHours(r)
      OBVIOUS
    <3>4. (\E i \in dated : Covers(Bounds(i), k)) <=> \E r \in Of({"day", "dated"}) : Covers(Bounds(Dated(r)), k)
      OBVIOUS
    <3>5. (\E r \in R : Says(r, k)) <=>
             (\E r \in Of({"daily"}) : Says(r, k)) \/ (\E r \in Of({"day", "dated"}) : Says(r, k))
      BY <2>1
    <3> QED
      BY <3>1, <3>2, <3>3, <3>4, <3>5
  <2>5. Of({"daily"}) # {} \/ Of({"day", "dated"}) # {}
    BY <1>3, <1>7, <2>1
  <2> HIDE DEF daily, dated
  <2>6. CASE daily # {} /\ dated # {}
    BY <1>4, <1>7, <2>6 DEF Sound
  <2>7. CASE daily # {} /\ dated = {}
    <3>1. Parse(rules) = Hours(daily)
      BY <1>4, <1>7, <2>7
    <3>2. Sound(Hours(daily)) /\ \A k \in Nat : Selects(Hours(daily), k) <=> k % 24 \in daily
      BY <2>2, <2>7, HoursSound
    <3>3. \A k \in Nat : (\E r \in R : Says(r, k)) <=> k % 24 \in daily
      BY <2>4, <2>7
    <3>4. rules # <<>>
      BY <1>7
    <3> QED
      BY <1>1, <3>1, <3>2, <3>3, <3>4
  <2>8. CASE daily = {} /\ dated # {}
    <3>1. Parse(rules) = Intervals(NormalizeIntervals(dated))
      BY <1>4, <1>7, <2>8
    <3> QED
      BY <1>1, <1>7, <2>3, <2>4, <2>8, <3>1, IntervalsSound
  <2> QED
    BY <2>2, <2>3, <2>5, <2>6, <2>7, <2>8
<1> QED
  BY <1>5, <1>6, <1>7

\* What is sent as JSON.
Sent == [type : {"all", "daily_hours", "intervals"}, hours : SUBSET Nat, intervals : Seq(AnyInterval)]

Cut(i) == [i EXCEPT !.start_hour = U8(@), !.end_hour = U8(@)]

LEMMA CutType ==
  ASSUME NEW i \in AnyInterval
  PROVE  /\ Cut(i) \in AnyInterval
         /\ i.start_hour \in 0..255 /\ i.end_hour \in 0..255 => Cut(i) = i
<1>1. U8(i.start_hour) \in Nat /\ U8(i.end_hour) \in Nat
  BY DEF U8, AnyInterval
<1>2. \A n \in 0..255 : U8(n) = n
  BY DEF U8
<1> QED
  BY <1>1, <1>2 DEF Cut, AnyInterval

\* from_value does so of the numbers it is left with.
LEMMA FromJsonMeans ==
  ASSUME NEW v \in Sent
  PROVE  /\ Sound(FromJson(v))
         /\ FromJson(v) # Rejected =>
              \A k \in Nat : Selects(FromJson(v), k) <=>
                 \/ v.type = "all"
                 \/ v.type = "daily_hours" /\ k % 24 \in {U8(n) : n \in v.hours}
                 \/ v.type = "intervals" /\ \E i \in ToSet(v.intervals) : Covers(Bounds(Cut(i)), k)
<1> DEFINE hours == {h \in {U8(n) : n \in v.hours} : h < 24}
           sent == {Cut(i) : i \in ToSet(v.intervals)}
           Bad(i) == i.start_hour > 23 \/ i.end_hour > 24 \/ Bounds(i)[1] >= Bounds(i)[2]
<1>1. CASE v.type = "all"
  <2>1. FromJson(v) = AllHours
    BY <1>1 DEF FromJson
  <2> QED
    BY <1>1, <2>1 DEF Sound, Selects, AllHours
<1>2. CASE v.type = "daily_hours"
  <2>1. FromJson(v) = IF hours = {} THEN Rejected ELSE Hours(hours)
    BY <1>2 DEF FromJson
  <2>2. hours \subseteq 0..23 /\ \A h \in 0..23 : h \in {U8(n) : n \in v.hours} <=> h \in hours
    <3>1. \A n \in v.hours : U8(n) \in Nat
      BY DEF Sent, U8
    <3> QED
      BY <3>1
  <2>3. \A k \in Nat : k % 24 \in 0..23
    OBVIOUS
  <2> HIDE DEF hours
  <2>4. CASE hours = {}
    BY <2>1, <2>4 DEF Sound
  <2>5. CASE hours # {}
    <3>1. FromJson(v) = Hours(hours) /\ Sound(Hours(hours))
      BY <2>1, <2>2, <2>5, HoursSound
    <3>2. ASSUME NEW k \in Nat
          PROVE  Selects(Hours(hours), k) <=> k % 24 \in {U8(n) : n \in v.hours}
      <4>1. Selects(Hours(hours), k) <=> k % 24 \in hours
        BY <2>2, <2>5, HoursSound
      <4> QED
        BY <2>2, <2>3, <4>1
    <3>3. v.type # "all" /\ v.type # "intervals"
      BY <1>2
    <3> QED
      BY <1>2, <3>1, <3>2, <3>3
  <2> QED
    BY <2>4, <2>5
<1>3. CASE v.type = "intervals"
  <2>1. FromJson(v) = IF sent = {} \/ \E i \in sent : Bad(i) THEN Rejected
                      ELSE Intervals(NormalizeIntervals(sent))
    BY <1>3 DEF FromJson, Cut
  <2>2. IsFiniteSet(ToSet(v.intervals)) /\ ToSet(v.intervals) \subseteq AnyInterval
    BY ToSetIsFinite DEF Sent
  <2>3. sent \subseteq AnyInterval /\ IsFiniteSet(sent)
    <3>1. sent \subseteq AnyInterval
      BY <2>2, CutType
    <3> DEFINE f == [i \in ToSet(v.intervals) |-> Cut(i)]
    <3>2. f \in Surjection(ToSet(v.intervals), sent)
      BY DEF Surjection
    <3> QED
      BY <2>2, <3>1, <3>2, FS_Surjection
  <2>4. \A k : (\E i \in sent : Covers(Bounds(i), k)) <=> \E i \in ToSet(v.intervals) : Covers(Bounds(Cut(i)), k)
    OBVIOUS
  <2>5. CASE sent = {} \/ \E i \in sent : Bad(i)
    BY <2>1, <2>5 DEF Sound
  <2>6. CASE ~(sent = {} \/ \E i \in sent : Bad(i))
    <3>1. \A i \in sent : Bounds(i)[1] < Bounds(i)[2]
      <4>1. \A i \in sent : Bounds(i)[1] \in Nat /\ Bounds(i)[2] \in Nat
        BY <2>3, BoundsType, PairsAre
      <4> QED
        BY <2>6, <4>1
    <3>2. FromJson(v) = Intervals(NormalizeIntervals(sent)) /\ sent # {}
      BY <2>1, <2>6
    <3> HIDE DEF sent
    <3> QED
      BY <1>3, <2>3, <2>4, <3>1, <3>2, IntervalsSound
  <2> QED
    BY <2>5, <2>6
<1> QED
  BY <1>1, <1>2, <1>3 DEF Sent

\* What is stored is read back as it was, in every round.
LEMMA StoredAndRead ==
  ASSUME NEW spec, Sound(spec), spec # Rejected
  PROVE  FromJson(ToJson(spec)) = spec
<1>1. PICK v : v = ToJson(spec)
  OBVIOUS
<1>2. /\ v.type = spec.type
      /\ spec.type = "daily_hours" => v.hours = spec.hours
      /\ spec.type = "intervals" => v.intervals = spec.intervals
  BY <1>1 DEF ToJson
<1>3. CASE spec = AllHours
  BY <1>1, <1>2, <1>3 DEF FromJson, AllHours
<1>4. CASE spec.type = "daily_hours"
  <2>1. PICK H : H = spec.hours /\ H \subseteq 0..23 /\ H # {} /\ H # 0..23 /\ spec = Daily(H)
    BY <1>4, SoundForms
  <2>2. \A n \in H : U8(n) = n /\ n < 24
    BY <2>1 DEF U8
  <2>3. {h \in {U8(n) : n \in H} : h < 24} = H
    BY <2>2
  <2>4. FromJson(v) = Hours(H)
    BY <1>2, <1>4, <2>1, <2>3 DEF FromJson
  <2> QED
    BY <1>1, <2>1, <2>4 DEF Hours, Daily
<1>5. CASE spec.type = "intervals"
  <2>1. PICK w : w = spec.intervals /\ Normal(w) /\ w # <<>> /\ spec = Intervals(w)
    BY <1>5, SoundForms
  <2>2. w \in Seq(AnyInterval) /\ \A i \in ToSet(w) : Canonical(i)
    BY <2>1 DEF Normal, ToSet
  <2>3. \A i \in ToSet(w) : Cut(i) = i
    <3>1. SUFFICES ASSUME NEW i \in ToSet(w) PROVE Cut(i) = i
      OBVIOUS
    <3>2. i \in AnyInterval /\ i.start_hour <= 23 /\ i.end_hour <= 24
      BY <2>2 DEF Canonical
    <3>3. i.start_hour \in Nat /\ i.end_hour \in Nat
      BY <3>2 DEF AnyInterval
    <3>4. i.start_hour \in 0..255 /\ i.end_hour \in 0..255
      BY <3>2, <3>3
    <3> QED
      BY <3>2, <3>4, CutType
  <2>4. {Cut(i) : i \in ToSet(w)} = ToSet(w)
    BY <2>3
  <2>5. ToSet(w) # {}
    <3>1. w[1] \in ToSet(w)
      BY <2>1, <2>2 DEF ToSet
    <3> QED
      BY <3>1
  <2>6. ASSUME NEW i \in ToSet(w)
        PROVE  ~(i.start_hour > 23 \/ i.end_hour > 24 \/ Bounds(i)[1] >= Bounds(i)[2])
    <3>1. Canonical(i) /\ i \in AnyInterval /\ i.start_hour \in Nat /\ i.end_hour \in Nat
      BY <2>2 DEF Canonical, AnyInterval
    <3>2. Bounds(i)[1] \in Nat /\ Bounds(i)[2] \in Nat
      BY <3>1, BoundsType, PairsAre
    <3> QED
      BY <3>1, <3>2 DEF Canonical
  <2>7. FromJson(v) = Intervals(NormalizeIntervals(ToSet(w)))
    BY <1>2, <1>5, <2>1, <2>4, <2>5, <2>6 DEF FromJson, Cut
  <2>8. NormalizeIntervals(ToSet(w)) = w
    BY <2>1, <2>2, ToSetIsFinite, Normalizes, NormalOnce
  <2> QED
    BY <1>1, <2>1, <2>7, <2>8
<1> QED
  BY <1>3, <1>4, <1>5, SoundForms

-----------------------------------------------------------------------------
(* Inputs.                                                                 *)

SentIntervals == {Interval(sd, sh, ed, eh) : sd \in Dates, sh \in FromHours, ed \in Dates, eh \in ToHours}

Inputs ==
  [form : {"text"}, rules : Seq(Rules)]
    \cup [form : {"json"},
          body : [type : {"all", "daily_hours", "intervals"}, hours : SUBSET DayHours,
                  intervals : Seq(SentIntervals)]]

TypedInput == input \in Inputs

LEMMA InputForms ==
  ASSUME NEW x \in Inputs
  PROVE  /\ x.form \in {"text", "json"}
         /\ x.form = "text" => x.rules \in Seq(Rules)
         /\ x.form = "json" =>
              /\ x.body.type \in {"all", "daily_hours", "intervals"} /\ x.body.hours \subseteq DayHours
              /\ x.body.intervals \in Seq(SentIntervals)
  BY DEF Inputs

\* Inputs are lists of rules and bodies of the values there are.
LEMMA InputsTyped == Spec => []TypedInput
<1>1. Init => TypedInput
  <2>1. SUFFICES ASSUME Init PROVE input \in Inputs
    BY DEF TypedInput
  <2>2. CASE input = [form |-> "text", rules |-> <<>>]
    BY <2>2 DEF Inputs
  <2>3. ASSUME NEW t \in {"all", "daily_hours", "intervals"}, input = [form |-> "json", body |-> Body(t)]
        PROVE  input \in Inputs
    <3>1. Body(t) \in [type : {"all", "daily_hours", "intervals"}, hours : SUBSET DayHours,
                       intervals : Seq(SentIntervals)]
      BY DEF Body
    <3> QED
      BY <2>3, <3>1 DEF Inputs
  <2> QED
    BY <2>1, <2>2, <2>3 DEF Init
<1>2. TypedInput /\ [Next]_input => TypedInput'
  <2> SUFFICES ASSUME input \in Inputs, [Next]_input PROVE input' \in Inputs
    BY DEF TypedInput
  <2>1. CASE UNCHANGED input
    BY <2>1
  <2>2. ASSUME NEW r \in Rules, TypeRule(r)
        PROVE  input' \in Inputs
    <3>1. input \in [form : {"text"}, rules : Seq(Rules)]
      BY <2>2 DEF TypeRule, Inputs
    <3>2. PICK s : s = Append(input.rules, r)
      OBVIOUS
    <3>3. s \in Seq(Rules) /\ input' = [input EXCEPT !.rules = s]
      BY <2>2, <3>1, <3>2 DEF TypeRule
    <3> QED
      BY <3>1, <3>3 DEF Inputs
  <2>3. ASSUME NEW h \in DayHours, SendHour(h)
        PROVE  input' \in Inputs
    <3>1. input \in [form : {"json"},
                     body : [type : {"all", "daily_hours", "intervals"}, hours : SUBSET DayHours,
                             intervals : Seq(SentIntervals)]]
      BY <2>3 DEF SendHour, Inputs
    <3>2. PICK H : H = input.body.hours \cup {h}
      OBVIOUS
    <3>3. H \subseteq DayHours /\ input' = [input EXCEPT !.body.hours = H]
      BY <2>3, <3>1, <3>2 DEF SendHour
    <3>4. PICK b : b = [input.body EXCEPT !.hours = H]
      OBVIOUS
    <3>5. b \in [type : {"all", "daily_hours", "intervals"}, hours : SUBSET DayHours,
                 intervals : Seq(SentIntervals)]
      BY <3>1, <3>3, <3>4
    <3>6. input' = [input EXCEPT !.body = b]
      BY <3>1, <3>3, <3>4
    <3> QED
      BY <3>1, <3>5, <3>6 DEF Inputs
  <2>4. ASSUME NEW sd \in Dates, NEW ed \in Dates, NEW sh \in FromHours, NEW eh \in ToHours,
               SendInterval(Interval(sd, sh, ed, eh))
        PROVE  input' \in Inputs
    <3>1. input \in [form : {"json"},
                     body : [type : {"all", "daily_hours", "intervals"}, hours : SUBSET DayHours,
                             intervals : Seq(SentIntervals)]]
      BY <2>4 DEF SendInterval, Inputs
    <3>2. PICK i \in SentIntervals : i = Interval(sd, sh, ed, eh)
      BY DEF SentIntervals
    <3>3. PICK s : s = Append(input.body.intervals, i)
      OBVIOUS
    <3>4. s \in Seq(SentIntervals) /\ input' = [input EXCEPT !.body.intervals = s]
      BY <2>4, <3>1, <3>2, <3>3 DEF SendInterval
    <3>5. PICK b : b = [input.body EXCEPT !.intervals = s]
      OBVIOUS
    <3>6. b \in [type : {"all", "daily_hours", "intervals"}, hours : SUBSET DayHours,
                 intervals : Seq(SentIntervals)]
      BY <3>1, <3>4, <3>5
    <3>7. input' = [input EXCEPT !.body = b]
      BY <3>1, <3>4, <3>5
    <3> QED
      BY <3>1, <3>6, <3>7 DEF Inputs
  <2> QED
    BY <2>1, <2>2, <2>3, <2>4 DEF Next
<1> QED
  BY <1>1, <1>2, PTL DEF Spec

LEMMA LastDate ==
  /\ Max(Dates) \in Nat /\ \A d \in Dates : d <= Max(Dates)
  /\ Window \subseteq Nat
  /\ \A k \in Nat : k < (Max(Dates) + 2) * 24 => k \in Window
<1>1. PICK bound \in Nat : \A d \in Dates : d <= bound
  BY DatesAssumption, FiniteIsBounded
<1>2. PICK m \in Dates : \A d \in Dates : d <= m
  BY <1>1, DatesAssumption, GreatestOf
<1>3. Dates \subseteq Int
  BY DatesAssumption
<1>4. Max(Dates) = m
  BY <1>2, <1>3, MaxIs
<1>5. PICK D \in Nat : D = Max(Dates) /\ \A d \in Dates : d <= D
  BY <1>2, <1>4, DatesAssumption
<1>6. Window = 0..((D + 2) * 24 - 1)
  BY <1>5 DEF Window
<1> QED
  BY <1>5, <1>6

LEMMA RulesTyped ==
  ASSUME input \in Inputs, input.form = "text"
  PROVE  input.rules \in Seq(AnyRule) /\ ToSet(input.rules) \subseteq Rules
<1>1. input.rules \in Seq(Rules)
  BY InputForms
<1>2. input.rules \in Seq(AnyRule)
  BY <1>1, RulesAreRules
<1> QED
  BY <1>1, <1>2 DEF ToSet

LEMMA BodyTyped ==
  ASSUME input \in Inputs, input.form = "json"
  PROVE  input.body \in Sent /\ ToSet(input.body.intervals) \subseteq SentIntervals
<1>1. SentIntervals \subseteq AnyInterval
  <2>1. SUFFICES ASSUME NEW sd \in Dates, NEW sh \in FromHours, NEW ed \in Dates, NEW eh \in ToHours
                 PROVE  Interval(sd, sh, ed, eh) \in AnyInterval
    BY DEF SentIntervals
  <2>2. sd \in Nat /\ sh \in Nat /\ ed \in Nat /\ eh \in Nat
    BY DatesAssumption, HoursAssumption
  <2> QED
    BY <2>2 DEF AnyInterval, Interval
<1>2. input.body \in [type : {"all", "daily_hours", "intervals"}, hours : SUBSET DayHours,
                      intervals : Seq(SentIntervals)]
  BY DEF Inputs
<1>3. input.body.intervals \in Seq(SentIntervals) /\ input.body.hours \subseteq Nat
  BY <1>2, HoursAssumption
<1>4. input.body.intervals \in Seq(AnyInterval)
  BY <1>1, <1>3
<1>5. input.body \in Sent
  BY <1>2, <1>3, <1>4 DEF Sent
<1> QED
  BY <1>3, <1>5 DEF ToSet

LEMMA ReadSound ==
  ASSUME input \in Inputs
  PROVE  Sound(Read)
<1>1. CASE input.form = "text"
  BY <1>1, RulesTyped, ParseMeans DEF Read
<1>2. CASE input.form = "json"
  BY <1>2, BodyTyped, FromJsonMeans DEF Read
<1> QED
  BY <1>1, <1>2, InputForms

\* A usable TimeSpec was not rejected.
LEMMA UsableRead ==
  ASSUME NEW spec, Usable(spec)
  PROVE  spec # Rejected
  BY DEF Usable, CompileMask, Rejected

\* The mask has the hours the TimeSpec stands for.
LEMMA WatchedAre ==
  ASSUME NEW spec, Sound(spec), Usable(spec)
  PROVE  /\ \A k : k \in Watched(spec) <=> k \in Window /\ Selects(spec, k)
<1>0. spec # Rejected
  BY UsableRead
<1>1. CASE spec.type # "intervals"
  <2>1. CompileMask(spec) = spec
    BY <1>1 DEF CompileMask
  <2> QED
    BY <1>1, <2>1 DEF Watched, InMask, Selects
<1>2. CASE spec.type = "intervals"
  <2>1. PICK v : v = spec.intervals /\ Normal(v) /\ spec = Intervals(v)
    BY <1>2, SoundForms
  <2> DEFINE bounds == {Bounds(i) : i \in ToSet(v)}
             keys == UNION {b[1]..(b[2] - 1) : b \in bounds}
  <2>2. CompileMask(spec) = IF \E b \in bounds : b[2] - b[1] > MaxSpan THEN TooWide
                            ELSE [type |-> "intervals", keys |-> keys]
    BY <1>2, <2>1 DEF CompileMask
  <2>3. CompileMask(spec) = [type |-> "intervals", keys |-> keys]
    BY <2>2 DEF Usable, TooWide
  <2>4. \A i \in ToSet(v) : Bounds(i)[1] \in Nat /\ Bounds(i)[2] \in Nat
    <3>1. ToSet(v) \subseteq AnyInterval
      BY <2>1, ToSetIsFinite DEF Normal
    <3> QED
      BY <3>1, BoundsType, PairsAre
  <2>5. ASSUME NEW k \in Nat
        PROVE  k \in keys <=> k \in Spoken(ToSet(v))
    <3>1. \A i \in ToSet(v) : k \in Bounds(i)[1]..(Bounds(i)[2] - 1) <=> Covers(Bounds(i), k)
      BY <2>4 DEF Covers
    <3>2. k \in keys <=> \E i \in ToSet(v) : k \in Bounds(i)[1]..(Bounds(i)[2] - 1)
      OBVIOUS
    <3> QED
      BY <3>1, <3>2 DEF Spoken
  <2>6. \A k : InMask(CompileMask(spec), k) <=> k \in keys
    BY <2>3 DEF InMask
  <2>7. \A k : Selects(spec, k) <=> k \in Spoken(ToSet(v))
    BY <1>2, <2>1 DEF Selects
  <2> HIDE DEF keys
  <2> QED
    BY <2>5, <2>6, <2>7, LastDate DEF Watched
<1> QED
  BY <1>1, <1>2

-----------------------------------------------------------------------------
(* What is asked is watched.                                               *)

LEMMA ReadSelects ==
  ASSUME input \in Inputs, Read # Rejected, Uncut, NEW k \in Nat
  PROVE  Selects(Read, k) <=> Asked(k)
<1>1. CASE input.form = "text"
  <2>1. Selects(Parse(input.rules), k) <=> input.rules = <<>> \/ \E r \in ToSet(input.rules) : Says(r, k)
    BY <1>1, RulesTyped, ParseMeans DEF Read
  <2> QED
    BY <1>1, <2>1 DEF Read, Asked
<1>2. CASE input.form = "json"
  <2>1. PICK v \in Sent : v = input.body
    BY <1>2, BodyTyped
  <2>2. /\ \A n \in v.hours : U8(n) = n
        /\ \A i \in ToSet(v.intervals) : Cut(i) = i
    <3>1. \A n \in v.hours : U8(n) = n
      BY <1>2, <2>1 DEF Uncut, U8
    <3>2. \A i \in ToSet(v.intervals) : i \in AnyInterval
      BY <2>1, ToSetIsFinite DEF Sent
    <3>3. \A i \in ToSet(v.intervals) : i.start_hour \in 0..255 /\ i.end_hour \in 0..255
      BY <1>2, <2>1 DEF Uncut
    <3> QED
      BY <3>1, <3>2, <3>3, CutType
  <2>3. {U8(n) : n \in v.hours} = v.hours
    BY <2>2
  <2>4. Read = FromJson(v)
    BY <1>2, <2>1 DEF Read
  <2>5. Selects(FromJson(v), k) <=>
          \/ v.type = "all"
          \/ v.type = "daily_hours" /\ k % 24 \in {U8(n) : n \in v.hours}
          \/ v.type = "intervals" /\ \E i \in ToSet(v.intervals) : Covers(Bounds(Cut(i)), k)
    BY <2>4, FromJsonMeans
  <2>6. Selects(FromJson(v), k) <=>
          \/ v.type = "all"
          \/ v.type = "daily_hours" /\ k % 24 \in v.hours
          \/ v.type = "intervals" /\ \E i \in ToSet(v.intervals) : Covers(Bounds(i), k)
    BY <2>2, <2>3, <2>5
  <2> QED
    BY <1>2, <2>1, <2>4, <2>6 DEF Asked, Covers
<1> QED
  BY <1>1, <1>2, InputForms

\* The loop watches exactly the hours the user asked for, for every list of rules or JSON body:
\* TimeSpec::parse or from_value, normalize_intervals, the stored row and compile_mask lose and add
\* none.
THEOREM AskedIsWatched == Spec => []WatchesWhatIsAsked
<1>1. TypedInput => WatchesWhatIsAsked
  <2>1. SUFFICES ASSUME input \in Inputs, Usable(Read), Uncut
                 PROVE  Watched(FromJson(ToJson(Read))) = {k \in Window : Asked(k)}
    BY DEF WatchesWhatIsAsked, TypedInput
  <2>2. Sound(Read) /\ Read # Rejected
    BY <2>1, ReadSound, UsableRead
  <2>3. FromJson(ToJson(Read)) = Read
    BY <2>2, StoredAndRead
  <2>4. \A k : k \in Watched(Read) <=> k \in Window /\ Selects(Read, k)
    BY <2>1, <2>2, WatchedAre
  <2>5. \A k \in Window : Selects(Read, k) <=> Asked(k)
    BY <2>1, <2>2, ReadSelects, LastDate
  <2> QED
    BY <2>3, <2>4, <2>5
<1> QED
  BY <1>1, InputsTyped, PTL

-----------------------------------------------------------------------------
(* What is read ends with the day after the last date.                     *)

\* A list of rules becomes intervals if and only if it has dated rules only, and hours if and only
\* if it has daily ones only.
LEMMA ParseKinds ==
  ASSUME NEW rules \in Seq(AnyRule)
  PROVE  /\ Parse(rules).type = "intervals" =>
              \A r \in ToSet(rules) : r.rule \in {"day", "dated"} /\ Readable(r)
         /\ rules # <<>> /\ (\A r \in ToSet(rules) : r.rule \in {"day", "dated"} /\ Readable(r)) =>
              Parse(rules).type = "intervals"
         /\ rules # <<>> /\ (\A r \in ToSet(rules) : r.rule = "daily" /\ Readable(r)) =>
              Parse(rules).type \in {"all", "daily_hours"}
<1>1. PICK R : R = ToSet(rules)
  OBVIOUS
<1>2. R \subseteq AnyRule
  BY <1>1, ToSetIsFinite
<1>3. rules # <<>> => R # {}
  <2>1. rules # <<>> => rules[1] \in R
    BY <1>1 DEF ToSet
  <2> QED
    BY <2>1
<1> DEFINE Of(kinds) == {r \in R : r.rule \in kinds}
           daily == UNION {DailyHours(r) : r \in Of({"daily"})}
           dated == {Dated(r) : r \in Of({"day", "dated"})}
<1>4. Parse(rules) =
        IF \E r \in R : ~Readable(r) THEN Rejected
        ELSE IF rules = <<>> \/ Of({"all"}) # {} THEN AllHours
        ELSE IF daily # {} /\ dated # {} THEN Rejected
        ELSE IF daily # {} THEN Hours(daily)
        ELSE Intervals(NormalizeIntervals(dated))
  BY <1>1 DEF Parse
<1>5. \A H : Hours(H).type \in {"all", "daily_hours"}
  BY DEF Hours, AllHours
<1>6. Rejected.type = "rejected" /\ AllHours.type = "all" /\ \A v : Intervals(v).type = "intervals"
  BY DEF Rejected, AllHours, Intervals
<1>7. ASSUME Parse(rules).type = "intervals", NEW r \in R
      PROVE  r.rule \in {"day", "dated"} /\ Readable(r)
  <2>1. ~(\E x \in R : ~Readable(x)) /\ Of({"all"}) = {} /\ daily = {}
    <3> HIDE DEF daily, dated
    <3> QED
      BY <1>4, <1>5, <1>6, <1>7
  <2>2. Readable(r) /\ r.rule \in {"all", "day", "dated", "daily"}
    BY <2>1 DEF Readable
  <2>3. r.rule # "daily"
    <3>1. SUFFICES ASSUME r.rule = "daily" PROVE FALSE
      OBVIOUS
    <3>2. DailyHours(r) # {}
      BY <1>2, <2>2, <3>1, DailyMeans
    <3> QED
      BY <2>1, <3>1, <3>2
  <2> QED
    BY <2>1, <2>2, <2>3
<1>8. ASSUME rules # <<>>, \A r \in R : r.rule \in {"day", "dated"} /\ Readable(r)
      PROVE  Parse(rules).type = "intervals"
  <2>1. Of({"all"}) = {} /\ daily = {} /\ ~(\E r \in R : ~Readable(r))
    BY <1>8
  <2> HIDE DEF daily, dated
  <2> QED
    BY <1>4, <1>6, <1>8, <2>1
<1>9. ASSUME rules # <<>>, \A r \in R : r.rule = "daily" /\ Readable(r)
      PROVE  Parse(rules).type \in {"all", "daily_hours"}
  <2>1. PICK r \in R : TRUE
    BY <1>3, <1>9
  <2>2. DailyHours(r) # {} /\ r \in Of({"daily"})
    BY <1>2, <1>9, DailyMeans
  <2>3. Of({"all"}) = {} /\ daily # {} /\ dated = {} /\ ~(\E x \in R : ~Readable(x))
    BY <1>9, <2>2
  <2> HIDE DEF daily, dated
  <2> QED
    BY <1>4, <1>5, <1>9, <2>3
<1> QED
  BY <1>1, <1>7, <1>8, <1>9

LEMMA CanonicalForms ==
  ASSUME NEW v, Normal(v), NEW i \in ToSet(v)
  PROVE  /\ i.start_date \in Nat /\ i.end_date \in Nat /\ i.start_date <= i.end_date
         /\ i.start_hour \in 0..23 /\ i.end_hour \in 1..24
         /\ Bounds(i)[1] = i.start_date * 24 + i.start_hour
         /\ Bounds(i)[2] = i.end_date * 24 + i.end_hour
         /\ Bounds(i)[1] < Bounds(i)[2]
<1>1. Canonical(i) /\ i \in AnyInterval
  BY DEF Normal, Canonical, ToSet
<1>2. i.start_date \in Nat /\ i.end_date \in Nat /\ i.start_hour \in Nat /\ i.end_hour \in Nat
  BY <1>1 DEF AnyInterval
<1>3. i.start_hour <= 23 /\ 1 <= i.end_hour /\ i.end_hour <= 24 /\ i.start_date <= i.end_date
      /\ Bounds(i)[1] < Bounds(i)[2]
  BY <1>1 DEF Canonical
<1>4. i.start_hour \in 0..23 /\ i.end_hour \in 1..24
  BY <1>2, <1>3
<1>5. /\ Bounds(i)[1] = i.start_date * 24 + i.start_hour
      /\ Bounds(i)[2] = i.end_date * 24 + i.end_hour
  BY <1>1, BoundsType
<1> QED
  BY <1>2, <1>3, <1>4, <1>5

LEMMA ReadWithin ==
  ASSUME input \in Inputs, Read.type = "intervals"
  PROVE  /\ Spoken(ToSet(Read.intervals)) \subseteq Window
         /\ \A i \in ToSet(Read.intervals) : i.end_date <= Max(Dates) + 1
<1>0. Sound(Read) /\ Read # Rejected
  BY ReadSound DEF Rejected
<1>1. PICK v : v = Read.intervals /\ Normal(v)
  BY <1>0, SoundForms
<1>2. PICK D \in Nat : D = Max(Dates)
  BY LastDate
<1>3. ASSUME NEW k \in Spoken(ToSet(v))
      PROVE  k \in Nat /\ k < (D + 2) * 24
  <2>1. k \in Nat /\ Selects(Read, k)
    BY <1>1, <1>3 DEF Selects, Spoken
  <2>2. CASE input.form = "text"
    <3>1. Parse(input.rules) = Read /\ input.rules \in Seq(AnyRule) /\ ToSet(input.rules) \subseteq Rules
      BY <2>2, RulesTyped DEF Read
    <3>2. input.rules = <<>> \/ \E r \in ToSet(input.rules) : Says(r, k)
      BY <1>0, <2>1, <3>1, ParseMeans
    <3>3. input.rules # <<>>
      <4>1. SUFFICES ASSUME input.rules = <<>> PROVE FALSE
        OBVIOUS
      <4>2. Parse(input.rules) = AllHours
        BY <4>1 DEF Parse, ToSet
      <4> QED
        BY <3>1, <4>2 DEF AllHours
    <3>4. PICK r \in ToSet(input.rules) : Says(r, k)
      BY <3>2, <3>3
    <3>5. r.rule \in {"day", "dated"} /\ Readable(r) /\ r \in AnyRule /\ r \in Rules
      BY <3>1, ParseKinds, RulesAreRules
    <3>6. r.date \in Dates
      BY <3>5 DEF Rules
    <3>7. Covers(Bounds(Dated(r)), k) /\ Bounds(Dated(r))[2] <= (r.date + 2) * 24 /\ Dated(r) \in AnyInterval
      BY <2>1, <3>4, <3>5, DatedMeans
    <3>8. k < Bounds(Dated(r))[2] /\ Bounds(Dated(r))[2] \in Nat
      BY <3>7, BoundsType, PairsAre DEF Covers
    <3>9. r.date \in Nat /\ r.date <= D
      BY <1>2, <3>6, LastDate, DatesAssumption
    <3> QED
      BY <1>2, <2>1, <3>7, <3>8, <3>9
  <2>3. CASE input.form = "json"
    <3>1. PICK w \in Sent : w = input.body /\ ToSet(w.intervals) \subseteq SentIntervals
      BY <2>3, BodyTyped
    <3> DEFINE sent == {Cut(i) : i \in ToSet(w.intervals)}
               Bad(i) == i.start_hour > 23 \/ i.end_hour > 24 \/ Bounds(i)[1] >= Bounds(i)[2]
    <3>2. Read = FromJson(w)
      BY <2>3, <3>1 DEF Read
    <3>3. w.type = "intervals"
      <4>1. w.type = "all" => FromJson(w).type = "all"
        BY DEF FromJson, AllHours
      <4>2. w.type = "daily_hours" => FromJson(w).type \in {"all", "daily_hours", "rejected"}
        BY DEF FromJson, AllHours, Rejected, Hours
      <4> QED
        BY <3>2, <4>1, <4>2 DEF Sent
    <3>4. FromJson(w) = IF sent = {} \/ \E i \in sent : Bad(i) THEN Rejected
                        ELSE Intervals(NormalizeIntervals(sent))
      BY <3>3 DEF FromJson, Cut
    <3>5. \A i \in sent : ~Bad(i)
      BY <1>0, <3>2, <3>4
    <3>6. \E i \in ToSet(w.intervals) : Covers(Bounds(Cut(i)), k)
      BY <1>0, <2>1, <3>2, <3>3, FromJsonMeans
    <3>7. PICK i \in ToSet(w.intervals) : Covers(Bounds(Cut(i)), k)
      BY <3>6
    <3>8. i \in AnyInterval /\ i.end_date \in Dates
      <4>1. i \in SentIntervals /\ i \in AnyInterval
        BY <3>1, ToSetIsFinite DEF Sent
      <4> QED
        BY <4>1 DEF SentIntervals, Interval
    <3>9. Cut(i) \in AnyInterval /\ Cut(i).end_date = i.end_date
      BY <3>8, CutType DEF Cut, AnyInterval
    <3>10. Cut(i).end_hour \in Nat /\ Cut(i).end_hour <= 24
      <4>1. Cut(i).end_hour \in Nat
        BY <3>9 DEF AnyInterval
      <4>2. ~(Cut(i).end_hour > 24)
        BY <3>5
      <4> QED
        BY <4>1, <4>2
    <3>11. k < i.end_date * 24 + Cut(i).end_hour
      BY <3>7, <3>9, BoundsType DEF Covers
    <3>12. i.end_date \in Nat /\ i.end_date <= D
      BY <1>2, <3>8, LastDate, DatesAssumption
    <3> QED
      BY <2>1, <3>10, <3>11, <3>12
  <2> QED
    BY <2>2, <2>3, InputForms
<1>4. Spoken(ToSet(v)) \subseteq Window
  BY <1>2, <1>3, LastDate
<1>5. ASSUME NEW i \in ToSet(v)
      PROVE  i.end_date <= D + 1
  <2>1. /\ i.end_date \in Nat /\ i.end_hour \in 1..24 /\ Bounds(i)[1] < Bounds(i)[2]
        /\ Bounds(i)[2] = i.end_date * 24 + i.end_hour /\ Bounds(i)[1] \in Nat /\ Bounds(i)[2] \in Nat
    BY <1>1, CanonicalForms
  <2>2. PICK k \in Nat : k = Bounds(i)[2] - 1
    BY <2>1
  <2>3. k \in Spoken(ToSet(v))
    BY <2>1, <2>2 DEF Spoken, Covers
  <2>4. k < (D + 2) * 24
    BY <1>3, <2>3
  <2> QED
    BY <2>1, <2>2, <2>4
<1> QED
  BY <1>1, <1>2, <1>4, <1>5

\* Of intervals all hours are watched.
LEMMA AllWatched ==
  ASSUME input \in Inputs, Usable(Read), Read.type = "intervals"
  PROVE  Watched(Read) = Spoken(ToSet(Read.intervals)) /\ Normal(Read.intervals) /\ Read.intervals # <<>>
<1>1. Sound(Read)
  BY ReadSound
<1>2. \A k : k \in Watched(Read) <=> k \in Window /\ k \in Spoken(ToSet(Read.intervals))
  BY <1>1, WatchedAre DEF Selects
<1>3. Watched(Read) \subseteq Window
  BY DEF Watched
<1> QED
  BY <1>1, <1>2, <1>3, ReadWithin, SoundForms

-----------------------------------------------------------------------------
(* One spelling, ranges and ends.                                          *)

\* Two inputs that mean the same give the same TimeSpec, so that they share a filter_key: the
\* intervals of a TimeSpec are the maximal runs of its hours in order, and a set of hours is
\* neither empty nor all of them.
THEOREM MeaningsAreSpeltOnce == Spec => []OneSpellingPerMeaning
<1>1. TypedInput => OneSpellingPerMeaning
  <2>1. SUFFICES ASSUME input \in Inputs PROVE OneSpellingPerMeaning
    BY DEF TypedInput
  <2>2. Sound(Read)
    BY <2>1, ReadSound
  <2>3. Read.type = "daily_hours" => Read.hours # {} /\ Read.hours # 0..23
    BY <2>2, SoundForms
  <2>4. ASSUME Usable(Read), Read.type = "intervals"
        PROVE  [n \in DOMAIN Read.intervals |-> Bounds(Read.intervals[n])] = Sorted(Runs(Watched(Read)))
    <3>1. PICK v : v = Read.intervals /\ Normal(v) /\ Watched(Read) = Spoken(ToSet(v))
      BY <2>1, <2>4, AllWatched
    <3>2. Watched(Read) = Covered(Marks(v)) /\ Apart(Marks(v))
      BY <3>1, NormalSpeaks DEF Normal
    <3>3. Sorted(Runs(Watched(Read))) = Marks(v)
      BY <3>2, ApartAreRuns, SortedLists
    <3> QED
      BY <3>1, <3>3 DEF Marks
  <2> QED
    BY <2>3, <2>4 DEF OneSpellingPerMeaning, Runs
<1> QED
  BY <1>1, InputsTyped, PTL

\* A watch is over when no hour from today's midnight on is watched, and not before: all_dates_past
\* looks at the dates intervals end with only, and is right since none ends at hour 0.
THEOREM OverInTime == Spec => []OverWhenNothingIsLeft
<1>1. TypedInput => OverWhenNothingIsLeft
  <2>1. SUFFICES ASSUME input \in Inputs, Usable(Read), Read.type = "intervals", NEW today \in Dates
                 PROVE  AllDatesPast(Read, today) <=> \A k \in Watched(Read) : k < today * 24
    BY DEF OverWhenNothingIsLeft, TypedInput
  <2>2. PICK v : v = Read.intervals /\ Normal(v) /\ Watched(Read) = Spoken(ToSet(v))
    BY <2>1, AllWatched
  <2>3. AllDatesPast(Read, today) <=> \A i \in ToSet(v) : i.end_date < today
    BY <2>1, <2>2 DEF AllDatesPast
  <2>4. today \in Nat
    BY DatesAssumption
  <2>5. ASSUME \A i \in ToSet(v) : i.end_date < today, NEW k \in Spoken(ToSet(v))
        PROVE  k < today * 24
    <3>1. PICK i \in ToSet(v) : k < Bounds(i)[2] /\ k \in Nat
      BY DEF Spoken, Covers
    <3>2. i.end_date \in Nat /\ i.end_hour \in 1..24 /\ Bounds(i)[2] = i.end_date * 24 + i.end_hour
      BY <2>2, CanonicalForms
    <3>3. i.end_date < today
      BY <2>5
    <3> QED
      BY <2>4, <3>1, <3>2, <3>3
  <2>6. ASSUME \A k \in Spoken(ToSet(v)) : k < today * 24, NEW i \in ToSet(v)
        PROVE  i.end_date < today
    <3>1. /\ i.end_date \in Nat /\ i.end_hour \in 1..24 /\ Bounds(i)[1] < Bounds(i)[2]
          /\ Bounds(i)[2] = i.end_date * 24 + i.end_hour /\ Bounds(i)[1] \in Nat
      BY <2>2, CanonicalForms
    <3>2. PICK k \in Nat : k = Bounds(i)[2] - 1
      BY <3>1
    <3>3. k \in Spoken(ToSet(v))
      BY <3>1, <3>2 DEF Spoken, Covers
    <3>4. k < today * 24
      BY <2>6, <3>3
    <3> QED
      BY <2>4, <3>1, <3>2, <3>4
  <2> QED
    BY <2>2, <2>3, <2>5, <2>6
<1> QED
  BY <1>1, InputsTyped, PTL

-----------------------------------------------------------------------------
(* The range of a date.                                                    *)

\* The hours of date d in an interval that begins by d and ends on d or later: from First to End.
First(i, d) == IF d = i.start_date THEN i.start_hour ELSE 0
End(i, d) == IF d = i.end_date THEN i.end_hour ELSE 24

LEMMA OnDate ==
  ASSUME NEW v, Normal(v), NEW i \in ToSet(v), NEW d \in Nat
  PROVE  /\ i.start_date <= d /\ d <= i.end_date =>
              /\ First(i, d) \in 0..23 /\ End(i, d) \in 1..24 /\ First(i, d) < End(i, d)
              /\ \A h \in 0..23 : Covers(Bounds(i), d * 24 + h) <=> First(i, d) <= h /\ h < End(i, d)
         /\ ~(i.start_date <= d /\ d <= i.end_date) =>
              \A h \in 0..23 : ~Covers(Bounds(i), d * 24 + h)
<1>1. PICK sd \in Nat, ed \in Nat, sh \in 0..23, eh \in 1..24 :
        /\ sd = i.start_date /\ ed = i.end_date /\ sh = i.start_hour /\ eh = i.end_hour /\ sd <= ed
        /\ Bounds(i)[1] = sd * 24 + sh /\ Bounds(i)[2] = ed * 24 + eh
        /\ sd * 24 + sh < ed * 24 + eh
  <2>1. /\ i.start_date \in Nat /\ i.end_date \in Nat /\ i.start_date <= i.end_date
        /\ i.start_hour \in 0..23 /\ i.end_hour \in 1..24
        /\ Bounds(i)[1] = i.start_date * 24 + i.start_hour
        /\ Bounds(i)[2] = i.end_date * 24 + i.end_hour
        /\ Bounds(i)[1] < Bounds(i)[2]
    BY CanonicalForms
  <2>2. i.start_date * 24 + i.start_hour < i.end_date * 24 + i.end_hour
    BY <2>1
  <2> QED
    BY <2>1, <2>2
<1>2. \A h \in 0..23 : Covers(Bounds(i), d * 24 + h) <=>
                         sd * 24 + sh <= d * 24 + h /\ d * 24 + h < ed * 24 + eh
  BY <1>1 DEF Covers
<1>3. PICK f, e : f = First(i, d) /\ e = End(i, d)
  OBVIOUS
<1>4. f = (IF d = sd THEN sh ELSE 0) /\ e = (IF d = ed THEN eh ELSE 24)
  BY <1>1, <1>3 DEF First, End
<1>5. ASSUME sd <= d, d <= ed
      PROVE  /\ f \in 0..23 /\ e \in 1..24 /\ f < e
             /\ \A h \in 0..23 : sd * 24 + sh <= d * 24 + h /\ d * 24 + h < ed * 24 + eh
                                   <=> f <= h /\ h < e
  <2>1. f \in 0..23 /\ e \in 1..24
    BY <1>4
  <2>2. f < e
    BY <1>1, <1>4, <1>5
  <2>3. \A h \in 0..23 : sd * 24 + sh <= d * 24 + h <=> f <= h
    BY <1>4, <1>5
  <2>4. \A h \in 0..23 : d * 24 + h < ed * 24 + eh <=> h < e
    BY <1>4, <1>5
  <2> QED
    BY <2>1, <2>2, <2>3, <2>4
<1>6. ASSUME ~(sd <= d /\ d <= ed), NEW h \in 0..23
      PROVE  ~(sd * 24 + sh <= d * 24 + h /\ d * 24 + h < ed * 24 + eh)
  <2>1. CASE d < sd
    BY <2>1
  <2>2. CASE d > ed
    BY <2>2
  <2> QED
    BY <1>6, <2>1, <2>2
<1> QED
  BY <1>1, <1>2, <1>3, <1>5, <1>6

\* The hours of a date among those of intervals.
HoursIn(v, d) == {h \in 0..23 : d * 24 + h \in Spoken(ToSet(v))}

\* The range of a date goes from the first of its hours to the end of its last one.
LEMMA RangeIs ==
  ASSUME NEW v, Normal(v), NEW d \in Nat
  PROVE  HourRange(Intervals(v), d) =
           IF HoursIn(v, d) = {} THEN NoRange ELSE <<Min(HoursIn(v, d)), Max(HoursIn(v, d)) + 1>>
<1> DEFINE on == {i \in ToSet(v) : i.start_date <= d /\ d <= i.end_date}
           firsts == {First(i, d) : i \in on}
           ends == {End(i, d) : i \in on}
           hours == HoursIn(v, d)
<1>1. HourRange(Intervals(v), d) = IF on = {} THEN NoRange ELSE <<Min(firsts), Max(ends)>>
  BY DEF HourRange, Intervals, First, End
<1>2. \A h : h \in hours <=> h \in 0..23 /\ \E i \in on : First(i, d) <= h /\ h < End(i, d)
  <2>1. ASSUME NEW h \in 0..23
        PROVE  d * 24 + h \in Spoken(ToSet(v)) <=> \E i \in on : First(i, d) <= h /\ h < End(i, d)
    <3>1. d * 24 + h \in Spoken(ToSet(v)) <=> \E i \in ToSet(v) : Covers(Bounds(i), d * 24 + h)
      BY DEF Spoken
    <3>2. \A i \in ToSet(v) : Covers(Bounds(i), d * 24 + h) <=>
                                i \in on /\ First(i, d) <= h /\ h < End(i, d)
      BY OnDate
    <3> QED
      BY <3>1, <3>2
  <2> QED
    BY <2>1 DEF HoursIn
<1>3. \A i \in on : First(i, d) \in 0..23 /\ End(i, d) \in 1..24 /\ First(i, d) < End(i, d)
  BY OnDate
<1> HIDE DEF on, hours
<1>4. CASE on = {}
  BY <1>1, <1>2, <1>4 DEF hours
<1>5. CASE on # {}
  <2>1. firsts \subseteq Nat /\ firsts # {} /\ ends \subseteq Nat /\ ends # {}
        /\ \A e \in ends : e <= 24
    BY <1>3, <1>5
  <2>2. PICK f \in firsts : \A n \in firsts : f <= n
    BY <2>1, LeastOf
  <2>3. PICK e \in ends : \A n \in ends : n <= e
    BY <2>1, GreatestOf
  <2>4. PICK i \in on : f = First(i, d)
    BY <2>2
  <2>5. PICK j \in on : e = End(j, d)
    BY <2>3
  <2>6. f \in 0..23 /\ e \in 1..24
    BY <1>3, <2>4, <2>5
  <2>7. f \in hours /\ e - 1 \in hours
    <3>1. f \in hours
      BY <1>2, <1>3, <2>4, <2>6
    <3>2. e - 1 \in 0..23 /\ First(j, d) <= e - 1 /\ e - 1 < End(j, d)
      BY <1>3, <2>5, <2>6
    <3> QED
      BY <1>2, <3>1, <3>2
  <2>8. \A h \in hours : h \in 0..23 /\ f <= h /\ h <= e - 1
    <3>1. SUFFICES ASSUME NEW h \in hours PROVE h \in 0..23 /\ f <= h /\ h <= e - 1
      OBVIOUS
    <3>2. PICK k \in on : First(k, d) <= h /\ h < End(k, d)
      BY <1>2
    <3>3. f <= First(k, d) /\ End(k, d) <= e
      BY <2>2, <2>3
    <3>4. h \in 0..23 /\ First(k, d) \in 0..23 /\ End(k, d) \in 1..24
      BY <1>2, <1>3
    <3> QED
      BY <2>6, <3>2, <3>3, <3>4
  <2>9. hours \subseteq Int
    BY <2>8
  <2>10. Min(hours) = f /\ Max(hours) = e - 1
    BY <2>7, <2>8, <2>9, MinIs, MaxIs
  <2>11. Min(firsts) = f /\ Max(ends) = e
    BY <2>1, <2>2, <2>3, MinIs, MaxIs
  <2>12. e - 1 + 1 = e
    BY <2>6
  <2> QED
    BY <1>1, <1>5, <2>7, <2>10, <2>11, <2>12 DEF hours
<1> QED
  BY <1>4, <1>5

LEMMA HourOfBucket ==
  ASSUME NEW d \in Nat, NEW h \in 0..23
  PROVE  d * 24 + h \in Nat /\ (d * 24 + h) % 24 = h /\ (d * 24 + h) \div 24 = d
  OBVIOUS

\* The range TimeSpec::hour_range gives for a date begins and ends with hours watched and holds all
\* that are watched: Gofer is asked for no date that has none, and misses no show of a date that has.
THEOREM RangesHoldAll == Spec => []RangeHoldsWatchedHours
<1>1. TypedInput => RangeHoldsWatchedHours
  <2>1. SUFFICES ASSUME input \in Inputs, Usable(Read), Read.type # "all", NEW d \in 0..(Max(Dates) + 1)
                 PROVE  LET hours == {h \in 0..23 : d * 24 + h \in Watched(Read)}
                        IN HourRange(Read, d) =
                             IF hours = {} THEN NoRange ELSE <<Min(hours), Max(hours) + 1>>
    BY DEF RangeHoldsWatchedHours, TypedInput
  <2>2. Sound(Read) /\ Read # Rejected
    BY <2>1, ReadSound, UsableRead
  <2>3. PICK D \in Nat : D = Max(Dates)
    BY LastDate
  <2>4. d \in Nat /\ d <= D + 1
    BY <2>3
  <2> DEFINE hours == {h \in 0..23 : d * 24 + h \in Watched(Read)}
  <2>5. CASE Read.type = "daily_hours"
    <3>1. PICK H : H = Read.hours /\ H \subseteq 0..23 /\ H # {} /\ Read = Daily(H)
      BY <2>2, <2>5, SoundForms
    <3>2. ASSUME NEW h \in 0..23
          PROVE  d * 24 + h \in Watched(Read) <=> h \in H
      <4>1. PICK k \in Nat : k = d * 24 + h /\ k % 24 = h
        BY <2>4, HourOfBucket
      <4>2. k < (D + 2) * 24
        BY <2>4, <4>1
      <4>3. k \in Window
        BY <2>3, <4>2, LastDate
      <4>4. k \in Watched(Read) <=> Selects(Read, k)
        BY <2>1, <2>2, <4>3, WatchedAre
      <4>5. Selects(Read, k) <=> k % 24 \in H
        BY <2>5, <3>1 DEF Selects
      <4> QED
        BY <4>1, <4>4, <4>5
    <3>3. hours = H
      BY <3>1, <3>2
    <3>4. HourRange(Read, d) = <<Min(H), Max(H) + 1>>
      BY <3>1 DEF HourRange, Daily
    <3> QED
      BY <3>1, <3>3, <3>4
  <2>6. CASE Read.type = "intervals"
    <3>1. PICK v : v = Read.intervals /\ Normal(v) /\ Watched(Read) = Spoken(ToSet(v)) /\ Read = Intervals(v)
      BY <2>1, <2>2, <2>6, AllWatched, SoundForms
    <3>2. hours = HoursIn(v, d)
      BY <3>1 DEF HoursIn
    <3> QED
      BY <2>4, <3>1, <3>2, RangeIs
  <2>7. Read.type \in {"daily_hours", "intervals"}
    BY <2>1, <2>2, SoundForms
  <2> QED
    BY <2>5, <2>6, <2>7
<1> QED
  BY <1>1, InputsTyped, PTL

-----------------------------------------------------------------------------
(* Back to rules.                                                          *)

\* The members of a finite set as a sequence.
LEMMA SetsAsSequences ==
  ASSUME NEW S, IsFiniteSet(S)
  PROVE  SetToSeq(S) \in Seq(S) /\ ToSet(SetToSeq(S)) = S
<1>1. PICK N \in Nat : N = Cardinality(S)
  BY FS_CardinalityType
<1>2. PICK f \in Bijection(1..N, S) : TRUE
  BY <1>1, FS_CountingElements, FS_NatBijection DEF ExistsBijection
<1>3. f \in [1..N -> S] /\ IsInjective(f)
  BY <1>2 DEF Bijection, Injection, IsInjective
<1>4. PICK s : s = SetToSeq(S)
  OBVIOUS
<1>5. s \in [1..N -> S] /\ IsInjective(s)
  BY <1>1, <1>3, <1>4 DEF SetToSeq
<1>6. s \in Injection(1..N, S)
  BY <1>5 DEF Injection
<1>7. Cardinality(1..N) = N /\ IsFiniteSet(1..N)
  BY FS_Interval
<1>8. s \in Surjection(1..N, S)
  BY <1>1, <1>6, <1>7, FS_CardinalityType, FS_Injection
<1>9. \A x \in S : \E n \in 1..N : s[n] = x
  BY <1>8 DEF Surjection
<1>10. s \in Seq(S)
  BY <1>5
<1>11. ToSet(s) = S
  BY <1>5, <1>9 DEF ToSet
<1> QED
  BY <1>4, <1>10, <1>11

LEMMA PartsOfBucket ==
  ASSUME NEW k \in Nat
  PROVE  k \div 24 \in Nat /\ k % 24 \in 0..23 /\ k = (k \div 24) * 24 + (k % 24)
  OBVIOUS

\* A TimeSpec is known by its hours, once it is known to be intervals or not.
LEMMA SoundOnce ==
  ASSUME NEW s, NEW t, Sound(s), Sound(t), s # Rejected, t # Rejected,
         s.type = "intervals" <=> t.type = "intervals",
         \A k \in Nat : Selects(s, k) <=> Selects(t, k)
  PROVE  s = t
<1>1. CASE s.type = "intervals"
  <2>1. PICK v : v = s.intervals /\ Normal(v) /\ s = Intervals(v)
    BY <1>1, SoundForms
  <2>2. PICK w : w = t.intervals /\ Normal(w) /\ t = Intervals(w)
    BY <1>1, SoundForms
  <2>3. \A k \in Nat : k \in Spoken(ToSet(v)) <=> k \in Spoken(ToSet(w))
    BY <1>1, <2>1, <2>2 DEF Selects
  <2>4. Spoken(ToSet(v)) = Spoken(ToSet(w))
    BY <2>3 DEF Spoken
  <2> QED
    BY <2>1, <2>2, <2>4, NormalOnce
<1>2. CASE s.type # "intervals"
  <2> DEFINE HoursOf(x) == {h \in 0..23 : Selects(x, h)}
  <2>1. HoursOf(s) = HoursOf(t)
    OBVIOUS
  <2>2. \A h \in 0..23 : h % 24 = h
    OBVIOUS
  <2>3. HoursOf(AllHours) = 0..23
    BY DEF Selects, AllHours
  <2>4. \A H \in SUBSET (0..23) : HoursOf(Daily(H)) = H
    BY <2>2 DEF Selects, Daily
  <2>5. \/ s = AllHours
        \/ \E H \in SUBSET (0..23) : H # {} /\ H # 0..23 /\ s = Daily(H)
    BY <1>2 DEF Sound, Intervals
  <2>6. \/ t = AllHours
        \/ \E H \in SUBSET (0..23) : H # {} /\ H # 0..23 /\ t = Daily(H)
    BY <1>2 DEF Sound, Intervals
  <2> HIDE DEF HoursOf
  <2> QED
    BY <2>1, <2>3, <2>4, <2>5, <2>6
<1> QED
  BY <1>1, <1>2

\* Rules that can be read, all dated or all daily, and speak of the hours of spec, become spec.
LEMMA RulesBack ==
  ASSUME NEW spec, Sound(spec), spec # Rejected, spec.type # "all",
         NEW W, IsFiniteSet(W), W \subseteq AnyRule, W # {},
         \A r \in W : Readable(r) /\
           IF spec.type = "intervals" THEN r.rule \in {"day", "dated"} ELSE r.rule = "daily",
         \A k \in Nat : Selects(spec, k) <=> \E r \in W : Says(r, k)
  PROVE  Parse(SetToSeq(W)) = spec
<1>1. PICK rules : rules = SetToSeq(W) /\ rules \in Seq(W) /\ ToSet(rules) = W
  BY SetsAsSequences
<1>2. rules \in Seq(AnyRule)
  BY <1>1
<1>3. rules # <<>>
  BY <1>1 DEF ToSet
<1>4. /\ Parse(rules).type # "rejected"
      /\ Parse(rules).type = "intervals" <=> spec.type = "intervals"
  <2>1. CASE spec.type = "intervals"
    <3>1. Parse(rules).type = "intervals"
      BY <1>1, <1>2, <1>3, <2>1, ParseKinds
    <3> QED
      BY <2>1, <3>1
  <2>2. CASE spec.type # "intervals"
    <3>1. Parse(rules).type \in {"all", "daily_hours"}
      BY <1>1, <1>2, <1>3, <2>2, ParseKinds
    <3> QED
      BY <2>2, <3>1
  <2> QED
    BY <2>1, <2>2
<1>5. PICK t : t = Parse(rules) /\ Sound(t) /\ t # Rejected
  BY <1>2, <1>4, ParseMeans DEF Rejected
<1>6. \A k \in Nat : Selects(t, k) <=> \E r \in W : Says(r, k)
  BY <1>1, <1>2, <1>3, <1>5, ParseMeans
<1>7. t = spec
  BY <1>4, <1>5, <1>6, SoundOnce
<1> QED
  BY <1>1, <1>5, <1>7

\* Hours are in the longest run around them.
LEMMA RunAround ==
  ASSUME NEW H, H \subseteq 0..23, NEW h \in H
  PROVE  \E s \in 0..23, e \in 1..24 :
           s <= h /\ h < e /\ s..(e - 1) \subseteq H /\ s - 1 \notin H /\ e \notin H
<1> DEFINE starts == {s \in 0..h : s..h \subseteq H}
           ends == {e \in 0..24 : h < e /\ h..(e - 1) \subseteq H}
<1>1. h \in 0..23
  OBVIOUS
<1>2. starts \subseteq Nat /\ h \in starts
  BY <1>1
<1>3. ends \subseteq Nat /\ h + 1 \in ends /\ \A e \in ends : e <= 24
  BY <1>1
<1>4. PICK s \in starts : \A n \in starts : s <= n
  BY <1>2, LeastOf
<1>5. PICK e \in ends : \A n \in ends : n <= e
  BY <1>3, GreatestOf
<1>6. /\ s \in 0..23 /\ s <= h /\ s..h \subseteq H
      /\ e \in 1..24 /\ h < e /\ h..(e - 1) \subseteq H
  BY <1>1
<1>7. s..(e - 1) \subseteq H
  BY <1>1, <1>6
<1>8. s - 1 \notin H
  <2>1. SUFFICES ASSUME s - 1 \in H PROVE FALSE
    OBVIOUS
  <2>2. s - 1 \in 0..h
    BY <1>1, <1>6, <2>1
  <2>3. (s - 1)..h \subseteq H
    BY <1>1, <1>6, <2>1
  <2>4. s - 1 \in starts
    BY <2>2, <2>3
  <2> QED
    BY <1>4, <1>6, <2>4
<1>9. e \notin H
  <2>1. SUFFICES ASSUME e \in H PROVE FALSE
    OBVIOUS
  <2>2. e + 1 \in 0..24 /\ h < e + 1
    BY <1>1, <1>6, <2>1
  <2>3. h..((e + 1) - 1) \subseteq H
    BY <1>1, <1>6, <2>1
  <2>4. e + 1 \in ends
    BY <2>2, <2>3
  <2> QED
    BY <1>5, <1>6, <2>4
<1> QED
  BY <1>6, <1>7, <1>8, <1>9

DailyRun(s, e) == [rule |-> "daily", from |-> s, to |-> e]

LEMMA RunForms ==
  ASSUME NEW s \in Nat, NEW e \in Nat
  PROVE  /\ DailyRun(s, e) \in AnyRule
         /\ DailyRun(s, e).rule = "daily" /\ DailyRun(s, e).from = s /\ DailyRun(s, e).to = e
  BY DEF DailyRun, AnyRule

\* A daily rule read back from its runs.
LEMMA DailyBack ==
  ASSUME NEW spec, Sound(spec), spec.type = "daily_hours"
  PROVE  Parse(ToInput(spec)) = spec
<1>1. PICK H : H = spec.hours /\ H \subseteq 0..23 /\ H # {} /\ spec = Daily(H)
  BY SoundForms
<1> DEFINE runs == {DailyRun(s, e) : s \in 0..23, e \in 1..24}
           Whole(r) == /\ r.from < r.to /\ r.from..(r.to - 1) \subseteq H
                       /\ r.from - 1 \notin H /\ r.to \notin H
           W == {r \in runs : Whole(r)}
<1>2. ToInput(spec) = SetToSeq(W)
  BY <1>1 DEF ToInput, Daily, DailyRun
<1>3. IsFiniteSet(W)
  <2>1. IsFiniteSet(0..23) /\ IsFiniteSet(1..24)
    <3>1. \A a, b \in Int : IsFiniteSet(a..b)
      BY FS_Interval
    <3>2. 0 \in Int /\ 1 \in Int /\ 23 \in Int /\ 24 \in Int
      OBVIOUS
    <3> QED
      BY <3>1, <3>2, Zenon
  <2>2. IsFiniteSet((0..23) \X (1..24))
    BY <2>1, FS_Product
  <2> DEFINE f == [p \in (0..23) \X (1..24) |-> DailyRun(p[1], p[2])]
  <2>3. f \in Surjection((0..23) \X (1..24), runs)
    <3>1. \A p \in (0..23) \X (1..24) : f[p] \in runs
      OBVIOUS
    <3>2. ASSUME NEW r \in runs
          PROVE  \E p \in (0..23) \X (1..24) : f[p] = r
      <4>1. PICK s \in 0..23, e \in 1..24 : r = DailyRun(s, e)
        OBVIOUS
      <4>2. <<s, e>> \in (0..23) \X (1..24) /\ f[<<s, e>>] = r
        BY <4>1
      <4> QED
        BY <4>2
    <3>3. f = [p \in (0..23) \X (1..24) |-> f[p]]
      OBVIOUS
    <3> HIDE DEF f, runs
    <3> QED
      BY <3>1, <3>2, <3>3 DEF Surjection
  <2>4. IsFiniteSet(runs)
    <3> HIDE DEF f, runs
    <3> QED
      BY <2>2, <2>3, FS_Surjection
  <2> HIDE DEF runs
  <2> QED
    BY <2>4, FS_Subset
<1>4. ASSUME NEW r \in W
      PROVE  /\ r \in AnyRule /\ r.rule = "daily" /\ Readable(r)
             /\ \A k \in Nat : Says(r, k) <=> k % 24 \in r.from..(r.to - 1)
             /\ r.from..(r.to - 1) \subseteq H
  <2>1. PICK s \in 0..23, e \in 1..24 : r = DailyRun(s, e)
    OBVIOUS
  <2>2. r.rule = "daily" /\ r.from = s /\ r.to = e /\ s < e /\ s..(e - 1) \subseteq H
    <3>1. r.rule = "daily" /\ r.from = s /\ r.to = e /\ Whole(r)
      BY <2>1, RunForms
    <3> QED
      BY <3>1
  <2>3. r \in AnyRule
    <3>1. s \in Nat /\ e \in Nat
      OBVIOUS
    <3>2. DailyRun(s, e) \in AnyRule
      BY <3>1, RunForms
    <3> QED
      BY <2>1, <3>2
  <2>4. Readable(r)
    BY <2>2 DEF Readable, GoodRange
  <2>5. DailyHours(r) = s..(e - 1)
    BY <2>2 DEF DailyHours
  <2> QED
    BY <2>2, <2>3, <2>4, <2>5, DailyMeans
<1>5. ASSUME NEW h \in H
      PROVE  \E r \in W : h \in r.from..(r.to - 1)
  <2>1. PICK s \in 0..23, e \in 1..24 :
          s <= h /\ h < e /\ s..(e - 1) \subseteq H /\ s - 1 \notin H /\ e \notin H
    BY <1>1, RunAround
  <2>2. h \in Int
    BY <1>1
  <2>3. PICK r : r = DailyRun(s, e)
    OBVIOUS
  <2>4. r \in runs /\ r.from = s /\ r.to = e
    BY <2>3, RunForms
  <2>5. s < e
    BY <2>1, <2>2
  <2>6. Whole(r)
    BY <2>1, <2>4, <2>5
  <2>7. h \in s..(e - 1)
    BY <2>1, <2>2
  <2> QED
    BY <2>4, <2>6, <2>7
<1>6. W # {} /\ W \subseteq AnyRule
  <2> HIDE DEF W
  <2> QED
    BY <1>1, <1>4, <1>5
<1>7. ASSUME NEW k \in Nat
      PROVE  Selects(spec, k) <=> \E r \in W : Says(r, k)
  <2>1. Selects(spec, k) <=> k % 24 \in H
    BY <1>1 DEF Selects, Daily
  <2> HIDE DEF W
  <2> QED
    BY <1>4, <1>5, <2>1
<1>8. spec # Rejected
  BY SoundForms
<1> HIDE DEF W
<1> QED
  BY <1>2, <1>3, <1>4, <1>6, <1>7, <1>8, RulesBack

\* The rule of a date and a run of its hours speaks of just these.
LEMMA RuleOfRun ==
  ASSUME NEW d \in Nat, NEW from \in 0..23, NEW to \in 1..24, from < to,
         NEW r, r = AsRule(d, <<from, to>>)
  PROVE  /\ r \in AnyRule /\ r.rule \in {"day", "dated"} /\ Readable(r)
         /\ \A k \in Nat : Says(r, k) <=> k \div 24 = d /\ from <= k % 24 /\ k % 24 < to
<1>1. <<from, to>> = <<0, 24>> <=> from = 0 /\ to = 24
  OBVIOUS
<1>2. CASE from = 0 /\ to = 24
  <2>1. r = [rule |-> "day", date |-> d]
    BY <1>1, <1>2 DEF AsRule
  <2>2. r \in AnyRule /\ r.rule = "day" /\ r.date = d
    BY <2>1 DEF AnyRule
  <2>3. \A k \in Nat : Says(r, k) <=> k \div 24 = d
    BY <2>2 DEF Says
  <2>4. \A k \in Nat : 0 <= k % 24 /\ k % 24 < 24
    BY PartsOfBucket
  <2>5. Readable(r)
    BY <2>2 DEF Readable
  <2> QED
    BY <1>2, <2>2, <2>3, <2>4, <2>5
<1>3. CASE ~(from = 0 /\ to = 24)
  <2>1. r = [rule |-> "dated", date |-> d, from |-> from, to |-> to]
    BY <1>1, <1>3 DEF AsRule
  <2>2. r \in AnyRule /\ r.rule = "dated" /\ r.date = d /\ r.from = from /\ r.to = to
    BY <2>1 DEF AnyRule
  <2>3. Readable(r)
    BY <2>2 DEF Readable, GoodRange
  <2>4. Length(r) = to - from
    BY <2>2 DEF Length
  <2>5. ASSUME NEW k \in Nat
        PROVE  Says(r, k) <=> k \div 24 = d /\ from <= k % 24 /\ k % 24 < to
    <3>1. Says(r, k) <=> k - (d * 24 + from) \in 0..((to - from) - 1)
      BY <2>2, <2>4 DEF Says
    <3>2. PICK q \in Nat, h \in 0..23 : q = k \div 24 /\ h = k % 24 /\ k = q * 24 + h
      BY PartsOfBucket
    <3>3. Says(r, k) <=> d * 24 + from <= q * 24 + h /\ q * 24 + h < d * 24 + to
      BY <3>1, <3>2
    <3>4. d * 24 + from <= q * 24 + h /\ q * 24 + h < d * 24 + to <=> q = d /\ from <= h /\ h < to
      <4>1. CASE q = d
        BY <4>1
      <4>2. CASE q < d
        BY <4>2
      <4>3. CASE q > d
        BY <4>3
      <4> QED
        BY <4>1, <4>2, <4>3
    <3> QED
      BY <3>2, <3>3, <3>4
  <2> QED
    BY <2>2, <2>3, <2>5
<1> QED
  BY <1>2, <1>3

\* Intervals read back from the ranges of their dates, when the hours of each date are one run.
LEMMA IntervalsBack ==
  ASSUME NEW v, Normal(v), v # <<>>, NEW last \in Nat, \A i \in ToSet(v) : i.end_date <= last,
         \A d \in 0..last : OneRun(HoursIn(v, d))
  PROVE  Parse(ToInput(Intervals(v))) = Intervals(v)
<1> DEFINE spec == Intervals(v)
           dates == UNION {i.start_date..i.end_date : i \in ToSet(v)}
           Rule(d) == AsRule(d, HourRange(spec, d))
           W == {Rule(d) : d \in dates}
<1>1. ToInput(spec) = SetToSeq(W)
  BY DEF ToInput, Intervals
<1>2. \A d : d \in dates <=> d \in Nat /\ \E i \in ToSet(v) : i.start_date <= d /\ d <= i.end_date
  <2>1. \A i \in ToSet(v) : i.start_date \in Nat /\ i.end_date \in Nat
    BY CanonicalForms
  <2> QED
    BY <2>1
<1>3. dates \subseteq 0..last
  <2>1. \A i \in ToSet(v) : i.end_date \in Nat /\ i.end_date <= last
    BY CanonicalForms
  <2> HIDE DEF dates
  <2>2. ASSUME NEW d \in dates PROVE d \in 0..last
    <3>1. PICK i \in ToSet(v) : d \in Nat /\ d <= i.end_date
      BY <1>2
    <3> QED
      BY <2>1, <3>1
  <2> QED
    BY <2>2
<1> HIDE DEF dates
<1>4. IsFiniteSet(W)
  <2>1. IsFiniteSet(0..last)
    BY FS_Interval
  <2>2. IsFiniteSet(dates)
    BY <1>3, <2>1, FS_Subset
  <2> DEFINE f == [d \in dates |-> Rule(d)]
  <2>3. f \in Surjection(dates, W)
    BY DEF Surjection
  <2> HIDE DEF f, W
  <2> QED
    BY <2>2, <2>3, FS_Surjection
<1>5. ASSUME NEW d \in dates
      PROVE  /\ Rule(d) \in AnyRule /\ Rule(d).rule \in {"day", "dated"} /\ Readable(Rule(d))
             /\ \A k \in Nat : Says(Rule(d), k) <=> k \div 24 = d /\ k % 24 \in HoursIn(v, d)
  <2>1. d \in Nat /\ OneRun(HoursIn(v, d))
    BY <1>2, <1>3
  <2>2. PICK H : H = HoursIn(v, d) /\ H \subseteq 0..23 /\ OneRun(H)
    BY <2>1 DEF HoursIn
  <2>3. H # {}
    <3>1. PICK i \in ToSet(v) : i.start_date <= d /\ d <= i.end_date
      BY <1>2
    <3>2. PICK h \in 0..23 : h = First(i, d) /\ Covers(Bounds(i), d * 24 + h)
      <4>1. First(i, d) \in 0..23 /\ Covers(Bounds(i), d * 24 + First(i, d))
        <5>1. /\ First(i, d) \in 0..23 /\ End(i, d) \in 1..24 /\ First(i, d) < End(i, d)
              /\ \A h \in 0..23 : Covers(Bounds(i), d * 24 + h) <=> First(i, d) <= h /\ h < End(i, d)
          BY <2>1, <3>1, OnDate
        <5> QED
          BY <5>1
      <4> QED
        BY <4>1
    <3>3. d * 24 + h \in Nat
      BY <2>1, HourOfBucket
    <3>4. h \in HoursIn(v, d)
      BY <3>2, <3>3 DEF HoursIn, Spoken
    <3> QED
      BY <2>2, <3>4
  <2>4. H \subseteq Nat /\ \A h \in H : h <= 23
    BY <2>2
  <2>5. PICK lo \in H : \A h \in H : lo <= h
    BY <2>3, <2>4, LeastOf
  <2>6. PICK hi \in H : \A h \in H : h <= hi
    BY <2>3, <2>4, GreatestOf
  <2>7. H \subseteq Int
    BY <2>4
  <2>8. Min(H) = lo /\ Max(H) = hi
    BY <2>5, <2>6, <2>7, MinIs, MaxIs
  <2>9. HourRange(spec, d) = <<lo, hi + 1>>
    BY <2>1, <2>2, <2>3, <2>8, RangeIs
  <2>10. lo \in 0..23 /\ hi + 1 \in 1..24 /\ lo < hi + 1
    <3>1. lo \in 0..23 /\ hi \in 0..23 /\ lo <= hi
      BY <2>2, <2>6
    <3> HIDE DEF W
    <3> QED
      BY <3>1
  <2>11. PICK r : r = Rule(d) /\ r = AsRule(d, <<lo, hi + 1>>)
    BY <2>9
  <2>12. /\ r \in AnyRule /\ r.rule \in {"day", "dated"} /\ Readable(r)
         /\ \A k \in Nat : Says(r, k) <=> k \div 24 = d /\ lo <= k % 24 /\ k % 24 < hi + 1
    BY <2>1, <2>10, <2>11, RuleOfRun
  <2>13. \A h \in 0..23 : lo <= h /\ h < hi + 1 <=> h \in H
    <3>1. lo..hi \subseteq H
      BY <2>2, <2>5, <2>6 DEF OneRun
    <3> QED
      BY <2>2, <2>5, <2>6, <2>10, <3>1
  <2>14. \A k \in Nat : lo <= k % 24 /\ k % 24 < hi + 1 <=> k % 24 \in H
    BY <2>13, PartsOfBucket
  <2> QED
    BY <2>2, <2>11, <2>12, <2>14
<1>6. ASSUME NEW k \in Nat
      PROVE  Selects(spec, k) <=> \E d \in dates : k \div 24 = d /\ k % 24 \in HoursIn(v, d)
  <2>1. PICK q \in Nat, h \in 0..23 : q = k \div 24 /\ h = k % 24 /\ k = q * 24 + h
    BY PartsOfBucket
  <2>2. Selects(spec, k) <=> k \in Spoken(ToSet(v))
    BY DEF Selects, Intervals
  <2>3. k \in Spoken(ToSet(v)) <=> h \in HoursIn(v, q)
    BY <2>1 DEF HoursIn
  <2>4. k \in Spoken(ToSet(v)) => q \in dates
    <3>1. SUFFICES ASSUME k \in Spoken(ToSet(v)) PROVE q \in dates
      OBVIOUS
    <3>2. PICK i \in ToSet(v) : Covers(Bounds(i), q * 24 + h)
      BY <2>1, <3>1 DEF Spoken
    <3>3. i.start_date <= q /\ q <= i.end_date
      BY <3>2, OnDate
    <3> QED
      BY <1>2, <3>3
  <2> QED
    BY <2>1, <2>2, <2>3, <2>4
<1>7. dates # {}
  <2>1. PICK i \in ToSet(v) : TRUE
    <3>1. v \in Seq(AnyInterval)
      BY DEF Normal
    <3>2. 1 \in DOMAIN v
      BY <3>1
    <3> QED
      BY <3>2 DEF ToSet
  <2>2. i.start_date \in Nat /\ i.end_date \in Nat /\ i.start_date <= i.end_date
    BY <2>1, CanonicalForms
  <2> QED
    BY <1>2, <2>1, <2>2
<1>8. Sound(spec) /\ spec # Rejected /\ spec.type = "intervals"
  BY DEF Sound, Intervals, Rejected
<1> HIDE DEF spec, Rule
<1>9. W # {} /\ W \subseteq AnyRule /\ \A r \in W : r.rule \in {"day", "dated"} /\ Readable(r)
  BY <1>5, <1>7
<1>10. \A k \in Nat : Selects(spec, k) <=> \E r \in W : Says(r, k)
  BY <1>5, <1>6
<1> HIDE DEF W
<1>11. Parse(SetToSeq(W)) = spec
  BY <1>4, <1>8, <1>9, <1>10, RulesBack
<1> QED
  BY <1>1, <1>11 DEF spec

\* Opening the edit form of a watch and saving it unchanged changes nothing: parse gives back the
\* TimeSpec to_input wrote as text, as long as the hours of each date are one run.
THEOREM TextGivesItBack == Spec => []TextMeansTheSame
<1>1. TypedInput => TextMeansTheSame
  <2> DEFINE HoursOf(d) == {k % 24 : k \in {j \in Watched(Read) : j \div 24 = d}}
  <2>1. SUFFICES ASSUME input \in Inputs, Usable(Read),
                        Read.type = "intervals" => \A d \in 0..(Max(Dates) + 1) : OneRun(HoursOf(d))
                 PROVE  Parse(ToInput(Read)) = Read
    BY DEF TextMeansTheSame, TypedInput
  <2>2. Sound(Read) /\ Read # Rejected
    BY <2>1, ReadSound, UsableRead
  <2>3. CASE Read.type = "all"
    <3>1. Read = AllHours
      BY <2>2, <2>3, SoundForms
    <3>2. ToInput(Read) = <<>>
      BY <2>3 DEF ToInput
    <3>3. Parse(<<>>) = AllHours
      BY DEF Parse, ToSet
    <3> QED
      BY <3>1, <3>2, <3>3
  <2>4. CASE Read.type = "daily_hours"
    BY <2>2, <2>4, DailyBack
  <2>5. CASE Read.type = "intervals"
    <3>1. PICK v : /\ v = Read.intervals /\ Normal(v) /\ v # <<>> /\ Watched(Read) = Spoken(ToSet(v))
                   /\ Read = Intervals(v)
      BY <2>1, <2>2, <2>5, AllWatched, SoundForms
    <3>2. PICK last \in Nat : last = Max(Dates) + 1
      BY LastDate
    <3>3. \A i \in ToSet(v) : i.end_date <= last
      BY <2>1, <2>5, <3>1, <3>2, ReadWithin
    <3>4. ASSUME NEW d \in 0..last
          PROVE  HoursOf(d) = HoursIn(v, d)
      <4>1. ASSUME NEW k \in Watched(Read), k \div 24 = d
            PROVE  k % 24 \in HoursIn(v, d)
        <5>1. k \in Nat /\ k \in Spoken(ToSet(v))
          BY <3>1, <4>1 DEF Spoken
        <5> QED
          BY <4>1, <5>1, PartsOfBucket DEF HoursIn
      <4>2. ASSUME NEW h \in HoursIn(v, d)
            PROVE  \E k \in Watched(Read) : k \div 24 = d /\ k % 24 = h
        <5>1. h \in 0..23 /\ d * 24 + h \in Watched(Read)
          BY <3>1, <4>2 DEF HoursIn
        <5> QED
          BY <5>1, HourOfBucket
      <4> QED
        BY <4>1, <4>2
    <3>5. \A d \in 0..last : OneRun(HoursIn(v, d))
      BY <2>1, <2>5, <3>2, <3>4
    <3> QED
      BY <3>1, <3>3, <3>5, IntervalsBack
  <2> QED
    BY <2>2, <2>3, <2>4, <2>5, SoundForms
<1> QED
  BY <1>1, InputsTyped, PTL
=============================================================================
