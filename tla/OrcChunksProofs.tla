-------------------------- MODULE OrcChunksProofs --------------------------
(***************************************************************************)
(* The chunked ORC reader returns the rows asked for, each once and in       *)
(* order.                                                                   *)
(***************************************************************************)
EXTENDS OrcChunks, WellFoundedInduction, SequenceTheorems, TLAPS

(***************************************************************************)
(* Numbers in a set, loops, sums and searches.                              *)
(***************************************************************************)
LEMMA ALeast ==
  ASSUME NEW S, S \subseteq Nat, S # {}
  PROVE  \E n \in S : \A m \in S : ~(m < n)
  <1>1. \E n \in S : \A m \in S : ~(<<m, n>> \in OpToRel(<, Nat))
    BY NatLessThanWellFounded, WFMin
  <1>2. PICK n \in S : \A m \in S : ~(<<m, n>> \in OpToRel(<, Nat))
    BY <1>1
  <1> QED BY <1>2 DEF OpToRel

\* What holds of 0 and goes from each number to the next holds of all up to n.
LEMMA Stepwise ==
  ASSUME NEW n \in Nat, NEW S, 0 \in S, \A i \in 1 .. n : i - 1 \in S => i \in S
  PROVE  \A i \in 0 .. n : i \in S
  <1> DEFINE Bad == {i \in 0 .. n : i \notin S}
  <1> SUFFICES ASSUME Bad # {} PROVE FALSE OBVIOUS
  <1>1. PICK i \in Bad : \A j \in Bad : ~(j < i)
    <2>1. Bad \subseteq Nat OBVIOUS
    <2> QED BY <2>1, ALeast
  <1>2. i \in 1 .. n /\ i - 1 \in 0 .. n /\ i - 1 < i BY <1>1
  <1> QED BY <1>1, <1>2

\* A loop of n rounds that starts with a.
Loops(n, a, T, f) == f[0] = a /\ \A i \in 1 .. n : f[i] = T[i][f[i - 1]]

\* A loop over 1 .. n with a step function for each round has a solution.
LEMMA LoopsRun ==
  ASSUME NEW n \in Nat, NEW D, NEW a \in D, NEW T \in [1 .. n -> [D -> D]]
  PROVE  \E f \in [0 .. n -> D] : Loops(n, a, T, f)
  <1> DEFINE S == {m \in 0 .. n : \E f \in [0 .. m -> D] : Loops(m, a, T, f)}
  <1>1. 0 \in S
    <2>1. [i \in 0 .. 0 |-> a] \in [0 .. 0 -> D] /\ Loops(0, a, T, [i \in 0 .. 0 |-> a])
      BY DEF Loops
    <2> QED BY <2>1
  <1>2. ASSUME NEW m \in 1 .. n, m - 1 \in S PROVE m \in S
    <2>1. PICK f \in [0 .. m - 1 -> D] : Loops(m - 1, a, T, f) BY <1>2
    <2> DEFINE g == [i \in 0 .. m |-> IF i = m THEN T[m][f[m - 1]] ELSE f[i]]
    <2>2. m - 1 \in 0 .. m - 1 /\ T[m] \in [D -> D] OBVIOUS
    <2>3. T[m][f[m - 1]] \in D BY <2>1, <2>2
    <2>4. g \in [0 .. m -> D]
      <3>1. ASSUME NEW i \in 0 .. m PROVE g[i] \in D
        <4>1. CASE i = m BY <2>3, <4>1
        <4>2. CASE i # m
          <5>1. i \in 0 .. m - 1 BY <4>2
          <5> QED BY <2>1, <4>2, <5>1
        <4> QED BY <4>1, <4>2
      <3> QED BY <3>1
    <2>5. ASSUME NEW i \in 1 .. m PROVE g[i] = T[i][g[i - 1]]
      <3>1. i - 1 # m /\ i - 1 \in 0 .. m /\ g[i - 1] = f[i - 1] OBVIOUS
      <3>2. CASE i = m BY <3>1, <3>2
      <3>3. CASE i # m
        <4>1. i \in 1 .. m - 1 /\ g[i] = f[i] BY <3>3
        <4> QED BY <2>1, <3>1, <4>1 DEF Loops
      <3> QED BY <3>2, <3>3
    <2>6. g[0] = a BY <2>1 DEF Loops
    <2>7. Loops(m, a, T, g)
      <3> HIDE DEF g
      <3> QED BY <2>5, <2>6 DEF Loops
    <2> QED BY <2>4, <2>7
  <1>3. n \in S
    <2> HIDE DEF S
    <2>1. \A i \in 0 .. n : i \in S BY <1>1, <1>2, Stepwise
    <2> QED BY <2>1
  <1> QED BY <1>3

\* The function that SumUpTo chooses.
Adding(s, n, g) == g = [i \in 0 .. n |-> IF i = 0 THEN 0 ELSE g[i - 1] + s[i]]

\* The sum is what the solution of its recursion ends with.
LEMMA SumIs ==
  ASSUME NEW s, NEW n PROVE SumUpTo(s, n) = (CHOOSE g : Adding(s, n, g))[n]
  BY DEF SumUpTo, Adding

\* That recursion has a solution.
LEMMA SumAdds ==
  ASSUME NEW s, NEW n \in Nat, \A i \in 1 .. n : s[i] \in Int
  PROVE  \E g \in [0 .. n -> Int] : SumUpTo(s, n) = g[n] /\ Adding(s, n, g)
  <1> DEFINE T == [i \in 1 .. n |-> [x \in Int |-> x + s[i]]]
  <1>1. \A i \in 1 .. n : T[i] \in [Int -> Int] /\ \A x \in Int : T[i][x] = x + s[i]
    OBVIOUS
  <1>a. T \in [1 .. n -> [Int -> Int]]
    <2>1. DOMAIN T = 1 .. n /\ T = [i \in 1 .. n |-> T[i]] OBVIOUS
    <2> HIDE DEF T
    <2> QED BY <1>1, <2>1
  <1> HIDE DEF T
  <1>2. PICK f \in [0 .. n -> Int] : Loops(n, 0, T, f)
    <2>1. 0 \in Int OBVIOUS
    <2> QED BY <1>a, <2>1, LoopsRun
  <1>3. \A i \in 1 .. n : f[i] = f[i - 1] + s[i]
    <2>1. ASSUME NEW i \in 1 .. n PROVE f[i] = f[i - 1] + s[i]
      <3>1. f[i] = T[i][f[i - 1]] /\ i - 1 \in 0 .. n BY <1>2 DEF Loops
      <3> QED BY <1>1, <3>1
    <2> QED BY <2>1
  <1>4. Adding(s, n, f)
    <2>1. f[0] = 0 BY <1>2 DEF Loops
    <2> QED BY <1>3, <2>1 DEF Adding
  <1>5. PICK g : g = (CHOOSE h : Adding(s, n, h)) OBVIOUS
  <1>6. Adding(s, n, g) BY <1>4, <1>5
  <1>7. DOMAIN g = 0 .. n /\ g[0] = 0 /\ \A i \in 1 .. n : g[i] = g[i - 1] + s[i]
    BY <1>6 DEF Adding
  <1> DEFINE S == {i \in 0 .. n : g[i] \in Int}
  <1>8. \A i \in 0 .. n : i \in S
    <2>1. 0 \in S BY <1>7
    <2>2. ASSUME NEW i \in 1 .. n, i - 1 \in S PROVE i \in S
      <3>1. g[i - 1] \in Int /\ s[i] \in Int BY <2>2
      <3>2. g[i] = g[i - 1] + s[i] BY <1>7
      <3> QED BY <3>1, <3>2
    <2> HIDE DEF S
    <2> QED BY <2>1, <2>2, Stepwise
  <1>9. g \in [0 .. n -> Int]
    <2>1. g = [i \in 0 .. n |-> g[i]] BY <1>6 DEF Adding
    <2> QED BY <1>8, <2>1
  <1>10. SumUpTo(s, n) = g[n] BY <1>5, SumIs
  <1> QED BY <1>6, <1>9, <1>10

\* What adds up to n adds up on the way.
LEMMA SumRules ==
  ASSUME NEW s, NEW n \in Nat, \A i \in 1 .. n : s[i] \in Int
  PROVE  /\ SumUpTo(s, 0) = 0
         /\ \A m \in 0 .. n : SumUpTo(s, m) \in Int
         /\ \A m \in 1 .. n : SumUpTo(s, m) = SumUpTo(s, m - 1) + s[m]
  <1>1. PICK g \in [0 .. n -> Int] : SumUpTo(s, n) = g[n] /\ Adding(s, n, g)
    BY SumAdds
  <1>2. g[0] = 0 /\ \A i \in 1 .. n : g[i] = g[i - 1] + s[i]
    BY <1>1 DEF Adding
  <1>3. ASSUME NEW m \in 0 .. n PROVE SumUpTo(s, m) = g[m]
    <2>1. PICK h \in [0 .. m -> Int] : SumUpTo(s, m) = h[m] /\ Adding(s, m, h)
      <3>1. m \in Nat /\ \A i \in 1 .. m : s[i] \in Int OBVIOUS
      <3> QED BY <3>1, SumAdds
    <2>2. h[0] = 0 /\ \A i \in 1 .. m : h[i] = h[i - 1] + s[i]
      BY <2>1 DEF Adding
    <2> DEFINE S == {i \in 0 .. m : h[i] = g[i]}
    <2>3. \A i \in 0 .. m : i \in S
      <3>1. 0 \in S BY <1>2, <2>2
      <3>2. ASSUME NEW i \in 1 .. m, i - 1 \in S PROVE i \in S BY <1>2, <2>2, <3>2
      <3>3. m \in Nat OBVIOUS
      <3> HIDE DEF S
      <3> QED BY <3>1, <3>2, <3>3, Stepwise
    <2> QED BY <2>1, <2>3
  <1>4. ASSUME NEW m \in 1 .. n PROVE SumUpTo(s, m) = SumUpTo(s, m - 1) + s[m]
    BY <1>2, <1>3
  <1>5. SumUpTo(s, 0) = 0 BY <1>2, <1>3
  <1> QED BY <1>3, <1>4, <1>5

\* Equal elements have equal sums.
LEMMA SumSame ==
  ASSUME NEW s, NEW t, NEW n \in Nat, \A i \in 1 .. n : s[i] \in Int /\ t[i] = s[i]
  PROVE  \A m \in 0 .. n : SumUpTo(t, m) = SumUpTo(s, m)
  <1> DEFINE S == {i \in 0 .. n : SumUpTo(t, i) = SumUpTo(s, i)}
  <1>1. 0 \in S BY SumRules
  <1>2. ASSUME NEW i \in 1 .. n, i - 1 \in S PROVE i \in S
    <2>1. SumUpTo(s, i) = SumUpTo(s, i - 1) + s[i] BY SumRules
    <2>2. SumUpTo(t, i) = SumUpTo(t, i - 1) + t[i] BY SumRules
    <2> QED BY <1>2, <2>1, <2>2
  <1> HIDE DEF S
  <1>3. \A i \in 0 .. n : i \in S BY <1>1, <1>2, Stepwise
  <1> QED BY <1>3 DEF S

\* The sum of a part is the difference of two sums of the whole.
LEMMA SumShift ==
  ASSUME NEW s, NEW t, NEW b \in Nat, NEW n \in Nat,
         \A i \in 1 .. b + n : s[i] \in Int, \A i \in 1 .. n : t[i] = s[b + i]
  PROVE  \A m \in 0 .. n : SumUpTo(t, m) = SumUpTo(s, b + m) - SumUpTo(s, b)
  <1> DEFINE S == {i \in 0 .. n : SumUpTo(t, i) = SumUpTo(s, b + i) - SumUpTo(s, b)}
  <1>0. \A m \in 0 .. b + n : SumUpTo(s, m) \in Int BY SumRules
  <1>3. \A i \in 1 .. n : t[i] \in Int /\ b + i \in 1 .. b + n OBVIOUS
  <1>1. 0 \in S
    <2>1. SumUpTo(t, 0) = 0 BY <1>3, SumRules
    <2>2. b + 0 = b /\ SumUpTo(s, b) \in Int BY <1>0
    <2> QED BY <2>1, <2>2
  <1>2. ASSUME NEW i \in 1 .. n, i - 1 \in S PROVE i \in S
    <2>1. SumUpTo(s, b + i) = SumUpTo(s, (b + i) - 1) + s[b + i] BY <1>3, SumRules
    <2>2. SumUpTo(t, i) = SumUpTo(t, i - 1) + t[i] BY <1>3, SumRules
    <2>3. (b + i) - 1 = b + (i - 1) /\ b + (i - 1) \in 0 .. b + n /\ b + i \in 0 .. b + n /\ b \in 0 .. b + n
      OBVIOUS
    <2> QED BY <1>0, <1>2, <1>3, <2>1, <2>2, <2>3
  <1> HIDE DEF S
  <1>4. \A i \in 0 .. n : i \in S BY <1>1, <1>2, Stepwise
  <1> QED BY <1>4 DEF S

\* Sums of natural numbers grow.
LEMMA SumGrows ==
  ASSUME NEW s, NEW n \in Nat, \A i \in 1 .. n : s[i] \in Nat
  PROVE  \A j \in 0 .. n : \A i \in 0 .. j : SumUpTo(s, i) \in Nat /\ SumUpTo(s, i) <= SumUpTo(s, j)
  <1> DEFINE S == {j \in 0 .. n : \A i \in 0 .. j : SumUpTo(s, i) \in Nat /\ SumUpTo(s, i) <= SumUpTo(s, j)}
  <1>0. \A m \in 0 .. n : SumUpTo(s, m) \in Int BY SumRules
  <1>1. 0 \in S
    <2>1. SumUpTo(s, 0) = 0 BY SumRules
    <2> QED BY <2>1
  <1>2. ASSUME NEW j \in 1 .. n, j - 1 \in S PROVE j \in S
    <2>1. SumUpTo(s, j) = SumUpTo(s, j - 1) + s[j] BY SumRules
    <2>2. \A i \in 0 .. j - 1 : SumUpTo(s, i) \in Nat /\ SumUpTo(s, i) <= SumUpTo(s, j - 1) BY <1>2
    <2>3. SumUpTo(s, j - 1) \in Nat BY <2>2
    <2>4. ASSUME NEW i \in 0 .. j PROVE SumUpTo(s, i) \in Nat /\ SumUpTo(s, i) <= SumUpTo(s, j)
      <3>1. CASE i = j BY <2>1, <2>3, <3>1
      <3>2. CASE i # j
        <4>1. i \in 0 .. j - 1 BY <3>2
        <4> QED BY <2>1, <2>2, <2>3, <4>1
      <3> QED BY <3>1, <3>2
    <2> QED BY <2>4
  <1> HIDE DEF S
  <1>3. \A i \in 0 .. n : i \in S BY <1>1, <1>2, Stepwise
  <1> QED BY <1>3 DEF S

\* A sequence given as a function is what AsTuple makes of it.
LEMMA AsTupleIs ==
  ASSUME NEW S, NEW n \in Nat, NEW f \in [1 .. n -> S]
  PROVE  AsTuple(f) = f /\ f \in Seq(S) /\ Len(f) = n /\ DOMAIN f = 1 .. n
  <1>1. f \in Seq(S) /\ Len(f) = n OBVIOUS
  <1>2. SubSeq(f, 1, n) = f BY <1>1
  <1> QED BY <1>1, <1>2 DEF AsTuple

\* A bounded set of integers has its least element.
LEMMA MinIs ==
  ASSUME NEW lo \in Int, NEW hi \in Int, NEW S, S \subseteq lo .. hi, S # {}
  PROVE  Min(S) \in S /\ \A y \in S : Min(S) <= y
  <1> DEFINE N == {i \in Nat : lo + i \in S}
  <1>1. N # {}
    <2>1. PICK y \in S : TRUE OBVIOUS
    <2>2. y - lo \in N BY <2>1
    <2> QED BY <2>2
  <1>2. PICK i \in N : \A j \in N : ~(j < i)
    <2>1. N \subseteq Nat OBVIOUS
    <2> HIDE DEF N
    <2> QED BY <1>1, <2>1, ALeast
  <1>3. lo + i \in S /\ \A y \in S : lo + i <= y
    <2>1. ASSUME NEW y \in S PROVE lo + i <= y
      <3>1. y - lo \in N BY <2>1
      <3> QED BY <1>2, <3>1
    <2> QED BY <1>2, <2>1
  <1> QED BY <1>3 DEF Min

\* A bounded set of integers has its greatest element.
LEMMA MaxIs ==
  ASSUME NEW lo \in Int, NEW hi \in Int, NEW S, S \subseteq lo .. hi, S # {}
  PROVE  Max(S) \in S /\ \A y \in S : Max(S) >= y
  <1> DEFINE N == {i \in Nat : hi - i \in S}
  <1>1. N # {}
    <2>1. PICK y \in S : TRUE OBVIOUS
    <2>2. hi - y \in N BY <2>1
    <2> QED BY <2>2
  <1>2. PICK i \in N : \A j \in N : ~(j < i)
    <2>1. N \subseteq Nat OBVIOUS
    <2> HIDE DEF N
    <2> QED BY <1>1, <2>1, ALeast
  <1>3. hi - i \in S /\ \A y \in S : hi - i >= y
    <2>1. ASSUME NEW y \in S PROVE hi - i >= y
      <3>1. hi - y \in N BY <2>1
      <3> QED BY <1>2, <3>1
    <2> QED BY <1>2, <2>1
  <1> QED BY <1>3 DEF Max

(***************************************************************************)
(* The binary search.                                                       *)
(***************************************************************************)
Searches == [first : Int, left : Nat]
Half(s, x, r) ==
  IF r.left = 0 THEN r
  ELSE IF s[r.first + (r.left \div 2)] < x
       THEN [first |-> r.first + (r.left \div 2) + 1, left |-> r.left - (r.left \div 2) - 1]
       ELSE [first |-> r.first, left |-> r.left \div 2]
Searching(s, at, n, x, g) ==
  g = [i \in 0 .. n |-> IF i = 0 THEN [first |-> at, left |-> n] ELSE Half(s, x, g[i - 1])]

\* The binary search is what the solution of its recursion ends with.
LEMMA SearchIs ==
  ASSUME NEW s, NEW at, NEW n, NEW x
  PROVE  LowerBound(s, at, n, x) = (CHOOSE g : Searching(s, at, n, x, g))[n].first
  BY DEF LowerBound, Searching, Half

\* Halving keeps within the range, and moves on only behind an element below x.
LEMMA HalfType ==
  ASSUME NEW s, NEW x, NEW r \in Searches
  PROVE  /\ Half(s, x, r) \in Searches
         /\ Half(s, x, r).first >= r.first
         /\ Half(s, x, r).first + Half(s, x, r).left <= r.first + r.left
         /\ \/ Half(s, x, r).first = r.first
            \/ /\ Half(s, x, r).first - 1 < r.first + r.left
               /\ s[Half(s, x, r).first - 1] < x
  <1> DEFINE h == r.left \div 2
  <1>1. r.first \in Int /\ r.left \in Nat /\ h \in Nat /\ (r.left # 0 => h < r.left)
    BY DEF Searches
  <1>2. CASE r.left = 0 BY <1>1, <1>2 DEF Half
  <1>3. CASE r.left # 0 /\ s[r.first + h] < x
    <2>1. Half(s, x, r) = [first |-> r.first + h + 1, left |-> r.left - h - 1]
      BY <1>3 DEF Half
    <2>2. r.first + h + 1 \in Int /\ r.left - h - 1 \in Nat BY <1>1, <1>3
    <2>3. /\ Half(s, x, r).first = r.first + h + 1 /\ Half(s, x, r).left = r.left - h - 1
          /\ Half(s, x, r) \in Searches
      BY <2>1, <2>2 DEF Searches
    <2> HIDE DEF h
    <2>4. Half(s, x, r).first - 1 = r.first + h BY <1>1, <2>3
    <2>5. s[Half(s, x, r).first - 1] < x BY <1>3, <2>4
    <2> QED BY <1>1, <1>3, <2>3, <2>4, <2>5
  <1>4. CASE r.left # 0 /\ ~(s[r.first + h] < x)
    <2>1. Half(s, x, r) = [first |-> r.first, left |-> h]
      BY <1>4 DEF Half
    <2> HIDE DEF h
    <2> QED BY <1>1, <1>4, <2>1 DEF Searches
  <1> QED BY <1>2, <1>3, <1>4

\* A search goes on in what it was given, sorted or not; when it is sorted, everything
\* before the position found is less than x.
LEMMA SearchFinds ==
  ASSUME NEW s, NEW at \in Int, NEW n \in Nat, NEW x \in Int
  PROVE  /\ LowerBound(s, at, n, x) \in at .. at + n
         /\ (\A i \in at .. at + n - 1 : s[i] \in Int /\ \A j \in at .. i : s[j] <= s[i])
              => \A i \in at .. LowerBound(s, at, n, x) - 1 : s[i] < x
  <1> DEFINE T == [i \in 1 .. n |-> [r \in Searches |-> Half(s, x, r)]]
             a == [first |-> at, left |-> n]
  <1>1. \A i \in 1 .. n : T[i] \in [Searches -> Searches] /\ \A r \in Searches : T[i][r] = Half(s, x, r)
    BY HalfType
  <1>2. T \in [1 .. n -> [Searches -> Searches]]
    <2>1. DOMAIN T = 1 .. n /\ T = [i \in 1 .. n |-> T[i]] OBVIOUS
    <2> HIDE DEF T
    <2> QED BY <1>1, <2>1
  <1>3. a \in Searches BY DEF Searches
  <1> HIDE DEF T
  <1>4. PICK f \in [0 .. n -> Searches] : Loops(n, a, T, f)
    <2> HIDE DEF a
    <2> QED BY <1>2, <1>3, LoopsRun
  <1>5. Searching(s, at, n, x, f)
    <2>1. \A i \in 1 .. n : f[i] = Half(s, x, f[i - 1])
      <3>1. ASSUME NEW i \in 1 .. n PROVE f[i] = Half(s, x, f[i - 1])
        <4>1. f[i] = T[i][f[i - 1]] /\ i - 1 \in 0 .. n BY <1>4 DEF Loops
        <4> QED BY <1>1, <4>1
      <3> QED BY <3>1
    <2>2. f[0] = a BY <1>4 DEF Loops
    <2> QED BY <2>1, <2>2 DEF Searching
  <1>6. PICK g : g = (CHOOSE h : Searching(s, at, n, x, h)) OBVIOUS
  <1>7. Searching(s, at, n, x, g) BY <1>5, <1>6
  <1>8. g[0] = a /\ \A i \in 1 .. n : g[i] = Half(s, x, g[i - 1])
    BY <1>7 DEF Searching
  <1> DEFINE Sorted == \A i \in at .. at + n - 1 : s[i] \in Int /\ \A j \in at .. i : s[j] <= s[i]
             Good(r) == /\ r \in Searches /\ r.first >= at /\ r.first + r.left <= at + n
                        /\ Sorted => \A i \in at .. r.first - 1 : s[i] < x
             S == {i \in 0 .. n : Good(g[i])}
  <1>9. 0 \in S BY <1>3, <1>8
  <1>10. ASSUME NEW i \in 1 .. n, i - 1 \in S PROVE i \in S
    <2> DEFINE r == g[i - 1]
               q == Half(s, x, r)
    <2>1. Good(r) BY <1>10
    <2>2. /\ q \in Searches /\ q.first >= r.first /\ q.first + q.left <= r.first + r.left
          /\ q.first = r.first \/ (q.first - 1 < r.first + r.left /\ s[q.first - 1] < x)
      BY <2>1, HalfType
    <2>3. g[i] = q BY <1>8
    <2> HIDE DEF q, r
    <2>4. r.first \in Int /\ r.left \in Nat /\ q.first \in Int /\ q.left \in Nat
      BY <2>1, <2>2 DEF Searches
    <2>5. q.first >= at /\ q.first + q.left <= at + n BY <2>1, <2>2, <2>4
    <2>6. ASSUME Sorted, NEW j \in at .. q.first - 1 PROVE s[j] < x
      <3>1. CASE q.first = r.first BY <2>1, <2>6, <3>1
      <3>2. CASE q.first # r.first
        <4>a. r.first >= at /\ r.first + r.left <= at + n BY <2>1
        <4>b. q.first >= r.first /\ q.first - 1 < r.first + r.left BY <2>2, <3>2
        <4> HIDE DEF Good, Sorted, S
        <4>1. q.first - 1 \in at .. at + n - 1 BY <2>4, <3>2, <4>a, <4>b
        <4> USE DEF Sorted
        <4>2. s[q.first - 1] \in Int /\ s[j] <= s[q.first - 1] /\ s[j] \in Int
          BY <2>4, <2>6, <4>1
        <4> QED BY <2>2, <3>2, <4>2
      <3> QED BY <3>1, <3>2
    <2>7. Good(q) BY <2>2, <2>5, <2>6
    <2> QED BY <2>3, <2>7
  <1>11. Good(g[n])
    <2> HIDE DEF S
    <2>1. \A i \in 0 .. n : i \in S BY <1>9, <1>10, Stepwise
    <2>2. n \in S BY <2>1
    <2> QED BY <2>2 DEF S
  <1>12. LowerBound(s, at, n, x) = g[n].first BY <1>6, SearchIs
  <1>13. g[n].first \in at .. at + n BY <1>11 DEF Searches
  <1> QED BY <1>11, <1>12, <1>13

(***************************************************************************)
(* One split, then all of them.                                             *)
(***************************************************************************)
Spots == [count : Nat, size : Nat, rows : Nat]
Ranges == [begin : Nat, end : Nat]
NoSpot == [count |-> 0, size |-> 0, rows |-> 0]

\* Sizes that add up: counts ascend to the total, sizes do not descend.
AddUp(sizes, total) ==
  /\ sizes \in Seq(Spots) /\ sizes # <<>> /\ sizes[Len(sizes)].count = total
  /\ sizes[1].count > 0
  /\ \A i \in 1 .. Len(sizes) : \A j \in 1 .. i :
       /\ sizes[j].size <= sizes[i].size
       /\ j < i => sizes[j].count < sizes[i].count
\* The counts are the positions.
Single(sizes) == \A i \in 1 .. Len(sizes) : sizes[i].count = i

\* size_t subtraction is subtraction where that is not below zero.
LEMMA MinusType ==
  ASSUME NEW a \in Nat, NEW b \in Nat
  PROVE  Minus(a, b) \in Int /\ (a >= b => Minus(a, b) = a - b)
  BY DEF Minus, Huge

\* A split is looked for from the position before the current one on.
LEMMA FittingType ==
  ASSUME NEW sizes \in Seq(Spots), NEW pos \in 1 .. Len(sizes), NEW last \in Spots, NEW limit \in Nat
  PROVE  Fitting(sizes, pos, last, limit) \in pos - 1 .. Len(sizes)
  <1> DEFINE n == Len(sizes)
             over == AsTuple([i \in DOMAIN sizes |-> Minus(sizes[i].size, last.size)])
             found == LowerBound(over, pos, n + 1 - pos, limit)
  <1>1. n \in Nat /\ pos \in Int /\ n + 1 - pos \in Nat /\ limit \in Int OBVIOUS
  <1>2. found \in pos .. pos + (n + 1 - pos)
    <2> HIDE DEF over, n
    <2> QED BY <1>1, SearchFinds
  <1>3. Fitting(sizes, pos, last, limit)
          = IF found > n \/ sizes[found].size > last.size + limit THEN found - 1 ELSE found
    BY DEF Fitting
  <1> HIDE DEF found
  <1> QED BY <1>1, <1>2, <1>3

\* The row limit makes a split shorter, but leaves it the first position.
LEMMA ShortType ==
  ASSUME NEW sizes, NEW last, NEW fits \in Int
  PROVE  /\ Short(sizes, last, fits) \in Int /\ Short(sizes, last, fits) <= fits
         /\ fits >= 1 => Short(sizes, last, fits) >= 1
         /\ fits < 1 => Short(sizes, last, fits) = fits
  <1> DEFINE S == {i \in 1 .. fits : i = 1 \/ sizes[i].rows <= last.rows + ColumnLimit}
  <1>1. CASE fits < 1 BY <1>1 DEF Short
  <1>2. CASE fits >= 1
    <2>1. S \subseteq 1 .. fits /\ S # {} /\ 1 \in Int BY <1>2
    <2>2. Max(S) \in S
      <3> HIDE DEF S
      <3> QED BY <2>1, MaxIs
    <2>3. Short(sizes, last, fits) = Max(S) BY <1>2 DEF Short
    <2> QED BY <1>2, <2>2, <2>3
  <1> QED BY <1>1, <1>2

\* A split takes the first position that is not short of what fits and lies beyond the
\* last, or else the end.
LEMMA SplitIs ==
  ASSUME NEW sizes \in Seq(Spots), sizes # <<>>, NEW pos \in 1 .. Len(sizes), NEW last \in Spots,
         NEW limit \in Nat
  PROVE  LET p == SplitAt(sizes, pos, last, limit)
             s == Short(sizes, last, Fitting(sizes, pos, last, limit))
         IN  /\ p \in 1 .. Len(sizes) /\ p >= s
             /\ p = Len(sizes) \/ sizes[p].count > last.count
             /\ \A i \in 1 .. Len(sizes) : i >= s /\ sizes[i].count > last.count => p <= i
  <1> DEFINE n == Len(sizes)
             f == Fitting(sizes, pos, last, limit)
             s == Short(sizes, last, f)
             S == {i \in s .. n : i = n \/ (i >= 1 /\ sizes[i].count > last.count)}
  <1>1. n \in Nat /\ n >= 1 OBVIOUS
  <1>2. f \in pos - 1 .. n BY FittingType
  <1>3. s \in Int /\ s <= n
    <2>1. f \in Int /\ f <= n BY <1>1, <1>2
    <2> HIDE DEF f
    <2>2. s \in Int /\ s <= f BY <2>1, ShortType
    <2> QED BY <1>1, <2>1, <2>2
  <1>4. SplitAt(sizes, pos, last, limit) = Min(S) BY DEF SplitAt
  <1> HIDE DEF s
  <1>5. S \subseteq s .. n /\ n \in S BY <1>1, <1>3
  <1>6. Min(S) \in S /\ \A y \in S : Min(S) <= y
    <2>1. S # {} /\ n \in Int BY <1>1, <1>5
    <2> HIDE DEF S, n
    <2> QED BY <1>3, <1>5, <2>1, MinIs
  <1>7. ASSUME NEW i \in 1 .. n, i >= s, sizes[i].count > last.count PROVE Min(S) <= i
    <2>1. i \in S BY <1>1, <1>3, <1>7
    <2> QED BY <1>6, <2>1
  <1>8. Min(S) \in 1 .. n /\ Min(S) >= s /\ (Min(S) = n \/ sizes[Min(S)].count > last.count)
    BY <1>1, <1>3, <1>6
  <1> QED BY <1>4, <1>7, <1>8 DEF s

\* A number stays between two others when all are moved.
LEMMA MovedBetween ==
  ASSUME NEW x \in Int, NEW y \in Int, NEW z \in x + 1 .. y - 1, NEW b \in Int
  PROVE  z + b \in (x + b) + 1 .. (y + b) - 1 /\ (y + b) - (z + b) = y - z /\ (z + b) - (x + b) = z - x
  OBVIOUS

\* A range has a length.
LEMMA LengthType ==
  ASSUME NEW x \in Nat, NEW y \in Nat, x < y
  PROVE  y - x \in Nat
  OBVIOUS

\* At most 15%, in whole numbers.
LEMMA FifteenPercent ==
  ASSUME NEW x \in Nat, NEW y \in Nat, x <= (15 * y) \div 100
  PROVE  100 * x <= 15 * y
  OBVIOUS

\* What fits does, unless it is not beyond the position searched from.
LEMMA FittingFits ==
  ASSUME NEW sizes \in Seq(Spots), NEW pos \in 1 .. Len(sizes), NEW last \in Spots, NEW limit \in Nat,
         \A i \in pos .. Len(sizes) : sizes[i].size >= last.size,
         \A i \in 1 .. Len(sizes) : \A j \in 1 .. i : sizes[j].size <= sizes[i].size,
         Fitting(sizes, pos, last, limit) >= pos
  PROVE  sizes[Fitting(sizes, pos, last, limit)].size <= last.size + limit
  <1> DEFINE n == Len(sizes)
             over == AsTuple([i \in DOMAIN sizes |-> Minus(sizes[i].size, last.size)])
             found == LowerBound(over, pos, n + 1 - pos, limit)
             fits == Fitting(sizes, pos, last, limit)
  <1>1. n \in Nat /\ pos \in Int /\ n + 1 - pos \in Nat /\ limit \in Int /\ DOMAIN sizes = 1 .. n
    OBVIOUS
  <1>2. fits = IF found > n \/ sizes[found].size > last.size + limit THEN found - 1 ELSE found
    BY DEF Fitting
  <1>3. \A i \in 1 .. n : sizes[i].size \in Nat /\ last.size \in Nat
    <2>1. \A i \in 1 .. n : sizes[i] \in Spots OBVIOUS
    <2> QED BY <2>1 DEF Spots
  <1>4. \A i \in pos .. n : over[i] = sizes[i].size - last.size
    <2> DEFINE raw == [i \in 1 .. n |-> Minus(sizes[i].size, last.size)]
    <2>1. raw \in [1 .. n -> Int]
      <3>1. \A i \in 1 .. n : Minus(sizes[i].size, last.size) \in Int BY <1>3, MinusType
      <3> QED BY <3>1
    <2>2. over = raw
      <3>1. over = AsTuple(raw) BY <1>1
      <3> HIDE DEF raw, over
      <3> QED BY <1>1, <2>1, <3>1, AsTupleIs
    <2>3. ASSUME NEW i \in pos .. n PROVE over[i] = sizes[i].size - last.size
      <3>1. i \in 1 .. n /\ over[i] = Minus(sizes[i].size, last.size) BY <1>1, <2>2
      <3>2. sizes[i].size >= last.size OBVIOUS
      <3> QED BY <1>3, <3>1, <3>2, MinusType
    <2> QED BY <2>3
  <1>5. found \in pos .. n + 1
    <2>1. found \in pos .. pos + (n + 1 - pos)
      <3> HIDE DEF over, n
      <3> QED BY <1>1, SearchFinds
    <2> HIDE DEF found
    <2> QED BY <1>1, <2>1
  <1>6. \A i \in pos .. found - 1 : over[i] < limit
    <2>1. \A i \in pos .. pos + (n + 1 - pos) - 1 : over[i] \in Int /\ \A j \in pos .. i : over[j] <= over[i]
      <3>1. ASSUME NEW i \in pos .. n, NEW j \in pos .. i PROVE over[i] \in Int /\ over[j] <= over[i]
        <4>1. j \in pos .. n /\ i \in 1 .. n /\ j \in 1 .. i /\ j \in 1 .. n BY <1>1, <3>1
        <4>2. over[i] = sizes[i].size - last.size /\ over[j] = sizes[j].size - last.size
          BY <1>4, <4>1
        <4>3. sizes[j].size <= sizes[i].size BY <4>1
        <4> HIDE DEF over
        <4> QED BY <1>3, <4>1, <4>2, <4>3
      <3>2. \A i \in pos .. pos + (n + 1 - pos) - 1 : i \in pos .. n /\ i \in pos .. i BY <1>1
      <3> HIDE DEF over
      <3> QED BY <3>1, <3>2
    <2> HIDE DEF over, n
    <2> QED BY <1>1, <2>1, SearchFinds
  <1> HIDE DEF found, over
  <1>7. CASE found > n \/ sizes[found].size > last.size + limit
    <2>1. fits = found - 1 BY <1>2, <1>7
    <2>2. fits \in pos .. found - 1 /\ fits \in pos .. n /\ fits \in 1 .. n BY <1>1, <1>5, <2>1
    <2>3. over[fits] < limit /\ over[fits] = sizes[fits].size - last.size BY <1>4, <1>6, <2>2
    <2>4. sizes[fits].size \in Nat /\ last.size \in Nat BY <1>3, <2>2
    <2>5. sizes[fits].size <= last.size + limit
      <3> HIDE DEF fits
      <3> QED BY <2>3, <2>4
    <2> QED BY <2>5
  <1>8. CASE ~(found > n \/ sizes[found].size > last.size + limit)
    <2>1. fits = found /\ found \in 1 .. n BY <1>1, <1>2, <1>5, <1>8
    <2> QED BY <1>3, <1>8, <2>1
  <1> QED BY <1>7, <1>8

\* Ranges that follow each other from a to b, none of them empty.
Tiles(s, a, b) ==
  /\ s \in Seq(Ranges)
  /\ s = <<>> => a = b
  /\ s # <<>> => s[1].begin = a /\ s[Len(s)].end = b
  /\ \A k \in 1 .. Len(s) : s[k].begin < s[k].end
  /\ \A k \in 1 .. Len(s) - 1 : s[k].end = s[k + 1].begin

\* Ranges that tile up to b still tile with one more that begins at b.
LEMMA TilesAppend ==
  ASSUME NEW s, NEW a \in Nat, NEW b \in Nat, NEW c \in Nat, b < c, Tiles(s, a, b)
  PROVE  /\ Tiles(Append(s, [begin |-> b, end |-> c]), a, c)
         /\ Append(s, [begin |-> b, end |-> c]) # <<>>
  <1> DEFINE x == [begin |-> b, end |-> c]
             t == Append(s, x)
  <1>1. x \in Ranges /\ x.begin = b /\ x.end = c BY DEF Ranges
  <1>2. s \in Seq(Ranges) BY DEF Tiles
  <1> HIDE DEF x
  <1>3. /\ t \in Seq(Ranges) /\ Len(t) = Len(s) + 1 /\ Len(s) \in Nat /\ t[Len(s) + 1] = x /\ t # <<>>
        /\ \A k \in 1 .. Len(s) : t[k] = s[k]
    BY <1>1, <1>2
  <1> HIDE DEF t
  <1>4. s = <<>> <=> Len(s) = 0 BY <1>2
  <1>5. t[1].begin = a
    <2>1. CASE s = <<>> BY <1>1, <1>3, <1>4, <2>1 DEF Tiles
    <2>2. CASE s # <<>>
      <3>1. 1 \in 1 .. Len(s) BY <1>3, <1>4, <2>2
      <3> QED BY <1>3, <2>2, <3>1 DEF Tiles
    <2> QED BY <2>1, <2>2
  <1>6. ASSUME NEW k \in 1 .. Len(t) PROVE t[k].begin < t[k].end
    <2>1. CASE k = Len(s) + 1 BY <1>1, <1>3, <2>1
    <2>2. CASE k # Len(s) + 1
      <3>1. k \in 1 .. Len(s) BY <1>3, <2>2
      <3> QED BY <1>3, <3>1 DEF Tiles
    <2> QED BY <2>1, <2>2
  <1>7. ASSUME NEW k \in 1 .. Len(t) - 1 PROVE t[k].end = t[k + 1].begin
    <2>0. k \in 1 .. Len(s) BY <1>3
    <2>1. CASE k = Len(s)
      <3>1. s # <<>> BY <1>4, <2>0, <2>1
      <3> QED BY <1>1, <1>3, <2>0, <2>1, <3>1 DEF Tiles
    <2>2. CASE k # Len(s)
      <3>1. k \in 1 .. Len(s) - 1 /\ k + 1 \in 1 .. Len(s) BY <1>3, <2>0, <2>2
      <3> QED BY <1>3, <2>0, <3>1 DEF Tiles
    <2> QED BY <2>1, <2>2
  <1>8. t[Len(t)].end = c BY <1>1, <1>3
  <1>9. Tiles(t, a, c) BY <1>3, <1>5, <1>6, <1>7, <1>8 DEF Tiles
  <1> QED BY <1>3, <1>9 DEF t, x

\* Every range lies between the ends.
LEMMA TilesInside ==
  ASSUME NEW s, NEW a \in Nat, NEW b \in Nat, Tiles(s, a, b)
  PROVE  \A k \in 1 .. Len(s) : /\ s[k].begin \in Nat /\ s[k].end \in Nat
                                /\ a <= s[k].begin /\ s[k].begin < s[k].end /\ s[k].end <= b
  <1> DEFINE n == Len(s)
  <1>1. n \in Nat /\ \A k \in 1 .. n : s[k].begin \in Nat /\ s[k].end \in Nat /\ s[k].begin < s[k].end
    <2>1. s \in Seq(Ranges) BY DEF Tiles
    <2>2. n \in Nat /\ \A k \in 1 .. n : s[k] \in Ranges BY <2>1
    <2> QED BY <2>2 DEF Tiles, Ranges
  <1> DEFINE Up == {k \in 0 .. n : k > 0 => a <= s[k].begin}
             Down == {k \in 0 .. n : k < n => s[n - k].end <= b}
  <1>2. \A k \in 0 .. n : k \in Up
    <2>1. 0 \in Up BY <1>1
    <2>2. ASSUME NEW k \in 1 .. n, k - 1 \in Up PROVE k \in Up
      <3>1. CASE k = 1
        <4>1. s # <<>> BY <1>1, <3>1
        <4> QED BY <3>1, <4>1 DEF Tiles
      <3>2. CASE k # 1
        <4>1. k - 1 \in 1 .. n - 1 /\ k - 1 \in 1 .. n /\ (k - 1) + 1 = k BY <1>1, <3>2
        <4>2. s[k - 1].end = s[k].begin BY <4>1 DEF Tiles
        <4>3. a <= s[k - 1].begin BY <2>2, <4>1
        <4>4. s[k - 1].begin \in Nat /\ s[k - 1].end \in Nat /\ s[k - 1].begin < s[k - 1].end
          BY <1>1, <4>1
        <4> QED BY <4>2, <4>3, <4>4
      <3> QED BY <3>1, <3>2
    <2> HIDE DEF Up, n
    <2> QED BY <1>1, <2>1, <2>2, Stepwise
  <1>3. \A k \in 0 .. n : k \in Down
    <2>1. 0 \in Down
      <3>1. n > 0 => s # <<>> BY <1>1
      <3>2. n > 0 => s[n].end = b BY <3>1 DEF Tiles
      <3> QED BY <1>1, <3>2
    <2>2. ASSUME NEW k \in 1 .. n, k - 1 \in Down PROVE k \in Down
      <3>1. CASE k = n BY <3>1
      <3>2. CASE k # n
        <4>1. /\ n - k \in 1 .. n - 1 /\ n - k \in 1 .. n /\ (n - k) + 1 = n - (k - 1)
              /\ n - (k - 1) \in 1 .. n /\ k - 1 < n
          BY <1>1, <3>2
        <4>2. s[n - k].end = s[n - (k - 1)].begin BY <4>1 DEF Tiles
        <4>3. s[n - (k - 1)].end <= b BY <2>2, <4>1
        <4>4. /\ s[n - (k - 1)].begin \in Nat /\ s[n - (k - 1)].end \in Nat
              /\ s[n - (k - 1)].begin < s[n - (k - 1)].end /\ s[n - k].end \in Nat
          BY <1>1, <4>1
        <4> QED BY <4>2, <4>3, <4>4
      <3> QED BY <3>1, <3>2
    <2> HIDE DEF Down, n
    <2> QED BY <1>1, <2>1, <2>2, Stepwise
  <1>4. ASSUME NEW k \in 1 .. n PROVE a <= s[k].begin /\ s[k].end <= b
    <2>1. k \in Up /\ n - k \in Down BY <1>1, <1>2, <1>3
    <2>2. n - (n - k) = k /\ n - k < n BY <1>1
    <2> QED BY <2>1, <2>2
  <1> QED BY <1>1, <1>4

\* The merge keeps a tiling, and changes no range but the last.
LEMMA MergeTiles ==
  ASSUME NEW s, NEW a \in Nat, NEW b \in Nat, Tiles(s, a, b)
  PROVE  /\ Tiles(MergeLast(s), a, b)
         /\ \A k \in 1 .. Len(MergeLast(s)) :
              \/ k \in 1 .. Len(s) /\ MergeLast(s)[k] = s[k]
              \/ /\ k = Len(MergeLast(s)) /\ k \in 1 .. Len(s) - 1 /\ k + 1 = Len(s)
                 /\ MergeLast(s)[k] = [begin |-> s[k].begin, end |-> s[k + 1].end]
                 /\ s[k + 1].end - s[k + 1].begin <= (15 * (s[k].end - s[k].begin)) \div 100
  <1> DEFINE n == Len(s)
             x == [begin |-> s[n - 1].begin, end |-> s[n].end]
             t == Append(SubSeq(s, 1, n - 2), x)
             short == s[n].end - s[n].begin <= (15 * (s[n - 1].end - s[n - 1].begin)) \div 100
  <1>1. s \in Seq(Ranges) /\ n \in Nat /\ \A k \in 1 .. n : s[k] \in Ranges
    BY DEF Tiles
  <1>2. MergeLast(s) = IF n > 1 /\ short THEN t ELSE s BY DEF MergeLast
  <1>3. CASE ~(n > 1 /\ short)
    <2>1. MergeLast(s) = s BY <1>2, <1>3
    <2> QED BY <2>1
  <1>4. CASE n > 1 /\ short
    <2>1. n - 1 \in 1 .. n - 1 /\ n - 1 \in 1 .. n /\ n \in 1 .. n /\ s[n - 1] \in Ranges /\ s[n] \in Ranges
          /\ (n - 1) + 1 = n
      BY <1>1, <1>4
    <2>2. x \in Ranges /\ x.begin = s[n - 1].begin /\ x.end = s[n].end
      BY <2>1 DEF Ranges
    <2> DEFINE u == SubSeq(s, 1, n - 2)
    <2>0. n \in Nat /\ n > 1 /\ n - 2 \in Nat /\ n - 2 <= n BY <1>1, <1>4
    <2>3. u \in Seq(Ranges) /\ Len(u) = n - 2 /\ \A k \in 1 .. n - 2 : u[k] = s[k]
      <3>1. PICK m \in Nat : m = n - 2 BY <2>0
      <3>2. \A k \in 1 .. m : s[k] \in Ranges BY <1>1, <2>0, <3>1
      <3>3. /\ SubSeq(s, 1, m) \in Seq(Ranges)
            /\ Len(SubSeq(s, 1, m)) = IF 1 <= m THEN m - 1 + 1 ELSE 0
            /\ \A k \in 1 .. m - 1 + 1 : SubSeq(s, 1, m)[k] = s[1 + k - 1]
        BY <3>2, SubSeqProperties
      <3>4. PICK v : v = SubSeq(s, 1, m) OBVIOUS
      <3>5. Len(v) = m
        <4>1. Len(v) = IF 1 <= m THEN m - 1 + 1 ELSE 0 BY <3>3, <3>4
        <4> QED BY <4>1
      <3>6. \A k \in 1 .. m : v[k] = s[k]
        <4>1. \A k \in 1 .. m - 1 + 1 : v[k] = s[1 + k - 1] BY <3>3, <3>4
        <4>2. ASSUME NEW k \in 1 .. m PROVE v[k] = s[k]
          <5>1. k \in 1 .. m - 1 + 1 /\ 1 + k - 1 = k OBVIOUS
          <5> QED BY <4>1, <5>1
        <4> QED BY <4>2
      <3>7. v \in Seq(Ranges) BY <3>3, <3>4
      <3>8. u = v BY <3>1, <3>4
      <3> HIDE DEF u, n
      <3> QED BY <3>1, <3>5, <3>6, <3>7, <3>8
    <2>s. s[n].end - s[n].begin <= (15 * (s[n - 1].end - s[n - 1].begin)) \div 100 BY <1>4
    <2> HIDE DEF x, u, short
    <2>4. /\ t \in Seq(Ranges) /\ Len(t) = n - 1 /\ t[n - 1] = x /\ t # <<>>
          /\ \A k \in 1 .. n - 2 : t[k] = s[k]
      <3>1. t = Append(u, x) BY DEF u
      <3> HIDE DEF t, n
      <3>2. t \in Seq(Ranges) /\ Len(t) = Len(u) + 1 /\ t[Len(u) + 1] = x /\ t # <<>>
            /\ \A k \in 1 .. Len(u) : t[k] = u[k]
        BY <2>2, <2>3, <3>1
      <3>3. Len(u) = n - 2 /\ Len(u) + 1 = n - 1 BY <2>0, <2>3
      <3>4. \A k \in 1 .. n - 2 : t[k] = u[k] /\ u[k] = s[k] BY <2>3, <3>2, <3>3
      <3> QED BY <3>2, <3>3, <3>4
    <2> HIDE DEF t
    <2>5. \A k \in 1 .. n : s[k].begin \in Nat /\ s[k].end \in Nat BY <1>1 DEF Ranges
    <2>6. s # <<>> BY <1>1, <1>4
    <2>7. t[1].begin = a
      <3>1. s[1].begin = a BY <2>6 DEF Tiles
      <3>2. CASE n = 2 BY <2>2, <2>4, <3>1, <3>2
      <3>3. CASE n # 2
        <4>1. 1 \in 1 .. n - 2
          <5> HIDE DEF n
          <5> QED BY <2>0, <3>3
        <4> QED BY <2>4, <3>1, <4>1
      <3> QED BY <3>2, <3>3
    <2>8. t[Len(t)].end = b BY <2>2, <2>4, <2>6 DEF Tiles
    <2>9. ASSUME NEW k \in 1 .. n - 1 PROVE t[k].begin < t[k].end
      <3>1. CASE k = n - 1
        <4>1. s[n - 1].begin < s[n - 1].end /\ s[n - 1].end = s[n].begin /\ s[n].begin < s[n].end
          BY <2>1 DEF Tiles
        <4>2. t[k].begin = s[n - 1].begin /\ t[k].end = s[n].end BY <2>2, <2>4, <3>1
        <4>3. /\ s[n - 1].begin \in Nat /\ s[n - 1].end \in Nat
              /\ s[n].begin \in Nat /\ s[n].end \in Nat
          BY <2>1, <2>5
        <4> QED BY <4>1, <4>2, <4>3
      <3>2. CASE k # n - 1
        <4>1. k \in 1 .. n - 2 /\ k \in 1 .. n BY <1>1, <3>2
        <4> QED BY <2>4, <4>1 DEF Tiles
      <3> QED BY <3>1, <3>2
    <2>10. ASSUME NEW k \in 1 .. (n - 1) - 1 PROVE t[k].end = t[k + 1].begin
      <3>1. k \in 1 .. n - 2 /\ k \in 1 .. n - 1 /\ t[k] = s[k] /\ s[k].end = s[k + 1].begin
        BY <1>1, <2>4 DEF Tiles
      <3>2. CASE k + 1 = n - 1 BY <2>2, <2>4, <3>1, <3>2
      <3>3. CASE k + 1 # n - 1
        <4>1. k + 1 \in 1 .. n - 2 BY <1>1, <3>1, <3>3
        <4> QED BY <2>4, <3>1, <4>1
      <3> QED BY <3>2, <3>3
    <2>11. Tiles(t, a, b) BY <2>4, <2>7, <2>8, <2>9, <2>10 DEF Tiles
    <2>12. ASSUME NEW k \in 1 .. Len(t)
           PROVE \/ k \in 1 .. n /\ t[k] = s[k]
                 \/ /\ k = Len(t) /\ k \in 1 .. n - 1 /\ k + 1 = n
                    /\ t[k] = [begin |-> s[k].begin, end |-> s[k + 1].end]
                    /\ s[k + 1].end - s[k + 1].begin <= (15 * (s[k].end - s[k].begin)) \div 100
      <3>1. CASE k = n - 1
        <4>1. t[k] = [begin |-> s[k].begin, end |-> s[k + 1].end] BY <2>1, <2>4, <3>1 DEF x
        <4> QED BY <2>s, <2>1, <2>4, <3>1, <4>1
      <3>2. CASE k # n - 1 BY <1>1, <2>4, <3>2
      <3> QED BY <3>1, <3>2
    <2>13. MergeLast(s) = t BY <1>2, <1>4
    <2> QED BY <2>11, <2>12, <2>13
  <1> QED BY <1>3, <1>4

\* The size of the first k positions, and ranges that fit: Fits of the source.
SizeAt(sizes, k) == IF k = 0 THEN 0 ELSE sizes[k].size
FitsIn(sizes, limit, range) ==
  range.end - range.begin = 1 \/ SizeAt(sizes, range.end) - SizeAt(sizes, range.begin) <= limit
FitsInMerged(sizes, limit, range) ==
  \E end \in range.begin + 1 .. range.end - 1 :
    /\ FitsIn(sizes, limit, [begin |-> range.begin, end |-> end])
    /\ 100 * (range.end - end) <= 15 * (end - range.begin)

\* The rounds of FindSplits.
Round(sizes, total, limit, r) ==
  LET pos == SplitAt(sizes, r.pos, r.last, limit)
      range == [begin |-> r.last.count, end |-> sizes[pos].count]
  IN  IF r.last.count >= total THEN r
      ELSE [splits |-> Append(r.splits, range), pos |-> pos, last |-> sizes[pos]]
Splitting(sizes, total, limit, g) ==
  g = [i \in 0 .. Len(sizes) |->
        IF i = 0 THEN [splits |-> <<>>, pos |-> 1, last |-> NoSpot]
        ELSE Round(sizes, total, limit, g[i - 1])]
Rounds(sizes) == [splits : Seq(Ranges), pos : 1 .. Len(sizes), last : Spots]

\* find_splits is what the solution of its recursion ends with, merged.
LEMMA FindSplitsIs ==
  ASSUME NEW sizes, NEW total, NEW limit
  PROVE  FindSplits(sizes, total, limit)
           = MergeLast((CHOOSE g : Splitting(sizes, total, limit, g))[Len(sizes)].splits)
  BY DEF FindSplits, Splitting, Round, NoSpot

\* The types of cumulative sizes.
LEMMA AddUpType ==
  ASSUME NEW sizes, NEW total \in Nat, AddUp(sizes, total)
  PROVE  /\ sizes \in Seq(Spots) /\ sizes # <<>> /\ Len(sizes) \in Nat /\ Len(sizes) >= 1 /\ NoSpot \in Spots
         /\ total > 0
         /\ \A i \in 1 .. Len(sizes) :
              /\ sizes[i] \in Spots /\ sizes[i].count \in Nat /\ sizes[i].size \in Nat
              /\ 0 < sizes[i].count /\ sizes[i].count <= total
              /\ i < Len(sizes) => sizes[i].count < total
  <1> DEFINE n == Len(sizes)
  <1>1. sizes \in Seq(Spots) /\ sizes # <<>> /\ n \in Nat /\ n >= 1 BY DEF AddUp
  <1>2. \A i \in 1 .. n : sizes[i] \in Spots /\ sizes[i].count \in Nat /\ sizes[i].size \in Nat
    <2>1. \A i \in 1 .. n : sizes[i] \in Spots BY <1>1
    <2> QED BY <2>1 DEF Spots
  <1>3. ASSUME NEW i \in 1 .. n
        PROVE  0 < sizes[i].count /\ sizes[i].count <= total /\ (i < n => sizes[i].count < total)
    <2>1. 1 \in 1 .. i /\ n \in 1 .. n /\ i \in 1 .. n /\ 1 \in 1 .. n BY <1>1
    <2>2. sizes[n].count = total /\ sizes[1].count > 0 BY DEF AddUp
    <2>3. (1 < i => sizes[1].count < sizes[i].count) /\ (i < n => sizes[i].count < sizes[n].count)
      BY <2>1 DEF AddUp
    <2>4. (1 < i \/ 1 = i) /\ (i < n \/ i = n) BY <1>1
    <2> QED BY <1>2, <2>1, <2>2, <2>3, <2>4
  <1>4. total > 0
    <2>1. n \in 1 .. n BY <1>1
    <2> QED BY <1>2, <1>3, <2>1
  <1>5. NoSpot \in Spots BY DEF NoSpot, Spots
  <1> QED BY <1>1, <1>2, <1>3, <1>4, <1>5

\* What a round leaves: ranges up to the last position taken.
Reached(sizes, total, limit, i, r) ==
  /\ r \in Rounds(sizes)
  /\ Tiles(r.splits, 0, r.last.count)
  /\ \/ r.splits = <<>> /\ r.last = NoSpot /\ r.pos = 1 /\ i = 0
     \/ /\ r.splits # <<>> /\ r.last = sizes[r.pos]
        /\ r.pos >= i \/ r.last.count = total
  /\ Single(sizes) => \A k \in 1 .. Len(r.splits) : FitsIn(sizes, limit, r.splits[k])

\* A pass of find_splits keeps its types.
LEMMA RoundType ==
  ASSUME NEW sizes, NEW total \in Nat, NEW limit \in Nat, AddUp(sizes, total), NEW r \in Rounds(sizes)
  PROVE  /\ Round(sizes, total, limit, r) \in Rounds(sizes)
         /\ r.pos \in 1 .. Len(sizes) /\ r.last \in Spots
         /\ r.last.count \in Nat /\ r.last.size \in Nat /\ r.splits \in Seq(Ranges)
         /\ SplitAt(sizes, r.pos, r.last, limit) \in 1 .. Len(sizes)
  <1> DEFINE pos == SplitAt(sizes, r.pos, r.last, limit)
             range == [begin |-> r.last.count, end |-> sizes[pos].count]
  <1>1. r.splits \in Seq(Ranges) /\ r.pos \in 1 .. Len(sizes) /\ r.last \in Spots BY DEF Rounds
  <1>2. r.last.count \in Nat /\ r.last.size \in Nat BY <1>1 DEF Spots
  <1>3. sizes \in Seq(Spots) /\ sizes # <<>> BY AddUpType
  <1>4. pos \in 1 .. Len(sizes) BY <1>1, <1>3, SplitIs
  <1>5. sizes[pos] \in Spots /\ sizes[pos].count \in Nat BY <1>4, AddUpType
  <1> HIDE DEF pos
  <1>6. range \in Ranges BY <1>2, <1>5 DEF Ranges
  <1>7. Append(r.splits, range) \in Seq(Ranges)
    <2> HIDE DEF range
    <2> QED BY <1>1, <1>6
  <1>8. [splits |-> Append(r.splits, range), pos |-> pos, last |-> sizes[pos]] \in Rounds(sizes)
    <2> HIDE DEF range
    <2> QED BY <1>4, <1>5, <1>7 DEF Rounds
  <1>9. Round(sizes, total, limit, r) \in Rounds(sizes)
    <2>1. CASE r.last.count >= total BY <2>1 DEF Round
    <2>2. CASE ~(r.last.count >= total)
      <3>1. Round(sizes, total, limit, r) = [splits |-> Append(r.splits, range), pos |-> pos, last |-> sizes[pos]]
        BY <2>2 DEF Round, pos
      <3> QED BY <1>8, <3>1
    <2> QED BY <2>1, <2>2
  <1> QED BY <1>1, <1>2, <1>4, <1>9 DEF pos

\* The range that a round takes has one position or fits.
LEMMA RoundFits ==
  ASSUME NEW sizes, NEW total \in Nat, NEW limit \in Nat, AddUp(sizes, total), Single(sizes),
         NEW r \in Rounds(sizes), r.last.count < total,
         (r.last = NoSpot /\ r.pos = 1) \/ r.last = sizes[r.pos],
         sizes[SplitAt(sizes, r.pos, r.last, limit)].count > r.last.count
  PROVE  FitsIn(sizes, limit, [begin |-> r.last.count,
                               end |-> sizes[SplitAt(sizes, r.pos, r.last, limit)].count])
  <1> DEFINE n == Len(sizes)
             at == r.last.count
             f == Fitting(sizes, r.pos, r.last, limit)
             s == Short(sizes, r.last, f)
             p == SplitAt(sizes, r.pos, r.last, limit)
  <1>1. /\ sizes \in Seq(Spots) /\ sizes # <<>> /\ n \in Nat /\ n >= 1
        /\ \A i \in 1 .. n : sizes[i].size \in Nat
    BY AddUpType
  <1>2. \A i \in 1 .. n : sizes[i].count = i BY DEF Single
  <1>3. total = n
    <2>1. sizes[n].count = total /\ n \in 1 .. n BY <1>1 DEF AddUp
    <2> QED BY <1>2, <2>1
  <1>4. r.pos \in 1 .. n /\ r.last \in Spots /\ at \in Nat /\ r.last.size \in Nat /\ p \in 1 .. n
    BY RoundType
  <1>5. /\ p >= s /\ \A i \in 1 .. n : i >= s /\ sizes[i].count > at => p <= i
    BY <1>1, <1>4, SplitIs
  <1>6. p > at /\ sizes[p].count = p BY <1>2, <1>4
  <1>7. r.last.size = SizeAt(sizes, at) /\ at <= r.pos /\ r.pos <= at + 1
    <2>1. CASE r.last = NoSpot /\ r.pos = 1 BY <2>1 DEF NoSpot, SizeAt
    <2>2. CASE r.last = sizes[r.pos] BY <1>2, <1>4, <2>2 DEF SizeAt
    <2> QED BY <2>1, <2>2
  <1>8. f \in r.pos - 1 .. n BY <1>1, <1>4, FittingType
  <1>9. s \in Int /\ s <= f
    <2>1. f \in Int BY <1>1, <1>4, <1>8
    <2> HIDE DEF f
    <2> QED BY <2>1, ShortType
  <1> HIDE DEF s, p
  <1>10. CASE s <= at
    <2>1. at + 1 \in 1 .. n BY <1>3, <1>4
    <2>2. p <= at + 1
      <3>1. sizes[at + 1].count > at BY <1>2, <1>4, <2>1
      <3>2. at + 1 >= s BY <1>4, <1>9, <1>10
      <3> HIDE DEF at, n
      <3> QED BY <1>5, <2>1, <3>1, <3>2
    <2>3. p - at = 1 BY <1>4, <1>6, <2>2
    <2> QED BY <1>6, <2>3 DEF FitsIn, p
  <1>11. CASE s > at
    <2>1. f >= r.pos /\ f >= s /\ f \in 1 .. n
      <3> HIDE DEF f
      <3>1. r.pos \in Nat /\ f \in Int BY <1>4, <1>8
      <3>2. f >= s /\ s >= at + 1 BY <1>4, <1>9, <1>11, <3>1
      <3> QED BY <1>4, <1>7, <1>8, <1>9, <3>1, <3>2
    <2>2. p <= s
      <3>1. s \in 1 .. n BY <1>4, <1>8, <1>9, <1>11, <2>1
      <3> QED BY <1>2, <1>5, <1>9, <1>11, <3>1
    <2>3. sizes[f].size <= r.last.size + limit
      <3>1. \A i \in 1 .. n : \A j \in 1 .. i : sizes[j].size <= sizes[i].size BY DEF AddUp
      <3>2. \A i \in r.pos .. n : sizes[i].size >= r.last.size
        <4>1. CASE r.last = NoSpot
          <5>1. r.last.size = 0 /\ \A i \in r.pos .. n : i \in 1 .. n BY <1>4, <4>1 DEF NoSpot
          <5> QED BY <1>1, <5>1
        <4>2. CASE r.last = sizes[r.pos]
          <5>1. \A i \in r.pos .. n : i \in 1 .. n /\ r.pos \in 1 .. i BY <1>4
          <5> QED BY <1>1, <1>4, <3>1, <4>2, <5>1
        <4> QED BY <4>1, <4>2
      <3> QED BY <1>1, <1>4, <2>1, <3>1, <3>2, FittingFits
    <2>4. sizes[p].size <= sizes[f].size
      <3>1. p \in 1 .. f BY <1>4, <1>9, <2>1, <2>2
      <3> QED BY <2>1, <3>1 DEF AddUp
    <2>5. SizeAt(sizes, p) = sizes[p].size /\ sizes[p].size \in Nat /\ sizes[f].size \in Nat
      BY <1>1, <1>4, <2>1 DEF SizeAt
    <2>6. SizeAt(sizes, p) - SizeAt(sizes, at) <= limit
      <3> HIDE DEF f, at
      <3> QED BY <1>4, <1>7, <2>3, <2>4, <2>5
    <2> QED BY <1>6, <2>6 DEF FitsIn, p
  <1> QED BY <1>4, <1>9, <1>10, <1>11

\* Each pass takes the next positions, at least one.
LEMMA RoundReaches ==
  ASSUME NEW sizes, NEW total \in Nat, NEW limit \in Nat, AddUp(sizes, total),
         NEW i \in 1 .. Len(sizes), NEW r, Reached(sizes, total, limit, i - 1, r)
  PROVE  Reached(sizes, total, limit, i, Round(sizes, total, limit, r))
  <1> DEFINE n == Len(sizes)
             p == SplitAt(sizes, r.pos, r.last, limit)
             range == [begin |-> r.last.count, end |-> sizes[p].count]
             t == Append(r.splits, range)
             q == [splits |-> t, pos |-> p, last |-> sizes[p]]
  <1>1. r \in Rounds(sizes) BY DEF Reached
  <1>2. /\ r.pos \in 1 .. n /\ r.last \in Spots /\ r.last.count \in Nat /\ r.splits \in Seq(Ranges) /\ p \in 1 .. n
        /\ Round(sizes, total, limit, r) \in Rounds(sizes)
    BY <1>1, RoundType
  <1>3. n \in Nat /\ n >= 1 /\ sizes \in Seq(Spots) /\ sizes # <<>> /\ total > 0
    BY AddUpType
  <1>4. CASE r.last.count >= total
    <2>1. Round(sizes, total, limit, r) = r BY <1>4 DEF Round
    <2>2. r.splits # <<>> /\ r.last = sizes[r.pos]
      <3>1. NoSpot.count = 0 BY DEF NoSpot
      <3> QED BY <1>3, <1>4, <3>1 DEF Reached
    <2>3. r.last.count = total
      <3>1. sizes[r.pos].count <= total BY <1>2, AddUpType
      <3> QED BY <1>2, <1>4, <2>2, <3>1
    <2> QED BY <2>1, <2>2, <2>3 DEF Reached
  <1>5. CASE r.last.count < total
    <2>1. Round(sizes, total, limit, r) = q BY <1>2, <1>5 DEF Round
    <2>2. sizes[p].count > r.last.count
      <3>1. p = n \/ sizes[p].count > r.last.count BY <1>2, <1>3, SplitIs
      <3>2. sizes[n].count = total BY DEF AddUp
      <3> QED BY <1>5, <3>1, <3>2
    <2>3. sizes[p].count \in Nat BY <1>2, AddUpType
    <2>4. p >= i
      <3>1. CASE i = 1 BY <1>2, <3>1
      <3>2. CASE i # 1
        <4>1. r.last = sizes[r.pos] /\ r.pos >= i - 1 BY <1>5, <3>2 DEF Reached
        <4>2. ~(p <= r.pos)
          <5>1. SUFFICES ASSUME p <= r.pos PROVE FALSE OBVIOUS
          <5>2. p \in 1 .. r.pos BY <1>2, <5>1
          <5>3. p < r.pos => sizes[p].count < sizes[r.pos].count BY <1>2, <5>2 DEF AddUp
          <5>4. p = r.pos \/ p < r.pos BY <1>2, <5>1
          <5> QED BY <1>2, <2>2, <2>3, <4>1, <5>3, <5>4
        <4> QED BY <1>2, <4>1, <4>2
      <3> QED BY <3>1, <3>2
    <2>5. Tiles(t, 0, sizes[p].count) /\ t # <<>>
      <3>1. Tiles(r.splits, 0, r.last.count) BY DEF Reached
      <3> QED BY <1>2, <2>2, <2>3, <3>1, TilesAppend
    <2>6. ASSUME Single(sizes), NEW k \in 1 .. Len(t) PROVE FitsIn(sizes, limit, t[k])
      <3>1. FitsIn(sizes, limit, range)
        <4>1. (r.last = NoSpot /\ r.pos = 1) \/ r.last = sizes[r.pos] BY DEF Reached
        <4> QED BY <1>1, <1>5, <2>2, <2>6, <4>1, RoundFits
      <3>2. Len(t) = Len(r.splits) + 1 /\ Len(r.splits) \in Nat /\ t[Len(r.splits) + 1] = range
        <4> HIDE DEF range
        <4> QED BY <1>2
      <3>3. k \in 1 .. Len(r.splits) => t[k] = r.splits[k] BY <1>2
      <3> HIDE DEF t, range
      <3>4. k = Len(r.splits) + 1 \/ k \in 1 .. Len(r.splits) BY <3>2
      <3> QED BY <2>6, <3>1, <3>2, <3>3, <3>4 DEF Reached
    <2> HIDE DEF p, t
    <2>7. q.splits = t /\ q.pos = p /\ q.last = sizes[p] OBVIOUS
    <2> HIDE DEF q
    <2>8. q \in Rounds(sizes) BY <1>2, <2>1
    <2>9. Reached(sizes, total, limit, i, q) BY <2>4, <2>5, <2>6, <2>7, <2>8 DEF Reached
    <2> QED BY <2>1, <2>9
  <1> QED BY <1>2, <1>4, <1>5

\* find_splits makes ranges that follow each other up to the total, and each of them
\* fits when a position is one thing.
LEMMA SplitsTile ==
  ASSUME NEW sizes, NEW total \in Nat, NEW limit \in Nat, AddUp(sizes, total)
  PROVE  LET splits == FindSplits(sizes, total, limit)
         IN  /\ Tiles(splits, 0, total)
             /\ Single(sizes) => \A k \in 1 .. Len(splits) :
                  \/ FitsIn(sizes, limit, splits[k])
                  \/ k = Len(splits) /\ FitsInMerged(sizes, limit, splits[k])
  <1> DEFINE n == Len(sizes)
             a == [splits |-> <<>>, pos |-> 1, last |-> NoSpot]
             D == Rounds(sizes)
             T == [i \in 1 .. n |-> [r \in D |-> Round(sizes, total, limit, r)]]
  <1>1. n \in Nat /\ n >= 1 /\ NoSpot \in Spots /\ total > 0 BY AddUpType
  <1>2. a \in D
    <2>1. <<>> \in Seq(Ranges) /\ 1 \in 1 .. n BY <1>1
    <2> QED BY <1>1, <2>1 DEF Rounds
  <1>3. \A i \in 1 .. n : T[i] \in [D -> D] /\ \A r \in D : T[i][r] = Round(sizes, total, limit, r)
    BY RoundType
  <1>4. T \in [1 .. n -> [D -> D]]
    <2>1. DOMAIN T = 1 .. n /\ T = [i \in 1 .. n |-> T[i]] OBVIOUS
    <2> HIDE DEF T, D
    <2> QED BY <1>3, <2>1
  <1> HIDE DEF T
  <1>5. PICK f \in [0 .. n -> D] : Loops(n, a, T, f)
    <2> HIDE DEF a, D, n
    <2> QED BY <1>1, <1>2, <1>4, LoopsRun
  <1>6. Splitting(sizes, total, limit, f)
    <2>1. \A i \in 1 .. n : f[i] = Round(sizes, total, limit, f[i - 1])
      <3>1. ASSUME NEW i \in 1 .. n PROVE f[i] = Round(sizes, total, limit, f[i - 1])
        <4> HIDE DEF n, a
        <4>0. f[i] = T[i][f[i - 1]] BY <1>5 DEF Loops
        <4>1. f[i] = T[i][f[i - 1]] /\ i - 1 \in 0 .. n BY <1>1, <4>0
        <4> HIDE DEF D
        <4>2. f[i - 1] \in D BY <1>5, <4>1
        <4> QED BY <1>3, <4>1, <4>2
      <3> QED BY <3>1
    <2>2. f[0] = a BY <1>5 DEF Loops
    <2> QED BY <2>1, <2>2 DEF Splitting
  <1>7. PICK g : g = (CHOOSE h : Splitting(sizes, total, limit, h)) OBVIOUS
  <1>8. Splitting(sizes, total, limit, g) BY <1>6, <1>7
  <1>9. g[0] = a /\ \A i \in 1 .. n : g[i] = Round(sizes, total, limit, g[i - 1])
    BY <1>8 DEF Splitting
  <1> DEFINE S == {i \in 0 .. n : Reached(sizes, total, limit, i, g[i])}
  <1>10. 0 \in S
    <2>1. Tiles(<<>>, 0, 0) BY DEF Tiles
    <2>2. NoSpot.count = 0 BY DEF NoSpot
    <2>3. a.splits = <<>> /\ a.pos = 1 /\ a.last = NoSpot OBVIOUS
    <2> HIDE DEF a
    <2>4. Reached(sizes, total, limit, 0, a) BY <1>2, <2>1, <2>2, <2>3 DEF Reached
    <2> QED BY <1>9, <2>4
  <1>11. ASSUME NEW i \in 1 .. n, i - 1 \in S PROVE i \in S
    <2>1. Reached(sizes, total, limit, i - 1, g[i - 1]) BY <1>11
    <2>2. Reached(sizes, total, limit, i, Round(sizes, total, limit, g[i - 1])) BY <2>1, RoundReaches
    <2> QED BY <1>9, <2>2
  <1>12. Reached(sizes, total, limit, n, g[n])
    <2> HIDE DEF S, n
    <2>1. \A i \in 0 .. n : i \in S BY <1>1, <1>10, <1>11, Stepwise
    <2>2. n \in S BY <1>1, <2>1
    <2> QED BY <2>2 DEF S
  <1> DEFINE s == g[n].splits
             m == MergeLast(s)
  <1>13. FindSplits(sizes, total, limit) = m BY <1>7, FindSplitsIs
  <1>14. Tiles(s, 0, total)
    <2>1. g[n].last.count = total
      <3>1. g[n].last = sizes[g[n].pos] /\ (g[n].pos >= n \/ g[n].last.count = total)
        BY <1>1, <1>12 DEF Reached
      <3>2. g[n].pos \in 1 .. n BY <1>12 DEF Reached, Rounds
      <3>3. sizes[n].count = total BY DEF AddUp
      <3>4. g[n].pos >= n => g[n].pos = n BY <1>1, <3>2
      <3> QED BY <3>1, <3>3, <3>4
    <2> QED BY <1>12, <2>1 DEF Reached
  <1>15. Single(sizes) => \A k \in 1 .. Len(s) : FitsIn(sizes, limit, s[k])
    BY <1>12 DEF Reached
  <1> HIDE DEF s
  <1>16. Tiles(m, 0, total) BY <1>14, MergeTiles
  <1>17. ASSUME Single(sizes), NEW k \in 1 .. Len(m)
         PROVE  FitsIn(sizes, limit, m[k]) \/ (k = Len(m) /\ FitsInMerged(sizes, limit, m[k]))
    <2>1. CASE k \in 1 .. Len(s) /\ m[k] = s[k] BY <1>15, <1>17, <2>1
    <2>2. CASE /\ k = Len(m) /\ k \in 1 .. Len(s) - 1 /\ k + 1 = Len(s)
               /\ m[k] = [begin |-> s[k].begin, end |-> s[k + 1].end]
               /\ s[k + 1].end - s[k + 1].begin <= (15 * (s[k].end - s[k].begin)) \div 100
      <3>1. s \in Seq(Ranges) BY <1>14 DEF Tiles
      <3>2. Len(s) \in Nat /\ k \in 1 .. Len(s) /\ k + 1 \in 1 .. Len(s) BY <2>2, <3>1
      <3>3. /\ s[k].begin \in Nat /\ s[k].end \in Nat /\ s[k].begin < s[k].end
            /\ s[k + 1].begin \in Nat /\ s[k + 1].end \in Nat /\ s[k + 1].begin < s[k + 1].end
        BY <1>14, <3>2, TilesInside
      <3>4. s[k].end = s[k + 1].begin BY <1>14, <2>2 DEF Tiles
      <3>5. s[k] = [begin |-> s[k].begin, end |-> s[k].end]
        <4>1. s[k] \in Ranges BY <3>1, <3>2
        <4> QED BY <4>1 DEF Ranges
      <3>6. FitsIn(sizes, limit, [begin |-> s[k].begin, end |-> s[k].end])
        BY <1>15, <1>17, <3>2, <3>5
      <3>7. 100 * (s[k + 1].end - s[k].end) <= 15 * (s[k].end - s[k].begin)
        <4>1. PICK x, y : x = s[k + 1].end - s[k + 1].begin /\ y = s[k].end - s[k].begin OBVIOUS
        <4>a. s[k + 1].end - s[k + 1].begin \in Nat BY <3>3, LengthType
        <4>b. s[k].end - s[k].begin \in Nat BY <3>3, LengthType
        <4>2. x \in Nat /\ y \in Nat BY <4>1, <4>a, <4>b
        <4>3. x <= (15 * y) \div 100 BY <2>2, <4>1
        <4>4. 100 * x <= 15 * y BY <4>2, <4>3, FifteenPercent
        <4> QED BY <3>4, <4>1, <4>4
      <3>8. m[k].begin = s[k].begin /\ m[k].end = s[k + 1].end BY <2>2
      <3>9. s[k].end \in m[k].begin + 1 .. m[k].end - 1
        <4>1. PICK x, y, z : x = m[k].begin /\ y = m[k].end /\ z = s[k].end OBVIOUS
        <4>2. x \in Nat /\ y \in Nat /\ z \in Nat /\ x < z /\ z < y BY <3>3, <3>4, <3>8, <4>1
        <4>3. z \in x + 1 .. y - 1 BY <4>2
        <4> QED BY <4>1, <4>3
      <3>10. FitsInMerged(sizes, limit, m[k]) BY <3>6, <3>7, <3>8, <3>9 DEF FitsInMerged
      <3> QED BY <2>2, <3>10
    <2> QED BY <1>14, <2>1, <2>2, MergeTiles
  <1> QED BY <1>13, <1>16, <1>17

(***************************************************************************)
(* What is split: sums of counts, sizes and rows.                           *)
(***************************************************************************)
LEMMA CumulativeIs ==
  ASSUME NEW n \in Nat, NEW counts, DOMAIN counts = 1 .. n, NEW sizes, NEW rows,
         \A i \in 1 .. n : counts[i] \in Nat /\ sizes[i] \in Nat /\ rows[i] \in Nat
  PROVE  LET c == Cumulative(counts, sizes, rows)
         IN  /\ c \in Seq(Spots) /\ Len(c) = n
             /\ \A i \in 1 .. n : c[i].count = SumUpTo(counts, i) /\ c[i].size = SumUpTo(sizes, i)
  <1> DEFINE f == [i \in 1 .. n |-> [count |-> SumUpTo(counts, i), size |-> SumUpTo(sizes, i),
                                     rows |-> SumUpTo(rows, i)]]
  <1>1. \A i \in 1 .. n : SumUpTo(counts, i) \in Nat
    <2>1. \A j \in 0 .. n : \A i \in 0 .. j : SumUpTo(counts, i) \in Nat BY SumGrows
    <2>2. \A i \in 1 .. n : i \in 0 .. n /\ i \in 0 .. i OBVIOUS
    <2> QED BY <2>1, <2>2
  <1>2. \A i \in 1 .. n : SumUpTo(sizes, i) \in Nat
    <2>1. \A j \in 0 .. n : \A i \in 0 .. j : SumUpTo(sizes, i) \in Nat BY SumGrows
    <2>2. \A i \in 1 .. n : i \in 0 .. n /\ i \in 0 .. i OBVIOUS
    <2> QED BY <2>1, <2>2
  <1>3. \A i \in 1 .. n : SumUpTo(rows, i) \in Nat
    <2>1. \A j \in 0 .. n : \A i \in 0 .. j : SumUpTo(rows, i) \in Nat BY SumGrows
    <2>2. \A i \in 1 .. n : i \in 0 .. n /\ i \in 0 .. i OBVIOUS
    <2> QED BY <2>1, <2>2
  <1>4. f \in [1 .. n -> Spots] BY <1>1, <1>2, <1>3 DEF Spots
  <1>5. Cumulative(counts, sizes, rows) = AsTuple(f) BY DEF Cumulative
  <1>6. \A i \in 1 .. n : f[i].count = SumUpTo(counts, i) /\ f[i].size = SumUpTo(sizes, i)
    OBVIOUS
  <1> HIDE DEF f
  <1>7. AsTuple(f) = f /\ f \in Seq(Spots) /\ Len(f) = n BY <1>4, AsTupleIs
  <1> QED BY <1>5, <1>6, <1>7

\* The sum of n ones is n.
LEMMA OnesCount ==
  ASSUME NEW n \in Nat
  PROVE  \A m \in 0 .. n : SumUpTo(Ones(n), m) = m
  <1> DEFINE S == {m \in 0 .. n : SumUpTo(Ones(n), m) = m}
  <1>1. \A i \in 1 .. n : Ones(n)[i] = 1 BY DEF Ones
  <1>2. \A i \in 1 .. n : Ones(n)[i] \in Int BY <1>1
  <1>3. 0 \in S BY <1>2, SumRules
  <1>4. ASSUME NEW i \in 1 .. n, i - 1 \in S PROVE i \in S
    <2>1. SumUpTo(Ones(n), i) = SumUpTo(Ones(n), i - 1) + Ones(n)[i] BY <1>2, SumRules
    <2> QED BY <1>1, <1>4, <2>1
  <1> HIDE DEF S
  <1>5. \A i \in 0 .. n : i \in S BY <1>3, <1>4, Stepwise
  <1> QED BY <1>5 DEF S

\* Sums over positions are what find_splits expects.
LEMMA CountsAddUp ==
  ASSUME NEW n \in Nat \ {0}, NEW sizes, NEW rows, \A i \in 1 .. n : sizes[i] \in Nat /\ rows[i] \in Nat
  PROVE  LET c == Cumulative(Ones(n), sizes, rows)
         IN  AddUp(c, n) /\ Single(c) /\ Len(c) = n /\ \A k \in 0 .. n : SizeAt(c, k) = SumUpTo(sizes, k)
  <1> DEFINE c == Cumulative(Ones(n), sizes, rows)
  <1>1. /\ c \in Seq(Spots) /\ Len(c) = n
        /\ \A i \in 1 .. n : c[i].count = SumUpTo(Ones(n), i) /\ c[i].size = SumUpTo(sizes, i)
    <2>1. DOMAIN Ones(n) = 1 .. n /\ \A i \in 1 .. n : Ones(n)[i] \in Nat BY DEF Ones
    <2> QED BY <2>1, CumulativeIs
  <1> HIDE DEF c
  <1>2. \A i \in 1 .. n : c[i].count = i BY <1>1, OnesCount
  <1>3. \A i \in 0 .. n : \A j \in 0 .. i : SumUpTo(sizes, j) \in Nat /\ SumUpTo(sizes, j) <= SumUpTo(sizes, i)
    BY SumGrows
  <1>4. \A i \in 1 .. n : \A j \in 1 .. i : c[j].size <= c[i].size /\ (j < i => c[j].count < c[i].count)
    <2>1. ASSUME NEW i \in 1 .. n, NEW j \in 1 .. i
          PROVE  c[j].size <= c[i].size /\ (j < i => c[j].count < c[i].count)
      <3>1. j \in 1 .. n /\ i \in 0 .. n /\ j \in 0 .. i OBVIOUS
      <3> QED BY <1>1, <1>2, <1>3, <3>1
    <2> QED BY <2>1
  <1>5. c # <<>> /\ 1 \in 1 .. n /\ n \in 1 .. n BY <1>1
  <1>6. AddUp(c, n) BY <1>1, <1>2, <1>4, <1>5 DEF AddUp
  <1>7. Single(c) BY <1>1, <1>2 DEF Single
  <1>8. ASSUME NEW k \in 0 .. n PROVE SizeAt(c, k) = SumUpTo(sizes, k)
    <2>1. SumUpTo(sizes, 0) = 0 BY SumRules
    <2> QED BY <1>1, <2>1 DEF SizeAt
  <1> QED BY <1>1, <1>6, <1>7, <1>8 DEF c

\* Ranges of positions: no gap, and each of them fits.
LEMMA RangesTile ==
  ASSUME NEW n \in Nat \ {0}, NEW sizes, NEW rows, \A i \in 1 .. n : sizes[i] \in Nat /\ rows[i] \in Nat,
         NEW limit \in Nat
  PROVE  LET s == FindSplits(Cumulative(Ones(n), sizes, rows), n, limit)
         IN  Tiles(s, 0, n) /\ AllFit(s, sizes, limit)
  <1> DEFINE c == Cumulative(Ones(n), sizes, rows)
             s == FindSplits(c, n, limit)
  <1>1. AddUp(c, n) /\ Single(c) /\ Len(c) = n /\ \A k \in 0 .. n : SizeAt(c, k) = SumUpTo(sizes, k)
    BY CountsAddUp
  <1> HIDE DEF c
  <1>2. /\ Tiles(s, 0, n)
        /\ \A k \in 1 .. Len(s) : FitsIn(c, limit, s[k]) \/ (k = Len(s) /\ FitsInMerged(c, limit, s[k]))
    BY <1>1, SplitsTile
  <1> HIDE DEF s
  <1>3. s \in Seq(Ranges) /\ DOMAIN s = 1 .. Len(s) BY <1>2 DEF Tiles
  <1>4. ASSUME NEW range \in Ranges, range.end <= n, range.begin <= n, FitsIn(c, limit, range)
        PROVE  Fits(range, sizes, limit)
    <2>1. range.begin \in 0 .. n /\ range.end \in 0 .. n BY <1>4 DEF Ranges
    <2>2. SizeAt(c, range.begin) = SumUpTo(sizes, range.begin) /\ SizeAt(c, range.end) = SumUpTo(sizes, range.end)
      BY <1>1, <2>1
    <2> QED BY <1>4, <2>2 DEF FitsIn, Fits
  <1>5. ASSUME NEW k \in 1 .. Len(s)
        PROVE  Fits(s[k], sizes, limit) \/ (k = Len(s) /\ FitsMerged(s[k], sizes, limit))
    <2>1. s[k] \in Ranges /\ s[k].begin \in Nat /\ s[k].end \in Nat /\ s[k].begin < s[k].end /\ s[k].end <= n
      <3>1. s[k] \in Ranges BY <1>3
      <3> QED BY <1>2, <3>1, TilesInside
    <2>2. CASE FitsIn(c, limit, s[k]) BY <1>4, <2>1, <2>2
    <2>3. CASE k = Len(s) /\ FitsInMerged(c, limit, s[k])
      <3>1. PICK end \in s[k].begin + 1 .. s[k].end - 1 :
              /\ FitsIn(c, limit, [begin |-> s[k].begin, end |-> end])
              /\ 100 * (s[k].end - end) <= 15 * (end - s[k].begin)
        BY <2>3 DEF FitsInMerged
      <3>2. PICK range : range = [begin |-> s[k].begin, end |-> end] OBVIOUS
      <3>3. range \in Ranges /\ range.end <= n /\ range.begin <= n BY <2>1, <3>1, <3>2 DEF Ranges
      <3>4. [s[k] EXCEPT !.end = end] = range BY <2>1, <3>2 DEF Ranges
      <3>5. Fits([s[k] EXCEPT !.end = end], sizes, limit) BY <1>4, <3>1, <3>2, <3>3, <3>4
      <3>6. FitsMerged(s[k], sizes, limit) BY <3>1, <3>5 DEF FitsMerged
      <3> QED BY <2>3, <3>6
    <2> QED BY <1>2, <2>2, <2>3
  <1>6. AllFit(s, sizes, limit) BY <1>3, <1>5 DEF AllFit
  <1> QED BY <1>2, <1>6 DEF s, c

\* The same numbered from another start.
LEMMA ShiftTiles ==
  ASSUME NEW s, NEW n \in Nat, NEW b \in Nat, Tiles(s, 0, n)
  PROVE  /\ Tiles(ShiftedBy(s, b), b, b + n)
         /\ Len(ShiftedBy(s, b)) = Len(s) /\ DOMAIN ShiftedBy(s, b) = 1 .. Len(s)
         /\ \A k \in 1 .. Len(s) : ShiftedBy(s, b)[k] = [begin |-> s[k].begin + b, end |-> s[k].end + b]
  <1> DEFINE t == [k \in 1 .. Len(s) |-> [begin |-> s[k].begin + b, end |-> s[k].end + b]]
  <1>1. s \in Seq(Ranges) /\ Len(s) \in Nat /\ DOMAIN s = 1 .. Len(s) BY DEF Tiles
  <1>2. ShiftedBy(s, b) = t BY <1>1 DEF ShiftedBy
  <1>3. \A k \in 1 .. Len(s) : s[k].begin \in Nat /\ s[k].end \in Nat
    <2>1. \A k \in 1 .. Len(s) : s[k] \in Ranges BY <1>1
    <2> QED BY <2>1 DEF Ranges
  <1>4. /\ \A k \in 1 .. Len(s) : t[k] = [begin |-> s[k].begin + b, end |-> s[k].end + b]
        /\ DOMAIN t = 1 .. Len(s)
    OBVIOUS
  <1>5. t \in [1 .. Len(s) -> Ranges] BY <1>3 DEF Ranges
  <1> HIDE DEF t
  <1>6. t \in Seq(Ranges) /\ Len(t) = Len(s) BY <1>1, <1>5, AsTupleIs
  <1>7. \A k \in 1 .. Len(s) : t[k].begin = s[k].begin + b /\ t[k].end = s[k].end + b BY <1>4
  <1>8. t = <<>> => b = b + n
    <2>1. t = <<>> => s = <<>> BY <1>1, <1>6
    <2> QED BY <2>1 DEF Tiles
  <1>9. t # <<>> => t[1].begin = b /\ t[Len(t)].end = b + n
    <2>1. SUFFICES ASSUME t # <<>> PROVE t[1].begin = b /\ t[Len(t)].end = b + n OBVIOUS
    <2>2. s # <<>> /\ 1 \in 1 .. Len(s) /\ Len(s) \in 1 .. Len(s) BY <1>1, <1>6, <2>1
    <2>3. s[1].begin = 0 /\ s[Len(s)].end = n BY <2>2 DEF Tiles
    <2> QED BY <1>6, <1>7, <2>2, <2>3
  <1>10. \A k \in 1 .. Len(t) : t[k].begin < t[k].end
    <2>1. ASSUME NEW k \in 1 .. Len(s) PROVE t[k].begin < t[k].end
      <3>1. s[k].begin < s[k].end BY DEF Tiles
      <3>2. s[k].begin \in Nat /\ s[k].end \in Nat BY <1>3
      <3>3. t[k].begin = s[k].begin + b /\ t[k].end = s[k].end + b BY <1>7
      <3> HIDE DEF t
      <3> QED BY <3>1, <3>2, <3>3
    <2> QED BY <1>6, <2>1
  <1>11. \A k \in 1 .. Len(t) - 1 : t[k].end = t[k + 1].begin
    <2>1. ASSUME NEW k \in 1 .. Len(s) - 1 PROVE t[k].end = t[k + 1].begin
      <3>1. k \in 1 .. Len(s) /\ k + 1 \in 1 .. Len(s) BY <1>1
      <3>2. s[k].end = s[k + 1].begin BY DEF Tiles
      <3> QED BY <1>7, <3>1, <3>2
    <2> QED BY <1>6, <2>1
  <1>12. Tiles(t, b, b + n) BY <1>6, <1>8, <1>9, <1>10, <1>11 DEF Tiles
  <1> QED BY <1>2, <1>4, <1>6, <1>12

\* Ranges of a load that fit still fit when they are numbered from the file's first stripe.
LEMMA ShiftFits ==
  ASSUME NEW s, NEW n \in Nat, NEW b \in Nat, Tiles(s, 0, n), NEW limit,
         NEW part, NEW bytes, \A i \in 1 .. b + n : bytes[i] \in Nat, \A i \in 1 .. n : part[i] = bytes[b + i],
         AllFit(s, part, limit)
  PROVE  AllFit(ShiftedBy(s, b), bytes, limit)
  <1> DEFINE t == ShiftedBy(s, b)
  <1>1. /\ Len(t) = Len(s) /\ DOMAIN t = 1 .. Len(s) /\ s \in Seq(Ranges) /\ DOMAIN s = 1 .. Len(s)
        /\ \A k \in 1 .. Len(s) : t[k] = [begin |-> s[k].begin + b, end |-> s[k].end + b]
    BY ShiftTiles DEF Tiles
  <1> HIDE DEF t
  <1>2. \A m \in 0 .. n : SumUpTo(part, m) = SumUpTo(bytes, b + m) - SumUpTo(bytes, b)
    BY SumShift
  <1>3. \A m \in 0 .. b + n : SumUpTo(bytes, m) \in Int BY SumRules
  <1>4. ASSUME NEW begin \in 0 .. n, NEW end \in 0 .. n, Fits([begin |-> begin, end |-> end], part, limit)
        PROVE  Fits([begin |-> begin + b, end |-> end + b], bytes, limit)
    <2>1. b + begin \in 0 .. b + n /\ b + end \in 0 .. b + n /\ b \in 0 .. b + n
          /\ b + begin = begin + b /\ b + end = end + b OBVIOUS
    <2>2. SumUpTo(part, end) - SumUpTo(part, begin) = SumUpTo(bytes, end + b) - SumUpTo(bytes, begin + b)
      <3>1. SumUpTo(bytes, b) \in Int /\ SumUpTo(bytes, end + b) \in Int /\ SumUpTo(bytes, begin + b) \in Int
        BY <1>3, <2>1
      <3>2. /\ SumUpTo(part, end) = SumUpTo(bytes, end + b) - SumUpTo(bytes, b)
            /\ SumUpTo(part, begin) = SumUpTo(bytes, begin + b) - SumUpTo(bytes, b)
        BY <1>2, <2>1
      <3> QED BY <3>1, <3>2
    <2>3. (end + b) - (begin + b) = end - begin OBVIOUS
    <2> QED BY <1>4, <2>2, <2>3 DEF Fits
  <1>5. ASSUME NEW k \in 1 .. Len(s)
        PROVE  Fits(t[k], bytes, limit) \/ (k = Len(s) /\ FitsMerged(t[k], bytes, limit))
    <2>1. /\ s[k] \in Ranges /\ s[k].begin \in Nat /\ s[k].end \in Nat /\ s[k].begin < s[k].end /\ s[k].end <= n
          /\ s[k] = [begin |-> s[k].begin, end |-> s[k].end]
      <3>1. s[k] \in Ranges BY <1>1
      <3>2. s[k] = [begin |-> s[k].begin, end |-> s[k].end] BY <3>1 DEF Ranges
      <3> QED BY <3>1, <3>2, TilesInside
    <2>2. s[k].begin \in 0 .. n /\ s[k].end \in 0 .. n BY <2>1
    <2>3. Fits(s[k], part, limit) \/ (k = Len(s) /\ FitsMerged(s[k], part, limit))
      BY <1>1 DEF AllFit
    <2>4. CASE Fits(s[k], part, limit) BY <1>1, <1>4, <2>1, <2>2, <2>4
    <2>5. CASE k = Len(s) /\ FitsMerged(s[k], part, limit)
      <3>1. PICK end \in s[k].begin + 1 .. s[k].end - 1 :
              /\ Fits([s[k] EXCEPT !.end = end], part, limit)
              /\ 100 * (s[k].end - end) <= 15 * (end - s[k].begin)
        BY <2>5 DEF FitsMerged
      <3>2. [s[k] EXCEPT !.end = end] = [begin |-> s[k].begin, end |-> end] BY <2>1 DEF Ranges
      <3>3. end \in 0 .. n BY <2>1, <3>1
      <3>4. Fits([begin |-> s[k].begin + b, end |-> end + b], bytes, limit) BY <1>4, <2>2, <3>1, <3>2, <3>3
      <3>5. [t[k] EXCEPT !.end = end + b] = [begin |-> s[k].begin + b, end |-> end + b] BY <1>1
      <3>6. t[k].begin = s[k].begin + b /\ t[k].end = s[k].end + b BY <1>1
      <3>7. /\ end + b \in t[k].begin + 1 .. t[k].end - 1
            /\ 100 * (t[k].end - (end + b)) <= 15 * ((end + b) - t[k].begin)
        <4>1. PICK x \in Int, y \in Int : x = s[k].begin /\ y = s[k].end BY <2>1
        <4>2. end \in x + 1 .. y - 1 BY <4>1
        <4>3. /\ end + b \in (x + b) + 1 .. (y + b) - 1
              /\ (y + b) - (end + b) = y - end /\ (end + b) - (x + b) = end - x
          BY <4>2, MovedBetween
        <4>4. t[k].begin = x + b /\ t[k].end = y + b BY <3>6, <4>1
        <4>5. 100 * (y - end) <= 15 * (end - x) BY <3>1, <4>1
        <4> QED BY <4>3, <4>4, <4>5
      <3>8. FitsMerged(t[k], bytes, limit) BY <3>4, <3>5, <3>7 DEF FitsMerged
      <3> QED BY <2>5, <3>8
    <2> QED BY <2>3, <2>4, <2>5
  <1>6. AllFit(t, bytes, limit) BY <1>1, <1>5 DEF AllFit
  <1> QED BY <1>6 DEF t

(***************************************************************************)
(* The ranges of a table.                                                   *)
(***************************************************************************)
LEMMA DivIs ==
  ASSUME NEW a \in Nat, NEW k \in Nat \ {0}
  PROVE  /\ a \div k \in Nat
         /\ k * (a \div k) <= a /\ a < k * (a \div k) + k
  OBVIOUS

\* Multiplication is monotone.
LEMMA TimesGrows ==
  ASSUME NEW k \in Nat, NEW a \in Nat, NEW b \in Nat, a <= b
  PROVE  k * a <= k * b /\ k * a \in Nat /\ k * b \in Nat
  OBVIOUS

\* Multiplication distributes over the successor.
LEMMA TimesOne ==
  ASSUME NEW k \in Nat, NEW a \in Nat
  PROVE  k * (a + 1) = k * a + k /\ k * a \in Nat
  OBVIOUS

\* The rows in steps: every step has rows, and the last ends with the last row.
Steps(step, num) == (num + step - 1) \div step
\* The steps cover all rows, and each begins before the last row ends.
LEMMA StepsReach ==
  ASSUME NEW num \in Nat \ {0}, NEW step \in 1 .. num
  PROVE  LET n == Steps(step, num)
         IN  /\ n \in Nat \ {0} /\ step * n >= num
             /\ \A i \in 1 .. n : /\ i - 1 \in Nat /\ step * (i - 1) \in Nat /\ step * (i - 1) < num
                                  /\ step * i = step * (i - 1) + step
  <1> DEFINE a == num + step - 1
             n == a \div step
  <1>1. a \in Nat /\ step \in Nat \ {0} /\ step <= a OBVIOUS
  <1>2. n = Steps(step, num) BY DEF Steps
  <1>3. n \in Nat /\ step * n <= a /\ a < step * n + step
    <2> HIDE DEF a
    <2> QED BY <1>1, DivIs
  <1> HIDE DEF n
  <1>4. step * n \in Nat BY <1>1, <1>3, TimesGrows
  <1>5. step * n >= num BY <1>1, <1>3, <1>4
  <1>6. n # 0
    <2>1. step * 0 = 0 BY <1>1
    <2> QED BY <1>5, <2>1
  <1>7. ASSUME NEW i \in 1 .. n
        PROVE  /\ i - 1 \in Nat /\ step * (i - 1) \in Nat /\ step * (i - 1) < num
               /\ step * i = step * (i - 1) + step
    <2>1. i - 1 \in Nat /\ (i - 1) + 1 = i /\ n - 1 \in Nat /\ i - 1 <= n - 1 /\ (n - 1) + 1 = n BY <1>3
    <2>2. step * i = step * (i - 1) + step /\ step * n = step * (n - 1) + step
      BY <1>1, <2>1, TimesOne
    <2>3. step * (i - 1) <= step * (n - 1) /\ step * (i - 1) \in Nat /\ step * (n - 1) \in Nat
      BY <1>1, <2>1, TimesGrows
    <2>4. step * (n - 1) < num BY <1>1, <1>3, <2>2, <2>3
    <2> QED BY <2>1, <2>2, <2>3, <2>4
  <1> QED BY <1>2, <1>3, <1>5, <1>6, <1>7

\* The segments of a table are cumulative sizes that end with its rows.
LEMMA SegmentsAddUp ==
  ASSUME NEW num \in Nat \ {0}, NEW bytes, \A i \in 1 .. num : bytes[i] \in Nat,
         request.granularity \in Nat \ {0}
  PROVE  AddUp(Segments(bytes, num), num)
  <1> DEFINE step == Least(request.granularity, num)
             n == Steps(step, num)
             lengths == [s \in 1 .. n |-> Least(step, num - step * (s - 1))]
             Bytes(s) == SumUpTo(bytes, step * (s - 1) + Least(step, num - step * (s - 1)))
                           - SumUpTo(bytes, step * (s - 1))
             sizes == [s \in 1 .. n |-> Bytes(s)]
  <1>1. step \in 1 .. num BY DEF Least
  <1>2. /\ n \in Nat \ {0} /\ step * n >= num
        /\ \A i \in 1 .. n : /\ i - 1 \in Nat /\ step * (i - 1) \in Nat /\ step * (i - 1) < num
                             /\ step * i = step * (i - 1) + step
    <2> HIDE DEF step
    <2> QED BY <1>1, StepsReach
  <1>s. Segments(bytes, num) = Cumulative(AsTuple(lengths), AsTuple(sizes), Zeros(num))
    BY DEF Segments, Steps
  <1> HIDE DEF step, n
  <1>3. ASSUME NEW i \in 1 .. n
        PROVE  /\ lengths[i] \in Nat /\ lengths[i] > 0 /\ step * (i - 1) + lengths[i] <= num
               /\ step * (i - 1) + lengths[i] = Least(step * i, num)
               /\ step * i < num => lengths[i] = step
    <2>1. lengths[i] = Least(step, num - step * (i - 1)) OBVIOUS
    <2>2. step * (i - 1) \in Nat /\ step * (i - 1) < num /\ step * i = step * (i - 1) + step
      BY <1>2
    <2>3. step \in Nat /\ step > 0 BY <1>1
    <2> HIDE DEF lengths
    <2> QED BY <2>1, <2>2, <2>3 DEF Least
  <1>4. ASSUME NEW i \in 1 .. n PROVE sizes[i] \in Nat
    <2> DEFINE lo == step * (i - 1)
               hi == step * (i - 1) + lengths[i]
    <2>1. sizes[i] = SumUpTo(bytes, hi) - SumUpTo(bytes, lo) OBVIOUS
    <2>2. lo \in 0 .. hi /\ hi \in 0 .. num
      <3>1. step * (i - 1) \in Nat BY <1>2
      <3>2. lengths[i] \in Nat /\ step * (i - 1) + lengths[i] <= num BY <1>3
      <3> HIDE DEF lengths
      <3> QED BY <3>1, <3>2
    <2>3. \A j \in 0 .. num : \A m \in 0 .. j : SumUpTo(bytes, m) \in Nat /\ SumUpTo(bytes, m) <= SumUpTo(bytes, j)
      BY SumGrows
    <2> HIDE DEF lo, hi, sizes
    <2>4. hi \in 0 .. hi BY <2>2
    <2>5. SumUpTo(bytes, lo) \in Nat /\ SumUpTo(bytes, hi) \in Nat /\ SumUpTo(bytes, lo) <= SumUpTo(bytes, hi)
      BY <2>2, <2>3, <2>4
    <2> QED BY <2>1, <2>5
  <1>5. lengths \in [1 .. n -> Nat] /\ sizes \in [1 .. n -> Nat]
    <2>1. lengths = [i \in 1 .. n |-> lengths[i]] /\ sizes = [i \in 1 .. n |-> sizes[i]] OBVIOUS
    <2> HIDE DEF lengths, sizes
    <2> QED BY <1>3, <1>4, <2>1
  <1> HIDE DEF lengths, sizes
  <1>6. AsTuple(lengths) = lengths /\ AsTuple(sizes) = sizes /\ DOMAIN lengths = 1 .. n
    BY <1>2, <1>5, AsTupleIs
  <1>7. n <= num
    <2>1. SUFFICES ASSUME n > num PROVE FALSE BY <1>2
    <2>2. n - 1 \in Nat /\ n \in 1 .. n BY <1>2
    <2>3. step * (n - 1) < num BY <1>2, <2>2
    <2>4. 1 * (n - 1) <= step * (n - 1) BY <1>1, <2>2
    <2> QED BY <1>2, <2>1, <2>2, <2>3, <2>4
  <1> DEFINE c == Cumulative(lengths, sizes, Zeros(num))
  <1>8. /\ c \in Seq(Spots) /\ Len(c) = n
        /\ \A i \in 1 .. n : c[i].count = SumUpTo(lengths, i) /\ c[i].size = SumUpTo(sizes, i)
    <2>1. PICK z : z = Zeros(num) OBVIOUS
    <2>2. \A i \in 1 .. n : z[i] \in Nat BY <1>2, <1>7, <2>1 DEF Zeros
    <2>3. \A i \in 1 .. n : lengths[i] \in Nat /\ sizes[i] \in Nat /\ z[i] \in Nat
      BY <1>3, <1>4, <2>2
    <2>4. n \in Nat /\ DOMAIN lengths = 1 .. n BY <1>2, <1>6
    <2>5. c = Cumulative(lengths, sizes, z) BY <2>1
    <2> HIDE DEF c
    <2> QED BY <2>3, <2>4, <2>5, CumulativeIs
  <1>n. n \in Nat BY <1>2
  <1>l. \A i \in 1 .. n : lengths[i] \in Int BY <1>3
  <1> HIDE DEF c
  <1>9. \A i \in 0 .. n : SumUpTo(lengths, i) = Least(step * i, num)
    <2> DEFINE S == {i \in 0 .. n : SumUpTo(lengths, i) = Least(step * i, num)}
    <2>1. 0 \in S
      <3>1. SumUpTo(lengths, 0) = 0 BY <1>2, <1>3, SumRules
      <3>2. step * 0 = 0 BY <1>1
      <3> QED BY <1>2, <3>1, <3>2 DEF Least
    <2>2. ASSUME NEW i \in 1 .. n, i - 1 \in S PROVE i \in S
      <3>1. SumUpTo(lengths, i) = SumUpTo(lengths, i - 1) + lengths[i] BY <1>n, <1>l, SumRules
      <3>2. SumUpTo(lengths, i - 1) = step * (i - 1)
        <4>1. SumUpTo(lengths, i - 1) = Least(step * (i - 1), num) BY <2>2
        <4>2. step * (i - 1) \in Nat /\ step * (i - 1) < num BY <1>2
        <4> QED BY <4>1, <4>2 DEF Least
      <3>3. SumUpTo(lengths, i) = Least(step * i, num) BY <1>3, <3>1, <3>2
      <3> QED BY <3>3
    <2> HIDE DEF S
    <2>3. \A i \in 0 .. n : i \in S BY <1>2, <2>1, <2>2, Stepwise
    <2> QED BY <2>3 DEF S
  <1>10. \A i \in 0 .. n : \A j \in 0 .. i : SumUpTo(lengths, j) \in Nat /\ SumUpTo(lengths, j) <= SumUpTo(lengths, i)
    BY <1>2, <1>3, SumGrows
  <1>11. \A i \in 0 .. n : \A j \in 0 .. i : SumUpTo(sizes, j) \in Nat /\ SumUpTo(sizes, j) <= SumUpTo(sizes, i)
    BY <1>2, <1>4, SumGrows
  <1>12. ASSUME NEW i \in 1 .. n, NEW j \in 1 .. i
         PROVE  c[j].size <= c[i].size /\ (j < i => c[j].count < c[i].count)
    <2>1. i \in 0 .. n /\ j \in 0 .. i /\ j \in 1 .. n BY <1>2
    <2>2. c[j].size <= c[i].size BY <1>8, <1>11, <2>1
    <2>3. ASSUME j < i PROVE c[j].count < c[i].count
      <3>1. j \in 0 .. i - 1 /\ i - 1 \in 0 .. n /\ i - 1 \in 0 .. i - 1 BY <1>2, <2>3
      <3>2. SumUpTo(lengths, j) \in Nat /\ SumUpTo(lengths, j) <= SumUpTo(lengths, i - 1) /\ SumUpTo(lengths, i - 1) \in Nat
        BY <1>10, <3>1
      <3>3. SumUpTo(lengths, i) = SumUpTo(lengths, i - 1) + lengths[i] BY <1>n, <1>l, SumRules
      <3>4. lengths[i] \in Nat /\ lengths[i] > 0 BY <1>3
      <3> QED BY <1>8, <2>1, <3>2, <3>3, <3>4
    <2> QED BY <2>2, <2>3
  <1>13. c[1].count > 0
    <2>1. 1 \in 1 .. n /\ 1 - 1 = 0 BY <1>2
    <2>2. SumUpTo(lengths, 1) = SumUpTo(lengths, 1 - 1) + lengths[1] BY <1>n, <1>l, <2>1, SumRules
    <2>3. SumUpTo(lengths, 0) = 0 BY <1>2, <1>3, SumRules
    <2>4. lengths[1] \in Nat /\ lengths[1] > 0 BY <1>3, <2>1
    <2> QED BY <1>8, <2>1, <2>2, <2>3, <2>4
  <1>14. c[n].count = num
    <2>1. n \in 1 .. n /\ n \in 0 .. n BY <1>2
    <2>2. Least(step * n, num) = num
      <3>1. step * n \in Int BY <1>1, <1>2
      <3> QED BY <1>2, <3>1 DEF Least
    <2> QED BY <1>8, <1>9, <2>1, <2>2
  <1>15. AddUp(c, num)
    <2>1. c # <<>> BY <1>2, <1>8
    <2> QED BY <1>8, <1>12, <1>13, <1>14, <2>1 DEF AddUp
  <1> QED BY <1>s, <1>6, <1>15 DEF c

\* The scan holds the sums of all prefixes, in ascending order.
LEMMA ScanIs ==
  ASSUME NEW n \in Nat, NEW s, DOMAIN s = 1 .. n, \A i \in 1 .. n : s[i] \in Nat
  PROVE  /\ InclusiveScan(s) \in Seq(Nat) /\ Len(InclusiveScan(s)) = n
         /\ \A i \in 1 .. n : InclusiveScan(s)[i] = SumUpTo(s, i)
         /\ \A i \in 1 .. n : \A j \in 1 .. i : SumUpTo(s, j) \in Nat /\ SumUpTo(s, j) <= SumUpTo(s, i)
  <1> DEFINE f == [i \in 1 .. n |-> SumUpTo(s, i)]
  <1>1. \A i \in 0 .. n : \A j \in 0 .. i : SumUpTo(s, j) \in Nat /\ SumUpTo(s, j) <= SumUpTo(s, i)
    BY SumGrows
  <1>2. \A i \in 1 .. n : \A j \in 1 .. i : SumUpTo(s, j) \in Nat /\ SumUpTo(s, j) <= SumUpTo(s, i)
    <2>1. \A i \in 1 .. n : i \in 0 .. n /\ \A j \in 1 .. i : j \in 0 .. i OBVIOUS
    <2> QED BY <1>1, <2>1
  <1>3. f \in [1 .. n -> Nat]
    <2>1. \A i \in 1 .. n : i \in 1 .. i OBVIOUS
    <2> QED BY <1>2, <2>1
  <1>4. InclusiveScan(s) = AsTuple(f) BY DEF InclusiveScan
  <1>5. \A i \in 1 .. n : f[i] = SumUpTo(s, i) OBVIOUS
  <1> HIDE DEF f
  <1> QED BY <1>2, <1>3, <1>4, <1>5, AsTupleIs

(***************************************************************************)
(* The stripes selected.                                                    *)
(***************************************************************************)
LEMMA RequestType ==
  ASSUME RequestsAreValid, request \in Requests
  PROVE  /\ request.stripes \in Seq([rows : Nat, packed : Nat, block : Nat, out : Nat])
         /\ Len(request.stripes) \in Nat /\ DOMAIN request.stripes = 1 .. Len(request.stripes)
         /\ \A i \in DOMAIN request.stripes :
              /\ Stripe(i).rows \in Nat /\ Stripe(i).packed \in Nat /\ Stripe(i).block \in Nat
              /\ Stripe(i).out \in Nat
         /\ request.picked \in Seq(DOMAIN request.stripes)
         /\ request.skip \in Nat /\ request.num \in Nat /\ request.chunkLimit \in Nat
         /\ request.passLimit \in Nat /\ request.granularity \in Nat \ {0} /\ ColumnLimit \in Nat
  <1>1. /\ request.stripes \in Seq([rows : Nat, packed : Nat, block : Nat, out : Nat])
        /\ request.picked \in Seq(DOMAIN request.stripes)
        /\ {request.skip, request.num, request.chunkLimit, request.passLimit} \subseteq Nat
        /\ request.granularity \in Nat \ {0} /\ ColumnLimit \in Nat
    BY DEF RequestsAreValid
  <1>2. Len(request.stripes) \in Nat /\ DOMAIN request.stripes = 1 .. Len(request.stripes) BY <1>1
  <1>3. ASSUME NEW i \in DOMAIN request.stripes
        PROVE  /\ Stripe(i).rows \in Nat /\ Stripe(i).packed \in Nat /\ Stripe(i).block \in Nat
               /\ Stripe(i).out \in Nat
    <2> DEFINE R == [rows : Nat, packed : Nat, block : Nat, out : Nat]
    <2>1. request.stripes[i] \in R
      <3>1. request.stripes \in Seq(R) /\ i \in 1 .. Len(request.stripes) BY <1>1, <1>2
      <3> HIDE DEF R
      <3> QED BY <3>1
    <2> QED BY <2>1 DEF Stripe
  <1>4. request.skip \in Nat /\ request.num \in Nat /\ request.chunkLimit \in Nat /\ request.passLimit \in Nat
    BY <1>1
  <1> QED BY <1>1, <1>2, <1>3, <1>4

\* The rows of stripes, and of the first k of them together.
RowsIn(stripes) == AsTuple([k \in DOMAIN stripes |-> Stripe(stripes[k]).rows])
RowSum(stripes, k) == SumUpTo(RowsIn(stripes), k)
Numbers == 1 .. Len(request.stripes)

\* The rows of some stripes, and their sums.
LEMMA RowsInIs ==
  ASSUME RequestsAreValid, request \in Requests, NEW stripes \in Seq(Numbers)
  PROVE  /\ Len(stripes) \in Nat /\ DOMAIN RowsIn(stripes) = 1 .. Len(stripes)
         /\ \A k \in 1 .. Len(stripes) :
              stripes[k] \in Numbers /\ RowsIn(stripes)[k] = Stripe(stripes[k]).rows /\ RowsIn(stripes)[k] \in Nat
         /\ \A j \in 0 .. Len(stripes) : \A i \in 0 .. j :
              RowSum(stripes, i) \in Nat /\ RowSum(stripes, i) <= RowSum(stripes, j)
         /\ RowSum(stripes, 0) = 0
  <1> DEFINE n == Len(stripes)
             f == [k \in 1 .. n |-> Stripe(stripes[k]).rows]
  <1>1. n \in Nat /\ DOMAIN stripes = 1 .. n /\ \A k \in 1 .. n : stripes[k] \in Numbers OBVIOUS
  <1>2. \A i \in Numbers : Stripe(i).rows \in Nat BY RequestType DEF Numbers
  <1>3. f \in [1 .. n -> Nat] BY <1>1, <1>2
  <1>4. RowsIn(stripes) = AsTuple(f) BY <1>1 DEF RowsIn
  <1>5. \A k \in 1 .. n : f[k] = Stripe(stripes[k]).rows OBVIOUS
  <1> HIDE DEF f, n
  <1>6. AsTuple(f) = f /\ DOMAIN f = 1 .. n BY <1>1, <1>3, AsTupleIs
  <1>7. \A k \in 1 .. n : f[k] \in Nat BY <1>3
  <1>8. \A j \in 0 .. n : \A i \in 0 .. j : SumUpTo(f, i) \in Nat /\ SumUpTo(f, i) <= SumUpTo(f, j)
    BY <1>1, <1>7, SumGrows
  <1>9. SumUpTo(f, 0) = 0
    <2>1. n \in Nat /\ \A k \in 1 .. n : f[k] \in Int BY <1>1, <1>7
    <2> QED BY <2>1, SumRules
  <1> QED BY <1>1, <1>4, <1>5, <1>6, <1>7, <1>8, <1>9 DEF RowSum, n

\* What one stripe more adds to the sums.
LEMMA RowsAppended ==
  ASSUME RequestsAreValid, request \in Requests, NEW stripes \in Seq(Numbers), NEW i \in Numbers
  PROVE  /\ Append(stripes, i) \in Seq(Numbers) /\ Len(Append(stripes, i)) = Len(stripes) + 1
         /\ RowSum(Append(stripes, i), Len(stripes)) = RowSum(stripes, Len(stripes))
         /\ RowSum(Append(stripes, i), Len(stripes) + 1) = RowSum(stripes, Len(stripes)) + Stripe(i).rows
  <1> DEFINE n == Len(stripes)
             t == Append(stripes, i)
  <1>1. n \in Nat /\ t \in Seq(Numbers) /\ Len(t) = n + 1 /\ t[n + 1] = i /\ \A k \in 1 .. n : t[k] = stripes[k]
    OBVIOUS
  <1> HIDE DEF t
  <1>2. \A k \in 1 .. n + 1 : RowsIn(t)[k] = Stripe(t[k]).rows /\ RowsIn(t)[k] \in Nat BY <1>1, RowsInIs
  <1>3. \A k \in 1 .. n : RowsIn(stripes)[k] = Stripe(stripes[k]).rows /\ RowsIn(stripes)[k] \in Nat BY RowsInIs
  <1>4. \A k \in 1 .. n : RowsIn(stripes)[k] \in Int /\ RowsIn(t)[k] = RowsIn(stripes)[k]
    <2>1. ASSUME NEW k \in 1 .. n PROVE RowsIn(stripes)[k] \in Int /\ RowsIn(t)[k] = RowsIn(stripes)[k]
      <3>1. k \in 1 .. n + 1 /\ t[k] = stripes[k] BY <1>1
      <3> QED BY <1>2, <1>3, <3>1
    <2> QED BY <2>1
  <1> HIDE DEF n
  <1>5. n \in 0 .. n /\ n + 1 \in 1 .. n + 1 /\ (n + 1) - 1 = n /\ n + 1 \in Nat BY <1>1
  <1>6. SumUpTo(RowsIn(t), n) = SumUpTo(RowsIn(stripes), n)
    <2>1. \A m \in 0 .. n : SumUpTo(RowsIn(t), m) = SumUpTo(RowsIn(stripes), m)
      <3>1. n \in Nat BY <1>1
      <3> QED BY <1>4, <3>1, SumSame
    <2> QED BY <1>5, <2>1
  <1>7. SumUpTo(RowsIn(t), n + 1) = SumUpTo(RowsIn(t), (n + 1) - 1) + RowsIn(t)[n + 1]
    <2>1. \A k \in 1 .. n + 1 : RowsIn(t)[k] \in Int BY <1>2
    <2> QED BY <1>5, <2>1, SumRules
  <1>8. RowsIn(t)[n + 1] = Stripe(i).rows BY <1>1, <1>2, <1>5
  <1> QED BY <1>1, <1>5, <1>6, <1>7, <1>8 DEF RowSum, t, n

\* The rows before each stripe of the file.
LEMMA BeforeIs ==
  ASSUME RequestsAreValid, request \in Requests
  PROVE  /\ RowsBefore(1) = 0
         /\ \A i \in Numbers : /\ RowsBefore(i) \in Nat /\ RowsBefore(i + 1) \in Nat /\ Stripe(i).rows \in Nat
                               /\ RowsBefore(i + 1) = RowsBefore(i) + Stripe(i).rows
         /\ TotalRows \in Nat /\ TotalRows = RowsBefore(Len(request.stripes) + 1)
  <1> DEFINE n == Len(request.stripes)
             f == [j \in DOMAIN request.stripes |-> Stripe(j).rows]
  <1>1. n \in Nat /\ DOMAIN request.stripes = 1 .. n /\ \A i \in 1 .. n : Stripe(i).rows \in Nat
    BY RequestType
  <1>2. \A i \in 1 .. n : f[i] \in Nat /\ f[i] \in Int /\ f[i] = Stripe(i).rows BY <1>1
  <1>3. \A k : RowsBefore(k) = SumUpTo(f, k - 1) BY DEF RowsBefore
  <1> HIDE DEF f, n
  <1>4. \A j \in 0 .. n : \A i \in 0 .. j : SumUpTo(f, i) \in Nat BY <1>1, <1>2, SumGrows
  <1>5. SumUpTo(f, 0) = 0 /\ \A m \in 1 .. n : SumUpTo(f, m) = SumUpTo(f, m - 1) + f[m]
    BY <1>1, <1>2, SumRules
  <1>6. RowsBefore(1) = 0
    <2>1. 1 - 1 = 0 OBVIOUS
    <2> QED BY <1>3, <1>5, <2>1
  <1>7. ASSUME NEW i \in 1 .. n
        PROVE  /\ RowsBefore(i) \in Nat /\ RowsBefore(i + 1) \in Nat /\ Stripe(i).rows \in Nat
               /\ RowsBefore(i + 1) = RowsBefore(i) + Stripe(i).rows
    <2>1. (i + 1) - 1 = i /\ i - 1 \in 0 .. n /\ i \in 0 .. n /\ i - 1 \in 0 .. i - 1 /\ i \in 0 .. i BY <1>1
    <2>2. RowsBefore(i) = SumUpTo(f, i - 1) /\ RowsBefore(i + 1) = SumUpTo(f, i) BY <1>3, <2>1
    <2> QED BY <1>2, <1>4, <1>5, <2>1, <2>2
  <1>8. TotalRows \in Nat
    <2>1. n \in 0 .. n /\ (n + 1) - 1 = n BY <1>1
    <2>2. TotalRows = SumUpTo(f, n) BY <1>3, <2>1 DEF TotalRows, n
    <2> QED BY <1>4, <2>1, <2>2
  <1> QED BY <1>6, <1>7, <1>8 DEF Numbers, TotalRows, n

\* The loop of Chosen.
Visit(i, last) ==
  IF RowsBefore(i) >= SkipRows + ReadRows THEN last
  ELSE IF RowsBefore(i + 1) > SkipRows \/ RowsBefore(i + 1) = 0
       THEN [last EXCEPT !.stripes = Append(@, i)]
       ELSE [last EXCEPT !.left = RowsBefore(i + 1)]
Visiting(g) ==
  g = [i \in 0 .. Len(request.stripes) |->
        IF i = 0 THEN [stripes |-> <<>>, left |-> 0] ELSE Visit(i, g[i - 1])]
Picks == [stripes : Seq(Numbers), left : Nat]

\* The selection is what the solution of its recursion ends with.
LEMMA ChosenIs == Chosen = (CHOOSE g : Visiting(g))[Len(request.stripes)]
  BY DEF Chosen, Visiting, Visit

\* A stripe is beyond the end, taken, or left out.
LEMMA VisitType ==
  ASSUME RequestsAreValid, request \in Requests, NEW i \in Numbers, NEW last \in Picks
  PROVE  /\ Visit(i, last) \in Picks /\ last.stripes \in Seq(Numbers) /\ last.left \in Nat
         /\ \/ RowsBefore(i) >= SkipRows + ReadRows /\ Visit(i, last) = last
            \/ /\ ~(RowsBefore(i) >= SkipRows + ReadRows)
               /\ RowsBefore(i + 1) > SkipRows \/ RowsBefore(i + 1) = 0
               /\ Visit(i, last).stripes = Append(last.stripes, i) /\ Visit(i, last).left = last.left
            \/ /\ ~(RowsBefore(i) >= SkipRows + ReadRows)
               /\ ~(RowsBefore(i + 1) > SkipRows \/ RowsBefore(i + 1) = 0)
               /\ Visit(i, last).stripes = last.stripes /\ Visit(i, last).left = RowsBefore(i + 1)
  <1>1. last.stripes \in Seq(Numbers) /\ last.left \in Nat /\ last = [stripes |-> last.stripes, left |-> last.left]
    BY DEF Picks
  <1>2. RowsBefore(i + 1) \in Nat BY BeforeIs
  <1>3. Append(last.stripes, i) \in Seq(Numbers) BY <1>1
  <1>4. CASE RowsBefore(i) >= SkipRows + ReadRows BY <1>1, <1>4 DEF Visit
  <1>5. CASE /\ ~(RowsBefore(i) >= SkipRows + ReadRows)
             /\ RowsBefore(i + 1) > SkipRows \/ RowsBefore(i + 1) = 0
    <2>1. Visit(i, last) = [last EXCEPT !.stripes = Append(@, i)] BY <1>5 DEF Visit
    <2>2. Visit(i, last) = [stripes |-> Append(last.stripes, i), left |-> last.left] BY <1>1, <2>1
    <2> QED BY <1>1, <1>3, <1>5, <2>2 DEF Picks
  <1>6. CASE /\ ~(RowsBefore(i) >= SkipRows + ReadRows)
             /\ ~(RowsBefore(i + 1) > SkipRows \/ RowsBefore(i + 1) = 0)
    <2>1. Visit(i, last) = [last EXCEPT !.left = RowsBefore(i + 1)] BY <1>6 DEF Visit
    <2>2. Visit(i, last) = [stripes |-> last.stripes, left |-> RowsBefore(i + 1)] BY <1>1, <2>1
    <2> QED BY <1>1, <1>2, <1>6, <2>2 DEF Picks
  <1> QED BY <1>4, <1>5, <1>6

\* After i stripes: those chosen reach as far as was looked at or as is wanted; those left
\* out come before the first row wanted; without the last, they do not reach far enough.
Chose(i, last) ==
  LET sum == RowSum(last.stripes, Len(last.stripes)) + last.left
  IN  /\ last \in Picks
      /\ sum <= RowsBefore(i + 1)
      /\ sum = RowsBefore(i + 1) \/ sum >= SkipRows + ReadRows
      /\ last.left <= SkipRows
      /\ RowsBefore(i + 1) <= SkipRows => RowSum(last.stripes, Len(last.stripes)) = 0
      /\ ReadRows > 0 /\ last.stripes # <<>> =>
           RowSum(last.stripes, Len(last.stripes) - 1) + last.left < SkipRows + ReadRows

\* Rows to skip and to read are in the file.
LEMMA SkipsType ==
  ASSUME RequestsAreValid, request \in Requests
  PROVE  SkipRows \in Nat /\ ReadRows \in Nat /\ SkipRows + ReadRows <= TotalRows
  <1>1. request.skip \in Nat /\ request.num \in Nat /\ TotalRows \in Nat BY RequestType, BeforeIs
  <1>2. SkipRows \in Nat /\ SkipRows <= TotalRows BY <1>1 DEF SkipRows, Least
  <1> QED BY <1>1, <1>2 DEF ReadRows, Least

\* Added in another order.
LEMMA AddedBefore ==
  ASSUME NEW x \in Nat, NEW y \in Nat, NEW z \in Nat
  PROVE  (x + z) + y = (x + y) + z
  OBVIOUS

\* Visiting the next stripe keeps what is said of those chosen.
LEMMA VisitChooses ==
  ASSUME RequestsAreValid, request \in Requests, NEW i \in Numbers, NEW last, Chose(i - 1, last)
  PROVE  Chose(i, Visit(i, last))
  <1> DEFINE s == last.stripes
             n == Len(s)
             q == Visit(i, last)
             B == RowsBefore(i)
             E == RowsBefore(i + 1)
             want == SkipRows + ReadRows
  <1>1. last \in Picks /\ i \in Nat /\ (i - 1) + 1 = i BY DEF Chose, Numbers
  <1>2. q \in Picks /\ s \in Seq(Numbers) /\ last.left \in Nat BY <1>1, VisitType
  <1>3. B \in Nat /\ E \in Nat /\ Stripe(i).rows \in Nat /\ E = B + Stripe(i).rows BY BeforeIs
  <1>4. SkipRows \in Nat /\ ReadRows \in Nat BY SkipsType
  <1>5. n \in Nat /\ RowSum(s, n) \in Nat
    <2>1. n \in 0 .. n /\ n \in Nat BY <1>2
    <2> QED BY <1>2, <2>1, RowsInIs
  <1>6. /\ RowSum(s, n) + last.left <= B
        /\ RowSum(s, n) + last.left = B \/ RowSum(s, n) + last.left >= want
        /\ last.left <= SkipRows
        /\ B <= SkipRows => RowSum(s, n) = 0
        /\ ReadRows > 0 /\ s # <<>> => RowSum(s, n - 1) + last.left < want
    BY <1>1 DEF Chose
  <1>7. CASE B >= want /\ q = last
    <2> HIDE DEF B, E, want, s, n, q
    <2>1. RowSum(s, n) + last.left <= E BY <1>2, <1>3, <1>5, <1>6
    <2>2. RowSum(s, n) + last.left >= want BY <1>2, <1>3, <1>4, <1>5, <1>6, <1>7 DEF want
    <2>3. E <= SkipRows => RowSum(s, n) = 0 BY <1>3, <1>4, <1>6
    <2> QED BY <1>2, <1>6, <1>7, <2>1, <2>2, <2>3 DEF Chose, s, n, want, E, q
  <1>8. CASE ~(B >= want) /\ (E > SkipRows \/ E = 0) /\ q.stripes = Append(s, i) /\ q.left = last.left
    <2> DEFINE t == Append(s, i)
    <2>1. /\ t \in Seq(Numbers) /\ Len(t) = n + 1
          /\ RowSum(t, n) = RowSum(s, n) /\ RowSum(t, n + 1) = RowSum(s, n) + Stripe(i).rows
      BY <1>2, RowsAppended
    <2> HIDE DEF B, E, want, s, n, q, t
    <2>2. RowSum(s, n) + last.left = B BY <1>2, <1>3, <1>4, <1>5, <1>6, <1>8 DEF want
    <2>3. RowSum(t, n + 1) + last.left = E
      <3>1. (RowSum(s, n) + Stripe(i).rows) + last.left = B + Stripe(i).rows
        BY <1>2, <1>3, <1>5, <2>2, AddedBefore
      <3> QED BY <1>3, <2>1, <3>1
    <2>4. E <= SkipRows => RowSum(t, n + 1) = 0
      <3>1. E <= SkipRows => E = 0 BY <1>3, <1>4, <1>8
      <3>2. RowSum(t, n + 1) \in Nat BY <1>3, <1>5, <2>1
      <3> QED BY <1>2, <2>3, <3>1, <3>2
    <2>5. ReadRows > 0 => RowSum(t, n) + last.left < want
      BY <1>3, <1>4, <1>8, <2>1, <2>2 DEF want
    <2>6. Len(t) - 1 = n /\ q.stripes = t BY <1>5, <1>8, <2>1 DEF t
    <2>7. E <= E BY <1>3
    <2> QED BY <1>2, <1>6, <1>8, <2>1, <2>3, <2>4, <2>5, <2>6, <2>7 DEF Chose, want, E, q
  <1>9. CASE ~(B >= want) /\ ~(E > SkipRows \/ E = 0) /\ q.stripes = s /\ q.left = E
    <2> HIDE DEF B, E, want, s, n, q
    <2>1. RowSum(s, n) = 0 BY <1>3, <1>4, <1>6, <1>9
    <2>2. ASSUME ReadRows > 0, s # <<>> PROVE RowSum(s, n - 1) + E < want
      <3>1. n # 0 BY <1>2, <2>2 DEF n
      <3>2. n \in 0 .. n /\ n - 1 \in 0 .. n BY <1>5, <3>1
      <3>3. RowSum(s, n - 1) \in Nat /\ RowSum(s, n - 1) <= RowSum(s, n) BY <1>2, <3>2, RowsInIs DEF n
      <3> QED BY <1>3, <1>4, <1>9, <2>1, <2>2, <3>3 DEF want
    <2>3. RowSum(s, n) + E = E /\ E <= E /\ E <= SkipRows BY <1>3, <1>4, <1>9, <2>1
    <2> QED BY <1>2, <1>9, <2>1, <2>2, <2>3 DEF Chose, want, E, n, q, s
  <1> QED BY <1>1, <1>7, <1>8, <1>9, VisitType

\* The stripes chosen: what is left out comes before the rows wanted, and the last one
\* chosen is wanted.
LEMMA ChosenReaches ==
  ASSUME RequestsAreValid, request \in Requests
  PROVE  /\ Chosen \in Picks
         /\ Chosen.left <= SkipRows
         /\ RowSum(Chosen.stripes, Len(Chosen.stripes)) + Chosen.left >= SkipRows + ReadRows
         /\ ReadRows > 0 /\ Chosen.stripes # <<>> =>
              RowSum(Chosen.stripes, Len(Chosen.stripes) - 1) + Chosen.left < SkipRows + ReadRows
  <1> DEFINE n == Len(request.stripes)
             a == [stripes |-> <<>>, left |-> 0]
             T == [i \in 1 .. n |-> [r \in Picks |-> Visit(i, r)]]
  <1>1. n \in Nat BY RequestType
  <1>2. a \in Picks BY DEF Picks
  <1>3. \A i \in 1 .. n : T[i] \in [Picks -> Picks] /\ \A r \in Picks : T[i][r] = Visit(i, r)
    BY VisitType DEF Numbers
  <1>4. T \in [1 .. n -> [Picks -> Picks]]
    <2>1. DOMAIN T = 1 .. n /\ T = [i \in 1 .. n |-> T[i]] OBVIOUS
    <2> HIDE DEF T
    <2> QED BY <1>3, <2>1
  <1> HIDE DEF T
  <1>5. PICK f \in [0 .. n -> Picks] : Loops(n, a, T, f)
    <2> HIDE DEF a, n
    <2> QED BY <1>1, <1>2, <1>4, LoopsRun
  <1>6. Visiting(f)
    <2>1. \A i \in 1 .. n : f[i] = Visit(i, f[i - 1])
      <3>1. ASSUME NEW i \in 1 .. n PROVE f[i] = Visit(i, f[i - 1])
        <4> HIDE DEF n, a
        <4>0. f[i] = T[i][f[i - 1]] BY <1>5 DEF Loops
        <4>1. f[i] = T[i][f[i - 1]] /\ i - 1 \in 0 .. n BY <1>1, <4>0
        <4>2. f[i - 1] \in Picks BY <1>5, <4>1
        <4> QED BY <1>3, <4>1, <4>2
      <3> QED BY <3>1
    <2>2. f[0] = a BY <1>5 DEF Loops
    <2> QED BY <2>1, <2>2 DEF Visiting
  <1>7. PICK g : g = (CHOOSE h : Visiting(h)) OBVIOUS
  <1>8. Visiting(g) BY <1>6, <1>7
  <1>9. g[0] = a /\ \A i \in 1 .. n : g[i] = Visit(i, g[i - 1])
    <2>1. g = [i \in 0 .. n |-> IF i = 0 THEN a ELSE Visit(i, g[i - 1])] BY <1>8 DEF Visiting
    <2>2. \A i \in 1 .. n : i \in 0 .. n /\ i # 0 BY <1>1
    <2>3. 0 \in 0 .. n BY <1>1
    <2> HIDE DEF a, n
    <2> QED BY <2>1, <2>2, <2>3
  <1> DEFINE S == {i \in 0 .. n : Chose(i, g[i])}
  <1>10. 0 \in S
    <2>1. a.stripes = <<>> /\ a.left = 0 /\ Len(<<>>) = 0 /\ <<>> \in Seq(Numbers) OBVIOUS
    <2>2. RowSum(<<>>, 0) = 0 BY <2>1, RowsInIs
    <2>3. RowsBefore(0 + 1) = 0 BY BeforeIs
    <2>4. SkipRows \in Nat BY SkipsType
    <2> HIDE DEF a
    <2>5. Chose(0, a) BY <1>2, <2>1, <2>2, <2>3, <2>4 DEF Chose
    <2> QED BY <1>1, <1>9, <2>5
  <1>11. ASSUME NEW i \in 1 .. n, i - 1 \in S PROVE i \in S
    <2>1. Chose(i, Visit(i, g[i - 1])) BY <1>11, VisitChooses DEF Numbers
    <2> QED BY <1>9, <2>1
  <1>12. Chose(n, g[n])
    <2> HIDE DEF S, n
    <2>1. \A i \in 0 .. n : i \in S BY <1>1, <1>10, <1>11, Stepwise
    <2>2. n \in S BY <1>1, <2>1
    <2> QED BY <2>2 DEF S
  <1>13. Chosen = g[n] BY <1>7, ChosenIs
  <1>14. RowsBefore(n + 1) >= SkipRows + ReadRows
    <2>1. TotalRows \in Nat /\ TotalRows = RowsBefore(n + 1) BY BeforeIs
    <2> QED BY <2>1, SkipsType
  <1> HIDE DEF n
  <1> QED BY <1>12, <1>13, <1>14 DEF Chose

\* What the selection says: rows of the stripes selected.
Selected == Selection.stripes
RowsTo(k) == RowSum(Selected, k)

\* The stripes selected hold the rows asked for; the last one begins before those end.
LEMMA SelectionIs ==
  ASSUME RequestsAreValid, request \in Requests
  PROVE  /\ Selected \in Seq(Numbers) /\ Selection.skip \in Nat /\ Selection.rows \in Nat
         /\ Len(Selected) \in Nat
         /\ RowsTo(Len(Selected)) >= Selection.skip + Selection.rows
         /\ EndsWithRows /\ Selection.rows > 0 /\ Selected # <<>> =>
              RowsTo(Len(Selected) - 1) < Selection.skip + Selection.rows
  <1>1. CASE request.picked # <<>>
    <2> DEFINE p == request.picked
               n == Len(p)
               f == [k \in DOMAIN p |-> Stripe(p[k]).rows]
    <2>1. p \in Seq(Numbers) /\ DOMAIN p = 1 .. n /\ n \in Nat /\ n > 0
      <3>1. p \in Seq(Numbers) BY RequestType DEF Numbers
      <3> QED BY <1>1, <3>1
    <2>2. Selected = p /\ Selection.skip = 0 /\ Selection.rows = SumUpTo(f, n)
      BY <1>1 DEF Selected, Selection
    <2>3. /\ \A k \in 1 .. n : RowsIn(p)[k] = Stripe(p[k]).rows /\ RowsIn(p)[k] \in Nat
          /\ \A j \in 0 .. n : \A i \in 0 .. j : RowSum(p, i) \in Nat /\ RowSum(p, i) <= RowSum(p, j)
      BY <2>1, RowsInIs
    <2>4. Selection.rows = RowSum(p, n)
      <3>1. \A k \in 1 .. n : RowsIn(p)[k] \in Int /\ f[k] = RowsIn(p)[k] BY <2>1, <2>3
      <3> HIDE DEF f, p, n
      <3>2. \A m \in 0 .. n : SumUpTo(f, m) = SumUpTo(RowsIn(p), m) BY <2>1, <3>1, SumSame
      <3>3. n \in 0 .. n BY <2>1
      <3> QED BY <2>2, <3>2, <3>3 DEF RowSum
    <2>5. RowSum(p, n) \in Nat /\ RowSum(p, n - 1) \in Nat
      <3>1. n \in 0 .. n /\ n - 1 \in 0 .. n BY <2>1
      <3> QED BY <2>3, <3>1
    <2>6. EndsWithRows => RowSum(p, n - 1) < RowSum(p, n)
      <3>1. RowSum(p, n) = RowSum(p, n - 1) + RowsIn(p)[n]
        <4>1. \A k \in 1 .. n : RowsIn(p)[k] \in Int BY <2>3
        <4>2. n \in 1 .. n BY <2>1
        <4> HIDE DEF p, n
        <4> QED BY <2>1, <4>1, <4>2, SumRules DEF RowSum
      <3>2. RowsIn(p)[n] = Stripe(p[n]).rows /\ RowsIn(p)[n] \in Nat BY <2>1, <2>3
      <3>3. EndsWithRows => Stripe(p[n]).rows > 0 BY <1>1 DEF EndsWithRows
      <3> QED BY <2>5, <3>1, <3>2, <3>3
    <2> HIDE DEF p, n
    <2> QED BY <2>1, <2>2, <2>4, <2>5, <2>6 DEF RowsTo, n
  <1>2. CASE request.picked = <<>>
    <2> DEFINE s == Chosen.stripes
               n == Len(s)
    <2>1. Selected = s /\ Selection.skip = SkipRows - Chosen.left /\ Selection.rows = ReadRows
      BY <1>2 DEF Selected, Selection
    <2>2. /\ s \in Seq(Numbers) /\ Chosen.left \in Nat /\ Chosen.left <= SkipRows
          /\ RowSum(s, n) + Chosen.left >= SkipRows + ReadRows
          /\ ReadRows > 0 /\ s # <<>> => RowSum(s, n - 1) + Chosen.left < SkipRows + ReadRows
      BY ChosenReaches DEF Picks
    <2>3. SkipRows \in Nat /\ ReadRows \in Nat BY SkipsType
    <2>4. n \in Nat /\ RowSum(s, n) \in Nat /\ (s # <<>> => RowSum(s, n - 1) \in Nat)
      <3>1. n \in Nat /\ n \in 0 .. n /\ (s # <<>> => n - 1 \in 0 .. n) BY <2>2
      <3>2. n - 1 \in 0 .. n => RowSum(s, n - 1) \in Nat BY <2>2, <3>1, RowsInIs
      <3>3. RowSum(s, n) \in Nat BY <2>2, <3>1, RowsInIs
      <3> QED BY <3>1, <3>2, <3>3
    <2>5. Len(Selected) = n /\ RowsTo(n) = RowSum(s, n) /\ RowsTo(n - 1) = RowSum(s, n - 1)
      BY <2>1 DEF RowsTo
    <2> HIDE DEF s, n
    <2>6. Selection.skip \in Nat /\ Selection.rows \in Nat BY <2>1, <2>2, <2>3
    <2>7. RowSum(s, n) >= Selection.skip + Selection.rows BY <2>1, <2>2, <2>3, <2>4
    <2>8. Selection.rows > 0 /\ s # <<>> => RowSum(s, n - 1) < Selection.skip + Selection.rows
      BY <2>1, <2>2, <2>3, <2>4
    <2> QED BY <2>1, <2>2, <2>4, <2>5, <2>6, <2>7, <2>8
  <1> QED BY <1>1, <1>2

(***************************************************************************)
(* The reader: its fields, and what they say in every state.                *)
(***************************************************************************)
Fields(r) ==
  r = [prepared |-> r.prepared, skip |-> r.skip, rows |-> r.rows, selected |-> r.selected,
       loads |-> r.loads, load |-> r.load, decodes |-> r.decodes, decode |-> r.decode,
       outputs |-> r.outputs, output |-> r.output, raw |-> r.raw, cached |-> r.cached,
       table |-> r.table, told |-> r.told, error |-> r.error]

\* Something is to be read.
Wanted == Selection.rows > 0 /\ Selected # <<>>

\* The stripes up to this one were decoded.
Position(r) ==
  IF r.load = 1 THEN 0
  ELSE IF r.decode = 1 THEN r.loads[r.load - 1].begin ELSE r.decodes[r.decode - 1].end

Fitted(r) ==
  request.passLimit > 0 => AllFit(r.loads, PackedOf(r), LoadLimit) /\ AllFit(r.decodes, BlocksOf(r), DecodeLimit)

\* In every state, also after a failure.
Typed(r) ==
  /\ Fields(r)
  /\ r.loads \in Seq(Ranges) /\ r.decodes \in Seq(Ranges) /\ r.outputs \in Seq(Ranges)
  /\ r.load \in 1 .. Len(r.loads) + 1
  /\ r.decode \in 1 .. Len(r.decodes) + 1
  /\ r.output \in 1 .. Len(r.outputs) + 1
  /\ r.rows \in 0 .. Selection.rows /\ r.skip \in 0 .. Selection.skip
  /\ r.table # <<>> <=> MoreToOutput(r)
  /\ r.error # "undefined"
  /\ Fitted(r)

\* The table that was decoded ends with the last of the rows that are no longer to be read.
TableIs(r) ==
  \E num \in Nat : /\ Tiles(r.outputs, 0, num) /\ r.table[1] \in Nat
                   /\ r.table[1] + num = Selection.skip + (Selection.rows - r.rows)

\* The stripes of the load that are not yet decoded are in the buffers.
RawIs(r) ==
  LET range == r.loads[r.load - 1]
  IN  \A k \in Position(r) + 1 .. range.end :
        k - range.begin \in DOMAIN r.raw /\ r.raw[k - range.begin] = k

\* The rows that are no longer to be read are those of the stripes decoded.
RowsAre(r) ==
  /\ Position(r) = 0 => r.rows = Selection.rows /\ r.skip = Selection.skip /\ r.outputs = <<>>
  /\ Position(r) > 0 =>
       /\ r.skip = 0
       /\ r.rows > 0 => Selection.rows - r.rows = RowsTo(Position(r)) - Selection.skip
       /\ r.rows = 0 => RowsTo(Position(r)) >= Selection.skip + Selection.rows

Placed(r) ==
  /\ Typed(r) /\ r.prepared = TRUE /\ r.selected = Selected /\ r.error = "none"
  /\ ~Wanted => r.loads = <<>> /\ r.decodes = <<>> /\ r.outputs = <<>> /\ r.rows = 0
  /\ Wanted =>
       /\ Tiles(r.loads, 0, Len(Selected))
       /\ r.load = 1 => r.decodes = <<>>
       /\ r.load > 1 => /\ Tiles(r.decodes, r.loads[r.load - 1].begin, r.loads[r.load - 1].end)
                        /\ RawIs(r)
       /\ RowsAre(r)
  /\ MoreToOutput(r) => TableIs(r)

\* One range tiles what it spans.
LEMMA OneTile ==
  ASSUME NEW a \in Nat, NEW b \in Nat, a < b
  PROVE  Tiles(<<[begin |-> a, end |-> b]>>, a, b)
  <1> DEFINE x == [begin |-> a, end |-> b]
  <1>1. x \in Ranges /\ x.begin = a /\ x.end = b BY DEF Ranges
  <1> HIDE DEF x
  <1>2. <<x>> \in Seq(Ranges) /\ Len(<<x>>) = 1 /\ <<x>>[1] = x /\ <<x>> # <<>> BY <1>1
  <1> QED BY <1>1, <1>2 DEF Tiles, x

\* Where the reader is in its lists.
LEMMA PositionIs ==
  ASSUME RequestsAreValid, request \in Requests, NEW r, Placed(r), Wanted
  PROVE  /\ Len(Selected) \in Nat /\ Position(r) \in 0 .. Len(Selected) /\ r.load \in Nat
         /\ r.load > 1 =>
              LET range == r.loads[r.load - 1]
              IN  /\ range.begin \in Nat /\ range.end \in Nat /\ range.begin < range.end
                  /\ range.end <= Len(Selected)
                  /\ range.begin <= Position(r) /\ Position(r) <= range.end
         /\ MoreToDecode(r) =>
              /\ r.load > 1 /\ r.decodes[r.decode].begin = Position(r) /\ r.decodes[r.decode].end \in Nat
              /\ r.decodes[r.decode].end > Position(r) /\ r.decodes[r.decode].end <= r.loads[r.load - 1].end
         /\ ~MoreToDecode(r) /\ MoreToLoad(r) =>
              /\ r.loads[r.load].begin = Position(r) /\ r.loads[r.load].end \in Nat
              /\ r.loads[r.load].end > Position(r) /\ r.loads[r.load].end <= Len(Selected)
         /\ ~MoreToDecode(r) /\ ~MoreToLoad(r) => Position(r) = Len(Selected)
  <1> DEFINE n == Len(Selected)
             P == Position(r)
             L == r.loads[r.load - 1]
  <1>1. /\ r.loads \in Seq(Ranges) /\ r.decodes \in Seq(Ranges)
        /\ r.load \in 1 .. Len(r.loads) + 1 /\ r.decode \in 1 .. Len(r.decodes) + 1
    BY DEF Placed, Typed
  <1>2. Len(r.loads) \in Nat /\ Len(r.decodes) \in Nat BY <1>1
  <1>3. n \in Nat /\ n > 0
    <2>1. Selected \in Seq(Numbers) /\ Selected # <<>> BY SelectionIs DEF Wanted
    <2> QED BY <2>1
  <1>4. Tiles(r.loads, 0, n) BY DEF Placed
  <1>5. \A k \in 1 .. Len(r.loads) : /\ r.loads[k].begin \in Nat /\ r.loads[k].end \in Nat
                                     /\ r.loads[k].begin < r.loads[k].end /\ r.loads[k].end <= n
    BY <1>3, <1>4, TilesInside
  <1>6. r.loads # <<>> /\ Len(r.loads) >= 1 /\ r.loads[1].begin = 0 /\ r.loads[Len(r.loads)].end = n
    <2>1. r.loads # <<>> BY <1>3, <1>4 DEF Tiles
    <2> QED BY <1>1, <1>2, <1>4, <2>1 DEF Tiles
  <1>7. CASE r.load = 1
    <2>1. P = 0 /\ r.decodes = <<>> BY <1>7 DEF Position, Placed
    <2>2. ~MoreToDecode(r)
      <3>1. Len(r.decodes) = 0 BY <2>1
      <3> QED BY <1>1, <3>1 DEF MoreToDecode
    <2>3. MoreToLoad(r) BY <1>6, <1>7 DEF MoreToLoad
    <2>4. 1 \in 1 .. Len(r.loads) BY <1>2, <1>6
    <2>5. r.loads[1].end \in Nat /\ r.loads[1].end > 0 /\ r.loads[1].end <= n BY <1>5, <1>6, <2>4
    <2> QED BY <1>3, <1>6, <1>7, <2>1, <2>2, <2>3, <2>5
  <1>8. CASE r.load # 1
    <2>1. r.load > 1 /\ r.load - 1 \in 1 .. Len(r.loads) /\ r.load \in Nat BY <1>1, <1>2, <1>8
    <2>2. L.begin \in Nat /\ L.end \in Nat /\ L.begin < L.end /\ L.end <= n BY <1>5, <2>1
    <2>3. Tiles(r.decodes, L.begin, L.end) BY <2>1 DEF Placed
    <2> HIDE DEF L
    <2>4. \A k \in 1 .. Len(r.decodes) :
            /\ r.decodes[k].begin \in Nat /\ r.decodes[k].end \in Nat /\ L.begin <= r.decodes[k].begin
            /\ r.decodes[k].begin < r.decodes[k].end /\ r.decodes[k].end <= L.end
      BY <2>2, <2>3, TilesInside
    <2>5. r.decodes # <<>> /\ Len(r.decodes) >= 1 /\ r.decodes[1].begin = L.begin
          /\ r.decodes[Len(r.decodes)].end = L.end
      <3>1. r.decodes # <<>> BY <2>2, <2>3 DEF Tiles
      <3> QED BY <1>1, <1>2, <2>3, <3>1 DEF Tiles
    <2>6. r.decode = 1 => P = L.begin BY <1>8 DEF Position, L
    <2>7. r.decode # 1 => r.decode - 1 \in 1 .. Len(r.decodes) /\ P = r.decodes[r.decode - 1].end
      BY <1>1, <1>2, <1>8 DEF Position
    <2> HIDE DEF P
    <2>8. P \in Nat /\ L.begin <= P /\ P <= L.end
      <3>1. CASE r.decode = 1 BY <2>2, <2>6, <3>1
      <3>2. CASE r.decode # 1
        <4>1. r.decodes[r.decode - 1].begin \in Nat /\ r.decodes[r.decode - 1].end \in Nat
              /\ L.begin <= r.decodes[r.decode - 1].begin
              /\ r.decodes[r.decode - 1].begin < r.decodes[r.decode - 1].end /\ r.decodes[r.decode - 1].end <= L.end
          BY <2>4, <2>7, <3>2
        <4> QED BY <2>2, <2>7, <3>2, <4>1
      <3> QED BY <3>1, <3>2
    <2>9. ASSUME MoreToDecode(r)
          PROVE  /\ r.decodes[r.decode].begin = P /\ r.decodes[r.decode].end \in Nat
                 /\ r.decodes[r.decode].end > P /\ r.decodes[r.decode].end <= L.end
      <3>1. r.decode \in 1 .. Len(r.decodes) BY <1>1, <1>2, <2>9 DEF MoreToDecode
      <3>2. r.decodes[r.decode].begin = P
        <4>1. CASE r.decode = 1 BY <2>5, <2>6, <4>1
        <4>2. CASE r.decode # 1
          <5>1. r.decode - 1 \in 1 .. Len(r.decodes) - 1 /\ (r.decode - 1) + 1 = r.decode BY <1>2, <3>1, <4>2
          <5>2. r.decodes[r.decode - 1].end = r.decodes[r.decode].begin BY <2>3, <5>1 DEF Tiles
          <5> QED BY <2>7, <4>2, <5>2
        <4> QED BY <4>1, <4>2
      <3> QED BY <2>4, <3>1, <3>2
    <2>10. ASSUME ~MoreToDecode(r) PROVE P = L.end
      <3>1. r.decode = Len(r.decodes) + 1 BY <1>1, <1>2, <2>10 DEF MoreToDecode
      <3>2. r.decode # 1 /\ r.decode - 1 = Len(r.decodes) BY <1>2, <2>5, <3>1
      <3> QED BY <2>5, <2>7, <3>2
    <2>11. ASSUME ~MoreToDecode(r), MoreToLoad(r)
           PROVE  /\ r.loads[r.load].begin = P /\ r.loads[r.load].end \in Nat
                  /\ r.loads[r.load].end > P /\ r.loads[r.load].end <= n
      <3>1. r.load \in 1 .. Len(r.loads) /\ r.load - 1 \in 1 .. Len(r.loads) - 1 /\ (r.load - 1) + 1 = r.load
        BY <1>2, <2>1, <2>11 DEF MoreToLoad
      <3>2. L.end = r.loads[r.load].begin BY <1>4, <3>1 DEF Tiles, L
      <3> QED BY <1>5, <2>10, <2>11, <3>1, <3>2
    <2>12. ASSUME ~MoreToDecode(r), ~MoreToLoad(r) PROVE P = n
      <3>1. r.load - 1 = Len(r.loads)
        <4>1. r.load = Len(r.loads) + 1 BY <1>1, <1>2, <2>12 DEF MoreToLoad
        <4> QED BY <1>2, <4>1
      <3> QED BY <1>6, <2>10, <2>12, <3>1 DEF L
    <2> QED BY <1>3, <2>1, <2>2, <2>8, <2>9, <2>10, <2>11, <2>12 DEF P, L
  <1> QED BY <1>7, <1>8

\* What the stripes have, as sequences of numbers.
LEMMA DataIs ==
  ASSUME RequestsAreValid, request \in Requests, NEW r, r.selected = Selected
  PROVE  /\ RowsOf(r) = RowsIn(Selected)
         /\ RowsOf(r) \in Seq(Nat) /\ Len(RowsOf(r)) = Len(Selected)
         /\ PackedOf(r) \in Seq(Nat) /\ Len(PackedOf(r)) = Len(Selected)
         /\ BlocksOf(r) \in Seq(Nat) /\ Len(BlocksOf(r)) = Len(Selected)
  <1> DEFINE n == Len(Selected)
             R == [k \in 1 .. n |-> Stripe(Selected[k]).rows]
             F == [k \in 1 .. n |-> Stripe(Selected[k]).packed]
             G == [k \in 1 .. n |-> Stripe(Selected[k]).block]
  <1>1. Selected \in Seq(Numbers) BY SelectionIs
  <1>2. n \in Nat /\ DOMAIN Selected = 1 .. n /\ \A k \in 1 .. n : Selected[k] \in Numbers BY <1>1
  <1>3. \A i \in Numbers : Stripe(i).rows \in Nat /\ Stripe(i).packed \in Nat /\ Stripe(i).block \in Nat
    BY RequestType DEF Numbers
  <1>4. R \in [1 .. n -> Nat] /\ F \in [1 .. n -> Nat] /\ G \in [1 .. n -> Nat]
    <2>1. \A k \in 1 .. n : /\ Stripe(Selected[k]).rows \in Nat /\ Stripe(Selected[k]).packed \in Nat
                            /\ Stripe(Selected[k]).block \in Nat
      BY <1>2, <1>3
    <2> HIDE DEF n
    <2> QED BY <2>1
  <1>5. /\ RowsOf(r) = AsTuple(R) /\ PackedOf(r) = AsTuple(F) /\ BlocksOf(r) = AsTuple(G)
        /\ RowsIn(Selected) = AsTuple(R)
    BY <1>2 DEF RowsOf, PackedOf, BlocksOf, RowsIn
  <1> HIDE DEF R, F, G, n
  <1>6. n \in Nat BY <1>2
  <1>7. AsTuple(R) \in Seq(Nat) /\ Len(AsTuple(R)) = n BY <1>4, <1>6, AsTupleIs
  <1>8. AsTuple(F) \in Seq(Nat) /\ Len(AsTuple(F)) = n BY <1>4, <1>6, AsTupleIs
  <1>9. AsTuple(G) \in Seq(Nat) /\ Len(AsTuple(G)) = n BY <1>4, <1>6, AsTupleIs
  <1> QED BY <1>5, <1>7, <1>8, <1>9 DEF n

(***************************************************************************)
(* The steps of the reader.                                                 *)
(***************************************************************************)
LEMMA NoneFit ==
  ASSUME NEW bytes, NEW limit
  PROVE  AllFit(<<>>, bytes, limit)
  BY DEF AllFit

\* The limits are numbers.
LEMMA LimitsType ==
  ASSUME RequestsAreValid, request \in Requests
  PROVE  LoadLimit \in Nat /\ DecodeLimit \in Nat
  <1>1. request.passLimit \in Nat BY RequestType
  <1>2. (request.passLimit * 25) \div 100 \in Nat /\ (request.passLimit * 60) \div 100 \in Nat BY <1>1
  <1> QED BY <1>2 DEF LoadLimit, DecodeLimit, Greatest

\* A new reader is well typed and has nothing to give out.
LEMMA NewIs ==
  ASSUME RequestsAreValid, request \in Requests
  PROVE  /\ Fields(NewReader) /\ Typed(NewReader) /\ NewReader.prepared = FALSE /\ NewReader.error = "none"
         /\ ~MoreToOutput(NewReader)
  <1> DEFINE r == NewReader
  <1>1. /\ Fields(r) /\ r.prepared = FALSE /\ r.error = "none" /\ r.loads = <<>> /\ r.decodes = <<>>
        /\ r.outputs = <<>> /\ r.load = 1 /\ r.decode = 1 /\ r.output = 1 /\ r.rows = 0 /\ r.skip = 0
        /\ r.table = <<>>
    BY DEF NewReader, Fields
  <1>2. Selection.rows \in Nat /\ Selection.skip \in Nat BY SelectionIs
  <1> HIDE DEF r
  <1>3. ~MoreToOutput(r) BY <1>1 DEF MoreToOutput
  <1>4. Fitted(r) BY <1>1, NoneFit DEF Fitted
  <1>5. Typed(r) BY <1>1, <1>2, <1>3, <1>4 DEF Typed
  <1> QED BY <1>1, <1>3, <1>5 DEF r

\* A reader right after select_stripes.
LEMMA PreparedFields ==
  ASSUME NEW all, NEW q, q = WithSelection(NewReader, all)
  PROVE  /\ Fields(q) /\ q.prepared = TRUE /\ q.skip = all.skip /\ q.rows = all.rows
         /\ q.selected = all.stripes /\ q.loads = <<>> /\ q.load = 1 /\ q.decodes = <<>> /\ q.decode = 1
         /\ q.outputs = <<>> /\ q.output = 1 /\ q.table = <<>> /\ q.error = "none"
  BY DEF WithSelection, NewReader, Fields

\* preprocess_file plans loads for all stripes selected.
LEMMA StartPlaced ==
  ASSUME RequestsAreValid, request \in Requests
  PROVE  /\ Placed(Preprocess(NewReader)) /\ ~MoreToOutput(Preprocess(NewReader))
         /\ Preprocess(NewReader).rows = Selection.rows
  <1> DEFINE q == WithSelection(NewReader, Selection)
             n == Len(Selected)
             p == Preprocess(NewReader)
  <1>1. /\ Fields(q) /\ q.prepared = TRUE /\ q.skip = Selection.skip /\ q.rows = Selection.rows
        /\ q.selected = Selected /\ q.loads = <<>> /\ q.load = 1 /\ q.decodes = <<>> /\ q.decode = 1
        /\ q.outputs = <<>> /\ q.output = 1 /\ q.table = <<>> /\ q.error = "none"
    <2>1. PICK all : all = Selection OBVIOUS
    <2>2. q = WithSelection(NewReader, all) BY <2>1
    <2> HIDE DEF q
    <2> QED BY <2>1, <2>2, PreparedFields DEF Selected
  <1>2. p = WithLoads(q) BY NewIs DEF Preprocess
  <1> HIDE DEF q
  <1>3. /\ Selected \in Seq(Numbers) /\ Selection.skip \in Nat /\ Selection.rows \in Nat /\ n \in Nat
        /\ RowsTo(n) >= Selection.skip + Selection.rows
    BY SelectionIs
  <1>4. HasData(q) <=> Wanted BY <1>1 DEF HasData, Wanted
  <1>5. CASE ~Wanted
    <2>1. p = q BY <1>1, <1>2, <1>4, <1>5 DEF WithLoads
    <2>2. Selection.rows = 0
      <3>1. CASE Selected = <<>>
        <4>1. n = 0 /\ RowsTo(0) = 0
          <5>1. n = 0 BY <3>1
          <5> QED BY <1>3, <5>1, RowsInIs DEF RowsTo
        <4> QED BY <1>3, <4>1
      <3>2. CASE ~(Selection.rows > 0) BY <1>3, <3>2
      <3> QED BY <1>5, <3>1, <3>2 DEF Wanted
    <2> HIDE DEF p
    <2>3. ~MoreToOutput(p) BY <1>1, <2>1 DEF MoreToOutput
    <2>4. Fitted(p) BY <1>1, <2>1, NoneFit DEF Fitted
    <2>e. Len(<<>>) = 0 /\ <<>> \in Seq(Ranges) /\ 1 \in 1 .. 0 + 1 OBVIOUS
    <2>5. Typed(p)
      <3>1. /\ Fields(p) /\ p.loads = <<>> /\ p.decodes = <<>> /\ p.outputs = <<>> /\ p.load = 1 /\ p.decode = 1
            /\ p.output = 1 /\ p.rows = Selection.rows /\ p.skip = Selection.skip /\ p.table = <<>>
            /\ p.error # "undefined"
        BY <1>1, <2>1
      <3> QED BY <1>3, <2>3, <2>4, <2>e, <3>1 DEF Typed
    <2>6. Placed(p) BY <1>1, <1>5, <2>1, <2>2, <2>3, <2>5 DEF Placed
    <2> QED BY <1>1, <2>1, <2>3, <2>6 DEF p
  <1>6. CASE Wanted
    <2> DEFINE x == IF request.passLimit = 0 THEN <<[begin |-> 0, end |-> n]>>
                    ELSE FindSplits(Cumulative(Ones(n), PackedOf(q), Zeros(n)), n, LoadLimit)
    <2>0. n > 0
      <3>1. Selected # <<>> BY <1>6 DEF Wanted
      <3> QED BY <1>3, <3>1
    <2>1. p = [q EXCEPT !.loads = x] BY <1>1, <1>2, <1>4, <1>6 DEF WithLoads
    <2>2. Tiles(x, 0, n) /\ (request.passLimit > 0 => AllFit(x, PackedOf(q), LoadLimit))
      <3>1. CASE request.passLimit = 0
        <4>1. x = <<[begin |-> 0, end |-> n]>> BY <3>1
        <4>2. ~(request.passLimit > 0) BY <3>1
        <4> HIDE DEF n, x
        <4> QED BY <1>3, <2>0, <4>1, <4>2, OneTile
      <3>2. CASE request.passLimit # 0
        <4>1. x = FindSplits(Cumulative(Ones(n), PackedOf(q), Zeros(n)), n, LoadLimit) BY <3>2
        <4>2. \A i \in 1 .. n : PackedOf(q)[i] \in Nat /\ Zeros(n)[i] \in Nat
          <5>1. PackedOf(q) \in Seq(Nat) /\ Len(PackedOf(q)) = n BY <1>1, DataIs
          <5> QED BY <5>1 DEF Zeros
        <4>3. n \in Nat \ {0} /\ LoadLimit \in Nat BY <1>3, <2>0, LimitsType
        <4> HIDE DEF n, x
        <4> QED BY <4>1, <4>2, <4>3, RangesTile
      <3> QED BY <3>1, <3>2
    <2> HIDE DEF x, p
    <2>3. /\ Fields(p) /\ p.prepared = TRUE /\ p.skip = Selection.skip /\ p.rows = Selection.rows
          /\ p.selected = Selected /\ p.loads = x /\ p.load = 1 /\ p.decodes = <<>>
          /\ p.decode = 1 /\ p.outputs = <<>> /\ p.output = 1 /\ p.table = <<>>
          /\ p.error = "none"
      <3>1. Fields(q) BY <1>1
      <3>2. /\ Fields(p) /\ p.prepared = q.prepared /\ p.skip = q.skip /\ p.rows = q.rows
            /\ p.selected = q.selected /\ p.loads = x /\ p.load = q.load /\ p.decodes = q.decodes
            /\ p.decode = q.decode /\ p.outputs = q.outputs /\ p.output = q.output /\ p.table = q.table
            /\ p.error = q.error
        BY <2>1, <3>1 DEF Fields
      <3> QED BY <1>1, <3>2
    <2>4. ~MoreToOutput(p) BY <2>3 DEF MoreToOutput
    <2>5. Fitted(p)
      <3>1. PackedOf(p) = PackedOf(q) BY <1>1, <2>3 DEF PackedOf
      <3> QED BY <2>2, <2>3, <3>1, NoneFit DEF Fitted
    <2>6. x \in Seq(Ranges) /\ 1 \in 1 .. Len(x) + 1
      <3>1. x \in Seq(Ranges) BY <2>2 DEF Tiles
      <3>2. Len(x) \in Nat BY <3>1
      <3> QED BY <3>1, <3>2
    <2>7. Typed(p) BY <1>3, <2>3, <2>4, <2>5, <2>6 DEF Typed
    <2>8. Position(p) = 0 BY <2>3 DEF Position
    <2>9. RowsAre(p) BY <2>3, <2>8 DEF RowsAre
    <2>10. Placed(p) BY <1>6, <2>2, <2>3, <2>4, <2>7, <2>9 DEF Placed
    <2> QED BY <2>3, <2>4, <2>10 DEF p
  <1> QED BY <1>5, <1>6

\* The ranges of a load cover it and fit.
LEMMA PlannedIs ==
  ASSUME RequestsAreValid, request \in Requests, NEW r, r.selected = Selected,
         NEW range \in Ranges, range.begin < range.end, range.end <= Len(Selected)
  PROVE  LET Part(s) == SubSeq(s, range.begin + 1, range.end)
             p == Planned(range, Part(RowsOf(r)), Part(BlocksOf(r)))
         IN  /\ Tiles(p, range.begin, range.end)
             /\ request.passLimit > 0 => AllFit(p, BlocksOf(r), DecodeLimit)
  <1> DEFINE b == range.begin
             e == range.end
             n == e - b
             R == RowsOf(r)
             D == BlocksOf(r)
             rows == SubSeq(R, b + 1, e)
             blocks == SubSeq(D, b + 1, e)
             p == Planned(range, rows, blocks)
             F(sizes, limit) == FindSplits(Cumulative(Ones(n), sizes, rows), n, limit)
  <1>1. /\ b \in Nat /\ e \in Nat /\ n \in Nat \ {0} /\ b + n = e /\ range = [begin |-> b, end |-> e]
        /\ e <= Len(Selected)
    BY DEF Ranges
  <1>2. R \in Seq(Nat) /\ D \in Seq(Nat) /\ Len(R) = Len(Selected) /\ Len(D) = Len(Selected)
        /\ Len(Selected) \in Nat
    BY DataIs, SelectionIs
  <1>3. \A i \in b + 1 .. e : R[i] \in Nat /\ D[i] \in Nat
    <2> HIDE DEF R, D, b, e, n
    <2>1. \A i \in b + 1 .. e : i \in 1 .. Len(Selected) BY <1>1, <1>2
    <2> QED BY <1>2, <2>1
  <1>m. \A i \in 1 .. e : D[i] \in Nat
    <2> HIDE DEF R, D, b, e, n
    <2>1. \A i \in 1 .. e : i \in 1 .. Len(Selected) BY <1>1, <1>2
    <2> QED BY <1>2, <2>1
  <1> HIDE DEF R, D, b, e
  <1>4. b + 1 \in Int /\ e \in Int /\ b + 1 <= e /\ e - (b + 1) + 1 = n BY <1>1
  <1>5. Len(rows) = n /\ \A i \in 1 .. n : rows[i] = R[(b + 1) + i - 1]
    BY <1>3, <1>4, SubSeqProperties
  <1>6. Len(blocks) = n /\ \A i \in 1 .. n : blocks[i] = D[(b + 1) + i - 1]
    BY <1>3, <1>4, SubSeqProperties
  <1>7. \A i \in 1 .. n : /\ rows[i] \in Nat /\ blocks[i] \in Nat /\ blocks[i] = D[b + i]
    <2>1. ASSUME NEW i \in 1 .. n PROVE (b + 1) + i - 1 = b + i /\ b + i \in b + 1 .. e BY <1>1
    <2> HIDE DEF n, rows, blocks
    <2> QED BY <1>3, <1>5, <1>6, <2>1
  <1> HIDE DEF rows, blocks
  <1>8. p = IF request.passLimit > 0 THEN ShiftedBy(F(blocks, DecodeLimit), b)
            ELSE IF SumUpTo(rows, n) <= ColumnLimit THEN <<range>>
            ELSE ShiftedBy(F(rows, ColumnLimit), b)
    BY <1>5 DEF Planned, b
  <1>9. ColumnLimit \in Nat /\ DecodeLimit \in Nat /\ request.passLimit \in Nat BY RequestType, LimitsType
  <1> HIDE DEF n
  <1>10. Tiles(F(blocks, DecodeLimit), 0, n) /\ AllFit(F(blocks, DecodeLimit), blocks, DecodeLimit)
    BY <1>1, <1>7, <1>9, RangesTile
  <1>11. Tiles(F(rows, ColumnLimit), 0, n)
    BY <1>1, <1>7, <1>9, RangesTile
  <1> HIDE DEF F
  <1>12. CASE request.passLimit > 0
    <2>1. p = ShiftedBy(F(blocks, DecodeLimit), b) BY <1>8, <1>12
    <2>2. Tiles(p, b, b + n) BY <1>1, <1>10, <2>1, ShiftTiles
    <2>3. AllFit(p, D, DecodeLimit)
      <3>1. n \in Nat /\ b \in Nat /\ \A i \in 1 .. b + n : D[i] \in Nat BY <1>1, <1>m
      <3>2. \A i \in 1 .. n : blocks[i] = D[b + i] BY <1>7
      <3> QED BY <1>10, <2>1, <3>1, <3>2, ShiftFits
    <2> QED BY <1>1, <2>2, <2>3 DEF b, e, D, blocks, rows, R
  <1>13. CASE ~(request.passLimit > 0) /\ SumUpTo(rows, n) <= ColumnLimit
    <2>1. p = <<[begin |-> b, end |-> e]>> BY <1>1, <1>8, <1>13
    <2>2. Tiles(p, b, e)
      <3>1. b < e BY <1>1
      <3> QED BY <1>1, <2>1, <3>1, OneTile
    <2> QED BY <1>13, <2>2 DEF b, e, D, blocks, rows, R
  <1>14. CASE ~(request.passLimit > 0) /\ ~(SumUpTo(rows, n) <= ColumnLimit)
    <2>1. p = ShiftedBy(F(rows, ColumnLimit), b) BY <1>8, <1>14
    <2>2. Tiles(p, b, b + n) BY <1>1, <1>11, <2>1, ShiftTiles
    <2> QED BY <1>1, <1>14, <2>2 DEF b, e, D, blocks, rows, R
  <1> QED BY <1>12, <1>13, <1>14

\* A load keeps the ranges in place, and gives something to decode.
LEMMA LoadPlaced ==
  ASSUME RequestsAreValid, request \in Requests, NEW r, Placed(r), Wanted, r.rows > 0,
         ~MoreToDecode(r), MoreToLoad(r)
  PROVE  LET q == Load(r)
         IN  /\ Placed(q) /\ MoreToDecode(q)
             /\ q.outputs = r.outputs /\ q.output = r.output /\ q.rows = r.rows /\ q.table = r.table
  <1> DEFINE n == Len(Selected)
             range == r.loads[r.load]
             b == range.begin
             e == range.end
             raw == [k \in 1 .. e - b |-> b + k]
             p == Planned(range, SubSeq(RowsOf(r), b + 1, e), SubSeq(BlocksOf(r), b + 1, e))
             q == Load(r)
  <1>1. /\ Typed(r) /\ Fields(r) /\ r.prepared = TRUE /\ r.selected = Selected /\ r.error = "none"
        /\ r.loads \in Seq(Ranges) /\ r.load \in 1 .. Len(r.loads) + 1 /\ Tiles(r.loads, 0, n)
        /\ RowsAre(r)
    BY DEF Placed, Typed
  <1>2. Len(r.loads) \in Nat /\ r.load \in 1 .. Len(r.loads) /\ range \in Ranges
    <2>1. Len(r.loads) \in Nat BY <1>1
    <2>2. r.load \in 1 .. Len(r.loads) BY <1>1, <2>1 DEF MoreToLoad
    <2> QED BY <1>1, <2>1, <2>2
  <1>3. n \in Nat /\ b = Position(r) /\ b \in Nat /\ e \in Nat /\ b < e /\ e <= n /\ Position(r) \in 0 .. n
    <2>1. n \in Nat /\ b = Position(r) /\ e \in Nat /\ e > Position(r) /\ e <= n /\ Position(r) \in 0 .. n
      BY PositionIs
    <2> HIDE DEF n, b, e
    <2> QED BY <2>1
  <1>4. PICK c : q = [r EXCEPT !.load = r.load + 1, !.decode = 1, !.raw = raw, !.decodes = p, !.cached = c]
    <2>1. HasData(r) BY <1>1 DEF HasData, Wanted
    <2> QED BY <2>1 DEF Load
  <1>5. Tiles(p, b, e) /\ (request.passLimit > 0 => AllFit(p, BlocksOf(r), DecodeLimit))
    <2> HIDE DEF n, p
    <2>1. range.begin < range.end /\ range.end <= Len(Selected) BY <1>3 DEF n
    <2> HIDE DEF range
    <2> QED BY <1>1, <1>2, <2>1, PlannedIs DEF p
  <1>6. \A k \in b + 1 .. e : k - b \in DOMAIN raw /\ raw[k - b] = k
    <2>1. ASSUME NEW k \in b + 1 .. e PROVE k - b \in 1 .. e - b /\ b + (k - b) = k
      <3> HIDE DEF b, e
      <3> QED BY <1>3, <2>1
    <2> HIDE DEF b, e
    <2> QED BY <2>1
  <1> HIDE DEF raw, p, q
  <1>7. /\ Fields(q) /\ q.load = r.load + 1 /\ q.decode = 1 /\ q.raw = raw /\ q.decodes = p
        /\ q.prepared = r.prepared /\ q.skip = r.skip /\ q.rows = r.rows /\ q.selected = r.selected
        /\ q.loads = r.loads /\ q.outputs = r.outputs /\ q.output = r.output /\ q.table = r.table
        /\ q.error = r.error
    <2> HIDE DEF range, b, e, n
    <2> QED BY <1>1, <1>4 DEF Fields
  <1>8. p \in Seq(Ranges) /\ Len(p) \in Nat /\ Len(p) >= 1
    <2>1. p \in Seq(Ranges) /\ p # <<>> BY <1>3, <1>5 DEF Tiles
    <2> QED BY <2>1
  <1>9. q.load \in 1 .. Len(q.loads) + 1 /\ q.load - 1 = r.load /\ q.load > 1
    BY <1>2, <1>7
  <1> HIDE DEF range, b, e, n
  <1>10. Fitted(q)
    <2>1. PackedOf(q) = PackedOf(r) /\ BlocksOf(q) = BlocksOf(r) BY <1>7 DEF PackedOf, BlocksOf
    <2> QED BY <1>1, <1>5, <1>7, <2>1 DEF Typed, Fitted
  <1>11. MoreToOutput(q) <=> MoreToOutput(r) BY <1>7 DEF MoreToOutput
  <1>12. MoreToDecode(q) BY <1>7, <1>8 DEF MoreToDecode
  <1>13. Typed(q)
    <2>1. 1 \in 1 .. Len(p) + 1 BY <1>8
    <2> QED BY <1>1, <1>7, <1>8, <1>9, <1>10, <1>11, <2>1 DEF Typed
  <1>14. q.loads[q.load - 1].begin = b /\ q.loads[q.load - 1].end = e BY <1>7, <1>9 DEF range, b, e
  <1>15. Position(q) = b BY <1>7, <1>9, <1>14 DEF Position
  <1>16. RowsAre(q) BY <1>1, <1>3, <1>7, <1>15 DEF RowsAre
  <1>17. RawIs(q) BY <1>6, <1>7, <1>14, <1>15 DEF RawIs
  <1>18. MoreToOutput(q) => TableIs(q)
    <2>1. MoreToOutput(r) => TableIs(r) BY DEF Placed
    <2> QED BY <1>7, <1>11, <2>1 DEF TableIs
  <1>19. q.load # 1 BY <1>9
  <1>20. Placed(q)
    BY <1>1, <1>5, <1>7, <1>13, <1>14, <1>16, <1>17, <1>18, <1>19 DEF Placed, n
  <1> QED BY <1>7, <1>12, <1>20 DEF q

\* A table's ranges cover it: every row of it is one of the stripes'.
LEMMA TableTiles ==
  ASSUME RequestsAreValid, request \in Requests, NEW r, r.selected = Selected,
         NEW start \in Nat, NEW num \in Nat \ {0}, start + num <= RowsTo(Len(Selected))
  PROVE  Tiles(TableSplits(r, start, num), 0, num)
  <1> DEFINE n == Len(Selected)
             ends == InclusiveScan(RowsOf(r))
             bytes == RowBytes(r, ends, start, num)
  <1>1. CASE request.chunkLimit = 0
    <2>1. TableSplits(r, start, num) = <<[begin |-> 0, end |-> num]>> BY <1>1 DEF TableSplits
    <2>2. 0 < num BY DEF TableSplits
    <2> QED BY <2>1, <2>2, OneTile
  <1>2. CASE request.chunkLimit # 0
    <2>1. /\ Selected \in Seq(Numbers) /\ n \in Nat /\ RowsOf(r) \in Seq(Nat) /\ Len(RowsOf(r)) = n
          /\ RowsOf(r) = RowsIn(Selected)
      BY SelectionIs, DataIs
    <2>2. DOMAIN RowsOf(r) = 1 .. n /\ \A i \in 1 .. n : RowsOf(r)[i] \in Nat BY <2>1
    <2>3. /\ ends \in Seq(Nat) /\ Len(ends) = n
          /\ \A i \in 1 .. n : ends[i] = SumUpTo(RowsOf(r), i)
          /\ \A i \in 1 .. n : \A j \in 1 .. i : SumUpTo(RowsOf(r), j) \in Nat /\ SumUpTo(RowsOf(r), j) <= SumUpTo(RowsOf(r), i)
      BY <2>1, <2>2, ScanIs
    <2>4. n > 0
      <3>1. n = 0 => RowsTo(n) = 0 BY <2>1, RowsInIs DEF RowsTo
      <3> QED BY <2>1, <3>1
    <2>5. ends[n] = RowsTo(n) /\ n \in 1 .. n BY <2>1, <2>3, <2>4 DEF RowsTo, RowSum
    <2> HIDE DEF ends, n
    <2>6. ASSUME NEW x \in Nat, x < ends[n] PROVE UpperBound(ends, 1, Len(ends), x) \in 1 .. n
      <3> DEFINE f == LowerBound(ends, 1, n, x + 1)
      <3>1. 1 \in Int /\ n \in Nat /\ x + 1 \in Int BY <2>1
      <3>2. \A i \in 1 .. 1 + n - 1 : ends[i] \in Int /\ \A j \in 1 .. i : ends[j] <= ends[i]
        <4>1. 1 + n - 1 = n BY <2>1
        <4>2. ASSUME NEW i \in 1 .. n, NEW j \in 1 .. i PROVE ends[i] \in Int /\ ends[j] <= ends[i]
          <5>1. j \in 1 .. n /\ i \in 1 .. i BY <2>1
          <5>2. ends[i] = SumUpTo(RowsOf(r), i) /\ ends[j] = SumUpTo(RowsOf(r), j) BY <2>3, <5>1
          <5> QED BY <2>3, <5>1, <5>2
        <4>3. \A i \in 1 .. n : i \in 1 .. i BY <2>1
        <4> QED BY <4>1, <4>2, <4>3
      <3>3. f \in 1 .. 1 + n /\ \A i \in 1 .. f - 1 : ends[i] < x + 1
        BY <3>1, <3>2, SearchFinds
      <3>4. UpperBound(ends, 1, Len(ends), x) = f BY <2>3 DEF UpperBound
      <3> HIDE DEF f
      <3>5. f # 1 + n
        <4>1. SUFFICES ASSUME f = 1 + n PROVE FALSE OBVIOUS
        <4>2. n \in 1 .. f - 1 BY <2>5, <3>3, <4>1
        <4>3. ends[n] < x + 1 BY <3>3, <4>2
        <4>4. ends[n] \in Int BY <2>3, <2>5
        <4> QED BY <2>6, <4>3, <4>4
      <3>6. f \in 1 .. n BY <2>1, <3>3, <3>5
      <3> QED BY <3>4, <3>6
    <2>7. ASSUME NEW i \in 1 .. num PROVE bytes[i] \in Nat
      <3> DEFINE x == start + i - 1
      <3>1. ends[n] \in Int /\ start + num <= ends[n]
        <4>1. ends[n] \in Nat BY <2>3, <2>5
        <4> QED BY <2>5, <4>1 DEF n
      <3>2. x \in Nat /\ x < ends[n] BY <3>1
      <3>3. UpperBound(ends, 1, Len(ends), x) \in 1 .. n
        <4> HIDE DEF x
        <4> QED BY <2>6, <3>2
      <3>4. bytes[i] = Stripe(Selected[UpperBound(ends, 1, Len(ends), x)]).out BY DEF RowBytes
      <3>5. Selected[UpperBound(ends, 1, Len(ends), x)] \in Numbers BY <2>1, <3>3 DEF n
      <3> HIDE DEF x
      <3> QED BY <3>4, <3>5, RequestType DEF Numbers
    <2>8. TableSplits(r, start, num) = FindSplits(Segments(bytes, num), num, request.chunkLimit)
      BY <1>2 DEF TableSplits, ends
    <2>9. request.chunkLimit \in Nat /\ request.granularity \in Nat \ {0} /\ num \in Nat BY RequestType
    <2> HIDE DEF bytes
    <2>10. AddUp(Segments(bytes, num), num) BY <2>7, <2>9, SegmentsAddUp
    <2> QED BY <2>8, <2>9, <2>10, SplitsTile
  <1> QED BY <1>1, <1>2

\* A failed decode leaves the lists as they were.
LEMMA StopTyped ==
  ASSUME NEW r, Typed(r), MoreToDecode(r), NEW q, Fields(q), q.decode = r.decode + 1,
         q.error # "undefined", q.skip \in 0 .. Selection.skip, q.rows \in 0 .. Selection.rows,
         q.selected = r.selected, q.loads = r.loads, q.load = r.load, q.decodes = r.decodes,
         q.outputs = r.outputs, q.output = r.output, q.table = r.table
  PROVE  Typed(q)
  <1>1. r.decodes \in Seq(Ranges) /\ r.decode \in 1 .. Len(r.decodes) + 1 BY DEF Typed
  <1>2. q.decode \in 1 .. Len(q.decodes) + 1
    <2>1. Len(r.decodes) \in Nat BY <1>1
    <2>2. r.decode \in 1 .. Len(r.decodes) BY <1>1, <2>1 DEF MoreToDecode
    <2> QED BY <2>1, <2>2
  <1>3. PackedOf(q) = PackedOf(r) /\ BlocksOf(q) = BlocksOf(r) BY DEF PackedOf, BlocksOf
  <1>4. Fitted(q) BY <1>3 DEF Typed, Fitted
  <1>5. MoreToOutput(q) <=> MoreToOutput(r) BY DEF MoreToOutput
  <1> QED BY <1>2, <1>4, <1>5 DEF Typed

\* A range of a table does not end behind the rows.
LEMMA EndsBefore ==
  ASSUME NEW t \in Int, NEW begin \in Int, NEW end \in Int, NEW skip \in Int, NEW rows \in Int,
         NEW left \in Nat, NEW num \in Int, t + num = skip + (rows - left), end <= num
  PROVE  (t + begin - skip) + (end - begin) <= rows
  OBVIOUS

\* A decode fails, or decodes the rows that come next.
LEMMA DecodePlaced ==
  ASSUME RequestsAreValid, request \in Requests, NEW r, Placed(r), Wanted, r.rows > 0, MoreToDecode(r)
  PROVE  LET q == Decode(r)
         IN  /\ Typed(q)
             /\ \/ q.error # "none"
                \/ /\ Placed(q) /\ MoreToOutput(q)
                   /\ q.table[1] + q.outputs[q.output].begin - Selection.skip = Selection.rows - r.rows
  <1> DEFINE n == Len(Selected)
             range == r.decodes[r.decode]
             P == Position(r)
             e == range.end
             L == r.loads[r.load - 1]
             from == L.begin
             stripes == range.begin + 1 .. range.end
             all == RowsTo(e) - RowsTo(range.begin)
             start == RowsTo(range.begin) + r.skip
             num == Least(all - r.skip, r.rows)
             raw == [k \in DOMAIN r.raw |-> IF k + from \in stripes THEN 0 ELSE r.raw[k]]
             told == IF r.cached THEN 0 ELSE Max({Stripe(r.selected[k]).block : k \in stripes})
             outputs == TableSplits(r, start, num)
             q == Decode(r)
  <1>1. /\ Typed(r) /\ Fields(r) /\ r.prepared = TRUE /\ r.selected = Selected /\ r.error = "none"
        /\ r.decodes \in Seq(Ranges) /\ r.decode \in 1 .. Len(r.decodes) + 1 /\ Tiles(r.loads, 0, n)
        /\ r.rows \in 0 .. Selection.rows /\ r.skip \in 0 .. Selection.skip
        /\ RowsAre(r)
    BY DEF Placed, Typed
  <1>2. /\ n \in Nat /\ P \in 0 .. n /\ r.load > 1 /\ r.load \in Nat
        /\ L.begin \in Nat /\ L.end \in Nat /\ L.end <= n /\ L.begin <= P
        /\ range.begin = P /\ e \in Nat /\ e > P /\ e <= L.end
    <2> HIDE DEF n, P, e, L, range
    <2> QED BY PositionIs DEF n, P, e, L, range
  <1>3. Tiles(r.decodes, L.begin, L.end) /\ RawIs(r)
    BY <1>2 DEF Placed
  <1>4. /\ Selected \in Seq(Numbers) /\ Selection.skip \in Nat /\ Selection.rows \in Nat
        /\ RowsTo(n) >= Selection.skip + Selection.rows
    BY SelectionIs
  <1>5. /\ RowsTo(P) \in Nat /\ RowsTo(e) \in Nat /\ RowsTo(n) \in Nat /\ RowsTo(P) <= RowsTo(e)
        /\ RowsTo(e) <= RowsTo(n) /\ RowsTo(0) = 0
    <2>1. \A j \in 0 .. n : \A i \in 0 .. j : RowsTo(i) \in Nat /\ RowsTo(i) <= RowsTo(j)
      BY <1>4, RowsInIs DEF RowsTo
    <2>2. RowsTo(0) = 0 BY <1>4, RowsInIs DEF RowsTo
    <2> HIDE DEF P, e, n
    <2>3. e \in 0 .. n /\ P \in 0 .. e /\ n \in 0 .. n /\ n \in 0 .. n BY <1>2
    <2> QED BY <2>1, <2>2, <2>3
  <1>6. start \in Nat /\ start = Selection.skip + (Selection.rows - r.rows)
    <2>1. start = RowsTo(P) + r.skip BY <1>2
    <2>2. CASE P = 0
      <3>1. r.rows = Selection.rows /\ r.skip = Selection.skip BY <1>1, <2>2 DEF RowsAre
      <3> HIDE DEF start, P
      <3> QED BY <1>4, <1>5, <2>1, <2>2, <3>1
    <2>3. CASE P > 0
      <3>1. r.skip = 0 /\ Selection.rows - r.rows = RowsTo(P) - Selection.skip BY <1>1, <2>3 DEF RowsAre
      <3>2. r.rows \in Int BY <1>1
      <3> HIDE DEF start, P
      <3> QED BY <1>4, <1>5, <2>1, <3>1, <3>2
    <2> HIDE DEF P, start
    <2> QED BY <1>2, <2>2, <2>3
  <1>7. all \in Nat /\ all = RowsTo(e) - RowsTo(P) /\ start = RowsTo(P) + r.skip
    <2>1. all = RowsTo(e) - RowsTo(P) /\ start = RowsTo(P) + r.skip BY <1>2
    <2> HIDE DEF all, P, e, start
    <2> QED BY <1>5, <2>1
  <1>8. q = IF all <= r.skip THEN [r EXCEPT !.decode = r.decode + 1, !.error = "rows"]
            ELSE IF num > ColumnLimit
                 THEN [r EXCEPT !.decode = r.decode + 1, !.skip = 0, !.rows = r.rows - num, !.error = "overflow"]
            ELSE IF \E k \in stripes : k - from \notin DOMAIN r.raw \/ r.raw[k - from] # k
                 THEN [r EXCEPT !.error = "undefined"]
            ELSE [r EXCEPT !.decode = r.decode + 1, !.skip = 0, !.rows = r.rows - num, !.raw = raw,
                           !.table = <<start>>, !.told = told, !.outputs = outputs, !.output = 1]
    <2>1. HasData(r) BY <1>1 DEF HasData, Wanted
    <2>2. RowsOf(r) = RowsIn(Selected) BY <1>1, DataIs
    <2>3. \A k : SumUpTo(RowsOf(r), k) = RowsTo(k) BY <2>2 DEF RowsTo, RowSum
    <2> QED BY <2>1, <2>3 DEF Decode
  <1>9. ~(\E k \in stripes : k - from \notin DOMAIN r.raw \/ r.raw[k - from] # k)
    <2>1. \A k \in P + 1 .. L.end : k - L.begin \in DOMAIN r.raw /\ r.raw[k - L.begin] = k
      BY <1>3 DEF RawIs
    <2>2. stripes = P + 1 .. e BY <1>2
    <2> HIDE DEF P, e, L, stripes
    <2>3. \A k \in P + 1 .. e : k \in P + 1 .. L.end BY <1>2
    <2> HIDE DEF from
    <2> QED BY <2>1, <2>2, <2>3 DEF from
  <1>13. ASSUME ~(all <= r.skip)
         PROVE  /\ num \in Nat \ {0} /\ num <= r.rows /\ r.rows - num \in 0 .. Selection.rows
                /\ num <= all - r.skip /\ (num = all - r.skip \/ num = r.rows)
    <2>1. r.rows \in Nat /\ r.skip \in Nat /\ r.rows <= Selection.rows /\ Selection.rows \in Nat BY <1>1, <1>4
    <2>2. all \in Nat /\ all > r.skip
      <3>1. all \in Nat /\ ~(all <= r.skip) BY <1>7, <1>13
      <3> HIDE DEF all
      <3> QED BY <2>1, <3>1
    <2>3. PICK x, y : x = all - r.skip /\ y = r.rows OBVIOUS
    <2>4. num = Least(x, y) BY <2>3
    <2> HIDE DEF num, all
    <2>5. x \in Nat \ {0} /\ y \in Nat \ {0} BY <2>1, <2>2, <2>3
    <2>6. num \in Nat \ {0} /\ num <= x /\ num <= y /\ (num = x \/ num = y)
      BY <2>4, <2>5 DEF Least
    <2>7. r.rows - num \in 0 .. Selection.rows BY <2>1, <2>3, <2>5, <2>6
    <2> QED BY <2>3, <2>6, <2>7
  <1>10. CASE all <= r.skip
    <2>1. q = [r EXCEPT !.decode = r.decode + 1, !.error = "rows"] BY <1>8, <1>10
    <2> HIDE DEF q
    <2>2. /\ Fields(q) /\ q.decode = r.decode + 1 /\ q.error = "rows" /\ q.skip = r.skip /\ q.rows = r.rows
          /\ q.selected = r.selected /\ q.loads = r.loads /\ q.load = r.load /\ q.decodes = r.decodes
          /\ q.outputs = r.outputs /\ q.output = r.output /\ q.table = r.table
      BY <1>1, <2>1 DEF Fields
    <2>3. Typed(q) BY <1>1, <2>2, StopTyped
    <2> QED BY <2>2, <2>3 DEF q
  <1>11. CASE ~(all <= r.skip) /\ num > ColumnLimit
    <2>1. q = [r EXCEPT !.decode = r.decode + 1, !.skip = 0, !.rows = r.rows - num, !.error = "overflow"]
      BY <1>8, <1>11
    <2>2. r.rows - num \in 0 .. Selection.rows BY <1>11, <1>13
    <2> HIDE DEF q, num
    <2>3. /\ Fields(q) /\ q.decode = r.decode + 1 /\ q.error = "overflow" /\ q.skip = 0
          /\ q.rows = r.rows - num
          /\ q.selected = r.selected /\ q.loads = r.loads /\ q.load = r.load /\ q.decodes = r.decodes
          /\ q.outputs = r.outputs /\ q.output = r.output /\ q.table = r.table
      BY <1>1, <2>1 DEF Fields
    <2>4. 0 \in 0 .. Selection.skip BY <1>4
    <2>5. Typed(q) BY <1>1, <2>2, <2>3, <2>4, StopTyped
    <2> QED BY <2>3, <2>5 DEF q
  <1>12. CASE ~(all <= r.skip) /\ ~(num > ColumnLimit)
    <2>1. q = [r EXCEPT !.decode = r.decode + 1, !.skip = 0, !.rows = r.rows - num, !.raw = raw,
                        !.table = <<start>>, !.told = told, !.outputs = outputs, !.output = 1]
      BY <1>8, <1>9, <1>12
    <2>2. /\ num \in Nat \ {0} /\ num <= r.rows /\ r.rows - num \in 0 .. Selection.rows
          /\ num <= all - r.skip /\ (num = all - r.skip \/ num = r.rows)
      BY <1>12, <1>13
    <2> HIDE DEF raw, told, q
    <2>3. /\ Fields(q) /\ q.decode = r.decode + 1 /\ q.skip = 0 /\ q.rows = r.rows - num /\ q.raw = raw
          /\ q.table = <<start>> /\ q.outputs = outputs /\ q.output = 1
          /\ q.prepared = r.prepared /\ q.selected = r.selected
          /\ q.loads = r.loads /\ q.load = r.load /\ q.decodes = r.decodes
          /\ q.error = r.error
      <3> HIDE DEF start, num, outputs
      <3> QED BY <1>1, <2>1 DEF Fields
    <2> HIDE DEF start, num, all
    <2>4. start + num <= RowsTo(e) /\ start + num <= RowsTo(n)
      <3>1. start + num <= RowsTo(e) /\ RowsTo(e) <= RowsTo(n)
        <4> HIDE DEF P, e, n
        <4>1. r.skip \in Int BY <1>1
        <4> QED BY <1>5, <1>6, <1>7, <2>2, <4>1
      <3> HIDE DEF P, e, n
      <3> QED BY <1>5, <1>6, <2>2, <3>1
    <2>5. Tiles(outputs, 0, num) BY <1>1, <1>6, <2>2, <2>4, TableTiles
    <2> HIDE DEF outputs
    <2>6. outputs \in Seq(Ranges) /\ Len(outputs) \in Nat /\ Len(outputs) >= 1 /\ outputs[1].begin = 0
      <3>1. outputs \in Seq(Ranges) /\ outputs # <<>> /\ outputs[1].begin = 0 BY <2>2, <2>5 DEF Tiles
      <3> QED BY <3>1
    <2>7. MoreToOutput(q) BY <2>3, <2>6 DEF MoreToOutput
    <2>8. Fitted(q)
      <3>1. PackedOf(q) = PackedOf(r) /\ BlocksOf(q) = BlocksOf(r) BY <2>3 DEF PackedOf, BlocksOf
      <3> QED BY <1>1, <2>3, <3>1 DEF Typed, Fitted
    <2>9. r.decode \in 1 .. Len(r.decodes) /\ r.decode + 1 \in 1 .. Len(r.decodes) + 1 /\ r.decode + 1 # 1
          /\ (r.decode + 1) - 1 = r.decode
      <3>1. Len(r.decodes) \in Nat BY <1>1
      <3>2. r.decode \in 1 .. Len(r.decodes) BY <1>1, <3>1 DEF MoreToDecode
      <3> QED BY <3>1, <3>2
    <2>10. Typed(q)
      <3>1. <<start>> # <<>> /\ 1 \in 1 .. Len(outputs) + 1 /\ 0 \in 0 .. Selection.skip BY <1>4, <2>6
      <3> QED BY <1>1, <2>2, <2>3, <2>6, <2>7, <2>8, <2>9, <3>1 DEF Typed
    <2>11. Position(q) = e
      <3>1. q.load # 1 BY <1>2, <2>3
      <3>2. q.decode # 1 /\ q.decode - 1 = r.decode BY <2>3, <2>9
      <3> QED BY <2>3, <3>1, <3>2 DEF Position
    <2>12. RowsAre(q)
      <3>1. e > 0
        <4> HIDE DEF P, e
        <4> QED BY <1>2
      <3>2. q.rows > 0 => Selection.rows - q.rows = RowsTo(e) - Selection.skip
        <4> HIDE DEF P, e
        <4>1. r.skip \in Int /\ r.rows \in Int /\ Selection.rows \in Int /\ Selection.skip \in Int BY <1>1, <1>4
        <4>2. start \in Int /\ all \in Int /\ num \in Int /\ RowsTo(e) \in Int /\ RowsTo(P) \in Int
          BY <1>5, <1>6, <1>7, <2>2
        <4>3. q.rows = r.rows - num /\ (num = all - r.skip \/ num = r.rows) BY <2>2, <2>3
        <4>4. q.rows > 0 => num = all - r.skip BY <4>1, <4>2, <4>3
        <4>5. start = Selection.skip + (Selection.rows - r.rows) BY <1>6
        <4>6. all = RowsTo(e) - RowsTo(P) /\ start = RowsTo(P) + r.skip BY <1>7
        <4> HIDE DEF num, all, start
        <4>7. ASSUME num = all - r.skip PROVE Selection.rows - (r.rows - num) = RowsTo(e) - Selection.skip
          <5>1. PICK a \in Int, b \in Int, skip \in Int, skipped \in Int, rows \in Int, left \in Int, x \in Int :
                  /\ a = RowsTo(P) /\ b = RowsTo(e) /\ skip = Selection.skip /\ skipped = r.skip
                  /\ rows = Selection.rows /\ left = r.rows /\ x = num
            BY <4>1, <4>2
          <5>2. x = (b - a) - skipped BY <4>6, <4>7, <5>1
          <5>3. a + skipped = skip + (rows - left) BY <4>5, <4>6, <5>1
          <5>4. rows - (left - x) = b - skip BY <5>2, <5>3
          <5> QED BY <5>1, <5>4
        <4> QED BY <4>3, <4>4, <4>7
      <3>3. q.rows = 0 => RowsTo(e) >= Selection.skip + Selection.rows
        <4> HIDE DEF P, e
        <4>1. r.rows \in Nat /\ num \in Nat /\ start \in Nat /\ RowsTo(e) \in Nat BY <1>1, <1>5, <1>6, <2>2
        <4>2. Selection.skip \in Nat /\ Selection.rows \in Nat BY <1>4
        <4>3. q.rows = r.rows - num BY <2>3
        <4>4. start = Selection.skip + (Selection.rows - r.rows) BY <1>6
        <4>5. start + num <= RowsTo(e) BY <2>4
        <4> HIDE DEF num, start, q
        <4>6. q.rows = 0 => num = r.rows BY <4>1, <4>3
        <4> QED BY <4>1, <4>2, <4>4, <4>5, <4>6
      <3> HIDE DEF e
      <3>4. ~(e = 0) BY <3>1
      <3> QED BY <2>3, <2>11, <3>2, <3>3, <3>4 DEF RowsAre
    <2>13. RawIs(q)
      <3>1. \A k \in P + 1 .. L.end : k - L.begin \in DOMAIN r.raw /\ r.raw[k - L.begin] = k
        BY <1>3 DEF RawIs
      <3>2. stripes = P + 1 .. e BY <1>2
      <3>3. q.loads[q.load - 1] = L BY <2>3
      <3> HIDE DEF P, e, L, stripes
      <3>4. ASSUME NEW k \in e + 1 .. L.end PROVE k - L.begin \in DOMAIN q.raw /\ q.raw[k - L.begin] = k
        <4>1. k \in P + 1 .. L.end /\ k \notin P + 1 .. e /\ (k - L.begin) + L.begin = k BY <1>2
        <4>2. k - L.begin \in DOMAIN r.raw /\ r.raw[k - L.begin] = k BY <3>1, <4>1
        <4> QED BY <2>3, <3>2, <4>1, <4>2 DEF raw
      <3> QED BY <2>11, <3>3, <3>4 DEF RawIs
    <2>14. TableIs(q)
      <3>1. q.table[1] = start BY <2>3
      <3>2. start + num = Selection.skip + (Selection.rows - q.rows)
        <4>1. r.rows \in Int /\ Selection.rows \in Int /\ Selection.skip \in Int BY <1>1, <1>4
        <4>2. start = Selection.skip + (Selection.rows - r.rows) /\ num \in Int BY <1>6, <2>2
        <4>3. start + num = Selection.skip + (Selection.rows - (r.rows - num)) BY <4>1, <4>2
        <4>4. q.rows = r.rows - num BY <2>3
        <4> QED BY <4>3, <4>4
      <3> QED BY <1>6, <2>2, <2>3, <2>5, <3>1, <3>2 DEF TableIs
    <2>15. Placed(q)
      <3>1. q.load # 1 /\ q.loads[q.load - 1] = L BY <1>2, <2>3
      <3> HIDE DEF L, P, e, range
      <3> QED BY <1>1, <1>3, <2>3, <2>10, <2>12, <2>13, <2>14, <3>1 DEF Placed
    <2>16. q.table[1] + q.outputs[q.output].begin - Selection.skip = Selection.rows - r.rows
      <3>1. q.table[1] = start /\ q.outputs[q.output].begin = 0 BY <2>3, <2>6
      <3>2. r.rows \in Int BY <1>1
      <3> QED BY <1>4, <1>6, <3>1, <3>2
    <2> QED BY <2>7, <2>10, <2>15, <2>16 DEF q
  <1> QED BY <1>10, <1>11, <1>12

\* How much the reader has given.
GivenBy(r) ==
  IF MoreToOutput(r) THEN r.table[1] + r.outputs[r.output].begin - Selection.skip
  ELSE Selection.rows - r.rows

\* One call prepares as much as it needs for the next table, or fails; when no table
\* comes of it, all rows were read.
LEMMA PreparePlaced ==
  ASSUME RequestsAreValid, request \in Requests, NEW r, Placed(r)
  PROVE  LET q == PrepareMore(r)
         IN  /\ Typed(q)
             /\ q.error = "none" => /\ Placed(q) /\ GivenBy(q) = GivenBy(r)
                                    /\ ~MoreToOutput(q) => q.rows = 0
             /\ r.rows = 0 => q = r
  <1> DEFINE q == PrepareMore(r)
             s == LoadMore(r)
             n == Len(Selected)
  <1>1. Typed(r) /\ r.selected = Selected /\ r.rows \in 0 .. Selection.rows BY DEF Placed, Typed
  <1>2. Selection.rows \in Nat BY SelectionIs
  <1>3. CASE r.rows = 0
    <2>1. ~HasData(r) BY <1>3 DEF HasData
    <2>2. Load(r) = r /\ Decode(r) = r BY <2>1 DEF Load, Decode
    <2>3. q = r BY <2>2 DEF PrepareMore, DecodeMore, LoadMore
    <2> QED BY <1>1, <1>3, <2>3
  <1>4. CASE r.rows # 0 /\ MoreToOutput(r)
    <2>1. q = r BY <1>4 DEF PrepareMore
    <2> QED BY <1>1, <1>4, <2>1
  <1>5. CASE r.rows # 0 /\ ~MoreToOutput(r)
    <2>1. Wanted BY <1>5 DEF Placed
    <2>2. r.rows > 0 BY <1>1, <1>2, <1>5
    <2>3. q = DecodeMore(s) BY <1>5 DEF PrepareMore
    <2>4. Placed(s) /\ MoreToDecode(s) /\ s.rows = r.rows
      <3>1. CASE MoreToDecode(r)
        <4>1. s = r BY <3>1 DEF LoadMore
        <4> QED BY <3>1, <4>1
      <3>2. CASE ~MoreToDecode(r) /\ MoreToLoad(r)
        <4>1. s = Load(r) BY <3>2 DEF LoadMore
        <4> QED BY <2>1, <2>2, <3>2, <4>1, LoadPlaced
      <3>3. CASE ~MoreToDecode(r) /\ ~MoreToLoad(r)
        <4>1. Position(r) = n /\ n \in Nat BY <2>1, <3>3, PositionIs
        <4>2. n > 0
          <5>1. Selected \in Seq(Numbers) /\ Selected # <<>> BY <2>1, SelectionIs DEF Wanted
          <5> QED BY <5>1
        <4>3. Selection.rows - r.rows = RowsTo(n) - Selection.skip
          BY <2>1, <2>2, <4>1, <4>2 DEF Placed, RowsAre
        <4>4. RowsTo(n) >= Selection.skip + Selection.rows /\ Selection.skip \in Nat BY SelectionIs
        <4>5. RowsTo(n) \in Nat
          <5>1. n \in 0 .. n /\ Selected \in Seq(Numbers) BY <4>1, SelectionIs
          <5> QED BY <5>1, RowsInIs DEF RowsTo
        <4>6. r.rows \in Nat BY <1>1, <1>2
        <4> HIDE DEF n
        <4> QED BY <1>2, <2>2, <4>3, <4>4, <4>5, <4>6
      <3> QED BY <3>1, <3>2, <3>3
    <2>5. q = Decode(s) BY <2>3, <2>4 DEF DecodeMore
    <2> HIDE DEF q, s
    <2>6. /\ Typed(q)
          /\ \/ q.error # "none"
             \/ /\ Placed(q) /\ MoreToOutput(q)
                /\ q.table[1] + q.outputs[q.output].begin - Selection.skip = Selection.rows - s.rows
      BY <2>1, <2>2, <2>4, <2>5, DecodePlaced
    <2>7. q.error = "none" => GivenBy(q) = GivenBy(r) BY <1>5, <2>4, <2>6 DEF GivenBy
    <2> QED BY <1>5, <2>6, <2>7 DEF q
  <1> QED BY <1>3, <1>4, <1>5

\* What Output leaves: the table is given up with its last rows.
AfterOutput(r) ==
  LET a == [r EXCEPT !.output = @ + 1]
  IN  IF MoreToOutput(a) THEN a ELSE [a EXCEPT !.table = <<>>]

\* What returning a chunk changes.
LEMMA AfterOutputIs ==
  ASSUME NEW r, Fields(r), NEW q, q = AfterOutput(r)
  PROVE  /\ Fields(q) /\ q.output = r.output + 1 /\ q.error = r.error
         /\ q.prepared = r.prepared /\ q.skip = r.skip /\ q.rows = r.rows /\ q.selected = r.selected
         /\ q.loads = r.loads /\ q.load = r.load /\ q.decodes = r.decodes /\ q.decode = r.decode
         /\ q.outputs = r.outputs /\ q.raw = r.raw
         /\ MoreToOutput(q) => q.table = r.table
         /\ ~MoreToOutput(q) => q.table = <<>>
  <1>1. PICK a : a = [r EXCEPT !.output = r.output + 1] OBVIOUS
  <1>2. q = IF MoreToOutput(a) THEN a ELSE [a EXCEPT !.table = <<>>] BY <1>1 DEF AfterOutput
  <1>3. /\ Fields(a) /\ a.output = r.output + 1 /\ a.error = r.error
        /\ a.prepared = r.prepared /\ a.skip = r.skip /\ a.rows = r.rows /\ a.selected = r.selected
        /\ a.loads = r.loads /\ a.load = r.load /\ a.decodes = r.decodes /\ a.decode = r.decode
        /\ a.outputs = r.outputs /\ a.raw = r.raw /\ a.table = r.table
    BY <1>1 DEF Fields
  <1>4. CASE MoreToOutput(a)
    <2>1. q = a BY <1>2, <1>4
    <2> QED BY <1>3, <1>4, <2>1
  <1>5. CASE ~MoreToOutput(a)
    <2>1. q = [a EXCEPT !.table = <<>>] BY <1>2, <1>5
    <2>2. /\ Fields(q) /\ q.output = a.output /\ q.error = a.error
          /\ q.prepared = a.prepared /\ q.skip = a.skip /\ q.rows = a.rows /\ q.selected = a.selected
          /\ q.loads = a.loads /\ q.load = a.load /\ q.decodes = a.decodes /\ q.decode = a.decode
          /\ q.outputs = a.outputs /\ q.raw = a.raw /\ q.table = <<>>
      BY <1>3, <2>1 DEF Fields
    <2>3. ~MoreToOutput(q) BY <1>5, <2>2 DEF MoreToOutput
    <2> QED BY <1>3, <2>2, <2>3
  <1> QED BY <1>4, <1>5

\* What is returned is the next range of the table.
LEMMA OutputPlaced ==
  ASSUME RequestsAreValid, request \in Requests, NEW r, Placed(r), MoreToOutput(r),
         NEW q, q = AfterOutput(r)
  PROVE  LET range == r.outputs[r.output]
         IN  /\ Placed(q) /\ GivenBy(r) \in Int /\ range.end - range.begin \in Nat \ {0}
             /\ GivenBy(r) = r.table[1] + range.begin - Selection.skip
             /\ GivenBy(q) = GivenBy(r) + (range.end - range.begin)
             /\ GivenBy(q) <= Selection.rows
  <1> DEFINE range == r.outputs[r.output]
  <1>1. /\ Typed(r) /\ Fields(r) /\ r.outputs \in Seq(Ranges) /\ r.output \in 1 .. Len(r.outputs) + 1
        /\ r.table # <<>> /\ TableIs(r) /\ r.rows \in 0 .. Selection.rows
    BY DEF Placed, Typed
  <1>2. Selection.rows \in Nat /\ Selection.skip \in Nat BY SelectionIs
  <1>3. Len(r.outputs) \in Nat /\ r.output \in 1 .. Len(r.outputs)
    <2>1. Len(r.outputs) \in Nat BY <1>1
    <2> QED BY <1>1, <2>1 DEF MoreToOutput
  <1>4. PICK num \in Nat : /\ Tiles(r.outputs, 0, num) /\ r.table[1] \in Nat
                           /\ r.table[1] + num = Selection.skip + (Selection.rows - r.rows)
    BY <1>1 DEF TableIs
  <1>5. range.begin \in Nat /\ range.end \in Nat /\ range.begin < range.end /\ range.end <= num
    BY <1>3, <1>4, TilesInside
  <1>6. GivenBy(r) = r.table[1] + range.begin - Selection.skip BY DEF GivenBy
  <1>7. /\ Fields(q) /\ q.output = r.output + 1 /\ q.error = r.error
        /\ q.prepared = r.prepared /\ q.skip = r.skip /\ q.rows = r.rows /\ q.selected = r.selected
        /\ q.loads = r.loads /\ q.load = r.load /\ q.decodes = r.decodes /\ q.decode = r.decode
        /\ q.outputs = r.outputs /\ q.raw = r.raw
        /\ MoreToOutput(q) => q.table = r.table
        /\ ~MoreToOutput(q) => q.table = <<>>
    BY <1>1, AfterOutputIs
  <1>8. Fitted(q)
    <2>1. PackedOf(q) = PackedOf(r) /\ BlocksOf(q) = BlocksOf(r) BY <1>7 DEF PackedOf, BlocksOf
    <2> QED BY <1>1, <1>7, <2>1 DEF Typed, Fitted
  <1>9. Typed(q)
    <2>1. q.output \in 1 .. Len(q.outputs) + 1 BY <1>3, <1>7
    <2>2. q.table # <<>> <=> MoreToOutput(q) BY <1>1, <1>7
    <2> QED BY <1>1, <1>7, <1>8, <2>1, <2>2 DEF Typed
  <1>10. Position(q) = Position(r) BY <1>7 DEF Position
  <1>11. Placed(q)
    <2>1. RowsAre(r) => RowsAre(q) BY <1>7, <1>10 DEF RowsAre
    <2>2. RawIs(r) => RawIs(q) BY <1>7, <1>10 DEF RawIs
    <2>3. MoreToOutput(q) => TableIs(q) BY <1>1, <1>7 DEF TableIs
    <2> QED BY <1>7, <1>9, <2>1, <2>2, <2>3 DEF Placed
  <1>15. /\ r.rows \in Nat /\ r.rows \in Int /\ r.table[1] \in Int /\ num \in Int
         /\ Selection.rows \in Int /\ Selection.skip \in Int
         /\ range.begin \in Int /\ range.end \in Int
    <2> HIDE DEF range
    <2>1. r.rows \in Nat BY <1>1, <1>2
    <2>2. r.table[1] \in Int BY <1>4
    <2>3. Selection.rows \in Int /\ Selection.skip \in Int BY <1>2
    <2>4. range.begin \in Int /\ range.end \in Int BY <1>5
    <2>5. r.rows \in Int BY <2>1
    <2> QED BY <1>4, <2>1, <2>2, <2>3, <2>4, <2>5
  <1>12. GivenBy(q) = GivenBy(r) + (range.end - range.begin)
    <2>1. CASE MoreToOutput(q)
      <3>1. r.output \in 1 .. Len(r.outputs) - 1 BY <1>3, <1>7, <2>1 DEF MoreToOutput
      <3>2. range.end = r.outputs[r.output + 1].begin BY <1>4, <3>1 DEF Tiles
      <3>3. GivenBy(q) = r.table[1] + r.outputs[r.output + 1].begin - Selection.skip
        BY <1>7, <2>1 DEF GivenBy
      <3> HIDE DEF range
      <3> QED BY <1>2, <1>4, <1>5, <1>6, <3>2, <3>3
    <2>2. CASE ~MoreToOutput(q)
      <3>1. r.output = Len(r.outputs) BY <1>3, <1>7, <2>2 DEF MoreToOutput
      <3>2. range.end = num
        <4>1. r.outputs # <<>> BY <1>3
        <4> QED BY <1>4, <3>1, <4>1 DEF Tiles
      <3>3. GivenBy(q) = Selection.rows - r.rows BY <1>7, <2>2 DEF GivenBy
      <3> HIDE DEF range
      <3>5. r.table[1] + range.end = Selection.skip + (Selection.rows - r.rows) BY <1>4, <3>2
      <3>6. Selection.rows - r.rows
              = (r.table[1] + range.begin - Selection.skip) + (range.end - range.begin)
        <4>1. PICK t \in Int, begin \in Int, end \in Int, skip \in Int, rows \in Int, left \in Int :
                /\ t = r.table[1] /\ begin = range.begin /\ end = range.end /\ skip = Selection.skip
                /\ rows = Selection.rows /\ left = r.rows
          BY <1>15
        <4>2. t + end = skip + (rows - left) BY <3>5, <4>1
        <4>3. rows - left = (t + begin - skip) + (end - begin) BY <4>2
        <4> QED BY <4>1, <4>3
      <3> QED BY <1>6, <3>3, <3>6
    <2> QED BY <2>1, <2>2
  <1>13. GivenBy(q) <= Selection.rows
    <2> HIDE DEF range
    <2>2. r.table[1] + num = Selection.skip + (Selection.rows - r.rows) BY <1>4
    <2>1. range.end <= num BY <1>5
    <2>3. (r.table[1] + range.begin - Selection.skip) + (range.end - range.begin) <= Selection.rows
      BY <1>15, <2>1, <2>2, EndsBefore
    <2> QED BY <1>6, <1>12, <2>3
  <1>14. GivenBy(r) \in Int /\ range.end - range.begin \in Nat \ {0}
    <2> HIDE DEF range
    <2> QED BY <1>2, <1>4, <1>5, <1>6
  <1> QED BY <1>6, <1>11, <1>12, <1>13, <1>14

(***************************************************************************)
(* The calls of a program.                                                  *)
(***************************************************************************)
\* What PrepareData leaves of a reader between calls.
LEMMA DataPlaced ==
  ASSUME RequestsAreValid, request \in Requests, NEW r, r = NewReader \/ Placed(r),
         NEW q, q = PrepareData(r)
  PROVE  /\ Typed(q)
         /\ q.error = "none" =>
              /\ Placed(q)
              /\ ~MoreToOutput(q) => q.rows = 0 /\ GivenBy(q) = Selection.rows
              /\ r = NewReader => GivenBy(q) = 0
              /\ Placed(r) => GivenBy(q) = GivenBy(r)
         /\ Placed(r) /\ r.rows = 0 => q = r
  <1> DEFINE p == Preprocess(r)
  <1>1. Selection.rows \in Nat BY SelectionIs
  <1>2. Placed(r) => p = r BY DEF Preprocess, Placed
  <1>3. NewReader.prepared = FALSE BY NewIs
  <1>4. ~(r = NewReader /\ Placed(r)) BY <1>3 DEF Placed
  <1>5. r = NewReader => Placed(p) /\ GivenBy(p) = 0
    <2>1. r = NewReader => Placed(p) /\ ~MoreToOutput(p) /\ p.rows = Selection.rows BY StartPlaced
    <2> HIDE DEF p
    <2>2. r = NewReader => GivenBy(p) = Selection.rows - Selection.rows BY <2>1 DEF GivenBy
    <2> QED BY <1>1, <2>1, <2>2
  <1>6. q = PrepareMore(p) BY DEF PrepareData
  <1> HIDE DEF p
  <1>7. Placed(p) BY <1>2, <1>5
  <1>8. /\ Typed(q)
        /\ q.error = "none" => /\ Placed(q) /\ GivenBy(q) = GivenBy(p)
                               /\ ~MoreToOutput(q) => q.rows = 0
        /\ p.rows = 0 => q = p
    BY <1>6, <1>7, PreparePlaced
  <1>9. q.rows = 0 /\ ~MoreToOutput(q) => GivenBy(q) = Selection.rows BY <1>1 DEF GivenBy
  <1> QED BY <1>2, <1>4, <1>5, <1>8, <1>9

Chunks == [start : Int, length : Nat]

\* Until a call fails the reader is new, or where it should be, and the chunks returned are
\* the rows up to there.
OrcInv ==
  /\ request \in Requests /\ calls \in {"open", "done", "failed"} /\ Typed(reader)
  /\ returned \in Seq(Chunks) /\ Pieces!Given \in Nat
  /\ calls # "failed" => \/ reader = NewReader /\ returned = <<>>
                         \/ Placed(reader) /\ Pieces!Given = GivenBy(reader)

\* What the state functions are made of stays, with the request.
LEMMA RequestStays ==
  ASSUME request' = request, NEW r, reader' = r
  PROVE  /\ Selection' = Selection
         /\ Typed(reader)' <=> Typed(r)
         /\ Placed(reader)' <=> Placed(r)
         /\ GivenBy(reader)' = GivenBy(r)
  <1>1. Selection' = Selection
    BY DEF Selection, Chosen, SkipRows, ReadRows, TotalRows, RowsBefore, Stripe
  <1>2. LoadLimit' = LoadLimit /\ DecodeLimit' = DecodeLimit BY DEF LoadLimit, DecodeLimit
  <1>3. PackedOf(reader)' = PackedOf(r) /\ BlocksOf(reader)' = BlocksOf(r) BY DEF PackedOf, BlocksOf, Stripe
  <1>4. Fitted(reader)' <=> Fitted(r) BY <1>2, <1>3 DEF Fitted
  <1>5. MoreToOutput(reader)' <=> MoreToOutput(r) BY DEF MoreToOutput
  <1>6. Fields(reader)' <=> Fields(r) BY DEF Fields
  <1>7. Typed(reader)' <=> Typed(r) BY <1>1, <1>4, <1>5, <1>6 DEF Typed
  <1>8. Selected' = Selected BY <1>1 DEF Selected
  <1>9. Wanted' <=> Wanted BY <1>1, <1>8 DEF Wanted
  <1>10. Position(reader)' = Position(r) BY DEF Position
  <1>12. RowsTo(Position(reader))' = RowsTo(Position(r))
    BY <1>8 DEF RowsTo, RowSum, RowsIn, Stripe, Position
  <1>13. RowsAre(reader)' <=> RowsAre(r) BY <1>1, <1>10, <1>12 DEF RowsAre
  <1>14. RawIs(reader)' <=> RawIs(r) BY <1>10 DEF RawIs
  <1>15. TableIs(reader)' <=> TableIs(r) BY <1>1 DEF TableIs
  <1>16. Placed(reader)' <=> Placed(r)
    BY <1>1, <1>5, <1>7, <1>8, <1>9, <1>13, <1>14, <1>15 DEF Placed
  <1>17. GivenBy(reader)' = GivenBy(r) BY <1>1, <1>5 DEF GivenBy
  <1> QED BY <1>1, <1>7, <1>16, <1>17

\* What a program sees of the calls so far.
Stays == UNCHANGED Pieces!vars

\* The sequence of pieces with one more.
LEMMA GivenIs ==
  ASSUME NEW s \in Seq(Chunks), NEW x \in Chunks
  PROVE  /\ Append(s, x) \in Seq(Chunks) /\ Append(s, x) # <<>>
         /\ Append(s, x)[Len(Append(s, x))] = x
  <1>1. Len(s) \in Nat /\ Len(Append(s, x)) = Len(s) + 1 /\ Append(s, x)[Len(s) + 1] = x OBVIOUS
  <1>2. Len(Append(s, x)) # 0 BY <1>1
  <1>3. Append(s, x) # <<>>
    <2>1. Len(<<>>) = 0 OBVIOUS
    <2>2. ASSUME Append(s, x) = <<>> PROVE FALSE
      <3>1. Len(Append(s, x)) = Len(<<>>) BY <2>2
      <3> QED BY <1>2, <2>1, <3>1
    <2> QED BY <2>2
  <1>4. Append(s, x) \in Seq(Chunks) OBVIOUS
  <1>5. Append(s, x)[Len(Append(s, x))] = x BY <1>1
  <1> QED BY <1>3, <1>4, <1>5

\* A piece more: what was given grows by its length.
LEMMA AppendGives ==
  ASSUME returned \in Seq(Chunks), Pieces!Given \in Int, NEW n \in Nat,
         returned' = Append(returned, [start |-> Pieces!Given, length |-> n])
  PROVE  returned' \in Seq(Chunks) /\ Pieces!Given' = Pieces!Given + n
  <1> DEFINE g == Pieces!Given
             x == [start |-> g, length |-> n]
  <1>1. x \in Chunks /\ x.start = g /\ x.length = n BY DEF Chunks
  <1> HIDE DEF x, g
  <1>2. returned' = Append(returned, x) BY DEF x, g
  <1>3. returned' \in Seq(Chunks) /\ returned' # <<>> /\ returned'[Len(returned')] = x BY <1>1, <1>2, GivenIs
  <1>4. Pieces!Given' = x.start + x.length BY <1>3 DEF Pieces!Given
  <1> QED BY <1>1, <1>3, <1>4 DEF g

\* The invariant and the stream's initial state hold at first.
LEMMA OrcInit ==
  ASSUME RequestsAreValid, Init
  PROVE  OrcInv /\ Pieces!Init
  <1>1. request \in Requests /\ reader = NewReader /\ returned = <<>> /\ calls = "open" BY DEF Init
  <1>2. Typed(reader) BY <1>1, NewIs
  <1>3. Pieces!Given = 0 BY <1>1 DEF Pieces!Given
  <1>4. Selection.rows \in Nat BY <1>1, SelectionIs
  <1>5. returned \in Seq(Chunks) BY <1>1
  <1> QED BY <1>1, <1>2, <1>3, <1>4, <1>5 DEF OrcInv, Pieces!Init

\* What is known of the reader that a call prepares.
LEMMA CallIs ==
  ASSUME RequestsAreValid, OrcInv, calls = "open", NEW q, q = PrepareData(reader)
  PROVE  /\ Typed(q) /\ Pieces!Given \in Nat
         /\ q.error = "none" => /\ Placed(q) /\ GivenBy(q) = Pieces!Given
                                /\ ~MoreToOutput(q) => q.rows = 0 /\ Pieces!Given = Selection.rows
  <1>1. /\ request \in Requests /\ Pieces!Given \in Nat
        /\ \/ reader = NewReader /\ returned = <<>>
           \/ Placed(reader) /\ Pieces!Given = GivenBy(reader)
    BY DEF OrcInv
  <1>2. returned = <<>> => Pieces!Given = 0 BY DEF Pieces!Given
  <1>3. /\ Typed(q)
        /\ q.error = "none" =>
             /\ Placed(q)
             /\ ~MoreToOutput(q) => q.rows = 0 /\ GivenBy(q) = Selection.rows
             /\ reader = NewReader => GivenBy(q) = 0
             /\ Placed(reader) => GivenBy(q) = GivenBy(reader)
    BY <1>1, DataPlaced
  <1>4. q.error = "none" => GivenBy(q) = Pieces!Given BY <1>1, <1>2, <1>3
  <1> QED BY <1>1, <1>3, <1>4

\* A call that throws.
LEMMA FailsIs ==
  ASSUME RequestsAreValid, OrcInv, calls = "open", NEW q, q = PrepareData(reader),
         Fails(q), request' = request
  PROVE  OrcInv' /\ Pieces!Finish
  <1>1. Typed(q) /\ Pieces!Given \in Nat BY CallIs
  <1>2. reader' = q /\ calls' = "failed" /\ returned' = returned BY DEF Fails
  <1>3. Typed(reader)' /\ Selection' = Selection BY <1>1, <1>2, RequestStays
  <1>4. Pieces!Given' = Pieces!Given BY <1>2 DEF Pieces!Given
  <1>5. request \in Requests /\ returned \in Seq(Chunks) BY DEF OrcInv
  <1>6. OrcInv' BY <1>1, <1>2, <1>3, <1>4, <1>5 DEF OrcInv
  <1>7. Pieces!Finish BY <1>2, <1>3 DEF Pieces!Finish
  <1> QED BY <1>6, <1>7

\* has_next keeps the invariant and gives nothing.
LEMMA HasNextIs ==
  ASSUME RequestsAreValid, OrcInv, HasNext
  PROVE  OrcInv' /\ (Pieces!Finish \/ Stays)
  <1> DEFINE q == PrepareData(reader)
  <1>1. calls = "open" /\ request' = request
        /\ \/ Fails(q)
           \/ /\ q.error = "none" /\ reader' = q /\ returned' = returned
              /\ calls' = IF HasNextOf(q) THEN "open" ELSE "done"
    BY DEF HasNext
  <1> HIDE DEF q
  <1>2. CASE Fails(q) BY <1>1, <1>2, FailsIs DEF q
  <1>3. CASE /\ q.error = "none" /\ reader' = q /\ returned' = returned
             /\ calls' = IF HasNextOf(q) THEN "open" ELSE "done"
    <2>1. /\ Typed(q) /\ Pieces!Given \in Nat /\ Placed(q) /\ GivenBy(q) = Pieces!Given
          /\ ~MoreToOutput(q) => Pieces!Given = Selection.rows
      BY <1>1, <1>3, CallIs DEF q
    <2>2. Selection' = Selection /\ Typed(reader)' /\ Placed(reader)' /\ GivenBy(reader)' = GivenBy(q)
      BY <1>1, <1>3, <2>1, RequestStays
    <2>3. Pieces!Given' = Pieces!Given BY <1>3 DEF Pieces!Given
    <2>4. request \in Requests /\ returned \in Seq(Chunks) BY DEF OrcInv
    <2>5. OrcInv' BY <1>1, <1>3, <2>1, <2>2, <2>3, <2>4 DEF OrcInv
    <2>6. CASE HasNextOf(q)
      <3>1. Stays BY <1>1, <1>3, <2>2, <2>6 DEF Stays, Pieces!vars
      <3> QED BY <2>5, <3>1
    <2>7. CASE ~HasNextOf(q)
      <3>1. ~MoreToOutput(q) BY <2>7 DEF HasNextOf
      <3>2. Pieces!Finish BY <1>1, <1>3, <2>1, <2>2, <2>7, <3>1 DEF Pieces!Finish
      <3> QED BY <2>5, <3>2
    <2> QED BY <2>6, <2>7
  <1> QED BY <1>1, <1>2, <1>3

\* read_chunk keeps the invariant and gives the next rows, or the call fails.
LEMMA ReadChunkIs ==
  ASSUME RequestsAreValid, OrcInv, ReadChunk
  PROVE  OrcInv' /\ (Pieces!Finish \/ \E n \in 0 .. Selection.rows : Pieces!Give(n))
  <1> DEFINE q == PrepareData(reader)
             g == Pieces!Given
             total == Selection.rows
  <1>1. calls = "open" /\ request' = request
        /\ \/ Fails(q)
           \/ q.error = "none" /\ MoreToOutput(q) /\ Output(q) /\ calls' = calls
           \/ /\ q.error = "none" /\ ~MoreToOutput(q)
              /\ returned' = Append(returned, [start |-> total, length |-> 0])
              /\ reader' = q /\ calls' = calls
    BY DEF ReadChunk
  <1> HIDE DEF q
  <1>2. request \in Requests /\ returned \in Seq(Chunks) BY DEF OrcInv
  <1>3. total \in Nat BY <1>2, SelectionIs
  <1>4. CASE Fails(q) BY <1>1, <1>4, FailsIs DEF q
  <1>5. CASE q.error = "none" /\ MoreToOutput(q) /\ Output(q) /\ calls' = calls
    <2> DEFINE range == q.outputs[q.output]
               n == range.end - range.begin
               a == AfterOutput(q)
    <2>1. g \in Nat /\ Placed(q) /\ GivenBy(q) = g BY <1>1, <1>5, CallIs DEF q
    <2>2. reader' = a /\ returned' = Append(returned, [start |-> q.table[1] + range.begin - Selection.skip, length |-> n])
      BY <1>5 DEF Output, AfterOutput
    <2> HIDE DEF g, a, total
    <2>3. /\ Placed(a) /\ n \in Nat \ {0}
          /\ GivenBy(q) = q.table[1] + range.begin - Selection.skip
          /\ GivenBy(a) = GivenBy(q) + n /\ GivenBy(a) <= total
      BY <1>2, <1>5, <2>1, OutputPlaced DEF a, total
    <2> HIDE DEF n, range
    <2>4. returned' = Append(returned, [start |-> g, length |-> n]) BY <2>1, <2>2, <2>3
    <2>5. Selection' = Selection /\ Typed(reader)' /\ Placed(reader)' /\ GivenBy(reader)' = GivenBy(a)
      <3>1. Typed(a) BY <2>3 DEF Placed
      <3> QED BY <1>1, <2>2, <2>3, <3>1, RequestStays
    <2>6. n \in Nat /\ n # 0 BY <2>3
    <2>7. returned' \in Seq(Chunks) /\ g' = g + n BY <1>2, <2>1, <2>4, <2>6, AppendGives DEF g
    <2>8. g + n <= total /\ g + n \in Nat /\ n \in 0 .. total BY <1>3, <2>1, <2>3, <2>6
    <2>9. OrcInv' BY <1>1, <1>2, <1>5, <2>1, <2>3, <2>5, <2>7, <2>8 DEF OrcInv, g
    <2>10. Pieces!Give(n) BY <1>1, <1>5, <2>4, <2>5, <2>6, <2>8 DEF Pieces!Give, g, total
    <2> QED BY <2>8, <2>9, <2>10 DEF total
  <1>6. CASE /\ q.error = "none" /\ ~MoreToOutput(q)
             /\ returned' = Append(returned, [start |-> total, length |-> 0])
             /\ reader' = q /\ calls' = calls
    <2>1. g \in Nat /\ Typed(q) /\ Placed(q) /\ GivenBy(q) = g /\ g = total BY <1>1, <1>6, CallIs DEF q
    <2>2. Selection' = Selection /\ Typed(reader)' /\ Placed(reader)' /\ GivenBy(reader)' = g
      BY <1>1, <1>6, <2>1, RequestStays
    <2>3. returned' = Append(returned, [start |-> g, length |-> 0]) BY <1>6, <2>1
    <2>4. returned' \in Seq(Chunks) /\ g' = g + 0 BY <1>2, <2>1, <2>3, AppendGives
    <2> HIDE DEF g, total
    <2>5. g' = g /\ g + 0 = g /\ 0 \in 0 .. total BY <1>3, <2>1, <2>4
    <2>6. OrcInv' BY <1>1, <1>2, <1>6, <2>1, <2>2, <2>4, <2>5 DEF OrcInv, g
    <2>7. g + 0 <= total BY <1>3, <2>1, <2>5
    <2>8. Pieces!Give(0) BY <1>1, <1>6, <2>1, <2>2, <2>3, <2>7 DEF Pieces!Give, g, total
    <2> QED BY <2>5, <2>6, <2>8 DEF total
  <1> QED BY <1>1, <1>4, <1>5, <1>6

\* A stuttering step.
LEMMA OrcStutter ==
  ASSUME OrcInv, UNCHANGED orcVars
  PROVE  OrcInv' /\ Stays
  <1>1. request' = request /\ reader' = reader /\ returned' = returned /\ calls' = calls BY DEF orcVars
  <1>2. /\ Selection' = Selection /\ (Typed(reader)' <=> Typed(reader))
        /\ (Placed(reader)' <=> Placed(reader)) /\ GivenBy(reader)' = GivenBy(reader)
    BY <1>1, RequestStays
  <1>3. Pieces!Given' = Pieces!Given BY <1>1 DEF Pieces!Given
  <1>4. NewReader' = NewReader BY DEF NewReader
  <1>5. OrcInv' BY <1>1, <1>2, <1>3, <1>4 DEF OrcInv
  <1> QED BY <1>1, <1>2, <1>5 DEF Stays, Pieces!vars

(***************************************************************************)
(* The theorems.                                                            *)
(***************************************************************************)
\* The invariant holds of every request, whatever its stripes, limits and rows.
THEOREM OrcInvariant == Spec => []OrcInv
  <1>1. Init => OrcInv BY RequestsAreValid, OrcInit
  <1>2. OrcInv /\ [Next]_orcVars => OrcInv'
    <2> SUFFICES ASSUME OrcInv, [Next]_orcVars PROVE OrcInv' OBVIOUS
    <2>1. CASE HasNext BY <2>1, RequestsAreValid, HasNextIs
    <2>2. CASE ReadChunk BY <2>2, RequestsAreValid, ReadChunkIs
    <2>3. CASE UNCHANGED orcVars BY <2>3, OrcStutter
    <2> QED BY <2>1, <2>2, <2>3 DEF Next
  <1> QED BY <1>1, <1>2, PTL DEF Spec

\* The cursors lie in their lists, and a table is held as long as some of its rows are to
\* be returned.
THEOREM OrcTypes == Spec => []OrcTypeOK
  <1>1. OrcInv => OrcTypeOK BY DEF OrcInv, Typed, OrcTypeOK
  <1> QED BY <1>1, OrcInvariant, PTL

\* The cursors stay in their lists, and a decode finds every stripe of its range where the
\* load put it.
THEOREM OrcLoads == Spec => []StripesAreLoaded
  <1>1. OrcInv => reader.error # "undefined" BY DEF OrcInv, Typed
  <1>2. OrcTypeOK /\ reader.error # "undefined" => StripesAreLoaded BY DEF StripesAreLoaded
  <1> QED BY <1>1, <1>2, OrcInvariant, OrcTypes, PTL

\* A range of stripes over its limit could not have been shorter.
THEOREM OrcLimits == Spec => []RangesFit
  <1>1. OrcInv => RangesFit BY DEF OrcInv, Typed, Fitted, RangesFit
  <1> QED BY <1>1, OrcInvariant, PTL

\* When all rows were returned has_next says no.
THEOREM OrcEnds == Spec => []EndIsSeen
  <1>1. ASSUME OrcInv PROVE EndIsSeen
    <2> SUFFICES ASSUME EndsWithRows, calls = "open", returned # <<>>, Pieces!Given = Selection.rows
                 PROVE  ~HasNextOf(PrepareData(reader))
      BY DEF EndIsSeen, HasNextIsTrue
    <2> DEFINE r == reader
    <2>1. Placed(r) /\ GivenBy(r) = Selection.rows /\ request \in Requests BY <1>1 DEF OrcInv
    <2>2. r.rows \in 0 .. Selection.rows /\ Selection.rows \in Nat /\ Selection.skip \in Nat
      BY <2>1, RequestsAreValid, SelectionIs DEF Placed, Typed
    <2>3. ~MoreToOutput(r)
      <3>1. ASSUME MoreToOutput(r) PROVE FALSE
        <4> DEFINE q == AfterOutput(r)
                   n == r.outputs[r.output].end - r.outputs[r.output].begin
        <4>1. n \in Nat \ {0} /\ GivenBy(q) = GivenBy(r) + n /\ GivenBy(q) <= Selection.rows
          BY <2>1, <3>1, RequestsAreValid, OutputPlaced
        <4> HIDE DEF q, n
        <4> QED BY <2>1, <2>2, <4>1
      <3> QED BY <3>1
    <2>4. r.rows = 0
      <3>1. Selection.rows - r.rows = Selection.rows BY <2>1, <2>3 DEF GivenBy
      <3> QED BY <2>2, <3>1
    <2>5. PrepareData(r) = r BY <2>1, <2>4, RequestsAreValid, DataPlaced
    <2>6. ~MoreToDecode(r) /\ ~MoreToLoad(r)
      <3>1. CASE ~Wanted
        <4>1. r.loads = <<>> /\ r.decodes = <<>> BY <2>1, <3>1 DEF Placed
        <4>2. Len(r.loads) = 0 /\ Len(r.decodes) = 0 BY <4>1
        <4>3. r.load \in 1 .. Len(r.loads) + 1 /\ r.decode \in 1 .. Len(r.decodes) + 1
          BY <2>1 DEF Placed, Typed
        <4> QED BY <4>2, <4>3 DEF MoreToDecode, MoreToLoad
      <3>2. CASE Wanted
        <4> DEFINE n == Len(Selected)
                   P == Position(r)
        <4>1. RowsAre(r) BY <2>1, <3>2 DEF Placed
        <4>2. Selection.rows > 0 /\ Selected # <<>> BY <3>2 DEF Wanted
        <4>3. P # 0 BY <2>4, <4>1, <4>2 DEF RowsAre
        <4>4. P \in 0 .. n /\ n \in Nat BY <2>1, <3>2, RequestsAreValid, PositionIs
        <4>5. RowsTo(P) >= Selection.skip + Selection.rows BY <2>4, <4>1, <4>3, <4>4 DEF RowsAre
        <4>6. RowsTo(n - 1) < Selection.skip + Selection.rows
          BY <2>1, <4>2, RequestsAreValid, SelectionIs
        <4>7. P = n
          <5>1. ASSUME P # n PROVE FALSE
            <6>1. P \in 0 .. n - 1 /\ n - 1 \in 0 .. n BY <4>4, <5>1
            <6>2. Selected \in Seq(Numbers) BY <2>1, RequestsAreValid, SelectionIs
            <6>3. RowsTo(P) <= RowsTo(n - 1) /\ RowsTo(P) \in Nat /\ RowsTo(n - 1) \in Nat
              <7>1. \A j \in 0 .. n : \A i \in 0 .. j :
                      RowsTo(i) \in Nat /\ RowsTo(i) <= RowsTo(j)
                BY <2>1, <6>2, RequestsAreValid, RowsInIs DEF RowsTo
              <7>2. n - 1 \in 0 .. n - 1 BY <4>4, <6>1
              <7> HIDE DEF n, P
              <7> QED BY <6>1, <7>1, <7>2
            <6> HIDE DEF n, P
            <6> QED BY <2>2, <4>5, <4>6, <6>3
          <5> QED BY <5>1
        <4> HIDE DEF P
        <4>8. MoreToDecode(r) => n > P
          <5>1. MoreToDecode(r) => /\ r.decodes[r.decode].end \in Nat /\ r.load > 1
                                   /\ r.decodes[r.decode].end > P
                                   /\ r.decodes[r.decode].end <= r.loads[r.load - 1].end
            BY <2>1, <3>2, RequestsAreValid, PositionIs DEF P
          <5>2. r.load > 1 => r.loads[r.load - 1].end <= n /\ r.loads[r.load - 1].end \in Nat
            BY <2>1, <3>2, RequestsAreValid, PositionIs
          <5> HIDE DEF n
          <5> QED BY <4>4, <5>1, <5>2
        <4>9. ~MoreToDecode(r) /\ MoreToLoad(r) => n > P
          <5>1. ~MoreToDecode(r) /\ MoreToLoad(r) =>
                  r.loads[r.load].end \in Nat /\ r.loads[r.load].end > P /\ r.loads[r.load].end <= n
            BY <2>1, <3>2, RequestsAreValid, PositionIs DEF P
          <5> HIDE DEF n
          <5> QED BY <4>4, <5>1
        <4> QED BY <4>4, <4>7, <4>8, <4>9
      <3> QED BY <3>1, <3>2
    <2> QED BY <2>3, <2>5, <2>6 DEF HasNextOf
  <1> QED BY <1>1, OrcInvariant, PTL

\* Every call of the reader is a step of a stream that gives the rows asked for each once and
\* in order, or changes nothing that its user sees.
THEOREM OrcImplementsStream == Spec => ImplementsStream
  <1>1. Init => Pieces!Init BY RequestsAreValid, OrcInit
  <1>2. OrcInv /\ [Next]_orcVars => [Pieces!Next]_(Pieces!vars)
    <2> SUFFICES ASSUME OrcInv, [Next]_orcVars PROVE Pieces!Next \/ Stays BY DEF Stays
    <2>1. CASE HasNext
      <3>1. Pieces!Finish \/ Stays BY <2>1, RequestsAreValid, HasNextIs
      <3> QED BY <3>1 DEF Pieces!Next
    <2>2. CASE ReadChunk
      <3>1. Pieces!Finish \/ \E n \in 0 .. Selection.rows : Pieces!Give(n)
        BY <2>2, RequestsAreValid, ReadChunkIs
      <3> QED BY <3>1 DEF Pieces!Next
    <2>3. CASE UNCHANGED orcVars BY <2>3, OrcStutter
    <2> QED BY <2>1, <2>2, <2>3 DEF Next
  <1> QED BY <1>1, <1>2, OrcInvariant, PTL DEF Spec, ImplementsStream, Pieces!Spec
=============================================================================
