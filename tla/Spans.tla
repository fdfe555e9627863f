------------------------------- MODULE Spans -------------------------------
(***************************************************************************)
(* Searches and sums over sequences that several models of host code share:  *)
(* std::lower_bound and its kin do a binary search whether or not the        *)
(* sequence is sorted, and size_t subtraction wraps around.                  *)
(***************************************************************************)
EXTENDS Integers, Sequences

\* The first of the n positions from `at' whose element is not below x, by
\* halving; at + n when there is none.
LowerBound(s, at, n, x) ==
  LET Halved(r) ==
        LET half == r.left \div 2
        IN  IF r.left = 0 THEN r
            ELSE IF s[r.first + half] < x
                 THEN [first |-> r.first + half + 1, left |-> r.left - half - 1]
                 ELSE [first |-> r.first, left |-> half]
      search[i \in 0 .. n] == IF i = 0 THEN [first |-> at, left |-> n] ELSE Halved(search[i - 1])
  IN  search[n].first

\* Likewise the first element above x.
UpperBound(s, at, n, x) == LowerBound(s, at, n, x + 1)

\* a - b for size_t: below zero it is a huge number.
Huge == 1000000
Minus(a, b) == IF a >= b THEN a - b ELSE Huge - (b - a)

Least(a, b) == IF a < b THEN a ELSE b
Greatest(a, b) == IF a < b THEN b ELSE a
LeastOf(S) == CHOOSE x \in S : \A y \in S : x <= y

\* s itself, which TLC then holds as a tuple and does not evaluate again.
AsTuple(s) == SubSeq(s, 1, Len(s))

\* The sum of the first n elements of s.
SumUpTo(s, n) ==
  LET sum[i \in 0 .. n] == IF i = 0 THEN 0 ELSE sum[i - 1] + s[i]
  IN  sum[n]

\* The sums of all prefixes.
InclusiveScan(s) == AsTuple([i \in DOMAIN s |-> SumUpTo(s, i)])
=============================================================================
