----------------------------- MODULE MedianCheck -----------------------------
(***************************************************************************)
(* What median_wad should be.  calc is the calculation at hand: which it   *)
(* is, and its arguments.                                                  *)
(***************************************************************************)
EXTENDS LeverageMath, Functions

CONSTANTS Readings,     \* values a venue sample may have, 0 included
          Voters        \* number of samples

ASSUME MedianCheckAssumption == Readings \subseteq Nat /\ Voters \in Nat

VARIABLE calc

MedianCalcs == [of : {"median"}, samples : [1..Voters -> Readings]]

(* The samples that are not zero, from the least to the largest.           *)
Priced(samples) == {i \in DOMAIN samples : samples[i] # 0}

Sortings(samples) ==
    {p \in Bijection(1..Cardinality(Priced(samples)), Priced(samples)) :
        \A i, j \in DOMAIN p : i <= j => samples[p[i]] <= samples[p[j]]}

(* The textbook median of the samples that are not zero. *)
SortedMedian(samples) ==
    LET p == CHOOSE p \in Sortings(samples) : TRUE
        n == Cardinality(Priced(samples))
    IN  IF n = 0 THEN 0
        ELSE IF n % 2 = 1 THEN samples[p[(n + 1) \div 2]]
        ELSE (samples[p[n \div 2]] + samples[p[n \div 2 + 1]]) \div 2

(* median_wad, which averages two middle samples without adding them, is   *)
(* the median of the venues that have a price: an unread venue (0) has no  *)
(* vote, and no rounding is lost in the split average.                     *)
MedianIsExact ==
    calc.of = "median" => MedianWad(calc.samples) = SortedMedian(calc.samples)
=============================================================================
