----------------------------- MODULE Statistics -----------------------------
(***************************************************************************)
(* The statistics a review is computed with.  A value is a fraction         *)
(* <<numerator, denominator>>; a list of values is a function to fractions, *)
(* because no statistic depends on the order of its list.  None stands for  *)
(* a statistic of an empty list.                                            *)
(***************************************************************************)
EXTENDS Integers, FiniteSetsExt, SequencesExt, Functions

CONSTANT None

Whole(n) == <<n, 1>>
Plus(p, q) == <<p[1] * q[2] + q[1] * p[2], p[2] * q[2]>>
Minus(p, q) == <<p[1] * q[2] - q[1] * p[2], p[2] * q[2]>>
Below(p, q) == p[1] * q[2] < q[1] * p[2]

Rate(numerator, denominator) ==
    IF denominator = 0 THEN None ELSE <<numerator, denominator>>

MissingRate(total, completed) == Rate(total - completed, total)

\* A missing rate of a report becomes the completed share.
OutcomeCompletion(rate) == IF rate = None THEN None ELSE Minus(Whole(1), rate)

AbsoluteDifference(p, q) ==
    IF p = None \/ q = None THEN None
    ELSE IF Below(p, q) THEN Minus(q, p) ELSE Minus(p, q)

MeanOrNone(values) ==
    IF DOMAIN values = {} THEN None
    ELSE LET total == FoldFunction(Plus, Whole(0), values)
         IN <<total[1], total[2] * Cardinality(DOMAIN values)>>

\* The values in ascending order.
InOrder(values) ==
    LET keys == SetToSortSeq(DOMAIN values, LAMBDA a, b : Below(values[a], values[b]))
    IN [i \in DOMAIN keys |-> values[keys[i]]]

MedianOrNone(values) ==
    LET s == InOrder(values) n == Len(s)
    IN IF n = 0 THEN None
       ELSE IF n % 2 = 1 THEN s[(n + 1) \div 2]
       ELSE LET sum == Plus(s[n \div 2], s[n \div 2 + 1]) IN <<sum[1], 2 * sum[2]>>

\* The fifth percentile: interpolated at position (n - 1) / 20 from zero.
FifthPercentile(values) ==
    LET s == InOrder(values) n == Len(s)
        lower == (n - 1) \div 20
        part == (n - 1) % 20
        step == Minus(s[lower + 2], s[lower + 1])
    IN IF n = 0 THEN None
       ELSE IF part = 0 THEN s[lower + 1]
       ELSE Plus(s[lower + 1], <<step[1] * part, step[2] * 20>>)

\* Twice the average rank of each key, so that tied ranks are integers.
AverageRanks(values) ==
    [k \in DOMAIN values |->
        2 * Cardinality({j \in DOMAIN values : Below(values[j], values[k])})
          + Cardinality({j \in DOMAIN values :
                            ~Below(values[j], values[k]) /\ ~Below(values[k], values[j])}) + 1]

Root(n) == CHOOSE r \in 0 .. n : r * r <= n /\ n < (r + 1) * (r + 1)

\* The correlation of two lists of integers, with the root of the denominator to
\* a tenth; None without variance.
Pearson(left, right) ==
    LET n == Cardinality(DOMAIN left)
        moment(f, g) == n * SumFunction([k \in DOMAIN f |-> f[k] * g[k]])
                          - SumFunction(f) * SumFunction(g)
        product == moment(left, left) * moment(right, right)
    IN IF product = 0 THEN None
       ELSE <<10 * moment(left, right), Root(100 * product)>>

Spearman(left, right) ==
    IF Cardinality(DOMAIN left) < 2 THEN None
    ELSE Pearson(AverageRanks(left), AverageRanks(right))

\* The two halves of a list; the second one has the middle.
ChronologicalHalves(s) ==
    LET split == Len(s) \div 2
    IN <<SubSeq(s, 1, split), SubSeq(s, split + 1, Len(s))>>

\* The largest loss from a peak; a negative equity is passed over.
MaximumDrawdown(equity) ==
    LET valid == SelectSeq(equity, LAMBDA v : v >= 0)
        peak(j) == Max({valid[i] : i \in 1 .. j})
        losses == {<<peak(j) - valid[j], peak(j)>> : j \in {i \in DOMAIN valid : peak(i) > 0}}
    IN IF losses = {} THEN Whole(0)
       ELSE CHOOSE p \in losses : \A q \in losses : ~Below(p, q)

(***************************************************************************)
(* Gates: a statistic that is not there yet is pending.                     *)
(***************************************************************************)
NumericGate(actual, operator, threshold) ==
    LET holds == CASE operator = ">=" -> ~Below(actual, threshold)
                   [] operator = ">" -> Below(threshold, actual)
                   [] operator = "<=" -> ~Below(threshold, actual)
    IN IF actual = None THEN "pending" ELSE IF holds THEN "passed" ELSE "failed"

\* A gate on a truth value that may be missing.
TruthGate(value) ==
    IF value = None THEN "pending" ELSE IF value THEN "passed" ELSE "failed"

\* The lower of the means of two halves: what holds for it from some value on holds for both.
WorseHalf(halves) ==
    LET first == MeanOrNone(halves[1]) second == MeanOrNone(halves[2])
    IN IF first = None \/ second = None THEN None
       ELSE IF Below(first, second) THEN first ELSE second

=============================================================================
