------------------------- MODULE EventStreamProofs -------------------------
(***************************************************************************)
(* What EventStream promises for any streams, processes and publishers,    *)
(* any page and event limits and any sizes of changes.                     *)
(*                                                                         *)
(* The search of an event's changes is a recursive function: what it       *)
(* computes is shown by least counterexample.  The rest follows from the   *)
(* inductive invariant IInv: its part Settled says what a stream that      *)
(* reads no further page knows of the head, and Woken who will tell it of  *)
(* the rows written since.                                                 *)
(***************************************************************************)
EXTENDS EventStream, WellFoundedInduction, SequenceTheorems, TLAPS

-----------------------------------------------------------------------------
(* The binary search of boundedFeedResponse. *)

\* A set of numbers has a least element.
LEMMA LeastNatural ==
    ASSUME NEW T, T \subseteq Nat, T # {}
    PROVE  \E m \in T : \A n \in T : m <= n
<1>1. \E m \in T : \A n \in T : <<n, m>> \notin OpToRel(<, Nat)
    BY NatLessThanWellFounded, WFMin
<1>2. PICK m \in T : \A n \in T : <<n, m>> \notin OpToRel(<, Nat)
    BY <1>1
<1>3. \A n \in T : ~(n < m)
    BY <1>2 DEF OpToRel
<1>4. m \in Nat /\ \A n \in T : n \in Nat
    OBVIOUS
<1>5. \A n \in T : m <= n
    BY <1>3, <1>4
<1> QED
    BY <1>5

\* What the definition of SizeOf asks of its function, on the first m changes.
Sum(size, f, m) ==
    f = [i \in 0..m |-> IF i = 0 THEN 0 ELSE f[i - 1] + size[i]]

\* The sizes of the changes of a page can be added up, as far as one likes.
LEMMA SumExists ==
    ASSUME NEW size, NEW n \in Nat
    PROVE  \A m \in 0..n : \E f : Sum(size, f, m)
<1> DEFINE T == {m \in Nat : m <= n /\ ~\E f : Sum(size, f, m)}
<1>1. SUFFICES ASSUME T # {} PROVE FALSE
    OBVIOUS
<1>2. PICK m \in T : \A k \in T : m <= k
    <2>1. T \subseteq Nat
        OBVIOUS
    <2> HIDE DEF T
    <2> QED
        BY <1>1, <2>1, LeastNatural
<1>3. m \in Nat /\ m <= n /\ ~\E f : Sum(size, f, m)
    OBVIOUS
<1>4. CASE m = 0
    <2>1. Sum(size, [i \in 0..0 |-> 0], 0)
        BY DEF Sum
    <2> QED
        BY <1>3, <1>4, <2>1
<1>5. CASE m # 0
    <2>1. m - 1 \in Nat /\ m - 1 <= n /\ ~(m <= m - 1)
        BY <1>3, <1>5
    <2>2. m - 1 \notin T
        BY <1>2, <2>1
    <2>3. PICK f : Sum(size, f, m - 1)
        BY <2>1, <2>2
    <2> DEFINE g == [i \in 0..m |-> IF i = m THEN f[m - 1] + size[m] ELSE f[i]]
    <2>4. \A i \in 0..m : g[i] = IF i = 0 THEN 0 ELSE g[i - 1] + size[i]
        <3> SUFFICES ASSUME NEW i \in 0..m
                     PROVE  g[i] = IF i = 0 THEN 0 ELSE g[i - 1] + size[i]
            OBVIOUS
        <3>1. i = m \/ i \in 0..(m - 1)
            BY <1>3
        <3>2. i # 0 => i - 1 \in 0..m /\ i - 1 # m
            BY <1>3
        <3>3. CASE i = m
            BY <3>2, <3>3, <1>5
        <3>4. CASE i # m
            <4>1. f[i] = IF i = 0 THEN 0 ELSE f[i - 1] + size[i]
                BY <2>3, <3>1, <3>4 DEF Sum
            <4>2. g[i] = f[i] /\ (i # 0 => g[i - 1] = f[i - 1])
                BY <3>2, <3>4
            <4> QED
                BY <4>1, <4>2
        <3> QED
            BY <3>3, <3>4
    <2>5. g = [i \in 0..m |-> IF i = 0 THEN 0 ELSE g[i - 1] + size[i]]
        <3>1. g = [i \in 0..m |-> g[i]]
            OBVIOUS
        <3> HIDE DEF g
        <3> QED
            BY <2>4, <3>1
    <2>6. Sum(size, g, m)
        <3> HIDE DEF g
        <3> QED
            BY <2>5 DEF Sum
    <2> QED
        BY <1>3, <2>6
<1> QED
    BY <1>4, <1>5

Pages == Seq(Sizes)

\* SizeOf adds up the sizes from the first change on.
LEMMA SizeOfAdds ==
    ASSUME NEW size \in Pages
    PROVE  /\ SizeOf(size, 0) = 0
           /\ \A k \in 1..Len(size) : SizeOf(size, k) = SizeOf(size, k - 1) + size[k]
<1> DEFINE n == Len(size)
           sum == CHOOSE f : Sum(size, f, n)
<1>1. n \in Nat
    BY DEF Pages
<1>2. \A k : SizeOf(size, k) = sum[k]
    BY DEF SizeOf, Sum
<1>3. Sum(size, sum, n)
    <2>1. \E f : Sum(size, f, n)
        BY <1>1, SumExists
    <2> QED
        BY <2>1
<1> HIDE DEF sum
<1>4. \A k \in 0..n : sum[k] = IF k = 0 THEN 0 ELSE sum[k - 1] + size[k]
    BY <1>3 DEF Sum
<1>5. 0 \in 0..n /\ \A k \in 1..n : k \in 0..n /\ k # 0
    BY <1>1
<1> HIDE DEF n
<1>6. \A k \in 1..n : sum[k] = sum[k - 1] + size[k]
    BY <1>4, <1>5
<1>7. sum[0] = 0
    BY <1>4, <1>5
<1> QED
    BY <1>2, <1>6, <1>7 DEF n

\* The size of a longer prefix is a greater number.
LEMMA SizeOfGrows ==
    ASSUME NEW size \in Pages
    PROVE  /\ \A k \in 0..Len(size) : SizeOf(size, k) \in Nat
           /\ \A j, k \in 0..Len(size) : j < k => SizeOf(size, j) < SizeOf(size, k)
<1> DEFINE n == Len(size)
           Good(k) == SizeOf(size, k) \in Nat /\ \A j \in 0..n : j < k => SizeOf(size, j) < SizeOf(size, k)
           T == {k \in Nat : k <= n /\ ~Good(k)}
<1>1. n \in Nat /\ \A k \in 1..n : size[k] \in Nat /\ size[k] > 0
    <2>1. n \in Nat /\ \A k \in 1..n : size[k] \in Sizes
        BY DEF Pages
    <2>2. \A x \in Sizes : x \in Nat /\ x # 0
        BY SizesAssumption
    <2>3. \A x \in Nat : x # 0 => x > 0
        OBVIOUS
    <2> QED
        BY <2>1, <2>2, <2>3
<1>2. SUFFICES T = {}
    <2>1. \A k \in 0..n : k \in Nat /\ k <= n
        BY <1>1
    <2>2. \A k \in 0..n : Good(k)
        BY <1>2, <2>1
    <2> QED
        BY <2>2
<1>3. SUFFICES ASSUME T # {} PROVE FALSE
    OBVIOUS
<1>4. PICK k \in T : \A m \in T : k <= m
    <2>1. T \subseteq Nat
        OBVIOUS
    <2> HIDE DEF T
    <2> QED
        BY <1>3, <2>1, LeastNatural
<1>5. k \in Nat /\ k <= n /\ ~Good(k)
    OBVIOUS
<1>6. k # 0
    <2>1. Good(0)
        BY SizeOfAdds, <1>1
    <2> HIDE DEF Good
    <2> QED
        BY <2>1, <1>5
<1>7. Good(k - 1)
    <2>1. k - 1 \in Nat /\ k - 1 <= n /\ ~(k <= k - 1)
        BY <1>1, <1>5, <1>6
    <2>2. k - 1 \notin T
        <3> HIDE DEF T
        <3> QED
            BY <1>4, <2>1
    <2> HIDE DEF Good
    <2> QED
        BY <2>1, <2>2
<1>8. SizeOf(size, k) = SizeOf(size, k - 1) + size[k] /\ size[k] \in Nat /\ size[k] > 0
    <2>1. k \in 1..n
        BY <1>1, <1>5, <1>6
    <2> QED
        BY <2>1, <1>1, SizeOfAdds
<1>9. Good(k)
    <2>1. SizeOf(size, k) \in Nat /\ SizeOf(size, k - 1) < SizeOf(size, k)
        BY <1>7, <1>8
    <2>2. ASSUME NEW j \in 0..n, j < k PROVE SizeOf(size, j) < SizeOf(size, k)
        <3>1. j = k - 1 \/ j < k - 1
            BY <1>1, <1>5, <2>2
        <3>2. CASE j = k - 1
            BY <2>1, <3>2
        <3>3. CASE j < k - 1
            <4>1. SizeOf(size, j) < SizeOf(size, k - 1)
                BY <1>7, <3>3
            <4>2. SizeOf(size, j) \in Int /\ SizeOf(size, k - 1) \in Int
                <5>1. ~(k <= j) /\ j \in Nat /\ j <= n
                    BY <2>2, <1>5, <1>1
                <5>2. j \notin T
                    <6> HIDE DEF T
                    <6> QED
                        BY <1>4, <5>1
                <5> QED
                    BY <5>1, <5>2, <1>7
            <4> QED
                BY <4>1, <4>2, <2>1
        <3> QED
            BY <3>1, <3>2, <3>3
    <2> QED
        BY <2>1, <2>2
<1> QED
    BY <1>5, <1>9

Fits(size, k) == SizeOf(size, k) <= MaxEvent

\* One iteration of the loop.
Iteration(size, at) ==
    IF Fits(size, Middle(at)) THEN [at EXCEPT !.best = Middle(at), !.low = Middle(at) + 1]
    ELSE [at EXCEPT !.high = Middle(at) - 1]

\* The loop leaves r in best: the longest prefix that fits of those between
\* low and high, or what was in best when none of them fits.
Answers(size, at, r) ==
    \/ r = at.best /\ \A k \in at.low..at.high : ~Fits(size, k)
    \/ r \in at.low..at.high /\ Fits(size, r) /\ \A k \in (r + 1)..at.high : ~Fits(size, k)

LEMMA IterationShrinks ==
    ASSUME NEW size, NEW n \in Nat, NEW at \in SearchStates(n), at.low <= at.high
    PROVE  /\ Middle(at) \in at.low..at.high
           /\ Iteration(size, at) \in SearchStates(n)
           /\ Iteration(size, at).high - Iteration(size, at).low < at.high - at.low
<1>1. at.low \in 1..(n + 1) /\ at.high \in 0..n /\ at.best \in 0..n
    BY DEF SearchStates
<1>2. Middle(at) \in at.low..at.high
    BY <1>1 DEF Middle
<1>3. /\ Middle(at) \in Int /\ Middle(at) \in 0..n
      /\ Middle(at) + 1 \in 1..(n + 1) /\ Middle(at) - 1 \in 0..n
    BY <1>1, <1>2
<1>4. CASE Fits(size, Middle(at))
    <2>1. Iteration(size, at) = [at EXCEPT !.best = Middle(at), !.low = Middle(at) + 1]
        BY <1>4 DEF Iteration
    <2>2. Iteration(size, at) \in SearchStates(n)
        BY <2>1, <1>3 DEF SearchStates
    <2>3. Iteration(size, at).high = at.high /\ Iteration(size, at).low = Middle(at) + 1
        BY <2>1 DEF SearchStates
    <2>4. at.high - (Middle(at) + 1) < at.high - at.low
        BY <1>1, <1>2
    <2> QED
        BY <1>2, <2>2, <2>3, <2>4
<1>5. CASE ~Fits(size, Middle(at))
    <2>1. Iteration(size, at) = [at EXCEPT !.high = Middle(at) - 1]
        BY <1>5 DEF Iteration
    <2>2. Iteration(size, at) \in SearchStates(n)
        BY <2>1, <1>3 DEF SearchStates
    <2>3. Iteration(size, at).high = Middle(at) - 1 /\ Iteration(size, at).low = at.low
        BY <2>1 DEF SearchStates
    <2>4. (Middle(at) - 1) - at.low < at.high - at.low
        BY <1>1, <1>2
    <2> QED
        BY <1>2, <2>2, <2>3, <2>4
<1> QED
    BY <1>4, <1>5

\* What holds where the loop ends, and before an iteration whenever it holds
\* after it, holds of all values of its variables.
LEMMA SearchInduction ==
    ASSUME NEW size, NEW n \in Nat, NEW Done,
           \A at \in SearchStates(n) :
                (at.low <= at.high => Iteration(size, at) \in Done) => at \in Done
    PROVE  \A at \in SearchStates(n) : at \in Done
<1> DEFINE Width(at) == at.high + (n + 1) - at.low
           Bad == {at \in SearchStates(n) : at \notin Done}
           T == {Width(at) : at \in Bad}
<1>1. \A at \in SearchStates(n) : Width(at) \in Nat
    <2> SUFFICES ASSUME NEW at \in SearchStates(n) PROVE Width(at) \in Nat
        OBVIOUS
    <2>1. at.low \in 1..(n + 1) /\ at.high \in 0..n
        BY DEF SearchStates
    <2> QED
        BY <2>1
<1>2. SUFFICES ASSUME Bad # {} PROVE FALSE
    OBVIOUS
<1>3. PICK m \in T : \A k \in T : m <= k
    <2>1. T \subseteq Nat
        BY <1>1
    <2>2. T # {}
        BY <1>2
    <2> HIDE DEF T
    <2> QED
        BY <2>1, <2>2, LeastNatural
<1>4. PICK at \in Bad : m = Width(at)
    OBVIOUS
<1>5. at \in SearchStates(n) /\ at \notin Done
    OBVIOUS
<1>6. at.low <= at.high /\ Iteration(size, at) \notin Done
    BY <1>5
<1>7. Iteration(size, at) \in SearchStates(n)
    BY <1>5, <1>6, IterationShrinks
<1>8. Width(Iteration(size, at)) \in T
    BY <1>6, <1>7
<1>9. Width(at) <= Width(Iteration(size, at))
    <2> HIDE DEF T, Width, Bad
    <2> QED
        BY <1>3, <1>4, <1>8
<1>10. /\ at.low \in Int /\ at.high \in Int
       /\ Iteration(size, at).low \in Int /\ Iteration(size, at).high \in Int
    BY <1>5, <1>7 DEF SearchStates
<1>11. Iteration(size, at).high - Iteration(size, at).low < at.high - at.low
    BY <1>5, <1>6, IterationShrinks
<1> QED
    BY <1>9, <1>10, <1>11

\* There is one answer only.
LEMMA AnswerIsUnique ==
    ASSUME NEW size, NEW n \in Nat, NEW at \in SearchStates(n),
           NEW q, NEW r, Answers(size, at, q), Answers(size, at, r)
    PROVE  q = r
<1>1. at.low \in Int /\ at.high \in Int /\ at.best \in Int
    BY DEF SearchStates
<1>2. CASE \A k \in at.low..at.high : ~Fits(size, k)
    BY <1>2 DEF Answers
<1>3. CASE \E k \in at.low..at.high : Fits(size, k)
    <2>1. /\ q \in at.low..at.high /\ Fits(size, q) /\ \A k \in (q + 1)..at.high : ~Fits(size, k)
          /\ r \in at.low..at.high /\ Fits(size, r) /\ \A k \in (r + 1)..at.high : ~Fits(size, k)
        BY <1>3 DEF Answers
    <2>2. q < r => r \in (q + 1)..at.high
        BY <1>1, <2>1
    <2>3. r < q => q \in (r + 1)..at.high
        BY <1>1, <2>1
    <2>4. ~(q < r) /\ ~(r < q)
        BY <2>1, <2>2, <2>3
    <2> QED
        BY <1>1, <2>1, <2>4
<1> QED
    BY <1>2, <1>3

\* The answer after an iteration is the answer before it.  When the prefix in
\* the middle does not fit, no longer one does.
LEMMA IterationKeepsAnswer ==
    ASSUME NEW size \in Pages, NEW at \in SearchStates(Len(size)), NEW r,
           at.low <= at.high, Answers(size, Iteration(size, at), r)
    PROVE  Answers(size, at, r)
<1> DEFINE n == Len(size)
           m == Middle(at)
           to == Iteration(size, at)
<1>1. n \in Nat
    BY DEF Pages
<1>2. at.low \in 1..(n + 1) /\ at.high \in 0..n /\ at.best \in 0..n
    BY DEF SearchStates
<1>3. m \in at.low..at.high /\ m \in Int
    BY <1>1, <1>2, IterationShrinks
<1>4. CASE Fits(size, m)
    <2>1. to = [at EXCEPT !.best = m, !.low = m + 1]
        BY <1>4 DEF Iteration
    <2>2. to.best = m /\ to.low = m + 1 /\ to.high = at.high
        BY <2>1 DEF SearchStates
    <2> HIDE DEF m, to
    <2>3. CASE r = m /\ \A k \in (m + 1)..at.high : ~Fits(size, k)
        BY <1>3, <1>4, <2>3 DEF Answers
    <2>4. CASE r \in (m + 1)..at.high /\ Fits(size, r) /\ \A k \in (r + 1)..at.high : ~Fits(size, k)
        <3>1. r \in at.low..at.high
            BY <1>2, <1>3, <2>4
        <3> QED
            BY <2>4, <3>1 DEF Answers
    <2>5. Answers(size, to, r)
        BY DEF to
    <2> QED
        BY <2>2, <2>3, <2>4, <2>5 DEF Answers
<1>5. CASE ~Fits(size, m)
    <2>1. to = [at EXCEPT !.high = m - 1]
        BY <1>5 DEF Iteration
    <2>2. to.best = at.best /\ to.low = at.low /\ to.high = m - 1
        BY <2>1 DEF SearchStates
    <2>3. \A k \in m..at.high : ~Fits(size, k)
        <3> SUFFICES ASSUME NEW k \in m..at.high, Fits(size, k) PROVE FALSE
            OBVIOUS
        <3>1. m \in 0..n /\ k \in 0..n /\ (m = k \/ m < k)
            BY <1>1, <1>2, <1>3
        <3>2. m = k \/ SizeOf(size, m) < SizeOf(size, k)
            BY <3>1, SizeOfGrows
        <3>3. SizeOf(size, m) \in Nat /\ SizeOf(size, k) \in Nat /\ MaxEvent \in Nat
            BY <3>1, SizeOfGrows, SizesAssumption
        <3> HIDE DEF m
        <3> QED
            BY <1>5, <3>2, <3>3 DEF Fits
    <2> HIDE DEF m, to
    <2>4. CASE r = at.best /\ \A k \in at.low..(m - 1) : ~Fits(size, k)
        <3>1. \A k \in at.low..at.high : k \in at.low..(m - 1) \/ k \in m..at.high
            BY <1>2, <1>3
        <3> QED
            BY <2>3, <2>4, <3>1 DEF Answers
    <2>5. CASE r \in at.low..(m - 1) /\ Fits(size, r) /\ \A k \in (r + 1)..(m - 1) : ~Fits(size, k)
        <3>1. r \in at.low..at.high
            BY <1>2, <1>3, <2>5
        <3>2. \A k \in (r + 1)..at.high : k \in (r + 1)..(m - 1) \/ k \in m..at.high
            BY <1>2, <1>3, <2>5
        <3> QED
            BY <2>3, <2>5, <3>1, <3>2 DEF Answers
    <2>6. Answers(size, to, r)
        BY DEF to
    <2> QED
        BY <2>2, <2>4, <2>5, <2>6 DEF Answers
<1> QED
    BY <1>4, <1>5

\* There is an answer.
LEMMA AnswerExists ==
    ASSUME NEW size \in Pages
    PROVE  \A at \in SearchStates(Len(size)) : \E r : Answers(size, at, r)
<1> DEFINE n == Len(size)
           Done == {at \in SearchStates(n) : \E r : Answers(size, at, r)}
<1>1. n \in Nat
    BY DEF Pages
<1>2. ASSUME NEW at \in SearchStates(n), at.low <= at.high => Iteration(size, at) \in Done
      PROVE  at \in Done
    <2>1. CASE at.low <= at.high
        <3>1. PICK r : Answers(size, Iteration(size, at), r)
            BY <1>2, <2>1
        <3>2. Answers(size, at, r)
            BY <2>1, <3>1, IterationKeepsAnswer
        <3> QED
            BY <3>2
    <2>2. CASE ~(at.low <= at.high)
        <3>1. \A k : k \notin at.low..at.high
            BY <1>1, <2>2 DEF SearchStates
        <3>2. Answers(size, at, at.best)
            BY <3>1 DEF Answers
        <3> QED
            BY <3>2
    <2> QED
        BY <2>1, <2>2
<1>3. \A at \in SearchStates(n) : at \in Done
    <2> HIDE DEF Done, n
    <2> QED
        BY <1>1, <1>2, SearchInduction
<1> QED
    BY <1>3

\* What the definition of Search asks of its function.
Searches(size, f) ==
    f = [at \in SearchStates(Len(size)) |->
            IF at.low > at.high THEN at.best ELSE f[Iteration(size, at)]]

\* There is such a function: the one that answers.
LEMMA SearchExists ==
    ASSUME NEW size \in Pages
    PROVE  \E f : Searches(size, f)
<1> DEFINE n == Len(size)
           f == [at \in SearchStates(n) |-> CHOOSE r : Answers(size, at, r)]
<1>1. n \in Nat
    BY DEF Pages
<1>2. \A at \in SearchStates(n) : Answers(size, at, f[at])
    BY AnswerExists
<1>3. ASSUME NEW at \in SearchStates(n)
      PROVE  f[at] = IF at.low > at.high THEN at.best ELSE f[Iteration(size, at)]
    <2>0. at.low \in Int /\ at.high \in Int
        BY <1>1 DEF SearchStates
    <2> HIDE DEF f
    <2>1. CASE at.low > at.high
        <3>1. \A k : k \notin at.low..at.high
            BY <2>0, <2>1
        <3>2. Answers(size, at, at.best)
            BY <3>1 DEF Answers
        <3>3. f[at] = at.best
            BY <1>1, <1>2, <3>2, AnswerIsUnique
        <3> QED
            BY <2>1, <3>3
    <2>2. CASE at.low <= at.high
        <3>1. Iteration(size, at) \in SearchStates(n)
            BY <1>1, <2>2, IterationShrinks
        <3>2. Answers(size, at, f[Iteration(size, at)])
            BY <1>2, <2>2, <3>1, IterationKeepsAnswer
        <3>3. f[at] = f[Iteration(size, at)]
            BY <1>1, <1>2, <3>2, AnswerIsUnique
        <3> QED
            BY <2>0, <2>2, <3>3
    <2> QED
        BY <2>0, <2>1, <2>2
<1>4. Searches(size, f)
    <2>1. f = [at \in SearchStates(n) |-> f[at]]
        OBVIOUS
    <2> HIDE DEF f
    <2>2. f = [at \in SearchStates(n) |->
                    IF at.low > at.high THEN at.best ELSE f[Iteration(size, at)]]
        BY <1>3, <2>1
    <2> QED
        BY <2>2 DEF Searches
<1> QED
    BY <1>4

\* And every such function answers.
LEMMA SearchAnswers ==
    ASSUME NEW size \in Pages, NEW f, Searches(size, f)
    PROVE  \A at \in SearchStates(Len(size)) : Answers(size, at, f[at])
<1> DEFINE n == Len(size)
           Done == {at \in SearchStates(n) : Answers(size, at, f[at])}
<1>1. n \in Nat
    BY DEF Pages
<1>2. ASSUME NEW at \in SearchStates(n), at.low <= at.high => Iteration(size, at) \in Done
      PROVE  at \in Done
    <2>0. at.low \in Int /\ at.high \in Int
        BY <1>1 DEF SearchStates
    <2>1. f[at] = IF at.low > at.high THEN at.best ELSE f[Iteration(size, at)]
        BY DEF Searches
    <2>2. CASE at.low <= at.high
        <3>1. Answers(size, Iteration(size, at), f[Iteration(size, at)])
            BY <1>2, <2>2
        <3>2. f[at] = f[Iteration(size, at)]
            BY <2>0, <2>1, <2>2
        <3>3. Answers(size, at, f[at])
            BY <2>2, <3>1, <3>2, IterationKeepsAnswer
        <3> QED
            BY <3>3
    <2>3. CASE at.low > at.high
        <3>1. \A k : k \notin at.low..at.high
            BY <2>0, <2>3
        <3>2. f[at] = at.best
            BY <2>1, <2>3
        <3>3. Answers(size, at, f[at])
            BY <3>1, <3>2 DEF Answers
        <3> QED
            BY <3>3
    <2> QED
        BY <2>0, <2>2, <2>3
<1>3. \A at \in SearchStates(n) : at \in Done
    <2> HIDE DEF Done, n
    <2> QED
        BY <1>1, <1>2, SearchInduction
<1> QED
    BY <1>3

\* boundedFeedResponse takes the longest prefix of the page that fits, and
\* nothing when its first change does not fit.
LEMMA LongestPrefix ==
    ASSUME NEW size \in Pages
    PROVE  /\ BoundedPrefix(size) \in 0..Len(size)
           /\ BoundedPrefix(size) # 0 => Fits(size, BoundedPrefix(size))
           /\ \A k \in (BoundedPrefix(size) + 1)..Len(size) : ~Fits(size, k)
<1> DEFINE n == Len(size)
           k0 == BoundedPrefix(size)
           start == [low |-> 1, high |-> n, best |-> 0]
<1>1. n \in Nat
    BY DEF Pages
<1>2. CASE SizeOf(size, n) <= MaxEvent
    <2>1. k0 = n
        BY <1>2 DEF BoundedPrefix
    <2>2. Fits(size, n)
        BY <1>2 DEF Fits
    <2>3. \A k : k \notin (n + 1)..n
        BY <1>1
    <2> HIDE DEF k0, n
    <2>4. k0 \in 0..n /\ (k0 # 0 => Fits(size, k0)) /\ \A k \in (k0 + 1)..n : ~Fits(size, k)
        BY <1>1, <2>1, <2>2, <2>3
    <2> QED
        BY <2>4 DEF k0, n
<1>3. CASE ~(SizeOf(size, n) <= MaxEvent)
    <2>1. k0 = Search(size)[start]
        BY <1>3 DEF BoundedPrefix
    <2>2. Search(size) = CHOOSE f : Searches(size, f)
        BY DEF Search, Searches, Iteration, Fits
    <2>3. Searches(size, Search(size))
        BY <2>2, SearchExists
    <2>4. start \in SearchStates(n)
        BY <1>1 DEF SearchStates
    <2>5. Answers(size, start, k0)
        BY <2>1, <2>3, <2>4, SearchAnswers
    <2> HIDE DEF k0
    <2>6. \/ k0 = 0 /\ \A k \in 1..n : ~Fits(size, k)
          \/ k0 \in 1..n /\ Fits(size, k0) /\ \A k \in (k0 + 1)..n : ~Fits(size, k)
        BY <2>5 DEF Answers
    <2> HIDE DEF n
    <2>7. k0 \in 0..n /\ (k0 # 0 => Fits(size, k0)) /\ \A k \in (k0 + 1)..n : ~Fits(size, k)
        BY <1>1, <2>6
    <2> QED
        BY <2>7 DEF k0, n
<1> QED
    BY <1>2, <1>3

\* A page is a sequence of sizes.
LEMMA PageOfChanges ==
    ASSUME NEW n \in Nat, NEW size \in [1..n -> Sizes]
    PROVE  size \in Pages /\ Len(size) = n
BY DEF Pages

LEMMA PrefixesAreLongest == LongestPrefixes
<1>1. MaxPage \in Nat /\ MaxEvent \in Nat
    BY StreamBoundsAssumption, SizesAssumption
<1>2. SUFFICES ASSUME NEW n \in 1..MaxPage, NEW size \in [1..n -> Sizes]
               PROVE  BoundedPrefix(size) = Max({0} \cup {k \in 1..n : SizeOf(size, k) <= MaxEvent})
    BY DEF LongestPrefixes
<1> DEFINE r == BoundedPrefix(size)
           S == {0} \cup {k \in 1..n : SizeOf(size, k) <= MaxEvent}
<1>3. n \in Nat /\ size \in Pages /\ Len(size) = n
    BY <1>1, PageOfChanges
<1>4. /\ r \in 0..n
      /\ r # 0 => Fits(size, r)
      /\ \A k \in (r + 1)..n : ~Fits(size, k)
    BY <1>3, LongestPrefix
<1> HIDE DEF r
<1>5. r \in S
    BY <1>3, <1>4 DEF Fits
<1>6. \A x \in S : x \in Int /\ r >= x
    <2> SUFFICES ASSUME NEW x \in S PROVE x \in Int /\ r >= x
        OBVIOUS
    <2>1. CASE x = 0
        BY <1>3, <1>4, <2>1
    <2>2. CASE x \in 1..n /\ Fits(size, x)
        BY <1>3, <1>4, <2>2
    <2>3. x = 0 \/ (x \in 1..n /\ Fits(size, x))
        BY DEF Fits
    <2> QED
        BY <2>1, <2>2, <2>3
<1>7. \A x \in S : (\A y \in S : x >= y) => x = r
    BY <1>5, <1>6, <1>3, <1>4
<1> HIDE DEF S
<1>8. Max(S) = r
    BY <1>5, <1>6, <1>7 DEF Max
<1> QED
    BY <1>8 DEF r, S

\* sse.go boundedFeedResponse: on every page, whatever the sizes of its changes
\* and the limit of an event, the search finds the longest prefix that fits.
THEOREM PrefixesStayLongest == Spec => []PrefixIsLongest
<1>1. PrefixIsLongest
    BY PrefixesAreLongest DEF PrefixIsLongest
<1> QED
    BY <1>1, PTL

-----------------------------------------------------------------------------
(* The feed and the hints. *)

\* A lineage that no archive head names has no changes.
TipsAreArchived == \A b \in Lineages : b \notin archived => tip[b] = 0

\* A commit adds a row, and takes no tip back.  Only the first request of an
\* owner adds none: then nothing is archived.
LEMMA FeedStep ==
    ASSUME FeedTypeOK, TipsAreArchived, FeedNext
    PROVE  /\ FeedTypeOK' /\ TipsAreArchived'
           /\ \A b \in Lineages : tip[b] <= tip'[b]
           /\ \/ rows' = rows + 1
              \/ /\ rows' = rows /\ tip' = tip /\ lineage = NoLineage
                 /\ lineage' \in Lineages /\ archived' = {}
<1>1. PICK b \in Lineages :
            \/ StartLineage(b)
            \/ \E n \in 1..MaxBatch : CommitBatch(b, n)
            \/ \E n \in 0..MaxBatch : CommitImport(b, n)
    BY DEF FeedNext
<1>2. b # NoLineage /\ MaxBatch \in Nat
    BY NoLineageAssumption, BoundsAssumption
<1>3. /\ tip \in [Lineages -> Nat] /\ archived \subseteq Lineages /\ rows \in Nat
      /\ lineage = NoLineage => archived = {}
    BY DEF FeedTypeOK
<1>4. CASE StartLineage(b)
    <2>1. lineage = NoLineage /\ lineage' = b /\ tip' = tip /\ archived' = archived /\ rows' = rows
        BY <1>4 DEF StartLineage
    <2>2. \A c \in Lineages : tip[c] \in Nat /\ tip[c] <= tip[c]
        BY <1>3
    <2> QED
        BY <1>2, <1>3, <2>1, <2>2 DEF FeedTypeOK, TipsAreArchived
<1>5. ASSUME NEW t \in Nat, tip[b] <= t,
             tip' = [tip EXCEPT ![b] = t],
             archived' = archived \cup {b}, lineage' = b, rows' = rows + 1
      PROVE  /\ FeedTypeOK' /\ TipsAreArchived'
             /\ \A c \in Lineages : tip[c] <= tip'[c]
    <2>1. \A c \in Lineages : tip'[c] = IF c = b THEN t ELSE tip[c]
        BY <1>3, <1>5
    <2>2. \A c \in Lineages : tip[c] \in Nat
        BY <1>3
    <2>3. tip' \in [Lineages -> Nat]
        BY <1>3, <1>5
    <2>4. FeedTypeOK'
        BY <1>2, <1>3, <1>5, <2>3 DEF FeedTypeOK
    <2>5. TipsAreArchived'
        BY <1>5, <2>1 DEF TipsAreArchived
    <2> QED
        BY <1>5, <2>1, <2>2, <2>4, <2>5
<1>6. ASSUME NEW n \in 1..MaxBatch, CommitBatch(b, n) PROVE 
             /\ FeedTypeOK' /\ TipsAreArchived'
             /\ \A c \in Lineages : tip[c] <= tip'[c]
             /\ rows' = rows + 1
    <2>1. n \in Nat /\ tip[b] \in Nat
        BY <1>2, <1>3
    <2>2. tip[b] + n \in Nat /\ tip[b] <= tip[b] + n
        BY <2>1
    <2>3. /\ tip' = [tip EXCEPT ![b] = tip[b] + n] /\ lineage' = b
          /\ archived' = archived \cup {b} /\ rows' = rows + 1
        BY <1>6 DEF CommitBatch
    <2> QED
        BY <1>5, <2>1, <2>2, <2>3
<1>7. ASSUME NEW n \in 0..MaxBatch, CommitImport(b, n) PROVE
             /\ FeedTypeOK' /\ TipsAreArchived'
             /\ \A c \in Lineages : tip[c] <= tip'[c]
             /\ rows' = rows + 1
    <2>1. n \in Nat /\ tip[b] = 0
        BY <1>2, <1>7 DEF CommitImport, TipsAreArchived
    <2>2. tip[b] <= n
        BY <2>1
    <2>3. /\ tip' = [tip EXCEPT ![b] = n] /\ lineage' = b
          /\ archived' = archived \cup {b} /\ rows' = rows + 1
        BY <1>7 DEF CommitImport
    <2> QED
        BY <1>5, <2>1, <2>2, <2>3
<1> QED
    BY <1>1, <1>4, <1>6, <1>7

\* A commit leaves the hints of earlier rows alone, and its own row unpublished.
LEMMA CommitKeepsHints ==
    ASSUME FeedTypeOK, TipsAreArchived, HintTypeOK, Commit
    PROVE  HintTypeOK'
<1>1. rows \in Nat /\ rows' \in Nat /\ rows <= rows'
    BY FeedStep DEF Commit, FeedTypeOK
<1>2. /\ unpublished' = unpublished \cup ((rows + 1)..rows')
      /\ UNCHANGED <<publisher, subscribed, inbox, missed>>
    BY DEF Commit
<1>3. 1..rows \subseteq 1..rows' /\ 0..rows \subseteq 0..rows' /\ (rows + 1)..rows' \subseteq 1..rows'
    BY <1>1
<1>4. unpublished' \subseteq 1..rows'
    BY <1>2, <1>3 DEF HintTypeOK
<1>5. publisher' \in [Publishers -> [row : 0..rows', sent : BOOLEAN]]
    BY <1>2, <1>3 DEF HintTypeOK
<1>6. inbox' \in [Subscribers -> SUBSET (1..rows')] /\ missed' \in [Subscribers -> SUBSET (1..rows')]
    BY <1>2, <1>3 DEF HintTypeOK
<1> QED
    BY <1>2, <1>4, <1>5, <1>6 DEF HintTypeOK

\* Redis keeps, or loses, the hint of a row of the outbox.
LEMMA RedisKeepsHints ==
    ASSUME HintTypeOK, NEW row \in 1..rows, Redis(row)
    PROVE  /\ inbox' \in [Subscribers -> SUBSET (1..rows)]
           /\ missed' \in [Subscribers -> SUBSET (1..rows)]
           /\ \A q \in Subscribers :
                /\ row \in inbox'[q] \cup missed'[q]
                /\ inbox[q] \subseteq inbox'[q] /\ missed[q] \subseteq missed'[q]
BY DEF HintTypeOK, Redis

\* The hints of a process only go from its inbox to what it missed.
LEMMA PipelineStep ==
    ASSUME rows \in Nat, HintTypeOK, Pipeline, rows' = rows
    PROVE  /\ HintTypeOK'
           /\ \A q \in Subscribers : inbox[q] \cup missed[q] \subseteq inbox'[q] \cup missed'[q]
           /\ \A row \in unpublished \ unpublished' :
                \E p \in Publishers : publisher[p].sent /\ publisher[p].row = row
           /\ \A p \in Publishers :
                publisher'[p].sent /\ publisher'[p] # publisher[p] =>
                    \A q \in Subscribers : publisher'[p].row \in inbox'[q] \cup missed'[q]
<1>1. /\ unpublished \subseteq 1..rows
      /\ publisher \in [Publishers -> [row : 0..rows, sent : BOOLEAN]]
      /\ subscribed \in [Subscribers -> BOOLEAN]
      /\ inbox \in [Subscribers -> SUBSET (1..rows)]
      /\ missed \in [Subscribers -> SUBSET (1..rows)]
    BY DEF HintTypeOK
<1>2. Idle \in [row : 0..rows, sent : BOOLEAN] /\ ~Idle.sent
    BY DEF Idle
<1> DEFINE P == [row : 0..rows, sent : BOOLEAN]
           H == SUBSET (1..rows)
\* A publisher goes on as to, and the hints as they are.
<1>3. ASSUME NEW p \in Publishers, NEW to \in P, ~to.sent,
             publisher' = [publisher EXCEPT ![p] = to]
      PROVE  /\ publisher' \in [Publishers -> P]
             /\ \A x \in Publishers : publisher'[x].sent => publisher'[x] = publisher[x]
    BY <1>1, <1>3
<1>4. ASSUME NEW p \in Publishers, LockRow(p) PROVE
        /\ publisher' \in [Publishers -> P]
        /\ \A x \in Publishers : publisher'[x].sent => publisher'[x] = publisher[x]
        /\ UNCHANGED <<unpublished, subscribed, inbox, missed>>
    <2>1. PICK row \in unpublished : publisher' = [publisher EXCEPT ![p] = [row |-> row, sent |-> FALSE]]
        BY <1>4 DEF LockRow
    <2>2. [row |-> row, sent |-> FALSE] \in P /\ ~[row |-> row, sent |-> FALSE].sent
        BY <1>1
    <2>3. UNCHANGED <<unpublished, subscribed, inbox, missed>>
        BY <1>4 DEF LockRow
    <2> HIDE DEF P
    <2> QED
        BY <1>3, <2>1, <2>2, <2>3
<1>5. ASSUME NEW p \in Publishers, PublishHint(p) PROVE
        /\ publisher' \in [Publishers -> P]
        /\ inbox' \in [Subscribers -> H] /\ missed' \in [Subscribers -> H]
        /\ \A q \in Subscribers : inbox[q] \subseteq inbox'[q] /\ missed[q] \subseteq missed'[q]
        /\ \A x \in Publishers :
                publisher'[x].sent /\ publisher'[x] # publisher[x] =>
                    \A q \in Subscribers : publisher'[x].row \in inbox'[q] \cup missed'[q]
        /\ UNCHANGED <<unpublished, subscribed>>
    <2>1. publisher[p] \in P /\ publisher[p].row # 0
        BY <1>1, <1>5 DEF PublishHint, ToSend
    <2>2. publisher[p].row \in 1..rows
        BY <2>1
    <2>3. /\ inbox' \in [Subscribers -> H] /\ missed' \in [Subscribers -> H]
          /\ \A q \in Subscribers :
                /\ publisher[p].row \in inbox'[q] \cup missed'[q]
                /\ inbox[q] \subseteq inbox'[q] /\ missed[q] \subseteq missed'[q]
        BY <1>5, <2>2, RedisKeepsHints DEF PublishHint
    <2>4. publisher' = [publisher EXCEPT ![p].sent = TRUE] /\ UNCHANGED <<unpublished, subscribed>>
        BY <1>5 DEF PublishHint
    <2>5. publisher' \in [Publishers -> P]
        BY <1>1, <2>4
    <2>6. \A x \in Publishers : publisher'[x] # publisher[x] => x = p
        BY <1>1, <2>4
    <2>7. publisher'[p].row = publisher[p].row
        BY <1>1, <2>4
    <2> QED
        BY <2>3, <2>4, <2>5, <2>6, <2>7
<1>6. ASSUME NEW p \in Publishers, PublishFails(p) PROVE
        /\ publisher' \in [Publishers -> P]
        /\ \A x \in Publishers : publisher'[x].sent => publisher'[x] = publisher[x]
        /\ inbox' \in [Subscribers -> H] /\ missed' \in [Subscribers -> H]
        /\ \A q \in Subscribers : inbox[q] \subseteq inbox'[q] /\ missed[q] \subseteq missed'[q]
        /\ UNCHANGED <<unpublished, subscribed>>
    <2>1. publisher[p] \in P /\ publisher[p].row # 0
        BY <1>1, <1>6 DEF PublishFails, ToSend
    <2>2. publisher[p].row \in 1..rows
        BY <2>1
    <2>3. /\ inbox' \in [Subscribers -> H] /\ missed' \in [Subscribers -> H]
          /\ \A q \in Subscribers : inbox[q] \subseteq inbox'[q] /\ missed[q] \subseteq missed'[q]
        <3>1. CASE Redis(publisher[p].row)
            BY <2>2, <3>1, RedisKeepsHints
        <3>2. CASE UNCHANGED <<inbox, missed>>
            BY <1>1, <3>2
        <3> QED
            BY <1>6, <3>1, <3>2 DEF PublishFails
    <2>4. publisher' = [publisher EXCEPT ![p] = Idle] /\ UNCHANGED <<unpublished, subscribed>>
        BY <1>6 DEF PublishFails
    <2> HIDE DEF P
    <2> QED
        BY <1>2, <1>3, <2>3, <2>4 DEF P
<1>7. ASSUME NEW p \in Publishers, MarkPublished(p) \/ PublisherRollback(p) PROVE
        /\ publisher' \in [Publishers -> P]
        /\ \A x \in Publishers : publisher'[x].sent => publisher'[x] = publisher[x]
        /\ unpublished' \subseteq unpublished
        /\ \A row \in unpublished \ unpublished' :
                \E x \in Publishers : publisher[x].sent /\ publisher[x].row = row
        /\ UNCHANGED <<subscribed, inbox, missed>>
    <2>1. publisher' = [publisher EXCEPT ![p] = Idle] /\ UNCHANGED <<subscribed, inbox, missed>>
        BY <1>7 DEF MarkPublished, PublisherRollback
    <2>2. /\ publisher' \in [Publishers -> P]
          /\ \A x \in Publishers : publisher'[x].sent => publisher'[x] = publisher[x]
        BY <1>2, <1>3, <2>1
    <2>3. \/ publisher[p].sent /\ unpublished' = unpublished \ {publisher[p].row}
          \/ unpublished' = unpublished
        BY <1>7 DEF MarkPublished, PublisherRollback
    <2> QED
        BY <2>1, <2>2, <2>3
<1>8. ASSUME NEW q \in Subscribers, Subscribe(q) \/ LoseSubscription(q) PROVE
        /\ subscribed' \in [Subscribers -> BOOLEAN]
        /\ inbox' \in [Subscribers -> H] /\ missed' \in [Subscribers -> H]
        /\ \A x \in Subscribers : inbox[x] \cup missed[x] \subseteq inbox'[x] \cup missed'[x]
        /\ UNCHANGED <<unpublished, publisher>>
    BY <1>1, <1>8 DEF Subscribe, LoseSubscription
<1> HIDE DEF P, H
<1>9. CASE \E p \in Publishers : LockRow(p)
    BY <1>1, <1>4, <1>9 DEF HintTypeOK, P
<1>10. CASE \E p \in Publishers : PublishHint(p)
    BY <1>1, <1>5, <1>10 DEF HintTypeOK, P, H
<1>11. CASE \E p \in Publishers : PublishFails(p)
    BY <1>1, <1>6, <1>11 DEF HintTypeOK, P, H
<1>12. CASE \E p \in Publishers : MarkPublished(p) \/ PublisherRollback(p)
    BY <1>1, <1>7, <1>12 DEF HintTypeOK, P
<1>13. CASE \E q \in Subscribers : Subscribe(q) \/ LoseSubscription(q)
    BY <1>1, <1>8, <1>13 DEF HintTypeOK, H
<1> QED
    BY <1>9, <1>10, <1>11, <1>12, <1>13 DEF Pipeline

-----------------------------------------------------------------------------
(* The inductive invariant of the streams. *)

StreamRecord ==
    [phase : {"closed", "leased", "read", "write", "wait"},
     baseline : Lineages \cup {NoLineage}, from : Nat, cursor : Nat,
     initial : BOOLEAN, wake : BOOLEAN, asOf : Nat, sent : Seq(Lineages \X Nat),
     page : [event : Events, upto : Nat, more : BOOLEAN, head : Nat]]

Shape(st) ==
    /\ st \in StreamRecord
    /\ st.phase # "closed" <=> st.baseline \in Lineages
    /\ st.phase = "write" <=> st.page.event # "none"

\* StreamIsGapless, of one stream.
Gapless(st) ==
    /\ st.from <= st.cursor
    /\ st.sent = [i \in 1..(st.cursor - st.from) |-> <<st.baseline, st.from + i>>]
    /\ st.sent # <<>> => st.baseline \in Lineages /\ st.cursor <= tip[st.baseline]

\* The page in hand continues where the stream stands, and the last page of a
\* catch-up ends at the head of its snapshot.
PageAgrees(st) ==
    /\ st.page.event = "changes" =>
        /\ st.cursor < st.page.upto /\ st.page.upto <= tip[st.baseline]
        /\ ~st.page.more => st.page.upto = st.page.head
    /\ st.page.event = "ready" => st.initial /\ st.cursor = st.page.head

\* The stream reads no further page, and where it then stands.
AtEnd(st) ==
    \/ st.phase = "wait"
    \/ st.page.event = "ready"
    \/ st.page.event = "changes" /\ ~st.page.more

Reached(st) == IF st.page.event = "changes" THEN st.page.upto ELSE st.cursor

\* Unless a row was written since its last read, a stream that reads no
\* further page is not behind.
Settled(st) ==
    /\ st.asOf <= rows
    /\ AtEnd(st) /\ st.asOf = rows =>
        IF Mismatch(st) THEN lineage \notin archived ELSE Reached(st) = HeadCursor

\* A row written since the last read has woken the stream or will, or it is
\* lost to its process q; and before a publisher marks a row, it has reached
\* the process.
Woken(q, st) ==
    st.phase \in {"write", "wait"} =>
        /\ st.asOf < rows =>
            \/ st.wake
            \/ \E row \in (st.asOf + 1)..rows : row \in unpublished \cup inbox[q] \cup missed[q]
        /\ \A p \in Publishers :
            publisher[p].sent /\ st.asOf < publisher[p].row =>
                st.wake \/ publisher[p].row \in inbox[q] \cup missed[q]

StreamInv(q, st) ==
    /\ Shape(st)
    /\ Gapless(st)
    /\ PageAgrees(st)
    /\ Settled(st)
    /\ Woken(q, st)

FeedInv == FeedTypeOK /\ TipsAreArchived /\ HintTypeOK

IInv ==
    /\ FeedInv
    /\ stream \in [Streams -> StreamRecord]
    /\ \A s \in Streams : StreamInv(Home[s], stream[s])

\* A closed connection.
LEMMA ClosedIsFine ==
    ASSUME FeedInv, NEW q
    PROVE  StreamInv(q, Closed)
<1>1. NoLineage \notin Lineages /\ rows \in Nat
    BY NoLineageAssumption DEF FeedInv, FeedTypeOK
<1>2. NoPage \in [event : Events, upto : Nat, more : BOOLEAN, head : Nat]
    BY DEF NoPage, Events
<1>3. <<>> \in Seq(Lineages \X Nat)
    OBVIOUS
<1>4. /\ Closed.phase = "closed" /\ Closed.baseline = NoLineage /\ Closed.from = 0
      /\ Closed.cursor = 0 /\ Closed.initial = TRUE /\ Closed.page = NoPage
      /\ Closed.wake = FALSE /\ Closed.asOf = 0 /\ Closed.sent = <<>>
    BY DEF Closed
<1>5. NoPage.event = "none"
    BY DEF NoPage
<1>6. Shape(Closed)
    <2>1. Closed \in StreamRecord
        BY <1>2, <1>3 DEF Closed, StreamRecord
    <2> QED
        BY <1>1, <1>4, <1>5, <2>1 DEF Shape
<1>7. Gapless(Closed)
    <2>1. [i \in 1..(0 - 0) |-> <<NoLineage, 0 + i>>] = <<>>
        OBVIOUS
    <2> QED
        BY <1>4, <2>1 DEF Gapless
<1>8. PageAgrees(Closed)
    BY <1>4, <1>5 DEF PageAgrees
<1>9. Settled(Closed)
    BY <1>1, <1>4, <1>5 DEF Settled, AtEnd
<1>10. Woken(q, Closed)
    BY <1>4 DEF Woken
<1> QED
    BY <1>6, <1>7, <1>8, <1>9, <1>10 DEF StreamInv

\* A step of a handler changes its stream alone.
LEMMA HandlerStep ==
    ASSUME IInv, NEW s \in Streams, NEW st, Go(s, st), StreamInv(Home[s], st)
    PROVE  IInv'
<1>1. /\ stream' = [stream EXCEPT ![s] = st]
      /\ UNCHANGED <<lineage, tip, archived, rows, unpublished, publisher, subscribed, inbox, missed>>
    BY DEF Go, feedVars, hintVars
<1>2. stream \in [Streams -> StreamRecord] /\ \A x \in Streams : StreamInv(Home[x], stream[x])
    BY DEF IInv
<1>3. st \in StreamRecord
    BY DEF StreamInv, Shape
<1>4. stream' \in [Streams -> StreamRecord]
    BY <1>1, <1>2, <1>3
<1>5. FeedInv'
    BY <1>1 DEF IInv, FeedInv, FeedTypeOK, TipsAreArchived, HintTypeOK
<1>6. ASSUME NEW x \in Streams PROVE StreamInv(Home[x], stream[x])'
    <2>1. PICK to : to = stream'[x]
        OBVIOUS
    <2>2. StreamInv(Home[x], to)
        BY <1>1, <1>2, <2>1
    <2>3. Shape(to)'
        BY <2>2 DEF StreamInv, Shape, StreamRecord, Events
    <2>4. Gapless(to)' /\ PageAgrees(to)'
        BY <1>1, <2>2 DEF StreamInv, Gapless, PageAgrees
    <2>5. Settled(to)'
        BY <1>1, <2>2 DEF StreamInv, Settled, AtEnd, Reached, Mismatch, HeadCursor
    <2>6. Woken(Home[x], to)'
        BY <1>1, <2>2 DEF StreamInv, Woken
    <2> QED
        BY <2>1, <2>3, <2>4, <2>5, <2>6 DEF StreamInv
<1> QED
    BY <1>4, <1>5, <1>6 DEF IInv

\* What a snapshot taken now makes a stream write.
LEMMA EventsOfSnapshot ==
    ASSUME FeedTypeOK, NEW st \in StreamRecord, st.baseline \in Lineages,
           NEW e \in NextEvents(st)
    PROVE  /\ e \in [event : Events, upto : Nat, more : BOOLEAN, head : Nat]
           /\ e.event # "none"
           /\ e.event = "changes" =>
                /\ ~Mismatch(st) /\ HeadCursor = tip[st.baseline]
                /\ st.cursor < e.upto /\ e.upto <= HeadCursor
                /\ ~e.more => e.upto = HeadCursor
                /\ e.head = HeadCursor
           /\ e.event = "ready" =>
                ~Mismatch(st) /\ st.cursor = HeadCursor /\ e.head = HeadCursor
<1>1. st.baseline # NoLineage /\ st.cursor \in Nat
    BY NoLineageAssumption DEF StreamRecord
<1>2. HeadCursor \in Nat
    BY DEF HeadCursor, FeedTypeOK
<1>3. CASE e = Event("baseline_mismatch", st.cursor, FALSE, HeadCursor)
    BY <1>1, <1>2, <1>3 DEF Event, Events
<1>4. CASE e = Event("reset_required", 0, FALSE, HeadCursor)
    BY <1>1, <1>2, <1>4 DEF Event, Events
<1>5. CASE ~Mismatch(st) /\ st.cursor = HeadCursor /\ e = Event("ready", st.cursor, FALSE, HeadCursor)
    BY <1>1, <1>2, <1>5 DEF Event, Events
<1>6. CASE /\ ~Mismatch(st) /\ st.cursor < HeadCursor
           /\ e \in {ChangesPage(st, k) :
                k \in {BoundedPrefix(size) : size \in [1..Available(st) -> Sizes]} \ {0}}
    <2>1. PICK size \in [1..Available(st) -> Sizes] :
            e = ChangesPage(st, BoundedPrefix(size)) /\ BoundedPrefix(size) # 0
        BY <1>6
    <2>2. HeadCursor = tip[st.baseline]
        <3>1. lineage # NoLineage
            BY <1>1, <1>6 DEF HeadCursor
        <3> QED
            BY <1>6, <3>1 DEF HeadCursor, Mismatch
    <2>3. /\ Available(st) \in Nat /\ Available(st) # 0
          /\ st.cursor + Available(st) <= HeadCursor
          /\ HasMore(st) \in BOOLEAN
          /\ ~HasMore(st) => st.cursor + Available(st) = HeadCursor
        <3>1. PageLimit \in Nat /\ PageLimit # 0
            BY PageLimitAssumption
        <3> QED
            BY <1>1, <1>2, <1>6, <3>1 DEF Available, HasMore
    <2> DEFINE k == BoundedPrefix(size)
               m == Available(st)
    <2>4. k \in 0..m
        BY <2>3, PageOfChanges, LongestPrefix
    <2>5. e = [event |-> "changes", upto |-> st.cursor + k, more |-> k < m \/ HasMore(st),
               head |-> HeadCursor]
        BY <2>1 DEF ChangesPage, Event
    <2>6. k # 0
        BY <2>1
    <2> HIDE DEF k, m
    <2>7. st.cursor + k \in Nat /\ st.cursor < st.cursor + k /\ st.cursor + k <= HeadCursor
        BY <1>1, <1>2, <2>3, <2>4, <2>6 DEF m
    <2>8. ~(k < m \/ HasMore(st)) => st.cursor + k = HeadCursor
        BY <1>1, <1>2, <2>3, <2>4 DEF m
    <2>9. /\ e.event = "changes" /\ e.upto = st.cursor + k /\ e.head = HeadCursor
          /\ e.more <=> (k < m \/ HasMore(st))
        BY <2>5
    <2>10. e \in [event : Events, upto : Nat, more : BOOLEAN, head : Nat]
        BY <1>2, <2>5, <2>7 DEF Events
    <2> QED
        BY <1>6, <2>2, <2>7, <2>8, <2>9, <2>10
<1>7. CASE Mismatch(st)
    BY <1>3, <1>7 DEF NextEvents
<1>8. CASE ~Mismatch(st) /\ st.cursor > HeadCursor
    BY <1>4, <1>8 DEF NextEvents
<1>9. CASE ~Mismatch(st) /\ st.cursor = HeadCursor
    <2>1. ~(st.cursor > HeadCursor)
        BY <1>2, <1>9
    <2> QED
        BY <1>5, <1>9, <2>1 DEF NextEvents
<1>10. CASE ~Mismatch(st) /\ st.cursor < HeadCursor
    <2>1. ~(st.cursor > HeadCursor) /\ st.cursor # HeadCursor
        BY <1>1, <1>2, <1>10
    <2> QED
        BY <1>6, <1>10, <2>1 DEF NextEvents
<1> QED
    BY <1>1, <1>2, <1>7, <1>8, <1>9, <1>10

\* A stream that goes on to read has nothing left to write.
LEMMA ReadsNext ==
    ASSUME FeedTypeOK, NEW q, NEW st, StreamInv(q, st),
           st.baseline \in Lineages, st.page.event = "none",
           NEW to \in StreamRecord, to.phase = "read", to.baseline = st.baseline,
           to.from = st.from, to.cursor = st.cursor, to.sent = st.sent, to.page = st.page,
           to.asOf = st.asOf
    PROVE  StreamInv(q, to)
<1>1. Shape(to)
    BY DEF Shape
<1>2. Gapless(to) /\ PageAgrees(to)
    BY DEF StreamInv, Gapless, PageAgrees
<1>3. Settled(to)
    BY DEF StreamInv, Settled, AtEnd
<1>4. Woken(q, to)
    BY DEF Woken
<1> QED
    BY <1>1, <1>2, <1>3, <1>4 DEF StreamInv

\* A stream that has written its last page, or read that there is none, waits
\* where it stands.
LEMMA WaitsWhereItStands ==
    ASSUME NEW st \in StreamRecord, st.baseline \in Lineages,
           Gapless(st), st.asOf <= rows,
           st.asOf = rows =>
                IF Mismatch(st) THEN lineage \notin archived ELSE st.cursor = HeadCursor
    PROVE  /\ Shape(Wait(st)) /\ Gapless(Wait(st)) /\ PageAgrees(Wait(st)) /\ Settled(Wait(st))
           /\ Wait(st).phase = "wait" /\ Wait(st).asOf = st.asOf /\ (Wait(st).wake <=> st.wake)
<1> DEFINE to == Wait(st)
<1>1. /\ to.phase = "wait" /\ to.page = NoPage /\ to.baseline = st.baseline /\ to.from = st.from
      /\ to.cursor = st.cursor /\ to.sent = st.sent /\ to.asOf = st.asOf
      /\ to.wake <=> st.wake
    BY DEF Wait, StreamRecord
<1>2. NoPage.event = "none" /\ NoPage \in [event : Events, upto : Nat, more : BOOLEAN, head : Nat]
    BY DEF NoPage, Events
<1>3. to \in StreamRecord
    BY <1>2 DEF Wait, StreamRecord
<1> HIDE DEF to
<1>4. Shape(to)
    BY <1>1, <1>2, <1>3 DEF Shape
<1>5. Gapless(to) /\ PageAgrees(to)
    BY <1>1, <1>2 DEF Gapless, PageAgrees
<1>6. Settled(to)
    BY <1>1, <1>2 DEF Settled, Reached, Mismatch
<1> QED
    BY <1>1, <1>4, <1>5, <1>6 DEF to

\* No publisher holds a row that is not written yet.
LEMMA RowsAreWritten ==
    ASSUME FeedInv
    PROVE  \A p \in Publishers : ~(publisher[p].sent /\ rows < publisher[p].row)
<1>1. rows \in Nat /\ \A p \in Publishers : publisher[p].row \in 0..rows
    BY DEF FeedInv, FeedTypeOK, HintTypeOK
<1> QED
    BY <1>1

LEMMA OpenKeepsIInv ==
    ASSUME IInv, NEW s \in Streams, NEW b \in Lineages, NEW c \in 0..MaxCursor, Open(s, b, c)
    PROVE  IInv'
<1> DEFINE st == [Closed EXCEPT !.phase = "leased", !.baseline = b, !.from = c, !.cursor = c]
<1>1. c \in Nat /\ rows \in Nat /\ b \in Lineages
    BY StreamBoundsAssumption DEF IInv, FeedInv, FeedTypeOK
<1>2. Go(s, st)
    BY DEF Open
<1>3. NoPage \in [event : Events, upto : Nat, more : BOOLEAN, head : Nat] /\ NoPage.event = "none"
    BY DEF NoPage, Events
<1>4. Closed \in StreamRecord
    BY <1>1, ClosedIsFine DEF IInv, StreamInv, Shape
<1>5. /\ Closed.page = NoPage /\ Closed.asOf = 0 /\ Closed.sent = <<>>
    BY DEF Closed
<1>6. /\ st \in StreamRecord
      /\ st.phase = "leased" /\ st.baseline = b /\ st.from = c /\ st.cursor = c
      /\ st.page = NoPage /\ st.asOf = 0 /\ st.sent = <<>>
    BY <1>1, <1>4, <1>5 DEF StreamRecord
<1> HIDE DEF st
<1>7. Shape(st)
    BY <1>1, <1>3, <1>6 DEF Shape
<1>8. Gapless(st)
    <2>1. \A i : i \notin 1..(c - c)
        BY <1>1
    <2>2. [i \in 1..(c - c) |-> <<b, c + i>>] = <<>>
        BY <1>1
    <2>3. c <= c
        BY <1>1
    <2> QED
        BY <1>6, <2>2, <2>3 DEF Gapless
<1>9. PageAgrees(st) /\ Settled(st)
    BY <1>1, <1>3, <1>6 DEF PageAgrees, Settled, AtEnd
<1>10. Woken(Home[s], st)
    BY <1>6 DEF Woken
<1> QED
    BY <1>2, <1>7, <1>8, <1>9, <1>10, HandlerStep DEF StreamInv

\* What IInv says of the stream whose handler takes a step.
LEMMA ThisStream ==
    ASSUME IInv, NEW s \in Streams
    PROVE  /\ stream[s] \in StreamRecord /\ StreamInv(Home[s], stream[s])
           /\ stream[s].phase # "closed" => stream[s].baseline \in Lineages
           /\ stream[s].phase # "write" => stream[s].page.event = "none"
           /\ FeedTypeOK /\ FeedInv
BY DEF IInv, FeedInv, StreamInv, Shape

\* The handler goes on to read: it has registered, was woken, or reconciles.
LEMMA GoOnReading ==
    ASSUME IInv, NEW s \in Streams,
           Register(s) \/ WakeUp(s) \/ Reconcile(s)
    PROVE  IInv'
<1>1. PICK st : st = stream[s]
    OBVIOUS
<1>2. st \in StreamRecord /\ StreamInv(Home[s], st) /\ st.phase \in {"leased", "wait"}
    BY <1>1, ThisStream DEF Register, WakeUp, Reconcile
<1>3. st.baseline \in Lineages /\ st.page.event = "none" /\ FeedTypeOK
    BY <1>1, <1>2, ThisStream
<1>4. PICK to \in {[st EXCEPT !.phase = "read"], [st EXCEPT !.phase = "read", !.wake = FALSE]} : Go(s, to)
    BY <1>1 DEF Register, WakeUp, Reconcile
<1>5. /\ to \in StreamRecord /\ to.phase = "read" /\ to.baseline = st.baseline
      /\ to.from = st.from /\ to.cursor = st.cursor /\ to.sent = st.sent /\ to.page = st.page
      /\ to.asOf = st.asOf
    BY <1>2, <1>4 DEF StreamRecord
<1>6. StreamInv(Home[s], to)
    BY <1>2, <1>3, <1>5, ReadsNext
<1> QED
    BY <1>4, <1>6, HandlerStep

\* The stream ends.
LEMMA GoAway ==
    ASSUME IInv, NEW s \in Streams, Go(s, Closed)
    PROVE  IInv'
BY HandlerStep, ClosedIsFine, ThisStream

LEMMA ReadPageKeepsIInv ==
    ASSUME IInv, NEW s \in Streams, ReadPage(s)
    PROVE  IInv'
<1>1. PICK old : old = stream[s]
    OBVIOUS
<1> DEFINE st == [old EXCEPT !.asOf = rows]
<1>2. old \in StreamRecord /\ StreamInv(Home[s], old) /\ old.phase = "read"
    BY <1>1, ThisStream DEF ReadPage
<1>3. old.baseline \in Lineages /\ FeedTypeOK /\ FeedInv /\ rows \in Nat
    BY <1>1, <1>2, ThisStream DEF FeedTypeOK
<1>4. /\ st \in StreamRecord /\ st.phase = "read" /\ st.baseline = old.baseline
      /\ st.from = old.from /\ st.cursor = old.cursor /\ st.sent = old.sent /\ st.asOf = rows
    BY <1>2, <1>3 DEF StreamRecord
<1>5. PICK e \in NextEvents(st) :
            Go(s, IF e.event = "ready" /\ ~st.initial THEN Wait(st)
                  ELSE [st EXCEPT !.phase = "write", !.page = e])
    BY <1>1 DEF ReadPage
<1> HIDE DEF st
<1>6. /\ e \in [event : Events, upto : Nat, more : BOOLEAN, head : Nat]
      /\ e.event # "none"
      /\ e.event = "changes" =>
           /\ ~Mismatch(st) /\ HeadCursor = tip[st.baseline]
           /\ st.cursor < e.upto /\ e.upto <= HeadCursor
           /\ ~e.more => e.upto = HeadCursor
           /\ e.head = HeadCursor
      /\ e.event = "ready" =>
           ~Mismatch(st) /\ st.cursor = HeadCursor /\ e.head = HeadCursor
    BY <1>3, <1>4, EventsOfSnapshot
<1>7. Gapless(st)
    BY <1>2, <1>4 DEF StreamInv, Gapless
<1>8. \A p \in Publishers : ~(publisher[p].sent /\ rows < publisher[p].row)
    BY <1>3, RowsAreWritten
<1>9. rows <= rows /\ ~(rows < rows)
    BY <1>3
<1>10. CASE e.event = "ready" /\ ~st.initial
    <2>1. /\ Shape(Wait(st)) /\ Gapless(Wait(st)) /\ PageAgrees(Wait(st)) /\ Settled(Wait(st))
          /\ Wait(st).asOf = st.asOf
        BY <1>3, <1>4, <1>6, <1>7, <1>9, <1>10, WaitsWhereItStands
    <2>2. Woken(Home[s], Wait(st))
        BY <1>4, <1>8, <1>9, <2>1 DEF Woken
    <2>3. StreamInv(Home[s], Wait(st))
        BY <2>1, <2>2 DEF StreamInv
    <2> QED
        BY <1>5, <1>10, <2>3, HandlerStep
<1>11. CASE ~(e.event = "ready" /\ ~st.initial)
    <2> DEFINE to == [st EXCEPT !.phase = "write", !.page = e]
    <2>1. Go(s, to)
        BY <1>5, <1>11
    <2>2. /\ to \in StreamRecord /\ to.phase = "write" /\ to.page = e
          /\ to.baseline = st.baseline /\ to.from = st.from /\ to.cursor = st.cursor
          /\ to.sent = st.sent /\ to.asOf = rows /\ (to.initial <=> st.initial)
        BY <1>4, <1>6 DEF StreamRecord
    <2> HIDE DEF to
    <2>3. Shape(to)
        BY <1>3, <1>4, <1>6, <2>2 DEF Shape
    <2>4. Gapless(to)
        BY <1>7, <2>2 DEF Gapless
    <2>5. PageAgrees(to)
        BY <1>6, <1>11, <2>2 DEF PageAgrees
    <2>6. Settled(to)
        BY <1>6, <1>9, <2>2 DEF Settled, AtEnd, Reached, Mismatch
    <2>7. Woken(Home[s], to)
        BY <1>8, <1>9, <2>2 DEF Woken
    <2> QED
        BY <2>1, <2>3, <2>4, <2>5, <2>6, <2>7, HandlerStep DEF StreamInv
<1> QED
    BY <1>10, <1>11

Changes(b, from, upto) == [i \in 1..(upto - from) |-> <<b, from + i>>]

\* The changes of a page are put behind those sent before.
LEMMA SentGrows ==
    ASSUME NEW b, NEW from \in Nat, NEW cursor \in Nat, NEW upto \in Nat,
           from <= cursor, cursor <= upto
    PROVE  Changes(b, from, cursor) \o Changes(b, cursor, upto) = Changes(b, from, upto)
<1> DEFINE m == cursor - from
           n == upto - cursor
           left == [i \in 1..m |-> <<b, from + i>>]
           right == [i \in 1..n |-> <<b, cursor + i>>]
           both == [i \in 1..(upto - from) |-> <<b, from + i>>]
           S == {b} \X Nat
<1>1. m \in Nat /\ n \in Nat /\ m + n = upto - from
    OBVIOUS
<1>2. \A i \in 1..m : from + i \in Nat
    OBVIOUS
<1>3. \A i \in 1..n : cursor + i \in Nat
    OBVIOUS
<1>4. left \in [1..m -> S] /\ right \in [1..n -> S]
    BY <1>2, <1>3
<1>5. left \in Seq(S) /\ right \in Seq(S) /\ Len(left) = m /\ Len(right) = n
    <2> HIDE DEF left, right, m, n, S
    <2> QED
        BY <1>1, <1>4
<1>6. left \o right \in Seq(S) /\ Len(left \o right) = m + n
    <2> HIDE DEF left, right, m, n, S
    <2> QED
        BY <1>1, <1>5
<1>7. ASSUME NEW i \in 1..(m + n) PROVE (left \o right)[i] = both[i]
    <2>1. (left \o right)[i] = IF i <= m THEN left[i] ELSE right[i - m]
        <3> HIDE DEF left, right, m, n, S
        <3> QED
            BY <1>1, <1>5, <1>7
    <2>2. CASE i <= m
        <3>1. i \in 1..m /\ i \in 1..(upto - from)
            BY <1>1, <1>7, <2>2
        <3> QED
            BY <2>1, <2>2, <3>1
    <2>3. CASE ~(i <= m)
        <3>1. i - m \in 1..n /\ i \in 1..(upto - from) /\ cursor + (i - m) = from + i
            BY <1>1, <1>7, <2>3
        <3> QED
            BY <2>1, <2>3, <3>1
    <2> QED
        BY <2>2, <2>3
<1>8. left \o right = [i \in 1..(m + n) |-> (left \o right)[i]]
    <2> HIDE DEF left, right, m, n, S
    <2>1. PICK all : all = left \o right
        OBVIOUS
    <2>2. all \in Seq(S) /\ Len(all) = m + n
        BY <1>6, <2>1
    <2>3. all = [i \in 1..(m + n) |-> all[i]]
        BY <2>2
    <2> QED
        BY <2>1, <2>3
<1>9. both = [i \in 1..(m + n) |-> both[i]]
    BY <1>1
<1> HIDE DEF left, right, both, m, n, S
<1>10. left \o right = both
    BY <1>7, <1>8, <1>9
<1> QED
    BY <1>10 DEF left, right, both, m, n, Changes

LEMMA WriteChangesKeepsIInv ==
    ASSUME IInv, NEW s \in Streams, WriteChanges(s)
    PROVE  IInv'
<1>1. PICK st : st = stream[s]
    OBVIOUS
<1> DEFINE written == [st EXCEPT !.cursor = st.page.upto,
                                 !.sent = @ \o [i \in 1..(st.page.upto - st.cursor) |->
                                                    <<st.baseline, st.cursor + i>>]]
<1>2. /\ st \in StreamRecord /\ StreamInv(Home[s], st)
      /\ st.phase = "write" /\ st.page.event = "changes"
    BY <1>1, ThisStream DEF WriteChanges
<1>3. st.baseline \in Lineages /\ FeedTypeOK /\ FeedInv /\ rows \in Nat
    BY <1>1, <1>2, ThisStream DEF FeedTypeOK
<1>4. Go(s, IF st.page.more THEN [written EXCEPT !.phase = "read", !.page = NoPage]
            ELSE IF st.initial
            THEN [written EXCEPT !.page = Event("ready", st.page.upto, FALSE, st.page.head)]
            ELSE Wait(written))
    BY <1>1 DEF WriteChanges
<1>5. /\ st.from <= st.cursor /\ st.cursor < st.page.upto /\ st.page.upto <= tip[st.baseline]
      /\ ~st.page.more => st.page.upto = st.page.head
      /\ st.sent = [i \in 1..(st.cursor - st.from) |-> <<st.baseline, st.from + i>>]
      /\ st.asOf <= rows
    BY <1>2 DEF StreamInv, Gapless, PageAgrees, Settled
<1>6. /\ st.from \in Nat /\ st.cursor \in Nat /\ st.page.upto \in Nat /\ st.page.head \in Nat
      /\ st.sent \in Seq(Lineages \X Nat)
    BY <1>2 DEF StreamRecord
<1> DEFINE sent == Changes(st.baseline, st.from, st.page.upto)
<1>7. st.sent \o Changes(st.baseline, st.cursor, st.page.upto) = sent
    <2>1. st.cursor <= st.page.upto
        BY <1>5, <1>6
    <2>2. st.sent = Changes(st.baseline, st.from, st.cursor)
        BY <1>5 DEF Changes
    <2>3. st.from <= st.cursor
        BY <1>5
    <2>4. Changes(st.baseline, st.from, st.cursor) \o Changes(st.baseline, st.cursor, st.page.upto)
            = Changes(st.baseline, st.from, st.page.upto)
        BY <1>6, <2>1, <2>3, SentGrows
    <2> QED
        BY <2>2, <2>4
<1>8. sent \in Seq(Lineages \X Nat)
    <2>1. st.page.upto - st.from \in Nat
        BY <1>5, <1>6
    <2>2. \A i \in 1..(st.page.upto - st.from) : <<st.baseline, st.from + i>> \in Lineages \X Nat
        BY <1>3, <1>6, <2>1
    <2> QED
        BY <2>1, <2>2 DEF Changes
<1>9. written = [st EXCEPT !.cursor = st.page.upto, !.sent = sent]
    BY <1>7 DEF Changes
<1> HIDE DEF sent
<1>10. /\ written \in StreamRecord /\ written.phase = "write" /\ written.page = st.page
       /\ written.baseline = st.baseline /\ written.from = st.from
       /\ written.cursor = st.page.upto /\ written.sent = sent
       /\ written.asOf = st.asOf /\ (written.initial <=> st.initial) /\ (written.wake <=> st.wake)
    <2> HIDE DEF written
    <2> QED
        BY <1>2, <1>6, <1>8, <1>9 DEF StreamRecord
<1> HIDE DEF written
<1>11. Gapless(written)
    <2>1. st.from <= st.page.upto
        BY <1>5, <1>6
    <2> QED
        BY <1>3, <1>5, <1>10, <2>1 DEF Gapless, sent, Changes
<1>12. Woken(Home[s], written)
    BY <1>2, <1>10 DEF StreamInv, Woken
<1>13. st.asOf = rows /\ ~st.page.more =>
            IF Mismatch(written) THEN lineage \notin archived ELSE written.cursor = HeadCursor
    BY <1>2, <1>10 DEF StreamInv, Settled, AtEnd, Reached, Mismatch
<1>14. NoPage.event = "none" /\ NoPage \in [event : Events, upto : Nat, more : BOOLEAN, head : Nat]
    BY DEF NoPage, Events
<1>15. CASE st.page.more
    <2> DEFINE to == [written EXCEPT !.phase = "read", !.page = NoPage]
    <2>1. /\ to \in StreamRecord /\ to.phase = "read" /\ to.page = NoPage
          /\ to.baseline = written.baseline /\ to.from = written.from /\ to.cursor = written.cursor
          /\ to.sent = written.sent /\ to.asOf = written.asOf
        BY <1>10, <1>14 DEF StreamRecord
    <2>2. Go(s, to)
        BY <1>4, <1>15
    <2> HIDE DEF to
    <2>3. Shape(to)
        BY <1>3, <1>10, <1>14, <2>1 DEF Shape
    <2>4. Gapless(to)
        BY <1>11, <2>1 DEF Gapless
    <2>5. PageAgrees(to) /\ Settled(to) /\ Woken(Home[s], to)
        BY <1>5, <1>10, <1>14, <2>1 DEF PageAgrees, Settled, AtEnd, Woken
    <2> QED
        BY <2>2, <2>3, <2>4, <2>5, HandlerStep DEF StreamInv
<1>16. CASE ~st.page.more /\ st.initial
    <2> DEFINE ready == Event("ready", st.page.upto, FALSE, st.page.head)
               to == [written EXCEPT !.page = ready]
    <2>1. /\ ready \in [event : Events, upto : Nat, more : BOOLEAN, head : Nat]
          /\ ready.event = "ready" /\ ready.head = st.page.head
        BY <1>6 DEF Event, Events
    <2>2. Go(s, to)
        BY <1>4, <1>16
    <2> HIDE DEF ready
    <2>3. /\ to \in StreamRecord /\ to.phase = "write" /\ to.page = ready
          /\ to.baseline = written.baseline /\ to.from = written.from /\ to.cursor = written.cursor
          /\ to.sent = written.sent /\ to.asOf = written.asOf
          /\ (to.initial <=> written.initial) /\ (to.wake <=> written.wake)
        BY <1>10, <2>1 DEF StreamRecord
    <2> HIDE DEF to
    <2>4. Shape(to)
        BY <1>3, <1>10, <2>1, <2>3 DEF Shape
    <2>5. Gapless(to)
        BY <1>11, <2>3 DEF Gapless
    <2>6. PageAgrees(to)
        BY <1>5, <1>10, <1>16, <2>1, <2>3 DEF PageAgrees
    <2>7. Settled(to)
        BY <1>5, <1>10, <1>13, <1>16, <2>1, <2>3 DEF Settled, Reached, Mismatch
    <2>8. Woken(Home[s], to)
        BY <1>10, <1>12, <2>3 DEF Woken
    <2> QED
        BY <2>2, <2>4, <2>5, <2>6, <2>7, <2>8, HandlerStep DEF StreamInv
<1>17. CASE ~st.page.more /\ ~st.initial
    <2>1. Go(s, Wait(written))
        BY <1>4, <1>17
    <2>2. /\ Shape(Wait(written)) /\ Gapless(Wait(written))
          /\ PageAgrees(Wait(written)) /\ Settled(Wait(written))
          /\ Wait(written).asOf = written.asOf /\ (Wait(written).wake <=> written.wake)
        BY <1>3, <1>5, <1>10, <1>11, <1>13, <1>17, WaitsWhereItStands
    <2>3. Woken(Home[s], Wait(written))
        BY <1>10, <1>12, <2>2 DEF Woken
    <2>4. StreamInv(Home[s], Wait(written))
        BY <2>2, <2>3 DEF StreamInv
    <2> QED
        BY <2>1, <2>4, HandlerStep
<1> QED
    BY <1>15, <1>16, <1>17

LEMMA WriteReadyKeepsIInv ==
    ASSUME IInv, NEW s \in Streams, WriteReady(s)
    PROVE  IInv'
<1>1. PICK st : st = stream[s]
    OBVIOUS
<1>2. /\ st \in StreamRecord /\ StreamInv(Home[s], st)
      /\ st.phase = "write" /\ st.page.event = "ready" /\ Go(s, Wait(st))
    BY <1>1, ThisStream DEF WriteReady
<1>3. st.baseline \in Lineages /\ FeedTypeOK
    BY <1>1, <1>2, ThisStream
<1>4. /\ Gapless(st) /\ st.asOf <= rows /\ Woken(Home[s], st)
      /\ st.asOf = rows =>
            IF Mismatch(st) THEN lineage \notin archived ELSE st.cursor = HeadCursor
    BY <1>2 DEF StreamInv, Settled, AtEnd, Reached
<1>5. /\ Shape(Wait(st)) /\ Gapless(Wait(st)) /\ PageAgrees(Wait(st)) /\ Settled(Wait(st))
      /\ Wait(st).asOf = st.asOf /\ (Wait(st).wake <=> st.wake)
    BY <1>2, <1>3, <1>4, WaitsWhereItStands
<1>6. Woken(Home[s], Wait(st))
    BY <1>2, <1>4, <1>5 DEF Woken
<1>7. StreamInv(Home[s], Wait(st))
    BY <1>5, <1>6 DEF StreamInv
<1> QED
    BY <1>2, <1>7, HandlerStep

LEMMA HandlerKeepsIInv ==
    ASSUME IInv, NEW s \in Streams, Handler(s)
    PROVE  IInv'
<1>1. CASE \E b \in Lineages, c \in 0..MaxCursor : Open(s, b, c)
    BY <1>1, OpenKeepsIInv
<1>2. CASE Register(s) \/ WakeUp(s) \/ Reconcile(s)
    BY <1>2, GoOnReading
<1>3. CASE WriteTerminal(s) \/ FeedFails(s) \/ End(s)
    <2>1. Go(s, Closed)
        BY <1>3 DEF WriteTerminal, FeedFails, End
    <2> QED
        BY <2>1, GoAway
<1> QED
    BY <1>1, <1>2, <1>3, ReadPageKeepsIInv, WriteChangesKeepsIInv, WriteReadyKeepsIInv DEF Handler

-----------------------------------------------------------------------------
(* Commits, hints and crashes. *)

\* A commit moves the head and adds a row, which nobody has read yet and which
\* is still to be published.
LEMMA CommitKeepsIInv ==
    ASSUME IInv, Commit, UNCHANGED stream
    PROVE  IInv'
<1>1. /\ FeedTypeOK /\ TipsAreArchived /\ HintTypeOK
      /\ stream \in [Streams -> StreamRecord]
      /\ \A s \in Streams : StreamInv(Home[s], stream[s])
    BY DEF IInv, FeedInv
<1>2. /\ FeedTypeOK' /\ TipsAreArchived'
      /\ \A b \in Lineages : tip[b] <= tip'[b]
      /\ \/ rows' = rows + 1
         \/ /\ rows' = rows /\ tip' = tip /\ lineage = NoLineage
            /\ lineage' \in Lineages /\ archived' = {}
    BY <1>1, FeedStep DEF Commit
<1>3. HintTypeOK'
    BY <1>1, CommitKeepsHints
<1>4. FeedInv'
    BY <1>2, <1>3 DEF FeedInv
<1>5. /\ unpublished' = unpublished \cup ((rows + 1)..rows')
      /\ UNCHANGED <<publisher, subscribed, inbox, missed>>
    BY DEF Commit
<1>6. rows \in Nat /\ rows' \in Nat
    BY <1>1, <1>2 DEF FeedTypeOK
<1>7. ASSUME NEW s \in Streams PROVE StreamInv(Home[s], stream[s])'
    <2>1. PICK st : st = stream[s] /\ st = stream'[s]
        OBVIOUS
    <2>2. /\ st \in StreamRecord
          /\ Shape(st) /\ Gapless(st) /\ PageAgrees(st) /\ Settled(st) /\ Woken(Home[s], st)
        BY <1>1, <2>1 DEF StreamInv
    <2>3. /\ st.cursor \in Nat /\ st.asOf \in Nat /\ st.from \in Nat /\ st.page.upto \in Nat
          /\ st.asOf <= rows
        BY <2>2 DEF StreamRecord, Settled
    <2>4. st.baseline \in Lineages =>
            tip[st.baseline] \in Nat /\ tip'[st.baseline] \in Nat /\ tip[st.baseline] <= tip'[st.baseline]
        BY <1>1, <1>2 DEF FeedTypeOK
    <2>5. Shape(st)'
        BY <2>2 DEF Shape, StreamRecord, Events
    <2>6. Gapless(st)'
        <3>1. st.sent # <<>> => st.baseline \in Lineages /\ st.cursor <= tip'[st.baseline]
            BY <2>2, <2>3, <2>4 DEF Gapless
        <3> QED
            BY <2>2, <3>1 DEF Gapless
    <2>7. PageAgrees(st)'
        <3>1. st.page.event = "changes" => st.baseline \in Lineages
            BY <2>2 DEF Shape
        <3>2. st.page.event = "changes" => st.page.upto <= tip'[st.baseline]
            BY <2>2, <2>3, <2>4, <3>1 DEF PageAgrees
        <3> QED
            BY <2>2, <3>2 DEF PageAgrees
    <2>8. Settled(st)'
        <3>1. CASE rows' = rows + 1
            <4>1. st.asOf <= rows' /\ st.asOf # rows'
                BY <1>6, <2>3, <3>1
            <4> QED
                BY <4>1 DEF Settled
        <3>2. CASE /\ rows' = rows /\ tip' = tip /\ lineage = NoLineage
                   /\ lineage' \in Lineages /\ archived' = {}
            <4>1. tip'[lineage'] = 0
                BY <1>2, <3>2 DEF TipsAreArchived
            <4>2. lineage' # NoLineage
                BY <3>2, NoLineageAssumption
            <4>3. AtEnd(st) /\ st.asOf = rows => Reached(st) = 0
                BY <2>2, <3>2 DEF Settled, Mismatch, HeadCursor
            <4> QED
                BY <2>3, <3>2, <4>1, <4>2, <4>3 DEF Settled, AtEnd, Reached, Mismatch, HeadCursor
        <3> QED
            BY <1>2, <3>1, <3>2
    <2>9. Woken(Home[s], st)'
        <3> SUFFICES ASSUME st.phase \in {"write", "wait"}
                     PROVE  /\ st.asOf < rows' =>
                                \/ st.wake
                                \/ \E row \in (st.asOf + 1)..rows' :
                                      row \in unpublished' \cup inbox[Home[s]] \cup missed[Home[s]]
                            /\ \A p \in Publishers :
                                publisher[p].sent /\ st.asOf < publisher[p].row =>
                                    st.wake \/ publisher[p].row \in inbox[Home[s]] \cup missed[Home[s]]
            BY <1>5 DEF Woken
        <3>1. CASE rows' = rows + 1
            <4>1. rows + 1 \in (st.asOf + 1)..rows' /\ rows + 1 \in unpublished'
                BY <1>5, <1>6, <2>3, <3>1
            <4> QED
                BY <2>2, <4>1 DEF Woken
        <3>2. CASE rows' = rows
            BY <1>5, <2>2, <3>2 DEF Woken
        <3> QED
            BY <1>2, <3>1, <3>2
    <2> QED
        BY <2>1, <2>5, <2>6, <2>7, <2>8, <2>9 DEF StreamInv
<1> QED
    BY <1>1, <1>4, <1>7 DEF IInv

\* Hints only set the flag wake of a stream: everything but Woken is kept.
LEMMA HintsKeepStream ==
    ASSUME NEW q, NEW st \in StreamRecord, NEW to \in StreamRecord, StreamInv(q, st),
           UNCHANGED feedVars,
           to.phase = st.phase, to.baseline = st.baseline, to.from = st.from,
           to.cursor = st.cursor, to.initial <=> st.initial, to.page = st.page,
           to.asOf = st.asOf, to.sent = st.sent
    PROVE  Shape(to)' /\ Gapless(to)' /\ PageAgrees(to)' /\ Settled(to)'
<1>1. UNCHANGED <<lineage, tip, archived, rows>>
    BY DEF feedVars
<1>2. Shape(to)'
    BY DEF StreamInv, Shape, StreamRecord, Events
<1>3. Gapless(to)' /\ PageAgrees(to)'
    BY <1>1 DEF StreamInv, Gapless, PageAgrees
<1>4. Settled(to)'
    BY <1>1 DEF StreamInv, Settled, AtEnd, Reached, Mismatch, HeadCursor
<1> QED
    BY <1>2, <1>3, <1>4

\* A publisher or a subscription goes on.  A row leaves the unpublished ones
\* only after its hint was sent to every process.
LEMMA PipelineKeepsIInv ==
    ASSUME IInv, Pipeline, UNCHANGED <<feedVars, stream>>
    PROVE  IInv'
<1>1. /\ FeedTypeOK /\ TipsAreArchived /\ HintTypeOK
      /\ stream \in [Streams -> StreamRecord]
      /\ \A s \in Streams : StreamInv(Home[s], stream[s])
      /\ UNCHANGED <<lineage, tip, archived, rows>>
    BY DEF IInv, FeedInv, feedVars
<1>2. rows \in Nat
    BY <1>1 DEF FeedTypeOK
<1>3. /\ HintTypeOK'
      /\ \A q \in Subscribers : inbox[q] \cup missed[q] \subseteq inbox'[q] \cup missed'[q]
      /\ \A row \in unpublished \ unpublished' :
            \E p \in Publishers : publisher[p].sent /\ publisher[p].row = row
      /\ \A p \in Publishers :
            publisher'[p].sent /\ publisher'[p] # publisher[p] =>
                \A q \in Subscribers : publisher'[p].row \in inbox'[q] \cup missed'[q]
    BY <1>1, <1>2, PipelineStep
<1>4. FeedInv'
    BY <1>1, <1>3 DEF FeedInv, FeedTypeOK, TipsAreArchived
<1>5. ASSUME NEW s \in Streams PROVE StreamInv(Home[s], stream[s])'
    <2>1. PICK st : st = stream[s] /\ st = stream'[s]
        OBVIOUS
    <2>2. PICK q \in Subscribers : q = Home[s]
        BY HomeAssumption
    <2>3. st \in StreamRecord /\ StreamInv(q, st)
        BY <1>1, <2>1, <2>2
    <2>4. Shape(st)' /\ Gapless(st)' /\ PageAgrees(st)' /\ Settled(st)'
        BY <2>3, HintsKeepStream
    <2>5. Woken(q, st)'
        <3>1. SUFFICES ASSUME st.phase \in {"write", "wait"}, ~st.wake
              PROVE  /\ st.asOf < rows =>
                        \E row \in (st.asOf + 1)..rows : row \in unpublished' \cup inbox'[q] \cup missed'[q]
                     /\ \A p \in Publishers :
                        publisher'[p].sent /\ st.asOf < publisher'[p].row =>
                            publisher'[p].row \in inbox'[q] \cup missed'[q]
            BY <1>1 DEF Woken
        <3>2. /\ st.asOf < rows =>
                    \E row \in (st.asOf + 1)..rows : row \in unpublished \cup inbox[q] \cup missed[q]
              /\ \A p \in Publishers :
                    publisher[p].sent /\ st.asOf < publisher[p].row =>
                        publisher[p].row \in inbox[q] \cup missed[q]
            BY <2>3, <3>1 DEF StreamInv, Woken
        <3>3. st.asOf \in Nat
            BY <2>3 DEF StreamRecord
        <3>4. ASSUME st.asOf < rows
              PROVE  \E row \in (st.asOf + 1)..rows : row \in unpublished' \cup inbox'[q] \cup missed'[q]
            <4>1. PICK row \in (st.asOf + 1)..rows : row \in unpublished \cup inbox[q] \cup missed[q]
                BY <3>2, <3>4
            <4>2. CASE row \in inbox[q] \cup missed[q] \/ row \in unpublished'
                BY <1>3, <4>2
            <4>3. CASE row \in unpublished \ unpublished'
                <5>1. PICK p \in Publishers : publisher[p].sent /\ publisher[p].row = row
                    BY <1>3, <4>3
                <5>2. st.asOf < publisher[p].row
                    BY <1>2, <3>3, <5>1
                <5>3. row \in inbox[q] \cup missed[q]
                    BY <3>2, <5>1, <5>2
                <5> QED
                    BY <1>3, <5>3
            <4> QED
                BY <4>1, <4>2, <4>3
        <3>5. ASSUME NEW p \in Publishers, publisher'[p].sent, st.asOf < publisher'[p].row
              PROVE  publisher'[p].row \in inbox'[q] \cup missed'[q]
            <4>1. CASE publisher'[p] = publisher[p]
                BY <1>3, <3>2, <3>5, <4>1
            <4>2. CASE publisher'[p] # publisher[p]
                BY <1>3, <3>5, <4>2
            <4> QED
                BY <4>1, <4>2
        <3> QED
            BY <3>4, <3>5
    <2> QED
        BY <2>1, <2>2, <2>4, <2>5 DEF StreamInv
<1> QED
    BY <1>1, <1>4, <1>5 DEF IInv

\* A hint that is taken has woken every stream that is registered.
LEMMA DeliverKeepsIInv ==
    ASSUME IInv, NEW q \in Subscribers, Deliver(q)
    PROVE  IInv'
<1>1. /\ FeedTypeOK /\ TipsAreArchived /\ HintTypeOK
      /\ stream \in [Streams -> StreamRecord]
      /\ \A s \in Streams : StreamInv(Home[s], stream[s])
    BY DEF IInv, FeedInv
<1>2. PICK row : TakeHint(q, row)
    BY DEF Deliver
<1>3. /\ inbox' = [inbox EXCEPT ![q] = @ \ {row}]
      /\ UNCHANGED <<unpublished, publisher, subscribed, missed>>
    BY <1>2 DEF TakeHint
<1>4. /\ UNCHANGED <<lineage, tip, archived, rows>> /\ UNCHANGED feedVars
      /\ stream' = [s \in Streams |->
                        IF Home[s] = q /\ Registered(s) THEN [stream[s] EXCEPT !.wake = TRUE]
                        ELSE stream[s]]
    BY DEF Deliver, feedVars
<1>5. HintTypeOK'
    <2>1. inbox' \in [Subscribers -> SUBSET (1..rows)]
        BY <1>1, <1>3 DEF HintTypeOK
    <2> QED
        BY <1>1, <1>3, <1>4, <2>1 DEF HintTypeOK
<1>6. FeedInv'
    BY <1>1, <1>4, <1>5 DEF FeedInv, FeedTypeOK, TipsAreArchived
<1>7. ASSUME NEW s \in Streams PROVE stream'[s] \in StreamRecord /\ StreamInv(Home[s], stream[s])'
    <2>1. PICK st, to : st = stream[s] /\ to = stream'[s]
        OBVIOUS
    <2>2. PICK h \in Subscribers : h = Home[s]
        BY HomeAssumption
    <2>3. st \in StreamRecord /\ StreamInv(h, st)
        BY <1>1, <2>1, <2>2
    <2>4. to = IF h = q /\ st.phase \in {"read", "write", "wait"} THEN [st EXCEPT !.wake = TRUE] ELSE st
        BY <1>4, <2>1, <2>2 DEF Registered
    <2>5. /\ to \in StreamRecord
          /\ to.phase = st.phase /\ to.baseline = st.baseline /\ to.from = st.from
          /\ to.cursor = st.cursor /\ (to.initial <=> st.initial) /\ to.page = st.page
          /\ to.asOf = st.asOf /\ to.sent = st.sent
          /\ (to.wake <=> (st.wake \/ (h = q /\ st.phase \in {"read", "write", "wait"})))
        BY <2>3, <2>4 DEF StreamRecord
    <2>6. Shape(to)' /\ Gapless(to)' /\ PageAgrees(to)' /\ Settled(to)'
        BY <1>4, <2>3, <2>5, HintsKeepStream
    <2>7. Woken(h, to)'
        <3>1. CASE h = q
            BY <2>5, <3>1 DEF Woken
        <3>2. CASE h # q
            <4>1. inbox'[h] = inbox[h]
                BY <1>1, <1>3, <3>2 DEF HintTypeOK
            <4> QED
                BY <1>3, <1>4, <2>3, <2>5, <3>2, <4>1 DEF StreamInv, Woken
        <3> QED
            BY <3>1, <3>2
    <2> QED
        BY <2>1, <2>2, <2>5, <2>6, <2>7 DEF StreamInv
<1>8. stream' \in [Streams -> StreamRecord]
    <2>1. stream' = [s \in Streams |-> stream'[s]]
        BY <1>4
    <2> QED
        BY <1>7, <2>1
<1> QED
    BY <1>6, <1>7, <1>8 DEF IInv

\* A process that dies takes its streams along.
LEMMA CrashKeepsIInv ==
    ASSUME IInv, NEW q \in Subscribers, Crash(q)
    PROVE  IInv'
<1>1. /\ FeedTypeOK /\ TipsAreArchived /\ HintTypeOK /\ FeedInv
      /\ stream \in [Streams -> StreamRecord]
      /\ \A s \in Streams : StreamInv(Home[s], stream[s])
    BY DEF IInv, FeedInv
<1>2. /\ subscribed' = [subscribed EXCEPT ![q] = FALSE]
      /\ inbox' = [inbox EXCEPT ![q] = {}]
      /\ missed' = [missed EXCEPT ![q] = @ \cup inbox[q]]
      /\ UNCHANGED <<unpublished, publisher>>
      /\ UNCHANGED <<lineage, tip, archived, rows>> /\ UNCHANGED feedVars
      /\ stream' = [s \in Streams |-> IF Home[s] = q THEN Closed ELSE stream[s]]
    BY DEF Crash, feedVars
<1>3. HintTypeOK'
    <2>1. inbox' \in [Subscribers -> SUBSET (1..rows)] /\ missed' \in [Subscribers -> SUBSET (1..rows)]
        BY <1>1, <1>2 DEF HintTypeOK
    <2>2. subscribed' \in [Subscribers -> BOOLEAN]
        BY <1>1, <1>2 DEF HintTypeOK
    <2> QED
        BY <1>1, <1>2, <2>1, <2>2 DEF HintTypeOK
<1>4. FeedInv'
    BY <1>1, <1>2, <1>3 DEF FeedInv, FeedTypeOK, TipsAreArchived
<1>5. ASSUME NEW s \in Streams PROVE stream'[s] \in StreamRecord /\ StreamInv(Home[s], stream[s])'
    <2>1. PICK to : to = stream'[s]
        OBVIOUS
    <2>2. PICK h \in Subscribers : h = Home[s]
        BY HomeAssumption
    <2>3. to \in StreamRecord /\ StreamInv(h, to)
        BY <1>1, <1>2, <2>1, <2>2, ClosedIsFine DEF StreamInv, Shape
    <2>4. Shape(to)' /\ Gapless(to)' /\ PageAgrees(to)' /\ Settled(to)'
        BY <1>2, <2>3, HintsKeepStream
    <2>5. Woken(h, to)'
        <3>1. CASE h = q
            <4>1. to.phase = "closed"
                BY <1>2, <2>1, <2>2, <3>1 DEF Closed
            <4> QED
                BY <4>1 DEF Woken
        <3>2. CASE h # q
            <4>1. inbox'[h] = inbox[h] /\ missed'[h] = missed[h]
                BY <1>1, <1>2, <3>2 DEF HintTypeOK
            <4> QED
                BY <1>2, <2>3, <4>1 DEF StreamInv, Woken
        <3> QED
            BY <3>1, <3>2
    <2> QED
        BY <2>1, <2>2, <2>3, <2>4, <2>5 DEF StreamInv
<1>6. stream' \in [Streams -> StreamRecord]
    <2>1. stream' = [s \in Streams |-> stream'[s]]
        BY <1>2
    <2> QED
        BY <1>5, <2>1
<1> QED
    BY <1>4, <1>5, <1>6 DEF IInv

-----------------------------------------------------------------------------
(* The theorems. *)

LEMMA InitIInv ==
    ASSUME Init
    PROVE  IInv
<1>1. FeedTypeOK /\ TipsAreArchived
    BY DEF Init, FeedInit, FeedTypeOK, TipsAreArchived
<1>2. HintTypeOK
    <2>1. rows = 0
        BY DEF Init, FeedInit
    <2>2. Idle \in [row : 0..rows, sent : BOOLEAN]
        BY <2>1 DEF Idle
    <2> QED
        BY <2>2 DEF Init, HintInit, HintTypeOK
<1>3. FeedInv
    BY <1>1, <1>2 DEF FeedInv
<1>4. \A q : StreamInv(q, Closed)
    BY <1>3, ClosedIsFine
<1>5. Closed \in StreamRecord
    BY <1>4 DEF StreamInv, Shape
<1>6. stream = [s \in Streams |-> Closed]
    BY DEF Init
<1> QED
    BY <1>3, <1>4, <1>5, <1>6 DEF IInv

LEMMA NextIInv ==
    ASSUME IInv, [Next]_vars
    PROVE  IInv'
<1>1. CASE Commit /\ UNCHANGED stream
    BY <1>1, CommitKeepsIInv
<1>2. CASE Pipeline /\ UNCHANGED <<feedVars, stream>>
    BY <1>2, PipelineKeepsIInv
<1>3. CASE \E s \in Streams : Handler(s)
    BY <1>3, HandlerKeepsIInv
<1>4. CASE \E q \in Subscribers : Deliver(q)
    BY <1>4, DeliverKeepsIInv
<1>5. CASE \E q \in Subscribers : Crash(q)
    BY <1>5, CrashKeepsIInv
<1>6. CASE UNCHANGED vars
    <2>1. UNCHANGED <<lineage, tip, archived, rows, unpublished, publisher, subscribed, inbox,
                      missed, stream>>
        BY <1>6 DEF vars, feedVars, hintVars
    <2>2. FeedInv'
        BY <2>1 DEF IInv, FeedInv, FeedTypeOK, TipsAreArchived, HintTypeOK
    <2>3. ASSUME NEW s \in Streams PROVE StreamInv(Home[s], stream[s])'
        <3>1. PICK st : st = stream[s] /\ st = stream'[s]
            BY <2>1
        <3>2. st \in StreamRecord /\ StreamInv(Home[s], st)
            BY <3>1 DEF IInv
        <3>3. Shape(st)' /\ Gapless(st)' /\ PageAgrees(st)' /\ Settled(st)'
            BY <1>6, <3>2, HintsKeepStream DEF vars
        <3>4. Woken(Home[s], st)'
            BY <2>1, <3>2 DEF StreamInv, Woken
        <3> QED
            BY <3>1, <3>3, <3>4 DEF StreamInv
    <2> QED
        BY <2>1, <2>2, <2>3 DEF IInv, StreamRecord, Events
<1> QED
    BY <1>1, <1>2, <1>3, <1>4, <1>5, <1>6 DEF Next

\* The inductive invariant holds in every reachable state.
LEMMA StreamsKeepIInv == Spec => []IInv
<1>1. Init => IInv
    BY InitIInv
<1>2. IInv /\ [Next]_vars => IInv'
    BY NextIInv
<1> QED
    BY <1>1, <1>2, PTL DEF Spec

\* Every connection is closed or in a phase of events (sse.go), and has a page
\* in hand exactly while it writes one, for any streams and processes.
THEOREM StreamsAreWellTyped == Spec => []TypeOK
<1>1. IInv => TypeOK
    <2> SUFFICES ASSUME IInv PROVE TypeOK
        OBVIOUS
    <2>1. FeedTypeOK /\ HintTypeOK /\ stream \in [Streams -> StreamRecord]
        BY DEF IInv, FeedInv
    <2>2. \A s \in Streams :
            /\ stream[s].phase # "closed" <=> stream[s].baseline \in Lineages
            /\ stream[s].phase = "write" <=> stream[s].page.event # "none"
        BY DEF IInv, StreamInv, Shape
    <2> QED
        BY <2>1, <2>2 DEF TypeOK, StreamRecord
<1> QED
    BY <1>1, StreamsKeepIInv, PTL

\* sse.go sendFeed: whatever is committed, replaced, published or lost between
\* two pages, a stream sends the changes of the lineage its client named, each
\* one once, in order, from the cursor the client named.
THEOREM StreamsAreGapless == Spec => []StreamIsGapless
<1>1. IInv => StreamIsGapless
    BY DEF IInv, StreamInv, Gapless, StreamIsGapless
<1> QED
    BY <1>1, StreamsKeepIInv, PTL

\* sse.go sendFeed: "ready" is written by the first catch-up only, and then the
\* stream stands at the head of the snapshot it was read from.
THEOREM ReadyIsTrue == Spec => []ReadyMeansCaughtUp
<1>1. IInv => ReadyMeansCaughtUp
    BY DEF IInv, StreamInv, PageAgrees, ReadyMeansCaughtUp
<1> QED
    BY <1>1, StreamsKeepIInv, PTL

\* sse.go events, wake_hub.go and outbox.go together: a waiting stream that is
\* behind was woken, or its hint is on the way, or was lost.
THEOREM NoWakeUpIsLost == Spec => []NoLostWakeUp
<1>1. IInv => NoLostWakeUp
    <2> SUFFICES ASSUME IInv, NEW s \in Streams,
                        stream[s].phase = "wait", Behind(stream[s])
                 PROVE  \/ stream[s].wake
                        \/ \E row \in (stream[s].asOf + 1)..rows :
                             row \in unpublished \cup inbox[Home[s]] \cup missed[Home[s]]
        BY DEF NoLostWakeUp
    <2>1. PICK st : st = stream[s]
        OBVIOUS
    <2>2. st \in StreamRecord /\ StreamInv(Home[s], st) /\ st.page.event = "none"
        BY <2>1, ThisStream
    <2>3. st.asOf \in Nat /\ rows \in Nat /\ st.asOf <= rows
        BY <2>2, ThisStream DEF StreamRecord, FeedTypeOK, StreamInv, Settled
    <2>4. st.asOf # rows
        <3> SUFFICES ASSUME st.asOf = rows PROVE FALSE
            OBVIOUS
        <3>1. IF Mismatch(st) THEN lineage \notin archived ELSE st.cursor = HeadCursor
            BY <2>1, <2>2 DEF StreamInv, Settled, AtEnd, Reached
        <3>2. Behind(st)
            BY <2>1
        <3>3. lineage = st.baseline => ~Mismatch(st)
            BY DEF Mismatch
        <3> QED
            BY <3>1, <3>2, <3>3 DEF Behind
    <2>5. st.asOf < rows
        BY <2>3, <2>4
    <2> QED
        BY <2>1, <2>2, <2>5 DEF StreamInv, Woken
<1> QED
    BY <1>1, StreamsKeepIInv, PTL

-----------------------------------------------------------------------------
(* The streams run on the pipeline, and the pipeline on the feed. *)

\* A process without a subscription has no hints to handle.
InboxInv == \A q \in Subscribers : ~subscribed[q] => inbox[q] = {}

LEMMA StreamsKeepInboxInv == Spec => []InboxInv
<1>1. Init => InboxInv
    BY DEF Init, HintInit, InboxInv
<1>2. IInv /\ InboxInv /\ [Next]_vars => InboxInv'
    <2> SUFFICES ASSUME IInv, InboxInv, [Next]_vars PROVE InboxInv'
        OBVIOUS
    <2>1. /\ subscribed \in [Subscribers -> BOOLEAN]
          /\ inbox \in [Subscribers -> SUBSET (1..rows)]
        BY DEF IInv, FeedInv, HintTypeOK
    <2>2. CASE UNCHANGED <<subscribed, inbox>>
        BY <2>2 DEF InboxInv
    <2>3. ASSUME NEW row, Redis(row), subscribed' = subscribed PROVE InboxInv'
        BY <2>1, <2>3 DEF Redis, InboxInv
    <2>4. ASSUME NEW q \in Subscribers, Subscribe(q) \/ LoseSubscription(q) PROVE InboxInv'
        BY <2>1, <2>4 DEF Subscribe, LoseSubscription, InboxInv
    <2>5. ASSUME NEW q \in Subscribers, Deliver(q) \/ Crash(q) PROVE InboxInv'
        BY <2>1, <2>5 DEF Deliver, TakeHint, Crash, InboxInv
    <2>6. CASE Pipeline
        <3>1. ASSUME NEW p \in Publishers,
                     LockRow(p) \/ PublishHint(p) \/ PublishFails(p) \/ MarkPublished(p)
                        \/ PublisherRollback(p)
              PROVE  InboxInv'
            BY <2>2, <2>3, <3>1
               DEF LockRow, PublishHint, PublishFails, MarkPublished, PublisherRollback
        <3> QED
            BY <2>4, <2>6, <3>1 DEF Pipeline
    <2>7. CASE Commit
        BY <2>2, <2>7 DEF Commit
    <2>8. ASSUME NEW s \in Streams, Handler(s) PROVE InboxInv'
        <3>1. \E st : Go(s, st)
            BY <2>8 DEF Handler, Open, Register, ReadPage, WriteChanges, WriteReady,
                WriteTerminal, FeedFails, WakeUp, Reconcile, End
        <3> QED
            BY <2>2, <3>1 DEF Go, hintVars
    <2>9. CASE UNCHANGED vars
        BY <2>2, <2>9 DEF vars, hintVars
    <2> QED
        BY <2>5, <2>6, <2>7, <2>8, <2>9 DEF Next
<1> QED
    BY <1>1, <1>2, StreamsKeepIInv, PTL DEF Spec

\* Every behaviour of the streams and their processes is one of HintPipeline:
\* a handler does not touch the hints, a delivery takes one, and a process that
\* dies loses its subscription.
THEOREM StreamsRunOnPipeline == Spec => PipelineInit /\ [][HintNext]_pipelineVars
<1>1. Init => PipelineInit
    BY DEF Init, PipelineInit
<1>2. IInv /\ InboxInv /\ [Next]_vars => [HintNext]_pipelineVars
    <2> SUFFICES ASSUME IInv, InboxInv, [Next]_vars PROVE [HintNext]_pipelineVars
        OBVIOUS
    <2>1. /\ subscribed \in [Subscribers -> BOOLEAN]
          /\ inbox \in [Subscribers -> SUBSET (1..rows)]
          /\ missed \in [Subscribers -> SUBSET (1..rows)]
        BY DEF IInv, FeedInv, HintTypeOK
    <2>2. CASE Commit \/ (Pipeline /\ UNCHANGED feedVars)
        BY <2>2 DEF HintNext
    <2>3. ASSUME NEW s \in Streams, Handler(s) PROVE UNCHANGED pipelineVars
        <3>1. \E st : Go(s, st)
            BY <2>3 DEF Handler, Open, Register, ReadPage, WriteChanges, WriteReady,
                WriteTerminal, FeedFails, WakeUp, Reconcile, End
        <3> QED
            BY <3>1 DEF Go, pipelineVars
    <2>4. ASSUME NEW q \in Subscribers, Deliver(q) PROVE HintNext
        BY <2>4 DEF Deliver, HintNext
    <2>5. ASSUME NEW q \in Subscribers, Crash(q) PROVE [HintNext]_pipelineVars
        <3>1. CASE subscribed[q]
            <4>1. LoseSubscription(q) /\ UNCHANGED feedVars
                BY <2>5, <3>1 DEF Crash, LoseSubscription
            <4> QED
                BY <4>1 DEF Pipeline, HintNext
        <3>2. CASE ~subscribed[q]
            <4>1. inbox[q] = {}
                BY <3>2 DEF InboxInv
            <4>2. subscribed' = subscribed
                BY <2>1, <2>5, <3>2 DEF Crash
            <4>3. inbox' = inbox
                BY <2>1, <2>5, <4>1 DEF Crash
            <4>4. missed' = missed
                BY <2>1, <2>5, <4>1 DEF Crash
            <4> QED
                BY <2>5, <4>2, <4>3, <4>4 DEF Crash, pipelineVars, hintVars
        <3> QED
            BY <3>1, <3>2
    <2>6. CASE UNCHANGED vars
        BY <2>6 DEF vars, pipelineVars
    <2> QED
        BY <2>2, <2>3, <2>4, <2>5, <2>6 DEF Next, vars
<1> QED
    BY <1>1, <1>2, StreamsKeepIInv, StreamsKeepInboxInv, PTL DEF Spec

\* The pipeline adds nothing to the feed it reads: what SyncService implements
\* is what the pipeline and the streams start from.
THEOREM PipelineRunsOnFeed == PipelineInit /\ [][HintNext]_pipelineVars => FeedSpec
<1>1. PipelineInit => FeedInit
    BY DEF PipelineInit
<1>2. [HintNext]_pipelineVars => [FeedNext]_feedVars
    BY DEF HintNext, Commit, pipelineVars
<1> QED
    BY <1>1, <1>2, PTL DEF FeedSpec
=============================================================================
