---------------------------- MODULE DataLemmas ----------------------------
(***************************************************************************)
(* Least and greatest members of sets of natural numbers: rows, jobs and   *)
(* subscriptions are numbered as they are made, and the code takes the     *)
(* oldest or the newest of those it finds.  Folds, and what is made of     *)
(* them: sums over finite sets, which a quota is, and sequences, which a   *)
(* program is.                                                             *)
(***************************************************************************)
EXTENDS Naturals, SequencesExt, FiniteSetTheorems, SequenceTheorems, WellFoundedInduction, TLAPS

\* A set of natural numbers has a least one.
LEMMA LeastNumber ==
  ASSUME NEW S \in SUBSET Nat, S # {}
  PROVE  \E x \in S : \A y \in S : x <= y
<1>1. PICK x \in S : \A y \in S : <<y, x>> \notin OpToRel(<, Nat)
      BY WFMin, NatLessThanWellFounded
<1>2. \A y \in S : ~(y < x)
      BY <1>1 DEF OpToRel
<1> QED BY <1>2

\* A set of natural numbers that none exceeds has a greatest one.
LEMMA GreatestNumber ==
  ASSUME NEW S \in SUBSET Nat, S # {}, NEW n \in Nat, \A y \in S : y <= n
  PROVE  \E x \in S : \A y \in S : y <= x
<1> DEFINE Rest == {n - y : y \in S}
<1>0. \A y \in S : y \in Nat /\ n - y \in Nat /\ n - y \in Rest
      OBVIOUS
<1>1. Rest \in SUBSET Nat /\ Rest # {}
      BY <1>0
<1>2. PICK d \in Rest : \A e \in Rest : d <= e
      BY <1>1, LeastNumber
<1>3. PICK x \in S : d = n - x
      OBVIOUS
<1>4. ASSUME NEW y \in S PROVE y <= x
  <2>1. y \in Nat /\ n - y \in Rest /\ x \in Nat
        BY <1>0
  <2>2. n - x <= n - y
        BY <1>2, <1>3, <2>1
  <2> QED BY <2>1, <2>2
<1> QED BY <1>4

-----------------------------------------------------------------------------
(* Folds.  The library unfolds a set in the order of its members that a    *)
(* CHOOSE takes out of what is left; a function on the subsets that does   *)
(* so exists, and what it keeps is shown from subset to subset.            *)

\* take is which member of a set goes first.
Takes(take, S) == \A s \in SUBSET S : s # {} => take[s] \in s

\* h folds the sets of P: step is given a member and what the rest folds to.
Folds(h, take, base, step, P) ==
  \A s \in P : h[s] = IF s = {} THEN base ELSE step[<<take[s], h[s \ {take[s]}]>>]

LEMMA TakeOne ==
  ASSUME NEW S, IsFiniteSet(S), NEW take, Takes(take, S), NEW s \in SUBSET S, s # {}
  PROVE  /\ take[s] \in s /\ s \ {take[s]} \in SUBSET S
         /\ IsFiniteSet(s) /\ Cardinality(s) \in Nat /\ Cardinality(s) # 0
         /\ Cardinality(s \ {take[s]}) = Cardinality(s) - 1
<1>1. take[s] \in s
      BY DEF Takes
<1>2. IsFiniteSet(s)
      BY FS_Subset
<1>3. Cardinality(s) \in Nat /\ Cardinality(s) # 0
      BY <1>2, FS_CardinalityType, FS_EmptySet
<1>4. Cardinality(s \ {take[s]}) = Cardinality(s) - 1
      BY <1>1, <1>2, FS_RemoveElement
<1> QED BY <1>1, <1>2, <1>3, <1>4

\* Subsets of up to n members.
UpTo(S, n) == {s \in SUBSET S : Cardinality(s) <= n}

LEMMA FoldsExist ==
  ASSUME NEW S, IsFiniteSet(S), NEW take, Takes(take, S),
         NEW Acc, NEW base \in Acc, NEW step \in [S \X Acc -> Acc]
  PROVE  \E h \in [SUBSET S -> Acc] : Folds(h, take, base, step, SUBSET S)
<1> DEFINE Good(n) == \E h \in [UpTo(S, n) -> Acc] : Folds(h, take, base, step, UpTo(S, n))
           Bad == {n \in Nat : ~Good(n)}
<1>1. Good(0)
  <2>1. \A s \in UpTo(S, 0) : s = {}
    <3> TAKE s \in UpTo(S, 0)
    <3>1. s # {} => Cardinality(s) \in Nat /\ Cardinality(s) # 0 /\ Cardinality(s) <= 0
          BY TakeOne DEF UpTo
    <3> QED BY <3>1
  <2> DEFINE g == [s \in UpTo(S, 0) |-> base]
  <2>2. g \in [UpTo(S, 0) -> Acc] /\ Folds(g, take, base, step, UpTo(S, 0))
        BY <2>1 DEF Folds
  <2> QED BY <2>2
<1>2. ASSUME NEW n \in Nat \ {0}, Good(n - 1) PROVE Good(n)
  <2>1. PICK h \in [UpTo(S, n - 1) -> Acc] : Folds(h, take, base, step, UpTo(S, n - 1))
        BY <1>2
  <2> DEFINE next(s) == IF s = {} THEN base ELSE step[<<take[s], h[s \ {take[s]}]>>]
             g == [s \in UpTo(S, n) |-> next(s)]
  <2>2. ASSUME NEW s \in UpTo(S, n), s # {}
        PROVE  /\ take[s] \in S /\ s \ {take[s]} \in UpTo(S, n - 1)
               /\ s \ {take[s]} \in UpTo(S, n)
    <3>1. s \in SUBSET S /\ Cardinality(s) <= n
          BY DEF UpTo
    <3>2. /\ take[s] \in s /\ s \ {take[s]} \in SUBSET S
          /\ Cardinality(s) \in Nat /\ Cardinality(s \ {take[s]}) = Cardinality(s) - 1
          BY <3>1, <2>2, TakeOne
    <3> QED BY <3>1, <3>2 DEF UpTo
  <2>3. \A s \in UpTo(S, n) : next(s) \in Acc
        BY <2>2
  <2>4. \A s \in UpTo(S, n - 1) : s \in UpTo(S, n) /\ next(s) = h[s]
    <3>1. ASSUME NEW s \in UpTo(S, n - 1) PROVE s \in UpTo(S, n)
      <4>1. IsFiniteSet(s) /\ s \in SUBSET S /\ Cardinality(s) <= n - 1
            BY FS_Subset DEF UpTo
      <4> QED BY <4>1, FS_CardinalityType DEF UpTo
    <3> QED BY <2>1, <3>1 DEF Folds
  <2>5. Folds(g, take, base, step, UpTo(S, n))
    <3> SUFFICES ASSUME NEW s \in UpTo(S, n)
                 PROVE  g[s] = IF s = {} THEN base ELSE step[<<take[s], g[s \ {take[s]}]>>]
        BY DEF Folds
    <3>1. s # {} => g[s \ {take[s]}] = h[s \ {take[s]}]
          BY <2>2, <2>4
    <3> QED BY <3>1
  <2>6. g \in [UpTo(S, n) -> Acc]
        BY <2>3
  <2> QED BY <2>5, <2>6
<1>3. Bad = {}
  <2> SUFFICES ASSUME Bad # {} PROVE FALSE
      OBVIOUS
  <2>1. PICK n \in Bad : \A m \in Bad : n <= m
        BY LeastNumber
  <2>2. n \in Nat /\ ~Good(n)
        OBVIOUS
  <2>3. n # 0
        BY <1>1, <2>2
  <2>4. n - 1 \in Nat /\ n - 1 \notin Bad
        BY <2>1, <2>2, <2>3
  <2>5. Good(n - 1)
        BY <2>4
  <2> QED BY <1>2, <2>2, <2>3, <2>5
<1>4. Cardinality(S) \in Nat /\ UpTo(S, Cardinality(S)) = SUBSET S
      BY FS_CardinalityType, FS_Subset DEF UpTo
<1>5. Good(Cardinality(S))
      BY <1>3, <1>4
<1> QED BY <1>4, <1>5

\* A set of subsets that holds the empty one, and with what is left of a subset the
\* subset itself, holds them all.
LEMMA SubsetInduction ==
  ASSUME NEW S, IsFiniteSet(S), NEW take, Takes(take, S), NEW P \in SUBSET SUBSET S, {} \in P,
         \A s \in SUBSET S : s # {} /\ s \ {take[s]} \in P => s \in P
  PROVE  P = SUBSET S
<1> DEFINE Bad == {Cardinality(s) : s \in (SUBSET S) \ P}
<1> SUFFICES ASSUME NEW t \in SUBSET S, t \notin P PROVE FALSE
    OBVIOUS
<1>1. \A s \in SUBSET S : Cardinality(s) \in Nat
      BY FS_Subset, FS_CardinalityType
<1>2. PICK n \in Bad : \A m \in Bad : n <= m
  <2>1. Bad \in SUBSET Nat /\ Bad # {}
        BY <1>1
  <2> HIDE DEF Bad
  <2> QED BY <2>1, LeastNumber
<1>3. PICK s \in (SUBSET S) \ P : n = Cardinality(s)
      OBVIOUS
<1>4. s \in SUBSET S /\ s \notin P /\ s # {}
      BY <1>3
<1> DEFINE r == s \ {take[s]}
<1>5. r \in SUBSET S /\ Cardinality(r) = n - 1 /\ n \in Nat /\ n # 0
      BY <1>3, <1>4, TakeOne
<1>6. r \in P
  <2>1. r \notin P => Cardinality(r) \in Bad
        BY <1>5
  <2> QED BY <2>1, <1>2, <1>5
<1> QED BY <1>4, <1>6

-----------------------------------------------------------------------------
(* Sums over finite sets.                                                  *)

Pick(s) == CHOOSE x \in s : TRUE
Picks(S) == [s \in SUBSET S |-> Pick(s)]

\* h adds up f over the sets of P.
AddsUp(h, f, P) ==
  \A s \in P : h[s] = IF s = {} THEN 0 ELSE f[Pick(s)] + h[s \ {Pick(s)}]

LEMMA PicksTake == \A S : Takes(Picks(S), S)
  BY DEF Takes, Picks, Pick

LEMMA SumsExist ==
  ASSUME NEW S, IsFiniteSet(S), NEW f \in [S -> Nat]
  PROVE  \E h \in [SUBSET S -> Nat] : AddsUp(h, f, SUBSET S)
<1> DEFINE step == [p \in S \X Nat |-> f[p[1]] + p[2]]
<1>1. step \in [S \X Nat -> Nat] /\ 0 \in Nat
      OBVIOUS
<1>2. PICK h \in [SUBSET S -> Nat] : Folds(h, Picks(S), 0, step, SUBSET S)
  <2> HIDE DEF step
  <2> QED BY <1>1, PicksTake, FoldsExist
<1>3. ASSUME NEW s \in SUBSET S
      PROVE  h[s] = IF s = {} THEN 0 ELSE f[Pick(s)] + h[s \ {Pick(s)}]
  <2>1. s # {} => Pick(s) \in S /\ Picks(S)[s] = Pick(s) /\ h[s \ {Pick(s)}] \in Nat
        BY DEF Pick, Picks
  <2> QED BY <1>2, <2>1 DEF Folds
<1> QED BY <1>3 DEF AddsUp

LEMMA SumsUnique ==
  ASSUME NEW S, IsFiniteSet(S), NEW f, NEW g, NEW h,
         AddsUp(g, f, SUBSET S), AddsUp(h, f, SUBSET S)
  PROVE  g[S] = h[S]
<1> DEFINE Same == {s \in SUBSET S : g[s] = h[s]}
<1>1. {} \in Same
      BY DEF AddsUp
<1>2. ASSUME NEW s \in SUBSET S, s # {}, s \ {Pick(s)} \in Same PROVE s \in Same
      BY <1>2 DEF AddsUp
<1>3. Same \in SUBSET SUBSET S
      OBVIOUS
<1>4. Same = SUBSET S
  <2>1. \A s \in SUBSET S : s # {} /\ s \ {Picks(S)[s]} \in Same => s \in Same
        BY <1>2 DEF Picks
  <2> HIDE DEF Same
  <2> QED BY <1>1, <1>3, <2>1, PicksTake, SubsetInduction
<1> QED BY <1>4

LEMMA SumAddsUp ==
  ASSUME NEW S, IsFiniteSet(S), NEW f \in [S -> Nat]
  PROVE  \E h \in [SUBSET S -> Nat] : AddsUp(h, f, SUBSET S) /\ SumFunction(f) = h[S]
<1> DEFINE Unfold(h) == h = [s \in SUBSET S |->
                          IF s = {} THEN 0 ELSE f[Pick(s)] + h[s \ {Pick(s)}]]
           sums == CHOOSE h : Unfold(h)
<1>1. PICK h \in [SUBSET S -> Nat] : AddsUp(h, f, SUBSET S)
      BY SumsExist
<1>2. Unfold(h)
      BY <1>1 DEF AddsUp
<1>3. Unfold(sums)
      BY <1>2
<1>4. AddsUp(sums, f, SUBSET S)
      BY <1>3 DEF AddsUp
<1>5. sums[S] = h[S]
      BY <1>1, <1>4, SumsUnique
<1>6. SumFunction(f) = sums[S]
      BY DEF SumFunction, SumFunctionOnSet, FoldFunctionOnSet, MapThenFoldSet, Pick
<1> QED BY <1>1, <1>5, <1>6

LEMMA SumNat ==
  ASSUME NEW S, IsFiniteSet(S), NEW f \in [S -> Nat]
  PROVE  SumFunction(f) \in Nat
<1>1. PICK h \in [SUBSET S -> Nat] : SumFunction(f) = h[S]
      BY SumAddsUp
<1> QED BY <1>1

\* A sum of numbers grows by what one of them grows.
LEMMA SumChange ==
  ASSUME NEW S, IsFiniteSet(S), NEW x \in S, NEW f \in [S -> Nat], NEW e \in [S -> Nat],
         \A y \in S \ {x} : e[y] = f[y]
  PROVE  SumFunction(e) + f[x] = SumFunction(f) + e[x]
<1>1. PICK h \in [SUBSET S -> Nat] : AddsUp(h, f, SUBSET S) /\ SumFunction(f) = h[S]
      BY SumAddsUp
<1>2. PICK g \in [SUBSET S -> Nat] : AddsUp(g, e, SUBSET S) /\ SumFunction(e) = g[S]
      BY SumAddsUp
<1> DEFINE Right ==
      {s \in SUBSET S : g[s] + (IF x \in s THEN f[x] ELSE 0) = h[s] + (IF x \in s THEN e[x] ELSE 0)}
<1>3. {} \in Right
      BY <1>1, <1>2 DEF AddsUp
<1>4. ASSUME NEW s \in SUBSET S, s # {}, s \ {Pick(s)} \in Right PROVE s \in Right
  <2> DEFINE r == s \ {Pick(s)}
  <2>1. Pick(s) \in s /\ Pick(s) \in S /\ r \in SUBSET S
        BY <1>4 DEF Pick
  <2>2. g[s] = e[Pick(s)] + g[r] /\ h[s] = f[Pick(s)] + h[r]
        BY <1>1, <1>2, <1>4 DEF AddsUp
  <2>3. /\ g[s] \in Nat /\ g[r] \in Nat /\ h[s] \in Nat /\ h[r] \in Nat
        /\ f[Pick(s)] \in Nat /\ f[x] \in Nat /\ e[x] \in Nat
        BY <2>1
  <2>4. g[r] + (IF x \in r THEN f[x] ELSE 0) = h[r] + (IF x \in r THEN e[x] ELSE 0)
        BY <1>4
  <2>5. CASE Pick(s) = x
        BY <2>1, <2>2, <2>3, <2>4, <2>5
  <2>6. CASE Pick(s) # x
    <3>1. e[Pick(s)] = f[Pick(s)] /\ (x \in r <=> x \in s)
          BY <2>1, <2>6
    <3> QED BY <2>2, <2>3, <2>4, <3>1
  <2> QED BY <2>5, <2>6
<1>5. Right \in SUBSET SUBSET S
      OBVIOUS
<1>6. Right = SUBSET S
  <2>1. \A s \in SUBSET S : s # {} /\ s \ {Picks(S)[s]} \in Right => s \in Right
        BY <1>4 DEF Picks
  <2> HIDE DEF Right
  <2> QED BY <1>3, <1>5, <2>1, PicksTake, SubsetInduction
<1>7. g[S] + f[x] = h[S] + e[x]
      BY <1>6
<1> QED BY <1>1, <1>2, <1>7

-----------------------------------------------------------------------------
(* Sequences.  A fold from the left takes the last place of what is left.  *)

LEMMA LastTaken ==
  ASSUME NEW n \in Nat
  PROVE  /\ IsFiniteSet(1..n) /\ 1..0 = {}
         /\ \A s \in SUBSET (1..n) : s # {} => Max(s) \in s
         /\ \A i \in 1..n : /\ Max(1..i) = i /\ (1..i) \ {i} = 1..(i - 1) /\ 1..i # {}
                            /\ 1..i \in SUBSET (1..n) /\ 1..(i - 1) \in SUBSET (1..n)
<1>1. IsFiniteSet(1..n)
      BY FS_Interval
<1>2. ASSUME NEW s \in SUBSET (1..n), s # {} PROVE Max(s) \in s
  <2>1. s \in SUBSET Nat /\ \A y \in s : y <= n
        OBVIOUS
  <2>2. \E x \in s : \A y \in s : y <= x
        BY <1>2, <2>1, GreatestNumber
  <2>3. \E x \in s : \A y \in s : x >= y
        BY <2>1, <2>2
  <2> QED BY <2>3 DEF Max
<1>3. ASSUME NEW i \in 1..n PROVE Max(1..i) = i
  <2>1. i \in 1..i /\ \A y \in 1..i : i >= y
        OBVIOUS
  <2>2. \A x \in 1..i : (\A y \in 1..i : x >= y) => x = i
        BY <2>1
  <2> QED BY <2>1, <2>2 DEF Max
<1>4. \A i \in 1..n : /\ (1..i) \ {i} = 1..(i - 1) /\ 1..i # {}
                      /\ 1..i \in SUBSET (1..n) /\ 1..(i - 1) \in SUBSET (1..n)
      OBVIOUS
<1> QED BY <1>1, <1>2, <1>3, <1>4

\* What holds of no step, and after a step when it held before, holds after all.
LEMMA PrefixInduction ==
  ASSUME NEW n \in Nat, NEW P \in SUBSET (0..n), 0 \in P, \A i \in 1..n : i - 1 \in P => i \in P
  PROVE  P = 0..n
<1> DEFINE Bad == (0..n) \ P
<1>1. Bad # {} => \E x \in Bad : \A y \in Bad : x <= y
  <2>1. Bad \in SUBSET Nat
        OBVIOUS
  <2> HIDE DEF Bad
  <2> QED BY <2>1, LeastNumber
<1>2. ASSUME NEW x \in Bad, \A y \in Bad : x <= y PROVE FALSE
  <2>1. x \in 1..n /\ x - 1 \in 0..n /\ ~(x <= x - 1)
        OBVIOUS
  <2>2. x - 1 \in P
        BY <1>2, <2>1
  <2> QED BY <2>1, <2>2
<1> QED BY <1>1, <1>2

\* h folds 1..n from the left: step is given a place and what the places before it fold to.
FoldsLeft(h, base, step, n) ==
  \A s \in SUBSET (1..n) : h[s] = IF s = {} THEN base ELSE step[<<Max(s), h[s \ {Max(s)}]>>]

LEMMA FoldLeftExists ==
  ASSUME NEW n \in Nat, NEW Acc, NEW base \in Acc, NEW step \in [(1..n) \X Acc -> Acc]
  PROVE  \E h \in [SUBSET (1..n) -> Acc] : FoldsLeft(h, base, step, n)
<1> DEFINE take == [s \in SUBSET (1..n) |-> Max(s)]
<1>1. Takes(take, 1..n) /\ IsFiniteSet(1..n)
      BY LastTaken DEF Takes
<1>2. \A s \in SUBSET (1..n) : take[s] = Max(s)
      OBVIOUS
<1>3. \E h \in [SUBSET (1..n) -> Acc] : Folds(h, take, base, step, SUBSET (1..n))
  <2> HIDE DEF take
  <2> QED BY <1>1, FoldsExist
<1> HIDE DEF take
<1> QED BY <1>2, <1>3 DEF Folds, FoldsLeft

\* The same, prefix by prefix.
Steps(g, base, step, n) == g[0] = base /\ \A i \in 1..n : g[i] = step[<<i, g[i - 1]>>]

LEMMA StepsExist ==
  ASSUME NEW n \in Nat, NEW Acc, NEW base \in Acc, NEW step \in [(1..n) \X Acc -> Acc]
  PROVE  \E g \in [0..n -> Acc] : Steps(g, base, step, n)
<1>1. PICK h \in [SUBSET (1..n) -> Acc] : FoldsLeft(h, base, step, n)
      BY FoldLeftExists
<1> DEFINE g == [i \in 0..n |-> h[1..i]]
<1>2. \A i \in 0..n : 1..i \in SUBSET (1..n)
      OBVIOUS
<1>3. g \in [0..n -> Acc]
      BY <1>2
<1>4. g[0] = base
  <2>1. 1..0 = {} /\ 0 \in 0..n
        OBVIOUS
  <2> QED BY <1>1, <2>1 DEF FoldsLeft
<1>5. ASSUME NEW i \in 1..n PROVE g[i] = step[<<i, g[i - 1]>>]
  <2>1. /\ Max(1..i) = i /\ (1..i) \ {i} = 1..(i - 1) /\ 1..i # {} /\ 1..i \in SUBSET (1..n)
        BY LastTaken
  <2>2. h[1..i] = step[<<i, h[1..(i - 1)]>>]
        BY <1>1, <2>1 DEF FoldsLeft
  <2>3. i \in 0..n /\ i - 1 \in 0..n
        OBVIOUS
  <2> QED BY <2>2, <2>3
<1> QED BY <1>3, <1>4, <1>5 DEF Steps

\* What a fold unfolds to, prefix by prefix.
Unfolds(iter, base, step, Acc, n) ==
  /\ iter[{}] = base
  /\ \A i \in 1..n : iter[1..(i - 1)] \in Acc => iter[1..i] = step[<<i, iter[1..(i - 1)]>>]

Unrolls(g, iter, base, step, n) == Steps(g, base, step, n) /\ iter[1..n] = g[n]

LEMMA FoldSteps ==
  ASSUME NEW n \in Nat, NEW Acc, NEW base \in Acc, NEW step \in [(1..n) \X Acc -> Acc],
         NEW iter, Unfolds(iter, base, step, Acc, n)
  PROVE  \E g \in [0..n -> Acc] : Unrolls(g, iter, base, step, n)
<1> DEFINE Typed == {i \in 0..n : iter[1..i] \in Acc}
           g == [i \in 0..n |-> iter[1..i]]
<1>1. Typed = 0..n
  <2>1. 1..0 = {} /\ 0 \in 0..n
        OBVIOUS
  <2>2. Typed \in SUBSET (0..n) /\ 0 \in Typed
        BY <2>1 DEF Unfolds
  <2>3. ASSUME NEW i \in 1..n, i - 1 \in Typed PROVE i \in Typed
    <3>1. iter[1..(i - 1)] \in Acc /\ i \in 0..n
          BY <2>3
    <3>2. <<i, iter[1..(i - 1)]>> \in (1..n) \X Acc
          BY <3>1
    <3>3. iter[1..i] \in Acc
          BY <3>1, <3>2 DEF Unfolds
    <3> QED BY <3>1, <3>3
  <2> HIDE DEF Typed
  <2> QED BY <2>2, <2>3, PrefixInduction
<1>2. g \in [0..n -> Acc]
      BY <1>1
<1>3. g[0] = base
  <2>1. 1..0 = {} /\ 0 \in 0..n
        OBVIOUS
  <2> QED BY <2>1 DEF Unfolds
<1>4. ASSUME NEW i \in 1..n PROVE g[i] = step[<<i, g[i - 1]>>]
  <2>1. i \in 0..n /\ i - 1 \in 0..n /\ i - 1 \in Typed
        BY <1>1
  <2> QED BY <2>1 DEF Unfolds
<1>5. n \in 0..n
      OBVIOUS
<1> QED BY <1>2, <1>3, <1>4, <1>5 DEF Steps, Unrolls

\* One sequence after another holds what both hold, one entry more holds it too.
LEMMA AppendedSets ==
  ASSUME NEW S, NEW s \in Seq(S), NEW t \in Seq(S)
  PROVE  /\ ToSet(s \o t) = ToSet(s) \cup ToSet(t)
         /\ \A x \in S : ToSet(Append(s, x)) = ToSet(s) \cup {x}
<1>1. /\ DOMAIN (s \o t) = 1..(Len(s) + Len(t)) /\ DOMAIN s = 1..Len(s) /\ DOMAIN t = 1..Len(t)
      /\ Len(s) \in Nat /\ Len(t) \in Nat
      OBVIOUS
<1>2. \A i \in 1..Len(s) : (s \o t)[i] = s[i]
      OBVIOUS
<1>3. \A i \in 1..Len(t) : (s \o t)[Len(s) + i] = t[i] /\ Len(s) + i \in 1..(Len(s) + Len(t))
      OBVIOUS
<1>4. \A i \in 1..(Len(s) + Len(t)) :
         \/ i \in 1..Len(s) /\ (s \o t)[i] = s[i]
         \/ i - Len(s) \in 1..Len(t) /\ (s \o t)[i] = t[i - Len(s)]
      OBVIOUS
<1>5. ASSUME NEW y PROVE y \in ToSet(s \o t) <=> y \in ToSet(s) \/ y \in ToSet(t)
  <2>1. ASSUME y \in ToSet(s) PROVE y \in ToSet(s \o t)
    <3>1. PICK i \in 1..Len(s) : s[i] = y
          BY <1>1, <2>1 DEF ToSet
    <3>2. i \in DOMAIN (s \o t) /\ (s \o t)[i] = y
          BY <1>1, <1>2, <3>1
    <3> QED BY <3>2 DEF ToSet
  <2>2. ASSUME y \in ToSet(t) PROVE y \in ToSet(s \o t)
    <3>1. PICK i \in 1..Len(t) : t[i] = y
          BY <1>1, <2>2 DEF ToSet
    <3>2. Len(s) + i \in DOMAIN (s \o t) /\ (s \o t)[Len(s) + i] = y
          BY <1>1, <1>3, <3>1
    <3> QED BY <3>2 DEF ToSet
  <2>3. ASSUME y \in ToSet(s \o t) PROVE y \in ToSet(s) \/ y \in ToSet(t)
    <3>1. PICK i \in 1..(Len(s) + Len(t)) : (s \o t)[i] = y
          BY <1>1, <2>3 DEF ToSet
    <3> QED BY <1>1, <1>4, <3>1 DEF ToSet
  <2> QED BY <2>1, <2>2, <2>3
<1>6. ASSUME NEW x \in S PROVE ToSet(Append(s, x)) = ToSet(s) \cup {x}
  <2>1. /\ DOMAIN Append(s, x) = 1..(Len(s) + 1) /\ Append(s, x)[Len(s) + 1] = x
        /\ \A i \in 1..Len(s) : Append(s, x)[i] = s[i]
        OBVIOUS
  <2>2. \A i \in 1..(Len(s) + 1) : i \in 1..Len(s) \/ i = Len(s) + 1
        BY <1>1
  <2>3. \A y : y \in ToSet(Append(s, x)) <=> y \in ToSet(s) \/ y = x
        BY <1>1, <2>1, <2>2 DEF ToSet
  <2> QED BY <2>3
<1> QED BY <1>5, <1>6

\* FlattenSeq puts one sequence after the other.
LEMMA FlattenSteps ==
  ASSUME NEW S, NEW ss \in Seq(Seq(S))
  PROVE  \E g \in [0..Len(ss) -> Seq(S)] :
           /\ g[0] = <<>> /\ FlattenSeq(ss) = g[Len(ss)]
           /\ \A i \in 1..Len(ss) : g[i] = g[i - 1] \o ss[i]
<1> DEFINE n == Len(ss)
           step == [p \in (1..n) \X Seq(S) |-> p[2] \o ss[p[1]]]
<1>1. n \in Nat /\ \A i \in 1..n : ss[i] \in Seq(S)
      OBVIOUS
<1>2. step \in [(1..n) \X Seq(S) -> Seq(S)] /\ <<>> \in Seq(S)
      BY <1>1
<1>3. \A i \in 1..n, a \in Seq(S) : step[<<i, a>>] = a \o ss[i]
      OBVIOUS
<1>4. PICK g \in [0..n -> Seq(S)] : Steps(g, <<>>, step, n)
  <2> HIDE DEF step, n
  <2> QED BY <1>1, <1>2, StepsExist
<1>5. g[0] = <<>> /\ \A i \in 1..n : g[i] = g[i - 1] \o ss[i]
  <2> HIDE DEF step, n
  <2>1. \A i \in 1..n : g[i - 1] \in Seq(S)
        BY <1>1
  <2> QED BY <1>3, <1>4, <2>1 DEF Steps
<1>6. FlattenSeq(ss) = g[n]
  <2>1. CASE n = 0
        BY <1>1, <1>5, <2>1 DEF FlattenSeq
  <2>2. CASE n # 0
    <3> DEFINE Unfold(f) == f = [i \in 1..n |-> IF i = 1 THEN ss[i] ELSE f[i - 1] \o ss[i]]
               flat == CHOOSE f : Unfold(f)
               first == [i \in 1..n |-> g[i]]
    <3>1. FlattenSeq(ss) = flat[n]
          BY <2>2 DEF FlattenSeq
    <3> HIDE DEF n, step
    <3>2. g[1] = ss[1]
      <4>1. 1 \in 1..n /\ 1 - 1 = 0
            BY <1>1, <2>2
      <4>2. g[1] = <<>> \o ss[1]
            BY <1>5, <4>1
      <4>3. ss[1] \in Seq(S)
            BY <1>1, <4>1
      <4> QED BY <4>2, <4>3, ConcatEmptySeq
    <3>3. Unfold(first)
      <4>1. \A i \in 1..n : i # 1 => i - 1 \in 1..n
            BY <1>1
      <4> QED BY <1>5, <3>2, <4>1
    <3>4. Unfold(flat)
          BY <3>3
    <3> HIDE DEF flat
    <3>5. \A i \in 1..n : flat[i] = IF i = 1 THEN ss[i] ELSE flat[i - 1] \o ss[i]
          BY <3>4
    <3> DEFINE Same == {i \in 0..n : i # 0 => flat[i] = g[i]}
    <3>6. Same \in SUBSET (0..n) /\ 0 \in Same
          BY <1>1
    <3>7. ASSUME NEW i \in 1..n, i - 1 \in Same PROVE i \in Same
      <4>1. i \in 0..n /\ (i # 1 => flat[i - 1] = g[i - 1])
            BY <1>1, <3>7
      <4>2. flat[i] = g[i]
            BY <1>5, <3>2, <3>5, <4>1
      <4> QED BY <4>1, <4>2
    <3>8. Same = 0..n
      <4> HIDE DEF Same
      <4> QED BY <1>1, <3>6, <3>7, PrefixInduction
    <3>9. n \in 0..n
          BY <1>1
    <3> QED BY <2>2, <3>1, <3>8, <3>9
  <2> QED BY <2>1, <2>2
<1> QED BY <1>4, <1>5, <1>6

\* What is in the sequences is in the flattened one.
LEMMA FlattenFacts ==
  ASSUME NEW S, NEW ss \in Seq(Seq(S))
  PROVE  /\ FlattenSeq(ss) \in Seq(S)
         /\ ToSet(FlattenSeq(ss)) = UNION {ToSet(ss[i]) : i \in 1..Len(ss)}
<1>1. PICK g \in [0..Len(ss) -> Seq(S)] :
         /\ g[0] = <<>> /\ FlattenSeq(ss) = g[Len(ss)]
         /\ \A i \in 1..Len(ss) : g[i] = g[i - 1] \o ss[i]
      BY FlattenSteps
<1> DEFINE n == Len(ss)
           Right == {i \in 0..n : ToSet(g[i]) = UNION {ToSet(ss[j]) : j \in 1..i}}
<1>2. n \in Nat /\ 0 \in 0..n /\ n \in 0..n
      OBVIOUS
<1>3. 0 \in Right
      BY <1>1, <1>2 DEF ToSet
<1>4. ASSUME NEW i \in 1..n, i - 1 \in Right PROVE i \in Right
  <2>0. i \in 0..n /\ i - 1 \in 0..n
        BY <1>2
  <2>1. g[i - 1] \in Seq(S) /\ ss[i] \in Seq(S)
    <3>1. g[i - 1] \in Seq(S)
          BY <2>0
    <3>2. ss[i] \in Seq(S)
          OBVIOUS
    <3> QED BY <3>1, <3>2
  <2>2. ToSet(g[i]) = ToSet(g[i - 1]) \cup ToSet(ss[i])
    <3>1. ToSet(g[i - 1] \o ss[i]) = ToSet(g[i - 1]) \cup ToSet(ss[i])
          BY <2>1, AppendedSets
    <3>2. g[i] = g[i - 1] \o ss[i]
          BY <1>1
    <3> QED BY <3>1, <3>2
  <2>3. 1..i = (1..(i - 1)) \cup {i}
        OBVIOUS
  <2>4. UNION {ToSet(ss[j]) : j \in 1..i} = (UNION {ToSet(ss[j]) : j \in 1..(i - 1)}) \cup ToSet(ss[i])
        BY <2>3
  <2>5. ToSet(g[i - 1]) = UNION {ToSet(ss[j]) : j \in 1..(i - 1)}
        BY <1>4
  <2>6. ToSet(g[i]) = UNION {ToSet(ss[j]) : j \in 1..i}
        BY <2>2, <2>4, <2>5
  <2> QED BY <2>0, <2>6
<1>5. Right = 0..n
  <2>1. Right \in SUBSET (0..n)
        OBVIOUS
  <2> HIDE DEF Right, n
  <2> QED BY <1>2, <1>3, <1>4, <2>1, PrefixInduction
<1> QED BY <1>1, <1>2, <1>5

\* A sequence is of what it holds.
LEMMA SeqOfSet ==
  ASSUME NEW S, NEW s \in Seq(S), NEW T, ToSet(s) \subseteq T
  PROVE  s \in Seq(T)
<1>1. Len(s) \in Nat /\ DOMAIN s = 1..Len(s) /\ s = [i \in 1..Len(s) |-> s[i]]
      OBVIOUS
<1>2. \A i \in 1..Len(s) : s[i] \in T
      BY <1>1 DEF ToSet
<1> QED BY <1>1, <1>2

\* The entries at the places in P, and the entries in T.
Chosen(s, P) == FlattenSeq([i \in DOMAIN s |-> IF i \in P THEN <<s[i]>> ELSE <<>>])
Filtered(s, T) == FlattenSeq([i \in DOMAIN s |-> IF s[i] \in T THEN <<s[i]>> ELSE <<>>])

LEMMA ChosenFacts ==
  ASSUME NEW S, NEW s \in Seq(S), NEW P \in SUBSET DOMAIN s
  PROVE  Chosen(s, P) \in Seq(S) /\ ToSet(Chosen(s, P)) = {s[i] : i \in P}
<1> DEFINE n == Len(s)
           ss == [i \in DOMAIN s |-> IF i \in P THEN <<s[i]>> ELSE <<>>]
<1>1. n \in Nat /\ DOMAIN s = 1..n /\ P \in SUBSET (1..n) /\ \A i \in 1..n : s[i] \in S
      OBVIOUS
<1> HIDE DEF n
<1>2. \A i \in 1..n : /\ i \in P => ss[i] = <<s[i]>> /\ ss[i] \in Seq(S)
                      /\ i \notin P => ss[i] = <<>> /\ ss[i] \in Seq(S)
      BY <1>1
<1>3. DOMAIN ss = 1..n /\ ss = [i \in 1..n |-> ss[i]]
      BY <1>1
<1>4. Chosen(s, P) = FlattenSeq(ss)
      BY DEF Chosen
<1> HIDE DEF ss
<1>5. ss \in Seq(Seq(S)) /\ Len(ss) = n
      BY <1>1, <1>2, <1>3
<1>6. \A i \in 1..n : ToSet(ss[i]) = IF i \in P THEN {s[i]} ELSE {}
  <2>1. \A x : ToSet(<<x>>) = {x}
        BY DEF ToSet
  <2>2. ToSet(<<>>) = {}
        BY DEF ToSet
  <2> QED BY <1>2, <2>1, <2>2
<1>7. ToSet(FlattenSeq(ss)) = UNION {ToSet(ss[i]) : i \in 1..n} /\ FlattenSeq(ss) \in Seq(S)
      BY <1>5, FlattenFacts
<1>8. ASSUME NEW y PROVE y \in UNION {ToSet(ss[i]) : i \in 1..n} <=> \E i \in P : y = s[i]
  <2>1. y \in UNION {ToSet(ss[i]) : i \in 1..n} <=> \E i \in 1..n : y \in ToSet(ss[i])
        OBVIOUS
  <2>2. (\E i \in 1..n : y \in ToSet(ss[i])) <=> \E i \in P : y = s[i]
        BY <1>1, <1>6
  <2> QED BY <2>1, <2>2
<1>9. UNION {ToSet(ss[i]) : i \in 1..n} = {s[i] : i \in P}
      BY <1>8
<1> QED BY <1>4, <1>7, <1>9

LEMMA FilterFacts ==
  ASSUME NEW S, NEW s \in Seq(S), NEW T
  PROVE  Filtered(s, T) \in Seq(S \cap T) /\ ToSet(Filtered(s, T)) = ToSet(s) \cap T
<1> DEFINE P == {i \in DOMAIN s : s[i] \in T}
<1>1. P \in SUBSET DOMAIN s /\ Filtered(s, T) = Chosen(s, P)
  <2>1. [i \in DOMAIN s |-> IF s[i] \in T THEN <<s[i]>> ELSE <<>>]
          = [i \in DOMAIN s |-> IF i \in P THEN <<s[i]>> ELSE <<>>]
        OBVIOUS
  <2> QED BY <2>1 DEF Filtered, Chosen
<1>2. {s[i] : i \in P} = ToSet(s) \cap T /\ ToSet(s) \subseteq S
      BY DEF ToSet
<1> HIDE DEF P
<1>3. Chosen(s, P) \in Seq(S) /\ ToSet(Chosen(s, P)) = {s[i] : i \in P}
      BY <1>1, ChosenFacts
<1>4. Chosen(s, P) \in Seq(S \cap T)
      BY <1>2, <1>3, SeqOfSet
<1> QED BY <1>1, <1>2, <1>3, <1>4

\* An image of a finite set is finite.
LEMMA FiniteImage ==
  ASSUME NEW S, IsFiniteSet(S), NEW f, DOMAIN f = S
  PROVE  IsFiniteSet({f[x] : x \in S})
<1> DEFINE T == {f[x] : x \in S}
           g == [x \in S |-> f[x]]
<1>1. g \in Surjection(S, T)
      BY DEF Surjection
<1> QED BY <1>1, FS_Surjection

LEMMA FinitePair ==
  ASSUME NEW x, NEW y
  PROVE  IsFiniteSet({x, y})
<1>1. IsFiniteSet({x} \cup {y})
      BY FS_Singleton, FS_Union
<1>2. {x, y} = {x} \cup {y}
      OBVIOUS
<1> QED BY <1>1, <1>2

LEMMA FiniteToSet ==
  ASSUME NEW S, NEW s \in Seq(S)
  PROVE  IsFiniteSet(ToSet(s))
<1>1. DOMAIN s = 1..Len(s) /\ Len(s) \in Nat /\ ToSet(s) = {s[i] : i \in 1..Len(s)}
      BY DEF ToSet
<1>2. IsFiniteSet(1..Len(s))
      BY <1>1, FS_Interval
<1> QED BY <1>1, <1>2, FiniteImage

\* SetToSeq lists every member of a finite set.
LEMMA SetToSeqFacts ==
  ASSUME NEW S, IsFiniteSet(S)
  PROVE  SetToSeq(S) \in Seq(S) /\ ToSet(SetToSeq(S)) = S
<1> DEFINE n == Cardinality(S)
           s == SetToSeq(S)
<1>1. n \in Nat /\ ExistsBijection(1..n, S)
      BY FS_CardinalityType
<1>2. s \in [1..n -> S] /\ IsInjective(s)
  <2>1. \E f \in [1..n -> S] : IsInjective(f)
        BY <1>1 DEF ExistsBijection, Bijection, Injection
  <2> QED BY <2>1 DEF SetToSeq
<1>3. s \in Injection(1..n, S)
      BY <1>2 DEF Injection
<1>4. IsFiniteSet(1..n) /\ Cardinality(1..n) = n
      BY <1>1, FS_Interval
<1>5. s \in Surjection(1..n, S)
      BY <1>3, <1>4, FS_Injection
<1>6. \A x \in S : \E i \in 1..n : s[i] = x
      BY <1>5 DEF Surjection
<1> HIDE DEF s
<1>7. DOMAIN s = 1..n
      BY <1>2
<1>8. s \in Seq(S)
      BY <1>1, <1>2
<1>9. ToSet(s) = S
      BY <1>2, <1>6, <1>7 DEF ToSet
<1> QED BY <1>8, <1>9 DEF s
=============================================================================
