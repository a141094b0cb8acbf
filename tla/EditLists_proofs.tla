-------------------------- MODULE EditLists_proofs --------------------------
(***************************************************************************)
(* Proofs about the files that show a review's decisions (EditLists): for  *)
(* any clips, any speech that is heard, any review and any plans.          *)
(***************************************************************************)
EXTENDS EditLists, DataLemmas

-----------------------------------------------------------------------------
\* An entry more, in its place.
LEMMA PlaceFacts ==
  ASSUME NEW S, NEW out \in Seq(S), NEW x \in S, NEW rank
  PROVE  Place(out, x, rank) \in Seq(S) /\ ToSet(Place(out, x, rank)) = ToSet(out) \cup {x}
<1> DEFINE before == {i \in DOMAIN out : rank[out[i]] <= rank[x]}
           k == Cardinality(before)
           first == SubSeq(out, 1, k)
           last == SubSeq(out, k + 1, Len(out))
<1>1. k \in Nat /\ k <= Len(out) /\ Len(out) \in Nat
  <2>1. DOMAIN out = 1..Len(out) /\ Len(out) \in Nat
        OBVIOUS
  <2>2. IsFiniteSet(1..Len(out)) /\ Cardinality(1..Len(out)) = Len(out)
        BY <2>1, FS_Interval
  <2>3. before \in SUBSET (1..Len(out))
        BY <2>1
  <2> HIDE DEF before
  <2>4. IsFiniteSet(before) /\ Cardinality(before) <= Len(out)
        BY <2>2, <2>3, FS_Subset
  <2>5. Cardinality(before) \in Nat
        BY <2>4, FS_CardinalityType
  <2> QED BY <2>1, <2>4, <2>5
<1>2. Place(out, x, rank) = first \o <<x>> \o last
  <2>1. (1 + k) - 1 = k /\ 1 + k = k + 1
        BY <1>1
  <2> HIDE DEF k
  <2>2. Place(out, x, rank) = SubSeq(out, 1, (1 + k) - 1) \o <<x>> \o SubSeq(out, 1 + k, Len(out))
        BY DEF Place, InsertAt, k, before
  <2> QED BY <2>1, <2>2
<1> HIDE DEF k, before
<1>3. first \in Seq(S) /\ last \in Seq(S) /\ <<x>> \in Seq(S)
      BY <1>1
<1>4. first \o last = out
  <2>1. SubSeq(out, 1, Len(out)) = out
        BY SubSeqFull
  <2>2. 1 \in 1..(Len(out) + 1) /\ k \in (1 - 1)..Len(out) /\ Len(out) \in k..Len(out)
        BY <1>1
  <2> QED BY <2>1, <2>2, ConcatAdjacentSubSeq
<1> HIDE DEF first, last
<1>5. ToSet(out) = ToSet(first) \cup ToSet(last)
  <2>1. ToSet(first \o last) = ToSet(first) \cup ToSet(last)
        BY <1>3, AppendedSets
  <2> QED BY <1>4, <2>1
<1> DEFINE one == <<x>>
<1>6. one \in Seq(S) /\ ToSet(one) = {x}
      BY <1>3 DEF ToSet
<1> HIDE DEF one
<1>7. first \o one \in Seq(S) /\ ToSet(first \o one) = ToSet(first) \cup {x}
  <2>1. ToSet(first \o one) = ToSet(first) \cup ToSet(one)
        BY <1>3, <1>6, AppendedSets
  <2> QED BY <1>3, <1>6, <2>1
<1>8. ToSet((first \o one) \o last) = (ToSet(first) \cup {x}) \cup ToSet(last)
  <2> DEFINE front == first \o one
  <2>1. front \in Seq(S) /\ last \in Seq(S)
        BY <1>3, <1>7
  <2>2. ToSet(front \o last) = ToSet(front) \cup ToSet(last)
    <3> HIDE DEF front
    <3> QED BY <2>1, AppendedSets
  <2> QED BY <1>7, <2>2
<1>9. (first \o one) \o last \in Seq(S)
      BY <1>3, <1>7
<1> QED BY <1>2, <1>5, <1>8, <1>9 DEF one

LEMMA MergeType ==
  ASSUME NEW out \in Seq(Stretch), NEW r \in Stretch
  PROVE  Merge(out, r) \in Seq(Stretch)
<1>1. CASE out # <<>> /\ r.from <= Last(out).to
  <2> DEFINE n == Len(out)
             e == [out[n] EXCEPT !.to = Larger(out[n].to, r.to)]
  <2>1. n \in 1..n /\ out[n] \in Stretch
        BY <1>1
  <2>2. e \in Stretch
        BY <2>1 DEF Stretch, Forward, Larger
  <2>3. Merge(out, r) = [out EXCEPT ![n] = e]
        BY <1>1 DEF Merge
  <2> HIDE DEF e
  <2> QED BY <2>1, <2>2, <2>3
<1>2. CASE ~(out # <<>> /\ r.from <= Last(out).to)
      BY <1>2 DEF Merge
<1> QED BY <1>1, <1>2

LEMMA PackType ==
  ASSUME NEW out \in Seq(Segment), NEW e \in Segment
  PROVE  Pack(out, e) \in Seq(Segment)
<1> DEFINE at == IF out = <<>> THEN 0 ELSE Last(out).at + Last(out).to - Last(out).from
           packed == [e EXCEPT !.new = FALSE, !.at = at]
<1>1. at \in Int
  <2>1. CASE out # <<>>
    <3>1. Last(out) \in Segment
          BY <2>1 DEF Last
    <3> QED BY <2>1, <3>1 DEF Segment, Forward
  <2> QED BY <2>1
<1>2. packed \in Segment
  <2> HIDE DEF at
  <2> QED BY <1>1 DEF Segment, Forward
<1>3. Pack(out, e) = Append(out, packed)
      BY DEF Pack
<1> HIDE DEF packed
<1> QED BY <1>2, <1>3

LEMMA JoinType ==
  ASSUME NEW out \in Seq(Segment), NEW e \in Segment
  PROVE  Join(out, e) \in Seq(Segment)
<1>1. CASE out # <<>> /\ Last(out).clip = e.clip /\ Last(out).to = e.from
  <2> DEFINE n == Len(out)
             f == [out[n] EXCEPT !.to = e.to]
  <2>1. n \in 1..n /\ out[n] \in Segment /\ Last(out) = out[n]
        BY <1>1 DEF Last
  <2>2. f \in Segment
    <3>1. out[n].from <= out[n].to /\ out[n].to = e.from /\ e.from <= e.to
          BY <1>1, <2>1 DEF Segment, Forward
    <3>2. out[n].from <= e.to
          BY <2>1, <3>1 DEF Segment, Forward
    <3> QED BY <2>1, <3>2 DEF Segment, Forward
  <2>3. Join(out, e) = [out EXCEPT ![n] = f]
        BY <1>1 DEF Join
  <2> HIDE DEF f
  <2> QED BY <2>1, <2>2, <2>3
<1>2. CASE ~(out # <<>> /\ Last(out).clip = e.clip /\ Last(out).to = e.from)
      BY <1>2 DEF Join
<1> QED BY <1>1, <1>2

\* A sort is its entries put in their place one after the other.
SortedBy(g, s, rank) ==
  /\ g[0] = <<>> /\ Sorted(s, rank) = g[Len(s)]
  /\ \A i \in 1..Len(s) : g[i] = Place(g[i - 1], s[i], rank)

LEMMA SortedSteps ==
  ASSUME NEW S, NEW s \in Seq(S), NEW rank
  PROVE  \E g \in [0..Len(s) -> Seq(S)] :
           SortedBy(g, s, rank)
<1> DEFINE n == Len(s)
           Acc == Seq(S)
           step == [p \in (1..n) \X Acc |-> Place(p[2], s[p[1]], rank)]
           Unfold(h) == h = [t \in SUBSET DOMAIN s |->
                               IF t = {} THEN <<>> ELSE Place(h[t \ {Max(t)}], s[Max(t)], rank)]
           iter == CHOOSE h : Unfold(h)
<1>1. n \in Nat /\ DOMAIN s = 1..n /\ <<>> \in Acc /\ \A i \in 1..n : s[i] \in S
      OBVIOUS
<1>2. Sorted(s, rank) = iter[DOMAIN s]
      BY DEF Sorted, FoldLeft, MapThenFoldSet
<1>3. step \in [(1..n) \X Acc -> Acc]
  <2>1. \A p \in (1..n) \X Acc : Place(p[2], s[p[1]], rank) \in Acc
        BY <1>1, PlaceFacts
  <2> QED BY <2>1
<1>4. \A i \in 1..n, a \in Acc : step[<<i, a>>] = Place(a, s[i], rank)
      OBVIOUS
<1> HIDE DEF n, Acc, step
<1>5. PICK h \in [SUBSET (1..n) -> Acc] : FoldsLeft(h, <<>>, step, n)
      BY <1>1, <1>3, FoldLeftExists
<1>6. Unfold(h)
  <2>1. ASSUME NEW t \in SUBSET (1..n), t # {}
        PROVE  h[t] = Place(h[t \ {Max(t)}], s[Max(t)], rank)
    <3>1. Max(t) \in 1..n /\ h[t \ {Max(t)}] \in Acc
          BY <1>1, <2>1, LastTaken
    <3>2. h[t] = step[<<Max(t), h[t \ {Max(t)}]>>]
          BY <1>5, <2>1 DEF FoldsLeft
    <3> QED BY <1>4, <3>1, <3>2
  <2>2. h[{}] = <<>>
        BY <1>5 DEF FoldsLeft
  <2> QED BY <1>1, <2>1, <2>2
<1>7. Unfold(iter)
      BY <1>6
<1> HIDE DEF iter
<1>8. Unfolds(iter, <<>>, step, Acc, n)
  <2>1. iter[{}] = <<>>
        BY <1>1, <1>7
  <2>2. ASSUME NEW i \in 1..n, iter[1..(i - 1)] \in Acc
        PROVE  iter[1..i] = step[<<i, iter[1..(i - 1)]>>]
    <3>1. 1..i \in SUBSET (1..n) /\ 1..i # {} /\ Max(1..i) = i /\ (1..i) \ {i} = 1..(i - 1)
          BY <1>1, LastTaken
    <3>2. iter[1..i] = Place(iter[1..(i - 1)], s[i], rank)
          BY <1>1, <1>7, <3>1
    <3> QED BY <1>4, <2>2, <3>2
  <2> QED BY <2>1, <2>2 DEF Unfolds
<1>9. PICK g \in [0..n -> Acc] : Unrolls(g, iter, <<>>, step, n)
      BY <1>1, <1>3, <1>8, FoldSteps
<1>10. ASSUME NEW i \in 1..n PROVE g[i] = Place(g[i - 1], s[i], rank)
  <2>1. g[i - 1] \in Acc
        BY <1>1
  <2> QED BY <1>4, <1>9, <2>1 DEF Steps, Unrolls
<1> QED BY <1>1, <1>2, <1>9, <1>10 DEF n, Acc, Steps, Unrolls, SortedBy

\* A merge, stretch by stretch.
LEMMA MergeSteps ==
  ASSUME NEW s \in Seq(Stretch)
  PROVE  \E g \in [0..Len(s) -> Seq(Stretch)] :
           /\ g[0] = <<>> /\ FoldLeft(Merge, <<>>, s) = g[Len(s)]
           /\ \A i \in 1..Len(s) : g[i] = Merge(g[i - 1], s[i])
<1> DEFINE n == Len(s)
           Acc == Seq(Stretch)
           step == [p \in (1..n) \X Acc |-> Merge(p[2], s[p[1]])]
           Unfold(h) == h = [t \in SUBSET DOMAIN s |->
                               IF t = {} THEN <<>> ELSE Merge(h[t \ {Max(t)}], s[Max(t)])]
           iter == CHOOSE h : Unfold(h)
<1>1. n \in Nat /\ DOMAIN s = 1..n /\ <<>> \in Acc /\ \A i \in 1..n : s[i] \in Stretch
      OBVIOUS
<1>2. FoldLeft(Merge, <<>>, s) = iter[DOMAIN s]
      BY DEF FoldLeft, MapThenFoldSet
<1>3. step \in [(1..n) \X Acc -> Acc]
  <2>1. \A p \in (1..n) \X Acc : Merge(p[2], s[p[1]]) \in Acc
        BY <1>1, MergeType
  <2> QED BY <2>1
<1>4. \A i \in 1..n, a \in Acc : step[<<i, a>>] = Merge(a, s[i])
      OBVIOUS
<1> HIDE DEF n, Acc, step
<1>5. PICK h \in [SUBSET (1..n) -> Acc] : FoldsLeft(h, <<>>, step, n)
      BY <1>1, <1>3, FoldLeftExists
<1>6. Unfold(h)
  <2>1. ASSUME NEW t \in SUBSET (1..n), t # {}
        PROVE  h[t] = Merge(h[t \ {Max(t)}], s[Max(t)])
    <3>1. Max(t) \in 1..n /\ h[t \ {Max(t)}] \in Acc
          BY <1>1, <2>1, LastTaken
    <3>2. h[t] = step[<<Max(t), h[t \ {Max(t)}]>>]
          BY <1>5, <2>1 DEF FoldsLeft
    <3> QED BY <1>4, <3>1, <3>2
  <2>2. h[{}] = <<>>
        BY <1>5 DEF FoldsLeft
  <2> QED BY <1>1, <2>1, <2>2
<1>7. Unfold(iter)
      BY <1>6
<1> HIDE DEF iter
<1>8. Unfolds(iter, <<>>, step, Acc, n)
  <2>1. iter[{}] = <<>>
        BY <1>1, <1>7
  <2>2. ASSUME NEW i \in 1..n, iter[1..(i - 1)] \in Acc
        PROVE  iter[1..i] = step[<<i, iter[1..(i - 1)]>>]
    <3>1. 1..i \in SUBSET (1..n) /\ 1..i # {} /\ Max(1..i) = i /\ (1..i) \ {i} = 1..(i - 1)
          BY <1>1, LastTaken
    <3>2. iter[1..i] = Merge(iter[1..(i - 1)], s[i])
          BY <1>1, <1>7, <3>1
    <3> QED BY <1>4, <2>2, <3>2
  <2> QED BY <2>1, <2>2 DEF Unfolds
<1>9. PICK g \in [0..n -> Acc] : Unrolls(g, iter, <<>>, step, n)
      BY <1>1, <1>3, <1>8, FoldSteps
<1>10. ASSUME NEW i \in 1..n PROVE g[i] = Merge(g[i - 1], s[i])
  <2>1. g[i - 1] \in Acc
        BY <1>1
  <2> QED BY <1>4, <1>9, <2>1 DEF Steps, Unrolls
<1> QED BY <1>1, <1>2, <1>9, <1>10 DEF n, Acc, Steps, Unrolls

\* A packed timeline, edit by edit.
LEMMA PackedSteps ==
  ASSUME NEW s \in Seq(Segment)
  PROVE  \E g \in [0..Len(s) -> Seq(Segment)] :
           /\ g[0] = <<>> /\ Packed(s) = g[Len(s)]
           /\ \A i \in 1..Len(s) : g[i] = Pack(g[i - 1], s[i])
<1> DEFINE n == Len(s)
           Acc == Seq(Segment)
           step == [p \in (1..n) \X Acc |-> Pack(p[2], s[p[1]])]
           Unfold(h) == h = [t \in SUBSET DOMAIN s |->
                               IF t = {} THEN <<>> ELSE Pack(h[t \ {Max(t)}], s[Max(t)])]
           iter == CHOOSE h : Unfold(h)
<1>1. n \in Nat /\ DOMAIN s = 1..n /\ <<>> \in Acc /\ \A i \in 1..n : s[i] \in Segment
      OBVIOUS
<1>2. Packed(s) = iter[DOMAIN s]
      BY DEF Packed, FoldLeft, MapThenFoldSet
<1>3. step \in [(1..n) \X Acc -> Acc]
  <2>1. \A p \in (1..n) \X Acc : Pack(p[2], s[p[1]]) \in Acc
        BY <1>1, PackType
  <2> QED BY <2>1
<1>4. \A i \in 1..n, a \in Acc : step[<<i, a>>] = Pack(a, s[i])
      OBVIOUS
<1> HIDE DEF n, Acc, step
<1>5. PICK h \in [SUBSET (1..n) -> Acc] : FoldsLeft(h, <<>>, step, n)
      BY <1>1, <1>3, FoldLeftExists
<1>6. Unfold(h)
  <2>1. ASSUME NEW t \in SUBSET (1..n), t # {}
        PROVE  h[t] = Pack(h[t \ {Max(t)}], s[Max(t)])
    <3>1. Max(t) \in 1..n /\ h[t \ {Max(t)}] \in Acc
          BY <1>1, <2>1, LastTaken
    <3>2. h[t] = step[<<Max(t), h[t \ {Max(t)}]>>]
          BY <1>5, <2>1 DEF FoldsLeft
    <3> QED BY <1>4, <3>1, <3>2
  <2>2. h[{}] = <<>>
        BY <1>5 DEF FoldsLeft
  <2> QED BY <1>1, <2>1, <2>2
<1>7. Unfold(iter)
      BY <1>6
<1> HIDE DEF iter
<1>8. Unfolds(iter, <<>>, step, Acc, n)
  <2>1. iter[{}] = <<>>
        BY <1>1, <1>7
  <2>2. ASSUME NEW i \in 1..n, iter[1..(i - 1)] \in Acc
        PROVE  iter[1..i] = step[<<i, iter[1..(i - 1)]>>]
    <3>1. 1..i \in SUBSET (1..n) /\ 1..i # {} /\ Max(1..i) = i /\ (1..i) \ {i} = 1..(i - 1)
          BY <1>1, LastTaken
    <3>2. iter[1..i] = Pack(iter[1..(i - 1)], s[i])
          BY <1>1, <1>7, <3>1
    <3> QED BY <1>4, <2>2, <3>2
  <2> QED BY <2>1, <2>2 DEF Unfolds
<1>9. PICK g \in [0..n -> Acc] : Unrolls(g, iter, <<>>, step, n)
      BY <1>1, <1>3, <1>8, FoldSteps
<1>10. ASSUME NEW i \in 1..n PROVE g[i] = Pack(g[i - 1], s[i])
  <2>1. g[i - 1] \in Acc
        BY <1>1
  <2> QED BY <1>4, <1>9, <2>1 DEF Steps, Unrolls
<1> QED BY <1>1, <1>2, <1>9, <1>10 DEF n, Acc, Steps, Unrolls

\* Contiguous edits joined, edit by edit.
LEMMA JoinedSteps ==
  ASSUME NEW s \in Seq(Segment)
  PROVE  \E g \in [0..Len(s) -> Seq(Segment)] :
           /\ g[0] = <<>> /\ Joined(s) = g[Len(s)]
           /\ \A i \in 1..Len(s) : g[i] = Join(g[i - 1], s[i])
<1> DEFINE n == Len(s)
           Acc == Seq(Segment)
           step == [p \in (1..n) \X Acc |-> Join(p[2], s[p[1]])]
           Unfold(h) == h = [t \in SUBSET DOMAIN s |->
                               IF t = {} THEN <<>> ELSE Join(h[t \ {Max(t)}], s[Max(t)])]
           iter == CHOOSE h : Unfold(h)
<1>1. n \in Nat /\ DOMAIN s = 1..n /\ <<>> \in Acc /\ \A i \in 1..n : s[i] \in Segment
      OBVIOUS
<1>2. Joined(s) = iter[DOMAIN s]
      BY DEF Joined, FoldLeft, MapThenFoldSet
<1>3. step \in [(1..n) \X Acc -> Acc]
  <2>1. \A p \in (1..n) \X Acc : Join(p[2], s[p[1]]) \in Acc
        BY <1>1, JoinType
  <2> QED BY <2>1
<1>4. \A i \in 1..n, a \in Acc : step[<<i, a>>] = Join(a, s[i])
      OBVIOUS
<1> HIDE DEF n, Acc, step
<1>5. PICK h \in [SUBSET (1..n) -> Acc] : FoldsLeft(h, <<>>, step, n)
      BY <1>1, <1>3, FoldLeftExists
<1>6. Unfold(h)
  <2>1. ASSUME NEW t \in SUBSET (1..n), t # {}
        PROVE  h[t] = Join(h[t \ {Max(t)}], s[Max(t)])
    <3>1. Max(t) \in 1..n /\ h[t \ {Max(t)}] \in Acc
          BY <1>1, <2>1, LastTaken
    <3>2. h[t] = step[<<Max(t), h[t \ {Max(t)}]>>]
          BY <1>5, <2>1 DEF FoldsLeft
    <3> QED BY <1>4, <3>1, <3>2
  <2>2. h[{}] = <<>>
        BY <1>5 DEF FoldsLeft
  <2> QED BY <1>1, <2>1, <2>2
<1>7. Unfold(iter)
      BY <1>6
<1> HIDE DEF iter
<1>8. Unfolds(iter, <<>>, step, Acc, n)
  <2>1. iter[{}] = <<>>
        BY <1>1, <1>7
  <2>2. ASSUME NEW i \in 1..n, iter[1..(i - 1)] \in Acc
        PROVE  iter[1..i] = step[<<i, iter[1..(i - 1)]>>]
    <3>1. 1..i \in SUBSET (1..n) /\ 1..i # {} /\ Max(1..i) = i /\ (1..i) \ {i} = 1..(i - 1)
          BY <1>1, LastTaken
    <3>2. iter[1..i] = Join(iter[1..(i - 1)], s[i])
          BY <1>1, <1>7, <3>1
    <3> QED BY <1>4, <2>2, <3>2
  <2> QED BY <2>1, <2>2 DEF Unfolds
<1>9. PICK g \in [0..n -> Acc] : Unrolls(g, iter, <<>>, step, n)
      BY <1>1, <1>3, <1>8, FoldSteps
<1>10. ASSUME NEW i \in 1..n PROVE g[i] = Join(g[i - 1], s[i])
  <2>1. g[i - 1] \in Acc
        BY <1>1
  <2> QED BY <1>4, <1>9, <2>1 DEF Steps, Unrolls
<1> QED BY <1>1, <1>2, <1>9, <1>10 DEF n, Acc, Steps, Unrolls

\* A sort keeps what it sorts.
LEMMA SortedFacts ==
  ASSUME NEW S, NEW s \in Seq(S), NEW rank
  PROVE  Sorted(s, rank) \in Seq(S) /\ ToSet(Sorted(s, rank)) = ToSet(s)
<1> DEFINE n == Len(s)
<1>0. PICK g \in [0..n -> Seq(S)] : SortedBy(g, s, rank)
      BY SortedSteps
<1>1. /\ g[0] = <<>> /\ Sorted(s, rank) = g[n]
      /\ \A i \in 1..n : g[i] = Place(g[i - 1], s[i], rank)
      BY <1>0 DEF SortedBy
<1>2. n \in Nat /\ 0 \in 0..n /\ n \in 0..n /\ ToSet(s) = {s[j] : j \in 1..n} /\ \A i \in 1..n : s[i] \in S
      BY DEF ToSet
<1> DEFINE Right == {i \in 0..n : ToSet(g[i]) = {s[j] : j \in 1..i}}
<1>3. 0 \in Right
      BY <1>1, <1>2 DEF ToSet
<1>4. ASSUME NEW i \in 1..n, i - 1 \in Right PROVE i \in Right
  <2>1. i \in 0..n /\ i - 1 \in 0..n /\ 1..i = (1..(i - 1)) \cup {i}
        BY <1>2
  <2>2. ToSet(g[i - 1]) = {s[j] : j \in 1..(i - 1)}
        BY <1>4
  <2>3. ToSet(g[i]) = ToSet(g[i - 1]) \cup {s[i]}
    <3>1. g[i - 1] \in Seq(S) /\ s[i] \in S
          BY <1>2, <2>1
    <3> HIDE DEF n
    <3> QED BY <1>1, <3>1, PlaceFacts
  <2>4. {s[j] : j \in 1..i} = {s[j] : j \in 1..(i - 1)} \cup {s[i]}
        BY <2>1
  <2>5. ToSet(g[i]) = {s[j] : j \in 1..i}
        BY <2>2, <2>3, <2>4
  <2> QED BY <2>1, <2>5
<1>5. Right = 0..n
  <2>1. Right \in SUBSET (0..n)
        OBVIOUS
  <2> HIDE DEF Right, n
  <2> QED BY <1>2, <1>3, <1>4, <2>1, PrefixInduction
<1>6. ToSet(g[n]) = {s[j] : j \in 1..n}
      BY <1>2, <1>5
<1> HIDE DEF n
<1> QED BY <1>1, <1>2, <1>6

LEMMA ByStartFacts ==
  ASSUME NEW S, NEW ranges \in SUBSET S, IsFiniteSet(ranges)
  PROVE  ByStart(ranges) \in Seq(S) /\ ToSet(ByStart(ranges)) = ranges
<1> DEFINE s == SetToSeq(ranges)
           rank == [r \in ranges |-> r.from]
<1>1. s \in Seq(ranges) /\ ToSet(s) = ranges
      BY SetToSeqFacts
<1>2. ByStart(ranges) = Sorted(s, rank)
      BY DEF ByStart
<1> HIDE DEF s, rank
<1>3. Sorted(s, rank) \in Seq(ranges) /\ ToSet(Sorted(s, rank)) = ranges
      BY <1>1, SortedFacts
<1>4. Seq(ranges) \subseteq Seq(S)
      OBVIOUS
<1> QED BY <1>2, <1>3, <1>4

LEMMA MergeRangesType ==
  ASSUME NEW ranges \in SUBSET Stretch, IsFiniteSet(ranges)
  PROVE  MergeRanges(ranges) \in Seq(Stretch)
<1> DEFINE s == ByStart(ranges)
<1>1. s \in Seq(Stretch)
      BY ByStartFacts
<1>2. MergeRanges(ranges) = FoldLeft(Merge, <<>>, s)
      BY DEF MergeRanges
<1> HIDE DEF s
<1>3. PICK g \in [0..Len(s) -> Seq(Stretch)] : FoldLeft(Merge, <<>>, s) = g[Len(s)]
      BY <1>1, MergeSteps
<1>4. Len(s) \in 0..Len(s)
      BY <1>1
<1> QED BY <1>2, <1>3, <1>4

\* Packing a timeline keeps what is shown of each clip, and leaves no gap.
SameFootage(e, f) == e.clip = f.clip /\ e.from = f.from /\ e.to = f.to
EndOf(e) == e.at + e.to - e.from
Contiguous(edits) ==
  \A i \in DOMAIN edits : edits[i].at = (IF i = 1 THEN 0 ELSE EndOf(edits[i - 1])) /\ ~edits[i].new

LEMMA PackFacts ==
  ASSUME NEW out \in Seq(Segment), NEW e \in Segment, Contiguous(out)
  PROVE  /\ Len(Pack(out, e)) = Len(out) + 1 /\ Contiguous(Pack(out, e))
         /\ \A i \in 1..Len(out) : Pack(out, e)[i] = out[i]
         /\ SameFootage(Pack(out, e)[Len(out) + 1], e)
<1> DEFINE n == Len(out)
           at == IF out = <<>> THEN 0 ELSE Last(out).at + Last(out).to - Last(out).from
           packed == [e EXCEPT !.new = FALSE, !.at = at]
           p == Pack(out, e)
<1>1. p = Append(out, packed)
      BY DEF Pack
<1>2. n \in Nat /\ DOMAIN out = 1..n
      OBVIOUS
<1>3. SameFootage(packed, e) /\ ~packed.new /\ packed.at = at
  <2> HIDE DEF at
  <2> QED BY DEF SameFootage, Segment, Forward
<1>4. at = IF n + 1 = 1 THEN 0 ELSE EndOf(out[n])
      BY <1>2 DEF Last, EndOf
<1> HIDE DEF packed, at
<1>5. Len(p) = n + 1 /\ DOMAIN p = 1..(n + 1) /\ p[n + 1] = packed /\ \A i \in 1..n : p[i] = out[i]
      BY <1>1
<1>6. Contiguous(p)
  <2> SUFFICES ASSUME NEW i \in 1..(n + 1)
               PROVE  p[i].at = (IF i = 1 THEN 0 ELSE EndOf(p[i - 1])) /\ ~p[i].new
      BY <1>5 DEF Contiguous
  <2> HIDE DEF p
  <2>1. CASE i \in 1..n
    <3>1. p[i] = out[i] /\ (i # 1 => p[i - 1] = out[i - 1])
          BY <1>2, <1>5, <2>1
    <3>2. out[i].at = (IF i = 1 THEN 0 ELSE EndOf(out[i - 1])) /\ ~out[i].new
          BY <1>2, <2>1 DEF Contiguous
    <3> QED BY <3>1, <3>2
  <2>2. CASE i = n + 1
    <3>1. n + 1 # 1 => p[n] = out[n] /\ (n + 1) - 1 = n
          BY <1>2, <1>5
    <3> QED BY <1>3, <1>4, <1>5, <2>2, <3>1
  <2> QED BY <1>2, <2>1, <2>2
<1> QED BY <1>3, <1>5, <1>6

LEMMA PackedFacts ==
  ASSUME NEW s \in Seq(Segment)
  PROVE  /\ Packed(s) \in Seq(Segment) /\ Len(Packed(s)) = Len(s) /\ Contiguous(Packed(s))
         /\ \A i \in 1..Len(s) : SameFootage(Packed(s)[i], s[i])
<1> DEFINE n == Len(s)
<1>1. PICK g \in [0..n -> Seq(Segment)] :
        /\ g[0] = <<>> /\ Packed(s) = g[n]
        /\ \A i \in 1..n : g[i] = Pack(g[i - 1], s[i])
      BY PackedSteps
<1>2. n \in Nat /\ 0 \in 0..n /\ n \in 0..n /\ \A i \in 1..n : s[i] \in Segment
      OBVIOUS
<1> HIDE DEF n
<1> DEFINE Right == {i \in 0..n : /\ Len(g[i]) = i /\ Contiguous(g[i])
                                  /\ \A j \in 1..i : SameFootage(g[i][j], s[j])}
<1>3. 0 \in Right
      BY <1>1, <1>2 DEF Contiguous
<1>4. ASSUME NEW i \in 1..n, i - 1 \in Right PROVE i \in Right
  <2> DEFINE o == g[i - 1]
  <2>1. i \in 0..n /\ i - 1 \in 0..n /\ o \in Seq(Segment) /\ s[i] \in Segment /\ i = (i - 1) + 1
        BY <1>2
  <2>2. Len(o) = i - 1 /\ Contiguous(o) /\ \A j \in 1..(i - 1) : SameFootage(o[j], s[j])
        BY <1>4
  <2>3. g[i] = Pack(o, s[i])
        BY <1>1
  <2> HIDE DEF o
  <2>4. /\ Len(g[i]) = Len(o) + 1 /\ Contiguous(g[i]) /\ SameFootage(g[i][Len(o) + 1], s[i])
        /\ \A j \in 1..Len(o) : g[i][j] = o[j]
        BY <2>1, <2>2, <2>3, PackFacts
  <2>5. \A j \in 1..i : j \in 1..(i - 1) \/ j = i
        BY <1>2
  <2>6. \A j \in 1..i : SameFootage(g[i][j], s[j])
        BY <2>1, <2>2, <2>4, <2>5
  <2> QED BY <2>1, <2>2, <2>4, <2>6
<1>5. Right = 0..n
  <2>1. Right \in SUBSET (0..n)
        OBVIOUS
  <2> HIDE DEF Right
  <2> QED BY <1>2, <1>3, <1>4, <2>1, PrefixInduction
<1> QED BY <1>1, <1>2, <1>5 DEF n

\* The footage one part shows.
Shots(p) == {<<p.clip, n>> : n \in p.from..p.to - 1}

LEMMA FootageOfParts ==
  /\ \A P : Footage(P) = UNION {Shots(p) : p \in P}
  /\ Footage({}) = {}
  /\ \A P, Q : Footage(P \cup Q) = Footage(P) \cup Footage(Q)
  /\ \A p : Footage({p}) = Shots(p)
<1>1. \A P : Footage(P) = UNION {Shots(p) : p \in P}
      BY DEF Footage, Shots
<1>2. Footage({}) = {}
      BY <1>1
<1>3. \A P, Q : Footage(P \cup Q) = Footage(P) \cup Footage(Q)
      BY <1>1
<1>4. \A p : Footage({p}) = Shots(p)
      BY <1>1
<1> QED BY <1>1, <1>2, <1>3, <1>4

LEMMA FootageOfSeq ==
  ASSUME NEW S, NEW s \in Seq(S)
  PROVE  \A f : f \in Footage(ToSet(s)) <=> \E i \in 1..Len(s) : f \in Shots(s[i])
<1>1. ToSet(s) = {s[i] : i \in 1..Len(s)}
      BY DEF ToSet
<1>2. Footage(ToSet(s)) = UNION {Shots(p) : p \in ToSet(s)}
      BY FootageOfParts
<1> QED BY <1>1, <1>2

\* Packing keeps what is shown.
LEMMA PackedFootage ==
  ASSUME NEW s \in Seq(Segment)
  PROVE  Footage(ToSet(Packed(s))) = Footage(ToSet(s))
<1>1. /\ Packed(s) \in Seq(Segment) /\ Len(Packed(s)) = Len(s)
      /\ \A i \in 1..Len(s) : SameFootage(Packed(s)[i], s[i])
      BY PackedFacts
<1>2. \A i \in 1..Len(s) : Shots(Packed(s)[i]) = Shots(s[i])
      BY <1>1 DEF SameFootage, Shots
<1>3. \A f : f \in Footage(ToSet(Packed(s))) <=> f \in Footage(ToSet(s))
      BY <1>1, <1>2, FootageOfSeq
<1> QED BY <1>3

\* So does joining what is contiguous.
LEMMA JoinFootage ==
  ASSUME NEW out \in Seq(Segment), NEW e \in Segment
  PROVE  Footage(ToSet(Join(out, e))) = Footage(ToSet(out)) \cup Shots(e)
<1> DEFINE n == Len(out)
<1>1. CASE out # <<>> /\ Last(out).clip = e.clip /\ Last(out).to = e.from
  <2> DEFINE f == [out[n] EXCEPT !.to = e.to]
             s == [out EXCEPT ![n] = f]
  <2>1. n \in 1..n /\ out[n] \in Segment /\ Last(out) = out[n] /\ n \in Nat
        BY <1>1 DEF Last
  <2>2. /\ f \in Segment /\ f.clip = e.clip /\ f.from = out[n].from /\ f.to = e.to
        /\ out[n].clip = e.clip /\ out[n].from \in Int /\ e.from \in Int /\ e.to \in Int
        /\ out[n].from <= e.from /\ e.from <= e.to /\ out[n].to = e.from
    <3>1. /\ out[n].from <= out[n].to /\ out[n].to = e.from /\ e.from <= e.to /\ out[n].clip = e.clip
          /\ out[n].from \in Int /\ e.from \in Int /\ e.to \in Int
          BY <1>1, <2>1 DEF Segment, Forward
    <3>2. out[n].from <= e.to
          BY <3>1
    <3> QED BY <2>1, <3>1, <3>2 DEF Segment, Forward
  <2>3. Join(out, e) = s
        BY <1>1 DEF Join
  <2>4. Shots(f) = Shots(out[n]) \cup Shots(e)
    <3>1. \A k : k \in out[n].from..e.to - 1 <=> k \in out[n].from..e.from - 1 \/ k \in e.from..e.to - 1
          BY <2>2
    <3> HIDE DEF f
    <3> QED BY <2>2, <3>1 DEF Shots
  <2> HIDE DEF f
  <2>5. s \in Seq(Segment) /\ Len(s) = n /\ s[n] = f /\ \A i \in 1..n : i # n => s[i] = out[i]
        BY <2>1, <2>2
  <2> HIDE DEF s
  <2>6. \A x : (\E i \in 1..n : x \in Shots(s[i])) <=> (\E i \in 1..n : x \in Shots(out[i])) \/ x \in Shots(e)
        BY <2>1, <2>4, <2>5
  <2>7. \A x : x \in Footage(ToSet(s)) <=> x \in Footage(ToSet(out)) \/ x \in Shots(e)
    <3>1. \A x : x \in Footage(ToSet(s)) <=> \E i \in 1..n : x \in Shots(s[i])
          BY <2>5, FootageOfSeq
    <3>2. \A x : x \in Footage(ToSet(out)) <=> \E i \in 1..n : x \in Shots(out[i])
          BY FootageOfSeq
    <3> QED BY <2>6, <3>1, <3>2
  <2> QED BY <2>3, <2>7
<1>2. CASE ~(out # <<>> /\ Last(out).clip = e.clip /\ Last(out).to = e.from)
  <2>1. Join(out, e) = Append(out, e)
        BY <1>2 DEF Join
  <2>2. ToSet(Append(out, e)) = ToSet(out) \cup {e}
        BY AppendedSets
  <2> QED BY <2>1, <2>2, FootageOfParts
<1> QED BY <1>1, <1>2

LEMMA JoinedFacts ==
  ASSUME NEW s \in Seq(Segment)
  PROVE  Joined(s) \in Seq(Segment) /\ Footage(ToSet(Joined(s))) = Footage(ToSet(s))
<1> DEFINE n == Len(s)
<1>1. PICK g \in [0..n -> Seq(Segment)] :
        /\ g[0] = <<>> /\ Joined(s) = g[n]
        /\ \A i \in 1..n : g[i] = Join(g[i - 1], s[i])
      BY JoinedSteps
<1>2. n \in Nat /\ 0 \in 0..n /\ n \in 0..n /\ \A i \in 1..n : s[i] \in Segment
      OBVIOUS
<1>3. \A f : f \in Footage(ToSet(s)) <=> \E i \in 1..n : f \in Shots(s[i])
      BY FootageOfSeq
<1> HIDE DEF n
<1> DEFINE Right == {i \in 0..n : \A f : f \in Footage(ToSet(g[i])) <=> \E j \in 1..i : f \in Shots(s[j])}
<1>4. 0 \in Right
  <2>1. ToSet(<<>>) = {}
        BY DEF ToSet
  <2> QED BY <1>1, <1>2, <2>1, FootageOfParts
<1>5. ASSUME NEW i \in 1..n, i - 1 \in Right PROVE i \in Right
  <2>1. i \in 0..n /\ i - 1 \in 0..n /\ 1..i = (1..(i - 1)) \cup {i}
        BY <1>2
  <2>2. g[i - 1] \in Seq(Segment) /\ s[i] \in Segment /\ g[i] = Join(g[i - 1], s[i])
        BY <1>1, <1>2, <2>1
  <2>3. Footage(ToSet(g[i])) = Footage(ToSet(g[i - 1])) \cup Shots(s[i])
        BY <2>2, JoinFootage
  <2>4. \A f : f \in Footage(ToSet(g[i - 1])) <=> \E j \in 1..(i - 1) : f \in Shots(s[j])
        BY <1>5
  <2>5. \A f : f \in Footage(ToSet(g[i])) <=> \E j \in 1..i : f \in Shots(s[j])
        BY <2>1, <2>3, <2>4
  <2> QED BY <2>1, <2>5
<1>6. Right = 0..n
  <2>1. Right \in SUBSET (0..n)
        OBVIOUS
  <2> HIDE DEF Right
  <2> QED BY <1>2, <1>4, <1>5, <2>1, PrefixInduction
<1>7. \A f : f \in Footage(ToSet(g[n])) <=> \E j \in 1..n : f \in Shots(s[j])
      BY <1>2, <1>6
<1> QED BY <1>1, <1>2, <1>3, <1>7

\* The frames of a program are the footage of its edits.
LEMMA FramesFacts ==
  ASSUME NEW edits \in Seq(Segment)
  PROVE  ToSet(FramesOf(edits)) = Footage(ToSet(edits))
<1> DEFINE frames(e) == [n \in 1..(e.to - e.from) |-> <<e.clip, e.from + n - 1>>]
           ss == [i \in DOMAIN edits |-> frames(edits[i])]
           m == Len(edits)
<1>1. FramesOf(edits) = FlattenSeq(ss)
      BY DEF FramesOf, Mapped
<1>2. m \in Nat /\ DOMAIN edits = 1..m /\ \A i \in 1..m : edits[i] \in Segment
      OBVIOUS
<1> HIDE DEF m
<1>3. ASSUME NEW e \in Segment PROVE frames(e) \in Seq(Clips \X Int) /\ ToSet(frames(e)) = Shots(e)
  <2>1. /\ e.clip \in Clips /\ e.from \in Int /\ e.to \in Int /\ e.from <= e.to
        /\ e.to - e.from \in Nat
        BY DEF Segment, Forward
  <2>2. frames(e) \in Seq(Clips \X Int)
        BY <2>1
  <2>3. DOMAIN frames(e) = 1..(e.to - e.from)
        OBVIOUS
  <2>4. \A k \in e.from..e.to - 1 : k - e.from + 1 \in 1..(e.to - e.from) /\ e.from + (k - e.from + 1) - 1 = k
        BY <2>1
  <2>5. \A n \in 1..(e.to - e.from) : e.from + n - 1 \in e.from..e.to - 1
        BY <2>1
  <2>6. ToSet(frames(e)) = {<<e.clip, e.from + n - 1>> : n \in 1..(e.to - e.from)}
        BY <2>3 DEF ToSet
  <2>7. {<<e.clip, e.from + n - 1>> : n \in 1..(e.to - e.from)} = Shots(e)
        BY <2>4, <2>5 DEF Shots
  <2> QED BY <2>2, <2>6, <2>7
<1>4. ss \in Seq(Seq(Clips \X Int)) /\ Len(ss) = m
  <2>1. \A i \in 1..m : frames(edits[i]) \in Seq(Clips \X Int)
        BY <1>2, <1>3
  <2> HIDE DEF frames
  <2> QED BY <1>2, <2>1
<1>5. \A i \in 1..m : ToSet(ss[i]) = Shots(edits[i])
      BY <1>2, <1>3
<1> HIDE DEF ss
<1>6. ToSet(FlattenSeq(ss)) = UNION {ToSet(ss[i]) : i \in 1..m}
      BY <1>4, FlattenFacts
<1>7. \A f : f \in ToSet(FlattenSeq(ss)) <=> \E i \in 1..m : f \in Shots(edits[i])
      BY <1>5, <1>6
<1>8. \A f : f \in Footage(ToSet(edits)) <=> \E i \in 1..m : f \in Shots(edits[i])
      BY FootageOfSeq DEF m
<1> QED BY <1>1, <1>7, <1>8

LEMMA PiecesFacts ==
  ASSUME NEW e \in Segment, NEW r, r.from \in Int, r.to \in Int, r.from <= r.to
  PROVE  PiecesOf(e, r) \in Seq(Segment) /\ Footage(ToSet(PiecesOf(e, r))) = Shots(e) \ Shots(r)
<1>1. /\ e.clip \in Clips /\ e.from \in Int /\ e.to \in Int /\ e.from <= e.to
      /\ e.at \in Int /\ e.new \in BOOLEAN
      BY DEF Segment, Forward
<1>2. CASE e.clip # r.clip \/ ~Overlap(e, r)
  <2>1. PiecesOf(e, r) = <<e>> /\ ToSet(<<e>>) = {e}
        BY <1>2 DEF PiecesOf, ToSet
  <2>2. ASSUME NEW n \in e.from..e.to - 1 PROVE <<e.clip, n>> \notin Shots(r)
    <3>1. CASE e.clip # r.clip
          BY <3>1 DEF Shots
    <3>2. CASE ~Overlap(e, r)
      <4>1. \A k \in r.from..r.to - 1 : k # n
            BY <1>1, <3>2 DEF Overlap
      <4> QED BY <4>1 DEF Shots
    <3> QED BY <1>2, <3>1, <3>2
  <2>3. Shots(e) \ Shots(r) = Shots(e)
        BY <2>2 DEF Shots
  <2>4. Footage({e}) = Shots(e)
        BY FootageOfParts
  <2> QED BY <2>1, <2>3, <2>4
<1>3. CASE e.clip = r.clip /\ Overlap(e, r)
  <2> DEFINE a == [e EXCEPT !.to = r.from]
             b == [e EXCEPT !.from = r.to, !.at = e.at + r.to - e.from]
             Loose == [clip : Clips, from : Int, to : Int, at : Int, new : BOOLEAN]
             T == {p \in Loose : p.from < p.to}
             s == <<a, b>>
  <2>1. /\ a \in Loose /\ a.clip = e.clip /\ a.from = e.from /\ a.to = r.from
        /\ b \in Loose /\ b.clip = e.clip /\ b.from = r.to /\ b.to = e.to
    <3>1. e \in Loose
          BY DEF Segment, Forward
    <3>2. a \in Loose /\ a.clip = e.clip /\ a.from = e.from /\ a.to = r.from
          BY <3>1
    <3>3. e.at + r.to - e.from \in Int
          BY <1>1
    <3>4. b \in Loose /\ b.clip = e.clip /\ b.from = r.to /\ b.to = e.to
          BY <3>1, <3>3
    <3> QED BY <3>2, <3>4
  <2>2. e.from < r.to /\ r.from < e.to
        BY <1>3 DEF Overlap
  <2> HIDE DEF a, b
  <2>3. PiecesOf(e, r) = Filtered(s, T)
    <3>1. PiecesOf(e, r) = Where(s, Nonempty)
          BY <1>3 DEF PiecesOf, a, b
    <3>2. \A i \in DOMAIN s : Nonempty(s[i]) <=> s[i] \in T
          BY <2>1 DEF Nonempty
    <3>3. [i \in DOMAIN s |-> IF Nonempty(s[i]) THEN <<s[i]>> ELSE <<>>]
            = [i \in DOMAIN s |-> IF s[i] \in T THEN <<s[i]>> ELSE <<>>]
          BY <3>2
    <3> HIDE DEF s
    <3> QED BY <3>1, <3>3 DEF Where, Mapped, Filtered
  <2>4. s \in Seq(Loose) /\ ToSet(s) = {a, b}
        BY <2>1 DEF ToSet
  <2>5. Filtered(s, T) \in Seq(Loose \cap T) /\ ToSet(Filtered(s, T)) = {a, b} \cap T
    <3> HIDE DEF s, T, Loose
    <3> QED BY <2>4, FilterFacts
  <2>6. Seq(Loose \cap T) \subseteq Seq(Segment)
    <3>1. Loose \cap T \subseteq Segment
          BY DEF Segment, Forward
    <3> HIDE DEF Loose, T
    <3> QED BY <3>1
  <2>7. Footage({a, b} \cap T) = Shots(e) \ Shots(r)
    <3>1. \A f : f \in Footage({a, b} \cap T) <=> \/ a \in T /\ f \in Shots(a)
                                                  \/ b \in T /\ f \in Shots(b)
      <4>1. Footage({a, b} \cap T) = UNION {Shots(p) : p \in {a, b} \cap T}
            BY FootageOfParts
      <4> HIDE DEF T
      <4> QED BY <4>1
    <3>2. /\ a \in T <=> e.from < r.from
          /\ b \in T <=> r.to < e.to
          BY <2>1
    <3>3. ASSUME NEW f PROVE f \in Shots(e) <=> \E n \in e.from..e.to - 1 : f = <<e.clip, n>>
          BY DEF Shots
    <3>4. ASSUME NEW f PROVE f \in Shots(r) <=> \E n \in r.from..r.to - 1 : f = <<e.clip, n>>
          BY <1>3 DEF Shots
    <3>5. ASSUME NEW f PROVE f \in Shots(a) <=> \E n \in e.from..r.from - 1 : f = <<e.clip, n>>
          BY <2>1 DEF Shots
    <3>6. ASSUME NEW f PROVE f \in Shots(b) <=> \E n \in r.to..e.to - 1 : f = <<e.clip, n>>
          BY <2>1 DEF Shots
    <3>7. \A n \in Int : /\ n \in e.from..e.to - 1 /\ n \notin r.from..r.to - 1
                             => n \in e.from..r.from - 1 \/ n \in r.to..e.to - 1
                         /\ n \in e.from..r.from - 1
                             => e.from < r.from /\ n \in e.from..e.to - 1 /\ n \notin r.from..r.to - 1
                         /\ n \in r.to..e.to - 1
                             => r.to < e.to /\ n \in e.from..e.to - 1 /\ n \notin r.from..r.to - 1
          BY <1>1, <2>2
    <3>8. ASSUME NEW f, f \in Footage({a, b} \cap T) PROVE f \in Shots(e) \ Shots(r)
      <4>1. PICK n \in Int : /\ f = <<e.clip, n>>
                             /\ n \in e.from..r.from - 1 \/ n \in r.to..e.to - 1
            BY <3>1, <3>5, <3>6, <3>8
      <4>2. n \in e.from..e.to - 1 /\ n \notin r.from..r.to - 1
            BY <3>7, <4>1
      <4>3. \A k \in r.from..r.to - 1 : f # <<e.clip, k>>
            BY <4>1, <4>2
      <4> QED BY <3>3, <3>4, <4>1, <4>2, <4>3
    <3>9. ASSUME NEW f, f \in Shots(e) \ Shots(r) PROVE f \in Footage({a, b} \cap T)
      <4>1. PICK n \in e.from..e.to - 1 : f = <<e.clip, n>>
            BY <3>3, <3>9
      <4>2. n \in Int /\ n \notin r.from..r.to - 1
            BY <3>4, <3>9, <4>1
      <4>3. \/ e.from < r.from /\ n \in e.from..r.from - 1
            \/ r.to < e.to /\ n \in r.to..e.to - 1
            BY <3>7, <4>1, <4>2
      <4> QED BY <3>1, <3>2, <3>5, <3>6, <4>1, <4>3
    <3> QED BY <3>8, <3>9
  <2> QED BY <2>3, <2>5, <2>6, <2>7
<1> QED BY <1>2, <1>3

LEMMA PartFacts ==
  \A r \in Part : r.clip \in Clips /\ r.from \in Int /\ r.to \in Int /\ r.from <= r.to
  BY DEF Part, Forward

\* A removal takes its footage out of the program.
LEMMA MinusFacts ==
  ASSUME NEW edits \in Seq(Segment), NEW r, r.from \in Int, r.to \in Int, r.from <= r.to
  PROVE  /\ Minus(edits, r) \in Seq(Segment)
         /\ Footage(ToSet(Minus(edits, r))) = Footage(ToSet(edits)) \ Shots(r)
<1> DEFINE ss == [i \in DOMAIN edits |-> PiecesOf(edits[i], r)]
           m == Len(edits)
<1>1. Minus(edits, r) = FlattenSeq(ss)
      BY DEF Minus, Mapped
<1>2. m \in Nat /\ DOMAIN edits = 1..m /\ \A i \in 1..m : edits[i] \in Segment
      OBVIOUS
<1> HIDE DEF m
<1>3. \A i \in 1..m : /\ PiecesOf(edits[i], r) \in Seq(Segment)
                      /\ Footage(ToSet(PiecesOf(edits[i], r))) = Shots(edits[i]) \ Shots(r)
      BY <1>2, PiecesFacts
<1>4. ss \in Seq(Seq(Segment)) /\ Len(ss) = m
      BY <1>2, <1>3
<1>5. \A i \in 1..m : Footage(ToSet(ss[i])) = Shots(edits[i]) \ Shots(r)
      BY <1>2, <1>3
<1> HIDE DEF ss
<1>6. FlattenSeq(ss) \in Seq(Segment) /\ ToSet(FlattenSeq(ss)) = UNION {ToSet(ss[i]) : i \in 1..m}
      BY <1>4, FlattenFacts
<1>7. \A f : f \in Footage(ToSet(FlattenSeq(ss))) <=> \E i \in 1..m : f \in Footage(ToSet(ss[i]))
  <2>1. \A P : Footage(P) = UNION {Shots(p) : p \in P}
        BY FootageOfParts
  <2> QED BY <1>6, <2>1
<1>8. \A f : f \in Footage(ToSet(edits)) <=> \E i \in 1..m : f \in Shots(edits[i])
      BY FootageOfSeq DEF m
<1>9. \A f : f \in Footage(ToSet(FlattenSeq(ss))) <=> f \in Footage(ToSet(edits)) \ Shots(r)
      BY <1>5, <1>7, <1>8, ZenonT(40)
<1> QED BY <1>1, <1>6, <1>9

\* What is put back is in the program.
LEMMA PutBackFacts ==
  ASSUME NEW edits \in Seq(Segment), NEW c \in Island
  PROVE  /\ PutBack(edits, c) \in Seq(Segment)
         /\ Footage(ToSet(PutBack(edits, c))) = Footage(ToSet(edits)) \cup Shots(c)
<1> DEFINE e == [EditOf(c.clip, SpanOf(c)) EXCEPT !.new = TRUE]
<1>1. c.clip \in Clips /\ c.from \in Int /\ c.to \in Int /\ c.from <= c.to
      BY DEF Island, Forward
<1>2. e \in Segment /\ e.clip = c.clip /\ e.from = c.from /\ e.to = c.to
  <2> DEFINE o == EditOf(c.clip, SpanOf(c))
  <2>1. o = [clip |-> c.clip, from |-> c.from, to |-> c.to, at |-> 0, new |-> FALSE]
        BY DEF EditOf, SpanOf
  <2> HIDE DEF o
  <2>2. o \in Segment /\ o.clip = c.clip /\ o.from = c.from /\ o.to = c.to
        BY <1>1, <2>1 DEF Segment, Forward
  <2> QED BY <1>1, <2>2 DEF Segment, Forward, o
<1>3. PutBack(edits, c) = Append(Minus(edits, c), e)
      BY DEF PutBack
<1> HIDE DEF e
<1>4. Minus(edits, c) \in Seq(Segment) /\ Footage(ToSet(Minus(edits, c))) = Footage(ToSet(edits)) \ Shots(c)
      BY <1>1, MinusFacts
<1>5. ToSet(PutBack(edits, c)) = ToSet(Minus(edits, c)) \cup {e} /\ PutBack(edits, c) \in Seq(Segment)
      BY <1>2, <1>3, <1>4, AppendedSets
<1>6. Shots(e) = Shots(c)
      BY <1>2 DEF Shots
<1>7. Footage(ToSet(PutBack(edits, c))) = Footage(ToSet(Minus(edits, c))) \cup Shots(e)
      BY <1>5, FootageOfParts
<1> QED BY <1>4, <1>5, <1>6, <1>7

\* Removals, one after the other.
LEMMA MinusSteps ==
  ASSUME NEW s \in Seq(Part), NEW base \in Seq(Segment)
  PROVE  \E g \in [0..Len(s) -> Seq(Segment)] :
           /\ g[0] = base /\ FoldLeft(Minus, base, s) = g[Len(s)]
           /\ \A i \in 1..Len(s) : g[i] = Minus(g[i - 1], s[i])
<1> DEFINE n == Len(s)
           Acc == Seq(Segment)
           step == [p \in (1..n) \X Acc |-> Minus(p[2], s[p[1]])]
           Unfold(h) == h = [t \in SUBSET DOMAIN s |->
                               IF t = {} THEN base ELSE Minus(h[t \ {Max(t)}], s[Max(t)])]
           iter == CHOOSE h : Unfold(h)
<1>1. n \in Nat /\ DOMAIN s = 1..n /\ base \in Acc /\ \A i \in 1..n : s[i] \in Part
      OBVIOUS
<1>2. FoldLeft(Minus, base, s) = iter[DOMAIN s]
      BY DEF FoldLeft, MapThenFoldSet
<1>3. step \in [(1..n) \X Acc -> Acc]
  <2>1. \A p \in (1..n) \X Acc : Minus(p[2], s[p[1]]) \in Acc
        BY <1>1, PartFacts, MinusFacts
  <2> QED BY <2>1
<1>4. \A i \in 1..n, a \in Acc : step[<<i, a>>] = Minus(a, s[i])
      OBVIOUS
<1> HIDE DEF n, Acc, step
<1>5. PICK h \in [SUBSET (1..n) -> Acc] : FoldsLeft(h, base, step, n)
      BY <1>1, <1>3, FoldLeftExists
<1>6. Unfold(h)
  <2>1. ASSUME NEW t \in SUBSET (1..n), t # {}
        PROVE  h[t] = Minus(h[t \ {Max(t)}], s[Max(t)])
    <3>1. Max(t) \in 1..n /\ h[t \ {Max(t)}] \in Acc
          BY <1>1, <2>1, LastTaken
    <3>2. h[t] = step[<<Max(t), h[t \ {Max(t)}]>>]
          BY <1>5, <2>1 DEF FoldsLeft
    <3> QED BY <1>4, <3>1, <3>2
  <2>2. h[{}] = base
        BY <1>5 DEF FoldsLeft
  <2> QED BY <1>1, <2>1, <2>2
<1>7. Unfold(iter)
      BY <1>6
<1> HIDE DEF iter
<1>8. Unfolds(iter, base, step, Acc, n)
  <2>1. iter[{}] = base
        BY <1>1, <1>7
  <2>2. ASSUME NEW i \in 1..n, iter[1..(i - 1)] \in Acc
        PROVE  iter[1..i] = step[<<i, iter[1..(i - 1)]>>]
    <3>1. 1..i \in SUBSET (1..n) /\ 1..i # {} /\ Max(1..i) = i /\ (1..i) \ {i} = 1..(i - 1)
          BY <1>1, LastTaken
    <3>2. iter[1..i] = Minus(iter[1..(i - 1)], s[i])
          BY <1>1, <1>7, <3>1
    <3> QED BY <1>4, <2>2, <3>2
  <2> QED BY <2>1, <2>2 DEF Unfolds
<1>9. PICK g \in [0..n -> Acc] : Unrolls(g, iter, base, step, n)
      BY <1>1, <1>3, <1>8, FoldSteps
<1>10. ASSUME NEW i \in 1..n PROVE g[i] = Minus(g[i - 1], s[i])
  <2>1. g[i - 1] \in Acc
        BY <1>1
  <2> QED BY <1>4, <1>9, <2>1 DEF Steps, Unrolls
<1> QED BY <1>1, <1>2, <1>9, <1>10 DEF n, Acc, Steps, Unrolls

\* Islands put back, one after the other.
LEMMA PutBackSteps ==
  ASSUME NEW s \in Seq(Island), NEW base \in Seq(Segment)
  PROVE  \E g \in [0..Len(s) -> Seq(Segment)] :
           /\ g[0] = base /\ FoldLeft(PutBack, base, s) = g[Len(s)]
           /\ \A i \in 1..Len(s) : g[i] = PutBack(g[i - 1], s[i])
<1> DEFINE n == Len(s)
           Acc == Seq(Segment)
           step == [p \in (1..n) \X Acc |-> PutBack(p[2], s[p[1]])]
           Unfold(h) == h = [t \in SUBSET DOMAIN s |->
                               IF t = {} THEN base ELSE PutBack(h[t \ {Max(t)}], s[Max(t)])]
           iter == CHOOSE h : Unfold(h)
<1>1. n \in Nat /\ DOMAIN s = 1..n /\ base \in Acc /\ \A i \in 1..n : s[i] \in Island
      OBVIOUS
<1>2. FoldLeft(PutBack, base, s) = iter[DOMAIN s]
      BY DEF FoldLeft, MapThenFoldSet
<1>3. step \in [(1..n) \X Acc -> Acc]
  <2>1. \A p \in (1..n) \X Acc : PutBack(p[2], s[p[1]]) \in Acc
        BY <1>1, PutBackFacts
  <2> QED BY <2>1
<1>4. \A i \in 1..n, a \in Acc : step[<<i, a>>] = PutBack(a, s[i])
      OBVIOUS
<1> HIDE DEF n, Acc, step
<1>5. PICK h \in [SUBSET (1..n) -> Acc] : FoldsLeft(h, base, step, n)
      BY <1>1, <1>3, FoldLeftExists
<1>6. Unfold(h)
  <2>1. ASSUME NEW t \in SUBSET (1..n), t # {}
        PROVE  h[t] = PutBack(h[t \ {Max(t)}], s[Max(t)])
    <3>1. Max(t) \in 1..n /\ h[t \ {Max(t)}] \in Acc
          BY <1>1, <2>1, LastTaken
    <3>2. h[t] = step[<<Max(t), h[t \ {Max(t)}]>>]
          BY <1>5, <2>1 DEF FoldsLeft
    <3> QED BY <1>4, <3>1, <3>2
  <2>2. h[{}] = base
        BY <1>5 DEF FoldsLeft
  <2> QED BY <1>1, <2>1, <2>2
<1>7. Unfold(iter)
      BY <1>6
<1> HIDE DEF iter
<1>8. Unfolds(iter, base, step, Acc, n)
  <2>1. iter[{}] = base
        BY <1>1, <1>7
  <2>2. ASSUME NEW i \in 1..n, iter[1..(i - 1)] \in Acc
        PROVE  iter[1..i] = step[<<i, iter[1..(i - 1)]>>]
    <3>1. 1..i \in SUBSET (1..n) /\ 1..i # {} /\ Max(1..i) = i /\ (1..i) \ {i} = 1..(i - 1)
          BY <1>1, LastTaken
    <3>2. iter[1..i] = PutBack(iter[1..(i - 1)], s[i])
          BY <1>1, <1>7, <3>1
    <3> QED BY <1>4, <2>2, <3>2
  <2> QED BY <2>1, <2>2 DEF Unfolds
<1>9. PICK g \in [0..n -> Acc] : Unrolls(g, iter, base, step, n)
      BY <1>1, <1>3, <1>8, FoldSteps
<1>10. ASSUME NEW i \in 1..n PROVE g[i] = PutBack(g[i - 1], s[i])
  <2>1. g[i - 1] \in Acc
        BY <1>1
  <2> QED BY <1>4, <1>9, <2>1 DEF Steps, Unrolls
<1> QED BY <1>1, <1>2, <1>9, <1>10 DEF n, Acc, Steps, Unrolls

\* Removals take their footage out of the program.
LEMMA MinusAllFacts ==
  ASSUME NEW s \in Seq(Part), NEW base \in Seq(Segment)
  PROVE  /\ FoldLeft(Minus, base, s) \in Seq(Segment)
         /\ Footage(ToSet(FoldLeft(Minus, base, s))) = Footage(ToSet(base)) \ Footage(ToSet(s))
<1> DEFINE n == Len(s)
<1>1. PICK g \in [0..n -> Seq(Segment)] :
        /\ g[0] = base /\ FoldLeft(Minus, base, s) = g[n]
        /\ \A i \in 1..n : g[i] = Minus(g[i - 1], s[i])
      BY MinusSteps
<1>2. n \in Nat /\ 0 \in 0..n /\ n \in 0..n /\ \A i \in 1..n : s[i] \in Part
      OBVIOUS
<1>3. \A f : f \in Footage(ToSet(s)) <=> \E i \in 1..n : f \in Shots(s[i])
      BY FootageOfSeq
<1> HIDE DEF n
<1> DEFINE Right == {i \in 0..n : \A f : f \in Footage(ToSet(g[i])) <=> f \in Footage(ToSet(base)) /\ ~\E j \in 1..i : f \in Shots(s[j])}
<1>4. 0 \in Right
      BY <1>1, <1>2
<1>5. ASSUME NEW i \in 1..n, i - 1 \in Right PROVE i \in Right
  <2>1. i \in 0..n /\ i - 1 \in 0..n /\ 1..i = (1..(i - 1)) \cup {i}
        BY <1>2
  <2>2. g[i - 1] \in Seq(Segment) /\ s[i] \in Part /\ g[i] = Minus(g[i - 1], s[i])
        BY <1>1, <1>2, <2>1
  <2>3. Footage(ToSet(g[i])) = Footage(ToSet(g[i - 1])) \ Shots(s[i])
        BY <2>2, PartFacts, MinusFacts
  <2>4. \A f : f \in Footage(ToSet(g[i - 1])) <=> f \in Footage(ToSet(base)) /\ ~\E j \in 1..(i - 1) : f \in Shots(s[j])
        BY <1>5
  <2>5. \A f : f \in Footage(ToSet(g[i])) <=> f \in Footage(ToSet(base)) /\ ~\E j \in 1..i : f \in Shots(s[j])
        BY <2>1, <2>3, <2>4
  <2> QED BY <2>1, <2>5
<1>6. Right = 0..n
  <2>1. Right \in SUBSET (0..n)
        OBVIOUS
  <2> HIDE DEF Right
  <2> QED BY <1>2, <1>4, <1>5, <2>1, PrefixInduction
<1>7. \A f : f \in Footage(ToSet(g[n])) <=> f \in Footage(ToSet(base)) /\ ~\E j \in 1..n : f \in Shots(s[j])
      BY <1>2, <1>6
<1>8. Footage(ToSet(g[n])) = Footage(ToSet(base)) \ Footage(ToSet(s))
      BY <1>3, <1>7
<1> QED BY <1>1, <1>2, <1>8

\* Islands put back are in the program.
LEMMA PutBackAllFacts ==
  ASSUME NEW s \in Seq(Island), NEW base \in Seq(Segment)
  PROVE  /\ FoldLeft(PutBack, base, s) \in Seq(Segment)
         /\ Footage(ToSet(FoldLeft(PutBack, base, s))) = Footage(ToSet(base)) \cup Footage(ToSet(s))
<1> DEFINE n == Len(s)
<1>1. PICK g \in [0..n -> Seq(Segment)] :
        /\ g[0] = base /\ FoldLeft(PutBack, base, s) = g[n]
        /\ \A i \in 1..n : g[i] = PutBack(g[i - 1], s[i])
      BY PutBackSteps
<1>2. n \in Nat /\ 0 \in 0..n /\ n \in 0..n /\ \A i \in 1..n : s[i] \in Island
      OBVIOUS
<1>3. \A f : f \in Footage(ToSet(s)) <=> \E i \in 1..n : f \in Shots(s[i])
      BY FootageOfSeq
<1> HIDE DEF n
<1> DEFINE Right == {i \in 0..n : \A f : f \in Footage(ToSet(g[i])) <=> f \in Footage(ToSet(base)) \/ \E j \in 1..i : f \in Shots(s[j])}
<1>4. 0 \in Right
      BY <1>1, <1>2
<1>5. ASSUME NEW i \in 1..n, i - 1 \in Right PROVE i \in Right
  <2>1. i \in 0..n /\ i - 1 \in 0..n /\ 1..i = (1..(i - 1)) \cup {i}
        BY <1>2
  <2>2. g[i - 1] \in Seq(Segment) /\ s[i] \in Island /\ g[i] = PutBack(g[i - 1], s[i])
        BY <1>1, <1>2, <2>1
  <2>3. Footage(ToSet(g[i])) = Footage(ToSet(g[i - 1])) \cup Shots(s[i])
        BY <2>2, PutBackFacts
  <2>4. \A f : f \in Footage(ToSet(g[i - 1])) <=> f \in Footage(ToSet(base)) \/ \E j \in 1..(i - 1) : f \in Shots(s[j])
        BY <1>5
  <2>5. \A f : f \in Footage(ToSet(g[i])) <=> f \in Footage(ToSet(base)) \/ \E j \in 1..i : f \in Shots(s[j])
        BY <2>1, <2>3, <2>4
  <2> QED BY <2>1, <2>5
<1>6. Right = 0..n
  <2>1. Right \in SUBSET (0..n)
        OBVIOUS
  <2> HIDE DEF Right
  <2> QED BY <1>2, <1>4, <1>5, <2>1, PrefixInduction
<1>7. \A f : f \in Footage(ToSet(g[n])) <=> f \in Footage(ToSet(base)) \/ \E j \in 1..n : f \in Shots(s[j])
      BY <1>2, <1>6
<1>8. Footage(ToSet(g[n])) = Footage(ToSet(base)) \cup Footage(ToSet(s))
      BY <1>3, <1>7
<1> QED BY <1>1, <1>2, <1>8

LEMMA SegmentFacts ==
  \A e \in Segment : /\ e.clip \in Clips /\ e.from \in Int /\ e.to \in Int /\ e.from <= e.to
                     /\ e.at \in Int /\ e.new \in BOOLEAN
  BY DEF Segment, Forward

LEMMA ListFacts ==
  \A l \in List : /\ l.edits \in Seq(Segment) /\ l.cuts \in Seq(Island) /\ l.overlays \in SUBSET Overlay
  BY DEF List

\* A review puts back the first island of each key it names, and islands of the list only.
LEMMA RestoredFacts ==
  ASSUME NEW l \in List, NEW o
  PROVE  /\ RestoredOf(l, o) \in Seq(Island)
         /\ ToSet(RestoredOf(l, o)) \subseteq ToSet(l.cuts)
         /\ \A c \in ToSet(RestoredOf(l, o)) : c.key \in o.restored
         /\ \A c \in ToSet(l.cuts) :
              c.key \in o.restored => \E d \in ToSet(RestoredOf(l, o)) : d.key = c.key
<1> DEFINE s == l.cuts
           First(i) == \A j \in 1..i - 1 : s[j].key # s[i].key
           P == {i \in DOMAIN s : s[i].key \in o.restored /\ First(i)}
<1>1. s \in Seq(Island) /\ DOMAIN s = 1..Len(s) /\ Len(s) \in Nat
      BY ListFacts
<1>2. RestoredOf(l, o) = Chosen(s, P)
  <2>1. [i \in DOMAIN s |-> IF s[i].key \in o.restored /\ First(i) THEN <<s[i]>> ELSE <<>>]
          = [i \in DOMAIN s |-> IF i \in P THEN <<s[i]>> ELSE <<>>]
        OBVIOUS
  <2> HIDE DEF P
  <2> QED BY <2>1 DEF RestoredOf, Chosen
<1>3. P \in SUBSET DOMAIN s
      OBVIOUS
<1>4. RestoredOf(l, o) \in Seq(Island) /\ ToSet(RestoredOf(l, o)) = {s[i] : i \in P}
  <2> HIDE DEF P, s
  <2> QED BY <1>1, <1>2, <1>3, ChosenFacts
<1>5. ToSet(s) = {s[i] : i \in 1..Len(s)}
      BY <1>1 DEF ToSet
<1>6. ASSUME NEW k \in 1..Len(s), s[k].key \in o.restored
      PROVE  \E i \in P : s[i].key = s[k].key
  <2> DEFINE Same == {i \in 1..Len(s) : s[i].key = s[k].key}
  <2>1. Same \in SUBSET Nat /\ k \in Same
        OBVIOUS
  <2>2. PICK i \in Same : \A j \in Same : i <= j
    <3> HIDE DEF Same
    <3> QED BY <2>1, LeastNumber
  <2>3. \A j \in 1..i - 1 : j \in 1..Len(s) /\ ~(i <= j)
        BY <1>1
  <2>4. First(i)
        BY <2>2, <2>3
  <2> QED BY <1>1, <1>6, <2>4
<1> HIDE DEF s
<1>7. ToSet(RestoredOf(l, o)) \subseteq ToSet(s)
      BY <1>1, <1>3, <1>4, <1>5
<1>8. \A c \in ToSet(RestoredOf(l, o)) : c.key \in o.restored
      BY <1>4
<1>9. \A c \in ToSet(s) : c.key \in o.restored => \E d \in ToSet(RestoredOf(l, o)) : d.key = c.key
  <2> TAKE c \in ToSet(s)
  <2> HAVE c.key \in o.restored
  <2>1. PICK k \in 1..Len(s) : c = s[k]
        BY <1>5
  <2>2. PICK i \in P : s[i].key = s[k].key
        BY <1>6, <2>1
  <2> QED BY <1>4, <2>1, <2>2
<1> QED BY <1>4, <1>7, <1>8, <1>9 DEF s

\* Where overlays go.
Moves == Forward([from : Int, to : Int, output : Int])

LEMMA MappingType ==
  ASSUME NEW edits \in Seq(Segment)
  PROVE  Mapping(edits) \in SUBSET Moves
<1> DEFINE p == Packed(edits)
<1>1. p \in Seq(Segment) /\ Len(p) = Len(edits)
      BY PackedFacts
<1> HIDE DEF p
<1>2. ASSUME NEW i \in DOMAIN edits
      PROVE  [from |-> edits[i].at, to |-> edits[i].at + edits[i].to - edits[i].from,
              output |-> p[i].at] \in Moves
  <2>1. edits[i] \in Segment /\ p[i] \in Segment
        BY <1>1
  <2>2. /\ edits[i].at \in Int /\ edits[i].to \in Int /\ edits[i].from \in Int /\ p[i].at \in Int
        /\ edits[i].from <= edits[i].to
        BY <2>1, SegmentFacts
  <2> QED BY <2>2 DEF Moves, Forward
<1> QED BY <1>2 DEF Mapping, p

LEMMA RemappedType ==
  ASSUME NEW overlays \in SUBSET Overlay, NEW mapping \in SUBSET Moves
  PROVE  Remapped(overlays, mapping) \in SUBSET Overlay
<1> DEFINE from(p) == Larger(p[1].from, p[2].from)
           to(p) == Smaller(p[1].to, p[2].to)
           moved(p) == [from |-> p[2].output + from(p) - p[2].from, to |-> p[2].output + to(p) - p[2].from,
                        source |-> p[1].source + from(p) - p[1].from]
           pairs == {q \in overlays \X mapping : Overlap(q[1], q[2])}
<1>1. Remapped(overlays, mapping) = {moved(p) : p \in pairs}
      BY DEF Remapped
<1>2. ASSUME NEW p \in pairs PROVE moved(p) \in Overlay
  <2>1. /\ p[1].from \in Int /\ p[1].to \in Int /\ p[1].source \in Int /\ p[1].from <= p[1].to
        /\ p[2].from \in Int /\ p[2].to \in Int /\ p[2].output \in Int
        /\ p[1].from < p[2].to /\ p[2].from < p[1].to
        BY DEF Overlay, Forward, Moves, Overlap
  <2>2. p[2].from <= p[2].to
        BY DEF Moves, Forward
  <2>3. from(p) \in Int /\ to(p) \in Int /\ from(p) <= to(p)
        BY <2>1, <2>2 DEF Larger, Smaller
  <2> HIDE DEF from, to
  <2> QED BY <2>1, <2>3 DEF Overlay, Forward
<1> QED BY <1>1, <1>2

ManualCut(x) == [key |-> <<"manual", x.clip, x.from, x.to>>, clip |-> x.clip, from |-> x.from, to |-> x.to]
NotPutBack(islands) == {c \in Island : c.key \notin {i.key : i \in ToSet(islands)}}

LEMMA ReviewFacts ==
  \A o \in Review : o.restored \in SUBSET Key /\ o.extra \in SUBSET Part /\ IsFiniteSet(o.extra)
  BY DEF Review

\* The cut list after a review: what was not put back, and what the review cuts.
LEMMA CutsFacts ==
  ASSUME NEW cuts \in Seq(Island), NEW islands, NEW extra \in Seq(Part)
  PROVE  LET left == Where(cuts, LAMBDA c : c.key \notin {i.key : i \in ToSet(islands)})
             new == Mapped(extra, ManualCut)
         IN  /\ left \o new \in Seq(Island)
             /\ ToSet(left \o new) = (ToSet(cuts) \cap NotPutBack(islands)) \cup {ManualCut(x) : x \in ToSet(extra)}
<1> DEFINE left == Where(cuts, LAMBDA c : c.key \notin {i.key : i \in ToSet(islands)})
           new == Mapped(extra, ManualCut)
           T == NotPutBack(islands)
<1>1. left = Filtered(cuts, T)
  <2>1. \A i \in DOMAIN cuts : cuts[i].key \notin {j.key : j \in ToSet(islands)} <=> cuts[i] \in T
        BY DEF NotPutBack
  <2>2. [i \in DOMAIN cuts |-> IF cuts[i].key \notin {j.key : j \in ToSet(islands)} THEN <<cuts[i]>> ELSE <<>>]
          = [i \in DOMAIN cuts |-> IF cuts[i] \in T THEN <<cuts[i]>> ELSE <<>>]
        BY <2>1
  <2> HIDE DEF T
  <2> QED BY <2>2 DEF Where, Mapped, Filtered
<1>2. left \in Seq(Island) /\ ToSet(left) = ToSet(cuts) \cap T
  <2>1. Filtered(cuts, T) \in Seq(Island \cap T) /\ ToSet(Filtered(cuts, T)) = ToSet(cuts) \cap T
        BY FilterFacts
  <2>2. Seq(Island \cap T) \subseteq Seq(Island)
        OBVIOUS
  <2> QED BY <1>1, <2>1, <2>2
<1>3. \A x \in Part : ManualCut(x) \in Island
  <2> TAKE x \in Part
  <2>1. x.clip \in Clips /\ x.from \in Int /\ x.to \in Int /\ x.from <= x.to
        BY PartFacts
  <2> QED BY <2>1 DEF ManualCut, Island, Key, Forward
<1>4. new \in Seq(Island) /\ ToSet(new) = {ManualCut(x) : x \in ToSet(extra)}
  <2>1. DOMAIN extra = 1..Len(extra) /\ Len(extra) \in Nat /\ \A i \in 1..Len(extra) : extra[i] \in Part
        OBVIOUS
  <2>2. new = [i \in 1..Len(extra) |-> ManualCut(extra[i])]
        BY <2>1 DEF Mapped
  <2>3. new \in Seq(Island)
        BY <1>3, <2>1, <2>2
  <2>4. ToSet(new) = {ManualCut(extra[i]) : i \in 1..Len(extra)} /\ ToSet(extra) = {extra[i] : i \in 1..Len(extra)}
        BY <2>1, <2>2 DEF ToSet
  <2>5. {ManualCut(extra[i]) : i \in 1..Len(extra)} = {ManualCut(x) : x \in {extra[i] : i \in 1..Len(extra)}}
        OBVIOUS
  <2> QED BY <2>3, <2>4, <2>5
<1> HIDE DEF left, new, T
<1>5. ToSet(left \o new) = ToSet(left) \cup ToSet(new) /\ left \o new \in Seq(Island)
      BY <1>2, <1>4, AppendedSets
<1>6. ToSet(left \o new) = (ToSet(cuts) \cap T) \cup {ManualCut(x) : x \in ToSet(extra)}
      BY <1>2, <1>4, <1>5
<1> QED BY <1>5, <1>6 DEF left, new, T

\* What a review shows of a program.
Decided(l, o) ==
  (Footage(ToSet(l.edits)) \cup Footage(ToSet(RestoredOf(l, o)))) \ Footage(o.extra)

\* The program after a review: its footage is what the review decides, without gaps, and its
\* list is what was not put back and what the review cuts.
LEMMA EffectiveFacts ==
  ASSUME NEW l \in List, NEW o \in Review
  PROVE  /\ Effective(l, o) \in List
         /\ Footage(ToSet(Effective(l, o).edits)) = Decided(l, o)
         /\ Contiguous(l.edits) => Contiguous(Effective(l, o).edits)
         /\ ToSet(Effective(l, o).cuts)
              = (ToSet(l.cuts) \cap NotPutBack(RestoredOf(l, o))) \cup {ManualCut(x) : x \in o.extra}
<1> DEFINE islands == RestoredOf(l, o)
           extra == SetToSeq(o.extra)
           put == FoldLeft(PutBack, l.edits, islands)
           parts == FoldLeft(Minus, put, extra)
           rank == [e \in ToSet(parts) |-> OffsetOf(e.clip) + e.from]
           edits == Sorted(parts, rank)
           cuts == Where(l.cuts, LAMBDA c : c.key \notin {i.key : i \in ToSet(islands)})
                     \o Mapped(extra, ManualCut)
           program == [edits |-> Packed(Joined(edits)), cuts |-> cuts,
                       overlays |-> Remapped(l.overlays, Mapping(edits))]
<1>1. Effective(l, o) = IF ~Changes(l, o) THEN l ELSE program
      BY DEF Effective, ManualCut
<1>2. /\ l.edits \in Seq(Segment) /\ l.cuts \in Seq(Island) /\ l.overlays \in SUBSET Overlay
      /\ o.extra \in SUBSET Part /\ IsFiniteSet(o.extra)
      BY ListFacts, ReviewFacts
<1>3. islands \in Seq(Island)
      BY RestoredFacts
<1>4. extra \in Seq(Part) /\ ToSet(extra) = o.extra
  <2>1. extra \in Seq(o.extra) /\ ToSet(extra) = o.extra
        BY <1>2, SetToSeqFacts
  <2>2. Seq(o.extra) \subseteq Seq(Part)
        BY <1>2
  <2> QED BY <2>1, <2>2
<1> HIDE DEF islands, extra
<1>5. CASE ~Changes(l, o)
  <2>1. o.extra = {} /\ o.restored \cap Keys(l) = {}
        BY <1>5 DEF Changes
  <2>2. ToSet(islands) = {}
    <3>1. \A c \in ToSet(islands) : c \in ToSet(l.cuts) /\ c.key \in o.restored
          BY RestoredFacts DEF islands
    <3> QED BY <2>1, <3>1 DEF Keys
  <2>3. Decided(l, o) = Footage(ToSet(l.edits))
        BY <2>1, <2>2, FootageOfParts DEF Decided, islands
  <2>4. ToSet(l.cuts) \cap NotPutBack(islands) = ToSet(l.cuts)
    <3>1. ToSet(l.cuts) \subseteq Island
          BY <1>2 DEF ToSet
    <3> QED BY <2>2, <3>1 DEF NotPutBack
  <2> QED BY <1>1, <1>5, <2>1, <2>3, <2>4 DEF islands
<1>6. CASE Changes(l, o)
  <2>1. put \in Seq(Segment) /\ Footage(ToSet(put)) = Footage(ToSet(l.edits)) \cup Footage(ToSet(islands))
        BY <1>2, <1>3, PutBackAllFacts
  <2> HIDE DEF put
  <2>2. parts \in Seq(Segment) /\ Footage(ToSet(parts)) = Footage(ToSet(put)) \ Footage(o.extra)
        BY <1>4, <2>1, MinusAllFacts
  <2> HIDE DEF parts, rank
  <2>3. edits \in Seq(Segment) /\ ToSet(edits) = ToSet(parts)
        BY <2>2, SortedFacts
  <2> HIDE DEF edits
  <2>4. Joined(edits) \in Seq(Segment) /\ Footage(ToSet(Joined(edits))) = Footage(ToSet(edits))
        BY <2>3, JoinedFacts
  <2>5. /\ Packed(Joined(edits)) \in Seq(Segment) /\ Contiguous(Packed(Joined(edits)))
        /\ Footage(ToSet(Packed(Joined(edits)))) = Footage(ToSet(Joined(edits)))
        BY <2>4, PackedFacts, PackedFootage
  <2>6. /\ cuts \in Seq(Island)
        /\ ToSet(cuts) = (ToSet(l.cuts) \cap NotPutBack(islands)) \cup {ManualCut(x) : x \in ToSet(extra)}
        BY <1>2, <1>4, CutsFacts
  <2>7. Remapped(l.overlays, Mapping(edits)) \in SUBSET Overlay
        BY <1>2, <2>3, MappingType, RemappedType
  <2> HIDE DEF cuts
  <2>8. program \in List
        BY <2>5, <2>6, <2>7 DEF List
  <2>9. Footage(ToSet(program.edits)) = Decided(l, o)
        BY <2>1, <2>2, <2>3, <2>4, <2>5 DEF Decided, islands
  <2> QED BY <1>1, <1>4, <1>6, <2>5, <2>6, <2>8, <2>9 DEF islands
<1> QED BY <1>5, <1>6

\* The bounds are what they should be.
LEMMA ClipsFacts ==
  /\ Clips = 1..Len(Lengths) /\ Len(Lengths) \in Nat /\ IsFiniteSet(Clips)
  /\ \A k \in Clips : Lengths[k] \in Nat
<1>1. Clips = 1..Len(Lengths) /\ Len(Lengths) \in Nat /\ \A k \in 1..Len(Lengths) : Lengths[k] \in Nat
      BY EditListsBoundsAssumption DEF Clips
<1>2. IsFiniteSet(1..Len(Lengths))
      BY <1>1, FS_Interval
<1> QED BY <1>1, <1>2

LEMMA HeardFacts ==
  ASSUME NEW heard \in Heard, NEW k \in Clips
  PROVE  /\ heard.turns[k] \in SUBSET Stretch /\ IsFiniteSet(heard.turns[k])
         /\ heard.cuts[k] \in SUBSET Stretch /\ IsFiniteSet(heard.cuts[k])
BY HeardAssumption

LEMMA StretchFacts ==
  \A r \in Stretch : r.from \in Int /\ r.to \in Int /\ r.from <= r.to
  BY DEF Stretch, Forward

LEMMA EditOfType ==
  ASSUME NEW k \in Clips, NEW r, r.from \in Int, r.to \in Int, r.from <= r.to
  PROVE  EditOf(k, r) \in Segment
BY DEF EditOf, Segment, Forward

LEMMA SpeechType ==
  ASSUME NEW turns \in SUBSET Stretch, IsFiniteSet(turns), NEW k \in Clips
  PROVE  SpeechOf(turns, k) \in Seq(Stretch)
<1> DEFINE inside(t) == [from |-> Smaller(t.from, Lengths[k]), to |-> Smaller(t.to, Lengths[k])]
           f == [t \in turns |-> inside(t)]
           all == {inside(t) : t \in turns}
           ranges == {r \in all : Nonempty(r)}
           T == {r \in Stretch : r.to - r.from >= MinShot}
           merged == MergeRanges(ranges)
<1>1. \A t \in turns : inside(t) \in Stretch
  <2> TAKE t \in turns
  <2>1. t.from \in Int /\ t.to \in Int /\ t.from <= t.to /\ Lengths[k] \in Int
        BY StretchFacts, ClipsFacts
  <2>2. Smaller(t.from, Lengths[k]) \in Int /\ Smaller(t.to, Lengths[k]) \in Int
        /\ Smaller(t.from, Lengths[k]) <= Smaller(t.to, Lengths[k])
        BY <2>1 DEF Smaller
  <2> QED BY <2>2 DEF Stretch, Forward
<1>2. ranges \in SUBSET Stretch
      BY <1>1
<1>3. IsFiniteSet(ranges)
  <2>1. IsFiniteSet({f[t] : t \in turns})
    <3>1. DOMAIN f = turns
          OBVIOUS
    <3> HIDE DEF f
    <3> QED BY <3>1, FiniteImage
  <2>2. {f[t] : t \in turns} = all
        OBVIOUS
  <2>3. ranges \in SUBSET all /\ IsFiniteSet(all)
        BY <2>1, <2>2
  <2> HIDE DEF all, ranges
  <2> QED BY <2>3, FS_Subset
<1>4. SpeechOf(turns, k) = Where(merged, LAMBDA r : r.to - r.from >= MinShot)
      BY DEF SpeechOf
<1> HIDE DEF ranges
<1>5. merged \in Seq(Stretch)
      BY <1>2, <1>3, MergeRangesType
<1> HIDE DEF merged
<1>6. SpeechOf(turns, k) = Filtered(merged, T)
  <2>1. \A i \in DOMAIN merged : merged[i].to - merged[i].from >= MinShot <=> merged[i] \in T
        BY <1>5
  <2>2. [i \in DOMAIN merged |-> IF merged[i].to - merged[i].from >= MinShot THEN <<merged[i]>> ELSE <<>>]
          = [i \in DOMAIN merged |-> IF merged[i] \in T THEN <<merged[i]>> ELSE <<>>]
        BY <2>1
  <2> HIDE DEF T
  <2> QED BY <1>4, <2>2 DEF Where, Mapped, Filtered
<1>7. Filtered(merged, T) \in Seq(Stretch \cap T)
      BY <1>5, FilterFacts
<1>8. Seq(Stretch \cap T) \subseteq Seq(Stretch)
      OBVIOUS
<1> QED BY <1>6, <1>7, <1>8

LEMMA LinearEditsType ==
  ASSUME NEW turns, \A k \in Clips : turns[k] \in SUBSET Stretch /\ IsFiniteSet(turns[k])
  PROVE  LinearEdits(turns) \in Seq(Segment) /\ Contiguous(LinearEdits(turns))
<1> DEFINE of(k) == Mapped(SpeechOf(turns[k], k), LAMBDA r : EditOf(k, r))
           ss == [k \in Clips |-> of(k)]
           speech == FlattenSeq(ss)
           whole == [k \in Clips |-> EditOf(k, [from |-> 0, to |-> Lengths[k]])]
           T == {e \in Segment : e.from < e.to}
           full == Where(whole, Nonempty)
           program == IF speech # <<>> THEN speech ELSE full
<1>1. \A k \in Clips : of(k) \in Seq(Segment)
  <2> TAKE k \in Clips
  <2> DEFINE s == SpeechOf(turns[k], k)
  <2>1. s \in Seq(Stretch)
        BY SpeechType
  <2>2. Mapped(s, LAMBDA r : EditOf(k, r)) = [i \in DOMAIN s |-> EditOf(k, s[i])]
        BY DEF Mapped
  <2> HIDE DEF s
  <2>3. DOMAIN s = 1..Len(s) /\ Len(s) \in Nat /\ \A i \in 1..Len(s) : s[i] \in Stretch
        BY <2>1
  <2>4. \A i \in 1..Len(s) : EditOf(k, s[i]) \in Segment
        BY <2>3, StretchFacts, EditOfType
  <2> QED BY <2>2, <2>3, <2>4 DEF s
<1>2. ss \in Seq(Seq(Segment))
  <2> HIDE DEF of
  <2> QED BY <1>1, ClipsFacts
<1>3. speech \in Seq(Segment)
  <2> HIDE DEF ss
  <2> QED BY <1>2, FlattenFacts
<1>4. whole \in Seq(Segment)
  <2>1. \A k \in Clips : EditOf(k, [from |-> 0, to |-> Lengths[k]]) \in Segment
        BY ClipsFacts DEF EditOf, Segment, Forward
  <2> QED BY <2>1, ClipsFacts
<1> HIDE DEF ss, whole
<1>5. full = Filtered(whole, T)
  <2>1. \A i \in DOMAIN whole : Nonempty(whole[i]) <=> whole[i] \in T
        BY <1>4 DEF Nonempty
  <2>2. [i \in DOMAIN whole |-> IF Nonempty(whole[i]) THEN <<whole[i]>> ELSE <<>>]
          = [i \in DOMAIN whole |-> IF whole[i] \in T THEN <<whole[i]>> ELSE <<>>]
        BY <2>1
  <2> HIDE DEF T
  <2> QED BY <2>2 DEF Where, Mapped, Filtered
<1>6. full \in Seq(Segment)
  <2>1. Filtered(whole, T) \in Seq(Segment \cap T)
        BY <1>4, FilterFacts
  <2>2. Seq(Segment \cap T) \subseteq Seq(Segment)
        OBVIOUS
  <2> QED BY <1>5, <2>1, <2>2
<1>7. LinearEdits(turns) = Packed(program)
      BY DEF LinearEdits, ss, whole
<1> HIDE DEF speech, full
<1>8. program \in Seq(Segment)
      BY <1>3, <1>6
<1> QED BY <1>7, <1>8, PackedFacts

\* The island's key says where it is.
Plain(c) == c.key[1] \in {"cut", "manual"} /\ c.key[2] = c.clip /\ c.key[3] = c.from /\ c.key[4] = c.to

LEMMA IslandOfType ==
  ASSUME NEW k \in Clips, NEW r \in Stretch
  PROVE  IslandOf(k, r) \in Island /\ Plain(IslandOf(k, r))
<1>1. r.from \in Int /\ r.to \in Int /\ r.from <= r.to
      BY StretchFacts
<1>2. IslandOf(k, r) \in Island
      BY <1>1 DEF IslandOf, Island, Key, Forward
<1>3. Plain(IslandOf(k, r))
      BY DEF Plain, IslandOf
<1> QED BY <1>2, <1>3

\* What assembly writes: a program without gaps, and islands named by where they are.
LEMMA AssembledFacts ==
  ASSUME NEW heard \in Heard
  PROVE  /\ Assembled(heard) \in List
         /\ Contiguous(Assembled(heard).edits)
         /\ \A c \in ToSet(Assembled(heard).cuts) : Plain(c)
<1> DEFINE of(k) == Mapped(ByStart(heard.cuts[k]), LAMBDA r : IslandOf(k, r))
           ss == [k \in Clips |-> of(k)]
           edits == LinearEdits(heard.turns)
<1>1. Assembled(heard) = [edits |-> edits, cuts |-> FlattenSeq(ss), overlays |-> {}]
      BY DEF Assembled
<1>2. \A k \in Clips : of(k) \in Seq(Island) /\ \A c \in ToSet(of(k)) : Plain(c)
  <2> TAKE k \in Clips
  <2> DEFINE s == ByStart(heard.cuts[k])
  <2>1. s \in Seq(Stretch)
        BY HeardFacts, ByStartFacts
  <2>2. of(k) = [i \in DOMAIN s |-> IslandOf(k, s[i])]
        BY DEF Mapped
  <2> HIDE DEF s, of
  <2>3. DOMAIN s = 1..Len(s) /\ Len(s) \in Nat /\ \A i \in 1..Len(s) : s[i] \in Stretch
        BY <2>1
  <2>4. \A i \in 1..Len(s) : IslandOf(k, s[i]) \in Island /\ Plain(IslandOf(k, s[i]))
        BY <2>3, IslandOfType
  <2>5. of(k) \in Seq(Island)
        BY <2>2, <2>3, <2>4
  <2>6. ToSet(of(k)) = {IslandOf(k, s[i]) : i \in 1..Len(s)}
        BY <2>2, <2>3 DEF ToSet
  <2> QED BY <2>4, <2>5, <2>6
<1>3. ss \in Seq(Seq(Island)) /\ Len(ss) = Len(Lengths) /\ \A k \in Clips : ss[k] = of(k)
  <2> HIDE DEF of
  <2> QED BY <1>2, ClipsFacts
<1> HIDE DEF ss, of
<1>4. /\ FlattenSeq(ss) \in Seq(Island)
      /\ ToSet(FlattenSeq(ss)) = UNION {ToSet(ss[i]) : i \in 1..Len(Lengths)}
      BY <1>3, FlattenFacts
<1>5. \A c \in ToSet(FlattenSeq(ss)) : Plain(c)
      BY <1>2, <1>3, <1>4, ClipsFacts
<1>6. edits \in Seq(Segment) /\ Contiguous(edits)
      BY HeardFacts, LinearEditsType
<1> HIDE DEF edits
<1> QED BY <1>1, <1>4, <1>5, <1>6 DEF List

\* What a review may ask for is finite.
LEMMA ExtraCutsFacts == ExtraCuts \in SUBSET Part /\ IsFiniteSet(ExtraCuts)
<1> DEFINE cutsOf(k) == {[clip |-> k, from |-> s.from, to |-> s.to]
                           : s \in {t \in Spans(Lengths[k]) : t.to - t.from >= MinExtraCut}}
           all == [k \in Clips |-> cutsOf(k)]
<1>1. ExtraCuts = UNION {all[k] : k \in Clips}
      BY DEF ExtraCuts
<1>2. ASSUME NEW k \in Clips PROVE cutsOf(k) \in SUBSET Part /\ IsFiniteSet(cutsOf(k))
  <2> DEFINE m == Lengths[k]
             pairs == (0..m) \X (0..m)
             f == [p \in pairs |-> [clip |-> k, from |-> p[1], to |-> p[2]]]
  <2>1. m \in Nat
        BY ClipsFacts
  <2>2. IsFiniteSet(0..m)
        BY <2>1, FS_Interval
  <2>3. IsFiniteSet(pairs)
        BY <2>2, FS_Product
  <2>4. IsFiniteSet({f[p] : p \in pairs})
    <3>1. DOMAIN f = pairs
          OBVIOUS
    <3> HIDE DEF f, pairs
    <3> QED BY <2>3, <3>1, FiniteImage
  <2>5. cutsOf(k) \in SUBSET {f[p] : p \in pairs}
    <3>1. ASSUME NEW s \in Spans(m) PROVE [clip |-> k, from |-> s.from, to |-> s.to] \in {f[p] : p \in pairs}
      <4>1. s.from \in 0..m /\ s.to \in 0..m
            BY DEF Spans
      <4>2. <<s.from, s.to>> \in pairs
            BY <4>1
      <4>3. f[<<s.from, s.to>>] = [clip |-> k, from |-> s.from, to |-> s.to]
            BY <4>2
      <4> QED BY <4>2, <4>3
    <3> QED BY <3>1
  <2>6. cutsOf(k) \in SUBSET Part
    <3>1. \A s \in Spans(m) : s.from \in Int /\ s.to \in Int /\ s.from <= s.to
          BY <2>1 DEF Spans, Nonempty
    <3> QED BY <3>1 DEF Part, Forward
  <2> HIDE DEF f, pairs, cutsOf
  <2> QED BY <2>4, <2>5, <2>6, FS_Subset
<1>3. \A k \in Clips : all[k] \in SUBSET Part /\ IsFiniteSet(all[k])
  <2> HIDE DEF cutsOf
  <2> QED BY <1>2
<1>4. DOMAIN all = Clips
      OBVIOUS
<1> HIDE DEF all
<1>5. IsFiniteSet({all[k] : k \in Clips})
      BY <1>4, ClipsFacts, FiniteImage
<1>6. IsFiniteSet(UNION {all[k] : k \in Clips})
      BY <1>3, <1>5, FS_UNION
<1>7. UNION {all[k] : k \in Clips} \in SUBSET Part
      BY <1>3
<1> QED BY <1>1, <1>6, <1>7

LEMMA KeysType ==
  ASSUME NEW l \in List
  PROVE  Keys(l) \in SUBSET Key
<1>1. l.cuts \in Seq(Island)
      BY ListFacts
<1>2. \A c \in ToSet(l.cuts) : c \in Island
      BY <1>1 DEF ToSet
<1>3. \A c \in Island : c.key \in Key
      BY DEF Island, Forward
<1> QED BY <1>2, <1>3 DEF Keys

LEMMA OverridesType ==
  ASSUME NEW l \in List, NEW o \in Overrides(l)
  PROVE  o \in Review
<1>1. o \in [restored : SUBSET Keys(l), extra : SUBSET ExtraCuts]
      BY DEF Overrides
<1>2. o \in [restored : SUBSET Key, extra : SUBSET Part]
      BY <1>1, KeysType, ExtraCutsFacts
<1>3. IsFiniteSet(o.extra)
      BY <1>1, ExtraCutsFacts, FS_Subset
<1> QED BY <1>2, <1>3 DEF Review

LEMMA NoOverridesType == NoOverrides \in Review
<1>1. IsFiniteSet({})
      BY FS_EmptySet
<1> QED BY <1>1 DEF NoOverrides, Review

LEMMA GapsType ==
  ASSUME NEW range, range.from \in Int, range.to \in Int, NEW ranges \in Seq(Stretch)
  PROVE  Gaps(range, ranges) \in Seq(Stretch)
<1> DEFINE n == Len(ranges)
           s == [i \in 1..n + 1 |->
                  [from |-> IF i = 1 THEN range.from ELSE ranges[i - 1].to,
                   to   |-> IF i = n + 1 THEN range.to ELSE ranges[i].from]]
           Loose == [from : Int, to : Int]
           T == {r \in Loose : r.from < r.to}
<1>1. n \in Nat /\ \A i \in 1..n : ranges[i].from \in Int /\ ranges[i].to \in Int
      BY StretchFacts
<1>2. s \in Seq(Loose)
  <2>1. \A i \in 1..n + 1 : /\ i # 1 => i - 1 \in 1..n
                            /\ i # n + 1 => i \in 1..n
        BY <1>1
  <2>2. \A i \in 1..n + 1 : s[i] \in Loose
        BY <1>1, <2>1
  <2>3. DOMAIN s = 1..n + 1 /\ n + 1 \in Nat
        BY <1>1
  <2> DEFINE m == n + 1
  <2>4. \A i \in 1..m : s[i] \in Loose
        BY <2>2
  <2>5. s = [i \in 1..m |-> s[i]] /\ m \in Nat
        BY <2>3
  <2> HIDE DEF s, n, m, Loose
  <2> QED BY <2>4, <2>5
<1>3. Gaps(range, ranges) = Where(s, Nonempty)
      BY DEF Gaps
<1> HIDE DEF s
<1>4. Gaps(range, ranges) = Filtered(s, T)
  <2>1. \A i \in DOMAIN s : Nonempty(s[i]) <=> s[i] \in T
    <3>1. \A i \in DOMAIN s : s[i] \in Loose
      <4> HIDE DEF Loose
      <4> QED BY <1>2
    <3> QED BY <3>1 DEF Nonempty
  <2>2. [i \in DOMAIN s |-> IF Nonempty(s[i]) THEN <<s[i]>> ELSE <<>>]
          = [i \in DOMAIN s |-> IF s[i] \in T THEN <<s[i]>> ELSE <<>>]
        BY <2>1
  <2> HIDE DEF T
  <2> QED BY <1>3, <2>2 DEF Where, Mapped, Filtered
<1>5. Filtered(s, T) \in Seq(Loose \cap T)
      BY <1>2, FilterFacts
<1>6. Seq(Loose \cap T) \subseteq Seq(Stretch)
  <2>1. Loose \cap T \subseteq Stretch
        BY DEF Stretch, Forward
  <2> HIDE DEF Loose, T
  <2> QED BY <2>1
<1> QED BY <1>4, <1>5, <1>6

\* What a comment asks of a stretch of the timeline.
PlanOp == Forward([op : {"cut", "keep", "broll"}, from : Int, to : Int])

LEMMA PlanOpFacts ==
  \A o \in PlanOp : o.from \in Int /\ o.to \in Int /\ o.from <= o.to
  BY DEF PlanOp, Forward

LEMMA RangesType ==
  ASSUME NEW ops \in SUBSET PlanOp, IsFiniteSet(ops), NEW op
  PROVE  RangesOf(ops, op) \in SUBSET Stretch /\ IsFiniteSet(RangesOf(ops, op))
<1> DEFINE of == OpsOf(ops, op)
           f == [o \in of |-> SpanOf(o)]
<1>1. of \in SUBSET ops /\ IsFiniteSet(of)
  <2>1. of \in SUBSET ops
        BY DEF OpsOf
  <2> QED BY <2>1, FS_Subset
<1>2. RangesOf(ops, op) = {f[o] : o \in of}
      BY DEF RangesOf
<1>3. DOMAIN f = of
      OBVIOUS
<1>4. \A o \in of : f[o] \in Stretch
  <2>1. \A o \in of : o.from \in Int /\ o.to \in Int /\ o.from <= o.to
        BY <1>1, PlanOpFacts
  <2> QED BY <2>1 DEF SpanOf, Stretch, Forward
<1> HIDE DEF f, of
<1> QED BY <1>1, <1>2, <1>3, <1>4, FiniteImage

LEMMA PlanCutsType ==
  ASSUME NEW ops \in SUBSET PlanOp, IsFiniteSet(ops), NEW range, range.from \in Int, range.to \in Int
  PROVE  PlanCuts(range, ops) \in Seq(Stretch)
<1>1. \A op : RangesOf(ops, op) \in SUBSET Stretch /\ IsFiniteSet(RangesOf(ops, op))
      BY RangesType
<1>2. \A op : MergeRanges(RangesOf(ops, op)) \in Seq(Stretch)
      BY <1>1, MergeRangesType
<1>3. Gaps(range, MergeRanges(RangesOf(ops, "keep"))) \in Seq(Stretch)
      BY <1>2, GapsType
<1> QED BY <1>2, <1>3 DEF PlanCuts

\* What is taken out of an edit lies in it.
LEMMA HitFacts ==
  ASSUME NEW e \in Segment, NEW cuts \in Seq(Stretch)
  PROVE  /\ HitOf(e, cuts) \in Seq(Stretch)
         /\ \A r \in ToSet(HitOf(e, cuts)) : e.at <= r.from /\ r.from < r.to /\ r.to <= EndOf(e)
<1> DEFINE hit(c) == [from |-> Larger(c.from, e.at), to |-> Smaller(c.to, WholeOf(e).to)]
           s == [i \in DOMAIN cuts |-> hit(cuts[i])]
           Loose == {r \in [from : Int, to : Int] : e.at <= r.from /\ r.to <= EndOf(e)}
           T == {r \in Loose : r.from < r.to}
<1>1. WholeOf(e).to = EndOf(e) /\ EndOf(e) \in Int /\ e.at \in Int
      BY SegmentFacts DEF WholeOf, EndOf
<1>2. DOMAIN cuts = 1..Len(cuts) /\ Len(cuts) \in Nat
      /\ \A i \in 1..Len(cuts) : cuts[i].from \in Int /\ cuts[i].to \in Int
      BY StretchFacts
<1>3. s \in Seq(Loose)
  <2>1. \A i \in 1..Len(cuts) : hit(cuts[i]) \in Loose
    <3> TAKE i \in 1..Len(cuts)
    <3>1. Larger(cuts[i].from, e.at) \in Int /\ e.at <= Larger(cuts[i].from, e.at)
          BY <1>1, <1>2 DEF Larger
    <3>2. Smaller(cuts[i].to, EndOf(e)) \in Int /\ Smaller(cuts[i].to, EndOf(e)) <= EndOf(e)
          BY <1>1, <1>2 DEF Smaller
    <3> QED BY <1>1, <3>1, <3>2
  <2> HIDE DEF hit, Loose
  <2> QED BY <1>2, <2>1
<1>4. HitOf(e, cuts) = Where(s, Nonempty)
      BY DEF HitOf, Mapped
<1> HIDE DEF s
<1>5. HitOf(e, cuts) = Filtered(s, T)
  <2>1. \A i \in DOMAIN s : Nonempty(s[i]) <=> s[i] \in T
    <3>1. \A i \in DOMAIN s : s[i] \in Loose
          BY <1>3
    <3> HIDE DEF Loose
    <3> QED BY <3>1 DEF Nonempty
  <2>2. [i \in DOMAIN s |-> IF Nonempty(s[i]) THEN <<s[i]>> ELSE <<>>]
          = [i \in DOMAIN s |-> IF s[i] \in T THEN <<s[i]>> ELSE <<>>]
        BY <2>1
  <2> HIDE DEF T
  <2> QED BY <1>4, <2>2 DEF Where, Mapped, Filtered
<1>6. Filtered(s, T) \in Seq(Loose \cap T)
  <2> HIDE DEF T, Loose
  <2> QED BY <1>3, FilterFacts
<1>7. Seq(Loose \cap T) \subseteq Seq(Stretch)
  <2>1. Loose \cap T \subseteq Stretch
        BY DEF Stretch, Forward
  <2> HIDE DEF Loose, T
  <2> QED BY <2>1
<1>8. \A r \in ToSet(HitOf(e, cuts)) : r \in Loose \cap T
  <2> HIDE DEF Loose, T
  <2> QED BY <1>5, <1>6 DEF ToSet
<1> QED BY <1>5, <1>6, <1>7, <1>8

LEMMA SourceFacts ==
  ASSUME NEW e \in Segment, NEW r, r.from \in Int, r.to \in Int, r.from <= r.to
  PROVE  /\ SourceOf(e, r) \in Segment /\ SourceOf(e, r).clip = e.clip
         /\ SourceOf(e, r).from = e.from + r.from - e.at /\ SourceOf(e, r).to = e.from + r.to - e.at
<1> DEFINE Loose == [clip : Clips, from : Int, to : Int, at : Int, new : BOOLEAN]
           s == SourceOf(e, r)
<1>1. e \in Loose /\ e.from \in Int /\ e.at \in Int
      BY DEF Segment, Forward
<1>2. e.from + r.from - e.at \in Int /\ e.from + r.to - e.at \in Int
      /\ e.from + r.from - e.at <= e.from + r.to - e.at
      BY <1>1
<1>3. s = [e EXCEPT !.from = e.from + r.from - e.at, !.to = e.from + r.to - e.at, !.at = r.from]
      BY DEF SourceOf
<1>4. s \in Loose /\ s.clip = e.clip /\ s.from = e.from + r.from - e.at /\ s.to = e.from + r.to - e.at
  <2> HIDE DEF s
  <2> QED BY <1>1, <1>2, <1>3
<1> QED BY <1>2, <1>4 DEF Segment, Forward

LEMMA LeftType ==
  ASSUME NEW e \in Segment, NEW cuts \in Seq(Stretch)
  PROVE  LeftOf(e, cuts) \in Seq(Segment)
<1> DEFINE s == Gaps(WholeOf(e), HitOf(e, cuts))
<1>1. WholeOf(e).from \in Int /\ WholeOf(e).to \in Int
      BY SegmentFacts DEF WholeOf
<1>2. s \in Seq(Stretch)
      BY <1>1, HitFacts, GapsType
<1>3. LeftOf(e, cuts) = [i \in DOMAIN s |-> SourceOf(e, s[i])]
      BY DEF LeftOf, Mapped
<1> HIDE DEF s
<1>4. DOMAIN s = 1..Len(s) /\ Len(s) \in Nat /\ \A i \in 1..Len(s) : s[i] \in Stretch
      BY <1>2
<1>5. \A i \in 1..Len(s) : SourceOf(e, s[i]) \in Segment
      BY <1>4, StretchFacts, SourceFacts
<1> QED BY <1>3, <1>4, <1>5

\* An island that a draft takes out of an edit, named by where it lay on the timeline.
TakenOut(c, e) ==
  \E r \in Stretch :
    /\ e.at <= r.from /\ r.from < r.to /\ r.to <= EndOf(e)
    /\ c.key = <<"feedback", e.clip, r.from, r.to>> /\ c.clip = e.clip
    /\ c.from = e.from + r.from - e.at /\ c.to = e.from + r.to - e.at

LEMMA IslandsFacts ==
  ASSUME NEW e \in Segment, NEW cuts \in Seq(Stretch)
  PROVE  /\ IslandsOf(e, cuts) \in Seq(Island)
         /\ \A c \in ToSet(IslandsOf(e, cuts)) : TakenOut(c, e)
<1> DEFINE s == HitOf(e, cuts)
           island(r) == [key |-> <<"feedback", e.clip, r.from, r.to>>, clip |-> e.clip,
                         from |-> SourceOf(e, r).from, to |-> SourceOf(e, r).to]
<1>1. s \in Seq(Stretch) /\ \A r \in ToSet(s) : e.at <= r.from /\ r.from < r.to /\ r.to <= EndOf(e)
      BY HitFacts
<1>2. IslandsOf(e, cuts) = [i \in DOMAIN s |-> island(s[i])]
      BY DEF IslandsOf, Mapped
<1> HIDE DEF s
<1>3. DOMAIN s = 1..Len(s) /\ Len(s) \in Nat /\ \A i \in 1..Len(s) : s[i] \in Stretch /\ s[i] \in ToSet(s)
      BY <1>1 DEF ToSet
<1>4. ASSUME NEW i \in 1..Len(s) PROVE island(s[i]) \in Island /\ TakenOut(island(s[i]), e)
  <2> DEFINE r == s[i]
  <2>1. r \in Stretch /\ r.from \in Int /\ r.to \in Int /\ r.from <= r.to
        BY <1>3, StretchFacts
  <2>2. e.at <= r.from /\ r.from < r.to /\ r.to <= EndOf(e)
        BY <1>1, <1>3
  <2> HIDE DEF r
  <2>3. /\ SourceOf(e, r).from = e.from + r.from - e.at /\ SourceOf(e, r).to = e.from + r.to - e.at
        BY <2>1, SourceFacts
  <2>4. e.clip \in Clips /\ e.from \in Int /\ e.at \in Int
        BY SegmentFacts
  <2>5. island(r) \in Island
        BY <2>1, <2>3, <2>4 DEF Island, Key, Forward
  <2>6. TakenOut(island(r), e)
        BY <2>1, <2>2, <2>3 DEF TakenOut
  <2> QED BY <2>5, <2>6 DEF r
<1> HIDE DEF island
<1>5. IslandsOf(e, cuts) \in Seq(Island)
      BY <1>2, <1>3, <1>4
<1>6. ToSet(IslandsOf(e, cuts)) = {island(s[i]) : i \in 1..Len(s)}
      BY <1>2, <1>3 DEF ToSet
<1> QED BY <1>4, <1>5, <1>6

\* A draft's program is without gaps, and its list has the islands taken out of the old one.
RevisedFrom(draft, l) ==
  /\ draft \in List /\ Contiguous(draft.edits)
  /\ \A c \in ToSet(draft.cuts) : c \in ToSet(l.cuts) \/ \E e \in ToSet(l.edits) : TakenOut(c, e)

LEMMA ApplyPlanFacts ==
  ASSUME NEW l \in List, NEW range, range.from \in Int, range.to \in Int,
         NEW ops \in SUBSET PlanOp, IsFiniteSet(ops), ApplyPlan(l, range, ops) # NoFile
  PROVE  RevisedFrom(ApplyPlan(l, range, ops), l)
<1> DEFINE cuts == PlanCuts(range, ops)
           left == [i \in DOMAIN l.edits |-> LeftOf(l.edits[i], cuts)]
           taken == [i \in DOMAIN l.edits |-> IslandsOf(l.edits[i], cuts)]
           edits == FlattenSeq(left)
           removed == FlattenSeq(taken)
           asked == {[from |-> o.from, to |-> o.to, source |-> 0] : o \in OpsOf(ops, "broll")}
           added == Remapped(asked, Mapping(edits))
           draft == [edits |-> Packed(edits), cuts |-> l.cuts \o removed,
                     overlays |-> Remapped(l.overlays, Mapping(edits)) \cup added]
           m == Len(l.edits)
<1>1. ApplyPlan(l, range, ops) = draft
  <2>1. Mapped(l.edits, LAMBDA e : LeftOf(e, cuts)) = left /\ Mapped(l.edits, LAMBDA e : IslandsOf(e, cuts)) = taken
        BY DEF Mapped
  <2> HIDE DEF cuts, left, taken
  <2> QED BY <2>1 DEF ApplyPlan, cuts
<1>2. cuts \in Seq(Stretch)
      BY PlanCutsType
<1>3. /\ l.edits \in Seq(Segment) /\ l.cuts \in Seq(Island) /\ l.overlays \in SUBSET Overlay
      BY ListFacts
<1>4. m \in Nat /\ DOMAIN l.edits = 1..m /\ \A i \in 1..m : l.edits[i] \in Segment /\ l.edits[i] \in ToSet(l.edits)
      BY <1>3 DEF ToSet
<1> HIDE DEF cuts, m
<1>5. \A i \in 1..m : LeftOf(l.edits[i], cuts) \in Seq(Segment)
      BY <1>2, <1>4, LeftType
<1>6. \A i \in 1..m : /\ IslandsOf(l.edits[i], cuts) \in Seq(Island)
                      /\ \A c \in ToSet(IslandsOf(l.edits[i], cuts)) : TakenOut(c, l.edits[i])
      BY <1>2, <1>4, IslandsFacts
<1>7. left \in Seq(Seq(Segment)) /\ taken \in Seq(Seq(Island)) /\ Len(taken) = m
      BY <1>4, <1>5, <1>6
<1>8. \A i \in 1..m : taken[i] = IslandsOf(l.edits[i], cuts)
      BY <1>4
<1> HIDE DEF left, taken
<1>9. edits \in Seq(Segment)
      BY <1>7, FlattenFacts
<1>10. removed \in Seq(Island) /\ ToSet(removed) = UNION {ToSet(taken[i]) : i \in 1..m}
      BY <1>7, FlattenFacts
<1>11. \A c \in ToSet(removed) : \E e \in ToSet(l.edits) : TakenOut(c, e)
      BY <1>4, <1>6, <1>8, <1>10
<1> HIDE DEF edits, removed
<1>12. l.cuts \o removed \in Seq(Island) /\ ToSet(l.cuts \o removed) = ToSet(l.cuts) \cup ToSet(removed)
      BY <1>3, <1>10, AppendedSets
<1>13. asked \in SUBSET Overlay
  <2>1. \A o \in OpsOf(ops, "broll") : o.from \in Int /\ o.to \in Int /\ o.from <= o.to
        BY PlanOpFacts DEF OpsOf
  <2> QED BY <2>1 DEF Overlay, Forward
<1> HIDE DEF asked
<1>14. Remapped(l.overlays, Mapping(edits)) \cup added \in SUBSET Overlay
      BY <1>3, <1>9, <1>13, MappingType, RemappedType
<1> HIDE DEF added
<1>15. Packed(edits) \in Seq(Segment) /\ Contiguous(Packed(edits))
      BY <1>9, PackedFacts
<1>16. draft \in List
      BY <1>12, <1>14, <1>15 DEF List
<1>17. draft.edits = Packed(edits) /\ draft.cuts = l.cuts \o removed
      OBVIOUS
<1> HIDE DEF draft
<1> QED BY <1>1, <1>11, <1>12, <1>15, <1>16, <1>17 DEF RevisedFrom

LEMMA CutsOfType ==
  ASSUME NEW c, c.range.from \in Int, c.range.to \in Int, c.ops \in SUBSET PlanOp, IsFiniteSet(c.ops)
  PROVE  CutsOf(c) \in SUBSET Stretch /\ IsFiniteSet(CutsOf(c))
<1> DEFINE gaps == Gaps(c.range, MergeRanges(RangesOf(c.ops, "keep")))
           rest == IF OpsOf(c.ops, "keep") = {} THEN {} ELSE ToSet(gaps)
<1>1. \A op : RangesOf(c.ops, op) \in SUBSET Stretch /\ IsFiniteSet(RangesOf(c.ops, op))
      BY RangesType
<1>2. gaps \in Seq(Stretch)
      BY <1>1, MergeRangesType, GapsType
<1>3. CutsOf(c) = RangesOf(c.ops, "cut") \cup rest
      BY DEF CutsOf
<1> HIDE DEF gaps
<1>4. ToSet(gaps) \in SUBSET Stretch /\ IsFiniteSet(ToSet(gaps))
  <2>1. IsFiniteSet(ToSet(gaps))
        BY <1>2, FiniteToSet
  <2> QED BY <1>2, <2>1 DEF ToSet
<1>5. rest \in SUBSET Stretch /\ IsFiniteSet(rest)
      BY <1>4, FS_EmptySet
<1> HIDE DEF rest
<1> QED BY <1>1, <1>3, <1>5, FS_Union

\* A comment as the model bounds it.
Comment(c) ==
  c.range.from \in Int /\ c.range.to \in Int /\ c.ops \in SUBSET PlanOp /\ IsFiniteSet(c.ops)

\* Operations in a range, none of them empty.
OpsIn(range, ops) ==
  /\ range.from \in Int /\ range.to \in Int /\ range.from <= range.to
  /\ ops \in SUBSET PlanOp /\ IsFiniteSet(ops)
  /\ \A o \in ops : range.from <= o.from /\ o.from < o.to /\ o.to <= range.to

\* A comment on a program of length n.
Fitting(c, n) == OpsIn(c.range, c.ops) /\ 0 <= c.range.from /\ c.range.to <= n

LEMMA LengthInt ==
  ASSUME NEW l \in List
  PROVE  LengthOf(l.edits) \in Int
<1>1. l.edits \in Seq(Segment)
      BY ListFacts
<1>2. l.edits # <<>> => Last(l.edits) \in Segment
      BY <1>1 DEF Last
<1> QED BY <1>2, SegmentFacts DEF LengthOf

LEMMA CommentsFit ==
  ASSUME NEW l \in List, NEW comments \in CommentsOn(l)
  PROVE  IsFiniteSet(comments) /\ \A c \in comments : Fitting(c, LengthOf(l.edits))
<1> DEFINE n == LengthOf(l.edits)
           OneOrTwo(S) == {{a, b} : a, b \in S}
           every == UNION {[range : {r}, ops : OneOrTwo(Ops(r))] : r \in Spans(n)}
           plans == {c \in every : OpsOf(c.ops, "keep") = {} => c.range = Hull(c.ops)}
           singles == {c \in plans : Cardinality(c.ops) = 1}
<1>1. n \in Int
      BY LengthInt
<1> HIDE DEF n
<1>2. ASSUME NEW c \in every PROVE Fitting(c, n)
  <2>1. PICK r \in Spans(n) : c \in [range : {r}, ops : OneOrTwo(Ops(r))]
        OBVIOUS
  <2>2. r.from \in Int /\ r.to \in Int /\ 0 <= r.from /\ r.from <= r.to /\ r.to <= n
        BY <1>1 DEF Spans, Nonempty
  <2>3. c.range = r
        BY <2>1
  <2>4. PICK a \in Ops(r), b \in Ops(r) : c.ops = {a, b}
        BY <2>1
  <2>5. \A o \in Ops(r) : o \in PlanOp /\ r.from <= o.from /\ o.from < o.to /\ o.to <= r.to
    <3>1. \A o \in Ops(r) : /\ o \in [op : {"cut", "keep", "broll"}, from : Int, to : Int]
                            /\ o.from \in Int /\ o.to \in Int /\ o.from < o.to
                            /\ r.from <= o.from /\ o.to <= r.to
          BY <2>2 DEF Ops, Nonempty
    <3>2. \A o \in Ops(r) : o.from <= o.to
          BY <3>1
    <3> QED BY <3>1, <3>2 DEF PlanOp, Forward
  <2>6. IsFiniteSet(c.ops)
    <3> HIDE DEF every, plans, singles
    <3>1. IsFiniteSet({a, b})
          BY FinitePair
    <3> QED BY <2>4, <3>1
  <2> HIDE DEF every, plans, singles
  <2>7. OpsIn(r, c.ops)
        BY <2>2, <2>4, <2>5, <2>6 DEF OpsIn
  <2> QED BY <2>2, <2>3, <2>7 DEF Fitting
<1>3. CommentsOn(l) = {{c} : c \in plans} \cup OneOrTwo(singles)
      BY DEF CommentsOn, n
<1> HIDE DEF every
<1>4. plans \subseteq every /\ singles \subseteq every
      OBVIOUS
<1> HIDE DEF plans, singles
<1>5. \/ \E c \in plans : comments = {c}
      \/ \E a \in singles, b \in singles : comments = {a, b}
  <2>1. CASE comments \in {{c} : c \in plans}
        BY <2>1
  <2>2. CASE comments \in {{a, b} : a, b \in singles}
        BY <2>2
  <2> QED BY <1>3, <2>1, <2>2
<1>6. \E a, b \in every : comments = {a, b}
  <2>1. \A c \in plans : {c} = {c, c}
        OBVIOUS
  <2> QED BY <1>4, <1>5, <2>1
<1> QED BY <1>2, <1>6, FinitePair DEF n

LEMMA CommentsType ==
  ASSUME NEW l \in List, NEW comments \in CommentsOn(l)
  PROVE  IsFiniteSet(comments) /\ \A c \in comments : Comment(c)
<1>1. IsFiniteSet(comments) /\ \A c \in comments : Fitting(c, LengthOf(l.edits))
      BY CommentsFit
<1> QED BY <1>1 DEF Fitting, OpsIn, Comment

\* What a batch asks together: the B-roll of its comments, and as cuts what they take out.
AsCuts(c) == {[op |-> "cut", from |-> r.from, to |-> r.to] : r \in CutsOf(c)}
AsOps(c) == OpsOf(c.ops, "broll") \cup AsCuts(c)
BatchOf(comments) == UNION {AsOps(c) : c \in comments}

LEMMA BatchType ==
  ASSUME NEW comments, IsFiniteSet(comments), \A c \in comments : Comment(c)
  PROVE  BatchOf(comments) \in SUBSET PlanOp /\ IsFiniteSet(BatchOf(comments))
<1> DEFINE all == [c \in comments |-> AsOps(c)]
<1>1. ASSUME NEW c \in comments PROVE AsOps(c) \in SUBSET PlanOp /\ IsFiniteSet(AsOps(c))
  <2> DEFINE f == [r \in CutsOf(c) |-> [op |-> "cut", from |-> r.from, to |-> r.to]]
  <2>1. Comment(c)
        OBVIOUS
  <2>2. CutsOf(c) \in SUBSET Stretch /\ IsFiniteSet(CutsOf(c))
        BY <2>1, CutsOfType DEF Comment
  <2>3. AsCuts(c) = {f[r] : r \in CutsOf(c)} /\ DOMAIN f = CutsOf(c)
        BY DEF AsCuts
  <2>4. AsCuts(c) \in SUBSET PlanOp
        BY <2>2, StretchFacts DEF PlanOp, Forward, AsCuts
  <2>5. OpsOf(c.ops, "broll") \in SUBSET c.ops
        BY DEF OpsOf
  <2> HIDE DEF f
  <2>6. IsFiniteSet(AsCuts(c))
        BY <2>2, <2>3, FiniteImage
  <2>7. IsFiniteSet(OpsOf(c.ops, "broll"))
        BY <2>1, <2>5, FS_Subset DEF Comment
  <2>8. IsFiniteSet(AsOps(c))
        BY <2>6, <2>7, FS_Union DEF AsOps
  <2> QED BY <2>1, <2>4, <2>5, <2>8 DEF Comment, AsOps
<1>2. BatchOf(comments) = UNION {all[c] : c \in comments} /\ DOMAIN all = comments
      BY DEF BatchOf
<1>3. \A c \in comments : all[c] \in SUBSET PlanOp /\ IsFiniteSet(all[c])
      BY <1>1
<1> HIDE DEF all
<1>4. IsFiniteSet({all[c] : c \in comments})
      BY <1>2, FiniteImage
<1> QED BY <1>2, <1>3, <1>4, FS_UNION

\* One comment is followed as it is, several as one plan for the whole program.
LEMMA DraftedIs ==
  ASSUME NEW l, NEW comments, IsFiniteSet(comments)
  PROVE  /\ Cardinality(comments) = 1 =>
              \E c \in comments : comments = {c} /\ Drafted(l, comments) = ApplyPlan(l, c.range, c.ops)
         /\ Cardinality(comments) # 1 /\ Drafted(l, comments) # NoFile =>
              /\ Drafted(l, comments) = ApplyPlan(l, [from |-> 0, to |-> LengthOf(l.edits)], BatchOf(comments))
              /\ \A a, b \in comments : a # b => ~Conflict(a, b)
<1>1. ASSUME Cardinality(comments) = 1
      PROVE  \E c \in comments : comments = {c} /\ Drafted(l, comments) = ApplyPlan(l, c.range, c.ops)
  <2> DEFINE c == CHOOSE c \in comments : TRUE
  <2>1. PICK x : comments = {x}
        BY <1>1, FS_Singleton
  <2>2. c \in comments /\ comments = {c}
        BY <2>1
  <2>3. Drafted(l, comments) = ApplyPlan(l, c.range, c.ops)
        BY <1>1 DEF Drafted
  <2> HIDE DEF c
  <2> QED BY <2>2, <2>3
<1>2. ASSUME Cardinality(comments) # 1, Drafted(l, comments) # NoFile
      PROVE  /\ Drafted(l, comments) = ApplyPlan(l, [from |-> 0, to |-> LengthOf(l.edits)], BatchOf(comments))
             /\ \A a, b \in comments : a # b => ~Conflict(a, b)
      BY <1>2 DEF Drafted, BatchOf, AsOps, AsCuts
<1> QED BY <1>1, <1>2

\* A draft of a batch is a revision of the program it was made of.
LEMMA DraftedFacts ==
  ASSUME NEW l \in List, NEW comments, IsFiniteSet(comments), \A c \in comments : Comment(c),
         Drafted(l, comments) # NoFile
  PROVE  RevisedFrom(Drafted(l, comments), l)
<1> DEFINE whole == [from |-> 0, to |-> LengthOf(l.edits)]
<1>1. whole.from \in Int /\ whole.to \in Int
      BY LengthInt
<1>2. BatchOf(comments) \in SUBSET PlanOp /\ IsFiniteSet(BatchOf(comments))
      BY BatchType
<1>3. CASE Cardinality(comments) = 1
  <2>1. PICK c \in comments : comments = {c} /\ Drafted(l, comments) = ApplyPlan(l, c.range, c.ops)
        BY <1>3, DraftedIs
  <2> QED BY <2>1, ApplyPlanFacts DEF Comment
<1>4. CASE Cardinality(comments) # 1
  <2>1. Drafted(l, comments) = ApplyPlan(l, whole, BatchOf(comments))
        BY <1>4, DraftedIs
  <2> HIDE DEF whole
  <2> QED BY <1>1, <1>2, <2>1, ApplyPlanFacts
<1> QED BY <1>3, <1>4

-----------------------------------------------------------------------------
(* The invariant.                                                          *)

PlainCuts(l) == \A c \in ToSet(l.cuts) : Plain(c)
\* Islands with one key are one island.
Keyed(l) == \A c, d \in ToSet(l.cuts) : c.key = d.key => SameFootage(c, d)

Tidy(l) == Contiguous(l.edits) /\ (drafts = 0 => PlainCuts(l)) /\ (MaxDrafts <= 1 => Keyed(l))

ListsAreTidy ==
  /\ Tidy(list)
  /\ \A d \in Deliveries : making[d] # NoFile => Tidy(making[d].list)
  /\ file # NoFile => Tidy(file.list)

\* What a file shows is the list it was made of, after the review it was made by.
FileIsMade == file # NoFile => file.shown = Effective(file.list, file.overrides)

EditListsInv == EditListsTypeOK /\ ListsAreTidy /\ FileIsMade

LEMMA PlainIsKeyed ==
  ASSUME NEW l, PlainCuts(l)
  PROVE  Keyed(l)
BY DEF PlainCuts, Plain, Keyed, SameFootage

LEMMA EffectiveIsPlain ==
  ASSUME NEW l \in List, NEW o \in Review, PlainCuts(l)
  PROVE  PlainCuts(Effective(l, o))
<1>1. ToSet(Effective(l, o).cuts)
        = (ToSet(l.cuts) \cap NotPutBack(RestoredOf(l, o))) \cup {ManualCut(x) : x \in o.extra}
      BY EffectiveFacts
<1>2. \A x : Plain(ManualCut(x))
      BY DEF Plain, ManualCut
<1> QED BY <1>1, <1>2 DEF PlainCuts

\* Where an edit of a program without gaps begins: no earlier than the ones before it end.
LEMMA InOrder ==
  ASSUME NEW edits \in Seq(Segment), Contiguous(edits)
  PROVE  \A i, j \in 1..Len(edits) : i < j => EndOf(edits[i]) <= edits[j].at
<1> DEFINE n == Len(edits)
<1>1. n \in Nat /\ DOMAIN edits = 1..n /\ \A i \in 1..n : edits[i] \in Segment
      OBVIOUS
<1>2. \A i \in 1..n : /\ edits[i].at \in Int /\ EndOf(edits[i]) \in Int /\ edits[i].at <= EndOf(edits[i])
                      /\ i # 1 => edits[i].at = EndOf(edits[i - 1])
  <2> TAKE i \in 1..n
  <2>1. /\ edits[i].at \in Int /\ edits[i].from \in Int /\ edits[i].to \in Int /\ edits[i].from <= edits[i].to
        BY <1>1, SegmentFacts
  <2>2. i # 1 => edits[i].at = EndOf(edits[i - 1])
        BY <1>1 DEF Contiguous
  <2> QED BY <2>1, <2>2 DEF EndOf
<1> HIDE DEF n
<1>3. ASSUME NEW i \in 1..n PROVE \A j \in 1..n : i < j => EndOf(edits[i]) <= edits[j].at
  <2> DEFINE P == {j \in 0..n : i < j => EndOf(edits[i]) <= edits[j].at}
  <2>1. P \in SUBSET (0..n) /\ 0 \in P
        BY <1>1
  <2>2. ASSUME NEW j \in 1..n, j - 1 \in P PROVE j \in P
    <3>1. CASE i < j
      <4>1. j # 1 /\ j - 1 \in 1..n /\ (i = j - 1 \/ i < j - 1)
            BY <1>1, <3>1
      <4>2. edits[j].at = EndOf(edits[j - 1]) /\ edits[j - 1].at <= EndOf(edits[j - 1])
            /\ edits[j - 1].at \in Int /\ EndOf(edits[j - 1]) \in Int /\ EndOf(edits[i]) \in Int
            BY <1>2, <4>1
      <4>3. EndOf(edits[i]) <= edits[j].at
            BY <2>2, <4>1, <4>2
      <4> QED BY <1>1, <4>3
    <3>2. CASE ~(i < j)
          BY <1>1, <3>2
    <3> QED BY <3>1, <3>2
  <2> HIDE DEF P
  <2>3. P = 0..n
        BY <1>1, <2>1, <2>2, PrefixInduction
  <2> QED BY <1>1, <2>3 DEF P
<1> QED BY <1>3 DEF n

\* What a draft takes out of one program has keys of its own.
LEMMA RevisionIsKeyed ==
  ASSUME NEW l \in List, Contiguous(l.edits), PlainCuts(l), NEW draft, RevisedFrom(draft, l)
  PROVE  Keyed(draft)
<1>1. /\ l.edits \in Seq(Segment) /\ DOMAIN l.edits = 1..Len(l.edits) /\ Len(l.edits) \in Nat
      /\ ToSet(l.edits) = {l.edits[i] : i \in 1..Len(l.edits)}
      BY ListFacts DEF ToSet
<1>2. \A i \in 1..Len(l.edits) : l.edits[i] \in Segment
      BY <1>1
<1>3. SUFFICES ASSUME NEW c \in ToSet(draft.cuts), NEW d \in ToSet(draft.cuts), c.key = d.key
               PROVE  SameFootage(c, d)
      BY DEF Keyed
<1>4. \A x \in ToSet(draft.cuts) : \/ Plain(x)
                                   \/ \E i \in 1..Len(l.edits) : TakenOut(x, l.edits[i])
      BY <1>1 DEF RevisedFrom, PlainCuts
<1>5. \A x, e : TakenOut(x, e) => x.key[1] = "feedback"
      BY DEF TakenOut
<1>6. CASE Plain(c)
  <2>1. c.key[1] # "feedback"
        BY <1>6 DEF Plain
  <2>2. Plain(d)
        BY <1>3, <1>4, <1>5, <2>1
  <2> QED BY <1>3, <1>6, <2>2 DEF Plain, SameFootage
<1>7. CASE ~Plain(c)
  <2>1. PICK i \in 1..Len(l.edits) : TakenOut(c, l.edits[i])
        BY <1>4, <1>7
  <2>2. d.key[1] = "feedback"
        BY <1>3, <1>5, <2>1
  <2>3. PICK j \in 1..Len(l.edits) : TakenOut(d, l.edits[j])
        BY <1>4, <2>2 DEF Plain
  <2> DEFINE e == l.edits[i]
             f == l.edits[j]
  <2>4. PICK r \in Stretch :
          /\ e.at <= r.from /\ r.from < r.to /\ r.to <= EndOf(e)
          /\ c.key = <<"feedback", e.clip, r.from, r.to>> /\ c.clip = e.clip
          /\ c.from = e.from + r.from - e.at /\ c.to = e.from + r.to - e.at
        BY <2>1 DEF TakenOut
  <2>5. PICK s \in Stretch :
          /\ f.at <= s.from /\ s.from < s.to /\ s.to <= EndOf(f)
          /\ d.key = <<"feedback", f.clip, s.from, s.to>> /\ d.clip = f.clip
          /\ d.from = f.from + s.from - f.at /\ d.to = f.from + s.to - f.at
        BY <2>3 DEF TakenOut
  <2>6. r.from = s.from /\ r.to = s.to
    <3> HIDE DEF e, f
    <3>1. c.key[3] = r.from /\ c.key[4] = r.to
          BY <2>4
    <3>2. d.key[3] = s.from /\ d.key[4] = s.to
          BY <2>5
    <3> QED BY <1>3, <3>1, <3>2
  <2>7. /\ r.from \in Int /\ r.to \in Int
        /\ e.at \in Int /\ f.at \in Int /\ EndOf(e) \in Int /\ EndOf(f) \in Int
    <3>1. e \in Segment /\ f \in Segment
          BY <1>2
    <3> HIDE DEF e, f
    <3> QED BY <3>1, SegmentFacts, StretchFacts DEF EndOf
  <2>8. i = j
    <3>1. i < j => EndOf(e) <= f.at
          BY <1>1, InOrder
    <3>2. j < i => EndOf(f) <= e.at
          BY <1>1, InOrder
    <3> HIDE DEF e, f
    <3>3. ~(EndOf(e) <= f.at) /\ ~(EndOf(f) <= e.at)
          BY <2>4, <2>5, <2>6, <2>7, SMTT(30)
    <3>4. i \in Nat /\ j \in Nat
          BY <1>1
    <3> QED BY <3>1, <3>2, <3>3, <3>4
  <2> QED BY <2>4, <2>5, <2>6, <2>8 DEF SameFootage
<1> QED BY <1>6, <1>7

LEMMA NoFileFacts == NoFile \notin List /\ NoFile \notin Made /\ NoFile \notin Rendered
  BY NoFileAssumption

LEMMA AssembledIsTidy ==
  ASSUME NEW heard \in Heard
  PROVE  Assembled(heard) \in List /\ Tidy(Assembled(heard))
<1>1. Assembled(heard) \in List /\ Contiguous(Assembled(heard).edits) /\ PlainCuts(Assembled(heard))
      BY AssembledFacts DEF PlainCuts
<1> QED BY <1>1, PlainIsKeyed DEF Tidy

LEMMA InitEdits == EditListsInit => EditListsInv
<1> SUFFICES ASSUME EditListsInit PROVE EditListsInv
    OBVIOUS
<1>1. PICK heard \in Heard : list = Assembled(heard)
      BY DEF EditListsInit
<1>2. list \in List /\ Tidy(list)
      BY <1>1, AssembledIsTidy
<1>3. overrides \in Review /\ file = NoFile /\ drafts = 0 /\ making = [d \in Deliveries |-> NoFile]
      BY NoOverridesType DEF EditListsInit
<1>4. 0 \in 0..MaxDrafts
      BY EditListsBoundsAssumption
<1> QED BY <1>2, <1>3, <1>4 DEF EditListsInv, EditListsTypeOK, ListsAreTidy, FileIsMade

LEMMA MadeFacts ==
  \A m \in Made : m.list \in List /\ m.overrides \in Review
  BY DEF Made

LEMMA RenderedFacts ==
  \A f \in Rendered : f.shown \in List /\ f.list \in List /\ f.overrides \in Review
  BY DEF Rendered

LEMMA StepEdits == EditListsInv /\ [EditListsNext]_editListVars => EditListsInv'
<1> SUFFICES ASSUME EditListsInv, [EditListsNext]_editListVars PROVE EditListsInv'
    OBVIOUS
<1> USE DEF EditListsInv
<1>1. ASSUME NEW heard \in HeardAgain, Reassemble(heard) PROVE EditListsInv'
  <2>1. heard \in Heard
        BY EditListsBoundsAssumption
  <2>2. list' = Assembled(heard) /\ UNCHANGED <<overrides, making, file, drafts>>
        BY <1>1 DEF Reassemble
  <2>3. Assembled(heard) \in List /\ Tidy(Assembled(heard))
        BY <2>1, AssembledIsTidy
  <2>4. EditListsTypeOK'
        BY <2>2, <2>3 DEF EditListsTypeOK
  <2>5. ListsAreTidy'
        BY <2>2, <2>3 DEF ListsAreTidy, Tidy
  <2>6. FileIsMade'
        BY <2>2 DEF FileIsMade
  <2> QED BY <2>4, <2>5, <2>6
<1>2. ASSUME NEW o \in Overrides(list), SaveOverrides(o) PROVE EditListsInv'
  <2>1. overrides' = o /\ UNCHANGED <<list, making, file, drafts>>
        BY <1>2 DEF SaveOverrides
  <2>2. o \in Review
        BY OverridesType DEF EditListsTypeOK
  <2>3. EditListsTypeOK'
        BY <2>1, <2>2 DEF EditListsTypeOK
  <2>4. ListsAreTidy' /\ FileIsMade'
        BY <2>1 DEF ListsAreTidy, Tidy, FileIsMade
  <2> QED BY <2>3, <2>4
<1>3. ASSUME NEW d \in Deliveries, StartMaking(d) PROVE EditListsInv'
  <2> DEFINE m == [list |-> list, overrides |-> overrides]
  <2>1. making' = [making EXCEPT ![d] = m] /\ UNCHANGED <<list, overrides, file, drafts>>
        BY <1>3 DEF StartMaking
  <2>2. m \in Made /\ m.list = list
        BY DEF EditListsTypeOK, Made
  <2> HIDE DEF m
  <2>3. EditListsTypeOK'
        BY <2>1, <2>2 DEF EditListsTypeOK
  <2>4. \A x \in Deliveries : making'[x] = IF x = d THEN m ELSE making[x]
        BY <2>1 DEF EditListsTypeOK
  <2>5. ListsAreTidy'
        BY <2>1, <2>2, <2>4 DEF ListsAreTidy, Tidy
  <2>6. FileIsMade'
        BY <2>1 DEF FileIsMade
  <2> QED BY <2>3, <2>5, <2>6
<1>4. ASSUME NEW d \in Deliveries, StoreFile(d) PROVE EditListsInv'
  <2> DEFINE m == making[d]
             f == [shown |-> Effective(m.list, m.overrides), list |-> m.list, overrides |-> m.overrides]
  <2>1. /\ making[d] # NoFile /\ making' = [making EXCEPT ![d] = NoFile] /\ file' = f
        /\ UNCHANGED <<list, overrides, drafts>>
        BY <1>4 DEF StoreFile
  <2>2. m \in Made
        BY <2>1 DEF EditListsTypeOK
  <2>3. m.list \in List /\ m.overrides \in Review
        BY <2>2, MadeFacts
  <2>4. Effective(m.list, m.overrides) \in List
        BY <2>3, EffectiveFacts
  <2>5. f \in Rendered /\ f.list = m.list /\ f.overrides = m.overrides /\ f.shown = Effective(m.list, m.overrides)
        BY <2>3, <2>4 DEF Rendered
  <2>6. \A x \in Deliveries : making'[x] = IF x = d THEN NoFile ELSE making[x]
        BY <2>1 DEF EditListsTypeOK
  <2>7. Tidy(m.list)
        BY <2>1 DEF ListsAreTidy
  <2> HIDE DEF f
  <2>8. EditListsTypeOK'
        BY <2>1, <2>5 DEF EditListsTypeOK
  <2>9. ListsAreTidy'
        BY <2>1, <2>5, <2>6, <2>7 DEF ListsAreTidy, Tidy
  <2>10. FileIsMade'
        BY <2>1, <2>5 DEF FileIsMade
  <2> QED BY <2>8, <2>9, <2>10
<1>5. ASSUME NEW d \in Deliveries, FailMaking(d) PROVE EditListsInv'
  <2>1. making' = [making EXCEPT ![d] = NoFile] /\ UNCHANGED <<list, overrides, file, drafts>>
        BY <1>5 DEF FailMaking
  <2>2. EditListsTypeOK'
        BY <2>1 DEF EditListsTypeOK
  <2>3. \A x \in Deliveries : making'[x] = IF x = d THEN NoFile ELSE making[x]
        BY <2>1 DEF EditListsTypeOK
  <2>4. ListsAreTidy'
        BY <2>1, <2>3 DEF ListsAreTidy, Tidy
  <2>5. FileIsMade'
        BY <2>1 DEF FileIsMade
  <2> QED BY <2>2, <2>4, <2>5
<1>6. ASSUME MayAsk, NEW comments \in CommentsOn(file.shown), MakeDraft(comments) PROVE EditListsInv'
  <2> DEFINE draft == Drafted(file.shown, comments)
  <2>1. /\ draft # NoFile /\ list' = draft /\ overrides' = NoOverrides /\ file' = NoFile
        /\ drafts' = drafts + 1 /\ making' = making
        BY <1>6 DEF MakeDraft
  <2>2. file # NoFile /\ drafts < MaxDrafts /\ \A d \in Deliveries : making[d] = NoFile
        BY <1>6 DEF MayAsk
  <2>3. file \in Rendered
        BY <2>2 DEF EditListsTypeOK
  <2>4. file.shown \in List /\ file.list \in List /\ file.overrides \in Review
        /\ file.shown = Effective(file.list, file.overrides) /\ Tidy(file.list)
        BY <2>2, <2>3, RenderedFacts DEF FileIsMade, ListsAreTidy
  <2>5. Contiguous(file.shown.edits)
        BY <2>4, EffectiveFacts DEF Tidy
  <2>6. RevisedFrom(draft, file.shown)
        BY <2>1, <2>4, CommentsType, DraftedFacts
  <2>7. drafts \in Nat /\ drafts + 1 \in 0..MaxDrafts /\ drafts + 1 # 0 /\ (MaxDrafts <= 1 => drafts = 0)
        BY <2>2, EditListsBoundsAssumption DEF EditListsTypeOK
  <2>8. MaxDrafts <= 1 => Keyed(draft)
    <3>1. ASSUME MaxDrafts <= 1 PROVE PlainCuts(file.shown)
          BY <2>4, <2>7, <3>1, EffectiveIsPlain DEF Tidy
    <3> HIDE DEF draft
    <3> QED BY <2>4, <2>5, <2>6, <3>1, RevisionIsKeyed
  <2> HIDE DEF draft
  <2>9. draft \in List /\ Contiguous(draft.edits)
        BY <2>6 DEF RevisedFrom
  <2>10. EditListsTypeOK'
        BY <2>1, <2>7, <2>9, NoOverridesType DEF EditListsTypeOK
  <2>11. ListsAreTidy'
        BY <2>1, <2>2, <2>7, <2>8, <2>9 DEF ListsAreTidy, Tidy
  <2>12. FileIsMade'
        BY <2>1 DEF FileIsMade
  <2> QED BY <2>10, <2>11, <2>12
<1>7. CASE UNCHANGED editListVars
  <2>1. UNCHANGED <<list, overrides, making, file, drafts>>
        BY <1>7 DEF editListVars
  <2> QED BY <2>1 DEF EditListsTypeOK, ListsAreTidy, Tidy, FileIsMade
<1> QED BY <1>1, <1>2, <1>3, <1>4, <1>5, <1>6, <1>7 DEF EditListsNext

\* Lists, reviews, jobs at work and files keep their types from assembly to the drafts: no
\* edit, island or overlay ends before it begins.
THEOREM EditListsTypeCorrect == EditListsSpec => []EditListsTypeOK
<1>1. EditListsInv => EditListsTypeOK
      BY DEF EditListsInv
<1> QED BY <1>1, InitEdits, StepEdits, PTL DEF EditListsSpec

\* The islands of a list that a review puts back are those it names, when each has a key of its own.
LEMMA PutBackFootage ==
  ASSUME NEW l \in List, Keyed(l), NEW o
  PROVE  Footage(ToSet(RestoredOf(l, o))) = Footage({c \in ToSet(l.cuts) : c.key \in o.restored})
<1> DEFINE named == {c \in ToSet(l.cuts) : c.key \in o.restored}
           put == ToSet(RestoredOf(l, o))
<1>1. put \subseteq named
      BY RestoredFacts
<1>2. \A c \in named : \E d \in put : SameFootage(c, d)
      BY <1>1, RestoredFacts DEF Keyed
<1>3. \A c, d : SameFootage(c, d) => Shots(c) = Shots(d)
      BY DEF SameFootage, Shots
<1> HIDE DEF named, put
<1>4. \A f : f \in Footage(put) <=> \E c \in put : f \in Shots(c)
      BY FootageOfParts
<1>5. \A f : f \in Footage(named) <=> \E c \in named : f \in Shots(c)
      BY FootageOfParts
<1>6. \A f : f \in Footage(put) <=> f \in Footage(named)
      BY <1>1, <1>2, <1>3, <1>4, <1>5
<1> QED BY <1>6 DEF named, put

LEMMA MissingListed == EditListsInv /\ MaxDrafts <= 1 => MissingIsListed
<1> SUFFICES ASSUME EditListsInv, MaxDrafts <= 1, file # NoFile
             PROVE  Footage(ToSet(file.list.cuts)) \ ToSet(FramesOf(file.shown.edits))
                      \subseteq Footage(ToSet(file.shown.cuts))
    BY DEF MissingIsListed
<1> DEFINE l == file.list
           o == file.overrides
           put == ToSet(RestoredOf(l, o))
<1>1. l \in List /\ o \in Review /\ file.shown = Effective(l, o) /\ file.shown \in List /\ Keyed(l)
      BY RenderedFacts DEF EditListsInv, EditListsTypeOK, FileIsMade, ListsAreTidy, Tidy
<1> HIDE DEF l, o
<1>2. /\ ToSet(FramesOf(file.shown.edits)) = Decided(l, o)
      /\ ToSet(file.shown.cuts) = (ToSet(l.cuts) \cap NotPutBack(RestoredOf(l, o))) \cup {ManualCut(x) : x \in o.extra}
  <2>1. file.shown.edits \in Seq(Segment)
        BY <1>1, ListFacts
  <2> QED BY <1>1, <2>1, EffectiveFacts, FramesFacts
<1>3. ASSUME NEW f \in Footage(ToSet(l.cuts)), f \notin Decided(l, o)
      PROVE  f \in Footage(ToSet(file.shown.cuts))
  <2>1. \A P : Footage(P) = UNION {Shots(p) : p \in P}
        BY FootageOfParts
  <2>2. PICK c \in ToSet(l.cuts) : f \in Shots(c)
        BY <2>1
  <2>3. CASE f \in Footage(o.extra)
    <3>1. PICK x \in o.extra : f \in Shots(x)
          BY <2>1, <2>3
    <3>2. Shots(ManualCut(x)) = Shots(x)
          BY DEF Shots, ManualCut
    <3>3. ManualCut(x) \in ToSet(file.shown.cuts)
          BY <1>2
    <3> QED BY <2>1, <3>1, <3>2, <3>3
  <2>4. CASE f \notin Footage(o.extra)
    <3>1. f \notin Footage(put)
          BY <1>3, <2>4 DEF Decided
    <3>2. \A d \in put : d \in ToSet(l.cuts) /\ ~SameFootage(c, d)
      <4>1. \A d : SameFootage(c, d) => Shots(c) = Shots(d)
            BY DEF SameFootage, Shots
      <4>2. put \subseteq ToSet(l.cuts)
            BY <1>1, RestoredFacts
      <4> HIDE DEF put
      <4> QED BY <2>1, <2>2, <3>1, <4>1, <4>2
    <3>3. \A d \in put : c.key # d.key
          BY <1>1, <3>2 DEF Keyed
    <3>4. c \in Island
      <4>1. l.cuts \in Seq(Island)
            BY <1>1, ListFacts
      <4> QED BY <4>1 DEF ToSet
    <3>5. c \in NotPutBack(RestoredOf(l, o))
          BY <3>3, <3>4 DEF NotPutBack
    <3>6. c \in ToSet(file.shown.cuts)
          BY <1>2, <3>5
    <3> QED BY <2>1, <2>2, <3>6
  <2> QED BY <2>3, <2>4
<1> QED BY <1>2, <1>3 DEF l

\* Up to the first draft a file's cut list names all that is missing: no two islands of one
\* list have the same key, for a draft names what it takes out by where it lay in one program.
\* (From the second draft on two islands may, and one put back hides the other.)
THEOREM FirstDraftListsMissing ==
  ASSUME MaxDrafts <= 1
  PROVE  EditListsSpec => []MissingIsListed
<1> QED BY InitEdits, StepEdits, MissingListed, PTL DEF EditListsSpec

\* A file that needs no new render is made of the list by the review as it is, and shows the
\* frames of the list and those put back, without those cut.
FilesShowFootage ==
  file # NoFile /\ file.list = list /\ ~NeedsRender(list, overrides, file.overrides) =>
    /\ file.shown = Effective(list, overrides)
    /\ ToSet(FramesOf(file.shown.edits))
         = (ToSet(FramesOf(list.edits)) \cup Footage({c \in ToSet(list.cuts) : c.key \in overrides.restored}))
             \ Footage(overrides.extra)

LEMMA SameReview ==
  ASSUME NEW l \in List, NEW o, NEW p, Affecting(l, o) = Affecting(l, p)
  PROVE  Effective(l, o) = Effective(l, p)
<1>1. o.extra = p.extra /\ o.restored \cap Keys(l) = p.restored \cap Keys(l)
      BY DEF Affecting
<1>2. DOMAIN l.cuts = 1..Len(l.cuts) /\ \A i \in DOMAIN l.cuts : l.cuts[i] \in ToSet(l.cuts)
      BY ListFacts DEF ToSet
<1>3. \A i \in DOMAIN l.cuts : l.cuts[i].key \in o.restored <=> l.cuts[i].key \in p.restored
      BY <1>1, <1>2 DEF Keys
<1>4. RestoredOf(l, o) = RestoredOf(l, p)
  <2> DEFINE First(i) == \A j \in 1..i - 1 : l.cuts[j].key # l.cuts[i].key
  <2>1. [i \in DOMAIN l.cuts |-> IF l.cuts[i].key \in o.restored /\ First(i) THEN <<l.cuts[i]>> ELSE <<>>]
          = [i \in DOMAIN l.cuts |-> IF l.cuts[i].key \in p.restored /\ First(i) THEN <<l.cuts[i]>> ELSE <<>>]
        BY <1>3
  <2> QED BY <2>1 DEF RestoredOf
<1>5. Changes(l, o) <=> Changes(l, p)
      BY <1>1 DEF Changes
<1> DEFINE program(islands, cut) ==
             LET extra == SetToSeq(cut)
                 parts == FoldLeft(Minus, FoldLeft(PutBack, l.edits, islands), extra)
                 edits == Sorted(parts, [e \in ToSet(parts) |-> OffsetOf(e.clip) + e.from])
             IN [edits |-> Packed(Joined(edits)),
                 cuts |-> Where(l.cuts, LAMBDA c : c.key \notin {i.key : i \in ToSet(islands)})
                            \o Mapped(extra, LAMBDA x : [key |-> <<"manual", x.clip, x.from, x.to>>,
                                                         clip |-> x.clip, from |-> x.from, to |-> x.to]),
                 overlays |-> Remapped(l.overlays, Mapping(edits))]
<1>6. \A r : Effective(l, r) = IF ~Changes(l, r) THEN l ELSE program(RestoredOf(l, r), r.extra)
      BY DEF Effective
<1> HIDE DEF program
<1> QED BY <1>1, <1>4, <1>5, <1>6

LEMMA FootageShown == EditListsInv /\ MaxDrafts <= 1 => FilesShowFootage
<1> SUFFICES ASSUME EditListsInv, MaxDrafts <= 1, file # NoFile, file.list = list,
                    ~NeedsRender(list, overrides, file.overrides)
             PROVE  /\ file.shown = Effective(list, overrides)
                    /\ ToSet(FramesOf(file.shown.edits))
                         = (ToSet(FramesOf(list.edits))
                              \cup Footage({c \in ToSet(list.cuts) : c.key \in overrides.restored}))
                             \ Footage(overrides.extra)
    BY DEF FilesShowFootage
<1>1. list \in List /\ overrides \in Review /\ Keyed(list)
      BY DEF EditListsInv, EditListsTypeOK, ListsAreTidy, Tidy
<1>2. file.shown = Effective(list, overrides)
      BY <1>1, SameReview DEF EditListsInv, FileIsMade, NeedsRender
<1>3. Effective(list, overrides) \in List /\ Footage(ToSet(Effective(list, overrides).edits)) = Decided(list, overrides)
      BY <1>1, EffectiveFacts
<1>4. /\ ToSet(FramesOf(Effective(list, overrides).edits)) = Decided(list, overrides)
      /\ ToSet(FramesOf(list.edits)) = Footage(ToSet(list.edits))
      BY <1>1, <1>3, ListFacts, FramesFacts
<1>5. Footage(ToSet(RestoredOf(list, overrides)))
        = Footage({c \in ToSet(list.cuts) : c.key \in overrides.restored})
      BY <1>1, PutBackFootage
<1> QED BY <1>2, <1>4, <1>5 DEF Decided

\* For any clips, speech and reviews, up to the first draft: a file that needs no new render
\* (needsRender) shows the frames the list holds and those the review puts back, without those
\* it cuts, wherever its islands lie. (In which order, and under which overlays:
\* FilesShowDecisionsHolds.)
THEOREM FilesShowFootageHolds ==
  ASSUME MaxDrafts <= 1
  PROVE  EditListsSpec => []FilesShowFootage
<1> QED BY InitEdits, StepEdits, FootageShown, PTL DEF EditListsSpec

-----------------------------------------------------------------------------
(* Sequences in order.                                                     *)

\* Every entry stands in a relation to those after it; every member of one set to every one
\* of another.
Ordered(s, R) == \A i, j \in DOMAIN s : i < j => <<s[i], s[j]>> \in R
Across(A, B, R) == \A x \in A, y \in B : <<x, y>> \in R

LEMMA OrderedConcat ==
  ASSUME NEW S, NEW s \in Seq(S), NEW t \in Seq(S), NEW R
  PROVE  Ordered(s \o t, R) <=> Ordered(s, R) /\ Ordered(t, R) /\ Across(ToSet(s), ToSet(t), R)
<1> DEFINE m == Len(s)
           n == Len(t)
           u == s \o t
<1>1. /\ m \in Nat /\ n \in Nat /\ DOMAIN s = 1..m /\ DOMAIN t = 1..n /\ DOMAIN u = 1..(m + n)
      /\ \A i \in 1..m : u[i] = s[i]
      /\ \A i \in 1..n : u[m + i] = t[i]
      OBVIOUS
<1>2. /\ ToSet(s) = {s[i] : i \in 1..m} /\ ToSet(t) = {t[i] : i \in 1..n}
      BY <1>1 DEF ToSet
<1> HIDE DEF m, n, u
<1>3. /\ \A i \in 1..m : i \in 1..(m + n)
      /\ \A i \in 1..n : m + i \in 1..(m + n)
      /\ \A i \in 1..(m + n) : i \in 1..m \/ (i - m \in 1..n /\ m + (i - m) = i)
      /\ \A i \in 1..m, j \in 1..n : i < m + j
      /\ \A i, j \in 1..n : i < j <=> m + i < m + j
      BY <1>1
<1>4. ASSUME Ordered(u, R) PROVE Ordered(s, R) /\ Ordered(t, R) /\ Across(ToSet(s), ToSet(t), R)
  <2>1. \A i, j \in 1..(m + n) : i < j => <<u[i], u[j]>> \in R
        BY <1>1, <1>4 DEF Ordered
  <2>2. Ordered(s, R)
        BY <1>1, <1>3, <2>1 DEF Ordered
  <2>3. Ordered(t, R)
    <3>1. \A i, j \in 1..n : i < j => <<u[m + i], u[m + j]>> \in R
          BY <1>3, <2>1
    <3> QED BY <1>1, <3>1 DEF Ordered
  <2>4. Across(ToSet(s), ToSet(t), R)
    <3>1. \A i \in 1..m, j \in 1..n : <<u[i], u[m + j]>> \in R
          BY <1>3, <2>1
    <3> QED BY <1>1, <1>2, <3>1 DEF Across
  <2> QED BY <2>2, <2>3, <2>4
<1>5. ASSUME Ordered(s, R), Ordered(t, R), Across(ToSet(s), ToSet(t), R) PROVE Ordered(u, R)
  <2>1. ASSUME NEW i \in 1..(m + n), NEW j \in 1..(m + n), i < j PROVE <<u[i], u[j]>> \in R
    <3>1. CASE i \in 1..m /\ j \in 1..m
          BY <1>1, <1>5, <2>1, <3>1 DEF Ordered
    <3>2. CASE i \in 1..m /\ j \notin 1..m
      <4>1. j - m \in 1..n /\ u[j] = t[j - m]
            BY <1>1, <1>3, <3>2
      <4> QED BY <1>1, <1>2, <1>5, <3>2, <4>1 DEF Across
    <3>3. CASE i \notin 1..m
      <4>1. j \notin 1..m
            BY <1>1, <2>1, <3>3
      <4>2. i - m \in 1..n /\ u[i] = t[i - m] /\ j - m \in 1..n /\ u[j] = t[j - m] /\ i - m < j - m
            BY <1>1, <1>3, <2>1, <3>3, <4>1
      <4> QED BY <1>1, <1>5, <4>2 DEF Ordered
    <3> QED BY <3>1, <3>2, <3>3
  <2> QED BY <1>1, <2>1 DEF Ordered
<1> QED BY <1>4, <1>5 DEF u

LEMMA OrderedOne ==
  ASSUME NEW x, NEW R
  PROVE  Ordered(<<x>>, R) /\ Ordered(<<>>, R) /\ ToSet(<<x>>) = {x} /\ ToSet(<<>>) = {}
<1>1. Ordered(<<x>>, R)
  <2>1. DOMAIN <<x>> = {1}
        OBVIOUS
  <2> QED BY <2>1 DEF Ordered
<1>2. Ordered(<<>>, R)
      BY DEF Ordered
<1>3. ToSet(<<x>>) = {x} /\ ToSet(<<>>) = {}
      BY DEF ToSet
<1> QED BY <1>1, <1>2, <1>3

LEMMA OrderedAppend ==
  ASSUME NEW S, NEW s \in Seq(S), NEW x \in S, NEW R
  PROVE  Ordered(Append(s, x), R) <=> Ordered(s, R) /\ Across(ToSet(s), {x}, R)
<1> DEFINE one == <<x>>
<1>1. one \in Seq(S) /\ Append(s, x) = s \o one
      OBVIOUS
<1>2. Ordered(one, R) /\ ToSet(one) = {x}
      BY OrderedOne
<1> HIDE DEF one
<1>3. Ordered(s \o one, R) <=> Ordered(s, R) /\ Ordered(one, R) /\ Across(ToSet(s), ToSet(one), R)
      BY <1>1, OrderedConcat
<1> QED BY <1>1, <1>2, <1>3

LEMMA OrderedFlatten ==
  ASSUME NEW S, NEW ss \in Seq(Seq(S)), NEW R, \A i \in 1..Len(ss) : Ordered(ss[i], R),
         \A i, j \in 1..Len(ss) : i < j => Across(ToSet(ss[i]), ToSet(ss[j]), R)
  PROVE  Ordered(FlattenSeq(ss), R)
<1> DEFINE n == Len(ss)
<1>1. PICK g \in [0..n -> Seq(S)] :
         /\ g[0] = <<>> /\ FlattenSeq(ss) = g[n]
         /\ \A i \in 1..n : g[i] = g[i - 1] \o ss[i]
      BY FlattenSteps
<1>2. n \in Nat /\ \A i \in 1..n : ss[i] \in Seq(S)
      OBVIOUS
<1> HIDE DEF n
<1> DEFINE Right == {i \in 0..n : /\ Ordered(g[i], R)
                                  /\ \A x \in ToSet(g[i]) : \E j \in 1..i : x \in ToSet(ss[j])}
<1>3. Right \in SUBSET (0..n) /\ 0 \in Right
  <2>1. Ordered(<<>>, R) /\ ToSet(<<>>) = {}
        BY OrderedOne
  <2>2. 0 \in 0..n
        BY <1>2
  <2> QED BY <1>1, <2>1, <2>2
<1>4. ASSUME NEW i \in 1..n, i - 1 \in Right PROVE i \in Right
  <2>1. i \in 0..n /\ i - 1 \in 0..n /\ g[i] = g[i - 1] \o ss[i] /\ g[i - 1] \in Seq(S) /\ ss[i] \in Seq(S)
    <3>1. i \in 0..n /\ i - 1 \in 0..n
          BY <1>2
    <3> QED BY <1>1, <1>2, <3>1
  <2>2. \A x \in ToSet(g[i - 1]) : \E j \in 1..(i - 1) : x \in ToSet(ss[j])
        BY <1>4
  <2>3. \A j \in 1..(i - 1) : j \in 1..n /\ j < i /\ j \in 1..i
        BY <1>2
  <2>4. Across(ToSet(g[i - 1]), ToSet(ss[i]), R)
        BY <2>2, <2>3 DEF Across, n
  <2>5. Ordered(ss[i], R) /\ Ordered(g[i - 1], R)
        BY <1>4 DEF n
  <2>6. Ordered(g[i - 1] \o ss[i], R)
        BY <2>1, <2>4, <2>5, OrderedConcat
  <2>7. ToSet(g[i - 1] \o ss[i]) = ToSet(g[i - 1]) \cup ToSet(ss[i])
        BY <2>1, AppendedSets
  <2>8. i \in 1..i
        BY <1>2
  <2> QED BY <2>1, <2>2, <2>3, <2>6, <2>7, <2>8
<1>5. Right = 0..n
  <2> HIDE DEF Right
  <2> QED BY <1>2, <1>3, <1>4, PrefixInduction
<1>6. n \in 0..n
      BY <1>2
<1> QED BY <1>1, <1>5, <1>6

LEMMA OrderedFilter ==
  ASSUME NEW S, NEW s \in Seq(S), NEW T, NEW R, Ordered(s, R)
  PROVE  Ordered(Filtered(s, T), R)
<1> DEFINE n == Len(s)
           ss == [i \in DOMAIN s |-> IF s[i] \in T THEN <<s[i]>> ELSE <<>>]
<1>1. n \in Nat /\ DOMAIN s = 1..n /\ \A i \in 1..n : s[i] \in S
      OBVIOUS
<1> HIDE DEF n
<1>2. \A i \in 1..n : ss[i] \in Seq(S) /\ (ss[i] = <<s[i]>> \/ ss[i] = <<>>)
      BY <1>1
<1>3. Filtered(s, T) = FlattenSeq(ss) /\ DOMAIN ss = 1..n
      BY <1>1 DEF Filtered
<1>4. ss \in Seq(Seq(S)) /\ Len(ss) = n
  <2>1. ss = [i \in 1..n |-> ss[i]]
        BY <1>1
  <2> HIDE DEF ss
  <2> QED BY <1>1, <1>2, <2>1, SMTT(30)
<1> HIDE DEF ss
<1>5. \A i \in 1..n : Ordered(ss[i], R) /\ ToSet(ss[i]) \subseteq {s[i]}
  <2> TAKE i \in 1..n
  <2>1. Ordered(<<s[i]>>, R) /\ ToSet(<<s[i]>>) = {s[i]} /\ Ordered(<<>>, R) /\ ToSet(<<>>) = {}
        BY OrderedOne
  <2> QED BY <1>2, <2>1
<1>6. \A i, j \in 1..n : i < j => Across(ToSet(ss[i]), ToSet(ss[j]), R)
      BY <1>1, <1>5 DEF Ordered, Across
<1> QED BY <1>3, <1>4, <1>5, <1>6, OrderedFlatten

LEMMA OrderedMore ==
  ASSUME NEW s, NEW R, NEW Q, Ordered(s, R),
         \A x, y \in ToSet(s) : <<x, y>> \in R => <<x, y>> \in Q
  PROVE  Ordered(s, Q)
BY DEF Ordered, ToSet

\* One sequence more is flattened after the ones before it.
LEMMA FlattenAppend ==
  ASSUME NEW S, NEW ss \in Seq(Seq(S)), NEW t \in Seq(S)
  PROVE  FlattenSeq(Append(ss, t)) = FlattenSeq(ss) \o t
<1> DEFINE n == Len(ss)
           tt == Append(ss, t)
<1>1. /\ n \in Nat /\ tt \in Seq(Seq(S)) /\ Len(tt) = n + 1 /\ tt[n + 1] = t
      /\ \A i \in 1..n : tt[i] = ss[i] /\ i \in 1..(n + 1)
      OBVIOUS
<1>2. PICK g \in [0..n -> Seq(S)] :
         /\ g[0] = <<>> /\ FlattenSeq(ss) = g[n]
         /\ \A i \in 1..n : g[i] = g[i - 1] \o ss[i]
      BY FlattenSteps
<1> HIDE DEF n, tt
<1>3. PICK h \in [0..Len(tt) -> Seq(S)] :
         /\ h[0] = <<>> /\ FlattenSeq(tt) = h[Len(tt)]
         /\ \A i \in 1..Len(tt) : h[i] = h[i - 1] \o tt[i]
      BY <1>1, FlattenSteps
<1> DEFINE Same == {i \in 0..n : g[i] = h[i]}
<1>4. Same \in SUBSET (0..n) /\ 0 \in Same
      BY <1>1, <1>2, <1>3
<1>5. ASSUME NEW i \in 1..n, i - 1 \in Same PROVE i \in Same
  <2>1. i \in 0..n /\ i \in 1..Len(tt)
        BY <1>1
  <2>2. g[i] = g[i - 1] \o ss[i] /\ h[i] = h[i - 1] \o ss[i]
        BY <1>1, <1>2, <1>3, <2>1
  <2> QED BY <1>5, <2>1, <2>2
<1>6. Same = 0..n
  <2> HIDE DEF Same
  <2> QED BY <1>1, <1>4, <1>5, PrefixInduction
<1>7. g[n] = h[n]
  <2>1. n \in 0..n
        BY <1>1
  <2> QED BY <1>6, <2>1
<1>8. h[n + 1] = h[n] \o t
  <2>1. n + 1 \in 1..(n + 1) /\ (n + 1) - 1 = n
        BY <1>1
  <2> QED BY <1>1, <1>3, <2>1
<1>9. FlattenSeq(tt) = g[n] \o t
      BY <1>1, <1>3, <1>7, <1>8
<1> QED BY <1>2, <1>9 DEF tt

\* What goes in its place in an ordered sequence leaves it ordered.
LEMMA OrderedPlace ==
  ASSUME NEW S, NEW out \in Seq(S), NEW x \in S, NEW rank, NEW R, Ordered(out, R), rank[x] \in Int,
         \A y \in ToSet(out) : /\ rank[y] \in Int
                               /\ rank[y] <= rank[x] => <<y, x>> \in R
                               /\ rank[x] < rank[y] => <<x, y>> \in R,
         \A y, z \in ToSet(out) : <<y, z>> \in R => rank[y] <= rank[z]
  PROVE  Ordered(Place(out, x, rank), R)
<1> DEFINE n == Len(out)
           before == {i \in DOMAIN out : rank[out[i]] <= rank[x]}
           k == Cardinality(before)
           first == SubSeq(out, 1, k)
           last == SubSeq(out, k + 1, n)
<1>1. /\ n \in Nat /\ DOMAIN out = 1..n /\ \A i \in 1..n : out[i] \in ToSet(out) /\ rank[out[i]] \in Int
  <2>1. n \in Nat /\ DOMAIN out = 1..n
        OBVIOUS
  <2>2. \A i \in DOMAIN out : out[i] \in ToSet(out)
        BY DEF ToSet
  <2> QED BY <2>1, <2>2
<1>2. k \in 0..n /\ before = 1..k
  <2>1. \A i \in before, j \in 1..n : j < i => j \in before
    <3> TAKE i \in before, j \in 1..n
    <3> HAVE j < i
    <3>1. i \in 1..n /\ rank[out[i]] <= rank[x]
          BY <1>1
    <3>2. rank[out[j]] <= rank[out[i]]
          BY <1>1, <3>1 DEF Ordered
    <3> QED BY <1>1, <3>1, <3>2
  <2>2. before \in SUBSET (1..n)
        BY <1>1
  <2> HIDE DEF before
  <2>3. CASE before = {}
    <3>1. k = 0 /\ 1..0 = {}
          BY <2>3, FS_EmptySet
    <3> QED BY <1>1, <2>3, <3>1
  <2>4. CASE before # {}
    <3>1. before \in SUBSET Nat /\ \A y \in before : y <= n
          BY <2>2, <1>1
    <3>2. PICK m \in before : \A y \in before : y <= m
          BY <1>1, <2>4, <3>1, GreatestNumber
    <3>3. m \in 1..n
          BY <2>2
    <3>4. before = 1..m
      <4>1. \A j \in 1..m : j \in before
        <5> TAKE j \in 1..m
        <5>1. j \in 1..n /\ (j = m \/ j < m)
              BY <1>1, <3>3
        <5> QED BY <2>1, <5>1
      <4>2. \A j \in before : j \in 1..m
            BY <2>2, <3>2, <1>1
      <4> QED BY <4>1, <4>2
    <3>5. Cardinality(1..m) = m
      <4>1. 1 \in Int /\ m \in Int /\ ~(1 > m) /\ (m - 1) + 1 = m
            BY <1>1, <3>3
      <4> QED BY <4>1, FS_Interval
    <3> QED BY <1>1, <3>3, <3>4, <3>5
  <2> QED BY <2>3, <2>4
<1>3. Place(out, x, rank) = first \o <<x>> \o last
  <2>1. (1 + k) - 1 = k /\ 1 + k = k + 1
        BY <1>1, <1>2
  <2> HIDE DEF k
  <2>2. Place(out, x, rank) = SubSeq(out, 1, (1 + k) - 1) \o <<x>> \o SubSeq(out, 1 + k, Len(out))
        BY DEF Place, InsertAt, k, before
  <2> QED BY <2>1, <2>2
<1>4. \A i \in 1..n : i \in 1..k <=> rank[out[i]] <= rank[x]
  <2> HIDE DEF k
  <2> QED BY <1>1, <1>2
<1> HIDE DEF k, before
<1>5. first \in Seq(S) /\ last \in Seq(S) /\ <<x>> \in Seq(S)
      BY <1>1, <1>2
<1>6. first \o last = out
  <2>1. SubSeq(out, 1, Len(out)) = out
        BY SubSeqFull
  <2>2. 1 \in 1..(Len(out) + 1) /\ k \in (1 - 1)..Len(out) /\ Len(out) \in k..Len(out)
        BY <1>1, <1>2
  <2> QED BY <2>1, <2>2, ConcatAdjacentSubSeq
<1>7. /\ \A y \in ToSet(first) : y \in ToSet(out) /\ rank[y] <= rank[x]
      /\ \A y \in ToSet(last) : y \in ToSet(out) /\ rank[x] < rank[y]
  <2>1. DOMAIN first = 1..k /\ \A i \in 1..k : first[i] = out[i]
        BY <1>1, <1>2
  <2>2. DOMAIN last = 1..(n - k) /\ \A i \in 1..(n - k) : last[i] = out[k + i]
        BY <1>1, <1>2
  <2>3. ASSUME NEW y \in ToSet(first) PROVE y \in ToSet(out) /\ rank[y] <= rank[x]
    <3>1. PICK i \in 1..k : y = out[i]
          BY <2>1 DEF ToSet
    <3>2. i \in 1..n
          BY <1>1, <1>2
    <3> QED BY <1>1, <1>4, <3>1, <3>2
  <2>4. ASSUME NEW y \in ToSet(last) PROVE y \in ToSet(out) /\ rank[x] < rank[y]
    <3>1. PICK i \in 1..(n - k) : y = out[k + i]
          BY <2>2 DEF ToSet
    <3>2. k + i \in 1..n /\ k + i \notin 1..k
          BY <1>1, <1>2
    <3>3. y \in ToSet(out) /\ ~(rank[y] <= rank[x]) /\ rank[y] \in Int
          BY <1>1, <1>4, <3>1, <3>2
    <3> QED BY <3>3
  <2> QED BY <2>3, <2>4
<1> HIDE DEF first, last
<1>8. Ordered(first, R) /\ Ordered(last, R) /\ Across(ToSet(first), ToSet(last), R)
      BY <1>5, <1>6, OrderedConcat
<1> DEFINE one == <<x>>
<1>9. one \in Seq(S) /\ ToSet(one) = {x} /\ Ordered(one, R)
      BY <1>5, OrderedOne
<1> HIDE DEF one
<1>10. Across(ToSet(first), ToSet(one), R) /\ Across(ToSet(one), ToSet(last), R)
      BY <1>7, <1>9 DEF Across
<1>11. first \o one \in Seq(S) /\ Ordered(first \o one, R)
       /\ ToSet(first \o one) = ToSet(first) \cup ToSet(one)
  <2>1. first \o one \in Seq(S)
        BY <1>5, <1>9
  <2>2. Ordered(first \o one, R)
        BY <1>5, <1>8, <1>9, <1>10, OrderedConcat
  <2>3. ToSet(first \o one) = ToSet(first) \cup ToSet(one)
        BY <1>5, <1>9, AppendedSets
  <2> QED BY <2>1, <2>2, <2>3
<1>12. Across(ToSet(first \o one), ToSet(last), R)
      BY <1>8, <1>10, <1>11 DEF Across
<1> DEFINE front == first \o one
<1> HIDE DEF front
<1>13. Ordered(front \o last, R)
      BY <1>5, <1>8, <1>11, <1>12, OrderedConcat DEF front
<1> QED BY <1>3, <1>13 DEF front, one

\* A sort puts in order what may stand in either order.
LEMMA SortedOrdered ==
  ASSUME NEW S, NEW s \in Seq(S), NEW rank, \A y \in ToSet(s) : rank[y] \in Int,
         NEW D, Ordered(s, D), \A y, z \in ToSet(s) : <<y, z>> \in D => <<z, y>> \in D
  PROVE  Ordered(Sorted(s, rank), {p \in D : rank[p[1]] <= rank[p[2]]})
<1> DEFINE n == Len(s)
           R == {p \in D : rank[p[1]] <= rank[p[2]]}
<1>0. PICK g \in [0..n -> Seq(S)] : SortedBy(g, s, rank)
      BY SortedSteps
<1>1. /\ g[0] = <<>> /\ Sorted(s, rank) = g[n]
      /\ \A i \in 1..n : g[i] = Place(g[i - 1], s[i], rank)
      BY <1>0 DEF SortedBy
<1>2. n \in Nat /\ DOMAIN s = 1..n /\ \A i \in 1..n : s[i] \in S /\ s[i] \in ToSet(s)
      BY DEF ToSet
<1> HIDE DEF n
<1> DEFINE Right == {i \in 0..n : /\ Ordered(g[i], R)
                                  /\ \A y \in ToSet(g[i]) : \E j \in 1..i : y = s[j]}
<1>3. Right \in SUBSET (0..n) /\ 0 \in Right
  <2>1. Ordered(<<>>, R) /\ ToSet(<<>>) = {}
        BY OrderedOne
  <2>2. 0 \in 0..n
        BY <1>2
  <2> QED BY <1>1, <2>1, <2>2
<1>4. ASSUME NEW i \in 1..n, i - 1 \in Right PROVE i \in Right
  <2> DEFINE out == g[i - 1]
             x == s[i]
  <2>1. i \in 0..n /\ i - 1 \in 0..n /\ \A j \in 1..(i - 1) : j \in 1..n /\ j < i /\ j \in 1..i
        BY <1>2
  <2>2. out \in Seq(S) /\ x \in S /\ g[i] = Place(out, x, rank) /\ Ordered(out, R)
        BY <1>1, <1>2, <1>4, <2>1
  <2>3. \A y \in ToSet(out) : y \in ToSet(s) /\ <<y, x>> \in D
    <3> TAKE y \in ToSet(out)
    <3>1. PICK j \in 1..(i - 1) : y = s[j]
          BY <1>4
    <3> QED BY <1>2, <2>1, <3>1 DEF Ordered
  <2>4. \A y \in ToSet(out) : <<x, y>> \in D /\ rank[y] \in Int
        BY <1>2, <2>3
  <2>5. rank[x] \in Int
        BY <1>2
  <2>6. \A y \in ToSet(out) : /\ rank[y] <= rank[x] => <<y, x>> \in R
                              /\ rank[x] < rank[y] => <<x, y>> \in R
        BY <2>3, <2>4, <2>5
  <2>7. \A y, z \in ToSet(out) : <<y, z>> \in R => rank[y] <= rank[z]
        OBVIOUS
  <2> HIDE DEF R
  <2>8. Ordered(g[i], R)
    <3> HIDE DEF out, x
    <3> QED BY <2>2, <2>4, <2>5, <2>6, <2>7, OrderedPlace
  <2>9. ToSet(g[i]) = ToSet(out) \cup {x}
    <3> HIDE DEF out, x
    <3> QED BY <2>2, PlaceFacts
  <2>10. \A y \in ToSet(g[i]) : \E j \in 1..i : y = s[j]
    <3>1. i \in 1..i
          BY <1>2
    <3> QED BY <1>4, <2>1, <2>9, <3>1
  <2> QED BY <2>1, <2>8, <2>10
<1>5. Right = 0..n
  <2> HIDE DEF Right
  <2> QED BY <1>2, <1>3, <1>4, PrefixInduction
<1>6. n \in 0..n
      BY <1>2
<1> HIDE DEF R
<1>7. Ordered(g[n], R)
      BY <1>5, <1>6
<1> QED BY <1>1, <1>7 DEF R

-----------------------------------------------------------------------------
(* Ranges of time.                                                         *)

\* The one ends before the other begins, or as it begins.
TimeRange == [from : Int, to : Int]
Clear == {p \in TimeRange \X TimeRange : p[1].to < p[2].from}
InTurn == {p \in TimeRange \X TimeRange : p[1].to <= p[2].from}

LEMMA TimesOf ==
  ASSUME NEW P
  PROVE  \A t : t \in Times(P) <=> \E p \in P : t \in p.from..p.to - 1
BY DEF Times

\* One range more is merged into ordered ones that begin no later.
LEMMA MergeFacts ==
  ASSUME NEW out \in Seq(Stretch), NEW r \in Stretch, Ordered(out, Clear),
         \A y \in ToSet(out) : y.from <= r.from
  PROVE  /\ Merge(out, r) \in Seq(Stretch) /\ Ordered(Merge(out, r), Clear)
         /\ \A y \in ToSet(Merge(out, r)) : y.from <= r.from
         /\ Times(ToSet(Merge(out, r))) = Times(ToSet(out) \cup {r})
<1> DEFINE n == Len(out)
           e == [out[n] EXCEPT !.to = Larger(out[n].to, r.to)]
           new == [out EXCEPT ![n] = e]
<1>1. n \in Nat /\ DOMAIN out = 1..n /\ \A i \in 1..n : out[i] \in Stretch
      OBVIOUS
<1>2. \A i \in 1..n : out[i].from \in Int /\ out[i].to \in Int /\ out[i].from <= out[i].to
      BY <1>1, StretchFacts
<1>3. r.from \in Int /\ r.to \in Int /\ r.from <= r.to
      BY StretchFacts
<1>4. \A i \in 1..n : out[i] \in ToSet(out) /\ out[i].from <= r.from
  <2>1. \A i \in DOMAIN out : out[i] \in ToSet(out)
        BY DEF ToSet
  <2> QED BY <1>1, <2>1
<1>5. Merge(out, r) \in Seq(Stretch)
      BY MergeType
<1>6. CASE out # <<>> /\ r.from <= Last(out).to
  <2>1. n \in 1..n /\ Last(out) = out[n]
        BY <1>1, <1>6 DEF Last
  <2>2. Merge(out, r) = new
        BY <1>6, <2>1 DEF Merge
  <2>3. /\ e.from = out[n].from /\ e.to = Larger(out[n].to, r.to) /\ e \in TimeRange
        /\ out[n].to <= e.to /\ r.to <= e.to /\ (e.to = out[n].to \/ e.to = r.to)
    <3>1. out[n] \in TimeRange
          BY <1>1, <2>1 DEF Stretch, Forward, TimeRange
    <3>2. e.from = out[n].from /\ e.to = Larger(out[n].to, r.to)
          BY <3>1 DEF TimeRange
    <3>3. Larger(out[n].to, r.to) \in Int /\ out[n].to <= Larger(out[n].to, r.to) /\ r.to <= Larger(out[n].to, r.to)
          /\ (Larger(out[n].to, r.to) = out[n].to \/ Larger(out[n].to, r.to) = r.to)
          BY <1>2, <1>3, <2>1 DEF Larger
    <3>4. e \in TimeRange
          BY <3>1, <3>3 DEF TimeRange
    <3> QED BY <3>2, <3>3, <3>4
  <2> HIDE DEF e
  <2>4. DOMAIN new = 1..n /\ new[n] = e /\ \A i \in 1..n : i # n => new[i] = out[i]
        BY <1>1, <2>1
  <2> HIDE DEF new
  <2>5. Ordered(new, Clear)
    <3>1. ASSUME NEW i \in 1..n, NEW j \in 1..n, i < j PROVE <<new[i], new[j]>> \in Clear
      <4>1. <<out[i], out[j]>> \in Clear
            BY <1>1, <3>1 DEF Ordered
      <4>2. out[i] \in TimeRange /\ out[j] \in TimeRange /\ out[i].to < out[j].from
            BY <4>1 DEF Clear
      <4>3. i # n
        <5> HIDE DEF n
        <5> QED BY <1>1, <3>1
      <4>5. new[i] = out[i]
            BY <2>4, <4>3
      <4>4. new[j] \in TimeRange /\ new[j].from = out[j].from
            BY <2>3, <2>4, <4>2
      <4> QED BY <4>2, <4>5, <4>4 DEF Clear
    <3> QED BY <2>4, <3>1 DEF Ordered
  <2>6. ToSet(new) = {new[i] : i \in 1..n} /\ ToSet(out) = {out[i] : i \in 1..n}
        BY <1>1, <2>4 DEF ToSet
  <2>7. \A y \in ToSet(new) : y.from <= r.from
        BY <1>4, <2>1, <2>3, <2>4, <2>6
  <2>8. ASSUME NEW t PROVE t \in Times(ToSet(new)) <=> t \in Times(ToSet(out) \cup {r})
    <3>1. t \in Times(ToSet(new)) <=> \E i \in 1..n : t \in new[i].from..new[i].to - 1
          BY <2>6, TimesOf
    <3>2. t \in Times(ToSet(out) \cup {r})
            <=> (\E i \in 1..n : t \in out[i].from..out[i].to - 1) \/ t \in r.from..r.to - 1
          BY <2>6, TimesOf
    <3>3. t \in e.from..e.to - 1 <=> t \in out[n].from..out[n].to - 1 \/ t \in r.from..r.to - 1
      <4>1. out[n].from <= r.from /\ r.from <= out[n].to
            BY <1>4, <1>6, <2>1
      <4> QED BY <1>2, <1>3, <2>1, <2>3, <4>1
    <3> QED BY <2>1, <2>4, <3>1, <3>2, <3>3
  <2> QED BY <1>5, <2>2, <2>5, <2>7, <2>8
<1>7. CASE ~(out # <<>> /\ r.from <= Last(out).to)
  <2>1. Merge(out, r) = Append(out, r)
        BY <1>7 DEF Merge
  <2>2. ToSet(Append(out, r)) = ToSet(out) \cup {r}
        BY AppendedSets
  <2>3. ASSUME NEW i \in 1..n PROVE <<out[i], r>> \in Clear
    <3>1. n \in 1..n /\ Last(out) = out[n] /\ out # <<>>
          BY <1>1 DEF Last
    <3>2. out[n].to < r.from
          BY <1>2, <1>3, <1>7, <3>1
    <3>3. i # n => <<out[i], out[n]>> \in Clear
      <4> HIDE DEF n
      <4>1. i # n => i < n
            BY <1>1
      <4> QED BY <1>1, <3>1, <4>1 DEF Ordered
    <3>4. i # n => out[i].to < out[n].from
          BY <3>3 DEF Clear
    <3>5. out[i].to < r.from
          BY <1>2, <1>3, <3>1, <3>2, <3>4
    <3>6. out[i] \in TimeRange /\ r \in TimeRange
          BY <1>1 DEF Stretch, Forward, TimeRange
    <3> QED BY <3>5, <3>6 DEF Clear
  <2>4. Across(ToSet(out), {r}, Clear)
    <3>1. ToSet(out) = {out[i] : i \in 1..n}
          BY <1>1 DEF ToSet
    <3> QED BY <2>3, <3>1 DEF Across
  <2>5. Ordered(Append(out, r), Clear)
        BY <2>4, OrderedAppend
  <2>6. \A y \in ToSet(Append(out, r)) : y.from <= r.from
        BY <1>3, <2>2
  <2> QED BY <1>5, <2>1, <2>2, <2>5, <2>6
<1> QED BY <1>6, <1>7

\* Merged ranges are apart, in their order, and of the same times.
LEMMA MergedFacts ==
  ASSUME NEW ranges \in SUBSET Stretch, IsFiniteSet(ranges)
  PROVE  /\ MergeRanges(ranges) \in Seq(Stretch) /\ Ordered(MergeRanges(ranges), Clear)
         /\ Times(ToSet(MergeRanges(ranges))) = Times(ranges)
<1> DEFINE s == ByStart(ranges)
           n == Len(s)
           rank == [r \in ranges |-> r.from]
           Pairs == ranges \X ranges
<1>1. s \in Seq(Stretch) /\ ToSet(s) = ranges
      BY ByStartFacts
<1>2. Ordered(s, {p \in Pairs : rank[p[1]] <= rank[p[2]]})
  <2> DEFINE q == SetToSeq(ranges)
  <2>1. q \in Seq(ranges) /\ ToSet(q) = ranges
        BY SetToSeqFacts
  <2>2. s = Sorted(q, rank)
        BY DEF ByStart
  <2> HIDE DEF q, s
  <2>3. \A y \in ToSet(q) : rank[y] \in Int
        BY <2>1, StretchFacts
  <2>4. Ordered(q, Pairs)
        BY <2>1 DEF Ordered
  <2>5. \A y, z \in ToSet(q) : <<y, z>> \in Pairs => <<z, y>> \in Pairs
        OBVIOUS
  <2> HIDE DEF rank, Pairs
  <2> QED BY <2>1, <2>2, <2>3, <2>4, <2>5, SortedOrdered
<1>3. \A i, j \in 1..Len(s) : i < j => s[i].from <= s[j].from
  <2> HIDE DEF s
  <2>1. DOMAIN s = 1..Len(s)
        BY <1>1
  <2>2. \A i, j \in 1..Len(s) : i < j => <<s[i], s[j]>> \in {p \in Pairs : rank[p[1]] <= rank[p[2]]}
        BY <1>2, <2>1 DEF Ordered
  <2> QED BY <2>2
<1>4. MergeRanges(ranges) = FoldLeft(Merge, <<>>, s)
      BY DEF MergeRanges
<1> HIDE DEF s, rank, Pairs
<1>5. PICK g \in [0..n -> Seq(Stretch)] :
        /\ g[0] = <<>> /\ FoldLeft(Merge, <<>>, s) = g[n]
        /\ \A i \in 1..n : g[i] = Merge(g[i - 1], s[i])
      BY <1>1, MergeSteps
<1>6. n \in Nat /\ \A i \in 1..n : s[i] \in Stretch
      BY <1>1
<1>7. ToSet(s) = {s[i] : i \in 1..n}
      BY <1>1 DEF ToSet
<1>8. \A i, j \in 1..n : i < j => s[i].from <= s[j].from
      BY <1>3
<1> HIDE DEF n
<1> DEFINE Right == {i \in 0..n : /\ Ordered(g[i], Clear)
                                  /\ i # 0 => \A y \in ToSet(g[i]) : y.from <= s[i].from
                                  /\ Times(ToSet(g[i])) = Times({s[j] : j \in 1..i})
                                  /\ i = 0 => ToSet(g[i]) = {}}
<1>9. Right \in SUBSET (0..n) /\ 0 \in Right
  <2>1. Ordered(<<>>, Clear) /\ ToSet(<<>>) = {}
        BY OrderedOne
  <2>2. 0 \in 0..n /\ {s[j] : j \in 1..0} = {}
        BY <1>6
  <2> QED BY <1>5, <2>1, <2>2
<1>10. ASSUME NEW i \in 1..n, i - 1 \in Right PROVE i \in Right
  <2> DEFINE out == g[i - 1]
             r == s[i]
  <2>1. i \in 0..n /\ i - 1 \in 0..n /\ i # 0 /\ (i - 1 # 0 => i - 1 \in 1..n /\ i - 1 < i)
        BY <1>6
  <2>2. out \in Seq(Stretch) /\ r \in Stretch /\ Ordered(out, Clear) /\ g[i] = Merge(out, r)
        BY <1>5, <1>6, <1>10, <2>1
  <2>3. \A y \in ToSet(out) : y.from <= r.from
    <3> TAKE y \in ToSet(out)
    <3>1. i - 1 # 0 /\ y.from <= s[i - 1].from
          BY <1>10
    <3>2. s[i - 1].from <= r.from
          BY <1>8, <2>1, <3>1
    <3>3. y \in Stretch
          BY <2>2 DEF ToSet
    <3>4. y.from \in Int /\ s[i - 1].from \in Int /\ r.from \in Int
          BY <1>6, <2>1, <2>2, <3>1, <3>3, StretchFacts
    <3> QED BY <3>1, <3>2, <3>4
  <2>4. Times(ToSet(out)) = Times({s[j] : j \in 1..(i - 1)})
        BY <1>10
  <2> HIDE DEF out, r
  <2>5. /\ Ordered(g[i], Clear) /\ \A y \in ToSet(g[i]) : y.from <= r.from
        /\ Times(ToSet(g[i])) = Times(ToSet(out) \cup {r})
        BY <2>2, <2>3, MergeFacts
  <2>6. Times(ToSet(out) \cup {r}) = Times({s[j] : j \in 1..i})
    <3>1. {s[j] : j \in 1..i} = {s[j] : j \in 1..(i - 1)} \cup {r}
      <4>1. 1..i = (1..(i - 1)) \cup {i}
            BY <1>6
      <4> QED BY <4>1 DEF r
    <3>2. \A P, Q : Times(P \cup Q) = Times(P) \cup Times(Q)
          BY DEF Times
    <3> DEFINE before == {s[j] : j \in 1..(i - 1)}
    <3>3. Times(before \cup {r}) = Times(before) \cup Times({r})
          BY <3>2
    <3>4. Times(ToSet(out) \cup {r}) = Times(ToSet(out)) \cup Times({r})
          BY <3>2
    <3>5. Times(ToSet(out)) = Times(before)
          BY <2>4
    <3> HIDE DEF before
    <3> QED BY <3>1, <3>3, <3>4, <3>5 DEF before
  <2> QED BY <2>1, <2>5, <2>6 DEF r
<1>11. Right = 0..n
  <2> HIDE DEF Right
  <2> QED BY <1>6, <1>9, <1>10, PrefixInduction
<1>12. n \in 0..n
      BY <1>6
<1>13. Ordered(g[n], Clear) /\ Times(ToSet(g[n])) = Times({s[j] : j \in 1..n}) /\ g[n] \in Seq(Stretch)
      BY <1>11, <1>12
<1> QED BY <1>1, <1>4, <1>5, <1>7, <1>13

-----------------------------------------------------------------------------
(* Frames in sequence.                                                     *)

Frame == Clips \X Int

LEMMA ConcatFacts ==
  ASSUME NEW S, NEW s \in Seq(S), NEW t \in Seq(S)
  PROVE  /\ s \o t \in Seq(S) /\ Len(s) \in Nat /\ Len(t) \in Nat /\ Len(s \o t) = Len(s) + Len(t)
         /\ \A i \in 1..Len(s) : (s \o t)[i] = s[i] /\ i \in 1..(Len(s) + Len(t))
         /\ \A i \in 1..Len(t) : (s \o t)[Len(s) + i] = t[i] /\ Len(s) + i \in 1..(Len(s) + Len(t))
OBVIOUS

\* The frames of one edit, in sequence.
FramesIn(e) == [n \in 1..(e.to - e.from) |-> <<e.clip, e.from + n - 1>>]

LEMMA FramesInFacts ==
  ASSUME NEW e \in Segment
  PROVE  /\ FramesIn(e) \in Seq(Frame) /\ Len(FramesIn(e)) = e.to - e.from /\ e.to - e.from \in Nat
         /\ DOMAIN FramesIn(e) = 1..(e.to - e.from)
         /\ \A n \in 1..(e.to - e.from) : FramesIn(e)[n] = <<e.clip, e.from + n - 1>>
<1>1. e.clip \in Clips /\ e.from \in Int /\ e.to \in Int /\ e.from <= e.to /\ e.to - e.from \in Nat
      BY SegmentFacts
<1> DEFINE m == e.to - e.from
           f == FramesIn(e)
<1>2. \A n \in 1..m : <<e.clip, e.from + n - 1>> \in Frame
      BY <1>1 DEF Frame
<1>3. m \in Nat /\ f = [n \in 1..m |-> <<e.clip, e.from + n - 1>>]
      BY <1>1 DEF FramesIn
<1> HIDE DEF m, f
<1>4. f \in Seq(Frame) /\ Len(f) = m
      BY <1>2, <1>3
<1> QED BY <1>3, <1>4 DEF m, f

\* The frames of a program, edit by edit.
LEMMA FramesSteps ==
  ASSUME NEW s \in Seq(Segment)
  PROVE  \E h \in [0..Len(s) -> Seq(Frame)] :
           /\ h[0] = <<>> /\ FramesOf(s) = h[Len(s)]
           /\ \A i \in 1..Len(s) : h[i] = h[i - 1] \o FramesIn(s[i])
<1> DEFINE ss == [i \in DOMAIN s |-> FramesIn(s[i])]
           m == Len(s)
<1>1. FramesOf(s) = FlattenSeq(ss)
      BY DEF FramesOf, Mapped, FramesIn
<1>2. m \in Nat /\ DOMAIN s = 1..m /\ \A i \in 1..m : s[i] \in Segment
      OBVIOUS
<1> HIDE DEF m
<1>3. \A i \in 1..m : FramesIn(s[i]) \in Seq(Frame)
      BY <1>2, FramesInFacts
<1>4. ss \in Seq(Seq(Frame)) /\ Len(ss) = m /\ \A i \in 1..m : ss[i] = FramesIn(s[i])
      BY <1>2, <1>3
<1> HIDE DEF ss
<1>5. PICK g \in [0..Len(ss) -> Seq(Frame)] :
        /\ g[0] = <<>> /\ FlattenSeq(ss) = g[Len(ss)]
        /\ \A i \in 1..Len(ss) : g[i] = g[i - 1] \o ss[i]
      BY <1>4, FlattenSteps
<1> QED BY <1>1, <1>4, <1>5 DEF m

LEMMA FramesType ==
  ASSUME NEW s \in Seq(Segment)
  PROVE  FramesOf(s) \in Seq(Frame)
<1>1. PICK h \in [0..Len(s) -> Seq(Frame)] :
           /\ h[0] = <<>> /\ FramesOf(s) = h[Len(s)]
           /\ \A i \in 1..Len(s) : h[i] = h[i - 1] \o FramesIn(s[i])
      BY FramesSteps
<1>2. Len(s) \in 0..Len(s)
      OBVIOUS
<1> QED BY <1>1, <1>2

LEMMA FramesAppend ==
  ASSUME NEW out \in Seq(Segment), NEW e \in Segment
  PROVE  FramesOf(Append(out, e)) = FramesOf(out) \o FramesIn(e)
<1> DEFINE n == Len(out)
           s == Append(out, e)
           ss == [i \in DOMAIN out |-> FramesIn(out[i])]
           tt == [i \in DOMAIN s |-> FramesIn(s[i])]
           t == FramesIn(e)
<1>1. FramesOf(out) = FlattenSeq(ss) /\ FramesOf(s) = FlattenSeq(tt)
      BY DEF FramesOf, Mapped, FramesIn
<1>2. /\ n \in Nat /\ DOMAIN out = 1..n /\ DOMAIN s = 1..(n + 1) /\ s[n + 1] = e
      /\ \A i \in 1..n : s[i] = out[i] /\ out[i] \in Segment
      OBVIOUS
<1> HIDE DEF n, s
<1>3. t \in Seq(Frame) /\ \A i \in 1..n : FramesIn(out[i]) \in Seq(Frame)
      BY <1>2, FramesInFacts
<1> HIDE DEF t
<1>4. ss \in Seq(Seq(Frame)) /\ Len(ss) = n
      BY <1>2, <1>3
<1>5. tt = Append(ss, t)
  <2>1. DOMAIN tt = 1..(n + 1) /\ DOMAIN Append(ss, t) = 1..(n + 1)
        BY <1>2, <1>4
  <2>2. ASSUME NEW i \in 1..(n + 1) PROVE tt[i] = Append(ss, t)[i]
    <3>1. CASE i \in 1..n
      <4>1. Append(ss, t)[i] = ss[i] /\ ss[i] = FramesIn(out[i])
            BY <1>2, <1>4, <3>1
      <4> QED BY <1>2, <3>1, <4>1
    <3>2. CASE i = n + 1
      <4>1. Append(ss, t)[n + 1] = t
            BY <1>4
      <4> QED BY <1>2, <3>2, <4>1 DEF t
    <3> QED BY <1>2, <3>1, <3>2
  <2>3. tt = [i \in 1..(n + 1) |-> tt[i]] /\ Append(ss, t) = [i \in 1..(n + 1) |-> Append(ss, t)[i]]
        BY <2>1, <1>4
  <2> HIDE DEF tt
  <2> QED BY <2>2, <2>3
<1> HIDE DEF ss, tt
<1>6. FlattenSeq(Append(ss, t)) = FlattenSeq(ss) \o t
      BY <1>3, <1>4, FlattenAppend
<1> QED BY <1>1, <1>5, <1>6 DEF s, t

\* Edits of the same footage have the same frames.
LEMMA SameFrames ==
  ASSUME NEW s \in Seq(Segment), NEW t \in Seq(Segment), Len(s) = Len(t),
         \A i \in 1..Len(s) : SameFootage(t[i], s[i])
  PROVE  FramesOf(t) = FramesOf(s)
<1>1. DOMAIN s = DOMAIN t /\ DOMAIN s = 1..Len(s)
      OBVIOUS
<1>2. \A i \in DOMAIN s : [n \in 1..(s[i].to - s[i].from) |-> <<s[i].clip, s[i].from + n - 1>>]
                            = [n \in 1..(t[i].to - t[i].from) |-> <<t[i].clip, t[i].from + n - 1>>]
      BY <1>1 DEF SameFootage
<1> QED BY <1>1, <1>2 DEF FramesOf, Mapped

LEMMA PackedFrames ==
  ASSUME NEW s \in Seq(Segment)
  PROVE  FramesOf(Packed(s)) = FramesOf(s)
BY PackedFacts, SameFrames

LEMMA JoinFrames ==
  ASSUME NEW out \in Seq(Segment), NEW e \in Segment
  PROVE  FramesOf(Join(out, e)) = FramesOf(out) \o FramesIn(e)
<1> DEFINE n == Len(out)
<1>1. CASE out # <<>> /\ Last(out).clip = e.clip /\ Last(out).to = e.from
  <2> DEFINE z == out[n]
             f == [z EXCEPT !.to = e.to]
             front == SubSeq(out, 1, n - 1)
  <2>1. n \in 1..n /\ n \in Nat /\ z \in Segment /\ Last(out) = z
        BY <1>1 DEF Last
  <2>2. Join(out, e) = [out EXCEPT ![n] = f]
        BY <1>1, <2>1 DEF Join
  <2>3. /\ f.clip = z.clip /\ f.from = z.from /\ f.to = e.to /\ z.clip = e.clip /\ z.to = e.from
        /\ z.from \in Int /\ e.from \in Int /\ e.to \in Int /\ z.from <= e.from /\ e.from <= e.to
        BY <1>1, <2>1, SegmentFacts DEF Segment, Forward
  <2>4. f \in Segment
    <3>1. z.from <= e.to
          BY <2>3
    <3> QED BY <2>1, <2>3, <3>1 DEF Segment, Forward
  <2>5. FramesIn(f) = FramesIn(z) \o FramesIn(e)
    <3>1. /\ Len(FramesIn(f)) = e.to - z.from /\ Len(FramesIn(z)) = e.from - z.from /\ Len(FramesIn(e)) = e.to - e.from
          /\ FramesIn(f) \in Seq(Frame) /\ FramesIn(z) \in Seq(Frame) /\ FramesIn(e) \in Seq(Frame)
          /\ e.from - z.from \in Nat /\ e.to - e.from \in Nat /\ e.to - z.from \in Nat
          BY <2>1, <2>3, <2>4, FramesInFacts
    <3> DEFINE a == FramesIn(f)
               b == FramesIn(z)
               c == FramesIn(e)
               p == e.from - z.from
               q == e.to - e.from
    <3>a. /\ b \in Seq(Frame) /\ c \in Seq(Frame) /\ Len(b) = p /\ Len(c) = q
          /\ a \in Seq(Frame) /\ Len(a) = p + q /\ p \in Nat /\ q \in Nat
      <4>1. p \in Nat /\ q \in Nat /\ e.to - z.from = p + q
        <5> HIDE DEF z, a, b, c
        <5> QED BY <2>3
      <4> HIDE DEF p, q
      <4>2. Len(b) = p /\ Len(c) = q /\ Len(a) = p + q
        <5> HIDE DEF a, b, c
        <5> QED BY <3>1, <4>1 DEF a, b, c, p, q
      <4> QED BY <3>1, <4>1, <4>2
    <3>b. \A k \in 1..p : a[k] = b[k]
      <4> TAKE k \in 1..p
      <4>1. k \in 1..(e.to - z.from) /\ k \in 1..(e.from - z.from)
            BY <2>3
      <4>2. a[k] = <<e.clip, z.from + k - 1>>
            BY <2>3, <2>4, <4>1, FramesInFacts
      <4>3. b[k] = <<e.clip, z.from + k - 1>>
            BY <2>1, <2>3, <4>1, FramesInFacts
      <4> QED BY <4>2, <4>3
    <3>c. \A k \in 1..q : a[p + k] = c[k]
      <4> TAKE k \in 1..q
      <4>1. p + k \in 1..(e.to - z.from) /\ z.from + (p + k) - 1 = e.from + k - 1
            BY <2>3
      <4>2. a[p + k] = <<e.clip, z.from + (p + k) - 1>>
        <5> HIDE DEF p, q
        <5> QED BY <2>3, <2>4, <4>1, FramesInFacts
      <4>3. c[k] = <<e.clip, e.from + k - 1>>
            BY <2>3, FramesInFacts
      <4> HIDE DEF a, p, c
      <4> QED BY <4>1, <4>2, <4>3
    <3> HIDE DEF a, b, c, p, q
    <3>d. b \o c \in Seq(Frame) /\ Len(b \o c) = p + q
          BY <3>a, ConcatFacts
    <3>e. \A k \in 1..(p + q) : a[k] = (b \o c)[k]
      <4> TAKE k \in 1..(p + q)
      <4>1. CASE k \in 1..p
            BY <3>a, <3>b, <4>1, ConcatFacts
      <4>2. CASE k \notin 1..p
        <5>1. k - p \in 1..q /\ p + (k - p) = k
              BY <3>a, <4>2
        <5>2. (b \o c)[p + (k - p)] = c[k - p] /\ a[p + (k - p)] = c[k - p]
              BY <3>a, <3>c, <5>1, ConcatFacts, SMTT(30)
        <5> QED BY <5>1, <5>2
      <4> QED BY <4>1, <4>2
    <3>f. a = b \o c
      <4> DEFINE d == b \o c
      <4> HIDE DEF d
      <4>1. d \in Seq(Frame) /\ Len(d) = p + q /\ \A k \in 1..(p + q) : a[k] = d[k]
            BY <3>d, <3>e DEF d
      <4>2. a = d
            BY <3>a, <4>1
      <4> QED BY <4>2 DEF d
    <3> QED BY <3>f DEF a, b, c
  <2> HIDE DEF f, z
  <2>6. front \in Seq(Segment) /\ out = Append(front, z) /\ [out EXCEPT ![n] = f] = Append(front, f)
    <3>1. front \in Seq(Segment) /\ Len(front) = n - 1 /\ \A i \in 1..(n - 1) : front[i] = out[i]
      <4>1. 1 \in 1..n /\ n - 1 \in 0..n
            BY <2>1
      <4>2. \A i \in 1..(n - 1) : i \in 1..n /\ out[i] \in Segment
            BY <2>1
      <4>3. front = [i \in 1..(n - 1) |-> out[i]]
            BY <2>1
      <4> HIDE DEF n, front
      <4> QED BY <2>1, <4>2, <4>3
    <3> HIDE DEF front
    <3>2. out = Append(front, z)
      <4>1. Append(front, z) \in Seq(Segment) /\ Len(Append(front, z)) = n
            BY <2>1, <3>1
      <4>2. \A i \in 1..n : out[i] = Append(front, z)[i]
            BY <2>1, <3>1 DEF z
      <4> QED BY <4>1, <4>2
    <3>3. [out EXCEPT ![n] = f] = Append(front, f)
      <4> DEFINE s == [out EXCEPT ![n] = f]
      <4>1. Append(front, f) \in Seq(Segment) /\ Len(Append(front, f)) = n
            BY <2>1, <2>4, <3>1
      <4>2. s \in Seq(Segment) /\ Len(s) = n /\ s[n] = f /\ \A i \in 1..(n - 1) : s[i] = out[i]
            BY <2>1, <2>4
      <4> HIDE DEF s
      <4>3. \A i \in 1..n : s[i] = Append(front, f)[i]
            BY <2>1, <3>1, <4>2
      <4>4. s = Append(front, f)
            BY <4>1, <4>2, <4>3
      <4> QED BY <4>4 DEF s
    <3> QED BY <3>1, <3>2, <3>3
  <2> HIDE DEF front
  <2>7. FramesOf(out) = FramesOf(front) \o FramesIn(z)
        BY <2>1, <2>6, FramesAppend
  <2>8. FramesOf(Join(out, e)) = FramesOf(front) \o FramesIn(f)
        BY <2>2, <2>4, <2>6, FramesAppend
  <2>9. FramesOf(front) \in Seq(Frame) /\ FramesIn(z) \in Seq(Frame) /\ FramesIn(e) \in Seq(Frame)
        BY <2>1, <2>6, FramesType, FramesInFacts
  <2>10. \A a, b, c \in Seq(Frame) : a \o (b \o c) = (a \o b) \o c
        OBVIOUS
  <2> QED BY <2>5, <2>7, <2>8, <2>9, <2>10
<1>2. CASE ~(out # <<>> /\ Last(out).clip = e.clip /\ Last(out).to = e.from)
  <2>1. Join(out, e) = Append(out, e)
        BY <1>2 DEF Join
  <2> QED BY <2>1, FramesAppend
<1> QED BY <1>1, <1>2

\* What is joined has the frames it had, in the order it had them.
LEMMA JoinedFrames ==
  ASSUME NEW s \in Seq(Segment)
  PROVE  FramesOf(Joined(s)) = FramesOf(s)
<1> DEFINE n == Len(s)
<1>1. PICK g \in [0..n -> Seq(Segment)] :
        /\ g[0] = <<>> /\ Joined(s) = g[n]
        /\ \A i \in 1..n : g[i] = Join(g[i - 1], s[i])
      BY JoinedSteps
<1>2. PICK h \in [0..n -> Seq(Frame)] :
        /\ h[0] = <<>> /\ FramesOf(s) = h[n]
        /\ \A i \in 1..n : h[i] = h[i - 1] \o FramesIn(s[i])
      BY FramesSteps
<1>3. n \in Nat /\ n \in 0..n /\ 0 \in 0..n /\ \A i \in 1..n : s[i] \in Segment /\ i - 1 \in 0..n /\ i \in 0..n
      OBVIOUS
<1> HIDE DEF n
<1> DEFINE Right == {i \in 0..n : FramesOf(g[i]) = h[i]}
<1>4. Right \in SUBSET (0..n) /\ 0 \in Right
  <2>1. <<>> \in Seq(Segment) /\ Len(<<>>) = 0
        OBVIOUS
  <2>2. FramesOf(<<>>) = <<>>
    <3>1. \E k \in [0..Len(<<>>) -> Seq(Frame)] : k[0] = <<>> /\ FramesOf(<<>>) = k[Len(<<>>)]
          BY <2>1, FramesSteps
    <3> QED BY <2>1, <3>1
  <2> QED BY <1>1, <1>2, <1>3, <2>2
<1>5. ASSUME NEW i \in 1..n, i - 1 \in Right PROVE i \in Right
  <2>1. FramesOf(Join(g[i - 1], s[i])) = FramesOf(g[i - 1]) \o FramesIn(s[i])
        BY <1>1, <1>3, JoinFrames
  <2> QED BY <1>1, <1>2, <1>3, <1>5, <2>1
<1>6. Right = 0..n
  <2> HIDE DEF Right
  <2> QED BY <1>3, <1>4, <1>5, PrefixInduction
<1> QED BY <1>1, <1>2, <1>3, <1>6

\* Where an edit lies on the timeline are its frames.
Shows(e, frames) ==
  /\ 0 <= e.at /\ EndOf(e) <= Len(frames)
  /\ \A n \in 0..(e.to - e.from - 1) : frames[e.at + n + 1] = <<e.clip, e.from + n>>

LEMMA ShowsMore ==
  ASSUME NEW e \in Segment, NEW s \in Seq(Frame), NEW t \in Seq(Frame), Shows(e, s)
  PROVE  Shows(e, s \o t)
<1>1. e.from \in Int /\ e.to \in Int /\ e.at \in Int /\ e.from <= e.to
      BY SegmentFacts
<1>2. 0 <= e.at /\ EndOf(e) <= Len(s) /\ EndOf(e) = e.at + e.to - e.from
      BY DEF Shows, EndOf
<1>3. Len(s) \in Nat /\ Len(t) \in Nat /\ Len(s \o t) = Len(s) + Len(t)
      /\ \A i \in 1..Len(s) : (s \o t)[i] = s[i]
      OBVIOUS
<1>4. \A n \in 0..(e.to - e.from - 1) : e.at + n + 1 \in 1..Len(s)
      BY <1>1, <1>2, <1>3
<1>5. EndOf(e) <= Len(s \o t)
      BY <1>1, <1>2, <1>3
<1>6. \A n \in 0..(e.to - e.from - 1) : (s \o t)[e.at + n + 1] = <<e.clip, e.from + n>>
      BY <1>3, <1>4 DEF Shows
<1> QED BY <1>2, <1>5, <1>6 DEF Shows

\* A packed program shows what its edits say where they lie, and is as long as the last says.
LEMMA ContiguousShows ==
  ASSUME NEW s \in Seq(Segment), Contiguous(s)
  PROVE  /\ \A i \in 1..Len(s) : Shows(s[i], FramesOf(s))
         /\ Len(FramesOf(s)) = LengthOf(s)
<1> DEFINE n == Len(s)
<1>1. PICK h \in [0..n -> Seq(Frame)] :
        /\ h[0] = <<>> /\ FramesOf(s) = h[n]
        /\ \A i \in 1..n : h[i] = h[i - 1] \o FramesIn(s[i])
      BY FramesSteps
<1>2. n \in Nat /\ n \in 0..n /\ 0 \in 0..n /\ \A i \in 1..n : s[i] \in Segment /\ i - 1 \in 0..n /\ i \in 0..n
      /\ DOMAIN s = 1..n
      OBVIOUS
<1>3. n # 0 => LengthOf(s) = EndOf(s[n])
      BY DEF LengthOf, EndOf, Last
<1>4. n = 0 => LengthOf(s) = 0
      BY DEF LengthOf
<1> HIDE DEF n
<1> DEFINE Right == {i \in 0..n : /\ Len(h[i]) = (IF i = 0 THEN 0 ELSE EndOf(s[i]))
                                  /\ \A j \in 1..i : Shows(s[j], h[i])}
<1>5. Right \in SUBSET (0..n) /\ 0 \in Right
      BY <1>1, <1>2
<1>6. ASSUME NEW i \in 1..n, i - 1 \in Right PROVE i \in Right
  <2> DEFINE e == s[i]
             f == h[i - 1]
             g == FramesIn(e)
  <2>1. e \in Segment /\ f \in Seq(Frame) /\ g \in Seq(Frame) /\ Len(g) = e.to - e.from /\ h[i] = f \o g
        BY <1>1, <1>2, FramesInFacts
  <2>2. Len(f) = e.at
    <3>1. e.at = IF i = 1 THEN 0 ELSE EndOf(s[i - 1])
          BY <1>2 DEF Contiguous
    <3>2. Len(f) = IF i - 1 = 0 THEN 0 ELSE EndOf(s[i - 1])
          BY <1>6
    <3> QED BY <3>1, <3>2
  <2>3. \A j \in 1..(i - 1) : Shows(s[j], f) /\ s[j] \in Segment
    <3>1. \A j \in 1..(i - 1) : j \in 1..n
          BY <1>2
    <3> QED BY <1>2, <1>6, <3>1
  <2> HIDE DEF f
  <2>4. e.from \in Int /\ e.to \in Int /\ e.at \in Int /\ e.from <= e.to /\ e.at \in Nat
        BY <2>1, <2>2, SegmentFacts
  <2>5. Len(h[i]) = EndOf(e)
    <3>1. Len(f \o g) = Len(f) + Len(g)
          BY <2>1
    <3> QED BY <2>1, <2>2, <2>4, <3>1 DEF EndOf
  <2>6. Shows(e, h[i])
    <3>1. ASSUME NEW k \in 0..(e.to - e.from - 1) PROVE h[i][e.at + k + 1] = <<e.clip, e.from + k>>
      <4>1. k + 1 \in 1..(e.to - e.from) /\ e.from + (k + 1) - 1 = e.from + k
            BY <2>4
      <4>2. g[k + 1] = <<e.clip, e.from + k>>
            BY <2>1, <4>1, FramesInFacts
      <4> HIDE DEF g
      <4>3. (f \o g)[Len(f) + (k + 1)] = g[k + 1]
            BY <2>1, <4>1, ConcatFacts, SMTT(30)
      <4>4. Len(f) + (k + 1) = e.at + k + 1
        <5> HIDE DEF e
        <5> QED BY <2>2, <2>4, SMTT(30)
      <4>5. (f \o g)[e.at + k + 1] = g[k + 1]
            BY <4>3, <4>4
      <4> QED BY <2>1, <4>2, <4>5
    <3>2. 0 <= e.at /\ EndOf(e) <= Len(h[i])
      <4>1. EndOf(e) \in Int
            BY <2>4 DEF EndOf
      <4> HIDE DEF e
      <4> QED BY <2>4, <2>5, <4>1
    <3> QED BY <3>1, <3>2 DEF Shows
  <2>7. \A j \in 1..(i - 1) : Shows(s[j], h[i])
    <3> HIDE DEF g
    <3> QED BY <2>1, <2>3, ShowsMore
  <2>8. \A j \in 1..i : j \in 1..(i - 1) \/ j = i
        BY <1>2
  <2> QED BY <1>2, <2>5, <2>6, <2>7, <2>8
<1>7. Right = 0..n
  <2> HIDE DEF Right
  <2> QED BY <1>2, <1>5, <1>6, PrefixInduction
<1>8. Len(h[n]) = (IF n = 0 THEN 0 ELSE EndOf(s[n])) /\ \A j \in 1..n : Shows(s[j], h[n])
      BY <1>2, <1>7
<1> QED BY <1>1, <1>3, <1>4, <1>8 DEF n

-----------------------------------------------------------------------------
(* The order of frames, and of edits by their frames.                      *)

FrameOrder == {p \in Frame \X Frame : p[1][1] < p[2][1] \/ (p[1][1] = p[2][1] /\ p[1][2] < p[2][2])}
Sooner == {p \in Segment \X Segment : Across(Shots(p[1]), Shots(p[2]), FrameOrder)}
Apart == {p \in Segment \X Segment : Shots(p[1]) \cap Shots(p[2]) = {}}

\* The footage there is.
Within == {f \in Frame : f[2] \in 0..Lengths[f[1]] - 1}

LEMMA LaterFacts ==
  ASSUME NEW k \in Clips, NEW i \in Int, NEW j \in Clips, NEW n \in Int
  PROVE  /\ <<k, i>> \in Frame
         /\ <<<<k, i>>, <<j, n>>>> \in FrameOrder <=> k < j \/ (k = j /\ i < n)
<1> DEFINE a == <<k, i>>
           b == <<j, n>>
           p == <<a, b>>
<1>1. a \in Frame /\ b \in Frame /\ a[1] = k /\ a[2] = i /\ b[1] = j /\ b[2] = n
      BY DEF Frame
<1> HIDE DEF a, b
<1>2. p \in Frame \X Frame /\ p[1] = a /\ p[2] = b
      BY <1>1
<1> HIDE DEF p
<1>3. p \in FrameOrder <=> a[1] < b[1] \/ (a[1] = b[1] /\ a[2] < b[2])
      BY <1>2 DEF FrameOrder
<1> QED BY <1>1, <1>3 DEF p, a, b

LEMMA ShotsFacts ==
  ASSUME NEW e \in Segment
  PROVE  /\ \A f : f \in Shots(e) <=> \E n \in e.from..e.to - 1 : f = <<e.clip, n>>
         /\ Shots(e) \subseteq Frame
<1>1. e.clip \in Clips /\ e.from \in Int /\ e.to \in Int
      BY SegmentFacts
<1>2. \A f : f \in Shots(e) <=> \E n \in e.from..e.to - 1 : f = <<e.clip, n>>
      BY DEF Shots
<1>3. \A n \in e.from..e.to - 1 : <<e.clip, n>> \in Frame
      BY <1>1 DEF Frame
<1> QED BY <1>2, <1>3

LEMMA SoonerFacts ==
  ASSUME NEW d \in Segment, NEW e \in Segment
  PROVE  /\ <<d, e>> \in Sooner <=> Across(Shots(d), Shots(e), FrameOrder)
         /\ <<d, e>> \in Apart <=> Shots(d) \cap Shots(e) = {}
<1> DEFINE p == <<d, e>>
<1>1. p \in Segment \X Segment /\ p[1] = d /\ p[2] = e
      OBVIOUS
<1> HIDE DEF p
<1>2. /\ p \in Sooner <=> Across(Shots(d), Shots(e), FrameOrder)
      /\ p \in Apart <=> Shots(d) \cap Shots(e) = {}
      BY <1>1 DEF Sooner, Apart
<1> QED BY <1>2 DEF p

\* No frame comes after itself, so what is in order has nothing twice.
LEMMA LaterDiffers ==
  \A f : <<f, f>> \notin FrameOrder
<1> SUFFICES ASSUME NEW f, <<f, f>> \in FrameOrder PROVE FALSE
    OBVIOUS
<1> DEFINE p == <<f, f>>
<1>1. p \in FrameOrder /\ p[1] = f /\ p[2] = f
      OBVIOUS
<1> HIDE DEF p
<1>2. f \in Frame /\ (f[1] < f[1] \/ f[2] < f[2])
      BY <1>1 DEF FrameOrder
<1>3. f[1] \in Int /\ f[2] \in Int
      BY <1>2, ClipsFacts DEF Frame
<1> QED BY <1>2, <1>3

LEMMA OrderedOnce ==
  ASSUME NEW s, Ordered(s, FrameOrder)
  PROVE  \A i, j \in DOMAIN s : i \in Nat /\ j \in Nat /\ s[i] = s[j] => i = j
<1> SUFFICES ASSUME NEW i \in DOMAIN s, NEW j \in DOMAIN s, i \in Nat, j \in Nat, s[i] = s[j], i # j
             PROVE  FALSE
    OBVIOUS
<1>1. <<s[i], s[j]>> \notin FrameOrder /\ <<s[j], s[i]>> \notin FrameOrder
      BY LaterDiffers
<1>2. i < j \/ j < i
      OBVIOUS
<1> QED BY <1>1, <1>2 DEF Ordered

\* The frames of an edit, as a set and in order.
LEMMA FramesInOrder ==
  ASSUME NEW e \in Segment
  PROVE  Ordered(FramesIn(e), FrameOrder) /\ ToSet(FramesIn(e)) = Shots(e)
<1>1. /\ e.clip \in Clips /\ e.from \in Int /\ e.to \in Int /\ e.from <= e.to /\ e.to - e.from \in Nat
      BY SegmentFacts
<1>2. DOMAIN FramesIn(e) = 1..(e.to - e.from)
      /\ \A n \in 1..(e.to - e.from) : FramesIn(e)[n] = <<e.clip, e.from + n - 1>>
      BY FramesInFacts
<1>3. ASSUME NEW i \in DOMAIN FramesIn(e), NEW j \in DOMAIN FramesIn(e), i < j
      PROVE  <<FramesIn(e)[i], FramesIn(e)[j]>> \in FrameOrder
  <2>1. i \in Int /\ j \in Int /\ e.from + i - 1 \in Int /\ e.from + j - 1 \in Int /\ e.from + i - 1 < e.from + j - 1
        BY <1>1, <1>2, <1>3
  <2>2. <<<<e.clip, e.from + i - 1>>, <<e.clip, e.from + j - 1>>>> \in FrameOrder
        BY <1>1, <2>1, LaterFacts
  <2> QED BY <1>2, <2>2
<1>4. ASSUME NEW f PROVE f \in ToSet(FramesIn(e)) <=> f \in Shots(e)
  <2>1. ToSet(FramesIn(e)) = {FramesIn(e)[n] : n \in 1..(e.to - e.from)}
        BY <1>2 DEF ToSet
  <2>2. f \in ToSet(FramesIn(e)) <=> \E n \in 1..(e.to - e.from) : f = <<e.clip, e.from + n - 1>>
        BY <1>2, <2>1
  <2>3. f \in Shots(e) <=> \E n \in e.from..e.to - 1 : f = <<e.clip, n>>
        BY DEF Shots
  <2>4. \A k \in e.from..e.to - 1 : k - e.from + 1 \in 1..(e.to - e.from) /\ e.from + (k - e.from + 1) - 1 = k
        BY <1>1
  <2>5. \A n \in 1..(e.to - e.from) : e.from + n - 1 \in e.from..e.to - 1
        BY <1>1
  <2> QED BY <2>2, <2>3, <2>4, <2>5
<1>5. Ordered(FramesIn(e), FrameOrder)
      BY <1>3 DEF Ordered
<1> QED BY <1>4, <1>5

\* Edits in order make frames in order.
LEMMA FramesInTurn ==
  ASSUME NEW s \in Seq(Segment), Ordered(s, Sooner)
  PROVE  Ordered(FramesOf(s), FrameOrder)
<1> DEFINE ss == [i \in DOMAIN s |-> FramesIn(s[i])]
           m == Len(s)
<1>1. FramesOf(s) = FlattenSeq(ss)
      BY DEF FramesOf, Mapped, FramesIn
<1>2. m \in Nat /\ DOMAIN s = 1..m /\ \A i \in 1..m : s[i] \in Segment
      OBVIOUS
<1> HIDE DEF m
<1>3. \A i \in 1..m : FramesIn(s[i]) \in Seq(Frame) /\ Ordered(FramesIn(s[i]), FrameOrder) /\ ToSet(FramesIn(s[i])) = Shots(s[i])
      BY <1>2, FramesInFacts, FramesInOrder
<1>4. ss \in Seq(Seq(Frame)) /\ Len(ss) = m /\ \A i \in 1..m : ss[i] = FramesIn(s[i])
      BY <1>2, <1>3
<1> HIDE DEF ss
<1>5. ASSUME NEW i \in 1..m, NEW j \in 1..m, i < j PROVE Across(Shots(s[i]), Shots(s[j]), FrameOrder)
  <2>1. <<s[i], s[j]>> \in Sooner
        BY <1>2, <1>5 DEF Ordered
  <2> QED BY <1>2, <2>1, SoonerFacts
<1>6. \A i \in 1..Len(ss) : Ordered(ss[i], FrameOrder)
      BY <1>3, <1>4
<1>7. \A i, j \in 1..Len(ss) : i < j => Across(ToSet(ss[i]), ToSet(ss[j]), FrameOrder)
      BY <1>3, <1>4, <1>5
<1> QED BY <1>1, <1>4, <1>6, <1>7, OrderedFlatten

\* And where they lie one after the other, the other way round.
LEMMA EditsInTurn ==
  ASSUME NEW s \in Seq(Segment), Contiguous(s), Ordered(FramesOf(s), FrameOrder)
  PROVE  Ordered(s, Sooner)
<1> DEFINE n == Len(s)
           frames == FramesOf(s)
<1>1. n \in Nat /\ DOMAIN s = 1..n /\ \A i \in 1..n : s[i] \in Segment
      OBVIOUS
<1>2. \A i \in 1..n : Shows(s[i], frames)
      BY ContiguousShows
<1>3. \A i, j \in 1..n : i < j => EndOf(s[i]) <= s[j].at
      BY InOrder
<1>4. frames \in Seq(Frame)
      BY FramesType
<1> HIDE DEF n, frames
<1>5. ASSUME NEW i \in 1..n, NEW f \in Shots(s[i])
      PROVE  \E k \in 1..Len(frames) : s[i].at < k /\ k <= EndOf(s[i]) /\ frames[k] = f
  <2> DEFINE e == s[i]
  <2>1. e \in Segment /\ Shows(e, frames)
        BY <1>1, <1>2
  <2> HIDE DEF e
  <2>2. e.from \in Int /\ e.to \in Int /\ e.at \in Int
        BY <2>1, SegmentFacts
  <2>3. PICK t \in e.from..e.to - 1 : f = <<e.clip, t>>
        BY <1>5, <2>1, ShotsFacts DEF e
  <2>4. t - e.from \in 0..(e.to - e.from - 1) /\ e.from + (t - e.from) = t
        BY <2>2
  <2>5. frames[e.at + (t - e.from) + 1] = f
        BY <2>1, <2>3, <2>4 DEF Shows
  <2>6. 0 <= e.at /\ e.at + e.to - e.from <= Len(frames) /\ EndOf(e) = e.at + e.to - e.from
        BY <2>1 DEF Shows, EndOf
  <2>7. Len(frames) \in Nat
        BY <1>4
  <2> DEFINE k == e.at + (t - e.from) + 1
  <2>8. k \in 1..Len(frames) /\ e.at < k /\ k <= EndOf(e)
    <3>1. t \in Int /\ e.from <= t /\ t <= e.to - 1
          BY <2>2
    <3>2. k \in Int /\ e.at < k /\ k <= e.at + e.to - e.from /\ 1 <= k
          BY <2>2, <2>6, <3>1, SMTT(30)
    <3>3. k <= Len(frames)
      <4> HIDE DEF k
      <4>1. e.at + e.to - e.from \in Int
            BY <2>2
      <4> QED BY <2>6, <2>7, <3>2, <4>1
    <3> HIDE DEF k
    <3> QED BY <2>6, <2>7, <3>2, <3>3
  <2> QED BY <2>5, <2>8 DEF e
<1>6. ASSUME NEW i \in 1..n, NEW j \in 1..n, i < j PROVE <<s[i], s[j]>> \in Sooner
  <2>1. ASSUME NEW f \in Shots(s[i]), NEW g \in Shots(s[j]) PROVE <<f, g>> \in FrameOrder
    <3>1. PICK k \in 1..Len(frames) : s[i].at < k /\ k <= EndOf(s[i]) /\ frames[k] = f
          BY <1>5
    <3>2. PICK m \in 1..Len(frames) : s[j].at < m /\ m <= EndOf(s[j]) /\ frames[m] = g
          BY <1>5
    <3>3. s[j].at \in Int /\ EndOf(s[i]) \in Int
          BY <1>1, SegmentFacts DEF EndOf
    <3>4. k < m
          BY <1>3, <1>6, <3>1, <3>2, <3>3
    <3>5. k \in DOMAIN frames /\ m \in DOMAIN frames
          BY <1>4
    <3> QED BY <3>1, <3>2, <3>4, <3>5 DEF Ordered, frames
  <2>2. Across(Shots(s[i]), Shots(s[j]), FrameOrder)
        BY <2>1 DEF Across
  <2> QED BY <1>1, <2>2, SoonerFacts
<1> QED BY <1>1, <1>6 DEF Ordered

-----------------------------------------------------------------------------
(* Clips one after the other, and the sort of the program.                 *)

LEMMA SumSteps ==
  ASSUME NEW s \in Seq(Nat)
  PROVE  \E g \in [0..Len(s) -> Nat] :
           /\ g[0] = 0 /\ FoldLeft(LAMBDA sum, n : sum + n, 0, s) = g[Len(s)]
           /\ \A i \in 1..Len(s) : g[i] = g[i - 1] + s[i]
<1> DEFINE n == Len(s)
           step == [p \in (1..n) \X Nat |-> p[2] + s[p[1]]]
           Unfold(h) == h = [t \in SUBSET DOMAIN s |-> IF t = {} THEN 0 ELSE h[t \ {Max(t)}] + s[Max(t)]]
           iter == CHOOSE h : Unfold(h)
<1>1. n \in Nat /\ DOMAIN s = 1..n /\ 0 \in Nat /\ \A i \in 1..n : s[i] \in Nat
      OBVIOUS
<1>2. FoldLeft(LAMBDA sum, k : sum + k, 0, s) = iter[DOMAIN s]
      BY DEF FoldLeft, MapThenFoldSet
<1>3. step \in [(1..n) \X Nat -> Nat]
  <2>1. \A p \in (1..n) \X Nat : p[2] + s[p[1]] \in Nat
        BY <1>1
  <2> QED BY <2>1
<1>4. \A i \in 1..n, a \in Nat : step[<<i, a>>] = a + s[i]
      OBVIOUS
<1> HIDE DEF n, step
<1>5. PICK h \in [SUBSET (1..n) -> Nat] : FoldsLeft(h, 0, step, n)
      BY <1>1, <1>3, FoldLeftExists
<1>6. Unfold(h)
  <2>1. ASSUME NEW t \in SUBSET (1..n), t # {}
        PROVE  h[t] = h[t \ {Max(t)}] + s[Max(t)]
    <3>1. Max(t) \in 1..n /\ h[t \ {Max(t)}] \in Nat
          BY <1>1, <2>1, LastTaken
    <3>2. h[t] = step[<<Max(t), h[t \ {Max(t)}]>>]
          BY <1>5, <2>1 DEF FoldsLeft
    <3> QED BY <1>4, <3>1, <3>2
  <2>2. h[{}] = 0
        BY <1>5 DEF FoldsLeft
  <2> QED BY <1>1, <2>1, <2>2
<1>7. Unfold(iter)
      BY <1>6
<1> HIDE DEF iter
<1>8. Unfolds(iter, 0, step, Nat, n)
  <2>1. iter[{}] = 0
        BY <1>1, <1>7
  <2>2. ASSUME NEW i \in 1..n, iter[1..(i - 1)] \in Nat
        PROVE  iter[1..i] = step[<<i, iter[1..(i - 1)]>>]
    <3>1. 1..i \in SUBSET (1..n) /\ 1..i # {} /\ Max(1..i) = i /\ (1..i) \ {i} = 1..(i - 1)
          BY <1>1, LastTaken
    <3>2. iter[1..i] = iter[1..(i - 1)] + s[i]
          BY <1>1, <1>7, <3>1
    <3> QED BY <1>4, <2>2, <3>2
  <2> QED BY <2>1, <2>2 DEF Unfolds
<1>9. PICK g \in [0..n -> Nat] : Unrolls(g, iter, 0, step, n)
      BY <1>1, <1>3, <1>8, FoldSteps
<1>10. ASSUME NEW i \in 1..n PROVE g[i] = g[i - 1] + s[i]
  <2>1. g[i - 1] \in Nat
        BY <1>1
  <2> QED BY <1>4, <1>9, <2>1 DEF Steps, Unrolls
<1> QED BY <1>1, <1>2, <1>9, <1>10 DEF n, Steps, Unrolls

\* The offset of a clip is the sum of the lengths before it.
LEMMA OffsetSteps ==
  ASSUME NEW k \in Clips
  PROVE  \E g \in [0..(k - 1) -> Nat] :
           /\ g[0] = 0 /\ OffsetOf(k) = g[k - 1] /\ \A i \in 1..(k - 1) : g[i] = g[i - 1] + Lengths[i]
<1> DEFINE s == SubSeq(Lengths, 1, k - 1)
<1>1. Clips = 1..Len(Lengths) /\ Len(Lengths) \in Nat /\ Lengths \in Seq(Nat)
      BY ClipsFacts, EditListsBoundsAssumption
<1>2. k - 1 \in Nat /\ s = [i \in 1..(k - 1) |-> Lengths[i]] /\ \A i \in 1..(k - 1) : Lengths[i] \in Nat
      BY <1>1
<1>3. OffsetOf(k) = FoldLeft(LAMBDA sum, n : sum + n, 0, s)
      BY DEF OffsetOf
<1> HIDE DEF s
<1>4. s \in Seq(Nat) /\ Len(s) = k - 1
      BY <1>2
<1>5. PICK g \in [0..Len(s) -> Nat] :
           /\ g[0] = 0 /\ FoldLeft(LAMBDA sum, n : sum + n, 0, s) = g[Len(s)]
           /\ \A i \in 1..Len(s) : g[i] = g[i - 1] + s[i]
      BY <1>4, SumSteps
<1> QED BY <1>2, <1>3, <1>4, <1>5

LEMMA OffsetsInTurn ==
  /\ \A k \in Clips : OffsetOf(k) \in Nat
  /\ \A j, k \in Clips : j < k => OffsetOf(j) + Lengths[j] <= OffsetOf(k)
<1>0. Clips = 1..Len(Lengths) /\ Len(Lengths) \in Nat /\ \A k \in Clips : Lengths[k] \in Nat
      BY ClipsFacts
<1>1. ASSUME NEW k \in Clips PROVE OffsetOf(k) \in Nat
  <2>1. PICK g \in [0..(k - 1) -> Nat] :
           /\ g[0] = 0 /\ OffsetOf(k) = g[k - 1] /\ \A i \in 1..(k - 1) : g[i] = g[i - 1] + Lengths[i]
        BY OffsetSteps
  <2>2. k - 1 \in 0..(k - 1)
        BY <1>0
  <2> QED BY <2>1, <2>2
<1>2. ASSUME NEW j \in Clips, NEW k \in Clips, j < k PROVE OffsetOf(j) + Lengths[j] <= OffsetOf(k)
  <2>1. PICK g \in [0..(k - 1) -> Nat] :
           /\ g[0] = 0 /\ OffsetOf(k) = g[k - 1] /\ \A i \in 1..(k - 1) : g[i] = g[i - 1] + Lengths[i]
        BY OffsetSteps
  <2>2. PICK h \in [0..(j - 1) -> Nat] :
           /\ h[0] = 0 /\ OffsetOf(j) = h[j - 1] /\ \A i \in 1..(j - 1) : h[i] = h[i - 1] + Lengths[i]
        BY OffsetSteps
  <2>3. j \in Nat /\ k \in Nat /\ j - 1 \in Nat /\ k - 1 \in Nat /\ j \in 1..(k - 1) /\ j - 1 \in 0..(j - 1)
        BY <1>0, <1>2
  <2> DEFINE Same == {i \in 0..(j - 1) : g[i] = h[i]}
  <2>4. Same = 0..(j - 1)
    <3>1. Same \in SUBSET (0..(j - 1)) /\ 0 \in Same
          BY <2>1, <2>2, <2>3
    <3>2. ASSUME NEW i \in 1..(j - 1), i - 1 \in Same PROVE i \in Same
      <4>1. i \in 1..(k - 1) /\ i \in 0..(j - 1)
            BY <2>3
      <4> QED BY <2>1, <2>2, <3>2, <4>1
    <3> HIDE DEF Same
    <3> QED BY <2>3, <3>1, <3>2, PrefixInduction
  <2>5. g[j] = OffsetOf(j) + Lengths[j]
    <3>1. g[j - 1] = h[j - 1]
          BY <2>3, <2>4
    <3> QED BY <2>1, <2>2, <2>3, <3>1
  <2> DEFINE Above == {i \in 0..(k - 1) : j <= i => g[j] <= g[i]}
  <2>6. Above = 0..(k - 1)
    <3>1. Above \in SUBSET (0..(k - 1)) /\ 0 \in Above
          BY <2>3
    <3>2. ASSUME NEW i \in 1..(k - 1), i - 1 \in Above PROVE i \in Above
      <4>1. g[i] = g[i - 1] + Lengths[i] /\ Lengths[i] \in Nat /\ i \in 0..(k - 1) /\ i - 1 \in 0..(k - 1) /\ j \in 0..(k - 1)
            BY <1>0, <2>1, <2>3
      <4>2. g[i] \in Nat /\ g[i - 1] \in Nat /\ g[j] \in Nat
            BY <4>1
      <4>3. CASE j <= i - 1
        <5>1. g[j] <= g[i - 1]
              BY <3>2, <4>3
        <5> QED BY <4>1, <4>2, <5>1
      <4>4. CASE ~(j <= i - 1)
        <5>1. j <= i => i = j
              BY <2>3, <4>4
        <5> QED BY <4>1, <4>2, <5>1
      <4> QED BY <4>3, <4>4
    <3> HIDE DEF Above
    <3> QED BY <2>3, <3>1, <3>2, PrefixInduction
  <2>7. g[j] <= g[k - 1]
    <3>1. k - 1 \in 0..(k - 1) /\ j <= k - 1
          BY <2>3
    <3> QED BY <2>6, <3>1
  <2> QED BY <2>1, <2>5, <2>7
<1> QED BY <1>1, <1>2

\* Edits apart, sorted by where their clip and they begin, are in the order of their frames.
LEMMA SortedSooner ==
  ASSUME NEW s \in Seq(Segment), Ordered(s, Apart), Footage(ToSet(s)) \subseteq Within
  PROVE  Ordered(Sorted(s, [e \in ToSet(s) |-> OffsetOf(e.clip) + e.from]), Sooner)
<1> DEFINE rank == [e \in ToSet(s) |-> OffsetOf(e.clip) + e.from]
           R == {p \in Apart : rank[p[1]] <= rank[p[2]]}
           t == Sorted(s, rank)
<1>1. \A e \in ToSet(s) : e \in Segment /\ rank[e] = OffsetOf(e.clip) + e.from
      BY DEF ToSet
<1>2. \A e \in ToSet(s) : rank[e] \in Int
      BY <1>1, OffsetsInTurn, SegmentFacts
<1>3. \A y, z \in ToSet(s) : <<y, z>> \in Apart => <<z, y>> \in Apart
      BY <1>1, SoonerFacts
<1> HIDE DEF rank
<1>4. Ordered(t, R)
      BY <1>2, <1>3, SortedOrdered
<1>5. ToSet(t) = ToSet(s)
      BY SortedFacts
<1>6. ASSUME NEW d \in ToSet(s), NEW e \in ToSet(s), <<d, e>> \in R PROVE <<d, e>> \in Sooner
  <2>1. d \in Segment /\ e \in Segment /\ Shots(d) \cap Shots(e) = {} /\ rank[d] <= rank[e]
    <3> DEFINE p == <<d, e>>
    <3>1. p \in R /\ p[1] = d /\ p[2] = e
          BY <1>6
    <3> HIDE DEF p
    <3>2. p \in Apart /\ rank[d] <= rank[e]
          BY <3>1
    <3>3. <<d, e>> \in Apart
          BY <3>2 DEF p
    <3> QED BY <1>1, <3>2, <3>3, SoonerFacts
  <2>2. /\ d.clip \in Clips /\ d.from \in Int /\ d.to \in Int /\ e.clip \in Clips /\ e.from \in Int /\ e.to \in Int
        /\ OffsetOf(d.clip) \in Nat /\ OffsetOf(e.clip) \in Nat /\ d.clip \in Nat /\ e.clip \in Nat
        /\ Lengths[e.clip] \in Nat
        BY <2>1, SegmentFacts, OffsetsInTurn, ClipsFacts
  <2>3. OffsetOf(d.clip) + d.from <= OffsetOf(e.clip) + e.from
        BY <1>1, <2>1
  <2>4. ASSUME NEW f \in Shots(d), NEW g \in Shots(e) PROVE <<f, g>> \in FrameOrder
    <3>1. PICK i \in d.from..d.to - 1 : f = <<d.clip, i>>
          BY <2>1, ShotsFacts
    <3>2. PICK j \in e.from..e.to - 1 : g = <<e.clip, j>>
          BY <2>1, ShotsFacts
    <3>3. i \in Int /\ j \in Int /\ d.from <= i /\ i < d.to /\ e.from <= j /\ j < e.to
          BY <2>2
    <3>4. <<d.clip, d.from>> \in Within /\ <<e.clip, e.from>> \in Within
      <4>1. d.from \in d.from..d.to - 1 /\ e.from \in e.from..e.to - 1
            BY <2>2, <3>3, SMTT(30)
      <4>2. <<d.clip, d.from>> \in Shots(d) /\ <<e.clip, e.from>> \in Shots(e)
            BY <2>1, <4>1, ShotsFacts
      <4> QED BY <4>2, FootageOfParts
    <3>5. 0 <= d.from /\ 0 <= e.from /\ e.from < Lengths[e.clip]
      <4>1. d.from \in 0..Lengths[d.clip] - 1 /\ e.from \in 0..Lengths[e.clip] - 1
            BY <3>4 DEF Within
      <4> QED BY <2>2, <4>1
    <3>6. ~(e.clip < d.clip)
      <4>1. e.clip < d.clip => OffsetOf(e.clip) + Lengths[e.clip] <= OffsetOf(d.clip)
            BY <2>2, OffsetsInTurn
      <4> QED BY <2>2, <2>3, <3>5, <4>1
    <3>7. d.clip = e.clip => i < j
      <4> SUFFICES ASSUME d.clip = e.clip, ~(i < j) PROVE FALSE
          OBVIOUS
      <4>1. d.from <= e.from
            BY <2>2, <2>3
      <4>2. CASE e.from \in d.from..d.to - 1
        <5>1. <<d.clip, e.from>> \in Shots(d) /\ <<e.clip, e.from>> \in Shots(e)
          <6>1. e.from \in e.from..e.to - 1
                BY <2>2, <3>3
          <6> QED BY <2>1, <4>2, <6>1, ShotsFacts
        <5> QED BY <2>1, <5>1
      <4>3. CASE e.from \notin d.from..d.to - 1
            BY <2>2, <3>3, <4>1, <4>3
      <4> QED BY <4>2, <4>3
    <3>8. d.clip < e.clip \/ (d.clip = e.clip /\ i < j)
          BY <2>2, <3>6, <3>7
    <3> QED BY <2>2, <3>1, <3>2, <3>3, <3>8, LaterFacts
  <2>5. Across(Shots(d), Shots(e), FrameOrder)
        BY <2>4 DEF Across
  <2> QED BY <2>1, <2>5, SoonerFacts
<1> HIDE DEF R
<1>7. Ordered(t, Sooner)
      BY <1>4, <1>5, <1>6, OrderedMore
<1> QED BY <1>7 DEF rank

-----------------------------------------------------------------------------
(* What a review's steps make of a program's parts.                        *)

\* A part of an edit, or the edit itself.
PartOf(p, e) ==
  /\ p.clip = e.clip /\ p.new = e.new /\ p.at - p.from = e.at - e.from
  /\ e.from <= p.from /\ p.to <= e.to

LEMMA PartFrames ==
  ASSUME NEW e \in Segment, NEW p \in Segment, PartOf(p, e)
  PROVE  /\ Shots(p) \subseteq Shots(e) /\ p.new = e.new
         /\ \A s : Len(s) \in Nat /\ Shows(e, s) => Shows(p, s)
<1>1. /\ e.clip \in Clips /\ e.from \in Int /\ e.to \in Int /\ e.from <= e.to /\ e.at \in Int
      /\ p.clip \in Clips /\ p.from \in Int /\ p.to \in Int /\ p.from <= p.to /\ p.at \in Int
      BY SegmentFacts
<1>2. p.clip = e.clip /\ p.new = e.new /\ p.at - p.from = e.at - e.from /\ e.from <= p.from /\ p.to <= e.to
      BY DEF PartOf
<1>3. \A n \in p.from..p.to - 1 : n \in e.from..e.to - 1
      BY <1>1, <1>2
<1>4. Shots(p) \subseteq Shots(e)
      BY <1>2, <1>3 DEF Shots
<1>5. ASSUME NEW s, Len(s) \in Nat, Shows(e, s) PROVE Shows(p, s)
  <2>1. /\ 0 <= e.at /\ e.at + e.to - e.from <= Len(s)
        /\ \A n \in 0..(e.to - e.from - 1) : s[e.at + n + 1] = <<e.clip, e.from + n>>
        BY <1>5 DEF Shows, EndOf
  <2>2. 0 <= p.at /\ p.at + p.to - p.from <= Len(s)
        BY <1>1, <1>2, <1>5, <2>1
  <2>3. ASSUME NEW n \in 0..(p.to - p.from - 1) PROVE s[p.at + n + 1] = <<p.clip, p.from + n>>
    <3> DEFINE k == n + p.from - e.from
    <3>1. k \in 0..(e.to - e.from - 1) /\ e.at + k + 1 = p.at + n + 1 /\ e.from + k = p.from + n
          BY <1>1, <1>2
    <3> HIDE DEF k
    <3>2. s[e.at + k + 1] = <<e.clip, e.from + k>>
          BY <2>1, <3>1
    <3> QED BY <1>2, <3>1, <3>2
  <2> QED BY <2>2, <2>3 DEF Shows, EndOf
<1> QED BY <1>2, <1>4, <1>5

\* The pieces of an edit are parts of it, and apart from each other.
LEMMA PiecesParts ==
  ASSUME NEW e \in Segment, NEW r, r.from \in Int, r.to \in Int, r.from <= r.to
  PROVE  /\ \A p \in ToSet(PiecesOf(e, r)) : p \in Segment /\ PartOf(p, e)
         /\ Ordered(PiecesOf(e, r), Apart)
<1>1. /\ e.clip \in Clips /\ e.from \in Int /\ e.to \in Int /\ e.from <= e.to
      /\ e.at \in Int /\ e.new \in BOOLEAN
      BY SegmentFacts
<1>2. CASE e.clip # r.clip \/ ~Overlap(e, r)
  <2>1. PiecesOf(e, r) = <<e>>
        BY <1>2 DEF PiecesOf
  <2>2. ToSet(<<e>>) = {e} /\ Ordered(<<e>>, Apart)
        BY OrderedOne
  <2>3. PartOf(e, e)
        BY <1>1 DEF PartOf
  <2> QED BY <2>1, <2>2, <2>3
<1>3. CASE e.clip = r.clip /\ Overlap(e, r)
  <2> DEFINE a == [e EXCEPT !.to = r.from]
             b == [e EXCEPT !.from = r.to, !.at = e.at + r.to - e.from]
             Loose == [clip : Clips, from : Int, to : Int, at : Int, new : BOOLEAN]
             T == {p \in Loose : p.from < p.to}
             R == {p \in Loose \X Loose : Shots(p[1]) \cap Shots(p[2]) = {}}
             s == <<a, b>>
  <2>1. /\ a \in Loose /\ a.clip = e.clip /\ a.from = e.from /\ a.to = r.from /\ a.at = e.at /\ a.new = e.new
        /\ b \in Loose /\ b.clip = e.clip /\ b.from = r.to /\ b.to = e.to /\ b.at = e.at + r.to - e.from
        /\ b.new = e.new
    <3>1. e \in Loose
          BY DEF Segment, Forward
    <3>2. a \in Loose /\ a.clip = e.clip /\ a.from = e.from /\ a.to = r.from /\ a.at = e.at /\ a.new = e.new
          BY <3>1
    <3>3. e.at + r.to - e.from \in Int
          BY <1>1
    <3>4. /\ b \in Loose /\ b.clip = e.clip /\ b.from = r.to /\ b.to = e.to /\ b.at = e.at + r.to - e.from
          /\ b.new = e.new
          BY <3>1, <3>3
    <3> QED BY <3>2, <3>4
  <2>2. e.from < r.to /\ r.from < e.to
        BY <1>3 DEF Overlap
  <2> HIDE DEF a, b
  <2>3. PiecesOf(e, r) = Filtered(s, T)
    <3>1. PiecesOf(e, r) = Where(s, Nonempty)
          BY <1>3 DEF PiecesOf, a, b
    <3>2. \A i \in DOMAIN s : Nonempty(s[i]) <=> s[i] \in T
          BY <2>1 DEF Nonempty
    <3>3. [i \in DOMAIN s |-> IF Nonempty(s[i]) THEN <<s[i]>> ELSE <<>>]
            = [i \in DOMAIN s |-> IF s[i] \in T THEN <<s[i]>> ELSE <<>>]
          BY <3>2
    <3> HIDE DEF s
    <3> QED BY <3>1, <3>3 DEF Where, Mapped, Filtered
  <2>4. s \in Seq(Loose) /\ ToSet(s) = {a, b}
        BY <2>1 DEF ToSet
  <2>5. ToSet(Filtered(s, T)) = {a, b} \cap T
    <3> HIDE DEF s, T, Loose
    <3> QED BY <2>4, FilterFacts, ZenonT(40)
  <2>6. \A p \in Loose \cap T : p \in Segment
        BY DEF Segment, Forward
  <2>7. ASSUME NEW p \in {a, b} \cap T PROVE p \in Segment /\ PartOf(p, e)
    <3>1. CASE p = a
          BY <1>1, <2>1, <2>2, <2>6, <3>1 DEF PartOf
    <3>2. CASE p = b
          BY <1>1, <2>1, <2>2, <2>6, <3>2 DEF PartOf
    <3> QED BY <2>7, <3>1, <3>2
  <2>8. Shots(a) \cap Shots(b) = {}
    <3>1. \A f : f \in Shots(a) <=> \E n \in e.from..r.from - 1 : f = <<e.clip, n>>
          BY <2>1 DEF Shots
    <3>2. \A f : f \in Shots(b) <=> \E n \in r.to..e.to - 1 : f = <<e.clip, n>>
          BY <2>1 DEF Shots
    <3>3. \A n \in e.from..r.from - 1 : \A m \in r.to..e.to - 1 : n # m
          BY <1>1
    <3> QED BY <3>1, <3>2, <3>3
  <2>9. <<a, b>> \in R
    <3> DEFINE q == <<a, b>>
    <3>1. q \in Loose \X Loose /\ q[1] = a /\ q[2] = b
          BY <2>1
    <3> HIDE DEF q
    <3>2. q \in R
          BY <2>8, <3>1
    <3> QED BY <3>2 DEF q
  <2>10. Ordered(s, R)
    <3>1. DOMAIN s = 1..2 /\ s[1] = a /\ s[2] = b
          OBVIOUS
    <3> HIDE DEF s, R
    <3> QED BY <2>9, <3>1 DEF Ordered
  <2>11. Ordered(Filtered(s, T), R)
    <3> HIDE DEF s, T, Loose, R
    <3> QED BY <2>4, <2>10, OrderedFilter
  <2>12. \A x, y \in {a, b} \cap T : <<x, y>> \in R => <<x, y>> \in Apart
    <3>1. ASSUME NEW x \in {a, b} \cap T, NEW y \in {a, b} \cap T, <<x, y>> \in R
          PROVE  <<x, y>> \in Apart
      <4>1. x \in Segment /\ y \in Segment
            BY <2>7
      <4>2. Shots(x) \cap Shots(y) = {}
        <5> DEFINE q == <<x, y>>
        <5>1. q[1] = x /\ q[2] = y
              OBVIOUS
        <5> HIDE DEF q
        <5>2. q \in R
              BY <3>1 DEF q
        <5> QED BY <5>1, <5>2
      <4> QED BY <4>1, <4>2, SoonerFacts
    <3> HIDE DEF R, T
    <3> QED BY <3>1
  <2>13. Ordered(Filtered(s, T), Apart)
    <3> DEFINE w == Filtered(s, T)
               Q == {a, b} \cap T
    <3>1. ToSet(w) = Q /\ Ordered(w, R)
          BY <2>5, <2>11
    <3>2. \A x, y \in Q : <<x, y>> \in R => <<x, y>> \in Apart
          BY <2>12
    <3> HIDE DEF w, R, Q
    <3>3. \A x, y \in ToSet(w) : <<x, y>> \in R => <<x, y>> \in Apart
          BY <3>1, <3>2
    <3>4. Ordered(w, Apart)
          BY <3>1, <3>3, OrderedMore
    <3> QED BY <3>4 DEF w
  <2> QED BY <2>3, <2>5, <2>7, <2>13
<1> QED BY <1>2, <1>3

\* Where the parts of a program come from: put back, or as a timeline shows them.
Traced(parts, frames, put) ==
  \A p \in ToSet(parts) : IF p.new THEN Shots(p) \subseteq put
                          ELSE Shows(p, frames) /\ Shots(p) \cap put = {}

LEMMA MinusApart ==
  ASSUME NEW edits \in Seq(Segment), NEW r, r.from \in Int, r.to \in Int, r.from <= r.to,
         Ordered(edits, Apart)
  PROVE  Ordered(Minus(edits, r), Apart)
<1> DEFINE ss == [i \in DOMAIN edits |-> PiecesOf(edits[i], r)]
           m == Len(edits)
<1>1. Minus(edits, r) = FlattenSeq(ss)
      BY DEF Minus, Mapped
<1>2. m \in Nat /\ DOMAIN edits = 1..m /\ \A i \in 1..m : edits[i] \in Segment
      OBVIOUS
<1> HIDE DEF m
<1>3. \A i \in 1..m : /\ PiecesOf(edits[i], r) \in Seq(Segment)
                      /\ \A p \in ToSet(PiecesOf(edits[i], r)) : p \in Segment /\ PartOf(p, edits[i])
                      /\ Ordered(PiecesOf(edits[i], r), Apart)
      BY <1>2, PiecesFacts, PiecesParts
<1>4. ss \in Seq(Seq(Segment)) /\ Len(ss) = m
      BY <1>2, <1>3
<1>5. \A i \in 1..m : ss[i] = PiecesOf(edits[i], r)
      BY <1>2
<1> HIDE DEF ss
<1>6. ASSUME NEW i \in 1..m, NEW j \in 1..m, i < j
      PROVE  Across(ToSet(ss[i]), ToSet(ss[j]), Apart)
  <2>1. Shots(edits[i]) \cap Shots(edits[j]) = {}
    <3>1. <<edits[i], edits[j]>> \in Apart
          BY <1>2, <1>6 DEF Ordered
    <3> QED BY <1>2, <3>1, SoonerFacts
  <2>2. ASSUME NEW p \in ToSet(ss[i]), NEW q \in ToSet(ss[j]) PROVE <<p, q>> \in Apart
    <3>1. p \in Segment /\ PartOf(p, edits[i]) /\ q \in Segment /\ PartOf(q, edits[j])
          BY <1>3, <1>5
    <3>2. Shots(p) \subseteq Shots(edits[i]) /\ Shots(q) \subseteq Shots(edits[j])
          BY <1>2, <3>1, PartFrames
    <3> QED BY <2>1, <3>1, <3>2, SoonerFacts
  <2> QED BY <2>2 DEF Across
<1>7. Ordered(FlattenSeq(ss), Apart)
      BY <1>3, <1>4, <1>5, <1>6, OrderedFlatten
<1> QED BY <1>1, <1>7

LEMMA MinusTraced ==
  ASSUME NEW edits \in Seq(Segment), NEW r, r.from \in Int, r.to \in Int, r.from <= r.to,
         NEW frames, Len(frames) \in Nat, NEW put, Traced(edits, frames, put)
  PROVE  Traced(Minus(edits, r), frames, put) /\ Traced(Minus(edits, r), frames, put \cup Shots(r))
<1> DEFINE ss == [i \in DOMAIN edits |-> PiecesOf(edits[i], r)]
           m == Len(edits)
<1>1. Minus(edits, r) = FlattenSeq(ss)
      BY DEF Minus, Mapped
<1>2. m \in Nat /\ DOMAIN edits = 1..m /\ \A i \in 1..m : edits[i] \in Segment /\ edits[i] \in ToSet(edits)
      BY DEF ToSet
<1> HIDE DEF m
<1>3. \A i \in 1..m : /\ PiecesOf(edits[i], r) \in Seq(Segment)
                      /\ \A p \in ToSet(PiecesOf(edits[i], r)) : p \in Segment /\ PartOf(p, edits[i])
      BY <1>2, PiecesFacts, PiecesParts
<1>4. ss \in Seq(Seq(Segment)) /\ Len(ss) = m
      BY <1>2, <1>3
<1>5. \A i \in 1..m : ss[i] = PiecesOf(edits[i], r)
      BY <1>2
<1> HIDE DEF ss
<1>6. ToSet(FlattenSeq(ss)) = UNION {ToSet(ss[i]) : i \in 1..m} /\ FlattenSeq(ss) \in Seq(Segment)
      BY <1>4, FlattenFacts
<1>7. Footage(ToSet(FlattenSeq(ss))) \cap Shots(r) = {}
      BY <1>1, MinusFacts
<1>8. ASSUME NEW p \in ToSet(FlattenSeq(ss))
      PROVE  /\ p \in Segment /\ Shots(p) \cap Shots(r) = {}
             /\ IF p.new THEN Shots(p) \subseteq put ELSE Shows(p, frames) /\ Shots(p) \cap put = {}
  <2>1. PICK i \in 1..m : p \in ToSet(ss[i])
        BY <1>6
  <2>2. p \in Segment /\ PartOf(p, edits[i]) /\ edits[i] \in Segment /\ edits[i] \in ToSet(edits)
        BY <1>2, <1>3, <1>5, <2>1
  <2>3. /\ Shots(p) \subseteq Shots(edits[i]) /\ p.new = edits[i].new
        /\ Shows(edits[i], frames) => Shows(p, frames)
        BY <2>2, PartFrames
  <2>4. IF edits[i].new THEN Shots(edits[i]) \subseteq put
        ELSE Shows(edits[i], frames) /\ Shots(edits[i]) \cap put = {}
        BY <2>2 DEF Traced
  <2>5. Shots(p) \cap Shots(r) = {}
    <3>1. Footage(ToSet(FlattenSeq(ss))) = UNION {Shots(x) : x \in ToSet(FlattenSeq(ss))}
          BY FootageOfParts
    <3> QED BY <1>7, <3>1
  <2> QED BY <2>2, <2>3, <2>4, <2>5
<1>9. Traced(FlattenSeq(ss), frames, put)
      BY <1>8 DEF Traced
<1>10. ASSUME NEW p \in ToSet(FlattenSeq(ss))
       PROVE  IF p.new THEN Shots(p) \subseteq put \cup Shots(r)
              ELSE Shows(p, frames) /\ Shots(p) \cap (put \cup Shots(r)) = {}
       BY <1>8
<1>11. Traced(FlattenSeq(ss), frames, put \cup Shots(r))
       BY <1>10 DEF Traced
<1> QED BY <1>1, <1>9, <1>11

LEMMA PutBackParts ==
  ASSUME NEW edits \in Seq(Segment), NEW c \in Island,
         NEW frames, Len(frames) \in Nat, NEW put, Traced(edits, frames, put), Ordered(edits, Apart)
  PROVE  Traced(PutBack(edits, c), frames, put \cup Shots(c)) /\ Ordered(PutBack(edits, c), Apart)
<1> DEFINE e == [EditOf(c.clip, SpanOf(c)) EXCEPT !.new = TRUE]
           left == Minus(edits, c)
<1>1. c.clip \in Clips /\ c.from \in Int /\ c.to \in Int /\ c.from <= c.to
      BY DEF Island, Forward
<1>2. e \in Segment /\ e.clip = c.clip /\ e.from = c.from /\ e.to = c.to /\ e.new = TRUE
  <2> DEFINE o == EditOf(c.clip, SpanOf(c))
  <2>1. o = [clip |-> c.clip, from |-> c.from, to |-> c.to, at |-> 0, new |-> FALSE]
        BY DEF EditOf, SpanOf
  <2> HIDE DEF o
  <2>2. o \in Segment /\ o.clip = c.clip /\ o.from = c.from /\ o.to = c.to
        BY <1>1, <2>1 DEF Segment, Forward
  <2> QED BY <1>1, <2>2 DEF Segment, Forward, o
<1>3. PutBack(edits, c) = Append(left, e)
      BY DEF PutBack
<1> HIDE DEF e
<1>4. left \in Seq(Segment) /\ Footage(ToSet(left)) = Footage(ToSet(edits)) \ Shots(c)
      BY <1>1, MinusFacts
<1>5. Traced(left, frames, put \cup Shots(c)) /\ Ordered(left, Apart)
      BY <1>1, MinusTraced, MinusApart
<1> HIDE DEF left
<1>6. ToSet(Append(left, e)) = ToSet(left) \cup {e}
      BY <1>2, <1>4, AppendedSets
<1>7. Shots(e) = Shots(c)
      BY <1>2 DEF Shots
<1>8. ASSUME NEW x \in ToSet(left), NEW y \in {e} PROVE <<x, y>> \in Apart
  <2>1. Footage(ToSet(left)) = UNION {Shots(p) : p \in ToSet(left)}
        BY FootageOfParts
  <2>2. Shots(x) \cap Shots(e) = {}
        BY <1>4, <1>7, <2>1
  <2>3. x \in Segment
        BY <1>4 DEF ToSet
  <2> QED BY <1>2, <2>2, <2>3, SoonerFacts
<1>9. Ordered(Append(left, e), Apart)
  <2>1. Across(ToSet(left), {e}, Apart)
        BY <1>8 DEF Across
  <2> QED BY <1>2, <1>4, <1>5, <2>1, OrderedAppend
<1>10. Traced(Append(left, e), frames, put \cup Shots(c))
      BY <1>2, <1>5, <1>6, <1>7 DEF Traced
<1> QED BY <1>3, <1>9, <1>10

LEMMA PutBackAllParts ==
  ASSUME NEW s \in Seq(Island), NEW base \in Seq(Segment), NEW frames, Len(frames) \in Nat,
         Traced(base, frames, {}), Ordered(base, Apart)
  PROVE  /\ Traced(FoldLeft(PutBack, base, s), frames, Footage(ToSet(s)))
         /\ Ordered(FoldLeft(PutBack, base, s), Apart)
<1> DEFINE n == Len(s)
<1>1. PICK g \in [0..n -> Seq(Segment)] :
        /\ g[0] = base /\ FoldLeft(PutBack, base, s) = g[n]
        /\ \A i \in 1..n : g[i] = PutBack(g[i - 1], s[i])
      BY PutBackSteps
<1>2. n \in Nat /\ 0 \in 0..n /\ n \in 0..n /\ \A i \in 1..n : s[i] \in Island
      OBVIOUS
<1>3. \A f : f \in Footage(ToSet(s)) <=> \E i \in 1..n : f \in Shots(s[i])
      BY FootageOfSeq
<1> HIDE DEF n
<1> DEFINE Put(i) == UNION {Shots(s[j]) : j \in 1..i}
           Right == {i \in 0..n : Traced(g[i], frames, Put(i)) /\ Ordered(g[i], Apart)}
<1>4. 0 \in Right
  <2>1. Put(0) = {}
        OBVIOUS
  <2> HIDE DEF Put
  <2> QED BY <1>1, <1>2, <2>1
<1>5. ASSUME NEW i \in 1..n, i - 1 \in Right PROVE i \in Right
  <2>1. i \in 0..n /\ i - 1 \in 0..n /\ 1..i = (1..(i - 1)) \cup {i}
        BY <1>2
  <2>2. g[i - 1] \in Seq(Segment) /\ s[i] \in Island /\ g[i] = PutBack(g[i - 1], s[i])
        BY <1>1, <1>2, <2>1
  <2>3. Put(i) = Put(i - 1) \cup Shots(s[i])
        BY <2>1
  <2> HIDE DEF Put
  <2>4. Traced(g[i - 1], frames, Put(i - 1)) /\ Ordered(g[i - 1], Apart)
        BY <1>5
  <2>5. /\ Traced(PutBack(g[i - 1], s[i]), frames, Put(i - 1) \cup Shots(s[i]))
        /\ Ordered(PutBack(g[i - 1], s[i]), Apart)
        BY <2>2, <2>4, PutBackParts
  <2> QED BY <2>1, <2>2, <2>3, <2>5
<1>6. Right = 0..n
  <2>1. Right \in SUBSET (0..n)
        OBVIOUS
  <2> HIDE DEF Right
  <2> QED BY <1>2, <1>4, <1>5, <2>1, PrefixInduction
<1>7. Put(n) = Footage(ToSet(s))
      BY <1>3
<1> HIDE DEF Put
<1>8. Traced(g[n], frames, Put(n)) /\ Ordered(g[n], Apart)
      BY <1>2, <1>6
<1> QED BY <1>1, <1>7, <1>8 DEF n

LEMMA MinusAllParts ==
  ASSUME NEW s \in Seq(Part), NEW base \in Seq(Segment), NEW frames, Len(frames) \in Nat, NEW put,
         Traced(base, frames, put), Ordered(base, Apart)
  PROVE  /\ Traced(FoldLeft(Minus, base, s), frames, put)
         /\ Ordered(FoldLeft(Minus, base, s), Apart)
<1> DEFINE n == Len(s)
<1>1. PICK g \in [0..n -> Seq(Segment)] :
        /\ g[0] = base /\ FoldLeft(Minus, base, s) = g[n]
        /\ \A i \in 1..n : g[i] = Minus(g[i - 1], s[i])
      BY MinusSteps
<1>2. n \in Nat /\ 0 \in 0..n /\ n \in 0..n /\ \A i \in 1..n : s[i] \in Part
      OBVIOUS
<1> HIDE DEF n
<1> DEFINE Right == {i \in 0..n : Traced(g[i], frames, put) /\ Ordered(g[i], Apart)}
<1>4. 0 \in Right
      BY <1>1, <1>2
<1>5. ASSUME NEW i \in 1..n, i - 1 \in Right PROVE i \in Right
  <2>1. i \in 0..n /\ i - 1 \in 0..n
        BY <1>2
  <2>2. g[i - 1] \in Seq(Segment) /\ s[i] \in Part /\ g[i] = Minus(g[i - 1], s[i])
        BY <1>1, <1>2, <2>1
  <2>3. s[i].from \in Int /\ s[i].to \in Int /\ s[i].from <= s[i].to
        BY <2>2, PartFacts
  <2>4. Traced(g[i - 1], frames, put) /\ Ordered(g[i - 1], Apart)
        BY <1>5
  <2>5. Traced(Minus(g[i - 1], s[i]), frames, put)
        BY <2>2, <2>3, <2>4, MinusTraced
  <2>6. Ordered(Minus(g[i - 1], s[i]), Apart)
        BY <2>2, <2>3, <2>4, MinusApart
  <2> QED BY <2>1, <2>2, <2>5, <2>6
<1>6. Right = 0..n
  <2>1. Right \in SUBSET (0..n)
        OBVIOUS
  <2> HIDE DEF Right
  <2> QED BY <1>2, <1>4, <1>5, <2>1, PrefixInduction
<1>7. Traced(g[n], frames, put) /\ Ordered(g[n], Apart)
      BY <1>2, <1>6
<1> QED BY <1>1, <1>7

\* A program whose frames are in order and within their clips, with islands that are.
Sound(l) ==
  /\ Contiguous(l.edits) /\ Ordered(FramesOf(l.edits), FrameOrder)
  /\ Footage(ToSet(l.edits)) \subseteq Within /\ Footage(ToSet(l.cuts)) \subseteq Within
  /\ \A o \in l.overlays : 0 <= o.from /\ o.to <= Len(FramesOf(l.edits))

LEMMA ContiguousTraced ==
  ASSUME NEW s \in Seq(Segment), Contiguous(s), Ordered(FramesOf(s), FrameOrder)
  PROVE  /\ Len(FramesOf(s)) \in Nat
         /\ Traced(s, FramesOf(s), {}) /\ Ordered(s, Apart) /\ Ordered(s, Sooner)
<1> DEFINE f == FramesOf(s)
<1>1. f \in Seq(Frame) /\ \A i \in 1..Len(s) : Shows(s[i], f)
      BY FramesType, ContiguousShows
<1> HIDE DEF f
<1>2. Len(f) \in Nat
      BY <1>1
<1>3. \A p \in ToSet(s) : ~p.new /\ Shows(p, f)
      BY <1>1 DEF Contiguous, ToSet
<1>4. Traced(s, f, {})
      BY <1>3 DEF Traced
<1>5. Ordered(s, Sooner)
      BY EditsInTurn
<1>6. ASSUME NEW x \in ToSet(s), NEW y \in ToSet(s), <<x, y>> \in Sooner
      PROVE  <<x, y>> \in Apart
  <2>1. x \in Segment /\ y \in Segment
        BY DEF ToSet
  <2>2. Across(Shots(x), Shots(y), FrameOrder)
        BY <1>6, <2>1, SoonerFacts
  <2>3. \A g \in Shots(x) : g \notin Shots(y)
        BY <2>2, LaterDiffers DEF Across
  <2> QED BY <2>1, <2>3, SoonerFacts
<1>7. Ordered(s, Apart)
      BY <1>5, <1>6, OrderedMore
<1> QED BY <1>2, <1>4, <1>5, <1>7 DEF f

\* The parts of the program after a review, and the parts in their order.
PartsAfter(l, o) ==
  FoldLeft(Minus, FoldLeft(PutBack, l.edits, RestoredOf(l, o)), SetToSeq(o.extra))
EditsAfter(l, o) ==
  Sorted(PartsAfter(l, o), [e \in ToSet(PartsAfter(l, o)) |-> OffsetOf(e.clip) + e.from])

LEMMA EditsAfterFacts ==
  ASSUME NEW l \in List, NEW o \in Review, Sound(l)
  PROVE  /\ EditsAfter(l, o) \in Seq(Segment) /\ Ordered(EditsAfter(l, o), Sooner)
         /\ Traced(EditsAfter(l, o), FramesOf(l.edits), Footage(ToSet(RestoredOf(l, o))))
         /\ Footage(ToSet(EditsAfter(l, o))) = Decided(l, o)
         /\ Decided(l, o) \subseteq Within
<1> DEFINE islands == RestoredOf(l, o)
           extra == SetToSeq(o.extra)
           back == FoldLeft(PutBack, l.edits, islands)
           parts == FoldLeft(Minus, back, extra)
           frames == FramesOf(l.edits)
           put == Footage(ToSet(islands))
<1>1. /\ l.edits \in Seq(Segment) /\ l.cuts \in Seq(Island) /\ o.extra \in SUBSET Part /\ IsFiniteSet(o.extra)
      BY ListFacts, ReviewFacts
<1>2. islands \in Seq(Island) /\ ToSet(islands) \subseteq ToSet(l.cuts)
      BY RestoredFacts
<1>3. extra \in Seq(Part) /\ ToSet(extra) = o.extra
  <2>1. extra \in Seq(o.extra) /\ ToSet(extra) = o.extra
        BY <1>1, SetToSeqFacts
  <2>2. Seq(o.extra) \subseteq Seq(Part)
        BY <1>1
  <2> QED BY <2>1, <2>2
<1>4. PartsAfter(l, o) = parts
      BY DEF PartsAfter
<1>5. /\ Contiguous(l.edits) /\ Ordered(frames, FrameOrder) /\ Footage(ToSet(l.edits)) \subseteq Within
      /\ Footage(ToSet(l.cuts)) \subseteq Within
      BY DEF Sound
<1>6. Len(frames) \in Nat /\ Traced(l.edits, frames, {}) /\ Ordered(l.edits, Apart)
      BY <1>1, <1>5, ContiguousTraced
<1> HIDE DEF islands, extra, frames
<1>7. /\ back \in Seq(Segment) /\ Traced(back, frames, put) /\ Ordered(back, Apart)
      /\ Footage(ToSet(back)) = Footage(ToSet(l.edits)) \cup Footage(ToSet(islands))
      BY <1>1, <1>2, <1>6, PutBackAllFacts, PutBackAllParts
<1> HIDE DEF back, put
<1>8. /\ parts \in Seq(Segment) /\ Traced(parts, frames, put) /\ Ordered(parts, Apart)
      /\ Footage(ToSet(parts)) = Footage(ToSet(back)) \ Footage(o.extra)
      BY <1>3, <1>6, <1>7, MinusAllFacts, MinusAllParts
<1>9. Footage(ToSet(parts)) = Decided(l, o)
      BY <1>7, <1>8 DEF Decided, islands
<1>10. Decided(l, o) \subseteq Within
  <2>1. Footage(ToSet(islands)) \subseteq Footage(ToSet(l.cuts))
        BY <1>2, FootageOfParts
  <2> QED BY <1>5, <1>7, <1>8, <1>9, <2>1
<1> DEFINE rank == [e \in ToSet(parts) |-> OffsetOf(e.clip) + e.from]
           edits == Sorted(parts, rank)
<1>11. EditsAfter(l, o) = edits
      BY <1>4 DEF EditsAfter
<1> HIDE DEF parts
<1>12. Ordered(edits, Sooner)
      BY <1>8, <1>9, <1>10, SortedSooner
<1> HIDE DEF rank
<1>13. edits \in Seq(Segment) /\ ToSet(edits) = ToSet(parts)
      BY <1>8, SortedFacts
<1> HIDE DEF edits
<1>14. Traced(edits, frames, put)
      BY <1>8, <1>13 DEF Traced
<1>15. Footage(ToSet(edits)) = Decided(l, o)
      BY <1>9, <1>13
<1> QED BY <1>10, <1>11, <1>12, <1>13, <1>14, <1>15 DEF put, frames, islands

-----------------------------------------------------------------------------
(* Overlays and the footage they lie on.                                   *)

\* Which frame is covered by which frame of B-roll, on a timeline that shows these frames.
CoverOf(frames, overlays) ==
  UNION {{<<frames[t + 1], o.source + t - o.from>> : t \in o.from..o.to - 1} : o \in overlays}

OnTimeline(o, n) == 0 <= o.from /\ o.to <= n

\* A part of one timeline that another one shows elsewhere.
Moved(m, old, new) ==
  /\ 0 <= m.from /\ m.to <= Len(old) /\ 0 <= m.output /\ m.output + m.to - m.from <= Len(new)
  /\ \A n \in 0..(m.to - m.from - 1) : new[m.output + n + 1] = old[m.from + n + 1]

LEMMA CoverFacts ==
  ASSUME NEW frames, NEW overlays
  PROVE  /\ \A x : x \in CoverOf(frames, overlays) <=>
                     \E o \in overlays : \E t \in o.from..o.to - 1 : x = <<frames[t + 1], o.source + t - o.from>>
         /\ \A x \in CoverOf(frames, overlays) : \E o \in overlays : \E t \in o.from..o.to - 1 :
              x[1] = frames[t + 1] /\ x[2] = o.source + t - o.from
         /\ \A more : CoverOf(frames, overlays \cup more) = CoverOf(frames, overlays) \cup CoverOf(frames, more)
<1>1. \A S, x : x \in CoverOf(frames, S) <=>
                  \E o \in S : \E t \in o.from..o.to - 1 : x = <<frames[t + 1], o.source + t - o.from>>
      BY DEF CoverOf
<1>2. \A a, b : LET c == <<a, b>> IN c[1] = a /\ c[2] = b
      OBVIOUS
<1>3. ASSUME NEW x \in CoverOf(frames, overlays)
      PROVE  \E o \in overlays : \E t \in o.from..o.to - 1 :
               x[1] = frames[t + 1] /\ x[2] = o.source + t - o.from
  <2>1. PICK o \in overlays : \E t \in o.from..o.to - 1 : x = <<frames[t + 1], o.source + t - o.from>>
        BY <1>1
  <2>2. PICK t \in o.from..o.to - 1 : x = <<frames[t + 1], o.source + t - o.from>>
        BY <2>1
  <2>3. x[1] = frames[t + 1] /\ x[2] = o.source + t - o.from
        BY <2>2
  <2> QED BY <2>3
<1>4. ASSUME NEW more
      PROVE  CoverOf(frames, overlays \cup more) = CoverOf(frames, overlays) \cup CoverOf(frames, more)
  <2>1. \A x : x \in CoverOf(frames, overlays \cup more) <=> x \in CoverOf(frames, overlays) \/ x \in CoverOf(frames, more)
        BY <1>1
  <2> QED BY <2>1
<1> QED BY <1>1, <1>3, <1>4

LEMMA OverlayFacts ==
  \A o \in Overlay : o.from \in Int /\ o.to \in Int /\ o.source \in Int /\ o.from <= o.to
  BY DEF Overlay, Forward

LEMMA MoveFacts ==
  \A m \in Moves : m.from \in Int /\ m.to \in Int /\ m.output \in Int /\ m.from <= m.to
  BY DEF Moves, Forward

\* The overlay that an overlay and a move make.
MovedOverlay(o, m) ==
  [from |-> m.output + Larger(o.from, m.from) - m.from, to |-> m.output + Smaller(o.to, m.to) - m.from,
   source |-> o.source + Larger(o.from, m.from) - o.from]

LEMMA RemappedFacts ==
  ASSUME NEW overlays, NEW moves
  PROVE  \A x : x \in Remapped(overlays, moves) <=>
                  \E o \in overlays, m \in moves : Overlap(o, m) /\ x = MovedOverlay(o, m)
<1> DEFINE pairs == {q \in overlays \X moves : Overlap(q[1], q[2])}
<1>1. Remapped(overlays, moves) = {MovedOverlay(p[1], p[2]) : p \in pairs}
      BY DEF Remapped, MovedOverlay
<1>2. ASSUME NEW o \in overlays, NEW m \in moves, Overlap(o, m)
      PROVE  MovedOverlay(o, m) \in Remapped(overlays, moves)
  <2> DEFINE q == <<o, m>>
  <2>1. q \in overlays \X moves /\ q[1] = o /\ q[2] = m
        OBVIOUS
  <2> HIDE DEF q
  <2>2. q \in pairs
        BY <1>2, <2>1
  <2> QED BY <1>1, <2>1, <2>2
<1>3. ASSUME NEW x \in Remapped(overlays, moves)
      PROVE  \E o \in overlays, m \in moves : Overlap(o, m) /\ x = MovedOverlay(o, m)
  <2>1. PICK p \in pairs : x = MovedOverlay(p[1], p[2])
        BY <1>1
  <2>2. p[1] \in overlays /\ p[2] \in moves /\ Overlap(p[1], p[2])
        OBVIOUS
  <2> QED BY <2>1, <2>2
<1> QED BY <1>2, <1>3

LEMMA MovedOverlayFacts ==
  ASSUME NEW o \in Overlay, NEW m \in Moves, Overlap(o, m), NEW r, r = MovedOverlay(o, m)
  PROVE  /\ r.from \in Int /\ r.to \in Int /\ r.source \in Int
         /\ m.output <= r.from /\ r.to <= m.output + m.to - m.from
         /\ \A u, t \in Int : t = u - m.output + m.from =>
              /\ u \in r.from..r.to - 1 <=> t \in o.from..o.to - 1 /\ t \in m.from..m.to - 1
              /\ r.source + u - r.from = o.source + t - o.from
<1>1. /\ o.from \in Int /\ o.to \in Int /\ o.source \in Int /\ o.from <= o.to
      /\ m.from \in Int /\ m.to \in Int /\ m.output \in Int /\ m.from <= m.to
      BY OverlayFacts, MoveFacts
<1>2. o.from < m.to /\ m.from < o.to
      BY DEF Overlap
<1> DEFINE a == Larger(o.from, m.from)
           b == Smaller(o.to, m.to)
<1>3. /\ a \in Int /\ b \in Int /\ m.from <= a /\ o.from <= a /\ b <= o.to /\ b <= m.to
      /\ a = o.from \/ a = m.from
      /\ b = o.to \/ b = m.to
      BY <1>1 DEF Larger, Smaller
<1> HIDE DEF a, b
<1>4. r.from = m.output + a - m.from /\ r.to = m.output + b - m.from /\ r.source = o.source + a - o.from
      BY DEF MovedOverlay, a, b
<1>5. /\ r.from \in Int /\ r.to \in Int /\ r.source \in Int
      /\ m.output <= r.from /\ r.to <= m.output + m.to - m.from
      BY <1>1, <1>3, <1>4
<1>6. ASSUME NEW u \in Int, NEW t \in Int, t = u - m.output + m.from
      PROVE  /\ u \in r.from..r.to - 1 <=> t \in o.from..o.to - 1 /\ t \in m.from..m.to - 1
             /\ r.source + u - r.from = o.source + t - o.from
      BY <1>1, <1>3, <1>4, <1>6
<1> QED BY <1>5, <1>6

\* Overlays carried along to footage: what covers it covers it afterwards, and nothing else does.
CarriedTo(new, old, overlays, moves, left) ==
  /\ \A c : c \in CoverOf(new, Remapped(overlays, moves)) <=> c \in CoverOf(old, overlays) /\ c[1] \in left
  /\ \A o \in Remapped(overlays, moves) : OnTimeline(o, Len(new))

LEMMA RemapCover ==
  ASSUME NEW old \in Seq(Frame), Ordered(old, FrameOrder), NEW new \in Seq(Frame),
         NEW overlays \in SUBSET Overlay, \A o \in overlays : OnTimeline(o, Len(old)),
         NEW moves \in SUBSET Moves, \A m \in moves : Moved(m, old, new)
  PROVE  CarriedTo(new, old, overlays, moves, {old[t + 1] : t \in Times(moves)})
<1>1. Len(old) \in Nat /\ Len(new) \in Nat /\ DOMAIN old = 1..Len(old)
      OBVIOUS
<1>2. \A t : t \in Times(moves) <=> \E m \in moves : t \in m.from..m.to - 1
      BY TimesOf
<1>3. ASSUME NEW m \in moves
      PROVE  /\ m.from \in Int /\ m.to \in Int /\ m.output \in Int /\ m.from <= m.to
             /\ 0 <= m.from /\ m.to <= Len(old) /\ 0 <= m.output /\ m.output + m.to - m.from <= Len(new)
             /\ \A t \in m.from..m.to - 1 : new[t + m.output - m.from + 1] = old[t + 1]
  <2>1. m.from \in Int /\ m.to \in Int /\ m.output \in Int /\ m.from <= m.to
        BY MoveFacts
  <2>2. /\ 0 <= m.from /\ m.to <= Len(old) /\ 0 <= m.output /\ m.output + m.to - m.from <= Len(new)
        /\ \A n \in 0..(m.to - m.from - 1) : new[m.output + n + 1] = old[m.from + n + 1]
        BY DEF Moved
  <2>3. ASSUME NEW t \in m.from..m.to - 1 PROVE new[t + m.output - m.from + 1] = old[t + 1]
    <3> DEFINE n == t - m.from
    <3>1. n \in 0..(m.to - m.from - 1) /\ m.output + n + 1 = t + m.output - m.from + 1 /\ m.from + n + 1 = t + 1
          BY <2>1
    <3> HIDE DEF n
    <3> QED BY <2>2, <3>1
  <2> QED BY <2>1, <2>2, <2>3
<1>4. ASSUME NEW x \in CoverOf(new, Remapped(overlays, moves))
      PROVE  x \in CoverOf(old, overlays) /\ x[1] \in {old[t + 1] : t \in Times(moves)}
  <2>1. PICK r \in Remapped(overlays, moves) : \E u \in r.from..r.to - 1 : x = <<new[u + 1], r.source + u - r.from>>
        BY CoverFacts
  <2>2. PICK u \in r.from..r.to - 1 : x = <<new[u + 1], r.source + u - r.from>>
        BY <2>1
  <2>3. PICK o \in overlays, m \in moves : Overlap(o, m) /\ r = MovedOverlay(o, m)
        BY RemappedFacts
  <2> DEFINE t == u - m.output + m.from
  <2>4. o \in Overlay /\ m \in Moves
        OBVIOUS
  <2>5. r.from \in Int /\ r.to \in Int
        BY <2>3, <2>4, MovedOverlayFacts
  <2>6. u \in Int /\ t \in Int /\ t = u - m.output + m.from
        BY <1>3, <2>5
  <2> HIDE DEF t
  <2>7. /\ t \in o.from..o.to - 1 /\ t \in m.from..m.to - 1
        /\ r.source + u - r.from = o.source + t - o.from
        BY <2>2, <2>3, <2>4, <2>6, MovedOverlayFacts
  <2>8. new[u + 1] = old[t + 1]
    <3>1. t + m.output - m.from + 1 = u + 1
          BY <1>3, <2>6
    <3>2. new[t + m.output - m.from + 1] = old[t + 1]
          BY <1>3, <2>7
    <3> QED BY <3>1, <3>2
  <2>9. x = <<old[t + 1], o.source + t - o.from>>
        BY <2>2, <2>7, <2>8
  <2>10. x \in CoverOf(old, overlays)
         BY <2>7, <2>9, CoverFacts
  <2>11. x[1] = old[t + 1]
         BY <2>9
  <2> QED BY <1>2, <2>7, <2>10, <2>11
<1>5. ASSUME NEW x \in CoverOf(old, overlays), x[1] \in {old[t + 1] : t \in Times(moves)}
      PROVE  x \in CoverOf(new, Remapped(overlays, moves))
  <2>1. PICK o \in overlays : \E t \in o.from..o.to - 1 : x = <<old[t + 1], o.source + t - o.from>>
        BY CoverFacts
  <2>2. PICK t \in o.from..o.to - 1 : x = <<old[t + 1], o.source + t - o.from>>
        BY <2>1
  <2>3. PICK s \in Times(moves) : x[1] = old[s + 1]
        BY <1>5
  <2>4. PICK m \in moves : s \in m.from..m.to - 1
        BY <1>2
  <2>5. x[1] = old[t + 1]
        BY <2>2
  <2>6. o.from \in Int /\ o.to \in Int /\ o.source \in Int /\ 0 <= o.from /\ o.to <= Len(old)
        BY OverlayFacts DEF OnTimeline
  <2>7. t + 1 \in 1..Len(old) /\ t \in Int
        BY <1>1, <2>6
  <2>8. s + 1 \in 1..Len(old) /\ s \in Int
        BY <1>1, <1>3, <2>4
  <2>9. t + 1 = s + 1
    <3> DEFINE i == t + 1
               j == s + 1
    <3>1. i \in DOMAIN old /\ j \in DOMAIN old /\ i \in Nat /\ j \in Nat /\ old[i] = old[j]
          BY <1>1, <2>3, <2>5, <2>7, <2>8
    <3> HIDE DEF i, j
    <3>2. i = j
          BY <3>1, OrderedOnce
    <3> QED BY <3>2 DEF i, j
  <2>10. t \in m.from..m.to - 1
         BY <2>4, <2>7, <2>8, <2>9
  <2>11. Overlap(o, m)
         BY <1>3, <2>2, <2>6, <2>10, SMTT(30) DEF Overlap
  <2> DEFINE r == MovedOverlay(o, m)
             u == t + m.output - m.from
  <2>12. r \in Remapped(overlays, moves)
         BY <2>11, RemappedFacts
  <2>13. u \in Int /\ t \in Int /\ t = u - m.output + m.from
         BY <1>3, <2>7
  <2> HIDE DEF u
  <2>14. u \in r.from..r.to - 1 /\ r.source + u - r.from = o.source + t - o.from
    <3>1. o \in Overlay /\ m \in Moves
          OBVIOUS
    <3> QED BY <2>2, <2>10, <2>11, <2>13, <3>1, MovedOverlayFacts
  <2>15. new[u + 1] = old[t + 1]
         BY <1>3, <2>10 DEF u
  <2> HIDE DEF r
  <2>16. x = <<new[u + 1], r.source + u - r.from>>
         BY <2>2, <2>14, <2>15
  <2> QED BY <2>12, <2>14, <2>16, CoverFacts
<1>6. ASSUME NEW r \in Remapped(overlays, moves) PROVE OnTimeline(r, Len(new))
  <2>1. PICK o \in overlays, m \in moves : Overlap(o, m) /\ r = MovedOverlay(o, m)
        BY RemappedFacts
  <2>2. o \in Overlay /\ m \in Moves
        OBVIOUS
  <2>3. /\ r.from \in Int /\ r.to \in Int
        /\ m.output <= r.from /\ r.to <= m.output + m.to - m.from
        BY <2>1, <2>2, MovedOverlayFacts
  <2>4. 0 <= r.from /\ r.to <= Len(new)
        BY <1>1, <1>3, <2>3
  <2> QED BY <2>4 DEF OnTimeline
<1> QED BY <1>4, <1>5, <1>6 DEF CarriedTo

\* Where the parts of a program went: what the old timeline showed of them, the new one shows.
LEMMA MappingMoves ==
  ASSUME NEW edits \in Seq(Segment), NEW old \in Seq(Frame), NEW put, Traced(edits, old, put)
  PROVE  /\ Mapping(edits) \in SUBSET Moves
         /\ \A m \in Mapping(edits) : Moved(m, old, FramesOf(edits))
         /\ {old[t + 1] : t \in Times(Mapping(edits))} = Footage(ToSet(edits)) \ put
<1> DEFINE p == Packed(edits)
           new == FramesOf(edits)
           n == Len(edits)
           Move(i) == [from |-> edits[i].at, to |-> edits[i].at + edits[i].to - edits[i].from,
                       output |-> p[i].at]
<1>1. p \in Seq(Segment) /\ Len(p) = n /\ Contiguous(p) /\ \A i \in 1..n : SameFootage(p[i], edits[i])
      BY PackedFacts
<1>2. new = FramesOf(p) /\ new \in Seq(Frame)
      BY PackedFrames, FramesType
<1>3. \A i \in 1..n : Shows(p[i], new)
      BY <1>1, <1>2, ContiguousShows
<1>4. n \in Nat /\ DOMAIN edits = 1..n /\ \A i \in 1..n : edits[i] \in Segment /\ edits[i] \in ToSet(edits)
      BY DEF ToSet
<1>5. Mapping(edits) = {Move(i) : i \in {j \in 1..n : ~edits[j].new}}
      BY <1>4 DEF Mapping
<1> HIDE DEF n, new, p
<1>6. ASSUME NEW i \in 1..n, ~edits[i].new
      PROVE  /\ Moved(Move(i), old, new) /\ Shots(edits[i]) \cap put = {}
             /\ \A f : f \in Shots(edits[i]) <=> \E t \in Move(i).from..Move(i).to - 1 : f = old[t + 1]
  <2> DEFINE e == edits[i]
             q == p[i]
             m == Move(i)
  <2>1. /\ e \in Segment /\ q \in Segment /\ q.clip = e.clip /\ q.from = e.from /\ q.to = e.to
        /\ m.from = e.at /\ m.to = e.at + e.to - e.from /\ m.output = q.at
        BY <1>1, <1>4 DEF SameFootage
  <2>2. Shows(e, old) /\ Shots(e) \cap put = {}
        BY <1>4, <1>6 DEF Traced
  <2>3. Shows(q, new)
        BY <1>3
  <2> HIDE DEF e, q, m
  <2>4. e.from \in Int /\ e.to \in Int /\ e.at \in Int /\ q.at \in Int /\ e.from <= e.to
        BY <2>1, SegmentFacts
  <2>5. /\ 0 <= e.at /\ e.at + e.to - e.from <= Len(old)
        /\ \A k \in 0..(e.to - e.from - 1) : old[e.at + k + 1] = <<e.clip, e.from + k>>
        BY <2>2 DEF Shows, EndOf
  <2>6. /\ 0 <= q.at /\ q.at + e.to - e.from <= Len(new)
        /\ \A k \in 0..(e.to - e.from - 1) : new[q.at + k + 1] = <<e.clip, e.from + k>>
        BY <2>1, <2>3 DEF Shows, EndOf
  <2>7. Moved(m, old, new)
    <3>1. m.to - m.from = e.to - e.from
          BY <2>1, <2>4
    <3>2. Len(new) \in Nat /\ m.output + m.to - m.from = q.at + e.to - e.from
          BY <1>2, <2>1, <2>4
    <3>3. ASSUME NEW k \in 0..(m.to - m.from - 1) PROVE new[m.output + k + 1] = old[m.from + k + 1]
      <4>1. k \in 0..(e.to - e.from - 1)
            BY <3>1
      <4>2. new[q.at + k + 1] = <<e.clip, e.from + k>>
            BY <2>6, <4>1
      <4>3. old[e.at + k + 1] = <<e.clip, e.from + k>>
            BY <2>5, <4>1
      <4> QED BY <2>1, <4>2, <4>3
    <3> QED BY <2>1, <2>5, <2>6, <3>2, <3>3 DEF Moved
  <2>8. ASSUME NEW f, f \in Shots(e) PROVE \E t \in m.from..m.to - 1 : f = old[t + 1]
    <3>1. PICK x \in e.from..e.to - 1 : f = <<e.clip, x>>
          BY <2>8 DEF Shots
    <3> DEFINE k == x - e.from
    <3>2. k \in 0..(e.to - e.from - 1) /\ e.from + k = x /\ e.at + k \in m.from..m.to - 1
          BY <2>1, <2>4, SMTT(30)
    <3> HIDE DEF k
    <3>3. old[e.at + k + 1] = f
          BY <2>5, <3>1, <3>2
    <3> QED BY <3>2, <3>3
  <2>9. ASSUME NEW t \in m.from..m.to - 1 PROVE old[t + 1] \in Shots(e)
    <3> DEFINE k == t - e.at
    <3>1. k \in 0..(e.to - e.from - 1) /\ e.at + k + 1 = t + 1 /\ e.from + k \in e.from..e.to - 1
      <4>1. t \in Int /\ e.at <= t /\ t <= e.at + e.to - e.from - 1
            BY <2>1, <2>4
      <4>2. k \in Int /\ 0 <= k /\ k <= e.to - e.from - 1
            BY <2>4, <4>1
      <4>3. e.at + k + 1 = t + 1
            BY <2>4, <4>1
      <4> HIDE DEF k
      <4>4. k \in 0..(e.to - e.from - 1) /\ e.from + k \in e.from..e.to - 1
            BY <2>4, <4>2
      <4> QED BY <4>3, <4>4
    <3> HIDE DEF k
    <3>2. old[t + 1] = <<e.clip, e.from + k>>
          BY <2>5, <3>1
    <3> QED BY <3>1, <3>2 DEF Shots
  <2> QED BY <2>2, <2>7, <2>8, <2>9 DEF e, m
<1>7. \A t : t \in Times(Mapping(edits)) <=> \E m \in Mapping(edits) : t \in m.from..m.to - 1
      BY TimesOf
<1>8. \A f : f \in Footage(ToSet(edits)) <=> \E i \in 1..n : f \in Shots(edits[i])
      BY FootageOfSeq DEF n
<1> HIDE DEF Move
<1>9. ASSUME NEW f, f \in Footage(ToSet(edits)) \ put
      PROVE  f \in {old[t + 1] : t \in Times(Mapping(edits))}
  <2>1. PICK i \in 1..n : f \in Shots(edits[i])
        BY <1>8, <1>9
  <2>2. ~edits[i].new
    <3>1. edits[i].new => Shots(edits[i]) \subseteq put
          BY <1>4 DEF Traced
    <3> QED BY <1>9, <2>1, <3>1
  <2>3. PICK t \in Move(i).from..Move(i).to - 1 : f = old[t + 1]
        BY <1>6, <2>1, <2>2
  <2> QED BY <1>5, <1>7, <2>2, <2>3
<1>10. ASSUME NEW f, f \in {old[t + 1] : t \in Times(Mapping(edits))}
       PROVE  f \in Footage(ToSet(edits)) \ put
  <2>1. PICK t \in Times(Mapping(edits)) : f = old[t + 1]
        BY <1>10
  <2>2. PICK m \in Mapping(edits) : t \in m.from..m.to - 1
        BY <1>7
  <2>3. PICK i \in {j \in 1..n : ~edits[j].new} : m = Move(i)
        BY <1>5
  <2>4. f \in Shots(edits[i]) /\ Shots(edits[i]) \cap put = {}
        BY <1>6, <2>1, <2>2, <2>3
  <2> QED BY <1>8, <2>3, <2>4
<1>11. \A m \in Mapping(edits) : Moved(m, old, new)
       BY <1>5, <1>6
<1>12. \A f : f \in {old[t + 1] : t \in Times(Mapping(edits))} <=> f \in Footage(ToSet(edits)) \ put
       BY <1>9, <1>10
<1>13. {old[t + 1] : t \in Times(Mapping(edits))} = Footage(ToSet(edits)) \ put
       BY <1>12
<1> QED BY <1>11, <1>13, MappingType DEF new

LEMMA OrderedAscending ==
  ASSUME NEW s \in Seq(Frame), Ordered(s, FrameOrder)
  PROVE  Ascending(s)
<1>1. ASSUME NEW i \in 1..Len(s) - 1
      PROVE  LET a == s[i]
                 b == s[i + 1]
             IN a[1] < b[1] \/ (a[1] = b[1] /\ a[2] < b[2])
  <2> DEFINE a == s[i]
             b == s[i + 1]
             q == <<a, b>>
  <2>1. i \in DOMAIN s /\ i + 1 \in DOMAIN s /\ i < i + 1
        BY <1>1
  <2>2. q \in FrameOrder
        BY <2>1 DEF Ordered
  <2>3. q[1] = a /\ q[2] = b
        OBVIOUS
  <2> HIDE DEF a, b, q
  <2>4. a[1] < b[1] \/ (a[1] = b[1] /\ a[2] < b[2])
        BY <2>2, <2>3 DEF FrameOrder
  <2> QED BY <2>4 DEF a, b
<1> QED BY <1>1 DEF Ascending

LEMMA CoveredIs ==
  \A l : CoveredOf(l) = CoverOf(FramesOf(l.edits), l.overlays)
  BY DEF CoveredOf, CoverOf

LEMMA EffectiveShown ==
  ASSUME NEW l \in List, NEW o \in Review, Sound(l)
  PROVE  LET shown == Effective(l, o) IN
         /\ Ordered(FramesOf(shown.edits), FrameOrder)
         /\ CoveredOf(shown) = {c \in CoveredOf(l) : c[1] \in Decided(l, o) \ Footage(ToSet(RestoredOf(l, o)))}
         /\ \A x \in shown.overlays : OnTimeline(x, Len(FramesOf(shown.edits)))
<1> DEFINE shown == Effective(l, o)
           old == FramesOf(l.edits)
           put == Footage(ToSet(RestoredOf(l, o)))
           edits == EditsAfter(l, o)
           new == FramesOf(edits)
<1>1. /\ l.edits \in Seq(Segment) /\ l.overlays \in SUBSET Overlay /\ old \in Seq(Frame)
      /\ Ordered(old, FrameOrder) /\ \A x \in l.overlays : OnTimeline(x, Len(old))
      BY ListFacts, FramesType DEF Sound, OnTimeline
<1>2. Footage(ToSet(shown.edits)) = Decided(l, o)
      BY EffectiveFacts
<1>3. CASE ~Changes(l, o)
  <2>1. shown = l
        BY <1>3 DEF Effective
  <2>2. put = {}
    <3>1. o.restored \cap Keys(l) = {}
          BY <1>3 DEF Changes
    <3>2. \A c \in ToSet(RestoredOf(l, o)) : c \in ToSet(l.cuts) /\ c.key \in o.restored
          BY RestoredFacts
    <3>3. ToSet(RestoredOf(l, o)) = {}
          BY <3>1, <3>2 DEF Keys
    <3> QED BY <3>3, FootageOfParts
  <2>3. ToSet(old) = Decided(l, o)
        BY <1>1, <1>2, <2>1, FramesFacts
  <2> HIDE DEF shown, old, put
  <2>4. ASSUME NEW c \in CoverOf(old, l.overlays) PROVE c[1] \in Decided(l, o) \ put
    <3>1. PICK x \in l.overlays : \E t \in x.from..x.to - 1 : c[1] = old[t + 1] /\ c[2] = x.source + t - x.from
          BY CoverFacts
    <3>2. PICK t \in x.from..x.to - 1 : c[1] = old[t + 1]
          BY <3>1
    <3>3. x.from \in Int /\ x.to \in Int /\ 0 <= x.from /\ x.to <= Len(old) /\ Len(old) \in Nat
          BY <1>1, OverlayFacts DEF OnTimeline
    <3>4. t + 1 \in 1..Len(old)
          BY <3>3
    <3>5. old[t + 1] \in ToSet(old)
          BY <1>1, <3>4 DEF ToSet
    <3> QED BY <2>2, <2>3, <3>2, <3>5
  <2>5. CoveredOf(l) = CoverOf(old, l.overlays)
        BY CoveredIs DEF old
  <2> QED BY <1>1, <2>1, <2>4, <2>5 DEF shown, old, put
<1>4. CASE Changes(l, o)
  <2>1. shown.edits = Packed(Joined(edits)) /\ shown.overlays = Remapped(l.overlays, Mapping(edits))
        BY <1>4 DEF Effective, EditsAfter, PartsAfter
  <2>2. /\ edits \in Seq(Segment) /\ Ordered(edits, Sooner) /\ Traced(edits, old, put)
        /\ Footage(ToSet(edits)) = Decided(l, o)
        BY EditsAfterFacts
  <2> HIDE DEF edits, put
  <2>3. FramesOf(shown.edits) = new
    <3>1. Joined(edits) \in Seq(Segment)
          BY <2>2, JoinedFacts
    <3> QED BY <2>1, <2>2, <3>1, PackedFrames, JoinedFrames
  <2>4. Ordered(new, FrameOrder) /\ new \in Seq(Frame)
        BY <2>2, FramesInTurn, FramesType
  <2> HIDE DEF old, shown
  <2>5. /\ Mapping(edits) \in SUBSET Moves
        /\ \A m \in Mapping(edits) : Moved(m, old, new)
        /\ {old[t + 1] : t \in Times(Mapping(edits))} = Decided(l, o) \ put
        BY <1>1, <2>2, MappingMoves
  <2> HIDE DEF new
  <2>6. CarriedTo(new, old, l.overlays, Mapping(edits), {old[t + 1] : t \in Times(Mapping(edits))})
        BY <1>1, <2>4, <2>5, RemapCover
  <2>7. CoveredOf(shown) = CoverOf(new, shown.overlays)
        BY <2>3, CoveredIs
  <2>8. CoveredOf(l) = CoverOf(old, l.overlays)
        BY CoveredIs DEF old
  <2>9. CarriedTo(new, old, l.overlays, Mapping(edits), Decided(l, o) \ put)
        BY <2>5, <2>6
  <2>10. CoveredOf(shown) = {c \in CoveredOf(l) : c[1] \in Decided(l, o) \ put}
        BY <2>1, <2>7, <2>8, <2>9 DEF CarriedTo
  <2>11. \A x \in shown.overlays : OnTimeline(x, Len(new))
        BY <2>1, <2>9 DEF CarriedTo
  <2>12. Ordered(FramesOf(shown.edits), FrameOrder) /\ \A x \in shown.overlays : OnTimeline(x, Len(FramesOf(shown.edits)))
        BY <2>3, <2>4, <2>11
  <2> QED BY <2>10, <2>12 DEF shown, put
<1> QED BY <1>3, <1>4

\* The program after a review is as sound as the one before.
LEMMA EffectiveSound ==
  ASSUME NEW l \in List, NEW o \in Review, Sound(l), Footage(o.extra) \subseteq Within
  PROVE  Sound(Effective(l, o))
<1> DEFINE shown == Effective(l, o)
<1>1. Ordered(FramesOf(shown.edits), FrameOrder) /\ \A x \in shown.overlays : OnTimeline(x, Len(FramesOf(shown.edits)))
      BY EffectiveShown
<1>2. /\ Contiguous(shown.edits) /\ Footage(ToSet(shown.edits)) = Decided(l, o)
      /\ ToSet(shown.cuts) = (ToSet(l.cuts) \cap NotPutBack(RestoredOf(l, o))) \cup {ManualCut(x) : x \in o.extra}
      BY EffectiveFacts DEF Sound
<1>3. Decided(l, o) \subseteq Within
      BY EditsAfterFacts
<1>4. Footage(ToSet(l.cuts)) \subseteq Within
      BY DEF Sound
<1> HIDE DEF shown
<1>5. ASSUME NEW f, f \in Footage(ToSet(shown.cuts)) PROVE f \in Within
  <2>1. PICK c \in ToSet(shown.cuts) : f \in Shots(c)
        BY <1>5, FootageOfParts
  <2>2. CASE c \in ToSet(l.cuts)
        BY <1>4, <2>1, <2>2, FootageOfParts
  <2>3. ASSUME NEW x \in o.extra, c = ManualCut(x) PROVE f \in Within
    <3>1. Shots(c) = Shots(x)
          BY <2>3 DEF ManualCut, Shots
    <3> QED BY <2>1, <3>1, FootageOfParts
  <2> QED BY <1>2, <2>2, <2>3
<1> QED BY <1>1, <1>2, <1>3, <1>5 DEF Sound, OnTimeline, shown

\* The program after a review is what the review decided.
LEMMA EffectiveReviewed ==
  ASSUME NEW l \in List, NEW o \in Review, Sound(l), Keyed(l)
  PROVE  Reviewed(Effective(l, o), l, o)
<1> DEFINE shown == Effective(l, o)
           put == Footage({c \in ToSet(l.cuts) : c.key \in o.restored})
           wanted == (ToSet(FramesOf(l.edits)) \cup put) \ Footage(o.extra)
           shows == FramesOf(shown.edits)
<1>1. put = Footage(ToSet(RestoredOf(l, o)))
      BY PutBackFootage
<1>2. l.edits \in Seq(Segment) /\ shown \in List /\ shown.edits \in Seq(Segment)
      BY ListFacts, EffectiveFacts
<1>3. ToSet(FramesOf(l.edits)) = Footage(ToSet(l.edits))
      BY <1>2, FramesFacts
<1>4. wanted = Decided(l, o)
      BY <1>1, <1>3 DEF Decided
<1>5. Footage(ToSet(shown.edits)) = Decided(l, o)
      BY EffectiveFacts
<1>6. /\ Ordered(shows, FrameOrder)
      /\ CoveredOf(shown) = {c \in CoveredOf(l) : c[1] \in Decided(l, o) \ Footage(ToSet(RestoredOf(l, o)))}
      BY EffectiveShown
<1> HIDE DEF shown
<1>7. ToSet(shows) = wanted /\ shows \in Seq(Frame)
      BY <1>2, <1>4, <1>5, FramesFacts, FramesType
<1> HIDE DEF shows
<1>8. Ascending(shows)
      BY <1>6, <1>7, OrderedAscending
<1> HIDE DEF put, wanted
<1>9. CoveredOf(shown) = {c \in CoveredOf(l) : c[1] \in wanted \ put}
      BY <1>1, <1>4, <1>6
<1> QED BY <1>7, <1>8, <1>9 DEF Reviewed, put, wanted, shows, shown

-----------------------------------------------------------------------------
(* What assembly writes is sound.                                          *)

LEMMA SpeechFacts ==
  ASSUME NEW turns \in SUBSET Stretch, IsFiniteSet(turns), \A r \in turns : r.from >= 0, NEW k \in Clips
  PROVE  /\ SpeechOf(turns, k) \in Seq(Stretch) /\ Ordered(SpeechOf(turns, k), Clear)
         /\ \A t \in Times(ToSet(SpeechOf(turns, k))) : t \in 0..Lengths[k] - 1
<1> DEFINE inside(t) == [from |-> Smaller(t.from, Lengths[k]), to |-> Smaller(t.to, Lengths[k])]
           f == [t \in turns |-> inside(t)]
           all == {inside(t) : t \in turns}
           ranges == {r \in all : Nonempty(r)}
           T == {r \in Stretch : r.to - r.from >= MinShot}
           merged == MergeRanges(ranges)
<1>0. Lengths[k] \in Nat
      BY ClipsFacts
<1>1. \A t \in turns : inside(t) \in Stretch /\ 0 <= inside(t).from /\ inside(t).to <= Lengths[k]
  <2> TAKE t \in turns
  <2>1. t.from \in Int /\ t.to \in Int /\ t.from <= t.to /\ t.from >= 0
        BY StretchFacts
  <2>2. /\ Smaller(t.from, Lengths[k]) \in Int /\ Smaller(t.to, Lengths[k]) \in Int
        /\ Smaller(t.from, Lengths[k]) <= Smaller(t.to, Lengths[k])
        /\ 0 <= Smaller(t.from, Lengths[k]) /\ Smaller(t.to, Lengths[k]) <= Lengths[k]
        BY <1>0, <2>1 DEF Smaller
  <2> QED BY <2>2 DEF Stretch, Forward
<1>2. ranges \in SUBSET Stretch /\ \A r \in ranges : 0 <= r.from /\ r.to <= Lengths[k]
      BY <1>1
<1>3. IsFiniteSet(ranges)
  <2>1. IsFiniteSet({f[t] : t \in turns})
    <3>1. DOMAIN f = turns
          OBVIOUS
    <3> HIDE DEF f
    <3> QED BY <3>1, FiniteImage
  <2>2. {f[t] : t \in turns} = all
        OBVIOUS
  <2>3. ranges \in SUBSET all /\ IsFiniteSet(all)
        BY <2>1, <2>2
  <2> HIDE DEF all, ranges
  <2> QED BY <2>3, FS_Subset
<1>4. SpeechOf(turns, k) = Where(merged, LAMBDA r : r.to - r.from >= MinShot)
      BY DEF SpeechOf
<1> HIDE DEF ranges
<1>5. /\ merged \in Seq(Stretch) /\ Ordered(merged, Clear)
      /\ Times(ToSet(merged)) = Times(ranges)
      BY <1>2, <1>3, MergedFacts
<1> HIDE DEF merged
<1>6. SpeechOf(turns, k) = Filtered(merged, T)
  <2>1. \A i \in DOMAIN merged : merged[i].to - merged[i].from >= MinShot <=> merged[i] \in T
        BY <1>5
  <2>2. [i \in DOMAIN merged |-> IF merged[i].to - merged[i].from >= MinShot THEN <<merged[i]>> ELSE <<>>]
          = [i \in DOMAIN merged |-> IF merged[i] \in T THEN <<merged[i]>> ELSE <<>>]
        BY <2>1
  <2> HIDE DEF T
  <2> QED BY <1>4, <2>2 DEF Where, Mapped, Filtered
<1> HIDE DEF T
<1>7. ToSet(Filtered(merged, T)) = ToSet(merged) \cap T /\ Ordered(Filtered(merged, T), Clear)
      BY <1>5, FilterFacts, OrderedFilter
<1>8. ASSUME NEW t \in Times(ToSet(SpeechOf(turns, k))) PROVE t \in 0..Lengths[k] - 1
  <2>1. PICK p \in ToSet(SpeechOf(turns, k)) : t \in p.from..p.to - 1
        BY TimesOf
  <2>2. t \in Times(ToSet(merged))
        BY <1>6, <1>7, <2>1, TimesOf
  <2>3. PICK r \in ranges : t \in r.from..r.to - 1
        BY <1>5, <2>2, TimesOf
  <2>4. r.from \in Int /\ r.to \in Int /\ 0 <= r.from /\ r.to <= Lengths[k]
        BY <1>2, StretchFacts
  <2> QED BY <1>0, <2>3, <2>4
<1> QED BY <1>6, <1>7, <1>8, SpeechType

\* The edits that stretches of a clip make.
LEMMA ClipEdits ==
  ASSUME NEW k \in Clips, NEW s \in Seq(Stretch), Ordered(s, Clear)
  PROVE  LET edits == Mapped(s, LAMBDA r : EditOf(k, r)) IN
         /\ edits \in Seq(Segment) /\ Ordered(edits, Sooner)
         /\ \A f : f \in Footage(ToSet(edits)) <=> \E t \in Times(ToSet(s)) : f = <<k, t>>
<1> DEFINE edits == Mapped(s, LAMBDA r : EditOf(k, r))
           n == Len(s)
<1>1. edits = [i \in DOMAIN s |-> EditOf(k, s[i])]
      BY DEF Mapped
<1>2. DOMAIN s = 1..n /\ n \in Nat /\ \A i \in 1..n : s[i] \in Stretch /\ s[i] \in ToSet(s)
      BY DEF ToSet
<1>3. ToSet(s) = {s[i] : i \in 1..n}
      BY DEF ToSet
<1> HIDE DEF n, edits
<1>4. \A i \in 1..n : EditOf(k, s[i]) \in Segment
      BY <1>2, StretchFacts, EditOfType
<1>5. edits \in Seq(Segment) /\ Len(edits) = n /\ DOMAIN edits = 1..n /\ \A i \in 1..n : edits[i] = EditOf(k, s[i])
      BY <1>1, <1>2, <1>4
<1>6. \A i \in 1..n : \A f : f \in Shots(edits[i]) <=> \E t \in s[i].from..s[i].to - 1 : f = <<k, t>>
      BY <1>5 DEF Shots, EditOf
<1>7. ASSUME NEW f PROVE f \in Footage(ToSet(edits)) <=> \E t \in Times(ToSet(s)) : f = <<k, t>>
  <2>1. f \in Footage(ToSet(edits)) <=> \E i \in 1..n : f \in Shots(edits[i])
        BY <1>5, FootageOfSeq
  <2>2. \A t : t \in Times(ToSet(s)) <=> \E i \in 1..n : t \in s[i].from..s[i].to - 1
        BY <1>3, TimesOf
  <2> QED BY <1>6, <2>1, <2>2
<1>8. ASSUME NEW i \in 1..n, NEW j \in 1..n, i < j PROVE <<edits[i], edits[j]>> \in Sooner
  <2>1. <<s[i], s[j]>> \in Clear
        BY <1>2, <1>8 DEF Ordered
  <2>2. s[i].to < s[j].from
    <3> DEFINE p == <<s[i], s[j]>>
    <3>1. p[1] = s[i] /\ p[2] = s[j]
          OBVIOUS
    <3> HIDE DEF p
    <3>2. p \in Clear
          BY <2>1 DEF p
    <3> QED BY <3>1, <3>2 DEF Clear
  <2>3. s[i].from \in Int /\ s[i].to \in Int /\ s[j].from \in Int /\ s[j].to \in Int
        BY <1>2, StretchFacts
  <2>4. ASSUME NEW f \in Shots(edits[i]), NEW g \in Shots(edits[j]) PROVE <<f, g>> \in FrameOrder
    <3>1. PICK t \in s[i].from..s[i].to - 1 : f = <<k, t>>
          BY <1>6
    <3>2. PICK u \in s[j].from..s[j].to - 1 : g = <<k, u>>
          BY <1>6
    <3>3. t \in Int /\ u \in Int /\ t < u
          BY <2>2, <2>3
    <3> QED BY <3>1, <3>2, <3>3, LaterFacts
  <2>5. edits[i] \in Segment /\ edits[j] \in Segment
        BY <1>4, <1>5
  <2> QED BY <2>4, <2>5, SoonerFacts DEF Across
<1>9. Ordered(edits, Sooner)
      BY <1>5, <1>8 DEF Ordered
<1> QED BY <1>5, <1>7, <1>9 DEF edits

LEMMA WithinFacts ==
  ASSUME NEW k \in Clips, NEW t \in 0..Lengths[k] - 1
  PROVE  <<k, t>> \in Within
<1> DEFINE f == <<k, t>>
<1>1. f \in Frame /\ f[1] = k /\ f[2] = t
      BY ClipsFacts DEF Frame
<1> HIDE DEF f
<1>2. f \in Within
      BY <1>1 DEF Within
<1> QED BY <1>2 DEF f

LEMMA ClipsInTurn ==
  ASSUME NEW d \in Segment, NEW e \in Segment, d.clip < e.clip
  PROVE  <<d, e>> \in Sooner
<1>1. ASSUME NEW f \in Shots(d), NEW g \in Shots(e) PROVE <<f, g>> \in FrameOrder
  <2>1. PICK t \in d.from..d.to - 1 : f = <<d.clip, t>>
        BY ShotsFacts
  <2>2. PICK u \in e.from..e.to - 1 : g = <<e.clip, u>>
        BY ShotsFacts
  <2>3. t \in Int /\ u \in Int /\ d.clip \in Clips /\ e.clip \in Clips
        BY SegmentFacts
  <2> QED BY <2>1, <2>2, <2>3, LaterFacts
<1> QED BY <1>1, SoonerFacts DEF Across

LEMMA LinearEditsSound ==
  ASSUME NEW turns, \A k \in Clips : /\ turns[k] \in SUBSET Stretch /\ IsFiniteSet(turns[k])
                                     /\ \A r \in turns[k] : r.from >= 0
  PROVE  /\ Ordered(FramesOf(LinearEdits(turns)), FrameOrder)
         /\ Footage(ToSet(LinearEdits(turns))) \subseteq Within
<1> DEFINE of(k) == Mapped(SpeechOf(turns[k], k), LAMBDA r : EditOf(k, r))
           ss == [k \in Clips |-> of(k)]
           speech == FlattenSeq(ss)
           whole == [k \in Clips |-> EditOf(k, [from |-> 0, to |-> Lengths[k]])]
           T == {e \in Segment : e.from < e.to}
           full == Where(whole, Nonempty)
           program == IF speech # <<>> THEN speech ELSE full
           m == Len(Lengths)
<1>1. ASSUME NEW k \in Clips
      PROVE  /\ of(k) \in Seq(Segment) /\ Ordered(of(k), Sooner)
             /\ Footage(ToSet(of(k))) \subseteq Within
             /\ \A e \in ToSet(of(k)) : e \in Segment /\ e.clip = k
  <2> DEFINE s == SpeechOf(turns[k], k)
  <2>1. s \in Seq(Stretch) /\ Ordered(s, Clear) /\ \A t \in Times(ToSet(s)) : t \in 0..Lengths[k] - 1
        BY SpeechFacts
  <2>2. of(k) = Mapped(s, LAMBDA r : EditOf(k, r))
        OBVIOUS
  <2> HIDE DEF s, of
  <2>3. /\ of(k) \in Seq(Segment) /\ Ordered(of(k), Sooner)
        /\ \A f : f \in Footage(ToSet(of(k))) <=> \E t \in Times(ToSet(s)) : f = <<k, t>>
    <3>1. LET edits == Mapped(s, LAMBDA r : EditOf(k, r)) IN
          /\ edits \in Seq(Segment) /\ Ordered(edits, Sooner)
          /\ \A f : f \in Footage(ToSet(edits)) <=> \E t \in Times(ToSet(s)) : f = <<k, t>>
          BY <2>1, ClipEdits
    <3> QED BY <2>2, <3>1
  <2>4. Footage(ToSet(of(k))) \subseteq Within
        BY <2>1, <2>3, WithinFacts
  <2>5. of(k) = [i \in DOMAIN s |-> EditOf(k, s[i])]
        BY <2>2 DEF Mapped
  <2>6. \A e \in ToSet(of(k)) : e.clip = k
        BY <2>5 DEF ToSet, EditOf
  <2>7. \A e \in ToSet(of(k)) : e \in Segment
        BY <2>3 DEF ToSet
  <2> QED BY <2>3, <2>4, <2>6, <2>7
<1> HIDE DEF of
<1>2. ss \in Seq(Seq(Segment)) /\ Len(ss) = m /\ Clips = 1..m /\ \A k \in 1..m : ss[k] = of(k)
      BY <1>1, ClipsFacts
<1> HIDE DEF ss, m
<1>3. ASSUME NEW i \in 1..m, NEW j \in 1..m, i < j PROVE Across(ToSet(ss[i]), ToSet(ss[j]), Sooner)
  <2>1. ASSUME NEW d \in ToSet(ss[i]), NEW e \in ToSet(ss[j]) PROVE <<d, e>> \in Sooner
    <3>1. d \in Segment /\ e \in Segment /\ d.clip = i /\ e.clip = j
          BY <1>1, <1>2
    <3> QED BY <1>3, <3>1, ClipsInTurn
  <2> QED BY <2>1 DEF Across
<1>4. Ordered(speech, Sooner)
  <2>1. \A i \in 1..m : Ordered(ss[i], Sooner)
        BY <1>1, <1>2
  <2> QED BY <1>2, <1>3, <2>1, OrderedFlatten
<1>5. speech \in Seq(Segment) /\ ToSet(speech) = UNION {ToSet(ss[i]) : i \in 1..m}
      BY <1>2, FlattenFacts
<1>6. ASSUME NEW f, f \in Footage(ToSet(speech)) PROVE f \in Within
  <2>1. PICK e \in ToSet(speech) : f \in Shots(e)
        BY <1>6, FootageOfParts
  <2>2. PICK i \in 1..m : e \in ToSet(ss[i])
        BY <1>5
  <2>3. f \in Footage(ToSet(of(i)))
        BY <1>2, <2>1, <2>2, FootageOfParts
  <2> QED BY <1>1, <1>2, <2>3
<1> HIDE DEF speech
<1>7. whole \in Seq(Segment) /\ DOMAIN whole = 1..m /\ m \in Nat
  <2>1. \A k \in Clips : EditOf(k, [from |-> 0, to |-> Lengths[k]]) \in Segment
        BY ClipsFacts DEF EditOf, Segment, Forward
  <2> QED BY <2>1, ClipsFacts DEF m
<1>8. \A k \in 1..m : whole[k].clip = k /\ whole[k].from = 0 /\ whole[k].to = Lengths[k]
      BY <1>2 DEF EditOf
<1> HIDE DEF whole
<1>9. Ordered(whole, Sooner)
  <2>1. ASSUME NEW i \in 1..m, NEW j \in 1..m, i < j PROVE <<whole[i], whole[j]>> \in Sooner
    <3>1. whole[i] \in Segment /\ whole[j] \in Segment /\ whole[i].clip < whole[j].clip
      <4>1. Len(whole) = m
            BY <1>7
      <4> QED BY <1>7, <1>8, <2>1, <4>1
    <3> QED BY <3>1, ClipsInTurn
  <2> QED BY <1>7, <2>1 DEF Ordered
<1>10. ASSUME NEW e \in ToSet(whole), NEW f \in Shots(e) PROVE f \in Within
  <2>1. PICK k \in 1..m : e = whole[k]
        BY <1>7 DEF ToSet
  <2>2. PICK t \in 0..Lengths[k] - 1 : f = <<k, t>>
        BY <1>8, <2>1 DEF Shots
  <2> QED BY <1>2, <2>2, WithinFacts
<1>11. full = Filtered(whole, T)
  <2>1. \A i \in DOMAIN whole : Nonempty(whole[i]) <=> whole[i] \in T
        BY <1>7 DEF Nonempty
  <2>2. [i \in DOMAIN whole |-> IF Nonempty(whole[i]) THEN <<whole[i]>> ELSE <<>>]
          = [i \in DOMAIN whole |-> IF whole[i] \in T THEN <<whole[i]>> ELSE <<>>]
        BY <2>1
  <2> HIDE DEF T
  <2> QED BY <2>2 DEF Where, Mapped, Filtered
<1>12. full \in Seq(Segment) /\ Ordered(full, Sooner) /\ Footage(ToSet(full)) \subseteq Within
  <2>1. /\ Filtered(whole, T) \in Seq(Segment \cap T) /\ ToSet(Filtered(whole, T)) = ToSet(whole) \cap T
        /\ Ordered(Filtered(whole, T), Sooner)
        BY <1>7, <1>9, FilterFacts, OrderedFilter
  <2>2. Seq(Segment \cap T) \subseteq Seq(Segment)
        OBVIOUS
  <2>3. ASSUME NEW f, f \in Footage(ToSet(full)) PROVE f \in Within
    <3>1. PICK e \in ToSet(full) : f \in Shots(e)
          BY <2>3, FootageOfParts
    <3>2. e \in ToSet(whole)
          BY <1>11, <2>1, <3>1
    <3> QED BY <1>10, <3>1, <3>2
  <2> QED BY <1>11, <2>1, <2>2, <2>3
<1>13. LinearEdits(turns) = Packed(program)
       BY DEF LinearEdits, of, ss, whole, speech
<1> HIDE DEF full
<1>14. program \in Seq(Segment) /\ Ordered(program, Sooner) /\ Footage(ToSet(program)) \subseteq Within
       BY <1>4, <1>5, <1>6, <1>12
<1> HIDE DEF program
<1>15. FramesOf(Packed(program)) = FramesOf(program) /\ Footage(ToSet(Packed(program))) = Footage(ToSet(program))
       BY <1>14, PackedFrames, PackedFootage
<1> QED BY <1>13, <1>14, <1>15, FramesInTurn

-----------------------------------------------------------------------------
(* What a plan takes out of the timeline, and what it leaves.              *)

LEMMA MergedBounds ==
  ASSUME NEW ranges \in SUBSET Stretch, IsFiniteSet(ranges), NEW lo \in Int, NEW hi \in Int,
         \A r \in ranges : lo <= r.from /\ r.to <= hi
  PROVE  \A r \in ToSet(MergeRanges(ranges)) : lo <= r.from /\ r.to <= hi
<1> DEFINE s == ByStart(ranges)
           n == Len(s)
           Box == {r \in Stretch : lo <= r.from /\ r.to <= hi}
<1>1. s \in Seq(Stretch) /\ ToSet(s) = ranges
      BY ByStartFacts
<1>2. MergeRanges(ranges) = FoldLeft(Merge, <<>>, s)
      BY DEF MergeRanges
<1> HIDE DEF s
<1>3. PICK g \in [0..n -> Seq(Stretch)] :
        /\ g[0] = <<>> /\ FoldLeft(Merge, <<>>, s) = g[n]
        /\ \A i \in 1..n : g[i] = Merge(g[i - 1], s[i])
      BY <1>1, MergeSteps
<1>4. n \in Nat /\ \A i \in 1..n : s[i] \in Box
  <2>1. n \in Nat /\ \A i \in 1..n : s[i] \in Stretch /\ s[i] \in ToSet(s)
        BY <1>1 DEF ToSet
  <2> QED BY <1>1, <2>1
<1>5. ASSUME NEW out \in Seq(Stretch), ToSet(out) \subseteq Box, NEW r \in Box
      PROVE  ToSet(Merge(out, r)) \subseteq Box
  <2> DEFINE m == Len(out)
  <2>1. m \in Nat /\ DOMAIN out = 1..m /\ \A i \in 1..m : out[i] \in Stretch /\ lo <= out[i].from /\ out[i].to <= hi
        BY <1>5 DEF ToSet
  <2>2. CASE out # <<>> /\ r.from <= Last(out).to
    <3> DEFINE q == [out[m] EXCEPT !.to = Larger(out[m].to, r.to)]
    <3>1. m \in 1..m /\ Last(out) = out[m]
          BY <2>2 DEF Last
    <3>2. Merge(out, r) = [out EXCEPT ![m] = q]
          BY <2>2 DEF Merge
    <3>3. q \in Box
      <4>1. out[m] \in [from : Int, to : Int] /\ out[m].from \in Int /\ out[m].to \in Int /\ out[m].from <= out[m].to
            /\ r.to \in Int /\ r.to <= hi
            BY <2>1, <3>1 DEF Stretch, Forward
      <4>2. Larger(out[m].to, r.to) \in Int /\ out[m].to <= Larger(out[m].to, r.to) /\ Larger(out[m].to, r.to) <= hi
            BY <2>1, <3>1, <4>1 DEF Larger
      <4>3. q \in [from : Int, to : Int] /\ q.from = out[m].from /\ q.to = Larger(out[m].to, r.to)
            BY <4>1, <4>2
      <4> HIDE DEF q
      <4>4. q.from <= q.to /\ lo <= q.from /\ q.to <= hi
            BY <2>1, <3>1, <4>1, <4>2, <4>3
      <4> QED BY <4>3, <4>4 DEF Stretch, Forward
    <3> HIDE DEF q
    <3>4. \A y \in ToSet([out EXCEPT ![m] = q]) : y = q \/ y \in ToSet(out)
          BY <2>1, <3>1 DEF ToSet
    <3> QED BY <1>5, <3>2, <3>3, <3>4
  <2>3. CASE ~(out # <<>> /\ r.from <= Last(out).to)
    <3>1. Merge(out, r) = Append(out, r)
          BY <2>3 DEF Merge
    <3>2. ToSet(Append(out, r)) = ToSet(out) \cup {r}
          BY <1>5, AppendedSets
    <3> QED BY <1>5, <3>1, <3>2
  <2> QED BY <2>2, <2>3
<1> HIDE DEF n, Box
<1> DEFINE Right == {i \in 0..n : ToSet(g[i]) \subseteq Box}
<1>6. Right \in SUBSET (0..n) /\ 0 \in Right
  <2>1. ToSet(<<>>) = {}
        BY OrderedOne
  <2> QED BY <1>3, <1>4, <2>1
<1>7. ASSUME NEW i \in 1..n, i - 1 \in Right PROVE i \in Right
  <2>1. i \in 0..n /\ i - 1 \in 0..n
        BY <1>4
  <2>2. ToSet(g[i - 1]) \subseteq Box /\ g[i - 1] \in Seq(Stretch)
        BY <1>7, <2>1
  <2>3. ToSet(Merge(g[i - 1], s[i])) \subseteq Box
        BY <1>4, <1>5, <2>2
  <2> QED BY <1>3, <2>1, <2>3
<1>8. Right = 0..n
  <2> HIDE DEF Right
  <2> QED BY <1>4, <1>6, <1>7, PrefixInduction
<1>9. ToSet(g[n]) \subseteq Box
      BY <1>4, <1>8
<1> QED BY <1>2, <1>3, <1>9 DEF Box

LEMMA InTurnFacts ==
  ASSUME NEW a \in Stretch, NEW b \in Stretch
  PROVE  /\ <<a, b>> \in InTurn <=> a.to <= b.from
         /\ <<a, b>> \in Clear => a.to < b.from
         /\ <<a, b>> \in Clear => <<a, b>> \in InTurn
<1> DEFINE p == <<a, b>>
<1>1. p[1] = a /\ p[2] = b /\ p \in TimeRange \X TimeRange /\ a.to \in Int /\ b.from \in Int
      BY DEF Stretch, Forward, TimeRange
<1> HIDE DEF p
<1>2. /\ p \in InTurn <=> a.to <= b.from
      /\ p \in Clear => a.to < b.from
      BY <1>1 DEF InTurn, Clear
<1>3. p \in Clear => p \in InTurn
      BY <1>1, <1>2
<1> QED BY <1>2, <1>3 DEF p

LEMMA GapsFacts ==
  ASSUME NEW range, range.from \in Int, range.to \in Int, range.from <= range.to,
         NEW ranges \in Seq(Stretch), Ordered(ranges, InTurn),
         \A r \in ToSet(ranges) : range.from <= r.from /\ r.to <= range.to
  PROVE  /\ Ordered(Gaps(range, ranges), InTurn)
         /\ Times(ToSet(Gaps(range, ranges))) = (range.from..range.to - 1) \ Times(ToSet(ranges))
         /\ \A r \in ToSet(Gaps(range, ranges)) : range.from <= r.from /\ r.from < r.to /\ r.to <= range.to
<1> DEFINE n == Len(ranges)
           s == [i \in 1..n + 1 |->
                  [from |-> IF i = 1 THEN range.from ELSE ranges[i - 1].to,
                   to   |-> IF i = n + 1 THEN range.to ELSE ranges[i].from]]
           T == {r \in Stretch : r.from < r.to}
<1>1. /\ n \in Nat /\ DOMAIN ranges = 1..n
      /\ \A i \in 1..n : /\ ranges[i] \in Stretch /\ ranges[i].from \in Int /\ ranges[i].to \in Int
                         /\ ranges[i].from <= ranges[i].to
                         /\ range.from <= ranges[i].from /\ ranges[i].to <= range.to
  <2>1. n \in Nat /\ DOMAIN ranges = 1..n /\ \A i \in 1..n : ranges[i] \in Stretch /\ ranges[i] \in ToSet(ranges)
        BY DEF ToSet
  <2> QED BY <2>1, StretchFacts
<1>2. \A i, j \in 1..n : i < j => ranges[i].to <= ranges[j].from
      BY <1>1, InTurnFacts DEF Ordered
<1>3. ToSet(ranges) = {ranges[i] : i \in 1..n}
      BY <1>1 DEF ToSet
<1>4. /\ DOMAIN s = 1..n + 1
      /\ \A i \in 1..n + 1 : /\ s[i].from = IF i = 1 THEN range.from ELSE ranges[i - 1].to
                             /\ s[i].to = IF i = n + 1 THEN range.to ELSE ranges[i].from
                             /\ s[i] = [from |-> s[i].from, to |-> s[i].to]
      OBVIOUS
<1>5. Gaps(range, ranges) = Where(s, Nonempty)
      BY DEF Gaps
<1> HIDE DEF s, n
<1>6. \A i \in 1..n + 1 : /\ i # 1 => i - 1 \in 1..n
                          /\ i # n + 1 => i \in 1..n
      BY <1>1
<1>7. ASSUME NEW i \in 1..n + 1
      PROVE  /\ s[i].from \in Int /\ s[i].to \in Int /\ s[i].from <= s[i].to
             /\ range.from <= s[i].from /\ s[i].to <= range.to
  <2>1. s[i].from \in Int /\ range.from <= s[i].from
    <3>1. CASE i = 1
          BY <1>4, <3>1
    <3>2. CASE i # 1
      <4>1. i - 1 \in 1..n /\ s[i].from = ranges[i - 1].to
            BY <1>4, <1>6, <3>2
      <4> QED BY <1>1, <4>1
    <3> QED BY <3>1, <3>2
  <2>2. s[i].to \in Int /\ s[i].to <= range.to
    <3>1. CASE i = n + 1
          BY <1>4, <3>1
    <3>2. CASE i # n + 1
      <4>1. i \in 1..n /\ s[i].to = ranges[i].from
            BY <1>4, <1>6, <3>2
      <4> QED BY <1>1, <4>1
    <3> QED BY <3>1, <3>2
  <2>3. s[i].from <= s[i].to
    <3>1. CASE i = 1 /\ i = n + 1
          BY <1>4, <3>1
    <3>2. CASE i = 1 /\ i # n + 1
      <4>1. i \in 1..n /\ s[i].to = ranges[i].from /\ s[i].from = range.from
            BY <1>4, <1>6, <3>2
      <4> QED BY <1>1, <4>1
    <3>3. CASE i # 1 /\ i = n + 1
      <4>1. i - 1 \in 1..n /\ s[i].from = ranges[i - 1].to /\ s[i].to = range.to
            BY <1>4, <1>6, <3>3
      <4> QED BY <1>1, <4>1
    <3>4. CASE i # 1 /\ i # n + 1
      <4>1. i - 1 \in 1..n /\ i \in 1..n /\ i - 1 < i /\ s[i].from = ranges[i - 1].to /\ s[i].to = ranges[i].from
            BY <1>4, <1>6, <3>4
      <4> QED BY <1>2, <4>1
    <3> QED BY <3>1, <3>2, <3>3, <3>4
  <2> QED BY <2>1, <2>2, <2>3
<1>8. s \in Seq(Stretch) /\ Len(s) = n + 1
  <2> DEFINE m == n + 1
  <2>1. \A i \in 1..m : s[i] \in Stretch
        BY <1>4, <1>7 DEF Stretch, Forward
  <2>2. s = [i \in 1..m |-> s[i]] /\ m \in Nat
        BY <1>1 DEF s
  <2> HIDE DEF m
  <2>3. s \in Seq(Stretch) /\ Len(s) = m
        BY <2>1, <2>2, SMTT(30)
  <2> QED BY <2>3 DEF m
<1>9. ASSUME NEW i \in 1..n + 1, NEW j \in 1..n + 1, i < j PROVE s[i].to <= s[j].from
  <2>1. i \in 1..n /\ j - 1 \in 1..n /\ i <= j - 1 /\ s[i].to = ranges[i].from /\ s[j].from = ranges[j - 1].to
        BY <1>1, <1>4, <1>9
  <2>2. CASE i = j - 1
        BY <1>1, <2>1, <2>2
  <2>3. CASE i < j - 1
    <3>1. ranges[i].to <= ranges[j - 1].from
          BY <1>2, <2>1, <2>3
    <3>2. ranges[i].from \in Int /\ ranges[i].to \in Int /\ ranges[j - 1].from \in Int /\ ranges[j - 1].to \in Int
          /\ ranges[i].from <= ranges[i].to /\ ranges[j - 1].from <= ranges[j - 1].to
          BY <1>1, <2>1
    <3> QED BY <2>1, <3>1, <3>2
  <2> QED BY <2>1, <2>2, <2>3
<1>10. Ordered(s, InTurn)
  <2>1. ASSUME NEW i \in DOMAIN s, NEW j \in DOMAIN s, i < j PROVE <<s[i], s[j]>> \in InTurn
    <3>1. i \in 1..n + 1 /\ j \in 1..n + 1
          BY <1>4
    <3>2. s[i] \in Stretch /\ s[j] \in Stretch
          BY <1>8
    <3> QED BY <1>9, <2>1, <3>1, <3>2, InTurnFacts
  <2> QED BY <2>1 DEF Ordered
<1>11. Gaps(range, ranges) = Filtered(s, T)
  <2>1. \A i \in DOMAIN s : Nonempty(s[i]) <=> s[i] \in T
        BY <1>8 DEF Nonempty
  <2>2. [i \in DOMAIN s |-> IF Nonempty(s[i]) THEN <<s[i]>> ELSE <<>>]
          = [i \in DOMAIN s |-> IF s[i] \in T THEN <<s[i]>> ELSE <<>>]
        BY <2>1
  <2> HIDE DEF T
  <2> QED BY <1>5, <2>2 DEF Where, Mapped, Filtered
<1> DEFINE left == Gaps(range, ranges)
<1>12. ToSet(left) = ToSet(s) \cap T /\ Ordered(left, InTurn)
  <2> HIDE DEF T
  <2> QED BY <1>8, <1>10, <1>11, FilterFacts, OrderedFilter
<1>13. ToSet(s) = {s[i] : i \in 1..n + 1}
       BY <1>4 DEF ToSet
<1> HIDE DEF left
<1>14. ASSUME NEW r \in ToSet(left) PROVE range.from <= r.from /\ r.from < r.to /\ r.to <= range.to
       BY <1>7, <1>12, <1>13
<1>15. \A t : t \in Times(ToSet(left)) <=> \E i \in 1..n + 1 : t \in s[i].from..s[i].to - 1
  <2>1. ASSUME NEW t, t \in Times(ToSet(left)) PROVE \E i \in 1..n + 1 : t \in s[i].from..s[i].to - 1
    <3>1. PICK r \in ToSet(left) : t \in r.from..r.to - 1
          BY <2>1, TimesOf
    <3> QED BY <1>12, <1>13, <3>1
  <2>2. ASSUME NEW t, NEW i \in 1..n + 1, t \in s[i].from..s[i].to - 1 PROVE t \in Times(ToSet(left))
    <3>1. s[i].from < s[i].to /\ s[i] \in Stretch
          BY <1>7, <1>8, <2>2
    <3>2. s[i] \in ToSet(left)
          BY <1>12, <1>13, <3>1
    <3> QED BY <2>2, <3>2, TimesOf
  <2> QED BY <2>1, <2>2
<1>16. \A t : t \in Times(ToSet(ranges)) <=> \E i \in 1..n : t \in ranges[i].from..ranges[i].to - 1
       BY <1>3, TimesOf
<1>17. ASSUME NEW t, t \in Times(ToSet(left))
       PROVE  t \in range.from..range.to - 1 /\ t \notin Times(ToSet(ranges))
  <2>1. PICK i \in 1..n + 1 : t \in s[i].from..s[i].to - 1
        BY <1>15, <1>17
  <2>2. t \in Int /\ s[i].from <= t /\ t < s[i].to /\ range.from <= s[i].from /\ s[i].to <= range.to
        BY <1>7, <2>1
  <2>3. ASSUME NEW j \in 1..n PROVE t \notin ranges[j].from..ranges[j].to - 1
    <3>1. ranges[j].from \in Int /\ ranges[j].to \in Int /\ j \in 1..n + 1 /\ j + 1 \in 1..n + 1
          BY <1>1
    <3>2. CASE i <= j
      <4>1. s[j].to = ranges[j].from
            BY <1>1, <1>4, <3>1
      <4>2. s[i].to <= s[j].to
        <5>1. CASE i = j
              BY <1>7, <3>1, <5>1
        <5>2. CASE i < j
          <6>1. s[i].to <= s[j].from /\ s[j].from <= s[j].to /\ s[j].from \in Int /\ s[j].to \in Int /\ s[i].to \in Int
                BY <1>7, <1>9, <3>1, <5>2
          <6> QED BY <6>1
        <5> QED BY <1>1, <3>2, <5>1, <5>2
      <4>3. s[i].to \in Int /\ s[j].to \in Int
            BY <1>7, <3>1
      <4> QED BY <2>2, <3>1, <4>1, <4>2, <4>3
    <3>3. CASE j < i
      <4> DEFINE k == j + 1
      <4>1. s[k].from = ranges[j].to /\ k \in 1..n + 1 /\ k <= i
        <5>1. k # 1 /\ k - 1 = j /\ k \in 1..n + 1 /\ k <= i
              BY <1>1, <3>1, <3>3
        <5> QED BY <1>4, <5>1
      <4> HIDE DEF k
      <4>2. s[k].from <= s[i].from
        <5>1. CASE k = i
              BY <1>7, <5>1
        <5>2. CASE k < i
          <6>1. s[k].to <= s[i].from /\ s[k].from <= s[k].to /\ s[k].from \in Int /\ s[k].to \in Int /\ s[i].from \in Int
                BY <1>7, <1>9, <4>1, <5>2
          <6> QED BY <6>1
        <5> QED BY <1>1, <4>1, <5>1, <5>2
      <4>3. s[i].from \in Int /\ s[k].from \in Int
            BY <1>7, <4>1
      <4> QED BY <2>2, <3>1, <4>1, <4>2, <4>3
    <3> QED BY <1>1, <3>2, <3>3
  <2>4. s[i].from \in Int /\ s[i].to \in Int
        BY <1>7
  <2> QED BY <1>16, <2>2, <2>3, <2>4
<1>18. ASSUME NEW t \in range.from..range.to - 1, t \notin Times(ToSet(ranges))
       PROVE  t \in Times(ToSet(left))
  <2> DEFINE After == {i \in 1..n + 1 : t < s[i].to}
  <2>1. n + 1 \in After
    <3>1. n + 1 \in 1..n + 1 /\ s[n + 1].to = range.to
          BY <1>1, <1>4
    <3> QED BY <3>1
  <2>2. After \in SUBSET Nat /\ After # {}
        BY <1>1, <2>1
  <2>3. PICK i \in After : \A j \in After : i <= j
    <3> HIDE DEF After
    <3> QED BY <2>2, LeastNumber
  <2>4. s[i].from <= t
    <3>1. CASE i = 1
          BY <1>1, <1>4, <3>1
    <3>2. CASE i # 1
      <4> DEFINE j == i - 1
      <4>1. j \in 1..n /\ j \in 1..n + 1 /\ j < i /\ s[i].from = ranges[j].to /\ s[j].to = ranges[j].from
            BY <1>1, <1>4, <1>6, <3>2
      <4>2. j \notin After
            BY <1>1, <2>3, <4>1
      <4> HIDE DEF j
      <4>3. ~(t < s[j].to)
            BY <4>1, <4>2
      <4>4. t \notin ranges[j].from..ranges[j].to - 1
            BY <1>16, <1>18, <4>1
      <4> QED BY <1>1, <4>1, <4>3, <4>4
    <3> QED BY <3>1, <3>2
  <2>5. t \in s[i].from..s[i].to - 1
        BY <1>7, <2>4
  <2> QED BY <1>15, <2>5
<1>19. \A t : t \in Times(ToSet(left)) <=> t \in (range.from..range.to - 1) \ Times(ToSet(ranges))
       BY <1>17, <1>18
<1> QED BY <1>12, <1>14, <1>19 DEF left

LEMMA HitExact ==
  ASSUME NEW e \in Segment, NEW cuts \in Seq(Stretch), Ordered(cuts, InTurn)
  PROVE  /\ Ordered(HitOf(e, cuts), InTurn)
         /\ Times(ToSet(HitOf(e, cuts))) = (e.at..EndOf(e) - 1) \cap Times(ToSet(cuts))
<1> DEFINE hit(c) == [from |-> Larger(c.from, e.at), to |-> Smaller(c.to, WholeOf(e).to)]
           s == [i \in DOMAIN cuts |-> hit(cuts[i])]
           T == {r \in TimeRange : r.from < r.to}
           n == Len(cuts)
<1>1. WholeOf(e).to = EndOf(e) /\ EndOf(e) \in Int /\ e.at \in Int
      BY SegmentFacts DEF WholeOf, EndOf
<1>2. DOMAIN cuts = 1..n /\ n \in Nat
      /\ \A i \in 1..n : cuts[i] \in Stretch /\ cuts[i].from \in Int /\ cuts[i].to \in Int
      BY StretchFacts
<1>3. \A i \in 1..n : /\ s[i].from \in Int /\ s[i].to \in Int
                      /\ cuts[i].from <= s[i].from /\ s[i].to <= cuts[i].to
                      /\ \A t \in Int : t \in s[i].from..s[i].to - 1 <=>
                           t \in cuts[i].from..cuts[i].to - 1 /\ t \in e.at..EndOf(e) - 1
  <2> TAKE i \in 1..n
  <2>1. s[i].from = Larger(cuts[i].from, e.at) /\ s[i].to = Smaller(cuts[i].to, EndOf(e))
        BY <1>1, <1>2
  <2> HIDE DEF s
  <2>2. s[i].from \in Int /\ s[i].to \in Int /\ cuts[i].from <= s[i].from /\ s[i].to <= cuts[i].to
        BY <1>1, <1>2, <2>1 DEF Larger, Smaller
  <2>3. \A t \in Int : t \in s[i].from..s[i].to - 1 <=>
                         t \in cuts[i].from..cuts[i].to - 1 /\ t \in e.at..EndOf(e) - 1
        BY <1>1, <1>2, <2>1 DEF Larger, Smaller
  <2> QED BY <2>2, <2>3
<1>4. s \in Seq(TimeRange) /\ DOMAIN s = 1..n /\ \A i \in 1..n : s[i] \in TimeRange
  <2>1. \A i \in 1..n : hit(cuts[i]) \in TimeRange
    <3> TAKE i \in 1..n
    <3>1. s[i] = hit(cuts[i]) /\ s[i] = [from |-> s[i].from, to |-> s[i].to]
          BY <1>2
    <3> HIDE DEF s, hit
    <3> QED BY <1>3, <3>1 DEF TimeRange
  <2> HIDE DEF hit
  <2> QED BY <1>2, <2>1
<1>5. HitOf(e, cuts) = Where(s, Nonempty)
      BY DEF HitOf, Mapped
<1> HIDE DEF s, n
<1>6. ASSUME NEW i \in DOMAIN s, NEW j \in DOMAIN s, i < j PROVE <<s[i], s[j]>> \in InTurn
  <2>1. i \in 1..n /\ j \in 1..n /\ s[i] \in TimeRange /\ s[j] \in TimeRange
        BY <1>4
  <2>2. cuts[i].to <= cuts[j].from
        BY <1>2, <1>6, <2>1, InTurnFacts DEF Ordered
  <2>3. s[i].to <= s[j].from
        BY <1>2, <1>3, <2>1, <2>2
  <2> DEFINE p == <<s[i], s[j]>>
  <2>4. p[1] = s[i] /\ p[2] = s[j] /\ p \in TimeRange \X TimeRange
        BY <2>1
  <2> HIDE DEF p
  <2>5. p \in InTurn
        BY <2>3, <2>4 DEF InTurn
  <2> QED BY <2>5 DEF p
<1>7. Ordered(s, InTurn)
      BY <1>6 DEF Ordered
<1>8. HitOf(e, cuts) = Filtered(s, T)
  <2>1. \A i \in DOMAIN s : Nonempty(s[i]) <=> s[i] \in T
    <3>1. \A i \in DOMAIN s : s[i] \in TimeRange
          BY <1>4
    <3> QED BY <3>1 DEF Nonempty
  <2>2. [i \in DOMAIN s |-> IF Nonempty(s[i]) THEN <<s[i]>> ELSE <<>>]
          = [i \in DOMAIN s |-> IF s[i] \in T THEN <<s[i]>> ELSE <<>>]
        BY <2>1
  <2> HIDE DEF T
  <2> QED BY <1>5, <2>2 DEF Where, Mapped, Filtered
<1> DEFINE h == HitOf(e, cuts)
<1>9. ToSet(h) = ToSet(s) \cap T /\ Ordered(h, InTurn)
  <2> HIDE DEF T
  <2> QED BY <1>4, <1>7, <1>8, FilterFacts, OrderedFilter
<1> HIDE DEF h
<1>10. ToSet(s) = {s[i] : i \in 1..n} /\ ToSet(cuts) = {cuts[i] : i \in 1..n}
       BY <1>2, <1>4 DEF ToSet
<1>11. \A t : t \in Times(ToSet(cuts)) <=> \E i \in 1..n : t \in cuts[i].from..cuts[i].to - 1
       BY <1>10, TimesOf
<1>12. ASSUME NEW t, t \in Times(ToSet(h)) PROVE t \in (e.at..EndOf(e) - 1) \cap Times(ToSet(cuts))
  <2>1. PICK r \in ToSet(h) : t \in r.from..r.to - 1
        BY <1>12, TimesOf
  <2>2. PICK i \in 1..n : r = s[i]
        BY <1>9, <1>10, <2>1
  <2>3. t \in Int
        BY <1>3, <2>1, <2>2
  <2> QED BY <1>3, <1>11, <2>1, <2>2, <2>3
<1>13. ASSUME NEW t \in e.at..EndOf(e) - 1, t \in Times(ToSet(cuts)) PROVE t \in Times(ToSet(h))
  <2>1. PICK i \in 1..n : t \in cuts[i].from..cuts[i].to - 1
        BY <1>11, <1>13
  <2>2. t \in s[i].from..s[i].to - 1
        BY <1>1, <1>3, <2>1
  <2>3. s[i] \in TimeRange /\ s[i].from < s[i].to
        BY <1>3, <1>4, <2>2
  <2>4. s[i] \in ToSet(h)
        BY <1>9, <1>10, <2>3
  <2> QED BY <2>2, <2>4, TimesOf
<1>14. \A t : t \in Times(ToSet(h)) <=> t \in (e.at..EndOf(e) - 1) \cap Times(ToSet(cuts))
       BY <1>12, <1>13
<1> QED BY <1>9, <1>14 DEF h

\* A part of the timeline, as a part of the footage there.
LEMMA SourceShots ==
  ASSUME NEW e \in Segment, NEW r, r.from \in Int, r.to \in Int, r.from <= r.to,
         e.at <= r.from, r.to <= EndOf(e), NEW old, Shows(e, old)
  PROVE  /\ SourceOf(e, r) \in Segment /\ PartOf(SourceOf(e, r), e)
         /\ \A f : f \in Shots(SourceOf(e, r)) <=> \E t \in r.from..r.to - 1 : f = old[t + 1]
<1> DEFINE Loose == [clip : Clips, from : Int, to : Int, at : Int, new : BOOLEAN]
           p == SourceOf(e, r)
<1>1. e \in Loose /\ e.from \in Int /\ e.at \in Int /\ e.to \in Int /\ e.from <= e.to
      BY DEF Segment, Forward
<1>2. e.from + r.from - e.at \in Int /\ e.from + r.to - e.at \in Int
      BY <1>1
<1>3. p = [e EXCEPT !.from = e.from + r.from - e.at, !.to = e.from + r.to - e.at, !.at = r.from]
      BY DEF SourceOf
<1>4. /\ p.clip = e.clip /\ p.from = e.from + r.from - e.at /\ p.to = e.from + r.to - e.at
      /\ p.at = r.from /\ p.new = e.new
  <2> HIDE DEF p
  <2> QED BY <1>1, <1>2, <1>3
<1>5. p \in Segment
      BY SourceFacts
<1> HIDE DEF p
<1>6. PartOf(p, e)
      BY <1>1, <1>4 DEF PartOf, EndOf
<1>7. \A n \in 0..(e.to - e.from - 1) : old[e.at + n + 1] = <<e.clip, e.from + n>>
      BY DEF Shows
<1>8. ASSUME NEW t \in r.from..r.to - 1 PROVE old[t + 1] = <<e.clip, e.from + t - e.at>>
  <2> DEFINE n == t - e.at
  <2>1. n \in Int /\ 0 <= n /\ n <= e.to - e.from - 1
        BY <1>1 DEF EndOf
  <2>2. e.at + n + 1 = t + 1 /\ e.from + n = e.from + t - e.at
        BY <1>1
  <2> HIDE DEF n
  <2>3. n \in 0..(e.to - e.from - 1)
        BY <1>1, <2>1
  <2> QED BY <1>7, <2>2, <2>3
<1>9. ASSUME NEW f, f \in Shots(p) PROVE \E t \in r.from..r.to - 1 : f = old[t + 1]
  <2>1. PICK x \in p.from..p.to - 1 : f = <<e.clip, x>>
        BY <1>4, <1>9 DEF Shots
  <2> DEFINE t == x - e.from + e.at
  <2>2. x \in Int /\ e.from + r.from - e.at <= x /\ x <= e.from + r.to - e.at - 1
    <3> DEFINE a == p.from
               b == p.to
    <3>1. a \in Int /\ b \in Int /\ x \in a..b - 1 /\ a = e.from + r.from - e.at /\ b = e.from + r.to - e.at
          BY <1>2, <1>4
    <3> HIDE DEF a, b
    <3> QED BY <1>1, <3>1
  <2>3. t \in r.from..r.to - 1 /\ e.from + t - e.at = x
        BY <1>1, <2>2
  <2> HIDE DEF t
  <2>4. old[t + 1] = f
        BY <1>8, <2>1, <2>3
  <2> QED BY <2>3, <2>4
<1>10. ASSUME NEW t \in r.from..r.to - 1 PROVE old[t + 1] \in Shots(p)
  <2>1. e.from + t - e.at \in p.from..p.to - 1
        BY <1>1, <1>4
  <2> QED BY <1>4, <1>8, <2>1 DEF Shots
<1> QED BY <1>5, <1>6, <1>9, <1>10 DEF p

\* What is left of an edit.
LEMMA LeftFacts ==
  ASSUME NEW e \in Segment, NEW cuts \in Seq(Stretch), Ordered(cuts, InTurn), NEW old, Shows(e, old)
  PROVE  /\ LeftOf(e, cuts) \in Seq(Segment) /\ Ordered(LeftOf(e, cuts), Sooner)
         /\ \A p \in ToSet(LeftOf(e, cuts)) : p \in Segment /\ PartOf(p, e)
         /\ \A f : f \in Footage(ToSet(LeftOf(e, cuts))) <=>
                     \E t \in (e.at..EndOf(e) - 1) \ Times(ToSet(cuts)) : f = old[t + 1]
<1> DEFINE s == Gaps(WholeOf(e), HitOf(e, cuts))
           n == Len(s)
           left == LeftOf(e, cuts)
<1>1. /\ WholeOf(e).from = e.at /\ WholeOf(e).to = EndOf(e) /\ e.at \in Int /\ EndOf(e) \in Int
      /\ e.at <= EndOf(e) /\ e.from \in Int /\ e.to \in Int
      BY SegmentFacts DEF WholeOf, EndOf
<1>2. /\ HitOf(e, cuts) \in Seq(Stretch) /\ Ordered(HitOf(e, cuts), InTurn)
      /\ \A r \in ToSet(HitOf(e, cuts)) : e.at <= r.from /\ r.from < r.to /\ r.to <= EndOf(e)
      /\ Times(ToSet(HitOf(e, cuts))) = (e.at..EndOf(e) - 1) \cap Times(ToSet(cuts))
      BY HitFacts, HitExact
<1>3. s \in Seq(Stretch)
      BY <1>1, <1>2, GapsType
<1>4. /\ Ordered(s, InTurn)
      /\ Times(ToSet(s)) = (e.at..EndOf(e) - 1) \ Times(ToSet(HitOf(e, cuts)))
      /\ \A r \in ToSet(s) : e.at <= r.from /\ r.from < r.to /\ r.to <= EndOf(e)
      BY <1>1, <1>2, GapsFacts
<1>5. left = [i \in DOMAIN s |-> SourceOf(e, s[i])] /\ left \in Seq(Segment)
      BY LeftType DEF LeftOf, Mapped
<1> HIDE DEF s, left
<1>6. /\ DOMAIN s = 1..n /\ n \in Nat
      /\ \A i \in 1..n : /\ s[i] \in Stretch /\ s[i] \in ToSet(s)
                         /\ s[i].from \in Int /\ s[i].to \in Int /\ s[i].from <= s[i].to
                         /\ e.at <= s[i].from /\ s[i].to <= EndOf(e)
  <2>1. DOMAIN s = 1..n /\ n \in Nat /\ \A i \in 1..n : s[i] \in Stretch /\ s[i] \in ToSet(s)
        BY <1>3 DEF ToSet
  <2> QED BY <1>4, <2>1, StretchFacts
<1>7. ToSet(s) = {s[i] : i \in 1..n}
      BY <1>6 DEF ToSet
<1> HIDE DEF n
<1>8. DOMAIN left = 1..n /\ Len(left) = n /\ \A i \in 1..n : left[i] = SourceOf(e, s[i])
      BY <1>5, <1>6
<1>9. \A i \in 1..n : /\ left[i] \in Segment /\ PartOf(left[i], e)
                      /\ \A f : f \in Shots(left[i]) <=> \E t \in s[i].from..s[i].to - 1 : f = old[t + 1]
      BY <1>6, <1>8, SourceShots
<1>10. ASSUME NEW f
       PROVE  f \in Footage(ToSet(left)) <=> \E t \in (e.at..EndOf(e) - 1) \ Times(ToSet(cuts)) : f = old[t + 1]
  <2>1. f \in Footage(ToSet(left)) <=> \E i \in 1..n : f \in Shots(left[i])
        BY <1>5, <1>8, FootageOfSeq
  <2>2. \A t : t \in Times(ToSet(s)) <=> \E i \in 1..n : t \in s[i].from..s[i].to - 1
        BY <1>7, TimesOf
  <2>3. \A t : t \in Times(ToSet(s)) <=> t \in (e.at..EndOf(e) - 1) \ Times(ToSet(cuts))
        BY <1>2, <1>4
  <2> QED BY <1>9, <2>1, <2>2, <2>3, ZenonT(40)
<1>11. ASSUME NEW i \in 1..n, NEW j \in 1..n, i < j PROVE <<left[i], left[j]>> \in Sooner
  <2>1. s[i].to <= s[j].from
        BY <1>4, <1>6, <1>11, InTurnFacts DEF Ordered
  <2>2. \A k \in 1..n : /\ left[k].clip = e.clip /\ left[k].from = e.from + s[k].from - e.at
                        /\ left[k].to = e.from + s[k].to - e.at
    <3> TAKE k \in 1..n
    <3> DEFINE q == s[k]
    <3>1. q.from \in Int /\ q.to \in Int /\ q.from <= q.to /\ left[k] = SourceOf(e, q)
          BY <1>6, <1>8
    <3> HIDE DEF q
    <3>2. /\ SourceOf(e, q).clip = e.clip /\ SourceOf(e, q).from = e.from + q.from - e.at
          /\ SourceOf(e, q).to = e.from + q.to - e.at
          BY <3>1, SourceFacts
    <3> QED BY <3>1, <3>2 DEF q
  <2>3. left[i].to <= left[j].from /\ left[i].clip = left[j].clip
        BY <1>1, <1>6, <2>1, <2>2
  <2>4. left[i] \in Segment /\ left[j] \in Segment
        BY <1>9
  <2> DEFINE d == left[i]
             b == left[j]
  <2> HIDE DEF d, b
  <2>5. d \in Segment /\ b \in Segment /\ d.to <= b.from /\ d.clip = b.clip
        BY <2>3, <2>4 DEF d, b
  <2>6. ASSUME NEW f \in Shots(d), NEW g \in Shots(b) PROVE <<f, g>> \in FrameOrder
    <3>1. PICK t \in d.from..d.to - 1 : f = <<d.clip, t>>
          BY <2>5, ShotsFacts
    <3>2. PICK u \in b.from..b.to - 1 : g = <<b.clip, u>>
          BY <2>5, ShotsFacts
    <3>3. d.from \in Int /\ d.to \in Int /\ b.from \in Int /\ b.to \in Int /\ d.clip \in Clips
          BY <2>5, SegmentFacts
    <3>4. t \in Int /\ u \in Int /\ t < u
          BY <2>5, <3>3
    <3> QED BY <2>5, <3>1, <3>2, <3>3, <3>4, LaterFacts
  <2>7. <<d, b>> \in Sooner
        BY <2>5, <2>6, SoonerFacts DEF Across
  <2> QED BY <2>7 DEF d, b
<1>12. Ordered(left, Sooner)
       BY <1>8, <1>11 DEF Ordered
<1>13. \A p \in ToSet(left) : p \in Segment /\ PartOf(p, e)
       BY <1>8, <1>9 DEF ToSet
<1> QED BY <1>5, <1>10, <1>12, <1>13 DEF left

\* What is taken out of it is on the list.
LEMMA IslandShots ==
  ASSUME NEW e \in Segment, NEW cuts \in Seq(Stretch), Ordered(cuts, InTurn), NEW old, Shows(e, old)
  PROVE  /\ IslandsOf(e, cuts) \in Seq(Island)
         /\ \A f : f \in Footage(ToSet(IslandsOf(e, cuts))) <=>
                     \E t \in (e.at..EndOf(e) - 1) \cap Times(ToSet(cuts)) : f = old[t + 1]
<1> DEFINE s == HitOf(e, cuts)
           n == Len(s)
           islands == IslandsOf(e, cuts)
           island(r) == [key |-> <<"feedback", e.clip, r.from, r.to>>, clip |-> e.clip,
                         from |-> SourceOf(e, r).from, to |-> SourceOf(e, r).to]
<1>1. /\ s \in Seq(Stretch)
      /\ \A r \in ToSet(s) : e.at <= r.from /\ r.from < r.to /\ r.to <= EndOf(e)
      /\ Times(ToSet(s)) = (e.at..EndOf(e) - 1) \cap Times(ToSet(cuts))
      BY HitFacts, HitExact
<1>2. islands = [i \in DOMAIN s |-> island(s[i])] /\ islands \in Seq(Island)
      BY IslandsFacts DEF IslandsOf, Mapped
<1> HIDE DEF s, islands
<1>3. /\ DOMAIN s = 1..n /\ n \in Nat
      /\ \A i \in 1..n : /\ s[i].from \in Int /\ s[i].to \in Int /\ s[i].from <= s[i].to
                         /\ e.at <= s[i].from /\ s[i].to <= EndOf(e)
  <2>1. DOMAIN s = 1..n /\ n \in Nat /\ \A i \in 1..n : s[i] \in Stretch /\ s[i] \in ToSet(s)
        BY <1>1 DEF ToSet
  <2> QED BY <1>1, <2>1, StretchFacts
<1>4. ToSet(s) = {s[i] : i \in 1..n}
      BY <1>3 DEF ToSet
<1> HIDE DEF n
<1>5. DOMAIN islands = 1..n /\ Len(islands) = n /\ \A i \in 1..n : islands[i] = island(s[i])
      BY <1>2, <1>3
<1>6. ASSUME NEW i \in 1..n
      PROVE  \A f : f \in Shots(islands[i]) <=> \E t \in s[i].from..s[i].to - 1 : f = old[t + 1]
  <2>1. \A f : f \in Shots(SourceOf(e, s[i])) <=> \E t \in s[i].from..s[i].to - 1 : f = old[t + 1]
        BY <1>3, SourceShots
  <2>2. SourceOf(e, s[i]).clip = e.clip
        BY <1>3, SourceFacts
  <2>3. Shots(islands[i]) = Shots(SourceOf(e, s[i]))
    <3>1. /\ islands[i].clip = e.clip /\ islands[i].from = SourceOf(e, s[i]).from
          /\ islands[i].to = SourceOf(e, s[i]).to
          BY <1>5
    <3> QED BY <2>2, <3>1 DEF Shots
  <2> QED BY <2>1, <2>3
<1>7. ASSUME NEW f
      PROVE  f \in Footage(ToSet(islands)) <=> \E t \in (e.at..EndOf(e) - 1) \cap Times(ToSet(cuts)) : f = old[t + 1]
  <2>1. f \in Footage(ToSet(islands)) <=> \E i \in 1..n : f \in Shots(islands[i])
        BY <1>2, <1>5, FootageOfSeq
  <2>2. \A t : t \in Times(ToSet(s)) <=> \E i \in 1..n : t \in s[i].from..s[i].to - 1
        BY <1>4, TimesOf
  <2> QED BY <1>1, <1>6, <2>1, <2>2, ZenonT(40)
<1> QED BY <1>2, <1>7 DEF islands

LEMMA LaterOneWay ==
  ASSUME NEW f, NEW g, <<f, g>> \in FrameOrder
  PROVE  <<g, f>> \notin FrameOrder
<1> DEFINE p == <<f, g>>
           q == <<g, f>>
<1>1. p[1] = f /\ p[2] = g /\ q[1] = g /\ q[2] = f
      OBVIOUS
<1> HIDE DEF p, q
<1>2. p \in FrameOrder
      BY DEF p
<1>3. f \in Frame /\ g \in Frame /\ (f[1] < g[1] \/ (f[1] = g[1] /\ f[2] < g[2]))
      BY <1>1, <1>2 DEF FrameOrder
<1>4. f[1] \in Int /\ f[2] \in Int /\ g[1] \in Int /\ g[2] \in Int
      BY <1>3, ClipsFacts DEF Frame
<1>5. q \notin FrameOrder
      BY <1>1, <1>3, <1>4 DEF FrameOrder
<1> QED BY <1>5 DEF q

\* Frames in order are known by what they are.
LEMMA OrderedPrefix ==
  ASSUME NEW s \in Seq(Frame), NEW t \in Seq(Frame), Ordered(s, FrameOrder), Ordered(t, FrameOrder), ToSet(s) = ToSet(t)
  PROVE  Len(s) <= Len(t) /\ \A i \in 1..Len(s) : s[i] = t[i]
<1> DEFINE n == Len(s)
           m == Len(t)
           Right == {i \in 0..n : i <= m /\ \A j \in 1..i : s[j] = t[j]}
<1>1. n \in Nat /\ m \in Nat /\ DOMAIN s = 1..n /\ DOMAIN t = 1..m
      OBVIOUS
<1>2. ToSet(s) = {s[i] : i \in 1..n} /\ ToSet(t) = {t[i] : i \in 1..m}
      BY <1>1 DEF ToSet
<1>3. /\ \A i, j \in 1..n : s[i] = s[j] => i = j
      /\ \A i, j \in 1..m : t[i] = t[j] => i = j
      BY <1>1, OrderedOnce
<1>4. /\ \A i, j \in 1..n : i < j => <<s[i], s[j]>> \in FrameOrder
      /\ \A i, j \in 1..m : i < j => <<t[i], t[j]>> \in FrameOrder
      BY <1>1 DEF Ordered
<1> HIDE DEF n, m
<1>5. ASSUME NEW i \in 1..n, i - 1 \in Right PROVE i \in Right
  <2>1. i - 1 <= m /\ \A j \in 1..(i - 1) : s[j] = t[j]
        BY <1>5
  <2>2. PICK k \in 1..m : s[i] = t[k]
        BY <1>2
  <2>3. k >= i
    <3>1. CASE k < i
      <4>1. k \in 1..(i - 1) /\ k \in 1..n
            BY <1>1, <3>1
      <4>2. s[k] = s[i]
            BY <2>1, <2>2, <4>1
      <4> QED BY <1>3, <3>1, <4>1, <4>2
    <3> QED BY <1>1, <3>1
  <2>4. i \in 1..m /\ i <= m
        BY <1>1, <2>3
  <2>5. k = i
    <3> SUFFICES ASSUME i < k PROVE FALSE
        BY <1>1, <2>3
    <3>1. <<t[i], s[i]>> \in FrameOrder
          BY <1>4, <2>2, <2>4
    <3>2. PICK x \in 1..n : t[i] = s[x]
          BY <1>2, <2>4
    <3>3. CASE x < i
      <4>1. x \in 1..(i - 1) /\ x \in 1..m
            BY <1>1, <2>4, <3>3
      <4>2. t[x] = t[i]
            BY <2>1, <3>2, <4>1
      <4> QED BY <1>3, <2>4, <3>3, <4>1, <4>2
    <3>4. CASE x = i
          BY <1>3, <2>2, <2>4, <3>2, <3>4
    <3>5. CASE i < x
      <4>1. <<s[i], t[i]>> \in FrameOrder
            BY <1>4, <3>2, <3>5
      <4> QED BY <3>1, <4>1, LaterOneWay
    <3> QED BY <1>1, <3>3, <3>4, <3>5
  <2>6. \A j \in 1..i : j \in 1..(i - 1) \/ j = i
        BY <1>1
  <2> QED BY <1>1, <2>1, <2>2, <2>4, <2>5, <2>6
<1>6. Right = 0..n
  <2>1. Right \in SUBSET (0..n) /\ 0 \in Right
        BY <1>1
  <2> HIDE DEF Right
  <2> QED BY <1>1, <1>5, <2>1, PrefixInduction
<1>7. n \in Right
      BY <1>1, <1>6
<1> QED BY <1>7 DEF n, m

LEMMA OrderedSame ==
  ASSUME NEW s \in Seq(Frame), NEW t \in Seq(Frame), Ordered(s, FrameOrder), Ordered(t, FrameOrder), ToSet(s) = ToSet(t)
  PROVE  s = t
<1>1. Len(s) <= Len(t) /\ \A i \in 1..Len(s) : s[i] = t[i]
      BY OrderedPrefix
<1>2. Len(t) <= Len(s)
      BY OrderedPrefix
<1>3. Len(s) = Len(t)
      BY <1>1, <1>2
<1> QED BY <1>1, <1>3

\* Every frame of a program lies in an edit.
LEMMA EditsCover ==
  ASSUME NEW s \in Seq(Segment), Contiguous(s)
  PROVE  \A t : t \in 0..Len(FramesOf(s)) - 1 <=> \E i \in 1..Len(s) : t \in s[i].at..EndOf(s[i]) - 1
<1> DEFINE n == Len(s)
           m == Len(FramesOf(s))
<1>1. /\ n \in Nat /\ DOMAIN s = 1..n
      /\ \A i \in 1..n : /\ s[i].at \in Int /\ s[i].from \in Int /\ s[i].to \in Int
                         /\ EndOf(s[i]) \in Int
      BY SegmentFacts DEF EndOf
<1>2. m = LengthOf(s) /\ (\A i \in 1..n : 0 <= s[i].at /\ EndOf(s[i]) <= m) /\ m \in Nat
  <2>1. FramesOf(s) \in Seq(Frame)
        BY FramesType
  <2>2. \A i \in 1..Len(s) : Shows(s[i], FramesOf(s))
        BY ContiguousShows
  <2>3. m = LengthOf(s)
        BY ContiguousShows
  <2>4. m \in Nat
        BY <2>1
  <2> QED BY <2>2, <2>3, <2>4 DEF Shows
<1>3. \A i \in 1..n : s[i].at = (IF i = 1 THEN 0 ELSE EndOf(s[i - 1]))
      BY <1>1 DEF Contiguous
<1>4. n # 0 => m = EndOf(s[n])
      BY <1>2 DEF LengthOf, Last, EndOf
<1>5. n = 0 => m = 0
      BY <1>2 DEF LengthOf
<1> HIDE DEF n, m
<1>6. ASSUME NEW i \in 1..n, NEW t \in s[i].at..EndOf(s[i]) - 1 PROVE t \in 0..m - 1
      BY <1>1, <1>2
<1>7. ASSUME NEW t \in 0..m - 1 PROVE \E i \in 1..n : t \in s[i].at..EndOf(s[i]) - 1
  <2> DEFINE After == {i \in 1..n : t < EndOf(s[i])}
  <2>1. n # 0
        BY <1>2, <1>5
  <2>2. After \in SUBSET Nat /\ n \in After
        BY <1>1, <1>2, <1>4, <2>1
  <2>3. PICK i \in After : \A j \in After : i <= j
    <3>1. After # {}
          BY <2>2
    <3> HIDE DEF After
    <3> QED BY <2>2, <3>1, LeastNumber
  <2>4. s[i].at <= t
    <3>1. CASE i = 1
          BY <1>2, <1>3, <3>1
    <3>2. CASE i # 1
      <4> DEFINE j == i - 1
      <4>1. j \in 1..n /\ j < i /\ s[i].at = EndOf(s[j])
            BY <1>1, <1>3, <3>2
      <4>2. j \notin After
            BY <1>1, <2>3, <4>1
      <4> HIDE DEF j
      <4>3. ~(t < EndOf(s[j]))
            BY <4>1, <4>2
      <4> QED BY <1>1, <1>2, <4>1, <4>3
    <3> QED BY <3>1, <3>2
  <2> QED BY <1>1, <1>2, <2>4
<1> QED BY <1>6, <1>7 DEF n, m

LEMMA PlanProgram ==
  ASSUME NEW l \in List, Sound(l), NEW cuts \in Seq(Stretch), Ordered(cuts, InTurn)
  PROVE  LET old == FramesOf(l.edits)
             edits == FlattenSeq(Mapped(l.edits, LAMBDA e : LeftOf(e, cuts)))
             removed == FlattenSeq(Mapped(l.edits, LAMBDA e : IslandsOf(e, cuts)))
         IN  /\ edits \in Seq(Segment) /\ Ordered(edits, Sooner) /\ Traced(edits, old, {})
             /\ \A f : f \in Footage(ToSet(edits)) <=>
                         \E t \in (0..Len(old) - 1) \ Times(ToSet(cuts)) : f = old[t + 1]
             /\ removed \in Seq(Island)
             /\ \A f : f \in Footage(ToSet(removed)) <=>
                         \E t \in (0..Len(old) - 1) \cap Times(ToSet(cuts)) : f = old[t + 1]
<1> DEFINE old == FramesOf(l.edits)
           s == l.edits
           n == Len(s)
           ss == [i \in DOMAIN s |-> LeftOf(s[i], cuts)]
           rr == [i \in DOMAIN s |-> IslandsOf(s[i], cuts)]
           edits == FlattenSeq(ss)
           removed == FlattenSeq(rr)
<1>1. s \in Seq(Segment) /\ Contiguous(s) /\ Ordered(old, FrameOrder)
      BY ListFacts DEF Sound
<1>2. /\ n \in Nat /\ DOMAIN s = 1..n /\ \A i \in 1..n : s[i] \in Segment /\ Shows(s[i], old) /\ ~s[i].new
      BY <1>1, ContiguousShows DEF Contiguous
<1>3. Ordered(s, Sooner) /\ Len(old) \in Nat
      BY <1>1, EditsInTurn, ContiguousTraced
<1>4. \A t : t \in 0..Len(old) - 1 <=> \E i \in 1..n : t \in s[i].at..EndOf(s[i]) - 1
      BY <1>1, EditsCover
<1>5. /\ edits = FlattenSeq(Mapped(l.edits, LAMBDA e : LeftOf(e, cuts)))
      /\ removed = FlattenSeq(Mapped(l.edits, LAMBDA e : IslandsOf(e, cuts)))
      BY DEF Mapped
<1> HIDE DEF s, n, old
<1>6. \A i \in 1..n : /\ LeftOf(s[i], cuts) \in Seq(Segment) /\ Ordered(LeftOf(s[i], cuts), Sooner)
                      /\ \A p \in ToSet(LeftOf(s[i], cuts)) : p \in Segment /\ PartOf(p, s[i])
                      /\ \A f : f \in Footage(ToSet(LeftOf(s[i], cuts))) <=>
                                  \E t \in (s[i].at..EndOf(s[i]) - 1) \ Times(ToSet(cuts)) : f = old[t + 1]
      BY <1>2, LeftFacts
<1>7. \A i \in 1..n : /\ IslandsOf(s[i], cuts) \in Seq(Island)
                      /\ \A f : f \in Footage(ToSet(IslandsOf(s[i], cuts))) <=>
                                  \E t \in (s[i].at..EndOf(s[i]) - 1) \cap Times(ToSet(cuts)) : f = old[t + 1]
      BY <1>2, IslandShots, SMTT(30)
<1>8. /\ ss \in Seq(Seq(Segment)) /\ Len(ss) = n /\ \A i \in 1..n : ss[i] = LeftOf(s[i], cuts)
      /\ rr \in Seq(Seq(Island)) /\ Len(rr) = n /\ \A i \in 1..n : rr[i] = IslandsOf(s[i], cuts)
      BY <1>2, <1>6, <1>7
<1> HIDE DEF ss, rr
<1>9. /\ edits \in Seq(Segment) /\ ToSet(edits) = UNION {ToSet(ss[i]) : i \in 1..n}
      /\ removed \in Seq(Island) /\ ToSet(removed) = UNION {ToSet(rr[i]) : i \in 1..n}
      BY <1>8, FlattenFacts
<1>10. Ordered(edits, Sooner)
  <2>1. ASSUME NEW i \in 1..n, NEW j \in 1..n, i < j PROVE Across(ToSet(ss[i]), ToSet(ss[j]), Sooner)
    <3>1. <<s[i], s[j]>> \in Sooner
          BY <1>2, <1>3, <2>1 DEF Ordered
    <3>2. Across(Shots(s[i]), Shots(s[j]), FrameOrder)
          BY <1>2, <3>1, SoonerFacts
    <3>3. ASSUME NEW d \in ToSet(ss[i]), NEW e \in ToSet(ss[j]) PROVE <<d, e>> \in Sooner
      <4>1. d \in Segment /\ PartOf(d, s[i]) /\ e \in Segment /\ PartOf(e, s[j])
            BY <1>6, <1>8
      <4>2. Shots(d) \subseteq Shots(s[i]) /\ Shots(e) \subseteq Shots(s[j])
            BY <1>2, <4>1, PartFrames
      <4>3. Across(Shots(d), Shots(e), FrameOrder)
            BY <3>2, <4>2 DEF Across
      <4> QED BY <4>1, <4>3, SoonerFacts
    <3> QED BY <3>3 DEF Across
  <2>2. \A i \in 1..n : Ordered(ss[i], Sooner)
        BY <1>6, <1>8
  <2> QED BY <1>8, <2>1, <2>2, OrderedFlatten
<1> HIDE DEF edits, removed
<1>11. Traced(edits, old, {})
  <2>1. ASSUME NEW p \in ToSet(edits) PROVE ~p.new /\ Shows(p, old)
    <3>1. PICK i \in 1..n : p \in ToSet(ss[i])
          BY <1>9
    <3>2. p \in Segment /\ PartOf(p, s[i]) /\ s[i] \in Segment /\ Shows(s[i], old) /\ ~s[i].new
          BY <1>2, <1>6, <1>8, <3>1
    <3> QED BY <1>3, <3>2, PartFrames
  <2> QED BY <2>1 DEF Traced
<1>12. ASSUME NEW f
       PROVE  /\ f \in Footage(ToSet(edits)) <=> \E i \in 1..n : f \in Footage(ToSet(ss[i]))
              /\ f \in Footage(ToSet(removed)) <=> \E i \in 1..n : f \in Footage(ToSet(rr[i]))
  <2>1. \A P : Footage(P) = UNION {Shots(p) : p \in P}
        BY FootageOfParts
  <2>2. f \in Footage(ToSet(edits)) <=> \E i \in 1..n : f \in Footage(ToSet(ss[i]))
        BY <1>9, <2>1
  <2>3. f \in Footage(ToSet(removed)) <=> \E i \in 1..n : f \in Footage(ToSet(rr[i]))
        BY <1>9, <2>1
  <2> QED BY <2>2, <2>3
<1>13. ASSUME NEW f
       PROVE  f \in Footage(ToSet(edits)) <=> \E t \in (0..Len(old) - 1) \ Times(ToSet(cuts)) : f = old[t + 1]
  <2> DEFINE G == Times(ToSet(cuts))
             D(i) == s[i].at..EndOf(s[i]) - 1
             F(i) == Footage(ToSet(ss[i]))
  <2>1. \A i \in 1..n : f \in F(i) <=> \E t \in D(i) \ G : f = old[t + 1]
        BY <1>6, <1>8
  <2>2. f \in Footage(ToSet(edits)) <=> \E i \in 1..n : f \in F(i)
        BY <1>12
  <2>3. \A t : t \in 0..Len(old) - 1 <=> \E i \in 1..n : t \in D(i)
        BY <1>4
  <2> HIDE DEF G, D, F
  <2>4. ASSUME f \in Footage(ToSet(edits))
        PROVE  \E t \in (0..Len(old) - 1) \ G : f = old[t + 1]
    <3>1. PICK i \in 1..n : f \in F(i)
          BY <2>2, <2>4
    <3>2. PICK t \in D(i) \ G : f = old[t + 1]
          BY <2>1, <3>1
    <3> QED BY <2>3, <3>2
  <2>5. ASSUME NEW t \in (0..Len(old) - 1) \ G, f = old[t + 1]
        PROVE  f \in Footage(ToSet(edits))
    <3>1. PICK i \in 1..n : t \in D(i)
          BY <2>3
    <3>2. f \in F(i)
          BY <2>1, <2>5, <3>1
    <3> QED BY <2>2, <3>2
  <2> QED BY <2>4, <2>5 DEF G
<1>14. ASSUME NEW f
       PROVE  f \in Footage(ToSet(removed)) <=> \E t \in (0..Len(old) - 1) \cap Times(ToSet(cuts)) : f = old[t + 1]
  <2> DEFINE G == Times(ToSet(cuts))
             D(i) == s[i].at..EndOf(s[i]) - 1
             F(i) == Footage(ToSet(rr[i]))
  <2>1. \A i \in 1..n : f \in F(i) <=> \E t \in D(i) \cap G : f = old[t + 1]
        BY <1>7, <1>8
  <2>2. f \in Footage(ToSet(removed)) <=> \E i \in 1..n : f \in F(i)
        BY <1>12
  <2>3. \A t : t \in 0..Len(old) - 1 <=> \E i \in 1..n : t \in D(i)
        BY <1>4
  <2> HIDE DEF G, D, F
  <2>4. ASSUME f \in Footage(ToSet(removed))
        PROVE  \E t \in (0..Len(old) - 1) \cap G : f = old[t + 1]
    <3>1. PICK i \in 1..n : f \in F(i)
          BY <2>2, <2>4
    <3>2. PICK t \in D(i) \cap G : f = old[t + 1]
          BY <2>1, <3>1
    <3> QED BY <2>3, <3>2
  <2>5. ASSUME NEW t \in (0..Len(old) - 1) \cap G, f = old[t + 1]
        PROVE  f \in Footage(ToSet(removed))
    <3>1. PICK i \in 1..n : t \in D(i)
          BY <2>3
    <3>2. f \in F(i)
          BY <2>1, <2>5, <3>1
    <3> QED BY <2>2, <3>2
  <2> QED BY <2>4, <2>5 DEF G
<1> QED BY <1>5, <1>9, <1>10, <1>11, <1>13, <1>14 DEF old

-----------------------------------------------------------------------------
(* The lists that assembly, a review and a plan write.                     *)

LEMMA AssembledSound ==
  ASSUME CutsInClips, NEW heard \in Heard
  PROVE  Sound(Assembled(heard))
<1> DEFINE of(k) == Mapped(ByStart(heard.cuts[k]), LAMBDA r : IslandOf(k, r))
           ss == [k \in Clips |-> of(k)]
           edits == LinearEdits(heard.turns)
           cuts == FlattenSeq(ss)
<1>1. Assembled(heard).edits = edits /\ Assembled(heard).cuts = cuts /\ Assembled(heard).overlays = {}
      BY DEF Assembled
<1>2. Assembled(heard) \in List /\ Contiguous(edits)
      BY <1>1, AssembledFacts
<1>3. Ordered(FramesOf(edits), FrameOrder) /\ Footage(ToSet(edits)) \subseteq Within
  <2>1. \A k \in Clips : /\ heard.turns[k] \in SUBSET Stretch /\ IsFiniteSet(heard.turns[k])
                         /\ \A r \in heard.turns[k] : r.from >= 0
    <3>1. \A k \in Clips : \A r \in heard.turns[k] : r.from >= 0
          BY HeardAssumption
    <3> QED BY <3>1, HeardFacts
  <2> QED BY <2>1, LinearEditsSound
<1>4. ASSUME NEW k \in Clips
      PROVE  of(k) \in Seq(Island) /\ \A c \in ToSet(of(k)) : Shots(c) \subseteq Within
  <2> DEFINE s == ByStart(heard.cuts[k])
  <2>1. s \in Seq(Stretch) /\ ToSet(s) = heard.cuts[k]
        BY HeardFacts, ByStartFacts
  <2>2. of(k) = [i \in DOMAIN s |-> IslandOf(k, s[i])]
        BY DEF Mapped
  <2> HIDE DEF s, of
  <2>3. /\ DOMAIN s = 1..Len(s) /\ Len(s) \in Nat
        /\ \A i \in 1..Len(s) : s[i] \in Stretch /\ s[i] \in heard.cuts[k]
        BY <2>1 DEF ToSet
  <2>4. \A i \in 1..Len(s) : IslandOf(k, s[i]) \in Island
        BY <2>3, IslandOfType
  <2>5. of(k) \in Seq(Island)
        BY <2>2, <2>3, <2>4
  <2>6. ToSet(of(k)) = {IslandOf(k, s[i]) : i \in 1..Len(s)}
        BY <2>2, <2>3 DEF ToSet
  <2>7. ASSUME NEW i \in 1..Len(s) PROVE Shots(IslandOf(k, s[i])) \subseteq Within
    <3>1. s[i].from \in Int /\ s[i].to \in Int /\ 0 <= s[i].from /\ s[i].to <= Lengths[k]
          BY <2>3, StretchFacts, HeardAssumption DEF CutsInClips
    <3>2. Lengths[k] \in Nat
          BY ClipsFacts
    <3>3. \A n \in s[i].from..s[i].to - 1 : n \in 0..Lengths[k] - 1
          BY <3>1, <3>2
    <3>4. \A n \in s[i].from..s[i].to - 1 : <<k, n>> \in Within
          BY <3>3, WithinFacts
    <3>5. Shots(IslandOf(k, s[i])) = {<<k, n>> : n \in s[i].from..s[i].to - 1}
          BY DEF Shots, IslandOf
    <3> QED BY <3>4, <3>5
  <2> QED BY <2>5, <2>6, <2>7
<1>5. ss \in Seq(Seq(Island)) /\ Len(ss) = Len(Lengths) /\ \A k \in Clips : ss[k] = of(k)
  <2> HIDE DEF of
  <2> QED BY <1>4, ClipsFacts
<1> HIDE DEF ss, of
<1>6. ToSet(cuts) = UNION {ToSet(ss[i]) : i \in 1..Len(Lengths)}
      BY <1>5, FlattenFacts
<1>7. \A c \in ToSet(cuts) : Shots(c) \subseteq Within
      BY <1>4, <1>5, <1>6, ClipsFacts
<1> HIDE DEF edits, cuts
<1>8. Footage(ToSet(cuts)) \subseteq Within
      BY <1>7, FootageOfParts
<1> QED BY <1>1, <1>2, <1>3, <1>8 DEF Sound

\* An extra cut lies in its clip.
LEMMA ExtraWithin ==
  ASSUME NEW l \in List, NEW o \in Overrides(l)
  PROVE  Footage(o.extra) \subseteq Within
<1>1. ASSUME NEW x \in ExtraCuts PROVE Shots(x) \subseteq Within
  <2>1. PICK k \in Clips : \E s \in Spans(Lengths[k]) : x = [clip |-> k, from |-> s.from, to |-> s.to]
        BY <1>1 DEF ExtraCuts
  <2>2. PICK s \in Spans(Lengths[k]) : x = [clip |-> k, from |-> s.from, to |-> s.to]
        BY <2>1
  <2>3. Lengths[k] \in Nat
        BY ClipsFacts
  <2>4. s.from \in 0..Lengths[k] /\ s.to \in 0..Lengths[k]
        BY DEF Spans
  <2>5. \A n \in s.from..s.to - 1 : n \in 0..Lengths[k] - 1
        BY <2>3, <2>4
  <2>6. \A n \in s.from..s.to - 1 : <<k, n>> \in Within
        BY <2>5, WithinFacts
  <2>7. Shots(x) = {<<k, n>> : n \in s.from..s.to - 1}
        BY <2>2 DEF Shots
  <2> QED BY <2>6, <2>7
<1>2. o.extra \subseteq ExtraCuts
      BY DEF Overrides
<1> QED BY <1>1, <1>2, FootageOfParts

LEMMA NoneWithin == Footage(NoOverrides.extra) \subseteq Within
  BY FootageOfParts DEF NoOverrides

\* What a plan leaves of a program, and what its B-roll covers.
LeftIn(old, gone) == {old[t + 1] : t \in (0..Len(old) - 1) \ gone}
AskedIn(old, ops) == UNION {{<<old[t + 1], t - o.from>> : t \in o.from..o.to - 1} : o \in OpsOf(ops, "broll")}

\* A draft is the program without what is gone, its overlays where they were or were put.
Follows(draft, l, gone, ops) ==
  LET old == FramesOf(l.edits)
      left == LeftIn(old, gone)
  IN /\ FramesOf(draft.edits) = Filtered(old, left)
     /\ CoveredOf(draft) = {c \in CoveredOf(l) \cup AskedIn(old, ops) : c[1] \in left}
     /\ Footage(ToSet(l.cuts)) \cup (ToSet(old) \ left) \subseteq Footage(ToSet(draft.cuts))

LEMMA AskedCover ==
  ASSUME NEW old, NEW ops \in SUBSET PlanOp
  PROVE  CoverOf(old, {[from |-> o.from, to |-> o.to, source |-> 0] : o \in OpsOf(ops, "broll")}) = AskedIn(old, ops)
<1> DEFINE asked == {[from |-> o.from, to |-> o.to, source |-> 0] : o \in OpsOf(ops, "broll")}
<1>1. \A x : x \in CoverOf(old, asked) <=>
               \E a \in asked : \E t \in a.from..a.to - 1 : x = <<old[t + 1], a.source + t - a.from>>
      BY CoverFacts
<1>2. \A x : x \in AskedIn(old, ops) <=>
               \E o \in OpsOf(ops, "broll") : \E t \in o.from..o.to - 1 : x = <<old[t + 1], t - o.from>>
      BY DEF AskedIn
<1>3. \A o \in OpsOf(ops, "broll") : o.from \in Int /\ o.to \in Int
      BY PlanOpFacts DEF OpsOf
<1>4. \A a \in asked : \E o \in OpsOf(ops, "broll") : a.from = o.from /\ a.to = o.to /\ a.source = 0
      OBVIOUS
<1>5. \A o \in OpsOf(ops, "broll") : \E a \in asked : a.from = o.from /\ a.to = o.to /\ a.source = 0
  <2> TAKE o \in OpsOf(ops, "broll")
  <2>1. [from |-> o.from, to |-> o.to, source |-> 0] \in asked
        OBVIOUS
  <2> QED BY <2>1
<1> HIDE DEF asked
<1>6. ASSUME NEW o \in OpsOf(ops, "broll"), NEW t \in o.from..o.to - 1 PROVE 0 + t - o.from = t - o.from
      BY <1>3
<1>7. ASSUME NEW x \in CoverOf(old, asked) PROVE x \in AskedIn(old, ops)
  <2>1. PICK a \in asked : \E t \in a.from..a.to - 1 : x = <<old[t + 1], a.source + t - a.from>>
        BY <1>1
  <2>2. PICK t \in a.from..a.to - 1 : x = <<old[t + 1], a.source + t - a.from>>
        BY <2>1
  <2>3. PICK o \in OpsOf(ops, "broll") : a.from = o.from /\ a.to = o.to /\ a.source = 0
        BY <1>4
  <2>4. t \in o.from..o.to - 1 /\ a.source + t - a.from = t - o.from
        BY <1>6, <2>3
  <2> QED BY <1>2, <2>2, <2>4
<1>8. ASSUME NEW x \in AskedIn(old, ops) PROVE x \in CoverOf(old, asked)
  <2>1. PICK o \in OpsOf(ops, "broll") : \E t \in o.from..o.to - 1 : x = <<old[t + 1], t - o.from>>
        BY <1>2
  <2>2. PICK t \in o.from..o.to - 1 : x = <<old[t + 1], t - o.from>>
        BY <2>1
  <2>3. PICK a \in asked : a.from = o.from /\ a.to = o.to /\ a.source = 0
        BY <1>5
  <2>4. t \in a.from..a.to - 1 /\ a.source + t - a.from = t - o.from
        BY <1>6, <2>3
  <2> QED BY <1>1, <2>2, <2>4
<1> QED BY <1>7, <1>8 DEF asked

LEMMA Carried ==
  ASSUME NEW old \in Seq(Frame), Ordered(old, FrameOrder), NEW new \in Seq(Frame),
         NEW overlays \in SUBSET Overlay, \A o \in overlays : OnTimeline(o, Len(old)),
         NEW moves \in SUBSET Moves, \A m \in moves : Moved(m, old, new),
         NEW left, {old[t + 1] : t \in Times(moves)} = left
  PROVE  CarriedTo(new, old, overlays, moves, left)
<1>1. CarriedTo(new, old, overlays, moves, {old[t + 1] : t \in Times(moves)})
      BY RemapCover
<1> QED BY <1>1

\* The parts a plan leaves, packed, and the overlays carried along.
LEMMA PlanFollows ==
  ASSUME NEW l \in List, Sound(l), NEW range, range.from \in Int, range.to \in Int,
         NEW ops \in SUBSET PlanOp, IsFiniteSet(ops), Ordered(PlanCuts(range, ops), InTurn),
         \A o \in OpsOf(ops, "broll") : 0 <= o.from /\ o.to <= LengthOf(l.edits),
         ApplyPlan(l, range, ops) # NoFile
  PROVE  /\ Sound(ApplyPlan(l, range, ops))
         /\ Follows(ApplyPlan(l, range, ops), l, Times(ToSet(PlanCuts(range, ops))), ops)
<1> DEFINE cuts == PlanCuts(range, ops)
           gone == Times(ToSet(cuts))
           old == FramesOf(l.edits)
           left == LeftIn(old, gone)
           edits == FlattenSeq(Mapped(l.edits, LAMBDA e : LeftOf(e, cuts)))
           removed == FlattenSeq(Mapped(l.edits, LAMBDA e : IslandsOf(e, cuts)))
           asked == {[from |-> o.from, to |-> o.to, source |-> 0] : o \in OpsOf(ops, "broll")}
           moves == Mapping(edits)
           new == FramesOf(edits)
           draft == [edits |-> Packed(edits), cuts |-> l.cuts \o removed,
                     overlays |-> Remapped(l.overlays, moves) \cup Remapped(asked, moves)]
<1>1. ApplyPlan(l, range, ops) = draft
      BY DEF ApplyPlan
<1>2. /\ edits \in Seq(Segment) /\ Ordered(edits, Sooner) /\ Traced(edits, old, {})
      /\ \A f : f \in Footage(ToSet(edits)) <=> \E t \in (0..Len(old) - 1) \ gone : f = old[t + 1]
      /\ removed \in Seq(Island)
      /\ \A f : f \in Footage(ToSet(removed)) <=> \E t \in (0..Len(old) - 1) \cap gone : f = old[t + 1]
  <2>1. cuts \in Seq(Stretch) /\ Ordered(cuts, InTurn)
        BY PlanCutsType
  <2> HIDE DEF cuts
  <2> QED BY <2>1, PlanProgram
<1>3. /\ draft.edits = Packed(edits) /\ draft.cuts = l.cuts \o removed
      /\ draft.overlays = Remapped(l.overlays, moves) \cup Remapped(asked, moves)
      OBVIOUS
<1>4. \A f : f \in left <=> \E t \in (0..Len(old) - 1) \ gone : f = old[t + 1]
      BY DEF LeftIn
<1>5. /\ old \in Seq(Frame) /\ Ordered(old, FrameOrder) /\ Len(old) = LengthOf(l.edits)
      /\ ToSet(old) = Footage(ToSet(l.edits)) /\ ToSet(old) \subseteq Within
      /\ Footage(ToSet(l.cuts)) \subseteq Within
      /\ l.cuts \in Seq(Island) /\ l.overlays \in SUBSET Overlay
      /\ \A o \in l.overlays : OnTimeline(o, Len(old))
  <2>1. l.edits \in Seq(Segment) /\ Contiguous(l.edits)
        BY ListFacts DEF Sound
  <2> QED BY <2>1, ListFacts, FramesType, FramesFacts, ContiguousShows DEF Sound, OnTimeline
<1>6. asked \in SUBSET Overlay /\ \A o \in asked : OnTimeline(o, Len(old))
  <2>1. \A o \in OpsOf(ops, "broll") : /\ o.from \in Int /\ o.to \in Int /\ o.from <= o.to
                                       /\ 0 <= o.from /\ o.to <= Len(old)
        BY <1>5, PlanOpFacts DEF OpsOf
  <2> HIDE DEF old
  <2> QED BY <2>1 DEF Overlay, Forward, OnTimeline
<1>7. CoverOf(old, asked) = AskedIn(old, ops)
  <2> HIDE DEF old
  <2> QED BY AskedCover
<1>8. CoveredOf(l) = CoverOf(old, l.overlays)
      BY CoveredIs
<1>9. CoveredOf(draft) = CoverOf(FramesOf(draft.edits), draft.overlays)
      BY CoveredIs
<1> HIDE DEF cuts, gone, old, left, edits, removed, asked, draft
<1>10. Footage(ToSet(edits)) = left
      BY <1>2, <1>4
<1>11. /\ new \in Seq(Frame) /\ Ordered(new, FrameOrder) /\ ToSet(new) = left
       /\ FramesOf(draft.edits) = new /\ Contiguous(draft.edits)
       /\ Footage(ToSet(draft.edits)) = left
       BY <1>2, <1>3, <1>10, FramesType, FramesInTurn, FramesFacts, PackedFrames, PackedFacts, PackedFootage
<1>12. /\ moves \in SUBSET Moves /\ \A m \in moves : Moved(m, old, new)
       /\ {old[t + 1] : t \in Times(moves)} = left
  <2>1. {old[t + 1] : t \in Times(moves)} = Footage(ToSet(edits)) \ {}
        BY <1>2, <1>5, MappingMoves
  <2> QED BY <1>2, <1>5, <1>10, <2>1, MappingMoves
<1> HIDE DEF moves, new
<1>13. left \subseteq ToSet(old)
  <2>1. \A t \in 0..Len(old) - 1 : old[t + 1] \in ToSet(old)
    <3>1. Len(old) \in Nat /\ DOMAIN old = 1..Len(old)
          BY <1>5
    <3>2. \A t \in 0..Len(old) - 1 : t + 1 \in DOMAIN old
          BY <3>1
    <3> QED BY <3>2 DEF ToSet
  <2> QED BY <1>4, <2>1
<1>14. FramesOf(draft.edits) = Filtered(old, left)
  <2>1. Filtered(old, left) \in Seq(Frame \cap left) /\ ToSet(Filtered(old, left)) = ToSet(old) \cap left
        BY <1>5, FilterFacts
  <2>2. Seq(Frame \cap left) \subseteq Seq(Frame)
        OBVIOUS
  <2>3. Filtered(old, left) \in Seq(Frame)
        BY <2>1, <2>2
  <2>4. Ordered(Filtered(old, left), FrameOrder)
        BY <1>5, OrderedFilter
  <2>5. ToSet(Filtered(old, left)) = ToSet(new)
        BY <1>11, <1>13, <2>1
  <2> QED BY <1>11, <2>3, <2>4, <2>5, OrderedSame
<1>15. ASSUME NEW overlays \in SUBSET Overlay, \A o \in overlays : OnTimeline(o, Len(old))
       PROVE  CarriedTo(new, old, overlays, moves, left)
  <2>1. old \in Seq(Frame) /\ Ordered(old, FrameOrder)
        BY <1>5
  <2>2. new \in Seq(Frame)
        BY <1>11
  <2>3. moves \in SUBSET Moves /\ \A m \in moves : Moved(m, old, new)
        BY <1>12
  <2>4. {old[t + 1] : t \in Times(moves)} = left
        BY <1>12
  <2> QED BY <1>15, <2>1, <2>2, <2>3, <2>4, Carried
<1>16. CoveredOf(draft) = {c \in CoveredOf(l) \cup AskedIn(old, ops) : c[1] \in left}
  <2> DEFINE kept == Remapped(l.overlays, moves)
             added == Remapped(asked, moves)
  <2> HIDE DEF kept, added
  <2>1. \A c : c \in CoverOf(new, kept) <=> c \in CoverOf(old, l.overlays) /\ c[1] \in left
        BY <1>5, <1>15 DEF kept, CarriedTo
  <2>2. \A c : c \in CoverOf(new, added) <=> c \in CoverOf(old, asked) /\ c[1] \in left
        BY <1>6, <1>15 DEF added, CarriedTo
  <2>3. CoverOf(new, kept \cup added) = CoverOf(new, kept) \cup CoverOf(new, added)
        BY CoverFacts
  <2>4. CoveredOf(draft) = CoverOf(new, kept \cup added)
        BY <1>3, <1>9, <1>11 DEF kept, added
  <2> QED BY <1>7, <1>8, <2>1, <2>2, <2>3, <2>4
<1>17. \A o \in draft.overlays : 0 <= o.from /\ o.to <= Len(FramesOf(draft.edits))
  <2>1. \A o \in Remapped(l.overlays, moves) : OnTimeline(o, Len(new))
        BY <1>5, <1>15 DEF CarriedTo
  <2>2. \A o \in Remapped(asked, moves) : OnTimeline(o, Len(new))
        BY <1>6, <1>15 DEF CarriedTo
  <2> QED BY <1>3, <1>11, <2>1, <2>2 DEF OnTimeline
<1>18. Footage(ToSet(draft.cuts)) = Footage(ToSet(l.cuts)) \cup Footage(ToSet(removed))
  <2>1. ToSet(draft.cuts) = ToSet(l.cuts) \cup ToSet(removed)
        BY <1>2, <1>3, <1>5, AppendedSets
  <2> QED BY <2>1, FootageOfParts
<1>19. \A f : f \in ToSet(old) => \E t \in 0..Len(old) - 1 : f = old[t + 1]
  <2> TAKE f
  <2> HAVE f \in ToSet(old)
  <2>1. Len(old) \in Nat /\ DOMAIN old = 1..Len(old)
        BY <1>5
  <2>2. PICK i \in 1..Len(old) : f = old[i]
        BY <2>1 DEF ToSet
  <2>3. i - 1 \in 0..Len(old) - 1 /\ (i - 1) + 1 = i
        BY <2>1
  <2> QED BY <2>2, <2>3
<1>20. ToSet(old) \ left \subseteq Footage(ToSet(removed))
  <2> SUFFICES ASSUME NEW f \in ToSet(old), f \notin left PROVE f \in Footage(ToSet(removed))
      OBVIOUS
  <2>1. PICK t \in 0..Len(old) - 1 : f = old[t + 1]
        BY <1>19
  <2>2. t \in gone
        BY <1>4, <2>1
  <2> QED BY <1>2, <2>1, <2>2
<1>21. Footage(ToSet(removed)) \subseteq ToSet(old)
  <2>1. Len(old) \in Nat /\ DOMAIN old = 1..Len(old)
        BY <1>5
  <2>2. \A t \in 0..Len(old) - 1 : t + 1 \in DOMAIN old
        BY <2>1
  <2> QED BY <1>2, <2>2 DEF ToSet
<1>22. Sound(draft)
  <2>1. Footage(ToSet(draft.edits)) \subseteq Within /\ Footage(ToSet(draft.cuts)) \subseteq Within
        BY <1>5, <1>11, <1>13, <1>18, <1>21
  <2> QED BY <1>11, <1>17, <2>1 DEF Sound
<1>23. Follows(draft, l, gone, ops)
  <2>1. Footage(ToSet(l.cuts)) \cup (ToSet(old) \ left) \subseteq Footage(ToSet(draft.cuts))
        BY <1>18, <1>20
  <2> QED BY <1>14, <1>16, <2>1 DEF Follows, old, left
<1> QED BY <1>1, <1>22, <1>23 DEF gone, cuts

\* Ranges apart from each other follow one another.
LEMMA ClearInTurn ==
  ASSUME NEW s \in Seq(Stretch), Ordered(s, Clear)
  PROVE  Ordered(s, InTurn)
<1>1. \A x \in ToSet(s) : x \in Stretch
      BY DEF ToSet
<1>2. \A x, y \in ToSet(s) : <<x, y>> \in Clear => <<x, y>> \in InTurn
      BY <1>1, InTurnFacts
<1> QED BY <1>2, OrderedMore

KeptTimes(c) == Times(RangesOf(c.ops, "keep"))
\* What a plan takes out: what it cuts, and what it does not keep.
CutTimes(c) ==
  Times(RangesOf(c.ops, "cut"))
    \cup (IF KeptTimes(c) = {} THEN {} ELSE (c.range.from..c.range.to - 1) \ KeptTimes(c))

LEMMA OpRanges ==
  ASSUME NEW range, NEW ops, OpsIn(range, ops), NEW op
  PROVE  /\ RangesOf(ops, op) \in SUBSET Stretch /\ IsFiniteSet(RangesOf(ops, op))
         /\ \A r \in RangesOf(ops, op) : range.from <= r.from /\ r.from < r.to /\ r.to <= range.to
         /\ OpsOf(ops, op) = {} <=> Times(RangesOf(ops, op)) = {}
<1>1. RangesOf(ops, op) \in SUBSET Stretch /\ IsFiniteSet(RangesOf(ops, op))
      BY RangesType DEF OpsIn
<1>2. \A r \in RangesOf(ops, op) : range.from <= r.from /\ r.from < r.to /\ r.to <= range.to
      BY DEF OpsIn, RangesOf, OpsOf, SpanOf
<1>3. ASSUME OpsOf(ops, op) = {} PROVE Times(RangesOf(ops, op)) = {}
      BY <1>3 DEF RangesOf, Times
<1>4. ASSUME OpsOf(ops, op) # {} PROVE Times(RangesOf(ops, op)) # {}
  <2>1. PICK o \in OpsOf(ops, op) : TRUE
        BY <1>4
  <2>2. o.from \in Int /\ o.to \in Int /\ o.from < o.to
        BY PlanOpFacts DEF OpsOf, OpsIn
  <2>3. SpanOf(o) \in RangesOf(ops, op) /\ SpanOf(o).from = o.from /\ SpanOf(o).to = o.to
        BY DEF RangesOf, SpanOf
  <2>4. o.from \in SpanOf(o).from..SpanOf(o).to - 1
        BY <2>2, <2>3
  <2>5. o.from \in Times(RangesOf(ops, op))
        BY <2>3, <2>4, TimesOf
  <2> QED BY <2>5
<1> QED BY <1>1, <1>2, <1>3, <1>4

\* What a plan does not keep of its range, in order.
LEMMA GapsKept ==
  ASSUME NEW range, NEW ops, OpsIn(range, ops)
  PROVE  LET gaps == Gaps(range, MergeRanges(RangesOf(ops, "keep"))) IN
         /\ gaps \in Seq(Stretch) /\ Ordered(gaps, InTurn)
         /\ Times(ToSet(gaps)) = (range.from..range.to - 1) \ Times(RangesOf(ops, "keep"))
         /\ \A r \in ToSet(gaps) : range.from <= r.from /\ r.from < r.to /\ r.to <= range.to
<1> DEFINE kept == RangesOf(ops, "keep")
           merged == MergeRanges(kept)
<1>1. range.from \in Int /\ range.to \in Int /\ range.from <= range.to
      BY DEF OpsIn
<1>2. kept \in SUBSET Stretch /\ IsFiniteSet(kept) /\ \A r \in kept : range.from <= r.from /\ r.to <= range.to
      BY OpRanges
<1> HIDE DEF kept
<1>3. merged \in Seq(Stretch) /\ Ordered(merged, Clear) /\ Times(ToSet(merged)) = Times(kept)
      BY <1>2, MergedFacts
<1>4. \A r \in ToSet(merged) : range.from <= r.from /\ r.to <= range.to
      BY <1>1, <1>2, MergedBounds
<1> HIDE DEF merged
<1>5. Ordered(merged, InTurn)
      BY <1>3, ClearInTurn
<1>6. Gaps(range, merged) \in Seq(Stretch)
      BY <1>1, <1>3, GapsType
<1>7. /\ Ordered(Gaps(range, merged), InTurn)
      /\ Times(ToSet(Gaps(range, merged))) = (range.from..range.to - 1) \ Times(ToSet(merged))
      /\ \A r \in ToSet(Gaps(range, merged)) : range.from <= r.from /\ r.from < r.to /\ r.to <= range.to
      BY <1>1, <1>3, <1>4, <1>5, GapsFacts
<1> QED BY <1>3, <1>6, <1>7 DEF kept, merged

LEMMA PlanCutsFacts ==
  ASSUME NEW range, NEW ops, OpsIn(range, ops)
  PROVE  /\ Ordered(PlanCuts(range, ops), InTurn)
         /\ Times(ToSet(PlanCuts(range, ops)))
              = IF OpsOf(ops, "keep") = {} THEN Times(RangesOf(ops, "cut"))
                ELSE (range.from..range.to - 1) \ Times(RangesOf(ops, "keep"))
<1>1. CASE OpsOf(ops, "keep") = {}
  <2> DEFINE cut == RangesOf(ops, "cut")
  <2>1. PlanCuts(range, ops) = MergeRanges(cut)
        BY <1>1 DEF PlanCuts
  <2>2. cut \in SUBSET Stretch /\ IsFiniteSet(cut)
        BY OpRanges
  <2> HIDE DEF cut
  <2>3. /\ MergeRanges(cut) \in Seq(Stretch) /\ Ordered(MergeRanges(cut), Clear)
        /\ Times(ToSet(MergeRanges(cut))) = Times(cut)
        BY <2>2, MergedFacts
  <2>4. Ordered(MergeRanges(cut), InTurn)
        BY <2>3, ClearInTurn
  <2> QED BY <1>1, <2>1, <2>3, <2>4 DEF cut
<1>2. CASE OpsOf(ops, "keep") # {}
  <2>1. PlanCuts(range, ops) = Gaps(range, MergeRanges(RangesOf(ops, "keep")))
        BY <1>2 DEF PlanCuts
  <2> QED BY <1>2, <2>1, GapsKept
<1> QED BY <1>1, <1>2

\* The same of a comment in a batch.
LEMMA CutsOfFacts ==
  ASSUME NEW c, OpsIn(c.range, c.ops)
  PROVE  /\ CutsOf(c) \in SUBSET Stretch /\ IsFiniteSet(CutsOf(c))
         /\ Times(CutsOf(c)) = CutTimes(c)
         /\ \A r \in CutsOf(c) : c.range.from <= r.from /\ r.from < r.to /\ r.to <= c.range.to
<1> DEFINE gaps == Gaps(c.range, MergeRanges(RangesOf(c.ops, "keep")))
           rest == IF OpsOf(c.ops, "keep") = {} THEN {} ELSE ToSet(gaps)
           cut == RangesOf(c.ops, "cut")
<1>1. CutsOf(c) \in SUBSET Stretch /\ IsFiniteSet(CutsOf(c))
      BY CutsOfType DEF OpsIn
<1>2. CutsOf(c) = cut \cup rest
      BY DEF CutsOf
<1>3. /\ Times(ToSet(gaps)) = (c.range.from..c.range.to - 1) \ KeptTimes(c)
      /\ \A r \in ToSet(gaps) : c.range.from <= r.from /\ r.from < r.to /\ r.to <= c.range.to
      BY GapsKept DEF KeptTimes
<1>4. OpsOf(c.ops, "keep") = {} <=> KeptTimes(c) = {}
      BY OpRanges DEF KeptTimes
<1>5. \A r \in cut : c.range.from <= r.from /\ r.from < r.to /\ r.to <= c.range.to
      BY OpRanges
<1> HIDE DEF gaps
<1>6. Times({}) = {} /\ \A P, Q : Times(P \cup Q) = Times(P) \cup Times(Q)
      BY DEF Times
<1>7. Times(rest) = IF KeptTimes(c) = {} THEN {} ELSE (c.range.from..c.range.to - 1) \ KeptTimes(c)
      BY <1>3, <1>4, <1>6
<1>8. \A r \in rest : c.range.from <= r.from /\ r.from < r.to /\ r.to <= c.range.to
      BY <1>3
<1>9. CutTimes(c) = Times(cut) \cup (IF KeptTimes(c) = {} THEN {} ELSE (c.range.from..c.range.to - 1) \ KeptTimes(c))
      BY DEF CutTimes
<1> HIDE DEF rest, cut
<1>10. Times(CutsOf(c)) = CutTimes(c)
       BY <1>2, <1>6, <1>7, <1>9
<1>11. \A r \in CutsOf(c) : c.range.from <= r.from /\ r.from < r.to /\ r.to <= c.range.to
       BY <1>2, <1>5, <1>8
<1> QED BY <1>1, <1>10, <1>11

\* A draft that follows what its comments ask together is a revision by them.
LEMMA FollowsRevised ==
  ASSUME NEW l, NEW draft, NEW comments, NEW ops,
         OpsOf(ops, "broll") = UNION {OpsOf(c.ops, "broll") : c \in comments},
         Follows(draft, l, UNION {CutTimes(c) : c \in comments}, ops),
         \A a, b \in comments : a # b =>
           (KeptTimes(a) \cup Times(RangesOf(a.ops, "broll"))) \cap CutTimes(b) = {}
  PROVE  Revised(draft, l, comments)
<1> DEFINE old == FramesOf(l.edits)
           gone == UNION {CutTimes(c) : c \in comments}
           left == LeftIn(old, gone)
           asked == UNION {UNION {{<<old[t + 1], t - o.from>> : t \in o.from..o.to - 1} : o \in OpsOf(c.ops, "broll")}
                             : c \in comments}
<1>1. FramesOf(draft.edits) = Where(old, LAMBDA f : f \in left)
  <2>1. FramesOf(draft.edits) = Filtered(old, left)
        BY DEF Follows
  <2> HIDE DEF old, left
  <2> QED BY <2>1 DEF Where, Mapped, Filtered
<1>2. asked = AskedIn(old, ops)
  <2> HIDE DEF old
  <2> QED BY DEF AskedIn
<1>3. CoveredOf(draft) = {c \in CoveredOf(l) \cup asked : c[1] \in left}
  <2>1. CoveredOf(draft) = {c \in CoveredOf(l) \cup AskedIn(old, ops) : c[1] \in left}
        BY DEF Follows
  <2> HIDE DEF asked, old, left
  <2> QED BY <1>2, <2>1
<1>4. Footage(ToSet(l.cuts)) \cup (ToSet(old) \ left) \subseteq Footage(ToSet(draft.cuts))
      BY DEF Follows
<1> QED BY <1>1, <1>3, <1>4 DEF Revised, CutTimes, KeptTimes, LeftIn

\* A single plan that is not refused.
LEMMA PlanRevised ==
  ASSUME NEW l \in List, Sound(l), NEW c, Fitting(c, LengthOf(l.edits)), ApplyPlan(l, c.range, c.ops) # NoFile
  PROVE  /\ Sound(ApplyPlan(l, c.range, c.ops))
         /\ Revised(ApplyPlan(l, c.range, c.ops), l, {c})
<1> DEFINE n == LengthOf(l.edits)
           draft == ApplyPlan(l, c.range, c.ops)
           cuts == PlanCuts(c.range, c.ops)
<1>1. /\ OpsIn(c.range, c.ops) /\ 0 <= c.range.from /\ c.range.to <= n /\ n \in Int
      /\ c.range.from \in Int /\ c.range.to \in Int /\ c.ops \in SUBSET PlanOp /\ IsFiniteSet(c.ops)
      BY LengthInt DEF Fitting, OpsIn
<1>2. ~(OpsOf(c.ops, "keep") # {} /\ OpsOf(c.ops, "cut") # {})
      BY DEF ApplyPlan
<1>3. /\ Ordered(cuts, InTurn)
      /\ Times(ToSet(cuts)) = IF OpsOf(c.ops, "keep") = {} THEN Times(RangesOf(c.ops, "cut"))
                              ELSE (c.range.from..c.range.to - 1) \ Times(RangesOf(c.ops, "keep"))
      BY <1>1, PlanCutsFacts
<1>4. \A op : OpsOf(c.ops, op) = {} <=> Times(RangesOf(c.ops, op)) = {}
      BY <1>1, OpRanges
<1>5. Times(ToSet(cuts)) = CutTimes(c)
      BY <1>2, <1>3, <1>4 DEF CutTimes, KeptTimes
<1>6. \A o \in OpsOf(c.ops, "broll") : 0 <= o.from /\ o.to <= n
  <2>1. \A o \in c.ops : o.from \in Int /\ o.to \in Int /\ c.range.from <= o.from /\ o.to <= c.range.to
        BY <1>1, PlanOpFacts DEF OpsIn
  <2>2. \A o \in c.ops : 0 <= o.from /\ o.to <= n
        BY <1>1, <2>1
  <2> QED BY <2>2 DEF OpsOf
<1>7. Sound(draft) /\ Follows(draft, l, Times(ToSet(cuts)), c.ops)
      BY <1>1, <1>3, <1>6, PlanFollows
<1> HIDE DEF draft, cuts
<1>8. Follows(draft, l, UNION {CutTimes(x) : x \in {c}}, c.ops)
  <2>1. UNION {CutTimes(x) : x \in {c}} = CutTimes(c)
        OBVIOUS
  <2> QED BY <1>5, <1>7, <2>1
<1>9. OpsOf(c.ops, "broll") = UNION {OpsOf(x.ops, "broll") : x \in {c}}
      OBVIOUS
<1>10. Revised(draft, l, {c})
       BY <1>8, <1>9, FollowsRevised
<1> QED BY <1>7, <1>10 DEF draft

\* Comments that do not conflict: what the one keeps or decorates, the other leaves.
LEMMA NoConflict ==
  ASSUME NEW a, NEW b, OpsIn(a.range, a.ops), OpsIn(b.range, b.ops), ~Conflict(b, a)
  PROVE  (KeptTimes(a) \cup Times(RangesOf(a.ops, "broll"))) \cap CutTimes(b) = {}
<1> DEFINE theirs == RangesOf(a.ops, "keep") \cup RangesOf(a.ops, "broll")
<1>1. \A r \in CutsOf(b) : \A s \in theirs : ~Overlap(r, s)
      BY DEF Conflict
<1>2. CutsOf(b) \in SUBSET Stretch /\ Times(CutsOf(b)) = CutTimes(b)
      BY CutsOfFacts
<1>3. theirs \in SUBSET Stretch
      BY OpRanges
<1>4. KeptTimes(a) \cup Times(RangesOf(a.ops, "broll")) = Times(theirs)
      BY DEF KeptTimes, Times
<1> HIDE DEF theirs
<1>5. ASSUME NEW t, t \in Times(theirs), t \in Times(CutsOf(b)) PROVE FALSE
  <2>1. PICK s \in theirs : t \in s.from..s.to - 1
        BY <1>5, TimesOf
  <2>2. PICK r \in CutsOf(b) : t \in r.from..r.to - 1
        BY <1>5, TimesOf
  <2>3. r.from \in Int /\ r.to \in Int /\ s.from \in Int /\ s.to \in Int
        BY <1>2, <1>3, StretchFacts
  <2>4. Overlap(r, s)
        BY <2>1, <2>2, <2>3 DEF Overlap
  <2> QED BY <1>1, <2>4
<1> QED BY <1>2, <1>4, <1>5

\* The one plan of a batch: it keeps nothing, and takes out and covers what its comments do.
LEMMA BatchFacts ==
  ASSUME NEW n \in Int, NEW comments, IsFiniteSet(comments), \A c \in comments : Fitting(c, n)
  PROVE  LET ops == BatchOf(comments) IN
         /\ ops \in SUBSET PlanOp /\ IsFiniteSet(ops)
         /\ OpsOf(ops, "keep") = {}
         /\ OpsOf(ops, "broll") = UNION {OpsOf(c.ops, "broll") : c \in comments}
         /\ RangesOf(ops, "cut") = UNION {CutsOf(c) : c \in comments}
         /\ \A o \in ops : 0 <= o.from /\ o.from < o.to /\ o.to <= n
<1> DEFINE ops == BatchOf(comments)
<1>1. \A c \in comments : /\ OpsIn(c.range, c.ops) /\ c.range.from \in Int /\ c.range.to \in Int
                          /\ 0 <= c.range.from /\ c.range.to <= n
      BY DEF Fitting, OpsIn
<1>2. ops \in SUBSET PlanOp /\ IsFiniteSet(ops)
  <2>1. \A c \in comments : Comment(c)
        BY <1>1 DEF Comment, OpsIn
  <2> QED BY <2>1, BatchType
<1>3. \A o : o \in ops <=> \E c \in comments : o \in OpsOf(c.ops, "broll") \/ o \in AsCuts(c)
      BY DEF BatchOf, AsOps
<1>4. \A c, o : o \in AsCuts(c) => o.op = "cut"
      BY DEF AsCuts
<1>5. \A c, o : o \in OpsOf(c.ops, "broll") => o.op = "broll"
      BY DEF OpsOf
<1> HIDE DEF ops
<1>6. OpsOf(ops, "keep") = {}
      BY <1>3, <1>4, <1>5 DEF OpsOf
<1>7. OpsOf(ops, "broll") = UNION {OpsOf(c.ops, "broll") : c \in comments}
  <2>1. \A o : o \in OpsOf(ops, "broll") <=> o \in ops /\ o.op = "broll"
        BY DEF OpsOf
  <2>2. \A o : o \in OpsOf(ops, "broll") <=> \E c \in comments : o \in OpsOf(c.ops, "broll")
        BY <1>3, <1>4, <1>5, <2>1
  <2> QED BY <2>2
<1>8. \A o : o \in OpsOf(ops, "cut") <=> \E c \in comments : o \in AsCuts(c)
  <2>1. \A o : o \in OpsOf(ops, "cut") <=> o \in ops /\ o.op = "cut"
        BY DEF OpsOf
  <2> QED BY <1>3, <1>4, <1>5, <2>1
<1>9. ASSUME NEW c \in comments
      PROVE  /\ \A r \in CutsOf(c) : \E o \in AsCuts(c) : SpanOf(o) = r
             /\ \A o \in AsCuts(c) : SpanOf(o) \in CutsOf(c)
  <2>1. CutsOf(c) \in SUBSET Stretch
        BY <1>1, CutsOfFacts
  <2>2. \A r \in Stretch : SpanOf([op |-> "cut", from |-> r.from, to |-> r.to]) = r
        BY DEF Stretch, Forward, SpanOf
  <2> QED BY <2>1, <2>2 DEF AsCuts
<1>10. RangesOf(ops, "cut") = UNION {CutsOf(c) : c \in comments}
  <2>1. \A r : r \in RangesOf(ops, "cut") <=> \E o \in OpsOf(ops, "cut") : r = SpanOf(o)
        BY DEF RangesOf
  <2>2. \A r : r \in RangesOf(ops, "cut") <=> \E c \in comments : r \in CutsOf(c)
        BY <1>8, <1>9, <2>1
  <2> QED BY <2>2
<1>11. ASSUME NEW o \in ops PROVE 0 <= o.from /\ o.from < o.to /\ o.to <= n
  <2>1. PICK c \in comments : o \in OpsOf(c.ops, "broll") \/ o \in AsCuts(c)
        BY <1>3
  <2>2. c.range.from \in Int /\ c.range.to \in Int /\ 0 <= c.range.from /\ c.range.to <= n
        BY <1>1
  <2>3. c.range.from <= o.from /\ o.from < o.to /\ o.to <= c.range.to
    <3>1. CASE o \in OpsOf(c.ops, "broll")
          BY <1>1, <3>1 DEF OpsOf, OpsIn
    <3>2. CASE o \in AsCuts(c)
      <4>1. \A r \in CutsOf(c) : c.range.from <= r.from /\ r.from < r.to /\ r.to <= c.range.to
            BY <1>1, CutsOfFacts
      <4> QED BY <3>2, <4>1 DEF AsCuts
    <3> QED BY <2>1, <3>1, <3>2
  <2>4. o.from \in Int /\ o.to \in Int
        BY <1>2, PlanOpFacts
  <2> QED BY <2>2, <2>3, <2>4
<1> QED BY <1>2, <1>6, <1>7, <1>10, <1>11 DEF ops

LEMMA LengthNat ==
  ASSUME NEW l \in List, Contiguous(l.edits)
  PROVE  LengthOf(l.edits) \in Nat
<1>1. l.edits \in Seq(Segment)
      BY ListFacts
<1>2. FramesOf(l.edits) \in Seq(Frame)
      BY <1>1, FramesType
<1>3. Len(FramesOf(l.edits)) = LengthOf(l.edits)
      BY <1>1, ContiguousShows
<1>4. Len(FramesOf(l.edits)) \in Nat
      BY <1>2
<1> QED BY <1>3, <1>4

\* Several comments, none of them refused or in conflict with another.
LEMMA BatchRevised ==
  ASSUME NEW l \in List, Sound(l), NEW comments, IsFiniteSet(comments),
         \A c \in comments : Fitting(c, LengthOf(l.edits)),
         \A a, b \in comments : a # b => ~Conflict(a, b),
         NEW draft, draft # NoFile,
         draft = ApplyPlan(l, [from |-> 0, to |-> LengthOf(l.edits)], BatchOf(comments))
  PROVE  Sound(draft) /\ Revised(draft, l, comments)
<1> DEFINE n == LengthOf(l.edits)
           whole == [from |-> 0, to |-> n]
           ops == BatchOf(comments)
           cuts == PlanCuts(whole, ops)
<1>1. n \in Nat
      BY LengthNat DEF Sound
<1>2. /\ ops \in SUBSET PlanOp /\ IsFiniteSet(ops)
      /\ OpsOf(ops, "keep") = {}
      /\ OpsOf(ops, "broll") = UNION {OpsOf(c.ops, "broll") : c \in comments}
      /\ RangesOf(ops, "cut") = UNION {CutsOf(c) : c \in comments}
      /\ \A o \in ops : 0 <= o.from /\ o.from < o.to /\ o.to <= n
      BY <1>1, BatchFacts
<1>3. whole.from = 0 /\ whole.to = n /\ draft = ApplyPlan(l, whole, ops)
      OBVIOUS
<1> HIDE DEF n, whole, ops
<1>4. OpsIn(whole, ops) /\ whole.from \in Int /\ whole.to \in Int
      BY <1>1, <1>2, <1>3 DEF OpsIn
<1>5. Ordered(cuts, InTurn) /\ Times(ToSet(cuts)) = Times(RangesOf(ops, "cut"))
      BY <1>2, <1>4, PlanCutsFacts
<1>6. \A c \in comments : OpsIn(c.range, c.ops) /\ Times(CutsOf(c)) = CutTimes(c)
      BY CutsOfFacts DEF Fitting
<1>7. Times(RangesOf(ops, "cut")) = UNION {CutTimes(c) : c \in comments}
  <2>1. \A t : t \in Times(RangesOf(ops, "cut")) <=> \E c \in comments : t \in Times(CutsOf(c))
        BY <1>2, TimesOf
  <2>2. \A t : t \in Times(RangesOf(ops, "cut")) <=> \E c \in comments : t \in CutTimes(c)
        BY <1>6, <2>1
  <2> QED BY <2>2
<1>8. \A o \in OpsOf(ops, "broll") : 0 <= o.from /\ o.to <= n
      BY <1>2 DEF OpsOf
<1>9. Sound(draft) /\ Follows(draft, l, Times(ToSet(cuts)), ops)
  <2>1. \A o \in OpsOf(ops, "broll") : 0 <= o.from /\ o.to <= LengthOf(l.edits)
        BY <1>8 DEF n
  <2> QED BY <1>2, <1>3, <1>4, <1>5, <2>1, PlanFollows
<1>10. \A a, b \in comments : a # b =>
         (KeptTimes(a) \cup Times(RangesOf(a.ops, "broll"))) \cap CutTimes(b) = {}
       BY <1>6, NoConflict
<1>11. Follows(draft, l, UNION {CutTimes(c) : c \in comments}, ops)
       BY <1>5, <1>7, <1>9
<1>12. Revised(draft, l, comments)
       BY <1>2, <1>10, <1>11, FollowsRevised
<1> QED BY <1>9, <1>12

\* Whatever comments ask of a program, a draft that is made is what they ask for.
LEMMA DraftRevised ==
  ASSUME NEW l \in List, Sound(l), NEW comments \in CommentsOn(l), Drafted(l, comments) # NoFile
  PROVE  Sound(Drafted(l, comments)) /\ Revised(Drafted(l, comments), l, comments)
<1>1. IsFiniteSet(comments) /\ \A c \in comments : Fitting(c, LengthOf(l.edits))
      BY CommentsFit
<1>2. CASE Cardinality(comments) = 1
  <2>1. PICK c \in comments : comments = {c} /\ Drafted(l, comments) = ApplyPlan(l, c.range, c.ops)
        BY <1>1, <1>2, DraftedIs
  <2> QED BY <1>1, <2>1, PlanRevised
<1>3. CASE Cardinality(comments) # 1
  <2>1. /\ Drafted(l, comments) = ApplyPlan(l, [from |-> 0, to |-> LengthOf(l.edits)], BatchOf(comments))
        /\ \A a, b \in comments : a # b => ~Conflict(a, b)
        BY <1>1, <1>3, DraftedIs
  <2> QED BY <1>1, <2>1, BatchRevised
<1> QED BY <1>2, <1>3

-----------------------------------------------------------------------------
(* The invariant of the lists, and what files show.                        *)

\* Every program shows its footage once and in the order of the clips, within them, and so do
\* its islands and what a review cuts.
ListsAreSound ==
  /\ Sound(list) /\ Footage(overrides.extra) \subseteq Within
  /\ \A d \in Deliveries : making[d] # NoFile =>
       Sound(making[d].list) /\ Footage(making[d].overrides.extra) \subseteq Within
  /\ file # NoFile => Sound(file.list) /\ Footage(file.overrides.extra) \subseteq Within

SoundInv == EditListsInv /\ ListsAreSound

LEMMA InitSound ==
  ASSUME CutsInClips
  PROVE  EditListsInit => SoundInv
<1> SUFFICES ASSUME EditListsInit PROVE SoundInv
    OBVIOUS
<1>1. PICK heard \in Heard : list = Assembled(heard)
      BY DEF EditListsInit
<1>2. Sound(list)
      BY <1>1, AssembledSound
<1>3. overrides = NoOverrides /\ file = NoFile /\ making = [d \in Deliveries |-> NoFile]
      BY DEF EditListsInit
<1> QED BY <1>2, <1>3, NoneWithin, InitEdits DEF SoundInv, ListsAreSound

\* What a file shows.
LEMMA ShownSound ==
  ASSUME SoundInv, file # NoFile
  PROVE  file.shown \in List /\ Sound(file.shown)
<1>1. /\ file.shown \in List /\ file.list \in List /\ file.overrides \in Review
      /\ file.shown = Effective(file.list, file.overrides)
      BY RenderedFacts DEF SoundInv, EditListsInv, EditListsTypeOK, FileIsMade
<1>2. Sound(file.list) /\ Footage(file.overrides.extra) \subseteq Within
      BY DEF SoundInv, ListsAreSound
<1> QED BY <1>1, <1>2, EffectiveSound

LEMMA StepSound ==
  ASSUME CutsInClips
  PROVE  SoundInv /\ [EditListsNext]_editListVars => SoundInv'
<1> SUFFICES ASSUME SoundInv, [EditListsNext]_editListVars PROVE ListsAreSound'
    BY StepEdits DEF SoundInv
<1>0. EditListsTypeOK /\ ListsAreSound
      BY DEF SoundInv, EditListsInv
<1>1. ASSUME NEW heard \in HeardAgain, Reassemble(heard) PROVE ListsAreSound'
  <2>1. heard \in Heard
        BY EditListsBoundsAssumption
  <2>2. list' = Assembled(heard) /\ UNCHANGED <<overrides, making, file, drafts>>
        BY <1>1 DEF Reassemble
  <2>3. Sound(Assembled(heard))
        BY <2>1, AssembledSound
  <2> QED BY <1>0, <2>2, <2>3 DEF ListsAreSound
<1>2. ASSUME NEW o \in Overrides(list), SaveOverrides(o) PROVE ListsAreSound'
  <2>1. overrides' = o /\ UNCHANGED <<list, making, file, drafts>>
        BY <1>2 DEF SaveOverrides
  <2>2. Footage(o.extra) \subseteq Within
        BY <1>0, ExtraWithin DEF EditListsTypeOK
  <2> QED BY <1>0, <2>1, <2>2 DEF ListsAreSound
<1>3. ASSUME NEW d \in Deliveries, StartMaking(d) PROVE ListsAreSound'
  <2> DEFINE m == [list |-> list, overrides |-> overrides]
  <2>1. making' = [making EXCEPT ![d] = m] /\ UNCHANGED <<list, overrides, file, drafts>>
        BY <1>3 DEF StartMaking
  <2>2. m.list = list /\ m.overrides = overrides
        OBVIOUS
  <2> HIDE DEF m
  <2>3. \A x \in Deliveries : making'[x] = IF x = d THEN m ELSE making[x]
        BY <1>0, <2>1 DEF EditListsTypeOK
  <2> QED BY <1>0, <2>1, <2>2, <2>3 DEF ListsAreSound
<1>4. ASSUME NEW d \in Deliveries, StoreFile(d) PROVE ListsAreSound'
  <2> DEFINE m == making[d]
             f == [shown |-> Effective(m.list, m.overrides), list |-> m.list, overrides |-> m.overrides]
  <2>1. /\ making[d] # NoFile /\ making' = [making EXCEPT ![d] = NoFile] /\ file' = f
        /\ UNCHANGED <<list, overrides, drafts>>
        BY <1>4 DEF StoreFile
  <2>2. f.list = m.list /\ f.overrides = m.overrides
        OBVIOUS
  <2> HIDE DEF f
  <2>3. \A x \in Deliveries : making'[x] = IF x = d THEN NoFile ELSE making[x]
        BY <1>0, <2>1 DEF EditListsTypeOK
  <2> QED BY <1>0, <2>1, <2>2, <2>3 DEF ListsAreSound
<1>5. ASSUME NEW d \in Deliveries, FailMaking(d) PROVE ListsAreSound'
  <2>1. making' = [making EXCEPT ![d] = NoFile] /\ UNCHANGED <<list, overrides, file, drafts>>
        BY <1>5 DEF FailMaking
  <2>2. \A x \in Deliveries : making'[x] = IF x = d THEN NoFile ELSE making[x]
        BY <1>0, <2>1 DEF EditListsTypeOK
  <2> QED BY <1>0, <2>1, <2>2 DEF ListsAreSound
<1>6. ASSUME MayAsk, NEW comments \in CommentsOn(file.shown), MakeDraft(comments) PROVE ListsAreSound'
  <2> DEFINE draft == Drafted(file.shown, comments)
  <2>1. /\ draft # NoFile /\ list' = draft /\ overrides' = NoOverrides /\ file' = NoFile
        /\ making' = making
        BY <1>6 DEF MakeDraft
  <2>2. file # NoFile
        BY <1>6 DEF MayAsk
  <2>3. file.shown \in List /\ Sound(file.shown)
        BY <2>2, ShownSound
  <2>4. Sound(draft)
        BY <2>1, <2>3, DraftRevised
  <2> HIDE DEF draft
  <2> QED BY <1>0, <2>1, <2>4, NoneWithin DEF ListsAreSound
<1>7. CASE UNCHANGED editListVars
  <2>1. UNCHANGED <<list, overrides, making, file, drafts>>
        BY <1>7 DEF editListVars
  <2> QED BY <1>0, <2>1 DEF ListsAreSound
<1> QED BY <1>1, <1>2, <1>3, <1>4, <1>5, <1>6, <1>7 DEF EditListsNext

\* A draft, whatever its comments ask for, is what they ask for.
DraftsFollowComments ==
  file # NoFile =>
    \A comments \in CommentsOn(file.shown) :
      LET draft == Drafted(file.shown, comments) IN draft # NoFile => Revised(draft, file.shown, comments)

LEMMA DraftsFollow == SoundInv => DraftsFollowComments
<1> SUFFICES ASSUME SoundInv, file # NoFile,
                    NEW comments \in CommentsOn(file.shown), Drafted(file.shown, comments) # NoFile
             PROVE  Revised(Drafted(file.shown, comments), file.shown, comments)
    BY DEF DraftsFollowComments
<1> QED BY ShownSound, DraftRevised

\* For any clips, speech and reviews, and however many drafts are made of drafts: what a plan or
\* a batch of plans makes of a rendered version (plan.ts) has the frames its comments leave, each
\* once and in order, the B-roll where it was and where they put it, and an island for all
\* that they take out; and no comment takes out what another keeps or decorates.
THEOREM DraftsFollowCommentsHolds ==
  ASSUME CutsInClips
  PROVE  EditListsSpec => []DraftsFollowComments
<1> QED BY InitSound, StepSound, DraftsFollow, PTL DEF EditListsSpec

LEMMA DecisionsShown == SoundInv /\ MaxDrafts <= 1 => FilesShowDecisions
<1> SUFFICES ASSUME SoundInv, MaxDrafts <= 1, file # NoFile
             PROVE  /\ file.list = list /\ ~NeedsRender(list, overrides, file.overrides) =>
                         Reviewed(file.shown, list, overrides)
                    /\ MissingIsListed
                    /\ MayAsk =>
                         \A comments \in CommentsOn(file.shown) :
                           LET draft == Drafted(file.shown, comments)
                           IN draft # NoFile => Revised(draft, file.shown, comments)
    BY DEF FilesShowDecisions
<1>1. MissingIsListed
      BY MissingListed DEF SoundInv
<1>2. ASSUME file.list = list, ~NeedsRender(list, overrides, file.overrides)
      PROVE  Reviewed(file.shown, list, overrides)
  <2>1. list \in List /\ overrides \in Review /\ Keyed(list) /\ Sound(list)
        BY DEF SoundInv, EditListsInv, EditListsTypeOK, ListsAreTidy, Tidy, ListsAreSound
  <2>2. file.shown = Effective(list, overrides)
        BY <1>2, <2>1, SameReview DEF SoundInv, EditListsInv, FileIsMade, NeedsRender
  <2> QED BY <2>1, <2>2, EffectiveReviewed
<1>3. \A comments \in CommentsOn(file.shown) :
        LET draft == Drafted(file.shown, comments) IN draft # NoFile => Revised(draft, file.shown, comments)
      BY DraftsFollow DEF DraftsFollowComments
<1> QED BY <1>1, <1>2, <1>3

\* For any clips, speech, reviews and plans, up to the first draft: a file that needs no new
\* render shows what the review decided (materialize-job.ts, overrides.ts) frame by frame, in
\* order and under the B-roll that was put on it; its cut list names all that is missing; and
\* a draft of it (plan.ts) is what its comments ask for, however they cut, keep and decorate.
THEOREM FilesShowDecisionsHolds ==
  ASSUME MaxDrafts <= 1, CutsInClips
  PROVE  EditListsSpec => []FilesShowDecisions
<1> QED BY InitSound, StepSound, DecisionsShown, PTL DEF EditListsSpec
=============================================================================
