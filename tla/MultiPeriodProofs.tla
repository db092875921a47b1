------------------------- MODULE MultiPeriodProofs -------------------------
(* Proofs that MultiPeriod is type correct, that live ranges never overlap *)
(* and that the root index always leads to the newest range of a root, for *)
(* every set of businesses and roots and every bound.                      *)
EXTENDS MultiPeriod, TLAPS

\* What a submission stores is a range.
LEMMA NewRangeType == \A range \in NewRanges : range \in AttestationRange
  BY MultiPeriodAssumption DEF NewRanges, AttestationRange

\* Every step keeps the types.
LEMMA TypeStep == MultiPeriodTypeOK /\ [Next]_vars => MultiPeriodTypeOK'
<1> SUFFICES ASSUME MultiPeriodTypeOK, [Next]_vars PROVE MultiPeriodTypeOK'
  OBVIOUS
<1> USE DEF MultiPeriodTypeOK
<1>1. ASSUME NEW b \in Businesses, NEW range \in NewRanges, SubmitRange(b, range)
      PROVE  MultiPeriodTypeOK'
  <2>1. range \in AttestationRange
    BY NewRangeType
  <2>2. ranges' \in [Businesses -> Seq(AttestationRange)]
    BY <1>1, <2>1 DEF SubmitRange
  <2>3. range.root \in Roots
    BY <2>1 DEF AttestationRange
  <2>4. Len(ranges[b]) + 1 \in Nat
    OBVIOUS
  <2>5. rootIndex' \in [Businesses -> [Roots -> Nat]]
    BY <1>1, <2>3, <2>4 DEF SubmitRange, IndexRoot
  <2> QED
    BY <1>1, <2>2, <2>5 DEF SubmitRange
<1>2. ASSUME NEW b \in Businesses, NEW root \in Roots, RevokeRange(b, root)
      PROVE  MultiPeriodTypeOK'
  <2> DEFINE i == rootIndex[b][root]
             q == ranges[b]
             cut == [q EXCEPT ![i] = [q[i] EXCEPT !.revoked = TRUE]]
  <2>1. q \in Seq(AttestationRange) /\ i \in DOMAIN q
    BY <1>2 DEF RevokeRange
  <2>2. q[i] \in AttestationRange
    BY <2>1
  <2>3. [q[i] EXCEPT !.revoked = TRUE] \in AttestationRange
    BY <2>2 DEF AttestationRange
  <2>4. cut \in Seq(AttestationRange)
    BY <2>1, <2>3
  <2>5. ranges' = [ranges EXCEPT ![b] = cut]
    BY <1>2 DEF RevokeRange
  <2>6. ranges' \in [Businesses -> Seq(AttestationRange)]
    BY <2>4, <2>5
  <2> QED
    BY <1>2, <2>6 DEF RevokeRange
<1>3. CASE Tick
  BY <1>3 DEF Tick
<1>4. CASE UNCHANGED vars
  BY <1>4 DEF vars
<1> QED
  BY <1>1, <1>2, <1>3, <1>4 DEF Next

\* The initial state is well typed.
LEMMA TypeInit == Init => MultiPeriodTypeOK
  BY DEF Init, MultiPeriodTypeOK

\* The ranges and the root index keep their types in every behaviour.
THEOREM MultiPeriodTypeCorrect == Spec => []MultiPeriodTypeOK
  BY TypeInit, TypeStep, PTL DEF Spec

-----------------------------------------------------------------------------

\* Overlapping is symmetric.
LEMMA OverlapSymmetric ==
  ASSUME NEW x \in AttestationRange, NEW y \in AttestationRange
  PROVE  Overlap(x, y) <=> Overlap(y, x)
  BY DEF Overlap, AttestationRange, PeriodNumbers

\* Every step keeps live ranges apart.
LEMMA OverlapStep ==
  MultiPeriodTypeOK /\ NoOverlap /\ [Next]_vars => NoOverlap'
<1> SUFFICES ASSUME MultiPeriodTypeOK, NoOverlap, [Next]_vars PROVE NoOverlap'
  OBVIOUS
<1>1. ASSUME NEW b \in Businesses, NEW range \in NewRanges, SubmitRange(b, range)
      PROVE  NoOverlap'
  <2> SUFFICES ASSUME NEW c \in Businesses,
                      NEW i \in DOMAIN ranges'[c], NEW j \in DOMAIN ranges'[c],
                      i # j, ~ranges'[c][i].revoked, ~ranges'[c][j].revoked
               PROVE  ~Overlap(ranges'[c][i], ranges'[c][j])
    BY DEF NoOverlap, Overlap
  <2>1. ranges \in [Businesses -> Seq(AttestationRange)]
    BY DEF MultiPeriodTypeOK
  <2>2. ranges' = [ranges EXCEPT ![b] = Append(ranges[b], range)]
    BY <1>1 DEF SubmitRange
  <2>3. range \in AttestationRange
    BY NewRangeType
  <2>4. CASE c # b
    <3>1. ranges'[c] = ranges[c]
      BY <2>1, <2>2, <2>4
    <3> QED
      BY <3>1 DEF NoOverlap
  <2>5. CASE c = b
    <3> DEFINE q == ranges[b]
    <3>1. q \in Seq(AttestationRange)
      BY <2>1
    <3>2. ranges'[c] = Append(q, range)
      BY <2>1, <2>2, <2>5
    <3>3. /\ i \in 1 .. Len(q) + 1
          /\ j \in 1 .. Len(q) + 1
          /\ \A n \in 1 .. Len(q) : Append(q, range)[n] = q[n]
          /\ Append(q, range)[Len(q) + 1] = range
          /\ DOMAIN q = 1 .. Len(q)
      BY <2>3, <3>1, <3>2
    <3>4. \A n \in DOMAIN q : q[n] \in AttestationRange
      BY <3>1
    <3>5. \A n \in DOMAIN q : ~q[n].revoked => ~Overlap(range, q[n])
      BY <1>1 DEF SubmitRange, Conflicts
    <3>6. CASE i \in DOMAIN q /\ j \in DOMAIN q
      BY <3>2, <3>3, <3>6 DEF NoOverlap
    <3>7. CASE i = Len(q) + 1
      <4>1. j \in DOMAIN q
        BY <3>1, <3>3, <3>7
      <4> QED
        BY <3>2, <3>3, <3>5, <3>7, <4>1
    <3>8. CASE j = Len(q) + 1
      <4>1. i \in DOMAIN q
        BY <3>1, <3>3, <3>8
      <4>2. ~Overlap(range, q[i])
        BY <3>2, <3>3, <3>5, <4>1
      <4>3. ~Overlap(q[i], range)
        BY <2>3, <3>4, <4>1, <4>2, OverlapSymmetric
      <4> QED
        BY <3>2, <3>3, <3>8, <4>1, <4>3
    <3> QED
      BY <3>1, <3>3, <3>6, <3>7, <3>8
  <2> QED
    BY <2>4, <2>5
<1>2. ASSUME NEW b \in Businesses, NEW root \in Roots, RevokeRange(b, root)
      PROVE  NoOverlap'
  <2> SUFFICES ASSUME NEW c \in Businesses,
                      NEW i \in DOMAIN ranges'[c], NEW j \in DOMAIN ranges'[c],
                      i # j, ~ranges'[c][i].revoked, ~ranges'[c][j].revoked
               PROVE  ~Overlap(ranges'[c][i], ranges'[c][j])
    BY DEF NoOverlap, Overlap
  <2> DEFINE n == rootIndex[b][root]
             q == ranges[b]
             hit == [q[n] EXCEPT !.revoked = TRUE]
  <2>1. ranges \in [Businesses -> Seq(AttestationRange)]
    BY DEF MultiPeriodTypeOK
  <2>2. n \in DOMAIN q /\ ranges' = [ranges EXCEPT ![b] = [q EXCEPT ![n] = hit]]
    BY <1>2 DEF RevokeRange
  <2>3. q[n] \in AttestationRange
    BY <2>1, <2>2
  <2>4. hit.revoked
    BY <2>3 DEF AttestationRange
  <2>5. CASE c # b
    <3>1. ranges'[c] = ranges[c]
      BY <2>1, <2>2, <2>5
    <3> QED
      BY <3>1 DEF NoOverlap
  <2>6. CASE c = b
    <3>1. ranges'[c] = [q EXCEPT ![n] = hit]
      BY <2>1, <2>2, <2>6
    <3>2. DOMAIN ranges'[c] = DOMAIN q
      BY <3>1
    <3>3. i # n /\ j # n
      BY <2>2, <2>4, <3>1, <3>2
    <3>4. ranges'[c][i] = q[i] /\ ranges'[c][j] = q[j]
      BY <3>1, <3>2, <3>3
    <3> QED
      BY <3>2, <3>4 DEF NoOverlap
  <2> QED
    BY <2>5, <2>6
<1>3. CASE Tick
  BY <1>3 DEF Tick, NoOverlap, Overlap
<1>4. CASE UNCHANGED vars
  BY <1>4 DEF vars, NoOverlap, Overlap
<1> QED
  BY <1>1, <1>2, <1>3, <1>4 DEF Next

\* Live ranges of a business never share a period: submit_multi_period_-
\* attestation's check holds for the whole life of the ranges.
THEOREM RangesNeverOverlap == Spec => []NoOverlap
<1>1. Init => NoOverlap
  BY DEF Init, NoOverlap
<1> QED
  BY <1>1, OverlapStep, MultiPeriodTypeCorrect, PTL DEF Spec

-----------------------------------------------------------------------------

\* Ranges that keep apart attest a period under one root at most.
LEMMA ApartMeansOneRoot == MultiPeriodTypeOK /\ NoOverlap => OneRootPerPeriod
<1> SUFFICES ASSUME MultiPeriodTypeOK, NoOverlap,
                    NEW b \in Businesses, NEW period \in PeriodNumbers,
                    NEW r \in Roots, NEW s \in Roots,
                    Verifies(b, period, r), Verifies(b, period, s)
             PROVE  r = s
  BY DEF OneRootPerPeriod
<1>1. PICK i \in DOMAIN ranges[b] :
          /\ ~ranges[b][i].revoked
          /\ period \in ranges[b][i].start .. ranges[b][i].end
          /\ ranges[b][i].root = r
  BY DEF Verifies
<1>2. PICK j \in DOMAIN ranges[b] :
          /\ ~ranges[b][j].revoked
          /\ period \in ranges[b][j].start .. ranges[b][j].end
          /\ ranges[b][j].root = s
  BY DEF Verifies
<1>3. ranges[b][i] \in AttestationRange /\ ranges[b][j] \in AttestationRange
  BY DEF MultiPeriodTypeOK
<1>4. Overlap(ranges[b][i], ranges[b][j])
  BY <1>1, <1>2, <1>3 DEF Overlap, AttestationRange, PeriodNumbers
<1>5. i = j
  BY <1>1, <1>2, <1>4 DEF NoOverlap
<1> QED
  BY <1>1, <1>2, <1>5

\* verify_multi_period_attestation never accepts two roots for one period.
THEOREM PeriodsHaveOneRoot == Spec => []OneRootPerPeriod
  BY MultiPeriodTypeCorrect, RangesNeverOverlap, ApartMeansOneRoot, PTL

-----------------------------------------------------------------------------

\* Every step keeps the index on the newest range of each root.
LEMMA IndexStep ==
  MultiPeriodTypeOK /\ IndexFindsNewest /\ [Next]_vars => IndexFindsNewest'
<1> SUFFICES ASSUME MultiPeriodTypeOK, IndexFindsNewest, [Next]_vars
             PROVE  IndexFindsNewest'
  OBVIOUS
<1> DEFINE Used(q, root) == {i \in DOMAIN q : q[i].root = root}
           Newest(n, U) == IF U = {} THEN n = 0 ELSE n \in U /\ \A i \in U : i <= n
<1>1. \A c \in Businesses, x \in Roots : Newest(rootIndex[c][x], Used(ranges[c], x))
  BY DEF IndexFindsNewest
<1>2. SUFFICES ASSUME NEW c \in Businesses, NEW x \in Roots
               PROVE  Newest(rootIndex'[c][x], Used(ranges'[c], x))
  BY DEF IndexFindsNewest
<1>3. ranges \in [Businesses -> Seq(AttestationRange)]
      /\ rootIndex \in [Businesses -> [Roots -> Nat]]
  BY DEF MultiPeriodTypeOK
<1>4. ASSUME NEW b \in Businesses, NEW range \in NewRanges, SubmitRange(b, range)
      PROVE  Newest(rootIndex'[c][x], Used(ranges'[c], x))
  <2> DEFINE q == ranges[b]
  <2>1. /\ ranges' = [ranges EXCEPT ![b] = Append(q, range)]
        /\ rootIndex' = [rootIndex EXCEPT ![b][range.root] = Len(q) + 1]
    BY <1>4 DEF SubmitRange, IndexRoot
  <2>2. range \in AttestationRange /\ range.root \in Roots
    BY NewRangeType DEF AttestationRange
  <2>3. CASE c # b
    BY <1>1, <1>3, <2>1, <2>3
  <2>4. CASE c = b
    <3>1. q \in Seq(AttestationRange)
      BY <1>3
    <3>2. ranges'[c] = Append(q, range)
      BY <1>3, <2>1, <2>4
    <3>3. /\ Len(q) \in Nat
          /\ DOMAIN q = 1 .. Len(q)
          /\ DOMAIN Append(q, range) = 1 .. Len(q) + 1
          /\ \A n \in 1 .. Len(q) : Append(q, range)[n] = q[n]
          /\ Append(q, range)[Len(q) + 1] = range
      BY <2>2, <3>1
    <3>4. CASE x = range.root
      <4>1. rootIndex'[c][x] = Len(q) + 1
        BY <1>3, <2>1, <2>2, <2>4, <3>4
      <4>2. Len(q) + 1 \in Used(ranges'[c], x)
        BY <3>2, <3>3, <3>4
      <4>3. \A i \in Used(ranges'[c], x) : i <= Len(q) + 1
        BY <3>2, <3>3
      <4> QED
        BY <4>1, <4>2, <4>3
    <3>5. CASE x # range.root
      <4>1. rootIndex'[c][x] = rootIndex[c][x]
        BY <1>3, <2>1, <2>2, <2>4, <3>5
      <4>2. Used(ranges'[c], x) = Used(q, x)
        BY <3>2, <3>3, <3>5
      <4> QED
        BY <1>1, <2>4, <4>1, <4>2
    <3> QED
      BY <3>4, <3>5
  <2> QED
    BY <2>3, <2>4
<1>5. ASSUME NEW b \in Businesses, NEW root \in Roots, RevokeRange(b, root)
      PROVE  Newest(rootIndex'[c][x], Used(ranges'[c], x))
  <2> DEFINE n == rootIndex[b][root]
             q == ranges[b]
             hit == [q[n] EXCEPT !.revoked = TRUE]
  <2>1. /\ n \in DOMAIN q
        /\ ranges' = [ranges EXCEPT ![b] = [q EXCEPT ![n] = hit]]
        /\ rootIndex' = rootIndex
    BY <1>5 DEF RevokeRange
  <2>2. q[n] \in AttestationRange
    BY <1>3, <2>1
  <2>3. hit.root = q[n].root
    BY <2>2 DEF AttestationRange
  <2>4. Used(ranges'[c], x) = Used(ranges[c], x)
    <3>1. CASE c # b
      BY <1>3, <2>1, <3>1
    <3>2. CASE c = b
      <4>1. ranges'[c] = [q EXCEPT ![n] = hit]
        BY <1>3, <2>1, <3>2
      <4>2. DOMAIN ranges'[c] = DOMAIN q
        BY <4>1
      <4>3. \A i \in DOMAIN q : ranges'[c][i].root = q[i].root
        BY <2>3, <4>1
      <4> QED
        BY <3>2, <4>2, <4>3
    <3> QED
      BY <3>1, <3>2
  <2> QED
    BY <1>1, <2>1, <2>4
<1>6. CASE Tick \/ UNCHANGED vars
  BY <1>1, <1>6 DEF Tick, vars
<1> QED
  BY <1>4, <1>5, <1>6 DEF Next

\* Revoking a root hits the newest range submitted under it, and no other.
THEOREM IndexAlwaysFindsNewest == Spec => []IndexFindsNewest
<1>1. Init => IndexFindsNewest
  BY DEF Init, IndexFindsNewest
<1> QED
  BY <1>1, IndexStep, MultiPeriodTypeCorrect, PTL DEF Spec

=============================================================================
