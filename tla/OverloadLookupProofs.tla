------------------------ MODULE OverloadLookupProofs ------------------------
(***************************************************************************)
(* The scan of getFunctionFromID returns the first entry of the lowest     *)
(* score, for a registry of any length.                                    *)
(*                                                                         *)
(* The Boolean and the arithmetic conjuncts of an invariant are kept in    *)
(* steps of their own: no prover handles both well in one obligation.      *)
(***************************************************************************)
EXTENDS OverloadLookup, TLAPS

IInv == TypeOK /\ ScannedBest

\* All the proofs need of the two special scores.
LEMMA Scores == NoMatch \in Nat /\ NeedsExact # NoMatch
  BY DEF NoMatch, NeedsExact

\* What the type invariant says of the registry.
LEMMA RegistryFacts ==
  TypeOK => /\ Len(fnIDs) \in Nat
            /\ \A k \in 1 .. Len(fnIDs) : fnIDs[k].score \in 0 .. NoMatch
            /\ Eligible \subseteq 1 .. Len(fnIDs)
<1> SUFFICES ASSUME TypeOK
             PROVE  /\ Len(fnIDs) \in Nat
                    /\ \A k \in 1 .. Len(fnIDs) : fnIDs[k].score \in 0 .. NoMatch
                    /\ Eligible \subseteq 1 .. Len(fnIDs)
  OBVIOUS
<1>1. fnIDs \in Seq(Entry)
  BY DEF TypeOK
<1>2. Len(fnIDs) \in Nat
  BY <1>1
<1>3. ASSUME NEW k \in 1 .. Len(fnIDs) PROVE fnIDs[k].score \in 0 .. NoMatch
  <2>1. fnIDs[k] \in Entry
    BY <1>1
  <2> QED
    BY <2>1 DEF Entry
<1>4. Eligible \subseteq 1 .. Len(fnIDs)
  BY DEF Eligible
<1> QED
  BY <1>2, <1>3, <1>4

\* The loop starts with nothing scanned.
LEMMA InitIInv == Init => IInv
<1> SUFFICES ASSUME Init PROVE IInv
  OBVIOUS
<1>1. fnIDs \in Seq(Entry)
  BY ScansAssumption DEF Init
<1>2. Len(fnIDs) \in Nat
  BY <1>1
<1>3. /\ i \in 1 .. Len(fnIDs) + 1
      /\ best \in 0 .. Len(fnIDs)
      /\ bestScore \in 0 .. NoMatch
  BY <1>2, Scores DEF Init, Uninitialised
<1>4. TypeOK
  BY <1>1, <1>3 DEF Init, TypeOK
<1>5. \A m \in Eligible : i <= m
  BY <1>2 DEF Init, Eligible
<1>6. requiresExact <=> (bestScore = NeedsExact)
  BY Scores DEF Init
<1>7. ScannedBest
  BY <1>5, <1>6 DEF Init, ScannedBest
<1> QED
  BY <1>4, <1>7 DEF IInv

\* Every iteration, and the return, keep the loop invariant.
LEMMA NextIInv == IInv /\ [Next]_vars => IInv'
<1> SUFFICES ASSUME IInv, [Next]_vars PROVE IInv'
  OBVIOUS
<1>t. TypeOK /\ ScannedBest
  BY DEF IInv
<1>a. /\ Len(fnIDs) \in Nat
      /\ Eligible \subseteq 1 .. Len(fnIDs)
      /\ \A k \in 1 .. Len(fnIDs) : fnIDs[k].score \in 0 .. NoMatch
  BY <1>t, RegistryFacts
<1>b. /\ i \in 1 .. Len(fnIDs) + 1
      /\ best \in 0 .. Len(fnIDs)
      /\ bestScore \in 0 .. NoMatch
  BY <1>t DEF TypeOK
<1>c. /\ bestScore \in Int
      /\ \A k \in Eligible : k \in Int /\ fnIDs[k].score \in Int
  BY <1>a, <1>b, Scores
<1>1. CASE PassOver
  <2>1. fnIDs' = fnIDs /\ Eligible' = Eligible
    BY <1>1 DEF PassOver, Eligible
  <2>2. i' \in 1 .. Len(fnIDs') + 1
    BY <1>1, <1>a, <1>b DEF PassOver
  <2>3. TypeOK'
    BY <1>1, <1>t, <2>2 DEF PassOver, TypeOK
  <2>4. ASSUME NEW m \in Eligible, i <= m, m < i + 1
        PROVE  fnIDs[m].score >= bestScore
    <3>1. m = i
      BY <1>a, <1>b, <2>4
    <3>2. fnIDs[i].member = isMemberFunction
      BY <3>1 DEF Eligible
    <3> QED
      BY <1>1, <3>1, <3>2 DEF PassOver
  <2>5. best = Uninitialised => \A m \in Eligible : i + 1 <= m
    <3> SUFFICES ASSUME best = Uninitialised, NEW m \in Eligible PROVE i + 1 <= m
      OBVIOUS
    <3>1. bestScore = NoMatch /\ i <= m
      BY <1>t DEF ScannedBest
    <3>2. fnIDs[m].score < NoMatch
      BY DEF Eligible
    <3>3. CASE m < i + 1
      BY <1>b, <1>c, <2>4, <3>1, <3>2, <3>3, Scores
    <3> QED
      BY <1>b, <1>c, <3>3
  <2>6. best # Uninitialised =>
          \A m \in Eligible :
            m < i + 1 => bestScore < fnIDs[m].score
                         \/ (bestScore = fnIDs[m].score /\ best <= m)
    <3> SUFFICES ASSUME best # Uninitialised, NEW m \in Eligible, m < i + 1
                 PROVE  bestScore < fnIDs[m].score
                        \/ (bestScore = fnIDs[m].score /\ best <= m)
      OBVIOUS
    <3>1. CASE m < i
      BY <1>t, <3>1 DEF ScannedBest
    <3>2. CASE ~(m < i)
      <4>1. best < i
        BY <1>t DEF ScannedBest
      <4>2. i <= m
        BY <1>b, <1>c, <3>2
      <4>3. fnIDs[m].score >= bestScore
        BY <2>4, <4>2
      <4>4. best <= m
        BY <1>b, <1>c, <4>1, <4>2
      <4> QED
        BY <1>c, <4>3, <4>4
    <3> QED
      BY <3>1, <3>2
  <2>7. best # Uninitialised => best < i + 1
    BY <1>t, <1>a, <1>b DEF ScannedBest
  <2>8. result = Scanning
    BY <1>1 DEF PassOver
  <2>9. ScannedBest'
    BY <1>1, <1>t, <2>1, <2>5, <2>6, <2>7, <2>8 DEF PassOver, ScannedBest
  <2> QED
    BY <2>3, <2>9 DEF IInv
<1>2. CASE TakeAsBest
  <2>1. fnIDs' = fnIDs /\ Eligible' = Eligible
    BY <1>2 DEF TakeAsBest, Eligible
  <2>2. i \in 1 .. Len(fnIDs)
    BY <1>2, <1>a, <1>b DEF TakeAsBest
  <2>3. /\ i' \in 1 .. Len(fnIDs') + 1
        /\ best' \in 0 .. Len(fnIDs')
        /\ bestScore' \in 0 .. NoMatch
    BY <1>2, <1>a, <2>2 DEF TakeAsBest
  <2>4. TypeOK'
    BY <1>2, <1>t, <2>3 DEF TakeAsBest, TypeOK
  <2>5. fnIDs[i].score < bestScore
    BY <1>2 DEF TakeAsBest
  <2>6. fnIDs[i].score < NoMatch
    <3>1. fnIDs[i].score \in Int /\ bestScore \in Int /\ bestScore <= NoMatch
      BY <1>a, <1>b, <2>2, Scores
    <3> QED
      BY <2>5, <3>1, Scores
  <2>7. i \in Eligible
    BY <1>2, <2>2, <2>6 DEF TakeAsBest, Eligible
  <2>8. ASSUME NEW m \in Eligible, m < i + 1
        PROVE  \/ fnIDs[i].score < fnIDs[m].score
               \/ (fnIDs[i].score = fnIDs[m].score /\ i <= m)
    <3>1. CASE m = i
      BY <1>a, <1>b, <3>1
    <3>2. CASE m # i
      <4>1. m < i
        BY <1>a, <1>b, <2>8, <3>2
      <4>2. best # Uninitialised
        BY <1>t, <1>a, <1>b, <4>1 DEF ScannedBest
      <4>3. bestScore <= fnIDs[m].score
        BY <1>t, <1>a, <1>b, <4>1, <4>2 DEF ScannedBest
      <4> QED
        BY <1>a, <1>b, <2>2, <2>5, <4>3
    <3> QED
      BY <3>1, <3>2
  <2>9. /\ i # Uninitialised
        /\ i < i + 1
    BY <2>2 DEF Uninitialised
  <2>10. result = Scanning
    BY <1>2 DEF TakeAsBest
  <2>11. requiresExact' <=> (bestScore' = NeedsExact)
    BY <1>2 DEF TakeAsBest
  <2>12. ScannedBest'
    BY <1>2, <2>1, <2>7, <2>8, <2>9, <2>10, <2>11 DEF TakeAsBest, ScannedBest
  <2> QED
    BY <2>4, <2>12 DEF IInv
<1>3. CASE Return
  <2>1. result' \in {Scanning} \cup (0 .. Len(fnIDs))
    BY <1>3, <1>t, <1>a, <1>b DEF Return, Nullptr, TypeOK
  <2>2. TypeOK'
    BY <1>3, <1>t, <2>1 DEF Return, TypeOK
  <2>3. ScannedBest'
    BY <1>3, <1>t DEF Return, ScannedBest, Eligible
  <2> QED
    BY <2>2, <2>3 DEF IInv
<1>4. CASE Returned \/ UNCHANGED vars
  <2>1. UNCHANGED vars
    BY <1>4 DEF Returned
  <2> QED
    BY <1>t, <2>1 DEF vars, IInv, TypeOK, ScannedBest, Eligible
<1> QED
  BY <1>1, <1>2, <1>3, <1>4 DEF Next

\* The registry, the cursor and the best so far keep their types.
THEOREM OverloadLookupTypeOK == Spec => []TypeOK
<1>1. IInv => TypeOK
  BY DEF IInv
<1> QED
  BY InitIInv, NextIInv, <1>1, PTL DEF Spec

\* The loop invariant of getFunctionFromID (codegen.cpp, lines 277-288).
THEOREM LookupScannedBest == Spec => []ScannedBest
<1>1. IInv => ScannedBest
  BY DEF IInv
<1> QED
  BY InitIInv, NextIInv, <1>1, PTL DEF Spec

\* getFunctionFromID returns the first candidate of the lowest score, unless
\* that score is 500, and nullptr otherwise (codegen.cpp, lines 272-299).
THEOREM LookupReturnsFirstBest == Spec => []ReturnsFirstBest
<1>1. IInv => ReturnsFirstBest
  <2> SUFFICES ASSUME IInv, result # Scanning, NEW k \in 1 .. Len(fnIDs)
               PROVE  (result = k) <=> (FirstBest(k) /\ fnIDs[k].score # NeedsExact)
    BY DEF ReturnsFirstBest
  <2>t. TypeOK /\ ScannedBest
    BY DEF IInv
  <2>f. /\ Len(fnIDs) \in Nat
        /\ Eligible \subseteq 1 .. Len(fnIDs)
        /\ \A m \in 1 .. Len(fnIDs) : fnIDs[m].score \in 0 .. NoMatch
    BY <2>t, RegistryFacts
  <2>a. /\ Len(fnIDs) \in Nat
        /\ Eligible \subseteq 1 .. Len(fnIDs)
        /\ \A m \in Eligible : m \in Int /\ fnIDs[m].score \in Int
    BY <2>f, Scores
  <2>b. i = Len(fnIDs) + 1 /\ best \in 0 .. Len(fnIDs)
    BY <2>t DEF TypeOK, ScannedBest
  <2>c. result = IF ~requiresExact /\ bestScore < NoMatch THEN best ELSE Nullptr
    BY <2>t DEF ScannedBest
  <2>1. CASE best = Uninitialised
    <3>1. Eligible = {}
      BY <2>t, <2>a, <2>b, <2>1 DEF ScannedBest
    <3>2. result # k
      BY <2>c, <2>1 DEF Uninitialised, Nullptr
    <3> QED
      BY <3>1, <3>2 DEF FirstBest
  <2>2. CASE best # Uninitialised
    <3>1. /\ best \in Eligible
          /\ bestScore = fnIDs[best].score
          /\ \A m \in Eligible : \/ bestScore < fnIDs[m].score
                                   \/ (bestScore = fnIDs[m].score /\ best <= m)
      <4>1. \A m \in Eligible : m < i
        BY <2>a, <2>b
      <4> QED
        BY <2>t, <2>2, <4>1 DEF ScannedBest
    <3>2. FirstBest(k) <=> k = best
      BY <2>a, <3>1 DEF FirstBest
    <3>3. bestScore < NoMatch
      BY <3>1 DEF Eligible
    <3>4. requiresExact <=> (bestScore = NeedsExact)
      BY <2>t DEF ScannedBest
    <3>5. CASE bestScore = NeedsExact
      <4>1. result # k
        BY <2>c, <3>4, <3>5 DEF Nullptr
      <4> QED
        BY <3>1, <3>2, <3>5, <4>1
    <3>6. CASE bestScore # NeedsExact
      <4>1. result = best
        BY <2>c, <3>3, <3>4, <3>6
      <4> QED
        BY <3>1, <3>2, <3>6, <4>1
    <3> QED
      BY <3>5, <3>6
  <2> QED
    BY <2>1, <2>2
<1> QED
  BY InitIInv, NextIInv, <1>1, PTL DEF Spec

=============================================================================
