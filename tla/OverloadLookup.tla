---------------------------- MODULE OverloadLookup ----------------------------
(***************************************************************************)
(* The scanning loop of getFunctionFromID and getExactFunctionFromID       *)
(* (src/src/codegen.cpp), one step per registry entry.  The data of an     *)
(* entry is reduced to what the loop reads: its score against the call and *)
(* whether it is a member function.                                        *)
(***************************************************************************)
EXTENDS Overloads

CONSTANT Scans      \* the registries scanned: sequences of [score, member]

Uninitialised == 0  \* `functionID* best;' before its first assignment

Entry == [score : 0 .. NoMatch, member : BOOLEAN]

ASSUME ScansAssumption == Scans \subseteq Seq(Entry)

VARIABLES fnIDs, isMemberFunction, i, best, bestScore, requiresExact, result

vars == <<fnIDs, isMemberFunction, i, best, bestScore, requiresExact, result>>

Scanning == -1      \* the value of result before the function returns
Nullptr == 0

Init ==
  /\ fnIDs \in Scans
  /\ isMemberFunction \in BOOLEAN
  /\ i = 1
  /\ best = Uninitialised
  /\ bestScore = NoMatch
  /\ requiresExact = FALSE
  /\ result = Scanning

\* An entry of the other kind, or no better than the best so far.
PassOver ==
  /\ result = Scanning
  /\ i <= Len(fnIDs)
  /\ \/ fnIDs[i].member # isMemberFunction
     \/ fnIDs[i].score >= bestScore
  /\ i' = i + 1
  /\ UNCHANGED <<fnIDs, isMemberFunction, best, bestScore, requiresExact, result>>

\* Mutant of TakeAsBest: the flag of an earlier best of score 500 is not reset.
TakeAsBestKeepFlag ==
  /\ result = Scanning
  /\ i <= Len(fnIDs)
  /\ fnIDs[i].member = isMemberFunction
  /\ fnIDs[i].score < bestScore
  /\ best' = i
  /\ bestScore' = fnIDs[i].score
  /\ requiresExact' = (requiresExact \/ fnIDs[i].score = NeedsExact)
  /\ i' = i + 1
  /\ UNCHANGED <<fnIDs, isMemberFunction, result>>

TakeAsBest ==
  /\ result = Scanning
  /\ i <= Len(fnIDs)
  /\ fnIDs[i].member = isMemberFunction
  /\ fnIDs[i].score < bestScore
  /\ best' = i
  /\ bestScore' = fnIDs[i].score
  /\ requiresExact' = (fnIDs[i].score = NeedsExact)
  /\ i' = i + 1
  /\ UNCHANGED <<fnIDs, isMemberFunction, result>>

Return ==
  /\ result = Scanning
  /\ i = Len(fnIDs) + 1
  /\ result' = IF ~requiresExact /\ bestScore < NoMatch THEN best ELSE Nullptr
  /\ UNCHANGED <<fnIDs, isMemberFunction, i, best, bestScore, requiresExact>>

Returned == result # Scanning /\ UNCHANGED vars

Next == PassOver \/ TakeAsBest \/ Return \/ Returned

Spec == Init /\ [][Next]_vars /\ WF_vars(Next)

-----------------------------------------------------------------------------
TypeOK ==
  /\ fnIDs \in Seq(Entry)
  /\ isMemberFunction \in BOOLEAN
  /\ i \in 1 .. Len(fnIDs) + 1
  /\ best \in 0 .. Len(fnIDs)
  /\ bestScore \in 0 .. NoMatch
  /\ requiresExact \in BOOLEAN
  /\ result \in {Scanning} \cup (0 .. Len(fnIDs))

\* The entries a finished scan has to choose from, as the lookups of module
\* Overloads define them.
Eligible == {k \in 1 .. Len(fnIDs) : /\ fnIDs[k].member = isMemberFunction
                                     /\ fnIDs[k].score < NoMatch}

FirstBest(k) ==
  /\ k \in Eligible
  /\ \A m \in Eligible : \/ fnIDs[k].score < fnIDs[m].score
                         \/ (fnIDs[k].score = fnIDs[m].score /\ k <= m)

\* The function returns the first candidate of the lowest score, and nullptr when
\* there is none or when that score is 500.  So an uninitialised `best' is never
\* handed out, and what the loop returns is what GetFunctionFromID
\* of module Overloads says.
ReturnsFirstBest ==
  result # Scanning =>
    \A k \in 1 .. Len(fnIDs) :
       (result = k) <=> (FirstBest(k) /\ fnIDs[k].score # NeedsExact)

\* What holds between two iterations: `best' is the first best of the entries
\* scanned so far, and the flag says whether its score is 500.
ScannedBest ==
  /\ best = Uninitialised => bestScore = NoMatch /\ \A m \in Eligible : i <= m
  /\ best # Uninitialised =>
       /\ best < i
       /\ best \in Eligible
       /\ bestScore = fnIDs[best].score
       /\ \A m \in Eligible :
            m < i => \/ bestScore < fnIDs[m].score
                     \/ (bestScore = fnIDs[m].score /\ best <= m)
  /\ requiresExact <=> (bestScore = NeedsExact)
  /\ result # Scanning =>
       /\ i = Len(fnIDs) + 1
       /\ result = IF ~requiresExact /\ bestScore < NoMatch THEN best ELSE Nullptr

=============================================================================
