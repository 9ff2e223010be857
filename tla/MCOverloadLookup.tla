-------------------------- MODULE MCOverloadLookup --------------------------
(***************************************************************************)
(* Every registry of up to MaxFns entries whose scores are those that      *)
(* matter to the scan: a perfect match, two near ones, a violated #exact,  *)
(* an arity mismatch and another name.                                     *)
(***************************************************************************)
EXTENDS OverloadLookup

CONSTANT MaxFns

Scores == {0, 1, 2, NeedsExact, NameOnly, NoMatch}

MCScans == UNION {[1 .. n -> [score : Scores, member : BOOLEAN]] : n \in 0 .. MaxFns}

=============================================================================
