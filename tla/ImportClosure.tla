---------------------------- MODULE ImportClosure ----------------------------
(***************************************************************************)
(* What the import loop promises: every module that a directive asks for,  *)
(* in the program or in a module already loaded, is loaded once, and the   *)
(* loop ends when nothing more is asked for, or with a failure.            *)
(***************************************************************************)
EXTENDS Naturals

VARIABLES wanted, loaded, outcome

closureVars == <<wanted, loaded, outcome>>

Init == /\ loaded = {}
        /\ outcome = "none"

\* A module may ask for others.
Load ==
  /\ outcome = "none"
  /\ \E name \in wanted \ loaded : loaded' = loaded \cup {name}
  /\ wanted \subseteq wanted'
  /\ UNCHANGED outcome

Finish ==
  /\ outcome = "none"
  /\ wanted \subseteq loaded
  /\ outcome' = "complete"
  /\ UNCHANGED <<wanted, loaded>>

Fail ==
  /\ outcome = "none"
  /\ outcome' = "failed"
  /\ UNCHANGED <<wanted, loaded>>

Next == Load \/ Finish \/ Fail

Spec == Init /\ [][Next]_closureVars

=============================================================================
