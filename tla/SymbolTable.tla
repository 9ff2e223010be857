----------------------------- MODULE SymbolTable -----------------------------
(***************************************************************************)
(* What the function registry promises to the rest of the compiler, whatever *)
(* the order of passes and declarations: symbols are only ever added, until  *)
(* the table is sealed; a definition or a use is never taken back; and only  *)
(* symbols without a (counted) use are removed.                              *)
(***************************************************************************)
EXTENDS Integers

VARIABLES
  declared,   \* symbols are numbered from 1 in order of declaration
  defined,    \* those that have a body
  used,       \* those a counted call refers to
  removed,
  sealed      \* no more code is generated

tableVars == <<declared, defined, used, removed, sealed>>

Init ==
  /\ declared = 0
  /\ defined = {}
  /\ used = {}
  /\ removed = {}
  /\ sealed = FALSE

Declare ==
  /\ ~sealed
  /\ declared' = declared + 1
  /\ UNCHANGED <<defined, used, removed, sealed>>

\* A body, possibly together with the declaration itself (methods).
Define ==
  /\ ~sealed
  /\ declared' \in {declared, declared + 1}
  /\ \E s \in 1 .. declared' : defined' = defined \cup {s}
  /\ UNCHANGED <<used, removed, sealed>>

Use ==
  /\ ~sealed
  /\ \E s \in 1 .. declared : used' = used \cup {s}
  /\ UNCHANGED <<declared, defined, removed, sealed>>

\* The compiler gives up, perhaps on the very symbol it declares or refers to.
Abandon ==
  /\ ~sealed
  /\ sealed' = TRUE
  /\ declared' \in {declared, declared + 1}
  /\ used' = used \/ \E s \in 1 .. declared : used' = used \cup {s}
  /\ UNCHANGED <<defined, removed>>

Seal ==
  /\ ~sealed
  /\ sealed' = TRUE
  /\ removed' \in SUBSET ((1 .. declared) \ used)
  /\ UNCHANGED <<declared, defined, used>>

Next == Declare \/ Define \/ Use \/ Abandon \/ Seal

Spec == Init /\ [][Next]_tableVars

=============================================================================
