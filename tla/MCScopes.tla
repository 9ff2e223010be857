------------------------------ MODULE MCScopes ------------------------------
(* Every program of up to MaxNodes nodes over two names, for Scopes.         *)
EXTENDS Scopes

=============================================================================
