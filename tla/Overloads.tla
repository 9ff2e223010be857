------------------------------ MODULE Overloads ------------------------------
(***************************************************************************)
(* Overload scoring and lookup (src/src/codegen.cpp, functionID and the    *)
(* get*FromID functions).  Pure operators: no state, no RECURSIVE, so that *)
(* the modules proved about can use them.                                  *)
(*                                                                         *)
(* An entry of the registry functionIDs carries at least                   *)
(*    name, userArguments (a sequence of [type, exact, ref]) and           *)
(*    isMemberFunction.                                                    *)
(* A lookup passes the sequence of the base types of the actual arguments. *)
(* Lookups return an index into the registry, 0 standing for nullptr.      *)
(***************************************************************************)
EXTENDS Integers, Sequences, SequencesExt

(***************************************************************************)
(* The part of enum ASTNodeType that scoring orders by.                    *)
(***************************************************************************)
Identifier_Node == 1           \* every struct or pointer type
Integer_Node == 2
SInt128_Type == 3
SInt64_Type == 4
SInt32_Type == 5
SInt16_Type == 6
SInt8_Type == 7
Begin_Unsigned_Integers == 8
UInt128_Type == 9
UInt64_Type == 10
UInt32_Type == 11
UInt16_Type == 12
UInt8_Type == 13
Char_Type == 14
Boolean_Node == 15
Double_Type == 16
Float_Node == 17
Half_Type == 18
Struct_Type == 49              \* the type given to a method's `this'

ASTNodeTypes == (0 .. Half_Type) \cup {Struct_Type}

(***************************************************************************)
(* What getStringTypeFromLLVMType and getASTNodeTypeFromString make of the *)
(* type of an LLVM value: integers come back signed, a pointer or a struct *)
(* as an identifier.                                                       *)
(***************************************************************************)
InferredTypes == {Identifier_Node, SInt128_Type, SInt64_Type, SInt32_Type, SInt16_Type,
                  SInt8_Type, Boolean_Node, Double_Type, Float_Node, Half_Type}

IntegerTypes == Integer_Node .. Boolean_Node
FloatTypes == Double_Type .. Half_Type
UnsignedTypes == UInt128_Type .. UInt8_Type

NoMatch == 1000                \* the name differs
NameOnly == NoMatch - 1        \* same name, other arity
NeedsExact == 500              \* an #exact parameter of another type
ScoreLimit == 2 ^ 16           \* a score is a uint16_t

Distance(a, b) == IF a < b THEN b - a ELSE a - b

(***************************************************************************)
(* A type inferred from an LLVM value has lost its sign.                   *)
(***************************************************************************)
CompareASTNodeTypes(a, b, wereTypesInferred) ==
  \/ a = b
  \/ /\ wereTypesInferred
     /\ \/ /\ a < Begin_Unsigned_Integers
           /\ b \in UnsignedTypes
           /\ a = b - (Begin_Unsigned_Integers + 1)
        \/ /\ b < Begin_Unsigned_Integers
           /\ a \in UnsignedTypes
           /\ b = a - (Begin_Unsigned_Integers + 1)

\* The points one argument adds; a mismatch that involves no number is free.
Points(t1, t2, inferred) ==
  IF CompareASTNodeTypes(t1, t2, inferred) THEN 0
  ELSE CASE t1 \in IntegerTypes /\ t2 \in IntegerTypes -> Distance(t1, t2)
         [] t1 \in IntegerTypes /\ t2 \notin IntegerTypes -> Boolean_Node - Integer_Node
         [] t1 \in FloatTypes /\ t2 \in FloatTypes -> Distance(t1, t2)
         [] t1 \in FloatTypes /\ t2 \notin FloatTypes -> Half_Type - Double_Type
         [] OTHER -> 0

ExactViolated(param, t2, inferred) ==
  /\ param.exact
  /\ param.type \in IntegerTypes \cup FloatTypes
  /\ ~CompareASTNodeTypes(param.type, t2, inferred)

Differences(params, types, inferred) ==
  IF \E i \in DOMAIN params : ExactViolated(params[i], types[i], inferred)
  THEN NeedsExact
  ELSE FoldLeft(LAMBDA sum, i : (sum + Points(params[i].type, types[i], inferred))
                                  % ScoreLimit,
                0, [i \in 1 .. Len(params) |-> i])

\* functionID::compareMatch(name, arguments): 0 is a perfect match.
CompareMatch(f, name, types, inferred) ==
  CASE f.name # name -> NoMatch
    [] f.name = name /\ Len(f.userArguments) # Len(types) -> NameOnly
    [] OTHER -> Differences(f.userArguments, types, inferred)

-----------------------------------------------------------------------------
(***************************************************************************)
(* The three lookups.  Each scans the registry once and replaces its best  *)
(* only on a strict decrease: so it ends at the first of the lowest score. *)
(***************************************************************************)
\* Mutant of FirstOf: `score <= bestScore' keeps the last one.
LastOf(S) == IF \E i \in S : \A j \in S : i >= j
             THEN CHOOSE i \in S : \A j \in S : i >= j
             ELSE 0

FirstOf(S) == IF \E i \in S : \A j \in S : i <= j
              THEN CHOOSE i \in S : \A j \in S : i <= j
              ELSE 0

\* The entries a lookup of plain (of member) functions can return.
Candidates(fnIDs, score, isMember) ==
  {i \in 1 .. Len(fnIDs) : fnIDs[i].isMemberFunction = isMember /\ score[i] < NoMatch}

Lowest(score, S) == {i \in S : \A j \in S : score[i] <= score[j]}

\* A best match that wants exact types is an error, not a match.
GetFunctionFromID(fnIDs, name, types, inferred, isMember) ==
  LET score == [i \in 1 .. Len(fnIDs) |-> CompareMatch(fnIDs[i], name, types, inferred)]
      best == FirstOf(Lowest(score, Candidates(fnIDs, score, isMember)))
  IN IF best # 0 /\ score[best] # NeedsExact THEN best ELSE 0

\* The first entry of a perfect score, methods and plain functions alike.
PerfectMatches(fnIDs, name, types) ==
  {i \in 1 .. Len(fnIDs) : CompareMatch(fnIDs[i], name, types, FALSE) = 0}

GetExactFunctionFromID(fnIDs, name, types) == FirstOf(PerfectMatches(fnIDs, name, types))

\* The overload on the name alone, used for operators: every hit scores 999.
GetNamedFunctionFromID(fnIDs, name) ==
  FirstOf({i \in 1 .. Len(fnIDs) : fnIDs[i].name = name})

=============================================================================
