---------------------------- MODULE CodegenProofs ----------------------------
(***************************************************************************)
(* Theorems about Codegen for every set of programs:                       *)
(*                                                                         *)
(*   CodegenTypeOK                 the passes keep their types              *)
(*   CodegenUniqueIdentity         no prototype is registered twice         *)
(*   CodegenErasedAreUncalled      erased functions have no counted call    *)
(*   CodegenOneBody                second bodies are #replaceable           *)
(*   CodegenBindingIsStable        later methods capture no earlier call    *)
(*   CodegenImplementsSymbolTable  the registry refines SymbolTable         *)
(*                                                                         *)
(* TypeOK is inductive once it is known that in pass 2 every struct that is *)
(* no redefinition has its entry in structDefinitions (TypeInv).  The other *)
(* five rest on TypeInv and on what one step may do to functionIDs: add the *)
(* prototype of the declaration at hand, add a body to it, or count a use   *)
(* (RegistryStep).  That bindings are stable rests besides on pass 1 having *)
(* registered every function under the root node (Registered).             *)
(***************************************************************************)
EXTENDS Codegen, TLAPS, WellFoundedInduction

-----------------------------------------------------------------------------
(***************************************************************************)
(* Operators of the model                                                  *)
(***************************************************************************)
\* Every non-empty set of naturals has a least element.
LEMMA MinNat ==
  ASSUME NEW S \in SUBSET Nat, S # {}
  PROVE  \E i \in S : \A j \in S : i <= j
<1> DEFINE R == OpToRel(<, Nat)
<1>1. IsWellFoundedOn(R, Nat)
  BY NatLessThanWellFounded
<1>2. \A x, y \in Nat : x < y => <<x, y>> \in R
  BY DEF OpToRel
<1> HIDE DEF R
<1>3. PICK x \in S : \A y \in S : ~ (<<y, x>> \in R)
  BY <1>1, WFMin
<1>4. ASSUME NEW y \in S PROVE x <= y
  <2>1. x \in Nat /\ y \in Nat
    OBVIOUS
  <2>2. ~(y < x)
    BY <1>2, <1>3, <2>1
  <2> QED
    BY <2>1, <2>2
<1> QED
  BY <1>4

\* FirstOf is a member of the set, or 0 when the set is empty.
LEMMA FirstOfSet ==
  ASSUME NEW n \in Nat, NEW S \in SUBSET (1 .. n)
  PROVE  /\ FirstOf(S) \in 0 .. n
         /\ FirstOf(S) # 0 => FirstOf(S) \in S
         /\ FirstOf(S) = 0 => S = {}
<1>1. S \in SUBSET Nat
  OBVIOUS
<1>2. CASE S = {}
  <2>1. FirstOf(S) = 0
    BY <1>2 DEF FirstOf
  <2> QED
    BY <1>2, <2>1
<1>3. CASE S # {}
  <2>1. \E i \in S : \A j \in S : i <= j
    BY <1>1, <1>3, MinNat
  <2>2. FirstOf(S) \in S
    BY <2>1 DEF FirstOf
  <2>3. FirstOf(S) \in 1 .. n
    BY <2>2
  <2>4. FirstOf(S) \in 0 .. n /\ FirstOf(S) # 0
    BY <2>3
  <2> QED
    BY <2>2, <2>4
<1> QED
  BY <1>2, <1>3

\* Max is the greatest element of a set of indexes.
LEMMA MaxUpTo ==
  ASSUME NEW n \in Nat, NEW s \in SUBSET (1 .. n), s # {}
  PROVE  Max(s) \in s
<1> DEFINE T == {j \in Nat : \E x \in s : j = n - x}
<1>1. T # {} /\ T \in SUBSET Nat
  <2>1. PICK x \in s : TRUE
    OBVIOUS
  <2>2. n - x \in T
    BY <2>1
  <2> QED
    BY <2>2
<1>2. PICK i \in T : \A j \in T : i <= j
  BY <1>1, MinNat
<1>3. PICK x \in s : i = n - x
  BY <1>2
<1>4. \A y \in s : x >= y
  <2>1. \A y \in s : n - y \in T
    OBVIOUS
  <2> QED
    BY <1>2, <1>3, <2>1
<1> QED
  BY <1>4 DEF Max

\* A sequence of parameters scores 0 against its own types.
LEMMA SelfDifferences ==
  ASSUME NEW params, NEW n \in Nat, n = Len(params), NEW types,
         DOMAIN params = 1 .. n,
         \A i \in 1 .. n : types[i] = params[i].type
  PROVE  Differences(params, types, FALSE) = 0
<1> DEFINE seq == [i \in 1 .. Len(params) |-> i]
           op(y, x) == (y + Points(params[x].type, types[x], FALSE)) % ScoreLimit
           Body(g) == [s \in SUBSET (DOMAIN seq) |->
                         IF s = {} THEN 0
                         ELSE LET x == Max(s) IN op(g[s \ {x}], seq[x])]
           sum == CHOOSE g : g = Body(g)
<1>1. Differences(params, types, FALSE) = sum[DOMAIN seq]
  <2>1. ~ \E i \in DOMAIN params : ExactViolated(params[i], types[i], FALSE)
    BY DEF ExactViolated, CompareASTNodeTypes
  <2>2. Differences(params, types, FALSE) = FoldLeft(op, 0, seq)
    BY <2>1, Zenon DEF Differences
  <2> QED
    BY <2>2, Zenon DEF FoldLeft, MapThenFoldSet
<1>2. \A i \in 1 .. n : op(0, i) = 0
  <2>1. ScoreLimit = 65536
    BY DEF ScoreLimit
  <2>2. (0 + 0) % 65536 = 0
    OBVIOUS
  <2>3. \A i \in 1 .. n : Points(params[i].type, types[i], FALSE) = 0
    BY DEF Points, CompareASTNodeTypes
  <2> SUFFICES ASSUME NEW i \in 1 .. n
               PROVE  (0 + Points(params[i].type, types[i], FALSE)) % ScoreLimit = 0
    BY Zenon
  <2> DEFINE p == Points(params[i].type, types[i], FALSE)
  <2>4. p = 0
    BY <2>3
  <2> HIDE DEF p
  <2>5. (0 + p) % ScoreLimit = 0
    BY <2>1, <2>2, <2>4
  <2> QED
    BY <2>5 DEF p
<1>3. /\ DOMAIN seq = 1 .. n
      /\ \A i \in 1 .. n : seq[i] = i
  OBVIOUS
<1> HIDE DEF seq, op
<1>4. sum = Body(sum)
  <2> DEFINE zero == [s \in SUBSET (DOMAIN seq) |-> 0]
  <2>1. zero = Body(zero)
    <3>1. ASSUME NEW s \in SUBSET (1 .. n), s # {}
          PROVE  op(zero[s \ {Max(s)}], seq[Max(s)]) = 0
      <4>1. Max(s) \in s
        BY <3>1, MaxUpTo
      <4>2. zero[s \ {Max(s)}] = 0
        BY <1>3
      <4> QED
        BY <1>2, <1>3, <4>1, <4>2
    <3> HIDE DEF zero
    <3>2. \A s \in SUBSET (DOMAIN seq) :
             0 = IF s = {} THEN 0 ELSE LET x == Max(s) IN op(zero[s \ {x}], seq[x])
      BY <1>3, <3>1, Zenon
    <3> USE DEF zero
    <3> QED
      BY <3>2, Zenon
  <2> QED
    BY <2>1, Zenon
<1> HIDE DEF sum
<1>5. ASSUME NEW k \in 0 .. n, sum[1 .. k] # 0
      PROVE  FALSE
  <2> DEFINE Bad == {j \in 0 .. n : sum[1 .. j] # 0}
  <2>1. PICK j \in Bad : \A i \in Bad : j <= i
    <3>1. Bad # {} /\ Bad \in SUBSET Nat
      BY <1>5
    <3> QED
      BY <3>1, MinNat
  <2>2. j # 0
    <3>1. 1 .. 0 = {} /\ {} \in SUBSET (DOMAIN seq)
      OBVIOUS
    <3>2. sum[{}] = 0
      BY <1>4, <3>1, Zenon
    <3> QED
      BY <2>1, <3>1, <3>2
  <2>3. j \in 1 .. n /\ j - 1 \in 0 .. n /\ sum[1 .. (j - 1)] = 0
    <3>1. j \in 1 .. n /\ j - 1 \in 0 .. n
      BY <2>1, <2>2
    <3>2. j - 1 \notin Bad
      BY <2>1, <3>1
    <3> QED
      BY <3>1, <3>2
  <2>4. /\ Max(1 .. j) = j
        /\ (1 .. j) \ {j} = 1 .. (j - 1)
        /\ 1 .. j \in SUBSET (DOMAIN seq)
        /\ 1 .. j # {}
    BY <1>3, <2>3 DEF Max
  <2>5. sum[1 .. j] = op(sum[1 .. (j - 1)], j)
    <3>1. sum[1 .. j] = op(sum[(1 .. j) \ {Max(1 .. j)}], seq[Max(1 .. j)])
      BY <1>4, <2>4, Zenon
    <3> QED
      BY <1>3, <2>3, <2>4, <3>1
  <2> QED
    BY <1>2, <2>1, <2>3, <2>5
<1>6. n \in 0 .. n /\ sum[1 .. n] = 0
  BY <1>5
<1> QED
  BY <1>1, <1>3, <1>6

\* The lookups of Overloads return an index of the registry, or 0 for nullptr.
LEMMA LookupRange ==
  ASSUME NEW fnIDs, Len(fnIDs) \in Nat, NEW name, NEW types, NEW inferred, NEW isMember
  PROVE  /\ GetFunctionFromID(fnIDs, name, types, inferred, isMember) \in 0 .. Len(fnIDs)
         /\ GetExactFunctionFromID(fnIDs, name, types) \in 0 .. Len(fnIDs)
         /\ GetNamedFunctionFromID(fnIDs, name) \in 0 .. Len(fnIDs)
<1> DEFINE score == [i \in 1 .. Len(fnIDs) |-> CompareMatch(fnIDs[i], name, types, inferred)]
           hits == Lowest(score, Candidates(fnIDs, score, isMember))
<1>1. hits \in SUBSET (1 .. Len(fnIDs))
  BY DEF Lowest, Candidates
<1>2. FirstOf(hits) \in 0 .. Len(fnIDs)
  BY <1>1, FirstOfSet
<1>3. GetFunctionFromID(fnIDs, name, types, inferred, isMember) \in {0, FirstOf(hits)}
  BY DEF GetFunctionFromID
<1>4. GetFunctionFromID(fnIDs, name, types, inferred, isMember) \in 0 .. Len(fnIDs)
  BY <1>2, <1>3
<1>5. GetExactFunctionFromID(fnIDs, name, types) \in 0 .. Len(fnIDs)
  <2>1. PerfectMatches(fnIDs, name, types) \in SUBSET (1 .. Len(fnIDs))
    BY DEF PerfectMatches
  <2> QED
    BY <2>1, FirstOfSet DEF GetExactFunctionFromID
<1>6. GetNamedFunctionFromID(fnIDs, name) \in 0 .. Len(fnIDs)
  <2>1. {i \in 1 .. Len(fnIDs) : fnIDs[i].name = name} \in SUBSET (1 .. Len(fnIDs))
    OBVIOUS
  <2> QED
    BY <2>1, FirstOfSet DEF GetNamedFunctionFromID
<1> QED
  BY <1>4, <1>5, <1>6

-----------------------------------------------------------------------------
\* The kind of a declaration tells functions from structs.
LEMMA DeclarationKinds ==
  ASSUME NEW d \in Declaration
  PROVE  /\ d.kind # "struct" => d \in FunctionDecl
         /\ d.kind = "struct" => d.name \in STRING /\ d.methods \in Seq(FunctionDecl)
  BY DEF Declaration, FunctionDecl, StructDecl

\* The node at hand, wherever the passes are, is a declaration of the program.
LEMMA DeclAtHand ==
  ASSUME TypeOK, at <= Len(prog),
         methodAt = 0 => prog[at].kind # "struct",
         methodAt # 0 => methodAt <= Len(prog[at].methods)
  PROVE  /\ Decl \in FunctionDecl
         /\ QualifiedName \in Seq(STRING)
<1>1. prog[at] \in Declaration
  BY DEF TypeOK, CursorOK
<1>2. CASE methodAt = 0
  <2>1. Decl \in FunctionDecl
    BY <1>1, <1>2, DeclarationKinds DEF Decl
  <2>2. Decl.name \in STRING
    BY <2>1 DEF FunctionDecl
  <2> QED
    BY <1>2, <2>1, <2>2 DEF QualifiedName
<1>3. CASE methodAt # 0
  <2>1. prog[at].kind = "struct" /\ methodAt \in Nat
    BY <1>3 DEF TypeOK, CursorOK
  <2>2. prog[at].name \in STRING /\ prog[at].methods \in Seq(FunctionDecl)
    BY <1>1, <2>1, DeclarationKinds
  <2>3. methodAt \in 1 .. Len(prog[at].methods)
    BY <1>3, <2>1, <2>2
  <2>4. Decl \in FunctionDecl
    BY <1>3, <2>2, <2>3 DEF Decl
  <2>5. Decl.name \in STRING
    BY <2>4 DEF FunctionDecl
  <2>6. <<Decl.name>> \in Seq(STRING) /\ <<prog[at].name, Decl.name>> \in Seq(STRING)
    BY <2>2, <2>5
  <2>7. QualifiedName \in {<<Decl.name>>, <<prog[at].name, Decl.name>>}
    BY DEF QualifiedName
  <2> QED
    BY <2>4, <2>6, <2>7
<1> QED
  BY <1>2, <1>3

\* What generatePrototype makes of a function at hand is a registry entry.
LEMMA NewEntry ==
  ASSUME Decl \in FunctionDecl, QualifiedName \in Seq(STRING)
  PROVE  NewFunctionID \in FunctionID
<1>1. /\ Decl.params \in Seq(Param)
      /\ Decl.variadic \in BOOLEAN
      /\ Decl.structReturn \in BOOLEAN
  BY DEF FunctionDecl
<1>2. Len(Decl.params) + (IF Decl.structReturn THEN 1 ELSE 0)
                       + (IF methodAt # 0 THEN 1 ELSE 0) \in Nat
  <2>1. Len(Decl.params) \in Nat
    BY <1>1
  <2>2. (IF Decl.structReturn THEN 1 ELSE 0) \in {0, 1}
    OBVIOUS
  <2>3. (IF methodAt # 0 THEN 1 ELSE 0) \in {0, 1}
    OBVIOUS
  <2>4. \A l \in Nat, a, b \in {0, 1} : l + a + b \in Nat
    OBVIOUS
  <2> QED
    BY <2>1, <2>2, <2>3, <2>4, Zenon
<1>3. (methodAt # 0 /\ ~Decl.special) \in BOOLEAN
  OBVIOUS
<1> QED
  BY <1>1, <1>2, <1>3 DEF NewFunctionID, FunctionID

\* generatePrototype: the registry grows by the new entry, or stays as it is, and
\* Prototype is in it.
LEMMA Registration ==
  ASSUME TypeOK, Decl \in FunctionDecl, QualifiedName \in Seq(STRING)
  PROVE  /\ WithPrototype \in Seq(FunctionID)
         /\ Len(WithPrototype) \in {Len(functionIDs), Len(functionIDs) + 1}
         /\ Prototype \in 1 .. Len(WithPrototype)
         /\ \A i \in 1 .. Len(functionIDs) : WithPrototype[i] = functionIDs[i]
         /\ Existing = 0 => /\ WithPrototype = Append(functionIDs, NewFunctionID)
                            /\ Prototype = Len(functionIDs) + 1
                            /\ WithPrototype[Prototype] = NewFunctionID
         /\ Existing # 0 => WithPrototype = functionIDs /\ Prototype = Existing
<1>1. functionIDs \in Seq(FunctionID) /\ Len(functionIDs) \in Nat
  BY DEF TypeOK, RegistryOK
<1>2. Existing \in 0 .. Len(functionIDs)
  BY <1>1, LookupRange DEF Existing
<1>3. NewFunctionID \in FunctionID
  BY NewEntry
<1>4. CASE Existing = 0
  <2>1. WithPrototype = Append(functionIDs, NewFunctionID) /\ Prototype = Len(functionIDs) + 1
    BY <1>4 DEF WithPrototype, Prototype
  <2> QED
    BY <1>1, <1>3, <1>4, <2>1
<1>5. CASE Existing # 0
  <2>1. WithPrototype = functionIDs /\ Prototype = Existing
    BY <1>5 DEF WithPrototype, Prototype
  <2> QED
    BY <1>1, <1>2, <1>5, <2>1
<1> QED
  BY <1>4, <1>5

\* Setting the uses of an entry leaves its other fields alone.
LEMMA UsesField ==
  ASSUME NEW f \in FunctionID, NEW u \in Nat
  PROVE  /\ [f EXCEPT !.uses = u] \in FunctionID
         /\ [f EXCEPT !.uses = u].name = f.name
         /\ [f EXCEPT !.uses = u].userArguments = f.userArguments
         /\ [f EXCEPT !.uses = u].isMemberFunction = f.isMemberFunction
         /\ [f EXCEPT !.uses = u].blocks = f.blocks
         /\ [f EXCEPT !.uses = u].uses = u
  BY Zenon DEF FunctionID

\* Setting the blocks of an entry leaves its other fields alone.
LEMMA BlocksField ==
  ASSUME NEW f \in FunctionID, NEW b \in Nat
  PROVE  /\ [f EXCEPT !.blocks = b] \in FunctionID
         /\ [f EXCEPT !.blocks = b].name = f.name
         /\ [f EXCEPT !.blocks = b].userArguments = f.userArguments
         /\ [f EXCEPT !.blocks = b].isMemberFunction = f.isMemberFunction
         /\ [f EXCEPT !.blocks = b].uses = f.uses
         /\ [f EXCEPT !.blocks = b].blocks = b
  BY Zenon DEF FunctionID

\* CountUse adds one to the uses of one entry.
LEMMA Counting ==
  ASSUME functionIDs \in Seq(FunctionID), NEW c \in 1 .. Len(functionIDs)
  PROVE  /\ CountUse(c) \in Seq(FunctionID)
         /\ Len(CountUse(c)) = Len(functionIDs)
         /\ \A i \in 1 .. Len(functionIDs) :
              /\ CountUse(c)[i].name = functionIDs[i].name
              /\ CountUse(c)[i].userArguments = functionIDs[i].userArguments
              /\ CountUse(c)[i].isMemberFunction = functionIDs[i].isMemberFunction
              /\ CountUse(c)[i].blocks = functionIDs[i].blocks
              /\ CountUse(c)[i].uses = functionIDs[i].uses + (IF i = c THEN 1 ELSE 0)
<1> DEFINE used == functionIDs[c].uses + 1
           entry == [functionIDs[c] EXCEPT !.uses = used]
<1>1. \A i \in 1 .. Len(functionIDs) : functionIDs[i] \in FunctionID
  OBVIOUS
<1>2. \A i \in 1 .. Len(functionIDs) : functionIDs[i].uses \in Nat
  BY <1>1 DEF FunctionID
<1>3. used \in Nat /\ functionIDs[c] \in FunctionID
  BY <1>1, <1>2
<1>4. CountUse(c) = [functionIDs EXCEPT ![c] = entry]
  BY DEF CountUse
<1>5. /\ entry \in FunctionID
      /\ entry.name = functionIDs[c].name
      /\ entry.userArguments = functionIDs[c].userArguments
      /\ entry.isMemberFunction = functionIDs[c].isMemberFunction
      /\ entry.blocks = functionIDs[c].blocks
      /\ entry.uses = used
  <2> HIDE DEF used
  <2> QED
    BY <1>3, UsesField, Zenon
<1> HIDE DEF entry
<1>6. CountUse(c) \in Seq(FunctionID) /\ Len(CountUse(c)) = Len(functionIDs)
  BY <1>4, <1>5
<1>7. \A i \in 1 .. Len(functionIDs) :
        CountUse(c)[i] = IF i = c THEN entry ELSE functionIDs[i]
  BY <1>4
<1> QED
  BY <1>2, <1>5, <1>6, <1>7

\* A sequence of indexes is one of indexes into a longer registry.
LEMMA LongerSeq ==
  ASSUME NEW m \in Nat, NEW n \in Nat, m <= n, NEW s \in Seq(1 .. m)
  PROVE  s \in Seq(1 .. n)
  OBVIOUS

-----------------------------------------------------------------------------
\* Every struct a pass has met has a definition, so pass 2 finds those of pass 1.
StructsDeclared ==
  \A d \in 1 .. Len(prog) :
    prog[d].kind = "struct" /\ (pass # TypePass \/ d < at)
      => prog[d].name \in DOMAIN structDefinitions

TypeInv == TypeOK /\ StructsDeclared

\* Indexes stay valid when the registry grows.
LEMMA RegistryGrows ==
  ASSUME TypeOK, functionIDs' \in Seq(FunctionID), Len(functionIDs) <= Len(functionIDs')
  PROVE  /\ fn \in 0 .. Len(functionIDs')
         /\ memberFunctions \in Seq(1 .. Len(functionIDs'))
         /\ \A s \in DOMAIN structDefinitions :
              structDefinitions[s] \in [token : 1 .. Len(prog),
                                        memberFunctions : Seq(1 .. Len(functionIDs'))]
         /\ erased \subseteq 1 .. Len(functionIDs')
         /\ calls \subseteq [caller : 1 .. Len(functionIDs'), callee : 1 .. Len(functionIDs'),
                             call : CallExpr]
<1>1. Len(functionIDs) \in Nat /\ Len(functionIDs') \in Nat
  BY DEF TypeOK, RegistryOK
<1>2. 1 .. Len(functionIDs) \subseteq 1 .. Len(functionIDs')
  BY <1>1
<1>3. \A s \in Seq(1 .. Len(functionIDs)) : s \in Seq(1 .. Len(functionIDs'))
  BY <1>1, LongerSeq
<1>4. fn \in 0 .. Len(functionIDs') /\ memberFunctions \in Seq(1 .. Len(functionIDs'))
  BY <1>1, <1>3 DEF TypeOK, RegistryOK
<1>5. \A s \in DOMAIN structDefinitions :
        structDefinitions[s] \in [token : 1 .. Len(prog),
                                  memberFunctions : Seq(1 .. Len(functionIDs'))]
  BY <1>3 DEF TypeOK, RegistryOK
<1>6. erased \subseteq 1 .. Len(functionIDs')
  BY <1>2 DEF TypeOK, OutcomeOK
<1>7. calls \subseteq [caller : 1 .. Len(functionIDs'), callee : 1 .. Len(functionIDs'),
                       call : CallExpr]
  BY <1>2 DEF TypeOK, OutcomeOK
<1> QED
  BY <1>4, <1>5, <1>6, <1>7

\* The type invariant holds before the first pass.
LEMMA InitTypeInv == Init => TypeInv
<1> SUFFICES ASSUME Init PROVE TypeInv
  OBVIOUS
<1>1. prog \in Seq(Declaration) /\ Len(prog) \in Nat
  BY ProgramsAssumption DEF Init
<1>2. CursorOK
  BY <1>1 DEF Init, CursorOK, TypePass, PrototypePass, BodyPass
<1>3. RegistryOK
  BY DEF Init, RegistryOK
<1>4. OutcomeOK
  BY DEF Init, OutcomeOK
<1>5. StructsDeclared
  BY <1>1 DEF Init, StructsDeclared
<1> QED
  BY <1>2, <1>3, <1>4, <1>5 DEF TypeInv, TypeOK

-----------------------------------------------------------------------------
\* What steps of several kinds leave in order.
LEMMA SamePlace ==
  ASSUME TypeInv, stmt' \in Nat \ {0},
         UNCHANGED <<prog, pass, at, methodAt, fn, structDefinitions>>
  PROVE  CursorOK' /\ StructsDeclared'
<1>1. CursorOK'
  BY DEF TypeInv, TypeOK, CursorOK, Decl
<1>2. StructsDeclared'
  BY DEF TypeInv, StructsDeclared
<1> QED
  BY <1>1, <1>2

\* Going on to the next declaration.
LEMMA NextPlace ==
  ASSUME TypeInv, AtDeclaration, NextDeclaration, UNCHANGED <<fn, stmt>>,
         DOMAIN structDefinitions \subseteq DOMAIN structDefinitions',
         prog[at].kind = "struct" => prog[at].name \in DOMAIN structDefinitions'
  PROVE  CursorOK' /\ StructsDeclared'
<1>1. /\ at' = at + 1
      /\ UNCHANGED <<prog, pass, methodAt>>
      /\ at \in 1 .. Len(prog)
      /\ methodAt = 0
      /\ fn = 0
  BY DEF NextDeclaration, AtDeclaration
<1>2. Len(prog) \in Nat
  BY DEF TypeInv, TypeOK, CursorOK
<1>3. CursorOK'
  BY <1>1, <1>2 DEF TypeInv, TypeOK, CursorOK
<1>4. StructsDeclared'
  <2> SUFFICES ASSUME NEW d \in 1 .. Len(prog), prog[d].kind = "struct",
                      pass # TypePass \/ d < at + 1
               PROVE  prog[d].name \in DOMAIN structDefinitions'
    BY <1>1 DEF StructsDeclared
  <2>1. CASE d = at
    BY <2>1
  <2>2. CASE d # at
    <3>1. pass # TypePass \/ d < at
      BY <1>1, <1>2, <2>2
    <3> QED
      BY <3>1 DEF TypeInv, StructsDeclared
  <2> QED
    BY <2>1, <2>2
<1> QED
  BY <1>3, <1>4

\* The registry's part of TypeOK, when the registry has grown.
LEMMA GrownRegistry ==
  ASSUME TypeOK, functionIDs' \in Seq(FunctionID), Len(functionIDs) <= Len(functionIDs'),
         fn' \in 0 .. Len(functionIDs'),
         UNCHANGED <<prog, memberFunctions, structDefinitions>>
  PROVE  RegistryOK'
  BY RegistryGrows DEF RegistryOK

\* The outcome's part of TypeOK, when the registry has grown.
LEMMA GrownOutcome ==
  ASSUME TypeOK, functionIDs' \in Seq(FunctionID), Len(functionIDs) <= Len(functionIDs'),
         wasError' \in BOOLEAN, status' \in {"compiling", "exited", "written"},
         UNCHANGED <<erased, calls>>
  PROVE  OutcomeOK'
  BY RegistryGrows DEF OutcomeOK

\* A registry left alone has not shrunk.
LEMMA SameRegistry ==
  ASSUME TypeOK, UNCHANGED functionIDs
  PROVE  functionIDs' \in Seq(FunctionID) /\ Len(functionIDs) <= Len(functionIDs')
  BY DEF TypeOK, RegistryOK

\* WithPrototype is no shorter than the registry.
LEMMA GrowsByPrototype ==
  ASSUME TypeOK, Decl \in FunctionDecl, QualifiedName \in Seq(STRING),
         functionIDs' = WithPrototype
  PROVE  functionIDs' \in Seq(FunctionID) /\ Len(functionIDs) <= Len(functionIDs')
<1>1. Len(functionIDs) \in Nat
  BY DEF TypeOK, RegistryOK
<1> QED
  BY <1>1, Registration

\* The values status and wasError are given.
LEMMA Statuses ==
  ASSUME TypeOK
  PROVE  /\ UNCHANGED status => status' \in {"compiling", "exited", "written"}
         /\ Exit => status' \in {"compiling", "exited", "written"}
         /\ UNCHANGED wasError => wasError' \in BOOLEAN
         /\ wasError' = TRUE => wasError' \in BOOLEAN
         /\ fn \in 0 .. Len(functionIDs) 
         /\ stmt \in Nat \ {0}
  BY DEF TypeOK, CursorOK, RegistryOK, OutcomeOK, Exit

\* The actions on declarations other than function bodies keep TypeInv.
LEMMA DeclarationSteps ==
  ASSUME TypeInv,
         SkipInTypePass \/ RedefineStruct \/ DeclareStruct \/ EnterStruct
           \/ LeaveStruct \/ NextPass
  PROVE  TypeInv'
<1>t. TypeOK
  BY DEF TypeInv
<1>1. CASE SkipInTypePass
  <2>1. prog[at].kind # "struct"
    BY <1>1 DEF SkipInTypePass, AtDeclaration, Decl
  <2>2. CursorOK' /\ StructsDeclared'
    BY <1>1, <2>1, NextPlace DEF SkipInTypePass
  <2>3. RegistryOK'
    BY <1>1, <1>t, SameRegistry, GrownRegistry, Statuses DEF SkipInTypePass, NextDeclaration
  <2>4. OutcomeOK'
    BY <1>1, <1>t, SameRegistry, GrownOutcome, Statuses DEF SkipInTypePass
  <2> QED
    BY <2>2, <2>3, <2>4 DEF TypeInv, TypeOK
<1>2. CASE RedefineStruct
  <2>1. prog[at].name \in DOMAIN structDefinitions'
    BY <1>2 DEF RedefineStruct, StructRedefined, AtDeclaration, Decl
  <2>2. CursorOK' /\ StructsDeclared'
    BY <1>2, <2>1, NextPlace DEF RedefineStruct
  <2>3. RegistryOK'
    BY <1>2, <1>t, SameRegistry, GrownRegistry, Statuses DEF RedefineStruct, NextDeclaration
  <2>4. OutcomeOK'
    BY <1>2, <1>t, SameRegistry, GrownOutcome, Statuses DEF RedefineStruct
  <2> QED
    BY <2>2, <2>3, <2>4 DEF TypeInv, TypeOK
<1>3. CASE DeclareStruct
  <2>1. Decl = prog[at] /\ at \in 1 .. Len(prog)
    BY <1>3 DEF DeclareStruct, AtDeclaration, Decl
  <2>2. DOMAIN structDefinitions' = DOMAIN structDefinitions \cup {prog[at].name}
    BY <1>3, <2>1 DEF DeclareStruct
  <2>3. CursorOK' /\ StructsDeclared'
    BY <1>3, <2>2, NextPlace DEF DeclareStruct
  <2>4. ASSUME NEW s \in DOMAIN structDefinitions'
        PROVE  structDefinitions'[s] \in [token : 1 .. Len(prog'),
                                          memberFunctions : Seq(1 .. Len(functionIDs'))]
    <3>1. UNCHANGED <<prog, functionIDs>>
      BY <1>3 DEF DeclareStruct, NextDeclaration
    <3>2. CASE s = prog[at].name
      <4>1. structDefinitions'[s] = [token |-> at, memberFunctions |-> <<>>]
        BY <1>3, <2>1, <2>2, <3>2 DEF DeclareStruct
      <4>2. <<>> \in Seq(1 .. Len(functionIDs))
        OBVIOUS
      <4> QED
        BY <2>1, <3>1, <4>1, <4>2
    <3>3. CASE s # prog[at].name
      <4>1. s \in DOMAIN structDefinitions
        BY <2>2, <3>3
      <4>2. structDefinitions'[s] = structDefinitions[s]
        BY <1>3, <2>1, <2>2, <3>3 DEF DeclareStruct
      <4> QED
        BY <1>t, <3>1, <4>1, <4>2 DEF TypeOK, RegistryOK
    <3> QED
      BY <3>2, <3>3
  <2>5. RegistryOK'
    BY <1>3, <1>t, <2>4 DEF DeclareStruct, TypeOK, RegistryOK
  <2>6. OutcomeOK'
    BY <1>3, <1>t, SameRegistry, GrownOutcome, Statuses DEF DeclareStruct
  <2> QED
    BY <2>3, <2>5, <2>6 DEF TypeInv, TypeOK
<1>4. CASE EnterStruct
  <2>1. /\ prog[at].kind = "struct"
        /\ at \in 1 .. Len(prog)
        /\ pass = BodyPass
        /\ fn = 0
    BY <1>4 DEF EnterStruct, AtDeclaration, Decl
  <2>2. prog[at].name \in DOMAIN structDefinitions
    BY <2>1 DEF TypeInv, StructsDeclared, TypePass, BodyPass
  <2>3. Len(prog[at].methods) \in Nat
    <3>1. prog[at] \in Declaration
      BY <1>t, <2>1 DEF TypeOK, CursorOK
    <3> QED
      BY <2>1, <3>1, DeclarationKinds
  <2>4. CursorOK'
    BY <1>4, <1>t, <2>1, <2>2, <2>3 DEF EnterStruct, TypeOK, CursorOK
  <2>5. RegistryOK'
    <3>1. <<>> \in Seq(1 .. Len(functionIDs))
      OBVIOUS
    <3> QED
      BY <1>4, <1>t, <3>1 DEF EnterStruct, TypeOK, RegistryOK
  <2>6. OutcomeOK'
    BY <1>4, <1>t, SameRegistry, GrownOutcome, Statuses DEF EnterStruct
  <2>7. StructsDeclared'
    BY <1>4 DEF EnterStruct, TypeInv, StructsDeclared
  <2> QED
    BY <2>4, <2>5, <2>6, <2>7 DEF TypeInv, TypeOK
<1>5. CASE LeaveStruct
  <2>1. /\ at \in 1 .. Len(prog)
        /\ Len(prog) \in Nat
        /\ prog[at].name \in DOMAIN structDefinitions
        /\ fn = 0
    BY <1>5, <1>t DEF LeaveStruct, TypeOK, CursorOK
  <2> DEFINE new == [structDefinitions[prog[at].name] EXCEPT !.memberFunctions = memberFunctions]
  <2>2. structDefinitions' = [structDefinitions EXCEPT ![prog[at].name] = new]
    BY <1>5 DEF LeaveStruct
  <2>3. new \in [token : 1 .. Len(prog), memberFunctions : Seq(1 .. Len(functionIDs))]
    BY <1>t, <2>1 DEF TypeOK, RegistryOK
  <2> HIDE DEF new
  <2>4. DOMAIN structDefinitions' = DOMAIN structDefinitions
    BY <2>2
  <2>5. CursorOK'
    BY <1>5, <1>t, <2>1, <2>4 DEF LeaveStruct, TypeOK, CursorOK
  <2>6. StructsDeclared'
    <3> SUFFICES ASSUME NEW d \in 1 .. Len(prog), prog[d].kind = "struct",
                        pass # TypePass \/ d < at + 1
                 PROVE  prog[d].name \in DOMAIN structDefinitions
      BY <1>5, <2>4 DEF LeaveStruct, StructsDeclared
    <3>1. CASE d = at
      BY <2>1, <3>1
    <3>2. CASE d # at
      <4>1. pass # TypePass \/ d < at
        BY <2>1, <3>2
      <4> QED
        BY <4>1 DEF TypeInv, StructsDeclared
    <3> QED
      BY <3>1, <3>2
  <2>7. RegistryOK'
    <3>1. \A s \in DOMAIN structDefinitions' :
            structDefinitions'[s] \in [token : 1 .. Len(prog),
                                       memberFunctions : Seq(1 .. Len(functionIDs))]
      BY <1>t, <2>2, <2>3, <2>4 DEF TypeOK, RegistryOK
    <3> QED
      BY <1>5, <1>t, <3>1 DEF LeaveStruct, TypeOK, RegistryOK
  <2>8. OutcomeOK'
    BY <1>5, <1>t, SameRegistry, GrownOutcome, Statuses DEF LeaveStruct
  <2> QED
    BY <2>5, <2>6, <2>7, <2>8 DEF TypeInv, TypeOK
<1>6. CASE NextPass
  <2>1. /\ methodAt = 0
        /\ fn = 0
        /\ at = Len(prog) + 1
        /\ Len(prog) \in Nat
    BY <1>6, <1>t DEF NextPass, TypeOK, CursorOK
  <2>2. CursorOK'
    <3>1. pass' \in {TypePass, PrototypePass, BodyPass}
      BY <1>6, <1>t DEF NextPass, TypeOK, CursorOK, TypePass, PrototypePass, BodyPass
    <3> QED
      BY <1>6, <1>t, <2>1, <3>1 DEF NextPass, TypeOK, CursorOK
  <2>3. StructsDeclared'
    BY <1>6, <2>1 DEF NextPass, TypeInv, StructsDeclared
  <2>4. RegistryOK'
    BY <1>6, <1>t, SameRegistry, GrownRegistry, Statuses DEF NextPass
  <2>5. OutcomeOK'
    BY <1>6, <1>t, SameRegistry, GrownOutcome, Statuses DEF NextPass
  <2> QED
    BY <2>2, <2>3, <2>4, <2>5 DEF TypeInv, TypeOK
<1> QED
  BY <1>1, <1>2, <1>3, <1>4, <1>5, <1>6

\* The function at hand in AtFunction, in a declaration or in a body.
LEMMA FunctionAtHand ==
  ASSUME TypeOK,
         \/ AtDeclaration /\ Decl.kind # "struct"
         \/ AtMethod
         \/ InBody
  PROVE  Decl \in FunctionDecl /\ QualifiedName \in Seq(STRING)
<1>1. CASE AtDeclaration /\ Decl.kind # "struct"
  <2>1. methodAt = 0 /\ at <= Len(prog) /\ prog[at].kind # "struct"
    BY <1>1 DEF AtDeclaration, Decl, TypeOK, CursorOK
  <2> QED
    BY <2>1, DeclAtHand
<1>2. CASE AtMethod
  <2>1. methodAt # 0 /\ at <= Len(prog) /\ methodAt <= Len(prog[at].methods)
    BY <1>2 DEF AtMethod, TypeOK, CursorOK
  <2> QED
    BY <2>1, DeclAtHand
<1>3. CASE InBody
  <2>1. /\ at <= Len(prog)
        /\ methodAt # 0 => methodAt <= Len(prog[at].methods)
        /\ Decl.kind = "function"
    BY <1>3 DEF InBody, TypeOK, CursorOK
  <2>2. methodAt = 0 => prog[at].kind # "struct"
    BY <2>1 DEF Decl
  <2> QED
    BY <2>1, <2>2, DeclAtHand
<1> QED
  BY <1>1, <1>2, <1>3

\* Beginning, refusing, failing and ending a function body keep TypeInv.
LEMMA FunctionSteps ==
  ASSUME TypeInv,
         DeclarePrototype \/ DeclareMethod \/ RedefineFunction \/ BeginFunction
           \/ FailInBody \/ EndFunction
  PROVE  TypeInv'
<1>t. TypeOK
  BY DEF TypeInv
<1>n. /\ Len(functionIDs) \in Nat
      /\ Len(prog) \in Nat
  BY <1>t DEF TypeOK, CursorOK, RegistryOK
<1>1. CASE DeclarePrototype
  <2>1. AtDeclaration /\ Decl.kind # "struct" /\ prog[at].kind # "struct"
    BY <1>1 DEF DeclarePrototype, AtDeclaration, Decl
  <2>2. functionIDs' \in Seq(FunctionID) /\ Len(functionIDs) <= Len(functionIDs')
    BY <1>1, <1>t, <2>1, FunctionAtHand, GrowsByPrototype DEF DeclarePrototype
  <2>3. CursorOK' /\ StructsDeclared'
    <3>1. CASE NextDeclaration
      BY <1>1, <2>1, <3>1, NextPlace DEF DeclarePrototype
    <3>2. CASE UNCHANGED <<prog, pass, at, methodAt>>
      BY <1>1, <1>t, <3>2, SamePlace, Statuses DEF DeclarePrototype
    <3> QED
      BY <1>1, <3>1, <3>2 DEF DeclarePrototype
  <2>4. RegistryOK'
    <3>1. fn' \in 0 .. Len(functionIDs')
      BY <1>1, <1>t, <2>2, RegistryGrows DEF DeclarePrototype
    <3> QED
      BY <1>1, <1>t, <2>2, <3>1, GrownRegistry DEF DeclarePrototype, NextDeclaration
  <2>5. OutcomeOK'
    BY <1>1, <1>t, <2>2, GrownOutcome, Statuses DEF DeclarePrototype
  <2> QED
    BY <2>3, <2>4, <2>5 DEF TypeInv, TypeOK
<1>2. CASE DeclareMethod
  <2>1. /\ AtMethod
        /\ Decl \in FunctionDecl
        /\ QualifiedName \in Seq(STRING)
    BY <1>2, <1>t, FunctionAtHand DEF DeclareMethod
  <2>2. functionIDs' \in Seq(FunctionID) /\ Len(functionIDs) <= Len(functionIDs')
    BY <1>2, <1>t, <2>1, GrowsByPrototype DEF DeclareMethod
  <2>3. fn' \in 0 .. Len(functionIDs') /\ memberFunctions \in Seq(1 .. Len(functionIDs'))
    BY <1>2, <1>t, <2>2, RegistryGrows DEF DeclareMethod
  <2>4. memberFunctions' \in Seq(1 .. Len(functionIDs'))
    <3>1. Prototype \in 1 .. Len(functionIDs')
      BY <1>2, <1>t, <2>1, Registration DEF DeclareMethod
    <3> QED
      BY <1>2, <2>3, <3>1 DEF DeclareMethod
  <2>5. /\ methodAt # 0
        /\ fn = 0
        /\ methodAt' \in {methodAt, methodAt + 1}
    BY <1>2, <2>1 DEF DeclareMethod, AtMethod
  <2>6. Len(prog[at].methods) \in Nat
    <3>1. prog[at] \in Declaration /\ prog[at].kind = "struct"
      BY <1>t, <2>5 DEF TypeOK, CursorOK
    <3> QED
      BY <3>1, DeclarationKinds
  <2>7. methodAt' \in Nat /\ methodAt' <= Len(prog[at].methods) + 1
    BY <1>t, <2>1, <2>5, <2>6 DEF AtMethod, TypeOK, CursorOK
  <2>8. CursorOK'
    BY <1>2, <1>t, <2>5, <2>7 DEF DeclareMethod, TypeOK, CursorOK
  <2>9. RegistryOK'
    BY <1>2, <1>t, <2>2, <2>3, <2>4, RegistryGrows DEF DeclareMethod, RegistryOK
  <2>10. OutcomeOK'
    BY <1>2, <1>t, <2>2, GrownOutcome, Statuses DEF DeclareMethod
  <2>11. StructsDeclared'
    BY <1>2 DEF DeclareMethod, TypeInv, StructsDeclared
  <2> QED
    BY <2>8, <2>9, <2>10, <2>11 DEF TypeInv, TypeOK
<1>3. CASE RedefineFunction
  <2>1. RegistryOK'
    BY <1>3, <1>t, SameRegistry, GrownRegistry, Statuses DEF RedefineFunction, NextDeclaration
  <2>2. OutcomeOK'
    BY <1>3, <1>t, SameRegistry, GrownOutcome, Statuses DEF RedefineFunction
  <2>3. CursorOK' /\ StructsDeclared'
    <3>1. CASE methodAt = 0
      <4>1. AtDeclaration /\ prog[at].kind # "struct"
        BY <1>3, <3>1 DEF RedefineFunction, AtFunction, AtMethod, Decl
      <4> QED
        BY <1>3, <3>1, <4>1, NextPlace DEF RedefineFunction
    <3>2. CASE methodAt # 0
      BY <1>3, <1>t, <3>2, SamePlace, Statuses DEF RedefineFunction
    <3> QED
      BY <3>1, <3>2
  <2> QED
    BY <2>1, <2>2, <2>3 DEF TypeInv, TypeOK
<1>4. CASE BeginFunction
  <2>1. /\ Decl.kind = "function"
        /\ pass = BodyPass
        /\ AtDeclaration \/ AtMethod
    BY <1>4 DEF BeginFunction, AtFunction
  <2>2. Decl \in FunctionDecl /\ QualifiedName \in Seq(STRING)
    BY <1>t, <2>1, FunctionAtHand
  <2> DEFINE p == Prototype
             entry == [WithPrototype[p] EXCEPT !.blocks = WithPrototype[p].blocks + 1]
  <2>3. /\ WithPrototype \in Seq(FunctionID)
        /\ p \in 1 .. Len(WithPrototype)
        /\ Len(functionIDs) <= Len(WithPrototype)
    BY <1>t, <1>n, <2>2, Registration
  <2>4. WithPrototype[p] \in FunctionID /\ WithPrototype[p].blocks + 1 \in Nat
    <3>1. WithPrototype[p] \in FunctionID
      BY <2>3
    <3>2. WithPrototype[p].blocks \in Nat
      BY <3>1 DEF FunctionID
    <3> QED
      BY <3>1, <3>2
  <2>5. entry \in FunctionID
    BY <2>4, BlocksField
  <2>6. functionIDs' = [WithPrototype EXCEPT ![p] = entry]
    BY <1>4 DEF BeginFunction
  <2> HIDE DEF entry
  <2>7. /\ functionIDs' \in Seq(FunctionID)
        /\ Len(functionIDs') = Len(WithPrototype)
        /\ Len(functionIDs) <= Len(functionIDs')
        /\ p \in 1 .. Len(functionIDs')
    BY <2>3, <2>5, <2>6
  <2>8. fn' \in 0 .. Len(functionIDs')
    BY <1>4, <2>7 DEF BeginFunction
  <2>9. /\ at \in 1 .. Len(prog)
        /\ methodAt # 0 => methodAt <= Len(prog[at].methods)
    BY <1>t, <1>n, <2>1 DEF AtDeclaration, AtMethod, TypeOK, CursorOK
  <2>10. CursorOK'
    BY <1>4, <1>t, <2>1, <2>9 DEF BeginFunction, TypeOK, CursorOK, Decl
  <2>11. RegistryOK'
    BY <1>4, <1>t, <2>7, <2>8, GrownRegistry DEF BeginFunction
  <2>12. OutcomeOK'
    BY <1>4, <1>t, <2>7, GrownOutcome, Statuses DEF BeginFunction
  <2>13. StructsDeclared'
    BY <1>4 DEF BeginFunction, TypeInv, StructsDeclared
  <2> QED
    BY <2>10, <2>11, <2>12, <2>13 DEF TypeInv, TypeOK
<1>5. CASE FailInBody
  <2>1. CursorOK' /\ StructsDeclared'
    BY <1>5, <1>t, SamePlace, Statuses DEF FailInBody
  <2>2. RegistryOK'
    BY <1>5, <1>t, SameRegistry, GrownRegistry, Statuses DEF FailInBody
  <2>3. OutcomeOK'
    BY <1>5, <1>t, SameRegistry, GrownOutcome, Statuses DEF FailInBody
  <2> QED
    BY <2>1, <2>2, <2>3 DEF TypeInv, TypeOK
<1>6. CASE EndFunction
  <2>1. /\ fn # 0
        /\ pass = BodyPass
        /\ at \in 1 .. Len(prog)
        /\ methodAt # 0 => methodAt <= Len(prog[at].methods)
        /\ Decl.kind = "function"
        /\ fn \in 1 .. Len(functionIDs)
        /\ methodAt \in Nat
    BY <1>6, <1>t, <1>n DEF EndFunction, InBody, TypeOK, CursorOK, RegistryOK
  <2>2. OutcomeOK'
    BY <1>6, <1>t, SameRegistry, GrownOutcome, Statuses DEF EndFunction
  <2>3. memberFunctions' \in Seq(1 .. Len(functionIDs))
    <3>1. memberFunctions \in Seq(1 .. Len(functionIDs))
      BY <1>t DEF TypeOK, RegistryOK
    <3>2. Append(memberFunctions, fn) \in Seq(1 .. Len(functionIDs))
      BY <2>1, <3>1
    <3>3. memberFunctions' \in {memberFunctions, Append(memberFunctions, fn)}
      BY <1>6 DEF EndFunction
    <3> QED
      BY <3>1, <3>2, <3>3
  <2>4. RegistryOK'
    BY <1>6, <1>t, <1>n, <2>3 DEF EndFunction, TypeOK, RegistryOK
  <2>5. CASE methodAt = 0
    <3>1. prog[at].kind # "struct"
      BY <2>1, <2>5 DEF Decl
    <3>2. /\ at' = at + 1
          /\ fn' = 0
          /\ UNCHANGED <<prog, pass, methodAt, stmt, structDefinitions>>
      BY <1>6, <2>5 DEF EndFunction
    <3>3. CursorOK'
      BY <1>t, <1>n, <2>1, <2>5, <3>2 DEF TypeOK, CursorOK
    <3>4. StructsDeclared'
      <4> SUFFICES ASSUME NEW d \in 1 .. Len(prog), prog[d].kind = "struct"
                   PROVE  prog[d].name \in DOMAIN structDefinitions
        BY <3>2 DEF StructsDeclared
      <4>1. pass # TypePass
        BY <2>1 DEF TypePass, BodyPass
      <4> QED
        BY <4>1 DEF TypeInv, StructsDeclared
    <3> QED
      BY <2>2, <2>4, <3>3, <3>4 DEF TypeInv, TypeOK
  <2>6. CASE methodAt # 0
    <3>1. /\ methodAt' = methodAt + 1
          /\ fn' = 0
          /\ UNCHANGED <<prog, pass, at, stmt, structDefinitions>>
      BY <1>6, <2>6 DEF EndFunction
    <3>2. Len(prog[at].methods) \in Nat
      <4>1. prog[at] \in Declaration /\ prog[at].kind = "struct"
        BY <1>t, <2>1, <2>6 DEF TypeOK, CursorOK
      <4> QED
        BY <4>1, DeclarationKinds
    <3>3. CursorOK'
      BY <1>t, <1>n, <2>1, <2>6, <3>1, <3>2 DEF TypeOK, CursorOK
    <3>4. StructsDeclared'
      BY <3>1 DEF TypeInv, StructsDeclared
    <3> QED
      BY <2>2, <2>4, <3>3, <3>4 DEF TypeInv, TypeOK
  <2> QED
    BY <2>5, <2>6
<1> QED
  BY <1>1, <1>2, <1>3, <1>4, <1>5, <1>6

\* A method is found among the member functions of a struct.
LEMMA MethodCalleeRange ==
  ASSUME TypeOK, NEW call
  PROVE  MethodCallee(call) \in 0 .. Len(functionIDs)
<1>1. CASE call.on \notin DOMAIN structDefinitions
  <2>1. MethodCallee(call) = 0
    BY <1>1 DEF MethodCallee
  <2> QED
    BY <2>1 DEF TypeOK, RegistryOK
<1>2. CASE call.on \in DOMAIN structDefinitions
  <2> DEFINE known == structDefinitions[call.on].memberFunctions
             entries == [i \in 1 .. Len(known) |-> functionIDs[known[i]]]
             found == GetFunctionFromID(entries, <<call.on, call.name>>,
                                        <<Struct_Type>> \o Types(call.args), TRUE, TRUE)
  <2>1. known \in Seq(1 .. Len(functionIDs))
    BY <1>2 DEF TypeOK, RegistryOK
  <2>2. Len(entries) = Len(known) /\ Len(known) \in Nat
    BY <2>1
  <2>3. found \in 0 .. Len(known)
    BY <2>2, LookupRange
  <2>4. MethodCallee(call) = IF found = 0 THEN 0 ELSE known[found]
    BY <1>2 DEF MethodCallee
  <2> HIDE DEF known, found
  <2>5. CASE found = 0
    <3>1. Len(functionIDs) \in Nat
      BY DEF TypeOK, RegistryOK
    <3> QED
      BY <2>4, <2>5, <3>1
  <2>6. CASE found # 0
    <3>1. found \in 1 .. Len(known)
      BY <2>2, <2>3, <2>6
    <3>2. known[found] \in 1 .. Len(functionIDs)
      BY <2>1, <3>1
    <3> QED
      BY <2>4, <2>6, <3>2
  <2> QED
    BY <2>5, <2>6
<1> QED
  BY <1>1, <1>2

\* The callees of the three kinds of calls are entries, or nullptr.
LEMMA CalleeRange ==
  ASSUME TypeOK, NEW call
  PROVE  /\ PlainCallee(call) \in 0 .. Len(functionIDs)
         /\ OperatorCallee(call) \in 0 .. Len(functionIDs)
         /\ MethodCallee(call) \in 0 .. Len(functionIDs)
<1>1. Len(functionIDs) \in Nat
  BY DEF TypeOK, RegistryOK
<1> QED
  BY <1>1, LookupRange, MethodCalleeRange DEF PlainCallee, OperatorCallee

\* The call at hand is one of the body's, and its function is in the registry.
LEMMA CallAtHand ==
  ASSUME TypeOK, NEW kind, AtCall(kind)
  PROVE  /\ Call \in CallExpr
         /\ Call.kind = kind
         /\ fn \in 1 .. Len(functionIDs)
         /\ stmt + 1 \in Nat \ {0}
<1>1. InBody /\ stmt <= Len(Decl.body)
  BY DEF AtCall
<1>2. Decl \in FunctionDecl
  BY <1>1, FunctionAtHand
<1>3. Decl.body \in Seq(CallExpr)
  BY <1>2 DEF FunctionDecl
<1>4. stmt \in Nat \ {0} /\ stmt \in 1 .. Len(Decl.body)
  BY <1>1, <1>3 DEF TypeOK, CursorOK
<1>5. Call \in CallExpr /\ Call.kind = kind
  BY <1>3, <1>4 DEF Call, AtCall
<1>6. Len(functionIDs) \in Nat /\ fn \in 0 .. Len(functionIDs) /\ fn # 0
  BY <1>1 DEF TypeOK, RegistryOK, InBody
<1>7. fn \in 1 .. Len(functionIDs)
  BY <1>6
<1> QED
  BY <1>4, <1>5, <1>7

\* A call that is generated.
LEMMA EmittedCall ==
  ASSUME TypeInv, NEW kind, AtCall(kind), NextStatement,
         NEW callee \in 1 .. Len(functionIDs),
         functionIDs' = CountUse(callee) \/ UNCHANGED functionIDs,
         calls' = Emitted(callee) \/ UNCHANGED calls
  PROVE  TypeInv'
<1>t. TypeOK
  BY DEF TypeInv
<1>n. Len(functionIDs) \in Nat /\ functionIDs \in Seq(FunctionID)
  BY <1>t DEF TypeOK, RegistryOK
<1>1. functionIDs' \in Seq(FunctionID) /\ Len(functionIDs') = Len(functionIDs)
  BY <1>n, Counting
<1>2. CursorOK' /\ StructsDeclared'
  BY <1>t, CallAtHand, SamePlace DEF NextStatement
<1>3. RegistryOK'
  BY <1>t, <1>1, <1>n, Statuses, GrownRegistry DEF NextStatement
<1>4. Call \in CallExpr /\ fn \in 1 .. Len(functionIDs)
  BY <1>t, CallAtHand
<1>5. [caller |-> fn, callee |-> callee, call |-> Call]
        \in [caller : 1 .. Len(functionIDs), callee : 1 .. Len(functionIDs), call : CallExpr]
  BY <1>4
<1>6. Emitted(callee) \subseteq
        [caller : 1 .. Len(functionIDs), callee : 1 .. Len(functionIDs), call : CallExpr]
  BY <1>t, <1>5 DEF Emitted, TypeOK, OutcomeOK
<1>7. OutcomeOK'
  <2>1. calls' \subseteq
          [caller : 1 .. Len(functionIDs'), callee : 1 .. Len(functionIDs'), call : CallExpr]
    BY <1>t, <1>1, <1>6 DEF TypeOK, OutcomeOK
  <2> QED
    BY <1>t, <1>1, <2>1 DEF NextStatement, TypeOK, OutcomeOK
<1> QED
  BY <1>2, <1>3, <1>7 DEF TypeInv, TypeOK

\* A call that ends the compiler.
LEMMA FailedCall ==
  ASSUME TypeInv, NEW callee \in 0 .. Len(functionIDs), FailCall(callee)
  PROVE  TypeInv'
<1>t. TypeOK
  BY DEF TypeInv
<1>n. Len(functionIDs) \in Nat /\ functionIDs \in Seq(FunctionID)
  BY <1>t DEF TypeOK, RegistryOK
<1>1. functionIDs' \in Seq(FunctionID) /\ Len(functionIDs') = Len(functionIDs)
  <2>1. CASE callee = 0
    BY <1>n, <2>1 DEF FailCall
  <2>2. CASE callee # 0
    <3>1. callee \in 1 .. Len(functionIDs)
      BY <1>n, <2>2
    <3>2. functionIDs' = CountUse(callee)
      BY <2>2 DEF FailCall
    <3> QED
      BY <1>n, <3>1, <3>2, Counting
  <2> QED
    BY <2>1, <2>2
<1>2. CursorOK' /\ StructsDeclared'
  BY <1>t, SamePlace, Statuses DEF FailCall
<1>3. RegistryOK'
  BY <1>t, <1>1, <1>n, Statuses, GrownRegistry DEF FailCall
<1>4. OutcomeOK'
  BY <1>t, <1>1, <1>n, GrownOutcome, Statuses DEF FailCall
<1> QED
  BY <1>2, <1>3, <1>4 DEF TypeInv, TypeOK

\* The statements of a body keep TypeInv.
LEMMA CallSteps ==
  ASSUME TypeInv,
         GenerateCall \/ CallFails \/ GenerateOperator
           \/ GenerateMethodCall \/ MethodCallFails
  PROVE  TypeInv'
<1>t. TypeOK
  BY DEF TypeInv
<1>c. /\ PlainCallee(Call) \in 0 .. Len(functionIDs)
      /\ OperatorCallee(Call) \in 0 .. Len(functionIDs)
      /\ MethodCallee(Call) \in 0 .. Len(functionIDs)
  BY <1>t, CalleeRange
<1>n. Len(functionIDs) \in Nat
  BY <1>t DEF TypeOK, RegistryOK
<1>1. CASE GenerateCall
  <2>1. PlainCallee(Call) \in 1 .. Len(functionIDs)
    BY <1>1, <1>c, <1>n DEF GenerateCall
  <2> QED
    BY <1>1, <2>1, EmittedCall DEF GenerateCall
<1>2. CASE CallFails
  BY <1>2, <1>c, FailedCall DEF CallFails
<1>3. CASE GenerateOperator
  <2>1. CASE OperatorCallee(Call) = 0
    <3>1. fn \in 1 .. Len(functionIDs)
      BY <1>3, <1>t, CallAtHand DEF GenerateOperator
    <3> QED
      BY <1>3, <2>1, <3>1, EmittedCall DEF GenerateOperator
  <2>2. CASE OperatorCallee(Call) # 0
    <3>1. OperatorCallee(Call) \in 1 .. Len(functionIDs)
      BY <1>c, <1>n, <2>2
    <3> QED
      BY <1>3, <2>2, <3>1, EmittedCall DEF GenerateOperator
  <2> QED
    BY <2>1, <2>2
<1>4. CASE GenerateMethodCall
  <2>1. MethodCallee(Call) \in 1 .. Len(functionIDs)
    BY <1>4, <1>c, <1>n DEF GenerateMethodCall
  <2> QED
    BY <1>4, <2>1, EmittedCall DEF GenerateMethodCall
<1>5. CASE MethodCallFails
  BY <1>5, <1>c, FailedCall DEF MethodCallFails
<1> QED
  BY <1>1, <1>2, <1>3, <1>4, <1>5

\* TypeInv is inductive.
LEMMA NextTypeInv == TypeInv /\ [Next]_vars => TypeInv'
<1> SUFFICES ASSUME TypeInv, [Next]_vars PROVE TypeInv'
  OBVIOUS
<1>1. CASE RemoveUnusedPrototypes
  <2>1. CursorOK' /\ RegistryOK' /\ StructsDeclared'
    BY <1>1 DEF RemoveUnusedPrototypes, TypeInv, TypeOK, CursorOK, RegistryOK,
                StructsDeclared, Decl
  <2>2. Unused \subseteq 1 .. Len(functionIDs)
    BY DEF Unused, TypeInv, TypeOK, RegistryOK
  <2>3. OutcomeOK'
    BY <1>1, <2>2 DEF RemoveUnusedPrototypes, TypeInv, TypeOK, OutcomeOK
  <2> QED
    BY <2>1, <2>3 DEF TypeInv, TypeOK
<1>2. CASE Finished \/ UNCHANGED vars
  BY <1>2 DEF Finished, vars, TypeInv, TypeOK, CursorOK, RegistryOK, OutcomeOK,
              StructsDeclared, Decl
<1> QED
  BY <1>1, <1>2, DeclarationSteps, FunctionSteps, CallSteps DEF Next

\* The registry, the cursor of the passes and the outcome keep their types, for
\* programs of any length: an index into the registry is never dangling.
THEOREM CodegenTypeOK == Spec => []TypeOK
<1>1. TypeInv => TypeOK
  BY DEF TypeInv
<1> QED
  BY InitTypeInv, NextTypeInv, <1>1, PTL DEF Spec

-----------------------------------------------------------------------------
\* What a step may do to the registry.
Registers == /\ (AtDeclaration /\ Decl.kind # "struct") \/ AtMethod
             /\ Decl \in FunctionDecl
             /\ QualifiedName \in Seq(STRING)
             /\ functionIDs' = WithPrototype

Begins == /\ Decl \in FunctionDecl
          /\ QualifiedName \in Seq(STRING)
          /\ BeginFunction

Counts == \E c \in 1 .. Len(functionIDs) : functionIDs' = CountUse(c)

\* The four things a step may do to the registry.
LEMMA RegistryStep ==
  ASSUME TypeInv, [Next]_vars
  PROVE  UNCHANGED functionIDs \/ Registers \/ Begins \/ Counts
<1>t. TypeOK /\ Len(functionIDs) \in Nat
  BY DEF TypeInv, TypeOK, RegistryOK
<1>c. /\ PlainCallee(Call) \in 0 .. Len(functionIDs)
      /\ MethodCallee(Call) \in 0 .. Len(functionIDs)
  BY <1>t, CalleeRange
<1>f. ASSUME NEW c \in 0 .. Len(functionIDs), FailCall(c)
      PROVE  UNCHANGED functionIDs \/ Counts
  <2>1. CASE c = 0
    BY <1>f, <2>1 DEF FailCall
  <2>2. CASE c # 0
    <3>1. c \in 1 .. Len(functionIDs)
      BY <1>t, <2>2
    <3> QED
      BY <1>f, <2>2, <3>1 DEF FailCall, Counts
  <2> QED
    BY <2>1, <2>2
<1>1. CASE DeclarePrototype \/ DeclareMethod
  <2>1. /\ functionIDs' = WithPrototype
        /\ (AtDeclaration /\ Decl.kind # "struct") \/ AtMethod
    BY <1>1 DEF DeclarePrototype, DeclareMethod
  <2>2. Registers
    BY <1>t, <2>1, FunctionAtHand DEF Registers
  <2> QED
    BY <2>2
<1>2. CASE BeginFunction
  <2>1. (AtDeclaration /\ Decl.kind # "struct") \/ AtMethod
    BY <1>2 DEF BeginFunction, AtFunction
  <2>2. Begins
    BY <1>2, <1>t, <2>1, FunctionAtHand DEF Begins
  <2> QED
    BY <2>2
<1>3. CASE GenerateCall
  <2>1. /\ PlainCallee(Call) \in 1 .. Len(functionIDs)
        /\ functionIDs' = CountUse(PlainCallee(Call))
    BY <1>3, <1>t, <1>c DEF GenerateCall
  <2> QED
    BY <2>1 DEF Counts
<1>4. CASE GenerateMethodCall
  <2>1. /\ MethodCallee(Call) \in 1 .. Len(functionIDs)
        /\ functionIDs' = CountUse(MethodCallee(Call))
    BY <1>4, <1>t, <1>c DEF GenerateMethodCall
  <2> QED
    BY <2>1 DEF Counts
<1>5. CASE CallFails
  BY <1>5, <1>c, <1>f DEF CallFails
<1>6. CASE MethodCallFails
  BY <1>6, <1>c, <1>f DEF MethodCallFails
<1>7. CASE UNCHANGED functionIDs
  BY <1>7
<1> QED
  BY <1>1, <1>2, <1>3, <1>4, <1>5, <1>6, <1>7
     DEF Next, vars, SkipInTypePass, DeclareStruct, RedefineStruct, EnterStruct, LeaveStruct,
         RedefineFunction, FailInBody, EndFunction, GenerateOperator, NextPass,
         RemoveUnusedPrototypes, Finished

\* A body is added to the entry of the prototype, and nothing else changes.
LEMMA Beginning ==
  ASSUME TypeOK, Begins
  PROVE  /\ Len(functionIDs') = Len(WithPrototype)
         /\ Prototype \in 1 .. Len(functionIDs')
         /\ \A i \in 1 .. Len(WithPrototype) :
              /\ functionIDs'[i].name = WithPrototype[i].name
              /\ functionIDs'[i].userArguments = WithPrototype[i].userArguments
              /\ functionIDs'[i].isMemberFunction = WithPrototype[i].isMemberFunction
              /\ functionIDs'[i].uses = WithPrototype[i].uses
              /\ functionIDs'[i].blocks
                   = IF i = Prototype THEN WithPrototype[i].blocks + 1
                                      ELSE WithPrototype[i].blocks
<1> DEFINE p == Prototype
           b == WithPrototype[p].blocks + 1
           entry == [WithPrototype[p] EXCEPT !.blocks = b]
<1>1. WithPrototype \in Seq(FunctionID) /\ p \in 1 .. Len(WithPrototype)
  BY Registration DEF Begins
<1>2. WithPrototype[p] \in FunctionID
  BY <1>1
<1>3. b \in Nat
  <2>1. WithPrototype[p].blocks \in Nat
    BY <1>2 DEF FunctionID
  <2> QED
    BY <2>1
<1>4. functionIDs' = [WithPrototype EXCEPT ![p] = entry]
  BY DEF Begins, BeginFunction
<1>5. /\ entry.name = WithPrototype[p].name
      /\ entry.userArguments = WithPrototype[p].userArguments
      /\ entry.isMemberFunction = WithPrototype[p].isMemberFunction
      /\ entry.uses = WithPrototype[p].uses
      /\ entry.blocks = b
  <2> HIDE DEF b
  <2> QED
    BY <1>2, <1>3, BlocksField, Zenon
<1> HIDE DEF entry
<1>6. /\ Len(functionIDs') = Len(WithPrototype)
      /\ \A i \in 1 .. Len(WithPrototype) :
           functionIDs'[i] = IF i = p THEN entry ELSE WithPrototype[i]
  BY <1>1, <1>4
<1> QED
  BY <1>1, <1>5, <1>6

\* An entry keeps its identity, and neither its uses nor its bodies are taken back;
\* at most one entry is new, and only if no earlier entry served for it.
LEMMA EntriesKept ==
  ASSUME TypeInv, [Next]_vars
  PROVE  /\ Len(functionIDs') \in {Len(functionIDs), Len(functionIDs) + 1}
         /\ \A i \in 1 .. Len(functionIDs) :
              /\ functionIDs'[i].name = functionIDs[i].name
              /\ functionIDs'[i].userArguments = functionIDs[i].userArguments
              /\ functionIDs'[i].isMemberFunction = functionIDs[i].isMemberFunction
              /\ functionIDs'[i].uses >= functionIDs[i].uses
              /\ functionIDs'[i].blocks >= functionIDs[i].blocks
         /\ Len(functionIDs') # Len(functionIDs) =>
              /\ (AtDeclaration /\ Decl.kind # "struct") \/ AtMethod
              /\ Decl \in FunctionDecl
              /\ Existing = 0
              /\ functionIDs'[Len(functionIDs')].name = QualifiedName
              /\ functionIDs'[Len(functionIDs')].userArguments = Decl.params
              /\ functionIDs'[Len(functionIDs')].isMemberFunction
                   = NewFunctionID.isMemberFunction
<1>t. /\ TypeOK
      /\ Len(functionIDs) \in Nat
      /\ functionIDs \in Seq(FunctionID)
      /\ \A i \in 1 .. Len(functionIDs) : functionIDs[i] \in FunctionID
  BY DEF TypeInv, TypeOK, RegistryOK
<1>n. \A f \in FunctionID : f.uses \in Nat /\ f.blocks \in Nat
  BY DEF FunctionID
<1>1. CASE UNCHANGED functionIDs
  BY <1>1, <1>t, <1>n
<1>2. CASE Registers \/ Begins
  <2>1. /\ Len(WithPrototype) \in {Len(functionIDs), Len(functionIDs) + 1}
        /\ \A i \in 1 .. Len(functionIDs) : WithPrototype[i] = functionIDs[i]
        /\ Existing = 0 => /\ WithPrototype[Prototype] = NewFunctionID
                           /\ Prototype = Len(functionIDs) + 1
        /\ Existing # 0 => WithPrototype = functionIDs
    BY <1>2, <1>t, Registration DEF Registers, Begins
  <2>2. /\ Len(functionIDs') = Len(WithPrototype)
        /\ \A i \in 1 .. Len(WithPrototype) :
             /\ functionIDs'[i].name = WithPrototype[i].name
             /\ functionIDs'[i].userArguments = WithPrototype[i].userArguments
             /\ functionIDs'[i].isMemberFunction = WithPrototype[i].isMemberFunction
             /\ functionIDs'[i].uses = WithPrototype[i].uses
             /\ \/ functionIDs'[i].blocks = WithPrototype[i].blocks
                \/ functionIDs'[i].blocks = WithPrototype[i].blocks + 1
    BY <1>2, <1>t, Beginning DEF Registers
  <2>3. \A i \in 1 .. Len(functionIDs) :
          /\ functionIDs'[i].name = functionIDs[i].name
          /\ functionIDs'[i].userArguments = functionIDs[i].userArguments
          /\ functionIDs'[i].isMemberFunction = functionIDs[i].isMemberFunction
          /\ functionIDs'[i].uses >= functionIDs[i].uses
          /\ functionIDs'[i].blocks >= functionIDs[i].blocks
    BY <1>t, <1>n, <2>1, <2>2
  <2>4. CASE Existing = 0
    <3>1. Len(WithPrototype) = Len(functionIDs) + 1
      BY <1>2, <1>t, <2>4, Registration DEF Registers, Begins
    <3>2. /\ NewFunctionID.name = QualifiedName
          /\ NewFunctionID.userArguments = Decl.params
      BY DEF NewFunctionID
    <3>3. /\ functionIDs'[Len(functionIDs')].name = QualifiedName
          /\ functionIDs'[Len(functionIDs')].userArguments = Decl.params
          /\ functionIDs'[Len(functionIDs')].isMemberFunction = NewFunctionID.isMemberFunction
      BY <1>t, <2>1, <2>2, <2>4, <3>1, <3>2
    <3>4. Decl \in FunctionDecl /\ ((AtDeclaration /\ Decl.kind # "struct") \/ AtMethod)
      BY <1>2 DEF Registers, Begins, BeginFunction, AtFunction
    <3> QED
      BY <2>1, <2>2, <2>3, <2>4, <3>3, <3>4
  <2>5. CASE Existing # 0
    BY <2>1, <2>2, <2>3, <2>5
  <2> QED
    BY <2>4, <2>5
<1>3. CASE Counts
  <2>1. PICK c \in 1 .. Len(functionIDs) : functionIDs' = CountUse(c)
    BY <1>3 DEF Counts
  <2> QED
    BY <1>t, <1>n, <2>1, Counting
<1> QED
  BY <1>1, <1>2, <1>3, RegistryStep

\* The score of an entry depends on its identity alone.
LEMMA SameScoreOf ==
  ASSUME NEW f, NEW g, f.name = g.name, f.userArguments = g.userArguments,
         NEW name, NEW types, NEW inferred
  PROVE  CompareMatch(f, name, types, inferred) = CompareMatch(g, name, types, inferred)
  BY DEF CompareMatch

\* So does its score against types that are not inferred.
LEMMA SameScore ==
  ASSUME NEW f, NEW g, f.name = g.name, f.userArguments = g.userArguments,
         NEW name, NEW types
  PROVE  CompareMatch(f, name, types, FALSE) = CompareMatch(g, name, types, FALSE)
  BY DEF CompareMatch

\* An entry of another name is no match.
LEMMA OtherName ==
  ASSUME NEW f, NEW name, NEW types, NEW inferred, f.name # name
  PROVE  CompareMatch(f, name, types, inferred) = NoMatch
  BY DEF CompareMatch

\* UniqueIdentity is inductive, given the types.
LEMMA NextUniqueIdentity == TypeInv /\ UniqueIdentity /\ [Next]_vars => UniqueIdentity'
<1> SUFFICES ASSUME TypeInv, UniqueIdentity, [Next]_vars,
                    NEW i \in 1 .. Len(functionIDs'), NEW j \in 1 .. Len(functionIDs'), i < j
             PROVE  CompareMatch(functionIDs'[i], functionIDs'[j].name,
                                 Types(functionIDs'[j].userArguments), FALSE) # 0
  BY DEF UniqueIdentity, Types
<1> DEFINE n == Len(functionIDs)
<1>1. /\ n \in Nat
      /\ Len(functionIDs') \in {n, n + 1}
      /\ i \in 1 .. n
  BY EntriesKept DEF TypeInv, TypeOK, RegistryOK
<1>2. CompareMatch(functionIDs'[i], functionIDs'[j].name,
                   Types(functionIDs'[j].userArguments), FALSE)
        = CompareMatch(functionIDs[i], functionIDs'[j].name,
                       Types(functionIDs'[j].userArguments), FALSE)
  <2>1. /\ functionIDs'[i].name = functionIDs[i].name
        /\ functionIDs'[i].userArguments = functionIDs[i].userArguments
    BY <1>1, EntriesKept
  <2> QED
    BY <2>1, SameScore
<1>3. CASE j \in 1 .. n
  <2>1. /\ functionIDs'[j].name = functionIDs[j].name
        /\ functionIDs'[j].userArguments = functionIDs[j].userArguments
    BY <1>3, EntriesKept
  <2>2. CompareMatch(functionIDs[i], functionIDs[j].name,
                     Types(functionIDs[j].userArguments), FALSE) # 0
    BY <1>1, <1>3 DEF UniqueIdentity
  <2> QED
    BY <1>2, <2>1, <2>2
<1>4. CASE j \notin 1 .. n
  <2>1. j = Len(functionIDs') /\ Len(functionIDs') # n
    BY <1>1, <1>4
  <2>2. /\ Existing = 0
        /\ functionIDs'[j].name = QualifiedName
        /\ functionIDs'[j].userArguments = Decl.params
    BY <2>1, EntriesKept
  <2>3. PerfectMatches(functionIDs, QualifiedName, Types(Decl.params)) = {}
    <3>1. PerfectMatches(functionIDs, QualifiedName, Types(Decl.params)) \in SUBSET (1 .. n)
      BY DEF PerfectMatches
    <3> QED
      BY <1>1, <2>2, <3>1, FirstOfSet DEF Existing, GetExactFunctionFromID
  <2>4. CompareMatch(functionIDs[i], QualifiedName, Types(Decl.params), FALSE) # 0
    BY <1>1, <2>3 DEF PerfectMatches
  <2> QED
    BY <1>2, <2>2, <2>4
<1> QED
  BY <1>3, <1>4

\* No two entries of the registry have the same identity, whatever the program:
\* generatePrototype finds the entry it made before (codegen.cpp, lines 2828-2839).
THEOREM CodegenUniqueIdentity == Spec => []UniqueIdentity
<1>1. Init => UniqueIdentity
  BY DEF Init, UniqueIdentity
<1> QED
  BY InitTypeInv, NextTypeInv, <1>1, NextUniqueIdentity, PTL DEF Spec

-----------------------------------------------------------------------------
\* Every call of a function or a method has been counted, and what the end of the
\* compilation erased has not.
UsesCounted ==
  /\ \A k \in calls : k.call.kind # "operator" => functionIDs[k.callee].uses > 0
  /\ status = "written" => erased = Unused

\* UsesCounted is inductive, given the types.
LEMMA NextUsesCounted == TypeInv /\ UsesCounted /\ [Next]_vars => UsesCounted'
<1> SUFFICES ASSUME TypeInv, UsesCounted, [Next]_vars PROVE UsesCounted'
  OBVIOUS
<1>t. /\ TypeOK
      /\ Len(functionIDs) \in Nat
      /\ functionIDs \in Seq(FunctionID)
      /\ \A i \in 1 .. Len(functionIDs) : functionIDs[i].uses \in Nat
  <2>1. TypeOK /\ functionIDs \in Seq(FunctionID)
    BY DEF TypeInv, TypeOK, RegistryOK
  <2>2. \A i \in 1 .. Len(functionIDs) : functionIDs[i] \in FunctionID
    BY <2>1
  <2>3. \A f \in FunctionID : f.uses \in Nat
    BY DEF FunctionID
  <2> QED
    BY <2>1, <2>2, <2>3
<1>u. \A i \in 1 .. Len(functionIDs') : functionIDs'[i].uses \in Nat
  <2>1. functionIDs' \in Seq(FunctionID)
    BY NextTypeInv DEF TypeInv, TypeOK, RegistryOK
  <2>2. \A i \in 1 .. Len(functionIDs') : functionIDs'[i] \in FunctionID
    BY <2>1
  <2>3. \A f \in FunctionID : f.uses \in Nat
    BY DEF FunctionID
  <2> QED
    BY <2>2, <2>3
<1>o. ASSUME NEW k \in calls, k.call.kind # "operator"
      PROVE  functionIDs'[k.callee].uses > 0
  <2>1. k.callee \in 1 .. Len(functionIDs)
    BY <1>t DEF TypeOK, OutcomeOK
  <2>2. /\ functionIDs[k.callee].uses > 0
        /\ functionIDs'[k.callee].uses >= functionIDs[k.callee].uses
        /\ k.callee \in 1 .. Len(functionIDs')
    BY <1>t, <1>o, <2>1, EntriesKept DEF UsesCounted
  <2> QED
    BY <1>t, <1>u, <2>1, <2>2
<1>c. ASSUME NEW callee \in 1 .. Len(functionIDs), functionIDs' = CountUse(callee)
      PROVE  functionIDs'[callee].uses > 0
  BY <1>t, <1>c, Counting
<1>1. ASSUME NEW k \in calls', k.call.kind # "operator"
      PROVE  functionIDs'[k.callee].uses > 0
  <2>1. CASE k \in calls
    BY <1>o, <1>1, <2>1
  <2>2. CASE k \notin calls
    <3>1. CASE GenerateCall
      <4>1. /\ PlainCallee(Call) \in 1 .. Len(functionIDs)
            /\ functionIDs' = CountUse(PlainCallee(Call))
            /\ calls' = Emitted(PlainCallee(Call))
        BY <1>t, <3>1, CalleeRange DEF GenerateCall
      <4>2. k.callee = PlainCallee(Call)
        BY <1>1, <2>2, <4>1 DEF Emitted
      <4> QED
        BY <1>c, <4>1, <4>2
    <3>2. CASE GenerateMethodCall
      <4>1. /\ MethodCallee(Call) \in 1 .. Len(functionIDs)
            /\ functionIDs' = CountUse(MethodCallee(Call))
            /\ calls' = Emitted(MethodCallee(Call))
        BY <1>t, <3>2, CalleeRange DEF GenerateMethodCall
      <4>2. k.callee = MethodCallee(Call)
        BY <1>1, <2>2, <4>1 DEF Emitted
      <4> QED
        BY <1>c, <4>1, <4>2
    <3>3. CASE GenerateOperator
      <4>1. Call.kind = "operator"
        BY <1>t, <3>3, CallAtHand DEF GenerateOperator
      <4>2. k.call = Call
        BY <1>1, <2>2, <3>3 DEF GenerateOperator, Emitted
      <4> QED
        BY <1>1, <4>1, <4>2
    <3>4. CASE UNCHANGED calls
      BY <1>1, <2>2, <3>4
    <3> QED
      BY <3>1, <3>2, <3>3, <3>4
         DEF Next, vars, SkipInTypePass, DeclareStruct, RedefineStruct, EnterStruct,
             LeaveStruct, DeclarePrototype, DeclareMethod, BeginFunction, RedefineFunction,
             FailInBody, EndFunction, CallFails, MethodCallFails, FailCall, NextPass,
             RemoveUnusedPrototypes, Finished
  <2> QED
    BY <2>1, <2>2
<1>2. status' = "written" => erased' = Unused'
  <2>1. CASE RemoveUnusedPrototypes
    BY <2>1 DEF RemoveUnusedPrototypes, Unused
  <2>2. CASE UNCHANGED vars
    BY <2>2 DEF vars, UsesCounted, Unused
  <2>3. CASE status' = "exited"
    BY <2>3
  <2>4. CASE status = "compiling" /\ UNCHANGED status
    BY <2>4
  <2> QED
    BY <2>1, <2>2, <2>3, <2>4
       DEF Next, SkipInTypePass, DeclareStruct, RedefineStruct, EnterStruct,
           LeaveStruct, DeclarePrototype, DeclareMethod, BeginFunction, RedefineFunction,
           FailInBody, EndFunction, GenerateCall, CallFails, GenerateOperator,
           GenerateMethodCall, MethodCallFails, FailCall, NextPass, Finished,
           AtDeclaration, AtMethod, AtFunction, InBody, AtCall, NextStatement, Exit
<1> QED
  BY <1>1, <1>2 DEF UsesCounted

\* removeUnusedPrototypes (codegen.cpp, lines 3078-3084) erases no function that a
\* call of a function or of a method refers to.
THEOREM CodegenErasedAreUncalled == Spec => []ErasedAreUncalled
<1>1. Init => UsesCounted
  BY DEF Init, UsesCounted
<1>2. TypeInv /\ UsesCounted => ErasedAreUncalled
  <2> SUFFICES ASSUME TypeInv, UsesCounted, status = "written",
                      NEW k \in calls, k.call.kind # "operator"
               PROVE  k.callee \notin erased
    BY DEF ErasedAreUncalled
  <2>1. functionIDs[k.callee].uses > 0 /\ erased = Unused
    BY DEF UsesCounted
  <2>2. functionIDs[k.callee].uses # 0
    BY <2>1
  <2> QED
    BY <2>1, <2>2 DEF Unused
<1> QED
  BY InitTypeInv, NextTypeInv, <1>1, <1>2, NextUsesCounted, PTL DEF Spec

-----------------------------------------------------------------------------
\* A declaration of the program is #replaceable.
SomeReplaceable ==
  \E d \in 1 .. Len(prog) :
     \/ prog[d].kind # "struct" /\ prog[d].replaceable
     \/ prog[d].kind = "struct" /\ \E m \in DOMAIN prog[d].methods :
                                      prog[d].methods[m].replaceable

\* A second body that BeginFunction allows is that of a #replaceable declaration.
LEMMA ReplaceableAtHand ==
  ASSUME TypeOK, BeginFunction, Decl.replaceable
  PROVE  SomeReplaceable
<1>1. AtDeclaration \/ AtMethod
  BY DEF BeginFunction, AtFunction
<1>2. at \in 1 .. Len(prog) /\ Len(prog) \in Nat
  BY <1>1 DEF AtDeclaration, AtMethod, TypeOK, CursorOK
<1>3. CASE methodAt = 0
  <2>1. prog[at].kind # "struct" /\ prog[at].replaceable
    BY <1>3 DEF BeginFunction, AtFunction, Decl
  <2> QED
    BY <1>2, <2>1 DEF SomeReplaceable
<1>4. CASE methodAt # 0
  <2>1. /\ prog[at].kind = "struct"
        /\ methodAt \in Nat
        /\ methodAt <= Len(prog[at].methods)
    BY <1>1, <1>4 DEF AtDeclaration, AtMethod, TypeOK, CursorOK
  <2>2. prog[at].methods \in Seq(FunctionDecl)
    <3>1. prog[at] \in Declaration
      BY <1>2 DEF TypeOK, CursorOK
    <3> QED
      BY <2>1, <3>1, DeclarationKinds
  <2>3. methodAt \in DOMAIN prog[at].methods
    BY <1>4, <2>1, <2>2
  <2>4. prog[at].methods[methodAt].replaceable
    BY <1>4 DEF Decl
  <2> QED
    BY <1>2, <2>1, <2>3, <2>4 DEF SomeReplaceable
<1> QED
  BY <1>3, <1>4

\* No step changes the program.
LEMMA ProgramKept == [Next]_vars => UNCHANGED prog
<1>1. SkipInTypePass \/ DeclareStruct \/ RedefineStruct \/ EnterStruct \/ LeaveStruct
        => UNCHANGED prog
  BY DEF SkipInTypePass, DeclareStruct, RedefineStruct, EnterStruct, LeaveStruct,
         NextDeclaration
<1>2. DeclarePrototype => UNCHANGED prog
  BY DEF DeclarePrototype, NextDeclaration
<1>3. DeclareMethod \/ BeginFunction \/ FailInBody \/ EndFunction => UNCHANGED prog
  BY DEF DeclareMethod, BeginFunction, FailInBody, EndFunction
<1>4. RedefineFunction => UNCHANGED prog
  BY DEF RedefineFunction, NextDeclaration
<1>5. GenerateCall \/ GenerateOperator \/ GenerateMethodCall => UNCHANGED prog
  BY DEF GenerateCall, GenerateOperator, GenerateMethodCall, NextStatement
<1>6. \A c : FailCall(c) => UNCHANGED prog
  BY DEF FailCall
<1>7. CallFails \/ MethodCallFails => UNCHANGED prog
  BY <1>6 DEF CallFails, MethodCallFails
<1>8. NextPass \/ RemoveUnusedPrototypes \/ Finished \/ UNCHANGED vars => UNCHANGED prog
  BY DEF NextPass, RemoveUnusedPrototypes, Finished, vars
<1> QED
  BY <1>1, <1>2, <1>3, <1>4, <1>5, <1>7, <1>8 DEF Next

\* No entry gets a second body but from a #replaceable declaration.
LEMMA NextOneBody == TypeInv /\ OneBody /\ [Next]_vars => OneBody'
<1> SUFFICES ASSUME TypeInv, OneBody, [Next]_vars
             PROVE  OneBody'
  OBVIOUS
<1> SUFFICES ASSUME NEW i \in 1 .. Len(functionIDs'), functionIDs'[i].blocks > 1
             PROVE  SomeReplaceable
  <2>1. UNCHANGED prog
    BY ProgramKept
  <2>2. functionIDs' \in Seq(FunctionID)
    BY NextTypeInv DEF TypeInv, TypeOK, RegistryOK
  <2>3. DOMAIN functionIDs' = 1 .. Len(functionIDs')
    BY <2>2
  <2>4. SomeReplaceable' <=> SomeReplaceable
    BY <2>1 DEF SomeReplaceable
  <2> QED
    BY <2>3, <2>4 DEF OneBody, SomeReplaceable
<1>t. /\ TypeOK
      /\ Len(functionIDs) \in Nat
      /\ functionIDs \in Seq(FunctionID)
      /\ DOMAIN functionIDs = 1 .. Len(functionIDs)
  BY DEF TypeInv, TypeOK, RegistryOK
<1>n. \A k \in 1 .. Len(functionIDs) : functionIDs[k].blocks \in Nat
  <2>1. \A k \in 1 .. Len(functionIDs) : functionIDs[k] \in FunctionID
    BY <1>t
  <2>2. \A f \in FunctionID : f.blocks \in Nat
    BY DEF FunctionID
  <2> QED
    BY <2>1, <2>2
<1>o. ASSUME NEW k \in 1 .. Len(functionIDs), functionIDs[k].blocks > 1
      PROVE  SomeReplaceable
  BY <1>o, <1>t DEF OneBody, SomeReplaceable
<1>p. ASSUME Registers \/ Begins
      PROVE  /\ \A k \in 1 .. Len(functionIDs) : WithPrototype[k] = functionIDs[k]
             /\ Len(WithPrototype) \in {Len(functionIDs), Len(functionIDs) + 1}
             /\ Existing = 0 => /\ Len(WithPrototype) = Len(functionIDs) + 1
                                /\ Prototype = Len(functionIDs) + 1
                                /\ WithPrototype[Prototype].blocks = 0
             /\ Existing # 0 => Prototype = Existing /\ Existing \in 1 .. Len(functionIDs)
                                /\ Len(WithPrototype) = Len(functionIDs)
  <2>1. /\ \A k \in 1 .. Len(functionIDs) : WithPrototype[k] = functionIDs[k]
        /\ Len(WithPrototype) \in {Len(functionIDs), Len(functionIDs) + 1}
        /\ Prototype \in 1 .. Len(WithPrototype)
        /\ Existing = 0 => /\ WithPrototype = Append(functionIDs, NewFunctionID)
                           /\ Prototype = Len(functionIDs) + 1
                           /\ WithPrototype[Prototype] = NewFunctionID
        /\ Existing # 0 => WithPrototype = functionIDs /\ Prototype = Existing
    BY <1>p, <1>t, Registration DEF Registers, Begins
  <2>2. NewFunctionID.blocks = 0
    BY DEF NewFunctionID
  <2> QED
    BY <1>t, <2>1, <2>2
<1>1. CASE UNCHANGED functionIDs
  BY <1>1, <1>o
<1>2. CASE Registers
  <2>1. functionIDs' = WithPrototype
    BY <1>2 DEF Registers
  <2>2. CASE i \in 1 .. Len(functionIDs)
    BY <1>2, <1>p, <1>o, <2>1, <2>2
  <2>3. CASE i \notin 1 .. Len(functionIDs)
    <3>1. i = Prototype /\ WithPrototype[i].blocks = 0
      BY <1>2, <1>t, <1>p, <2>1, <2>3
    <3> QED
      BY <2>1, <3>1
  <2> QED
    BY <2>2, <2>3
<1>3. CASE Begins
  <2>1. /\ Len(functionIDs') = Len(WithPrototype)
        /\ functionIDs'[i].blocks = IF i = Prototype THEN WithPrototype[i].blocks + 1
                                                     ELSE WithPrototype[i].blocks
    BY <1>3, <1>t, Beginning
  <2>2. CASE Decl.replaceable
    BY <1>3, <1>t, <2>2, ReplaceableAtHand DEF Begins
  <2>3. CASE ~HasBody /\ i = Prototype
    <3>1. WithPrototype[i].blocks = 0
      <4>1. CASE Existing = 0
        BY <1>3, <1>p, <2>3, <4>1
      <4>2. CASE Existing # 0
        <5>1. i = Existing /\ i \in 1 .. Len(functionIDs) /\ WithPrototype[i] = functionIDs[i]
          BY <1>3, <1>p, <2>3, <4>2
        <5>2. ~(functionIDs[i].blocks > 0)
          BY <2>3, <4>2, <5>1 DEF HasBody
        <5> QED
          BY <1>n, <5>1, <5>2
      <4> QED
        BY <4>1, <4>2
    <3> QED
      BY <2>1, <2>3, <3>1
  <2>4. CASE i # Prototype
    <3>1. functionIDs'[i].blocks = WithPrototype[i].blocks
      BY <2>1, <2>4
    <3>2. i \in 1 .. Len(functionIDs)
      BY <1>3, <1>t, <1>p, <2>1, <2>4
    <3> QED
      BY <1>3, <1>p, <1>o, <3>1, <3>2
  <2>5. ~HasBody \/ Decl.replaceable
    BY <1>3 DEF Begins, BeginFunction
  <2> QED
    BY <2>2, <2>3, <2>4, <2>5
<1>4. CASE Counts
  <2>1. PICK c \in 1 .. Len(functionIDs) : functionIDs' = CountUse(c)
    BY <1>4 DEF Counts
  <2>2. i \in 1 .. Len(functionIDs) /\ functionIDs'[i].blocks = functionIDs[i].blocks
    BY <1>t, <2>1, Counting
  <2> QED
    BY <1>o, <2>2
<1> QED
  BY <1>1, <1>2, <1>3, <1>4, RegistryStep

\* generateFunction (codegen.cpp, line 2896) gives a function a second body only
\* when a declaration says #replaceable.
THEOREM CodegenOneBody == Spec => []OneBody
<1>1. Init => OneBody
  BY DEF Init, OneBody
<1> QED
  BY InitTypeInv, NextTypeInv, <1>1, NextOneBody, PTL DEF Spec

-----------------------------------------------------------------------------
\* FirstOf is the least element of a set of indexes.
LEMMA FirstOfLeast ==
  ASSUME NEW n \in Nat, NEW S \in SUBSET (1 .. n), NEW k \in S, \A j \in S : k <= j
  PROVE  FirstOf(S) = k
<1>1. \A i \in S : (\A j \in S : i <= j) => i = k
  BY Z3
<1> QED
  BY <1>1 DEF FirstOf

\* A lookup does not see a new entry of the other kind (method or no method), or of
\* another name.
LEMMA LookupKept ==
  ASSUME NEW r, NEW q, Len(r) \in Nat, Len(q) \in {Len(r), Len(r) + 1},
         \A i \in 1 .. Len(r) : /\ q[i].name = r[i].name
                                /\ q[i].userArguments = r[i].userArguments
                                /\ q[i].isMemberFunction = r[i].isMemberFunction,
         NEW name, NEW types, NEW inferred, NEW isMember,
         Len(q) # Len(r) => \/ q[Len(q)].isMemberFunction # isMember
                            \/ q[Len(q)].name # name
  PROVE  GetFunctionFromID(q, name, types, inferred, isMember)
           = GetFunctionFromID(r, name, types, inferred, isMember)
<1> DEFINE n == Len(r)
           before == [i \in 1 .. Len(r) |-> CompareMatch(r[i], name, types, inferred)]
           after == [i \in 1 .. Len(q) |-> CompareMatch(q[i], name, types, inferred)]
           old == Candidates(r, before, isMember)
           new == Candidates(q, after, isMember)
<1>1. \A i \in 1 .. n : after[i] = before[i]
  <2>1. \A i \in 1 .. n : i \in 1 .. Len(q)
    OBVIOUS
  <2>2. ASSUME NEW i \in 1 .. n
        PROVE  CompareMatch(q[i], name, types, inferred) = CompareMatch(r[i], name, types, inferred)
    <3>1. q[i].name = r[i].name /\ q[i].userArguments = r[i].userArguments
      OBVIOUS
    <3> QED
      BY <3>1, SameScoreOf
  <2> QED
    BY <2>1, <2>2
<1>2. Len(q) # n => \/ q[Len(q)].isMemberFunction # isMember
                    \/ after[Len(q)] = NoMatch
  <2>1. ASSUME Len(q) # n, q[Len(q)].name # name
        PROVE  after[Len(q)] = NoMatch
    <3>1. CompareMatch(q[Len(q)], name, types, inferred) = NoMatch
      BY <2>1, OtherName
    <3>2. Len(q) \in 1 .. Len(q)
      BY <2>1
    <3> QED
      BY <3>1, <3>2
  <2> QED
    BY <2>1
<1> HIDE DEF before, after
<1>3. new = old
  <2>1. \A i \in 1 .. Len(q) : i \in 1 .. n \/ (i = Len(q) /\ Len(q) # n)
    OBVIOUS
  <2>2. \A i \in 1 .. Len(q) : i \notin 1 .. n => i \notin new
    <3> SUFFICES ASSUME NEW i \in 1 .. Len(q), i \notin 1 .. n, i \in new
                 PROVE  FALSE
      OBVIOUS
    <3>1. i = Len(q) /\ Len(q) # n
      BY <2>1
    <3>2. q[i].isMemberFunction = isMember /\ after[i] < NoMatch
      BY DEF Candidates
    <3>3. after[i] = NoMatch
      BY <1>2, <3>1, <3>2
    <3> QED
      BY <3>2, <3>3 DEF NoMatch
  <2>3. \A i \in 1 .. n : i \in 1 .. Len(q)
    OBVIOUS
  <2>4. \A i \in 1 .. n : i \in new <=> i \in old
    BY <1>1, <2>3 DEF Candidates
  <2>5. new \subseteq 1 .. Len(q) /\ old \subseteq 1 .. n
    BY DEF Candidates
  <2> QED
    BY <2>2, <2>4, <2>5
<1>4. old \subseteq 1 .. n
  BY DEF Candidates
<1> HIDE DEF old, new
<1>5. Lowest(after, new) = Lowest(before, old)
  BY <1>1, <1>3, <1>4 DEF Lowest
<1>6. Lowest(before, old) \in SUBSET (1 .. n)
  BY <1>4 DEF Lowest
<1> DEFINE best == FirstOf(Lowest(before, old))
<1>7. best \in 0 .. n
  BY <1>6, FirstOfSet
<1>8. best # 0 => after[best] = before[best]
  BY <1>1, <1>7
<1>9. GetFunctionFromID(r, name, types, inferred, isMember)
        = IF best # 0 /\ before[best] # NeedsExact THEN best ELSE 0
  BY Zenon DEF GetFunctionFromID, before, old
<1>10. GetFunctionFromID(q, name, types, inferred, isMember)
         = IF best # 0 /\ after[best] # NeedsExact THEN best ELSE 0
  BY <1>5, Zenon DEF GetFunctionFromID, after, new
<1> HIDE DEF best
<1> HIDE DEF before, after
<1>11. (IF best # 0 /\ after[best] # NeedsExact THEN best ELSE 0)
         = IF best # 0 /\ before[best] # NeedsExact THEN best ELSE 0
  BY <1>8
<1> QED
  BY <1>9, <1>10, <1>11

\* A lookup by name keeps returning what it has found.
LEMMA NamedLookupKept ==
  ASSUME NEW r, NEW q, Len(r) \in Nat, Len(q) \in {Len(r), Len(r) + 1},
         \A i \in 1 .. Len(r) : q[i].name = r[i].name,
         NEW name, GetNamedFunctionFromID(r, name) # 0
  PROVE  GetNamedFunctionFromID(q, name) = GetNamedFunctionFromID(r, name)
<1> DEFINE old == {i \in 1 .. Len(r) : r[i].name = name}
           new == {i \in 1 .. Len(q) : q[i].name = name}
           k == FirstOf(old)
<1>1. old \in SUBSET (1 .. Len(r)) /\ new \in SUBSET (1 .. Len(q))
  OBVIOUS
<1>2. k # 0
  BY DEF GetNamedFunctionFromID
<1>3. k \in old /\ \A j \in old : k <= j
  <2>1. old # {}
    BY <1>1, <1>2, FirstOfSet
  <2>2. old \in SUBSET Nat
    OBVIOUS
  <2>3. PICK i \in old : \A j \in old : i <= j
    BY <2>1, <2>2, MinNat
  <2>4. k = i
    BY <1>1, <2>3, FirstOfLeast
  <2> QED
    BY <2>3, <2>4
<1>4. k \in new /\ \A j \in new : k <= j
  <2>1. k \in 1 .. Len(r) /\ r[k].name = name
    BY <1>3
  <2>2. k \in new
    BY <2>1
  <2>3. ASSUME NEW j \in new PROVE k <= j
    <3>1. CASE j \in 1 .. Len(r)
      BY <1>3, <3>1
    <3>2. CASE j \notin 1 .. Len(r)
      BY <2>1, <3>2
    <3> QED
      BY <3>1, <3>2
  <2> QED
    BY <2>2, <2>3
<1> HIDE DEF k
<1>5. FirstOf(new) = k
  <2>1. Len(q) \in Nat
    OBVIOUS
  <2> HIDE DEF new
  <2> QED
    BY <1>1, <1>4, <2>1, FirstOfLeast
<1> QED
  BY <1>5 DEF GetNamedFunctionFromID, k

-----------------------------------------------------------------------------
\* The registry has a perfect match of declaration d.
HasEntry(d) ==
  \E i \in 1 .. Len(functionIDs) :
    CompareMatch(functionIDs[i], <<prog[d].name>>, Types(prog[d].params), FALSE) = 0

\* Pass 1 leaves an entry for every function, prototype and #extern directive under
\* the root node, so pass 2 adds none but those of methods.
Registered ==
  \A d \in 1 .. Len(prog) :
    /\ prog[d].kind # "struct"
    /\ pass = BodyPass \/ (pass = PrototypePass /\ d < at)
    => HasEntry(d)

\* The program compiled is one of Programs, only pass 2 emits calls, and a call f(..)
\* that was emitted is one of the program's.
CallsOfBodies ==
  /\ prog \in Programs
  /\ calls # {} => pass = BodyPass
  /\ \A k \in calls : \E f \in FunctionsOf(prog) : \E i \in DOMAIN f.body : k.call = f.body[i]

BindingInv == Registered /\ CallsOfBodies /\ BindingIsStable

\* A declaration that was registered stays registered.
LEMMA EntryKept ==
  ASSUME TypeInv, [Next]_vars, NEW d, HasEntry(d)
  PROVE  HasEntry(d)'
<1>1. PICK i \in 1 .. Len(functionIDs) :
        CompareMatch(functionIDs[i], <<prog[d].name>>, Types(prog[d].params), FALSE) = 0
  BY DEF HasEntry
<1>2. UNCHANGED prog
  BY ProgramKept
<1>3. i \in 1 .. Len(functionIDs')
  BY EntriesKept DEF TypeInv, TypeOK, RegistryOK
<1>4. /\ functionIDs'[i].name = functionIDs[i].name
      /\ functionIDs'[i].userArguments = functionIDs[i].userArguments
  BY EntriesKept
<1>5. CompareMatch(functionIDs'[i], <<prog[d].name>>, Types(prog[d].params), FALSE) = 0
  BY <1>1, <1>4, SameScore
<1> QED
  BY <1>2, <1>3, <1>5 DEF HasEntry, Types

\* What generatePrototype registers is found for the same declaration.
LEMMA PrototypeIsFound ==
  ASSUME TypeOK, Decl \in FunctionDecl, QualifiedName \in Seq(STRING)
  PROVE  CompareMatch(WithPrototype[Prototype], QualifiedName, Types(Decl.params), FALSE) = 0
<1>1. CASE Existing = 0
  <2>1. WithPrototype[Prototype] = NewFunctionID
    BY <1>1, Registration
  <2>2. NewFunctionID.name = QualifiedName /\ NewFunctionID.userArguments = Decl.params
    BY DEF NewFunctionID
  <2>3. Decl.params \in Seq(Param)
    BY DEF FunctionDecl
  <2>4. /\ Len(Decl.params) \in Nat
        /\ DOMAIN Decl.params = 1 .. Len(Decl.params)
        /\ Len(Types(Decl.params)) = Len(Decl.params)
        /\ \A i \in 1 .. Len(Decl.params) : Types(Decl.params)[i] = Decl.params[i].type
    BY <2>3 DEF Types
  <2>5. Differences(Decl.params, Types(Decl.params), FALSE) = 0
    BY <2>4, SelfDifferences
  <2> QED
    BY <2>1, <2>2, <2>4, <2>5 DEF CompareMatch
<1>2. CASE Existing # 0
  <2>1. WithPrototype = functionIDs /\ Prototype = Existing
    BY <1>2, Registration
  <2>2. /\ PerfectMatches(functionIDs, QualifiedName, Types(Decl.params))
             \in SUBSET (1 .. Len(functionIDs))
    BY DEF PerfectMatches
  <2>4. Len(functionIDs) \in Nat
    BY DEF TypeOK, RegistryOK
  <2>3. Existing \in PerfectMatches(functionIDs, QualifiedName, Types(Decl.params))
    BY <1>2, <2>2, <2>4, FirstOfSet DEF Existing, GetExactFunctionFromID
  <2> QED
    BY <2>1, <2>3 DEF PerfectMatches
<1> QED
  BY <1>1, <1>2

\* Registered is inductive, given the types.
LEMMA NextRegistered == TypeInv /\ Registered /\ [Next]_vars => Registered'
<1> SUFFICES ASSUME TypeInv, Registered, [Next]_vars
             PROVE  Registered'
  OBVIOUS
<1> SUFFICES ASSUME NEW d \in 1 .. Len(prog), prog[d].kind # "struct",
                    pass' = BodyPass \/ (pass' = PrototypePass /\ d < at')
             PROVE  HasEntry(d)'
  <2>1. UNCHANGED prog
    BY ProgramKept
  <2> QED
    BY <2>1 DEF Registered, HasEntry
<1>t. /\ TypeOK
      /\ Len(prog) \in Nat
      /\ at \in 1 .. Len(prog) + 1
  BY DEF TypeInv, TypeOK, CursorOK
<1>1. CASE pass = BodyPass \/ (pass = PrototypePass /\ d < at)
  BY <1>1, EntryKept DEF Registered
<1>2. CASE ~(pass = BodyPass \/ (pass = PrototypePass /\ d < at))
  <2>1. CASE DeclarePrototype
    <3>1. /\ d = at
          /\ methodAt = 0
          /\ Decl.kind # "struct"
          /\ AtDeclaration
          /\ functionIDs' = WithPrototype
      BY <1>2, <1>t, <2>1
         DEF DeclarePrototype, NextDeclaration, AtDeclaration, PrototypePass, BodyPass
    <3>2. Decl \in FunctionDecl /\ QualifiedName \in Seq(STRING)
      BY <1>t, <3>1, FunctionAtHand
    <3>3. CompareMatch(functionIDs'[Prototype], QualifiedName, Types(Decl.params), FALSE) = 0
      BY <1>t, <3>1, <3>2, PrototypeIsFound
    <3>4. Prototype \in 1 .. Len(functionIDs')
      BY <1>t, <3>1, <3>2, Registration
    <3>5. Decl = prog[d] /\ QualifiedName = <<prog[d].name>>
      BY <3>1 DEF Decl, QualifiedName
    <3>6. UNCHANGED prog
      BY ProgramKept
    <3> QED
      BY <3>3, <3>4, <3>5, <3>6 DEF HasEntry, Types
  <2>2. CASE NextPass
    BY <1>2, <1>t, <2>2
       DEF NextPass, TypeOK, CursorOK, TypePass, PrototypePass, BodyPass
  <2>3. CASE DeclareStruct \/ RedefineStruct
    BY <1>2, <1>t, <2>3
       DEF DeclareStruct, RedefineStruct, NextDeclaration, AtDeclaration, Decl, PrototypePass, BodyPass
  <2>4. CASE UNCHANGED <<pass, at>>
    BY <1>2, <2>4
  <2>5. CASE pass \in {TypePass, BodyPass} /\ UNCHANGED pass
    BY <1>2, <2>5 DEF TypePass, PrototypePass, BodyPass
  <2>6. InBody => pass = BodyPass
    BY <1>t DEF TypeOK, CursorOK, InBody
  <2>7. LeaveStruct => UNCHANGED pass /\ d # at
    BY <1>t DEF LeaveStruct, TypeOK, CursorOK
  <2>8. LeaveStruct => FALSE
    BY <1>2, <1>t, <2>7 DEF LeaveStruct
  <2> QED
    BY <2>1, <2>2, <2>3, <2>4, <2>5, <2>6, <2>8
       DEF Next, vars, SkipInTypePass, EnterStruct, DeclareMethod, BeginFunction, RedefineFunction,
           FailInBody, EndFunction, GenerateCall, CallFails, GenerateOperator, GenerateMethodCall,
           MethodCallFails, FailCall, RemoveUnusedPrototypes, Finished, AtFunction,
           NextDeclaration, NextStatement
<1> QED
  BY <1>1, <1>2

\* A new entry is a method, or is named like an operator of the program: nothing a
\* call f(..) would find.
LEMMA NewEntriesInBodyPass ==
  ASSUME TypeInv, Registered, CallsOfBodies, [Next]_vars, pass = BodyPass,
         Len(functionIDs') # Len(functionIDs), NEW k \in calls, k.call.kind = "call"
  PROVE  \/ functionIDs'[Len(functionIDs')].isMemberFunction # FALSE
         \/ functionIDs'[Len(functionIDs')].name # <<k.call.name>>
<1>t. /\ TypeOK
      /\ Len(functionIDs) \in Nat
      /\ at \in 1 .. Len(prog) + 1
      /\ Len(prog) \in Nat
  BY DEF TypeInv, TypeOK, CursorOK, RegistryOK
<1>1. /\ (AtDeclaration /\ Decl.kind # "struct") \/ AtMethod
      /\ Decl \in FunctionDecl
      /\ Existing = 0
      /\ functionIDs'[Len(functionIDs')].name = QualifiedName
      /\ functionIDs'[Len(functionIDs')].isMemberFunction = NewFunctionID.isMemberFunction
  BY EntriesKept
<1>2. methodAt # 0
  <2> SUFFICES ASSUME methodAt = 0 PROVE FALSE
    OBVIOUS
  <2>1. at \in 1 .. Len(prog) /\ prog[at].kind # "struct"
    BY <1>1 DEF AtDeclaration, AtMethod, Decl
  <2>2. PICK i \in 1 .. Len(functionIDs) :
          CompareMatch(functionIDs[i], <<prog[at].name>>, Types(prog[at].params), FALSE) = 0
    BY <2>1 DEF Registered, HasEntry
  <2>3. i \in PerfectMatches(functionIDs, QualifiedName, Types(Decl.params))
    BY <2>2 DEF PerfectMatches, QualifiedName, Decl
  <2>4. PerfectMatches(functionIDs, QualifiedName, Types(Decl.params))
          \in SUBSET (1 .. Len(functionIDs))
    BY DEF PerfectMatches
  <2> QED
    BY <1>t, <1>1, <2>3, <2>4, FirstOfSet DEF Existing, GetExactFunctionFromID
<1>3. CASE ~Decl.special
  <2>1. NewFunctionID.isMemberFunction = TRUE
    BY <1>2, <1>3 DEF NewFunctionID
  <2> QED
    BY <1>1, <2>1
<1>4. CASE Decl.special
  <2>1. QualifiedName = <<Decl.name>>
    BY <1>4 DEF QualifiedName
  <2>2. Decl \in FunctionsOf(prog)
    <3>1. /\ prog[at].kind = "struct"
          /\ at \in 1 .. Len(prog)
          /\ methodAt \in Nat
          /\ methodAt <= Len(prog[at].methods)
      BY <1>t, <1>1, <1>2 DEF AtDeclaration, AtMethod, TypeOK, CursorOK
    <3>2. prog \in Seq(Declaration) /\ prog[at] \in Declaration
      BY <1>t, <3>1 DEF TypeOK, CursorOK
    <3>3. methodAt \in DOMAIN prog[at].methods /\ at \in DOMAIN prog
      <4>1. prog[at].methods \in Seq(FunctionDecl)
        BY <3>1, <3>2, DeclarationKinds
      <4> QED
        BY <1>2, <3>1, <3>2, <4>1
    <3>4. Decl = prog[at].methods[methodAt]
      BY <1>2 DEF Decl
    <3> QED
      BY <3>1, <3>3, <3>4 DEF FunctionsOf
  <2>3. PICK f \in FunctionsOf(prog) : \E i \in DOMAIN f.body : k.call = f.body[i]
    BY DEF CallsOfBodies
  <2>4. k.call.name # Decl.name
    BY <1>4, <2>2, <2>3, OperatorNamesAssumption DEF CallsOfBodies
  <2>5. <<Decl.name>> # <<k.call.name>>
    BY <2>4
  <2> QED
    BY <1>1, <2>1, <2>5
<1> QED
  BY <1>3, <1>4

\* A registry that differs in no entry a call f(..) can find gives the same callee.
LEMMA SamePlainCallee ==
  ASSUME NEW call, Len(functionIDs) \in Nat,
         Len(functionIDs') \in {Len(functionIDs), Len(functionIDs) + 1},
         \A i \in 1 .. Len(functionIDs) :
           /\ functionIDs'[i].name = functionIDs[i].name
           /\ functionIDs'[i].userArguments = functionIDs[i].userArguments
           /\ functionIDs'[i].isMemberFunction = functionIDs[i].isMemberFunction,
         Len(functionIDs') # Len(functionIDs) =>
           \/ functionIDs'[Len(functionIDs')].isMemberFunction # FALSE
           \/ functionIDs'[Len(functionIDs')].name # <<call.name>>
  PROVE  PlainCallee(call)' = PlainCallee(call)
<1> DEFINE inferred == TRUE
           isMember == FALSE
           q == functionIDs'
           name == <<call.name>>
           types == Types(call.args)
<1>1. /\ Len(q) \in {Len(functionIDs), Len(functionIDs) + 1}
      /\ \A i \in 1 .. Len(functionIDs) :
           /\ q[i].name = functionIDs[i].name
           /\ q[i].userArguments = functionIDs[i].userArguments
           /\ q[i].isMemberFunction = functionIDs[i].isMemberFunction
      /\ Len(q) # Len(functionIDs) =>
           \/ q[Len(q)].isMemberFunction # isMember
           \/ q[Len(q)].name # name
  OBVIOUS
<1>2. PlainCallee(call) = GetFunctionFromID(functionIDs, name, types, inferred, isMember)
  BY DEF PlainCallee
<1>3. PlainCallee(call)' = GetFunctionFromID(q, name, types, inferred, isMember)
  BY DEF PlainCallee, Types
<1> HIDE DEF inferred, isMember, q, name, types
<1> QED
  BY <1>1, <1>2, <1>3, LookupKept

\* A call that was bound stays bound to the same entry.
LEMMA BindingKept ==
  ASSUME TypeInv, BindingInv, [Next]_vars, NEW k \in calls
  PROVE  /\ k.call.kind = "call" => PlainCallee(k.call)' = k.callee
         /\ k.call.kind = "operator" => OperatorCallee(k.call)' = k.callee
<1>t. /\ TypeOK
      /\ Len(functionIDs) \in Nat
      /\ k.callee \in 1 .. Len(functionIDs)
  BY DEF TypeInv, TypeOK, RegistryOK, OutcomeOK
<1>1. /\ Len(functionIDs') \in {Len(functionIDs), Len(functionIDs) + 1}
      /\ \A i \in 1 .. Len(functionIDs) :
           /\ functionIDs'[i].name = functionIDs[i].name
           /\ functionIDs'[i].userArguments = functionIDs[i].userArguments
           /\ functionIDs'[i].isMemberFunction = functionIDs[i].isMemberFunction
  BY EntriesKept
<1>2. ASSUME k.call.kind = "call"
      PROVE  PlainCallee(k.call)' = k.callee
  <2>1. Len(functionIDs') # Len(functionIDs) =>
          \/ functionIDs'[Len(functionIDs')].isMemberFunction # FALSE
          \/ functionIDs'[Len(functionIDs')].name # <<k.call.name>>
    BY <1>2, NewEntriesInBodyPass DEF BindingInv, CallsOfBodies
  <2>2. PlainCallee(k.call)' = PlainCallee(k.call)
    BY <1>t, <1>1, <2>1, SamePlainCallee
  <2>3. PlainCallee(k.call) = k.callee
    BY <1>2 DEF BindingInv, BindingIsStable
  <2> QED
    BY <2>2, <2>3
<1>3. ASSUME k.call.kind = "operator"
      PROVE  OperatorCallee(k.call)' = k.callee
  <2>1. OperatorCallee(k.call) = k.callee /\ k.callee # 0
    BY <1>3, <1>t DEF BindingInv, BindingIsStable
  <2>2. GetNamedFunctionFromID(functionIDs', <<k.call.name>>)
          = GetNamedFunctionFromID(functionIDs, <<k.call.name>>)
    BY <1>t, <1>1, <2>1, NamedLookupKept DEF OperatorCallee
  <2> QED
    BY <2>1, <2>2 DEF OperatorCallee
<1> QED
  BY <1>2, <1>3

\* BindingInv is inductive, given the types.
LEMMA NextBindingInv == TypeInv /\ BindingInv /\ [Next]_vars => BindingInv'
<1> SUFFICES ASSUME TypeInv, BindingInv, [Next]_vars PROVE BindingInv'
  OBVIOUS
<1>t. /\ TypeOK
      /\ Len(functionIDs) \in Nat
      /\ functionIDs \in Seq(FunctionID)
  BY DEF TypeInv, TypeOK, RegistryOK
<1>1. Registered'
  BY NextRegistered DEF BindingInv
<1>p. UNCHANGED prog
  BY ProgramKept
<1>2. \/ UNCHANGED calls
      \/ GenerateCall \/ GenerateOperator \/ GenerateMethodCall
  BY DEF Next, vars, SkipInTypePass, DeclareStruct, RedefineStruct, EnterStruct, LeaveStruct,
         DeclarePrototype, DeclareMethod, BeginFunction, RedefineFunction, FailInBody,
         EndFunction, CallFails, MethodCallFails, FailCall, NextPass, RemoveUnusedPrototypes,
         Finished
<1>3. pass = BodyPass => UNCHANGED pass
  BY DEF Next, vars, SkipInTypePass, DeclareStruct, RedefineStruct, EnterStruct, LeaveStruct,
         DeclarePrototype, DeclareMethod, BeginFunction, RedefineFunction, FailInBody,
         EndFunction, GenerateCall, CallFails, GenerateOperator, GenerateMethodCall,
         MethodCallFails, FailCall, NextPass, RemoveUnusedPrototypes, Finished,
         NextDeclaration, NextStatement
<1>4. ASSUME GenerateCall \/ GenerateOperator \/ GenerateMethodCall
      PROVE  /\ pass = BodyPass
             /\ \E f \in FunctionsOf(prog) : \E i \in DOMAIN f.body : Call = f.body[i]
  <2>1. /\ InBody
        /\ stmt <= Len(Decl.body)
    BY <1>4 DEF GenerateCall, GenerateOperator, GenerateMethodCall, AtCall
  <2>2. /\ pass = BodyPass
        /\ at \in 1 .. Len(prog)
        /\ methodAt \in Nat
        /\ methodAt # 0 => methodAt <= Len(prog[at].methods) /\ prog[at].kind = "struct"
        /\ Decl.kind = "function"
        /\ stmt \in Nat \ {0}
        /\ prog \in Seq(Declaration)
    BY <1>t, <2>1 DEF InBody, TypeOK, CursorOK
  <2>3. Decl \in FunctionDecl
    BY <1>t, <2>1, FunctionAtHand
  <2>4. stmt \in DOMAIN Decl.body
    <3>1. Decl.body \in Seq(CallExpr)
      BY <2>3 DEF FunctionDecl
    <3> QED
      BY <2>1, <2>2, <3>1
  <2>5. Decl \in FunctionsOf(prog)
    <3>1. CASE methodAt = 0
      <4>1. Decl = prog[at] /\ prog[at].kind # "struct" /\ at \in DOMAIN prog
        BY <2>2, <3>1 DEF Decl
      <4> QED
        BY <4>1 DEF FunctionsOf
    <3>2. CASE methodAt # 0
      <4>1. prog[at] \in Declaration /\ at \in DOMAIN prog
        BY <2>2
      <4>2. prog[at].methods \in Seq(FunctionDecl)
        BY <2>2, <3>2, <4>1, DeclarationKinds
      <4>3. methodAt \in DOMAIN prog[at].methods
        BY <2>2, <3>2, <4>2
      <4>4. Decl = prog[at].methods[methodAt]
        BY <3>2 DEF Decl
      <4> QED
        BY <2>2, <3>2, <4>1, <4>3, <4>4 DEF FunctionsOf
    <3> QED
      BY <3>1, <3>2
  <2> QED
    BY <2>2, <2>4, <2>5 DEF Call
<1>n. ASSUME NEW k \in calls', k \notin calls
      PROVE  /\ GenerateCall \/ GenerateOperator \/ GenerateMethodCall
             /\ k.call = Call
             /\ GenerateCall => k.callee = PlainCallee(Call)
             /\ GenerateOperator => k.callee = OperatorCallee(Call)
  BY <1>2, <1>n DEF GenerateCall, GenerateOperator, GenerateMethodCall, Emitted
<1>5. CallsOfBodies'
  <2>1. prog' \in Programs
    BY <1>p DEF BindingInv, CallsOfBodies
  <2>2. calls' # {} => pass' = BodyPass
    BY <1>2, <1>3, <1>4 DEF BindingInv, CallsOfBodies
  <2>3. ASSUME NEW k \in calls'
        PROVE  \E f \in FunctionsOf(prog) : \E i \in DOMAIN f.body : k.call = f.body[i]
    <3>1. CASE k \in calls
      BY <3>1 DEF BindingInv, CallsOfBodies
    <3>2. CASE k \notin calls
      BY <1>4, <1>n, <3>2
    <3> QED
      BY <3>1, <3>2
  <2> QED
    BY <1>p, <2>1, <2>2, <2>3 DEF CallsOfBodies
<1>6. ASSUME NEW k \in calls'
      PROVE  /\ k.call.kind = "call" => PlainCallee(k.call)' = k.callee
             /\ k.call.kind = "operator" => OperatorCallee(k.call)' = k.callee
  <2>1. CASE k \in calls
    BY <2>1, BindingKept
  <2>2. CASE k \notin calls
    <3>1. CASE GenerateCall
      <4>1. /\ k.call.kind = "call"
            /\ k.callee = PlainCallee(k.call)
            /\ k.callee \in 1 .. Len(functionIDs)
            /\ functionIDs' = CountUse(k.callee)
        BY <1>t, <1>n, <2>2, <3>1, CallAtHand, CalleeRange DEF GenerateCall
      <4>2. /\ Len(functionIDs') = Len(functionIDs)
            /\ \A i \in 1 .. Len(functionIDs) :
                 /\ functionIDs'[i].name = functionIDs[i].name
                 /\ functionIDs'[i].userArguments = functionIDs[i].userArguments
                 /\ functionIDs'[i].isMemberFunction = functionIDs[i].isMemberFunction
        BY <1>t, <4>1, Counting
      <4>3. PlainCallee(k.call)' = PlainCallee(k.call)
        BY <1>t, <4>2, SamePlainCallee
      <4> QED
        BY <4>1, <4>3
    <3>2. CASE GenerateOperator
      <4>1. k.call.kind = "operator" /\ k.callee = OperatorCallee(k.call)
        BY <1>t, <1>n, <2>2, <3>2, CallAtHand DEF GenerateOperator
      <4>2. OperatorCallee(k.call)' = OperatorCallee(k.call)
        BY <3>2 DEF GenerateOperator, OperatorCallee
      <4> QED
        BY <4>1, <4>2
    <3>3. CASE GenerateMethodCall
      <4>1. k.call.kind = "method"
        BY <1>t, <1>n, <2>2, <3>3, CallAtHand DEF GenerateMethodCall
      <4> QED
        BY <4>1
    <3> QED
      BY <1>n, <2>2, <3>1, <3>2, <3>3
  <2> QED
    BY <2>1, <2>2
<1>7. BindingIsStable'
  BY <1>6 DEF BindingIsStable
<1> QED
  BY <1>1, <1>5, <1>7 DEF BindingInv

\* A call f(..) or of an operator keeps the callee it was bound to, whatever methods
\* the rest of pass 2 adds to functionIDs (codegen.cpp, lines 2212 and 1547).
THEOREM CodegenBindingIsStable == Spec => []BindingIsStable
<1>1. Init => BindingInv
  <2> SUFFICES ASSUME Init PROVE BindingInv
    OBVIOUS
  <2>1. Registered
    BY DEF Init, Registered, TypePass, PrototypePass, BodyPass
  <2>2. CallsOfBodies
    BY DEF Init, CallsOfBodies
  <2>3. BindingIsStable
    BY DEF Init, BindingIsStable
  <2> QED
    BY <2>1, <2>2, <2>3 DEF BindingInv
<1>2. BindingInv => BindingIsStable
  BY DEF BindingInv
<1> QED
  BY InitTypeInv, NextTypeInv, <1>1, <1>2, NextBindingInv, PTL DEF Spec

-----------------------------------------------------------------------------
(***************************************************************************)
(* The registry is a symbol table                                          *)
(***************************************************************************)
DefinedIDs == {i \in 1 .. Len(functionIDs) : functionIDs[i].blocks > 0}
UsedIDs == {i \in 1 .. Len(functionIDs) : functionIDs[i].uses > 0}

\* What a step may do to the outcome.
LEMMA OutcomeStep ==
  ASSUME [Next]_vars
  PROVE  \/ UNCHANGED vars
         \/ RemoveUnusedPrototypes
         \/ /\ status = "compiling"
            /\ status' \in {"compiling", "exited"}
            /\ UNCHANGED erased
<1>1. SkipInTypePass \/ DeclareStruct \/ RedefineStruct \/ EnterStruct \/ LeaveStruct
        => status = "compiling" /\ status' = "compiling" /\ UNCHANGED erased
  BY DEF SkipInTypePass, DeclareStruct, RedefineStruct, EnterStruct, LeaveStruct, AtDeclaration
<1>2. DeclarePrototype \/ DeclareMethod \/ RedefineFunction
        => /\ status = "compiling"
           /\ status' \in {"compiling", "exited"}
           /\ UNCHANGED erased
  BY DEF DeclarePrototype, DeclareMethod, RedefineFunction, AtFunction, AtDeclaration, AtMethod, Exit
<1>3. BeginFunction \/ EndFunction \/ FailInBody
        => /\ status = "compiling"
           /\ status' \in {"compiling", "exited"}
           /\ UNCHANGED erased
  BY DEF BeginFunction, EndFunction, FailInBody, AtFunction, AtDeclaration, AtMethod, InBody, Exit
<1>4. GenerateCall \/ GenerateOperator \/ GenerateMethodCall
        => status = "compiling" /\ status' = "compiling" /\ UNCHANGED erased
  BY DEF GenerateCall, GenerateOperator, GenerateMethodCall, NextStatement, AtCall, InBody
<1>5. \A c : FailCall(c) => status' = "exited" /\ UNCHANGED erased
  BY DEF FailCall, Exit
<1>6. CallFails \/ MethodCallFails
        => status = "compiling" /\ status' = "exited" /\ UNCHANGED erased
  BY <1>5 DEF CallFails, MethodCallFails, AtCall, InBody
<1>7. NextPass => status = "compiling" /\ status' = "compiling" /\ UNCHANGED erased
  BY DEF NextPass
<1>8. Finished => UNCHANGED vars
  BY DEF Finished
<1> QED
  BY <1>1, <1>2, <1>3, <1>4, <1>6, <1>7, <1>8 DEF Next

\* What a step may do to the table the registry stands for.
LEMMA TableStep ==
  ASSUME TypeInv, [Next]_vars
  PROVE  /\ UNCHANGED functionIDs => /\ Len(functionIDs') = Len(functionIDs)
                                     /\ UNCHANGED <<DefinedIDs, UsedIDs>>
         /\ Registers => /\ Len(functionIDs') \in {Len(functionIDs), Len(functionIDs) + 1}
                         /\ UNCHANGED <<DefinedIDs, UsedIDs>>
         /\ Begins => /\ Len(functionIDs') \in {Len(functionIDs), Len(functionIDs) + 1}
                      /\ \E s \in 1 .. Len(functionIDs') : DefinedIDs' = DefinedIDs \cup {s}
                      /\ UNCHANGED UsedIDs
         /\ Counts => /\ Len(functionIDs') = Len(functionIDs)
                      /\ UNCHANGED DefinedIDs
                      /\ \E s \in 1 .. Len(functionIDs) : UsedIDs' = UsedIDs \cup {s}
<1>t. /\ TypeOK
      /\ Len(functionIDs) \in Nat
      /\ functionIDs \in Seq(FunctionID)
  BY DEF TypeInv, TypeOK, RegistryOK
<1>n. \A f \in FunctionID : f.uses \in Nat /\ f.blocks \in Nat
  BY DEF FunctionID
<1>e. \A i \in 1 .. Len(functionIDs) : functionIDs[i].uses \in Nat /\ functionIDs[i].blocks \in Nat
  <2>1. \A i \in 1 .. Len(functionIDs) : functionIDs[i] \in FunctionID
    BY <1>t
  <2> QED
    BY <2>1, <1>n
<1>0. NewFunctionID.uses = 0 /\ NewFunctionID.blocks = 0
  BY DEF NewFunctionID
<1>p. ASSUME Registers \/ Begins
      PROVE  /\ Len(WithPrototype) \in {Len(functionIDs), Len(functionIDs) + 1}
             /\ Prototype \in 1 .. Len(WithPrototype)
             /\ \A i \in 1 .. Len(functionIDs) : WithPrototype[i] = functionIDs[i]
             /\ \A i \in 1 .. Len(WithPrototype) :
                  i \notin 1 .. Len(functionIDs)
                    => WithPrototype[i].uses = 0 /\ WithPrototype[i].blocks = 0
  <2>1. /\ Len(WithPrototype) \in {Len(functionIDs), Len(functionIDs) + 1}
        /\ Prototype \in 1 .. Len(WithPrototype)
        /\ \A i \in 1 .. Len(functionIDs) : WithPrototype[i] = functionIDs[i]
        /\ Existing = 0 => /\ Prototype = Len(functionIDs) + 1
                           /\ WithPrototype[Prototype] = NewFunctionID
        /\ Existing # 0 => WithPrototype = functionIDs
    BY <1>p, <1>t, Registration DEF Registers, Begins
  <2>2. ASSUME NEW i \in 1 .. Len(WithPrototype), i \notin 1 .. Len(functionIDs)
        PROVE  WithPrototype[i] = NewFunctionID
    <3>1. Existing = 0
      BY <2>1, <2>2
    <3>2. i = Prototype
      BY <1>t, <2>1, <2>2, <3>1
    <3> QED
      BY <2>1, <3>1, <3>2
  <2> QED
    BY <1>0, <2>1, <2>2
<1>1. ASSUME UNCHANGED functionIDs
      PROVE  Len(functionIDs') = Len(functionIDs) /\ UNCHANGED <<DefinedIDs, UsedIDs>>
  BY <1>1 DEF DefinedIDs, UsedIDs
<1>2. ASSUME Registers
      PROVE  /\ Len(functionIDs') \in {Len(functionIDs), Len(functionIDs) + 1}
             /\ UNCHANGED <<DefinedIDs, UsedIDs>>
  <2>1. functionIDs' = WithPrototype
    BY <1>2 DEF Registers
  <2>2. 1 .. Len(functionIDs) \subseteq 1 .. Len(functionIDs')
    BY <1>2, <1>p, <1>t, <2>1
  <2>3. \A i \in 1 .. Len(functionIDs') :
          /\ functionIDs'[i].uses > 0 <=> i \in 1 .. Len(functionIDs) /\ functionIDs[i].uses > 0
          /\ functionIDs'[i].blocks > 0 <=> i \in 1 .. Len(functionIDs) /\ functionIDs[i].blocks > 0
    BY <1>2, <1>p, <2>1
  <2>4. UNCHANGED <<DefinedIDs, UsedIDs>>
    BY <2>2, <2>3 DEF DefinedIDs, UsedIDs
  <2> QED
    BY <1>2, <1>p, <2>1, <2>4
<1>3. ASSUME Begins
      PROVE  /\ Len(functionIDs') \in {Len(functionIDs), Len(functionIDs) + 1}
             /\ \E s \in 1 .. Len(functionIDs') : DefinedIDs' = DefinedIDs \cup {s}
             /\ UNCHANGED UsedIDs
  <2>1. /\ Len(functionIDs') = Len(WithPrototype)
        /\ Prototype \in 1 .. Len(functionIDs')
        /\ \A i \in 1 .. Len(functionIDs') :
             /\ functionIDs'[i].uses = WithPrototype[i].uses
             /\ functionIDs'[i].blocks = IF i = Prototype THEN WithPrototype[i].blocks + 1
                                                          ELSE WithPrototype[i].blocks
    BY <1>3, <1>t, Beginning
  <2>2. 1 .. Len(functionIDs) \subseteq 1 .. Len(functionIDs')
    BY <1>3, <1>p, <1>t, <2>1
  <2>3. \A i \in 1 .. Len(functionIDs') :
          functionIDs'[i].uses > 0 <=> i \in 1 .. Len(functionIDs) /\ functionIDs[i].uses > 0
    BY <1>3, <1>p, <2>1
  <2>4. \A i \in 1 .. Len(functionIDs') : WithPrototype[i].blocks \in Nat
    BY <1>3, <1>p, <1>e, <2>1
  <2>5. \A i \in 1 .. Len(functionIDs') :
          functionIDs'[i].blocks > 0 <=> \/ i \in 1 .. Len(functionIDs) /\ functionIDs[i].blocks > 0
                                         \/ i = Prototype
    BY <1>3, <1>p, <2>1, <2>4
  <2>6. UNCHANGED UsedIDs
    BY <2>2, <2>3 DEF UsedIDs
  <2>7. DefinedIDs' = DefinedIDs \cup {Prototype}
    BY <2>1, <2>2, <2>5 DEF DefinedIDs
  <2> QED
    BY <1>3, <1>p, <2>1, <2>6, <2>7
<1>4. ASSUME Counts
      PROVE  /\ Len(functionIDs') = Len(functionIDs)
             /\ UNCHANGED DefinedIDs
             /\ \E s \in 1 .. Len(functionIDs) : UsedIDs' = UsedIDs \cup {s}
  <2>1. PICK c \in 1 .. Len(functionIDs) : functionIDs' = CountUse(c)
    BY <1>4 DEF Counts
  <2>2. /\ Len(functionIDs') = Len(functionIDs)
        /\ \A i \in 1 .. Len(functionIDs) :
             /\ functionIDs'[i].blocks = functionIDs[i].blocks
             /\ functionIDs'[i].uses = functionIDs[i].uses + (IF i = c THEN 1 ELSE 0)
    BY <1>t, <2>1, Counting
  <2>3. \A i \in 1 .. Len(functionIDs) :
          functionIDs'[i].uses > 0 <=> functionIDs[i].uses > 0 \/ i = c
    BY <1>e, <2>2
  <2>4. UsedIDs' = UsedIDs \cup {c}
    BY <2>2, <2>3 DEF UsedIDs
  <2>5. UNCHANGED DefinedIDs
    BY <2>2 DEF DefinedIDs
  <2> QED
    BY <2>1, <2>2, <2>4, <2>5
<1> QED
  BY <1>1, <1>2, <1>3, <1>4

\* Every step of the passes is a step of the table, or leaves the table alone.
LEMMA NextImplementsTable ==
  ASSUME TypeInv, [Next]_vars
  PROVE  [Table!Next]_(Table!tableVars)
<1>t. TypeOK /\ Len(functionIDs) \in Nat /\ DOMAIN functionIDs = 1 .. Len(functionIDs)
  BY DEF TypeInv, TypeOK, RegistryOK
<1>1. CASE UNCHANGED vars
  BY <1>1 DEF vars, Table!tableVars
<1>2. CASE RemoveUnusedPrototypes
  <2>1. /\ status = "compiling" /\ status' = "written"
        /\ erased' = Unused
        /\ UNCHANGED functionIDs
    BY <1>2 DEF RemoveUnusedPrototypes
  <2>2. Unused \subseteq (1 .. Len(functionIDs)) \ UsedIDs
    BY <1>t DEF Unused, UsedIDs
  <2>3. Table!Seal
    BY <2>1, <2>2 DEF Table!Seal, UsedIDs
  <2> QED
    BY <2>3 DEF Table!Next
<1>3. CASE /\ status = "compiling"
           /\ status' \in {"compiling", "exited"}
           /\ UNCHANGED erased
  <2>1. CASE UNCHANGED functionIDs
    <3>1. CASE status' = "compiling"
      BY <1>3, <2>1, <3>1 DEF Table!tableVars
    <3>2. CASE status' = "exited"
      <4>1. Table!Abandon
        BY <1>3, <2>1, <3>2 DEF Table!Abandon
      <4> QED
        BY <4>1 DEF Table!Next
    <3> QED
      BY <1>3, <3>1, <3>2
  <2>2. CASE Registers
    <3>0. /\ Len(functionIDs') \in {Len(functionIDs), Len(functionIDs) + 1}
          /\ UNCHANGED <<DefinedIDs, UsedIDs>>
      BY <2>2, TableStep
    <3>1. CASE status' = "compiling"
      <4>1. CASE Len(functionIDs') = Len(functionIDs)
        BY <1>3, <3>0, <3>1, <4>1 DEF Table!tableVars, DefinedIDs, UsedIDs
      <4>2. CASE Len(functionIDs') = Len(functionIDs) + 1
        <5>1. Table!Declare
          BY <1>3, <3>0, <3>1, <4>2 DEF Table!Declare, DefinedIDs, UsedIDs
        <5> QED
          BY <5>1 DEF Table!Next
      <4> QED
        BY <3>0, <4>1, <4>2
    <3>2. CASE status' = "exited"
      <4>1. Table!Abandon
        BY <1>3, <3>0, <3>2 DEF Table!Abandon, DefinedIDs, UsedIDs
      <4> QED
        BY <4>1 DEF Table!Next
    <3> QED
      BY <1>3, <3>1, <3>2
  <2>3. CASE Begins
    <3>1. /\ Len(functionIDs') \in {Len(functionIDs), Len(functionIDs) + 1}
          /\ \E s \in 1 .. Len(functionIDs') : DefinedIDs' = DefinedIDs \cup {s}
          /\ UNCHANGED UsedIDs
      BY <2>3, TableStep
    <3>2. UNCHANGED status
      BY <2>3 DEF Begins, BeginFunction
    <3>3. Table!Define
      BY <1>3, <3>1, <3>2 DEF Table!Define, DefinedIDs, UsedIDs
    <3> QED
      BY <3>3 DEF Table!Next
  <2>4. CASE Counts
    <3>0. /\ Len(functionIDs') = Len(functionIDs)
          /\ UNCHANGED DefinedIDs
          /\ \E s \in 1 .. Len(functionIDs) : UsedIDs' = UsedIDs \cup {s}
      BY <2>4, TableStep
    <3>1. CASE status' = "compiling"
      <4>1. Table!Use
        BY <1>3, <3>0, <3>1 DEF Table!Use, DefinedIDs, UsedIDs
      <4> QED
        BY <4>1 DEF Table!Next
    <3>2. CASE status' = "exited"
      <4>1. Table!Abandon
        BY <1>3, <3>0, <3>2 DEF Table!Abandon, DefinedIDs, UsedIDs
      <4> QED
        BY <4>1 DEF Table!Next
    <3> QED
      BY <1>3, <3>1, <3>2
  <2> QED
    BY <2>1, <2>2, <2>3, <2>4, RegistryStep
<1> QED
  BY <1>1, <1>2, <1>3, OutcomeStep

\* The passes over functionIDs (codegen.cpp, lines 252 and 2859) implement
\* SymbolTable: nothing declared, defined or used is forgotten.
THEOREM CodegenImplementsSymbolTable == Spec => ImplementsSymbolTable
<1>1. Init => Table!Init
  BY DEF Init, Table!Init
<1>2. TypeInv /\ [Next]_vars => [Table!Next]_(Table!tableVars)
  BY NextImplementsTable
<1> QED
  BY <1>1, <1>2, InitTypeInv, NextTypeInv, PTL DEF Spec, ImplementsSymbolTable, Table!Spec

=============================================================================
