-------------------------- MODULE MemberAccessProofs --------------------------
(***************************************************************************)
(* Proofs about struct types and accesses to members, of the specification *)
(* AccessSpec of MemberAccess, which is that of StructTypes with bodies.   *)
(***************************************************************************)
EXTENDS MemberAccess, TLAPS, FiniteSetTheorems, SequenceTheorems, WellFoundedInduction

IsStruct(d) == prog[d].kind = "struct"

\* The declaration d has been dealt with in pass p.
Passed(d, p) == pass > p \/ (pass = p /\ d < at)

Proper(d) == \A i \in 1 .. Len(prog[d].fields) :
               prog[d].fields[i].typed /\ Defined(prog[d].fields[i].type)

\* structDefinitions has the first declaration of every name, from pass 0 on.
Declared ==
  /\ \A d \in 1 .. Len(prog) :
       IsStruct(d) /\ Passed(d, TypePass) => prog[d].name \in DOMAIN structDefinitions
  /\ \A s \in DOMAIN structDefinitions :
       LET d == structDefinitions[s].token IN
       /\ IsStruct(d)
       /\ prog[d].name = s
       /\ Passed(d, TypePass)

\* Until there is an error every declaration is the one structDefinitions has, and what
\* pass 1 has been through has proper fields and a type of its own.
NoErrorYet ==
  ~wasError => \A d \in 1 .. Len(prog) : IsStruct(d) =>
    /\ Passed(d, TypePass) => structDefinitions[prog[d].name].token = d
    /\ Passed(d, PrototypePass) =>
         Proper(d) /\ structDefinitions[prog[d].name].made = PrototypePass

\* What pass 2 has left is as declared.
BodiesSet ==
  /\ inStruct => fieldTypes = FieldsOf(Decl)
  /\ ~wasError /\ status # "undefined" => \A d \in 1 .. Len(prog) :
       IsStruct(d) /\ Passed(d, BodyPass) => body[StructVal(prog[d].name)] = FieldsOf(prog[d])

\* A prototype is one of a function, and its parameters are current, if declared before.
ParametersSet ==
  \A f \in DOMAIN prototypes :
    /\ prog[f].kind = "function"
    /\ Passed(f, PrototypePass)
    /\ ~wasError => \A i \in 1 .. Len(prog[f].params) :
         DeclaredBefore(prog[f].params[i].name, f) =>
           prototypes[f].params[i] = GetLLVMType(prog[f].params[i])

\* The nodes of the body at hand, if pass 2 is at one.
CodeAtHand == IF pass = BodyPass /\ at \in 1 .. Len(prog) THEN Decl.code ELSE <<>>

\* The operands are the values of the nodes that wait for their use.
OperandsWait ==
  LET waiting == Waiting(CodeAtHand)[next - 1] IN
  /\ next \in 1 .. Len(CodeAtHand) + 1
  /\ next > 1 => inStruct \/ ~IsStruct(at)
  /\ Len(operands) = Len(waiting)
  /\ \A k \in 1 .. Len(operands) : operands[k].kind = CodeAtHand[waiting[k]].kind

\* A member that is the last operand is what has been pushed last.
MemberIsOnTop ==
  operands # <<>> /\ Last(operands).kind = "member" =>
    /\ lastRetrievedElementType # <<>>
    /\ Last(lastRetrievedElementType) =
         GetLLVMType([name |-> Last(operands).meant.name, pointers |-> 0])

\* Members are accessed in pass 2, and without an error.
AccessesInBodies ==
  /\ pass # BodyPass => lastRetrievedElementType = <<>> /\ accesses = {}
  /\ wasError /\ status \in {"compiling", "written"} => accesses = {}

AsDeclared(a) ==
  /\ a.of.name \in DOMAIN structDefinitions
  /\ a.struct = StructVal(a.of.name)
  /\ a.index \in 1 .. Len(Members(a.of.name))
  /\ a.type = GetLLVMType(Members(a.of.name)[a.index].type)

AccessesAsDeclared == \A a \in accesses : a.direct => AsDeclared(a)

-----------------------------------------------------------------------------
(***************************************************************************)
(* Recursive functions on 0 .. n: that there is one is shown by taking the *)
(* least argument up to which there is none.                               *)
(***************************************************************************)
\* Every non-empty set of naturals has a least element.
LEMMA LeastNat ==
  ASSUME NEW S \in SUBSET Nat, S # {}
  PROVE  \E x \in S : \A j \in S : x <= j
<1> DEFINE R == OpToRel(<, Nat)
<1>1. IsWellFoundedOn(R, Nat)
  BY NatLessThanWellFounded
<1>2. \A x, y \in Nat : x < y => <<x, y>> \in R
  BY DEF OpToRel
<1> HIDE DEF R
<1>3. PICK x \in S : \A y \in S : ~ (<<y, x>> \in R)
  BY <1>1, WFMin
<1>4. ASSUME NEW y \in S PROVE x <= y
  <2>1. x \in Nat /\ y \in Nat
    OBVIOUS
  <2>2. ~(y < x)
    BY <1>2, <1>3, <2>1
  <2> QED
    BY <2>1, <2>2
<1> QED
  BY <1>4

\* f is the iteration of F from x up to m.
Iterates(f, X, x, m, F) ==
  f \in [0 .. m -> X] /\ f[0] = x /\ \A k \in 1 .. m : f[k] = F[k][f[k - 1]]

\* One more step of an iteration.
LEMMA IterationExtends ==
  ASSUME NEW X, NEW x \in X, NEW m \in Nat \ {0}, NEW n \in Nat, m <= n,
         NEW F \in [1 .. n -> [X -> X]], NEW f, Iterates(f, X, x, m - 1, F)
  PROVE  \E g : Iterates(g, X, x, m, F)
<1> DEFINE y == F[m][f[m - 1]]
           g == [k \in 0 .. m |-> IF k = m THEN y ELSE f[k]]
<1>1. f \in [0 .. m - 1 -> X] /\ f[0] = x /\ \A k \in 1 .. m - 1 : f[k] = F[k][f[k - 1]]
  BY DEF Iterates
<1>2. y \in X
  BY <1>1
<1>3. /\ \A k \in 0 .. m - 1 : g[k] = f[k]
      /\ g[m] = y
  OBVIOUS
<1>4. g \in [0 .. m -> X]
  BY <1>1, <1>2
<1>5. g[0] = x
  BY <1>1, <1>3
<1>6. ASSUME NEW k \in 1 .. m PROVE g[k] = F[k][g[k - 1]]
  <2>1. g[k - 1] = f[k - 1]
    BY <1>3
  <2>2. CASE k = m
    BY <2>1, <2>2, <1>3
  <2>3. CASE k # m
    <3>1. k \in 1 .. m - 1
      BY <2>3
    <3>2. g[k] = f[k]
      BY <3>1, <1>3
    <3>3. f[k] = F[k][f[k - 1]]
      BY <3>1, <1>1
    <3> QED
      BY <2>1, <3>2, <3>3
  <2> QED
    BY <2>2, <2>3
<1> QED
  BY <1>4, <1>5, <1>6 DEF Iterates

LEMMA IterationExists ==
  ASSUME NEW X, NEW x \in X, NEW n \in Nat, NEW F \in [1 .. n -> [X -> X]]
  PROVE  \E f : Iterates(f, X, x, n, F)
<1> DEFINE bad == {m \in 0 .. n : ~\E f : Iterates(f, X, x, m, F)}
<1>1. bad \in SUBSET Nat
  OBVIOUS
<1>2. ASSUME bad # {} PROVE FALSE
  <2>1. PICK m \in bad : \A j \in bad : m <= j
    BY <1>1, <1>2, LeastNat
  <2>2. CASE m = 0
    <3>1. Iterates([k \in 0 .. 0 |-> x], X, x, 0, F)
      BY DEF Iterates
    <3> QED
      BY <2>2, <3>1
  <2>3. CASE m # 0
    <3>1. m \in Nat \ {0} /\ m <= n /\ m - 1 \in 0 .. n
      BY <2>3
    <3>2. m - 1 \notin bad
      BY <3>1, <2>1
    <3>3. PICK f : Iterates(f, X, x, m - 1, F)
      BY <3>1, <3>2
    <3>4. \E g : Iterates(g, X, x, m, F)
      BY <3>1, <3>3, IterationExtends
    <3> QED
      BY <3>4
  <2> QED
    BY <2>2, <2>3
<1>3. n \notin bad
  BY <1>2
<1> QED
  BY <1>3

-----------------------------------------------------------------------------
(***************************************************************************)
(* Which nodes wait for their use                                          *)
(***************************************************************************)
\* The nodes that wait after node k, if those in w wait before it.
AfterNode(code, w, k) ==
  CASE code[k].kind \in {"constant", "variable"} -> Append(w, k)
    [] code[k].kind = "member" -> Append(Front(w), k)
    [] code[k].kind = "access" -> Append(Front(Front(w)), k)
    [] code[k].kind = "semicolon" -> <<>>
    [] code[k].kind = "new" -> w

Kinds == {"new", "member", "variable", "constant", "access", "semicolon"}

LEMMA NodeKinds ==
  ASSUME NEW node \in ASTNode
  PROVE  /\ node.kind \in Kinds
         /\ node.kind \in {"new", "member"} => node.name \in STRING
         /\ node.kind = "variable" => node.type \in TypeNode
BY DEF ASTNode, Kinds

LEMMA FrontType ==
  ASSUME NEW X, NEW s \in Seq(X)
  PROVE  /\ Front(s) \in Seq(X)
         /\ s # <<>> => Len(Front(s)) = Len(s) - 1 /\ \A k \in 1 .. Len(s) - 1 : Front(s)[k] = s[k]
<1>1. Len(s) \in Nat
  OBVIOUS
<1>2. CASE s = <<>>
  <2>1. Front(s) = <<>>
    BY <1>2 DEF Front
  <2> QED
    BY <2>1, <1>2
<1>3. CASE s # <<>>
  <2>1. Len(s) \in Nat \ {0}
    BY <1>3
  <2>2. Front(s) = SubSeq(s, 1, Len(s) - 1)
    BY DEF Front
  <2>3. /\ SubSeq(s, 1, Len(s) - 1) \in Seq(X)
        /\ Len(SubSeq(s, 1, Len(s) - 1)) = Len(s) - 1
        /\ \A k \in 1 .. Len(s) - 1 : SubSeq(s, 1, Len(s) - 1)[k] = s[k]
    <3>1. \A k \in 1 .. Len(s) - 1 : s[k] \in X
      BY <2>1
    <3>2. Len(s) - 1 \in Int /\ 1 \in Int /\ Len(s) - 1 - 1 + 1 = Len(s) - 1
      BY <2>1
    <3>3. /\ SubSeq(s, 1, Len(s) - 1) \in Seq(X)
          /\ Len(SubSeq(s, 1, Len(s) - 1)) = IF 1 <= Len(s) - 1 THEN Len(s) - 1 - 1 + 1 ELSE 0
      BY <3>1, <3>2, SubSeqProperties
    <3>4. ASSUME NEW k \in 1 .. Len(s) - 1 PROVE SubSeq(s, 1, Len(s) - 1)[k] = s[k]
      BY <2>1
    <3> DEFINE f == SubSeq(s, 1, Len(s) - 1)
               n == Len(s)
    <3>5. n \in Nat \ {0} /\ Len(f) = IF 1 <= n - 1 THEN n - 1 - 1 + 1 ELSE 0
      BY <2>1, <3>3
    <3> HIDE DEF f, n
    <3>6. Len(f) = n - 1
      BY <3>5
    <3> QED
      BY <3>3, <3>4, <3>6 DEF f, n
  <2> QED
    BY <2>2, <2>3
<1> QED
  BY <1>2, <1>3

LEMMA AfterNodeType ==
  ASSUME NEW code \in Seq(ASTNode), NEW w \in Seq(Nat), NEW k \in 1 .. Len(code)
  PROVE  AfterNode(code, w, k) \in Seq(Nat)
<1>1. code[k].kind \in Kinds
  BY NodeKinds
<1>2. k \in Nat
  OBVIOUS
<1>3. Front(w) \in Seq(Nat)
  BY FrontType
<1>4. Front(Front(w)) \in Seq(Nat)
  BY <1>3, FrontType
<1>5. <<>> \in Seq(Nat)
  BY EmptySeq
<1> HIDE DEF Kinds
<1>a. CASE code[k].kind \in {"constant", "variable"}
  BY <1>a, <1>2 DEF AfterNode
<1>b. CASE code[k].kind = "member"
  BY <1>b, <1>2, <1>3 DEF AfterNode
<1>c. CASE code[k].kind = "access"
  BY <1>c, <1>2, <1>4 DEF AfterNode
<1>d. CASE code[k].kind = "semicolon"
  BY <1>d, <1>5 DEF AfterNode
<1>e. CASE code[k].kind = "new"
  BY <1>e DEF AfterNode
<1> QED
  BY <1>1, <1>a, <1>b, <1>c, <1>d, <1>e DEF Kinds

\* The recursion of Waiting has a solution, so that Waiting is one.
LEMMA WaitingIs ==
  ASSUME NEW code \in Seq(ASTNode)
  PROVE  /\ Waiting(code) \in [0 .. Len(code) -> Seq(Nat)]
         /\ Waiting(code)[0] = <<>>
         /\ \A k \in 1 .. Len(code) : Waiting(code)[k] = AfterNode(code, Waiting(code)[k - 1], k)
<1> DEFINE n == Len(code)
           F == [k \in 1 .. n |-> [w \in Seq(Nat) |-> AfterNode(code, w, k)]]
           Solves(w) == w = [k \in 0 .. n |->
                               IF k = 0 THEN <<>>
                               ELSE CASE code[k].kind \in {"constant", "variable"} -> Append(w[k - 1], k)
                                      [] code[k].kind = "member" -> Append(Front(w[k - 1]), k)
                                      [] code[k].kind = "access" -> Append(Front(Front(w[k - 1])), k)
                                      [] code[k].kind = "semicolon" -> <<>>
                                      [] code[k].kind = "new" -> w[k - 1]]
<1>1. n \in Nat
  OBVIOUS
<1>2. <<>> \in Seq(Nat)
  BY EmptySeq
<1>3. F \in [1 .. n -> [Seq(Nat) -> Seq(Nat)]]
  BY AfterNodeType
<1>4. \A w \in Seq(Nat), k \in 1 .. n : F[k][w] = AfterNode(code, w, k)
  OBVIOUS
<1>5. ASSUME NEW w PROVE Solves(w) <=> w = [k \in 0 .. n |-> IF k = 0 THEN <<>> ELSE AfterNode(code, w[k - 1], k)]
  BY DEF AfterNode
<1> DEFINE empty == <<>>
<1> HIDE DEF F, n, empty
<1>6. PICK w : Iterates(w, Seq(Nat), empty, n, F)
  BY <1>1, <1>2, <1>3, IterationExists DEF empty
<1>7. w = [k \in 0 .. n |-> IF k = 0 THEN <<>> ELSE AfterNode(code, w[k - 1], k)]
  <2>1. w \in [0 .. n -> Seq(Nat)] /\ w[0] = empty /\ \A k \in 1 .. n : w[k] = F[k][w[k - 1]]
    BY <1>6 DEF Iterates
  <2>2. ASSUME NEW k \in 1 .. n PROVE w[k] = AfterNode(code, w[k - 1], k)
    <3>1. k - 1 \in 0 .. n
      BY <1>1
    <3> QED
      BY <2>1, <3>1, <1>4
  <2>3. ASSUME NEW k \in 0 .. n PROVE w[k] = IF k = 0 THEN <<>> ELSE AfterNode(code, w[k - 1], k)
    <3>1. k = 0 \/ k \in 1 .. n
      BY <1>1
    <3> QED
      BY <3>1, <2>1, <2>2 DEF empty
  <2> QED
    BY <2>1, <2>3
<1>8. Solves(w)
  BY <1>5, <1>7
<1>9. Solves(Waiting(code))
  <2>1. Waiting(code) = CHOOSE v : Solves(v)
    BY Zenon DEF Waiting, n
  <2> HIDE DEF Solves
  <2> QED
    BY <1>8, <2>1
<1>10. Waiting(code) = [k \in 0 .. n |-> IF k = 0 THEN <<>> ELSE AfterNode(code, Waiting(code)[k - 1], k)]
  BY <1>5, <1>9
<1>11. Waiting(code)[0] = <<>>
  BY <1>1, <1>10
<1>12. \A k \in 1 .. n : Waiting(code)[k] = AfterNode(code, Waiting(code)[k - 1], k)
  BY <1>1, <1>10
<1>13. Waiting(code) \in [0 .. n -> Seq(Nat)]
  <2> DEFINE v == Waiting(code)
             bad == {k \in 0 .. n : v[k] \notin Seq(Nat)}
  <2>1. v[0] = <<>> /\ \A k \in 1 .. n : v[k] = AfterNode(code, v[k - 1], k)
    BY <1>11, <1>12
  <2>2. v = [k \in 0 .. n |-> v[k]]
    BY <1>10
  <2> HIDE DEF v
  <2>3. ASSUME bad # {} PROVE FALSE
    <3>1. bad \in SUBSET Nat
      OBVIOUS
    <3>2. PICK k \in bad : \A j \in bad : k <= j
      BY <2>3, <3>1, LeastNat
    <3>3. k # 0
      BY <2>1, <1>2, <3>2
    <3>4. k \in 1 .. n /\ k - 1 \in 0 .. n /\ ~(k <= k - 1)
      BY <1>1, <3>2, <3>3
    <3>5. v[k - 1] \in Seq(Nat)
      BY <3>2, <3>4
    <3>6. AfterNode(code, v[k - 1], k) \in Seq(Nat)
      BY <3>4, <3>5, AfterNodeType DEF n
    <3>7. v[k] \in Seq(Nat)
      BY <2>1, <3>4, <3>6
    <3> QED
      BY <3>2, <3>7
  <2>4. \A k \in 0 .. n : v[k] \in Seq(Nat)
    BY <2>3
  <2>5. v \in [0 .. n -> Seq(Nat)]
    BY <2>2, <2>4
  <2> QED
    BY <2>5 DEF v
<1> QED
  BY <1>11, <1>12, <1>13 DEF n

-----------------------------------------------------------------------------
(***************************************************************************)
(* What a struct holds                                                     *)
(***************************************************************************)
\* The types in H, and what their bodies hold.
HeldBy(H) == H \cup UNION {ToSet(body[t]) : t \in H \cap DOMAIN body}

HeldIn(held, types) ==
  held = [d \in Nesting |-> IF d = 0 THEN types ELSE HeldBy(held[d - 1])]

\* The recursion of Held has a solution, and Held is the end of one.
LEMMA HeldIs ==
  ASSUME IsFiniteSet(DOMAIN body), NEW types
  PROVE  \E held : HeldIn(held, types) /\ Held(body, types) = held[Cardinality(DOMAIN body)]
<1> DEFINE n == Cardinality(DOMAIN body)
           Y == types \cup UNION {ToSet(body[t]) : t \in DOMAIN body}
           F == [k \in 1 .. n |-> [H \in SUBSET Y |-> HeldBy(H)]]
           Solves(held) ==
             held = [d \in Nesting |->
                       IF d = 0 THEN types
                       ELSE held[d - 1] \cup UNION {ToSet(body[t]) : t \in held[d - 1] \cap DOMAIN body}]
<1>1. n \in Nat
  BY FS_CardinalityType
<1>2. types \in SUBSET Y
  OBVIOUS
<1>3. F \in [1 .. n -> [SUBSET Y -> SUBSET Y]]
  BY DEF HeldBy
<1>4. \A k \in 1 .. n : \A H \in SUBSET Y : F[k][H] = HeldBy(H)
  OBVIOUS
<1>5. ASSUME NEW held PROVE Solves(held) <=> HeldIn(held, types)
  BY DEF HeldBy, HeldIn
<1>6. Nesting = 0 .. n
  BY DEF Nesting
<1> HIDE DEF F, n, Y
<1>7. PICK held : Iterates(held, SUBSET Y, types, n, F)
  BY <1>1, <1>2, <1>3, IterationExists
<1>8. HeldIn(held, types)
  <2>1. held \in [0 .. n -> SUBSET Y] /\ held[0] = types /\ \A k \in 1 .. n : held[k] = F[k][held[k - 1]]
    BY <1>7 DEF Iterates
  <2>2. ASSUME NEW k \in 1 .. n PROVE held[k] = HeldBy(held[k - 1])
    <3>1. k - 1 \in 0 .. n
      BY <1>1
    <3> QED
      BY <2>1, <3>1, <1>4
  <2>3. ASSUME NEW k \in 0 .. n PROVE held[k] = IF k = 0 THEN types ELSE HeldBy(held[k - 1])
    <3>1. k = 0 \/ k \in 1 .. n
      BY <1>1
    <3> QED
      BY <3>1, <2>1, <2>2
  <2> QED
    BY <2>1, <2>3, <1>6 DEF HeldIn
<1>9. Held(body, types) = (CHOOSE held2 : Solves(held2))[Cardinality(DOMAIN body)]
  BY Zenon DEF Held
<1>10. Solves(held)
  BY <1>5, <1>8
<1> HIDE DEF Solves
<1>11. Solves(CHOOSE held2 : Solves(held2))
  BY <1>10
<1> QED
  BY <1>5, <1>9, <1>11

\* A type holds itself.
LEMMA HeldSelf ==
  ASSUME IsFiniteSet(DOMAIN body), NEW types
  PROVE  types \subseteq Held(body, types)
<1> DEFINE n == Cardinality(DOMAIN body)
<1>1. PICK held : HeldIn(held, types) /\ Held(body, types) = held[n]
  BY HeldIs
<1>2. n \in Nat /\ Nesting = 0 .. n
  BY FS_CardinalityType DEF Nesting
<1> HIDE DEF n
<1>3. \A k \in 0 .. n : held[k] = IF k = 0 THEN types ELSE HeldBy(held[k - 1])
  BY <1>1, <1>2 DEF HeldIn
<1> DEFINE bad == {k \in 0 .. n : ~(types \subseteq held[k])}
<1>4. ASSUME bad # {} PROVE FALSE
  <2>1. bad \in SUBSET Nat
    OBVIOUS
  <2>2. PICK k \in bad : \A j \in bad : k <= j
    BY <1>4, <2>1, LeastNat
  <2>3. k # 0
    BY <1>3, <2>2
  <2>4. k - 1 \in 0 .. n /\ ~(k <= k - 1)
    BY <1>2, <2>2, <2>3
  <2>5. types \subseteq held[k - 1]
    BY <2>2, <2>4
  <2>6. held[k] = HeldBy(held[k - 1])
    BY <1>3, <2>2, <2>3
  <2>7. types \subseteq held[k]
    BY <2>5, <2>6 DEF HeldBy
  <2> QED
    BY <2>2, <2>7
<1>5. types \subseteq held[n]
  BY <1>2, <1>4
<1> QED
  BY <1>1, <1>5

-----------------------------------------------------------------------------
(***************************************************************************)
(* Types and fields                                                        *)
(***************************************************************************)
LEMMA DeclarationType ==
  ASSUME NEW p \in Seq(Declaration), NEW d \in 1 .. Len(p)
  PROVE  /\ p[d].kind \in {"struct", "function"}
         /\ p[d].name \in STRING
         /\ p[d].code \in Seq(ASTNode)
         /\ p[d].kind = "struct" => p[d].fields \in Seq(Field)
         /\ p[d].kind = "function" => p[d].params \in Seq(TypeNode)
<1>1. p[d] \in Declaration
  OBVIOUS
<1> QED
  BY <1>1 DEF Declaration, StructDecl, FunctionDecl

\* The fields are proper if and only if pass 1 and pass 2 find no fault in them.
LEMMA ProperFields ==
  ASSUME prog \in Seq(Declaration), at \in 1 .. Len(prog), IsStruct(at)
  PROVE  /\ FieldsProper => Proper(at)
         /\ Proper(at) => ~FieldsWithoutType
<1> DEFINE fields == prog[at].fields
           stopping == {i \in 1 .. Len(fields) :
                          \/ ~fields[i].typed
                          \/ Unknown(i) /\ fields[i].type.pointers > 0}
<1>1. fields \in Seq(Field)
  BY DeclarationType DEF IsStruct
<1>2. Len(fields) \in Nat
  BY <1>1
<1>3. StoppingField = IF stopping = {} THEN 0
                      ELSE CHOOSE i \in stopping : \A j \in stopping : i <= j
  BY DEF StoppingField, Decl
<1>4. ASSUME stopping # {} PROVE StoppingField \in stopping
  <2>1. stopping \in SUBSET Nat
    OBVIOUS
  <2>2. \E i \in stopping : \A j \in stopping : i <= j
    BY <1>4, <2>1, LeastNat
  <2> HIDE DEF stopping
  <2> QED
    BY <1>3, <1>4, <2>2
<1>5. ASSUME NEW i \in 1 .. Len(fields) PROVE Unknown(i) <=> fields[i].typed /\ ~Defined(fields[i].type)
  BY DEF Unknown, Decl
<1>6. FieldsWithoutType <=> StoppingField # 0 /\ ~fields[StoppingField].typed
  BY DEF FieldsWithoutType, Decl
<1>7. FieldsUndefined <=> IF StoppingField # 0 THEN fields[StoppingField].typed
                          ELSE \E i \in 1 .. Len(fields) : Unknown(i)
  BY DEF FieldsUndefined, Decl
<1>8. Proper(at) <=> \A i \in 1 .. Len(fields) : fields[i].typed /\ Defined(fields[i].type)
  BY DEF Proper
<1>9. ASSUME FieldsProper PROVE Proper(at)
  <2>1. ~FieldsWithoutType /\ ~FieldsUndefined
    BY <1>9 DEF FieldsProper
  <2>2. StoppingField = 0
    BY <2>1, <1>6, <1>7
  <2>3. stopping = {}
    BY <2>2, <1>4, <1>2
  <2>4. \A i \in 1 .. Len(fields) : fields[i].typed
    BY <2>3
  <2>5. \A i \in 1 .. Len(fields) : ~Unknown(i)
    BY <2>1, <2>2, <1>7
  <2> HIDE DEF fields, stopping
  <2> QED
    BY <2>4, <2>5, <1>5, <1>8
<1>10. ASSUME Proper(at) PROVE ~FieldsWithoutType
  <2>1. stopping = {}
    BY <1>5, <1>8, <1>10
  <2>2. StoppingField = 0
    BY <2>1, <1>3
  <2> QED
    BY <2>2, <1>6
<1> QED
  BY <1>9, <1>10

\* What structDefinitions and body must be for a type node to have an LLVM type.
DefinitionsTyped ==
  \A s \in DOMAIN structDefinitions :
    /\ s \in STRING
    /\ structDefinitions[s] \in [token : 1 .. Len(prog), made : {TypePass, PrototypePass}]
    /\ StructVal(s) \in DOMAIN body

LEMMA PassesDiffer == TypePass = 0 /\ PrototypePass = 1 /\ BodyPass = 2
BY DEF TypePass, PrototypePass, BodyPass

LEMMA GetLLVMTypeType ==
  ASSUME DefinitionsTyped, NEW node, Defined(node)
  PROVE  /\ GetLLVMType(node) \in LLVMType
         /\ node.pointers = 0 => GetLLVMType(node) \in
                                   {Builtin} \cup {StructVal(s) : s \in DOMAIN structDefinitions}
<1>1. Pointer \in LLVMType /\ Builtin \in LLVMType
  BY DEF LLVMType
<1>2. \A s \in DOMAIN structDefinitions : StructVal(s) \in LLVMType
  BY DEF DefinitionsTyped, StructVal, LLVMType
<1>3. node.name \notin Builtins => node.name \in DOMAIN structDefinitions
  BY DEF Defined
<1> QED
  BY <1>1, <1>2, <1>3 DEF GetLLVMType

LEMMA FieldsOfType ==
  ASSUME DefinitionsTyped, prog \in Seq(Declaration), NEW d \in 1 .. Len(prog), IsStruct(d), Proper(d)
  PROVE  FieldsOf(prog[d]) \in Seq(LLVMType)
<1> DEFINE fields == prog[d].fields
<1>1. fields \in Seq(Field)
  BY DeclarationType DEF IsStruct
<1>2. \A i \in 1 .. Len(fields) : GetLLVMType(fields[i].type) \in LLVMType
  BY GetLLVMTypeType DEF Proper
<1>3. FieldsOf(prog[d]) = [i \in 1 .. Len(fields) |-> GetLLVMType(fields[i].type)]
  BY DEF FieldsOf
<1> HIDE DEF fields
<1>4. Len(fields) \in Nat
  BY <1>1
<1> QED
  BY <1>2, <1>3, <1>4, IsASeq

LEMMA ParametersOfType ==
  ASSUME DefinitionsTyped, prog \in Seq(Declaration), NEW d \in 1 .. Len(prog),
         prog[d].kind = "function", \A i \in 1 .. Len(prog[d].params) : Defined(prog[d].params[i])
  PROVE  /\ ParametersOf(prog[d]) \in Seq(LLVMType)
         /\ \A i \in 1 .. Len(prog[d].params) :
              ParametersOf(prog[d])[i] = GetLLVMType(prog[d].params[i])
<1> DEFINE params == prog[d].params
<1>1. params \in Seq(TypeNode)
  BY DeclarationType
<1>2. \A i \in 1 .. Len(params) : GetLLVMType(params[i]) \in LLVMType
  BY GetLLVMTypeType
<1>3. ParametersOf(prog[d]) = [i \in 1 .. Len(params) |-> GetLLVMType(params[i])]
  BY DEF ParametersOf
<1> HIDE DEF params
<1>4. Len(params) \in Nat
  BY <1>1
<1>5. ParametersOf(prog[d]) \in Seq(LLVMType)
  BY <1>2, <1>3, <1>4, IsASeq
<1> QED
  BY <1>3, <1>5 DEF params

-----------------------------------------------------------------------------
(***************************************************************************)
(* The parts of the type invariant of StructTypes                          *)
(***************************************************************************)
PlaceTyped ==
  /\ prog \in Seq(Declaration)
  /\ prog \in Programs
  /\ pass \in {TypePass, PrototypePass, BodyPass}
  /\ at \in 1 .. Len(prog) + 1
  /\ inStruct \in BOOLEAN
  /\ next \in Nat \ {0}
  /\ wasError \in BOOLEAN
  /\ status \in {"compiling", "exited", "written", "undefined"}

InStructTyped ==
  inStruct => pass = BodyPass /\ at <= Len(prog) /\ Decl.kind = "struct"
              /\ Decl.name \in DOMAIN structDefinitions

BodiesTyped ==
  /\ DOMAIN body \subseteq LLVMType
  /\ IsFiniteSet(DOMAIN body)
  /\ \A t \in DOMAIN body : body[t] \in Seq(LLVMType)

ListsTyped == currentStructName \in Seq(STRING) /\ fieldTypes \in Seq(LLVMType)

PrototypesTyped ==
  /\ DOMAIN prototypes \subseteq 1 .. Len(prog)
  /\ \A f \in DOMAIN prototypes : prototypes[f] \in [of : Seq(STRING), params : Seq(LLVMType)]

LayoutsTyped ==
  /\ DOMAIN layouts \subseteq DOMAIN body
  /\ \A z \in zeroed : z.type \in DOMAIN layouts

Typed ==
  /\ PlaceTyped
  /\ InStructTyped
  /\ DefinitionsTyped
  /\ BodiesTyped
  /\ ListsTyped
  /\ PrototypesTyped
  /\ LayoutsTyped
  /\ StackMatchesPosition

LEMMA TypedIs == Typed <=> TypeOK /\ prog \in Programs /\ IsFiniteSet(DOMAIN body)
BY DEF Typed, TypeOK, PlaceTyped, InStructTyped, DefinitionsTyped, BodiesTyped, ListsTyped,
       PrototypesTyped, LayoutsTyped

\* What the steps of StructTypes keep.
StructInv ==
  /\ Typed
  /\ Declared
  /\ NoErrorYet
  /\ BodiesSet
  /\ ParametersSet

LEMMA StructInitInv ==
  ASSUME Init
  PROVE  StructInv
<1> USE DEF Init
<1>1. prog \in Programs /\ prog \in Seq(Declaration)
  BY ProgramsAssumption
<1>2. Len(prog) \in Nat
  BY <1>1
<1>3. PlaceTyped
  <2>1. at \in 1 .. Len(prog) + 1 /\ next \in Nat \ {0}
    BY <1>2
  <2>2. pass \in {TypePass, PrototypePass, BodyPass}
    OBVIOUS
  <2> QED
    BY <1>1, <2>1, <2>2 DEF PlaceTyped
<1>4. <<>> \in Seq(STRING) /\ <<>> \in Seq(LLVMType)
  BY EmptySeq
<1>5. DOMAIN <<>> = {} /\ IsFiniteSet({})
  BY FS_EmptySet
<1>6. DOMAIN structDefinitions = {} /\ DOMAIN body = {} /\ DOMAIN prototypes = {} /\ DOMAIN layouts = {}
  BY <1>5
<1>7. DefinitionsTyped /\ BodiesTyped /\ PrototypesTyped /\ LayoutsTyped
  BY <1>5, <1>6 DEF DefinitionsTyped, BodiesTyped, PrototypesTyped, LayoutsTyped
<1>8. InStructTyped /\ ListsTyped /\ StackMatchesPosition
  BY <1>4, <1>6 DEF InStructTyped, ListsTyped, StackMatchesPosition
<1>9. \A d \in 1 .. Len(prog) : \A p \in {TypePass, PrototypePass, BodyPass} : ~Passed(d, p)
  BY <1>2, PassesDiffer DEF Passed
<1>10. Declared /\ NoErrorYet /\ BodiesSet /\ ParametersSet
  BY <1>6, <1>9 DEF Declared, NoErrorYet, BodiesSet, ParametersSet
<1> QED
  BY <1>3, <1>7, <1>8, <1>10 DEF StructInv, Typed

-----------------------------------------------------------------------------
(***************************************************************************)
(* Steps that declare nothing and stay at the declaration                  *)
(***************************************************************************)
\* The types and the place are as before, and an error stays one.
Stays ==
  /\ UNCHANGED <<prog, pass, at, inStruct, currentStructName, structDefinitions, body,
                 fieldTypes, prototypes>>
  /\ next' \in Nat \ {0}
  /\ wasError' \in BOOLEAN
  /\ wasError => wasError'
  /\ status' \in {"compiling", "exited", "written", "undefined"}
  /\ status = "undefined" => status' = "undefined"

LEMMA SameTypes ==
  ASSUME prog' = prog, structDefinitions' = structDefinitions
  PROVE  /\ \A name : StructVal(name)' = StructVal(name)
         /\ \A node : GetLLVMType(node)' = GetLLVMType(node)
         /\ \A node : Defined(node)' = Defined(node)
         /\ \A d : FieldsOf(prog[d])' = FieldsOf(prog[d])
         /\ \A d : Proper(d)' <=> Proper(d)
         /\ \A d : IsStruct(d)' <=> IsStruct(d)
BY DEF StructVal, GetLLVMType, Defined, FieldsOf, Proper, IsStruct

LEMMA StaysInv ==
  ASSUME StructInv, Stays, LayoutsTyped'
  PROVE  StructInv'
<1> USE DEF StructInv, Stays
<1>1. \A d, p : Passed(d, p)' <=> Passed(d, p)
  BY DEF Passed
<1>2. PlaceTyped' /\ InStructTyped' /\ ListsTyped' /\ BodiesTyped' /\ PrototypesTyped'
  BY DEF Typed, PlaceTyped, InStructTyped, ListsTyped, BodiesTyped, PrototypesTyped, Decl
<1>3. DefinitionsTyped'
  BY SameTypes DEF Typed, DefinitionsTyped
<1>4. StackMatchesPosition'
  BY DEF Typed, StackMatchesPosition, Decl
<1>5. Declared'
  BY <1>1, SameTypes DEF Declared
<1>6. NoErrorYet'
  BY <1>1, SameTypes DEF NoErrorYet
<1>7. BodiesSet'
  BY <1>1, SameTypes DEF BodiesSet, Decl
<1>8. ParametersSet'
  BY <1>1, SameTypes DEF ParametersSet, DeclaredBefore
<1> QED
  BY <1>2, <1>3, <1>4, <1>5, <1>6, <1>7, <1>8 DEF Typed

-----------------------------------------------------------------------------
(***************************************************************************)
(* Steps to the next declaration                                           *)
(***************************************************************************)
\* The declaration at hand has been dealt with, and the next one is at hand.
Moves ==
  /\ at \in 1 .. Len(prog)
  /\ at' = at + 1
  /\ UNCHANGED <<prog, pass>>
  /\ inStruct' = FALSE

LEMMA PassedMoves ==
  ASSUME PlaceTyped, Moves, NEW d \in 1 .. Len(prog), NEW p
  PROVE  Passed(d, p)' <=> Passed(d, p) \/ (pass = p /\ d = at)
BY DEF PlaceTyped, Moves, Passed

LEMMA AtInPass ==
  ASSUME PlaceTyped, at \in 1 .. Len(prog)
  PROVE  /\ Passed(at, TypePass) <=> pass # TypePass
         /\ Passed(at, PrototypePass) <=> pass = BodyPass
         /\ ~Passed(at, BodyPass)
BY PassesDiffer DEF PlaceTyped, Passed

\* A struct with its declaration at hand is one of no other, if there is no error.
LEMMA DeclaredOnce ==
  ASSUME StructInv, ~wasError, at \in 1 .. Len(prog), IsStruct(at), ~Redefined,
         NEW d \in 1 .. Len(prog), IsStruct(d), Passed(d, TypePass), prog[d].name = prog[at].name
  PROVE  d = at
<1>1. prog[d].name \in DOMAIN structDefinitions
  BY DEF StructInv, Declared
<1>2. structDefinitions[prog[d].name].token = d
  BY DEF StructInv, NoErrorYet
<1> QED
  BY <1>1, <1>2 DEF Redefined, Decl

\* Places, if nothing but the place and the error changes.
LEMMA PlaceMoves ==
  ASSUME PlaceTyped, Moves, next' \in Nat \ {0}, wasError' \in BOOLEAN,
         status' \in {"compiling", "exited", "written", "undefined"}
  PROVE  PlaceTyped' /\ InStructTyped'
<1>1. Len(prog) \in Nat /\ at + 1 \in 1 .. Len(prog) + 1
  BY DEF PlaceTyped, Moves
<1> QED
  BY <1>1 DEF PlaceTyped, Moves, InStructTyped

\* A step past a declaration that declares nothing.
LEMMA PassesInv ==
  ASSUME StructInv, Moves, next' \in Nat \ {0}, wasError' \in BOOLEAN,
         status' \in {"compiling", "exited", "written", "undefined"},
         UNCHANGED <<structDefinitions, fieldTypes, layouts, zeroed>>,
         ListsTyped', BodiesTyped', PrototypesTyped', StackMatchesPosition',
         DOMAIN body' = DOMAIN body,
         IsStruct(at) /\ pass = TypePass => prog[at].name \in DOMAIN structDefinitions,
         wasError => wasError',
         ~wasError' => ~IsStruct(at) \/ pass = BodyPass,
         BodiesSet', ParametersSet'
  PROVE  StructInv'
<1> USE DEF StructInv
<1>1. PlaceTyped' /\ InStructTyped'
  BY PlaceMoves DEF Typed
<1>2. prog' = prog /\ structDefinitions' = structDefinitions
  BY DEF Moves
<1>3. DefinitionsTyped'
  BY <1>2, SameTypes DEF Typed, DefinitionsTyped
<1>4. LayoutsTyped'
  BY DEF Typed, LayoutsTyped
<1>5. Len(prog) \in Nat /\ PlaceTyped
  BY DEF Typed, PlaceTyped
<1>6. Declared'
  <2>1. ASSUME NEW d \in 1 .. Len(prog), IsStruct(d), Passed(d, TypePass)'
        PROVE  prog[d].name \in DOMAIN structDefinitions
    BY <1>5, <2>1, PassedMoves DEF Declared
  <2>2. ASSUME NEW s \in DOMAIN structDefinitions
        PROVE  LET d == structDefinitions[s].token IN
               IsStruct(d) /\ prog[d].name = s /\ Passed(d, TypePass)'
    <3>1. structDefinitions[s].token \in 1 .. Len(prog)
      BY DEF Typed, DefinitionsTyped
    <3> QED
      BY <3>1, <1>5, PassedMoves DEF Declared
  <2> QED
    BY <1>2, <2>1, <2>2, SameTypes DEF Declared
<1>7. NoErrorYet'
  <2> SUFFICES ASSUME ~wasError', NEW d \in 1 .. Len(prog), IsStruct(d)
               PROVE  /\ Passed(d, TypePass)' => structDefinitions[prog[d].name].token = d
                      /\ Passed(d, PrototypePass)' =>
                           Proper(d) /\ structDefinitions[prog[d].name].made = PrototypePass
    BY <1>2, SameTypes DEF NoErrorYet
  <2>1. ~wasError
    OBVIOUS
  <2>2. /\ Passed(d, TypePass)' => Passed(d, TypePass)
        /\ Passed(d, PrototypePass)' => Passed(d, PrototypePass)
    BY <1>5, PassedMoves, PassesDiffer DEF Passed
  <2> QED
    BY <2>1, <2>2 DEF NoErrorYet
<1> QED
  BY <1>1, <1>3, <1>4, <1>6, <1>7 DEF Typed

\* Bodies and parameters, past a declaration after which there is an error.
LEMMA ErrorSet ==
  ASSUME StructInv, Moves, wasError', UNCHANGED prototypes
  PROVE  BodiesSet' /\ ParametersSet'
<1>1. BodiesSet'
  BY DEF BodiesSet, Moves
<1>2. ASSUME NEW f \in DOMAIN prototypes PROVE (prog[f].kind = "function" /\ Passed(f, PrototypePass))'
  <2>1. f \in 1 .. Len(prog) /\ PlaceTyped
    BY DEF StructInv, Typed, PrototypesTyped
  <2> QED
    BY <2>1, PassedMoves DEF StructInv, ParametersSet, Moves
<1> QED
  BY <1>1, <1>2 DEF ParametersSet

LEMMA AtStructIs ==
  ASSUME StructInv, AtStruct
  PROVE  /\ status = "compiling"
         /\ ~inStruct
         /\ at \in 1 .. Len(prog)
         /\ IsStruct(at)
         /\ Decl = prog[at]
         /\ Decl.name \in STRING
BY DeclarationType DEF AtStruct, IsStruct, Decl, StructInv, Typed, PlaceTyped

LEMMA RedefineStructInv ==
  ASSUME StructInv, RedefineStruct
  PROVE  StructInv'
<1> USE DEF RedefineStruct
<1>1. AtStruct
  OBVIOUS
<1>2. Moves /\ next' = next
  BY <1>1, AtStructIs DEF Moves, NextDeclaration
<1>3. ListsTyped' /\ BodiesTyped' /\ PrototypesTyped' /\ StackMatchesPosition'
  BY <1>2 DEF StructInv, Typed, ListsTyped, BodiesTyped, PrototypesTyped, StackMatchesPosition, Moves
<1>4. BodiesSet' /\ ParametersSet'
  BY <1>2, ErrorSet
<1>5. next' \in Nat \ {0} /\ wasError' \in BOOLEAN /\ status' \in {"compiling", "exited", "written", "undefined"}
  BY <1>2 DEF StructInv, Typed, PlaceTyped
<1>6. prog[at].name \in DOMAIN structDefinitions
  BY DEF Redefined, Decl
<1> QED
  BY <1>2, <1>3, <1>4, <1>5, <1>6, PassesInv

LEMMA UntypedFieldInv ==
  ASSUME StructInv, UntypedField
  PROVE  StructInv'
<1> USE DEF UntypedField
<1>1. AtStruct
  OBVIOUS
<1>2. Moves /\ next' = next
  BY <1>1, AtStructIs DEF Moves, NextDeclaration
<1>3. ListsTyped' /\ BodiesTyped' /\ PrototypesTyped' /\ StackMatchesPosition'
  BY <1>1, <1>2, AtStructIs
     DEF StructInv, Typed, ListsTyped, BodiesTyped, PrototypesTyped, StackMatchesPosition, Moves
<1>4. BodiesSet' /\ ParametersSet'
  BY <1>2, ErrorSet
<1>5. next' \in Nat \ {0} /\ wasError' \in BOOLEAN /\ status' \in {"compiling", "exited", "written", "undefined"}
  BY <1>2 DEF StructInv, Typed, PlaceTyped
<1> QED
  BY <1>2, <1>3, <1>4, <1>5, PassesInv

\* What DeclareStruct does to structDefinitions and to what a name stands for.
LEMMA DeclareStructDoes ==
  ASSUME StructInv, DeclareStruct, NEW name, name = Decl.name
  PROVE  /\ AtStruct /\ ~Redefined
         /\ pass \in {TypePass, PrototypePass}
         /\ pass = PrototypePass => Proper(at)
         /\ Moves /\ UNCHANGED <<next, inStruct>>
         /\ DOMAIN structDefinitions' = DOMAIN structDefinitions \cup {name}
         /\ structDefinitions'[name] = [token |-> at, made |-> pass]
         /\ \A s \in DOMAIN structDefinitions : s # name => structDefinitions'[s] = structDefinitions[s]
         /\ \A s \in DOMAIN structDefinitions : s # name => StructVal(s)' = StructVal(s)
         /\ StructVal(name)' = <<name, pass>>
         /\ \A node : node.name \in DOMAIN structDefinitions /\ node.name # name =>
              GetLLVMType(node)' = GetLLVMType(node)
         /\ \A d : Proper(d) => Proper(d)'
         /\ \A d : IsStruct(d)' <=> IsStruct(d)
         /\ prog' = prog
<1> USE DEF DeclareStruct
<1>1. AtStruct /\ ~Redefined
  OBVIOUS
<1>2. pass \in {TypePass, PrototypePass} /\ (pass = PrototypePass => Proper(at))
  <2>1. pass = PrototypePass /\ TypePass # PrototypePass => FieldsProper
    OBVIOUS
  <2> QED
    BY <1>1, <2>1, AtStructIs, ProperFields, PassesDiffer DEF StructInv, Typed, PlaceTyped
<1>3. Moves /\ UNCHANGED <<next, inStruct>> /\ prog' = prog
  BY <1>1, AtStructIs DEF Moves, NextDeclaration
<1>4. /\ DOMAIN structDefinitions' = DOMAIN structDefinitions \cup {name}
      /\ structDefinitions'[name] = [token |-> at, made |-> pass]
      /\ \A s \in DOMAIN structDefinitions : s # name => structDefinitions'[s] = structDefinitions[s]
  OBVIOUS
<1>5. \A s \in DOMAIN structDefinitions : s # name => StructVal(s)' = StructVal(s)
  BY <1>4 DEF StructVal
<1>6. StructVal(name)' = <<name, pass>>
  BY <1>4 DEF StructVal
<1>7. \A node : node.name \in DOMAIN structDefinitions /\ node.name # name =>
        GetLLVMType(node)' = GetLLVMType(node)
  BY <1>5 DEF GetLLVMType
<1>8. \A d : IsStruct(d)' <=> IsStruct(d)
  BY <1>3 DEF IsStruct
<1>9. \A d : Proper(d) => Proper(d)'
  BY <1>3, <1>4 DEF Proper, Defined
<1> QED
  BY <1>1, <1>2, <1>3, <1>4, <1>5, <1>6, <1>7, <1>8, <1>9

LEMMA DeclareStructInv ==
  ASSUME StructInv, DeclareStruct
  PROVE  StructInv'
<1>a. PICK name, here : name = prog[at].name /\ here = at
  OBVIOUS
<1> DEFINE type == <<name, pass>>
           fields == IF pass = TypePass THEN <<>> ELSE FieldsOf(Decl)
<1>1. AtStruct
  BY DEF DeclareStruct
<1>2. name \in STRING /\ Decl = prog[at] /\ at \in 1 .. Len(prog) /\ IsStruct(at) /\ name = Decl.name
      /\ status = "compiling"
  BY <1>a, <1>1, AtStructIs
<1>3. /\ ~Redefined
      /\ pass \in {TypePass, PrototypePass}
      /\ pass = PrototypePass => Proper(at)
      /\ Moves /\ UNCHANGED <<next, inStruct>>
      /\ DOMAIN structDefinitions' = DOMAIN structDefinitions \cup {name}
      /\ structDefinitions'[name] = [token |-> at, made |-> pass]
      /\ \A s \in DOMAIN structDefinitions : s # name => structDefinitions'[s] = structDefinitions[s]
      /\ \A s \in DOMAIN structDefinitions : s # name => StructVal(s)' = StructVal(s)
      /\ StructVal(name)' = <<name, pass>>
      /\ \A node : node.name \in DOMAIN structDefinitions /\ node.name # name =>
           GetLLVMType(node)' = GetLLVMType(node)
      /\ \A d : Proper(d) => Proper(d)'
      /\ \A d : IsStruct(d)' <=> IsStruct(d)
      /\ prog' = prog
  BY <1>2, DeclareStructDoes
<1>4. UNCHANGED <<currentStructName, fieldTypes, prototypes, layouts, zeroed, wasError, status>>
  BY DEF DeclareStruct
<1>5. body' = [t \in DOMAIN body \cup {type} |-> IF t = type THEN fields ELSE body[t]]
  BY <1>2 DEF DeclareStruct
<1>6. Typed /\ Declared /\ NoErrorYet /\ ParametersSet
  BY DEF StructInv
<1>7. PlaceTyped /\ DefinitionsTyped /\ BodiesTyped /\ ListsTyped /\ PrototypesTyped /\ LayoutsTyped
      /\ StackMatchesPosition
  BY <1>6 DEF Typed
<1>8. PlaceTyped' /\ InStructTyped'
  BY <1>3, <1>4, <1>7, PlaceMoves DEF PlaceTyped
<1>9. fields \in Seq(LLVMType)
  <2>1. CASE pass = TypePass
    BY <2>1, EmptySeq
  <2>2. CASE pass # TypePass
    <3>1. FieldsOf(prog[at]) \in Seq(LLVMType)
      BY <1>2, <1>3, <1>7, <2>2, FieldsOfType DEF PlaceTyped
    <3> QED
      BY <3>1, <2>2, <1>2
  <2> QED
    BY <2>1, <2>2
<1>10. type \in LLVMType
  BY <1>2, <1>3 DEF LLVMType
<1>11. BodiesTyped'
  <2>1. DOMAIN body' = DOMAIN body \cup {type} /\ IsFiniteSet(DOMAIN body \cup {type})
    BY <1>5, <1>7, FS_AddElement DEF BodiesTyped
  <2>2. \A t \in DOMAIN body' : body'[t] \in Seq(LLVMType)
    BY <1>5, <1>7, <1>9 DEF BodiesTyped
  <2> QED
    BY <2>1, <2>2, <1>7, <1>10 DEF BodiesTyped
<1>12. DefinitionsTyped'
  <2> SUFFICES ASSUME NEW s \in DOMAIN structDefinitions'
               PROVE  /\ s \in STRING
                      /\ structDefinitions'[s] \in [token : 1 .. Len(prog), made : {TypePass, PrototypePass}]
                      /\ StructVal(s)' \in DOMAIN body'
    BY <1>3 DEF DefinitionsTyped
  <2>1. CASE s = name
    <3>1. StructVal(s)' = type
      BY <2>1, <1>3
    <3> QED
      BY <2>1, <3>1, <1>2, <1>3, <1>5
  <2>2. CASE s # name
    <3>1. s \in DOMAIN structDefinitions /\ StructVal(s)' = StructVal(s)
      BY <2>2, <1>3
    <3> QED
      BY <2>2, <3>1, <1>3, <1>5, <1>7 DEF DefinitionsTyped
  <2> QED
    BY <2>1, <2>2
<1>13. ListsTyped' /\ PrototypesTyped' /\ LayoutsTyped' /\ StackMatchesPosition'
  BY <1>1, <1>2, <1>3, <1>4, <1>5, <1>7, AtStructIs
     DEF ListsTyped, PrototypesTyped, LayoutsTyped, StackMatchesPosition
<1>14. Passed(here, TypePass)'
  BY <1>a, <1>2, <1>3, <1>7, PassedMoves, AtInPass
<1>15. Declared'
  <2>1. ASSUME NEW d \in 1 .. Len(prog), IsStruct(d), Passed(d, TypePass)'
        PROVE  prog[d].name \in DOMAIN structDefinitions'
    <3>1. CASE d = at
      BY <3>1, <1>3, <1>a
    <3>2. CASE d # at
      BY <2>1, <3>2, <1>3, <1>6, <1>7, PassedMoves DEF Declared
    <3> QED
      BY <3>1, <3>2
  <2>2. ASSUME NEW s \in DOMAIN structDefinitions', NEW d, d = structDefinitions'[s].token
        PROVE  IsStruct(d) /\ prog[d].name = s /\ Passed(d, TypePass)'
    <3>1. CASE s = name
      <4>1. d = here
        BY <2>2, <3>1, <1>a, <1>3
      <4> QED
        BY <3>1, <4>1, <1>a, <1>2, <1>14
    <3>2. CASE s # name
      <4>1. s \in DOMAIN structDefinitions /\ d = structDefinitions[s].token
        BY <2>2, <3>2, <1>3
      <4>2. d \in 1 .. Len(prog)
        BY <4>1, <1>7 DEF DefinitionsTyped
      <4>3. IsStruct(d) /\ prog[d].name = s /\ Passed(d, TypePass)
        BY <4>1, <1>6 DEF Declared
      <4> QED
        BY <4>2, <4>3, <1>3, <1>7, PassedMoves
    <3> QED
      BY <3>1, <3>2
  <2> QED
    BY <1>3, <2>1, <2>2 DEF Declared, Passed, IsStruct
<1>16. ASSUME ~wasError, NEW d \in 1 .. Len(prog), IsStruct(d), Passed(d, TypePass), prog[d].name = name
       PROVE  d = at
  BY <1>2, <1>3, <1>16, DeclaredOnce, <1>a
<1>17. NoErrorYet'
  <2> SUFFICES ASSUME ~wasError, NEW d \in 1 .. Len(prog), IsStruct(d)
               PROVE  /\ Passed(d, TypePass)' => structDefinitions'[prog[d].name].token = d
                      /\ Passed(d, PrototypePass)' =>
                           Proper(d)' /\ structDefinitions'[prog[d].name].made = PrototypePass
    BY <1>3, <1>4 DEF NoErrorYet
  <2>1. CASE d = at
    <3>1. Passed(d, PrototypePass)' => pass = PrototypePass
      BY <2>1, <1>2, <1>3, <1>7, PassedMoves, AtInPass, PassesDiffer
    <3> QED
      BY <2>1, <3>1, <1>3, <1>a
  <2>2. CASE d # at
    <3>1. /\ Passed(d, TypePass)' => Passed(d, TypePass)
          /\ Passed(d, PrototypePass)' => Passed(d, PrototypePass)
      BY <2>2, <1>3, <1>7, PassedMoves
    <3>2. Passed(d, PrototypePass) => Passed(d, TypePass)
      BY <1>7, PassesDiffer DEF Passed, PlaceTyped
    <3>3. Passed(d, TypePass) => prog[d].name # name /\ prog[d].name \in DOMAIN structDefinitions
      BY <2>2, <1>6, <1>16 DEF Declared
    <3> QED
      BY <3>1, <3>2, <3>3, <1>3, <1>6 DEF NoErrorYet
  <2> QED
    BY <2>1, <2>2
<1>18. BodiesSet'
  <2>1. ~inStruct' /\ pass' # BodyPass /\ \A d : ~Passed(d, BodyPass)'
    BY <1>1, <1>3, AtStructIs, PassesDiffer DEF Passed, Moves
  <2> QED
    BY <2>1 DEF BodiesSet
<1>19. ParametersSet'
  <2> SUFFICES ASSUME NEW f \in DOMAIN prototypes
               PROVE  /\ prog[f].kind = "function"
                      /\ Passed(f, PrototypePass)'
                      /\ ~wasError => \A i \in 1 .. Len(prog[f].params) :
                           DeclaredBefore(prog[f].params[i].name, f) =>
                             prototypes[f].params[i] = GetLLVMType(prog[f].params[i])'
    BY <1>3, <1>4 DEF ParametersSet, DeclaredBefore
  <2>1. f \in 1 .. Len(prog)
    BY <1>7 DEF PrototypesTyped
  <2>2. prog[f].kind = "function" /\ Passed(f, PrototypePass) /\ Passed(f, PrototypePass)'
    BY <2>1, <1>3, <1>6, <1>7, PassedMoves DEF ParametersSet
  <2>3. ASSUME ~wasError, NEW i \in 1 .. Len(prog[f].params), DeclaredBefore(prog[f].params[i].name, f)
        PROVE  prototypes[f].params[i] = GetLLVMType(prog[f].params[i])'
    <3>1. PICK c \in 1 .. f - 1 : prog[c].kind = "struct" /\ prog[c].name = prog[f].params[i].name
      BY <2>3 DEF DeclaredBefore
    <3>2. c \in 1 .. Len(prog) /\ c < f
      BY <2>1
    <3>3. f < at
      BY <2>2, <1>3, PassesDiffer DEF Passed
    <3>4. Passed(c, TypePass) /\ c # at
      <4>1. pass \in {0, 1} /\ (pass > 1 \/ pass = 1)
        BY <2>2, <1>3, PassesDiffer DEF Passed
      <4> QED
        <5>1. c # at
          BY <2>1, <3>2, <3>3, <1>2
        <5>2. pass = 1
          BY <4>1
        <5> QED
          BY <5>1, <5>2, PassesDiffer DEF Passed
    <3>5. prog[c].name # name /\ prog[c].name \in DOMAIN structDefinitions
      BY <2>3, <3>1, <3>2, <3>4, <1>6, <1>16 DEF Declared, IsStruct
    <3>6. GetLLVMType(prog[f].params[i])' = GetLLVMType(prog[f].params[i])
      BY <3>1, <3>5, <1>3
    <3> QED
      BY <2>3, <3>6, <1>6 DEF ParametersSet
  <2> QED
    BY <2>2, <2>3
<1> QED
  BY <1>8, <1>11, <1>12, <1>13, <1>15, <1>17, <1>18, <1>19 DEF StructInv, Typed

LEMMA EnterStructInv ==
  ASSUME StructInv, EnterStruct
  PROVE  StructInv'
<1>1. AtStruct /\ ~Redefined /\ pass = BodyPass /\ FieldsProper
  BY DEF EnterStruct
<1>2. at \in 1 .. Len(prog) /\ IsStruct(at) /\ Decl = prog[at] /\ Decl.name \in STRING /\ ~inStruct
      /\ status = "compiling"
  BY <1>1, AtStructIs
<1>3. UNCHANGED <<prog, pass, at, next, structDefinitions, body, prototypes, layouts,
                 zeroed, wasError, status>>
  BY DEF EnterStruct
<1>4. /\ currentStructName' = Append(currentStructName, Decl.name)
      /\ fieldTypes' = FieldsOf(Decl)
      /\ inStruct' = TRUE
  BY DEF EnterStruct
<1>5. Typed /\ Declared /\ NoErrorYet /\ BodiesSet /\ ParametersSet
  BY DEF StructInv
<1>6. PlaceTyped /\ DefinitionsTyped /\ BodiesTyped /\ ListsTyped /\ PrototypesTyped /\ LayoutsTyped
      /\ StackMatchesPosition
  BY <1>5 DEF Typed
<1>7. \A d, p : Passed(d, p)' <=> Passed(d, p)
  BY <1>3 DEF Passed
<1>8. prog' = prog /\ structDefinitions' = structDefinitions /\ Decl' = Decl
  BY <1>3 DEF Decl
<1>9. PlaceTyped' /\ BodiesTyped' /\ PrototypesTyped' /\ LayoutsTyped'
  BY <1>3, <1>4, <1>6 DEF PlaceTyped, BodiesTyped, PrototypesTyped, LayoutsTyped
<1>10. DefinitionsTyped'
  BY <1>3, <1>6, <1>8, SameTypes DEF DefinitionsTyped
<1>11. Proper(at)
  BY <1>1, <1>2, <1>6, ProperFields DEF PlaceTyped
<1>12. ListsTyped'
  <2>1. FieldsOf(prog[at]) \in Seq(LLVMType)
    BY <1>2, <1>6, <1>11, FieldsOfType DEF PlaceTyped
  <2> QED
    BY <2>1, <1>2, <1>4, <1>6 DEF ListsTyped
<1>13. InStructTyped'
  <2>1. Passed(at, TypePass)
    BY <1>1, <1>2, <1>6, AtInPass, PassesDiffer
  <2>2. Decl.name \in DOMAIN structDefinitions
    BY <2>1, <1>2, <1>5 DEF Declared
  <2> QED
    BY <2>2, <1>1, <1>2, <1>3, <1>8 DEF InStructTyped, IsStruct
<1>14. StackMatchesPosition'
  BY <1>2, <1>3, <1>4, <1>6, <1>8 DEF StackMatchesPosition
<1>15. Declared' /\ NoErrorYet' /\ ParametersSet'
  BY <1>3, <1>5, <1>7, <1>8, SameTypes DEF Declared, NoErrorYet, ParametersSet, DeclaredBefore
<1>16. BodiesSet'
  <2>1. fieldTypes' = FieldsOf(Decl)'
    BY <1>2, <1>4, <1>8, SameTypes DEF FieldsOf, GetLLVMType, StructVal
  <2> QED
    BY <2>1, <1>3, <1>5, <1>7, <1>8, SameTypes DEF BodiesSet
<1> QED
  BY <1>9, <1>10, <1>12, <1>13, <1>14, <1>15, <1>16 DEF StructInv, Typed

\* Popping the name of the struct at hand leaves nothing.
LEMMA FrontOfOne ==
  ASSUME NEW x
  PROVE  Front(<<x>>) = <<>>
BY DEF Front

LEMMA LeaveStructInv ==
  ASSUME StructInv, LeaveStruct
  PROVE  StructInv'
<1>1. InBody /\ inStruct
  BY DEF LeaveStruct
<1>2. Typed /\ Declared /\ NoErrorYet /\ BodiesSet /\ ParametersSet
  BY DEF StructInv
<1>3. PlaceTyped /\ DefinitionsTyped /\ BodiesTyped /\ ListsTyped /\ PrototypesTyped /\ LayoutsTyped
      /\ StackMatchesPosition /\ InStructTyped
  BY <1>2 DEF Typed
<1>4. pass = BodyPass /\ at \in 1 .. Len(prog) /\ Decl.kind = "struct" /\ status = "compiling"
      /\ Decl.name \in DOMAIN structDefinitions /\ Decl = prog[at] /\ IsStruct(at)
  BY <1>1, <1>3 DEF InBody, InStructTyped, Decl, IsStruct
<1>5. Moves /\ next' = 1
  BY <1>4 DEF LeaveStruct, Moves
<1>6. UNCHANGED <<structDefinitions, fieldTypes, prototypes, layouts, zeroed, wasError>>
      /\ currentStructName' = Front(currentStructName)
  BY DEF LeaveStruct
<1>7. \/ status' = "undefined" /\ body' = body
      \/ status' = status /\ body' = [body EXCEPT ![StructVal(Decl.name)] = fieldTypes]
  BY DEF LeaveStruct, Stop
<1>8. status' \in {"compiling", "exited", "written", "undefined"} /\ 1 \in Nat \ {0}
  BY <1>4, <1>7
<1>9. ListsTyped'
  BY <1>3, <1>6, FrontType DEF ListsTyped
<1>10. BodiesTyped' /\ DOMAIN body' = DOMAIN body
  BY <1>3, <1>7 DEF BodiesTyped, ListsTyped
<1>11. prog' = prog /\ structDefinitions' = structDefinitions
  BY <1>5, <1>6 DEF Moves
<1>12. PrototypesTyped'
  BY <1>3, <1>6, <1>11 DEF PrototypesTyped
<1>13. StackMatchesPosition'
  <2>1. ASSUME ~wasError PROVE currentStructName' = <<>>
    BY <2>1, <1>1, <1>3, <1>6, FrontOfOne DEF StackMatchesPosition
  <2> QED
    BY <2>1, <1>3, <1>5, <1>6 DEF StackMatchesPosition, Moves
<1>14. BodiesSet'
  <2>1. ~inStruct'
    BY <1>5 DEF Moves
  <2>2. ASSUME ~wasError, status' # "undefined", NEW d \in 1 .. Len(prog), IsStruct(d), Passed(d, BodyPass)'
        PROVE  body'[StructVal(prog[d].name)] = FieldsOf(prog[d])
    <3>1. body' = [body EXCEPT ![StructVal(prog[at].name)] = fieldTypes]
      BY <1>4, <1>7, <2>2
    <3>2. Passed(d, BodyPass) \/ d = at
      BY <2>2, <1>3, <1>5, PassedMoves
    <3>3. fieldTypes = FieldsOf(prog[at])
      BY <1>1, <1>2, <1>4 DEF BodiesSet
    <3>4. StructVal(prog[at].name) \in DOMAIN body
      BY <1>3, <1>4 DEF DefinitionsTyped
    <3>5. CASE d = at
      BY <3>1, <3>3, <3>4, <3>5
    <3>6. CASE d # at
      <4>1. prog[d].name # prog[at].name
        <5>1. Passed(d, TypePass) /\ Passed(at, TypePass)
          BY <1>3, <1>4, PassesDiffer DEF Passed, PlaceTyped
        <5> QED
          BY <2>2, <3>6, <5>1, <1>2, <1>4 DEF NoErrorYet
      <4>2. StructVal(prog[d].name) # StructVal(prog[at].name)
        BY <4>1 DEF StructVal
      <4>3. body[StructVal(prog[d].name)] = FieldsOf(prog[d])
        BY <2>2, <3>2, <3>6, <1>2, <1>4 DEF BodiesSet
      <4> QED
        BY <3>1, <4>2, <4>3
    <3> QED
      BY <3>5, <3>6
  <2> QED
    BY <2>1, <2>2, <1>6, <1>11, SameTypes DEF BodiesSet
<1>15. ParametersSet'
  <2>1. \A f \in DOMAIN prototypes : f \in 1 .. Len(prog)
    BY <1>3 DEF PrototypesTyped
  <2> QED
    BY <2>1, <1>2, <1>3, <1>5, <1>6, <1>11, SameTypes, PassedMoves DEF ParametersSet, DeclaredBefore
<1>16. wasError' \in BOOLEAN /\ pass # TypePass
  BY <1>3, <1>4, <1>6, PassesDiffer DEF PlaceTyped
<1> QED
  BY <1>4, <1>5, <1>6, <1>8, <1>9, <1>10, <1>12, <1>13, <1>14, <1>15, <1>16, PassesInv

LEMMA AtFunctionIs ==
  ASSUME StructInv, AtFunction
  PROVE  /\ status = "compiling"
         /\ ~inStruct
         /\ at \in 1 .. Len(prog)
         /\ ~IsStruct(at)
         /\ prog[at].kind = "function"
         /\ Decl = prog[at]
BY DEF AtFunction, IsStruct, Decl, StructInv, Typed, PlaceTyped

\* Past a function nothing changes but what is said of prototypes.
LEMMA PastFunctionInv ==
  ASSUME StructInv, Moves, ~IsStruct(at), ~inStruct, next' \in Nat \ {0},
         UNCHANGED <<currentStructName, structDefinitions, body, fieldTypes, layouts, zeroed,
                     wasError, status>>,
         PrototypesTyped', ParametersSet',
         ~wasError => \A f \in DOMAIN prototypes' : prototypes'[f].of = <<>>
  PROVE  StructInv'
<1>1. Typed /\ BodiesSet
  BY DEF StructInv
<1>2. PlaceTyped /\ BodiesTyped /\ ListsTyped /\ StackMatchesPosition
  BY <1>1 DEF Typed
<1>3. ListsTyped' /\ BodiesTyped' /\ DOMAIN body' = DOMAIN body
  BY <1>2 DEF ListsTyped, BodiesTyped
<1>4. StackMatchesPosition'
  BY <1>2 DEF StackMatchesPosition, Moves
<1>5. prog' = prog /\ structDefinitions' = structDefinitions
  BY DEF Moves
<1>6. BodiesSet'
  <2>1. \A d \in 1 .. Len(prog) : IsStruct(d) /\ Passed(d, BodyPass)' => Passed(d, BodyPass)
    BY <1>2, PassedMoves
  <2> QED
    BY <2>1, <1>1, <1>5, SameTypes DEF BodiesSet, Moves
<1>7. wasError' \in BOOLEAN /\ status' \in {"compiling", "exited", "written", "undefined"}
  BY <1>2 DEF PlaceTyped
<1> QED
  BY <1>3, <1>4, <1>6, <1>7, PassesInv

\* Parameters, past a function that is not declared there.
LEMMA SameParameters ==
  ASSUME StructInv, Moves, UNCHANGED <<structDefinitions, prototypes, wasError>>
  PROVE  PrototypesTyped' /\ ParametersSet'
<1>1. PlaceTyped /\ PrototypesTyped /\ ParametersSet
  BY DEF StructInv, Typed
<1>2. prog' = prog
  BY DEF Moves
<1>3. \A f \in DOMAIN prototypes : f \in 1 .. Len(prog)
  BY <1>1 DEF PrototypesTyped
<1>4. ParametersSet'
  BY <1>1, <1>2, <1>3, SameTypes, PassedMoves DEF ParametersSet, DeclaredBefore
<1> QED
  BY <1>1, <1>2, <1>4 DEF PrototypesTyped

LEMMA SkipInTypePassInv ==
  ASSUME StructInv, SkipInTypePass
  PROVE  StructInv'
<1>1. AtFunction /\ NextDeclaration
      /\ UNCHANGED <<currentStructName, structDefinitions, body, fieldTypes, prototypes,
                     layouts, zeroed, wasError, status>>
  BY DEF SkipInTypePass
<1>2. ~inStruct /\ at \in 1 .. Len(prog) /\ ~IsStruct(at)
  BY <1>1, AtFunctionIs
<1>3. Moves /\ next' = next
  BY <1>1, <1>2 DEF Moves, NextDeclaration
<1>4. PrototypesTyped' /\ ParametersSet'
  BY <1>1, <1>3, SameParameters
<1>5. StackMatchesPosition /\ next \in Nat \ {0}
  BY DEF StructInv, Typed, PlaceTyped
<1> QED
  BY <1>1, <1>2, <1>3, <1>4, <1>5, PastFunctionInv DEF StackMatchesPosition

LEMMA EndFunctionInv ==
  ASSUME StructInv, EndFunction
  PROVE  StructInv'
<1>1. InBody /\ ~inStruct
      /\ UNCHANGED <<prog, pass, inStruct, currentStructName, structDefinitions, body,
                     fieldTypes, prototypes, layouts, zeroed, wasError, status>>
      /\ at' = at + 1 /\ next' = 1
  BY DEF EndFunction
<1>2. at \in 1 .. Len(prog) /\ ~IsStruct(at)
  BY <1>1 DEF InBody, Decl, IsStruct
<1>3. Moves
  BY <1>1, <1>2 DEF Moves
<1>4. PrototypesTyped' /\ ParametersSet'
  BY <1>1, <1>3, SameParameters
<1>5. StackMatchesPosition /\ 1 \in Nat \ {0}
  BY DEF StructInv, Typed
<1> QED
  BY <1>1, <1>2, <1>3, <1>4, <1>5, PastFunctionInv DEF StackMatchesPosition

LEMMA GeneratePrototypeInv ==
  ASSUME StructInv, GeneratePrototype
  PROVE  StructInv'
<1> DEFINE new == [of |-> currentStructName, params |-> ParametersOf(Decl)]
<1>1. /\ AtFunction /\ NextDeclaration /\ pass = PrototypePass
      /\ \A i \in 1 .. Len(Decl.params) : Defined(Decl.params[i])
      /\ UNCHANGED <<currentStructName, structDefinitions, body, fieldTypes, layouts, zeroed,
                     wasError, status>>
  BY DEF GeneratePrototype
<1>2. prototypes' = [f \in DOMAIN prototypes \cup {at} |-> IF f = at THEN new ELSE prototypes[f]]
  BY DEF GeneratePrototype
<1>3. ~inStruct /\ at \in 1 .. Len(prog) /\ ~IsStruct(at) /\ Decl = prog[at] /\ prog[at].kind = "function"
  BY <1>1, AtFunctionIs
<1>4. Moves /\ next' = next /\ prog' = prog
  BY <1>1, <1>3 DEF Moves, NextDeclaration
<1>5. PlaceTyped /\ DefinitionsTyped /\ ListsTyped /\ PrototypesTyped /\ StackMatchesPosition
      /\ ParametersSet
  BY DEF StructInv, Typed
<1>6. ParametersOf(prog[at]) \in Seq(LLVMType)
      /\ \A i \in 1 .. Len(prog[at].params) :
           ParametersOf(prog[at])[i] = GetLLVMType(prog[at].params[i])
  BY <1>1, <1>3, <1>5, ParametersOfType DEF PlaceTyped
<1>7. new.of = currentStructName /\ new.params = ParametersOf(prog[at])
  BY <1>3
<1>8. new \in [of : Seq(STRING), params : Seq(LLVMType)]
  BY <1>3, <1>5, <1>6 DEF ListsTyped
<1> HIDE DEF new
<1>9. PrototypesTyped'
  BY <1>2, <1>3, <1>4, <1>5, <1>8 DEF PrototypesTyped
<1>10. ~wasError => \A f \in DOMAIN prototypes' : prototypes'[f].of = <<>>
  BY <1>2, <1>3, <1>5, <1>7 DEF StackMatchesPosition
<1>11. ParametersSet'
  <2>1. ASSUME NEW f \in DOMAIN prototypes'
        PROVE  /\ prog[f].kind = "function"
               /\ Passed(f, PrototypePass)'
               /\ ~wasError => \A i \in 1 .. Len(prog[f].params) :
                    DeclaredBefore(prog[f].params[i].name, f) =>
                      prototypes'[f].params[i] = GetLLVMType(prog[f].params[i])
    <3>1. f \in 1 .. Len(prog)
      BY <1>2, <1>3, <1>5 DEF PrototypesTyped
    <3>2. CASE f = at
      <4>1. prototypes'[f].params = ParametersOf(prog[at])
        BY <3>2, <1>2, <1>7
      <4> QED
        BY <3>1, <3>2, <4>1, <1>1, <1>3, <1>4, <1>5, <1>6, PassedMoves
    <3>3. CASE f # at
      <4>1. f \in DOMAIN prototypes /\ prototypes'[f] = prototypes[f]
        BY <3>3, <1>2
      <4> QED
        BY <3>1, <4>1, <1>4, <1>5, PassedMoves DEF ParametersSet
    <3> QED
      BY <3>2, <3>3
  <2> QED
    BY <2>1, <1>1, <1>4, SameTypes DEF ParametersSet, DeclaredBefore
<1>12. next \in Nat \ {0}
  BY <1>5 DEF PlaceTyped
<1> QED
  BY <1>1, <1>3, <1>4, <1>9, <1>10, <1>11, <1>12, PastFunctionInv

LEMMA NextPassInv ==
  ASSUME StructInv, NextPass
  PROVE  StructInv'
<1>1. /\ at = Len(prog) + 1 /\ pass # BodyPass /\ pass' = pass + 1 /\ at' = 1
      /\ UNCHANGED <<prog, inStruct, next, currentStructName, structDefinitions, body,
                     fieldTypes, prototypes, layouts, zeroed, wasError, status>>
  BY DEF NextPass
<1>2. Typed /\ Declared /\ NoErrorYet /\ BodiesSet /\ ParametersSet
  BY DEF StructInv
<1>3. PlaceTyped /\ DefinitionsTyped /\ BodiesTyped /\ ListsTyped /\ PrototypesTyped /\ LayoutsTyped
      /\ StackMatchesPosition /\ InStructTyped
  BY <1>2 DEF Typed
<1>4. Len(prog) \in Nat /\ pass \in {0, 1} /\ ~inStruct
  BY <1>1, <1>3, PassesDiffer DEF PlaceTyped, InStructTyped
<1>5. ASSUME NEW d \in 1 .. Len(prog)
      PROVE  /\ Passed(d, TypePass)' <=> Passed(d, TypePass)
             /\ Passed(d, PrototypePass)' <=> Passed(d, PrototypePass)
             /\ ~Passed(d, BodyPass)'
  BY <1>1, <1>4, PassesDiffer DEF Passed
<1>6. prog' = prog /\ structDefinitions' = structDefinitions
  BY <1>1
<1>7. PlaceTyped' /\ InStructTyped'
  BY <1>1, <1>3, <1>4, PassesDiffer DEF PlaceTyped, InStructTyped
<1>8. DefinitionsTyped'
  BY <1>3, <1>6, <1>1, SameTypes DEF DefinitionsTyped
<1>9. BodiesTyped' /\ ListsTyped' /\ PrototypesTyped' /\ LayoutsTyped' /\ StackMatchesPosition'
  BY <1>1, <1>3, <1>4 DEF BodiesTyped, ListsTyped, PrototypesTyped, LayoutsTyped, StackMatchesPosition
<1>10. Declared'
  <2>1. \A s \in DOMAIN structDefinitions : structDefinitions[s].token \in 1 .. Len(prog)
    BY <1>3 DEF DefinitionsTyped
  <2> QED
    BY <2>1, <1>2, <1>5, <1>6, SameTypes DEF Declared
<1>11. NoErrorYet'
  BY <1>1, <1>2, <1>5, <1>6, SameTypes DEF NoErrorYet
<1>12. BodiesSet'
  BY <1>1, <1>4, <1>5, <1>6 DEF BodiesSet
<1>13. ParametersSet'
  <2>1. \A f \in DOMAIN prototypes : f \in 1 .. Len(prog)
    BY <1>3 DEF PrototypesTyped
  <2> QED
    BY <2>1, <1>1, <1>2, <1>5, <1>6, SameTypes DEF ParametersSet, DeclaredBefore
<1> QED
  BY <1>7, <1>8, <1>9, <1>10, <1>11, <1>12, <1>13 DEF StructInv, Typed

LEMMA GenerateTypeInstanceInv ==
  ASSUME StructInv, GenerateTypeInstance
  PROVE  StructInv'
<1> DEFINE type == StructVal(New)
<1>1. /\ New \in DOMAIN structDefinitions
      /\ layouts' = Measured(type)
      /\ zeroed' = zeroed \cup {[type |-> type, size |-> layouts'[type]]}
      /\ next' = next + 1
      /\ UNCHANGED <<prog, pass, at, inStruct, currentStructName, structDefinitions, body,
                     fieldTypes, prototypes, wasError, status>>
  BY DEF GenerateTypeInstance
<1>2. Typed
  BY DEF StructInv
<1>3. PlaceTyped /\ DefinitionsTyped /\ BodiesTyped /\ LayoutsTyped
  BY <1>2 DEF Typed
<1>4. Stays
  BY <1>1, <1>3 DEF Stays, PlaceTyped
<1>5. type \in DOMAIN body
  BY <1>1, <1>3 DEF DefinitionsTyped
<1> HIDE DEF type
<1>6. type \in Held(body, {type})
  BY <1>3, HeldSelf DEF BodiesTyped
<1>7. DOMAIN layouts' = DOMAIN layouts \cup ((Held(body, {type}) \cap DOMAIN body) \ DOMAIN layouts)
  BY <1>1 DEF Measured
<1>8. LayoutsTyped'
  <2>1. DOMAIN layouts' \subseteq DOMAIN body'
    BY <1>1, <1>3, <1>7 DEF LayoutsTyped
  <2>2. type \in DOMAIN layouts' /\ DOMAIN layouts \subseteq DOMAIN layouts'
    BY <1>5, <1>6, <1>7
  <2>3. \A z \in zeroed' : z \in zeroed \/ z.type = type
    BY <1>1
  <2> QED
    BY <1>3, <2>1, <2>2, <2>3 DEF LayoutsTyped
<1> QED
  BY <1>4, <1>8, StaysInv

-----------------------------------------------------------------------------
(***************************************************************************)
(* All the steps of StructTypes                                            *)
(***************************************************************************)
LEMMA StructNextInv ==
  ASSUME StructInv, Next
  PROVE  StructInv'
<1>1. /\ LayoutsTyped
      /\ next \in Nat \ {0} /\ wasError \in BOOLEAN
      /\ status \in {"compiling", "exited", "written", "undefined"}
  BY DEF StructInv, Typed, PlaceTyped
<1>2. UNCHANGED <<layouts, zeroed, body>> => LayoutsTyped'
  BY <1>1 DEF LayoutsTyped
<1>3. CASE RedefineStruct
  BY <1>3, RedefineStructInv
<1>4. CASE UntypedField
  BY <1>4, UntypedFieldInv
<1>5. CASE UnknownFieldType
  BY <1>1, <1>2, <1>5, StaysInv DEF UnknownFieldType, AtStruct, Stop, Stays
<1>6. CASE DeclareStruct
  BY <1>6, DeclareStructInv
<1>7. CASE EnterStruct
  BY <1>7, EnterStructInv
<1>8. CASE LeaveStruct
  BY <1>8, LeaveStructInv
<1>9. CASE SkipInTypePass
  BY <1>9, SkipInTypePassInv
<1>10. CASE GeneratePrototype
  BY <1>10, GeneratePrototypeInv
<1>11. CASE UnknownParameterType
  BY <1>1, <1>2, <1>11, StaysInv DEF UnknownParameterType, AtFunction, Stop, Stays
<1>12. CASE FailInBody
  BY <1>1, <1>2, <1>12, StaysInv DEF FailInBody, InBody, Stop, Stays
<1>13. CASE GenerateTypeInstance
  BY <1>13, GenerateTypeInstanceInv
<1>14. CASE UnknownTypeInstance
  BY <1>1, <1>2, <1>14, StaysInv DEF UnknownTypeInstance, AtNew, AtNode, InBody, Stop, Stays
<1>15. CASE EndFunction
  BY <1>15, EndFunctionInv
<1>16. CASE NextPass
  BY <1>16, NextPassInv
<1>17. CASE WriteModule
  BY <1>1, <1>2, <1>17, StaysInv DEF WriteModule, Stop, Stays
<1>18. CASE Finished
  BY <1>1, <1>2, <1>18, StaysInv DEF Finished, Stays, vars
<1> QED
  BY <1>3, <1>4, <1>5, <1>6, <1>7, <1>8, <1>9, <1>10, <1>11, <1>12, <1>13, <1>14, <1>15, <1>16,
     <1>17, <1>18 DEF Next

-----------------------------------------------------------------------------
(***************************************************************************)
(* The parts of the invariant of accesses                                  *)
(***************************************************************************)
\* The value of an element is known to come from one.
ProperOperand == {o \in Operand : o.kind = "access" => ~o.direct}

OperandsTyped == operands \in Seq(ProperOperand)

RetrievedTypes == {Builtin} \cup {StructVal(s) : s \in DOMAIN structDefinitions}

StackTyped == lastRetrievedElementType \in Seq(RetrievedTypes)

AccessInv ==
  /\ OperandsTyped
  /\ StackTyped
  /\ OperandsWait
  /\ MemberIsOnTop
  /\ AccessesInBodies
  /\ AccessesAsDeclared

\* The inductive invariant.
IInv == StructInv /\ AccessInv

\* The operands are of the kinds of the nodes in w.
Match(ops, w, code) ==
  Len(ops) = Len(w) /\ \A k \in 1 .. Len(ops) : ops[k].kind = code[w[k]].kind

LEMMA MatchAppend ==
  ASSUME NEW X, NEW ops \in Seq(X), NEW w \in Seq(Nat), NEW code, Match(ops, w, code),
         NEW v \in X, NEW k \in Nat, v.kind = code[k].kind
  PROVE  Match(Append(ops, v), Append(w, k), code)
<1>1. Len(ops) \in Nat /\ Len(w) = Len(ops)
  BY DEF Match
<1>2. Len(Append(ops, v)) = Len(ops) + 1 /\ Len(Append(w, k)) = Len(ops) + 1
  BY <1>1
<1>3. ASSUME NEW j \in 1 .. Len(ops) + 1 PROVE Append(ops, v)[j].kind = code[Append(w, k)[j]].kind
  <2>1. CASE j = Len(ops) + 1
    BY <1>1, <2>1
  <2>2. CASE j # Len(ops) + 1
    <3>1. j \in 1 .. Len(ops) /\ j \in 1 .. Len(w)
      BY <1>1, <2>2
    <3>2. Append(ops, v)[j] = ops[j] /\ Append(w, k)[j] = w[j]
      BY <3>1
    <3> QED
      BY <3>1, <3>2 DEF Match
  <2> QED
    BY <2>1, <2>2
<1> QED
  BY <1>2, <1>3 DEF Match

LEMMA MatchFront ==
  ASSUME NEW X, NEW ops \in Seq(X), NEW w \in Seq(Nat), NEW code, Match(ops, w, code), ops # <<>>
  PROVE  Match(Front(ops), Front(w), code) /\ Front(ops) \in Seq(X) /\ Front(w) \in Seq(Nat)
<1>1. Len(ops) \in Nat \ {0} /\ Len(w) = Len(ops) /\ w # <<>>
  BY DEF Match
<1>2. Front(ops) \in Seq(X) /\ Len(Front(ops)) = Len(ops) - 1
      /\ \A k \in 1 .. Len(ops) - 1 : Front(ops)[k] = ops[k]
  BY FrontType
<1>3. Front(w) \in Seq(Nat) /\ Len(Front(w)) = Len(w) - 1
      /\ \A k \in 1 .. Len(w) - 1 : Front(w)[k] = w[k]
  BY <1>1, FrontType
<1> DEFINE fo == Front(ops)
           fw == Front(w)
<1>4. ASSUME NEW k \in 1 .. Len(ops) - 1 PROVE fo[k].kind = code[fw[k]].kind
  <2>1. ops[k].kind = code[w[k]].kind
    BY <1>1 DEF Match
  <2> QED
    BY <2>1, <1>1, <1>2, <1>3
<1>5. Len(fo) = Len(ops) - 1 /\ Len(fw) = Len(ops) - 1
  BY <1>1, <1>2, <1>3
<1> HIDE DEF fo, fw
<1>6. Match(fo, fw, code)
  BY <1>4, <1>5 DEF Match
<1> QED
  BY <1>2, <1>3, <1>6 DEF fo, fw

LEMMA MatchEmpty ==
  ASSUME NEW ops, NEW w, NEW code, ops = <<>>, w = <<>>
  PROVE  Match(ops, w, code)
BY DEF Match

-----------------------------------------------------------------------------
(***************************************************************************)
(* The body at hand                                                        *)
(***************************************************************************)
LEMMA EmptyCode ==
  ASSUME NEW code, code = <<>>
  PROVE  code \in Seq(ASTNode) /\ Len(code) = 0
BY EmptySeq

LEMMA CodeAtHandIs ==
  ASSUME PlaceTyped
  PROVE  /\ CodeAtHand \in Seq(ASTNode)
         /\ Len(CodeAtHand) \in Nat
         /\ Waiting(CodeAtHand)[0] = <<>>
         /\ Waiting(CodeAtHand)[Len(CodeAtHand)] = <<>>
<1>1. CASE pass = BodyPass /\ at \in 1 .. Len(prog)
  <2>1. CodeAtHand = prog[at].code
    BY <1>1 DEF CodeAtHand, Decl
  <2>2. prog[at].code \in Seq(ASTNode)
    BY <1>1, DeclarationType DEF PlaceTyped
  <2>3. Waiting(prog[at].code)[Len(prog[at].code)] = <<>>
    BY <1>1, CodeAssumption DEF PlaceTyped
  <2> QED
    BY <2>1, <2>2, <2>3, WaitingIs
<1>2. CASE ~(pass = BodyPass /\ at \in 1 .. Len(prog))
  <2>1. CodeAtHand = <<>>
    BY <1>2 DEF CodeAtHand
  <2>2. CodeAtHand \in Seq(ASTNode) /\ Len(CodeAtHand) = 0
    BY <2>1, EmptyCode
  <2>3. Waiting(CodeAtHand)[0] = <<>>
    BY <2>2, WaitingIs
  <2> QED
    BY <2>2, <2>3
<1> QED
  BY <1>1, <1>2

\* The nodes that wait at the node at hand.
AtHand == Waiting(CodeAtHand)[next - 1]

LEMMA AtNodeIs ==
  ASSUME IInv, NEW kind, AtNode(kind)
  PROVE  /\ pass = BodyPass /\ at \in 1 .. Len(prog) /\ ~wasError /\ status = "compiling"
         /\ inStruct \/ ~IsStruct(at)
         /\ CodeAtHand = Decl.code
         /\ next \in 1 .. Len(CodeAtHand)
         /\ Node = CodeAtHand[next] /\ Node \in ASTNode /\ Node.kind = kind
         /\ AtHand \in Seq(Nat)
         /\ Match(operands, AtHand, CodeAtHand)
         /\ Waiting(CodeAtHand)[next] = AfterNode(CodeAtHand, AtHand, next)
<1>1. InBody /\ ~wasError /\ next <= Len(Decl.code) /\ Decl.code[next].kind = kind
  BY DEF AtNode
<1>2. pass = BodyPass /\ at \in 1 .. Len(prog) /\ status = "compiling"
  BY <1>1 DEF InBody
<1>3. PlaceTyped /\ OperandsWait
  BY DEF IInv, StructInv, Typed, AccessInv
<1>4. prog[at].kind \in {"struct", "function"}
  BY <1>2, <1>3, DeclarationType DEF PlaceTyped
<1>5. inStruct \/ ~IsStruct(at)
  BY <1>1 DEF InBody, Decl, IsStruct
<1>6. CodeAtHand = Decl.code
  BY <1>2 DEF CodeAtHand
<1>7. CodeAtHand \in Seq(ASTNode) /\ Len(CodeAtHand) \in Nat
  BY <1>3, CodeAtHandIs
<1>8. next \in 1 .. Len(CodeAtHand)
  BY <1>1, <1>3, <1>6, <1>7 DEF PlaceTyped
<1>9. Node = CodeAtHand[next] /\ Node \in ASTNode /\ Node.kind = kind
  BY <1>1, <1>6, <1>7, <1>8 DEF Node
<1>10. AtHand \in Seq(Nat) /\ Waiting(CodeAtHand)[next] = AfterNode(CodeAtHand, AtHand, next)
  <2>1. next - 1 \in 0 .. Len(CodeAtHand)
    BY <1>7, <1>8
  <2> QED
    BY <2>1, <1>7, <1>8, WaitingIs DEF AtHand
<1>11. Match(operands, AtHand, CodeAtHand)
  BY <1>3 DEF OperandsWait, Match, AtHand
<1> QED
  BY <1>1, <1>2, <1>5, <1>6, <1>8, <1>9, <1>10, <1>11

\* What the parser makes of an access has its operands.
LEMMA OperandsThere ==
  ASSUME IInv, NEW kind, AtNode(kind)
  PROVE  /\ kind = "member" => /\ operands # <<>>
                               /\ Last(operands).kind \in Addresses
         /\ kind = "access" => /\ Len(operands) > 1
                               /\ operands[Len(operands) - 1].kind \in Addresses
<1>1. /\ pass = BodyPass /\ at \in 1 .. Len(prog)
      /\ CodeAtHand = Decl.code
      /\ next \in 1 .. Len(CodeAtHand)
      /\ Node = CodeAtHand[next] /\ Node.kind = kind
      /\ AtHand \in Seq(Nat)
      /\ Match(operands, AtHand, CodeAtHand)
  BY AtNodeIs
<1>2. prog \in Programs /\ CodeAtHand = prog[at].code /\ operands \in Seq(ProperOperand)
  BY <1>1 DEF IInv, StructInv, Typed, PlaceTyped, AccessInv, OperandsTyped, Decl
<1>3. /\ kind = "member" =>
           Len(AtHand) > 0 /\ CodeAtHand[AtHand[Len(AtHand)]].kind \in Addresses
      /\ kind = "access" =>
           Len(AtHand) > 1 /\ CodeAtHand[AtHand[Len(AtHand) - 1]].kind \in Addresses
  BY <1>1, <1>2, CodeAssumption DEF AtHand
<1>4. Len(operands) = Len(AtHand) /\ Len(operands) \in Nat
      /\ \A k \in 1 .. Len(operands) : operands[k].kind = CodeAtHand[AtHand[k]].kind
  BY <1>1, <1>2 DEF Match
<1>5. ASSUME kind = "member" PROVE operands # <<>> /\ Last(operands).kind \in Addresses
  <2>1. Len(operands) \in 1 .. Len(operands)
    BY <1>3, <1>4, <1>5
  <2> QED
    BY <2>1, <1>2, <1>3, <1>4, <1>5 DEF Last
<1>6. ASSUME kind = "access"
      PROVE  Len(operands) > 1 /\ operands[Len(operands) - 1].kind \in Addresses
  <2>1. Len(operands) > 1 /\ Len(operands) - 1 \in 1 .. Len(operands)
    BY <1>3, <1>4, <1>6
  <2> QED
    BY <2>1, <1>3, <1>4, <1>6
<1> QED
  BY <1>5, <1>6

-----------------------------------------------------------------------------
(***************************************************************************)
(* The steps of the generators                                             *)
(***************************************************************************)
\* What structDefinitions, StructInv and the place give in a body.
LEMMA NodeStays ==
  ASSUME StructInv, NEW kind, AtNode(kind), Advance
  PROVE  /\ StructInv'
         /\ UNCHANGED <<prog, pass, at, inStruct, structDefinitions, body, wasError, status>>
         /\ CodeAtHand' = CodeAtHand
         /\ RetrievedTypes' = RetrievedTypes
<1>1. next' = next + 1
      /\ UNCHANGED <<prog, pass, at, inStruct, currentStructName, structDefinitions, body,
                     fieldTypes, prototypes, layouts, zeroed, wasError, status>>
  BY DEF Advance
<1>2. PlaceTyped /\ LayoutsTyped
  BY DEF StructInv, Typed
<1>3. Stays /\ LayoutsTyped'
  BY <1>1, <1>2 DEF Stays, PlaceTyped, LayoutsTyped
<1>4. CodeAtHand' = CodeAtHand
  BY <1>1 DEF CodeAtHand, Decl
<1>5. RetrievedTypes' = RetrievedTypes
  BY <1>1 DEF RetrievedTypes, StructVal
<1> QED
  BY <1>1, <1>3, <1>4, <1>5, StaysInv

\* After a node that has been generated the operands are those that wait then.
LEMMA OperandsAdvance ==
  ASSUME IInv, NEW kind, AtNode(kind), Advance,
         Match(operands', AfterNode(CodeAtHand, AtHand, next), CodeAtHand)
  PROVE  OperandsWait'
<1>1. /\ inStruct \/ ~IsStruct(at)
      /\ next \in 1 .. Len(CodeAtHand)
      /\ Waiting(CodeAtHand)[next] = AfterNode(CodeAtHand, AtHand, next)
  BY AtNodeIs
<1>2. /\ UNCHANGED <<prog, at, inStruct>> /\ next' = next + 1
      /\ CodeAtHand' = CodeAtHand
  BY NodeStays DEF IInv, Advance
<1>3. PlaceTyped
  BY DEF IInv, StructInv, Typed
<1>4. Len(CodeAtHand) \in Nat
  BY <1>3, CodeAtHandIs
<1>5. next' - 1 = next /\ next' \in 1 .. Len(CodeAtHand) + 1
  BY <1>1, <1>2, <1>4
<1>6. Waiting(CodeAtHand')[next' - 1] = AfterNode(CodeAtHand, AtHand, next)
  BY <1>1, <1>2, <1>5
<1>7. Match(operands', Waiting(CodeAtHand')[next' - 1], CodeAtHand')
  BY <1>2, <1>6
<1>8. next' > 1 => inStruct' \/ ~IsStruct(at)'
  BY <1>1, <1>2 DEF IsStruct
<1> QED
  BY <1>2, <1>5, <1>7, <1>8 DEF OperandsWait, Match

\* An access that is there already is as declared still.
LEMMA SameAccesses ==
  ASSUME AccessesAsDeclared, UNCHANGED <<prog, structDefinitions, accesses>>
  PROVE  AccessesAsDeclared'
BY SameTypes DEF AccessesAsDeclared, AsDeclared, Members

LEMMA AppendedLast ==
  ASSUME NEW X, NEW s \in Seq(X), NEW v \in X
  PROVE  /\ Append(s, v) \in Seq(X)
         /\ Append(s, v) # <<>>
         /\ Last(Append(s, v)) = v
<1>1. Len(s) \in Nat /\ Len(Append(s, v)) = Len(s) + 1 /\ Append(s, v)[Len(s) + 1] = v
  OBVIOUS
<1> QED
  BY <1>1 DEF Last

\* A node whose value is no member, and which accesses none.
LEMMA ValueInv ==
  ASSUME IInv, NEW kind, AtNode(kind), Advance,
         UNCHANGED accesses,
         lastRetrievedElementType' \in Seq(RetrievedTypes),
         operands' \in Seq(ProperOperand),
         operands' = <<>> \/ Last(operands').kind # "member",
         Match(operands', AfterNode(CodeAtHand, AtHand, next), CodeAtHand)
  PROVE  IInv'
<1>1. AccessInv /\ StructInv
  BY DEF IInv
<1>2. StructInv' /\ RetrievedTypes' = RetrievedTypes
      /\ UNCHANGED <<prog, pass, structDefinitions, wasError, status>>
  BY <1>1, NodeStays
<1>3. OperandsWait'
  BY OperandsAdvance
<1>4. OperandsTyped' /\ MemberIsOnTop'
  BY DEF OperandsTyped, MemberIsOnTop
<1>5. StackTyped' /\ AccessesInBodies'
  BY <1>1, <1>2, AtNodeIs DEF AccessInv, StackTyped, AccessesInBodies
<1>6. AccessesAsDeclared'
  BY <1>1, <1>2, SameAccesses DEF AccessInv
<1> QED
  BY <1>2, <1>3, <1>4, <1>5, <1>6 DEF IInv, AccessInv

LEMMA StackIsTyped ==
  ASSUME IInv
  PROVE  lastRetrievedElementType \in Seq(RetrievedTypes)
BY DEF IInv, AccessInv, StackTyped

LEMMA GenerateConstantInv ==
  ASSUME IInv, GenerateConstant
  PROVE  IInv'
<1> DEFINE v == [kind |-> "constant", type |-> Builtin, meant |-> [name |-> "int", pointers |-> 0],
                 direct |-> TRUE]
<1>1. AtNode("constant") /\ Advance /\ operands' = Append(operands, v)
      /\ UNCHANGED <<lastRetrievedElementType, accesses>>
  BY DEF GenerateConstant
<1>2. v \in ProperOperand /\ v.kind = "constant"
  BY DEF ProperOperand, Operand, LLVMType, TypeNode, Builtins
<1> HIDE DEF v
<1> DEFINE kind == "constant"
<1>a. AtNode(kind) /\ kind = "constant"
  BY <1>1
<1> HIDE DEF kind
<1>3. operands \in Seq(ProperOperand)
  BY DEF IInv, AccessInv, OperandsTyped
<1>4. /\ next \in 1 .. Len(CodeAtHand)
      /\ CodeAtHand[next].kind = kind
      /\ AtHand \in Seq(Nat)
      /\ Match(operands, AtHand, CodeAtHand)
  BY <1>a, AtNodeIs
<1>5. AfterNode(CodeAtHand, AtHand, next) = Append(AtHand, next)
  BY <1>a, <1>4 DEF AfterNode
<1>6. Match(Append(operands, v), Append(AtHand, next), CodeAtHand)
  BY <1>a, <1>2, <1>3, <1>4, MatchAppend
<1>7. operands' \in Seq(ProperOperand) /\ Last(operands').kind # "member"
  BY <1>1, <1>2, <1>3, AppendedLast
<1> QED
  BY <1>a, <1>1, <1>5, <1>6, <1>7, ValueInv, StackIsTyped

LEMMA GenerateVariableInv ==
  ASSUME IInv, GenerateVariable
  PROVE  IInv'
<1> DEFINE v == [kind |-> "variable", type |-> GetLLVMType(Node.type), meant |-> Node.type,
                 direct |-> TRUE]
<1>1. AtNode("variable") /\ Advance /\ operands' = Append(operands, v) /\ Defined(Node.type)
      /\ UNCHANGED <<lastRetrievedElementType, accesses>>
  BY DEF GenerateVariable
<1> DEFINE kind == "variable"
<1>a. AtNode(kind) /\ kind = "variable"
  BY <1>1
<1> HIDE DEF kind
<1>4. /\ next \in 1 .. Len(CodeAtHand)
      /\ CodeAtHand[next].kind = kind
      /\ Node \in ASTNode /\ Node.kind = kind
      /\ AtHand \in Seq(Nat)
      /\ Match(operands, AtHand, CodeAtHand)
  BY <1>a, AtNodeIs
<1>2. v \in ProperOperand /\ v.kind = "variable"
  <2>1. Node.type \in TypeNode
    BY <1>a, <1>4, NodeKinds
  <2>2. GetLLVMType(Node.type) \in LLVMType
    BY <1>1, GetLLVMTypeType DEF IInv, StructInv, Typed
  <2> QED
    BY <2>1, <2>2 DEF ProperOperand, Operand, Addresses
<1> HIDE DEF v
<1>3. operands \in Seq(ProperOperand)
  BY DEF IInv, AccessInv, OperandsTyped
<1>5. AfterNode(CodeAtHand, AtHand, next) = Append(AtHand, next)
  BY <1>a, <1>4 DEF AfterNode
<1>6. Match(Append(operands, v), Append(AtHand, next), CodeAtHand)
  BY <1>a, <1>2, <1>3, <1>4, MatchAppend
<1>7. operands' \in Seq(ProperOperand) /\ Last(operands').kind # "member"
  BY <1>1, <1>2, <1>3, AppendedLast
<1> QED
  BY <1>a, <1>1, <1>5, <1>6, <1>7, ValueInv, StackIsTyped

LEMMA EndStatementInv ==
  ASSUME IInv, EndStatement
  PROVE  IInv'
<1>1. AtNode("semicolon") /\ Advance /\ operands' = <<>>
      /\ UNCHANGED <<lastRetrievedElementType, accesses>>
  BY DEF EndStatement
<1> DEFINE kind == "semicolon"
<1>a. AtNode(kind) /\ kind = "semicolon"
  BY <1>1
<1> HIDE DEF kind
<1>2. CodeAtHand[next].kind = kind
  BY <1>a, AtNodeIs
<1>3. AfterNode(CodeAtHand, AtHand, next) = <<>>
  BY <1>a, <1>2 DEF AfterNode
<1>4. Match(operands', AfterNode(CodeAtHand, AtHand, next), CodeAtHand)
  BY <1>1, <1>3, MatchEmpty
<1>5. operands' \in Seq(ProperOperand)
  BY <1>1, EmptySeq
<1> QED
  BY <1>a, <1>1, <1>4, <1>5, ValueInv, StackIsTyped

LEMMA RemainingTyped ==
  ASSUME IInv, NEW left
  PROVE  Remaining(left) \in Seq(RetrievedTypes)
BY FrontType, StackIsTyped DEF Remaining

LEMMA GenerateAccessOperationInv ==
  ASSUME IInv, GenerateAccessOperation
  PROVE  IInv'
<1> DEFINE type == IF Base.kind = "variable" THEN Pointer ELSE Base.type
           v == [kind |-> "access", type |-> type, meant |-> Base.meant, direct |-> FALSE]
           ops == Front(Front(operands))
           w == Front(Front(AtHand))
<1>1. AtNode("access") /\ Advance /\ operands' = Append(ops, v)
      /\ lastRetrievedElementType' = Remaining(Base) /\ UNCHANGED accesses
  BY DEF GenerateAccessOperation
<1> DEFINE kind == "access"
<1>a. AtNode(kind) /\ kind = "access"
  BY <1>1
<1> HIDE DEF kind
<1>2. operands \in Seq(ProperOperand) /\ Len(operands) \in Nat
  BY DEF IInv, AccessInv, OperandsTyped
<1>3. /\ next \in 1 .. Len(CodeAtHand)
      /\ CodeAtHand[next].kind = kind
      /\ AtHand \in Seq(Nat)
      /\ Match(operands, AtHand, CodeAtHand)
  BY <1>a, AtNodeIs
<1>4. Len(operands) > 1
  BY <1>a, OperandsThere
<1>5. v \in ProperOperand /\ v.kind = kind
  <2>1. Base \in ProperOperand
    <3>1. Len(operands) - 1 \in 1 .. Len(operands)
      BY <1>2, <1>4
    <3> QED
      BY <1>2, <3>1 DEF Base
  <2>2. Base.type \in LLVMType /\ Base.meant \in TypeNode
    BY <2>1 DEF ProperOperand, Operand
  <2>3. type \in LLVMType
    BY <2>2 DEF LLVMType
  <2> HIDE DEF type
  <2>4. "access" \in Addresses \cup {"constant"}
    BY DEF Addresses
  <2> QED
    BY <1>a, <2>2, <2>3, <2>4 DEF ProperOperand, Operand
<1> HIDE DEF v
<1>6. operands # <<>> /\ Front(operands) # <<>>
  <2>1. operands # <<>>
    BY <1>2, <1>4
  <2>2. Len(Front(operands)) = Len(operands) - 1 /\ Front(operands) \in Seq(ProperOperand)
    BY <1>2, <2>1, FrontType
  <2> QED
    BY <2>1, <2>2, <1>2, <1>4
<1>7. Match(Front(operands), Front(AtHand), CodeAtHand) /\ Front(operands) \in Seq(ProperOperand)
      /\ Front(AtHand) \in Seq(Nat)
  BY <1>2, <1>3, <1>6, MatchFront
<1>8. Match(ops, w, CodeAtHand) /\ ops \in Seq(ProperOperand) /\ w \in Seq(Nat)
  BY <1>6, <1>7, MatchFront
<1>9. AfterNode(CodeAtHand, AtHand, next) = Append(w, next)
  BY <1>a, <1>3 DEF AfterNode
<1> HIDE DEF ops, w
<1>10. Match(Append(ops, v), Append(w, next), CodeAtHand)
  BY <1>3, <1>5, <1>8, MatchAppend
<1>11. operands' \in Seq(ProperOperand) /\ Last(operands').kind # "member"
  BY <1>1, <1>a, <1>5, <1>8, AppendedLast
<1>12. lastRetrievedElementType' \in Seq(RetrievedTypes)
  BY <1>1, RemainingTyped
<1> QED
  BY <1>a, <1>1, <1>9, <1>10, <1>11, <1>12, ValueInv

\* The struct that is found is the one the left side is declared to be or to point to, if
\* there is no element on the way.
LEMMA FoundAsMeant ==
  ASSUME IInv, AtNode("member"), NEW s, s \in StructsOf(Last(operands)), Last(operands).kind # "access"
  PROVE  Last(operands).meant.name = s
<1> DEFINE left == Last(operands)
           kind == "member"
<1>1. AtNode(kind) /\ kind = "member"
  OBVIOUS
<1> HIDE DEF kind
<1>2. operands # <<>> /\ left.kind \in Addresses
  BY <1>1, OperandsThere
<1>3. s \in DOMAIN structDefinitions
      /\ IF IsRetrieved(left) THEN StructVal(s) = Last(lastRetrievedElementType)
                              ELSE left.meant = [name |-> s, pointers |-> 0]
  BY DEF StructsOf
<1>4. CASE left.kind = "variable"
  BY <1>3, <1>4 DEF IsRetrieved
<1>5. CASE left.kind = "member"
  <2>1. Last(lastRetrievedElementType) = GetLLVMType([name |-> left.meant.name, pointers |-> 0])
    BY <1>2, <1>5 DEF IInv, AccessInv, MemberIsOnTop
  <2>2. StructVal(s) = GetLLVMType([name |-> left.meant.name, pointers |-> 0])
    BY <1>3, <1>5, <2>1 DEF IsRetrieved
  <2>3. GetLLVMType([name |-> left.meant.name, pointers |-> 0]) =
          IF left.meant.name \in Builtins THEN Builtin ELSE StructVal(left.meant.name)
    BY DEF GetLLVMType
  <2> QED
    BY <2>2, <2>3 DEF StructVal, Builtin, Builtins
<1> QED
  BY <1>2, <1>4, <1>5 DEF Addresses

\* The members of a struct that is defined are proper, when there is no error in pass 2.
LEMMA MembersProper ==
  ASSUME StructInv, ~wasError, pass = BodyPass, NEW s \in DOMAIN structDefinitions,
         NEW i \in 1 .. Len(Members(s))
  PROVE  Members(s)[i] \in Field /\ Defined(Members(s)[i].type)
<1> DEFINE d == structDefinitions[s].token
<1>1. d \in 1 .. Len(prog) /\ IsStruct(d)
  BY DEF StructInv, Typed, DefinitionsTyped, Declared
<1>2. Passed(d, PrototypePass)
  BY PassesDiffer DEF Passed
<1>3. Proper(d)
  BY <1>1, <1>2 DEF StructInv, NoErrorYet
<1>4. prog[d].fields \in Seq(Field) /\ Members(s) = prog[d].fields
  BY <1>1, DeclarationType DEF StructInv, Typed, PlaceTyped, IsStruct, Members
<1> HIDE DEF d
<1> QED
  BY <1>3, <1>4 DEF Proper


\* A member of a struct that the left side is declared to be, or to point to.
LEMMA AccessedAsDeclared ==
  ASSUME StructInv, NEW a, NEW s \in DOMAIN structDefinitions, NEW i \in 1 .. Len(Members(s)),
         a.of.name = s, a.struct = StructVal(s), a.index = i,
         Members(s)[i].type.pointers = 0,
         a.type = GetLLVMType([name |-> Members(s)[i].type.name, pointers |-> 0])
  PROVE  AsDeclared(a)
<1>1. GetLLVMType([name |-> Members(s)[i].type.name, pointers |-> 0]) = GetLLVMType(Members(s)[i].type)
  BY DEF GetLLVMType
<1> QED
  BY <1>1 DEF AsDeclared

\* One more access, by which no type changes.
LEMMA AccessAdded ==
  ASSUME AccessesAsDeclared, UNCHANGED <<prog, structDefinitions>>, NEW a,
         a.direct => AsDeclared(a), accesses' = accesses \cup {a}
  PROVE  AccessesAsDeclared'
<1>1. \A b \in accesses' : b.direct => AsDeclared(b)
  BY DEF AccessesAsDeclared
<1> QED
  BY <1>1, SameTypes DEF AccessesAsDeclared, AsDeclared, Members

LEMMA GenerateMemberAccessInv ==
  ASSUME IInv, GenerateMemberAccess
  PROVE  IInv'
<1>1. AtNode("member")
  BY DEF GenerateMemberAccess
<1>d. PICK s \in StructsOf(Last(operands)) : \E i \in IndexOf(s, Node.name) :
        GenerateMember(Last(operands), s, i)
  BY DEF GenerateMemberAccess
<1>2. PICK i \in IndexOf(s, Node.name) : GenerateMember(Last(operands), s, i)
  BY <1>d
<1>b. PICK left, field, type : left = Last(operands) /\ field = Members(s)[i] /\ type = ElementType(field)
  OBVIOUS
<1>c. PICK struct : struct = StructVal(s)
  OBVIOUS
<1> DEFINE v == [kind |-> "member", type |-> type, meant |-> field.type, direct |-> left.direct]
           a == [struct |-> struct, index |-> i, type |-> type, of |-> left.meant,
                 name |-> field.name, direct |-> left.direct /\ field.type.pointers = 0]
           kind == "member"
<1>3. /\ operands' = Append(Front(operands), v)
      /\ lastRetrievedElementType' = Append(Remaining(left), type)
      /\ accesses' = accesses \cup {a}
      /\ Advance
  BY <1>2, <1>b, <1>c DEF GenerateMember, Retrieve
<1>a. AtNode(kind) /\ kind = "member"
  BY <1>1
<1> HIDE DEF kind
<1>4. /\ pass = BodyPass /\ at \in 1 .. Len(prog) /\ ~wasError
      /\ next \in 1 .. Len(CodeAtHand)
      /\ CodeAtHand[next].kind = kind
      /\ AtHand \in Seq(Nat)
      /\ Match(operands, AtHand, CodeAtHand)
  BY <1>a, AtNodeIs
<1>5. StructInv /\ AccessInv /\ operands \in Seq(ProperOperand)
  BY DEF IInv, AccessInv, OperandsTyped
<1>6. operands # <<>> /\ left.kind \in Addresses
  BY <1>a, <1>b, OperandsThere
<1>7. left \in ProperOperand
  <2>1. Len(operands) \in 1 .. Len(operands)
    BY <1>5, <1>6
  <2> QED
    BY <2>1, <1>5, <1>b DEF Last
<1>8. s \in DOMAIN structDefinitions
  BY DEF StructsOf
<1>9. i \in 1 .. Len(Members(s))
  BY DEF IndexOf
<1>10. field \in Field /\ Defined(field.type)
  BY <1>4, <1>5, <1>8, <1>9, <1>b, MembersProper
<1>11. type = GetLLVMType([name |-> field.type.name, pointers |-> 0])
  BY <1>b DEF ElementType
<1>12. type \in LLVMType /\ type \in RetrievedTypes
  <2> DEFINE node == [name |-> field.type.name, pointers |-> 0]
  <2>1. Defined(node) /\ node.pointers = 0
    BY <1>10 DEF Defined
  <2> HIDE DEF node
  <2>2. GetLLVMType(node) \in LLVMType
    BY <2>1, <1>5, GetLLVMTypeType DEF StructInv, Typed
  <2>3. GetLLVMType(node) \in RetrievedTypes
    BY <2>1 DEF GetLLVMType, Defined, RetrievedTypes
  <2> QED
    BY <2>2, <2>3, <1>11 DEF node
<1>14. v \in ProperOperand /\ v.kind = kind /\ v.meant = field.type
  <2>1. field.type \in TypeNode
    BY <1>10 DEF Field
  <2>2. left.direct \in BOOLEAN
    BY <1>7 DEF ProperOperand, Operand
  <2> QED
    BY <1>a, <2>1, <2>2, <1>12 DEF ProperOperand, Operand, Addresses
<1>23. a.direct => AsDeclared(a)
  <2> SUFFICES ASSUME left.direct, field.type.pointers = 0 PROVE AsDeclared(a)
    OBVIOUS
  <2>1. left.kind # "access"
    BY <1>7 DEF ProperOperand, Operand
  <2>2. left.meant.name = s
    BY <2>1, <1>1, <1>2, <1>b, FoundAsMeant
  <2>3. a.of.name = s /\ a.struct = StructVal(s) /\ a.index = i /\ a.type = type
    BY <2>2, <1>c
  <2> HIDE DEF a
  <2> QED
    BY <2>3, <1>b, <1>5, <1>8, <1>9, <1>11, AccessedAsDeclared
<1> HIDE DEF v, a
<1>15. Match(Front(operands), Front(AtHand), CodeAtHand) /\ Front(operands) \in Seq(ProperOperand)
       /\ Front(AtHand) \in Seq(Nat)
  BY <1>4, <1>5, <1>6, MatchFront
<1>16. AfterNode(CodeAtHand, AtHand, next) = Append(Front(AtHand), next)
  BY <1>a, <1>4 DEF AfterNode
<1>17. Match(Append(Front(operands), v), Append(Front(AtHand), next), CodeAtHand)
  BY <1>4, <1>14, <1>15, MatchAppend
<1>18. OperandsWait'
  BY <1>a, <1>3, <1>16, <1>17, OperandsAdvance
<1>19. operands' \in Seq(ProperOperand) /\ Last(operands') = v
  BY <1>3, <1>14, <1>15, AppendedLast
<1>20. lastRetrievedElementType' \in Seq(RetrievedTypes) /\ lastRetrievedElementType' # <<>>
       /\ Last(lastRetrievedElementType') = type
  BY <1>3, <1>12, RemainingTyped, AppendedLast
<1>21. StructInv' /\ RetrievedTypes' = RetrievedTypes
       /\ UNCHANGED <<prog, pass, structDefinitions, wasError, status>>
  BY <1>a, <1>3, <1>5, NodeStays
<1>22. MemberIsOnTop'
  <2>1. GetLLVMType([name |-> field.type.name, pointers |-> 0])' =
          GetLLVMType([name |-> field.type.name, pointers |-> 0])
    BY <1>21, SameTypes
  <2>2. Last(operands').meant.name = field.type.name
    BY <1>14, <1>19
  <2> QED
    BY <2>1, <2>2, <1>11, <1>20 DEF MemberIsOnTop
<1>24. AccessesAsDeclared'
  BY <1>3, <1>5, <1>21, <1>23, AccessAdded DEF AccessInv
<1>25. AccessesInBodies'
  BY <1>4, <1>21 DEF AccessesInBodies
<1> QED
  BY <1>18, <1>19, <1>20, <1>21, <1>22, <1>24, <1>25 DEF IInv, AccessInv, OperandsTyped, StackTyped

\* A step that stays at the node, and after which an error is no news.
LEMMA AccessStays ==
  ASSUME IInv, StructInv',
         UNCHANGED <<prog, pass, at, inStruct, next, structDefinitions>>, UNCHANGED accessVars,
         wasError' /\ status' \in {"compiling", "written"} =>
           wasError /\ status \in {"compiling", "written"}
  PROVE  IInv'
<1>1. AccessInv
  BY DEF IInv
<1>2. UNCHANGED <<operands, lastRetrievedElementType, accesses>>
  BY DEF accessVars
<1>3. CodeAtHand' = CodeAtHand /\ RetrievedTypes' = RetrievedTypes
  BY DEF CodeAtHand, Decl, RetrievedTypes, StructVal
<1>4. OperandsTyped' /\ StackTyped' /\ AccessesInBodies'
  BY <1>1, <1>2, <1>3 DEF AccessInv, OperandsTyped, StackTyped, AccessesInBodies
<1>5. MemberIsOnTop'
  BY <1>1, <1>2, SameTypes DEF AccessInv, MemberIsOnTop
<1>6. OperandsWait'
  BY <1>1, <1>2, <1>3 DEF AccessInv, OperandsWait, IsStruct
<1>7. AccessesAsDeclared'
  BY <1>1, <1>2, SameAccesses DEF AccessInv
<1> QED
  BY <1>4, <1>5, <1>6, <1>7 DEF IInv, AccessInv

-----------------------------------------------------------------------------
(***************************************************************************)
(* Steps between the bodies                                                *)
(***************************************************************************)
\* Before the first node and after the last one nothing waits for its use.
LEMMA NothingWaits ==
  ASSUME IInv, next = 1 \/ next > Len(CodeAtHand)
  PROVE  operands = <<>>
<1>1. PlaceTyped /\ OperandsWait /\ operands \in Seq(ProperOperand)
  BY DEF IInv, StructInv, Typed, AccessInv, OperandsTyped
<1>2. Len(CodeAtHand) \in Nat
      /\ Waiting(CodeAtHand)[0] = <<>> /\ Waiting(CodeAtHand)[Len(CodeAtHand)] = <<>>
  BY <1>1, CodeAtHandIs
<1>3. next \in 1 .. Len(CodeAtHand) + 1
  BY <1>1 DEF OperandsWait
<1>4. next - 1 = 0 \/ next - 1 = Len(CodeAtHand)
  BY <1>2, <1>3
<1>5. Waiting(CodeAtHand)[next - 1] = <<>>
  BY <1>2, <1>4
<1>6. Len(operands) = 0
  BY <1>1, <1>5 DEF OperandsWait
<1> QED
  BY <1>1, <1>6

\* Where no body is being walked through, its first node is the next.
LEMMA OutOfBodies ==
  ASSUME IInv, pass # BodyPass \/ at \notin 1 .. Len(prog) \/ (IsStruct(at) /\ ~inStruct)
  PROVE  next = 1
<1>1. PlaceTyped /\ OperandsWait
  BY DEF IInv, StructInv, Typed, AccessInv
<1>2. next \in 1 .. Len(CodeAtHand) + 1 /\ (next > 1 => inStruct \/ ~IsStruct(at))
  BY <1>1 DEF OperandsWait
<1>3. CASE IsStruct(at) /\ ~inStruct
  BY <1>2, <1>3
<1>4. CASE pass # BodyPass \/ at \notin 1 .. Len(prog)
  <2>1. CodeAtHand = <<>>
    BY <1>4 DEF CodeAtHand
  <2>2. Len(CodeAtHand) = 0
    BY <2>1, EmptyCode
  <2> QED
    BY <1>2, <2>2
<1> QED
  BY <1>3, <1>4

\* A step between two bodies.
LEMMA BetweenBodies ==
  ASSUME IInv, StructInv', operands = <<>>, next' = 1, UNCHANGED prog, UNCHANGED accessVars,
         pass # BodyPass \/ UNCHANGED structDefinitions,
         pass' # BodyPass => pass # BodyPass,
         wasError' /\ status' \in {"compiling", "written"} =>
           pass # BodyPass \/ (wasError /\ status \in {"compiling", "written"})
  PROVE  IInv'
<1>1. AccessInv
  BY DEF IInv
<1>2. UNCHANGED <<operands, lastRetrievedElementType, accesses>>
  BY DEF accessVars
<1>3. OperandsTyped' /\ MemberIsOnTop'
  BY <1>1, <1>2 DEF AccessInv, OperandsTyped, MemberIsOnTop
<1>4. AccessesInBodies'
  BY <1>1, <1>2 DEF AccessInv, AccessesInBodies
<1>5. OperandsWait'
  <2>1. PlaceTyped'
    BY DEF StructInv, Typed
  <2>2. CodeAtHand' \in Seq(ASTNode)
    <3>1. CASE pass' = BodyPass /\ at' \in 1 .. Len(prog')
      <4>1. CodeAtHand' = prog'[at'].code
        BY <3>1 DEF CodeAtHand, Decl
      <4>2. prog' \in Seq(Declaration)
        BY <2>1 DEF PlaceTyped
      <4> QED
        BY <3>1, <4>1, <4>2, DeclarationType
    <3>2. CASE ~(pass' = BodyPass /\ at' \in 1 .. Len(prog'))
      <4>1. CodeAtHand' = <<>>
        BY <3>2 DEF CodeAtHand
      <4> QED
        BY <4>1, EmptyCode
    <3> QED
      BY <3>1, <3>2
  <2>3. Len(CodeAtHand') \in Nat /\ Waiting(CodeAtHand')[0] = <<>>
    BY <2>2, WaitingIs
  <2>4. next' - 1 = 0 /\ next' \in 1 .. Len(CodeAtHand') + 1 /\ ~(next' > 1)
    BY <2>3
  <2>5. Match(operands', Waiting(CodeAtHand')[next' - 1], CodeAtHand')
    BY <2>3, <2>4, <1>2, MatchEmpty
  <2> QED
    BY <2>4, <2>5 DEF OperandsWait, Match
<1>6. CASE pass # BodyPass
  <2>1. lastRetrievedElementType' = <<>> /\ accesses' = {}
    BY <1>1, <1>2, <1>6 DEF AccessInv, AccessesInBodies
  <2>2. StackTyped'
    BY <2>1, EmptySeq DEF StackTyped
  <2>3. AccessesAsDeclared'
    BY <2>1 DEF AccessesAsDeclared
  <2> QED
    BY <1>3, <1>4, <1>5, <2>2, <2>3 DEF IInv, AccessInv
<1>7. CASE UNCHANGED structDefinitions
  <2>1. RetrievedTypes' = RetrievedTypes
    BY <1>7 DEF RetrievedTypes, StructVal
  <2>2. StackTyped'
    BY <1>1, <1>2, <2>1 DEF AccessInv, StackTyped
  <2>3. AccessesAsDeclared'
    BY <1>1, <1>2, <1>7, SameAccesses DEF AccessInv
  <2> QED
    BY <1>3, <1>4, <1>5, <2>2, <2>3 DEF IInv, AccessInv
<1> QED
  BY <1>6, <1>7

\* In pass 2 the struct at hand is declared once, with proper fields, if there is no error.
LEMMA FoundInPassTwo ==
  ASSUME StructInv, AtStruct, pass = BodyPass, ~wasError
  PROVE  ~Redefined /\ ~FieldsWithoutType
<1>1. at \in 1 .. Len(prog) /\ IsStruct(at) /\ Decl = prog[at]
  BY AtStructIs
<1>2. PlaceTyped /\ NoErrorYet
  BY DEF StructInv, Typed
<1>3. Passed(at, TypePass) /\ Passed(at, PrototypePass)
  BY <1>1, <1>2, AtInPass, PassesDiffer
<1>4. structDefinitions[prog[at].name].token = at /\ Proper(at)
  BY <1>1, <1>2, <1>3 DEF NoErrorYet
<1> QED
  BY <1>1, <1>2, <1>4, ProperFields DEF Redefined, PlaceTyped

\* A step of StructTypes to the next declaration.
LEMMA DeclarationStep ==
  ASSUME IInv, Next, UNCHANGED accessVars, NextDeclaration, at \in 1 .. Len(prog), ~inStruct,
         pass = BodyPass => IsStruct(at),
         status = "compiling",
         pass # BodyPass \/ UNCHANGED structDefinitions,
         pass = BodyPass /\ wasError' => wasError
  PROVE  IInv'
<1>1. next = 1
  BY OutOfBodies
<1>2. operands = <<>>
  BY <1>1, NothingWaits
<1>3. StructInv'
  BY StructNextInv DEF IInv
<1>4. next' = 1 /\ UNCHANGED prog /\ pass' = pass
  BY <1>1 DEF NextDeclaration
<1> QED
  BY <1>2, <1>3, <1>4, BetweenBodies

LEMMA LeaveStructAccesses ==
  ASSUME IInv, LeaveStruct \/ EndFunction, UNCHANGED accessVars
  PROVE  IInv'
<1>1. /\ InBody /\ next > Len(Decl.code) /\ next' = 1
      /\ UNCHANGED <<prog, pass, structDefinitions, wasError>>
  BY DEF LeaveStruct, EndFunction
<1>2. status = "compiling" /\ CodeAtHand = Decl.code
  BY <1>1 DEF InBody, CodeAtHand
<1>3. operands = <<>>
  BY <1>1, <1>2, NothingWaits
<1>4. StructInv'
  BY StructNextInv DEF IInv, Next
<1> QED
  BY <1>1, <1>2, <1>3, <1>4, BetweenBodies

LEMMA TypeInstanceAccesses ==
  ASSUME IInv, GenerateTypeInstance, UNCHANGED accessVars
  PROVE  IInv'
<1>1. /\ AtNode("new") /\ next' = next + 1
      /\ UNCHANGED <<prog, pass, at, inStruct, structDefinitions, wasError, status>>
  BY DEF GenerateTypeInstance, AtNew
<1> DEFINE kind == "new"
<1>a. AtNode(kind) /\ kind = "new"
  BY <1>1
<1> HIDE DEF kind
<1>2. UNCHANGED <<operands, lastRetrievedElementType, accesses>>
  BY DEF accessVars
<1>3. AccessInv /\ PlaceTyped
  BY DEF IInv, StructInv, Typed
<1>4. /\ inStruct \/ ~IsStruct(at)
      /\ next \in 1 .. Len(CodeAtHand)
      /\ CodeAtHand[next].kind = kind
      /\ Match(operands, AtHand, CodeAtHand)
      /\ Waiting(CodeAtHand)[next] = AfterNode(CodeAtHand, AtHand, next)
  BY <1>a, AtNodeIs
<1>5. AfterNode(CodeAtHand, AtHand, next) = AtHand
  BY <1>a, <1>4 DEF AfterNode
<1>6. Len(CodeAtHand) \in Nat
  BY <1>3, CodeAtHandIs
<1>7. CodeAtHand' = CodeAtHand /\ RetrievedTypes' = RetrievedTypes
  BY <1>1 DEF CodeAtHand, Decl, RetrievedTypes, StructVal
<1>8. OperandsWait'
  <2>1. next' - 1 = next /\ next' \in 1 .. Len(CodeAtHand) + 1
    BY <1>1, <1>4, <1>6
  <2>2. Waiting(CodeAtHand')[next' - 1] = AtHand
    BY <1>4, <1>5, <1>7, <2>1
  <2>3. Match(operands', Waiting(CodeAtHand')[next' - 1], CodeAtHand')
    BY <1>2, <1>4, <1>7, <2>2
  <2>4. next' > 1 => inStruct' \/ ~IsStruct(at)'
    BY <1>1, <1>4 DEF IsStruct
  <2> QED
    BY <1>7, <2>1, <2>3, <2>4 DEF OperandsWait, Match
<1>9. OperandsTyped' /\ StackTyped' /\ AccessesInBodies'
  BY <1>1, <1>2, <1>3, <1>7 DEF AccessInv, OperandsTyped, StackTyped, AccessesInBodies
<1>10. MemberIsOnTop'
  BY <1>1, <1>2, <1>3, SameTypes DEF AccessInv, MemberIsOnTop
<1>11. AccessesAsDeclared'
  BY <1>1, <1>2, <1>3, SameAccesses DEF AccessInv
<1>12. StructInv'
  BY StructNextInv DEF IInv, Next
<1> QED
  BY <1>8, <1>9, <1>10, <1>11, <1>12 DEF IInv, AccessInv

\* A step of StructTypes, which leaves what has been accessed alone.
LEMMA StructStep ==
  ASSUME IInv, Next, UNCHANGED accessVars
  PROVE  IInv'
<1>1. StructInv /\ StructInv'
  BY StructNextInv DEF IInv
<1>2. CASE RedefineStruct
  <2>1. AtStruct /\ Redefined /\ NextDeclaration /\ UNCHANGED structDefinitions
    BY <1>2 DEF RedefineStruct
  <2> QED
    BY <1>1, <2>1, AtStructIs, FoundInPassTwo, DeclarationStep
<1>3. CASE UntypedField
  <2>1. AtStruct /\ FieldsWithoutType /\ NextDeclaration /\ UNCHANGED structDefinitions
    BY <1>3 DEF UntypedField
  <2> QED
    BY <1>1, <2>1, AtStructIs, FoundInPassTwo, DeclarationStep
<1>4. CASE UnknownFieldType
  BY <1>1, <1>4, AccessStays DEF UnknownFieldType, Stop
<1>5. CASE DeclareStruct
  <2>1. AtStruct /\ NextDeclaration /\ pass \in {TypePass, PrototypePass} /\ wasError' = wasError
    BY <1>5 DEF DeclareStruct
  <2> QED
    BY <1>1, <2>1, AtStructIs, DeclarationStep, PassesDiffer
<1>6. CASE EnterStruct
  <2>1. AtStruct /\ UNCHANGED <<prog, pass, at, next, structDefinitions, wasError, status>>
    BY <1>6 DEF EnterStruct
  <2>2. next = 1
    BY <1>1, <2>1, AtStructIs, OutOfBodies
  <2> QED
    BY <1>1, <2>1, <2>2, NothingWaits, BetweenBodies, AtStructIs
<1>7. CASE LeaveStruct \/ EndFunction
  BY <1>7, LeaveStructAccesses
<1>8. CASE SkipInTypePass
  <2>1. AtFunction /\ NextDeclaration /\ pass = TypePass /\ UNCHANGED <<structDefinitions, wasError>>
    BY <1>8 DEF SkipInTypePass
  <2> QED
    BY <2>1, DeclarationStep, PassesDiffer DEF AtFunction
<1>9. CASE GeneratePrototype
  <2>1. AtFunction /\ NextDeclaration /\ pass = PrototypePass /\ UNCHANGED <<structDefinitions, wasError>>
    BY <1>9 DEF GeneratePrototype
  <2> QED
    BY <2>1, DeclarationStep, PassesDiffer DEF AtFunction
<1>10. CASE UnknownParameterType
  BY <1>1, <1>10, AccessStays DEF UnknownParameterType, Stop
<1>11. CASE FailInBody
  BY <1>1, <1>11, AccessStays DEF FailInBody, Stop
<1>12. CASE GenerateTypeInstance
  BY <1>12, TypeInstanceAccesses
<1>13. CASE UnknownTypeInstance
  BY <1>1, <1>13, AccessStays DEF UnknownTypeInstance, Stop
<1>14. CASE NextPass
  <2>1. pass # BodyPass /\ UNCHANGED <<prog, next>>
    BY <1>14 DEF NextPass
  <2>2. next = 1
    BY <2>1, OutOfBodies
  <2> QED
    BY <1>1, <2>1, <2>2, NothingWaits, BetweenBodies
<1>15. CASE WriteModule
  BY <1>1, <1>15, AccessStays DEF WriteModule, Stop
<1>16. CASE Finished
  BY <1>1, <1>16, AccessStays DEF Finished, vars
<1> QED
  BY <1>2, <1>3, <1>4, <1>5, <1>6, <1>7, <1>8, <1>9, <1>10, <1>11, <1>12, <1>13, <1>14, <1>15,
     <1>16 DEF Next

\* An access that ends the compiler.
LEMMA StoppedInNode ==
  ASSUME IInv, status = "compiling", Fail \/ End("undefined")
  PROVE  IInv'
<1>1. /\ UNCHANGED <<prog, pass, at, inStruct, next, currentStructName, structDefinitions, body,
                     fieldTypes, prototypes, layouts, zeroed>>
      /\ UNCHANGED accessVars
      /\ status' \in {"exited", "undefined"}
      /\ wasError' = TRUE \/ wasError' = wasError
  BY DEF Fail, End, Stop
<1>2. PlaceTyped /\ LayoutsTyped /\ StructInv
  BY DEF IInv, StructInv, Typed
<1>3. Stays /\ LayoutsTyped'
  BY <1>1, <1>2 DEF Stays, PlaceTyped, LayoutsTyped
<1>4. StructInv'
  BY <1>2, <1>3, StaysInv
<1> QED
  BY <1>1, <1>4, AccessStays

\* The inductive invariant holds initially, and every step keeps it.
LEMMA AccessInitInv ==
  ASSUME AccessInit
  PROVE  IInv
<1>1. Init /\ operands = <<>> /\ lastRetrievedElementType = <<>> /\ accesses = {}
  BY DEF AccessInit
<1>2. StructInv
  BY <1>1, StructInitInv
<1>3. OperandsTyped /\ StackTyped /\ MemberIsOnTop /\ AccessesAsDeclared /\ AccessesInBodies
  BY <1>1, EmptySeq DEF OperandsTyped, StackTyped, MemberIsOnTop, AccessesAsDeclared, AccessesInBodies
<1>4. OperandsWait
  <2>1. next = 1 /\ pass # BodyPass /\ PlaceTyped
    BY <1>1, <1>2, PassesDiffer DEF Init, StructInv, Typed
  <2>2. Waiting(CodeAtHand)[0] = <<>> /\ Len(CodeAtHand) \in Nat
    BY <2>1, CodeAtHandIs
  <2>3. next - 1 = 0 /\ next \in 1 .. Len(CodeAtHand) + 1 /\ ~(next > 1)
    BY <2>1, <2>2
  <2>4. Match(operands, Waiting(CodeAtHand)[next - 1], CodeAtHand)
    BY <1>1, <2>2, <2>3, MatchEmpty
  <2> QED
    BY <2>3, <2>4 DEF OperandsWait, Match
<1> QED
  BY <1>2, <1>3, <1>4 DEF IInv, AccessInv

LEMMA AccessNextInv ==
  ASSUME IInv, [AccessNext]_allVars
  PROVE  IInv'
<1>1. CASE Next /\ UNCHANGED accessVars
  BY <1>1, StructStep
<1>2. CASE GenerateConstant
  BY <1>2, GenerateConstantInv
<1>3. CASE GenerateVariable
  BY <1>3, GenerateVariableInv
<1>4. CASE UnknownVariableType
  BY <1>4, StoppedInNode DEF UnknownVariableType, AtNode, InBody
<1>5. CASE UnknownPointee
  BY <1>5, StoppedInNode DEF UnknownPointee, AtNode, InBody
<1>6. CASE NothingRetrieved
  BY <1>6, StoppedInNode DEF NothingRetrieved, AtNode, InBody
<1>7. CASE GenerateMemberAccess
  BY <1>7, GenerateMemberAccessInv
<1>8. CASE NoSuchMember
  BY <1>8, StoppedInNode DEF NoSuchMember, AtNode, InBody
<1>9. CASE GenerateAccessOperation
  BY <1>9, GenerateAccessOperationInv
<1>10. CASE InvalidAccess
  BY <1>10, StoppedInNode DEF InvalidAccess, AtNode, InBody
<1>11. CASE EndStatement
  BY <1>11, EndStatementInv
<1>12. CASE UNCHANGED allVars
  <2>1. UNCHANGED vars /\ UNCHANGED accessVars
    BY <1>12 DEF allVars
  <2>2. StructInv /\ PlaceTyped /\ LayoutsTyped
    BY DEF IInv, StructInv, Typed
  <2>3. Stays /\ LayoutsTyped'
    BY <2>1, <2>2 DEF Stays, vars, PlaceTyped, LayoutsTyped
  <2>4. StructInv'
    BY <2>2, <2>3, StaysInv
  <2> QED
    BY <2>1, <2>4, AccessStays DEF vars
<1> QED
  BY <1>1, <1>2, <1>3, <1>4, <1>5, <1>6, <1>7, <1>8, <1>9, <1>10, <1>11, <1>12
  DEF AccessNext, GenerateNode

-----------------------------------------------------------------------------
(***************************************************************************)
(* The end                                                                 *)
(***************************************************************************)
\* A module is written when pass 2 is through with the last declaration.
WrittenAtEnd == status = "written" => pass = BodyPass /\ at = Len(prog) + 1

LEMMA WrittenAtEndNext ==
  ASSUME WrittenAtEnd, [AccessNext]_allVars
  PROVE  WrittenAtEnd'
<1>1. CASE WriteModule
  BY <1>1 DEF WriteModule, WrittenAtEnd
<1>2. CASE UNCHANGED vars
  BY <1>2 DEF vars, WrittenAtEnd
<1>3. CASE GenerateNode
  BY <1>3 DEF GenerateNode, GenerateConstant, GenerateVariable, UnknownVariableType, UnknownPointee,
              NothingRetrieved, GenerateMemberAccess, GenerateMember, NoSuchMember,
              GenerateAccessOperation, InvalidAccess, EndStatement,
              AtNode, InBody, Advance, End, Fail, Stop, WrittenAtEnd
<1>4. CASE Next /\ ~WriteModule /\ ~Finished
  <2>1. status = "compiling"
    BY <1>4 DEF Next, RedefineStruct, UntypedField, UnknownFieldType, DeclareStruct, EnterStruct,
                LeaveStruct, SkipInTypePass, GeneratePrototype, UnknownParameterType, FailInBody,
                GenerateTypeInstance, UnknownTypeInstance, EndFunction, NextPass,
                AtStruct, AtFunction, InBody, AtNew, AtNode
  <2>2. status' \in {status, "exited", "undefined"}
    BY <1>4 DEF Next, RedefineStruct, UntypedField, UnknownFieldType, DeclareStruct, EnterStruct,
                LeaveStruct, SkipInTypePass, GeneratePrototype, UnknownParameterType, FailInBody,
                GenerateTypeInstance, UnknownTypeInstance, EndFunction, NextPass, Stop
  <2> QED
    BY <2>1, <2>2 DEF WrittenAtEnd
<1> QED
  BY <1>1, <1>2, <1>3, <1>4 DEF AccessNext, Finished, allVars

\* Together with the inductive invariant.
LEMMA AccessInvariant == AccessSpec => [](IInv /\ WrittenAtEnd)
<1>1. AccessInit => IInv /\ WrittenAtEnd
  <2>1. AccessInit => status # "written"
    BY DEF AccessInit, Init
  <2> QED
    BY <2>1, AccessInitInv DEF WrittenAtEnd
<1>2. IInv /\ WrittenAtEnd /\ [AccessNext]_allVars => (IInv /\ WrittenAtEnd)'
  BY AccessNextInv, WrittenAtEndNext
<1> QED
  BY <1>1, <1>2, PTL DEF AccessSpec

\* The compiler's walk over the declarations is typed: the struct at hand is on top of
\* currentStructName and nothing else is, every struct declared has an LLVM type, an
\* operand waits only in a statement, and what is on the stack are types there are.
THEOREM MemberAccessTypeOK == AccessSpec => []AccessTypeOK
<1>1. ASSUME IInv PROVE AccessTypeOK
  <2>1. TypeOK
    BY <1>1, TypedIs DEF IInv, StructInv
  <2>2. operands \in Seq(Operand)
    <3>1. ProperOperand \subseteq Operand /\ operands \in Seq(ProperOperand)
      BY <1>1 DEF IInv, AccessInv, OperandsTyped, ProperOperand
    <3> QED
      BY <3>1
  <2>3. operands # <<>> => next > 1
    <3>1. next \in Nat \ {0}
      BY <1>1 DEF IInv, StructInv, Typed, PlaceTyped
    <3>2. next = 1 => operands = <<>>
      BY <1>1, NothingWaits
    <3> QED
      BY <3>1, <3>2
  <2>4. \A k \in 1 .. Len(lastRetrievedElementType) : lastRetrievedElementType[k] \in RetrievedTypes
    BY <1>1, StackIsTyped
  <2> QED
    BY <2>1, <2>2, <2>3, <2>4 DEF AccessTypeOK, RetrievedTypes
<1> QED
  BY <1>1, AccessInvariant, PTL

\* Whatever order the structs and functions come in, in a module written without an error
\* the body of every struct is made of the LLVM types that are used at the end, and so is
\* a parameter of a struct declared before it: none of a type that a later pass replaced.
THEOREM StructTypesAreCurrent == AccessSpec => []TypesAreCurrent
<1>1. ASSUME IInv, WrittenAtEnd PROVE TypesAreCurrent
  <2> SUFFICES ASSUME status = "written", ~wasError PROVE TypesAreCurrent
    BY DEF TypesAreCurrent, BodiesAreCurrent, ParametersAreCurrent
  <2>1. BodiesSet /\ ParametersSet /\ PlaceTyped /\ PrototypesTyped
    BY <1>1 DEF IInv, StructInv, Typed
  <2>2. pass = BodyPass /\ at = Len(prog) + 1 /\ Len(prog) \in Nat
    BY <1>1, <2>1 DEF WrittenAtEnd, PlaceTyped
  <2>3. \A d \in 1 .. Len(prog) : Passed(d, BodyPass)
    BY <2>2 DEF Passed
  <2>4. BodiesAreCurrent
    BY <2>1, <2>3 DEF BodiesSet, BodiesAreCurrent, IsStruct
  <2>5. ParametersAreCurrent
    BY <2>1 DEF ParametersSet, ParametersAreCurrent
  <2> QED
    BY <2>4, <2>5 DEF TypesAreCurrent
<1> QED
  BY <1>1, AccessInvariant, PTL

\* In every module that is written a member is accessed in the struct its left side is
\* declared to be or to point to, as what that struct has there, however the stack that
\* the accesses of all statements share was left by the ones before.
THEOREM MembersAreAsDeclared == AccessSpec => []MembersAsDeclared
<1>1. ASSUME IInv, WrittenAtEnd PROVE MembersAsDeclared
  <2> SUFFICES ASSUME status = "written", NEW a \in accesses, a.direct
               PROVE  /\ a.of.name \in DOMAIN structDefinitions
                      /\ a.struct = StructVal(a.of.name)
                      /\ body[a.struct][a.index] = a.type
    BY DEF MembersAsDeclared
  <2>1. StructInv /\ AccessInv /\ PlaceTyped /\ DefinitionsTyped
    BY <1>1 DEF IInv, StructInv, Typed
  <2>2. ~wasError
    BY <2>1 DEF AccessInv, AccessesInBodies
  <2>3. AsDeclared(a)
    BY <2>1 DEF AccessInv, AccessesAsDeclared
  <2>4. pass = BodyPass /\ at = Len(prog) + 1 /\ Len(prog) \in Nat
    BY <1>1, <2>1 DEF WrittenAtEnd, PlaceTyped
  <2>5. PICK s, d : s = a.of.name /\ d = structDefinitions[s].token
    OBVIOUS
  <2>6. s \in DOMAIN structDefinitions /\ a.struct = StructVal(s) /\ Members(s) = prog[d].fields
        /\ a.index \in 1 .. Len(prog[d].fields)
        /\ a.type = GetLLVMType(prog[d].fields[a.index].type)
    BY <2>3, <2>5 DEF AsDeclared, Members
  <2>7. d \in 1 .. Len(prog) /\ IsStruct(d) /\ prog[d].name = s
    BY <2>1, <2>5, <2>6 DEF DefinitionsTyped, StructInv, Declared
  <2>8. Passed(d, BodyPass)
    BY <2>4, <2>7 DEF Passed
  <2>9. body[StructVal(s)] = FieldsOf(prog[d])
    BY <2>1, <2>2, <2>7, <2>8 DEF StructInv, BodiesSet
  <2>10. FieldsOf(prog[d])[a.index] = GetLLVMType(prog[d].fields[a.index].type)
    BY <2>6 DEF FieldsOf
  <2> QED
    BY <2>5, <2>6, <2>9, <2>10
<1> QED
  BY <1>1, AccessInvariant, PTL

-----------------------------------------------------------------------------
(***************************************************************************)
(* Which structs hold one another                                          *)
(***************************************************************************)
\* A chain of growing subsets of a set of n that stays where it has stopped has stopped by n.
LEMMA ChainStops ==
  ASSUME NEW D, IsFiniteSet(D), NEW n \in Nat, n = Cardinality(D),
         NEW r \in [0 .. n -> SUBSET D], r[0] # {},
         \A k \in 1 .. n : r[k - 1] \subseteq r[k],
         \A k \in 1 .. n : k + 1 \in 1 .. n /\ r[k] = r[k - 1] => r[k + 1] = r[k]
  PROVE  n > 0 /\ r[n] = r[n - 1]
<1>1. n > 0
  <2>1. D # {} /\ (n = 0 => D = {})
    BY FS_EmptySet
  <2> QED
    BY <2>1
<1>3. \A k \in 0 .. n : IsFiniteSet(r[k]) /\ Cardinality(r[k]) \in Nat /\ Cardinality(r[k]) <= n
  <2> TAKE k \in 0 .. n
  <2>1. r[k] \subseteq D
    OBVIOUS
  <2> QED
    BY <2>1, FS_Subset, FS_CardinalityType
<1>4. SUFFICES ASSUME r[n] # r[n - 1] PROVE FALSE
  BY <1>1
<1>5. \A k \in 1 .. n : r[k] # r[k - 1]
  <2> DEFINE bad == {m \in 0 .. n - 1 : r[n - m] = r[n - m - 1]}
  <2>1. ASSUME bad # {} PROVE FALSE
    <3>1. bad \in SUBSET Nat
      OBVIOUS
    <3>2. PICK m \in bad : \A j \in bad : m <= j
      BY <2>1, <3>1, LeastNat
    <3>3. m # 0
      BY <1>1, <1>4, <3>2
    <3>4. PICK k : k = n - m
      OBVIOUS
    <3>5. m \in 0 .. n - 1 /\ k \in 1 .. n /\ k + 1 \in 1 .. n /\ r[k] = r[k - 1]
      BY <3>2, <3>3, <3>4
    <3>6. r[k + 1] = r[k]
      BY <3>5
    <3>7. m - 1 \in 0 .. n - 1 /\ n - (m - 1) = k + 1 /\ n - (m - 1) - 1 = k
      BY <3>3, <3>4, <3>5
    <3>8. m - 1 \in bad
      BY <3>6, <3>7
    <3>9. m <= m - 1
      BY <3>2, <3>8
    <3> QED
      BY <3>5, <3>9
  <2>2. ASSUME NEW k \in 1 .. n PROVE r[k] # r[k - 1]
    <3>1. n - k \in 0 .. n - 1 /\ n - (n - k) = k
      OBVIOUS
    <3>2. n - k \notin bad
      BY <2>1
    <3> QED
      BY <3>1, <3>2
  <2> QED
    BY <2>2
<1>6. \A k \in 0 .. n : Cardinality(r[k]) >= k + 1
  <2> DEFINE bad == {k \in 0 .. n : ~(Cardinality(r[k]) >= k + 1)}
  <2>1. ASSUME bad # {} PROVE FALSE
    <3>1. bad \in SUBSET Nat
      OBVIOUS
    <3>2. PICK k \in bad : \A j \in bad : k <= j
      BY <2>1, <3>1, LeastNat
    <3>3. CASE k = 0
      <4>1. IsFiniteSet(r[0]) /\ Cardinality(r[0]) \in Nat
        BY <1>3
      <4>2. Cardinality(r[0]) # 0
        BY <4>1, FS_EmptySet
      <4>3. Cardinality(r[0]) >= 0 + 1
        BY <4>1, <4>2
      <4> QED
        BY <3>2, <3>3, <4>3
    <3>4. CASE k # 0
      <4>1. k \in 1 .. n /\ k - 1 \in 0 .. n /\ ~(k <= k - 1)
        BY <3>2, <3>4
      <4>2. k - 1 \notin bad
        BY <3>2, <4>1
      <4>3. Cardinality(r[k - 1]) >= k
        BY <4>1, <4>2
      <4>4. r[k - 1] \subseteq r[k] /\ r[k - 1] # r[k] /\ IsFiniteSet(r[k])
        BY <4>1, <1>3, <1>5
      <4>5. PICK S, T : S = r[k] /\ T = r[k - 1]
        OBVIOUS
      <4>7. Cardinality(T) <= Cardinality(S) /\ Cardinality(T) # Cardinality(S)
        BY <4>4, <4>5, FS_Subset
      <4>6. Cardinality(r[k]) >= k + 1
        BY <4>1, <4>3, <4>5, <4>7, <1>3
      <4> QED
        BY <3>2, <4>6
    <3> QED
      BY <3>3, <3>4
  <2> QED
    BY <2>1
<1>7. Cardinality(r[n]) <= n /\ Cardinality(r[n]) >= n + 1 /\ Cardinality(r[n]) \in Nat
  BY <1>3, <1>6
<1> QED
  BY <1>7

\* The structs that those in R hold by value
HeldByThese(R) == {e[2] : e \in {h \in Holds : h[1] \in R}}

ReachedIn(reached, d) ==
  reached = [n \in 0 .. Len(prog) |-> IF n = 0 THEN HeldByThese({d})
                                      ELSE reached[n - 1] \cup HeldByThese(reached[n - 1])]

\* The recursion of Reached has a solution, and Reached is the end of one.
LEMMA ReachedIs ==
  ASSUME prog \in Seq(Declaration), NEW d
  PROVE  \E r \in [0 .. Len(prog) -> SUBSET (1 .. Len(prog))] :
           /\ r[0] = HeldByThese({d})
           /\ \A k \in 1 .. Len(prog) : r[k] = r[k - 1] \cup HeldByThese(r[k - 1])
           /\ Reached(d) = r[Len(prog)]
<1> DEFINE n == Len(prog)
           X == SUBSET (1 .. n)
           x == HeldByThese({d})
           F == [k \in 1 .. n |-> [R \in X |-> R \cup HeldByThese(R)]]
           Solves(reached) ==
             reached = [m \in 0 .. n |->
                          IF m = 0 THEN {e[2] : e \in {h \in Holds : h[1] = d}}
                          ELSE reached[m - 1] \cup {e[2] : e \in {h \in Holds : h[1] \in reached[m - 1]}}]
<1>1. n \in Nat
  OBVIOUS
<1>2. \A R : HeldByThese(R) \subseteq 1 .. n
  BY DEF HeldByThese, Holds
<1>3. x \in X
  BY <1>2
<1>4. F \in [1 .. n -> [X -> X]]
  BY <1>2
<1>5. \A k \in 1 .. n : \A R \in X : F[k][R] = R \cup HeldByThese(R)
  OBVIOUS
<1>6. ASSUME NEW reached PROVE Solves(reached) <=> ReachedIn(reached, d)
  <2>1. {h \in Holds : h[1] = d} = {h \in Holds : h[1] \in {d}}
    OBVIOUS
  <2> QED
    BY <2>1 DEF HeldByThese, ReachedIn
<1> HIDE DEF F, n, X, x
<1>7. PICK r : Iterates(r, X, x, n, F)
  BY <1>1, <1>3, <1>4, IterationExists
<1>8. r \in [0 .. n -> X] /\ r[0] = x /\ \A k \in 1 .. n : r[k] = F[k][r[k - 1]]
  BY <1>7 DEF Iterates
<1>9. ASSUME NEW k \in 1 .. n PROVE r[k] = r[k - 1] \cup HeldByThese(r[k - 1])
  <2>1. k - 1 \in 0 .. n
    BY <1>1
  <2> QED
    BY <2>1, <1>5, <1>8
<1>10. ReachedIn(r, d)
  <2>1. ASSUME NEW k \in 0 .. n
        PROVE  r[k] = IF k = 0 THEN HeldByThese({d}) ELSE r[k - 1] \cup HeldByThese(r[k - 1])
    <3>1. k = 0 \/ k \in 1 .. n
      BY <1>1
    <3> QED
      BY <3>1, <1>8, <1>9 DEF x
  <2> QED
    BY <2>1, <1>8 DEF ReachedIn, n
<1>11. Reached(d) = (CHOOSE reached2 : Solves(reached2))[Len(prog)]
  BY Zenon DEF Reached, n
<1>12. Solves(r)
  BY <1>6, <1>10
<1> HIDE DEF Solves
<1>13. Solves(CHOOSE reached2 : Solves(reached2))
  BY <1>12
<1>14. PICK s : s = CHOOSE reached2 : Solves(reached2)
  OBVIOUS
<1>15. ReachedIn(s, d) /\ Reached(d) = s[Len(prog)]
  BY <1>6, <1>11, <1>13, <1>14
<1>16. s = [m \in 0 .. n |-> IF m = 0 THEN x ELSE s[m - 1] \cup HeldByThese(s[m - 1])]
  BY <1>15 DEF ReachedIn, n, x
<1>17. s[0] = x /\ \A k \in 1 .. n : s[k] = s[k - 1] \cup HeldByThese(s[k - 1])
  <2>1. \A k \in 0 .. n : s[k] = IF k = 0 THEN x ELSE s[k - 1] \cup HeldByThese(s[k - 1])
    BY <1>15 DEF ReachedIn, n, x
  <2>2. 0 \in 0 .. n
    BY <1>1
  <2>3. s[0] = x
    BY <2>1, <2>2
  <2>4. ASSUME NEW k \in 1 .. n PROVE s[k] = s[k - 1] \cup HeldByThese(s[k - 1])
    <3>1. k \in 0 .. n /\ k # 0
      BY <1>1
    <3> QED
      BY <3>1, <2>1
  <2> QED
    BY <2>3, <2>4
<1>18. \A k \in 0 .. n : s[k] \in X
  <2> DEFINE bad == {k \in 0 .. n : s[k] \notin X}
  <2>1. ASSUME bad # {} PROVE FALSE
    <3>1. bad \in SUBSET Nat
      OBVIOUS
    <3>2. PICK k \in bad : \A j \in bad : k <= j
      BY <2>1, <3>1, LeastNat
    <3>3. k # 0
      BY <3>2, <1>3, <1>17
    <3>4. k \in 1 .. n /\ k - 1 \in 0 .. n /\ ~(k <= k - 1)
      BY <1>1, <3>2, <3>3
    <3>5. s[k - 1] \in X
      BY <3>2, <3>4
    <3>6. s[k] \in X
      BY <3>4, <3>5, <1>2, <1>17 DEF X
    <3> QED
      BY <3>2, <3>6
  <2> QED
    BY <2>1
<1>19. s \in [0 .. n -> X]
  BY <1>16, <1>18
<1> QED
  BY <1>15, <1>17, <1>19 DEF n, X, x

\* What is reached from d is closed: it has what d holds, and what it holds itself.
LEMMA ReachedClosed ==
  ASSUME prog \in Seq(Declaration), NEW d \in 1 .. Len(prog), NEW e \in 1 .. Len(prog)
  PROVE  /\ HoldsByValue(d, e) => e \in Reached(d)
         /\ \A c \in Reached(d) : c \in 1 .. Len(prog) /\ (HoldsByValue(c, e) => e \in Reached(d))
<1> DEFINE n == Len(prog)
<1>1. PICK r \in [0 .. n -> SUBSET (1 .. n)] :
        /\ r[0] = HeldByThese({d})
        /\ \A k \in 1 .. n : r[k] = r[k - 1] \cup HeldByThese(r[k - 1])
        /\ Reached(d) = r[n]
  BY ReachedIs
<1>2. n \in Nat /\ n > 0
  BY DEF n
<1>3. ASSUME NEW c \in 1 .. n, NEW R, c \in R, HoldsByValue(c, e) PROVE e \in HeldByThese(R)
  <2>1. <<c, e>> \in Holds /\ <<c, e>>[1] = c /\ <<c, e>>[2] = e
    BY <1>3 DEF Holds, n
  <2> QED
    BY <2>1, <1>3 DEF HeldByThese
<1> HIDE DEF n
<1>4. \A k \in 1 .. n : r[k - 1] \subseteq r[k]
  BY <1>1
<1>5. ASSUME r[0] # {} PROVE r[n] = r[n - 1]
  <2>1. ASSUME NEW k \in 1 .. n, k + 1 \in 1 .. n, r[k] = r[k - 1] PROVE r[k + 1] = r[k]
    <3>1. r[k + 1] = r[k + 1 - 1] \cup HeldByThese(r[k + 1 - 1])
      BY <1>1, <2>1
    <3>2. k + 1 - 1 = k
      BY <1>2
    <3>3. r[k] = r[k - 1] \cup HeldByThese(r[k - 1])
      BY <1>1
    <3> QED
      BY <2>1, <3>1, <3>2, <3>3
  <2>2. PICK D : D = 1 .. n
    OBVIOUS
  <2>3. IsFiniteSet(D) /\ n = Cardinality(D)
    BY <2>2, <1>2, FS_Interval
  <2>4. r \in [0 .. n -> SUBSET D]
    BY <1>1, <2>2
  <2>5. \A k \in 1 .. n : k + 1 \in 1 .. n /\ r[k] = r[k - 1] => r[k + 1] = r[k]
    BY <2>1
  <2> QED
    BY <2>3, <2>4, <2>5, <1>2, <1>4, <1>5, ChainStops, Zenon
<1>6. HeldByThese({}) = {}
  BY DEF HeldByThese
<1>7. ASSUME r[0] = {} PROVE r[n] = {}
  <2> DEFINE bad == {k \in 0 .. n : r[k] # {}}
  <2>1. ASSUME bad # {} PROVE FALSE
    <3>1. bad \in SUBSET Nat
      OBVIOUS
    <3>2. PICK k \in bad : \A j \in bad : k <= j
      BY <2>1, <3>1, LeastNat
    <3>3. k # 0
      BY <3>2, <1>7
    <3>4. k \in 1 .. n /\ k - 1 \in 0 .. n /\ ~(k <= k - 1)
      BY <1>2, <3>2, <3>3
    <3>5. r[k - 1] = {}
      BY <3>2, <3>4
    <3>6. r[k] = {}
      BY <3>4, <3>5, <1>1, <1>6
    <3> QED
      BY <3>2, <3>6
  <2> QED
    BY <2>1, <1>2
<1>8. r[0] \subseteq r[n]
  <2> DEFINE bad == {k \in 0 .. n : ~(r[0] \subseteq r[k])}
  <2>1. ASSUME bad # {} PROVE FALSE
    <3>1. bad \in SUBSET Nat
      OBVIOUS
    <3>2. PICK k \in bad : \A j \in bad : k <= j
      BY <2>1, <3>1, LeastNat
    <3>3. k # 0
      BY <3>2
    <3>4. k \in 1 .. n /\ k - 1 \in 0 .. n /\ ~(k <= k - 1)
      BY <1>2, <3>2, <3>3
    <3>5. r[0] \subseteq r[k - 1]
      BY <3>2, <3>4
    <3>6. r[0] \subseteq r[k]
      BY <3>4, <3>5, <1>4
    <3> QED
      BY <3>2, <3>6
  <2> QED
    BY <2>1, <1>2
<1>9. HeldByThese(r[n]) \subseteq r[n]
  <2>1. CASE r[0] = {}
    BY <2>1, <1>6, <1>7
  <2>2. CASE r[0] # {}
    <3>1. r[n] = r[n - 1] /\ r[n] = r[n - 1] \cup HeldByThese(r[n - 1])
      BY <2>2, <1>1, <1>2, <1>5
    <3> QED
      BY <3>1
  <2> QED
    BY <2>1, <2>2
<1>10. r[n] \subseteq 1 .. n
  BY <1>1, <1>2
<1>11. d \in 1 .. n
  BY DEF n
<1>12. HoldsByValue(d, e) => e \in Reached(d)
  BY <1>1, <1>3, <1>8, <1>11
<1>13. ASSUME NEW c \in Reached(d) PROVE c \in 1 .. n /\ (HoldsByValue(c, e) => e \in Reached(d))
  BY <1>1, <1>3, <1>9, <1>10
<1> QED
  BY <1>12, <1>13 DEF n

-----------------------------------------------------------------------------
(***************************************************************************)
(* What the bodies hold                                                    *)
(***************************************************************************)
\* The declaration that a name stands for
Declares(s) == structDefinitions[s].token

\* The type u is one that a struct may have without a body, or that of a struct which the
\* declaration d holds by value.
HeldType(d, u) ==
  \/ u[2] = TypePass
  \/ u[1] \in DOMAIN structDefinitions /\ HoldsByValue(d, Declares(u[1]))

\* A body is that of a struct declared, empty in a type of pass 0, and holds what the
\* declaration holds.
BodiesHold ==
  \A t \in DOMAIN body :
    /\ t[1] \in DOMAIN structDefinitions
    /\ t[2] = TypePass => body[t] = <<>>
    /\ \A i \in 1 .. Len(body[t]) : HeldType(Declares(t[1]), body[t][i])

\* A struct with proper fields has a type of pass 1 from then on, even after an error.
MadeInPassOne ==
  \A d \in 1 .. Len(prog) :
    IsStruct(d) /\ Passed(d, PrototypePass) /\ Declares(prog[d].name) = d /\ Proper(d) =>
      structDefinitions[prog[d].name].made = PrototypePass

\* The struct that pass 2 is in is the one its name stands for.
EnteredDeclared ==
  inStruct => /\ structDefinitions[Decl.name] = [token |-> at, made |-> PrototypePass]
              /\ Proper(at)

HoldsInv == BodiesHold /\ MadeInPassOne /\ EnteredDeclared

\* What the fields of a struct become is what it holds.
LEMMA FieldsHeld ==
  ASSUME StructInv, NEW d \in 1 .. Len(prog), IsStruct(d), Proper(d),
         NEW i \in 1 .. Len(FieldsOf(prog[d]))
  PROVE  HeldType(d, FieldsOf(prog[d])[i])
<1>1. prog[d].fields \in Seq(Field)
  BY DeclarationType DEF StructInv, Typed, PlaceTyped, IsStruct
<1>2. Len(FieldsOf(prog[d])) = Len(prog[d].fields) /\ i \in 1 .. Len(prog[d].fields)
  <2>1. Len(prog[d].fields) \in Nat
    BY <1>1
  <2> QED
    BY <2>1 DEF FieldsOf
<1>3. PICK field, u : field = prog[d].fields[i] /\ u = FieldsOf(prog[d])[i]
  OBVIOUS
<1>4. u = GetLLVMType(field.type)
  BY <1>2, <1>3 DEF FieldsOf
<1>5. field \in Field /\ field.typed /\ Defined(field.type)
  BY <1>1, <1>2, <1>3 DEF Proper
<1>6. field.type.pointers \in Nat
  BY <1>5 DEF Field, TypeNode
<1>7. CASE field.type.pointers > 0 \/ field.type.name \in Builtins
  <2>1. u = Pointer \/ u = Builtin
    BY <1>4, <1>7 DEF GetLLVMType
  <2> QED
    BY <2>1, <1>3 DEF HeldType, Pointer, Builtin
<1>8. CASE ~(field.type.pointers > 0 \/ field.type.name \in Builtins)
  <2>1. u = StructVal(field.type.name) /\ field.type.name \in DOMAIN structDefinitions
    BY <1>4, <1>5, <1>8 DEF GetLLVMType, Defined
  <2>2. u[1] = field.type.name
    BY <2>1 DEF StructVal
  <2>3. PICK e : e = Declares(field.type.name)
    OBVIOUS
  <2>4. IsStruct(e) /\ prog[e].name = field.type.name
    BY <2>1, <2>3 DEF StructInv, Declared, Declares
  <2>5. field.type.pointers = 0
    BY <1>6, <1>8
  <2>6. HoldsByValue(d, e)
    BY <1>2, <1>3, <1>5, <2>4, <2>5 DEF HoldsByValue, IsStruct
  <2> QED
    BY <1>3, <2>1, <2>2, <2>3, <2>6 DEF HeldType
<1> QED
  BY <1>7, <1>8

\* What is held stays held, as long as the names stand for the same declarations.
LEMMA HeldStays ==
  ASSUME UNCHANGED prog, NEW d, NEW u, HeldType(d, u),
         \A s \in DOMAIN structDefinitions : s \in DOMAIN structDefinitions' /\ Declares(s)' = Declares(s)
  PROVE  HeldType(d, u)'
<1>1. ASSUME NEW e PROVE HoldsByValue(d, e) => HoldsByValue(d, e)'
  BY DEF HoldsByValue
<1>2. CASE u[2] = TypePass
  BY <1>2 DEF HeldType
<1>3. CASE u[1] \in DOMAIN structDefinitions /\ HoldsByValue(d, Declares(u[1]))
  <2>1. PICK s, e : s = u[1] /\ e = Declares(s)
    OBVIOUS
  <2>2. HoldsByValue(d, e)' /\ s \in DOMAIN structDefinitions' /\ Declares(s)' = e
    BY <1>1, <1>3, <2>1
  <2> QED
    BY <2>1, <2>2 DEF HeldType
<1> QED
  BY <1>2, <1>3 DEF HeldType

\* A step that declares nothing.
LEMMA HoldsSame ==
  ASSUME HoldsInv, UNCHANGED <<prog, structDefinitions, body>>,
         \A d \in 1 .. Len(prog) : Passed(d, PrototypePass)' =>
           \/ Passed(d, PrototypePass)
           \/ ~(IsStruct(d) /\ Declares(prog[d].name) = d /\ Proper(d)),
         ~inStruct' \/ UNCHANGED <<inStruct, at>>
  PROVE  HoldsInv'
<1>1. BodiesHold'
  <2>1. \A s : Declares(s)' = Declares(s)
    BY DEF Declares
  <2>2. \A d, u : HeldType(d, u) => HeldType(d, u)'
    BY <2>1, HeldStays
  <2>3. ASSUME NEW t \in DOMAIN body
        PROVE  /\ t[1] \in DOMAIN structDefinitions
               /\ t[2] = TypePass => body[t] = <<>>
               /\ \A i \in 1 .. Len(body[t]) : HeldType(Declares(t[1]), body[t][i])'
    <3>1. ASSUME NEW i \in 1 .. Len(body[t]) PROVE HeldType(Declares(t[1]), body[t][i])'
      <4>1. PICK d, u : d = Declares(t[1]) /\ u = body[t][i]
        OBVIOUS
      <4>2. HeldType(d, u)
        BY <4>1 DEF HoldsInv, BodiesHold
      <4>3. HeldType(d, u)'
        BY <4>2, <2>2
      <4>4. d = Declares(t[1])' /\ u = body'[t][i]
        BY <2>1, <4>1
      <4> QED
        BY <4>3, <4>4 DEF HeldType, HoldsByValue, Declares
    <3> QED
      BY <3>1 DEF HoldsInv, BodiesHold
  <2> QED
    BY <2>3 DEF BodiesHold
<1>2. MadeInPassOne'
  BY SameTypes DEF HoldsInv, MadeInPassOne, Declares
<1>3. EnteredDeclared'
  BY SameTypes DEF HoldsInv, EnteredDeclared, Decl
<1> QED
  BY <1>1, <1>2, <1>3 DEF HoldsInv

LEMMA DeclareStructHolds ==
  ASSUME StructInv, HoldsInv, DeclareStruct
  PROVE  HoldsInv'
<1>a. PICK name, here : name = prog[at].name /\ here = at
  OBVIOUS
<1> DEFINE type == <<name, pass>>
           fields == IF pass = TypePass THEN <<>> ELSE FieldsOf(Decl)
<1>1. AtStruct
  BY DEF DeclareStruct
<1>2. name \in STRING /\ Decl = prog[at] /\ at \in 1 .. Len(prog) /\ IsStruct(at) /\ name = Decl.name
  BY <1>a, <1>1, AtStructIs
<1>3. /\ ~Redefined
      /\ pass \in {TypePass, PrototypePass}
      /\ pass = PrototypePass => Proper(at)
      /\ Moves /\ UNCHANGED <<next, inStruct>>
      /\ DOMAIN structDefinitions' = DOMAIN structDefinitions \cup {name}
      /\ structDefinitions'[name] = [token |-> at, made |-> pass]
      /\ \A s \in DOMAIN structDefinitions : s # name => structDefinitions'[s] = structDefinitions[s]
      /\ prog' = prog
  BY <1>2, DeclareStructDoes
<1>4. body' = [t \in DOMAIN body \cup {type} |-> IF t = type THEN fields ELSE body[t]]
  BY <1>2 DEF DeclareStruct
<1>5. PlaceTyped /\ Declared
  BY DEF StructInv, Typed
<1>6. name \in DOMAIN structDefinitions => structDefinitions[name].token = here
  BY <1>a, <1>2, <1>3 DEF Redefined
<1>7. \A s \in DOMAIN structDefinitions : s \in DOMAIN structDefinitions' /\ Declares(s)' = Declares(s)
  <2> TAKE s \in DOMAIN structDefinitions
  <2>1. CASE s = name
    BY <2>1, <1>a, <1>3, <1>6 DEF Declares
  <2>2. CASE s # name
    BY <2>2, <1>3 DEF Declares
  <2> QED
    BY <2>1, <2>2
<1>8. \A d, u : HeldType(d, u) => HeldType(d, u)'
  BY <1>3, <1>7, HeldStays
<1>9. Declares(name)' = here
  BY <1>a, <1>3 DEF Declares
<1>10. BodiesHold'
  <2> SUFFICES ASSUME NEW t \in DOMAIN body'
               PROVE  /\ t[1] \in DOMAIN structDefinitions'
                      /\ t[2] = TypePass => body'[t] = <<>>
                      /\ \A i \in 1 .. Len(body'[t]) : HeldType(Declares(t[1]), body[t][i])'
    BY DEF BodiesHold
  <2>1. CASE t = type
    <3>1. t[1] = name /\ t[2] = pass /\ body'[t] = fields
      BY <2>1, <1>4
    <3>2. ASSUME NEW i \in 1 .. Len(body'[t]) PROVE HeldType(Declares(t[1]), body[t][i])'
      <4>1. pass = PrototypePass
        <5>1. CASE pass = TypePass
          <6>1. body'[t] = <<>>
            BY <3>1, <5>1
          <6> QED
            BY <3>2, <6>1
        <5> QED
          BY <5>1, <1>3
      <4>2. fields = FieldsOf(prog[at]) /\ Proper(at)
        BY <4>1, <1>2, <1>3, PassesDiffer
      <4>3. PICK u : u = FieldsOf(prog[at])[i]
        OBVIOUS
      <4>4. HeldType(at, u)
        BY <3>1, <3>2, <4>2, <4>3, <1>2, FieldsHeld
      <4>5. HeldType(here, u)'
        BY <4>4, <1>8, <1>a
      <4>6. u = body'[t][i] /\ here = Declares(t[1])'
        BY <3>1, <4>2, <4>3, <1>9
      <4> QED
        BY <4>5, <4>6 DEF HeldType, HoldsByValue, Declares
    <3> QED
      BY <3>1, <3>2, <1>3
  <2>2. CASE t # type
    <3>1. t \in DOMAIN body /\ body'[t] = body[t]
      BY <2>2, <1>4
    <3>2. t[1] \in DOMAIN structDefinitions /\ (t[2] = TypePass => body[t] = <<>>)
      BY <3>1 DEF HoldsInv, BodiesHold
    <3>3. ASSUME NEW i \in 1 .. Len(body'[t]) PROVE HeldType(Declares(t[1]), body[t][i])'
      <4>1. PICK d, u : d = Declares(t[1]) /\ u = body[t][i]
        OBVIOUS
      <4>2. HeldType(d, u)
        BY <3>1, <3>3, <4>1 DEF HoldsInv, BodiesHold
      <4>3. HeldType(d, u)'
        BY <4>2, <1>8
      <4>4. d = Declares(t[1])' /\ u = body'[t][i]
        BY <1>7, <3>1, <3>2, <4>1
      <4> QED
        BY <4>3, <4>4 DEF HeldType, HoldsByValue, Declares
    <3> QED
      BY <3>1, <3>2, <3>3, <1>3
  <2> QED
    BY <2>1, <2>2
<1>11. MadeInPassOne'
  <2> SUFFICES ASSUME NEW d \in 1 .. Len(prog), IsStruct(d), Passed(d, PrototypePass)',
                      structDefinitions'[prog[d].name].token = d, Proper(d)'
               PROVE  structDefinitions'[prog[d].name].made = PrototypePass
    BY <1>3 DEF MadeInPassOne, Declares, IsStruct
  <2>1. Passed(d, PrototypePass) \/ (pass = PrototypePass /\ d = at)
    BY <1>3, <1>5, PassedMoves
  <2>2. pass = PrototypePass
    BY <2>1, <1>3, PassesDiffer DEF Passed
  <2>3. CASE d = at
    BY <2>2, <2>3, <1>3, <1>a
  <2>4. CASE d # at
    <3>1. prog[d].name # name
      BY <2>4, <1>3
    <3>2. Passed(d, TypePass) /\ Passed(at, TypePass)
      BY <2>2, PassesDiffer DEF Passed
    <3>3. prog[d].name \in DOMAIN structDefinitions /\ name \in DOMAIN structDefinitions
      BY <3>2, <1>2, <1>5, <1>a DEF Declared
    <3>4. structDefinitions'[prog[d].name] = structDefinitions[prog[d].name]
      BY <3>1, <3>3, <1>3
    <3>5. Proper(d)
      <4>1. DOMAIN structDefinitions' = DOMAIN structDefinitions
        BY <3>3, <1>3
      <4> QED
        BY <4>1, <1>3 DEF Proper, Defined
    <3> QED
      BY <2>1, <2>4, <3>4, <3>5 DEF HoldsInv, MadeInPassOne, Declares
  <2> QED
    BY <2>3, <2>4
<1>12. EnteredDeclared'
  BY <1>3 DEF EnteredDeclared, Moves
<1> QED
  BY <1>10, <1>11, <1>12 DEF HoldsInv

LEMMA EnterStructHolds ==
  ASSUME StructInv, HoldsInv, EnterStruct
  PROVE  HoldsInv'
<1>1. AtStruct /\ ~Redefined /\ pass = BodyPass /\ FieldsProper
      /\ UNCHANGED <<prog, pass, at, structDefinitions, body>>
  BY DEF EnterStruct
<1>2. at \in 1 .. Len(prog) /\ IsStruct(at) /\ Decl = prog[at]
  BY <1>1, AtStructIs
<1>3. PlaceTyped /\ Declared /\ DefinitionsTyped
  BY DEF StructInv, Typed
<1>4. Proper(at) /\ Passed(at, TypePass) /\ Passed(at, PrototypePass)
  BY <1>1, <1>2, <1>3, ProperFields, PassesDiffer DEF PlaceTyped, Passed
<1>5. PICK s : s = Decl.name
  OBVIOUS
<1>6. s \in DOMAIN structDefinitions /\ structDefinitions[s].token = at
  BY <1>1, <1>2, <1>3, <1>4, <1>5 DEF Declared, Redefined
<1>7. structDefinitions[s].made = PrototypePass
  BY <1>2, <1>4, <1>5, <1>6 DEF HoldsInv, MadeInPassOne, Declares
<1>8. structDefinitions[s] = [token |-> at, made |-> PrototypePass]
  BY <1>3, <1>6, <1>7 DEF DefinitionsTyped
<1>9. EnteredDeclared'
  <2>1. Decl' = Decl /\ Proper(at)'
    BY <1>1, <1>4, SameTypes DEF Decl
  <2> QED
    BY <2>1, <1>1, <1>5, <1>8 DEF EnteredDeclared
<1>10. (BodiesHold /\ MadeInPassOne)'
  BY <1>1 DEF HoldsInv, BodiesHold, MadeInPassOne, HeldType, HoldsByValue, Declares, IsStruct,
              Passed, Proper, Defined
<1> QED
  BY <1>9, <1>10 DEF HoldsInv

\* Leaving a struct gives its type of pass 1 what its declaration holds.
LEMMA LeaveStructHolds ==
  ASSUME StructInv, HoldsInv, LeaveStruct
  PROVE  HoldsInv'
<1>1. InBody /\ inStruct /\ UNCHANGED <<prog, pass, structDefinitions>> /\ inStruct' = FALSE
      /\ at' = at + 1
  BY DEF LeaveStruct
<1>2. pass = BodyPass /\ at \in 1 .. Len(prog) /\ Decl = prog[at]
  BY <1>1 DEF InBody, Decl
<1>3. PlaceTyped /\ InStructTyped /\ BodiesSet /\ DefinitionsTyped
  BY DEF StructInv, Typed
<1>4. IsStruct(at) /\ Decl.name \in DOMAIN structDefinitions
  BY <1>1, <1>2, <1>3 DEF InStructTyped, IsStruct
<1>5. PICK name : name = Decl.name
  OBVIOUS
<1>6. structDefinitions[name] = [token |-> at, made |-> PrototypePass] /\ Proper(at)
  BY <1>1, <1>5 DEF HoldsInv, EnteredDeclared
<1>7. PICK type : type = StructVal(name)
  OBVIOUS
<1>8. type = <<name, PrototypePass>> /\ type \in DOMAIN body
  BY <1>3, <1>4, <1>5, <1>6, <1>7 DEF StructVal, DefinitionsTyped
<1>9. \/ body' = body
      \/ body' = [body EXCEPT ![type] = fieldTypes]
  BY <1>5, <1>7 DEF LeaveStruct
<1>10. fieldTypes = FieldsOf(prog[at])
  BY <1>1, <1>2, <1>3 DEF BodiesSet
<1>11. Declares(name) = at
  BY <1>6 DEF Declares
<1>12. ASSUME NEW t \in DOMAIN body'
       PROVE  /\ t[1] \in DOMAIN structDefinitions
              /\ t[2] = TypePass => body'[t] = <<>>
              /\ \A i \in 1 .. Len(body'[t]) : HeldType(Declares(t[1]), body'[t][i])
  <2>1. t \in DOMAIN body
    BY <1>9
  <2>2. CASE body'[t] = body[t]
    BY <2>1, <2>2 DEF HoldsInv, BodiesHold
  <2>3. CASE body'[t] # body[t]
    <3>1. t = type /\ body'[t] = FieldsOf(prog[at])
      BY <2>1, <2>3, <1>8, <1>9, <1>10
    <3>2. t[1] = name /\ t[2] = PrototypePass
      BY <3>1, <1>8
    <3>3. \A i \in 1 .. Len(FieldsOf(prog[at])) : HeldType(at, FieldsOf(prog[at])[i])
      BY <1>2, <1>4, <1>6, FieldsHeld
    <3> QED
      BY <3>1, <3>2, <3>3, <1>4, <1>5, <1>11, PassesDiffer
  <2> QED
    BY <2>2, <2>3
<1>13. BodiesHold'
  BY <1>1, <1>12 DEF BodiesHold, HeldType, HoldsByValue, Declares
<1>14. \A d \in 1 .. Len(prog) : Passed(d, PrototypePass)
  BY <1>2, PassesDiffer DEF Passed
<1>15. MadeInPassOne'
  BY <1>1, <1>14, SameTypes DEF HoldsInv, MadeInPassOne, Declares
<1>16. EnteredDeclared'
  BY <1>1 DEF EnteredDeclared
<1> QED
  BY <1>13, <1>15, <1>16 DEF HoldsInv

\* What is held, however deep, by what the struct at hand holds is of pass 0 or of a struct
\* that is reached from it.
LEMMA HeldIsReached ==
  ASSUME StructInv, HoldsInv, inStruct, NEW u \in Held(body, ToSet(fieldTypes))
  PROVE  u[2] = TypePass \/ (u[1] \in DOMAIN structDefinitions /\ Declares(u[1]) \in Reached(at))
<1> DEFINE n == Cardinality(DOMAIN body)
           Found(v) == v[2] = TypePass
                       \/ (v[1] \in DOMAIN structDefinitions /\ Declares(v[1]) \in Reached(at))
<1>1. PlaceTyped /\ InStructTyped /\ BodiesSet /\ DefinitionsTyped /\ BodiesTyped
  BY DEF StructInv, Typed
<1>2. Len(prog) \in Nat /\ at \in 1 .. Len(prog) /\ Decl = prog[at] /\ IsStruct(at)
  BY <1>1 DEF PlaceTyped, InStructTyped, Decl, IsStruct
<1>3. fieldTypes = FieldsOf(prog[at]) /\ Proper(at)
  BY <1>1, <1>2 DEF BodiesSet, HoldsInv, EnteredDeclared
<1>4. \A s \in DOMAIN structDefinitions : Declares(s) \in 1 .. Len(prog)
  BY <1>1 DEF DefinitionsTyped, Declares
<1>5. ASSUME NEW v \in ToSet(fieldTypes) PROVE Found(v)
  <2>1. PICK i \in 1 .. Len(fieldTypes) : v = fieldTypes[i]
    BY DEF ToSet
  <2>2. HeldType(at, v)
    BY <2>1, <1>2, <1>3, FieldsHeld
  <2>3. CASE v[2] = TypePass
    BY <2>3
  <2>4. CASE v[1] \in DOMAIN structDefinitions /\ HoldsByValue(at, Declares(v[1]))
    <3>1. PICK e : e = Declares(v[1])
      OBVIOUS
    <3>2. e \in Reached(at)
      BY <2>4, <3>1, <1>1, <1>2, <1>4, ReachedClosed DEF PlaceTyped
    <3> QED
      BY <2>4, <3>1, <3>2
  <2> QED
    BY <2>2, <2>3, <2>4 DEF HeldType
<1>6. ASSUME NEW t \in DOMAIN body, Found(t), NEW v \in ToSet(body[t]) PROVE Found(v)
  <2>1. PICK i \in 1 .. Len(body[t]) : v = body[t][i]
    BY DEF ToSet
  <2>2. t[2] # TypePass
    BY <2>1 DEF HoldsInv, BodiesHold
  <2>3. PICK c : c = Declares(t[1])
    OBVIOUS
  <2>4. HeldType(c, v) /\ c \in Reached(at)
    BY <2>1, <2>2, <2>3, <1>6 DEF HoldsInv, BodiesHold
  <2>5. CASE v[2] = TypePass
    BY <2>5
  <2>6. CASE v[1] \in DOMAIN structDefinitions /\ HoldsByValue(c, Declares(v[1]))
    <3>1. PICK e : e = Declares(v[1])
      OBVIOUS
    <3>2. e \in Reached(at)
      BY <2>4, <2>6, <3>1, <1>1, <1>2, <1>4, ReachedClosed DEF PlaceTyped
    <3> QED
      BY <2>6, <3>1, <3>2
  <2> QED
    BY <2>4, <2>5, <2>6 DEF HeldType
<1>7. n \in Nat
  BY <1>1, FS_CardinalityType DEF BodiesTyped
<1>8. PICK held : HeldIn(held, ToSet(fieldTypes)) /\ Held(body, ToSet(fieldTypes)) = held[n]
  BY <1>1, HeldIs DEF BodiesTyped
<1>9. Nesting = 0 .. n
  BY DEF Nesting
<1> HIDE DEF n, Found
<1>10. \A k \in 0 .. n : held[k] = IF k = 0 THEN ToSet(fieldTypes) ELSE HeldBy(held[k - 1])
  BY <1>8, <1>9 DEF HeldIn
<1>11. \A k \in 0 .. n : \A v \in held[k] : Found(v)
  <2> DEFINE bad == {k \in 0 .. n : \E v \in held[k] : ~Found(v)}
  <2>1. ASSUME bad # {} PROVE FALSE
    <3>1. bad \in SUBSET Nat
      OBVIOUS
    <3>2. PICK k \in bad : \A j \in bad : k <= j
      BY <2>1, <3>1, LeastNat
    <3>3. k # 0
      BY <3>2, <1>5, <1>10
    <3>4. k \in 1 .. n /\ k - 1 \in 0 .. n /\ ~(k <= k - 1)
      BY <1>7, <3>2, <3>3
    <3>5. \A v \in held[k - 1] : Found(v)
      BY <3>2, <3>4
    <3>6. held[k] = HeldBy(held[k - 1])
      BY <3>2, <3>3, <1>10
    <3>7. ASSUME NEW v \in held[k] PROVE Found(v)
      <4>1. CASE v \in held[k - 1]
        BY <4>1, <3>5
      <4>2. CASE v \notin held[k - 1]
        <5>1. PICK t \in held[k - 1] \cap DOMAIN body : v \in ToSet(body[t])
          BY <3>6, <4>2 DEF HeldBy
        <5> QED
          BY <5>1, <3>5, <1>6
      <4> QED
        BY <4>1, <4>2
    <3> QED
      BY <3>2, <3>7
  <2> QED
    BY <2>1
<1>12. Found(u)
  BY <1>7, <1>8, <1>11
<1> QED
  BY <1>12 DEF Found

\* A struct whose body would hold itself is reached from its own declaration.
LEMMA RecursiveIsReached ==
  ASSUME StructInv, HoldsInv, inStruct, Recursive(StructVal(Decl.name), fieldTypes)
  PROVE  at \in Reached(at)
<1>1. PICK name, type : name = Decl.name /\ type = StructVal(name)
  OBVIOUS
<1>2. structDefinitions[name] = [token |-> at, made |-> PrototypePass]
  BY <1>1 DEF HoldsInv, EnteredDeclared
<1>3. type[1] = name /\ type[2] = PrototypePass /\ Declares(name) = at
  BY <1>1, <1>2 DEF StructVal, Declares
<1>4. type \in Held(body, ToSet(fieldTypes))
  BY <1>1 DEF Recursive
<1>5. type[2] = TypePass \/ (type[1] \in DOMAIN structDefinitions /\ Declares(type[1]) \in Reached(at))
  BY <1>4, HeldIsReached
<1> QED
  BY <1>3, <1>5, PassesDiffer

\* Every step keeps what is said of the bodies.
LEMMA HoldsNext ==
  ASSUME StructInv, HoldsInv, [AccessNext]_allVars
  PROVE  HoldsInv'
<1>1. PlaceTyped
  BY DEF StructInv, Typed
<1>2. ASSUME UNCHANGED <<prog, pass, at, inStruct, structDefinitions, body>> PROVE HoldsInv'
  <2>1. \A d : Passed(d, PrototypePass)' <=> Passed(d, PrototypePass)
    BY <1>2 DEF Passed
  <2> QED
    BY <2>1, <1>2, HoldsSame
<1>3. ASSUME Moves, UNCHANGED <<structDefinitions, body>>,
             ~(pass = PrototypePass /\ IsStruct(at) /\ Declares(prog[at].name) = at /\ Proper(at))
      PROVE  HoldsInv'
  <2>1. \A d \in 1 .. Len(prog) : Passed(d, PrototypePass)' =>
          Passed(d, PrototypePass) \/ (pass = PrototypePass /\ d = at)
    BY <1>1, <1>3, PassedMoves
  <2>2. UNCHANGED prog /\ ~inStruct'
    BY <1>3 DEF Moves
  <2> QED
    BY <2>1, <2>2, <1>3, HoldsSame
<1>4. CASE RedefineStruct
  <2>1. AtStruct /\ Redefined /\ NextDeclaration /\ UNCHANGED <<structDefinitions, body>>
    BY <1>4 DEF RedefineStruct
  <2>2. Moves
    BY <2>1, AtStructIs DEF Moves, NextDeclaration
  <2> QED
    BY <2>1, <2>2, <1>3, AtStructIs DEF Redefined, Declares
<1>5. CASE UntypedField
  <2>1. AtStruct /\ FieldsWithoutType /\ NextDeclaration /\ UNCHANGED <<structDefinitions, body>>
    BY <1>5 DEF UntypedField
  <2>2. Moves /\ ~Proper(at)
    BY <2>1, <1>1, AtStructIs, ProperFields DEF Moves, NextDeclaration, PlaceTyped
  <2> QED
    BY <2>1, <2>2, <1>3
<1>6. CASE UnknownFieldType \/ UnknownParameterType \/ FailInBody \/ GenerateTypeInstance
           \/ UnknownTypeInstance \/ WriteModule
  BY <1>6, <1>2 DEF UnknownFieldType, UnknownParameterType, FailInBody, GenerateTypeInstance,
                    UnknownTypeInstance, WriteModule
<1>7. CASE DeclareStruct
  BY <1>7, DeclareStructHolds
<1>8. CASE EnterStruct
  BY <1>8, EnterStructHolds
<1>9. CASE LeaveStruct
  BY <1>9, LeaveStructHolds
<1>10. CASE SkipInTypePass \/ GeneratePrototype
  <2>1. AtFunction /\ NextDeclaration /\ UNCHANGED <<structDefinitions, body>>
    BY <1>10 DEF SkipInTypePass, GeneratePrototype
  <2>2. Moves /\ ~IsStruct(at)
    BY <2>1, AtFunctionIs DEF Moves, NextDeclaration
  <2> QED
    BY <2>1, <2>2, <1>3
<1>11. CASE EndFunction
  <2>1. InBody /\ at' = at + 1 /\ ~inStruct /\ UNCHANGED <<prog, pass, inStruct, structDefinitions, body>>
    BY <1>11 DEF EndFunction
  <2>2. Moves /\ pass = BodyPass
    BY <2>1 DEF InBody, Moves
  <2> QED
    BY <2>1, <2>2, <1>3, PassesDiffer
<1>12. CASE NextPass
  <2>1. /\ at = Len(prog) + 1 /\ pass # BodyPass /\ pass' = pass + 1 /\ at' = 1
        /\ UNCHANGED <<prog, inStruct, structDefinitions, body>>
    BY <1>12 DEF NextPass
  <2>2. \A d \in 1 .. Len(prog) : Passed(d, PrototypePass)' => Passed(d, PrototypePass)
    BY <2>1, <1>1, PassesDiffer DEF Passed, PlaceTyped
  <2>3. ~inStruct
    BY <2>1 DEF StructInv, Typed, InStructTyped
  <2> QED
    BY <2>1, <2>2, <2>3, HoldsSame
<1>13. CASE UNCHANGED vars
  BY <1>13, <1>2 DEF vars
<1>14. CASE GenerateNode
  <2>1. UNCHANGED <<prog, pass, at, inStruct, structDefinitions, body>>
    BY <1>14 DEF GenerateNode, GenerateConstant, GenerateVariable, UnknownVariableType, UnknownPointee,
              NothingRetrieved, GenerateMemberAccess, GenerateMember, NoSuchMember,
              GenerateAccessOperation, InvalidAccess, EndStatement, Advance, End, Fail
  <2> QED
    BY <2>1, <1>2
<1> QED
  BY <1>4, <1>5, <1>6, <1>7, <1>8, <1>9, <1>10, <1>11, <1>12, <1>13, <1>14
  DEF AccessNext, Next, Finished, allVars

-----------------------------------------------------------------------------
(***************************************************************************)
(* What waits is on the stack                                              *)
(***************************************************************************)
LEMMA FrontElements ==
  ASSUME NEW s \in Seq(Nat), NEW j \in 1 .. Len(Front(s))
  PROVE  j \in 1 .. Len(s) /\ Front(s)[j] = s[j]
<1>1. Len(s) \in Nat
  OBVIOUS
<1>2. s # <<>>
  <2>1. ASSUME s = <<>> PROVE FALSE
    <3>1. Front(s) = <<>>
      BY <2>1 DEF Front
    <3> QED
      BY <3>1
  <2> QED
    BY <2>1
<1>3. PICK f : f = Front(s)
  OBVIOUS
<1>4. Len(f) = Len(s) - 1 /\ \A k \in 1 .. Len(s) - 1 : f[k] = s[k]
  BY <1>2, <1>3, FrontType
<1>5. j \in 1 .. Len(s) - 1
  BY <1>1, <1>3, <1>4
<1> QED
  BY <1>1, <1>3, <1>4, <1>5

\* Of the nodes that wait after node m each is one of the first m, and is not followed by
\* the end of its statement.
Follows(code, w, m) ==
  \A j \in 1 .. Len(w) :
    w[j] \in 1 .. m /\ (w[j] = m \/ code[w[j] + 1].kind # "semicolon")

LEMMA WaitingFollows ==
  ASSUME NEW code \in Seq(ASTNode), NEW m \in 0 .. Len(code)
  PROVE  Follows(code, Waiting(code)[m], m)
<1> DEFINE n == Len(code)
           W == Waiting(code)
           bad == {k \in 0 .. n : ~Follows(code, W[k], k)}
<1>1. n \in Nat /\ W \in [0 .. n -> Seq(Nat)] /\ W[0] = <<>>
      /\ \A k \in 1 .. n : W[k] = AfterNode(code, W[k - 1], k)
  BY WaitingIs
<1> HIDE DEF W, n
<1>2. ASSUME bad # {} PROVE FALSE
  <2>1. bad \in SUBSET Nat
    OBVIOUS
  <2>2. PICK k \in bad : \A j \in bad : k <= j
    BY <1>2, <2>1, LeastNat
  <2>3. k # 0
    BY <1>1, <2>2 DEF Follows
  <2>4. k \in 1 .. n /\ k - 1 \in 0 .. n /\ ~(k <= k - 1)
    BY <1>1, <2>2, <2>3
  <2>5. Follows(code, W[k - 1], k - 1)
    BY <2>2, <2>4
  <2>6. PICK w, v : w = W[k - 1] /\ v = W[k]
    OBVIOUS
  <2>7. w \in Seq(Nat) /\ v \in Seq(Nat) /\ v = AfterNode(code, w, k)
    BY <1>1, <2>4, <2>6
  <2>8. Front(w) \in Seq(Nat) /\ Front(Front(w)) \in Seq(Nat)
    BY <2>7, FrontType
  <2>9. code[k].kind \in Kinds
    BY <2>4, NodeKinds DEF n
  <2>10. ASSUME code[k].kind # "semicolon", NEW s \in Seq(Nat),
                \A j \in 1 .. Len(s) : \E i \in 1 .. Len(w) : s[j] = w[i]
         PROVE  /\ Follows(code, s, k)
                /\ Follows(code, Append(s, k), k)
    <3>1. ASSUME NEW j \in 1 .. Len(s)
          PROVE  s[j] \in 1 .. k /\ (s[j] = k \/ code[s[j] + 1].kind # "semicolon")
      <4>1. PICK i \in 1 .. Len(w) : s[j] = w[i]
        BY <2>10
      <4>2. w[i] \in 1 .. k - 1 /\ (w[i] = k - 1 \/ code[w[i] + 1].kind # "semicolon")
        BY <2>5, <2>6 DEF Follows
      <4>3. CASE w[i] = k - 1
        <5>1. w[i] + 1 = k /\ w[i] \in 1 .. k
          BY <4>2, <4>3, <2>4
        <5> QED
          BY <5>1, <4>1, <2>10
      <4>4. CASE w[i] # k - 1
        BY <4>1, <4>2, <4>4, <2>4
      <4> QED
        BY <4>3, <4>4
    <3>2. Follows(code, s, k)
      BY <3>1 DEF Follows
    <3>3. ASSUME NEW j \in 1 .. Len(Append(s, k))
          PROVE  Append(s, k)[j] \in 1 .. k
                 /\ (Append(s, k)[j] = k \/ code[Append(s, k)[j] + 1].kind # "semicolon")
      <4>1. Len(s) \in Nat /\ Len(Append(s, k)) = Len(s) + 1 /\ k \in Nat /\ k \in 1 .. k
        BY <2>4
      <4>2. CASE j = Len(s) + 1
        <5>1. Append(s, k)[j] = k
          BY <4>1, <4>2
        <5> QED
          BY <4>1, <5>1
      <4>3. CASE j # Len(s) + 1
        <5>1. j \in 1 .. Len(s) /\ Append(s, k)[j] = s[j]
          BY <4>1, <4>3
        <5> QED
          BY <5>1, <3>1
      <4> QED
        BY <4>2, <4>3
    <3>4. Follows(code, Append(s, k), k)
      BY <3>3 DEF Follows
    <3> QED
      BY <3>2, <3>4
  <2>11. \A j \in 1 .. Len(w) : \E i \in 1 .. Len(w) : w[j] = w[i]
    OBVIOUS
  <2>12. \A j \in 1 .. Len(Front(w)) : \E i \in 1 .. Len(w) : Front(w)[j] = w[i]
    BY <2>7, FrontElements
  <2>13. \A j \in 1 .. Len(Front(Front(w))) : \E i \in 1 .. Len(w) : Front(Front(w))[j] = w[i]
    <3> TAKE j \in 1 .. Len(Front(Front(w)))
    <3>1. PICK f : f = Front(w)
      OBVIOUS
    <3>2. j \in 1 .. Len(f) /\ Front(f)[j] = f[j]
      BY <2>8, <3>1, FrontElements
    <3>3. j \in 1 .. Len(w) /\ f[j] = w[j]
      BY <3>1, <3>2, <2>7, FrontElements
    <3> QED
      BY <3>1, <3>2, <3>3
  <2>14. Follows(code, v, k)
    <3>1. CASE code[k].kind \in {"constant", "variable"}
      <4>1. v = Append(w, k)
        BY <2>7, <3>1 DEF AfterNode
      <4> QED
        BY <4>1, <3>1, <2>7, <2>10, <2>11
    <3>2. CASE code[k].kind = "member"
      <4>1. v = Append(Front(w), k)
        BY <2>7, <3>2 DEF AfterNode
      <4> QED
        BY <4>1, <3>2, <2>8, <2>10, <2>12
    <3>3. CASE code[k].kind = "access"
      <4>1. v = Append(Front(Front(w)), k)
        BY <2>7, <3>3 DEF AfterNode
      <4> QED
        BY <4>1, <3>3, <2>8, <2>10, <2>13
    <3>4. CASE code[k].kind = "semicolon"
      <4>1. v = <<>>
        BY <2>7, <3>4 DEF AfterNode
      <4> QED
        BY <4>1 DEF Follows
    <3>5. CASE code[k].kind = "new"
      <4>1. v = w
        BY <2>7, <3>5 DEF AfterNode
      <4> QED
        BY <4>1, <3>5, <2>7, <2>10, <2>11
    <3> QED
      BY <2>9, <3>1, <3>2, <3>3, <3>4, <3>5 DEF Kinds
  <2> QED
    BY <2>2, <2>6, <2>14
<1> QED
  BY <1>2 DEF n, W

\* Where nothing more is accessed of an element, none waits at a node of its statement.
LEMMA NoElementWaits ==
  ASSUME IInv, NEW kind, AtNode(kind), kind # "semicolon", ~OfElement(CodeAtHand),
         NEW j \in 1 .. Len(operands)
  PROVE  operands[j].kind # "access"
<1>1. /\ next \in 1 .. Len(CodeAtHand)
      /\ CodeAtHand[next].kind = kind
      /\ AtHand \in Seq(Nat)
      /\ Match(operands, AtHand, CodeAtHand)
  BY AtNodeIs
<1>2. CodeAtHand \in Seq(ASTNode) /\ Len(CodeAtHand) \in Nat
  BY CodeAtHandIs DEF IInv, StructInv, Typed
<1>3. next - 1 \in 0 .. Len(CodeAtHand)
  BY <1>1, <1>2
<1>4. Follows(CodeAtHand, AtHand, next - 1)
  BY <1>2, <1>3, WaitingFollows DEF AtHand
<1>5. PICK k : k = AtHand[j]
  OBVIOUS
<1>6. j \in 1 .. Len(AtHand) /\ operands[j].kind = CodeAtHand[k].kind
  BY <1>1, <1>5 DEF Match
<1>7. k \in 1 .. next - 1 /\ (k = next - 1 \/ CodeAtHand[k + 1].kind # "semicolon")
  BY <1>4, <1>5, <1>6 DEF Follows
<1>8. k \in 1 .. Len(CodeAtHand) - 1 /\ CodeAtHand[k + 1].kind # "semicolon"
  <2>1. CASE k = next - 1
    <3>1. k + 1 = next
      BY <1>1, <2>1
    <3> QED
      BY <3>1, <1>1, <1>2, <1>7
  <2>2. CASE k # next - 1
    BY <2>2, <1>1, <1>2, <1>7
  <2> QED
    BY <2>1, <2>2
<1> QED
  BY <1>6, <1>8 DEF OfElement

MembersOf(ops) == {k \in 1 .. Len(ops) : ops[k].kind = "member"}

\* Every member whose value waits is on the stack, unless something more is accessed of an
\* element.
MembersPushed ==
  ~OfElement(CodeAtHand) => Cardinality(MembersOf(operands)) <= Len(lastRetrievedElementType)

LEMMA MembersFinite ==
  ASSUME NEW X, NEW ops \in Seq(X)
  PROVE  IsFiniteSet(MembersOf(ops)) /\ Cardinality(MembersOf(ops)) \in Nat
<1>1. Len(ops) \in Nat
  OBVIOUS
<1>2. IsFiniteSet(1 .. Len(ops)) /\ MembersOf(ops) \in SUBSET (1 .. Len(ops))
  BY <1>1, FS_Interval DEF MembersOf
<1> QED
  BY <1>2, FS_Subset, FS_CardinalityType

\* One more operand is at most one more member.
LEMMA MembersAppend ==
  ASSUME NEW X, NEW ops \in Seq(X), NEW v
  PROVE  /\ v.kind # "member" => MembersOf(Append(ops, v)) = MembersOf(ops)
         /\ Cardinality(MembersOf(Append(ops, v))) <= Cardinality(MembersOf(ops)) + 1
<1> DEFINE n == Len(ops) + 1
           more == Append(ops, v)
<1>1. Len(ops) \in Nat /\ Len(more) = n /\ more[n] = v /\ \A k \in 1 .. Len(ops) : more[k] = ops[k]
  OBVIOUS
<1>2. 1 .. n = (1 .. Len(ops)) \cup {n}
  BY <1>1
<1> HIDE DEF n, more
<1>3. MembersOf(more) = IF v.kind = "member" THEN MembersOf(ops) \cup {n} ELSE MembersOf(ops)
  <2>1. CASE v.kind = "member"
    <3>1. ASSUME NEW k PROVE k \in MembersOf(more) <=> k \in MembersOf(ops) \cup {n}
      BY <1>1, <1>2, <2>1 DEF MembersOf
    <3> QED
      BY <3>1, <2>1
  <2>2. CASE v.kind # "member"
    <3>1. ASSUME NEW k PROVE k \in MembersOf(more) <=> k \in MembersOf(ops)
      BY <1>1, <1>2, <2>2 DEF MembersOf
    <3> QED
      BY <3>1, <2>2
  <2> QED
    BY <2>1, <2>2
<1>4. PICK S : S = MembersOf(ops)
  OBVIOUS
<1>5. IsFiniteSet(S) /\ Cardinality(S) \in Nat
  BY <1>4, MembersFinite
<1>6. Cardinality(S \cup {n}) <= Cardinality(S) + 1 /\ Cardinality(S) <= Cardinality(S) + 1
  <2>1. Cardinality(S \cup {n}) = IF n \in S THEN Cardinality(S) ELSE Cardinality(S) + 1
    BY <1>5, FS_AddElement
  <2> QED
    BY <2>1, <1>5
<1> QED
  BY <1>3, <1>4, <1>6 DEF more

\* Without the last operand there is one member less, if that is one.
LEMMA MembersFront ==
  ASSUME NEW X, NEW ops \in Seq(X), ops # <<>>
  PROVE  Cardinality(MembersOf(Front(ops))) =
           IF ops[Len(ops)].kind = "member" THEN Cardinality(MembersOf(ops)) - 1
                                            ELSE Cardinality(MembersOf(ops))
<1> DEFINE n == Len(ops)
           less == Front(ops)
<1>1. n \in Nat \ {0} /\ Len(less) = n - 1 /\ \A k \in 1 .. n - 1 : less[k] = ops[k]
  BY FrontType
<1>2. 1 .. n - 1 = (1 .. n) \ {n}
  BY <1>1
<1> HIDE DEF less
<1>3. ASSUME NEW k PROVE k \in MembersOf(less) <=> k \in MembersOf(ops) \ {n}
  BY <1>1, <1>2 DEF MembersOf
<1>4. MembersOf(less) = MembersOf(ops) \ {n}
  BY <1>3
<1>5. n \in MembersOf(ops) <=> ops[n].kind = "member"
  BY <1>1 DEF MembersOf
<1>6. PICK S : S = MembersOf(ops)
  OBVIOUS
<1>7. IsFiniteSet(S)
  BY <1>6, MembersFinite
<1>8. Cardinality(S \ {n}) = IF n \in S THEN Cardinality(S) - 1 ELSE Cardinality(S)
  BY <1>7, FS_RemoveElement
<1> QED
  BY <1>4, <1>5, <1>6, <1>8 DEF less

LEMMA NoMembers ==
  ASSUME IInv, operands = <<>>
  PROVE  Cardinality(MembersOf(operands)) <= Len(lastRetrievedElementType)
<1>1. Len(operands) = 0
  BY DEF IInv, AccessInv, OperandsTyped
<1>2. MembersOf(operands) = {}
  BY <1>1 DEF MembersOf
<1>3. Len(lastRetrievedElementType) \in Nat
  BY StackIsTyped
<1> QED
  BY <1>2, <1>3, FS_EmptySet

\* What is retrieved by a member of the operand on the left, or by an element of it.
LEMMA RemainingLength ==
  ASSUME IInv, NEW left, Known(left)
  PROVE  /\ Remaining(left) \in Seq(RetrievedTypes)
         /\ Len(Remaining(left)) \in Nat
         /\ IsRetrieved(left) => Len(Remaining(left)) = Len(lastRetrievedElementType) - 1
         /\ ~IsRetrieved(left) => Len(Remaining(left)) = Len(lastRetrievedElementType)
<1>1. lastRetrievedElementType \in Seq(RetrievedTypes)
  BY StackIsTyped
<1>2. Remaining(left) \in Seq(RetrievedTypes)
  BY RemainingTyped
<1>3. CASE IsRetrieved(left)
  <2>1. PICK f : f = Remaining(left)
    OBVIOUS
  <2>2. f = Front(lastRetrievedElementType) /\ lastRetrievedElementType # <<>>
    BY <2>1, <1>3 DEF Remaining, Known
  <2>3. Len(f) = Len(lastRetrievedElementType) - 1
    BY <1>1, <2>2, FrontType
  <2> QED
    BY <2>1, <2>3, <1>2, <1>3
<1>4. CASE ~IsRetrieved(left)
  BY <1>1, <1>2, <1>4 DEF Remaining
<1> QED
  BY <1>3, <1>4

LEMMA MemberPushed ==
  ASSUME IInv, MembersPushed, GenerateMemberAccess
  PROVE  MembersPushed'
<1>1. AtNode("member") /\ Known(Last(operands))
  BY DEF GenerateMemberAccess
<1>d. PICK s \in StructsOf(Last(operands)) : \E i \in IndexOf(s, Node.name) :
        GenerateMember(Last(operands), s, i)
  BY DEF GenerateMemberAccess
<1>2. PICK i \in IndexOf(s, Node.name) : GenerateMember(Last(operands), s, i)
  BY <1>d
<1>3. PICK left, v, type : /\ left = Last(operands)
                          /\ operands' = Append(Front(operands), v)
                          /\ lastRetrievedElementType' = Append(Remaining(left), type)
                          /\ Advance
  BY <1>2 DEF GenerateMember, Retrieve
<1> DEFINE kind == "member"
<1>a. AtNode(kind) /\ kind = "member"
  BY <1>1
<1> HIDE DEF kind
<1>4. CodeAtHand' = CodeAtHand
  BY <1>a, <1>3, NodeStays DEF IInv
<1>5. operands \in Seq(ProperOperand) /\ operands # <<>> /\ left.kind \in Addresses
  BY <1>a, <1>3, OperandsThere DEF IInv, AccessInv, OperandsTyped
<1>6. Len(operands) \in 1 .. Len(operands) /\ left = operands[Len(operands)]
  BY <1>3, <1>5 DEF Last
<1>7. SUFFICES ASSUME ~OfElement(CodeAtHand)
               PROVE  Cardinality(MembersOf(operands')) <= Len(lastRetrievedElementType')
  BY <1>4 DEF MembersPushed
<1>8. left.kind \in {"member", "variable"}
  BY <1>a, <1>5, <1>6, <1>7, NoElementWaits DEF Addresses
<1>9. PICK m, c, f : m = Cardinality(MembersOf(operands)) /\ f = Front(operands)
                     /\ c = Cardinality(MembersOf(f))
  OBVIOUS
<1>10. m \in Nat /\ f \in Seq(ProperOperand) /\ c \in Nat
  <2>1. m \in Nat /\ f \in Seq(ProperOperand)
    BY <1>5, <1>9, MembersFinite, FrontType
  <2> QED
    BY <2>1, <1>9, MembersFinite
<1>11. c = IF left.kind = "member" THEN m - 1 ELSE m
  BY <1>5, <1>6, <1>9, MembersFront
<1>12. Cardinality(MembersOf(operands')) <= c + 1 /\ Cardinality(MembersOf(operands')) \in Nat
  <2>1. PICK g : g = Append(f, v)
    OBVIOUS
  <2>2. Cardinality(MembersOf(g)) <= c + 1
    BY <2>1, <1>9, <1>10, MembersAppend
  <2>3. operands' = g
    BY <2>1, <1>3, <1>9
  <2>4. operands' \in Seq(ProperOperand)
    BY GenerateMemberAccessInv DEF IInv, AccessInv, OperandsTyped
  <2>5. Cardinality(MembersOf(g)) \in Nat
    BY <2>3, <2>4, MembersFinite
  <2> QED
    BY <2>2, <2>3, <2>5
<1>13. PICK r, l : r = Remaining(left) /\ l = Len(lastRetrievedElementType)
  OBVIOUS
<1>14. r \in Seq(RetrievedTypes) /\ Len(r) \in Nat /\ l \in Nat
       /\ Len(r) = IF left.kind = "member" THEN l - 1 ELSE l
  BY <1>1, <1>3, <1>8, <1>13, RemainingLength, StackIsTyped DEF IsRetrieved
<1>15. Len(lastRetrievedElementType') = Len(r) + 1
  BY <1>3, <1>13, <1>14
<1>16. m <= l
  BY <1>7, <1>9, <1>13 DEF MembersPushed
<1> QED
  BY <1>10, <1>11, <1>12, <1>14, <1>15, <1>16

LEMMA AccessPushed ==
  ASSUME IInv, MembersPushed, GenerateAccessOperation
  PROVE  MembersPushed'
<1>1. AtNode("access") /\ Known(Base) /\ Advance /\ lastRetrievedElementType' = Remaining(Base)
  BY DEF GenerateAccessOperation
<1>2. PICK v : operands' = Append(Front(Front(operands)), v) /\ v.kind = "access"
  BY DEF GenerateAccessOperation
<1>3. PICK base : base = Base
  OBVIOUS
<1> DEFINE kind == "access"
<1>a. AtNode(kind) /\ kind = "access"
  BY <1>1
<1> HIDE DEF kind
<1>4. CodeAtHand' = CodeAtHand
  BY <1>a, <1>1, NodeStays DEF IInv
<1>5. operands \in Seq(ProperOperand) /\ Len(operands) \in Nat /\ Len(operands) > 1
      /\ base = operands[Len(operands) - 1] /\ base.kind \in Addresses
  BY <1>a, <1>3, OperandsThere DEF IInv, AccessInv, OperandsTyped, Base
<1>6. SUFFICES ASSUME ~OfElement(CodeAtHand)
               PROVE  Cardinality(MembersOf(operands')) <= Len(lastRetrievedElementType')
  BY <1>4 DEF MembersPushed
<1>7. base.kind \in {"member", "variable"}
  <2>1. Len(operands) - 1 \in 1 .. Len(operands)
    BY <1>5
  <2>2. base.kind # "access"
    BY <1>a, <1>5, <1>6, <2>1, NoElementWaits
  <2> QED
    BY <2>2, <1>5 DEF Addresses
<1>8. PICK f, g : f = Front(operands) /\ g = Front(f)
  OBVIOUS
<1>9. operands # <<>> /\ f \in Seq(ProperOperand) /\ Len(f) = Len(operands) - 1
      /\ \A k \in 1 .. Len(operands) - 1 : f[k] = operands[k]
  <2>1. operands # <<>>
    BY <1>5
  <2> QED
    BY <2>1, <1>5, <1>8, FrontType
<1>10. f # <<>> /\ f[Len(f)] = base /\ g \in Seq(ProperOperand)
  <2>1. Len(f) \in 1 .. Len(operands) - 1 /\ Len(f) # 0
    BY <1>5, <1>9
  <2>2. f[Len(f)] = base
    BY <2>1, <1>5, <1>9
  <2> QED
    BY <2>1, <2>2, <1>8, <1>9, FrontType
<1>11. PICK m, c, d : m = Cardinality(MembersOf(operands)) /\ c = Cardinality(MembersOf(f))
                      /\ d = Cardinality(MembersOf(g))
  OBVIOUS
<1>12. m \in Nat /\ c \in Nat /\ d \in Nat
  BY <1>5, <1>9, <1>10, <1>11, MembersFinite
<1>13. c <= m
  <2>1. c = m - 1 \/ c = m
    BY <1>5, <1>8, <1>9, <1>11, MembersFront
  <2> QED
    BY <2>1, <1>12
<1>14. d = IF base.kind = "member" THEN c - 1 ELSE c
  BY <1>8, <1>9, <1>10, <1>11, MembersFront
<1>15. Cardinality(MembersOf(operands')) = d
  <2>1. MembersOf(Append(g, v)) = MembersOf(g)
    BY <1>2, <1>10, MembersAppend
  <2>2. operands' = Append(g, v)
    BY <1>2, <1>8
  <2> QED
    BY <2>1, <2>2, <1>11
<1>16. PICK r, l : r = Remaining(base) /\ l = Len(lastRetrievedElementType)
  OBVIOUS
<1>17. Len(r) \in Nat /\ l \in Nat /\ Len(r) = IF base.kind = "member" THEN l - 1 ELSE l
  BY <1>1, <1>3, <1>7, <1>16, RemainingLength, StackIsTyped DEF IsRetrieved
<1>18. m <= l
  BY <1>6, <1>11, <1>16 DEF MembersPushed
<1> QED
  BY <1>1, <1>3, <1>12, <1>13, <1>14, <1>15, <1>16, <1>17, <1>18

\* Every step keeps the members on the stack.
LEMMA MembersPushedNext ==
  ASSUME IInv, MembersPushed, [AccessNext]_allVars
  PROVE  MembersPushed'
<1>1. IInv'
  BY AccessNextInv
<1>2. ASSUME operands' = <<>> PROVE MembersPushed'
  <2>1. (Cardinality(MembersOf(operands)) <= Len(lastRetrievedElementType))'
    <3>1. Len(operands') = 0
      BY <1>1, <1>2 DEF IInv, AccessInv, OperandsTyped
    <3>2. MembersOf(operands') = {}
      BY <3>1 DEF MembersOf
    <3>3. Len(lastRetrievedElementType') \in Nat
      BY <1>1 DEF IInv, AccessInv, StackTyped
    <3> QED
      BY <3>2, <3>3, FS_EmptySet
  <2> QED
    BY <2>1 DEF MembersPushed
<1>3. ASSUME UNCHANGED <<prog, pass, at, operands, lastRetrievedElementType>> PROVE MembersPushed'
  <2>1. CodeAtHand' = CodeAtHand
    BY <1>3 DEF CodeAtHand, Decl
  <2> QED
    BY <2>1, <1>3 DEF MembersPushed
<1>4. ASSUME Advance, UNCHANGED lastRetrievedElementType, NEW kind, AtNode(kind), NEW v,
             v.kind # "member", operands' = Append(operands, v)
      PROVE  MembersPushed'
  <2>1. CodeAtHand' = CodeAtHand
    BY <1>4, NodeStays DEF IInv
  <2>2. operands \in Seq(ProperOperand)
    BY DEF IInv, AccessInv, OperandsTyped
  <2>3. MembersOf(operands') = MembersOf(operands)
    BY <1>4, <2>2, MembersAppend
  <2> QED
    BY <1>4, <2>1, <2>3 DEF MembersPushed
<1>5. CASE GenerateConstant
  <2>1. PICK v : v.kind = "constant" /\ operands' = Append(operands, v)
    BY <1>5 DEF GenerateConstant
  <2> QED
    BY <2>1, <1>4, <1>5 DEF GenerateConstant
<1>6. CASE GenerateVariable
  <2>1. PICK v : v.kind = "variable" /\ operands' = Append(operands, v)
    BY <1>6 DEF GenerateVariable
  <2> QED
    BY <2>1, <1>4, <1>6 DEF GenerateVariable
<1>7. CASE GenerateMemberAccess
  BY <1>7, MemberPushed
<1>8. CASE GenerateAccessOperation
  BY <1>8, AccessPushed
<1>9. CASE EndStatement
  BY <1>9, <1>2 DEF EndStatement
<1>10. CASE UnknownVariableType \/ UnknownPointee \/ NothingRetrieved \/ NoSuchMember \/ InvalidAccess
  BY <1>10, <1>3 DEF UnknownVariableType, UnknownPointee, NothingRetrieved, NoSuchMember,
                     InvalidAccess, Fail, End, accessVars
<1>11. CASE UNCHANGED allVars
  BY <1>11, <1>3 DEF allVars, vars, accessVars
<1>12. CASE Next /\ UNCHANGED accessVars
  <2>1. UNCHANGED <<operands, lastRetrievedElementType>>
    BY <1>12 DEF accessVars
  <2>2. CASE operands = <<>>
    BY <2>1, <2>2, <1>2
  <2>3. CASE operands # <<>>
    <3>1. next # 1 /\ ~(next > Len(CodeAtHand))
      BY <2>3, NothingWaits
    <3>2. pass = BodyPass /\ at \in 1 .. Len(prog) /\ (IsStruct(at) => inStruct)
      BY <3>1, OutOfBodies
    <3>3. CodeAtHand = Decl.code
      BY <3>2 DEF CodeAtHand
    <3>4. ~AtStruct
      BY <3>2 DEF AtStruct, IsStruct, Decl
    <3>5. Len(prog) \in Nat /\ at # Len(prog) + 1
      BY <3>2 DEF IInv, StructInv, Typed, PlaceTyped
    <3>6. UNCHANGED <<prog, pass, at>>
      BY <1>12, <3>1, <3>2, <3>3, <3>4, <3>5, PassesDiffer
         DEF Next, RedefineStruct, UntypedField, UnknownFieldType, DeclareStruct, EnterStruct,
             LeaveStruct, SkipInTypePass, GeneratePrototype, UnknownParameterType, FailInBody,
             GenerateTypeInstance, UnknownTypeInstance, EndFunction, NextPass, WriteModule,
             Finished, vars
    <3> QED
      BY <2>1, <3>6, <1>3
  <2> QED
    BY <2>2, <2>3
<1> QED
  BY <1>5, <1>6, <1>7, <1>8, <1>9, <1>10, <1>11, <1>12 DEF AccessNext, GenerateNode

-----------------------------------------------------------------------------
(***************************************************************************)
(* What is undefined                                                       *)
(***************************************************************************)
\* The faults of a declaration, and of a program
Cause(d) ==
  \/ OfElement(prog[d].code)
  \/ \E k \in 1 .. Len(prog[d].code) :
       /\ prog[d].code[k].kind = "variable"
       /\ ~KnownName(prog[d].code[k].type.name)
  \/ /\ prog[d].kind = "struct"
     /\ \/ d \in Reached(d)
        \/ \E i \in 1 .. Len(prog[d].fields) :
             prog[d].fields[i].typed /\ ~KnownName(prog[d].fields[i].type.name)
  \/ /\ prog[d].kind = "function"
     /\ \E i \in 1 .. Len(prog[d].params) : ~KnownName(prog[d].params[i].name)

HasCause == \E d \in 1 .. Len(prog) : Cause(d)

LEMMA UndefinedHasCauseIs == UndefinedHasCause <=> (status = "undefined" => HasCause)
BY DEF UndefinedHasCause, HasCause, Cause

\* The faults are those of the program.
LEMMA SameCause ==
  ASSUME UNCHANGED prog
  PROVE  HasCause' <=> HasCause
<1>1. Holds' = Holds
  BY DEF Holds, HoldsByValue
<1>2. \A d : Reached(d)' = Reached(d)
  BY <1>1, Zenon DEF Reached
<1>3. \A name : KnownName(name)' <=> KnownName(name)
  BY DEF KnownName, DeclaredBefore
<1>4. ASSUME NEW d PROVE Cause(d)' <=> Cause(d)
  <2>1. prog'[d] = prog[d] /\ Reached(d)' = Reached(d)
    BY <1>2
  <2> QED
    BY <2>1, <1>3 DEF Cause
<1> QED
  BY <1>4 DEF HasCause

\* After pass 0 a name that structDefinitions does not have is one that no struct has.
LEMMA UndefinedIsUnknown ==
  ASSUME StructInv, pass # TypePass, NEW node, ~Defined(node)
  PROVE  ~KnownName(node.name)
<1>1. PlaceTyped /\ Declared
  BY DEF StructInv, Typed
<1>2. \A d \in 1 .. Len(prog) : Passed(d, TypePass)
  BY <1>1, PassesDiffer DEF PlaceTyped, Passed
<1>3. node.name \notin Builtins /\ node.name \notin DOMAIN structDefinitions
  BY DEF Defined
<1>4. ~DeclaredBefore(node.name, Len(prog) + 1)
  <2>1. Len(prog) \in Nat /\ 1 .. Len(prog) + 1 - 1 = 1 .. Len(prog)
    BY <1>1 DEF PlaceTyped
  <2> QED
    BY <2>1, <1>1, <1>2, <1>3 DEF DeclaredBefore, Declared, IsStruct
<1> QED
  BY <1>3, <1>4 DEF KnownName

LEMMA UndefinedField ==
  ASSUME StructInv, UnknownFieldType
  PROVE  HasCause
<1>1. AtStruct /\ pass # TypePass /\ FieldsUndefined
  BY DEF UnknownFieldType
<1>2. at \in 1 .. Len(prog) /\ IsStruct(at) /\ Decl = prog[at]
  BY <1>1, AtStructIs
<1> DEFINE fields == prog[at].fields
           stopping == {i \in 1 .. Len(fields) :
                          \/ ~fields[i].typed
                          \/ Unknown(i) /\ fields[i].type.pointers > 0}
<1>3. fields \in Seq(Field) /\ Len(fields) \in Nat
  <2>1. prog[at].fields \in Seq(Field)
    BY <1>2, DeclarationType DEF StructInv, Typed, PlaceTyped, IsStruct
  <2> QED
    BY <2>1
<1>4. StoppingField = IF stopping = {} THEN 0
                      ELSE CHOOSE i \in stopping : \A j \in stopping : i <= j
  BY <1>2 DEF StoppingField
<1>5. ASSUME stopping # {} PROVE StoppingField \in stopping
  <2>1. stopping \in SUBSET Nat
    OBVIOUS
  <2>2. \E i \in stopping : \A j \in stopping : i <= j
    BY <1>5, <2>1, LeastNat
  <2> HIDE DEF stopping
  <2> QED
    BY <1>4, <1>5, <2>2
<1>6. \E i \in 1 .. Len(fields) : Unknown(i)
  <2>1. CASE StoppingField # 0
    <3>1. stopping # {}
      BY <2>1, <1>4
    <3>2. StoppingField \in stopping
      BY <3>1, <1>5
    <3>3. fields[StoppingField].typed
      BY <1>1, <1>2, <2>1 DEF FieldsUndefined
    <3> QED
      BY <3>2, <3>3
  <2>2. CASE StoppingField = 0
    BY <1>1, <1>2, <2>2 DEF FieldsUndefined
  <2> QED
    BY <2>1, <2>2
<1>7. PICK i \in 1 .. Len(prog[at].fields) : prog[at].fields[i].typed /\ ~Defined(prog[at].fields[i].type)
  BY <1>2, <1>6 DEF Unknown
<1>8. ~KnownName(prog[at].fields[i].type.name)
  BY <1>1, <1>7, UndefinedIsUnknown
<1>9. Cause(at)
  BY <1>2, <1>7, <1>8 DEF Cause, IsStruct
<1> QED
  BY <1>2, <1>9 DEF HasCause

LEMMA UndefinedParameter ==
  ASSUME StructInv, UnknownParameterType
  PROVE  HasCause
<1>1. AtFunction /\ pass = PrototypePass
  BY DEF UnknownParameterType
<1>2. at \in 1 .. Len(prog) /\ prog[at].kind = "function" /\ Decl = prog[at]
  BY <1>1, AtFunctionIs
<1>3. PICK i \in 1 .. Len(prog[at].params) : ~Defined(prog[at].params[i])
  BY <1>2 DEF UnknownParameterType
<1>4. ~KnownName(prog[at].params[i].name)
  BY <1>1, <1>3, UndefinedIsUnknown, PassesDiffer
<1>5. Cause(at)
  BY <1>2, <1>3, <1>4 DEF Cause
<1> QED
  BY <1>2, <1>5 DEF HasCause

LEMMA UndefinedVariable ==
  ASSUME IInv, UnknownPointee
  PROVE  HasCause
<1> DEFINE kind == "variable"
<1>1. AtNode(kind) /\ kind = "variable" /\ ~Defined(Node.type)
  BY DEF UnknownPointee
<1> HIDE DEF kind
<1>2. /\ pass = BodyPass /\ at \in 1 .. Len(prog)
      /\ CodeAtHand = Decl.code /\ next \in 1 .. Len(CodeAtHand)
      /\ Node = CodeAtHand[next] /\ Node.kind = kind
  BY <1>1, AtNodeIs
<1>3. ~KnownName(Node.type.name)
  BY <1>1, <1>2, UndefinedIsUnknown, PassesDiffer DEF IInv
<1>4. CodeAtHand = prog[at].code
  BY <1>2 DEF Decl
<1>5. Cause(at)
  BY <1>1, <1>2, <1>3, <1>4 DEF Cause
<1> QED
  BY <1>2, <1>5 DEF HasCause

LEMMA UndefinedTop ==
  ASSUME IInv, MembersPushed, NothingRetrieved
  PROVE  HasCause
<1>1. PICK kind : /\ kind \in {"member", "access"} /\ AtNode(kind)
                  /\ kind = "member" => ~Known(Last(operands))
                  /\ kind = "access" => ~Known(operands[Len(operands) - 1])
  BY DEF NothingRetrieved
<1>2. at \in 1 .. Len(prog) /\ CodeAtHand = prog[at].code
  BY <1>1, AtNodeIs DEF Decl
<1>3. operands \in Seq(ProperOperand) /\ Len(operands) \in Nat
  BY DEF IInv, AccessInv, OperandsTyped
<1>4. PICK j \in 1 .. Len(operands) :
        operands[j].kind \in Addresses /\ ~Known(operands[j])
  <2>1. CASE kind = "member"
    <3>1. operands # <<>> /\ Last(operands).kind \in Addresses
      BY <1>1, <2>1, OperandsThere
    <3>2. Len(operands) \in 1 .. Len(operands) /\ Last(operands) = operands[Len(operands)]
      BY <1>3, <3>1 DEF Last
    <3> QED
      BY <1>1, <2>1, <3>1, <3>2
  <2>2. CASE kind = "access"
    <3>1. Len(operands) > 1 /\ operands[Len(operands) - 1].kind \in Addresses
      BY <1>1, <2>2, OperandsThere
    <3>2. Len(operands) - 1 \in 1 .. Len(operands)
      BY <1>3, <3>1
    <3> QED
      BY <1>1, <2>2, <3>1, <3>2
  <2> QED
    BY <1>1, <2>1, <2>2
<1>5. OfElement(CodeAtHand)
  <2> SUFFICES ASSUME ~OfElement(CodeAtHand) PROVE FALSE
    OBVIOUS
  <2>1. operands[j].kind # "access"
    BY <1>1, NoElementWaits
  <2>2. operands[j].kind = "member" /\ lastRetrievedElementType = <<>>
    BY <2>1, <1>4 DEF Known, IsRetrieved, Addresses
  <2>3. j \in MembersOf(operands)
    BY <2>2 DEF MembersOf
  <2>4. PICK S : S = MembersOf(operands)
    OBVIOUS
  <2>5. IsFiniteSet(S) /\ Cardinality(S) \in Nat /\ S # {}
    BY <1>3, <2>3, <2>4, MembersFinite
  <2>6. Cardinality(S) # 0
    BY <2>5, FS_EmptySet
  <2>7. Len(lastRetrievedElementType) = 0
    BY <2>2, StackIsTyped
  <2> QED
    BY <2>4, <2>5, <2>6, <2>7 DEF MembersPushed
<1>6. Cause(at)
  BY <1>2, <1>5 DEF Cause
<1> QED
  BY <1>2, <1>6 DEF HasCause

LEMMA UndefinedBody ==
  ASSUME StructInv, HoldsInv, LeaveStruct, status' = "undefined"
  PROVE  HasCause
<1>1. InBody /\ inStruct
  BY DEF LeaveStruct
<1>2. at \in 1 .. Len(prog) /\ status = "compiling" /\ prog[at].kind = "struct"
  BY <1>1 DEF InBody, StructInv, Typed, InStructTyped, Decl
<1>3. Recursive(StructVal(Decl.name), fieldTypes)
  BY <1>2 DEF LeaveStruct
<1>4. at \in Reached(at)
  BY <1>1, <1>3, RecursiveIsReached
<1>5. Cause(at)
  BY <1>2, <1>4 DEF Cause
<1> QED
  BY <1>2, <1>5 DEF HasCause

\* A step that leaves the compiler undefined has a cause in the program.
LEMMA UndefinedNext ==
  ASSUME IInv, HoldsInv, MembersPushed, UndefinedHasCause, [AccessNext]_allVars
  PROVE  UndefinedHasCause'
<1>1. StructInv /\ StructInv'
  BY AccessNextInv DEF IInv
<1>2. ASSUME UNCHANGED prog, status' = "undefined" => status = "undefined" \/ HasCause
      PROVE  UndefinedHasCause'
  <2>1. status' = "undefined" => HasCause'
    BY <1>2, SameCause, UndefinedHasCauseIs
  <2> QED
    BY <2>1, Zenon DEF UndefinedHasCause, HasCause, Cause
<1>3. CASE UnknownFieldType
  BY <1>1, <1>2, <1>3, UndefinedField DEF UnknownFieldType
<1>4. CASE UnknownParameterType
  BY <1>1, <1>2, <1>4, UndefinedParameter DEF UnknownParameterType
<1>5. CASE LeaveStruct
  BY <1>1, <1>2, <1>5, UndefinedBody DEF LeaveStruct
<1>6. CASE UnknownPointee
  BY <1>2, <1>6, UndefinedVariable DEF UnknownPointee, End
<1>7. CASE NothingRetrieved
  BY <1>2, <1>7, UndefinedTop DEF NothingRetrieved, End
<1>8. CASE \/ RedefineStruct \/ UntypedField \/ DeclareStruct \/ EnterStruct
           \/ SkipInTypePass \/ GeneratePrototype \/ FailInBody \/ GenerateTypeInstance
           \/ UnknownTypeInstance \/ EndFunction \/ NextPass \/ WriteModule \/ UNCHANGED vars
  <2>1. UNCHANGED prog /\ (status' = "undefined" => status = "undefined")
    BY <1>8 DEF RedefineStruct, UntypedField, DeclareStruct, EnterStruct, SkipInTypePass,
                GeneratePrototype, FailInBody, GenerateTypeInstance, UnknownTypeInstance,
                EndFunction, NextPass, WriteModule, NextDeclaration, Stop, vars
  <2> QED
    BY <2>1, <1>2
<1>9. CASE \/ GenerateConstant \/ GenerateVariable \/ UnknownVariableType \/ GenerateMemberAccess
           \/ NoSuchMember \/ GenerateAccessOperation \/ InvalidAccess \/ EndStatement
  <2>1. UNCHANGED prog /\ (status' = "undefined" => status = "undefined")
    BY <1>9 DEF GenerateConstant, GenerateVariable, UnknownVariableType, GenerateMemberAccess,
                GenerateMember, NoSuchMember, GenerateAccessOperation, InvalidAccess, EndStatement,
                Advance, Fail, Stop
  <2> QED
    BY <2>1, <1>2
<1> QED
  BY <1>3, <1>4, <1>5, <1>6, <1>7, <1>8, <1>9 DEF AccessNext, Next, GenerateNode, Finished, allVars

LEMMA HoldsInit ==
  ASSUME AccessInit
  PROVE  HoldsInv
<1>1. IInv
  BY AccessInitInv
<1>2. Init /\ PlaceTyped
  BY <1>1 DEF AccessInit, IInv, StructInv, Typed
<1>3. DOMAIN body = {} /\ ~inStruct
  BY <1>2 DEF Init
<1>4. \A d \in 1 .. Len(prog) : ~Passed(d, PrototypePass)
  BY <1>2, PassesDiffer DEF Passed, Init, PlaceTyped
<1> QED
  BY <1>3, <1>4 DEF HoldsInv, BodiesHold, MadeInPassOne, EnteredDeclared

\* Nothing that the compiler does to a program is undefined but for the use of an unknown
\* type, for structs that hold one another by value, and for an element of which something
\* more is accessed: what setBody is given is recursive only if the declarations are, and
\* the stack of retrieved types has every member that waits for an access.
THEOREM UndefinedAsDeclared == AccessSpec => []UndefinedHasCause
<1> DEFINE J == IInv /\ HoldsInv /\ MembersPushed /\ UndefinedHasCause
<1>1. AccessInit => J
  <2> SUFFICES ASSUME AccessInit PROVE J
    OBVIOUS
  <2>1. IInv
    BY AccessInitInv
  <2>2. Init /\ operands = <<>>
    BY DEF AccessInit
  <2>4. HoldsInv
    BY HoldsInit
  <2>5. MembersPushed
    BY <2>1, <2>2, NoMembers DEF MembersPushed
  <2>6. UndefinedHasCause
    BY <2>2 DEF UndefinedHasCause, Init
  <2> QED
    BY <2>1, <2>4, <2>5, <2>6
<1>2. J /\ [AccessNext]_allVars => J'
  <2> SUFFICES ASSUME J, [AccessNext]_allVars PROVE J'
    OBVIOUS
  <2>1. IInv' /\ HoldsInv'
    BY AccessNextInv, HoldsNext DEF IInv
  <2>2. MembersPushed' /\ UndefinedHasCause'
    BY MembersPushedNext, UndefinedNext
  <2> QED
    BY <2>1, <2>2
<1>3. J => UndefinedHasCause
  OBVIOUS
<1> HIDE DEF J
<1> QED
  BY <1>1, <1>2, <1>3, PTL DEF AccessSpec

-----------------------------------------------------------------------------
(***************************************************************************)
(* Sizes                                                                   *)
(***************************************************************************)
\* What a type holds, however deep, has all that it holds itself.
LEMMA HeldClosed ==
  ASSUME IsFiniteSet(DOMAIN body), NEW type \in DOMAIN body
  PROVE  /\ type \in Held(body, {type})
         /\ \A t \in Held(body, {type}) \cap DOMAIN body : ToSet(body[t]) \subseteq Held(body, {type})
<1>1. PICK D, n : D = DOMAIN body /\ n = Cardinality(D)
  OBVIOUS
<1>2. n \in Nat /\ Nesting = 0 .. n /\ IsFiniteSet(D)
  BY <1>1, FS_CardinalityType DEF Nesting
<1>3. PICK held : HeldIn(held, {type}) /\ Held(body, {type}) = held[n]
  BY <1>1, HeldIs
<1>4. \A k \in 0 .. n : held[k] = IF k = 0 THEN {type} ELSE HeldBy(held[k - 1])
  BY <1>2, <1>3 DEF HeldIn
<1>r. PICK r : r = [k \in 0 .. n |-> held[k] \cap D]
  OBVIOUS
<1>5. held[0] = {type} /\ r[0] # {}
  BY <1>r, <1>1, <1>2, <1>4
<1>6. ASSUME NEW k \in 1 .. n PROVE held[k] = HeldBy(held[k - 1]) /\ held[k - 1] \subseteq held[k]
  <2>1. k \in 0 .. n /\ k # 0
    BY <1>2
  <2>2. held[k] = HeldBy(held[k - 1])
    BY <2>1, <1>4
  <2> QED
    BY <2>2 DEF HeldBy
<1>7. ASSUME NEW k \in 1 .. n, r[k] = r[k - 1] PROVE HeldBy(held[k]) = held[k]
  <2>1. held[k] \cap D = held[k - 1] \cap D
    BY <1>r, <1>2, <1>7
  <2>2. UNION {ToSet(body[t]) : t \in held[k] \cap DOMAIN body} \subseteq held[k]
    BY <1>1, <1>6, <2>1 DEF HeldBy
  <2> QED
    BY <2>2 DEF HeldBy
<1>8. r \in [0 .. n -> SUBSET D]
  BY <1>r
<1>9. \A k \in 1 .. n : r[k - 1] \subseteq r[k]
  BY <1>r, <1>2, <1>6
<1>10. ASSUME NEW k \in 1 .. n, k + 1 \in 1 .. n, r[k] = r[k - 1] PROVE r[k + 1] = r[k]
  <2>1. held[k + 1] = HeldBy(held[k + 1 - 1]) /\ k + 1 - 1 = k /\ k + 1 \in 0 .. n /\ k \in 0 .. n
    BY <1>2, <1>6, <1>10
  <2>2. held[k + 1] = held[k]
    BY <2>1, <1>7, <1>10
  <2> QED
    BY <1>r, <2>1, <2>2
<1>11. n > 0 /\ r[n] = r[n - 1]
  <2>1. \A k \in 1 .. n : k + 1 \in 1 .. n /\ r[k] = r[k - 1] => r[k + 1] = r[k]
    BY <1>10
  <2>2. IsFiniteSet(D) /\ n \in Nat /\ n = Cardinality(D)
    BY <1>1, <1>2
  <2>3. r \in [0 .. n -> SUBSET D] /\ r[0] # {} /\ \A k \in 1 .. n : r[k - 1] \subseteq r[k]
    BY <1>5, <1>8, <1>9
  <2> QED
    BY <2>1, <2>2, <2>3, ChainStops, Zenon
<1>12. HeldBy(held[n]) = held[n]
  BY <1>2, <1>7, <1>11
<1>13. type \in held[n]
  BY <1>3, HeldSelf
<1> QED
  BY <1>3, <1>12, <1>13 DEF HeldBy

SumOf(s) == FoldLeft(+, 0, s)

\* The size of a type at depth d, from the sizes of what it holds one level below.
SizeOf(known, t, d, below) ==
  IF t \in DOMAIN known THEN known[t]
  ELSE IF t \notin DOMAIN body THEN 1
  ELSE IF d = 0 THEN 0
  ELSE SumOf([i \in 1 .. Len(body[t]) |-> below[body[t][i]]])

Sizes(size, known, type) ==
  size = [d \in Nesting |-> [t \in Held(body, {type}) |-> SizeOf(known, t, d, size[d - 1])]]

\* The recursion of Size has a solution, and Size is the end of one.
LEMMA SizeIs ==
  ASSUME IsFiniteSet(DOMAIN body), NEW type, NEW known
  PROVE  \E size : Sizes(size, known, type) /\ Size(type, known) = size[Cardinality(DOMAIN body)][type]
<1>1. PICK n : n = Cardinality(DOMAIN body)
  OBVIOUS
<1>2. n \in Nat /\ Nesting = 0 .. n
  BY <1>1, FS_CardinalityType DEF Nesting
<1>3. PICK H : H = Held(body, {type})
  OBVIOUS
<1> DEFINE Row(d, below) == [t \in H |-> SizeOf(known, t, d, below)]
           Rows(f, m) == f = [d \in 0 .. m |-> Row(d, f[d - 1])]
           bad == {m \in 0 .. n : ~\E f : Rows(f, m)}
<1>4. ASSUME NEW x, NEW y PROVE Row(0, x) = Row(0, y)
  BY DEF SizeOf
<1> HIDE DEF Row
<1>5. ASSUME bad # {} PROVE FALSE
  <2>1. bad \in SUBSET Nat
    OBVIOUS
  <2>2. PICK m \in bad : \A j \in bad : m <= j
    BY <1>5, <2>1, LeastNat
  <2>3. CASE m = 0
    <3>1. PICK f : f = [d \in 0 .. 0 |-> Row(0, 0)]
      OBVIOUS
    <3>2. f = [d \in 0 .. 0 |-> Row(d, f[d - 1])]
      <4>1. \A d \in 0 .. 0 : d = 0
        OBVIOUS
      <4>2. \A d \in 0 .. 0 : Row(0, 0) = Row(d, f[d - 1])
        BY <4>1, <1>4
      <4> QED
        BY <3>1, <4>2
    <3> QED
      BY <2>2, <2>3, <3>2
  <2>4. CASE m # 0
    <3>1. m \in 1 .. n /\ m - 1 \in 0 .. n /\ ~(m <= m - 1)
      BY <1>2, <2>2, <2>4
    <3>2. PICK f : Rows(f, m - 1)
      BY <2>2, <3>1
    <3>3. PICK g : g = [d \in 0 .. m |-> IF d = m THEN Row(m, f[m - 1]) ELSE f[d]]
      OBVIOUS
    <3>4. ASSUME NEW d \in 0 .. m PROVE g[d] = Row(d, g[d - 1])
      <4>1. CASE d = 0
        <5>1. g[d] = f[d] /\ d \in 0 .. m - 1
          BY <3>1, <3>3, <4>1
        <5>2. f[d] = Row(d, f[d - 1])
          BY <3>2, <5>1
        <5> QED
          BY <4>1, <5>1, <5>2, <1>4
      <4>2. CASE d # 0 /\ d # m
        <5>1. d \in 0 .. m - 1 /\ d - 1 \in 0 .. m /\ d - 1 # m
          BY <3>1, <4>2
        <5>2. g[d] = f[d] /\ g[d - 1] = f[d - 1]
          BY <3>3, <4>2, <5>1
        <5>3. f[d] = Row(d, f[d - 1])
          BY <3>2, <5>1
        <5> QED
          BY <5>2, <5>3
      <4>3. CASE d # 0 /\ d = m
        <5>1. d - 1 \in 0 .. m /\ d - 1 # m
          BY <3>1, <4>3
        <5> QED
          BY <3>3, <4>3, <5>1
      <4> QED
        BY <4>1, <4>2, <4>3
    <3>5. Rows(g, m)
      <4>1. g = [d \in 0 .. m |-> g[d]]
        BY <3>3
      <4> QED
        BY <3>4, <4>1
    <3> QED
      BY <2>2, <3>5
  <2> QED
    BY <2>3, <2>4
<1>6. \E f : Rows(f, n)
  BY <1>2, <1>5
<1>7. \A size : Rows(size, n) <=> Sizes(size, known, type)
  BY <1>2, <1>3 DEF Sizes, Row
<1> HIDE DEF Rows
<1>8. Size(type, known) = (CHOOSE size2 : Sizes(size2, known, type))[Cardinality(DOMAIN body)][type]
  BY Zenon DEF Size, Sizes, SizeOf, SumOf
<1>9. Sizes(CHOOSE size2 : Sizes(size2, known, type), known, type)
  BY <1>6, <1>7
<1> QED
  BY <1>8, <1>9


\* A solution at a depth, if its rows are those of the types held.
LEMMA SizesAt ==
  ASSUME IsFiniteSet(DOMAIN body), NEW type, NEW known, NEW size, Sizes(size, known, type),
         NEW d \in 0 .. Cardinality(DOMAIN body), NEW t \in Held(body, {type})
  PROVE  size[d][t] = SizeOf(known, t, d, size[d - 1])
<1>1. d \in Nesting
  BY DEF Nesting
<1>2. PICK H, N : H = Held(body, {type}) /\ N = Nesting
  OBVIOUS
<1>3. size = [e \in N |-> [v \in H |-> SizeOf(known, v, e, size[e - 1])]]
  BY <1>2 DEF Sizes
<1>4. size[d] = [v \in H |-> SizeOf(known, v, d, size[d - 1])]
  BY <1>1, <1>2, <1>3
<1> QED
  BY <1>2, <1>4

\* The type of pass 0 and that of pass 1, if there is one, are what a struct has; its
\* declaration says what the latter holds, unless there is an error.
TypesMade ==
  /\ \A s \in DOMAIN structDefinitions : <<s, TypePass>> \in DOMAIN body
  /\ \A t \in DOMAIN body : t[2] = TypePass \/ (t = StructVal(t[1]) /\ pass # TypePass)
  /\ body = [t \in DOMAIN body |-> body[t]]

BodiesReady ==
  InOrder /\ ~wasError => \A d \in 1 .. Len(prog) :
    IsStruct(d) /\ Passed(d, PrototypePass) => body[StructVal(prog[d].name)] = FieldsOf(prog[d])

\* The sizes LLVM has computed are those of the types as they end up.
LayoutsExact ==
  /\ pass # BodyPass => layouts = <<>> /\ zeroed = {}
  /\ InOrder /\ ~wasError =>
       /\ \A t \in DOMAIN layouts : layouts[t] = Size(t, <<>>)
       /\ \A z \in zeroed : z.size = layouts[z.type]

SizesInv == TypesMade /\ BodiesReady /\ LayoutsExact

\* The structs with bodies that are declared no later than t
UpTo(t) == {v \in DOMAIN body : v[2] # TypePass /\ Declares(v[1]) <= Declares(t[1])}

Rank(t) == IF t[2] = TypePass THEN 0 ELSE Cardinality(UpTo(t))

\* There are less of them than types, as every struct has a type of pass 0.
LEMMA RankBelow ==
  ASSUME StructInv, HoldsInv, SizesInv, NEW t \in DOMAIN body
  PROVE  Rank(t) \in Nat /\ Cardinality(DOMAIN body) \in Nat /\ Rank(t) < Cardinality(DOMAIN body)
<1>1. PICK D, U, zero : D = DOMAIN body /\ U = UpTo(t) /\ zero = <<t[1], TypePass>>
  OBVIOUS
<1>2. IsFiniteSet(D) /\ t \in D
  BY <1>1 DEF StructInv, Typed, BodiesTyped
<1>3. zero \in D /\ zero \notin U
  <2>1. zero[2] = TypePass
    BY <1>1
  <2>2. t[1] \in DOMAIN structDefinitions
    BY DEF HoldsInv, BodiesHold
  <2> QED
    BY <1>1, <2>1, <2>2 DEF SizesInv, TypesMade, UpTo
<1>4. U \in SUBSET D /\ U # D
  BY <1>1, <1>3 DEF UpTo
<1>5. Cardinality(U) \in Nat /\ Cardinality(D) \in Nat
  BY <1>2, <1>4, FS_Subset, FS_CardinalityType
<1>6. Cardinality(U) <= Cardinality(D) /\ Cardinality(U) # Cardinality(D)
  BY <1>2, <1>4, FS_Subset
<1>7. Rank(t) = 0 \/ Rank(t) = Cardinality(U)
  BY <1>1 DEF Rank
<1> QED
  BY <1>1, <1>5, <1>6, <1>7

\* In order, a struct holds structs that are declared before it.
LEMMA RankOfHeld ==
  ASSUME StructInv, HoldsInv, SizesInv, pass = BodyPass, ~wasError, InOrder,
         NEW t \in DOMAIN body, NEW i \in 1 .. Len(body[t]), body[t][i] \in DOMAIN body
  PROVE  Rank(body[t][i]) < Rank(t)
<1>1. PlaceTyped /\ DefinitionsTyped /\ BodiesTyped /\ Declared /\ NoErrorYet
  BY DEF StructInv, Typed
<1>2. PICK s, d, u : s = t[1] /\ d = Declares(s) /\ u = body[t][i]
  OBVIOUS
<1>3. s \in DOMAIN structDefinitions /\ t[2] # TypePass
  BY <1>2 DEF HoldsInv, BodiesHold
<1>4. t = StructVal(s)
  BY <1>2, <1>3 DEF SizesInv, TypesMade
<1>5. d \in 1 .. Len(prog) /\ IsStruct(d) /\ prog[d].name = s
  BY <1>1, <1>2, <1>3 DEF DefinitionsTyped, Declared, Declares
<1>6. \A e \in 1 .. Len(prog) : Passed(e, TypePass) /\ Passed(e, PrototypePass)
  BY PassesDiffer DEF Passed
<1>7. body[t] = FieldsOf(prog[d])
  BY <1>4, <1>5, <1>6 DEF SizesInv, BodiesReady
<1>8. prog[d].fields \in Seq(Field)
  BY <1>1, <1>5, DeclarationType DEF PlaceTyped, IsStruct
<1>9. i \in 1 .. Len(prog[d].fields)
  <2>1. Len(prog[d].fields) \in Nat
    BY <1>8
  <2> QED
    BY <2>1, <1>7 DEF FieldsOf
<1>10. PICK field : field = prog[d].fields[i]
  OBVIOUS
<1>11. u = GetLLVMType(field.type)
  BY <1>2, <1>7, <1>9, <1>10 DEF FieldsOf
<1>12. PICK T, U : T = UpTo(t) /\ U = UpTo(u)
  OBVIOUS
<1>13. T \in SUBSET DOMAIN body /\ IsFiniteSet(DOMAIN body)
  BY <1>1, <1>12 DEF UpTo, BodiesTyped
<1>14. IsFiniteSet(T) /\ Cardinality(T) \in Nat
  BY <1>13, FS_Subset, FS_CardinalityType
<1>15. d <= d
  BY <1>5
<1>16. t \in T
  BY <1>2, <1>3, <1>12, <1>15 DEF UpTo
<1>17. Rank(t) = Cardinality(T)
  BY <1>3, <1>12 DEF Rank
<1>18. CASE u[2] = TypePass
  <2>1. Cardinality(T) # 0
    BY <1>14, <1>16, FS_EmptySet
  <2> QED
    BY <1>2, <1>14, <1>17, <1>18, <2>1 DEF Rank
<1>19. CASE u[2] # TypePass
  <2>1. ~(field.type.pointers > 0) /\ field.type.name \notin Builtins
    BY <1>11, <1>19 DEF GetLLVMType, Pointer, Builtin
  <2>2. DeclaredBefore(field.type.name, d)
    BY <1>5, <1>9, <1>10, <2>1 DEF InOrder, IsStruct
  <2>3. PICK c \in 1 .. d - 1 : IsStruct(c) /\ prog[c].name = field.type.name
    BY <2>2 DEF DeclaredBefore, IsStruct
  <2>4. c \in 1 .. Len(prog) /\ c < d /\ c \in Int /\ d \in Int
    BY <1>1, <1>5 DEF PlaceTyped
  <2>5. structDefinitions[prog[c].name].token = c
    BY <1>1, <1>6, <2>3, <2>4 DEF NoErrorYet
  <2>6. u = StructVal(field.type.name)
    BY <1>11, <2>1 DEF GetLLVMType
  <2>7. u[1] = field.type.name
    BY <2>6 DEF StructVal
  <2>8. Declares(u[1]) = c
    BY <2>3, <2>5, <2>7 DEF Declares
  <2>9. ASSUME NEW v \in U PROVE v \in T
    <3>1. v \in DOMAIN body /\ v[2] # TypePass /\ Declares(v[1]) <= c
      BY <1>12, <2>8 DEF UpTo
    <3>2. v[1] \in DOMAIN structDefinitions
      BY <3>1 DEF HoldsInv, BodiesHold
    <3>3. Declares(v[1]) \in 1 .. Len(prog)
      BY <3>2, <1>1 DEF DefinitionsTyped, Declares
    <3>4. Declares(v[1]) <= d
      BY <3>1, <3>3, <2>4
    <3> QED
      BY <3>1, <3>4, <1>2, <1>12 DEF UpTo
  <2>10. t \notin U
    <3>1. ~(d <= c)
      BY <2>4
    <3> QED
      BY <3>1, <1>2, <1>12, <2>8 DEF UpTo
  <2>11. U \in SUBSET T /\ U # T
    BY <2>9, <2>10, <1>16
  <2>12. IsFiniteSet(U) /\ Cardinality(U) \in Nat
    BY <2>11, <1>14, FS_Subset, FS_CardinalityType
  <2>13. Cardinality(U) <= Cardinality(T) /\ Cardinality(U) # Cardinality(T)
    BY <2>11, <1>14, FS_Subset
  <2>14. Rank(u) = Cardinality(U)
    BY <1>12, <1>19 DEF Rank
  <2> QED
    BY <2>12, <2>13, <2>14, <1>2, <1>14, <1>17
<1> QED
  BY <1>18, <1>19


\* Sizes that are those the types end up with
Exact(known) == \A t \in DOMAIN known : t \in DOMAIN body /\ known[t] = Size(t, <<>>)

\* However the recursion comes to t, and with whatever sizes computed before, t has one size.
OneSize(t) ==
  \A known, type, size : \A d \in 0 .. Cardinality(DOMAIN body) :
    /\ Exact(known)
    /\ type \in DOMAIN body
    /\ Sizes(size, known, type)
    /\ t \in Held(body, {type})
    /\ d > Rank(t)
    => size[d][t] = Size(t, <<>>)

\* The recursion at a struct, if those that it holds have one size.
LEMMA OneSizeOf ==
  ASSUME StructInv, HoldsInv, SizesInv, pass = BodyPass, ~wasError, InOrder,
         NEW t \in DOMAIN body,
         \A u \in DOMAIN body : Rank(u) < Rank(t) => OneSize(u)
  PROVE  OneSize(t)
<1> SUFFICES ASSUME NEW known, NEW type \in DOMAIN body, NEW size, NEW d \in 0 .. Cardinality(DOMAIN body),
                    Exact(known), Sizes(size, known, type), t \in Held(body, {type}), d > Rank(t)
             PROVE  size[d][t] = Size(t, <<>>)
  BY DEF OneSize
<1>1. PICK n : n = Cardinality(DOMAIN body)
  OBVIOUS
<1>2. IsFiniteSet(DOMAIN body) /\ n \in Nat /\ Rank(t) \in Nat /\ Rank(t) < n
  BY <1>1, RankBelow DEF StructInv, Typed, BodiesTyped
<1>3. d \in 1 .. n /\ n \in 1 .. n /\ d # 0 /\ n # 0
  BY <1>1, <1>2
<1>4. PICK none : none = <<>>
  OBVIOUS
<1>13. DOMAIN none = {} /\ Exact(none)
  BY <1>4 DEF Exact
<1>5. PICK size0 : Sizes(size0, none, t) /\ Size(t, none) = size0[n][t]
  BY <1>1, <1>2, SizeIs
<1>6. /\ t \in Held(body, {t})
      /\ ToSet(body[t]) \subseteq Held(body, {t}) /\ ToSet(body[t]) \subseteq Held(body, {type})
  BY <1>2, HeldClosed
<1>14. ASSUME NEW e \in 0 .. n, NEW u \in Held(body, {type})
       PROVE  size[e][u] = SizeOf(known, u, e, size[e - 1])
  BY <1>1, <1>2, SizesAt
<1>15. ASSUME NEW e \in 0 .. n, NEW u \in Held(body, {t})
       PROVE  size0[e][u] = SizeOf(none, u, e, size0[e - 1])
  BY <1>1, <1>2, <1>5, SizesAt
<1>7. /\ size[d][t] = SizeOf(known, t, d, size[d - 1])
      /\ size0[n][t] = SizeOf(none, t, n, size0[n - 1])
  BY <1>1, <1>2, <1>3, <1>5, <1>6, SizesAt
<1>8. CASE t \in DOMAIN known
  BY <1>7, <1>8 DEF SizeOf, Exact
<1>9. CASE t \notin DOMAIN known
  <2>1. ASSUME NEW i \in 1 .. Len(body[t])
        PROVE  size[d - 1][body[t][i]] = size0[n - 1][body[t][i]]
    <3>1. PICK u : u = body[t][i]
      OBVIOUS
    <3>6. u \in ToSet(body[t])
      <4>1. body[t] \in Seq(LLVMType)
        BY DEF StructInv, Typed, BodiesTyped
      <4> QED
        BY <3>1, <4>1 DEF ToSet
    <3>2. u \in Held(body, {t}) /\ u \in Held(body, {type})
      BY <3>6, <1>6
    <3>3. d - 1 \in 0 .. n /\ n - 1 \in 0 .. n
      BY <1>2, <1>3
    <3>4. CASE u \notin DOMAIN body
      <4>1. /\ size[d - 1][u] = SizeOf(known, u, d - 1, size[d - 1 - 1])
            /\ size0[n - 1][u] = SizeOf(none, u, n - 1, size0[n - 1 - 1])
        BY <3>2, <3>3, <1>14, <1>15
      <4>2. u \notin DOMAIN known /\ u \notin DOMAIN none
        BY <3>4, <1>13 DEF Exact
      <4> QED
        BY <3>1, <3>4, <4>1, <4>2 DEF SizeOf
    <3>5. CASE u \in DOMAIN body
      <4>1. Rank(u) < Rank(t) /\ Rank(u) \in Nat
        BY <3>1, <3>5, RankOfHeld, RankBelow
      <4>2. OneSize(u) /\ d - 1 > Rank(u) /\ n - 1 > Rank(u)
        BY <3>5, <4>1, <1>2, <1>3
      <4>3. size[d - 1][u] = Size(u, <<>>)
        BY <3>2, <3>3, <4>2, <1>1 DEF OneSize
      <4>4. size0[n - 1][u] = Size(u, <<>>)
        BY <3>2, <3>3, <4>2, <1>1, <1>13, <1>5 DEF OneSize
      <4> QED
        BY <3>1, <4>3, <4>4
    <3> QED
      BY <3>4, <3>5
  <2>2. /\ size[d][t] = SumOf([i \in 1 .. Len(body[t]) |-> size[d - 1][body[t][i]]])
        /\ size0[n][t] = SumOf([i \in 1 .. Len(body[t]) |-> size0[n - 1][body[t][i]]])
    BY <1>3, <1>13, <1>7, <1>9 DEF SizeOf
  <2>3. [i \in 1 .. Len(body[t]) |-> size[d - 1][body[t][i]]]
          = [i \in 1 .. Len(body[t]) |-> size0[n - 1][body[t][i]]]
    BY <2>1
  <2> QED
    BY <2>2, <2>3, <1>4, <1>5
<1> QED
  BY <1>8, <1>9

\* A struct that is declared in order has the size it ends up with whenever it is computed.
LEMMA SizesAgree ==
  ASSUME StructInv, HoldsInv, SizesInv, pass = BodyPass, ~wasError, InOrder,
         NEW type \in DOMAIN body, NEW known, Exact(known)
  PROVE  Size(type, known) = Size(type, <<>>)
<1> DEFINE bad == {r \in Nat : \E t \in DOMAIN body : Rank(t) = r /\ ~OneSize(t)}
<1>1. ASSUME bad # {} PROVE FALSE
  <2>1. bad \in SUBSET Nat
    OBVIOUS
  <2>2. PICK r \in bad : \A j \in bad : r <= j
    BY <1>1, <2>1, LeastNat
  <2>3. PICK t \in DOMAIN body : Rank(t) = r /\ ~OneSize(t)
    BY <2>2
  <2>4. ASSUME NEW u \in DOMAIN body, Rank(u) < Rank(t) PROVE OneSize(u)
    <3>1. Rank(u) \in Nat /\ r \in Nat /\ ~(r <= Rank(u))
      BY <2>1, <2>2, <2>3, <2>4, RankBelow
    <3>2. Rank(u) \notin bad
      BY <2>2, <3>1
    <3> QED
      BY <3>1, <3>2
  <2>5. OneSize(t)
    BY <2>4, OneSizeOf
  <2> QED
    BY <2>3, <2>5
<1>2. OneSize(type)
  <2>1. Rank(type) \in Nat
    BY RankBelow
  <2>2. Rank(type) \notin bad
    BY <1>1
  <2> QED
    BY <2>1, <2>2
<1>3. PICK n : n = Cardinality(DOMAIN body)
  OBVIOUS
<1>4. IsFiniteSet(DOMAIN body) /\ n \in Nat /\ Rank(type) \in Nat /\ Rank(type) < n
  BY <1>3, RankBelow DEF StructInv, Typed, BodiesTyped
<1>5. PICK size : Sizes(size, known, type) /\ Size(type, known) = size[n][type]
  BY <1>3, <1>4, SizeIs
<1>6. type \in Held(body, {type}) /\ n \in 0 .. n /\ n > Rank(type)
  BY <1>4, HeldClosed
<1> QED
  BY <1>2, <1>3, <1>5, <1>6 DEF OneSize


\* What the sizes are made of is as before.
LEMMA SameSizes ==
  ASSUME body' = body
  PROVE  \A t, known : Size(t, known)' = Size(t, known)
<1> SUFFICES ASSUME NEW type, NEW known PROVE Size(type, known)' = Size(type, known)
  OBVIOUS
<1>1. Nesting' = Nesting /\ Held(body, {type})' = Held(body, {type})
  <2>1. ASSUME NEW types PROVE Held(body, types)' = Held(body, types)
    BY DEF Held, Nesting
  <2>2. PICK types : types = {type}
    OBVIOUS
  <2>3. Held(body, types)' = Held(body, types)
    BY <2>1
  <2> QED
    BY <2>2, <2>3, Zenon DEF Nesting
<1>2. ASSUME NEW t, NEW d, NEW below PROVE SizeOf(known, t, d, below)' = SizeOf(known, t, d, below)
  BY DEF SizeOf
<1>3. ASSUME NEW size PROVE Sizes(size, known, type)' <=> Sizes(size, known, type)
  <2>1. ASSUME NEW d
        PROVE  [t \in Held(body, {type})' |-> SizeOf(known, t, d, size[d - 1])']
                 = [t \in Held(body, {type}) |-> SizeOf(known, t, d, size[d - 1])]
    BY <1>1, <1>2
  <2>2. [d \in Nesting' |-> [t \in Held(body, {type})' |-> SizeOf(known, t, d, size[d - 1])']]
          = [d \in Nesting |-> [t \in Held(body, {type}) |-> SizeOf(known, t, d, size[d - 1])]]
    BY <1>1, <2>1
  <2> QED
    BY <2>2, Zenon DEF Sizes
<1>4. Size(type, known) = (CHOOSE size2 : Sizes(size2, known, type))[Cardinality(DOMAIN body)][type]
  BY Zenon DEF Size, Sizes, SizeOf, SumOf
<1>5. Size(type, known)' = (CHOOSE size2 : Sizes(size2, known, type)')[Cardinality(DOMAIN body')][type]
  BY Zenon DEF Size, Sizes, SizeOf, SumOf
<1>6. (CHOOSE size2 : Sizes(size2, known, type)') = (CHOOSE size2 : Sizes(size2, known, type))
  BY <1>3
<1> QED
  BY <1>4, <1>5, <1>6

LEMMA SameOrder ==
  ASSUME prog' = prog
  PROVE  InOrder' <=> InOrder
BY DEF InOrder, DeclaredBefore

\* In pass 1 a declaration in order is made of types that are not declared anymore.
LEMMA FieldsKept ==
  ASSUME StructInv, DeclareStruct, pass = PrototypePass, ~wasError, InOrder,
         NEW d \in 1 .. Len(prog), IsStruct(d), d <= at
  PROVE  FieldsOf(prog[d])' = FieldsOf(prog[d])
<1>1. PICK name : name = Decl.name
  OBVIOUS
<1>2. /\ AtStruct /\ ~Redefined /\ prog' = prog
      /\ \A node : node.name \in DOMAIN structDefinitions /\ node.name # name =>
           GetLLVMType(node)' = GetLLVMType(node)
  BY <1>1, DeclareStructDoes
<1>3. at \in 1 .. Len(prog) /\ IsStruct(at) /\ name = prog[at].name
  BY <1>1, <1>2, AtStructIs
<1>4. PlaceTyped /\ Declared
  BY DEF StructInv, Typed
<1>5. ASSUME NEW i \in 1 .. Len(prog[d].fields)
      PROVE  GetLLVMType(prog[d].fields[i].type)' = GetLLVMType(prog[d].fields[i].type)
  <2>1. PICK node : node = prog[d].fields[i].type
    OBVIOUS
  <2>2. GetLLVMType(node)' = GetLLVMType(node)
    <3>1. CASE node.pointers > 0 \/ node.name \in Builtins
      BY <3>1 DEF GetLLVMType, Pointer, Builtin
    <3>2. CASE ~(node.pointers > 0 \/ node.name \in Builtins)
      <4>1. DeclaredBefore(node.name, d)
        BY <2>1, <3>2 DEF InOrder, IsStruct
      <4>2. PICK c \in 1 .. d - 1 : IsStruct(c) /\ prog[c].name = node.name
        BY <4>1 DEF DeclaredBefore, IsStruct
      <4>3. c \in 1 .. Len(prog) /\ c # at
        BY <1>3, <1>4 DEF PlaceTyped
      <4>4. Passed(c, TypePass)
        BY PassesDiffer DEF Passed
      <4>5. node.name \in DOMAIN structDefinitions
        BY <4>2, <4>3, <4>4, <1>4 DEF Declared
      <4>6. node.name # name
        BY <4>2, <4>3, <4>4, <1>2, <1>3, DeclaredOnce
      <4> QED
        BY <4>5, <4>6, <1>2
    <3> QED
      BY <3>1, <3>2
  <2>3. prog'[d].fields[i].type = node
    BY <2>1, <1>2
  <2> QED
    BY <2>1, <2>2, <2>3 DEF GetLLVMType, StructVal
<1> QED
  BY <1>2, <1>5 DEF FieldsOf

LEMMA DeclareStructSizes ==
  ASSUME StructInv, HoldsInv, SizesInv, DeclareStruct
  PROVE  SizesInv'
<1>a. PICK name, type : name = Decl.name /\ type = <<name, pass>>
  OBVIOUS
<1>1. /\ AtStruct /\ ~Redefined
      /\ pass \in {TypePass, PrototypePass}
      /\ Moves /\ UNCHANGED <<prog, pass, layouts, zeroed, wasError>>
      /\ DOMAIN structDefinitions' = DOMAIN structDefinitions \cup {name}
      /\ structDefinitions'[name] = [token |-> at, made |-> pass]
      /\ \A s \in DOMAIN structDefinitions : s # name => StructVal(s)' = StructVal(s)
      /\ StructVal(name)' = type
  BY <1>a, DeclareStructDoes DEF DeclareStruct, Moves
<1>2. at \in 1 .. Len(prog) /\ IsStruct(at) /\ Decl = prog[at] /\ name = prog[at].name
  BY <1>1, <1>a, AtStructIs
<1>3. PlaceTyped /\ Declared /\ DefinitionsTyped
  BY DEF StructInv, Typed
<1>4. body' = [t \in DOMAIN body \cup {type} |->
                 IF t = type THEN IF pass = TypePass THEN <<>> ELSE FieldsOf(Decl) ELSE body[t]]
  BY <1>a DEF DeclareStruct
<1>5. TypesMade'
  <2>1. ASSUME NEW s \in DOMAIN structDefinitions' PROVE <<s, TypePass>> \in DOMAIN body'
    <3>1. CASE s \in DOMAIN structDefinitions
      BY <3>1, <1>4 DEF SizesInv, TypesMade
    <3>2. CASE s \notin DOMAIN structDefinitions
      <4>1. s = name
        BY <3>2, <1>1
      <4>2. pass = TypePass
        <5>1. pass # TypePass => Passed(at, TypePass)
          BY <1>2, <1>3, AtInPass
        <5> QED
          BY <3>2, <4>1, <5>1, <1>2, <1>3 DEF Declared
      <4> QED
        BY <4>1, <4>2, <1>4, <1>a
    <3> QED
      BY <3>1, <3>2
  <2>2. ASSUME NEW t \in DOMAIN body', t[2] # TypePass PROVE t = StructVal(t[1])' /\ pass' # TypePass
    <3>1. CASE t = type
      <4>1. t[1] = name /\ t[2] = pass
        BY <3>1, <1>a
      <4> QED
        BY <3>1, <4>1, <2>2, <1>1 DEF StructVal
    <3>2. CASE t # type
      <4>1. t \in DOMAIN body
        BY <3>2, <1>4
      <4>2. PICK s : s = t[1]
        OBVIOUS
      <4>3. t = StructVal(s) /\ pass = PrototypePass /\ s \in DOMAIN structDefinitions
        BY <4>1, <4>2, <2>2, <1>1 DEF SizesInv, TypesMade, HoldsInv, BodiesHold
      <4>4. s # name
        <5>1. t[2] \in {TypePass, PrototypePass} /\ t = <<s, t[2]>>
          BY <4>3, <1>3 DEF DefinitionsTyped, StructVal
        <5> QED
          BY <5>1, <4>3, <3>2, <2>2, <1>a
      <4>5. StructVal(s)' = t
        BY <4>3, <4>4, <1>1
      <4> QED
        BY <4>2, <4>3, <4>5, <1>1, PassesDiffer DEF StructVal
    <3> QED
      BY <3>1, <3>2
  <2>3. body' = [t \in DOMAIN body' |-> body'[t]]
    BY <1>4
  <2> QED
    BY <2>1, <2>2, <2>3 DEF TypesMade
<1>6. BodiesReady'
  <2> SUFFICES ASSUME InOrder, ~wasError, NEW d \in 1 .. Len(prog), IsStruct(d), Passed(d, PrototypePass)'
               PROVE  body'[StructVal(prog[d].name)'] = FieldsOf(prog[d])'
    BY <1>1, SameOrder DEF BodiesReady, IsStruct, StructVal
  <2>1. Passed(d, PrototypePass) \/ (pass = PrototypePass /\ d = at)
    BY <1>1, <1>3, PassedMoves
  <2>2. pass = PrototypePass /\ d <= at
    BY <2>1, <1>1, <1>2, PassesDiffer DEF Passed
  <2>3. FieldsOf(prog[d])' = FieldsOf(prog[d])
    BY <2>2, FieldsKept
  <2>4. CASE d = at
    <3>1. body'[type] = FieldsOf(prog[d])
      BY <2>2, <2>4, <1>2, <1>4, PassesDiffer
    <3> QED
      BY <2>3, <2>4, <3>1, <1>1, <1>2
  <2>5. CASE d # at
    <3>1. Passed(d, PrototypePass) /\ Passed(d, TypePass)
      BY <2>1, <2>2, <2>5, PassesDiffer DEF Passed
    <3>2. prog[d].name # name /\ prog[d].name \in DOMAIN structDefinitions
      BY <2>5, <3>1, <1>1, <1>2, <1>3, DeclaredOnce DEF Declared
    <3>3. StructVal(prog[d].name) \in DOMAIN body /\ StructVal(prog[d].name) # type
      BY <3>2, <1>3, <1>a DEF DefinitionsTyped, StructVal
    <3>4. body'[StructVal(prog[d].name)] = FieldsOf(prog[d])
      BY <3>1, <3>3, <1>4 DEF SizesInv, BodiesReady
    <3>5. PICK s : s = prog[d].name
      OBVIOUS
    <3>6. StructVal(s)' = StructVal(s) /\ prog'[d].name = s
      BY <3>2, <3>5, <1>1
    <3> QED
      BY <2>3, <3>4, <3>5, <3>6 DEF StructVal
  <2> QED
    BY <2>4, <2>5
<1>7. LayoutsExact'
  <2>1. layouts' = <<>> /\ zeroed' = {} /\ DOMAIN <<>> = {}
    BY <1>1, PassesDiffer DEF SizesInv, LayoutsExact
  <2> QED
    BY <2>1 DEF LayoutsExact
<1> QED
  BY <1>5, <1>6, <1>7 DEF SizesInv


\* In order, and without an error, setBody gives a struct the body that it has.
LEMMA BodyStays ==
  ASSUME StructInv, HoldsInv, SizesInv, LeaveStruct, InOrder, ~wasError
  PROVE  body' = body
<1>1. InBody /\ inStruct
  BY DEF LeaveStruct
<1>2. pass = BodyPass /\ at \in 1 .. Len(prog) /\ Decl = prog[at]
  BY <1>1 DEF InBody, Decl
<1>3. InStructTyped /\ BodiesSet
  BY DEF StructInv, Typed
<1>4. IsStruct(at) /\ fieldTypes = FieldsOf(prog[at])
  BY <1>1, <1>2, <1>3 DEF InStructTyped, IsStruct, BodiesSet
<1>5. Passed(at, PrototypePass)
  BY <1>2, PassesDiffer DEF Passed
<1>6. PICK type : type = StructVal(Decl.name)
  OBVIOUS
<1>7. body[type] = fieldTypes
  BY <1>2, <1>4, <1>5, <1>6 DEF SizesInv, BodiesReady
<1>8. body' = body \/ body' = [body EXCEPT ![type] = fieldTypes]
  BY <1>6 DEF LeaveStruct
<1>9. body = [t \in DOMAIN body |-> body[t]]
  BY DEF SizesInv, TypesMade
<1>10. [body EXCEPT ![type] = fieldTypes] = body
  BY <1>7, <1>9
<1> QED
  BY <1>8, <1>10

\* A step that makes no type, computes no size, and is past no declaration of pass 1.
LEMMA SizesSame ==
  ASSUME SizesInv, UNCHANGED <<prog, structDefinitions, layouts, zeroed>>,
         DOMAIN body' = DOMAIN body, body' = [t \in DOMAIN body' |-> body'[t]],
         InOrder /\ ~wasError' => body' = body,
         wasError => wasError',
         pass # TypePass => pass' # TypePass,
         pass = BodyPass => pass' = BodyPass,
         ~wasError' => \A d \in 1 .. Len(prog) :
           IsStruct(d) /\ Passed(d, PrototypePass)' => Passed(d, PrototypePass)
  PROVE  SizesInv'
<1>1. TypesMade'
  <2>1. \A s : StructVal(s)' = StructVal(s)
    BY SameTypes
  <2>2. ASSUME NEW t \in DOMAIN body', t[2] # TypePass PROVE t = StructVal(t[1])' /\ pass' # TypePass
    <3>1. PICK s : s = t[1]
      OBVIOUS
    <3>2. t = StructVal(s) /\ pass # TypePass
      BY <2>2, <3>1 DEF SizesInv, TypesMade
    <3> QED
      BY <3>1, <3>2, <2>1 DEF StructVal
  <2> QED
    BY <2>2 DEF SizesInv, TypesMade
<1>2. BodiesReady'
  <2> SUFFICES ASSUME InOrder, ~wasError', NEW d \in 1 .. Len(prog), IsStruct(d), Passed(d, PrototypePass)'
               PROVE  body'[StructVal(prog[d].name)'] = FieldsOf(prog[d])'
    BY SameOrder DEF BodiesReady, IsStruct, StructVal
  <2>1. body[StructVal(prog[d].name)] = FieldsOf(prog[d]) /\ body' = body
    BY DEF SizesInv, BodiesReady
  <2>2. FieldsOf(prog[d])' = FieldsOf(prog[d])
    BY SameTypes
  <2> QED
    BY <2>1, <2>2 DEF StructVal
<1>3. LayoutsExact'
  <2>1. pass' # BodyPass => layouts' = <<>> /\ zeroed' = {}
    BY DEF SizesInv, LayoutsExact
  <2>2. ASSUME InOrder', ~wasError'
        PROVE  /\ \A t \in DOMAIN layouts : layouts[t] = Size(t, <<>>)'
               /\ \A z \in zeroed : z.size = layouts[z.type]
    <3>1. InOrder /\ ~wasError /\ body' = body
      BY <2>2, SameOrder
    <3>2. ASSUME NEW t \in DOMAIN layouts PROVE layouts[t] = Size(t, <<>>)'
      <4>1. layouts[t] = Size(t, <<>>)
        BY <3>1 DEF SizesInv, LayoutsExact
      <4>2. PICK none : none = <<>>
        OBVIOUS
      <4>3. Size(t, none)' = Size(t, none)
        BY <3>1, SameSizes
      <4> QED
        BY <4>1, <4>2, <4>3
    <3> QED
      BY <3>1, <3>2 DEF SizesInv, LayoutsExact
  <2> QED
    BY <2>1, <2>2 DEF LayoutsExact
<1> QED
  BY <1>1, <1>2, <1>3 DEF SizesInv

\* #new computes the sizes of the struct and of those that it holds, and zeroes its size.
LEMMA TypeInstanceSizes ==
  ASSUME StructInv, HoldsInv, SizesInv, GenerateTypeInstance
  PROVE  SizesInv'
<1>1. PICK type : type = StructVal(New)
  OBVIOUS
<1>2. /\ New \in DOMAIN structDefinitions /\ ~wasError /\ pass = BodyPass
      /\ layouts' = Measured(type)
      /\ zeroed' = zeroed \cup {[type |-> type, size |-> layouts'[type]]}
      /\ UNCHANGED <<prog, pass, at, structDefinitions, body, wasError>>
  BY <1>1 DEF GenerateTypeInstance, AtNew, AtNode, InBody
<1>3. DefinitionsTyped /\ BodiesTyped /\ LayoutsTyped
  BY DEF StructInv, Typed
<1>4. type \in DOMAIN body
  BY <1>1, <1>2, <1>3 DEF DefinitionsTyped
<1>5. PICK new : new = (Held(body, {type}) \cap DOMAIN body) \ DOMAIN layouts
  OBVIOUS
<1>6. layouts' = [t \in DOMAIN layouts \cup new |->
                    IF t \in DOMAIN layouts THEN layouts[t] ELSE Size(t, layouts)]
  BY <1>2, <1>5 DEF Measured
<1>7. /\ DOMAIN layouts' = DOMAIN layouts \cup new
      /\ \A t \in DOMAIN layouts : layouts'[t] = layouts[t]
      /\ \A t \in new : layouts'[t] = Size(t, layouts)
  BY <1>5, <1>6
<1>8. TypesMade'
  BY <1>2 DEF SizesInv, TypesMade, StructVal
<1>9. BodiesReady'
  BY <1>2, SameOrder, SameTypes DEF SizesInv, BodiesReady, Passed
<1>10. LayoutsExact'
  <2> SUFFICES ASSUME InOrder
               PROVE  /\ \A t \in DOMAIN layouts' : layouts'[t] = Size(t, <<>>)'
                      /\ \A z \in zeroed' : z.size = layouts'[z.type]
    BY <1>2, SameOrder DEF LayoutsExact
  <2>1. Exact(layouts)
    BY <1>2, <1>3 DEF SizesInv, LayoutsExact, LayoutsTyped, Exact
  <2>2. ASSUME NEW t \in DOMAIN layouts' PROVE layouts'[t] = Size(t, <<>>)
    <3>1. CASE t \in DOMAIN layouts
      BY <3>1, <1>7, <2>1 DEF Exact
    <3>2. CASE t \in new
      <4>1. t \in DOMAIN body
        BY <3>2, <1>5
      <4>2. Size(t, layouts) = Size(t, <<>>)
        BY <4>1, <1>2, <2>1, SizesAgree
      <4> QED
        BY <3>2, <4>2, <1>7
    <3> QED
      BY <3>1, <3>2, <1>7
  <2>3. \A t : Size(t, <<>>)' = Size(t, <<>>)
    <3>1. PICK none : none = <<>>
      OBVIOUS
    <3>2. \A t : Size(t, none)' = Size(t, none)
      BY <1>2, SameSizes
    <3> QED
      BY <3>1, <3>2
  <2>4. ASSUME NEW z \in zeroed' PROVE z.size = layouts'[z.type]
    <3>1. CASE z \in zeroed
      BY <3>1, <1>2, <1>3, <1>7 DEF SizesInv, LayoutsExact, LayoutsTyped
    <3>2. CASE z \notin zeroed
      <4>1. z = [type |-> type, size |-> layouts'[type]]
        BY <3>2, <1>2
      <4> QED
        BY <4>1
    <3> QED
      BY <3>1, <3>2
  <2> QED
    BY <2>2, <2>3, <2>4
<1> QED
  BY <1>8, <1>9, <1>10 DEF SizesInv

\* Every step keeps what is said of the sizes.
LEMMA SizesNext ==
  ASSUME StructInv, HoldsInv, SizesInv, [AccessNext]_allVars
  PROVE  SizesInv'
<1>1. PlaceTyped /\ body = [t \in DOMAIN body |-> body[t]]
  BY DEF StructInv, Typed, SizesInv, TypesMade
<1>2. ASSUME UNCHANGED <<prog, pass, at, structDefinitions, body, layouts, zeroed>>, wasError => wasError'
      PROVE  SizesInv'
  <2>1. \A d : Passed(d, PrototypePass)' <=> Passed(d, PrototypePass)
    BY <1>2 DEF Passed
  <2> QED
    BY <2>1, <1>1, <1>2, SizesSame
<1>3. ASSUME Moves, UNCHANGED <<structDefinitions, body, layouts, zeroed>>, wasError => wasError',
             ~wasError' => pass # PrototypePass \/ ~IsStruct(at)
      PROVE  SizesInv'
  <2>1. \A d \in 1 .. Len(prog) : Passed(d, PrototypePass)' =>
          Passed(d, PrototypePass) \/ (pass = PrototypePass /\ d = at)
    BY <1>1, <1>3, PassedMoves
  <2>2. UNCHANGED <<prog, pass>>
    BY <1>3 DEF Moves
  <2> QED
    BY <2>1, <2>2, <1>1, <1>3, SizesSame
<1>4. CASE RedefineStruct \/ UntypedField
  <2>1. /\ AtStruct /\ NextDeclaration /\ wasError'
        /\ UNCHANGED <<structDefinitions, body, layouts, zeroed>>
    BY <1>4 DEF RedefineStruct, UntypedField
  <2>2. Moves
    BY <2>1, AtStructIs DEF Moves, NextDeclaration
  <2> QED
    BY <2>1, <2>2, <1>3
<1>5. CASE UnknownFieldType \/ EnterStruct \/ UnknownParameterType \/ FailInBody
           \/ UnknownTypeInstance \/ WriteModule
  BY <1>5, <1>2 DEF UnknownFieldType, EnterStruct, UnknownParameterType, FailInBody,
                    UnknownTypeInstance, WriteModule
<1>6. CASE DeclareStruct
  BY <1>6, DeclareStructSizes
<1>7. CASE LeaveStruct
  <2>1. /\ InBody /\ at' = at + 1 /\ inStruct' = FALSE
        /\ UNCHANGED <<prog, pass, structDefinitions, layouts, zeroed, wasError>>
    BY <1>7 DEF LeaveStruct
  <2>2. Moves /\ pass = BodyPass
    BY <2>1 DEF InBody, Moves
  <2>3. \A d \in 1 .. Len(prog) : Passed(d, PrototypePass)' => Passed(d, PrototypePass)
    BY <2>2, <1>1, PassedMoves, PassesDiffer
  <2>4. DOMAIN body' = DOMAIN body /\ body' = [t \in DOMAIN body' |-> body'[t]]
    BY <1>1, <1>7 DEF LeaveStruct
  <2>5. InOrder /\ ~wasError' => body' = body
    BY <2>1, <1>7, BodyStays
  <2> QED
    BY <2>1, <2>3, <2>4, <2>5, SizesSame
<1>8. CASE GenerateTypeInstance
  BY <1>8, TypeInstanceSizes
<1>9. CASE SkipInTypePass \/ GeneratePrototype
  <2>1. /\ AtFunction /\ NextDeclaration
        /\ UNCHANGED <<structDefinitions, body, layouts, zeroed, wasError>>
    BY <1>9 DEF SkipInTypePass, GeneratePrototype
  <2>2. Moves /\ ~IsStruct(at)
    BY <2>1, AtFunctionIs DEF Moves, NextDeclaration
  <2> QED
    BY <2>1, <2>2, <1>3
<1>10. CASE EndFunction
  <2>1. /\ InBody /\ at' = at + 1 /\ ~inStruct
        /\ UNCHANGED <<prog, pass, inStruct, structDefinitions, body, layouts, zeroed, wasError>>
    BY <1>10 DEF EndFunction
  <2>2. Moves /\ pass = BodyPass
    BY <2>1 DEF InBody, Moves
  <2> QED
    BY <2>1, <2>2, <1>3, PassesDiffer
<1>11. CASE NextPass
  <2>1. /\ at = Len(prog) + 1 /\ pass # BodyPass /\ pass' = pass + 1 /\ at' = 1
        /\ UNCHANGED <<prog, structDefinitions, body, layouts, zeroed, wasError>>
    BY <1>11 DEF NextPass
  <2>2. \A d \in 1 .. Len(prog) : Passed(d, PrototypePass)' => Passed(d, PrototypePass)
    BY <2>1, <1>1, PassesDiffer DEF Passed, PlaceTyped
  <2>3. pass # TypePass => pass' # TypePass
    BY <2>1, <1>1, PassesDiffer DEF PlaceTyped
  <2> QED
    BY <2>1, <2>2, <2>3, <1>1, SizesSame
<1>12. CASE UNCHANGED vars
  BY <1>12, <1>2 DEF vars
<1>13. CASE GenerateNode
  <2>1. UNCHANGED <<prog, pass, at, structDefinitions, body, layouts, zeroed>>
    BY <1>13 DEF GenerateNode, GenerateConstant, GenerateVariable, UnknownVariableType, UnknownPointee,
              NothingRetrieved, GenerateMemberAccess, GenerateMember, NoSuchMember,
              GenerateAccessOperation, InvalidAccess, EndStatement, Advance, End, Fail
  <2>2. wasError' = wasError \/ wasError'
    BY <1>13 DEF GenerateNode, GenerateConstant, GenerateVariable, UnknownVariableType, UnknownPointee,
              NothingRetrieved, GenerateMemberAccess, GenerateMember, NoSuchMember,
              GenerateAccessOperation, InvalidAccess, EndStatement, Advance, End, Fail
  <2> QED
    BY <2>1, <2>2, <1>2
<1> QED
  BY <1>4, <1>5, <1>6, <1>7, <1>8, <1>9, <1>10, <1>11, <1>12, <1>13
  DEF AccessNext, Next, Finished, allVars

\* However many structs there are and however deep they hold one another, in a program that
\* declares each after those that it holds #new zeroes the memory that it allocates: the
\* sizes that LLVM computes, and keeps, while bodies are still to be set are the last ones.
THEOREM InOrderZeroed == AccessSpec => []InOrderAllZeroed
<1> DEFINE J == IInv /\ HoldsInv /\ SizesInv
<1>1. AccessInit => J
  <2> SUFFICES ASSUME AccessInit PROVE J
    OBVIOUS
  <2>1. IInv /\ HoldsInv
    BY AccessInitInv, HoldsInit
  <2>2. Init /\ PlaceTyped
    BY <2>1 DEF AccessInit, IInv, StructInv, Typed
  <2>3. \A d \in 1 .. Len(prog) : ~Passed(d, PrototypePass)
    BY <2>2, PassesDiffer DEF Passed, Init, PlaceTyped
  <2>4. DOMAIN body = {} /\ DOMAIN structDefinitions = {} /\ DOMAIN layouts = {} /\ zeroed = {}
        /\ layouts = <<>>
    BY <2>2 DEF Init
  <2>5. body = [t \in DOMAIN body |-> body[t]]
    <3>1. body \in Seq({})
      BY <2>2, EmptySeq DEF Init
    <3> QED
      BY <3>1
  <2>6. TypesMade /\ BodiesReady /\ LayoutsExact
    BY <2>3, <2>4, <2>5 DEF TypesMade, BodiesReady, LayoutsExact
  <2> QED
    BY <2>1, <2>6 DEF SizesInv
<1>2. J /\ [AccessNext]_allVars => J'
  <2> SUFFICES ASSUME J, [AccessNext]_allVars PROVE J'
    OBVIOUS
  <2> QED
    BY AccessNextInv, HoldsNext, SizesNext DEF IInv
<1>3. J => InOrderAllZeroed
  <2> SUFFICES ASSUME J, InOrder, ~wasError, NEW z \in zeroed PROVE z.size = Size(z.type, <<>>)
    BY DEF InOrderAllZeroed, AllZeroed
  <2>1. z.type \in DOMAIN layouts
    BY DEF IInv, StructInv, Typed, LayoutsTyped
  <2> QED
    BY <2>1 DEF SizesInv, LayoutsExact
<1> HIDE DEF J
<1> QED
  BY <1>1, <1>2, <1>3, PTL DEF AccessSpec

=============================================================================
