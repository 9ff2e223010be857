------------------------- MODULE CallEmissionProofs -------------------------
(***************************************************************************)
(* Theorems about CallEmission for every set of registries and bodies:     *)
(*                                                                         *)
(*   CallEmissionTypeOK          generators and values keep their types    *)
(*   CallEmissionUsesCoverCalls  every call emitted has been counted       *)
(*   CallEmissionPipesAreNested  the stack of piped values is in step      *)
(*                               with the pipes that are open              *)
(*   CallEmissionLastValuesArePassed                                       *)
(*                               a call passes the values its arguments    *)
(*                               were generated to last                    *)
(*   CallEmissionEmittedPerGeneration                                      *)
(*                               a call is emitted as often as what it is  *)
(*                               an argument of is generated, twice        *)
(*   CallEmissionBoundOnce       a call is bound to one function, as long  *)
(*                               as no variable below it has become a      *)
(*                               reference                                 *)
(*   CallEmissionExitHasCause    the compiler exits only for one of the    *)
(*                               causes that the body or the registry has  *)
(*                                                                         *)
(* TypeOK is inductive once it is known that a generator that waits for an *)
(* operand is not done (Waits) and that the body is not (Busy).  A step    *)
(* pushes a generator, pops one or changes the top one (Pushed, Popped,    *)
(* Changed): the lemmas about these are what the first three proofs are    *)
(* made of.  The next two follow the walk over the trees instead: what a   *)
(* step is for it (Moves), what the values are that generators hold        *)
(* (ValuesLive), and how often a node has been generated (CountInv).  For  *)
(* BoundOnce the trees are given types, which the values of settled nodes  *)
(* have (BindInv).  For the last also those have them that are below no    *)
(* call and no reference (PlainAlready), a method generated once is looked *)
(* up by its own name (QualifiedInv), and an error, or a global left set,  *)
(* has a cause (CauseInv).                                                 *)
(***************************************************************************)
EXTENDS CallEmission, TLAPS, FiniteSetTheorems, SequenceTheorems, WellFoundedInduction

Waits ==
  \A k \in 1 .. Len(stack) :
    k < Len(stack) \/ returned # Waiting => stack[k].i < Len(Nodes[stack[k].node].args)

\* While a statement is generated it is one of the body.
Busy ==
  stack # <<>> \/ returned # Waiting => stmt <= Len(program.body)

TypeInv ==
  /\ TypeOK
  /\ Waits
  /\ Busy
  /\ functionIDs \in Registries
  /\ program \in Programs

Pushed(n) ==
  /\ stack' = Append(stack, Frame(n))
  /\ returned' = returned

Popped(v) ==
  /\ stack' = SubSeq(stack, 1, Len(stack) - 1)
  /\ returned' = v

Changed(frame) ==
  /\ stack' = [stack EXCEPT ![Len(stack)] = frame]
  /\ returned' = Waiting

-----------------------------------------------------------------------------
(***************************************************************************)
(* Values, nodes, lookups                                                  *)
(***************************************************************************)
LEMMA TypesAreNumbers == InferredTypes \cup {Void} \subseteq Nat
BY DEF InferredTypes, Void, Identifier_Node, SInt128_Type, SInt64_Type, SInt32_Type, SInt16_Type,
       SInt8_Type, Boolean_Node, Double_Type, Float_Node, Half_Type

LEMMA ValueType ==
  ASSUME NEW node \in Nat, NEW at \in Nat, NEW type \in Nat
  PROVE  Value(node, at, type) \in LLVMValue
BY DEF Value, LLVMValue

LEMMA NullType == Null \in LLVMValue /\ Waiting \notin LLVMValue
BY DEF Null, Void, Waiting, Value, LLVMValue

LEMMA FirstOfRange ==
  ASSUME NEW n \in Nat, NEW S \in SUBSET (1 .. n)
  PROVE  FirstOf(S) \in 0 .. n
<1>1. CASE \E i \in S : \A j \in S : i <= j
  <2>1. FirstOf(S) \in S
    BY <1>1 DEF FirstOf
  <2>2. FirstOf(S) \in 1 .. n
    BY <2>1
  <2> QED
    BY <2>2
<1>2. CASE ~ \E i \in S : \A j \in S : i <= j
  <2>1. FirstOf(S) = 0
    BY <1>2 DEF FirstOf
  <2> QED
    BY <2>1
<1> QED
  BY <1>1, <1>2

\* What a lookup returns is a place in the registry, or 0.
LEMMA LookupRange ==
  ASSUME NEW fs, Len(fs) \in Nat, NEW name, NEW types, NEW inferred, NEW isMember
  PROVE  /\ GetFunctionFromID(fs, name, types, inferred, isMember) \in 0 .. Len(fs)
         /\ GetNamedFunctionFromID(fs, name) \in 0 .. Len(fs)
<1> DEFINE score == [i \in 1 .. Len(fs) |-> CompareMatch(fs[i], name, types, inferred)]
           S == Lowest(score, Candidates(fs, score, isMember))
           best == FirstOf(S)
           T == {i \in 1 .. Len(fs) : fs[i].name = name}
<1>1. S \in SUBSET (1 .. Len(fs))
  <2> HIDE DEF score
  <2> QED
    BY DEF Lowest, Candidates
<1>2. best \in 0 .. Len(fs)
  <2> HIDE DEF S
  <2> QED
    BY <1>1, FirstOfRange
<1>3. GetFunctionFromID(fs, name, types, inferred, isMember)
        = IF best # 0 /\ score[best] # NeedsExact THEN best ELSE 0
  BY DEF GetFunctionFromID
<1>4. GetFunctionFromID(fs, name, types, inferred, isMember) \in 0 .. Len(fs)
  <2> HIDE DEF best, score
  <2> QED
    BY <1>2, <1>3
<1>5. GetNamedFunctionFromID(fs, name) \in 0 .. Len(fs)
  <2>1. T \in SUBSET (1 .. Len(fs))
    OBVIOUS
  <2>2. GetNamedFunctionFromID(fs, name) = FirstOf(T)
    BY DEF GetNamedFunctionFromID
  <2> HIDE DEF T
  <2> QED
    BY <2>1, <2>2, FirstOfRange
<1> QED
  BY <1>4, <1>5

\* The beginning of a sequence, and a sequence without its last element.
LEMMA Beginning ==
  ASSUME NEW S, NEW s \in Seq(S), NEW n \in Nat, n <= Len(s)
  PROVE  /\ SubSeq(s, 1, n) \in Seq(S)
         /\ Len(SubSeq(s, 1, n)) = n
         /\ \A k \in 1 .. n : SubSeq(s, 1, n)[k] = s[k]
<1> DEFINE t == SubSeq(s, 1, n)
<1>1. \A k \in 1 .. n : s[k] \in S
  OBVIOUS
<1>2. 1 \in Int /\ n \in Int
  OBVIOUS
<1>3. /\ t \in Seq(S)
      /\ Len(t) = IF 1 <= n THEN n - 1 + 1 ELSE 0
      /\ \A k \in 1 .. n - 1 + 1 : t[k] = s[1 + k - 1]
  BY <1>1, <1>2, SubSeqProperties
<1> HIDE DEF t
<1>4. Len(t) = n
  BY <1>3
<1>5. ASSUME NEW k \in 1 .. n PROVE t[k] = s[k]
  <2>1. k \in 1 .. n - 1 + 1 /\ 1 + k - 1 = k
    OBVIOUS
  <2> QED
    BY <1>3, <2>1
<1> QED
  BY <1>3, <1>4, <1>5 DEF t

LEMMA Shorter ==
  ASSUME NEW S, NEW s \in Seq(S), Len(s) > 0
  PROVE  /\ SubSeq(s, 1, Len(s) - 1) \in Seq(S)
         /\ Len(SubSeq(s, 1, Len(s) - 1)) = Len(s) - 1
         /\ \A k \in 1 .. Len(s) - 1 : SubSeq(s, 1, Len(s) - 1)[k] = s[k]
<1>1. Len(s) - 1 \in Nat /\ Len(s) - 1 <= Len(s)
  OBVIOUS
<1> QED
  BY <1>1, Beginning

\* The program as the assumption gives it.
LEMMA ProgramFacts ==
  ASSUME program \in Programs
  PROVE  /\ Nodes \in Seq(ASTNode)
         /\ program.body \in Seq(Nat)
         /\ DOMAIN Nodes = 1 .. Len(Nodes)
         /\ \A k \in 1 .. Len(program.body) : program.body[k] \in DOMAIN Nodes
         /\ \A n \in DOMAIN Nodes :
              /\ Nodes[n] \in ASTNode
              /\ Nodes[n].args \in Seq(Nat)
              /\ Len(Nodes[n].args) \in Nat
              /\ \A k \in 1 .. Len(Nodes[n].args) : Nodes[n].args[k] \in DOMAIN Nodes
              /\ Nodes[n].kind \in {"operator", "pipe"} => Len(Nodes[n].args) = 2
<1>1. /\ program \in [nodes : Seq(ASTNode), body : Seq(Nat)]
      /\ ToSet(program.body) \subseteq DOMAIN program.nodes
      /\ \A n \in DOMAIN program.nodes :
           /\ ToSet(program.nodes[n].args) \subseteq DOMAIN program.nodes
           /\ program.nodes[n].kind \in {"operator", "pipe"} => Len(program.nodes[n].args) = 2
  BY ProgramsAssumption
<1>2. Nodes \in Seq(ASTNode) /\ program.body \in Seq(Nat) /\ DOMAIN Nodes = 1 .. Len(Nodes)
  BY <1>1 DEF Nodes
<1>3. \A k \in 1 .. Len(program.body) : program.body[k] \in DOMAIN Nodes
  BY <1>1, <1>2 DEF Nodes, ToSet
<1>4. ASSUME NEW n \in DOMAIN Nodes
      PROVE  /\ Nodes[n] \in ASTNode
             /\ Nodes[n].args \in Seq(Nat)
             /\ Len(Nodes[n].args) \in Nat
             /\ \A k \in 1 .. Len(Nodes[n].args) : Nodes[n].args[k] \in DOMAIN Nodes
             /\ Nodes[n].kind \in {"operator", "pipe"} => Len(Nodes[n].args) = 2
  <2>1. Nodes[n] \in ASTNode
    BY <1>2
  <2>2. Nodes[n].args \in Seq(Nat) /\ Len(Nodes[n].args) \in Nat
    BY <2>1 DEF ASTNode
  <2>3. ToSet(Nodes[n].args) \subseteq DOMAIN Nodes
    BY <1>1 DEF Nodes
  <2>4. \A k \in 1 .. Len(Nodes[n].args) : Nodes[n].args[k] \in DOMAIN Nodes
    BY <2>2, <2>3 DEF ToSet
  <2>5. Nodes[n].kind \in {"operator", "pipe"} => Len(Nodes[n].args) = 2
    BY <1>1 DEF Nodes
  <2> QED
    BY <2>1, <2>2, <2>4, <2>5
<1> QED
  BY <1>2, <1>3, <1>4

-----------------------------------------------------------------------------
(***************************************************************************)
(* The stack of generators                                                 *)
(***************************************************************************)
StackInv ==
  /\ stack \in Seq(CallFrame)
  /\ \A k \in 1 .. Len(stack) : FrameOK(stack[k])
  /\ returned \in LLVMValue \cup {Waiting}
  /\ Waits

RestInv ==
  /\ functionIDs \in Seq(FunctionID)
  /\ program \in [nodes : Seq(ASTNode), body : Seq(Nat)]
  /\ stmt \in 1 .. Len(program.body) + 1
  /\ tokens \in [DOMAIN program.nodes -> Seq(STRING)]
  /\ isRef \subseteq DOMAIN program.nodes
  /\ isCallMemberFunction \in BOOLEAN
  /\ pipeOperationValue \in Seq(LLVMValue)
  /\ uses \in [1 .. Len(functionIDs) -> Nat]
  /\ code \in Seq([node : DOMAIN program.nodes, callee : 1 .. Len(functionIDs),
                   args : Seq(LLVMValue)])
  /\ wasError \in BOOLEAN
  /\ status \in {"generating", "exited", "undefined", "done"}
  /\ lost \in BOOLEAN
  /\ functionIDs \in Registries
  /\ program \in Programs

LEMMA Parts == TypeInv <=> StackInv /\ RestInv /\ Busy
BY DEF TypeInv, TypeOK, StackInv, RestInv

LEMMA SizeFacts == RestInv => Len(functionIDs) \in Nat /\ Len(code) \in Nat /\ Len(program.body) \in Nat
BY DEF RestInv

\* The generator on top and its node.
LEMMA TopFacts ==
  ASSUME StackInv, RestInv, stack # <<>>
  PROVE  /\ Len(stack) \in Nat \ {0}
         /\ Top \in CallFrame /\ FrameOK(Top)
         /\ Top.node \in DOMAIN Nodes /\ Top.node \in Nat
         /\ Node \in ASTNode
         /\ Len(Node.args) \in Nat
         /\ Top.i \in 0 .. Len(Node.args)
         /\ Top.values \in Seq(LLVMValue)
         /\ Len(Top.values) \in Nat
         /\ Top.callee \in 0 .. Len(functionIDs)
         /\ ~Complete => NextArg \in DOMAIN Nodes /\ Top.i < Len(Node.args)
         /\ returned # Waiting => Top.i < Len(Node.args)
<1>1. Len(stack) \in Nat \ {0}
  BY DEF StackInv
<1>2. Top \in CallFrame /\ FrameOK(Top)
  BY <1>1 DEF StackInv, Top
<1>3. program \in Programs
  BY DEF RestInv
<1>4. Top.node \in DOMAIN Nodes
  BY <1>2 DEF CallFrame, Nodes
<1>5. Top.node \in Nat
  BY <1>3, <1>4, ProgramFacts
<1>6. Node \in ASTNode /\ Len(Node.args) \in Nat
  BY <1>3, <1>4, ProgramFacts DEF Node
<1>7. Top.i \in Nat /\ Top.values \in Seq(LLVMValue) /\ Top.callee \in 0 .. Len(functionIDs)
  BY <1>2 DEF CallFrame
<1>8. Top.i \in 0 .. Len(Node.args)
  BY <1>2, <1>6, <1>7 DEF FrameOK, Node
<1>9. ASSUME ~Complete PROVE NextArg \in DOMAIN Nodes /\ Top.i < Len(Node.args)
  <2>1. Top.i < Len(Node.args)
    BY <1>6, <1>8, <1>9 DEF Complete
  <2>2. Top.i + 1 \in 1 .. Len(Node.args)
    BY <1>6, <1>8, <2>1
  <2>3. \A k \in 1 .. Len(Node.args) : Node.args[k] \in DOMAIN Nodes
    BY <1>3, <1>4, ProgramFacts DEF Node
  <2> QED
    BY <2>1, <2>2, <2>3 DEF NextArg
<1>10. returned # Waiting => Top.i < Len(Node.args)
  BY <1>1 DEF StackInv, Waits, Top, Node
<1> QED
  BY <1>1, <1>2, <1>4, <1>5, <1>6, <1>7, <1>8, <1>9, <1>10

LEMMA Pushes ==
  ASSUME StackInv, RestInv, NEW n \in DOMAIN Nodes, Pushed(n), returned = Waiting,
         UNCHANGED Input, stack # <<>> => Top.i < Len(Node.args)
  PROVE  StackInv'
<1>1. functionIDs' = functionIDs /\ program' = program
  BY DEF Input
<1>2. program \in Programs
  BY DEF RestInv
<1>3. Len(Nodes[n].args) \in Nat
  BY <1>2, ProgramFacts
<1>4. Frame(n) \in CallFrame
  <2>1. Len(functionIDs) \in Nat /\ isCallMemberFunction \in BOOLEAN
    BY DEF RestInv
  <2>2. 0 \in 0 .. Len(functionIDs) /\ <<>> \in Seq(LLVMValue) /\ n \in DOMAIN program.nodes
    BY <2>1 DEF Nodes
  <2>3. (Nodes[n].kind = "call" /\ isCallMemberFunction) \in BOOLEAN
    OBVIOUS
  <2> QED
    BY <2>2, <2>3 DEF Frame, CallFrame
<1>5. FrameOK(Frame(n))
  BY <1>3 DEF FrameOK, Frame
<1>6. /\ stack \in Seq(CallFrame)
      /\ \A k \in 1 .. Len(stack) : FrameOK(stack[k])
  BY DEF StackInv
<1>7. /\ stack' \in Seq(CallFrame)
      /\ Len(stack') = Len(stack) + 1
      /\ \A k \in 1 .. Len(stack) : stack'[k] = stack[k]
      /\ stack'[Len(stack) + 1] = Frame(n)
      /\ Len(stack) \in Nat
  BY <1>4, <1>6 DEF Pushed
<1>8. \A k \in 1 .. Len(stack') : FrameOK(stack'[k])
  BY <1>5, <1>6, <1>7
<1>9. ASSUME NEW k \in 1 .. Len(stack), k < Len(stack) + 1
      PROVE  stack'[k].i < Len(Nodes[stack'[k].node].args)
  <2>1. CASE k < Len(stack)
    BY <1>7, <2>1 DEF StackInv, Waits
  <2>2. CASE k = Len(stack)
    BY <1>7, <2>2 DEF Top, Node
  <2> QED
    BY <1>7, <2>1, <2>2
<1>10. \A k \in 1 .. Len(stack') :
         k < Len(stack') \/ returned' # Waiting
           => stack'[k].i < Len(Nodes[stack'[k].node].args)
  BY <1>7, <1>9 DEF Pushed
<1>11. returned' \in LLVMValue \cup {Waiting}
  BY DEF Pushed
<1> QED
  BY <1>1, <1>7, <1>8, <1>10, <1>11 DEF StackInv, Waits, CallFrame, FrameOK, Nodes

LEMMA Pops ==
  ASSUME StackInv, RestInv, stack # <<>>, NEW v \in LLVMValue, Popped(v), UNCHANGED Input
  PROVE  StackInv'
<1>1. functionIDs' = functionIDs /\ program' = program
  BY DEF Input
<1>2. /\ stack \in Seq(CallFrame)
      /\ \A k \in 1 .. Len(stack) : FrameOK(stack[k])
      /\ \A k \in 1 .. Len(stack) :
           k < Len(stack) => stack[k].i < Len(Nodes[stack[k].node].args)
  BY DEF StackInv, Waits
<1>3. Len(stack) \in Nat /\ Len(stack) > 0
  BY <1>2
<1>4. /\ stack' \in Seq(CallFrame)
      /\ Len(stack') = Len(stack) - 1
      /\ \A k \in 1 .. Len(stack) - 1 : stack'[k] = stack[k]
  BY <1>2, <1>3, Shorter DEF Popped
<1>5. \A k \in 1 .. Len(stack') : FrameOK(stack'[k])
  BY <1>2, <1>3, <1>4
<1>6. \A k \in 1 .. Len(stack') : stack'[k].i < Len(Nodes[stack'[k].node].args)
  BY <1>2, <1>3, <1>4
<1>7. returned' \in LLVMValue \cup {Waiting}
  BY DEF Popped
<1> QED
  BY <1>1, <1>4, <1>5, <1>6, <1>7 DEF StackInv, Waits, CallFrame, FrameOK, Nodes

LEMMA Changes ==
  ASSUME StackInv, RestInv, stack # <<>>, NEW t \in CallFrame, FrameOK(t), Changed(t),
         UNCHANGED Input
  PROVE  StackInv'
<1>1. functionIDs' = functionIDs /\ program' = program
  BY DEF Input
<1>2. /\ stack \in Seq(CallFrame)
      /\ \A k \in 1 .. Len(stack) : FrameOK(stack[k])
      /\ \A k \in 1 .. Len(stack) :
           k < Len(stack) => stack[k].i < Len(Nodes[stack[k].node].args)
  BY DEF StackInv, Waits
<1>3. Len(stack) \in Nat /\ Len(stack) > 0
  BY <1>2
<1>4. /\ stack' \in Seq(CallFrame)
      /\ Len(stack') = Len(stack)
      /\ \A k \in 1 .. Len(stack) : stack'[k] = IF k = Len(stack) THEN t ELSE stack[k]
  BY <1>2, <1>3 DEF Changed
<1>5. \A k \in 1 .. Len(stack') : FrameOK(stack'[k])
  BY <1>2, <1>3, <1>4
<1>6. \A k \in 1 .. Len(stack') :
        k < Len(stack') => stack'[k].i < Len(Nodes[stack'[k].node].args)
  BY <1>2, <1>3, <1>4
<1>7. returned' = Waiting
  BY DEF Changed
<1> QED
  BY <1>1, <1>4, <1>5, <1>6, <1>7 DEF StackInv, Waits, CallFrame, FrameOK, Nodes

LEMMA Stays ==
  ASSUME StackInv, UNCHANGED <<stack, returned>>, UNCHANGED Input
  PROVE  StackInv'
BY DEF StackInv, Waits, CallFrame, FrameOK, Nodes, Input

-----------------------------------------------------------------------------
(***************************************************************************)
(* TypeOK                                                                  *)
(***************************************************************************)
LEMMA Lookups ==
  ASSUME RestInv
  PROVE  Callee \in 0 .. Len(functionIDs) /\ Overload \in 0 .. Len(functionIDs)
<1>1. Len(functionIDs) \in Nat
  BY SizeFacts
<1> QED
  BY <1>1, LookupRange DEF Callee, Overload

LEMMA Initially == Init => TypeInv
<1> SUFFICES ASSUME Init PROVE StackInv /\ RestInv /\ Busy
  BY Parts
<1>1. /\ program \in [nodes : Seq(ASTNode), body : Seq(Nat)]
      /\ functionIDs \in Seq(FunctionID)
  BY ProgramsAssumption, RegistriesAssumption DEF Init
<1>2. StackInv
  BY DEF Init, StackInv, Waits
<1>3. stmt \in 1 .. Len(program.body) + 1
  <2>1. Len(program.body) \in Nat
    BY <1>1
  <2> QED
    BY <2>1 DEF Init
<1>4. tokens \in [DOMAIN program.nodes -> Seq(STRING)]
  <2>1. program.nodes \in Seq(ASTNode)
    BY <1>1
  <2>2. \A n \in DOMAIN program.nodes : program.nodes[n] \in ASTNode
    BY <2>1
  <2>3. \A n \in DOMAIN program.nodes : program.nodes[n].name \in Seq(STRING)
    BY <2>2 DEF ASTNode
  <2> QED
    BY <2>3 DEF Init
<1>5. uses \in [1 .. Len(functionIDs) -> Nat]
  <2>1. DOMAIN functionIDs = 1 .. Len(functionIDs)
    BY <1>1
  <2> QED
    BY <2>1 DEF Init
<1>6. /\ isRef \subseteq DOMAIN program.nodes
      /\ isCallMemberFunction \in BOOLEAN
      /\ pipeOperationValue \in Seq(LLVMValue)
      /\ code \in Seq([node : DOMAIN program.nodes, callee : 1 .. Len(functionIDs),
                       args : Seq(LLVMValue)])
      /\ wasError \in BOOLEAN
      /\ status \in {"generating", "exited", "undefined", "done"}
      /\ lost \in BOOLEAN
  <2> DEFINE T == [node : DOMAIN program.nodes, callee : 1 .. Len(functionIDs),
                   args : Seq(LLVMValue)]
  <2>1. <<>> \in Seq(LLVMValue) /\ <<>> \in Seq(T) /\ {} \subseteq DOMAIN program.nodes
    <3> HIDE DEF T
    <3> QED
      OBVIOUS
  <2> QED
    BY <2>1 DEF Init
<1>7. functionIDs \in Registries /\ program \in Programs
  BY DEF Init
<1>8. Busy
  BY DEF Init, Busy
<1> QED
  BY <1>1, <1>2, <1>3, <1>4, <1>5, <1>6, <1>7, <1>8 DEF RestInv

\* Entering a node is a push, and renames the token of a method call.
LEMMA Entering ==
  ASSUME StackInv, RestInv, NEW n \in DOMAIN Nodes, Enter(n), returned = Waiting,
         UNCHANGED Input, stack # <<>> => Top.i < Len(Node.args)
  PROVE  /\ StackInv'
         /\ tokens' \in [DOMAIN program.nodes -> Seq(STRING)]
         /\ isCallMemberFunction' \in BOOLEAN
         /\ lost' \in BOOLEAN
<1>1. StackInv'
  BY Pushes DEF Enter, Pushed
<1>2. Nodes[n] \in ASTNode
  BY ProgramFacts DEF RestInv
<1>3. tokens \in [DOMAIN program.nodes -> Seq(STRING)] /\ n \in DOMAIN program.nodes
  BY DEF RestInv, Nodes
<1>4. tokens' \in [DOMAIN program.nodes -> Seq(STRING)]
  <2>1. <<Nodes[n].on>> \in Seq(STRING) /\ tokens[n] \in Seq(STRING)
    BY <1>2, <1>3 DEF ASTNode
  <2>2. <<Nodes[n].on>> \o tokens[n] \in Seq(STRING)
    BY <2>1, ConcatProperties
  <2> DEFINE name == <<Nodes[n].on>> \o tokens[n]
  <2>3. tokens' = [tokens EXCEPT ![n] = name] \/ tokens' = tokens
    BY DEF Enter
  <2>4. name \in Seq(STRING)
    BY <2>2
  <2> HIDE DEF name
  <2> QED
    BY <1>3, <2>3, <2>4
<1>5. isCallMemberFunction' \in BOOLEAN /\ lost' \in BOOLEAN
  BY DEF Enter, RestInv
<1> QED
  BY <1>1, <1>4, <1>5

LEMMA Returning ==
  ASSUME StackInv, RestInv, stack # <<>>, NEW v \in LLVMValue, Return(v), UNCHANGED Input
  PROVE  StackInv' /\ lost' \in BOOLEAN
<1>1. StackInv'
  BY Pops DEF Return, Popped
<1>2. lost' \in BOOLEAN
  BY DEF Return, RestInv
<1> QED
  BY <1>1, <1>2

\* The generator on top with one more value.
LEMMA ReceivedFields ==
  ASSUME StackInv, RestInv, stack # <<>>, returned # Waiting
  PROVE  /\ Received \in CallFrame
         /\ Received.node = Top.node /\ Received.round = Top.round
         /\ Received.callee = Top.callee
         /\ Received.i = Top.i + 1 /\ Received.values = Append(Top.values, returned)
<1>1. Top \in CallFrame /\ Top.i \in Nat /\ Top.values \in Seq(LLVMValue)
  BY TopFacts
<1>2. Append(Top.values, returned) \in Seq(LLVMValue)
  BY <1>1 DEF StackInv
<1> DEFINE f == [Top EXCEPT !.values = Append(@, returned)]
<1>3. /\ f \in CallFrame
      /\ f.node = Top.node /\ f.round = Top.round /\ f.callee = Top.callee
      /\ f.i = Top.i /\ f.values = Append(Top.values, returned)
  BY <1>1, <1>2 DEF CallFrame
<1>4. Received = [f EXCEPT !.i = @ + 1]
  BY DEF Received
<1> HIDE DEF f
<1> QED
  BY <1>1, <1>3, <1>4 DEF CallFrame

LEMMA Receiving ==
  ASSUME StackInv, RestInv, stack # <<>>, returned # Waiting, Receive, UNCHANGED Input,
         Node.kind # "dereference"
  PROVE  StackInv' /\ lost' \in BOOLEAN
<1>1. /\ FrameOK(Top) /\ Top.i < Len(Node.args)
      /\ Top.i \in Nat /\ Len(Node.args) \in Nat /\ Top.values \in Seq(LLVMValue)
  BY TopFacts
<1>2. Len(Append(Top.values, returned)) = Len(Top.values) + 1
  BY <1>1 DEF StackInv
<1>3. FrameOK(Received)
  BY <1>1, <1>2, ReceivedFields DEF FrameOK, Node
<1>4. Changed(Received)
  BY DEF Receive, Changed
<1>5. StackInv'
  BY <1>3, <1>4, ReceivedFields, Changes
<1> QED
  BY <1>5 DEF Receive, RestInv

LEMMA BusyStep ==
  ASSUME TypeInv, Next
  PROVE  Busy'
<1>1. Busy /\ stmt \in Nat /\ Len(program.body) \in Nat
  BY Parts, SizeFacts DEF RestInv
<1>2. program' = program
  BY DEF Next, Statement, EndStatement, EndBody, ExitOnError, Leaf, Operand, TypeOfNull,
         ArgumentLost, ArgumentValue, UndefinedFunction, IncorrectNumber, FoundFunction,
         NotAReference, ArgumentAgain, CreateCall, PipeLeft, PipeRight, OperandValue, Operation,
         Dereference, Finished, Input, vars
<1>3. CASE Statement
  BY <1>2, <1>3 DEF Statement, Busy
<1>4. CASE EndStatement
  BY <1>2, <1>4 DEF EndStatement, Busy
<1>5. ASSUME stmt' = stmt, stack # <<>> \/ returned # Waiting PROVE Busy'
  BY <1>1, <1>2, <1>5 DEF Busy
<1>6. ASSUME UNCHANGED <<stmt, stack, returned>> PROVE Busy'
  BY <1>1, <1>2, <1>6 DEF Busy
<1>7. CASE EndBody \/ ExitOnError \/ Finished
  BY <1>6, <1>7 DEF EndBody, ExitOnError, Exit, Finished, vars
<1>8. CASE Leaf \/ Operand \/ TypeOfNull \/ ArgumentLost \/ ArgumentValue
  BY <1>5, <1>8 DEF Leaf, Operand, TypeOfNull, ArgumentLost, ArgumentValue, At, Got, Generating
<1>9. CASE UndefinedFunction \/ IncorrectNumber \/ FoundFunction
  BY <1>5, <1>9 DEF UndefinedFunction, IncorrectNumber, FoundFunction, LookedUp, At, Generating
<1>10. CASE NotAReference \/ ArgumentAgain \/ CreateCall
  BY <1>5, <1>10 DEF NotAReference, ArgumentAgain, CreateCall, NotComplete, At, Generating
<1>11. CASE PipeLeft \/ PipeRight \/ OperandValue \/ Operation \/ Dereference
  BY <1>5, <1>11 DEF PipeLeft, PipeRight, OperandValue, Operation, Dereference, At, Got, Generating
<1> QED
  BY <1>3, <1>4, <1>7, <1>8, <1>9, <1>10, <1>11 DEF Next

\* Statements, and what ends them.
LEMMA StatementSteps ==
  ASSUME StackInv, RestInv, Busy, Statement \/ EndStatement \/ EndBody \/ ExitOnError
  PROVE  StackInv' /\ RestInv'
<1>1. Len(program.body) \in Nat /\ stmt \in 1 .. Len(program.body) + 1
  BY SizeFacts DEF RestInv
<1>2. CASE Statement
  <2>1. program.body[stmt] \in DOMAIN Nodes
    <3>1. stmt \in 1 .. Len(program.body)
      BY <1>1, <1>2 DEF Statement
    <3> QED
      BY <3>1, ProgramFacts DEF RestInv
  <2>2. /\ StackInv'
        /\ tokens' \in [DOMAIN program.nodes -> Seq(STRING)]
        /\ isCallMemberFunction' \in BOOLEAN
        /\ lost' \in BOOLEAN
    BY <1>2, <2>1, Entering DEF Statement
  <2> QED
    BY <1>2, <2>2 DEF Statement, RestInv, Input
<1>3. CASE EndStatement
  <2>1. stmt' \in 1 .. Len(program.body) + 1
    BY <1>1, <1>3 DEF EndStatement, Busy
  <2>2. StackInv'
    BY <1>3 DEF EndStatement, StackInv, Waits, CallFrame, FrameOK, Nodes, Input
  <2> QED
    BY <1>3, <2>1, <2>2 DEF EndStatement, RestInv, Input
<1>4. CASE EndBody
  BY <1>4, Stays DEF EndBody, RestInv, Input
<1>5. CASE ExitOnError
  BY <1>5, Stays DEF ExitOnError, Exit, RestInv, Input
<1> QED
  BY <1>2, <1>3, <1>4, <1>5

\* Operands that are not calls, and entering any operand.
LEMMA OperandSteps ==
  ASSUME StackInv, RestInv, Leaf \/ Operand
  PROVE  StackInv' /\ RestInv'
<1>1. stack # <<>>
  BY DEF Leaf, Operand, At, Generating
<1>2. CASE Leaf
  <2>1. PICK v : Return(v) /\ v \in LLVMValue
    <3> DEFINE type == IF Top.node \in isRef THEN Identifier_Node ELSE Node.type
    <3>1. Top.node \in Nat /\ Node.type \in Nat /\ type \in Nat
      <4>1. Node \in ASTNode /\ Top.node \in Nat
        BY <1>1, TopFacts
      <4>2. Node.type \in Nat /\ Identifier_Node \in Nat
        BY <4>1, TypesAreNumbers DEF ASTNode, Identifier_Node
      <4> QED
        BY <4>1, <4>2
    <3>2. CASE Node.kind = "constant"
      BY <1>2, <3>1, <3>2, ValueType DEF Leaf, VariableType
    <3>3. CASE Node.kind = "variable"
      BY <1>2, <3>1, <3>3, ValueType DEF Leaf, VariableType
    <3>4. CASE Node.kind = "placeholder"
      <4>1. Return(IF pipeOperationValue = <<>> THEN Null ELSE Last(pipeOperationValue))
        BY <1>2, <3>4 DEF Leaf, VariableType
      <4>2. pipeOperationValue # <<>> => Last(pipeOperationValue) \in LLVMValue
        BY DEF RestInv, Last
      <4> QED
        BY <4>1, <4>2, NullType
    <3> QED
      BY <1>2, <3>2, <3>3, <3>4 DEF Leaf, VariableType, At, Leaves
  <2>2. StackInv' /\ lost' \in BOOLEAN
    BY <1>1, <1>2, <2>1, Returning DEF Leaf
  <2> QED
    BY <1>2, <2>2 DEF Leaf, RestInv, Input
<1>3. CASE Operand
  <2>1. NextArg \in DOMAIN Nodes /\ Top.i < Len(Node.args)
    BY <1>1, <1>3, TopFacts DEF Operand
  <2>2. /\ StackInv'
        /\ tokens' \in [DOMAIN program.nodes -> Seq(STRING)]
        /\ isCallMemberFunction' \in BOOLEAN
        /\ lost' \in BOOLEAN
    BY <1>3, <2>1, Entering DEF Operand, At
  <2> QED
    BY <1>3, <2>2 DEF Operand, RestInv, Input
<1> QED
  BY <1>2, <1>3

\* The arguments of calls coming back.
LEMMA ArgumentSteps ==
  ASSUME StackInv, RestInv, TypeOfNull \/ ArgumentLost \/ ArgumentValue
  PROVE  StackInv' /\ RestInv'
<1>1. stack # <<>> /\ returned # Waiting /\ Node.kind # "dereference"
  BY DEF TypeOfNull, ArgumentLost, ArgumentValue, Got, Generating, Calls
<1>2. CASE TypeOfNull
  BY <1>2, Stays DEF TypeOfNull, RestInv, Input
<1>3. CASE ArgumentLost
  <2>1. StackInv' /\ lost' \in BOOLEAN
    BY <1>1, <1>3, NullType, Returning DEF ArgumentLost
  <2> QED
    BY <1>3, <2>1 DEF ArgumentLost, RestInv, Input
<1>4. CASE ArgumentValue
  <2>1. StackInv' /\ lost' \in BOOLEAN
    BY <1>1, <1>4, Receiving DEF ArgumentValue
  <2> QED
    BY <1>4, <2>1 DEF ArgumentValue, RestInv, Input
<1> QED
  BY <1>2, <1>3, <1>4

LEMMA Counted ==
  ASSUME RestInv, Callee # 0, CountUse
  PROVE  uses' \in [1 .. Len(functionIDs) -> Nat]
<1>1. Callee \in 1 .. Len(functionIDs)
  <2>1. Callee \in 0 .. Len(functionIDs) /\ Len(functionIDs) \in Nat
    BY Lookups, SizeFacts
  <2> QED
    BY <2>1
<1>2. uses \in [1 .. Len(functionIDs) -> Nat]
  BY DEF RestInv
<1>3. uses' = [uses EXCEPT ![Callee] = @ + 1]
  BY DEF CountUse
<1> QED
  BY <1>1, <1>2, <1>3

\* The generator of a call that begins again.
LEMMA AgainFields ==
  ASSUME StackInv, RestInv, stack # <<>>
  PROVE  /\ Again \in CallFrame
         /\ Again.node = Top.node
         /\ Again.callee = Callee /\ Again.round = 2 /\ Again.i = 0 /\ Again.values = <<>>
<1> DEFINE f1 == [Top EXCEPT !.callee = Callee]
           f2 == [f1 EXCEPT !.round = 2]
           f3 == [f2 EXCEPT !.i = 0]
           none == <<>>
           f4 == [f3 EXCEPT !.values = none]
<1>1. Top \in CallFrame /\ Callee \in 0 .. Len(functionIDs)
  BY TopFacts, Lookups
<1>2. f1 \in CallFrame /\ f1.node = Top.node /\ f1.callee = Callee
  BY <1>1 DEF CallFrame
<1>3. f2 \in CallFrame /\ f2.node = Top.node /\ f2.callee = Callee /\ f2.round = 2
  <2> HIDE DEF f1
  <2> QED
    BY <1>2 DEF CallFrame
<1>4. f3 \in CallFrame /\ f3.node = Top.node /\ f3.callee = Callee /\ f3.round = 2 /\ f3.i = 0
  <2> HIDE DEF f2
  <2> QED
    BY <1>3 DEF CallFrame
<1>5. /\ f4 \in CallFrame /\ f4.node = Top.node /\ f4.callee = Callee /\ f4.round = 2
      /\ f4.i = 0 /\ f4.values = none
  <2>1. none \in Seq(LLVMValue)
    OBVIOUS
  <2> HIDE DEF f3, none
  <2> QED
    BY <1>4, <2>1 DEF CallFrame
<1>6. Again = f4
  BY DEF Again
<1> QED
  BY <1>5, <1>6

LEMMA LookupSteps ==
  ASSUME StackInv, RestInv, UndefinedFunction \/ IncorrectNumber \/ FoundFunction
  PROVE  StackInv' /\ RestInv'
<1>1. stack # <<>> /\ Node.kind \in Calls
  BY DEF UndefinedFunction, IncorrectNumber, FoundFunction, LookedUp, At, Generating
<1>2. (isCallMemberFunction \/ Node.kind = "method") \in BOOLEAN
  BY DEF RestInv
<1>3. CASE UndefinedFunction
  <2>1. StackInv' /\ lost' \in BOOLEAN
    BY <1>1, <1>3, NullType, Returning DEF UndefinedFunction
  <2> QED
    BY <1>3, <2>1 DEF UndefinedFunction, RestInv, Input
<1>4. CASE IncorrectNumber
  <2>1. StackInv' /\ lost' \in BOOLEAN
    BY <1>1, <1>4, NullType, Returning DEF IncorrectNumber
  <2>2. uses' \in [1 .. Len(functionIDs) -> Nat]
    BY <1>4, Counted DEF IncorrectNumber
  <2> QED
    BY <1>2, <1>4, <2>1, <2>2 DEF IncorrectNumber, RestInv, Input
<1>5. CASE FoundFunction
  <2>1. uses' \in [1 .. Len(functionIDs) -> Nat]
    BY <1>5, Counted DEF FoundFunction
  <2>2. FrameOK(Again)
    <3>1. /\ Again.node = Top.node /\ Again.callee # 0 /\ Again.round = 2
          /\ Again.i = 0 /\ Again.values = <<>>
      BY <1>1, <1>5, AgainFields DEF FoundFunction
    <3>2. Len(Nodes[Top.node].args) \in Nat
      BY <1>1, TopFacts DEF Node
    <3> QED
      BY <3>1, <3>2 DEF FrameOK
  <2>3. Changed(Again)
    BY <1>5 DEF FoundFunction, LookedUp, At, Changed
  <2>4. UNCHANGED Input /\ Again \in CallFrame
    BY <1>1, <1>5, AgainFields DEF FoundFunction
  <2>5. StackInv'
    <3> HIDE DEF Changed, Again
    <3> QED
      BY <1>1, <2>2, <2>3, <2>4, Changes
  <2> QED
    BY <1>2, <1>5, <2>1, <2>5 DEF FoundFunction, RestInv, Input
<1> QED
  BY <1>3, <1>4, <1>5

LEMMA AgainSteps ==
  ASSUME StackInv, RestInv, NotAReference \/ ArgumentAgain
  PROVE  StackInv' /\ RestInv'
<1>1. stack # <<>> /\ returned = Waiting /\ ~Complete
  BY DEF NotAReference, ArgumentAgain, NotComplete, At, Generating
<1>2. CASE NotAReference
  <2>1. StackInv' /\ lost' \in BOOLEAN
    BY <1>1, <1>2, NullType, Returning DEF NotAReference
  <2> QED
    BY <1>2, <2>1 DEF NotAReference, RestInv, Input
<1>3. CASE ArgumentAgain
  <2>1. NextArg \in DOMAIN Nodes /\ Top.i < Len(Node.args)
    BY <1>1, TopFacts
  <2>2. /\ StackInv'
        /\ tokens' \in [DOMAIN program.nodes -> Seq(STRING)]
        /\ isCallMemberFunction' \in BOOLEAN
        /\ lost' \in BOOLEAN
    BY <1>1, <1>3, <2>1, Entering DEF ArgumentAgain
  <2>3. isRef' \subseteq DOMAIN program.nodes
    BY <1>3, <2>1 DEF ArgumentAgain, MarkReference, RestInv, Nodes
  <2> QED
    BY <1>3, <2>2, <2>3 DEF ArgumentAgain, RestInv, Input
<1> QED
  BY <1>2, <1>3

\* A call that is emitted, and its result.
LEMMA Emitting ==
  ASSUME StackInv, RestInv, stack # <<>>, NEW f \in 1 .. Len(functionIDs), EmitCall(f)
  PROVE  code' \in Seq([node : DOMAIN program.nodes, callee : 1 .. Len(functionIDs),
                        args : Seq(LLVMValue)])
<1> DEFINE call == [node |-> Top.node, callee |-> f, args |-> Top.values]
           T == [node : DOMAIN program.nodes, callee : 1 .. Len(functionIDs),
                 args : Seq(LLVMValue)]
<1>1. call \in T
  BY TopFacts DEF Nodes
<1>2. code \in Seq(T)
  BY DEF RestInv
<1>3. code' = Append(code, call)
  BY DEF EmitCall
<1> HIDE DEF call, T
<1>4. code' \in Seq(T)
  BY <1>1, <1>2, <1>3
<1> QED
  BY <1>4 DEF T

LEMMA ResultValue ==
  ASSUME StackInv, RestInv, stack # <<>>, NEW type \in Nat
  PROVE  Result(type) \in LLVMValue
<1>1. Top.node \in Nat /\ Len(code) + 1 \in Nat
  BY TopFacts, SizeFacts
<1> QED
  BY <1>1, NullType, ValueType DEF Result

LEMMA ReturnType ==
  ASSUME RestInv, NEW f \in 1 .. Len(functionIDs)
  PROVE  functionIDs[f].returns \in Nat /\ ResultType(functionIDs[f]) \in Nat
<1>1. functionIDs[f] \in FunctionID
  BY DEF RestInv
<1>2. functionIDs[f].returns \in Nat
  BY <1>1, TypesAreNumbers DEF FunctionID
<1>3. Identifier_Node \in Nat /\ Void \in Nat
  BY DEF Identifier_Node, Void
<1> QED
  BY <1>2, <1>3 DEF ResultType

LEMMA CreateCallStep ==
  ASSUME StackInv, RestInv, CreateCall
  PROVE  StackInv' /\ RestInv'
<1>1. stack # <<>> /\ Node.kind \in Calls /\ Top.round = 2
  BY DEF CreateCall, At, Generating
<1>2. Top.callee \in 1 .. Len(functionIDs)
  <2>1. Top.callee \in 0 .. Len(functionIDs) /\ FrameOK(Top) /\ Len(functionIDs) \in Nat
    BY <1>1, TopFacts, SizeFacts
  <2>2. Top.callee # 0
    BY <1>1, <2>1 DEF FrameOK, Node
  <2> QED
    BY <2>1, <2>2
<1>3. Result(ResultType(functionIDs[Top.callee])) \in LLVMValue
  BY <1>1, <1>2, ReturnType, ResultValue
<1>4. StackInv' /\ lost' \in BOOLEAN
  BY <1>1, <1>3, Returning DEF CreateCall
<1>5. code' \in Seq([node : DOMAIN program.nodes, callee : 1 .. Len(functionIDs),
                     args : Seq(LLVMValue)])
  BY <1>1, <1>2, Emitting DEF CreateCall
<1>6. isCallMemberFunction' \in BOOLEAN
  BY DEF CreateCall, CallMade, RestInv
<1> QED
  BY <1>4, <1>5, <1>6 DEF CreateCall, RestInv, Input

LEMMA PipeSteps ==
  ASSUME StackInv, RestInv, PipeLeft \/ PipeRight \/ OperandValue
  PROVE  StackInv' /\ RestInv'
<1>1. /\ stack # <<>> /\ returned # Waiting /\ returned \in LLVMValue
      /\ Node.kind # "dereference"
  BY DEF PipeLeft, PipeRight, OperandValue, Got, Generating, StackInv
<1>2. pipeOperationValue \in Seq(LLVMValue)
  BY DEF RestInv
<1>3. CASE PipeLeft
  <2>1. StackInv' /\ lost' \in BOOLEAN
    BY <1>1, <1>3, Receiving DEF PipeLeft
  <2>2. pipeOperationValue' \in Seq(LLVMValue)
    BY <1>1, <1>2, <1>3 DEF PipeLeft
  <2> QED
    BY <1>3, <2>1, <2>2 DEF PipeLeft, RestInv, Input
<1>4. CASE PipeRight
  <2>1. StackInv' /\ lost' \in BOOLEAN
    BY <1>1, <1>4, Returning DEF PipeRight
  <2>2. pipeOperationValue' \in Seq(LLVMValue)
    <3>1. CASE Len(pipeOperationValue) > 0
      BY <1>2, <1>4, <3>1, Shorter DEF PipeRight, PopPipe
    <3>2. CASE Len(pipeOperationValue) = 0
      <4>1. SubSeq(pipeOperationValue, 1, 0 - 1) = <<>>
        BY SubSeqEmpty
      <4> QED
        BY <1>4, <3>2, <4>1 DEF PipeRight, PopPipe
    <3> QED
      BY <1>2, <3>1, <3>2
  <2> QED
    BY <1>4, <2>1, <2>2 DEF PipeRight, RestInv, Input
<1>5. CASE OperandValue
  <2>1. StackInv' /\ lost' \in BOOLEAN
    BY <1>1, <1>5, Receiving DEF OperandValue
  <2> QED
    BY <1>5, <2>1 DEF OperandValue, RestInv, Input
<1> QED
  BY <1>3, <1>4, <1>5

\* The operands of an operator that has both.
LEMMA OperandValues ==
  ASSUME StackInv, RestInv, At({"operator"}), Complete
  PROVE  Top.values[1] \in LLVMValue /\ Top.values[2] \in LLVMValue
<1>1. stack # <<>> /\ Node.kind = "operator"
  BY DEF At, Generating
<1>2. /\ FrameOK(Top) /\ Top.values \in Seq(LLVMValue) /\ Top.node \in DOMAIN Nodes
  BY <1>1, TopFacts
<1>3. Len(Node.args) = 2
  BY <1>1, <1>2, ProgramFacts DEF RestInv, Node
<1>4. Len(Top.values) = 2
  BY <1>1, <1>2, <1>3 DEF FrameOK, Node, Complete
<1> QED
  BY <1>2, <1>4

LEMMA OperationStep ==
  ASSUME StackInv, RestInv, Operation
  PROVE  StackInv' /\ RestInv'
<1> DEFINE L == Top.values[1]
           R == Top.values[2]
<1>1. stack # <<>> /\ At({"operator"}) /\ Complete
  BY DEF Operation, At, Generating
<1>2. L \in LLVMValue /\ R \in LLVMValue
  BY <1>1, OperandValues
<1>3. Lower(L.type, R.type) \in Nat /\ Top.node \in Nat
  BY <1>1, <1>2, TopFacts DEF Lower, LLVMValue
<1>4. UNCHANGED Input /\ UNCHANGED <<stmt, tokens, isRef, isCallMemberFunction,
                                    pipeOperationValue, uses>>
  BY DEF Operation
<1>5. ASSUME StackInv', lost' \in BOOLEAN, wasError' \in BOOLEAN,
             status' \in {"generating", "exited", "undefined", "done"},
             code' \in Seq([node : DOMAIN program.nodes, callee : 1 .. Len(functionIDs),
                            args : Seq(LLVMValue)])
      PROVE  StackInv' /\ RestInv'
  BY <1>4, <1>5 DEF RestInv, Input
<1>6. CASE Null \in {L, R} /\ Return(Null) /\ UNCHANGED <<code, wasError, status>>
  <2>1. StackInv' /\ lost' \in BOOLEAN
    BY <1>1, <1>4, <1>6, NullType, Returning
  <2> QED
    BY <1>5, <1>6, <2>1 DEF RestInv
<1>7. CASE /\ Overload # 0
           /\ EmitCall(Overload)
           /\ Return(LET type == functionIDs[Overload].returns
                     IN  Result(IF type = Void THEN Identifier_Node ELSE type))
           /\ UNCHANGED <<wasError, status>>
  <2>1. Overload \in 1 .. Len(functionIDs)
    <3>1. Overload \in 0 .. Len(functionIDs) /\ Len(functionIDs) \in Nat
      BY Lookups, SizeFacts
    <3> QED
      BY <1>7, <3>1
  <2> DEFINE type == functionIDs[Overload].returns
             v == Result(IF type = Void THEN Identifier_Node ELSE type)
  <2>2. (IF type = Void THEN Identifier_Node ELSE type) \in Nat
    BY <2>1, ReturnType DEF Identifier_Node
  <2>3. v \in LLVMValue
    BY <1>1, <2>2, ResultValue
  <2>4. StackInv' /\ lost' \in BOOLEAN
    BY <1>1, <1>4, <1>7, <2>3, Returning
  <2>5. code' \in Seq([node : DOMAIN program.nodes, callee : 1 .. Len(functionIDs),
                       args : Seq(LLVMValue)])
    BY <1>1, <1>7, <2>1, Emitting
  <2> QED
    BY <1>5, <1>7, <2>4, <2>5 DEF RestInv
<1>8. CASE status' = "undefined" /\ UNCHANGED <<stack, returned, lost, code, wasError>>
  BY <1>4, <1>5, <1>8, Stays DEF RestInv
<1>9. CASE /\ Return(IF Computes(L.type, R.type)
                     THEN Value(Top.node, 0, Lower(L.type, R.type)) ELSE Null)
           /\ wasError' = (wasError \/ CastFails(L.type, R.type))
           /\ UNCHANGED <<code, status>>
  <2> DEFINE v == IF Computes(L.type, R.type)
                  THEN Value(Top.node, 0, Lower(L.type, R.type)) ELSE Null
  <2>1. v \in LLVMValue
    BY <1>3, NullType, ValueType
  <2>2. StackInv' /\ lost' \in BOOLEAN
    BY <1>1, <1>4, <1>9, <2>1, Returning
  <2>3. wasError' \in BOOLEAN
    BY <1>9 DEF RestInv, CastFails
  <2> QED
    BY <1>5, <1>9, <2>2, <2>3 DEF RestInv
<1> QED
  BY <1>6, <1>7, <1>8, <1>9 DEF Operation

LEMMA DereferenceStep ==
  ASSUME StackInv, RestInv, Dereference
  PROVE  StackInv' /\ RestInv'
<1>1. stack # <<>> /\ Node.kind = "dereference" /\ UNCHANGED Input
  BY DEF Dereference, Got, Generating
<1>2. /\ Top \in CallFrame /\ FrameOK(Top) /\ Top.node \in Nat
  BY <1>1, TopFacts
<1>3. ASSUME StackInv', lost' \in BOOLEAN, wasError' \in BOOLEAN PROVE StackInv' /\ RestInv'
  BY <1>3 DEF Dereference, RestInv, Input
<1>4. CASE Return(Null) /\ wasError' = (Top.round = 2)
  <2>1. StackInv' /\ lost' \in BOOLEAN
    BY <1>1, <1>4, NullType, Returning
  <2> QED
    BY <1>3, <1>4, <2>1
<1>5. CASE /\ stack' = [stack EXCEPT ![Len(stack)].round = 2]
           /\ returned' = Waiting
           /\ UNCHANGED <<wasError, lost>>
  <2> DEFINE t == [Top EXCEPT !.round = 2]
  <2>1. /\ t \in CallFrame /\ t.node = Top.node /\ t.i = Top.i /\ t.callee = Top.callee
    BY <1>2 DEF CallFrame
  <2>2. FrameOK(t)
    <3> HIDE DEF t
    <3> QED
      BY <1>1, <1>2, <2>1 DEF FrameOK, Node, Calls
  <2>3. Changed(t)
    BY <1>5 DEF Changed, Top
  <2>4. StackInv'
    <3> HIDE DEF t
    <3> QED
      BY <1>1, <2>1, <2>2, <2>3, Changes
  <2> QED
    BY <1>3, <1>5, <2>4 DEF RestInv
<1>6. CASE Return(Value(Top.node, 0, SInt32_Type)) /\ UNCHANGED wasError
  <2>1. Value(Top.node, 0, SInt32_Type) \in LLVMValue
    BY <1>2, ValueType DEF SInt32_Type
  <2>2. StackInv' /\ lost' \in BOOLEAN
    BY <1>1, <1>6, <2>1, Returning
  <2> QED
    BY <1>3, <1>6, <2>2 DEF RestInv
<1> QED
  BY <1>4, <1>5, <1>6 DEF Dereference

LEMMA TypeStep == TypeInv /\ [Next]_vars => TypeInv'
<1> SUFFICES ASSUME TypeInv, [Next]_vars PROVE StackInv' /\ RestInv' /\ Busy'
  BY Parts, PTL
<1>1. StackInv /\ RestInv /\ Busy
  BY Parts
<1>2. CASE Next
  <2>1. Busy'
    BY <1>2, BusyStep
  <2>2. CASE Statement \/ EndStatement \/ EndBody \/ ExitOnError
    BY <1>1, <2>1, <2>2, StatementSteps
  <2>3. CASE Leaf \/ Operand
    BY <1>1, <2>1, <2>3, OperandSteps
  <2>4. CASE TypeOfNull \/ ArgumentLost \/ ArgumentValue
    BY <1>1, <2>1, <2>4, ArgumentSteps
  <2>5. CASE UndefinedFunction \/ IncorrectNumber \/ FoundFunction
    BY <1>1, <2>1, <2>5, LookupSteps
  <2>6. CASE NotAReference \/ ArgumentAgain
    BY <1>1, <2>1, <2>6, AgainSteps
  <2>7. CASE CreateCall
    BY <1>1, <2>1, <2>7, CreateCallStep
  <2>8. CASE PipeLeft \/ PipeRight \/ OperandValue
    BY <1>1, <2>1, <2>8, PipeSteps
  <2>9. CASE Operation
    BY <1>1, <2>1, <2>9, OperationStep
  <2>10. CASE Dereference
    BY <1>1, <2>1, <2>10, DereferenceStep
  <2>11. CASE Finished
    BY <1>1, <2>1, <2>11, Stays DEF Finished, vars, Input, RestInv
  <2> QED
    BY <1>2, <2>2, <2>3, <2>4, <2>5, <2>6, <2>7, <2>8, <2>9, <2>10, <2>11 DEF Next
<1>3. CASE UNCHANGED vars
  BY <1>1, <1>3, Stays DEF vars, Input, RestInv, Busy
<1> QED
  BY <1>2, <1>3

LEMMA TypeAlways == Spec => []TypeInv
BY Initially, TypeStep, PTL DEF Spec

\* Generators and the values they pass keep their types: a call that is generated again has
\* its callee, and as many values as arguments it is done with (generateCallExpression).
THEOREM CallEmissionTypeOK == Spec => []TypeOK
<1>1. TypeInv => TypeOK
  BY DEF TypeInv
<1> QED
  BY <1>1, TypeAlways, PTL

-----------------------------------------------------------------------------
(***************************************************************************)
(* UsesCoverCalls                                                          *)
(***************************************************************************)
Covered(f) == Cardinality(Emitted(f)) + Cardinality(Pending(f)) <= uses[f]

LEMMA Finite ==
  ASSUME StackInv, RestInv, NEW f
  PROVE  /\ IsFiniteSet(Emitted(f)) /\ Cardinality(Emitted(f)) \in Nat
         /\ IsFiniteSet(Pending(f)) /\ Cardinality(Pending(f)) \in Nat
<1>1. Len(code) \in Nat /\ Len(stack) \in Nat
  BY SizeFacts DEF StackInv
<1>2. IsFiniteSet(1 .. Len(code)) /\ IsFiniteSet(1 .. Len(stack))
  BY <1>1, FS_Interval
<1>3. Emitted(f) \subseteq 1 .. Len(code) /\ Pending(f) \subseteq 1 .. Len(stack)
  BY DEF Emitted, Pending
<1>4. IsFiniteSet(Emitted(f)) /\ IsFiniteSet(Pending(f))
  BY <1>2, <1>3, FS_Subset
<1> QED
  BY <1>4, FS_CardinalityType

\* What a step does to the calls that are pending.
LEMMA PushPending ==
  ASSUME StackInv, NEW n, Pushed(n), program' = program, NEW f, f # 0
  PROVE  Pending(f)' \subseteq Pending(f)
<1>1. stack \in Seq(CallFrame) /\ Len(stack) \in Nat
  BY DEF StackInv
<1>2. /\ Len(stack') = Len(stack) + 1
      /\ \A k \in 1 .. Len(stack) : stack'[k] = stack[k]
      /\ stack'[Len(stack) + 1] = Frame(n)
  BY <1>1 DEF Pushed
<1>3. Frame(n).callee # f
  BY DEF Frame
<1>4. ASSUME NEW k \in 1 .. Len(stack'), stack'[k].callee = f,
             Nodes[stack'[k].node].kind \in Calls
      PROVE  k \in Pending(f)
  <2>1. k # Len(stack) + 1
    BY <1>2, <1>3, <1>4
  <2>2. k \in 1 .. Len(stack)
    BY <1>1, <1>2, <2>1
  <2> QED
    BY <1>2, <1>4, <2>2 DEF Pending
<1> QED
  BY <1>4 DEF Pending, Nodes

LEMMA PopPending ==
  ASSUME StackInv, stack # <<>>, NEW v, Popped(v), program' = program, NEW f
  PROVE  /\ Pending(f)' \subseteq Pending(f)
         /\ Len(stack) \notin Pending(f)'
<1>1. stack \in Seq(CallFrame) /\ Len(stack) \in Nat /\ Len(stack) > 0
  BY DEF StackInv
<1>2. /\ Len(stack') = Len(stack) - 1
      /\ \A k \in 1 .. Len(stack) - 1 : stack'[k] = stack[k]
  BY <1>1, Shorter DEF Popped
<1> QED
  BY <1>1, <1>2 DEF Pending, Nodes

LEMMA ChangePending ==
  ASSUME StackInv, stack # <<>>, NEW t, Changed(t), t.node = Top.node, program' = program, NEW f
  PROVE  /\ t.callee = Top.callee => Pending(f)' \subseteq Pending(f)
         /\ t.callee # f => Pending(f)' \subseteq Pending(f)
         /\ Pending(f)' \subseteq Pending(f) \cup {Len(stack)}
<1>1. stack \in Seq(CallFrame) /\ Len(stack) \in Nat /\ Len(stack) > 0
  BY DEF StackInv
<1>2. /\ Len(stack') = Len(stack)
      /\ \A k \in 1 .. Len(stack) : stack'[k] = IF k = Len(stack) THEN t ELSE stack[k]
  BY <1>1 DEF Changed
<1> QED
  BY <1>1, <1>2 DEF Pending, Nodes, Top

LEMMA OneMore ==
  ASSUME NEW S, IsFiniteSet(S), NEW x, NEW T \in SUBSET (S \cup {x})
  PROVE  Cardinality(T) \in Nat /\ Cardinality(T) <= Cardinality(S) + 1
<1> DEFINE A == S \cup {x}
<1>1. IsFiniteSet(A) /\ Cardinality(A) = IF x \in S THEN Cardinality(S) ELSE Cardinality(S) + 1
  BY FS_AddElement
<1>2. T \in SUBSET A
  OBVIOUS
<1> HIDE DEF A
<1>3. IsFiniteSet(T) /\ Cardinality(T) <= Cardinality(A)
  BY <1>1, <1>2, FS_Subset
<1>4. Cardinality(T) \in Nat /\ Cardinality(A) \in Nat /\ Cardinality(S) \in Nat
  BY <1>1, <1>3, FS_CardinalityType
<1> QED
  BY <1>1, <1>3, <1>4

LEMMA OneLess ==
  ASSUME NEW S, IsFiniteSet(S), NEW x \in S, NEW T \in SUBSET (S \ {x})
  PROVE  Cardinality(T) \in Nat /\ Cardinality(T) + 1 <= Cardinality(S)
<1> DEFINE A == S \ {x}
<1>1. IsFiniteSet(A) /\ Cardinality(A) = Cardinality(S) - 1
  BY FS_RemoveElement
<1>2. T \in SUBSET A
  OBVIOUS
<1> HIDE DEF A
<1>3. IsFiniteSet(T) /\ Cardinality(T) <= Cardinality(A)
  BY <1>1, <1>2, FS_Subset
<1>4. Cardinality(T) \in Nat /\ Cardinality(A) \in Nat /\ Cardinality(S) \in Nat
  BY <1>1, <1>3, FS_CardinalityType
<1> QED
  BY <1>1, <1>3, <1>4

\* A step that neither emits nor counts.
LEMMA CoveredQuietly ==
  ASSUME StackInv, RestInv, NEW f, Covered(f), uses'[f] = uses[f], Emitted(f)' = Emitted(f),
         Pending(f)' \subseteq Pending(f), uses[f] \in Nat
  PROVE  Covered(f)'
<1> DEFINE E == Cardinality(Emitted(f))
           P == Cardinality(Pending(f))
           Q == Cardinality(Pending(f)')
<1>1. E \in Nat /\ P \in Nat /\ IsFiniteSet(Pending(f))
  BY Finite
<1>2. Q <= P /\ Q \in Nat
  <2>1. IsFiniteSet(Pending(f)') /\ Q <= P
    BY <1>1, FS_Subset
  <2> QED
    BY <2>1, FS_CardinalityType
<1>3. E + P <= uses[f]
  BY DEF Covered
<1>4. Covered(f)' <=> E + Q <= uses[f]
  BY DEF Covered
<1> HIDE DEF E, P, Q
<1> QED
  BY <1>1, <1>2, <1>3, <1>4

LEMMA CoveredByCount ==
  ASSUME StackInv, RestInv, NEW f, Covered(f), Emitted(f)' = Emitted(f), NEW x,
         Pending(f)' \subseteq Pending(f) \cup {x}, uses[f] \in Nat, uses'[f] = uses[f] + 1
  PROVE  Covered(f)'
<1> DEFINE E == Cardinality(Emitted(f))
           P == Cardinality(Pending(f))
           Q == Cardinality(Pending(f)')
<1>1. E \in Nat /\ P \in Nat /\ IsFiniteSet(Pending(f))
  BY Finite
<1>2. Q <= P + 1 /\ Q \in Nat
  BY <1>1, OneMore
<1>3. E + P <= uses[f]
  BY DEF Covered
<1>4. Covered(f)' <=> E + Q <= uses[f] + 1
  BY DEF Covered
<1> HIDE DEF E, P, Q
<1> QED
  BY <1>1, <1>2, <1>3, <1>4

LEMMA CoveredByEmission ==
  ASSUME StackInv, RestInv, NEW f, Covered(f), NEW x, Emitted(f)' \subseteq Emitted(f) \cup {x},
         NEW y \in Pending(f), Pending(f)' \subseteq Pending(f) \ {y},
         uses[f] \in Nat, UNCHANGED uses
  PROVE  Covered(f)'
<1> DEFINE E == Cardinality(Emitted(f))
           D == Cardinality(Emitted(f)')
           P == Cardinality(Pending(f))
           Q == Cardinality(Pending(f)')
<1>1. E \in Nat /\ P \in Nat /\ IsFiniteSet(Pending(f)) /\ IsFiniteSet(Emitted(f))
  BY Finite
<1>2. D <= E + 1 /\ D \in Nat
  BY <1>1, OneMore
<1>3. Q + 1 <= P /\ Q \in Nat
  BY <1>1, OneLess
<1>4. E + P <= uses[f]
  BY DEF Covered
<1>5. Covered(f)' <=> D + Q <= uses[f]
  BY DEF Covered
<1> HIDE DEF E, D, P, Q
<1> QED
  BY <1>1, <1>2, <1>3, <1>4, <1>5

\* The calls emitted, of a function.
LEMMA Emits ==
  ASSUME StackInv, RestInv, stack # <<>>, NEW g \in 1 .. Len(functionIDs), EmitCall(g),
         program' = program, NEW f
  PROVE  /\ Emitted(f)' \subseteq Emitted(f) \cup {Len(code) + 1}
         /\ g # f \/ Node.kind \notin Calls => Emitted(f)' = Emitted(f)
<1> DEFINE call == [node |-> Top.node, callee |-> g, args |-> Top.values]
           T == [node : DOMAIN program.nodes, callee : 1 .. Len(functionIDs),
                 args : Seq(LLVMValue)]
<1>1. code' = Append(code, call)
  BY DEF EmitCall
<1>2. call.node = Top.node /\ call.callee = g /\ call \in T
  BY TopFacts DEF Nodes
<1>3. code \in Seq(T)
  BY DEF RestInv
<1> HIDE DEF call, T
<1>4. /\ Len(code') = Len(code) + 1 /\ Len(code) \in Nat
      /\ \A k \in 1 .. Len(code) : code'[k] = code[k]
      /\ code'[Len(code) + 1] = call
  BY <1>1, <1>2, <1>3
<1>5. Nodes' = Nodes
  BY DEF Nodes
<1>6. \A k \in 1 .. Len(code) + 1 : k \in 1 .. Len(code) \/ k = Len(code) + 1
  BY <1>4
<1>7. \A k \in 1 .. Len(code) : k \in 1 .. Len(code) + 1
  BY <1>4
<1>8. ASSUME g # f \/ Node.kind \notin Calls
      PROVE  Len(code) + 1 \notin Emitted(f)'
  BY <1>2, <1>4, <1>5, <1>8 DEF Emitted, Node
<1>9. /\ Emitted(f)' \subseteq Emitted(f) \cup {Len(code) + 1}
      /\ Emitted(f) \subseteq Emitted(f)'
  BY <1>4, <1>5, <1>6, <1>7 DEF Emitted
<1> QED
  BY <1>8, <1>9

\* The steps that change neither the count nor the code.
LEMMA QuietSteps ==
  ASSUME StackInv, RestInv, UNCHANGED program, NEW f, f # 0,
         \/ \E n : Enter(n)
         \/ stack # <<>> /\ \E v : Return(v)
         \/ stack # <<>> /\ returned # Waiting /\ Receive
         \/ UNCHANGED stack
  PROVE  Pending(f)' \subseteq Pending(f)
<1>1. ASSUME NEW n, Enter(n) PROVE Pending(f)' \subseteq Pending(f)
  BY <1>1, PushPending DEF Enter, Pushed
<1>2. ASSUME stack # <<>>, NEW v, Return(v) PROVE Pending(f)' \subseteq Pending(f)
  BY <1>2, PopPending DEF Return, Popped
<1>3. CASE stack # <<>> /\ returned # Waiting /\ Receive
  <2>1. Changed(Received)
    BY <1>3 DEF Receive, Changed
  <2> QED
    BY <1>3, <2>1, ReceivedFields, ChangePending
<1>4. CASE UNCHANGED stack
  BY <1>4 DEF Pending, Nodes
<1> QED
  BY <1>1, <1>2, <1>3, <1>4

LEMMA CoverStep ==
  ASSUME TypeInv, UsesCoverCalls, [Next]_vars
  PROVE  UsesCoverCalls'
<1>1. StackInv /\ RestInv
  BY Parts
<1>2. functionIDs' = functionIDs /\ program' = program
  BY DEF Next, Statement, EndStatement, EndBody, ExitOnError, Leaf, Operand, TypeOfNull,
         ArgumentLost, ArgumentValue, UndefinedFunction, IncorrectNumber, FoundFunction,
         NotAReference, ArgumentAgain, CreateCall, PipeLeft, PipeRight, OperandValue, Operation,
         Dereference, Finished, Input, vars
<1> SUFFICES ASSUME NEW f \in 1 .. Len(functionIDs) PROVE Covered(f)'
  BY <1>2 DEF UsesCoverCalls, Covered
<1>3. Covered(f) /\ uses[f] \in Nat /\ f # 0
  <2>1. Covered(f)
    BY DEF UsesCoverCalls, Covered
  <2>2. Len(functionIDs) \in Nat /\ uses \in [1 .. Len(functionIDs) -> Nat]
    BY <1>1, SizeFacts DEF RestInv
  <2> QED
    BY <2>1, <2>2
<1>4. ASSUME UNCHANGED code PROVE Emitted(f)' = Emitted(f)
  BY <1>2, <1>4 DEF Emitted, Nodes
<1>5. ASSUME UNCHANGED <<code, uses>>, Pending(f)' \subseteq Pending(f) PROVE Covered(f)'
  BY <1>1, <1>3, <1>4, <1>5, CoveredQuietly
<1>6. ASSUME UNCHANGED <<code, uses>>,
             \/ \E n : Enter(n)
             \/ stack # <<>> /\ \E v : Return(v)
             \/ stack # <<>> /\ returned # Waiting /\ Receive
             \/ UNCHANGED stack
      PROVE  Covered(f)'
  BY <1>1, <1>2, <1>3, <1>5, <1>6, QuietSteps
<1>7. CASE Statement \/ EndStatement \/ EndBody \/ ExitOnError \/ Leaf \/ Operand \/ TypeOfNull
  BY <1>6, <1>7 DEF Statement, EndStatement, EndBody, ExitOnError, Exit, Leaf, Operand, TypeOfNull,
                    At, Generating
<1>8. CASE ArgumentLost \/ ArgumentValue \/ UndefinedFunction \/ NotAReference \/ ArgumentAgain
  BY <1>6, <1>8 DEF ArgumentLost, ArgumentValue, UndefinedFunction, NotAReference, ArgumentAgain,
                    LookedUp, NotComplete, At, Got, Generating
<1>9. CASE PipeLeft \/ PipeRight \/ OperandValue \/ Finished \/ UNCHANGED vars
  BY <1>6, <1>9 DEF PipeLeft, PipeRight, OperandValue, Finished, vars, Got, Generating
\* Counting, for a call that is dropped at once or generated again.
<1>10. CASE IncorrectNumber \/ FoundFunction
  <2>1. /\ stack # <<>> /\ Callee # 0 /\ CountUse /\ UNCHANGED code
    BY <1>10 DEF IncorrectNumber, FoundFunction, LookedUp, At, Generating
  <2>2. uses' = [uses EXCEPT ![Callee] = @ + 1] /\ uses \in [1 .. Len(functionIDs) -> Nat]
    BY <1>1, <2>1 DEF CountUse, RestInv
  <2>3. Pending(f)' \subseteq Pending(f) \cup {Len(stack)}
    <3>1. CASE IncorrectNumber
      BY <1>1, <1>2, <2>1, <3>1, PopPending DEF IncorrectNumber, Return, Popped
    <3>2. CASE FoundFunction
      <4>1. Changed(Again) /\ Again.node = Top.node
        BY <1>1, <2>1, <3>2, AgainFields DEF FoundFunction, LookedUp, At, Changed
      <4> QED
        BY <1>1, <1>2, <2>1, <4>1, ChangePending
    <3> QED
      BY <1>10, <3>1, <3>2
  <2>4. CASE Callee = f
    BY <1>1, <1>3, <1>4, <2>1, <2>2, <2>3, <2>4, CoveredByCount
  <2>5. CASE Callee # f
    <3>1. uses'[f] = uses[f]
      BY <2>2, <2>5
    <3>2. Pending(f)' \subseteq Pending(f)
      <4>1. CASE IncorrectNumber
        BY <1>1, <1>2, <2>1, <4>1, PopPending DEF IncorrectNumber, Return, Popped
      <4>2. CASE FoundFunction
        <5>1. Changed(Again) /\ Again.node = Top.node /\ Again.callee # f
          BY <1>1, <2>1, <2>5, <4>2, AgainFields DEF FoundFunction, LookedUp, At, Changed
        <5> QED
          BY <1>1, <1>2, <2>1, <5>1, ChangePending
      <4> QED
        BY <1>10, <4>1, <4>2
    <3> QED
      BY <1>1, <1>3, <1>4, <2>1, <3>1, <3>2, CoveredQuietly
  <2> QED
    BY <2>4, <2>5
\* A call that is emitted is no longer pending.
<1>11. CASE CreateCall
  <2>1. /\ stack # <<>> /\ Node.kind \in Calls /\ Top.round = 2
        /\ EmitCall(Top.callee) /\ UNCHANGED uses
        /\ \E v : Popped(v)
    BY <1>11 DEF CreateCall, At, Generating, Return, Popped
  <2>2. Top.callee \in 1 .. Len(functionIDs) /\ Len(stack) \in 1 .. Len(stack)
    <3>1. /\ Top.callee \in 0 .. Len(functionIDs) /\ FrameOK(Top) /\ Len(functionIDs) \in Nat
          /\ Len(stack) \in Nat \ {0}
      BY <1>1, <2>1, TopFacts, SizeFacts
    <3>2. Top.callee # 0
      BY <2>1, <3>1 DEF FrameOK, Node
    <3> QED
      BY <3>1, <3>2
  <2>3. /\ Pending(f)' \subseteq Pending(f)
        /\ Len(stack) \notin Pending(f)'
    BY <1>1, <1>2, <2>1, PopPending
  <2>4. CASE Top.callee = f
    <3>1. Len(stack) \in Pending(f)
      BY <2>1, <2>2, <2>4 DEF Pending, Top, Node
    <3>2. Emitted(f)' \subseteq Emitted(f) \cup {Len(code) + 1}
      BY <1>1, <1>2, <2>1, <2>2, Emits
    <3>3. Pending(f)' \subseteq Pending(f) \ {Len(stack)}
      BY <2>3
    <3> QED
      BY <1>1, <1>3, <2>1, <3>1, <3>2, <3>3, CoveredByEmission
  <2>5. CASE Top.callee # f
    <3>1. Emitted(f)' = Emitted(f)
      BY <1>1, <1>2, <2>1, <2>2, <2>5, Emits
    <3> QED
      BY <1>1, <1>3, <2>1, <2>3, <3>1, CoveredQuietly
  <2> QED
    BY <2>4, <2>5
\* An overloaded operator is called, not counted, and not a call.
<1>12. CASE Operation
  <2>1. stack # <<>> /\ Node.kind = "operator" /\ UNCHANGED uses
    BY <1>12 DEF Operation, At, Generating
  <2>2. Pending(f)' \subseteq Pending(f)
    <3>1. UNCHANGED stack \/ \E v : Return(v)
      BY <1>12 DEF Operation
    <3> QED
      BY <1>1, <1>2, <1>3, <2>1, <3>1, QuietSteps
  <2>3. Emitted(f)' = Emitted(f)
    <3>1. CASE UNCHANGED code
      BY <1>4, <3>1
    <3>2. CASE Overload # 0 /\ EmitCall(Overload)
      <4>1. Overload \in 1 .. Len(functionIDs)
        <5>1. Overload \in 0 .. Len(functionIDs) /\ Len(functionIDs) \in Nat
          BY <1>1, Lookups, SizeFacts
        <5> QED
          BY <3>2, <5>1
      <4>2. Node.kind \notin Calls
        BY <2>1 DEF Calls
      <4> QED
        BY <1>1, <1>2, <2>1, <3>2, <4>1, <4>2, Emits
    <3> QED
      BY <1>12, <3>1, <3>2 DEF Operation
  <2> QED
    BY <1>1, <1>3, <2>1, <2>2, <2>3, CoveredQuietly
\* The operand of a dereference is generated again.
<1>13. CASE Dereference
  <2>1. stack # <<>> /\ UNCHANGED <<uses, code>>
    BY <1>13 DEF Dereference, Got, Generating
  <2>2. CASE \E v : Return(v)
    BY <1>6, <2>1, <2>2
  <2>3. CASE stack' = [stack EXCEPT ![Len(stack)].round = 2] /\ returned' = Waiting
    <3> DEFINE t == [Top EXCEPT !.round = 2]
    <3>1. t.node = Top.node /\ t.callee = Top.callee
      <4>1. Top \in CallFrame
        BY <1>1, <2>1, TopFacts
      <4> QED
        BY <4>1 DEF CallFrame
    <3>2. Changed(t)
      BY <2>3 DEF Changed, Top
    <3> HIDE DEF t
    <3> QED
      BY <1>1, <1>2, <1>5, <2>1, <3>1, <3>2, ChangePending
  <2> QED
    BY <1>13, <2>2, <2>3 DEF Dereference
<1> QED
  BY <1>7, <1>8, <1>9, <1>10, <1>11, <1>12, <1>13 DEF Next

LEMMA CoverInitially == Init => UsesCoverCalls
<1> SUFFICES ASSUME Init, NEW f \in 1 .. Len(functionIDs)
             PROVE  Cardinality(Emitted(f)) + Cardinality(Pending(f)) <= uses[f]
  BY DEF UsesCoverCalls
<1>1. Emitted(f) = {} /\ Pending(f) = {}
  BY DEF Init, Emitted, Pending
<1>2. uses[f] = 0
  <2>1. functionIDs \in Seq(FunctionID)
    BY RegistriesAssumption DEF Init
  <2>2. f \in DOMAIN functionIDs
    BY <2>1
  <2> QED
    BY <2>2 DEF Init
<1> QED
  BY <1>1, <1>2, FS_EmptySet

\* For every call of a function or a method that is emitted, and for every one that is being
\* generated the second time, one use of its callee has been counted (functionID::uses), so
\* that no function whose count is zero is called by one of them.
THEOREM CallEmissionUsesCoverCalls == Spec => []UsesCoverCalls
<1>1. UsesCoverCalls /\ TypeInv /\ [Next]_vars => UsesCoverCalls'
  BY CoverStep
<1> QED
  BY <1>1, CoverInitially, TypeAlways, PTL DEF Spec

-----------------------------------------------------------------------------
(***************************************************************************)
(* PipesAreNested                                                          *)
(***************************************************************************)
LEMMA OpenFacts ==
  ASSUME StackInv
  PROVE  /\ OpenPipes \subseteq 1 .. Len(stack) /\ Len(stack) \in Nat
         /\ IsFiniteSet(OpenPipes) /\ Cardinality(OpenPipes) \in Nat
<1>1. OpenPipes \subseteq 1 .. Len(stack) /\ Len(stack) \in Nat
  BY DEF OpenPipes, StackInv
<1>2. IsFiniteSet(OpenPipes)
  <2>1. IsFiniteSet(1 .. Len(stack))
    BY <1>1, FS_Interval
  <2> QED
    BY <1>1, <2>1, FS_Subset
<1> QED
  BY <1>1, <1>2, FS_CardinalityType

\* The pipes that are open and what they hold stay as they are.
LEMMA SameOpen ==
  ASSUME PipesAreNested, OpenPipes' = OpenPipes, UNCHANGED pipeOperationValue,
         \A k \in OpenPipes : stack'[k] = stack[k]
  PROVE  PipesAreNested'
BY DEF PipesAreNested

LEMMA PushOpen ==
  ASSUME StackInv, PipesAreNested, NEW n, Pushed(n), UNCHANGED <<program, pipeOperationValue>>
  PROVE  PipesAreNested'
<1>1. stack \in Seq(CallFrame) /\ Len(stack) \in Nat
  BY DEF StackInv
<1>2. /\ Len(stack') = Len(stack) + 1
      /\ \A k \in 1 .. Len(stack) : stack'[k] = stack[k]
      /\ stack'[Len(stack) + 1] = Frame(n)
  BY <1>1 DEF Pushed
<1>3. Frame(n).i # 1
  BY DEF Frame
<1>4. \A k \in 1 .. Len(stack') : k \in 1 .. Len(stack) \/ k = Len(stack) + 1
  BY <1>1, <1>2
<1>5. \A k \in 1 .. Len(stack) : k \in 1 .. Len(stack')
  BY <1>1, <1>2
<1>6. OpenPipes' = OpenPipes
  BY <1>2, <1>3, <1>4, <1>5 DEF OpenPipes, InRightSide, Nodes
<1>7. \A k \in OpenPipes : stack'[k] = stack[k]
  BY <1>2 DEF OpenPipes
<1> QED
  BY <1>6, <1>7, SameOpen

\* A generator that is no open pipe returns.
LEMMA PopOpen ==
  ASSUME StackInv, PipesAreNested, stack # <<>>, Node.kind # "pipe", NEW v, Popped(v),
         UNCHANGED <<program, pipeOperationValue>>
  PROVE  PipesAreNested'
<1>1. stack \in Seq(CallFrame) /\ Len(stack) \in Nat /\ Len(stack) > 0
  BY DEF StackInv
<1>2. /\ Len(stack') = Len(stack) - 1
      /\ \A k \in 1 .. Len(stack) - 1 : stack'[k] = stack[k]
  BY <1>1, Shorter DEF Popped
<1>3. \A k \in OpenPipes : k \in 1 .. Len(stack) - 1
  BY <1>1 DEF OpenPipes, InRightSide, Node, Top
<1>4. \A k \in 1 .. Len(stack) - 1 : k \in 1 .. Len(stack)
  BY <1>1
<1>5. OpenPipes' = OpenPipes
  BY <1>2, <1>3, <1>4 DEF OpenPipes, InRightSide, Nodes
<1> QED
  BY <1>2, <1>3, <1>5, SameOpen

\* A generator that is no pipe goes on.
LEMMA ChangeOpen ==
  ASSUME StackInv, PipesAreNested, stack # <<>>, Node.kind # "pipe", NEW t, Changed(t),
         t.node = Top.node, UNCHANGED <<program, pipeOperationValue>>
  PROVE  PipesAreNested'
<1>1. stack \in Seq(CallFrame) /\ Len(stack) \in Nat /\ Len(stack) > 0
  BY DEF StackInv
<1>2. /\ Len(stack') = Len(stack)
      /\ \A k \in 1 .. Len(stack) : stack'[k] = IF k = Len(stack) THEN t ELSE stack[k]
  BY <1>1 DEF Changed
<1>3. Len(stack) \notin OpenPipes
  BY DEF OpenPipes, InRightSide, Node, Top
<1>4. OpenPipes' = OpenPipes /\ \A k \in OpenPipes : stack'[k] = stack[k]
  <2>1. Nodes[t.node].kind # "pipe"
    BY DEF Node
  <2>2. \A k \in OpenPipes : k \in 1 .. Len(stack) /\ k # Len(stack)
    BY <1>3 DEF OpenPipes
  <2> QED
    BY <1>2, <2>1, <2>2 DEF OpenPipes, InRightSide, Nodes
<1> QED
  BY <1>4, SameOpen

\* The left side is done: one more pipe is open, the innermost.
LEMMA PipeLeftNested ==
  ASSUME StackInv, RestInv, PipesAreNested, PipeLeft
  PROVE  PipesAreNested'
<1>1. /\ stack # <<>> /\ returned # Waiting /\ Node.kind = "pipe" /\ Top.i = 0 /\ program' = program
      /\ Changed(Received) /\ pipeOperationValue' = Append(pipeOperationValue, returned)
  BY DEF PipeLeft, Got, Generating, Receive, Changed, Input
<1>2. stack \in Seq(CallFrame) /\ Len(stack) \in Nat /\ Len(stack) > 0
  BY <1>1 DEF StackInv
<1>3. /\ Len(stack') = Len(stack)
      /\ \A k \in 1 .. Len(stack) : stack'[k] = IF k = Len(stack) THEN Received ELSE stack[k]
  BY <1>1, <1>2 DEF Changed
<1>4. Received.node = Top.node /\ Received.i = 1 /\ Received.values[1] = returned
  <2>1. FrameOK(Top) /\ Top.values \in Seq(LLVMValue)
    BY <1>1, TopFacts
  <2>2. Len(Top.values) = 0
    BY <1>1, <2>1 DEF FrameOK, Node
  <2>3. Append(Top.values, returned)[1] = returned
    BY <2>1, <2>2
  <2> QED
    BY <1>1, <2>3, ReceivedFields
<1>5. Len(stack) \notin OpenPipes
  BY <1>1 DEF OpenPipes, InRightSide, Top
<1>6. \A k \in OpenPipes : k \in 1 .. Len(stack) /\ k # Len(stack) /\ k < Len(stack)
  BY <1>2, <1>5 DEF OpenPipes
<1>7. OpenPipes' = OpenPipes \cup {Len(stack)}
  <2>1. ASSUME NEW k \in 1 .. Len(stack)
        PROVE  k \in OpenPipes' <=> k \in OpenPipes \/ k = Len(stack)
    <3>1. CASE k = Len(stack)
      <4>1. stack'[k] = Received /\ Nodes[Received.node].kind = "pipe" /\ Received.i = 1
        BY <1>1, <1>3, <1>4, <3>1 DEF Node
      <4> QED
        BY <1>1, <1>3, <3>1, <4>1 DEF OpenPipes, InRightSide, Nodes
    <3>2. CASE k # Len(stack)
      <4>1. stack'[k] = stack[k]
        BY <1>3, <3>2
      <4> QED
        BY <1>1, <1>3, <3>2, <4>1 DEF OpenPipes, InRightSide, Nodes
    <3> QED
      BY <3>1, <3>2
  <2>2. Len(stack) \in 1 .. Len(stack)
    BY <1>2
  <2>3. OpenPipes \subseteq 1 .. Len(stack) /\ OpenPipes' \subseteq 1 .. Len(stack)
    BY <1>3 DEF OpenPipes
  <2> QED
    BY <2>1, <2>2, <2>3
<1> DEFINE C == Cardinality(OpenPipes)
<1>8. Cardinality(OpenPipes') = C + 1 /\ C \in Nat
  BY <1>5, <1>7, OpenFacts, FS_AddElement
<1>9. pipeOperationValue \in Seq(LLVMValue) /\ Len(pipeOperationValue) = C
  BY DEF RestInv, PipesAreNested
<1>10. /\ Len(pipeOperationValue') = C + 1
       /\ \A r \in 1 .. C : pipeOperationValue'[r] = pipeOperationValue[r]
       /\ pipeOperationValue'[C + 1] = returned
  BY <1>1, <1>9
<1>11. ASSUME NEW k \in OpenPipes
       PROVE  pipeOperationValue'[Cardinality({j \in OpenPipes' : j <= k})] = stack'[k].values[1]
  <2> DEFINE S == {j \in OpenPipes : j <= k}
  <2>1. {j \in OpenPipes' : j <= k} = S
    <3>1. ~ Len(stack) <= k
      BY <1>2, <1>6
    <3> QED
      BY <1>7, <3>1
  <2>2. Cardinality(S) \in 1 .. C
    <3>1. S \subseteq OpenPipes /\ k \in S
      <4>1. k <= k
        BY <1>6
      <4> QED
        BY <4>1
    <3>2. IsFiniteSet(S) /\ Cardinality(S) <= C /\ Cardinality(S) \in Nat
      <4> HIDE DEF S
      <4> QED
        BY <3>1, OpenFacts, FS_Subset, FS_CardinalityType
    <3>3. Cardinality(S) # 0
      <4> HIDE DEF S
      <4> QED
        BY <3>1, <3>2, FS_EmptySet
    <3> HIDE DEF S, C
    <3> QED
      BY <1>8, <3>2, <3>3
  <2>3. pipeOperationValue[Cardinality(S)] = stack[k].values[1]
    BY DEF PipesAreNested
  <2>4. stack'[k] = stack[k]
    BY <1>3, <1>6
  <2> HIDE DEF S, C
  <2> QED
    BY <1>10, <2>1, <2>2, <2>3, <2>4
<1>12. pipeOperationValue'[Cardinality({j \in OpenPipes' : j <= Len(stack)})]
         = stack'[Len(stack)].values[1]
  <2>1. {j \in OpenPipes' : j <= Len(stack)} = OpenPipes'
    BY <1>2, <1>6, <1>7
  <2>2. stack'[Len(stack)] = Received
    BY <1>2, <1>3
  <2> HIDE DEF C
  <2> QED
    BY <1>4, <1>8, <1>10, <2>1, <2>2
<1>13. Len(pipeOperationValue') = Cardinality(OpenPipes')
  BY <1>8, <1>10
<1> QED
  BY <1>7, <1>11, <1>12, <1>13 DEF PipesAreNested

\* The right side is done: the innermost pipe is closed.
LEMMA PipeRightNested ==
  ASSUME StackInv, RestInv, PipesAreNested, PipeRight
  PROVE  PipesAreNested'
<1>1. /\ stack # <<>> /\ Node.kind = "pipe" /\ Top.i = 1 /\ program' = program
      /\ Popped(returned)
      /\ pipeOperationValue' = SubSeq(pipeOperationValue, 1, Len(pipeOperationValue) - 1)
  BY DEF PipeRight, PopPipe, Got, Generating, Return, Popped, Input
<1>2. stack \in Seq(CallFrame) /\ Len(stack) \in Nat /\ Len(stack) > 0
  BY <1>1 DEF StackInv
<1>3. /\ Len(stack') = Len(stack) - 1
      /\ \A k \in 1 .. Len(stack) - 1 : stack'[k] = stack[k]
  BY <1>1, <1>2, Shorter DEF Popped
<1>4. Len(stack) \in OpenPipes
  BY <1>1, <1>2 DEF OpenPipes, InRightSide, Top, Node
<1>5. OpenPipes' = OpenPipes \ {Len(stack)}
  <2>1. \A k \in 1 .. Len(stack) : k \in 1 .. Len(stack) - 1 \/ k = Len(stack)
    BY <1>2
  <2>2. \A k \in 1 .. Len(stack) - 1 : k \in 1 .. Len(stack) /\ k # Len(stack)
    BY <1>2
  <2> QED
    BY <1>1, <1>3, <2>1, <2>2 DEF OpenPipes, InRightSide, Nodes
<1> DEFINE C == Cardinality(OpenPipes)
<1>6. Cardinality(OpenPipes') = C - 1 /\ C \in Nat
  BY <1>4, <1>5, OpenFacts, FS_RemoveElement
<1>7. pipeOperationValue \in Seq(LLVMValue) /\ Len(pipeOperationValue) = C
  BY DEF RestInv, PipesAreNested
<1>8. C > 0
  BY <1>4, OpenFacts, FS_EmptySet
<1>9. /\ Len(pipeOperationValue') = C - 1
      /\ \A r \in 1 .. C - 1 : pipeOperationValue'[r] = pipeOperationValue[r]
  BY <1>1, <1>7, <1>8, Shorter
<1>10. ASSUME NEW k \in OpenPipes'
       PROVE  pipeOperationValue'[Cardinality({j \in OpenPipes' : j <= k})] = stack'[k].values[1]
  <2> DEFINE S == {j \in OpenPipes : j <= k}
  <2>1. k \in OpenPipes /\ k \in 1 .. Len(stack) - 1 /\ ~ Len(stack) <= k
    BY <1>2, <1>5 DEF OpenPipes
  <2>2. {j \in OpenPipes' : j <= k} = S
    BY <1>5, <2>1
  <2>3. Cardinality(S) \in 1 .. C - 1
    <3>1. S \subseteq OpenPipes \ {Len(stack)} /\ k \in S
      <4>1. k <= k
        BY <2>1
      <4> QED
        BY <2>1, <4>1
    <3> DEFINE A == OpenPipes \ {Len(stack)}
    <3>2. IsFiniteSet(A) /\ Cardinality(A) = C - 1
      BY <1>4, OpenFacts, FS_RemoveElement
    <3>3. IsFiniteSet(S) /\ Cardinality(S) <= C - 1 /\ Cardinality(S) \in Nat
      <4>1. S \subseteq A
        BY <3>1
      <4> HIDE DEF S, A
      <4> QED
        BY <3>2, <4>1, FS_Subset, FS_CardinalityType
    <3>4. Cardinality(S) # 0
      <4> HIDE DEF S
      <4> QED
        BY <3>1, <3>3, FS_EmptySet
    <3> HIDE DEF S, C
    <3> QED
      BY <1>6, <3>3, <3>4
  <2>4. pipeOperationValue[Cardinality(S)] = stack[k].values[1]
    BY <2>1 DEF PipesAreNested
  <2>5. stack'[k] = stack[k]
    BY <1>3, <2>1
  <2> HIDE DEF S, C
  <2> QED
    BY <1>9, <2>2, <2>3, <2>4, <2>5
<1>11. Len(pipeOperationValue') = Cardinality(OpenPipes')
  BY <1>6, <1>9
<1> QED
  BY <1>10, <1>11 DEF PipesAreNested

LEMMA PipesStep ==
  ASSUME TypeInv, PipesAreNested, [Next]_vars
  PROVE  PipesAreNested'
<1>1. StackInv /\ RestInv
  BY Parts
<1>2. program' = program
  BY DEF Next, Statement, EndStatement, EndBody, ExitOnError, Leaf, Operand, TypeOfNull,
         ArgumentLost, ArgumentValue, UndefinedFunction, IncorrectNumber, FoundFunction,
         NotAReference, ArgumentAgain, CreateCall, PipeLeft, PipeRight, OperandValue, Operation,
         Dereference, Finished, Input, vars
<1>3. ASSUME UNCHANGED <<stack, pipeOperationValue>> PROVE PipesAreNested'
  <2>1. OpenPipes' = OpenPipes
    BY <1>2, <1>3 DEF OpenPipes, InRightSide, Nodes
  <2> QED
    BY <1>3, <2>1, SameOpen
<1>4. ASSUME UNCHANGED pipeOperationValue, NEW n, Enter(n) PROVE PipesAreNested'
  BY <1>1, <1>2, <1>4, PushOpen DEF Enter, Pushed
<1>5. ASSUME UNCHANGED pipeOperationValue, stack # <<>>, Node.kind # "pipe", NEW v, Return(v)
      PROVE  PipesAreNested'
  BY <1>1, <1>2, <1>5, PopOpen DEF Return, Popped
<1>6. ASSUME UNCHANGED pipeOperationValue, stack # <<>>, Node.kind # "pipe", NEW t, Changed(t),
             t.node = Top.node
      PROVE  PipesAreNested'
  BY <1>1, <1>2, <1>6, ChangeOpen
<1>7. CASE EndStatement \/ EndBody \/ ExitOnError \/ TypeOfNull \/ Finished \/ UNCHANGED vars
  BY <1>3, <1>7 DEF EndStatement, EndBody, ExitOnError, Exit, TypeOfNull, Finished, vars
<1>8. CASE Statement \/ Operand \/ ArgumentAgain
  BY <1>4, <1>8 DEF Statement, Operand, ArgumentAgain
<1>9. CASE Leaf \/ ArgumentLost \/ UndefinedFunction
  BY <1>5, <1>9 DEF Leaf, ArgumentLost, UndefinedFunction, LookedUp, At, Got, Generating,
                    Leaves, Calls
<1>10. CASE IncorrectNumber \/ NotAReference \/ CreateCall
  BY <1>5, <1>10 DEF IncorrectNumber, NotAReference, CreateCall, LookedUp, NotComplete, At,
                     Generating, Calls
<1>11. CASE ArgumentValue \/ OperandValue
  <2>1. /\ stack # <<>> /\ Node.kind # "pipe" /\ returned # Waiting
        /\ Changed(Received) /\ UNCHANGED pipeOperationValue
    BY <1>11 DEF ArgumentValue, OperandValue, Got, Generating, Calls, Receive, Changed
  <2>2. Received.node = Top.node
    BY <1>1, <2>1, ReceivedFields
  <2> QED
    BY <1>6, <2>1, <2>2
<1>12. CASE FoundFunction
  <2>1. /\ stack # <<>> /\ Node.kind # "pipe" /\ Changed(Again) /\ UNCHANGED pipeOperationValue
    BY <1>12 DEF FoundFunction, LookedUp, At, Generating, Calls, Changed
  <2>2. Again.node = Top.node
    BY <1>1, <2>1, AgainFields
  <2> QED
    BY <1>6, <2>1, <2>2
<1>13. CASE PipeLeft
  BY <1>1, <1>13, PipeLeftNested
<1>14. CASE PipeRight
  BY <1>1, <1>14, PipeRightNested
<1>15. CASE Operation
  <2>1. stack # <<>> /\ Node.kind # "pipe" /\ UNCHANGED pipeOperationValue
    BY <1>15 DEF Operation, At, Generating
  <2>2. UNCHANGED stack \/ \E v : Return(v)
    BY <1>15 DEF Operation
  <2> QED
    BY <1>3, <1>5, <2>1, <2>2
<1>16. CASE Dereference
  <2>1. stack # <<>> /\ Node.kind # "pipe" /\ UNCHANGED pipeOperationValue
    BY <1>16 DEF Dereference, Got, Generating
  <2>2. CASE \E v : Return(v)
    BY <1>5, <2>1, <2>2
  <2>3. CASE stack' = [stack EXCEPT ![Len(stack)].round = 2] /\ returned' = Waiting
    <3> DEFINE t == [Top EXCEPT !.round = 2]
    <3>1. t.node = Top.node
      <4>1. Top \in CallFrame
        BY <1>1, <2>1, TopFacts
      <4> QED
        BY <4>1 DEF CallFrame
    <3>2. Changed(t)
      BY <2>3 DEF Changed, Top
    <3> HIDE DEF t
    <3> QED
      BY <1>6, <2>1, <3>1, <3>2
  <2> QED
    BY <1>16, <2>2, <2>3 DEF Dereference
<1> QED
  BY <1>7, <1>8, <1>9, <1>10, <1>11, <1>12, <1>13, <1>14, <1>15, <1>16 DEF Next

LEMMA PipesInitially == Init => PipesAreNested
<1> SUFFICES ASSUME Init PROVE PipesAreNested
  OBVIOUS
<1>1. OpenPipes = {}
  BY DEF Init, OpenPipes
<1> QED
  BY <1>1, FS_EmptySet DEF Init, PipesAreNested

\* Whichever way the code generators of the right side of a pipe return, pipeOperationValue
\* holds the left sides of the pipes that are open, the innermost last, and nothing else
\* (the `|' of generateBinaryExpression).
THEOREM CallEmissionPipesAreNested == Spec => []PipesAreNested
<1>1. PipesAreNested /\ TypeInv /\ [Next]_vars => PipesAreNested'
  BY PipesStep
<1> QED
  BY <1>1, PipesInitially, TypeAlways, PTL DEF Spec

-----------------------------------------------------------------------------
(***************************************************************************)
(* The trees of a body                                                     *)
(***************************************************************************)
Doubled == Calls \cup {"dereference"}

LEMMA TreeFacts ==
  ASSUME program \in Programs
  PROVE  /\ \A m \in DOMAIN Nodes : \A k \in 1 .. Len(Nodes[m].args) :
              /\ m < Nodes[m].args[k]
              /\ Parents(Nodes[m].args[k]) = {m}
              /\ \A j \in 1 .. Len(Nodes[m].args) : Nodes[m].args[j] = Nodes[m].args[k] => j = k
         /\ \A k \in 1 .. Len(program.body) :
              /\ Parents(program.body[k]) = {}
              /\ \A j \in 1 .. Len(program.body) : program.body[j] = program.body[k] => j = k
         /\ \A n \in DOMAIN Nodes :
              \/ \E k \in 1 .. Len(program.body) : program.body[k] = n
              \/ \E m \in DOMAIN Nodes : \E k \in 1 .. Len(Nodes[m].args) : Nodes[m].args[k] = n
         /\ \A n \in DOMAIN Nodes :
              /\ Nodes[n].kind \in Leaves => Len(Nodes[n].args) = 0
              /\ Nodes[n].kind = "dereference" => Len(Nodes[n].args) = 1
<1> DEFINE All == 0 .. Len(Nodes)
           operands(m) == IF m = 0 THEN program.body ELSE Nodes[m].args
<1>1. /\ \A m \in All : \A k \in DOMAIN operands(m) : m < operands(m)[k]
      /\ \A l, m \in All : \A j \in DOMAIN operands(l), k \in DOMAIN operands(m) :
           operands(l)[j] = operands(m)[k] => l = m /\ j = k
      /\ \A n \in DOMAIN Nodes : \E m \in All : \E k \in DOMAIN operands(m) : operands(m)[k] = n
  BY TreesAssumption DEF Nodes
<1>2. /\ program.body \in Seq(Nat)
      /\ DOMAIN Nodes = 1 .. Len(Nodes) /\ Len(Nodes) \in Nat
      /\ \A n \in DOMAIN Nodes : Nodes[n].args \in Seq(Nat)
  BY ProgramFacts
<1>3. /\ \A m \in DOMAIN Nodes : m \in All /\ m # 0 /\ operands(m) = Nodes[m].args
      /\ 0 \in All /\ operands(0) = program.body
      /\ \A m \in All : m # 0 => m \in DOMAIN Nodes
  BY <1>2
<1>4. /\ \A m \in DOMAIN Nodes : DOMAIN operands(m) = 1 .. Len(Nodes[m].args)
      /\ DOMAIN operands(0) = 1 .. Len(program.body)
  BY <1>2, <1>3
<1>5. \A m \in DOMAIN Nodes : \A n :
        n \in ToSet(Nodes[m].args) <=> \E k \in 1 .. Len(Nodes[m].args) : Nodes[m].args[k] = n
  BY <1>2 DEF ToSet
<1> HIDE DEF All, operands
<1>6. ASSUME NEW m \in DOMAIN Nodes, NEW k \in 1 .. Len(Nodes[m].args)
      PROVE  /\ m < Nodes[m].args[k]
             /\ Parents(Nodes[m].args[k]) = {m}
             /\ \A j \in 1 .. Len(Nodes[m].args) : Nodes[m].args[j] = Nodes[m].args[k] => j = k
  <2> DEFINE n == Nodes[m].args[k]
  <2>1. m < n
    BY <1>1, <1>3, <1>4
  <2>2. ASSUME NEW l \in DOMAIN Nodes PROVE n \in ToSet(Nodes[l].args) <=> l = m
    <3>1. n \in ToSet(Nodes[m].args)
      BY <1>5
    <3>2. ASSUME NEW j \in 1 .. Len(Nodes[l].args), Nodes[l].args[j] = n PROVE l = m
      <4>1. l \in All /\ m \in All /\ j \in DOMAIN operands(l) /\ k \in DOMAIN operands(m)
        BY <1>3, <1>4
      <4>2. operands(l)[j] = operands(m)[k]
        BY <1>3, <3>2
      <4> QED
        BY <1>1, <4>1, <4>2
    <3> QED
      BY <1>5, <3>1, <3>2
  <2>3. Parents(n) = {m}
    BY <2>2 DEF Parents
  <2>4. \A j \in 1 .. Len(Nodes[m].args) : Nodes[m].args[j] = n => j = k
    BY <1>1, <1>3, <1>4
  <2> QED
    BY <2>1, <2>3, <2>4
<1>7. ASSUME NEW k \in 1 .. Len(program.body)
      PROVE  /\ Parents(program.body[k]) = {}
             /\ \A j \in 1 .. Len(program.body) : program.body[j] = program.body[k] => j = k
  <2>1. ASSUME NEW l \in DOMAIN Nodes, NEW j \in 1 .. Len(Nodes[l].args),
               Nodes[l].args[j] = program.body[k]
        PROVE  FALSE
    <3>1. l \in All /\ 0 \in All /\ l # 0 /\ j \in DOMAIN operands(l) /\ k \in DOMAIN operands(0)
      BY <1>3, <1>4
    <3>2. operands(l)[j] = operands(0)[k]
      BY <1>3, <2>1
    <3> QED
      BY <1>1, <3>1, <3>2
  <2>2. \A j \in 1 .. Len(program.body) : program.body[j] = program.body[k] => j = k
    BY <1>1, <1>3, <1>4
  <2> QED
    BY <1>5, <2>1, <2>2 DEF Parents
<1>8. ASSUME NEW n \in DOMAIN Nodes
      PROVE  \/ \E k \in 1 .. Len(program.body) : program.body[k] = n
             \/ \E m \in DOMAIN Nodes : \E k \in 1 .. Len(Nodes[m].args) : Nodes[m].args[k] = n
  BY <1>1, <1>3, <1>4
<1>9. ASSUME NEW n \in DOMAIN Nodes
      PROVE  /\ Nodes[n].kind \in Leaves => Len(Nodes[n].args) = 0
             /\ Nodes[n].kind = "dereference" => Len(Nodes[n].args) = 1
  BY ProgramsAssumption DEF Nodes
<1> QED
  BY <1>6, <1>7, <1>8, <1>9

\* Every non-empty set of naturals has a least element.
LEMMA LeastNat ==
  ASSUME NEW S \in SUBSET Nat, S # {}
  PROVE  \E x \in S : \A j \in S : x <= j
<1> DEFINE R == OpToRel(<, Nat)
<1>1. IsWellFoundedOn(R, Nat)
  BY NatLessThanWellFounded
<1>2. \A x, y \in Nat : x < y => <<x, y>> \in R
  BY DEF OpToRel
<1> HIDE DEF R
<1>3. PICK x \in S : \A y \in S : ~ (<<y, x>> \in R)
  BY <1>1, WFMin
<1>4. ASSUME NEW y \in S PROVE x <= y
  <2>1. x \in Nat /\ y \in Nat
    OBVIOUS
  <2>2. ~(y < x)
    BY <1>2, <1>3, <2>1
  <2> QED
    BY <2>1, <2>2
<1> QED
  BY <1>4

\* A function on the nodes that is given by its value at the parent: there is one, as there
\* is no least node up to which there is none.
Inherits(f, m, X, par, base, F) ==
  /\ f \in [1 .. m -> X]
  /\ \A n \in 1 .. m : f[n] = IF par[n] = 0 THEN base[n] ELSE F[n][f[par[n]]]

LEMMA InheritedFrom ==
  ASSUME NEW X, NEW N \in Nat, NEW par \in [1 .. N -> Nat], \A n \in 1 .. N : par[n] < n,
         NEW base \in [1 .. N -> X], NEW F \in [1 .. N -> [X -> X]]
  PROVE  \E f : Inherits(f, N, X, par, base, F)
<1> DEFINE S == {m \in 0 .. N : ~ \E f : Inherits(f, m, X, par, base, F)}
<1>1. CASE S = {}
  <2>1. N \in 0 .. N
    OBVIOUS
  <2> QED
    BY <1>1, <2>1
<1>2. CASE S # {}
  <2>1. S \in SUBSET Nat
    OBVIOUS
  <2>2. PICK m \in S : \A j \in S : m <= j
    BY <1>2, <2>1, LeastNat
  <2>3. m \in 0 .. N /\ ~ \E f : Inherits(f, m, X, par, base, F)
    BY <2>2
  <2>4. CASE m = 0
    <3> DEFINE f == [n \in 1 .. 0 |-> base[n]]
    <3>1. Inherits(f, 0, X, par, base, F)
      BY DEF Inherits
    <3> QED
      BY <2>3, <2>4, <3>1
  <2>5. CASE m # 0
    <3>1. m - 1 \in 0 .. N /\ m \in 1 .. N /\ ~(m <= m - 1)
      BY <2>3, <2>5
    <3>2. m - 1 \notin S
      BY <2>2, <3>1
    <3>3. PICK f : Inherits(f, m - 1, X, par, base, F)
      BY <3>1, <3>2
    <3>4. /\ f \in [1 .. m - 1 -> X]
          /\ \A n \in 1 .. m - 1 : f[n] = IF par[n] = 0 THEN base[n] ELSE F[n][f[par[n]]]
      BY <3>3 DEF Inherits
    <3> HIDE DEF S
    <3>5. par[m] \in Nat /\ par[m] < m /\ (par[m] # 0 => par[m] \in 1 .. m - 1)
      BY <3>1
    <3> DEFINE x == IF par[m] = 0 THEN base[m] ELSE F[m][f[par[m]]]
               g == [n \in 1 .. m |-> IF n = m THEN x ELSE f[n]]
    <3>6. x \in X
      BY <3>1, <3>4, <3>5
    <3>7. /\ g[m] = x
          /\ \A n \in 1 .. m - 1 : g[n] = f[n]
      BY <3>1
    <3>8. g \in [1 .. m -> X]
      BY <3>1, <3>4, <3>6
    <3>9. ASSUME NEW n \in 1 .. m PROVE g[n] = IF par[n] = 0 THEN base[n] ELSE F[n][g[par[n]]]
      <4>1. CASE n = m
        <5>1. par[m] # 0 => g[par[m]] = f[par[m]]
          BY <3>5, <3>7
        <5> HIDE DEF g
        <5> QED
          BY <3>7, <4>1, <5>1 DEF x
      <4>2. CASE n # m
        <5>1. n \in 1 .. m - 1
          BY <3>1, <4>2
        <5>2. par[n] \in Nat /\ par[n] < n /\ (par[n] # 0 => par[n] \in 1 .. m - 1)
          BY <3>1, <5>1
        <5>3. par[n] # 0 => g[par[n]] = f[par[n]]
          BY <3>7, <5>2
        <5> HIDE DEF g, x
        <5> QED
          BY <3>4, <3>7, <5>1, <5>3
      <4> QED
        BY <4>1, <4>2
    <3>10. Inherits(g, m, X, par, base, F)
      <4> HIDE DEF g, x
      <4> QED
        BY <3>8, <3>9 DEF Inherits
    <3> QED
      BY <2>3, <3>10
  <2> QED
    BY <2>4, <2>5
<1> QED
  BY <1>1, <1>2

\* The recursions of the model over the trees.
LEMMA GenerationsIs ==
  ASSUME program \in Programs
  PROVE  /\ Generations \in [DOMAIN Nodes -> Nat]
         /\ \A n \in DOMAIN Nodes : Parents(n) = {} => Generations[n] = 1
         /\ \A m, n \in DOMAIN Nodes : Parents(n) = {m} =>
              Generations[n] = Generations[m] * IF Nodes[m].kind \in Doubled THEN 2 ELSE 1
<1> DEFINE N == Len(Nodes)
           P(n) == CHOOSE p \in Parents(n) : TRUE
           par == [n \in 1 .. N |-> IF Parents(n) = {} THEN 0 ELSE P(n)]
           base == [n \in 1 .. N |-> 1]
           times(m) == IF Nodes[m].kind \in Doubled THEN 2 ELSE 1
           F == [n \in 1 .. N |-> [x \in Nat |-> x * times(P(n))]]
           Rule(f) == f = [n \in 1 .. N |-> IF Parents(n) = {} THEN 1 ELSE f[P(n)] * times(P(n))]
<1>1. N \in Nat /\ DOMAIN Nodes = 1 .. N
  BY ProgramFacts
<1>2. ASSUME NEW n \in 1 .. N, Parents(n) # {} PROVE P(n) \in 1 .. N /\ P(n) < n
  <2>1. P(n) \in Parents(n)
    BY <1>2
  <2>2. P(n) \in DOMAIN Nodes /\ n \in ToSet(Nodes[P(n)].args)
    BY <2>1 DEF Parents
  <2> DEFINE q == P(n)
  <2> HIDE DEF q
  <2>3. q \in DOMAIN Nodes /\ n \in ToSet(Nodes[q].args)
    BY <2>2 DEF q
  <2>4. PICK k \in 1 .. Len(Nodes[q].args) : Nodes[q].args[k] = n
    BY <2>3, ProgramFacts DEF ToSet
  <2>5. q < n
    BY <2>3, <2>4, TreeFacts
  <2> QED
    BY <1>1, <2>3, <2>5 DEF q
<1>3. par \in [1 .. N -> Nat] /\ \A n \in 1 .. N : par[n] < n
  BY <1>1, <1>2
<1>4. base \in [1 .. N -> Nat]
  OBVIOUS
<1>5. F \in [1 .. N -> [Nat -> Nat]]
  OBVIOUS
<1>6. PICK f : Inherits(f, N, Nat, par, base, F)
  <2> HIDE DEF N, par, base, F
  <2> QED
    BY <1>1, <1>3, <1>4, <1>5, InheritedFrom
<1>7. /\ f \in [1 .. N -> Nat]
      /\ \A n \in 1 .. N : f[n] = IF par[n] = 0 THEN base[n] ELSE F[n][f[par[n]]]
  <2> HIDE DEF N, par, base, F
  <2> QED
    BY <1>6 DEF Inherits
<1>8. ASSUME NEW n \in 1 .. N
      PROVE  f[n] = IF Parents(n) = {} THEN 1 ELSE f[P(n)] * times(P(n))
  <2>1. CASE Parents(n) = {}
    BY <1>7, <2>1
  <2>2. CASE Parents(n) # {}
    <3>1. P(n) \in 1 .. N /\ par[n] = P(n) /\ par[n] # 0
      BY <1>2, <2>2
    <3>2. f[P(n)] \in Nat
      BY <1>7, <3>1
    <3>3. f[n] = F[n][f[P(n)]]
      BY <1>7, <3>1
    <3> HIDE DEF times, P
    <3> QED
      BY <2>2, <3>2, <3>3
  <2> QED
    BY <2>1, <2>2
<1>9. Rule(f)
  <2> HIDE DEF N, P, times
  <2> QED
    BY <1>7, <1>8
<1>10. Generations = CHOOSE h : Rule(h)
  BY <1>1 DEF Generations, Doubled
<1>11. Rule(Generations)
  BY <1>9, <1>10
<1> DEFINE G == Generations
<1>12. G = [n \in 1 .. N |-> IF Parents(n) = {} THEN 1 ELSE G[P(n)] * times(P(n))]
  BY <1>11
<1> HIDE DEF G
<1>13. ASSUME NEW n \in 1 .. N
       PROVE  G[n] = IF Parents(n) = {} THEN 1 ELSE G[P(n)] * times(P(n))
  <2> HIDE DEF N, P, times
  <2> QED
    BY <1>12
<1>14. ASSUME NEW n \in 1 .. N PROVE G[n] \in Nat
  <2> DEFINE S == {x \in 1 .. N : G[x] \notin Nat}
  <2>1. CASE S = {}
    BY <2>1
  <2>2. CASE S # {}
    <3>1. S \in SUBSET Nat
      BY <1>1
    <3>2. PICK x \in S : \A j \in S : x <= j
      BY <2>2, <3>1, LeastNat
    <3>3. x \in 1 .. N /\ G[x] \notin Nat
      BY <3>2
    <3>4. Parents(x) # {}
      BY <1>13, <3>3
    <3>5. P(x) \in 1 .. N /\ P(x) < x /\ x \in Nat
      BY <1>1, <1>2, <3>3, <3>4
    <3>6. P(x) \notin S
      BY <3>2, <3>5
    <3>7. G[P(x)] \in Nat
      BY <3>5, <3>6
    <3>8. times(P(x)) \in Nat
      OBVIOUS
    <3>9. G[x] = G[P(x)] * times(P(x))
      BY <1>13, <3>3, <3>4
    <3> HIDE DEF P, times, S
    <3> QED
      BY <3>3, <3>7, <3>8, <3>9
  <2> QED
    BY <2>1, <2>2
<1>15. G \in [1 .. N -> Nat]
  <2> HIDE DEF N, P, times
  <2> QED
    BY <1>12, <1>14
<1>16. ASSUME NEW m \in DOMAIN Nodes, NEW n \in DOMAIN Nodes, Parents(n) = {m}
       PROVE  G[n] = G[m] * times(m)
  <2>1. P(n) = m
    BY <1>16
  <2> HIDE DEF P, times, N
  <2> QED
    BY <1>1, <1>13, <1>16, <2>1
<1>17. \A n \in DOMAIN Nodes : Parents(n) = {} => G[n] = 1
  BY <1>1, <1>13
<1> QED
  BY <1>1, <1>15, <1>16, <1>17 DEF G

LEMMA AboveIs ==
  ASSUME program \in Programs
  PROVE  /\ \A n \in DOMAIN Nodes : Parents(n) = {} => Above[n] = {}
         /\ \A m, n \in DOMAIN Nodes : Parents(n) = {m} => Above[n] = {m} \cup Above[m]
<1> DEFINE N == Len(Nodes)
           X == SUBSET DOMAIN Nodes
           P(n) == CHOOSE p \in Parents(n) : TRUE
           par == [n \in 1 .. N |-> IF Parents(n) = {} THEN 0 ELSE P(n)]
           base == [n \in 1 .. N |-> {}]
           F == [n \in 1 .. N |-> [x \in X |-> Parents(n) \cup x]]
           Rule(f) == f = [n \in 1 .. N |-> Parents(n) \cup UNION {f[m] : m \in Parents(n)}]
<1>1. N \in Nat /\ DOMAIN Nodes = 1 .. N
  BY ProgramFacts
<1>2. ASSUME NEW n \in 1 .. N, Parents(n) # {}
      PROVE  P(n) \in 1 .. N /\ P(n) < n /\ Parents(n) = {P(n)}
  <2>1. P(n) \in Parents(n)
    BY <1>2
  <2>2. P(n) \in DOMAIN Nodes /\ n \in ToSet(Nodes[P(n)].args)
    BY <2>1 DEF Parents
  <2> DEFINE q == P(n)
  <2> HIDE DEF q
  <2>3. q \in DOMAIN Nodes /\ n \in ToSet(Nodes[q].args)
    BY <2>2 DEF q
  <2>4. PICK k \in 1 .. Len(Nodes[q].args) : Nodes[q].args[k] = n
    BY <2>3, ProgramFacts DEF ToSet
  <2>5. q < n /\ Parents(n) = {q}
    BY <2>3, <2>4, TreeFacts
  <2> QED
    BY <1>1, <2>3, <2>5 DEF q
<1>3. par \in [1 .. N -> Nat] /\ \A n \in 1 .. N : par[n] < n
  BY <1>1, <1>2
<1>4. base \in [1 .. N -> X]
  OBVIOUS
<1>5. F \in [1 .. N -> [X -> X]]
  BY DEF Parents
<1>6. PICK f : Inherits(f, N, X, par, base, F)
  <2> HIDE DEF N, X, par, base, F
  <2> QED
    BY <1>1, <1>3, <1>4, <1>5, InheritedFrom
<1>7. /\ f \in [1 .. N -> X]
      /\ \A n \in 1 .. N : f[n] = IF par[n] = 0 THEN base[n] ELSE F[n][f[par[n]]]
  <2> HIDE DEF N, X, par, base, F
  <2> QED
    BY <1>6 DEF Inherits
<1>8. ASSUME NEW n \in 1 .. N
      PROVE  f[n] = Parents(n) \cup UNION {f[m] : m \in Parents(n)}
  <2>1. CASE Parents(n) = {}
    <3>1. f[n] = {}
      BY <1>7, <2>1
    <3>2. {f[m] : m \in Parents(n)} = {}
      BY <2>1
    <3> QED
      BY <2>1, <3>1, <3>2
  <2>2. CASE Parents(n) # {}
    <3>1. P(n) \in 1 .. N /\ par[n] = P(n) /\ par[n] # 0 /\ Parents(n) = {P(n)}
      BY <1>2, <2>2
    <3>2. f[P(n)] \in X
      BY <1>7, <3>1
    <3>3. f[n] = F[n][f[P(n)]]
      BY <1>7, <3>1
    <3> HIDE DEF P, X
    <3>4. f[n] = Parents(n) \cup f[P(n)]
      BY <3>2, <3>3
    <3> QED
      BY <3>1, <3>4
  <2> QED
    BY <2>1, <2>2
<1>9. Rule(f)
  <2> HIDE DEF N, P, X
  <2> QED
    BY <1>7, <1>8
<1>10. Above = CHOOSE h : Rule(h)
  BY <1>1 DEF Above
<1>11. Rule(Above)
  <2> HIDE DEF Rule
  <2> QED
    BY <1>9, <1>10, Zenon
<1> DEFINE G == Above
<1>12. G = [n \in 1 .. N |-> Parents(n) \cup UNION {G[m] : m \in Parents(n)}]
  BY <1>11
<1> HIDE DEF G
<1>13. ASSUME NEW n \in 1 .. N
       PROVE  G[n] = Parents(n) \cup UNION {G[m] : m \in Parents(n)}
  BY <1>12
<1> QED
  BY <1>1, <1>13 DEF G

-----------------------------------------------------------------------------
(***************************************************************************)
(* The walk over the trees                                                 *)
(***************************************************************************)
\* The operands of a generator that have been begun, and that are done, in its round.
Begun(k) == stack[k].i + IF k < Len(stack) \/ returned # Waiting THEN 1 ELSE 0
Done(k) == stack[k].i + IF k = Len(stack) /\ returned # Waiting THEN 1 ELSE 0

OnPath ==
  /\ stack # <<>> => stmt <= Len(program.body) /\ stack[1].node = program.body[stmt]
  /\ \A k \in 1 .. Len(stack) - 1 :
       stack[k + 1].node = Nodes[stack[k].node].args[stack[k].i + 1]

Rounds ==
  \A k \in 1 .. Len(stack) :
    /\ Nodes[stack[k].node].kind \notin Doubled => stack[k].round = 1
    /\ Nodes[stack[k].node].kind = "dereference" => stack[k].i = 0 /\ stack[k].values = <<>>

NullIsLost == returned = Null /\ stack # <<>> => lost

EndsWell ==
  /\ wasError => stack # <<>> \/ returned # Waiting
  /\ status = "done" => stack = <<>> /\ returned = Waiting /\ stmt > Len(program.body)

WalkInv == OnPath /\ Rounds /\ NullIsLost /\ EndsWell

(***************************************************************************)
(* What a step is for this walk: nothing, an operand or a statement that   *)
(* is begun, a value taken, the second round of a generator, its end, or   *)
(* the end of a statement.                                                 *)
(***************************************************************************)
Kept == UNCHANGED <<stmt, code, lost, wasError>> /\ status' # "done"

Rests ==
  /\ UNCHANGED <<stack, returned, stmt, code, lost, wasError>>
  /\ status' = "done" =>
       \/ status = "done"
       \/ stack = <<>> /\ returned = Waiting /\ stmt > Len(program.body)

Enters(n) ==
  /\ returned = Waiting
  /\ Pushed(n)
  /\ stack = <<>> => stmt <= Len(program.body) /\ n = program.body[stmt]
  /\ stack # <<>> => Top.i < Len(Node.args) /\ n = NextArg
  /\ Kept

Receives ==
  /\ stack # <<>> /\ returned # Waiting
  /\ Node.kind # "dereference"
  /\ Changed(Received)
  /\ Kept

Repeats(t) ==
  /\ stack # <<>>
  /\ Node.kind \in Doubled
  /\ Top.round = 1
  /\ Begun(Len(stack)) = Len(Node.args)
  /\ t.node = Top.node /\ t.round = 2 /\ t.i = 0 /\ t.values = <<>>
  /\ Changed(t)
  /\ Kept

EmitsCall(v) ==
  /\ returned = Waiting /\ Complete /\ Node.kind # "dereference"
  /\ \E g \in 1 .. Len(functionIDs) : EmitCall(g)
  /\ v.at # 0 => v.node = Top.node /\ v.at = Len(code) + 1

Passes(v) ==
  /\ UNCHANGED code
  /\ Node.kind \in Calls => lost' \/ wasError'
  /\ v.at # 0 =>
       \/ Node.kind = "pipe" /\ v = returned
       \/ Node.kind = "placeholder" /\ pipeOperationValue # <<>> /\ v = Last(pipeOperationValue)

Through == Begun(Len(stack)) = Len(Node.args) /\ (Node.kind \in Doubled => Top.round = 2)

Ends(v) ==
  /\ stack # <<>>
  /\ v \in LLVMValue
  /\ Popped(v)
  /\ UNCHANGED stmt /\ status' # "done"
  /\ lost => lost'
  /\ wasError => wasError'
  /\ v = Null /\ Len(stack) > 1 => lost'
  /\ Through \/ lost' \/ wasError'
  /\ EmitsCall(v) \/ Passes(v)

EndsStatement ==
  /\ stack = <<>> /\ returned # Waiting /\ ~wasError
  /\ stmt' = stmt + 1
  /\ returned' = Waiting
  /\ UNCHANGED <<stack, code, lost, wasError>> /\ status' # "done"

Moves ==
  Rests \/ (\E n \in DOMAIN Nodes : Enters(n)) \/ Receives \/ (\E t \in CallFrame : Repeats(t))
    \/ (\E v : Ends(v)) \/ EndsStatement

\* Entering, receiving and returning are such steps.
LEMMA EnterMoves ==
  ASSUME StackInv, RestInv, stack # <<>>, returned = Waiting, ~Complete, Enter(NextArg),
         UNCHANGED <<stmt, code, wasError, status>>, status = "generating"
  PROVE  Moves
<1>1. NextArg \in DOMAIN Nodes /\ Top.i < Len(Node.args)
  BY TopFacts
<1>2. Enters(NextArg)
  BY <1>1 DEF Enters, Enter, Pushed, Kept
<1> QED
  BY <1>1, <1>2 DEF Moves

LEMMA ReturnMoves ==
  ASSUME stack # <<>>, NEW v \in LLVMValue, Return(v), UNCHANGED <<stmt, status>>,
         status = "generating", wasError => wasError',
         Through \/ lost' \/ wasError', EmitsCall(v) \/ Passes(v)
  PROVE  Moves
<1>1. Ends(v)
  BY DEF Ends, Return, Popped
<1> QED
  BY <1>1 DEF Moves

\* A generator that waits has begun the operands it is done with, and one that has a value
\* the one this is of.
LEMMA TopBegun ==
  ASSUME StackInv, RestInv, stack # <<>>
  PROVE  /\ returned = Waiting => Begun(Len(stack)) = Top.i /\ Done(Len(stack)) = Top.i
         /\ returned # Waiting => Begun(Len(stack)) = Top.i + 1 /\ Done(Len(stack)) = Top.i + 1
<1>1. Top.i \in Nat /\ ~(Len(stack) < Len(stack))
  BY TopFacts DEF StackInv
<1> QED
  BY <1>1 DEF Begun, Done, Top

LEMMA LeafMoves ==
  ASSUME StackInv, RestInv, WalkInv, Leaf
  PROVE  Moves
<1>1. /\ stack # <<>> /\ returned = Waiting /\ Node.kind \in Leaves /\ status = "generating"
      /\ UNCHANGED <<stmt, code, wasError, status>>
  BY DEF Leaf, At, Generating
<1>2. Node.kind \notin Calls /\ Node.kind \notin Doubled
  BY <1>1 DEF Leaves, Calls, Doubled
<1>3. Through
  <2>1. Len(Node.args) = 0 /\ Top.i \in 0 .. Len(Node.args)
    BY <1>1, TopFacts, TreeFacts DEF RestInv, Node
  <2>2. Begun(Len(stack)) = Top.i
    BY <1>1, TopBegun
  <2> QED
    BY <1>2, <2>1, <2>2 DEF Through
<1>4. ASSUME NEW v \in LLVMValue, Return(v),
             v.at # 0 => /\ Node.kind = "placeholder" /\ pipeOperationValue # <<>>
                         /\ v = Last(pipeOperationValue)
      PROVE  Moves
  <2>1. Passes(v)
    BY <1>1, <1>2, <1>4 DEF Passes
  <2> QED
    BY <1>1, <1>3, <1>4, <2>1, ReturnMoves
<1> DEFINE type == IF Top.node \in isRef THEN Identifier_Node ELSE Node.type
<1>5. Top.node \in Nat /\ Node.type \in Nat /\ type \in Nat
  <2>1. Node \in ASTNode /\ Top.node \in Nat
    BY <1>1, TopFacts
  <2>2. Node.type \in Nat /\ Identifier_Node \in Nat
    BY <2>1, TypesAreNumbers DEF ASTNode, Identifier_Node
  <2> QED
    BY <2>1, <2>2
<1>6. ASSUME NEW x \in Nat, Return(Value(Top.node, 0, x)) PROVE Moves
  <2>1. Value(Top.node, 0, x) \in LLVMValue /\ Value(Top.node, 0, x).at = 0
    BY <1>5, ValueType DEF Value
  <2> QED
    BY <1>4, <1>6, <2>1
<1>7. CASE Node.kind = "constant"
  BY <1>5, <1>6, <1>7 DEF Leaf, VariableType
<1>8. CASE Node.kind = "variable"
  BY <1>5, <1>6, <1>8 DEF Leaf, VariableType
<1>9. CASE Node.kind = "placeholder"
  <2>1. Return(IF pipeOperationValue = <<>> THEN Null ELSE Last(pipeOperationValue))
    BY <1>9 DEF Leaf, VariableType
  <2>2. CASE pipeOperationValue = <<>>
    <3>1. Null \in LLVMValue /\ Null.at = 0
      BY NullType DEF Null, Value
    <3> QED
      BY <1>4, <2>1, <2>2, <3>1
  <2>3. CASE pipeOperationValue # <<>>
    <3>1. Last(pipeOperationValue) \in LLVMValue
      BY <2>3 DEF RestInv, Last
    <3> QED
      BY <1>4, <1>9, <2>1, <2>3, <3>1
  <2> QED
    BY <2>2, <2>3
<1> QED
  BY <1>1, <1>7, <1>8, <1>9 DEF Leaves

\* A call that is given up.
LEMMA GivenUpMoves ==
  ASSUME stack # <<>>, Return(Null), UNCHANGED <<stmt, status, code>>, status = "generating",
         wasError => wasError', lost' \/ wasError'
  PROVE  Moves
<1>1. Null \in LLVMValue /\ Null.at = 0
  BY NullType DEF Null, Value
<1>2. Passes(Null)
  BY <1>1 DEF Passes
<1> QED
  BY <1>1, <1>2, ReturnMoves

LEMMA ReceiveMoves ==
  ASSUME stack # <<>>, returned # Waiting, Node.kind # "dereference", Receive,
         UNCHANGED <<stmt, code, wasError, status>>, status = "generating"
  PROVE  Moves
BY DEF Moves, Receives, Receive, Changed, Kept

LEMMA BodyMoves ==
  ASSUME StackInv, RestInv, Statement \/ EndStatement \/ EndBody \/ ExitOnError
  PROVE  Moves
<1>1. CASE Statement
  <2>1. stmt \in 1 .. Len(program.body)
    BY <1>1, SizeFacts DEF Statement, RestInv
  <2>2. program.body[stmt] \in DOMAIN Nodes
    BY <2>1, ProgramFacts DEF RestInv
  <2>3. Enters(program.body[stmt])
    BY <1>1 DEF Statement, Enters, Enter, Pushed, Kept
  <2> QED
    BY <2>2, <2>3 DEF Moves
<1>2. CASE EndStatement
  BY <1>2 DEF EndStatement, EndsStatement, Moves
<1>3. CASE EndBody
  BY <1>3 DEF EndBody, Rests, Moves
<1>4. CASE ExitOnError
  BY <1>4 DEF ExitOnError, Exit, Rests, Moves
<1> QED
  BY <1>1, <1>2, <1>3, <1>4

LEMMA LookupMoves ==
  ASSUME StackInv, RestInv, UndefinedFunction \/ IncorrectNumber \/ FoundFunction
  PROVE  Moves
<1>1. /\ stack # <<>> /\ returned = Waiting /\ Node.kind \in Calls /\ status = "generating"
      /\ Top.round = 1 /\ Complete
      /\ UNCHANGED <<stmt, code, status>>
  BY DEF UndefinedFunction, IncorrectNumber, FoundFunction, LookedUp, At, Generating
<1>2. CASE UndefinedFunction \/ IncorrectNumber
  BY <1>1, <1>2, GivenUpMoves DEF UndefinedFunction, IncorrectNumber
<1>3. CASE FoundFunction
  <2>1. /\ Again \in CallFrame /\ Again.node = Top.node /\ Again.round = 2 /\ Again.i = 0
        /\ Again.values = <<>>
    BY <1>1, AgainFields
  <2>2. Begun(Len(stack)) = Len(Node.args)
    BY <1>1, TopBegun DEF Complete
  <2>3. Changed(Again) /\ Kept
    BY <1>1, <1>3 DEF FoundFunction, Changed, Kept
  <2>4. Repeats(Again)
    BY <1>1, <2>1, <2>2, <2>3 DEF Repeats, Doubled
  <2> QED
    BY <2>1, <2>4 DEF Moves
<1> QED
  BY <1>2, <1>3

LEMMA CallMoves ==
  ASSUME StackInv, RestInv, NotAReference \/ ArgumentAgain \/ CreateCall
  PROVE  Moves
<1>1. /\ stack # <<>> /\ returned = Waiting /\ Node.kind \in Calls /\ status = "generating"
      /\ Top.round = 2
      /\ UNCHANGED <<stmt, status>>
  BY DEF NotAReference, ArgumentAgain, CreateCall, NotComplete, At, Generating
<1>2. CASE NotAReference
  BY <1>1, <1>2, GivenUpMoves DEF NotAReference
<1>3. CASE ArgumentAgain
  <2>1. ~Complete /\ Enter(NextArg) /\ UNCHANGED <<code, wasError>>
    BY <1>3 DEF ArgumentAgain, NotComplete
  <2> QED
    BY <1>1, <2>1, EnterMoves
<1>4. CASE CreateCall
  <2> DEFINE x == ResultType(functionIDs[Top.callee])
             v == Result(x)
  <2>1. Complete /\ EmitCall(Top.callee) /\ Return(v) /\ UNCHANGED wasError
    BY <1>4 DEF CreateCall
  <2>2. Top.callee \in 1 .. Len(functionIDs)
    <3>1. /\ Top.callee \in 0 .. Len(functionIDs) /\ FrameOK(Top) /\ Len(functionIDs) \in Nat
      BY <1>1, TopFacts, SizeFacts
    <3>2. Top.callee # 0
      BY <1>1, <3>1 DEF FrameOK, Node
    <3> QED
      BY <3>1, <3>2
  <2>3. functionIDs[Top.callee] \in FunctionID
    BY <2>2 DEF RestInv
  <2>4. v \in LLVMValue /\ (v.at # 0 => v.node = Top.node /\ v.at = Len(code) + 1)
    <3>1. x \in Nat
      BY <2>3, TypesAreNumbers DEF ResultType, FunctionID, Void, Identifier_Node
    <3> HIDE DEF x
    <3>2. CASE x = Void
      BY <3>2, NullType DEF Result, Null, Value
    <3>3. CASE x # Void
      <4>1. Top.node \in Nat /\ Len(code) + 1 \in Nat
        BY <1>1, TopFacts, SizeFacts
      <4>2. v = Value(Top.node, Len(code) + 1, x)
        BY <3>3 DEF Result
      <4> HIDE DEF v
      <4> QED
        BY <3>1, <4>1, <4>2, ValueType DEF Value
    <3> QED
      BY <3>2, <3>3
  <2>5. Through
    <3>1. Begun(Len(stack)) = Top.i
      BY <1>1, TopBegun
    <3> QED
      BY <1>1, <2>1, <3>1 DEF Through, Complete
  <2>6. EmitsCall(v)
    BY <1>1, <2>1, <2>2, <2>4 DEF EmitsCall, Calls
  <2> HIDE DEF v
  <2> QED
    BY <1>1, <2>1, <2>4, <2>5, <2>6, ReturnMoves
<1> QED
  BY <1>2, <1>3, <1>4

LEMMA ArgumentMoves ==
  ASSUME StackInv, RestInv, WalkInv, Operand \/ TypeOfNull \/ ArgumentLost \/ ArgumentValue
  PROVE  Moves
<1>1. CASE Operand
  <2>1. /\ stack # <<>> /\ returned = Waiting /\ status = "generating" /\ ~Complete
        /\ Enter(NextArg) /\ UNCHANGED <<stmt, code, wasError, status>>
    BY <1>1 DEF Operand, At, Generating
  <2> QED
    BY <2>1, EnterMoves
<1>2. CASE TypeOfNull
  BY <1>2 DEF TypeOfNull, Rests, Moves
<1>3. CASE ArgumentLost
  <2>1. /\ stack # <<>> /\ returned = Null /\ status = "generating" /\ Return(Null)
        /\ UNCHANGED <<stmt, code, wasError, status>>
    BY <1>3 DEF ArgumentLost, Got, Generating
  <2>2. lost'
    BY <2>1 DEF WalkInv, NullIsLost, Return
  <2> QED
    BY <2>1, <2>2, GivenUpMoves
<1>4. CASE ArgumentValue
  <2>1. /\ stack # <<>> /\ returned # Waiting /\ status = "generating" /\ Receive
        /\ Node.kind # "dereference" /\ UNCHANGED <<stmt, code, wasError, status>>
    BY <1>4 DEF ArgumentValue, Got, Generating, Calls
  <2> QED
    BY <2>1, ReceiveMoves
<1> QED
  BY <1>1, <1>2, <1>3, <1>4

LEMMA PipeMoves ==
  ASSUME StackInv, RestInv, PipeLeft \/ PipeRight \/ OperandValue
  PROVE  Moves
<1>1. /\ stack # <<>> /\ returned # Waiting /\ status = "generating"
      /\ Node.kind \in {"pipe", "operator"}
      /\ UNCHANGED <<stmt, code, wasError, status>>
  BY DEF PipeLeft, PipeRight, OperandValue, Got, Generating
<1>2. CASE PipeLeft \/ OperandValue
  <2>1. Receive
    BY <1>2 DEF PipeLeft, OperandValue
  <2> QED
    BY <1>1, <2>1, ReceiveMoves
<1>3. CASE PipeRight
  <2>1. Top.i = 1 /\ Node.kind = "pipe" /\ Return(returned)
    BY <1>3 DEF PipeRight, Got
  <2>2. Len(Node.args) = 2
    BY <1>1, TopFacts, ProgramFacts DEF RestInv, Node
  <2>3. Through
    <3>1. Begun(Len(stack)) = 2
      BY <1>1, <2>1, TopBegun
    <3> QED
      BY <2>1, <2>2, <3>1 DEF Through, Doubled, Calls
  <2>4. Passes(returned)
    BY <1>1, <2>1 DEF Passes, Calls
  <2>5. returned \in LLVMValue
    BY <1>1 DEF StackInv
  <2> QED
    BY <1>1, <2>1, <2>3, <2>4, <2>5, ReturnMoves
<1> QED
  BY <1>2, <1>3

LEMMA OperationMoves ==
  ASSUME StackInv, RestInv, Operation
  PROVE  Moves
<1> DEFINE L == Top.values[1]
           R == Top.values[2]
<1>1. /\ stack # <<>> /\ returned = Waiting /\ status = "generating"
      /\ Node.kind = "operator" /\ Complete /\ UNCHANGED stmt
  BY DEF Operation, At, Generating
<1>2. Through /\ Node.kind \notin Calls
  <2>1. Begun(Len(stack)) = Top.i
    BY <1>1, TopBegun
  <2> QED
    BY <1>1, <2>1 DEF Through, Complete, Doubled, Calls
<1>3. ASSUME NEW v \in LLVMValue, v.at = 0, Return(v), UNCHANGED <<code, status>>,
             wasError => wasError'
      PROVE  Moves
  <2>1. Passes(v)
    BY <1>2, <1>3 DEF Passes
  <2> QED
    BY <1>1, <1>2, <1>3, <2>1, ReturnMoves
<1>4. CASE /\ Null \in {L, R}
           /\ Return(Null)
           /\ UNCHANGED <<code, wasError, status>>
  <2>1. Null \in LLVMValue /\ Null.at = 0
    BY NullType DEF Null, Value
  <2> QED
    BY <1>3, <1>4, <2>1
<1>5. CASE /\ Null \notin {L, R} /\ Overload # 0
           /\ EmitCall(Overload)
           /\ Return(LET type == functionIDs[Overload].returns
                     IN  Result(IF type = Void THEN Identifier_Node ELSE type))
           /\ UNCHANGED <<wasError, status>>
  <2> DEFINE type == functionIDs[Overload].returns
             x == IF type = Void THEN Identifier_Node ELSE type
             v == Result(x)
  <2>1. Overload \in 1 .. Len(functionIDs)
    <3>1. Overload \in 0 .. Len(functionIDs) /\ Len(functionIDs) \in Nat
      BY Lookups, SizeFacts
    <3> QED
      BY <1>5, <3>1
  <2>2. x \in Nat /\ x # Void
    <3>1. functionIDs[Overload] \in FunctionID
      BY <2>1 DEF RestInv
    <3> QED
      BY <3>1, TypesAreNumbers DEF FunctionID, Void, Identifier_Node
  <2>3. Return(v) /\ UNCHANGED <<wasError, status>>
    BY <1>5
  <2> HIDE DEF x
  <2>4. v \in LLVMValue /\ v.node = Top.node /\ v.at = Len(code) + 1
    <3>1. Top.node \in Nat /\ Len(code) + 1 \in Nat
      BY <1>1, TopFacts, SizeFacts
    <3>2. v = Value(Top.node, Len(code) + 1, x)
      BY <2>2 DEF Result
    <3> HIDE DEF v
    <3> QED
      BY <2>2, <3>1, <3>2, ValueType DEF Value
  <2> HIDE DEF v
  <2>5. EmitsCall(v)
    BY <1>1, <1>5, <2>1, <2>4 DEF EmitsCall
  <2> QED
    BY <1>1, <1>2, <2>3, <2>4, <2>5, ReturnMoves
<1>6. CASE /\ Null \notin {L, R} /\ Overload = 0
           /\ NoCast(L.type, R.type)
           /\ status' = "undefined"
           /\ UNCHANGED <<stack, returned, lost, code, wasError>>
  BY <1>1, <1>6 DEF Rests, Moves
<1>7. CASE /\ Null \notin {L, R} /\ Overload = 0
           /\ ~NoCast(L.type, R.type)
           /\ Return(IF Computes(L.type, R.type) THEN Value(Top.node, 0, Lower(L.type, R.type))
                                                 ELSE Null)
           /\ wasError' = (wasError \/ CastFails(L.type, R.type))
           /\ UNCHANGED <<code, status>>
  <2> DEFINE w == Value(Top.node, 0, Lower(L.type, R.type))
  <2>1. w \in LLVMValue /\ w.at = 0 /\ Null \in LLVMValue /\ Null.at = 0
    <3>1. L \in LLVMValue /\ R \in LLVMValue
      <4>1. /\ Len(Top.values) = Top.i /\ Top.values \in Seq(LLVMValue)
            /\ Len(Node.args) = 2 /\ Top.i = Len(Node.args)
        BY <1>1, TopFacts, ProgramFacts DEF RestInv, Node, FrameOK, Complete
      <4> QED
        BY <4>1
    <3>2. L.type \in Nat /\ R.type \in Nat /\ Top.node \in Nat
      BY <1>1, <3>1, TopFacts DEF LLVMValue
    <3>3. Lower(L.type, R.type) \in Nat
      BY <3>2 DEF Lower
    <3> QED
      BY <3>2, <3>3, ValueType, NullType DEF Value, Null
  <2>2. (Return(w) \/ Return(Null)) /\ (wasError => wasError') /\ UNCHANGED <<code, status>>
    BY <1>7
  <2> HIDE DEF w
  <2> QED
    BY <1>3, <2>1, <2>2
<1> QED
  BY <1>4, <1>5, <1>6, <1>7 DEF Operation

LEMMA DereferenceMoves ==
  ASSUME StackInv, RestInv, WalkInv, Dereference
  PROVE  Moves
<1>1. /\ stack # <<>> /\ returned # Waiting /\ status = "generating"
      /\ Node.kind = "dereference" /\ ~wasError
      /\ UNCHANGED <<stmt, code, status>>
  BY DEF Dereference, Got, Generating
<1>2. /\ Top.node \in DOMAIN Nodes /\ Len(stack) \in 1 .. Len(stack) /\ Len(stack) \in Nat
      /\ Top \in CallFrame /\ Top.node \in Nat
  <2>1. /\ Len(stack) \in Nat \ {0} /\ Top.node \in DOMAIN Nodes
        /\ Top \in CallFrame /\ Top.node \in Nat
    BY <1>1, TopFacts
  <2> QED
    BY <2>1
<1>3. Top.i = 0 /\ Top.values = <<>> /\ Len(Node.args) = 1
  BY <1>1, <1>2, TreeFacts DEF WalkInv, Rounds, Top, Node, RestInv
<1>4. Begun(Len(stack)) = Len(Node.args)
  BY <1>1, <1>3, TopBegun
<1>5. Node.kind \in Doubled /\ Node.kind \notin Calls
  BY <1>1 DEF Doubled, Calls
<1>6. CASE returned = Null /\ Return(Null) /\ wasError' = (Top.round = 2)
  <2>1. lost'
    BY <1>1, <1>6 DEF WalkInv, NullIsLost, Return
  <2> QED
    BY <1>1, <1>6, <2>1, GivenUpMoves
<1>7. CASE /\ Top.round = 1
           /\ stack' = [stack EXCEPT ![Len(stack)].round = 2]
           /\ returned' = Waiting
           /\ UNCHANGED <<wasError, lost>>
  <2> DEFINE t == [Top EXCEPT !.round = 2]
  <2>1. t \in CallFrame /\ t.node = Top.node /\ t.round = 2 /\ t.i = Top.i /\ t.values = Top.values
    BY <1>2 DEF CallFrame
  <2>2. Changed(t) /\ Kept
    BY <1>1, <1>7 DEF Changed, Top, Kept
  <2> HIDE DEF t
  <2>3. Repeats(t)
    BY <1>1, <1>3, <1>4, <1>5, <1>7, <2>1, <2>2 DEF Repeats
  <2> QED
    BY <2>1, <2>3 DEF Moves
<1>8. CASE Top.round = 2 /\ Return(Value(Top.node, 0, SInt32_Type)) /\ UNCHANGED wasError
  <2> DEFINE v == Value(Top.node, 0, SInt32_Type)
  <2>1. v \in LLVMValue /\ v.at = 0
    BY <1>2, ValueType DEF Value, SInt32_Type
  <2>2. Return(v)
    BY <1>8
  <2> HIDE DEF v
  <2>3. Passes(v) /\ Through
    BY <1>1, <1>4, <1>5, <1>8, <2>1 DEF Passes, Through
  <2> QED
    BY <1>1, <1>8, <2>1, <2>2, <2>3, ReturnMoves
<1> QED
  BY <1>6, <1>7, <1>8 DEF Dereference

LEMMA StepMoves ==
  ASSUME TypeInv, WalkInv, [Next]_vars
  PROVE  Moves /\ program' = program /\ functionIDs' = functionIDs
<1>1. StackInv /\ RestInv
  BY Parts
<1>2. program' = program /\ functionIDs' = functionIDs
  BY DEF Next, Statement, EndStatement, EndBody, ExitOnError, Leaf, Operand, TypeOfNull,
         ArgumentLost, ArgumentValue, UndefinedFunction, IncorrectNumber, FoundFunction,
         NotAReference, ArgumentAgain, CreateCall, PipeLeft, PipeRight, OperandValue, Operation,
         Dereference, Finished, Input, vars
<1>3. CASE Finished \/ UNCHANGED vars
  BY <1>3 DEF Finished, vars, Rests, Moves
<1> QED
  BY <1>1, <1>2, <1>3, BodyMoves, LeafMoves, ArgumentMoves, LookupMoves, CallMoves, PipeMoves,
     OperationMoves, DereferenceMoves DEF Next

\* What the moves do to the stack.
LEMMA EnterStack ==
  ASSUME StackInv, NEW n, Enters(n)
  PROVE  /\ Len(stack) \in Nat /\ Len(stack') = Len(stack) + 1
         /\ \A k \in 1 .. Len(stack) : stack'[k] = stack[k] /\ k \in 1 .. Len(stack')
         /\ stack'[Len(stack) + 1] = Frame(n) /\ Len(stack) + 1 \in 1 .. Len(stack')
         /\ \A k \in 1 .. Len(stack') : k \in 1 .. Len(stack) \/ k = Len(stack) + 1
         /\ stack' # <<>> /\ returned' = Waiting
<1>1. stack \in Seq(CallFrame) /\ Len(stack) \in Nat
  BY DEF StackInv
<1>2. stack' = Append(stack, Frame(n)) /\ returned' = Waiting
  BY DEF Enters, Pushed
<1>3. /\ Len(stack') = Len(stack) + 1
      /\ \A k \in 1 .. Len(stack) : stack'[k] = stack[k]
      /\ stack'[Len(stack) + 1] = Frame(n)
  BY <1>1, <1>2
<1>4. stack' # <<>>
  BY <1>1, <1>3
<1> QED
  BY <1>1, <1>2, <1>3, <1>4

LEMMA ChangedStack ==
  ASSUME StackInv, stack # <<>>, NEW t, Changed(t)
  PROVE  /\ Len(stack) \in Nat \ {0} /\ Len(stack') = Len(stack)
         /\ \A k \in 1 .. Len(stack) : stack'[k] = IF k = Len(stack) THEN t ELSE stack[k]
         /\ stack' # <<>> /\ returned' = Waiting
<1>1. stack \in Seq(CallFrame) /\ Len(stack) \in Nat \ {0}
  BY DEF StackInv
<1>2. stack' = [stack EXCEPT ![Len(stack)] = t] /\ returned' = Waiting
  BY DEF Changed
<1>3. /\ Len(stack') = Len(stack)
      /\ \A k \in 1 .. Len(stack) : stack'[k] = IF k = Len(stack) THEN t ELSE stack[k]
  BY <1>1, <1>2
<1>4. stack' # <<>>
  BY <1>1, <1>3
<1> QED
  BY <1>1, <1>2, <1>3, <1>4

LEMMA EndStack ==
  ASSUME StackInv, NEW v, Ends(v)
  PROVE  /\ Len(stack) \in Nat \ {0} /\ Len(stack') = Len(stack) - 1
         /\ \A k \in 1 .. Len(stack) - 1 : stack'[k] = stack[k] /\ k \in 1 .. Len(stack)
         /\ \A k \in 1 .. Len(stack) : k \in 1 .. Len(stack) - 1 \/ k = Len(stack)
         /\ stack' = <<>> <=> Len(stack) = 1
         /\ returned' = v /\ v \in LLVMValue /\ v # Waiting
<1>1. stack \in Seq(CallFrame) /\ Len(stack) \in Nat \ {0}
  BY DEF StackInv, Ends
<1>2. /\ stack' \in Seq(CallFrame) /\ Len(stack') = Len(stack) - 1
      /\ \A k \in 1 .. Len(stack) - 1 : stack'[k] = stack[k]
      /\ returned' = v
  BY <1>1, Shorter DEF Ends, Popped
<1>3. v \in LLVMValue /\ v # Waiting
  BY NullType DEF Ends
<1>4. stack' = <<>> <=> Len(stack) = 1
  BY <1>1, <1>2
<1> QED
  BY <1>1, <1>2, <1>3, <1>4

\* A generator's node, its operands, and the one that is begun.
LEMMA FrameFacts ==
  ASSUME StackInv, RestInv, NEW k \in 1 .. Len(stack)
  PROVE  /\ stack[k] \in CallFrame /\ FrameOK(stack[k])
         /\ stack[k].node \in DOMAIN Nodes /\ stack[k].node \in Nat
         /\ Len(Nodes[stack[k].node].args) \in Nat
         /\ stack[k].i \in 0 .. Len(Nodes[stack[k].node].args)
         /\ k < Len(stack) => stack[k].i < Len(Nodes[stack[k].node].args)
<1>1. stack[k] \in CallFrame /\ FrameOK(stack[k])
  BY DEF StackInv
<1>2. program \in Programs
  BY DEF RestInv
<1>3. stack[k].node \in DOMAIN Nodes /\ stack[k].i \in Nat
  BY <1>1 DEF CallFrame, Nodes
<1>4. Len(Nodes[stack[k].node].args) \in Nat /\ stack[k].node \in Nat
  BY <1>2, <1>3, ProgramFacts
<1>5. stack[k].i \in 0 .. Len(Nodes[stack[k].node].args)
  BY <1>1, <1>3, <1>4 DEF FrameOK
<1>6. k < Len(stack) => stack[k].i < Len(Nodes[stack[k].node].args)
  BY DEF StackInv, Waits
<1> QED
  BY <1>1, <1>3, <1>4, <1>5, <1>6

LEMMA NextOperand ==
  ASSUME StackInv, RestInv
  PROVE  \A k \in 1 .. Len(stack) - 1 :
           /\ stack[k].node \in DOMAIN Nodes /\ stack[k].i \in Nat
           /\ stack[k].i + 1 \in 1 .. Len(Nodes[stack[k].node].args)
<1> TAKE k \in 1 .. Len(stack) - 1
<1>1. k \in 1 .. Len(stack) /\ k < Len(stack)
  BY DEF StackInv
<1>2. /\ stack[k].node \in DOMAIN Nodes /\ Len(Nodes[stack[k].node].args) \in Nat
      /\ stack[k].i \in Nat /\ stack[k].i < Len(Nodes[stack[k].node].args)
  BY <1>1, FrameFacts
<1> QED
  BY <1>2

LEMMA OperandFacts ==
  ASSUME program \in Programs, NEW m \in DOMAIN Nodes, NEW q \in 1 .. Len(Nodes[m].args),
         NEW n, n = Nodes[m].args[q]
  PROVE  /\ m \in Nat /\ n \in DOMAIN Nodes /\ n \in Nat /\ m < n /\ Parents(n) = {m}
         /\ \A l \in DOMAIN Nodes : \A j \in 1 .. Len(Nodes[l].args) :
              Nodes[l].args[j] = n => l = m /\ j = q
<1>1. m \in Nat /\ n \in DOMAIN Nodes /\ n \in Nat
  BY ProgramFacts
<1>2. m < n /\ Parents(n) = {m}
  BY TreeFacts
<1>3. ASSUME NEW l \in DOMAIN Nodes, NEW j \in 1 .. Len(Nodes[l].args), Nodes[l].args[j] = n
      PROVE  l = m /\ j = q
  <2>1. Parents(Nodes[l].args[j]) = {l}
    BY TreeFacts
  <2>2. l = m
    BY <1>2, <1>3, <2>1
  <2>3. Nodes[m].args[j] = Nodes[m].args[q] /\ j \in 1 .. Len(Nodes[m].args)
    BY <1>3, <2>2
  <2>4. j = q
    BY <2>3, TreeFacts
  <2> QED
    BY <2>2, <2>4
<1> QED
  BY <1>1, <1>2, <1>3

\* Going up the stack the nodes get greater, so that none is there twice.
LEMMA Ascending ==
  ASSUME StackInv, RestInv, OnPath
  PROVE  \A j, k \in 1 .. Len(stack) : j < k => stack[j].node < stack[k].node
<1> DEFINE S == {k \in 1 .. Len(stack) : \E j \in 1 .. Len(stack) :
                    j < k /\ ~(stack[j].node < stack[k].node)}
<1>1. CASE S = {}
  BY <1>1
<1>2. CASE S # {}
  <2>1. Len(stack) \in Nat /\ S \in SUBSET Nat
    BY DEF StackInv
  <2>2. PICK k \in S : \A x \in S : k <= x
    BY <1>2, <2>1, LeastNat
  <2>3. PICK j \in 1 .. Len(stack) : j < k /\ ~(stack[j].node < stack[k].node)
    BY <2>2
  <2>4. k \in 1 .. Len(stack)
    BY <2>2
  <2> DEFINE m == k - 1
  <2>5. m \in 1 .. Len(stack) - 1 /\ m \in 1 .. Len(stack) /\ m + 1 = k /\ m < Len(stack)
        /\ j <= m /\ ~(k <= m) /\ (j = m \/ j < m)
    BY <2>1, <2>3, <2>4
  <2>6. m \notin S
    BY <2>2, <2>5
  <2> HIDE DEF m
  <2>7. stack[m].node < stack[k].node
    <3>1. stack[k].node = Nodes[stack[m].node].args[stack[m].i + 1]
      BY <2>5 DEF OnPath
    <3>2. stack[m].node \in DOMAIN Nodes /\ stack[m].i + 1 \in 1 .. Len(Nodes[stack[m].node].args)
      BY <2>5, NextOperand
    <3> DEFINE l == stack[m].node
               q == stack[m].i + 1
               c == stack[k].node
    <3>3. program \in Programs /\ l \in DOMAIN Nodes /\ q \in 1 .. Len(Nodes[l].args)
          /\ c = Nodes[l].args[q]
      BY <3>1, <3>2 DEF RestInv
    <3>4. l < c
      <4> HIDE DEF l, q, c
      <4> QED
        BY <3>3, OperandFacts
    <3> QED
      BY <3>4
  <2>8. j < m => stack[j].node < stack[m].node
    BY <2>3, <2>5, <2>6
  <2>9. stack[j].node \in Nat /\ stack[m].node \in Nat /\ stack[k].node \in Nat
    BY <2>3, <2>4, <2>5, FrameFacts
  <2> QED
    BY <2>3, <2>5, <2>7, <2>8, <2>9
<1> QED
  BY <1>1, <1>2

\* The walk goes on as it should.
LEMMA EnterWalks ==
  ASSUME StackInv, RestInv, WalkInv, program' = program, NEW n \in DOMAIN Nodes, Enters(n)
  PROVE  WalkInv'
<1>1. /\ Len(stack) \in Nat /\ Len(stack') = Len(stack) + 1
      /\ \A k \in 1 .. Len(stack) : stack'[k] = stack[k] /\ k \in 1 .. Len(stack')
      /\ stack'[Len(stack) + 1] = Frame(n)
      /\ \A k \in 1 .. Len(stack') : k \in 1 .. Len(stack) \/ k = Len(stack) + 1
      /\ stack' # <<>> /\ returned' = Waiting
  BY EnterStack
<1>2. Nodes' = Nodes /\ stmt' = stmt
  BY DEF Nodes, Enters, Kept
<1>3. Frame(n).node = n /\ Frame(n).round = 1 /\ Frame(n).i = 0 /\ Frame(n).values = <<>>
  BY DEF Frame
<1>4. OnPath'
  <2>1. stmt <= Len(program.body) /\ stack'[1].node = program.body[stmt]
    <3>1. CASE stack = <<>>
      BY <1>1, <1>3, <3>1 DEF Enters
    <3>2. CASE stack # <<>>
      <4>1. 1 \in 1 .. Len(stack)
        BY <1>1, <3>2 DEF StackInv
      <4> QED
        BY <1>1, <3>2, <4>1 DEF WalkInv, OnPath
    <3> QED
      BY <3>1, <3>2
  <2>2. ASSUME NEW k \in 1 .. Len(stack') - 1
        PROVE  stack'[k + 1].node = Nodes[stack'[k].node].args[stack'[k].i + 1]
    <3>1. k \in 1 .. Len(stack)
      BY <1>1, SMTT(30)
    <3>2. CASE k = Len(stack)
      <4>1. stack # <<>> /\ n = NextArg
        BY <3>1, <3>2 DEF Enters
      <4> QED
        BY <1>1, <1>3, <3>1, <3>2, <4>1 DEF NextArg, Node, Top
    <3>3. CASE k # Len(stack)
      <4>1. k \in 1 .. Len(stack) - 1 /\ k + 1 \in 1 .. Len(stack)
        BY <1>1, <3>1, <3>3
      <4> QED
        BY <1>1, <3>1, <4>1 DEF WalkInv, OnPath
    <3> QED
      BY <3>2, <3>3
  <2> QED
    BY <1>1, <1>2, <2>1, <2>2 DEF OnPath
<1>5. Rounds'
  <2>1. ASSUME NEW k \in 1 .. Len(stack')
        PROVE  /\ Nodes[stack'[k].node].kind \notin Doubled => stack'[k].round = 1
               /\ Nodes[stack'[k].node].kind = "dereference" =>
                    stack'[k].i = 0 /\ stack'[k].values = <<>>
    <3>1. CASE k \in 1 .. Len(stack)
      BY <1>1, <3>1 DEF WalkInv, Rounds
    <3>2. CASE k = Len(stack) + 1
      BY <1>1, <1>3, <3>2
    <3> QED
      BY <1>1, <3>1, <3>2
  <2> QED
    BY <1>2, <2>1 DEF Rounds
<1>6. NullIsLost' /\ EndsWell'
  BY <1>1, NullType DEF NullIsLost, EndsWell, Enters, Kept
<1> QED
  BY <1>4, <1>5, <1>6 DEF WalkInv

LEMMA ChangeWalks ==
  ASSUME StackInv, RestInv, WalkInv, program' = program, stack # <<>>, NEW t, Changed(t), Kept,
         t.node = Top.node,
         Node.kind \notin Doubled => t.round = 1,
         Node.kind = "dereference" => t.i = 0 /\ t.values = <<>>
  PROVE  WalkInv'
<1>1. /\ Len(stack) \in Nat \ {0} /\ Len(stack') = Len(stack)
      /\ \A k \in 1 .. Len(stack) : stack'[k] = IF k = Len(stack) THEN t ELSE stack[k]
      /\ stack' # <<>> /\ returned' = Waiting
  BY ChangedStack
<1>2. Nodes' = Nodes /\ stmt' = stmt
  BY DEF Nodes, Kept
<1>3. \A k \in 1 .. Len(stack) : stack'[k].node = stack[k].node
  BY <1>1 DEF Top
<1>4. OnPath'
  <2>1. 1 \in 1 .. Len(stack)
    BY <1>1
  <2>2. ASSUME NEW k \in 1 .. Len(stack) - 1
        PROVE  stack'[k + 1].node = Nodes[stack'[k].node].args[stack'[k].i + 1]
    <3>1. k \in 1 .. Len(stack) /\ k # Len(stack) /\ k + 1 \in 1 .. Len(stack)
      BY <1>1
    <3>2. stack'[k] = stack[k] /\ stack'[k + 1].node = stack[k + 1].node
      BY <1>1, <1>3, <3>1
    <3> QED
      BY <3>2 DEF WalkInv, OnPath
  <2> QED
    BY <1>1, <1>2, <1>3, <2>1, <2>2 DEF WalkInv, OnPath
<1>5. Rounds'
  <2>1. ASSUME NEW k \in 1 .. Len(stack)
        PROVE  /\ Nodes[stack'[k].node].kind \notin Doubled => stack'[k].round = 1
               /\ Nodes[stack'[k].node].kind = "dereference" =>
                    stack'[k].i = 0 /\ stack'[k].values = <<>>
    <3>1. CASE k = Len(stack)
      BY <1>1, <3>1 DEF Node
    <3>2. CASE k # Len(stack)
      BY <1>1, <3>2 DEF WalkInv, Rounds
    <3> QED
      BY <3>1, <3>2
  <2> QED
    BY <1>1, <1>2, <2>1 DEF Rounds
<1>6. NullIsLost' /\ EndsWell'
  BY <1>1, NullType DEF NullIsLost, EndsWell, Kept
<1> QED
  BY <1>4, <1>5, <1>6 DEF WalkInv

LEMMA EndWalks ==
  ASSUME StackInv, RestInv, WalkInv, program' = program, NEW v, Ends(v)
  PROVE  WalkInv'
<1>1. /\ Len(stack) \in Nat \ {0} /\ Len(stack') = Len(stack) - 1
      /\ \A k \in 1 .. Len(stack) - 1 : stack'[k] = stack[k] /\ k \in 1 .. Len(stack)
      /\ stack' = <<>> <=> Len(stack) = 1
      /\ returned' = v /\ v # Waiting
  BY EndStack
<1>2. Nodes' = Nodes /\ stmt' = stmt /\ status' # "done"
  BY DEF Nodes, Ends
<1>3. OnPath'
  <2>1. stack' # <<>> => 1 \in 1 .. Len(stack) - 1
    BY <1>1
  <2>2. ASSUME NEW k \in 1 .. Len(stack) - 1 - 1
        PROVE  stack'[k + 1].node = Nodes[stack'[k].node].args[stack'[k].i + 1]
    <3>1. k \in 1 .. Len(stack) - 1 /\ k + 1 \in 1 .. Len(stack) - 1
      BY <1>1
    <3> QED
      BY <1>1, <3>1 DEF WalkInv, OnPath
  <2>3. stack # <<>>
    BY DEF Ends
  <2> QED
    BY <1>1, <1>2, <2>1, <2>2, <2>3 DEF WalkInv, OnPath
<1>4. Rounds'
  BY <1>1, <1>2 DEF WalkInv, Rounds
<1>5. NullIsLost'
  <2>1. ASSUME v = Null, stack' # <<>> PROVE lost'
    <3>1. Len(stack) > 1
      BY <1>1, <2>1
    <3> QED
      BY <2>1, <3>1 DEF Ends
  <2> QED
    BY <1>1, <2>1 DEF NullIsLost
<1>6. EndsWell'
  BY <1>1, <1>2 DEF EndsWell
<1> QED
  BY <1>3, <1>4, <1>5, <1>6 DEF WalkInv

LEMMA MoveFields ==
  ASSUME StackInv, RestInv, WalkInv, Receives
  PROVE  /\ Received.node = Top.node
         /\ Received.round = Top.round
         /\ Received.i = Top.i + 1
         /\ Received.values = Append(Top.values, returned)
         /\ Node.kind \notin Doubled => Received.round = 1
<1>1. /\ Received.node = Top.node /\ Received.round = Top.round
      /\ Received.i = Top.i + 1 /\ Received.values = Append(Top.values, returned)
  BY ReceivedFields DEF Receives
<1>2. Len(stack) \in 1 .. Len(stack)
  <2>1. Len(stack) \in Nat \ {0}
    BY TopFacts DEF Receives
  <2> QED
    BY <2>1
<1>3. Node.kind \notin Doubled => Top.round = 1
  BY <1>2 DEF WalkInv, Rounds, Node, Top
<1> QED
  BY <1>1, <1>3

LEMMA WalkStep ==
  ASSUME TypeInv, WalkInv, [Next]_vars
  PROVE  WalkInv'
<1>1. StackInv /\ RestInv /\ Moves /\ program' = program
  BY Parts, StepMoves
<1>2. CASE Rests
  BY <1>1, <1>2 DEF Rests, WalkInv, OnPath, Rounds, NullIsLost, EndsWell, Nodes
<1>3. ASSUME NEW n \in DOMAIN Nodes, Enters(n) PROVE WalkInv'
  BY <1>1, <1>3, EnterWalks
<1>4. CASE Receives
  <2>1. /\ stack # <<>> /\ Changed(Received) /\ Kept /\ Node.kind # "dereference"
        /\ Received.node = Top.node /\ (Node.kind \notin Doubled => Received.round = 1)
    BY <1>1, <1>4, MoveFields DEF Receives
  <2> QED
    BY <1>1, <2>1, ChangeWalks
<1>5. ASSUME NEW t, Repeats(t) PROVE WalkInv'
  <2>1. /\ stack # <<>> /\ Changed(t) /\ Kept /\ t.node = Top.node /\ Node.kind \in Doubled
        /\ t.i = 0 /\ t.values = <<>>
    BY <1>5 DEF Repeats
  <2> QED
    BY <1>1, <2>1, ChangeWalks
<1>6. ASSUME NEW v, Ends(v) PROVE WalkInv'
  BY <1>1, <1>6, EndWalks
<1>7. CASE EndsStatement
  BY <1>1, <1>7, NullType DEF EndsStatement, WalkInv, OnPath, Rounds, NullIsLost, EndsWell, Nodes
<1> QED
  BY <1>1, <1>2, <1>3, <1>4, <1>5, <1>6, <1>7 DEF Moves

LEMMA WalkInitially == Init => WalkInv
<1> SUFFICES ASSUME Init PROVE WalkInv
  OBVIOUS
<1>1. stack = <<>> /\ Len(stack) = 0 /\ returned = Waiting /\ ~wasError /\ status # "done"
  BY DEF Init
<1> QED
  BY <1>1, NullType DEF WalkInv, OnPath, Rounds, NullIsLost, EndsWell

LEMMA WalkAlways == Spec => []WalkInv
<1>1. WalkInv /\ TypeInv /\ [Next]_vars => WalkInv'
  BY WalkStep
<1> QED
  BY <1>1, WalkInitially, TypeAlways, PTL DEF Spec

-----------------------------------------------------------------------------
(***************************************************************************)
(* LastValuesArePassed: a value that a generator has comes from below an   *)
(* operand that it, or one beneath it on the stack, is done with; so the   *)
(* node it was made by is not generated while it is held.                  *)
(***************************************************************************)
Latest(v) == \A j \in v.at + 1 .. Len(code) : code[j].node # v.node

FromDone(v, k) ==
  \E p \in 1 .. k : \E q \in 1 .. Done(p) :
    Nodes[stack[p].node].args[q] \in {v.node} \cup Above[v.node]

Live(v, k) == v.at # 0 => v.node \in DOMAIN Nodes /\ Latest(v) /\ FromDone(v, k)

Holds(k, v) ==
  \/ \E j \in 1 .. Len(stack[k].values) : stack[k].values[j] = v
  \/ k = Len(stack) /\ returned = v

ValuesLive == \A k \in 1 .. Len(stack) : \A v \in LLVMValue : Holds(k, v) => Live(v, k)

\* What is above a node is above what is below it.
LEMMA AboveOperand ==
  ASSUME program \in Programs, NEW m \in DOMAIN Nodes, NEW q \in 1 .. Len(Nodes[m].args),
         NEW c, c = Nodes[m].args[q], NEW n \in DOMAIN Nodes, c \in {n} \cup Above[n]
  PROVE  m \in Above[n]
<1>0. Parents(c) = {m} /\ c \in DOMAIN Nodes
  <2>1. Parents(c) = {m}
    BY TreeFacts
  <2>2. c \in DOMAIN Nodes
    BY OperandFacts
  <2> QED
    BY <2>1, <2>2
<1> DEFINE S == {x \in DOMAIN Nodes : c \in {x} \cup Above[x] /\ m \notin Above[x]}
<1>1. CASE S = {}
  BY <1>1
<1>2. CASE S # {}
  <2>1. S \in SUBSET Nat
    BY ProgramFacts
  <2>2. PICK x \in S : \A y \in S : x <= y
    BY <1>2, <2>1, LeastNat
  <2>3. x \in DOMAIN Nodes /\ c \in {x} \cup Above[x] /\ m \notin Above[x]
    BY <2>2
  <2>5. Above[c] = {m} \cup Above[m]
    BY <1>0, AboveIs
  <2>6. c # x /\ c \in Above[x] /\ Above[x] # {}
    BY <2>3, <2>5
  <2>7. PICK l \in DOMAIN Nodes : \E k \in 1 .. Len(Nodes[l].args) : Nodes[l].args[k] = x
    <3>1. Parents(x) # {}
      BY <2>3, <2>6, AboveIs
    <3> QED
      BY <2>3, <3>1, TreeFacts
  <2>8. Parents(x) = {l} /\ l < x /\ l \in Nat /\ x \in Nat
    BY <2>7, OperandFacts
  <2>9. Above[x] = {l} \cup Above[l]
    BY <2>3, <2>8, AboveIs
  <2>10. c \in {l} \cup Above[l] /\ m \notin Above[l]
    BY <2>3, <2>6, <2>9
  <2>11. l \in S /\ ~(x <= l)
    BY <2>8, <2>10
  <2> QED
    BY <2>2, <2>11
<1> QED
  BY <1>1, <1>2

\* The generator that another was called by, and the operand this is.
LEMMA CalledBy ==
  ASSUME StackInv, RestInv, OnPath, NEW k \in 2 .. Len(stack), NEW m, m = k - 1
  PROVE  /\ m \in 1 .. Len(stack) /\ m \in Nat /\ m < k /\ m < Len(stack)
         /\ stack[m].node \in DOMAIN Nodes /\ stack[k].node \in DOMAIN Nodes
         /\ stack[m].i \in Nat
         /\ stack[m].i + 1 \in 1 .. Len(Nodes[stack[m].node].args)
         /\ stack[k].node = Nodes[stack[m].node].args[stack[m].i + 1]
         /\ Parents(stack[k].node) = {stack[m].node}
<1>1. /\ m \in 1 .. Len(stack) /\ m \in 1 .. Len(stack) - 1 /\ m + 1 = k /\ m < Len(stack)
      /\ k \in 1 .. Len(stack) /\ m \in Nat /\ m < k
  BY DEF StackInv
<1>2. stack[k].node = Nodes[stack[m].node].args[stack[m].i + 1]
  BY <1>1 DEF OnPath
<1>3. /\ stack[m].node \in DOMAIN Nodes /\ stack[m].i + 1 \in 1 .. Len(Nodes[stack[m].node].args)
      /\ stack[m].i \in Nat /\ stack[k].node \in DOMAIN Nodes
  <2>1. /\ stack[m].node \in DOMAIN Nodes /\ stack[m].i \in Nat
        /\ stack[m].i + 1 \in 1 .. Len(Nodes[stack[m].node].args)
    BY <1>1, NextOperand
  <2>2. stack[k].node \in DOMAIN Nodes
    BY <1>1, FrameFacts
  <2> QED
    BY <2>1, <2>2
<1> DEFINE l == stack[m].node
           q == stack[m].i + 1
           c == stack[k].node
<1>4. Parents(c) = {l}
  <2>1. /\ program \in Programs
        /\ l \in DOMAIN Nodes /\ q \in 1 .. Len(Nodes[l].args) /\ c = Nodes[l].args[q]
    BY <1>2, <1>3 DEF RestInv
  <2> HIDE DEF l, q, c
  <2> QED
    BY <2>1, TreeFacts
<1> QED
  BY <1>1, <1>2, <1>3, <1>4

LEMMA StackAbove ==
  ASSUME StackInv, RestInv, OnPath
  PROVE  \A k \in 1 .. Len(stack) : \A c \in Above[stack[k].node] :
           \E j \in 1 .. k : stack[j].node = c
<1> DEFINE P(k) == \A c \in Above[stack[k].node] : \E j \in 1 .. k : stack[j].node = c
           S == {k \in 1 .. Len(stack) : ~P(k)}
<1>1. CASE S = {}
  BY <1>1
<1>2. CASE S # {}
  <2>1. Len(stack) \in Nat /\ S \in SUBSET Nat
    BY DEF StackInv
  <2>2. PICK k \in S : \A x \in S : k <= x
    BY <1>2, <2>1, LeastNat
  <2>3. k \in 1 .. Len(stack) /\ ~P(k)
    BY <2>2
  <2>4. CASE k = 1
    <3>1. stack # <<>> /\ stmt <= Len(program.body)
      BY <2>3 DEF OnPath
    <3>2. stmt \in 1 .. Len(program.body) /\ stack[1].node = program.body[stmt]
      BY <3>1, SizeFacts DEF OnPath, RestInv
    <3>3. Parents(stack[1].node) = {}
      BY <3>2, TreeFacts DEF RestInv
    <3>4. stack[1].node \in DOMAIN Nodes
      BY <2>3, <2>4, FrameFacts
    <3>5. Above[stack[1].node] = {}
      BY <3>3, <3>4, AboveIs DEF RestInv
    <3> QED
      BY <2>3, <2>4, <3>5
  <2>5. CASE k # 1
    <3> DEFINE m == k - 1
    <3>1. k \in 2 .. Len(stack) /\ m = k - 1
      BY <2>3, <2>5
    <3> HIDE DEF m
    <3>2. /\ m \in 1 .. Len(stack) /\ m \in Nat /\ m < k
          /\ stack[m].node \in DOMAIN Nodes /\ stack[k].node \in DOMAIN Nodes
          /\ Parents(stack[k].node) = {stack[m].node}
      BY <3>1, CalledBy
    <3>3. Above[stack[k].node] = {stack[m].node} \cup Above[stack[m].node]
      BY <3>2, AboveIs DEF RestInv
    <3>4. ~(k <= m) /\ k \in Nat
      BY <2>1, <2>3, <3>2
    <3>5. m \notin S
      BY <2>2, <3>4
    <3>6. P(m)
      BY <3>2, <3>5
    <3>7. \A j \in 1 .. m : j \in 1 .. k
      BY <3>2, <3>4
    <3>8. m \in 1 .. k
      BY <3>2, <3>4
    <3>9. P(k)
      BY <3>3, <3>6, <3>7, <3>8
    <3> QED
      BY <2>3, <3>9
  <2> QED
    BY <2>4, <2>5
<1> QED
  BY <1>1, <1>2

\* No operand that is done is on the way to the generator on top.
LEMMA NotAgain ==
  ASSUME StackInv, RestInv, OnPath, stack # <<>>, returned = Waiting,
         NEW k \in 1 .. Len(stack), NEW v, FromDone(v, k)
  PROVE  v.node # Top.node
<1> SUFFICES ASSUME v.node = Top.node PROVE FALSE
  OBVIOUS
<1>1. PICK p \in 1 .. k : \E q \in 1 .. Done(p) :
        Nodes[stack[p].node].args[q] \in {v.node} \cup Above[v.node]
  BY DEF FromDone
<1>2. PICK q \in 1 .. Done(p) : Nodes[stack[p].node].args[q] \in {v.node} \cup Above[v.node]
  BY <1>1
<1> DEFINE l == stack[p].node
           c == Nodes[l].args[q]
<1>3. Len(stack) \in Nat /\ Len(stack) \in 1 .. Len(stack) /\ p \in 1 .. Len(stack)
  BY DEF StackInv
<1>4. l \in DOMAIN Nodes /\ stack[p].i \in 0 .. Len(Nodes[l].args) /\ Len(Nodes[l].args) \in Nat
  BY <1>3, FrameFacts
<1>5. Done(p) = stack[p].i
  BY <1>4 DEF Done
<1>6. q \in 1 .. Len(Nodes[l].args) /\ q <= stack[p].i
  BY <1>4, <1>5
<1>7. PICK j \in 1 .. Len(stack) : stack[j].node = c
  BY <1>2, <1>3, StackAbove DEF Top
<1>8. Parents(c) = {l}
  <2>1. program \in Programs /\ l \in DOMAIN Nodes /\ q \in 1 .. Len(Nodes[l].args)
    BY <1>4, <1>6 DEF RestInv
  <2> HIDE DEF l
  <2> QED
    BY <2>1, TreeFacts
<1>9. CASE j = 1
  <2>1. stmt \in 1 .. Len(program.body) /\ stack[1].node = program.body[stmt]
    BY SizeFacts DEF OnPath, RestInv
  <2>2. Parents(stack[1].node) = {}
    BY <2>1, TreeFacts DEF RestInv
  <2> QED
    BY <1>7, <1>8, <1>9, <2>2
<1>10. CASE j # 1
  <2> DEFINE m == j - 1
  <2>1. j \in 2 .. Len(stack) /\ m = j - 1
    BY <1>7, <1>10
  <2> HIDE DEF m
  <2>2. /\ m \in 1 .. Len(stack) /\ m \in Nat
        /\ stack[m].node \in DOMAIN Nodes /\ stack[m].i \in Nat
        /\ stack[m].i + 1 \in 1 .. Len(Nodes[stack[m].node].args)
        /\ stack[j].node = Nodes[stack[m].node].args[stack[m].i + 1]
    BY <2>1, CalledBy
  <2> DEFINE a == stack[m].node
             b == stack[m].i + 1
  <2>3. a = l /\ b = q
    <3>1. /\ a \in DOMAIN Nodes /\ b \in 1 .. Len(Nodes[a].args)
          /\ Nodes[a].args[b] = c
      BY <1>7, <2>2
    <3>2. program \in Programs
      BY DEF RestInv
    <3> HIDE DEF a, b, l
    <3>3. \A x \in DOMAIN Nodes : \A y \in 1 .. Len(Nodes[x].args) :
            Nodes[x].args[y] = c => x = l /\ y = q
      BY <1>4, <1>6, <3>2, OperandFacts
    <3> QED
      BY <3>1, <3>3
  <2>4. m = p
    <3>1. p \in Nat
      OBVIOUS
    <3>2. stack[m].node = stack[p].node /\ stack[p].node \in Nat
      BY <1>3, <2>3, FrameFacts
    <3>3. ~(m < p) /\ ~(p < m)
      BY <1>3, <2>2, <3>2, Ascending
    <3> QED
      BY <2>2, <3>1, <3>3
  <2>5. stack[p].i + 1 <= stack[p].i
    BY <1>6, <2>3, <2>4
  <2> QED
    BY <1>4, <2>5
<1> QED
  BY <1>9, <1>10


\* A value is still from an operand that is done.
LEMMA StillFrom ==
  ASSUME program' = program, NEW v, NEW k \in Nat, FromDone(v, k), NEW l \in Nat, k <= l,
         \A p \in 1 .. k : /\ stack'[p].node = stack[p].node
                           /\ Done(p) \in Int /\ Done(p)' \in Int /\ Done(p) <= Done(p)'
  PROVE  \E p \in 1 .. l : \E q \in 1 .. Done(p)' :
           Nodes'[stack'[p].node].args[q] \in {v.node} \cup Above'[v.node]
<1>1. PICK p \in 1 .. k : \E q \in 1 .. Done(p) :
        Nodes[stack[p].node].args[q] \in {v.node} \cup Above[v.node]
  BY DEF FromDone
<1>2. PICK q \in 1 .. Done(p) : Nodes[stack[p].node].args[q] \in {v.node} \cup Above[v.node]
  BY <1>1
<1>3. p \in 1 .. l /\ q \in 1 .. Done(p)'
  BY <1>1
<1>4. Nodes' = Nodes /\ Above' = Above
  BY DEF Nodes, Above, Parents
<1>5. stack'[p].node = stack[p].node
  BY <1>1
<1> QED
  BY <1>2, <1>3, <1>4, <1>5

LEMMA LiveStays ==
  ASSUME program' = program, NEW v, NEW k \in Nat, Live(v, k), NEW l \in Nat, k <= l,
         Latest(v) /\ v.at # 0 => Latest(v)',
         \A p \in 1 .. k : /\ stack'[p].node = stack[p].node
                           /\ Done(p) \in Int /\ Done(p)' \in Int /\ Done(p) <= Done(p)'
  PROVE  Live(v, l)'
<1> SUFFICES ASSUME v.at # 0 PROVE v.node \in DOMAIN Nodes' /\ Latest(v)' /\ FromDone(v, l)'
  BY DEF Live
<1>1. v.node \in DOMAIN Nodes /\ Latest(v) /\ FromDone(v, k)
  BY DEF Live
<1>2. FromDone(v, l)'
  BY <1>1, StillFrom DEF FromDone
<1>3. Nodes' = Nodes
  BY DEF Nodes
<1> QED
  BY <1>1, <1>2, <1>3

\* The operands that are done, before and after.
LEMMA DoneIs ==
  ASSUME StackInv, RestInv, NEW k \in 1 .. Len(stack)
  PROVE  /\ Done(k) \in Nat
         /\ k # Len(stack) \/ returned = Waiting => Done(k) = stack[k].i
BY FrameFacts DEF Done

LEMMA EnterLive ==
  ASSUME StackInv, RestInv, ValuesLive, program' = program, NEW n, Enters(n)
  PROVE  ValuesLive'
<1>1. /\ Len(stack) \in Nat /\ Len(stack') = Len(stack) + 1
      /\ \A k \in 1 .. Len(stack) : stack'[k] = stack[k] /\ k \in 1 .. Len(stack')
      /\ stack'[Len(stack) + 1] = Frame(n)
      /\ \A k \in 1 .. Len(stack') : k \in 1 .. Len(stack) \/ k = Len(stack) + 1
      /\ returned' = Waiting
  BY EnterStack
<1>2. code' = code /\ returned = Waiting
  BY DEF Enters, Kept
<1>3. ASSUME NEW p \in 1 .. Len(stack)
      PROVE  /\ stack'[p].node = stack[p].node
             /\ Done(p) \in Int /\ Done(p)' \in Int /\ Done(p) <= Done(p)'
  <2>1. Done(p) \in Nat /\ Done(p) = stack[p].i
    BY <1>2, DoneIs
  <2>2. Done(p)' = stack'[p].i /\ stack'[p] = stack[p]
    BY <1>1, <2>1 DEF Done
  <2> QED
    BY <2>1, <2>2
<1>4. ASSUME NEW k \in 1 .. Len(stack'), NEW v \in LLVMValue, Holds(k, v)'
      PROVE  Live(v, k)'
  <2>1. CASE k \in 1 .. Len(stack)
    <3>1. Holds(k, v)
      BY <1>1, <1>4, <2>1, NullType DEF Holds
    <3>2. Live(v, k)
      BY <2>1, <3>1 DEF ValuesLive
    <3>3. k \in Nat /\ \A p \in 1 .. k : p \in 1 .. Len(stack)
      BY <1>1, <2>1
    <3>4. Latest(v) => Latest(v)'
      BY <1>2 DEF Latest
    <3>5. \A p \in 1 .. k : /\ stack'[p].node = stack[p].node
                            /\ Done(p) \in Int /\ Done(p)' \in Int /\ Done(p) <= Done(p)'
      BY <1>3, <3>3
    <3> QED
      BY <3>2, <3>3, <3>4, <3>5, LiveStays
  <2>2. CASE k = Len(stack) + 1
    BY <1>1, <1>4, <2>2, NullType DEF Frame, Holds
  <2> QED
    BY <1>1, <2>1, <2>2
<1> QED
  BY <1>4 DEF ValuesLive

\* A value that is taken was from the operand that is done with it.
LEMMA ChangeLive ==
  ASSUME StackInv, RestInv, ValuesLive, program' = program, code' = code, stack # <<>>,
         NEW t, Changed(t), t.node = Top.node,
         \/ t.i = Done(Len(stack)) /\ \A j \in 1 .. Len(t.values) : Holds(Len(stack), t.values[j])
         \/ t.values = <<>>
  PROVE  ValuesLive'
<1>1. /\ Len(stack) \in Nat \ {0} /\ Len(stack') = Len(stack)
      /\ \A k \in 1 .. Len(stack) : stack'[k] = IF k = Len(stack) THEN t ELSE stack[k]
      /\ returned' = Waiting
  BY ChangedStack
<1>2. ASSUME NEW p \in 1 .. Len(stack), p # Len(stack) \/ t.i = Done(Len(stack))
      PROVE  /\ stack'[p].node = stack[p].node
             /\ Done(p) \in Int /\ Done(p)' \in Int /\ Done(p) <= Done(p)'
  <2>1. Done(p) \in Nat /\ (p # Len(stack) => Done(p) = stack[p].i)
    BY DoneIs
  <2>2. Done(p)' = stack'[p].i + 0
    BY <1>1 DEF Done
  <2>3. Done(p)' = Done(p)
    <3>1. CASE p = Len(stack)
      BY <1>1, <1>2, <2>1, <2>2, <3>1
    <3>2. CASE p # Len(stack)
      BY <1>1, <1>2, <2>1, <2>2, <3>2
    <3> QED
      BY <3>1, <3>2
  <2>4. stack'[p].node = stack[p].node
    BY <1>1 DEF Top
  <2> QED
    BY <2>1, <2>3, <2>4
<1>3. ASSUME NEW k \in 1 .. Len(stack'), NEW v \in LLVMValue, Holds(k, v)'
      PROVE  Live(v, k)'
  <2>1. k \in 1 .. Len(stack) /\ \E j \in 1 .. Len(stack'[k].values) : stack'[k].values[j] = v
    BY <1>1, <1>3, NullType DEF Holds
  <2>2. Holds(k, v) /\ (k # Len(stack) \/ t.i = Done(Len(stack)))
    <3>1. CASE k # Len(stack)
      BY <1>1, <2>1, <3>1 DEF Holds
    <3>2. CASE k = Len(stack)
      <4>1. \E j \in 1 .. Len(t.values) : t.values[j] = v
        BY <1>1, <2>1, <3>2
      <4>2. t.values # <<>>
        BY <4>1
      <4> QED
        BY <1>1, <3>2, <4>1, <4>2
    <3> QED
      BY <3>1, <3>2
  <2>3. Live(v, k)
    BY <2>1, <2>2 DEF ValuesLive
  <2>4. k \in Nat /\ \A p \in 1 .. k : p \in 1 .. Len(stack) /\ (k # Len(stack) => p # Len(stack))
    BY <1>1, <2>1
  <2>5. Latest(v) => Latest(v)'
    BY DEF Latest
  <2> QED
    BY <1>2, <2>2, <2>3, <2>4, <2>5, LiveStays
<1> QED
  BY <1>3 DEF ValuesLive

\* What % is: the left side of the last pipe below on the stack.
LEMMA LastPiped ==
  ASSUME StackInv, RestInv, PipesAreNested, pipeOperationValue # <<>>
  PROVE  \E k \in 1 .. Len(stack) : /\ InRightSide(stack[k])
                                    /\ \A j \in k + 1 .. Len(stack) : ~InRightSide(stack[j])
                                    /\ 1 \in 1 .. Len(stack[k].values)
                                    /\ Last(pipeOperationValue) = stack[k].values[1]
<1>1. OpenPipes \subseteq 1 .. Len(stack) /\ Len(stack) \in Nat
  BY OpenFacts
<1>2. Len(pipeOperationValue) = Cardinality(OpenPipes)
  BY DEF PipesAreNested
<1>3. OpenPipes # {}
  <2>1. Len(pipeOperationValue) # 0
    BY DEF RestInv
  <2> QED
    BY <1>2, <2>1, FS_EmptySet
<1>4. PICK m \in OpenPipes : \A j \in OpenPipes : j <= m
  <2> DEFINE S == {x \in 1 .. Len(stack) : \A j \in OpenPipes : j <= x}
  <2>0. PICK o \in OpenPipes : o \in 1 .. Len(stack)
    BY <1>1, <1>3
  <2>1. Len(stack) \in S
    <3>1. Len(stack) \in 1 .. Len(stack) /\ \A j \in OpenPipes : j \in 1 .. Len(stack)
      BY <1>1, <2>0
    <3> QED
      BY <3>1
  <2>2. S \in SUBSET Nat /\ S # {}
    BY <2>1
  <2>3. PICK x \in S : \A y \in S : x <= y
    BY <2>2, LeastNat
  <2>4. x \in OpenPipes
    <3>1. SUFFICES ASSUME x \notin OpenPipes PROVE FALSE
      OBVIOUS
    <3> DEFINE y == x - 1
    <3>0. x \in 1 .. Len(stack) /\ \A j \in OpenPipes : j <= x /\ j \in 1 .. Len(stack)
      BY <1>1, <2>3
    <3>2. \A j \in OpenPipes : j <= y
      <4> TAKE j \in OpenPipes
      <4>1. j # x /\ j <= x /\ j \in 1 .. Len(stack)
        BY <3>0, <3>1
      <4> QED
        BY <3>0, <4>1
    <3>3. y \in 1 .. Len(stack)
      BY <2>0, <3>0, <3>2
    <3>4. y \in S /\ ~(x <= y)
      BY <2>3, <3>2, <3>3
    <3> QED
      BY <2>3, <3>4
  <2> QED
    BY <2>3, <2>4
<1>5. {j \in OpenPipes : j <= m} = OpenPipes
  BY <1>4
<1>6. Last(pipeOperationValue) = stack[m].values[1]
  BY <1>2, <1>4, <1>5 DEF PipesAreNested, Last
<1>7. m \in 1 .. Len(stack) /\ InRightSide(stack[m])
  BY <1>1, <1>4 DEF OpenPipes
<1>8. 1 \in 1 .. Len(stack[m].values)
  <2>1. FrameOK(stack[m])
    BY <1>7 DEF StackInv
  <2>2. Len(stack[m].values) = 1
    BY <1>7, <2>1 DEF FrameOK, InRightSide
  <2> QED
    BY <2>2
<1>9. ASSUME NEW j \in m + 1 .. Len(stack) PROVE ~InRightSide(stack[j])
  <2>1. j \in 1 .. Len(stack) /\ ~(j <= m)
    BY <1>1, <1>7, <1>9
  <2> QED
    BY <1>4, <2>1 DEF OpenPipes
<1> QED
  BY <1>6, <1>7, <1>8, <1>9

LEMMA PipeValue ==
  ASSUME StackInv, RestInv, PipesAreNested, pipeOperationValue # <<>>
  PROVE  \E k \in 1 .. Len(stack) : /\ InRightSide(stack[k])
                                    /\ Holds(k, Last(pipeOperationValue))
BY LastPiped DEF Holds

\* The operand that the generator on top is of is done when it returns.
LEMMA EndDone ==
  ASSUME StackInv, RestInv, NEW v, Ends(v)
  PROVE  \A p \in 1 .. Len(stack) - 1 :
           /\ stack'[p] = stack[p]
           /\ Done(p) = stack[p].i /\ Done(p) \in Nat
           /\ Done(p)' = stack[p].i + IF p = Len(stack) - 1 THEN 1 ELSE 0
           /\ Done(p)' \in Nat /\ Done(p) <= Done(p)'
<1>1. /\ Len(stack) \in Nat \ {0} /\ Len(stack') = Len(stack) - 1
      /\ \A k \in 1 .. Len(stack) - 1 : stack'[k] = stack[k] /\ k \in 1 .. Len(stack)
      /\ returned' = v /\ v # Waiting
  BY EndStack
<1>2. ASSUME NEW p \in 1 .. Len(stack) - 1
      PROVE  /\ Done(p) = stack[p].i /\ Done(p) \in Nat
             /\ Done(p)' = stack[p].i + IF p = Len(stack) - 1 THEN 1 ELSE 0
  <2>1. p \in 1 .. Len(stack) /\ p # Len(stack)
    BY <1>1
  <2>2. Done(p) = stack[p].i /\ Done(p) \in Nat
    BY <2>1, DoneIs
  <2>3. Done(p)' = stack'[p].i + IF p = Len(stack) - 1 THEN 1 ELSE 0
    BY <1>1 DEF Done
  <2> QED
    BY <1>1, <2>2, <2>3
<1>3. ASSUME NEW p \in 1 .. Len(stack) - 1 PROVE Done(p)' \in Nat /\ Done(p) <= Done(p)'
  <2>1. /\ Done(p) \in Nat
        /\ Done(p)' = Done(p) + 1 \/ Done(p)' = Done(p) + 0
    BY <1>2
  <2> QED
    BY <2>1
<1> QED
  BY <1>1, <1>2, <1>3

\* What is returned is from the operand that is done with it.
LEMMA EndReturns ==
  ASSUME StackInv, RestInv, OnPath, ValuesLive, PipesAreNested, program' = program,
         NEW v, Ends(v), NEW m, m = Len(stack) - 1, m # 0, v.at # 0
  PROVE  Live(v, m)'
<1>1. /\ Len(stack) \in 2 .. Len(stack) /\ Len(stack) \in 1 .. Len(stack) /\ m = Len(stack) - 1
      /\ m \in 1 .. Len(stack) - 1 /\ m \in Nat /\ stack # <<>> /\ v \in LLVMValue
  BY EndStack DEF Ends
<1>2. /\ m \in 1 .. Len(stack)
      /\ stack[m].node \in DOMAIN Nodes /\ Top.node \in DOMAIN Nodes
      /\ stack[m].i \in Nat
      /\ stack[m].i + 1 \in 1 .. Len(Nodes[stack[m].node].args)
      /\ Top.node = Nodes[stack[m].node].args[stack[m].i + 1]
  BY <1>1, CalledBy DEF Top
<1>3. stack'[m] = stack[m] /\ Done(m)' = stack[m].i + 1
  BY <1>1, EndDone
<1>4. Nodes' = Nodes /\ Above' = Above
  BY DEF Nodes, Above, Parents
<1>5. ASSUME Top.node \in {v.node} \cup Above[v.node] PROVE FromDone(v, m)'
  <2>1. m \in 1 .. m /\ stack[m].i + 1 \in 1 .. Done(m)'
    BY <1>1, <1>2, <1>3
  <2>2. Nodes'[stack'[m].node].args[stack[m].i + 1] \in {v.node} \cup Above'[v.node]
    BY <1>2, <1>3, <1>4, <1>5
  <2> QED
    BY <2>1, <2>2 DEF FromDone
<1>6. ASSUME NEW k \in 1 .. m, Live(v, k), code' = code PROVE Live(v, m)'
  <2>1. k \in Nat /\ k <= m /\ \A p \in 1 .. k : p \in 1 .. Len(stack) - 1
    BY <1>1
  <2>2. Latest(v) => Latest(v)'
    BY <1>6 DEF Latest
  <2>3. \A p \in 1 .. k : /\ stack'[p].node = stack[p].node
                          /\ Done(p) \in Int /\ Done(p)' \in Int /\ Done(p) <= Done(p)'
    BY <2>1, EndDone
  <2> QED
    BY <1>1, <1>6, <2>1, <2>2, <2>3, LiveStays
<1>7. CASE EmitsCall(v)
  <2>1. v.node = Top.node /\ v.at = Len(code) + 1
    BY <1>7 DEF EmitsCall
  <2>2. Len(code') = Len(code) + 1 /\ Len(code) \in Nat
    BY <1>7, SizeFacts DEF EmitsCall, EmitCall, RestInv
  <2>3. Latest(v)'
    BY <2>1, <2>2 DEF Latest
  <2> QED
    BY <1>1, <1>2, <1>4, <1>5, <2>1, <2>3 DEF Live
<1>8. CASE UNCHANGED code /\ Node.kind = "pipe" /\ v = returned
  <2>1. Live(v, Len(stack))
    BY <1>1, <1>8 DEF ValuesLive, Holds
  <2>2. v.node \in DOMAIN Nodes /\ Latest(v) /\ FromDone(v, Len(stack))
    BY <2>1 DEF Live
  <2>3. PICK p \in 1 .. Len(stack) : \E q \in 1 .. Done(p) :
          Nodes[stack[p].node].args[q] \in {v.node} \cup Above[v.node]
    BY <2>2 DEF FromDone
  <2>4. CASE p # Len(stack)
    <3>1. FromDone(v, p)
      BY <2>3 DEF FromDone
    <3>2. p \in 1 .. m
      BY <1>1, <2>4
    <3>3. Live(v, p)
      BY <2>2, <3>1 DEF Live
    <3> QED
      BY <1>6, <1>8, <3>2, <3>3
  <2>5. CASE p = Len(stack)
    <3>1. PICK q \in 1 .. Done(p) : Nodes[Top.node].args[q] \in {v.node} \cup Above[v.node]
      BY <2>3, <2>5 DEF Top
    <3>2. q \in 1 .. Len(Nodes[Top.node].args)
      <4>1. Done(p) <= Len(Node.args) /\ Done(p) \in Nat /\ Len(Node.args) \in Nat
        BY <1>1, <2>5, TopFacts, TopBegun, SMTT(30)
      <4> QED
        BY <3>1, <4>1 DEF Node
    <3> DEFINE n == v.node
               l == Top.node
               c == Nodes[l].args[q]
    <3>3. /\ program \in Programs /\ l \in DOMAIN Nodes /\ q \in 1 .. Len(Nodes[l].args)
          /\ c = Nodes[l].args[q] /\ n \in DOMAIN Nodes /\ c \in {n} \cup Above[n]
      BY <1>2, <2>2, <3>1, <3>2 DEF RestInv
    <3>4. l \in Above[n]
      <4> HIDE DEF l, n, c
      <4> QED
        BY <3>3, AboveOperand
    <3>5. FromDone(v, m)'
      BY <1>5, <3>4
    <3>6. Latest(v)'
      BY <1>8, <2>2 DEF Latest
    <3> QED
      BY <1>1, <1>4, <2>2, <3>5, <3>6 DEF Live
  <2> QED
    BY <2>4, <2>5
<1>9. CASE /\ UNCHANGED code
           /\ Node.kind = "placeholder" /\ pipeOperationValue # <<>> /\ v = Last(pipeOperationValue)
  <2>1. PICK k \in 1 .. Len(stack) : InRightSide(stack[k]) /\ Holds(k, v)
    BY <1>9, PipeValue
  <2>2. k # Len(stack)
    BY <1>9, <2>1 DEF InRightSide, Node, Top
  <2>3. k \in 1 .. m
    BY <1>1, <2>1, <2>2
  <2>4. Live(v, k)
    BY <1>1, <2>1 DEF ValuesLive
  <2> QED
    BY <1>6, <1>9, <2>3, <2>4
<1> QED
  BY <1>1, <1>7, <1>8, <1>9 DEF Ends, Passes

LEMMA EndLive ==
  ASSUME StackInv, RestInv, OnPath, ValuesLive, PipesAreNested, program' = program,
         NEW v, Ends(v)
  PROVE  ValuesLive'
<1>1. /\ Len(stack) \in Nat \ {0} /\ Len(stack') = Len(stack) - 1
      /\ \A k \in 1 .. Len(stack) - 1 : stack'[k] = stack[k] /\ k \in 1 .. Len(stack)
      /\ returned' = v
  BY EndStack
<1>2. ASSUME NEW k \in 1 .. Len(stack), NEW u \in LLVMValue, Live(u, k), u.at # 0, Latest(u)
      PROVE  Latest(u)'
  <2>1. CASE UNCHANGED code
    BY <1>2, <2>1 DEF Latest
  <2>2. CASE EmitsCall(v)
    <3>1. FromDone(u, k)
      BY <1>2 DEF Live
    <3>2. u.node # Top.node
      BY <2>2, <3>1, NotAgain DEF EmitsCall, Ends
    <3>3. Len(code) \in Nat /\ code \in Seq([node : DOMAIN program.nodes,
            callee : 1 .. Len(functionIDs), args : Seq(LLVMValue)])
      BY DEF RestInv
    <3>4. PICK e : e.node = Top.node /\ code' = Append(code, e)
      BY <2>2 DEF EmitsCall, EmitCall
    <3>5. /\ Len(code') = Len(code) + 1 /\ code'[Len(code) + 1] = e
          /\ \A j \in 1 .. Len(code) : code'[j] = code[j]
      BY <3>3, <3>4
    <3>6. u.at \in Nat
      BY DEF LLVMValue
    <3>7. ASSUME NEW j \in u.at + 1 .. Len(code') PROVE code'[j].node # u.node
      <4>1. CASE j = Len(code) + 1
        BY <3>2, <3>4, <3>5, <4>1
      <4>2. CASE j # Len(code) + 1
        <5>1. j \in u.at + 1 .. Len(code) /\ j \in 1 .. Len(code)
          BY <3>3, <3>5, <3>6, <4>2
        <5> QED
          BY <1>2, <3>5, <5>1 DEF Latest
      <4> QED
        BY <4>1, <4>2
    <3> QED
      BY <3>7 DEF Latest
  <2> QED
    BY <2>1, <2>2 DEF Ends, Passes
<1>3. ASSUME NEW k \in 1 .. Len(stack'), NEW u \in LLVMValue, Holds(k, u)'
      PROVE  Live(u, k)'
  <2>1. k \in 1 .. Len(stack) - 1 /\ k \in 1 .. Len(stack) /\ k \in Nat
    BY <1>1
  <2>2. CASE Holds(k, u)
    <3>1. Live(u, k)
      BY <2>1, <2>2 DEF ValuesLive
    <3>2. \A p \in 1 .. k : p \in 1 .. Len(stack) - 1
      BY <1>1, <2>1
    <3>3. \A p \in 1 .. k : /\ stack'[p].node = stack[p].node
                            /\ Done(p) \in Int /\ Done(p)' \in Int /\ Done(p) <= Done(p)'
      BY <3>2, EndDone
    <3>4. Latest(u) /\ u.at # 0 => Latest(u)'
      BY <1>2, <2>1, <3>1
    <3> QED
      BY <2>1, <3>1, <3>3, <3>4, LiveStays
  <2>3. CASE ~Holds(k, u)
    <3>1. k = Len(stack) - 1 /\ u = v /\ k # 0
      BY <1>1, <1>3, <2>1, <2>3 DEF Holds
    <3>2. CASE v.at = 0
      BY <3>1, <3>2 DEF Live
    <3>3. CASE v.at # 0
      <4>1. Live(v, k)'
        BY <3>1, <3>3, EndReturns
      <4> QED
        BY <3>1, <4>1
    <3> QED
      BY <3>2, <3>3
  <2> QED
    BY <2>2, <2>3
<1> QED
  BY <1>3 DEF ValuesLive

LEMMA LiveStep ==
  ASSUME TypeInv, WalkInv, PipesAreNested, ValuesLive, [Next]_vars
  PROVE  ValuesLive'
<1>1. StackInv /\ RestInv /\ OnPath /\ Rounds /\ Moves /\ program' = program
  BY Parts, StepMoves DEF WalkInv
<1>2. CASE Rests
  <2>1. stack' = stack /\ returned' = returned /\ code' = code
    BY <1>2 DEF Rests
  <2>2. ASSUME NEW k \in 1 .. Len(stack), NEW v \in LLVMValue, Holds(k, v)' PROVE Live(v, k)'
    <3>1. Holds(k, v)
      BY <2>1, <2>2 DEF Holds
    <3>2. Live(v, k) /\ k \in Nat /\ \A p \in 1 .. k : p \in 1 .. Len(stack)
      BY <1>1, <3>1 DEF ValuesLive, StackInv
    <3>3. ASSUME NEW p \in 1 .. Len(stack)
          PROVE  /\ stack'[p].node = stack[p].node
                 /\ Done(p) \in Int /\ Done(p)' \in Int /\ Done(p) <= Done(p)'
      <4>1. Done(p) \in Nat
        BY <1>1, DoneIs
      <4>2. Done(p)' = Done(p)
        BY <2>1 DEF Done
      <4> QED
        BY <2>1, <4>1, <4>2
    <3>4. Latest(v) => Latest(v)'
      BY <2>1 DEF Latest
    <3> QED
      BY <1>1, <3>2, <3>3, <3>4, LiveStays
  <2> QED
    BY <2>1, <2>2 DEF ValuesLive
<1>3. ASSUME NEW n \in DOMAIN Nodes, Enters(n) PROVE ValuesLive'
  BY <1>1, <1>3, EnterLive
<1>4. CASE Receives
  <2>1. /\ stack # <<>> /\ returned # Waiting /\ Changed(Received) /\ code' = code
        /\ Received.node = Top.node /\ Received.i = Top.i + 1
        /\ Received.values = Append(Top.values, returned)
    BY <1>1, <1>4, MoveFields DEF Receives, Kept, WalkInv
  <2>2. Received.i = Done(Len(stack))
    BY <1>1, <2>1, TopBegun
  <2>3. Top.values \in Seq(LLVMValue) /\ Len(Top.values) \in Nat
    BY <1>1, <2>1, TopFacts
  <2>4. ASSUME NEW j \in 1 .. Len(Received.values) PROVE Holds(Len(stack), Received.values[j])
    <3>1. Len(Received.values) = Len(Top.values) + 1
      BY <2>1, <2>3
    <3>2. CASE j = Len(Top.values) + 1
      <4>1. Received.values[j] = returned
        BY <2>1, <2>3, <3>2
      <4> QED
        BY <4>1 DEF Holds
    <3>3. CASE j # Len(Top.values) + 1
      <4>1. j \in 1 .. Len(Top.values)
        BY <2>3, <3>1, <3>3
      <4>2. Received.values[j] = Top.values[j]
        BY <2>1, <2>3, <4>1
      <4> QED
        BY <4>1, <4>2 DEF Holds, Top
    <3> QED
      BY <3>2, <3>3
  <2> HIDE DEF Received
  <2> QED
    BY <1>1, <2>1, <2>2, <2>4, ChangeLive
<1>5. ASSUME NEW t, Repeats(t) PROVE ValuesLive'
  <2>1. stack # <<>> /\ Changed(t) /\ code' = code /\ t.node = Top.node /\ t.values = <<>>
    BY <1>5 DEF Repeats, Kept
  <2> QED
    BY <1>1, <2>1, ChangeLive
<1>6. ASSUME NEW v, Ends(v) PROVE ValuesLive'
  BY <1>1, <1>6, EndLive
<1>7. CASE EndsStatement
  <2>1. Len(stack') = 0
    BY <1>7 DEF EndsStatement
  <2> QED
    BY <2>1 DEF ValuesLive
<1> QED
  BY <1>1, <1>2, <1>3, <1>4, <1>5, <1>6, <1>7 DEF Moves

LEMMA LiveInitially == Init => ValuesLive
<1> SUFFICES ASSUME Init PROVE ValuesLive
  OBVIOUS
<1>1. Len(stack) = 0
  BY DEF Init
<1> QED
  BY <1>1 DEF ValuesLive

LEMMA LiveAlways == Spec => []ValuesLive
<1>1. ValuesLive /\ TypeInv /\ WalkInv /\ PipesAreNested /\ [Next]_vars => ValuesLive'
  BY LiveStep
<1> QED
  BY <1>1, LiveInitially, TypeAlways, WalkAlways, CallEmissionPipesAreNested, PTL DEF Spec

\* A call passes what its generator has when it is complete.
LEMMA EmittedArguments ==
  ASSUME StackInv, RestInv, ValuesLive, LastValuesArePassed, program' = program,
         NEW v, Ends(v), EmitsCall(v)
  PROVE  LastValuesArePassed'
<1>1. /\ Len(code) \in Nat
      /\ code \in Seq([node : DOMAIN program.nodes, callee : 1 .. Len(functionIDs),
                       args : Seq(LLVMValue)])
  BY SizeFacts DEF RestInv
<1>2. PICK e : e.node = Top.node /\ e.args = Top.values /\ code' = Append(code, e)
  BY DEF EmitsCall, EmitCall
<1>3. /\ Len(code') = Len(code) + 1 /\ code'[Len(code) + 1] = e
      /\ \A j \in 1 .. Len(code) : code'[j] = code[j]
  BY <1>1, <1>2
<1>4. Nodes' = Nodes
  BY DEF Nodes
<1>5. /\ stack # <<>> /\ FrameOK(Top) /\ Top.values \in Seq(LLVMValue)
      /\ Len(stack) \in 1 .. Len(stack) /\ Complete /\ Node.kind # "dereference"
  BY TopFacts DEF Ends, EmitsCall
<1>6. Len(Top.values) = Len(Nodes[Top.node].args)
  BY <1>5 DEF FrameOK, Complete, Node
<1>7. ASSUME NEW u \in ToSet(Top.values), u.at # 0 PROVE Latest(u)
  <2>1. u \in LLVMValue /\ \E j \in 1 .. Len(Top.values) : Top.values[j] = u
    BY <1>5 DEF ToSet
  <2>2. Holds(Len(stack), u)
    BY <2>1 DEF Holds, Top
  <2> QED
    BY <1>5, <1>7, <2>1, <2>2 DEF ValuesLive, Live
<1>8. ASSUME NEW k \in 1 .. Len(code')
      PROVE  /\ Len(code'[k].args) = Len(Nodes[code'[k].node].args)
             /\ \A u \in ToSet(code'[k].args) :
                  u.at # 0 => \A j \in u.at + 1 .. k - 1 : code'[j].node # u.node
  <2>1. CASE k = Len(code) + 1
    <3>1. ASSUME NEW u \in ToSet(e.args), u.at # 0, NEW j \in u.at + 1 .. Len(code)
          PROVE  code'[j].node # u.node
      <4>1. u \in LLVMValue /\ Latest(u)
        BY <1>2, <1>5, <1>7, <3>1 DEF ToSet
      <4>2. j \in 1 .. Len(code)
        BY <1>1, <4>1 DEF LLVMValue
      <4> QED
        BY <1>3, <4>1, <4>2 DEF Latest
    <3>2. code'[k] = e /\ k - 1 = Len(code)
      BY <1>1, <1>3, <2>1
    <3> QED
      BY <1>2, <1>6, <3>1, <3>2
  <2>2. CASE k # Len(code) + 1
    <3>1. k \in 1 .. Len(code) /\ code'[k] = code[k]
      BY <1>1, <1>3, <2>2
    <3>2. ASSUME NEW u \in ToSet(code[k].args), u.at # 0, NEW j \in u.at + 1 .. k - 1
          PROVE  code'[j].node # u.node
      <4>1. code[k].args \in Seq(LLVMValue)
        <5> DEFINE CallInst == [node : DOMAIN program.nodes, callee : 1 .. Len(functionIDs),
                                args : Seq(LLVMValue)]
        <5>1. code \in Seq(CallInst)
          BY <1>1
        <5>2. code[k] \in CallInst
          <6> HIDE DEF CallInst
          <6> QED
            BY <3>1, <5>1
        <5> QED
          BY <5>2
      <4>2. u \in LLVMValue
        BY <4>1 DEF ToSet
      <4>3. j \in 1 .. Len(code)
        BY <1>1, <3>1, <4>2 DEF LLVMValue
      <4> QED
        BY <1>3, <3>1, <3>2, <4>3 DEF LastValuesArePassed
    <3> QED
      BY <3>1, <3>2 DEF LastValuesArePassed
  <2> QED
    BY <2>1, <2>2
<1> QED
  BY <1>4, <1>8 DEF LastValuesArePassed

LEMMA ArgumentsStep ==
  ASSUME TypeInv, ValuesLive, WalkInv, LastValuesArePassed, [Next]_vars
  PROVE  LastValuesArePassed'
<1>1. StackInv /\ RestInv /\ Moves /\ program' = program
  BY Parts, StepMoves
<1>2. ASSUME NEW v, Ends(v), EmitsCall(v) PROVE LastValuesArePassed'
  BY <1>1, <1>2, EmittedArguments
<1>3. CASE code' = code
  BY <1>1, <1>3 DEF LastValuesArePassed, Nodes
<1> QED
  BY <1>1, <1>2, <1>3 DEF Moves, Rests, Enters, Receives, Repeats, Kept, Ends, Passes, EndsStatement

\* What a call passes are the values its arguments were generated to last, one for each
\* (the second time generateCallExpression generates them).
THEOREM CallEmissionLastValuesArePassed == Spec => []LastValuesArePassed
<1>1. Init => LastValuesArePassed
  BY DEF Init, LastValuesArePassed
<1>2. LastValuesArePassed /\ TypeInv /\ WalkInv /\ ValuesLive /\ [Next]_vars
        => LastValuesArePassed'
  BY ArgumentsStep
<1> QED
  BY <1>1, <1>2, TypeAlways, WalkAlways, LiveAlways, PTL DEF Spec

-----------------------------------------------------------------------------
(***************************************************************************)
(* EmittedPerGeneration: how often every node has been generated, g, which *)
(* the model does not remember.  The operands of a node are generated once *)
(* for each time it is (twice if it is a call or a dereference) and those  *)
(* of a generator on the stack as often as its round has come to; at most, *)
(* and exactly while nothing is lost.                                      *)
(***************************************************************************)
OnStack(n) == \E k \in 1 .. Len(stack) : stack[k].node = n
Entered(g, n) == g[n] + IF OnStack(n) THEN 1 ELSE 0

Exact == ~lost /\ ~wasError
Close(a, b) == a <= b /\ (Exact => a = b)

Rate(m, x) == IF Nodes[m].kind \in Doubled THEN x + x ELSE x
Part(j, k) == (stack[j].round - 1) + IF k <= Begun(j) THEN 1 ELSE 0
BodyBegun(k) == k < stmt \/ (k = stmt /\ (stack # <<>> \/ returned # Waiting))

CallsCounted(g) ==
  \A n \in DOMAIN Nodes :
    Times(n) <= g[n] /\ (Exact /\ Nodes[n].kind \in Calls => Times(n) = g[n])

BodyCounted(g) ==
  \A k \in 1 .. Len(program.body) :
    Close(Entered(g, program.body[k]), IF BodyBegun(k) THEN 1 ELSE 0)

PassedCounted(g) ==
  \A m \in DOMAIN Nodes : \A k \in 1 .. Len(Nodes[m].args) :
    ~OnStack(m) => Close(Entered(g, Nodes[m].args[k]), Rate(m, g[m]))

StackCounted(g) ==
  \A j \in 1 .. Len(stack) : \A k \in 1 .. Len(Nodes[stack[j].node].args) :
    Close(Entered(g, Nodes[stack[j].node].args[k]),
          Rate(stack[j].node, g[stack[j].node]) + Part(j, k))

Counts(g) == CallsCounted(g) /\ BodyCounted(g) /\ PassedCounted(g) /\ StackCounted(g)

CountInv == \E g \in [DOMAIN Nodes -> Nat] : Counts(g)

\* What is entered is one operand, or one statement, and was not on the stack.
LEMMA EntersOnly ==
  ASSUME StackInv, RestInv, OnPath, NEW n \in DOMAIN Nodes, Enters(n)
  PROVE  /\ ~OnStack(n)
         /\ \A m \in DOMAIN Nodes : \A k \in 1 .. Len(Nodes[m].args) :
              Nodes[m].args[k] = n <=> stack # <<>> /\ m = Top.node /\ k = Top.i + 1
         /\ \A k \in 1 .. Len(program.body) :
              program.body[k] = n <=> stack = <<>> /\ k = stmt
<1>1. Len(stack) \in Nat /\ stmt \in Nat \ {0} /\ program \in Programs
  BY DEF StackInv, RestInv
<1>2. CASE stack = <<>>
  <2>1. stmt \in 1 .. Len(program.body) /\ program.body[stmt] = n
    BY <1>1, <1>2, SizeFacts DEF Enters, RestInv
  <2>2. Parents(n) = {}
    BY <1>1, <2>1, TreeFacts
  <2>3. ASSUME NEW m \in DOMAIN Nodes, NEW k \in 1 .. Len(Nodes[m].args), Nodes[m].args[k] = n
        PROVE  FALSE
    <3>1. Parents(Nodes[m].args[k]) = {m}
      BY <1>1, TreeFacts
    <3> QED
      BY <2>2, <2>3, <3>1
  <2>4. \A k \in 1 .. Len(program.body) : program.body[k] = n <=> k = stmt
    BY <1>1, <2>1, TreeFacts
  <2>5. ~OnStack(n)
    BY <1>2 DEF OnStack
  <2> QED
    BY <1>2, <2>3, <2>4, <2>5
<1>3. CASE stack # <<>>
  <2> DEFINE l == Top.node
             q == Top.i + 1
  <2>1. /\ l \in DOMAIN Nodes /\ q \in 1 .. Len(Nodes[l].args) /\ n = Nodes[l].args[q]
        /\ l \in Nat /\ Len(stack) \in 1 .. Len(stack) /\ program \in Programs
    BY <1>1, <1>3, TopFacts DEF Enters, NextArg, Node
  <2> HIDE DEF l, q
  <2>2. /\ \A m \in DOMAIN Nodes : \A j \in 1 .. Len(Nodes[m].args) :
             Nodes[m].args[j] = n => m = l /\ j = q
        /\ l < n /\ n \in Nat
    BY <2>1, OperandFacts
  <2>3. Parents(n) = {l}
    BY <2>1, TreeFacts
  <2>4. \A k \in 1 .. Len(program.body) : program.body[k] # n
    <3>1. ASSUME NEW k \in 1 .. Len(program.body), program.body[k] = n PROVE FALSE
      <4>1. Parents(program.body[k]) = {}
        BY <1>1, TreeFacts
      <4> QED
        BY <2>3, <3>1, <4>1
    <3> QED
      BY <3>1
  <2>5. ASSUME NEW j \in 1 .. Len(stack), stack[j].node = n PROVE FALSE
    <3>1. stack[Len(stack)].node = l
      BY DEF l, Top
    <3>2. CASE j = Len(stack)
      BY <2>2, <2>5, <3>1, <3>2
    <3>3. CASE j # Len(stack)
      <4>1. stack[j].node < stack[Len(stack)].node
        BY <1>1, <2>1, <3>3, Ascending
      <4> QED
        BY <2>1, <2>2, <2>5, <3>1, <4>1
    <3> QED
      BY <3>2, <3>3
  <2> QED
    BY <1>3, <2>1, <2>2, <2>4, <2>5 DEF l, q, OnStack
<1> QED
  BY <1>2, <1>3

\* A step that takes a value, begins the second round, ends a statement, or nothing.
LEMMA CountsStay ==
  ASSUME StackInv, RestInv, UNCHANGED <<program, code, lost, wasError>>,
         Len(stack') = Len(stack), \A j \in 1 .. Len(stack) : stack'[j].node = stack[j].node,
         \A k \in 1 .. Len(program.body) : BodyBegun(k)' <=> BodyBegun(k),
         \A j \in 1 .. Len(stack) : \A k \in 1 .. Len(Nodes[stack[j].node].args) :
           Part(j, k)' = Part(j, k),
         NEW g, Counts(g)
  PROVE  Counts(g)' /\ \A m : Entered(g, m)' = Entered(g, m)
<1>1. Nodes' = Nodes /\ program' = program /\ Exact' = Exact
  BY DEF Nodes, Exact
<1>2. \A n : OnStack(n)' <=> OnStack(n)
  BY DEF OnStack
<1>3. \A n : Entered(g, n)' = Entered(g, n)
  BY <1>2 DEF Entered
<1>4. \A m, x : Rate(m, x)' = Rate(m, x)
  BY <1>1 DEF Rate
<1>5. CallsCounted(g)'
  BY <1>1 DEF Counts, CallsCounted, Times
<1>6. BodyCounted(g)'
  BY <1>1, <1>3 DEF Counts, BodyCounted, Close
<1>7. PassedCounted(g)'
  BY <1>1, <1>2, <1>3, <1>4 DEF Counts, PassedCounted, Close
<1>8. StackCounted(g)'
  BY <1>1, <1>3, <1>4 DEF Counts, StackCounted, Close
<1> QED
  BY <1>3, <1>5, <1>6, <1>7, <1>8 DEF Counts

LEMMA CountsEnter ==
  ASSUME StackInv, RestInv, OnPath, UNCHANGED program, NEW n \in DOMAIN Nodes, Enters(n),
         NEW g \in [DOMAIN Nodes -> Nat], Counts(g)
  PROVE  Counts(g)' /\ \A m \in DOMAIN Nodes : Entered(g, m)' = Entered(g, m) + IF m = n THEN 1 ELSE 0
<1>1. /\ Len(stack) \in Nat /\ Len(stack') = Len(stack) + 1
      /\ \A k \in 1 .. Len(stack) : stack'[k] = stack[k] /\ k \in 1 .. Len(stack')
      /\ stack'[Len(stack) + 1] = Frame(n) /\ Len(stack) + 1 \in 1 .. Len(stack')
      /\ \A k \in 1 .. Len(stack') : k \in 1 .. Len(stack) \/ k = Len(stack) + 1
      /\ stack' # <<>> /\ returned' = Waiting
  BY EnterStack
<1>2. /\ Nodes' = Nodes /\ program' = program /\ Exact' = Exact /\ stmt' = stmt /\ code' = code
      /\ returned = Waiting
  BY DEF Nodes, Exact, Enters, Kept
<1>3. Frame(n).node = n /\ Frame(n).round = 1 /\ Frame(n).i = 0
  BY DEF Frame
<1>4. /\ ~OnStack(n)
      /\ \A m \in DOMAIN Nodes : \A k \in 1 .. Len(Nodes[m].args) :
           Nodes[m].args[k] = n <=> stack # <<>> /\ m = Top.node /\ k = Top.i + 1
      /\ \A k \in 1 .. Len(program.body) : program.body[k] = n <=> stack = <<>> /\ k = stmt
  BY EntersOnly
<1>5. \A x : OnStack(x)' <=> OnStack(x) \/ x = n
  BY <1>1, <1>3 DEF OnStack
<1>6. \A x : x # n => Entered(g, x)' = Entered(g, x)
  BY <1>5 DEF Entered
<1>7. Entered(g, n) = g[n] /\ Entered(g, n)' = g[n] + 1 /\ g[n] \in Nat
  BY <1>4, <1>5 DEF Entered
<1>8. \A m, x : Rate(m, x)' = Rate(m, x)
  BY <1>2 DEF Rate
<1>9. CallsCounted(g)'
  BY <1>2 DEF Counts, CallsCounted, Times
<1>10. BodyCounted(g)'
  <2>1. ASSUME NEW k \in 1 .. Len(program.body)
        PROVE  Close(Entered(g, program.body[k]), IF BodyBegun(k) THEN 1 ELSE 0)'
    <3>1. Close(Entered(g, program.body[k]), IF BodyBegun(k) THEN 1 ELSE 0)
      BY DEF Counts, BodyCounted
    <3>2. k \in Nat /\ stmt \in Nat
      BY SizeFacts DEF RestInv
    <3>3. CASE program.body[k] = n
      <4>1. ~BodyBegun(k) /\ BodyBegun(k)'
        BY <1>1, <1>2, <1>4, <3>2, <3>3 DEF BodyBegun
      <4> QED
        BY <1>2, <1>7, <3>1, <3>3, <4>1 DEF Close
    <3>4. CASE program.body[k] # n
      <4>1. BodyBegun(k)' <=> BodyBegun(k)
        BY <1>1, <1>2, <1>4, <3>2, <3>4 DEF BodyBegun
      <4> QED
        BY <1>2, <1>6, <3>1, <3>4, <4>1 DEF Close
    <3> QED
      BY <3>3, <3>4
  <2> QED
    BY <1>2, <2>1 DEF BodyCounted
<1>11. stack # <<>> => OnStack(Top.node)
  <2>1. stack # <<>> => Len(stack) \in 1 .. Len(stack)
    BY <1>1 DEF StackInv
  <2> QED
    BY <2>1 DEF OnStack, Top
<1>12. PassedCounted(g)'
  <2>1. ASSUME NEW m \in DOMAIN Nodes, NEW k \in 1 .. Len(Nodes[m].args), ~OnStack(m)'
        PROVE  Close(Entered(g, Nodes[m].args[k]), Rate(m, g[m]))'
    <3>1. ~OnStack(m)
      BY <1>5, <2>1
    <3>2. Close(Entered(g, Nodes[m].args[k]), Rate(m, g[m]))
      BY <3>1 DEF Counts, PassedCounted
    <3>3. Nodes[m].args[k] # n
      BY <1>4, <1>11, <3>1
    <3>4. Entered(g, Nodes[m].args[k])' = Entered(g, Nodes[m].args[k])
      BY <1>2, <1>6, <3>3 DEF Entered
    <3> QED
      BY <1>2, <1>8, <3>2, <3>4 DEF Close
  <2> QED
    BY <1>2, <2>1 DEF PassedCounted
<1>13. StackCounted(g)'
  <2>1. ASSUME NEW j \in 1 .. Len(stack'), NEW k \in 1 .. Len(Nodes[stack'[j].node].args)
        PROVE  Close(Entered(g, Nodes[stack[j].node].args[k]),
                     Rate(stack[j].node, g[stack[j].node]) + Part(j, k))'
    <3>1. CASE j = Len(stack) + 1
      <4>1. stack'[j].node = n /\ k \in Nat
        BY <1>1, <1>3, <3>1
      <4>2. Close(Entered(g, Nodes[n].args[k]), Rate(n, g[n]))
        BY <1>4, <2>1, <4>1 DEF Counts, PassedCounted
      <4>3. Nodes[n].args[k] # n
        BY <1>4, <1>11, <2>1, <4>1
      <4>4. Part(j, k)' = 0
        BY <1>1, <1>3, <3>1, <4>1 DEF Part, Begun
      <4>5. Rate(n, g[n]) \in Nat
        BY <1>7 DEF Rate
      <4> QED
        BY <1>2, <1>6, <1>8, <4>1, <4>2, <4>3, <4>4, <4>5 DEF Close
    <3>2. CASE j \in 1 .. Len(stack)
      <4> DEFINE m == stack[j].node
                 c == Nodes[m].args[k]
      <4>1. stack'[j] = stack[j] /\ k \in 1 .. Len(Nodes[m].args) /\ k \in Nat
        BY <1>1, <2>1, <3>2
      <4>2. Close(Entered(g, c), Rate(m, g[m]) + Part(j, k))
        BY <3>2, <4>1 DEF Counts, StackCounted
      <4>3. m \in DOMAIN Nodes /\ stack[j].i \in Nat /\ stack[j] \in CallFrame
        BY <3>2, FrameFacts
      <4>4. Begun(j)' = stack[j].i + 1
        BY <1>1, <3>2, <4>1 DEF Begun
      <4>5. stack[j].round \in {1, 2} /\ Rate(m, g[m]) \in Nat
        BY <4>3 DEF CallFrame, Rate
      <4>6. CASE c = n
        <5>1. m = Top.node /\ k = Top.i + 1 /\ stack # <<>>
          BY <1>4, <4>1, <4>3, <4>6
        <5>2. j = Len(stack)
          <6>1. Len(stack) \in 1 .. Len(stack) /\ stack[Len(stack)].node = m
            BY <1>1, <5>1 DEF Top, StackInv
          <6>2. j < Len(stack) => stack[j].node < stack[Len(stack)].node
            BY <3>2, <6>1, Ascending
          <6>3. stack[j].node \in Nat
            BY <3>2, FrameFacts
          <6> QED
            BY <1>1, <3>2, <6>1, <6>2, <6>3
        <5>3. Begun(j) = stack[j].i /\ stack[j].i = Top.i
          BY <1>1, <1>2, <4>3, <5>2 DEF Begun, Top
        <5>4. Part(j, k) = stack[j].round - 1 /\ Part(j, k)' = stack[j].round
          BY <4>1, <4>3, <4>4, <4>5, <5>1, <5>3 DEF Part
        <5>5. Entered(g, c)' = Entered(g, c) + 1 /\ Entered(g, c) \in Nat
          BY <1>2, <1>7, <4>1, <4>6
        <5>6. (Rate(m, g[m]))' = Rate(m, g[m])
          BY <1>8, <4>1
        <5>7. /\ Entered(g, c) <= Rate(m, g[m]) + Part(j, k)
              /\ Exact => Entered(g, c) = Rate(m, g[m]) + Part(j, k)
          BY <4>2 DEF Close
        <5>8. /\ Entered(g, c) + 1 <= Rate(m, g[m]) + stack[j].round
              /\ Exact => Entered(g, c) + 1 = Rate(m, g[m]) + stack[j].round
          <6> HIDE DEF m, c
          <6> QED
            BY <4>5, <5>4, <5>5, <5>7
        <5> QED
          BY <1>2, <5>4, <5>5, <5>6, <5>8 DEF Close
      <4>7. CASE c # n
        <5>1. Entered(g, c)' = Entered(g, c)
          BY <1>2, <1>6, <4>1, <4>7
        <5>2. Part(j, k)' = Part(j, k)
          <6>1. k <= Begun(j)' <=> k <= Begun(j)
            <7>1. CASE j = Len(stack)
              <8>1. Begun(j) = stack[j].i
                BY <1>1, <1>2, <4>3, <7>1 DEF Begun
              <8>2. m = Top.node /\ stack[j].i = Top.i /\ stack # <<>>
                BY <1>1, <3>2, <7>1 DEF Top
              <8>3. k # stack[j].i + 1
                BY <1>4, <4>1, <4>3, <4>7, <8>2
              <8>4. k <= stack[j].i + 1 <=> k <= stack[j].i
                BY <4>1, <4>3, <8>3
              <8> QED
                BY <4>4, <8>1, <8>4
            <7>2. CASE j # Len(stack)
              <8>1. Begun(j) = stack[j].i + 1
                BY <1>1, <3>2, <7>2 DEF Begun
              <8> QED
                BY <4>4, <8>1
            <7> QED
              BY <7>1, <7>2
          <6> QED
            BY <4>1, <6>1 DEF Part
        <5>3. (Rate(m, g[m]))' = Rate(m, g[m])
          BY <1>8, <4>1
        <5> QED
          BY <1>2, <4>2, <5>1, <5>2, <5>3 DEF Close
      <4> QED
        BY <4>6, <4>7
    <3> QED
      BY <1>1, <2>1, <3>1, <3>2
  <2> QED
    BY <1>2, <2>1 DEF StackCounted
<1>14. ASSUME NEW m \in DOMAIN Nodes PROVE Entered(g, m)' = Entered(g, m) + IF m = n THEN 1 ELSE 0
  <2>1. Entered(g, m) \in Nat
    BY DEF Entered
  <2> QED
    BY <1>6, <1>7, <2>1
<1> QED
  BY <1>9, <1>10, <1>12, <1>13, <1>14 DEF Counts

\* The calls of a node, with one more.
LEMMA TimesEmitted ==
  ASSUME RestInv, NEW e, code' = Append(code, e), NEW n
  PROVE  /\ Times(n) \in Nat
         /\ Times(n)' = Times(n) + IF e.node = n THEN 1 ELSE 0
<1> DEFINE S == {k \in 1 .. Len(code) : code[k].node = n}
           T == {k \in 1 .. Len(code') : code'[k].node = n}
           z == Len(code) + 1
<1>1. Len(code) \in Nat /\ Len(code') = Len(code) + 1 /\ code'[Len(code) + 1] = e
      /\ \A k \in 1 .. Len(code) : code'[k] = code[k]
  BY DEF RestInv
<1>2. IsFiniteSet(S) /\ Cardinality(S) \in Nat
  <2>1. IsFiniteSet(1 .. Len(code)) /\ S \subseteq 1 .. Len(code)
    BY <1>1, FS_Interval
  <2> HIDE DEF S
  <2>2. IsFiniteSet(S)
    BY <2>1, FS_Subset
  <2> QED
    BY <2>2, FS_CardinalityType
<1>3. T = IF e.node = n THEN S \cup {z} ELSE S
  <2>1. \A k : k \in 1 .. Len(code') <=> k \in 1 .. Len(code) \/ k = z
    BY <1>1
  <2> QED
    BY <1>1, <2>1
<1>4. z \notin S
  BY <1>1
<1>5. Cardinality(S \cup {z}) = Cardinality(S) + 1
  <2> HIDE DEF S, z
  <2> QED
    BY <1>2, <1>4, FS_AddElement
<1>6. Times(n) = Cardinality(S) /\ Times(n)' = Cardinality(T)
  BY DEF Times
<1> HIDE DEF S, T, z
<1> QED
  BY <1>2, <1>3, <1>5, <1>6

LEMMA TimesNat ==
  ASSUME RestInv, NEW n
  PROVE  Times(n) \in Nat
<1> DEFINE S == {k \in 1 .. Len(code) : code[k].node = n}
<1>1. IsFiniteSet(1 .. Len(code)) /\ S \subseteq 1 .. Len(code)
  BY SizeFacts, FS_Interval
<1> HIDE DEF S
<1>2. Cardinality(S) \in Nat
  BY <1>1, FS_Subset, FS_CardinalityType
<1> QED
  BY <1>2 DEF Times, S

LEMMA CountsEnd ==
  ASSUME StackInv, RestInv, OnPath, Rounds, UNCHANGED program, NEW v, Ends(v),
         NEW g \in [DOMAIN Nodes -> Nat], Counts(g),
         NEW h \in [DOMAIN Nodes -> Nat], h = [g EXCEPT ![Top.node] = @ + 1]
  PROVE  Counts(h)' /\ \A m \in DOMAIN Nodes : Entered(h, m)' = Entered(g, m)
<1>1. /\ Len(stack) \in Nat \ {0} /\ Len(stack') = Len(stack) - 1
      /\ \A k \in 1 .. Len(stack) - 1 : stack'[k] = stack[k] /\ k \in 1 .. Len(stack)
      /\ \A k \in 1 .. Len(stack) : k \in 1 .. Len(stack) - 1 \/ k = Len(stack)
      /\ stack' = <<>> <=> Len(stack) = 1
      /\ returned' = v /\ v # Waiting
  BY EndStack
<1>2. /\ Nodes' = Nodes /\ program' = program /\ stmt' = stmt /\ (Exact' => Exact)
      /\ stack # <<>>
  BY DEF Nodes, Exact, Ends
<1>3. /\ Len(stack) \in 1 .. Len(stack) /\ stack[Len(stack)].node = Top.node
      /\ Top.node \in DOMAIN Nodes
  BY <1>1, <1>2, TopFacts DEF Top
<1>4. \A j \in 1 .. Len(stack) - 1 : stack[j].node # Top.node
  <2> TAKE j \in 1 .. Len(stack) - 1
  <2>1. j \in 1 .. Len(stack) /\ j < Len(stack)
    BY <1>1
  <2>2. stack[j].node < stack[Len(stack)].node
    BY <1>3, <2>1, Ascending
  <2>3. stack[j].node \in Nat
    BY <2>1, FrameFacts
  <2> QED
    BY <1>3, <2>2, <2>3
<1>5. /\ OnStack(Top.node)
      /\ \A x : OnStack(x)' <=> OnStack(x) /\ x # Top.node
  <2>1. OnStack(Top.node)
    BY <1>3 DEF OnStack
  <2>2. ASSUME NEW x, OnStack(x)' PROVE OnStack(x) /\ x # Top.node
    BY <1>1, <1>4, <2>2 DEF OnStack
  <2>3. ASSUME NEW x, OnStack(x), x # Top.node PROVE OnStack(x)'
    <3>1. PICK j \in 1 .. Len(stack) : stack[j].node = x
      BY <2>3 DEF OnStack
    <3>2. j \in 1 .. Len(stack) - 1
      BY <1>1, <1>3, <2>3, <3>1
    <3> QED
      BY <1>1, <3>1, <3>2 DEF OnStack
  <2> QED
    BY <2>1, <2>2, <2>3
<1>6. /\ h[Top.node] = g[Top.node] + 1
      /\ \A x \in DOMAIN Nodes : h[x] \in Nat /\ g[x] \in Nat /\ (x # Top.node => h[x] = g[x])
  BY <1>3
<1>7. \A x \in DOMAIN Nodes : Entered(h, x)' = Entered(g, x)
  <2> TAKE x \in DOMAIN Nodes
  <2>1. CASE x = Top.node
    BY <1>5, <1>6, <2>1 DEF Entered
  <2>2. CASE x # Top.node
    BY <1>5, <1>6, <2>2 DEF Entered
  <2> QED
    BY <2>1, <2>2
<1>8. \A m, x : Rate(m, x)' = Rate(m, x)
  BY <1>2 DEF Rate
<1>9. CallsCounted(h)'
  <2>1. ASSUME NEW n \in DOMAIN Nodes
        PROVE  /\ Times(n)' <= h[n]
               /\ Exact' /\ Nodes[n].kind \in Calls => Times(n)' = h[n]
    <3>1. Times(n) <= g[n] /\ (Exact /\ Nodes[n].kind \in Calls => Times(n) = g[n])
      BY DEF Counts, CallsCounted
    <3>2. Times(n) \in Nat /\ g[n] \in Nat
      BY <1>6, TimesNat
    <3>3. CASE EmitsCall(v)
      <4>1. PICK e : e.node = Top.node /\ code' = Append(code, e)
        BY <3>3 DEF EmitsCall, EmitCall
      <4>2. Times(n)' = Times(n) + IF Top.node = n THEN 1 ELSE 0
        BY <4>1, TimesEmitted
      <4>3. CASE Top.node = n
        BY <1>2, <1>6, <3>1, <3>2, <4>2, <4>3
      <4>4. CASE Top.node # n
        BY <1>2, <1>6, <3>1, <3>2, <4>2, <4>4
      <4> QED
        BY <4>3, <4>4
    <3>4. CASE Passes(v)
      <4>1. Times(n)' = Times(n)
        BY <3>4 DEF Passes, Times
      <4>2. CASE Top.node = n
        <5>1. Exact' => Nodes[n].kind \notin Calls
          BY <3>4, <4>2 DEF Passes, Exact, Node
        <5> QED
          BY <1>6, <3>1, <3>2, <4>1, <4>2, <5>1
      <4>3. CASE Top.node # n
        BY <1>2, <1>6, <3>1, <3>2, <4>1, <4>3
      <4> QED
        BY <4>2, <4>3
    <3> QED
      BY <3>3, <3>4 DEF Ends
  <2> QED
    BY <1>2, <2>1 DEF CallsCounted
<1>10. BodyCounted(h)'
  <2>1. ASSUME NEW k \in 1 .. Len(program.body)
        PROVE  Close(Entered(h, program.body[k]), IF BodyBegun(k) THEN 1 ELSE 0)'
    <3>1. Close(Entered(g, program.body[k]), IF BodyBegun(k) THEN 1 ELSE 0)
      BY DEF Counts, BodyCounted
    <3>2. program.body[k] \in DOMAIN Nodes
      BY ProgramFacts DEF RestInv
    <3>3. BodyBegun(k)' <=> BodyBegun(k)
      BY <1>1, <1>2 DEF BodyBegun
    <3>4. Entered(h, program.body[k])' = Entered(g, program.body[k])
      BY <1>2, <1>7, <3>2 DEF Entered
    <3> QED
      BY <1>2, <3>1, <3>3, <3>4 DEF Close
  <2> QED
    BY <1>2, <2>1 DEF BodyCounted
<1>11. \A m \in DOMAIN Nodes : \A k \in 1 .. Len(Nodes[m].args) : Nodes[m].args[k] \in DOMAIN Nodes
  BY ProgramFacts DEF RestInv
<1>12. PassedCounted(h)'
  <2>1. ASSUME NEW m \in DOMAIN Nodes, NEW k \in 1 .. Len(Nodes[m].args), ~OnStack(m)'
        PROVE  Close(Entered(h, Nodes[m].args[k]), Rate(m, h[m]))'
    <3>1. Entered(h, Nodes[m].args[k])' = Entered(g, Nodes[m].args[k])
      BY <1>2, <1>7, <1>11 DEF Entered
    <3>2. Entered(g, Nodes[m].args[k]) \in Nat
      BY <1>6, <1>11 DEF Entered
    <3>3. CASE m = Top.node
      <4> DEFINE j == Len(stack)
      <4>1. Close(Entered(g, Nodes[m].args[k]), Rate(m, g[m]) + Part(j, k))
        BY <1>3, <2>1, <3>3 DEF Counts, StackCounted
      <4>2. /\ stack[j].round \in {1, 2} /\ Begun(j) \in Nat /\ k \in 1 .. Len(Nodes[m].args)
            /\ (Nodes[m].kind \notin Doubled => stack[j].round = 1)
            /\ Len(Nodes[m].args) \in Nat
        <5>1. stack[j] \in CallFrame /\ Top.i \in Nat /\ Len(Node.args) \in Nat
          BY <1>2, <1>3, FrameFacts, TopFacts
        <5>2. Begun(j) \in Nat
          BY <1>2, <5>1, TopBegun, NullType DEF StackInv
        <5> QED
          BY <1>3, <3>3, <5>1, <5>2 DEF CallFrame, Rounds, Node
      <4>3. Part(j, k) \in Nat /\ Part(j, k) <= IF Nodes[m].kind \in Doubled THEN 2 ELSE 1
        BY <4>2 DEF Part
      <4>4. Exact' => Part(j, k) = IF Nodes[m].kind \in Doubled THEN 2 ELSE 1
        <5>1. ASSUME Exact' PROVE Through
          BY <5>1 DEF Ends, Exact
        <5>2. ASSUME Through PROVE Part(j, k) = IF Nodes[m].kind \in Doubled THEN 2 ELSE 1
          <6>1. Begun(j) = Len(Nodes[m].args) /\ (Nodes[m].kind \in Doubled => stack[j].round = 2)
            BY <3>3, <5>2 DEF Through, Node, Top
          <6>2. k <= Begun(j)
            BY <4>2, <6>1
          <6> QED
            BY <4>2, <6>1, <6>2 DEF Part
        <5> QED
          BY <5>1, <5>2
      <4>5. Rate(m, h[m]) = Rate(m, g[m]) + IF Nodes[m].kind \in Doubled THEN 2 ELSE 1
        BY <1>6, <3>3 DEF Rate
      <4>6. Rate(m, g[m]) \in Nat /\ Rate(m, h[m])' = Rate(m, h[m])
        <5>1. Rate(m, g[m]) \in Nat
          BY <1>6 DEF Rate
        <5> QED
          BY <1>8, <5>1
      <4> HIDE DEF j
      <4> QED
        BY <1>2, <3>1, <3>2, <4>1, <4>3, <4>4, <4>5, <4>6 DEF Close
    <3>4. CASE m # Top.node
      <4>1. ~OnStack(m) /\ h[m] = g[m]
        BY <1>5, <1>6, <2>1, <3>4
      <4>2. Close(Entered(g, Nodes[m].args[k]), Rate(m, g[m]))
        BY <4>1 DEF Counts, PassedCounted
      <4> QED
        BY <1>2, <1>8, <3>1, <4>1, <4>2 DEF Close
    <3> QED
      BY <3>3, <3>4
  <2> QED
    BY <1>2, <2>1 DEF PassedCounted
<1>13. StackCounted(h)'
  <2>1. ASSUME NEW j \in 1 .. Len(stack'), NEW k \in 1 .. Len(Nodes[stack'[j].node].args)
        PROVE  Close(Entered(h, Nodes[stack[j].node].args[k]),
                     Rate(stack[j].node, h[stack[j].node]) + Part(j, k))'
    <3>1. j \in 1 .. Len(stack) - 1 /\ j \in 1 .. Len(stack) /\ stack'[j] = stack[j]
      BY <1>1
    <3>2. stack[j].node \in DOMAIN Nodes /\ k \in 1 .. Len(Nodes[stack[j].node].args)
          /\ stack[j].node # Top.node /\ stack[j].i \in Nat
      BY <1>4, <2>1, <3>1, FrameFacts
    <3>3. Close(Entered(g, Nodes[stack[j].node].args[k]),
                Rate(stack[j].node, g[stack[j].node]) + Part(j, k))
      BY <3>1, <3>2 DEF Counts, StackCounted
    <3>4. Part(j, k)' = Part(j, k)
      <4>1. Begun(j) = stack[j].i + 1
        BY <1>1, <3>1 DEF Begun
      <4>2. Begun(j)' = stack[j].i + 1
        BY <1>1, <3>1 DEF Begun
      <4> QED
        BY <3>1, <4>1, <4>2 DEF Part
    <3>5. Entered(h, Nodes[stack[j].node].args[k])' = Entered(g, Nodes[stack[j].node].args[k])
      BY <1>2, <1>7, <1>11, <3>1, <3>2 DEF Entered
    <3>6. h[stack[j].node] = g[stack[j].node]
      BY <1>6, <3>2
    <3>7. Rate(stack[j].node, h[stack[j].node])' = Rate(stack[j].node, g[stack[j].node])
      BY <1>8, <3>1, <3>6
    <3> QED
      BY <1>2, <3>3, <3>4, <3>5, <3>7 DEF Close
  <2> QED
    BY <1>2, <2>1 DEF StackCounted
<1> QED
  BY <1>7, <1>9, <1>10, <1>12, <1>13 DEF Counts

\* The counts after a step: what is entered has been so once more.
Follows(g, h) ==
  /\ Len(stack') <= Len(stack) => \A m \in DOMAIN Nodes : Entered(h, m)' = Entered(g, m)
  /\ \A n \in DOMAIN Nodes : Enters(n) =>
       \A m \in DOMAIN Nodes : Entered(h, m)' = Entered(g, m) + IF m = n THEN 1 ELSE 0

LEMMA CountStep ==
  ASSUME TypeInv, WalkInv, NEW g \in [DOMAIN Nodes -> Nat], Counts(g), [Next]_vars
  PROVE  \E h \in [DOMAIN Nodes -> Nat] : Counts(h)' /\ Follows(g, h)
<1>1. StackInv /\ RestInv /\ OnPath /\ Rounds /\ Moves /\ program' = program
  BY Parts, StepMoves DEF WalkInv
<1> DEFINE Good == \E h \in [DOMAIN Nodes -> Nat] : Counts(h)' /\ Follows(g, h)
<1>2. ASSUME NEW n \in DOMAIN Nodes, Enters(n) PROVE ~(Len(stack') <= Len(stack))
  <2>1. Len(stack) \in Nat /\ Len(stack') = Len(stack) + 1
    BY <1>1, <1>2, EnterStack
  <2> QED
    BY <2>1
<1>3. ASSUME NEW h \in [DOMAIN Nodes -> Nat], Counts(h)', Len(stack') <= Len(stack),
             \A m \in DOMAIN Nodes : Entered(h, m)' = Entered(g, m)
      PROVE  Good
  <2>1. Follows(g, h)
    BY <1>2, <1>3 DEF Follows
  <2> QED
    BY <1>3, <2>1
<1>4. ASSUME Counts(g)', \A m : Entered(g, m)' = Entered(g, m), Len(stack') = Len(stack)
      PROVE  Good
  <2>1. Len(stack) \in Nat
    BY <1>1 DEF StackInv
  <2>2. Len(stack') <= Len(stack)
    BY <1>4, <2>1
  <2> QED
    BY <1>3, <1>4, <2>2
<1> SUFFICES Good
  OBVIOUS
<1> HIDE DEF Good
<1>5. CASE Rests
  <2>1. UNCHANGED <<code, lost, wasError, stack, returned, stmt>>
    BY <1>5 DEF Rests
  <2>2. \A k \in 1 .. Len(program.body) : BodyBegun(k)' <=> BodyBegun(k)
    BY <2>1 DEF BodyBegun
  <2>3. \A j \in 1 .. Len(stack) : \A k \in 1 .. Len(Nodes[stack[j].node].args) :
          Part(j, k)' = Part(j, k)
    BY <2>1 DEF Part, Begun
  <2>4. Counts(g)' /\ \A m : Entered(g, m)' = Entered(g, m)
    BY <1>1, <2>1, <2>2, <2>3, CountsStay
  <2> QED
    BY <1>4, <2>1, <2>4
<1>6. ASSUME NEW n \in DOMAIN Nodes, Enters(n) PROVE Good
  <2>1. Counts(g)' /\ \A m \in DOMAIN Nodes : Entered(g, m)' = Entered(g, m) + IF m = n THEN 1 ELSE 0
    BY <1>1, <1>6, CountsEnter
  <2>2. ASSUME NEW x \in DOMAIN Nodes, Enters(x) PROVE x = n
    BY <1>6, <2>2 DEF Enters
  <2>3. Follows(g, g)
    BY <1>2, <1>6, <2>1, <2>2 DEF Follows
  <2> QED
    BY <2>1, <2>3 DEF Good
<1>7. ASSUME stack # <<>>, NEW t, Changed(t), Kept, t.node = Top.node,
             \A k \in 1 .. Len(Node.args) : Part(Len(stack), k)' = Part(Len(stack), k)
      PROVE  Good
  <2>1. /\ Len(stack) \in Nat \ {0} /\ Len(stack') = Len(stack)
        /\ \A k \in 1 .. Len(stack) : stack'[k] = IF k = Len(stack) THEN t ELSE stack[k]
        /\ stack' # <<>> /\ returned' = Waiting
    BY <1>1, <1>7, ChangedStack
  <2>2. UNCHANGED <<code, lost, wasError, stmt>>
    BY <1>7 DEF Kept
  <2>3. \A j \in 1 .. Len(stack) : stack'[j].node = stack[j].node
    BY <1>7, <2>1 DEF Top
  <2>4. \A k \in 1 .. Len(program.body) : BodyBegun(k)' <=> BodyBegun(k)
    BY <1>7, <2>1, <2>2 DEF BodyBegun
  <2>5. ASSUME NEW j \in 1 .. Len(stack), NEW k \in 1 .. Len(Nodes[stack[j].node].args)
        PROVE  Part(j, k)' = Part(j, k)
    <3>1. CASE j = Len(stack)
      <4>1. k \in 1 .. Len(Node.args)
        BY <3>1 DEF Node, Top
      <4> QED
        BY <1>7, <2>1, <3>1, <4>1 DEF Part, Begun
    <3>2. CASE j # Len(stack)
      <4>1. Begun(j) = stack[j].i + 1 /\ Begun(j)' = stack[j].i + 1 /\ stack'[j] = stack[j]
        BY <2>1, <3>2 DEF Begun
      <4> QED
        BY <4>1 DEF Part
    <3> QED
      BY <3>1, <3>2
  <2>6. Counts(g)' /\ \A m : Entered(g, m)' = Entered(g, m)
    BY <1>1, <2>1, <2>2, <2>3, <2>4, <2>5, CountsStay
  <2> QED
    BY <1>4, <2>1, <2>6
<1>8. CASE Receives
  <2>1. /\ stack # <<>> /\ returned # Waiting /\ Changed(Received) /\ Kept
        /\ Received.node = Top.node /\ Received.i = Top.i + 1 /\ Received.round = Top.round
    BY <1>1, <1>8, MoveFields DEF Receives, WalkInv
  <2>2. /\ stack'[Len(stack)] = Received /\ returned' = Waiting /\ Len(stack') = Len(stack)
        /\ Len(stack) \in Nat
    BY <1>1, <2>1, ChangedStack
  <2>3. Begun(Len(stack)) = Top.i + 1
    BY <1>1, <2>1, TopBegun
  <2>4. ASSUME NEW k \in 1 .. Len(Node.args) PROVE Part(Len(stack), k)' = Part(Len(stack), k)
    <3>1. Top.i \in Nat
      BY <1>1, <2>1, TopFacts
    <3>2. Part(Len(stack), k)' = (Received.round - 1) + IF k <= Received.i THEN 1 ELSE 0
      BY <2>1, <2>2, <3>1 DEF Part, Begun
    <3> QED
      BY <2>1, <2>3, <3>2 DEF Part, Top
  <2> QED
    BY <1>7, <2>1, <2>4
<1>9. ASSUME NEW t, Repeats(t) PROVE Good
  <2>1. /\ stack # <<>> /\ Changed(t) /\ Kept /\ t.node = Top.node /\ t.round = 2 /\ t.i = 0
        /\ Top.round = 1 /\ Begun(Len(stack)) = Len(Node.args)
    BY <1>9 DEF Repeats
  <2>2. /\ stack'[Len(stack)] = t /\ returned' = Waiting /\ Len(stack') = Len(stack)
        /\ Len(stack) \in Nat
    BY <1>1, <2>1, ChangedStack
  <2>3. ASSUME NEW k \in 1 .. Len(Node.args) PROVE Part(Len(stack), k)' = Part(Len(stack), k)
    <3>1. Len(Node.args) \in Nat
      BY <1>1, <2>1, TopFacts
    <3>2. Part(Len(stack), k)' = (2 - 1) + 0
      BY <2>1, <2>2, <3>1 DEF Part, Begun
    <3>3. Part(Len(stack), k) = (1 - 1) + 1
      BY <2>1, <3>1 DEF Part, Top
    <3> QED
      BY <3>2, <3>3
  <2> QED
    BY <1>7, <2>1, <2>3
<1>10. ASSUME NEW v, Ends(v) PROVE Good
  <2>1. Top.node \in DOMAIN Nodes
    BY <1>1, <1>10, TopFacts DEF Ends
  <2>2. [g EXCEPT ![Top.node] = @ + 1] \in [DOMAIN Nodes -> Nat]
    BY <2>1
  <2>3. PICK h \in [DOMAIN Nodes -> Nat] : h = [g EXCEPT ![Top.node] = @ + 1]
    BY <2>2
  <2>4. Counts(h)' /\ \A m \in DOMAIN Nodes : Entered(h, m)' = Entered(g, m)
    BY <1>1, <1>10, <2>3, CountsEnd
  <2>5. Len(stack') <= Len(stack)
    <3>1. Len(stack) \in Nat /\ Len(stack') = Len(stack) - 1
      BY <1>1, <1>10, EndStack
    <3> QED
      BY <3>1
  <2> QED
    BY <1>3, <2>4, <2>5
<1>11. CASE EndsStatement
  <2>1. /\ stack = <<>> /\ stack' = <<>> /\ returned # Waiting /\ returned' = Waiting
        /\ stmt' = stmt + 1 /\ UNCHANGED <<code, lost, wasError>>
    BY <1>11 DEF EndsStatement
  <2>2. ASSUME NEW k \in 1 .. Len(program.body) PROVE BodyBegun(k)' <=> BodyBegun(k)
    <3>1. k \in Nat /\ stmt \in Nat
      BY <1>1, SizeFacts DEF RestInv
    <3> QED
      BY <2>1, <3>1 DEF BodyBegun
  <2>3. Len(stack) = 0
    BY <2>1
  <2>4. Counts(g)' /\ \A m : Entered(g, m)' = Entered(g, m)
    BY <1>1, <2>1, <2>2, <2>3, CountsStay
  <2> QED
    BY <1>4, <2>1, <2>4
<1> QED
  BY <1>1, <1>5, <1>6, <1>8, <1>9, <1>10, <1>11 DEF Moves

LEMMA CountInitially ==
  ASSUME Init
  PROVE  \E g \in [DOMAIN Nodes -> Nat] : Counts(g) /\ \A n \in DOMAIN Nodes : Entered(g, n) = 0
<1> DEFINE g == [n \in DOMAIN Nodes |-> 0]
<1>1. stack = <<>> /\ Len(stack) = 0 /\ code = <<>> /\ stmt = 1 /\ returned = Waiting
  BY DEF Init
<1>2. program \in Programs
  BY DEF Init
<1>3. \A n : ~OnStack(n)
  BY <1>1 DEF OnStack
<1>4. \A n \in DOMAIN Nodes : g[n] = 0 /\ Entered(g, n) = 0 /\ Rate(n, g[n]) = 0
  BY <1>3 DEF Entered, Rate
<1>5. \A n \in DOMAIN Nodes : Times(n) = 0
  <2> TAKE n \in DOMAIN Nodes
  <2>1. {k \in 1 .. Len(code) : code[k].node = n} = {}
    BY <1>1
  <2> QED
    BY <2>1, FS_EmptySet DEF Times
<1>6. g \in [DOMAIN Nodes -> Nat]
  OBVIOUS
<1> HIDE DEF g
<1>7. CallsCounted(g)
  BY <1>4, <1>5 DEF CallsCounted
<1>8. BodyCounted(g)
  <2> SUFFICES ASSUME NEW k \in 1 .. Len(program.body)
               PROVE  Close(Entered(g, program.body[k]), IF BodyBegun(k) THEN 1 ELSE 0)
    BY DEF BodyCounted
  <2>1. program.body[k] \in DOMAIN Nodes /\ ~BodyBegun(k)
    BY <1>1, <1>2, ProgramFacts DEF BodyBegun
  <2> QED
    BY <1>4, <2>1 DEF Close
<1>9. PassedCounted(g)
  <2> SUFFICES ASSUME NEW m \in DOMAIN Nodes, NEW k \in 1 .. Len(Nodes[m].args)
               PROVE  Close(Entered(g, Nodes[m].args[k]), Rate(m, g[m]))
    BY DEF PassedCounted
  <2>1. Nodes[m].args[k] \in DOMAIN Nodes
    BY <1>2, ProgramFacts
  <2> QED
    BY <1>4, <2>1 DEF Close
<1>10. StackCounted(g)
  BY <1>1 DEF StackCounted
<1> QED
  BY <1>4, <1>6, <1>7, <1>8, <1>9, <1>10 DEF Counts

LEMMA CountAlways == Spec => []CountInv
<1>1. ASSUME CountInv, TypeInv, WalkInv, [Next]_vars PROVE CountInv'
  <2>1. PICK g \in [DOMAIN Nodes -> Nat] : Counts(g)
    BY <1>1 DEF CountInv
  <2>2. PICK h \in [DOMAIN Nodes -> Nat] : Counts(h)'
    BY <1>1, <2>1, CountStep
  <2>3. DOMAIN Nodes' = DOMAIN Nodes
    BY <1>1, StepMoves DEF Nodes
  <2> QED
    BY <2>2, <2>3 DEF CountInv
<1>2. CountInv /\ TypeInv /\ WalkInv /\ [Next]_vars => CountInv'
  BY <1>1
<1>3. Init => CountInv
  BY CountInitially DEF CountInv
<1> QED
  BY <1>2, <1>3, TypeAlways, WalkAlways, PTL DEF Spec

\* A node is a statement, or an operand of a node before it.
LEMMA AllNodes ==
  ASSUME program \in Programs, NEW Good,
         \A k \in 1 .. Len(program.body) : program.body[k] \in Good,
         \A m \in DOMAIN Nodes : \A k \in 1 .. Len(Nodes[m].args) :
           m \in Good => Nodes[m].args[k] \in Good
  PROVE  DOMAIN Nodes \subseteq Good
<1> DEFINE S == {n \in DOMAIN Nodes : n \notin Good}
<1>1. SUFFICES ASSUME S # {} PROVE FALSE
  OBVIOUS
<1>2. S \in SUBSET Nat
  BY ProgramFacts
<1>3. PICK n \in S : \A x \in S : n <= x
  BY <1>1, <1>2, LeastNat
<1>4. n \in DOMAIN Nodes /\ n \notin Good
  BY <1>3
<1>5. PICK m \in DOMAIN Nodes : \E k \in 1 .. Len(Nodes[m].args) : Nodes[m].args[k] = n
  BY <1>4, TreeFacts
<1>6. m < n /\ m \in Nat /\ n \in Nat
  BY <1>4, <1>5, OperandFacts
<1>7. m \in Good
  BY <1>3, <1>6
<1> QED
  BY <1>4, <1>5, <1>7

\* No node is entered more often than it is to be generated.
LEMMA EnteredAtMost ==
  ASSUME StackInv, RestInv, Rounds, NEW g \in [DOMAIN Nodes -> Nat], Counts(g)
  PROVE  \A n \in DOMAIN Nodes : Entered(g, n) <= Generations[n]
<1> DEFINE Good == {n \in DOMAIN Nodes : Entered(g, n) <= Generations[n]}
<1>1. program \in Programs
  BY DEF RestInv
<1>2. \A m \in DOMAIN Nodes : g[m] \in Nat /\ Generations[m] \in Nat /\ Entered(g, m) \in Nat
  BY <1>1, GenerationsIs DEF Entered
<1>3. ASSUME NEW k \in 1 .. Len(program.body) PROVE program.body[k] \in Good
  <2>1. program.body[k] \in DOMAIN Nodes /\ Parents(program.body[k]) = {}
    BY <1>1, ProgramFacts, TreeFacts
  <2>2. Generations[program.body[k]] = 1
    BY <1>1, <2>1, GenerationsIs
  <2>3. Entered(g, program.body[k]) <= 1
    <3>1. Close(Entered(g, program.body[k]), IF BodyBegun(k) THEN 1 ELSE 0)
      BY DEF Counts, BodyCounted
    <3>2. Entered(g, program.body[k]) \in Nat
      BY <1>2, <2>1
    <3> QED
      BY <3>1, <3>2 DEF Close
  <2> QED
    BY <2>1, <2>2, <2>3
<1>4. ASSUME NEW m \in DOMAIN Nodes, NEW k \in 1 .. Len(Nodes[m].args), m \in Good
      PROVE  Nodes[m].args[k] \in Good
  <2> DEFINE n == Nodes[m].args[k]
  <2>1. n \in DOMAIN Nodes /\ Parents(n) = {m}
    BY <1>1, ProgramFacts, TreeFacts
  <2>2. Generations[n] = Rate(m, Generations[m])
    <3>1. Generations[n] = Generations[m] * IF Nodes[m].kind \in Doubled THEN 2 ELSE 1
      <4> HIDE DEF n
      <4> QED
        BY <1>1, <2>1, GenerationsIs
    <3> HIDE DEF n
    <3> QED
      BY <1>2, <3>1 DEF Rate
  <2>3. Entered(g, m) <= Generations[m]
    BY <1>4
  <2>4. CASE ~OnStack(m)
    <3>1. Entered(g, n) <= Rate(m, g[m]) /\ Entered(g, m) = g[m]
      BY <1>2, <2>4 DEF Counts, PassedCounted, Close, Entered
    <3>2. Rate(m, g[m]) <= Rate(m, Generations[m])
      BY <1>2, <2>3, <3>1 DEF Rate
    <3>3. Rate(m, g[m]) \in Nat /\ Rate(m, Generations[m]) \in Nat
      BY <1>2 DEF Rate
    <3> HIDE DEF n
    <3>4. n \in Good
      BY <1>2, <2>1, <2>2, <3>1, <3>2, <3>3
    <3> QED
      BY <3>4 DEF n
  <2>5. CASE OnStack(m)
    <3>1. PICK j \in 1 .. Len(stack) : stack[j].node = m
      BY <2>5 DEF OnStack
    <3>2. Entered(g, n) <= Rate(m, g[m]) + Part(j, k) /\ Entered(g, m) = g[m] + 1
      BY <2>5, <3>1 DEF Counts, StackCounted, Close, Entered
    <3>3. /\ Part(j, k) \in Nat
          /\ Part(j, k) <= IF Nodes[m].kind \in Doubled THEN 2 ELSE 1
      <4>1. stack[j].round \in {1, 2}
        BY <3>1, FrameFacts DEF CallFrame
      <4>2. Nodes[m].kind \notin Doubled => stack[j].round = 1
        BY <3>1 DEF Rounds
      <4> QED
        BY <4>1, <4>2 DEF Part
    <3>4. Rate(m, g[m]) + Part(j, k) <= Rate(m, Generations[m])
      BY <1>2, <2>3, <3>2, <3>3 DEF Rate
    <3>5. Rate(m, g[m]) \in Nat /\ Rate(m, Generations[m]) \in Nat
      BY <1>2 DEF Rate
    <3> HIDE DEF n
    <3>6. n \in Good
      BY <1>2, <2>1, <2>2, <3>2, <3>3, <3>4, <3>5
    <3> QED
      BY <3>6 DEF n
  <2> QED
    BY <2>4, <2>5
<1>5. DOMAIN Nodes \subseteq Good
  <2> HIDE DEF Good
  <2> QED
    BY <1>1, <1>3, <1>4, AllNodes
<1> QED
  BY <1>5

\* When the body is done and nothing was lost, it is exactly as often.
LEMMA GeneratedExactly ==
  ASSUME RestInv, Exact, stack = <<>>, stmt > Len(program.body),
         NEW g \in [DOMAIN Nodes -> Nat], Counts(g)
  PROVE  \A n \in DOMAIN Nodes : g[n] = Generations[n]
<1> DEFINE Good == {n \in DOMAIN Nodes : g[n] = Generations[n]}
<1>1. program \in Programs
  BY DEF RestInv
<1>2. \A m \in DOMAIN Nodes : g[m] \in Nat /\ Generations[m] \in Nat
  BY <1>1, GenerationsIs
<1>3. \A n : ~OnStack(n)
  BY DEF OnStack
<1>4. \A n \in DOMAIN Nodes : Entered(g, n) = g[n]
  BY <1>2, <1>3 DEF Entered
<1>5. ASSUME NEW k \in 1 .. Len(program.body) PROVE program.body[k] \in Good
  <2>1. program.body[k] \in DOMAIN Nodes /\ Parents(program.body[k]) = {}
    BY <1>1, ProgramFacts, TreeFacts
  <2>2. Generations[program.body[k]] = 1
    BY <1>1, <2>1, GenerationsIs
  <2>3. BodyBegun(k)
    <3>1. k < stmt
      BY SizeFacts DEF RestInv
    <3> QED
      BY <3>1 DEF BodyBegun
  <2>4. Entered(g, program.body[k]) = 1
    BY <2>3 DEF Counts, BodyCounted, Close
  <2> QED
    BY <1>4, <2>1, <2>2, <2>4
<1>6. ASSUME NEW m \in DOMAIN Nodes, NEW k \in 1 .. Len(Nodes[m].args), m \in Good
      PROVE  Nodes[m].args[k] \in Good
  <2> DEFINE n == Nodes[m].args[k]
  <2>1. n \in DOMAIN Nodes /\ Parents(n) = {m}
    BY <1>1, ProgramFacts, TreeFacts
  <2>2. Generations[n] = Rate(m, Generations[m])
    <3>1. Generations[n] = Generations[m] * IF Nodes[m].kind \in Doubled THEN 2 ELSE 1
      <4> HIDE DEF n
      <4> QED
        BY <1>1, <2>1, GenerationsIs
    <3> HIDE DEF n
    <3> QED
      BY <1>2, <3>1 DEF Rate
  <2>3. Entered(g, n) = Rate(m, g[m])
    BY <1>3 DEF Counts, PassedCounted, Close
  <2>4. g[m] = Generations[m]
    BY <1>6
  <2> QED
    BY <1>4, <2>1, <2>2, <2>3, <2>4
<1>7. DOMAIN Nodes \subseteq Good
  <2> HIDE DEF Good
  <2> QED
    BY <1>1, <1>5, <1>6, AllNodes
<1> QED
  BY <1>7

\* A node is generated twice for every call and dereference it is below of
\* (generateCallExpression, generateUnaryExpression), and if no value is missing its call is
\* emitted as often.
THEOREM CallEmissionEmittedPerGeneration == Spec => []EmittedPerGeneration
<1>1. TypeInv /\ WalkInv /\ CountInv => EmittedPerGeneration
  <2> SUFFICES ASSUME TypeInv, WalkInv, CountInv PROVE EmittedPerGeneration
    OBVIOUS
  <2>1. StackInv /\ RestInv /\ Rounds /\ program \in Programs
    BY Parts DEF WalkInv, RestInv
  <2>2. PICK g \in [DOMAIN Nodes -> Nat] : Counts(g)
    BY DEF CountInv
  <2>3. ASSUME NEW n \in DOMAIN Nodes
        PROVE  /\ Times(n) <= Generations[n]
               /\ status = "done" /\ ~lost /\ Nodes[n].kind \in Calls => Times(n) = Generations[n]
    <3>1. Times(n) <= g[n] /\ (Exact /\ Nodes[n].kind \in Calls => Times(n) = g[n])
      BY <2>2 DEF Counts, CallsCounted
    <3>2. g[n] <= Entered(g, n) /\ Entered(g, n) \in Nat /\ g[n] \in Nat
      BY DEF Entered
    <3>3. Entered(g, n) <= Generations[n]
      BY <2>1, <2>2, EnteredAtMost
    <3>4. Times(n) \in Nat /\ Generations[n] \in Nat
      BY <2>1, TimesNat, GenerationsIs
    <3>5. ASSUME status = "done", ~lost PROVE Exact /\ g[n] = Generations[n]
      <4>1. stack = <<>> /\ returned = Waiting /\ stmt > Len(program.body)
        BY <3>5 DEF WalkInv, EndsWell
      <4>2. Exact
        BY <3>5, <4>1 DEF WalkInv, EndsWell, Exact
      <4> QED
        BY <2>1, <2>2, <4>1, <4>2, GeneratedExactly
    <3> QED
      BY <3>1, <3>2, <3>3, <3>4, <3>5
  <2> QED
    BY <2>3 DEF EmittedPerGeneration
<1> QED
  BY <1>1, TypeAlways, WalkAlways, CountAlways, PTL

-----------------------------------------------------------------------------
(***************************************************************************)
(* BoundOnce: as long as no variable below a call, or below what is piped  *)
(* to it, has been passed as a reference, the types of its arguments are   *)
(* those the trees give.                                                   *)
(***************************************************************************)
\* What a call, an operator and a node of another kind return, from the types of their
\* operands and of what is piped to them.
Returned(n, f) ==
  IF f.isStructReturn THEN IF Nodes[n].kind = "call" THEN Identifier_Node ELSE Void ELSE f.returns

Binding(n, types) ==
  GetFunctionFromID(functionIDs, FullName(n),
                    (IF Nodes[n].kind = "method" THEN <<Struct_Type>> ELSE <<>>) \o types,
                    TRUE, Nodes[n].kind = "method")

OperatorType(n, l, r) ==
  LET f == GetNamedFunctionFromID(functionIDs, Nodes[n].name) IN
  IF Void \in {l, r} THEN Void
  ELSE IF f # 0 THEN IF functionIDs[f].returns = Void THEN Identifier_Node ELSE functionIDs[f].returns
  ELSE IF Computes(l, r) THEN Lower(l, r) ELSE Void

TypeFrom(n, types, p) ==
  CASE Nodes[n].kind = "placeholder" -> p
    [] Nodes[n].kind = "dereference" -> IF types[1] = Void THEN Void ELSE SInt32_Type
    [] Nodes[n].kind = "operator" -> OperatorType(n, types[1], types[2])
    [] Nodes[n].kind \in Calls ->
         IF Binding(n, types) = 0 THEN Void ELSE Returned(n, functionIDs[Binding(n, types)])
    [] OTHER -> Nodes[n].type

OperandTypes(ty, n) == [i \in 1 .. Len(Nodes[n].args) |-> ty[Nodes[n].args[i]]]

\* The type of every node, and of what is piped to it.
Typing(ty, piped) ==
  /\ ty \in [DOMAIN Nodes -> Nat]
  /\ \A n \in DOMAIN Nodes :
       /\ piped[n] \in Nat
       /\ Parents(n) = {} => piped[n] = Void
       /\ Nodes[n].kind # "pipe" =>
            /\ ty[n] = TypeFrom(n, OperandTypes(ty, n), piped[n])
            /\ \A k \in 1 .. Len(Nodes[n].args) : piped[Nodes[n].args[k]] = piped[n]
       /\ Nodes[n].kind = "pipe" =>
            /\ ty[n] = ty[Nodes[n].args[2]]
            /\ piped[Nodes[n].args[1]] = piped[n]
            /\ piped[Nodes[n].args[2]] = ty[Nodes[n].args[1]]

LEMMA TypeFromNat ==
  ASSUME RestInv, NEW n \in DOMAIN Nodes, NEW types \in [1 .. Len(Nodes[n].args) -> Nat], NEW p \in Nat,
         Nodes[n].kind # "pipe"
  PROVE  TypeFrom(n, types, p) \in Nat
<1>1. /\ Nodes[n] \in ASTNode /\ Nodes[n].type \in Nat
      /\ \A f \in 1 .. Len(functionIDs) : functionIDs[f].returns \in Nat
  <2>1. Nodes[n] \in ASTNode
    BY ProgramFacts DEF RestInv
  <2>2. \A f \in 1 .. Len(functionIDs) : functionIDs[f] \in FunctionID
    BY DEF RestInv
  <2> QED
    BY <2>1, <2>2, TypesAreNumbers DEF ASTNode, FunctionID
<1>2. Void \in Nat /\ Identifier_Node \in Nat /\ SInt32_Type \in Nat
  BY DEF Void, Identifier_Node, SInt32_Type
<1>3. ASSUME NEW l \in Nat, NEW r \in Nat PROVE OperatorType(n, l, r) \in Nat
  <2> DEFINE f == GetNamedFunctionFromID(functionIDs, Nodes[n].name)
  <2>1. f \in 0 .. Len(functionIDs) /\ Len(functionIDs) \in Nat
    BY LookupRange, SizeFacts
  <2>2. f # 0 => functionIDs[f].returns \in Nat
    BY <1>1, <2>1
  <2>3. Lower(l, r) \in Nat
    BY DEF Lower
  <2> HIDE DEF f
  <2> QED
    BY <1>2, <2>2, <2>3 DEF OperatorType, f
<1>4. ASSUME Nodes[n].kind \in Calls PROVE TypeFrom(n, types, p) \in Nat
  <2> DEFINE f == Binding(n, types)
  <2>1. f \in 0 .. Len(functionIDs) /\ Len(functionIDs) \in Nat
    BY LookupRange, SizeFacts DEF Binding
  <2>2. f # 0 => functionIDs[f].returns \in Nat
    BY <1>1, <2>1
  <2>3. TypeFrom(n, types, p) = IF f = 0 THEN Void ELSE Returned(n, functionIDs[f])
    BY <1>4 DEF TypeFrom, Calls
  <2> HIDE DEF f
  <2> QED
    BY <1>2, <2>2, <2>3 DEF Returned
<1>5. Nodes[n].kind = "dereference" => types[1] \in Nat
  <2>1. Nodes[n].kind = "dereference" => Len(Nodes[n].args) = 1
    BY TreeFacts DEF RestInv
  <2>2. Nodes[n].kind = "dereference" => 1 \in 1 .. Len(Nodes[n].args)
    BY <2>1
  <2> QED
    BY <2>2
<1>6. Nodes[n].kind = "operator" => types[1] \in Nat /\ types[2] \in Nat
  <2>1. Nodes[n].kind = "operator" => Len(Nodes[n].args) = 2
    BY ProgramFacts DEF RestInv
  <2>2. Nodes[n].kind = "operator" => 1 \in 1 .. Len(Nodes[n].args) /\ 2 \in 1 .. Len(Nodes[n].args)
    BY <2>1
  <2> QED
    BY <2>2
<1>7. Nodes[n].kind = "operator" => OperatorType(n, types[1], types[2]) \in Nat
  BY <1>3, <1>6
<1>8. CASE Nodes[n].kind \notin Calls
  BY <1>1, <1>2, <1>7, <1>8 DEF TypeFrom
<1> QED
  BY <1>4, <1>8

\* The types of the nodes, given that of what is piped to them: they are determined from the
\* last node on.
GivenTypes(t, n, p) == [i \in 1 .. Len(Nodes[n].args) |-> t[Nodes[n].args[i]][p]]

TypeMap(t, n) ==
  [p \in Nat |->
     IF Nodes[n].kind = "pipe" THEN t[Nodes[n].args[2]][t[Nodes[n].args[1]][p]]
     ELSE TypeFrom(n, GivenTypes(t, n, p), p)]

LEMMA TypeMapAt ==
  ASSUME NEW t, NEW n, NEW p \in Nat
  PROVE  TypeMap(t, n)[p] =
           IF Nodes[n].kind = "pipe" THEN t[Nodes[n].args[2]][t[Nodes[n].args[1]][p]]
           ELSE TypeFrom(n, GivenTypes(t, n, p), p)
BY DEF TypeMap

TypedFrom(t, m) ==
  /\ t \in [m .. Len(Nodes) -> [Nat -> Nat]]
  /\ \A n \in m .. Len(Nodes) : t[n] = TypeMap(t, n)

LEMMA TypeMapNat ==
  ASSUME RestInv, NEW n \in DOMAIN Nodes, NEW t,
         \A i \in 1 .. Len(Nodes[n].args) : t[Nodes[n].args[i]] \in [Nat -> Nat]
  PROVE  TypeMap(t, n) \in [Nat -> Nat]
<1> DEFINE a == Nodes[n].args
<1> SUFFICES ASSUME NEW p \in Nat
             PROVE  IF Nodes[n].kind = "pipe" THEN t[a[2]][t[a[1]][p]] \in Nat
                    ELSE TypeFrom(n, GivenTypes(t, n, p), p) \in Nat
  BY DEF TypeMap
<1>1. CASE Nodes[n].kind = "pipe"
  <2>1. Len(a) = 2
    BY <1>1, ProgramFacts DEF RestInv
  <2>2. t[a[1]] \in [Nat -> Nat] /\ t[a[2]] \in [Nat -> Nat]
    BY <2>1
  <2> HIDE DEF a
  <2> QED
    BY <1>1, <2>2
<1>2. CASE Nodes[n].kind # "pipe"
  <2>1. GivenTypes(t, n, p) \in [1 .. Len(a) -> Nat]
    BY DEF GivenTypes
  <2>2. TypeFrom(n, GivenTypes(t, n, p), p) \in Nat
    BY <1>2, <2>1, TypeFromNat
  <2> QED
    BY <1>2, <2>2
<1> QED
  BY <1>1, <1>2

LEMMA TypeMapSame ==
  ASSUME RestInv, NEW n \in DOMAIN Nodes, NEW t, NEW u,
         \A i \in 1 .. Len(Nodes[n].args) : t[Nodes[n].args[i]] = u[Nodes[n].args[i]]
  PROVE  TypeMap(t, n) = TypeMap(u, n)
<1> DEFINE a == Nodes[n].args
<1>1. \A p \in Nat : GivenTypes(t, n, p) = GivenTypes(u, n, p)
  BY DEF GivenTypes
<1>2. Nodes[n].kind = "pipe" => t[a[1]] = u[a[1]] /\ t[a[2]] = u[a[2]]
  BY ProgramFacts DEF RestInv
<1> HIDE DEF a
<1> QED
  BY <1>1, <1>2 DEF TypeMap, a

LEMMA TypesExist ==
  ASSUME RestInv
  PROVE  \E t : TypedFrom(t, 1)
<1> DEFINE N == Len(Nodes)
           S == {k \in 0 .. N : ~ \E t : TypedFrom(t, (N + 1) - k)}
<1>1. N \in Nat /\ DOMAIN Nodes = 1 .. N /\ program \in Programs
  BY ProgramFacts DEF RestInv
<1>2. CASE S = {}
  <2>1. N \in 0 .. N /\ (N + 1) - N = 1
    BY <1>1
  <2> HIDE DEF N
  <2>2. \E t : TypedFrom(t, (N + 1) - N)
    BY <1>2, <2>1
  <2> QED
    BY <2>1, <2>2
<1>3. CASE S # {}
  <2>1. S \in SUBSET Nat
    BY <1>1
  <2>2. PICK k \in S : \A j \in S : k <= j
    BY <1>3, <2>1, LeastNat
  <2> DEFINE m == (N + 1) - k
  <2>3. k \in 0 .. N /\ ~ \E t : TypedFrom(t, m)
    BY <2>2
  <2>4. m \in 1 .. N + 1
    BY <1>1, <2>3
  <2>5. CASE k = 0
    <3> DEFINE t == [n \in {} |-> n]
    <3>1. m .. N = {} /\ N = Len(Nodes)
      BY <1>1, <2>5
    <3>2. t \in [{} -> [Nat -> Nat]]
      OBVIOUS
    <3> HIDE DEF m, t, N
    <3>3. TypedFrom(t, m)
      BY <3>1, <3>2 DEF TypedFrom
    <3> QED
      BY <2>3, <3>3
  <2>6. CASE k # 0
    <3>1. k - 1 \in 0 .. N /\ ~(k <= k - 1) /\ (N + 1) - (k - 1) = m + 1 /\ m \in 1 .. N
      BY <1>1, <2>3, <2>6
    <3>2. k - 1 \notin S
      BY <2>2, <3>1
    <3>3. PICK t : TypedFrom(t, m + 1)
      BY <3>1, <3>2
    <3> DEFINE u == [n \in m .. N |-> IF n = m THEN TypeMap(t, m) ELSE t[n]]
    <3> HIDE DEF S, m
    <3>4. /\ t \in [m + 1 .. N -> [Nat -> Nat]]
          /\ \A n \in m + 1 .. N : t[n] = TypeMap(t, n)
      BY <3>3 DEF TypedFrom
    <3>5. ASSUME NEW n \in m .. N, NEW i \in 1 .. Len(Nodes[n].args)
          PROVE  Nodes[n].args[i] \in m + 1 .. N /\ u[Nodes[n].args[i]] = t[Nodes[n].args[i]]
      <4> DEFINE c == Nodes[n].args[i]
      <4>1. n \in DOMAIN Nodes
        BY <1>1, <3>1
      <4>2. c \in DOMAIN Nodes /\ n < c
        BY <1>1, <4>1, ProgramFacts, TreeFacts
      <4>3. c \in m + 1 .. N /\ c \in m .. N /\ c # m
        BY <1>1, <3>1, <4>2
      <4> HIDE DEF c
      <4>4. u[c] = t[c]
        BY <4>3
      <4> QED
        BY <4>3, <4>4 DEF c
    <3>6. \A n \in m .. N : TypeMap(u, n) = TypeMap(t, n)
      <4> TAKE n \in m .. N
      <4>1. n \in DOMAIN Nodes
        BY <1>1, <3>1
      <4> HIDE DEF u
      <4> QED
        BY <3>5, <4>1, TypeMapSame
    <3>7. TypeMap(t, m) \in [Nat -> Nat]
      <4>1. m \in DOMAIN Nodes /\ m \in m .. N
        BY <1>1, <3>1
      <4>2. \A i \in 1 .. Len(Nodes[m].args) : t[Nodes[m].args[i]] \in [Nat -> Nat]
        BY <3>4, <3>5, <4>1
      <4> QED
        BY <4>1, <4>2, TypeMapNat
    <3>8. u \in [m .. N -> [Nat -> Nat]]
      <4>1. ASSUME NEW n \in m .. N PROVE (IF n = m THEN TypeMap(t, m) ELSE t[n]) \in [Nat -> Nat]
        <5>1. n = m \/ n \in m + 1 .. N
          BY <1>1, <3>1
        <5> QED
          BY <3>4, <3>7, <5>1
      <4> QED
        BY <4>1
    <3>9. \A n \in m .. N : u[n] = TypeMap(t, n)
      BY <3>1, <3>4
    <3> HIDE DEF u
    <3>10. TypedFrom(u, m)
      BY <3>6, <3>8, <3>9 DEF TypedFrom
    <3> QED
      BY <2>3, <3>10
  <2> QED
    BY <2>5, <2>6
<1> QED
  BY <1>2, <1>3
-----------------------------------------------------------------------------
LEMMA TypingExists ==
  ASSUME RestInv
  PROVE  \E ty, piped : Typing(ty, piped)
<1> DEFINE N == Len(Nodes)
           P(n) == CHOOSE p \in Parents(n) : TRUE
           par == [n \in 1 .. N |-> IF Parents(n) = {} THEN 0 ELSE P(n)]
           base == [n \in 1 .. N |-> Void]
           IsRight(n) == Nodes[P(n)].kind = "pipe" /\ n = Nodes[P(n)].args[2]
<1>1. N \in Nat /\ DOMAIN Nodes = 1 .. N /\ program \in Programs
  BY ProgramFacts DEF RestInv
<1>2. PICK t : TypedFrom(t, 1)
  BY TypesExist
<1>3. /\ t \in [1 .. N -> [Nat -> Nat]]
      /\ \A n \in 1 .. N : t[n] = TypeMap(t, n)
  BY <1>2 DEF TypedFrom
<1> DEFINE F == [n \in 1 .. N |-> [x \in Nat |-> IF Parents(n) # {} /\ IsRight(n)
                                               THEN t[Nodes[P(n)].args[1]][x] ELSE x]]
<1>4. ASSUME NEW n \in 1 .. N, Parents(n) # {}
      PROVE  P(n) \in 1 .. N /\ P(n) < n
  <2>1. PICK m \in DOMAIN Nodes : \E k \in 1 .. Len(Nodes[m].args) : Nodes[m].args[k] = n
    BY <1>1, <1>4, TreeFacts
  <2>2. Parents(n) = {m} /\ m < n
    BY <1>1, <2>1, OperandFacts
  <2>3. P(n) = m
    BY <2>2
  <2> QED
    BY <1>1, <2>2, <2>3
<1>5. par \in [1 .. N -> Nat] /\ \A n \in 1 .. N : par[n] < n
  BY <1>1, <1>4
<1>6. base \in [1 .. N -> Nat]
  BY DEF Void
<1>7. F \in [1 .. N -> [Nat -> Nat]]
  <2> SUFFICES ASSUME NEW n \in 1 .. N, NEW x \in Nat, Parents(n) # {}, IsRight(n)
               PROVE  t[Nodes[P(n)].args[1]][x] \in Nat
    OBVIOUS
  <2>1. P(n) \in 1 .. N
    BY <1>4
  <2> DEFINE c == Nodes[P(n)].args[1]
  <2>2. Len(Nodes[P(n)].args) = 2
    BY <1>1, <2>1, ProgramFacts
  <2>3. c \in 1 .. N
    BY <1>1, <2>1, <2>2, ProgramFacts
  <2> HIDE DEF c
  <2>4. t[c][x] \in Nat
    BY <1>3, <2>3
  <2> QED
    BY <2>4 DEF c
<1>8. PICK piped : Inherits(piped, N, Nat, par, base, F)
  <2> HIDE DEF N, par, base, F
  <2> QED
    BY <1>1, <1>5, <1>6, <1>7, InheritedFrom
<1>9. /\ piped \in [1 .. N -> Nat]
      /\ \A n \in 1 .. N : piped[n] = IF par[n] = 0 THEN base[n] ELSE F[n][piped[par[n]]]
  <2> HIDE DEF N, par, base, F
  <2> QED
    BY <1>8 DEF Inherits
<1>10. ASSUME NEW n \in 1 .. N, Parents(n) = {} PROVE piped[n] = Void
  BY <1>9, <1>10
<1>11. ASSUME NEW m \in 1 .. N, NEW k \in 1 .. Len(Nodes[m].args)
       PROVE  /\ Nodes[m].args[k] \in 1 .. N
              /\ piped[Nodes[m].args[k]] =
                   IF Nodes[m].kind = "pipe" /\ k = 2 THEN t[Nodes[m].args[1]][piped[m]] ELSE piped[m]
  <2> DEFINE n == Nodes[m].args[k]
  <2>1. n \in 1 .. N /\ Parents(n) = {m} /\ m \in Nat
    <3>1. m \in DOMAIN Nodes
      BY <1>1
    <3>2. n \in DOMAIN Nodes /\ Parents(n) = {m}
      BY <1>1, <3>1, ProgramFacts, TreeFacts
    <3> HIDE DEF n
    <3> QED
      BY <1>1, <3>2
  <2>2. Nodes[m].kind = "pipe" => (n = Nodes[m].args[2] <=> k = 2)
    <3>1. ASSUME Nodes[m].kind = "pipe" PROVE 2 \in 1 .. Len(Nodes[m].args)
      <4>1. Len(Nodes[m].args) = 2
        BY <1>1, <3>1, ProgramFacts
      <4> QED
        BY <4>1
    <3> QED
      BY <1>1, <3>1, TreeFacts
  <2> HIDE DEF n
  <2>3. P(n) = m /\ Parents(n) # {}
    BY <2>1
  <2>4. par[n] = m /\ m # 0
    BY <1>1, <2>1, <2>3
  <2>5. F[n][piped[m]] = IF Nodes[m].kind = "pipe" /\ k = 2 THEN t[Nodes[m].args[1]][piped[m]]
                         ELSE piped[m]
    <3>1. piped[m] \in Nat
      BY <1>9
    <3> HIDE DEF P
    <3> QED
      BY <2>1, <2>2, <2>3, <3>1
  <2>6. piped[n] = F[n][piped[m]]
    <3> HIDE DEF F, par, base
    <3> QED
      BY <1>9, <2>1, <2>4
  <2> QED
    BY <2>1, <2>5, <2>6 DEF n
<1> DEFINE ty == [n \in 1 .. N |-> t[n][piped[n]]]
<1>12. ty \in [1 .. N -> Nat] /\ \A n \in 1 .. N : ty[n] = t[n][piped[n]]
  BY <1>3, <1>9
<1> HIDE DEF N, par, base, F, ty, P
<1>13. ASSUME NEW n \in 1 .. N, Nodes[n].kind # "pipe"
       PROVE  ty[n] = TypeFrom(n, OperandTypes(ty, n), piped[n])
  <2>1. ty[n] = TypeFrom(n, GivenTypes(t, n, piped[n]), piped[n])
    <3>1. piped[n] \in Nat /\ t[n] = TypeMap(t, n) /\ ty[n] = t[n][piped[n]]
      BY <1>3, <1>9, <1>12
    <3> QED
      BY <1>13, <3>1, TypeMapAt
  <2>2. \A i \in 1 .. Len(Nodes[n].args) : ty[Nodes[n].args[i]] = t[Nodes[n].args[i]][piped[n]]
    BY <1>11, <1>12, <1>13
  <2>3. OperandTypes(ty, n) = GivenTypes(t, n, piped[n])
    BY <2>2 DEF OperandTypes, GivenTypes
  <2> QED
    BY <2>1, <2>3
<1>14. ASSUME NEW n \in 1 .. N, Nodes[n].kind = "pipe"
       PROVE  /\ ty[n] = ty[Nodes[n].args[2]]
              /\ piped[Nodes[n].args[1]] = piped[n]
              /\ piped[Nodes[n].args[2]] = ty[Nodes[n].args[1]]
  <2>1. 1 \in 1 .. Len(Nodes[n].args) /\ 2 \in 1 .. Len(Nodes[n].args)
    <3>1. Len(Nodes[n].args) = 2
      BY <1>1, <1>14, ProgramFacts
    <3> QED
      BY <3>1
  <2>2. ty[n] = t[Nodes[n].args[2]][t[Nodes[n].args[1]][piped[n]]]
    <3>1. piped[n] \in Nat /\ t[n] = TypeMap(t, n) /\ ty[n] = t[n][piped[n]]
      BY <1>3, <1>9, <1>12
    <3> QED
      BY <1>14, <3>1, TypeMapAt
  <2>3. /\ Nodes[n].args[1] \in 1 .. N /\ piped[Nodes[n].args[1]] = piped[n]
        /\ Nodes[n].args[2] \in 1 .. N
        /\ piped[Nodes[n].args[2]] = t[Nodes[n].args[1]][piped[n]]
    BY <1>11, <1>14, <2>1
  <2> QED
    BY <1>12, <2>2, <2>3
<1>15. Typing(ty, piped)
  BY <1>1, <1>9, <1>10, <1>11, <1>12, <1>13, <1>14 DEF Typing
<1> QED
  BY <1>15
-----------------------------------------------------------------------------
\* What is above a node is numbered before it.
LEMMA AboveLess ==
  ASSUME program \in Programs
  PROVE  \A n \in DOMAIN Nodes : \A x \in Above[n] : x \in DOMAIN Nodes /\ x \in Nat /\ x < n
<1> DEFINE P(n) == \A x \in Above[n] : x \in DOMAIN Nodes /\ x \in Nat /\ x < n
           S == {n \in DOMAIN Nodes : ~P(n)}
<1>1. CASE S = {}
  BY <1>1
<1>2. CASE S # {}
  <2>1. S \in SUBSET Nat
    BY ProgramFacts
  <2>2. PICK n \in S : \A y \in S : n <= y
    BY <1>2, <2>1, LeastNat
  <2>3. n \in DOMAIN Nodes /\ n \in Nat /\ ~P(n)
    BY <2>1, <2>2
  <2>4. Above[n] # {}
    BY <2>3
  <2>5. PICK m \in DOMAIN Nodes : \E k \in 1 .. Len(Nodes[m].args) : Nodes[m].args[k] = n
    <3>1. Parents(n) # {}
      BY <2>3, <2>4, AboveIs
    <3> QED
      BY <2>3, <3>1, TreeFacts
  <2>6. Parents(n) = {m} /\ m < n /\ m \in Nat
    BY <2>5, OperandFacts
  <2>7. Above[n] = {m} \cup Above[m]
    BY <2>3, <2>6, AboveIs
  <2>8. m \notin S
    <3>1. ~(n <= m)
      BY <2>3, <2>6
    <3> QED
      BY <2>2, <3>1
  <2>9. P(m)
    BY <2>5, <2>8
  <2>10. \A x \in Above[m] : x \in DOMAIN Nodes /\ x \in Nat /\ x < m
    BY <2>9
  <2>11. P(n)
    BY <2>3, <2>5, <2>6, <2>7, <2>10
  <2> QED
    BY <2>3, <2>11
<1> QED
  BY <1>1, <1>2

LEMMA PipedToOperand ==
  ASSUME program \in Programs, NEW m \in DOMAIN Nodes, NEW k \in 1 .. Len(Nodes[m].args),
         NEW c, c = Nodes[m].args[k]
  PROVE  /\ PipedTo(m) \subseteq PipedTo(c)
         /\ PipedTo(c) \subseteq PipedTo(m) \cup
              (IF Nodes[m].kind = "pipe" /\ k = 2 THEN {Nodes[m].args[1]} ELSE {})
         /\ Nodes[m].kind = "pipe" /\ k = 2 => Nodes[m].args[1] \in PipedTo(c)
<1>1. /\ m \in Nat /\ c \in DOMAIN Nodes /\ c \in Nat /\ m < c
      /\ Above[c] = {m} \cup Above[m]
  <2>1. m \in Nat /\ c \in DOMAIN Nodes /\ c \in Nat
    BY ProgramFacts
  <2>2. m < c /\ Parents(c) = {m}
    BY TreeFacts
  <2> QED
    BY <2>1, <2>2, AboveIs
<1>2. \A x \in Above[m] : x \in DOMAIN Nodes /\ x \in Nat /\ x < m
  BY AboveLess
<1>3. ASSUME NEW q \in DOMAIN Nodes, Nodes[q].kind = "pipe"
      PROVE  /\ 2 \in 1 .. Len(Nodes[q].args) /\ Nodes[q].args[2] \in Nat /\ q < Nodes[q].args[2]
             /\ q \in Nat
             /\ Nodes[q].args[2] = c => q = m /\ k = 2
  <2>1. Len(Nodes[q].args) = 2
    BY <1>3, ProgramFacts
  <2>2. 2 \in 1 .. Len(Nodes[q].args)
    BY <2>1
  <2> DEFINE d == Nodes[q].args[2]
  <2>3. q \in Nat /\ d \in Nat /\ q < d
    <3>1. d = Nodes[q].args[2]
      OBVIOUS
    <3> HIDE DEF d
    <3> QED
      BY <2>2, <3>1, OperandFacts
  <2>4. d = c => q = m /\ 2 = k
    BY <2>2, OperandFacts
  <2> QED
    BY <2>2, <2>3, <2>4
<1>4. ASSUME NEW q \in Above[m], Nodes[q].kind = "pipe"
      PROVE  Within(c, Nodes[q].args[2]) <=> Within(m, Nodes[q].args[2])
  <2>1. q \in DOMAIN Nodes /\ q \in Nat /\ q < m
    BY <1>2
  <2>2. Nodes[q].args[2] # c
    BY <1>1, <1>3, <1>4, <2>1
  <2> QED
    BY <1>1, <2>2 DEF Within
<1>5. ASSUME Nodes[m].kind = "pipe" PROVE Within(c, Nodes[m].args[2]) <=> k = 2
  <2>1. /\ Nodes[m].args[2] \in Nat /\ m < Nodes[m].args[2]
        /\ (Nodes[m].args[2] = c => k = 2)
    BY <1>3, <1>5
  <2>2. Nodes[m].args[2] \notin Above[c]
    <3>1. Nodes[m].args[2] # m
      BY <1>1, <2>1
    <3>2. Nodes[m].args[2] \notin Above[m]
      BY <1>1, <1>2, <2>1
    <3> QED
      BY <1>1, <3>1, <3>2
  <2> QED
    BY <2>1, <2>2 DEF Within
<1>6. ASSUME NEW p \in PipedTo(m) PROVE p \in PipedTo(c)
  <2>1. PICK q \in Above[m] : /\ Nodes[q].kind = "pipe" /\ Within(m, Nodes[q].args[2])
                              /\ p = Nodes[q].args[1]
    BY DEF PipedTo
  <2>2. q \in Above[c] /\ Within(c, Nodes[q].args[2])
    BY <1>1, <1>4, <2>1
  <2> QED
    BY <2>1, <2>2 DEF PipedTo
<1>7. ASSUME NEW p \in PipedTo(c)
      PROVE  \/ p \in PipedTo(m)
             \/ Nodes[m].kind = "pipe" /\ k = 2 /\ p = Nodes[m].args[1]
  <2>1. PICK q \in Above[c] : /\ Nodes[q].kind = "pipe" /\ Within(c, Nodes[q].args[2])
                              /\ p = Nodes[q].args[1]
    BY DEF PipedTo
  <2>2. CASE q = m
    BY <1>5, <2>1, <2>2
  <2>3. CASE q # m
    <3>1. q \in Above[m]
      BY <1>1, <2>3
    <3>2. Within(m, Nodes[q].args[2])
      BY <1>4, <2>1, <3>1
    <3>3. p \in PipedTo(m)
      BY <2>1, <3>1, <3>2 DEF PipedTo
    <3> QED
      BY <3>3
  <2> QED
    BY <2>2, <2>3
<1>8. ASSUME Nodes[m].kind = "pipe", k = 2 PROVE Nodes[m].args[1] \in PipedTo(c)
  <2>1. m \in Above[c] /\ Within(c, Nodes[m].args[2])
    BY <1>1, <1>5, <1>8
  <2> QED
    BY <1>8, <2>1 DEF PipedTo
<1> QED
  BY <1>6, <1>7, <1>8

\* What is piped to a node is generated without references, and so is the node.
Fed(n) == \A x \in References : \A p \in PipedTo(n) : ~Within(x, p)
Settled(n) == Fed(n) /\ \A x \in References : ~Within(x, n)

LEMMA ReferencesAre ==
  ASSUME RestInv
  PROVE  References \subseteq DOMAIN Nodes
BY DEF References, RestInv, Nodes

LEMMA SettledOperand ==
  ASSUME RestInv, NEW m \in DOMAIN Nodes, NEW k \in 1 .. Len(Nodes[m].args),
         NEW c, c = Nodes[m].args[k]
  PROVE  /\ Settled(m) => Settled(c)
         /\ Fed(c) => Fed(m)
         /\ Fed(c) /\ Nodes[m].kind = "pipe" /\ k = 2 => Settled(Nodes[m].args[1])
<1>1. program \in Programs
  BY DEF RestInv
<1>2. ASSUME NEW j \in 1 .. Len(Nodes[m].args), NEW x \in References, Within(x, Nodes[m].args[j])
      PROVE  Within(x, m)
  <2>1. x \in DOMAIN Nodes
    BY ReferencesAre
  <2>2. Nodes[m].args[j] \in {x} \cup Above[x]
    BY <1>2 DEF Within
  <2>3. m \in Above[x]
    BY <1>1, <2>1, <2>2, AboveOperand
  <2> QED
    BY <2>3 DEF Within
<1>3. Nodes[m].kind = "pipe" => 1 \in 1 .. Len(Nodes[m].args)
  <2>1. Nodes[m].kind = "pipe" => Len(Nodes[m].args) = 2
    BY <1>1, ProgramFacts
  <2> QED
    BY <2>1
<1>4. /\ PipedTo(m) \subseteq PipedTo(c)
      /\ PipedTo(c) \subseteq PipedTo(m) \cup
           (IF Nodes[m].kind = "pipe" /\ k = 2 THEN {Nodes[m].args[1]} ELSE {})
      /\ Nodes[m].kind = "pipe" /\ k = 2 => Nodes[m].args[1] \in PipedTo(c)
  BY <1>1, PipedToOperand
<1>5. ASSUME Settled(m) PROVE Settled(c)
  <2>1. \A x \in References : ~Within(x, c)
    BY <1>2, <1>5 DEF Settled
  <2>2. ASSUME NEW x \in References, NEW p \in PipedTo(c) PROVE ~Within(x, p)
    <3>1. CASE p \in PipedTo(m)
      BY <1>5, <3>1 DEF Settled, Fed
    <3>2. CASE p \notin PipedTo(m)
      <4>1. Nodes[m].kind = "pipe" /\ p = Nodes[m].args[1]
        BY <1>4, <3>2
      <4> QED
        BY <1>2, <1>3, <1>5, <4>1 DEF Settled
    <3> QED
      BY <3>1, <3>2
  <2> QED
    BY <2>1, <2>2 DEF Settled, Fed
<1>6. ASSUME Fed(c) PROVE Fed(m)
  BY <1>4, <1>6 DEF Fed
<1>7. ASSUME Fed(c), Nodes[m].kind = "pipe", k = 2 PROVE Settled(Nodes[m].args[1])
  <2>1. PipedTo(Nodes[m].args[1]) \subseteq PipedTo(m)
    <3> DEFINE d == Nodes[m].args[1]
    <3>1. PipedTo(d) \subseteq PipedTo(m) \cup (IF Nodes[m].kind = "pipe" /\ 1 = 2 THEN {d} ELSE {})
      BY <1>1, <1>3, <1>7, PipedToOperand
    <3> QED
      BY <3>1
  <2>2. Fed(Nodes[m].args[1])
    BY <1>4, <1>7, <2>1 DEF Fed
  <2> QED
    BY <1>4, <1>7, <2>2 DEF Settled, Fed
<1> QED
  BY <1>5, <1>6, <1>7

LEMMA SettledStays ==
  ASSUME program' = program, isRef \subseteq isRef'
  PROVE  \A n : Settled(n)' => Settled(n)
<1>1. Nodes' = Nodes /\ Above' = Above
  BY DEF Nodes, Above, Parents
<1>2. References \subseteq References'
  BY <1>1 DEF References
<1>3. \A n : PipedTo(n)' = PipedTo(n)
  BY <1>1 DEF PipedTo, Within
<1> QED
  BY <1>1, <1>2, <1>3 DEF Settled, Fed, Within

\* What is piped to a generator on the stack: the value of the innermost pipe that is open
\* below it.
Innermost(j, k) == j \in 1 .. k - 1 /\ InRightSide(stack[j])
                     /\ \A i \in j + 1 .. k - 1 : ~InRightSide(stack[i])

LEMMA PipedIs ==
  ASSUME StackInv, RestInv, OnPath, NEW ty, NEW piped, Typing(ty, piped)
  PROVE  \A k \in 1 .. Len(stack) :
           /\ (\A j \in 1 .. k - 1 : ~InRightSide(stack[j])) => piped[stack[k].node] = Void
           /\ \A j \in 1 .. k - 1 : Innermost(j, k) =>
                /\ piped[stack[k].node] = ty[Nodes[stack[j].node].args[1]]
                /\ Fed(stack[k].node) => Settled(Nodes[stack[j].node].args[1])
<1> DEFINE P(k) == /\ (\A j \in 1 .. k - 1 : ~InRightSide(stack[j])) => piped[stack[k].node] = Void
                   /\ \A j \in 1 .. k - 1 : Innermost(j, k) =>
                        /\ piped[stack[k].node] = ty[Nodes[stack[j].node].args[1]]
                        /\ Fed(stack[k].node) => Settled(Nodes[stack[j].node].args[1])
           S == {k \in 1 .. Len(stack) : ~P(k)}
<1>1. CASE S = {}
  BY <1>1, SMTT(30)
<1>2. CASE S # {}
  <2>1. Len(stack) \in Nat /\ S \in SUBSET Nat /\ program \in Programs
    BY DEF StackInv, RestInv
  <2>2. PICK k \in S : \A x \in S : k <= x
    BY <1>2, <2>1, LeastNat
  <2>3. k \in 1 .. Len(stack) /\ k \in Nat /\ ~P(k)
    BY <2>1, <2>2
  <2>4. CASE k = 1
    <3>1. stack # <<>> /\ stmt <= Len(program.body)
      BY <2>3 DEF OnPath
    <3>2. stmt \in 1 .. Len(program.body) /\ stack[1].node = program.body[stmt]
      BY <3>1, SizeFacts DEF OnPath, RestInv
    <3>3. Parents(stack[1].node) = {}
      BY <2>1, <3>2, TreeFacts
    <3>4. stack[1].node \in DOMAIN Nodes
      BY <2>3, <2>4, FrameFacts
    <3>5. piped[stack[1].node] = Void
      BY <3>3, <3>4 DEF Typing
    <3>6. 1 .. k - 1 = {}
      BY <2>4
    <3> QED
      BY <2>3, <2>4, <3>5, <3>6
  <2>5. CASE k # 1
    <3> DEFINE m == k - 1
    <3>1. k \in 2 .. Len(stack) /\ m = k - 1
      BY <2>3, <2>5
    <3> HIDE DEF m
    <3>2. /\ m \in 1 .. Len(stack) /\ m \in Nat /\ m < k
          /\ stack[m].node \in DOMAIN Nodes /\ stack[k].node \in DOMAIN Nodes
          /\ stack[m].i \in Nat
          /\ stack[m].i + 1 \in 1 .. Len(Nodes[stack[m].node].args)
          /\ stack[k].node = Nodes[stack[m].node].args[stack[m].i + 1]
      BY <3>1, CalledBy
    <3>3. ~(k <= m)
      <4>1. k \in Nat /\ m \in Nat /\ m < k
        BY <2>3, <3>2, ZenonT(30)
      <4> QED
        BY <4>1, SMTT(30)
    <3>4. P(m)
      <4>1. m \notin S
        BY <2>2, <3>3
      <4> QED
        BY <3>2, <4>1
    <3> HIDE DEF S
    <3>5. PICK l, q, c : l = stack[m].node /\ q = stack[m].i + 1 /\ c = stack[k].node
      OBVIOUS
    <3>6. l \in DOMAIN Nodes /\ q \in 1 .. Len(Nodes[l].args) /\ c = Nodes[l].args[q]
      BY <3>2, <3>5
    <3>7. /\ Fed(c) => Fed(l)
          /\ Fed(c) /\ Nodes[l].kind = "pipe" /\ q = 2 => Settled(Nodes[l].args[1])
      BY <3>6, SettledOperand
    <3>8. InRightSide(stack[m]) <=> Nodes[l].kind = "pipe" /\ q = 2
      BY <3>2, <3>5 DEF InRightSide
    <3>9. Nodes[l].kind = "pipe" => Len(Nodes[l].args) = 2
      BY <2>1, <3>6, ProgramFacts
    <3>10. piped[c] = IF Nodes[l].kind = "pipe" /\ q = 2 THEN ty[Nodes[l].args[1]] ELSE piped[l]
      <4>1. CASE Nodes[l].kind = "pipe"
        <5>1. q = 1 \/ q = 2
          BY <3>6, <3>9, <4>1
        <5> QED
          BY <3>6, <4>1, <5>1 DEF Typing
      <4>2. CASE Nodes[l].kind # "pipe"
        BY <3>6, <4>2 DEF Typing
      <4> QED
        BY <4>1, <4>2
    <3>11. \A j \in 1 .. k - 1 : j = m \/ j \in 1 .. m - 1
      BY <3>1, <3>2
    <3>12. m \in 1 .. k - 1 /\ \A j \in 1 .. m - 1 : j \in 1 .. k - 1
      BY <3>1, <3>2
    <3>13. ASSUME \A j \in 1 .. k - 1 : ~InRightSide(stack[j]) PROVE piped[c] = Void
      <4>1. ~InRightSide(stack[m]) /\ \A j \in 1 .. m - 1 : ~InRightSide(stack[j])
        BY <3>12, <3>13
      <4> QED
        BY <3>4, <3>5, <3>8, <3>10, <4>1
    <3>14. ASSUME NEW j \in 1 .. k - 1, Innermost(j, k)
           PROVE  piped[c] = ty[Nodes[stack[j].node].args[1]]
                  /\ (Fed(c) => Settled(Nodes[stack[j].node].args[1]))
      <4>1. CASE j = m
        BY <3>5, <3>7, <3>8, <3>10, <3>14, <4>1 DEF Innermost
      <4>2. CASE j # m
        <5>1. j \in 1 .. m - 1 /\ m \in j + 1 .. k - 1 /\ \A i \in j + 1 .. m - 1 : i \in j + 1 .. k - 1
          BY <3>1, <3>2, <3>11, <4>2
        <5>2. Innermost(j, m) /\ ~InRightSide(stack[m])
          BY <3>14, <5>1 DEF Innermost
        <5> QED
          BY <3>4, <3>5, <3>7, <3>8, <3>10, <5>1, <5>2
      <4> QED
        BY <4>1, <4>2
    <3>15. P(k)
      BY <3>5, <3>13, <3>14
    <3> QED
      BY <2>3, <3>15
  <2> QED
    BY <2>4, <2>5
<1> QED
  BY <1>1, <1>2
-----------------------------------------------------------------------------
\* A token is a method's name, qualified once more every time the method is generated.
Named ==
  \A n \in DOMAIN Nodes :
    IF Nodes[n].kind = "method" THEN \/ tokens[n] \in {Nodes[n].name, FullName(n)}
                                     \/ Len(tokens[n]) > 2
    ELSE tokens[n] = Nodes[n].name

NoArgumentOnError ==
  wasError /\ stack # <<>> /\ returned = Waiting /\ Node.kind \in Calls => Top.i = 0

\* A value without a type is a nullptr, and a call is given none.
NullHasNoType ==
  /\ \A k \in 1 .. Len(stack) : \A i \in 1 .. Len(stack[k].values) :
       stack[k].values[i].type = Void =>
         stack[k].values[i] = Null /\ Nodes[stack[k].node].kind \notin Calls
  /\ returned.type = Void => returned = Null

ValueInv == Named /\ NoArgumentOnError /\ NullHasNoType

\* The second time a call is generated it is bound to what the types of its arguments make
\* it, and these have one.
CallsBound(ty) ==
  \A k \in 1 .. Len(stack) :
    LET n == stack[k].node IN
    Nodes[n].kind \in Calls /\ stack[k].round = 2 /\ Settled(n) =>
      /\ stack[k].callee = Binding(n, OperandTypes(ty, n))
      /\ \A i \in 1 .. Len(Nodes[n].args) : ty[Nodes[n].args[i]] # Void

CodeBound(ty) ==
  \A k \in 1 .. Len(code) :
    LET n == code[k].node IN
    /\ Nodes[n].kind \in Calls \cup {"operator"}
    /\ Nodes[n].kind = "operator" =>
         code[k].callee = GetNamedFunctionFromID(functionIDs, Nodes[n].name)
    /\ Nodes[n].kind \in Calls /\ Settled(n) => code[k].callee = Binding(n, OperandTypes(ty, n))

ValuesTyped(ty) ==
  ~wasError =>
    \A k \in 1 .. Len(stack) : \A i \in 1 .. Len(stack[k].values) :
      LET a == Nodes[stack[k].node].args[i] IN
      Settled(a) => stack[k].values[i].type = ty[a]

ReturnedTyped(ty) ==
  ~wasError /\ stack # <<>> /\ returned # Waiting /\ Settled(NextArg) =>
    returned.type = ty[NextArg]

TypedInv(ty) == CallsBound(ty) /\ CodeBound(ty) /\ ValuesTyped(ty) /\ ReturnedTyped(ty)

LEMMA FirstOfIn ==
  ASSUME NEW S, FirstOf(S) # 0
  PROVE  FirstOf(S) \in S
BY DEF FirstOf

\* What a lookup finds has the name and is of the kind that was asked for.
LEMMA LookupFinds ==
  ASSUME NEW fs, NEW name, NEW types, NEW inferred, NEW isMember, NEW f,
         f = GetFunctionFromID(fs, name, types, inferred, isMember), f # 0
  PROVE  fs[f].name = name /\ fs[f].isMemberFunction = isMember
<1> DEFINE score == [i \in 1 .. Len(fs) |-> CompareMatch(fs[i], name, types, inferred)]
           S == Lowest(score, Candidates(fs, score, isMember))
<1>1. f = IF FirstOf(S) # 0 /\ score[FirstOf(S)] # NeedsExact THEN FirstOf(S) ELSE 0
  BY DEF GetFunctionFromID
<1>2. f \in S
  <2> HIDE DEF S, score
  <2> QED
    BY <1>1, FirstOfIn
<1>3. f \in 1 .. Len(fs) /\ fs[f].isMemberFunction = isMember /\ score[f] < NoMatch
  <2> HIDE DEF score
  <2> QED
    BY <1>2 DEF Lowest, Candidates
<1>4. score[f] = CompareMatch(fs[f], name, types, inferred)
  BY <1>3
<1>5. fs[f].name = name
  <2> SUFFICES ASSUME fs[f].name # name PROVE FALSE
    OBVIOUS
  <2>1. CompareMatch(fs[f], name, types, inferred) = NoMatch
    BY DEF CompareMatch
  <2> QED
    BY <1>3, <1>4, <2>1 DEF NoMatch
<1> QED
  BY <1>3, <1>5

LEMMA FullNames ==
  ASSUME RestInv
  PROVE  /\ \A f \in 1 .. Len(functionIDs) :
              /\ functionIDs[f] \in FunctionID
              /\ functionIDs[f].isMemberFunction => Len(functionIDs[f].name) = 2
         /\ \A n \in DOMAIN Nodes : Nodes[n].kind \in Calls =>
              /\ Nodes[n].name \in Seq(STRING) /\ Len(Nodes[n].name) = 1
              /\ FullName(n) \in Seq(STRING)
              /\ Len(FullName(n)) = IF Nodes[n].kind = "method" THEN 2 ELSE 1
<1>1. ASSUME NEW f \in 1 .. Len(functionIDs)
      PROVE  /\ functionIDs[f] \in FunctionID
             /\ functionIDs[f].isMemberFunction => Len(functionIDs[f].name) = 2
  <2>1. functionIDs[f] \in ToSet(functionIDs)
    BY DEF ToSet, RestInv
  <2> QED
    BY <2>1, NamesAssumption DEF RestInv
<1>2. ASSUME NEW n \in DOMAIN Nodes, Nodes[n].kind \in Calls
      PROVE  /\ Nodes[n].name \in Seq(STRING) /\ Len(Nodes[n].name) = 1
             /\ FullName(n) \in Seq(STRING)
             /\ Len(FullName(n)) = IF Nodes[n].kind = "method" THEN 2 ELSE 1
  <2>1. Nodes[n].name \in Seq(STRING) /\ Nodes[n].on \in STRING
    BY ProgramFacts DEF RestInv, ASTNode
  <2>2. Len(Nodes[n].name) = 1
    BY <1>2, NamesAssumption DEF RestInv, Nodes
  <2>3. /\ <<Nodes[n].on>> \o Nodes[n].name \in Seq(STRING)
        /\ Len(<<Nodes[n].on>> \o Nodes[n].name) = 2
    <3> DEFINE s == <<Nodes[n].on>>
               t == Nodes[n].name
    <3>1. s \in Seq(STRING) /\ Len(s) = 1
      BY <2>1
    <3>2. t \in Seq(STRING) /\ Len(t) = 1
      BY <2>1, <2>2
    <3> HIDE DEF s, t
    <3>3. s \o t \in Seq(STRING) /\ Len(s \o t) = Len(s) + Len(t)
      BY <3>1, <3>2, ConcatProperties
    <3>4. Len(s \o t) = 2
      BY <3>1, <3>2, <3>3
    <3> QED
      BY <3>3, <3>4 DEF s, t
  <2> QED
    BY <2>1, <2>2, <2>3 DEF FullName
<1> QED
  BY <1>1, <1>2

\* The function a call is bound to is one of its name.
LEMMA CalleeIs ==
  ASSUME StackInv, RestInv, Named, LookedUp, Callee # 0
  PROVE  /\ functionIDs[Callee].name = FullName(Top.node)
         /\ functionIDs[Callee].isMemberFunction = (Node.kind = "method")
         /\ Callee = GetFunctionFromID(functionIDs, FullName(Top.node), Types, TRUE,
                                       Node.kind = "method")
<1>1. stack # <<>> /\ Node.kind \in Calls
  BY DEF LookedUp, At, Generating
<1> DEFINE n == Top.node
           b == Node.kind = "method" \/ Top.shouldBeMemberFunction
           f == Callee
<1>2. n \in DOMAIN Nodes /\ Node = Nodes[n] /\ Top \in CallFrame
  BY <1>1, TopFacts DEF Node
<1>3. f = GetFunctionFromID(functionIDs, tokens[n], Types, TRUE, b)
  BY DEF Callee
<1>4. f \in 1 .. Len(functionIDs)
  <2>1. f \in 0 .. Len(functionIDs) /\ Len(functionIDs) \in Nat
    BY Lookups, SizeFacts
  <2> QED
    BY <2>1
<1> HIDE DEF f, b, n
<1>5. functionIDs[f].name = tokens[n] /\ functionIDs[f].isMemberFunction = b
  <2>1. f # 0
    BY DEF f
  <2> QED
    <3>1. PICK fs, name, types, inferred, isMember :
             /\ fs = functionIDs /\ name = tokens[n] /\ types = Types /\ inferred = TRUE
             /\ isMember = b
      OBVIOUS
    <3>2. f = GetFunctionFromID(fs, name, types, inferred, isMember)
      BY <1>3, <3>1
    <3>3. fs[f].name = name /\ fs[f].isMemberFunction = isMember
      BY <2>1, <3>2, LookupFinds
    <3> QED
      BY <3>1, <3>3
<1>6. /\ functionIDs[f].isMemberFunction => Len(functionIDs[f].name) = 2
      /\ Len(Nodes[n].name) = 1
      /\ Len(FullName(n)) = IF Nodes[n].kind = "method" THEN 2 ELSE 1
  BY <1>1, <1>2, <1>4, FullNames
<1>7. b \in BOOLEAN
  BY <1>2 DEF b, CallFrame
<1>8. tokens[n] = FullName(n) /\ b = (Node.kind = "method")
  <2>1. CASE Node.kind = "method"
    <3>1. b
      BY <2>1 DEF b
    <3>2. Len(tokens[n]) = 2
      BY <1>5, <1>6, <3>1
    <3>3. tokens[n] \in {Nodes[n].name, FullName(n)} \/ Len(tokens[n]) > 2
      BY <1>2, <2>1 DEF Named
    <3>4. ~(2 > 2) /\ 1 # 2
      OBVIOUS
    <3>5. tokens[n] = FullName(n)
      BY <1>6, <3>2, <3>3, <3>4
    <3> QED
      BY <2>1, <3>1, <3>5, <1>7
  <2>2. CASE Node.kind # "method"
    <3>1. tokens[n] = Nodes[n].name /\ FullName(n) = Nodes[n].name
      BY <1>2, <2>2 DEF Named, FullName
    <3>2. ~b
      <4>1. Len(functionIDs[f].name) = 1 /\ 1 # 2
        BY <1>5, <1>6, <3>1
      <4>2. ~functionIDs[f].isMemberFunction
        BY <1>6, <4>1
      <4> QED
        BY <1>5, <4>2
    <3> QED
      BY <1>7, <2>2, <3>1, <3>2
  <2> QED
    BY <2>1, <2>2
<1> QED
  BY <1>3, <1>5, <1>8 DEF f, n
-----------------------------------------------------------------------------
\* The types a call is looked up by, if nothing below it or piped to it is a reference.
LEMMA TypesAre ==
  ASSUME StackInv, RestInv, ValueInv, NEW ty, ValuesTyped(ty), LookedUp, Settled(Top.node)
  PROVE  /\ Types = (IF Node.kind = "method" THEN <<Struct_Type>> ELSE <<>>) \o OperandTypes(ty, Top.node)
         /\ \A i \in 1 .. Len(Node.args) : ty[Node.args[i]] # Void
<1>1. stack # <<>> /\ Node.kind \in Calls /\ returned = Waiting /\ Top.i = Len(Node.args)
  BY DEF LookedUp, At, Generating, Complete
<1>2. /\ Top.node \in DOMAIN Nodes /\ Node = Nodes[Top.node] /\ FrameOK(Top)
      /\ Len(stack) \in 1 .. Len(stack) /\ Top.values \in Seq(LLVMValue) /\ Len(Top.values) \in Nat
  <2>1. /\ Len(stack) \in Nat \ {0} /\ Top.node \in DOMAIN Nodes /\ FrameOK(Top)
        /\ Top.values \in Seq(LLVMValue) /\ Len(Top.values) \in Nat
    BY <1>1, TopFacts
  <2> QED
    BY <2>1 DEF Node
<1>3. Len(Top.values) = Len(Node.args)
  BY <1>1, <1>2 DEF FrameOK, Calls
<1>4. ASSUME NEW i \in 1 .. Len(Node.args)
      PROVE  Top.values[i].type = ty[Node.args[i]] /\ Top.values[i].type # Void
  <2>1. ~wasError
    <3>1. Len(Node.args) # 0
      BY <1>4
    <3> QED
      BY <1>1, <3>1 DEF ValueInv, NoArgumentOnError
  <2>2. Settled(Node.args[i])
    BY <1>2, <1>4, SettledOperand
  <2>3. i \in 1 .. Len(stack[Len(stack)].values)
    BY <1>3, <1>4 DEF Top
  <2>4. Top.values[i].type = ty[Node.args[i]]
    BY <1>2, <2>1, <2>2, <2>3 DEF ValuesTyped, Node, Top
  <2>5. Top.values[i].type # Void
    BY <1>1, <1>2, <2>3 DEF ValueInv, NullHasNoType, Node, Top
  <2> QED
    BY <2>4, <2>5
<1>5. [i \in 1 .. Len(Top.values) |-> Top.values[i].type] = OperandTypes(ty, Top.node)
  BY <1>3, <1>4 DEF OperandTypes, Node
<1>6. Types = (IF Node.kind = "method" THEN <<Struct_Type>> ELSE <<>>) \o OperandTypes(ty, Top.node)
  BY <1>5 DEF Types
<1> QED
  BY <1>4, <1>6

LEMMA CalleeBound ==
  ASSUME StackInv, RestInv, ValueInv, NEW ty, ValuesTyped(ty), LookedUp, Settled(Top.node),
         Callee # 0
  PROVE  Callee = Binding(Top.node, OperandTypes(ty, Top.node))
<1>1. Callee = GetFunctionFromID(functionIDs, FullName(Top.node), Types, TRUE, Node.kind = "method")
  BY CalleeIs DEF ValueInv
<1>2. Types = (IF Node.kind = "method" THEN <<Struct_Type>> ELSE <<>>) \o OperandTypes(ty, Top.node)
  BY TypesAre
<1> QED
  BY <1>1, <1>2 DEF Binding, Node

LEMMA NonePiped ==
  ASSUME StackInv, PipesAreNested, pipeOperationValue = <<>>
  PROVE  \A k \in 1 .. Len(stack) : ~InRightSide(stack[k])
<1>1. IsFiniteSet(OpenPipes)
  BY OpenFacts
<1>2. Cardinality(OpenPipes) = 0
  BY DEF PipesAreNested
<1>3. OpenPipes = {}
  BY <1>1, <1>2, FS_EmptySet
<1> QED
  BY <1>3 DEF OpenPipes

\* What a generator returns has the type of its node.
Gives(ty, v) ==
  /\ stack # <<>> /\ v \in LLVMValue /\ Popped(v)
  /\ UNCHANGED <<isRef, tokens>>
  /\ wasError => wasError'
  /\ v.type = Void => v = Null
  /\ ~wasError' /\ Settled(Top.node) => v.type = ty[Top.node]

GivesCode ==
  \/ code' = code
  \/ \E f, args : /\ code' = Append(code, [node |-> Top.node, callee |-> f, args |-> args])
                  /\ Node.kind \in Calls \cup {"operator"}
                  /\ Node.kind = "operator" => f = Overload
                  /\ Node.kind \in Calls => f = Top.callee /\ Top.round = 2

LEMMA LeafGives ==
  ASSUME StackInv, RestInv, PipesAreNested, OnPath, ValueInv, NEW ty, NEW piped, Typing(ty, piped), TypedInv(ty), Leaf
  PROVE  \E v : Gives(ty, v)
<1>1. /\ stack # <<>> /\ returned = Waiting /\ Node.kind \in Leaves /\ UNCHANGED <<tokens, isRef, wasError>>
  BY DEF Leaf, At, Generating
<1>2. /\ Top.node \in DOMAIN Nodes /\ Node = Nodes[Top.node] /\ Node \in ASTNode /\ Top.node \in Nat
      /\ Len(stack) \in 1 .. Len(stack) /\ Len(stack) \in Nat
  <2>1. Len(stack) \in Nat \ {0} /\ Top.node \in DOMAIN Nodes /\ Node \in ASTNode /\ Top.node \in Nat
    BY <1>1, TopFacts
  <2> QED
    BY <2>1 DEF Node
<1>3. Node.type \in Nat /\ Node.type # Void /\ Identifier_Node \in Nat /\ Identifier_Node # Void
  <2>1. Node.type \in InferredTypes
    BY <1>2 DEF ASTNode
  <2>2. Void \notin InferredTypes
    BY DEF InferredTypes, Void, Identifier_Node, SInt128_Type, SInt64_Type, SInt32_Type, SInt16_Type,
       SInt8_Type, Boolean_Node, Double_Type, Float_Node, Half_Type
  <2> QED
    BY <2>1, <2>2, TypesAreNumbers DEF Identifier_Node, Void
<1>4. ty[Top.node] = TypeFrom(Top.node, OperandTypes(ty, Top.node), piped[Top.node])
  BY <1>1, <1>2 DEF Typing, Leaves
<1>5. /\ Node.kind \in {"constant", "variable"} => ty[Top.node] = Node.type
      /\ Node.kind = "placeholder" => ty[Top.node] = piped[Top.node]
  BY <1>2, <1>4 DEF TypeFrom, Calls
<1>6. ASSUME NEW x \in Nat, x # Void, Return(Value(Top.node, 0, x)),
             Settled(Top.node) => x = ty[Top.node]
      PROVE  \E v : Gives(ty, v)
  <2>1. Value(Top.node, 0, x) \in LLVMValue /\ Value(Top.node, 0, x).type = x
    BY <1>2, <1>6, ValueType DEF Value
  <2>2. Gives(ty, Value(Top.node, 0, x))
    BY <1>1, <1>6, <2>1 DEF Gives, Return, Popped
  <2> QED
    BY <2>2
<1>7. CASE Node.kind = "constant"
  BY <1>3, <1>5, <1>6, <1>7 DEF Leaf
<1>8. CASE Node.kind = "variable"
  <2>1. Return(Value(Top.node, 0, VariableType))
    BY <1>8 DEF Leaf
  <2>2. Settled(Top.node) => Top.node \notin isRef
    <3>1. Top.node \in isRef => Top.node \in References
      BY <1>2, <1>8 DEF References
    <3> QED
      BY <3>1 DEF Settled, Within
  <2>3. VariableType \in Nat /\ VariableType # Void
    BY <1>3 DEF VariableType
  <2>4. Settled(Top.node) => VariableType = ty[Top.node]
    BY <1>5, <1>8, <2>2 DEF VariableType
  <2> QED
    BY <1>6, <2>1, <2>3, <2>4
<1>9. CASE Node.kind = "placeholder"
  <2>1. Return(IF pipeOperationValue = <<>> THEN Null ELSE Last(pipeOperationValue))
    BY <1>9 DEF Leaf
  <2>2. /\ (\A j \in 1 .. Len(stack) - 1 : ~InRightSide(stack[j])) => piped[Top.node] = Void
        /\ \A j \in 1 .. Len(stack) - 1 : Innermost(j, Len(stack)) =>
             /\ piped[Top.node] = ty[Nodes[stack[j].node].args[1]]
             /\ Fed(Top.node) => Settled(Nodes[stack[j].node].args[1])
    BY <1>2, PipedIs DEF Top
  <2>3. ASSUME NEW w, w \in LLVMValue, Return(w), w.type = Void => w = Null,
               ~wasError /\ Settled(Top.node) => w.type = ty[Top.node]
        PROVE  \E v : Gives(ty, v)
    <3>1. Gives(ty, w)
      BY <1>1, <2>3 DEF Gives, Return, Popped
    <3> QED
      BY <3>1
  <2>4. CASE pipeOperationValue = <<>>
    <3>1. \A k \in 1 .. Len(stack) : ~InRightSide(stack[k])
      BY <2>4, NonePiped
    <3>2. piped[Top.node] = Void
      <4>1. \A k \in 1 .. Len(stack) - 1 : k \in 1 .. Len(stack)
        BY <1>2
      <4> QED
        BY <2>2, <3>1, <4>1
    <3>3. Null \in LLVMValue /\ Null.type = Void
      BY NullType DEF Null, Value
    <3> QED
      BY <1>5, <1>9, <2>1, <2>3, <2>4, <3>2, <3>3
  <2>5. CASE pipeOperationValue # <<>>
    <3>1. PICK k \in 1 .. Len(stack) : /\ InRightSide(stack[k])
                                       /\ \A j \in k + 1 .. Len(stack) : ~InRightSide(stack[j])
                                       /\ 1 \in 1 .. Len(stack[k].values)
                                       /\ Last(pipeOperationValue) = stack[k].values[1]
      BY <2>5, LastPiped
    <3>2. k # Len(stack)
      BY <1>9, <3>1 DEF InRightSide, Node, Top
    <3>3. k \in 1 .. Len(stack) - 1 /\ \A i \in k + 1 .. Len(stack) - 1 : i \in k + 1 .. Len(stack)
      BY <1>2, <3>2
    <3>4. Innermost(k, Len(stack))
      BY <3>1, <3>3 DEF Innermost
    <3>5. /\ piped[Top.node] = ty[Nodes[stack[k].node].args[1]]
          /\ Settled(Top.node) => Settled(Nodes[stack[k].node].args[1])
      BY <2>2, <3>3, <3>4 DEF Settled
    <3>6. ~wasError /\ Settled(Top.node) => stack[k].values[1].type = ty[Top.node]
      BY <1>5, <1>9, <3>1, <3>5 DEF TypedInv, ValuesTyped
    <3>7. stack[k].values[1] \in LLVMValue
      BY <3>1, FrameFacts DEF CallFrame
    <3>8. stack[k].values[1].type = Void => stack[k].values[1] = Null
      BY <3>1 DEF ValueInv, NullHasNoType
    <3> QED
      BY <2>1, <2>3, <2>5, <3>1, <3>6, <3>7, <3>8
  <2> QED
    BY <2>4, <2>5
<1> QED
  BY <1>1, <1>7, <1>8, <1>9 DEF Leaves

\* A call that is given up returns a nullptr, as its node does not have a type or there is an
\* error.
LEMMA NullGives ==
  ASSUME NEW ty, stack # <<>>, Return(Null), UNCHANGED <<isRef, tokens>>, wasError => wasError',
         ~wasError' /\ Settled(Top.node) => ty[Top.node] = Void
  PROVE  Gives(ty, Null)
<1>1. Null \in LLVMValue /\ Null.type = Void
  BY NullType DEF Null, Value
<1> QED
  BY <1>1 DEF Gives, Return, Popped

LEMMA ResultFields ==
  ASSUME StackInv, RestInv, stack # <<>>, NEW x \in Nat
  PROVE  /\ Result(x) \in LLVMValue /\ Result(x).type = x
         /\ Result(x).type = Void => Result(x) = Null
<1>1. Result(x) \in LLVMValue
  BY ResultValue
<1>2. Result(x).type = x
  BY DEF Result, Null, Value, Void
<1> QED
  BY <1>1, <1>2 DEF Result

\* The operand that a generator waits for, or has got.
LEMMA OperandIs ==
  ASSUME StackInv, RestInv, stack # <<>>, Top.i < Len(Node.args)
  PROVE  /\ NextArg = Nodes[Top.node].args[Top.i + 1] /\ Top.i + 1 \in 1 .. Len(Nodes[Top.node].args)
         /\ Top.node \in DOMAIN Nodes
         /\ Settled(Top.node) => Settled(NextArg)
<1>1. Top.node \in DOMAIN Nodes /\ Top.i \in 0 .. Len(Node.args) /\ Len(Node.args) \in Nat
  BY TopFacts
<1>2. Top.i + 1 \in 1 .. Len(Nodes[Top.node].args)
  BY <1>1 DEF Node
<1>3. NextArg = Nodes[Top.node].args[Top.i + 1]
  BY DEF NextArg, Node
<1>4. Settled(Top.node) => Settled(NextArg)
  BY <1>1, <1>2, <1>3, SettledOperand
<1> QED
  BY <1>1, <1>2, <1>3, <1>4

LEMMA CallGives ==
  ASSUME StackInv, RestInv, ValueInv, NEW ty, NEW piped, Typing(ty, piped), TypedInv(ty),
         ArgumentLost \/ UndefinedFunction \/ IncorrectNumber \/ NotAReference \/ CreateCall
  PROVE  \E v : Gives(ty, v) /\ GivesCode
<1>1. CASE ArgumentLost
  <2>1. /\ stack # <<>> /\ Node.kind \in Calls /\ returned = Null /\ returned # Waiting /\ Top.round = 2
        /\ Return(Null) /\ ~wasError
        /\ UNCHANGED <<code, isRef, tokens, wasError>>
    BY <1>1, NullType DEF ArgumentLost, Got, Generating
  <2>2. Top.i < Len(Node.args)
    BY <2>1, TopFacts
  <2>3. Len(stack) \in 1 .. Len(stack)
    <3>1. Len(stack) \in Nat \ {0}
      BY <2>1, TopFacts
    <3> QED
      BY <3>1
  <2>4. Settled(Top.node) => ty[NextArg] # Void
    BY <2>1, <2>2, <2>3, OperandIs DEF TypedInv, CallsBound, Top, Node
  <2>5. Settled(Top.node) => ty[NextArg] = Void
    <3>1. Settled(Top.node) => Settled(NextArg)
      BY <2>1, <2>2, OperandIs
    <3> QED
      BY <2>1, <3>1 DEF TypedInv, ReturnedTyped, Null, Value
  <2>6. Gives(ty, Null)
    BY <2>1, <2>4, <2>5, NullGives
  <2> QED
    BY <2>1, <2>6 DEF GivesCode
<1>2. CASE UndefinedFunction \/ IncorrectNumber \/ NotAReference
  <2>1. /\ stack # <<>> /\ Return(Null) /\ UNCHANGED <<code, isRef, tokens>> /\ wasError'
    BY <1>2 DEF UndefinedFunction, IncorrectNumber, NotAReference, LookedUp, NotComplete, At, Generating
  <2>2. Gives(ty, Null)
    BY <2>1, NullGives
  <2> QED
    BY <2>1, <2>2 DEF GivesCode
<1>3. CASE CreateCall
  <2> DEFINE n == Top.node
             x == ResultType(functionIDs[Top.callee])
  <2>1. /\ stack # <<>> /\ Node.kind \in Calls /\ Top.round = 2
        /\ EmitCall(Top.callee) /\ Return(Result(x))
        /\ UNCHANGED <<isRef, tokens, wasError>>
    BY <1>3 DEF CreateCall, At, Generating
  <2>2. /\ n \in DOMAIN Nodes /\ Node = Nodes[n] /\ FrameOK(Top)
        /\ Top.callee \in 0 .. Len(functionIDs) /\ Len(functionIDs) \in Nat
        /\ Len(stack) \in 1 .. Len(stack)
    <3>1. /\ Len(stack) \in Nat \ {0} /\ n \in DOMAIN Nodes /\ FrameOK(Top)
          /\ Top.callee \in 0 .. Len(functionIDs)
      BY <2>1, TopFacts
    <3> QED
      BY <3>1, SizeFacts DEF Node
  <2>3. Top.callee # 0 /\ Top.callee \in 1 .. Len(functionIDs)
    BY <2>1, <2>2 DEF FrameOK
  <2>4. x \in Nat /\ x = Returned(n, functionIDs[Top.callee])
    <3>1. functionIDs[Top.callee].returns \in Nat
      BY <2>3, FullNames, TypesAreNumbers DEF FunctionID
    <3> QED
      BY <3>1 DEF ResultType, Returned, Node, Identifier_Node, Void
  <2> HIDE DEF x, n
  <2>5. Settled(n) => x = ty[n]
    <3> SUFFICES ASSUME Settled(n) PROVE x = ty[n]
      OBVIOUS
    <3>1. Top.callee = Binding(n, OperandTypes(ty, n))
      BY <2>1, <2>2 DEF TypedInv, CallsBound, n, Top, Node
    <3>2. ty[n] = TypeFrom(n, OperandTypes(ty, n), piped[n])
      BY <2>1, <2>2 DEF Typing, Calls
    <3>3. TypeFrom(n, OperandTypes(ty, n), piped[n]) = Returned(n, functionIDs[Top.callee])
      BY <2>1, <2>2, <2>3, <3>1 DEF TypeFrom, Calls
    <3> QED
      BY <2>4, <3>2, <3>3
  <2>6. /\ Result(x) \in LLVMValue /\ Result(x).type = x
        /\ Result(x).type = Void => Result(x) = Null
    BY <2>1, <2>4, ResultFields
  <2>7. Gives(ty, Result(x))
    BY <2>1, <2>5, <2>6 DEF Gives, Return, Popped, n
  <2>8. GivesCode
    BY <2>1 DEF GivesCode, EmitCall, Calls, n
  <2> QED
    BY <2>7, <2>8
<1> QED
  BY <1>1, <1>2, <1>3

LEMMA PipeGives ==
  ASSUME StackInv, RestInv, ValueInv, NEW ty, NEW piped, Typing(ty, piped), TypedInv(ty), PipeRight
  PROVE  \E v : Gives(ty, v) /\ GivesCode
<1>1. /\ stack # <<>> /\ returned # Waiting /\ Node.kind = "pipe" /\ Top.i = 1
      /\ Return(returned) /\ UNCHANGED <<code, isRef, tokens, wasError>>
  BY DEF PipeRight, Got, Generating
<1>2. Top.i < Len(Node.args)
  BY <1>1, TopFacts
<1>3. NextArg = Nodes[Top.node].args[2] /\ Top.node \in DOMAIN Nodes /\ (Settled(Top.node) => Settled(NextArg))
  BY <1>1, <1>2, OperandIs
<1>4. ty[Top.node] = ty[NextArg]
  BY <1>1, <1>3 DEF Typing, Node
<1>5. Gives(ty, returned)
  BY <1>1, <1>3, <1>4 DEF Gives, Return, Popped, StackInv, ValueInv, NullHasNoType, TypedInv, ReturnedTyped
<1> QED
  BY <1>1, <1>5 DEF GivesCode

LEMMA OperatorTypeIs ==
  ASSUME NEW n, NEW l, NEW r, NEW f, f = GetNamedFunctionFromID(functionIDs, Nodes[n].name)
  PROVE  /\ Void \in {l, r} => OperatorType(n, l, r) = Void
         /\ Void \notin {l, r} /\ f # 0 => OperatorType(n, l, r) =
              IF functionIDs[f].returns = Void THEN Identifier_Node ELSE functionIDs[f].returns
         /\ Void \notin {l, r} /\ f = 0 =>
              OperatorType(n, l, r) = IF Computes(l, r) THEN Lower(l, r) ELSE Void
BY DEF OperatorType

LEMMA OperationGives ==
  ASSUME StackInv, RestInv, ValueInv, NEW ty, NEW piped, Typing(ty, piped), TypedInv(ty), Operation
  PROVE  \/ UNCHANGED <<stack, returned, code, wasError, isRef, tokens>>
         \/ \E v : Gives(ty, v) /\ GivesCode
<1> DEFINE n == Top.node
           L == Top.values[1]
           R == Top.values[2]
<1>1. /\ stack # <<>> /\ returned = Waiting /\ Node.kind = "operator" /\ Complete
      /\ UNCHANGED <<isRef, tokens>>
  BY DEF Operation, At, Generating
<1>2. /\ n \in DOMAIN Nodes /\ Node = Nodes[n] /\ Len(Node.args) = 2 /\ FrameOK(Top)
      /\ Top.values \in Seq(LLVMValue)
      /\ Len(stack) \in 1 .. Len(stack) /\ n \in Nat
  <2>1. /\ Len(stack) \in Nat \ {0} /\ n \in DOMAIN Nodes /\ FrameOK(Top) /\ Top.values \in Seq(LLVMValue)
        /\ n \in Nat
    BY <1>1, TopFacts
  <2>2. Len(Nodes[n].args) = 2
    BY <1>1, <2>1, ProgramFacts DEF RestInv, Node
  <2> QED
    BY <2>1, <2>2 DEF Node
<1>3. Len(Top.values) = 2
  BY <1>1, <1>2 DEF FrameOK, Complete
<1>4. ASSUME NEW i \in {1, 2}
      PROVE  /\ Top.values[i] \in LLVMValue /\ Top.values[i].type \in Nat
             /\ Top.values[i] = Null <=> Top.values[i].type = Void
             /\ ~wasError /\ Settled(n) => Top.values[i].type = OperandTypes(ty, n)[i]
  <2>1. i \in 1 .. Len(stack[Len(stack)].values) /\ i \in 1 .. Len(Nodes[n].args)
    BY <1>2, <1>3 DEF Top
  <2>2. Top.values[i] \in LLVMValue
    BY <1>2, <1>3
  <2>3. Top.values[i].type = Void => Top.values[i] = Null
    BY <1>2, <2>1 DEF ValueInv, NullHasNoType, Top
  <2>4. Settled(n) => Settled(Nodes[n].args[i])
    BY <1>2, <2>1, SettledOperand
  <2>5. ~wasError /\ Settled(n) => Top.values[i].type = ty[Nodes[n].args[i]]
    BY <1>2, <2>1, <2>4 DEF TypedInv, ValuesTyped, Top
  <2>6. OperandTypes(ty, n)[i] = ty[Nodes[n].args[i]]
    BY <2>1 DEF OperandTypes
  <2> QED
    BY <2>2, <2>3, <2>5, <2>6 DEF Null, Value, LLVMValue
<1>5. ty[n] = OperatorType(n, OperandTypes(ty, n)[1], OperandTypes(ty, n)[2])
  <2>1. ty[n] = TypeFrom(n, OperandTypes(ty, n), piped[n])
    BY <1>1, <1>2 DEF Typing
  <2> QED
    BY <1>1, <1>2, <2>1 DEF TypeFrom, Calls
<1>6. ~wasError /\ Settled(n) => ty[n] = OperatorType(n, L.type, R.type)
  BY <1>4, <1>5
<1>7. Overload = GetNamedFunctionFromID(functionIDs, Nodes[n].name)
  BY <1>2 DEF Overload
<1> HIDE DEF L, R
<1>8. /\ L = Null <=> L.type = Void
      /\ R = Null <=> R.type = Void
      /\ L.type \in Nat /\ R.type \in Nat
  BY <1>4 DEF L, R
<1>9. CASE Null \in {L, R} /\ Return(Null) /\ UNCHANGED <<code, wasError>>
  <2>1. Void \in {L.type, R.type}
    BY <1>8, <1>9
  <2>2. OperatorType(n, L.type, R.type) = Void
    BY <1>7, <2>1, OperatorTypeIs
  <2>3. Gives(ty, Null)
    BY <1>1, <1>6, <1>9, <2>2, NullGives
  <2> QED
    BY <1>9, <2>3 DEF GivesCode
<1>10. CASE /\ Null \notin {L, R} /\ Overload # 0
            /\ EmitCall(Overload)
            /\ Return(Result(IF functionIDs[Overload].returns = Void THEN Identifier_Node
                             ELSE functionIDs[Overload].returns))
            /\ UNCHANGED wasError
  <2> DEFINE x == IF functionIDs[Overload].returns = Void THEN Identifier_Node
                  ELSE functionIDs[Overload].returns
  <2>1. Void \notin {L.type, R.type}
    BY <1>8, <1>10
  <2>2. OperatorType(n, L.type, R.type) = x
    BY <1>7, <1>10, <2>1, OperatorTypeIs
  <2>3. x \in Nat
    <3>1. Overload \in 1 .. Len(functionIDs)
      <4>1. Overload \in 0 .. Len(functionIDs) /\ Len(functionIDs) \in Nat
        BY Lookups, SizeFacts
      <4> QED
        BY <1>10, <4>1
    <3>2. functionIDs[Overload].returns \in Nat
      BY <3>1, ReturnType
    <3> QED
      BY <3>2 DEF Identifier_Node
  <2>4. Return(Result(x))
    BY <1>10
  <2> HIDE DEF x
  <2>5. /\ Result(x) \in LLVMValue /\ Result(x).type = x
        /\ Result(x).type = Void => Result(x) = Null
    BY <1>1, <2>3, ResultFields
  <2>6. Gives(ty, Result(x))
    BY <1>1, <1>6, <1>10, <2>2, <2>4, <2>5 DEF Gives, Return, Popped
  <2>7. GivesCode
    BY <1>1, <1>10 DEF GivesCode, EmitCall, Calls
  <2> QED
    BY <2>6, <2>7
<1>11. CASE UNCHANGED <<stack, returned, code, wasError>>
  BY <1>1, <1>11
<1>12. CASE /\ Null \notin {L, R} /\ Overload = 0
            /\ Return(IF Computes(L.type, R.type) THEN Value(n, 0, Lower(L.type, R.type)) ELSE Null)
            /\ wasError' = (wasError \/ CastFails(L.type, R.type))
            /\ UNCHANGED code
  <2>1. Void \notin {L.type, R.type}
    BY <1>8, <1>12
  <2>2. OperatorType(n, L.type, R.type)
          = IF Computes(L.type, R.type) THEN Lower(L.type, R.type) ELSE Void
    <3>1. PICK l, r, f : l = L.type /\ r = R.type /\ f = Overload
      OBVIOUS
    <3>2. Void \notin {l, r} /\ f = 0 /\ f = GetNamedFunctionFromID(functionIDs, Nodes[n].name)
      BY <1>7, <1>12, <2>1, <3>1
    <3>3. OperatorType(n, l, r) = IF Computes(l, r) THEN Lower(l, r) ELSE Void
      BY <3>2, OperatorTypeIs
    <3> QED
      BY <3>1, <3>3
  <2>3. ~wasError' => ~wasError
    BY <1>12 DEF RestInv
  <2>4. CASE Computes(L.type, R.type)
    <3> DEFINE x == Lower(L.type, R.type)
               v == Value(n, 0, x)
    <3>1. x \in Nat /\ x # Void
      BY <1>8, <2>1 DEF Lower
    <3> HIDE DEF x
    <3>2. v \in LLVMValue /\ v.type = x
      BY <1>2, <3>1, ValueType DEF Value
    <3>3. Return(v) /\ (~wasError /\ Settled(n) => ty[n] = x)
      BY <1>6, <1>12, <2>2, <2>4 DEF x
    <3> HIDE DEF v
    <3>4. Gives(ty, v)
      BY <1>1, <1>12, <2>3, <3>1, <3>2, <3>3 DEF Gives, Return, Popped
    <3> QED
      BY <1>12, <3>4 DEF GivesCode
  <2>5. CASE ~Computes(L.type, R.type)
    <3>1. Return(Null) /\ (~wasError /\ Settled(n) => ty[n] = Void)
      BY <1>6, <1>12, <2>2, <2>5
    <3>2. Gives(ty, Null)
      BY <1>1, <1>12, <2>3, <3>1, NullGives
    <3> QED
      BY <1>12, <3>2 DEF GivesCode
  <2> QED
    BY <2>4, <2>5
<1> QED
  BY <1>9, <1>10, <1>11, <1>12 DEF Operation, L, R

LEMMA DereferenceGives ==
  ASSUME StackInv, RestInv, Rounds, ValueInv, NEW ty, NEW piped, Typing(ty, piped), TypedInv(ty),
         Dereference
  PROVE  \/ \E v : Gives(ty, v) /\ GivesCode
         \/ \E t : /\ stack # <<>> /\ Node.kind = "dereference" /\ Changed(t)
                   /\ t.node = Top.node /\ t.values = Top.values
                   /\ UNCHANGED <<code, wasError, isRef, tokens>>
<1> DEFINE n == Top.node
<1>1. /\ stack # <<>> /\ returned # Waiting /\ Node.kind = "dereference" /\ ~wasError
      /\ UNCHANGED <<code, isRef, tokens>>
  BY DEF Dereference, Got, Generating
<1>2. /\ n \in DOMAIN Nodes /\ Node = Nodes[n] /\ Len(stack) \in 1 .. Len(stack) /\ n \in Nat
      /\ Top.i < Len(Node.args) /\ Top \in CallFrame
  <2>1. /\ Len(stack) \in Nat \ {0} /\ n \in DOMAIN Nodes /\ n \in Nat /\ Top.i < Len(Node.args)
        /\ Top \in CallFrame
    BY <1>1, TopFacts
  <2> QED
    BY <2>1 DEF Node
<1>3. Top.i = 0
  BY <1>1, <1>2 DEF Rounds, Top, Node
<1>4. /\ NextArg = Nodes[n].args[1] /\ 1 \in 1 .. Len(Nodes[n].args)
      /\ Settled(n) => Settled(NextArg)
  BY <1>1, <1>2, <1>3, OperandIs
<1>5. Settled(n) => returned.type = ty[NextArg]
  BY <1>1, <1>4 DEF TypedInv, ReturnedTyped
<1>6. ty[n] = IF ty[NextArg] = Void THEN Void ELSE SInt32_Type
  <2>1. ty[n] = TypeFrom(n, OperandTypes(ty, n), piped[n])
    BY <1>1, <1>2 DEF Typing
  <2>2. OperandTypes(ty, n)[1] = ty[NextArg]
    BY <1>4 DEF OperandTypes
  <2>3. Nodes[n].kind = "dereference"
    BY <1>1, <1>2
  <2>4. PICK types : types = OperandTypes(ty, n)
    OBVIOUS
  <2>5. TypeFrom(n, types, piped[n]) = IF types[1] = Void THEN Void ELSE SInt32_Type
    BY <2>3 DEF TypeFrom, Calls
  <2> QED
    BY <2>1, <2>2, <2>4, <2>5
<1>7. returned.type = Void <=> returned = Null
  BY DEF ValueInv, NullHasNoType, Null, Value
<1>8. CASE returned = Null /\ Return(Null)
  <2>1. Gives(ty, Null)
    BY <1>1, <1>5, <1>6, <1>7, <1>8, NullGives
  <2> QED
    BY <1>1, <2>1 DEF GivesCode
<1>9. CASE /\ returned' = Waiting
           /\ stack' = [stack EXCEPT ![Len(stack)].round = 2]
           /\ UNCHANGED wasError
  <2> DEFINE t == [Top EXCEPT !.round = 2]
  <2>1. t.node = Top.node /\ t.values = Top.values
    BY <1>2 DEF CallFrame
  <2>2. Changed(t)
    BY <1>9 DEF Changed, Top
  <2> HIDE DEF t
  <2> QED
    BY <1>1, <1>9, <2>1, <2>2
<1>10. CASE returned # Null /\ Return(Value(n, 0, SInt32_Type)) /\ UNCHANGED wasError
  <2> DEFINE v == Value(n, 0, SInt32_Type)
  <2>1. v \in LLVMValue /\ v.type = SInt32_Type /\ SInt32_Type # Void
    BY <1>2, ValueType DEF Value, SInt32_Type, Void
  <2>2. Return(v)
    BY <1>10
  <2> HIDE DEF v
  <2>3. Gives(ty, v)
    BY <1>1, <1>5, <1>6, <1>7, <1>10, <2>1, <2>2 DEF Gives, Return, Popped
  <2> QED
    BY <1>1, <2>3 DEF GivesCode
<1> QED
  BY <1>8, <1>9, <1>10 DEF Dereference
-----------------------------------------------------------------------------
\* A step leaves the trees and the functions alone, and unsettles at most.
Steady == program' = program /\ functionIDs' = functionIDs /\ isRef \subseteq isRef'

LEMMA SteadyFacts ==
  ASSUME Steady, NEW CONSTANT ty
  PROVE  /\ Nodes' = Nodes
         /\ \A n : Settled(n)' => Settled(n)
         /\ \A n : Binding(n, OperandTypes(ty, n))' = Binding(n, OperandTypes(ty, n))
         /\ \A n : GetNamedFunctionFromID(functionIDs, Nodes[n].name)'
                     = GetNamedFunctionFromID(functionIDs, Nodes[n].name)
         /\ \A n : FullName(n)' = FullName(n)
<1>1. Nodes' = Nodes /\ functionIDs' = functionIDs
  BY DEF Steady, Nodes
<1>2. \A n : Settled(n)' => Settled(n)
  BY SettledStays DEF Steady
<1>3. \A n : FullName(n)' = FullName(n)
  BY <1>1 DEF FullName
<1>4. ASSUME NEW CONSTANT n
      PROVE  Binding(n, OperandTypes(ty, n))' = Binding(n, OperandTypes(ty, n))
  <2>1. OperandTypes(ty, n)' = OperandTypes(ty, n)
    BY <1>1 DEF OperandTypes
  <2> QED
    BY <1>1, <1>3, <2>1 DEF Binding
<1> QED
  BY <1>1, <1>2, <1>3, <1>4

LEMMA TypingSame ==
  ASSUME program' = program, functionIDs' = functionIDs, NEW CONSTANT ty, NEW CONSTANT piped,
         Typing(ty, piped)
  PROVE  Typing(ty, piped)'
<1>1. Nodes' = Nodes /\ functionIDs' = functionIDs /\ \A n : Parents(n)' = Parents(n)
  BY DEF Nodes, Parents
<1>2. ASSUME NEW CONSTANT n
      PROVE  TypeFrom(n, OperandTypes(ty, n), piped[n])' = TypeFrom(n, OperandTypes(ty, n), piped[n])
  <2>1. OperandTypes(ty, n)' = OperandTypes(ty, n) /\ FullName(n)' = FullName(n)
    BY <1>1 DEF OperandTypes, FullName
  <2>2. \A t : Binding(n, t)' = Binding(n, t)
    BY <1>1, <2>1 DEF Binding
  <2>3. \A l, r : OperatorType(n, l, r)' = OperatorType(n, l, r)
    BY <1>1 DEF OperatorType
  <2>4. \A f : Returned(n, f)' = Returned(n, f)
    BY <1>1 DEF Returned
  <2> QED
    BY <1>1, <2>1, <2>2, <2>3, <2>4 DEF TypeFrom
<1> QED
  BY <1>1, <1>2 DEF Typing

LEMMA CodeStaysBound ==
  ASSUME Steady, NEW CONSTANT ty, CodeBound(ty), UNCHANGED code
  PROVE  CodeBound(ty)'
BY SteadyFacts DEF CodeBound

LEMMA EnterBinds ==
  ASSUME StackInv, RestInv, ValueInv, NEW CONSTANT ty, TypedInv(ty), Steady,
         NEW n \in DOMAIN Nodes, Enters(n),
         tokens' = IF Nodes[n].kind = "method" THEN [tokens EXCEPT ![n] = <<Nodes[n].on>> \o @]
                                               ELSE tokens
  PROVE  ValueInv' /\ TypedInv(ty)'
<1>1. /\ Len(stack) \in Nat /\ Len(stack') = Len(stack) + 1
      /\ \A k \in 1 .. Len(stack) : stack'[k] = stack[k] /\ k \in 1 .. Len(stack')
      /\ stack'[Len(stack) + 1] = Frame(n)
      /\ \A k \in 1 .. Len(stack') : k \in 1 .. Len(stack) \/ k = Len(stack) + 1
      /\ stack' # <<>> /\ returned' = Waiting
  BY EnterStack
<1>2. /\ Nodes' = Nodes
      /\ \A m : Settled(m)' => Settled(m)
      /\ \A m : Binding(m, OperandTypes(ty, m))' = Binding(m, OperandTypes(ty, m))
      /\ \A m : FullName(m)' = FullName(m)
  BY SteadyFacts
<1>3. Frame(n).round = 1 /\ Frame(n).i = 0 /\ Frame(n).values = <<>>
  BY DEF Frame
<1>4. UNCHANGED <<code, wasError>>
  BY DEF Enters, Kept
<1>5. Named'
  <2>1. tokens \in [DOMAIN Nodes -> Seq(STRING)] /\ program \in Programs
    BY DEF RestInv, Nodes
  <2>2. ASSUME NEW CONSTANT m \in DOMAIN Nodes, m # n
        PROVE  tokens'[m] = tokens[m]
    BY <2>1, <2>2
  <2>3. ASSUME Nodes[n].kind = "method"
        PROVE  tokens'[n] = FullName(n) \/ Len(tokens'[n]) > 2
    <3>1. tokens'[n] = <<Nodes[n].on>> \o tokens[n]
      BY <2>1, <2>3
    <3>2. CASE tokens[n] = Nodes[n].name
      BY <2>3, <3>1, <3>2 DEF FullName
    <3>3. CASE tokens[n] # Nodes[n].name
      <4>1. Len(tokens[n]) >= 2 /\ tokens[n] \in Seq(STRING) /\ Len(tokens[n]) \in Nat
        <5>1. tokens[n] \in Seq(STRING) /\ Len(tokens[n]) \in Nat
          BY <2>1
        <5>2. tokens[n] = FullName(n) \/ Len(tokens[n]) > 2
          BY <2>3, <3>3 DEF ValueInv, Named
        <5>3. Len(FullName(n)) = 2
          BY <2>3, FullNames DEF Calls
        <5>4. PICK l : l = Len(tokens[n])
          OBVIOUS
        <5>5. l \in Nat /\ (l = 2 \/ l > 2)
          BY <5>1, <5>2, <5>3, <5>4
        <5>6. l >= 2
          BY <5>5
        <5> QED
          BY <5>1, <5>4, <5>6
      <4> DEFINE s == <<Nodes[n].on>>
                 t == tokens[n]
      <4>2. s \in Seq(STRING) /\ Len(s) = 1
        <5>1. Nodes[n] \in ASTNode
          BY <2>1, ProgramFacts
        <5> QED
          BY <5>1 DEF ASTNode
      <4>3. t \in Seq(STRING) /\ Len(t) \in Nat /\ Len(t) >= 2
        BY <4>1
      <4> HIDE DEF s, t
      <4>4. Len(s \o t) = Len(s) + Len(t)
        BY <4>2, <4>3, ConcatProperties
      <4>5. Len(s \o t) > 2
        BY <4>2, <4>3, <4>4
      <4> QED
        BY <3>1, <4>5 DEF s, t
    <3> QED
      BY <3>2, <3>3
  <2>4. ASSUME Nodes[n].kind # "method" PROVE tokens'[n] = Nodes[n].name
    BY <2>4 DEF ValueInv, Named
  <2>5. ASSUME NEW CONSTANT m \in DOMAIN Nodes
        PROVE  IF Nodes[m].kind = "method" THEN \/ tokens'[m] \in {Nodes[m].name, FullName(m)}
                                                \/ Len(tokens'[m]) > 2
               ELSE tokens'[m] = Nodes[m].name
    <3>1. CASE m = n
      BY <2>3, <2>4, <3>1
    <3>2. CASE m # n
      BY <2>2, <3>2 DEF ValueInv, Named
    <3> QED
      BY <3>1, <3>2
  <2> QED
    BY <1>2, <2>5 DEF Named
<1>6. NoArgumentOnError'
  BY <1>1, <1>3 DEF NoArgumentOnError, Top
<1>7. NullHasNoType'
  <2>1. \A k \in 1 .. Len(stack') : \A i \in 1 .. Len(stack'[k].values) : k \in 1 .. Len(stack)
    BY <1>1, <1>3
  <2>2. Waiting.type # Void
    BY DEF Waiting, Value, Void
  <2> QED
    BY <1>1, <1>2, <2>1, <2>2 DEF ValueInv, NullHasNoType
<1>8. CallsBound(ty)'
  <2>1. \A k \in 1 .. Len(stack') : stack'[k].round = 2 => k \in 1 .. Len(stack)
    BY <1>1, <1>3
  <2> QED
    BY <1>1, <1>2, <2>1 DEF TypedInv, CallsBound
<1>9. CodeBound(ty)'
  BY <1>4, CodeStaysBound DEF TypedInv
<1>10. ValuesTyped(ty)'
  <2>1. ASSUME NEW CONSTANT k \in 1 .. Len(stack'), NEW CONSTANT i \in 1 .. Len(stack'[k].values)
        PROVE  k \in 1 .. Len(stack) /\ stack'[k] = stack[k]
    BY <1>1, <1>3
  <2>2. ASSUME ~wasError', NEW CONSTANT k \in 1 .. Len(stack'),
               NEW CONSTANT i \in 1 .. Len(stack'[k].values),
               Settled(Nodes[stack'[k].node].args[i])
        PROVE  stack'[k].values[i].type = ty[Nodes[stack'[k].node].args[i]]
    BY <1>4, <2>1, <2>2 DEF TypedInv, ValuesTyped
  <2> QED
    BY <1>2, <2>2 DEF ValuesTyped
<1>11. ReturnedTyped(ty)'
  BY <1>1 DEF ReturnedTyped
<1> QED
  BY <1>5, <1>6, <1>7, <1>8, <1>9, <1>10, <1>11 DEF ValueInv, TypedInv

LEMMA ReceiveBinds ==
  ASSUME StackInv, RestInv, WalkInv, ValueInv, NEW CONSTANT ty, TypedInv(ty), Steady, Receives,
         UNCHANGED tokens, Node.kind \in Calls => ~wasError /\ returned # Null
  PROVE  ValueInv' /\ TypedInv(ty)'
<1> DEFINE t == Received
<1>1. /\ Received.node = Top.node /\ Received.round = Top.round /\ Received.callee = Top.callee
      /\ Received.values = Append(Top.values, returned)
  BY ReceivedFields DEF Receives
<1>2. /\ stack # <<>> /\ returned # Waiting /\ Changed(t) /\ UNCHANGED <<code, wasError>>
      /\ Node.kind # "dereference"
  BY DEF Receives, Kept
<1>3. /\ Top.values \in Seq(LLVMValue) /\ Top.i \in Nat /\ Len(Top.values) = Top.i
      /\ returned \in LLVMValue /\ Top.node \in DOMAIN Nodes
  <2>1. /\ Top.values \in Seq(LLVMValue) /\ Top.i \in 0 .. Len(Node.args) /\ FrameOK(Top)
        /\ Top.node \in DOMAIN Nodes
    BY <1>2, TopFacts
  <2>2. Len(Node.args) \in Nat
    BY <1>2, TopFacts
  <2>3. returned \in LLVMValue
    BY <1>2 DEF StackInv
  <2> QED
    BY <1>2, <2>1, <2>2, <2>3 DEF FrameOK, Node
<1>4. /\ \A i \in 1 .. Top.i : t.values[i] = Top.values[i] /\ i \in 1 .. Len(Top.values)
      /\ t.values[Top.i + 1] = returned
      /\ \A i \in 1 .. Len(t.values) : i \in 1 .. Top.i \/ i = Top.i + 1
  BY <1>1, <1>3
<1> HIDE DEF t
<1>5. /\ Len(stack) \in Nat \ {0} /\ Len(stack') = Len(stack)
      /\ \A k \in 1 .. Len(stack) : stack'[k] = IF k = Len(stack) THEN t ELSE stack[k]
      /\ stack' # <<>> /\ returned' = Waiting
  BY <1>2, ChangedStack
<1>6. Len(stack) \in 1 .. Len(stack)
  BY <1>5
<1>7. /\ Nodes' = Nodes
      /\ \A m : Settled(m)' => Settled(m)
      /\ \A m : Binding(m, OperandTypes(ty, m))' = Binding(m, OperandTypes(ty, m))
      /\ \A m : FullName(m)' = FullName(m)
  BY SteadyFacts
<1>8. t.node = Top.node /\ t.round = Top.round /\ t.callee = Top.callee
  BY <1>1 DEF t
<1>9. Named'
  BY <1>7 DEF ValueInv, Named
<1>10. NoArgumentOnError'
  <2>1. Node' = Node
    BY <1>5, <1>6, <1>7, <1>8 DEF Node, Top
  <2> QED
    BY <1>2, <2>1 DEF NoArgumentOnError
<1>11. NullHasNoType'
  <2>1. Waiting.type # Void
    BY DEF Waiting, Value, Void
  <2>2. ASSUME NEW CONSTANT k \in 1 .. Len(stack), NEW CONSTANT i \in 1 .. Len(stack'[k].values),
               stack'[k].values[i].type = Void
        PROVE  stack'[k].values[i] = Null /\ Nodes[stack'[k].node].kind \notin Calls
    <3>1. CASE k # Len(stack)
      BY <1>5, <2>2, <3>1 DEF ValueInv, NullHasNoType
    <3>2. CASE k = Len(stack)
      <4>1. stack'[k] = t
        BY <1>5, <3>2
      <4>2. CASE i \in 1 .. Top.i
        <5>1. i \in 1 .. Len(stack[k].values) /\ stack[k].values[i] = t.values[i]
          BY <1>4, <3>2, <4>2 DEF Top
        <5> QED
          BY <1>8, <2>2, <3>2, <4>1, <5>1 DEF ValueInv, NullHasNoType, Top
      <4>3. CASE i = Top.i + 1
        <5>1. returned = Null
          BY <1>4, <2>2, <4>1, <4>3 DEF ValueInv, NullHasNoType
        <5> QED
          BY <1>4, <1>8, <4>1, <4>3, <5>1 DEF Node
      <4> QED
        BY <1>4, <2>2, <4>1, <4>2, <4>3
    <3> QED
      BY <3>1, <3>2
  <2> QED
    BY <1>5, <1>7, <2>1, <2>2 DEF NullHasNoType
<1>12. CallsBound(ty)'
  <2>1. \A k \in 1 .. Len(stack) : /\ stack'[k].node = stack[k].node
                                   /\ stack'[k].round = stack[k].round
                                   /\ stack'[k].callee = stack[k].callee
    BY <1>5, <1>8 DEF Top
  <2> QED
    BY <1>5, <1>7, <2>1 DEF TypedInv, CallsBound
<1>13. CodeBound(ty)'
  BY <1>2, CodeStaysBound DEF TypedInv
<1>14. ValuesTyped(ty)'
  <2>1. ASSUME ~wasError, NEW CONSTANT k \in 1 .. Len(stack),
               NEW CONSTANT i \in 1 .. Len(stack'[k].values), Settled(Nodes[stack'[k].node].args[i])
        PROVE  stack'[k].values[i].type = ty[Nodes[stack'[k].node].args[i]]
    <3>1. CASE k # Len(stack)
      BY <1>5, <2>1, <3>1 DEF TypedInv, ValuesTyped
    <3>2. CASE k = Len(stack)
      <4>1. stack'[k] = t
        BY <1>5, <3>2
      <4>2. CASE i \in 1 .. Top.i
        <5>1. i \in 1 .. Len(stack[k].values) /\ stack[k].values[i] = t.values[i]
          BY <1>4, <3>2, <4>2 DEF Top
        <5> QED
          BY <1>8, <2>1, <3>2, <4>1, <5>1 DEF TypedInv, ValuesTyped, Top
      <4>3. CASE i = Top.i + 1
        <5>1. NextArg = Nodes[t.node].args[i]
          BY <1>8, <4>3 DEF NextArg, Node
        <5> QED
          BY <1>2, <1>4, <2>1, <4>1, <4>3, <5>1 DEF TypedInv, ReturnedTyped
      <4> QED
        BY <1>4, <2>1, <4>1, <4>2, <4>3
    <3> QED
      BY <3>1, <3>2
  <2> QED
    BY <1>2, <1>5, <1>7, <2>1 DEF ValuesTyped
<1>15. ReturnedTyped(ty)'
  BY <1>5 DEF ReturnedTyped
<1> QED
  BY <1>9, <1>10, <1>11, <1>12, <1>13, <1>14, <1>15 DEF ValueInv, TypedInv

\* The second round of a call or a dereference.
LEMMA RepeatBinds ==
  ASSUME StackInv, RestInv, ValueInv, NEW CONSTANT ty, TypedInv(ty), Steady,
         stack # <<>>, NEW t, Changed(t), UNCHANGED <<code, wasError, tokens>>,
         t.node = Top.node, t.values \in {<<>>, Top.values}, Node.kind \in Calls => t.i = 0,
         Node.kind \in Calls /\ Settled(Top.node) =>
           /\ t.callee = Binding(Top.node, OperandTypes(ty, Top.node))
           /\ \A i \in 1 .. Len(Node.args) : ty[Node.args[i]] # Void
  PROVE  ValueInv' /\ TypedInv(ty)'
<1>1. /\ Len(stack) \in Nat \ {0} /\ Len(stack') = Len(stack)
      /\ \A k \in 1 .. Len(stack) : stack'[k] = IF k = Len(stack) THEN t ELSE stack[k]
      /\ stack' # <<>> /\ returned' = Waiting
  BY ChangedStack
<1>2. Len(stack) \in 1 .. Len(stack)
  BY <1>1
<1>3. /\ Nodes' = Nodes
      /\ \A m : Settled(m)' => Settled(m)
      /\ \A m : Binding(m, OperandTypes(ty, m))' = Binding(m, OperandTypes(ty, m))
      /\ \A m : FullName(m)' = FullName(m)
  BY SteadyFacts
<1>4. Top' = t /\ Node' = Node
  BY <1>1, <1>2, <1>3 DEF Node, Top
<1>5. \A k \in 1 .. Len(stack) : \A i \in 1 .. Len(stack'[k].values) :
        i \in 1 .. Len(stack[k].values) /\ stack'[k].values[i] = stack[k].values[i]
        /\ stack'[k].node = stack[k].node
  <2>1. Len(<<>>) = 0
    OBVIOUS
  <2> QED
    BY <1>1, <2>1 DEF Top
<1>6. Named'
  BY <1>3 DEF ValueInv, Named
<1>7. NoArgumentOnError'
  BY <1>4 DEF NoArgumentOnError
<1>8. NullHasNoType'
  <2>1. Waiting.type # Void
    BY DEF Waiting, Value, Void
  <2>2. ASSUME NEW CONSTANT k \in 1 .. Len(stack), NEW CONSTANT i \in 1 .. Len(stack'[k].values),
               stack'[k].values[i].type = Void
        PROVE  stack'[k].values[i] = Null /\ Nodes[stack'[k].node].kind \notin Calls
    BY <1>5, <2>2 DEF ValueInv, NullHasNoType
  <2> QED
    BY <1>1, <1>3, <2>1, <2>2 DEF NullHasNoType
<1>9. CallsBound(ty)'
  <2>1. ASSUME NEW CONSTANT k \in 1 .. Len(stack), Nodes[stack'[k].node].kind \in Calls,
               stack'[k].round = 2, Settled(stack'[k].node)
        PROVE  /\ stack'[k].callee = Binding(stack'[k].node, OperandTypes(ty, stack'[k].node))
               /\ \A i \in 1 .. Len(Nodes[stack'[k].node].args) :
                    ty[Nodes[stack'[k].node].args[i]] # Void
    <3>1. CASE k # Len(stack)
      BY <1>1, <2>1, <3>1 DEF TypedInv, CallsBound
    <3>2. CASE k = Len(stack)
      <4>1. stack'[k] = t
        BY <1>1, <3>2
      <4> QED
        BY <2>1, <4>1 DEF Node
    <3> QED
      BY <3>1, <3>2
  <2>2. ASSUME NEW CONSTANT k \in 1 .. Len(stack), NEW CONSTANT n, n = stack'[k].node,
               Nodes[n].kind \in Calls, stack'[k].round = 2, Settled(n)'
        PROVE  /\ stack'[k].callee = Binding(n, OperandTypes(ty, n))'
               /\ \A i \in 1 .. Len(Nodes[n].args) : ty[Nodes[n].args[i]] # Void
    BY <1>3, <2>1, <2>2
  <2> QED
    BY <1>1, <1>3, <2>2 DEF CallsBound
<1>10. CodeBound(ty)'
  BY CodeStaysBound DEF TypedInv
<1>11. ValuesTyped(ty)'
  <2>1. ASSUME ~wasError, NEW CONSTANT k \in 1 .. Len(stack),
               NEW CONSTANT i \in 1 .. Len(stack'[k].values), NEW CONSTANT a,
               a = Nodes[stack'[k].node].args[i], Settled(a)'
        PROVE  stack'[k].values[i].type = ty[a]
    <3>1. /\ i \in 1 .. Len(stack[k].values) /\ stack'[k].values[i] = stack[k].values[i]
          /\ stack'[k].node = stack[k].node
      BY <1>5, <2>1
    <3>2. Settled(Nodes[stack[k].node].args[i])
      BY <1>3, <2>1, <3>1
    <3> QED
      BY <2>1, <3>1, <3>2 DEF TypedInv, ValuesTyped
  <2> QED
    BY <1>1, <1>3, <2>1 DEF ValuesTyped
<1>12. ReturnedTyped(ty)'
  BY <1>1 DEF ReturnedTyped
<1> QED
  BY <1>6, <1>7, <1>8, <1>9, <1>10, <1>11, <1>12 DEF ValueInv, TypedInv

LEMMA GivenCodeBound ==
  ASSUME StackInv, RestInv, NEW CONSTANT ty, TypedInv(ty), Steady, stack # <<>>, GivesCode
  PROVE  CodeBound(ty)'
<1>1. CASE code' = code
  BY <1>1, CodeStaysBound DEF TypedInv
<1>2. ASSUME NEW f, NEW args, code' = Append(code, [node |-> Top.node, callee |-> f, args |-> args]),
             Node.kind \in Calls \cup {"operator"},
             Node.kind = "operator" => f = Overload,
             Node.kind \in Calls => f = Top.callee /\ Top.round = 2
      PROVE  CodeBound(ty)'
  <2> DEFINE c == [node |-> Top.node, callee |-> f, args |-> args]
  <2>1. c.node = Top.node /\ c.callee = f /\ code' = Append(code, c)
    BY <1>2
  <2> HIDE DEF c
  <2>2. /\ Len(code') = Len(code) + 1
        /\ \A k \in 1 .. Len(code) : code'[k] = code[k]
        /\ code'[Len(code) + 1] = c
        /\ \A k \in 1 .. Len(code') : k \in 1 .. Len(code) \/ k = Len(code) + 1
    BY <2>1 DEF RestInv
  <2>3. Len(stack) \in 1 .. Len(stack)
    BY DEF StackInv
  <2>4. Node.kind \in Calls /\ Settled(Top.node) =>
          Top.callee = Binding(Top.node, OperandTypes(ty, Top.node))
    BY <1>2, <2>3 DEF TypedInv, CallsBound, Top, Node
  <2>5. /\ Nodes' = Nodes
        /\ \A m : Settled(m)' => Settled(m)
        /\ \A m : Binding(m, OperandTypes(ty, m))' = Binding(m, OperandTypes(ty, m))
        /\ \A m : GetNamedFunctionFromID(functionIDs, Nodes[m].name)'
                    = GetNamedFunctionFromID(functionIDs, Nodes[m].name)
    BY SteadyFacts
  <2>6. ASSUME NEW CONSTANT k \in 1 .. Len(code'), NEW CONSTANT n, n = code'[k].node
        PROVE  /\ Nodes[n].kind \in Calls \cup {"operator"}
               /\ Nodes[n].kind = "operator" =>
                    code'[k].callee = GetNamedFunctionFromID(functionIDs, Nodes[n].name)
               /\ Nodes[n].kind \in Calls /\ Settled(n) =>
                    code'[k].callee = Binding(n, OperandTypes(ty, n))
    <3>1. CASE k \in 1 .. Len(code)
      BY <2>2, <2>6, <3>1 DEF TypedInv, CodeBound
    <3>2. CASE k = Len(code) + 1
      BY <1>2, <2>1, <2>2, <2>4, <2>6, <3>2 DEF Overload, Node
    <3> QED
      BY <2>2, <3>1, <3>2
  <2>7. ASSUME NEW CONSTANT k \in 1 .. Len(code'), NEW CONSTANT n, n = code'[k].node
        PROVE  /\ Nodes'[n].kind \in Calls \cup {"operator"}
               /\ Nodes'[n].kind = "operator" =>
                    code'[k].callee = GetNamedFunctionFromID(functionIDs, Nodes[n].name)'
               /\ Nodes'[n].kind \in Calls /\ Settled(n)' =>
                    code'[k].callee = Binding(n, OperandTypes(ty, n))'
    BY <2>5, <2>6, <2>7
  <2> QED
    BY <2>7 DEF CodeBound
<1> QED
  BY <1>1, <1>2 DEF GivesCode

LEMMA GivesBinds ==
  ASSUME StackInv, RestInv, OnPath, ValueInv, NEW CONSTANT ty, TypedInv(ty), Steady,
         NEW v, Gives(ty, v), GivesCode
  PROVE  ValueInv' /\ TypedInv(ty)'
<1>1. /\ stack # <<>> /\ v \in LLVMValue /\ UNCHANGED <<isRef, tokens>> /\ (wasError => wasError')
      /\ (v.type = Void => v = Null)
      /\ (~wasError' /\ Settled(Top.node) => v.type = ty[Top.node])
  BY DEF Gives
<1>2. /\ Len(stack) \in Nat \ {0} /\ Len(stack') = Len(stack) - 1
      /\ \A k \in 1 .. Len(stack) - 1 : stack'[k] = stack[k] /\ k \in 1 .. Len(stack)
      /\ stack' = <<>> <=> Len(stack) = 1
      /\ returned' = v /\ v # Waiting
  <2>1. stack \in Seq(CallFrame) /\ Len(stack) \in Nat \ {0}
    BY <1>1 DEF StackInv
  <2>2. /\ stack' \in Seq(CallFrame) /\ Len(stack') = Len(stack) - 1
        /\ \A k \in 1 .. Len(stack) - 1 : stack'[k] = stack[k]
        /\ returned' = v
    BY <2>1, Shorter DEF Gives, Popped
  <2>3. stack' = <<>> <=> Len(stack) = 1
    BY <2>1, <2>2
  <2> QED
    BY <1>1, <2>1, <2>2, <2>3, NullType
<1>3. /\ Nodes' = Nodes
      /\ \A m : Settled(m)' => Settled(m)
      /\ \A m : Binding(m, OperandTypes(ty, m))' = Binding(m, OperandTypes(ty, m))
      /\ \A m : FullName(m)' = FullName(m)
  BY SteadyFacts
<1>4. Named'
  BY <1>1, <1>3 DEF ValueInv, Named
<1>5. NoArgumentOnError'
  BY <1>2 DEF NoArgumentOnError
<1>6. NullHasNoType'
  BY <1>1, <1>2, <1>3 DEF ValueInv, NullHasNoType
<1>7. CallsBound(ty)'
  BY <1>2, <1>3 DEF TypedInv, CallsBound
<1>8. CodeBound(ty)'
  BY <1>1, GivenCodeBound
<1>9. ValuesTyped(ty)'
  <2>1. ASSUME ~wasError, NEW CONSTANT k \in 1 .. Len(stack) - 1,
               NEW CONSTANT i \in 1 .. Len(stack'[k].values), NEW CONSTANT a,
               a = Nodes[stack'[k].node].args[i], Settled(a)'
        PROVE  stack'[k].values[i].type = ty[a]
    <3>1. stack'[k] = stack[k] /\ k \in 1 .. Len(stack)
      BY <1>2
    <3>2. Settled(Nodes[stack[k].node].args[i])
      BY <1>3, <2>1, <3>1
    <3> QED
      BY <2>1, <3>1, <3>2 DEF TypedInv, ValuesTyped
  <2>2. Len(stack') = Len(stack) - 1 /\ Nodes' = Nodes /\ (~wasError' => ~wasError)
    BY <1>1, <1>2, <1>3
  <2>3. ASSUME ~wasError', NEW CONSTANT k \in 1 .. Len(stack'),
               NEW CONSTANT i \in 1 .. Len(stack'[k].values), NEW CONSTANT a,
               a = Nodes'[stack'[k].node].args[i], Settled(a)'
        PROVE  stack'[k].values[i].type = ty[a]
    BY <2>1, <2>2, <2>3
  <2> QED
    BY <2>3 DEF ValuesTyped
<1>10. ReturnedTyped(ty)'
  <2>1. ASSUME stack' # <<>> PROVE NextArg' = Top.node
    <3>1. Len(stack) - 1 \in 1 .. Len(stack) - 1 /\ (Len(stack) - 1) + 1 = Len(stack)
      BY <1>2, <2>1
    <3>2. stack[Len(stack)].node = Nodes[stack[Len(stack) - 1].node].args[stack[Len(stack) - 1].i + 1]
      BY <3>1 DEF OnPath
    <3> QED
      BY <1>2, <1>3, <3>1, <3>2 DEF NextArg, Node, Top
  <2> QED
    BY <1>1, <1>2, <1>3, <2>1 DEF ReturnedTyped
<1> QED
  BY <1>4, <1>5, <1>6, <1>7, <1>8, <1>9, <1>10 DEF ValueInv, TypedInv

LEMMA StillBound ==
  ASSUME ValueInv, NEW CONSTANT ty, TypedInv(ty), Steady,
         UNCHANGED <<stack, returned, code, wasError, tokens>>
  PROVE  ValueInv' /\ TypedInv(ty)'
<1>1. /\ Nodes' = Nodes
      /\ \A m : Settled(m)' => Settled(m)
      /\ \A m : Binding(m, OperandTypes(ty, m))' = Binding(m, OperandTypes(ty, m))
      /\ \A m : FullName(m)' = FullName(m)
  BY SteadyFacts
<1>2. Top' = Top /\ Node' = Node /\ NextArg' = NextArg
  BY <1>1 DEF Top, Node, NextArg
<1>3. ValueInv'
  BY <1>1, <1>2 DEF ValueInv, Named, NoArgumentOnError, NullHasNoType
<1>4. CallsBound(ty)' /\ ValuesTyped(ty)' /\ ReturnedTyped(ty)'
  BY <1>1, <1>2 DEF TypedInv, CallsBound, ValuesTyped, ReturnedTyped
<1>5. CodeBound(ty)'
  BY CodeStaysBound DEF TypedInv
<1> QED
  BY <1>3, <1>4, <1>5 DEF TypedInv

LEMMA EndStatementBinds ==
  ASSUME ValueInv, NEW CONSTANT ty, TypedInv(ty), Steady, stack = <<>>, returned' = Waiting,
         UNCHANGED <<stack, code, wasError, tokens>>
  PROVE  ValueInv' /\ TypedInv(ty)'
<1>1. /\ Nodes' = Nodes
      /\ \A m : FullName(m)' = FullName(m)
  BY SteadyFacts
<1>2. Len(stack) = 0 /\ Waiting.type # Void
  BY DEF Waiting, Value, Void
<1>3. ValueInv'
  BY <1>1, <1>2 DEF ValueInv, Named, NoArgumentOnError, NullHasNoType
<1>4. CallsBound(ty)' /\ ValuesTyped(ty)' /\ ReturnedTyped(ty)'
  BY <1>2 DEF CallsBound, ValuesTyped, ReturnedTyped
<1>5. CodeBound(ty)'
  BY CodeStaysBound DEF TypedInv
<1> QED
  BY <1>3, <1>4, <1>5 DEF TypedInv

\* Every step keeps the types.
LEMMA BindingStep ==
  ASSUME TypeInv, WalkInv, PipesAreNested, ValueInv, NEW CONSTANT ty, NEW CONSTANT piped,
         Typing(ty, piped), TypedInv(ty), [Next]_vars
  PROVE  ValueInv' /\ TypedInv(ty)'
<1>1. StackInv /\ RestInv /\ OnPath /\ Rounds
  BY Parts DEF WalkInv
<1>2. program' = program /\ functionIDs' = functionIDs
  BY StepMoves
<1>3. ASSUME UNCHANGED isRef PROVE Steady
  BY <1>2, <1>3 DEF Steady
<1>4. ASSUME NEW n \in DOMAIN Nodes, Enters(n), Enter(n), isRef \subseteq isRef'
      PROVE  ValueInv' /\ TypedInv(ty)'
  BY <1>1, <1>2, <1>4, EnterBinds DEF Enter, Steady
<1>5. ASSUME stack # <<>>, returned # Waiting, Node.kind # "dereference", Receive,
             UNCHANGED <<stmt, tokens, isRef, code, wasError, status>>, status = "generating",
             Node.kind \in Calls => ~wasError /\ returned # Null
      PROVE  ValueInv' /\ TypedInv(ty)'
  <2>1. Receives
    BY <1>5 DEF Receives, Receive, Changed, Kept
  <2> QED
    BY <1>1, <1>3, <1>5, <2>1, ReceiveBinds
<1>6. ASSUME UNCHANGED <<stack, returned, code, wasError, isRef, tokens>>
      PROVE  ValueInv' /\ TypedInv(ty)'
  BY <1>3, <1>6, StillBound
<1>7. ASSUME NEW v, Gives(ty, v), GivesCode PROVE ValueInv' /\ TypedInv(ty)'
  <2>1. UNCHANGED isRef
    BY <1>7 DEF Gives
  <2> QED
    BY <1>1, <1>3, <1>7, <2>1, GivesBinds
<1>8. CASE Statement
  <2>1. stmt \in 1 .. Len(program.body)
    BY <1>1, <1>8, SizeFacts DEF Statement, RestInv
  <2>2. program.body[stmt] \in DOMAIN Nodes
    BY <1>1, <2>1, ProgramFacts DEF RestInv
  <2>3. Enters(program.body[stmt]) /\ Enter(program.body[stmt]) /\ UNCHANGED isRef
    BY <1>8 DEF Statement, Enters, Enter, Pushed, Kept
  <2> QED
    BY <1>4, <2>2, <2>3
<1>9. CASE Operand \/ ArgumentAgain
  <2>1. /\ stack # <<>> /\ returned = Waiting /\ status = "generating" /\ ~Complete
        /\ Enter(NextArg) /\ UNCHANGED <<stmt, code, wasError, status>>
        /\ isRef \subseteq isRef'
    BY <1>9 DEF Operand, ArgumentAgain, NotComplete, MarkReference, At, Generating
  <2>2. NextArg \in DOMAIN Nodes /\ Top.i < Len(Node.args)
    BY <1>1, <2>1, TopFacts
  <2>3. Enters(NextArg)
    BY <2>1, <2>2 DEF Enters, Enter, Pushed, Kept
  <2> QED
    BY <1>4, <2>1, <2>2, <2>3
<1>10. CASE EndBody \/ ExitOnError \/ TypeOfNull \/ Finished \/ UNCHANGED vars
  <2>1. UNCHANGED <<stack, returned, code, wasError, isRef, tokens>>
    BY <1>10 DEF EndBody, ExitOnError, Exit, TypeOfNull, Finished, vars
  <2> QED
    BY <1>6, <2>1
<1>11. CASE EndStatement
  <2>1. /\ stack = <<>> /\ returned' = Waiting
        /\ UNCHANGED <<stack, code, wasError, tokens>> /\ UNCHANGED isRef
    BY <1>11 DEF EndStatement
  <2> QED
    BY <1>3, <2>1, EndStatementBinds
<1>12. CASE ArgumentValue
  BY <1>5, <1>12 DEF ArgumentValue, Got, Generating, Calls
<1>13. CASE PipeLeft
  BY <1>5, <1>13 DEF PipeLeft, Got, Generating, Calls
<1>14. CASE OperandValue
  BY <1>5, <1>14 DEF OperandValue, Got, Generating, Calls
<1>15. CASE FoundFunction
  <2>1. /\ stack # <<>> /\ returned = Waiting /\ LookedUp /\ Callee # 0
        /\ UNCHANGED <<code, wasError, tokens>> /\ UNCHANGED isRef
        /\ stack' = [stack EXCEPT ![Len(stack)] = Again] /\ returned' = returned
    BY <1>15 DEF FoundFunction, LookedUp, At, Generating
  <2>2. PICK t : t = Again
    OBVIOUS
  <2>3. /\ t.node = Top.node /\ t.values \in {<<>>, Top.values} /\ t.i = 0
        /\ t.callee = Callee
    BY <1>1, <2>1, <2>2, AgainFields
  <2>4. Changed(t)
    BY <2>1, <2>2 DEF Changed
  <2>5. ASSUME Settled(Top.node)
        PROVE  /\ t.callee = Binding(Top.node, OperandTypes(ty, Top.node))
               /\ \A i \in 1 .. Len(Node.args) : ty[Node.args[i]] # Void
    <3>1. ValuesTyped(ty)
      BY DEF TypedInv
    <3>2. Callee = Binding(Top.node, OperandTypes(ty, Top.node))
      BY <1>1, <2>1, <2>5, <3>1, CalleeBound
    <3>3. \A i \in 1 .. Len(Node.args) : ty[Node.args[i]] # Void
      BY <1>1, <2>1, <2>5, <3>1, TypesAre
    <3> QED
      BY <2>3, <3>2, <3>3
  <2> QED
    BY <1>1, <1>3, <2>1, <2>3, <2>4, <2>5, RepeatBinds
<1>16. CASE Leaf
  <2>1. \E v : Gives(ty, v)
    BY <1>1, <1>16, LeafGives
  <2>2. GivesCode
    BY <1>16 DEF Leaf, GivesCode
  <2> QED
    BY <1>7, <2>1, <2>2
<1>17. CASE ArgumentLost \/ UndefinedFunction \/ IncorrectNumber \/ NotAReference \/ CreateCall
  BY <1>1, <1>7, <1>17, CallGives
<1>18. CASE PipeRight
  BY <1>1, <1>7, <1>18, PipeGives
<1>19. CASE Operation
  BY <1>1, <1>6, <1>7, <1>19, OperationGives
<1>20. CASE Dereference
  <2>1. ASSUME NEW t, stack # <<>>, Node.kind = "dereference", Changed(t),
               t.node = Top.node, t.values = Top.values,
               UNCHANGED <<code, wasError, isRef, tokens>>
        PROVE  ValueInv' /\ TypedInv(ty)'
    <3>1. Node.kind \notin Calls
      BY <2>1 DEF Calls
    <3> QED
      BY <1>1, <1>3, <2>1, <3>1, RepeatBinds
  <2> QED
    BY <1>1, <1>7, <1>20, <2>1, DereferenceGives
<1> QED
  BY <1>8, <1>9, <1>10, <1>11, <1>12, <1>13, <1>14, <1>15, <1>16, <1>17, <1>18, <1>19, <1>20 DEF Next

BindInv == ValueInv /\ \E ty, piped : Typing(ty, piped) /\ TypedInv(ty)

LEMMA BindInitially == Init => BindInv
<1> SUFFICES ASSUME Init PROVE BindInv
  OBVIOUS
<1>1. RestInv
  BY Initially, Parts
<1>2. PICK ty, piped : Typing(ty, piped)
  BY <1>1, TypingExists
<1>3. stack = <<>> /\ Len(stack) = 0 /\ returned = Waiting /\ ~wasError /\ Len(code) = 0
  BY DEF Init
<1>4. Named
  BY DEF Init, Named, Nodes
<1>5. Waiting.type # Void
  BY DEF Waiting, Value, Void
<1>6. ValueInv
  BY <1>3, <1>4, <1>5 DEF ValueInv, NoArgumentOnError, NullHasNoType
<1>7. TypedInv(ty)
  BY <1>3 DEF TypedInv, CallsBound, CodeBound, ValuesTyped, ReturnedTyped
<1> QED
  BY <1>2, <1>6, <1>7 DEF BindInv

LEMMA BindAlways == Spec => []BindInv
<1>1. ASSUME BindInv, TypeInv, WalkInv, PipesAreNested, [Next]_vars PROVE BindInv'
  <2>1. PICK ty, piped : Typing(ty, piped) /\ TypedInv(ty)
    BY <1>1 DEF BindInv
  <2>2. ValueInv' /\ TypedInv(ty)'
    BY <1>1, <2>1, BindingStep DEF BindInv
  <2>3. program' = program /\ functionIDs' = functionIDs
    BY <1>1, StepMoves
  <2>4. Typing(ty, piped)'
    BY <2>1, <2>3, TypingSame
  <2> QED
    BY <2>2, <2>4 DEF BindInv
<1>2. BindInv /\ TypeInv /\ WalkInv /\ PipesAreNested /\ [Next]_vars => BindInv'
  BY <1>1
<1> QED
  BY <1>2, BindInitially, TypeAlways, WalkAlways, CallEmissionPipesAreNested, PTL DEF Spec

(***************************************************************************)
(* A call, a call of a method or an overloaded operator is bound to the    *)
(* same function each of the times it is emitted, unless a variable below  *)
(* it or below what is piped to it has been passed as a reference.         *)
(***************************************************************************)
THEOREM CallEmissionBoundOnce == Spec => []BoundOnce
<1>1. ASSUME BindInv, TypeInv PROVE BoundOnce
  <2>1. PICK ty, piped : Typing(ty, piped) /\ TypedInv(ty)
    BY <1>1 DEF BindInv
  <2>2. RestInv
    BY <1>1, Parts
  <2>3. ASSUME NEW j \in 1 .. Len(code), NEW k \in 1 .. Len(code), NEW n,
               n = code[j].node, n = code[k].node, code[j].callee # code[k].callee
        PROVE  \E x \in References : n \in Above[x] \/ \E p \in PipedTo(n) : Within(x, p)
    <3>1. Nodes[n].kind \in Calls /\ ~Settled(n)
      BY <2>1, <2>3 DEF TypedInv, CodeBound
    <3>2. PICK x \in References : Within(x, n) \/ \E p \in PipedTo(n) : Within(x, p)
      BY <3>1 DEF Settled, Fed
    <3>3. x # n
      BY <3>1 DEF References, Calls
    <3> QED
      BY <3>2, <3>3 DEF Within
  <2> QED
    BY <2>3 DEF BoundOnce
<1>2. BindInv /\ TypeInv => BoundOnce
  BY <1>1
<1> QED
  BY <1>2, BindAlways, TypeAlways, PTL

-----------------------------------------------------------------------------
(***************************************************************************)
(* ExitHasCause                                                            *)
(***************************************************************************)
\* Max is the greatest element of a set of indexes.
LEMMA MaxUpTo ==
  ASSUME NEW n \in Nat, NEW s \in SUBSET (1 .. n), s # {}
  PROVE  Max(s) \in s /\ \A x \in s : x <= Max(s)
<1> DEFINE T == {j \in Nat : \E x \in s : j = n - x}
<1>1. T # {} /\ T \in SUBSET Nat
  <2>1. PICK x \in s : TRUE
    OBVIOUS
  <2>2. n - x \in T
    BY <2>1
  <2> QED
    BY <2>2
<1>2. PICK i \in T : \A j \in T : i <= j
  BY <1>1, LeastNat
<1>3. PICK x \in s : i = n - x
  BY <1>2
<1>4. \A y \in s : x >= y
  <2>1. \A y \in s : n - y \in T
    OBVIOUS
  <2> QED
    BY <1>2, <1>3, <2>1
<1>5. Max(s) \in s /\ \A y \in s : Max(s) >= y
  BY <1>4 DEF Max
<1> QED
  BY <1>5

\* At most thirteen points for every parameter, if none wants its type exactly.
PointsUpTo == Boolean_Node - Integer_Node

LEMMA PointsBound ==
  ASSUME NEW t1 \in Int, NEW t2 \in Int, NEW inferred
  PROVE  Points(t1, t2, inferred) \in 0 .. PointsUpTo
<1>1. IntegerTypes = 2 .. 15 /\ FloatTypes = 16 .. 18 /\ PointsUpTo = 13 /\ Half_Type - Double_Type = 2
      /\ Boolean_Node - Integer_Node = 13
  BY DEF IntegerTypes, FloatTypes, PointsUpTo, Boolean_Node, Integer_Node, Half_Type, Double_Type
<1>2. CASE CompareASTNodeTypes(t1, t2, inferred)
  BY <1>1, <1>2 DEF Points
<1>3. CASE ~CompareASTNodeTypes(t1, t2, inferred) /\ t1 \in IntegerTypes /\ t2 \in IntegerTypes
  <2>1. Points(t1, t2, inferred) = Distance(t1, t2)
    BY <1>1, <1>3 DEF Points
  <2> QED
    BY <1>1, <1>3, <2>1 DEF Distance
<1>4. CASE ~CompareASTNodeTypes(t1, t2, inferred) /\ t1 \in IntegerTypes /\ t2 \notin IntegerTypes
  <2>1. Points(t1, t2, inferred) = Boolean_Node - Integer_Node
    BY <1>1, <1>4 DEF Points
  <2> QED
    BY <1>1, <2>1
<1>5. CASE ~CompareASTNodeTypes(t1, t2, inferred) /\ t1 \in FloatTypes /\ t2 \in FloatTypes
  <2>1. Points(t1, t2, inferred) = Distance(t1, t2)
    BY <1>1, <1>5 DEF Points
  <2> QED
    BY <1>1, <1>5, <2>1 DEF Distance
<1>6. CASE ~CompareASTNodeTypes(t1, t2, inferred) /\ t1 \in FloatTypes /\ t2 \notin FloatTypes
  <2>1. Points(t1, t2, inferred) = Half_Type - Double_Type
    BY <1>1, <1>6 DEF Points
  <2> QED
    BY <1>1, <2>1
<1>7. CASE ~CompareASTNodeTypes(t1, t2, inferred) /\ t1 \notin IntegerTypes /\ t1 \notin FloatTypes
  <2>1. Points(t1, t2, inferred) = 0
    BY <1>7 DEF Points
  <2> QED
    BY <1>1, <2>1
<1> QED
  BY <1>2, <1>3, <1>4, <1>5, <1>6, <1>7

\* The sum of the points, a fold over the sets of indexes: it has a solution.
Sums(g, m, points) ==
  g = [s \in SUBSET (1 .. m) |->
         IF s = {} THEN 0 ELSE (g[s \ {Max(s)}] + points[Max(s)]) % ScoreLimit]

LEMMA SumsExist ==
  ASSUME NEW n \in Nat, NEW points
  PROVE  \E g : Sums(g, n, points)
<1> DEFINE bad == {m \in 0 .. n : ~\E g : Sums(g, m, points)}
<1>1. ASSUME bad # {} PROVE FALSE
  <2>1. bad \in SUBSET Nat
    OBVIOUS
  <2>2. PICK m \in bad : \A j \in bad : m <= j
    BY <1>1, <2>1, LeastNat
  <2>3. m \in 0 .. n /\ ~\E g : Sums(g, m, points)
    BY <2>2
  <2>4. CASE m = 0
    <3>1. PICK g : g = [s \in SUBSET (1 .. 0) |-> 0]
      OBVIOUS
    <3>2. \A s \in SUBSET (1 .. 0) : s = {}
      OBVIOUS
    <3>3. g = [s \in SUBSET (1 .. 0) |->
                 IF s = {} THEN 0 ELSE (g[s \ {Max(s)}] + points[Max(s)]) % ScoreLimit]
      BY <3>1, <3>2, Zenon
    <3> QED
      BY <2>3, <2>4, <3>3 DEF Sums
  <2>5. CASE m # 0
    <3>1. m \in 1 .. n /\ m - 1 \in 0 .. n /\ ~(m <= m - 1) /\ m \in Nat /\ m - 1 \in Nat
      BY <2>3, <2>5
    <3>2. PICK f : Sums(f, m - 1, points)
      BY <2>2, <3>1
    <3> DEFINE value(h, s) == IF s = {} THEN 0 ELSE (h[s \ {Max(s)}] + points[Max(s)]) % ScoreLimit
    <3>3. PICK g : g = [s \in SUBSET (1 .. m) |-> IF m \in s THEN value(f, s) ELSE f[s]]
      OBVIOUS
    <3>4. \A s \in SUBSET (1 .. m - 1) : f[s] = value(f, s)
      BY <3>2, Zenon DEF Sums
    <3>5. \A s \in SUBSET (1 .. m) : m \notin s => s \in SUBSET (1 .. m - 1)
      BY <3>1
    <3>6. ASSUME NEW s \in SUBSET (1 .. m), s # {}
          PROVE  s \ {Max(s)} \in SUBSET (1 .. m - 1) /\ g[s \ {Max(s)}] = f[s \ {Max(s)}]
      <4>1. Max(s) \in s /\ \A x \in s : x <= Max(s)
        BY <3>1, <3>6, MaxUpTo
      <4>2. PICK y : y = Max(s)
        OBVIOUS
      <4>3. m \notin s \ {y} /\ s \ {y} \in SUBSET (1 .. m)
        <5>1. y \in 1 .. m /\ y \in s /\ \A x \in s : x <= y
          BY <4>1, <4>2
        <5>2. m \in s => m = y
          <6>1. m \in s => m <= y
            BY <5>1
          <6> QED
            BY <3>1, <5>1, <6>1
        <5> QED
          BY <5>2
      <4>4. g[s \ {y}] = f[s \ {y}]
        BY <3>3, <4>3
      <4> QED
        BY <3>5, <4>2, <4>3, <4>4
    <3> HIDE DEF value
    <3>7. ASSUME NEW s \in SUBSET (1 .. m) PROVE g[s] = value(g, s)
      <4>1. value(g, s) = value(f, s)
        BY <3>6 DEF value
      <4>2. CASE m \in s
        <5>1. g[s] = value(f, s)
          BY <3>3, <4>2
        <5> QED
          BY <4>1, <5>1
      <4>3. CASE m \notin s
        BY <3>3, <3>4, <3>5, <4>1, <4>3
      <4> QED
        BY <4>2, <4>3
    <3>8. g = [s \in SUBSET (1 .. m) |-> value(g, s)]
      <4>1. g = [s \in SUBSET (1 .. m) |-> g[s]]
        BY <3>3
      <4> QED
        BY <3>7, <4>1, Zenon
    <3>9. Sums(g, m, points)
      BY <3>8, Zenon DEF Sums, value
    <3> QED
      BY <2>3, <3>9
  <2> QED
    BY <2>4, <2>5
<1> QED
  BY <1>1

LEMMA SumBound ==
  ASSUME NEW n \in Nat, NEW points, \A i \in 1 .. n : points[i] \in 0 .. PointsUpTo,
         NEW g, Sums(g, n, points)
  PROVE  g[1 .. n] \in 0 .. PointsUpTo * n
<1> DEFINE bad == {k \in 0 .. n : g[1 .. k] \notin 0 .. PointsUpTo * k}
<1>1. PointsUpTo = 13 /\ ScoreLimit \in Nat \ {0}
  BY DEF PointsUpTo, Boolean_Node, Integer_Node, ScoreLimit
<1>2. \A s \in SUBSET (1 .. n) :
        g[s] = IF s = {} THEN 0 ELSE (g[s \ {Max(s)}] + points[Max(s)]) % ScoreLimit
  BY Zenon DEF Sums
<1>3. ASSUME bad # {} PROVE FALSE
  <2>1. bad \in SUBSET Nat
    OBVIOUS
  <2>2. PICK k \in bad : \A j \in bad : k <= j
    BY <1>3, <2>1, LeastNat
  <2>3. k \in 0 .. n /\ k \in Nat /\ g[1 .. k] \notin 0 .. PointsUpTo * k
    BY <2>2
  <2>4. CASE k = 0
    <3>1. 1 .. 0 = {} /\ {} \in SUBSET (1 .. n)
      OBVIOUS
    <3>2. g[{}] = 0
      BY <1>2, <3>1
    <3> QED
      BY <1>1, <2>3, <2>4, <3>1, <3>2
  <2>5. CASE k # 0
    <3>1. k \in 1 .. n /\ k - 1 \in 0 .. n /\ ~(k <= k - 1) /\ 1 .. k \in SUBSET (1 .. n) /\ k \in 1 .. k
      BY <2>3, <2>5
    <3>2. g[1 .. (k - 1)] \in 0 .. PointsUpTo * (k - 1)
      BY <2>2, <3>1
    <3>3. Max(1 .. k) = k
      <4>1. Max(1 .. k) \in 1 .. k /\ \A x \in 1 .. k : x <= Max(1 .. k)
        BY <3>1, MaxUpTo
      <4>2. PICK y : y = Max(1 .. k)
        OBVIOUS
      <4>3. y \in 1 .. k /\ k <= y
        BY <3>1, <4>1, <4>2
      <4> QED
        BY <3>1, <4>2, <4>3
    <3>4. (1 .. k) \ {k} = 1 .. (k - 1) /\ 1 .. k # {}
      BY <3>1
    <3>5. g[1 .. k] = (g[1 .. (k - 1)] + points[k]) % ScoreLimit
      BY <1>2, <3>1, <3>3, <3>4
    <3>6. PICK x, p : x = g[1 .. (k - 1)] /\ p = points[k]
      OBVIOUS
    <3>7. x \in Nat /\ p \in Nat /\ x + p <= 13 * (k - 1) + 13
      <4>1. x \in 0 .. 13 * (k - 1)
        BY <1>1, <3>2, <3>6
      <4>2. p \in 0 .. 13
        BY <1>1, <3>1, <3>6
      <4>3. 13 * (k - 1) \in Nat
        BY <3>1
      <4> QED
        BY <4>1, <4>2, <4>3
    <3>8. (x + p) % ScoreLimit \in 0 .. x + p
      <4>1. PICK y : y = x + p
        OBVIOUS
      <4>2. y \in Nat
        BY <3>7, <4>1
      <4>3. y % ScoreLimit \in 0 .. y
        BY <1>1, <4>2
      <4> QED
        BY <4>1, <4>3
    <3> QED
      BY <1>1, <2>3, <3>5, <3>6, <3>7, <3>8
  <2> QED
    BY <2>4, <2>5
<1>4. n \in 0 .. n
  OBVIOUS
<1> QED
  BY <1>3, <1>4

\* What a lookup scores, if no parameter wants its type exactly.
LEMMA DifferencesBound ==
  ASSUME NEW params, NEW n \in Nat, n = Len(params), DOMAIN params = 1 .. n, NEW types, NEW inferred,
         \A i \in 1 .. n : params[i].type \in Int /\ types[i] \in Int /\ ~params[i].exact
  PROVE  Differences(params, types, inferred) \in 0 .. PointsUpTo * n
<1> DEFINE seq == [i \in 1 .. Len(params) |-> i]
           op(y, x) == (y + Points(params[x].type, types[x], inferred)) % ScoreLimit
           Body(g) == [s \in SUBSET (DOMAIN seq) |->
                         IF s = {} THEN 0
                         ELSE LET x == Max(s) IN op(g[s \ {x}], seq[x])]
           sum == CHOOSE g : g = Body(g)
<1>1. Differences(params, types, inferred) = sum[DOMAIN seq]
  <2>1. ~ \E i \in DOMAIN params : ExactViolated(params[i], types[i], inferred)
    BY DEF ExactViolated
  <2>2. Differences(params, types, inferred) = FoldLeft(op, 0, seq)
    BY <2>1, Zenon DEF Differences
  <2> QED
    BY <2>2, Zenon DEF FoldLeft, MapThenFoldSet
<1>2. PICK points : points = [i \in 1 .. n |-> Points(params[i].type, types[i], inferred)]
  OBVIOUS
<1>3. /\ DOMAIN seq = 1 .. n
      /\ \A i \in 1 .. n : seq[i] = i
  OBVIOUS
<1>4. \A i \in 1 .. n : points[i] \in 0 .. PointsUpTo
  BY <1>2, PointsBound
<1>5. ASSUME NEW g PROVE Sums(g, n, points) <=> g = Body(g)
  <2>1. ASSUME NEW s \in SUBSET (1 .. n), s # {}
        PROVE  (g[s \ {Max(s)}] + points[Max(s)]) % ScoreLimit = op(g[s \ {Max(s)}], seq[Max(s)])
    <3>1. Max(s) \in 1 .. n
      BY <2>1, MaxUpTo
    <3>2. PICK x, y : x = Max(s) /\ y = g[s \ {Max(s)}]
      OBVIOUS
    <3>3. points[x] = Points(params[x].type, types[x], inferred) /\ seq[x] = x
      BY <1>2, <1>3, <3>1, <3>2
    <3> QED
      BY <3>2, <3>3
  <2> HIDE DEF op, seq
  <2>2. \A s \in SUBSET (1 .. n) :
          (IF s = {} THEN 0 ELSE (g[s \ {Max(s)}] + points[Max(s)]) % ScoreLimit)
            = IF s = {} THEN 0 ELSE LET x == Max(s) IN op(g[s \ {x}], seq[x])
    BY <2>1, Zenon
  <2>3. [s \in SUBSET (1 .. n) |->
          IF s = {} THEN 0 ELSE (g[s \ {Max(s)}] + points[Max(s)]) % ScoreLimit] = Body(g)
    BY <1>3, <2>2, Zenon
  <2> QED
    BY <2>3, Zenon DEF Sums
<1> HIDE DEF Body
<1>6. sum = Body(sum)
  BY <1>5, SumsExist
<1>7. Sums(sum, n, points)
  BY <1>5, <1>6
<1> HIDE DEF sum, seq
<1>8. sum[1 .. n] \in 0 .. PointsUpTo * n
  BY <1>4, <1>7, SumBound
<1> QED
  BY <1>1, <1>3, <1>8

\* A set of indexes with a score has a lowest one.
LEMMA LowestFound ==
  ASSUME NEW N \in Nat, NEW S \in SUBSET (1 .. N), S # {}, NEW score, \A i \in S : score[i] \in Nat
  PROVE  FirstOf(Lowest(score, S)) \in Lowest(score, S) /\ FirstOf(Lowest(score, S)) # 0
<1>1. PICK values : values = {score[i] : i \in S}
  OBVIOUS
<1>2. values \in SUBSET Nat /\ values # {}
  BY <1>1
<1>3. PICK v \in values : \A w \in values : v <= w
  BY <1>2, LeastNat
<1>4. PICK i \in S : score[i] = v
  BY <1>1, <1>3
<1>5. i \in Lowest(score, S)
  BY <1>1, <1>3, <1>4 DEF Lowest
<1>6. PICK L : L = Lowest(score, S)
  OBVIOUS
<1>7. L \in SUBSET Nat /\ L # {} /\ 0 \notin L
  <2>1. L \subseteq S /\ i \in L
    BY <1>5, <1>6 DEF Lowest
  <2>2. S \subseteq 1 .. N
    OBVIOUS
  <2> QED
    BY <2>1, <2>2
<1>8. \E x \in L : \A y \in L : x <= y
  BY <1>7, LeastNat
<1>9. FirstOf(L) \in L
  BY <1>8 DEF FirstOf
<1> QED
  BY <1>6, <1>7, <1>9

\* A call of which every function of its name fits, and whose score is less than that of an
\* #exact mismatch, is bound to one.
LEMMA LookupSucceeds ==
  ASSUME RestInv, NEW n \in DOMAIN Nodes, Nodes[n].kind \in Calls,
         NEW types \in Seq(Nat), Len(types) <= Len(Nodes[n].args) + 1,
         OfTheName(n) # {}, \A f \in OfTheName(n) : Fits(f, n),
         ~(NeedsExact <= PointsUpTo * (Len(Nodes[n].args) + 1))
  PROVE  GetFunctionFromID(functionIDs, FullName(n), types, TRUE, Nodes[n].kind = "method") # 0
<1> DEFINE score == [i \in 1 .. Len(functionIDs) |-> CompareMatch(functionIDs[i], FullName(n), types, TRUE)]
           isMember == Nodes[n].kind = "method"
           S == Candidates(functionIDs, score, isMember)
<1>1. Len(functionIDs) \in Nat /\ DOMAIN functionIDs = 1 .. Len(functionIDs)
      /\ \A i \in 1 .. Len(functionIDs) : functionIDs[i] \in FunctionID
  BY SizeFacts DEF RestInv
<1>2. \A i \in 1 .. Len(functionIDs) : score[i] = CompareMatch(functionIDs[i], FullName(n), types, TRUE)
  OBVIOUS
<1>3. NoMatch = 1000 /\ NameOnly = 999 /\ NeedsExact = 500 /\ PointsUpTo = 13
  BY DEF NoMatch, NameOnly, NeedsExact, PointsUpTo, Boolean_Node, Integer_Node
<1>4. ASSUME NEW i \in 1 .. Len(functionIDs), functionIDs[i].name = FullName(n)
      PROVE  /\ functionIDs[i].isMemberFunction = isMember
             /\ score[i] \in Nat /\ score[i] < NoMatch /\ score[i] # NeedsExact
  <2> DEFINE f == functionIDs[i]
  <2>1. f \in OfTheName(n)
    BY <1>1, <1>4 DEF OfTheName, ToSet
  <2>2. Fits(f, n)
    BY <2>1
  <2>3. f \in FunctionID
    BY <1>1
  <2> HIDE DEF f
  <2>4. f.isMemberFunction = isMember
    BY <2>2, <2>3 DEF Fits, FunctionID
  <2>5. PICK params : params = f.userArguments
    OBVIOUS
  <2>6. /\ params \in Seq([type : ASTNodeTypes, exact : BOOLEAN, ref : BOOLEAN])
        /\ Len(params) \in Nat /\ DOMAIN params = 1 .. Len(params)
    BY <2>3, <2>5 DEF FunctionID
  <2>7. \A k \in 1 .. Len(params) : ~params[k].exact /\ params[k].type \in Int
    <3>1. ASTNodeTypes \subseteq Int
      BY DEF ASTNodeTypes, Half_Type, Struct_Type
    <3>2. \A k \in 1 .. Len(params) : params[k] \in [type : ASTNodeTypes, exact : BOOLEAN, ref : BOOLEAN]
      <4>1. PICK R : R = [type : ASTNodeTypes, exact : BOOLEAN, ref : BOOLEAN]
        OBVIOUS
      <4>2. params \in Seq(R) /\ DOMAIN params = 1 .. Len(params)
        BY <2>6, <4>1
      <4>3. \A k \in 1 .. Len(params) : params[k] \in R
        BY <4>2
      <4> QED
        BY <4>1, <4>3
    <3> QED
      BY <2>2, <2>5, <2>6, <3>1, <3>2 DEF Fits
  <2>8. CASE Len(params) # Len(types)
    <3>1. CompareMatch(f, FullName(n), types, TRUE) = NameOnly
      BY <1>4, <2>5, <2>8 DEF CompareMatch, f
    <3>2. score[i] = NameOnly
      BY <1>2, <3>1 DEF f
    <3> HIDE DEF score
    <3> QED
      BY <1>3, <2>4, <3>2 DEF f
  <2>9. CASE Len(params) = Len(types)
    <3>1. CompareMatch(f, FullName(n), types, TRUE) = Differences(params, types, TRUE)
      BY <1>4, <2>5, <2>9 DEF CompareMatch, f
    <3>2. \A k \in 1 .. Len(params) : types[k] \in Int
      BY <2>9
    <3>3. Differences(params, types, TRUE) \in 0 .. PointsUpTo * Len(params)
      BY <2>6, <2>7, <3>2, DifferencesBound
    <3>4. PICK d, l : d = Differences(params, types, TRUE) /\ l = Len(params)
      OBVIOUS
    <3>5. d \in Nat /\ d < 500
      <4>1. Len(Nodes[n].args) \in Nat
        BY ProgramFacts DEF RestInv
      <4>2. l <= Len(Nodes[n].args) + 1 /\ l \in Nat
        BY <2>6, <2>9, <3>4
      <4>3. d \in 0 .. 13 * l
        BY <1>3, <3>3, <3>4
      <4>4. ~(500 <= 13 * (Len(Nodes[n].args) + 1))
        BY <1>3
      <4> QED
        BY <4>1, <4>2, <4>3, <4>4
    <3>6. score[i] = d
      BY <1>2, <3>1, <3>4 DEF f
    <3> HIDE DEF score
    <3> QED
      BY <1>3, <2>4, <3>5, <3>6 DEF f
  <2> QED
    BY <2>8, <2>9
<1>5. ASSUME NEW i \in S PROVE i \in 1 .. Len(functionIDs) /\ functionIDs[i].name = FullName(n)
  <2>1. i \in 1 .. Len(functionIDs) /\ score[i] < NoMatch
    <3> HIDE DEF score
    <3> QED
      BY DEF Candidates
  <2>2. functionIDs[i].name # FullName(n) => CompareMatch(functionIDs[i], FullName(n), types, TRUE) = NoMatch
    BY DEF CompareMatch
  <2>3. functionIDs[i].name # FullName(n) => score[i] = NoMatch
    BY <1>2, <2>1, <2>2
  <2> HIDE DEF score
  <2> QED
    BY <1>3, <2>1, <2>3
<1> HIDE DEF score, isMember
<1>6. S # {}
  <2>1. PICK f \in OfTheName(n) : TRUE
    OBVIOUS
  <2>2. PICK i \in 1 .. Len(functionIDs) : functionIDs[i].name = FullName(n)
    BY <1>1, <2>1 DEF OfTheName, ToSet
  <2>3. i \in S
    BY <1>4, <2>2 DEF Candidates
  <2> QED
    BY <2>3
<1> HIDE DEF S
<1>7. PICK best : best = FirstOf(Lowest(score, S))
  OBVIOUS
<1>8. best \in S /\ best # 0
  <2>1. S \in SUBSET (1 .. Len(functionIDs)) /\ \A i \in S : score[i] \in Nat
    BY <1>4, <1>5
  <2>2. best \in Lowest(score, S) /\ best # 0
    BY <1>1, <1>6, <1>7, <2>1, LowestFound
  <2> QED
    BY <2>2 DEF Lowest
<1>9. score[best] # NeedsExact
  BY <1>4, <1>5, <1>8
<1>10. GetFunctionFromID(functionIDs, FullName(n), types, TRUE, isMember)
         = IF best # 0 /\ score[best] # NeedsExact THEN best ELSE 0
  BY <1>7 DEF GetFunctionFromID, S, score
<1> QED
  BY <1>8, <1>9, <1>10 DEF isMember

-----------------------------------------------------------------------------
\* A step begins one node, or leaves the tokens and adds no generator.
LEMMA EntersOrNot ==
  ASSUME TypeInv, [Next]_vars
  PROVE  \/ \E n \in DOMAIN Nodes : Enters(n) /\ Enter(n)
         \/ tokens' = tokens /\ Len(stack') <= Len(stack)
<1>1. StackInv /\ RestInv
  BY Parts
<1>2. stack \in Seq(CallFrame) /\ Len(stack) \in Nat
  BY <1>1 DEF StackInv
<1>3. ASSUME NEW v, stack # <<>>, Return(v) PROVE Len(stack') <= Len(stack)
  <2>1. Len(stack') = Len(stack) - 1
    BY <1>2, <1>3, Shorter DEF Return
  <2> QED
    BY <1>2, <2>1
<1>4. ASSUME NEW t, stack' = [stack EXCEPT ![Len(stack)] = t] PROVE Len(stack') <= Len(stack)
  <2>1. Len(stack') = Len(stack)
    BY <1>2, <1>4
  <2> QED
    BY <1>2, <2>1
<1>5. ASSUME UNCHANGED stack PROVE Len(stack') <= Len(stack)
  BY <1>2, <1>5
<1>6. CASE Statement
  <2>1. stmt \in 1 .. Len(program.body)
    BY <1>1, <1>6, SizeFacts DEF Statement, RestInv
  <2>2. program.body[stmt] \in DOMAIN Nodes
    BY <1>1, <2>1, ProgramFacts DEF RestInv
  <2>3. Enters(program.body[stmt]) /\ Enter(program.body[stmt])
    BY <1>6 DEF Statement, Enters, Enter, Pushed, Kept
  <2> QED
    BY <2>2, <2>3
<1>7. CASE Operand \/ ArgumentAgain
  <2>1. /\ stack # <<>> /\ returned = Waiting /\ status = "generating" /\ ~Complete
        /\ Enter(NextArg) /\ UNCHANGED <<stmt, code, wasError, status>>
    BY <1>7 DEF Operand, ArgumentAgain, NotComplete, At, Generating
  <2>2. NextArg \in DOMAIN Nodes /\ Top.i < Len(Node.args)
    BY <1>1, <2>1, TopFacts
  <2>3. Enters(NextArg)
    BY <2>1, <2>2 DEF Enters, Enter, Pushed, Kept
  <2> QED
    BY <2>1, <2>2, <2>3
<1>8. CASE EndStatement \/ EndBody \/ ExitOnError \/ TypeOfNull \/ Finished \/ UNCHANGED vars
  BY <1>5, <1>8 DEF EndStatement, EndBody, ExitOnError, Exit, TypeOfNull, Finished, vars
<1>9. CASE Leaf
  <2>1. stack # <<>> /\ (\E v : Return(v)) /\ tokens' = tokens
    BY <1>9 DEF Leaf, At, Generating
  <2> QED
    BY <1>3, <2>1
<1>10. CASE ArgumentLost \/ UndefinedFunction \/ IncorrectNumber \/ NotAReference \/ CreateCall
  <2>1. stack # <<>> /\ (\E v : Return(v)) /\ tokens' = tokens
    BY <1>10 DEF ArgumentLost, UndefinedFunction, IncorrectNumber, NotAReference, CreateCall,
                 NotComplete, LookedUp, At, Got, Generating
  <2> QED
    BY <1>3, <2>1
<1>11. CASE PipeRight
  <2>1. stack # <<>> /\ (\E v : Return(v)) /\ tokens' = tokens
    BY <1>11 DEF PipeRight, Got, Generating
  <2> QED
    BY <1>3, <2>1
<1>12. CASE ArgumentValue \/ PipeLeft \/ OperandValue \/ FoundFunction
  <2>1. (\E t : stack' = [stack EXCEPT ![Len(stack)] = t]) /\ tokens' = tokens
    BY <1>12 DEF ArgumentValue, PipeLeft, OperandValue, FoundFunction, Receive
  <2> QED
    BY <1>4, <2>1
<1>13. CASE Operation
  <2>1. stack # <<>> /\ ((\E v : Return(v)) \/ UNCHANGED stack) /\ tokens' = tokens
    BY <1>13 DEF Operation, At, Generating
  <2> QED
    BY <1>3, <1>5, <2>1
<1>14. CASE Dereference
  <2>1. /\ stack # <<>> /\ tokens' = tokens
        /\ (\E v : Return(v)) \/ (\E t : stack' = [stack EXCEPT ![Len(stack)] = t])
    BY <1>14 DEF Dereference, Got, Generating
  <2> QED
    BY <1>3, <1>4, <2>1
<1> QED
  BY <1>6, <1>7, <1>8, <1>9, <1>10, <1>11, <1>12, <1>13, <1>14 DEF Next

\* A method that has been entered once has its full name.
Qualified(g) ==
  \A n \in DOMAIN Nodes : Nodes[n].kind = "method" =>
    /\ Entered(g, n) = 0 => tokens[n] = Nodes[n].name
    /\ Entered(g, n) = 1 => tokens[n] = FullName(n)

QualifiedInv == \E g \in [DOMAIN Nodes -> Nat] : Counts(g) /\ Qualified(g)

LEMMA QualifiedStep ==
  ASSUME TypeInv, WalkInv, QualifiedInv, [Next]_vars
  PROVE  QualifiedInv'
<1>1. StackInv /\ RestInv /\ program' = program
  BY StepMoves, Parts
<1>2. PICK g \in [DOMAIN Nodes -> Nat] : Counts(g) /\ Qualified(g)
  BY DEF QualifiedInv
<1>3. PICK h \in [DOMAIN Nodes -> Nat] : Counts(h)' /\ Follows(g, h)
  BY <1>2, CountStep
<1>4. Nodes' = Nodes /\ \A n : FullName(n)' = FullName(n)
  BY <1>1 DEF Nodes, FullName
<1>5. \A m \in DOMAIN Nodes : Entered(g, m) \in Nat
  BY DEF Entered
<1>6. CASE \E n \in DOMAIN Nodes : Enters(n) /\ Enter(n)
  <2>1. PICK n \in DOMAIN Nodes : Enters(n) /\ Enter(n)
    BY <1>6
  <2>2. \A m \in DOMAIN Nodes : Entered(h, m)' = Entered(g, m) + IF m = n THEN 1 ELSE 0
    BY <1>3, <2>1 DEF Follows
  <2>3. ASSUME NEW m \in DOMAIN Nodes, Nodes[m].kind = "method"
        PROVE  /\ Entered(h, m)' = 0 => tokens'[m] = Nodes[m].name
               /\ Entered(h, m)' = 1 => tokens'[m] = FullName(m)
    <3>1. /\ Entered(g, m) = 0 => tokens[m] = Nodes[m].name
          /\ Entered(g, m) = 1 => tokens[m] = FullName(m)
          /\ Entered(g, m) \in Nat
      BY <1>2, <1>5, <2>3 DEF Qualified
    <3>2. CASE m = n
      <4>1. Entered(h, m)' = Entered(g, m) + 1
        BY <2>2, <3>2
      <4>2. tokens'[m] = <<Nodes[m].on>> \o tokens[m]
        BY <1>1, <2>1, <2>3, <3>2 DEF Enter, RestInv, Nodes
      <4>3. Entered(h, m)' # 0 /\ (Entered(h, m)' = 1 => Entered(g, m) = 0)
        BY <3>1, <4>1
      <4> QED
        BY <2>3, <3>1, <4>2, <4>3 DEF FullName
    <3>3. CASE m # n
      <4>1. Entered(h, m)' = Entered(g, m)
        BY <2>2, <3>1, <3>3
      <4>2. tokens'[m] = tokens[m]
        BY <1>1, <2>1, <3>3 DEF Enter, RestInv, Nodes
      <4> QED
        BY <3>1, <4>1, <4>2
    <3> QED
      BY <3>2, <3>3
  <2>4. Qualified(h)'
    BY <1>4, <2>3 DEF Qualified
  <2> QED
    BY <1>3, <1>4, <2>4 DEF QualifiedInv
<1>7. CASE tokens' = tokens /\ Len(stack') <= Len(stack)
  <2>1. \A m \in DOMAIN Nodes : Entered(h, m)' = Entered(g, m)
    BY <1>3, <1>7 DEF Follows
  <2>2. Qualified(h)'
    BY <1>2, <1>4, <1>7, <2>1 DEF Qualified
  <2> QED
    BY <1>3, <1>4, <2>2 DEF QualifiedInv
<1> QED
  BY <1>6, <1>7, EntersOrNot

LEMMA QualifiedInitially == Init => QualifiedInv
<1> SUFFICES ASSUME Init PROVE QualifiedInv
  OBVIOUS
<1>1. PICK g \in [DOMAIN Nodes -> Nat] : Counts(g) /\ \A n \in DOMAIN Nodes : Entered(g, n) = 0
  BY CountInitially
<1>2. tokens = [n \in DOMAIN Nodes |-> Nodes[n].name]
  BY DEF Init, Nodes
<1>3. Qualified(g)
  BY <1>1, <1>2 DEF Qualified
<1> QED
  BY <1>1, <1>3 DEF QualifiedInv

\* A node below no call and no dereference is generated once.
LEMMA GeneratedOnce ==
  ASSUME program \in Programs, NEW n \in DOMAIN Nodes, \A m \in Above[n] : Nodes[m].kind \notin Doubled
  PROVE  Generations[n] = 1
<1> DEFINE Good == {x \in DOMAIN Nodes : (\A m \in Above[x] : Nodes[m].kind \notin Doubled) => Generations[x] = 1}
<1>1. ASSUME NEW k \in 1 .. Len(program.body) PROVE program.body[k] \in Good
  <2>1. program.body[k] \in DOMAIN Nodes /\ Parents(program.body[k]) = {}
    BY ProgramFacts, TreeFacts
  <2> QED
    BY <2>1, GenerationsIs
<1>2. ASSUME NEW m \in DOMAIN Nodes, NEW k \in 1 .. Len(Nodes[m].args), m \in Good
      PROVE  Nodes[m].args[k] \in Good
  <2>1. PICK c : c = Nodes[m].args[k]
    OBVIOUS
  <2>2. c \in DOMAIN Nodes /\ Parents(c) = {m}
    BY <2>1, ProgramFacts, TreeFacts
  <2>3. Above[c] = {m} \cup Above[m]
    BY <2>2, AboveIs
  <2>4. Generations[c] = Generations[m] * IF Nodes[m].kind \in Doubled THEN 2 ELSE 1
    BY <2>2, GenerationsIs
  <2>5. ASSUME \A x \in Above[c] : Nodes[x].kind \notin Doubled PROVE Generations[c] = 1
    <3>1. Generations[m] = 1 /\ Nodes[m].kind \notin Doubled
      BY <1>2, <2>3, <2>5
    <3> QED
      BY <2>4, <3>1
  <2> QED
    BY <2>1, <2>2, <2>5
<1>3. DOMAIN Nodes \subseteq Good
  <2> HIDE DEF Good
  <2> QED
    BY <1>1, <1>2, AllNodes
<1> QED
  BY <1>3

\* What a call is looked up by is its name, for a method the first time.
LEMMA RightName ==
  ASSUME TypeInv, WalkInv, ValueInv, QualifiedInv, stack # <<>>, Node.kind \in Calls,
         Node.kind = "method" => \A m \in Above[Top.node] : Nodes[m].kind \notin Doubled
  PROVE  tokens[Top.node] = FullName(Top.node)
<1>1. StackInv /\ RestInv /\ Rounds /\ program \in Programs
  BY Parts DEF WalkInv, RestInv
<1>2. PICK n : n = Top.node
  OBVIOUS
<1>3. n \in DOMAIN Nodes /\ Node = Nodes[n] /\ OnStack(n)
  <2>1. Top.node \in DOMAIN Nodes /\ Len(stack) \in 1 .. Len(stack)
    <3>1. Top.node \in DOMAIN Nodes /\ Len(stack) \in Nat \ {0}
      BY <1>1, TopFacts
    <3> QED
      BY <3>1
  <2> QED
    BY <1>2, <2>1 DEF OnStack, Node, Top
<1>4. CASE Node.kind = "method"
  <2>1. Generations[n] = 1
    BY <1>1, <1>2, <1>3, <1>4, GeneratedOnce
  <2>2. PICK g \in [DOMAIN Nodes -> Nat] : Counts(g) /\ Qualified(g)
    BY DEF QualifiedInv
  <2>3. Entered(g, n) <= 1
    BY <1>1, <1>3, <2>1, <2>2, EnteredAtMost
  <2>4. Entered(g, n) = g[n] + 1 /\ g[n] \in Nat
    BY <1>3 DEF Entered
  <2>5. Entered(g, n) = 1
    BY <2>3, <2>4
  <2> QED
    BY <1>2, <1>3, <1>4, <2>2, <2>5 DEF Qualified
<1>5. CASE Node.kind # "method"
  BY <1>2, <1>3, <1>5 DEF ValueInv, Named, FullName
<1> QED
  BY <1>4, <1>5

-----------------------------------------------------------------------------
(***************************************************************************)
(* A node with no call and no reference below it is of the same type every *)
(* time it is generated, if what is piped to it is.                        *)
(***************************************************************************)
Plain(a) == \A b \in DOMAIN Nodes : Within(b, a) => Nodes[b].kind \notin Calls /\ b \notin References

LEMMA PlainOperand ==
  ASSUME RestInv, NEW m \in DOMAIN Nodes, NEW q \in 1 .. Len(Nodes[m].args), Plain(m)
  PROVE  Plain(Nodes[m].args[q])
<1>1. ASSUME NEW b \in DOMAIN Nodes, Within(b, Nodes[m].args[q]) PROVE Within(b, m)
  <2>1. PICK c : c = Nodes[m].args[q]
    OBVIOUS
  <2>2. c \in {b} \cup Above[b]
    BY <1>1, <2>1 DEF Within
  <2>3. program \in Programs
    BY DEF RestInv
  <2>4. m \in Above[b]
    BY <2>1, <2>2, <2>3, AboveOperand
  <2> QED
    BY <2>4 DEF Within
<1> QED
  BY <1>1 DEF Plain

LEMMA PlainStays ==
  ASSUME program' = program, isRef \subseteq isRef'
  PROVE  Nodes' = Nodes /\ \A a : Plain(a)' => Plain(a)
<1>1. Nodes' = Nodes /\ \A n : Parents(n)' = Parents(n)
  BY DEF Nodes, Parents
<1>2. Above' = Above
  BY <1>1 DEF Above
<1>3. References \subseteq References'
  BY <1>1 DEF References
<1> QED
  BY <1>1, <1>2, <1>3 DEF Plain, Within

\* The open pipe that feeds the generator at k, and the type of what it feeds it.
Feeding(k) == {j \in 1 .. k - 1 : Innermost(j, k)}
PipedType(k) == IF Feeding(k) = {} THEN Void ELSE stack[CHOOSE j \in Feeding(k) : TRUE].values[1].type

LEMMA PipedAt ==
  ASSUME NEW k \in Nat
  PROVE  /\ (\A j \in 1 .. k - 1 : ~InRightSide(stack[j])) => PipedType(k) = Void
         /\ \A j \in 1 .. k - 1 : Innermost(j, k) => PipedType(k) = stack[j].values[1].type
<1>1. ASSUME NEW j \in 1 .. k - 1, Innermost(j, k) PROVE Feeding(k) = {j}
  <2>1. ASSUME NEW i \in Feeding(k) PROVE i = j
    <3>1. i \in 1 .. k - 1 /\ Innermost(i, k)
      BY <2>1 DEF Feeding
    <3>2. ~(i < j)
      <4>1. i < j => j \in i + 1 .. k - 1
        BY <1>1, <3>1
      <4> QED
        BY <1>1, <3>1, <4>1 DEF Innermost
    <3>3. ~(j < i)
      <4>1. j < i => i \in j + 1 .. k - 1
        BY <1>1, <3>1
      <4> QED
        BY <1>1, <3>1, <4>1 DEF Innermost
    <3> QED
      BY <1>1, <3>1, <3>2, <3>3
  <2> QED
    BY <1>1, <2>1 DEF Feeding
<1>2. ASSUME NEW j \in 1 .. k - 1, Innermost(j, k) PROVE PipedType(k) = stack[j].values[1].type
  <2>1. Feeding(k) = {j} /\ Feeding(k) # {} /\ (CHOOSE i \in Feeding(k) : TRUE) = j
    BY <1>1, <1>2
  <2> QED
    BY <2>1 DEF PipedType
<1>3. (\A j \in 1 .. k - 1 : ~InRightSide(stack[j])) => Feeding(k) = {}
  BY DEF Feeding, Innermost
<1> QED
  BY <1>2, <1>3 DEF PipedType

LEMMA PipedSame ==
  ASSUME program' = program, NEW CONSTANT k \in Nat, \A j \in 1 .. k - 1 : stack'[j] = stack[j]
  PROVE  PipedType(k)' = PipedType(k)
<1>1. \A j \in 1 .. k - 1 : InRightSide(stack[j])' = InRightSide(stack[j])
  BY DEF InRightSide, Nodes
<1>2. \A j \in 1 .. k - 1 : Innermost(j, k)' = Innermost(j, k)
  <2>1. \A j \in 1 .. k - 1 : \A i \in j + 1 .. k - 1 : i \in 1 .. k - 1
    OBVIOUS
  <2> QED
    BY <1>1, <2>1 DEF Innermost
<1>3. Feeding(k)' = Feeding(k)
  BY <1>2 DEF Feeding
<1>4. Feeding(k) # {} => (CHOOSE j \in Feeding(k) : TRUE) \in 1 .. k - 1
  BY DEF Feeding
<1> QED
  BY <1>3, <1>4 DEF PipedType

LEMMA PipedNext ==
  ASSUME StackInv, NEW k \in 1 .. Len(stack)
  PROVE  PipedType(k + 1) = IF InRightSide(stack[k]) THEN stack[k].values[1].type ELSE PipedType(k)
<1>1. k \in Nat /\ k + 1 \in Nat /\ Len(stack) \in Nat /\ (k + 1) - 1 = k /\ k \in 1 .. k
  BY DEF StackInv
<1>2. CASE InRightSide(stack[k])
  <2>1. k + 1 .. k = {}
    BY <1>1
  <2>2. Innermost(k, k + 1)
    BY <1>1, <1>2, <2>1 DEF Innermost
  <2> QED
    BY <1>1, <1>2, <2>2, PipedAt
<1>3. CASE ~InRightSide(stack[k])
  <2>1. CASE \A j \in 1 .. k - 1 : ~InRightSide(stack[j])
    <3>1. \A j \in 1 .. (k + 1) - 1 : ~InRightSide(stack[j])
      <4>1. \A j \in 1 .. k : j \in 1 .. k - 1 \/ j = k
        BY <1>1
      <4> QED
        BY <1>1, <1>3, <2>1, <4>1
    <3>2. PipedType(k + 1) = Void /\ PipedType(k) = Void
      BY <1>1, <2>1, <3>1, PipedAt
    <3> QED
      BY <1>3, <3>2
  <2>2. CASE ~\A j \in 1 .. k - 1 : ~InRightSide(stack[j])
    <3> DEFINE T == {d \in Nat : \E j \in 1 .. k - 1 : InRightSide(stack[j]) /\ d = k - j}
    <3>1. T # {} /\ T \in SUBSET Nat
      <4>1. PICK j \in 1 .. k - 1 : InRightSide(stack[j])
        BY <2>2
      <4>2. k - j \in T
        BY <1>1, <4>1
      <4> QED
        BY <4>2
    <3>2. PICK d \in T : \A x \in T : d <= x
      BY <3>1, LeastNat
    <3>3. PICK j \in 1 .. k - 1 : InRightSide(stack[j]) /\ d = k - j
      BY <3>2
    <3>4. \A i \in j + 1 .. k - 1 : ~InRightSide(stack[i])
      <4> SUFFICES ASSUME NEW i \in j + 1 .. k - 1, InRightSide(stack[i]) PROVE FALSE
        OBVIOUS
      <4>1. i \in 1 .. k - 1 /\ k - i \in Nat /\ k - i < k - j
        BY <1>1, <3>3
      <4>2. k - i \in T
        BY <4>1
      <4> QED
        BY <1>1, <3>2, <3>3, <4>1, <4>2
    <3>5. Innermost(j, k)
      BY <3>3, <3>4 DEF Innermost
    <3>6. \A i \in j + 1 .. k : ~InRightSide(stack[i])
      <4>1. \A i \in j + 1 .. k : i \in j + 1 .. k - 1 \/ i = k
        BY <1>1
      <4> QED
        BY <1>3, <3>4, <4>1
    <3>7. j \in 1 .. (k + 1) - 1 /\ Innermost(j, k + 1)
      BY <1>1, <3>3, <3>6 DEF Innermost
    <3>8. PipedType(k) = stack[j].values[1].type /\ PipedType(k + 1) = stack[j].values[1].type
      BY <1>1, <3>3, <3>5, <3>7, PipedAt
    <3> QED
      BY <1>3, <3>8
  <2> QED
    BY <2>1, <2>2
<1> QED
  BY <1>2, <1>3

LEMMA PipedNat ==
  ASSUME StackInv, RestInv, NEW k \in 1 .. Len(stack) + 1
  PROVE  PipedType(k) \in Nat
<1>1. Len(stack) \in Nat
  BY DEF StackInv
<1>2. CASE Feeding(k) = {}
  BY <1>2 DEF PipedType, Void
<1>3. CASE Feeding(k) # {}
  <2>1. PICK j : j = CHOOSE l \in Feeding(k) : TRUE
    OBVIOUS
  <2>2. j \in 1 .. k - 1 /\ InRightSide(stack[j])
    BY <1>3, <2>1 DEF Feeding, Innermost
  <2>3. j \in 1 .. Len(stack)
    BY <1>1, <2>2
  <2>4. stack[j] \in CallFrame /\ FrameOK(stack[j])
    BY <2>3, FrameFacts
  <2>5. Len(stack[j].values) = 1
    BY <2>2, <2>4 DEF InRightSide, FrameOK
  <2>6. stack[j].values \in Seq(LLVMValue)
    BY <2>4 DEF CallFrame
  <2>7. stack[j].values[1] \in LLVMValue
    BY <2>5, <2>6
  <2> QED
    BY <1>3, <2>1, <2>7 DEF PipedType, LLVMValue
<1> QED
  BY <1>2, <1>3

\* What a placeholder returns is what is piped to it.
LEMMA PipedTop ==
  ASSUME StackInv, RestInv, PipesAreNested, stack # <<>>, Node.kind = "placeholder"
  PROVE  /\ pipeOperationValue = <<>> => PipedType(Len(stack)) = Void
         /\ pipeOperationValue # <<>> =>
              /\ Last(pipeOperationValue).type = PipedType(Len(stack))
              /\ \E k \in 1 .. Len(stack) : /\ 1 \in 1 .. Len(stack[k].values)
                                            /\ Last(pipeOperationValue) = stack[k].values[1]
<1>1. Len(stack) \in Nat /\ Len(stack) \in 1 .. Len(stack)
  <2>1. Len(stack) \in Nat \ {0}
    BY TopFacts
  <2> QED
    BY <2>1
<1>2. CASE pipeOperationValue = <<>>
  <2>1. \A k \in 1 .. Len(stack) : ~InRightSide(stack[k])
    BY <1>2, NonePiped
  <2>2. \A k \in 1 .. Len(stack) - 1 : k \in 1 .. Len(stack)
    BY <1>1
  <2> QED
    BY <1>1, <1>2, <2>1, <2>2, PipedAt
<1>3. CASE pipeOperationValue # <<>>
  <2>1. PICK k \in 1 .. Len(stack) : /\ InRightSide(stack[k])
                                     /\ \A j \in k + 1 .. Len(stack) : ~InRightSide(stack[j])
                                     /\ 1 \in 1 .. Len(stack[k].values)
                                     /\ Last(pipeOperationValue) = stack[k].values[1]
    BY <1>3, LastPiped
  <2>2. k # Len(stack)
    BY <2>1 DEF InRightSide, Node, Top
  <2>3. k \in 1 .. Len(stack) - 1 /\ \A i \in k + 1 .. Len(stack) - 1 : i \in k + 1 .. Len(stack)
    BY <1>1, <2>2
  <2>4. Innermost(k, Len(stack))
    BY <2>1, <2>3 DEF Innermost
  <2> QED
    BY <1>1, <1>3, <2>1, <2>3, <2>4, PipedAt
<1> QED
  BY <1>2, <1>3

-----------------------------------------------------------------------------
\* The values of plain nodes have the types that t gives them, the second time a call is
\* generated its plain arguments have one.
PlainValues(t) ==
  \A k \in 1 .. Len(stack) : \A i \in 1 .. Len(stack[k].values) :
    LET a == Nodes[stack[k].node].args[i] IN
    Plain(a) => stack[k].values[i].type = t[a][PipedType(k)]

PlainReturned(t) ==
  \A k \in Nat : k = Len(stack) + 1 /\ stack # <<>> /\ returned # Waiting /\ Plain(NextArg) =>
    returned.type = t[NextArg][PipedType(k)]

PlainPassed(t) ==
  \A k \in 1 .. Len(stack) :
    LET n == stack[k].node IN
    Nodes[n].kind \in Calls /\ stack[k].round = 2 =>
      \A i \in 1 .. Len(Nodes[n].args) :
        Plain(Nodes[n].args[i]) => t[Nodes[n].args[i]][PipedType(k)] # Void

HalfUsed ==
  \/ \E m \in DOMAIN Nodes : Nodes[m].type = Half_Type
  \/ \E f \in ToSet(functionIDs) : f.returns = Half_Type

\* Nothing is a half if nothing was made one, and a variable has a value.
HalfInv ==
  /\ \A k \in 1 .. Len(stack) : \A i \in 1 .. Len(stack[k].values) :
       stack[k].values[i].type = Half_Type => HalfUsed
  /\ returned.type = Half_Type => HalfUsed

VariableHasValue == returned = Null /\ stack # <<>> => Nodes[NextArg].kind # "variable"

PlainInv(t) == PlainValues(t) /\ PlainReturned(t) /\ PlainPassed(t) /\ HalfInv /\ VariableHasValue

GivesPlain(t, v) ==
  /\ stack # <<>> /\ v \in LLVMValue /\ Popped(v)
  /\ UNCHANGED isRef
  /\ Plain(Top.node) => v.type = t[Top.node][PipedType(Len(stack))]
  /\ v.type = Half_Type => HalfUsed
  /\ v = Null => Node.kind # "variable"

LEMMA TypeAt ==
  ASSUME RestInv, NEW t, TypedFrom(t, 1), NEW n \in DOMAIN Nodes, NEW p \in Nat
  PROVE  t[n][p] = IF Nodes[n].kind = "pipe" THEN t[Nodes[n].args[2]][t[Nodes[n].args[1]][p]]
                   ELSE TypeFrom(n, GivenTypes(t, n, p), p)
<1>1. DOMAIN Nodes = 1 .. Len(Nodes)
  BY ProgramFacts DEF RestInv
<1>2. t[n] = TypeMap(t, n)
  BY <1>1 DEF TypedFrom
<1> QED
  BY <1>2, TypeMapAt

LEMMA TopIs ==
  ASSUME StackInv, RestInv, stack # <<>>
  PROVE  /\ Top.node \in DOMAIN Nodes /\ Node = Nodes[Top.node] /\ Node \in ASTNode
         /\ Top.node \in Nat /\ Top.node # 0
         /\ Len(stack) \in Nat \ {0} /\ Len(stack) \in 1 .. Len(stack) /\ Top = stack[Len(stack)]
         /\ Len(stack) \in 1 .. Len(stack) + 1 /\ Len(stack) + 1 \in 1 .. Len(stack) + 1
         /\ PipedType(Len(stack)) \in Nat
<1>1. Len(stack) \in Nat \ {0} /\ Top.node \in DOMAIN Nodes /\ Node \in ASTNode /\ Top.node \in Nat
  BY TopFacts
<1>2. Len(stack) \in 1 .. Len(stack) + 1 /\ Len(stack) \in 1 .. Len(stack)
  BY <1>1
<1>3. DOMAIN Nodes = 1 .. Len(Nodes)
  BY ProgramFacts DEF RestInv
<1>4. Top.node # 0
  BY <1>1, <1>3
<1> QED
  BY <1>1, <1>2, <1>4, PipedNat DEF Node, Top

LEMMA ReturnedIs ==
  ASSUME StackInv, NEW t, PlainReturned(t), stack # <<>>, returned # Waiting, Plain(NextArg)
  PROVE  returned.type = t[NextArg][PipedType(Len(stack) + 1)]
<1>1. PICK k : k = Len(stack) + 1
  OBVIOUS
<1>2. k \in Nat
  BY <1>1 DEF StackInv
<1> QED
  BY <1>1, <1>2 DEF PlainReturned

LEMMA LeafPlain ==
  ASSUME StackInv, RestInv, PipesAreNested, NEW t, TypedFrom(t, 1), PlainInv(t), Leaf
  PROVE  \E v : GivesPlain(t, v)
<1>1. stack # <<>> /\ Node.kind \in Leaves /\ UNCHANGED isRef
  BY DEF Leaf, At, Generating
<1>2. PICK n, p : n = Top.node /\ p = PipedType(Len(stack))
  OBVIOUS
<1>3. n \in DOMAIN Nodes /\ Node = Nodes[n] /\ n \in Nat /\ n # 0 /\ Node \in ASTNode /\ p \in Nat
  BY <1>1, <1>2, TopIs
<1>4. t[n][p] = TypeFrom(n, GivenTypes(t, n, p), p)
  BY <1>1, <1>3, TypeAt DEF Leaves
<1>5. /\ Node.kind \in {"constant", "variable"} => t[n][p] = Node.type
      /\ Node.kind = "placeholder" => t[n][p] = p
  BY <1>3, <1>4 DEF TypeFrom, Calls
<1>6. Node.type \in Nat /\ Identifier_Node \in Nat /\ Identifier_Node # Half_Type
  BY <1>3, TypesAreNumbers DEF ASTNode, Identifier_Node, Half_Type
<1>7. ASSUME NEW x \in Nat, Return(Value(n, 0, x)), Plain(n) => x = t[n][p], x = Half_Type => HalfUsed
      PROVE  \E v : GivesPlain(t, v)
  <2>1. PICK v : v = Value(n, 0, x)
    OBVIOUS
  <2>2. v \in LLVMValue /\ v.type = x
    BY <1>3, <1>7, <2>1, ValueType DEF Value
  <2>3. v # Null
    BY <1>3, <2>1 DEF Null, Value
  <2>4. GivesPlain(t, v)
    BY <1>1, <1>2, <1>7, <2>1, <2>2, <2>3 DEF GivesPlain, Return, Popped
  <2> QED
    BY <2>4
<1>8. CASE Node.kind = "constant"
  <2>1. Return(Value(n, 0, Node.type))
    BY <1>2, <1>8 DEF Leaf
  <2>2. Node.type = Half_Type => HalfUsed
    BY <1>3 DEF HalfUsed
  <2> QED
    BY <1>5, <1>6, <1>7, <1>8, <2>1, <2>2
<1>9. CASE Node.kind = "variable"
  <2>1. Return(Value(n, 0, VariableType))
    BY <1>2, <1>9 DEF Leaf
  <2>2. VariableType \in Nat /\ (VariableType = Half_Type => HalfUsed)
    BY <1>3, <1>6 DEF VariableType, HalfUsed
  <2>3. Plain(n) => n \notin isRef
    BY <1>3, <1>9 DEF Plain, Within, References
  <2>4. Plain(n) => VariableType = t[n][p]
    BY <1>2, <1>5, <1>9, <2>3 DEF VariableType
  <2> QED
    BY <1>7, <2>1, <2>2, <2>4
<1>10. CASE Node.kind = "placeholder"
  <2>1. Return(IF pipeOperationValue = <<>> THEN Null ELSE Last(pipeOperationValue))
    BY <1>10 DEF Leaf
  <2>2. ASSUME NEW v \in LLVMValue, Return(v), v.type = p, v.type = Half_Type => HalfUsed
        PROVE  \E w : GivesPlain(t, w)
    <3>1. GivesPlain(t, v)
      BY <1>1, <1>2, <1>5, <1>10, <2>2 DEF GivesPlain, Return, Popped
    <3> QED
      BY <3>1
  <2>3. CASE pipeOperationValue = <<>>
    <3>1. p = Void
      BY <1>1, <1>2, <1>10, <2>3, PipedTop
    <3>2. Null \in LLVMValue /\ Null.type = Void /\ Void # Half_Type
      BY NullType DEF Null, Value, Void, Half_Type
    <3> QED
      BY <2>1, <2>2, <2>3, <3>1, <3>2
  <2>4. CASE pipeOperationValue # <<>>
    <3>1. /\ Last(pipeOperationValue).type = p
          /\ \E k \in 1 .. Len(stack) : /\ 1 \in 1 .. Len(stack[k].values)
                                        /\ Last(pipeOperationValue) = stack[k].values[1]
      BY <1>1, <1>2, <1>10, <2>4, PipedTop
    <3>2. PICK k \in 1 .. Len(stack) : /\ 1 \in 1 .. Len(stack[k].values)
                                       /\ Last(pipeOperationValue) = stack[k].values[1]
      BY <3>1
    <3>3. stack[k].values[1] \in LLVMValue
      BY <3>2, FrameFacts DEF CallFrame
    <3>4. stack[k].values[1].type = Half_Type => HalfUsed
      BY <3>2 DEF PlainInv, HalfInv
    <3> QED
      BY <2>1, <2>2, <2>4, <3>1, <3>2, <3>3, <3>4
  <2> QED
    BY <2>3, <2>4
<1> QED
  BY <1>1, <1>8, <1>9, <1>10 DEF Leaves

\* A call is not plain.
LEMMA CallPlain ==
  ASSUME StackInv, RestInv, NEW t,
         ArgumentLost \/ UndefinedFunction \/ IncorrectNumber \/ NotAReference \/ CreateCall
  PROVE  \E v : GivesPlain(t, v)
<1>1. /\ stack # <<>> /\ Node.kind \in Calls /\ UNCHANGED isRef
  BY DEF ArgumentLost, UndefinedFunction, IncorrectNumber, NotAReference, CreateCall, LookedUp,
         NotComplete, At, Got, Generating
<1>2. Top.node \in DOMAIN Nodes /\ Node = Nodes[Top.node]
  BY <1>1, TopIs
<1>3. ~Plain(Top.node) /\ Node.kind # "variable"
  BY <1>1, <1>2 DEF Plain, Within, Calls
<1>4. CASE ArgumentLost \/ UndefinedFunction \/ IncorrectNumber \/ NotAReference
  <2>1. Return(Null)
    BY <1>4 DEF ArgumentLost, UndefinedFunction, IncorrectNumber, NotAReference
  <2>2. Null \in LLVMValue /\ Null.type # Half_Type
    BY NullType DEF Null, Value, Void, Half_Type
  <2>3. GivesPlain(t, Null)
    BY <1>1, <1>3, <2>1, <2>2 DEF GivesPlain, Return, Popped
  <2> QED
    BY <2>3
<1>5. CASE CreateCall
  <2>1. PICK f, x : f = functionIDs[Top.callee] /\ x = ResultType(f)
    OBVIOUS
  <2>2. Return(Result(x)) /\ Top.round = 2
    BY <1>5, <2>1 DEF CreateCall
  <2>3. Top.callee \in 1 .. Len(functionIDs)
    <3>1. Top.callee \in 0 .. Len(functionIDs) /\ FrameOK(Top) /\ Len(functionIDs) \in Nat
      BY <1>1, TopFacts, SizeFacts
    <3>2. Top.callee # 0
      BY <1>1, <2>2, <3>1 DEF FrameOK, Node
    <3> QED
      BY <3>1, <3>2
  <2>4. x \in Nat
    BY <2>1, <2>3, ReturnType
  <2>5. x = Half_Type => HalfUsed
    <3>1. f \in ToSet(functionIDs)
      BY <2>1, <2>3 DEF RestInv, ToSet
    <3> QED
      BY <2>1, <3>1 DEF ResultType, HalfUsed, Identifier_Node, Half_Type, Void
  <2>6. PICK v : v = Result(x)
    OBVIOUS
  <2>7. v \in LLVMValue /\ v.type = x
    BY <1>1, <2>4, <2>6, ResultFields
  <2>8. GivesPlain(t, v)
    BY <1>1, <1>3, <2>2, <2>5, <2>6, <2>7 DEF GivesPlain, Return, Popped
  <2> QED
    BY <2>8
<1> QED
  BY <1>4, <1>5

LEMMA PipePlain ==
  ASSUME StackInv, RestInv, NEW t, TypedFrom(t, 1), PlainInv(t), PipeRight
  PROVE  \E v : GivesPlain(t, v)
<1>1. /\ stack # <<>> /\ returned # Waiting /\ Node.kind = "pipe" /\ Top.i = 1
      /\ Return(returned) /\ UNCHANGED isRef
  BY DEF PipeRight, Got, Generating
<1>2. PICK n, p : n = Top.node /\ p = PipedType(Len(stack))
  OBVIOUS
<1>3. /\ n \in DOMAIN Nodes /\ Node = Nodes[n] /\ p \in Nat /\ Len(stack) \in 1 .. Len(stack)
      /\ Top = stack[Len(stack)]
  BY <1>1, <1>2, TopIs
<1>4. Len(Nodes[n].args) = 2 /\ 1 \in 1 .. Len(Nodes[n].args) /\ 2 \in 1 .. Len(Nodes[n].args)
  <2>1. Len(Nodes[n].args) = 2
    BY <1>1, <1>3, ProgramFacts DEF RestInv
  <2> QED
    BY <2>1
<1>5. NextArg = Nodes[n].args[2]
  BY <1>1, <1>2, <1>3 DEF NextArg
<1>6. Len(Top.values) = 1
  <2>1. FrameOK(Top)
    BY <1>1, TopFacts
  <2> QED
    BY <1>1, <1>2, <1>3, <2>1 DEF FrameOK
<1>7. PipedType(Len(stack) + 1) = Top.values[1].type
  BY <1>1, <1>2, <1>3, PipedNext DEF InRightSide
<1>8. Plain(n) => Top.values[1].type = t[Nodes[n].args[1]][p]
  <2>1. Plain(n) => Plain(Nodes[n].args[1])
    BY <1>3, <1>4, PlainOperand
  <2>2. 1 \in 1 .. Len(stack[Len(stack)].values)
    BY <1>3, <1>6
  <2> QED
    BY <1>2, <1>3, <2>1, <2>2 DEF PlainInv, PlainValues
<1>9. Plain(n) => returned.type = t[Nodes[n].args[2]][t[Nodes[n].args[1]][p]]
  <2>1. Plain(n) => Plain(Nodes[n].args[2])
    BY <1>3, <1>4, PlainOperand
  <2> QED
    BY <1>1, <1>5, <1>7, <1>8, <2>1, ReturnedIs DEF PlainInv
<1>10. t[n][p] = t[Nodes[n].args[2]][t[Nodes[n].args[1]][p]]
  BY <1>1, <1>3, TypeAt
<1>11. returned \in LLVMValue /\ (returned.type = Half_Type => HalfUsed)
  <2>1. returned \in LLVMValue
    BY <1>1 DEF StackInv
  <2>2. HalfInv
    BY DEF PlainInv
  <2>3. returned.type = Half_Type => HalfUsed
    BY <2>2 DEF HalfInv
  <2> QED
    BY <2>1, <2>3
<1>12. GivesPlain(t, returned)
  BY <1>1, <1>2, <1>9, <1>10, <1>11 DEF GivesPlain, Return, Popped
<1> QED
  BY <1>12

LEMMA OperationPlain ==
  ASSUME StackInv, RestInv, ValueInv, NEW t, TypedFrom(t, 1), PlainInv(t), Operation
  PROVE  UNCHANGED <<stack, returned, isRef>> \/ \E v : GivesPlain(t, v)
<1> DEFINE n == Top.node
           L == Top.values[1]
           R == Top.values[2]
           p == PipedType(Len(stack))
<1>1. /\ stack # <<>> /\ returned = Waiting /\ Node.kind = "operator" /\ Complete /\ UNCHANGED isRef
  BY DEF Operation, At, Generating
<1>2. /\ n \in DOMAIN Nodes /\ Node = Nodes[n] /\ Len(Node.args) = 2 /\ FrameOK(Top)
      /\ Top.values \in Seq(LLVMValue) /\ n # 0
      /\ Len(stack) \in 1 .. Len(stack) /\ n \in Nat /\ p \in Nat /\ Top = stack[Len(stack)]
  <2>1. /\ FrameOK(Top) /\ Top.values \in Seq(LLVMValue)
    BY <1>1, TopFacts
  <2>2. Top.node \in DOMAIN Nodes /\ Node = Nodes[Top.node]
    BY <1>1, TopIs
  <2>3. Len(Nodes[n].args) = 2
    BY <1>1, <2>2, ProgramFacts DEF RestInv
  <2> QED
    BY <1>1, <2>1, <2>3, TopIs
<1>3. Len(Top.values) = 2
  BY <1>1, <1>2 DEF FrameOK, Complete
<1>4. ASSUME NEW i \in {1, 2}
      PROVE  /\ Top.values[i] \in LLVMValue /\ Top.values[i].type \in Nat
             /\ Top.values[i] = Null <=> Top.values[i].type = Void
             /\ Plain(n) => Top.values[i].type = GivenTypes(t, n, p)[i]
             /\ Top.values[i].type = Half_Type => HalfUsed
  <2>1. i \in 1 .. Len(stack[Len(stack)].values) /\ i \in 1 .. Len(Nodes[n].args)
    BY <1>2, <1>3
  <2>2. Top.values[i] \in LLVMValue
    BY <1>2, <1>3
  <2>3. Top.values[i].type = Void => Top.values[i] = Null
    BY <1>2, <2>1 DEF ValueInv, NullHasNoType
  <2>4. Plain(n) => Plain(Nodes[n].args[i])
    BY <1>2, <2>1, PlainOperand
  <2>5. Plain(n) => Top.values[i].type = t[Nodes[n].args[i]][p]
    BY <1>2, <2>1, <2>4 DEF PlainInv, PlainValues
  <2>6. GivenTypes(t, n, p)[i] = t[Nodes[n].args[i]][p]
    BY <2>1 DEF GivenTypes
  <2>7. Top.values[i].type = Half_Type => HalfUsed
    BY <1>2, <2>1 DEF PlainInv, HalfInv
  <2> QED
    BY <2>2, <2>3, <2>5, <2>6, <2>7 DEF Null, Value, LLVMValue
<1>5. t[n][p] = OperatorType(n, GivenTypes(t, n, p)[1], GivenTypes(t, n, p)[2])
  <2>1. t[n][p] = TypeFrom(n, GivenTypes(t, n, p), p)
    BY <1>1, <1>2, TypeAt
  <2> QED
    BY <1>1, <1>2, <2>1 DEF TypeFrom, Calls
<1>6. Plain(n) => t[n][p] = OperatorType(n, L.type, R.type)
  BY <1>4, <1>5
<1>7. Overload = GetNamedFunctionFromID(functionIDs, Nodes[n].name)
  BY <1>2 DEF Overload
<1>8. Node.kind # "variable"
  BY <1>1
<1> HIDE DEF L, R, p
<1>9. /\ L = Null <=> L.type = Void
      /\ R = Null <=> R.type = Void
      /\ L.type \in Nat /\ R.type \in Nat
  BY <1>4 DEF L, R
<1>10. ASSUME NEW v \in LLVMValue, Return(v), v.type = OperatorType(n, L.type, R.type),
              v.type = Half_Type => HalfUsed
       PROVE  \E w : GivesPlain(t, w)
  <2>1. Plain(n) => v.type = t[n][p]
    BY <1>6, <1>10
  <2>2. GivesPlain(t, v)
    BY <1>1, <1>8, <1>10, <2>1 DEF GivesPlain, Return, Popped, p
  <2> QED
    BY <2>2
<1>11. Null \in LLVMValue /\ Null.type = Void /\ Void # Half_Type
  BY NullType DEF Null, Value, Void, Half_Type
<1>12. CASE Null \in {L, R} /\ Return(Null)
  <2>1. Void \in {L.type, R.type}
    BY <1>9, <1>12
  <2>2. OperatorType(n, L.type, R.type) = Void
    BY <1>7, <2>1, OperatorTypeIs
  <2> QED
    BY <1>10, <1>11, <1>12, <2>2
<1>13. CASE /\ Null \notin {L, R} /\ Overload # 0
            /\ Return(Result(IF functionIDs[Overload].returns = Void THEN Identifier_Node
                             ELSE functionIDs[Overload].returns))
  <2> DEFINE x == IF functionIDs[Overload].returns = Void THEN Identifier_Node
                  ELSE functionIDs[Overload].returns
  <2>1. Void \notin {L.type, R.type}
    BY <1>9, <1>13
  <2>2. OperatorType(n, L.type, R.type) = x
    BY <1>7, <1>13, <2>1, OperatorTypeIs
  <2>3. Overload \in 1 .. Len(functionIDs)
    <3>1. Overload \in 0 .. Len(functionIDs) /\ Len(functionIDs) \in Nat
      BY Lookups, SizeFacts
    <3> QED
      BY <1>13, <3>1
  <2>4. x \in Nat
    <3>1. functionIDs[Overload].returns \in Nat
      BY <2>3, ReturnType
    <3> QED
      BY <3>1 DEF Identifier_Node
  <2>5. x = Half_Type => HalfUsed
    <3>1. functionIDs[Overload] \in ToSet(functionIDs)
      BY <2>3 DEF RestInv, ToSet
    <3> QED
      BY <3>1 DEF HalfUsed, Identifier_Node, Half_Type
  <2>6. Return(Result(x))
    BY <1>13
  <2> HIDE DEF x
  <2>7. Result(x) \in LLVMValue /\ Result(x).type = x
    BY <1>1, <2>4, ResultFields
  <2> QED
    BY <1>10, <2>2, <2>5, <2>6, <2>7
<1>14. CASE UNCHANGED <<stack, returned>>
  BY <1>1, <1>14
<1>15. CASE /\ Null \notin {L, R} /\ Overload = 0
            /\ Return(IF Computes(L.type, R.type) THEN Value(n, 0, Lower(L.type, R.type)) ELSE Null)
  <2>1. Void \notin {L.type, R.type}
    BY <1>9, <1>15
  <2>2. OperatorType(n, L.type, R.type)
          = IF Computes(L.type, R.type) THEN Lower(L.type, R.type) ELSE Void
    <3>1. PICK l, r, f : l = L.type /\ r = R.type /\ f = Overload
      OBVIOUS
    <3>2. Void \notin {l, r} /\ f = 0 /\ f = GetNamedFunctionFromID(functionIDs, Nodes[n].name)
      BY <1>7, <1>15, <2>1, <3>1
    <3>3. OperatorType(n, l, r) = IF Computes(l, r) THEN Lower(l, r) ELSE Void
      BY <3>2, OperatorTypeIs
    <3> QED
      BY <3>1, <3>3
  <2>3. CASE Computes(L.type, R.type)
    <3> DEFINE x == Lower(L.type, R.type)
               v == Value(n, 0, x)
    <3>1. x \in Nat /\ x # Half_Type
      BY <1>9, <2>3 DEF Lower, Computes
    <3> HIDE DEF x
    <3>2. v \in LLVMValue /\ v.type = x
      BY <1>2, <3>1, ValueType DEF Value
    <3>3. Return(v) /\ x = OperatorType(n, L.type, R.type)
      BY <1>15, <2>2, <2>3 DEF x
    <3> HIDE DEF v
    <3> QED
      BY <1>10, <3>1, <3>2, <3>3
  <2>4. CASE ~Computes(L.type, R.type)
    BY <1>10, <1>11, <1>15, <2>2, <2>4
  <2> QED
    BY <2>3, <2>4
<1> QED
  BY <1>12, <1>13, <1>14, <1>15 DEF Operation, L, R

LEMMA DereferencePlain ==
  ASSUME StackInv, RestInv, Rounds, ValueInv, NEW t, TypedFrom(t, 1), PlainInv(t), Dereference
  PROVE  \/ \E v : GivesPlain(t, v)
         \/ \E u : /\ stack # <<>> /\ Node.kind = "dereference" /\ Changed(u)
                   /\ u.node = Top.node /\ u.values = Top.values /\ u.i = Top.i /\ UNCHANGED isRef
<1>1. /\ stack # <<>> /\ returned # Waiting /\ Node.kind = "dereference" /\ UNCHANGED isRef
  BY DEF Dereference, Got, Generating
<1>2. PICK n, p : n = Top.node /\ p = PipedType(Len(stack))
  OBVIOUS
<1>3. /\ n \in DOMAIN Nodes /\ Node = Nodes[n] /\ n \in Nat /\ n # 0 /\ p \in Nat
      /\ Len(stack) \in 1 .. Len(stack) /\ Top = stack[Len(stack)]
  BY <1>1, <1>2, TopIs
<1>4. Top.i < Len(Node.args) /\ Top \in CallFrame
  BY <1>1, TopFacts
<1>5. Top.i = 0
  BY <1>1, <1>2, <1>3 DEF Rounds
<1>6. NextArg = Nodes[n].args[1] /\ 1 \in 1 .. Len(Nodes[n].args)
  BY <1>1, <1>2, <1>4, <1>5, OperandIs
<1>7. Plain(n) => returned.type = t[NextArg][p]
  <2>1. PipedType(Len(stack) + 1) = p
    BY <1>1, <1>2, <1>3, PipedNext DEF InRightSide
  <2>2. Plain(n) => Plain(NextArg)
    BY <1>3, <1>6, PlainOperand
  <2> QED
    BY <1>1, <2>1, <2>2, ReturnedIs DEF PlainInv
<1>8. t[n][p] = IF t[NextArg][p] = Void THEN Void ELSE SInt32_Type
  <2>1. PICK types : types = GivenTypes(t, n, p)
    OBVIOUS
  <2>2. types[1] = t[NextArg][p]
    BY <1>6, <2>1 DEF GivenTypes
  <2>3. t[n][p] = TypeFrom(n, types, p)
    BY <1>1, <1>3, <2>1, TypeAt
  <2>4. TypeFrom(n, types, p) = IF types[1] = Void THEN Void ELSE SInt32_Type
    BY <1>1, <1>3 DEF TypeFrom, Calls
  <2> QED
    BY <2>2, <2>3, <2>4
<1>9. returned.type = Void <=> returned = Null
  BY DEF ValueInv, NullHasNoType, Null, Value
<1>10. ASSUME NEW v \in LLVMValue, Return(v), Plain(n) => v.type = t[n][p], v.type # Half_Type
       PROVE  \E w : GivesPlain(t, w)
  <2>1. GivesPlain(t, v)
    BY <1>1, <1>2, <1>10 DEF GivesPlain, Return, Popped
  <2> QED
    BY <2>1
<1>11. Null \in LLVMValue /\ Null.type = Void /\ Void # Half_Type /\ SInt32_Type # Half_Type /\ SInt32_Type \in Nat
  BY NullType DEF Null, Value, Void, Half_Type, SInt32_Type
<1>12. CASE returned = Null /\ Return(Null)
  BY <1>7, <1>8, <1>9, <1>10, <1>11, <1>12
<1>13. CASE returned' = Waiting /\ stack' = [stack EXCEPT ![Len(stack)].round = 2]
  <2> DEFINE u == [Top EXCEPT !.round = 2]
  <2>1. u.node = Top.node /\ u.values = Top.values /\ u.i = Top.i
    BY <1>4 DEF CallFrame
  <2>2. Changed(u)
    BY <1>13 DEF Changed, Top
  <2> HIDE DEF u
  <2> QED
    BY <1>1, <2>1, <2>2
<1>14. CASE returned # Null /\ Return(Value(n, 0, SInt32_Type))
  <2>1. PICK v : v = Value(n, 0, SInt32_Type)
    OBVIOUS
  <2>2. v \in LLVMValue /\ v.type = SInt32_Type
    BY <1>3, <1>11, <2>1, ValueType DEF Value
  <2> QED
    BY <1>7, <1>8, <1>9, <1>10, <1>11, <1>14, <2>1, <2>2
<1> QED
  BY <1>2, <1>12, <1>13, <1>14 DEF Dereference
-----------------------------------------------------------------------------
LEMMA PlainFacts ==
  ASSUME Steady
  PROVE  /\ Nodes' = Nodes /\ HalfUsed' = HalfUsed
         /\ \A a : Plain(a)' => Plain(a)
         /\ Waiting.type # Half_Type /\ Waiting # Null
<1>1. Nodes' = Nodes /\ \A a : Plain(a)' => Plain(a)
  BY PlainStays DEF Steady
<1>2. HalfUsed' = HalfUsed
  BY <1>1 DEF HalfUsed, Steady
<1> QED
  BY <1>1, <1>2 DEF Waiting, Null, Value, Half_Type, Void

LEMMA EnterPlain ==
  ASSUME StackInv, RestInv, NEW CONSTANT t, PlainInv(t), Steady, NEW n \in DOMAIN Nodes, Enters(n)
  PROVE  PlainInv(t)'
<1>1. /\ Len(stack) \in Nat /\ Len(stack') = Len(stack) + 1
      /\ \A k \in 1 .. Len(stack) : stack'[k] = stack[k] /\ k \in 1 .. Len(stack')
      /\ stack'[Len(stack) + 1] = Frame(n)
      /\ \A k \in 1 .. Len(stack') : k \in 1 .. Len(stack) \/ k = Len(stack) + 1
      /\ stack' # <<>> /\ returned' = Waiting
  BY EnterStack
<1>2. Frame(n).round = 1 /\ Frame(n).values = <<>>
  BY DEF Frame
<1>3. /\ Nodes' = Nodes /\ HalfUsed' = HalfUsed /\ \A a : Plain(a)' => Plain(a)
      /\ Waiting.type # Half_Type /\ Waiting # Null
  BY PlainFacts
<1>4. ASSUME NEW CONSTANT k \in 1 .. Len(stack) PROVE PipedType(k)' = PipedType(k)
  <2>1. k \in Nat /\ \A j \in 1 .. k - 1 : stack'[j] = stack[j]
    BY <1>1
  <2> QED
    BY <2>1, PipedSame DEF Steady
<1>5. PlainValues(t)'
  <2>1. ASSUME NEW CONSTANT k \in 1 .. Len(stack'), NEW CONSTANT i \in 1 .. Len(stack'[k].values)
        PROVE  k \in 1 .. Len(stack) /\ stack'[k] = stack[k]
    BY <1>1, <1>2
  <2>2. ASSUME NEW CONSTANT k \in 1 .. Len(stack'), NEW CONSTANT i \in 1 .. Len(stack'[k].values),
               Plain(Nodes[stack'[k].node].args[i])
        PROVE  stack'[k].values[i].type = t[Nodes[stack'[k].node].args[i]][PipedType(k)']
    <3>1. PipedType(k)' = PipedType(k)
      BY <1>4, <2>1
    <3>2. stack[k].values[i].type = t[Nodes[stack[k].node].args[i]][PipedType(k)]
      BY <2>1, <2>2 DEF PlainInv, PlainValues
    <3> QED
      BY <1>3, <2>1, <3>1, <3>2
  <2> QED
    BY <1>3, <1>4, <2>2 DEF PlainValues
<1>6. PlainReturned(t)'
  BY <1>1 DEF PlainReturned
<1>7. PlainPassed(t)'
  <2>1. ASSUME NEW CONSTANT k \in 1 .. Len(stack'), stack'[k].round = 2
        PROVE  k \in 1 .. Len(stack) /\ stack'[k] = stack[k]
    BY <1>1, <1>2, <2>1
  <2>2. ASSUME NEW CONSTANT k \in 1 .. Len(stack'), Nodes[stack'[k].node].kind \in Calls,
               stack'[k].round = 2, NEW CONSTANT i \in 1 .. Len(Nodes[stack'[k].node].args),
               Plain(Nodes[stack'[k].node].args[i])
        PROVE  t[Nodes[stack'[k].node].args[i]][PipedType(k)'] # Void
    <3>1. k \in 1 .. Len(stack) /\ stack'[k] = stack[k] /\ PipedType(k)' = PipedType(k)
      BY <1>4, <2>1, <2>2
    <3> QED
      BY <2>2, <3>1 DEF PlainInv, PlainPassed
  <2> QED
    BY <1>3, <2>2 DEF PlainPassed
<1>8. HalfInv'
  <2>1. \A k \in 1 .. Len(stack') : \A i \in 1 .. Len(stack'[k].values) : k \in 1 .. Len(stack)
    BY <1>1, <1>2
  <2> QED
    BY <1>1, <1>3, <2>1 DEF PlainInv, HalfInv
<1>9. VariableHasValue'
  BY <1>1, <1>3 DEF VariableHasValue
<1> QED
  BY <1>5, <1>6, <1>7, <1>8, <1>9 DEF PlainInv

LEMMA ReceivePlain ==
  ASSUME StackInv, RestInv, NEW CONSTANT t, PlainInv(t), Steady, Receives, ~InRightSide(Top)
  PROVE  PlainInv(t)'
<1> DEFINE u == Received
<1>1. /\ Received.node = Top.node /\ Received.round = Top.round
      /\ Received.values = Append(Top.values, returned)
  BY ReceivedFields DEF Receives
<1>2. /\ stack # <<>> /\ returned # Waiting /\ Changed(u) /\ Node.kind # "dereference"
  BY DEF Receives
<1>3. /\ Top.values \in Seq(LLVMValue) /\ Top.i \in Nat /\ Len(Top.values) = Top.i
      /\ returned \in LLVMValue /\ Top.node \in DOMAIN Nodes
  <2>1. /\ Top.values \in Seq(LLVMValue) /\ Top.i \in 0 .. Len(Node.args) /\ FrameOK(Top)
        /\ Top.node \in DOMAIN Nodes
    BY <1>2, TopFacts
  <2>2. Len(Node.args) \in Nat
    BY <1>2, TopFacts
  <2>3. returned \in LLVMValue
    BY <1>2 DEF StackInv
  <2> QED
    BY <1>2, <2>1, <2>2, <2>3 DEF FrameOK, Node
<1>4. /\ \A i \in 1 .. Top.i : u.values[i] = Top.values[i] /\ i \in 1 .. Len(Top.values)
      /\ u.values[Top.i + 1] = returned
      /\ \A i \in 1 .. Len(u.values) : i \in 1 .. Top.i \/ i = Top.i + 1
  BY <1>1, <1>3
<1> HIDE DEF u
<1>5. /\ Len(stack) \in Nat \ {0} /\ Len(stack') = Len(stack)
      /\ \A k \in 1 .. Len(stack) : stack'[k] = IF k = Len(stack) THEN u ELSE stack[k]
      /\ stack' # <<>> /\ returned' = Waiting
  BY <1>2, ChangedStack
<1>6. Len(stack) \in 1 .. Len(stack) /\ Top = stack[Len(stack)]
  BY <1>5 DEF Top
<1>7. /\ Nodes' = Nodes /\ HalfUsed' = HalfUsed /\ \A a : Plain(a)' => Plain(a)
      /\ Waiting.type # Half_Type /\ Waiting # Null
  BY PlainFacts
<1>8. u.node = Top.node /\ u.round = Top.round
  BY <1>1 DEF u
<1>9. ASSUME NEW CONSTANT k \in 1 .. Len(stack) PROVE PipedType(k)' = PipedType(k)
  <2>1. k \in Nat /\ \A j \in 1 .. k - 1 : stack'[j] = stack[j]
    BY <1>5
  <2> QED
    BY <2>1, PipedSame DEF Steady
<1>10. PipedType(Len(stack) + 1) = PipedType(Len(stack))
  BY <1>6, PipedNext
<1>11. ASSUME NEW CONSTANT k \in 1 .. Len(stack), NEW CONSTANT i \in 1 .. Len(stack'[k].values)
       PROVE  /\ Plain(Nodes[stack'[k].node].args[i]) =>
                   stack'[k].values[i].type = t[Nodes[stack'[k].node].args[i]][PipedType(k)]
              /\ stack'[k].values[i].type = Half_Type => HalfUsed
  <2>1. CASE k # Len(stack)
    BY <1>5, <1>11, <2>1 DEF PlainInv, PlainValues, HalfInv
  <2>2. CASE k = Len(stack)
    <3>1. stack'[k] = u
      BY <1>5, <2>2
    <3>2. CASE i \in 1 .. Top.i
      <4>1. i \in 1 .. Len(stack[k].values) /\ stack[k].values[i] = u.values[i]
        BY <1>4, <1>6, <2>2, <3>2
      <4> QED
        BY <1>6, <1>8, <2>2, <3>1, <4>1 DEF PlainInv, PlainValues, HalfInv
    <3>3. CASE i = Top.i + 1
      <4>1. NextArg = Nodes[u.node].args[i] /\ u.values[i] = returned
        BY <1>4, <1>8, <3>3 DEF NextArg, Node
      <4> QED
        BY <1>2, <1>10, <2>2, <3>1, <4>1, ReturnedIs DEF PlainInv, HalfInv
    <3> QED
      BY <1>4, <1>11, <3>1, <3>2, <3>3
  <2> QED
    BY <2>1, <2>2
<1>12. PlainValues(t)'
  <2>1. ASSUME NEW CONSTANT k \in 1 .. Len(stack'), NEW CONSTANT i \in 1 .. Len(stack'[k].values),
               Plain(Nodes[stack'[k].node].args[i])
        PROVE  stack'[k].values[i].type = t[Nodes[stack'[k].node].args[i]][PipedType(k)']
    <3>1. k \in 1 .. Len(stack) /\ PipedType(k)' = PipedType(k)
      BY <1>5, <1>9
    <3> QED
      BY <1>11, <2>1, <3>1
  <2> QED
    BY <1>7, <2>1 DEF PlainValues
<1>13. PlainReturned(t)'
  BY <1>5 DEF PlainReturned
<1>14. PlainPassed(t)'
  <2>1. \A k \in 1 .. Len(stack) : /\ stack'[k].node = stack[k].node
                                   /\ stack'[k].round = stack[k].round
    BY <1>5, <1>6, <1>8
  <2>2. ASSUME NEW CONSTANT k \in 1 .. Len(stack), Nodes[stack'[k].node].kind \in Calls,
               stack'[k].round = 2, NEW CONSTANT i \in 1 .. Len(Nodes[stack'[k].node].args),
               Plain(Nodes[stack'[k].node].args[i])
        PROVE  t[Nodes[stack'[k].node].args[i]][PipedType(k)] # Void
    BY <2>1, <2>2 DEF PlainInv, PlainPassed
  <2> QED
    BY <1>5, <1>7, <1>9, <2>2 DEF PlainPassed
<1>15. HalfInv'
  BY <1>5, <1>7, <1>11 DEF HalfInv
<1>16. VariableHasValue'
  BY <1>5, <1>7 DEF VariableHasValue
<1> QED
  BY <1>12, <1>13, <1>14, <1>15, <1>16 DEF PlainInv

\* The second round of a call or a dereference.
LEMMA RepeatPlain ==
  ASSUME StackInv, RestInv, NEW CONSTANT t, PlainInv(t), Steady, stack # <<>>, NEW u, Changed(u),
         u.node = Top.node, u.values \in {<<>>, Top.values},
         Node.kind \in Calls => Complete /\ \A i \in 1 .. Len(Top.values) : Top.values[i].type # Void
  PROVE  PlainInv(t)'
<1>1. /\ Len(stack) \in Nat \ {0} /\ Len(stack') = Len(stack)
      /\ \A k \in 1 .. Len(stack) : stack'[k] = IF k = Len(stack) THEN u ELSE stack[k]
      /\ stack' # <<>> /\ returned' = Waiting
  BY ChangedStack
<1>2. Len(stack) \in 1 .. Len(stack) /\ Top = stack[Len(stack)]
  BY <1>1 DEF Top
<1>3. /\ Nodes' = Nodes /\ HalfUsed' = HalfUsed /\ \A a : Plain(a)' => Plain(a)
      /\ Waiting.type # Half_Type /\ Waiting # Null
  BY PlainFacts
<1>4. ASSUME NEW CONSTANT k \in 1 .. Len(stack) PROVE PipedType(k)' = PipedType(k)
  <2>1. k \in Nat /\ \A j \in 1 .. k - 1 : stack'[j] = stack[j]
    BY <1>1
  <2> QED
    BY <2>1, PipedSame DEF Steady
<1>5. \A k \in 1 .. Len(stack) : \A i \in 1 .. Len(stack'[k].values) :
        i \in 1 .. Len(stack[k].values) /\ stack'[k].values[i] = stack[k].values[i]
        /\ stack'[k].node = stack[k].node
  <2>1. Len(<<>>) = 0
    OBVIOUS
  <2> QED
    BY <1>1, <1>2, <2>1
<1>6. PlainValues(t)'
  <2>1. ASSUME NEW CONSTANT k \in 1 .. Len(stack), NEW CONSTANT i \in 1 .. Len(stack'[k].values),
               Plain(Nodes[stack'[k].node].args[i])
        PROVE  stack'[k].values[i].type = t[Nodes[stack'[k].node].args[i]][PipedType(k)]
    <3>1. /\ i \in 1 .. Len(stack[k].values) /\ stack'[k].values[i] = stack[k].values[i]
          /\ stack'[k].node = stack[k].node
      BY <1>5
    <3> QED
      BY <2>1, <3>1 DEF PlainInv, PlainValues
  <2> QED
    BY <1>1, <1>3, <1>4, <2>1 DEF PlainValues
<1>7. PlainReturned(t)'
  BY <1>1 DEF PlainReturned
<1>8. ASSUME NEW CONSTANT k \in 1 .. Len(stack), Nodes[stack'[k].node].kind \in Calls, stack'[k].round = 2,
             NEW CONSTANT i \in 1 .. Len(Nodes[stack'[k].node].args),
             Plain(Nodes[stack'[k].node].args[i])
      PROVE  t[Nodes[stack'[k].node].args[i]][PipedType(k)] # Void
  <2>1. CASE k # Len(stack)
    BY <1>1, <1>8, <2>1 DEF PlainInv, PlainPassed
  <2>2. CASE k = Len(stack)
    <3>1. stack'[k].node = Top.node /\ Node.kind \in Calls
      BY <1>1, <1>8, <2>2 DEF Node
    <3>2. Len(Top.values) = Len(Node.args) /\ i \in 1 .. Len(stack[k].values)
      <4>1. FrameOK(Top)
        BY TopFacts
      <4>2. Len(Top.values) = Top.i
        BY <3>1, <4>1 DEF FrameOK, Node, Calls
      <4>3. Len(Top.values) = Len(Node.args)
        BY <3>1, <4>2 DEF Complete
      <4> QED
        BY <1>2, <1>8, <2>2, <3>1, <4>3 DEF Node
    <3>3. stack[k].values[i].type # Void
      BY <1>2, <2>2, <3>1, <3>2
    <3>4. stack[k].values[i].type = t[Nodes[stack'[k].node].args[i]][PipedType(k)]
      BY <1>2, <1>8, <2>2, <3>1, <3>2 DEF PlainInv, PlainValues
    <3> QED
      BY <3>3, <3>4
  <2> QED
    BY <2>1, <2>2
<1>9. PlainPassed(t)'
  BY <1>1, <1>3, <1>4, <1>8 DEF PlainPassed
<1>10. HalfInv'
  <2>1. ASSUME NEW CONSTANT k \in 1 .. Len(stack), NEW CONSTANT i \in 1 .. Len(stack'[k].values),
               stack'[k].values[i].type = Half_Type
        PROVE  HalfUsed
    <3>1. i \in 1 .. Len(stack[k].values) /\ stack[k].values[i].type = Half_Type
      BY <1>5, <2>1
    <3> QED
      BY <3>1 DEF PlainInv, HalfInv
  <2> QED
    BY <1>1, <1>3, <2>1 DEF HalfInv
<1>11. VariableHasValue'
  BY <1>1, <1>3 DEF VariableHasValue
<1> QED
  BY <1>6, <1>7, <1>9, <1>10, <1>11 DEF PlainInv

LEMMA GivesStaysPlain ==
  ASSUME StackInv, RestInv, OnPath, NEW CONSTANT t, PlainInv(t), Steady, NEW v, GivesPlain(t, v)
  PROVE  PlainInv(t)'
<1>1. /\ stack # <<>> /\ v \in LLVMValue
      /\ Plain(Top.node) => v.type = t[Top.node][PipedType(Len(stack))]
      /\ v.type = Half_Type => HalfUsed
      /\ v = Null => Node.kind # "variable"
  BY DEF GivesPlain
<1>2. /\ Len(stack) \in Nat \ {0} /\ Len(stack') = Len(stack) - 1
      /\ \A k \in 1 .. Len(stack) - 1 : stack'[k] = stack[k] /\ k \in 1 .. Len(stack)
      /\ stack' = <<>> <=> Len(stack) = 1
      /\ returned' = v
  <2>1. stack \in Seq(CallFrame) /\ Len(stack) \in Nat \ {0}
    BY <1>1 DEF StackInv
  <2>2. /\ stack' \in Seq(CallFrame) /\ Len(stack') = Len(stack) - 1
        /\ \A k \in 1 .. Len(stack) - 1 : stack'[k] = stack[k]
        /\ returned' = v
    BY <2>1, Shorter DEF GivesPlain, Popped
  <2>3. stack' = <<>> <=> Len(stack) = 1
    BY <2>1, <2>2
  <2> QED
    BY <1>1, <2>1, <2>2, <2>3
<1>3. /\ Nodes' = Nodes /\ HalfUsed' = HalfUsed /\ \A a : Plain(a)' => Plain(a)
  BY PlainFacts
<1>4. ASSUME NEW CONSTANT k \in 1 .. Len(stack) PROVE PipedType(k)' = PipedType(k)
  <2>1. k \in Nat /\ \A j \in 1 .. k - 1 : stack'[j] = stack[j]
    BY <1>2
  <2> QED
    BY <2>1, PipedSame DEF Steady
<1>5. PlainValues(t)'
  <2>1. ASSUME NEW CONSTANT k \in 1 .. Len(stack) - 1, NEW CONSTANT i \in 1 .. Len(stack'[k].values),
               Plain(Nodes[stack'[k].node].args[i])
        PROVE  stack'[k].values[i].type = t[Nodes[stack'[k].node].args[i]][PipedType(k)]
    BY <1>2, <2>1 DEF PlainInv, PlainValues
  <2> QED
    BY <1>2, <1>3, <1>4, <2>1 DEF PlainValues
<1>6. ASSUME stack' # <<>> PROVE NextArg' = Top.node
  <2>1. Len(stack) - 1 \in 1 .. Len(stack) - 1 /\ (Len(stack) - 1) + 1 = Len(stack)
    BY <1>2, <1>6
  <2>2. stack[Len(stack)].node = Nodes[stack[Len(stack) - 1].node].args[stack[Len(stack) - 1].i + 1]
    BY <2>1 DEF OnPath
  <2> QED
    BY <1>2, <1>3, <2>1, <2>2 DEF NextArg, Node, Top
<1>7. PlainReturned(t)'
  <2>1. ASSUME NEW CONSTANT k \in Nat, k = Len(stack') + 1 PROVE PipedType(k)' = PipedType(Len(stack))
    <3>1. k \in 1 .. Len(stack) /\ k = Len(stack)
      BY <1>2, <2>1
    <3> QED
      BY <1>4, <3>1
  <2>2. ASSUME NEW CONSTANT k \in Nat, k = Len(stack') + 1, stack' # <<>>, NEW CONSTANT a, a = NextArg',
               Plain(a)'
        PROVE  v.type = t[a][PipedType(k)']
    <3>1. a = Top.node /\ Plain(Top.node)
      BY <1>3, <1>6, <2>2
    <3> QED
      BY <1>1, <2>1, <2>2, <3>1
  <2> QED
    BY <1>2, <2>2 DEF PlainReturned
<1>9. PlainPassed(t)'
  <2>1. ASSUME NEW CONSTANT k \in 1 .. Len(stack) - 1, Nodes[stack'[k].node].kind \in Calls,
               stack'[k].round = 2, NEW CONSTANT i \in 1 .. Len(Nodes[stack'[k].node].args),
               Plain(Nodes[stack'[k].node].args[i])
        PROVE  t[Nodes[stack'[k].node].args[i]][PipedType(k)] # Void
    BY <1>2, <2>1 DEF PlainInv, PlainPassed
  <2> QED
    BY <1>2, <1>3, <1>4, <2>1 DEF PlainPassed
<1>10. HalfInv'
  BY <1>1, <1>2, <1>3 DEF PlainInv, HalfInv
<1>11. VariableHasValue'
  BY <1>1, <1>2, <1>3, <1>6 DEF VariableHasValue, Node
<1> QED
  BY <1>5, <1>7, <1>9, <1>10, <1>11 DEF PlainInv

LEMMA StillPlain ==
  ASSUME StackInv, RestInv, NEW CONSTANT t, PlainInv(t), Steady, UNCHANGED stack,
         returned' = returned \/ (stack = <<>> /\ returned' = Waiting)
  PROVE  PlainInv(t)'
<1>1. /\ Nodes' = Nodes /\ HalfUsed' = HalfUsed /\ \A a : Plain(a)' => Plain(a)
      /\ Waiting.type # Half_Type /\ Waiting # Null
  BY PlainFacts
<1>2. Top' = Top /\ Node' = Node /\ NextArg' = NextArg /\ Len(stack) \in Nat
  BY <1>1 DEF Top, Node, NextArg, StackInv
<1>3. ASSUME NEW CONSTANT k \in Nat PROVE PipedType(k)' = PipedType(k)
  BY PipedSame DEF Steady
<1>5. \A k \in 1 .. Len(stack) : PipedType(k)' = PipedType(k)
  BY <1>3
<1>6. PlainValues(t)' /\ PlainPassed(t)'
  BY <1>1, <1>5 DEF PlainInv, PlainValues, PlainPassed
<1>7. PlainReturned(t)'
  BY <1>1, <1>2, <1>3 DEF PlainInv, PlainReturned
<1>8. HalfInv' /\ VariableHasValue'
  BY <1>1, <1>2 DEF PlainInv, HalfInv, VariableHasValue
<1> QED
  BY <1>6, <1>7, <1>8 DEF PlainInv

LEMMA PlainStep ==
  ASSUME TypeInv, WalkInv, PipesAreNested, ValueInv, NEW CONSTANT t, TypedFrom(t, 1), PlainInv(t),
         [Next]_vars
  PROVE  PlainInv(t)'
<1>1. StackInv /\ RestInv /\ OnPath /\ Rounds
  BY Parts DEF WalkInv
<1>2. program' = program /\ functionIDs' = functionIDs
  BY StepMoves
<1>3. ASSUME UNCHANGED isRef PROVE Steady
  BY <1>2, <1>3 DEF Steady
<1>4. ASSUME NEW n \in DOMAIN Nodes, Enters(n), isRef \subseteq isRef'
      PROVE  PlainInv(t)'
  BY <1>1, <1>2, <1>4, EnterPlain DEF Steady
<1>5. ASSUME stack # <<>>, returned # Waiting, Node.kind # "dereference", Receive,
             UNCHANGED <<stmt, isRef, code, wasError, status>>, status = "generating",
             Node.kind = "pipe" => Top.i = 0
      PROVE  PlainInv(t)'
  <2>1. Receives
    BY <1>5 DEF Receives, Receive, Changed, Kept
  <2>2. ~InRightSide(Top)
    BY <1>5 DEF InRightSide, Node
  <2> QED
    BY <1>1, <1>3, <1>5, <2>1, <2>2, ReceivePlain
<1>6. ASSUME UNCHANGED <<stack, isRef>>, returned' = returned \/ (stack = <<>> /\ returned' = Waiting)
      PROVE  PlainInv(t)'
  BY <1>1, <1>3, <1>6, StillPlain
<1>7. ASSUME NEW v, GivesPlain(t, v) PROVE PlainInv(t)'
  <2>1. UNCHANGED isRef
    BY <1>7 DEF GivesPlain
  <2> QED
    BY <1>1, <1>3, <1>7, <2>1, GivesStaysPlain
<1>8. CASE Statement
  <2>1. stmt \in 1 .. Len(program.body)
    BY <1>1, <1>8, SizeFacts DEF Statement, RestInv
  <2>2. program.body[stmt] \in DOMAIN Nodes
    BY <1>1, <2>1, ProgramFacts DEF RestInv
  <2>3. Enters(program.body[stmt]) /\ UNCHANGED isRef
    BY <1>8 DEF Statement, Enters, Enter, Pushed, Kept
  <2> QED
    BY <1>4, <2>2, <2>3
<1>9. CASE Operand \/ ArgumentAgain
  <2>1. /\ stack # <<>> /\ returned = Waiting /\ status = "generating" /\ ~Complete
        /\ Enter(NextArg) /\ UNCHANGED <<stmt, code, wasError, status>>
        /\ isRef \subseteq isRef'
    BY <1>9 DEF Operand, ArgumentAgain, NotComplete, MarkReference, At, Generating
  <2>2. NextArg \in DOMAIN Nodes /\ Top.i < Len(Node.args)
    BY <1>1, <2>1, TopFacts
  <2>3. Enters(NextArg)
    BY <2>1, <2>2 DEF Enters, Enter, Pushed, Kept
  <2> QED
    BY <1>4, <2>1, <2>2, <2>3
<1>10. CASE EndBody \/ ExitOnError \/ TypeOfNull \/ Finished \/ UNCHANGED vars
  <2>1. UNCHANGED <<stack, returned, isRef>>
    BY <1>10 DEF EndBody, ExitOnError, Exit, TypeOfNull, Finished, vars
  <2> QED
    BY <1>6, <2>1
<1>11. CASE EndStatement
  <2>1. stack = <<>> /\ returned' = Waiting /\ UNCHANGED <<stack, isRef>>
    BY <1>11 DEF EndStatement
  <2> QED
    BY <1>6, <2>1
<1>12. CASE ArgumentValue
  BY <1>5, <1>12 DEF ArgumentValue, Got, Generating, Calls
<1>13. CASE PipeLeft
  BY <1>5, <1>13 DEF PipeLeft, Got, Generating, Calls
<1>14. CASE OperandValue
  BY <1>5, <1>14 DEF OperandValue, Got, Generating, Calls
<1>15. CASE FoundFunction
  <2>1. /\ stack # <<>> /\ returned = Waiting /\ Node.kind \in Calls /\ Complete
        /\ UNCHANGED isRef
        /\ stack' = [stack EXCEPT ![Len(stack)] = Again] /\ returned' = returned
    BY <1>15 DEF FoundFunction, LookedUp, At, Generating
  <2>2. PICK u : u = Again
    OBVIOUS
  <2>3. u.node = Top.node /\ u.values \in {<<>>, Top.values}
    BY <1>1, <2>1, <2>2, AgainFields
  <2>4. Changed(u)
    BY <2>1, <2>2 DEF Changed
  <2>5. \A i \in 1 .. Len(Top.values) : Top.values[i].type # Void
    <3>1. Len(stack) \in 1 .. Len(stack) /\ Top = stack[Len(stack)] /\ Node = Nodes[Top.node]
      BY <1>1, <2>1, TopIs
    <3> QED
      BY <2>1, <3>1 DEF ValueInv, NullHasNoType
  <2> QED
    BY <1>1, <1>3, <2>1, <2>3, <2>4, <2>5, RepeatPlain
<1>16. CASE Leaf
  BY <1>1, <1>7, <1>16, LeafPlain
<1>17. CASE ArgumentLost \/ UndefinedFunction \/ IncorrectNumber \/ NotAReference \/ CreateCall
  BY <1>1, <1>7, <1>17, CallPlain
<1>18. CASE PipeRight
  BY <1>1, <1>7, <1>18, PipePlain
<1>19. CASE Operation
  BY <1>1, <1>6, <1>7, <1>19, OperationPlain
<1>20. CASE Dereference
  <2>1. ASSUME NEW u, stack # <<>>, Node.kind = "dereference", Changed(u),
               u.node = Top.node, u.values = Top.values, UNCHANGED isRef
        PROVE  PlainInv(t)'
    <3>1. Node.kind \notin Calls
      BY <2>1 DEF Calls
    <3> QED
      BY <1>1, <1>3, <2>1, <3>1, RepeatPlain
  <2> QED
    BY <1>1, <1>7, <1>20, <2>1, DereferencePlain
<1> QED
  BY <1>8, <1>9, <1>10, <1>11, <1>12, <1>13, <1>14, <1>15, <1>16, <1>17, <1>18, <1>19, <1>20 DEF Next

LEMMA TypedFromSame ==
  ASSUME program' = program, functionIDs' = functionIDs, NEW CONSTANT t, TypedFrom(t, 1)
  PROVE  TypedFrom(t, 1)'
<1>1. Nodes' = Nodes /\ functionIDs' = functionIDs
  BY DEF Nodes
<1>2. ASSUME NEW CONSTANT n
      PROVE  TypeMap(t, n)' = TypeMap(t, n)
  <2>1. FullName(n)' = FullName(n)
    BY <1>1 DEF FullName
  <2>2. \A types : Binding(n, types)' = Binding(n, types)
    BY <1>1, <2>1 DEF Binding
  <2>3. \A l, r : OperatorType(n, l, r)' = OperatorType(n, l, r)
    BY <1>1 DEF OperatorType
  <2>4. \A f : Returned(n, f)' = Returned(n, f)
    BY <1>1 DEF Returned
  <2>5. \A types, p : TypeFrom(n, types, p)' = TypeFrom(n, types, p)
    BY <1>1, <2>2, <2>3, <2>4 DEF TypeFrom
  <2>6. \A p : GivenTypes(t, n, p)' = GivenTypes(t, n, p)
    BY <1>1 DEF GivenTypes
  <2>7. ASSUME NEW CONSTANT p
        PROVE  TypeFrom(n, GivenTypes(t, n, p), p)' = TypeFrom(n, GivenTypes(t, n, p), p)
    <3>1. PICK types : types = GivenTypes(t, n, p)
      OBVIOUS
    <3>2. TypeFrom(n, types, p)' = TypeFrom(n, types, p)
      BY <2>5
    <3> QED
      BY <1>1, <2>2, <2>3, <2>4, <2>6 DEF TypeFrom
  <2> QED
    BY <1>1, <2>7 DEF TypeMap
<1> QED
  BY <1>1, <1>2 DEF TypedFrom

PlainAlready == \E t : TypedFrom(t, 1) /\ PlainInv(t)

LEMMA PlainInitially == Init => PlainAlready
<1> SUFFICES ASSUME Init PROVE PlainAlready
  OBVIOUS
<1>1. RestInv
  BY Initially, Parts
<1>2. PICK t : TypedFrom(t, 1)
  BY <1>1, TypesExist
<1>3. stack = <<>> /\ Len(stack) = 0 /\ returned = Waiting
  BY DEF Init
<1>4. Waiting.type # Half_Type
  BY DEF Waiting, Value, Half_Type
<1>5. PlainInv(t)
  BY <1>3, <1>4 DEF PlainInv, PlainValues, PlainReturned, PlainPassed, HalfInv, VariableHasValue
<1> QED
  BY <1>2, <1>5 DEF PlainAlready

LEMMA PlainAlways == Spec => []PlainAlready
<1>1. ASSUME PlainAlready, BindInv, TypeInv, WalkInv, PipesAreNested, [Next]_vars PROVE PlainAlready'
  <2>1. PICK t : TypedFrom(t, 1) /\ PlainInv(t)
    BY <1>1 DEF PlainAlready
  <2>2. program' = program /\ functionIDs' = functionIDs
    BY <1>1, StepMoves
  <2>3. PlainInv(t)'
    BY <1>1, <2>1, PlainStep DEF BindInv
  <2>4. TypedFrom(t, 1)'
    BY <2>1, <2>2, TypedFromSame
  <2> QED
    BY <2>3, <2>4 DEF PlainAlready
<1>2. PlainAlready /\ BindInv /\ TypeInv /\ WalkInv /\ PipesAreNested /\ [Next]_vars => PlainAlready'
  BY <1>1
<1> QED
  BY <1>2, PlainInitially, BindAlways, TypeAlways, WalkAlways, CallEmissionPipesAreNested, PTL DEF Spec

-----------------------------------------------------------------------------
(***************************************************************************)
(* What there is an error for.                                             *)
(***************************************************************************)
Misfit(n) ==
  /\ Nodes[n].kind \in Calls
  /\ \/ OfTheName(n) = {} \/ \E f \in OfTheName(n) : ~Fits(f, n)
     \/ NeedsExact <= (Boolean_Node - Integer_Node) * (Len(Nodes[n].args) + 1)

HalfOperator(n) ==
  Nodes[n].kind = "operator" /\ GetNamedFunctionFromID(functionIDs, Nodes[n].name) = 0 /\ HalfUsed

MethodTwice(n) == Nodes[n].kind = "method" /\ \E m \in Above[n] : Nodes[m].kind \in Doubled

CallInMethod(n) == Nodes[n].kind = "call" /\ \E m \in Above[n] : Nodes[m].kind = "method"

Cause ==
  \E n \in DOMAIN Nodes : \/ Misfit(n) \/ HalfOperator(n) \/ MethodTwice(n) \/ CallInMethod(n)
                          \/ Nodes[n].kind = "dereference" /\ lost

LEMMA CauseStays ==
  ASSUME program' = program, functionIDs' = functionIDs, lost => lost', Cause
  PROVE  Cause'
<1>1. Nodes' = Nodes /\ \A n : Parents(n)' = Parents(n)
  BY DEF Nodes, Parents
<1>2. Above' = Above
  BY <1>1 DEF Above
<1>3. \A n : OfTheName(n)' = OfTheName(n)
  BY <1>1 DEF OfTheName, FullName
<1>4. \A f, n : Fits(f, n)' = Fits(f, n)
  BY <1>1 DEF Fits
<1>5. \A n : Misfit(n)' = Misfit(n)
  BY <1>1, <1>3, <1>4 DEF Misfit
<1>6. \A n : HalfOperator(n)' = HalfOperator(n)
  BY <1>1 DEF HalfOperator, HalfUsed
<1>7. \A n : MethodTwice(n)' = MethodTwice(n) /\ CallInMethod(n)' = CallInMethod(n)
  BY <1>1, <1>2 DEF MethodTwice, CallInMethod
<1> QED
  BY <1>1, <1>5, <1>6, <1>7 DEF Cause

CalleesNamed ==
  \A k \in 1 .. Len(stack) :
    Nodes[stack[k].node].kind \in Calls /\ stack[k].callee # 0 =>
      functionIDs[stack[k].callee].name = FullName(stack[k].node)

ReferencesPassed == \A x \in isRef : \E m \in Parents(x) : Nodes[m].kind \in Calls

\* The global is set while a method is called, else it was left set by one that was not.
FlagInv ==
  /\ isCallMemberFunction =>
       Cause \/ \E k \in 1 .. Len(stack) : Nodes[stack[k].node].kind = "method" /\ stack[k].round = 2
  /\ \A k \in 1 .. Len(stack) : stack[k].shouldBeMemberFunction => Cause

ErrorInv == (wasError => Cause) /\ (status = "exited" => wasError)

CauseInv == CalleesNamed /\ ReferencesPassed /\ FlagInv /\ ErrorInv

-----------------------------------------------------------------------------
LEMMA CalledTypes ==
  ASSUME StackInv, RestInv, stack # <<>>, Node.kind \in Calls, Complete
  PROVE  Types \in Seq(Nat) /\ Len(Types) <= Len(Node.args) + 1
<1>1. /\ FrameOK(Top) /\ Top.values \in Seq(LLVMValue) /\ Len(Top.values) \in Nat /\ Len(Node.args) \in Nat
  BY TopFacts
<1>2. Len(Top.values) = Len(Node.args)
  BY <1>1 DEF FrameOK, Complete, Node, Calls
<1>3. PICK s, u : /\ s = (IF Node.kind = "method" THEN <<Struct_Type>> ELSE <<>>)
                  /\ u = [i \in 1 .. Len(Top.values) |-> Top.values[i].type]
  OBVIOUS
<1>4. u \in Seq(Nat) /\ Len(u) = Len(Node.args)
  <2>1. \A i \in 1 .. Len(Top.values) : Top.values[i] \in LLVMValue
    BY <1>1
  <2>2. \A i \in 1 .. Len(Top.values) : Top.values[i].type \in Nat
    BY <2>1 DEF LLVMValue
  <2> QED
    BY <1>1, <1>2, <1>3, <2>2
<1>5. s \in Seq(Nat) /\ Len(s) <= 1 /\ Len(s) \in Nat
  BY <1>3 DEF Struct_Type
<1>6. Types = s \o u
  BY <1>3 DEF Types
<1>7. s \o u \in Seq(Nat) /\ Len(s \o u) = Len(s) + Len(u)
  BY <1>4, <1>5, ConcatProperties
<1> QED
  BY <1>1, <1>4, <1>5, <1>6, <1>7

LEMMA UndefinedCause ==
  ASSUME TypeInv, WalkInv, ValueInv, QualifiedInv, FlagInv, UndefinedFunction
  PROVE  Cause
<1> SUFFICES ASSUME ~Cause PROVE FALSE
  OBVIOUS
<1>1. StackInv /\ RestInv
  BY Parts
<1>2. stack # <<>> /\ Node.kind \in Calls /\ Complete /\ Callee = 0
  BY DEF UndefinedFunction, LookedUp, At, Generating
<1>3. PICK n : n = Top.node
  OBVIOUS
<1>4. n \in DOMAIN Nodes /\ Node = Nodes[n] /\ Len(stack) \in 1 .. Len(stack) /\ Top = stack[Len(stack)]
  BY <1>1, <1>2, <1>3, TopIs
<1>5. Node.kind = "method" => \A m \in Above[Top.node] : Nodes[m].kind \notin Doubled
  BY <1>3, <1>4 DEF Cause, MethodTwice
<1>6. tokens[Top.node] = FullName(n)
  BY <1>2, <1>3, <1>5, RightName
<1>7. ~Top.shouldBeMemberFunction
  BY <1>4 DEF FlagInv
<1>8. PICK types : types = Types
  OBVIOUS
<1>9. types \in Seq(Nat) /\ Len(types) <= Len(Nodes[n].args) + 1
  BY <1>1, <1>2, <1>4, <1>8, CalledTypes
<1>10. Callee = GetFunctionFromID(functionIDs, FullName(n), types, TRUE, Nodes[n].kind = "method")
  <2>1. (Node.kind = "method" \/ Top.shouldBeMemberFunction) = (Nodes[n].kind = "method")
    BY <1>4, <1>7
  <2> QED
    BY <1>6, <1>8, <2>1 DEF Callee
<1>11. /\ OfTheName(n) # {} /\ \A f \in OfTheName(n) : Fits(f, n)
       /\ ~(NeedsExact <= PointsUpTo * (Len(Nodes[n].args) + 1))
  BY <1>2, <1>4 DEF Cause, Misfit, PointsUpTo
<1> QED
  BY <1>1, <1>2, <1>4, <1>9, <1>10, <1>11, LookupSucceeds

LEMMA IncorrectCause ==
  ASSUME StackInv, RestInv, ValueInv, IncorrectNumber
  PROVE  Cause
<1>1. /\ LookedUp /\ stack # <<>> /\ Node.kind \in Calls /\ Callee # 0
      /\ ~CountFits(functionIDs[Callee], Node.kind, Len(Node.args))
  BY DEF IncorrectNumber, LookedUp, At, Generating
<1>2. PICK n, f : n = Top.node /\ f = functionIDs[Callee]
  OBVIOUS
<1>3. n \in DOMAIN Nodes /\ Node = Nodes[n]
  BY <1>1, <1>2, TopIs
<1>4. f.name = FullName(n)
  BY <1>1, <1>2, CalleeIs DEF ValueInv
<1>5. f \in ToSet(functionIDs)
  <2>1. Callee \in 1 .. Len(functionIDs)
    <3>1. Callee \in 0 .. Len(functionIDs) /\ Len(functionIDs) \in Nat
      BY Lookups, SizeFacts
    <3> QED
      BY <1>1, <3>1
  <2> QED
    BY <1>2, <2>1 DEF RestInv, ToSet
<1>6. ~Fits(f, n)
  BY <1>1, <1>2, <1>3 DEF Fits
<1> QED
  BY <1>1, <1>3, <1>4, <1>5, <1>6 DEF Cause, Misfit, OfTheName

LEMMA NotAReferenceCause ==
  ASSUME StackInv, RestInv, CalleesNamed, NotAReference
  PROVE  Cause
<1>1. /\ stack # <<>> /\ Node.kind \in Calls /\ Top.round = 2 /\ ~Complete
      /\ TRUE \in Reference /\ Nodes[AskedOf].kind # "variable"
  BY DEF NotAReference, NotComplete, At, Generating
<1>2. PICK n, f, i : n = Top.node /\ f = functionIDs[Top.callee] /\ i = Top.i + 1
  OBVIOUS
<1>3. /\ n \in DOMAIN Nodes /\ Node = Nodes[n] /\ Len(stack) \in 1 .. Len(stack) /\ Top = stack[Len(stack)]
  BY <1>1, <1>2, TopIs
<1>4. /\ Top.callee \in 0 .. Len(functionIDs) /\ FrameOK(Top) /\ Top.i < Len(Node.args)
      /\ Top.i \in 0 .. Len(Node.args) /\ Len(Node.args) \in Nat /\ Len(functionIDs) \in Nat
  BY <1>1, TopFacts, SizeFacts
<1>5. Top.callee # 0 /\ Top.callee \in 1 .. Len(functionIDs)
  <2>1. Top.callee # 0
    BY <1>1, <1>4 DEF FrameOK, Node
  <2> QED
    BY <1>4, <2>1
<1>6. f.name = FullName(n)
  BY <1>1, <1>2, <1>3, <1>5 DEF CalleesNamed
<1>7. f \in ToSet(functionIDs)
  BY <1>2, <1>5 DEF RestInv, ToSet
<1>8. i \in DOMAIN Nodes[n].args
  <2>1. Nodes[n].args \in Seq(Nat)
    BY <1>3, ProgramFacts DEF RestInv
  <2> QED
    BY <1>2, <1>3, <1>4, <2>1
<1>9. /\ TRUE \in IsReference(f, Nodes[n].kind, i)
      /\ Nodes[Nodes[n].args[IF Nodes[n].kind = "method" THEN 1 ELSE i]].kind # "variable"
  BY <1>1, <1>2, <1>3 DEF Reference, AskedOf, NextArg
<1>10. ~Fits(f, n)
  BY <1>8, <1>9 DEF Fits
<1> QED
  BY <1>1, <1>3, <1>6, <1>7, <1>10 DEF Cause, Misfit, OfTheName

LEMMA OperationCause ==
  ASSUME StackInv, RestInv, HalfInv, Operation, wasError' # wasError
  PROVE  Cause
<1>1. /\ stack # <<>> /\ Node.kind = "operator" /\ Complete /\ Overload = 0
      /\ CastFails(Top.values[1].type, Top.values[2].type)
  BY DEF Operation, At, Generating, RestInv
<1>2. PICK n : n = Top.node
  OBVIOUS
<1>3. n \in DOMAIN Nodes /\ Node = Nodes[n] /\ Len(stack) \in 1 .. Len(stack) /\ Top = stack[Len(stack)]
  BY <1>1, <1>2, TopIs
<1>4. Len(Top.values) = 2
  <2>1. FrameOK(Top)
    BY <1>1, TopFacts
  <2>2. Len(Nodes[n].args) = 2
    BY <1>1, <1>3, ProgramFacts DEF RestInv
  <2> QED
    BY <1>1, <1>2, <1>3, <2>1, <2>2 DEF FrameOK, Complete
<1>5. PICK i \in {1, 2} : Top.values[i].type = Half_Type
  BY <1>1 DEF CastFails
<1>6. i \in 1 .. Len(stack[Len(stack)].values)
  BY <1>3, <1>4
<1>7. HalfUsed
  BY <1>3, <1>5, <1>6 DEF HalfInv
<1> QED
  BY <1>1, <1>3, <1>7 DEF Cause, HalfOperator, Overload

LEMMA DereferenceCause ==
  ASSUME StackInv, RestInv, NullIsLost, Dereference, wasError'
  PROVE  Cause
<1>1. stack # <<>> /\ Node.kind = "dereference" /\ returned = Null
  BY DEF Dereference, Got, Generating
<1>2. Top.node \in DOMAIN Nodes /\ Node = Nodes[Top.node]
  BY <1>1, TopIs
<1> QED
  BY <1>1, <1>2 DEF Cause, NullIsLost

\* The generators on the stack are above a node that is begun.
LEMMA BegunBelow ==
  ASSUME StackInv, RestInv, OnPath, stack # <<>>, Top.i < Len(Node.args)
  PROVE  \A k \in 1 .. Len(stack) : stack[k].node \in Above[NextArg]
<1>1. PICK c : c = NextArg
  OBVIOUS
<1>2. c = Nodes[Top.node].args[Top.i + 1] /\ Top.i + 1 \in 1 .. Len(Nodes[Top.node].args)
      /\ Top.node \in DOMAIN Nodes
  BY <1>1, OperandIs
<1>3. program \in Programs /\ Len(stack) \in Nat \ {0} /\ Top = stack[Len(stack)] /\ Len(stack) \in 1 .. Len(stack)
  BY TopIs DEF RestInv
<1>4. c \in DOMAIN Nodes
  BY <1>2, <1>3, OperandFacts
<1> DEFINE T == {d \in Nat : \E k \in 1 .. Len(stack) : d = Len(stack) - k /\ stack[k].node \notin Above[c]}
<1>5. ASSUME T # {} PROVE FALSE
  <2>1. T \in SUBSET Nat
    OBVIOUS
  <2>2. PICK d \in T : \A x \in T : d <= x
    BY <1>5, <2>1, LeastNat
  <2>3. PICK k \in 1 .. Len(stack) : d = Len(stack) - k /\ stack[k].node \notin Above[c]
    BY <2>2
  <2>4. CASE k = Len(stack)
    <3>1. Above[c] = {Top.node} \cup Above[Top.node]
      <4>1. Parents(c) = {Top.node}
        BY <1>2, <1>3, TreeFacts
      <4> QED
        BY <1>2, <1>3, <1>4, <4>1, AboveIs
    <3> QED
      BY <1>3, <2>3, <2>4, <3>1
  <2>5. CASE k # Len(stack)
    <3>1. PICK l : l = k + 1
      OBVIOUS
    <3>2. l \in 2 .. Len(stack) /\ l \in 1 .. Len(stack) /\ k = l - 1 /\ Len(stack) - l \in Nat
          /\ Len(stack) - l < d
      BY <1>3, <2>3, <2>5, <3>1
    <3>3. stack[l].node \in Above[c]
      <4> SUFFICES ASSUME stack[l].node \notin Above[c] PROVE FALSE
        OBVIOUS
      <4>1. Len(stack) - l \in T
        BY <3>2
      <4>2. d \in Nat /\ Len(stack) - l \in Nat /\ Len(stack) - l < d
        BY <2>1, <2>2, <3>2
      <4> HIDE DEF T
      <4>3. d <= Len(stack) - l
        BY <2>2, <4>1
      <4>4. PICK x : x = Len(stack) - l
        OBVIOUS
      <4> QED
        BY <4>2, <4>3, <4>4
    <3>4. /\ stack[k].node \in DOMAIN Nodes /\ stack[k].i + 1 \in 1 .. Len(Nodes[stack[k].node].args)
          /\ stack[l].node = Nodes[stack[k].node].args[stack[k].i + 1]
      BY <3>2, CalledBy
    <3>5. PICK m, q, b : m = stack[k].node /\ q = stack[k].i + 1 /\ b = stack[l].node
      OBVIOUS
    <3>6. /\ m \in DOMAIN Nodes /\ q \in 1 .. Len(Nodes[m].args) /\ b = Nodes[m].args[q]
          /\ b \in {c} \cup Above[c]
      BY <3>3, <3>4, <3>5
    <3>7. m \in Above[c]
      BY <1>3, <1>4, <3>6, AboveOperand, SMTT(30)
    <3> QED
      BY <2>3, <3>5, <3>7
  <2> QED
    BY <2>4, <2>5
<1>6. ASSUME NEW k \in 1 .. Len(stack), stack[k].node \notin Above[c] PROVE FALSE
  <2>1. Len(stack) - k \in T
    BY <1>3, <1>6
  <2> QED
    BY <1>5, <2>1
<1> QED
  BY <1>1, <1>6

\* The argument of a method is not lost the second time.
LEMMA ArgumentLostCause ==
  ASSUME StackInv, RestInv, OnPath, ReferencesPassed, NEW t, PlainInv(t), ArgumentLost, Node.kind = "method"
  PROVE  Cause
<1> SUFFICES ASSUME ~Cause PROVE FALSE
  OBVIOUS
<1>1. stack # <<>> /\ returned = Null /\ returned # Waiting /\ Top.round = 2
  BY NullType DEF ArgumentLost, Got, Generating
<1>2. PICK n, q, a : n = Top.node /\ q = Top.i + 1 /\ a = NextArg
  OBVIOUS
<1>3. /\ n \in DOMAIN Nodes /\ Node = Nodes[n] /\ Len(stack) \in 1 .. Len(stack) /\ Top = stack[Len(stack)]
      /\ PipedType(Len(stack) + 1) = PipedType(Len(stack))
  <2>1. /\ n \in DOMAIN Nodes /\ Node = Nodes[n] /\ Len(stack) \in 1 .. Len(stack) /\ Top = stack[Len(stack)]
    BY <1>1, <1>2, TopIs
  <2> QED
    BY <1>2, <2>1, PipedNext DEF InRightSide
<1>4. Top.i < Len(Node.args)
  BY <1>1, TopFacts
<1>5. q \in 1 .. Len(Nodes[n].args) /\ a = Nodes[n].args[q]
  BY <1>1, <1>2, <1>4, OperandIs
<1>6. Nodes[a].kind # "variable"
  BY <1>1, <1>2 DEF PlainInv, VariableHasValue
<1>7. program \in Programs
  BY DEF RestInv
<1>8. a \in DOMAIN Nodes
  BY <1>3, <1>5, <1>7, OperandFacts
<1>9. ASSUME NEW b \in DOMAIN Nodes, a \in {b} \cup Above[b] PROVE Nodes[b].kind \notin Calls
  <2>1. n \in Above[b]
    BY <1>3, <1>5, <1>7, <1>9, AboveOperand
  <2> QED
    BY <1>3, <2>1 DEF Cause, MethodTwice, CallInMethod, Calls, Doubled
<1>10. ASSUME NEW b \in References, b \in DOMAIN Nodes, a \in Above[b] PROVE FALSE
  <2>1. PICK m \in Parents(b) : Nodes[m].kind \in Calls
    BY <1>10 DEF ReferencesPassed, References
  <2>2. m \in DOMAIN Nodes /\ Parents(b) = {m}
    <3>1. m \in DOMAIN Nodes /\ \E j \in 1 .. Len(Nodes[m].args) : Nodes[m].args[j] = b
      <4>1. m \in DOMAIN Nodes /\ b \in ToSet(Nodes[m].args)
        BY <2>1 DEF Parents
      <4>2. Nodes[m].args \in Seq(Nat)
        BY <1>7, <4>1, ProgramFacts
      <4> QED
        BY <4>1, <4>2 DEF ToSet
    <3>2. PICK j \in 1 .. Len(Nodes[m].args) : Nodes[m].args[j] = b
      BY <3>1
    <3>3. Parents(Nodes[m].args[j]) = {m}
      BY <1>7, <3>1, TreeFacts
    <3> QED
      BY <3>1, <3>2, <3>3
  <2>3. Above[b] = {m} \cup Above[m]
    BY <1>7, <1>10, <2>2, AboveIs
  <2>4. a \in {m} \cup Above[m]
    BY <1>10, <2>3
  <2> QED
    BY <1>9, <2>1, <2>2, <2>4
<1>11. Plain(a)
  <2>1. ASSUME NEW b \in DOMAIN Nodes, Within(b, a) PROVE Nodes[b].kind \notin Calls /\ b \notin References
    <3>1. a \in {b} \cup Above[b]
      BY <2>1 DEF Within
    <3>2. b = a => b \notin References
      BY <1>6 DEF References
    <3> QED
      BY <1>9, <1>10, <2>1, <3>1, <3>2
  <2> QED
    BY <2>1 DEF Plain
<1>12. t[a][PipedType(Len(stack))] # Void
  BY <1>1, <1>2, <1>3, <1>5, <1>11 DEF PlainInv, PlainPassed, Calls
<1>13. returned.type = t[a][PipedType(Len(stack))]
  BY <1>1, <1>2, <1>3, <1>11, ReturnedIs DEF PlainInv
<1> QED
  BY <1>1, <1>12, <1>13 DEF Null, Value
-----------------------------------------------------------------------------
LEMMA CauseKept ==
  ASSUME TypeInv, WalkInv, [Next]_vars, Cause
  PROVE  Cause'
<1>1. Moves /\ program' = program /\ functionIDs' = functionIDs
  BY StepMoves
<1>2. lost => lost'
  BY <1>1 DEF Moves, Rests, Enters, Receives, Repeats, Ends, EndsStatement, Kept
<1> QED
  BY <1>1, <1>2, CauseStays

LEMMA ErrorStep ==
  ASSUME TypeInv, WalkInv, ValueInv, QualifiedInv, HalfInv, CauseInv, [Next]_vars
  PROVE  ErrorInv'
<1>1. StackInv /\ RestInv /\ NullIsLost
  BY Parts DEF WalkInv
<1>2. Cause => Cause'
  BY CauseKept
<1>3. ASSUME wasError' = wasError PROVE wasError' => Cause'
  BY <1>2, <1>3 DEF CauseInv, ErrorInv
<1>4. wasError' => Cause'
  <2>1. CASE UndefinedFunction
    BY <1>2, <2>1, UndefinedCause DEF CauseInv
  <2>2. CASE IncorrectNumber
    BY <1>1, <1>2, <2>2, IncorrectCause
  <2>3. CASE NotAReference
    BY <1>1, <1>2, <2>3, NotAReferenceCause DEF CauseInv
  <2>4. CASE Operation
    BY <1>1, <1>2, <1>3, <2>4, OperationCause
  <2>5. CASE Dereference
    BY <1>1, <1>2, <2>5, DereferenceCause
  <2>6. CASE \/ Statement \/ EndStatement \/ EndBody \/ ExitOnError \/ Leaf \/ Operand
             \/ TypeOfNull \/ ArgumentLost \/ ArgumentValue \/ FoundFunction
    BY <1>3, <2>6 DEF Statement, EndStatement, EndBody, ExitOnError, Exit, Leaf, Operand, TypeOfNull,
                      ArgumentLost, ArgumentValue, FoundFunction
  <2>7. CASE \/ ArgumentAgain \/ CreateCall \/ PipeLeft \/ PipeRight \/ OperandValue
             \/ Finished \/ UNCHANGED vars
    BY <1>3, <2>7 DEF ArgumentAgain, CreateCall, PipeLeft, PipeRight, OperandValue, Finished, vars
  <2> QED
    BY <2>1, <2>2, <2>3, <2>4, <2>5, <2>6, <2>7 DEF Next
<1>5. ASSUME status' # "exited" PROVE status' = "exited" => wasError'
  BY <1>5
<1>6. status' = "exited" => wasError'
  <2>1. CASE Finished \/ UNCHANGED vars
    BY <2>1 DEF Finished, vars, CauseInv, ErrorInv
  <2>2. CASE ExitOnError
    BY <2>2 DEF ExitOnError, Exit
  <2>3. CASE \/ Statement \/ EndStatement \/ EndBody \/ Leaf \/ Operand \/ TypeOfNull \/ ArgumentLost
             \/ ArgumentValue \/ UndefinedFunction \/ IncorrectNumber \/ FoundFunction
    BY <1>5, <2>3 DEF Statement, EndStatement, EndBody, Leaf, Operand, TypeOfNull, ArgumentLost,
       ArgumentValue, UndefinedFunction, IncorrectNumber, FoundFunction, LookedUp, At, Got, Generating
  <2>4. CASE \/ NotAReference \/ ArgumentAgain \/ CreateCall \/ PipeLeft \/ PipeRight \/ OperandValue
             \/ Operation \/ Dereference
    BY <1>5, <2>4 DEF NotAReference, ArgumentAgain, CreateCall, PipeLeft, PipeRight, OperandValue,
       Operation, Dereference, NotComplete, At, Got, Generating
  <2> QED
    BY <2>1, <2>2, <2>3, <2>4 DEF Next
<1> QED
  BY <1>4, <1>6 DEF ErrorInv

LEMMA ReferencesStep ==
  ASSUME TypeInv, WalkInv, ReferencesPassed, [Next]_vars
  PROVE  ReferencesPassed'
<1>1. StackInv /\ RestInv /\ program' = program
  BY Parts, StepMoves
<1>2. Nodes' = Nodes /\ \A n : Parents(n)' = Parents(n)
  BY <1>1 DEF Nodes, Parents
<1>3. ASSUME UNCHANGED isRef PROVE ReferencesPassed'
  BY <1>2, <1>3 DEF ReferencesPassed
<1>4. CASE ArgumentAgain
  <2>1. stack # <<>> /\ Node.kind \in Calls /\ ~Complete /\ isRef' \subseteq isRef \cup {NextArg}
    BY <1>4 DEF ArgumentAgain, MarkReference, NotComplete, At, Generating
  <2>2. Top.i < Len(Node.args)
    BY <1>1, <2>1, TopFacts
  <2>3. Top.node \in Parents(NextArg)
    <3>1. NextArg = Nodes[Top.node].args[Top.i + 1] /\ Top.i + 1 \in 1 .. Len(Nodes[Top.node].args)
          /\ Top.node \in DOMAIN Nodes
      BY <1>1, <2>1, <2>2, OperandIs
    <3>2. Nodes[Top.node].args \in Seq(Nat)
      BY <1>1, <3>1, ProgramFacts DEF RestInv
    <3> QED
      BY <3>1, <3>2 DEF Parents, ToSet
  <2>4. \E m \in Parents(NextArg) : Nodes[m].kind \in Calls
    BY <2>1, <2>3 DEF Node
  <2> QED
    BY <1>2, <2>1, <2>4 DEF ReferencesPassed
<1>5. CASE \/ Statement \/ EndStatement \/ EndBody \/ ExitOnError \/ Leaf \/ Operand
           \/ TypeOfNull \/ ArgumentLost \/ ArgumentValue \/ UndefinedFunction
  BY <1>3, <1>5 DEF Statement, EndStatement, EndBody, ExitOnError, Exit, Leaf, Operand, TypeOfNull,
                    ArgumentLost, ArgumentValue, UndefinedFunction
<1>6. CASE \/ IncorrectNumber \/ FoundFunction \/ NotAReference \/ CreateCall \/ PipeLeft
           \/ PipeRight \/ OperandValue \/ Operation \/ Dereference \/ Finished \/ UNCHANGED vars
  BY <1>3, <1>6 DEF IncorrectNumber, FoundFunction, NotAReference, CreateCall, PipeLeft, PipeRight,
                    OperandValue, Operation, Dereference, Finished, vars
<1> QED
  BY <1>4, <1>5, <1>6 DEF Next

-----------------------------------------------------------------------------
(***************************************************************************)
(* The global that says that a method is called.                           *)
(***************************************************************************)
FlagSteady == program' = program /\ functionIDs' = functionIDs /\ (Cause => Cause')

LEMMA FlagEnter ==
  ASSUME StackInv, RestInv, OnPath, FlagInv, CalleesNamed, FlagSteady, NEW n \in DOMAIN Nodes,
         Enters(n), Enter(n)
  PROVE  FlagInv' /\ CalleesNamed'
<1>1. /\ Len(stack) \in Nat /\ Len(stack') = Len(stack) + 1
      /\ \A k \in 1 .. Len(stack) : stack'[k] = stack[k] /\ k \in 1 .. Len(stack')
      /\ stack'[Len(stack) + 1] = Frame(n)
      /\ \A k \in 1 .. Len(stack') : k \in 1 .. Len(stack) \/ k = Len(stack) + 1
  BY EnterStack
<1>2. /\ Frame(n).callee = 0
      /\ Frame(n).shouldBeMemberFunction => Nodes[n].kind = "call" /\ isCallMemberFunction
  BY DEF Frame
<1>3. Nodes' = Nodes /\ functionIDs' = functionIDs /\ (Cause => Cause') /\ \A m : FullName(m)' = FullName(m)
  BY DEF FlagSteady, Nodes, FullName
<1>4. isCallMemberFunction' => isCallMemberFunction
  BY DEF Enter
<1>5. Frame(n).shouldBeMemberFunction => Cause
  <2> SUFFICES ASSUME Nodes[n].kind = "call", isCallMemberFunction, ~Cause PROVE FALSE
    BY <1>2
  <2>1. PICK k \in 1 .. Len(stack) : Nodes[stack[k].node].kind = "method"
    BY DEF FlagInv
  <2>2. stack # <<>>
    BY <2>1
  <2>3. Top.i < Len(Node.args) /\ n = NextArg
    BY <2>2 DEF Enters
  <2>4. stack[k].node \in Above[n]
    BY <2>2, <2>3, BegunBelow
  <2> QED
    BY <2>1, <2>4 DEF Cause, CallInMethod
<1>6. FlagInv'
  <2>1. isCallMemberFunction' =>
          Cause' \/ \E k \in 1 .. Len(stack') : Nodes'[stack'[k].node].kind = "method" /\ stack'[k].round = 2
    BY <1>1, <1>3, <1>4 DEF FlagInv
  <2>2. ASSUME NEW k \in 1 .. Len(stack'), stack'[k].shouldBeMemberFunction PROVE Cause'
    BY <1>1, <1>3, <1>5, <2>2 DEF FlagInv
  <2> QED
    BY <2>1, <2>2 DEF FlagInv
<1>7. CalleesNamed'
  BY <1>1, <1>2, <1>3 DEF CalleesNamed
<1> QED
  BY <1>6, <1>7

LEMMA FlagChange ==
  ASSUME StackInv, RestInv, FlagInv, CalleesNamed, FlagSteady, stack # <<>>, NEW u, Changed(u),
         u.node = Top.node, u.round = 2 \/ u.round = Top.round,
         u.shouldBeMemberFunction = Top.shouldBeMemberFunction,
         \/ Node.kind \notin Calls
         \/ u.callee = Top.callee
         \/ functionIDs[u.callee].name = FullName(Top.node),
         isCallMemberFunction' => isCallMemberFunction \/ (Node.kind = "method" /\ u.round = 2)
  PROVE  FlagInv' /\ CalleesNamed'
<1>1. /\ Len(stack) \in Nat \ {0} /\ Len(stack') = Len(stack)
      /\ \A k \in 1 .. Len(stack) : stack'[k] = IF k = Len(stack) THEN u ELSE stack[k]
  BY ChangedStack
<1>2. Len(stack) \in 1 .. Len(stack) /\ Top = stack[Len(stack)] /\ Node = Nodes[Top.node]
  BY TopIs
<1>3. Nodes' = Nodes /\ functionIDs' = functionIDs /\ (Cause => Cause') /\ \A m : FullName(m)' = FullName(m)
  BY DEF FlagSteady, Nodes, FullName
<1>4. \A k \in 1 .. Len(stack) :
        /\ stack'[k].node = stack[k].node
        /\ stack[k].round = 2 => stack'[k].round = 2
        /\ stack'[k].shouldBeMemberFunction = stack[k].shouldBeMemberFunction
  BY <1>1, <1>2
<1>5. FlagInv'
  <2>1. ASSUME isCallMemberFunction', ~Cause'
        PROVE  \E k \in 1 .. Len(stack') : Nodes'[stack'[k].node].kind = "method" /\ stack'[k].round = 2
    <3>1. CASE isCallMemberFunction
      <4>1. PICK k \in 1 .. Len(stack) : Nodes[stack[k].node].kind = "method" /\ stack[k].round = 2
        BY <1>3, <2>1, <3>1 DEF FlagInv
      <4> QED
        BY <1>1, <1>3, <1>4, <4>1
    <3>2. CASE Node.kind = "method" /\ u.round = 2
      BY <1>1, <1>2, <1>3, <3>2
    <3> QED
      BY <2>1, <3>1, <3>2
  <2>2. ASSUME NEW k \in 1 .. Len(stack'), stack'[k].shouldBeMemberFunction PROVE Cause'
    BY <1>1, <1>3, <1>4, <2>2 DEF FlagInv
  <2> QED
    BY <2>1, <2>2 DEF FlagInv
<1>6. CalleesNamed'
  <2>1. ASSUME NEW k \in 1 .. Len(stack), Nodes[stack'[k].node].kind \in Calls, stack'[k].callee # 0
        PROVE  functionIDs[stack'[k].callee].name = FullName(stack'[k].node)
    <3>1. CASE k # Len(stack)
      BY <1>1, <2>1, <3>1 DEF CalleesNamed
    <3>2. CASE k = Len(stack)
      <4>1. stack'[k] = u /\ Node.kind \in Calls
        BY <1>1, <1>2, <2>1, <3>2
      <4>2. Top.callee # 0 => functionIDs[Top.callee].name = FullName(Top.node)
        BY <1>2, <4>1 DEF CalleesNamed
      <4> QED
        BY <2>1, <4>1, <4>2
    <3> QED
      BY <3>1, <3>2
  <2> QED
    BY <1>1, <1>3, <2>1 DEF CalleesNamed
<1> QED
  BY <1>5, <1>6

LEMMA FlagPop ==
  ASSUME StackInv, RestInv, FlagInv, CalleesNamed, FlagSteady, stack # <<>>, NEW v, Popped(v),
         isCallMemberFunction' => isCallMemberFunction \/ Cause',
         isCallMemberFunction' /\ Node.kind = "method" => Cause'
  PROVE  FlagInv' /\ CalleesNamed'
<1>1. /\ Len(stack) \in Nat \ {0} /\ Len(stack') = Len(stack) - 1
      /\ \A k \in 1 .. Len(stack) - 1 : stack'[k] = stack[k]
  <2>1. stack \in Seq(CallFrame) /\ Len(stack) \in Nat \ {0}
    BY DEF StackInv
  <2> QED
    BY <2>1, Shorter DEF Popped
<1>2. Len(stack) \in 1 .. Len(stack) /\ Top = stack[Len(stack)] /\ Node = Nodes[Top.node]
  BY TopIs
<1>3. Nodes' = Nodes /\ functionIDs' = functionIDs /\ (Cause => Cause') /\ \A m : FullName(m)' = FullName(m)
  BY DEF FlagSteady, Nodes, FullName
<1>4. \A k \in 1 .. Len(stack') : stack'[k] = stack[k] /\ k \in 1 .. Len(stack)
  BY <1>1
<1>5. FlagInv'
  <2>1. ASSUME isCallMemberFunction', ~Cause'
        PROVE  \E k \in 1 .. Len(stack') : Nodes'[stack'[k].node].kind = "method" /\ stack'[k].round = 2
    <3>1. PICK k \in 1 .. Len(stack) : Nodes[stack[k].node].kind = "method" /\ stack[k].round = 2
      BY <1>3, <2>1 DEF FlagInv
    <3>2. k # Len(stack)
      BY <1>2, <2>1, <3>1
    <3>3. k \in 1 .. Len(stack')
      BY <1>1, <3>2
    <3> QED
      BY <1>3, <1>4, <3>1, <3>3
  <2>2. ASSUME NEW k \in 1 .. Len(stack'), stack'[k].shouldBeMemberFunction PROVE Cause'
    BY <1>3, <1>4, <2>2 DEF FlagInv
  <2> QED
    BY <2>1, <2>2 DEF FlagInv
<1>6. CalleesNamed'
  BY <1>3, <1>4 DEF CalleesNamed
<1> QED
  BY <1>5, <1>6

LEMMA FlagStill ==
  ASSUME FlagInv, CalleesNamed, FlagSteady, UNCHANGED <<stack, isCallMemberFunction>>
  PROVE  FlagInv' /\ CalleesNamed'
<1>1. Nodes' = Nodes /\ functionIDs' = functionIDs /\ (Cause => Cause') /\ \A m : FullName(m)' = FullName(m)
  BY DEF FlagSteady, Nodes, FullName
<1> QED
  BY <1>1 DEF FlagInv, CalleesNamed

LEMMA FlagStep ==
  ASSUME TypeInv, WalkInv, ValueInv, CauseInv, NEW t, PlainInv(t), [Next]_vars, ErrorInv'
  PROVE  FlagInv' /\ CalleesNamed'
<1>1. StackInv /\ RestInv /\ OnPath /\ FlagInv /\ CalleesNamed /\ ReferencesPassed
  BY Parts DEF WalkInv, CauseInv
<1>2. FlagSteady
  BY StepMoves, CauseKept DEF FlagSteady
<1>3. ASSUME NEW n \in DOMAIN Nodes, Enters(n), Enter(n) PROVE FlagInv' /\ CalleesNamed'
  BY <1>1, <1>2, <1>3, FlagEnter
<1>4. ASSUME stack # <<>>, returned # Waiting, Receive, UNCHANGED isCallMemberFunction
      PROVE  FlagInv' /\ CalleesNamed'
  <2>1. PICK u : u = Received
    OBVIOUS
  <2>2. u.node = Top.node /\ u.round = Top.round /\ u.callee = Top.callee
    BY <1>1, <1>4, <2>1, ReceivedFields
  <2>3. u.shouldBeMemberFunction = Top.shouldBeMemberFunction
    BY <1>1, <1>4, <2>1, TopFacts DEF Received, CallFrame
  <2>4. Changed(u)
    BY <1>4, <2>1 DEF Receive, Changed
  <2> QED
    BY <1>1, <1>2, <1>4, <2>2, <2>3, <2>4, FlagChange
<1>5. ASSUME NEW v, stack # <<>>, Popped(v), UNCHANGED isCallMemberFunction,
             Node.kind = "method" => Cause'
      PROVE  FlagInv' /\ CalleesNamed'
  BY <1>1, <1>2, <1>5, FlagPop
<1>6. ASSUME UNCHANGED <<stack, isCallMemberFunction>> PROVE FlagInv' /\ CalleesNamed'
  BY <1>1, <1>2, <1>6, FlagStill
<1>7. wasError' => Cause'
  BY DEF ErrorInv
<1>8. CASE Statement
  <2>1. stmt \in 1 .. Len(program.body)
    BY <1>1, <1>8, SizeFacts DEF Statement, RestInv
  <2>2. program.body[stmt] \in DOMAIN Nodes
    BY <1>1, <2>1, ProgramFacts DEF RestInv
  <2>3. Enters(program.body[stmt]) /\ Enter(program.body[stmt])
    BY <1>8 DEF Statement, Enters, Enter, Pushed, Kept
  <2> QED
    BY <1>3, <2>2, <2>3
<1>9. CASE Operand \/ ArgumentAgain
  <2>1. /\ stack # <<>> /\ returned = Waiting /\ status = "generating" /\ ~Complete
        /\ Enter(NextArg) /\ UNCHANGED <<stmt, code, wasError, status>>
    BY <1>9 DEF Operand, ArgumentAgain, NotComplete, At, Generating
  <2>2. NextArg \in DOMAIN Nodes /\ Top.i < Len(Node.args)
    BY <1>1, <2>1, TopFacts
  <2>3. Enters(NextArg)
    BY <2>1, <2>2 DEF Enters, Enter, Pushed, Kept
  <2> QED
    BY <1>3, <2>1, <2>2, <2>3
<1>10. CASE EndStatement \/ EndBody \/ ExitOnError \/ TypeOfNull \/ Finished \/ UNCHANGED vars
  <2>1. UNCHANGED <<stack, isCallMemberFunction>>
    BY <1>10 DEF EndStatement, EndBody, ExitOnError, Exit, TypeOfNull, Finished, vars
  <2> QED
    BY <1>6, <2>1
<1>11. CASE ArgumentValue \/ PipeLeft \/ OperandValue
  BY <1>4, <1>11 DEF ArgumentValue, PipeLeft, OperandValue, Got, Generating
<1>12. CASE FoundFunction
  <2>1. /\ stack # <<>> /\ returned = Waiting /\ Node.kind \in Calls /\ LookedUp /\ Callee # 0
        /\ stack' = [stack EXCEPT ![Len(stack)] = Again] /\ returned' = returned
        /\ isCallMemberFunction' => isCallMemberFunction \/ Node.kind = "method"
    BY <1>12 DEF FoundFunction, LookedUp, At, Generating
  <2>2. PICK u : u = Again
    OBVIOUS
  <2>3. u.node = Top.node /\ u.round = 2 /\ u.callee = Callee
    BY <1>1, <2>1, <2>2, AgainFields
  <2>4. u.shouldBeMemberFunction = Top.shouldBeMemberFunction
    BY <1>1, <2>1, <2>2, TopFacts DEF Again, CallFrame
  <2>5. Changed(u)
    BY <2>1, <2>2 DEF Changed
  <2>6. functionIDs[u.callee].name = FullName(Top.node)
    BY <1>1, <2>1, <2>3, CalleeIs DEF ValueInv
  <2> QED
    BY <1>1, <1>2, <2>1, <2>3, <2>4, <2>5, <2>6, FlagChange
<1>13. CASE Leaf
  <2>1. stack # <<>> /\ Node.kind # "method" /\ UNCHANGED isCallMemberFunction /\ \E v : Popped(v)
    BY <1>13 DEF Leaf, Leaves, At, Generating, Return, Popped
  <2> QED
    BY <1>5, <2>1
<1>14. CASE ArgumentLost
  <2>1. stack # <<>> /\ UNCHANGED isCallMemberFunction /\ Popped(Null)
    BY <1>14 DEF ArgumentLost, Got, Generating, Return, Popped
  <2>2. Node.kind = "method" => Cause'
    BY <1>1, <1>2, <1>14, ArgumentLostCause DEF FlagSteady
  <2> QED
    BY <1>5, <2>1, <2>2
<1>15. CASE UndefinedFunction \/ NotAReference
  <2>1. stack # <<>> /\ UNCHANGED isCallMemberFunction /\ wasError' /\ Popped(Null)
    BY <1>15 DEF UndefinedFunction, NotAReference, NotComplete, LookedUp, At, Generating, Return, Popped
  <2> QED
    BY <1>5, <1>7, <2>1
<1>16. CASE IncorrectNumber
  <2>1. stack # <<>> /\ wasError' /\ Popped(Null)
    BY <1>16 DEF IncorrectNumber, LookedUp, At, Generating, Return, Popped
  <2> QED
    BY <1>1, <1>2, <1>7, <2>1, FlagPop
<1>17. CASE CreateCall
  <2>1. /\ stack # <<>> /\ \E v : Popped(v)
        /\ isCallMemberFunction' => isCallMemberFunction /\ Node.kind # "method"
    BY <1>17 DEF CreateCall, CallMade, At, Generating, Return, Popped
  <2> QED
    BY <1>1, <1>2, <2>1, FlagPop
<1>18. CASE PipeRight
  <2>1. stack # <<>> /\ Node.kind # "method" /\ UNCHANGED isCallMemberFunction /\ Popped(returned)
    BY <1>18 DEF PipeRight, Got, Generating, Return, Popped
  <2> QED
    BY <1>5, <2>1
<1>19. CASE Operation
  <2>1. /\ stack # <<>> /\ Node.kind # "method" /\ UNCHANGED isCallMemberFunction
        /\ UNCHANGED stack \/ \E v : Popped(v)
    BY <1>19 DEF Operation, At, Generating, Return, Popped
  <2> QED
    BY <1>5, <1>6, <2>1
<1>20. CASE Dereference
  <2>1. /\ stack # <<>> /\ Node.kind = "dereference" /\ UNCHANGED isCallMemberFunction
        /\ \/ \E v : Popped(v)
           \/ stack' = [stack EXCEPT ![Len(stack)].round = 2] /\ returned' = Waiting
    BY <1>20 DEF Dereference, Got, Generating, Return, Popped
  <2>2. ASSUME stack' = [stack EXCEPT ![Len(stack)].round = 2], returned' = Waiting
        PROVE  FlagInv' /\ CalleesNamed'
    <3>1. PICK u : u = [Top EXCEPT !.round = 2]
      OBVIOUS
    <3>2. /\ u.node = Top.node /\ u.round = 2 /\ u.shouldBeMemberFunction = Top.shouldBeMemberFunction
      BY <1>1, <2>1, <3>1, TopFacts DEF CallFrame
    <3>3. Changed(u)
      BY <1>1, <2>1, <2>2, <3>1, TopIs DEF Changed
    <3>4. Node.kind \notin Calls
      BY <2>1 DEF Calls
    <3> QED
      BY <1>1, <1>2, <2>1, <3>2, <3>3, <3>4, FlagChange
  <2> QED
    BY <1>5, <2>1, <2>2
<1> QED
  BY <1>8, <1>9, <1>10, <1>11, <1>12, <1>13, <1>14, <1>15, <1>16, <1>17, <1>18, <1>19, <1>20 DEF Next

LEMMA CauseInitially == Init => CauseInv
<1> SUFFICES ASSUME Init PROVE CauseInv
  OBVIOUS
<1>1. stack = <<>> /\ Len(stack) = 0 /\ isRef = {} /\ ~isCallMemberFunction /\ ~wasError /\ status # "exited"
  BY DEF Init
<1> QED
  BY <1>1 DEF CauseInv, CalleesNamed, ReferencesPassed, FlagInv, ErrorInv

LEMMA QualifiedAlways == Spec => []QualifiedInv
<1>1. QualifiedInv /\ TypeInv /\ WalkInv /\ [Next]_vars => QualifiedInv'
  BY QualifiedStep
<1> QED
  BY <1>1, QualifiedInitially, TypeAlways, WalkAlways, PTL DEF Spec

LEMMA CauseStep ==
  ASSUME TypeInv, WalkInv, ValueInv, QualifiedInv, PlainAlready, CauseInv, [Next]_vars
  PROVE  CauseInv'
<1>1. PICK t : PlainInv(t)
  BY DEF PlainAlready
<1>2. ErrorInv'
  BY <1>1, ErrorStep DEF PlainInv
<1>3. FlagInv' /\ CalleesNamed'
  BY <1>1, <1>2, FlagStep
<1>4. ReferencesPassed'
  BY ReferencesStep DEF CauseInv
<1> QED
  BY <1>2, <1>3, <1>4 DEF CauseInv

LEMMA CauseAlways == Spec => []CauseInv
<1>1. CauseInv /\ TypeInv /\ WalkInv /\ BindInv /\ QualifiedInv /\ PlainAlready /\ [Next]_vars => CauseInv'
  BY CauseStep DEF BindInv
<1> QED
  BY <1>1, CauseInitially, TypeAlways, WalkAlways, BindAlways, QualifiedAlways, PlainAlways, PTL DEF Spec

\* The compiler exits in the last pass only if a call does not fit a function of its name or
\* may score as a mismatch of an #exact argument, if nothing can be done with a half, if a
\* method is called in what is generated twice or a call in the argument of a method, or if
\* the operand of a dereference is lost (the compilerError calls of generateCallExpression,
\* generateMemberAccess, generateBinaryExpression and generateUnaryExpression, and the
\* globals isCallMemberFunction and wasError).
THEOREM CallEmissionExitHasCause == Spec => []ExitHasCause
<1>1. CauseInv => ExitHasCause
  BY DEF CauseInv, ErrorInv, Cause, Misfit, HalfOperator, HalfUsed, MethodTwice, CallInMethod,
         Doubled, ExitHasCause
<1> QED
  BY <1>1, CauseAlways, PTL
=============================================================================
