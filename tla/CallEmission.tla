---------------------------- MODULE CallEmission ----------------------------
(***************************************************************************)
(* Calls whose arguments are calls: generateCallExpression, the calls of   *)
(* methods in generateMemberAccess, overloaded operators, pipes and        *)
(* dereferences (src/src/codegen.cpp, in the last pass).                   *)
(*                                                                         *)
(* The arguments of a call are generated twice: for their types, which the *)
(* callee is looked up by, and for their values, when it is known which of *)
(* them are references.  What the first time leaves behind (calls emitted, *)
(* uses counted, the name in a token, isRef of a node, the globals) is     *)
(* there the second time.                                                  *)
(*                                                                         *)
(* Every function has its entry by then, every struct its methods, and     *)
(* every variable is declared: modules Codegen and Scopes are about that.  *)
(***************************************************************************)
EXTENDS Overloads, FiniteSets

CONSTANTS
  Registries,   \* the registries functionIDs can be
  Programs      \* the bodies, as [nodes |-> ..., body |-> the statements among them]

VARIABLES
  functionIDs,
  program,
  stmt,                   \* the statement generateScopeBody is at
  stack,                  \* the calls of code generators that have not returned
  returned,               \* what the last one returned, or Waiting
  tokens,                 \* token->first of every node, a qualified name
  isRef,                  \* the nodes that are generated as references
  isCallMemberFunction,
  pipeOperationValue,
  uses,                   \* functionID::uses
  code,                   \* the calls emitted
  wasError,
  status,                 \* "generating", "exited" (1), "undefined" or "done"
  lost                    \* history: a nullptr was returned to a code generator

vars == <<functionIDs, program, stmt, stack, returned, tokens, isRef, isCallMemberFunction,
          pipeOperationValue, uses, code, wasError, status, lost>>

Calls == {"call", "method"}
Leaves == {"constant", "variable", "placeholder"}
Kinds == Leaves \cup Calls \cup {"operator", "pipe", "dereference"}

Void == 0
FunctionID ==
  [name : Seq(STRING), returns : InferredTypes \cup {Void},
   userArguments : Seq([type : ASTNodeTypes, exact : BOOLEAN, ref : BOOLEAN]),
   isMemberFunction : BOOLEAN, isStructReturn : BOOLEAN, variableNumArguments : BOOLEAN]

ASTNode == [kind : Kinds, name : Seq(STRING), on : STRING, type : InferredTypes, args : Seq(Nat)]

ASSUME RegistriesAssumption == Registries \subseteq Seq(FunctionID)

\* What the parser makes of an operator has its two sides, of a dereference its operand.
ASSUME ProgramsAssumption ==
  \A p \in Programs :
    /\ p \in [nodes : Seq(ASTNode), body : Seq(Nat)]
    /\ ToSet(p.body) \subseteq DOMAIN p.nodes
    /\ \A n \in DOMAIN p.nodes :
         /\ ToSet(p.nodes[n].args) \subseteq DOMAIN p.nodes
         /\ p.nodes[n].kind \in Leaves => p.nodes[n].args = <<>>
         /\ p.nodes[n].kind = "dereference" => Len(p.nodes[n].args) = 1
         /\ p.nodes[n].kind \in {"operator", "pipe"} => Len(p.nodes[n].args) = 2

\* A method is named after its struct, and what is called is an identifier.
ASSUME NamesAssumption ==
  /\ \A r \in Registries : \A f \in ToSet(r) : f.isMemberFunction => Len(f.name) = 2
  /\ \A p \in Programs : \A n \in DOMAIN p.nodes :
       p.nodes[n].kind \in Calls => Len(p.nodes[n].name) = 1

\* A body is a forest: every node is an operand of one other, once, or a statement (an
\* operand of 0), and numbered after the node it is an operand of.
ASSUME TreesAssumption ==
  \A p \in Programs :
    LET All == 0 .. Len(p.nodes)
        operands(m) == IF m = 0 THEN p.body ELSE p.nodes[m].args
    IN
    /\ \A m \in All : \A k \in DOMAIN operands(m) : m < operands(m)[k]
    /\ \A l, m \in All : \A j \in DOMAIN operands(l), k \in DOMAIN operands(m) :
         operands(l)[j] = operands(m)[k] => l = m /\ j = k
    /\ \A n \in DOMAIN p.nodes : \E m \in All : \E k \in DOMAIN operands(m) : operands(m)[k] = n

(***************************************************************************)
(* An llvm::Value: the node that made it, the call in the code it is the   *)
(* result of (0 if it is of none), and the type inferred from it.          *)
(***************************************************************************)
Value(node, at, type) == [node |-> node, at |-> at, type |-> type]
LLVMValue == [node : Nat, at : Nat, type : Nat]
Null == Value(0, 0, Void)
Waiting == Value(0, 0, -1)

Init ==
  /\ functionIDs \in Registries
  /\ program \in Programs
  /\ stmt = 1
  /\ stack = <<>>
  /\ returned = Waiting
  /\ tokens = [n \in DOMAIN program.nodes |-> program.nodes[n].name]
  /\ isRef = {}
  /\ isCallMemberFunction = FALSE
  /\ pipeOperationValue = <<>>
  /\ uses = [f \in DOMAIN functionIDs |-> 0]
  /\ code = <<>>
  /\ wasError = FALSE
  /\ status = "generating"
  /\ lost = FALSE

-----------------------------------------------------------------------------
(***************************************************************************)
(* Calling a code generator, and returning from it.                        *)
(***************************************************************************)
Nodes == program.nodes
Top == stack[Len(stack)]
Node == Nodes[Top.node]
Generating == status = "generating" /\ stack # <<>>
At(kinds) == Generating /\ returned = Waiting /\ Node.kind \in kinds
Got(kinds) == Generating /\ returned # Waiting /\ Node.kind \in kinds

Complete == Top.i = Len(Node.args)
NextArg == Node.args[Top.i + 1]

Frame(n) ==
  [node |-> n, round |-> 1, i |-> 0, values |-> <<>>, callee |-> 0,
   shouldBeMemberFunction |-> Nodes[n].kind = "call" /\ isCallMemberFunction]

\* A plain call takes the global and resets it; a method call renames its token.
Enter(n) ==
  /\ stack' = Append(stack, Frame(n))
  /\ isCallMemberFunction' = (isCallMemberFunction /\ Nodes[n].kind # "call")
  /\ tokens' = IF Nodes[n].kind = "method" THEN [tokens EXCEPT ![n] = <<Nodes[n].on>> \o @]
                                           ELSE tokens
  /\ UNCHANGED <<returned, lost>>

Return(v) ==
  /\ stack' = SubSeq(stack, 1, Len(stack) - 1)
  /\ returned' = v
  /\ lost' = (lost \/ (v = Null /\ Len(stack) > 1))

Received == [Top EXCEPT !.values = Append(@, returned), !.i = @ + 1]

Receive ==
  /\ stack' = [stack EXCEPT ![Len(stack)] = Received]
  /\ returned' = Waiting
  /\ UNCHANGED lost

Exit == /\ status' = "exited"
        /\ UNCHANGED <<stmt, stack, returned, tokens, isRef, isCallMemberFunction,
                       pipeOperationValue, uses, code, wasError, lost>>

Input == <<functionIDs, program>>

-----------------------------------------------------------------------------
(***************************************************************************)
(* generateScopeBody                                                       *)
(***************************************************************************)
Statement ==
  /\ status = "generating" /\ stack = <<>> /\ returned = Waiting
  /\ stmt <= Len(program.body)
  /\ Enter(program.body[stmt])
  /\ UNCHANGED <<stmt, isRef, pipeOperationValue, uses, code, wasError, status>>
  /\ UNCHANGED Input

EndStatement ==
  /\ status = "generating" /\ stack = <<>> /\ returned # Waiting
  /\ ~wasError
  /\ stmt' = stmt + 1
  /\ returned' = Waiting
  /\ UNCHANGED <<stack, tokens, isRef, isCallMemberFunction, pipeOperationValue, uses, code,
                 wasError, status, lost>>
  /\ UNCHANGED Input

EndBody ==
  /\ status = "generating" /\ stack = <<>> /\ returned = Waiting
  /\ stmt > Len(program.body)
  /\ status' = "done"
  /\ UNCHANGED <<stmt, stack, returned, tokens, isRef, isCallMemberFunction,
                 pipeOperationValue, uses, code, wasError, lost>>
  /\ UNCHANGED Input

\* What follows the codegen of a child nearly everywhere: if (wasError) exit(1).
ExitOnError ==
  /\ status = "generating" /\ returned # Waiting
  /\ wasError
  /\ stack # <<>> => Node.kind \in Calls \cup {"dereference"}
  /\ Exit
  /\ UNCHANGED Input

\* Mutant of VariableType: a variable is a reference once any is.
VariableTypeOnceReferenced == IF isRef = {} THEN Node.type ELSE Identifier_Node

VariableType == IF Top.node \in isRef THEN Identifier_Node ELSE Node.type

\* generateConstant, generateVariableExpression, generatePipePlaceholder
Leaf ==
  /\ At(Leaves)
  /\ Return(CASE Node.kind = "constant" -> Value(Top.node, 0, Node.type)
              [] Node.kind = "variable" -> Value(Top.node, 0, VariableType)
              [] OTHER -> IF pipeOperationValue = <<>> THEN Null ELSE Last(pipeOperationValue))
  /\ UNCHANGED <<stmt, tokens, isRef, isCallMemberFunction, pipeOperationValue, uses, code,
                 wasError, status>>
  /\ UNCHANGED Input

\* The next operand, or the next argument for its type.
Operand ==
  /\ At(Kinds \ Leaves)
  /\ ~Complete
  /\ Node.kind \in Calls => Top.round = 1
  /\ Enter(NextArg)
  /\ UNCHANGED <<stmt, isRef, pipeOperationValue, uses, code, wasError, status>>
  /\ UNCHANGED Input

-----------------------------------------------------------------------------
(***************************************************************************)
(* Calls.  In functionID::arguments the user's arguments come after the    *)
(* returned struct and `this'; a method call passes `this' itself and asks *)
(* for the arguments as if it did not.                                     *)
(***************************************************************************)
ArgumentRefs(f) ==
  (IF f.isStructReturn THEN <<FALSE>> ELSE <<>>)
    \o (IF f.isMemberFunction THEN <<TRUE>> ELSE <<>>)
    \o [i \in 1 .. Len(f.userArguments) |-> f.userArguments[i].ref]

\* arguments[i].isReference; past the end of the vector it is anything.
IsReference(f, kind, i) ==
  LET refs == ArgumentRefs(f)
      k == IF kind = "call" /\ f.isStructReturn THEN i + 1 ELSE i
  IN IF k <= Len(refs) THEN {refs[k]} ELSE BOOLEAN

\* CalleeF->arg_size() against the arguments of the call.  For a method the second test
\* is the else of the inner if, so that it is never made.
CountFits(f, kind, count) ==
  LET arg_size == Len(ArgumentRefs(f))
      passed == IF kind = "method" \/ f.isStructReturn THEN count + 1 ELSE count
  IN IF f.variableNumArguments THEN kind = "method" \/ arg_size <= passed
                               ELSE arg_size = passed

Types ==
  (IF Node.kind = "method" THEN <<Struct_Type>> ELSE <<>>)
    \o [i \in 1 .. Len(Top.values) |-> Top.values[i].type]

Callee ==
  GetFunctionFromID(functionIDs, tokens[Top.node], Types, TRUE,
                    Node.kind = "method" \/ Top.shouldBeMemberFunction)

\* argVal->getType() comes before the test for a nullptr.
TypeOfNull ==
  /\ Got(Calls) /\ ~wasError
  /\ returned = Null /\ Top.round = 1
  /\ status' = "undefined"
  /\ UNCHANGED <<stmt, stack, returned, tokens, isRef, isCallMemberFunction,
                 pipeOperationValue, uses, code, wasError, lost>>
  /\ UNCHANGED Input

\* A nullptr the second time: the call is left out.
ArgumentLost ==
  /\ Got(Calls) /\ ~wasError
  /\ returned = Null /\ Top.round = 2
  /\ Return(Null)
  /\ UNCHANGED <<stmt, tokens, isRef, isCallMemberFunction, pipeOperationValue, uses, code,
                 wasError, status>>
  /\ UNCHANGED Input

ArgumentValue ==
  /\ Got(Calls) /\ ~wasError
  /\ returned # Null
  /\ Receive
  /\ UNCHANGED <<stmt, tokens, isRef, isCallMemberFunction, pipeOperationValue, uses, code,
                 wasError, status>>
  /\ UNCHANGED Input

LookedUp == At(Calls) /\ Top.round = 1 /\ Complete

UndefinedFunction ==
  /\ LookedUp
  /\ Callee = 0
  /\ wasError' = TRUE
  /\ Return(Null)
  /\ UNCHANGED <<stmt, tokens, isRef, isCallMemberFunction, pipeOperationValue, uses, code,
                 status>>
  /\ UNCHANGED Input

\* Mutant of CountUse: a use is counted the first time only.
CountFirstUse == uses' = [uses EXCEPT ![Callee] = 1]

CountUse == uses' = [uses EXCEPT ![Callee] = @ + 1]

IncorrectNumber ==
  /\ LookedUp
  /\ Callee # 0
  /\ ~CountFits(functionIDs[Callee], Node.kind, Len(Node.args))
  /\ CountUse
  /\ isCallMemberFunction' = (isCallMemberFunction \/ Node.kind = "method")
  /\ wasError' = TRUE
  /\ Return(Null)
  /\ UNCHANGED <<stmt, tokens, isRef, pipeOperationValue, code, status>>
  /\ UNCHANGED Input

\* Mutant of Again: ArgsV is not cleared.
AgainUncleared == [Top EXCEPT !.callee = Callee, !.round = 2, !.i = 0]

\* Mutant of Again: the values of the first time are passed.
AgainKept == [Top EXCEPT !.callee = Callee, !.round = 2]

Again == [Top EXCEPT !.callee = Callee, !.round = 2, !.i = 0, !.values = <<>>]

FoundFunction ==
  /\ LookedUp
  /\ Callee # 0
  /\ CountFits(functionIDs[Callee], Node.kind, Len(Node.args))
  /\ CountUse
  /\ isCallMemberFunction' = (isCallMemberFunction \/ Node.kind = "method")
  /\ stack' = [stack EXCEPT ![Len(stack)] = Again]
  /\ UNCHANGED <<stmt, returned, tokens, isRef, pipeOperationValue, code, wasError, status, lost>>
  /\ UNCHANGED Input

-----------------------------------------------------------------------------
NotComplete == At(Calls) /\ Top.round = 2 /\ ~Complete

Reference == IsReference(functionIDs[Top.callee], Node.kind, Top.i + 1)

\* Whether it is an identifier is asked of the first argument by a method call.
AskedOf == IF Node.kind = "method" THEN Node.args[1] ELSE NextArg

NotAReference ==
  /\ NotComplete
  /\ TRUE \in Reference
  /\ Nodes[AskedOf].kind # "variable"
  /\ wasError' = TRUE
  /\ Return(Null)
  /\ UNCHANGED <<stmt, tokens, isRef, isCallMemberFunction, pipeOperationValue, uses, code,
                 status>>
  /\ UNCHANGED Input

MarkReference == isRef' = isRef \cup {NextArg}

ArgumentAgain ==
  /\ NotComplete
  /\ \/ TRUE \in Reference /\ Nodes[AskedOf].kind = "variable" /\ MarkReference
     \/ FALSE \in Reference /\ UNCHANGED isRef
  /\ Enter(NextArg)
  /\ UNCHANGED <<stmt, pipeOperationValue, uses, code, wasError, status>>
  /\ UNCHANGED Input

EmitCall(callee) ==
  code' = Append(code, [node |-> Top.node, callee |-> callee, args |-> Top.values])

Result(type) == IF type = Void THEN Null ELSE Value(Top.node, Len(code) + 1, type)

\* A returned struct is loaded by a plain call; to a method call its callee is void.
ResultType(f) ==
  IF f.isStructReturn THEN IF Node.kind = "call" THEN Identifier_Node ELSE Void
                      ELSE f.returns

\* Mutant of CallMade: the global is left set.
CallMadeFlagged == UNCHANGED isCallMemberFunction

CallMade == isCallMemberFunction' = (isCallMemberFunction /\ Node.kind # "method")

CreateCall ==
  /\ At(Calls) /\ Top.round = 2 /\ Complete
  /\ EmitCall(Top.callee)
  /\ Return(Result(ResultType(functionIDs[Top.callee])))
  /\ CallMade
  /\ UNCHANGED <<stmt, tokens, isRef, pipeOperationValue, uses, wasError, status>>
  /\ UNCHANGED Input

-----------------------------------------------------------------------------
(***************************************************************************)
(* generateBinaryExpression: pipes, overloaded and other operators.        *)
(***************************************************************************)
PipeLeft ==
  /\ Got({"pipe"}) /\ Top.i = 0
  /\ Receive
  /\ pipeOperationValue' = Append(pipeOperationValue, returned)
  /\ UNCHANGED <<stmt, tokens, isRef, isCallMemberFunction, uses, code, wasError, status>>
  /\ UNCHANGED Input

\* Mutant of PopPipe: the value is popped only if the right side has one.
PopPipeOfValue ==
  pipeOperationValue' = IF returned = Null THEN pipeOperationValue
                        ELSE SubSeq(pipeOperationValue, 1, Len(pipeOperationValue) - 1)

PopPipe == pipeOperationValue' = SubSeq(pipeOperationValue, 1, Len(pipeOperationValue) - 1)

PipeRight ==
  /\ Got({"pipe"}) /\ Top.i = 1
  /\ Return(returned)
  /\ PopPipe
  /\ UNCHANGED <<stmt, tokens, isRef, isCallMemberFunction, uses, code, wasError, status>>
  /\ UNCHANGED Input

\* wasError is not looked at.
OperandValue ==
  /\ Got({"operator"})
  /\ Receive
  /\ UNCHANGED <<stmt, tokens, isRef, isCallMemberFunction, pipeOperationValue, uses, code,
                 wasError, status>>
  /\ UNCHANGED Input

Overload == GetNamedFunctionFromID(functionIDs, Node.name)

\* castToHighestAccuracy and what can be done with the result: no half, no other float but
\* float, no pointer.  A float is no pointer: castValue returns a nullptr, whose type is
\* asked for.
Lower(a, b) == IF a < b THEN a ELSE b
CastFails(l, r) == l # r /\ Half_Type \in {l, r}
Computes(l, r) == ~CastFails(l, r) /\ Lower(l, r) \notin {Identifier_Node, Double_Type, Half_Type}
NoCast(l, r) == Identifier_Node \in {l, r} /\ {l, r} \cap {Float_Node, Double_Type} # {}

Operation ==
  /\ At({"operator"}) /\ Complete
  /\ LET L == Top.values[1]
         R == Top.values[2]
     IN  \/ /\ Null \in {L, R}
            /\ Return(Null)
            /\ UNCHANGED <<code, wasError, status>>
         \/ /\ Null \notin {L, R} /\ Overload # 0
            /\ EmitCall(Overload)
            /\ Return(LET type == functionIDs[Overload].returns
                      IN  Result(IF type = Void THEN Identifier_Node ELSE type))
            /\ UNCHANGED <<wasError, status>>
         \/ /\ Null \notin {L, R} /\ Overload = 0
            /\ NoCast(L.type, R.type)
            /\ status' = "undefined"
            /\ UNCHANGED <<stack, returned, lost, code, wasError>>
         \/ /\ Null \notin {L, R} /\ Overload = 0
            /\ ~NoCast(L.type, R.type)
            /\ Return(IF Computes(L.type, R.type) THEN Value(Top.node, 0, Lower(L.type, R.type))
                                                  ELSE Null)
            /\ wasError' = (wasError \/ CastFails(L.type, R.type))
            /\ UNCHANGED <<code, status>>
  /\ UNCHANGED <<stmt, tokens, isRef, isCallMemberFunction, pipeOperationValue, uses>>
  /\ UNCHANGED Input

\* generateUnaryExpression: the operand of * is generated twice too.
Dereference ==
  /\ Got({"dereference"}) /\ ~wasError
  /\ \/ /\ returned = Null
        /\ Return(Null)
        /\ wasError' = (Top.round = 2)
     \/ /\ returned # Null /\ Top.round = 1
        /\ stack' = [stack EXCEPT ![Len(stack)].round = 2]
        /\ returned' = Waiting
        /\ UNCHANGED <<wasError, lost>>
     \/ /\ returned # Null /\ Top.round = 2
        /\ Return(Value(Top.node, 0, SInt32_Type))
        /\ UNCHANGED wasError
  /\ UNCHANGED <<stmt, tokens, isRef, isCallMemberFunction, pipeOperationValue, uses, code, status>>
  /\ UNCHANGED Input

Finished == status # "generating" /\ UNCHANGED vars

Next ==
  \/ Statement \/ EndStatement \/ EndBody \/ ExitOnError
  \/ Leaf \/ Operand
  \/ TypeOfNull \/ ArgumentLost \/ ArgumentValue
  \/ UndefinedFunction \/ IncorrectNumber \/ FoundFunction
  \/ NotAReference \/ ArgumentAgain \/ CreateCall
  \/ PipeLeft \/ PipeRight \/ OperandValue \/ Operation
  \/ Dereference
  \/ Finished

Spec == Init /\ [][Next]_vars


-----------------------------------------------------------------------------
CallFrame ==
  [node : DOMAIN program.nodes, round : {1, 2}, i : Nat, values : Seq(LLVMValue),
   callee : 0 .. Len(functionIDs), shouldBeMemberFunction : BOOLEAN]

\* A generator has as many values as operands it is done with; a call that is generated the
\* second time has its callee.
FrameOK(frame) ==
  LET node == Nodes[frame.node] IN
  /\ frame.i <= Len(node.args)
  /\ node.kind # "dereference" => Len(frame.values) = frame.i
  /\ node.kind \in Calls => (frame.round = 2 <=> frame.callee # 0)

TypeOK ==
  /\ functionIDs \in Seq(FunctionID)
  /\ program \in [nodes : Seq(ASTNode), body : Seq(Nat)]
  /\ stmt \in 1 .. Len(program.body) + 1
  /\ stack \in Seq(CallFrame)
  /\ \A k \in 1 .. Len(stack) : FrameOK(stack[k])
  /\ returned \in LLVMValue \cup {Waiting}
  /\ tokens \in [DOMAIN program.nodes -> Seq(STRING)]
  /\ isRef \subseteq DOMAIN program.nodes
  /\ isCallMemberFunction \in BOOLEAN
  /\ pipeOperationValue \in Seq(LLVMValue)
  /\ uses \in [1 .. Len(functionIDs) -> Nat]
  /\ code \in Seq([node : DOMAIN program.nodes, callee : 1 .. Len(functionIDs),
                   args : Seq(LLVMValue)])
  /\ wasError \in BOOLEAN
  /\ status \in {"generating", "exited", "undefined", "done"}
  /\ lost \in BOOLEAN

(***************************************************************************)
(* A use is counted before its call is emitted, and for every call that is *)
(* emitted: a function whose count is zero is called by no plain call and  *)
(* no call of a method, not even by one that is never completed.           *)
(***************************************************************************)
Emitted(f) == {k \in 1 .. Len(code) : code[k].callee = f /\ Nodes[code[k].node].kind \in Calls}
Pending(f) == {k \in 1 .. Len(stack) : Nodes[stack[k].node].kind \in Calls /\ stack[k].callee = f}

UsesCoverCalls ==
  \A f \in 1 .. Len(functionIDs) :
    Cardinality(Emitted(f)) + Cardinality(Pending(f)) <= uses[f]

(***************************************************************************)
(* How often a node is generated: twice for every call and dereference it  *)
(* is below of.  If no value is missing, so often its call is emitted.     *)
(***************************************************************************)
Parents(n) == {m \in DOMAIN Nodes : n \in ToSet(Nodes[m].args)}

Generations ==
  LET generations[n \in DOMAIN Nodes] ==
        IF Parents(n) = {} THEN 1
        ELSE LET m == CHOOSE p \in Parents(n) : TRUE
             IN  generations[m] * IF Nodes[m].kind \in Calls \cup {"dereference"} THEN 2 ELSE 1
  IN generations

Times(n) == Cardinality({k \in 1 .. Len(code) : code[k].node = n})

EmittedPerGeneration ==
  \A n \in DOMAIN Nodes :
    /\ Times(n) <= Generations[n]
    /\ status = "done" /\ ~lost /\ Nodes[n].kind \in Calls => Times(n) = Generations[n]

(***************************************************************************)
(* What a call passes are the values its arguments were generated to last: *)
(* nothing of the first time gets into the call, and every argument is in  *)
(* its place.                                                              *)
(***************************************************************************)
LastValuesArePassed ==
  \A k \in 1 .. Len(code) :
    /\ Len(code[k].args) = Len(Nodes[code[k].node].args)
    /\ \A v \in ToSet(code[k].args) :
         v.at # 0 => \A j \in v.at + 1 .. k - 1 : code[j].node # v.node

(***************************************************************************)
(* A call is bound to the same function every time it is generated.  The   *)
(* exception is one with a variable below it that is passed as a           *)
(* reference, or with one in what is piped to it: generated again the      *)
(* variable is a pointer, even when its type is asked for.                 *)
(***************************************************************************)
Above ==
  LET above[n \in DOMAIN Nodes] == Parents(n) \cup UNION {above[m] : m \in Parents(n)}
  IN above

Within(n, m) == n = m \/ m \in Above[n]

PipedTo(c) == {Nodes[p].args[1] : p \in {q \in Above[c] : /\ Nodes[q].kind = "pipe"
                                                         /\ Within(c, Nodes[q].args[2])}}

References == {x \in isRef : Nodes[x].kind = "variable"}

BoundOnce ==
  \A j, k \in 1 .. Len(code) :
    code[j].node = code[k].node /\ code[j].callee # code[k].callee
      => \E x \in References : \/ code[j].node \in Above[x]
                              \/ \E p \in PipedTo(code[j].node) : Within(x, p)

(***************************************************************************)
(* pipeOperationValue holds what is left of the pipes whose right side is  *)
(* being generated, and of these only, whichever way it is left.  So % is  *)
(* the left side of the innermost pipe it is in the right side of.         *)
(***************************************************************************)
InRightSide(frame) == Nodes[frame.node].kind = "pipe" /\ frame.i = 1

OpenPipes == {k \in 1 .. Len(stack) : InRightSide(stack[k])}

PipesAreNested ==
  /\ Len(pipeOperationValue) = Cardinality(OpenPipes)
  /\ \A k \in OpenPipes :
       pipeOperationValue[Cardinality({j \in OpenPipes : j <= k})] = stack[k].values[1]

(***************************************************************************)
(* The compiler exits only for a call that some function of its name does  *)
(* not fit, or whose score can grow to that of an #exact mismatch, for one *)
(* of those operands nothing is done with, for a method called in what is  *)
(* generated twice, and for a plain call in the argument of a method.      *)
(***************************************************************************)
FullName(n) == IF Nodes[n].kind = "method" THEN <<Nodes[n].on>> \o Nodes[n].name ELSE Nodes[n].name

Fits(f, n) ==
  LET node == Nodes[n] IN
  /\ f.isMemberFunction <=> node.kind = "method"
  /\ CountFits(f, node.kind, Len(node.args))
  /\ \A i \in DOMAIN node.args :
       TRUE \in IsReference(f, node.kind, i) =>
         Nodes[node.args[IF node.kind = "method" THEN 1 ELSE i]].kind = "variable"
  /\ \A i \in DOMAIN f.userArguments : ~f.userArguments[i].exact

OfTheName(n) == {f \in ToSet(functionIDs) : f.name = FullName(n)}

ExitHasCause ==
  status = "exited" =>
    \E n \in DOMAIN Nodes :
      \/ /\ Nodes[n].kind \in Calls
         /\ \/ OfTheName(n) = {} \/ \E f \in OfTheName(n) : ~Fits(f, n)
            \/ NeedsExact <= (Boolean_Node - Integer_Node) * (Len(Nodes[n].args) + 1)
      \/ /\ Nodes[n].kind = "operator"
         /\ GetNamedFunctionFromID(functionIDs, Nodes[n].name) = 0
         /\ \/ \E m \in DOMAIN Nodes : Nodes[m].type = Half_Type
            \/ \E f \in ToSet(functionIDs) : f.returns = Half_Type
      \/ /\ Nodes[n].kind = "method"
         /\ \E m \in Above[n] : Nodes[m].kind \in Calls \cup {"dereference"}
      \/ /\ Nodes[n].kind = "call"
         /\ \E m \in Above[n] : Nodes[m].kind = "method"
      \/ Nodes[n].kind = "dereference" /\ lost
=============================================================================
