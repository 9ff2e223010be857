----------------------------- MODULE MemberAccess -----------------------------
(***************************************************************************)
(* Accesses to members and elements, a.b.c[i], in the bodies of            *)
(* StructTypes: generateMemberAccess and generateAccessOperation           *)
(* (src/src/codegen.cpp).                                                  *)
(*                                                                         *)
(* LLVM's pointers do not tell what they point to.  A member is looked up  *)
(* in the struct that is on top of a global stack, where the operand on    *)
(* the left has pushed it if it is a member; an element pushes nothing, a  *)
(* statement leaves what it pushed, and whatever else is generated pushes  *)
(* and pops too.                                                           *)
(*                                                                         *)
(* Of a variable only its type is left (module Scopes is about finding     *)
(* it).  Calls of methods are in CallEmission; there is no overload of []. *)
(***************************************************************************)
EXTENDS StructTypes

Addresses == {"variable", "member", "access"}

\* The nodes of a body whose values are still to be used after the first k nodes
Waiting(code) ==
  LET waiting[k \in 0 .. Len(code)] ==
        IF k = 0 THEN <<>>
        ELSE CASE code[k].kind \in {"constant", "variable"} -> Append(waiting[k - 1], k)
               [] code[k].kind = "member" -> Append(Front(waiting[k - 1]), k)
               [] code[k].kind = "access" -> Append(Front(Front(waiting[k - 1])), k)
               [] code[k].kind = "semicolon" -> <<>>
               [] code[k].kind = "new" -> waiting[k - 1]
  IN waiting

\* What the parser makes of an access has its operands, and a statement ends.
ASSUME CodeAssumption ==
  \A p \in Programs : \A d \in 1 .. Len(p) :
    LET code == p[d].code IN
    /\ Waiting(code)[Len(code)] = <<>>
    /\ \A k \in 1 .. Len(code) :
         LET before == Waiting(code)[k - 1] IN
         /\ code[k].kind = "member" =>
              Len(before) > 0 /\ code[before[Len(before)]].kind \in Addresses
         /\ code[k].kind = "access" =>
              Len(before) > 1 /\ code[before[Len(before) - 1]].kind \in Addresses

VARIABLES
  operands,                  \* what the generators returned that are still to be used
  lastRetrievedElementType,  \* a stack; its top is the last element
  accesses                   \* history: the members accessed, as what, and what is meant

accessVars == <<operands, lastRetrievedElementType, accesses>>
allVars == <<vars, accessVars>>

\* The value of a node: the LLVM type it is taken for, the type its declaration says, and
\* whether there was no element on the way to it.
Operand == [kind : Addresses \cup {"constant"}, type : LLVMType, meant : TypeNode, direct : BOOLEAN]

AccessInit ==
  /\ Init
  /\ operands = <<>>
  /\ lastRetrievedElementType = <<>>
  /\ accesses = {}

-----------------------------------------------------------------------------
Node == Decl.code[next]

Advance ==
  /\ next' = next + 1
  /\ UNCHANGED <<prog, pass, at, inStruct, currentStructName, structDefinitions, body,
                 fieldTypes, prototypes, layouts, zeroed, wasError, status>>

End(how) ==
  /\ Stop(how)
  /\ UNCHANGED <<prog, pass, at, inStruct, next, currentStructName, structDefinitions, body,
                 fieldTypes, prototypes, layouts, zeroed, wasError>>
  /\ UNCHANGED accessVars

\* A message, wasError, and the exit(1) of whatever called the generator.
Fail ==
  /\ wasError' = TRUE
  /\ Stop("exited")
  /\ UNCHANGED <<prog, pass, at, inStruct, next, currentStructName, structDefinitions, body,
                 fieldTypes, prototypes, layouts, zeroed>>
  /\ UNCHANGED accessVars

GenerateConstant ==
  /\ AtNode("constant")
  /\ operands' = Append(operands, [kind |-> "constant", type |-> Builtin,
                                   meant |-> [name |-> "int", pointers |-> 0], direct |-> TRUE])
  /\ Advance
  /\ UNCHANGED <<lastRetrievedElementType, accesses>>

GenerateVariable ==
  /\ AtNode("variable")
  /\ Defined(Node.type)
  /\ operands' = Append(operands, [kind |-> "variable", type |-> GetLLVMType(Node.type),
                                   meant |-> Node.type, direct |-> TRUE])
  /\ Advance
  /\ UNCHANGED <<lastRetrievedElementType, accesses>>

\* "Unknown type", where the variable is declared
UnknownVariableType ==
  /\ AtNode("variable")
  /\ ~Defined(Node.type)
  /\ Node.type.pointers = 0
  /\ Fail

\* getPointerTo of the null pointer that an unknown name gives
UnknownPointee ==
  /\ AtNode("variable")
  /\ ~Defined(Node.type)
  /\ Node.type.pointers > 0
  /\ End("undefined")

-----------------------------------------------------------------------------
(***************************************************************************)
(* What is on the left: a variable's type is looked up by its name, that   *)
(* of anything else is on top of the stack.                                *)
(***************************************************************************)
IsRetrieved(left) == left.kind # "variable"

Known(left) == IsRetrieved(left) => lastRetrievedElementType # <<>>

Remaining(left) ==
  IF IsRetrieved(left) THEN Front(lastRetrievedElementType) ELSE lastRetrievedElementType

\* std::stack::top of an empty stack
NothingRetrieved ==
  /\ \/ AtNode("member") /\ ~Known(Last(operands))
     \/ AtNode("access") /\ ~Known(operands[Len(operands) - 1])
  /\ End("undefined")

\* getStructTypeFromLLVMType, or the name of the variable's type
StructsOf(left) ==
  {s \in DOMAIN structDefinitions :
     IF IsRetrieved(left) THEN StructVal(s) = Last(lastRetrievedElementType)
                          ELSE left.meant = [name |-> s, pointers |-> 0]}

Members(s) == prog[structDefinitions[s].token].fields

\* memberNameIndexes has the last member of a name.
IndexOf(s, name) ==
  LET named == {i \in 1 .. Len(Members(s)) : Members(s)[i].name = name}
  IN {i \in named : \A j \in named : j <= i}

\* structType::members has the type of a member without its pointers.
ElementType(field) == GetLLVMType([name |-> field.type.name, pointers |-> 0])

\* Mutant of Retrieve: a member of a member does not push.
RetrieveOfVariable(left, type) ==
  IF IsRetrieved(left) THEN Remaining(left) ELSE Append(Remaining(left), type)

Retrieve(left, type) == Append(Remaining(left), type)

GenerateMember(left, s, i) ==
  LET field == Members(s)[i]
      type == ElementType(field)
  IN
  /\ operands' = Append(Front(operands), [kind |-> "member", type |-> type,
                                          meant |-> field.type, direct |-> left.direct])
  /\ lastRetrievedElementType' = Retrieve(left, type)
  /\ accesses' = accesses \cup {[struct |-> StructVal(s), index |-> i, type |-> type,
                                 of |-> left.meant, name |-> field.name,
                                 direct |-> left.direct /\ field.type.pointers = 0]}
  /\ Advance

GenerateMemberAccess ==
  /\ AtNode("member")
  /\ Known(Last(operands))
  /\ \E s \in StructsOf(Last(operands)) : \E i \in IndexOf(s, Node.name) :
       GenerateMember(Last(operands), s, i)

\* No struct has the type on top, the variable is none, or it has no such member.
NoSuchMember ==
  /\ AtNode("member")
  /\ Known(Last(operands))
  /\ \A s \in StructsOf(Last(operands)) : IndexOf(s, Node.name) = {}
  /\ Fail

-----------------------------------------------------------------------------
(***************************************************************************)
(* generateAccessOperation: the element type is the baseType of the node   *)
(* on the left, which for a variable is the type of its address, and for   *)
(* an element is not set.                                                  *)
(***************************************************************************)
Base == operands[Len(operands) - 1]
Index == Last(operands)

HasElements == Index.type = Builtin /\ Base.kind # "access"

GenerateAccessOperation ==
  /\ AtNode("access")
  /\ Known(Base)
  /\ HasElements
  /\ LET type == IF Base.kind = "variable" THEN Pointer ELSE Base.type
     IN operands' = Append(Front(Front(operands)),
                           [kind |-> "access", type |-> type, meant |-> Base.meant,
                            direct |-> FALSE])
  /\ lastRetrievedElementType' = Remaining(Base)
  /\ Advance
  /\ UNCHANGED accesses

\* The index is no integer, or the element type is a null pointer.
InvalidAccess ==
  /\ AtNode("access")
  /\ Known(Base)
  /\ ~HasElements
  /\ Fail

EndStatement ==
  /\ AtNode("semicolon")
  /\ operands' = <<>>
  /\ Advance
  /\ UNCHANGED <<lastRetrievedElementType, accesses>>

GenerateNode ==
  \/ GenerateConstant \/ GenerateVariable \/ UnknownVariableType \/ UnknownPointee
  \/ NothingRetrieved \/ GenerateMemberAccess \/ NoSuchMember
  \/ GenerateAccessOperation \/ InvalidAccess
  \/ EndStatement

AccessNext == (Next /\ UNCHANGED accessVars) \/ GenerateNode

AccessSpec == AccessInit /\ [][AccessNext]_allVars

-----------------------------------------------------------------------------
(***************************************************************************)
(* Properties                                                              *)
(***************************************************************************)
\* The walk over the declarations is typed, an operand waits only in a statement, and what
\* is on the stack are types that structDefinitions or LLVM has.
AccessTypeOK ==
  /\ TypeOK
  /\ operands \in Seq(Operand)
  /\ operands # <<>> => next > 1
  /\ \A k \in 1 .. Len(lastRetrievedElementType) :
       lastRetrievedElementType[k] \in {Builtin} \cup {StructVal(s) : s \in DOMAIN structDefinitions}

(***************************************************************************)
(* A member is accessed in the struct its left side is declared to be, or  *)
(* to point to, as what the body of that struct ends up to have there,     *)
(* whatever the accesses before it have left on the stack.  The exceptions *)
(* are members of elements, of which the stack does not know, and members  *)
(* that are pointers, which are taken for what they point to.              *)
(***************************************************************************)
MembersAsDeclared ==
  status = "written" =>
    \A a \in accesses : a.direct =>
      /\ a.of.name \in DOMAIN structDefinitions
      /\ a.struct = StructVal(a.of.name)
      /\ body[a.struct][a.index] = a.type

(***************************************************************************)
(* Nothing is undefined but for the use of an unknown type, for structs    *)
(* that hold one another by value, or for an element of which something    *)
(* more is accessed.                                                       *)
(***************************************************************************)
OfElement(code) == \E k \in 1 .. Len(code) - 1 : code[k].kind = "access" /\ code[k + 1].kind # "semicolon"

UndefinedHasCause ==
  status = "undefined" =>
    \E d \in 1 .. Len(prog) :
      \/ OfElement(prog[d].code)
      \/ \E k \in 1 .. Len(prog[d].code) :
           /\ prog[d].code[k].kind = "variable"
           /\ ~KnownName(prog[d].code[k].type.name)
      \/ /\ prog[d].kind = "struct"
         /\ \/ d \in Reached(d)
            \/ \E i \in 1 .. Len(prog[d].fields) :
                 prog[d].fields[i].typed /\ ~KnownName(prog[d].fields[i].type.name)
      \/ /\ prog[d].kind = "function"
         /\ \E i \in 1 .. Len(prog[d].params) : ~KnownName(prog[d].params[i].name)

=============================================================================
