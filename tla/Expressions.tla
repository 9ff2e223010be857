----------------------------- MODULE Expressions -----------------------------
(***************************************************************************)
(* What expressions compute: generateConstant, generateVariableExpression, *)
(* generateCast, generateBinaryExpression with castToHighestAccuracy and   *)
(* castValue, and the stores of generateExpressionStatement                *)
(* (src/src/codegen.cpp).                                                  *)
(*                                                                         *)
(* The value of a node is known when it is generated: the body is a        *)
(* straight line.  An LLVM value has lost the sign of its type; beside it  *)
(* is kept what is meant, by the types of the source.                      *)
(*                                                                         *)
(* Integers of 64 and 128 bits, characters and bitwise operations are      *)
(* left out, being treated as these are, and so are pointers, with    *)
(* which nothing is computed, and overloaded operators (module Codegen).   *)
(* Floating-point numbers have one binary place, to which products and     *)
(* quotients are rounded; one is known by twice its value.                 *)
(***************************************************************************)
EXTENDS Overloads

CONSTANTS
  Bits,       \* the width of the LLVM integer types
  Numbers,    \* what a floating-point value that is not determined can be
  Families    \* functions: [bodies |-> sequences of declarations and assignments,
              \*             arguments |-> what they are called with]

VARIABLES
  program,
  stmt,          \* the statement generateScopeBody is at
  values,        \* what the nodes of its right side were generated to, in that order
  pipeOperationValue,  \* the left sides of the open pipes, by their place in values
  namedValues,   \* what is in the alloca of a variable, which is of the type of that
  status,        \* "generating", "exited" (1), "aborted", "undefined" or "done"
  meant,         \* history: what the nodes of the right side mean
  meantValues    \* history: what the variables mean

vars == <<program, stmt, values, pipeOperationValue, namedValues, status, meant, meantValues>>

Signed == {"int8", "int16", "int"}
Unsigned == {"uint8", "uint16", "uint"}
Floating == {"half", "float", "double"}
TypeNames == Signed \cup Unsigned \cup Floating \cup {"bool"}

\* getLLVMTypeFromString
LLVMType ==
  [t \in TypeNames |->
     CASE t = "bool" -> "i1"
       [] t \in {"int8", "uint8"} -> "i8"
       [] t \in {"int16", "uint16"} -> "i16"
       [] t \in {"int", "uint"} -> "i32"
       [] t \in Floating -> t]

LLVMIntegers == {"i1", "i8", "i16", "i32"}

\* getStringTypeFromLLVMType: the name of a type that an LLVM type may be of
TypeString ==
  [t \in LLVMIntegers \cup Floating |->
     CASE t = "i1" -> "bool" [] t = "i8" -> "int8" [] t = "i16" -> "int16" [] t = "i32" -> "int32"
       [] t \in Floating -> t]

\* getASTNodeTypeFromString of that name
ASTNodeType ==
  [t \in LLVMIntegers \cup Floating |->
     CASE t = "i1" -> Boolean_Node [] t = "i8" -> SInt8_Type [] t = "i16" -> SInt16_Type
       [] t = "i32" -> SInt32_Type
       [] t = "half" -> Half_Type [] t = "float" -> Float_Node [] t = "double" -> Double_Type]

typeSigns(name) == name \in Signed \cup {"int32"}

-----------------------------------------------------------------------------
(***************************************************************************)
(* LLVM values                                                             *)
(***************************************************************************)
Value(type, n) == [type |-> type, n |-> n]
Null == Value("null", 0)     \* nullptr
Trap == Value("trap", 0)     \* no value: undefined behaviour

\* The bits of x in an integer type, and the number that they are with a sign
Low(type, x) == Value(type, x % 2 ^ Bits[type])
WithSign(v) == IF v.n >= 2 ^ (Bits[v.type] - 1) THEN v.n - 2 ^ Bits[v.type] ELSE v.n
Number(v, signed) == IF signed THEN WithSign(v) ELSE v.n

Fits(x, type, signed) ==
  IF signed THEN x \in -(2 ^ (Bits[type] - 1)) .. 2 ^ (Bits[type] - 1) - 1
            ELSE x \in 0 .. 2 ^ Bits[type] - 1

AnyOf(type) == {Value(type, n) : n \in IF type \in Floating THEN Numbers ELSE 0 .. 2 ^ Bits[type] - 1}

\* Division, as a processor does it, toward zero
Quotient(x, y) ==
  LET Abs(z) == IF z < 0 THEN -z ELSE z
      q == Abs(x) \div Abs(y)
  IN IF (x < 0) = (y < 0) THEN q ELSE -q

\* castValue: what it may return.  A number that does not fit becomes any.
CastValue(v, destType, isSrcSigned, isToSigned) ==
  CASE v.type = destType -> {v}
    [] v.type \in LLVMIntegers /\ destType \in LLVMIntegers -> {Low(destType, Number(v, isSrcSigned))}
    [] v.type \in LLVMIntegers /\ destType \in Floating -> {Value(destType, 2 * Number(v, isSrcSigned))}
    [] v.type \in Floating /\ destType \in LLVMIntegers ->
         IF Fits(Quotient(v.n, 2), destType, isToSigned)
         THEN {Low(destType, Quotient(v.n, 2))} ELSE AnyOf(destType)
    [] v.type \in Floating /\ destType \in Floating /\ v.type # destType -> {Value(destType, v.n)}

\* Mutant of MoreAccurate: the other way round.
LessAccurate(s, t) == ASTNodeType[s] > ASTNodeType[t]

\* The type that comes first in the enumeration is taken to be the more accurate
\* one, an integer to be more so than a floating-point number.
MoreAccurate(s, t) == ASTNodeType[s] < ASTNodeType[t]

\* castToHighestAccuracy: the two operands as they may be afterwards, which is not
\* at all if one is a half.
CastToHighestAccuracy(L, R) ==
  LET Cast(v, to) == CastValue(v, to.type, typeSigns(TypeString[to.type]), typeSigns(TypeString[v.type]))
  IN CASE "half" \in {L.type, R.type} -> {}
       [] "half" \notin {L.type, R.type} /\ MoreAccurate(L.type, R.type) -> {<<L, r>> : r \in Cast(R, L)}
       [] "half" \notin {L.type, R.type} /\ ~MoreAccurate(L.type, R.type) -> {<<l, R>> : l \in Cast(L, R)}

\* The operators that are not always overloaded ones
Comparisons == {"==", "!=", "<", ">", ">="}
Operators == Comparisons \cup {"+", "-", "*", "/"}

Holds(op, x, y) ==
  CASE op = "==" -> x = y [] op = "!=" -> x # y [] op = "<" -> x < y
    [] op = ">" -> x > y [] op = ">=" -> x >= y
Compare(op, x, y) == Value("i1", IF Holds(op, x, y) THEN 1 ELSE 0)

\* generateIntegerBinaryOp.  Division and comparison take the numbers to have a
\* sign.  Division by zero, or of the least number by -1, is undefined.
IntegerBinaryOp(op, L, R) ==
  LET x == WithSign(L)
      y == WithSign(R)
  IN CASE op \in Comparisons -> {Compare(op, x, y)}
       [] op = "+" -> {Low(L.type, x + y)}
       [] op = "-" -> {Low(L.type, x - y)}
       [] op = "*" -> {Low(L.type, x * y)}
       [] op = "/" /\ (y = 0 \/ ~Fits(Quotient(x, y), L.type, TRUE)) -> {Trap}
       [] op = "/" /\ y # 0 /\ Fits(Quotient(x, y), L.type, TRUE) -> {Low(L.type, Quotient(x, y))}

\* generateFloatBinaryOp
FloatBinaryOp(op, L, R) ==
  CASE op \in Comparisons -> {Compare(op, L.n, R.n)}
    [] op = "+" -> {Value(L.type, L.n + R.n)}
    [] op = "-" -> {Value(L.type, L.n - R.n)}
    [] op = "*" -> {Value(L.type, Quotient(L.n * R.n, 2))}
    [] op = "/" -> IF R.n = 0 THEN AnyOf(L.type) ELSE {Value(L.type, Quotient(2 * L.n, R.n))}

SameTypes(op, L, R) ==
  CASE L.type \in LLVMIntegers -> IntegerBinaryOp(op, L, R)
    [] L.type = "float" -> FloatBinaryOp(op, L, R)
    [] OTHER -> {Null}         \* isFloatTy is about float only

\* generateBinaryExpression, of operands that have been generated
BinaryExpression(op, L, R) ==
  CASE Null \in {L, R} -> {Null}
    [] Null \notin {L, R} /\ L.type = R.type -> SameTypes(op, L, R)
    [] Null \notin {L, R} /\ L.type # R.type ->
         LET pairs == CastToHighestAccuracy(L, R)
         IN IF pairs = {} THEN {Null} ELSE UNION {SameTypes(op, p[1], p[2]) : p \in pairs}

\* What is read from an alloca after v was stored to it: one of another type gets
\* the bytes it has in common with v, and a v that is larger is stored past its end.
Bytes == [t \in LLVMIntegers \cup Floating |->
            CASE t \in {"i1", "i8"} -> 1 [] t \in {"i16", "half"} -> 2
              [] t \in {"i32", "float"} -> 4 [] t = "double" -> 8]
Store(old, v) ==
  CASE v.type = old.type -> {v}
    [] Bytes[v.type] > Bytes[old.type] -> {Trap}
    [] /\ v.type # old.type
       /\ Bytes[v.type] <= Bytes[old.type] ->
         IF {v.type, old.type} \subseteq LLVMIntegers \ {"i1"}
         THEN {Value(old.type, old.n - (old.n % 2 ^ Bits[v.type]) + v.n)}
         ELSE AnyOf(old.type)

-----------------------------------------------------------------------------
(***************************************************************************)
(* What is meant: a number of a type, converted to the wider type of two,  *)
(* to the one without a sign if they are as wide.  "sure" is false where   *)
(* the program does not say, and from where the code is known to read it   *)
(* otherwise:                                                              *)
(*  - a true boolean, or an integer without a sign whose high bit is set,  *)
(*    is widened, made a floating-point number, divided or compared as a   *)
(*    negative number;                                                     *)
(*  - a number other than 0 and 1 is made a boolean by its lowest bit;     *)
(*  - an operation on an integer and a floating-point number is made of    *)
(*    integers, or is refused;                                             *)
(*  - doubles and halves are not computed with;                            *)
(*  - a variable keeps the type it had first.                              *)
(***************************************************************************)
Meaning(type, x, sure) == [type |-> type, x |-> x, sure |-> sure]
Unsure(type) == Meaning(type, 0, FALSE)

Width(t) == Bits[LLVMType[t]]
InRange(t, x) == LET n == x % 2 ^ Width(t) IN IF t \in Signed THEN WithSign(Value(LLVMType[t], n)) ELSE n
High(m) == m.type \notin Signed /\ m.x >= 2 ^ (Width(m.type) - 1)

One(t) == IF t \in Floating THEN 2 ELSE 1

Converted(m, t) ==
  CASE t = "bool" -> Meaning(t, IF m.x = 0 THEN 0 ELSE 1, m.sure /\ m.x \in {0, One(m.type)})
    [] t # "bool" /\ {m.type, t} \subseteq Floating -> Meaning(t, m.x, m.sure)
    [] t \notin Floating \cup {"bool"} /\ m.type \in Floating ->
         LET q == Quotient(m.x, 2) IN Meaning(t, InRange(t, q), m.sure /\ InRange(t, q) = q)
    [] t \in Floating /\ m.type \notin Floating -> Meaning(t, 2 * m.x, m.sure /\ ~High(m))
    [] t # "bool" /\ {m.type, t} \cap Floating = {} ->
         Meaning(t, InRange(t, m.x), m.sure /\ (High(m) => Width(t) <= Width(m.type)))

Common(s, t) ==
  CASE Width(s) > Width(t) -> s
    [] Width(s) < Width(t) -> t
    [] Width(s) = Width(t) -> IF s \in Signed THEN t ELSE s

ComputedIntegers(op, a, b) ==
  LET both == a.sure /\ b.sure
      signsAgree == ~High(a) /\ ~High(b)
      q == Quotient(a.x, b.x)
  IN CASE op \in Comparisons ->
            Meaning("bool", IF Holds(op, a.x, b.x) THEN 1 ELSE 0, both /\ (signsAgree \/ op \in {"==", "!="}))
       [] op = "+" -> Meaning(a.type, InRange(a.type, a.x + b.x), both)
       [] op = "-" -> Meaning(a.type, InRange(a.type, a.x - b.x), both)
       [] op = "*" -> Meaning(a.type, InRange(a.type, a.x * b.x), both)
       [] op = "/" -> IF b.x = 0 \/ InRange(a.type, q) # q THEN Unsure(a.type)
                      ELSE Meaning(a.type, q, both /\ signsAgree)

Computed(op, a, b) ==
  CASE {a.type, b.type} \cap Floating = {} ->
         LET t == Common(a.type, b.type) IN ComputedIntegers(op, Converted(a, t), Converted(b, t))
    [] a.type = "float" /\ b.type = "float" ->
         LET v == CHOOSE v \in FloatBinaryOp(op, Value("float", a.x), Value("float", b.x)) : TRUE
         IN Meaning(IF op \in Comparisons THEN "bool" ELSE "float", v.n,
                    a.sure /\ b.sure /\ ~(op = "/" /\ b.x = 0))
    [] OTHER -> Unsure("float")

\* A variable that is there keeps its type.
Kept(old, m) == IF LLVMType[m.type] = LLVMType[old.type] THEN Converted(m, old.type) ELSE Unsure(old.type)

\* A value is what is meant
Represented(m) == IF m.type \in Floating THEN m.x ELSE m.x % 2 ^ Width(m.type)
Agrees(v, m) == v.type = LLVMType[m.type] /\ v.n = Represented(m)
-----------------------------------------------------------------------------
Init ==
  /\ \E f \in Families : program \in [arguments : f.arguments, statements : f.bodies]
  /\ stmt = 1
  /\ values = <<>>
  /\ pipeOperationValue = <<>>
  /\ namedValues = [a \in DOMAIN program.arguments |->
                      Value(LLVMType[program.arguments[a].type], Represented(program.arguments[a]))]
  /\ status = "generating"
  /\ meant = <<>>
  /\ meantValues = program.arguments

Statement == program.statements[stmt]
Generating == status = "generating" /\ stmt <= Len(program.statements)
Node == Statement.nodes[Len(values) + 1]
AtNode(kind) == Generating /\ Len(values) < Len(Statement.nodes) /\ Node.kind = kind

\* The node has the value v, and means m; or generating it does not end.
Generated(v, m) ==
  /\ meant' = Append(meant, m)
  /\ IF v = Trap THEN status' = "undefined" /\ UNCHANGED values
                 ELSE values' = Append(values, v) /\ UNCHANGED status
  /\ UNCHANGED <<program, stmt, namedValues, meantValues>>

\* A literal.  stoi throws when it is out of range, and nothing catches that.
GenerateConstant ==
  /\ AtNode("constant")
  /\ IF Node.type = "int" /\ ~Fits(Node.x, "i32", TRUE)
     THEN status' = "aborted" /\ UNCHANGED <<program, stmt, values, namedValues, meant, meantValues>>
     ELSE Generated(Value(LLVMType[Node.type], Node.x), Meaning(Node.type, Node.x, TRUE))
  /\ UNCHANGED pipeOperationValue

GenerateVariableExpression ==
  /\ AtNode("variable")
  /\ IF Node.name \in DOMAIN namedValues
     THEN Generated(namedValues[Node.name], meantValues[Node.name])
     ELSE Generated(Null, Unsure("int"))
  /\ UNCHANGED pipeOperationValue

\* #cast name : type
GenerateCast ==
  /\ AtNode("cast")
  /\ IF Node.name \in DOMAIN namedValues
     THEN \E v \in CastValue(namedValues[Node.name], LLVMType[Node.type], TRUE, typeSigns(Node.type)) :
            Generated(v, Converted(meantValues[Node.name], Node.type))
     ELSE Generated(Trap, Unsure(Node.type))
  /\ UNCHANGED pipeOperationValue

GenerateBinaryExpression ==
  /\ AtNode("binary")
  /\ \E v \in BinaryExpression(Node.op, values[Node.left], values[Node.right]) :
       Generated(v, Computed(Node.op, meant[Node.left], meant[Node.right]))
  /\ UNCHANGED pipeOperationValue

\* The left side of a pipe has been generated.
GeneratePipe ==
  /\ AtNode("pipe")
  /\ pipeOperationValue' = Append(pipeOperationValue, Node.left)
  /\ Generated(values[Node.left], meant[Node.left])

GeneratePipePlaceholder ==
  /\ AtNode("placeholder")
  /\ IF pipeOperationValue # <<>>
     THEN Generated(values[Last(pipeOperationValue)], meant[Last(pipeOperationValue)])
     ELSE Generated(Null, Unsure("int"))
  /\ UNCHANGED pipeOperationValue

\* Mutant of FinishPipe: the value is left on the stack.
FinishPipeUnpopped ==
  /\ AtNode("piped")
  /\ Generated(Last(values), Last(meant))
  /\ UNCHANGED pipeOperationValue

\* Its right side has been generated.
FinishPipe ==
  /\ AtNode("piped")
  /\ pipeOperationValue' = Front(pipeOperationValue)
  /\ Generated(Last(values), Last(meant))

NextStatement == stmt' = stmt + 1 /\ values' = <<>> /\ meant' = <<>>

\* name : type, which is zero
Declare ==
  /\ Generating
  /\ Statement.nodes = <<>>
  /\ LET name == Statement.target
         zero == Value("i32", 0)
     IN IF name \in DOMAIN namedValues
        THEN /\ meantValues' = [meantValues EXCEPT ![name] =
                                  IF @.type = Statement.type THEN @ ELSE Unsure(@.type)]
             /\ UNCHANGED namedValues
        ELSE /\ \E v \in CastValue(zero, LLVMType[Statement.type], TRUE, typeSigns(Statement.type)) :
                  namedValues' = (name :> v) @@ namedValues
             /\ meantValues' = (name :> Meaning(Statement.type, 0, TRUE)) @@ meantValues
  /\ NextStatement
  /\ UNCHANGED <<program, pipeOperationValue, status>>

\* name = ... and name : type = ...
AtAssignment == Generating /\ Statement.nodes # <<>> /\ Len(values) = Len(Statement.nodes)
AssignedValues ==
  IF Statement.type = "" THEN {Last(values)}
  ELSE CastValue(Last(values), LLVMType[Statement.type], TRUE, typeSigns(Statement.type))
AssignedMeaning == IF Statement.type = "" THEN Last(meant) ELSE Converted(Last(meant), Statement.type)

NoRightSide ==
  /\ AtAssignment
  /\ Last(values) = Null
  /\ status' = "exited"
  /\ UNCHANGED <<program, stmt, values, pipeOperationValue, namedValues, meant, meantValues>>

Define ==
  /\ AtAssignment
  /\ Last(values) # Null
  /\ Statement.target \notin DOMAIN namedValues
  /\ \E v \in AssignedValues : namedValues' = (Statement.target :> v) @@ namedValues
  /\ meantValues' = (Statement.target :> AssignedMeaning) @@ meantValues
  /\ NextStatement
  /\ UNCHANGED <<program, pipeOperationValue, status>>

Assign ==
  /\ AtAssignment
  /\ Last(values) # Null
  /\ Statement.target \in DOMAIN namedValues
  /\ meantValues' = [meantValues EXCEPT ![Statement.target] = Kept(@, AssignedMeaning)]
  /\ \E v \in AssignedValues : \E r \in Store(namedValues[Statement.target], v) :
       IF r = Trap THEN status' = "undefined" /\ UNCHANGED <<stmt, values, namedValues, meant>>
       ELSE namedValues' = [namedValues EXCEPT ![Statement.target] = r] /\ NextStatement /\ UNCHANGED status
  /\ UNCHANGED <<program, pipeOperationValue>>

Finish ==
  /\ status = "generating"
  /\ stmt > Len(program.statements)
  /\ status' = "done"
  /\ UNCHANGED <<program, stmt, values, pipeOperationValue, namedValues, meant, meantValues>>

Ended == status # "generating" /\ UNCHANGED vars

Next ==
  \/ GenerateConstant \/ GenerateVariableExpression \/ GenerateCast \/ GenerateBinaryExpression
  \/ GeneratePipe \/ GeneratePipePlaceholder \/ FinishPipe
  \/ Declare \/ NoRightSide \/ Define \/ Assign \/ Finish \/ Ended

Spec == Init /\ [][Next]_vars
-----------------------------------------------------------------------------
\* A value is of an LLVM type and fits it; what is meant is beside it.
IsValue(v) ==
  \/ v.type \in LLVMIntegers /\ v.n \in 0 .. 2 ^ Bits[v.type] - 1
  \/ v.type \in Floating /\ v.n \in Int
IsMeaning(m) ==
  /\ m.type \in TypeNames
  /\ m.sure \in BOOLEAN
  /\ m.type \notin Floating => InRange(m.type, m.x) = m.x

\* The values keep their types: a node that is generated has a value of its
\* type or none, the variables always have one, and every pipe that was opened
\* in a statement has been closed at its end.
TypeOK ==
  /\ stmt \in 1 .. Len(program.statements) + 1
  /\ status \in {"generating", "exited", "aborted", "undefined", "done"}
  /\ \A k \in DOMAIN values : IsValue(values[k]) \/ values[k] = Null
  /\ \A k \in DOMAIN meant : IsMeaning(meant[k])
  /\ Len(values) <= Len(meant)
  /\ \A name \in DOMAIN namedValues : IsValue(namedValues[name]) /\ IsMeaning(meantValues[name])
  /\ DOMAIN meantValues = DOMAIN namedValues
  /\ \A k \in DOMAIN pipeOperationValue : pipeOperationValue[k] \in DOMAIN values
  /\ values = <<>> => pipeOperationValue = <<>>

\* Where the types of the source say what an expression is, and it is not one of
\* the cases the code is known to read otherwise, it is computed as that, and so is
\* what is in a variable, however many conversions, operations and assignments came
\* before; and only such a case makes the compiler stop without a value, or the
\* program do what is undefined.
ComputesAsMeant ==
  /\ \A k \in DOMAIN values : meant[k].sure => Agrees(values[k], meant[k])
  /\ \A name \in DOMAIN namedValues : meantValues[name].sure => Agrees(namedValues[name], meantValues[name])
  /\ status \in {"exited", "undefined"} =>
       \/ \E k \in DOMAIN meant : ~meant[k].sure
       \/ \E name \in DOMAIN meantValues : ~meantValues[name].sure
=============================================================================
