----------------------------- MODULE StructTypes -----------------------------
(***************************************************************************)
(* The LLVM types that generateStruct makes in the three passes, what the  *)
(* fields of other structs, the prototypes and the #new expressions take   *)
(* them for, and the stack currentStructName (src/src/codegen.cpp).        *)
(*                                                                         *)
(* A struct gets an LLVM type in pass 0, without a body, and another one   *)
(* in pass 1, whose body pass 2 sets again.  A program is the sequence of  *)
(* declarations under the root node; of a body only its #new expressions   *)
(* and its accesses to members and elements are left (module MemberAccess  *)
(* generates these), and those of all the methods of a struct are one      *)
(* sequence.                                                               *)
(***************************************************************************)
EXTENDS Integers, Sequences, SequencesExt, FiniteSets

CONSTANT Programs

TypePass == 0
PrototypePass == 1
BodyPass == 2

\* The names getLLVMTypeFromString knows by itself stand as one.
Builtins == {"int"}

\* The type of a field or of a parameter; a field may lack one.
TypeNode == [name : STRING \cup Builtins, pointers : Nat]
Field == [name : STRING, typed : BOOLEAN, type : TypeNode]

\* The nodes of a body in the order their generators return; a semicolon ends a statement.
ASTNode == [kind : {"new", "member"}, name : STRING] \cup [kind : {"variable"}, type : TypeNode]
           \cup [kind : {"constant", "access", "semicolon"}]

StructDecl == [kind : {"struct"}, name : STRING, fields : Seq(Field), code : Seq(ASTNode)]
FunctionDecl == [kind : {"function"}, name : STRING, params : Seq(TypeNode),
                 code : Seq(ASTNode)]
Declaration == StructDecl \cup FunctionDecl

ASSUME ProgramsAssumption == Programs \subseteq Seq(Declaration)

VARIABLES
  prog,               \* rootNode->childNodes
  pass,
  at,                 \* index of the declaration at hand
  inStruct,           \* pass 2 is between the push and the pop of that struct
  next,               \* the next node of the body at hand
  currentStructName,  \* a stack; its top is the last element
  structDefinitions,
  body,               \* the bodies of the LLVM struct types
  fieldTypes,         \* generateStruct's local vector
  prototypes,         \* of the functions declared so far: struct name, parameter types
  layouts,            \* sizes LLVM has computed (DataLayout keeps them)
  zeroed,             \* history: the types and the sizes of the memory #new has zeroed
  wasError,
  status              \* "compiling", "exited", "written", or "undefined"

vars == <<prog, pass, at, inStruct, next, currentStructName, structDefinitions, body,
          fieldTypes, prototypes, layouts, zeroed, wasError, status>>

(***************************************************************************)
(* LLVM types: the type of a struct made in a pass, or one that is none.   *)
(***************************************************************************)
Pointer == <<"ptr", TypePass>>
Builtin == <<"int", TypePass>>
LLVMType == {Pointer, Builtin} \cup (STRING \X {TypePass, PrototypePass})

StructVal(name) == <<name, structDefinitions[name].made>>

-----------------------------------------------------------------------------
Decl == prog[at]

AtStruct == /\ status = "compiling"
            /\ ~inStruct
            /\ at \in 1 .. Len(prog)
            /\ Decl.kind = "struct"

AtFunction == /\ status = "compiling"
              /\ ~inStruct
              /\ at \in 1 .. Len(prog)
              /\ Decl.kind = "function"

InBody == /\ status = "compiling"
          /\ at \in 1 .. Len(prog)
          /\ pass = BodyPass
          /\ inStruct \/ Decl.kind = "function"

(***************************************************************************)
(* getLLVMTypeFromString, and the pointers put on its result.  A name that *)
(* is not defined gives a null pointer.  structVal is never null: the      *)
(* branch that would generate a struct, or refuse one nested in itself, is *)
(* never taken.                                                            *)
(***************************************************************************)
Defined(node) == node.name \in Builtins \cup DOMAIN structDefinitions

GetLLVMType(node) == IF node.pointers > 0 THEN Pointer
                     ELSE IF node.name \in Builtins THEN Builtin
                     ELSE StructVal(node.name)

FieldsOf(decl) == [i \in 1 .. Len(decl.fields) |-> GetLLVMType(decl.fields[i].type)]

\* Mutant of ParametersOf: a parameter has the type its struct had in pass 0.
ParametersOfPassZero(decl) ==
  [i \in 1 .. Len(decl.params) |->
     LET node == decl.params[i] IN
     IF node.pointers > 0 \/ node.name \in Builtins THEN GetLLVMType(node)
                                                    ELSE <<node.name, TypePass>>]

ParametersOf(decl) == [i \in 1 .. Len(decl.params) |-> GetLLVMType(decl.params[i])]

-----------------------------------------------------------------------------
(***************************************************************************)
(* LLVM, external to the compiler: the types a body holds by value, the    *)
(* refusal of a recursive body (undefined behaviour, in a release build),  *)
(* and sizes, which are computed once.                                     *)
(***************************************************************************)
Nesting == 0 .. Cardinality(DOMAIN body)

Held(bodies, types) ==
  LET held[d \in Nesting] ==
        IF d = 0 THEN types
        ELSE held[d - 1] \cup UNION {ToSet(bodies[t]) : t \in held[d - 1] \cap DOMAIN bodies}
  IN held[Cardinality(DOMAIN bodies)]

Recursive(type, fields) == type \in Held(body, ToSet(fields))

\* Sizes are counted in scalars.
Size(type, known) ==
  LET size[d \in Nesting] ==
        [t \in Held(body, {type}) |->
           IF t \in DOMAIN known THEN known[t]
           ELSE IF t \notin DOMAIN body THEN 1
           ELSE IF d = 0 THEN 0
           ELSE FoldLeft(+, 0, [i \in 1 .. Len(body[t]) |-> size[d - 1][body[t][i]]])]
  IN size[Cardinality(DOMAIN body)][type]

Measured(type) ==
  LET new == (Held(body, {type}) \cap DOMAIN body) \ DOMAIN layouts
  IN [t \in DOMAIN layouts \cup new |-> IF t \in DOMAIN layouts THEN layouts[t] ELSE Size(t, layouts)]

-----------------------------------------------------------------------------
Init ==
  /\ prog \in Programs
  /\ pass = TypePass
  /\ at = 1
  /\ inStruct = FALSE
  /\ next = 1
  /\ currentStructName = <<>>
  /\ structDefinitions = <<>>
  /\ body = <<>>
  /\ fieldTypes = <<>>
  /\ prototypes = <<>>
  /\ layouts = <<>>
  /\ zeroed = {}
  /\ wasError = FALSE
  /\ status = "compiling"

NextDeclaration == at' = at + 1 /\ UNCHANGED <<prog, pass, inStruct, next>>

Stop(how) == status' = how

Redefined == /\ Decl.name \in DOMAIN structDefinitions
             /\ structDefinitions[Decl.name].token # at

RedefineStruct ==
  /\ AtStruct
  /\ Redefined
  /\ wasError' = TRUE
  /\ NextDeclaration
  /\ UNCHANGED <<currentStructName, structDefinitions, body, fieldTypes, prototypes,
                 layouts, zeroed, status>>

\* From pass 1 on the fields are taken in order: one without a type is an error, and
\* getPointerTo of a null pointer is undefined.
Unknown(i) == Decl.fields[i].typed /\ ~Defined(Decl.fields[i].type)

StoppingField ==
  LET stopping == {i \in 1 .. Len(Decl.fields) :
                     \/ ~Decl.fields[i].typed
                     \/ Unknown(i) /\ Decl.fields[i].type.pointers > 0}
  IN IF stopping = {} THEN 0 ELSE CHOOSE i \in stopping : \A j \in stopping : i <= j

FieldsWithoutType == StoppingField # 0 /\ ~Decl.fields[StoppingField].typed

FieldsUndefined == IF StoppingField # 0 THEN Decl.fields[StoppingField].typed
                   ELSE \E i \in 1 .. Len(Decl.fields) : Unknown(i)

FieldsProper == ~FieldsWithoutType /\ ~FieldsUndefined

\* The struct stays on the stack, and in pass 1 keeps its type of pass 0.
UntypedField ==
  /\ AtStruct
  /\ ~Redefined
  /\ pass # TypePass
  /\ FieldsWithoutType
  /\ currentStructName' = Append(currentStructName, Decl.name)
  /\ wasError' = TRUE
  /\ NextDeclaration
  /\ UNCHANGED <<structDefinitions, body, fieldTypes, prototypes, layouts, zeroed, status>>

\* A null pointer is taken for a type, by getPointerTo or by StructType::create.
UnknownFieldType ==
  /\ AtStruct
  /\ ~Redefined
  /\ pass # TypePass
  /\ FieldsUndefined
  /\ Stop("undefined")
  /\ UNCHANGED <<prog, pass, at, inStruct, next, currentStructName, structDefinitions, body,
                 fieldTypes, prototypes, layouts, zeroed, wasError>>

\* Mutant of DeclareStruct: pass 1 makes an entry, but no LLVM type.
DeclareStructWithoutType ==
  /\ AtStruct
  /\ ~Redefined
  /\ \/ pass = TypePass
     \/ pass = PrototypePass /\ FieldsProper
  /\ body' = IF pass = TypePass
             THEN [t \in DOMAIN body \cup {<<Decl.name, pass>>} |-> <<>>] ELSE body
  /\ structDefinitions' =
       [s \in DOMAIN structDefinitions \cup {Decl.name} |->
          IF s = Decl.name THEN [token |-> at, made |-> pass] ELSE structDefinitions[s]]
  /\ NextDeclaration
  /\ UNCHANGED <<currentStructName, fieldTypes, prototypes, layouts, zeroed, wasError, status>>

\* Mutant of DeclareStruct: nothing is declared in pass 0.
DeclareStructLate ==
  /\ AtStruct
  /\ ~Redefined
  /\ pass # BodyPass
  /\ pass = PrototypePass => FieldsProper
  /\ IF pass = TypePass
     THEN UNCHANGED <<body, structDefinitions>>
     ELSE /\ body' = [t \in DOMAIN body \cup {<<Decl.name, pass>>} |->
                        IF t = <<Decl.name, pass>> THEN FieldsOf(Decl) ELSE body[t]]
          /\ structDefinitions' =
               [s \in DOMAIN structDefinitions \cup {Decl.name} |->
                  IF s = Decl.name THEN [token |-> at, made |-> pass] ELSE structDefinitions[s]]
  /\ NextDeclaration
  /\ UNCHANGED <<currentStructName, fieldTypes, prototypes, layouts, zeroed, wasError, status>>

\* Pass 0, or pass 1 with proper fields: StructType::create.
DeclareStruct ==
  /\ AtStruct
  /\ ~Redefined
  /\ \/ pass = TypePass
     \/ pass = PrototypePass /\ FieldsProper
  /\ LET type == <<Decl.name, pass>>
         fields == IF pass = TypePass THEN <<>> ELSE FieldsOf(Decl)
     IN body' = [t \in DOMAIN body \cup {type} |-> IF t = type THEN fields ELSE body[t]]
  /\ structDefinitions' =
       [s \in DOMAIN structDefinitions \cup {Decl.name} |->
          IF s = Decl.name THEN [token |-> at, made |-> pass] ELSE structDefinitions[s]]
  /\ NextDeclaration
  /\ UNCHANGED <<currentStructName, fieldTypes, prototypes, layouts, zeroed, wasError, status>>

EnterStruct ==
  /\ AtStruct
  /\ ~Redefined
  /\ pass = BodyPass
  /\ FieldsProper
  /\ currentStructName' = Append(currentStructName, Decl.name)
  /\ fieldTypes' = FieldsOf(Decl)
  /\ inStruct' = TRUE
  /\ UNCHANGED <<prog, pass, at, next, structDefinitions, body, prototypes, layouts,
                 zeroed, wasError, status>>

\* The methods are done: the struct is popped, and setBody called.
LeaveStruct ==
  /\ InBody
  /\ inStruct
  /\ next > Len(Decl.code)
  /\ currentStructName' = Front(currentStructName)
  /\ IF Recursive(StructVal(Decl.name), fieldTypes)
     THEN Stop("undefined") /\ UNCHANGED body
     ELSE body' = [body EXCEPT ![StructVal(Decl.name)] = fieldTypes] /\ UNCHANGED status
  /\ inStruct' = FALSE
  /\ at' = at + 1
  /\ next' = 1
  /\ UNCHANGED <<prog, pass, structDefinitions, fieldTypes, prototypes, layouts,
                 zeroed, wasError>>

-----------------------------------------------------------------------------
SkipInTypePass ==
  /\ AtFunction
  /\ pass = TypePass
  /\ NextDeclaration
  /\ UNCHANGED <<currentStructName, structDefinitions, body, fieldTypes, prototypes,
                 layouts, zeroed, wasError, status>>

\* generatePrototype in pass 1: named after the struct on top of the stack, if any.
GeneratePrototype ==
  /\ AtFunction
  /\ pass = PrototypePass
  /\ \A i \in 1 .. Len(Decl.params) : Defined(Decl.params[i])
  /\ LET new == [of |-> currentStructName, params |-> ParametersOf(Decl)]
     IN prototypes' = [f \in DOMAIN prototypes \cup {at} |->
                         IF f = at THEN new ELSE prototypes[f]]
  /\ NextDeclaration
  /\ UNCHANGED <<currentStructName, structDefinitions, body, fieldTypes,
                 layouts, zeroed, wasError, status>>

UnknownParameterType ==
  /\ AtFunction
  /\ pass = PrototypePass
  /\ \E i \in 1 .. Len(Decl.params) : ~Defined(Decl.params[i])
  /\ Stop("undefined")
  /\ UNCHANGED <<prog, pass, at, inStruct, next, currentStructName, structDefinitions, body,
                 fieldTypes, prototypes, layouts, zeroed, wasError>>

\* An error made earlier ends the compiler in the next body there is.
FailInBody ==
  /\ InBody
  /\ wasError
  /\ inStruct => Decl.code # <<>>
  /\ Stop("exited")
  /\ UNCHANGED <<prog, pass, at, inStruct, next, currentStructName, structDefinitions, body,
                 fieldTypes, prototypes, layouts, zeroed, wasError>>

AtNode(kind) == InBody /\ ~wasError /\ next <= Len(Decl.code) /\ Decl.code[next].kind = kind

AtNew == AtNode("new")

New == Decl.code[next].name

\* Mutant of GenerateTypeInstance: the size of the type of pass 0.
GenerateTypeInstancePassZero ==
  /\ AtNew
  /\ New \in DOMAIN structDefinitions
  /\ layouts' = Measured(<<New, TypePass>>)
  /\ zeroed' = zeroed \cup {[type |-> StructVal(New), size |-> layouts'[<<New, TypePass>>]]}
  /\ next' = next + 1
  /\ UNCHANGED <<prog, pass, at, inStruct, currentStructName, structDefinitions, body,
                 fieldTypes, prototypes, wasError, status>>

\* generateTypeInstance: an alloca, and a memset of the size the type has by now.
GenerateTypeInstance ==
  /\ AtNew
  /\ New \in DOMAIN structDefinitions
  /\ layouts' = Measured(StructVal(New))
  /\ zeroed' = zeroed \cup {[type |-> StructVal(New), size |-> layouts'[StructVal(New)]]}
  /\ next' = next + 1
  /\ UNCHANGED <<prog, pass, at, inStruct, currentStructName, structDefinitions, body,
                 fieldTypes, prototypes, wasError, status>>

UnknownTypeInstance ==
  /\ AtNew
  /\ New \notin DOMAIN structDefinitions
  /\ wasError' = TRUE
  /\ Stop("exited")
  /\ UNCHANGED <<prog, pass, at, inStruct, next, currentStructName, structDefinitions, body,
                 fieldTypes, prototypes, layouts, zeroed>>

EndFunction ==
  /\ InBody
  /\ ~inStruct
  /\ ~wasError
  /\ next > Len(Decl.code)
  /\ at' = at + 1
  /\ next' = 1
  /\ UNCHANGED <<prog, pass, inStruct, currentStructName, structDefinitions, body,
                 fieldTypes, prototypes, layouts, zeroed, wasError, status>>

NextPass ==
  /\ status = "compiling"
  /\ at = Len(prog) + 1
  /\ pass # BodyPass
  /\ pass' = pass + 1
  /\ at' = 1
  /\ UNCHANGED <<prog, inStruct, next, currentStructName, structDefinitions, body,
                 fieldTypes, prototypes, layouts, zeroed, wasError, status>>

WriteModule ==
  /\ status = "compiling"
  /\ at = Len(prog) + 1
  /\ pass = BodyPass
  /\ Stop("written")
  /\ UNCHANGED <<prog, pass, at, inStruct, next, currentStructName, structDefinitions, body,
                 fieldTypes, prototypes, layouts, zeroed, wasError>>

Finished == status # "compiling" /\ UNCHANGED vars

Next ==
  \/ RedefineStruct \/ UntypedField \/ UnknownFieldType \/ DeclareStruct
  \/ EnterStruct \/ LeaveStruct
  \/ SkipInTypePass \/ GeneratePrototype \/ UnknownParameterType
  \/ FailInBody \/ GenerateTypeInstance \/ UnknownTypeInstance \/ EndFunction
  \/ NextPass \/ WriteModule
  \/ Finished

Spec == Init /\ [][Next]_vars

-----------------------------------------------------------------------------
(***************************************************************************)
(* Properties                                                              *)
(***************************************************************************)
\* Pushes and pops of currentStructName are balanced: without an error, a function
\* outside of a struct is never declared as a method of one.
StackMatchesPosition ==
  ~wasError =>
    /\ currentStructName = IF inStruct THEN <<Decl.name>> ELSE <<>>
    /\ \A f \in DOMAIN prototypes : prototypes[f].of = <<>>

\* The LLVM type of every struct has a body, and a prototype is one of a function;
\* the stack of struct names is right.
TypeOK ==
  /\ prog \in Seq(Declaration)
  /\ pass \in {TypePass, PrototypePass, BodyPass}
  /\ at \in 1 .. Len(prog) + 1
  /\ inStruct \in BOOLEAN
  /\ inStruct => pass = BodyPass /\ at <= Len(prog) /\ Decl.kind = "struct"
                 /\ Decl.name \in DOMAIN structDefinitions
  /\ next \in Nat \ {0}
  /\ currentStructName \in Seq(STRING)
  /\ \A s \in DOMAIN structDefinitions :
       /\ s \in STRING
       /\ structDefinitions[s] \in [token : 1 .. Len(prog), made : {TypePass, PrototypePass}]
       /\ StructVal(s) \in DOMAIN body
  /\ DOMAIN body \subseteq LLVMType
  /\ \A t \in DOMAIN body : body[t] \in Seq(LLVMType)
  /\ fieldTypes \in Seq(LLVMType)
  /\ DOMAIN prototypes \subseteq 1 .. Len(prog)
  /\ \A f \in DOMAIN prototypes : prototypes[f] \in [of : Seq(STRING), params : Seq(LLVMType)]
  /\ DOMAIN layouts \subseteq DOMAIN body
  /\ \A z \in zeroed : z.type \in DOMAIN layouts
  /\ wasError \in BOOLEAN
  /\ status \in {"compiling", "exited", "written", "undefined"}
  /\ StackMatchesPosition

\* In a module written without an error the body of every struct is what its
\* declaration says, made of the types that structDefinitions ends up with.
BodiesAreCurrent ==
  status = "written" /\ ~wasError =>
    \A d \in 1 .. Len(prog) :
      prog[d].kind = "struct" => body[StructVal(prog[d].name)] = FieldsOf(prog[d])

\* A parameter has the type its struct ends up with, if that is declared first.
DeclaredBefore(name, d) ==
  \E c \in 1 .. d - 1 : prog[c].kind = "struct" /\ prog[c].name = name

ParametersAreCurrent ==
  status = "written" /\ ~wasError =>
    \A f \in DOMAIN prototypes : \A i \in 1 .. Len(prog[f].params) :
      DeclaredBefore(prog[f].params[i].name, f) =>
        prototypes[f].params[i] = GetLLVMType(prog[f].params[i])

\* What is written is made of the types structDefinitions ends up with, in bodies and,
\* as far as they could be known, in parameters.
TypesAreCurrent == BodiesAreCurrent /\ ParametersAreCurrent

\* #new zeroes all the memory it allocates, in a program that declares every struct
\* after the structs it holds.
InOrder ==
  \A d \in 1 .. Len(prog) : prog[d].kind = "struct" =>
    \A i \in 1 .. Len(prog[d].fields) :
      LET field == prog[d].fields[i] IN
      \/ field.typed /\ (field.type.pointers > 0 \/ field.type.name \in Builtins)
      \/ DeclaredBefore(field.type.name, d)

AllZeroed == \A z \in zeroed : z.size = Size(z.type, <<>>)

InOrderAllZeroed == status = "written" /\ ~wasError /\ InOrder => AllZeroed

-----------------------------------------------------------------------------
\* Which structs hold which by value, however deep
HoldsByValue(c, d) ==
  /\ prog[c].kind = "struct" /\ prog[d].kind = "struct"
  /\ \E i \in 1 .. Len(prog[c].fields) :
       LET field == prog[c].fields[i] IN
       field.typed /\ field.type.pointers = 0 /\ field.type.name = prog[d].name

Holds == {h \in (1 .. Len(prog)) \X (1 .. Len(prog)) : HoldsByValue(h[1], h[2])}

Reached(d) ==
  LET reached[n \in 0 .. Len(prog)] ==
        IF n = 0 THEN {e[2] : e \in {h \in Holds : h[1] = d}}
        ELSE reached[n - 1] \cup {e[2] : e \in {h \in Holds : h[1] \in reached[n - 1]}}
  IN reached[Len(prog)]

KnownName(name) == name \in Builtins \/ DeclaredBefore(name, Len(prog) + 1)

=============================================================================
