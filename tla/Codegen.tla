------------------------------- MODULE Codegen -------------------------------
(***************************************************************************)
(* The three code generation passes over the root node, the registry of    *)
(* functions they fill, and the removal of unused prototypes               *)
(* (src/src/codegen.cpp, generateOutputCode of src/src/parser.cpp and      *)
(* lines 211-219 of src/src/main.cpp).                                     *)
(*                                                                         *)
(* A program is the sequence of declarations under the root node.  A       *)
(* function body is the sequence of the calls its statements make; what a  *)
(* statement computes is left out.  Types are those of module Overloads.   *)
(* The types of structs, and their layout, are in module StructTypes.      *)
(***************************************************************************)
EXTENDS Overloads

CONSTANT Programs

\* The three calls of generateOutputCode in main
TypePass == 0
PrototypePass == 1
BodyPass == 2

Param == [type : ASTNodeTypes, exact : BOOLEAN, ref : BOOLEAN]

\* One argument: its type as LLVM gives it, and whether it is a lone identifier
Argument == [type : InferredTypes, ident : BOOLEAN]

(***************************************************************************)
(* "call" f(..), "operator" a + b, "method" x.f(..) with x of struct `on'. *)
(***************************************************************************)
CallExpr == [kind : {"call", "operator", "method"}, name : STRING, on : STRING,
             args : Seq(Argument)]

(***************************************************************************)
(* "function" has a body; "prototype" has none; "extern" is a prototype in *)
(* an #extern directive.  special marks operator, whose name is never      *)
(* qualified by a struct.                                                  *)
(***************************************************************************)
FunctionDecl == [kind : {"function", "prototype", "extern"}, name : STRING,
                 special : BOOLEAN, params : Seq(Param), variadic : BOOLEAN,
                 structReturn : BOOLEAN, replaceable : BOOLEAN, body : Seq(CallExpr)]
StructDecl == [kind : {"struct"}, name : STRING, methods : Seq(FunctionDecl)]
Declaration == FunctionDecl \cup StructDecl

ASSUME ProgramsAssumption == Programs \subseteq Seq(Declaration)

\* The functions of a program, and the methods of its structs.
FunctionsOf(p) ==
  {p[d] : d \in {e \in DOMAIN p : p[e].kind # "struct"}}
  \cup UNION {{p[d].methods[m] : m \in DOMAIN p[d].methods} :
               d \in {e \in DOMAIN p : p[e].kind = "struct"}}

\* generatePrototype names an operator by a keyword, a dot and a symbol; the name of
\* f(..) is one identifier token, which has no dot.
ASSUME OperatorNamesAssumption ==
  \A p \in Programs : \A f, g \in FunctionsOf(p) :
    f.special => \A i \in DOMAIN g.body :
                   g.body[i].kind = "call" => g.body[i].name # f.name

VARIABLES
  prog,               \* rootNode->childNodes
  pass,
  at,                 \* index of the declaration at hand
  methodAt,           \* 0, or (currentStructName is not empty) the method at hand
  memberFunctions,    \* generateStruct's local list
  fn,                 \* the function whose body is being generated, or 0
  stmt,               \* the next statement of that body
  functionIDs,
  structDefinitions,
  wasError,
  status,             \* "compiling", "exited" by exit(1), or "written"
  erased,             \* functions removed from the module
  calls               \* history: the call instructions emitted

vars == <<prog, pass, at, methodAt, memberFunctions, fn, stmt, functionIDs,
          structDefinitions, wasError, status, erased, calls>>

FunctionID == [name : Seq(STRING), userArguments : Seq(Param), argSize : Nat,
               variadic : BOOLEAN, structReturn : BOOLEAN, isMemberFunction : BOOLEAN,
               uses : Nat, blocks : Nat]

-----------------------------------------------------------------------------
Types(args) == [i \in 1 .. Len(args) |-> args[i].type]

\* The node generateOutputCode, or the loop of generateStruct, is at
Decl == IF methodAt = 0 THEN prog[at] ELSE prog[at].methods[methodAt]

AtDeclaration == /\ status = "compiling"
                 /\ fn = 0
                 /\ methodAt = 0
                 /\ at \in 1 .. Len(prog)

AtMethod == /\ status = "compiling"
            /\ fn = 0
            /\ methodAt # 0
            /\ methodAt <= Len(prog[at].methods)

InBody == status = "compiling" /\ fn # 0

(***************************************************************************)
(* generatePrototype                                                       *)
(***************************************************************************)
QualifiedName == IF methodAt = 0 \/ Decl.special
                 THEN <<Decl.name>>
                 ELSE <<prog[at].name, Decl.name>>

NewFunctionID ==
  [name |-> QualifiedName,
   userArguments |-> Decl.params,
   argSize |-> Len(Decl.params) + (IF Decl.structReturn THEN 1 ELSE 0)
                                + (IF methodAt # 0 THEN 1 ELSE 0),
   variadic |-> Decl.variadic,
   structReturn |-> Decl.structReturn,
   isMemberFunction |-> methodAt # 0 /\ ~Decl.special,
   uses |-> 0,
   blocks |-> 0]

\* Mutant of Existing: the check for a prototype already defined is missing.
NeverExisting == 0

Existing == GetExactFunctionFromID(functionIDs, QualifiedName, Types(Decl.params))

\* functionIDs and the entry of the prototype after generatePrototype
WithPrototype == IF Existing = 0 THEN Append(functionIDs, NewFunctionID) ELSE functionIDs
Prototype == IF Existing = 0 THEN Len(functionIDs) + 1 ELSE Existing

-----------------------------------------------------------------------------
Init ==
  /\ prog \in Programs
  /\ pass = TypePass
  /\ at = 1
  /\ methodAt = 0
  /\ memberFunctions = <<>>
  /\ fn = 0
  /\ stmt = 1
  /\ functionIDs = <<>>
  /\ structDefinitions = <<>>
  /\ wasError = FALSE
  /\ status = "compiling"
  /\ erased = {}
  /\ calls = {}

NextDeclaration == at' = at + 1 /\ UNCHANGED <<prog, pass, methodAt>>

Exit == status' = "exited"

\* Everything but a struct waits for pass 1.
SkipInTypePass ==
  /\ AtDeclaration
  /\ pass = TypePass
  /\ Decl.kind # "struct"
  /\ NextDeclaration
  /\ UNCHANGED <<memberFunctions, fn, stmt, functionIDs, structDefinitions,
                 wasError, status, erased, calls>>

\* structDefinitions has an entry made by another node of the same name.
StructRedefined ==
  /\ Decl.name \in DOMAIN structDefinitions
  /\ structDefinitions[Decl.name].token # at

RedefineStruct ==
  /\ AtDeclaration
  /\ Decl.kind = "struct"
  /\ StructRedefined
  /\ wasError' = TRUE
  /\ NextDeclaration
  /\ UNCHANGED <<memberFunctions, fn, stmt, functionIDs, structDefinitions,
                 status, erased, calls>>

\* Passes 0 and 1 make a new structType, without member functions.
DeclareStruct ==
  /\ AtDeclaration
  /\ pass # BodyPass
  /\ Decl.kind = "struct"
  /\ ~StructRedefined
  /\ structDefinitions' =
       [s \in DOMAIN structDefinitions \cup {Decl.name} |->
          IF s = Decl.name THEN [token |-> at, memberFunctions |-> <<>>]
                           ELSE structDefinitions[s]]
  /\ NextDeclaration
  /\ UNCHANGED <<memberFunctions, fn, stmt, functionIDs, wasError, status, erased, calls>>

\* Pass 2 pushes currentStructName and generates the methods.
EnterStruct ==
  /\ AtDeclaration
  /\ pass = BodyPass
  /\ Decl.kind = "struct"
  /\ ~StructRedefined
  /\ methodAt' = 1
  /\ memberFunctions' = <<>>
  /\ UNCHANGED <<prog, pass, at, fn, stmt, functionIDs, structDefinitions,
                 wasError, status, erased, calls>>

\* Mutant of LeaveStruct: currentStructName is not popped.
LeaveStructUnpopped ==
  /\ status = "compiling"
  /\ fn = 0
  /\ methodAt # 0
  /\ methodAt = Len(prog[at].methods) + 1
  /\ at' = at + 1
  /\ UNCHANGED <<prog, pass, methodAt, memberFunctions, fn, stmt, functionIDs,
                 structDefinitions, wasError, status, erased, calls>>

LeaveStruct ==
  /\ status = "compiling"
  /\ fn = 0
  /\ methodAt # 0
  /\ methodAt = Len(prog[at].methods) + 1
  /\ structDefinitions' =
       [structDefinitions EXCEPT ![prog[at].name].memberFunctions = memberFunctions]
  /\ methodAt' = 0
  /\ at' = at + 1
  /\ UNCHANGED <<prog, pass, memberFunctions, fn, stmt, functionIDs,
                 wasError, status, erased, calls>>

(***************************************************************************)
(* A function's prototype in pass 1, or a declaration without a body; an   *)
(* #extern directive is a scope body, which ends the compiler on an error  *)
(* reported before it.                                                     *)
(***************************************************************************)
DeclarePrototype ==
  /\ AtDeclaration
  /\ \/ pass = PrototypePass /\ Decl.kind \in {"function", "prototype", "extern"}
     \/ pass = BodyPass /\ Decl.kind \in {"prototype", "extern"}
  /\ functionIDs' = WithPrototype
  /\ IF wasError /\ Decl.kind = "extern"
     THEN Exit /\ UNCHANGED <<prog, pass, at, methodAt>>
     ELSE NextDeclaration /\ UNCHANGED status
  /\ UNCHANGED <<memberFunctions, fn, stmt, structDefinitions, wasError, erased, calls>>

\* A method without a body; generateStruct looks at wasError after each method.
DeclareMethod ==
  /\ AtMethod
  /\ Decl.kind = "prototype"
  /\ functionIDs' = WithPrototype
  /\ IF wasError
     THEN Exit /\ UNCHANGED <<methodAt, memberFunctions>>
     ELSE /\ memberFunctions' = Append(memberFunctions, Prototype)
          /\ methodAt' = methodAt + 1
          /\ UNCHANGED status
  /\ UNCHANGED <<prog, pass, at, fn, stmt, structDefinitions, wasError, erased, calls>>

-----------------------------------------------------------------------------
(***************************************************************************)
(* generateFunction in pass 2                                              *)
(***************************************************************************)
AtFunction == /\ AtDeclaration \/ AtMethod
              /\ pass = BodyPass
              /\ Decl.kind = "function"

\* Mutant of HasBody: off by one.
HasTwoBodies == Existing # 0 /\ functionIDs[Existing].blocks > 1

HasBody == Existing # 0 /\ functionIDs[Existing].blocks > 0

\* "Function cannot be redefined": top-level code goes on to the next node.
RedefineFunction ==
  /\ AtFunction
  /\ HasBody
  /\ ~Decl.replaceable
  /\ wasError' = TRUE
  /\ IF methodAt = 0 THEN NextDeclaration /\ UNCHANGED status
                     ELSE Exit /\ UNCHANGED <<prog, pass, at, methodAt>>
  /\ UNCHANGED <<memberFunctions, fn, stmt, functionIDs, structDefinitions, erased, calls>>

BeginFunction ==
  /\ AtFunction
  /\ ~HasBody \/ Decl.replaceable
  /\ functionIDs' = [WithPrototype EXCEPT ![Prototype].blocks = @ + 1]
  /\ fn' = Prototype
  /\ stmt' = 1
  /\ UNCHANGED <<prog, pass, at, methodAt, memberFunctions, structDefinitions,
                 wasError, status, erased, calls>>

\* An earlier error is noticed after the first statement, or at the end of the body
\* (what that statement emits is lost with the process).
FailInBody ==
  /\ InBody
  /\ wasError
  /\ Exit
  /\ UNCHANGED <<prog, pass, at, methodAt, memberFunctions, fn, stmt, functionIDs,
                 structDefinitions, wasError, erased, calls>>

EndFunction ==
  /\ InBody
  /\ ~wasError
  /\ stmt > Len(Decl.body)
  /\ fn' = 0
  /\ IF methodAt = 0
     THEN at' = at + 1 /\ UNCHANGED <<methodAt, memberFunctions>>
     ELSE /\ methodAt' = methodAt + 1
          /\ memberFunctions' = Append(memberFunctions, fn)
          /\ UNCHANGED at
  /\ UNCHANGED <<prog, pass, stmt, functionIDs, structDefinitions,
                 wasError, status, erased, calls>>

-----------------------------------------------------------------------------
(***************************************************************************)
(* The statements of a body                                                *)
(***************************************************************************)
AtCall(kind) == /\ InBody
                /\ ~wasError
                /\ stmt <= Len(Decl.body)
                /\ Decl.body[stmt].kind = kind

Call == Decl.body[stmt]

Emitted(callee) == calls \cup {[caller |-> fn, callee |-> callee, call |-> Call]}

NextStatement == /\ stmt' = stmt + 1
                 /\ UNCHANGED <<prog, pass, at, methodAt, memberFunctions, fn,
                                structDefinitions, wasError, status, erased>>

\* Mutant of CountUse: the use is not counted.
CountNothing(callee) == functionIDs

CountUse(callee) == [functionIDs EXCEPT ![callee].uses = @ + 1]

\* A call that cannot be generated sets wasError, and generateScopeBody exits; the
\* use of a callee that was found has been counted.
FailCall(callee) ==
  /\ wasError' = TRUE
  /\ Exit
  /\ functionIDs' = IF callee = 0 THEN functionIDs ELSE CountUse(callee)
  /\ UNCHANGED <<prog, pass, at, methodAt, memberFunctions, fn, stmt,
                 structDefinitions, erased, calls>>

\* generateCallExpression looks among the functions that are no methods.
PlainCallee(call) ==
  GetFunctionFromID(functionIDs, <<call.name>>, Types(call.args), TRUE, FALSE)

ArityFits(f, n) == IF f.variadic THEN f.argSize <= n ELSE f.argSize = n

PlainArityFits(f, call) ==
  ArityFits(f, Len(call.args) + (IF f.structReturn THEN 1 ELSE 0))

(***************************************************************************)
(* A reference parameter takes an identifier.  For the extra arguments of  *)
(* a variadic function the code reads isReference past the end of the      *)
(* vector arguments: it may find either value.                             *)
(***************************************************************************)
MayPass(f, call) ==
  \A i \in DOMAIN call.args :
     i <= Len(f.userArguments) => (f.userArguments[i].ref => call.args[i].ident)
MayRefuse(f, call) ==
  \E i \in DOMAIN call.args :
     ~call.args[i].ident /\ (i <= Len(f.userArguments) => f.userArguments[i].ref)

GenerateCall ==
  /\ AtCall("call")
  /\ LET callee == PlainCallee(Call) IN
       /\ callee # 0
       /\ PlainArityFits(functionIDs[callee], Call)
       /\ MayPass(functionIDs[callee], Call)
       /\ functionIDs' = CountUse(callee)
       /\ calls' = Emitted(callee)
  /\ NextStatement

CallFails ==
  /\ AtCall("call")
  /\ LET callee == PlainCallee(Call) IN
       /\ callee # 0 => \/ ~PlainArityFits(functionIDs[callee], Call)
                        \/ MayRefuse(functionIDs[callee], Call)
       /\ FailCall(callee)

(***************************************************************************)
(* An overloaded operator is found by its name alone, and its use is not   *)
(* counted; without an overload the instruction is a primitive one.        *)
(***************************************************************************)
OperatorCallee(call) == GetNamedFunctionFromID(functionIDs, <<call.name>>)

GenerateOperator ==
  /\ AtCall("operator")
  /\ calls' = IF OperatorCallee(Call) = 0 THEN calls ELSE Emitted(OperatorCallee(Call))
  /\ NextStatement
  /\ UNCHANGED functionIDs

(***************************************************************************)
(* A method is looked up among the member functions its struct has so far, *)
(* with `this' in front of the arguments (userArguments is without it).    *)
(***************************************************************************)
MethodCallee(call) ==
  IF call.on \notin DOMAIN structDefinitions THEN 0
  ELSE LET known == structDefinitions[call.on].memberFunctions
           found == GetFunctionFromID([i \in 1 .. Len(known) |-> functionIDs[known[i]]],
                                      <<call.on, call.name>>,
                                      <<Struct_Type>> \o Types(call.args), TRUE, TRUE)
       IN IF found = 0 THEN 0 ELSE known[found]

(***************************************************************************)
(* The loop over the arguments reads arguments[i], which begins with the   *)
(* returned struct, if any, and `this', a reference; and it looks at the   *)
(* first argument each time.  Past the end it may find either value.       *)
(***************************************************************************)
References(f) == (IF f.structReturn THEN <<FALSE>> ELSE <<>>) \o <<TRUE>>
                 \o [i \in 1 .. Len(f.userArguments) |-> f.userArguments[i].ref]

MethodMayPass(f, call) ==
  (\E i \in DOMAIN call.args : i <= Len(References(f)) /\ References(f)[i])
    => call.args[1].ident
MethodMayRefuse(f, call) ==
  /\ \E i \in DOMAIN call.args : i <= Len(References(f)) => References(f)[i]
  /\ ~call.args[1].ident

MethodArityFits(f, call) == f.variadic \/ f.argSize = Len(call.args) + 1

GenerateMethodCall ==
  /\ AtCall("method")
  /\ LET callee == MethodCallee(Call) IN
       /\ callee # 0
       /\ MethodArityFits(functionIDs[callee], Call)
       /\ MethodMayPass(functionIDs[callee], Call)
       /\ functionIDs' = CountUse(callee)
       /\ calls' = Emitted(callee)
  /\ NextStatement

MethodCallFails ==
  /\ AtCall("method")
  /\ LET callee == MethodCallee(Call) IN
       /\ callee # 0 => \/ ~MethodArityFits(functionIDs[callee], Call)
                        \/ MethodMayRefuse(functionIDs[callee], Call)
       /\ FailCall(callee)

-----------------------------------------------------------------------------
NextPass ==
  /\ status = "compiling"
  /\ at = Len(prog) + 1
  /\ pass # BodyPass
  /\ pass' = pass + 1
  /\ at' = 1
  /\ UNCHANGED <<prog, methodAt, memberFunctions, fn, stmt, functionIDs,
                 structDefinitions, wasError, status, erased, calls>>

\* Mutant of Unused: a function called once is taken for unused.
HardlyUsed == {i \in DOMAIN functionIDs : /\ functionIDs[i].name # <<"main">>
                                          /\ functionIDs[i].uses <= 1}

Unused == {i \in DOMAIN functionIDs : /\ functionIDs[i].name # <<"main">>
                                      /\ functionIDs[i].uses = 0}

\* Afterwards the module is printed and linked: main does not look at wasError.
RemoveUnusedPrototypes ==
  /\ status = "compiling"
  /\ at = Len(prog) + 1
  /\ pass = BodyPass
  /\ erased' = Unused
  /\ status' = "written"
  /\ UNCHANGED <<prog, pass, at, methodAt, memberFunctions, fn, stmt, functionIDs,
                 structDefinitions, wasError, calls>>

Finished == status # "compiling" /\ UNCHANGED vars

Next ==
  \/ SkipInTypePass
  \/ DeclareStruct \/ RedefineStruct \/ EnterStruct \/ LeaveStruct
  \/ DeclarePrototype \/ DeclareMethod
  \/ BeginFunction \/ RedefineFunction \/ FailInBody \/ EndFunction
  \/ GenerateCall \/ CallFails
  \/ GenerateOperator
  \/ GenerateMethodCall \/ MethodCallFails
  \/ NextPass \/ RemoveUnusedPrototypes
  \/ Finished

Spec == Init /\ [][Next]_vars

-----------------------------------------------------------------------------
(***************************************************************************)
(* Properties                                                              *)
(***************************************************************************)
\* Where the passes are: a method or a body is at hand only inside its declaration.
CursorOK ==
  /\ prog \in Seq(Declaration)
  /\ pass \in {TypePass, PrototypePass, BodyPass}
  /\ at \in 1 .. Len(prog) + 1
  /\ methodAt \in Nat
  /\ methodAt # 0 => /\ at <= Len(prog)
                     /\ prog[at].kind = "struct"
                     /\ methodAt <= Len(prog[at].methods) + 1
                     /\ prog[at].name \in DOMAIN structDefinitions
  /\ fn # 0 => /\ pass = BodyPass
               /\ at <= Len(prog)
               /\ methodAt # 0 => methodAt <= Len(prog[at].methods)
               /\ Decl.kind = "function"
  /\ stmt \in Nat \ {0}

\* A functionID* is the index of an entry.
RegistryOK ==
  /\ functionIDs \in Seq(FunctionID)
  /\ fn \in 0 .. Len(functionIDs)
  /\ memberFunctions \in Seq(1 .. Len(functionIDs))
  /\ \A s \in DOMAIN structDefinitions :
       structDefinitions[s] \in [token : 1 .. Len(prog),
                                 memberFunctions : Seq(1 .. Len(functionIDs))]

OutcomeOK ==
  /\ wasError \in BOOLEAN
  /\ status \in {"compiling", "exited", "written"}
  /\ erased \subseteq 1 .. Len(functionIDs)
  /\ calls \subseteq [caller : 1 .. Len(functionIDs), callee : 1 .. Len(functionIDs),
                      call : CallExpr]

TypeOK == CursorOK /\ RegistryOK /\ OutcomeOK

\* "requires unique identity": no prototype is registered that an earlier entry
\* already matches perfectly, so a declaration always finds its own prototype.
UniqueIdentity ==
  \A i, j \in 1 .. Len(functionIDs) :
     i < j => CompareMatch(functionIDs[i], functionIDs[j].name,
                           Types(functionIDs[j].userArguments), FALSE) # 0

\* What a call was bound to is what it would be bound to now: the methods that
\* pass 2 keeps registering never capture a plain or an operator call.
BindingIsStable ==
  \A k \in calls :
    /\ k.call.kind = "call" => PlainCallee(k.call) = k.callee
    /\ k.call.kind = "operator" => OperatorCallee(k.call) = k.callee

\* The use counts cover the calls that were emitted: what removeUnusedPrototypes
\* erases is called neither as a function nor as a method.
ErasedAreUncalled ==
  status = "written" =>
    \A k \in calls : k.call.kind # "operator" => k.callee \notin erased

\* A function gets a second body only by a #replaceable declaration.
OneBody ==
  \A i \in DOMAIN functionIDs :
    functionIDs[i].blocks > 1 =>
      \E d \in 1 .. Len(prog) :
         \/ prog[d].kind # "struct" /\ prog[d].replaceable
         \/ prog[d].kind = "struct" /\ \E m \in DOMAIN prog[d].methods :
                                          prog[d].methods[m].replaceable

-----------------------------------------------------------------------------
(***************************************************************************)
(* What a comment of the code says, and the code does not do               *)
(***************************************************************************)
\* main.cpp, line 218, "Cleanup unused code": no function that the written code
\* still calls is removed from the module.
ErasedIsUnused ==
  status = "written" => \A k \in calls : k.callee \notin erased

-----------------------------------------------------------------------------
\* The registry is a symbol table: entries are only added, bodies and counted uses
\* are never taken back, and only uncounted entries are removed, at the end.
Table == INSTANCE SymbolTable WITH
  declared <- Len(functionIDs),
  defined <- {i \in 1 .. Len(functionIDs) : functionIDs[i].blocks > 0},
  used <- {i \in 1 .. Len(functionIDs) : functionIDs[i].uses > 0},
  removed <- erased,
  sealed <- status # "compiling"

ImplementsSymbolTable == Table!Spec

=============================================================================
