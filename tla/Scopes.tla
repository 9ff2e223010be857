------------------------------- MODULE Scopes -------------------------------
(***************************************************************************)
(* Which variable a name is bound to: the namedValues of every ASTNode and *)
(* findNamedValue, with the declarations, assignments, loops, conditionals *)
(* and functions that use them (src/src/codegen.cpp, in the last pass).    *)
(*                                                                         *)
(* The program is chosen while it is generated.  Nodes are numbered in the *)
(* order of the tree, in which they are generated; those that never have   *)
(* named values and have one child only are left out (Condition, Range,    *)
(* Iterator, the lists of arguments).  A variable is known by the node it  *)
(* is kept on and by its name.                                             *)
(***************************************************************************)
EXTENDS Integers, Sequences

CONSTANTS
  Names,
  NoName,
  MaxNodes    \* bound of the tree

ASSUME NamesAssumption == NoName \notin Names /\ MaxNodes \in Nat

VARIABLES
  nodes,      \* the nodes generated so far
  at,         \* the node whose children are being generated
  region,     \* the basic blocks that every run has passed to get here
  blocks,     \* number of basic blocks made
  look,       \* the call of findNamedValue, and who waits for it
  status      \* "generating", "exited" (1), "undefined" or "done"

vars == <<nodes, at, region, blocks, look, status>>

Root == 1

Kinds == {"root", "struct", "members", "function", "body", "if", "else", "for",
          "assignment", "declaration", "use"}

(***************************************************************************)
(* A valueType: how the variable came to be, and the blocks that every run *)
(* has passed when it is stored to for the first time.  A "pointer" is an  *)
(* argument that is kept as the llvm::Argument itself, not as an alloca.   *)
(***************************************************************************)
Value(kind, stored) == [kind |-> kind, stored |-> stored]
NoValue == Value("none", {})
NoValues == [x \in Names |-> NoValue]
ValueKinds == {"none", "local", "for", "argument", "pointer"}

Node(kind, name, p) ==
  [kind |-> kind, name |-> name, parent |-> p, above |-> nodes[p].above \cup {p},
   region |-> region, namedValues |-> NoValues]

\* The only child so far of a node that is about to be added.
Child(kind, node) ==
  [kind |-> kind, name |-> NoName, parent |-> Len(nodes) + 1,
   above |-> node.above \cup {Len(nodes) + 1}, region |-> node.region, namedValues |-> NoValues]

NoCall == [for |-> "none", name |-> NoName, use |-> 0, node |-> 0, child |-> 0,
           returned |-> FALSE, result |-> 0]

\* findNamedValue(parentNode, this, name)
Find(for, name, use, parent) ==
  [for |-> for, name |-> name, use |-> use, node |-> parent, child |-> use,
   returned |-> FALSE, result |-> 0]

-----------------------------------------------------------------------------
Init == /\ nodes = <<[kind |-> "root", name |-> NoName, parent |-> 0, above |-> {},
                      region |-> {}, namedValues |-> NoValues]>>
        /\ at = Root
        /\ region = {}
        /\ blocks = 0
        /\ look = NoCall
        /\ status = "generating"

Here == nodes[at].kind
Next1 == Len(nodes) + 1
Next2 == Len(nodes) + 2
NewBlock == blocks + 1

\* generateScopeBody, generateOutputCode and generateStruct go to the next child.
ReadyFor(n) == /\ status = "generating"
               /\ look = NoCall
               /\ Len(nodes) + n <= MaxNodes

InBody == Here \in {"body", "else"}

-----------------------------------------------------------------------------
(***************************************************************************)
(* findNamedValue: in the node, among its children before the one that the *)
(* search comes from, in its parent; in the root, in the root only.        *)
(***************************************************************************)
Has(n, x) == nodes[n].namedValues[x] # NoValue

Siblings == {c \in 1 .. Len(nodes) : /\ nodes[c].parent = look.node
                                     /\ c < look.child
                                     /\ Has(c, look.name)}

Calling == look.for # "none" /\ ~look.returned

FindInSelf ==
  /\ Calling
  /\ Has(look.node, look.name)
  /\ look' = [look EXCEPT !.returned = TRUE, !.result = look.node]
  /\ UNCHANGED <<nodes, at, region, blocks, status>>

\* Mutant of FindAmongChildren: also in the root.
FindAmongChildrenOfRoot ==
  /\ Calling
  /\ ~Has(look.node, look.name)
  /\ \E c \in Siblings :
       /\ \A d \in Siblings : c <= d
       /\ look' = [look EXCEPT !.returned = TRUE, !.result = c]
  /\ UNCHANGED <<nodes, at, region, blocks, status>>

\* Mutant of FindAmongChildren: the last one.
FindLastAmongChildren ==
  /\ Calling
  /\ ~Has(look.node, look.name)
  /\ look.node # Root
  /\ \E c \in Siblings :
       /\ \A d \in Siblings : c >= d
       /\ look' = [look EXCEPT !.returned = TRUE, !.result = c]
  /\ UNCHANGED <<nodes, at, region, blocks, status>>

FindAmongChildren ==
  /\ Calling
  /\ ~Has(look.node, look.name)
  /\ look.node # Root
  /\ \E c \in Siblings :
       /\ \A d \in Siblings : c <= d
       /\ look' = [look EXCEPT !.returned = TRUE, !.result = c]
  /\ UNCHANGED <<nodes, at, region, blocks, status>>

FindInParent ==
  /\ Calling
  /\ ~Has(look.node, look.name)
  /\ look.node # Root
  /\ Siblings = {}
  /\ look' = [look EXCEPT !.node = nodes[look.node].parent, !.child = look.node]
  /\ UNCHANGED <<nodes, at, region, blocks, status>>

FindNothing ==
  /\ Calling
  /\ ~Has(look.node, look.name)
  /\ look.node = Root
  /\ look' = [look EXCEPT !.returned = TRUE]
  /\ UNCHANGED <<nodes, at, region, blocks, status>>

Found(for) == look.for = for /\ look.returned /\ look.result # 0
FoundNothing(for) == look.for = for /\ look.returned /\ look.result = 0
FoundValue == nodes[look.result].namedValues[look.name]

-----------------------------------------------------------------------------
(***************************************************************************)
(* generateVariableExpression of a name without a type, as a statement or  *)
(* as the argument of one.  A pointer argument is no alloca: its allocated *)
(* type is read from whatever is there.                                    *)
(***************************************************************************)
Use(x) ==
  /\ ReadyFor(1)
  /\ InBody
  /\ nodes' = Append(nodes, Node("use", NoName, at))
  /\ look' = Find("use", x, Next1, at)
  /\ UNCHANGED <<at, region, blocks, status>>

UndefinedVariable ==
  /\ status = "generating"
  /\ FoundNothing("use")
  /\ status' = "exited"
  /\ UNCHANGED <<nodes, at, region, blocks, look>>

LoadFromArgument ==
  /\ status = "generating"
  /\ Found("use") \/ Found("declaration")
  /\ FoundValue.kind = "pointer"
  /\ status' = "undefined"
  /\ UNCHANGED <<nodes, at, region, blocks, look>>

Loads == /\ status = "generating"
         /\ Found("use")
         /\ FoundValue.kind # "pointer"

User == nodes[look.use].parent

Load ==
  /\ Loads
  /\ nodes[User].kind \notin {"assignment", "for"}
  /\ look' = NoCall
  /\ UNCHANGED <<nodes, at, region, blocks, status>>

\* A name with a type, as a statement: if the name is known, it is loaded.
Declaration(x) ==
  /\ ReadyFor(1)
  /\ InBody
  /\ nodes' = Append(nodes, Node("declaration", x, at))
  /\ look' = Find("declaration", x, Next1, at)
  /\ UNCHANGED <<at, region, blocks, status>>

Declare ==
  /\ status = "generating"
  /\ FoundNothing("declaration")
  /\ nodes' = [nodes EXCEPT ![look.use].namedValues[look.name] = Value("local", region)]
  /\ look' = NoCall
  /\ UNCHANGED <<at, region, blocks, status>>

AlreadyDeclared ==
  /\ status = "generating"
  /\ Found("declaration")
  /\ FoundValue.kind # "pointer"
  /\ look' = NoCall
  /\ UNCHANGED <<nodes, at, region, blocks, status>>

(***************************************************************************)
(* generateExpressionStatement, x = e: first e, a constant (NoName) or a   *)
(* variable, then the variable that is stored to, made if there is none.   *)
(***************************************************************************)
Assignment(x, e) ==
  /\ ReadyFor(2)
  /\ InBody
  /\ LET statement == Node("assignment", x, at)
     IN  IF e = NoName
         THEN /\ nodes' = Append(nodes, statement)
              /\ look' = Find("target", x, Next1, at)
         ELSE /\ nodes' = nodes \o <<statement, Child("use", statement)>>
              /\ look' = Find("use", e, Next2, Next1)
  /\ UNCHANGED <<at, region, blocks, status>>

LoadRight ==
  /\ Loads
  /\ nodes[User].kind = "assignment"
  /\ look' = Find("target", nodes[User].name, User, nodes[User].parent)
  /\ UNCHANGED <<nodes, at, region, blocks, status>>

\* Of a pointer argument the allocated type is read here too, and nothing made of it.
Store ==
  /\ status = "generating"
  /\ Found("target")
  /\ look' = NoCall
  /\ UNCHANGED <<nodes, at, region, blocks, status>>

StoreToNew ==
  /\ status = "generating"
  /\ FoundNothing("target")
  /\ nodes' = [nodes EXCEPT ![look.use].namedValues[look.name] = Value("local", region)]
  /\ look' = NoCall
  /\ UNCHANGED <<at, region, blocks, status>>

-----------------------------------------------------------------------------
(***************************************************************************)
(* generateIf: the branches are entered from the blocks before them, and   *)
(* so is what follows.                                                     *)
(***************************************************************************)
\* Mutant of EnterBody: the block is not counted.
EnterBodyUncounted ==
  /\ at' = Next2
  /\ region' = region \cup {NewBlock}
  /\ UNCHANGED blocks

EnterBody ==
  /\ at' = Next2
  /\ region' = region \cup {NewBlock}
  /\ blocks' = NewBlock

If ==
  /\ ReadyFor(2)
  /\ InBody
  /\ LET node == Node("if", NoName, at)
     IN  nodes' = nodes \o <<node, Child("body", node)>>
  /\ EnterBody
  /\ UNCHANGED <<look, status>>

Outer == nodes[at].parent

Else ==
  /\ status = "generating"
  /\ look = NoCall
  /\ Here = "body" /\ nodes[Outer].kind = "if"
  /\ nodes' = Append(nodes, Node("else", NoName, Outer))
  /\ at' = Next1
  /\ region' = nodes[Outer].region \cup {NewBlock}
  /\ blocks' = NewBlock
  /\ UNCHANGED <<look, status>>

EndIf ==
  /\ status = "generating"
  /\ look = NoCall
  /\ Here = "else"
  /\ at' = nodes[Outer].parent
  /\ region' = nodes[Outer].region
  /\ UNCHANGED <<nodes, blocks, look, status>>

(***************************************************************************)
(* generateFor(i : 0 .. limit): the limit is generated before the variable *)
(* is known, the body after.  Nothing is stored to first in the block of   *)
(* the condition, which is left out.                                       *)
(***************************************************************************)
\* Mutant of ForVariable: the start is stored in the loop.
ForVariableInLoop(node) ==
  [node EXCEPT !.namedValues[node.name] = Value("for", region \cup {NewBlock})]

ForVariable(node) == [node EXCEPT !.namedValues[node.name] = Value("for", region)]

For(i, limit) ==
  /\ ReadyFor(2)
  /\ InBody
  /\ LET node == Node("for", i, at)
     IN  \/ /\ limit = NoName
            /\ nodes' = nodes \o <<ForVariable(node), Child("body", node)>>
            /\ EnterBody
            /\ UNCHANGED look
         \/ /\ limit # NoName
            /\ nodes' = nodes \o <<node, Child("use", node)>>
            /\ look' = Find("use", limit, Next2, Next1)
            /\ UNCHANGED <<at, region, blocks>>
  /\ UNCHANGED status

LoadLimit ==
  /\ Loads
  /\ nodes[User].kind = "for"
  /\ nodes' = Append([nodes EXCEPT ![User] = ForVariable(@)], Node("body", NoName, User))
  /\ at' = Next1
  /\ region' = region \cup {NewBlock}
  /\ blocks' = NewBlock
  /\ look' = NoCall
  /\ UNCHANGED status

EndFor ==
  /\ status = "generating"
  /\ look = NoCall
  /\ Here = "body" /\ nodes[Outer].kind = "for"
  /\ at' = nodes[Outer].parent
  /\ region' = nodes[Outer].region
  /\ UNCHANGED <<nodes, blocks, look, status>>

-----------------------------------------------------------------------------
(***************************************************************************)
(* generateFunction, under the root or in a struct: `arguments' are stored *)
(* to in the entry block and kept on the node, `pointers' as they are.     *)
(***************************************************************************)
Argument(x, arguments, pointers) ==
  CASE x \in pointers -> Value("pointer", {NewBlock})
    [] x \in arguments -> Value("argument", {NewBlock})
    [] OTHER -> NoValue

Function(arguments, pointers) ==
  /\ ReadyFor(2)
  /\ Here \in {"root", "members"}
  /\ region' = {NewBlock}
  /\ blocks' = NewBlock
  /\ LET node == Node("function", NoName, at)
     IN  nodes' = nodes \o
           <<[node EXCEPT !.namedValues = [x \in Names |-> Argument(x, arguments, pointers)]],
             Child("body", node)>>
  /\ at' = Next2
  /\ UNCHANGED <<look, status>>

EndFunction ==
  /\ status = "generating"
  /\ look = NoCall
  /\ Here = "body" /\ nodes[Outer].kind = "function"
  /\ at' = nodes[Outer].parent
  /\ region' = {}
  /\ UNCHANGED <<nodes, blocks, look, status>>

\* generateStruct: the functions among the children of its body.
Struct ==
  /\ ReadyFor(2)
  /\ Here = "root"
  /\ LET node == Node("struct", NoName, at)
     IN  nodes' = nodes \o <<node, Child("members", node)>>
  /\ at' = Next2
  /\ UNCHANGED <<region, blocks, look, status>>

EndStruct ==
  /\ status = "generating"
  /\ look = NoCall
  /\ Here = "members"
  /\ at' = Root
  /\ UNCHANGED <<nodes, region, blocks, look, status>>

Finish ==
  /\ status = "generating"
  /\ look = NoCall
  /\ Here = "root"
  /\ status' = "done"
  /\ UNCHANGED <<nodes, at, region, blocks, look>>

Stopped == status # "generating" /\ UNCHANGED vars

FindNamedValue == FindInSelf \/ FindAmongChildren \/ FindInParent \/ FindNothing

Statement ==
  \/ \E x \in Names : Use(x) \/ Declaration(x)
  \/ \E x \in Names, e \in Names \cup {NoName} : Assignment(x, e) \/ For(x, e)
  \/ If

Answer ==
  \/ UndefinedVariable \/ LoadFromArgument \/ Load
  \/ Declare \/ AlreadyDeclared
  \/ LoadRight \/ Store \/ StoreToNew
  \/ LoadLimit

Close == Else \/ EndIf \/ EndFor \/ EndFunction \/ EndStruct \/ Finish

Next ==
  \/ FindNamedValue
  \/ Statement
  \/ Answer
  \/ \E arguments \in SUBSET Names : \E pointers \in SUBSET arguments :
       Function(arguments, pointers)
  \/ Struct
  \/ Close
  \/ Stopped

Spec == Init /\ [][Next]_vars

-----------------------------------------------------------------------------
TypeOK ==
  /\ nodes \in Seq([kind : Kinds, name : Names \cup {NoName}, parent : Nat, above : SUBSET Nat,
                    region : SUBSET Nat,
                    namedValues : [Names -> [kind : ValueKinds, stored : SUBSET Nat]]])
  /\ at \in 1 .. Len(nodes)
  /\ region \subseteq 1 .. blocks
  /\ blocks \in Nat
  /\ look \in [for : {"none", "use", "declaration", "target"}, name : Names \cup {NoName},
               use : 0 .. Len(nodes), node : 0 .. Len(nodes), child : 0 .. Len(nodes),
               returned : BOOLEAN, result : 0 .. Len(nodes)]
  /\ status \in {"generating", "exited", "undefined", "done"}

(***************************************************************************)
(* What a reader takes the scope of a variable to be: what is below the    *)
(* node that holds it, from there on.  A for, a function and their         *)
(* variables are one node; other variables are held by the body they are   *)
(* declared in, and so is, after the loop, the variable of a for.          *)
(***************************************************************************)
Visible(x, n) ==
  {m \in 1 .. Len(nodes) :
     /\ Has(m, x)
     /\ \/ m \in nodes[n].above
        \/ m < n /\ nodes[m].parent \in nodes[n].above \ {Root}}

Holder(m, n) == IF m \in nodes[n].above THEN m ELSE nodes[m].parent

InnerTo(m, n) == n = m \/ n \in nodes[m].above

Returned == look.for # "none" /\ look.returned

(***************************************************************************)
(* The search, which goes up node by node, returns a variable if and only  *)
(* if one is visible, and then one that no visible variable is inside of:  *)
(* in the same body, the first.                                            *)
(***************************************************************************)
NearestIsFound ==
  Returned =>
    LET visible == Visible(look.name, look.use)
        holder == Holder(look.result, look.use)
    IN  IF look.result = 0
        THEN visible = {}
        ELSE /\ look.result \in visible
             /\ \A m \in visible :
                  LET other == Holder(m, look.use)
                  IN  /\ InnerTo(holder, other)
                      /\ other = holder => look.result <= m

FunctionsOf(n) == {f \in nodes[n].above \cup {n} : nodes[f].kind = "function"}

(***************************************************************************)
(* A name is bound to a variable of the function it is in.  The exception  *)
(* is a method in which the name is not declared: it finds the arguments   *)
(* of the methods before it in the struct, which are values of another     *)
(* function.                                                               *)
(***************************************************************************)
StaysInFunction ==
  Returned /\ look.result # 0 =>
    \/ FunctionsOf(look.result) = FunctionsOf(look.use)
    \/ /\ nodes[look.result].kind = "function"
       /\ nodes[nodes[look.result].parent].kind = "members"
       /\ nodes[look.result].parent \in nodes[look.use].above

(***************************************************************************)
(* A variable that is found in its function has been stored to on every    *)
(* way to the place where it is used: namedValues are of the tree, the     *)
(* stores are in basic blocks.                                             *)
(***************************************************************************)
StoredBefore ==
  Returned /\ look.result # 0 /\ FunctionsOf(look.result) = FunctionsOf(look.use)
    => FoundValue.stored \subseteq region

=============================================================================
