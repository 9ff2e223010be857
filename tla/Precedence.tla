------------------------------ MODULE Precedence ------------------------------
(***************************************************************************)
(* How an expression is grouped: the tree generateAST makes of its tokens, *)
(* in which every operator takes all that follows it, and the rotations of *)
(* fixPrecedence (src/src/parser.cpp).                                     *)
(*                                                                         *)
(* The tree is a heap of nodes, changed in place: fixPrecedence keeps      *)
(* pointers to two children while it rotates their parent.  A node made by *)
(* generateAST is known by the position of its token.                      *)
(***************************************************************************)
EXTENDS Integers, Sequences, SequencesExt, FiniteSets, FiniteSetsExt

CONSTANT Expressions

\* Brackets, operators and operands; a call is one operand.
Opening == {"(", "["}
Closing == {")", "]"}

operatorDefaultNodeType ==
  [ t \in {"..", "!=", "==", "<", ">", ">=", "+", "-", "*", "/", "&", "[", ".", "->"} |->
     CASE t = ".." -> "Range_Node"
       [] t = "!=" -> "Compare_Not"
       [] t = "==" -> "Compare_Equal"
       [] t = "<" -> "Compare_Less"
       [] t = ">" -> "Compare_Greater"
       [] t = ">=" -> "Compare_GreaterEqual"
       [] t = "+" -> "Expression_Plus"
       [] t = "-" -> "Expression_Minus"
       [] t = "*" -> "Expression_Times"
       [] t = "/" -> "Expression_Divide"
       [] t = "&" -> "Address_Of_Operation"
       [] t = "[" -> "Access_Operation"
       [] t = "." -> "Member_Access"
       [] t = "->" -> "Pipe_Operation" ]

\* "<=" and the general operators, such as "||", have no node type of their own.
Operators == (DOMAIN operatorDefaultNodeType \ {"["}) \cup {"<=", "||"}
Tokens == Opening \cup Closing \cup Operators \cup {"operand"}

ASSUME ExpressionsAssumption == Expressions \subseteq Seq(Tokens)

Comparisons == {"Compare_Equal", "Compare_Not", "Compare_Less", "Compare_LessEqual",
                "Compare_Greater", "Compare_GreaterEqual"}

operatorPrecedence ==
  [ n \in Comparisons \cup {"Operator_Overload_Node", "Member_Access", "Access_Operation",
          "Expression_Paren_Term", "Address_Of_Operation", "Expression_Times",
          "Expression_Divide", "Expression_Plus", "Expression_Minus", "Range_Node",
          "Pipe_Operation"} |->
     CASE n = "Operator_Overload_Node" -> 100
       [] n = "Member_Access" -> 90
       [] n = "Access_Operation" -> 80
       [] n = "Expression_Paren_Term" -> 70
       [] n = "Address_Of_Operation" -> 50
       [] n \in {"Expression_Times", "Expression_Divide"} -> 40
       [] n \in {"Expression_Plus", "Expression_Minus"} -> 30
       [] n \in Comparisons -> 20
       [] n = "Range_Node" -> 15
       [] n = "Pipe_Operation" -> 10 ]

leftAssociativeOperators == {"Member_Access", "Access_Operation", "Pipe_Operation"}

NodeTypes == DOMAIN operatorPrecedence \cup
  {"Identifier_Node", "Dereference_Operation", "Redefined_Operator_Expr"}

VARIABLES
  tokens,
  nodes,   \* the heap: nodeType and childNodes
  stack    \* the calls of fixPrecedence that have not returned, the last one first

vars == <<tokens, nodes, stack>>

-----------------------------------------------------------------------------
(***************************************************************************)
(* generateAST                                                             *)
(***************************************************************************)
Level(q) == Cardinality({p \in 1 .. q - 1 : tokens[p] \in Opening})
            - Cardinality({p \in 1 .. q - 1 : tokens[p] \in Closing})

\* The bracket that closes the one at q, and the one that opens what ends at q
ClosedAt(q) == Min({p \in q + 1 .. Len(tokens) :
                      tokens[p] \in Closing /\ Level(p) = Level(q) + 1})
OpenedAt(q) == Max({p \in 1 .. q - 1 : tokens[p] \in Opening /\ Level(p) = Level(q) - 1})

\* An operator takes the tokens up to the bracket it is in.
EndOfRest(q) ==
  LET closing == {p \in q + 1 .. Len(tokens) : tokens[p] \in Closing /\ Level(p) = Level(q)}
  IN IF closing = {} THEN Len(tokens) ELSE Min(closing) - 1

\* The node left when the tokens from first to last are done
NodeOf(first, last) ==
  LET at(ts) == {q \in first .. last : tokens[q] \in ts /\ Level(q) = Level(first)}
  IN IF at(Operators) # {} THEN Min(at(Operators))
     ELSE IF at({"["}) # {} THEN Max(at({"["}))
     ELSE first

\* The leaf node there is when the token at q is reached: an operator without one is unary.
HasLeaf(q) == q > 1 /\ tokens[q - 1] \in Closing \cup {"operand"}
Leaf(q) == IF tokens[q - 1] = "operand" THEN q - 1 ELSE OpenedAt(q - 1)

NodeType(q) ==
  CASE tokens[q] = "operand" -> "Identifier_Node"
    [] tokens[q] = "(" -> "Expression_Paren_Term"
    [] tokens[q] = "*" /\ ~HasLeaf(q) -> "Dereference_Operation"
    [] tokens[q] \in {"<=", "||"} -> "Redefined_Operator_Expr"
    [] OTHER -> operatorDefaultNodeType[tokens[q]]

ChildNodes(q) ==
  CASE tokens[q] = "operand" -> <<>>
    [] tokens[q] = "(" -> <<NodeOf(q + 1, ClosedAt(q) - 1)>>
    [] tokens[q] = "[" -> <<Leaf(q), NodeOf(q + 1, ClosedAt(q) - 1)>>
    [] tokens[q] \in Operators /\ HasLeaf(q) -> <<Leaf(q), NodeOf(q + 1, EndOfRest(q))>>
    [] tokens[q] \in Operators /\ ~HasLeaf(q) -> <<NodeOf(q + 1, EndOfRest(q))>>

Sources == {q \in 1 .. Len(tokens) : tokens[q] \notin Closing}

GenerateAST == [q \in Sources |-> [nodeType |-> NodeType(q), childNodes |-> ChildNodes(q)]]

Root == NodeOf(1, Len(tokens))

-----------------------------------------------------------------------------
(***************************************************************************)
(* fixPrecedence.  leftChild and rightChild are read once, after the       *)
(* children have been fixed.                                               *)
(***************************************************************************)
Steps == {"children", "same", "left", "right", "return"}

Call(n) == [node |-> n, step |-> "children", child |-> 1, leftChild |-> n, rightChild |-> n]

Init == /\ tokens \in Expressions
        /\ nodes = GenerateAST
        /\ stack = <<Call(Root)>>

Top == Head(stack)
At(step) == stack # <<>> /\ Top.step = step
Node == nodes[Top.node]

IsBinary(n) == nodes[n].nodeType \in DOMAIN operatorPrecedence /\ Len(nodes[n].childNodes) = 2
Precedence(n) == operatorPrecedence[nodes[n].nodeType]

\* Mutant of FixChild: the call is not made.
FixNoChild ==
  /\ At("children")
  /\ Top.child <= Len(Node.childNodes)
  /\ UNCHANGED vars

FixChild ==
  /\ At("children")
  /\ Top.child <= Len(Node.childNodes)
  /\ stack' = <<Call(Node.childNodes[Top.child]), [Top EXCEPT !.child = @ + 1]>> \o Tail(stack)
  /\ UNCHANGED <<tokens, nodes>>

ReadChildren ==
  /\ At("children")
  /\ Top.child > Len(Node.childNodes)
  /\ stack' = <<IF IsBinary(Top.node)
                THEN [Top EXCEPT !.step = "same", !.leftChild = Node.childNodes[1],
                                                  !.rightChild = Node.childNodes[2]]
                ELSE [Top EXCEPT !.step = "return"]>> \o Tail(stack)
  /\ UNCHANGED <<tokens, nodes>>

New == Len(tokens) + 1 + Cardinality({n \in DOMAIN nodes : n > Len(tokens)})

\* Mutant of Rotate: the new node keeps the children it was copied with.
RotateUncleared(type, top, copy, next) ==
  /\ nodes' = [n \in DOMAIN nodes \cup {New} |->
                 CASE n = New -> [nodeType |-> Node.nodeType, childNodes |-> Node.childNodes \o copy]
                   [] n = Top.node -> [nodeType |-> type, childNodes |-> top]
                   [] OTHER -> nodes[n]]
  /\ stack' = <<Call(New), [Top EXCEPT !.step = next]>> \o Tail(stack)
  /\ UNCHANGED tokens

\* Mutant of Rotate: the node is copied after its type has changed.
RotateThenCopy(type, top, copy, next) ==
  /\ nodes' = [n \in DOMAIN nodes \cup {New} |->
                 CASE n = New -> [nodeType |-> type, childNodes |-> copy]
                   [] n = Top.node -> [nodeType |-> type, childNodes |-> top]
                   [] OTHER -> nodes[n]]
  /\ stack' = <<Call(New), [Top EXCEPT !.step = next]>> \o Tail(stack)
  /\ UNCHANGED tokens

\* The node gets another type and children, among them a copy of what it was, which is
\* fixed before the next step.
Rotate(type, top, copy, next) ==
  /\ nodes' = [n \in DOMAIN nodes \cup {New} |->
                 CASE n = New -> [nodeType |-> Node.nodeType, childNodes |-> copy]
                   [] n = Top.node -> [nodeType |-> type, childNodes |-> top]
                   [] OTHER -> nodes[n]]
  /\ stack' = <<Call(New), [Top EXCEPT !.step = next]>> \o Tail(stack)
  /\ UNCHANGED tokens

Keep(next) == /\ stack' = <<[Top EXCEPT !.step = next]>> \o Tail(stack)
              /\ UNCHANGED <<tokens, nodes>>

\* (a op (b op c)) -> ((a op b) op c)
RotateSame ==
  /\ At("same")
  /\ LET right == nodes[Top.rightChild] IN
     IF /\ Node.nodeType \in leftAssociativeOperators
        /\ right.nodeType = Node.nodeType
        /\ Len(right.childNodes) = 2
     THEN Rotate(Node.nodeType, <<New, right.childNodes[2]>>,
                 <<Top.leftChild, right.childNodes[1]>>, "left")
     ELSE Keep("left")

\* Rotate right for tighter right
RotateRight ==
  /\ At("left")
  /\ LET left == nodes[Top.leftChild] IN
     IF IsBinary(Top.leftChild) /\ Precedence(Top.node) > Precedence(Top.leftChild)
     THEN Rotate(left.nodeType, <<left.childNodes[1], New>>,
                 <<left.childNodes[2], Top.rightChild>>, "right")
     ELSE Keep("right")

\* Mutant of RotateLeft: operators of the same precedence are rotated, too.
RotateLeftOfSame ==
  /\ At("right")
  /\ LET right == nodes[Top.rightChild] IN
     IF IsBinary(Top.rightChild) /\ Precedence(Top.node) >= Precedence(Top.rightChild)
     THEN Rotate(right.nodeType, <<New, right.childNodes[2]>>,
                 <<Top.leftChild, right.childNodes[1]>>, "return")
     ELSE Keep("return")

\* Rotate left for tighter left
RotateLeft ==
  /\ At("right")
  /\ LET right == nodes[Top.rightChild] IN
     IF IsBinary(Top.rightChild) /\ Precedence(Top.node) > Precedence(Top.rightChild)
     THEN Rotate(right.nodeType, <<New, right.childNodes[2]>>,
                 <<Top.leftChild, right.childNodes[1]>>, "return")
     ELSE Keep("return")

Return ==
  /\ At("return")
  /\ stack' = Tail(stack)
  /\ UNCHANGED <<tokens, nodes>>

Finished == stack = <<>> /\ UNCHANGED vars

Next ==
  \/ FixChild \/ ReadChildren \/ RotateSame \/ RotateRight \/ RotateLeft \/ Return
  \/ Finished

Spec == Init /\ [][Next]_vars /\ WF_vars(Next)

-----------------------------------------------------------------------------
(***************************************************************************)
(* Properties                                                              *)
(***************************************************************************)
\* Every node has the children its type may have, and no pointer leads out of the heap.
TypeOK ==
  /\ tokens \in Seq(Tokens)
  /\ DOMAIN nodes \subseteq Nat \ {0}
  /\ \A n \in DOMAIN nodes :
       /\ nodes[n].nodeType \in NodeTypes
       /\ nodes[n].childNodes \in Seq(DOMAIN nodes)
       /\ Len(nodes[n].childNodes) <= 2
  /\ \A k \in 1 .. Len(stack) :
       stack[k] \in [node : DOMAIN nodes, step : Steps, child : 1 .. 3,
                     leftChild : DOMAIN nodes, rightChild : DOMAIN nodes]

(***************************************************************************)
(* What the tree says, read in the order of the source: operands by their  *)
(* position, operations by their type.                                     *)
(***************************************************************************)
Item(n) == IF nodes[n].nodeType = "Identifier_Node" THEN <<"operand", n>>
                                                    ELSE <<nodes[n].nodeType, 0>>

Reading ==
  LET reading[d \in 0 .. Cardinality(DOMAIN nodes), n \in DOMAIN nodes] ==
        LET part(i) == reading[d - 1, nodes[n].childNodes[i]] IN
        IF d = 0 THEN <<>>
        ELSE CASE Len(nodes[n].childNodes) = 0 -> <<Item(n)>>
               [] Len(nodes[n].childNodes) = 1 -> <<Item(n)>> \o part(1)
               [] Len(nodes[n].childNodes) = 2 -> part(1) \o <<Item(n)>> \o part(2)
  IN reading[Cardinality(DOMAIN nodes), Root]

Source ==
  LET places == SelectSeq([q \in 1 .. Len(tokens) |-> q], LAMBDA q : q \in Sources)
  IN [k \in 1 .. Len(places) |->
        IF tokens[places[k]] = "operand" THEN <<"operand", places[k]>>
                                         ELSE <<NodeType(places[k]), 0>>]

Operand(item) == item[1] = "operand"

MemberOfElement == \E q \in 1 .. Len(tokens) - 1 : tokens[q] = "]" /\ tokens[q + 1] = "."

\* An index is an operand or in parentheses, and no member is one of an element.
SimpleElements ==
  /\ ~MemberOfElement
  /\ \A q \in 1 .. Len(tokens) :
       tokens[q] = "[" => tokens[NodeOf(q + 1, ClosedAt(q) - 1)] \in {"operand", "("}

\* At any moment the tree holds every operand once, in the order of the source; and every
\* operation, between the operands it is between in the source, if the elements in the
\* expression are simple.
ReadsAsSource ==
  /\ SelectSeq(Reading, Operand) = SelectSeq(Source, Operand)
  /\ SimpleElements => Reading = Source

Reached ==
  LET reached[d \in 0 .. Cardinality(DOMAIN nodes)] ==
        IF d = 0 THEN {Root}
        ELSE reached[d - 1] \cup UNION {ToSet(nodes[n].childNodes) : n \in reached[d - 1]}
  IN reached[Cardinality(DOMAIN nodes)]

\* The grouping of an expression with simple elements: an operator binds tighter than the
\* one above it; of two that bind as tight, the left one is below if they are of a left
\* associative operator, and otherwise the right one.
Grouped ==
  stack = <<>> /\ SimpleElements =>
    \A n \in Reached : IsBinary(n) =>
      LET left == nodes[n].childNodes[1]
          right == nodes[n].childNodes[2]
          associative == nodes[n].nodeType \in leftAssociativeOperators
      IN /\ IsBinary(left) =>
              \/ Precedence(left) > Precedence(n)
              \/ associative /\ Precedence(left) = Precedence(n)
         /\ IsBinary(right) =>
              \/ Precedence(right) > Precedence(n)
              \/ ~associative /\ Precedence(right) = Precedence(n)

\* fixPrecedence returns.
Terminates == <>(stack = <<>>)

=============================================================================
