----------------------------- MODULE Statements -----------------------------
(***************************************************************************)
(* How statements and declarations are read: generateAST, which goes       *)
(* through a list of tokens and calls itself for the lists it gathers from *)
(* it, and unifyNodes (src/src/parser.cpp).                                *)
(*                                                                         *)
(* What may still become an operand of something is kept in leafNodes of   *)
(* the node being filled, and a semicolon makes it a child.  Nothing says  *)
(* that a statement has ended but that.                                    *)
(*                                                                         *)
(* A program is given as what its author means, a sequence of statements,  *)
(* and is read from the tokens that are written for it.  How operators are *)
(* grouped is left to module Precedence.                                   *)
(***************************************************************************)
EXTENDS Integers, Sequences, SequencesExt, FiniteSets, FiniteSetsExt

CONSTANTS Programs, MAX_AST_DEPTH

VARIABLES
  program,
  tokens,
  nodes,    \* the nodes made so far, with childNodes and leafNodes
  calls,    \* the calls of generateAST that have not returned
  status    \* "parsing", "done", "exited" (1) or "undefined"

vars == <<program, tokens, nodes, calls, status>>

operatorDefaultNodeType ==
  [t \in {"+", "*", ".", "..", "[", "->"} |->
     CASE t = "+" -> "Expression_Plus"
       [] t = "*" -> "Expression_Times"
       [] t = "." -> "Member_Access"
       [] t = ".." -> "Range_Node"
       [] t = "[" -> "Access_Operation"
       [] t = "->" -> "Pipe_Operation"]

\* "%" stands for the general operators.
Operators == DOMAIN operatorDefaultNodeType \cup {"%"}
Literals == {"0", "1"}
compileTimeDefinable == {"if", "for", "while", "struct", "module"}
Jumps == {"return", "break"}
Ends == {"EOL", "EOF"}
Symbols == {"(", ")", "]", "{", "}", ",", ":", "::", ";", "=", "#", "...", "else", "operator"}
Identifier(t) ==
  t \notin Operators \cup Literals \cup compileTimeDefinable \cup Jumps \cup Ends \cup Symbols

-----------------------------------------------------------------------------
(***************************************************************************)
(* Gathering.  A list of tokens is a sequence ts of their positions, i the *)
(* number of those that have been consumed.  What is gathered is a list,   *)
(* the new i, and what goes wrong: exit(1), or a read past the end.        *)
(***************************************************************************)
Tok(ts, k) == tokens[ts[k]]
Gathered(sub, i) == [sub |-> sub, i |-> i, early |-> FALSE, fault |-> ""]
Early(sub, i) == [Gathered(sub, i) EXCEPT !.early = TRUE]
Fault(ts, fault) == [Gathered(<<>>, Len(ts)) EXCEPT !.fault = fault]

\* How many more of open than of close are in what follows i, up to k
Level(ts, i, k, open, close) ==
  Cardinality({j \in i + 1 .. k : Tok(ts, j) = open})
    - Cardinality({j \in i + 1 .. k : Tok(ts, j) = close})
Parens(ts, i, k) == Level(ts, i, k, "(", ")")
Braces(ts, i, k) == Level(ts, i, k, "{", "}")
Brackets(ts, i, k) == Level(ts, i, k, "[", "]")

\* The first of the places in S, or the one past the end
First(ts, S) == IF S = {} THEN Len(ts) + 1 ELSE Min(S)
After(ts, i) == i + 1 .. Len(ts)
Next1(ts, i, kinds) == First(ts, {k \in After(ts, i) : Tok(ts, k) \in kinds})
Consumed(ts, k) == IF k <= Len(ts) THEN k ELSE Len(ts)

Inside(ts, i, k, preserve, open) ==
  IF preserve \/ Tok(ts, i + 1) # open THEN SubSeq(ts, i + 1, k) ELSE SubSeq(ts, i + 2, k - 1)

\* GATHER_SCOPE_BODY_APPEND: a body in braces, or one token.
GatherBody(ts, i, preserve) ==
  LET k == First(ts, {j \in After(ts, i) : Braces(ts, i, j) <= 0})
  IN CASE i >= Len(ts) -> Fault(ts, "undefined")
       [] i < Len(ts) /\ Tok(ts, i + 1) = ";" -> Early(<<>>, i + 1)
       [] i < Len(ts) /\ Tok(ts, i + 1) # ";" /\ k > Len(ts) -> Fault(ts, "exited")
       [] OTHER -> Gathered(Inside(ts, i, k, preserve, "{"), k)

\* GATHER_SCOPE_BODY, with the braces
GatherScopeBody(ts, i) == IF i >= Len(ts) THEN Early(<<>>, i) ELSE GatherBody(ts, i, TRUE)

\* GATHER_PAREN_EXPRESSION: no semicolon may come before the end.
GatherParens(ts, i, preserve) ==
  LET k == First(ts, {j \in After(ts, i) : Parens(ts, i, j) <= 0})
  IN CASE i >= Len(ts) -> Fault(ts, "undefined")
       [] i < Len(ts) /\ (k > Len(ts) \/ Next1(ts, i - 1, {";", "EOF"}) < k) -> Fault(ts, "exited")
       [] OTHER -> Gathered(Inside(ts, i, k, preserve, "("), k)

\* Mutant of NoSemicolon: the end of a line always stands for one.
NoSemicolonNeeded(ts, i, stop, allowRunOut) == Early(SubSeq(ts, i + 1, stop), stop)

NoSemicolon(ts, i, stop, allowRunOut) ==
  IF allowRunOut THEN Early(SubSeq(ts, i + 1, stop), stop) ELSE Fault(ts, "exited")

\* GATHER_TO_SEMICOLON: the end of a line before it is an error, or allowed.
GatherToSemicolon(ts, i, includeLast, allowRunOut) ==
  LET k == Next1(ts, i, {";"})
      stop == Consumed(ts, Next1(ts, i - 1, {"EOL"}))
  IN CASE i >= Len(ts) -> Early(<<>>, i)
       [] i < Len(ts) /\ k <= Len(ts) /\ k <= stop ->
            Gathered(SubSeq(ts, i + 1, IF includeLast THEN k ELSE k - 1), k)
       [] OTHER -> NoSemicolon(ts, i, stop, allowRunOut)

\* The right side of an operator: to the end of the statement or an assignment.
GatherOperand(ts, i) ==
  LET k == First(ts, {j \in After(ts, i) :
             \/ Tok(ts, j) \in {"EOL", ";"}
             \/ Parens(ts, i, j) = -1 /\ Braces(ts, i, j) = -1 /\ Brackets(ts, i, j) = -1
             \/ /\ Tok(ts, j) = "="
                /\ Parens(ts, i, j) = 0 /\ Braces(ts, i, j) = 0 /\ Brackets(ts, i, j) = 0})
      ended == k <= Len(ts) /\ Tok(ts, k) \in {"EOL", ";"}
      assigned == k <= Len(ts) /\ Tok(ts, k) = "="
  IN [Gathered(SubSeq(ts, i + 1, k - 1), IF assigned THEN k - 1 ELSE Consumed(ts, k))
        EXCEPT !.early = ended]

\* The index of an element: to the bracket that closes it.
GatherIndex(ts, i) ==
  LET k == First(ts, {j \in After(ts, i) : Brackets(ts, i, j) = -1})
      assigned == {j \in i + 1 .. k - 1 : /\ Tok(ts, j) = "="
                                          /\ Parens(ts, i, j) = 0 /\ Braces(ts, i, j) = 0
                                          /\ Brackets(ts, i, j) = 0}
  IN IF assigned # {} THEN Fault(ts, "exited")
     ELSE Gathered(SubSeq(ts, i + 1, k - 1), Consumed(ts, k))

\* The type after a colon
GatherType(ts, i) ==
  LET k == First(ts, {j \in After(ts, i) : \/ Tok(ts, j) \in {"=", ";", "EOL"}
                                           \/ Parens(ts, i, j) = -1})
      kept == k <= Len(ts) /\ Tok(ts, k) \in {"=", ";"}
  IN IF k = i + 1 THEN Fault(ts, "exited")
     ELSE Gathered(SubSeq(ts, i + 1, k - 1), IF kept THEN k - 1 ELSE Consumed(ts, k))

\* What is in parentheses ends with them, with a line or with a semicolon.
EndOfParens(ts, i) ==
  First(ts, {j \in After(ts, i) : Parens(ts, i, j) = -1 \/ Tok(ts, j) \in {"EOL", ";"}})

Pieces(ts, i) ==
  LET k == EndOfParens(ts, i)
      commas == {j \in i + 1 .. k - 1 : Tok(ts, j) = "," /\ Parens(ts, i, j) = 0}
      cuts == <<i>> \o SetToSortSeq(commas, <) \o <<k>>
  IN [n \in 1 .. Len(cuts) - 1 |-> SubSeq(ts, cuts[n] + 1, cuts[n + 1] - 1)]

-----------------------------------------------------------------------------
(***************************************************************************)
(* Nodes and calls.  A call that has to read other lists first has a task: *)
(* the jobs, lists to be read in this order, and the nodes made of those   *)
(* that have been.                                                         *)
(***************************************************************************)
ASTNode(type, token, children) ==
  [nodeType |-> type, token |-> token, childNodes |-> children, leafNodes |-> <<>>]
NoTask == [of |-> "", node |-> 0, jobs |-> <<>>, results |-> <<>>, leaf |-> FALSE]
Call(parent, ts) == [parent |-> parent, ts |-> ts, i |-> 0, task |-> NoTask]

Top == calls[Len(calls)]
Ts == Top.ts
I == Top.i + 1
Parent == nodes[Top.parent]
Leaves == Parent.leafNodes
Task == Top.task
Result(k) == Task.results[k]
New == Len(nodes) + 1

\* A job: a list, and the node it is read into (0 is a new one).
Job(g) == [sub |-> g.sub, fault |-> g.fault, into |-> 0]
JobOf(sub) == [sub |-> sub, fault |-> "", into |-> 0]

Input == <<program, tokens>>
Stop(s) == status' = s /\ UNCHANGED <<nodes, calls>>

\* The token at I is read, and what follows it up to i.
Read(heap, i) ==
  /\ nodes' = heap
  /\ calls' = [calls EXCEPT ![Len(calls)].i = i, ![Len(calls)].task = NoTask]
  /\ UNCHANGED status

Begin(of, heap, node, i, jobs, leaf) ==
  /\ nodes' = heap
  /\ calls' = [calls EXCEPT
       ![Len(calls)].i = i,
       ![Len(calls)].task = [of |-> of, node |-> node, jobs |-> jobs, results |-> <<>>, leaf |-> leaf]]
  /\ UNCHANGED status

\* addNode, addNodeAsLeaf
Add(heap, node, leaf) ==
  Read(IF leaf THEN [heap EXCEPT ![Top.parent].leafNodes = Append(@, node)]
               ELSE [heap EXCEPT ![Top.parent].childNodes = Append(@, node)], Top.i)

\* The text of a node's token; a new node has an empty one.
Text(n) == IF nodes[n].token = 0 THEN "" ELSE tokens[nodes[n].token]

NewNode(type) == Append(nodes, ASTNode(type, Ts[I], <<>>))
Pop(heap) == [heap EXCEPT ![Top.parent].leafNodes = Front(@)]

-----------------------------------------------------------------------------
(***************************************************************************)
(* What the author writes: statements, with what comes before an opening   *)
(* brace and after the statement.                                          *)
(***************************************************************************)
RECURSIVE Written(_), WrittenAll(_)
WrittenAll(statements) ==
  IF statements = <<>> THEN <<>> ELSE Written(Head(statements)) \o WrittenAll(Tail(statements))
Written(s) ==
  LET braced == s.open \o <<"{">> \o WrittenAll(s.body) \o <<"}">>
      text == CASE s.kind = "call" -> <<s.name, "(", "a", ",", "1", ")">>
                [] s.kind = "sum" -> <<s.name, "+", "1">>
                [] s.kind = "pointer" -> <<"*", s.name, "=", "1">>
                [] s.kind = "element" -> <<s.name, "[", "0", "]", "=", "(", "a", ")">>
                [] s.kind = "assign" -> <<s.name, "=", "#", "new", "T">>
                [] s.kind = "declare" -> <<s.name, ":", "T", "*">>
                [] s.kind = "pipe" -> <<s.name, "->", "f", "(", "%", ")">>
                [] s.kind = "stray" -> <<s.name>>
                [] s.kind = "define" -> <<s.name, ":", "*", "T", "=", "1">>
                [] s.kind = "return" -> <<"return", s.name>>
                [] s.kind = "import" -> <<"#", "import", s.name, ".", "M">>
                [] s.kind = "extern" -> <<"#", "extern", s.name, "::", "(", "...", ")">>
                [] s.kind = "block" -> braced
                [] s.kind = "if" -> <<"if", "(", s.name, ")">> \o braced \o WrittenAll(s.more)
                [] s.kind = "elseif" -> <<"else", "if", "(", s.name, ")">> \o braced
                [] s.kind = "else" -> <<"else">> \o braced
                [] s.kind = "while" -> <<"while", "(", s.name, ")">> \o braced
                [] s.kind = "for" -> <<"for", "(", s.name, ":", "0", "..", "1", ")">> \o braced
                [] s.kind = "function" ->
                     <<s.name, "::", "T", "(", "a", ":", "T", ",", "T", "b", ")", "#", "inline", ";">>
                       \o braced
                [] s.kind = "operator" -> <<"operator", "+", "::", "(", ")">> \o braced
                [] s.kind = "struct" -> <<s.name, "::", "struct">> \o braced
                [] s.kind = "module" -> <<s.name, "::", "module">> \o braced
                [] s.kind = "macro" -> <<s.name, "::">> \o braced
                [] s.kind = "blank" -> <<>>
  IN text \o s.end

Init ==
  /\ program \in Programs
  /\ tokens = WrittenAll(program) \o <<"EOF">>
  /\ nodes = <<ASTNode("Scope_Body", 0, <<>>)>>
  /\ calls = <<Call(1, [p \in 1 .. Len(tokens) |-> p])>>
  /\ status = "parsing"

-----------------------------------------------------------------------------
(***************************************************************************)
(* generateAST: calling itself, and returning.                             *)
(***************************************************************************)
Busy == status = "parsing" /\ Task # NoTask
At(kinds) == status = "parsing" /\ Task = NoTask /\ I <= Len(Ts) /\ Tok(Ts, I) \in kinds
Done(of) == Busy /\ Task.of = of /\ Len(Task.results) = Len(Task.jobs)

\* Nothing, a type and a name, or ...
IsArgument(leaves) ==
  \/ Len(leaves) \in {0, 2}
  \/ Len(leaves) = 1 /\ nodes[leaves[1]].nodeType = "Argument_List"

TooDeep == Len(calls) = MAX_AST_DEPTH

\* What was read last leaves no range for a for, or is no argument of a function.
EmptyRange ==
  /\ Task.of = "for" /\ Len(Task.results) = Len(Task.jobs) - 1
  /\ nodes[Last(Task.results)].childNodes = <<>>
ArgumentRefused ==
  /\ Task.of = "function" /\ Len(Task.results) = Len(Task.jobs) - (IF Task.leaf THEN 1 ELSE 2)
  /\ \E k \in 2 .. Len(Task.results) : ~IsArgument(nodes[Result(k)].leafNodes)

GenerateAST ==
  /\ Busy /\ Len(Task.results) < Len(Task.jobs)
  /\ LET job == Task.jobs[Len(Task.results) + 1]
     IN  IF EmptyRange THEN Stop("undefined")
         ELSE IF ArgumentRefused \/ TooDeep THEN Stop("exited")
         ELSE IF job.fault # "" THEN Stop(job.fault)
         ELSE /\ nodes' = IF job.into # 0 THEN nodes ELSE Append(nodes, ASTNode("Nothing_Node", 0, <<>>))
              /\ calls' = Append(calls, Call(IF job.into # 0 THEN job.into ELSE New, job.sub))
              /\ UNCHANGED status
  /\ UNCHANGED Input

\* One leaf and no child: it is the child.
OnlyLeaf ==
  IF Len(Leaves) = 1 /\ Parent.childNodes = <<>>
  THEN [nodes EXCEPT ![Top.parent].childNodes = Leaves, ![Top.parent].leafNodes = <<>>]
  ELSE nodes

Return ==
  /\ status = "parsing" /\ Task = NoTask /\ I > Len(Ts)
  /\ nodes' = OnlyLeaf
  /\ IF Len(calls) = 1
     THEN status' = "done" /\ UNCHANGED calls
     ELSE /\ calls' = [Front(calls) EXCEPT ![Len(calls) - 1].task.results = Append(@, Top.parent)]
          /\ UNCHANGED status
  /\ UNCHANGED Input

-----------------------------------------------------------------------------
(***************************************************************************)
(* Tokens that need no other list.                                         *)
(***************************************************************************)
Leaf ==
  /\ status = "parsing" /\ Task = NoTask /\ I <= Len(Ts)
  /\ Tok(Ts, I) \in Literals \/ Identifier(Tok(Ts, I))
  /\ Read([NewNode(IF Tok(Ts, I) \in Literals THEN "Integer_Node" ELSE "Identifier_Node")
             EXCEPT ![Top.parent].leafNodes = Append(@, New)], I)
  /\ UNCHANGED Input

Argument_List ==
  /\ At({"..."})
  /\ Read([NewNode("Argument_List") EXCEPT ![Top.parent].leafNodes = Append(@, New),
                                           ![Top.parent].childNodes = Append(@, New)], I)
  /\ UNCHANGED Input

Operator_Keyword ==
  /\ At({"operator"})
  /\ IF I = Len(Ts) THEN Stop("undefined")
     ELSE Read([Append(Append(nodes, ASTNode("Operator_Overload_Node", Ts[I], <<New + 1>>)),
                       ASTNode("Operator_Type_Node", Ts[I + 1], <<>>))
                  EXCEPT ![Top.parent].leafNodes = Append(@, New)], I + 1)
  /\ UNCHANGED Input

\* Mutant of Kept: the loop counts from one.
KeptOneMore(leaves) == SubSeq(leaves, 1, (Len(leaves) + 1) \div 2)

\* The loop that pops the leaves runs to a size that shrinks.
Kept(leaves) == SubSeq(leaves, 1, Len(leaves) \div 2)

Semi_Colon ==
  /\ At({";"})
  /\ Read([nodes EXCEPT ![Top.parent].childNodes = @ \o Leaves,
                        ![Top.parent].leafNodes = Kept(Leaves)], I)
  /\ UNCHANGED Input

\* A brace that is not open, and an else without an if
Unmatched == At({"}", "else"}) /\ Stop("exited") /\ UNCHANGED Input

\* Ends of lines, and what has no case
Ignored == At(Ends \cup {")", "]", ","}) /\ Read(nodes, I) /\ UNCHANGED Input

-----------------------------------------------------------------------------
(***************************************************************************)
(* Statements with bodies.                                                 *)
(***************************************************************************)
\* The lists of else if and else that follow i
ElseJobs ==
  LET jobs[i \in 0 .. Len(Ts)] ==
        LET e == First(Ts, {k \in After(Ts, i) : Tok(Ts, k) # "EOL"})
            f == First(Ts, {k \in After(Ts, e) : Tok(Ts, k) # "EOL"})
            condition == GatherParens(Ts, f, TRUE)
            body == GatherBody(Ts, condition.i, TRUE)
            scope == GatherScopeBody(Ts, e)
        IN CASE e > Len(Ts) -> [jobs |-> <<>>, i |-> i]
             [] e <= Len(Ts) /\ Tok(Ts, e) # "else" -> [jobs |-> <<>>, i |-> i]
             [] e <= Len(Ts) /\ Tok(Ts, e) = "else" /\ f <= Len(Ts) /\ Tok(Ts, f) = "if" ->
                  IF condition.fault # "" THEN [jobs |-> <<Job(condition)>>, i |-> Len(Ts)]
                  ELSE IF body.fault # "" THEN [jobs |-> <<Job(body)>>, i |-> Len(Ts)]
                  ELSE [jobs |-> <<JobOf(<<Ts[f]>> \o condition.sub \o body.sub)>> \o jobs[body.i].jobs,
                        i |-> jobs[body.i].i]
             [] OTHER -> [jobs |-> <<Job(scope)>>, i |-> scope.i]
  IN jobs

If_Statement ==
  /\ At({"if"})
  /\ LET condition == GatherParens(Ts, I, FALSE)
         body == GatherScopeBody(Ts, condition.i)
         elses == ElseJobs[body.i]
     IN Begin("if", NewNode("If_Statement_Node"), New, elses.i,
              <<Job(condition), Job(body)>> \o elses.jobs, FALSE)
  /\ UNCHANGED Input

\* Mutant of IfChildren: an if without an else has no third child.
IfChildrenOfTwo(heap, elses) ==
  [heap EXCEPT ![Task.node].childNodes = <<Result(1), Result(2)>> \o elses]

\* The first two children, and the else: what was given, or an empty one.
IfChildren(heap, elses) ==
  [heap EXCEPT ![Task.node].childNodes =
     <<Result(1), Result(2)>> \o (IF elses = <<>> THEN <<Len(heap)>> ELSE <<elses[1]>>)]

\* Every else is the third child of the if before it.
FinishIf ==
  /\ Done("if")
  /\ LET rest == SubSeq(Task.results, 3, Len(Task.results))
         IsIf(r) == Tok(Task.jobs[r].sub, 1) = "if"
         elses == [k \in 1 .. Len(rest) |->
                     IF Task.jobs[k + 2].sub # <<>> /\ IsIf(k + 2)
                     THEN nodes[rest[k]].childNodes[1] ELSE rest[k]]
         typed == [n \in DOMAIN nodes |->
                     [nodes[n] EXCEPT
                        !.nodeType = CASE n = Result(1) -> "Condition"
                                       [] n = Result(2) -> "Scope_Body"
                                       [] n \in ToSet(elses) /\ n \in ToSet(rest) -> "Else_Statement_Node"
                                       [] OTHER -> @,
                        !.childNodes = IF \E k \in 1 .. Len(elses) - 1 : n = elses[k]
                                       THEN LET k == CHOOSE j \in 1 .. Len(elses) - 1 : n = elses[j]
                                            IN [@ EXCEPT ![3] = elses[k + 1]]
                                       ELSE @]]
         blank == Append(typed, ASTNode("Else_Statement_Node", 0, <<>>))
     IN Add(IfChildren(blank, elses), Task.node, FALSE)
  /\ UNCHANGED Input

While_Statement ==
  /\ At({"while"})
  /\ LET condition == GatherParens(Ts, I, FALSE)
         body == GatherScopeBody(Ts, condition.i)
     IN Begin("while", NewNode("While_Statement_Node"), New, body.i, <<Job(condition), Job(body)>>, FALSE)
  /\ UNCHANGED Input

FinishWhile ==
  /\ Done("while")
  /\ Add([nodes EXCEPT ![Result(1)].nodeType = "Condition", ![Result(2)].nodeType = "Scope_Body",
                       ![Task.node].childNodes = Task.results], Task.node, FALSE)
  /\ UNCHANGED Input

\* The token after `for' is passed by.  A colon ends the iterator.
For_Statement ==
  /\ At({"for"})
  /\ LET i == I + 1
         k == EndOfParens(Ts, i)
         included == k <= Len(Ts) /\ Tok(Ts, k) \in {"EOL", ";"}
         colon == Next1(Ts, i, {":"})
         named == colon < k
         range == SubSeq(Ts, (IF named THEN colon ELSE i) + 1, IF included THEN k ELSE k - 1)
         body == GatherScopeBody(Ts, Consumed(Ts, k))
     IN Begin("for", NewNode("For_Statement_Node"), New, body.i,
              (IF named THEN <<JobOf(SubSeq(Ts, i + 1, colon - 1))>> ELSE <<>>)
                \o <<JobOf(range), Job(body)>>, FALSE)
  /\ UNCHANGED Input

FinishFor ==
  /\ Done("for")
  /\ LET n == Len(Task.results)
         children == nodes[Result(n - 1)].childNodes
         iterator == IF n = 3 THEN Result(1) ELSE New
     IN IF children = <<>> THEN Stop("undefined")
        ELSE Add([Append(nodes, ASTNode("Nothing_Node", 0, <<>>)) EXCEPT
                    ![iterator].nodeType = IF n = 3 THEN "Iterator" ELSE @,
                    ![children[1]].nodeType = "Range_Node",
                    ![Result(n)].nodeType = "Scope_Body",
                    ![Task.node].childNodes = <<iterator, children[1], Result(n)>>], Task.node, FALSE)
  /\ UNCHANGED Input

\* Struct_Define, Module_Define; a module is read into its own node.
Struct_Define ==
  /\ At({"struct", "module"})
  /\ LET body == GatherScopeBody(Ts, I)
         module == Tok(Ts, I) = "module"
     IN Begin(Tok(Ts, I), NewNode(IF module THEN "Nothing_Node" ELSE "Struct_Define_Node"), New, body.i,
              <<[Job(body) EXCEPT !.into = IF module THEN New ELSE 0]>>, FALSE)
  /\ UNCHANGED Input

FinishStruct ==
  /\ \/ /\ Done("struct")
        /\ Add([nodes EXCEPT ![Result(1)].nodeType = "Scope_Body",
                             ![Task.node].childNodes = Task.results], Task.node, FALSE)
     \/ /\ Done("module")
        /\ Add([nodes EXCEPT ![Task.node].nodeType = "Module_Define_Node"], Task.node, FALSE)
  /\ UNCHANGED Input

\* After a block one more token is passed by.
PastBlock(i) == i + 1

Left_Brace ==
  /\ At({"{"})
  /\ LET k == First(Ts, {j \in After(Ts, I) : Braces(Ts, I, j) = -1})
     IN CASE I = Len(Ts) -> Begin("block", nodes, 0, PastBlock(I), <<JobOf(<<>>)>>, FALSE)
          [] I < Len(Ts) /\ k > Len(Ts) -> Stop("exited")
          [] OTHER -> Begin("block", nodes, 0, PastBlock(k), <<JobOf(SubSeq(Ts, I + 1, k - 1))>>, FALSE)
  /\ UNCHANGED Input

FinishBlock ==
  /\ Done("block")
  /\ Add([nodes EXCEPT ![Result(1)].nodeType = "Scope_Body"], Result(1), FALSE)
  /\ UNCHANGED Input

-----------------------------------------------------------------------------
(***************************************************************************)
(* Expressions: their operands are taken from leafNodes.                   *)
(***************************************************************************)
Colon ==
  /\ At({":"})
  /\ LET type == GatherType(Ts, I)
     IN IF Leaves = <<>> \/ type.fault # "" THEN Stop("exited")
        ELSE Begin("type", [Pop(nodes) EXCEPT ![Last(Leaves)].nodeType = "Identifier_Node"],
                   Last(Leaves), type.i, <<Job(type)>>, TRUE)
  /\ UNCHANGED Input

FinishType ==
  /\ Done("type")
  /\ LET children == nodes[Result(1)].childNodes
     IN IF children = <<>> THEN Stop("undefined")
        ELSE Add([nodes EXCEPT ![children[1]].nodeType = "Type_Node",
                               ![Task.node].childNodes = Append(@, children[1])], Task.node, TRUE)
  /\ UNCHANGED Input

\* Binary with a leaf, unary without; [ with a leaf gathers the index.
Operator ==
  /\ At(Operators)
  /\ LET t == Tok(Ts, I)
         unary == Leaves = <<>>
         operand == IF t = "[" /\ ~unary THEN GatherIndex(Ts, I) ELSE GatherOperand(Ts, I)
         type == CASE t = "%" -> "Redefined_Operator_Expr"
                   [] t = "*" /\ unary -> "Dereference_Operation"
                   [] OTHER -> operatorDefaultNodeType[t]
         left == IF unary THEN <<>> ELSE <<Last(Leaves)>>
         heap == IF unary THEN nodes ELSE Pop(nodes)
         Made(made) == Append(heap, ASTNode(made, Ts[I], left))
     IN CASE operand.fault # "" -> Stop(operand.fault)
          [] operand.fault = "" /\ operand.sub # <<>> ->
               Begin("operator", Made(type), New, operand.i, <<Job(operand)>>, ~operand.early)
          [] operand.fault = "" /\ operand.sub = <<>> /\ t = "*" /\ ~unary ->
               Begin("noOperand", Made("Pointer_Node"), New, operand.i, <<>>, ~operand.early)
          [] operand.fault = "" /\ operand.sub = <<>> /\ t = "%" /\ unary ->
               Begin("noOperand", Made("Pipe_Placeholder"), New, operand.i, <<>>, ~operand.early)
          [] OTHER -> Stop("exited")
  /\ UNCHANGED Input

FinishOperator ==
  /\ \/ /\ Done("noOperand")
        /\ Add(nodes, Task.node, Task.leaf)
     \/ /\ Done("operator")
        /\ LET children == nodes[Result(1)].childNodes
           IN IF children = <<>> THEN Stop("undefined")
              ELSE Add([nodes EXCEPT ![Task.node].childNodes = Append(@, children[1])],
                       Task.node, Task.leaf)
  /\ UNCHANGED Input

Equal ==
  /\ At({"="})
  /\ LET term == GatherToSemicolon(Ts, I, FALSE, FALSE)
     IN IF Leaves = <<>> THEN Stop("undefined")
        ELSE Begin("equal", Append(Pop(nodes), ASTNode("Expression_Statement", Ts[I], <<Last(Leaves)>>)),
                   New, term.i, <<Job(term)>>, FALSE)
  /\ UNCHANGED Input

\* Return_Statement, and break, continue and goto, which are read the same way
Jump ==
  /\ At(Jumps)
  /\ LET term == GatherToSemicolon(Ts, I, TRUE, FALSE)
     IN Begin("equal", NewNode(IF Tok(Ts, I) = "return" THEN "Return_Node" ELSE "Break_Node"), New,
              term.i, <<Job(term)>>, FALSE)
  /\ UNCHANGED Input

FinishTerm ==
  /\ Done("equal")
  /\ Add([nodes EXCEPT ![Result(1)].nodeType = "Expression_Term",
                       ![Task.node].childNodes = Append(@, Result(1))], Task.node, FALSE)
  /\ UNCHANGED Input

\* A call if an identifier is there; any other leaf is dropped.
Left_Paren ==
  /\ At({"("})
  /\ LET isFunction == Leaves # <<>> /\ nodes[Last(Leaves)].nodeType = "Identifier_Node"
         k == EndOfParens(Ts, I)
         pieces == Pieces(Ts, I)
         isLeaf == ~(k <= Len(Ts) /\ Tok(Ts, k) \in {"EOL", ";"})
         heap == IF Leaves = <<>> THEN nodes ELSE Pop(nodes)
     IN Begin(IF isFunction THEN "call" ELSE "paren",
              IF isFunction THEN Append(heap, ASTNode("Function_Call", nodes[Last(Leaves)].token, <<>>))
                            ELSE heap,
              New, Consumed(Ts, k), [n \in DOMAIN pieces |-> JobOf(pieces[n])], isLeaf)
  /\ UNCHANGED Input

TypedTerms == [n \in DOMAIN nodes |->
  IF n \in ToSet(Task.results) THEN [nodes[n] EXCEPT !.nodeType = "Expression_Term"] ELSE nodes[n]]

FinishParen ==
  /\ \/ /\ Done("call")
        /\ Add([Append(TypedTerms, ASTNode("Arguments", 0, Task.results))
                  EXCEPT ![Task.node].childNodes = <<New>>], Task.node, Task.leaf)
     \/ /\ Done("paren")
        /\ Add([TypedTerms EXCEPT ![Result(1)].nodeType = "Expression_Paren_Term"], Result(1), Task.leaf)
  /\ UNCHANGED Input

-----------------------------------------------------------------------------
(***************************************************************************)
(* Directives and declarations.                                            *)
(***************************************************************************)
Hash ==
  /\ At({"#"})
  /\ IF I = Len(Ts) THEN Stop("undefined")
     ELSE LET body == GatherToSemicolon(Ts, I + 1, TRUE, TRUE)
          IN Begin("directive", Append(Append(nodes, ASTNode("Compile_Time_Directive", Ts[I], <<New + 1>>)),
                                       ASTNode("Identifier_Node", Ts[I + 1], <<>>)),
                   New, body.i, <<Job(body)>>, FALSE)
  /\ UNCHANGED Input

FinishDirective ==
  /\ Done("directive")
  /\ Add([nodes EXCEPT ![Result(1)].nodeType = "Scope_Body",
                       ![Task.node].childNodes = Append(@, Result(1))], Task.node, FALSE)
  /\ UNCHANGED Input

\* A brace before any parenthesis and semicolon makes it no function.
NonFunction ==
  LET k == Next1(Ts, I - 1, {"{", ";"})
  IN /\ k <= Len(Ts) /\ Tok(Ts, k) = "{"
     /\ \A j \in I .. k : Tok(Ts, j) # "("

Declares == At({"::"}) /\ Leaves # <<>> /\ I < Len(Ts)
OfKeyword == NonFunction \/ Tok(Ts, I + 1) \in compileTimeDefinable
Popped == [Pop(nodes) EXCEPT ![Last(Leaves)].nodeType = "Identifier_Node"]

NothingToDeclare ==
  /\ At({"::"}) /\ (Leaves = <<>> \/ I = Len(Ts))
  /\ Stop(IF Leaves = <<>> THEN "exited" ELSE "undefined")
  /\ UNCHANGED Input

\* Structs, modules and macros: everything to the end of the braces is one list.
Compiler_Define ==
  /\ Declares /\ OfKeyword
  /\ LET brace == Next1(Ts, I, {"{"})
         before == IF brace <= Len(Ts) THEN brace - 1 ELSE Len(Ts) - 1
         body == GatherBody(Ts, before, Tok(Ts, I + 1) \in compileTimeDefinable)
     IN IF Next1(Ts, I, {"{", "("}) > Len(Ts) THEN Stop("exited")
        ELSE Begin("define", Append(Popped, ASTNode("Compiler_Define", nodes[Last(Leaves)].token, <<>>)),
                   New, body.i,
                   <<[Job(body) EXCEPT !.sub = SubSeq(Ts, I + 1, Consumed(Ts, brace - 1)) \o @]>>, FALSE)
  /\ UNCHANGED Input

\* The first child's token is read: a struct takes the place of the definition.
FinishDefine ==
  /\ Done("define")
  /\ LET body == Result(1)
         children == nodes[body].childNodes
         heap == [nodes EXCEPT ![body].nodeType = "Scope_Body", ![Task.node].childNodes = Task.results]
     IN CASE children = <<>> -> Add(heap, Task.node, FALSE)
             [] OTHER ->
               IF Text(children[1]) = "struct"
               THEN Add([heap EXCEPT ![children[1]].nodeType = "Compiler_Define_Struct",
                                     ![children[1]].token = nodes[Task.node].token], children[1], FALSE)
               ELSE Add(heap, Task.node, FALSE)
  /\ UNCHANGED Input

\* Functions: type, arguments, modifiers (to the next brace, and with it) and body.
\* A prototype has no body, and leaf says so.
Compiler_Define_Function ==
  /\ Declares /\ ~OfKeyword
  /\ LET paren == Next1(Ts, I, {"("})
         args == Consumed(Ts, paren)
         closed == Consumed(Ts, EndOfParens(Ts, args))
         brace == Next1(Ts, closed, {"{"})
         modifiers == JobOf(SubSeq(Ts, closed + 1, Consumed(Ts, brace)))
         body == GatherScopeBody(Ts, Consumed(Ts, brace) - 1)
         pieces == Pieces(Ts, args)
     IN Begin("function",
              Append(Popped, ASTNode("Compiler_Define_Function", nodes[Last(Leaves)].token, <<Last(Leaves)>>)),
              New, body.i,
              <<JobOf(SubSeq(Ts, I + 1, paren - 1))>> \o [n \in DOMAIN pieces |-> JobOf(pieces[n])]
                \o <<modifiers>> \o (IF body.early THEN <<>> ELSE <<Job(body)>>),
              body.early)
  /\ UNCHANGED Input

FinishFunction ==
  /\ Done("function")
  /\ LET n == Len(Task.results)
         last == IF Task.leaf THEN n - 1 ELSE n - 2     \* of the arguments
         identifier == nodes[Task.node].childNodes[1]
         type == nodes[Result(1)].childNodes
         name == Text(identifier)
         args == {Result(k) : k \in 2 .. last}
         Leaf2(a) == Len(nodes[a].leafNodes) = 2
         types == {nodes[a].leafNodes[1] : a \in {b \in args : Leaf2(b)}}
         read == [m \in DOMAIN nodes |->
                    IF m \in args
                    THEN [nodes[m] EXCEPT !.nodeType = "Expression_Term", !.leafNodes = <<>>,
                            !.childNodes = CASE Leaf2(m) -> @ \o nodes[m].leafNodes
                                             [] Len(nodes[m].leafNodes) = 1 -> nodes[m].leafNodes
                                             [] OTHER -> @]
                    ELSE [nodes[m] EXCEPT
                            !.nodeType = CASE m = Result(1) \/ m \in types -> "Type_Node"
                                           [] m = Result(last + 1) -> "Compiler_Modifiers"
                                           [] m = Result(n) /\ ~Task.leaf -> "Scope_Body"
                                           [] OTHER -> @]]
     IN IF name \in {"cast", "create"} /\ type = <<>> THEN Stop("undefined")
        ELSE Add([Append(read, ASTNode("Arguments", 0, SubSeq(Task.results, 2, last))) EXCEPT
                    ![Task.node].nodeType = IF name = "cast" THEN "Compiler_Define_Cast" ELSE @,
                    ![Task.node].token = IF name \in {"cast", "create"} THEN nodes[type[1]].token ELSE @,
                    ![Task.node].childNodes = <<identifier, Result(1), New, Result(last + 1)>>
                                                \o (IF Task.leaf THEN <<>> ELSE <<Result(n)>>)],
                 Task.node, FALSE)
  /\ UNCHANGED Input

-----------------------------------------------------------------------------
Finished == status # "parsing" /\ UNCHANGED vars

Next ==
  \/ GenerateAST \/ Return \/ Finished
  \/ Leaf \/ Argument_List \/ Operator_Keyword \/ Semi_Colon \/ Unmatched \/ Ignored
  \/ If_Statement \/ FinishIf \/ While_Statement \/ FinishWhile \/ For_Statement \/ FinishFor
  \/ Struct_Define \/ FinishStruct \/ Left_Brace \/ FinishBlock
  \/ Colon \/ FinishType \/ Operator \/ FinishOperator \/ Equal \/ Jump \/ FinishTerm
  \/ Left_Paren \/ FinishParen \/ Hash \/ FinishDirective
  \/ NothingToDeclare \/ Compiler_Define \/ FinishDefine \/ Compiler_Define_Function \/ FinishFunction

Spec == Init /\ [][Next]_vars

-----------------------------------------------------------------------------
(***************************************************************************)
(* What the author meant: the tree of a program, how deep it is, and when  *)
(* it is written as generateAST wants it.                                  *)
(***************************************************************************)
Compounds == {"block", "if", "elseif", "else", "while", "for", "function", "operator",
              "struct", "module", "macro"}
Stated(b) == SelectSeq(b, LAMBDA s : s.kind # "blank")
IsBlock(b) == Len(Stated(b)) = 1 /\ Stated(b)[1].kind = "block"

\* A tree: type, text, children
Id(x) == <<"Identifier_Node", x, <<>>>>
Lit(x) == <<"Integer_Node", x, <<>>>>
Term(children) == <<"Expression_Term", "", children>>
Assigned(left, right) == <<"Expression_Statement", "=", <<left, Term(<<right>>)>>>>
Scope(children) == <<"Scope_Body", "", children>>
Directive(name, children) == <<"Compile_Time_Directive", "#", <<Id(name), Scope(children)>>>>

\* A block alone in another is that other.
RECURSIVE Meant(_), MeantAll(_), MeantBody(_), MeantElse(_)
MeantAll(b) == LET t == Stated(b) IN [k \in 1 .. Len(t) |-> Meant(t[k])]
MeantBody(b) == IF IsBlock(b) THEN MeantBody(Stated(b)[1].body) ELSE Scope(MeantAll(b))
MeantElse(more) ==
  CASE more = <<>> -> <<"Else_Statement_Node", "", <<>>>>
    [] more # <<>> /\ Head(more).kind = "elseif" ->
         <<"If_Statement_Node", "if",
           <<<<"Condition", "", <<Id(Head(more).name)>>>>, MeantBody(Head(more).body), MeantElse(Tail(more))>>>>
    [] OTHER -> <<"Else_Statement_Node", "", <<MeantBody(Head(more).body)>>>>
Meant(s) ==
  LET body == MeantBody(s.body)
      condition == <<"Condition", "", <<Id(s.name)>>>>
      Function(type, text, result, arguments, modifiers, end) ==
        <<type, text, <<Id(s.name), <<"Type_Node", "", result>>, <<"Arguments", "", arguments>>,
                        <<"Compiler_Modifiers", "", modifiers>>>> \o end>>
      type == <<"Type_Node", "T", <<>>>>
  IN CASE s.kind = "call" ->
            <<"Function_Call", s.name, <<<<"Arguments", "", <<Term(<<Id("a")>>), Term(<<Lit("1")>>)>>>>>>>>
       [] s.kind = "sum" -> <<"Expression_Plus", "+", <<Id(s.name), Lit("1")>>>>
       [] s.kind = "pointer" -> Assigned(<<"Dereference_Operation", "*", <<Id(s.name)>>>>, Lit("1"))
       [] s.kind = "element" -> Assigned(<<"Access_Operation", "[", <<Id(s.name), Lit("0")>>>>,
                                         <<"Expression_Paren_Term", "", <<Id("a")>>>>)
       [] s.kind = "assign" -> Assigned(Id(s.name), Directive("new", <<Id("T")>>))
       [] s.kind = "declare" -> <<"Identifier_Node", s.name, <<<<"Type_Node", "*", <<Id("T")>>>>>>>>
       [] s.kind = "pipe" ->
            <<"Pipe_Operation", "->",
              <<Id(s.name), <<"Function_Call", "f",
                <<<<"Arguments", "", <<Term(<<<<"Pipe_Placeholder", "%", <<>>>>>>)>>>>>>>>>>>>
       [] s.kind = "define" ->
            Assigned(<<"Identifier_Node", s.name, <<<<"Type_Node", "*", <<Id("T")>>>>>>>>, Lit("1"))
       [] s.kind = "return" -> <<"Return_Node", "return", <<Term(<<Id(s.name)>>)>>>>
       [] s.kind = "import" ->
            Directive("import", <<<<"Member_Access", ".", <<Id(s.name), Id("M")>>>>>>)
       [] s.kind = "extern" ->
            Directive("extern", <<Function("Compiler_Define_Function", s.name, <<>>,
                                           <<Term(<<<<"Argument_List", "...", <<>>>>>>)>>, <<>>, <<>>)>>)
       [] s.kind = "block" -> body
       [] s.kind = "if" -> <<"If_Statement_Node", "if", <<condition, body, MeantElse(Stated(s.more))>>>>
       [] s.kind = "while" -> <<"While_Statement_Node", "while", <<condition, body>>>>
       [] s.kind = "for" ->
            <<"For_Statement_Node", "for", <<<<"Iterator", "", <<Id(s.name)>>>>,
                                             <<"Range_Node", "..", <<Lit("0"), Lit("1")>>>>, body>>>>
       [] s.kind = "function" ->
            Function(IF s.name = "cast" THEN "Compiler_Define_Cast" ELSE "Compiler_Define_Function",
                     IF s.name \in {"cast", "create"} THEN "T" ELSE s.name, <<Id("T")>>,
                     <<Term(<<<<"Identifier_Node", "a", <<type>>>>>>), Term(<<type, Id("b")>>)>>,
                     <<Directive("inline", <<>>), Scope(<<>>)>>, <<body>>)
       [] s.kind = "operator" ->
            <<"Compiler_Define_Function", "operator",
              <<<<"Identifier_Node", "operator", <<<<"Operator_Type_Node", "+", <<>>>>>>>>,
                <<"Type_Node", "", <<>>>>, <<"Arguments", "", <<Term(<<>>)>>>>,
                <<"Compiler_Modifiers", "", <<Scope(<<>>)>>>>, body>>>>
       [] s.kind = "struct" -> <<"Compiler_Define_Struct", s.name, <<body>>>>
       [] s.kind = "module" ->
            <<"Compiler_Define", s.name, <<Scope(<<<<"Module_Define_Node", "module", <<body>>>>>>)>>>>
       [] s.kind = "macro" -> <<"Compiler_Define", s.name, <<body>>>>

\* How deep generateAST goes for it
RECURSIVE Depth(_)
Depth(b) ==
  LET Levels(s) ==
        CASE s.kind \in {"call", "sum", "pointer", "declare", "return", "stray"} -> 1
          [] s.kind \in {"element", "assign", "define", "import", "extern", "pipe"} -> 2
          [] s.kind \in {"block", "macro"} -> 1 + Depth(s.body)
          [] s.kind \in {"if", "else", "while", "for", "function", "operator"} ->
               2 + Max({Depth(s.body), Depth(s.more) - 2})
          [] s.kind \in {"elseif", "struct", "module"} -> 3 + Depth(s.body)
          [] s.kind = "blank" -> 0
  IN Max({0} \cup {Levels(b[k]) : k \in DOMAIN b})

\* A brace is on the line of its header, or follows modifiers.  The token after
\* a block is an end of line, or there is none.  Everything else has its
\* semicolon, if it is not alone (an operation may end with its line).
RECURSIVE WellWritten(_)
WellWritten(b) ==
  \A k \in DOMAIN b :
    LET s == b[k]
    IN /\ s.kind \in Compounds =>
            /\ s.open = <<>> \/ s.kind \in {"function", "operator", "macro", "block"}
            /\ WellWritten(s.body) /\ WellWritten(s.more)
       /\ s.kind = "block" => s.end = <<"EOL">> \/ (k = Len(b) /\ s.end = <<>>)
       /\ s.kind # "stray"
       /\ s.kind \notin Compounds \cup {"blank"} =>
            \/ s.end \in {<<";">>, <<";", "EOL">>}
            \/ (s.kind \in {"sum", "pipe"} /\ s.end = <<"EOL">>)
            \/ (s.kind \in {"sum", "pipe", "call"} /\ Len(Stated(b)) = 1)

\* The tree, after unifyNodes.  A node alone in one of its type takes its place,
\* not under the root, and not under what is alone under the root.
RECURSIVE Tree(_, _)
Tree(n, top) ==
  LET children == nodes[n].childNodes
      same == Len(children) = 1 /\ nodes[children[1]].nodeType = nodes[n].nodeType
  IN IF same /\ ~top THEN Tree(children[1], FALSE)
     ELSE <<nodes[n].nodeType, Text(n), [k \in DOMAIN children |-> Tree(children[k], top /\ same)]>>

-----------------------------------------------------------------------------
(***************************************************************************)
(* Properties.                                                             *)
(***************************************************************************)
\* How many children the code generators take for granted
Shape(n) ==
  LET children == Len(nodes[n].childNodes)
      type == nodes[n].nodeType
  IN CASE type \in {"If_Statement_Node", "For_Statement_Node"} -> children = 3
       [] type \in {"While_Statement_Node", "Expression_Statement", "Compile_Time_Directive"} -> children = 2
       [] type \in {"Compiler_Define_Function", "Compiler_Define_Cast"} -> children \in {4, 5}
       [] type \in {"Return_Node", "Function_Call", "Compiler_Define_Struct", "Compiler_Define"} ->
            children = 1
       [] OTHER -> TRUE

\* Types, and the children every node has once it is a child itself: generateIf
\* reads a third one, generateFunction a fourth (codegen.cpp).
TypeOK ==
  /\ status \in {"parsing", "done", "exited", "undefined"}
  /\ Len(calls) \in 1 .. MAX_AST_DEPTH
  /\ \A c \in ToSet(calls) : c.parent \in DOMAIN nodes /\ ToSet(c.ts) \subseteq DOMAIN tokens
  /\ \A n \in DOMAIN nodes :
       /\ ToSet(nodes[n].childNodes) \cup ToSet(nodes[n].leafNodes) \subseteq DOMAIN nodes
       /\ \A c \in ToSet(nodes[n].childNodes) : Shape(c)

\* What a program is read as, if it is written as generateAST wants it, is what
\* it means, and it is refused if and only if it is too deep.
WellWrittenIsRead ==
  status # "parsing" /\ WellWritten(program) /\ ~IsBlock(program) =>
    IF Depth(program) < MAX_AST_DEPTH
    THEN status = "done" /\ Tree(1, TRUE) = Scope(MeantAll(program))
    ELSE status = "exited"

\* Some assignment or return ends with its line and no semicolon.
RECURSIVE MissingSemicolon(_)
MissingSemicolon(b) ==
  \E k \in DOMAIN b :
    \/ /\ b[k].kind \in {"pointer", "element", "assign", "define", "return"}
       /\ b[k].end = <<"EOL">>
       /\ k = 1 \/ b[k - 1].kind # "block"
    \/ b[k].kind \in Compounds /\ (MissingSemicolon(b[k].body) \/ MissingSemicolon(b[k].more))

\* It is never read as if nothing were wrong, whatever else the program is
\* (only the token after a block escapes, which is passed by).
MissingSemicolonIsReported == status = "done" => ~MissingSemicolon(program)
=============================================================================
