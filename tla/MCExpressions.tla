---------------------------- MODULE MCExpressions ----------------------------
(***************************************************************************)
(* Programs over numbers of every type and at the ends of its range: two   *)
(* of them in an operation, with its result cast, assigned to a variable   *)
(* of any type, piped, or used in a second operation.                      *)
(***************************************************************************)
EXTENDS Expressions

MCBits == [t \in {"i1", "i8", "i16", "i32"} |->
             CASE t = "i1" -> 1 [] t = "i8" -> 2 [] t = "i16" -> 3 [] t = "i32" -> 4]

\* What can be in an argument
Numbers2 ==
  [t \in {"bool", "int8", "uint8", "int16", "uint16", "int", "uint", "half", "float", "double"} |->
     CASE t = "bool" -> {0, 1}
       [] t = "int8" -> {-2, -1, 0, 1} [] t = "uint8" -> {0, 1, 3}
       [] t = "int16" -> {-4, 3} [] t = "uint16" -> {2, 7}
       [] t = "int" -> {-8, -1, 0, 1, 7} [] t = "uint" -> {1, 4, 15}
       [] t = "half" -> {2} [] t = "float" -> {-3, 1, 2, 4} [] t = "double" -> {3}]
ArgumentsOf(types) == {Meaning(p[1], p[2], TRUE) : p \in UNION {{<<t, x>> : x \in Numbers2[t]} : t \in types}}
Every == ArgumentsOf(TypeNames)
Some == {m \in Every : m.type \in {"bool", "uint8", "int16", "int", "uint", "float"}}

Node1(kind) == [kind |-> kind, type |-> "", x |-> 0, name |-> "", op |-> "", left |-> 0, right |-> 0]
Literal(t, x) == [Node1("constant") EXCEPT !.type = t, !.x = x]
Variable(name) == [Node1("variable") EXCEPT !.name = name]
Cast(name, t) == [Node1("cast") EXCEPT !.name = name, !.type = t]
Binary(op, l, r) == [Node1("binary") EXCEPT !.op = op, !.left = l, !.right = r]
Pipe(l) == [Node1("pipe") EXCEPT !.left = l]
Placeholder == Node1("placeholder")
Piped == Node1("piped")

Set(target, type, nodes) == [target |-> target, type |-> type, nodes |-> nodes]
Family(arguments, bodies) == [arguments |-> arguments, bodies |-> bodies]
X(A) == {[name \in {"x"} |-> a] : a \in A}
XY(A) == {[name \in {"x", "y"} |-> IF name = "x" THEN a ELSE b] : a \in A, b \in A}

\* z = x op y
Pairs == Family(XY(Every), {<<Set("z", "", <<Variable("x"), Variable("y"), Binary(op, 1, 2)>>)>> : op \in Operators})

\* z : T = x; z = z + 1 and with two casts
Casts ==
  Family(X(Every),
    {<<Set("z", t, <<Variable("x")>>), Set("z", "", <<Variable("z"), Literal("int", 1), Binary("+", 1, 2)>>)>> : t \in TypeNames}
    \cup {<<Set("z", "", <<Cast("x", t), Cast("x", u), Binary("<", 1, 2)>>)>> : t \in TypeNames, u \in TypeNames})

\* z : T = (x op y) op2 literal
Literals == {Literal("int", 2), Literal("bool", 1), Literal("double", 3), Literal("int", 8)}
Nested ==
  Family(XY(Some),
    {<<Set("z", t, <<Variable("x"), Variable("y"), Binary(op, 1, 2), l, Binary(op2, 3, 4)>>)>> :
       op \in {"+", "/", "<"}, op2 \in {"*", "=="}, l \in Literals, t \in {"", "int16", "bool"}})

\* x = y; y : T = x, the variables being there
Again ==
  Family(XY(Every),
    {<<Set("x", "", <<Variable("y")>>), Set("y", t, <<Variable("x")>>)>> : t \in {"", "uint8", "int", "float"}})

\* z : T; w = z op x; z : U
Declared ==
  Family(X(Some),
    {<<Set("z", t, <<>>), Set("w", "", <<Variable("z"), Variable("x"), Binary(op, 1, 2)>>), Set("z", u, <<>>),
       Set("v", "", <<Variable("z")>>)>> : t \in TypeNames, u \in {"int8", "uint8", "double"}, op \in {"-", ">="}})

\* z = x -> (% op (y -> % + %)); a placeholder without a pipe; names that are not there
Pipes ==
  Family(XY(Some),
    {<<Set("z", "", <<Variable("x"), Pipe(1), Placeholder, Variable("y"), Pipe(4), Placeholder, Placeholder,
                       Binary("+", 6, 7), Piped, Binary(op, 3, 9), Piped>>)>> : op \in {"-", "<"}})
Undefined ==
  Family(X(Some),
    {<<Set("z", "", <<Variable("x"), n, Binary("+", 1, 2)>>)>> : n \in {Placeholder, Variable("q"), Cast("q", "int")}})

MCFamilies == {Pairs, Casts, Nested, Again, Declared, Pipes, Undefined}
MCNumbers == {-3, 0, 1, 2}
=============================================================================
