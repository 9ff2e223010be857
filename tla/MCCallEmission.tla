--------------------------- MODULE MCCallEmission ---------------------------
(* Bodies of one or two statements: calls, methods, operators, pipes and     *)
(* dereferences of one another, over small registries of overloads.          *)
EXTENDS CallEmission

Leaf1(kind, type) == [kind |-> kind, name |-> <<>>, on |-> "", type |-> type, args |-> <<>>]
X == Leaf1("variable", SInt32_Type)
P == Leaf1("variable", Identifier_Node)
H == Leaf1("variable", Half_Type)
F == Leaf1("variable", Float_Node)
C == Leaf1("constant", SInt32_Type)
It == Leaf1("placeholder", SInt32_Type)

Tree(kind, name, on, args) ==
  [kind |-> kind, name |-> name, on |-> on, type |-> SInt32_Type, args |-> args]
Call(f, args) == Tree("call", <<f>>, "", args)
Method(m, args) == Tree("method", <<m>>, "S", args)
Plus(l, r) == Tree("operator", <<"operator", "+">>, "", <<l, r>>)
Pipe(l, r) == Tree("pipe", <<"|>">>, "", <<l, r>>)
Deref(e) == Tree("dereference", <<"*">>, "", <<e>>)

Leafs == {X, P, C, It}
Simple ==
  {Call("f", <<e>>) : e \in {X, C, It}} \cup {Call("g", <<X>>), Call("h", <<>>), Call("u", <<>>)}
    \cup {Method("m", <<>>), Method("n", <<X>>), Method("n", <<C>>), Method("r", <<X>>)}
    \cup {Plus(X, C), Plus(X, P), Plus(X, H), Plus(F, P), Plus(F, X), Pipe(X, It), Deref(P), Call("v", <<X, C>>), Call("w", <<X, X>>), Call("w", <<X, C>>)}
Binary(l, r) == {Plus(l, r), Pipe(l, r), Call("p", <<l, r>>), Method("n", <<l, r>>)}
Nested ==
  UNION {{Call("f", <<e>>), Call("g", <<e>>), Deref(e), Method("n", <<e>>), Pipe(e, It)} : e \in Simple}
    \cup UNION {Binary(l, r) : l \in Simple, r \in {X, It}}
    \cup UNION {Binary(l, r) : l \in {X, C}, r \in Simple}
    \cup UNION {Binary(l, r) : l, r \in {Call("f", <<It>>), Call("g", <<X>>), Pipe(X, Call("f", <<It>>))}}
    \cup {Call("v", <<X, e>>) : e \in Simple}
Deep ==
  UNION {{Call("f", <<e>>), Pipe(C, e), Plus(e, X), Method("n", <<e>>), Call("p", <<X, e>>)} : e \in Nested}
    \cup {Call("f", <<Call("f", <<e>>)>>) : e \in Nested}

\* The nodes of a tree, itself first, numbered from `first' on.
RECURSIVE Number(_, _), NumberAll(_, _)
NumberAll(trees, first) ==
  IF trees = <<>> THEN [nodes |-> <<>>, roots |-> <<>>]
  ELSE LET head == Number(Head(trees), first)
           tail == NumberAll(Tail(trees), first + Len(head))
       IN  [nodes |-> head \o tail.nodes, roots |-> <<first>> \o tail.roots]
Number(tree, first) ==
  LET below == NumberAll(tree.args, first + 1)
  IN  <<[tree EXCEPT !.args = below.roots]>> \o below.nodes

Program(trees) == LET all == NumberAll(trees, 1) IN [nodes |-> all.nodes, body |-> all.roots]

BodyPrograms ==
  {Program(<<e>>) : e \in Leafs \cup Simple \cup Nested \cup Deep}
    \cup {Program(<<d, e>>) : d \in Simple \cup {Method("n", <<X, Pipe(C, It)>>), Method("q", <<X, Plus(X, C)>>)}, e \in Simple}

Param(type, ref) == [type |-> type, exact |-> FALSE, ref |-> ref]
Function(name, params, returns) ==
  [name |-> name, userArguments |-> params, returns |-> returns, isMemberFunction |-> FALSE,
   isStructReturn |-> FALSE, variableNumArguments |-> FALSE]
IntParam == Param(SInt32_Type, FALSE)
RefInt == Param(SInt32_Type, TRUE)
Ptr == Param(Identifier_Node, FALSE)

Common ==
  <<Function(<<"f">>, <<IntParam>>, SInt32_Type),
    Function(<<"g">>, <<RefInt>>, SInt32_Type),
    Function(<<"h">>, <<>>, Void),
    Function(<<"w">>, <<IntParam, RefInt>>, SInt32_Type),
    Function(<<"w">>, <<Ptr, IntParam>>, SInt32_Type),
    Function(<<"p">>, <<IntParam, IntParam>>, SInt32_Type),
    [Function(<<"S", "m">>, <<>>, SInt32_Type) EXCEPT !.isMemberFunction = TRUE],
    [Function(<<"S", "n">>, <<IntParam>>, SInt32_Type) EXCEPT !.isMemberFunction = TRUE],
    [Function(<<"S", "q">>, <<IntParam, IntParam>>, SInt32_Type) EXCEPT !.isMemberFunction = TRUE],
    [Function(<<"S", "r">>, <<>>, Identifier_Node) EXCEPT !.isMemberFunction = TRUE,
                                                          !.isStructReturn = TRUE],
    [Function(<<"v">>, <<IntParam>>, SInt32_Type) EXCEPT !.variableNumArguments = TRUE]>>

BodyRegistries ==
  {Common,
   Common \o <<Function(<<"operator", "+">>, <<IntParam, IntParam>>, SInt32_Type),
               Function(<<"g">>, <<Ptr>>, Void),
               [Function(<<"S", "n">>, <<IntParam, IntParam>>, Void) EXCEPT !.isMemberFunction = TRUE,
                                                                  !.variableNumArguments = TRUE]>>,
   Common \o <<Function(<<"g">>, <<Ptr>>, Float_Node),
               Function(<<"f">>, <<Param(Float_Node, FALSE)>>, SInt32_Type),
               Function(<<"f">>, <<[IntParam EXCEPT !.type = Half_Type, !.exact = TRUE]>>, SInt32_Type),
               [Function(<<"u">>, <<>>, Identifier_Node) EXCEPT !.isStructReturn = TRUE]>>}

=============================================================================
