------------------------------ MODULE MCCodegen ------------------------------
(***************************************************************************)
(* Programs of up to MaxDecls declarations taken from a small menu, in     *)
(* every order and with repetitions, after or before a main: forward       *)
(* calls, overloads, redefinitions, methods called before and after their  *)
(* struct, operators, extern variadic functions and references.            *)
(***************************************************************************)
EXTENDS Codegen

CONSTANT MaxDecls

P(t) == [type |-> t, exact |-> FALSE, ref |-> FALSE]
Exact(t) == [type |-> t, exact |-> TRUE, ref |-> FALSE]
Ref(t) == [type |-> t, exact |-> FALSE, ref |-> TRUE]
Var(t) == [type |-> t, ident |-> TRUE]
Lit(t) == [type |-> t, ident |-> FALSE]

CallTo(name, args) == [kind |-> "call", name |-> name, on |-> "", args |-> args]
Operator(op) == [kind |-> "operator", name |-> op, on |-> "", args |-> <<>>]
Method(s, name, args) == [kind |-> "method", name |-> name, on |-> s, args |-> args]

Fun(name, params, body) ==
  [kind |-> "function", name |-> name, special |-> FALSE, params |-> params,
   variadic |-> FALSE, structReturn |-> FALSE, replaceable |-> FALSE, body |-> body]

Mains == {
  Fun("main", <<>>, <<CallTo("f", <<Lit(SInt32_Type)>>), Operator("operator.Plus")>>),
  Fun("main", <<>>, <<Operator("operator.Plus"), Method("S", "m", <<>>)>>),
  Fun("main", <<>>, <<Method("S", "f", <<Var(SInt32_Type)>>), Method("S", "f", <<Lit(SInt32_Type)>>)>>)
}

OverloadedPlus ==
  [Fun("operator.Plus", <<P(Identifier_Node), P(Identifier_Node)>>, <<>>)
     EXCEPT !.special = TRUE]

StructS ==
  [kind |-> "struct", name |-> "S", methods |->
     <<Fun("m", <<>>, <<CallTo("f", <<Var(SInt32_Type)>>)>>),
       Fun("f", <<P(SInt32_Type)>>, <<>>),
       [Fun("operator.Plus", <<P(Identifier_Node)>>, <<>>) EXCEPT !.special = TRUE]>>]

Menu == {
  Fun("f", <<P(SInt32_Type)>>, <<>>),
  Fun("f", <<Exact(Float_Node)>>, <<CallTo("f", <<Var(Float_Node)>>)>>),
  [Fun("f", <<P(SInt32_Type)>>, <<CallTo("puts", <<Lit(Identifier_Node), Lit(SInt32_Type)>>)>>)
     EXCEPT !.replaceable = TRUE],
  Fun("f", <<Ref(Identifier_Node)>>, <<>>),
  OverloadedPlus,
  [Fun("puts", <<P(Identifier_Node)>>, <<>>) EXCEPT !.kind = "extern", !.variadic = TRUE],
  [Fun("f", <<P(SInt32_Type)>>, <<>>) EXCEPT !.kind = "prototype"],
  StructS,
  [kind |-> "struct", name |-> "S", methods |->
     <<[Fun("m", <<>>, <<>>) EXCEPT !.kind = "prototype"],
       Fun("n", <<>>, <<Method("S", "m", <<>>)>>)>>]
}

Sequences == UNION {[1 .. n -> Menu] : n \in 0 .. MaxDecls}

MCPrograms == {<<main>> \o s : main \in Mains, s \in Sequences}
              \cup {Append(s, main) : main \in Mains, s \in Sequences}

\* `string + string' with an overloaded operator, and nothing else.
OperatorPrograms == {<<OverloadedPlus, Fun("main", <<>>, <<Operator("operator.Plus")>>)>>}

=============================================================================
