----------------------------- MODULE MCPrecedence -----------------------------
(* Expressions of up to four operands, for Precedence. *)
EXTENDS Precedence

Binary == {".", "*", "/", "+", "-", "==", "<=", "..", "->", "&", "||"}
Some == {".", "*", "+", "==", "->", "||"}

\* a o b p c q d
Flat(o, p, q) == <<"operand", o, "operand", p, "operand", q, "operand">>

\* a[b o c] p d q e
WithIndex(o, p, q) ==
  <<"operand", "[", "operand", o, "operand", "]", p, "operand", q, "operand">>

WithElements(o, p) ==
  { <<"operand", "[", "operand", "]", o, "operand", p, "operand">>,
    <<"operand", "[", "operand", o, "operand", "]", p, "operand">>,
    <<"operand", o, "operand", "[", "operand", "]", p, "operand">>,
    <<"operand", "[", "(", "operand", o, "operand", ")", "]", p, "operand">>,
    <<"operand", o, "operand", "[", "operand", p, "operand", "]">>,
    <<"operand", "[", "operand", "]", "[", "operand", o, "operand", "]", p, "operand">> }

WithPrefixes(o, p) ==
  UNION { { <<u, "operand", o, "operand", p, "operand">>,
            <<"operand", o, u, "operand", p, "operand">>,
            <<"operand", o, "operand", p, u, "operand">> } : u \in {"-", "*", "&"} }

WithParens(o, p) ==
  { <<"(", "operand", o, "operand", ")", p, "operand">>,
    <<"operand", o, "(", "operand", p, "operand", ")">>,
    <<"(", "operand", o, "operand", ")", "[", "operand", p, "operand", "]">> }

MCExpressions ==
  UNION {{Flat(o, p, q), WithIndex(o, p, q)} : o, p, q \in Some}
  \cup UNION {WithElements(o, p) \cup WithPrefixes(o, p) \cup WithParens(o, p) :
                o, p \in Binary}

=============================================================================
