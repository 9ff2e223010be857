----------------------------- MODULE MCControlFlow -----------------------------
(* Function bodies of up to two statements, nested up to three deep, for ControlFlow. *)
EXTENDS ControlFlow

Do(id) == [kind |-> "do", id |-> id]
Return == [kind |-> "return", id |-> ""]
While == [kind |-> "while", id |-> ""]
If(id, then, else) == [kind |-> "if", id |-> id, then |-> then, else |-> else, invalid |-> FALSE]
For(id, statements) == [kind |-> "for", id |-> id, body |-> statements, invalid |-> FALSE]

Inner == {<<>>, <<Do("a")>>, <<Return>>, <<Do("b"), Return>>, <<While>>}

Nested == Inner \cup
  {<<If("d", t, e)>> : t, e \in Inner \ {<<While>>}} \cup {<<For("j", s), Do("b")>> : s \in Inner}

TopStatements == {Do("c"), Return, While}
  \cup {If("c", t, e) : t \in Nested, e \in Inner}
  \cup {If("c", <<Do("a")>>, e) : e \in Nested}
  \cup {For("i", s) : s \in Nested}
  \cup {[If("c", <<Do("a")>>, <<>>) EXCEPT !.invalid = TRUE], [For("i", <<>>) EXCEPT !.invalid = TRUE]}

MCBodies == {<<>>} \cup {<<s>> : s \in TopStatements}
            \cup {<<s, t>> : s \in TopStatements, t \in TopStatements}

MCStatements == TopStatements \cup UNION {Range(s) : s \in Nested}

=============================================================================
