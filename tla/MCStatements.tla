---------------------------- MODULE MCStatements ----------------------------
(***************************************************************************)
(* Programs of up to two statements in up to three bodies, well written    *)
(* and not.                                                                *)
(***************************************************************************)
EXTENDS Statements

Statement(kind, name, body, more, open, end) ==
  [kind |-> kind, name |-> name, body |-> body, more |-> more, open |-> open, end |-> end]
Plain(kind, name, end) == Statement(kind, name, <<>>, <<>>, <<>>, end)
Plains(name, ends) ==
  {Plain(kind, name, end) :
     kind \in {"call", "sum", "pointer", "element", "assign", "declare", "define", "return", "import", "extern", "pipe"},
     end \in ends}
Compound(kind, body) ==
  Statement(kind, IF kind = "function" THEN "cast" ELSE "c", body, <<>>, <<>>, <<"EOL">>)

Semicolon == <<";">>
EndsOfLine == {Semicolon, <<"EOL">>, <<>>}
Pairs == {<<s, t>> : s \in Plains("x", EndsOfLine), t \in Plains("y", EndsOfLine)}

Bodies ==
  {<<>>, <<Plain("call", "x", <<>>)>>, <<Plain("sum", "x", <<"EOL">>), Plain("call", "y", Semicolon)>>,
   <<Plain("return", "x", <<";", "EOL">>)>>, <<Plain("blank", "", <<"EOL">>), Plain("assign", "x", <<"EOL">>)>>}
Headers == {"block", "if", "while", "for", "function", "operator", "struct", "module", "macro"}

One == {Statement(kind, name, body, <<>>, open, end) :
          kind \in Headers, name \in {"f", "create"}, body \in Bodies, open \in {<<>>, <<"EOL">>},
          end \in {<<>>, <<"EOL">>}}

\* A compound statement between two calls
Between == {<<Plain("call", "p", Semicolon), s, Plain("call", "q", Semicolon)>> : s \in One}

\* A token out of its place
Stray == {<<Plain("stray", t, end), Plain("call", "q", Semicolon)>> :
            t \in {"::", ":", "=", "+", "%", "(", ")", "{", "}", "#", "else", "operator", "for"},
            end \in EndsOfLine}

\* if, else if and else
Elses ==
  {<<>>} \cup
  {blank \o elseif \o otherwise :
     blank \in {<<>>, <<Plain("blank", "", <<"EOL">>)>>},
     elseif \in {<<>>, <<Statement("elseif", "g", <<Plain("call", "y", Semicolon)>>, <<>>, <<>>, <<"EOL">>)>>},
     otherwise \in {<<Statement("else", "", <<Plain("call", "z", end)>>, <<>>, open, <<>>)>> :
                      open \in {<<>>, <<"EOL">>}, end \in {Semicolon, <<>>}}
                    \cup {<<Statement("elseif", "h", <<>>, <<>>, <<>>, <<>>)>>}}
Ifs == {<<Statement("if", "f", <<Plain("call", "x", Semicolon)>>, more, <<>>, <<>>),
          Plain("call", "q", Semicolon)>> : more \in Elses}

\* Three levels, some too deep
Nested ==
  {<<Compound(a, <<Compound(b, <<Compound(c, d)>>)>>)>> :
     a \in Headers, b \in Headers, c \in Headers, d \in {<<>>, <<Plain("return", "x", Semicolon)>>}}

MCPrograms == Pairs \cup {<<s>> : s \in Plains("x", EndsOfLine)} \cup Between \cup Stray \cup Ifs \cup Nested
=============================================================================
