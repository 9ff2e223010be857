------------------------------ MODULE MCImports ------------------------------
(* Projects of a main file and of modules that import one another, for Imports. *)
EXTENDS Imports

Declared(id, inside) == [kind |-> "declaration", id |-> id, inside |-> inside]
From(path, name) == [kind |-> "import", path |-> path, name |-> name]
IncludeOf == [kind |-> "file"]
Mod(name, nodes) == [name |-> name, nodes |-> nodes]
Valid(modules) == [valid |-> TRUE, modules |-> modules]
Broken == [valid |-> FALSE, modules |-> <<>>]

ImportA == From(<<"Lib">>, "A")
ImportB == From(<<"Lib">>, "B")
OtherA == From(<<>>, "A")
Library == From(<<>>, "Lib")

Directives == {ImportA, ImportB, OtherA}

\* A and B may import one another and themselves, at the top or inside a declaration.
ModulesA == {Mod("A", nodes) : nodes \in
  {<<Declared("a1", <<>>), Declared("a2", <<>>)>>, <<ImportB, Declared("a1", <<>>)>>,
   <<Declared("a1", <<ImportA, ImportB>>)>>, <<>>}}
ModulesB == {Mod("B", nodes) : nodes \in
  {<<Declared("b1", <<>>)>>, <<ImportA, Declared("b1", <<OtherA>>)>>, <<ImportB, IncludeOf>>}}

Mains == {<<Declared("main", <<>>), ImportA>>, <<ImportA, OtherA, Declared("main", <<ImportB>>)>>,
          <<OtherA, ImportB, Declared("main", <<>>)>>, <<ImportB, Declared("main", <<>>), Library>>,
          <<IncludeOf, ImportA, Declared("main", <<>>)>>}

\* The directories of the compiler's modules, and the project's own.
Libraries == {[p \in {<<"Lib">>} |-> fs] : fs \in
  UNION {{{Valid(<<a>>), Valid(<<b>>)}, {Valid(<<b, a>>), Broken}, {Valid(<<a, b>>)}} :
           a \in ModulesA, b \in ModulesB}}
ProjectPlaces == {<<>>} \cup
  {[p \in {<<>>} |-> fs] : fs \in {{Valid(<<>>)}, {Broken}}
     \cup {{Valid(<<a>>), Valid(<<Mod("A", <<Declared("a3", <<ImportB>>)>>)>>)} : a \in ModulesA}}

MCProjects == [main : Mains, project : ProjectPlaces, modules : Libraries]

=============================================================================
