---------------------------- MODULE MCStructTypes ----------------------------
(* Programs of up to three declarations, for StructTypes and MemberAccess. *)
EXTENDS MemberAccess

Named(name, pointers) == [name |-> name, pointers |-> pointers]
Typed(name, type, pointers) == [name |-> name, typed |-> TRUE, type |-> Named(type, pointers)]
Untyped == [name |-> "v", typed |-> FALSE, type |-> Named("int", 0)]

NewOf(name) == [kind |-> "new", name |-> name]
Variable(type, pointers) == [kind |-> "variable", type |-> Named(type, pointers)]
Member(name) == [kind |-> "member", name |-> name]
Constant == [kind |-> "constant"]
Access == [kind |-> "access"]
Semicolon == [kind |-> "semicolon"]

Struct(name, fields, code) == [kind |-> "struct", name |-> name, fields |-> fields, code |-> code]
Function(name, params, code) ==
  [kind |-> "function", name |-> name, params |-> params, code |-> code]

\* "this" is a variable of the struct's type: this.t.y;   and this.s; this.s.t.x;
InS == <<Variable("S", 0), Member("t"), Member("y"), Semicolon>>
InU == <<Variable("U", 0), Member("s"), Semicolon,
         Variable("U", 0), Member("s"), Member("t"), Member("x"), Semicolon>>

Structs == {
  Struct("T", <<Typed("x", "int", 0), Typed("y", "int", 0)>>, <<>>),
  Struct("S", <<Typed("x", "int", 0), Typed("t", "T", 0)>>, InS),
  Struct("S", <<Typed("t", "T", 0)>>, <<NewOf("S")>>),
  Struct("S", <<Typed("s", "S", 0)>>, <<>>),
  Struct("S", <<Typed("s", "S", 1), Typed("t", "T", 1)>>, <<NewOf("T")>>),
  Struct("T", <<Typed("y", "S", 0), Typed("y", "int", 0)>>, <<>>),
  Struct("T", <<Typed("u", "U", 1), Untyped>>, <<>>),
  Struct("T", <<Typed("u", "U", 0), Untyped>>, <<>>),
  Struct("U", <<Typed("s", "S", 0)>>, InU) }

\* s.t.y; t.y;   s.t[s.t.y];   s.t[s.x].y;   s.t; v[1].x;   v[1].y;   v[1][2];   p.y;
\* v[t]; and s.z;
Codes == {
  <<Variable("S", 0), Member("t"), Member("y"), Semicolon, Variable("T", 0), Member("y"), Semicolon>>,
  <<Variable("S", 0), Member("t"), Variable("S", 0), Member("t"), Member("y"), Access, Semicolon>>,
  <<Variable("S", 0), Member("t"), Variable("S", 0), Member("x"), Access, Member("y"), Semicolon>>,
  <<Variable("S", 0), Member("t"), Semicolon, Variable("S", 1), Constant, Access, Member("x"),
    Semicolon>>,
  <<Variable("T", 1), Constant, Access, Member("y"), Semicolon>>,
  <<Variable("int", 1), Constant, Access, Constant, Access, Semicolon>>,
  <<Variable("T", 1), Member("y"), Semicolon>>,
  <<Variable("int", 1), Variable("T", 0), Access, Semicolon>>,
  <<Variable("S", 0), Member("z"), Semicolon>> }

Functions ==
  {Function("main", <<>>, <<NewOf("S"), NewOf("T")>>),
   Function("main", <<Named("T", 0)>>, <<NewOf("S")>>),
   Function("f", <<Named("T", 0), Named("S", 1)>>, <<>>)}
  \cup {Function("main", <<>>, code) : code \in Codes}

MCPrograms == UNION {[1 .. n -> Structs \cup Functions] : n \in 1 .. 3}

=============================================================================
