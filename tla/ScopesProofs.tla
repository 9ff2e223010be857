---------------------------- MODULE ScopesProofs ----------------------------
(***************************************************************************)
(* Theorems about Scopes for any names and any bound of the tree:          *)
(*                                                                         *)
(*   ScopesTypeOK           the generator keeps its types                  *)
(*   ScopesNearestIsFound   findNamedValue returns the innermost visible   *)
(*                          variable, and nullptr only if there is none    *)
(*   ScopesStaysInFunction  it is of the same function, or an argument of  *)
(*                          an earlier method of the same struct           *)
(*   ScopesStoredBefore     if it is of the same function, it has been     *)
(*                          stored to on every way to where it is found    *)
(*                                                                         *)
(* The inductive invariant says of the tree that it is numbered in order   *)
(* (Tree), of which node is a child of which (Shape), of a search that all *)
(* that is visible and not yet refused is still ahead of it (SearchInv),   *)
(* and of the blocks that what is visible at a node has been stored to in  *)
(* blocks that lead there (StoredInv).                                     *)
(***************************************************************************)
EXTENDS Scopes, TLAPS

-----------------------------------------------------------------------------
(***************************************************************************)
(* The tree, as a sequence of nodes                                        *)
(***************************************************************************)
NodeType == [kind : Kinds, name : Names \cup {NoName}, parent : Nat, above : SUBSET Nat,
             region : SUBSET Nat,
             namedValues : [Names -> [kind : ValueKinds, stored : SUBSET Nat]]]

Tree(s) ==
  /\ Len(s) >= 1
  /\ s[1].parent = 0 /\ s[1].above = {}
  /\ \A n \in 2 .. Len(s) : /\ s[n].parent \in 1 .. n - 1
                            /\ s[n].above = s[s[n].parent].above \cup {s[n].parent}
                            /\ 1 \in s[n].above
  /\ \A n \in 1 .. Len(s) : s[n].above \subseteq 1 .. n - 1
  /\ \A n \in 1 .. Len(s) : \A m \in s[n].above : s[m].above \subseteq s[n].above
  /\ \A a, m, d \in 1 .. Len(s) : a < m /\ m < d /\ a \in s[d].above => a \in s[m].above

\* Everything after p, and after each node p is in, is inside of it.
Open(s, p) ==
  /\ p \in 1 .. Len(s)
  /\ \A a \in s[p].above \cup {p} : \A m \in 1 .. Len(s) : a < m => a \in s[m].above

\* The trees are the same but for the values.
SameTree(s, t) ==
  /\ Len(s) = Len(t)
  /\ \A n \in 1 .. Len(s) : /\ t[n].kind = s[n].kind /\ t[n].name = s[n].name
                            /\ t[n].parent = s[n].parent /\ t[n].above = s[n].above
                            /\ t[n].region = s[n].region

\* A node added to an open one keeps the numbering, and is open itself.
LEMMA TreeAppend ==
  ASSUME NEW s \in Seq(NodeType), Tree(s), NEW p, Open(s, p), NEW e \in NodeType,
         e.parent = p, e.above = s[p].above \cup {p}
  PROVE  /\ Append(s, e) \in Seq(NodeType)
         /\ Len(Append(s, e)) = Len(s) + 1
         /\ Append(s, e)[Len(s) + 1] = e
         /\ \A n \in 1 .. Len(s) : Append(s, e)[n] = s[n]
         /\ Tree(Append(s, e))
         /\ Open(Append(s, e), p)
         /\ Open(Append(s, e), Len(s) + 1)
<1> DEFINE t == Append(s, e)
           d == Len(s) + 1
<1>0. Len(s) \in Nat /\ Len(s) >= 1 /\ p \in 1 .. Len(s)
  BY DEF Tree, Open
<1>1. t \in Seq(NodeType) /\ Len(t) = d /\ t[d] = e /\ \A n \in 1 .. Len(s) : t[n] = s[n]
  BY <1>0
<1> HIDE DEF t
<1>2. s[p].above \subseteq 1 .. p - 1
  BY <1>0 DEF Tree
<1>3. t[d].above \subseteq 1 .. d - 1 /\ t[d].parent \in 1 .. d - 1
  BY <1>0, <1>1, <1>2
<1>4. 1 \in t[d].above
  <2>1. CASE p = 1
    BY <1>1, <2>1
  <2>2. CASE p # 1
    <3>1. p \in 2 .. Len(s)
      BY <1>0, <2>2
    <3> QED
      BY <1>1, <3>1 DEF Tree
  <2> QED
    BY <2>1, <2>2
<1>5. ASSUME NEW m \in t[d].above PROVE t[m].above \subseteq t[d].above
  <2>1. CASE m = p
    BY <1>0, <1>1, <2>1
  <2>2. CASE m \in s[p].above
    <3>1. s[m].above \subseteq s[p].above
      BY <1>0, <2>2 DEF Tree
    <3>2. m \in 1 .. Len(s)
      BY <1>0, <1>2, <2>2
    <3> QED
      BY <1>1, <3>1, <3>2
  <2> QED
    BY <1>1, <2>1, <2>2
<1>6. ASSUME NEW a \in 1 .. d, NEW m \in 1 .. d, a < m, m < d, a \in t[d].above
      PROVE  a \in t[m].above
  <2>1. m \in 1 .. Len(s) /\ a \in s[p].above \cup {p}
    BY <1>0, <1>1, <1>6
  <2> QED
    BY <1>1, <1>6, <2>1 DEF Open
<1>7. ASSUME NEW n \in 1 .. Len(s)
      PROVE  /\ t[n].above = s[n].above /\ t[n].parent = s[n].parent
             /\ s[n].above \subseteq 1 .. n - 1
  BY <1>1 DEF Tree
<1>8. ASSUME NEW n \in 2 .. d
      PROVE  /\ t[n].parent \in 1 .. n - 1
             /\ t[n].above = t[t[n].parent].above \cup {t[n].parent}
             /\ 1 \in t[n].above
  <2>1. CASE n = d
    BY <1>0, <1>1, <1>3, <1>4, <2>1
  <2>2. CASE n # d
    <3>1. n \in 2 .. Len(s)
      BY <1>0, <2>2
    <3>2. s[n].parent \in 1 .. Len(s)
      BY <1>0, <3>1 DEF Tree
    <3> QED
      BY <1>1, <3>1, <3>2 DEF Tree
  <2> QED
    BY <2>1, <2>2
<1>9. ASSUME NEW n \in 1 .. d
      PROVE  t[n].above \subseteq 1 .. n - 1 /\ \A m \in t[n].above : t[m].above \subseteq t[n].above
  <2>1. CASE n = d
    BY <1>0, <1>3, <1>5, <2>1
  <2>2. CASE n # d
    <3>1. n \in 1 .. Len(s)
      BY <1>0, <2>2
    <3>2. \A m \in s[n].above : m \in 1 .. Len(s) /\ s[m].above \subseteq s[n].above
      BY <1>0, <1>7, <3>1 DEF Tree
    <3> QED
      BY <1>1, <1>7, <3>1, <3>2
  <2> QED
    BY <2>1, <2>2
<1>10. ASSUME NEW a \in 1 .. d, NEW m \in 1 .. d, NEW n \in 1 .. d, a < m, m < n, a \in t[n].above
       PROVE  a \in t[m].above
  <2>1. CASE n = d
    BY <1>6, <1>10, <2>1
  <2>2. CASE n # d
    <3>1. a \in 1 .. Len(s) /\ m \in 1 .. Len(s) /\ n \in 1 .. Len(s)
      BY <1>0, <1>10, <2>2
    <3> QED
      BY <1>1, <1>10, <3>1 DEF Tree
  <2> QED
    BY <2>1, <2>2
<1>11. Tree(t)
  <2>1. t[1].parent = 0 /\ t[1].above = {} /\ Len(t) >= 1
    BY <1>0, <1>1 DEF Tree
  <2> QED
    BY <1>1, <1>8, <1>9, <1>10, <2>1 DEF Tree
<1>12. Open(t, p)
  <2>1. ASSUME NEW a \in t[p].above \cup {p}, NEW m \in 1 .. d, a < m
        PROVE  a \in t[m].above
    <3>1. CASE m = d
      BY <1>0, <1>1, <2>1, <3>1
    <3>2. CASE m # d
      BY <1>0, <1>1, <2>1, <3>2 DEF Open
    <3> QED
      BY <3>1, <3>2
  <2> QED
    BY <1>0, <1>1, <2>1 DEF Open
<1>13. Open(t, d)
  <2>1. ASSUME NEW a \in t[d].above \cup {d}, NEW m \in 1 .. d, a < m
        PROVE  a \in t[m].above
    <3>1. CASE a = d
      BY <1>0, <2>1, <3>1
    <3>2. CASE a # d
      BY <1>0, <1>1, <1>12, <2>1, <3>2 DEF Open
    <3> QED
      BY <3>1, <3>2
  <2> QED
    BY <1>0, <1>1, <2>1 DEF Open
<1> QED
  BY <1>1, <1>11, <1>12, <1>13 DEF t

\* What is about the tree stays so when only values change.
LEMMA TreeSame ==
  ASSUME NEW s, NEW t, Len(s) \in Nat, SameTree(s, t), Tree(s)
  PROVE  Tree(t) /\ \A p : Open(s, p) => Open(t, p)
<1>1. \A n \in 1 .. Len(s) : s[n].above \subseteq 1 .. Len(s)
  BY DEF Tree
<1>2. \A n \in 2 .. Len(s) : s[n].parent \in 1 .. Len(s) /\ n \in 1 .. Len(s)
  BY DEF Tree
<1>3. Tree(t)
  <2>1. Len(t) = Len(s) /\ t[1].parent = 0 /\ t[1].above = {}
    BY DEF Tree, SameTree
  <2>2. \A n \in 2 .. Len(s) : /\ t[n].parent \in 1 .. n - 1
                               /\ t[n].above = t[t[n].parent].above \cup {t[n].parent}
                               /\ 1 \in t[n].above
    BY <1>2 DEF Tree, SameTree
  <2>3. \A n \in 1 .. Len(s) : t[n].above \subseteq 1 .. n - 1
    BY DEF Tree, SameTree
  <2>4. \A n \in 1 .. Len(s) : \A m \in t[n].above : t[m].above \subseteq t[n].above
    BY <1>1 DEF Tree, SameTree
  <2>5. \A a, m, d \in 1 .. Len(s) : a < m /\ m < d /\ a \in t[d].above => a \in t[m].above
    BY DEF Tree, SameTree
  <2> QED
    BY <2>1, <2>2, <2>3, <2>4, <2>5 DEF Tree
<1>4. ASSUME NEW p, Open(s, p) PROVE Open(t, p)
  BY <1>4 DEF Open, SameTree
<1> QED
  BY <1>3, <1>4

\* Two nodes that are above a third, or are it, are one above the other.
LEMMA Chain ==
  ASSUME NEW s, Len(s) \in Nat, Tree(s), NEW u \in 1 .. Len(s),
         NEW a \in s[u].above \cup {u}, NEW b \in s[u].above \cup {u}, a < b
  PROVE  a \in s[b].above
<1>1. s[u].above \subseteq 1 .. u - 1
  BY DEF Tree
<1>2. CASE b = u
  BY <1>1, <1>2
<1>3. CASE b # u
  <2>1. b \in 1 .. Len(s) /\ b < u /\ a \in 1 .. Len(s) /\ a \in s[u].above
    BY <1>1, <1>3
  <2> QED
    BY <2>1 DEF Tree
<1> QED
  BY <1>2, <1>3

\* What an open node is in is open.
LEMMA OpenAbove ==
  ASSUME NEW s, Len(s) \in Nat, Tree(s), NEW q, Open(s, q), NEW a \in s[q].above
  PROVE  Open(s, a)
<1>1. q \in 1 .. Len(s) /\ s[q].above \subseteq 1 .. q - 1
  BY DEF Open, Tree
<1>2. a \in 1 .. Len(s)
  BY <1>1
<1>3. s[a].above \subseteq s[q].above
  BY <1>1 DEF Tree
<1> QED
  BY <1>2, <1>3 DEF Open

-----------------------------------------------------------------------------
(***************************************************************************)
(* What is a child of what                                                 *)
(***************************************************************************)
Outermost == {"root", "struct", "members"}
Holders == {"assignment", "declaration", "for", "function"}

Fits(k, parent) ==
  /\ k # "root"
  /\ k = "struct" => parent = "root"
  /\ k = "members" => parent = "struct"
  /\ k = "function" => parent \in {"root", "members"}
  /\ k \in {"assignment", "declaration", "for", "if"} => parent \in {"body", "else"}
  /\ k = "else" => parent = "if"
  /\ k = "body" => parent \in {"if", "for", "function"}

ValuesFit(e) ==
  /\ (\E x \in Names : e.namedValues[x] # NoValue) => e.kind \in Holders
  /\ e.kind \in {"assignment", "for"} => e.name \in Names

Shape(s) ==
  /\ s[1].kind = "root"
  /\ \A n \in 2 .. Len(s) : Fits(s[n].kind, s[s[n].parent].kind)
  /\ \A n \in 1 .. Len(s) : /\ ValuesFit(s[n])
                            /\ s[n].kind \in {"struct", "members", "function"} =>
                                 \A a \in s[n].above : s[a].kind \in Outermost

LEMMA ShapeAppend ==
  ASSUME NEW s \in Seq(NodeType), Tree(s), Shape(s), NEW p \in 1 .. Len(s), NEW e \in NodeType,
         e.parent = p, e.above = s[p].above \cup {p}, Fits(e.kind, s[p].kind), ValuesFit(e)
  PROVE  Shape(Append(s, e))
<1> DEFINE t == Append(s, e)
           d == Len(s) + 1
<1>0. Len(s) \in Nat /\ Len(s) >= 1
  BY DEF Tree
<1>1. Len(t) = d /\ t[d] = e /\ \A n \in 1 .. Len(s) : t[n] = s[n]
  BY <1>0
<1> HIDE DEF t
<1>2. \A n \in 1 .. Len(s) : s[n].above \subseteq 1 .. Len(s)
  BY <1>0 DEF Tree
<1>3. \A n \in 2 .. Len(s) : s[n].parent \in 1 .. Len(s)
  BY <1>0 DEF Tree
<1>4. t[1].kind = "root"
  BY <1>0, <1>1 DEF Shape
<1>5. ASSUME NEW n \in 2 .. d PROVE Fits(t[n].kind, t[t[n].parent].kind)
  <2>1. CASE n = d
    BY <1>0, <1>1, <2>1
  <2>2. CASE n # d
    <3>1. n \in 2 .. Len(s) /\ n \in 1 .. Len(s)
      BY <1>0, <2>2
    <3>2. t[n] = s[n] /\ t[s[n].parent] = s[s[n].parent]
      BY <1>1, <1>3, <3>1
    <3> QED
      BY <3>1, <3>2 DEF Shape
  <2> QED
    BY <2>1, <2>2
<1>6. ASSUME NEW n \in 1 .. d PROVE ValuesFit(t[n])
  <2>1. CASE n = d
    BY <1>1, <2>1
  <2>2. CASE n # d
    <3>1. n \in 1 .. Len(s)
      BY <1>0, <2>2
    <3> QED
      BY <1>1, <3>1 DEF Shape
  <2> QED
    BY <2>1, <2>2
<1>7. ASSUME NEW n \in 1 .. d, t[n].kind \in {"struct", "members", "function"},
             NEW a \in t[n].above
      PROVE  t[a].kind \in Outermost
  <2>1. CASE n = d
    <3>1. s[p].kind \in Outermost
      BY <1>1, <1>7, <2>1 DEF Fits, Outermost
    <3>2. \A b \in s[p].above : s[b].kind \in Outermost
      <4>1. CASE p = 1
        BY <4>1 DEF Tree
      <4>2. CASE p # 1
        <5>1. p \in 2 .. Len(s)
          BY <1>0, <4>2
        <5>2. s[p].kind # "root"
          BY <5>1 DEF Shape, Fits
        <5> QED
          BY <3>1, <5>2 DEF Shape, Outermost
      <4> QED
        BY <4>1, <4>2
    <3>3. a \in 1 .. Len(s) /\ a \in s[p].above \cup {p}
      BY <1>1, <1>2, <1>7, <2>1
    <3> QED
      BY <1>1, <3>1, <3>2, <3>3
  <2>2. CASE n # d
    <3>1. n \in 1 .. Len(s)
      BY <1>0, <2>2
    <3>2. t[n] = s[n] /\ a \in 1 .. Len(s)
      BY <1>1, <1>2, <1>7, <3>1
    <3> QED
      BY <1>1, <1>7, <3>1, <3>2 DEF Shape
  <2> QED
    BY <2>1, <2>2
<1> QED
  BY <1>1, <1>4, <1>5, <1>6, <1>7 DEF Shape, t

\* A node added to an open one.
LEMMA AddOne ==
  ASSUME NEW s \in Seq(NodeType), Tree(s), Shape(s), NEW p, Open(s, p), NEW e \in NodeType,
         e.parent = p, e.above = s[p].above \cup {p}, Fits(e.kind, s[p].kind), ValuesFit(e)
  PROVE  /\ Append(s, e) \in Seq(NodeType)
         /\ Len(Append(s, e)) = Len(s) + 1
         /\ Append(s, e)[Len(s) + 1] = e
         /\ \A n \in 1 .. Len(s) : Append(s, e)[n] = s[n]
         /\ Tree(Append(s, e)) /\ Shape(Append(s, e))
         /\ Open(Append(s, e), p)
         /\ Open(Append(s, e), Len(s) + 1)
<1>1. p \in 1 .. Len(s)
  BY DEF Open
<1> QED
  BY <1>1, TreeAppend, ShapeAppend

LEMMA TwoAppended ==
  ASSUME NEW s \in Seq(NodeType), NEW e \in NodeType, NEW f \in NodeType
  PROVE  s \o <<e, f>> = Append(Append(s, e), f)
  OBVIOUS

LEMMA ShapeSame ==
  ASSUME NEW s, NEW t, Len(s) \in Nat, SameTree(s, t), Tree(s), Shape(s),
         \A n \in 1 .. Len(s) : ValuesFit(t[n])
  PROVE  Shape(t)
<1>1. \A n \in 1 .. Len(s) : s[n].above \subseteq 1 .. Len(s)
  BY DEF Tree
<1>2. \A n \in 2 .. Len(s) : s[n].parent \in 1 .. Len(s) /\ n \in 1 .. Len(s)
  BY DEF Tree
<1>3. 1 \in 1 .. Len(s)
  BY DEF Tree
<1>4. Len(t) = Len(s) /\ t[1].kind = "root"
  BY <1>3 DEF Shape, SameTree
<1>5. \A n \in 2 .. Len(s) : Fits(t[n].kind, t[t[n].parent].kind)
  BY <1>2 DEF Shape, SameTree
<1>6. ASSUME NEW n \in 1 .. Len(s), t[n].kind \in {"struct", "members", "function"},
             NEW a \in t[n].above
      PROVE  t[a].kind \in Outermost
  <2>1. a \in s[n].above /\ a \in 1 .. Len(s) /\ s[n].kind \in {"struct", "members", "function"}
    BY <1>1, <1>6 DEF SameTree
  <2> QED
    BY <2>1 DEF Shape, SameTree
<1> QED
  BY <1>4, <1>5, <1>6 DEF Shape

-----------------------------------------------------------------------------
(***************************************************************************)
(* The types, with the tree and who waits for a search                     *)
(***************************************************************************)
\* The node is a child of the node whose children are generated, ...
Direct ==
  /\ nodes[look.use].parent = at
  /\ look.for = "use" => nodes[look.use].kind = "use"
  /\ look.for = "declaration" => nodes[look.use].kind = "declaration"
  /\ look.for = "target" => nodes[look.use].kind = "assignment"

\* ... or is in an assignment or a for that is, the last node.
Nested ==
  /\ look.for = "use"
  /\ nodes[look.use].kind = "use"
  /\ User \in 2 .. Len(nodes) /\ look.use = User + 1 /\ look.use = Len(nodes)
  /\ nodes[User].parent = at
  /\ nodes[User].kind \in {"assignment", "for"}
  /\ nodes[User].region = region
  /\ \A x \in Names : nodes[User].namedValues[x] = NoValue
  /\ Open(nodes, User)

CallShape ==
  look.for # "none" =>
    /\ InBody
    /\ look.name \in Names
    /\ look.use \in 2 .. Len(nodes)
    /\ look.node \in 1 .. Len(nodes)
    /\ ~look.returned => look.result = 0
    /\ \A m \in 1 .. Len(nodes) : look.use < m => nodes[m].kind = "use"
    /\ Direct \/ Nested

RegionsInv == \A n \in 1 .. Len(nodes) : nodes[n].region \subseteq 1 .. blocks

TypeInv ==
  /\ TypeOK
  /\ Tree(nodes) /\ Shape(nodes) /\ Open(nodes, at)
  /\ RegionsInv
  /\ CallShape

CallType(n) ==
  [for : {"none", "use", "declaration", "target"}, name : Names \cup {NoName},
   use : 0 .. n, node : 0 .. n, child : 0 .. n, returned : BOOLEAN, result : 0 .. n]

\* TypeOK by its parts.
LEMMA TypeOKParts ==
  TypeOK <=> /\ nodes \in Seq(NodeType)
             /\ at \in 1 .. Len(nodes)
             /\ region \subseteq 1 .. blocks /\ blocks \in Nat
             /\ look \in CallType(Len(nodes))
             /\ status \in {"generating", "exited", "undefined", "done"}
  BY DEF TypeOK, NodeType, CallType

LEMMA NoCallType == \A n \in Nat : NoCall \in CallType(n)
  BY DEF NoCall, CallType

LEMMA NewNode ==
  ASSUME nodes \in Seq(NodeType), region \in SUBSET Nat, NEW p \in 1 .. Len(nodes),
         NEW k \in Kinds, NEW x \in Names \cup {NoName}
  PROVE  /\ Node(k, x, p) \in NodeType
         /\ Node(k, x, p).kind = k /\ Node(k, x, p).name = x
         /\ Node(k, x, p).parent = p /\ Node(k, x, p).above = nodes[p].above \cup {p}
         /\ Node(k, x, p).region = region
         /\ Node(k, x, p).namedValues = NoValues
         /\ \A y \in Names : NoValues[y] = NoValue
         /\ k \notin {"assignment", "for"} \/ x \in Names => ValuesFit(Node(k, x, p))
<1>1. NoValues \in [Names -> [kind : ValueKinds, stored : SUBSET Nat]]
  BY DEF NoValues, NoValue, Value, ValueKinds
<1>2. nodes[p].above \in SUBSET Nat
  <2>1. nodes[p] \in NodeType
    OBVIOUS
  <2> QED
    BY <2>1 DEF NodeType
<1>3. \A y \in Names : NoValues[y] = NoValue
  BY DEF NoValues
<1> QED
  BY <1>1, <1>2, <1>3 DEF Node, NodeType, ValuesFit

LEMMA ChildNode ==
  ASSUME nodes \in Seq(NodeType), NEW e \in NodeType, NEW k \in Kinds
  PROVE  /\ Child(k, e) \in NodeType
         /\ Child(k, e).kind = k /\ Child(k, e).name = NoName
         /\ Child(k, e).parent = Len(nodes) + 1
         /\ Child(k, e).above = e.above \cup {Len(nodes) + 1}
         /\ Child(k, e).region = e.region
         /\ Child(k, e).namedValues = NoValues
         /\ k \notin {"assignment", "for"} => ValuesFit(Child(k, e))
<1>1. NoValues \in [Names -> [kind : ValueKinds, stored : SUBSET Nat]]
  BY DEF NoValues, NoValue, Value, ValueKinds
<1>2. \A y \in Names : NoValues[y] = NoValue
  BY DEF NoValues
<1> DEFINE c == Child(k, e)
<1>3. c.kind = k /\ c.name = NoName /\ c.parent = Len(nodes) + 1 /\ c.namedValues = NoValues
  BY DEF Child
<1>4. c.above = e.above \cup {Len(nodes) + 1} /\ c.region = e.region
  BY DEF Child
<1>5. c \in NodeType
  <2>1. e.above \in SUBSET Nat /\ e.region \in SUBSET Nat /\ Len(nodes) + 1 \in Nat
    BY DEF NodeType
  <2> QED
    BY <1>1, <2>1 DEF Child, NodeType
<1> HIDE DEF c
<1>6. k \notin {"assignment", "for"} => ValuesFit(c)
  BY <1>2, <1>3 DEF ValuesFit
<1> QED
  BY <1>3, <1>4, <1>5, <1>6 DEF c

LEMMA ForNode ==
  ASSUME NEW e \in NodeType, e.kind = "for", e.name \in Names, region \in SUBSET Nat
  PROVE  /\ ForVariable(e) \in NodeType
         /\ ForVariable(e).kind = "for" /\ ForVariable(e).name = e.name
         /\ ForVariable(e).parent = e.parent /\ ForVariable(e).above = e.above
         /\ ForVariable(e).region = e.region
         /\ ForVariable(e).namedValues = [e.namedValues EXCEPT ![e.name] = Value("for", region)]
         /\ ValuesFit(ForVariable(e))
<1>1. Value("for", region) \in [kind : ValueKinds, stored : SUBSET Nat]
  BY DEF Value, ValueKinds
<1> DEFINE f == ForVariable(e)
           v == [e.namedValues EXCEPT ![e.name] = Value("for", region)]
<1>2. v \in [Names -> [kind : ValueKinds, stored : SUBSET Nat]]
  BY <1>1 DEF NodeType
<1>3. f = [e EXCEPT !.namedValues = v]
  BY DEF ForVariable
<1> HIDE DEF f, v
<1>4. f.kind = e.kind /\ f.name = e.name /\ f.parent = e.parent /\ f.namedValues = v
  BY <1>3 DEF NodeType
<1>5. f.above = e.above /\ f.region = e.region
  BY <1>3 DEF NodeType
<1>6. f \in NodeType
  BY <1>2, <1>3 DEF NodeType
<1>7. ValuesFit(f)
  BY <1>4 DEF ValuesFit, Holders
<1> QED
  BY <1>4, <1>5, <1>6, <1>7 DEF f, v

LEMMA TypeInit == Init => TypeInv
<1> SUFFICES ASSUME Init PROVE TypeInv
  OBVIOUS
<1>1. NoValues \in [Names -> [kind : ValueKinds, stored : SUBSET Nat]]
      /\ \A y \in Names : NoValues[y] = NoValue
  BY DEF NoValues, NoValue, Value, ValueKinds
<1>2. nodes \in Seq(NodeType) /\ Len(nodes) = 1 /\ nodes[1].kind = "root" /\ nodes[1].above = {}
      /\ nodes[1].parent = 0 /\ nodes[1].region = {} /\ nodes[1].namedValues = NoValues
  BY <1>1 DEF Init, NodeType, Kinds
<1>3. TypeOK
  BY <1>2, NamesAssumption DEF Init, TypeOK, NodeType, NoCall, Root
<1>4. Tree(nodes) /\ Open(nodes, at)
  BY <1>2 DEF Tree, Open, Init, Root
<1>5. Shape(nodes)
  BY <1>1, <1>2 DEF Shape, ValuesFit
<1>6. RegionsInv
  BY <1>2 DEF RegionsInv
<1>7. CallShape
  BY DEF Init, CallShape, NoCall
<1> QED
  BY <1>3, <1>4, <1>5, <1>6, <1>7 DEF TypeInv

\* What the steps need of the types.
LEMMA TypeFacts ==
  ASSUME TypeInv
  PROVE  /\ nodes \in Seq(NodeType) /\ Len(nodes) \in Nat /\ Len(nodes) >= 1
         /\ at \in 1 .. Len(nodes) /\ region \in SUBSET Nat /\ blocks \in Nat
         /\ region \subseteq 1 .. blocks
         /\ \A n \in 1 .. Len(nodes) : nodes[n] \in NodeType
         /\ at # 1 => Outer \in 1 .. Len(nodes) /\ Outer \in nodes[at].above
         /\ 1 \in nodes[at].above \/ at = 1
         /\ Here # "root" => at # 1
<1>1. nodes \in Seq(NodeType)
  BY DEF TypeInv, TypeOK, NodeType
<1>2. Len(nodes) \in Nat /\ Len(nodes) >= 1 /\ \A n \in 1 .. Len(nodes) : nodes[n] \in NodeType
  BY <1>1 DEF TypeInv, Tree
<1>3. at \in 1 .. Len(nodes) /\ region \in SUBSET Nat /\ blocks \in Nat /\ region \subseteq 1 .. blocks
  BY <1>2 DEF TypeInv, TypeOK
<1>4. at # 1 => Outer \in 1 .. Len(nodes) /\ Outer \in nodes[at].above
  BY <1>2, <1>3 DEF TypeInv, Tree, Outer
<1>5. 1 \in nodes[at].above \/ at = 1
  BY <1>2, <1>3 DEF TypeInv, Tree
<1>6. Here # "root" => at # 1
  BY DEF TypeInv, Shape, Here
<1> QED
  BY <1>1, <1>2, <1>3, <1>4, <1>5, <1>6

\* A step of the search.
LEMMA TypeSearch ==
  ASSUME TypeInv, FindNamedValue
  PROVE  TypeInv'
<1> USE TypeFacts
<1>1. UNCHANGED <<nodes, at, region, blocks, status>> /\ Calling
  BY DEF FindNamedValue, FindInSelf, FindAmongChildren, FindInParent, FindNothing
<1>2. /\ look.node \in 1 .. Len(nodes) /\ look.for # "none"
      /\ look \in CallType(Len(nodes))
  BY <1>1, TypeOKParts DEF TypeInv, CallShape, Calling
<1>3. /\ look'.for = look.for /\ look'.name = look.name /\ look'.use = look.use
      /\ look'.node \in 1 .. Len(nodes)
      /\ ~look'.returned => look'.result = look.result
      /\ ~look'.returned => ~look.returned
      /\ look' \in CallType(Len(nodes))
  <2>1. CASE FindInSelf
    BY <1>2, <2>1 DEF FindInSelf, CallType
  <2>2. CASE FindAmongChildren
    <3>1. PICK c \in Siblings : look' = [look EXCEPT !.returned = TRUE, !.result = c]
      BY <2>2 DEF FindAmongChildren
    <3>2. c \in 0 .. Len(nodes)
      BY <3>1 DEF Siblings
    <3> QED
      BY <1>2, <3>1, <3>2 DEF CallType
  <2>3. CASE FindInParent
    <3>1. look.node \in 2 .. Len(nodes)
      BY <1>2, <2>3 DEF FindInParent, Root
    <3>2. nodes[look.node].parent \in 1 .. Len(nodes)
      BY <3>1 DEF TypeInv, Tree
    <3> DEFINE p == nodes[look.node].parent
    <3>3. look' = [look EXCEPT !.node = p, !.child = look.node] /\ ~look.returned
      BY <2>3 DEF FindInParent, Calling
    <3> HIDE DEF p
    <3>4. p \in 1 .. Len(nodes)
      BY <3>2 DEF p
    <3> DEFINE up == [look EXCEPT !.node = p]
    <3>5. up \in CallType(Len(nodes)) /\ up.node = p /\ up.returned = look.returned
          /\ up.for = look.for /\ up.name = look.name /\ up.use = look.use /\ up.result = look.result
      BY <1>2, <3>4 DEF CallType
    <3>6. look' = [up EXCEPT !.child = look.node]
      BY <3>3
    <3> HIDE DEF up
    <3> QED
      BY <1>2, <3>3, <3>4, <3>5, <3>6 DEF CallType
  <2>4. CASE FindNothing
    BY <1>2, <2>4 DEF FindNothing, CallType
  <2> QED
    BY <2>1, <2>2, <2>3, <2>4 DEF FindNamedValue
<1>4. TypeOK'
  BY <1>1, <1>3, TypeOKParts DEF TypeInv, TypeOK, CallType
<1>5. CallShape'
  <2>1. Direct => Direct'
    BY <1>1, <1>3 DEF Direct
  <2>2. Nested => Nested'
    BY <1>1, <1>3 DEF Nested, User
  <2> QED
    BY <1>1, <1>2, <1>3, <2>1, <2>2 DEF TypeInv, CallShape, InBody, Here
<1> QED
  BY <1>1, <1>4, <1>5 DEF TypeInv, RegionsInv

Resumes == Load \/ AlreadyDeclared \/ Store
Stops == UndefinedVariable \/ LoadFromArgument \/ Finish \/ Stopped

\* Steps after which nothing but look or status is different.
LEMMA TypeResume ==
  ASSUME TypeInv, Resumes \/ Stops
  PROVE  TypeInv'
<1> USE TypeFacts
<1>1. UNCHANGED <<nodes, at, region, blocks>>
  BY DEF Resumes, Stops, Load, AlreadyDeclared, Store, UndefinedVariable, LoadFromArgument, Finish,
         Stopped, vars
<1>2. status' \in {"generating", "exited", "undefined", "done"}
  BY DEF Resumes, Stops, Load, AlreadyDeclared, Store, UndefinedVariable, LoadFromArgument, Finish,
         Stopped, vars, TypeInv, TypeOK
<1>3. look' = NoCall \/ look' = look
  BY Zenon DEF Resumes, Stops, Load, AlreadyDeclared, Store, UndefinedVariable, LoadFromArgument, Finish,
         Stopped, vars
<1>4. TypeOK'
  <2>1. look' \in CallType(Len(nodes))
    BY <1>3, NoCallType, TypeOKParts DEF TypeInv
  <2> QED
    BY <1>1, <1>2, <2>1 DEF TypeInv, TypeOK, CallType
<1>5. CallShape'
  <2>1. CASE look' = NoCall
    BY <2>1 DEF CallShape, NoCall
  <2>2. CASE look' = look
    BY <1>1, <2>2 DEF TypeInv, CallShape, InBody, Here, Direct, Nested, User
  <2> QED
    BY <1>3, <2>1, <2>2
<1> QED
  BY <1>1, <1>4, <1>5 DEF TypeInv, RegionsInv

LEMMA TypeLoadRight ==
  ASSUME TypeInv, LoadRight
  PROVE  TypeInv'
<1> USE TypeFacts
<1>1. UNCHANGED <<nodes, at, region, blocks, status>> /\ look.for = "use" /\ look.for # "none"
  BY DEF LoadRight, Loads, Found
<1>2. Nested
  <2>1. Direct => nodes[User].kind \in {"body", "else"}
    BY <1>1 DEF TypeInv, CallShape, Direct, User, InBody, Here
  <2> QED
    BY <1>1, <2>1 DEF LoadRight, TypeInv, CallShape
<1>3. User \in 2 .. Len(nodes) /\ nodes[User].name \in Names /\ at \in 1 .. Len(nodes)
  BY <1>2 DEF LoadRight, TypeInv, Shape, ValuesFit, Nested
<1>4. look' = Find("target", nodes[User].name, User, at)
  BY <1>2 DEF LoadRight, Nested
<1>5. TypeOK'
  BY <1>1, <1>3, <1>4 DEF TypeInv, TypeOK, Find
<1>6. Direct'
  BY <1>1, <1>2, <1>4 DEF Direct, Find, Nested, LoadRight
<1>7. \A m \in 1 .. Len(nodes) : User < m => nodes[m].kind = "use"
  <2> SUFFICES ASSUME NEW m \in 1 .. Len(nodes), User < m PROVE nodes[m].kind = "use"
    OBVIOUS
  <2>1. m = look.use
    BY <1>2 DEF Nested
  <2> QED
    BY <1>2, <2>1 DEF Nested
<1>8. CallShape'
  <2>1. InBody'
    BY <1>1 DEF TypeInv, CallShape, InBody, Here
  <2> QED
    BY <1>1, <1>3, <1>4, <1>6, <1>7, <2>1 DEF CallShape, Find
<1> QED
  BY <1>1, <1>5, <1>8 DEF TypeInv, RegionsInv

\* One node is added, or two, and perhaps a block.
LEMMA OneAdded ==
  ASSUME TypeInv, NEW p, Open(nodes, p), NEW k \in Kinds, NEW x \in Names \cup {NoName},
         nodes' = Append(nodes, Node(k, x, p)), blocks' \in {blocks, NewBlock},
         Fits(k, nodes[p].kind), k \in {"assignment", "for"} => x \in Names
  PROVE  /\ nodes' \in Seq(NodeType) /\ Len(nodes') = Next1 /\ nodes'[Next1] = Node(k, x, p)
         /\ \A n \in 1 .. Len(nodes) : nodes'[n] = nodes[n]
         /\ Tree(nodes') /\ Shape(nodes') /\ Open(nodes', p) /\ Open(nodes', Next1)
         /\ RegionsInv'
<1> DEFINE e == Node(k, x, p)
<1>0. p \in 1 .. Len(nodes)
  BY DEF Open
<1>1. e \in NodeType /\ e.kind = k /\ e.parent = p /\ e.above = nodes[p].above \cup {p}
      /\ e.region = region /\ ValuesFit(e)
  BY <1>0, TypeFacts, NewNode
<1> HIDE DEF e
<1>2. nodes' = Append(nodes, e)
  BY DEF e
<1>3. /\ nodes' \in Seq(NodeType) /\ Len(nodes') = Next1 /\ nodes'[Next1] = e
      /\ \A n \in 1 .. Len(nodes) : nodes'[n] = nodes[n]
      /\ Tree(nodes') /\ Shape(nodes') /\ Open(nodes', p) /\ Open(nodes', Next1)
  BY <1>1, <1>2, TypeFacts, AddOne DEF TypeInv, Next1
<1>4. RegionsInv'
  <2>1. \A b \in 1 .. blocks : b \in 1 .. blocks'
    BY TypeFacts DEF NewBlock
  <2>2. ASSUME NEW n \in 1 .. Len(nodes') PROVE nodes'[n].region \subseteq 1 .. blocks'
    <3>1. CASE n \in 1 .. Len(nodes)
      BY <1>3, <2>1, <3>1 DEF TypeInv, RegionsInv
    <3>2. CASE n = Next1
      BY <1>1, <1>3, <2>1, <3>2, TypeFacts
    <3> QED
      BY <1>3, <3>1, <3>2, TypeFacts DEF Next1
  <2> QED
    BY <2>2 DEF RegionsInv
<1> QED
  BY <1>3, <1>4 DEF e

LEMMA TwoAdded ==
  ASSUME TypeInv, NEW e \in NodeType, e.parent = at, e.above = nodes[at].above \cup {at},
         Fits(e.kind, Here), ValuesFit(e), e.region = region,
         NEW k \in {"body", "members", "use"}, Fits(k, e.kind),
         nodes' = Append(Append(nodes, e), Child(k, e)), blocks' \in {blocks, NewBlock}
  PROVE  /\ nodes' \in Seq(NodeType) /\ Len(nodes') = Next2
         /\ nodes'[Next1] = e /\ nodes'[Next2] = Child(k, e)
         /\ \A n \in 1 .. Len(nodes) : nodes'[n] = nodes[n]
         /\ Tree(nodes') /\ Shape(nodes')
         /\ Open(nodes', at) /\ Open(nodes', Next1) /\ Open(nodes', Next2)
         /\ RegionsInv'
<1> DEFINE f == Child(k, e)
<1>1. f \in NodeType /\ f.kind = k /\ f.parent = Next1 /\ f.above = e.above \cup {Next1}
      /\ f.region = region /\ ValuesFit(f)
  BY TypeFacts, ChildNode DEF Next1, Kinds
<1>2. Fits(f.kind, e.kind)
  BY <1>1 DEF Fits
<1> HIDE DEF f
<1>3. nodes' = Append(Append(nodes, e), f)
  BY DEF f
<1>4. /\ nodes' \in Seq(NodeType) /\ Len(nodes') = Next2
      /\ nodes'[Next1] = e /\ nodes'[Next2] = f
      /\ \A n \in 1 .. Len(nodes) : nodes'[n] = nodes[n]
      /\ Tree(nodes') /\ Shape(nodes')
      /\ Open(nodes', at) /\ Open(nodes', Next1) /\ Open(nodes', Next2)
  <2> DEFINE t == Append(nodes, e)
             u == Append(t, f)
             d == Len(nodes) + 1
  <2>1. /\ nodes \in Seq(NodeType) /\ Tree(nodes) /\ Shape(nodes) /\ Open(nodes, at)
        /\ Fits(e.kind, nodes[at].kind) /\ f.parent = d /\ f.above = e.above \cup {d}
        /\ Len(nodes) \in Nat
    BY <1>1, TypeFacts DEF TypeInv, Next1, Here
  <2>2. /\ t \in Seq(NodeType) /\ Len(t) = d /\ t[d] = e
        /\ \A n \in 1 .. Len(nodes) : t[n] = nodes[n]
        /\ Tree(t) /\ Shape(t) /\ Open(t, d)
    BY <2>1, AddOne
  <2> HIDE DEF t
  <2>3. /\ u \in Seq(NodeType) /\ Len(u) = d + 1 /\ u[d + 1] = f
        /\ \A n \in 1 .. d : u[n] = t[n]
        /\ Tree(u) /\ Shape(u) /\ Open(u, d) /\ Open(u, d + 1)
    BY <1>1, <1>2, <2>1, <2>2, AddOne
  <2>4. nodes' = u
    BY <1>3 DEF t
  <2> HIDE DEF u
  <2>5. u[d] = e /\ at \in u[d].above
    BY <2>1, <2>2, <2>3
  <2>6. Open(u, at)
    BY <2>1, <2>3, <2>5, OpenAbove
  <2>7. \A n \in 1 .. Len(nodes) : u[n] = nodes[n]
    BY <2>1, <2>2, <2>3
  <2>8. d + 1 = Next2 /\ d = Next1
    BY <2>1 DEF Next1, Next2
  <2> QED
    BY <2>3, <2>4, <2>5, <2>6, <2>7, <2>8
<1>5. RegionsInv'
  <2>1. \A b \in 1 .. blocks : b \in 1 .. blocks'
    BY TypeFacts DEF NewBlock
  <2>2. ASSUME NEW n \in 1 .. Len(nodes') PROVE nodes'[n].region \subseteq 1 .. blocks'
    <3>1. CASE n \in 1 .. Len(nodes)
      BY <1>4, <2>1, <3>1 DEF TypeInv, RegionsInv
    <3>2. CASE n = Next1
      BY <1>4, <2>1, <3>2, TypeFacts
    <3>3. CASE n = Next2
      BY <1>1, <1>4, <2>1, <3>3, TypeFacts
    <3>4. n \in 1 .. Len(nodes) \/ n = Next1 \/ n = Next2
      BY <1>4, TypeFacts DEF Next1, Next2
    <3> QED
      BY <3>1, <3>2, <3>3, <3>4
  <2> QED
    BY <2>2 DEF RegionsInv
<1> QED
  BY <1>4, <1>5 DEF f

\* The call of findNamedValue, where there are n nodes.
LEMMA FindType ==
  ASSUME NEW n \in Nat, NEW u \in 1 .. n, NEW p \in 1 .. n, NEW x \in Names,
         NEW for \in {"use", "declaration", "target"}
  PROVE  Find(for, x, u, p) \in CallType(n)
  BY DEF Find, CallType

\* A statement of one node.
LEMMA TypeStatement ==
  ASSUME TypeInv, NEW x \in Names,
         Use(x) \/ Declaration(x) \/ Assignment(x, NoName)
  PROVE  TypeInv'
<1>1. PICK k \in {"use", "declaration", "assignment"}, y \in Names \cup {NoName},
           for \in {"use", "declaration", "target"} :
        /\ nodes' = Append(nodes, Node(k, y, at))
        /\ look' = Find(for, x, Next1, at)
        /\ for = "use" => k = "use"
        /\ for = "declaration" => k = "declaration"
        /\ for = "target" => k = "assignment"
        /\ k = "assignment" => y \in Names
  BY DEF Use, Declaration, Assignment
<1>2. InBody /\ UNCHANGED <<at, region, blocks, status>>
  BY DEF Use, Declaration, Assignment
<1>3. Fits(k, Here) /\ k \in Kinds /\ k # "for"
  BY <1>2 DEF Fits, Kinds, InBody
<1>4. /\ nodes' \in Seq(NodeType) /\ Len(nodes') = Next1 /\ nodes'[Next1] = Node(k, y, at)
      /\ \A n \in 1 .. Len(nodes) : nodes'[n] = nodes[n]
      /\ Tree(nodes') /\ Shape(nodes') /\ Open(nodes', at)
      /\ RegionsInv'
  <2>1. k \in {"assignment", "for"} => y \in Names
    BY <1>1, <1>3
  <2> QED
    BY <1>1, <1>2, <1>3, <2>1, OneAdded DEF TypeInv, Here
<1>5. at \in 1 .. Next1 /\ Next1 \in 2 .. Next1 /\ Next1 \in Nat /\ at \in 1 .. Len(nodes)
  BY TypeFacts DEF Next1
<1>6. look' \in CallType(Next1)
  BY <1>1, <1>5, FindType
<1>7. TypeOK'
  BY <1>2, <1>4, <1>5, <1>6, TypeOKParts DEF TypeInv, TypeOK, NodeType, CallType
<1>8. nodes'[Next1].parent = at /\ nodes'[Next1].kind = k
  BY <1>3, <1>4, <1>5, TypeFacts, NewNode
<1>9. CallShape'
  <2>1. InBody'
    BY <1>2, <1>4, <1>5 DEF InBody, Here
  <2>2. Direct'
    BY <1>1, <1>2, <1>8 DEF Direct, Find
  <2> QED
    BY <1>1, <1>4, <1>5, <2>1, <2>2 DEF CallShape, Find
<1> QED
  BY <1>2, <1>4, <1>7, <1>9 DEF TypeInv

\* An assignment of a variable, or a for with a variable as its limit.
LEMMA TypeNested ==
  ASSUME TypeInv, NEW x \in Names, NEW y \in Names, Assignment(x, y) \/ For(x, y)
  PROVE  TypeInv'
<1>0. y # NoName
  BY NamesAssumption
<1>1. PICK k \in {"assignment", "for"} :
        LET e == Node(k, x, at)
        IN  nodes' = nodes \o <<e, Child("use", e)>>
  BY <1>0 DEF Assignment, For
<1>2. /\ look' = Find("use", y, Next2, Next1) /\ InBody
      /\ UNCHANGED <<at, region, blocks, status>>
  BY <1>0 DEF Assignment, For
<1> DEFINE e == Node(k, x, at)
           f == Child("use", e)
<1>3. /\ e \in NodeType /\ e.kind = k /\ e.parent = at /\ e.above = nodes[at].above \cup {at}
      /\ e.region = region /\ ValuesFit(e) /\ \A z \in Names : e.namedValues[z] = NoValue
  BY TypeFacts, NewNode DEF Kinds
<1>4. f \in NodeType /\ f.kind = "use" /\ f.parent = Next1
  BY <1>3, TypeFacts, ChildNode DEF Kinds, Next1
<1>5. Fits(e.kind, Here) /\ Fits("use", e.kind)
  BY <1>2, <1>3 DEF Fits, InBody
<1>6. nodes' = Append(Append(nodes, e), f)
  BY <1>1, <1>3, <1>4, TypeFacts, TwoAppended
<1> HIDE DEF e
<1>7. /\ nodes' \in Seq(NodeType) /\ Len(nodes') = Next2 /\ nodes'[Next1] = e
      /\ nodes'[Next2] = f
      /\ \A n \in 1 .. Len(nodes) : nodes'[n] = nodes[n]
      /\ Tree(nodes') /\ Shape(nodes') /\ Open(nodes', at) /\ Open(nodes', Next1)
      /\ RegionsInv'
  BY <1>2, <1>3, <1>5, <1>6, TwoAdded
<1> HIDE DEF f
<1>8. /\ at \in 1 .. Next2 /\ Next1 \in 2 .. Next2 /\ Next2 \in 2 .. Next2 /\ Next2 \in Nat
      /\ at \in 1 .. Len(nodes) /\ Next2 = Next1 + 1 /\ Next2 \in 1 .. Next2 /\ Next1 \in 1 .. Next2
  BY TypeFacts DEF Next1, Next2
<1>9. look' \in CallType(Next2)
  BY <1>2, <1>8, FindType
<1>10. TypeOK'
  BY <1>2, <1>7, <1>8, <1>9, TypeOKParts DEF TypeInv, TypeOK, NodeType, CallType
<1>11. Nested'
  <2>1. User' = Next1
    BY <1>2, <1>4, <1>7 DEF User, Find
  <2> QED
    BY <1>2, <1>3, <1>4, <1>7, <1>8, <2>1 DEF Nested, Find
<1>12. CallShape'
  <2>1. InBody'
    BY <1>2, <1>7, <1>8 DEF InBody, Here
  <2>2. \A m \in 1 .. Next2 : Next2 < m => nodes'[m].kind = "use"
    BY <1>8
  <2> QED
    BY <1>2, <1>7, <1>8, <1>11, <2>1, <2>2 DEF CallShape, Find
<1> QED
  BY <1>2, <1>7, <1>10, <1>12 DEF TypeInv

\* A body is entered.
LEMMA TypeEnter ==
  ASSUME TypeInv,
         \/ If
         \/ \E x \in Names : For(x, NoName)
         \/ \E as \in SUBSET Names : \E ps \in SUBSET as : Function(as, ps)
         \/ Struct
  PROVE  TypeInv'
<1> DEFINE Adds(e, k) ==
             /\ e \in NodeType /\ e.parent = at /\ e.above = nodes[at].above \cup {at}
             /\ e.region = region /\ ValuesFit(e) /\ Fits(e.kind, Here)
             /\ Fits(k, e.kind)
             /\ nodes' = nodes \o <<e, Child(k, e)>>
<1>1. look = NoCall /\ look' = NoCall /\ at' = Next2 /\ status' = status
  BY DEF If, For, Function, Struct, ReadyFor, EnterBody
<1>2. /\ blocks' \in {blocks, NewBlock} /\ region' \subseteq 1 .. blocks' /\ blocks' \in Nat
  <2>1. region \subseteq 1 .. blocks /\ blocks \in Nat
    BY TypeFacts
  <2>2. NewBlock \in Nat /\ 1 .. blocks \subseteq 1 .. NewBlock /\ NewBlock \in 1 .. NewBlock
    BY <2>1 DEF NewBlock
  <2>3. (region' = region \cup {NewBlock} /\ blocks' = NewBlock)
        \/ (region' = {NewBlock} /\ blocks' = NewBlock) \/ UNCHANGED <<region, blocks>>
    BY DEF If, For, Function, Struct, EnterBody
  <2> QED
    BY <2>1, <2>2, <2>3
<1>3. PICK e \in NodeType, k \in {"body", "members"} : Adds(e, k)
  <2>1. CASE If
    <3> DEFINE n == Node("if", NoName, at)
    <3>1. /\ n \in NodeType /\ n.kind = "if" /\ n.parent = at
          /\ n.above = nodes[at].above \cup {at} /\ n.region = region /\ ValuesFit(n)
      BY TypeFacts, NewNode DEF Kinds
    <3>2. nodes' = nodes \o <<n, Child("body", n)>> /\ InBody
      BY <2>1 DEF If
    <3> HIDE DEF n
    <3> QED
      BY <3>1, <3>2 DEF Fits, InBody
  <2>2. CASE \E x \in Names : For(x, NoName)
    <3>0. PICK x \in Names : For(x, NoName)
      BY <2>2
    <3> DEFINE m == Node("for", x, at)
               n == ForVariable(m)
    <3>1. /\ m \in NodeType /\ m.kind = "for" /\ m.name = x /\ m.parent = at
          /\ m.above = nodes[at].above \cup {at} /\ m.region = region
      BY TypeFacts, NewNode DEF Kinds
    <3>2. nodes' = nodes \o <<n, Child("body", m)>> /\ InBody
      BY <3>0 DEF For
    <3> HIDE DEF m
    <3>3. /\ n \in NodeType /\ n.kind = "for" /\ n.parent = m.parent /\ n.above = m.above
          /\ n.region = m.region /\ ValuesFit(n)
      BY <3>1, TypeFacts, ForNode
    <3>4. Child("body", m) = Child("body", n)
      BY <3>3 DEF Child
    <3> HIDE DEF n
    <3> QED
      BY <3>1, <3>2, <3>3, <3>4 DEF Fits, InBody
  <2>3. CASE \E as \in SUBSET Names : \E ps \in SUBSET as : Function(as, ps)
    <3>0. PICK as \in SUBSET Names : \E ps \in SUBSET as : Function(as, ps)
      BY <2>3
    <3>1. PICK ps \in SUBSET as : Function(as, ps)
      BY <3>0
    <3> DEFINE m == Node("function", NoName, at)
               v == [x \in Names |-> Argument(x, as, ps)]
               n == [m EXCEPT !.namedValues = v]
    <3>2. /\ m \in NodeType /\ m.kind = "function" /\ m.name = NoName /\ m.parent = at
          /\ m.above = nodes[at].above \cup {at} /\ m.region = region
      BY TypeFacts, NewNode DEF Kinds
    <3>3. nodes' = nodes \o <<n, Child("body", m)>> /\ Here \in {"root", "members"}
      BY <3>1 DEF Function
    <3> HIDE DEF m
    <3>4. v \in [Names -> [kind : ValueKinds, stored : SUBSET Nat]]
      <4>1. NewBlock \in Nat
        BY TypeFacts DEF NewBlock
      <4>2. \A x \in Names : Argument(x, as, ps) \in [kind : ValueKinds, stored : SUBSET Nat]
        BY <4>1 DEF Argument, Value, NoValue, ValueKinds
      <4> QED
        BY <4>2
    <3> HIDE DEF v
    <3>5. /\ n \in NodeType /\ n.kind = m.kind /\ n.name = m.name /\ n.parent = m.parent
          /\ n.above = m.above /\ n.region = m.region
      BY <3>2, <3>4 DEF NodeType
    <3>6. ValuesFit(n)
      BY <3>2, <3>5 DEF ValuesFit, Holders
    <3>7. Child("body", m) = Child("body", n)
      BY <3>5 DEF Child
    <3> HIDE DEF n
    <3> QED
      BY <3>2, <3>3, <3>5, <3>6, <3>7 DEF Fits
  <2>4. CASE Struct
    <3> DEFINE n == Node("struct", NoName, at)
    <3>1. /\ n \in NodeType /\ n.kind = "struct" /\ n.parent = at
          /\ n.above = nodes[at].above \cup {at} /\ n.region = region /\ ValuesFit(n)
      BY TypeFacts, NewNode DEF Kinds
    <3>2. nodes' = nodes \o <<n, Child("members", n)>> /\ Here = "root"
      BY <2>4 DEF Struct
    <3> HIDE DEF n
    <3> QED
      BY <3>1, <3>2 DEF Fits
  <2> QED
    BY <2>1, <2>2, <2>3, <2>4
<1>4. nodes' = Append(Append(nodes, e), Child(k, e))
  <2>1. Child(k, e) \in NodeType
    BY TypeFacts, ChildNode DEF Kinds
  <2> QED
    BY <1>3, <2>1, TypeFacts, TwoAppended
<1>5. /\ nodes' \in Seq(NodeType) /\ Len(nodes') = Next2
      /\ Tree(nodes') /\ Shape(nodes') /\ Open(nodes', Next2) /\ RegionsInv'
  BY <1>2, <1>3, <1>4, TwoAdded
<1>6. Next2 \in 1 .. Next2 /\ Next2 \in Nat
  BY TypeFacts DEF Next2
<1>7. TypeOK'
  BY <1>1, <1>2, <1>5, <1>6, NoCallType DEF TypeInv, TypeOK, NodeType, CallType
<1>8. CallShape'
  BY <1>1 DEF CallShape, NoCall
<1> QED
  BY <1>1, <1>5, <1>7, <1>8 DEF TypeInv

\* A variable is kept on the node that looked for it.
LEMMA Declared ==
  ASSUME TypeInv, Declare \/ StoreToNew
  PROVE  /\ look.use \in 1 .. Len(nodes) /\ look.name \in Names /\ Direct
         /\ nodes[look.use].kind \in {"declaration", "assignment"}
         /\ nodes' \in Seq(NodeType) /\ SameTree(nodes, nodes')
         /\ nodes'[look.use].namedValues =
              [nodes[look.use].namedValues EXCEPT ![look.name] = Value("local", region)]
         /\ \A n \in 1 .. Len(nodes) : n # look.use => nodes'[n] = nodes[n]
<1> DEFINE v == Value("local", region)
           u == look.use
           x == look.name
           w == [nodes[u].namedValues EXCEPT ![x] = v]
           e == [nodes[u] EXCEPT !.namedValues = w]
<1>1. /\ look.for \in {"declaration", "target"}
      /\ nodes' = [nodes EXCEPT ![look.use].namedValues[look.name] = Value("local", region)]
  BY DEF Declare, StoreToNew, FoundNothing
<1>2. /\ u \in 1 .. Len(nodes) /\ x \in Names /\ Direct
      /\ nodes[u].kind \in {"declaration", "assignment"}
  BY <1>1, TypeFacts DEF TypeInv, CallShape, Direct, Nested
<1>3. v \in [kind : ValueKinds, stored : SUBSET Nat]
  BY TypeFacts DEF Value, ValueKinds
<1>4. nodes' = [nodes EXCEPT ![u] = e]
  BY <1>1
<1> HIDE DEF v, u, x
<1>5. nodes[u] \in NodeType
  BY <1>2, TypeFacts
<1>6. w \in [Names -> [kind : ValueKinds, stored : SUBSET Nat]]
  BY <1>2, <1>3, <1>5 DEF NodeType
<1> HIDE DEF w
<1>7. /\ e.kind = nodes[u].kind /\ e.name = nodes[u].name /\ e.parent = nodes[u].parent
      /\ e.above = nodes[u].above /\ e.region = nodes[u].region /\ e.namedValues = w
  BY <1>5 DEF NodeType
<1>8. e \in NodeType
  BY <1>5, <1>6 DEF NodeType
<1> HIDE DEF e
<1>9. nodes' \in Seq(NodeType) /\ Len(nodes') = Len(nodes) /\ nodes'[u] = e
      /\ \A n \in 1 .. Len(nodes) : n # u => nodes'[n] = nodes[n]
  BY <1>2, <1>4, <1>8, TypeFacts
<1>10. SameTree(nodes, nodes')
  BY <1>7, <1>9 DEF SameTree
<1>11. nodes'[u].namedValues = w
  BY <1>7, <1>9
<1> QED
  BY <1>2, <1>9, <1>10, <1>11 DEF w, u, x, v

LEMMA TypeDeclare ==
  ASSUME TypeInv, Declare \/ StoreToNew
  PROVE  TypeInv'
<1>1. UNCHANGED <<at, region, blocks, status>> /\ look' = NoCall
  BY DEF Declare, StoreToNew
<1>2. look.name \in Names /\ nodes[look.use].kind \in {"declaration", "assignment"}
  BY Declared
<1>5. /\ nodes' \in Seq(NodeType) /\ SameTree(nodes, nodes')
      /\ \A n \in 1 .. Len(nodes) : n # look.use => nodes'[n] = nodes[n]
  BY Declared
<1>6. Tree(nodes') /\ Open(nodes', at)
  BY <1>5, TypeFacts, TreeSame DEF TypeInv
<1>7. Shape(nodes')
  <2>1. ASSUME NEW n \in 1 .. Len(nodes) PROVE ValuesFit(nodes'[n])
    <3>1. CASE n = look.use
      BY <1>2, <1>5, <3>1 DEF TypeInv, Shape, ValuesFit, Holders, SameTree
    <3>2. CASE n # look.use
      BY <1>5, <3>2 DEF TypeInv, Shape
    <3> QED
      BY <3>1, <3>2
  <2> QED
    BY <1>5, <2>1, TypeFacts, ShapeSame DEF TypeInv
<1>8. TypeOK'
  BY <1>1, <1>5, NoCallType, TypeFacts DEF TypeInv, TypeOK, NodeType, CallType, SameTree
<1>9. CallShape' /\ RegionsInv'
  BY <1>1, <1>5 DEF TypeInv, CallShape, RegionsInv, NoCall, SameTree
<1> QED
  BY <1>1, <1>6, <1>7, <1>8, <1>9 DEF TypeInv

\* The variable of a for is kept on it, and its body is entered.
LEMMA LimitLoaded ==
  ASSUME TypeInv, LoadLimit
  PROVE  /\ Nested /\ nodes[User].kind = "for"
         /\ nodes' \in Seq(NodeType) /\ Len(nodes') = Next1
         /\ nodes'[User] = ForVariable(nodes[User])
         /\ nodes'[User].region = nodes[User].region
         /\ nodes'[User].namedValues =
              [nodes[User].namedValues EXCEPT ![nodes[User].name] = Value("for", region)]
         /\ nodes'[Next1] = Node("body", NoName, User)
         /\ \A n \in 1 .. Len(nodes) : n # User => nodes'[n] = nodes[n]
         /\ \A n \in 1 .. Len(nodes) :
              /\ nodes'[n].kind = nodes[n].kind /\ nodes'[n].above = nodes[n].above
              /\ nodes'[n].parent = nodes[n].parent /\ nodes'[n].region = nodes[n].region
         /\ Tree(nodes') /\ Shape(nodes') /\ Open(nodes', Next1)
<1> DEFINE f == ForVariable(nodes[User])
           e == Node("body", NoName, User)
           s == [nodes EXCEPT ![User] = f]
           t == Append(s, e)
<1>1. look.for = "use" /\ nodes[User].kind = "for"
  BY DEF LoadLimit, Loads, Found
<1>2. Nested
  <2>1. Direct => nodes[User].kind \in {"body", "else"}
    BY <1>1 DEF TypeInv, CallShape, Direct, User, InBody, Here
  <2> QED
    BY <1>1, <2>1 DEF TypeInv, CallShape
<1>3. User \in 1 .. Len(nodes) /\ nodes[User].name \in Names /\ nodes[User] \in NodeType
      /\ Open(nodes, User)
  BY <1>1, <1>2, TypeFacts DEF TypeInv, Shape, ValuesFit, Nested
<1>4. /\ f \in NodeType /\ f.kind = "for" /\ f.name = nodes[User].name
      /\ f.parent = nodes[User].parent /\ f.above = nodes[User].above
      /\ f.region = nodes[User].region /\ ValuesFit(f)
      /\ f.namedValues = [nodes[User].namedValues EXCEPT ![nodes[User].name] = Value("for", region)]
  BY <1>1, <1>3, TypeFacts, ForNode
<1>5. /\ e \in NodeType /\ e.kind = "body" /\ e.parent = User
      /\ e.above = nodes[User].above \cup {User} /\ ValuesFit(e)
  BY <1>3, TypeFacts, NewNode DEF Kinds
<1>6. nodes' = t
  BY DEF LoadLimit
<1> HIDE DEF f, e
<1>7. /\ s \in Seq(NodeType) /\ Len(s) = Len(nodes) /\ s[User] = f
      /\ \A n \in 1 .. Len(nodes) : n # User => s[n] = nodes[n]
  BY <1>3, <1>4, TypeFacts
<1> HIDE DEF s
<1>8. SameTree(nodes, s)
  BY <1>1, <1>4, <1>7 DEF SameTree
<1>9. Tree(s) /\ Open(s, User)
  BY <1>3, <1>8, TypeFacts, TreeSame DEF TypeInv
<1>10. Shape(s)
  <2>1. \A n \in 1 .. Len(nodes) : ValuesFit(s[n])
    BY <1>4, <1>7 DEF TypeInv, Shape
  <2> QED
    BY <1>8, <2>1, TypeFacts, ShapeSame DEF TypeInv
<1>11. e.above = s[User].above \cup {User} /\ Fits(e.kind, s[User].kind)
  BY <1>4, <1>5, <1>7 DEF Fits
<1>12. /\ t \in Seq(NodeType) /\ Len(t) = Len(s) + 1 /\ t[Len(s) + 1] = e
       /\ \A n \in 1 .. Len(s) : t[n] = s[n]
       /\ Tree(t) /\ Shape(t) /\ Open(t, Len(s) + 1)
  BY <1>5, <1>7, <1>9, <1>10, <1>11, AddOne
<1> HIDE DEF t
<1>13. \A n \in 1 .. Len(nodes) :
         /\ t[n].kind = nodes[n].kind /\ t[n].above = nodes[n].above
         /\ t[n].parent = nodes[n].parent /\ t[n].region = nodes[n].region
  BY <1>7, <1>8, <1>12 DEF SameTree
<1> QED
  BY <1>1, <1>2, <1>3, <1>4, <1>6, <1>7, <1>12, <1>13 DEF Next1, f, e

LEMMA TypeLoadLimit ==
  ASSUME TypeInv, LoadLimit
  PROVE  TypeInv'
<1>1. /\ nodes' \in Seq(NodeType) /\ Len(nodes') = Next1
      /\ nodes'[Next1] = Node("body", NoName, User) /\ User \in 1 .. Len(nodes)
      /\ \A n \in 1 .. Len(nodes) : nodes'[n].region = nodes[n].region
      /\ Tree(nodes') /\ Shape(nodes') /\ Open(nodes', Next1)
  BY LimitLoaded, TypeFacts DEF Nested
<1>2. /\ at' = Next1 /\ region' = region \cup {NewBlock} /\ blocks' = NewBlock
      /\ look' = NoCall /\ status' = status
  BY DEF LoadLimit
<1>3. Next1 \in 1 .. Next1 /\ Next1 \in Nat
  BY TypeFacts DEF Next1
<1>4. NewBlock \in Nat /\ 1 .. blocks \subseteq 1 .. NewBlock /\ NewBlock \in 1 .. NewBlock
  BY TypeFacts DEF NewBlock
<1>5. region' \subseteq 1 .. blocks'
  BY <1>2, <1>4, TypeFacts
<1>6. nodes'[Next1].region = region
  BY <1>1, NewNode, TypeFacts DEF Kinds
<1>7. TypeOK'
  BY <1>1, <1>2, <1>3, <1>4, <1>5, NoCallType DEF TypeInv, TypeOK, NodeType, CallType
<1>8. RegionsInv'
  <2> SUFFICES ASSUME NEW n \in 1 .. Len(nodes') PROVE nodes'[n].region \subseteq 1 .. blocks'
    BY DEF RegionsInv
  <2>1. CASE n \in 1 .. Len(nodes)
    BY <1>1, <1>2, <1>4, <2>1 DEF TypeInv, RegionsInv
  <2>2. CASE n = Next1
    BY <1>2, <1>4, <1>6, <2>2, TypeFacts
  <2> QED
    BY <1>1, <2>1, <2>2, TypeFacts DEF Next1
<1>9. CallShape'
  BY <1>2 DEF CallShape, NoCall
<1> QED
  BY <1>1, <1>2, <1>7, <1>8, <1>9 DEF TypeInv

\* What follows a statement, a function or a struct.
LEMMA TypeClose ==
  ASSUME TypeInv, EndIf \/ EndFor \/ EndFunction \/ EndStruct
  PROVE  TypeInv'
<1>1. UNCHANGED <<nodes, blocks, look, status>> /\ look = NoCall
      /\ Here \in {"body", "else", "members"}
  BY DEF EndIf, EndFor, EndFunction, EndStruct
<1>2. at # 1 /\ Outer \in 1 .. Len(nodes) /\ Outer \in nodes[at].above
  BY <1>1, TypeFacts
<1>3. Open(nodes, Outer)
  BY <1>2, TypeFacts, OpenAbove DEF TypeInv
<1>4. Outer # 1 /\ Outer \in 2 .. Len(nodes)
  <2>1. at \in 2 .. Len(nodes)
    BY <1>2, TypeFacts
  <2>2. Fits(Here, nodes[Outer].kind)
    BY <2>1 DEF TypeInv, Shape, Here, Outer
  <2>3. nodes[Outer].kind # "root"
    BY <1>1, <2>2 DEF Fits
  <2> QED
    BY <1>2, <2>3, TypeFacts DEF TypeInv, Shape
<1>5. Open(nodes, nodes[Outer].parent) /\ Open(nodes, 1)
  <2>1. nodes[Outer].parent \in nodes[Outer].above /\ 1 \in nodes[Outer].above
    BY <1>4 DEF TypeInv, Tree
  <2> QED
    BY <1>3, <2>1, TypeFacts, OpenAbove DEF TypeInv
<1>6. at' \in {1, nodes[Outer].parent} /\ Open(nodes, at')
  BY <1>5 DEF EndIf, EndFor, EndFunction, EndStruct, Root
<1>7. region' \subseteq 1 .. blocks
  <2>1. region' \in {{}, region, nodes[Outer].region}
    BY Zenon DEF EndIf, EndFor, EndFunction, EndStruct
  <2> QED
    BY <1>2, <2>1, TypeFacts DEF TypeInv, RegionsInv
<1>8. TypeOK'
  BY <1>1, <1>6, <1>7 DEF TypeInv, TypeOK, Open
<1>9. CallShape' /\ RegionsInv'
  BY <1>1 DEF TypeInv, CallShape, NoCall, RegionsInv
<1> QED
  BY <1>1, <1>6, <1>8, <1>9 DEF TypeInv

LEMMA TypeElse ==
  ASSUME TypeInv, Else
  PROVE  TypeInv'
<1>1. /\ Here = "body" /\ nodes[Outer].kind = "if" /\ look = NoCall
      /\ nodes' = Append(nodes, Node("else", NoName, Outer)) /\ at' = Next1
      /\ region' = nodes[Outer].region \cup {NewBlock} /\ blocks' = NewBlock
      /\ UNCHANGED <<look, status>>
  BY DEF Else
<1>2. at # 1 /\ Outer \in 1 .. Len(nodes) /\ Outer \in nodes[at].above
  BY <1>1, TypeFacts
<1>3. Open(nodes, Outer)
  BY <1>2, TypeFacts, OpenAbove DEF TypeInv
<1>4. /\ nodes' \in Seq(NodeType) /\ Len(nodes') = Next1
      /\ Tree(nodes') /\ Shape(nodes') /\ Open(nodes', Next1) /\ RegionsInv'
  <2>1. Fits("else", nodes[Outer].kind) /\ "else" \in Kinds
    BY <1>1 DEF Fits, Kinds
  <2> QED
    BY <1>1, <1>3, <2>1, OneAdded
<1>5. region' \subseteq 1 .. blocks' /\ blocks' \in Nat
  <2>1. NewBlock \in Nat /\ 1 .. blocks \subseteq 1 .. NewBlock /\ NewBlock \in 1 .. NewBlock
    BY TypeFacts DEF NewBlock
  <2> QED
    BY <1>1, <1>2, <2>1 DEF TypeInv, RegionsInv
<1>6. Next1 \in 1 .. Next1 /\ Next1 \in Nat
  BY TypeFacts DEF Next1
<1>7. TypeOK'
  BY <1>1, <1>4, <1>5, <1>6, NoCallType DEF TypeInv, TypeOK, NodeType, CallType
<1>8. CallShape'
  BY <1>1 DEF CallShape, NoCall
<1> QED
  BY <1>1, <1>4, <1>7, <1>8 DEF TypeInv

LEMMA TypeStep == TypeInv /\ [Next]_vars => TypeInv'
<1> SUFFICES ASSUME TypeInv, [Next]_vars PROVE TypeInv'
  OBVIOUS
<1>1. CASE FindNamedValue
  BY <1>1, TypeSearch
<1>2. CASE Resumes \/ Stops
  BY <1>2, TypeResume
<1>3. CASE Statement
  <2>1. ASSUME NEW x \in Names, Use(x) \/ Declaration(x) PROVE TypeInv'
    BY <2>1, TypeStatement
  <2>2. ASSUME NEW x \in Names, NEW y \in Names \cup {NoName}, Assignment(x, y) \/ For(x, y)
        PROVE  TypeInv'
    <3>1. CASE y \in Names
      BY <2>2, <3>1, TypeNested
    <3>2. CASE y = NoName
      <4>1. CASE Assignment(x, NoName)
        BY <4>1, TypeStatement
      <4>2. CASE For(x, NoName)
        BY <4>2, TypeEnter
      <4> QED
        BY <2>2, <3>2, <4>1, <4>2
    <3> QED
      BY <3>1, <3>2
  <2>3. CASE If
    BY <2>3, TypeEnter
  <2> QED
    BY <1>3, <2>1, <2>2, <2>3 DEF Statement
<1>4. CASE Declare \/ StoreToNew
  BY <1>4, TypeDeclare
<1>5. CASE LoadRight
  BY <1>5, TypeLoadRight
<1>6. CASE LoadLimit
  BY <1>6, TypeLoadLimit
<1>7. CASE (\E as \in SUBSET Names : \E ps \in SUBSET as : Function(as, ps)) \/ Struct
  BY <1>7, TypeEnter
<1>8. CASE Close
  BY <1>2, <1>8, TypeClose, TypeElse DEF Close, Stops
<1>9. CASE UNCHANGED vars
  BY <1>9 DEF TypeInv, TypeOK, RegionsInv, CallShape, InBody, Here, Direct, Nested, User, vars
<1> QED
  BY <1>1, <1>2, <1>3, <1>4, <1>5, <1>6, <1>7, <1>8, <1>9 DEF Next, Answer, Resumes, Stops

LEMMA TypeAlways == Spec => []TypeInv
  BY TypeInit, TypeStep, PTL DEF Spec

(***************************************************************************)
(* The nodes, the search and the blocks keep their types in every program  *)
(* over any names: generateOutputCode never leaves the tree.               *)
(***************************************************************************)
THEOREM ScopesTypeOK == Spec => []TypeOK
<1>1. TypeInv => TypeOK
  BY DEF TypeInv
<1> QED
  BY <1>1, TypeAlways, PTL

-----------------------------------------------------------------------------
(***************************************************************************)
(* The search                                                              *)
(***************************************************************************)
\* Every visible variable is still to be looked at.
Ahead ==
  /\ look.child \in nodes[look.use].above \cup {look.use}
  /\ look.child \in 2 .. Len(nodes)
  /\ nodes[look.child].parent = look.node
  /\ \A m \in Visible(look.name, look.use) :
       \/ m \in nodes[look.node].above \cup {look.node}
       \/ /\ m < look.child
          /\ nodes[m].parent \in (nodes[look.node].above \cup {look.node}) \ {Root}

SearchInv ==
  look.for # "none" => IF look.returned THEN NearestIsFound ELSE Ahead

\* What a search that goes on knows of its place, and of a visible variable there.
LEMMA SearchFacts ==
  ASSUME TypeInv, SearchInv, Calling
  PROVE  /\ Ahead /\ look.result = 0 /\ look.use \in 2 .. Len(nodes)
         /\ look.node \in nodes[look.use].above /\ look.node \in 1 .. Len(nodes)
         /\ nodes[look.child].above = nodes[look.node].above \cup {look.node}
         /\ nodes[look.node].above \subseteq nodes[look.use].above
         /\ look.child <= look.use
         /\ \A m \in Visible(look.name, look.use) :
              \/ m \in nodes[look.node].above \cup {look.node} /\ Holder(m, look.use) = m
              \/ /\ m < look.child /\ m \in 2 .. Len(nodes)
                 /\ nodes[m].parent \in (nodes[look.node].above \cup {look.node}) \ {Root}
                 /\ m \notin nodes[look.use].above
                 /\ Holder(m, look.use) = nodes[m].parent
<1>1. Ahead /\ look.result = 0 /\ look.use \in 2 .. Len(nodes) /\ look.node \in 1 .. Len(nodes)
  BY DEF SearchInv, Calling, TypeInv, CallShape
<1>2. nodes[look.child].above = nodes[look.node].above \cup {look.node}
  BY <1>1 DEF Ahead, TypeInv, Tree
<1>3. look.node \in nodes[look.child].above /\ look.child \in 1 .. Len(nodes)
  BY <1>1, <1>2 DEF Ahead
<1>4. nodes[look.child].above \subseteq nodes[look.use].above
  BY <1>1, <1>3 DEF Ahead, TypeInv, Tree
<1>5. look.child <= look.use
  <2>1. nodes[look.use].above \subseteq 1 .. look.use - 1
    BY <1>1 DEF TypeInv, Tree
  <2> QED
    BY <1>1, <2>1 DEF Ahead
<1>6. ASSUME NEW m \in Visible(look.name, look.use)
      PROVE  \/ m \in nodes[look.node].above \cup {look.node} /\ Holder(m, look.use) = m
             \/ /\ m < look.child /\ m \in 2 .. Len(nodes)
                /\ nodes[m].parent \in (nodes[look.node].above \cup {look.node}) \ {Root}
                /\ m \notin nodes[look.use].above
                /\ Holder(m, look.use) = nodes[m].parent
  <2>1. CASE m \in nodes[look.node].above \cup {look.node}
    BY <1>2, <1>4, <2>1 DEF Holder
  <2>2. CASE m \notin nodes[look.node].above \cup {look.node}
    <3>1. /\ m < look.child /\ m \in 1 .. Len(nodes)
          /\ nodes[m].parent \in (nodes[look.node].above \cup {look.node}) \ {Root}
      BY <1>1, <2>2 DEF Ahead, Visible
    <3>2. m \notin nodes[look.use].above
      <4>1. SUFFICES ASSUME m \in nodes[look.use].above PROVE FALSE
        OBVIOUS
      <4>2. m \in nodes[look.child].above
        BY <1>1, <3>1, <4>1, TypeFacts, Chain DEF Ahead, TypeInv
      <4> QED
        BY <1>2, <2>2, <4>2
    <3>3. m # 1
      BY <1>1, <3>2 DEF TypeInv, Tree
    <3> QED
      BY <3>1, <3>2, <3>3 DEF Holder
  <2> QED
    BY <2>1, <2>2
<1> QED
  BY <1>1, <1>2, <1>3, <1>4, <1>5, <1>6

LEMMA SearchSelf ==
  ASSUME TypeInv, SearchInv, FindInSelf
  PROVE  SearchInv'
<1>1. Calling /\ Has(look.node, look.name) /\ UNCHANGED nodes
  BY DEF FindInSelf
<1>2. /\ look'.returned /\ look'.result = look.node /\ look'.name = look.name
      /\ look'.use = look.use
  BY TypeOKParts DEF FindInSelf, CallType, TypeInv
<1>3. /\ look.node \in nodes[look.use].above /\ look.node \in 1 .. Len(nodes)
      /\ look.use \in 2 .. Len(nodes)
  BY <1>1, SearchFacts
<1>4. look.node \in Visible(look.name, look.use) /\ Holder(look.node, look.use) = look.node
  BY <1>1, <1>3 DEF Visible, Holder
<1>5. ASSUME NEW m \in Visible(look.name, look.use)
      PROVE  LET other == Holder(m, look.use)
             IN  InnerTo(look.node, other) /\ (other = look.node => look.node <= m)
  <2>1. CASE m \in nodes[look.node].above \cup {look.node} /\ Holder(m, look.use) = m
    BY <1>3, <2>1 DEF InnerTo
  <2>2. CASE /\ m \in 2 .. Len(nodes) /\ Holder(m, look.use) = nodes[m].parent
             /\ nodes[m].parent \in nodes[look.node].above \cup {look.node}
    <3>1. nodes[m].parent \in 1 .. m - 1
      BY <2>2 DEF TypeInv, Tree
    <3> QED
      BY <2>2, <3>1 DEF InnerTo
  <2> QED
    BY <1>1, <2>1, <2>2, SearchFacts
<1>6. NearestIsFound'
  BY <1>1, <1>2, <1>3, <1>4, <1>5
     DEF NearestIsFound, Visible, Holder, InnerTo, Has
<1> QED
  BY <1>2, <1>6 DEF SearchInv

LEMMA SearchChildren ==
  ASSUME TypeInv, SearchInv, FindAmongChildren
  PROVE  SearchInv'
<1>1. PICK c \in Siblings : /\ \A d \in Siblings : c <= d
                            /\ look' = [look EXCEPT !.returned = TRUE, !.result = c]
  BY DEF FindAmongChildren
<1>2. Calling /\ ~Has(look.node, look.name) /\ look.node # Root /\ UNCHANGED nodes
  BY DEF FindAmongChildren
<1>3. /\ look'.returned /\ look'.result = c /\ look'.name = look.name /\ look'.use = look.use
  BY <1>1, TypeOKParts DEF CallType, TypeInv
<1>4. /\ c \in 1 .. Len(nodes) /\ nodes[c].parent = look.node /\ c < look.child
      /\ Has(c, look.name)
  BY <1>1 DEF Siblings
<1>5. c \in 2 .. Len(nodes) /\ look.node < c
  <2>1. look.node \in 1 .. Len(nodes)
    BY <1>2, SearchFacts
  <2>2. c # 1
    BY <1>4, <2>1 DEF TypeInv, Tree
  <2> QED
    BY <1>4, <2>2 DEF TypeInv, Tree
<1>6. /\ look.node \in nodes[look.use].above /\ look.child <= look.use
      /\ look.use \in 2 .. Len(nodes) /\ look.node \in 1 .. Len(nodes)
      /\ look.child \in 2 .. Len(nodes)
  BY <1>2, SearchFacts DEF Ahead
<1>7. c \in Visible(look.name, look.use)
  BY <1>2, <1>4, <1>6 DEF Visible
<1>8. Holder(c, look.use) = look.node
  <2>1. nodes[look.node].above \subseteq 1 .. look.node - 1
    BY <1>6 DEF TypeInv, Tree
  <2>2. c \notin nodes[look.node].above \cup {look.node}
    BY <1>5, <1>6, <2>1
  <2> QED
    BY <1>2, <1>4, <1>7, <2>2, SearchFacts
<1>9. ASSUME NEW m \in Visible(look.name, look.use)
      PROVE  LET other == Holder(m, look.use)
             IN  InnerTo(look.node, other) /\ (other = look.node => c <= m)
  <2>1. CASE m \in nodes[look.node].above \cup {look.node} /\ Holder(m, look.use) = m
    <3>1. m # look.node
      BY <1>2 DEF Visible
    <3> QED
      BY <2>1, <3>1 DEF InnerTo
  <2>2. CASE /\ m < look.child /\ m \in 2 .. Len(nodes) /\ Holder(m, look.use) = nodes[m].parent
             /\ nodes[m].parent \in nodes[look.node].above \cup {look.node}
    <3>1. nodes[m].parent = look.node => m \in Siblings
      BY <2>2 DEF Siblings, Visible
    <3> QED
      BY <1>1, <2>2, <3>1 DEF InnerTo
  <2> QED
    BY <1>2, <2>1, <2>2, SearchFacts
<1>10. NearestIsFound'
  BY <1>2, <1>3, <1>5, <1>7, <1>8, <1>9
     DEF NearestIsFound, Visible, Holder, InnerTo, Has
<1> QED
  BY <1>3, <1>10 DEF SearchInv

LEMMA SearchParent ==
  ASSUME TypeInv, SearchInv, FindInParent
  PROVE  SearchInv'
<1> DEFINE p == nodes[look.node].parent
<1>1. Calling /\ ~Has(look.node, look.name) /\ look.node # Root /\ Siblings = {}
      /\ UNCHANGED nodes
  BY DEF FindInParent
<1>2. /\ look'.node = p /\ look'.child = look.node /\ look'.returned = look.returned
      /\ look'.name = look.name /\ look'.use = look.use
  BY TypeOKParts DEF CallType, TypeInv, FindInParent
<1>3. /\ look.node \in nodes[look.use].above /\ look.node \in 2 .. Len(nodes)
      /\ look.use \in 2 .. Len(nodes)
      /\ look.child \in 2 .. Len(nodes)
      /\ look.node \in nodes[look.child].above
  BY <1>1, SearchFacts DEF Root, Ahead
<1>4. nodes[look.node].above = nodes[p].above \cup {p}
  BY <1>3 DEF TypeInv, Tree
<1>5. ASSUME NEW m \in Visible(look.name, look.use)
      PROVE  \/ m \in nodes[p].above \cup {p}
             \/ m < look.node /\ nodes[m].parent \in (nodes[p].above \cup {p}) \ {Root}
  <2>1. m # look.node
    BY <1>1 DEF Visible
  <2>2. CASE m \in nodes[look.node].above \cup {look.node}
    BY <1>4, <2>1, <2>2
  <2>3. CASE /\ m < look.child /\ m \in 2 .. Len(nodes)
             /\ nodes[m].parent \in (nodes[look.node].above \cup {look.node}) \ {Root}
    <3>1. nodes[m].parent # look.node
      BY <1>1, <2>3 DEF Siblings, Visible
    <3>2. nodes[m].parent \in nodes[look.node].above
      BY <2>3, <3>1
    <3>3. m < look.node
      <4>1. SUFFICES ASSUME look.node < m PROVE FALSE
        BY <1>3, <2>1, <2>3
      <4>2. look.node \in nodes[m].above
        BY <1>3, <2>3, <4>1 DEF TypeInv, Tree
      <4>3. look.node \in nodes[nodes[m].parent].above
        BY <2>3, <3>1, <4>2 DEF TypeInv, Tree
      <4>4. nodes[m].parent \in 1 .. look.node - 1
        BY <1>3, <3>2 DEF TypeInv, Tree
      <4>5. nodes[m].parent \in 1 .. Len(nodes)
        BY <1>3, <4>4
      <4>6. nodes[nodes[m].parent].above \subseteq 1 .. nodes[m].parent - 1
        BY <4>5 DEF TypeInv, Tree
      <4> QED
        BY <1>3, <4>3, <4>4, <4>6
    <3> QED
      BY <1>4, <2>3, <3>2, <3>3
  <2> QED
    BY <1>1, <2>2, <2>3, SearchFacts
<1>6. Ahead'
  BY <1>1, <1>2, <1>3, <1>5 DEF Ahead, Visible, Has
<1> QED
  BY <1>1, <1>2, <1>6 DEF SearchInv, Calling

LEMMA SearchNothing ==
  ASSUME TypeInv, SearchInv, FindNothing
  PROVE  SearchInv'
<1>1. Calling /\ ~Has(look.node, look.name) /\ look.node = 1 /\ UNCHANGED nodes
  BY DEF FindNothing, Root
<1>2. /\ look'.returned /\ look'.result = 0 /\ look'.name = look.name /\ look'.use = look.use
  BY <1>1, TypeOKParts, SearchFacts DEF CallType, TypeInv, FindNothing
<1>3. nodes[1].above = {}
  BY DEF TypeInv, Tree
<1>4. Visible(look.name, look.use) = {}
  <2> SUFFICES ASSUME NEW m \in Visible(look.name, look.use) PROVE FALSE
    OBVIOUS
  <2>1. m # 1
    BY <1>1 DEF Visible
  <2> QED
    BY <1>1, <1>3, <2>1, SearchFacts DEF Root
<1>5. NearestIsFound'
  BY <1>1, <1>2, <1>4 DEF NearestIsFound, Visible, Has
<1> QED
  BY <1>2, <1>5 DEF SearchInv

\* At first all that is visible is ahead.
LEMMA SearchStarts ==
  ASSUME TypeInv', NEW f, NEW x, NEW u, NEW p, look' = Find(f, x, u, p), f # "none",
         nodes'[u].parent = p
  PROVE  SearchInv'
<1>1. /\ look'.use = u /\ look'.child = u /\ look'.node = p /\ look'.name = x
      /\ ~look'.returned /\ look'.for = f
  BY DEF Find
<1>2. u \in 2 .. Len(nodes')
  BY <1>1 DEF TypeInv, CallShape
<1>3. nodes'[u].above = nodes'[p].above \cup {p}
  BY <1>2 DEF TypeInv, Tree
<1>4. Ahead'
  BY <1>1, <1>2, <1>3 DEF Ahead, Visible
<1> QED
  BY <1>1, <1>4 DEF SearchInv

LEMMA SearchStep == TypeInv /\ TypeInv' /\ SearchInv /\ [Next]_vars => SearchInv'
<1> SUFFICES ASSUME TypeInv, TypeInv', SearchInv, [Next]_vars PROVE SearchInv'
  OBVIOUS
<1>1. CASE FindNamedValue
  BY <1>1, SearchSelf, SearchChildren, SearchParent, SearchNothing DEF FindNamedValue
<1>2. CASE look' = NoCall
  BY <1>2 DEF NoCall, SearchInv
<1>3. CASE UNCHANGED <<look, nodes>>
  BY <1>3 DEF SearchInv, NearestIsFound, Ahead, Visible, Holder, InnerTo, Has, Returned
<1>4. ASSUME NEW x \in Names, Use(x) \/ Declaration(x) PROVE SearchInv'
  <2>1. PICK k \in {"use", "declaration"}, y \in Names \cup {NoName} :
          nodes' = Append(nodes, Node(k, y, at)) /\ look' = Find(k, x, Next1, at)
    BY <1>4 DEF Use, Declaration
  <2>2. nodes'[Next1].parent = at
    BY <2>1, TypeFacts DEF Node, Next1
  <2> QED
    BY <2>1, <2>2, SearchStarts
<1>5. ASSUME NEW x \in Names, NEW y \in Names \cup {NoName}, Assignment(x, y) \/ For(x, y)
      PROVE  SearchInv'
  <2>1. CASE y = NoName /\ Assignment(x, y)
    <3>1. /\ nodes' = Append(nodes, Node("assignment", x, at))
          /\ look' = Find("target", x, Next1, at)
      BY <2>1 DEF Assignment
    <3>2. nodes'[Next1].parent = at
      BY <3>1, TypeFacts DEF Node, Next1
    <3> QED
      BY <3>1, <3>2, SearchStarts
  <2>2. CASE y = NoName /\ For(x, y)
    BY <1>2, <2>2 DEF For, ReadyFor
  <2>3. CASE y # NoName
    <3>1. PICK k \in {"assignment", "for"} :
            /\ nodes' = nodes \o <<Node(k, x, at), Child("use", Node(k, x, at))>>
            /\ look' = Find("use", y, Next2, Next1)
      BY <1>5, <2>3 DEF Assignment, For
    <3> DEFINE e == Node(k, x, at)
               f == Child("use", e)
    <3>2. nodes' = nodes \o <<e, f>> /\ f.parent = Next1
      BY <3>1 DEF Child, Next1
    <3> HIDE DEF e, f
    <3>3. nodes'[Next2].parent = Next1
      BY <3>2, TypeFacts DEF Next2
    <3> QED
      BY <3>1, <3>3, SearchStarts
  <2> QED
    BY <1>5, <2>1, <2>2, <2>3
<1>6. CASE If \/ Struct \/ Close \/ (\E as \in SUBSET Names : \E ps \in SUBSET as : Function(as, ps))
  <2>1. look = NoCall /\ look' = look
    BY <1>6 DEF If, Struct, Close, Function, Else, EndIf, EndFor, EndFunction, EndStruct, Finish,
                ReadyFor
  <2> QED
    BY <1>2, <2>1
<1>7. CASE LoadRight
  <2>1. look' = Find("target", nodes[User].name, User, nodes[User].parent) /\ UNCHANGED nodes
    BY <1>7 DEF LoadRight
  <2> QED
    BY <2>1, SearchStarts
<1>8. CASE Answer /\ ~LoadRight
  BY <1>2, <1>3, <1>8
     DEF Answer, UndefinedVariable, LoadFromArgument, Load, Declare, AlreadyDeclared, Store,
         StoreToNew, LoadLimit
<1>9. CASE Stopped \/ UNCHANGED vars
  BY <1>3, <1>9 DEF Stopped, vars
<1> QED
  BY <1>1, <1>4, <1>5, <1>6, <1>7, <1>8, <1>9 DEF Next, Statement

LEMMA SearchAlways == Spec => []SearchInv
<1>1. Init => SearchInv
  BY DEF Init, SearchInv, NoCall
<1> QED
  BY <1>1, SearchStep, TypeAlways, PTL DEF Spec

(***************************************************************************)
(* findNamedValue returns a variable that no visible one is inside of, and *)
(* nullptr only where none is visible, in every program over any names.    *)
(***************************************************************************)
THEOREM ScopesNearestIsFound == Spec => []NearestIsFound
<1>1. SearchInv => NearestIsFound
  BY DEF SearchInv, NearestIsFound, Returned
<1> QED
  BY <1>1, SearchAlways, PTL

-----------------------------------------------------------------------------
(***************************************************************************)
(* The function that a variable is of                                      *)
(***************************************************************************)
\* No function is between a node that may hold variables of its own and those below.
LEMMA SameFunctions ==
  ASSUME TypeInv, NEW u \in 1 .. Len(nodes), nodes[u].kind # "function",
         NEW a \in nodes[u].above, nodes[a].kind \notin Outermost
  PROVE  FunctionsOf(a) = FunctionsOf(u)
<1>1. /\ nodes[u].above \subseteq 1 .. u - 1 /\ a \in 1 .. Len(nodes)
      /\ nodes[a].above \subseteq nodes[u].above
  <2>1. nodes[u].above \subseteq 1 .. u - 1
    BY DEF TypeInv, Tree
  <2> QED
    BY <2>1 DEF TypeInv, Tree
<1>2. ASSUME NEW f \in nodes[u].above, nodes[f].kind = "function"
      PROVE  f \in nodes[a].above \cup {a}
  <2>1. f \in 1 .. Len(nodes)
    BY <1>1, <1>2
  <2>2. CASE a < f
    <3>1. a \in nodes[f].above
      BY <1>2, <2>2, TypeFacts, Chain DEF TypeInv
    <3>2. nodes[a].kind \in Outermost
      BY <1>2, <2>1, <3>1 DEF TypeInv, Shape
    <3> QED
      BY <3>2
  <2>3. CASE f < a
    BY <1>2, <2>3, TypeFacts, Chain DEF TypeInv
  <2> QED
    BY <1>1, <2>1, <2>2, <2>3
<1> QED
  BY <1>1, <1>2 DEF FunctionsOf

\* A node that is no function is in the functions that its parent is in.
LEMMA ParentFunctions ==
  ASSUME TypeInv, NEW n \in 2 .. Len(nodes), nodes[n].kind # "function"
  PROVE  FunctionsOf(n) = FunctionsOf(nodes[n].parent)
  BY DEF FunctionsOf, TypeInv, Tree

\* A node with variables that is no function is in a body.
LEMMA HolderParent ==
  ASSUME TypeInv, NEW n \in 1 .. Len(nodes), NEW x \in Names, Has(n, x)
  PROVE  /\ nodes[n].kind \in Holders /\ n \in 2 .. Len(nodes)
         /\ \/ nodes[n].kind = "function" /\ nodes[nodes[n].parent].kind \in {"root", "members"}
            \/ nodes[n].kind # "function" /\ nodes[nodes[n].parent].kind \in {"body", "else"}
<1>1. nodes[n].kind \in Holders
  BY DEF TypeInv, Shape, ValuesFit, Has
<1>2. n \in 2 .. Len(nodes)
  <2>1. n # 1
    BY <1>1 DEF TypeInv, Shape, Holders
  <2> QED
    BY <2>1
<1>3. Fits(nodes[n].kind, nodes[nodes[n].parent].kind)
  BY <1>2 DEF TypeInv, Shape
<1> QED
  BY <1>1, <1>2, <1>3 DEF Fits, Holders

LEMMA UserKind ==
  ASSUME TypeInv, look.for # "none"
  PROVE  look.use \in 2 .. Len(nodes) /\ nodes[look.use].kind \in {"use", "declaration", "assignment"}
<1>1. look.for \in {"use", "declaration", "target"}
  BY TypeOKParts DEF TypeInv, CallType
<1> QED
  BY <1>1 DEF TypeInv, CallShape, Direct, Nested

LEMMA Stays == TypeInv /\ NearestIsFound => StaysInFunction
<1> SUFFICES ASSUME TypeInv, NearestIsFound, Returned, look.result # 0
             PROVE  \/ FunctionsOf(look.result) = FunctionsOf(look.use)
                    \/ /\ nodes[look.result].kind = "function"
                       /\ nodes[nodes[look.result].parent].kind = "members"
                       /\ nodes[look.result].parent \in nodes[look.use].above
  BY DEF StaysInFunction
<1> DEFINE r == look.result
           u == look.use
           p == nodes[r].parent
<1>1. u \in 2 .. Len(nodes) /\ nodes[u].kind # "function" /\ look.name \in Names
  BY UserKind DEF Returned, TypeInv, CallShape
<1>2. /\ r \in 1 .. Len(nodes) /\ Has(r, look.name)
      /\ r \in nodes[u].above \/ p \in nodes[u].above \ {1}
  BY DEF NearestIsFound, Visible, Root
<1>3. /\ nodes[r].kind \in Holders /\ r \in 2 .. Len(nodes)
      /\ \/ nodes[r].kind = "function" /\ nodes[p].kind \in {"root", "members"}
         \/ nodes[r].kind # "function" /\ nodes[p].kind \in {"body", "else"}
  BY <1>1, <1>2, HolderParent
<1>4. CASE r \in nodes[u].above
  BY <1>1, <1>3, <1>4, SameFunctions DEF Holders, Outermost
<1>5. CASE p \in nodes[u].above \ {1} /\ nodes[r].kind # "function"
  <2>1. FunctionsOf(p) = FunctionsOf(u)
    BY <1>1, <1>3, <1>5, SameFunctions DEF Outermost
  <2>2. FunctionsOf(r) = FunctionsOf(p)
    BY <1>3, <1>5, ParentFunctions
  <2> QED
    BY <2>1, <2>2
<1>6. CASE p \in nodes[u].above \ {1} /\ nodes[r].kind = "function"
  <2>1. p \in 2 .. Len(nodes)
    BY <1>3, <1>6, TypeFacts DEF TypeInv, Tree
  <2>2. nodes[p].kind # "root"
    BY <2>1 DEF TypeInv, Shape, Fits
  <2> QED
    BY <1>3, <1>6, <2>2
<1> QED
  BY <1>2, <1>3, <1>4, <1>5, <1>6

(***************************************************************************)
(* In every program a name is bound to a variable of its function, or to   *)
(* an argument of an earlier method of its struct: never to one of another *)
(* function of the module.                                                 *)
(***************************************************************************)
THEOREM ScopesStaysInFunction == Spec => []StaysInFunction
  BY Stays, TypeAlways, ScopesNearestIsFound, PTL

-----------------------------------------------------------------------------
(***************************************************************************)
(* The blocks in which variables are stored to                             *)
(***************************************************************************)
Fns(s, n) == {f \in s[n].above \cup {n} : s[f].kind = "function"}

SeenIn(s, A, m) == m \in A \/ s[m].parent \in A \ {1}

\* What is seen from A, and is of the functions f, has been stored to in r.
Kept(s, A, f, r) ==
  \A m \in 1 .. Len(s), x \in Names :
    s[m].namedValues[x] # NoValue /\ SeenIn(s, A, m) /\ Fns(s, m) = f
      => s[m].namedValues[x].stored \subseteq r

\* At the end of the body, and at the beginning of each if and for that it is in.
StoredInv ==
  /\ InBody => Kept(nodes, nodes[at].above \cup {at}, Fns(nodes, at), region)
  /\ \A n \in nodes[at].above :
       nodes[n].kind \in {"if", "for"} =>
         Kept(nodes, nodes[n].above, Fns(nodes, n), nodes[n].region)

Grown(s, t) ==
  /\ Len(s) \in Nat /\ Len(t) \in Nat /\ Len(s) <= Len(t)
  /\ \A n \in 1 .. Len(s) : /\ t[n].kind = s[n].kind /\ t[n].above = s[n].above
                            /\ t[n].parent = s[n].parent /\ t[n].region = s[n].region

LEMMA GrownFns ==
  ASSUME NEW s, NEW t, Tree(s), Grown(s, t), NEW n \in 1 .. Len(s)
  PROVE  Fns(t, n) = Fns(s, n)
<1>1. s[n].above \subseteq 1 .. Len(s)
  BY DEF Tree, Grown
<1> QED
  BY <1>1 DEF Fns, Grown

LEMMA ParentFns ==
  ASSUME NEW s, Tree(s), NEW n \in 2 .. Len(s), s[n].kind # "function"
  PROVE  Fns(s, n) = Fns(s, s[n].parent)
  BY DEF Fns, Tree

\* A variable is of a function, or in a body.
LEMMA Holding ==
  ASSUME NEW s, Len(s) \in Nat, Shape(s), NEW m \in 1 .. Len(s), NEW x \in Names,
         s[m].namedValues[x] # NoValue
  PROVE  /\ m \in 2 .. Len(s) /\ s[m].kind \in Holders
         /\ s[s[m].parent].kind \in {"root", "members", "body", "else"}
<1>1. s[m].kind \in Holders
  BY DEF Shape, ValuesFit
<1>2. m # 1
  BY <1>1 DEF Shape, Holders
<1>3. Fits(s[m].kind, s[s[m].parent].kind)
  BY <1>2 DEF Shape
<1> QED
  BY <1>1, <1>2, <1>3 DEF Fits, Holders

\* What is kept stays so, if what is new is of the blocks, or is not seen.
LEMMA KeptGrown ==
  ASSUME NEW s, NEW t, Tree(s), Grown(s, t), NEW A, NEW B, NEW f, NEW r, NEW q,
         Kept(s, A, f, r), r \subseteq q,
         \A m \in 1 .. Len(t), x \in Names :
           t[m].namedValues[x] # NoValue /\ SeenIn(t, B, m) /\ Fns(t, m) = f =>
             \/ t[m].namedValues[x].stored \subseteq q
             \/ /\ m \in 1 .. Len(s) /\ SeenIn(s, A, m)
                /\ t[m].namedValues[x] = s[m].namedValues[x]
  PROVE  Kept(t, B, f, q)
<1> SUFFICES ASSUME NEW m \in 1 .. Len(t), NEW x \in Names,
                    t[m].namedValues[x] # NoValue, SeenIn(t, B, m), Fns(t, m) = f
             PROVE  t[m].namedValues[x].stored \subseteq q
  BY DEF Kept
<1>1. CASE t[m].namedValues[x].stored \subseteq q
  BY <1>1
<1>2. CASE /\ m \in 1 .. Len(s) /\ SeenIn(s, A, m)
           /\ t[m].namedValues[x] = s[m].namedValues[x]
  <2>1. Fns(s, m) = f
    BY <1>2, GrownFns
  <2>2. s[m].namedValues[x].stored \subseteq r
    BY <1>2, <2>1 DEF Kept
  <2> QED
    BY <1>2, <2>2
<1> QED
  BY <1>1, <1>2

\* A step in a body: what is new is a child of it, and stored to here.
LEMMA StoredStay ==
  ASSUME TypeInv, StoredInv, Grown(nodes, nodes'), UNCHANGED <<at, region>>,
         \A m \in 1 .. Len(nodes'), x \in Names : nodes'[m].namedValues[x] # NoValue =>
           \/ m \in 1 .. Len(nodes) /\ nodes'[m].namedValues[x] = nodes[m].namedValues[x]
           \/ /\ m \in 1 .. Len(nodes) /\ nodes[m].parent = at /\ at < m
              /\ nodes'[m].namedValues[x].stored \subseteq region
  PROVE  StoredInv'
<1>1. Tree(nodes) /\ at \in 1 .. Len(nodes) /\ Len(nodes) \in Nat
  BY TypeFacts DEF TypeInv
<1>2. nodes'[at].above = nodes[at].above /\ nodes'[at].kind = nodes[at].kind
  BY <1>1 DEF Grown
<1>3. ASSUME InBody PROVE Kept(nodes', nodes[at].above \cup {at}, Fns(nodes, at), region)
  <2>1. Kept(nodes, nodes[at].above \cup {at}, Fns(nodes, at), region)
    BY <1>3 DEF StoredInv
  <2>2. \A m \in 1 .. Len(nodes) :
          SeenIn(nodes', nodes[at].above \cup {at}, m) => SeenIn(nodes, nodes[at].above \cup {at}, m)
    BY DEF SeenIn, Grown
  <2>3. \A m \in 1 .. Len(nodes'), x \in Names :
          nodes'[m].namedValues[x] # NoValue /\ SeenIn(nodes', nodes[at].above \cup {at}, m) =>
            \/ nodes'[m].namedValues[x].stored \subseteq region
            \/ /\ m \in 1 .. Len(nodes) /\ SeenIn(nodes, nodes[at].above \cup {at}, m)
               /\ nodes'[m].namedValues[x] = nodes[m].namedValues[x]
    BY <2>2
  <2> DEFINE A == nodes[at].above \cup {at}
             f == Fns(nodes, at)
  <2>4. Kept(nodes, A, f, region)
    BY <2>1
  <2>5. \A m \in 1 .. Len(nodes'), x \in Names :
          nodes'[m].namedValues[x] # NoValue /\ SeenIn(nodes', A, m) =>
            \/ nodes'[m].namedValues[x].stored \subseteq region
            \/ /\ m \in 1 .. Len(nodes) /\ SeenIn(nodes, A, m)
               /\ nodes'[m].namedValues[x] = nodes[m].namedValues[x]
    BY <2>3
  <2> HIDE DEF A, f
  <2>6. Kept(nodes', A, f, region)
    BY <1>1, <2>4, <2>5, KeptGrown
  <2> QED
    BY <2>6 DEF A, f
<1>4. ASSUME NEW n \in nodes[at].above, nodes[n].kind \in {"if", "for"}
      PROVE  Kept(nodes', nodes[n].above, Fns(nodes, n), nodes[n].region)
  <2>1. Kept(nodes, nodes[n].above, Fns(nodes, n), nodes[n].region)
    BY <1>4 DEF StoredInv
  <2>2. n \in 1 .. at - 1 /\ nodes[n].above \subseteq 1 .. n - 1
    BY <1>1 DEF Tree
  <2>3. \A m \in 1 .. Len(nodes) :
          SeenIn(nodes', nodes[n].above, m) => SeenIn(nodes, nodes[n].above, m)
    BY DEF SeenIn, Grown
  <2>4. \A m \in 1 .. Len(nodes) :
          nodes[m].parent = at /\ at < m => ~SeenIn(nodes, nodes[n].above, m)
    BY <1>1, <2>2 DEF SeenIn
  <2>5. \A m \in 1 .. Len(nodes'), x \in Names :
          nodes'[m].namedValues[x] # NoValue /\ SeenIn(nodes', nodes[n].above, m) =>
            /\ m \in 1 .. Len(nodes) /\ SeenIn(nodes, nodes[n].above, m)
            /\ nodes'[m].namedValues[x] = nodes[m].namedValues[x]
    BY <2>3, <2>4
  <2> QED
    BY <1>1, <2>1, <2>5, KeptGrown
<1>5. \A n \in nodes[at].above \cup {at} :
        /\ Fns(nodes', n) = Fns(nodes, n) /\ nodes'[n].above = nodes[n].above
        /\ nodes'[n].region = nodes[n].region /\ nodes'[n].kind = nodes[n].kind
  <2>1. nodes[at].above \cup {at} \subseteq 1 .. Len(nodes)
    BY <1>1 DEF Tree
  <2> QED
    BY <1>1, <2>1, GrownFns DEF Grown
<1>6. InBody' => InBody
  BY <1>2 DEF InBody, Here
<1> QED
  BY <1>2, <1>3, <1>4, <1>5, <1>6 DEF StoredInv

\* A node from which as much is seen as from its parent.
LEMMA StoredStatement ==
  ASSUME TypeInv, StoredInv, UNCHANGED <<at, region>>, nodes' \in Seq(NodeType),
         Len(nodes') >= Len(nodes),
         \A n \in 1 .. Len(nodes) : nodes'[n] = nodes[n],
         \A n \in 1 .. Len(nodes') : n > Len(nodes) => nodes'[n].namedValues = NoValues
  PROVE  StoredInv'
<1>1. Len(nodes') \in Nat /\ Len(nodes) \in Nat
  BY TypeFacts
<1>2. Grown(nodes, nodes')
  BY <1>1 DEF Grown
<1>3. \A m \in 1 .. Len(nodes'), x \in Names : nodes'[m].namedValues[x] # NoValue =>
        m \in 1 .. Len(nodes) /\ nodes'[m].namedValues[x] = nodes[m].namedValues[x]
  BY <1>1 DEF NoValues
<1> QED
  BY <1>2, <1>3, StoredStay

\* The body of an if or of a for, e, is entered.
LEMMA StoredEnter ==
  ASSUME TypeInv, TypeInv', StoredInv, InBody, Grown(nodes, nodes'),
         NEW e \in 2 .. Len(nodes'), nodes'[e].parent = at, nodes'[e].kind \in {"if", "for"},
         nodes'[e].region = region, at < e, at' = Len(nodes'), nodes'[at'].parent = e,
         nodes'[at'].kind = "body", at' \in 2 .. Len(nodes'), region \subseteq region',
         \A m \in 1 .. Len(nodes'), x \in Names : nodes'[m].namedValues[x] # NoValue =>
           \/ m \in 1 .. Len(nodes) /\ nodes'[m].namedValues[x] = nodes[m].namedValues[x]
           \/ m = e /\ nodes'[m].namedValues[x].stored \subseteq region
  PROVE  StoredInv'
<1> DEFINE A == nodes[at].above \cup {at}
           f == Fns(nodes, at)
           t == nodes'
           d == Len(nodes')
<1>0. /\ Tree(nodes) /\ at \in 1 .. Len(nodes) /\ Len(nodes) \in Nat /\ at # 1
      /\ Tree(t) /\ Shape(t) /\ d \in Nat /\ Here \in {"body", "else"}
  BY TypeFacts DEF TypeInv, InBody, Grown
<1>1. \A n \in 1 .. Len(nodes) :
        /\ Fns(t, n) = Fns(nodes, n) /\ t[n].above = nodes[n].above
        /\ t[n].region = nodes[n].region /\ t[n].kind = nodes[n].kind
        /\ t[n].parent = nodes[n].parent
  <2>1. \A n \in 1 .. Len(nodes) : Fns(t, n) = Fns(nodes, n)
    BY <1>0, GrownFns
  <2> QED
    BY <2>1 DEF Grown
<1>2. t[at].above = nodes[at].above /\ t[at].kind = Here /\ Fns(t, at) = f
  BY <1>0, <1>1 DEF Here
<1>3. t[e].above = A /\ t[d].above = A \cup {e}
  BY <1>0, <1>2 DEF Tree
<1>4. Fns(t, e) = f /\ Fns(t, d) = f
  BY <1>0, <1>2, ParentFns
<1>5. Kept(nodes, A, f, region)
  BY DEF StoredInv
<1> HIDE DEF f
<1>6. ASSUME NEW m \in 1 .. d, NEW x \in Names, t[m].namedValues[x] # NoValue,
             SeenIn(t, A \cup {e, d}, m)
      PROVE  SeenIn(t, A, m)
  <2>1. /\ m \in 2 .. d /\ t[m].kind \in Holders
        /\ t[t[m].parent].kind \in {"root", "members", "body", "else"}
    BY <1>0, <1>6, Holding
  <2>4. t[m].parent \in 1 .. m - 1
    BY <1>0, <2>1 DEF Tree
  <2>5. m # d
    BY <2>1 DEF Holders
  <2>2. t[m].parent # d
    BY <1>0, <2>4
  <2>3. m = e => SeenIn(t, A, m)
    BY <1>0 DEF SeenIn
  <2> QED
    BY <1>6, <2>1, <2>2, <2>3, <2>5 DEF SeenIn
<1>7. ASSUME NEW m \in 1 .. d, NEW x \in Names, t[m].namedValues[x] # NoValue,
             SeenIn(t, A, m)
      PROVE  \/ t[m].namedValues[x].stored \subseteq region
             \/ /\ m \in 1 .. Len(nodes) /\ SeenIn(nodes, A, m)
                /\ t[m].namedValues[x] = nodes[m].namedValues[x]
  BY <1>7 DEF SeenIn, Grown
<1> HIDE DEF A
<1>8. Kept(t, A, f, region)
  BY <1>0, <1>5, <1>7, KeptGrown
<1>9. Kept(t, A \cup {e, d}, f, region')
  BY <1>6, <1>8 DEF Kept
<1>10. ASSUME NEW n \in nodes[at].above, nodes[n].kind \in {"if", "for"}
      PROVE  /\ Kept(t, t[n].above, Fns(t, n), t[n].region)
  <2>1. Kept(nodes, nodes[n].above, Fns(nodes, n), nodes[n].region)
    BY <1>10 DEF StoredInv
  <2>2. n \in 1 .. at - 1 /\ n \in 1 .. Len(nodes) /\ nodes[n].above \subseteq 1 .. n - 1
    BY <1>0 DEF Tree
  <2>3. /\ Fns(t, n) = Fns(nodes, n) /\ t[n].above = nodes[n].above
        /\ t[n].region = nodes[n].region
    BY <1>1, <2>2
  <2>4. \A m \in 1 .. d, x \in Names :
          t[m].namedValues[x] # NoValue /\ SeenIn(t, nodes[n].above, m) =>
            /\ m \in 1 .. Len(nodes) /\ SeenIn(nodes, nodes[n].above, m)
            /\ t[m].namedValues[x] = nodes[m].namedValues[x]
    BY <1>0, <2>2 DEF SeenIn, Grown
  <2>5. Kept(t, nodes[n].above, Fns(nodes, n), nodes[n].region)
    BY <1>0, <2>1, <2>4, KeptGrown
  <2> QED
    BY <2>3, <2>5
<1>11. \A n \in nodes[at].above : n \in 1 .. Len(nodes) /\ t[n].kind = nodes[n].kind
  <2>1. nodes[at].above \subseteq 1 .. Len(nodes)
    BY <1>0 DEF Tree
  <2> QED
    BY <1>1, <2>1
<1>12. ASSUME NEW n \in t[d].above, t[n].kind \in {"if", "for"}
       PROVE  Kept(t, t[n].above, Fns(t, n), t[n].region)
  <2>1. CASE n = e
    BY <1>3, <1>4, <1>8, <2>1
  <2>2. CASE n \in nodes[at].above
    BY <1>10, <1>11, <1>12, <2>2
  <2>3. n # at
    BY <1>0, <1>2, <1>12
  <2> QED
    BY <1>3, <2>1, <2>2, <2>3 DEF A
<1>13. t[d].above \cup {d} = A \cup {e, d}
  BY <1>3
<1> QED
  BY <1>4, <1>9, <1>12, <1>13 DEF StoredInv

LEMMA TwoNew ==
  ASSUME TypeInv, NEW e, NEW k \in Kinds, nodes' = nodes \o <<e, Child(k, e)>>
  PROVE  /\ Len(nodes') = Next2 /\ nodes'[Next1] = e
         /\ nodes'[Next2].kind = k /\ nodes'[Next2].parent = Next1
         /\ nodes'[Next2].namedValues = NoValues
         /\ \A n \in 1 .. Len(nodes) : nodes'[n] = nodes[n]
         /\ Grown(nodes, nodes')
         /\ \A m \in 1 .. Len(nodes') : m \in 1 .. Len(nodes) \/ m = Next1 \/ m = Next2
<1> DEFINE f == Child(k, e)
<1>1. f.kind = k /\ f.parent = Next1 /\ f.namedValues = NoValues
  BY DEF Child, Next1
<1> HIDE DEF f
<1>2. nodes' = nodes \o <<e, f>>
  BY DEF f
<1>3. /\ Len(nodes') = Next2 /\ nodes'[Next1] = e /\ nodes'[Next2] = f
      /\ \A n \in 1 .. Len(nodes) : nodes'[n] = nodes[n]
  BY <1>2, TypeFacts DEF Next1, Next2
<1>4. Len(nodes) \in Nat /\ Next2 = Len(nodes) + 2 /\ Next1 = Len(nodes) + 1
  BY TypeFacts DEF Next1, Next2
<1>5. Grown(nodes, nodes')
  BY <1>3, <1>4 DEF Grown
<1> QED
  BY <1>1, <1>3, <1>4, <1>5

LEMMA NoValueOfNew ==
  ASSUME NEW e, NEW x \in Names, e.namedValues = NoValues
  PROVE  e.namedValues[x] = NoValue
  BY DEF NoValues

LEMMA StoredBody ==
  ASSUME TypeInv, TypeInv', StoredInv, If \/ (\E i \in Names : For(i, NoName))
  PROVE  StoredInv'
<1>1. InBody /\ at' = Next2 /\ region' = region \cup {NewBlock}
  BY DEF If, For, EnterBody
<1>2. PICK e \in NodeType :
        /\ e.parent = at /\ e.kind \in {"if", "for"} /\ e.region = region
        /\ \A x \in Names : e.namedValues[x] = NoValue \/ e.namedValues[x].stored \subseteq region
        /\ nodes' = nodes \o <<e, Child("body", e)>>
  <2>1. CASE If
    <3> DEFINE n == Node("if", NoName, at)
    <3>1. /\ n \in NodeType /\ n.kind = "if" /\ n.parent = at /\ n.region = region
          /\ \A x \in Names : n.namedValues[x] = NoValue
      BY TypeFacts, NewNode DEF Kinds
    <3>2. nodes' = nodes \o <<n, Child("body", n)>>
      BY <2>1 DEF If
    <3> HIDE DEF n
    <3> QED
      BY <3>1, <3>2
  <2>2. CASE \E i \in Names : For(i, NoName)
    <3>0. PICK i \in Names : For(i, NoName)
      BY <2>2
    <3> DEFINE m == Node("for", i, at)
               n == ForVariable(m)
    <3>1. /\ m \in NodeType /\ m.kind = "for" /\ m.name = i /\ m.parent = at
          /\ m.above = nodes[at].above \cup {at} /\ m.region = region
          /\ \A x \in Names : m.namedValues[x] = NoValue
      BY TypeFacts, NewNode DEF Kinds
    <3>2. nodes' = nodes \o <<n, Child("body", m)>>
      BY <3>0 DEF For
    <3> HIDE DEF m
    <3>3. /\ n \in NodeType /\ n.kind = "for" /\ n.parent = m.parent /\ n.above = m.above
          /\ n.region = m.region
          /\ n.namedValues = [m.namedValues EXCEPT ![i] = Value("for", region)]
      BY <3>1, TypeFacts, ForNode
    <3>4. Child("body", m) = Child("body", n)
      BY <3>3 DEF Child
    <3> HIDE DEF n
    <3>5. \A x \in Names : n.namedValues[x] = NoValue \/ n.namedValues[x].stored \subseteq region
      BY <3>1, <3>3 DEF NodeType, Value
    <3> QED
      BY <3>1, <3>2, <3>3, <3>4, <3>5
  <2> QED
    BY <2>1, <2>2
<1>3. /\ Len(nodes') = Next2 /\ nodes'[Next1] = e
      /\ nodes'[Next2].kind = "body" /\ nodes'[Next2].parent = Next1
      /\ nodes'[Next2].namedValues = NoValues
      /\ \A n \in 1 .. Len(nodes) : nodes'[n] = nodes[n]
      /\ Grown(nodes, nodes')
      /\ \A m \in 1 .. Len(nodes') : m \in 1 .. Len(nodes) \/ m = Next1 \/ m = Next2
  BY <1>2, TwoNew DEF Kinds
<1>4. /\ Next1 \in 2 .. Next2 /\ Next2 \in 2 .. Next2 /\ at < Next1
  BY TypeFacts DEF Next1, Next2
<1>5. \A m \in 1 .. Len(nodes'), x \in Names : nodes'[m].namedValues[x] # NoValue =>
        \/ m \in 1 .. Len(nodes) /\ nodes'[m].namedValues[x] = nodes[m].namedValues[x]
        \/ m = Next1 /\ nodes'[m].namedValues[x].stored \subseteq region
  <2> SUFFICES ASSUME NEW m \in 1 .. Len(nodes'), NEW x \in Names,
                      nodes'[m].namedValues[x] # NoValue
               PROVE  \/ /\ m \in 1 .. Len(nodes)
                         /\ nodes'[m].namedValues[x] = nodes[m].namedValues[x]
                      \/ m = Next1 /\ nodes'[m].namedValues[x].stored \subseteq region
    OBVIOUS
  <2>1. m # Next2
    BY <1>3, NoValueOfNew
  <2> QED
    BY <1>2, <1>3, <2>1
<1>6. /\ Next1 \in 2 .. Len(nodes') /\ nodes'[Next1].parent = at
      /\ nodes'[Next1].kind \in {"if", "for"} /\ nodes'[Next1].region = region
      /\ at' = Len(nodes') /\ nodes'[at'].parent = Next1 /\ nodes'[at'].kind = "body"
      /\ at' \in 2 .. Len(nodes') /\ region \subseteq region'
  BY <1>1, <1>2, <1>3, <1>4
<1>7. Grown(nodes, nodes') /\ InBody
  BY <1>1, <1>3
<1> QED
  BY <1>4, <1>5, <1>6, <1>7, StoredEnter

LEMMA StoredLimit ==
  ASSUME TypeInv, TypeInv', StoredInv, LoadLimit
  PROVE  StoredInv'
<1>1. /\ at' = Next1 /\ region' = region \cup {NewBlock} /\ InBody
  BY DEF LoadLimit, Loads, Found, TypeInv, CallShape
<1>2. /\ Nested /\ nodes[User].kind = "for" /\ Len(nodes') = Next1
      /\ nodes'[User].namedValues =
           [nodes[User].namedValues EXCEPT ![nodes[User].name] = Value("for", region)]
      /\ nodes'[Next1] = Node("body", NoName, User)
      /\ \A n \in 1 .. Len(nodes) : n # User => nodes'[n] = nodes[n]
      /\ \A n \in 1 .. Len(nodes) :
           /\ nodes'[n].kind = nodes[n].kind /\ nodes'[n].above = nodes[n].above
           /\ nodes'[n].parent = nodes[n].parent /\ nodes'[n].region = nodes[n].region
  BY LimitLoaded
<1>3. Next1 = Len(nodes) + 1 /\ Len(nodes) \in Nat
  BY TypeFacts DEF Next1
<1>4. Grown(nodes, nodes')
  BY <1>2, <1>3 DEF Grown
<1>5. /\ nodes'[Next1].kind = "body" /\ nodes'[Next1].parent = User
      /\ nodes'[Next1].namedValues = NoValues
  BY <1>2 DEF Node
<1>6. /\ User \in 2 .. Len(nodes) /\ nodes[User].parent = at /\ nodes[User].region = region
      /\ \A x \in Names : nodes[User].namedValues[x] = NoValue
  BY <1>2 DEF Nested
<1>7. at < User
  BY <1>6 DEF TypeInv, Tree
<1>8. \A x \in Names : \/ nodes'[User].namedValues[x] = NoValue
                       \/ nodes'[User].namedValues[x].stored \subseteq region
  <2>1. nodes[User] \in NodeType
    BY <1>6, TypeFacts
  <2> QED
    BY <1>2, <1>6, <2>1 DEF NodeType, Value
<1>9. \A m \in 1 .. Len(nodes'), x \in Names : nodes'[m].namedValues[x] # NoValue =>
        \/ m \in 1 .. Len(nodes) /\ nodes'[m].namedValues[x] = nodes[m].namedValues[x]
        \/ m = User /\ nodes'[m].namedValues[x].stored \subseteq region
  <2> SUFFICES ASSUME NEW m \in 1 .. Len(nodes'), NEW x \in Names,
                      nodes'[m].namedValues[x] # NoValue
               PROVE  \/ /\ m \in 1 .. Len(nodes)
                         /\ nodes'[m].namedValues[x] = nodes[m].namedValues[x]
                      \/ m = User /\ nodes'[m].namedValues[x].stored \subseteq region
    OBVIOUS
  <2>1. m # Next1
    BY <1>5, NoValueOfNew
  <2>2. m \in 1 .. Len(nodes)
    BY <1>2, <1>3, <2>1
  <2>3. CASE m = User
    BY <1>8, <2>3
  <2>4. CASE m # User
    BY <1>2, <2>2, <2>4
  <2> QED
    BY <2>3, <2>4
<1>10. /\ User \in 2 .. Len(nodes') /\ User \in 1 .. Len(nodes) /\ at' \in 2 .. Len(nodes')
       /\ region \subseteq region'
  BY <1>1, <1>2, <1>3, <1>6
<1> QED
  BY <1>1, <1>2, <1>4, <1>5, <1>6, <1>7, <1>9, <1>10, StoredEnter

\* Above what is no function or body there is no body either.
LEMMA OutermostAbove ==
  ASSUME TypeInv, Here \in {"root", "members"}
  PROVE  \A n \in nodes[at].above \cup {at} : nodes[n].kind \notin {"if", "for"}
<1>1. CASE at = 1
  BY <1>1 DEF TypeInv, Tree, Shape
<1>2. CASE at # 1
  <2>1. at \in 2 .. Len(nodes)
    BY <1>2, TypeFacts
  <2>2. Here = "members"
    BY <2>1 DEF TypeInv, Shape, Fits, Here
  <2>3. \A a \in nodes[at].above : nodes[a].kind \in Outermost
    BY <2>1, <2>2 DEF TypeInv, Shape, Here
  <2> QED
    BY <2>2, <2>3 DEF Outermost, Here
<1> QED
  BY <1>1, <1>2

LEMMA StoredOutermost ==
  ASSUME TypeInv, TypeInv', StoredInv,
         Struct \/ (\E as \in SUBSET Names : \E ps \in SUBSET as : Function(as, ps))
  PROVE  StoredInv'
<1> DEFINE t == nodes'
<1>1. Here \in {"root", "members"} /\ at' = Next2
  BY DEF Struct, Function
<1>2. PICK e \in NodeType, k \in {"body", "members"} :
        /\ e.parent = at /\ e.kind \in {"struct", "function"}
        /\ k = "body" => /\ e.kind = "function"
                         /\ \A x \in Names : e.namedValues[x] = NoValue \/ e.namedValues[x].stored \subseteq region'
        /\ nodes' = nodes \o <<e, Child(k, e)>>
  <2>1. CASE Struct
    <3> DEFINE n == Node("struct", NoName, at)
    <3>1. n \in NodeType /\ n.parent = at /\ n.kind = "struct"
      BY TypeFacts, NewNode DEF Kinds
    <3>2. nodes' = nodes \o <<n, Child("members", n)>>
      BY <2>1 DEF Struct
    <3> HIDE DEF n
    <3> QED
      BY <3>1, <3>2
  <2>2. CASE \E as \in SUBSET Names : \E ps \in SUBSET as : Function(as, ps)
    <3>0. PICK as \in SUBSET Names : \E ps \in SUBSET as : Function(as, ps)
      BY <2>2
    <3>1. PICK ps \in SUBSET as : Function(as, ps)
      BY <3>0
    <3> DEFINE m == Node("function", NoName, at)
               v == [x \in Names |-> Argument(x, as, ps)]
               n == [m EXCEPT !.namedValues = v]
    <3>2. /\ m \in NodeType /\ m.kind = "function" /\ m.parent = at
      BY TypeFacts, NewNode DEF Kinds
    <3>3. nodes' = nodes \o <<n, Child("body", m)>> /\ region' = {NewBlock}
      BY <3>1 DEF Function
    <3> HIDE DEF m
    <3>4. /\ \A x \in Names : v[x] = NoValue \/ v[x].stored \subseteq region'
          /\ v \in [Names -> [kind : ValueKinds, stored : SUBSET Nat]]
      <4>1. NewBlock \in Nat
        BY TypeFacts DEF NewBlock
      <4>2. \A x \in Names : Argument(x, as, ps) \in [kind : ValueKinds, stored : SUBSET Nat]
        BY <4>1 DEF Argument, Value, NoValue, ValueKinds
      <4>3. \A x \in Names : v[x] = NoValue \/ v[x].stored \subseteq region'
        <5>1. \A x \in Names : v[x] = NoValue \/ v[x].stored = {NewBlock}
          BY DEF Argument, Value
        <5> QED
          BY <3>3, <5>1
      <4> QED
        BY <4>2, <4>3
    <3> HIDE DEF v
    <3>5. /\ n \in NodeType /\ n.kind = m.kind /\ n.parent = m.parent /\ n.above = m.above /\ n.region = m.region
          /\ n.namedValues = v
      BY <3>2, <3>4 DEF NodeType
    <3>6. Child("body", m) = Child("body", n)
      BY <3>5 DEF Child
    <3> HIDE DEF n
    <3>7. nodes' = nodes \o <<n, Child("body", n)>>
      BY <3>3, <3>6
    <3>8. /\ n \in NodeType /\ n.parent = at /\ n.kind = "function"
          /\ \A x \in Names : n.namedValues[x] = NoValue \/ n.namedValues[x].stored \subseteq region'
      BY <3>2, <3>4, <3>5
    <3> QED
      BY <3>7, <3>8
  <2> QED
    BY <2>1, <2>2
<1>3. /\ Len(nodes') = Next2 /\ nodes'[Next1] = e
      /\ nodes'[Next2].kind = k /\ nodes'[Next2].parent = Next1
      /\ nodes'[Next2].namedValues = NoValues
      /\ \A n \in 1 .. Len(nodes) : nodes'[n] = nodes[n]
      /\ \A m \in 1 .. Len(nodes') : m \in 1 .. Len(nodes) \/ m = Next1 \/ m = Next2
  BY <1>2, TwoNew DEF Kinds
<1>4. /\ Next1 = Len(nodes) + 1 /\ Next2 = Len(nodes) + 2 /\ Len(nodes) \in Nat
      /\ at \in 1 .. Len(nodes)
  BY TypeFacts DEF Next1, Next2
<1>5. Tree(t) /\ Shape(t)
  BY DEF TypeInv
<1>6. t[Next1].above = nodes[at].above \cup {at} /\ t[Next2].above = t[Next1].above \cup {Next1}
  <2>1. /\ Next1 \in 2 .. Len(t) /\ Next2 \in 2 .. Len(t)
        /\ t[Next1].parent = at /\ t[Next2].parent = Next1 /\ t[at] = nodes[at]
    BY <1>2, <1>3, <1>4
  <2>2. /\ t[Next1].above = t[at].above \cup {at}
        /\ t[Next2].above = t[Next1].above \cup {Next1}
    BY <1>5, <2>1 DEF Tree
  <2> QED
    BY <2>1, <2>2
<1>7. \A n \in t[Next2].above : t[n].kind \notin {"if", "for"}
  <2>1. nodes[at].above \cup {at} \subseteq 1 .. Len(nodes)
    BY <1>4 DEF TypeInv, Tree
  <2>2. \A n \in nodes[at].above \cup {at} : t[n].kind \notin {"if", "for"}
    BY <1>1, <1>3, <2>1, OutermostAbove
  <2> QED
    BY <1>2, <1>3, <1>6, <2>2
<1>8. ASSUME InBody' PROVE Kept(t, t[Next2].above \cup {Next2}, Fns(t, Next2), region')
  <2>1. k = "body"
    BY <1>1, <1>3, <1>8 DEF InBody, Here
  <2>2. Next1 \in Fns(t, Next2)
    BY <1>2, <1>3, <1>6, <2>1 DEF Fns
  <2> SUFFICES ASSUME NEW m \in 1 .. Len(t), NEW x \in Names, t[m].namedValues[x] # NoValue,
                      Fns(t, m) = Fns(t, Next2)
               PROVE  t[m].namedValues[x].stored \subseteq region'
    BY DEF Kept
  <2>3. Next1 \in t[m].above \cup {m}
    BY <2>2 DEF Fns
  <2>4. Next1 <= m
    BY <1>4, <1>5, <2>3 DEF Tree
  <2>5. m # Next2
    BY <1>3, NoValueOfNew
  <2>6. m = Next1
    BY <1>3, <1>4, <2>4, <2>5
  <2> QED
    BY <1>2, <1>3, <2>1, <2>6
<1> QED
  BY <1>1, <1>7, <1>8 DEF StoredInv

LEMMA StoredElse ==
  ASSUME TypeInv, TypeInv', StoredInv, Else
  PROVE  StoredInv'
<1> DEFINE t == nodes'
           A == nodes[Outer].above
           f == Fns(nodes, Outer)
           e == Node("else", NoName, Outer)
<1>1. /\ Here = "body" /\ nodes[Outer].kind = "if"
      /\ nodes' = Append(nodes, e) /\ at' = Next1
      /\ region' = nodes[Outer].region \cup {NewBlock}
  BY DEF Else
<1>2. /\ at # 1 /\ Outer \in 1 .. Len(nodes) /\ Outer \in nodes[at].above
      /\ Tree(nodes) /\ Shape(nodes) /\ Tree(t) /\ Shape(t) /\ at \in 1 .. Len(nodes)
  BY <1>1, TypeFacts DEF TypeInv
<1>3. Next1 = Len(nodes) + 1 /\ Len(nodes) \in Nat
  BY TypeFacts DEF Next1
<1>4. e.namedValues = NoValues /\ e.kind = "else" /\ e.parent = Outer
  BY DEF Node
<1> HIDE DEF e
<1>5. /\ Len(t) = Next1 /\ t[Next1] = e /\ \A n \in 1 .. Len(nodes) : t[n] = nodes[n]
  BY <1>1, <1>3, TypeFacts
<1>6. Grown(nodes, t)
  BY <1>3, <1>5 DEF Grown
<1>7. t[Next1].above = A \cup {Outer} /\ A \subseteq 1 .. Outer - 1
  BY <1>2, <1>3, <1>4, <1>5 DEF Tree
<1>8. Fns(t, Next1) = f
  <2>1. Fns(t, Next1) = Fns(t, Outer)
    BY <1>2, <1>3, <1>4, <1>5, ParentFns
  <2>2. Fns(t, Outer) = f
    BY <1>2, <1>6, GrownFns
  <2> QED
    BY <2>1, <2>2
<1>9. Kept(nodes, A, f, nodes[Outer].region)
  BY <1>1, <1>2 DEF StoredInv
<1>10. ASSUME NEW m \in 1 .. Len(t), NEW x \in Names, t[m].namedValues[x] # NoValue
       PROVE  m \in 1 .. Len(nodes) /\ t[m].namedValues[x] = nodes[m].namedValues[x]
  <2>1. m # Next1
    BY <1>4, <1>5, <1>10, NoValueOfNew
  <2> QED
    BY <1>3, <1>5, <2>1
<1>11. ASSUME NEW m \in 1 .. Len(t), NEW x \in Names, t[m].namedValues[x] # NoValue,
              SeenIn(t, t[Next1].above \cup {Next1}, m)
       PROVE  SeenIn(nodes, A, m)
  <2>1. /\ m \in 2 .. Len(nodes) /\ nodes[m].kind \in Holders
        /\ nodes[nodes[m].parent].kind \in {"root", "members", "body", "else"}
        /\ t[m].parent = nodes[m].parent
    BY <1>2, <1>3, <1>5, <1>10, <1>11, Holding
  <2>2. m # Outer /\ nodes[m].parent # Outer
    BY <1>1, <2>1 DEF Holders
  <2>3. m # Next1 /\ nodes[m].parent # Next1
    BY <1>2, <1>3, <2>1 DEF Tree
  <2> QED
    BY <1>7, <1>11, <2>1, <2>2, <2>3 DEF SeenIn
<1> HIDE DEF A, f
<1>12. Kept(t, t[Next1].above \cup {Next1}, f, region')
  <2> DEFINE B == t[Next1].above \cup {Next1}
  <2>1. nodes[Outer].region \subseteq region'
    BY <1>1
  <2>2. \A m \in 1 .. Len(t), x \in Names : t[m].namedValues[x] # NoValue /\ SeenIn(t, B, m) =>
          /\ m \in 1 .. Len(nodes) /\ SeenIn(nodes, A, m)
          /\ t[m].namedValues[x] = nodes[m].namedValues[x]
    BY <1>10, <1>11
  <2> HIDE DEF B
  <2>3. Kept(t, B, f, region')
    BY <1>2, <1>6, <1>9, <2>1, <2>2, KeptGrown
  <2> QED
    BY <2>3 DEF B
<1>13. ASSUME NEW n \in t[Next1].above, t[n].kind \in {"if", "for"}
       PROVE  Kept(t, t[n].above, Fns(t, n), t[n].region)
  <2>1. n \in 1 .. Len(nodes) /\ n \in nodes[at].above
    <3>1. A \subseteq nodes[at].above /\ nodes[at].above \subseteq 1 .. Len(nodes)
      BY <1>2 DEF A, Tree
    <3> QED
      BY <1>2, <1>7, <3>1
  <2>2. t[n] = nodes[n] /\ Fns(t, n) = Fns(nodes, n)
    BY <1>2, <1>5, <1>6, <2>1, GrownFns
  <2>3. Kept(nodes, nodes[n].above, Fns(nodes, n), nodes[n].region)
    BY <1>13, <2>1, <2>2 DEF StoredInv
  <2>4. \A m \in 1 .. Len(t), x \in Names :
          t[m].namedValues[x] # NoValue /\ SeenIn(t, nodes[n].above, m) =>
            /\ m \in 1 .. Len(nodes) /\ SeenIn(nodes, nodes[n].above, m)
            /\ t[m].namedValues[x] = nodes[m].namedValues[x]
    BY <1>5, <1>10 DEF SeenIn
  <2>5. Kept(t, nodes[n].above, Fns(nodes, n), nodes[n].region)
    BY <1>2, <1>6, <2>3, <2>4, KeptGrown
  <2> QED
    BY <2>2, <2>5
<1> QED
  BY <1>1, <1>8, <1>12, <1>13 DEF StoredInv

LEMMA StoredClose ==
  ASSUME TypeInv, StoredInv, EndIf \/ EndFor \/ EndFunction \/ EndStruct
  PROVE  StoredInv'
<1>1. UNCHANGED nodes /\ Here \in {"body", "else", "members"}
  BY DEF EndIf, EndFor, EndFunction, EndStruct
<1>2. /\ at # 1 /\ Outer \in 1 .. Len(nodes) /\ Outer \in nodes[at].above
      /\ Tree(nodes) /\ Shape(nodes) /\ at \in 2 .. Len(nodes) /\ nodes[1].above = {}
      /\ nodes[1].kind = "root"
  BY <1>1, TypeFacts DEF TypeInv, Tree, Shape
<1>3. Outer \in 2 .. Len(nodes)
  <2>1. Fits(Here, nodes[Outer].kind)
    BY <1>2 DEF Shape, Here, Outer
  <2> QED
    BY <1>1, <1>2, <2>1 DEF Fits, Shape
<1> DEFINE p == nodes[Outer].parent
<1>4. /\ nodes[Outer].above = nodes[p].above \cup {p} /\ Fits(nodes[Outer].kind, nodes[p].kind)
      /\ nodes[Outer].above \subseteq nodes[at].above
  BY <1>2, <1>3 DEF Tree, Shape
<1>5. nodes[at'].above \subseteq nodes[at].above
  <2>1. at' = p \/ at' = 1
    BY DEF EndIf, EndFor, EndFunction, EndStruct, Root
  <2> QED
    BY <1>2, <1>4, <2>1
<1>6. \A n \in nodes'[at'].above :
        nodes'[n].kind \in {"if", "for"} =>
          Kept(nodes', nodes'[n].above, Fns(nodes', n), nodes'[n].region)
  BY <1>1, <1>5 DEF StoredInv
<1>7. ASSUME InBody'
      PROVE  Kept(nodes, nodes[at'].above \cup {at'}, Fns(nodes, at'), region')
  <2>1. nodes[at'].kind \in {"body", "else"}
    BY <1>1, <1>7 DEF InBody, Here
  <2>2. at' = p /\ region' = nodes[Outer].region /\ nodes[Outer].kind \in {"if", "for"}
    <3>1. CASE EndStruct
      BY <1>2, <2>1, <3>1 DEF EndStruct, Root
    <3>2. CASE EndFunction
      BY <1>4, <2>1, <3>2 DEF EndFunction, Fits
    <3>3. CASE EndFor
      BY <3>3 DEF EndFor
    <3>4. CASE EndIf
      <4>1. Fits("else", nodes[Outer].kind)
        BY <1>2, <3>4 DEF EndIf, Shape, Here, Outer
      <4> QED
        BY <3>4, <4>1 DEF EndIf, Fits
    <3> QED
      BY <3>1, <3>2, <3>3, <3>4
  <2>3. Kept(nodes, nodes[Outer].above, Fns(nodes, Outer), nodes[Outer].region)
    BY <1>2, <2>2 DEF StoredInv
  <2>4. Fns(nodes, Outer) = Fns(nodes, p)
    BY <1>2, <1>3, <2>2, ParentFns
  <2> QED
    BY <1>4, <2>2, <2>3, <2>4
<1> QED
  BY <1>1, <1>6, <1>7 DEF StoredInv

LEMMA StoredStep == TypeInv /\ TypeInv' /\ StoredInv /\ [Next]_vars => StoredInv'
<1> SUFFICES ASSUME TypeInv, TypeInv', StoredInv, [Next]_vars PROVE StoredInv'
  OBVIOUS
<1>1. CASE UNCHANGED <<nodes, at, region>>
  BY <1>1 DEF StoredInv, InBody, Here
<1>2. CASE FindNamedValue \/ Resumes \/ Stops \/ LoadRight \/ UNCHANGED vars
  BY <1>1, <1>2
     DEF FindNamedValue, FindInSelf, FindAmongChildren, FindInParent, FindNothing, Resumes, Stops,
         Load, AlreadyDeclared, Store, UndefinedVariable, LoadFromArgument, Finish, Stopped,
         LoadRight, vars
<1>3. CASE \E x \in Names : Use(x) \/ Declaration(x) \/ Assignment(x, NoName)
  <2>1. PICK k \in Kinds, y \in Names \cup {NoName} :
          nodes' = Append(nodes, Node(k, y, at)) /\ UNCHANGED <<at, region>>
    BY <1>3 DEF Use, Declaration, Assignment, Kinds
  <2> DEFINE e == Node(k, y, at)
  <2>2. e.namedValues = NoValues
    BY DEF Node
  <2> HIDE DEF e
  <2>3. nodes' = Append(nodes, e)
    BY <2>1 DEF e
  <2>4. /\ Len(nodes') = Len(nodes) + 1 /\ nodes'[Len(nodes) + 1] = e
        /\ \A n \in 1 .. Len(nodes) : nodes'[n] = nodes[n]
    BY <2>3, TypeFacts
  <2>5. nodes' \in Seq(NodeType)
    BY DEF TypeInv, TypeOK, NodeType
  <2>6. \A n \in 1 .. Len(nodes') : n > Len(nodes) => nodes'[n].namedValues = NoValues
    BY <2>2, <2>4, TypeFacts
  <2> QED
    BY <2>1, <2>4, <2>5, <2>6, TypeFacts, StoredStatement
<1>4. CASE \E x, y \in Names : Assignment(x, y) \/ For(x, y)
  <2>1. PICK x \in Names, y \in Names : Assignment(x, y) \/ For(x, y)
    BY <1>4
  <2>2. PICK k \in {"assignment", "for"} :
          nodes' = nodes \o <<Node(k, x, at), Child("use", Node(k, x, at))>>
    BY <2>1, NamesAssumption DEF Assignment, For
  <2>3. UNCHANGED <<at, region>>
    BY <2>1, NamesAssumption DEF Assignment, For
  <2> DEFINE e == Node(k, x, at)
  <2>4. e.namedValues = NoValues
    BY DEF Node
  <2> HIDE DEF e
  <2>5. nodes' = nodes \o <<e, Child("use", e)>>
    BY <2>2 DEF e
  <2>6. /\ Len(nodes') = Next2 /\ nodes'[Next1] = e
        /\ nodes'[Next2].namedValues = NoValues
        /\ \A n \in 1 .. Len(nodes) : nodes'[n] = nodes[n]
        /\ \A m \in 1 .. Len(nodes') : m \in 1 .. Len(nodes) \/ m = Next1 \/ m = Next2
    BY <2>5, TwoNew DEF Kinds
  <2>7. nodes' \in Seq(NodeType) /\ Len(nodes') >= Len(nodes)
    BY <2>6, TypeFacts DEF TypeInv, TypeOK, NodeType, Next2
  <2>8. \A n \in 1 .. Len(nodes') : n > Len(nodes) => nodes'[n].namedValues = NoValues
    BY <2>4, <2>6, TypeFacts
  <2> QED
    BY <2>3, <2>6, <2>7, <2>8, StoredStatement
<1>5. CASE Declare \/ StoreToNew
  <2>1. UNCHANGED <<at, region>>
    BY <1>5 DEF Declare, StoreToNew
  <2>2. /\ look.use \in 1 .. Len(nodes) /\ look.name \in Names /\ Direct
        /\ nodes[look.use].kind \in {"declaration", "assignment"}
        /\ SameTree(nodes, nodes')
        /\ nodes'[look.use].namedValues =
             [nodes[look.use].namedValues EXCEPT ![look.name] = Value("local", region)]
        /\ \A n \in 1 .. Len(nodes) : n # look.use => nodes'[n] = nodes[n]
    BY <1>5, Declared
  <2>3. Grown(nodes, nodes')
    BY <2>2, TypeFacts DEF Grown, SameTree
  <2>4. nodes[look.use].parent = at /\ at < look.use
    <3>1. look.use \in 2 .. Len(nodes)
      BY <1>5 DEF TypeInv, CallShape, Declare, StoreToNew, FoundNothing
    <3> QED
      BY <2>2, <3>1 DEF Direct, TypeInv, Tree
  <2>5. \A x \in Names : \/ nodes'[look.use].namedValues[x] = nodes[look.use].namedValues[x]
                         \/ nodes'[look.use].namedValues[x].stored = region
    <3>1. nodes[look.use] \in NodeType
      BY <2>2, TypeFacts
    <3> QED
      BY <2>2, <3>1 DEF NodeType, Value
  <2>6. \A m \in 1 .. Len(nodes'), x \in Names : nodes'[m].namedValues[x] # NoValue =>
          \/ m \in 1 .. Len(nodes) /\ nodes'[m].namedValues[x] = nodes[m].namedValues[x]
          \/ /\ m \in 1 .. Len(nodes) /\ nodes[m].parent = at /\ at < m
             /\ nodes'[m].namedValues[x].stored \subseteq region
    <3>1. Len(nodes') = Len(nodes)
      BY <2>2 DEF SameTree
    <3> QED
      BY <2>2, <2>4, <2>5, <3>1
  <2> QED
    BY <2>1, <2>3, <2>6, StoredStay
<1>6. CASE If \/ (\E x \in Names : For(x, NoName))
  BY <1>6, StoredBody
<1>7. CASE LoadLimit
  BY <1>7, StoredLimit
<1>8. CASE (\E as \in SUBSET Names : \E ps \in SUBSET as : Function(as, ps)) \/ Struct
  BY <1>8, StoredOutermost
<1>9. CASE Close
  BY <1>2, <1>9, StoredElse, StoredClose DEF Close, Stops
<1>10. CASE Statement
  BY <1>3, <1>4, <1>6, <1>10 DEF Statement
<1> QED
  BY <1>2, <1>5, <1>7, <1>8, <1>9, <1>10 DEF Next, Answer, Resumes, Stops

LEMMA StoredAlways == Spec => []StoredInv
<1>1. Init => StoredInv
  BY DEF Init, StoredInv, InBody, Here, Root
<1> QED
  BY <1>1, StoredStep, TypeAlways, PTL DEF Spec

LEMMA Before == TypeInv /\ StoredInv /\ NearestIsFound => StoredBefore
<1> SUFFICES ASSUME TypeInv, StoredInv, NearestIsFound, Returned, look.result # 0,
                    FunctionsOf(look.result) = FunctionsOf(look.use)
             PROVE  FoundValue.stored \subseteq region
  BY DEF StoredBefore
<1> DEFINE r == look.result
           u == look.use
           A == nodes[at].above \cup {at}
<1>1. u \in 2 .. Len(nodes) /\ nodes[u].kind # "function" /\ look.name \in Names /\ InBody
  BY UserKind DEF Returned, TypeInv, CallShape
<1>2. /\ r \in 1 .. Len(nodes) /\ nodes[r].namedValues[look.name] # NoValue
      /\ SeenIn(nodes, nodes[u].above, r)
  BY DEF NearestIsFound, Visible, Has, Root, SeenIn
<1>3. Tree(nodes) /\ Shape(nodes) /\ Len(nodes) \in Nat
  BY TypeFacts DEF TypeInv
<1>4. SeenIn(nodes, A, r) /\ Fns(nodes, u) = Fns(nodes, at)
  <2>1. CASE Direct
    <3>1. nodes[u].above = A
      BY <1>1, <1>3, <2>1 DEF Direct, Tree
    <3> QED
      BY <1>1, <1>2, <1>3, <2>1, <3>1, ParentFns DEF Direct
  <2>2. CASE Nested
    <3>1. /\ User \in 2 .. Len(nodes) /\ nodes[User].parent = at
          /\ nodes[User].kind \in {"assignment", "for"}
          /\ nodes[User].namedValues[look.name] = NoValue
      BY <1>1, <2>2 DEF Nested
    <3>2. nodes[User].above = A /\ nodes[u].above = A \cup {User}
      BY <1>1, <1>3, <3>1 DEF Tree, User
    <3>3. Fns(nodes, u) = Fns(nodes, User) /\ Fns(nodes, User) = Fns(nodes, at)
      BY <1>1, <1>3, <3>1, ParentFns DEF User
    <3>4. nodes[nodes[r].parent].kind \in {"root", "members", "body", "else"}
      BY <1>1, <1>2, <1>3, Holding
    <3>5. r # User /\ nodes[r].parent # User
      BY <1>2, <3>1, <3>4
    <3> QED
      BY <1>2, <3>2, <3>3, <3>5 DEF SeenIn
  <2> QED
    BY <2>1, <2>2 DEF Returned, TypeInv, CallShape
<1>5. Fns(nodes, r) = Fns(nodes, at)
  BY <1>4 DEF Fns, FunctionsOf
<1> QED
  BY <1>1, <1>2, <1>4, <1>5 DEF StoredInv, Kept, FoundValue

(***************************************************************************)
(* A variable that is found in its function has been stored to on every    *)
(* way to where it is found, in every program, however its bodies nest.    *)
(***************************************************************************)
THEOREM ScopesStoredBefore == Spec => []StoredBefore
  BY Before, TypeAlways, StoredAlways, ScopesNearestIsFound, PTL

=============================================================================
