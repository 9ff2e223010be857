---------------------------- MODULE ImportsProofs ----------------------------
(***************************************************************************)
(* Theorems about Imports, for every set of projects.                      *)
(***************************************************************************)
EXTENDS Imports, TLAPS, SequenceTheorems

-----------------------------------------------------------------------------
(***************************************************************************)
(* Nodes, and the tree without a directive                                 *)
(***************************************************************************)
Declaration == [kind : {"declaration"}, id : STRING, inside : Seq(Directive)]

LEMMA DirectiveFields ==
  ASSUME NEW d \in Directive
  PROVE  /\ d.kind # "declaration"
         /\ d.kind = "import" => d.path \in Seq(STRING) /\ d.name \in STRING
         /\ d \in Node
BY DEF Directive, Import, Include, Nothing, Node

LEMMA NodeFields ==
  ASSUME NEW n \in Node
  PROVE  /\ n.kind = "declaration" => n \in Declaration /\ n.id \in STRING /\ n.inside \in Seq(Directive)
         /\ n.kind # "declaration" => n \in Directive
BY DEF Directive, Import, Include, Nothing, Node, Declaration

LEMMA NothingIsNode == [kind |-> "nothing"] \in Directive /\ [kind |-> "nothing"] \in Node
BY DEF Directive, Nothing, Node

\* A directive that is left, and where it is
LEMMA LeftAt ==
  ASSUME root \in Seq(Node), NEW kind, NEW p \in Left(kind)
  PROVE  /\ p[1] \in 1 .. Len(root)
         /\ \/ p[2] = 0 /\ root[p[1]].kind # "declaration"
            \/ /\ p[2] # 0
               /\ root[p[1]].kind = "declaration"
               /\ p[2] \in 1 .. Len(root[p[1]].inside)
         /\ DirectiveAt(p).kind = kind
         /\ DirectiveAt(p) \in Directive
<1>1. p \in Positions /\ DirectiveAt(p).kind = kind
  BY DEF Left
<1>2. CASE p \in {<<i, 0>> : i \in {k \in 1 .. Len(root) : root[k].kind # "declaration"}}
  <2>1. PICK i \in 1 .. Len(root) : root[i].kind # "declaration" /\ p = <<i, 0>>
    BY <1>2
  <2>2. root[i] \in Node
    BY <2>1
  <2> QED
    BY <1>1, <2>1, <2>2, NodeFields DEF DirectiveAt
<1>3. CASE p \in UNION {{<<i, j>> : j \in 1 .. Len(root[i].inside)} :
                           i \in {k \in 1 .. Len(root) : root[k].kind = "declaration"}}
  <2>1. PICK i \in 1 .. Len(root) : root[i].kind = "declaration"
                                    /\ p \in {<<i, j>> : j \in 1 .. Len(root[i].inside)}
    BY <1>3
  <2>2. PICK j \in 1 .. Len(root[i].inside) : p = <<i, j>>
    BY <2>1
  <2>3. root[i].inside \in Seq(Directive)
    BY <2>1, NodeFields
  <2>4. j # 0 /\ root[i].inside[j] \in Directive
    BY <2>2, <2>3
  <2>5. p[1] = i /\ p[2] = j
    BY <2>2
  <2> QED
    BY <1>1, <2>1, <2>2, <2>4, <2>5 DEF DirectiveAt
<1> QED
  BY <1>1, <1>2, <1>3 DEF Positions

\* The tree after a directive has been dealt with: only the node changes that it is in.
LEMMA DoneAt ==
  ASSUME root \in Seq(Node), NEW kind, NEW p \in Left(kind)
  PROVE  /\ Done(p) \in Seq(Node)
         /\ Len(Done(p)) = Len(root)
         /\ \A i \in 1 .. Len(root) : i # p[1] => Done(p)[i] = root[i]
         /\ p[2] = 0 => Done(p)[p[1]] = [kind |-> "nothing"]
         /\ p[2] # 0 => /\ Done(p)[p[1]].kind = "declaration"
                        /\ Done(p)[p[1]].id = root[p[1]].id
                        /\ Done(p)[p[1]].inside = [root[p[1]].inside EXCEPT ![p[2]] = [kind |-> "nothing"]]
<1>1. p[1] \in 1 .. Len(root)
  BY LeftAt
<1>2. CASE p[2] = 0
  <2>1. Done(p) = [root EXCEPT ![p[1]] = [kind |-> "nothing"]]
    BY <1>2 DEF Done
  <2> QED
    BY <1>1, <1>2, <2>1, NothingIsNode
<1>3. CASE p[2] # 0
  <2> DEFINE n == root[p[1]]
             inside == [n.inside EXCEPT ![p[2]] = [kind |-> "nothing"]]
             m == [n EXCEPT !.inside = inside]
  <2>1. n.kind = "declaration" /\ p[2] \in 1 .. Len(n.inside)
    BY <1>3, LeftAt
  <2>2. n \in Declaration /\ n.inside \in Seq(Directive)
    BY <1>1, <2>1, NodeFields
  <2>3. inside \in Seq(Directive)
    BY <2>1, <2>2, NothingIsNode
  <2>4. Done(p) = [root EXCEPT ![p[1]] = m]
    BY <1>3 DEF Done
  <2> HIDE DEF inside
  <2>5. m \in Declaration /\ m.kind = "declaration" /\ m.id = n.id /\ m.inside = inside
    BY <2>2, <2>3 DEF Declaration
  <2>6. m \in Node
    BY <2>5 DEF Node, Declaration
  <2> HIDE DEF m
  <2>7. /\ Done(p) \in Seq(Node)
        /\ Len(Done(p)) = Len(root)
        /\ \A i \in 1 .. Len(root) : i # p[1] => Done(p)[i] = root[i]
        /\ Done(p)[p[1]] = m
    BY <1>1, <2>4, <2>6
  <2> QED
    BY <1>3, <2>5, <2>7 DEF inside
<1> QED
  BY <1>2, <1>3

\* What is loaded from a file is nodes.
LEMMA ContentNodes ==
  ASSUME NEW f \in File, NEW name, NEW nodes \in Content(f, name)
  PROVE  nodes \in Seq(Node)
<1>1. PICK k \in 1 .. Len(f.modules) : nodes = f.modules[k].nodes
  BY DEF Content
<1>2. f.modules \in Seq(Module)
  BY DEF File
<1>3. f.modules[k] \in Module
  BY <1>1, <1>2
<1> QED
  BY <1>1, <1>3 DEF Module

\* The candidates for a directive are files.
LEMMA CandidatesAreFiles ==
  ASSUME IsPlace(files.project), IsPlace(files.modules), NEW d, NEW f \in Candidates(d)
  PROVE  f \in File
<1>1. ASSUME NEW place, IsPlace(place), f \in Defining(place, d)
      PROVE  f \in File
  <2>1. f \in FilesIn(place, d.path)
    BY <1>1 DEF Defining
  <2>2. d.path \in DOMAIN place /\ f \in place[d.path]
    BY <2>1 DEF FilesIn
  <2> QED
    BY <1>1, <2>2 DEF IsPlace
<1> QED
  BY <1>1 DEF Candidates

\* The root node after the splice: the imported nodes in reverse, then the nodes it had.
LEMMA SpliceAt ==
  ASSUME root \in Seq(Node), importedNodes \in Seq(Node)
  PROVE  /\ Splice \in Seq(Node)
         /\ Len(Splice) = Len(importedNodes) + Len(root)
         /\ \A q \in 1 .. Len(importedNodes) :
              Splice[Len(importedNodes) - q + 1] = importedNodes[q]
         /\ \A i \in 1 .. Len(root) : Splice[Len(importedNodes) + i] = root[i]
<1> DEFINE r == Reverse(importedNodes)
<1>1. /\ r \in Seq(Node)
      /\ Len(r) = Len(importedNodes)
      /\ \A q \in 1 .. Len(importedNodes) : r[q] = importedNodes[(Len(importedNodes) - q) + 1]
  BY DEF Reverse
<1>2. Splice = r \o root
  BY DEF Splice
<1> HIDE DEF r
<1>3. Splice \in Seq(Node) /\ Len(Splice) = Len(importedNodes) + Len(root)
  BY <1>1, <1>2
<1>4. ASSUME NEW q \in 1 .. Len(importedNodes)
      PROVE  Splice[Len(importedNodes) - q + 1] = importedNodes[q]
  <2>1. Len(importedNodes) - q + 1 \in 1 .. Len(importedNodes)
    OBVIOUS
  <2>2. (Len(importedNodes) - (Len(importedNodes) - q + 1)) + 1 = q
    OBVIOUS
  <2>3. r[Len(importedNodes) - q + 1] = importedNodes[q]
    BY <1>1, <2>1, <2>2
  <2> QED
    BY <1>1, <1>2, <2>1, <2>3
<1>5. ASSUME NEW i \in 1 .. Len(root)
      PROVE  Splice[Len(importedNodes) + i] = root[i]
  BY <1>1, <1>2
<1> QED
  BY <1>3, <1>4, <1>5

-----------------------------------------------------------------------------
(***************************************************************************)
(* Type correctness                                                        *)
(***************************************************************************)
LoadRecord == [path : Seq(STRING), name : STRING, nodes : Seq(Node), after : Nat]

\* The directories stay what they are.
TypeInv ==
  /\ TypeOK
  /\ IsPlace(files.project)
  /\ IsPlace(files.modules)

LEMMA FirstIsLeft ==
  ASSUME NEW p, AtImport(p)
  PROVE  p \in Left("import")
BY DEF AtImport, First

LEMMA LoadType ==
  ASSUME root \in Seq(Node), NEW p \in Left("import"), NEW nodes \in Seq(Node)
  PROVE  /\ Load(p, nodes) \in LoadRecord
         /\ Load(p, nodes).nodes = nodes
         /\ Load(p, nodes).after = Len(root) - p[1]
         /\ DirectiveAt(p).name \in STRING
<1>1. p[1] \in 1 .. Len(root) /\ DirectiveAt(p).kind = "import" /\ DirectiveAt(p) \in Directive
  BY LeftAt
<1>2. DirectiveAt(p).path \in Seq(STRING) /\ DirectiveAt(p).name \in STRING
  BY <1>1, DirectiveFields
<1>3. Len(root) - p[1] \in Nat
  BY <1>1
<1> QED
  BY <1>2, <1>3 DEF Load, LoadRecord

\* What LoadModule appends is nodes.
LEMMA Loaded ==
  ASSUME TypeInv, NEW p, LoadModule(p)
  PROVE  \E nodes \in Seq(Node) :
           importedNodes' = importedNodes \o nodes /\ loads' = Append(loads, Load(p, nodes))
<1>1. PICK f \in Candidates(DirectiveAt(p)) : \E nodes \in Content(f, DirectiveAt(p).name) :
        importedNodes' = importedNodes \o nodes /\ loads' = Append(loads, Load(p, nodes))
  BY DEF LoadModule
<1>2. f \in File
  BY CandidatesAreFiles DEF TypeInv
<1> QED
  BY <1>1, <1>2, ContentNodes

LEMMA InitType == Init => TypeInv
<1> SUFFICES ASSUME Init
             PROVE  TypeInv
  OBVIOUS
<1>1. PICK p \in Projects : files = [project |-> p.project, modules |-> p.modules] /\ root = p.main
  BY DEF Init
<1>2. root \in Seq(Node) /\ IsPlace(files.project) /\ IsPlace(files.modules)
  BY <1>1, ProjectsAssumption
<1> QED
  BY <1>2 DEF Init, TypeInv, TypeOK

LEMMA NextType == TypeInv /\ [Next]_vars => TypeInv'
<1> SUFFICES ASSUME TypeInv, [Next]_vars
             PROVE  TypeInv'
  OBVIOUS
<1> USE DEF TypeInv, TypeOK
<1>1. CASE IncludeFile
  BY <1>1 DEF IncludeFile
<1>2. CASE SpliceFiles
  <2>1. root' \in Seq(Node)
    BY <1>2, SpliceAt DEF SpliceFiles
  <2> QED
    BY <1>2, <2>1 DEF SpliceFiles
<1>3. CASE SkipImported
  <2>1. PICK p : AtImport(p) /\ root' = Done(p)
    BY <1>3 DEF SkipImported
  <2>2. root' \in Seq(Node)
    BY <2>1, FirstIsLeft, DoneAt
  <2> QED
    BY <1>3, <2>2 DEF SkipImported
<1>4. CASE ImportModule
  <2>1. PICK p : /\ AtImport(p)
                 /\ LoadModule(p)
                 /\ root' = Done(p)
                 /\ importedModuleNames' = importedModuleNames \cup {DirectiveAt(p).name}
    BY <1>4 DEF ImportModule
  <2>2. p \in Left("import")
    BY <2>1, FirstIsLeft
  <2>3. PICK nodes \in Seq(Node) :
          importedNodes' = importedNodes \o nodes /\ loads' = Append(loads, Load(p, nodes))
    BY <2>1, Loaded
  <2>4. nodes \in Seq(Node)
    BY <2>3
  <2>5. root' \in Seq(Node)
    BY <2>1, <2>2, DoneAt
  <2>6. importedNodes' \in Seq(Node)
    BY <2>3, <2>4
  <2>7. Load(p, nodes) \in LoadRecord /\ DirectiveAt(p).name \in STRING
    BY <2>2, <2>4, LoadType
  <2>8. loads' \in Seq(LoadRecord)
    BY <2>3, <2>7 DEF LoadRecord
  <2>9. importedModuleNames' \subseteq STRING
    BY <2>1, <2>7
  <2> QED
    BY <1>4, <2>5, <2>6, <2>8, <2>9 DEF ImportModule, LoadRecord
<1>5. CASE ImportFails
  <2>1. UNCHANGED <<files, root, importedNodes, importedModuleNames, phase, loads>>
        /\ status' = "exited" /\ status = "importing"
    BY <1>5 DEF ImportFails, AtImport
  <2> QED
    BY <2>1
<1>6. CASE SpliceModules
  <2>1. root' \in Seq(Node)
    BY <1>6, SpliceAt DEF SpliceModules
  <2>2. importedNodes' = <<>> /\ UNCHANGED <<files, importedModuleNames, loads>>
    BY <1>6 DEF SpliceModules
  <2>3. \/ phase' = "done" /\ status' = "imported"
        \/ phase' = "files" /\ status' = "importing"
    BY <1>6 DEF SpliceModules
  <2> QED
    BY <2>1, <2>2, <2>3
<1>7. CASE Finished
  BY <1>7 DEF Finished, vars
<1>8. CASE UNCHANGED vars
  BY <1>8 DEF vars
<1> QED
  BY <1>1, <1>2, <1>3, <1>4, <1>5, <1>6, <1>7, <1>8 DEF Next

\* Nodes stay nodes through every round of addModuleImports and of the splice in main
\* (main.cpp, lines 159-182).
THEOREM ImportsTypeOK == Spec => []TypeOK
<1>1. TypeInv => TypeOK
  BY DEF TypeInv
<1> QED
  BY <1>1, InitType, NextType, PTL DEF Spec

-----------------------------------------------------------------------------
(***************************************************************************)
(* What is imported comes before what imports it.  Until the next splice   *)
(* the nodes of a module wait in importedNodes, whose reverse is put in    *)
(* front of the root node; so the number of nodes after the directive does *)
(* not change, and a node already before the directive stays before it.    *)
(***************************************************************************)
IsOf(m, n) == m.kind = "declaration" /\ m.id = n.id

Waiting(n) == \E q \in 1 .. Len(importedNodes) : IsOf(importedNodes[q], n)

InFront(n, after) == \E i \in 1 .. Len(root) - after - 1 : IsOf(root[i], n)

IsPlaced(load) ==
  /\ load.after < Len(root)
  /\ \A n \in ToSet(load.nodes) :
       n.kind = "declaration" => Waiting(n) \/ InFront(n, load.after)

AllPlaced == \A k \in 1 .. Len(loads) : IsPlaced(loads[k])

PlacedInv ==
  /\ status = "imported" => importedNodes = <<>>
  /\ AllPlaced

LEMMA LoadAfter ==
  ASSUME TypeInv, NEW k \in 1 .. Len(loads)
  PROVE  loads[k].after \in Nat
<1>1. loads \in Seq(LoadRecord)
  BY DEF TypeInv, TypeOK, LoadRecord
<1>2. loads[k] \in LoadRecord
  BY <1>1
<1> QED
  BY <1>2 DEF LoadRecord

\* The splice keeps what is placed so.
LEMMA SplicePlaces ==
  ASSUME TypeInv, NEW load, load.after \in Nat, IsPlaced(load),
         root' = Splice, importedNodes' = <<>>
  PROVE  IsPlaced(load)'
<1>1. /\ Len(root') = Len(importedNodes) + Len(root)
      /\ \A q \in 1 .. Len(importedNodes) : root'[Len(importedNodes) - q + 1] = importedNodes[q]
      /\ \A i \in 1 .. Len(root) : root'[Len(importedNodes) + i] = root[i]
  BY SpliceAt DEF TypeInv, TypeOK
<1>2. Len(importedNodes) \in Nat /\ Len(root) \in Nat /\ load.after < Len(root)
  BY DEF TypeInv, TypeOK, IsPlaced
<1>3. ASSUME NEW n \in ToSet(load.nodes), n.kind = "declaration"
      PROVE  \E i \in 1 .. Len(root') - load.after - 1 : IsOf(root'[i], n)
  <2>1. CASE Waiting(n)
    <3>1. PICK q \in 1 .. Len(importedNodes) : IsOf(importedNodes[q], n)
      BY <2>1 DEF Waiting
    <3>2. Len(importedNodes) - q + 1 \in 1 .. Len(root') - load.after - 1
      BY <1>1, <1>2
    <3> QED
      BY <1>1, <3>1, <3>2
  <2>2. CASE InFront(n, load.after)
    <3>1. PICK i \in 1 .. Len(root) - load.after - 1 : IsOf(root[i], n)
      BY <2>2 DEF InFront
    <3>2. i \in 1 .. Len(root)
          /\ Len(importedNodes) + i \in 1 .. Len(root') - load.after - 1
      BY <1>1, <1>2
    <3> QED
      BY <1>1, <3>1, <3>2
  <2> QED
    BY <1>3, <2>1, <2>2 DEF IsPlaced
<1> QED
  BY <1>1, <1>2, <1>3 DEF IsPlaced, InFront

\* Dealing with a directive, and adding to the nodes that wait, keep what is placed so.
LEMMA DonePlaces ==
  ASSUME TypeInv, NEW load, load.after \in Nat, IsPlaced(load),
         NEW p \in Left("import"), root' = Done(p),
         NEW nodes \in Seq(Node), importedNodes' = importedNodes \o nodes
  PROVE  IsPlaced(load)'
<1>1. /\ Len(root') = Len(root)
      /\ \A i \in 1 .. Len(root) : i # p[1] => root'[i] = root[i]
      /\ p[2] = 0 => root[p[1]].kind # "declaration"
      /\ p[2] # 0 => root'[p[1]].kind = "declaration" /\ root'[p[1]].id = root[p[1]].id
  <2>1. root \in Seq(Node)
    BY DEF TypeInv, TypeOK
  <2>2. p[2] = 0 => root[p[1]].kind # "declaration"
    BY <2>1, LeftAt
  <2> QED
    BY <2>1, <2>2, DoneAt
<1>2. Len(root) \in Nat /\ load.after < Len(root)
  BY DEF TypeInv, TypeOK, IsPlaced
<1>3. ASSUME NEW n, NEW i \in 1 .. Len(root), IsOf(root[i], n)
      PROVE  IsOf(root'[i], n)
  BY <1>1, <1>3 DEF IsOf
<1>4. ASSUME NEW n \in ToSet(load.nodes), n.kind = "declaration"
      PROVE  Waiting(n)' \/ InFront(n, load.after)'
  <2>1. CASE Waiting(n)
    <3>1. PICK q \in 1 .. Len(importedNodes) : IsOf(importedNodes[q], n)
      BY <2>1 DEF Waiting
    <3>2. q \in 1 .. Len(importedNodes') /\ importedNodes'[q] = importedNodes[q]
      BY DEF TypeInv, TypeOK
    <3> QED
      BY <3>1, <3>2 DEF Waiting
  <2>2. CASE InFront(n, load.after)
    <3>1. PICK i \in 1 .. Len(root) - load.after - 1 : IsOf(root[i], n)
      BY <2>2 DEF InFront
    <3>2. i \in 1 .. Len(root) /\ i \in 1 .. Len(root') - load.after - 1
      BY <1>1, <1>2
    <3> QED
      BY <1>3, <3>1, <3>2 DEF InFront
  <2> QED
    BY <1>4, <2>1, <2>2 DEF IsPlaced
<1> QED
  BY <1>1, <1>2, <1>4 DEF IsPlaced

\* The nodes of a module that is loaded now wait.
LEMMA LoadPlaces ==
  ASSUME TypeInv, NEW p \in Left("import"), root' = Done(p),
         NEW nodes \in Seq(Node), importedNodes' = importedNodes \o nodes,
         NEW load, load = Load(p, nodes)
  PROVE  IsPlaced(load)'
<1>1. root \in Seq(Node) /\ importedNodes \in Seq(Node)
  BY DEF TypeInv, TypeOK
<1>2. Len(root') = Len(root) /\ p[1] \in 1 .. Len(root)
  BY <1>1, DoneAt, LeftAt
<1>3. load.nodes = nodes /\ load.after = Len(root) - p[1]
  BY <1>1, LoadType
<1>4. load.after < Len(root')
  BY <1>2, <1>3
<1>5. ASSUME NEW n \in ToSet(nodes), n.kind = "declaration"
      PROVE  Waiting(n)'
  <2>1. PICK j \in 1 .. Len(nodes) : n = nodes[j]
    BY DEF ToSet
  <2>2. Len(importedNodes) + j \in 1 .. Len(importedNodes')
        /\ importedNodes'[Len(importedNodes) + j] = n
    BY <1>1, <2>1
  <2> QED
    BY <1>5, <2>2 DEF Waiting, IsOf
<1> QED
  BY <1>3, <1>4, <1>5 DEF IsPlaced

LEMMA InitPlaced == Init => PlacedInv
BY DEF Init, PlacedInv, AllPlaced

LEMMA AllPlacedBy ==
  ASSUME \A load : \A k \in 1 .. Len(loads') : load = loads'[k] => IsPlaced(load)'
  PROVE  AllPlaced'
<1> SUFFICES ASSUME NEW k \in 1 .. Len(loads')
             PROVE  IsPlaced(loads[k])'
  BY DEF AllPlaced
<1>1. PICK load : load = loads'[k]
  OBVIOUS
<1>2. IsPlaced(load)'
  BY <1>1
<1> QED
  BY <1>1, <1>2 DEF IsPlaced

LEMMA NextPlaced == TypeInv /\ PlacedInv /\ [Next]_vars => PlacedInv'
<1> SUFFICES ASSUME TypeInv, PlacedInv, [Next]_vars
             PROVE  PlacedInv'
  OBVIOUS
<1>1. ASSUME UNCHANGED <<root, importedNodes, loads>>
      PROVE  AllPlaced'
  BY <1>1 DEF PlacedInv, AllPlaced, IsPlaced, Waiting, InFront
<1>2. ASSUME root' = Splice, importedNodes' = <<>>, UNCHANGED loads
      PROVE  AllPlaced'
  <2>1. ASSUME NEW load, NEW k \in 1 .. Len(loads'), load = loads'[k]
        PROVE  IsPlaced(load)'
    <3>1. k \in 1 .. Len(loads) /\ load = loads[k]
      BY <1>2, <2>1
    <3>2. load.after \in Nat
      BY <3>1, LoadAfter
    <3>3. IsPlaced(load)
      BY <3>1 DEF PlacedInv, AllPlaced, IsPlaced
    <3> QED
      BY <1>2, <3>2, <3>3, SplicePlaces
  <2> QED
    BY <2>1, AllPlacedBy
<1>3. ASSUME NEW p \in Left("import"), root' = Done(p),
             NEW nodes \in Seq(Node), importedNodes' = importedNodes \o nodes,
             NEW load, NEW k \in 1 .. Len(loads), load = loads[k]
      PROVE  IsPlaced(load)'
  <2>1. load.after \in Nat
    BY <1>3, LoadAfter
  <2>2. IsPlaced(load)
    BY <1>3 DEF PlacedInv, AllPlaced, IsPlaced
  <2> QED
    BY <1>3, <2>1, <2>2, DonePlaces
<1>4. CASE IncludeFile
  BY <1>1, <1>4 DEF IncludeFile, PlacedInv
<1>5. CASE SpliceFiles
  BY <1>2, <1>5 DEF SpliceFiles, PlacedInv
<1>6. CASE SkipImported
  <2>1. PICK p : AtImport(p) /\ root' = Done(p)
    BY <1>6 DEF SkipImported
  <2>2. p \in Left("import") /\ UNCHANGED <<importedNodes, status, loads>>
    BY <1>6, <2>1, FirstIsLeft DEF SkipImported
  <2>3. importedNodes \in Seq(Node) /\ <<>> \in Seq(Node)
    BY DEF TypeInv, TypeOK
  <2>4. importedNodes' = importedNodes \o <<>>
    BY <2>2, <2>3
  <2>5. AllPlaced'
    BY <1>3, <2>1, <2>2, <2>3, <2>4, AllPlacedBy
  <2> QED
    BY <2>2, <2>5 DEF PlacedInv
<1>7. CASE ImportModule
  <2>1. PICK p : AtImport(p) /\ LoadModule(p) /\ root' = Done(p)
    BY <1>7 DEF ImportModule
  <2>2. p \in Left("import") /\ status = "importing" /\ status' = "importing"
    BY <1>7, <2>1, FirstIsLeft DEF ImportModule, AtImport
  <2>3. PICK nodes \in Seq(Node) :
          importedNodes' = importedNodes \o nodes /\ loads' = Append(loads, Load(p, nodes))
    BY <2>1, Loaded
  <2>4. loads \in Seq(LoadRecord)
    BY DEF TypeInv, TypeOK, LoadRecord
  <2>5. ASSUME NEW load, NEW k \in 1 .. Len(loads'), load = loads'[k]
        PROVE  IsPlaced(load)'
    <3>1. CASE k \in 1 .. Len(loads)
      <4>1. load = loads[k]
        BY <2>3, <2>4, <2>5, <3>1
      <4> QED
        BY <1>3, <2>1, <2>2, <2>3, <3>1, <4>1
    <3>2. CASE k = Len(loads) + 1
      <4>1. load = Load(p, nodes)
        BY <2>3, <2>4, <2>5, <3>2
      <4> QED
        BY <2>1, <2>2, <2>3, <4>1, LoadPlaces
    <3> QED
      BY <2>3, <2>4, <3>1, <3>2
  <2> QED
    BY <2>2, <2>5, AllPlacedBy DEF PlacedInv
<1>8. CASE ImportFails
  <2>1. UNCHANGED <<root, importedNodes, loads>> /\ status' = "exited"
    BY <1>8 DEF ImportFails
  <2> QED
    BY <1>1, <2>1 DEF PlacedInv
<1>9. CASE SpliceModules
  BY <1>2, <1>9 DEF SpliceModules, PlacedInv
<1>10. CASE Finished \/ UNCHANGED vars
  BY <1>1, <1>10 DEF Finished, vars, PlacedInv
<1> QED
  BY <1>4, <1>5, <1>6, <1>7, <1>8, <1>9, <1>10 DEF Next

\* The nodes of a module are in front of the node of the directive that imported it:
\* the round that loads them reverses them into the front of the root node (main.cpp,
\* lines 161-179), and no later round moves them behind it.
THEOREM ImportsImportsPrecede == Spec => []ImportsPrecede
<1>1. TypeInv /\ PlacedInv => ImportsPrecede
  <2> SUFFICES ASSUME TypeInv, PlacedInv, status = "imported",
                      NEW k \in 1 .. Len(loads), NEW n \in ToSet(loads[k].nodes),
                      n.kind = "declaration"
               PROVE  InFront(n, loads[k].after)
    BY DEF ImportsPrecede, InFront, IsOf
  <2>1. ~ Waiting(n)
    BY DEF PlacedInv, Waiting
  <2> QED
    BY <2>1 DEF PlacedInv, AllPlaced, IsPlaced
<1> QED
  BY <1>1, InitType, NextType, InitPlaced, NextPlaced, PTL DEF Spec

-----------------------------------------------------------------------------
(***************************************************************************)
(* The refinement: what is wanted grows only by a load, which is of a name *)
(* that is wanted.                                                         *)
(***************************************************************************)
\* A node asks for the module: itself, or a directive inside it.
Asks(n, name) ==
  \/ n.kind = "import" /\ n.name = name
  \/ /\ n.kind = "declaration"
     /\ \E j \in 1 .. Len(n.inside) : n.inside[j].kind = "import" /\ n.inside[j].name = name

LEMMA NamesInAsks ==
  ASSUME NEW nodes \in Seq(Node), NEW name
  PROVE  name \in NamesIn(nodes) <=> \E i \in 1 .. Len(nodes) : Asks(nodes[i], name)
<1>1. \A n : n \in ToSet(nodes) <=> \E i \in 1 .. Len(nodes) : nodes[i] = n
  BY DEF ToSet
<1>2. ASSUME NEW n \in ToSet(nodes), n.kind = "declaration"
      PROVE  \A d : d \in ToSet(n.inside) <=> \E j \in 1 .. Len(n.inside) : n.inside[j] = d
  <2>1. n \in Node
    BY <1>1
  <2>2. n.inside \in Seq(Directive)
    BY <1>2, <2>1, NodeFields
  <2> QED
    BY <2>2 DEF ToSet
<1>3. ASSUME name \in NamesIn(nodes)
      PROVE  \E i \in 1 .. Len(nodes) : Asks(nodes[i], name)
  <2>1. CASE name \in {n.name : n \in {m \in ToSet(nodes) : m.kind = "import"}}
    BY <1>1, <2>1 DEF Asks
  <2>2. CASE name \in UNION {{d.name : d \in {m \in ToSet(n.inside) : m.kind = "import"}} :
                               n \in {m \in ToSet(nodes) : m.kind = "declaration"}}
    <3>1. PICK n \in ToSet(nodes) : n.kind = "declaration"
                 /\ name \in {d.name : d \in {m \in ToSet(n.inside) : m.kind = "import"}}
      BY <2>2
    <3>2. PICK d \in ToSet(n.inside) : d.kind = "import" /\ d.name = name
      BY <3>1
    <3>3. Asks(n, name)
      BY <1>2, <3>1, <3>2 DEF Asks
    <3> QED
      BY <1>1, <3>3
  <2> QED
    BY <1>3, <2>1, <2>2 DEF NamesIn
<1>4. ASSUME NEW i \in 1 .. Len(nodes), Asks(nodes[i], name)
      PROVE  name \in NamesIn(nodes)
  <2>1. nodes[i] \in ToSet(nodes)
    BY <1>1
  <2>2. CASE nodes[i].kind = "import" /\ nodes[i].name = name
    BY <2>1, <2>2 DEF NamesIn
  <2>3. CASE /\ nodes[i].kind = "declaration"
             /\ \E j \in 1 .. Len(nodes[i].inside) :
                  nodes[i].inside[j].kind = "import" /\ nodes[i].inside[j].name = name
    <3>1. PICK d \in ToSet(nodes[i].inside) : d.kind = "import" /\ d.name = name
      BY <1>2, <2>1, <2>3
    <3> QED
      BY <2>1, <2>3, <3>1 DEF NamesIn
  <2> QED
    BY <1>4, <2>2, <2>3 DEF Asks
<1> QED
  BY <1>3, <1>4

LEMMA NamesInConcat ==
  ASSUME NEW s \in Seq(Node), NEW t \in Seq(Node)
  PROVE  NamesIn(s \o t) = NamesIn(s) \cup NamesIn(t)
<1>1. ASSUME NEW name
      PROVE  name \in NamesIn(s \o t) <=> name \in NamesIn(s) \/ name \in NamesIn(t)
  <2> DEFINE st == s \o t
  <2>1. /\ st \in Seq(Node)
        /\ Len(st) = Len(s) + Len(t)
        /\ \A i \in 1 .. Len(s) : st[i] = s[i]
        /\ \A i \in 1 .. Len(t) : st[Len(s) + i] = t[i]
        /\ \A i \in 1 .. Len(st) : \/ i \in 1 .. Len(s)
                                   \/ i - Len(s) \in 1 .. Len(t) /\ st[i] = t[i - Len(s)]
    OBVIOUS
  <2> HIDE DEF st
  <2>2. (\E i \in 1 .. Len(st) : Asks(st[i], name))
          <=> \/ \E i \in 1 .. Len(s) : Asks(s[i], name)
              \/ \E i \in 1 .. Len(t) : Asks(t[i], name)
    <3>1. ASSUME NEW i \in 1 .. Len(st), Asks(st[i], name)
          PROVE  \/ \E k \in 1 .. Len(s) : Asks(s[k], name)
                 \/ \E k \in 1 .. Len(t) : Asks(t[k], name)
      BY <2>1, <3>1
    <3>2. ASSUME NEW i \in 1 .. Len(s), Asks(s[i], name)
          PROVE  i \in 1 .. Len(st) /\ Asks(st[i], name)
      BY <2>1, <3>2
    <3>3. ASSUME NEW i \in 1 .. Len(t), Asks(t[i], name)
          PROVE  Len(s) + i \in 1 .. Len(st) /\ Asks(st[Len(s) + i], name)
      BY <2>1, <3>3
    <3> QED
      BY <3>1, <3>2, <3>3
  <2>3. name \in NamesIn(st) <=> \E i \in 1 .. Len(st) : Asks(st[i], name)
    BY <2>1, NamesInAsks
  <2> QED
    BY <2>2, <2>3, NamesInAsks DEF st
<1> QED
  BY <1>1

LEMMA NamesInSplice ==
  ASSUME root \in Seq(Node), importedNodes \in Seq(Node)
  PROVE  NamesIn(Splice) = NamesIn(root) \cup NamesIn(importedNodes)
<1> DEFINE r == Reverse(importedNodes)
<1>1. /\ r \in Seq(Node)
      /\ Len(r) = Len(importedNodes)
      /\ \A i \in 1 .. Len(r) : r[i] = importedNodes[(Len(importedNodes) - i) + 1]
  BY DEF Reverse
<1> HIDE DEF r
<1>2. ASSUME NEW name
      PROVE  name \in NamesIn(r) <=> name \in NamesIn(importedNodes)
  <2>1. ASSUME NEW i \in 1 .. Len(r), Asks(r[i], name)
        PROVE  \E k \in 1 .. Len(importedNodes) : Asks(importedNodes[k], name)
    <3>1. (Len(importedNodes) - i) + 1 \in 1 .. Len(importedNodes)
      BY <1>1
    <3> QED
      BY <1>1, <2>1, <3>1
  <2>2. ASSUME NEW k \in 1 .. Len(importedNodes), Asks(importedNodes[k], name)
        PROVE  \E i \in 1 .. Len(r) : Asks(r[i], name)
    <3>1. /\ (Len(importedNodes) - k) + 1 \in 1 .. Len(r)
          /\ (Len(importedNodes) - ((Len(importedNodes) - k) + 1)) + 1 = k
      BY <1>1
    <3>2. r[(Len(importedNodes) - k) + 1] = importedNodes[k]
      BY <1>1, <3>1
    <3> QED
      BY <2>2, <3>1, <3>2
  <2> QED
    BY <1>1, <2>1, <2>2, NamesInAsks
<1>3. NamesIn(r) = NamesIn(importedNodes)
  BY <1>2
<1>4. NamesIn(Splice) = NamesIn(r) \cup NamesIn(root)
  BY <1>1, NamesInConcat DEF Splice, r
<1> QED
  BY <1>3, <1>4

\* To deal with a directive takes away what it asks for, and nothing else.
LEMMA NamesInDone ==
  ASSUME root \in Seq(Node), NEW p \in Left("import")
  PROVE  /\ DirectiveAt(p).name \in NamesIn(root)
         /\ NamesIn(root) = NamesIn(Done(p)) \cup {DirectiveAt(p).name}
<1> DEFINE asked == DirectiveAt(p).name
           done == Done(p)
           n == root[p[1]]
           m == done[p[1]]
<1>1. /\ p[1] \in 1 .. Len(root)
      /\ \/ p[2] = 0 /\ n.kind # "declaration"
         \/ p[2] # 0 /\ n.kind = "declaration" /\ p[2] \in 1 .. Len(n.inside)
      /\ DirectiveAt(p).kind = "import"
  BY LeftAt
<1>2. /\ done \in Seq(Node)
      /\ Len(done) = Len(root)
      /\ \A i \in 1 .. Len(root) : i # p[1] => done[i] = root[i]
  BY DoneAt
<1>3. Asks(n, asked)
  BY <1>1 DEF DirectiveAt, Asks
<1>4. ASSUME NEW name
      PROVE  /\ Asks(m, name) => Asks(n, name)
             /\ Asks(n, name) => Asks(m, name) \/ name = asked
  <2>1. CASE p[2] = 0
    <3>1. m = [kind |-> "nothing"]
      BY <2>1, DoneAt
    <3>2. n.kind # "declaration" /\ asked = n.name
      BY <1>1, <2>1 DEF DirectiveAt
    <3> QED
      BY <3>1, <3>2 DEF Asks
  <2>2. CASE p[2] # 0
    <3> DEFINE inside == [n.inside EXCEPT ![p[2]] = [kind |-> "nothing"]]
    <3>1. n.kind = "declaration" /\ p[2] \in 1 .. Len(n.inside)
      BY <1>1, <2>2
    <3>2. m.kind = "declaration" /\ m.inside = inside
      BY <2>2, DoneAt
    <3>3. n.inside \in Seq(Directive)
      BY <1>1, <3>1, NodeFields
    <3>4. /\ Len(inside) = Len(n.inside)
          /\ inside[p[2]] = [kind |-> "nothing"]
          /\ \A j \in 1 .. Len(n.inside) : j # p[2] => inside[j] = n.inside[j]
      BY <3>1, <3>3
    <3>5. asked = n.inside[p[2]].name
      BY <2>2 DEF DirectiveAt
    <3> HIDE DEF inside, n, m, asked
    <3>6. ASSUME NEW j \in 1 .. Len(n.inside), inside[j].kind = "import"
          PROVE  j # p[2] /\ inside[j] = n.inside[j]
      BY <3>4, <3>6
    <3> QED
      BY <3>1, <3>2, <3>4, <3>5, <3>6 DEF Asks
  <2> QED
    BY <2>1, <2>2
<1> HIDE DEF done, n, m, asked
<1>5. ASSUME NEW name
      PROVE  /\ name \in NamesIn(done) => name \in NamesIn(root)
             /\ name \in NamesIn(root) => name \in NamesIn(done) \/ name = asked
  <2>1. name \in NamesIn(done) <=> \E i \in 1 .. Len(done) : Asks(done[i], name)
    BY <1>2, NamesInAsks
  <2>2. name \in NamesIn(root) <=> \E i \in 1 .. Len(root) : Asks(root[i], name)
    BY NamesInAsks
  <2>3. ASSUME NEW i \in 1 .. Len(root)
        PROVE  /\ Asks(done[i], name) => Asks(root[i], name)
               /\ Asks(root[i], name) => Asks(done[i], name) \/ name = asked
    <3>1. CASE i = p[1]
      BY <1>4, <3>1 DEF n, m
    <3>2. CASE i # p[1]
      BY <1>2, <3>2
    <3> QED
      BY <3>1, <3>2
  <2> QED
    BY <1>2, <2>1, <2>2, <2>3
<1>6. asked \in NamesIn(root)
  BY <1>1, <1>3, NamesInAsks DEF n
<1>7. NamesIn(root) \subseteq NamesIn(done) \cup {asked} /\ NamesIn(done) \subseteq NamesIn(root)
  BY <1>5
<1> QED
  BY <1>6, <1>7 DEF asked, done

\* When no import is left, nothing is asked for.
LEMMA NothingAsked ==
  ASSUME root \in Seq(Node), Left("import") = {}
  PROVE  NamesIn(root) = {}
<1>1. ASSUME NEW name, name \in NamesIn(root)
      PROVE  FALSE
  <2>1. PICK i \in 1 .. Len(root) : Asks(root[i], name)
    BY <1>1, NamesInAsks
  <2>2. CASE root[i].kind = "import"
    <3>1. <<i, 0>> \in Positions /\ DirectiveAt(<<i, 0>>) = root[i]
      BY <2>2 DEF Positions, DirectiveAt
    <3> QED
      BY <2>2, <3>1 DEF Left
  <2>3. CASE root[i].kind = "declaration"
    <3>1. PICK j \in 1 .. Len(root[i].inside) : root[i].inside[j].kind = "import"
      BY <2>1, <2>3 DEF Asks
    <3>2. root[i].inside \in Seq(Directive)
      BY <2>3, NodeFields
    <3>3. j # 0
      BY <3>2
    <3>4. <<i, j>> \in Positions
      BY <2>3 DEF Positions
    <3>5. DirectiveAt(<<i, j>>) = root[i].inside[j]
      BY <3>3 DEF DirectiveAt
    <3> QED
      BY <3>1, <3>4, <3>5 DEF Left
  <2> QED
    BY <2>1, <2>2, <2>3 DEF Asks
<1> QED
  BY <1>1

LEMMA NamesInEmpty == NamesIn(<<>>) = {}
BY DEF NamesIn, ToSet

Wanted == NamesIn(root) \cup NamesIn(importedNodes) \cup importedModuleNames

LEMMA SpliceWants ==
  ASSUME TypeInv, root' = Splice, importedNodes' = <<>>, UNCHANGED importedModuleNames
  PROVE  UNCHANGED Wanted
<1>1. NamesIn(root') = NamesIn(root) \cup NamesIn(importedNodes)
  BY NamesInSplice DEF TypeInv, TypeOK
<1>2. NamesIn(importedNodes') = {}
  BY NamesInEmpty
<1> QED
  BY <1>1, <1>2 DEF Wanted

LEMMA ClosureInit == Init => Closure!Init
BY DEF Init, Closure!Init

LEMMA ClosureFail ==
  ASSUME status = "importing", status' = "exited",
         UNCHANGED <<root, importedNodes, importedModuleNames>>
  PROVE  Closure!Next
<1>1. UNCHANGED Wanted
  BY DEF Wanted
<1> QED
  BY <1>1 DEF Closure!Fail, Closure!Next, Wanted

LEMMA NextImplementsClosure == TypeInv /\ [Next]_vars => [Closure!Next]_(Closure!closureVars)
<1> SUFFICES ASSUME TypeInv, [Next]_vars
             PROVE  Closure!Next \/ UNCHANGED Closure!closureVars
  OBVIOUS
<1>1. ASSUME UNCHANGED <<Wanted, importedModuleNames, status>>
      PROVE  UNCHANGED Closure!closureVars
  BY <1>1 DEF Closure!closureVars, Wanted
<1>2. CASE IncludeFile
  BY <1>2, ClosureFail DEF IncludeFile
<1>3. CASE SpliceFiles
  <2>1. UNCHANGED <<Wanted, importedModuleNames, status>>
    BY <1>3, SpliceWants DEF SpliceFiles
  <2> QED
    BY <1>1, <2>1
<1>4. CASE SkipImported
  <2>1. PICK p : AtImport(p) /\ IsImported(p) /\ root' = Done(p)
    BY <1>4 DEF SkipImported
  <2>2. UNCHANGED <<importedNodes, importedModuleNames, status>>
    BY <1>4 DEF SkipImported
  <2>3. NamesIn(root) = NamesIn(root') \cup {DirectiveAt(p).name}
    BY <2>1, FirstIsLeft, NamesInDone DEF TypeInv, TypeOK
  <2>4. UNCHANGED Wanted
    BY <2>1, <2>2, <2>3 DEF Wanted, IsImported
  <2> QED
    BY <1>1, <2>2, <2>4
<1>5. CASE ImportModule
  <2>1. PICK p : /\ AtImport(p) /\ ~IsImported(p) /\ LoadModule(p) /\ root' = Done(p)
                 /\ importedModuleNames' = importedModuleNames \cup {DirectiveAt(p).name}
    BY <1>5 DEF ImportModule
  <2>2. status = "importing" /\ UNCHANGED status
    BY <1>5, <2>1 DEF ImportModule, AtImport
  <2> DEFINE name == DirectiveAt(p).name
  <2>3. name \in NamesIn(root) /\ NamesIn(root) = NamesIn(root') \cup {name}
    BY <2>1, FirstIsLeft, NamesInDone DEF TypeInv, TypeOK
  <2>4. PICK nodes \in Seq(Node) : importedNodes' = importedNodes \o nodes
    BY <2>1, Loaded
  <2>5. NamesIn(importedNodes') = NamesIn(importedNodes) \cup NamesIn(nodes)
    BY <2>4, NamesInConcat DEF TypeInv, TypeOK
  <2>6. name \in Wanted \ importedModuleNames
    BY <2>1, <2>3 DEF Wanted, IsImported
  <2>7. Wanted \subseteq Wanted'
    BY <2>1, <2>3, <2>5 DEF Wanted
  <2>8. Closure!Load
    BY <2>1, <2>2, <2>6, <2>7 DEF Closure!Load, Wanted
  <2> QED
    BY <2>8 DEF Closure!Next
<1>6. CASE ImportFails
  <2>1. status = "importing" /\ status' = "exited"
        /\ UNCHANGED <<root, importedNodes, importedModuleNames>>
    BY <1>6 DEF ImportFails, AtImport
  <2> QED
    BY <2>1, ClosureFail
<1>7. CASE SpliceModules
  <2>1. UNCHANGED <<Wanted, importedModuleNames>>
    BY <1>7, SpliceWants DEF SpliceModules
  <2>2. CASE importedNodes = <<>>
    <3>1. NamesIn(root) = {} /\ NamesIn(importedNodes) = {}
      BY <1>7, <2>2, NothingAsked, NamesInEmpty DEF SpliceModules, TypeInv, TypeOK
    <3>2. Wanted \subseteq importedModuleNames
      BY <3>1 DEF Wanted
    <3>3. status = "importing" /\ status' = "imported"
      BY <1>7, <2>2 DEF SpliceModules
    <3>4. Closure!Finish
      BY <2>1, <3>2, <3>3 DEF Closure!Finish, Wanted
    <3> QED
      BY <3>4 DEF Closure!Next
  <2>3. CASE importedNodes # <<>>
    <3>1. UNCHANGED status
      BY <1>7, <2>3 DEF SpliceModules
    <3> QED
      BY <1>1, <2>1, <3>1
  <2> QED
    BY <2>2, <2>3
<1>8. CASE Finished \/ UNCHANGED vars
  BY <1>1, <1>8 DEF Finished, vars, Wanted
<1> QED
  BY <1>2, <1>3, <1>4, <1>5, <1>6, <1>7, <1>8 DEF Next

\* The import loop of main (main.cpp, lines 159-182) implements ImportClosure: every module
\* that a directive asks for is loaded, once, and the loop is left when none is missing.
THEOREM ImportsImplementsImportClosure == Spec => ImplementsImportClosure
BY ClosureInit, NextImplementsClosure, InitType, NextType, PTL
   DEF Spec, ImplementsImportClosure, Closure!Spec

=============================================================================
