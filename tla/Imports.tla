------------------------------- MODULE Imports -------------------------------
(***************************************************************************)
(* The loop of main that splices imported nodes into the root node         *)
(* (src/src/main.cpp, lines 159-182), with addFileIncludes,                *)
(* addModuleImports and loadModule (src/src/parser.cpp).                   *)
(*                                                                         *)
(* A node is a declaration, which may have directives inside, or a         *)
(* directive.  A file is the sequence of the modules defined in it, and a  *)
(* directory the set of its files, in the order the operating system likes. *)
(***************************************************************************)
EXTENDS Integers, Sequences, SequencesExt, FiniteSets

\* A project is its main file, and the directories below its own path and below that of
\* the compiler's modules: a path has a set of files.
CONSTANT Projects

\* #import A.B.C; has path <<"A", "B">>, and #import C; the empty path.
Import == [kind : {"import"}, path : Seq(STRING), name : STRING]
Include == [kind : {"file"}]
Nothing == [kind : {"nothing"}]
Directive == Import \cup Include \cup Nothing
Node == Directive \cup [kind : {"declaration"}, id : STRING, inside : Seq(Directive)]

Module == [name : STRING, nodes : Seq(Node)]
File == [valid : BOOLEAN, modules : Seq(Module)]

IsPlace(place) ==
  /\ DOMAIN place \subseteq Seq(STRING)
  /\ \A path \in DOMAIN place : place[path] \subseteq File

ASSUME ProjectsAssumption ==
  \A p \in Projects : p.main \in Seq(Node) /\ IsPlace(p.project) /\ IsPlace(p.modules)

VARIABLES
  files,                \* [project, modules]: the directories below the two search paths
  root,                 \* rootNode->childNodes
  importedNodes,
  importedModuleNames,
  phase,                \* "files", "modules": the traversal of this round; or "done"
  status,               \* "importing", "exited" or "imported"
  loads                 \* history: the modules loaded, and the directives that did it

vars == <<files, root, importedNodes, importedModuleNames, phase, status, loads>>

-----------------------------------------------------------------------------
(***************************************************************************)
(* The traversal: directives are taken in the order of the nodes, and each *)
(* becomes a Nothing_Node when it has been dealt with.  The root node does *)
(* not change otherwise, so the next one is always the first one left.     *)
(***************************************************************************)
Positions == {<<i, 0>> : i \in {k \in 1 .. Len(root) : root[k].kind # "declaration"}}
             \cup UNION {{<<i, j>> : j \in 1 .. Len(root[i].inside)} :
                           i \in {k \in 1 .. Len(root) : root[k].kind = "declaration"}}

DirectiveAt(p) == IF p[2] = 0 THEN root[p[1]] ELSE root[p[1]].inside[p[2]]

Left(kind) == {p \in Positions : DirectiveAt(p).kind = kind}

Before(p, q) == p[1] < q[1] \/ (p[1] = q[1] /\ p[2] <= q[2])

\* The first one left, if there is one
First(kind) == {p \in Left(kind) : \A q \in Left(kind) : Before(p, q)}

\* Mutant of Done: the directive stays in the tree.
NotDone(p) == root

Done(p) ==
  IF p[2] = 0 THEN [root EXCEPT ![p[1]] = [kind |-> "nothing"]]
              ELSE [root EXCEPT ![p[1]].inside[p[2]] = [kind |-> "nothing"]]

-----------------------------------------------------------------------------
(***************************************************************************)
(* loadModule reads the files of a directory until one defines the module. *)
(* A file that has invalid tokens ends the compiler.                       *)
(***************************************************************************)
FilesIn(place, path) == IF path \in DOMAIN place THEN place[path] ELSE {}

Defines(f, name) == \E k \in 1 .. Len(f.modules) : f.modules[k].name = name

Defining(place, directive) ==
  {f \in FilesIn(place, directive.path) : f.valid /\ Defines(f, directive.name)}

\* The project's directory is searched before that of the compiler's modules.
Candidates(directive) ==
  IF Defining(files.project, directive) # {} THEN Defining(files.project, directive)
                                             ELSE Defining(files.modules, directive)

\* What the first module of the name in the file holds, if there is one
Content(f, name) ==
  LET named == {k \in 1 .. Len(f.modules) : f.modules[k].name = name}
  IN {f.modules[k].nodes : k \in {i \in named : \A j \in named : i <= j}}

Searched(directive) ==
  FilesIn(files.project, directive.path)
    \cup (IF Defining(files.project, directive) # {} THEN {}
          ELSE FilesIn(files.modules, directive.path))

Invalid(fs) == \E f \in fs : ~f.valid

MustFail(directive) ==
  \/ Candidates(directive) = {}
  \/ /\ Defining(files.project, directive) = {}
     /\ Invalid(FilesIn(files.project, directive.path))

MayFail(directive) == Candidates(directive) = {} \/ Invalid(Searched(directive))

-----------------------------------------------------------------------------
Init ==
  /\ \E p \in Projects : files = [project |-> p.project, modules |-> p.modules] /\ root = p.main
  /\ importedNodes = <<>>
  /\ importedModuleNames = {}
  /\ phase = "files"
  /\ status = "importing"
  /\ loads = <<>>

(***************************************************************************)
(* addFileIncludes                                                         *)
(***************************************************************************)
\* The parser makes a String_Constant_Node of a string literal, which is not the
\* String_Node that is expected here.
IncludeFile ==
  /\ status = "importing"
  /\ phase = "files"
  /\ Left("file") # {}
  /\ status' = "exited"
  /\ UNCHANGED <<files, root, importedNodes, importedModuleNames, phase, loads>>

\* Mutant of Splice: the nodes are inserted at the end.
SpliceAtEnd == root \o importedNodes

\* The nodes are inserted at the front one by one, so that the last comes first.
Splice == Reverse(importedNodes) \o root

SpliceFiles ==
  /\ status = "importing"
  /\ phase = "files"
  /\ Left("file") = {}
  /\ root' = Splice
  /\ importedNodes' = <<>>
  /\ phase' = "modules"
  /\ UNCHANGED <<files, importedModuleNames, status, loads>>

(***************************************************************************)
(* addModuleImports                                                        *)
(***************************************************************************)
AtImport(p) ==
  /\ status = "importing"
  /\ phase = "modules"
  /\ p \in First("import")

IsImported(p) == DirectiveAt(p).name \in importedModuleNames

\* Only the last name of the directive is looked at.
SkipImported ==
  \E p \in First("import") :
    /\ AtImport(p)
    /\ IsImported(p)
    /\ root' = Done(p)
    /\ UNCHANGED <<files, importedNodes, importedModuleNames, phase, status, loads>>

\* The load of what is in a file, made by the directive at p
Load(p, nodes) == [path |-> DirectiveAt(p).path, name |-> DirectiveAt(p).name, nodes |-> nodes,
                   after |-> Len(root) - p[1]]

\* The module is loaded from one of the files that define it.
LoadModule(p) ==
  /\ ~MustFail(DirectiveAt(p))
  /\ \E f \in Candidates(DirectiveAt(p)) : \E nodes \in Content(f, DirectiveAt(p).name) :
       /\ importedNodes' = importedNodes \o nodes
       /\ loads' = Append(loads, Load(p, nodes))

\* Mutant of ImportModule: the name is not remembered.
ImportModuleForgetfully ==
  \E p \in First("import") :
    /\ AtImport(p)
    /\ ~IsImported(p)
    /\ LoadModule(p)
    /\ root' = Done(p)
    /\ UNCHANGED <<files, importedModuleNames, phase, status>>

ImportModule ==
  \E p \in First("import") :
    /\ AtImport(p)
    /\ ~IsImported(p)
    /\ LoadModule(p)
    /\ importedModuleNames' = importedModuleNames \cup {DirectiveAt(p).name}
    /\ root' = Done(p)
    /\ UNCHANGED <<files, phase, status>>

\* Mutant of ImportFails: the loop is left, but not the compiler.
ImportFailsInLoop ==
  \E p \in First("import") :
    /\ AtImport(p)
    /\ ~IsImported(p)
    /\ MayFail(DirectiveAt(p))
    /\ phase' = "done"
    /\ UNCHANGED <<files, root, importedNodes, importedModuleNames, status, loads>>

\* exit(1): invalid tokens on the way, or no module of the name.
ImportFails ==
  \E p \in First("import") :
    /\ AtImport(p)
    /\ ~IsImported(p)
    /\ MayFail(DirectiveAt(p))
    /\ status' = "exited"
    /\ UNCHANGED <<files, root, importedNodes, importedModuleNames, phase, loads>>

\* The loop ends after a round in which nothing was imported.
SpliceModules ==
  /\ status = "importing"
  /\ phase = "modules"
  /\ Left("import") = {}
  /\ root' = Splice
  /\ importedNodes' = <<>>
  /\ IF importedNodes = <<>>
     THEN phase' = "done" /\ status' = "imported"
     ELSE phase' = "files" /\ UNCHANGED status
  /\ UNCHANGED <<files, importedModuleNames, loads>>

Finished == status # "importing" /\ UNCHANGED vars

Next ==
  \/ IncludeFile \/ SpliceFiles
  \/ SkipImported \/ ImportModule \/ ImportFails \/ SpliceModules
  \/ Finished

Spec == Init /\ [][Next]_vars /\ WF_vars(Next)

-----------------------------------------------------------------------------
(***************************************************************************)
(* Properties                                                              *)
(***************************************************************************)
\* Nodes stay nodes, and a name is known as imported when a module has been loaded.
TypeOK ==
  /\ root \in Seq(Node)
  /\ importedNodes \in Seq(Node)
  /\ importedModuleNames \subseteq STRING
  /\ phase \in {"files", "modules", "done"}
  /\ status \in {"importing", "exited", "imported"}
  /\ status = "imported" <=> phase = "done"
  /\ loads \in Seq([path : Seq(STRING), name : STRING, nodes : Seq(Node), after : Nat])

\* What a directive imports is in the root node, before the node of the directive.
ImportsPrecede ==
  status = "imported" =>
    \A k \in 1 .. Len(loads) : \A n \in ToSet(loads[k].nodes) :
      n.kind = "declaration" =>
        \E i \in 1 .. Len(root) - loads[k].after - 1 :
          root[i].kind = "declaration" /\ root[i].id = n.id

\* The loop implements the closure of the imports.
NamesIn(nodes) ==
  {n.name : n \in {m \in ToSet(nodes) : m.kind = "import"}}
  \cup UNION {{d.name : d \in {m \in ToSet(n.inside) : m.kind = "import"}} :
               n \in {m \in ToSet(nodes) : m.kind = "declaration"}}

Closure == INSTANCE ImportClosure WITH
  wanted <- NamesIn(root) \cup NamesIn(importedNodes) \cup importedModuleNames,
  loaded <- importedModuleNames,
  outcome <- CASE status = "importing" -> "none"
               [] status = "imported" -> "complete"
               [] status = "exited" -> "failed"

ImplementsImportClosure == Closure!Spec

Terminates == <>(status # "importing")

=============================================================================
