----------------------------- MODULE ControlFlow -----------------------------
(***************************************************************************)
(* The basic blocks that generateScopeBody, generateIf, generateFor,       *)
(* generateReturn and generateFunction make of a function body             *)
(* (src/src/codegen.cpp), and what running them does, beside what the      *)
(* source says.                                                            *)
(*                                                                         *)
(* A statement that only computes is one instruction; a condition and the  *)
(* limit of a range are known by the id of their statement.                *)
(***************************************************************************)
EXTENDS Integers, Sequences, SequencesExt, FiniteSets

CONSTANTS
  Statements,   \* the statements, those inside others among them
  Bodies        \* sequences of statements

(***************************************************************************)
(* "do" computes; "return"; "if" has then and else; "for" has a body;      *)
(* "while" stands for the statements without a code generator: while,      *)
(* break, continue and goto.  An if or a for may be `invalid': the code of *)
(* its condition, or of the start of its range, is a null pointer, and     *)
(* wasError is not set.                                                    *)
(***************************************************************************)
Kinds == {"do", "return", "if", "for", "while"}

ASSUME StatementsAssumption ==
  /\ Statements \subseteq
       [kind : {"do", "return", "while"}, id : STRING]
       \cup [kind : {"if"}, id : STRING, then : Seq(Statements), else : Seq(Statements),
             invalid : BOOLEAN]
       \cup [kind : {"for"}, id : STRING, body : Seq(Statements), invalid : BOOLEAN]
  /\ Bodies \subseteq Seq(Statements)

VARIABLES
  body,
  blocks,    \* the instructions of the basic blocks; the first is "entry"
  insert,    \* Builder's insertion point: the end of that block
  todo,      \* what the calls that have not returned are still going to do
  status,    \* "generating", "exited", "running" or "returned"
  pc,        \* block and index of the instruction to run
  rest       \* what the source says is still to be done

vars == <<body, blocks, insert, todo, status, pc, rest>>

Instruction(op, id, targets) == [op |-> op, id |-> id, targets |-> targets]
Br(b) == Instruction("br", "", <<b>>)
CondBr(id, b, c) == Instruction("cond", id, <<b, c>>)
Ret == Instruction("ret", "", <<>>)

Terminators == {"br", "cond", "ret"}

-----------------------------------------------------------------------------
Init == /\ body \in Bodies
        /\ blocks = <<<<>>>>
        /\ insert = 1
        /\ todo = body
        /\ status = "generating"
        /\ pc = <<1, 1>>
        /\ rest = body

Task == Head(todo)
At(kind) == status = "generating" /\ todo # <<>> /\ Task.kind = kind

\* New blocks are empty.
WithNew(n) == blocks \o [i \in 1 .. n |-> <<>>]
New(i) == Len(blocks) + i

\* The instructions go to the end of the current block, whatever is there.
EmitTo(bs, instructions) == [bs EXCEPT ![insert] = @ \o instructions]
Emit(instructions) == EmitTo(blocks, instructions)

NotRun == UNCHANGED <<body, status, pc, rest>>

GenerateExpression ==
  /\ At("do")
  /\ blocks' = Emit(<<Instruction("do", Task.id, <<>>)>>)
  /\ todo' = Tail(todo)
  /\ NotRun /\ UNCHANGED insert

\* CreateRet, and the next statement is generated.
GenerateReturn ==
  /\ At("return")
  /\ blocks' = Emit(<<Ret>>)
  /\ todo' = Tail(todo)
  /\ NotRun /\ UNCHANGED insert

Invalid ==
  /\ At("if") \/ At("for")
  /\ Task.invalid
  /\ todo' = Tail(todo)
  /\ NotRun /\ UNCHANGED <<blocks, insert>>

\* Mutant of GenerateIf: there is no merge block.
GenerateIfUnmerged ==
  /\ At("if")
  /\ ~Task.invalid
  /\ blocks' = EmitTo(WithNew(2), <<CondBr(Task.id, New(1), New(2))>>)
  /\ insert' = New(1)
  /\ todo' = Task.then \o <<[kind |-> "else", else |-> Task.else, elseBB |-> New(2), mergeBB |-> New(3)]>>
             \o Tail(todo)
  /\ NotRun

\* ThenBB, ElseBB, MergeBB
GenerateIf ==
  /\ At("if")
  /\ ~Task.invalid
  /\ blocks' = EmitTo(WithNew(3), <<CondBr(Task.id, New(1), New(2))>>)
  /\ insert' = New(1)
  /\ todo' = Task.then \o <<[kind |-> "else", else |-> Task.else, elseBB |-> New(2), mergeBB |-> New(3)]>>
             \o Tail(todo)
  /\ NotRun

GenerateElse ==
  /\ At("else")
  /\ blocks' = Emit(<<Br(Task.mergeBB)>>)
  /\ insert' = Task.elseBB
  /\ todo' = Task.else \o <<[kind |-> "merge", mergeBB |-> Task.mergeBB]>> \o Tail(todo)
  /\ NotRun

Merge ==
  /\ At("merge")
  /\ blocks' = Emit(<<Br(Task.mergeBB)>>)
  /\ insert' = Task.mergeBB
  /\ todo' = Tail(todo)
  /\ NotRun

\* LoopCondBB, LoopBB, AfterBB; the limit is computed in LoopCondBB.
GenerateFor ==
  /\ At("for")
  /\ ~Task.invalid
  /\ blocks' = [EmitTo(WithNew(3), <<Instruction("start", Task.id, <<>>), Br(New(1))>>)
                  EXCEPT ![New(1)] = <<CondBr(Task.id, New(2), New(3))>>]
  /\ insert' = New(2)
  /\ todo' = Task.body
             \o <<[kind |-> "step", id |-> Task.id, loopCondBB |-> New(1), afterBB |-> New(3)]>>
             \o Tail(todo)
  /\ NotRun

\* Mutant of GenerateStep: the loop ends after its body.
GenerateStepOnce ==
  /\ At("step")
  /\ blocks' = Emit(<<Instruction("step", Task.id, <<>>), Br(Task.afterBB)>>)
  /\ insert' = Task.afterBB
  /\ todo' = Tail(todo)
  /\ NotRun

GenerateStep ==
  /\ At("step")
  /\ blocks' = Emit(<<Instruction("step", Task.id, <<>>), Br(Task.loopCondBB)>>)
  /\ insert' = Task.afterBB
  /\ todo' = Tail(todo)
  /\ NotRun

\* wasError is set, and the caller exits.
NoCodeGenerator ==
  /\ At("while")
  /\ status' = "exited"
  /\ UNCHANGED <<body, blocks, insert, todo, pc, rest>>

\* The default return, in the last block; what verifyFunction says is not looked at.
EndFunction ==
  /\ status = "generating"
  /\ todo = <<>>
  /\ blocks' = Emit(<<Ret>>)
  /\ status' = "running"
  /\ UNCHANGED <<body, insert, todo, pc, rest>>

-----------------------------------------------------------------------------
(***************************************************************************)
(* LLVM, external to the compiler: the blocks run as they read when they   *)
(* are written and parsed again, up to the first terminator.  What the     *)
(* source has still to do is kept along.                                   *)
(***************************************************************************)
Instr == blocks[pc[1]][pc[2]]
Runs(op) == /\ status = "running"
            /\ pc[2] <= Len(blocks[pc[1]])
            /\ Instr.op = op

NotGenerated == UNCHANGED <<body, blocks, insert, todo>>

\* What the source says, from the first statement that is not dropped.
Dropped(s) == s.kind \in {"if", "for"} /\ s.invalid
FromFirstKept(c) ==
  SubSeq(c, Min({k \in 1 .. Len(c) : ~Dropped(c[k])} \cup {Len(c) + 1}), Len(c))
Pending == FromFirstKept(rest)

RunBr == /\ Runs("br")
         /\ pc' = <<Instr.targets[1], 1>>
         /\ NotGenerated /\ UNCHANGED <<status, rest>>

RunRet == /\ Runs("ret")
          /\ status' = "returned"
          /\ NotGenerated /\ UNCHANGED <<pc, rest>>

\* A for goes on with the test of its range.
RunInstruction ==
  /\ Runs("do") \/ Runs("start") \/ Runs("step")
  /\ pc' = <<pc[1], pc[2] + 1>>
  /\ rest' = (IF Instr.op = "start" THEN <<[Head(Pending) EXCEPT !.kind = "test"]>> ELSE <<>>)
             \o Tail(Pending)
  /\ NotGenerated /\ UNCHANGED status

\* A condition is true or false; that of a loop comes again after the step.
RunCond ==
  /\ Runs("cond")
  /\ LET statement == Head(Pending) IN
     \/ /\ pc' = <<Instr.targets[1], 1>>
        /\ rest' = CASE statement.kind = "if" -> statement.then \o Tail(Pending)
                     [] statement.kind = "test" ->
                          statement.body \o <<[kind |-> "step", id |-> statement.id]>> \o Pending
     \/ /\ pc' = <<Instr.targets[2], 1>>
        /\ rest' = CASE statement.kind = "if" -> statement.else \o Tail(Pending)
                     [] statement.kind = "test" -> Tail(Pending)
  /\ NotGenerated /\ UNCHANGED status

Finished == status \in {"exited", "returned"} /\ UNCHANGED vars

Next ==
  \/ GenerateExpression \/ GenerateReturn \/ Invalid
  \/ GenerateIf \/ GenerateElse \/ Merge
  \/ GenerateFor \/ GenerateStep
  \/ NoCodeGenerator \/ EndFunction
  \/ RunBr \/ RunRet \/ RunInstruction \/ RunCond
  \/ Finished

Spec == Init /\ [][Next]_vars /\ WF_vars(Next)

-----------------------------------------------------------------------------
(***************************************************************************)
(* Properties                                                              *)
(***************************************************************************)
\* Blocks branch to blocks there are.
TypeOK ==
  /\ insert \in 1 .. Len(blocks)
  /\ \A b \in 1 .. Len(blocks) : \A k \in 1 .. Len(blocks[b]) :
       /\ blocks[b][k].op \in Terminators \cup {"do", "start", "step"}
       /\ blocks[b][k].targets \in Seq(1 .. Len(blocks))
  /\ \A k \in 1 .. Len(todo) : todo[k].kind \in Kinds \cup {"else", "merge", "step"}
  /\ status \in {"generating", "exited", "running", "returned"}
  /\ pc \in (1 .. Len(blocks)) \X (Nat \ {0})
  /\ \A k \in 1 .. Len(rest) : rest[k].kind \in Kinds \cup {"test", "step"}

\* Whatever the conditions are, the code does what the source says, statement by
\* statement, returns when the source returns or ends, and never comes to the end of a
\* block that does not branch.
SourceOp ==
  [do |-> "do", return |-> "ret", if |-> "cond", for |-> "start", test |-> "cond", step |-> "step"]

RunsTheSource ==
  status = "running" =>
    /\ pc[2] <= Len(blocks[pc[1]])
    /\ Instr.op # "br" =>
         IF Pending = <<>> THEN Instr.op = "ret"
         ELSE /\ Instr.op = SourceOp[Head(Pending).kind]
              /\ Instr.op # "ret" => Instr.id = Head(Pending).id

=============================================================================
