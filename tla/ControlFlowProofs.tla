-------------------------- MODULE ControlFlowProofs --------------------------
(***************************************************************************)
(* Theorems about ControlFlow for every set of function bodies:            *)
(*                                                                         *)
(*   ControlFlowInvariant        the invariant below                        *)
(*   ControlFlowTypeOK           blocks branch to blocks there are          *)
(*   ControlFlowRunsTheSource    the blocks do what the source says         *)
(*                                                                         *)
(* The invariant (FlowInv) says that the blocks can be annotated: every     *)
(* place in a block has a continuation, the statements the source has still *)
(* to do there.  Each instruction does the first statement of its own       *)
(* continuation and leads to the one of the place it goes on to (InstrOK).  *)
(* While blocks are generated, the continuation of the insertion point is   *)
(* the source of todo (Waiting): a task that waits there knows blocks that  *)
(* are still empty, and whose continuation is that of what follows the task *)
(* (TaskOK, Open).  While blocks run, the continuation of pc is rest.       *)
(***************************************************************************)
EXTENDS ControlFlow, TLAPS, SequenceTheorems, WellFoundedInduction

-----------------------------------------------------------------------------
(***************************************************************************)
(* Sequences and the statements that are dropped                           *)
(***************************************************************************)
\* Every non-empty set of naturals has a least element.
LEMMA LeastNat ==
  ASSUME NEW S \in SUBSET Nat, S # {}
  PROVE  Min(S) \in S /\ \A j \in S : Min(S) <= j
<1> DEFINE R == OpToRel(<, Nat)
<1>1. IsWellFoundedOn(R, Nat)
  BY NatLessThanWellFounded
<1>2. \A x, y \in Nat : x < y => <<x, y>> \in R
  BY DEF OpToRel
<1> HIDE DEF R
<1>3. PICK x \in S : \A y \in S : ~ (<<y, x>> \in R)
  BY <1>1, WFMin
<1>4. ASSUME NEW y \in S PROVE x <= y
  <2>1. x \in Nat /\ y \in Nat
    OBVIOUS
  <2>2. ~(y < x)
    BY <1>2, <1>3, <2>1
  <2> QED
    BY <2>1, <2>2
<1> QED
  BY <1>4 DEF Min

\* The place of the first statement that is not dropped, or the end.
FirstKept(c) == Min({k \in 1 .. Len(c) : ~Dropped(c[k])} \cup {Len(c) + 1})

\* Everything before that place is dropped.
LEMMA FirstKeptIs ==
  ASSUME NEW T, NEW c \in Seq(T)
  PROVE  /\ FirstKept(c) \in 1 .. Len(c) + 1
         /\ FirstKept(c) <= Len(c) => ~Dropped(c[FirstKept(c)])
         /\ \A k \in 1 .. Len(c) : k < FirstKept(c) => Dropped(c[k])
<1> DEFINE kept == {k \in 1 .. Len(c) : ~Dropped(c[k])} \cup {Len(c) + 1}
<1>1. Len(c) \in Nat
  OBVIOUS
<1>2. kept \in SUBSET Nat /\ kept # {}
  BY <1>1
<1>3. Min(kept) \in kept /\ \A j \in kept : Min(kept) <= j
  BY <1>2, LeastNat
<1>4. FirstKept(c) = Min(kept)
  BY DEF FirstKept
<1>5. ASSUME NEW f \in kept, \A j \in kept : f <= j
      PROVE  /\ f \in 1 .. Len(c) + 1
             /\ f <= Len(c) => ~Dropped(c[f])
             /\ \A k \in 1 .. Len(c) : k < f => Dropped(c[k])
  BY <1>1, <1>5
<1> QED
  BY <1>3, <1>4, <1>5

\* There is only one such place.
LEMMA FirstKeptUnique ==
  ASSUME NEW T, NEW c \in Seq(T), NEW f \in 1 .. Len(c) + 1,
         f <= Len(c) => ~Dropped(c[f]),
         \A k \in 1 .. Len(c) : k < f => Dropped(c[k])
  PROVE  FirstKept(c) = f
<1> DEFINE g == FirstKept(c)
<1>1. /\ g \in 1 .. Len(c) + 1
      /\ g <= Len(c) => ~Dropped(c[g])
      /\ \A k \in 1 .. Len(c) : k < g => Dropped(c[k])
  BY FirstKeptIs
<1>2. Len(c) \in Nat
  OBVIOUS
<1> HIDE DEF g
<1>3. ~(f < g) /\ ~(g < f)
  BY <1>1, <1>2
<1>4. f = g
  BY <1>1, <1>2, <1>3
<1> QED
  BY <1>4 DEF g

\* What is left when the statements at the front that are dropped are gone.
LEMMA KeptStatements ==
  ASSUME NEW T, NEW c \in Seq(T)
  PROVE  /\ FromFirstKept(c) \in Seq(T)
         /\ FromFirstKept(c) # <<>> => ~Dropped(Head(FromFirstKept(c)))
         /\ c # <<>> /\ ~Dropped(Head(c)) => FromFirstKept(c) = c
         /\ c # <<>> /\ Dropped(Head(c)) => FromFirstKept(c) = FromFirstKept(Tail(c))
         /\ c = <<>> => FromFirstKept(c) = <<>>
<1> DEFINE f == FirstKept(c)
           n == Len(c)
<1>0. n \in Nat /\ \A k \in 1 .. n : c[k] \in T
  OBVIOUS
<1>1. /\ f \in 1 .. n + 1
      /\ f <= n => ~Dropped(c[f])
      /\ \A k \in 1 .. n : k < f => Dropped(c[k])
  BY FirstKeptIs
<1>2. FromFirstKept(c) = SubSeq(c, f, n)
  BY DEF FromFirstKept, FirstKept
<1> HIDE DEF f
<1>3. FromFirstKept(c) \in Seq(T)
  BY <1>0, <1>1, <1>2, SubSeqProperties
<1>4. FromFirstKept(c) # <<>> => ~Dropped(Head(FromFirstKept(c)))
  <2> SUFFICES ASSUME FromFirstKept(c) # <<>> PROVE ~Dropped(Head(SubSeq(c, f, n)))
    BY <1>2
  <2>1. f \in 1 .. n
    <3> SUFFICES ASSUME f = n + 1 PROVE FALSE
      BY <1>0, <1>1
    <3>1. SubSeq(c, f, n) = <<>>
      BY <1>0, SubSeqEmpty
    <3> QED
      BY <1>2, <3>1
  <2>2. Head(SubSeq(c, f, n)) = c[f]
    BY <1>0, <2>1, HeadTailOfSubSeq
  <2> QED
    BY <1>0, <1>1, <2>1, <2>2
<1>5. ASSUME c # <<>>, ~Dropped(Head(c))
      PROVE  FromFirstKept(c) = c
  <2>1. n >= 1 /\ Head(c) = c[1]
    BY <1>5
  <2>2. f = 1
    BY <1>0, <1>1, <1>5, <2>1
  <2> QED
    BY <1>2, <2>2, SubSeqFull
<1>6. ASSUME c # <<>>, Dropped(Head(c))
      PROVE  FromFirstKept(c) = FromFirstKept(Tail(c))
  <2> DEFINE t == Tail(c)
             g == FirstKept(t)
             m == Len(t)
  <2>1. /\ t \in Seq(T) /\ m = n - 1 /\ n >= 1 /\ Head(c) = c[1]
        /\ \A k \in 1 .. m : t[k] = c[k + 1]
    BY <1>6
  <2>2. m \in Nat
    BY <2>1
  <2>3. /\ g \in 1 .. m + 1
        /\ g <= m => ~Dropped(t[g])
        /\ \A k \in 1 .. m : k < g => Dropped(t[k])
    BY <2>1, FirstKeptIs
  <2>4. FromFirstKept(t) = SubSeq(t, g, m)
    BY DEF FromFirstKept, FirstKept
  <2> HIDE DEF g, t, m, n
  <2>5. /\ g + 1 \in 1 .. n + 1
        /\ g + 1 <= n => ~Dropped(c[g + 1])
    BY <1>0, <2>1, <2>2, <2>3
  <2>6. ASSUME NEW k \in 1 .. n, k < g + 1
        PROVE  Dropped(c[k])
    <3>1. CASE k = 1
      BY <1>6, <2>1, <3>1
    <3>2. CASE k # 1
      <4>1. k - 1 \in 1 .. m /\ k - 1 < g /\ k - 1 + 1 = k
        BY <1>0, <2>1, <2>2, <2>3, <2>6, <3>2
      <4> QED
        BY <2>1, <2>3, <4>1
    <3> QED
      BY <3>1, <3>2
  <2>7. f = g + 1
    <3> USE DEF n
    <3> QED
      BY <2>5, <2>6, FirstKeptUnique DEF f
  <2>8. SubSeq(c, g + 1, n) = SubSeq(t, g, m)
    <3> DEFINE u == SubSeq(c, g + 1, n)
               v == SubSeq(t, g, m)
    <3>1. \A i \in g + 1 .. n : c[i] \in T
      BY <1>0, <2>1, <2>2, <2>3
    <3>2. \A i \in g .. m : t[i] \in T
      BY <1>0, <2>1, <2>2, <2>3
    <3>3. g \in Int /\ g + 1 \in Int /\ n \in Int /\ m \in Int
      BY <1>0, <2>2, <2>3
    <3>4. /\ u \in Seq(T)
          /\ Len(u) = IF g + 1 <= n THEN n - (g + 1) + 1 ELSE 0
          /\ \A i \in 1 .. n - (g + 1) + 1 : u[i] = c[g + 1 + i - 1]
      BY <3>1, <3>3, SubSeqProperties
    <3>5. /\ v \in Seq(T)
          /\ Len(v) = IF g <= m THEN m - g + 1 ELSE 0
          /\ \A i \in 1 .. m - g + 1 : v[i] = t[g + i - 1]
      BY <3>2, <3>3, SubSeqProperties
    <3> HIDE DEF u, v
    <3>6. Len(u) = Len(v) /\ Len(u) = IF g <= m THEN m - g + 1 ELSE 0
      BY <2>1, <3>3, <3>4, <3>5
    <3>7. ASSUME NEW i \in 1 .. Len(u)
          PROVE  u[i] = v[i]
      <4>1. /\ i \in 1 .. m - g + 1
            /\ g + i - 1 \in 1 .. m
            /\ g + 1 + i - 1 = g + i - 1 + 1
            /\ i \in 1 .. n - (g + 1) + 1
        BY <2>1, <2>2, <2>3, <3>3, <3>6
      <4> QED
        BY <2>1, <3>4, <3>5, <4>1
    <3>8. u = v
      BY <3>4, <3>5, <3>6, <3>7, SeqEqual
    <3> QED
      BY <3>8 DEF u, v
  <2> QED
    BY <1>2, <2>4, <2>7, <2>8 DEF t
<1>7. ASSUME c = <<>>
      PROVE  FromFirstKept(c) = <<>>
  <2>1. n = 0 /\ f = 1
    BY <1>1, <1>7
  <2>2. SubSeq(c, 1, 0) = <<>>
    BY SubSeqEmpty
  <2> QED
    BY <1>2, <2>1, <2>2
<1> QED
  BY <1>3, <1>4, <1>5, <1>6, <1>7

-----------------------------------------------------------------------------
(***************************************************************************)
(* What the source has still to do                                         *)
(***************************************************************************)
Loops == {s \in Statements : s.kind = "for"}
Test(s) == [s EXCEPT !.kind = "test"]
Step(id) == [kind |-> "step", id |-> id]

Source == Statements \cup {Test(s) : s \in Loops} \cup {Step(id) : id \in STRING}
Cont == Seq(Source)

\* The fields of each kind of statement.
LEMMA StatementShapes ==
  ASSUME NEW s \in Statements
  PROVE  /\ s.kind \in Kinds
         /\ s.id \in STRING
         /\ s.kind = "if" => s.then \in Seq(Statements) /\ s.else \in Seq(Statements)
         /\ s.kind = "for" => /\ s.body \in Seq(Statements)
                              /\ Test(s).kind = "test"
                              /\ Test(s).id = s.id
                              /\ Test(s).body = s.body
<1>1. CASE s \in [kind : {"do", "return", "while"}, id : STRING]
  BY <1>1 DEF Kinds
<1>2. CASE s \in [kind : {"if"}, id : STRING, then : Seq(Statements), else : Seq(Statements),
                  invalid : BOOLEAN]
  BY <1>2 DEF Kinds
<1>3. CASE s \in [kind : {"for"}, id : STRING, body : Seq(Statements), invalid : BOOLEAN]
  BY <1>3 DEF Kinds, Test
<1> QED
  BY <1>1, <1>2, <1>3, StatementsAssumption

\* The fields of what the source still has to do.
LEMMA SourceShapes ==
  ASSUME NEW s \in Source
  PROVE  /\ s.kind \in Kinds \cup {"test", "step"}
         /\ s.id \in STRING
         /\ s.kind \in {"if", "for"} => s \in Statements
         /\ s.kind = "test" => s.body \in Seq(Statements)
         /\ Dropped(s) => s \in Statements
<1>1. CASE s \in Statements
  BY <1>1, StatementShapes DEF Kinds
<1>2. ASSUME NEW t \in Loops, s = Test(t)
      PROVE  s.kind = "test" /\ s.id \in STRING /\ s.body \in Seq(Statements)
  BY <1>2, StatementShapes DEF Loops
<1>3. ASSUME NEW id \in STRING, s = Step(id)
      PROVE  s.kind = "step" /\ s.id \in STRING
  BY <1>3 DEF Step
<1> QED
  BY <1>1, <1>2, <1>3 DEF Source, Dropped

\* Statements of the source are part of what it has to do.
LEMMA StatementsAreSource ==
  ASSUME NEW c \in Seq(Statements)
  PROVE  c \in Cont
BY SeqMonotonic DEF Source, Cont

\* A statement before what follows it.
LEMMA Before ==
  ASSUME NEW s \in Source, NEW y \in Cont
  PROVE  /\ <<s>> \o y \in Cont
         /\ <<s>> \o y # <<>>
         /\ Head(<<s>> \o y) = s
         /\ Tail(<<s>> \o y) = y
<1>1. <<s>> \in Cont /\ Len(<<s>>) = 1 /\ <<s>>[1] = s
  BY DEF Cont
<1> DEFINE c == <<s>> \o y
<1>2. /\ c \in Cont
      /\ Len(c) = 1 + Len(y)
      /\ \A i \in 1 .. 1 + Len(y) : c[i] = IF i <= 1 THEN <<s>>[i] ELSE y[i - 1]
  BY <1>1, ConcatProperties DEF Cont
<1>3. Len(y) \in Nat /\ y \in Seq(Source)
  BY DEF Cont
<1> HIDE DEF c
<1>4. c # <<>>
  BY <1>2, <1>3
<1>5. Head(c) = s
  BY <1>1, <1>2, <1>3, <1>4 DEF Cont
<1>6. /\ Tail(c) \in Seq(Source)
      /\ Len(Tail(c)) = Len(c) - 1
      /\ \A i \in 1 .. Len(Tail(c)) : Tail(c)[i] = c[i + 1]
  BY <1>2, <1>4, HeadTailProperties DEF Cont
<1>7. Len(Tail(c)) = Len(y)
  BY <1>2, <1>3, <1>6
<1>8. \A i \in 1 .. Len(y) : Tail(c)[i] = y[i]
  BY <1>2, <1>3, <1>6, <1>7
<1>9. Tail(c) = y
  BY <1>3, <1>6, <1>7, <1>8, SeqEqual
<1> QED
  BY <1>2, <1>4, <1>5, <1>9 DEF c

P(c) == FromFirstKept(c)

\* What is left begins with a statement that is not dropped.
LEMMA KeptSource ==
  ASSUME NEW c \in Cont
  PROVE  /\ P(c) \in Cont
         /\ P(P(c)) = P(c)
         /\ P(c) # <<>> => ~Dropped(Head(P(c)))
BY KeptStatements DEF P, Cont

\* A statement is first, or dropped.
LEMMA KeptBefore ==
  ASSUME NEW s \in Source, NEW y \in Cont
  PROVE  /\ ~Dropped(s) => P(<<s>> \o y) = <<s>> \o y
         /\ Dropped(s) => P(<<s>> \o y) = P(y)
<1> DEFINE c == <<s>> \o y
<1>1. c \in Seq(Source) /\ c # <<>> /\ Head(c) = s /\ Tail(c) = y
  BY Before DEF Cont
<1> HIDE DEF c
<1>2. /\ ~Dropped(s) => P(c) = c
      /\ Dropped(s) => P(c) = P(y)
  BY <1>1, KeptStatements DEF P
<1> QED
  BY <1>2 DEF c

\* A statement, what is inside it and what follows it.
LEMMA Inside ==
  ASSUME NEW stmts \in Seq(Statements), NEW y \in Cont
  PROVE  stmts \o y \in Cont
BY StatementsAreSource, ConcatProperties DEF Cont

-----------------------------------------------------------------------------
(***************************************************************************)
(* What the blocks and the tasks say of the source                         *)
(***************************************************************************)
Ops == Terminators \cup {"do", "start", "step"}
Ids == STRING \cup {""}
Instructions == [op : Ops, id : Ids, targets : Seq(Nat)]
CodeBlocks == Seq(Seq(Instructions))

\* N[b][k] is what the source has to do at place k of block b.
Annotations == [Nat -> [Nat -> Cont]]

\* The instruction does the first statement of c, and d is what is left at the next place.
InstrOK(i, c, d, N, last) ==
  \/ /\ i.targets = <<>>
     /\ c # <<>>
     /\ <<i.op, Head(c).kind>> \in {<<"do", "do">>, <<"start", "for">>, <<"step", "step">>}
     /\ i.id = Head(c).id
     /\ d = P((IF i.op = "start" THEN <<Test(Head(c))>> ELSE <<>>) \o Tail(c))
  \/ /\ i.op = "ret"
     /\ i.targets = <<>>
     /\ c # <<>> => Head(c).kind = "return"
  \/ /\ i.op = "br"
     /\ \E t \in 1 .. last : i.targets = <<t>> /\ N[t][1] = c
  \/ /\ i.op = "cond"
     /\ c # <<>>
     /\ i.id = Head(c).id
     /\ \E t, e \in 1 .. last :
          /\ i.targets = <<t, e>>
          /\ \/ /\ Head(c).kind = "if"
                /\ N[t][1] = P(Head(c).then \o Tail(c))
                /\ N[e][1] = P(Head(c).else \o Tail(c))
             \/ /\ Head(c).kind = "test"
                /\ N[t][1] = P(Head(c).body \o <<Step(Head(c).id)>> \o c)
                /\ N[e][1] = P(Tail(c))

Annotated(bs, N) ==
  \A b \in 1 .. Len(bs) : \A k \in 1 .. Len(bs[b]) :
    InstrOK(bs[b][k], N[b][k], N[b][k + 1], N, Len(bs))

Tasks ==
  Statements
  \cup [kind : {"else"}, else : Seq(Statements), elseBB : Nat, mergeBB : Nat]
  \cup [kind : {"merge"}, mergeBB : Nat]
  \cup [kind : {"step"}, id : STRING, loopCondBB : Nat, afterBB : Nat]

\* The task begins where the source has still to do x, and y follows it.
TaskOK(t, x, y, N, last) ==
  \/ /\ t \in Statements
     /\ x = <<t>> \o y
  \/ /\ t.kind = "else"
     /\ x = y
     /\ t.elseBB \in 1 .. last /\ t.mergeBB \in 1 .. last /\ t.elseBB # t.mergeBB
     /\ N[t.elseBB][1] = P(t.else \o y)
     /\ N[t.mergeBB][1] = P(y)
  \/ /\ t.kind = "merge"
     /\ x = y
     /\ t.mergeBB \in 1 .. last
     /\ N[t.mergeBB][1] = P(y)
  \/ /\ t.kind = "step"
     /\ t.loopCondBB \in 1 .. last /\ t.afterBB \in 1 .. last
     /\ x = <<Step(t.id)>> \o N[t.loopCondBB][1]
     /\ P(N[t.loopCondBB][1]) = N[t.loopCondBB][1]
     /\ N[t.afterBB][1] = P(y)

\* S[j] is what the source has to do where the task j of T begins.
Waiting(T, S, N, last) ==
  /\ S \in [Nat -> Cont]
  /\ S[Len(T) + 1] = <<>>
  /\ \A j \in 1 .. Len(T) : TaskOK(T[j], S[j], S[j + 1], N, last)

\* The tasks T wait where the source has still to do x.
WaitsFrom(T, x, N, last) == \E S : Waiting(T, S, N, last) /\ S[1] = x

\* The annotations of the places there were are kept.
Agrees(bs, N, M) ==
  \A b \in 1 .. Len(bs) : \A k \in 1 .. Len(bs[b]) + 1 : M[b][k] = N[b][k]

\* The first place of every block keeps its annotation.
LEMMA StartsAgree ==
  ASSUME NEW bs \in CodeBlocks, NEW N, NEW M, Agrees(bs, N, M)
  PROVE  \A b \in 1 .. Len(bs) : M[b][1] = N[b][1]
<1> SUFFICES ASSUME NEW b \in 1 .. Len(bs) PROVE M[b][1] = N[b][1]
  OBVIOUS
<1>1. Len(bs[b]) \in Nat
  BY DEF CodeBlocks
<1>2. 1 \in 1 .. Len(bs[b]) + 1
  BY <1>1
<1> QED
  BY <1>2 DEF Agrees

\* An instruction stays right when blocks are added.
LEMMA InstrKept ==
  ASSUME NEW i, NEW c, NEW d, NEW N, NEW M, NEW last \in Nat, NEW more \in Nat,
         last <= more, InstrOK(i, c, d, N, last),
         \A b \in 1 .. last : M[b][1] = N[b][1]
  PROVE  InstrOK(i, c, d, M, more)
<1>1. \A b \in 1 .. last : b \in 1 .. more
  OBVIOUS
<1>2. CASE i.op = "br" /\ \E t \in 1 .. last : i.targets = <<t>> /\ N[t][1] = c
  BY <1>1, <1>2 DEF InstrOK
<1>3. CASE /\ i.op = "cond"
           /\ c # <<>>
           /\ i.id = Head(c).id
           /\ \E t, e \in 1 .. last :
                /\ i.targets = <<t, e>>
                /\ \/ /\ Head(c).kind = "if"
                      /\ N[t][1] = P(Head(c).then \o Tail(c))
                      /\ N[e][1] = P(Head(c).else \o Tail(c))
                   \/ /\ Head(c).kind = "test"
                      /\ N[t][1] = P(Head(c).body \o <<Step(Head(c).id)>> \o c)
                      /\ N[e][1] = P(Tail(c))
  BY <1>1, <1>3 DEF InstrOK
<1> QED
  BY <1>2, <1>3 DEF InstrOK

\* Instructions are added at the ends of blocks, and blocks at the end.
LEMMA AnnotationExtends ==
  ASSUME NEW bs \in CodeBlocks, NEW cs \in CodeBlocks, NEW N, NEW M,
         Annotated(bs, N), Agrees(bs, N, M),
         Len(bs) <= Len(cs),
         \A b \in 1 .. Len(bs) :
           /\ Len(bs[b]) <= Len(cs[b])
           /\ \A k \in 1 .. Len(bs[b]) : cs[b][k] = bs[b][k],
         \A b \in 1 .. Len(cs) : \A k \in 1 .. Len(cs[b]) :
           (b <= Len(bs) => k > Len(bs[b]))
             => InstrOK(cs[b][k], M[b][k], M[b][k + 1], M, Len(cs))
  PROVE  Annotated(cs, M)
<1> SUFFICES ASSUME NEW b \in 1 .. Len(cs), NEW k \in 1 .. Len(cs[b]),
                    b <= Len(bs), ~(k > Len(bs[b]))
             PROVE  InstrOK(cs[b][k], M[b][k], M[b][k + 1], M, Len(cs))
  BY DEF Annotated
<1>1. Len(bs) \in Nat /\ Len(cs) \in Nat
  BY DEF CodeBlocks
<1>2. b \in 1 .. Len(bs)
  BY <1>1
<1>3. Len(bs[b]) \in Nat
  BY <1>2 DEF CodeBlocks
<1>3a. Len(cs[b]) \in Nat
  BY DEF CodeBlocks
<1>4. k \in 1 .. Len(bs[b]) /\ k \in 1 .. Len(bs[b]) + 1 /\ k + 1 \in 1 .. Len(bs[b]) + 1
  BY <1>3, <1>3a
<1>5. M[b][k] = N[b][k] /\ M[b][k + 1] = N[b][k + 1] /\ cs[b][k] = bs[b][k]
  BY <1>2, <1>4 DEF Agrees
<1>6. InstrOK(bs[b][k], N[b][k], N[b][k + 1], N, Len(bs))
  BY <1>2, <1>4 DEF Annotated
<1>7. \A a \in 1 .. Len(bs) : M[a][1] = N[a][1]
  BY StartsAgree
<1>8. InstrOK(bs[b][k], N[b][k], N[b][k + 1], M, Len(cs))
  BY <1>1, <1>6, <1>7, InstrKept
<1> QED
  BY <1>5, <1>8

\* A task stays right when blocks are added.
LEMMA TaskKept ==
  ASSUME NEW t, NEW x, NEW y, NEW N, NEW M, NEW last \in Nat, NEW more \in Nat,
         last <= more, TaskOK(t, x, y, N, last),
         \A b \in 1 .. last : M[b][1] = N[b][1]
  PROVE  TaskOK(t, x, y, M, more)
<1>1. \A b \in 1 .. last : b \in 1 .. more
  OBVIOUS
<1> QED
  BY <1>1 DEF TaskOK

\* And so do all of them.
LEMMA WaitingKept ==
  ASSUME NEW T, NEW S, NEW N, NEW M, NEW last \in Nat, NEW more \in Nat,
         last <= more, Waiting(T, S, N, last),
         \A b \in 1 .. last : M[b][1] = N[b][1]
  PROVE  Waiting(T, S, M, more)
BY TaskKept DEF Waiting

-----------------------------------------------------------------------------
(***************************************************************************)
(* Tasks are taken from the front of todo, and put there                   *)
(***************************************************************************)
LEMMA TailTasks ==
  ASSUME NEW T \in Seq(Tasks), T # <<>>
  PROVE  /\ Head(T) \in Tasks /\ Head(T) = T[1]
         /\ Tail(T) \in Seq(Tasks)
         /\ Len(T) \in Nat \ {0}
         /\ Len(Tail(T)) = Len(T) - 1
         /\ \A j \in 1 .. Len(Tail(T)) : Tail(T)[j] = T[j + 1]
<1>1. /\ Head(T) \in Tasks
      /\ Tail(T) \in Seq(Tasks)
      /\ Len(Tail(T)) = Len(T) - 1
      /\ \A j \in 1 .. Len(Tail(T)) : Tail(T)[j] = T[j + 1]
  BY HeadTailProperties
<1>2. Head(T) = T[1] /\ Len(T) \in Nat \ {0}
  OBVIOUS
<1> QED
  BY <1>1, <1>2

\* A task before others.
LEMMA ConsTasks ==
  ASSUME NEW t \in Tasks, NEW T \in Seq(Tasks)
  PROVE  /\ <<t>> \o T \in Seq(Tasks)
         /\ Len(<<t>> \o T) = 1 + Len(T)
         /\ (<<t>> \o T)[1] = t
         /\ \A j \in 2 .. 1 + Len(T) : (<<t>> \o T)[j] = T[j - 1]
<1>1. <<t>> \in Seq(Tasks) /\ Len(<<t>>) = 1 /\ <<t>>[1] = t /\ Len(T) \in Nat
  OBVIOUS
<1> DEFINE c == <<t>> \o T
<1>2. /\ c \in Seq(Tasks)
      /\ Len(c) = 1 + Len(T)
      /\ \A j \in 1 .. 1 + Len(T) : c[j] = IF j <= 1 THEN <<t>>[j] ELSE T[j - 1]
  BY <1>1, ConcatProperties
<1> HIDE DEF c
<1>3. c[1] = t /\ \A j \in 2 .. 1 + Len(T) : c[j] = T[j - 1]
  BY <1>1, <1>2
<1> QED
  BY <1>2, <1>3 DEF c

\* The statements of a body before the tasks.
LEMMA PushTasks ==
  ASSUME NEW c \in Seq(Statements), NEW T \in Seq(Tasks)
  PROVE  /\ c \o T \in Seq(Tasks)
         /\ Len(c) \in Nat /\ Len(T) \in Nat
         /\ Len(c \o T) = Len(c) + Len(T)
         /\ \A j \in 1 .. Len(c) : (c \o T)[j] = c[j] /\ c[j] \in Statements
         /\ \A j \in Len(c) + 1 .. Len(c) + Len(T) : (c \o T)[j] = T[j - Len(c)]
<1>1. c \in Seq(Tasks) /\ Len(c) \in Nat /\ Len(T) \in Nat /\ \A j \in 1 .. Len(c) : c[j] \in Statements
  BY SeqMonotonic DEF Tasks
<1> DEFINE d == c \o T
<1>2. /\ d \in Seq(Tasks)
      /\ Len(d) = Len(c) + Len(T)
      /\ \A j \in 1 .. Len(c) + Len(T) : d[j] = IF j <= Len(c) THEN c[j] ELSE T[j - Len(c)]
  BY <1>1, ConcatProperties
<1> HIDE DEF d
<1>3. /\ \A j \in 1 .. Len(c) : d[j] = c[j]
      /\ \A j \in Len(c) + 1 .. Len(c) + Len(T) : d[j] = T[j - Len(c)]
  <2> DEFINE m == Len(c)
             n == Len(T)
  <2>1. /\ m \in Nat /\ n \in Nat
        /\ \A j \in 1 .. m + n : d[j] = IF j <= m THEN c[j] ELSE T[j - m]
    BY <1>1, <1>2
  <2> HIDE DEF m, n
  <2>2. ASSUME NEW j \in 1 .. m PROVE d[j] = c[j]
    <3>1. j \in 1 .. m + n /\ j <= m
      BY <2>1
    <3> QED
      BY <2>1, <3>1
  <2>3. ASSUME NEW j \in m + 1 .. m + n PROVE d[j] = T[j - m]
    <3>1. j \in 1 .. m + n /\ ~(j <= m)
      BY <2>1
    <3> QED
      BY <2>1, <3>1
  <2> QED
    BY <2>2, <2>3 DEF m, n
<1> QED
  BY <1>1, <1>2, <1>3 DEF d

\* The first task is done, and the others wait.
LEMMA WaitingTail ==
  ASSUME NEW T \in Seq(Tasks), T # <<>>, NEW S, NEW N, NEW last, Waiting(T, S, N, last)
  PROVE  /\ TaskOK(Head(T), S[1], S[2], N, last)
         /\ S[1] \in Cont /\ S[2] \in Cont
         /\ \E R : Waiting(Tail(T), R, N, last) /\ R[1] = S[2]
<1> DEFINE n == Len(Tail(T))
           R == [j \in Nat |-> S[j + 1]]
<1>1. /\ n \in Nat /\ Len(T) = n + 1 /\ Head(T) = T[1]
      /\ \A j \in 1 .. n : Tail(T)[j] = T[j + 1]
  BY TailTasks
<1>2. /\ S \in [Nat -> Cont]
      /\ S[n + 1 + 1] = <<>>
      /\ \A j \in 1 .. n + 1 : TaskOK(T[j], S[j], S[j + 1], N, last)
  BY <1>1 DEF Waiting
<1> HIDE DEF n
<1>3. TaskOK(T[1], S[1], S[1 + 1], N, last)
  BY <1>1, <1>2
<1>4. R \in [Nat -> Cont] /\ R[1] = S[2] /\ R[n + 1] = <<>>
  <2>1. R \in [Nat -> Cont]
    BY <1>2
  <2>2. \A j \in Nat : R[j] = S[j + 1]
    OBVIOUS
  <2>3. 1 \in Nat /\ 1 + 1 = 2 /\ n + 1 \in Nat
    BY <1>1
  <2> HIDE DEF R
  <2>4. R[1] = S[1 + 1] /\ R[n + 1] = S[n + 1 + 1]
    BY <2>2, <2>3
  <2> QED
    BY <1>2, <2>1, <2>3, <2>4
<1>5. ASSUME NEW j \in 1 .. n
      PROVE  TaskOK(Tail(T)[j], R[j], R[j + 1], N, last)
  <2>1. j \in Nat /\ j + 1 \in Nat /\ j + 1 \in 1 .. n + 1
    BY <1>1
  <2>2. R[j] = S[j + 1] /\ R[j + 1] = S[j + 1 + 1]
    BY <2>1
  <2> QED
    BY <1>1, <1>2, <2>1, <2>2
<1>6. Waiting(Tail(T), R, N, last)
  BY <1>4, <1>5 DEF Waiting, n
<1> QED
  BY <1>1, <1>2, <1>3, <1>4, <1>6

\* A task is put first.
LEMMA WaitingCons ==
  ASSUME NEW T \in Seq(Tasks), NEW S, NEW N, NEW last, Waiting(T, S, N, last),
         NEW t \in Tasks, NEW x \in Cont, TaskOK(t, x, S[1], N, last)
  PROVE  \E R : Waiting(<<t>> \o T, R, N, last) /\ R[1] = x
<1> DEFINE n == Len(T)
           U == <<t>> \o T
           R == [j \in Nat |-> IF j = 1 THEN x ELSE IF j = 0 THEN x ELSE S[j - 1]]
<1>1. /\ n \in Nat /\ Len(U) = n + 1 /\ U[1] = t
      /\ \A j \in 2 .. n + 1 : U[j] = T[j - 1]
  BY ConsTasks
<1>2. /\ S \in [Nat -> Cont]
      /\ S[n + 1] = <<>>
      /\ \A j \in 1 .. n : TaskOK(T[j], S[j], S[j + 1], N, last)
  BY DEF Waiting
<1> HIDE DEF n, U
<1>3. \A i \in Nat \ {0} : R[i + 1] = S[i]
  <2> SUFFICES ASSUME NEW i \in Nat \ {0} PROVE R[i + 1] = S[i]
    OBVIOUS
  <2>1. i + 1 \in Nat /\ i + 1 # 1 /\ i + 1 # 0 /\ i + 1 - 1 = i
    OBVIOUS
  <2> QED
    BY <2>1
<1>4. R[1] = x /\ R \in [Nat -> Cont]
  <2> SUFFICES ASSUME NEW j \in Nat
               PROVE  (IF j = 1 THEN x ELSE IF j = 0 THEN x ELSE S[j - 1]) \in Cont
    OBVIOUS
  <2> QED
    BY <1>2
<1>5. R[2] = S[1] /\ R[n + 1 + 1] = <<>>
  <2>1. 1 \in Nat \ {0} /\ n + 1 \in Nat \ {0} /\ 1 + 1 = 2
    BY <1>1
  <2> HIDE DEF R
  <2>2. R[1 + 1] = S[1] /\ R[n + 1 + 1] = S[n + 1]
    BY <1>3, <2>1
  <2> QED
    BY <1>2, <2>1, <2>2
<1> HIDE DEF R
<1>6. ASSUME NEW j \in 1 .. n + 1
      PROVE  TaskOK(U[j], R[j], R[j + 1], N, last)
  <2>1. CASE j = 1
    BY <1>1, <1>4, <1>5, <2>1
  <2>2. CASE j # 1
    <3> DEFINE i == j - 1
    <3>1. /\ i \in Nat \ {0} /\ i + 1 \in Nat \ {0} /\ i + 1 = j
          /\ j \in 2 .. n + 1 /\ i \in 1 .. n
      BY <1>1, <2>2
    <3>2. U[j] = T[i]
      BY <1>1, <3>1
    <3> HIDE DEF i
    <3>3. R[i + 1] = S[i] /\ R[i + 1 + 1] = S[i + 1]
      BY <1>3, <3>1
    <3> QED
      BY <1>2, <3>1, <3>2, <3>3
  <2> QED
    BY <2>1, <2>2
<1>7. Waiting(U, R, N, last)
  BY <1>1, <1>4, <1>5, <1>6 DEF Waiting
<1> QED
  BY <1>4, <1>7 DEF U

\* The statements of a body are put first.
LEMMA WaitingPush ==
  ASSUME NEW T \in Seq(Tasks), NEW S, NEW N, NEW last, Waiting(T, S, N, last),
         NEW c \in Seq(Statements)
  PROVE  WaitsFrom(c \o T, c \o S[1], N, last)
<1> DEFINE m == Len(c)
           n == Len(T)
           U == c \o T
           From(j) == SubSeq(c, j, m) \o S[1]
           R == [j \in Nat |-> IF j = 0 THEN S[1] ELSE IF j <= m THEN From(j) ELSE S[j - m]]
<1>1. /\ n \in Nat /\ m \in Nat /\ Len(U) = m + n
      /\ \A j \in 1 .. m : U[j] = c[j] /\ c[j] \in Statements
      /\ \A j \in m + 1 .. m + n : U[j] = T[j - m]
  BY PushTasks
<1>2. /\ S \in [Nat -> Cont] /\ S[1] \in Cont
      /\ S[n + 1] = <<>>
      /\ \A j \in 1 .. n : TaskOK(T[j], S[j], S[j + 1], N, last)
  BY DEF Waiting
<1>3. ASSUME NEW j \in 1 .. m
      PROVE  From(j) \in Cont
  <2>1. \A i \in j .. m : c[i] \in Statements
    BY <1>1
  <2>2. SubSeq(c, j, m) \in Seq(Statements)
    BY <1>1, <2>1, SubSeqProperties
  <2> QED
    BY <1>2, <2>2, Inside
<1>4. ASSUME NEW j \in 1 .. m
      PROVE  From(j) = <<c[j]>> \o (IF j = m THEN S[1] ELSE From(j + 1))
  <2> DEFINE s == SubSeq(c, j + 1, m)
  <2>1. m \in j .. Len(c)
    BY <1>1
  <2>2. SubSeq(c, j, m) = <<c[j]>> \o s
    BY <2>1, SubSeqRecursiveFirst
  <2>3. \A i \in j + 1 .. m : c[i] \in Statements
    BY <1>1
  <2>4. s \in Seq(Statements)
    BY <1>1, <2>3, SubSeqProperties
  <2>5. <<c[j]>> \in Seq(Source) /\ s \in Seq(Source) /\ S[1] \in Seq(Source)
    <3>1. c[j] \in Source
      BY <1>1 DEF Source
    <3>2. s \in Cont
      BY <2>4, StatementsAreSource
    <3> QED
      BY <1>2, <3>1, <3>2 DEF Cont
  <2>6. j = m => s = <<>>
    BY <1>1, SubSeqEmpty
  <2> HIDE DEF s
  <2>7. (<<c[j]>> \o s) \o S[1] = <<c[j]>> \o (s \o S[1])
    <3> DEFINE u == <<c[j]>>
               v == S[1]
    <3>1. u \in Seq(Source) /\ s \in Seq(Source) /\ v \in Seq(Source)
      BY <2>5
    <3> HIDE DEF u, v
    <3>2. (u \o s) \o v = u \o (s \o v)
      BY <3>1, ConcatAssociative
    <3> QED
      BY <3>2 DEF u, v
  <2>8. j = m => s \o S[1] = S[1]
    BY <1>2, <2>6, ConcatEmptySeq DEF Cont
  <2>9. From(j) = <<c[j]>> \o (s \o S[1])
    BY <2>2, <2>7
  <2>10. From(j + 1) = s \o S[1]
    BY DEF s
  <2> HIDE DEF From
  <2> QED
    BY <2>8, <2>9, <2>10
<1>5. m > 0 => From(1) = c \o S[1]
  BY SubSeqFull
<1>6. m = 0 => c \o S[1] = S[1]
  <2> SUFFICES ASSUME m = 0 PROVE c \o S[1] = S[1]
    OBVIOUS
  <2>1. c = <<>>
    OBVIOUS
  <2> QED
    BY <1>2, <2>1, ConcatEmptySeq DEF Cont
<1> HIDE DEF m, n, U, From
<1>7. \A i \in Nat \ {0} : R[m + i] = S[i]
  <2> SUFFICES ASSUME NEW i \in Nat \ {0} PROVE R[m + i] = S[i]
    OBVIOUS
  <2> DEFINE k == m + i
  <2>1. k \in Nat /\ k # 0 /\ ~(k <= m) /\ k - m = i
    BY <1>1
  <2> HIDE DEF k
  <2>2. R[k] = S[i]
    BY <2>1
  <2> QED
    BY <2>2 DEF k
<1>8. ASSUME NEW j \in 1 .. m
      PROVE  R[j] = From(j)
  BY <1>1
<1>9. R \in [Nat -> Cont]
  <2> SUFFICES ASSUME NEW j \in Nat
               PROVE  (IF j = 0 THEN S[1] ELSE IF j <= m THEN From(j) ELSE S[j - m]) \in Cont
    OBVIOUS
  <2>1. CASE j = 0
    BY <1>2, <2>1
  <2>2. CASE j # 0 /\ j <= m
    <3>1. j \in 1 .. m
      BY <1>1, <2>2
    <3> QED
      BY <1>3, <2>2, <3>1
  <2>3. CASE j # 0 /\ ~(j <= m)
    <3>1. j - m \in Nat
      BY <1>1, <2>3
    <3> QED
      BY <1>2, <2>3, <3>1
  <2> QED
    BY <2>1, <2>2, <2>3
<1> HIDE DEF R
<1>10. R[1] = c \o S[1]
  <2>1. CASE m = 0
    <3>1. m + 1 = 1
      BY <2>1
    <3>2. R[m + 1] = S[1]
      BY <1>7
    <3> QED
      BY <1>6, <2>1, <3>1, <3>2
  <2>2. CASE m # 0
    <3>1. 1 \in 1 .. m /\ m > 0
      BY <1>1, <2>2
    <3> QED
      BY <1>5, <1>8, <3>1
  <2> QED
    BY <2>1, <2>2
<1>11. R[m + n + 1] = <<>>
  <2>1. n + 1 \in Nat \ {0} /\ m + (n + 1) = m + n + 1
    BY <1>1
  <2>2. R[m + (n + 1)] = S[n + 1]
    BY <1>7, <2>1
  <2> QED
    BY <1>2, <2>1, <2>2
<1>12. ASSUME NEW j \in 1 .. m + n
       PROVE  TaskOK(U[j], R[j], R[j + 1], N, last)
  <2>1. CASE j \in 1 .. m
    <3>1. R[j + 1] = IF j = m THEN S[1] ELSE From(j + 1)
      <4>1. CASE j = m
        <5>1. R[m + 1] = S[1]
          BY <1>7
        <5> QED
          BY <4>1, <5>1
      <4>2. CASE j # m
        <5>1. j + 1 \in 1 .. m
          BY <1>1, <2>1, <4>2
        <5> QED
          BY <1>8, <4>2, <5>1
      <4> QED
        BY <4>1, <4>2
    <3>2. R[j] = <<U[j]>> \o R[j + 1] /\ U[j] \in Statements
      BY <1>1, <1>4, <1>8, <2>1, <3>1
    <3> QED
      BY <3>2 DEF TaskOK
  <2>2. CASE ~(j \in 1 .. m)
    <3> DEFINE i == j - m
    <3>1. /\ i \in Nat \ {0} /\ i + 1 \in Nat \ {0} /\ m + i = j /\ m + (i + 1) = j + 1
          /\ j \in m + 1 .. m + n /\ i \in 1 .. n
      BY <1>1, <2>2
    <3>2. U[j] = T[i]
      BY <1>1, <3>1
    <3> HIDE DEF i
    <3>3. R[m + i] = S[i] /\ R[m + (i + 1)] = S[i + 1]
      BY <1>7, <3>1
    <3> QED
      BY <1>2, <3>1, <3>2, <3>3
  <2> QED
    BY <2>1, <2>2
<1>13. Waiting(U, R, N, last)
  BY <1>1, <1>9, <1>11, <1>12 DEF Waiting
<1> QED
  BY <1>10, <1>13 DEF U, WaitsFrom

-----------------------------------------------------------------------------
(***************************************************************************)
(* The blocks that have no end yet                                         *)
(***************************************************************************)
Ended(instructions) ==
  instructions # <<>> /\ instructions[Len(instructions)].op \in Terminators

\* The blocks that the code of t goes on in, when what is inside it is generated.
Targets(t) ==
  CASE t.kind = "else" -> {t.elseBB, t.mergeBB}
    [] t.kind = "merge" -> {t.mergeBB}
    [] t.kind = "step" -> {t.afterBB}
    [] OTHER -> {}

\* Every block has its end, is empty and waited for by one task, or is in W.
Open(bs, T, W) ==
  /\ \A t \in 1 .. Len(T) : \A b \in Targets(T[t]) :
       b \in 1 .. Len(bs) /\ b \notin W /\ bs[b] = <<>>
  /\ \A t, u \in 1 .. Len(T) : t # u => Targets(T[t]) \cap Targets(T[u]) = {}
  /\ \A b \in 1 .. Len(bs) :
       b \in W \/ (\E t \in 1 .. Len(T) : b \in Targets(T[t])) \/ Ended(bs[b])

\* A statement waits for no block.
LEMMA NoTargets ==
  ASSUME NEW s \in Statements
  PROVE  Targets(s) = {}
BY StatementShapes DEF Targets, Kinds

\* The blocks of the first task are no longer waited for.
LEMMA OpenTail ==
  ASSUME NEW bs, NEW T \in Seq(Tasks), T # <<>>, NEW W, Open(bs, T, W)
  PROVE  Open(bs, Tail(T), W \cup Targets(Head(T)))
<1> DEFINE n == Len(Tail(T))
           V == W \cup Targets(Head(T))
<1>1. /\ n \in Nat /\ Len(T) = n + 1 /\ Head(T) = T[1]
      /\ \A j \in 1 .. n : Tail(T)[j] = T[j + 1]
  BY TailTasks
<1> HIDE DEF n
<1>2. ASSUME NEW j \in 1 .. n
      PROVE  j + 1 \in 1 .. Len(T) /\ j + 1 # 1 /\ Tail(T)[j] = T[j + 1]
  BY <1>1
<1>3. 1 \in 1 .. Len(T)
  BY <1>1
<1>4. ASSUME NEW t \in 1 .. n, NEW b \in Targets(Tail(T)[t])
      PROVE  b \in 1 .. Len(bs) /\ b \notin V /\ bs[b] = <<>>
  BY <1>1, <1>2, <1>3, <1>4 DEF Open
<1>5. ASSUME NEW t \in 1 .. n, NEW u \in 1 .. n, t # u
      PROVE  Targets(Tail(T)[t]) \cap Targets(Tail(T)[u]) = {}
  <2>1. t + 1 # u + 1
    BY <1>1, <1>5
  <2> QED
    BY <1>2, <2>1 DEF Open
<1>6. ASSUME NEW b \in 1 .. Len(bs)
      PROVE  b \in V \/ (\E t \in 1 .. n : b \in Targets(Tail(T)[t])) \/ Ended(bs[b])
  <2>1. ASSUME NEW t \in 1 .. Len(T), b \in Targets(T[t]), t # 1
        PROVE  \E u \in 1 .. n : b \in Targets(Tail(T)[u])
    <3>1. t - 1 \in 1 .. n /\ t - 1 + 1 = t
      BY <1>1, <2>1
    <3>2. b \in Targets(Tail(T)[t - 1])
      BY <1>2, <2>1, <3>1
    <3> QED
      BY <3>1, <3>2
  <2> QED
    BY <1>1, <2>1 DEF Open
<1> QED
  BY <1>4, <1>5, <1>6 DEF Open, n

\* A new task waits for empty blocks of W.
LEMMA OpenCons ==
  ASSUME NEW bs, NEW T \in Seq(Tasks), NEW W, Open(bs, T, W), NEW t \in Tasks,
         Targets(t) \subseteq W,
         \A b \in Targets(t) : b \in 1 .. Len(bs) /\ bs[b] = <<>>
  PROVE  Open(bs, <<t>> \o T, W \ Targets(t))
<1> DEFINE n == Len(T)
           U == <<t>> \o T
           V == W \ Targets(t)
<1>1. /\ n \in Nat /\ Len(U) = n + 1 /\ U[1] = t
      /\ \A j \in 2 .. n + 1 : U[j] = T[j - 1]
  BY ConsTasks
<1> HIDE DEF n, U
<1>2. ASSUME NEW j \in 1 .. n + 1
      PROVE  (j = 1 /\ U[j] = t) \/ (j # 1 /\ j - 1 \in 1 .. n /\ U[j] = T[j - 1])
  BY <1>1
<1>3. /\ \A j \in 1 .. n : \A b \in Targets(T[j]) :
           b \in 1 .. Len(bs) /\ b \notin W /\ bs[b] = <<>>
      /\ \A i, j \in 1 .. n : i # j => Targets(T[i]) \cap Targets(T[j]) = {}
      /\ \A b \in 1 .. Len(bs) :
           b \in W \/ (\E j \in 1 .. n : b \in Targets(T[j])) \/ Ended(bs[b])
  BY DEF Open, n
<1>4. ASSUME NEW j \in 1 .. n + 1, NEW b \in Targets(U[j])
      PROVE  b \in 1 .. Len(bs) /\ b \notin V /\ bs[b] = <<>>
  BY <1>2, <1>3, <1>4
<1>5. ASSUME NEW i \in 1 .. n + 1, NEW j \in 1 .. n + 1, i # j
      PROVE  Targets(U[i]) \cap Targets(U[j]) = {}
  <2>1. CASE i = 1
    BY <1>1, <1>2, <1>3, <1>5, <2>1
  <2>2. CASE j = 1
    BY <1>1, <1>2, <1>3, <1>5, <2>2
  <2>3. CASE i # 1 /\ j # 1
    <3>1. i - 1 # j - 1
      BY <1>1, <1>5
    <3> QED
      BY <1>2, <1>3, <1>5, <2>3, <3>1
  <2> QED
    BY <2>1, <2>2, <2>3
<1>6. ASSUME NEW b \in 1 .. Len(bs)
      PROVE  b \in V \/ (\E j \in 1 .. n + 1 : b \in Targets(U[j])) \/ Ended(bs[b])
  <2>1. ASSUME NEW j \in 1 .. n, b \in Targets(T[j])
        PROVE  \E i \in 1 .. n + 1 : b \in Targets(U[i])
    <3>1. j + 1 \in 1 .. n + 1 /\ j + 1 \in 2 .. n + 1 /\ j + 1 - 1 = j
      BY <1>1
    <3>2. U[j + 1] = T[j]
      BY <1>1, <3>1
    <3> QED
      BY <2>1, <3>1, <3>2
  <2>2. 1 \in 1 .. n + 1
    BY <1>1
  <2> QED
    BY <1>1, <1>3, <2>1, <2>2
<1> QED
  BY <1>1, <1>4, <1>5, <1>6 DEF Open, U

\* Statements wait for none.
LEMMA OpenPush ==
  ASSUME NEW bs, NEW T \in Seq(Tasks), NEW W, Open(bs, T, W), NEW c \in Seq(Statements)
  PROVE  Open(bs, c \o T, W)
<1> DEFINE m == Len(c)
           n == Len(T)
           U == c \o T
<1>1. /\ n \in Nat /\ m \in Nat /\ Len(U) = m + n
      /\ \A j \in 1 .. m : U[j] = c[j] /\ c[j] \in Statements
      /\ \A j \in m + 1 .. m + n : U[j] = T[j - m]
  BY PushTasks
<1> HIDE DEF m, n, U
<1>2. ASSUME NEW j \in 1 .. m + n
      PROVE  Targets(U[j]) = {} \/ (j - m \in 1 .. n /\ U[j] = T[j - m])
  <2>1. CASE j \in 1 .. m
    BY <1>1, <2>1, NoTargets
  <2>2. CASE ~(j \in 1 .. m)
    BY <1>1, <2>2
  <2> QED
    BY <2>1, <2>2
<1>3. /\ \A j \in 1 .. n : \A b \in Targets(T[j]) :
           b \in 1 .. Len(bs) /\ b \notin W /\ bs[b] = <<>>
      /\ \A i, j \in 1 .. n : i # j => Targets(T[i]) \cap Targets(T[j]) = {}
      /\ \A b \in 1 .. Len(bs) :
           b \in W \/ (\E j \in 1 .. n : b \in Targets(T[j])) \/ Ended(bs[b])
  BY DEF Open, n
<1>4. ASSUME NEW j \in 1 .. m + n, NEW b \in Targets(U[j])
      PROVE  b \in 1 .. Len(bs) /\ b \notin W /\ bs[b] = <<>>
  BY <1>2, <1>3, <1>4
<1>5. ASSUME NEW i \in 1 .. m + n, NEW j \in 1 .. m + n, i # j
      PROVE  Targets(U[i]) \cap Targets(U[j]) = {}
  <2>1. i - m # j - m
    BY <1>1, <1>5
  <2> QED
    BY <1>2, <1>3, <2>1
<1>6. ASSUME NEW b \in 1 .. Len(bs)
      PROVE  b \in W \/ (\E j \in 1 .. m + n : b \in Targets(U[j])) \/ Ended(bs[b])
  <2>1. ASSUME NEW j \in 1 .. n, b \in Targets(T[j])
        PROVE  \E i \in 1 .. m + n : b \in Targets(U[i])
    <3>1. m + j \in 1 .. m + n /\ m + j \in m + 1 .. m + n /\ m + j - m = j
      BY <1>1
    <3>2. U[m + j] = T[j]
      BY <1>1, <3>1
    <3> QED
      BY <2>1, <3>1, <3>2
  <2> QED
    BY <1>3, <2>1
<1> QED
  BY <1>1, <1>4, <1>5, <1>6 DEF Open, U

\* Instructions go to a block in W, and the new blocks are in V.
LEMMA OpenEmit ==
  ASSUME NEW bs \in CodeBlocks, NEW cs \in CodeBlocks, NEW T, NEW W, NEW V, Open(bs, T, W),
         Len(bs) <= Len(cs), W \subseteq V,
         \A b \in V : b \in 1 .. Len(bs) => b \in W,
         \A b \in 1 .. Len(bs) : b \in W \/ cs[b] = bs[b],
         \A b \in Len(bs) + 1 .. Len(cs) : b \in V
  PROVE  Open(cs, T, V)
<1>1. Len(bs) \in Nat /\ Len(cs) \in Nat
  BY DEF CodeBlocks
<1>2. \A b \in 1 .. Len(bs) : b \in 1 .. Len(cs)
  BY <1>1
<1>3. \A b \in 1 .. Len(cs) : b \in 1 .. Len(bs) \/ b \in Len(bs) + 1 .. Len(cs)
  BY <1>1
<1>4. ASSUME NEW t \in 1 .. Len(T), NEW b \in Targets(T[t])
      PROVE  b \in 1 .. Len(cs) /\ b \notin V /\ cs[b] = <<>>
  BY <1>2, <1>4 DEF Open
<1>5. ASSUME NEW b \in 1 .. Len(cs)
      PROVE  b \in V \/ (\E t \in 1 .. Len(T) : b \in Targets(T[t])) \/ Ended(cs[b])
  BY <1>3 DEF Open
<1> QED
  BY <1>4, <1>5 DEF Open

\* A block that ends in a terminator is open no longer.
LEMMA OpenEnded ==
  ASSUME NEW bs, NEW T, NEW W, NEW a, Open(bs, T, W), Ended(bs[a])
  PROVE  Open(bs, T, W \ {a})
BY DEF Open

-----------------------------------------------------------------------------
(***************************************************************************)
(* Instructions at the end of a block, and new blocks                      *)
(***************************************************************************)
LEMMA EmitToBlocks ==
  ASSUME NEW bs \in CodeBlocks, insert \in 1 .. Len(bs), NEW new \in Seq(Instructions)
  PROVE  /\ EmitTo(bs, new) \in CodeBlocks
         /\ Len(EmitTo(bs, new)) = Len(bs)
         /\ \A b \in 1 .. Len(bs) : b # insert => EmitTo(bs, new)[b] = bs[b]
         /\ EmitTo(bs, new)[insert] = bs[insert] \o new
<1>1. bs[insert] \in Seq(Instructions)
  BY DEF CodeBlocks
<1>2. bs[insert] \o new \in Seq(Instructions)
  BY <1>1, ConcatProperties
<1>3. EmitTo(bs, new) = [bs EXCEPT ![insert] = bs[insert] \o new]
  BY DEF EmitTo
<1> QED
  BY <1>2, <1>3, ExceptSeq DEF CodeBlocks

\* New blocks are empty, and come last.
LEMMA WithNewBlocks ==
  ASSUME blocks \in CodeBlocks, NEW n \in Nat
  PROVE  /\ WithNew(n) \in CodeBlocks
         /\ Len(blocks) \in Nat
         /\ Len(WithNew(n)) = Len(blocks) + n
         /\ \A b \in 1 .. Len(blocks) : WithNew(n)[b] = blocks[b]
         /\ \A b \in Len(blocks) + 1 .. Len(blocks) + n : WithNew(n)[b] = <<>>
<1> DEFINE new == [i \in 1 .. n |-> <<>>]
           last == Len(blocks)
<1>1. /\ new \in Seq(Seq(Instructions)) /\ Len(new) = n
      /\ \A i \in 1 .. n : new[i] = <<>>
  OBVIOUS
<1>2. WithNew(n) = blocks \o new
  BY DEF WithNew
<1> HIDE DEF new
<1>3. last \in Nat /\ blocks \in Seq(Seq(Instructions))
  BY DEF CodeBlocks
<1>4. /\ WithNew(n) \in CodeBlocks
      /\ Len(WithNew(n)) = last + n
      /\ \A b \in 1 .. last + n : WithNew(n)[b] = IF b <= last THEN blocks[b] ELSE new[b - last]
  <2>1. /\ blocks \o new \in Seq(Seq(Instructions))
        /\ Len(blocks \o new) = Len(blocks) + Len(new)
        /\ \A b \in 1 .. Len(blocks) + Len(new) :
             (blocks \o new)[b] = IF b <= Len(blocks) THEN blocks[b] ELSE new[b - Len(blocks)]
    BY <1>1, <1>3, ConcatProperties
  <2> QED
    BY <1>1, <1>2, <2>1 DEF CodeBlocks
<1> HIDE DEF last
<1>5. ASSUME NEW b \in 1 .. last
      PROVE  WithNew(n)[b] = blocks[b]
  BY <1>3, <1>4
<1>6. ASSUME NEW b \in last + 1 .. last + n
      PROVE  WithNew(n)[b] = <<>>
  <2>1. b \in 1 .. last + n /\ ~(b <= last) /\ b - last \in 1 .. n
    BY <1>3
  <2> QED
    BY <1>1, <1>4, <2>1
<1> QED
  BY <1>3, <1>4, <1>5, <1>6 DEF last

\* An instruction after others.
LEMMA OneAfter ==
  ASSUME NEW s \in Seq(Instructions), NEW i \in Instructions
  PROVE  /\ s \o <<i>> \in Seq(Instructions)
         /\ Len(s \o <<i>>) = Len(s) + 1
         /\ \A k \in 1 .. Len(s) : (s \o <<i>>)[k] = s[k]
         /\ (s \o <<i>>)[Len(s) + 1] = i
         /\ i.op \in Terminators => Ended(s \o <<i>>)
<1>1. s \o <<i>> = Append(s, i)
  BY AppendIsConcat
<1>2. /\ Append(s, i) \in Seq(Instructions)
      /\ Append(s, i) # <<>>
      /\ Len(Append(s, i)) = Len(s) + 1
      /\ \A k \in 1 .. Len(s) : Append(s, i)[k] = s[k]
      /\ Append(s, i)[Len(s) + 1] = i
  BY AppendProperties
<1> QED
  BY <1>1, <1>2 DEF Ended

\* Two of them, one by one.
LEMMA TwoAfter ==
  ASSUME NEW s \in Seq(Instructions), NEW i \in Instructions, NEW j \in Instructions
  PROVE  s \o <<i, j>> = (s \o <<i>>) \o <<j>>
<1>1. <<i>> \in Seq(Instructions) /\ <<j>> \in Seq(Instructions)
  OBVIOUS
<1>2. <<i>> \o <<j>> = <<i, j>>
  <2> DEFINE t == <<i, j>>
             w == <<i>> \o <<j>>
  <2>1. /\ w \in Seq(Instructions) /\ Len(w) = 2
        /\ \A k \in 1 .. 2 : w[k] = IF k <= 1 THEN <<i>>[k] ELSE <<j>>[k - 1]
    BY <1>1, ConcatProperties
  <2>2. t \in Seq(Instructions) /\ Len(t) = 2 /\ t[1] = i /\ t[2] = j
    OBVIOUS
  <2> HIDE DEF w
  <2>3. w[1] = i /\ w[2] = j
    BY <2>1
  <2> HIDE DEF t
  <2>4. \A k \in 1 .. Len(w) : w[k] = t[k]
    BY <2>1, <2>2, <2>3
  <2>5. w = t
    BY <2>1, <2>2, <2>4, SeqEqual
  <2> QED
    BY <2>5 DEF w, t
<1> DEFINE u == <<i>>
           v == <<j>>
<1>3. u \in Seq(Instructions) /\ v \in Seq(Instructions)
  BY <1>1
<1> HIDE DEF u, v
<1>4. (s \o u) \o v = s \o (u \o v)
  BY <1>3, ConcatAssociative
<1> QED
  BY <1>2, <1>4 DEF u, v

\* One instruction more at the end of block a.
AddsOne(bs, a, i, cs) ==
  /\ Len(cs) = Len(bs)
  /\ \A b \in 1 .. Len(bs) : b # a => cs[b] = bs[b]
  /\ cs[a] = bs[a] \o <<i>>

\* More blocks, or more instructions at the ends of blocks, with d left at the end of a.
AnnotatedTo(bs, N, cs, a, d) ==
  \E M \in Annotations :
    /\ Annotated(cs, M)
    /\ \A b \in 1 .. Len(bs) : M[b][1] = N[b][1]
    /\ M[a][Len(cs[a]) + 1] = d

\* The annotation of a block with one more instruction.
LEMMA AnnotateOne ==
  ASSUME NEW bs \in CodeBlocks, NEW a \in 1 .. Len(bs), NEW i \in Instructions, NEW d \in Cont,
         NEW N \in Annotations, Annotated(bs, N),
         InstrOK(i, N[a][Len(bs[a]) + 1], d, N, Len(bs)),
         NEW cs \in CodeBlocks, AddsOne(bs, a, i, cs)
  PROVE  AnnotatedTo(bs, N, cs, a, d)
<1> USE DEF AddsOne
<1> DEFINE last == Len(bs)
           e == Len(bs[a])
           M == [b \in Nat |-> [k \in Nat |-> IF b = a /\ k = e + 1 + 1 THEN d ELSE N[b][k]]]
<1>1. last \in Nat /\ e \in Nat /\ bs[a] \in Seq(Instructions) /\ \A b \in 1 .. last : Len(bs[b]) \in Nat
  BY DEF CodeBlocks
<1>2. /\ Len(cs[a]) = e + 1
      /\ \A k \in 1 .. e : cs[a][k] = bs[a][k]
      /\ cs[a][e + 1] = i
  BY <1>1, OneAfter
<1> HIDE DEF e, last
<1>3. \A b, k \in Nat : M[b][k] = IF b = a /\ k = e + 1 + 1 THEN d ELSE N[b][k]
  OBVIOUS
<1>4. M \in Annotations
  <2> SUFFICES ASSUME NEW b \in Nat, NEW k \in Nat
               PROVE  (IF b = a /\ k = e + 1 + 1 THEN d ELSE N[b][k]) \in Cont
    BY DEF Annotations
  <2> QED
    BY DEF Annotations
<1> HIDE DEF M
<1>5. ASSUME NEW b \in 1 .. last, NEW k \in 1 .. Len(bs[b]) + 1
      PROVE  M[b][k] = N[b][k]
  <2>1. b \in Nat /\ k \in Nat /\ ~(b = a /\ k = e + 1 + 1)
    BY <1>1 DEF e
  <2> QED
    BY <1>3, <2>1
<1>6. Agrees(bs, N, M)
  BY <1>5 DEF Agrees, last
<1>7. \A b \in 1 .. last : M[b][1] = N[b][1]
  BY <1>6, StartsAgree DEF last
<1>8. M[a][e + 1 + 1] = d
  <2>1. a \in Nat /\ e + 1 + 1 \in Nat
    BY <1>1 DEF last
  <2> QED
    BY <1>3, <2>1
<1>9. M[a][e + 1] = N[a][e + 1]
  <2>1. a \in 1 .. last /\ e + 1 \in 1 .. Len(bs[a]) + 1
    BY <1>1 DEF e, last
  <2> QED
    BY <1>5, <2>1
<1>10. InstrOK(i, M[a][e + 1], M[a][e + 1 + 1], M, last)
  <2>1. InstrOK(i, N[a][e + 1], d, N, last)
    BY DEF e, last
  <2>2. InstrOK(i, N[a][e + 1], d, M, last)
    BY <1>1, <1>7, <2>1, InstrKept
  <2> QED
    BY <1>8, <1>9, <2>2
<1>11. ASSUME NEW b \in 1 .. Len(cs), NEW k \in 1 .. Len(cs[b]),
              b <= last => k > Len(bs[b])
       PROVE  InstrOK(cs[b][k], M[b][k], M[b][k + 1], M, Len(cs))
  <2>1. b \in 1 .. last /\ b <= last
    BY <1>1 DEF last
  <2>2. b = a
    <3>1. CASE b # a
      BY <1>1, <1>11, <2>1, <3>1 DEF last
    <3> QED
      BY <3>1
  <2>3. k = e + 1
    BY <1>1, <1>2, <1>11, <2>1, <2>2 DEF e
  <2> QED
    BY <1>2, <1>10, <2>2, <2>3 DEF last
<1>12. \A b \in 1 .. Len(bs) :
         /\ Len(bs[b]) <= Len(cs[b])
         /\ \A k \in 1 .. Len(bs[b]) : cs[b][k] = bs[b][k]
  <2> SUFFICES ASSUME NEW b \in 1 .. last
               PROVE  /\ Len(bs[b]) <= Len(cs[b])
                      /\ \A k \in 1 .. Len(bs[b]) : cs[b][k] = bs[b][k]
    BY DEF last
  <2>1. CASE b = a
    BY <1>1, <1>2, <2>1 DEF e
  <2>2. CASE b # a
    BY <1>1, <2>2 DEF last
  <2> QED
    BY <2>1, <2>2
<1>13. Annotated(cs, M)
  <2>1. Len(bs) <= Len(cs)
    BY <1>1 DEF last
  <2>2. \A b \in 1 .. Len(cs) : \A k \in 1 .. Len(cs[b]) :
           (b <= Len(bs) => k > Len(bs[b]))
             => InstrOK(cs[b][k], M[b][k], M[b][k + 1], M, Len(cs))
    BY <1>11 DEF last
  <2> QED
    BY <1>6, <1>12, <2>1, <2>2, AnnotationExtends
<1> QED
  BY <1>2, <1>4, <1>7, <1>8, <1>13 DEF last, AnnotatedTo

\* New blocks that are still empty.
AddsNew(bs, n, cs) ==
  /\ Len(cs) = Len(bs) + n
  /\ \A b \in 1 .. Len(bs) : cs[b] = bs[b]
  /\ \A b \in Len(bs) + 1 .. Len(bs) + n : cs[b] = <<>>

\* F[b] is to be done in the new block b.
AnnotatedNew(bs, N, n, cs, F) ==
  \E M \in Annotations :
    /\ Annotated(cs, M)
    /\ \A b \in 1 .. Len(bs) : M[b] = N[b]
    /\ \A b \in Len(bs) + 1 .. Len(bs) + n : M[b][1] = F[b]

\* The annotations of new blocks.
LEMMA AnnotateNew ==
  ASSUME NEW bs \in CodeBlocks, NEW n \in Nat, NEW F \in [Nat -> Cont],
         NEW N \in Annotations, Annotated(bs, N),
         NEW cs \in CodeBlocks, AddsNew(bs, n, cs)
  PROVE  AnnotatedNew(bs, N, n, cs, F)
<1> USE DEF AddsNew
<1> DEFINE last == Len(bs)
           M == [b \in Nat |-> IF b \in 1 .. last THEN N[b] ELSE [k \in Nat |-> F[b]]]
<1>1. last \in Nat /\ \A b \in 1 .. last : Len(bs[b]) \in Nat
  BY DEF CodeBlocks
<1> HIDE DEF last
<1>2. M \in Annotations
  BY DEF Annotations
<1>3. \A b \in 1 .. last : M[b] = N[b]
  BY <1>1
<1>4. \A b \in last + 1 .. last + n : M[b][1] = F[b]
  <2> SUFFICES ASSUME NEW b \in last + 1 .. last + n PROVE M[b][1] = F[b]
    OBVIOUS
  <2>1. b \in Nat /\ b \notin 1 .. last
    BY <1>1
  <2>2. M[b] = [k \in Nat |-> F[b]]
    BY <2>1
  <2> HIDE DEF M
  <2> QED
    BY <2>2
<1> HIDE DEF M
<1>5. Agrees(bs, N, M)
  BY <1>3 DEF Agrees, last
<1>6. ASSUME NEW b \in 1 .. Len(cs), NEW k \in 1 .. Len(cs[b]),
             b <= Len(bs) => k > Len(bs[b])
      PROVE  FALSE
  <2>1. CASE b \in 1 .. last
    <3>1. b <= Len(bs) /\ cs[b] = bs[b] /\ Len(bs[b]) \in Nat
      BY <1>1, <2>1 DEF last
    <3> QED
      BY <1>6, <3>1
  <2>2. CASE b \notin 1 .. last
    <3>1. b \in last + 1 .. last + n
      BY <1>1, <2>2 DEF last
    <3>2. cs[b] = <<>>
      BY <3>1 DEF last
    <3> QED
      BY <3>2
  <2> QED
    BY <2>1, <2>2
<1>7. Annotated(cs, M)
  <2>1. Len(bs) <= Len(cs)
    BY <1>1 DEF last
  <2>2. \A b \in 1 .. Len(bs) :
           /\ Len(bs[b]) <= Len(cs[b])
           /\ \A k \in 1 .. Len(bs[b]) : cs[b][k] = bs[b][k]
    BY <1>1 DEF last
  <2> QED
    BY <1>5, <1>6, <2>1, <2>2, AnnotationExtends
<1> QED
  BY <1>2, <1>3, <1>4, <1>7 DEF last, AnnotatedNew

\* One instruction, or two, at the insertion point.
LEMMA EmitOne ==
  ASSUME NEW bs \in CodeBlocks, insert \in 1 .. Len(bs), NEW i \in Instructions, NEW d \in Cont,
         NEW N \in Annotations, Annotated(bs, N),
         InstrOK(i, N[insert][Len(bs[insert]) + 1], d, N, Len(bs)),
         NEW cs, cs = EmitTo(bs, <<i>>)
  PROVE  /\ cs \in CodeBlocks /\ Len(cs) = Len(bs)
         /\ \A b \in 1 .. Len(bs) : b # insert => cs[b] = bs[b]
         /\ i.op \in Terminators => Ended(cs[insert])
         /\ AnnotatedTo(bs, N, cs, insert, d)
<1>1. <<i>> \in Seq(Instructions)
  OBVIOUS
<1>2. /\ cs \in CodeBlocks /\ Len(cs) = Len(bs)
      /\ \A b \in 1 .. Len(bs) : b # insert => cs[b] = bs[b]
      /\ cs[insert] = bs[insert] \o <<i>>
  BY <1>1, EmitToBlocks
<1>3. bs[insert] \in Seq(Instructions)
  BY DEF CodeBlocks
<1>4. i.op \in Terminators => Ended(cs[insert])
  BY <1>2, <1>3, OneAfter
<1>5. AddsOne(bs, insert, i, cs)
  BY <1>2 DEF AddsOne
<1>6. AnnotatedTo(bs, N, cs, insert, d)
  BY <1>2, <1>5, AnnotateOne
<1> QED
  BY <1>2, <1>4, <1>6

\* Two instructions at the insertion point.
LEMMA EmitTwo ==
  ASSUME NEW bs \in CodeBlocks, insert \in 1 .. Len(bs),
         NEW i \in Instructions, NEW j \in Instructions, NEW c \in Cont, NEW d \in Cont,
         NEW N \in Annotations, Annotated(bs, N),
         InstrOK(i, N[insert][Len(bs[insert]) + 1], c, N, Len(bs)),
         InstrOK(j, c, d, N, Len(bs)),
         NEW cs, cs = EmitTo(bs, <<i, j>>)
  PROVE  /\ cs \in CodeBlocks /\ Len(cs) = Len(bs)
         /\ \A b \in 1 .. Len(bs) : b # insert => cs[b] = bs[b]
         /\ j.op \in Terminators => Ended(cs[insert])
         /\ AnnotatedTo(bs, N, cs, insert, d)
<1> DEFINE ms == EmitTo(bs, <<i>>)
<1>0. Len(bs) \in Nat /\ bs[insert] \in Seq(Instructions)
  BY DEF CodeBlocks
<1>1. <<i>> \in Seq(Instructions) /\ <<i, j>> \in Seq(Instructions)
  OBVIOUS
<1>2. /\ ms \in CodeBlocks /\ Len(ms) = Len(bs)
      /\ \A b \in 1 .. Len(bs) : b # insert => ms[b] = bs[b]
      /\ ms[insert] = bs[insert] \o <<i>>
  BY <1>1, EmitToBlocks
<1>3. /\ cs \in CodeBlocks /\ Len(cs) = Len(bs)
      /\ \A b \in 1 .. Len(bs) : b # insert => cs[b] = bs[b]
      /\ cs[insert] = bs[insert] \o <<i, j>>
  BY <1>1, EmitToBlocks
<1> HIDE DEF ms
<1>4. cs[insert] = ms[insert] \o <<j>>
  BY <1>0, <1>2, <1>3, TwoAfter
<1>5. AddsOne(bs, insert, i, ms) /\ AddsOne(ms, insert, j, cs) /\ insert \in 1 .. Len(ms)
  BY <1>2, <1>3, <1>4 DEF AddsOne
<1>6. AnnotatedTo(bs, N, ms, insert, c)
  BY <1>2, <1>5, AnnotateOne
<1>7. PICK M \in Annotations :
        /\ Annotated(ms, M)
        /\ \A b \in 1 .. Len(bs) : M[b][1] = N[b][1]
        /\ M[insert][Len(ms[insert]) + 1] = c
  BY <1>6 DEF AnnotatedTo
<1>8. InstrOK(j, M[insert][Len(ms[insert]) + 1], d, M, Len(ms))
  BY <1>0, <1>2, <1>7, InstrKept
<1>9. AnnotatedTo(ms, M, cs, insert, d)
  BY <1>2, <1>3, <1>5, <1>7, <1>8, AnnotateOne
<1>10. AnnotatedTo(bs, N, cs, insert, d)
  BY <1>2, <1>7, <1>9 DEF AnnotatedTo
<1>11. j.op \in Terminators => Ended(cs[insert])
  <2>1. ms[insert] \in Seq(Instructions)
    BY <1>2 DEF CodeBlocks
  <2> QED
    BY <1>4, <2>1, OneAfter
<1> QED
  BY <1>3, <1>10, <1>11

-----------------------------------------------------------------------------
(***************************************************************************)
(* The invariant                                                           *)
(***************************************************************************)
FlowTypes ==
  /\ body \in Bodies
  /\ blocks \in CodeBlocks /\ insert \in 1 .. Len(blocks)
  /\ todo \in Seq(Tasks)
  /\ status \in {"generating", "exited", "running", "returned"}
  /\ pc \in (1 .. Len(blocks)) \X (Nat \ {0})
  /\ rest \in Cont

Generating(N) ==
  /\ rest = body /\ pc = <<1, 1>>
  /\ Open(blocks, todo, {insert})
  /\ \E S : /\ Waiting(todo, S, N, Len(blocks))
            /\ N[insert][Len(blocks[insert]) + 1] = P(S[1])

Running(N) ==
  /\ pc[2] <= Len(blocks[pc[1]])
  /\ P(rest) = N[pc[1]][pc[2]]
  /\ \A b \in 1 .. Len(blocks) : Ended(blocks[b])

FlowAt(N) ==
  /\ Annotated(blocks, N)
  /\ N[1][1] = P(body)
  /\ status = "generating" => Generating(N)
  /\ status \in {"running", "returned"} => Running(N)

FlowInv == FlowTypes /\ \E N \in Annotations : FlowAt(N)

\* It has everything the run checks.
LEMMA FlowInvTypeOK ==
  FlowInv => TypeOK
<1> SUFFICES ASSUME FlowInv PROVE TypeOK
  OBVIOUS
<1>1. PICK N \in Annotations : Annotated(blocks, N)
  BY DEF FlowInv, FlowAt
<1>2. FlowTypes
  BY DEF FlowInv
<1>3. ASSUME NEW b \in 1 .. Len(blocks), NEW k \in 1 .. Len(blocks[b])
      PROVE  /\ blocks[b][k].op \in Terminators \cup {"do", "start", "step"}
             /\ blocks[b][k].targets \in Seq(1 .. Len(blocks))
  <2> DEFINE i == blocks[b][k]
             last == Len(blocks)
  <2>1. i \in Instructions
    BY <1>2 DEF FlowTypes, CodeBlocks
  <2>2. InstrOK(i, N[b][k], N[b][k + 1], N, last)
    BY <1>1 DEF Annotated
  <2> HIDE DEF i, last
  <2>3. i.targets \in Seq(1 .. last)
    <3>1. CASE i.targets = <<>>
      BY <3>1
    <3>2. CASE \E t \in 1 .. last : i.targets = <<t>>
      BY <3>2
    <3>3. CASE \E t, e \in 1 .. last : i.targets = <<t, e>>
      BY <3>3
    <3> QED
      BY <2>2, <3>1, <3>2, <3>3 DEF InstrOK
  <2> QED
    BY <2>1, <2>3 DEF Instructions, Ops, i, last
<1>4. ASSUME NEW k \in 1 .. Len(todo)
      PROVE  todo[k].kind \in Kinds \cup {"else", "merge", "step"}
  <2>1. todo[k] \in Tasks
    BY <1>2 DEF FlowTypes
  <2> QED
    BY <2>1, StatementShapes DEF Tasks
<1>5. ASSUME NEW k \in 1 .. Len(rest)
      PROVE  rest[k].kind \in Kinds \cup {"test", "step"}
  <2>1. rest[k] \in Source
    BY <1>2 DEF FlowTypes, Cont
  <2> QED
    BY <2>1, SourceShapes
<1> QED
  BY <1>2, <1>3, <1>4, <1>5 DEF TypeOK, FlowTypes

\* The instruction at pc does the first statement of rest.
LEMMA FlowInvRunsTheSource ==
  FlowInv => RunsTheSource
<1> SUFFICES ASSUME FlowInv, status = "running" PROVE RunsTheSource
  BY DEF RunsTheSource
<1>1. PICK N \in Annotations : Annotated(blocks, N) /\ Running(N)
  BY DEF FlowInv, FlowAt
<1>2. FlowTypes
  BY DEF FlowInv
<1> DEFINE c == N[pc[1]][pc[2]]
           d == N[pc[1]][pc[2] + 1]
<1>3. InstrOK(Instr, c, d, N, Len(blocks)) /\ pc[2] <= Len(blocks[pc[1]])
  <2>1. pc[1] \in 1 .. Len(blocks) /\ pc[2] \in Nat \ {0} /\ pc[2] <= Len(blocks[pc[1]])
    BY <1>1, <1>2 DEF FlowTypes, Running
  <2>2. Len(blocks[pc[1]]) \in Nat
    BY <1>2, <2>1 DEF FlowTypes, CodeBlocks
  <2>3. pc[2] \in 1 .. Len(blocks[pc[1]])
    BY <2>1, <2>2
  <2> QED
    BY <1>1, <2>1, <2>3 DEF Annotated, Instr
<1>4. Pending = c
  BY <1>1 DEF Running, Pending, P
<1> HIDE DEF c, d
<1>5. ASSUME Instr.op # "br"
      PROVE  IF c = <<>> THEN Instr.op = "ret"
             ELSE /\ Instr.op = SourceOp[Head(c).kind]
                  /\ Instr.op # "ret" => Instr.id = Head(c).id
  BY <1>3, <1>5 DEF InstrOK, SourceOp
<1> QED
  BY <1>3, <1>4, <1>5 DEF RunsTheSource

-----------------------------------------------------------------------------
(***************************************************************************)
(* It holds at the start, and the steps of generation keep it              *)
(***************************************************************************)
LEMMA EmptyTodo ==
  ASSUME NEW N, NEW last
  PROVE  \E S : Waiting(<<>>, S, N, last) /\ S[1] = <<>>
<1> DEFINE S == [j \in Nat |-> <<>>]
<1>1. S \in [Nat -> Cont] /\ S[1] = <<>> /\ Len(<<>>) = 0
  BY DEF Cont
<1> HIDE DEF S
<1>2. Waiting(<<>>, S, N, last)
  BY <1>1 DEF Waiting
<1> QED
  BY <1>1, <1>2

\* It holds at the start: one block, and the body to be done in it.
LEMMA FlowInvInit ==
  Init => FlowInv
<1> SUFFICES ASSUME Init PROVE FlowInv
  OBVIOUS
<1> DEFINE N == [b \in Nat |-> [k \in Nat |-> P(body)]]
<1>1. body \in Seq(Statements) /\ body \in Cont /\ P(body) \in Cont
  BY StatementsAssumption, StatementsAreSource, KeptSource DEF Init
<1>2. N \in Annotations /\ N[1][1] = P(body)
  BY <1>1 DEF Annotations
<1> HIDE DEF N
<1>3. /\ blocks \in CodeBlocks /\ Len(blocks) = 1 /\ blocks[1] = <<>> /\ Len(blocks[1]) = 0
      /\ insert = 1 /\ insert \in 1 .. Len(blocks)
  BY DEF Init, CodeBlocks
<1>4. Annotated(blocks, N)
  BY <1>3 DEF Annotated
<1>5. <<>> \in Seq(Tasks) /\ Len(<<>>) = 0
  OBVIOUS
<1>6. todo \in Seq(Tasks) /\ todo = body \o <<>>
  <2>1. body \in Seq(Tasks)
    BY <1>1, SeqMonotonic DEF Tasks
  <2> QED
    BY <2>1, ConcatEmptySeq DEF Init
<1>7. PICK R : Waiting(<<>>, R, N, 1) /\ R[1] = <<>>
  BY EmptyTodo
<1>8. \E S : Waiting(todo, S, N, 1) /\ S[1] = body \o R[1]
  <2> DEFINE T == <<>>
             c == body
  <2>1. T \in Seq(Tasks) /\ c \in Seq(Statements) /\ Waiting(T, R, N, 1)
    BY <1>1, <1>5, <1>7
  <2>2. todo = c \o T
    BY <1>6
  <2> HIDE DEF T, c
  <2>3. WaitsFrom(c \o T, c \o R[1], N, 1)
    BY <2>1, WaitingPush
  <2> QED
    BY <2>2, <2>3 DEF c, WaitsFrom
<1>9. body \o R[1] = body
  BY <1>1, <1>7, ConcatEmptySeq
<1>10. Open(blocks, <<>>, {insert})
  BY <1>3, <1>5 DEF Open
<1>11. Open(blocks, todo, {insert})
  BY <1>1, <1>5, <1>6, <1>10, OpenPush
<1>12. Generating(N)
  BY <1>2, <1>3, <1>8, <1>9, <1>11 DEF Generating, Init
<1>13. FlowTypes
  BY <1>1, <1>3, <1>6 DEF FlowTypes, Init
<1> QED
  BY <1>2, <1>4, <1>12, <1>13 DEF FlowInv, FlowAt, Init

\* A step of generation, from what its code and its tasks become.
LEMMA GenerationStep ==
  ASSUME FlowTypes, status = "generating", rest = body, pc = <<1, 1>>, NotRun,
         blocks' \in CodeBlocks, Len(blocks) <= Len(blocks'),
         insert' \in 1 .. Len(blocks'), todo' \in Seq(Tasks),
         NEW M \in Annotations, Annotated(blocks', M), M[1][1] = P(body),
         Open(blocks', todo', {insert'}),
         NEW S, Waiting(todo', S, M, Len(blocks')),
         M[insert'][Len(blocks'[insert']) + 1] = P(S[1])
  PROVE  FlowInv'
<1>1. Len(blocks) \in Nat /\ Len(blocks') \in Nat
  BY DEF FlowTypes, CodeBlocks
<1>2. FlowTypes'
  BY <1>1 DEF FlowTypes, NotRun
<1>3. Generating(M)'
  BY DEF Generating, NotRun
<1>4. FlowAt(M)'
  BY <1>3 DEF FlowAt, NotRun
<1> QED
  BY <1>2, <1>4 DEF FlowInv

\* What a task of its kind has, and what it says of the source.
LEMMA TaskIs ==
  ASSUME NEW t \in Tasks, NEW x, NEW y, NEW N, NEW last, TaskOK(t, x, y, N, last)
  PROVE  /\ t.kind \in Kinds => t \in Statements /\ x = <<t>> \o y /\ Targets(t) = {}
         /\ t.kind = "else" =>
              /\ t.else \in Seq(Statements)
              /\ x = y
              /\ t.elseBB \in 1 .. last /\ t.mergeBB \in 1 .. last /\ t.elseBB # t.mergeBB
              /\ N[t.elseBB][1] = P(t.else \o y)
              /\ N[t.mergeBB][1] = P(y)
              /\ Targets(t) = {t.elseBB, t.mergeBB}
         /\ t.kind = "merge" =>
              /\ x = y
              /\ t.mergeBB \in 1 .. last
              /\ N[t.mergeBB][1] = P(y)
              /\ Targets(t) = {t.mergeBB}
         /\ t.kind = "step" =>
              /\ t.id \in STRING
              /\ t.loopCondBB \in 1 .. last /\ t.afterBB \in 1 .. last
              /\ x = <<Step(t.id)>> \o N[t.loopCondBB][1]
              /\ P(N[t.loopCondBB][1]) = N[t.loopCondBB][1]
              /\ N[t.afterBB][1] = P(y)
              /\ Targets(t) = {t.afterBB}
<1>1. \A s \in Statements : s.kind \in Kinds /\ Targets(s) = {}
  BY StatementShapes, NoTargets
<1>2. t.kind \in Kinds \/ t.kind \in {"else", "merge", "step"}
  BY <1>1 DEF Tasks
<1>3. ASSUME t.kind \in Kinds
      PROVE  t \in Statements /\ x = <<t>> \o y /\ Targets(t) = {}
  BY <1>1, <1>3 DEF Tasks, TaskOK, Kinds
<1>4. ASSUME t.kind = "else"
      PROVE  /\ t.else \in Seq(Statements) /\ t \notin Statements
             /\ Targets(t) = {t.elseBB, t.mergeBB}
  BY <1>1, <1>4 DEF Tasks, Kinds, Targets
<1>5. ASSUME t.kind = "merge"
      PROVE  t \notin Statements /\ Targets(t) = {t.mergeBB}
  BY <1>1, <1>5 DEF Tasks, Kinds, Targets
<1>6. ASSUME t.kind = "step"
      PROVE  t \notin Statements /\ t.id \in STRING /\ Targets(t) = {t.afterBB}
  BY <1>1, <1>6 DEF Tasks, Kinds, Targets
<1> QED
  BY <1>3, <1>4, <1>5, <1>6 DEF TaskOK

\* Where a step of generation begins: x is the source of todo, and y that of what
\* follows its first task.
Begins(N, x, y, R) ==
  /\ Annotated(blocks, N)
  /\ N[1][1] = P(body)
  /\ x \in Cont /\ y \in Cont
  /\ TaskOK(Head(todo), x, y, N, Len(blocks))
  /\ N[insert][Len(blocks[insert]) + 1] = P(x)
  /\ Waiting(Tail(todo), R, N, Len(blocks)) /\ R[1] = y

\* The invariant, for the first task of todo.
LEMMA StepBegins ==
  ASSUME FlowInv, status = "generating", todo # <<>>
  PROVE  /\ FlowTypes
         /\ rest = body /\ pc = <<1, 1>>
         /\ Len(blocks) \in Nat \ {0}
         /\ Head(todo) \in Tasks /\ Tail(todo) \in Seq(Tasks)
         /\ Open(blocks, todo, {insert})
         /\ Open(blocks, Tail(todo), {insert} \cup Targets(Head(todo)))
         /\ \E N \in Annotations : \E x, y, R : Begins(N, x, y, R)
<1>1. FlowTypes
  BY DEF FlowInv
<1>2. PICK N \in Annotations : Annotated(blocks, N) /\ N[1][1] = P(body) /\ Generating(N)
  BY DEF FlowInv, FlowAt
<1>3. PICK S : /\ Waiting(todo, S, N, Len(blocks))
               /\ N[insert][Len(blocks[insert]) + 1] = P(S[1])
  BY <1>2 DEF Generating
<1>4. todo \in Seq(Tasks) /\ Head(todo) \in Tasks /\ Tail(todo) \in Seq(Tasks)
  BY <1>1, TailTasks DEF FlowTypes
<1>5. Len(blocks) \in Nat \ {0}
  BY <1>1 DEF FlowTypes, CodeBlocks
<1>6. Open(blocks, Tail(todo), {insert} \cup Targets(Head(todo)))
  BY <1>2, <1>4, OpenTail DEF Generating
<1>7. /\ TaskOK(Head(todo), S[1], S[2], N, Len(blocks))
      /\ S[1] \in Cont /\ S[2] \in Cont
      /\ \E R : Waiting(Tail(todo), R, N, Len(blocks)) /\ R[1] = S[2]
  BY <1>3, <1>4, WaitingTail
<1>8. \E R : Begins(N, S[1], S[2], R)
  BY <1>2, <1>3, <1>7 DEF Begins
<1> QED
  BY <1>1, <1>2, <1>4, <1>5, <1>6, <1>8 DEF Generating

\* The instructions there are.
LEMMA PlainShape ==
  ASSUME NEW op \in {"do", "start", "step"}, NEW id \in STRING
  PROVE  /\ Instruction(op, id, <<>>) \in Instructions
         /\ Instruction(op, id, <<>>).op = op
         /\ Instruction(op, id, <<>>).id = id
         /\ Instruction(op, id, <<>>).targets = <<>>
<1>1. op \in Ops /\ id \in Ids /\ <<>> \in Seq(Nat)
  BY EmptySeq DEF Ops, Ids
<1> QED
  BY <1>1 DEF Instruction, Instructions

LEMMA RetShape ==
  Ret \in Instructions /\ Ret.op = "ret" /\ Ret.targets = <<>> /\ Ret.op \in Terminators
<1>1. "ret" \in Ops /\ "" \in Ids /\ <<>> \in Seq(Nat)
  BY EmptySeq DEF Ops, Ids, Terminators
<1> QED
  BY <1>1 DEF Ret, Instruction, Instructions, Terminators

LEMMA BrShape ==
  ASSUME NEW t \in Nat
  PROVE  /\ Br(t) \in Instructions
         /\ Br(t).op = "br" /\ Br(t).targets = <<t>> /\ Br(t).op \in Terminators
<1>1. "br" \in Ops /\ "" \in Ids /\ <<t>> \in Seq(Nat)
  BY DEF Ops, Ids, Terminators
<1> QED
  BY <1>1 DEF Br, Instruction, Instructions, Terminators

LEMMA CondShape ==
  ASSUME NEW id \in STRING, NEW t \in Nat, NEW e \in Nat
  PROVE  /\ CondBr(id, t, e) \in Instructions
         /\ CondBr(id, t, e).op = "cond" /\ CondBr(id, t, e).op \in Terminators
         /\ CondBr(id, t, e).id = id
         /\ CondBr(id, t, e).targets = <<t, e>>
<1>1. "cond" \in Ops /\ id \in Ids
  BY DEF Ops, Ids, Terminators
<1>2. <<t, e>> \in Seq(Nat)
  OBVIOUS
<1> QED
  BY <1>1, <1>2 DEF CondBr, Instruction, Instructions, Terminators

\* A statement of one instruction, and its place is that of what follows it.
LEMMA OneInstruction ==
  ASSUME FlowInv, status = "generating", todo # <<>>, Head(todo).kind \in Kinds,
         ~Dropped(Head(todo)), NEW i \in Instructions,
         \A c, d, N : c # <<>> /\ Head(c) = Head(todo) /\ d = P(Tail(c))
                        => InstrOK(i, c, d, N, Len(blocks)),
         blocks' = Emit(<<i>>), todo' = Tail(todo), NotRun, UNCHANGED insert
  PROVE  FlowInv'
<1> DEFINE t == Head(todo)
<1>b. PICK N \in Annotations : \E x, y, R : Begins(N, x, y, R)
  BY StepBegins
<1>1. PICK x, y, R : Begins(N, x, y, R)
  BY <1>b
<1>2. /\ FlowTypes /\ rest = body /\ pc = <<1, 1>> /\ Len(blocks) \in Nat \ {0}
      /\ t \in Tasks /\ Tail(todo) \in Seq(Tasks)
      /\ Open(blocks, Tail(todo), {insert} \cup Targets(t))
  BY StepBegins
<1>3. t \in Statements /\ x = <<t>> \o y /\ Targets(t) = {}
  BY <1>1, <1>2, TaskIs DEF Begins
<1>4. t \in Source /\ y \in Cont
  BY <1>1, <1>3 DEF Begins, Source
<1>5. P(x) = x /\ x # <<>> /\ Head(x) = t /\ Tail(x) = y /\ P(y) \in Cont
  BY <1>3, <1>4, Before, KeptBefore, KeptSource
<1>6. InstrOK(i, N[insert][Len(blocks[insert]) + 1], P(y), N, Len(blocks))
  <2>1. InstrOK(i, x, P(y), N, Len(blocks))
    BY <1>5
  <2> QED
    BY <1>1, <1>5, <2>1 DEF Begins
<1>7. /\ blocks' \in CodeBlocks /\ Len(blocks') = Len(blocks)
      /\ \A b \in 1 .. Len(blocks) : b # insert => blocks'[b] = blocks[b]
      /\ AnnotatedTo(blocks, N, blocks', insert, P(y))
  BY <1>1, <1>2, <1>5, <1>6, EmitOne DEF Emit, FlowTypes, Begins
<1>8. PICK M \in Annotations :
        /\ Annotated(blocks', M)
        /\ \A b \in 1 .. Len(blocks) : M[b][1] = N[b][1]
        /\ M[insert][Len(blocks'[insert]) + 1] = P(y)
  BY <1>7 DEF AnnotatedTo
<1>9. Waiting(todo', R, M, Len(blocks')) /\ R[1] = y
  BY <1>1, <1>2, <1>7, <1>8, WaitingKept DEF Begins
<1>10. Open(blocks', todo', {insert})
  <2>1. Open(blocks, todo', {insert})
    BY <1>2, <1>3
  <2>2. Len(blocks) <= Len(blocks') /\ \A b \in Len(blocks) + 1 .. Len(blocks') : b \in {insert}
    BY <1>2, <1>7
  <2> QED
    BY <1>2, <1>7, <2>1, <2>2, OpenEmit DEF FlowTypes
<1>11. M[1][1] = P(body)
  BY <1>1, <1>2, <1>8 DEF Begins
<1>12. Len(blocks) <= Len(blocks') /\ insert' \in 1 .. Len(blocks') /\ todo' \in Seq(Tasks)
  BY <1>2, <1>7 DEF FlowTypes
<1> QED
  BY <1>2, <1>7, <1>8, <1>9, <1>10, <1>11, <1>12, GenerationStep

\* generateExpression
LEMMA StepExpression ==
  ASSUME FlowInv, GenerateExpression
  PROVE  FlowInv'
<1> DEFINE i == Instruction("do", Task.id, <<>>)
<1>1. /\ status = "generating" /\ todo # <<>> /\ Task = Head(todo) /\ Task.kind = "do"
      /\ blocks' = Emit(<<i>>) /\ todo' = Tail(todo) /\ NotRun /\ UNCHANGED insert
  BY DEF GenerateExpression, At, Task
<1>2. Head(todo) \in Statements
  BY <1>1, StepBegins, TaskIs DEF Begins, Kinds
<1>3. i \in Instructions /\ i.op = "do" /\ i.id = Head(todo).id /\ i.targets = <<>>
  <2>1. Head(todo).id \in STRING
    BY <1>2, StatementShapes
  <2> QED
    BY <1>1, <2>1, PlainShape
<1> HIDE DEF i
<1>4. ASSUME NEW c, NEW d, NEW N, c # <<>>, Head(c) = Head(todo), d = P(Tail(c))
      PROVE  InstrOK(i, c, d, N, Len(blocks))
  <2> SUFFICES <<>> \o Tail(c) = Tail(c)
    BY <1>1, <1>3, <1>4 DEF InstrOK
  <2> QED
    OBVIOUS
<1> QED
  BY <1>1, <1>3, <1>4, OneInstruction DEF Kinds, Dropped

\* generateReturn
LEMMA StepReturn ==
  ASSUME FlowInv, GenerateReturn
  PROVE  FlowInv'
<1>1. /\ status = "generating" /\ todo # <<>> /\ Task = Head(todo) /\ Task.kind = "return"
      /\ blocks' = Emit(<<Ret>>) /\ todo' = Tail(todo) /\ NotRun /\ UNCHANGED insert
  BY DEF GenerateReturn, At, Task
<1>2. Ret \in Instructions /\ Ret.op = "ret" /\ Ret.targets = <<>>
  BY RetShape
<1>3. ASSUME NEW c, NEW d, NEW N, c # <<>>, Head(c) = Head(todo), d = P(Tail(c))
      PROVE  InstrOK(Ret, c, d, N, Len(blocks))
  BY <1>1, <1>2, <1>3 DEF InstrOK
<1> QED
  BY <1>1, <1>2, <1>3, OneInstruction DEF Kinds, Dropped

\* A statement that is dropped.
LEMMA StepInvalid ==
  ASSUME FlowInv, Invalid
  PROVE  FlowInv'
<1> DEFINE t == Head(todo)
<1>1. /\ status = "generating" /\ todo # <<>> /\ t.kind \in {"if", "for"} /\ t.invalid
      /\ todo' = Tail(todo) /\ NotRun /\ UNCHANGED <<blocks, insert>>
  BY DEF Invalid, At, Task
<1>b. PICK N \in Annotations : \E x, y, R : Begins(N, x, y, R)
  BY <1>1, StepBegins
<1>2. PICK x, y, R : Begins(N, x, y, R)
  BY <1>b
<1>3. /\ FlowTypes /\ rest = body /\ pc = <<1, 1>> /\ Len(blocks) \in Nat \ {0}
      /\ t \in Tasks /\ Tail(todo) \in Seq(Tasks)
      /\ Open(blocks, Tail(todo), {insert} \cup Targets(t))
  BY <1>1, StepBegins
<1>4. t \in Statements /\ x = <<t>> \o y /\ Targets(t) = {}
  BY <1>1, <1>2, <1>3, TaskIs DEF Begins, Kinds
<1>5. P(x) = P(y)
  <2>1. t \in Source /\ y \in Cont /\ Dropped(t)
    BY <1>1, <1>2, <1>4 DEF Begins, Source, Dropped
  <2> QED
    BY <1>4, <2>1, KeptBefore
<1>6. Open(blocks', todo', {insert'})
  BY <1>1, <1>3, <1>4
<1>7. /\ Annotated(blocks', N) /\ N[1][1] = P(body)
      /\ Waiting(todo', R, N, Len(blocks'))
      /\ N[insert'][Len(blocks'[insert']) + 1] = P(R[1])
  BY <1>1, <1>2, <1>5 DEF Begins
<1>8. /\ blocks' \in CodeBlocks /\ Len(blocks) <= Len(blocks')
      /\ insert' \in 1 .. Len(blocks') /\ todo' \in Seq(Tasks)
  BY <1>1, <1>3 DEF FlowTypes
<1> QED
  BY <1>1, <1>3, <1>6, <1>7, <1>8, GenerationStep

\* The blocks that the first task waits for are empty, and others than insert.
LEMMA TargetsAreEmpty ==
  ASSUME NEW T \in Seq(Tasks), T # <<>>, NEW bs, NEW W, Open(bs, T, W), NEW b \in Targets(Head(T))
  PROVE  b \in 1 .. Len(bs) /\ b \notin W /\ bs[b] = <<>>
<1>1. Head(T) = T[1] /\ 1 \in 1 .. Len(T)
  BY TailTasks
<1> QED
  BY <1>1 DEF Open

\* The same, from what the source has to do.
LEMMA PushFrom ==
  ASSUME NEW T \in Seq(Tasks), NEW x, NEW N, NEW last, WaitsFrom(T, x, N, last),
         NEW c \in Seq(Statements)
  PROVE  WaitsFrom(c \o T, c \o x, N, last)
<1>1. PICK S : Waiting(T, S, N, last) /\ S[1] = x
  BY DEF WaitsFrom
<1>2. WaitsFrom(c \o T, c \o S[1], N, last)
  BY <1>1, WaitingPush
<1> QED
  BY <1>1, <1>2

\* The statements c, the task t and then T wait where T did.
LEMMA PushBlock ==
  ASSUME NEW c \in Seq(Statements), NEW t \in Tasks, NEW T \in Seq(Tasks),
         NEW S, NEW N, NEW last, Waiting(T, S, N, last),
         NEW x \in Cont, TaskOK(t, x, S[1], N, last),
         NEW bs, NEW W, Open(bs, T, W), Targets(t) \subseteq W,
         \A b \in Targets(t) : b \in 1 .. Len(bs) /\ bs[b] = <<>>,
         NEW U, U = c \o <<t>> \o T
  PROVE  /\ U \in Seq(Tasks)
         /\ WaitsFrom(U, c \o x, N, last)
         /\ Open(bs, U, W \ Targets(t))
<1> DEFINE tT == <<t>> \o T
           one == <<t>>
<1>1. tT \in Seq(Tasks)
  BY ConsTasks
<1>2. c \in Seq(Tasks) /\ one \in Seq(Tasks)
  BY SeqMonotonic DEF Tasks
<1>3. tT = one \o T
  OBVIOUS
<1>4. U = (c \o one) \o T
  OBVIOUS
<1>5. WaitsFrom(tT, x, N, last)
  BY WaitingCons DEF WaitsFrom
<1>6. Open(bs, tT, W \ Targets(t))
  BY OpenCons
<1> HIDE DEF one, tT
<1>7. U = c \o tT
  <2>1. (c \o one) \o T = c \o (one \o T)
    BY <1>2, ConcatAssociative
  <2> QED
    BY <1>3, <1>4, <2>1
<1>10. WaitsFrom(U, c \o x, N, last)
  <2>1. WaitsFrom(c \o tT, c \o x, N, last)
    BY <1>1, <1>5, PushFrom
  <2> QED
    BY <1>7, <2>1
<1>11. Open(bs, U, W \ Targets(t))
  BY <1>1, <1>6, <1>7, OpenPush
<1>12. U \in Seq(Tasks)
  BY <1>1, <1>2, <1>7, ConcatProperties
<1> QED
  BY <1>10, <1>11, <1>12

\* A branch from the insertion point to a block with the same to be done.
LEMMA EmitBr ==
  ASSUME FlowTypes, NEW N \in Annotations, Annotated(blocks, N),
         NEW m \in 1 .. Len(blocks), NEW c \in Cont,
         N[insert][Len(blocks[insert]) + 1] = c, N[m][1] = c,
         NEW cs, cs = Emit(<<Br(m)>>)
  PROVE  /\ cs \in CodeBlocks /\ Len(cs) = Len(blocks)
         /\ \A b \in 1 .. Len(blocks) : b # insert => cs[b] = blocks[b]
         /\ Ended(cs[insert])
         /\ \E M \in Annotations :
              /\ Annotated(cs, M)
              /\ \A b \in 1 .. Len(blocks) : M[b][1] = N[b][1]
<1> DEFINE i == Br(m)
<1>1. i \in Instructions /\ i.op = "br" /\ i.targets = <<m>> /\ i.op \in Terminators
  BY BrShape DEF FlowTypes
<1>2. cs = EmitTo(blocks, <<i>>)
  BY DEF Emit
<1> HIDE DEF i
<1>3. InstrOK(i, N[insert][Len(blocks[insert]) + 1], c, N, Len(blocks))
  BY <1>1 DEF InstrOK
<1>4. /\ cs \in CodeBlocks /\ Len(cs) = Len(blocks)
      /\ \A b \in 1 .. Len(blocks) : b # insert => cs[b] = blocks[b]
      /\ i.op \in Terminators => Ended(cs[insert])
      /\ AnnotatedTo(blocks, N, cs, insert, c)
  BY <1>1, <1>2, <1>3, EmitOne DEF FlowTypes
<1> QED
  BY <1>1, <1>4 DEF AnnotatedTo

\* The end of an if or else, and MergeBB.
LEMMA StepMerge ==
  ASSUME FlowInv, Merge
  PROVE  FlowInv'
<1> DEFINE t == Head(todo)
           m == t.mergeBB
<1>1. /\ status = "generating" /\ todo # <<>> /\ t.kind = "merge" /\ blocks' = Emit(<<Br(m)>>)
      /\ insert' = m /\ todo' = Tail(todo) /\ NotRun
  BY DEF Merge, At, Task
<1>b. PICK N \in Annotations : \E x, y, R : Begins(N, x, y, R)
  BY <1>1, StepBegins
<1>2. PICK x, y, R : Begins(N, x, y, R)
  BY <1>b
<1>3. /\ FlowTypes /\ rest = body /\ pc = <<1, 1>> /\ Len(blocks) \in Nat \ {0}
      /\ t \in Tasks /\ Tail(todo) \in Seq(Tasks) /\ todo \in Seq(Tasks)
      /\ Open(blocks, todo, {insert})
      /\ Open(blocks, Tail(todo), {insert} \cup Targets(t))
  BY <1>1, StepBegins DEF FlowTypes
<1>4. x = y /\ m \in 1 .. Len(blocks) /\ N[m][1] = P(y) /\ Targets(t) = {m}
  BY <1>1, <1>2, <1>3, TaskIs DEF Begins
<1>5. m # insert /\ blocks[m] = <<>>
  BY <1>1, <1>3, <1>4, TargetsAreEmpty
<1>6. P(y) \in Cont
  BY <1>2, KeptSource DEF Begins
<1> HIDE DEF m
<1>7. /\ blocks' \in CodeBlocks /\ Len(blocks') = Len(blocks)
      /\ \A b \in 1 .. Len(blocks) : b # insert => blocks'[b] = blocks[b]
      /\ Ended(blocks'[insert])
      /\ \E M \in Annotations :
           /\ Annotated(blocks', M)
           /\ \A b \in 1 .. Len(blocks) : M[b][1] = N[b][1]
  BY <1>1, <1>2, <1>3, <1>4, <1>6, EmitBr DEF Begins
<1>8. PICK M \in Annotations :
        /\ Annotated(blocks', M)
        /\ \A b \in 1 .. Len(blocks) : M[b][1] = N[b][1]
  BY <1>7
<1>9. Waiting(todo', R, M, Len(blocks')) /\ R[1] = y
  BY <1>1, <1>2, <1>3, <1>7, <1>8, WaitingKept DEF Begins
<1>10. Open(blocks', todo', {insert'})
  <2> DEFINE W == {insert} \cup {m}
  <2>1. Open(blocks, todo', W)
    BY <1>1, <1>3, <1>4
  <2>2. Len(blocks) <= Len(blocks') /\ \A b \in Len(blocks) + 1 .. Len(blocks') : b \in W
    BY <1>3, <1>7
  <2>3. \A b \in 1 .. Len(blocks) : b \in W \/ blocks'[b] = blocks[b]
    BY <1>7
  <2>4. W \ {insert} = {m}
    BY <1>5
  <2> HIDE DEF W
  <2>5. Open(blocks', todo', W)
    BY <1>3, <1>7, <2>1, <2>2, <2>3, OpenEmit DEF FlowTypes
  <2>6. Open(blocks', todo', W \ {insert})
    BY <1>7, <2>5, OpenEnded
  <2> QED
    BY <1>1, <2>4, <2>6
<1>11. M[insert'][Len(blocks'[insert']) + 1] = P(R[1])
  <2>1. blocks'[m] = <<>> /\ Len(<<>>) + 1 = 1
    BY <1>4, <1>5, <1>7
  <2> QED
    BY <1>1, <1>4, <1>8, <1>9, <2>1
<1>12. M[1][1] = P(body)
  BY <1>2, <1>3, <1>8 DEF Begins
<1>13. Len(blocks) <= Len(blocks') /\ insert' \in 1 .. Len(blocks') /\ todo' \in Seq(Tasks)
  BY <1>1, <1>3, <1>4, <1>7
<1> QED
  BY <1>1, <1>3, <1>7, <1>8, <1>9, <1>10, <1>11, <1>12, <1>13, GenerationStep

\* The end of then, and ElseBB.
LEMMA StepElse ==
  ASSUME FlowInv, GenerateElse
  PROVE  FlowInv'
<1> DEFINE t == Head(todo)
           m == t.mergeBB
           e == t.elseBB
           mt == [kind |-> "merge", mergeBB |-> m]
<1>1. /\ status = "generating" /\ todo # <<>> /\ t.kind = "else" /\ blocks' = Emit(<<Br(m)>>)
      /\ insert' = e /\ todo' = t.else \o <<mt>> \o Tail(todo) /\ NotRun
  BY DEF GenerateElse, At, Task
<1>b. PICK N \in Annotations : \E x, y, R : Begins(N, x, y, R)
  BY <1>1, StepBegins
<1>2. PICK x, y, R : Begins(N, x, y, R)
  BY <1>b
<1>3. /\ FlowTypes /\ rest = body /\ pc = <<1, 1>> /\ Len(blocks) \in Nat \ {0}
      /\ t \in Tasks /\ Tail(todo) \in Seq(Tasks) /\ todo \in Seq(Tasks)
      /\ Open(blocks, todo, {insert})
      /\ Open(blocks, Tail(todo), {insert} \cup Targets(t))
  BY <1>1, StepBegins DEF FlowTypes
<1>4. /\ t.else \in Seq(Statements) /\ x = y
      /\ m \in 1 .. Len(blocks) /\ e \in 1 .. Len(blocks) /\ e # m
      /\ N[m][1] = P(y) /\ N[e][1] = P(t.else \o y)
      /\ Targets(t) = {e, m}
  <2>1. TaskOK(t, x, y, N, Len(blocks))
    BY <1>2 DEF Begins
  <2>2. t \in Tasks /\ t.kind = "else"
    BY <1>1, <1>3
  <2> HIDE DEF t
  <2> QED
    BY <2>1, <2>2, TaskIs
<1>5. m # insert /\ blocks[m] = <<>> /\ e # insert /\ blocks[e] = <<>>
  BY <1>1, <1>3, <1>4, TargetsAreEmpty
<1>6. P(y) \in Cont /\ y \in Cont
  BY <1>2, KeptSource DEF Begins
<1>7. mt \in Tasks /\ mt.kind = "merge" /\ mt.mergeBB = m /\ Targets(mt) = {m}
  BY <1>4 DEF Tasks, Targets
<1> HIDE DEF m, e, mt
<1>8. /\ blocks' \in CodeBlocks /\ Len(blocks') = Len(blocks)
      /\ \A b \in 1 .. Len(blocks) : b # insert => blocks'[b] = blocks[b]
      /\ Ended(blocks'[insert])
      /\ \E M \in Annotations :
           /\ Annotated(blocks', M)
           /\ \A b \in 1 .. Len(blocks) : M[b][1] = N[b][1]
  <2> DEFINE cs == blocks'
             c == P(y)
  <2>1. N[insert][Len(blocks[insert]) + 1] = c /\ N[m][1] = c
    BY <1>2, <1>4 DEF Begins
  <2>2. FlowTypes /\ Annotated(blocks, N) /\ cs = Emit(<<Br(m)>>) /\ c \in Cont /\ m \in 1 .. Len(blocks)
    BY <1>1, <1>2, <1>3, <1>4, <1>6 DEF Begins
  <2> HIDE DEF cs, c
  <2>3. /\ cs \in CodeBlocks /\ Len(cs) = Len(blocks)
        /\ \A b \in 1 .. Len(blocks) : b # insert => cs[b] = blocks[b]
        /\ Ended(cs[insert])
        /\ \E M \in Annotations :
             /\ Annotated(cs, M)
             /\ \A b \in 1 .. Len(blocks) : M[b][1] = N[b][1]
    BY <2>1, <2>2, EmitBr
  <2> QED
    BY <2>3 DEF cs
<1>9. PICK M \in Annotations :
        /\ Annotated(blocks', M)
        /\ \A b \in 1 .. Len(blocks) : M[b][1] = N[b][1]
  BY <1>8
<1>10. Waiting(Tail(todo), R, M, Len(blocks')) /\ R[1] = y
  <2> DEFINE last == Len(blocks)
             more == Len(blocks')
             T == Tail(todo)
  <2>1. Waiting(T, R, N, last) /\ R[1] = y
    BY <1>2 DEF Begins
  <2>2. last \in Nat /\ more \in Nat /\ last <= more
    BY <1>3, <1>8
  <2>3. \A b \in 1 .. last : M[b][1] = N[b][1]
    BY <1>9
  <2> HIDE DEF last, more, T
  <2>4. Waiting(T, R, M, more)
    BY <2>1, <2>2, <2>3, WaitingKept
  <2> QED
    BY <2>1, <2>4 DEF T, more
<1>11. TaskOK(mt, y, R[1], M, Len(blocks'))
  BY <1>4, <1>7, <1>8, <1>9, <1>10 DEF TaskOK
<1>12. Open(blocks', Tail(todo), {e, m})
  <2> DEFINE W == {insert} \cup {e, m}
  <2>1. Open(blocks, Tail(todo), W)
    BY <1>3, <1>4
  <2>2. Len(blocks) <= Len(blocks') /\ \A b \in Len(blocks) + 1 .. Len(blocks') : b \in W
    BY <1>3, <1>8
  <2>3. \A b \in 1 .. Len(blocks) : b \in W \/ blocks'[b] = blocks[b]
    BY <1>8
  <2>4. W \ {insert} = {e, m}
    BY <1>5
  <2> HIDE DEF W
  <2>5. Open(blocks', Tail(todo), W)
    BY <1>3, <1>8, <2>1, <2>2, <2>3, OpenEmit DEF FlowTypes
  <2>6. Open(blocks', Tail(todo), W \ {insert})
    BY <1>8, <2>5, OpenEnded
  <2> QED
    BY <2>4, <2>6
<1>13. /\ todo' \in Seq(Tasks)
       /\ WaitsFrom(todo', t.else \o y, M, Len(blocks'))
       /\ Open(blocks', todo', {e, m} \ Targets(mt))
  <2>1. \A b \in Targets(mt) : b \in 1 .. Len(blocks') /\ blocks'[b] = <<>>
    BY <1>4, <1>5, <1>7, <1>8
  <2>2. Targets(mt) \subseteq {e, m}
    BY <1>7
  <2> DEFINE c == t.else
             T == Tail(todo)
             W == {e, m}
             last == Len(blocks')
  <2>3. /\ c \in Seq(Statements) /\ T \in Seq(Tasks)
        /\ Waiting(T, R, M, last)
        /\ TaskOK(mt, y, R[1], M, last)
        /\ Open(blocks', T, W) /\ Targets(mt) \subseteq W
        /\ todo' = c \o <<mt>> \o T
    BY <1>1, <1>3, <1>4, <1>10, <1>11, <1>12, <2>2
  <2> HIDE DEF t, c, T, W, last
  <2>4. /\ todo' \in Seq(Tasks)
        /\ WaitsFrom(todo', c \o y, M, last)
        /\ Open(blocks', todo', W \ Targets(mt))
    BY <1>6, <1>7, <2>1, <2>3, PushBlock
  <2> QED
    BY <2>4 DEF c, W, last
<1>14. PICK S : Waiting(todo', S, M, Len(blocks')) /\ S[1] = t.else \o y
  BY <1>13 DEF WaitsFrom
<1>15. Open(blocks', todo', {insert'})
  <2>1. {e, m} \ Targets(mt) = {e}
    BY <1>4, <1>7
  <2> QED
    BY <1>1, <1>13, <2>1
<1>16. M[insert'][Len(blocks'[insert']) + 1] = P(S[1])
  <2>1. blocks'[e] = <<>> /\ Len(<<>>) + 1 = 1
    BY <1>4, <1>5, <1>8
  <2> QED
    BY <1>1, <1>4, <1>9, <1>14, <2>1
<1>17. M[1][1] = P(body)
  BY <1>2, <1>3, <1>9 DEF Begins
<1>18. Len(blocks) <= Len(blocks') /\ insert' \in 1 .. Len(blocks')
  BY <1>1, <1>3, <1>4, <1>8
<1> QED
  BY <1>1, <1>3, <1>8, <1>9, <1>13, <1>14, <1>15, <1>16, <1>17, <1>18, GenerationStep

\* Three new blocks, with f, g and h to be done in them.
LEMMA ThreeBlocks ==
  ASSUME FlowTypes, NEW N \in Annotations, Annotated(blocks, N),
         NEW f \in Cont, NEW g \in Cont, NEW h \in Cont
  PROVE  /\ WithNew(3) \in CodeBlocks
         /\ Len(WithNew(3)) = Len(blocks) + 3
         /\ Len(blocks) \in Nat \ {0}
         /\ \A b \in 1 .. Len(blocks) : WithNew(3)[b] = blocks[b]
         /\ WithNew(3)[New(1)] = <<>> /\ WithNew(3)[New(2)] = <<>> /\ WithNew(3)[New(3)] = <<>>
         /\ \E M \in Annotations :
              /\ Annotated(WithNew(3), M)
              /\ \A b \in 1 .. Len(blocks) : M[b] = N[b]
              /\ M[New(1)][1] = f /\ M[New(2)][1] = g /\ M[New(3)][1] = h
<1> DEFINE F == [b \in Nat |-> IF b = New(1) THEN f ELSE IF b = New(2) THEN g ELSE h]
           cs == WithNew(3)
           last == Len(blocks)
<1>1. last \in Nat \ {0}
  BY DEF FlowTypes, CodeBlocks
<1>2. /\ New(1) = last + 1 /\ New(2) = last + 2 /\ New(3) = last + 3
      /\ New(1) \in Nat /\ New(2) \in Nat /\ New(3) \in Nat
      /\ New(1) # New(2) /\ New(1) # New(3) /\ New(2) # New(3)
  BY <1>1 DEF New
<1>3. F \in [Nat -> Cont] /\ F[New(1)] = f /\ F[New(2)] = g /\ F[New(3)] = h
  BY <1>2
<1>4. /\ cs \in CodeBlocks /\ Len(cs) = last + 3
      /\ \A b \in 1 .. last : cs[b] = blocks[b]
      /\ \A b \in last + 1 .. last + 3 : cs[b] = <<>>
  BY WithNewBlocks DEF FlowTypes
<1> HIDE DEF F, cs
<1>5. AddsNew(blocks, 3, cs)
  BY <1>4 DEF AddsNew
<1>5a. AnnotatedNew(blocks, N, 3, cs, F)
  BY <1>3, <1>4, <1>5, AnnotateNew DEF FlowTypes
<1> HIDE DEF last
<1>6. New(1) \in last + 1 .. last + 3 /\ New(2) \in last + 1 .. last + 3 /\ New(3) \in last + 1 .. last + 3
  BY <1>1, <1>2
<1>7. \E M \in Annotations :
        /\ Annotated(cs, M)
        /\ \A b \in 1 .. last : M[b] = N[b]
        /\ M[New(1)][1] = f /\ M[New(2)][1] = g /\ M[New(3)][1] = h
  BY <1>3, <1>5a, <1>6 DEF AnnotatedNew, last
<1> QED
  BY <1>1, <1>4, <1>6, <1>7 DEF cs, last

\* generateIf
LEMMA StepIf ==
  ASSUME FlowInv, GenerateIf
  PROVE  FlowInv'
<1> DEFINE t == Head(todo)
           last == Len(blocks)
           T == Tail(todo)
           b1 == New(1)
           b2 == New(2)
           b3 == New(3)
           bs == WithNew(3)
           i == CondBr(t.id, b1, b2)
           et == [kind |-> "else", else |-> t.else, elseBB |-> b2, mergeBB |-> b3]
           c == t.then
           W == {insert, b1, b2, b3}
<1>1. /\ status = "generating" /\ todo # <<>> /\ t.kind = "if" /\ ~t.invalid
      /\ blocks' = EmitTo(bs, <<i>>)
      /\ insert' = b1 /\ todo' = c \o <<et>> \o T /\ NotRun
  BY DEF GenerateIf, At, Task
<1>b. PICK N \in Annotations : \E x, y, R : Begins(N, x, y, R)
  BY <1>1, StepBegins
<1>2. PICK x, y, R : Begins(N, x, y, R)
  BY <1>b
<1>3. /\ FlowTypes /\ rest = body /\ pc = <<1, 1>> /\ last \in Nat \ {0}
      /\ t \in Tasks /\ T \in Seq(Tasks)
      /\ Open(blocks, T, {insert} \cup Targets(t))
  BY <1>1, StepBegins
<1>4. t \in Statements /\ x = <<t>> \o y /\ Targets(t) = {}
  BY <1>1, <1>2, <1>3, TaskIs DEF Begins, Kinds
<1>5. c \in Seq(Statements) /\ t.else \in Seq(Statements) /\ t.id \in STRING
  BY <1>1, <1>4, StatementShapes
<1>6. t \in Source /\ y \in Cont /\ ~Dropped(t)
  BY <1>1, <1>2, <1>4 DEF Begins, Source, Dropped
<1>7. P(x) = x /\ x # <<>> /\ Head(x) = t /\ Tail(x) = y /\ x \in Cont
  BY <1>4, <1>6, Before, KeptBefore
<1>8. /\ P(c \o y) \in Cont /\ P(t.else \o y) \in Cont /\ P(y) \in Cont
  BY <1>5, <1>6, Inside, KeptSource
<1>9. /\ b1 = last + 1 /\ b2 = last + 2 /\ b3 = last + 3
      /\ b1 \in Nat /\ b2 \in Nat /\ b3 \in Nat
      /\ b1 \in 1 .. last + 3 /\ b2 \in 1 .. last + 3 /\ b3 \in 1 .. last + 3
      /\ b1 # b2 /\ b1 # b3 /\ b2 # b3
      /\ b1 # insert /\ b2 # insert /\ b3 # insert
      /\ insert \in 1 .. last /\ insert \in 1 .. last + 3
      /\ b1 \notin 1 .. last /\ b2 \notin 1 .. last /\ b3 \notin 1 .. last
      /\ \A b \in last + 1 .. last + 3 : b \in {b1, b2, b3}
  BY <1>3 DEF New, FlowTypes
<1>10. /\ bs \in CodeBlocks
       /\ Len(bs) = last + 3
       /\ \A b \in 1 .. last : bs[b] = blocks[b]
       /\ bs[b1] = <<>> /\ bs[b2] = <<>> /\ bs[b3] = <<>>
       /\ \E M \in Annotations :
            /\ Annotated(bs, M)
            /\ \A b \in 1 .. last : M[b] = N[b]
            /\ M[b1][1] = P(c \o y) /\ M[b2][1] = P(t.else \o y) /\ M[b3][1] = P(y)
  <2> DEFINE f == P(c \o y)
             g == P(t.else \o y)
             h == P(y)
  <2>1. FlowTypes /\ Annotated(blocks, N) /\ f \in Cont /\ g \in Cont /\ h \in Cont
    BY <1>2, <1>3, <1>8 DEF Begins
  <2> HIDE DEF f, g, h
  <2>2. /\ bs \in CodeBlocks
        /\ Len(bs) = last + 3
        /\ \A b \in 1 .. last : bs[b] = blocks[b]
        /\ bs[b1] = <<>> /\ bs[b2] = <<>> /\ bs[b3] = <<>>
        /\ \E M \in Annotations :
             /\ Annotated(bs, M)
             /\ \A b \in 1 .. last : M[b] = N[b]
             /\ M[b1][1] = f /\ M[b2][1] = g /\ M[b3][1] = h
    BY <2>1, ThreeBlocks
  <2> QED
    BY <2>2 DEF f, g, h
<1>11. PICK M \in Annotations :
         /\ Annotated(bs, M)
         /\ \A b \in 1 .. last : M[b] = N[b]
         /\ M[b1][1] = P(c \o y) /\ M[b2][1] = P(t.else \o y) /\ M[b3][1] = P(y)
  BY <1>10
<1>12. /\ i \in Instructions /\ i.op = "cond" /\ i.op \in Terminators
       /\ i.id = t.id /\ i.targets = <<b1, b2>>
  <2> DEFINE id == t.id
  <2>1. id \in STRING /\ b1 \in Nat /\ b2 \in Nat
    BY <1>5, <1>9
  <2> HIDE DEF id, b1, b2
  <2>2. /\ i \in Instructions /\ i.op = "cond" /\ i.op \in Terminators
        /\ i.id = id /\ i.targets = <<b1, b2>>
    BY <2>1, CondShape DEF id
  <2> QED
    BY <2>2 DEF id
<1>13. et \in Tasks /\ et.kind = "else" /\ et.else = t.else /\ et.elseBB = b2 /\ et.mergeBB = b3
       /\ Targets(et) = {b2, b3}
  BY <1>5, <1>9 DEF Tasks, Targets
<1> HIDE DEF i, et, b1, b2, b3, bs
<1>14. InstrOK(i, M[insert][Len(bs[insert]) + 1], y, M, Len(bs))
  <2>1. M[insert][Len(bs[insert]) + 1] = x
    BY <1>2, <1>7, <1>9, <1>10, <1>11 DEF Begins
  <2>2. /\ b1 \in 1 .. Len(bs) /\ b2 \in 1 .. Len(bs)
        /\ M[b1][1] = P(Head(x).then \o Tail(x)) /\ M[b2][1] = P(Head(x).else \o Tail(x))
    BY <1>7, <1>9, <1>10, <1>11
  <2>3. Head(x).kind = "if" /\ i.id = Head(x).id
    BY <1>1, <1>7, <1>12
  <2>4. InstrOK(i, x, y, M, Len(bs))
    BY <1>7, <1>12, <2>2, <2>3 DEF InstrOK
  <2> QED
    BY <2>1, <2>4
<1>15. /\ blocks' \in CodeBlocks /\ Len(blocks') = Len(bs)
       /\ \A b \in 1 .. Len(bs) : b # insert => blocks'[b] = bs[b]
       /\ Ended(blocks'[insert])
       /\ AnnotatedTo(bs, M, blocks', insert, y)
  <2> DEFINE cs == blocks'
  <2>1. insert \in 1 .. Len(bs)
    BY <1>9, <1>10
  <2>2. /\ bs \in CodeBlocks /\ i \in Instructions /\ y \in Cont /\ M \in Annotations
        /\ Annotated(bs, M) /\ cs = EmitTo(bs, <<i>>)
    BY <1>1, <1>6, <1>10, <1>11, <1>12
  <2>3. InstrOK(i, M[insert][Len(bs[insert]) + 1], y, M, Len(bs))
    BY <1>14
  <2> HIDE DEF t, c, T, W, last, cs
  <2>4. /\ cs \in CodeBlocks /\ Len(cs) = Len(bs)
        /\ \A b \in 1 .. Len(bs) : b # insert => cs[b] = bs[b]
        /\ i.op \in Terminators => Ended(cs[insert])
        /\ AnnotatedTo(bs, M, cs, insert, y)
    BY <2>1, <2>2, <2>3, EmitOne
  <2> QED
    BY <1>12, <2>4 DEF cs
<1>16. PICK L \in Annotations :
         /\ Annotated(blocks', L)
         /\ \A b \in 1 .. Len(bs) : L[b][1] = M[b][1]
  BY <1>15 DEF AnnotatedTo
<1>17. /\ L[b1][1] = P(c \o y) /\ L[b2][1] = P(t.else \o y) /\ L[b3][1] = P(y)
       /\ \A b \in 1 .. last : L[b][1] = N[b][1]
  <2>1. \A b \in 1 .. last : b \in 1 .. Len(bs)
    BY <1>3, <1>10
  <2> QED
    BY <1>9, <1>10, <1>11, <1>16, <2>1
<1>18. last <= Len(blocks') /\ Len(blocks') \in Nat
  BY <1>3, <1>10, <1>15
<1>19. Waiting(T, R, L, Len(blocks')) /\ R[1] = y
  BY <1>2, <1>3, <1>17, <1>18, WaitingKept DEF Begins
<1>20. TaskOK(et, y, R[1], L, Len(blocks'))
  BY <1>9, <1>10, <1>13, <1>15, <1>17, <1>19 DEF TaskOK
<1>21. Open(blocks', T, {b1, b2, b3})
  <2>1. Open(blocks, T, {insert})
    BY <1>3, <1>4
  <2>2. \A b \in last + 1 .. Len(blocks') : b \in W
    BY <1>9, <1>10, <1>15
  <2>3. \A b \in 1 .. last : b \in {insert} \/ blocks'[b] = blocks[b]
    BY <1>3, <1>10, <1>15
  <2>4. {insert} \subseteq W /\ \A b \in W : b \in 1 .. last => b \in {insert}
    BY <1>9
  <2>5. W \ {insert} = {b1, b2, b3}
    BY <1>9
  <2> HIDE DEF W
  <2>6. Open(blocks', T, W)
    BY <1>3, <1>15, <1>18, <2>1, <2>2, <2>3, <2>4, OpenEmit DEF FlowTypes
  <2>7. Open(blocks', T, W \ {insert})
    BY <1>15, <2>6, OpenEnded
  <2> QED
    BY <2>5, <2>7
<1>22. /\ todo' \in Seq(Tasks)
       /\ WaitsFrom(todo', c \o y, L, Len(blocks'))
       /\ Open(blocks', todo', {b1, b2, b3} \ Targets(et))
  <2>1. \A b \in Targets(et) : b \in 1 .. Len(blocks') /\ blocks'[b] = <<>>
    BY <1>9, <1>10, <1>13, <1>15
  <2> DEFINE V == {b1, b2, b3}
             n == Len(blocks')
  <2>2. /\ Open(blocks', T, V) /\ Targets(et) \subseteq V
        /\ Waiting(T, R, L, n) /\ TaskOK(et, y, R[1], L, n)
        /\ todo' = c \o <<et>> \o T
    BY <1>1, <1>13, <1>19, <1>20, <1>21
  <2> HIDE DEF t, c, T, V, n
  <2>3. /\ todo' \in Seq(Tasks)
        /\ WaitsFrom(todo', c \o y, L, n)
        /\ Open(blocks', todo', V \ Targets(et))
    BY <1>3, <1>5, <1>6, <1>13, <2>1, <2>2, PushBlock
  <2> QED
    BY <2>3 DEF V, n
<1>23. PICK S : Waiting(todo', S, L, Len(blocks')) /\ S[1] = c \o y
  BY <1>22 DEF WaitsFrom
<1>24. Open(blocks', todo', {insert'})
  <2>1. {b1, b2, b3} \ Targets(et) = {b1}
    BY <1>9, <1>13
  <2> QED
    BY <1>1, <1>22, <2>1
<1>25. L[insert'][Len(blocks'[insert']) + 1] = P(S[1])
  <2>1. blocks'[b1] = <<>> /\ Len(<<>>) + 1 = 1
    BY <1>9, <1>10, <1>15
  <2> QED
    BY <1>1, <1>17, <1>23, <2>1
<1>26. L[1][1] = P(body)
  BY <1>2, <1>3, <1>17 DEF Begins
<1>27. insert' \in 1 .. Len(blocks')
  BY <1>1, <1>9, <1>10, <1>15
<1> QED
  BY <1>1, <1>3, <1>15, <1>16, <1>18, <1>22, <1>23, <1>24, <1>25, <1>26, <1>27, GenerationStep

\* The end of a loop, and AfterBB.
LEMMA StepStep ==
  ASSUME FlowInv, GenerateStep
  PROVE  FlowInv'
<1> DEFINE t == Head(todo)
           T == Tail(todo)
           a == t.afterBB
           l == t.loopCondBB
           i == Instruction("step", t.id, <<>>)
           j == Br(l)
<1>1. /\ status = "generating" /\ todo # <<>> /\ t.kind = "step"
      /\ blocks' = EmitTo(blocks, <<i, j>>)
      /\ insert' = a /\ todo' = T /\ NotRun
  BY DEF GenerateStep, At, Task, Emit
<1>b. PICK N \in Annotations : \E x, y, R : Begins(N, x, y, R)
  BY <1>1, StepBegins
<1>2. PICK x, y, R : Begins(N, x, y, R)
  BY <1>b
<1>3. /\ FlowTypes /\ rest = body /\ pc = <<1, 1>> /\ Len(blocks) \in Nat \ {0}
      /\ t \in Tasks /\ T \in Seq(Tasks) /\ todo \in Seq(Tasks)
      /\ Open(blocks, todo, {insert})
      /\ Open(blocks, T, {insert} \cup Targets(t))
  BY <1>1, StepBegins DEF FlowTypes
<1> DEFINE q == N[l][1]
<1>4. /\ t.id \in STRING
      /\ l \in 1 .. Len(blocks) /\ a \in 1 .. Len(blocks)
      /\ x = <<Step(t.id)>> \o q
      /\ P(q) = q
      /\ N[a][1] = P(y)
      /\ Targets(t) = {a}
  <2> DEFINE last == Len(blocks)
  <2>1. TaskOK(t, x, y, N, last) /\ t \in Tasks /\ t.kind = "step"
    BY <1>1, <1>2, <1>3 DEF Begins
  <2> HIDE DEF t, last
  <2>2. /\ t.id \in STRING
        /\ t.loopCondBB \in 1 .. last /\ t.afterBB \in 1 .. last
        /\ x = <<Step(t.id)>> \o N[t.loopCondBB][1]
        /\ P(N[t.loopCondBB][1]) = N[t.loopCondBB][1]
        /\ N[t.afterBB][1] = P(y)
        /\ Targets(t) = {t.afterBB}
    BY <2>1, TaskIs
  <2> QED
    BY <2>2 DEF last
<1>5. a # insert /\ blocks[a] = <<>>
  BY <1>1, <1>3, <1>4, TargetsAreEmpty
<1>6. l \in Nat /\ q \in Cont /\ P(y) \in Cont
  <2>1. l \in Nat
    BY <1>3, <1>4
  <2>2. q \in Cont
    BY <2>1 DEF Annotations
  <2>3. P(y) \in Cont
    BY <1>2, KeptSource DEF Begins
  <2> QED
    BY <2>1, <2>2, <2>3
<1>7. Step(t.id) \in Source /\ Step(t.id).kind = "step" /\ Step(t.id).id = t.id
  BY <1>4 DEF Source, Step
<1>8. P(x) = x /\ x # <<>> /\ Head(x) = Step(t.id) /\ Tail(x) = q /\ x \in Cont
  BY <1>4, <1>6, <1>7, Before, KeptBefore DEF Dropped
<1>9. i \in Instructions /\ i.op = "step" /\ i.id = t.id /\ i.targets = <<>>
  BY <1>4, PlainShape
<1>10. j \in Instructions /\ j.op = "br" /\ j.targets = <<l>> /\ j.op \in Terminators
  BY <1>6, BrShape
<1> HIDE DEF i, j, q, a, l
<1>11. InstrOK(i, N[insert][Len(blocks[insert]) + 1], q, N, Len(blocks))
  <2>1. <<>> \o q = q
    BY <1>6, ConcatEmptySeq DEF Cont
  <2>2. InstrOK(i, x, q, N, Len(blocks))
    BY <1>4, <1>7, <1>8, <1>9, <2>1 DEF InstrOK
  <2> QED
    BY <1>2, <1>8, <2>2 DEF Begins
<1>12. InstrOK(j, q, q, N, Len(blocks))
  BY <1>4, <1>10 DEF InstrOK, q
<1>13. /\ blocks' \in CodeBlocks /\ Len(blocks') = Len(blocks)
       /\ \A b \in 1 .. Len(blocks) : b # insert => blocks'[b] = blocks[b]
       /\ Ended(blocks'[insert])
       /\ AnnotatedTo(blocks, N, blocks', insert, q)
  BY <1>1, <1>2, <1>3, <1>6, <1>9, <1>10, <1>11, <1>12, EmitTwo DEF Begins, FlowTypes
<1>14. PICK M \in Annotations :
         /\ Annotated(blocks', M)
         /\ \A b \in 1 .. Len(blocks) : M[b][1] = N[b][1]
  BY <1>13 DEF AnnotatedTo
<1>15. Waiting(todo', R, M, Len(blocks')) /\ R[1] = y
  <2> DEFINE last == Len(blocks)
             more == Len(blocks')
  <2>1. Waiting(T, R, N, last) /\ R[1] = y
    BY <1>2 DEF Begins
  <2>2. last \in Nat /\ more \in Nat /\ last <= more
    BY <1>3, <1>13
  <2>3. \A b \in 1 .. last : M[b][1] = N[b][1]
    BY <1>14
  <2>5. todo' = T
    BY <1>1
  <2> HIDE DEF last, more, T
  <2>4. Waiting(T, R, M, more)
    BY <2>1, <2>2, <2>3, WaitingKept
  <2> QED
    BY <2>1, <2>4, <2>5 DEF more
<1>16. Open(blocks', todo', {insert'})
  <2> DEFINE W == {insert} \cup {a}
  <2>1. Open(blocks, todo', W)
    BY <1>1, <1>3, <1>4
  <2>2. Len(blocks) <= Len(blocks') /\ \A b \in Len(blocks) + 1 .. Len(blocks') : b \in W
    BY <1>3, <1>13
  <2>3. \A b \in 1 .. Len(blocks) : b \in W \/ blocks'[b] = blocks[b]
    BY <1>13
  <2>4. W \ {insert} = {a}
    BY <1>5
  <2> HIDE DEF W
  <2>5. Open(blocks', todo', W)
    BY <1>3, <1>13, <2>1, <2>2, <2>3, OpenEmit DEF FlowTypes
  <2>6. Open(blocks', todo', W \ {insert})
    BY <1>13, <2>5, OpenEnded
  <2> QED
    BY <1>1, <2>4, <2>6
<1>17. M[insert'][Len(blocks'[insert']) + 1] = P(R[1])
  <2>1. blocks'[a] = <<>> /\ Len(<<>>) + 1 = 1
    BY <1>4, <1>5, <1>13
  <2> QED
    BY <1>1, <1>4, <1>14, <1>15, <2>1
<1>18. M[1][1] = P(body)
  BY <1>2, <1>3, <1>14 DEF Begins
<1>19. Len(blocks) <= Len(blocks') /\ insert' \in 1 .. Len(blocks') /\ todo' \in Seq(Tasks)
  <2>1. Len(blocks) <= Len(blocks')
    BY <1>3, <1>13
  <2>2. insert' \in 1 .. Len(blocks')
    BY <1>1, <1>4, <1>13
  <2>3. todo' \in Seq(Tasks)
    BY <1>1, <1>3
  <2> QED
    BY <2>1, <2>2, <2>3
<1> QED
  BY <1>1, <1>3, <1>13, <1>14, <1>15, <1>16, <1>17, <1>18, <1>19, GenerationStep

\* generateFor
LEMMA StepFor ==
  ASSUME FlowInv, GenerateFor
  PROVE  FlowInv'
<1> DEFINE t == Head(todo)
           last == Len(blocks)
           T == Tail(todo)
           b1 == New(1)
           b2 == New(2)
           b3 == New(3)
           bs == WithNew(3)
           i == Instruction("start", t.id, <<>>)
           j == Br(b1)
           k == CondBr(t.id, b2, b3)
           ms == EmitTo(bs, <<i, j>>)
           st == [kind |-> "step", id |-> t.id, loopCondBB |-> b1, afterBB |-> b3]
           c == t.body
           W == {insert, b1, b2, b3}
<1>1. /\ status = "generating" /\ todo # <<>> /\ t.kind = "for" /\ ~t.invalid
      /\ blocks' = [ms EXCEPT ![b1] = <<k>>]
      /\ insert' = b2 /\ todo' = c \o <<st>> \o T /\ NotRun
  BY DEF GenerateFor, At, Task
<1>b. PICK N \in Annotations : \E x, y, R : Begins(N, x, y, R)
  BY <1>1, StepBegins
<1>2. PICK x, y, R : Begins(N, x, y, R)
  BY <1>b
<1>3. /\ FlowTypes /\ rest = body /\ pc = <<1, 1>> /\ last \in Nat \ {0}
      /\ t \in Tasks /\ T \in Seq(Tasks)
      /\ Open(blocks, T, {insert} \cup Targets(t))
  BY <1>1, StepBegins
<1>4. t \in Statements /\ x = <<t>> \o y /\ Targets(t) = {}
  BY <1>1, <1>2, <1>3, TaskIs DEF Begins, Kinds
<1>5. /\ c \in Seq(Statements) /\ t.id \in STRING
      /\ Test(t).kind = "test" /\ Test(t).id = t.id /\ Test(t).body = c
  BY <1>1, <1>4, StatementShapes
<1>6. t \in Source /\ Test(t) \in Source /\ Step(t.id) \in Source /\ y \in Cont /\ ~Dropped(t)
  BY <1>1, <1>2, <1>4, <1>5 DEF Begins, Source, Dropped, Loops
<1>7. P(x) = x /\ x # <<>> /\ Head(x) = t /\ Tail(x) = y /\ x \in Cont
  BY <1>4, <1>6, Before, KeptBefore
<1> DEFINE q == <<Test(t)>> \o y
           z == <<Step(t.id)>> \o q
<1>8. /\ P(q) = q /\ q # <<>> /\ Head(q) = Test(t) /\ Tail(q) = y /\ q \in Cont
      /\ z \in Cont
  <2>1. ~Dropped(Test(t))
    BY <1>5 DEF Dropped
  <2>2. P(q) = q /\ q # <<>> /\ Head(q) = Test(t) /\ Tail(q) = y /\ q \in Cont
    BY <1>6, <2>1, Before, KeptBefore
  <2> HIDE DEF q
  <2> QED
    BY <1>6, <2>2, Before
<1>9. P(c \o z) \in Cont /\ P(y) \in Cont
  BY <1>5, <1>6, <1>8, Inside, KeptSource
<1>10. c \o <<Step(t.id)>> \o q = c \o z
  <2> DEFINE u == <<Step(t.id)>>
  <2>1. c \in Seq(Source) /\ u \in Seq(Source) /\ q \in Seq(Source)
    BY <1>5, <1>6, <1>8, StatementsAreSource DEF Cont
  <2> HIDE DEF c, u, q
  <2>2. (c \o u) \o q = c \o (u \o q)
    BY <2>1, ConcatAssociative
  <2> QED
    BY <2>2 DEF u
<1>11. /\ b1 = last + 1 /\ b2 = last + 2 /\ b3 = last + 3
       /\ b1 \in Nat /\ b2 \in Nat /\ b3 \in Nat
       /\ b1 \in 1 .. last + 3 /\ b2 \in 1 .. last + 3 /\ b3 \in 1 .. last + 3
       /\ b1 # b2 /\ b1 # b3 /\ b2 # b3
       /\ b1 # insert /\ b2 # insert /\ b3 # insert
       /\ insert \in 1 .. last /\ insert \in 1 .. last + 3
       /\ b1 \notin 1 .. last /\ b2 \notin 1 .. last /\ b3 \notin 1 .. last
       /\ \A b \in last + 1 .. last + 3 : b \in {b1, b2, b3}
  BY <1>3 DEF New, FlowTypes
<1>12. /\ bs \in CodeBlocks
       /\ Len(bs) = last + 3
       /\ \A b \in 1 .. last : bs[b] = blocks[b]
       /\ bs[b1] = <<>> /\ bs[b2] = <<>> /\ bs[b3] = <<>>
       /\ \E M \in Annotations :
            /\ Annotated(bs, M)
            /\ \A b \in 1 .. last : M[b] = N[b]
            /\ M[b1][1] = q /\ M[b2][1] = P(c \o z) /\ M[b3][1] = P(y)
  <2> DEFINE g == P(c \o z)
             h == P(y)
  <2>1. FlowTypes /\ Annotated(blocks, N) /\ q \in Cont /\ g \in Cont /\ h \in Cont
    BY <1>2, <1>3, <1>8, <1>9 DEF Begins
  <2> HIDE DEF q, g, h
  <2>2. /\ bs \in CodeBlocks
        /\ Len(bs) = last + 3
        /\ \A b \in 1 .. last : bs[b] = blocks[b]
        /\ bs[b1] = <<>> /\ bs[b2] = <<>> /\ bs[b3] = <<>>
        /\ \E M \in Annotations :
             /\ Annotated(bs, M)
             /\ \A b \in 1 .. last : M[b] = N[b]
             /\ M[b1][1] = q /\ M[b2][1] = g /\ M[b3][1] = h
    BY <2>1, ThreeBlocks
  <2> QED
    BY <2>2 DEF g, h
<1>13. PICK M \in Annotations :
         /\ Annotated(bs, M)
         /\ \A b \in 1 .. last : M[b] = N[b]
         /\ M[b1][1] = q /\ M[b2][1] = P(c \o z) /\ M[b3][1] = P(y)
  BY <1>12
<1>14. i \in Instructions /\ i.op = "start" /\ i.id = t.id /\ i.targets = <<>>
  BY <1>5, PlainShape
<1>15. j \in Instructions /\ j.op = "br" /\ j.targets = <<b1>> /\ j.op \in Terminators
  BY <1>11, BrShape
<1>16. /\ k \in Instructions /\ k.op = "cond" /\ k.op \in Terminators
       /\ k.id = t.id /\ k.targets = <<b2, b3>>
  <2> DEFINE id == t.id
  <2>1. id \in STRING /\ b2 \in Nat /\ b3 \in Nat
    BY <1>5, <1>11
  <2> HIDE DEF id, b2, b3
  <2>2. /\ k \in Instructions /\ k.op = "cond" /\ k.op \in Terminators
        /\ k.id = id /\ k.targets = <<b2, b3>>
    BY <2>1, CondShape DEF id
  <2> QED
    BY <2>2 DEF id
<1>17. /\ st \in Tasks /\ st.kind = "step" /\ st.id = t.id
       /\ st.loopCondBB = b1 /\ st.afterBB = b3 /\ Targets(st) = {b3}
  BY <1>5, <1>11 DEF Tasks, Targets
<1> HIDE DEF i, j, k, st, b1, b2, b3, bs
<1>18. InstrOK(i, M[insert][Len(bs[insert]) + 1], q, M, Len(bs))
  <2>1. M[insert][Len(bs[insert]) + 1] = x
    BY <1>2, <1>7, <1>11, <1>12, <1>13 DEF Begins
  <2>2. InstrOK(i, x, q, M, Len(bs))
    BY <1>1, <1>7, <1>8, <1>14 DEF InstrOK
  <2> QED
    BY <2>1, <2>2
<1>19. InstrOK(j, q, q, M, Len(bs)) /\ b1 \in 1 .. Len(bs) /\ b2 \in 1 .. Len(bs) /\ b3 \in 1 .. Len(bs)
  <2>1. b1 \in 1 .. Len(bs) /\ b2 \in 1 .. Len(bs) /\ b3 \in 1 .. Len(bs)
    BY <1>11, <1>12
  <2> HIDE DEF q
  <2> QED
    BY <1>13, <1>15, <2>1 DEF InstrOK
<1>20. /\ ms \in CodeBlocks /\ Len(ms) = Len(bs)
       /\ \A b \in 1 .. Len(bs) : b # insert => ms[b] = bs[b]
       /\ Ended(ms[insert])
       /\ AnnotatedTo(bs, M, ms, insert, q)
  <2> DEFINE cs == ms
  <2>1. insert \in 1 .. Len(bs) /\ q \in Cont /\ cs = EmitTo(bs, <<i, j>>)
    BY <1>8, <1>11, <1>12
  <2> HIDE DEF t, c, T, W, last, q, cs
  <2>2. /\ cs \in CodeBlocks /\ Len(cs) = Len(bs)
        /\ \A b \in 1 .. Len(bs) : b # insert => cs[b] = bs[b]
        /\ j.op \in Terminators => Ended(cs[insert])
        /\ AnnotatedTo(bs, M, cs, insert, q)
    BY <1>12, <1>13, <1>14, <1>15, <1>18, <1>19, <2>1, EmitTwo
  <2> QED
    BY <1>15, <2>2 DEF cs
<1> HIDE DEF ms
<1>21. PICK L \in Annotations :
         /\ Annotated(ms, L)
         /\ \A b \in 1 .. Len(bs) : L[b][1] = M[b][1]
  BY <1>20 DEF AnnotatedTo
<1>22. /\ L[b1][1] = q /\ L[b2][1] = P(c \o z) /\ L[b3][1] = P(y)
       /\ \A b \in 1 .. last : L[b][1] = N[b][1]
  <2>1. \A b \in 1 .. last : b \in 1 .. Len(bs)
    BY <1>3, <1>12
  <2> HIDE DEF q, z
  <2> QED
    BY <1>13, <1>19, <1>21, <2>1
<1>23. ms[b1] = <<>> /\ ms[b2] = <<>> /\ ms[b3] = <<>> /\ b1 \in 1 .. Len(ms)
  BY <1>11, <1>12, <1>19, <1>20
<1>24. /\ blocks' \in CodeBlocks /\ Len(blocks') = Len(ms)
       /\ \A b \in 1 .. Len(ms) : b # b1 => blocks'[b] = ms[b]
       /\ blocks'[b1] = <<k>>
  <2> DEFINE new == <<k>>
  <2>1. new \in Seq(Instructions)
    BY <1>16
  <2>2. blocks' = [ms EXCEPT ![b1] = new]
    BY <1>1
  <2> HIDE DEF new
  <2>3. /\ [ms EXCEPT ![b1] = new] \in Seq(Seq(Instructions))
        /\ Len([ms EXCEPT ![b1] = new]) = Len(ms)
        /\ \A b \in 1 .. Len(ms) : [ms EXCEPT ![b1] = new][b] = IF b = b1 THEN new ELSE ms[b]
    BY <1>20, <1>23, <2>1, ExceptSeq DEF CodeBlocks
  <2> QED
    BY <1>23, <2>2, <2>3 DEF CodeBlocks, new
<1>25. AddsOne(ms, b1, k, blocks')
  <2>1. blocks'[b1] = ms[b1] \o <<k>>
    BY <1>16, <1>23, <1>24, ConcatEmptySeq
  <2> QED
    BY <1>24, <2>1 DEF AddsOne
<1>26. InstrOK(k, L[b1][Len(ms[b1]) + 1], y, L, Len(ms))
  <2>1. L[b1][Len(ms[b1]) + 1] = q
    <3>1. Len(ms[b1]) + 1 = 1
      BY <1>23
    <3> HIDE DEF q
    <3> QED
      BY <1>22, <3>1
  <2>2. /\ b2 \in 1 .. Len(ms) /\ b3 \in 1 .. Len(ms) /\ k.targets = <<b2, b3>>
        /\ Head(q).kind = "test" /\ k.id = Head(q).id /\ k.op = "cond" /\ q # <<>>
    BY <1>5, <1>8, <1>16, <1>19, <1>20
  <2>3. L[b2][1] = P(Head(q).body \o <<Step(Head(q).id)>> \o q)
    BY <1>5, <1>8, <1>10, <1>22
  <2>4. L[b3][1] = P(Tail(q))
    BY <1>8, <1>22
  <2> HIDE DEF q
  <2>5. InstrOK(k, q, y, L, Len(ms))
    BY <2>2, <2>3, <2>4 DEF InstrOK
  <2> QED
    BY <2>1, <2>5
<1>27. AnnotatedTo(ms, L, blocks', b1, y)
  <2> DEFINE cs == blocks'
  <2>1. cs \in CodeBlocks /\ AddsOne(ms, b1, k, cs)
    BY <1>24, <1>25
  <2> HIDE DEF t, c, T, W, last, q, cs
  <2>2. AnnotatedTo(ms, L, cs, b1, y)
    BY <1>6, <1>16, <1>20, <1>21, <1>23, <1>26, <2>1, AnnotateOne
  <2> QED
    BY <2>2 DEF cs
<1>28. PICK K \in Annotations :
         /\ Annotated(blocks', K)
         /\ \A b \in 1 .. Len(ms) : K[b][1] = L[b][1]
  BY <1>27 DEF AnnotatedTo
<1>29. /\ K[b1][1] = q /\ K[b2][1] = P(c \o z) /\ K[b3][1] = P(y)
       /\ \A b \in 1 .. last : K[b][1] = N[b][1]
  <2>1. \A b \in 1 .. last : b \in 1 .. Len(ms)
    BY <1>3, <1>12, <1>20
  <2> HIDE DEF q, z
  <2> QED
    BY <1>19, <1>20, <1>22, <1>28, <2>1
<1>30. last <= Len(blocks') /\ Len(blocks') \in Nat /\ Len(blocks') = last + 3
  BY <1>3, <1>12, <1>20, <1>24
<1>31. Waiting(T, R, K, Len(blocks')) /\ R[1] = y
  BY <1>2, <1>3, <1>29, <1>30, WaitingKept DEF Begins
<1>32. TaskOK(st, z, R[1], K, Len(blocks'))
  BY <1>8, <1>11, <1>17, <1>29, <1>30, <1>31 DEF TaskOK
<1>33. Open(blocks', T, {b2, b3})
  <2>1. Open(blocks, T, {insert})
    BY <1>3, <1>4
  <2>2. \A b \in last + 1 .. Len(blocks') : b \in W
    BY <1>11, <1>30
  <2>3. \A b \in 1 .. last : b \in {insert} \/ blocks'[b] = blocks[b]
    BY <1>3, <1>11, <1>12, <1>20, <1>24
  <2>4. {insert} \subseteq W /\ \A b \in W : b \in 1 .. last => b \in {insert}
    BY <1>11
  <2>5. (W \ {insert}) \ {b1} = {b2, b3}
    BY <1>11
  <2> HIDE DEF W
  <2>6. Open(blocks', T, W)
    BY <1>3, <1>24, <1>30, <2>1, <2>2, <2>3, <2>4, OpenEmit DEF FlowTypes
  <2>7. Ended(blocks'[insert])
    BY <1>11, <1>12, <1>20, <1>24
  <2>8. Ended(blocks'[b1])
    BY <1>16, <1>24 DEF Ended
  <2>9. Open(blocks', T, W \ {insert})
    BY <2>6, <2>7, OpenEnded
  <2>10. Open(blocks', T, (W \ {insert}) \ {b1})
    BY <2>8, <2>9, OpenEnded
  <2> QED
    BY <2>5, <2>10
<1>34. /\ todo' \in Seq(Tasks)
       /\ WaitsFrom(todo', c \o z, K, Len(blocks'))
       /\ Open(blocks', todo', {b2, b3} \ Targets(st))
  <2>1. \A b \in Targets(st) : b \in 1 .. Len(blocks') /\ blocks'[b] = <<>>
    BY <1>11, <1>17, <1>23, <1>24, <1>30
  <2> DEFINE V == {b2, b3}
             n == Len(blocks')
  <2>2. /\ Open(blocks', T, V) /\ Targets(st) \subseteq V
        /\ Waiting(T, R, K, n) /\ TaskOK(st, z, R[1], K, n)
        /\ todo' = c \o <<st>> \o T /\ z \in Cont
    BY <1>1, <1>8, <1>17, <1>31, <1>32, <1>33
  <2> HIDE DEF t, c, T, V, n, q, z
  <2>3. /\ todo' \in Seq(Tasks)
        /\ WaitsFrom(todo', c \o z, K, n)
        /\ Open(blocks', todo', V \ Targets(st))
    BY <1>3, <1>5, <1>17, <2>1, <2>2, PushBlock
  <2> QED
    BY <2>3 DEF V, n
<1> HIDE DEF z, q
<1>35. PICK S : Waiting(todo', S, K, Len(blocks')) /\ S[1] = c \o z
  BY <1>34 DEF WaitsFrom
<1>36. Open(blocks', todo', {insert'})
  <2>1. {b2, b3} \ Targets(st) = {b2}
    BY <1>11, <1>17
  <2> QED
    BY <1>1, <1>34, <2>1
<1>37. K[insert'][Len(blocks'[insert']) + 1] = P(S[1])
  <2>1. blocks'[b2] = <<>> /\ Len(<<>>) + 1 = 1
    BY <1>11, <1>12, <1>19, <1>20, <1>23, <1>24
  <2> QED
    BY <1>1, <1>29, <1>35, <2>1
<1>38. K[1][1] = P(body)
  BY <1>2, <1>3, <1>29 DEF Begins
<1>39. insert' \in 1 .. Len(blocks')
  BY <1>1, <1>11, <1>30
<1> QED
  BY <1>1, <1>3, <1>24, <1>28, <1>30, <1>34, <1>35, <1>36, <1>37, <1>38, <1>39, GenerationStep

\* A statement without a code generator.
LEMMA StepNoCodeGenerator ==
  ASSUME FlowInv, NoCodeGenerator
  PROVE  FlowInv'
<1>1. PICK N \in Annotations : FlowAt(N)
  BY DEF FlowInv
<1>2. FlowTypes' /\ status' = "exited" /\ blocks' = blocks /\ body' = body
  BY DEF FlowInv, FlowTypes, NoCodeGenerator
<1>3. FlowAt(N)'
  BY <1>1, <1>2 DEF FlowAt
<1> QED
  BY <1>2, <1>3 DEF FlowInv

\* generateFunction ends the last block.
LEMMA StepEndFunction ==
  ASSUME FlowInv, EndFunction
  PROVE  FlowInv'
<1>1. /\ status = "generating" /\ todo = <<>> /\ blocks' = EmitTo(blocks, <<Ret>>)
      /\ status' = "running" /\ UNCHANGED <<body, insert, todo, pc, rest>>
  BY DEF EndFunction, Emit
<1>2. PICK N \in Annotations : Annotated(blocks, N) /\ N[1][1] = P(body) /\ Generating(N)
  BY <1>1 DEF FlowInv, FlowAt
<1>3. PICK S : /\ Waiting(todo, S, N, Len(blocks))
               /\ N[insert][Len(blocks[insert]) + 1] = P(S[1])
  BY <1>2 DEF Generating
<1>4. FlowTypes /\ rest = body /\ pc = <<1, 1>> /\ Open(blocks, todo, {insert})
  BY <1>2 DEF FlowInv, Generating
<1>5. Len(blocks) \in Nat \ {0}
  BY <1>4 DEF FlowTypes, CodeBlocks
<1>6. N[insert][Len(blocks[insert]) + 1] = <<>>
  <2>1. S[1] = <<>>
    BY <1>1, <1>3 DEF Waiting
  <2>2. <<>> \in Seq(Source)
    BY EmptySeq
  <2>3. P(<<>>) = <<>>
    BY <2>2, KeptStatements DEF P
  <2> QED
    BY <1>3, <2>1, <2>3
<1>7. rest \in Cont
  BY <1>4 DEF FlowTypes
<1>8. InstrOK(Ret, N[insert][Len(blocks[insert]) + 1], rest, N, Len(blocks))
  BY <1>6, RetShape DEF InstrOK
<1>9. /\ blocks' \in CodeBlocks /\ Len(blocks') = Len(blocks)
      /\ \A b \in 1 .. Len(blocks) : b # insert => blocks'[b] = blocks[b]
      /\ Ended(blocks'[insert])
      /\ AnnotatedTo(blocks, N, blocks', insert, rest)
  <2> DEFINE cs == blocks'
             i == Ret
             bs == blocks
             d == rest
  <2>1. /\ bs \in CodeBlocks /\ insert \in 1 .. Len(bs) /\ cs = EmitTo(bs, <<i>>)
        /\ i \in Instructions /\ i.op \in Terminators
        /\ Annotated(bs, N) /\ InstrOK(i, N[insert][Len(bs[insert]) + 1], d, N, Len(bs)) /\ d \in Cont
    BY <1>1, <1>2, <1>4, <1>7, <1>8, RetShape DEF FlowTypes
  <2> HIDE DEF cs, i, bs, d
  <2>2. /\ cs \in CodeBlocks /\ Len(cs) = Len(bs)
        /\ \A b \in 1 .. Len(bs) : b # insert => cs[b] = bs[b]
        /\ i.op \in Terminators => Ended(cs[insert])
        /\ AnnotatedTo(bs, N, cs, insert, d)
    BY <2>1, EmitOne
  <2> QED
    BY <2>1, <2>2 DEF cs, bs, d
<1>10. PICK M \in Annotations :
         /\ Annotated(blocks', M)
         /\ \A b \in 1 .. Len(blocks) : M[b][1] = N[b][1]
  BY <1>9 DEF AnnotatedTo
<1>11. M[1][1] = P(body)
  BY <1>2, <1>5, <1>10
<1>12. \A b \in 1 .. Len(blocks') : Ended(blocks'[b])
  <2> SUFFICES ASSUME NEW b \in 1 .. Len(blocks) PROVE Ended(blocks'[b])
    BY <1>9
  <2>1. b = insert \/ Ended(blocks[b])
    BY <1>1, <1>4 DEF Open
  <2> QED
    BY <1>9, <2>1
<1>13. 1 <= Len(blocks'[1])
  <2>1. blocks'[1] \in Seq(Instructions) /\ blocks'[1] # <<>>
    BY <1>5, <1>9, <1>12 DEF CodeBlocks, Ended
  <2> QED
    BY <2>1, EmptySeq
<1>14. Running(M)'
  <2>1. pc' = <<1, 1>> /\ rest' = body
    BY <1>1, <1>4
  <2> QED
    BY <1>11, <1>12, <1>13, <2>1 DEF Running
<1>15. FlowTypes'
  BY <1>1, <1>4, <1>9 DEF FlowTypes
<1>16. FlowAt(M)'
  BY <1>1, <1>10, <1>11, <1>14 DEF FlowAt
<1> QED
  BY <1>15, <1>16 DEF FlowInv

-----------------------------------------------------------------------------
(***************************************************************************)
(* Running keeps it                                                        *)
(***************************************************************************)
\* The instruction that runs, and what the source has to do there.
LEMMA RunBegins ==
  ASSUME FlowInv, status = "running"
  PROVE  /\ FlowTypes
         /\ Pending \in Cont
         /\ pc[1] \in 1 .. Len(blocks) /\ pc[2] \in Nat \ {0}
         /\ \A b \in 1 .. Len(blocks) : 1 <= Len(blocks[b])
         /\ Instr.op \notin Terminators => pc[2] + 1 <= Len(blocks[pc[1]])
         /\ \E N \in Annotations :
              /\ FlowAt(N)
              /\ N[pc[1]][pc[2]] = Pending
              /\ InstrOK(Instr, Pending, N[pc[1]][pc[2] + 1], N, Len(blocks))
<1>1. FlowTypes
  BY DEF FlowInv
<1>2. PICK N \in Annotations : FlowAt(N)
  BY DEF FlowInv
<1>3. Annotated(blocks, N) /\ Running(N)
  BY <1>2 DEF FlowAt
<1>4. Pending = P(rest)
  BY DEF Pending, P
<1>5. /\ pc[1] \in 1 .. Len(blocks) /\ pc[2] \in Nat \ {0} /\ pc[2] <= Len(blocks[pc[1]])
      /\ N[pc[1]][pc[2]] = Pending
      /\ \A b \in 1 .. Len(blocks) : Ended(blocks[b])
  BY <1>1, <1>3, <1>4 DEF FlowTypes, Running
<1>6. \A b \in 1 .. Len(blocks) : blocks[b] \in Seq(Instructions) /\ Len(blocks[b]) \in Nat
  BY <1>1 DEF FlowTypes, CodeBlocks
<1>7. \A b \in 1 .. Len(blocks) : 1 <= Len(blocks[b])
  <2> SUFFICES ASSUME NEW b \in 1 .. Len(blocks) PROVE 1 <= Len(blocks[b])
    OBVIOUS
  <2>1. blocks[b] \in Seq(Instructions) /\ blocks[b] # <<>>
    BY <1>5, <1>6 DEF Ended
  <2> QED
    BY <2>1, EmptySeq
<1>8. InstrOK(Instr, Pending, N[pc[1]][pc[2] + 1], N, Len(blocks))
  <2>1. pc[2] \in 1 .. Len(blocks[pc[1]])
    BY <1>5, <1>6
  <2>2. InstrOK(blocks[pc[1]][pc[2]], N[pc[1]][pc[2]], N[pc[1]][pc[2] + 1], N, Len(blocks))
    BY <1>3, <1>5, <2>1 DEF Annotated
  <2> QED
    BY <1>5, <2>2 DEF Instr
<1>9. Instr.op \notin Terminators => pc[2] + 1 <= Len(blocks[pc[1]])
  <2>1. pc[2] = Len(blocks[pc[1]]) => Instr.op \in Terminators
    BY <1>5 DEF Ended, Instr
  <2> QED
    BY <1>5, <1>6, <2>1
<1>10. Pending \in Cont
  BY <1>1, <1>4, KeptSource DEF FlowTypes
<1> QED
  BY <1>1, <1>2, <1>5, <1>7, <1>8, <1>9, <1>10

\* A step of a run, from where it comes to.
LEMMA RunStep ==
  ASSUME FlowTypes, NEW N \in Annotations, FlowAt(N), status = "running",
         UNCHANGED <<body, blocks, insert, todo, status>>,
         NEW b \in 1 .. Len(blocks), NEW k \in Nat \ {0}, pc' = <<b, k>>,
         k <= Len(blocks[b]), rest' \in Cont, P(rest') = N[b][k]
  PROVE  FlowInv'
<1>1. FlowTypes'
  BY DEF FlowTypes
<1>2. Running(N)'
  BY DEF Running, FlowAt
<1>3. FlowAt(N)'
  BY <1>2 DEF FlowAt
<1> QED
  BY <1>1, <1>3 DEF FlowInv

\* A branch runs.
LEMMA StepBr ==
  ASSUME FlowInv, RunBr
  PROVE  FlowInv'
<1>1. /\ status = "running" /\ Instr.op = "br" /\ pc' = <<Instr.targets[1], 1>>
      /\ UNCHANGED <<body, blocks, insert, todo, status>> /\ rest' = rest
  BY DEF RunBr, Runs, NotGenerated
<1>2. /\ FlowTypes
      /\ \A b \in 1 .. Len(blocks) : 1 <= Len(blocks[b])
  BY <1>1, RunBegins
<1>3. PICK N \in Annotations :
        /\ FlowAt(N)
        /\ N[pc[1]][pc[2]] = Pending
        /\ InstrOK(Instr, Pending, N[pc[1]][pc[2] + 1], N, Len(blocks))
  BY <1>1, RunBegins
<1>4. PICK t \in 1 .. Len(blocks) : Instr.targets = <<t>> /\ N[t][1] = Pending
  BY <1>1, <1>3 DEF InstrOK
<1>5. pc' = <<t, 1>>
  BY <1>1, <1>4
<1>6. P(rest') = N[t][1] /\ rest' \in Cont
  BY <1>1, <1>2, <1>4 DEF P, Pending, FlowTypes
<1>7. 1 \in Nat \ {0} /\ 1 <= Len(blocks[t])
  BY <1>2
<1> QED
  BY <1>1, <1>2, <1>3, <1>5, <1>6, <1>7, RunStep

\* A return runs.
LEMMA StepRet ==
  ASSUME FlowInv, RunRet
  PROVE  FlowInv'
<1>1. /\ status = "running" /\ status' = "returned"
      /\ UNCHANGED <<body, blocks, insert, todo, pc, rest>>
  BY DEF RunRet, Runs, NotGenerated
<1>2. FlowTypes'
  BY <1>1 DEF FlowInv, FlowTypes
<1>3. PICK N \in Annotations : FlowAt(N)
  BY DEF FlowInv
<1>4. FlowAt(N)'
  BY <1>1, <1>3 DEF FlowAt, Running
<1> QED
  BY <1>2, <1>4 DEF FlowInv

\* A statement runs.
LEMMA StepInstruction ==
  ASSUME FlowInv, RunInstruction
  PROVE  FlowInv'
<1> DEFINE s == Head(Pending)
           y == Tail(Pending)
           d == (IF Instr.op = "start" THEN <<Test(s)>> ELSE <<>>) \o y
<1>1. /\ status = "running" /\ Instr.op \in {"do", "start", "step"}
      /\ pc' = <<pc[1], pc[2] + 1>> /\ rest' = d
      /\ UNCHANGED <<body, blocks, insert, todo, status>>
  BY DEF RunInstruction, Runs, NotGenerated, Test
<1>2. /\ FlowTypes
      /\ Pending \in Cont
      /\ pc[1] \in 1 .. Len(blocks) /\ pc[2] \in Nat \ {0}
      /\ Instr.op \notin Terminators => pc[2] + 1 <= Len(blocks[pc[1]])
  BY <1>1, RunBegins
<1>3. PICK N \in Annotations :
        /\ FlowAt(N)
        /\ N[pc[1]][pc[2]] = Pending
        /\ InstrOK(Instr, Pending, N[pc[1]][pc[2] + 1], N, Len(blocks))
  BY <1>1, RunBegins
<1>4. /\ Pending # <<>>
      /\ <<Instr.op, s.kind>> \in {<<"do", "do">>, <<"start", "for">>, <<"step", "step">>}
      /\ N[pc[1]][pc[2] + 1] = P(d)
  BY <1>1, <1>3 DEF InstrOK
<1>5. s \in Source /\ y \in Seq(Source)
  BY <1>2, <1>4, HeadTailProperties DEF Cont
<1>6. Instr.op = "start" => Test(s) \in Source
  BY <1>4, <1>5, SourceShapes DEF Source, Loops
<1>7. d \in Cont
  <2>1. CASE Instr.op = "start"
    BY <1>5, <1>6, <2>1, Before DEF Cont
  <2>2. CASE Instr.op # "start"
    BY <1>5, <2>2, ConcatEmptySeq DEF Cont
  <2> QED
    BY <2>1, <2>2
<1> HIDE DEF d
<1>8. pc[2] + 1 \in Nat \ {0} /\ pc[2] + 1 <= Len(blocks[pc[1]])
  BY <1>1, <1>2 DEF Terminators
<1> QED
  BY <1>1, <1>2, <1>3, <1>4, <1>7, <1>8, RunStep

\* A condition is true, or false.
LEMMA StepCond ==
  ASSUME FlowInv, RunCond
  PROVE  FlowInv'
<1> DEFINE c == Pending
           s == Head(Pending)
<1>1. /\ status = "running" /\ Instr.op = "cond"
      /\ UNCHANGED <<body, blocks, insert, todo, status>>
  BY DEF RunCond, Runs, NotGenerated
<1>2. /\ FlowTypes /\ c \in Cont
      /\ \A b \in 1 .. Len(blocks) : 1 <= Len(blocks[b])
  BY <1>1, RunBegins
<1>3. PICK N \in Annotations :
        /\ FlowAt(N)
        /\ InstrOK(Instr, c, N[pc[1]][pc[2] + 1], N, Len(blocks))
  BY <1>1, RunBegins
<1>4. PICK t \in 1 .. Len(blocks), e \in 1 .. Len(blocks) :
        /\ Instr.targets = <<t, e>> /\ c # <<>>
        /\ \/ /\ s.kind = "if"
              /\ N[t][1] = P(s.then \o Tail(c))
              /\ N[e][1] = P(s.else \o Tail(c))
           \/ /\ s.kind = "test"
              /\ N[t][1] = P(s.body \o <<Step(s.id)>> \o c)
              /\ N[e][1] = P(Tail(c))
  BY <1>1, <1>3 DEF InstrOK
<1>5. Instr.targets[1] = t /\ Instr.targets[2] = e
  BY <1>4
<1>6. s \in Source /\ Tail(c) \in Cont
  BY <1>2, <1>4, HeadTailProperties DEF Cont
<1>7. 1 \in Nat \ {0} /\ 1 <= Len(blocks[t]) /\ 1 <= Len(blocks[e])
  BY <1>2
<1>8. CASE s.kind = "if"
  <2>1. s.then \o Tail(c) \in Cont /\ s.else \o Tail(c) \in Cont
    <3>1. s \in Statements
      BY <1>6, <1>8, SourceShapes
    <3>2. s.then \in Seq(Statements) /\ s.else \in Seq(Statements)
      BY <1>8, <3>1, StatementShapes
    <3> QED
      BY <1>6, <3>2, Inside
  <2>2. \/ pc' = <<t, 1>> /\ rest' = s.then \o Tail(c)
        \/ pc' = <<e, 1>> /\ rest' = s.else \o Tail(c)
    BY <1>5, <1>8 DEF RunCond
  <2>3. CASE pc' = <<t, 1>> /\ rest' = s.then \o Tail(c)
    BY <1>1, <1>2, <1>3, <1>4, <1>7, <1>8, <2>1, <2>3, RunStep
  <2>4. CASE pc' = <<e, 1>> /\ rest' = s.else \o Tail(c)
    BY <1>1, <1>2, <1>3, <1>4, <1>7, <1>8, <2>1, <2>4, RunStep
  <2> QED
    BY <2>2, <2>3, <2>4
<1>9. CASE s.kind = "test"
  <2> DEFINE u == <<Step(s.id)>>
             z == s.body \o u \o c
  <2>1. z \in Cont
    <3>1. s.body \in Seq(Statements) /\ s.id \in STRING
      BY <1>6, <1>9, SourceShapes
    <3>2. s.body \in Seq(Source) /\ u \in Seq(Source) /\ c \in Seq(Source)
      BY <1>2, <3>1, StatementsAreSource DEF Cont, Source
    <3> HIDE DEF u, c
    <3>3. s.body \o u \in Seq(Source)
      BY <3>2, ConcatProperties
    <3> QED
      BY <3>2, <3>3, ConcatProperties DEF Cont
  <2>2. \/ pc' = <<t, 1>> /\ rest' = z
        \/ pc' = <<e, 1>> /\ rest' = Tail(c)
    BY <1>5, <1>9 DEF RunCond, Step
  <2>3. N[t][1] = P(z) /\ N[e][1] = P(Tail(c))
    BY <1>4, <1>9
  <2> HIDE DEF z
  <2>4. CASE pc' = <<t, 1>> /\ rest' = z
    BY <1>1, <1>2, <1>3, <1>7, <2>1, <2>3, <2>4, RunStep
  <2>5. CASE pc' = <<e, 1>> /\ rest' = Tail(c)
    BY <1>1, <1>2, <1>3, <1>6, <1>7, <2>3, <2>5, RunStep
  <2> QED
    BY <2>2, <2>4, <2>5
<1> QED
  BY <1>4, <1>8, <1>9

-----------------------------------------------------------------------------
(***************************************************************************)
(* The theorems                                                            *)
(***************************************************************************)
LEMMA FlowInvStutter ==
  ASSUME FlowInv, UNCHANGED vars
  PROVE  FlowInv'
<1>1. UNCHANGED <<body, blocks, insert, todo, status, pc, rest>>
  BY DEF vars
<1>2. PICK N \in Annotations : FlowAt(N)
  BY DEF FlowInv
<1>3. FlowTypes'
  BY <1>1 DEF FlowInv, FlowTypes
<1>4. FlowAt(N)'
  BY <1>1, <1>2 DEF FlowAt, Generating, Running
<1> QED
  BY <1>3, <1>4 DEF FlowInv

\* Every step keeps the invariant.
LEMMA FlowInvNext ==
  FlowInv /\ [Next]_vars => FlowInv'
<1> SUFFICES ASSUME FlowInv, [Next]_vars PROVE FlowInv'
  OBVIOUS
<1>1. CASE GenerateExpression \/ GenerateReturn \/ Invalid
  BY <1>1, StepExpression, StepReturn, StepInvalid
<1>2. CASE GenerateIf \/ GenerateElse \/ Merge
  BY <1>2, StepIf, StepElse, StepMerge
<1>3. CASE GenerateFor \/ GenerateStep
  BY <1>3, StepFor, StepStep
<1>4. CASE NoCodeGenerator \/ EndFunction
  BY <1>4, StepNoCodeGenerator, StepEndFunction
<1>5. CASE RunBr \/ RunRet \/ RunInstruction \/ RunCond
  BY <1>5, StepBr, StepRet, StepInstruction, StepCond
<1>6. CASE Finished \/ UNCHANGED vars
  BY <1>6, FlowInvStutter DEF Finished
<1> QED
  BY <1>1, <1>2, <1>3, <1>4, <1>5, <1>6 DEF Next

\* While generateScopeBody and the others write blocks, every place in them has a
\* continuation of the source, and what runs them goes along with it.
THEOREM ControlFlowInvariant ==
  Spec => []FlowInv
BY FlowInvInit, FlowInvNext, PTL DEF Spec

\* Blocks branch to blocks there are, whatever the body: generateIf, generateFor and
\* generateReturn give every branch a block of the function.
THEOREM ControlFlowTypeOK ==
  Spec => []TypeOK
BY ControlFlowInvariant, FlowInvTypeOK, PTL

\* The code of a function body does what its source says, in its order, for every body of
\* any depth and length and whatever its conditions are: generateScopeBody, generateIf,
\* generateFor and generateReturn lose no statement, do none twice and join every branch.
THEOREM ControlFlowRunsTheSource ==
  Spec => []RunsTheSource
BY ControlFlowInvariant, FlowInvRunsTheSource, PTL

=============================================================================
