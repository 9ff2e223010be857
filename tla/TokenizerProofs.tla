---------------------------- MODULE TokenizerProofs ----------------------------
(***************************************************************************)
(* Proofs about the tokenizer and the removal of comments, of the          *)
(* specification Spec of Tokenizer.                                        *)
(***************************************************************************)
EXTENDS Tokenizer, TLAPS, SequenceTheorems, WellFoundedInduction

-----------------------------------------------------------------------------
(***************************************************************************)
(* Recursive functions on 0 .. n: that there is one is shown by taking the *)
(* least argument up to which there is none.                               *)
(***************************************************************************)
\* Every non-empty set of naturals has a least element.
LEMMA LeastNat ==
  ASSUME NEW S \in SUBSET Nat, S # {}
  PROVE  \E x \in S : \A j \in S : x <= j
<1> DEFINE R == OpToRel(<, Nat)
<1>1. IsWellFoundedOn(R, Nat)
  BY NatLessThanWellFounded
<1>2. \A x, y \in Nat : x < y => <<x, y>> \in R
  BY DEF OpToRel
<1> HIDE DEF R
<1>3. PICK x \in S : \A y \in S : ~ (<<y, x>> \in R)
  BY <1>1, WFMin
<1>4. ASSUME NEW y \in S PROVE x <= y
  <2>1. x \in Nat /\ y \in Nat
    OBVIOUS
  <2>2. ~(y < x)
    BY <1>2, <1>3, <2>1
  <2> QED
    BY <2>1, <2>2
<1> QED
  BY <1>4

\* f is the iteration of F from x up to m.
Iterates(f, X, x, m, F) ==
  f \in [0 .. m -> X] /\ f[0] = x /\ \A k \in 1 .. m : f[k] = F[k][f[k - 1]]

\* One more step of an iteration.
LEMMA IterationExtends ==
  ASSUME NEW X, NEW x \in X, NEW m \in Nat \ {0}, NEW n \in Nat, m <= n,
         NEW F \in [1 .. n -> [X -> X]], NEW f, Iterates(f, X, x, m - 1, F)
  PROVE  \E g : Iterates(g, X, x, m, F)
<1> DEFINE y == F[m][f[m - 1]]
           g == [k \in 0 .. m |-> IF k = m THEN y ELSE f[k]]
<1>1. f \in [0 .. m - 1 -> X] /\ f[0] = x /\ \A k \in 1 .. m - 1 : f[k] = F[k][f[k - 1]]
  BY DEF Iterates
<1>2. y \in X
  BY <1>1
<1>3. /\ \A k \in 0 .. m - 1 : g[k] = f[k]
      /\ g[m] = y
  OBVIOUS
<1>4. g \in [0 .. m -> X]
  BY <1>1, <1>2
<1>5. g[0] = x
  BY <1>1, <1>3
<1>6. ASSUME NEW k \in 1 .. m PROVE g[k] = F[k][g[k - 1]]
  <2>1. g[k - 1] = f[k - 1]
    BY <1>3
  <2>2. CASE k = m
    BY <2>1, <2>2, <1>3
  <2>3. CASE k # m
    <3>1. k \in 1 .. m - 1
      BY <2>3
    <3>2. g[k] = f[k]
      BY <3>1, <1>3
    <3>3. f[k] = F[k][f[k - 1]]
      BY <3>1, <1>1
    <3> QED
      BY <2>1, <3>2, <3>3
  <2> QED
    BY <2>2, <2>3
<1> QED
  BY <1>4, <1>5, <1>6 DEF Iterates

LEMMA IterationExists ==
  ASSUME NEW X, NEW x \in X, NEW n \in Nat, NEW F \in [1 .. n -> [X -> X]]
  PROVE  \E f : Iterates(f, X, x, n, F)
<1> DEFINE bad == {m \in 0 .. n : ~\E f : Iterates(f, X, x, m, F)}
<1>1. bad \in SUBSET Nat
  OBVIOUS
<1>2. ASSUME bad # {} PROVE FALSE
  <2>1. PICK m \in bad : \A j \in bad : m <= j
    BY <1>1, <1>2, LeastNat
  <2>2. CASE m = 0
    <3>1. Iterates([k \in 0 .. 0 |-> x], X, x, 0, F)
      BY DEF Iterates
    <3> QED
      BY <2>2, <3>1
  <2>3. CASE m # 0
    <3>1. m \in Nat \ {0} /\ m <= n /\ m - 1 \in 0 .. n
      BY <2>3
    <3>2. m - 1 \notin bad
      BY <3>1, <2>1
    <3>3. PICK f : Iterates(f, X, x, m - 1, F)
      BY <3>1, <3>2
    <3>4. \E g : Iterates(g, X, x, m, F)
      BY <3>1, <3>3, IterationExtends
    <3> QED
      BY <3>4
  <2> QED
    BY <2>2, <2>3
<1>3. n \notin bad
  BY <1>2
<1> QED
  BY <1>3
\* What a recursion keeps in X is in X.
LEMMA RecursionType ==
  ASSUME NEW X, NEW n \in Nat, NEW f, f[0] \in X,
         \A k \in 1 .. n : f[k - 1] \in X => f[k] \in X
  PROVE  \A k \in 0 .. n : f[k] \in X
<1> DEFINE bad == {k \in 0 .. n : f[k] \notin X}
<1>1. ASSUME bad # {} PROVE FALSE
  <2>1. bad \in SUBSET Nat
    OBVIOUS
  <2>2. PICK k \in bad : \A j \in bad : k <= j
    BY <1>1, <2>1, LeastNat
  <2>3. k \in 1 .. n /\ k - 1 \in 0 .. n /\ ~(k <= k - 1)
    BY <2>2
  <2>4. f[k - 1] \in X
    BY <2>2, <2>3
  <2> QED
    BY <2>2, <2>3, <2>4
<1> QED
  BY <1>1

\* Two recursions with the same steps up to n agree up to n.
LEMMA RecursionsAgree ==
  ASSUME NEW n \in Nat, NEW f, NEW g, f[0] = g[0],
         \A k \in 1 .. n : f[k - 1] = g[k - 1] => f[k] = g[k]
  PROVE  f[n] = g[n]
<1> DEFINE bad == {k \in 0 .. n : f[k] # g[k]}
<1>1. ASSUME bad # {} PROVE FALSE
  <2>1. bad \in SUBSET Nat
    OBVIOUS
  <2>2. PICK k \in bad : \A j \in bad : k <= j
    BY <1>1, <2>1, LeastNat
  <2>3. k \in 1 .. n /\ k - 1 \in 0 .. n /\ ~(k <= k - 1)
    BY <2>2
  <2>4. f[k - 1] = g[k - 1]
    BY <2>2, <2>3
  <2> QED
    BY <2>2, <2>3, <2>4
<1> QED
  BY <1>1

-----------------------------------------------------------------------------
(***************************************************************************)
(* Characters and the types of tokens                                      *)
(***************************************************************************)
LEMMA TokenTypesAre ==
  TokenTypes = {"Identifier", "Integer", "String", "Character", "Punctuation", "EndOfLine"}
BY DEF TokenTypes, tokenStarts

LEMMA StartsAre ==
  /\ tokenStarts["Identifier"] = {"a"}
  /\ tokenStarts["Integer"] = {"0"}
  /\ tokenStarts["String"] = {"\""}
  /\ tokenStarts["Character"] = {"'"}
  /\ tokenStarts["Punctuation"] = Punctuations
  /\ tokenStarts["EndOfLine"] = {"\n"}
BY DEF tokenStarts

LEMMA EscapesAre ==
  /\ tokenEscapes["Identifier"] = Ending \cup {"."}
  /\ tokenEscapes["Integer"] = Ending
  /\ tokenEscapes["String"] = {"\""}
  /\ tokenEscapes["Character"] = {"'"}
  /\ tokenEscapes["Punctuation"] = Ending \cup {".", "a", "0"}
  /\ tokenEscapes["EndOfLine"] = Ending \cup {".", "a", "0"}
BY DEF tokenEscapes

\* Only punctuation is kept together by the cancelled ends, and a period only with another.
LEMMA CancelsAre ==
  ASSUME NEW c, NEW d, <<c, d>> \in tokenEscapeCancels
  PROVE  /\ c \in Punctuations /\ d \in Punctuations
         /\ c = "." => d = "."
BY DEF tokenEscapeCancels, Punctuations

\* A blank starts nothing, and every other character one type of token.
LEMMA StartOf ==
  ASSUME NEW c \in Chars
  PROVE  /\ (\A type \in TokenTypes : c \notin tokenStarts[type]) <=> c = " "
         /\ \A type \in TokenTypes : c \in tokenStarts[type] =>
              /\ type = "String" <=> c = "\""
              /\ type = "Character" <=> c = "'"
              /\ type = "Identifier" => c = "a"
              /\ type = "Integer" => c = "0"
              /\ type = "Punctuation" => c \in Punctuations
<1> QED
  BY TokenTypesAre, StartsAre DEF Chars, Punctuations

\* What may follow in a token.
LEMMA GoesOn ==
  ASSUME NEW type \in TokenTypes, NEW c, NEW d \in Chars,
         ~(d \in tokenEscapes[type] /\ ~(<<c, d>> \in tokenEscapeCancels))
  PROVE  /\ type = "String" => d # "\""
         /\ type = "Character" => d # "'"
         /\ type \notin Quoting => d # " " /\ d \notin Quotes
         /\ type = "Identifier" => d \in {"a", "0", "~"} \/ c \in Punctuations
         /\ type = "Integer" => d \in {"a", "0", ".", "~"} \/ c \in Punctuations
         /\ type = "Integer" /\ c = "." => d \in {"a", "0", ".", "~"}
         /\ type = "Punctuation" => d \in Punctuations
<1>1. <<c, d>> \in tokenEscapeCancels =>
        c \in Punctuations /\ d \in Punctuations /\ (c = "." => d = ".")
  BY CancelsAre
<1> QED
  BY <1>1, TokenTypesAre, EscapesAre DEF Chars, Punctuations, Ending, Quotes, Quoting

\* What ends a quote is its sign.
LEMMA QuoteEnds ==
  ASSUME NEW type \in Quoting, NEW d, d \in tokenEscapes[type]
  PROVE  d = IF type = "String" THEN "\"" ELSE "'"
BY EscapesAre DEF Quoting

-----------------------------------------------------------------------------
(***************************************************************************)
(* The recursions of the model                                             *)
(***************************************************************************)
LEMMA Concat ==
  ASSUME NEW X, NEW s \in Seq(X), NEW c \in X
  PROVE  /\ s \o <<c>> \in Seq(X)
         /\ Len(s \o <<c>>) = Len(s) + 1
         /\ (s \o <<c>>)[Len(s) + 1] = c
         /\ \A k \in 1 .. Len(s) : (s \o <<c>>)[k] = s[k]
<1>1. <<c>> \in Seq(X) /\ Len(<<c>>) = 1 /\ <<c>>[1] = c
  OBVIOUS
<1>2. Len(s) \in Nat
  OBVIOUS
<1> DEFINE t == <<c>>
<1>3. s \o t \in Seq(X) /\ Len(s \o t) = Len(s) + Len(t)
  BY <1>1, ConcatProperties
<1>4. \A k \in 1 .. Len(s) + 1 : (s \o t)[k] = IF k <= Len(s) THEN s[k] ELSE t[k - Len(s)]
  BY <1>1, <1>2
<1> HIDE DEF t
<1>5. Len(s) + 1 - Len(s) = 1 /\ ~(Len(s) + 1 <= Len(s)) /\ Len(s) + 1 \in 1 .. Len(s) + 1
  BY <1>2
<1> QED
  BY <1>1, <1>2, <1>3, <1>4, <1>5 DEF t

LEMMA TextIs ==
  ASSUME NEW files \in Seq(Seq(Chars))
  PROVE  /\ TextOf(files) \in [0 .. Len(files) -> Seq(Chars)]
         /\ TextOf(files)[0] = <<>>
         /\ \A f \in 1 .. Len(files) :
              TextOf(files)[f] = TextOf(files)[f - 1] \o (files[f] \o <<"\n">>)
<1> DEFINE n == Len(files)
           X == Seq(Chars)
           F == [f \in 1 .. n |-> [s \in X |-> s \o (files[f] \o <<"\n">>)]]
           Solves(text) ==
             text = [f \in 0 .. n |-> IF f = 0 THEN <<>> ELSE text[f - 1] \o (files[f] \o <<"\n">>)]
           empty == <<>>
<1>1. n \in Nat
  OBVIOUS
<1>2. empty \in X
  BY EmptySeq
<1>3. ASSUME NEW f \in 1 .. n, NEW s \in X PROVE s \o (files[f] \o <<"\n">>) \in X
  <2>1. files[f] \in Seq(Chars)
    OBVIOUS
  <2>a. "\n" \in Chars
    BY DEF Chars
  <2>2. files[f] \o <<"\n">> \in Seq(Chars)
    BY <2>1, <2>a, Concat
  <2> QED
    BY <2>2, ConcatProperties
<1>4. F \in [1 .. n -> [X -> X]]
  BY <1>3
<1>5. \A f \in 1 .. n : \A s \in X : F[f][s] = s \o (files[f] \o <<"\n">>)
  OBVIOUS
<1> HIDE DEF F, n, X, empty
<1>6. PICK text : Iterates(text, X, empty, n, F)
  BY <1>1, <1>2, <1>4, IterationExists
<1>7. Solves(text)
  <2>1. text \in [0 .. n -> X] /\ text[0] = empty /\ \A k \in 1 .. n : text[k] = F[k][text[k - 1]]
    BY <1>6 DEF Iterates
  <2>2. ASSUME NEW f \in 1 .. n PROVE text[f] = text[f - 1] \o (files[f] \o <<"\n">>)
    <3>1. f - 1 \in 0 .. n
      BY <1>1
    <3> QED
      BY <1>5, <2>1, <3>1
  <2>3. ASSUME NEW f \in 0 .. n
        PROVE  text[f] = IF f = 0 THEN empty ELSE text[f - 1] \o (files[f] \o <<"\n">>)
    <3>1. f = 0 \/ f \in 1 .. n
      BY <1>1
    <3> QED
      BY <3>1, <2>1, <2>2
  <2> QED
    BY <2>1, <2>3 DEF empty
<1>8. Solves(TextOf(files))
  <2>1. TextOf(files) = CHOOSE text2 : Solves(text2)
    BY Zenon DEF TextOf, n
  <2> HIDE DEF Solves
  <2> QED
    BY <1>7, <2>1
<1> DEFINE v == TextOf(files)
<1>9. v = [f \in 0 .. n |-> IF f = 0 THEN empty ELSE v[f - 1] \o (files[f] \o <<"\n">>)]
  BY <1>8 DEF empty
<1> HIDE DEF v
<1>10. v[0] = empty /\ \A f \in 1 .. n : v[f] = v[f - 1] \o (files[f] \o <<"\n">>)
  BY <1>1, <1>9
<1>11. v[0] \in X /\ \A f \in 1 .. n : v[f - 1] \in X => v[f] \in X
  BY <1>2, <1>3, <1>10
<1>12. \A f \in 0 .. n : v[f] \in X
  BY <1>1, <1>11, RecursionType
<1>13. v \in [0 .. n -> X]
  BY <1>9, <1>12
<1> QED
  BY <1>10, <1>13 DEF v, n, X, empty

KeptRecords == [quote : {"", "\"", "'"}, text : Seq(Chars)]

LEMMA KeptRecord ==
  ASSUME NEW q \in {"", "\"", "'"}, NEW t \in Seq(Chars)
  PROVE  [quote |-> q, text |-> t] \in KeptRecords
BY DEF KeptRecords

NothingKept == [quote |-> "", text |-> <<>>]

LEMMA KeepCharType ==
  ASSUME NEW kept \in KeptRecords, NEW d \in Chars
  PROVE  KeepChar(kept, d) \in KeptRecords
<1>1. kept.text \o <<d>> \in Seq(Chars)
  BY Concat DEF KeptRecords
<1>2. kept.quote \in {"", "\"", "'"}
  BY DEF KeptRecords
<1> DEFINE t == kept.text \o <<d>>
<1>t. t \in Seq(Chars)
  BY <1>1
<1> HIDE DEF t
<1>3. CASE kept.quote # ""
  <2> DEFINE q == IF d = kept.quote THEN "" ELSE kept.quote
  <2>1. KeepChar(kept, d) = [quote |-> q, text |-> t]
    BY <1>3 DEF KeepChar, t
  <2>2. q \in {"", "\"", "'"}
    BY <1>2
  <2> HIDE DEF q
  <2> QED
    BY <1>t, <2>1, <2>2, KeptRecord
<1>4. CASE kept.quote = "" /\ d = " "
  BY <1>4 DEF KeepChar
<1>5. CASE kept.quote = "" /\ d # " "
  <2> DEFINE q == IF d \in Quotes THEN d ELSE ""
  <2>1. KeepChar(kept, d) = [quote |-> q, text |-> t]
    BY <1>5 DEF KeepChar, t
  <2>2. q \in {"", "\"", "'"}
    BY DEF Quotes
  <2> HIDE DEF q
  <2> QED
    BY <1>t, <2>1, <2>2, KeptRecord
<1> QED
  BY <1>3, <1>4, <1>5

LEMMA KeptIs ==
  ASSUME NEW text \in Seq(Chars)
  PROVE  /\ Kept(text) \in [0 .. Len(text) -> KeptRecords]
         /\ Kept(text)[0] = NothingKept
         /\ \A k \in 1 .. Len(text) : Kept(text)[k] = KeepChar(Kept(text)[k - 1], text[k])
<1> DEFINE n == Len(text)
           F == [k \in 1 .. n |-> [r \in KeptRecords |-> KeepChar(r, text[k])]]
           Solves(kept) ==
             kept = [k \in 0 .. n |-> IF k = 0 THEN [quote |-> "", text |-> <<>>]
                                      ELSE KeepChar(kept[k - 1], text[k])]
<1>1. n \in Nat
  OBVIOUS
<1>2. NothingKept \in KeptRecords
  <2>1. <<>> \in Seq(Chars)
    BY EmptySeq
  <2> QED
    BY <2>1 DEF NothingKept, KeptRecords
<1>3. ASSUME NEW k \in 1 .. n, NEW r \in KeptRecords PROVE KeepChar(r, text[k]) \in KeptRecords
  BY KeepCharType
<1>4. F \in [1 .. n -> [KeptRecords -> KeptRecords]]
  BY <1>3
<1>5. \A k \in 1 .. n : \A r \in KeptRecords : F[k][r] = KeepChar(r, text[k])
  OBVIOUS
<1> HIDE DEF F, n
<1>6. PICK kept : Iterates(kept, KeptRecords, NothingKept, n, F)
  BY <1>1, <1>2, <1>4, IterationExists
<1>7. Solves(kept)
  <2>1. kept \in [0 .. n -> KeptRecords] /\ kept[0] = NothingKept /\ \A k \in 1 .. n : kept[k] = F[k][kept[k - 1]]
    BY <1>6 DEF Iterates
  <2>2. ASSUME NEW k \in 1 .. n PROVE kept[k] = KeepChar(kept[k - 1], text[k])
    <3>1. k - 1 \in 0 .. n
      BY <1>1
    <3> QED
      BY <1>5, <2>1, <3>1
  <2>3. ASSUME NEW k \in 0 .. n
        PROVE  kept[k] = IF k = 0 THEN NothingKept ELSE KeepChar(kept[k - 1], text[k])
    <3>1. k = 0 \/ k \in 1 .. n
      BY <1>1
    <3> QED
      BY <3>1, <2>1, <2>2
  <2> QED
    BY <2>1, <2>3 DEF NothingKept
<1>8. Solves(Kept(text))
  <2>1. Kept(text) = CHOOSE kept2 : Solves(kept2)
    BY Zenon DEF Kept, n
  <2> HIDE DEF Solves
  <2> QED
    BY <1>7, <2>1
<1> DEFINE v == Kept(text)
<1>9. v = [k \in 0 .. n |-> IF k = 0 THEN NothingKept ELSE KeepChar(v[k - 1], text[k])]
  BY <1>8 DEF NothingKept
<1> HIDE DEF v
<1>10. v[0] = NothingKept /\ \A k \in 1 .. n : v[k] = KeepChar(v[k - 1], text[k])
  BY <1>1, <1>9
<1>11. v[0] \in KeptRecords /\ \A k \in 1 .. n : v[k - 1] \in KeptRecords => v[k] \in KeptRecords
  BY <1>2, <1>3, <1>10
<1>12. \A k \in 0 .. n : v[k] \in KeptRecords
  BY <1>1, <1>11, RecursionType
<1>13. v \in [0 .. n -> KeptRecords]
  BY <1>9, <1>12
<1> QED
  BY <1>10, <1>13 DEF v, n

\* What is kept of a text and one more character.
LEMMA KeptConcat ==
  ASSUME NEW text \in Seq(Chars), NEW d \in Chars
  PROVE  Kept(text \o <<d>>)[Len(text \o <<d>>)] = KeepChar(Kept(text)[Len(text)], d)
<1> DEFINE n == Len(text)
           more == text \o <<d>>
           f == Kept(text)
           g == Kept(more)
<1>1. /\ more \in Seq(Chars) /\ Len(more) = n + 1 /\ more[n + 1] = d
      /\ \A k \in 1 .. n : more[k] = text[k]
  BY Concat
<1>2. n \in Nat
  OBVIOUS
<1>3. f[0] = NothingKept /\ \A k \in 1 .. n : f[k] = KeepChar(f[k - 1], text[k])
  BY KeptIs
<1>4. g[0] = NothingKept /\ \A k \in 1 .. Len(more) : g[k] = KeepChar(g[k - 1], more[k])
  BY <1>1, KeptIs
<1> HIDE DEF f, g, more, n
<1>5. \A k \in 1 .. n + 1 : g[k] = KeepChar(g[k - 1], more[k])
  BY <1>1, <1>4
<1>6. \A k \in 1 .. n : f[k - 1] = g[k - 1] => f[k] = g[k]
  BY <1>1, <1>2, <1>3, <1>5
<1>7. f[n] = g[n]
  BY <1>2, <1>3, <1>4, <1>6, RecursionsAgree
<1>8. g[n + 1] = KeepChar(g[n], d)
  <2> DEFINE m == n + 1
  <2>1. m \in 1 .. n + 1 /\ m - 1 = n /\ more[m] = d
    BY <1>1, <1>2
  <2> HIDE DEF m
  <2>2. g[m] = KeepChar(g[m - 1], more[m])
    BY <1>5, <2>1
  <2> QED
    BY <2>1, <2>2 DEF m
<1> QED
  BY <1>1, <1>7, <1>8 DEF f, g, more, n

-----------------------------------------------------------------------------
Tokens == [content : Seq(Chars), type : AllTypes]

LEMMA TokenType ==
  ASSUME NEW content \in Seq(Chars), NEW type \in AllTypes
  PROVE  /\ Token(content, type) \in Tokens
         /\ Token(content, type).content = content
         /\ Token(content, type).type = type
BY DEF Tokens, Token

LEMMA TokenFields ==
  ASSUME NEW t \in Tokens
  PROVE  t.content \in Seq(Chars) /\ t.type \in AllTypes
BY DEF Tokens

LEMMA NotCommentsIs ==
  ASSUME NEW ts \in Seq(Tokens)
  PROVE  /\ NotComments(ts) \in [0 .. Len(ts) -> Seq(Tokens)]
         /\ NotComments(ts)[0] = <<>>
         /\ \A k \in 1 .. Len(ts) :
              NotComments(ts)[k] = IF ts[k].type = "Comment" THEN NotComments(ts)[k - 1]
                                   ELSE NotComments(ts)[k - 1] \o <<ts[k]>>
<1> DEFINE n == Len(ts)
           X == Seq(Tokens)
           step(s, k) == IF ts[k].type = "Comment" THEN s ELSE s \o <<ts[k]>>
           F == [k \in 1 .. n |-> [s \in X |-> step(s, k)]]
           Solves(left) ==
             left = [k \in 0 .. n |-> IF k = 0 THEN <<>>
                                      ELSE IF ts[k].type = "Comment" THEN left[k - 1]
                                                                     ELSE left[k - 1] \o <<ts[k]>>]
           empty == <<>>
<1>1. n \in Nat
  OBVIOUS
<1>2. empty \in X
  BY EmptySeq
<1>3. ASSUME NEW k \in 1 .. n, NEW s \in X PROVE step(s, k) \in X
  <2>1. ts[k] \in Tokens
    OBVIOUS
  <2>2. s \o <<ts[k]>> \in X
    BY <2>1, Concat
  <2> QED
    BY <2>2
<1>a. ASSUME NEW left
      PROVE  Solves(left) <=> left = [k \in 0 .. n |-> IF k = 0 THEN empty ELSE step(left[k - 1], k)]
  OBVIOUS
<1> HIDE DEF step
<1>4. F \in [1 .. n -> [X -> X]]
  BY <1>3
<1>5. \A k \in 1 .. n : \A s \in X : F[k][s] = step(s, k)
  OBVIOUS
<1> HIDE DEF F, n, X, empty, Solves
<1>6. PICK left : Iterates(left, X, empty, n, F)
  BY <1>1, <1>2, <1>4, IterationExists
<1>7. Solves(left)
  <2>1. left \in [0 .. n -> X] /\ left[0] = empty /\ \A k \in 1 .. n : left[k] = F[k][left[k - 1]]
    BY <1>6 DEF Iterates
  <2>2. ASSUME NEW k \in 1 .. n PROVE left[k] = step(left[k - 1], k)
    <3>1. k - 1 \in 0 .. n
      BY <1>1
    <3> QED
      BY <1>5, <2>1, <3>1
  <2>3. ASSUME NEW k \in 0 .. n
        PROVE  left[k] = IF k = 0 THEN empty ELSE step(left[k - 1], k)
    <3>1. k = 0 \/ k \in 1 .. n
      BY <1>1
    <3> QED
      BY <3>1, <2>1, <2>2
  <2> QED
    BY <2>1, <2>3, <1>a
<1>8. Solves(NotComments(ts))
  <2>1. NotComments(ts) = CHOOSE left2 : Solves(left2)
    BY Zenon DEF NotComments, Solves, n
  <2> QED
    BY <1>7, <2>1
<1> DEFINE v == NotComments(ts)
<1>9. v = [k \in 0 .. n |-> IF k = 0 THEN empty ELSE step(v[k - 1], k)]
  BY <1>8, <1>a
<1> HIDE DEF v
<1>10. v[0] = empty /\ \A k \in 1 .. n : v[k] = step(v[k - 1], k)
  BY <1>1, <1>9
<1>11. v[0] \in X /\ \A k \in 1 .. n : v[k - 1] \in X => v[k] \in X
  BY <1>2, <1>3, <1>10
<1>12. \A k \in 0 .. n : v[k] \in X
  BY <1>1, <1>11, RecursionType
<1>13. v \in [0 .. n -> X]
  BY <1>9, <1>12
<1>14. \A k \in 1 .. n : v[k] = IF ts[k].type = "Comment" THEN v[k - 1] ELSE v[k - 1] \o <<ts[k]>>
  BY <1>10 DEF step
<1> QED
  BY <1>10, <1>13, <1>14 DEF v, n, X, empty

\* What is left of the first n tokens depends on these alone.
LEMMA NotCommentsAgree ==
  ASSUME NEW ts \in Seq(Tokens), NEW us \in Seq(Tokens), NEW n \in Nat,
         n <= Len(ts), n <= Len(us), \A k \in 1 .. n : ts[k] = us[k]
  PROVE  NotComments(ts)[n] = NotComments(us)[n]
<1> DEFINE f == NotComments(ts)
           g == NotComments(us)
           step(s, t) == IF t.type = "Comment" THEN s ELSE s \o <<t>>
<1>1. f[0] = <<>> /\ \A k \in 1 .. Len(ts) : f[k] = step(f[k - 1], ts[k])
  BY NotCommentsIs
<1>2. g[0] = <<>> /\ \A k \in 1 .. Len(us) : g[k] = step(g[k - 1], us[k])
  BY NotCommentsIs
<1> HIDE DEF f, g, step
<1>3. ASSUME NEW k \in 1 .. n, f[k - 1] = g[k - 1] PROVE f[k] = g[k]
  <2>1. k \in 1 .. Len(ts) /\ k \in 1 .. Len(us) /\ ts[k] = us[k]
    OBVIOUS
  <2> QED
    BY <1>1, <1>2, <1>3, <2>1
<1>4. f[n] = g[n]
  BY <1>1, <1>2, <1>3, RecursionsAgree
<1> QED
  BY <1>4 DEF f, g

StripRecords == [in : {"", "line", "block"}, kept : Seq(Tokens), after : BOOLEAN, adjacent : BOOLEAN]
NothingStripped == [in |-> "", kept |-> <<>>, after |-> FALSE, adjacent |-> FALSE]

LEMMA StripRecord ==
  ASSUME NEW in \in {"", "line", "block"}, NEW kept \in Seq(Tokens),
         NEW after \in BOOLEAN, NEW adjacent \in BOOLEAN
  PROVE  [in |-> in, kept |-> kept, after |-> after, adjacent |-> adjacent] \in StripRecords
BY DEF StripRecords

LEMMA StripFields ==
  ASSUME NEW s \in StripRecords
  PROVE  s.in \in {"", "line", "block"} /\ s.kept \in Seq(Tokens) /\ s.after \in BOOLEAN /\ s.adjacent \in BOOLEAN
BY DEF StripRecords

LEMMA StripTokenType ==
  ASSUME NEW s \in StripRecords, NEW t \in Tokens
  PROVE  StripToken(s, t) \in StripRecords
<1>1. s.in \in {"", "line", "block"} /\ s.kept \in Seq(Tokens) /\ s.after \in BOOLEAN /\ s.adjacent \in BOOLEAN
  BY StripFields
<1> DEFINE more == s.kept \o <<t>>
           x == s.adjacent \/ s.after
           comment == IF BeginsWith(t, "/", "*") THEN "block" ELSE "line"
<1>2. more \in Seq(Tokens) /\ x \in BOOLEAN /\ comment \in {"", "line", "block"}
  BY <1>1, Concat
<1> DEFINE closes == s.in = "line" /\ t.type = "EndOfLine"
           ends == s.in = "block" /\ BeginsWith(t, "*", "/")
           opens == s.in = "" /\ Opens(t)
           plain == s.in = "" /\ ~Opens(t)
<1>a. CASE closes
  <2>1. StripToken(s, t) = [in |-> "", kept |-> more, after |-> FALSE, adjacent |-> s.adjacent]
    BY <1>a DEF StripToken
  <2> HIDE DEF more
  <2> QED
    BY <1>1, <1>2, <2>1, StripRecord
<1>b. CASE ends
  <2>1. StripToken(s, t) = [in |-> "", kept |-> s.kept, after |-> TRUE, adjacent |-> s.adjacent]
    BY <1>b DEF StripToken
  <2> QED
    BY <1>1, <2>1, StripRecord
<1>c. CASE opens
  <2>1. StripToken(s, t) = [in |-> comment, kept |-> s.kept, after |-> FALSE, adjacent |-> x]
    BY <1>c DEF StripToken
  <2> HIDE DEF comment, x
  <2> QED
    BY <1>1, <1>2, <2>1, StripRecord
<1>d. CASE plain
  <2>1. StripToken(s, t) = [in |-> "", kept |-> more, after |-> FALSE, adjacent |-> s.adjacent]
    BY <1>d DEF StripToken
  <2> HIDE DEF more
  <2> QED
    BY <1>1, <1>2, <2>1, StripRecord
<1>e. CASE ~closes /\ ~ends /\ ~opens /\ ~plain
  BY <1>e DEF StripToken
<1> QED
  BY <1>a, <1>b, <1>c, <1>d, <1>e

LEMMA StripIs ==
  ASSUME NEW ts \in Seq(Tokens)
  PROVE  /\ Strip(ts) \in [0 .. Len(ts) -> StripRecords]
         /\ Strip(ts)[0] = NothingStripped
         /\ \A k \in 1 .. Len(ts) : Strip(ts)[k] = StripToken(Strip(ts)[k - 1], ts[k])
<1> DEFINE n == Len(ts)
           F == [k \in 1 .. n |-> [s \in StripRecords |-> StripToken(s, ts[k])]]
           Solves(strip) ==
             strip = [k \in 0 .. n |-> IF k = 0 THEN [in |-> "", kept |-> <<>>, after |-> FALSE, adjacent |-> FALSE]
                                       ELSE StripToken(strip[k - 1], ts[k])]
<1>1. n \in Nat
  OBVIOUS
<1>2. NothingStripped \in StripRecords
  <2>1. <<>> \in Seq(Tokens)
    BY EmptySeq
  <2> QED
    BY <2>1 DEF NothingStripped, StripRecords
<1>3. ASSUME NEW k \in 1 .. n, NEW s \in StripRecords PROVE StripToken(s, ts[k]) \in StripRecords
  BY StripTokenType
<1>4. F \in [1 .. n -> [StripRecords -> StripRecords]]
  BY <1>3
<1>5. \A k \in 1 .. n : \A s \in StripRecords : F[k][s] = StripToken(s, ts[k])
  OBVIOUS
<1> HIDE DEF F, n
<1>6. PICK strip : Iterates(strip, StripRecords, NothingStripped, n, F)
  BY <1>1, <1>2, <1>4, IterationExists
<1>7. Solves(strip)
  <2>1. strip \in [0 .. n -> StripRecords] /\ strip[0] = NothingStripped /\ \A k \in 1 .. n : strip[k] = F[k][strip[k - 1]]
    BY <1>6 DEF Iterates
  <2>2. ASSUME NEW k \in 1 .. n PROVE strip[k] = StripToken(strip[k - 1], ts[k])
    <3>1. k - 1 \in 0 .. n
      BY <1>1
    <3> QED
      BY <1>5, <2>1, <3>1
  <2>3. ASSUME NEW k \in 0 .. n
        PROVE  strip[k] = IF k = 0 THEN NothingStripped ELSE StripToken(strip[k - 1], ts[k])
    <3>1. k = 0 \/ k \in 1 .. n
      BY <1>1
    <3> QED
      BY <3>1, <2>1, <2>2
  <2> QED
    BY <2>1, <2>3 DEF NothingStripped
<1>8. Solves(Strip(ts))
  <2>1. Strip(ts) = CHOOSE strip2 : Solves(strip2)
    BY Zenon DEF Strip, n
  <2> HIDE DEF Solves
  <2> QED
    BY <1>7, <2>1
<1> DEFINE v == Strip(ts)
<1>9. v = [k \in 0 .. n |-> IF k = 0 THEN NothingStripped ELSE StripToken(v[k - 1], ts[k])]
  BY <1>8 DEF NothingStripped
<1> HIDE DEF v
<1>10. v[0] = NothingStripped /\ \A k \in 1 .. n : v[k] = StripToken(v[k - 1], ts[k])
  BY <1>1, <1>9
<1>11. v[0] \in StripRecords /\ \A k \in 1 .. n : v[k - 1] \in StripRecords => v[k] \in StripRecords
  BY <1>2, <1>3, <1>10
<1>12. \A k \in 0 .. n : v[k] \in StripRecords
  BY <1>1, <1>11, RecursionType
<1>13. v \in [0 .. n -> StripRecords]
  BY <1>9, <1>12
<1> QED
  BY <1>10, <1>13 DEF v, n

-----------------------------------------------------------------------------
(***************************************************************************)
(* The inductive invariant                                                 *)
(***************************************************************************)
Typed ==
  /\ program \in Programs
  /\ file \in 1 .. Len(program)
  /\ i \in Nat \ {0}
  /\ currentToken \in TokenTypes \cup {"Nothing"}
  /\ tokenContent \in Seq(Chars)
  /\ tokens \in Seq(Tokens)
  /\ startIndex \in Nat
  /\ multiLineComment \in BOOLEAN
  /\ phase \in {"tokenize", "join", "done"}
  /\ read \in Seq(Chars)
  /\ unjoined \in Seq(Tokens)
  /\ result \in Seq(Seq(Tokens))

\* The loops are where their bounds let them be.
Placed ==
  /\ IF phase = "join" THEN i <= Len(tokens) /\ startIndex <= i
                       ELSE i <= Len(rawFile) + 1 /\ startIndex = 0
  /\ multiLineComment => startIndex # 0
  /\ Len(result) = IF phase = "done" THEN file ELSE file - 1

KeptRead == Kept(TextRead)[Len(TextRead)]

QuoteOf(type) == CASE type = "String" -> "\""
                   [] type = "Character" -> "'"
                   [] OTHER -> ""

\* The tokens hold what is kept of the text, and the token that is building is a quote
\* of the kind that is open in the text.
ReadAsKept ==
  /\ read \o tokenContent = KeptRead.text
  /\ KeptRead.quote = QuoteOf(currentToken)

\* What a token without a tilde looks like while it is building.
Shaped(type, s) ==
  /\ type = "Identifier" => s[1] = "a" /\ \A k \in 1 .. Len(s) : s[k] \in {"a", "0"}
  /\ type = "Integer" =>
       /\ s[1] = "0"
       /\ \A k \in 1 .. Len(s) : s[k] \in {"a", "0", "."}
       /\ \A k \in 1 .. Len(s) - 1 : s[k] = "." => s[k + 1] # "."
  /\ type \in Quoting => s[1] = QuoteOf(type) /\ \A k \in 2 .. Len(s) : s[k] # s[1]
  /\ type = "Punctuation" => \A k \in 1 .. Len(s) : s[k] \in Punctuations

Tilde(s) == \E k \in 1 .. Len(s) : s[k] = "~"

\* The last character of the token that is building is the one before the next; a number
\* that a period ends is followed by none.
Building ==
  /\ currentToken = "Nothing" <=> tokenContent = <<>>
  /\ currentToken # "Nothing" =>
       /\ Tilde(tokenContent) \/ Shaped(currentToken, tokenContent)
       /\ Last(tokenContent) = IF phase = "tokenize" THEN lastChar ELSE "\n"
       /\ phase = "tokenize" /\ i <= Len(rawFile) /\ currentToken = "Integer" /\ lastChar = "." =>
            char # "."

Worded ==
  /\ phase = "tokenize" => \A k \in 1 .. Len(tokens) : IsWord(tokens[k]) /\ tokens[k].type # "Comment"
  /\ phase = "join" => \A k \in 1 .. Len(unjoined) : IsWord(unjoined[k]) /\ unjoined[k].type # "Comment"

\* How many of the tokens of the file joinCommentTokens has passed.
Through == Len(unjoined) - (Len(tokens) - i)
Stripped == Strip(unjoined)[Through]

\* The tokens that are left are those outside of comments, until one is adjacent to another.
StrippedAlike ==
  /\ ~Stripped.after
  /\ Stripped.in = IF startIndex = 0 THEN "" ELSE IF multiLineComment THEN "block" ELSE "line"
  /\ NotComments(tokens)[IF startIndex = 0 THEN i ELSE startIndex] =
       <<Token(<<>>, "Nothing")>> \o Stripped.kept

\* What joinCommentTokens has still to pass is as it was, with the end of the file last.
Joins ==
  phase = "join" =>
    /\ Through \in 0 .. Len(unjoined)
    /\ \A k \in i + 1 .. Len(tokens) : tokens[k] = unjoined[k + Len(unjoined) - Len(tokens)]
    /\ Len(unjoined) > 0
    /\ unjoined[Len(unjoined)].content = <<>>
    /\ Stripped.adjacent \/ StrippedAlike

TokenizerInv == Typed /\ Placed /\ ReadAsKept /\ Building /\ Worded /\ Joins

-----------------------------------------------------------------------------
(***************************************************************************)
(* What has been read                                                      *)
(***************************************************************************)
LEMMA Raw ==
  ASSUME Typed
  PROVE  /\ program \in Seq(Seq(Chars)) /\ program[file] \in Seq(Chars)
         /\ rawFile \in Seq(Chars)
         /\ Len(rawFile) \in Nat \ {0}
         /\ rawFile[Len(rawFile)] = "\n"
<1>1. program \in Seq(Seq(Chars)) /\ file \in 1 .. Len(program)
  BY ProgramsAssumption DEF Typed
<1>2. program[file] \in Seq(Chars)
  BY <1>1
<1>3. "\n" \in Chars
  BY DEF Chars
<1> DEFINE s == program[file]
<1>4. s \in Seq(Chars) /\ Len(s) \in Nat
  BY <1>2
<1> HIDE DEF s
<1>5. s \o <<"\n">> \in Seq(Chars) /\ Len(s \o <<"\n">>) = Len(s) + 1 /\ (s \o <<"\n">>)[Len(s) + 1] = "\n"
  BY <1>3, <1>4, Concat
<1>6. rawFile = s \o <<"\n">>
  BY DEF rawFile, s
<1> HIDE DEF rawFile
<1>7. Len(rawFile) = Len(s) + 1
  BY <1>5, <1>6
<1>8. rawFile \in Seq(Chars) /\ rawFile[Len(rawFile)] = "\n"
  BY <1>5, <1>6, <1>7
<1>9. Len(rawFile) \in Nat \ {0}
  BY <1>4, <1>7
<1> QED
  BY <1>1, <1>2, <1>8, <1>9

LEMMA CharIs ==
  ASSUME Typed, Tokenizing
  PROVE  /\ i \in 1 .. Len(rawFile)
         /\ char \in Chars
         /\ lastChar \in Chars
         /\ char = rawFile[i]
<1>1. rawFile \in Seq(Chars) /\ Len(rawFile) \in Nat \ {0}
  BY Raw
<1>2. i \in 1 .. Len(rawFile)
  BY <1>1 DEF Typed, Tokenizing
<1> HIDE DEF rawFile
<1>3. rawFile[i] \in Chars
  BY <1>1, <1>2
<1>4. "\n" \in Chars
  BY DEF Chars
<1>5. i # 1 => i - 1 \in 1 .. Len(rawFile)
  BY <1>1, <1>2
<1>6. i # 1 => rawFile[i - 1] \in Chars
  BY <1>1, <1>5
<1> QED
  BY <1>2, <1>3, <1>4, <1>6 DEF char, lastChar

\* The text of the files before this one, and of the file read so far.
LEMMA TextReadType ==
  ASSUME Typed, Placed
  PROVE  /\ TextRead \in Seq(Chars)
         /\ TextOf(program)[file - 1] \in Seq(Chars)
         /\ TextOf(program)[file] = TextOf(program)[file - 1] \o rawFile
<1>1. program \in Seq(Seq(Chars)) /\ rawFile \in Seq(Chars) /\ Len(rawFile) \in Nat \ {0}
  BY Raw
<1>2. file \in 1 .. Len(program) /\ file - 1 \in 0 .. Len(program) /\ file \in 0 .. Len(program)
  BY <1>1 DEF Typed
<1>3. TextOf(program) \in [0 .. Len(program) -> Seq(Chars)]
  BY <1>1, TextIs
<1>4. TextOf(program)[file] = TextOf(program)[file - 1] \o rawFile
  BY <1>1, <1>2, TextIs DEF rawFile
<1>5. TextOf(program)[file] \in Seq(Chars) /\ TextOf(program)[file - 1] \in Seq(Chars)
  BY <1>2, <1>3
<1>6. phase = "tokenize" => SubSeq(rawFile, 1, i - 1) \in Seq(Chars)
  <2>1. phase = "tokenize" => i - 1 \in Int /\ 1 \in Int /\ \A k \in 1 .. i - 1 : k \in 1 .. Len(rawFile)
    BY <1>1 DEF Typed, Placed
  <2> HIDE DEF rawFile
  <2>2. phase = "tokenize" => \A k \in 1 .. i - 1 : rawFile[k] \in Chars
    BY <1>1, <2>1
  <2> QED
    BY <2>1, <2>2, SubSeqProperties
<1> HIDE DEF rawFile
<1>7. phase = "tokenize" => TextOf(program)[file - 1] \o SubSeq(rawFile, 1, i - 1) \in Seq(Chars)
  BY <1>5, <1>6, ConcatProperties
<1> QED
  BY <1>4, <1>5, <1>7 DEF TextRead

LEMMA KeptReadType ==
  ASSUME Typed, Placed
  PROVE  KeptRead \in KeptRecords
<1> DEFINE t == TextRead
<1>1. t \in Seq(Chars)
  BY TextReadType
<1> HIDE DEF t
<1>2. Len(t) \in 0 .. Len(t) /\ Kept(t) \in [0 .. Len(t) -> KeptRecords]
  BY <1>1, KeptIs
<1>3. Kept(t)[Len(t)] \in KeptRecords
  BY <1>2
<1> QED
  BY <1>3 DEF KeptRead, t

LEMMA ReadAssociative ==
  ASSUME NEW s \in Seq(Chars), NEW t \in Seq(Chars), NEW u \in Seq(Chars)
  PROVE  s \o (t \o u) = (s \o t) \o u
BY ConcatAssociative

\* One more character.
LEMMA ReadOne ==
  ASSUME Typed, Placed, Tokenizing, i' = i + 1, UNCHANGED <<program, file, phase>>
  PROVE  KeptRead' = KeepChar(KeptRead, char)
<1> DEFINE t == TextRead
           before == TextOf(program)[file - 1]
           raw == rawFile
           c == char
           t2 == TextRead'
<1>1. t \in Seq(Chars) /\ before \in Seq(Chars) /\ raw \in Seq(Chars) /\ Len(raw) \in Nat \ {0}
  BY Raw, TextReadType
<1>2. i \in 1 .. Len(raw) /\ c \in Chars /\ c = raw[i]
  BY CharIs
<1>3. t = before \o SubSeq(raw, 1, i - 1)
  BY DEF TextRead, Tokenizing
<1>4. t2 = before \o SubSeq(raw, 1, i)
  <2>1. i + 1 - 1 = i
    BY <1>2
  <2>2. program' = program /\ file' = file /\ phase' = phase /\ phase = "tokenize"
    BY DEF Tokenizing
  <2>3. rawFile' = rawFile
    BY <2>2 DEF rawFile
  <2>4. TextOf(program)' = TextOf(program)
    BY <2>2
  <2>5. t2 = (TextOf(program)')[file' - 1] \o SubSeq(rawFile', 1, i' - 1)
    BY <2>2 DEF TextRead
  <2>6. (TextOf(program)')[file' - 1] = before
    BY <2>2, <2>4
  <2>7. i' - 1 = i
    BY <1>2
  <2> HIDE DEF raw
  <2>8. SubSeq(rawFile', 1, i' - 1) = SubSeq(raw, 1, i)
    BY <2>3, <2>7 DEF raw
  <2> HIDE DEF t2, raw, before
  <2> QED
    BY <2>5, <2>6, <2>8
<1>k. KeptRead = Kept(t)[Len(t)] /\ KeptRead' = Kept(t2)[Len(t2)]
  BY DEF KeptRead
<1> HIDE DEF t, before, raw, c, t2
<1>5. SubSeq(raw, 1, i) = SubSeq(raw, 1, i - 1) \o <<c>>
  <2>1. 1 \in 1 .. Len(raw) /\ i \in 1 .. Len(raw)
    BY <1>1, <1>2
  <2> QED
    BY <1>1, <1>2, <2>1, SubSeqRecursiveSecond
<1>6. SubSeq(raw, 1, i - 1) \in Seq(Chars) /\ <<c>> \in Seq(Chars)
  <2>1. i - 1 \in Int /\ 1 \in Int /\ \A k \in 1 .. i - 1 : raw[k] \in Chars
    BY <1>1, <1>2
  <2>2. SubSeq(raw, 1, i - 1) \in Seq(Chars)
    BY <2>1, SubSeqProperties
  <2> QED
    BY <1>2, <2>2
<1>7. t2 = t \o <<c>>
  <2> DEFINE u == SubSeq(raw, 1, i - 1)
             v == <<c>>
  <2>1. t2 = before \o (u \o v) /\ t = before \o u
    BY <1>3, <1>4, <1>5
  <2>2. u \in Seq(Chars) /\ v \in Seq(Chars)
    BY <1>6
  <2>3. before \in Seq(Chars)
    BY <1>1
  <2> HIDE DEF u, v
  <2>4. before \o (u \o v) = (before \o u) \o v
    BY <2>2, <2>3, ReadAssociative
  <2> QED
    BY <2>1, <2>4 DEF v
<1>8. Kept(t \o <<c>>)[Len(t \o <<c>>)] = KeepChar(Kept(t)[Len(t)], c)
  BY <1>1, <1>2, KeptConcat
<1> QED
  BY <1>7, <1>8, <1>k DEF c

\* The end of a file, or of the removal of its comments, reads nothing.
LEMMA ReadNone ==
  ASSUME Typed, Placed, program' = program,
         \/ UNCHANGED <<file, phase, i>>
         \/ phase # "tokenize" /\ UNCHANGED <<file, phase>>
         \/ phase = "tokenize" /\ i > Len(rawFile) /\ phase' = "join" /\ file' = file
         \/ phase = "join" /\ phase' = "done" /\ file' = file
         \/ phase = "join" /\ phase' = "tokenize" /\ file' = file + 1 /\ i' = 1
  PROVE  KeptRead' = KeptRead
<1>1. /\ TextOf(program)[file] = TextOf(program)[file - 1] \o rawFile
      /\ rawFile \in Seq(Chars) /\ Len(rawFile) \in Nat \ {0}
      /\ program \in Seq(Seq(Chars))
  BY Raw, TextReadType
<1>2. TextRead' = TextRead
  <2>1. CASE UNCHANGED <<file, phase, i>>
    BY <2>1 DEF TextRead, rawFile
  <2>2. CASE phase # "tokenize" /\ UNCHANGED <<file, phase>>
    BY <2>2 DEF TextRead
  <2>3. CASE phase = "tokenize" /\ i > Len(rawFile) /\ phase' = "join" /\ file' = file
    <3>1. TextRead' = TextOf(program)[file] /\ TextRead = TextOf(program)[file - 1] \o SubSeq(rawFile, 1, i - 1)
      BY <2>3 DEF TextRead
    <3>2. i - 1 = Len(rawFile)
      BY <2>3, <1>1 DEF Typed, Placed
    <3> HIDE DEF rawFile
    <3>3. SubSeq(rawFile, 1, Len(rawFile)) = rawFile
      BY <1>1, SubSeqFull
    <3> QED
      BY <1>1, <3>1, <3>2, <3>3
  <2>4. CASE phase = "join" /\ phase' = "done" /\ file' = file
    BY <2>4 DEF TextRead
  <2>5. CASE phase = "join" /\ phase' = "tokenize" /\ file' = file + 1 /\ i' = 1
    <3> DEFINE t == TextOf(program)[file]
    <3>1. TextRead = t
      BY <2>5 DEF TextRead
    <3>2. file + 1 - 1 = file
      BY DEF Typed
    <3>a. phase' = "tokenize" /\ file' = file + 1 /\ i' = 1
      BY <2>5
    <3>b. TextOf(program)' = TextOf(program)
      OBVIOUS
    <3>c. TextRead' = (TextOf(program)')[file' - 1] \o SubSeq(rawFile', 1, i' - 1)
      BY <3>a DEF TextRead
    <3>3. (TextOf(program)')[file' - 1] = t
      <4>1. file' - 1 = file
        BY <3>a DEF Typed
      <4> QED
        BY <3>b, <4>1
    <3>4. SubSeq(rawFile', 1, i' - 1) = <<>>
      <4>1. i' - 1 \in Int /\ i' - 1 < 1
        BY <3>a
      <4> QED
        BY <4>1, SubSeqEmpty
    <3>5. t \in Seq(Chars)
      BY <2>5, TextReadType DEF TextRead
    <3>6. TextRead' = t \o <<>>
      BY <3>c, <3>3, <3>4
    <3> HIDE DEF t
    <3>7. t \o <<>> = t
      BY <3>5, ConcatEmptySeq
    <3> QED
      BY <3>1, <3>6, <3>7 DEF t
  <2> QED
    BY <2>1, <2>2, <2>3, <2>4, <2>5
<1> QED
  BY <1>2 DEF KeptRead

LEMMA KeepCharDoes ==
  ASSUME NEW k \in KeptRecords, NEW d \in Chars
  PROVE  /\ k.quote = "" /\ d = " " => KeepChar(k, d) = k
         /\ k.quote # "" \/ d # " " =>
              /\ KeepChar(k, d).text = k.text \o <<d>>
              /\ k.quote # "" => KeepChar(k, d).quote = IF d = k.quote THEN "" ELSE k.quote
              /\ k.quote = "" => KeepChar(k, d).quote = IF d \in Quotes THEN d ELSE ""
BY DEF KeepChar, KeptRecords

-----------------------------------------------------------------------------
(***************************************************************************)
(* What tokens look like                                                   *)
(***************************************************************************)
LEMMA InSeq ==
  ASSUME NEW X, NEW s \in Seq(X)
  PROVE  /\ Len(s) \in Nat
         /\ DOMAIN s = 1 .. Len(s)
         /\ ToSet(s) = {s[k] : k \in 1 .. Len(s)}
         /\ s # <<>> <=> Len(s) > 0
         /\ \A k \in 1 .. Len(s) : s[k] \in X
         /\ Last(s) = s[Len(s)]
BY DEF ToSet, Last

\* The rest of a sequence is its elements but the first.
LEMMA RestIs ==
  ASSUME NEW X, NEW s \in Seq(X), s # <<>>
  PROVE  \A x \in Rest(s) : \E k \in 2 .. Len(s) : x = s[k]
<1> DEFINE t == Tail(s)
<1>1. t \in Seq(X) /\ Len(t) = Len(s) - 1 /\ \A k \in 1 .. Len(t) : t[k] = s[k + 1]
  BY HeadTailProperties
<1>2. Len(s) \in Nat
  OBVIOUS
<1>3. Rest(s) = ToSet(t)
  BY DEF Rest
<1> HIDE DEF t
<1>4. ToSet(t) = {t[k] : k \in 1 .. Len(t)}
  BY <1>1, InSeq
<1>5. ASSUME NEW x \in ToSet(t) PROVE \E k \in 2 .. Len(s) : x = s[k]
  <2>1. PICK k \in 1 .. Len(t) : x = t[k]
    BY <1>4
  <2>2. k + 1 \in 2 .. Len(s) /\ t[k] = s[k + 1]
    BY <1>1, <1>2, <2>1
  <2> QED
    BY <2>1, <2>2
<1> QED
  BY <1>3, <1>5

LEMMA StartsShaped ==
  ASSUME NEW type \in TokenTypes, NEW c \in Chars, c \in tokenStarts[type]
  PROVE  Shaped(type, <<c>>)
<1> DEFINE s == <<c>>
<1>1. Len(s) = 1 /\ s[1] = c
  OBVIOUS
<1> HIDE DEF s
<1>2. /\ type = "String" => c = "\""
      /\ type = "Character" => c = "'"
      /\ type = "Identifier" => c = "a"
      /\ type = "Integer" => c = "0"
      /\ type = "Punctuation" => c \in Punctuations
  BY StartOf
<1>3. \A k \in 1 .. Len(s) : s[k] = c
  BY <1>1
<1>4. (2 .. Len(s)) = {} /\ (1 .. Len(s) - 1) = {}
  BY <1>1
<1>5. type \in Quoting => c = QuoteOf(type)
  BY <1>2 DEF Quoting, QuoteOf
<1>6. Shaped(type, s)
  BY <1>1, <1>2, <1>3, <1>4, <1>5 DEF Shaped
<1> QED
  BY <1>6 DEF s

\* A token that goes on keeps its shape.
LEMMA GoesOnShaped ==
  ASSUME NEW type \in TokenTypes, NEW s \in Seq(Chars), s # <<>>, NEW d \in Chars,
         Tilde(s) \/ Shaped(type, s),
         ~(d \in tokenEscapes[type] /\ ~(<<Last(s), d>> \in tokenEscapeCancels)),
         type = "Integer" /\ Last(s) = "." => d # "."
  PROVE  Tilde(s \o <<d>>) \/ Shaped(type, s \o <<d>>)
<1> DEFINE n == Len(s)
           u == s \o <<d>>
           c == Last(s)
<1>1. n \in Nat \ {0} /\ c = s[n]
  BY InSeq
<1>2. u \in Seq(Chars) /\ Len(u) = n + 1 /\ u[n + 1] = d /\ \A k \in 1 .. n : u[k] = s[k]
  BY Concat
<1>3. /\ type = "String" => d # "\""
      /\ type = "Character" => d # "'"
      /\ type = "Identifier" => d \in {"a", "0", "~"} \/ c \in Punctuations
      /\ type = "Integer" => d \in {"a", "0", ".", "~"} \/ c \in Punctuations
      /\ type = "Integer" /\ c = "." => d \in {"a", "0", ".", "~"}
      /\ type = "Punctuation" => d \in Punctuations
  BY GoesOn
<1>4. type = "Integer" /\ c = "." => d # "."
  OBVIOUS
<1>5. Tilde(s) \/ Shaped(type, s)
  OBVIOUS
<1> HIDE DEF n, u, c
<1>6. n + 1 \in 1 .. n + 1 /\ n \in 1 .. n /\ 1 \in 1 .. n /\ 1 \in 1 .. n + 1
  BY <1>1
<1>7. ASSUME NEW k \in 1 .. Len(u) PROVE k = n + 1 \/ (k \in 1 .. n /\ u[k] = s[k])
  BY <1>1, <1>2
<1>8. CASE Tilde(s)
  <2>1. PICK k \in 1 .. n : s[k] = "~"
    BY <1>8 DEF Tilde, n
  <2>2. k \in 1 .. Len(u) /\ u[k] = "~"
    BY <1>1, <1>2, <2>1
  <2> QED
    BY <2>2 DEF Tilde, u
<1>9. CASE d = "~"
  BY <1>2, <1>6, <1>9 DEF Tilde, u
<1>10. CASE Shaped(type, s) /\ d # "~"
  <2>1. u[1] = s[1]
    BY <1>2, <1>6
  <2>2. ASSUME type = "Identifier"
        PROVE  u[1] = "a" /\ \A k \in 1 .. Len(u) : u[k] \in {"a", "0"}
    <3>1. s[1] = "a" /\ \A k \in 1 .. n : s[k] \in {"a", "0"}
      BY <1>10, <2>2 DEF Shaped, n
    <3>2. c \notin Punctuations
      BY <1>1, <1>6, <3>1 DEF Punctuations
    <3>3. d \in {"a", "0"}
      BY <1>3, <1>10, <2>2, <3>2
    <3> QED
      BY <1>2, <1>7, <2>1, <3>1, <3>3
  <2>3. ASSUME type = "Integer"
        PROVE  /\ u[1] = "0"
               /\ \A k \in 1 .. Len(u) : u[k] \in {"a", "0", "."}
               /\ \A k \in 1 .. Len(u) - 1 : u[k] = "." => u[k + 1] # "."
    <3>1. /\ s[1] = "0"
          /\ \A k \in 1 .. n : s[k] \in {"a", "0", "."}
          /\ \A k \in 1 .. n - 1 : s[k] = "." => s[k + 1] # "."
      BY <1>10, <2>3 DEF Shaped, n
    <3>2. c # "." => c \notin Punctuations
      BY <1>1, <1>6, <3>1 DEF Punctuations
    <3>3. d \in {"a", "0", "."}
      BY <1>3, <1>10, <2>3, <3>2
    <3>4. c = "." => d # "."
      BY <1>4, <2>3
    <3>5. ASSUME NEW k \in 1 .. Len(u) - 1, u[k] = "." PROVE u[k + 1] # "."
      <4>1. k \in 1 .. n /\ u[k] = s[k]
        BY <1>1, <1>2
      <4>2. CASE k = n
        BY <1>1, <1>2, <3>4, <3>5, <4>1, <4>2
      <4>3. CASE k # n
        <5>1. k \in 1 .. n - 1 /\ k + 1 \in 1 .. n
          BY <1>1, <4>1, <4>3
        <5>2. u[k + 1] = s[k + 1]
          BY <1>2, <5>1
        <5> QED
          BY <3>1, <3>5, <4>1, <5>1, <5>2
      <4> QED
        BY <4>2, <4>3
    <3> QED
      BY <1>2, <1>7, <2>1, <3>1, <3>3, <3>5
  <2>4. ASSUME type \in Quoting
        PROVE  u[1] = QuoteOf(type) /\ \A k \in 2 .. Len(u) : u[k] # u[1]
    <3>1. s[1] = QuoteOf(type) /\ \A k \in 2 .. n : s[k] # s[1]
      BY <1>10, <2>4 DEF Shaped, n
    <3>2. d # QuoteOf(type)
      BY <1>3, <2>4 DEF Quoting, QuoteOf
    <3>3. ASSUME NEW k \in 2 .. Len(u) PROVE k = n + 1 \/ (k \in 2 .. n /\ u[k] = s[k])
      BY <1>1, <1>2
    <3> QED
      BY <1>2, <2>1, <3>1, <3>2, <3>3
  <2>5. ASSUME type = "Punctuation" PROVE \A k \in 1 .. Len(u) : u[k] \in Punctuations
    <3>1. \A k \in 1 .. n : s[k] \in Punctuations
      BY <1>10, <2>5 DEF Shaped, n
    <3> QED
      BY <1>2, <1>3, <1>7, <2>5, <3>1
  <2>6. Shaped(type, u)
    BY <2>2, <2>3, <2>4, <2>5 DEF Shaped
  <2> QED
    BY <2>6 DEF u
<1> QED
  BY <1>5, <1>8, <1>9, <1>10

\* The types of a token that has ended.
LEMMA Swapped ==
  ASSUME currentToken \in TokenTypes, NEW s
  PROVE  /\ SwappedType(s) \in AllTypes
         /\ SwappedType(s) \in TokenTypes \cup {"Float"}
         /\ SwappedType(s) # "Comment"
         /\ SwappedType(s) # "Float" => SwappedType(s) = currentToken
         /\ SwappedType(s) = "Float" => currentToken = "Integer"
         /\ currentToken = "Integer" => (SwappedType(s) = "Float" <=> "." \in ToSet(s))
BY TokenTypesAre DEF SwappedType, AllTypes

\* A word that ends is one of its type.
LEMMA EndedIsWord ==
  ASSUME currentToken \in TokenTypes \ Quoting, NEW s \in Seq(Chars), s # <<>>,
         Tilde(s) \/ Shaped(currentToken, s)
  PROVE  IsWord(Token(s, SwappedType(s)))
<1> DEFINE type == SwappedType(s)
           t == Token(s, type)
<1> SUFFICES IsWord(t)
  OBVIOUS
<1>1. t.content = s /\ t.type = type
  BY DEF Token
<1>2. /\ type \in TokenTypes \cup {"Float"}
      /\ type # "Float" => type = currentToken
      /\ type = "Float" => currentToken = "Integer"
      /\ currentToken = "Integer" => (type = "Float" <=> "." \in ToSet(s))
  BY Swapped
<1> HIDE DEF t, type
<1>3. /\ Len(s) \in Nat \ {0}
      /\ ToSet(s) = {s[k] : k \in 1 .. Len(s)}
  BY InSeq
<1>4. \A x \in Rest(s) : \E k \in 2 .. Len(s) : x = s[k]
  BY RestIs
<1>5. \A k \in 2 .. Len(s) : k \in 1 .. Len(s)
  BY <1>3
<1>6. CASE Tilde(s)
  BY <1>1, <1>3, <1>6 DEF IsWord, Tilde
<1>7. CASE Shaped(currentToken, s)
  <2>1. CASE type = "Identifier"
    <3>1. s[1] = "a" /\ \A k \in 1 .. Len(s) : s[k] \in {"a", "0"}
      BY <1>2, <1>7, <2>1 DEF Shaped
    <3>2. Rest(s) \subseteq {"a", "0"}
      BY <1>4, <1>5, <3>1
    <3> QED
      BY <1>1, <2>1, <3>1, <3>2 DEF IsWord, Quoting
  <2>2. CASE type \in {"Integer", "Float"}
    <3>1. /\ s[1] = "0"
          /\ \A k \in 1 .. Len(s) : s[k] \in {"a", "0", "."}
          /\ \A k \in 1 .. Len(s) - 1 : s[k] = "." => s[k + 1] # "."
      BY <1>2, <1>7, <2>2 DEF Shaped
    <3>2. currentToken = "Integer"
      BY <1>2, <2>2
    <3>3. CASE type = "Integer"
      <4>1. "." \notin ToSet(s)
        BY <1>2, <3>2, <3>3
      <4>2. \A k \in 1 .. Len(s) : s[k] \in {"a", "0"}
        BY <1>3, <3>1, <4>1
      <4>3. Rest(s) \subseteq {"a", "0"}
        BY <1>4, <1>5, <4>2
      <4> QED
        BY <1>1, <3>1, <3>3, <4>3 DEF IsWord, Quoting
    <3>4. CASE type = "Float"
      <4>1. Rest(s) \subseteq {"a", "0", "."}
        BY <1>4, <1>5, <3>1
      <4> QED
        BY <1>1, <3>1, <3>4, <4>1 DEF IsWord, Quoting
    <3> QED
      BY <2>2, <3>3, <3>4
  <2>3. CASE type = "Punctuation"
    <3>1. \A k \in 1 .. Len(s) : s[k] \in Punctuations
      BY <1>2, <1>7, <2>3 DEF Shaped
    <3>2. ToSet(s) \subseteq Punctuations
      BY <1>3, <3>1
    <3> QED
      BY <1>1, <2>3, <3>2 DEF IsWord, Quoting
  <2>4. CASE type = "EndOfLine"
    BY <1>1, <2>4 DEF IsWord, Quoting
  <2>5. type \in {"Identifier", "Integer", "Float", "Punctuation", "EndOfLine"}
    BY <1>2, TokenTypesAre DEF Quoting
  <2> QED
    BY <2>1, <2>2, <2>3, <2>4, <2>5
<1> QED
  BY <1>6, <1>7

\* A quote that ends has its sign at both ends and nowhere else.
LEMMA QuoteIsWord ==
  ASSUME currentToken \in Quoting, NEW s \in Seq(Chars), s # <<>>,
         Tilde(s) \/ Shaped(currentToken, s), NEW d \in Chars, d = QuoteOf(currentToken)
  PROVE  IsWord(Token(s \o <<d>>, SwappedType(s \o <<d>>)))
<1> DEFINE n == Len(s)
           u == s \o <<d>>
           type == SwappedType(u)
           t == Token(u, type)
           mid == SubSeq(u, 2, Len(u) - 1)
<1> SUFFICES IsWord(t)
  OBVIOUS
<1>1. t.content = u /\ t.type = type
  BY DEF Token
<1>2. type = currentToken /\ type \in Quoting
  BY DEF SwappedType, Quoting
<1>3. n \in Nat \ {0}
  BY InSeq
<1>4. u \in Seq(Chars) /\ Len(u) = n + 1 /\ u[n + 1] = d /\ \A k \in 1 .. n : u[k] = s[k]
  BY Concat
<1> HIDE DEF n, u, type, t
<1>5. ToSet(u) = {u[k] : k \in 1 .. Len(u)} /\ Last(u) = d
  BY <1>4, InSeq
<1>6. CASE Tilde(s)
  <2>1. PICK k \in 1 .. n : s[k] = "~"
    BY <1>6 DEF Tilde, n
  <2>2. k \in 1 .. Len(u) /\ u[k] = "~"
    BY <1>3, <1>4, <2>1
  <2>3. "~" \in ToSet(u)
    BY <1>5, <2>2
  <2> QED
    BY <1>1, <2>3 DEF IsWord
<1>7. CASE Shaped(currentToken, s)
  <2>1. s[1] = d /\ \A k \in 2 .. n : s[k] # d
    BY <1>7 DEF Shaped, n
  <2>2. u[1] = d
    BY <1>3, <1>4, <2>1
  <2>3. mid \in Seq(Chars) /\ \A x \in ToSet(mid) : x # d
    <3>1. Len(u) - 1 = n /\ 2 \in Int /\ n \in Int /\ \A k \in 2 .. n : u[k] \in Chars
      BY <1>3, <1>4
    <3>2. mid = SubSeq(u, 2, n)
      BY <3>1
    <3>3. /\ SubSeq(u, 2, n) \in Seq(Chars)
          /\ Len(SubSeq(u, 2, n)) = IF 2 <= n THEN n - 2 + 1 ELSE 0
          /\ \A k \in 1 .. n - 2 + 1 : SubSeq(u, 2, n)[k] = u[2 + k - 1]
      BY <3>1, SubSeqProperties
    <3> HIDE DEF mid
    <3>4. Len(mid) = IF 2 <= n THEN n - 1 ELSE 0
      <4> DEFINE l == Len(mid)
      <4>1. l = IF 2 <= n THEN n - 2 + 1 ELSE 0
        BY <3>2, <3>3
      <4> HIDE DEF l
      <4>2. l = IF 2 <= n THEN n - 1 ELSE 0
        BY <1>3, <4>1
      <4> QED
        BY <4>2 DEF l
    <3>5. ASSUME NEW k \in 1 .. Len(mid) PROVE mid[k] # d
      <4>1. k \in 1 .. n - 2 + 1 /\ 2 + k - 1 = k + 1 /\ k + 1 \in 2 .. n /\ k + 1 \in 1 .. n
        BY <1>3, <3>4
      <4>2. mid[k] = u[k + 1]
        BY <3>2, <3>3, <4>1
      <4>3. u[k + 1] = s[k + 1] /\ s[k + 1] # d
        BY <1>4, <2>1, <4>1
      <4> QED
        BY <4>2, <4>3
    <3>6. mid \in Seq(Chars)
      BY <3>2, <3>3
    <3>7. ToSet(mid) = {mid[k] : k \in 1 .. Len(mid)}
      BY <3>6, InSeq
    <3> QED
      BY <3>5, <3>6, <3>7
  <2>4. u[1] \notin ToSet(mid) /\ Len(u) > 1 /\ u[1] = Last(u)
    BY <1>3, <1>4, <1>5, <2>2, <2>3
  <2> QED
    BY <1>1, <1>2, <2>4 DEF IsWord, Quoting
<1> QED
  BY <1>6, <1>7

-----------------------------------------------------------------------------
(***************************************************************************)
(* tokenize keeps the invariant                                            *)
(***************************************************************************)
LEMMA NextChar ==
  ASSUME Typed, Tokenizing, i' = i + 1, UNCHANGED <<program, file>>
  PROVE  /\ rawFile' = rawFile
         /\ lastChar' = char
         /\ i' <= Len(rawFile) => char' = nextChar
<1>1. i \in 1 .. Len(rawFile) /\ Len(rawFile) \in Nat \ {0} /\ char = rawFile[i]
  BY Raw, CharIs
<1>2. program' = program /\ file' = file
  OBVIOUS
<1>3. rawFile' = rawFile
  BY <1>2 DEF rawFile
<1>4. i' # 1 /\ i' - 1 = i
  BY <1>1
<1> HIDE DEF rawFile
<1>5. lastChar' = rawFile'[i' - 1]
  BY <1>4 DEF lastChar
<1>6. lastChar' = char
  BY <1>1, <1>3, <1>4, <1>5
<1>7. ASSUME i' <= Len(rawFile) PROVE char' = nextChar
  <2>1. i < Len(rawFile)
    BY <1>1, <1>7
  <2>2. nextChar = rawFile[i + 1]
    BY <2>1 DEF nextChar
  <2>3. char' = rawFile'[i']
    BY DEF char
  <2> QED
    BY <1>3, <2>2, <2>3
<1> QED
  BY <1>3, <1>6, <1>7

\* The file stays within its bounds.
LEMMA TokenizingTyped ==
  ASSUME Typed, Placed, Tokenizing, i' \in {i, i + 1}, Joined,
         currentToken' \in TokenTypes \cup {"Nothing"}, tokenContent' \in Seq(Chars),
         tokens' \in Seq(Tokens), read' \in Seq(Chars)
  PROVE  Typed' /\ Placed' /\ Joins'
<1>1. i \in 1 .. Len(rawFile) /\ Len(rawFile) \in Nat \ {0}
  BY Raw, CharIs
<1>2. /\ program' = program /\ file' = file /\ startIndex' = startIndex /\ phase' = phase
      /\ multiLineComment' = multiLineComment /\ unjoined' = unjoined /\ result' = result
      /\ phase = "tokenize"
  BY DEF Joined, Tokenizing
<1>3. rawFile' = rawFile
  BY <1>2 DEF rawFile
<1> HIDE DEF rawFile
<1>4. i' \in Nat \ {0} /\ i' <= Len(rawFile) + 1
  BY <1>1
<1>5. Typed'
  BY <1>2, <1>4 DEF Typed
<1>6. Placed'
  BY <1>2, <1>3, <1>4 DEF Placed
<1>7. Joins'
  BY <1>2 DEF Joins
<1> QED
  BY <1>5, <1>6, <1>7

LEMMA SkipInv ==
  ASSUME TokenizerInv, Skip
  PROVE  TokenizerInv'
<1>1. Typed /\ Placed /\ ReadAsKept /\ Building /\ Worded
  BY DEF TokenizerInv
<1>2. /\ Tokenizing /\ currentToken = "Nothing" /\ i' = i + 1 /\ Joined
      /\ currentToken' = currentToken /\ tokenContent' = tokenContent
      /\ tokens' = tokens /\ read' = read
      /\ \A type \in TokenTypes : char \notin tokenStarts[type]
  BY DEF Skip
<1>3. program' = program /\ file' = file /\ phase' = phase /\ unjoined' = unjoined
  BY <1>2 DEF Joined
<1>4. Typed' /\ Placed' /\ Joins'
  BY <1>1, <1>2, TokenizingTyped DEF Typed
<1>5. ReadAsKept'
  <2>1. char = " "
    BY <1>1, <1>2, CharIs, StartOf
  <2>2. KeptRead' = KeepChar(KeptRead, char)
    BY <1>1, <1>2, <1>3, ReadOne
  <2>3. KeptRead.quote = ""
    BY <1>1, <1>2 DEF ReadAsKept, QuoteOf
  <2>4. KeptRead' = KeptRead
    BY <2>1, <2>2, <2>3 DEF KeepChar
  <2> QED
    BY <1>1, <1>2, <2>4 DEF ReadAsKept
<1>6. Building'
  BY <1>1, <1>2 DEF Building
<1>7. Worded'
  BY <1>1, <1>2, <1>3 DEF Worded
<1> QED
  BY <1>4, <1>5, <1>6, <1>7 DEF TokenizerInv

LEMMA StartTokenInv ==
  ASSUME TokenizerInv, StartToken
  PROVE  TokenizerInv'
<1>1. Typed /\ Placed /\ ReadAsKept /\ Building /\ Worded
  BY DEF TokenizerInv
<1>2. /\ Tokenizing /\ currentToken = "Nothing" /\ i' = i + 1 /\ Joined
      /\ tokenContent' = tokenContent \o <<char>>
      /\ tokens' = tokens /\ read' = read
      /\ currentToken' \in TokenTypes /\ char \in tokenStarts[currentToken']
  BY DEF StartToken
<1>3. program' = program /\ file' = file /\ phase' = phase /\ unjoined' = unjoined
  BY <1>2 DEF Joined
<1>4. char \in Chars
  BY <1>1, <1>2, CharIs
<1> DEFINE c == char
           s == <<c>>
<1>5. tokenContent = <<>>
  BY <1>1, <1>2 DEF Building
<1>6. tokenContent' = s /\ s \in Seq(Chars) /\ Len(s) = 1 /\ s[1] = c /\ s # <<>>
  BY <1>2, <1>4, <1>5
<1> HIDE DEF s, c
<1>a. c = char
  BY DEF c
<1>7. Typed' /\ Placed' /\ Joins'
  BY <1>1, <1>2, <1>6, TokenizingTyped DEF Typed
<1>8. /\ c # " "
      /\ currentToken' = "String" <=> c = "\""
      /\ currentToken' = "Character" <=> c = "'"
      /\ currentToken' = "Integer" => c = "0"
  BY <1>2, <1>4, <1>a, StartOf
<1>9. ReadAsKept'
  <2>1. KeptRead' = KeepChar(KeptRead, c) /\ KeptRead \in KeptRecords
    BY <1>1, <1>2, <1>3, <1>a, ReadOne, KeptReadType
  <2>2. KeptRead.quote = "" /\ read \o tokenContent = KeptRead.text
    BY <1>1, <1>2 DEF ReadAsKept, QuoteOf
  <2>3. KeepChar(KeptRead, c).text = KeptRead.text \o s
    BY <1>4, <1>8, <1>a, <2>1, KeepCharDoes DEF s
  <2>4. KeepChar(KeptRead, c).quote = IF c \in Quotes THEN c ELSE ""
    BY <1>4, <1>8, <1>a, <2>1, <2>2, KeepCharDoes
  <2>5. read' \o tokenContent' = KeptRead'.text
    <3>1. read \in Seq(Chars)
      BY <1>1 DEF Typed
    <3>2. read \o <<>> = read
      BY <3>1, ConcatEmptySeq
    <3>3. KeptRead.text = read
      BY <1>5, <2>2, <3>2
    <3> QED
      BY <1>2, <1>6, <2>1, <2>3, <3>3
  <2>6. KeptRead'.quote = QuoteOf(currentToken')
    BY <1>8, <2>1, <2>4 DEF QuoteOf, Quotes
  <2> QED
    BY <2>5, <2>6 DEF ReadAsKept
<1>10. Building'
  <2>1. Shaped(currentToken', s)
    BY <1>2, <1>4, <1>a, StartsShaped DEF s
  <2>2. lastChar' = c
    BY <1>1, <1>2, <1>3, <1>a, NextChar
  <2>3. Last(s) = c
    BY <1>6 DEF Last
  <2>4. currentToken' # "Nothing"
    BY <1>2, TokenTypesAre
  <2>5. currentToken' = "Integer" => lastChar' # "."
    BY <1>8, <2>2
  <2>6. phase' = "tokenize"
    BY <1>2, <1>3 DEF Tokenizing
  <2>7. Tilde(tokenContent') \/ Shaped(currentToken', tokenContent')
    BY <1>6, <2>1
  <2> QED
    BY <1>6, <2>2, <2>3, <2>4, <2>5, <2>6, <2>7 DEF Building
<1>11. Worded'
  BY <1>1, <1>2, <1>3 DEF Worded
<1> QED
  BY <1>7, <1>9, <1>10, <1>11 DEF TokenizerInv

LEMMA AddToTokenInv ==
  ASSUME TokenizerInv, AddToToken
  PROVE  TokenizerInv'
<1>1. Typed /\ Placed /\ ReadAsKept /\ Building /\ Worded
  BY DEF TokenizerInv
<1>2. /\ Tokenizing /\ currentToken # "Nothing" /\ ~Ends /\ i' = i + 1 /\ Joined
      /\ tokenContent' = tokenContent \o <<char>>
      /\ currentToken' = currentToken /\ tokens' = tokens /\ read' = read
  BY DEF AddToToken
<1>3. program' = program /\ file' = file /\ phase' = phase /\ unjoined' = unjoined
  BY <1>2 DEF Joined
<1> DEFINE c == char
           s == tokenContent
           type == currentToken
<1>4. c \in Chars /\ s \in Seq(Chars) /\ type \in TokenTypes /\ s # <<>> /\ s \in Seq(Chars)
  BY <1>1, <1>2, CharIs DEF Typed, Building
<1>5. phase = "tokenize" /\ Last(s) = lastChar /\ (Tilde(s) \/ Shaped(type, s))
  BY <1>1, <1>2 DEF Building, Tokenizing
<1>6. type = "Integer" /\ Last(s) = "." => c # "."
  BY <1>1, <1>2, <1>5 DEF Building, Tokenizing
<1>7. /\ ~(c \in tokenEscapes[type] /\ ~(<<Last(s), c>> \in tokenEscapeCancels))
      /\ ~(type = "Integer" /\ c = "." /\ nextChar = ".")
  BY <1>2, <1>5 DEF Ends, Forced, Cancelled
<1> HIDE DEF c, s, type
<1>a. c = char /\ s = tokenContent /\ type = currentToken
  BY DEF c, s, type
<1>8. s \o <<c>> \in Seq(Chars) /\ Len(s \o <<c>>) = Len(s) + 1 /\ (s \o <<c>>)[Len(s) + 1] = c
  BY <1>4, Concat
<1>9. Typed' /\ Placed' /\ Joins'
  <2>1. tokenContent' \in Seq(Chars)
    BY <1>2, <1>8, <1>a
  <2> QED
    BY <1>1, <1>2, <2>1, TokenizingTyped DEF Typed
<1>10. ReadAsKept'
  <2>1. KeptRead' = KeepChar(KeptRead, c) /\ KeptRead \in KeptRecords
    BY <1>1, <1>2, <1>3, <1>a, ReadOne, KeptReadType
  <2>2. KeptRead.quote = QuoteOf(type) /\ read \o s = KeptRead.text
    BY <1>1, <1>a DEF ReadAsKept
  <2>3. /\ type = "String" => c # "\""
        /\ type = "Character" => c # "'"
        /\ type \notin Quoting => c # " " /\ c \notin Quotes
    BY <1>4, <1>7, GoesOn
  <2>4. QuoteOf(type) # "" \/ c # " "
    BY <2>3 DEF QuoteOf, Quoting
  <2>5. KeepChar(KeptRead, c).text = KeptRead.text \o <<c>>
    BY <1>4, <2>1, <2>2, <2>4, KeepCharDoes
  <2>6. KeepChar(KeptRead, c).quote = QuoteOf(type)
    <3>1. CASE QuoteOf(type) = ""
      <4>1. c \notin Quotes
        BY <2>3, <3>1 DEF QuoteOf, Quoting
      <4> QED
        BY <1>4, <2>1, <2>2, <2>4, <3>1, <4>1, KeepCharDoes
    <3>2. CASE QuoteOf(type) # ""
      <4>1. c # QuoteOf(type)
        BY <2>3, <3>2 DEF QuoteOf
      <4> QED
        BY <1>4, <2>1, <2>2, <3>2, <4>1, KeepCharDoes
    <3> QED
      BY <3>1, <3>2
  <2>7. read' \o tokenContent' = KeptRead'.text
    <3>1. read \in Seq(Chars) /\ <<c>> \in Seq(Chars)
      BY <1>1, <1>4 DEF Typed
    <3>2. read \o (s \o <<c>>) = (read \o s) \o <<c>>
      BY <1>4, <3>1, ReadAssociative
    <3> QED
      BY <1>2, <1>a, <2>1, <2>2, <2>5, <3>2
  <2> QED
    BY <1>2, <1>a, <2>1, <2>6, <2>7 DEF ReadAsKept
<1>11. Building'
  <2>1. Tilde(s \o <<c>>) \/ Shaped(type, s \o <<c>>)
    BY <1>4, <1>5, <1>6, <1>7, GoesOnShaped
  <2>2. lastChar' = c /\ rawFile' = rawFile /\ (i' <= Len(rawFile) => char' = nextChar)
    BY <1>1, <1>2, <1>3, <1>a, NextChar
  <2>3. Last(s \o <<c>>) = c
    BY <1>8 DEF Last
  <2>4. s \o <<c>> # <<>>
    <3>1. Len(s) \in Nat
      BY <1>4
    <3> QED
      BY <1>8, <3>1
  <2>5. type = "Integer" /\ c = "." /\ i' <= Len(rawFile') => char' # "."
    BY <1>7, <2>2
  <2>6. phase' = "tokenize"
    BY <1>2, <1>3 DEF Tokenizing
  <2>7. tokenContent' = s \o <<c>> /\ currentToken' = type /\ type # "Nothing"
    BY <1>2, <1>a
  <2> QED
    BY <2>1, <2>2, <2>3, <2>4, <2>5, <2>6, <2>7 DEF Building
<1>12. Worded'
  BY <1>1, <1>2, <1>3 DEF Worded
<1> QED
  BY <1>9, <1>10, <1>11, <1>12 DEF TokenizerInv

LEMMA Pushed ==
  ASSUME NEW ts \in Seq(Tokens), NEW t \in Tokens, NEW us, us = ts \o <<t>>
  PROVE  /\ us \in Seq(Tokens)
         /\ \A k \in 1 .. Len(us) : us[k] = t \/ (k \in 1 .. Len(ts) /\ us[k] = ts[k])
<1>1. /\ us \in Seq(Tokens) /\ Len(us) = Len(ts) + 1 /\ us[Len(ts) + 1] = t
      /\ \A k \in 1 .. Len(ts) : us[k] = ts[k]
  BY Concat
<1> DEFINE n == Len(ts)
<1>2. n \in Nat
  OBVIOUS
<1> HIDE DEF n
<1>3. \A k \in 1 .. n + 1 : k = n + 1 \/ k \in 1 .. n
  BY <1>2
<1> QED
  BY <1>1, <1>3 DEF n

\* A token that is pushed is a word, and is read.
LEMMA PushTokenInv ==
  ASSUME TokenizerInv, Tokenizing, currentToken # "Nothing", NEW content \in Seq(Chars),
         PushToken(content), i' \in {i, i + 1}, IsWord(Token(content, SwappedType(content))),
         read \o content = KeptRead'.text, KeptRead'.quote = ""
  PROVE  TokenizerInv'
<1>1. Typed /\ Placed /\ Worded
  BY DEF TokenizerInv
<1> DEFINE type == SwappedType(content)
           t == Token(content, type)
<1>2. /\ tokens' = tokens \o <<t>> /\ read' = read \o content
      /\ currentToken' = "Nothing" /\ tokenContent' = <<>> /\ Joined
  BY DEF PushToken
<1>3. program' = program /\ file' = file /\ phase' = phase /\ unjoined' = unjoined /\ phase = "tokenize"
  BY <1>2 DEF Joined, Tokenizing
<1>4. type \in AllTypes /\ type # "Comment"
  BY <1>1, Swapped DEF Typed
<1>5. t \in Tokens /\ t.type = type /\ IsWord(t)
  BY <1>4, TokenType
<1> HIDE DEF t, type
<1>6. tokens \in Seq(Tokens) /\ read \in Seq(Chars)
  BY <1>1 DEF Typed
<1>7. /\ tokens' \in Seq(Tokens)
      /\ \A k \in 1 .. Len(tokens') : tokens'[k] = t \/ (k \in 1 .. Len(tokens) /\ tokens'[k] = tokens[k])
  BY <1>2, <1>5, <1>6, Pushed
<1>8. read \o content \in Seq(Chars) /\ <<>> \in Seq(Chars)
  BY <1>6, ConcatProperties, EmptySeq
<1>9. Typed' /\ Placed' /\ Joins'
  BY <1>1, <1>2, <1>7, <1>8, TokenizingTyped
<1>10. ReadAsKept'
  <2>1. (read \o content) \o <<>> = read \o content
    BY <1>8, ConcatEmptySeq
  <2>2. read' \o tokenContent' = KeptRead'.text
    BY <1>2, <2>1
  <2> QED
    BY <1>2, <2>2 DEF ReadAsKept, QuoteOf
<1>11. Building'
  BY <1>2 DEF Building
<1>12. Worded'
  <2>1. \A k \in 1 .. Len(tokens) : IsWord(tokens[k]) /\ tokens[k].type # "Comment"
    BY <1>1, <1>3 DEF Worded
  <2>2. \A k \in 1 .. Len(tokens') : IsWord(tokens'[k]) /\ tokens'[k].type # "Comment"
    BY <1>4, <1>5, <1>7, <2>1
  <2> QED
    BY <1>3, <2>2 DEF Worded
<1> QED
  BY <1>9, <1>10, <1>11, <1>12 DEF TokenizerInv

LEMMA EndQuoteInv ==
  ASSUME TokenizerInv, EndQuote
  PROVE  TokenizerInv'
<1>1. Typed /\ Placed /\ ReadAsKept /\ Building
  BY DEF TokenizerInv
<1>2. /\ Tokenizing /\ currentToken \in Quoting /\ Ends /\ i' = i + 1
      /\ PushToken(tokenContent \o <<char>>)
  BY DEF EndQuote
<1>3. program' = program /\ file' = file /\ phase' = phase
  BY <1>2 DEF PushToken, Joined
<1> DEFINE c == char
           s == tokenContent
<1>4. currentToken # "Nothing" /\ currentToken # "Integer" /\ currentToken \in TokenTypes
  BY <1>2, TokenTypesAre DEF Quoting
<1>5. c \in Chars /\ s \in Seq(Chars) /\ s # <<>> /\ (Tilde(s) \/ Shaped(currentToken, s))
  BY <1>1, <1>2, <1>4, CharIs DEF Typed, Building
<1>6. c = QuoteOf(currentToken) /\ QuoteOf(currentToken) # ""
  <2>1. c \in tokenEscapes[currentToken]
    BY <1>2, <1>4 DEF Ends, Forced
  <2> HIDE DEF c
  <2>2. c = IF currentToken = "String" THEN "\"" ELSE "'"
    BY <1>2, <2>1, QuoteEnds
  <2> QED
    BY <1>2, <2>2 DEF Quoting, QuoteOf
<1>a. c = char /\ s = tokenContent
  OBVIOUS
<1> HIDE DEF c, s
<1>7. s \o <<c>> \in Seq(Chars)
  BY <1>5, Concat
<1>8. IsWord(Token(s \o <<c>>, SwappedType(s \o <<c>>)))
  BY <1>2, <1>5, <1>6, QuoteIsWord
<1>9. KeptRead' = KeepChar(KeptRead, c) /\ KeptRead \in KeptRecords
  BY <1>1, <1>2, <1>3, <1>a, ReadOne, KeptReadType
<1>10. KeptRead.quote = QuoteOf(currentToken) /\ read \o s = KeptRead.text
  BY <1>1, <1>a DEF ReadAsKept
<1>11. KeptRead'.text = KeptRead.text \o <<c>> /\ KeptRead'.quote = ""
  BY <1>5, <1>6, <1>9, <1>10, KeepCharDoes
<1>12. read \o (s \o <<c>>) = KeptRead'.text
  <2>1. read \in Seq(Chars) /\ <<c>> \in Seq(Chars)
    BY <1>1, <1>5 DEF Typed
  <2>2. read \o (s \o <<c>>) = (read \o s) \o <<c>>
    BY <1>5, <2>1, ReadAssociative
  <2> QED
    BY <1>10, <1>11, <2>2
<1> QED
  BY <1>2, <1>4, <1>7, <1>8, <1>11, <1>12, <1>a, PushTokenInv

LEMMA EndWordInv ==
  ASSUME TokenizerInv, EndWord
  PROVE  TokenizerInv'
<1>1. Typed /\ Placed /\ ReadAsKept /\ Building
  BY DEF TokenizerInv
<1>2. /\ Tokenizing /\ currentToken \notin Quoting \cup {"Nothing"} /\ i' = i
      /\ PushToken(tokenContent)
  BY DEF EndWord
<1>3. program' = program /\ file' = file /\ phase' = phase
  BY <1>2 DEF PushToken, Joined
<1>4. currentToken # "Nothing" /\ currentToken \in TokenTypes \ Quoting
  BY <1>1, <1>2 DEF Typed
<1>5. /\ tokenContent \in Seq(Chars) /\ tokenContent # <<>>
      /\ Tilde(tokenContent) \/ Shaped(currentToken, tokenContent)
  BY <1>1, <1>4 DEF Typed, Building
<1>6. IsWord(Token(tokenContent, SwappedType(tokenContent)))
  BY <1>4, <1>5, EndedIsWord
<1>7. KeptRead' = KeptRead
  BY <1>1, <1>2, <1>3, ReadNone
<1>8. KeptRead.quote = "" /\ read \o tokenContent = KeptRead.text
  BY <1>1, <1>4 DEF ReadAsKept, QuoteOf, Quoting
<1> QED
  BY <1>2, <1>4, <1>5, <1>6, <1>7, <1>8, PushTokenInv

-----------------------------------------------------------------------------
(***************************************************************************)
(* The end of a file                                                       *)
(***************************************************************************)
LEMMA LabelledIs ==
  ASSUME NEW t \in Tokens, IsWord(t), t.type # "Comment"
  PROVE  Labelled(t) \in Tokens /\ IsWord(Labelled(t)) /\ Labelled(t).type # "Comment"
<1>1. t.content \in Seq(Chars) /\ "SubToken" \in AllTypes
  BY TokenFields DEF AllTypes
<1> DEFINE u == Token(t.content, "SubToken")
<1>2. u \in Tokens /\ u.type = "SubToken"
  BY <1>1, TokenType
<1> HIDE DEF u
<1>3. IsWord(u)
  BY <1>2 DEF IsWord, Quoting
<1>4. Labelled(t) = u \/ Labelled(t) = t
  BY DEF Labelled, u
<1> QED
  BY <1>2, <1>3, <1>4

\* A token in front of others.
LEMMA InFront ==
  ASSUME NEW t \in Tokens, NEW us \in Seq(Tokens), NEW ts, ts = <<t>> \o us
  PROVE  /\ ts \in Seq(Tokens)
         /\ Len(ts) = Len(us) + 1
         /\ ts[1] = t
         /\ \A k \in 2 .. Len(ts) : ts[k] = us[k - 1]
<1> DEFINE s == <<t>>
           n == Len(us)
<1>1. s \in Seq(Tokens) /\ Len(s) = 1 /\ s[1] = t /\ n \in Nat
  OBVIOUS
<1> HIDE DEF s
<1>2. /\ s \o us \in Seq(Tokens) /\ Len(s \o us) = Len(s) + Len(us)
      /\ \A k \in 1 .. Len(s) + Len(us) : (s \o us)[k] = IF k <= Len(s) THEN s[k] ELSE us[k - Len(s)]
  BY <1>1, ConcatProperties
<1>3. ts = s \o us
  BY DEF s
<1> HIDE DEF n
<1>4. Len(ts) = n + 1 /\ ts \in Seq(Tokens)
  BY <1>1, <1>2, <1>3 DEF n
<1>5. \A k \in 1 .. n + 1 : ts[k] = IF k <= 1 THEN s[k] ELSE us[k - 1]
  BY <1>1, <1>2, <1>3 DEF n
<1>6. ts[1] = t
  <2>1. 1 \in 1 .. n + 1
    BY <1>1
  <2> QED
    BY <1>1, <1>5, <2>1
<1>7. ASSUME NEW k \in 2 .. n + 1 PROVE ts[k] = us[k - 1]
  <2>1. k \in 1 .. n + 1 /\ ~(k <= 1)
    BY <1>1
  <2> QED
    BY <1>5, <2>1
<1> QED
  BY <1>4, <1>6, <1>7 DEF n

LEMMA EndFileInv ==
  ASSUME TokenizerInv, EndFile
  PROVE  TokenizerInv'
<1>1. Typed /\ Placed /\ ReadAsKept /\ Building /\ Worded
  BY DEF TokenizerInv
<1> DEFINE n == Len(tokens)
           words == [k \in 1 .. n |-> Labelled(tokens[k])]
           end == Token(<<>>, "EndOfFile")
           nothing == Token(<<>>, "Nothing")
           u == words \o <<end>>
<1>2. /\ phase = "tokenize" /\ i > Len(rawFile) /\ phase' = "join" /\ i' = 1
      /\ tokens' = <<nothing>> \o u /\ unjoined' = u
      /\ program' = program /\ file' = file /\ currentToken' = currentToken
      /\ tokenContent' = tokenContent /\ startIndex' = startIndex
      /\ multiLineComment' = multiLineComment /\ read' = read /\ result' = result
  BY DEF EndFile
<1>3. /\ n \in Nat
      /\ \A k \in 1 .. n : tokens[k] \in Tokens /\ IsWord(tokens[k]) /\ tokens[k].type # "Comment"
  BY <1>1, <1>2 DEF Typed, Worded
<1>4. /\ end \in Tokens /\ end.content = <<>> /\ end.type = "EndOfFile"
      /\ nothing \in Tokens /\ nothing.type = "Nothing"
  <2>1. <<>> \in Seq(Chars)
    BY EmptySeq
  <2>2. "EndOfFile" \in AllTypes /\ "Nothing" \in AllTypes
    BY DEF AllTypes
  <2> QED
    BY <2>1, <2>2, TokenType
<1>5. IsWord(end)
  BY <1>4 DEF IsWord, Quoting
<1>6. /\ words \in Seq(Tokens) /\ Len(words) = n
      /\ \A k \in 1 .. n : IsWord(words[k]) /\ words[k].type # "Comment"
  <2>1. \A k \in 1 .. n : Labelled(tokens[k]) \in Tokens /\ IsWord(Labelled(tokens[k]))
                          /\ Labelled(tokens[k]).type # "Comment"
    BY <1>3, LabelledIs
  <2> HIDE DEF n
  <2> QED
    BY <1>3, <2>1
<1> HIDE DEF words, end, n, u, nothing
<1>7. u \in Seq(Tokens) /\ Len(u) = n + 1 /\ u[n + 1] = end
  BY <1>4, <1>6, Concat DEF u
<1>8. \A k \in 1 .. Len(u) : u[k] = end \/ (k \in 1 .. Len(words) /\ u[k] = words[k])
  BY <1>4, <1>6, Pushed DEF u
<1>9. \A k \in 1 .. Len(u) : IsWord(u[k]) /\ u[k].type # "Comment"
  BY <1>4, <1>5, <1>6, <1>8
<1>10. /\ tokens' \in Seq(Tokens) /\ Len(tokens') = Len(u) + 1 /\ tokens'[1] = nothing
       /\ \A k \in 2 .. Len(tokens') : tokens'[k] = u[k - 1]
  BY <1>2, <1>4, <1>7, InFront
<1>11. Typed'
  BY <1>1, <1>2, <1>7, <1>10 DEF Typed
<1>12. Placed'
  <2>1. startIndex = 0 /\ ~multiLineComment /\ Len(result) = file - 1
    BY <1>1, <1>2 DEF Placed, Typed
  <2>2. 1 <= Len(tokens')
    BY <1>3, <1>7, <1>10
  <2> QED
    BY <1>2, <2>1, <2>2 DEF Placed
<1>13. ReadAsKept'
  <2>1. KeptRead' = KeptRead
    BY <1>1, <1>2, ReadNone
  <2> QED
    BY <1>1, <1>2, <2>1 DEF ReadAsKept
<1>14. Building'
  <2>1. lastChar = "\n"
    <3>1. rawFile[Len(rawFile)] = "\n" /\ Len(rawFile) \in Nat \ {0}
      BY <1>1, Raw
    <3>2. i - 1 = Len(rawFile) /\ i # 1
      BY <1>1, <1>2, <3>1 DEF Typed, Placed
    <3> HIDE DEF rawFile
    <3> QED
      BY <3>1, <3>2 DEF lastChar
  <2>2. currentToken # "Nothing" => Last(tokenContent) = "\n"
    BY <1>1, <1>2, <2>1 DEF Building
  <2>3. phase' # "tokenize"
    BY <1>2
  <2> QED
    BY <1>1, <1>2, <2>2, <2>3 DEF Building
<1>15. Worded'
  BY <1>2, <1>9 DEF Worded
<1>16. Joins'
  <2>1. Through' = 0
    <3>1. Through' = Len(u) - (Len(tokens') - 1)
      BY <1>2 DEF Through
    <3> QED
      BY <1>3, <1>7, <1>10, <3>1
  <2>2. Stripped' = NothingStripped
    <3>1. Stripped' = Strip(u)[0]
      BY <1>2, <2>1 DEF Stripped
    <3> QED
      BY <1>7, <3>1, StripIs
  <2>3. NotComments(tokens')[1] = <<nothing>>
    <3> DEFINE ts == tokens'
    <3>1. ts \in Seq(Tokens) /\ 1 \in 1 .. Len(ts) /\ ts[1].type # "Comment" /\ 1 - 1 = 0
      BY <1>3, <1>4, <1>7, <1>10
    <3> HIDE DEF ts
    <3>2. NotComments(ts)[1] = NotComments(ts)[1 - 1] \o <<ts[1]>> /\ NotComments(ts)[0] = <<>>
      BY <3>1, NotCommentsIs
    <3>3. NotComments(ts)[1] = <<>> \o <<ts[1]>>
      BY <3>1, <3>2
    <3> DEFINE v == <<ts[1]>>
    <3>4. v \in Seq(Tokens)
      BY <3>1
    <3> HIDE DEF v
    <3>5. <<>> \o v = v
      BY <3>4, ConcatEmptySeq
    <3> QED
      BY <1>10, <3>3, <3>5 DEF ts, v
  <2>4. StrippedAlike'
    <3>1. ~Stripped'.after /\ Stripped'.in = "" /\ Stripped'.kept = <<>>
      BY <2>2 DEF NothingStripped
    <3>2. startIndex' = 0
      BY <1>1, <1>2 DEF Placed
    <3> DEFINE v == <<nothing>>
    <3>3. v \in Seq(Tokens)
      BY <1>4
    <3> HIDE DEF v
    <3>4. v \o <<>> = v
      BY <3>3, ConcatEmptySeq
    <3> QED
      BY <1>2, <2>3, <3>1, <3>2, <3>4 DEF StrippedAlike, v, nothing
  <2>5. \A k \in i' + 1 .. Len(tokens') : tokens'[k] = unjoined'[k + Len(unjoined') - Len(tokens')]
    <3>1. i' + 1 = 2
      BY <1>2
    <3>2. ASSUME NEW k \in 2 .. Len(tokens') PROVE k + Len(u) - Len(tokens') = k - 1
      BY <1>3, <1>7, <1>10
    <3> QED
      BY <1>2, <1>10, <3>1, <3>2
  <2>6. Len(u) > 0 /\ u[Len(u)].content = <<>> /\ Through' \in 0 .. Len(u)
    BY <1>3, <1>4, <1>7, <2>1
  <2> QED
    BY <1>2, <2>4, <2>5, <2>6 DEF Joins
<1> QED
  BY <1>11, <1>12, <1>13, <1>14, <1>15, <1>16 DEF TokenizerInv

-----------------------------------------------------------------------------
(***************************************************************************)
(* joinCommentTokens and removeCommentTokens keep the invariant            *)
(***************************************************************************)
\* The next token is the next of unjoined.
LEMMA Ahead ==
  ASSUME TokenizerInv, Joining
  PROVE  LET t == tokens[i + 1] IN
         /\ i + 1 \in 1 .. Len(tokens)
         /\ Through \in Nat
         /\ Through + 1 \in 1 .. Len(unjoined)
         /\ t \in Tokens
         /\ t = unjoined[Through + 1]
         /\ t.type # "Comment"
         /\ Stripped \in StripRecords
         /\ Strip(unjoined)[Through + 1] = StripToken(Stripped, t)
<1> DEFINE n == Len(tokens)
           m == Len(unjoined)
           j == Through
           t == tokens[i + 1]
<1>1. /\ phase = "join" /\ i < n /\ n \in Nat /\ m \in Nat /\ i \in Nat \ {0}
      /\ tokens \in Seq(Tokens) /\ unjoined \in Seq(Tokens)
  BY DEF TokenizerInv, Typed, Joining
<1>2. /\ j \in 0 .. m
      /\ \A k \in i + 1 .. n : tokens[k] = unjoined[k + m - n]
      /\ \A k \in 1 .. m : unjoined[k].type # "Comment"
  BY <1>1 DEF TokenizerInv, Joins, Worded
<1>3. j = m - (n - i)
  BY DEF Through
<1> HIDE DEF j, m, n
<1>4. i + 1 \in 1 .. n /\ i + 1 \in i + 1 .. n /\ j \in Nat /\ j + 1 \in 1 .. m /\ i + 1 + m - n = j + 1
  BY <1>1, <1>2, <1>3
<1>5. t = unjoined[j + 1]
  BY <1>2, <1>4
<1>6. t \in Tokens /\ t.type # "Comment"
  BY <1>1, <1>2, <1>4, <1>5 DEF n
<1>7. /\ Strip(unjoined) \in [0 .. m -> StripRecords]
      /\ \A k \in 1 .. m : Strip(unjoined)[k] = StripToken(Strip(unjoined)[k - 1], unjoined[k])
  BY <1>1, StripIs DEF m
<1>8. Stripped = Strip(unjoined)[j]
  BY DEF Stripped, j
<1>9. Stripped \in StripRecords
  BY <1>2, <1>7, <1>8
<1>10. Strip(unjoined)[j + 1] = StripToken(Stripped, t)
  <2> DEFINE k == j + 1
  <2>1. k \in 1 .. m /\ k - 1 = j
    BY <1>4
  <2> HIDE DEF k
  <2>2. Strip(unjoined)[k] = StripToken(Strip(unjoined)[k - 1], unjoined[k])
    BY <1>7, <2>1
  <2> QED
    BY <1>5, <1>8, <2>1, <2>2 DEF k
<1> QED
  BY <1>4, <1>5, <1>6, <1>9, <1>10 DEF j, m, n

LEMMA AdjacentStays ==
  ASSUME NEW s \in StripRecords, NEW t, s.adjacent
  PROVE  StripToken(s, t).adjacent
<1> DEFINE closes == s.in = "line" /\ t.type = "EndOfLine"
           ends == s.in = "block" /\ BeginsWith(t, "*", "/")
           opens == s.in = "" /\ Opens(t)
           plain == s.in = "" /\ ~Opens(t)
<1>a. CASE closes
  BY <1>a DEF StripToken
<1>b. CASE ends
  BY <1>b DEF StripToken
<1>c. CASE opens
  BY <1>c DEF StripToken
<1>d. CASE plain
  BY <1>d DEF StripToken
<1>e. CASE ~closes /\ ~ends /\ ~opens /\ ~plain
  BY <1>e DEF StripToken
<1> QED
  BY <1>a, <1>b, <1>c, <1>d, <1>e

\* What is not about comments is left alone.
LEMMA JoiningKeeps ==
  ASSUME TokenizerInv, Joining, Tokenized, tokens' \in Seq(Tokens), i' \in Nat \ {0},
         startIndex' \in Nat, multiLineComment' \in BOOLEAN,
         i' <= Len(tokens'), startIndex' <= i', multiLineComment' => startIndex' # 0
  PROVE  Typed' /\ Placed' /\ ReadAsKept' /\ Building' /\ Worded'
<1>1. Typed /\ Placed /\ ReadAsKept /\ Building /\ Worded /\ phase = "join"
  BY DEF TokenizerInv, Joining
<1>2. /\ program' = program /\ file' = file /\ currentToken' = currentToken
      /\ tokenContent' = tokenContent /\ phase' = phase /\ read' = read
      /\ unjoined' = unjoined /\ result' = result
  BY DEF Tokenized
<1>3. Typed'
  BY <1>1, <1>2 DEF Typed
<1>4. Placed'
  BY <1>1, <1>2 DEF Placed
<1>5. ReadAsKept'
  <2>1. KeptRead' = KeptRead
    BY <1>1, <1>2, ReadNone
  <2> QED
    BY <1>1, <1>2, <2>1 DEF ReadAsKept
<1>6. Building'
  BY <1>1, <1>2 DEF Building
<1>7. Worded'
  BY <1>1, <1>2 DEF Worded
<1> QED
  BY <1>3, <1>4, <1>5, <1>6, <1>7

\* One more token of those that are not removed, and one that is.
LEMMA NextLeft ==
  ASSUME NEW ts \in Seq(Tokens), NEW k \in Nat, k + 1 \in 1 .. Len(ts), ts[k + 1].type # "Comment"
  PROVE  NotComments(ts)[k + 1] = NotComments(ts)[k] \o <<ts[k + 1]>>
<1> DEFINE n == k + 1
<1>1. n \in 1 .. Len(ts) /\ n - 1 = k /\ ts[n].type # "Comment"
  OBVIOUS
<1> HIDE DEF n
<1>2. NotComments(ts)[n] = NotComments(ts)[n - 1] \o <<ts[n]>>
  BY <1>1, NotCommentsIs
<1> QED
  BY <1>1, <1>2 DEF n

LEMMA NextRemoved ==
  ASSUME NEW ts \in Seq(Tokens), NEW k \in Nat, k + 1 \in 1 .. Len(ts), ts[k + 1].type = "Comment"
  PROVE  NotComments(ts)[k + 1] = NotComments(ts)[k]
<1> DEFINE n == k + 1
<1>1. n \in 1 .. Len(ts) /\ n - 1 = k /\ ts[n].type = "Comment"
  OBVIOUS
<1> HIDE DEF n
<1>2. NotComments(ts)[n] = NotComments(ts)[n - 1]
  BY <1>1, NotCommentsIs
<1> QED
  BY <1>1, <1>2 DEF n

LEMMA NothingToken == <<Token(<<>>, "Nothing")>> \in Seq(Tokens)
<1>1. <<>> \in Seq(Chars) /\ "Nothing" \in AllTypes
  BY EmptySeq DEF AllTypes
<1>2. Token(<<>>, "Nothing") \in Tokens
  BY <1>1, TokenType
<1> QED
  BY <1>2

LEMMA TokensAssociative ==
  ASSUME NEW s \in Seq(Tokens), NEW t \in Seq(Tokens), NEW u \in Seq(Tokens)
  PROVE  s \o (t \o u) = (s \o t) \o u
BY ConcatAssociative

LEMMA OneMore ==
  ASSUME NEW s \in StripRecords, NEW t \in Tokens
  PROVE  <<Token(<<>>, "Nothing")>> \o (s.kept \o <<t>>) = (<<Token(<<>>, "Nothing")>> \o s.kept) \o <<t>>
<1> DEFINE N == <<Token(<<>>, "Nothing")>>
           v == <<t>>
           kept == s.kept
<1>1. N \in Seq(Tokens)
  BY NothingToken
<1>2. kept \in Seq(Tokens)
  BY StripFields
<1>3. v \in Seq(Tokens)
  OBVIOUS
<1> HIDE DEF N, v, kept
<1>4. N \o (kept \o v) = (N \o kept) \o v
  BY <1>1, <1>2, <1>3, TokensAssociative
<1> QED
  BY <1>4 DEF N, v, kept

LEMMA OutsideCommentInv ==
  ASSUME TokenizerInv, OutsideComment
  PROVE  TokenizerInv'
<1> DEFINE t == tokens[i + 1]
           j == Through
           N == <<Token(<<>>, "Nothing")>>
<1>1. Typed /\ Placed /\ Joins /\ phase = "join"
  BY DEF TokenizerInv, OutsideComment, Joining
<1>2. /\ Joining /\ startIndex = 0 /\ ~Opens(t) /\ i' = i + 1 /\ Tokenized
      /\ tokens' = tokens /\ startIndex' = startIndex /\ multiLineComment' = multiLineComment
      /\ unjoined' = unjoined /\ phase' = phase
  BY DEF OutsideComment, Tokenized
<1>3. /\ i + 1 \in 1 .. Len(tokens) /\ j \in Nat /\ j + 1 \in 1 .. Len(unjoined)
      /\ t \in Tokens /\ t.type # "Comment" /\ Stripped \in StripRecords
      /\ Strip(unjoined)[j + 1] = StripToken(Stripped, t)
  BY <1>2, Ahead
<1>4. tokens \in Seq(Tokens) /\ i \in Nat \ {0} /\ Len(tokens) \in Nat /\ Len(unjoined) \in Nat
  BY <1>1 DEF Typed
<1>5. Typed' /\ Placed' /\ ReadAsKept' /\ Building' /\ Worded'
  <2>1. i + 1 <= Len(tokens) /\ i + 1 \in Nat \ {0} /\ startIndex <= i + 1
    BY <1>2, <1>3, <1>4
  <2> QED
    BY <1>1, <1>2, <2>1, JoiningKeeps DEF Typed, Placed
<1>6. Through' = j + 1
  <2>1. Through' = Len(unjoined) - (Len(tokens) - (i + 1)) /\ j = Len(unjoined) - (Len(tokens) - i)
    BY <1>2 DEF Through
  <2> HIDE DEF j
  <2> QED
    BY <1>4, <2>1
<1>7. Stripped' = StripToken(Stripped, t)
  BY <1>2, <1>3, <1>6 DEF Stripped
<1> HIDE DEF t, j, N
<1>8. Stripped'.adjacent \/ StrippedAlike'
  <2>1. CASE Stripped.adjacent
    BY <1>3, <1>7, <2>1, AdjacentStays
  <2>2. CASE StrippedAlike
    <3>1. /\ ~Stripped.after /\ Stripped.in = ""
          /\ NotComments(tokens)[i] = N \o Stripped.kept
      BY <1>2, <2>2 DEF StrippedAlike, N
    <3>2. Stripped' = [in |-> "", kept |-> Stripped.kept \o <<t>>, after |-> FALSE, adjacent |-> Stripped.adjacent]
      BY <1>2, <1>7, <3>1 DEF StripToken, t
    <3>3. ~Stripped'.after /\ Stripped'.in = "" /\ Stripped'.kept = Stripped.kept \o <<t>>
      BY <3>2
    <3>4. NotComments(tokens)[i + 1] = NotComments(tokens)[i] \o <<t>>
      BY <1>3, <1>4, NextLeft DEF t
    <3>5. NotComments(tokens)[i + 1] = N \o (Stripped.kept \o <<t>>)
      <4>1. N \o (Stripped.kept \o <<t>>) = (N \o Stripped.kept) \o <<t>>
        BY <1>3, OneMore DEF N
      <4> QED
        BY <3>1, <3>4, <4>1
    <3> QED
      BY <1>2, <3>3, <3>5 DEF StrippedAlike, N
  <2> QED
    BY <1>1, <2>1, <2>2 DEF Joins
<1>9. Joins'
  <2>1. Through' \in 0 .. Len(unjoined)
    BY <1>3, <1>4, <1>6
  <2>2. ASSUME NEW k \in i + 2 .. Len(tokens) PROVE tokens[k] = unjoined[k + Len(unjoined) - Len(tokens)]
    <3>1. k \in i + 1 .. Len(tokens)
      BY <1>4
    <3> QED
      BY <1>1, <3>1 DEF Joins
  <2>3. i' + 1 = i + 2
    BY <1>2, <1>4
  <2> QED
    BY <1>1, <1>2, <1>8, <2>1, <2>2, <2>3 DEF Joins
<1> QED
  BY <1>5, <1>9 DEF TokenizerInv

LEMMA OpenCommentInv ==
  ASSUME TokenizerInv, OpenComment
  PROVE  TokenizerInv'
<1> DEFINE t == tokens[i + 1]
           j == Through
           N == <<Token(<<>>, "Nothing")>>
           comment == Token(t.content, "Comment")
           block == BeginsWith(t, "/", "*")
<1>1. Typed /\ Placed /\ Joins /\ phase = "join"
  BY DEF TokenizerInv, OpenComment, Joining
<1>2. /\ Joining /\ startIndex = 0 /\ Opens(t) /\ i' = i + 1 /\ Tokenized
      /\ startIndex' = i + 1 /\ multiLineComment' = block
      /\ tokens' = [tokens EXCEPT ![i + 1] = comment]
      /\ unjoined' = unjoined /\ phase' = phase
  BY DEF OpenComment, Tokenized
<1>3. /\ i + 1 \in 1 .. Len(tokens) /\ j \in Nat /\ j + 1 \in 1 .. Len(unjoined)
      /\ t \in Tokens /\ Stripped \in StripRecords
      /\ Strip(unjoined)[j + 1] = StripToken(Stripped, t)
  BY <1>2, Ahead
<1>4. tokens \in Seq(Tokens) /\ i \in Nat \ {0} /\ Len(tokens) \in Nat /\ Len(unjoined) \in Nat
  BY <1>1 DEF Typed
<1>5. comment \in Tokens /\ comment.type = "Comment"
  <2>1. t.content \in Seq(Chars) /\ "Comment" \in AllTypes
    BY <1>3, TokenFields DEF AllTypes
  <2> QED
    BY <2>1, TokenType
<1> HIDE DEF comment, block
<1>6. /\ tokens' \in Seq(Tokens) /\ Len(tokens') = Len(tokens) /\ tokens'[i + 1] = comment
      /\ \A k \in 1 .. Len(tokens) : k # i + 1 => tokens'[k] = tokens[k]
  BY <1>2, <1>3, <1>4, <1>5, ExceptSeq
<1>7. Typed' /\ Placed' /\ ReadAsKept' /\ Building' /\ Worded'
  <2>1. i + 1 <= Len(tokens) /\ i + 1 \in Nat \ {0} /\ i + 1 # 0 /\ i + 1 \in Nat /\ i + 1 <= i + 1
    BY <1>3, <1>4
  <2>2. multiLineComment' \in BOOLEAN
    BY <1>2 DEF block, BeginsWith, IsPrefix
  <2> QED
    BY <1>2, <1>6, <2>1, <2>2, JoiningKeeps
<1>8. Through' = j + 1
  <2>1. Through' = Len(unjoined) - (Len(tokens) - (i + 1)) /\ j = Len(unjoined) - (Len(tokens) - i)
    BY <1>2, <1>6 DEF Through
  <2> HIDE DEF j
  <2> QED
    BY <1>4, <2>1
<1>9. Stripped' = StripToken(Stripped, t)
  BY <1>2, <1>3, <1>8 DEF Stripped
<1> HIDE DEF t, j, N
<1>10. Stripped'.adjacent \/ StrippedAlike'
  <2>1. CASE Stripped.adjacent
    BY <1>3, <1>9, <2>1, AdjacentStays
  <2>2. CASE StrippedAlike
    <3>1. /\ ~Stripped.after /\ Stripped.in = ""
          /\ NotComments(tokens)[i] = N \o Stripped.kept
      BY <1>2, <2>2 DEF StrippedAlike, N
    <3>2. Stripped' = [in |-> IF block THEN "block" ELSE "line", kept |-> Stripped.kept,
                       after |-> FALSE, adjacent |-> Stripped.adjacent \/ Stripped.after]
      BY <1>2, <1>9, <3>1 DEF StripToken, block, t
    <3>3. ~Stripped'.after /\ Stripped'.in = (IF block THEN "block" ELSE "line") /\ Stripped'.kept = Stripped.kept
      BY <3>2
    <3>4. NotComments(tokens')[i + 1] = NotComments(tokens')[i]
      <4>1. tokens'[i + 1].type = "Comment" /\ i + 1 \in 1 .. Len(tokens')
        BY <1>3, <1>5, <1>6
      <4> QED
        BY <1>4, <1>6, <4>1, NextRemoved
    <3>5. NotComments(tokens')[i] = NotComments(tokens)[i]
      <4>1. i \in Nat /\ i <= Len(tokens') /\ i <= Len(tokens)
        BY <1>3, <1>4, <1>6
      <4>2. ASSUME NEW k \in 1 .. i PROVE tokens'[k] = tokens[k]
        <5>1. k \in 1 .. Len(tokens) /\ k # i + 1
          BY <1>3, <1>4
        <5> QED
          BY <1>6, <5>1
      <4> QED
        BY <1>4, <1>6, <4>1, <4>2, NotCommentsAgree
    <3>6. startIndex' # 0
      BY <1>2, <1>4
    <3> QED
      BY <1>2, <3>1, <3>3, <3>4, <3>5, <3>6 DEF StrippedAlike, N
  <2> QED
    BY <1>1, <2>1, <2>2 DEF Joins
<1>11. Joins'
  <2>1. Through' \in 0 .. Len(unjoined)
    BY <1>3, <1>4, <1>8
  <2>2. ASSUME NEW k \in i + 2 .. Len(tokens) PROVE tokens'[k] = unjoined[k + Len(unjoined) - Len(tokens)]
    <3>1. k \in i + 1 .. Len(tokens) /\ k \in 1 .. Len(tokens) /\ k # i + 1
      BY <1>4
    <3>2. tokens[k] = unjoined[k + Len(unjoined) - Len(tokens)]
      BY <1>1, <3>1 DEF Joins
    <3> QED
      BY <1>6, <3>1, <3>2
  <2>3. i' + 1 = i + 2
    BY <1>2, <1>4
  <2> QED
    BY <1>1, <1>2, <1>6, <1>10, <2>1, <2>2, <2>3 DEF Joins
<1> QED
  BY <1>7, <1>11 DEF TokenizerInv

LEMMA InsideCommentInv ==
  ASSUME TokenizerInv, InsideComment
  PROVE  TokenizerInv'
<1> DEFINE t == tokens[i + 1]
           j == Through
<1>1. Typed /\ Placed /\ Joins /\ phase = "join"
  BY DEF TokenizerInv, InsideComment, Joining
<1>2. /\ Joining /\ startIndex # 0 /\ ~EndsComment(t) /\ i' = i + 1 /\ Tokenized
      /\ tokens' = tokens /\ startIndex' = startIndex /\ multiLineComment' = multiLineComment
      /\ unjoined' = unjoined /\ phase' = phase
  BY DEF InsideComment, Tokenized
<1>3. /\ i + 1 \in 1 .. Len(tokens) /\ j \in Nat /\ j + 1 \in 1 .. Len(unjoined)
      /\ Stripped \in StripRecords
      /\ Strip(unjoined)[j + 1] = StripToken(Stripped, t)
  BY <1>2, Ahead
<1>4. tokens \in Seq(Tokens) /\ i \in Nat \ {0} /\ Len(tokens) \in Nat /\ Len(unjoined) \in Nat
  BY <1>1 DEF Typed
<1>5. Typed' /\ Placed' /\ ReadAsKept' /\ Building' /\ Worded'
  <2>1. i + 1 <= Len(tokens) /\ i + 1 \in Nat \ {0} /\ startIndex <= i + 1
    BY <1>1, <1>3, <1>4 DEF Typed, Placed
  <2> QED
    BY <1>1, <1>2, <2>1, JoiningKeeps DEF Typed, Placed
<1>6. Through' = j + 1
  <2>1. Through' = Len(unjoined) - (Len(tokens) - (i + 1)) /\ j = Len(unjoined) - (Len(tokens) - i)
    BY <1>2 DEF Through
  <2> HIDE DEF j
  <2> QED
    BY <1>4, <2>1
<1>7. Stripped' = StripToken(Stripped, t)
  BY <1>2, <1>3, <1>6 DEF Stripped
<1> HIDE DEF t, j
<1>8. Stripped'.adjacent \/ StrippedAlike'
  <2>1. CASE Stripped.adjacent
    BY <1>3, <1>7, <2>1, AdjacentStays
  <2>2. CASE StrippedAlike
    <3>1. Stripped.in = IF multiLineComment THEN "block" ELSE "line"
      BY <1>2, <2>2 DEF StrippedAlike
    <3>2. IF multiLineComment THEN ~BeginsWith(t, "*", "/") ELSE t.type # "EndOfLine"
      BY <1>2 DEF EndsComment
    <3>3. StripToken(Stripped, t) = Stripped
      BY <3>1, <3>2 DEF StripToken
    <3> QED
      BY <1>2, <1>7, <2>2, <3>3 DEF StrippedAlike
  <2> QED
    BY <1>1, <2>1, <2>2 DEF Joins
<1>9. Joins'
  <2>1. Through' \in 0 .. Len(unjoined)
    BY <1>3, <1>4, <1>6
  <2>2. ASSUME NEW k \in i + 2 .. Len(tokens) PROVE tokens[k] = unjoined[k + Len(unjoined) - Len(tokens)]
    <3>1. k \in i + 1 .. Len(tokens)
      BY <1>4
    <3> QED
      BY <1>1, <3>1 DEF Joins
  <2>3. i' + 1 = i + 2
    BY <1>2, <1>4
  <2> QED
    BY <1>1, <1>2, <1>8, <2>1, <2>2, <2>3 DEF Joins
<1> QED
  BY <1>5, <1>9 DEF TokenizerInv

\* What CloseComment leaves: the first p tokens, and those from f on.
LEMMA Spliced ==
  ASSUME NEW ts \in Seq(Tokens), NEW p \in 1 .. Len(ts), NEW f \in 1 .. Len(ts), NEW us,
         us = SubSeq(ts, 1, p) \o SubSeq(ts, f, Len(ts))
  PROVE  /\ us \in Seq(Tokens)
         /\ Len(us) = p + (Len(ts) - f + 1)
         /\ \A k \in 1 .. p : us[k] = ts[k]
         /\ \A k \in p + 1 .. Len(us) : us[k] = ts[k - p + f - 1]
<1> DEFINE n == Len(ts)
           v == SubSeq(ts, 1, p)
           w == SubSeq(ts, f, n)
<1>1. n \in Nat /\ p \in 1 .. n /\ f \in 1 .. n /\ \A k \in 1 .. n : ts[k] \in Tokens
  OBVIOUS
<1>a. us = v \o w
  OBVIOUS
<1> HIDE DEF n
<1>2. v \in Seq(Tokens) /\ Len(v) = p /\ \A k \in 1 .. p : v[k] = ts[k]
  <2>1. 1 \in Int /\ p \in Int /\ 1 <= p /\ \A k \in 1 .. p : ts[k] \in Tokens
    BY <1>1
  <2>2. v \in Seq(Tokens)
    BY <2>1, SubSeqProperties
  <2>3. Len(v) = IF 1 <= p THEN p - 1 + 1 ELSE 0
    BY <2>1, SubSeqProperties
  <2>4. \A k \in 1 .. p - 1 + 1 : v[k] = ts[1 + k - 1]
    BY <2>1, SubSeqProperties
  <2> HIDE DEF v
  <2>5. p - 1 + 1 = p /\ \A k \in 1 .. p : 1 + k - 1 = k
    BY <1>1
  <2> QED
    BY <2>1, <2>2, <2>3, <2>4, <2>5
<1>3. w \in Seq(Tokens) /\ Len(w) = n - f + 1 /\ \A k \in 1 .. n - f + 1 : w[k] = ts[f + k - 1]
  <2>1. f \in Int /\ n \in Int /\ f <= n /\ \A k \in f .. n : ts[k] \in Tokens
    BY <1>1
  <2>2. /\ w \in Seq(Tokens)
        /\ Len(w) = IF f <= n THEN n - f + 1 ELSE 0
        /\ \A k \in 1 .. n - f + 1 : w[k] = ts[f + k - 1]
    BY <2>1, SubSeqProperties
  <2> HIDE DEF w
  <2> QED
    BY <2>1, <2>2
<1> HIDE DEF v, w
<1>4. /\ us \in Seq(Tokens) /\ Len(us) = Len(v) + Len(w)
      /\ \A k \in 1 .. Len(v) + Len(w) : us[k] = IF k <= Len(v) THEN v[k] ELSE w[k - Len(v)]
  <2>1. /\ v \o w \in Seq(Tokens) /\ Len(v \o w) = Len(v) + Len(w)
        /\ \A k \in 1 .. Len(v) + Len(w) : (v \o w)[k] = IF k <= Len(v) THEN v[k] ELSE w[k - Len(v)]
    BY <1>2, <1>3, ConcatProperties
  <2> QED
    BY <1>a, <2>1
<1>5. Len(us) = p + (n - f + 1)
  BY <1>2, <1>3, <1>4
<1>6. ASSUME NEW k \in 1 .. p PROVE us[k] = ts[k]
  <2>1. k \in 1 .. p + (n - f + 1) /\ k <= p
    BY <1>1
  <2>2. us[k] = v[k]
    BY <1>2, <1>3, <1>4, <2>1
  <2> QED
    BY <1>2, <2>2
<1>7. ASSUME NEW k \in p + 1 .. Len(us) PROVE us[k] = ts[k - p + f - 1]
  <2>1. k \in 1 .. p + (n - f + 1) /\ ~(k <= p) /\ k - p \in 1 .. n - f + 1 /\ f + (k - p) - 1 = k - p + f - 1
    BY <1>1, <1>5
  <2>2. us[k] = w[k - p]
    BY <1>2, <1>3, <1>4, <2>1
  <2>3. w[k - p] = ts[f + (k - p) - 1]
    BY <1>3, <2>1
  <2> QED
    BY <2>1, <2>2, <2>3
<1> QED
  BY <1>4, <1>5, <1>6, <1>7 DEF n

\* The end of the file ends no block.
LEMMA EndIsAhead ==
  ASSUME TokenizerInv, Joining, BeginsWith(tokens[i + 1], "*", "/")
  PROVE  i + 2 <= Len(tokens)
<1>1. /\ phase = "join" /\ i < Len(tokens) /\ Len(tokens) \in Nat /\ Len(unjoined) \in Nat /\ i \in Nat
      /\ unjoined[Len(unjoined)].content = <<>>
      /\ \A k \in i + 1 .. Len(tokens) : tokens[k] = unjoined[k + Len(unjoined) - Len(tokens)]
  BY DEF TokenizerInv, Typed, Joining, Joins
<1>2. SUFFICES ASSUME i + 1 = Len(tokens) PROVE FALSE
  BY <1>1
<1>3. Len(tokens) \in i + 1 .. Len(tokens) /\ Len(tokens) + Len(unjoined) - Len(tokens) = Len(unjoined)
  BY <1>1, <1>2
<1>4. tokens[i + 1].content = <<>>
  BY <1>1, <1>2, <1>3
<1>5. ~BeginsWith(tokens[i + 1], "*", "/")
  <2>1. Len(<<"*", "/">>) = 2 /\ Len(<<>>) = 0
    OBVIOUS
  <2>2. ~IsPrefix(<<"*", "/">>, <<>>)
    BY <2>1 DEF IsPrefix
  <2> QED
    BY <1>4, <2>2 DEF BeginsWith
<1> QED
  BY <1>5

LEMMA CloseCommentInv ==
  ASSUME TokenizerInv, CloseComment
  PROVE  TokenizerInv'
<1> DEFINE t == tokens[i + 1]
           j == Through
           N == <<Token(<<>>, "Nothing")>>
           p == startIndex
           f == FirstKept
           n == Len(tokens)
           m == Len(unjoined)
           d == IF multiLineComment THEN 2 ELSE 1
<1>1. Typed /\ Placed /\ Joins /\ Worded /\ phase = "join"
  BY DEF TokenizerInv, CloseComment, Joining
<1>2. /\ Joining /\ p # 0 /\ EndsComment(t) /\ i' = p + 1 /\ Tokenized
      /\ tokens' = SubSeq(tokens, 1, p) \o SubSeq(tokens, f, n)
      /\ startIndex' = 0 /\ multiLineComment' = FALSE
      /\ unjoined' = unjoined /\ phase' = phase
  BY DEF CloseComment, Tokenized
<1>3. /\ i + 1 \in 1 .. n /\ j \in Nat /\ j + 1 \in 1 .. m
      /\ t \in Tokens /\ t.type # "Comment" /\ Stripped \in StripRecords
      /\ Strip(unjoined)[j + 1] = StripToken(Stripped, t) /\ t = unjoined[j + 1]
  BY <1>2, Ahead
<1>4. /\ tokens \in Seq(Tokens) /\ unjoined \in Seq(Tokens) /\ i \in Nat \ {0} /\ n \in Nat /\ m \in Nat
      /\ p \in 1 .. i /\ p \in 1 .. n
  BY <1>1, <1>2, <1>3 DEF Typed, Placed
<1>5. j = m - (n - i) /\ Through' = m - (Len(tokens') - (p + 1))
  BY <1>2 DEF Through
<1>6. f = i + d /\ d \in {1, 2} /\ (d = 2 <=> multiLineComment)
  BY <1>1 DEF FirstKept, Typed
<1>7. f \in 1 .. n
  <2>1. multiLineComment => i + 2 <= n
    BY <1>2, EndIsAhead DEF EndsComment
  <2> HIDE DEF f, n, d
  <2>2. d = 2 => i + 2 <= n
    BY <1>6, <2>1
  <2> QED
    BY <1>3, <1>4, <1>6, <2>2
<1>8. /\ tokens' \in Seq(Tokens)
      /\ Len(tokens') = p + (n - f + 1)
      /\ \A k \in 1 .. p : tokens'[k] = tokens[k]
      /\ \A k \in p + 1 .. Len(tokens') : tokens'[k] = tokens[k - p + f - 1]
  BY <1>2, <1>4, <1>7, Spliced
<1>9. /\ \A k \in i + 1 .. n : tokens[k] = unjoined[k + m - n]
      /\ Stripped.adjacent \/ StrippedAlike
  BY <1>1 DEF Joins
<1> HIDE DEF t, j, N, p, f, n, m, d
<1>10. p + 1 <= Len(tokens') /\ p + 1 \in Nat \ {0} /\ p + 1 \in p + 1 .. Len(tokens') /\ p \in Nat
  BY <1>4, <1>7, <1>8
<1>11. Typed' /\ Placed' /\ ReadAsKept' /\ Building' /\ Worded'
  <2>1. 0 \in Nat /\ FALSE \in BOOLEAN /\ 0 <= p + 1
    BY <1>4
  <2> QED
    BY <1>2, <1>8, <1>10, <2>1, JoiningKeeps
<1>12. Through' = j + d /\ j + d \in 1 .. m
  BY <1>3, <1>4, <1>5, <1>6, <1>7, <1>8
<1> DEFINE x == tokens[f]
<1>13. /\ f \in i + 1 .. n /\ f + m - n = j + d
       /\ x \in Tokens /\ x = unjoined[j + d] /\ x.type # "Comment"
       /\ tokens'[p + 1] = x
  <2>1. f \in i + 1 .. n /\ f + m - n = j + d
    BY <1>3, <1>4, <1>5, <1>6, <1>7
  <2>2. x = unjoined[j + d]
    BY <1>9, <2>1
  <2>3. x \in Tokens
    BY <1>4, <1>7 DEF n
  <2>4. unjoined[j + d].type # "Comment"
    BY <1>1, <1>12 DEF Worded, m
  <2>5. p + 1 - p + f - 1 = f
    BY <1>4, <1>7
  <2> HIDE DEF x
  <2>6. tokens'[p + 1] = x
    <3>1. tokens'[p + 1] = tokens[p + 1 - p + f - 1]
      BY <1>8, <1>10
    <3> QED
      BY <2>5, <3>1 DEF x
  <2> QED
    BY <2>1, <2>2, <2>3, <2>4, <2>6
<1>14. /\ d = 1 => x = t /\ Stripped' = StripToken(Stripped, t)
       /\ d = 2 => /\ Stripped' = StripToken(StripToken(Stripped, t), x)
                   /\ StripToken(Stripped, t) \in StripRecords
  <2>1. Stripped' = Strip(unjoined)[j + d]
    BY <1>2, <1>12 DEF Stripped
  <2>2. CASE d = 1
    BY <1>3, <1>13, <2>1, <2>2
  <2>3. CASE d = 2
    <3> DEFINE k == j + 2
    <3>1. k \in 1 .. m /\ k - 1 = j + 1
      BY <1>3, <1>12, <2>3
    <3> HIDE DEF k
    <3>2. Strip(unjoined)[k] = StripToken(Strip(unjoined)[k - 1], unjoined[k])
      BY <1>4, <3>1, StripIs DEF m
    <3>3. unjoined[k] = x
      BY <1>13, <2>3 DEF k
    <3>4. StripToken(Stripped, t) \in StripRecords
      BY <1>3, StripTokenType
    <3>5. Stripped' = Strip(unjoined)[k]
      BY <2>1, <2>3 DEF k
    <3> QED
      BY <1>3, <2>3, <3>1, <3>2, <3>3, <3>4, <3>5
  <2> QED
    BY <1>6, <2>2, <2>3
<1> HIDE DEF x
<1>15. Stripped'.adjacent \/ StrippedAlike'
  <2>1. CASE Stripped.adjacent
    <3>1. StripToken(Stripped, t).adjacent
      BY <1>3, <2>1, AdjacentStays
    <3>2. d = 2 => StripToken(StripToken(Stripped, t), x).adjacent
      BY <1>14, <3>1, AdjacentStays
    <3> QED
      BY <1>6, <1>14, <3>1, <3>2
  <2>2. CASE StrippedAlike
    <3>1. /\ ~Stripped.after /\ Stripped.in = IF multiLineComment THEN "block" ELSE "line"
          /\ NotComments(tokens)[p] = N \o Stripped.kept
      BY <1>2, <2>2 DEF StrippedAlike, N, p
    <3>2. NotComments(tokens')[p + 1] = (N \o Stripped.kept) \o <<x>>
      <4>1. NotComments(tokens')[p + 1] = NotComments(tokens')[p] \o <<x>>
        <5>1. p + 1 \in 1 .. Len(tokens') /\ tokens'[p + 1].type # "Comment"
          BY <1>4, <1>10, <1>13
        <5> QED
          BY <1>8, <1>10, <1>13, <5>1, NextLeft
      <4>2. NotComments(tokens')[p] = NotComments(tokens)[p]
        <5>1. p \in Nat /\ p <= Len(tokens') /\ p <= Len(tokens)
          BY <1>4, <1>10, <1>8 DEF n
        <5> QED
          BY <1>4, <1>8, <5>1, NotCommentsAgree
      <4> QED
        BY <3>1, <4>1, <4>2
    <3>3. (N \o Stripped.kept) \o <<x>> = N \o (Stripped.kept \o <<x>>)
      BY <1>3, <1>13, OneMore DEF N
    <3>4. SUFFICES ASSUME ~Stripped'.adjacent
                   PROVE  ~Stripped'.after /\ Stripped'.in = "" /\ Stripped'.kept = Stripped.kept \o <<x>>
      <4>1. startIndex' = 0 /\ i' = p + 1
        BY <1>2
      <4> QED
        BY <3>2, <3>3, <4>1 DEF StrippedAlike, N
    <3>5. CASE d = 1
      <4>1. t.type = "EndOfLine" /\ Stripped.in = "line"
        BY <1>2, <1>6, <3>1, <3>5 DEF EndsComment
      <4>2. Stripped' = [in |-> "", kept |-> Stripped.kept \o <<t>>, after |-> FALSE, adjacent |-> Stripped.adjacent]
        BY <1>14, <3>5, <4>1 DEF StripToken
      <4> QED
        BY <1>14, <3>5, <4>2
    <3>6. CASE d = 2
      <4> DEFINE s == StripToken(Stripped, t)
      <4>1. BeginsWith(t, "*", "/") /\ Stripped.in = "block"
        BY <1>2, <1>6, <3>1, <3>6 DEF EndsComment
      <4>2. s = [in |-> "", kept |-> Stripped.kept, after |-> TRUE, adjacent |-> Stripped.adjacent]
        BY <4>1 DEF StripToken
      <4>3. Stripped' = StripToken(s, x)
        BY <1>14, <3>6
      <4> HIDE DEF s
      <4>4. s.in = "" /\ s.kept = Stripped.kept /\ s.after
        BY <4>2
      <4>5. CASE Opens(x)
        <5>1. Stripped'.adjacent
          BY <4>3, <4>4, <4>5 DEF StripToken
        <5> QED
          BY <3>4, <5>1
      <4>6. CASE ~Opens(x)
        BY <4>3, <4>4, <4>6 DEF StripToken
      <4> QED
        BY <4>5, <4>6
    <3> QED
      BY <1>6, <3>5, <3>6
  <2> QED
    BY <1>9, <2>1, <2>2
<1>16. Joins'
  <2>1. Through' \in 0 .. m
    BY <1>4, <1>12
  <2>2. ASSUME NEW k \in p + 2 .. Len(tokens') PROVE tokens'[k] = unjoined[k + m - Len(tokens')]
    <3> DEFINE l == k - p + f - 1
    <3>1. k \in p + 1 .. Len(tokens') /\ l \in i + 1 .. n /\ l + m - n = k + m - Len(tokens')
      BY <1>4, <1>7, <1>8, <1>13
    <3> HIDE DEF l
    <3>2. tokens'[k] = tokens[l]
      BY <1>8, <3>1 DEF l
    <3> QED
      BY <1>9, <3>1, <3>2
  <2>3. i' + 1 = p + 2
    BY <1>2, <1>10
  <2>4. m > 0 /\ unjoined[m].content = <<>>
    BY <1>1 DEF Joins, m
  <2> QED
    BY <1>2, <1>15, <2>1, <2>2, <2>3, <2>4 DEF Joins, m
<1> QED
  BY <1>11, <1>16 DEF TokenizerInv

LEMMA RemoveCommentsInv ==
  ASSUME TokenizerInv, RemoveComments
  PROVE  TokenizerInv'
<1> DEFINE left == NotComments(tokens)[Len(tokens)]
<1>1. Typed /\ Placed /\ ReadAsKept /\ Building
  BY DEF TokenizerInv
<1>2. /\ phase = "join" /\ i = Len(tokens) /\ result' = result \o <<left>>
      /\ tokens' = <<>> /\ startIndex' = 0 /\ multiLineComment' = FALSE /\ i' = 1
      /\ program' = program /\ currentToken' = currentToken /\ tokenContent' = tokenContent
      /\ read' = read /\ unjoined' = unjoined
      /\ \/ file < Len(program) /\ phase' = "tokenize" /\ file' = file + 1
         \/ ~(file < Len(program)) /\ phase' = "done" /\ file' = file
  BY DEF RemoveComments
<1>3. left \in Seq(Tokens)
  <2> DEFINE n == Len(tokens)
  <2>1. tokens \in Seq(Tokens) /\ n \in 0 .. Len(tokens)
    BY <1>1 DEF Typed
  <2>2. NotComments(tokens) \in [0 .. Len(tokens) -> Seq(Tokens)]
    BY <2>1, NotCommentsIs
  <2> QED
    BY <2>1, <2>2
<1> HIDE DEF left
<1>4. result' \in Seq(Seq(Tokens)) /\ Len(result') = Len(result) + 1
  <2>1. result \in Seq(Seq(Tokens))
    BY <1>1 DEF Typed
  <2> QED
    BY <1>2, <1>3, <2>1, Concat
<1>5. Typed'
  <2>1. program \in Seq(Seq(Chars)) /\ Len(program) \in Nat
    BY <1>1, Raw
  <2>2. file' \in 1 .. Len(program')
    BY <1>1, <1>2, <2>1 DEF Typed
  <2>3. phase' \in {"tokenize", "join", "done"}
    BY <1>2
  <2>4. tokens' \in Seq(Tokens)
    BY <1>2, EmptySeq
  <2>5. i' \in Nat \ {0} /\ startIndex' \in Nat
    BY <1>2
  <2>6. multiLineComment' \in BOOLEAN
    BY <1>2
  <2>7. /\ program' \in Programs /\ currentToken' \in TokenTypes \cup {"Nothing"}
        /\ tokenContent' \in Seq(Chars) /\ read' \in Seq(Chars) /\ unjoined' \in Seq(Tokens)
    BY <1>1, <1>2 DEF Typed
  <2> QED
    BY <1>4, <2>2, <2>3, <2>4, <2>5, <2>6, <2>7 DEF Typed
<1>6. Len(rawFile') \in Nat \ {0}
  <2>1. program \in Seq(Seq(Chars)) /\ file' \in 1 .. Len(program)
    BY <1>1, <1>2, <1>5, Raw DEF Typed
  <2>2. program[file'] \in Seq(Chars)
    BY <2>1
  <2>3. "\n" \in Chars
    BY DEF Chars
  <2> DEFINE s == program[file']
             raw == s \o <<"\n">>
  <2>4. rawFile' = raw
    BY <1>2 DEF rawFile
  <2>5. s \in Seq(Chars) /\ Len(s) \in Nat
    BY <2>2
  <2> HIDE DEF s
  <2>6. Len(raw) = Len(s) + 1
    BY <2>3, <2>5, Concat
  <2> HIDE DEF raw
  <2>7. Len(raw) \in Nat \ {0}
    BY <2>5, <2>6
  <2> QED
    BY <2>4, <2>7
<1>7. Placed'
  <2>1. Len(result) = file - 1 /\ file \in Nat
    <3>1. program \in Seq(Seq(Chars)) /\ Len(program) \in Nat
      BY <1>1, Raw
    <3> QED
      BY <1>1, <1>2, <3>1 DEF Placed, Typed
  <2>2. Len(result') = IF phase' = "done" THEN file' ELSE file' - 1
    BY <1>2, <1>4, <2>1
  <2>3. i' <= Len(rawFile') + 1
    BY <1>2, <1>6
  <2> QED
    BY <1>2, <2>2, <2>3 DEF Placed
<1>8. ReadAsKept'
  <2>1. KeptRead' = KeptRead
    BY <1>1, <1>2, ReadNone
  <2> QED
    BY <1>1, <1>2, <2>1 DEF ReadAsKept
<1>9. Building'
  <2>1. lastChar' = "\n"
    BY <1>2 DEF lastChar
  <2>2. currentToken # "Nothing" => Last(tokenContent) = "\n"
    BY <1>1, <1>2 DEF Building
  <2> QED
    BY <1>1, <1>2, <2>1, <2>2 DEF Building
<1>10. Worded'
  <2>1. Len(tokens') = 0 /\ phase' # "join"
    BY <1>2
  <2> QED
    BY <2>1 DEF Worded
<1>11. Joins'
  BY <1>2 DEF Joins
<1> QED
  BY <1>5, <1>7, <1>8, <1>9, <1>10, <1>11 DEF TokenizerInv

-----------------------------------------------------------------------------
(***************************************************************************)
(* The theorems                                                            *)
(***************************************************************************)
LEMMA InitInv ==
  ASSUME Init
  PROVE  TokenizerInv
<1>1. /\ program \in Programs /\ file = 1 /\ i = 1 /\ currentToken = "Nothing" /\ tokenContent = <<>>
      /\ tokens = <<>> /\ startIndex = 0 /\ multiLineComment = FALSE /\ phase = "tokenize"
      /\ read = <<>> /\ unjoined = <<>> /\ result = <<>>
  BY DEF Init
<1>2. program \in Seq(Seq(Chars)) /\ program # <<>>
  BY <1>1, ProgramsAssumption
<1>3. Typed
  <2>1. Len(program) \in Nat /\ Len(program) # 0
    BY <1>2
  <2>2. file \in 1 .. Len(program)
    BY <1>1, <2>1
  <2>3. tokenContent \in Seq(Chars) /\ read \in Seq(Chars)
    BY <1>1, EmptySeq
  <2>4. tokens \in Seq(Tokens) /\ unjoined \in Seq(Tokens)
    BY <1>1, EmptySeq
  <2>5. result \in Seq(Seq(Tokens))
    BY <1>1, EmptySeq
  <2>6. i \in Nat \ {0} /\ startIndex \in Nat
    BY <1>1
  <2>7. multiLineComment \in BOOLEAN
    BY <1>1
  <2>8. program \in Programs /\ currentToken \in TokenTypes \cup {"Nothing"}
    BY <1>1
  <2>9. phase \in {"tokenize", "join", "done"}
    BY <1>1
  <2> QED
    BY <2>2, <2>3, <2>4, <2>5, <2>6, <2>7, <2>8, <2>9 DEF Typed
<1>4. Placed
  <2>1. Len(rawFile) \in Nat \ {0}
    BY <1>3, Raw
  <2>2. Len(result) = 0 /\ file - 1 = 0
    <3>1. result = <<>> /\ file = 1
      BY <1>1
    <3>2. Len(<<>>) = 0
      OBVIOUS
    <3> QED
      BY <3>1, <3>2
  <2> HIDE DEF rawFile
  <2> QED
    BY <1>1, <2>1, <2>2 DEF Placed
<1>5. ReadAsKept
  <2>1. TextRead = <<>>
    <3>1. TextOf(program)[0] = <<>>
      BY <1>2, TextIs
    <3>2. SubSeq(rawFile, 1, i - 1) = <<>>
      <4>1. i - 1 \in Int /\ i - 1 < 1
        BY <1>1
      <4> QED
        BY <4>1, SubSeqEmpty
    <3>3. file - 1 = 0
      BY <1>1
    <3>4. TextRead = <<>> \o <<>>
      BY <1>1, <3>1, <3>2, <3>3 DEF TextRead
    <3>5. <<>> \in Seq(Chars)
      BY EmptySeq
    <3> QED
      BY <3>4, <3>5, ConcatEmptySeq
  <2>2. Len(<<>>) = 0 /\ <<>> \in Seq(Chars)
    BY EmptySeq
  <2>3. KeptRead = NothingKept
    BY <2>1, <2>2, KeptIs DEF KeptRead
  <2>4. read \o tokenContent = <<>>
    BY <1>1, <2>2, ConcatEmptySeq
  <2> QED
    BY <1>1, <2>3, <2>4 DEF ReadAsKept, NothingKept, QuoteOf
<1>6. Building
  BY <1>1 DEF Building
<1>7. Worded
  <2>1. Len(tokens) = 0
    BY <1>1
  <2> QED
    BY <1>1, <2>1 DEF Worded
<1>8. Joins
  BY <1>1 DEF Joins
<1> QED
  BY <1>3, <1>4, <1>5, <1>6, <1>7, <1>8 DEF TokenizerInv

LEMMA StutterInv ==
  ASSUME TokenizerInv, UNCHANGED vars
  PROVE  TokenizerInv'
BY DEF TokenizerInv, vars, Typed, Placed, ReadAsKept, Building, Worded, Joins, KeptRead, TextRead,
       rawFile, lastChar, char, Through, Stripped, StrippedAlike

LEMMA NextInv ==
  ASSUME TokenizerInv, [Next]_vars
  PROVE  TokenizerInv'
<1>1. CASE Skip
  BY <1>1, SkipInv
<1>2. CASE StartToken
  BY <1>2, StartTokenInv
<1>3. CASE AddToToken
  BY <1>3, AddToTokenInv
<1>4. CASE EndQuote
  BY <1>4, EndQuoteInv
<1>5. CASE EndWord
  BY <1>5, EndWordInv
<1>6. CASE EndFile
  BY <1>6, EndFileInv
<1>7. CASE OutsideComment
  BY <1>7, OutsideCommentInv
<1>8. CASE OpenComment
  BY <1>8, OpenCommentInv
<1>9. CASE InsideComment
  BY <1>9, InsideCommentInv
<1>10. CASE CloseComment
  BY <1>10, CloseCommentInv
<1>11. CASE RemoveComments
  BY <1>11, RemoveCommentsInv
<1>12. CASE UNCHANGED vars
  BY <1>12, StutterInv
<1> QED
  BY <1>1, <1>2, <1>3, <1>4, <1>5, <1>6, <1>7, <1>8, <1>9, <1>10, <1>11, <1>12 DEF Next, Done

\* The invariant of the tokenizer, of which the properties below are consequences.
THEOREM TokenizerInvariant == Spec => []TokenizerInv
<1>1. Init => TokenizerInv
  BY InitInv
<1>2. TokenizerInv /\ [Next]_vars => TokenizerInv'
  BY NextInv
<1> QED
  BY <1>1, <1>2, PTL DEF Spec

LEMMA TypeOKOfInv ==
  ASSUME TokenizerInv
  PROVE  TypeOK
<1>1. Typed /\ Placed /\ Building /\ Worded
  BY DEF TokenizerInv
<1>2. Len(rawFile) \in Nat \ {0}
  BY <1>1, Raw
<1> HIDE DEF rawFile
<1>3. i \in 1 .. (IF phase = "join" THEN Len(tokens) ELSE Len(rawFile) + 1)
  <2>1. tokens \in Seq(Tokens) /\ Len(tokens) \in Nat
    BY <1>1 DEF Typed
  <2> QED
    BY <1>1, <1>2, <2>1 DEF Typed, Placed
<1>4. \A k \in 1 .. Len(tokens) : tokens[k].type \in AllTypes /\ tokens[k].content \in Seq(Chars)
  BY <1>1, TokenFields DEF Typed
<1>5. startIndex \in 0 .. Len(tokens)
  <2>1. tokens \in Seq(Tokens) /\ Len(tokens) \in Nat
    BY <1>1 DEF Typed
  <2> QED
    BY <1>1, <2>1 DEF Typed, Placed
<1>6. /\ phase = "tokenize" => \A k \in 1 .. Len(tokens) : IsWord(tokens[k])
      /\ phase = "join" => \A k \in 1 .. Len(unjoined) : IsWord(unjoined[k])
  BY <1>1 DEF Worded
<1>7. /\ file \in 1 .. Len(program)
      /\ currentToken \in TokenTypes \cup {"Nothing"}
      /\ tokenContent \in Seq(Chars)
      /\ phase \in {"tokenize", "join", "done"}
  BY <1>1 DEF Typed
<1>8. currentToken = "Nothing" <=> tokenContent = <<>>
  BY <1>1 DEF Building
<1>9. /\ multiLineComment => startIndex # 0
      /\ Len(result) = IF phase = "done" THEN file ELSE file - 1
  BY <1>1 DEF Placed
<1> QED
  BY <1>3, <1>4, <1>5, <1>6, <1>7, <1>8, <1>9 DEF TypeOK

\* The loops of tokenize and joinCommentTokens stay inside the file and the vector of
\* tokens, and every token looks as its type says, whatever the program.
THEOREM TokenizerTypeOK == Spec => []TypeOK
<1>1. TokenizerInv => TypeOK
  BY TypeOKOfInv
<1> QED
  BY <1>1, TokenizerInvariant, PTL

\* tokenize reads every character once: its tokens are the text without the blanks that
\* are not between quotes, and a quote is open when one is in the text.
THEOREM TokenizerLosesNothing == Spec => []NothingLost
<1>1. TokenizerInv => NothingLost
  <2> SUFFICES ASSUME TokenizerInv PROVE NothingLost
    OBVIOUS
  <2>1. ReadAsKept
    BY DEF TokenizerInv
  <2>2. currentToken \in Quoting <=> QuoteOf(currentToken) # ""
    BY DEF Quoting, QuoteOf
  <2> QED
    BY <2>1, <2>2 DEF ReadAsKept, KeptRead, NothingLost
<1> QED
  BY <1>1, TokenizerInvariant, PTL

LEMMA ResultStays ==
  ASSUME TokenizerInv, [Next]_vars, ~RemoveComments
  PROVE  result' = result
<1>1. CASE Next
  BY <1>1 DEF Next, Skip, StartToken, AddToToken, EndQuote, EndWord, EndFile, OutsideComment,
     OpenComment, InsideComment, CloseComment, PushToken, Joined, Tokenized, Done, vars
<1>2. CASE UNCHANGED vars
  BY <1>2 DEF vars
<1> QED
  BY <1>1, <1>2

LEMMA WhatIsLeft ==
  ASSUME TokenizerInv, RemoveComments
  PROVE  LET strip == Strip(unjoined)[Len(unjoined)] IN
         strip.in = "" /\ ~strip.adjacent => Last(result') = <<Token(<<>>, "Nothing")>> \o strip.kept
<1> DEFINE left == NotComments(tokens)[Len(tokens)]
           strip == Strip(unjoined)[Len(unjoined)]
<1>1. Typed /\ Joins /\ phase = "join" /\ i = Len(tokens) /\ result' = result \o <<left>>
  BY DEF TokenizerInv, RemoveComments
<1>2. Through = Len(unjoined)
  <2>1. Len(unjoined) \in Nat /\ Len(tokens) \in Nat
    BY <1>1 DEF Typed
  <2> QED
    BY <1>1, <2>1 DEF Through
<1>3. Stripped = strip
  BY <1>2 DEF Stripped
<1>4. left \in Seq(Tokens)
  <2> DEFINE n == Len(tokens)
  <2>1. tokens \in Seq(Tokens) /\ n \in 0 .. Len(tokens)
    BY <1>1 DEF Typed
  <2>2. NotComments(tokens) \in [0 .. Len(tokens) -> Seq(Tokens)]
    BY <2>1, NotCommentsIs
  <2> QED
    BY <2>1, <2>2
<1>5. Last(result') = left
  <2> DEFINE l == left
             r == result
  <2>1. r \in Seq(Seq(Tokens)) /\ l \in Seq(Tokens)
    BY <1>1, <1>4 DEF Typed
  <2> HIDE DEF l, r
  <2>2. r \o <<l>> \in Seq(Seq(Tokens)) /\ Len(r \o <<l>>) = Len(r) + 1 /\ (r \o <<l>>)[Len(r) + 1] = l
    BY <2>1, Concat
  <2>3. Last(r \o <<l>>) = l
    BY <2>2 DEF Last
  <2> QED
    BY <1>1, <2>3 DEF l, r
<1> HIDE DEF left, strip
<1>6. ASSUME strip.in = "", ~strip.adjacent
      PROVE  Last(result') = <<Token(<<>>, "Nothing")>> \o strip.kept
  <2>1. StrippedAlike
    BY <1>1, <1>3, <1>6 DEF Joins
  <2>2. startIndex = 0
    BY <1>3, <1>6, <2>1 DEF StrippedAlike
  <2>3. NotComments(tokens)[i] = <<Token(<<>>, "Nothing")>> \o Stripped.kept
    BY <2>1, <2>2 DEF StrippedAlike
  <2> QED
    BY <1>1, <1>3, <1>5, <2>3 DEF left
<1> QED
  BY <1>6 DEF strip

\* When every comment of a file ends and none begins right after another, joinCommentTokens
\* and removeCommentTokens remove the comments and leave every other token, in order.
THEOREM OnlyCommentsAreRemoved == Spec => OnlyCommentsRemoved
<1> DEFINE Left ==
      Len(result') > Len(result) =>
        LET strip == Strip(unjoined)[Len(unjoined)] IN
        strip.in = "" /\ ~strip.adjacent => Last(result') = <<Token(<<>>, "Nothing")>> \o strip.kept
<1>1. TokenizerInv /\ [Next]_vars => [Left]_vars
  <2> SUFFICES ASSUME TokenizerInv, [Next]_vars PROVE Left
    OBVIOUS
  <2>1. CASE RemoveComments
    BY <2>1, WhatIsLeft
  <2>2. CASE ~RemoveComments
    <3>1. result' = result
      BY <2>2, ResultStays
    <3>2. Len(result) \in Nat
      BY DEF TokenizerInv, Typed
    <3>3. ~(Len(result') > Len(result))
      BY <3>1, <3>2
    <3> QED
      BY <3>3
  <2> QED
    BY <2>1, <2>2
<1> HIDE DEF Left
<1>2. Spec => [][Left]_vars
  BY <1>1, TokenizerInvariant, PTL DEF Spec
<1> QED
  BY <1>2 DEF OnlyCommentsRemoved, Left

=============================================================================
