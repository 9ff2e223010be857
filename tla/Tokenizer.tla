------------------------------ MODULE Tokenizer ------------------------------
(***************************************************************************)
(* tokenize, labelSubTokens, joinCommentTokens and removeCommentTokens     *)
(* (src/src/tokenizer.cpp), one character and one token at a time, for the *)
(* files of a program one after the other: currentToken and tokenContent   *)
(* are globals, which no call of tokenize resets.                          *)
(*                                                                         *)
(* The characters are one of each kind that the tables tell apart.         *)
(***************************************************************************)
EXTENDS Integers, Sequences, SequencesExt

Chars == {"a", "0", ".", "=", "/", "*", "+", "-", "<", "~", ";", "\"", "'", " ", "\n"}

CONSTANT Programs   \* sequences of files, which are sequences of Chars
ASSUME ProgramsAssumption == Programs \subseteq Seq(Seq(Chars)) \ {<<>>}

Punctuations == {".", "=", "/", "*", "+", "-", "<", "~", ";"}
Quotes == {"\"", "'"}

tokenStarts ==
  [Identifier |-> {"a"}, Integer |-> {"0"}, String |-> {"\""}, Character |-> {"'"},
   Punctuation |-> Punctuations, EndOfLine |-> {"\n"}]

Quoting == {"String", "Character"}
TokenTypes == DOMAIN tokenStarts

\* The tilde ends no token.
Ending == {"=", "/", "*", "+", "-", "<", ";", " ", "\n"} \cup Quotes
tokenEscapes ==
  [Identifier |-> Ending \cup {"."}, Integer |-> Ending, String |-> {"\""}, Character |-> {"'"},
   Punctuation |-> Ending \cup {".", "a", "0"}, EndOfLine |-> Ending \cup {".", "a", "0"}]

tokenEscapeCancels ==
  ({"+", "-", "*", "~", "<", "="} \X {"="}) \cup ({"+", "-"} \X {"+", "-"}) \cup
  ({"/"} \X {"/", "*"}) \cup ({"*"} \X {"*", "/"}) \cup {<<".", ".">>, <<"~", "~">>}

subTokenTypes ==
  {<<c>> : c \in Punctuations} \cup
  {<<".", ".">>, <<".", ".", ".">>, <<"*", "*">>, <<"+", "=">>, <<"+", "+">>, <<"-", "=">>,
   <<"-", "-">>, <<"*", "=">>, <<"/", "=">>, <<"=", "=">>, <<"<", "=">>, <<"~", "~">>,
   <<"<", "-">>}

VARIABLES
  program,
  file,           \* the number of the file
  i,              \* the next character, or in joinCommentTokens the token before the next
  currentToken, tokenContent,
  tokens,         \* of this file
  startIndex,     \* of the comment, 0 outside of comments
  multiLineComment,
  phase,          \* "tokenize", "join" or "done"
  read,           \* history: the contents of all the tokens so far
  unjoined,       \* history: the tokens of this file before comments are removed
  result          \* the tokens of the files that are done

vars == <<program, file, i, currentToken, tokenContent, tokens, startIndex, multiLineComment,
          phase, read, unjoined, result>>

Token(content, type) == [content |-> content, type |-> type]

rawFile == program[file] \o <<"\n">>
char == rawFile[i]
lastChar == IF i = 1 THEN "\n" ELSE rawFile[i - 1]
nextChar == IF i < Len(rawFile) THEN rawFile[i + 1] ELSE ""

Init ==
  /\ program \in Programs
  /\ file = 1
  /\ i = 1
  /\ currentToken = "Nothing"
  /\ tokenContent = <<>>
  /\ tokens = <<>>
  /\ startIndex = 0
  /\ multiLineComment = FALSE
  /\ phase = "tokenize"
  /\ read = <<>>
  /\ unjoined = <<>>
  /\ result = <<>>

-----------------------------------------------------------------------------
(***************************************************************************)
(* tokenize                                                                *)
(***************************************************************************)
Tokenizing == phase = "tokenize" /\ i <= Len(rawFile)
Joined == UNCHANGED <<program, file, startIndex, multiLineComment, phase, unjoined, result>>

Skip ==
  /\ Tokenizing
  /\ currentToken = "Nothing"
  /\ \A type \in TokenTypes : char \notin tokenStarts[type]
  /\ i' = i + 1
  /\ Joined /\ UNCHANGED <<currentToken, tokenContent, tokens, read>>

StartToken ==
  /\ Tokenizing
  /\ currentToken = "Nothing"
  /\ \E type \in TokenTypes : char \in tokenStarts[type] /\ currentToken' = type
  /\ tokenContent' = tokenContent \o <<char>>
  /\ i' = i + 1
  /\ Joined /\ UNCHANGED <<tokens, read>>

Cancelled == <<lastChar, char>> \in tokenEscapeCancels

\* Mutant of Forced: a range is not looked for.
ForcedWithoutLookahead == FALSE

Forced == currentToken = "Integer" /\ char = "." /\ nextChar = "."
Ends == (char \in tokenEscapes[currentToken] /\ ~Cancelled) \/ Forced

AddToToken ==
  /\ Tokenizing
  /\ currentToken # "Nothing"
  /\ ~Ends
  /\ tokenContent' = tokenContent \o <<char>>
  /\ i' = i + 1
  /\ Joined /\ UNCHANGED <<currentToken, tokens, read>>

SwappedType(content) ==
  IF currentToken = "Integer" /\ "." \in ToSet(content) THEN "Float" ELSE currentToken

PushToken(content) ==
  /\ tokens' = tokens \o <<Token(content, SwappedType(content))>>
  /\ read' = read \o content
  /\ currentToken' = "Nothing"
  /\ tokenContent' = <<>>
  /\ Joined

EndQuote ==
  /\ Tokenizing
  /\ currentToken \in Quoting
  /\ Ends
  /\ i' = i + 1
  /\ PushToken(tokenContent \o <<char>>)

\* Mutant of EndWord: the first character of the next token is passed.
EndWordPastNext ==
  /\ Tokenizing
  /\ currentToken \notin Quoting \cup {"Nothing"}
  /\ Ends
  /\ i' = i + 1
  /\ PushToken(tokenContent)

\* The next token begins at char.
EndWord ==
  /\ Tokenizing
  /\ currentToken \notin Quoting \cup {"Nothing"}
  /\ Ends
  /\ i' = i
  /\ PushToken(tokenContent)

Labelled(token) ==
  IF token.content \in subTokenTypes THEN Token(token.content, "SubToken") ELSE token

\* The token that is building is left to the next file.
EndFile ==
  /\ phase = "tokenize"
  /\ i > Len(rawFile)
  /\ LET labelled == [k \in 1 .. Len(tokens) |-> Labelled(tokens[k])]
                       \o <<Token(<<>>, "EndOfFile")>> IN
       /\ tokens' = <<Token(<<>>, "Nothing")>> \o labelled
       /\ unjoined' = labelled
  /\ phase' = "join"
  /\ i' = 1
  /\ UNCHANGED <<program, file, currentToken, tokenContent, startIndex, multiLineComment, read, result>>

-----------------------------------------------------------------------------
(***************************************************************************)
(* joinCommentTokens and removeCommentTokens                               *)
(***************************************************************************)
BeginsWith(token, d, e) == IsPrefix(<<d, e>>, token.content)
Opens(token) == BeginsWith(token, "/", "/") \/ BeginsWith(token, "/", "*")

Joining == phase = "join" /\ i < Len(tokens)
Tokenized == UNCHANGED <<program, file, currentToken, tokenContent, phase, read, unjoined, result>>

OutsideComment ==
  /\ Joining
  /\ startIndex = 0
  /\ ~Opens(tokens[i + 1])
  /\ i' = i + 1
  /\ Tokenized /\ UNCHANGED <<tokens, startIndex, multiLineComment>>

OpenComment ==
  /\ Joining
  /\ startIndex = 0
  /\ Opens(tokens[i + 1])
  /\ i' = i + 1
  /\ startIndex' = i + 1
  /\ multiLineComment' = BeginsWith(tokens[i + 1], "/", "*")
  /\ tokens' = [tokens EXCEPT ![i + 1] = Token(tokens[i + 1].content, "Comment")]
  /\ Tokenized

EndsComment(token) ==
  IF multiLineComment THEN BeginsWith(token, "*", "/") ELSE token.type = "EndOfLine"

InsideComment ==
  /\ Joining
  /\ startIndex # 0
  /\ ~EndsComment(tokens[i + 1])
  /\ i' = i + 1
  /\ Tokenized /\ UNCHANGED <<tokens, startIndex, multiLineComment>>

\* Mutant of FirstKept: the end of a line comment is deleted too.
FirstKeptAfter == i + 2

FirstKept == IF multiLineComment THEN i + 2 ELSE i + 1

\* The token after the comment is not looked at.
CloseComment ==
  /\ Joining
  /\ startIndex # 0
  /\ EndsComment(tokens[i + 1])
  /\ tokens' = SubSeq(tokens, 1, startIndex) \o SubSeq(tokens, FirstKept, Len(tokens))
  /\ i' = startIndex + 1
  /\ startIndex' = 0
  /\ multiLineComment' = FALSE
  /\ Tokenized

\* What the loop of removeCommentTokens leaves of the first n tokens.
NotComments(ts) ==
  LET left[n \in 0 .. Len(ts)] ==
        IF n = 0 THEN <<>>
        ELSE IF ts[n].type = "Comment" THEN left[n - 1] ELSE left[n - 1] \o <<ts[n]>>
  IN left

\* Of a comment that does not end only the first token is removed.
RemoveComments ==
  /\ phase = "join"
  /\ i = Len(tokens)
  /\ result' = result \o <<NotComments(tokens)[Len(tokens)]>>
  /\ tokens' = <<>>
  /\ startIndex' = 0
  /\ multiLineComment' = FALSE
  /\ i' = 1
  /\ IF file < Len(program) THEN phase' = "tokenize" /\ file' = file + 1
                            ELSE phase' = "done" /\ UNCHANGED file
  /\ UNCHANGED <<program, currentToken, tokenContent, read, unjoined>>

Done == phase = "done" /\ UNCHANGED vars

Next ==
  \/ Skip \/ StartToken \/ AddToToken \/ EndQuote \/ EndWord \/ EndFile
  \/ OutsideComment \/ OpenComment \/ InsideComment \/ CloseComment \/ RemoveComments
  \/ Done

Spec == Init /\ [][Next]_vars /\ WF_vars(Next)

-----------------------------------------------------------------------------
(***************************************************************************)
(* Properties                                                              *)
(***************************************************************************)
AllTypes == TokenTypes \cup {"Nothing", "Float", "SubToken", "EndOfFile", "Comment"}

Rest(s) == ToSet(Tail(s))
IsWord(token) ==
  LET s == token.content IN
  "~" \notin ToSet(s) =>
    /\ token.type = "Identifier" => s[1] = "a" /\ Rest(s) \subseteq {"a", "0"}
    /\ token.type = "Integer" => s[1] = "0" /\ Rest(s) \subseteq {"a", "0"}
    /\ token.type = "Float" =>
         /\ s[1] = "0"
         /\ Rest(s) \subseteq {"a", "0", "."}
         /\ \A k \in 1 .. Len(s) - 1 : s[k] = "." => s[k + 1] # "."
    /\ token.type \in Quoting =>
         /\ Len(s) > 1
         /\ s[1] = Last(s)
         /\ s[1] \notin ToSet(SubSeq(s, 2, Len(s) - 1))
    /\ token.type = "Punctuation" => ToSet(s) \subseteq Punctuations

\* A token is building exactly when it has content; the loops stay inside the file and
\* the vector of tokens; and a token of each type looks as the parser relies on: names
\* and numbers hold no operator, a number no range, a quote no quote of its kind.  The
\* tilde is part of any token.
TypeOK ==
  /\ file \in 1 .. Len(program)
  /\ i \in 1 .. (IF phase = "join" THEN Len(tokens) ELSE Len(rawFile) + 1)
  /\ currentToken \in TokenTypes \cup {"Nothing"}
  /\ tokenContent \in Seq(Chars)
  /\ currentToken = "Nothing" <=> tokenContent = <<>>
  /\ \A k \in 1 .. Len(tokens) : tokens[k].type \in AllTypes /\ tokens[k].content \in Seq(Chars)
  /\ startIndex \in 0 .. Len(tokens)
  /\ multiLineComment => startIndex # 0
  /\ phase \in {"tokenize", "join", "done"}
  /\ Len(result) = IF phase = "done" THEN file ELSE file - 1
  /\ phase = "tokenize" => \A k \in 1 .. Len(tokens) : IsWord(tokens[k])
  /\ phase = "join" => \A k \in 1 .. Len(unjoined) : IsWord(unjoined[k])

\* The text of the first files, and of those what has been read.
TextOf(files) ==
  LET text[f \in 0 .. Len(files)] ==
        IF f = 0 THEN <<>> ELSE text[f - 1] \o (files[f] \o <<"\n">>)
  IN text

TextRead ==
  IF phase = "tokenize" THEN TextOf(program)[file - 1] \o SubSeq(rawFile, 1, i - 1)
                        ELSE TextOf(program)[file]

\* What is not blank, or is between quotes, of the first n characters of a text: the quote
\* that is not closed goes on in the next file.
KeepChar(kept, d) ==
  CASE kept.quote # "" -> [quote |-> IF d = kept.quote THEN "" ELSE kept.quote, text |-> kept.text \o <<d>>]
    [] kept.quote = "" /\ d = " " -> kept
    [] kept.quote = "" /\ d # " " ->
         [quote |-> IF d \in Quotes THEN d ELSE "", text |-> kept.text \o <<d>>]

Kept(text) ==
  LET kept[n \in 0 .. Len(text)] ==
        IF n = 0 THEN [quote |-> "", text |-> <<>>] ELSE KeepChar(kept[n - 1], text[n])
  IN kept

\* The tokens and the one that is building are the text without its blanks, nothing
\* twice, nothing lost, and a quote is open in the tokenizer when one is in the text.
NothingLost ==
  LET kept == Kept(TextRead)[Len(TextRead)] IN
  /\ read \o tokenContent = kept.text
  /\ currentToken \in Quoting <=> kept.quote # ""

\* The tokens outside of comments, of the first n, found by reading from left to right.
StripToken(strip, token) ==
  CASE strip.in = "line" /\ token.type = "EndOfLine" ->
         [in |-> "", kept |-> strip.kept \o <<token>>, after |-> FALSE, adjacent |-> strip.adjacent]
    [] strip.in = "block" /\ BeginsWith(token, "*", "/") ->
         [in |-> "", kept |-> strip.kept, after |-> TRUE, adjacent |-> strip.adjacent]
    [] strip.in = "" /\ Opens(token) ->
         [in |-> IF BeginsWith(token, "/", "*") THEN "block" ELSE "line", kept |-> strip.kept,
          after |-> FALSE, adjacent |-> strip.adjacent \/ strip.after]
    [] strip.in = "" /\ ~Opens(token) ->
         [in |-> "", kept |-> strip.kept \o <<token>>, after |-> FALSE, adjacent |-> strip.adjacent]
    [] OTHER -> strip

Strip(ts) ==
  LET strip[n \in 0 .. Len(ts)] ==
        IF n = 0 THEN [in |-> "", kept |-> <<>>, after |-> FALSE, adjacent |-> FALSE]
        ELSE StripToken(strip[n - 1], ts[n])
  IN strip

\* When every comment of a file ends, and none begins right after the end of another, the
\* tokens that are left are those outside of its comments.
OnlyCommentsRemoved ==
  [][Len(result') > Len(result) =>
       LET strip == Strip(unjoined)[Len(unjoined)] IN
       strip.in = "" /\ ~strip.adjacent => Last(result') = <<Token(<<>>, "Nothing")>> \o strip.kept]_vars

=============================================================================
