----------------------------- MODULE MCTokenizer -----------------------------
(* Programs for Tokenizer: files of up to three characters of any kind, and longer ones
   of those that numbers, operators, quotes and comments are made of; two files; and
   files of whole words and ends of comments. *)
EXTENDS Tokenizer

Texts ==
  BoundedSeq(Chars, 3)
  \cup BoundedSeq({"0", ".", "a", "="}, 5)
  \cup BoundedSeq({"+", "-", "=", "<", "~", "*"}, 4)
  \cup BoundedSeq({"\"", "'", "a", "/", "\n"}, 5)
  \cup BoundedSeq({"/", "*", "a", "\n"}, 5)

Pieces == {<<"/", "/">>, <<"/", "*">>, <<"*", "/">>, <<"*", "*", "/">>, <<"a">>, <<"\n">>, <<"'">>}

Commented == {FlattenSeq(ps) : ps \in BoundedSeq({<<" ">> \o p : p \in Pieces}, 5)}

TwoFiles == {<<t, u>> : t \in BoundedSeq(Chars \ {";", "+", "<"}, 2), u \in BoundedSeq({"a", "/", "'", "\n"}, 2)}

MCPrograms == {<<t>> : t \in Texts \cup Commented} \cup TwoFiles

=============================================================================
