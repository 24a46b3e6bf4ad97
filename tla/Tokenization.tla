---------------------------- MODULE Tokenization -----------------------------
(***************************************************************************)
(* Source texts as characters and as bytes, and their tokens with the byte *)
(* ranges they were read from (cli/src/tokenization.rs).                   *)
(***************************************************************************)
EXTENDS Ordering, Sequences, SequencesExt

CONSTANTS Space,      (* the characters that are white space               *)
          Wide        (* the characters that take two bytes                *)

(* A text as UTF-8: every character is one byte or two. *)
Width(char) == IF char \in Wide THEN 2 ELSE 1
Bytes(char) == [n \in 1 .. Width(char) |-> [char |-> char, byte |-> n]]
Encode(text) == FlattenSeq([i \in DOMAIN text |-> Bytes(text[i])])
Decode(bytes) ==
  LET leading == Ascending({n \in DOMAIN bytes : bytes[n].byte = 1})
  IN  [i \in DOMAIN leading |-> bytes[leading[i]].char]
IsText(bytes) == Encode(Decode(bytes)) = bytes

(* The byte offset of character i, and of the end of the text. *)
Offset(text, i) == Len(Encode(SubSeq(text, 1, i - 1)))

(* Tokens as half-open ranges of characters: every character, or every     *)
(* longest run of characters that are not white space.                     *)
CharacterTokens(text) == [i \in DOMAIN text |-> <<i, i + 1>>]

WhitespaceTokens(text) ==
  LET inside(i) == i \in DOMAIN text /\ text[i] \notin Space
      starts == {i \in DOMAIN text : inside(i) /\ ~inside(i - 1)}
      end(i) == CHOOSE j \in (i + 1) .. (Len(text) + 1) :
                   ~inside(j) /\ \A k \in i .. (j - 1) : inside(k)
      sorted == Ascending(starts)
  IN  [n \in DOMAIN sorted |-> <<sorted[n], end(sorted[n])>>]

(* Tokenizer::tokenize: each token's value and its byte range. *)
Tokenize(kind, text) ==
  LET ranges == IF kind = "character" THEN CharacterTokens(text) ELSE WhitespaceTokens(text)
  IN  [n \in DOMAIN ranges |->
         [value |-> SubSeq(text, ranges[n][1], ranges[n][2] - 1),
          start |-> Offset(text, ranges[n][1]),
          end   |-> Offset(text, ranges[n][2])]]

TokenValues(kind, text) ==
  LET tokens == Tokenize(kind, text) IN [n \in DOMAIN tokens |-> tokens[n].value]
==============================================================================
