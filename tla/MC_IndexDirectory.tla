-------------------------- MODULE MC_IndexDirectory --------------------------
(***************************************************************************)
(* Three runs: two corpora of as many lines and one of another, read by    *)
(* different tokenizers, with an empty line, spaces and wide characters.   *)
(***************************************************************************)
EXTENDS IndexDirectory

MCRuns ==
  <<[tokenizer |-> "whitespace", lines |-> << <<"w", "a", " ", " ", "a">>, <<>> >>],
    [tokenizer |-> "whitespace", lines |-> << <<"a">>, <<" ", "w">> >>],
    [tokenizer |-> "character",  lines |-> << <<"a", "w", " ">> >>]>>
==============================================================================
