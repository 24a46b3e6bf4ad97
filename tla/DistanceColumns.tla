--------------------------- MODULE DistanceColumns ---------------------------
(***************************************************************************)
(* The columns of the dynamic program of the weighted edit distance, in    *)
(* the floating-point arithmetic of the search (verification.rs), and the  *)
(* distance the exhaustive verifier reads off them (smith_waterman.rs).    *)
(***************************************************************************)
EXTENDS SearchInputs

(* root_column and step_dp: entry r is wed(first r symbols of q, path). *)
ZeroColumn(q) == [r \in 0 .. Len(q) |-> 0]     \* the root of a free-start alignment

RootColumn(q) ==
  LET column[r \in 0 .. Len(q)] ==
        IF r = 0 THEN 0 ELSE AddDistance(column[r - 1], Delete(q[r]))
  IN  column

StepColumn(q, symbol, previous) ==
  LET column[r \in 0 .. Len(q)] ==
        LET insertion == AddDistance(previous[r], Insert(symbol))
        IN  IF r = 0 THEN insertion
            ELSE Min({AddDistance(previous[r - 1], Substitute(q[r], symbol)),
                      insertion,
                      AddDistance(column[r - 1], Delete(q[r]))})
  IN  column

(* The last entry of the column of the whole query and a whole word. *)
ComputedDistance(word) ==
  LET column[n \in 0 .. Len(word)] ==
        IF n = 0 THEN RootColumn(query) ELSE StepColumn(query, word[n], column[n - 1])
  IN  column[Len(word)][Len(query)]
==============================================================================
