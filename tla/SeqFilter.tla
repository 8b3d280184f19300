----------------------------- MODULE SeqFilter -----------------------------
(***************************************************************************)
(* The loop `for each element: if it is to stay, append it to the copy' of *)
(* Go: SelectSeq with a set for the test, so that SeqLemmas can say what   *)
(* it returns.                                                             *)
(***************************************************************************)
EXTENDS Integers, Sequences

FilterSeq(s, K) ==
  LET copy[i \in 0 .. Len(s)] ==
        IF i = 0 THEN <<>>
        ELSE IF s[i] \in K THEN Append(copy[i - 1], s[i]) ELSE copy[i - 1]
  IN  copy[Len(s)]
=============================================================================
