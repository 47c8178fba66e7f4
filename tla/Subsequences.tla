---------------------------- MODULE Subsequences ----------------------------
(***************************************************************************)
(* The part of a sequence at some of its places, in its order: what the    *)
(* loops leave behind that copy or erase the elements that pass a test.    *)
(***************************************************************************)
EXTENDS Integers, Sequences

\* The elements of s at the places in S.
Subsequence(s, S) ==
  LET upto[k \in 0..Len(s)] ==
        IF k = 0 THEN <<>>
        ELSE IF k \in S THEN Append(upto[k - 1], s[k]) ELSE upto[k - 1]
  IN upto[Len(s)]
=============================================================================
