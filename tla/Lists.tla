------------------------------- MODULE Lists -------------------------------
(* Taking elements out of a list.                                            *)
EXTENDS Naturals, Sequences

(* The elements of s that are in K, in their order.                          *)
SubList(s, K) ==
  LET upto[n \in 0 .. Len(s)] ==
        IF n = 0 THEN <<>>
        ELSE IF s[n] \in K THEN Append(upto[n-1], s[n]) ELSE upto[n-1]
  IN  upto[Len(s)]
=============================================================================
