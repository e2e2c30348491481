------------------------- MODULE MCCredentialPair --------------------------
(* Two gateway processes with one request each.                             *)
EXTENDS CredentialRefresh, TLC
CONSTANTS p1, p2, r1, r2
MCProc == {p1, p2}
MCRequest == {r1, r2}
MCHome == r1 :> p1 @@ r2 :> p2

(* The two processes, with their requests, are interchangeable.             *)
MCSwap == {p1 :> p2 @@ p2 :> p1 @@ r1 :> r2 @@ r2 :> r1}
============================================================================
