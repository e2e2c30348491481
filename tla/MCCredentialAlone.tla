------------------------ MODULE MCCredentialAlone --------------------------
(* One gateway process with two requests, beside the CLI.                   *)
EXTENDS CredentialRefresh, TLC
CONSTANTS p1, r1, r2
MCProc == {p1}
MCRequest == {r1, r2}
MCHome == r1 :> p1 @@ r2 :> p1
============================================================================
