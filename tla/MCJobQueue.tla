----------------------------- MODULE MCJobQueue -----------------------------
(* Instances of JobQueue for TLC. *)
EXTENDS JobQueue, TLC

CONSTANTS j1, j2, j3

\* One row of each transaction mode, and one whose payload does not validate.
KindThree == j1 :> "tx" @@ j2 :> "managed" @@ j3 :> "malformed"

\* Two rows at a time, but a malformed one, which is never retried, alone.
MCMixes == {{j1, j2}, {j3}}
=============================================================================
