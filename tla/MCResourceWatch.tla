-------------------------- MODULE MCResourceWatch --------------------------
(* Instances of ResourceWatch for TLC: a directory that is moved while its *)
(* file, and a file of the directory it may move to, are watched.          *)
EXTENDS ResourceWatch, TLC

CONSTANTS t1, t2

A == <<"a">>
AX == <<"a", "x">>
B == <<"b">>
BX == <<"b", "x">>

MCUris  == {A, AX, B, BX}

MCRequests ==
  {[op |-> "watch", uri |-> BX], [op |-> "unwatch", uri |-> AX],
   [op |-> "delete", task |-> t1], [op |-> "move", from |-> A, to |-> B],
   [op |-> "remove", uri |-> A], [op |-> "export", uri |-> AX]}

\* One watched file.
MCStarts == {(t1 :> [uri |-> AX, active |-> TRUE] @@ t2 :> None)}
=============================================================================
