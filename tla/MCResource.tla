---------------------------- MODULE MCResource ----------------------------
(* Two hosts, one of them with two threads, and small resource tables.     *)
EXTENDS Resource, TLC

CONSTANTS a, b, c, i1, i2

MCThreads == {a, b, c}
MCHost == (a :> i1) @@ (b :> i1) @@ (c :> i2)
MCLeader == (i1 :> a) @@ (i2 :> c)

=============================================================================
