----------------------------- MODULE MCCcmMbox -----------------------------
(* Three messages fit into a batch by number, fewer when they are large.   *)
EXTENDS CcmMbox, TLC

CONSTANTS c1, c2, p1, p2

MCCallers == {c1, c2}
MCPosts == {p1, p2}
MCSize == (c1 :> 1) @@ (c2 :> 2) @@ (p1 :> 1) @@ (p2 :> 2)

=============================================================================
