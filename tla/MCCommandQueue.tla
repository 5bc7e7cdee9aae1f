--------------------------- MODULE MCCommandQueue ---------------------------
(* Two connections and three commands for CommandQueue, two of them settings    *)
(* of different packages; nodes of 2 strings, so that the first and the third  *)
(* push open a node.                                                           *)
EXTENDS CommandQueue, TLC

CONSTANTS w1, w2, u1, u2, bad

MCScript == (w1 :> <<u1, u2>>) @@ (w2 :> <<bad>>)
MCKind == (Blank :> "other") @@ (u1 :> "uci") @@ (u2 :> "uci") @@ (bad :> "bad_txpower")
MCPackage == [m \in Commands |-> IF m = u2 THEN "network" ELSE "wireless"]
=============================================================================
