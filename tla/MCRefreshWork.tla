--------------------------- MODULE MCRefreshWork ---------------------------
(* Small instances of RefreshWork for TLC. *)
EXTENDS RefreshWork, TLC

CONSTANTS k1, k2

MCGroupSingle  == k1 :> "statements"
MCGroupMixed   == (k1 :> "statements") @@ (k2 :> "assessment")
MCGroupBatch   == (k1 :> "assessment") @@ (k2 :> "assessment")
MCBackoff      == [n \in 1..MaxAttempts |-> n]
MCBatchSymmetry == Permutations(Keys) \cup Permutations(Workers)
                     \cup Permutations(Tokens)
MCSymmetry     == Permutations(Workers) \cup Permutations(Tokens)
=============================================================================
