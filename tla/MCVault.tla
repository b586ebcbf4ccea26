------------------------------- MODULE MCVault -------------------------------
(***************************************************************************)
(* Small instances of Vault.  Upload ids, plaintexts, paths and gateways   *)
(* are interchangeable, so the safety runs identify states that differ by  *)
(* a permutation of them; the liveness runs do not.                        *)
(*                                                                         *)
(* The liveness run has a chunk whose body has no time in iCloud, and one  *)
(* whose key has none.  In the other runs every name has a time.           *)
(***************************************************************************)
EXTENDS Vault, TLC

CONSTANTS o1, b1, b2

Symmetry ==
    Permutations(Gateways) \cup Permutations(Paths)
        \cup Permutations(Ops) \cup Permutations(Blobs)

NoTimeOfBody == {<<o1, b1>>}
NoTimeOfKey == {<<o1, b2>>}
=============================================================================
