------------------------------ MODULE MCHashSlice ------------------------------
(***************************************************************************)
(* Three ids: two registered CryptoHashes and private id 100, for which   *)
(* the local list holds an implementation and a peer's list a value that *)
(* only carries the id.  Every list of up to three entries is checked.    *)
(***************************************************************************)
EXTENDS HashSlice

Reg == INSTANCE Registry

CryptoHash(id) == [id |-> id, impl |-> Reg!HashById[id]]

MCHashes ==
  {CryptoHash(2), CryptoHash(8),
   [id |-> 100, impl |-> "local"], [id |-> 100, impl |-> "peer"]}
===============================================================================
