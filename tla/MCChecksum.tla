------------------------------ MODULE MCChecksum ------------------------------
(***************************************************************************)
(* Octets of 2 bits (ByteMod 4), so uint16 is 4 bits and the sum wraps   *)
(* at 16.  Every serialize*PrivateKey writes at least one MPI, two length *)
(* octets and a value: <<0, 1, 1>> is the shortest such secret.  The      *)
(* payloads sum to 2, 3, 15, 16 (wraps to 0) and 18 (wraps to 2).         *)
(***************************************************************************)
EXTENDS Checksum

MCPayloads ==
  { <<0, 1, 1>>, <<1, 2>>, <<3, 3, 3, 3, 3>>, <<3, 3, 3, 3, 3, 1>>,
    <<3, 3, 3, 3, 3, 3>> }
===============================================================================
