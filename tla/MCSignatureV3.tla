---------------------------- MODULE MCSignatureV3 ----------------------------
(***************************************************************************)
(* Model-checking instance of SignatureV3: an RSA and a DSA signature    *)
(* body, each field varied once to a rejected value, bodies cut short at *)
(* each read, and RSA and DSA signatures assembled by a signer.          *)
(***************************************************************************)
EXTENDS SignatureV3, TLC

\* Issuer key id 0x0000420000000007: octet 2 (0x42 = 66) differs from every
\* hash id.
KeyId == <<0, 0, 66, 0, 0, 0, 0, 7>>

MCPublicKeyById == Alg!PublicKeyById

\* HashById is an exported map: besides hash.go's CryptoHashes, the
\* registry may hold a private hash (id 100) of another Hash type, the
\* "non-standard hash family" of spec.md 4.3.
MCCryptoHashIds == DOMAIN Alg!HashById
MCHashIds == MCCryptoHashIds \cup {100}

Body(version, five, pkAlgo, hashId, values, cut) ==
  [version |-> version, five |-> five, sigType |-> 0, time |-> 40000,
   keyId |-> KeyId, pkAlgo |-> pkAlgo, hashId |-> hashId, tag |-> 7,
   values |-> values, cut |-> cut]

GoodBodies == {Body(3, 5, 1, 2, <<9>>, "none"), Body(2, 5, 17, 2, <<8, 9>>, "none")}

\* Bodies parse accepts, and one variant per rejected field or cut.
WiresSafe ==
  GoodBodies
  \cup {Body(v, 5, 1, 2, <<9>>, "none") : v \in {1, 4}}
  \cup {Body(3, 4, 1, 2, <<9>>, "none"), Body(3, 5, 99, 2, <<9>>, "none"),
        Body(3, 5, 1, 100, <<9>>, "none"),
        Body(3, 5, 1, 2, <<>>, "none"), Body(3, 5, 17, 2, <<8>>, "none")}
  \cup {Body(3, 5, 1, 2, <<9>>, c) :
          c \in {"version", "five", "hashed", "keyid", "algos", "tag"}}

\* WiresSafe and bodies with an unknown hash id or a registered algorithm
\* that signature_v3.go does not dispatch.
WiresAll ==
  WiresSafe \cup {Body(3, 5, 1, 5, <<9>>, "none")}
  \cup {Body(3, 5, a, 2, <<9>>, "none") : a \in {2, 16, 19}}

MCBuilds ==
  {[SigType |-> 0, CreationTime |-> 7, IssuerKeyId |-> KeyId,
    PubKeyAlgo |-> a, Hash |-> 8, HashTag |-> 3,
    RSASignature |-> Nil, DSASigR |-> Nil, DSASigS |-> Nil] : a \in {"RSA", "DSA"}}

MCSigValues == {4, 5}

\* TLC integers are 32-bit signed, so creation times are scaled into
\* 0..2^16-1 and the uint32 cast into mod 2^16; the bodies' time 40000 has
\* the top bit set, as a time past 2038 has in 32 bits.
MCTimeModulus == 2^16
=============================================================================
