---------------------------- MODULE MCPrivateKey ----------------------------
(***************************************************************************)
(* Model-checking instance of PrivateKey: a 15 = 3 * 5 RSA key (e = 3,   *)
(* d = 3) and one scalar key per DSA-like algorithm, delivered in         *)
(* cleartext, encrypted under pw1, corrupted, and cut short at each read. *)
(***************************************************************************)
EXTENDS PrivateKey, TLC

CONSTANTS pw1, pw2

RSAPub == [algo |-> "RSA", n |-> 15, e |-> 3]
ScalarPubs == {[algo |-> a, n |-> 0, e |-> 0] : a \in ScalarFamily}

\* Secret MPI sequences per public key: well formed, a prime of 1
\* (TestIssue11505), and too short.
GoodBody(pub) == IF pub.algo \in RSAFamily THEN <<3, 3, 5>> ELSE <<2>>
Bodies(pub) ==
  IF pub.algo \in RSAFamily THEN {<<3, 3, 5>>, <<3, 1, 15>>, <<3>>}
  ELSE {<<2>>, <<>>}

Plain(b) == [mpis |-> b, trailer |-> "sum16", len |-> MPIsLen(b) + 2,
             pass |-> Nil]
Blob(b, usage) ==
  LET m == IF usage = 254 THEN "sha1" ELSE "sum16"
  IN [mpis |-> b, trailer |-> m, len |-> MPIsLen(b) + TrailerLen[m],
      pass |-> pw1]
Corrupt(l) == [mpis |-> <<>>, trailer |-> "none", len |-> l, pass |-> Nil]

Wire(pub, usage, cipher, cut, rest) ==
  [pub |-> pub, usage |-> usage, cipher |-> cipher, cut |-> cut, rest |-> rest]

Pubs == {RSAPub} \cup ScalarPubs

\* Packets every run delivers: cleartext keys, SHA-1 protected keys,
\* corrupted blobs of 1 and 19 bytes, and each parse error.
CommonWires ==
  UNION {{Wire(pub, 0, 0, "none", Plain(b)) : b \in Bodies(pub)} :
           pub \in Pubs}
  \cup UNION {{Wire(pub, 254, 7, "none", Blob(b, 254)) :
                 b \in Bodies(pub) \ {<<>>, <<3>>}} : pub \in Pubs}
  \cup {Wire(RSAPub, u, 7, "none", Corrupt(l)) : u \in {254, 255},
          l \in {1, 19}}
  \cup {Wire(RSAPub, u, c, "none", Blob(<<3, 3, 5>>, 254)) :
          <<u, c>> \in {<<1, 7>>, <<254, 99>>, <<254, 100>>}}
  \cup {Wire(RSAPub, 254, 7, cut, Blob(<<3, 3, 5>>, 254)) :
          cut \in {"pub", "usage", "cipher", "s2k", "iv"}}
  \cup {Wire([algo |-> "ECDH", n |-> 0, e |-> 0], 0, 0, "none", Plain(<<2>>))}

\* The pass runs add additive-checksum keys only for RSA, whose garbage
\* plaintext Validate rejects; see WiresSum16.
WiresCore ==
  CommonWires \cup
  {Wire(RSAPub, 255, 7, "none", Blob(b, 255)) : b \in Bodies(RSAPub) \ {<<3>>}}

\* Additive-checksum keys of every algorithm.
WiresSum16 ==
  CommonWires \cup
  {Wire(pub, 255, 7, "none", Blob(GoodBody(pub), 255)) : pub \in Pubs}

MCCipherById ==
  (7 :> [blockSize |-> 16, keySize |-> 16]) @@
  (100 :> [blockSize |-> 0, keySize |-> 0])

\* The public-key algorithms PublicKey.parse accepts: this fork adds ECDH
\* (rfc 6637, the repository README), as upstream x/crypto also accepts it.
MCPublicKeyAlgos == RSAFamily \cup ScalarFamily \cup {"ECDH"}

MCPassphrases == {pw1, pw2}

\* Keys a caller wraps with New*: the RSA key as rsa.GenerateKey returns
\* it (Precompute done), with its primes in either order, and one scalar
\* key per DSA-like algorithm.
MCOwnKeys ==
  {[pub |-> RSAPub,
    key |-> Precompute([d |-> 3, primes |-> pq, qinv |-> 0])] :
     pq \in {<<3, 5>>, <<5, 3>>}}
  \cup {[pub |-> sp, key |-> [d |-> 2, primes |-> <<>>, qinv |-> 0]] :
          sp \in ScalarPubs}

MCGarbageBodies == {<<>>, <<4>>, <<3, 1, 15>>}
=============================================================================
