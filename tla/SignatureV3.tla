------------------------------ MODULE SignatureV3 ------------------------------
(***************************************************************************)
(* The legacy (version 3) signature codec of package packet               *)
(* (signature_v3.go): parse of a signature packet body and Serialize of a *)
(* SignatureV3 value, with the algorithm registry lookups they make.      *)
(*                                                                         *)
(* A packet body is a record w of its fields in wire order: version, the  *)
(* hashed-material length octet five, sigType, time, keyId (the eight key *)
(* id octets), pkAlgo and hashId (algorithm id octets), tag and values    *)
(* (the MPIs that follow); cut names the first read that hits the end of  *)
(* the stream ("none": no read does).  An encoding.Field is Nil (a nil    *)
(* interface value) or [bytes |-> v], v the MPI's value or Nil.           *)
(***************************************************************************)
EXTENDS Integers, Sequences

CONSTANTS
  Wires,          \* packet bodies the framed packet reader delivers
  PublicKeyById,  \* registry: public-key algorithm id -> algorithm name
  HashIds,        \* DOMAIN of algorithm.HashById
  CryptoHashIds,  \* the ids whose HashById entry is a CryptoHash
  Builds,         \* signatures a signing collaborator assembles
  SigValues,      \* MPI values a signing collaborator produces
  TimeModulus,    \* 2^32: uint32(CreationTime.Unix()) keeps time mod this
  Nil

RSAAlgos == {"RSA", "RSASignOnly"}

Alg == INSTANCE Registry

VARIABLES
  sig,         \* the SignatureV3 the caller holds, or Nil
  result,      \* the last call: [op, err, id, fromOut]
  input,       \* the last body handed to parse (history)
  out,         \* the fields the last successful Serialize wrote, or Nil
  serialized   \* the signature they were written from (history)

vars == <<sig, result, input, out, serialized>>

-----------------------------------------------------------------------------
MPI(v) == [bytes |-> v]

\* The contents of parse's scratch buffer buf [8]byte after the public-key
\* and hash algorithm octets are read into buf[:2]: the rest still holds the
\* issuer key id read before them.
Buf(w) == [i \in 0..7 |-> CASE i = 0 -> w.pkAlgo
                            [] i = 1 -> w.hashId
                            [] OTHER -> w.keyId[i + 1]]

\* The HashById lookup, then the assertion that the entry is a
\* CryptoHash; both errors format buf[2].
HashLookup(w) ==
  << [fails |-> w.hashId \notin HashIds, err |-> "UnsupportedHash",
      id |-> Buf(w)[2]],
     [fails |-> w.hashId \notin CryptoHashIds, err |-> "UnsupportedHash",
      id |-> Buf(w)[2]] >>

\* The checks of parse in code order, each with the error it returns and the
\* number its message names.
ParseChecks(w) ==
  << [fails |-> w.cut = "version", err |-> "IO", id |-> Nil],
     [fails |-> w.version < 2 \/ w.version > 3, err |-> "Unsupported",
      id |-> w.version],
     [fails |-> w.cut = "five", err |-> "IO", id |-> Nil],
     [fails |-> w.five # 5, err |-> "Unsupported", id |-> w.five],
     [fails |-> w.cut \in {"hashed", "keyid", "algos"}, err |-> "IO",
      id |-> Nil],
     [fails |-> w.pkAlgo \notin DOMAIN PublicKeyById, err |-> "Unsupported",
      id |-> w.pkAlgo] >>
  \o HashLookup(w)
  \o << [fails |-> w.cut = "tag", err |-> "IO", id |-> Nil] >>

\* Fault: the DSA branch reads r and never s.
ReadValuesNoS(s, algo, values) ==
  CASE algo \in RSAAlgos ->
         IF values = <<>> THEN [err |-> "IO", sig |-> s]
         ELSE [err |-> "None", sig |-> [s EXCEPT !.RSASignature = MPI(values[1])]]
    [] algo = "DSA" ->
         IF values = <<>> THEN [err |-> "IO", sig |-> s]
         ELSE [err |-> "None", sig |-> [s EXCEPT !.DSASigR = MPI(values[1])]]
    [] OTHER -> [err |-> "Panic", sig |-> s]

\* The algorithm-dispatched signature value: one MPI for RSA, r then s for
\* DSA, panic("unreachable") for any other registered algorithm.
ReadValues(s, algo, values) ==
  CASE algo \in RSAAlgos ->
         IF values = <<>> THEN [err |-> "IO", sig |-> s]
         ELSE [err |-> "None", sig |-> [s EXCEPT !.RSASignature = MPI(values[1])]]
    [] algo = "DSA" ->
         IF Len(values) < 2 THEN [err |-> "IO", sig |-> s]
         ELSE [err |-> "None",
               sig |-> [s EXCEPT !.DSASigR = MPI(values[1]),
                                 !.DSASigS = MPI(values[2])]]
    [] OTHER -> [err |-> "Panic", sig |-> s]

\* Fault: the creation time is read as a signed 32-bit value,
\* int32(binary.BigEndian.Uint32(buf[1:5])), so times past 2038 go negative.
ParseSigSignedTime(w) ==
  LET failed == SelectSeq(ParseChecks(w), LAMBDA c : c.fails)
      t == IF w.time >= TimeModulus \div 2 THEN w.time - TimeModulus ELSE w.time
      s == [SigType |-> w.sigType, CreationTime |-> t,
            IssuerKeyId |-> w.keyId, PubKeyAlgo |-> PublicKeyById[w.pkAlgo],
            Hash |-> w.hashId, HashTag |-> w.tag,
            RSASignature |-> Nil, DSASigR |-> Nil, DSASigS |-> Nil]
  IN IF failed # <<>>
     THEN [err |-> Head(failed).err, id |-> Head(failed).id, sig |-> Nil]
     ELSE LET r == ReadValues(s, s.PubKeyAlgo, w.values)
          IN [err |-> r.err, id |-> Nil, sig |-> r.sig]

ParseSig(w) ==
  LET failed == SelectSeq(ParseChecks(w), LAMBDA c : c.fails)
      s == [SigType |-> w.sigType, CreationTime |-> w.time,
            IssuerKeyId |-> w.keyId, PubKeyAlgo |-> PublicKeyById[w.pkAlgo],
            Hash |-> w.hashId, HashTag |-> w.tag,
            RSASignature |-> Nil, DSASigR |-> Nil, DSASigS |-> Nil]
  IN IF failed # <<>>
     THEN [err |-> Head(failed).err, id |-> Head(failed).id, sig |-> Nil]
     ELSE LET r == ReadValues(s, s.PubKeyAlgo, w.values)
          IN [err |-> r.err, id |-> Nil, sig |-> r.sig]

\* The registry id of a public-key algorithm name.
AlgoId(name) == CHOOSE i \in DOMAIN PublicKeyById : PublicKeyById[i] = name

\* sig.RSASignature.Bytes() == nil && sig.DSASigR.Bytes() == nil: Bytes on
\* a nil interface value panics, and && skips the right operand when the
\* left one is false.
UnsignedTest(s) ==
  IF s.RSASignature = Nil THEN "Panic"
  ELSE IF s.RSASignature.bytes # Nil THEN "Signed"
  ELSE IF s.DSASigR = Nil THEN "Panic"
  ELSE IF s.DSASigR.bytes # Nil THEN "Signed"
  ELSE "Unsigned"

\* The fields Serialize writes after its three fixed writes: the dispatched
\* value field(s) in parse order.
ValueFields(s) ==
  IF s.PubKeyAlgo \in RSAAlgos THEN <<s.RSASignature>>
  ELSE <<s.DSASigR, s.DSASigS>>

\* Fault: the hash id is written before the public-key algorithm id.
SerializeResultSwappedIds(s) ==
  LET test == UnsignedTest(s)
      written == [sigType |-> s.SigType, time |-> s.CreationTime % TimeModulus,
                  keyId |-> s.IssuerKeyId, pkAlgo |-> s.Hash,
                  hashId |-> AlgoId(s.PubKeyAlgo), tag |-> s.HashTag,
                  values |-> <<>>]
      fields == ValueFields(s)
  IN IF test = "Panic" THEN [err |-> "Panic", out |-> Nil]
     ELSE IF test = "Unsigned"
     THEN [err |-> "InvalidArgument", out |-> Nil]
     ELSE IF s.PubKeyAlgo \notin RSAAlgos \cup {"DSA"}
             \/ \E i \in DOMAIN fields : fields[i] = Nil
     THEN [err |-> "Panic", out |-> Nil]
     ELSE [err |-> "None",
           out |-> [written EXCEPT !.values =
                      [i \in DOMAIN fields |-> fields[i].bytes]]]

\* Serialize: sig type and creation time (5 octets), issuer key id (8),
\* algorithm ids and hash tag (4), then the value fields.  The "must sign"
\* test comes after the first three writes and calls Bytes() on both the
\* RSA and the DSA field.
SerializeResult(s) ==
  LET test == UnsignedTest(s)
      written == [sigType |-> s.SigType, time |-> s.CreationTime % TimeModulus,
                  keyId |-> s.IssuerKeyId, pkAlgo |-> AlgoId(s.PubKeyAlgo),
                  hashId |-> s.Hash, tag |-> s.HashTag, values |-> <<>>]
      fields == ValueFields(s)
  IN IF test = "Panic" THEN [err |-> "Panic", out |-> Nil]
     ELSE IF test = "Unsigned"
     THEN [err |-> "InvalidArgument", out |-> Nil]
     ELSE IF s.PubKeyAlgo \notin RSAAlgos \cup {"DSA"}
             \/ \E i \in DOMAIN fields : fields[i] = Nil
     THEN [err |-> "Panic", out |-> Nil]
     ELSE [err |-> "None",
           out |-> [written EXCEPT !.values =
                      [i \in DOMAIN fields |-> fields[i].bytes]]]

\* The body a reader sees when Serialize's output follows the version and
\* hashed-length octets, which Serialize itself does not write.
WithHeader(o) ==
  [version |-> 3, five |-> 5, cut |-> "none", sigType |-> o.sigType,
   time |-> o.time, keyId |-> o.keyId, pkAlgo |-> o.pkAlgo,
   hashId |-> o.hashId, tag |-> o.tag, values |-> o.values]

-----------------------------------------------------------------------------
Init ==
  /\ sig = Nil
  /\ result = [op |-> "None", err |-> "None", id |-> Nil, fromOut |-> FALSE]
  /\ input = Nil
  /\ out = Nil
  /\ serialized = Nil

Parse(w) ==
  LET r == ParseSig(w)
  IN /\ sig' = IF r.err = "None" THEN r.sig ELSE Nil
     /\ result' = [op |-> "Parse", err |-> r.err, id |-> r.id,
                   fromOut |-> out # Nil /\ w = WithHeader(out)]
     /\ input' = w
     /\ UNCHANGED <<out, serialized>>

\* A signing collaborator assembles a SignatureV3 with no value fields.
Build(b) ==
  /\ sig' = b
  /\ result' = [op |-> "Build", err |-> "None", id |-> Nil, fromOut |-> FALSE]
  /\ UNCHANGED <<input, out, serialized>>

\* A signing collaborator fills the value fields for the key's algorithm.
Sign(v1, v2) ==
  /\ sig # Nil
  /\ sig.PubKeyAlgo \in RSAAlgos \cup {"DSA"}
  /\ sig' = IF sig.PubKeyAlgo \in RSAAlgos
            THEN [sig EXCEPT !.RSASignature = MPI(v1)]
            ELSE [sig EXCEPT !.DSASigR = MPI(v1), !.DSASigS = MPI(v2)]
  /\ result' = [op |-> "Sign", err |-> "None", id |-> Nil, fromOut |-> FALSE]
  /\ UNCHANGED <<input, out, serialized>>

Serialize ==
  LET r == SerializeResult(sig)
  IN /\ sig # Nil
     /\ result' = [op |-> "Serialize", err |-> r.err, id |-> Nil,
                   fromOut |-> FALSE]
     /\ out' = IF r.err = "None" THEN r.out ELSE out
     /\ serialized' = IF r.err = "None" THEN sig ELSE serialized
     /\ UNCHANGED <<sig, input>>

Next ==
  \/ \E w \in Wires : Parse(w)
  \/ out # Nil /\ Parse(WithHeader(out))
  \/ \E b \in Builds : Build(b)
  \/ \E v1, v2 \in SigValues : Sign(v1, v2)
  \/ Serialize

Spec == Init /\ [][Next]_vars

-----------------------------------------------------------------------------
Field == {Nil} \cup [bytes : Nat \cup {Nil}]

TypeOK ==
  /\ sig = Nil \/
     sig \in [SigType : Nat, CreationTime : 0..(TimeModulus - 1), IssuerKeyId : Seq(Nat),
             PubKeyAlgo : STRING, Hash : Nat, HashTag : Nat,
             RSASignature : Field, DSASigR : Field, DSASigS : Field]
  /\ result \in [op : {"None", "Parse", "Build", "Sign", "Serialize"},
                 err : {"None", "IO", "Unsupported", "UnsupportedHash",
                        "InvalidArgument", "Panic"},
                 id : Nat \cup {Nil}, fromOut : BOOLEAN]

\* The value fields a signature holds, and those its algorithm calls for.
Present(s) == {f \in {"RSASignature", "DSASigR", "DSASigS"} : s[f] # Nil}
Expected(algo) ==
  IF algo \in RSAAlgos THEN {"RSASignature"} ELSE {"DSASigR", "DSASigS"}

(* spec.md 3: the shape of the signature value is fixed by the public-key *)
(* algorithm: a parsed signature holds exactly the fields its algorithm   *)
(* calls for (RSA: one MPI; DSA: r and s), and a built one holds none or  *)
(* those.                                                                 *)
SigShape ==
  sig # Nil =>
    /\ Present(sig) \in {{}, Expected(sig.PubKeyAlgo)}
    /\ result.op = "Parse" => Present(sig) = Expected(sig.PubKeyAlgo)

(* What Serialize writes, behind a version octet and the hashed-length    *)
(* octet 5, parses back to the signature it was written from: the fields  *)
(* are written in the order and width parse reads them.                   *)
RoundTrip ==
  (result.op = "Parse" /\ result.fromOut) =>
    /\ result.err = "None"
    /\ sig = serialized

(* spec.md 4.3 and 7: Serialize of an unsigned signature is an            *)
(* InvalidArgumentError, and a signed one is written; it never panics.    *)
SerializeNoPanic == result.op = "Serialize" => result.err # "Panic"

(* spec.md 4.3 and 7: parse of any body either yields a signature or     *)
(* returns an error; a registered algorithm other than RSA or DSA is      *)
(* UnsupportedAlgorithm, not a panic.                                     *)
ParseNoPanic == result.op = "Parse" => result.err # "Panic"

(* The UnsupportedError for an unknown hash names the hash id octet that  *)
(* was read (the message is "hash function " + id).                       *)
HashErrorNamesHashId ==
  result.err = "UnsupportedHash" => result.id = input.hashId

===============================================================================
