------------------------------- MODULE Checksum -------------------------------
(***************************************************************************)
(* The 16-bit additive checksum of private-key packets, byte by byte      *)
(* (src/unnamed/part_000).  Serialize appends mod64kHash of the secret    *)
(* bytes as two big-endian octets; Decrypt, in usage-255 mode, sums all   *)
(* but the last two plaintext octets in a uint16 and compares them.  The  *)
(* plaintext of a usage-255 packet has the layout of Serialize's secret   *)
(* part (spec.md 5), so the packet a writer seals with this checksum is   *)
(* what Decrypt verifies.  Between writer and *)
(* reader the packet may be corrupted (storage or transport faults).      *)
(*                                                                         *)
(* ByteMod is 2^8 in the code and uint16 is two bytes wide, so the sum is *)
(* taken modulo ByteMod^2; the model keeps that structure with a smaller  *)
(* ByteMod so that the sum wraps with short inputs.                       *)
(***************************************************************************)
EXTENDS Integers, Sequences, FiniteSets, SequencesExt

CONSTANTS
  ByteMod,     \* 2^8: values of one octet
  Payloads,    \* secret octets serializeXPrivateKey may produce
  MaxCorrupt   \* octets a fault may change between write and read

ASSUME ByteMod \in Nat \ {0, 1} /\ MaxCorrupt \in Nat

Byte == 0..(ByteMod - 1)
SumMod == ByteMod * ByteMod        \* uint16

VARIABLES
  payload,     \* secret octets last serialized
  written,     \* payload followed by its checksum octets
  wire,        \* the octets the reader gets
  corrupted,   \* octets changed so far
  result       \* last operation, the octets it read, its error and the
               \* data it passes on

vars == <<payload, written, wire, corrupted, result>>

-----------------------------------------------------------------------------
\* mod64kHash: h += uint16(b) over d.
Mod64kHash(d) == FoldLeft(LAMBDA h, b : (h + b) % SumMod, 0, d)

\* Fault: only checksumBytes[1:] is written.
ChecksumOctetsShort(h) == << h % ByteMod >>

\* checksumBytes[0] = byte(checksum >> 8); checksumBytes[1] = byte(checksum)
ChecksumOctets(h) == << (h \div ByteMod) % ByteMod, h % ByteMod >>

\* Fault: the loop in Decrypt runs to len(data)-1, over one trailer octet.
DecryptSumOffByOne(data) ==
  FoldLeft(LAMBDA s, b : (s + b) % SumMod, 0, SubSeq(data, 1, Len(data) - 1))

\* for i := 0; i < len(data)-2; i++ { sum += uint16(data[i]) }
DecryptSum(data) ==
  FoldLeft(LAMBDA s, b : (s + b) % SumMod, 0, SubSeq(data, 1, Len(data) - 2))

\* Fault: only the low octet of the sum is compared.
AdditiveVerifyLowOnly(data) ==
  LET n == Len(data)
  IN IF n < 2 THEN [err |-> "Truncated", data |-> data]
     ELSE IF data[n] # DecryptSum(data) % ByteMod
          THEN [err |-> "Checksum", data |-> data]
     ELSE [err |-> "None", data |-> SubSeq(data, 1, n - 2)]

\* Decrypt, usage 255: length check, the sum, the two comparisons, and the
\* trailer stripped from what parsePrivateKey gets.
AdditiveVerify(data) ==
  LET n == Len(data)
  IN IF n < 2 THEN [err |-> "Truncated", data |-> data]
     ELSE IF \/ data[n - 1] # (DecryptSum(data) \div ByteMod) % ByteMod
             \/ data[n] # DecryptSum(data) % ByteMod
          THEN [err |-> "Checksum", data |-> data]
     ELSE [err |-> "None", data |-> SubSeq(data, 1, n - 2)]

-----------------------------------------------------------------------------
Init ==
  /\ payload = <<>>
  /\ written = <<>>
  /\ wire = <<>>
  /\ corrupted = 0
  /\ result = [op |-> "None", read |-> <<>>, err |-> "None", data |-> <<>>]

\* Serialize: the secret octets, then mod64kHash of them as two octets.
Serialize(p) ==
  /\ payload' = p
  /\ written' = p \o ChecksumOctets(Mod64kHash(p))
  /\ wire' = written'
  /\ corrupted' = 0
  /\ result' = [op |-> "Serialize", read |-> <<>>, err |-> "None",
                data |-> <<>>]

\* A fault changes one octet of the stored or transmitted packet.
Corrupt(k, v) ==
  /\ corrupted < MaxCorrupt
  /\ k \in DOMAIN wire
  /\ v # wire[k]
  /\ wire' = [wire EXCEPT ![k] = v]
  /\ corrupted' = corrupted + 1
  /\ UNCHANGED <<payload, written, result>>

\* Decrypt, usage 255, with the right passphrase: the keystream is undone
\* and the additive checksum decides.
Decrypt ==
  /\ written # <<>>
  /\ result' = [op |-> "Decrypt", read |-> wire] @@ AdditiveVerify(wire)
  /\ UNCHANGED <<payload, written, wire, corrupted>>

Next ==
  \/ \E p \in Payloads : Serialize(p)
  \/ \E k \in 1..Len(wire), v \in Byte : Corrupt(k, v)
  \/ Decrypt

Spec == Init /\ [][Next]_vars

-----------------------------------------------------------------------------
\* Octets in which the packet the last read saw differs from the written one.
Changed == {k \in DOMAIN result.read : result.read[k] # written[k]}

TypeOK ==
  /\ payload \in Seq(Byte)
  /\ written \in Seq(Byte)
  /\ written # <<>> => Len(written) = Len(payload) + 2
  /\ wire \in Seq(Byte) /\ Len(wire) = Len(written)
  /\ corrupted \in 0..MaxCorrupt
  /\ result \in [op : {"None", "Serialize", "Decrypt"},
                 read : Seq(Byte), err : {"None", "Truncated", "Checksum"},
                 data : Seq(Byte)]

(* Serialize's mod64kHash and Decrypt's uint16 loop are two separate      *)
(* computations of the same checksum, split into octets in two places:    *)
(* a packet that arrives as written passes Decrypt's check and yields     *)
(* exactly the secret octets, also when the sum wraps past 2^16.          *)
IntactAccepted ==
  (result.op = "Decrypt" /\ Changed = {})
    => result.err = "None" /\ result.data = payload

(* Decrypt rejects every packet in which one octet, key material or       *)
(* trailer, was changed after Serialize wrote it: a single change moves   *)
(* the sum by less than 2^8 and so cannot go unnoticed.                   *)
SingleCorruptionRejected ==
  (result.op = "Decrypt" /\ Cardinality(Changed) = 1)
    => result.err = "Checksum"

===============================================================================
