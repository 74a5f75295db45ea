------------------------------- MODULE KeyLock -------------------------------
(***************************************************************************)
(* What a passphrase-protected private key promises its caller (spec.md   *)
(* sections 3, 4.2 and 7), independent of how packets are encoded.        *)
(*                                                                         *)
(* A held key is Nil (no packet) or a record:                              *)
(*   locked - the secret is not available yet;                             *)
(*   secret - the secret material exposed to the caller (Nil if locked);   *)
(*   pass   - the one passphrase that unlocks it (Nil: none does);         *)
(*   truth  - the secret the key's owner protected.                        *)
(* call records the last API call and its argument.                        *)
(*                                                                         *)
(* Parsing, or wrapping a key the caller already holds, loads a fresh key, *)
(* which is either locked or exposes its true secret.  Decrypt with the right passphrase exposes exactly the true     *)
(* secret; every other call leaves the key as it was.                      *)
(***************************************************************************)
CONSTANTS Passphrases, Nil

VARIABLES held, call

Consistent(h) ==
  /\ h.locked => h.secret = Nil
  /\ ~h.locked => h.secret = h.truth

Init ==
  /\ held = Nil
  /\ call = [op |-> "None", arg |-> Nil]

Load ==
  /\ call'.op \in {"New", "Parse"}
  /\ held' = Nil \/ Consistent(held')

Unlock ==
  /\ call'.op = "Decrypt"
  /\ held # Nil
  /\ held.locked
  /\ call'.arg = held.pass
  /\ held' = [locked |-> FALSE, secret |-> held.truth,
              pass |-> Nil, truth |-> held.truth]

NoEffect ==
  /\ call'.op \in {"Decrypt", "Serialize"}
  /\ held' = held

Next == Load \/ Unlock \/ NoEffect

Spec == Init /\ [][Next]_<<held, call>>
===============================================================================
