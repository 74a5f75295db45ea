CONSTANTS
  ByteMod = 4
  Payloads <- MCPayloads
  MaxCorrupt = 1
SPECIFICATION Spec
INVARIANTS
  TypeOK
  IntactAccepted
  SingleCorruptionRejected
