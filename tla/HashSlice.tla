------------------------------- MODULE HashSlice -------------------------------
(***************************************************************************)
(* HashSlice.Intersect (algorithm/hash.go): negotiation of two hash       *)
(* preference lists.  The loop compacts the matching entries of hs to the *)
(* front of hs's own backing array and returns hs[:j].  A Hash is an      *)
(* interface value: a record of the id its Id() reports and the           *)
(* implementation behind it (a CryptoHash, or any other value the caller  *)
(* supplies for a private or unassigned id).  Intersect compares ids only *)
(* and keeps the receiver's value.                                        *)
(***************************************************************************)
EXTENDS Integers, Sequences, SequencesExt

CONSTANTS
  Hashes,   \* Hash values: records [id, impl]
  MaxLen    \* longest preference list checked

VARIABLES
  hs,       \* the backing array of the receiver slice
  b,        \* the other list
  i,        \* index of the next element the range loop reads
  j,        \* number of entries kept so far
  done,     \* Intersect has returned hs[:j]
  a0        \* the receiver's contents at the call (history)

vars == <<hs, b, i, j, done, a0>>

\* (h CryptoHash) Id() uint8 { return h.id }
Id(h) == h.id

\* (hs HashSlice) Ids(): the id of each Hash in hs.
Ids(s) == [k \in DOMAIN s |-> Id(s[k])]

\* The reference: the entries of a whose id occurs in other, in a's order.
OrderedFilter(a, other) == SelectSeq(a, LAMBDA x : Id(x) \in Range(Ids(other)))

\* The inner range loop over b finds an entry with v's id.
InB(v) == \E k \in DOMAIN b : Id(b[k]) = Id(v)

Init ==
  /\ a0 \in SeqOf(Hashes, MaxLen)
  /\ b \in SeqOf(Hashes, MaxLen)
  /\ hs = a0
  /\ i = 1
  /\ j = 0
  /\ done = FALSE

\* One iteration of the range loop over hs, while i <= bound: v is hs[i] as
\* it is now; when b holds v's id, keep(v, j) stores it and advances j.
Iteration(bound, keep(_, _)) ==
  LET v == hs[i]
  IN /\ ~done
     /\ i <= bound
     /\ IF InB(v) THEN keep(v, j) ELSE UNCHANGED <<hs, j>>
     /\ i' = i + 1
     /\ UNCHANGED <<b, done, a0>>

\* Fault: without the break, every entry of b with v's id writes v again.
StepNoBreak ==
  Iteration(Len(a0), LAMBDA v, k :
    LET n == Len(SelectSeq(b, LAMBDA x : Id(x) = Id(v)))
    IN /\ hs' = [m \in DOMAIN hs |-> IF m \in (k + 1)..(k + n) THEN v ELSE hs[m]]
       /\ j' = k + n)

\* Fault: j is incremented before the write, hs[j+1] = v in 0-based terms.
StepIncrementFirst ==
  Iteration(Len(a0), LAMBDA v, k : hs' = [hs EXCEPT ![k + 2] = v] /\ j' = k + 1)

\* Fault: the matching entry of b, v2, is stored instead of v.
StepKeepsOther ==
  Iteration(Len(a0), LAMBDA v, k :
    LET first == CHOOSE m \in DOMAIN b : Id(b[m]) = Id(v)
                   /\ \A m2 \in DOMAIN b : Id(b[m2]) = Id(v) => m <= m2
    IN hs' = [hs EXCEPT ![k + 1] = b[first]] /\ j' = k + 1)

\* for _, v := range hs { for _, v2 := range b { if v.Id() == v2.Id() {
\* hs[j] = v; j++; break } } }, the range over hs fixed at len(hs).
Step ==
  Iteration(Len(a0), LAMBDA v, k : hs' = [hs EXCEPT ![k + 1] = v] /\ j' = k + 1)

\* return hs[:j]
Return ==
  /\ ~done
  /\ i > Len(a0)
  /\ done' = TRUE
  /\ UNCHANGED <<hs, b, i, j, a0>>

Next == Step \/ Return

Spec == Init /\ [][Next]_vars

Result == SubSeq(hs, 1, j)

-----------------------------------------------------------------------------
TypeOK ==
  /\ hs \in SeqOf(Hashes, MaxLen)
  /\ b \in SeqOf(Hashes, MaxLen)
  /\ i \in 1..(Len(a0) + 1)
  /\ j \in 0..Len(a0)
  /\ done \in BOOLEAN

(* The in-place compaction never overwrites an element the range loop has *)
(* still to read: hs[i..] is as the caller passed it.                     *)
UnreadIntact == \A k \in i..Len(a0) : hs[k] = a0[k]

(* spec.md 4.1 and 8: Intersect returns exactly the entries of the        *)
(* receiver whose id appears in b, in the receiver's order                *)
(* (Intersect([A,B,C], [C,A]) = [A,C]), duplicates included, and they are *)
(* the receiver's own Hash values, not b's entries with the same id.      *)
ResultIsOrderedFilter == done => Result = OrderedFilter(a0, b)

===============================================================================
