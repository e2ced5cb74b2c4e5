---------------------------- MODULE StageLedger ----------------------------
(***************************************************************************)
(* What a live-install receipt promises the operator, whatever runs,       *)
(* failures and kills produced it: a ledger of the stages done so far, in  *)
(* order, each with the state epoch it was done in.  Within a state epoch  *)
(* the ledger never gets shorter; only a new epoch may take work back.  An *)
(* entry is added, or renewed, with the current epoch and with no other.   *)
(***************************************************************************)
EXTENDS Integers, Sequences

CONSTANT Stages \* how many stages there are

VARIABLES
  ledger, \* epochs of the done stages, first stage first
  epoch   \* the state epoch

Init == ledger = <<>> /\ epoch = 0

Entry(i) == ledger'[i] = epoch' \/ (i <= Len(ledger) /\ ledger'[i] = ledger[i])

Record ==
  /\ epoch' = epoch
  /\ Len(ledger') \in Len(ledger)..Stages
  /\ \A i \in 1..Len(ledger') : Entry(i)

OpenEpoch ==
  /\ epoch' = epoch + 1
  /\ Len(ledger') \in 0..Stages
  /\ \A i \in 1..Len(ledger') : Entry(i)

Next == Record \/ OpenEpoch

Spec == Init /\ [][Next]_<<ledger, epoch>>
=============================================================================
