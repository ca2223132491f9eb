----------------------------- MODULE Admission -----------------------------
(***************************************************************************)
(* What the front door promises (ingestFile.ts:15-19, "One door means the  *)
(* dedupe, storage, and queueing guarantees hold for every source"): a     *)
(* file is recorded once, after its original is safe, and gets one job,    *)
(* however often and by whatever way it comes in.                          *)
(***************************************************************************)
CONSTANT Files

VARIABLES
  kept,      \* files whose original is in the object store
  admitted   \* "out", "recorded" or "queued", for each file

AInit ==
  /\ kept = {}
  /\ admitted = [f \in Files |-> "out"]

Keep(f) ==
  /\ kept' = kept \cup {f}
  /\ UNCHANGED admitted

Record(f) ==
  /\ f \in kept
  /\ admitted[f] = "out"
  /\ admitted' = [admitted EXCEPT ![f] = "recorded"]
  /\ UNCHANGED kept

PlaceJob(f) ==
  /\ admitted[f] = "recorded"
  /\ admitted' = [admitted EXCEPT ![f] = "queued"]
  /\ UNCHANGED kept

ANext == \E f \in Files : Keep(f) \/ Record(f) \/ PlaceJob(f)

ASpec == AInit /\ [][ANext]_<<kept, admitted>>
=============================================================================
