------------------------------ MODULE MCIntake ------------------------------
(***************************************************************************)
(* Small instances of Intake for TLC: a mail with two PDFs and a file that *)
(* is none, a mail with one of the PDFs, and users who upload them too.    *)
(***************************************************************************)
EXTENDS Intake

TheFiles == {"a", "b", "junk"}
TheAttachments == [m \in Mails |-> IF m = 1 THEN Files ELSE {"a"}]
=============================================================================
