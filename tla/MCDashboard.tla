---------------------------- MODULE MCDashboard ----------------------------
(***************************************************************************)
(* A small instance of Dashboard for TLC: one document of two statuses,    *)
(* and of the two texts one finds it once it has been read (by its vendor),*)
(* the other never.                                                        *)
(***************************************************************************)
EXTENDS Dashboard

TheDocs == {"invoice"}
TheTexts == {"", "dell", "zzz"}
InNames == [t \in TheTexts |-> {}]
InReadings == [t \in TheTexts |-> IF t = "dell" THEN TheDocs ELSE {}]
=============================================================================
