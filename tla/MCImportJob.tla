----------------------------- MODULE MCImportJob -----------------------------
(* Values for small instances of ImportJob.                                  *)
EXTENDS ImportJob

CONSTANTS w1, w2

\* The third row repeats the key of the first.
RepeatedKey == [r \in Rows |-> IF r = 2 THEN "b" ELSE "a"]
=============================================================================
