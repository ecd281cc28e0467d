----------------------------- MODULE MCExportJob -----------------------------
(* Small instances of ExportJob for TLC.                                     *)
EXTENDS ExportJob

CONSTANTS w1, w2

OneNode == [w \in Workers |-> "node"]
TwoNodes == [w \in Workers |-> IF w = w1 THEN "node1" ELSE "node2"]
=============================================================================
