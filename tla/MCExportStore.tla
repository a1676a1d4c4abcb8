---------------------------- MODULE MCExportStore ----------------------------
(* Small instances of ExportStore for TLC.                                 *)
EXTENDS ExportStore, TLC

(* Exports and downloads are interchangeable.                              *)
Symmetric == Permutations(Exports) \cup Permutations(Downloads)
=============================================================================
