----------------------------- MODULE MCScanService -----------------------------
(* The instances of ScanService that TLC checks. *)
EXTENDS ScanService, TLC

\* Uploads are interchangeable.
Symmetry == Permutations(Scans)
================================================================================
