-------------------------- MODULE MCEvidenceCache --------------------------
(* Small instances of EvidenceCache for TLC.                               *)
EXTENDS EvidenceCache

MCSizes == {1, 3, 4}
=============================================================================
