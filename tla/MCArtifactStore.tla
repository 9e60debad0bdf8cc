--------------------------- MODULE MCArtifactStore ---------------------------
(* Writers that race for one identity with equal and with other contents:  *)
(* the constants are model values in the .cfg files.                       *)
EXTENDS ArtifactStore
=============================================================================
