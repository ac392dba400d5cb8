------------------------- MODULE MCWorkspaceDocuments -------------------------
(* Instances of WorkspaceDocuments for TLC.                                *)
EXTENDS WorkspaceDocuments, TLC

Interchangeable == Permutations(Clients) \cup Permutations(Documents) \cup Permutations(Bodies)

=============================================================================
