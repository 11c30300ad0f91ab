---------------------------- MODULE MCLegacyMove ----------------------------
(* Two archives, the first one of those the settings document names: two are *)
(* the fewest for a move to be refused or cut off between them.              *)
EXTENDS LegacyMove
NamedFolders == {1}
=============================================================================
