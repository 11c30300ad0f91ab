------------------------- MODULE MCSettingsRestart -------------------------
(* Two requests: one phone that confirms, another phone or the updater beside *)
(* it.  The bounds keep the order of the code's: 5 s + 8 s + 5 s within 30 s.  *)
EXTENDS SettingsRestart
=============================================================================
