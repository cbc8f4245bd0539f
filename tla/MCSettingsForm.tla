--------------------------- MODULE MCSettingsForm ---------------------------
(* Every section of the settings pages, with two options of its own.         *)
EXTENDS SettingsForm
=============================================================================
