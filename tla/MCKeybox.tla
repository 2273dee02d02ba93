------------------------------ MODULE MCKeybox ------------------------------
(* Two accepted keyboxes, the one the device generates, and one command.     *)
EXTENDS Keybox
TheSources == <<"yurikey", "upstream", "custom">>
=============================================================================
