-------------------------- MODULE MCConfigReload --------------------------
(* One valid value besides the default, one legacy value that validate turns *)
(* into the default with a warning, and one that it turns into the valid     *)
(* value without.                                                            *)
EXTENDS ConfigReload

CONSTANTS other, silent

MCClamp == [c \in Configs |-> IF c \in Legacy THEN Default
                             ELSE IF c = silent THEN other ELSE c]
=============================================================================
