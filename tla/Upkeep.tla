------------------------------- MODULE Upkeep -------------------------------
(***************************************************************************)
(* Five components that keep the phone's files and properties in order and *)
(* share no state: the daemon's tasks keybox, security_patch and status    *)
(* (rust/src/daemon/tasks.rs), keybox::validate and region::apply.  A      *)
(* behaviour is one of one of them: `part' says whose, and the others stay *)
(* where they start.  As none looks at another's variables, interleaving   *)
(* them would add nothing.                                                 *)
(***************************************************************************)
EXTENDS Keybox, KeyboxValidation, SecurityPatch, Region, Status

VARIABLE part

upkeepVars == <<part, keyboxVars, validationVars, patchVars, regionVars, statusVars>>

Parts == {"keybox", "validation", "patch", "region", "status"}

UpkeepInit ==
    /\ part \in Parts
    /\ KeyboxInit /\ ValidationInit /\ PatchInit /\ RegionInit /\ StatusInit

UpkeepNext ==
    /\ \/ /\ part = "keybox" /\ KeyboxNext
          /\ UNCHANGED <<validationVars, patchVars, regionVars, statusVars>>
       \/ /\ part = "validation" /\ ValidationNext
          /\ UNCHANGED <<keyboxVars, patchVars, regionVars, statusVars>>
       \/ /\ part = "patch" /\ PatchNext
          /\ UNCHANGED <<keyboxVars, validationVars, regionVars, statusVars>>
       \/ /\ part = "region" /\ RegionNext
          /\ UNCHANGED <<keyboxVars, validationVars, patchVars, statusVars>>
       \/ /\ part = "status" /\ StatusNext
          /\ UNCHANGED <<keyboxVars, validationVars, patchVars, regionVars>>
    /\ UNCHANGED part

UpkeepSpec == UpkeepInit /\ [][UpkeepNext]_upkeepVars

\* The fairness of KeyboxFairSpec and StatusFairSpec.
UpkeepFairness ==
    /\ WF_keyboxVars(part = "keybox" /\ DaemonStep /\ KeyboxHistory)
    /\ WF_statusVars(part = "status" /\ StatusDaemonStep)

\* The type invariants of the five components (the daemon's tasks keybox,
\* security_patch and status, keybox::validate and region::apply).
UpkeepTypeOK ==
    KeyboxTypeOK /\ ValidationTypeOK /\ PatchTypeOK /\ RegionTypeOK /\ StatusTypeOK
=============================================================================
