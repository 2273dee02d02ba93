------------------------------- MODULE Region -------------------------------
(***************************************************************************)
(* The region properties (rust/src/region/mod.rs): the daemon sets them as *)
(* configured when it starts and when their configuration changes, and     *)
(* keeps a snapshot of what they were to put back.                         *)
(***************************************************************************)
EXTENDS Naturals

CONSTANTS
    RegionProps,      \* the properties
    RegionValues,     \* the values they may be given
    Booted,           \* the values they boot with, "" for none
    MaxRegionFaults   \* bound: applies and snapshots that go wrong

RegionTexts == RegionValues \cup {""}
RegionMaps == [RegionProps -> RegionTexts]
RegionConfigs == [enabled : BOOLEAN, value : RegionMaps]

ASSUME RegionAssumption ==
    /\ Booted \in RegionMaps
    /\ MaxRegionFaults \in Nat

VARIABLES
    region_props,    \* the properties now
    snapshot,        \* region.snapshot.json: "kept" with its map, "none" or "damaged"
    region_file,     \* the region section of the configuration file
    region_active,   \* and of the running daemon, NoRegion while there is none
    undone,          \* history: the last apply was to put everything back, and could
    loose,           \* history: since the boot, properties were set that no snapshot holds
    spoiled,         \* history: the snapshot in use was captured after that
    region_faults

regionVars == <<region_props, snapshot, region_file, region_active, undone, loose, spoiled, region_faults>>

Blanks == [p \in RegionProps |-> ""]
NoSnapshot == [state |-> "none", value |-> Blanks]
Damaged    == [state |-> "damaged", value |-> Blanks]
NoRegion   == [enabled |-> FALSE, value |-> [p \in RegionProps |-> "none"]]

-----------------------------------------------------------------------------

\* Mutant of load_or_capture_snapshot: always what the properties are now.
capture_snapshot == region_props

\* The snapshot, or what the properties are now if it is missing or does not parse.
load_or_capture_snapshot == IF snapshot.state = "kept" THEN snapshot.value ELSE region_props

\* What apply gives a property; "" leaves it alone.
Wanted(config, originals, p) ==
    IF config.enabled /\ config.value[p] # "" THEN config.value[p] ELSE originals[p]

\* apply: keep the snapshot, if there is none and the file can be written, and
\* set the properties.  resetprop-rs may fail for some, and apply goes on.
Apply(config) ==
    LET originals == load_or_capture_snapshot
        toSet == {p \in RegionProps : Wanted(config, originals, p) # ""}
    IN  \E persisted \in BOOLEAN, done \in SUBSET toSet :
          LET smooth == persisted /\ done = toSet
          IN  /\ snapshot.state = "kept" => persisted
              /\ smooth \/ region_faults < MaxRegionFaults
              /\ region_faults' = IF smooth THEN region_faults ELSE region_faults + 1
              /\ snapshot' = IF persisted THEN [state |-> "kept", value |-> originals] ELSE snapshot
              /\ region_props' = [p \in RegionProps |->
                                    IF p \in done THEN Wanted(config, originals, p)
                                    ELSE region_props[p]]
              /\ undone' = (~config.enabled /\ done = toSet)
              /\ loose' = (loose \/ ~persisted)
              /\ spoiled' = IF snapshot.state = "kept" THEN spoiled ELSE loose

\* The daemon starts (daemon/mod.rs).
RegionStart ==
    /\ region_active = NoRegion
    /\ region_active' = region_file
    /\ Apply(region_file)
    /\ UNCHANGED region_file

\* A reload applies a changed section (daemon/mod.rs).
RegionReload ==
    /\ region_active # NoRegion /\ region_file # region_active
    /\ region_active' = region_file
    /\ Apply(region_file)
    /\ UNCHANGED region_file

RegionConfigured ==
    /\ region_file' \in RegionConfigs \ {region_file}
    /\ UNCHANGED <<region_props, snapshot, region_active, undone, loose, spoiled, region_faults>>

\* The daemon ends; a reboot also brings the properties back.
RegionStop ==
    /\ region_active # NoRegion
    /\ region_active' = NoRegion
    /\ UNCHANGED <<region_props, snapshot, region_file, undone, loose, spoiled, region_faults>>

RegionReboot ==
    /\ region_active' = NoRegion
    /\ region_props' = Booted
    /\ undone' = FALSE
    /\ loose' = FALSE
    /\ UNCHANGED <<snapshot, region_file, spoiled, region_faults>>

\* The snapshot gets lost or unreadable.
SnapshotDamaged ==
    /\ snapshot.state = "kept" /\ region_faults < MaxRegionFaults
    /\ region_faults' = region_faults + 1
    /\ snapshot' \in {NoSnapshot, Damaged}
    /\ loose' = TRUE
    /\ UNCHANGED <<region_props, region_file, region_active, undone, spoiled>>

RegionInit ==
    /\ region_props = Booted
    /\ snapshot = NoSnapshot
    /\ region_file = [enabled |-> TRUE, value |-> Booted]    \* customize.sh
    /\ region_active = NoRegion
    /\ undone = FALSE /\ loose = FALSE /\ spoiled = FALSE
    /\ region_faults = 0

RegionNext ==
    RegionStart \/ RegionReload \/ RegionConfigured \/ RegionStop \/ RegionReboot \/ SnapshotDamaged

RegionSpec == RegionInit /\ [][RegionNext]_regionVars

-----------------------------------------------------------------------------
(* Properties *)

RegionTypeOK ==
    /\ region_props \in RegionMaps
    /\ snapshot \in [state : {"kept", "none", "damaged"}, value : RegionMaps]
    /\ region_file \in RegionConfigs
    /\ region_active \in RegionConfigs \cup {NoRegion}
    /\ undone \in BOOLEAN /\ loose \in BOOLEAN /\ spoiled \in BOOLEAN
    /\ region_faults \in 0..MaxRegionFaults

\* Switching the region off puts back what the device booted with, however
\* often it was reconfigured, restarted and rebooted before, unless a snapshot
\* had to be captured from properties already changed (apply and
\* load_or_capture_snapshot).  A property that booted without a value is left.
RegionUndone ==
    undone /\ ~spoiled =>
        \A p \in RegionProps : Booted[p] # "" => region_props[p] = Booted[p]
=============================================================================
