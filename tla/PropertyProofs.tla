--------------------------- MODULE PropertyProofs ---------------------------
(* The system properties: switching the region off gives back what the      *)
(* device booted with, and an operation on the security patch dates that     *)
(* reports success leaves the date it was asked for, for any values, pages,  *)
(* instants, retries and number of faults.                                   *)
EXTENDS Region, SecurityPatch, WellFoundedInduction, TLAPS

-----------------------------------------------------------------------------
(* The region. *)

Snapshots == [state : {"kept", "none", "damaged"}, value : RegionMaps]

LEMMA NoSnapshotType == NoSnapshot \in Snapshots /\ Damaged \in Snapshots
<1>1. Blanks \in RegionMaps
  BY DEF Blanks, RegionMaps, RegionTexts
<1> QED
  BY <1>1 DEF NoSnapshot, Damaged, Snapshots

LEMMA RegionTypeInit == RegionInit => RegionTypeOK
<1> SUFFICES ASSUME RegionInit PROVE RegionTypeOK
  OBVIOUS
<1>1. region_props \in RegionMaps /\ region_file \in RegionConfigs
  BY RegionAssumption DEF RegionInit, RegionConfigs
<1>2. snapshot \in Snapshots
  BY NoSnapshotType DEF RegionInit
<1>3. region_active \in RegionConfigs \cup {NoRegion}
  BY DEF RegionInit
<1>4. undone \in BOOLEAN /\ loose \in BOOLEAN /\ spoiled \in BOOLEAN
  BY DEF RegionInit
<1>5. region_faults \in 0..MaxRegionFaults
  BY RegionAssumption DEF RegionInit
<1> QED
  BY <1>1, <1>2, <1>3, <1>4, <1>5 DEF RegionTypeOK, Snapshots

\* What the snapshot gives, kept or captured anew, is a value for each property.
LEMMA OriginalsType ==
    ASSUME RegionTypeOK
    PROVE  load_or_capture_snapshot \in RegionMaps
BY DEF RegionTypeOK, load_or_capture_snapshot

LEMMA OneMore ==
    ASSUME NEW m \in Nat, NEW n \in 0..m, n < m
    PROVE  n + 1 \in 0..m
OBVIOUS

LEMMA ApplyType ==
    ASSUME RegionTypeOK, NEW config \in RegionConfigs, Apply(config)
    PROVE  /\ region_props' \in RegionMaps
           /\ snapshot' \in [state : {"kept", "none", "damaged"}, value : RegionMaps]
           /\ undone' \in BOOLEAN /\ loose' \in BOOLEAN /\ spoiled' \in BOOLEAN
           /\ region_faults' \in 0..MaxRegionFaults
<1> DEFINE originals == load_or_capture_snapshot
           Set(p) == Wanted(config, originals, p)
<1>1. originals \in RegionMaps
  BY OriginalsType
<1>2. \A p \in RegionProps : Set(p) \in RegionTexts
  BY <1>1 DEF Wanted, RegionMaps, RegionConfigs
<1>3. PICK persisted \in BOOLEAN, done \in SUBSET {p \in RegionProps : Set(p) # ""} :
        /\ region_faults < MaxRegionFaults \/ region_faults' = region_faults
        /\ region_faults' = region_faults \/ region_faults' = region_faults + 1
        /\ snapshot' = IF persisted THEN [state |-> "kept", value |-> originals] ELSE snapshot
        /\ region_props' = [p \in RegionProps |-> IF p \in done THEN Set(p) ELSE region_props[p]]
        /\ undone' \in BOOLEAN
        /\ loose' = (loose \/ ~persisted)
        /\ spoiled' = IF snapshot.state = "kept" THEN spoiled ELSE loose
  BY DEF Apply
<1>4. region_props' \in RegionMaps
  BY <1>2, <1>3 DEF RegionTypeOK, RegionMaps
<1>5. snapshot' \in Snapshots
  BY <1>1, <1>3 DEF RegionTypeOK, Snapshots
<1>6. region_faults' \in 0..MaxRegionFaults
  <2>1. region_faults \in 0..MaxRegionFaults /\ MaxRegionFaults \in Nat
    BY RegionAssumption DEF RegionTypeOK
  <2>2. CASE region_faults' = region_faults
    BY <2>1, <2>2
  <2>3. CASE region_faults' = region_faults + 1 /\ region_faults < MaxRegionFaults
    BY <2>1, <2>3, OneMore
  <2>4. region_faults' \in {region_faults, region_faults + 1}
    BY <1>3
  <2> QED
    BY <1>3, <2>2, <2>3, <2>4
<1>7. undone' \in BOOLEAN /\ loose' \in BOOLEAN /\ spoiled' \in BOOLEAN
  BY <1>3, Zenon DEF RegionTypeOK
<1> QED
  BY <1>4, <1>5, <1>6, <1>7 DEF Snapshots

LEMMA RegionTypeStep ==
    ASSUME RegionTypeOK, [RegionNext]_regionVars
    PROVE  RegionTypeOK'
<1>1. CASE RegionStart
  BY <1>1, ApplyType DEF RegionStart, RegionTypeOK
<1>2. CASE RegionReload
  BY <1>2, ApplyType DEF RegionReload, RegionTypeOK
<1>3. CASE RegionConfigured
  BY <1>3 DEF RegionConfigured, RegionTypeOK
<1>4. CASE RegionStop
  BY <1>4 DEF RegionStop, RegionTypeOK
<1>5. CASE RegionReboot
  BY <1>5, RegionAssumption DEF RegionReboot, RegionTypeOK
<1>6. CASE SnapshotDamaged
  BY <1>6, NoSnapshotType, RegionAssumption DEF SnapshotDamaged, RegionTypeOK, Snapshots
<1>7. CASE UNCHANGED regionVars
  BY <1>7 DEF regionVars, RegionTypeOK
<1> QED
  BY <1>1, <1>2, <1>3, <1>4, <1>5, <1>6, <1>7 DEF RegionNext

\* Every property, set or captured, has a text; every snapshot is whole.
THEOREM RegionTypeCorrect == RegionSpec => []RegionTypeOK
<1>1. RegionTypeOK /\ [RegionNext]_regionVars => RegionTypeOK'
  BY RegionTypeStep
<1> QED
  BY RegionTypeInit, <1>1, PTL DEF RegionSpec

-----------------------------------------------------------------------------
\* The inductive invariant.  Where there is no snapshot, the properties are
\* those of the boot, unless they were set without one; and so a snapshot that
\* was not captured after that holds those of the boot.
Untouched == snapshot.state # "kept" /\ ~loose => region_props = Booted
SnapshotHolds == snapshot.state = "kept" /\ ~spoiled => snapshot.value = Booted

RegionInv == RegionTypeOK /\ Untouched /\ SnapshotHolds /\ RegionUndone

LEMMA RegionInvInit == RegionInit => RegionInv
BY RegionTypeInit DEF RegionInit, RegionInv, Untouched, SnapshotHolds, RegionUndone, NoSnapshot

\* apply works from the properties of the boot, unless it says otherwise.
LEMMA ApplyStep ==
    ASSUME RegionInv, NEW config \in RegionConfigs, Apply(config)
    PROVE  Untouched' /\ SnapshotHolds' /\ RegionUndone'
<1> DEFINE originals == load_or_capture_snapshot
           Set(p) == Wanted(config, originals, p)
           toSet == {p \in RegionProps : Set(p) # ""}
<1>1. PICK persisted \in BOOLEAN, done \in SUBSET toSet :
        /\ snapshot.state = "kept" => persisted
        /\ snapshot' = IF persisted THEN [state |-> "kept", value |-> originals] ELSE snapshot
        /\ region_props' = [p \in RegionProps |-> IF p \in done THEN Set(p) ELSE region_props[p]]
        /\ undone' = (~config.enabled /\ done = toSet)
        /\ loose' = (loose \/ ~persisted)
        /\ spoiled' = IF snapshot.state = "kept" THEN spoiled ELSE loose
  BY Zenon DEF Apply
<1>2. ~spoiled' => originals = Booted
  BY <1>1 DEF RegionInv, Untouched, SnapshotHolds, load_or_capture_snapshot
<1>3. snapshot'.state = "kept" <=> persisted
  BY <1>1
<1>4. Untouched'
  BY <1>1, <1>3 DEF Untouched
<1>5. SnapshotHolds'
  BY <1>1, <1>2, <1>3 DEF SnapshotHolds
<1>6. RegionUndone'
  <2> SUFFICES ASSUME undone', ~spoiled', NEW p \in RegionProps, Booted[p] # ""
               PROVE  region_props'[p] = Booted[p]
    BY DEF RegionUndone
  <2>1. Set(p) = Booted[p]
    BY <1>1, <1>2 DEF Wanted
  <2> QED
    BY <1>1, <2>1
<1> QED
  BY <1>4, <1>5, <1>6

LEMMA RegionInvStep ==
    ASSUME RegionInv, [RegionNext]_regionVars
    PROVE  RegionInv'
<1>1. RegionTypeOK'
  BY RegionTypeStep DEF RegionInv
<1>2. region_file \in RegionConfigs
  BY DEF RegionInv, RegionTypeOK
<1> USE DEF Untouched, SnapshotHolds, RegionUndone
<1>3. CASE RegionStart
  BY <1>1, <1>2, <1>3, ApplyStep DEF RegionStart, RegionInv
<1>4. CASE RegionReload
  BY <1>1, <1>2, <1>4, ApplyStep DEF RegionReload, RegionInv
<1>5. CASE RegionConfigured \/ RegionStop
  <2>1. region_props' = region_props /\ snapshot' = snapshot /\ undone' = undone
    BY <1>5 DEF RegionConfigured, RegionStop
  <2>2. loose' = loose /\ spoiled' = spoiled
    BY <1>5 DEF RegionConfigured, RegionStop
  <2>3. Untouched' /\ SnapshotHolds' /\ RegionUndone'
    BY <2>1, <2>2 DEF RegionInv
  <2> QED
    BY <1>1, <2>3 DEF RegionInv
<1>6. CASE RegionReboot
  <2>1. region_props' = Booted /\ undone' = FALSE /\ snapshot' = snapshot /\ spoiled' = spoiled
    BY <1>6 DEF RegionReboot
  <2>2. Untouched' /\ SnapshotHolds' /\ RegionUndone'
    BY <2>1 DEF RegionInv
  <2> QED
    BY <1>1, <2>2 DEF RegionInv
<1>7. CASE SnapshotDamaged
  <2>1. snapshot'.state # "kept"
    BY <1>7 DEF SnapshotDamaged, NoSnapshot, Damaged
  <2>2. loose' = TRUE /\ region_props' = region_props /\ undone' = undone /\ spoiled' = spoiled
    BY <1>7 DEF SnapshotDamaged
  <2>3. Untouched' /\ SnapshotHolds' /\ RegionUndone'
    BY <2>1, <2>2 DEF RegionInv
  <2> QED
    BY <1>1, <2>3 DEF RegionInv
<1>8. CASE UNCHANGED regionVars
  BY <1>1, <1>8 DEF regionVars, RegionInv
<1> QED
  BY <1>3, <1>4, <1>5, <1>6, <1>7, <1>8 DEF RegionNext

\* Switching the region off puts back what the device booted with, unless a
\* snapshot had to be captured from properties already changed (apply and
\* load_or_capture_snapshot).
THEOREM UndoneIsBooted == RegionSpec => []RegionUndone
<1>1. RegionInv /\ [RegionNext]_regionVars => RegionInv'
  BY RegionInvStep
<1>2. RegionInv => RegionUndone
  BY DEF RegionInv
<1> QED
  BY RegionInvInit, <1>1, <1>2, PTL DEF RegionSpec

-----------------------------------------------------------------------------
(* The dates. *)

\* A set of numbers that is not empty has a least one.
LEMMA MinOf ==
    ASSUME NEW T \in SUBSET Nat, T # {}
    PROVE  Min(T) \in T
<1>1. PICK n \in T : \A m \in T : ~(<<m, n>> \in OpToRel(<, Nat))
  BY NatLessThanWellFounded, WFMin
<1>2. \A m \in T : ~(m < n)
  BY <1>1 DEF OpToRel
<1>3. \A m \in T : n <= m
  BY <1>2
<1> QED
  BY <1>3 DEF Min

LEMMA UnsetIsDate == Unset \in Dates
BY DEF Unset, Dates

LEMMA FirstSetType ==
    ASSUME NEW texts \in Seq(Dates)
    PROVE  FirstSet(texts) \in Dates
<1> DEFINE known == {i \in DOMAIN texts : texts[i] # Unset}
<1>1. known \in SUBSET Nat /\ \A i \in known : texts[i] \in Dates
  OBVIOUS
<1>2. CASE known = {}
  BY <1>2, UnsetIsDate DEF FirstSet
<1>3. CASE known # {}
  <2>1. Min(known) \in known
    BY <1>1, <1>3, MinOf
  <2>2. FirstSet(texts) = texts[Min(known)]
    BY <1>3 DEF FirstSet
  <2> QED
    BY <1>1, <2>1, <2>2
<1> QED
  BY <1>2, <1>3

\* What is found on a page is one of its dates.
LEMMA ParsedDate ==
    ASSUME NEW page \in Seq(Line)
    PROVE  parse_patch_date(page) \in Dates
<1> DEFINE dates == {i \in DOMAIN page : page[i].date # Unset}
           cells == {i \in dates : page[i].cell}
<1>1. dates \in SUBSET Nat /\ cells \in SUBSET Nat /\ cells \subseteq dates
  OBVIOUS
<1>2. ASSUME NEW i \in dates PROVE page[i].date \in Dates
  <2>1. page[i] \in Line
    OBVIOUS
  <2> QED
    BY <2>1 DEF Line
<1>3. CASE cells # {}
  <2>1. Min(cells) \in cells
    BY <1>1, <1>3, MinOf
  <2>2. parse_patch_date(page) = page[Min(cells)].date
    BY <1>3 DEF parse_patch_date
  <2> QED
    BY <1>1, <1>2, <2>1, <2>2
<1>4. CASE cells = {} /\ dates # {}
  <2>1. Min(dates) \in dates
    BY <1>1, <1>4, MinOf
  <2>2. parse_patch_date(page) = page[Min(dates)].date
    BY <1>4 DEF parse_patch_date
  <2> QED
    BY <1>2, <2>1, <2>2
<1>5. CASE cells = {} /\ dates = {}
  <2>1. parse_patch_date(page) = IF cells # {} THEN page[Min(cells)].date
                                 ELSE IF dates # {} THEN page[Min(dates)].date ELSE Unset
    BY DEF parse_patch_date
  <2> HIDE DEF cells, dates
  <2> QED
    BY <1>5, <2>1, UnsetIsDate
<1> QED
  BY <1>3, <1>4, <1>5

\* approx_month is a month, whatever the time; the branch that caps it is never taken.
LEMMA ApproxMonth ==
    ASSUME NEW now \in Nat
    PROVE  approx_year(now) \in Nat /\ approx_month(now) \in 1 .. 12
BY DEF approx_year, approx_month, HalfHoursInYear, HalfHoursInMonth

LEMMA FallbackDate ==
    ASSUME NEW now \in Nat
    PROVE  /\ fallback_patch_date(now) \in Dates
           /\ fallback_patch_date(now)[2] \in 1 .. 12
<1>1. derive_current_month_date(now) = <<approx_year(now), approx_month(now), 1>>
  BY ApproxMonth DEF derive_current_month_date
<1>2. derive_current_month_date(now) \in Dates /\ derive_current_month_date(now)[2] \in 1 .. 12
  BY <1>1, ApproxMonth DEF Dates
<1> QED
  BY <1>2, PatchAssumption DEF fallback_patch_date

Txts == [system : Dates, boot : Dates, vendor : Dates]

LEMMA ThriceType ==
    ASSUME NEW date \in Dates
    PROVE  Thrice(date) \in Txts /\ Thrice(date).system = date
BY DEF Thrice, Txts

LEMMA NothingType == NoFile \in Txts
BY UnsetIsDate DEF NoFile, Txts

LEMMA DeviceDates ==
    ASSUME properties \in DateMap
    PROVE  read_device_dates \in Txts
<1>1. properties.system \in Dates /\ properties.vendor \in Dates /\ properties.bootimage \in Dates
  BY DEF DateMap
<1>2. <<properties.bootimage, properties.vendor, properties.system>> \in Seq(Dates)
      /\ <<properties.vendor, properties.system>> \in Seq(Dates)
  BY <1>1
<1> QED
  BY <1>1, <1>2, FirstSetType DEF read_device_dates, Txts

LEMMA OwnDates ==
    ASSUME properties \in DateMap, NEW date \in Dates, NEW own
    PROVE  [f \in DOMAIN NoFile |-> IF f \in own THEN read_device_dates[f] ELSE date] \in Txts
<1> DEFINE dates == [f \in DOMAIN NoFile |-> IF f \in own THEN read_device_dates[f] ELSE date]
<1>1. DOMAIN NoFile = {"system", "boot", "vendor"}
  BY DEF NoFile
<1>2. \A f \in {"system", "boot", "vendor"} : read_device_dates[f] \in Dates
  BY DeviceDates DEF Txts
<1>3. \A f \in {"system", "boot", "vendor"} : dates[f] \in Dates
  BY <1>1, <1>2
<1>4. dates = [system |-> dates["system"], boot |-> dates["boot"], vendor |-> dates["vendor"]]
  BY <1>1
<1> QED
  BY <1>3, <1>4 DEF Txts

LEMMA LegacyType ==
    ASSUME properties \in DateMap, NEW dates \in Txts
    PROVE  /\ LegacyProperties(dates) \in DateMap
           /\ LegacyProperties(dates).system = dates.system
           /\ \A part : [f \in DOMAIN properties |->
                           IF f \in part THEN LegacyProperties(dates)[f] ELSE properties[f]] \in DateMap
<1> DEFINE new == LegacyProperties(dates)
<1>1. new \in DateMap /\ new.system = dates.system
  BY DEF LegacyProperties, DateMap, Txts
<1>2. ASSUME NEW part
      PROVE  [f \in DOMAIN properties |-> IF f \in part THEN new[f] ELSE properties[f]] \in DateMap
  <2> DEFINE mix == [f \in DOMAIN properties |-> IF f \in part THEN new[f] ELSE properties[f]]
  <2> HIDE DEF new
  <2>1. DOMAIN properties = {"system", "bootimage", "vendor"}
    BY DEF DateMap
  <2>2. \A f \in {"system", "bootimage", "vendor"} : new[f] \in Dates /\ properties[f] \in Dates
    BY <1>1 DEF DateMap
  <2>3. \A f \in {"system", "bootimage", "vendor"} : mix[f] \in Dates
    BY <2>1, <2>2
  <2>4. mix = [system |-> mix["system"], bootimage |-> mix["bootimage"], vendor |-> mix["vendor"]]
    BY <2>1
  <2> QED
    BY <2>3, <2>4 DEF DateMap
<1> QED
  BY <1>1, <1>2

-----------------------------------------------------------------------------
(* Every operation leaves what it was asked for, or does not claim to. *)

Kinds   == {"none", "custom", "device", "table", "bulletin"}
Results == {"ok", "found", "missed", "err"}

PatchTypes ==
    /\ store \in Stores /\ clock \in Instants
    /\ custom_date \in CustomDates \cup {Unset}
    /\ properties \in DateMap /\ patch_txt \in Txts
    /\ devconfig \in [line : Dates, comment : Dates, shared : BOOLEAN]
    /\ patch_faults \in 0 .. MaxPatchFaults
    /\ applied \in [kind : Kinds, dates : Txts, result : Results]

\* The date of an automatic update without the bulletin is the table's or the clock's.
TableDate == applied.kind = "table" => applied.dates.system = fallback_patch_date(clock)

PatchInv == PatchTypes /\ TableDate /\ AskedDateHolds

LEMMA SamePrefix ==
    ASSUME NEW date \in Dates
    PROVE  IsPrefix(date, date)
BY DEF Dates, IsPrefix

LEMMA MaybeOneMore ==
    ASSUME NEW m \in Nat, NEW n \in 0 .. m, n < m
    PROVE  n + 1 \in 0 .. m
OBVIOUS

\* What asks for dates keeps the files and properties it does not write.
Stays == UNCHANGED <<store, clock, custom_date>>

LEMMA SucceedsInv ==
    ASSUME PatchInv, NEW kind \in Kinds, NEW dates \in Txts, Stays,
           kind = "table" => dates.system = fallback_patch_date(clock),
           Succeeds(kind, dates)
    PROVE  PatchInv'
<1>0. PatchTypes /\ store' = store /\ clock' = clock /\ custom_date' = custom_date
      /\ Variant' = Variant /\ dates.system \in Dates
  BY DEF PatchInv, Stays, Variant, Txts
<1>1. applied' = [kind |-> kind, dates |-> dates, result |-> "ok"] /\ patch_faults' = patch_faults
  BY DEF Succeeds
<1>2. patch_txt' \in Txts /\ (Variant = "Standard" => patch_txt' = dates)
  BY <1>0 DEF Succeeds, PatchTypes
<1>3. properties' \in DateMap /\ (Variant = "Legacy" => properties'.system = dates.system)
  BY <1>0, LegacyType DEF Succeeds, PatchTypes
<1>4. /\ devconfig' \in [line : Dates, comment : Dates, shared : BOOLEAN]
      /\ devconfig'.comment = devconfig.comment /\ devconfig'.shared = devconfig.shared
      /\ Variant = "James" => devconfig'.line = JamesLine(dates.system)
  <2>1. JamesLine(dates.system) \in Dates
    BY <1>0, UnsetIsDate DEF JamesLine
  <2> QED
    BY <1>0, <2>1 DEF Succeeds, PatchTypes
<1>5. PatchTypes'
  BY <1>0, <1>1, <1>2, <1>3, <1>4 DEF PatchTypes, Results
<1>6. TableDate'
  BY <1>0, <1>1 DEF TableDate
<1>7. AskedDateHolds'
  <2> SUFFICES ASSUME ~(Variant = "James" /\ Unwritable') PROVE IsPrefix(dates.system, Effective')
    BY <1>0, <1>1 DEF AskedDateHolds
  <2>1. CASE Variant = "Standard"
    BY <1>0, <1>2, <2>1, SamePrefix DEF Effective
  <2>2. CASE Variant = "Legacy"
    BY <1>0, <1>3, <2>2, SamePrefix DEF Effective
  <2>3. CASE Variant = "James"
    <3>1. ~Unwritable
      BY <1>4, <2>3 DEF Unwritable, JamesLine
    <3>2. devconfig'.line = dates.system
      BY <1>4, <2>3, <3>1 DEF JamesLine
    <3> QED
      BY <1>0, <2>3, <3>2, SamePrefix DEF Effective
  <2> QED
    BY <2>1, <2>2, <2>3 DEF Variant, detect_variant
<1> QED
  BY <1>5, <1>6, <1>7 DEF PatchInv

LEMMA PatchFailsInv ==
    ASSUME PatchInv, NEW kind \in Kinds, NEW dates \in Txts, Stays,
           kind = "table" => dates.system = fallback_patch_date(clock),
           Fails(kind, dates)
    PROVE  PatchInv'
<1>0. PatchTypes /\ store' = store /\ clock' = clock /\ custom_date' = custom_date
      /\ patch_txt' = patch_txt /\ devconfig' = devconfig
  BY DEF PatchInv, Stays, Fails
<1>1. PICK result \in {"missed", "err"} :
        applied' = [kind |-> kind, dates |-> dates, result |-> result]
  BY DEF Fails
<1>2. properties' \in DateMap
  <2>1. properties \in DateMap
    BY <1>0 DEF PatchTypes
  <2>2. properties' = properties
        \/ \E part : properties' = [f \in DOMAIN properties |->
                                     IF f \in part THEN LegacyProperties(dates)[f] ELSE properties[f]]
    BY DEF Fails
  <2> QED
    BY <2>1, <2>2, LegacyType
<1>3. patch_faults' \in 0 .. MaxPatchFaults
  <2>1. MaxPatchFaults \in Nat /\ patch_faults \in 0 .. MaxPatchFaults
        /\ patch_faults < MaxPatchFaults /\ patch_faults' = patch_faults + 1
    BY <1>0, PatchAssumption DEF Fails, PatchTypes
  <2> QED
    BY <2>1
<1>4. PatchTypes'
  BY <1>0, <1>1, <1>2, <1>3 DEF PatchTypes, Results
<1>5. AskedDateHolds'
  BY <1>1 DEF AskedDateHolds
<1>6. TableDate'
  BY <1>0, <1>1 DEF PatchInv, TableDate
<1> QED
  BY <1>4, <1>5, <1>6 DEF PatchInv

LEMMA WriteInv ==
    ASSUME PatchInv, NEW kind \in Kinds, NEW dates \in Txts, Stays,
           kind = "table" => dates.system = fallback_patch_date(clock),
           write_patch_dates(kind, dates)
    PROVE  PatchInv'
BY SucceedsInv, PatchFailsInv DEF write_patch_dates

\* A date found in place is in effect, unless James' file has it in a comment.
LEMMA MatchInv ==
    ASSUME PatchInv, NEW kind \in Kinds \ {"table"}, NEW dates \in Txts, Stays,
           dates.system # Unset, patch_file_already_matches(dates), Left(kind, dates, "found")
    PROVE  PatchInv'
<1>0. PatchTypes /\ UNCHANGED <<store, clock, custom_date, properties, patch_txt, devconfig, patch_faults>>
  BY DEF PatchInv, Stays, Left
<1>1. applied' = [kind |-> kind, dates |-> dates, result |-> "found"]
  BY DEF Left
<1>2. PatchTypes'
  BY <1>0, <1>1 DEF PatchTypes, Results
<1>3. AskedDateHolds'
  <2>0. Variant' = Variant /\ Effective' = Effective
    BY <1>0 DEF Variant, Effective
  <2> SUFFICES ASSUME ~(Variant = "James" /\ devconfig.comment = dates.system)
               PROVE  IsPrefix(dates.system, Effective)
    BY <1>0, <1>1, <2>0 DEF AskedDateHolds, Commented
  <2>1. CASE Variant = "Standard"
    <3>1. \A part \in DOMAIN dates : IsPrefix(dates[part], patch_txt[part])
      BY <2>1 DEF patch_file_already_matches
    <3>2. "system" \in DOMAIN dates
      BY DEF Txts
    <3> QED
      BY <2>1, <3>1, <3>2 DEF Effective
  <2>2. CASE Variant = "James"
    <3>1. dates.system \in {devconfig.line, devconfig.comment}
      BY <2>2 DEF patch_file_already_matches
    <3>2. devconfig.line = dates.system
      BY <2>2, <3>1
    <3>3. dates.system \in Dates
      BY DEF Txts
    <3> QED
      BY <2>2, <3>2, <3>3, SamePrefix DEF Effective
  <2>3. CASE Variant = "Legacy"
    BY <2>3 DEF patch_file_already_matches
  <2> QED
    BY <2>1, <2>2, <2>3 DEF Variant, detect_variant
<1>4. TableDate'
  BY <1>0, <1>1 DEF PatchInv, TableDate
<1> QED
  BY <1>2, <1>3, <1>4 DEF PatchInv

LEMMA LeftInv ==
    ASSUME PatchInv, NEW kind \in Kinds \ {"table"}, NEW dates \in Txts, Stays,
           Left(kind, dates, "err")
    PROVE  PatchInv'
<1>1. PatchTypes /\ UNCHANGED <<store, clock, custom_date, properties, patch_txt, devconfig, patch_faults>>
      /\ applied' = [kind |-> kind, dates |-> dates, result |-> "err"]
  BY DEF PatchInv, Stays, Left
<1>2. PatchTypes'
  BY <1>1 DEF PatchTypes, Results
<1>3. AskedDateHolds' /\ TableDate'
  BY <1>1 DEF PatchInv, AskedDateHolds, TableDate
<1> QED
  BY <1>2, <1>3 DEF PatchInv

LEMMA SetInv ==
    ASSUME PatchInv, Stays, set
    PROVE  PatchInv'
<1> DEFINE kind  == IF custom_date = Unset THEN "device" ELSE "custom"
           dates == IF custom_date = Unset THEN read_device_dates ELSE Thrice(custom_date)
<1>1. dates \in Txts
  <2>1. properties \in DateMap /\ custom_date \in Dates
    BY PatchAssumption, UnsetIsDate DEF PatchInv, PatchTypes
  <2> QED
    BY <2>1, DeviceDates, ThriceType
<1>2. kind \in Kinds \ {"table"}
  BY DEF Kinds
<1>3. \/ Left(kind, dates, "err")
      \/ dates.system # Unset /\ patch_file_already_matches(dates) /\ Left(kind, dates, "found")
      \/ write_patch_dates(kind, dates)
  BY DEF set
<1> HIDE DEF kind, dates
<1> QED
  BY <1>1, <1>2, <1>3, LeftInv, MatchInv, WriteInv

LEMMA UpdateForceInv ==
    ASSUME PatchInv, Stays, update_force
    PROVE  PatchInv'
<1>0. clock \in Nat
  BY PatchAssumption DEF PatchInv, PatchTypes
<1>1. PICK page \in Pages : LET latest == fetch_latest_patch(page, clock)
                            IN  write_patch_dates(latest.kind, Thrice(latest.date))
  BY DEF update_force
<1> DEFINE latest == fetch_latest_patch(page, clock)
<1>2. page \in Seq(Line)
  BY PatchAssumption
<1>3. /\ latest.kind \in {"table", "bulletin"} /\ latest.date \in Dates
      /\ latest.kind = "table" => latest.date = fallback_patch_date(clock)
  BY <1>0, <1>2, ParsedDate, FallbackDate DEF fetch_latest_patch
<1>4. write_patch_dates(latest.kind, Thrice(latest.date))
  BY <1>1
<1> HIDE DEF latest
<1>5. latest.kind \in Kinds /\ Thrice(latest.date) \in Txts /\ Thrice(latest.date).system = latest.date
  BY <1>3, ThriceType DEF Kinds
<1> QED
  BY <1>3, <1>4, <1>5, WriteInv

LEMMA SetCustomInv ==
    ASSUME PatchInv, Stays, NEW date \in CustomDates, NEW own,
           write_patch_dates("custom",
               [f \in DOMAIN NoFile |-> IF f \in own THEN read_device_dates[f] ELSE date])
    PROVE  PatchInv'
<1> DEFINE dates == [f \in DOMAIN NoFile |-> IF f \in own THEN read_device_dates[f] ELSE date]
<1>1. dates \in Txts
  <2>1. properties \in DateMap /\ date \in Dates
    BY PatchAssumption DEF PatchInv, PatchTypes
  <2> QED
    BY <2>1, OwnDates
<1> HIDE DEF dates
<1> QED
  BY <1>1, WriteInv DEF dates, Kinds

LEMMA PatchInvInit == PatchInit => PatchInv
<1> SUFFICES ASSUME PatchInit PROVE PatchInv
  OBVIOUS
<1>1. devconfig \in [line : FoundDates, comment : FoundDates, shared : BOOLEAN]
  BY DEF PatchInit
<1>2. devconfig \in [line : Dates, comment : Dates, shared : BOOLEAN]
  BY <1>1, PatchAssumption
<1>3. applied \in [kind : Kinds, dates : Txts, result : Results]
      /\ applied.kind = "none" /\ applied.result = "ok"
  BY NothingType DEF PatchInit, Nothing, Kinds, Results
<1>4. patch_faults \in 0 .. MaxPatchFaults
  <2>1. patch_faults = 0 /\ MaxPatchFaults \in Nat
    BY PatchAssumption DEF PatchInit
  <2> QED
    BY <2>1
<1>5. PatchTypes
  BY <1>2, <1>3, <1>4, NothingType, PatchAssumption DEF PatchInit, PatchTypes
<1> QED
  BY <1>2, <1>3, <1>5 DEF PatchInv, TableDate, AskedDateHolds

LEMMA PatchInvStep ==
    ASSUME PatchInv, [PatchNext]_patchVars
    PROVE  PatchInv'
<1>0. PatchTypes
  BY DEF PatchInv
<1>1. CASE Stays /\ (set \/ update \/ update_force)
  BY <1>1, SetInv, UpdateForceInv DEF update
<1>2. CASE PatchCommand
  <2>1. Stays
    BY <1>2 DEF PatchCommand, Stays
  <2> QED
    BY <1>1, <1>2, <2>1, SetCustomInv DEF PatchCommand
<1>3. CASE PatchAttempt \/ PatchRun
  BY <1>1, <1>3 DEF PatchAttempt, PatchRun, Stays
<1>4. CASE PatchBoot \/ UNCHANGED patchVars
  <2>1. UNCHANGED <<store, clock, custom_date, properties, patch_txt, devconfig, applied, patch_faults>>
    BY <1>4 DEF PatchBoot, patchVars
  <2> QED
    BY <2>1 DEF PatchInv, PatchTypes, TableDate, AskedDateHolds, Effective, Commented, Unwritable, Variant
<1>5. CASE CustomDateChanges
  <2>1. UNCHANGED <<store, clock, properties, patch_txt, devconfig, applied, patch_faults>>
        /\ custom_date' \in CustomDates \cup {Unset}
    BY <1>5 DEF CustomDateChanges
  <2> QED
    BY <2>1 DEF PatchInv, PatchTypes, TableDate, AskedDateHolds, Effective, Commented, Unwritable, Variant
<1>6. CASE PatchReboot
  <2>1. UNCHANGED <<store, clock, custom_date, patch_txt, devconfig, patch_faults>>
        /\ properties' \in DateMap /\ applied' = Nothing
    BY <1>0, <1>6, PatchAssumption DEF PatchReboot, PatchTypes
  <2>2. Nothing \in [kind : Kinds, dates : Txts, result : Results]
        /\ Nothing.kind = "none" /\ Nothing.result = "ok"
    BY NothingType DEF Nothing, Kinds, Results
  <2> QED
    BY <2>1, <2>2 DEF PatchInv, PatchTypes, TableDate, AskedDateHolds
<1> QED
  BY <1>2, <1>3, <1>4, <1>5, <1>6 DEF PatchNext

LEMMA PatchInvAlways == PatchSpec => []PatchInv
BY PatchInvInit, PatchInvStep, PTL DEF PatchSpec

\* An operation that reports success leaves the date it was asked for in effect,
\* whatever was in TrickyStore's files, whichever variant reads them and whatever
\* failed before (set, write_patch_dates and its writers).
THEOREM AskedIsInEffect == PatchSpec => []AskedDateHolds
<1>1. PatchInv => AskedDateHolds
  BY DEF PatchInv
<1> QED
  BY <1>1, PatchInvAlways, PTL

\* The boot phase counts its attempts down.
TaskType == patch_boot_done \in BOOLEAN /\ patch_tries \in 0 .. PatchRetries

LEMMA TaskTypeStep ==
    ASSUME TaskType, [PatchNext]_patchVars
    PROVE  TaskType'
<1>0. PatchRetries \in Nat \ {0} /\ patch_tries \in 0 .. PatchRetries
  BY PatchAssumption DEF TaskType
<1>1. CASE PatchAttempt
  <2>1. patch_tries > 0 /\ (patch_tries' = patch_tries - 1 \/ patch_tries' = 0)
    BY <1>1 DEF PatchAttempt
  <2>2. patch_boot_done' \in BOOLEAN
    BY <1>1, Zenon DEF PatchAttempt
  <2> QED
    BY <1>0, <2>1, <2>2 DEF TaskType
<1>2. CASE ~PatchAttempt
  <2>1. patch_boot_done' \in {TRUE, FALSE, patch_boot_done}
        /\ patch_tries' \in {0, PatchRetries, patch_tries}
    BY <1>2 DEF PatchNext, PatchCommand, PatchBoot, PatchRun, CustomDateChanges, PatchReboot,
                task, patchVars
  <2>2. patch_boot_done' \in BOOLEAN
    BY <2>1, Zenon DEF TaskType
  <2> QED
    BY <1>0, <2>1, <2>2 DEF TaskType
<1> QED
  BY <1>1, <1>2

\* Dates have at most three numbers wherever they are, and the boot phase never
\* has more attempts left than boot_retries.
THEOREM PatchTypeCorrect == PatchSpec => []PatchTypeOK
<1>1. PatchInit => TaskType
  <2> SUFFICES ASSUME PatchInit PROVE TaskType
    OBVIOUS
  <2>1. patch_boot_done = FALSE /\ patch_tries = 0 /\ PatchRetries \in Nat
    BY PatchAssumption DEF PatchInit
  <2>2. patch_tries \in 0 .. PatchRetries
    BY <2>1
  <2> QED
    BY <2>1, <2>2 DEF TaskType
<1>2. TaskType /\ [PatchNext]_patchVars => TaskType'
  BY TaskTypeStep
<1>3. PatchInv /\ TaskType => PatchTypeOK
  <2> SUFFICES ASSUME PatchInv, TaskType PROVE PatchTypeOK
    OBVIOUS
  <2>1. PatchTypes
    BY DEF PatchInv
  <2>2. \A date \in Dates : Len(date) <= 3
    BY DEF Dates
  <2>3. \A part \in {"system", "bootimage", "vendor"} : properties[part] \in Dates
    BY <2>1 DEF PatchTypes, DateMap
  <2>4. \A part \in {"system", "boot", "vendor"} : patch_txt[part] \in Dates
    BY <2>1 DEF PatchTypes, Txts
  <2>5. devconfig.line \in Dates /\ devconfig.comment \in Dates
    BY <2>1 DEF PatchTypes
  <2>6. applied.kind \in Kinds /\ applied.result \in Results
    BY <2>1 DEF PatchTypes
  <2> QED
    BY <2>1, <2>2, <2>3, <2>4, <2>5, <2>6 DEF PatchTypeOK, PatchTypes, TaskType, Kinds, Results
<1> QED
  BY <1>1, <1>2, <1>3, PatchInvAlways, PTL DEF PatchSpec

-----------------------------------------------------------------------------
(* The date of an automatic update against the calendar, until 2100. *)

\* Between the century years that are no leap years, every fourth year is one.
LEMMA YearStart ==
    ASSUME NEW y \in 1970 .. 2100
    PROVE  DaysBefore(y) = 365 * (y - 1970) + (y - 1969) \div 4
<1>1. CASE y <= 2000
  <2>1. (y - 1901) \div 100 = 0 /\ (y - 1601) \div 400 = 0
    BY <1>1
  <2> QED
    BY <2>1 DEF DaysBefore
<1>2. CASE y > 2000
  <2>1. (y - 1901) \div 100 = 1 /\ (y - 1601) \div 400 = 1
    BY <1>2
  <2> QED
    BY <2>1 DEF DaysBefore
<1> QED
  BY <1>1, <1>2

\* Every day up to then is in a year, ...
LEMMA YearOf ==
    ASSUME NEW day \in Nat, day < DaysBefore(2100)
    PROVE  \E y \in Years : DaysBefore(y) <= day /\ day < DaysBefore(y + 1)
<1> DEFINE k == (4 * day + 2) \div 1461
<1>1. day < 47482
  BY YearStart
<1>2. k \in 0 .. 129 /\ 1461 * k <= 4 * day + 2 /\ 4 * day + 2 < 1461 * (k + 1)
  BY <1>1
<1> HIDE DEF k
<1> DEFINE y == 1970 + k
<1>3. DaysBefore(y) = 365 * k + (k + 1) \div 4 /\ DaysBefore(y + 1) = 365 * (k + 1) + (k + 2) \div 4
  BY <1>2, YearStart
<1>4. DaysBefore(y) <= day /\ day < DaysBefore(y + 1)
  BY <1>2, <1>3
<1> QED
  BY <1>2, <1>4 DEF Years

\* ... and in a month of it.
LEMMA MonthOf ==
    ASSUME NEW y \in Years, NEW day \in Nat,
           DaysBefore(y) <= day, day < DaysBefore(y + 1)
    PROVE  \E m \in 1 .. 12 : day \in MonthStart(y, m) .. NextStart(y, m) - 1
<1> USE DEF Years
<1> DEFINE Start(m) == MonthStart(y, m)
<1>1. \A m \in 1 .. 12 : Start(m) \in Int
  BY YearStart DEF MonthStart, DaysUpTo
<1>2. Start(1) <= day
  BY YearStart DEF MonthStart, DaysUpTo
<1>3. \A m \in 1 .. 11 : NextStart(y, m) = Start(m + 1)
  BY DEF NextStart
<1>4. NextStart(y, 12) \in Int /\ day < NextStart(y, 12)
  <2>1. NextStart(y, 12) = DaysBefore(y + 1) /\ DaysBefore(y + 1) \in Int
    BY YearStart DEF NextStart, MonthStart, DaysUpTo
  <2> QED
    BY <2>1
<1> HIDE DEF Start
<1>5. \E m \in 1 .. 12 : Start(m) <= day /\ day < NextStart(y, m)
  BY <1>1, <1>2, <1>3, <1>4
<1>6. \A m \in 1 .. 12 : NextStart(y, m) \in Int
  BY <1>1, <1>3, <1>4
<1> QED
  BY <1>1, <1>5, <1>6 DEF Start

\* A month by the twelfths of an average year is at most one away from the
\* calendar's.
LEMMA ApproxIsNear ==
    ASSUME NEW now \in Nat, NEW y \in Years, NEW m \in 1 .. 12, IsMonth(now, y, m)
    PROVE  (approx_year(now) * 12 + approx_month(now)) - (y * 12 + m) \in -1 .. 1
<1> USE DEF Years
<1> DEFINE k == y - 1970
<1>1. k \in 0 .. 129 /\ DaysBefore(y) = 365 * k + (k + 1) \div 4
      /\ DaysBefore(y + 1) = 365 * (k + 1) + (k + 2) \div 4
  BY YearStart
<1>2. /\ 48 * DaysBefore(y) >= 17532 * k - 24
      /\ 48 * DaysBefore(y) <= 17532 * k + 12
      /\ 48 * DaysBefore(y + 1) <= 17532 * (k + 1) + 12
  BY <1>1
<1>3. approx_year(now) * 12 + approx_month(now) = 23641 + now \div 1461
  BY DEF approx_year, approx_month, HalfHoursInYear, HalfHoursInMonth
<1> HIDE DEF k
<1>4. /\ MonthStart(y, m) \in Int /\ NextStart(y, m) \in Int
      /\ MonthStart(y, m) >= DaysBefore(y) + DaysUpTo[m]
      /\ m # 12 => NextStart(y, m) <= DaysBefore(y) + DaysUpTo[m + 1] + 1
      /\ m = 12 => NextStart(y, m) = DaysBefore(y + 1)
  BY <1>1 DEF MonthStart, NextStart, DaysUpTo
<1>5. now >= 48 * MonthStart(y, m) /\ now < 48 * NextStart(y, m)
  BY <1>4 DEF IsMonth
<1>6. /\ DaysUpTo[m] \in Nat /\ 48 * DaysUpTo[m] - 24 >= 1461 * (m - 2)
      /\ m # 12 => DaysUpTo[m + 1] \in Nat /\ 48 * DaysUpTo[m + 1] + 60 <= 1461 * (m + 1)
  BY DEF DaysUpTo
<1>7. now >= 1461 * (12 * k + m - 2) /\ now < 1461 * (12 * k + m + 1)
  <2>1. now >= 1461 * (12 * k + m - 2)
    BY <1>1, <1>2, <1>4, <1>5, <1>6
  <2>2. CASE m # 12
    BY <1>1, <1>2, <1>4, <1>5, <1>6, <2>1, <2>2
  <2>3. CASE m = 12
    BY <1>1, <1>2, <1>4, <1>5, <2>1, <2>3
  <2> QED
    BY <2>2, <2>3
<1>8. now \div 1461 \in 12 * k + m - 2 .. 12 * k + m
  BY <1>1, <1>7
<1> QED
  BY <1>3, <1>8 DEF k

\* The first half hour of 2100: until then every instant is in a month.
EndOfYears == 48 * DaysBefore(2100)

LEMMA CalendarCovers ==
    ASSUME NEW now \in Nat, now < EndOfYears
    PROVE  \E y \in Years, m \in 1 .. 12 : IsMonth(now, y, m)
<1>1. PICK day \in Nat : day = now \div 48 /\ day < DaysBefore(2100)
  <2>1. DaysBefore(2100) = 47482
    BY YearStart
  <2>2. now \div 48 \in Nat /\ now \div 48 < DaysBefore(2100)
    BY <2>1 DEF EndOfYears
  <2> QED
    BY <2>2
<1>2. PICK y \in Years : DaysBefore(y) <= day /\ day < DaysBefore(y + 1)
  BY <1>1, YearOf
<1>3. PICK m \in 1 .. 12 : day \in MonthStart(y, m) .. NextStart(y, m) - 1
  BY <1>2, MonthOf, Zenon
<1>4. IsMonth(now, y, m)
  BY <1>1, <1>3 DEF IsMonth
<1> QED
  BY <1>4

\* A month's number is a number, ...
LEMMA NearMeans ==
    ASSUME NEW date, NEW y \in Years, NEW m \in 1 .. 12, NEW n \in Int, Months(date) = n,
           date[2] \in 1 .. 12,
           n - (y * 12 + m) \in -1 .. 1 \/ (date = Table /\ n - (y * 12 + m) >= -4)
    PROVE  IsNear(date, y, m)
BY DEF IsNear

\* ... the clock's is near the calendar's, ...
LEMMA ClockIsNear ==
    ASSUME NEW now \in Nat, NEW y \in Years, NEW m \in 1 .. 12, IsMonth(now, y, m)
    PROVE  IsNear(derive_current_month_date(now), y, m)
<1>1. approx_year(now) \in Int /\ approx_month(now) \in 1 .. 12
  BY ApproxMonth
<1>2. PICK n \in Int : n = approx_year(now) * 12 + approx_month(now)
  BY <1>1
<1>3. PICK date : date = derive_current_month_date(now)
  OBVIOUS
<1>4. date = <<approx_year(now), approx_month(now), 1>>
  BY <1>1, <1>3 DEF derive_current_month_date
<1>5. Months(date) = n /\ date[2] \in 1 .. 12
  BY <1>1, <1>2, <1>4 DEF Months
<1>6. n - (y * 12 + m) \in -1 .. 1
  <2>1. (approx_year(now) * 12 + approx_month(now)) - (y * 12 + m) \in -1 .. 1
    BY ApproxIsNear, Zenon
  <2> QED
    BY <1>2, <2>1, Zenon
<1>7. IsNear(date, y, m)
  BY <1>5, <1>6, NearMeans
<1> QED
  BY <1>3, <1>7

\* ... and so is the table's while the table is not out of date.
LEMMA TableIsNear ==
    ASSUME NEW now \in Nat, NEW y \in Years, NEW m \in 1 .. 12, IsMonth(now, y, m),
           ~is_stale(Table, now)
    PROVE  IsNear(Table, y, m)
<1>1. approx_year(now) \in Int /\ approx_month(now) \in Int
  BY ApproxMonth
<1>2. PICK n \in Int : n = approx_year(now) * 12 + approx_month(now)
  BY <1>1
<1>3. n - (y * 12 + m) \in -1 .. 1
  <2>1. (approx_year(now) * 12 + approx_month(now)) - (y * 12 + m) \in -1 .. 1
    BY ApproxIsNear, Zenon
  <2> QED
    BY <1>2, <2>1, Zenon
<1>4. PICK t \in Int : t = Months(Table)
  <2>0. Table \in Seq(Nat) /\ Len(Table) = 3
    BY PatchAssumption DEF Dates
  <2>1. Table[1] \in Nat /\ Table[2] \in Nat
    BY <2>0
  <2>2. Months(Table) \in Int
    BY <2>1 DEF Months
  <2> QED
    BY <2>2
<1>5. n - t <= 3
  BY <1>1, <1>2, <1>4 DEF is_stale
<1>6. t - (y * 12 + m) >= -4
  BY <1>3, <1>5 DEF Years
<1>7. Table[2] \in 1 .. 12
  BY PatchAssumption
<1> QED
  BY <1>4, <1>6, <1>7, NearMeans

\* The date of an update without the bulletin is near the calendar's: the
\* table's while the table is not out of date, and the clock's after that
\* (fallback_patch_date).
LEMMA FallbackIsNear ==
    ASSUME NEW now \in Nat, now < EndOfYears
    PROVE  \E y \in Years, m \in 1 .. 12 :
             IsMonth(now, y, m) /\ IsNear(fallback_patch_date(now), y, m)
<1>1. PICK y \in Years, m \in 1 .. 12 : IsMonth(now, y, m)
  BY CalendarCovers, Zenon
<1>2. CASE is_stale(Table, now)
  <2>1. IsNear(derive_current_month_date(now), y, m)
    BY <1>1, ClockIsNear, Zenon
  <2>2. fallback_patch_date(now) = derive_current_month_date(now)
    BY <1>2 DEF fallback_patch_date
  <2> QED
    BY <1>1, <2>1, <2>2
<1>3. CASE ~is_stale(Table, now)
  <2>1. IsNear(Table, y, m)
    BY <1>1, <1>3, TableIsNear, Zenon
  <2>2. fallback_patch_date(now) = Table
    BY <1>3 DEF fallback_patch_date
  <2> QED
    BY <1>1, <2>1, <2>2
<1> QED
  BY <1>2, <1>3

\* The dates are those asked for, and near the calendar's when nobody asked,
\* while the clock is before 2100.
THEOREM DatesAreRight ==
    ASSUME \A now \in Instants : now < EndOfYears
    PROVE  PatchSpec => []DatesHold
<1>1. ASSUME PatchInv PROVE DatesHold
  <2>1. ASSUME applied.kind = "table", applied.result = "ok"
        PROVE  \E y \in Years, m \in 1 .. 12 :
                 IsMonth(clock, y, m) /\ IsNear(applied.dates.system, y, m)
    <3>1. clock \in Nat /\ clock < EndOfYears
      BY <1>1, PatchAssumption DEF PatchInv, PatchTypes
    <3>2. applied.dates.system = fallback_patch_date(clock)
      BY <1>1, <2>1 DEF PatchInv, TableDate
    <3> QED
      BY <3>1, <3>2, FallbackIsNear, Zenon
  <2>2. AutomaticDateIsNear
    BY <2>1, Zenon DEF AutomaticDateIsNear
  <2> QED
    BY <1>1, <2>2 DEF PatchInv, DatesHold
<1> QED
  BY <1>1, PatchInvAlways, PTL
=============================================================================
