--------------------------- MODULE SecurityPatch ---------------------------
(***************************************************************************)
(* The security patch dates (rust/src/security_patch): which date is       *)
(* asked for, how the date of an offline automatic update is computed, and *)
(* where each variant of TrickyStore wants it; SecurityPatchTask with its  *)
(* boot phase, and the commands.  auto_update is on: with it off, `update' *)
(* does nothing and the task does not run.                                 *)
(*                                                                         *)
(* A date is a text, as the sequence of its numbers: <<2025, 6, 5>>, or    *)
(* <<2025, 6>> where the day is left out.  The clock counts half hours.    *)
(***************************************************************************)
EXTENDS Integers, Sequences, SequencesExt

CONSTANTS
    Stores,          \* what TrickyStore's module.prop may say
    CustomDates,     \* the values of security_patch.custom_date
    FoundDates,      \* the dates devconfig.toml, TrickyStore's own file, comes with
    FactoryDates,    \* what the system image may set the properties to
    OwnParts,        \* bound: the parts set-custom is asked to take from the device
    Pages,           \* the bulletin as it may be downloaded
    Table,           \* the newest entry of FALLBACK_PATCHES
    Instants,        \* the readings of the clock
    PatchRetries,    \* security_patch.boot_retries
    MaxPatchFaults   \* bound: operations that fail

Unset  == <<>>       \* an empty text, a property that is not set

Dates   == {date \in Seq(Nat) : Len(date) <= 3}
DateMap == [system : Dates, bootimage : Dates, vendor : Dates]
Line    == [cell : BOOLEAN, date : Dates]    \* of the bulletin: a table cell or not, its date

ASSUME PatchAssumption ==
    /\ CustomDates \subseteq Dates \ {Unset}
    /\ FoundDates \subseteq Dates
    /\ FactoryDates \subseteq DateMap
    /\ Pages \subseteq Seq(Line)
    /\ Table \in Dates /\ Len(Table) = 3 /\ Table[2] \in 1..12
    /\ Instants \subseteq Nat
    /\ OwnParts \subseteq SUBSET {"system", "boot", "vendor"}
    /\ PatchRetries \in Nat \ {0} /\ MaxPatchFaults \in Nat

VARIABLES
    store,           \* module.prop of TrickyStore
    clock,
    custom_date,     \* the configured date, Unset for none
    properties,      \* the patch levels getprop reports
    patch_txt,       \* security_patch.txt, NoFile or three dates
    devconfig,       \* devconfig.toml: the date of the line, and of one commented out,
                     \* and whether [deviceProps] shares its line with something
    patch_boot_done, patch_tries,    \* SecurityPatchTask's boot phase
    applied,         \* what the last operation asked for, and its result
    patch_faults

patchVars == <<store, clock, custom_date, properties, patch_txt, devconfig,
               patch_boot_done, patch_tries, applied, patch_faults>>
task == <<patch_boot_done, patch_tries>>

NoFile == [system |-> Unset, boot |-> Unset, vendor |-> Unset]
Thrice(date) == [system |-> date, boot |-> date, vendor |-> date]
Nothing == [kind |-> "none", dates |-> NoFile, result |-> "ok"]

-----------------------------------------------------------------------------
(* The date of an automatic update *)

\* 31557600 and 2629800 seconds: an average year, and a twelfth of it.
HalfHoursInYear  == 17532
HalfHoursInMonth == 1461

approx_year(now)  == 1970 + now \div HalfHoursInYear
approx_month(now) == (now % HalfHoursInYear) \div HalfHoursInMonth + 1

derive_current_month_date(now) ==
    <<approx_year(now), IF approx_month(now) > 12 THEN 12 ELSE approx_month(now), 1>>

Months(date) == date[1] * 12 + date[2]

\* Mutant of is_stale: the months are compared without their years.
is_stale_month(date, now) == approx_month(now) - date[2] > 3

is_stale(date, now) == approx_year(now) * 12 + approx_month(now) - Months(date) > 3

fallback_patch_date(now) ==
    IF is_stale(Table, now) THEN derive_current_month_date(now) ELSE Table

\* parse_patch_date: the first table cell that is a date, or else the first
\* date anywhere.  A page is a sequence of lines; Unset, if none has a date.
parse_patch_date(page) ==
    LET dates == {i \in DOMAIN page : page[i].date # Unset}
        cells == {i \in dates : page[i].cell}
    IN  IF cells # {} THEN page[Min(cells)].date
        ELSE IF dates # {} THEN page[Min(dates)].date
        ELSE Unset

\* fetch_latest_patch for a downloaded page; an empty one stands for a failure.
fetch_latest_patch(page, now) ==
    IF parse_patch_date(page) = Unset
    THEN [kind |-> "table", date |-> fallback_patch_date(now)]
    ELSE [kind |-> "bulletin", date |-> parse_patch_date(page)]

-----------------------------------------------------------------------------
(* The dates of the device *)

FirstSet(texts) == LET known == {i \in DOMAIN texts : texts[i] # Unset}
                   IN  IF known = {} THEN Unset ELSE texts[Min(known)]

read_device_dates ==
    [system |-> properties.system,
     boot   |-> FirstSet(<<properties.bootimage, properties.vendor, properties.system>>),
     vendor |-> FirstSet(<<properties.vendor, properties.system>>)]

-----------------------------------------------------------------------------
(* TrickyStore's variants *)

detect_variant(ts) ==
    IF ts.james /\ ~ts.beakthoven
    THEN "James"
    ELSE IF ts.simulator \/ ts.beakthoven \/ ts.version >= 158
         THEN "Standard"
         ELSE "Legacy"

Variant == detect_variant(store)

\* The dates are looked for as text, so a date is found in a longer one.
patch_file_already_matches(dates) ==
    CASE Variant = "Standard" -> /\ patch_txt # NoFile
                                 /\ \A part \in DOMAIN dates : IsPrefix(dates[part], patch_txt[part])
      [] Variant = "James"    -> dates.system \in {devconfig.line, devconfig.comment}
      [] Variant = "Legacy"   -> FALSE

\* write_james replaces the lines that begin with securityPatch.  It adds one
\* only where the file does not mention the word, and a file that mentions
\* [deviceProps] must have it on a line of its own.
Unwritable == devconfig.line = Unset /\ (devconfig.comment # Unset \/ devconfig.shared)
JamesLine(date) == IF Unwritable THEN Unset ELSE date

\* write_legacy sets two properties, and only warns when that fails.
LegacyProperties(dates) ==
    [properties EXCEPT !.system = dates.system,
                       !.vendor = IF dates.vendor = Unset THEN @ ELSE dates.vendor]

Succeeds(kind, dates) ==
    /\ patch_txt' = IF Variant = "Standard" THEN dates ELSE patch_txt
    /\ devconfig' = IF Variant = "James"
                    THEN [devconfig EXCEPT !.line = JamesLine(dates.system)]
                    ELSE devconfig
    /\ properties' = IF Variant = "Legacy" THEN LegacyProperties(dates) ELSE properties
    /\ applied' = [kind |-> kind, dates |-> dates, result |-> "ok"]
    /\ UNCHANGED patch_faults

\* The file cannot be written; resetprop-rs fails for the system's date, for
\* the vendor's, or for both, and nobody is told.
Fails(kind, dates) ==
    /\ patch_faults < MaxPatchFaults
    /\ patch_faults' = patch_faults + 1
    /\ IF Variant = "Legacy"
       THEN \E part \in SUBSET {"system", "vendor"} :
              /\ part # {"system", "vendor"}
              /\ properties' = [f \in DOMAIN properties |->
                                  IF f \in part THEN LegacyProperties(dates)[f] ELSE properties[f]]
       ELSE UNCHANGED properties
    /\ applied' = [kind |-> kind, dates |-> dates,
                   result |-> IF Variant = "Legacy" THEN "missed" ELSE "err"]
    /\ UNCHANGED <<patch_txt, devconfig>>

write_patch_dates(kind, dates) == Succeeds(kind, dates) \/ Fails(kind, dates)

-----------------------------------------------------------------------------
(* Operations *)

Left(kind, dates, result) ==
    /\ applied' = [kind |-> kind, dates |-> dates, result |-> result]
    /\ UNCHANGED <<properties, patch_txt, devconfig, patch_faults>>

\* set: the configured date, or without one the device's own.
set ==
    LET kind  == IF custom_date = Unset THEN "device" ELSE "custom"
        dates == IF custom_date = Unset THEN read_device_dates ELSE Thrice(custom_date)
    IN  IF dates.system = Unset
        THEN Left(kind, dates, "err")
        ELSE IF patch_file_already_matches(dates)
             THEN Left(kind, dates, "found")
             ELSE write_patch_dates(kind, dates)

update_force ==
    \E page \in Pages :
        LET latest == fetch_latest_patch(page, clock)
        IN  write_patch_dates(latest.kind, Thrice(latest.date))

update == IF custom_date # Unset THEN set ELSE update_force

\* The commands `set', `update' and `update --force', and `set-custom' with a
\* date or the device's own for each part.
PatchCommand ==
    /\ \/ set
       \/ update
       \/ update_force
       \/ \E date \in CustomDates, own \in OwnParts :
            write_patch_dates("custom",
                [f \in DOMAIN NoFile |-> IF f \in own THEN read_device_dates[f] ELSE date])
    /\ UNCHANGED <<store, clock, custom_date, task>>

\* SecurityPatchTask::run: the boot phase is skipped without a network, and
\* has boot_retries attempts with one.
PatchBoot ==
    /\ ~patch_boot_done /\ patch_tries = 0
    /\ \/ patch_boot_done' = TRUE /\ UNCHANGED patch_tries
       \/ patch_tries' = PatchRetries /\ UNCHANGED patch_boot_done
    /\ UNCHANGED <<store, clock, custom_date, properties, patch_txt, devconfig,
                   applied, patch_faults>>

PatchAttempt ==
    /\ patch_tries > 0
    /\ update
    /\ patch_tries' = IF applied'.result = "err" THEN patch_tries - 1 ELSE 0
    /\ patch_boot_done' = (patch_tries' = 0)
    /\ UNCHANGED <<store, clock, custom_date>>

PatchRun ==
    /\ patch_boot_done
    /\ update
    /\ UNCHANGED <<store, clock, custom_date, task>>

\* The user changes security_patch.custom_date.
CustomDateChanges ==
    /\ custom_date' \in (CustomDates \cup {Unset}) \ {custom_date}
    /\ UNCHANGED <<store, clock, properties, patch_txt, devconfig, task, applied, patch_faults>>

\* A new daemon, after a reboot with the properties of the system image.
PatchReboot ==
    /\ properties' \in {properties} \cup FactoryDates
    /\ patch_boot_done' = FALSE /\ patch_tries' = 0
    /\ applied' = Nothing
    /\ UNCHANGED <<store, clock, custom_date, patch_txt, devconfig, patch_faults>>

PatchInit ==
    /\ store \in Stores
    /\ clock \in Instants
    /\ custom_date = Unset
    /\ properties \in FactoryDates
    /\ patch_txt = NoFile
    /\ devconfig \in [line : FoundDates, comment : FoundDates, shared : BOOLEAN]
    /\ patch_boot_done = FALSE /\ patch_tries = 0
    /\ applied = Nothing
    /\ patch_faults = 0

PatchNext ==
    \/ PatchCommand \/ PatchBoot \/ PatchAttempt \/ PatchRun
    \/ CustomDateChanges \/ PatchReboot

PatchSpec == PatchInit /\ [][PatchNext]_patchVars

-----------------------------------------------------------------------------
(* Properties *)

PatchTypeOK ==
    /\ store \in Stores /\ clock \in Instants
    /\ custom_date \in CustomDates \cup {Unset}
    /\ \A part \in {"system", "bootimage", "vendor"} : Len(properties[part]) <= 3
    /\ \A part \in {"system", "boot", "vendor"} : Len(patch_txt[part]) <= 3
    /\ Len(devconfig.line) <= 3 /\ Len(devconfig.comment) <= 3
    /\ patch_boot_done \in BOOLEAN /\ patch_tries \in 0..PatchRetries
    /\ applied.kind \in {"none", "custom", "device", "table", "bulletin"}
    /\ applied.result \in {"ok", "found", "missed", "err"}
    /\ patch_faults \in 0..MaxPatchFaults

\* The system date TrickyStore goes by.
Effective ==
    CASE Variant = "Standard" -> patch_txt.system
      [] Variant = "James"    -> devconfig.line
      [] Variant = "Legacy"   -> properties.system

\* James' file has the date asked for in a comment, where a search of the text
\* finds it and TrickyStore does not.
Commented == Variant = "James" /\ devconfig.comment = applied.dates.system

\* An operation that reports success leaves the date it was asked for in
\* effect, or a longer one that begins with it: after a write, unless the file
\* of James takes no line; and where `set' has found the date and written
\* nothing, unless that file has it in a comment (set, write_patch_dates).
AskedDateHolds ==
    \/ applied.kind # "none" /\ applied.result = "ok" /\ ~(Variant = "James" /\ Unwritable)
    \/ applied.result = "found" /\ ~Commented
    => IsPrefix(applied.dates.system, Effective)

\* The calendar, counted in days from 1970, for comparison.
Years == 1970..2099
Leap(y) == y % 4 = 0 /\ (y % 100 # 0 \/ y % 400 = 0)
DaysBefore(y) == 365 * (y - 1970) + (y - 1969) \div 4 - (y - 1901) \div 100 + (y - 1601) \div 400
DaysUpTo == <<0, 31, 59, 90, 120, 151, 181, 212, 243, 273, 304, 334>>
MonthStart(y, m) == DaysBefore(y) + DaysUpTo[m] + (IF m > 2 /\ Leap(y) THEN 1 ELSE 0)
NextStart(y, m)  == IF m = 12 THEN MonthStart(y + 1, 1) ELSE MonthStart(y, m + 1)
IsMonth(now, y, m) == (now \div 48) \in MonthStart(y, m) .. NextStart(y, m) - 1

\* A date is near a month: within one of it, or the table's, up to four before.
IsNear(date, y, m) ==
    /\ date[2] \in 1..12
    /\ \/ Months(date) - (y * 12 + m) \in -1..1
       \/ date = Table /\ Months(date) - (y * 12 + m) >= -4

\* Without the bulletin the date is the table's, in its month and the four
\* after it, or within a month of the calendar's (fallback_patch_date).
AutomaticDateIsNear ==
    applied.kind = "table" /\ applied.result = "ok" =>
        \E y \in Years, m \in 1..12 :
            IsMonth(clock, y, m) /\ IsNear(applied.dates.system, y, m)

\* The dates are those asked for, and near the calendar's when nobody asked.
DatesHold == AskedDateHolds /\ AutomaticDateIsNear
=============================================================================
