--------------------------- MODULE SettingManager ---------------------------
(***************************************************************************)
(* The two multi-unit setting managers that change while the program runs  *)
(* (excluded cameras, schedules): SettingManagerBase, the SetterBase it    *)
(* keeps for each camera, and the conversion of what the server answers.   *)
(*                                                                         *)
(* The rows the server has for a camera are a number: 0 when there are     *)
(* none, and otherwise one of MaxRows different contents.  Whether every   *)
(* field of a row has the type the code expects is left open: where the    *)
(* code would throw on a field, the caller may see the exception.          *)
(*                                                                         *)
(* Each operation is one critical section.  Entries of settings_ are only  *)
(* added while the program runs (RenewAfterReset is called by the          *)
(* constructor, RemoveTargetUnit and UpdateBulkUnits by nobody), so the    *)
(* setter that find-or-create returns under map_mutex_ is still the one in *)
(* the map when its own locks are taken.                                   *)
(***************************************************************************)
EXTENDS Naturals

CONSTANTS NumCams, \* cameras of this server
          MaxRows

ASSUME CamsAssumption == NumCams \in Nat \ {0}
ASSUME RowsAssumption == MaxRows \in Nat \ {0}

Cams  == 1..NumCams
Kinds == {"exclude", "schedule"}
Rows  == 0..MaxRows

Setter == [exists: BOOLEAN, is_initialized: BOOLEAN, setting_data: Rows, registered: BOOLEAN]

NoSetter == [exists |-> FALSE, is_initialized |-> FALSE, setting_data |-> 0, registered |-> FALSE]

VARIABLE settings \* settings_ of each manager; registered: callbacks_ holds the unit's

(***************************************************************************)
(* ExcludeCamSettingData keeps whether there is a row, ScheduleSettingData *)
(* the whole array.  Both accept an empty array, and neither ever returns  *)
(* false for an array.  A schedule with a field of the wrong type (Start,  *)
(* Range, NotificationDelaySec...) makes value() throw before the swap.    *)
(***************************************************************************)
UpdateFromJson(k, rows) == IF k = "exclude" /\ rows # 0 THEN 1 ELSE rows

(***************************************************************************)
(* The answer groups the rows by camera: one without rows gets no setter.  *)
(* There is no callback to carry over when the constructor calls it.       *)
(***************************************************************************)
RenewAfterReset(k, answer) ==
    settings' = [settings EXCEPT ![k] =
        [c \in Cams |-> IF answer[c] = 0
                        THEN NoSetter
                        ELSE [NoSetter EXCEPT !.exists = TRUE,
                                              !.is_initialized = TRUE,
                                              !.setting_data = UpdateFromJson(k, answer[c])]]]

(***************************************************************************)
(* One row that throws (a CameraId or a field of a schedule of the wrong   *)
(* type): the preparation is caught and given up as a whole, nothing is    *)
(* swapped in and the constructor only logs.  The new manager is as empty  *)
(* as after an answer without rows.                                        *)
(***************************************************************************)
RenewThrows(k) == RenewAfterReset(k, [c \in Cams |-> 0])

HasSetting(k, c) == settings[k][c].exists /\ settings[k][c].is_initialized
GetSetting(k, c) == settings[k][c].setting_data

(***************************************************************************)
(* UpdateTargetUnit and the first phase of Update; the snapshot it takes   *)
(* under the same lock is UpdateFromJson(k, rows).                         *)
(***************************************************************************)
UpdateTargetUnit(k, c, rows) ==
    settings' = [settings EXCEPT ![k][c] = [@ EXCEPT !.exists = TRUE,
                                                     !.is_initialized = TRUE,
                                                     !.setting_data = UpdateFromJson(k, rows)]]

\* UpdateTargetUnit when UpdateFromJson throws: the setter was created, nothing else is done
UpdateThrows(k, c) == settings' = [settings EXCEPT ![k][c].exists = TRUE]

RegisterCallback(k, c) ==
    settings' = [settings EXCEPT ![k][c].exists = TRUE, ![k][c].registered = TRUE]

UnregisterCallback(k, c) ==
    settings' = [settings EXCEPT ![k][c].registered = FALSE]
=============================================================================
