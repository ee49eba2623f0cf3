------------------------------ MODULE Settings ------------------------------
(***************************************************************************)
(* A setting of a tenant that is read through the package cache            *)
(* (services/feature_flag_service.ts, services/branding_service.ts): the   *)
(* map of its feature flags, or its branding. A write changes the row, and *)
(* then deletes the cached copy; a reader that misses the memory layer     *)
(* reads Redis and, when that has none, the row, and then keeps what it    *)
(* read. Every await is a step.                                            *)
(***************************************************************************)
CONSTANTS
  SettingProcesses,  \* Node processes
  Readers,           \* reads of the setting that miss the cache
  Writers,           \* writes of the setting by the admin API
  MaxLost            \* bound on invalidations the bus loses

VARIABLES
  setting,    \* which setting this is: the "flags" or the "branding"
  row,        \* what the table has
  rowLocal, rowShared, rowBus,  \* the cached copy
  reader,     \* what each read that misses does: in which process, and what it has read
  writer,     \* what each write does, in which process
  raced,      \* history: a reader stored a row that had been written since it was read
  lost        \* processes with an old copy of which no message tells them

settingVars == <<setting, row, rowLocal, rowShared, rowBus, reader, writer, raced, lost>>

Versions == {"off", "on"}

C == INSTANCE LayeredCache WITH
       Processes <- SettingProcesses, Keys <- {"row"}, Values <- Versions, NoValue <- "none",
       local <- rowLocal, shared <- rowShared, bus <- rowBus

SettingsInit ==
  /\ setting \in {"flags", "branding"}
  /\ row = "off"
  /\ C!CacheInit
  /\ reader = [r \in Readers |-> [step |-> "idle", process |-> "none", row |-> "none", old |-> FALSE]]
  /\ writer = [w \in Writers |-> [step |-> "idle", process |-> "none"]]
  /\ raced = FALSE
  /\ lost = {}

-----------------------------------------------------------------------------
\* getOrSet misses the memory layer and reads the Redis layer, one at a time in a process.
AskShared(r, p) ==
  /\ reader[r].step = "idle"
  /\ rowLocal[p]["row"] = "none"
  /\ \A s \in Readers : reader[s].step \in {"found", "missed", "read"} => reader[s].process # p
  /\ reader' = [reader EXCEPT ![r] = [step |-> IF rowShared["row"] = "none" THEN "missed" ELSE "found",
                                    process |-> p, row |-> rowShared["row"], old |-> FALSE]]
  /\ UNCHANGED <<setting, row, rowLocal, rowShared, rowBus, writer, raced, lost>>

\* What the Redis layer had is kept in the memory layer, deleted meanwhile or not.
KeepFound(r) ==
  /\ reader[r].step = "found"
  /\ C!Keep(reader[r].process, "row", reader[r].row)
  /\ lost' = IF reader[r].old THEN lost \cup {reader[r].process} ELSE lost
  /\ reader' = [reader EXCEPT ![r].step = "idle"]
  /\ UNCHANGED <<setting, row, writer, raced>>

\* It had nothing: the factory runs.
ReadRow(r) ==
  /\ reader[r].step = "missed"
  /\ reader' = [reader EXCEPT ![r].step = "read", ![r].row = row, ![r].old = FALSE]
  /\ UNCHANGED <<setting, row, rowLocal, rowShared, rowBus, writer, raced, lost>>

\* It stores what the factory returned.
StoreRow(r) ==
  /\ reader[r].step = "read"
  /\ C!Put(reader[r].process, "row", reader[r].row)
  /\ raced' = (raced \/ reader[r].old)
  /\ lost' = {}
  /\ reader' = [reader EXCEPT ![r].step = "done"]
  /\ UNCHANGED <<setting, row, writer>>

\* The row is v: the write deletes the copy next. What was read of it is old.
Written(w, p, v) ==
  /\ row' = v
  /\ writer' = [writer EXCEPT ![w] = [step |-> "delete", process |-> p]]
  /\ reader' = [r \in Readers |-> [reader[r] EXCEPT !.old = @ \/ reader[r].step = "read"]]
  /\ UNCHANGED <<setting, rowLocal, rowShared, rowBus, raced, lost>>

\* set, of a flag: updateOrCreate.
SetFlag(w, p) ==
  /\ setting = "flags" /\ writer[w].step = "idle"
  /\ \E v \in Versions : Written(w, p, v)

\* delete, of a flag: one that has no row is off.
DeleteFlag(w, p) ==
  /\ setting = "flags" /\ writer[w].step = "idle"
  /\ Written(w, p, "off")

\* upsert, of the branding.
UpsertBranding(w, p) ==
  /\ setting = "branding" /\ writer[w].step = "idle"
  /\ \E v \in Versions : Written(w, p, v)

\* Variant of DeleteCopy: only the key of the single flag is deleted.
DeleteSingleKey(w) ==
  /\ writer[w].step = "delete"
  /\ writer' = [writer EXCEPT ![w].step = "done"]
  /\ UNCHANGED <<setting, row, rowLocal, rowShared, rowBus, reader, raced, lost>>

\* The cached map, or branding, is deleted. What was found of it is old. (The
\* key of a single flag is deleted too, and nothing reads it.)
DeleteCopy(w) ==
  /\ writer[w].step = "delete"
  /\ C!Put(writer[w].process, "row", "none")
  /\ raced' = FALSE
  /\ lost' = {}
  /\ writer' = [writer EXCEPT ![w].step = "done"]
  /\ reader' = [r \in Readers |-> [reader[r] EXCEPT !.old = @ \/ reader[r].step = "found"]]
  /\ UNCHANGED <<setting, row>>

CacheStep ==
  /\ \/ C!ExpireShared("row") /\ UNCHANGED lost
     \/ \E p \in SettingProcesses : C!EvictLocal(p, "row") /\ UNCHANGED lost
     \/ \E p \in SettingProcesses : C!Invalidate(p, "row") /\ UNCHANGED lost
     \/ /\ MaxLost = 1
        /\ \E p \in SettingProcesses : C!LoseInvalidation(p, "row") /\ lost' = lost \cup {p}
  /\ UNCHANGED <<setting, row, reader, writer, raced>>

SettingsNext ==
  \/ \E p \in SettingProcesses :
       \/ \E r \in Readers : AskShared(r, p)
       \/ \E w \in Writers : SetFlag(w, p) \/ DeleteFlag(w, p) \/ UpsertBranding(w, p)
  \/ \E r \in Readers : KeepFound(r) \/ ReadRow(r) \/ StoreRow(r)
  \/ \E w \in Writers : DeleteCopy(w)
  \/ CacheStep

SettingsSpec == SettingsInit /\ [][SettingsNext]_settingVars

-----------------------------------------------------------------------------
(* Properties.                                                             *)

Fresh(copy) == copy \in {"none", row}

\* A process that reads an old flag or branding does so because a write has not deleted
\* the copy yet, because a reader that read the row before the write stored after it, or
\* because the bus has not told it yet, or never will: the message was lost, or a get of
\* the process awaited Redis when the copy was deleted.
SettingIsFresh ==
  raced \/ (\E w \in Writers : writer[w].step = "delete")
    \/ /\ Fresh(rowShared["row"])
       /\ \A p \in SettingProcesses :
            Fresh(rowLocal[p]["row"]) \/ <<p, "row">> \in rowBus \/ p \in lost
=============================================================================
