---------------------------- MODULE SettingsStore ----------------------------
(***************************************************************************)
(* The router's settings (crates/sentia-router/src/settings.rs): a value   *)
(* in memory behind a read-write lock, and the file it is saved to through *)
(* a temporary that is synced and renamed.  update holds the write lock    *)
(* throughout, but the process may die between any two of its file         *)
(* operations, and any of them may fail.                                   *)
(***************************************************************************)
EXTENDS Integers

CONSTANTS
    Settings,       \* settings a user may save
    DefaultSettings,\* UserSettings::default
    Pids            \* process ids, which the kernel reuses

ASSUME SettingsAssumption ==
    /\ DefaultSettings \in Settings
    /\ Pids # {}
    /\ "absent" \notin Settings /\ "part" \notin Settings /\ "none" \notin Settings

VARIABLES
    mem,        \* the value every request reads
    pid,        \* this process's id
    file,       \* router.json: "absent", "part" or a value
    temp,       \* .router.json.<pid>.new, for each process id
    saving,     \* the value update is saving, or "none"
    step,       \* where write_private_json is
    acked,      \* the value last reported saved, or loaded at the first start
    tried       \* values whose save began since then

settingsVars == <<mem, pid, file, temp, saving, step, acked, tried>>

Contents == Settings \cup {"absent", "part"}

\* SettingsStore::load of a whole file.
Loaded == IF file = "absent" THEN DefaultSettings ELSE file

SettingsInit ==
    /\ file \in Settings \cup {"absent"}
    /\ mem = Loaded
    /\ pid = CHOOSE p \in Pids : TRUE
    /\ temp = [p \in Pids |-> "absent"]
    /\ saving = "none"
    /\ step = "idle"
    /\ acked = Loaded
    /\ tried = {}

\* The lock: no reader while an update is saving.
Unlocked == saving = "none"

\* SettingsStore::update up to open(create_new): the directory and the
\* symlink checks may refuse, and a temporary that a dead process of the same
\* id left behind fails the open and is removed.
UpdateBegin(s) ==
    /\ Unlocked
    /\ \/ UNCHANGED <<saving, step, temp, tried>>
       \/ /\ temp[pid] # "absent"
          /\ temp' = [temp EXCEPT ![pid] = "absent"]
          /\ UNCHANGED <<saving, step, tried>>
       \/ /\ temp[pid] = "absent"
          /\ temp' = [temp EXCEPT ![pid] = "part"]
          /\ saving' = s
          /\ step' = "write"
          /\ tried' = tried \cup {s}
    /\ UNCHANGED <<mem, pid, file, acked>>

\* Mutant of UpdateWrite: the settings file itself is written.
WriteInPlace ==
    /\ step = "write"
    /\ file' = "part"
    /\ temp' = [temp EXCEPT ![pid] = saving]
    /\ step' = "rename"
    /\ UNCHANGED <<mem, pid, saving, acked, tried>>

\* to_writer_pretty, write_all and sync_all.
UpdateWrite ==
    /\ step = "write"
    /\ \/ temp' = [temp EXCEPT ![pid] = saving] /\ step' = "rename" /\ UNCHANGED saving
       \/ temp' = [temp EXCEPT ![pid] = "absent"] /\ step' = "idle" /\ saving' = "none"
    /\ UNCHANGED <<mem, pid, file, acked, tried>>

\* The rename; the directory is not synced, so what follows holds for the death of the
\* process, not for a loss of power.
UpdateRename ==
    /\ step = "rename"
    /\ \/ file' = temp[pid] /\ step' = "chmod" /\ UNCHANGED saving
       \/ step' = "idle" /\ saving' = "none" /\ UNCHANGED file
    /\ temp' = [temp EXCEPT ![pid] = "absent"]
    /\ UNCHANGED <<mem, pid, acked, tried>>

\* set_permissions on the renamed file: when it fails the caller is told that
\* nothing was saved, although the file is the new one.
UpdateFinish ==
    /\ step = "chmod"
    /\ step' = "idle"
    /\ saving' = "none"
    /\ \/ mem' = saving /\ acked' = saving /\ tried' = {}
       \/ UNCHANGED <<mem, acked, tried>>
    /\ UNCHANGED <<pid, file, temp>>

\* The process dies, and another one loads the file.  A file that is not whole
\* stops it.
Load ==
    /\ file # "part"
    /\ mem' = Loaded
    /\ pid' \in Pids
    /\ saving' = "none"
    /\ step' = "idle"
    /\ UNCHANGED <<file, temp, acked, tried>>

-----------------------------------------------------------------------------
SettingsTypeOK ==
    /\ mem \in Settings
    /\ pid \in Pids
    /\ file \in Contents
    /\ temp \in [Pids -> Contents]
    /\ saving \in Settings \cup {"none"}
    /\ step \in {"idle", "write", "rename", "chmod"}
    /\ acked \in Settings
    /\ tried \subseteq Settings

\* Whatever crash or I/O error interrupts a save, the file is whole, and it and
\* the settings in use are the ones last reported saved or ones the user has
\* asked for since: a save that was acknowledged is never undone by a restart.
SettingsDurable ==
    /\ file # "part"
    /\ Loaded \in {acked} \cup tried
    /\ mem \in {acked} \cup tried
=============================================================================
