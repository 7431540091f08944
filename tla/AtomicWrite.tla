------------------------------ MODULE AtomicWrite ------------------------------
(***************************************************************************)
(* write_file_atomic (src/local_storage.cpp) on a file system that loses   *)
(* what was not synced, and its two callers under the file lock: save(),   *)
(* which copies the vault over .bak before replacing it, and rekey(),      *)
(* which replaces .bak and then the vault.                                 *)
(*                                                                         *)
(* Each file name has what a reader sees now and the set of contents it    *)
(* may have after a power loss.  A rename adds the new content to that     *)
(* set, a sync of the directory reduces it to the current one, and data    *)
(* that was written in place and never synced may come back torn.          *)
(***************************************************************************)
EXTENDS Naturals

CONSTANTS
    NoFile,        \* the name does not exist
    Torn,          \* a truncated or partial file
    MaxWrites,     \* bound on the saves and rekeys of a behaviour
    MaxKills       \* bound on killed processes and power losses

Names == {"vault", "bak"}

\* A whole encrypted vault: the write that produced it and the rekey that last
\* changed the master password, 0 for the password of the init command.
Blob == [ver : Nat, key : Nat]
Content == Blob \cup {NoFile, Torn}

ASSUME MarkersAssumption == NoFile \notin Blob /\ Torn \notin Blob \cup {NoFile}
ASSUME BoundsAssumption == MaxWrites \in Nat /\ MaxKills \in Nat

VARIABLES
    files,    \* what a reader of each name sees
    survive,  \* what each name may hold after a power loss
    dirty,    \* .bak was last written in place, and nothing synced it
    tmp,      \* the writer's temporary file
    temps,    \* how many temporary files the directory holds
    pc, mode, target,  \* the step, the caller and the path argument of the write
    want,     \* the blob being written
    next,     \* the number of the next write
    acked,    \* the number of the last write that returned to its caller
    kills,    \* processes killed and power losses so far
    unsynced, \* history: some sync of the directory failed and was ignored
    kept      \* history: temporary files that could not be removed

caller == <<mode, target, want, next>>
fs == <<files, survive, dirty>>
failures == <<kills, unsynced, kept>>
vars == <<fs, tmp, temps, pc, caller, acked, failures>>

Init ==
    /\ files = [n \in Names |-> NoFile]
    /\ survive = [n \in Names |-> {NoFile}]
    /\ dirty = FALSE
    /\ tmp = "none"
    /\ temps = 0
    /\ pc = "idle"
    /\ mode = "save"
    /\ target = "vault"
    /\ want = [ver |-> 0, key |-> 0]
    /\ next = 1
    /\ acked = 0
    /\ kills = 0
    /\ unsynced = FALSE
    /\ kept = 0

-----------------------------------------------------------------------------
(* The callers. *)

\* save_vault: the first one, with no vault yet, is the init command's.
Save ==
    /\ pc = "idle"
    /\ next <= MaxWrites
    /\ mode' = "save"
    /\ target' = "vault"
    /\ want' = [ver |-> next,
                key |-> IF files["vault"] = NoFile THEN 0 ELSE files["vault"].key]
    /\ next' = next + 1
    /\ pc' = "create"
    /\ UNCHANGED <<fs, tmp, temps, acked, failures>>

\* Mutant of Rekey: the backup is left as it is.
RekeyVaultOnly ==
    /\ pc = "idle"
    /\ next <= MaxWrites
    /\ files["vault"] # NoFile
    /\ mode' = "rekey"
    /\ target' = "vault"
    /\ want' = [ver |-> next, key |-> next]
    /\ next' = next + 1
    /\ pc' = "create"
    /\ UNCHANGED <<fs, tmp, temps, acked, failures>>

\* rekey: one blob under the new password, for .bak first.
Rekey ==
    /\ pc = "idle"
    /\ next <= MaxWrites
    /\ files["vault"] # NoFile
    /\ mode' = "rekey"
    /\ target' = "bak"
    /\ want' = [ver |-> next, key |-> next]
    /\ next' = next + 1
    /\ pc' = "create"
    /\ UNCHANGED <<fs, tmp, temps, acked, failures>>

-----------------------------------------------------------------------------
(* write_file_atomic(path, data, create_backup), step by step. *)

CreateTemp ==
    /\ pc = "create"
    /\ tmp' = "partial"
    /\ temps' = temps + 1
    /\ pc' = "write"
    /\ UNCHANGED <<fs, caller, acked, failures>>

\* Mutant of SyncTemp: the temporary file is not synced.
SyncTempSkipped ==
    /\ pc = "write"
    /\ pc' = IF mode = "save" /\ files["vault"] # NoFile THEN "backup" ELSE "rename"
    /\ UNCHANGED <<fs, tmp, temps, caller, acked, failures>>

\* write_all, then fsync of the temporary file.
SyncTemp ==
    /\ pc = "write"
    /\ tmp' = "synced"
    /\ pc' = IF mode = "save" /\ files["vault"] # NoFile THEN "backup" ELSE "rename"
    /\ UNCHANGED <<fs, temps, caller, acked, failures>>

\* copy_file truncates .bak and writes it in place; nothing syncs it.
BeginBackup ==
    /\ pc = "backup"
    /\ files' = [files EXCEPT !["bak"] = Torn]
    /\ survive' = [survive EXCEPT !["bak"] = @ \cup {Torn}]
    /\ dirty' = TRUE
    /\ pc' = "copying"
    /\ UNCHANGED <<tmp, temps, caller, acked, failures>>

EndBackup ==
    /\ pc = "copying"
    /\ files' = [files EXCEPT !["bak"] = files["vault"]]
    /\ survive' = [survive EXCEPT !["bak"] = @ \cup {files["vault"]}]
    /\ pc' = "rename"
    /\ UNCHANGED <<dirty, tmp, temps, caller, acked, failures>>

\* An error of copy_file is printed and ignored.
BackupFails ==
    /\ pc \in {"backup", "copying"}
    /\ pc' = "rename"
    /\ UNCHANGED <<fs, tmp, temps, caller, acked, failures>>

\* What the renamed file may hold after a power loss: its data is safe only
\* if it was synced before.
Renamed == IF tmp = "synced" THEN {want} ELSE {want, Torn}

\* Mutant of RenameTemp: the file is copied over the target, and the guard is
\* dismissed all the same.
RenameCopies ==
    /\ pc = "rename"
    /\ files' = [files EXCEPT ![target] = want]
    /\ survive' = [survive EXCEPT ![target] = @ \cup {want, Torn}]
    /\ dirty' = (dirty /\ target # "bak")
    /\ pc' = "dirsync"
    /\ UNCHANGED <<tmp, temps, caller, acked, failures>>

RenameTemp ==
    /\ pc = "rename"
    /\ files' = [files EXCEPT ![target] = want]
    /\ survive' = [survive EXCEPT ![target] = @ \cup Renamed]
    /\ dirty' = (dirty /\ target # "bak")
    /\ tmp' = "none"
    /\ temps' = temps - 1
    /\ pc' = "dirsync"
    /\ UNCHANGED <<caller, acked, failures>>

\* write_file_atomic returns: rekey() goes on with the vault, save() and the
\* second write of rekey() return to their caller.
Return ==
    IF target = "bak"
    THEN /\ target' = "vault"
         /\ pc' = "create"
         /\ UNCHANGED <<mode, want, next, acked>>
    ELSE /\ pc' = "idle"
         /\ acked' = want.ver
         /\ UNCHANGED caller

\* Mutant of SyncDir: the directory is not synced.
SyncDirSkipped ==
    /\ pc = "dirsync"
    /\ Return
    /\ UNCHANGED <<fs, tmp, temps, failures>>

\* Every name of the directory is safe, and so is the file behind it unless
\* its data was never synced.
SyncDir ==
    /\ pc = "dirsync"
    /\ survive' = [n \in Names |->
                    IF n = "bak" /\ dirty THEN survive[n] ELSE {files[n]}]
    /\ Return
    /\ UNCHANGED <<files, dirty, tmp, temps, failures>>

\* A directory that cannot be opened or synced is ignored.
SyncDirIgnored ==
    /\ pc = "dirsync"
    /\ unsynced' = TRUE
    /\ Return
    /\ UNCHANGED <<fs, tmp, temps, kills, kept>>

\* Mutant of Throw: the temporary file stays.
ThrowLeavesTemp ==
    /\ pc \in {"create", "write", "rename"}
    /\ tmp' = "none"
    /\ pc' = "idle"
    /\ UNCHANGED <<fs, temps, caller, acked, failures>>

\* open, write, fsync or rename fails: TempFileGuard removes the temporary
\* file while the exception leaves write_file_atomic and its caller.
Throw ==
    /\ pc \in {"create", "write", "rename"}
    /\ temps' = IF tmp = "none" THEN temps ELSE temps - 1
    /\ tmp' = "none"
    /\ pc' = "idle"
    /\ UNCHANGED <<fs, caller, acked, failures>>

\* The same when the file cannot be removed either, as on a file system that
\* has become read-only: the guard ignores the error of remove().
ThrowKeepsTemp ==
    /\ pc \in {"write", "rename"}
    /\ kept' = kept + 1
    /\ tmp' = "none"
    /\ pc' = "idle"
    /\ UNCHANGED <<fs, temps, caller, acked, kills, unsynced>>

-----------------------------------------------------------------------------
(* Failures of the process and of the machine. *)

\* The process is killed: nobody removes its temporary file.
Kill ==
    /\ kills < MaxKills
    /\ pc # "idle"
    /\ kills' = kills + 1
    /\ tmp' = "none"
    /\ pc' = "idle"
    /\ UNCHANGED <<fs, temps, caller, acked, unsynced, kept>>

PowerLoss ==
    /\ kills < MaxKills
    /\ kills' = kills + 1
    /\ \E v \in survive["vault"], b \in survive["bak"] :
        /\ files' = [n \in Names |-> IF n = "vault" THEN v ELSE b]
        /\ survive' = [n \in Names |-> IF n = "vault" THEN {v} ELSE {b}]
    /\ dirty' = FALSE
    /\ temps' \in 0..temps
    /\ tmp' = "none"
    /\ pc' = "idle"
    /\ UNCHANGED <<caller, acked, unsynced, kept>>

Next ==
    \/ Save \/ Rekey
    \/ CreateTemp \/ SyncTemp
    \/ BeginBackup \/ EndBackup \/ BackupFails
    \/ RenameTemp \/ SyncDir \/ SyncDirIgnored
    \/ Throw \/ ThrowKeepsTemp
    \/ Kill \/ PowerLoss

Spec == Init /\ [][Next]_vars

-----------------------------------------------------------------------------
(* Properties. *)

\* The variables have their types, and the writer has a temporary file exactly
\* from its creation to its rename: every way out of write_file_atomic parts
\* with it.
TypeOK ==
    /\ files \in [Names -> Content]
    /\ survive \in [Names -> SUBSET Content]
    /\ dirty \in BOOLEAN
    /\ tmp \in {"none", "partial", "synced"}
    /\ temps \in Nat
    /\ pc \in {"idle", "create", "write", "backup", "copying", "rename", "dirsync"}
    /\ mode \in {"save", "rekey"}
    /\ target \in Names
    /\ want \in Blob
    /\ next \in Nat
    /\ acked \in Nat
    /\ kills \in Nat
    /\ unsynced \in BOOLEAN
    /\ kept \in Nat
    /\ tmp # "none" <=> pc \in {"write", "backup", "copying", "rename"}

\* What a reader finds under a name, now or after a power loss.
Outcomes(n) == survive[n] \cup {files[n]}

\* The vault file is never torn, neither for a reader nor after a power loss
\* at any step of a save or a rekey: it is absent or a whole blob.
VaultAlwaysWhole == Torn \notin Outcomes("vault")

\* As long as the directory could be synced, a write that returned to its
\* caller is never undone: whatever fails later, the vault file holds that
\* write or a later one.
AckedWriteSurvives ==
    acked > 0 /\ ~unsynced => \A c \in Outcomes("vault") : c \in Blob /\ c.ver >= acked

\* rekey() writes .bak first: when the vault may be found under a password, a
\* whole backup is never under an older one, however the rekey was interrupted,
\* again as long as the directory could be synced between the two.
BackupNeverBehindRekey ==
    ~unsynced => \A c \in Outcomes("vault"), b \in Outcomes("bak") :
        c \in Blob /\ b \in Blob => b.key >= c.key

\* A failed write leaves no temporary file behind, whichever step failed: each
\* one found in the directory is the current writer's, or that of a process that
\* was killed, or one whose removal failed as well.
TempsAccounted == temps <= kills + kept + (IF tmp = "none" THEN 0 ELSE 1)

===============================================================================
