------------------------------ MODULE VaultStore ------------------------------
(***************************************************************************)
(* The sessions of VaultService (src/vault_service.cpp) that share one     *)
(* vault file.  A session is one VaultService object: a CLI command, the   *)
(* interactive shell or the agent.  It loads the file once, keeps its own  *)
(* copy in memory, and every mutating operation changes that copy first    *)
(* and then runs save() or rekey(): take the file lock, merge the disk     *)
(* into the copy, write the whole copy back.                               *)
(*                                                                         *)
(* The file system below write_file_atomic is the subject of AtomicWrite;  *)
(* here a write is the step that replaces the file, preceded by the step   *)
(* that refreshes the .bak file.                                           *)
(***************************************************************************)
EXTENDS Naturals, FiniteSets

CONSTANTS
    Sessions,   \* VaultService objects, each in a process of its own
    Services,   \* service names, the keys of the vault
    Fields,     \* the fields of an entry an update may set (username, password, totp)
    Values,     \* what a field can hold
    Passwords,  \* master passwords
    NoEntry,    \* "the vault has no entry of that name"
    NoFile,     \* the .bak file does not exist
    Torn,       \* the .bak file holds a partial copy, which no password opens
    Free,       \* the lock file is not locked
    None,       \* no password, no service
    Ops,        \* the operations the sessions of a model run
    MaxClock,   \* bound on the wall clock, in seconds
    IoFaults,   \* whether opening, reading and writing files may fail
    Crashes     \* whether processes may be killed

Entry == [val : [Fields -> Values], ts : Nat]
Entries == [Services -> Entry \cup {NoEntry}]
Blob == [key : Passwords, entries : Entries]
AllOps == {"add", "update", "delete", "rekey"}

ASSUME NoEntryAssumption == NoEntry \notin Entry
ASSUME FreeAssumption == Free \notin Sessions
ASSUME MarkersAssumption ==
    /\ NoFile \notin Passwords
    /\ Torn \notin Passwords \cup {NoFile}
    /\ None \notin Passwords \cup Services
ASSUME OpsAssumption == Ops \subseteq AllOps
ASSUME BoundsAssumption ==
    /\ MaxClock \in Nat \ {0}
    /\ IoFaults \in BOOLEAN
    /\ Crashes \in BOOLEAN

VARIABLES
    vault,    \* the vault file: the password that opens it and its entries
    bakKey,   \* the .bak file, reduced to the password that opens it
    lock,     \* the session whose open file description holds the flock
    clock,    \* std::time(nullptr)
    pc,       \* where each session stands
    mem,      \* vault_
    key,      \* master_password_
    deleted,  \* deleted_services_, as a set
    call      \* the arguments of the operation in progress

vars == <<vault, bakKey, lock, clock, pc, mem, key, deleted, call>>
session == <<mem, key, deleted>>
disk == <<vault, bakKey>>

-----------------------------------------------------------------------------
(* Entries and the merge. *)

\* Mutants of Newer: the time stamps are not compared; an entry the session has
\* never seen is not taken.
NewerIgnoresTime(d, l) == d # NoEntry /\ l = NoEntry
NewerSkipsUnknown(d, l) == d # NoEntry /\ l # NoEntry /\ d.ts > l.ts

\* An entry on disk replaces the local one when there is none or when its
\* last_updated is strictly greater.
Newer(d, l) == d # NoEntry /\ (l = NoEntry \/ d.ts > l.ts)

\* merge_disk_state_with_lock_held: the local copy after the merge.
Merge(local, del, onDisk) ==
    [svc \in Services |->
        IF svc \notin del /\ Newer(onDisk[svc], local[svc])
        THEN onDisk[svc]
        ELSE local[svc]]

\* Mutant of Patch: the fields that were not given are dropped.
PatchDropsFields(old, upd, now) == [val |-> upd, ts |-> now]

\* update_entry: the fields given replace those of the session's own copy.
Patch(old, upd, now) ==
    [val |-> [f \in Fields |-> IF f \in DOMAIN upd THEN upd[f] ELSE old.val[f]],
     ts  |-> now]

\* A call in progress: the operation, its service, the fields it was given,
\* the entry it stamped and the password the next write encrypts with.
Calls == [op : AllOps \cup {"none"}, service : Services \cup {None},
          fields : SUBSET Fields, entry : Entry \cup {NoEntry},
          target : Passwords \cup {None}]
Call(op, svc, fs, e, pw) ==
    [op |-> op, service |-> svc, fields |-> fs, entry |-> e, target |-> pw]
Idle == Call("none", None, {}, NoEntry, None)

Holding == {"merging", "staging", "renaming", "committed"}

-----------------------------------------------------------------------------
Init ==
    /\ vault \in [key : Passwords, entries : {[svc \in Services |-> NoEntry]}]
    /\ bakKey = NoFile
    /\ lock = Free
    /\ clock = 1
    /\ pc = [s \in Sessions |-> "down"]
    /\ mem = [s \in Sessions |-> [svc \in Services |-> NoEntry]]
    /\ key = [s \in Sessions |-> None]
    /\ deleted = [s \in Sessions |-> {}]
    /\ call = [s \in Sessions |-> Idle]

\* VaultService(path, master_password): load_vault reads the file without the
\* lock and throws on any other password.
Open(s) ==
    /\ pc[s] = "down"
    /\ pc' = [pc EXCEPT ![s] = "ready"]
    /\ mem' = [mem EXCEPT ![s] = vault.entries]
    /\ key' = [key EXCEPT ![s] = vault.key]
    /\ UNCHANGED <<disk, lock, clock, deleted, call>>

\* The process of s ends, normally or not: its memory is gone, and the kernel
\* drops the lock with the last file descriptor.
Gone(s) ==
    /\ pc' = [pc EXCEPT ![s] = "down"]
    /\ mem' = [mem EXCEPT ![s] = [svc \in Services |-> NoEntry]]
    /\ key' = [key EXCEPT ![s] = None]
    /\ deleted' = [deleted EXCEPT ![s] = {}]
    /\ call' = [call EXCEPT ![s] = Idle]
    /\ lock' = IF lock = s THEN Free ELSE lock
    /\ UNCHANGED <<disk, clock>>

Close(s) == pc[s] = "ready" /\ Gone(s)
Crash(s) == Crashes /\ pc[s] \notin {"down", "ready"} /\ Gone(s)

\* Mutants of Throw: the lock stays held; the pending deletions are forgotten.
ThrowKeepsLock(s) ==
    /\ pc' = [pc EXCEPT ![s] = "ready"]
    /\ call' = [call EXCEPT ![s] = Idle]
    /\ UNCHANGED <<disk, lock, clock, session>>
ThrowForgetsDeletions(s) ==
    /\ pc' = [pc EXCEPT ![s] = "ready"]
    /\ lock' = IF lock = s THEN Free ELSE lock
    /\ call' = [call EXCEPT ![s] = Idle]
    /\ deleted' = [deleted EXCEPT ![s] = {}]
    /\ UNCHANGED <<disk, clock, mem, key>>

\* An exception leaves save() or rekey(): FileLockGuard releases the lock and
\* nothing rolls back vault_ or deleted_services_.
Throw(s) ==
    /\ pc' = [pc EXCEPT ![s] = "ready"]
    /\ lock' = IF lock = s THEN Free ELSE lock
    /\ call' = [call EXCEPT ![s] = Idle]
    /\ UNCHANGED <<disk, clock, session>>

-----------------------------------------------------------------------------
(* The four mutating operations, up to the call of acquire_file_lock.      *)
(* Arguments the code rejects leave the state as it is.                    *)

Begin(s, op, svc, fs, e, pw) ==
    /\ op \in Ops
    /\ pc[s] = "ready"
    /\ pc' = [pc EXCEPT ![s] = "locking"]
    /\ call' = [call EXCEPT ![s] = Call(op, svc, fs, e, pw)]
    /\ UNCHANGED <<disk, lock, clock, key>>

AddEntry(s, svc, val) ==
    LET e == [val |-> val, ts |-> clock] IN
    /\ mem[s][svc] = NoEntry
    /\ Begin(s, "add", svc, Fields, e, key[s])
    /\ mem' = [mem EXCEPT ![s][svc] = e]
    /\ UNCHANGED deleted

UpdateEntry(s, svc, upd) ==
    LET e == Patch(mem[s][svc], upd, clock) IN
    /\ mem[s][svc] # NoEntry
    /\ Begin(s, "update", svc, DOMAIN upd, e, key[s])
    /\ mem' = [mem EXCEPT ![s][svc] = e]
    /\ UNCHANGED deleted

\* Mutant of DeleteEntry: the deletion is not remembered for the merge.
DeleteEntryForgets(s, svc) ==
    /\ mem[s][svc] # NoEntry
    /\ Begin(s, "delete", svc, {}, NoEntry, key[s])
    /\ mem' = [mem EXCEPT ![s][svc] = NoEntry]
    /\ UNCHANGED deleted

DeleteEntry(s, svc) ==
    /\ mem[s][svc] # NoEntry
    /\ Begin(s, "delete", svc, {}, NoEntry, key[s])
    /\ mem' = [mem EXCEPT ![s][svc] = NoEntry]
    /\ deleted' = [deleted EXCEPT ![s] = @ \cup {svc}]

Rekey(s, pw) ==
    /\ Begin(s, "rekey", None, {}, NoEntry, pw)
    /\ UNCHANGED <<mem, deleted>>

-----------------------------------------------------------------------------
(* save() and rekey() under the lock. *)

\* Mutant of AcquireLock: the lock is not exclusive.
AcquireLockShared(s) ==
    /\ pc[s] = "locking"
    /\ lock' = s
    /\ pc' = [pc EXCEPT ![s] = "merging"]
    /\ UNCHANGED <<disk, clock, session, call>>

\* flock(LOCK_EX) waits until nobody else holds the lock.
AcquireLock(s) ==
    /\ pc[s] = "locking"
    /\ lock = Free
    /\ lock' = s
    /\ pc' = [pc EXCEPT ![s] = "merging"]
    /\ UNCHANGED <<disk, clock, session, call>>

\* merge_disk_state_with_lock_held, when master_password_ still opens the file.
MergeDisk(s) ==
    /\ pc[s] = "merging"
    /\ vault.key = key[s]
    /\ mem' = [mem EXCEPT ![s] = Merge(mem[s], deleted[s], vault.entries)]
    /\ pc' = [pc EXCEPT ![s] = "staging"]
    /\ UNCHANGED <<disk, lock, clock, key, deleted, call>>

\* Another session has rekeyed the vault: load_vault throws.
MergeRejected(s) ==
    /\ pc[s] = "merging"
    /\ vault.key # key[s]
    /\ Throw(s)

\* save(): write_file_atomic syncs the temporary file, then copies the old
\* vault over .bak; a copy that fails, at the start or half way, is a warning.
StageBackup(s) ==
    /\ pc[s] = "staging"
    /\ call[s].op # "rekey"
    /\ bakKey' \in {vault.key} \cup (IF IoFaults THEN {bakKey, Torn} ELSE {})
    /\ pc' = [pc EXCEPT ![s] = "renaming"]
    /\ UNCHANGED <<vault, lock, clock, session, call>>

\* rekey(): .bak is replaced by the vault encrypted under the new password.
StageRekey(s) ==
    /\ pc[s] = "staging"
    /\ call[s].op = "rekey"
    /\ bakKey' = call[s].target
    /\ pc' = [pc EXCEPT ![s] = "renaming"]
    /\ UNCHANGED <<vault, lock, clock, session, call>>

\* The rename that replaces the vault file.
Rename(s) ==
    /\ pc[s] = "renaming"
    /\ vault' = [key |-> call[s].target, entries |-> mem[s]]
    /\ pc' = [pc EXCEPT ![s] = "committed"]
    /\ UNCHANGED <<bakKey, lock, clock, session, call>>

\* The rest of save() or rekey(): forget the deletions, adopt the password,
\* release the lock, return.
Return(s) ==
    /\ pc[s] = "committed"
    /\ key' = [key EXCEPT ![s] = call[s].target]
    /\ deleted' = [deleted EXCEPT ![s] = {}]
    /\ call' = [call EXCEPT ![s] = Idle]
    /\ lock' = Free
    /\ pc' = [pc EXCEPT ![s] = "ready"]
    /\ UNCHANGED <<disk, clock, mem>>

\* The lock file cannot be opened, the vault cannot be read, or one of the
\* writes fails before its rename.
IoFails(s) ==
    /\ IoFaults
    /\ pc[s] \in {"locking", "merging", "staging", "renaming"}
    /\ Throw(s)

Tick ==
    /\ clock < MaxClock
    /\ clock' = clock + 1
    /\ UNCHANGED <<disk, lock, pc, session, call>>

Updates == UNION {[fs -> Values] : fs \in SUBSET Fields}

Request(s) ==
    \/ \E svc \in Services :
        \/ \E val \in [Fields -> Values] : AddEntry(s, svc, val)
        \/ \E upd \in Updates : UpdateEntry(s, svc, upd)
        \/ DeleteEntry(s, svc)
    \/ \E pw \in Passwords : Rekey(s, pw)

\* What a session does on its own once the user has asked for an operation.
Proceed(s) ==
    \/ MergeDisk(s) \/ MergeRejected(s)
    \/ StageBackup(s) \/ StageRekey(s)
    \/ Rename(s) \/ Return(s)

Next ==
    \/ Tick
    \/ \E s \in Sessions :
        \/ Open(s) \/ Close(s) \/ Crash(s) \/ IoFails(s)
        \/ Request(s) \/ AcquireLock(s) \/ Proceed(s)

Spec == Init /\ [][Next]_vars

\* A session that was asked for something keeps running.  The kernel serves
\* the waiters of a flock in turn, so one that waits is not overtaken for ever.
Fairness ==
    \A s \in Sessions : WF_vars(Proceed(s)) /\ SF_vars(AcquireLock(s))

FairSpec == Spec /\ Fairness

-----------------------------------------------------------------------------
(* Properties. *)

\* Every variable holds a value of its C++ type's model; a session's password
\* and call frame exist exactly while the process does.
TypeOK ==
    /\ vault \in Blob
    /\ bakKey \in Passwords \cup {NoFile, Torn}
    /\ lock \in Sessions \cup {Free}
    /\ clock \in 1..MaxClock
    /\ pc \in [Sessions -> {"down", "ready", "locking"} \cup Holding]
    /\ mem \in [Sessions -> Entries]
    /\ key \in [Sessions -> Passwords \cup {None}]
    /\ deleted \in [Sessions -> SUBSET Services]
    /\ call \in [Sessions -> Calls]

\* d may be replaced by l on disk: l is there and is not older.
Covers(l, d) == d # NoEntry => l # NoEntry /\ l.ts >= d.ts

\* From the merge to the rename the lock is held, the file still opens with
\* the session's password, and the copy about to be written covers every entry
\* on disk the session did not delete: the file does not move under a save().
MergeStaysCurrent ==
    \A s \in Sessions :
        /\ pc[s] \in Holding => lock = s
        /\ pc[s] \in {"staging", "renaming"} =>
            /\ vault.key = key[s]
            /\ \A svc \in Services \ deleted[s] :
                Covers(mem[s][svc], vault.entries[svc])

\* A step that replaces the vault file: it is made by the lock holder, whose
\* password opens the file; it covers what the session did not delete; and a
\* change of password is a rekey() whose backup is already written.
CommitStep ==
    vault' # vault =>
        \E s \in Sessions :
            /\ lock = s
            /\ vault.key = key[s]
            /\ \A svc \in Services \ deleted[s] :
                Covers(vault'.entries[svc], vault.entries[svc])
            /\ vault'.key # vault.key =>
                call[s].op = "rekey" /\ bakKey = vault'.key

\* No write of the vault file loses somebody else's work: an entry disappears
\* or goes back to an older time stamp only if the writing session deleted it,
\* a session that missed a rekey() never writes, and only rekey() changes the
\* password.
CommitMerges == [][CommitStep]_vars

\* When save() or rekey() is about to return, what the caller asked for is in
\* the file, which is exactly the session's copy: an added or updated entry is
\* there unless a later one replaced it, a deleted entry is not there, and
\* after rekey() the old password opens neither the vault nor the backup.
CallTookEffect ==
    \A s \in Sessions : pc[s] = "committed" =>
        LET c == call[s] IN
        /\ vault = [key |-> c.target, entries |-> mem[s]]
        /\ c.op \in {"add", "update"} =>
            \/ vault.entries[c.service] = c.entry
            \/ vault.entries[c.service] # NoEntry /\ vault.entries[c.service].ts > c.entry.ts
        /\ c.op = "delete" => vault.entries[c.service] = NoEntry
        /\ c.op = "rekey" => bakKey = c.target

\* A session that asked for the lock gets its answer: it returns or throws.
SaveReturns ==
    \A s \in Sessions : pc[s] = "locking" ~> pc[s] \in {"ready", "down"}

\* "Merges any concurrent disk writes": a deletion written by another session
\* is merged too, so that an entry comes back only when it is added again.
DeletionsAreMerged ==
    [][\A s \in Sessions : pc[s] = "renaming" /\ pc'[s] = "committed" =>
        \A svc \in Services \ {call[s].service} :
            vault.entries[svc] = NoEntry => vault'.entries[svc] = NoEntry]_vars

-----------------------------------------------------------------------------
(* The sessions implement ReplicaStore.  A committed session has pushed,   *)
(* though it has not yet adopted the password in memory.                   *)

Replica == INSTANCE ReplicaStore WITH
    Stamps <- 1..MaxClock,
    store <- vault,
    replica <- mem,
    know <- [s \in Sessions |->
                IF pc[s] = "committed" THEN call[s].target ELSE key[s]],
    tomb <- [s \in Sessions |->
                IF pc[s] = "committed" THEN {} ELSE deleted[s]]

\* Locking, merging, staging, renaming, failing and crashing amount to atomic
\* joins of a session's replica with the store.
ImplementsReplicaStore == Replica!Spec

===============================================================================
