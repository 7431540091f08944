--------------------------- MODULE VaultStoreProofs ---------------------------
(***************************************************************************)
(* Proofs about VaultStore for any sets of sessions, services, fields,     *)
(* values and passwords, and any bounds.                                   *)
(***************************************************************************)
EXTENDS MCSessions, TLAPS

Active == {"locking"} \cup Holding

\* The entry e was written and nothing older has replaced it.
Reflects(m, e) == m = e \/ (m # NoEntry /\ m.ts > e.ts)

\* What a session knows about its own call, step by step.
SessionInv(s) ==
    LET c == call[s] IN
    /\ pc[s] = "down" <=> key[s] = None
    /\ pc[s] \in Active => c.target \in Passwords
    /\ pc[s] \in Active /\ c.op # "rekey" => c.target = key[s]
    /\ pc[s] \in Active /\ c.op \in {"add", "update"} =>
        /\ c.service \in Services
        /\ c.entry \in Entry
        /\ Reflects(mem[s][c.service], c.entry)
    /\ pc[s] \in Active /\ c.op = "delete" =>
        /\ c.service \in deleted[s]
        /\ mem[s][c.service] = NoEntry
    /\ pc[s] \in {"renaming", "committed"} /\ c.op = "rekey" => bakKey = c.target
    /\ pc[s] = "committed" => vault = [key |-> c.target, entries |-> mem[s]]

\* The inductive invariant: MergeStaysCurrent alone does not say that the
\* password a session encrypts with is the one it merged with.
IndInv ==
    /\ TypeOK
    /\ MergeStaysCurrent
    /\ \A s \in Sessions : SessionInv(s)

-----------------------------------------------------------------------------
(* The merge. *)

\* A merge of two well-formed copies is a well-formed copy.
LEMMA MergeType ==
    ASSUME NEW l \in Entries, NEW d \in Entries, NEW del
    PROVE  Merge(l, del, d) \in Entries
  BY DEF Merge, Entries

\* A merge covers every entry on disk that was not deleted locally.
LEMMA MergeCovers ==
    ASSUME NEW l \in Entries, NEW d \in Entries, NEW del,
           NEW svc \in Services \ del
    PROVE  Covers(Merge(l, del, d)[svc], d[svc])
  BY NoEntryAssumption DEF Merge, Entries, Entry, Covers, Newer

\* A merge never goes back to an entry older than the one a call wrote.
LEMMA MergeReflects ==
    ASSUME NEW l \in Entries, NEW d \in Entries, NEW del,
           NEW svc \in Services, NEW e \in Entry, Reflects(l[svc], e)
    PROVE  Reflects(Merge(l, del, d)[svc], e)
  BY NoEntryAssumption DEF Merge, Entries, Entry, Reflects, Newer

\* A merge leaves the services deleted locally without an entry.
LEMMA MergeKeepsDeleted ==
    ASSUME NEW l, NEW d, NEW del, NEW svc \in Services,
           svc \in del, l[svc] = NoEntry
    PROVE  Merge(l, del, d)[svc] = NoEntry
  BY DEF Merge

\* A copy that covers the disk is its own merge.
LEMMA MergeFixpoint ==
    ASSUME NEW l \in Entries, NEW d \in Entries, NEW del,
           \A svc \in Services \ del : Covers(l[svc], d[svc])
    PROVE  Merge(l, del, d) = l
  BY NoEntryAssumption DEF Merge, Entries, Entry, Covers, Newer

\* Patching an entry with an update gives an entry.
LEMMA PatchType ==
    ASSUME NEW old \in Entry, NEW upd \in Updates, NEW now \in Nat
    PROVE  Patch(old, upd, now) \in Entry
  BY DEF Patch, Updates, Entry

-----------------------------------------------------------------------------
(* Initially the invariant holds, and every step keeps it. *)

LEMMA InitInv == Init => IndInv
  <1> SUFFICES ASSUME Init PROVE IndInv
    OBVIOUS
  <1>1. TypeOK
    BY BoundsAssumption
    DEF Init, TypeOK, Blob, Entries, Calls, Call, Idle, Holding
  <1>2. MergeStaysCurrent
    BY DEF Init, MergeStaysCurrent, Holding
  <1>3. ASSUME NEW s \in Sessions PROVE SessionInv(s)
    BY DEF Init, SessionInv, Active, Holding
  <1> QED
    BY <1>1, <1>2, <1>3 DEF IndInv

\* Opening a session.
LEMMA OpenInv ==
    ASSUME IndInv, NEW s \in Sessions, Open(s)
    PROVE  IndInv'
  <1> USE DEF IndInv, Open, disk
  <1>1. TypeOK'
    BY DEF TypeOK, Holding, Blob
  <1>2. MergeStaysCurrent'
    BY DEF TypeOK, MergeStaysCurrent, Holding
  <1>3. ASSUME NEW t \in Sessions PROVE SessionInv(t)'
    BY <1>3, MarkersAssumption DEF TypeOK, Blob, SessionInv, Active, Holding, Reflects
  <1> QED
    BY <1>1, <1>2, <1>3

\* A process that ends, by closing or by being killed.
LEMMA GoneInv ==
    ASSUME IndInv, NEW s \in Sessions, Gone(s)
    PROVE  IndInv'
  <1> USE DEF IndInv, Gone, disk
  <1>1. TypeOK'
    BY DEF TypeOK, Holding, Entries, Calls, Call, Idle
  <1>2. MergeStaysCurrent'
    BY DEF TypeOK, MergeStaysCurrent, Holding
  <1>3. ASSUME NEW t \in Sessions PROVE SessionInv(t)'
    BY <1>3 DEF TypeOK, SessionInv, Active, Holding, Reflects
  <1> QED
    BY <1>1, <1>2, <1>3

\* An exception that leaves save() or rekey().
LEMMA ThrowInv ==
    ASSUME IndInv, NEW s \in Sessions, pc[s] # "down", Throw(s)
    PROVE  IndInv'
  <1> USE DEF IndInv, Throw, disk, session
  <1>1. TypeOK'
    BY DEF TypeOK, Holding, Calls, Call, Idle
  <1>2. MergeStaysCurrent'
    BY DEF TypeOK, MergeStaysCurrent, Holding
  <1>3. ASSUME NEW t \in Sessions PROVE SessionInv(t)'
    BY <1>3 DEF TypeOK, SessionInv, Active, Holding, Reflects
  <1> QED
    BY <1>1, <1>2, <1>3

\* The start of add_entry or update_entry: an entry is stamped and stored in
\* the session's copy.
LEMMA PutInv ==
    ASSUME IndInv, NEW s \in Sessions, NEW op \in {"add", "update"},
           NEW svc \in Services, NEW fs \in SUBSET Fields, NEW e \in Entry,
           Begin(s, op, svc, fs, e, key[s]),
           mem' = [mem EXCEPT ![s][svc] = e], UNCHANGED deleted
    PROVE  IndInv'
  <1> USE DEF IndInv, Begin, disk
  <1>1. TypeOK'
    BY DEF TypeOK, Holding, Entries, Calls, Call, AllOps
  <1>2. MergeStaysCurrent'
    BY DEF TypeOK, MergeStaysCurrent, Holding
  <1>3. ASSUME NEW t \in Sessions PROVE SessionInv(t)'
    <2>1. key[s] \in Passwords
      BY DEF TypeOK, SessionInv
    <2>2. mem'[s][svc] = e
      BY DEF TypeOK, Entries
    <2> QED
      BY <1>3, <2>1, <2>2 DEF TypeOK, SessionInv, Active, Holding, Call, Reflects
  <1> QED
    BY <1>1, <1>2, <1>3

LEMMA AddEntryInv ==
    ASSUME IndInv, NEW s \in Sessions, NEW svc \in Services,
           NEW val \in [Fields -> Values], AddEntry(s, svc, val)
    PROVE  IndInv'
  <1> DEFINE e == [val |-> val, ts |-> clock]
  <1>1. e \in Entry
    BY DEF Entry, IndInv, TypeOK
  <1> QED
    BY <1>1, PutInv DEF AddEntry

LEMMA UpdateEntryInv ==
    ASSUME IndInv, NEW s \in Sessions, NEW svc \in Services,
           NEW upd \in Updates, UpdateEntry(s, svc, upd)
    PROVE  IndInv'
  <1> DEFINE e == Patch(mem[s][svc], upd, clock)
  <1>1. mem[s][svc] \in Entry /\ clock \in Nat
    BY DEF UpdateEntry, IndInv, TypeOK, Entries
  <1>2. e \in Entry
    BY <1>1, PatchType
  <1>3. DOMAIN upd \in SUBSET Fields
    BY DEF Updates
  <1> HIDE DEF e
  <1> QED
    BY <1>2, <1>3, PutInv DEF UpdateEntry, e

LEMMA DeleteEntryInv ==
    ASSUME IndInv, NEW s \in Sessions, NEW svc \in Services, DeleteEntry(s, svc)
    PROVE  IndInv'
  <1> USE DEF IndInv, DeleteEntry, Begin, disk
  <1>1. TypeOK'
    BY DEF TypeOK, Holding, Entries, Calls, Call, AllOps
  <1>2. MergeStaysCurrent'
    BY DEF TypeOK, MergeStaysCurrent, Holding
  <1>3. ASSUME NEW t \in Sessions PROVE SessionInv(t)'
    <2>1. key[s] \in Passwords
      BY DEF TypeOK, SessionInv
    <2>2. mem'[s][svc] = NoEntry /\ svc \in deleted'[s]
      BY DEF TypeOK, Entries
    <2> QED
      BY <1>3, <2>1, <2>2 DEF TypeOK, SessionInv, Active, Holding, Call, Reflects
  <1> QED
    BY <1>1, <1>2, <1>3

LEMMA RekeyInv ==
    ASSUME IndInv, NEW s \in Sessions, NEW pw \in Passwords, Rekey(s, pw)
    PROVE  IndInv'
  <1> USE DEF IndInv, Rekey, Begin, disk
  <1>1. TypeOK'
    BY DEF TypeOK, Holding, Calls, Call, AllOps
  <1>2. MergeStaysCurrent'
    BY DEF TypeOK, MergeStaysCurrent, Holding
  <1>3. ASSUME NEW t \in Sessions PROVE SessionInv(t)'
    BY <1>3 DEF TypeOK, SessionInv, Active, Holding, Call, Reflects
  <1> QED
    BY <1>1, <1>2, <1>3

LEMMA AcquireLockInv ==
    ASSUME IndInv, NEW s \in Sessions, AcquireLock(s)
    PROVE  IndInv'
  <1> USE DEF IndInv, AcquireLock, disk, session
  <1>1. TypeOK'
    BY DEF TypeOK, Holding
  <1>2. MergeStaysCurrent'
    BY FreeAssumption DEF TypeOK, MergeStaysCurrent, Holding
  <1>3. ASSUME NEW t \in Sessions PROVE SessionInv(t)'
    BY <1>3 DEF TypeOK, SessionInv, Active, Holding, Reflects
  <1> QED
    BY <1>1, <1>2, <1>3

\* The merge establishes what MergeStaysCurrent says.
LEMMA MergeDiskInv ==
    ASSUME IndInv, NEW s \in Sessions, MergeDisk(s)
    PROVE  IndInv'
  <1> USE DEF IndInv, MergeDisk, disk
  <1> DEFINE m == Merge(mem[s], deleted[s], vault.entries)
  <1>0. mem[s] \in Entries /\ vault.entries \in Entries
    BY DEF TypeOK, Blob
  <1>1. m \in Entries /\ mem'[s] = m
    BY <1>0, MergeType DEF TypeOK
  <1>2. \A svc \in Services \ deleted[s] : Covers(m[svc], vault.entries[svc])
    BY <1>0, MergeCovers
  <1>3. \A svc \in Services, e \in Entry :
            Reflects(mem[s][svc], e) => Reflects(m[svc], e)
    BY <1>0, MergeReflects
  <1>4. \A svc \in Services :
            svc \in deleted[s] /\ mem[s][svc] = NoEntry => m[svc] = NoEntry
    BY MergeKeepsDeleted
  <1> HIDE DEF m
  <1>5. TypeOK'
    BY <1>1 DEF TypeOK, Holding, m
  <1>6. MergeStaysCurrent'
    BY <1>1, <1>2 DEF TypeOK, MergeStaysCurrent, Holding, m
  <1>7. ASSUME NEW t \in Sessions PROVE SessionInv(t)'
    <2>1. CASE t = s
      BY <2>1, <1>1, <1>3, <1>4 DEF TypeOK, SessionInv, Active, Holding
    <2>2. CASE t # s
      BY <2>2, <1>7 DEF TypeOK, SessionInv, Active, Holding, Reflects
    <2> QED
      BY <2>1, <2>2
  <1> QED
    BY <1>5, <1>6, <1>7

\* Writing .bak: only the lock holder does it, so no other session's rekey
\* loses the backup it staged.
LEMMA StageInv ==
    ASSUME IndInv, NEW s \in Sessions, StageBackup(s) \/ StageRekey(s)
    PROVE  IndInv'
  <1> USE DEF IndInv, StageBackup, StageRekey, session
  <1>0. bakKey' \in Passwords \cup {NoFile, Torn}
    BY DEF TypeOK, Blob, SessionInv, Active, Holding
  <1>1. TypeOK'
    BY <1>0 DEF TypeOK, Holding
  <1>2. MergeStaysCurrent'
    BY DEF TypeOK, MergeStaysCurrent, Holding
  <1>3. ASSUME NEW t \in Sessions PROVE SessionInv(t)'
    <2>1. t # s => pc[t] \notin Holding
      BY <1>3 DEF MergeStaysCurrent, Holding
    <2> QED
      BY <1>3, <2>1 DEF TypeOK, SessionInv, Active, Holding, Reflects
  <1> QED
    BY <1>1, <1>2, <1>3

LEMMA RenameInv ==
    ASSUME IndInv, NEW s \in Sessions, Rename(s)
    PROVE  IndInv'
  <1> USE DEF IndInv, Rename, session
  <1>0. call[s].target \in Passwords /\ mem[s] \in Entries
    BY DEF TypeOK, SessionInv, Active, Holding
  <1>1. TypeOK'
    BY <1>0 DEF TypeOK, Blob, Holding
  <1>2. \A t \in Sessions : t # s => pc[t] \notin Holding
    BY DEF MergeStaysCurrent, Holding
  <1>3. MergeStaysCurrent'
    BY <1>2 DEF TypeOK, MergeStaysCurrent, Holding
  <1>4. ASSUME NEW t \in Sessions PROVE SessionInv(t)'
    BY <1>4, <1>2 DEF TypeOK, SessionInv, Active, Holding, Reflects
  <1> QED
    BY <1>1, <1>3, <1>4

LEMMA ReturnInv ==
    ASSUME IndInv, NEW s \in Sessions, Return(s)
    PROVE  IndInv'
  <1> USE DEF IndInv, Return, disk
  <1>0. call[s].target \in Passwords
    BY DEF SessionInv, Active, Holding
  <1>1. TypeOK'
    BY <1>0 DEF TypeOK, Holding, Calls, Call, Idle
  <1>2. MergeStaysCurrent'
    BY DEF TypeOK, MergeStaysCurrent, Holding
  <1>3. ASSUME NEW t \in Sessions PROVE SessionInv(t)'
    BY <1>0, <1>3, MarkersAssumption
    DEF TypeOK, SessionInv, Active, Holding, Reflects
  <1> QED
    BY <1>1, <1>2, <1>3

LEMMA TickInv ==
    ASSUME IndInv, Tick
    PROVE  IndInv'
  <1> USE DEF IndInv, Tick, disk, session
  <1>1. TypeOK'
    BY BoundsAssumption DEF TypeOK
  <1>2. MergeStaysCurrent'
    BY DEF MergeStaysCurrent
  <1>3. ASSUME NEW t \in Sessions PROVE SessionInv(t)'
    BY <1>3 DEF SessionInv
  <1> QED
    BY <1>1, <1>2, <1>3

LEMMA StutterInv ==
    ASSUME IndInv, UNCHANGED vars
    PROVE  IndInv'
  BY DEF IndInv, vars, TypeOK, MergeStaysCurrent, SessionInv

LEMMA StepInv == IndInv /\ [Next]_vars => IndInv'
  <1> SUFFICES ASSUME IndInv, [Next]_vars PROVE IndInv'
    OBVIOUS
  <1>1. CASE Tick
    BY <1>1, TickInv
  <1>2. ASSUME NEW s \in Sessions, Request(s) PROVE IndInv'
    BY <1>2, AddEntryInv, UpdateEntryInv, DeleteEntryInv, RekeyInv DEF Request
  <1>3. ASSUME NEW s \in Sessions, Proceed(s) PROVE IndInv'
    <2>1. CASE MergeRejected(s)
      BY <2>1, ThrowInv DEF MergeRejected
    <2> QED
      BY <1>3, <2>1, MergeDiskInv, StageInv, RenameInv, ReturnInv DEF Proceed
  <1>4. ASSUME NEW s \in Sessions, Open(s) \/ Close(s) \/ Crash(s) PROVE IndInv'
    BY <1>4, OpenInv, GoneInv DEF Close, Crash
  <1>5. ASSUME NEW s \in Sessions, IoFails(s) PROVE IndInv'
    BY <1>5, ThrowInv DEF IoFails
  <1>6. ASSUME NEW s \in Sessions, AcquireLock(s) PROVE IndInv'
    BY <1>6, AcquireLockInv
  <1>7. CASE UNCHANGED vars
    BY <1>7, StutterInv
  <1> QED
    BY <1>1, <1>2, <1>3, <1>4, <1>5, <1>6, <1>7 DEF Next

\* The inductive invariant holds of every reachable state.
THEOREM Invariance == Spec => []IndInv
  BY InitInv, StepInv, PTL DEF Spec

-----------------------------------------------------------------------------
(* What follows from it. *)

\* Type correctness of every reachable state.
THEOREM TypeCorrect == Spec => []TypeOK
  <1>1. IndInv => TypeOK
    BY DEF IndInv
  <1> QED
    BY <1>1, Invariance, PTL

\* The file lock makes merge-and-write atomic: the disk a session merged is
\* the disk it overwrites.
THEOREM MergeIsAtomic == Spec => []MergeStaysCurrent
  <1>1. IndInv => MergeStaysCurrent
    BY DEF IndInv
  <1> QED
    BY <1>1, Invariance, PTL

\* A call that is about to return has had its effect on the file.
THEOREM ReturnedCallsTookEffect == Spec => []CallTookEffect
  <1>1. IndInv => CallTookEffect
    BY DEF IndInv, CallTookEffect, SessionInv, Active, Holding, Reflects
  <1> QED
    BY <1>1, Invariance, PTL

\* Only a rename replaces the vault file.
LEMMA OnlyRenames ==
    ASSUME [Next]_vars, vault' # vault
    PROVE  \E s \in Sessions : Rename(s)
  <1>1. ~Tick /\ ~UNCHANGED vars
    BY DEF Tick, disk, vars
  <1>2. ASSUME NEW s \in Sessions PROVE ~Request(s)
    BY DEF Request, AddEntry, UpdateEntry, DeleteEntry, Rekey, Begin, disk
  <1>3. ASSUME NEW s \in Sessions
        PROVE  ~(Open(s) \/ Close(s) \/ Crash(s) \/ IoFails(s) \/ AcquireLock(s))
    BY DEF Open, Close, Crash, Gone, IoFails, Throw, AcquireLock, disk
  <1>4. ASSUME NEW s \in Sessions, Proceed(s) PROVE Rename(s)
    BY <1>4 DEF Proceed, MergeDisk, MergeRejected, Throw, StageBackup,
                StageRekey, Return, disk
  <1> QED
    BY <1>1, <1>2, <1>3, <1>4 DEF Next

\* The only step that replaces the vault file is the rename of a session that
\* holds the lock and has merged.
LEMMA CommitStepHolds == IndInv /\ [Next]_vars => CommitStep
  <1> SUFFICES ASSUME IndInv, [Next]_vars, vault' # vault PROVE CommitStep
    BY DEF CommitStep
  <1>1. PICK s \in Sessions : Rename(s)
    BY OnlyRenames
  <1>2. lock = s /\ vault.key = key[s]
    BY <1>1 DEF Rename, IndInv, MergeStaysCurrent, Holding
  <1>3. \A svc \in Services \ deleted[s] :
            Covers(vault'.entries[svc], vault.entries[svc])
    BY <1>1 DEF Rename, IndInv, MergeStaysCurrent
  <1>4. vault'.key # vault.key => call[s].op = "rekey" /\ bakKey = vault'.key
    BY <1>1, <1>2 DEF Rename, IndInv, SessionInv, Active, Holding
  <1> QED
    BY <1>2, <1>3, <1>4 DEF CommitStep

\* Every write of the vault file, by any session of any number of them,
\* respects what the others wrote.
THEOREM CommitsMerge == Spec => CommitMerges
  <1>1. IndInv /\ [Next]_vars => [CommitStep]_vars
    BY CommitStepHolds
  <1> QED
    BY <1>1, Invariance, PTL DEF Spec, CommitMerges

-----------------------------------------------------------------------------
(* The sessions implement ReplicaStore. *)

\* The password a session is mapped to, and its deletions.
Know(s) == IF pc[s] = "committed" THEN call[s].target ELSE key[s]
Tomb(s) == IF pc[s] = "committed" THEN {} ELSE deleted[s]

LEMMA InitRefines == Init => Replica!Init
  BY DEF Init, Replica!Init, Replica!Empty

\* A session is mapped to a closed one exactly when its process is down.
LEMMA KnowOpen ==
    ASSUME IndInv, NEW s \in Sessions
    PROVE  Know(s) = None <=> pc[s] = "down"
  BY MarkersAssumption DEF IndInv, SessionInv, Know, Active, Holding

\* Steps that move a session without touching what it is mapped to.
LEMMA InvisibleSteps ==
    ASSUME IndInv, NEW s \in Sessions,
           \/ Throw(s) /\ pc[s] # "committed"
           \/ AcquireLock(s)
           \/ StageBackup(s) \/ StageRekey(s)
           \/ Rekey(s, call'[s].target)
           \/ Return(s)
    PROVE  UNCHANGED Replica!vars
  <1>1. UNCHANGED <<vault, mem>>
    BY DEF Throw, AcquireLock, StageBackup, StageRekey, Rekey, Begin, Return,
           disk, session
  <1>2. \A t \in Sessions : Know(t)' = Know(t) /\ Tomb(t)' = Tomb(t)
    BY DEF IndInv, TypeOK, Know, Tomb, Throw, AcquireLock, StageBackup, StageRekey,
           Rekey, Begin, Return, disk, session
  <1> QED
    BY <1>1, <1>2 DEF Replica!vars, Know, Tomb

LEMMA OpenRefines ==
    ASSUME IndInv, NEW s \in Sessions, Open(s)
    PROVE  Replica!Open(s)
  <1>1. Know(s) = None
    BY KnowOpen DEF Open
  <1>2. \A t \in Sessions : /\ Know(t)' = IF t = s THEN vault.key ELSE Know(t)
                            /\ Tomb(t)' = Tomb(t)
    BY DEF IndInv, TypeOK, Open, Know, Tomb
  <1> QED
    BY <1>1, <1>2 DEF Replica!Open, Open, disk, Know, Tomb

LEMMA GoneRefines ==
    ASSUME IndInv, NEW s \in Sessions, pc[s] # "down", Gone(s)
    PROVE  Replica!Drop(s)
  <1>1. Know(s) # None
    BY KnowOpen
  <1>2. \A t \in Sessions : /\ Know(t)' = IF t = s THEN None ELSE Know(t)
                            /\ Tomb(t)' = IF t = s THEN {} ELSE Tomb(t)
    BY DEF IndInv, TypeOK, Gone, Know, Tomb
  <1> QED
    BY <1>1, <1>2 DEF Replica!Drop, Replica!Empty, Gone, disk, Know, Tomb

\* Stamping an entry in the session's copy is a Put.
LEMMA PutRefines ==
    ASSUME IndInv, NEW s \in Sessions, NEW op, NEW svc \in Services, NEW fs,
           NEW val \in [Fields -> Values],
           Begin(s, op, svc, fs, [val |-> val, ts |-> clock], key[s]),
           mem' = [mem EXCEPT ![s][svc] = [val |-> val, ts |-> clock]],
           UNCHANGED deleted
    PROVE  Replica!Put(s, svc, val, clock)
  <1>1. Know(s) # None
    BY KnowOpen DEF Begin
  <1>2. \A t \in Sessions : Know(t)' = Know(t) /\ Tomb(t)' = Tomb(t)
    BY DEF IndInv, TypeOK, Begin, Know, Tomb
  <1> QED
    BY <1>1, <1>2 DEF Replica!Put, Begin, disk, Know, Tomb

LEMMA RequestRefines ==
    ASSUME IndInv, NEW s \in Sessions, Request(s)
    PROVE  Replica!Next \/ UNCHANGED Replica!vars
  <1>0. clock \in 1..MaxClock
    BY DEF IndInv, TypeOK
  <1>1. ASSUME NEW svc \in Services, NEW val \in [Fields -> Values], AddEntry(s, svc, val)
        PROVE  Replica!Next
    <2>1. Replica!Put(s, svc, val, clock)
      BY <1>1, PutRefines DEF AddEntry
    <2> QED
      BY <1>0, <2>1 DEF Replica!Next
  <1>2. ASSUME NEW svc \in Services, NEW upd \in Updates, UpdateEntry(s, svc, upd)
        PROVE  Replica!Next
    <2> DEFINE val == Patch(mem[s][svc], upd, clock).val
    <2>1. mem[s][svc] \in Entry
      BY <1>2 DEF UpdateEntry, IndInv, TypeOK, Entries
    <2>2. /\ val \in [Fields -> Values]
          /\ Patch(mem[s][svc], upd, clock) = [val |-> val, ts |-> clock]
      BY <2>1 DEF Patch, Entry, Updates
    <2>3. Replica!Put(s, svc, val, clock)
      <3> HIDE DEF val
      <3> QED
        BY <1>2, <2>2, PutRefines DEF UpdateEntry
    <2> QED
      BY <1>0, <2>2, <2>3 DEF Replica!Next
  <1>3. ASSUME NEW svc \in Services, DeleteEntry(s, svc)
        PROVE  Replica!Next
    <2>1. Know(s) # None
      BY <1>3, KnowOpen DEF DeleteEntry, Begin
    <2>2. \A t \in Sessions :
            /\ Know(t)' = Know(t)
            /\ Tomb(t)' = IF t = s THEN Tomb(t) \cup {svc} ELSE Tomb(t)
      BY <1>3 DEF IndInv, TypeOK, DeleteEntry, Begin, Know, Tomb
    <2>3. Replica!Remove(s, svc)
      BY <1>3, <2>1, <2>2 DEF Replica!Remove, DeleteEntry, Begin, disk, Know, Tomb
    <2> QED
      BY <2>3 DEF Replica!Next
  <1>4. ASSUME NEW pw \in Passwords, Rekey(s, pw)
        PROVE  UNCHANGED Replica!vars
    <2>1. call'[s].target = pw
      BY <1>4 DEF IndInv, TypeOK, Rekey, Begin, Call
    <2> QED
      BY <1>4, <2>1, InvisibleSteps
  <1> QED
    BY <1>1, <1>2, <1>3, <1>4 DEF Request

\* The merge under the lock is a Pull.
LEMMA MergeRefines ==
    ASSUME IndInv, NEW s \in Sessions, MergeDisk(s)
    PROVE  Replica!Pull(s)
  <1>1. Know(s) = key[s] /\ Tomb(s) = deleted[s]
    BY DEF MergeDisk, Know, Tomb
  <1>2. \A t \in Sessions : Know(t)' = Know(t) /\ Tomb(t)' = Tomb(t)
    BY DEF IndInv, TypeOK, MergeDisk, Know, Tomb
  <1>3. Merge(mem[s], deleted[s], vault.entries)
            = Replica!Join(mem[s], Tomb(s), vault.entries)
    BY <1>1 DEF Merge, Newer, Replica!Join
  <1> QED
    BY <1>1, <1>2, <1>3 DEF Replica!Pull, MergeDisk, disk, Know, Tomb

\* The rename is a Push: the copy written is the join with the store, because
\* the store has not moved since the merge.
LEMMA RenameRefines ==
    ASSUME IndInv, NEW s \in Sessions, Rename(s),
           NEW pw \in Passwords, pw = call[s].target
    PROVE  Replica!Push(s, pw)
  <1>1. Know(s) = vault.key /\ Tomb(s) = deleted[s]
    BY DEF Rename, Know, Tomb, IndInv, MergeStaysCurrent
  <1>2. \A t \in Sessions :
            /\ Know(t)' = IF t = s THEN pw ELSE Know(t)
            /\ Tomb(t)' = IF t = s THEN {} ELSE Tomb(t)
    BY DEF IndInv, TypeOK, Rename, session, Know, Tomb
  <1>3. Merge(mem[s], deleted[s], vault.entries) = mem[s]
    BY MergeFixpoint DEF Rename, IndInv, TypeOK, Blob, MergeStaysCurrent
  <1>4. Replica!Join(mem[s], Tomb(s), vault.entries) = mem[s]
    BY <1>1, <1>3 DEF Merge, Newer, Replica!Join
  <1>5. mem' = [mem EXCEPT ![s] = mem[s]]
    BY DEF Rename, session, IndInv, TypeOK
  <1> QED
    BY <1>1, <1>2, <1>4, <1>5 DEF Replica!Push, Rename, Know, Tomb

LEMMA StepRefines == IndInv /\ [Next]_vars => [Replica!Next]_(Replica!vars)
  <1> SUFFICES ASSUME IndInv, [Next]_vars
               PROVE  Replica!Next \/ UNCHANGED Replica!vars
    OBVIOUS
  <1>1. CASE Tick \/ UNCHANGED vars
    BY <1>1 DEF Tick, vars, disk, session, Replica!vars
  <1>2. ASSUME NEW s \in Sessions, Open(s) PROVE Replica!Next
    BY <1>2, OpenRefines DEF Replica!Next
  <1>3. ASSUME NEW s \in Sessions, Close(s) \/ Crash(s) PROVE Replica!Next
    BY <1>3, GoneRefines DEF Replica!Next, Close, Crash
  <1>4. ASSUME NEW s \in Sessions, IoFails(s) \/ MergeRejected(s) \/ AcquireLock(s)
                    \/ StageBackup(s) \/ StageRekey(s) \/ Return(s)
        PROVE  UNCHANGED Replica!vars
    BY <1>4, InvisibleSteps DEF IoFails, MergeRejected
  <1>5. ASSUME NEW s \in Sessions, MergeDisk(s) PROVE Replica!Next
    BY <1>5, MergeRefines DEF Replica!Next
  <1>6. ASSUME NEW s \in Sessions, Rename(s) PROVE Replica!Next
    <2>1. PICK pw \in Passwords : pw = call[s].target
      BY <1>6 DEF Rename, IndInv, SessionInv, Active, Holding
    <2>2. Replica!Push(s, pw)
      BY <1>6, <2>1, RenameRefines
    <2> QED
      BY <2>2 DEF Replica!Next
  <1> QED
    BY <1>1, <1>2, <1>3, <1>4, <1>5, <1>6, RequestRefines DEF Next, Proceed

\* Sessions that lock, merge, stage, rename, fail and crash are, seen from
\* outside, sessions that join their replica with one store atomically.
THEOREM Refinement == Spec => ImplementsReplicaStore
  BY InitRefines, StepRefines, Invariance, PTL
  DEF Spec, ImplementsReplicaStore, Replica!Spec

-----------------------------------------------------------------------------
(* Sessions that delete nothing and never stamp one service twice in one   *)
(* second leave each other's entries alone.                                *)

\* m is d, or what d has replaced.
Behind(m, d) == m = NoEntry \/ (d # NoEntry /\ (m = d \/ m.ts < d.ts))

\* Two copies of one service with one stamp are the same.
Same(x, y) == x # NoEntry /\ y # NoEntry /\ x.ts = y.ts => x = y

\* The services a session has entries of its own for.
Own(s) == leftover[s] \cup (IF pc[s] \in Active THEN {call[s].service} ELSE {})

\* What no session has on its own account is on disk, or was.
OwnInv == \A s \in Sessions : \A svc \in Services \ Own(s) : Behind(mem[s][svc], vault.entries[svc])

SameInv ==
    \A svc \in Services : \A s \in Sessions :
        /\ Same(mem[s][svc], vault.entries[svc])
        /\ \A t \in Sessions : Same(mem[s][svc], mem[t][svc])

OthersInv ==
    /\ \A s \in Sessions : deleted[s] = {}
    /\ \A s \in Sessions : pc[s] = "down" => leftover[s] = {}
    /\ \A s \in Sessions : pc[s] \in Active /\ call[s].op = "rekey" => call[s].service = None
    /\ OwnInv
    /\ SameInv

LEMMA BehindMoves ==
    ASSUME NEW m \in Entry \cup {NoEntry}, NEW d \in Entry \cup {NoEntry},
           NEW e \in Entry \cup {NoEntry}, Behind(m, d), Covers(e, d), Same(e, d)
    PROVE  Behind(m, e)
  BY NoEntryAssumption DEF Entry, Behind, Covers, Same

LEMMA BehindAndCovers ==
    ASSUME NEW m \in Entry \cup {NoEntry}, NEW d \in Entry \cup {NoEntry},
           Behind(m, d), Covers(m, d)
    PROVE  m = d
  BY NoEntryAssumption DEF Entry, Behind, Covers

\* A session that does not move has as much of its own as before.
LEMMA Bystander ==
    ASSUME IndInv, OthersInv, LeftoverNext, NEW t \in Sessions,
           pc'[t] = pc[t], call'[t] = call[t], NEW svc \in Services, svc \notin Own(t)'
    PROVE  Behind(mem[t][svc], vault.entries[svc])
  <1>1. leftover'[t] = IF pc'[t] = "down" \/ pc[t] = "committed" THEN {}
                       ELSE IF pc[t] # "ready" /\ pc'[t] = "ready" /\ call[t].op # "rekey"
                            THEN leftover[t] \cup {call[t].service}
                            ELSE leftover[t]
    BY DEF LeftoverNext
  <1>2. CASE pc[t] = "committed"
    <2>1. vault.entries = mem[t]
      BY <1>2 DEF IndInv, SessionInv
    <2> QED
      BY <2>1 DEF Behind
  <1>3. CASE pc[t] # "committed"
    <2>1. leftover'[t] = leftover[t]
      BY <1>1, <1>3 DEF OthersInv
    <2>2. Own(t)' = Own(t)
      BY <2>1 DEF Own
    <2> QED
      BY <2>2 DEF OthersInv, OwnInv
  <1> QED
    BY <1>2, <1>3

\* The types of all copies.
LEMMA Copies ==
    ASSUME IndInv, NEW svc \in Services
    PROVE  /\ vault.entries[svc] \in Entry \cup {NoEntry}
           /\ \A t \in Sessions : mem[t][svc] \in Entry \cup {NoEntry}
  BY DEF IndInv, TypeOK, Blob, Entries

\* A step that leaves the entries on disk and in memory alone, except of a
\* process that ends or starts.
LEMMA OthersKept ==
    ASSUME IndInv, OthersInv, LeftoverNext, NEW s \in Sessions, UNCHANGED <<vault, deleted>>,
           \A t \in Sessions \ {s} : UNCHANGED <<pc[t], call[t], mem[t]>>,
           \A svc \in Services : mem'[s][svc] \in {mem[s][svc], vault.entries[svc], NoEntry},
           \A svc \in Services \ Own(s)' : Behind(mem'[s][svc], vault.entries[svc]),
           pc'[s] \in Active /\ call'[s].op = "rekey" => call'[s].service = None
    PROVE  OthersInv'
  <1>1. \A t \in Sessions : deleted'[t] = {}
    BY DEF OthersInv
  <1>2. \A t \in Sessions : pc'[t] = "down" => leftover'[t] = {}
    BY DEF LeftoverNext
  <1>3. ASSUME NEW t \in Sessions, NEW svc \in Services \ Own(t)'
        PROVE  Behind(mem'[t][svc], vault'.entries[svc])
    BY <1>3, Bystander
  <1>4. ASSUME NEW svc \in Services, NEW t \in Sessions, NEW u \in Sessions
        PROVE  Same(mem'[t][svc], vault'.entries[svc]) /\ Same(mem'[t][svc], mem'[u][svc])
    <2>1. \A x \in Sessions : mem'[x][svc] \in {mem[x][svc], vault.entries[svc], NoEntry}
      OBVIOUS
    <2>2. /\ \A x \in Sessions : Same(mem[x][svc], vault.entries[svc])
          /\ \A x, y \in Sessions : Same(mem[x][svc], mem[y][svc])
      BY DEF OthersInv, SameInv
    <2> QED
      BY <2>1, <2>2 DEF Same
  <1>5. OwnInv'
    BY <1>3 DEF OwnInv
  <1>6. SameInv'
    BY <1>4 DEF SameInv
  <1>7. ASSUME NEW t \in Sessions, pc'[t] \in Active, call'[t].op = "rekey"
        PROVE  call'[t].service = None
    BY <1>7 DEF OthersInv
  <1> QED
    BY <1>1, <1>2, <1>5, <1>6, <1>7 DEF OthersInv

\* A session that ends has nothing.
LEMMA GoneOthers ==
    ASSUME IndInv, OthersInv, LeftoverNext, NEW s \in Sessions, Gone(s)
    PROVE  OthersInv'
  <1>1. /\ vault' = vault /\ \A t \in Sessions \ {s} : UNCHANGED <<pc[t], call[t], mem[t]>>
        /\ \A svc \in Services : mem'[s][svc] = NoEntry
    BY DEF Gone, disk, IndInv, TypeOK
  <1>2. deleted' = deleted
    BY DEF Gone, IndInv, TypeOK, OthersInv
  <1>3. \A svc \in Services : Behind(mem'[s][svc], vault.entries[svc])
    BY <1>1 DEF Behind
  <1>4. pc'[s] = "down"
    BY DEF Gone, IndInv, TypeOK
  <1> QED
    BY <1>1, <1>2, <1>3, <1>4, OthersKept DEF Active, Holding

LEMMA OpenOthers ==
    ASSUME IndInv, OthersInv, LeftoverNext, NEW s \in Sessions, Open(s)
    PROVE  OthersInv'
  <1>1. /\ UNCHANGED <<vault, deleted>>
        /\ \A t \in Sessions \ {s} : UNCHANGED <<pc[t], call[t], mem[t]>>
        /\ \A svc \in Services : mem'[s][svc] = vault.entries[svc]
    BY DEF Open, disk, IndInv, TypeOK
  <1>2. \A svc \in Services : Behind(mem'[s][svc], vault.entries[svc])
    BY <1>1 DEF Behind
  <1>3. pc'[s] = "ready"
    BY DEF Open, IndInv, TypeOK
  <1> QED
    BY <1>1, <1>2, <1>3, OthersKept DEF Active, Holding

\* What was a session's own while it was busy is its own when it has thrown.
LEMMA ThrowOthers ==
    ASSUME IndInv, OthersInv, LeftoverNext, NEW s \in Sessions, Throw(s), pc[s] \in Active
    PROVE  OthersInv'
  <1>1. /\ UNCHANGED <<vault, deleted, mem>>
        /\ \A t \in Sessions \ {s} : UNCHANGED <<pc[t], call[t], mem[t]>>
        /\ pc'[s] = "ready"
    BY DEF Throw, disk, session, IndInv, TypeOK
  <1>2. ASSUME NEW svc \in Services \ Own(s)' PROVE Behind(mem[s][svc], vault.entries[svc])
    <2>1. CASE pc[s] = "committed"
      <3>1. vault.entries = mem[s]
        BY <2>1 DEF IndInv, SessionInv
      <3> QED
        BY <3>1 DEF Behind
    <2>2. CASE pc[s] # "committed"
      <3>1. leftover'[s] = IF call[s].op # "rekey" THEN leftover[s] \cup {call[s].service}
                           ELSE leftover[s]
        BY <1>1, <2>2 DEF LeftoverNext, Active, Holding
      <3>2. call[s].op = "rekey" => call[s].service \notin Services
        BY MarkersAssumption DEF OthersInv
      <3>3. svc \notin Own(s)
        BY <3>1, <3>2 DEF Own
      <3> QED
        BY <3>3 DEF OthersInv, OwnInv
    <2> QED
      BY <2>1, <2>2
  <1> QED
    BY <1>1, <1>2, OthersKept DEF Active, Holding

\* An entry stamped after every other copy of its service.
LEMMA PutOthers ==
    ASSUME IndInv, OthersInv, LeftoverNext, DistinctSeconds,
           NEW s \in Sessions, NEW op \in {"add", "update"},
           NEW svc \in Services, NEW fs, NEW e \in Entry, e.ts = clock,
           Begin(s, op, svc, fs, e, key[s]),
           mem' = [mem EXCEPT ![s][svc] = e], UNCHANGED deleted
    PROVE  OthersInv'
  <1>1. /\ vault' = vault
        /\ \A t \in Sessions \ {s} : UNCHANGED <<pc[t], call[t], mem[t]>>
        /\ pc[s] = "ready" /\ pc'[s] = "locking"
        /\ call'[s].op = op /\ call'[s].service = svc
    BY DEF Begin, Call, disk, IndInv, TypeOK
  <1>2. /\ mem'[s][svc] = e
        /\ \A x \in Services \ {svc} : mem'[s][x] = mem[s][x]
    BY DEF IndInv, TypeOK, Entries
  <1>3. \A t \in Sessions :
            /\ mem[t][svc] # NoEntry => mem[t][svc].ts < clock
            /\ vault.entries[svc] # NoEntry => vault.entries[svc].ts < clock
    BY <1>1 DEF DistinctSeconds
  <1>4. leftover'[s] = leftover[s]
    BY <1>1 DEF LeftoverNext
  <1>5. ASSUME NEW t \in Sessions, NEW x \in Services \ Own(t)'
        PROVE  Behind(mem'[t][x], vault'.entries[x])
    <2>1. CASE t # s
      BY <1>1, <1>5, <2>1, Bystander
    <2>2. CASE t = s
      <3>1. x # svc /\ x \notin Own(s)
        BY <1>1, <1>4, <1>5, <2>2 DEF Own, Active, Holding
      <3> QED
        BY <1>1, <1>2, <2>2, <3>1 DEF OthersInv, OwnInv
    <2> QED
      BY <2>1, <2>2
  <1>6. ASSUME NEW x \in Services, NEW t \in Sessions, NEW u \in Sessions
        PROVE  Same(mem'[t][x], vault'.entries[x]) /\ Same(mem'[t][x], mem'[u][x])
    <2>1. /\ \A y \in Sessions : Same(mem[y][x], vault.entries[x])
          /\ \A y, z \in Sessions : Same(mem[y][x], mem[z][x])
      BY DEF OthersInv, SameInv
    <2>2. CASE x # svc
      <3>1. \A y \in Sessions : mem'[y][x] = mem[y][x]
        BY <1>1, <1>2, <2>2
      <3> QED
        BY <1>1, <2>1, <3>1
    <2>3. CASE x = svc
      <3>1. \A y \in Sessions : mem'[y][svc] = IF y = s THEN e ELSE mem[y][svc]
        BY <1>1, <1>2
      <3>2. \A y \in Sessions : Same(e, mem[y][svc]) /\ Same(mem[y][svc], e)
        BY <1>3, Copies DEF Same, Entry, IndInv, TypeOK
      <3>3. Same(e, vault.entries[svc])
        BY <1>3, Copies DEF Same, Entry, IndInv, TypeOK
      <3>4. Same(e, e)
        BY DEF Same
      <3> QED
        BY <1>1, <2>1, <2>3, <3>1, <3>2, <3>3, <3>4
    <2> QED
      BY <2>2, <2>3
  <1>7. \A t \in Sessions : deleted'[t] = {}
    BY DEF OthersInv
  <1>8. \A t \in Sessions : pc'[t] = "down" => leftover'[t] = {}
    BY DEF LeftoverNext
  <1>9. ASSUME NEW t \in Sessions, pc'[t] \in Active, call'[t].op = "rekey"
        PROVE  call'[t].service = None
    BY <1>1, <1>9 DEF OthersInv
  <1>10. OwnInv'
    BY <1>5 DEF OwnInv
  <1>11. SameInv'
    BY <1>6 DEF SameInv
  <1> QED
    BY <1>7, <1>8, <1>9, <1>10, <1>11 DEF OthersInv

LEMMA RequestOthers ==
    ASSUME IndInv, OthersInv, LeftoverNext, DistinctSeconds, "delete" \notin Ops,
           NEW s \in Sessions, Request(s)
    PROVE  OthersInv'
  <1>0. clock \in Nat
    BY DEF IndInv, TypeOK
  <1>1. ASSUME NEW svc \in Services, NEW val \in [Fields -> Values], AddEntry(s, svc, val)
        PROVE  OthersInv'
    <2> DEFINE e == [val |-> val, ts |-> clock]
    <2>1. e \in Entry /\ e.ts = clock
      BY <1>0 DEF Entry
    <2> QED
      BY <1>1, <2>1, PutOthers DEF AddEntry
  <1>2. ASSUME NEW svc \in Services, NEW upd \in Updates, UpdateEntry(s, svc, upd)
        PROVE  OthersInv'
    <2> DEFINE e == Patch(mem[s][svc], upd, clock)
    <2>1. mem[s][svc] \in Entry
      BY <1>2 DEF UpdateEntry, IndInv, TypeOK, Entries
    <2>2. e \in Entry
      BY <1>0, <2>1, PatchType
    <2>3. e.ts = clock
      BY DEF Patch
    <2> HIDE DEF e
    <2> QED
      BY <1>2, <2>2, <2>3, PutOthers DEF UpdateEntry, e
  <1>3. ASSUME NEW svc \in Services, DeleteEntry(s, svc)
        PROVE  OthersInv'
    BY <1>3 DEF DeleteEntry, Begin
  <1>4. ASSUME NEW pw \in Passwords, Rekey(s, pw)
        PROVE  OthersInv'
    <2>1. /\ UNCHANGED <<vault, deleted, mem>>
          /\ \A t \in Sessions \ {s} : UNCHANGED <<pc[t], call[t], mem[t]>>
          /\ pc[s] = "ready" /\ pc'[s] = "locking" /\ call'[s].service = None
      BY <1>4 DEF Rekey, Begin, Call, disk, IndInv, TypeOK
    <2>2. leftover'[s] = leftover[s]
      BY <2>1 DEF LeftoverNext
    <2>3. \A svc \in Services \ Own(s)' : Behind(mem'[s][svc], vault.entries[svc])
      BY <2>1, <2>2 DEF Own, Active, Holding, OthersInv, OwnInv
    <2> QED
      BY <2>1, <2>3, OthersKept
  <1> QED
    BY <1>1, <1>2, <1>3, <1>4 DEF Request

\* A busy session that stays busy with its call, merging or not.
LEMMA BusyOthers ==
    ASSUME IndInv, OthersInv, LeftoverNext, NEW s \in Sessions,
           AcquireLock(s) \/ MergeDisk(s) \/ StageBackup(s) \/ StageRekey(s)
    PROVE  OthersInv'
  <1>1. /\ UNCHANGED <<vault, deleted, call>>
        /\ \A t \in Sessions \ {s} : UNCHANGED <<pc[t], mem[t]>>
        /\ pc[s] \in Active \ {"committed"} /\ pc'[s] \in Active
    BY DEF AcquireLock, MergeDisk, StageBackup, StageRekey, disk, session,
           Active, Holding, IndInv, TypeOK
  <1>2. Own(s)' = Own(s)
    BY <1>1 DEF Own, LeftoverNext, Active, Holding
  <1>3. \A svc \in Services : mem'[s][svc] \in {mem[s][svc], vault.entries[svc]}
    BY DEF AcquireLock, MergeDisk, StageBackup, StageRekey, session, Merge, IndInv, TypeOK
  <1>4. \A svc \in Services \ Own(s)' : Behind(mem'[s][svc], vault.entries[svc])
    BY <1>2, <1>3 DEF OthersInv, OwnInv, Behind
  <1>5. call'[s].op = "rekey" => call'[s].service = None
    BY <1>1 DEF OthersInv
  <1> QED
    BY <1>1, <1>3, <1>4, <1>5, OthersKept

\* The rename: what a session keeps on nobody's account was behind the old
\* file and is behind the new one, which covers it.
LEMMA RenameOthers ==
    ASSUME IndInv, OthersInv, LeftoverNext, NEW s \in Sessions, Rename(s)
    PROVE  OthersInv'
  <1>1. /\ UNCHANGED <<mem, deleted, call>> /\ vault'.entries = mem[s]
        /\ \A t \in Sessions \ {s} : pc'[t] = pc[t]
    BY DEF Rename, session, IndInv, TypeOK
  <1>2. \A svc \in Services : Covers(mem[s][svc], vault.entries[svc])
    BY DEF Rename, IndInv, MergeStaysCurrent, OthersInv
  <1>3. ASSUME NEW t \in Sessions, NEW svc \in Services \ Own(t)'
        PROVE  Behind(mem'[t][svc], vault'.entries[svc])
    <2>1. CASE t = s
      BY <1>1, <2>1 DEF Behind
    <2>2. CASE t # s
      <3>1. Behind(mem[t][svc], vault.entries[svc])
        BY <1>1, <1>3, <2>2, Bystander
      <3>2. Same(mem[s][svc], vault.entries[svc])
        BY DEF OthersInv, SameInv
      <3> QED
        BY <1>1, <1>2, <3>1, <3>2, Copies, BehindMoves
    <2> QED
      BY <2>1, <2>2
  <1>4. \A t \in Sessions : deleted'[t] = {}
    BY <1>1 DEF OthersInv
  <1>5. \A t \in Sessions : pc'[t] = "down" => leftover'[t] = {}
    BY DEF LeftoverNext
  <1>6. ASSUME NEW t \in Sessions, pc'[t] \in Active, call'[t].op = "rekey"
        PROVE  call'[t].service = None
    BY <1>1, <1>6 DEF OthersInv, Rename, Active, Holding
  <1>7. OwnInv'
    BY <1>3 DEF OwnInv
  <1>8. SameInv'
    BY <1>1 DEF OthersInv, SameInv
  <1> QED
    BY <1>4, <1>5, <1>6, <1>7, <1>8 DEF OthersInv

\* A call that returns leaves the session with what is on disk.
LEMMA ReturnOthers ==
    ASSUME IndInv, OthersInv, LeftoverNext, NEW s \in Sessions, Return(s)
    PROVE  OthersInv'
  <1>1. /\ UNCHANGED <<vault, mem>>
        /\ \A t \in Sessions \ {s} : UNCHANGED <<pc[t], call[t], mem[t]>>
        /\ pc'[s] = "ready" /\ vault.entries = mem[s]
    BY DEF Return, disk, IndInv, TypeOK, SessionInv
  <1>2. deleted' = deleted
    BY DEF Return, IndInv, TypeOK, OthersInv
  <1>3. \A svc \in Services : Behind(mem'[s][svc], vault.entries[svc])
    BY <1>1 DEF Behind
  <1> QED
    BY <1>1, <1>2, <1>3, OthersKept DEF Active, Holding

LEMMA TickOthers ==
    ASSUME IndInv, OthersInv, LeftoverNext, Tick
    PROVE  OthersInv'
  <1>1. UNCHANGED <<vault, mem, deleted, pc, call>>
    BY DEF Tick, disk, session
  <1>2. \A t \in Sessions : pc'[t] = "down" => leftover'[t] = {}
    BY DEF LeftoverNext
  <1>3. OwnInv'
    BY <1>1, Bystander DEF OwnInv
  <1>4. SameInv'
    BY <1>1 DEF OthersInv, SameInv
  <1> QED
    BY <1>1, <1>2, <1>3, <1>4 DEF OthersInv

LEMMA OthersStep ==
    ASSUME IndInv, OthersInv, "delete" \notin Ops,
           [Next /\ DistinctSeconds /\ LeftoverNext]_<<vars, leftover>>
    PROVE  OthersInv'
  <1>1. CASE UNCHANGED <<vars, leftover>>
    BY <1>1 DEF vars, OthersInv, OwnInv, SameInv, Own
  <1>2. CASE Next /\ DistinctSeconds /\ LeftoverNext
    <2> USE <1>2
    <2>1. CASE Tick
      BY <2>1, TickOthers
    <2>2. ASSUME NEW s \in Sessions, Open(s) \/ Close(s) \/ Crash(s) PROVE OthersInv'
      BY <2>2, OpenOthers, GoneOthers DEF Close, Crash
    <2>3. ASSUME NEW s \in Sessions, IoFails(s) \/ MergeRejected(s) PROVE OthersInv'
      <3>1. Throw(s) /\ pc[s] \in Active
        BY <2>3 DEF IoFails, MergeRejected, Active, Holding
      <3> QED
        BY <3>1, ThrowOthers
    <2>4. ASSUME NEW s \in Sessions, Request(s) PROVE OthersInv'
      BY <2>4, RequestOthers
    <2>5. ASSUME NEW s \in Sessions,
                 AcquireLock(s) \/ MergeDisk(s) \/ StageBackup(s) \/ StageRekey(s)
          PROVE  OthersInv'
      BY <2>5, BusyOthers
    <2>6. ASSUME NEW s \in Sessions, Rename(s) \/ Return(s) PROVE OthersInv'
      BY <2>6, RenameOthers, ReturnOthers
    <2> QED
      BY <2>1, <2>2, <2>3, <2>4, <2>5, <2>6 DEF Next, Proceed
  <1> QED
    BY <1>1, <1>2

LEMMA OthersInit ==
    ASSUME Init, leftover = [s \in Sessions |-> {}]
    PROVE  OthersInv
  <1>1. \A s \in Sessions : /\ deleted[s] = {} /\ leftover[s] = {} /\ pc[s] = "down"
                            /\ \A svc \in Services : mem[s][svc] = NoEntry
    BY DEF Init
  <1> QED
    BY <1>1 DEF OthersInv, OwnInv, SameInv, Same, Behind, Active, Holding

\* A rename writes back what the file already holds, except of the session's
\* own services.
LEMMA OthersWritten ==
    ASSUME IndInv, OthersInv, [Next]_vars, NEW s \in Sessions,
           pc[s] = "renaming", pc'[s] = "committed",
           NEW svc \in Services \ ({call[s].service} \cup leftover[s])
    PROVE  vault'.entries[svc] = vault.entries[svc]
  <1> SUFFICES ASSUME vault' # vault PROVE vault'.entries[svc] = vault.entries[svc]
    OBVIOUS
  <1>1. PICK u \in Sessions : Rename(u)
    BY OnlyRenames
  <1>2. u = s
    BY <1>1 DEF Rename, IndInv, TypeOK
  <1>3. vault'.entries = mem[s]
    BY <1>1, <1>2 DEF Rename
  <1>4. Covers(mem[s][svc], vault.entries[svc])
    BY DEF IndInv, MergeStaysCurrent, OthersInv
  <1>5. svc \notin Own(s)
    BY DEF Own
  <1>6. Behind(mem[s][svc], vault.entries[svc])
    BY <1>5 DEF OthersInv, OwnInv
  <1> QED
    BY <1>3, <1>4, <1>6, Copies, BehindAndCovers

\* Sessions that delete nothing, with the clock telling their stamps of one
\* service apart, never change another service when they write the file:
\* neither an entry a concurrent session updated nor one it added.
THEOREM OthersSurvive ==
    ASSUME "delete" \notin Ops
    PROVE  SessionsSpec => OthersUntouched
  <1> DEFINE Act == Next /\ DistinctSeconds /\ LeftoverNext
             hvars == <<vars, leftover>>
             Kept == \A s \in Sessions : pc[s] = "renaming" /\ pc'[s] = "committed" =>
                        \A svc \in Services \ ({call[s].service} \cup leftover[s]) :
                            vault'.entries[svc] = vault.entries[svc]
  <1>1. [Act]_hvars => [Next]_vars
    BY DEF vars
  <1>2. IndInv /\ OthersInv /\ [Act]_hvars => IndInv' /\ OthersInv'
    <2> SUFFICES ASSUME IndInv, OthersInv, [Act]_hvars PROVE IndInv' /\ OthersInv'
      OBVIOUS
    <2>1. IndInv'
      BY <1>1, StepInv
    <2>2. OthersInv'
      BY OthersStep
    <2> QED
      BY <2>1, <2>2
  <1>3. IndInv /\ OthersInv /\ [Act]_hvars => [Kept]_hvars
    BY <1>1, OthersWritten
  <1>4. Init /\ leftover = [s \in Sessions |-> {}] => IndInv /\ OthersInv
    BY InitInv, OthersInit
  <1> HIDE DEF Act, hvars, Kept
  <1> QED
    BY <1>2, <1>3, <1>4, PTL DEF SessionsSpec, OthersUntouched, Act, hvars, Kept

===============================================================================
