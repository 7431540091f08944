--------------------------- MODULE AtomicWriteProofs ---------------------------
(***************************************************************************)
(* Proofs about AtomicWrite for any number of writes, kills and power      *)
(* losses.                                                                 *)
(***************************************************************************)
EXTENDS AtomicWrite, TLAPS

\* The writer's temporary file exists from its creation to its rename, and it
\* is synced before anything is renamed.
TempInv ==
    /\ pc \in {"idle", "create", "dirsync"} => tmp = "none"
    /\ pc = "write" => tmp = "partial"
    /\ pc \in {"backup", "copying", "rename"} => tmp = "synced"
    /\ tmp # "none" => temps > 0
    /\ TempsAccounted

\* With that, a name never shows what it could not also keep, and the vault
\* never comes back torn.
WholeInv ==
    /\ TypeOK
    /\ TempInv
    /\ \A n \in Names : files[n] \in survive[n]
    /\ Torn \notin survive["vault"]

\* How far the numbers of the writes have got.
CountInv ==
    /\ acked <= want.ver
    /\ want.ver < next
    /\ want.key < next
    /\ \A n \in Names : \A c \in survive[n] \cap Blob : c.key < next
    /\ \A c \in survive["vault"] \cap Blob : c.ver >= acked
    /\ acked > 0 => NoFile \notin survive["vault"]
    /\ pc = "dirsync" => files[target] = want

\* What the writer knows of the two files while it works, and the visible
\* vault is under the newest password of those that may survive.
KeyInv ==
    /\ mode = "save" => target = "vault"
    /\ pc \in {"create", "write", "backup", "copying", "rename"} /\ mode = "save" =>
        want.key = IF files["vault"] = NoFile THEN 0 ELSE files["vault"].key
    /\ pc \in {"backup", "copying"} => mode = "save" /\ files["vault"] # NoFile
    /\ pc # "idle" /\ mode = "rekey" => want.key + 1 = next
    /\ pc # "idle" /\ mode = "rekey" /\ target = "vault" => survive["bak"] = {want}
    /\ pc = "dirsync" /\ target = "bak" => ~dirty
    /\ \A c \in survive["vault"] \cap Blob :
        files["vault"] \in Blob /\ c.key <= files["vault"].key
    /\ \A c \in survive["vault"] \cap Blob, b \in survive["bak"] \cap Blob :
        b.key >= c.key

-----------------------------------------------------------------------------
(* The vault file is always whole. *)

LEMMA WholeInit == Init => WholeInv
  <1> SUFFICES ASSUME Init PROVE WholeInv
    OBVIOUS
  <1>1. TypeOK
    BY DEF Init, TypeOK, Names, Content, Blob
  <1>2. TempInv
    BY DEF Init, TempInv, TempsAccounted
  <1>3. (\A n \in Names : files[n] \in survive[n]) /\ Torn \notin survive["vault"]
    BY MarkersAssumption DEF Init, Names
  <1> QED
    BY <1>1, <1>2, <1>3 DEF WholeInv

LEMMA TempStep == TypeOK /\ TempInv /\ [Next]_vars => TempInv'
  <1> SUFFICES ASSUME TypeOK, TempInv, [Next]_vars PROVE TempInv'
    OBVIOUS
  <1> USE DEF TypeOK, TempInv, TempsAccounted, failures
  <1>1. CASE Save
    BY <1>1 DEF Save
  <1>2. CASE Rekey
    BY <1>2 DEF Rekey
  <1>3. CASE CreateTemp
    BY <1>3 DEF CreateTemp
  <1>4. CASE SyncTemp
    BY <1>4 DEF SyncTemp
  <1>5. CASE BeginBackup
    BY <1>5 DEF BeginBackup
  <1>6. CASE EndBackup
    BY <1>6 DEF EndBackup
  <1>7. CASE BackupFails
    BY <1>7 DEF BackupFails
  <1>8. CASE RenameTemp
    BY <1>8 DEF RenameTemp
  <1>9. CASE SyncDir
    BY <1>9 DEF SyncDir, Return
  <1>10. CASE SyncDirIgnored
    BY <1>10 DEF SyncDirIgnored, Return
  <1>11. CASE Throw
    BY <1>11 DEF Throw
  <1>12. CASE Kill
    BY <1>12 DEF Kill
  <1>13. CASE PowerLoss
    BY <1>13 DEF PowerLoss
  <1>14. CASE UNCHANGED vars
    BY <1>14 DEF vars, fs, caller, failures
  <1>15. CASE ThrowKeepsTemp
    BY <1>15 DEF ThrowKeepsTemp
  <1> QED
    BY <1>1, <1>2, <1>3, <1>4, <1>5, <1>6, <1>7, <1>8, <1>9, <1>10, <1>11,
       <1>12, <1>13, <1>14, <1>15 DEF Next

LEMMA TypeStep == WholeInv /\ [Next]_vars => TypeOK'
  <1> SUFFICES ASSUME WholeInv, [Next]_vars PROVE TypeOK'
    OBVIOUS
  <1>0. TypeOK /\ TempInv
    BY DEF WholeInv
  <1> USE <1>0 DEF TypeOK, Names, fs, caller, failures
  <1>1. CASE Save
    <2>1. files["vault"] \in Blob \cup {NoFile}
      BY DEF WholeInv, Content
    <2>2. want' \in Blob
      BY <1>1, <2>1 DEF Save, Blob
    <2> QED
      BY <1>1, <2>2 DEF Save
  <1>2. CASE Rekey
    BY <1>2 DEF Rekey, Blob
  <1>3. CASE CreateTemp \/ SyncTemp \/ BackupFails
    BY <1>3 DEF CreateTemp, SyncTemp, BackupFails
  <1>4. CASE BeginBackup \/ EndBackup
    <2>1. files' \in [Names -> Content] /\ survive' \in [Names -> SUBSET Content]
      BY <1>4 DEF BeginBackup, EndBackup, Content
    <2>2. dirty' \in BOOLEAN
      BY <1>4 DEF BeginBackup, EndBackup
    <2> QED
      BY <1>4, <2>1, <2>2 DEF BeginBackup, EndBackup
  <1>5. CASE RenameTemp
    BY <1>5 DEF RenameTemp, Renamed, TempInv, Content
  <1>6. CASE SyncDir \/ SyncDirIgnored
    <2>1. acked' \in Nat /\ target' \in Names /\ pc' \in {"create", "idle"}
            /\ UNCHANGED <<mode, want, next>>
      BY <1>6 DEF SyncDir, SyncDirIgnored, Return, Blob
    <2>2. survive' \in [Names -> SUBSET Content]
      BY <1>6 DEF SyncDir, SyncDirIgnored
    <2> QED
      BY <1>6, <2>1, <2>2 DEF SyncDir, SyncDirIgnored
  <1>7. CASE Throw \/ ThrowKeepsTemp \/ Kill
    BY <1>7 DEF Throw, ThrowKeepsTemp, Kill, TempInv
  <1>8. CASE PowerLoss
    <2>1. files' \in [Names -> Content] /\ survive' \in [Names -> SUBSET Content]
      BY <1>8 DEF PowerLoss
    <2>2. temps' \in Nat /\ kills' \in Nat
      BY <1>8 DEF PowerLoss
    <2>3. dirty' \in BOOLEAN
      BY <1>8 DEF PowerLoss
    <2> QED
      BY <1>8, <2>1, <2>2, <2>3 DEF PowerLoss
  <1>9. CASE UNCHANGED vars
    BY <1>9 DEF vars, fs, caller
  <1> QED
    BY <1>1, <1>2, <1>3, <1>4, <1>5, <1>6, <1>7, <1>8, <1>9 DEF Next

LEMMA WholeStep == WholeInv /\ [Next]_vars => WholeInv'
  <1> SUFFICES ASSUME WholeInv, [Next]_vars PROVE WholeInv'
    OBVIOUS
  <1> DEFINE Kept == /\ \A n \in Names : files[n] \in survive[n]
                     /\ Torn \notin survive["vault"]
  <1>0. TypeOK' /\ TempInv'
    BY TypeStep, TempStep DEF WholeInv
  <1> SUFFICES Kept'
    BY <1>0 DEF WholeInv
  <1> USE DEF WholeInv, TypeOK, Names, fs
  <1>1. CASE Save \/ Rekey \/ CreateTemp \/ SyncTemp \/ BackupFails
                \/ SyncDirIgnored \/ Throw \/ ThrowKeepsTemp \/ Kill \/ UNCHANGED vars
    BY <1>1 DEF Save, Rekey, CreateTemp, SyncTemp, BackupFails, SyncDirIgnored,
                Throw, ThrowKeepsTemp, Kill, vars, fs, caller, failures
  <1>2. CASE BeginBackup \/ EndBackup
    BY <1>2 DEF BeginBackup, EndBackup
  <1>3. CASE RenameTemp
    BY <1>3, MarkersAssumption DEF RenameTemp, Renamed, TempInv
  <1>4. CASE SyncDir
    BY <1>4 DEF SyncDir
  <1>5. CASE PowerLoss
    BY <1>5 DEF PowerLoss
  <1> QED
    BY <1>1, <1>2, <1>3, <1>4, <1>5 DEF Next

THEOREM WholeInvariance == Spec => []WholeInv
  BY WholeInit, WholeStep, PTL DEF Spec

\* Type correctness of every reachable state.
THEOREM TypeCorrect == Spec => []TypeOK
  <1>1. WholeInv => TypeOK
    BY DEF WholeInv
  <1> QED
    BY <1>1, WholeInvariance, PTL

\* However many writes fail and wherever, the temporary files in the directory
\* are the current writer's, those of killed processes, and those that the
\* guard's remove() failed on.
THEOREM TempsAreAccounted == Spec => []TempsAccounted
  <1>1. WholeInv => TempsAccounted
    BY DEF WholeInv, TempInv
  <1> QED
    BY <1>1, WholeInvariance, PTL

\* A vault file is never torn, whatever is killed, fails or loses power, even
\* when the directory is never synced.
THEOREM VaultIsAlwaysWhole == Spec => []VaultAlwaysWhole
  <1>1. WholeInv => VaultAlwaysWhole
    BY DEF WholeInv, VaultAlwaysWhole, Outcomes, Names
  <1> QED
    BY <1>1, WholeInvariance, PTL

-----------------------------------------------------------------------------
(* Where the directory can be synced, writes that returned stay, and .bak  *)
(* is ahead of the vault in a rekey.                                       *)

\* The history flag is never cleared.
LEMMA SyncHistory == [Next]_vars /\ unsynced => unsynced'
  BY DEF Next, vars, Save, Rekey, CreateTemp, SyncTemp, BeginBackup, EndBackup, BackupFails,
         RenameTemp, SyncDir, SyncDirIgnored, Throw, ThrowKeepsTemp, Kill, PowerLoss, failures

LEMMA CountInit == Init => CountInv
  BY MarkersAssumption DEF Init, CountInv, Names

LEMMA CountStep == WholeInv /\ CountInv /\ [Next]_vars /\ ~unsynced' => CountInv'
  <1> SUFFICES ASSUME WholeInv, CountInv, [Next]_vars, ~unsynced' PROVE CountInv'
    OBVIOUS
  <1>0. /\ TypeOK
        /\ \A n \in Names : files[n] \in survive[n]
        /\ want.ver \in Nat /\ want.key \in Nat
    BY DEF WholeInv, TypeOK, Blob
  <1> USE <1>0 DEF CountInv, TypeOK, Names, fs, caller, failures
  <1>1. CASE Save
    <2>1. want'.ver = next /\ want'.key < next'
      <3>1. CASE files["vault"] = NoFile
        BY <1>1, <3>1 DEF Save
      <3>2. CASE files["vault"] # NoFile
        <4>1. files["vault"] \in Blob
          BY <3>2 DEF WholeInv, Content
        <4> QED
          BY <1>1, <3>2, <4>1 DEF Save, Blob
      <3> QED
        BY <3>1, <3>2
    <2> QED
      BY <1>1, <2>1 DEF Save, Blob
  <1>2. CASE Rekey
    BY <1>2 DEF Rekey, Blob
  <1>3. CASE CreateTemp \/ SyncTemp \/ BackupFails \/ Throw \/ ThrowKeepsTemp \/ Kill
                \/ UNCHANGED vars
    BY <1>3 DEF CreateTemp, SyncTemp, BackupFails, Throw, ThrowKeepsTemp, Kill, vars, fs, caller,
                failures
  <1>4. CASE BeginBackup
    BY <1>4, MarkersAssumption DEF BeginBackup
  <1>5. CASE EndBackup
    BY <1>5 DEF EndBackup
  <1>6. CASE RenameTemp
    <2>1. survive'[target] = survive[target] \cup {want} /\ files'[target] = want
      BY <1>6 DEF RenameTemp, Renamed, WholeInv, TempInv
    <2>2. \A n \in Names : n # target => survive'[n] = survive[n]
      BY <1>6 DEF RenameTemp
    <2>3. want # NoFile
      BY MarkersAssumption
    <2> QED
      BY <1>6, <2>1, <2>2, <2>3 DEF RenameTemp
  <1>7. CASE SyncDir
    <2>1. \A n \in Names : survive'[n] \subseteq survive[n]
      BY <1>7 DEF SyncDir
    <2>2. CASE target = "bak"
      BY <1>7, <2>1, <2>2 DEF SyncDir, Return
    <2>3. CASE target = "vault"
      <3>1. survive'["vault"] = {want} /\ acked' = want.ver /\ UNCHANGED <<want, next>>
        BY <1>7, <2>3 DEF SyncDir, Return
      <3>2. want # NoFile
        BY MarkersAssumption
      <3> QED
        BY <1>7, <2>1, <2>3, <3>1, <3>2 DEF SyncDir, Return
    <2> QED
      BY <2>2, <2>3
  <1>8. CASE SyncDirIgnored
    BY <1>8 DEF SyncDirIgnored
  <1>9. CASE PowerLoss
    <2>1. \A n \in Names : survive'[n] \subseteq survive[n]
      BY <1>9 DEF PowerLoss
    <2> QED
      BY <1>9, <2>1 DEF PowerLoss
  <1> QED
    BY <1>1, <1>2, <1>3, <1>4, <1>5, <1>6, <1>7, <1>8, <1>9 DEF Next

\* As long as directory syncs succeed, no power loss takes the vault back
\* before a write that returned to its caller.
THEOREM AckedWritesSurvive == Spec => []AckedWriteSurvives
  <1>1. WholeInv /\ (~unsynced => CountInv) => AckedWriteSurvives
    <2> SUFFICES ASSUME WholeInv, CountInv, acked > 0, NEW c \in Outcomes("vault")
                 PROVE  c \in Blob /\ c.ver >= acked
      BY DEF AckedWriteSurvives
    <2>1. c \in survive["vault"] /\ c \in Content /\ c # Torn /\ c # NoFile
      BY DEF WholeInv, CountInv, TypeOK, Outcomes, Names
    <2> QED
      BY <2>1 DEF CountInv, Content
  <1> QED
    BY <1>1, SyncHistory, CountInit, CountStep, WholeInvariance, PTL DEF Spec

LEMMA KeyInit == Init => KeyInv
  BY MarkersAssumption DEF Init, KeyInv, Names

LEMMA KeyStep == WholeInv /\ CountInv /\ KeyInv /\ [Next]_vars /\ ~unsynced' => KeyInv'
  <1> SUFFICES ASSUME WholeInv, CountInv, KeyInv, [Next]_vars, ~unsynced' PROVE KeyInv'
    OBVIOUS
  <1>0. /\ TypeOK
        /\ \A n \in Names : files[n] \in survive[n]
        /\ want.ver \in Nat /\ want.key \in Nat
        /\ \A c \in Blob : c.key \in Nat
        /\ \A n \in Names : \A c \in survive[n] \cap Blob : c.key < next
        /\ files["vault"] \in Blob \cup {NoFile}
    BY DEF WholeInv, TypeOK, Blob, CountInv, Content, Names
  <1> USE <1>0 DEF KeyInv, TypeOK, Names, fs, caller, failures
  <1>1. CASE Save
    BY <1>1 DEF Save
  <1>2. CASE Rekey
    BY <1>2 DEF Rekey
  <1>3. CASE CreateTemp \/ BackupFails \/ Throw \/ ThrowKeepsTemp \/ Kill
                \/ UNCHANGED vars
    BY <1>3 DEF CreateTemp, BackupFails, Throw, ThrowKeepsTemp, Kill, vars, fs, caller,
                failures
  <1>4. CASE SyncTemp
    BY <1>4 DEF SyncTemp
  <1>5. CASE BeginBackup
    BY <1>5, MarkersAssumption DEF BeginBackup
  <1>6. CASE EndBackup
    BY <1>6, MarkersAssumption DEF EndBackup
  <1>7. CASE RenameTemp
    <2>1. survive'[target] = survive[target] \cup {want} /\ files'[target] = want
      BY <1>7 DEF RenameTemp, Renamed, WholeInv, TempInv
    <2>2. \A n \in Names : n # target => survive'[n] = survive[n] /\ files'[n] = files[n]
      BY <1>7 DEF RenameTemp
    <2>3. UNCHANGED <<want, mode, target, next>> /\ pc' = "dirsync" /\ pc = "rename"
      BY <1>7 DEF RenameTemp
    <2>4. CASE target = "bak"
      <3>1. ~dirty'
        BY <1>7, <2>4 DEF RenameTemp
      <3>2. mode = "rekey" /\ want.key + 1 = next
        BY <2>3, <2>4
      <3>3. \A c \in survive["vault"] \cap Blob : c.key <= want.key
        BY <3>2
      <3> QED
        BY <2>1, <2>2, <2>3, <2>4, <3>1, <3>2, <3>3
    <2>5. CASE target = "vault"
      <3>1. \A c \in survive["vault"] \cap Blob : c.key <= want.key
        <4>1. CASE mode = "rekey"
          BY <2>3, <4>1
        <4>2. CASE mode = "save"
          BY <2>3, <2>5, <4>2, MarkersAssumption
        <4> QED
          BY <4>1, <4>2
      <3>2. \A b \in survive["bak"] \cap Blob : b.key >= want.key
        BY <2>3, <2>5
      <3> QED
        BY <2>1, <2>2, <2>3, <2>5, <3>1, <3>2
    <2> QED
      BY <2>4, <2>5
  <1>8. CASE SyncDir
    <2>1. \A n \in Names : survive'[n] \subseteq survive[n]
      BY <1>8 DEF SyncDir
    <2>2. CASE target = "bak"
      <3>1. survive'["bak"] = {want}
        BY <1>8, <2>2 DEF SyncDir, CountInv
      <3> QED
        BY <1>8, <2>1, <2>2, <3>1 DEF SyncDir, Return
    <2>3. CASE target = "vault"
      BY <1>8, <2>1, <2>3 DEF SyncDir, Return
    <2> QED
      BY <2>2, <2>3
  <1>9. CASE SyncDirIgnored
    BY <1>9 DEF SyncDirIgnored
  <1>10. CASE PowerLoss
    <2>1. /\ \A n \in Names : survive'[n] \subseteq survive[n]
          /\ survive'["vault"] = {files'["vault"]}
          /\ pc' = "idle" /\ UNCHANGED <<want, mode, target, next>>
      BY <1>10 DEF PowerLoss
    <2> QED
      BY <2>1
  <1> QED
    BY <1>1, <1>2, <1>3, <1>4, <1>5, <1>6, <1>7, <1>8, <1>9, <1>10 DEF Next

\* Under the same condition a rekey, however it is interrupted, leaves no whole
\* backup under an older password than the vault's.
THEOREM BackupsFollowRekey == Spec => []BackupNeverBehindRekey
  <1>1. WholeInv /\ (~unsynced => KeyInv) => BackupNeverBehindRekey
    BY DEF WholeInv, KeyInv, BackupNeverBehindRekey, Outcomes, Names
  <1> QED
    BY <1>1, SyncHistory, CountInit, CountStep, KeyInit, KeyStep, WholeInvariance, PTL DEF Spec

===============================================================================
