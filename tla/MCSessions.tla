------------------------------ MODULE MCSessions ------------------------------
(***************************************************************************)
(* VaultStore with the services a failed call left in a session's memory.  *)
(***************************************************************************)
EXTENDS MCVaultStore

\* History: the services whose add or update by a session threw, so that the
\* entry stayed in its memory for its next save to write.
VARIABLE leftover

LeftoverNext ==
    leftover' = [s \in Sessions |->
        IF pc'[s] = "down" \/ pc[s] = "committed" THEN {}
        ELSE IF pc[s] # "ready" /\ pc'[s] = "ready" /\ call[s].op # "rekey"
             THEN leftover[s] \cup {call[s].service}
             ELSE leftover[s]]

SessionsSpec ==
    /\ Init
    /\ leftover = [s \in Sessions |-> {}]
    /\ [][Next /\ DistinctSeconds /\ LeftoverNext]_<<vars, leftover>>
    /\ Fairness

\* "Verify that Service B did not clobber Service A's update": the write made
\* by an operation on one service leaves the other services as they are on
\* disk, unless an earlier call of this session stored an entry and then threw.
OthersUntouched ==
    [][\A s \in Sessions : pc[s] = "renaming" /\ pc'[s] = "committed" =>
        \A svc \in Services \ ({call[s].service} \cup leftover[s]) :
            vault'.entries[svc] = vault.entries[svc]]_<<vars, leftover>>

===============================================================================
