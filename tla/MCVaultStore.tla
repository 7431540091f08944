----------------------------- MODULE MCVaultStore -----------------------------
(***************************************************************************)
(* Instances of VaultStore for TLC.                                        *)
(***************************************************************************)
EXTENDS VaultStore, TLC

\* Sessions, services, field values and passwords are interchangeable.
Symmetry ==
    Permutations(Sessions) \cup Permutations(Services)
        \cup Permutations(Values) \cup Permutations(Passwords)

\* No two writes of the same service carry the same second: a session stamps
\* an entry only when every copy of that service is older.
DistinctSeconds ==
    \A s \in Sessions : pc[s] = "ready" /\ call'[s].op \in {"add", "update"} =>
        \A t \in Sessions :
            LET svc == call'[s].service IN
            /\ mem[t][svc] # NoEntry => mem[t][svc].ts < clock
            /\ vault.entries[svc] # NoEntry => vault.entries[svc].ts < clock

DistinctSpec == Init /\ [][Next /\ DistinctSeconds]_vars

===============================================================================
