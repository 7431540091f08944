----------------------------- MODULE ReplicaStore -----------------------------
(***************************************************************************)
(* What the sessions of a vault promise together, without locks, files,    *)
(* temporary copies or failures: one store and a replica of it per         *)
(* session.  A session changes its replica freely; now and then it joins   *)
(* its replica with the store, entry by entry, the later time stamp        *)
(* winning, and the store becomes the join in one step.                    *)
(***************************************************************************)
EXTENDS Naturals

CONSTANTS Sessions, Services, Fields, Values, Passwords, Stamps, NoEntry, None

VARIABLES
    store,    \* the shared vault: a password and the entries
    replica,  \* the entries each session believes in
    know,     \* the password each session has, None when it is closed
    tomb      \* the services each session deleted since its last Push

vars == <<store, replica, know, tomb>>

Empty == [svc \in Services |-> NoEntry]

\* The later entry wins, the replica's own on a tie; services the session
\* deleted are not taken back from the store.
Join(r, t, e) ==
    [svc \in Services |->
        IF /\ svc \notin t
           /\ e[svc] # NoEntry
           /\ r[svc] = NoEntry \/ e[svc].ts > r[svc].ts
        THEN e[svc]
        ELSE r[svc]]

Init ==
    /\ store \in [key : Passwords, entries : {Empty}]
    /\ replica = [s \in Sessions |-> Empty]
    /\ know = [s \in Sessions |-> None]
    /\ tomb = [s \in Sessions |-> {}]

\* A session takes the store as its replica.
Open(s) ==
    /\ know[s] = None
    /\ replica' = [replica EXCEPT ![s] = store.entries]
    /\ know' = [know EXCEPT ![s] = store.key]
    /\ UNCHANGED <<store, tomb>>

\* A session ends; what it did not push is lost.
Drop(s) ==
    /\ know[s] # None
    /\ replica' = [replica EXCEPT ![s] = Empty]
    /\ know' = [know EXCEPT ![s] = None]
    /\ tomb' = [tomb EXCEPT ![s] = {}]
    /\ UNCHANGED store

\* A session writes an entry of its replica.
Put(s, svc, val, ts) ==
    /\ know[s] # None
    /\ replica' = [replica EXCEPT ![s][svc] = [val |-> val, ts |-> ts]]
    /\ UNCHANGED <<store, know, tomb>>

\* A session deletes an entry of its replica.
Remove(s, svc) ==
    /\ know[s] # None
    /\ replica[s][svc] # NoEntry
    /\ replica' = [replica EXCEPT ![s][svc] = NoEntry]
    /\ tomb' = [tomb EXCEPT ![s] = @ \cup {svc}]
    /\ UNCHANGED <<store, know>>

\* A session whose password is current joins the store into its replica.
Pull(s) ==
    /\ know[s] = store.key
    /\ replica' = [replica EXCEPT ![s] = Join(replica[s], tomb[s], store.entries)]
    /\ UNCHANGED <<store, know, tomb>>

\* A session whose password is current makes the join the store, under its
\* own password or a new one.
Push(s, pw) ==
    LET joined == Join(replica[s], tomb[s], store.entries) IN
    /\ know[s] = store.key
    /\ store' = [key |-> pw, entries |-> joined]
    /\ replica' = [replica EXCEPT ![s] = joined]
    /\ know' = [know EXCEPT ![s] = pw]
    /\ tomb' = [tomb EXCEPT ![s] = {}]

Next ==
    \E s \in Sessions :
        \/ Open(s) \/ Drop(s) \/ Pull(s)
        \/ \E svc \in Services :
            \/ Remove(s, svc)
            \/ \E val \in [Fields -> Values], ts \in Stamps : Put(s, svc, val, ts)
        \/ \E pw \in Passwords : Push(s, pw)

Spec == Init /\ [][Next]_vars

===============================================================================
