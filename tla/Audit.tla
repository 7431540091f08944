--------------------------------- MODULE Audit ---------------------------------
(***************************************************************************)
(* AuditEngine::run_audit (src/audit_engine.cpp): the entries of a vault   *)
(* are scored one after the other by EntropyWorker, and for an online      *)
(* audit each gets a thread that asks the breach service                   *)
(* (src/hibp_checker.cpp), with a semaphore limiting how many run at once. *)
(* Any exception leaves run_audit only when every thread has ended.        *)
(***************************************************************************)
EXTENDS EntropyWorker, Sequences, FiniteSets

CONSTANTS
    Vaults,       \* the vaults to audit: sequences of entries
    Breached,     \* the passwords the breach service knows
    Permits,      \* the initial value of the semaphore (8)
    MaxRetries,   \* how often a rate-limited request is repeated (3)
    Now,          \* the time of the audit
    Threshold,    \* stale_threshold_seconds
    Wrap          \* time stamps are unsigned and wrap here (2^64)

Entry == [pwd : STRING, len : Nat, weak : BOOLEAN, updated : Nat]

ASSUME VaultsAssumption == Vaults \subseteq Seq(Entry)
ASSUME LimitsAssumption ==
    /\ Permits \in Nat \ {0} /\ MaxRetries \in Nat
    /\ Now \in Nat /\ Threshold \in Nat /\ Wrap \in Nat \ {0}
\* time() is signed, so the clock and the stamps it gave are below 2^63; so is a
\* number of days in seconds that is not negative.
ASSUME ClockAssumption ==
    /\ Now < Wrap
    /\ \A v \in Vaults : \A j \in DOMAIN v : v[j].updated + Threshold < Now + Wrap

VARIABLES
    vault, online,  \* the arguments of run_audit
    at,        \* where run_audit is
    i,         \* the entry it is at
    permits,   \* permits left in network_sem
    thread,    \* the thread of each entry: "none", "running" or "done"
    tries,     \* its retry_count
    answer,    \* the value or exception in its future
    rows       \* report.entries

audit == <<vault, online, at, i, permits, thread, tries, answer, rows>>
vars == <<evalVars, audit>>
request == <<thread, tries, answer>>

Index == DOMAIN vault

Init ==
    /\ EvalInit
    /\ vault \in Vaults
    /\ online \in BOOLEAN
    /\ at = "entry"
    /\ i = 1
    /\ permits = Permits
    /\ thread = [j \in Index |-> "none"]
    /\ tries = [j \in Index |-> 0]
    /\ answer = [j \in Index |-> "none"]
    /\ rows = <<>>

-----------------------------------------------------------------------------
(* The loop over the entries. *)

Password(e) == [len |-> e.len, weak |-> e.weak]

EvaluateEntry ==
    /\ at = "entry"
    /\ i \in Index
    /\ Evaluate(Password(vault[i]))
    /\ at' = "scoring"
    /\ UNCHANGED <<vault, online, i, permits, request, rows>>

\* Unsigned subtraction: an entry stamped after now is older than anything.
Age(e) == (Now + Wrap - e.updated) % Wrap
IsStale(e) == e.updated > 0 /\ Age(e) > Threshold

\* A row of the report.  is_reused is not initialised: any value can be there.
Row(weak, stale, hibp, garbage) ==
    [weak |-> weak, stale |-> stale, hibp |-> hibp, reused |-> garbage, with |-> {}]

\* evaluate() returned: staleness, and offline the row is complete.
Scored ==
    /\ at = "scoring"
    /\ pc = "idle"
    /\ outcome \in {"weak", "strong"}
    /\ \E garbage \in BOOLEAN :
        rows' = Append(rows, Row(outcome = "weak", IsStale(vault[i]),
                                 IF online THEN "none" ELSE "disabled", garbage))
    /\ IF online THEN at' = "acquire" /\ i' = i ELSE at' = "entry" /\ i' = i + 1
    /\ outcome' = "none"
    /\ UNCHANGED <<pc, input, fds, sent, got, revents, signals, expired, worker,
                   vault, online, permits, request>>

\* evaluate() threw: the exception leaves the loop.
ScoreThrows ==
    /\ at = "scoring"
    /\ pc = "idle"
    /\ outcome = "throw"
    /\ at' = "unwind"
    /\ outcome' = "none"
    /\ UNCHANGED <<pc, input, fds, sent, got, revents, signals, expired, worker,
                   vault, online, i, permits, request, rows>>

\* network_sem->acquire() waits for a permit.
Acquire ==
    /\ at = "acquire"
    /\ permits > 0
    /\ permits' = permits - 1
    /\ at' = "spawn"
    /\ UNCHANGED <<evalVars, vault, online, i, request, rows>>

Spawn ==
    /\ at = "spawn"
    /\ thread' = [thread EXCEPT ![i] = "running"]
    /\ at' = "entry"
    /\ i' = i + 1
    /\ UNCHANGED <<evalVars, vault, online, permits, tries, answer, rows>>

\* Mutant of SpawnThrows: the permit is not given back.
SpawnThrowsKeepsPermit ==
    /\ at = "spawn"
    /\ at' = "unwind"
    /\ UNCHANGED <<evalVars, vault, online, i, permits, request, rows>>

\* std::async cannot start a thread: the permit is given back.
SpawnThrows ==
    /\ at = "spawn"
    /\ permits' = permits + 1
    /\ at' = "unwind"
    /\ UNCHANGED <<evalVars, vault, online, i, request, rows>>

-----------------------------------------------------------------------------
(* A thread: check_password and the release of its permit. *)

\* A thread ends with its result: ~PermitGuard gives the permit back.
ThreadEnds(j, a) ==
    /\ thread' = [thread EXCEPT ![j] = "done"]
    /\ answer' = [answer EXCEPT ![j] = a]
    /\ permits' = permits + 1
    /\ UNCHANGED <<evalVars, vault, online, at, i, tries, rows>>

\* The service lists the breached passwords with this prefix (status 200).
Answered(j) ==
    /\ thread[j] = "running"
    /\ ThreadEnds(j, IF vault[j].pwd \in Breached THEN "pwned" ELSE "clean")

\* Mutant of RateLimited: the retries have no limit.
RateLimitedForever(j) ==
    /\ thread[j] = "running"
    /\ tries' = [tries EXCEPT ![j] = @ + 1]
    /\ UNCHANGED <<evalVars, vault, online, at, i, permits, thread, answer, rows>>

\* Status 429: wait and repeat, or give up after the last retry.
RateLimited(j) ==
    /\ thread[j] = "running"
    /\ IF tries[j] < MaxRetries
       THEN /\ tries' = [tries EXCEPT ![j] = @ + 1]
            /\ UNCHANGED <<evalVars, vault, online, at, i, permits, thread, answer, rows>>
       ELSE ThreadEnds(j, "error")

\* Mutant of RequestFails: the exception passes the guard of the permit.
RequestFailsKeepsPermit(j) ==
    /\ thread[j] = "running"
    /\ thread' = [thread EXCEPT ![j] = "done"]
    /\ answer' = [answer EXCEPT ![j] = "error"]
    /\ UNCHANGED <<evalVars, vault, online, at, i, permits, tries, rows>>

\* No handle, no connection, the timeout of a request, another status, or an
\* exception, which the future keeps.
RequestFails(j) ==
    /\ thread[j] = "running"
    /\ ThreadEnds(j, "error")

ThreadStep(j) == Answered(j) \/ RateLimited(j) \/ RequestFails(j)

-----------------------------------------------------------------------------
(* After the loop, or out of it. *)

\* The other entries with the same SHA-256.
SharedWith(j) == {k \in Index \ {j} : vault[k].pwd = vault[j].pwd}

\* Finalize Reuses: set the flag and the names of every group of two or more.
FinalizeReuses ==
    /\ at = "entry"
    /\ i \notin Index
    /\ rows' = [j \in Index |->
                 IF SharedWith(j) = {} THEN rows[j]
                 ELSE [rows[j] EXCEPT !.reused = TRUE, !.with = SharedWith(j)]]
    /\ at' = IF online THEN "collect" ELSE "done"
    /\ i' = 1
    /\ UNCHANGED <<evalVars, vault, online, permits, request>>

\* Mutant of Collect: results are taken as the threads end.
CollectAny ==
    /\ at = "collect"
    /\ i \in Index
    /\ \E j \in Index :
        /\ thread[j] = "done"
        /\ rows' = [rows EXCEPT ![i].hibp = answer[j]]
    /\ i' = i + 1
    /\ UNCHANGED <<evalVars, vault, online, at, permits, request>>

\* hibp_futures[i].get() waits for its thread.
Collect ==
    /\ at = "collect"
    /\ i \in Index
    /\ thread[i] = "done"
    /\ rows' = [rows EXCEPT ![i].hibp = answer[i]]
    /\ i' = i + 1
    /\ UNCHANGED <<evalVars, vault, online, at, permits, request>>

Return ==
    /\ at = "collect"
    /\ i \notin Index
    /\ at' = "done"
    /\ UNCHANGED <<evalVars, vault, online, i, permits, request, rows>>

\* Mutant of Leave: the threads are not waited for.
LeaveThreads ==
    /\ at = "unwind"
    /\ at' = "failed"
    /\ UNCHANGED <<evalVars, vault, online, i, permits, request, rows>>

\* The destructors of the futures wait for their threads; then run_audit throws.
Leave ==
    /\ at = "unwind"
    /\ \A j \in Index : thread[j] # "running"
    /\ at' = "failed"
    /\ UNCHANGED <<evalVars, vault, online, i, permits, request, rows>>

MainStep ==
    \/ EvaluateEntry \/ Scored \/ ScoreThrows
    \/ Acquire \/ Spawn \/ SpawnThrows
    \/ FinalizeReuses \/ Collect \/ Return \/ Leave

EvaluatorStep == (EvalStep \/ PollFails) /\ UNCHANGED audit
DeadlinePasses == Expire /\ UNCHANGED audit
WorkerMoves == WorkerStep /\ UNCHANGED audit

Ended == at \in {"done", "failed"}

Next ==
    \/ MainStep
    \/ EvaluatorStep
    \/ DeadlinePasses
    \/ WorkerMoves
    \/ \E j \in Index : ThreadStep(j)

\* The process runs, time passes, and every request ends by its own timeout.
\* Nothing is assumed of the worker.
Fairness ==
    /\ WF_vars(MainStep)
    /\ WF_vars(EvalStep /\ UNCHANGED audit)
    /\ WF_vars(DeadlinePasses)
    /\ \A j \in UNION {DOMAIN v : v \in Vaults} : WF_vars(j \in Index /\ ThreadStep(j))

Spec == Init /\ [][Next]_vars /\ Fairness

-----------------------------------------------------------------------------
(* Properties. *)

TypeOK ==
    /\ EvalTypeOK
    /\ vault \in Vaults
    /\ online \in BOOLEAN
    /\ at \in {"entry", "scoring", "acquire", "spawn", "collect", "unwind", "done", "failed"}
    /\ i \in Nat \ {0}
    /\ permits \in Nat
    /\ thread \in [Index -> {"none", "running", "done"}]
    /\ tries \in [Index -> 0..MaxRetries]
    /\ answer \in [Index -> {"none", "pwned", "clean", "error"}]
    /\ rows \in Seq([weak : BOOLEAN, stale : BOOLEAN, reused : BOOLEAN, with : SUBSET Index,
                     hibp : {"none", "disabled", "pwned", "clean", "error"}])

Running == {j \in Index : thread[j] = "running"}

\* "Only 8 threads can acquire the semaphore at the same time": no failure of
\* a thread, of std::async or of the worker loses or duplicates a permit, so
\* never more than Permits requests are under way and none waits for ever.
PermitsBalanced ==
    permits + Cardinality(Running) + (IF at = "spawn" THEN 1 ELSE 0) = Permits

\* However an evaluation ends, no worker process, pipe, blocked or pending signal
\* of it is left, and however run_audit is left, none of its threads is running.
NothingLeftBehind == EvaluateCleansUp /\ (Ended => Running = {})

\* A score that evaluate() returns for a password is a score of all of it: the
\* worker has read every unit, however the writes and reads were split.
ScoreOfWhole ==
    at = "scoring" /\ pc = "idle" /\ outcome \in {"weak", "strong"} /\ vault[i].len > 0
        => took = vault[i].len + 1

\* A report says of every entry what is true of its password: weak if it is
\* empty or the worker said so; stale if older than the threshold
\* (or stamped in the future, as the ages are unsigned); which entries share it;
\* and what the service answered for this entry, or that it did not.
ReportIsTrue ==
    at = "done" =>
        /\ DOMAIN rows = Index
        /\ \A j \in Index :
            LET e == vault[j] IN
            /\ rows[j].weak = (e.len = 0 \/ e.weak)
            /\ rows[j].stale = (e.updated > 0 /\ (e.updated > Now \/ e.updated + Threshold < Now))
            /\ rows[j].with = {k \in Index : k # j /\ vault[k].pwd = e.pwd}
            /\ rows[j].with # {} => rows[j].reused
            /\ rows[j].hibp = "pwned" => e.pwd \in Breached
            /\ rows[j].hibp = "clean" => e.pwd \notin Breached
            /\ rows[j].hibp \in IF online THEN {"pwned", "clean", "error"} ELSE {"disabled"}

\* "password reuse detection": the REUSED mark is on entries that share
\* their password, and on no other.
ReusedMarkIsTrue ==
    at = "done" => \A j \in Index : rows[j].reused = (rows[j].with # {})

\* "An overall 5-second deadline strictly covers pipe writes, reads, and child
\* reaping": a worker that is slow, stuck or dead never keeps evaluate().
EvaluationEnds == pc # "idle" ~> pc = "idle"

\* An audit returns its report or throws, whatever the worker and the breach
\* service do; no thread waits for a permit that does not come back.
AuditEnds == <>Ended

===============================================================================
