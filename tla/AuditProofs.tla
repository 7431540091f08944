------------------------------ MODULE AuditProofs ------------------------------
(***************************************************************************)
(* Proofs about Audit, for any vault, any number of permits and retries    *)
(* and any sizes of pipes and replies.                                     *)
(***************************************************************************)
EXTENDS Audit, FiniteSetTheorems, TLAPS

\* What an evaluation does by itself.
EvaluationStep == EvalStep \/ PollFails \/ Expire \/ WorkerStep

RowType ==
    [weak : BOOLEAN, stale : BOOLEAN, reused : BOOLEAN, with : SUBSET Index,
     hibp : {"none", "disabled", "pwned", "clean", "error"}]

\* How far run_audit is: the rows it has written, and the threads it has started
\* or waited for.
InLoop == {"entry", "scoring", "acquire", "spawn"}
LoopInv ==
    /\ i <= Len(vault) + 1
    /\ at \in {"scoring", "acquire", "spawn"} => i <= Len(vault)
    /\ at \in {"entry", "scoring"} => Len(rows) = i - 1
    /\ at \in {"acquire", "spawn"} => Len(rows) = i
    /\ at = "collect" => Len(rows) = Len(vault)

ThreadInv ==
    /\ at \in {"acquire", "spawn", "collect"} => online
    /\ ~online => \A j \in Index : thread[j] = "none"
    /\ at \in InLoop => \A j \in Index : j >= i => thread[j] = "none"
    /\ at = "collect" => \A j \in Index : j < i => thread[j] = "done"
    /\ Ended => \A j \in Index : thread[j] # "running"

-----------------------------------------------------------------------------
(* The evaluator. *)

LEMMA EvalStepTypes == EvalTypeOK /\ EvaluationStep => EvalTypeOK'
  <1> SUFFICES ASSUME EvalTypeOK, EvaluationStep PROVE EvalTypeOK'
    OBVIOUS
  <1> USE SizesAssumption DEF EvalTypeOK, Outcomes, Live, caller, worker, signals
  <1>1. CASE PollReturns
    BY <1>1 DEF PollReturns, PollBits
  <1>2. CASE PollTimesOut
    BY <1>2 DEF PollTimesOut, KillAndThrow, Unwind
  <1>3. CASE WriteRequest
    BY <1>3 DEF WriteRequest, InPipe
  <1>4. CASE WriteBroken
    BY <1>4 DEF WriteBroken
  <1>5. CASE WriteSkipped
    BY <1>5 DEF WriteSkipped
  <1>6. CASE ReadReply
    BY <1>6 DEF ReadReply, OutPipe
  <1>7. CASE ReadEnd
    BY <1>7 DEF ReadEnd
  <1>8. CASE ReadSkipped
    BY <1>8 DEF ReadSkipped
  <1>9. CASE Reap
    BY <1>9 DEF Reap, Unwind, Verdict, Decode
  <1>10. CASE ReapTimesOut
    BY <1>10 DEF ReapTimesOut, KillAndThrow, Unwind
  <1>11. CASE PollFails
    BY <1>11 DEF PollFails, KillAndThrow, Unwind
  <1>12. CASE Expire
    BY <1>12 DEF Expire
  <1>13. CASE WorkerStartFails
    BY <1>13 DEF WorkerStartFails, WorkerExits
  <1>14. CASE WorkerStarts
    BY <1>14 DEF WorkerStarts
  <1>15. CASE WorkerReadsLength
    BY <1>15 DEF WorkerReadsLength, InPipe, WorkerExits
  <1>16. CASE WorkerReads
    BY <1>16 DEF WorkerReads, InPipe
  <1>17. CASE WorkerSeesEnd
    BY <1>17 DEF WorkerSeesEnd, WorkerExits
  <1>18. CASE WorkerWrites
    BY <1>18 DEF WorkerWrites
  <1>19. CASE WorkerFinishes
    BY <1>19 DEF WorkerFinishes, WorkerExits
  <1>20. CASE WorkerCrashes
    BY <1>20 DEF WorkerCrashes, WorkerExits, Signalled
  <1> QED
    BY <1>1, <1>2, <1>3, <1>4, <1>5, <1>6, <1>7, <1>8, <1>9, <1>10, <1>11, <1>12,
       <1>13, <1>14, <1>15, <1>16, <1>17, <1>18, <1>19, <1>20 DEF EvaluationStep, EvalStep, WorkerStep

LEMMA EvalStepCleans == EvalTypeOK /\ EvaluateCleansUp /\ EvaluationStep => EvaluateCleansUp'
  <1> SUFFICES ASSUME EvalTypeOK, EvaluateCleansUp, EvaluationStep PROVE EvaluateCleansUp'
    OBVIOUS
  <1> USE DEF EvalTypeOK, EvaluateCleansUp, Live, caller, worker, signals
  <1>1. CASE PollReturns
    BY <1>1 DEF PollReturns, PollBits
  <1>2. CASE PollTimesOut
    BY <1>2 DEF PollTimesOut, KillAndThrow, Unwind
  <1>3. CASE WriteRequest
    BY <1>3 DEF WriteRequest, InPipe
  <1>4. CASE WriteBroken
    BY <1>4 DEF WriteBroken
  <1>5. CASE WriteSkipped
    BY <1>5 DEF WriteSkipped
  <1>6. CASE ReadReply
    BY <1>6 DEF ReadReply, OutPipe
  <1>7. CASE ReadEnd
    BY <1>7 DEF ReadEnd
  <1>8. CASE ReadSkipped
    BY <1>8 DEF ReadSkipped
  <1>9. CASE Reap
    BY <1>9 DEF Reap, Unwind, Verdict, Decode
  <1>10. CASE ReapTimesOut
    BY <1>10 DEF ReapTimesOut, KillAndThrow, Unwind
  <1>11. CASE PollFails
    BY <1>11 DEF PollFails, KillAndThrow, Unwind
  <1>12. CASE Expire
    BY <1>12 DEF Expire
  <1>13. CASE WorkerStartFails
    BY <1>13 DEF WorkerStartFails, WorkerExits
  <1>14. CASE WorkerStarts
    BY <1>14 DEF WorkerStarts
  <1>15. CASE WorkerReadsLength
    BY <1>15 DEF WorkerReadsLength, InPipe, WorkerExits
  <1>16. CASE WorkerReads
    BY <1>16 DEF WorkerReads, InPipe
  <1>17. CASE WorkerSeesEnd
    BY <1>17 DEF WorkerSeesEnd, WorkerExits
  <1>18. CASE WorkerWrites
    BY <1>18 DEF WorkerWrites
  <1>19. CASE WorkerFinishes
    BY <1>19 DEF WorkerFinishes, WorkerExits
  <1>20. CASE WorkerCrashes
    BY <1>20 DEF WorkerCrashes, WorkerExits, Signalled
  <1> QED
    BY <1>1, <1>2, <1>3, <1>4, <1>5, <1>6, <1>7, <1>8, <1>9, <1>10, <1>11, <1>12,
       <1>13, <1>14, <1>15, <1>16, <1>17, <1>18, <1>19, <1>20 DEF EvaluationStep, EvalStep, WorkerStep

\* A call of evaluate().
LEMMA EvaluateStarts ==
    ASSUME NEW p \in [len : Nat, weak : BOOLEAN], EvalTypeOK, EvaluateCleansUp, Evaluate(p)
    PROVE  EvalTypeOK' /\ EvaluateCleansUp'
  <1>1. CASE EvaluateEmpty(p)
    BY <1>1 DEF EvaluateEmpty, EvalTypeOK, EvaluateCleansUp, Outcomes, Live, worker, signals
  <1>2. CASE EvaluateCannotFork(p)
    BY <1>2 DEF EvaluateCannotFork, EvalTypeOK, EvaluateCleansUp, Outcomes, Live, worker, signals
  <1>3. CASE EvaluateForks(p)
    BY <1>3 DEF EvaluateForks, EvalTypeOK, EvaluateCleansUp, Outcomes, Live, worker, signals
  <1> QED
    BY <1>1, <1>2, <1>3 DEF Evaluate

-----------------------------------------------------------------------------
(* run_audit: the loop, its rows and its threads. *)

\* The conjuncts of TypeOK about the variables of run_audit itself.
AuditTypeOK ==
    /\ vault \in Vaults
    /\ online \in BOOLEAN
    /\ at \in InLoop \cup {"collect", "unwind", "done", "failed"}
    /\ i \in Nat \ {0}
    /\ permits \in Nat
    /\ thread \in [Index -> {"none", "running", "done"}]
    /\ tries \in [Index -> 0..MaxRetries]
    /\ answer \in [Index -> {"none", "pwned", "clean", "error"}]
    /\ rows \in Seq(RowType)

LEMMA TypeParts == TypeOK <=> EvalTypeOK /\ AuditTypeOK
  BY DEF TypeOK, AuditTypeOK, RowType, InLoop

LEMMA IndexIs ==
    ASSUME vault \in Vaults
    PROVE  /\ Len(vault) \in Nat
           /\ Index = 1..Len(vault)
           /\ \A j \in Index : vault[j] \in Entry
  BY VaultsAssumption DEF Index

\* What leaves the vault alone leaves the types that depend on it alone.
LEMMA SameIndex == ASSUME vault' = vault PROVE Index' = Index /\ RowType' = RowType
  BY DEF Index, RowType

LEMMA FunctionIsSeq ==
    ASSUME NEW S, NEW n \in Nat, NEW f \in [1..n -> S]
    PROVE  f \in Seq(S) /\ Len(f) = n
  OBVIOUS

LEMMA MarkReusedTypes ==
    ASSUME NEW r \in RowType, NEW w \in SUBSET Index
    PROVE  [r EXCEPT !.reused = TRUE, !.with = w] \in RowType
  <1>1. [r EXCEPT !.reused = TRUE] \in RowType
    BY DEF RowType
  <1>2. ASSUME NEW q \in RowType PROVE [q EXCEPT !.with = w] \in RowType
    BY DEF RowType
  <1>3. [r EXCEPT !.reused = TRUE, !.with = w] = [[r EXCEPT !.reused = TRUE] EXCEPT !.with = w]
    BY DEF RowType
  <1> QED
    BY <1>1, <1>2, <1>3

\* A thread that ends, with any answer.
LEMMA ThreadEndsTypes ==
    ASSUME AuditTypeOK, NEW j \in Index, NEW a \in {"pwned", "clean", "error"}, ThreadEnds(j, a)
    PROVE  AuditTypeOK'
  <1>1. Index' = Index /\ RowType' = RowType
    BY SameIndex DEF ThreadEnds
  <1> QED
    BY <1>1 DEF ThreadEnds, AuditTypeOK

LEMMA ThreadStepTypes ==
    ASSUME AuditTypeOK, NEW j \in Index, ThreadStep(j)
    PROVE  AuditTypeOK'
  <1>1. CASE Answered(j)
    <2>1. PICK a \in {"pwned", "clean", "error"} : ThreadEnds(j, a)
      BY <1>1 DEF Answered
    <2> QED
      BY <2>1, ThreadEndsTypes
  <1>2. CASE RateLimited(j) /\ tries[j] < MaxRetries
    <2>1. Index' = Index /\ RowType' = RowType
      BY <1>2, SameIndex DEF RateLimited
    <2>2. tries' \in [Index -> 0..MaxRetries]
      BY <1>2, LimitsAssumption DEF RateLimited, AuditTypeOK
    <2> QED
      BY <1>2, <2>1, <2>2 DEF RateLimited, AuditTypeOK
  <1>3. CASE RateLimited(j) /\ ~(tries[j] < MaxRetries)
    BY <1>3, ThreadEndsTypes DEF RateLimited
  <1>4. CASE RequestFails(j)
    BY <1>4, ThreadEndsTypes DEF RequestFails
  <1> QED
    BY <1>1, <1>2, <1>3, <1>4 DEF ThreadStep

LEMMA ThreadStepLoop ==
    ASSUME LoopInv, NEW j \in Index, ThreadStep(j)
    PROVE  LoopInv'
  <1>1. UNCHANGED <<vault, at, i, rows>>
    BY DEF ThreadStep, Answered, RateLimited, RequestFails, ThreadEnds
  <1> QED
    BY <1>1 DEF LoopInv

LEMMA MainStepTypes ==
    ASSUME AuditTypeOK, LoopInv, MainStep
    PROVE  AuditTypeOK' /\ LoopInv'
  <1>0. vault' = vault
    BY DEF MainStep, EvaluateEntry, Scored, ScoreThrows, Acquire, Spawn, SpawnThrows,
           FinalizeReuses, Collect, Return, Leave
  <1>1. Index' = Index /\ RowType' = RowType
    BY <1>0, SameIndex
  <1>2. Len(vault) \in Nat /\ Index = 1..Len(vault) /\ \A j \in Index : vault[j] \in Entry
    BY IndexIs DEF AuditTypeOK
  <1> USE <1>0, <1>1, <1>2 DEF AuditTypeOK, LoopInv, InLoop
  <1>3. CASE EvaluateEntry
    BY <1>3 DEF EvaluateEntry, request
  <1>4. CASE Scored
    <2>1. PICK garbage \in BOOLEAN :
            rows' = Append(rows, Row(outcome = "weak", IsStale(vault[i]),
                                     IF online THEN "none" ELSE "disabled", garbage))
      BY <1>4 DEF Scored
    <2>2. (outcome = "weak") \in BOOLEAN /\ IsStale(vault[i]) \in BOOLEAN
      BY DEF IsStale
    <2>3. Row(outcome = "weak", IsStale(vault[i]),
              IF online THEN "none" ELSE "disabled", garbage) \in RowType
      BY <2>2 DEF Row, RowType
    <2>4. rows' \in Seq(RowType) /\ Len(rows') = Len(rows) + 1
      BY <2>1, <2>3
    <2> QED
      BY <1>4, <2>4 DEF Scored, request
  <1>5. CASE ScoreThrows
    BY <1>5 DEF ScoreThrows, request
  <1>6. CASE Acquire
    BY <1>6 DEF Acquire, request
  <1>7. CASE Spawn
    BY <1>7 DEF Spawn
  <1>8. CASE SpawnThrows
    BY <1>8 DEF SpawnThrows, request
  <1>9. CASE FinalizeReuses
    <2>0. at = "entry" /\ i \notin 1..Len(vault)
      BY <1>9, <1>2 DEF FinalizeReuses
    <2>1. Len(rows) = Len(vault)
      <3>1. i = Len(vault) + 1
        BY <2>0
      <3> QED
        BY <2>0, <3>1
    <2>2. \A j \in Index : rows[j] \in RowType /\ SharedWith(j) \in SUBSET Index
      BY <2>1 DEF SharedWith
    <2>3. \A j \in Index :
            [rows[j] EXCEPT !.reused = TRUE, !.with = SharedWith(j)] \in RowType
      BY <2>2, MarkReusedTypes
    <2>4. rows' \in [1..Len(vault) -> RowType]
      BY <1>9, <2>2, <2>3 DEF FinalizeReuses
    <2>5. rows' \in Seq(RowType) /\ Len(rows') = Len(vault)
      BY <2>4, FunctionIsSeq
    <2>6. at' \in {"collect", "done"} /\ i' = 1 /\ UNCHANGED <<online, permits, thread, tries, answer>>
      BY <1>9 DEF FinalizeReuses, request
    <2> QED
      BY <2>5, <2>6
  <1>10. CASE Collect
    <2>1. i \in DOMAIN rows /\ rows[i] \in RowType /\ Len(rows) = Len(vault)
      BY <1>10 DEF Collect
    <2>2. [rows[i] EXCEPT !.hibp = answer[i]] \in RowType
      BY <1>10, <2>1 DEF Collect, RowType
    <2>3. rows' = [rows EXCEPT ![i] = [rows[i] EXCEPT !.hibp = answer[i]]]
      BY <1>10, <2>1 DEF Collect
    <2>4. rows' \in Seq(RowType) /\ Len(rows') = Len(rows)
      BY <2>1, <2>2, <2>3
    <2> QED
      BY <1>10, <2>1, <2>4 DEF Collect, request
  <1>11. CASE Return
    BY <1>11 DEF Return, request
  <1>12. CASE Leave
    BY <1>12 DEF Leave, request
  <1> QED
    BY <1>3, <1>4, <1>5, <1>6, <1>7, <1>8, <1>9, <1>10, <1>11, <1>12 DEF MainStep

\* Every step, seen from the evaluation: it is one of its own, a call of
\* evaluate(), the taking of its result, or none.
LEMMA EvalPart ==
    ASSUME TypeOK, EvaluateCleansUp, [Next]_vars
    PROVE  EvalTypeOK' /\ EvaluateCleansUp'
  <1>0. EvalTypeOK /\ AuditTypeOK
    BY TypeParts
  <1>1. CASE EvaluateEntry
    <2>1. Password(vault[i]) \in [len : Nat, weak : BOOLEAN]
      BY <1>0, <1>1, IndexIs DEF EvaluateEntry, AuditTypeOK, Entry, Password
    <2> QED
      BY <1>0, <1>1, <2>1, EvaluateStarts DEF EvaluateEntry
  <1>2. CASE Scored \/ ScoreThrows
    <2>1. /\ outcome' = "none"
          /\ UNCHANGED <<pc, input, fds, sent, got, revents, blocked, pending, expired,
                         child, status, took, put>>
      BY <1>2 DEF Scored, ScoreThrows, signals, worker
    <2> QED
      BY <1>0, <2>1 DEF EvalTypeOK, EvaluateCleansUp, Live
  <1>3. CASE EvaluationStep
    BY <1>0, <1>3, EvalStepTypes, EvalStepCleans
  <1>4. CASE UNCHANGED evalVars
    <2>1. UNCHANGED <<pc, input, outcome, fds, sent, got, revents, blocked, pending, expired,
                      child, status, took, put>>
      BY <1>4 DEF evalVars, caller, signals, worker
    <2> QED
      BY <1>0, <2>1 DEF EvalTypeOK, EvaluateCleansUp, Live, Outcomes
  <1>5. CASE \E j \in Index : ThreadStep(j)
    <2>1. UNCHANGED evalVars
      BY <1>5 DEF ThreadStep, Answered, RateLimited, RequestFails, ThreadEnds
    <2> QED
      BY <1>4, <2>1
  <1>6. CASE Acquire \/ Spawn \/ SpawnThrows \/ FinalizeReuses \/ Collect \/ Return \/ Leave
    <2>1. UNCHANGED evalVars
      BY <1>6 DEF Acquire, Spawn, SpawnThrows, FinalizeReuses, Collect, Return, Leave
    <2> QED
      BY <1>4, <2>1
  <1> QED
    BY <1>1, <1>2, <1>3, <1>4, <1>5, <1>6
    DEF Next, MainStep, EvaluatorStep, DeadlinePasses, WorkerMoves, EvaluationStep, vars

\* Every step, seen from run_audit.
LEMMA AuditPart ==
    ASSUME AuditTypeOK, LoopInv, [Next]_vars
    PROVE  AuditTypeOK' /\ LoopInv'
  <1>1. CASE MainStep
    BY <1>1, MainStepTypes
  <1>2. CASE \E j \in Index : ThreadStep(j)
    BY <1>2, ThreadStepTypes, ThreadStepLoop
  <1>3. CASE UNCHANGED audit
    <2>1. UNCHANGED <<vault, online, at, i, permits, thread, tries, answer, rows>>
      BY <1>3 DEF audit
    <2>2. Index' = Index /\ RowType' = RowType
      BY <2>1, SameIndex
    <2> QED
      BY <2>1, <2>2 DEF AuditTypeOK, LoopInv
  <1> QED
    BY <1>1, <1>2, <1>3 DEF Next, EvaluatorStep, DeadlinePasses, WorkerMoves, vars

LEMMA InitInvariants ==
    Init => TypeOK /\ EvaluateCleansUp /\ LoopInv /\ ThreadInv
  <1> SUFFICES ASSUME Init PROVE TypeOK /\ EvaluateCleansUp /\ LoopInv /\ ThreadInv
    OBVIOUS
  <1>1. EvalTypeOK /\ EvaluateCleansUp
    BY DEF Init, EvalInit, EvalTypeOK, EvaluateCleansUp, Live, Outcomes
  <1>2. Len(vault) \in Nat /\ Index = 1..Len(vault)
    BY IndexIs DEF Init
  <1>3. tries \in [Index -> 0..MaxRetries]
    BY LimitsAssumption DEF Init
  <1>4. AuditTypeOK
    BY <1>3, LimitsAssumption DEF Init, AuditTypeOK, InLoop
  <1>5. LoopInv
    BY <1>2 DEF Init, LoopInv
  <1>6. ThreadInv
    BY DEF Init, ThreadInv, Ended
  <1> QED
    BY <1>1, <1>4, <1>5, <1>6, TypeParts

LEMMA StepInvariants ==
    TypeOK /\ EvaluateCleansUp /\ LoopInv /\ [Next]_vars
        => (TypeOK /\ EvaluateCleansUp /\ LoopInv)'
  <1> SUFFICES ASSUME TypeOK, EvaluateCleansUp, LoopInv, [Next]_vars
               PROVE  (TypeOK /\ EvaluateCleansUp /\ LoopInv)'
    OBVIOUS
  <1>1. AuditTypeOK
    BY TypeParts
  <1>2. EvalTypeOK' /\ EvaluateCleansUp'
    BY EvalPart
  <1>3. AuditTypeOK' /\ LoopInv'
    BY <1>1, AuditPart
  <1>4. (EvalTypeOK /\ AuditTypeOK)' => TypeOK'
    BY DEF TypeOK, AuditTypeOK, RowType, InLoop
  <1> QED
    BY <1>2, <1>3, <1>4

\* The variables of an audit keep their types: a row exists before the service's
\* answer is written into it, every index into the futures and the rows is one
\* of the vault's, and no thread retries more often than MaxRetries.
THEOREM TypeCorrect == Spec => []TypeOK
  BY InitInvariants, StepInvariants, PTL DEF Spec

\* Whatever the worker does and however evaluate() is left, between two
\* evaluations there is no process, no open pipe and no blocked or pending
\* SIGPIPE.
THEOREM CleansUp == Spec => []EvaluateCleansUp
  BY InitInvariants, StepInvariants, PTL DEF Spec

-----------------------------------------------------------------------------
(* The threads and the permits. *)

LEMMA ThreadInvStep ==
    ASSUME TypeOK, LoopInv, ThreadInv, [Next]_vars
    PROVE  ThreadInv'
  <1>0. AuditTypeOK
    BY TypeParts
  <1>1. Len(vault) \in Nat /\ Index = 1..Len(vault)
    BY <1>0, IndexIs DEF AuditTypeOK
  <1>2. i \in Nat \ {0} /\ online \in BOOLEAN
        /\ thread \in [Index -> {"none", "running", "done"}]
    BY <1>0 DEF AuditTypeOK
  <1>3. CASE \E j \in Index : ThreadStep(j)
    <2>1. PICK j \in Index : ThreadStep(j)
      BY <1>3
    <2>2. /\ UNCHANGED <<vault, online, at, i>>
          /\ thread[j] = "running"
          /\ thread' = thread \/ thread' = [thread EXCEPT ![j] = "done"]
      BY <2>1 DEF ThreadStep, Answered, RateLimited, RequestFails, ThreadEnds
    <2> QED
      BY <1>2, <2>2 DEF ThreadInv, Ended, InLoop, Index
  <1>4. CASE UNCHANGED audit
    BY <1>4 DEF audit, ThreadInv, Ended, InLoop, Index
  <1>5. CASE EvaluateEntry \/ ScoreThrows
    BY <1>5 DEF EvaluateEntry, ScoreThrows, ThreadInv, Ended, InLoop, Index, request
  <1>6. CASE Scored
    BY <1>1, <1>2, <1>6 DEF Scored, ThreadInv, Ended, InLoop, Index, request
  <1>7. CASE Acquire \/ SpawnThrows
    BY <1>7 DEF Acquire, SpawnThrows, ThreadInv, Ended, InLoop, Index, request
  <1>8. CASE Spawn
    BY <1>1, <1>2, <1>8 DEF Spawn, ThreadInv, Ended, InLoop, Index
  <1>9. CASE FinalizeReuses
    <2>1. /\ UNCHANGED <<vault, online, thread>>
          /\ i' = 1
          /\ at' = IF online THEN "collect" ELSE "done"
      BY <1>9 DEF FinalizeReuses, request
    <2>2. Index' = Index /\ \A j \in Index : ~(j < 1)
      BY <1>1, <2>1, SameIndex
    <2>3. CASE online
      BY <2>1, <2>2, <2>3 DEF ThreadInv, Ended, InLoop
    <2>4. CASE ~online
      BY <2>1, <2>2, <2>4 DEF ThreadInv, Ended, InLoop
    <2> QED
      BY <2>3, <2>4
  <1>10. CASE Collect
    BY <1>1, <1>2, <1>10 DEF Collect, ThreadInv, Ended, InLoop, Index, request
  <1>11. CASE Return
    <2>1. \A j \in Index : j < i
      BY <1>0, <1>1, <1>2, <1>11 DEF Return, LoopInv
    <2> QED
      BY <1>2, <1>11, <2>1 DEF Return, ThreadInv, Ended, InLoop, Index, request
  <1>12. CASE Leave
    BY <1>12 DEF Leave, ThreadInv, Ended, InLoop, Index, request
  <1> QED
    BY <1>3, <1>4, <1>5, <1>6, <1>7, <1>8, <1>9, <1>10, <1>11, <1>12
    DEF Next, MainStep, EvaluatorStep, DeadlinePasses, WorkerMoves, vars

\* However run_audit is left, with its report or with an exception, none of its
\* threads is running and nothing of an evaluation remains.
THEOREM LeavesNothing == Spec => []NothingLeftBehind
  <1>1. EvaluateCleansUp /\ ThreadInv => NothingLeftBehind
    BY DEF ThreadInv, NothingLeftBehind, Running
  <1>2. TypeOK /\ EvaluateCleansUp /\ LoopInv /\ ThreadInv /\ [Next]_vars
          => (TypeOK /\ EvaluateCleansUp /\ LoopInv /\ ThreadInv)'
    BY StepInvariants, ThreadInvStep
  <1> QED
    BY <1>1, <1>2, InitInvariants, PTL DEF Spec

LEMMA RunningIsFinite ==
    ASSUME AuditTypeOK
    PROVE  IsFiniteSet(Running) /\ Cardinality(Running) \in Nat
  <1>1. IsFiniteSet(1..Len(vault))
    BY IndexIs, FS_Interval DEF AuditTypeOK
  <1>2. Running \subseteq 1..Len(vault)
    BY IndexIs DEF AuditTypeOK, Running
  <1>3. IsFiniteSet(Running)
    BY <1>1, <1>2, FS_Subset
  <1> QED
    BY <1>3, FS_CardinalityType

\* A thread that starts adds one to the running ones.
LEMMA OneMoreRuns ==
    ASSUME AuditTypeOK, NEW j \in Index, thread[j] # "running", vault' = vault,
           thread' = [thread EXCEPT ![j] = "running"]
    PROVE  Cardinality(Running') = Cardinality(Running) + 1
  <1>1. Running' = Running \cup {j} /\ j \notin Running
    BY DEF AuditTypeOK, Running, Index
  <1> QED
    BY <1>1, RunningIsFinite, FS_AddElement

\* A thread that ends takes one from them.
LEMMA OneLessRuns ==
    ASSUME AuditTypeOK, NEW j \in Index, thread[j] = "running", vault' = vault,
           thread' = [thread EXCEPT ![j] = "done"]
    PROVE  Cardinality(Running') = Cardinality(Running) - 1
  <1>1. Running' = Running \ {j} /\ j \in Running
    BY DEF AuditTypeOK, Running, Index
  <1> QED
    BY <1>1, RunningIsFinite, FS_RemoveElement

LEMMA SameRun ==
    ASSUME vault' = vault, thread' = thread
    PROVE  Running' = Running
  BY DEF Running, Index

LEMMA PermitsStep ==
    ASSUME TypeOK, LoopInv, ThreadInv, PermitsBalanced, [Next]_vars
    PROVE  PermitsBalanced'
  <1>0. AuditTypeOK
    BY TypeParts
  <1>1. permits \in Nat /\ Cardinality(Running) \in Nat /\ Permits \in Nat
    BY <1>0, RunningIsFinite, LimitsAssumption DEF AuditTypeOK
  <1>2. CASE \E j \in Index : ThreadStep(j)
    <2>1. PICK j \in Index : ThreadStep(j)
      BY <1>2
    <2>2. vault' = vault /\ at' = at /\ thread[j] = "running"
      BY <2>1 DEF ThreadStep, Answered, RateLimited, RequestFails, ThreadEnds
    <2>3. CASE UNCHANGED <<permits, thread>>
      BY <2>2, <2>3, SameRun DEF PermitsBalanced
    <2>4. CASE thread' = [thread EXCEPT ![j] = "done"] /\ permits' = permits + 1
      <3>1. Cardinality(Running') = Cardinality(Running) - 1
        BY <1>0, <2>2, <2>4, OneLessRuns
      <3> QED
        BY <1>1, <2>2, <2>4, <3>1 DEF PermitsBalanced
    <2> QED
      BY <2>1, <2>3, <2>4 DEF ThreadStep, Answered, RateLimited, RequestFails, ThreadEnds
  <1>3. CASE UNCHANGED audit
    BY <1>3, SameRun DEF audit, PermitsBalanced
  <1>4. CASE EvaluateEntry \/ Scored \/ ScoreThrows \/ FinalizeReuses \/ Collect \/ Return \/ Leave
    <2>1. /\ UNCHANGED <<vault, thread, permits>>
          /\ at # "spawn" /\ at' # "spawn"
      BY <1>4 DEF EvaluateEntry, Scored, ScoreThrows, FinalizeReuses, Collect, Return, Leave, request
    <2> QED
      BY <2>1, SameRun DEF PermitsBalanced
  <1>5. CASE Acquire
    <2>1. /\ UNCHANGED <<vault, thread>>
          /\ at # "spawn" /\ at' = "spawn" /\ permits' = permits - 1
      BY <1>5 DEF Acquire, request
    <2> QED
      BY <1>1, <2>1, SameRun DEF PermitsBalanced
  <1>6. CASE SpawnThrows
    <2>1. /\ UNCHANGED <<vault, thread>>
          /\ at = "spawn" /\ at' # "spawn" /\ permits' = permits + 1
      BY <1>6 DEF SpawnThrows, request
    <2> QED
      BY <1>1, <2>1, SameRun DEF PermitsBalanced
  <1>7. CASE Spawn
    <2>0. i \in Nat \ {0} /\ i <= Len(vault) /\ Len(vault) \in Nat /\ Index = 1..Len(vault)
      BY <1>0, <1>7, IndexIs DEF Spawn, LoopInv, AuditTypeOK
    <2>1. i \in Index /\ thread[i] # "running"
      BY <1>7, <2>0 DEF Spawn, ThreadInv, InLoop
    <2>2. Cardinality(Running') = Cardinality(Running) + 1
      BY <1>0, <1>7, <2>1, OneMoreRuns DEF Spawn
    <2>3. at = "spawn" /\ at' # "spawn" /\ permits' = permits
      BY <1>7 DEF Spawn
    <2> QED
      BY <1>1, <2>2, <2>3 DEF PermitsBalanced
  <1> QED
    BY <1>2, <1>3, <1>4, <1>5, <1>6, <1>7
    DEF Next, MainStep, EvaluatorStep, DeadlinePasses, WorkerMoves, vars

LEMMA PermitsInit == Init => PermitsBalanced
  <1> SUFFICES ASSUME Init PROVE PermitsBalanced
    OBVIOUS
  <1>1. Running = {}
    BY DEF Init, Running
  <1>2. Cardinality(Running) = 0
    BY <1>1, FS_EmptySet
  <1> QED
    BY <1>2, LimitsAssumption DEF Init, PermitsBalanced

\* No permit is lost or made up, for any number of entries and permits: threads
\* that succeed, fail, give up or cannot be started all give theirs back, once.
THEOREM PermitsKept == Spec => []PermitsBalanced
  <1>1. TypeOK /\ EvaluateCleansUp /\ LoopInv /\ ThreadInv /\ PermitsBalanced /\ [Next]_vars
          => (TypeOK /\ EvaluateCleansUp /\ LoopInv /\ ThreadInv /\ PermitsBalanced)'
    BY StepInvariants, ThreadInvStep, PermitsStep
  <1> QED
    BY <1>1, InitInvariants, PermitsInit, PTL DEF Spec

-----------------------------------------------------------------------------
(* The report. *)

\* The two pipes: the worker answers only when it has read the whole request.
PipeInv ==
    /\ took <= sent /\ sent <= input.len + 1
    /\ got <= put /\ put <= Reply
    /\ child = "writing" \/ put > 0 => took = input.len + 1

\* What evaluate() is called with, and what it has returned when it is left.
ScoreInv ==
    /\ at # "scoring" => pc = "idle"
    /\ at = "scoring" /\ pc # "idle" => input = Password(vault[i]) /\ vault[i].len > 0
    /\ at = "scoring" /\ pc = "idle" /\ vault[i].len = 0 => outcome = "weak"
    /\ at = "scoring" /\ pc = "idle" /\ vault[i].len > 0 /\ outcome \in {"weak", "strong"}
           => /\ input = Password(vault[i])
              /\ got = Reply
              /\ (outcome = "weak") = vault[i].weak

\* An answer is the one the service has for the password of its entry.
AnswerInv ==
    \A j \in Index :
        /\ thread[j] = "done" => answer[j] # "none"
        /\ answer[j] = "pwned" => vault[j].pwd \in Breached
        /\ answer[j] = "clean" => vault[j].pwd \notin Breached

\* A row's score and age, in the loop and after it.
ScoreRow(j) ==
    /\ rows[j].weak = (vault[j].len = 0 \/ vault[j].weak)
    /\ rows[j].stale = IsStale(vault[j])

\* A row before the reuses are known.
LoopRow(j) ==
    /\ rows[j].with = {}
    /\ rows[j].hibp = IF online THEN "none" ELSE "disabled"

\* A row after that; the answers of the entries before i have been collected.
FinalRow(j) ==
    /\ rows[j].with = SharedWith(j)
    /\ rows[j].with # {} => rows[j].reused
    /\ ~online => rows[j].hibp = "disabled"
    /\ online /\ j < i => rows[j].hibp = answer[j] /\ answer[j] # "none"

RowInv ==
    /\ \A j \in 1..Len(rows) : ScoreRow(j)
    /\ at \in InLoop => \A j \in 1..Len(rows) : LoopRow(j)
    /\ at \in {"collect", "done"} => Len(rows) = Len(vault) /\ \A j \in 1..Len(rows) : FinalRow(j)
    /\ at = "done" /\ online => i > Len(vault)

LEMMA EvalStepPipes == EvalTypeOK /\ PipeInv /\ EvaluationStep => PipeInv'
  <1> SUFFICES ASSUME EvalTypeOK, PipeInv, EvaluationStep PROVE PipeInv'
    OBVIOUS
  <1>0. /\ sent \in Nat /\ got \in Nat /\ took \in Nat /\ put \in Nat
        /\ input.len \in Nat /\ Reply \in Nat \ {0}
    BY SizesAssumption DEF EvalTypeOK
  <1> USE <1>0 DEF PipeInv, caller, worker, signals
  <1>1. CASE PollReturns \/ WriteBroken \/ WriteSkipped \/ ReadEnd \/ ReadSkipped \/ Expire
    BY <1>1 DEF PollReturns, WriteBroken, WriteSkipped, ReadEnd, ReadSkipped, Expire
  <1>2. CASE PollTimesOut \/ PollFails \/ Reap \/ ReapTimesOut
    BY <1>2 DEF PollTimesOut, PollFails, Reap, ReapTimesOut, KillAndThrow, Unwind
  <1>3. CASE WriteRequest
    <2>1. PICK k \in 1..(input.len + 1 - sent) : sent' = sent + k
      BY <1>3 DEF WriteRequest
    <2>2. UNCHANGED <<input, got, took, put, child>>
      BY <1>3 DEF WriteRequest
    <2> QED
      BY <2>1, <2>2
  <1>4. CASE ReadReply
    <2>1. PICK k \in 1..(put - got) : got' = got + k
      BY <1>4 DEF ReadReply, OutPipe
    <2>2. UNCHANGED <<input, sent, took, put, child>>
      BY <1>4 DEF ReadReply
    <2> QED
      BY <2>1, <2>2
  <1>5. CASE WorkerStartFails \/ WorkerStarts \/ WorkerSeesEnd \/ WorkerFinishes \/ WorkerCrashes
    BY <1>5 DEF WorkerStartFails, WorkerStarts, WorkerSeesEnd, WorkerFinishes, WorkerCrashes, WorkerExits
  <1>6. CASE WorkerReadsLength
    <2>1. took = 0 /\ sent - took > 0 /\ took' = 1 /\ UNCHANGED <<input, sent, got, put>>
      BY <1>6 DEF WorkerReadsLength, InPipe
    <2>2. child' # "writing"
      BY <1>6 DEF WorkerReadsLength, WorkerExits
    <2> QED
      BY <2>1, <2>2
  <1>7. CASE WorkerReads
    <2>1. PICK k \in 1..(sent - took) :
            /\ took' = took + k
            /\ child' = IF took + k = input.len + 1 THEN "writing" ELSE "reading"
      BY <1>7 DEF WorkerReads, InPipe
    <2>2. UNCHANGED <<input, sent, got, put>>
      BY <1>7 DEF WorkerReads
    <2>3. put > 0 => FALSE
      BY <2>1
    <2> QED
      BY <2>1, <2>2, <2>3
  <1>8. CASE WorkerWrites
    <2>1. PICK k \in 1..(Reply - put) : put' = put + k
      BY <1>8 DEF WorkerWrites
    <2>2. child = "writing" /\ UNCHANGED <<input, sent, got, took, child>>
      BY <1>8 DEF WorkerWrites
    <2> QED
      BY <2>1, <2>2
  <1> QED
    BY <1>1, <1>2, <1>3, <1>4, <1>5, <1>6, <1>7, <1>8 DEF EvaluationStep, EvalStep, WorkerStep

\* An evaluation keeps its argument; it returns a score only with a whole reply.
LEMMA EvalStepScores ==
    ASSUME EvalTypeOK, EvaluateCleansUp, EvaluationStep
    PROVE  /\ pc # "idle" \/ UNCHANGED <<pc, outcome, got>>
           /\ input' = input
           /\ pc' = "idle" /\ outcome' \in {"weak", "strong"} /\ pc # "idle"
                => got' = Reply /\ (outcome' = "weak") = input.weak
  <1> USE DEF EvalTypeOK, EvaluateCleansUp, Live, caller, worker, signals
  <1>1. CASE PollReturns \/ WriteBroken \/ WriteSkipped \/ ReadEnd \/ ReadSkipped \/ Expire
    BY <1>1 DEF PollReturns, WriteBroken, WriteSkipped, ReadEnd, ReadSkipped, Expire
  <1>2. CASE PollTimesOut \/ PollFails \/ ReapTimesOut
    BY <1>2 DEF PollTimesOut, PollFails, ReapTimesOut, KillAndThrow, Unwind
  <1>3. CASE Reap
    <2>1. pc # "idle" /\ input' = input /\ got' = got /\ outcome' = Verdict
      BY <1>3 DEF Reap, Unwind
    <2>2. Verdict \in {"weak", "strong"} => got = Reply /\ Verdict = Decode
      BY DEF Verdict
    <2>3. got = Reply => (Decode = "weak") = input.weak
      BY DEF Decode
    <2> QED
      BY <2>1, <2>2, <2>3
  <1>4. CASE WriteRequest
    BY <1>4 DEF WriteRequest
  <1>5. CASE ReadReply
    BY <1>5 DEF ReadReply
  <1>6. CASE WorkerStep
    BY <1>6 DEF WorkerStep, WorkerStartFails, WorkerStarts, WorkerReadsLength, WorkerReads,
                WorkerSeesEnd, WorkerWrites, WorkerFinishes, WorkerCrashes
  <1> QED
    BY <1>1, <1>2, <1>3, <1>4, <1>5, <1>6 DEF EvaluationStep, EvalStep

\* A call of evaluate(): nothing, or a fresh pair of pipes.
LEMMA EvaluateScores ==
    ASSUME NEW p \in [len : Nat, weak : BOOLEAN], EvalTypeOK, PipeInv, Evaluate(p)
    PROVE  /\ PipeInv'
           /\ pc' # "idle" => input' = p /\ p.len > 0
           /\ pc' = "idle" /\ p.len = 0 => outcome' = "weak"
           /\ pc' = "idle" /\ p.len > 0 => outcome' = "throw"
  <1>1. CASE EvaluateEmpty(p)
    BY <1>1 DEF EvaluateEmpty, PipeInv, worker
  <1>2. CASE EvaluateCannotFork(p)
    BY <1>2 DEF EvaluateCannotFork, PipeInv, worker
  <1>3. CASE EvaluateForks(p)
    BY <1>3, SizesAssumption DEF EvaluateForks, PipeInv
  <1> QED
    BY <1>1, <1>2, <1>3 DEF Evaluate

LEMMA ScoreStep ==
    ASSUME TypeOK, EvaluateCleansUp, LoopInv, PipeInv, ScoreInv, [Next]_vars
    PROVE  PipeInv' /\ ScoreInv'
  <1>0. EvalTypeOK /\ AuditTypeOK
    BY TypeParts
  <1>1. CASE EvaluateEntry
    <2>1. Password(vault[i]) \in [len : Nat, weak : BOOLEAN]
      BY <1>0, <1>1, IndexIs DEF EvaluateEntry, AuditTypeOK, Entry, Password
    <2>2. vault[i] \in Entry
      BY <1>0, <1>1, IndexIs DEF EvaluateEntry, AuditTypeOK
    <2>3. Password(vault[i]).len = vault[i].len /\ vault[i].len \in Nat
      BY <2>2 DEF Password, Entry
    <2>4. UNCHANGED <<vault, i>> /\ at' = "scoring" /\ Evaluate(Password(vault[i]))
      BY <1>1 DEF EvaluateEntry
    <2>5. /\ PipeInv'
          /\ pc' # "idle" => input' = Password(vault[i]) /\ Password(vault[i]).len > 0
          /\ pc' = "idle" /\ Password(vault[i]).len = 0 => outcome' = "weak"
          /\ pc' = "idle" /\ Password(vault[i]).len > 0 => outcome' = "throw"
      BY <1>0, <2>1, <2>4, EvaluateScores
    <2> QED
      BY <2>3, <2>4, <2>5 DEF ScoreInv, Password
  <1>2. CASE Scored \/ ScoreThrows
    <2>1. /\ pc = "idle" /\ at' # "scoring"
          /\ UNCHANGED <<pc, input, sent, got, child, took, put>>
      BY <1>2 DEF Scored, ScoreThrows, worker
    <2> QED
      BY <2>1 DEF PipeInv, ScoreInv
  <1>3. CASE EvaluationStep /\ UNCHANGED audit
    <2>1. PipeInv'
      BY <1>0, <1>3, EvalStepPipes
    <2>2. UNCHANGED <<vault, i, at>>
      BY <1>3 DEF audit
    <2>3. /\ pc # "idle" \/ UNCHANGED <<pc, outcome, got>>
          /\ input' = input
          /\ pc' = "idle" /\ outcome' \in {"weak", "strong"} /\ pc # "idle"
               => got' = Reply /\ (outcome' = "weak") = input.weak
      BY <1>0, <1>3, EvalStepScores
    <2>4. CASE at # "scoring"
      BY <2>1, <2>2, <2>3, <2>4 DEF ScoreInv
    <2>5. CASE at = "scoring" /\ pc = "idle"
      BY <2>1, <2>2, <2>3, <2>5 DEF ScoreInv, Password
    <2>6. CASE at = "scoring" /\ pc # "idle"
      <3>1. input = Password(vault[i]) /\ vault[i].len > 0
        BY <2>6 DEF ScoreInv
      <3>2. input.weak = vault[i].weak /\ ~(vault[i].len = 0)
        <4>1. vault[i].len \in Nat
          <5>1. Index = 1..Len(vault) /\ Len(vault) \in Nat /\ \A j \in Index : vault[j] \in Entry
            BY <1>0, IndexIs DEF AuditTypeOK
          <5>2. i \in Nat \ {0} /\ i <= Len(vault)
            BY <1>0, <2>6 DEF AuditTypeOK, LoopInv
          <5> QED
            BY <5>1, <5>2 DEF Entry
        <4> QED
          BY <3>1, <4>1 DEF Password
      <3> QED
        BY <2>1, <2>2, <2>3, <2>6, <3>1, <3>2 DEF ScoreInv, Password
    <2> QED
      BY <2>4, <2>5, <2>6
  <1>4. CASE /\ UNCHANGED <<evalVars, vault>>
             /\ \/ at # "scoring" /\ at' # "scoring"
                \/ UNCHANGED <<at, i>>
    BY <1>4 DEF evalVars, caller, worker, PipeInv, ScoreInv, Password
  <1>5. CASE \E j \in Index : ThreadStep(j)
    <2>1. UNCHANGED <<evalVars, vault, at, i>>
      BY <1>5 DEF ThreadStep, Answered, RateLimited, RequestFails, ThreadEnds
    <2> QED
      BY <1>4, <2>1
  <1>6. CASE Acquire \/ Spawn \/ SpawnThrows \/ FinalizeReuses \/ Collect \/ Return \/ Leave
    <2>1. UNCHANGED <<evalVars, vault>>
      BY <1>6 DEF Acquire, Spawn, SpawnThrows, FinalizeReuses, Collect, Return, Leave
    <2>2. at # "scoring" /\ at' # "scoring"
      BY <1>6 DEF Acquire, Spawn, SpawnThrows, FinalizeReuses, Collect, Return, Leave
    <2> QED
      BY <1>4, <2>1, <2>2
  <1>7. CASE UNCHANGED vars
    BY <1>4, <1>7 DEF vars, audit
  <1> QED
    BY <1>1, <1>2, <1>3, <1>5, <1>6, <1>7
    DEF Next, MainStep, EvaluatorStep, DeadlinePasses, WorkerMoves, EvaluationStep

LEMMA AnswerStep ==
    ASSUME TypeOK, ThreadInv, LoopInv, AnswerInv, [Next]_vars
    PROVE  AnswerInv'
  <1>0. /\ thread \in [Index -> {"none", "running", "done"}]
        /\ answer \in [Index -> {"none", "pwned", "clean", "error"}]
    BY DEF TypeOK
  <1>1. CASE \E j \in Index : ThreadStep(j)
    <2>1. PICK j \in Index : ThreadStep(j)
      BY <1>1
    <2>2. vault' = vault
      BY <2>1 DEF ThreadStep, Answered, RateLimited, RequestFails, ThreadEnds
    <2>3. CASE UNCHANGED <<thread, answer>>
      BY <2>2, <2>3 DEF AnswerInv, Index
    <2>4. CASE \E a \in {"pwned", "clean", "error"} :
                 /\ a = "pwned" => vault[j].pwd \in Breached
                 /\ a = "clean" => vault[j].pwd \notin Breached
                 /\ ThreadEnds(j, a)
      <3>1. PICK a \in {"pwned", "clean", "error"} :
                 /\ a = "pwned" => vault[j].pwd \in Breached
                 /\ a = "clean" => vault[j].pwd \notin Breached
                 /\ ThreadEnds(j, a)
        BY <2>4
      <3> QED
        BY <1>0, <2>2, <3>1 DEF ThreadEnds, AnswerInv, Index
    <2> QED
      BY <2>1, <2>3, <2>4 DEF ThreadStep, Answered, RateLimited, RequestFails
  <1>2. CASE UNCHANGED <<vault, thread, answer>>
    BY <1>2 DEF AnswerInv, Index
  <1>3. CASE Spawn
    <2>1. UNCHANGED <<vault, answer>> /\ thread' = [thread EXCEPT ![i] = "running"]
      BY <1>3 DEF Spawn
    <2> QED
      BY <1>0, <2>1 DEF AnswerInv, Index
  <1>4. CASE EvaluateEntry \/ Scored \/ ScoreThrows \/ Acquire \/ SpawnThrows
             \/ FinalizeReuses \/ Collect \/ Return \/ Leave
    <2>1. UNCHANGED <<vault, thread, answer>>
      BY <1>4 DEF EvaluateEntry, Scored, ScoreThrows, Acquire, SpawnThrows,
                  FinalizeReuses, Collect, Return, Leave, request
    <2> QED
      BY <1>2, <2>1
  <1> QED
    BY <1>1, <1>2, <1>3, <1>4
    DEF Next, MainStep, EvaluatorStep, DeadlinePasses, WorkerMoves, vars, audit

LEMMA WrapOnce == ASSUME NEW n \in Nat, NEW w \in Nat, n < w PROVE (n + w) % w = n
  <1>1. (n + w) \div w = 1
    BY Z3
  <1> QED
    BY <1>1

\* With stamps and a threshold far below the wrap, the unsigned age is what the
\* report means by it.
LEMMA StaleIs ==
    ASSUME vault \in Vaults, NEW j \in Index
    PROVE  LET e == vault[j] IN
           IsStale(e) = (e.updated > 0 /\ (e.updated > Now \/ e.updated + Threshold < Now))
  <1> DEFINE u == vault[j].updated
  <1>1. u \in Nat
    BY IndexIs DEF Entry
  <1>2. Now < Wrap /\ u + Threshold < Now + Wrap
    BY ClockAssumption DEF Index
  <1>3. Now \in Nat /\ Threshold \in Nat /\ Wrap \in Nat \ {0}
    BY LimitsAssumption
  <1> HIDE DEF u
  <1>4. (Now + Wrap - u) % Wrap = IF u > Now THEN Now + Wrap - u ELSE Now - u
    <2>1. CASE u > Now
      BY <1>1, <1>2, <1>3, <2>1
    <2>2. CASE ~(u > Now)
      <3>1. Now - u \in 0..(Wrap - 1)
        BY <1>1, <1>2, <1>3, <2>2
      <3>2. ((Now - u) + Wrap) % Wrap = Now - u
        BY <1>1, <1>3, <2>2, <3>1, WrapOnce
      <3> QED
        BY <1>1, <1>3, <2>2, <3>1, <3>2
    <2> QED
      BY <2>1, <2>2
  <1>5. ((Now + Wrap - u) % Wrap > Threshold) = (u > Now \/ u + Threshold < Now)
    BY <1>1, <1>2, <1>3, <1>4
  <1> QED
    BY <1>5 DEF u, IsStale, Age

\* The parts of RowInv that do not depend on the program counter.
LEMMA SameRows ==
    ASSUME UNCHANGED <<vault, online, i, answer, rows>>
    PROVE  \A j : /\ ScoreRow(j)' <=> ScoreRow(j)
                  /\ LoopRow(j)' <=> LoopRow(j)
                  /\ FinalRow(j)' <=> FinalRow(j)
  BY DEF ScoreRow, LoopRow, FinalRow, IsStale, Age, SharedWith, Index

LEMMA RowStep ==
    ASSUME TypeOK, LoopInv, ThreadInv, ScoreInv, AnswerInv, RowInv, [Next]_vars
    PROVE  RowInv'
  <1>0. AuditTypeOK
    BY TypeParts
  <1>1. Len(vault) \in Nat /\ Index = 1..Len(vault) /\ \A j \in Index : vault[j] \in Entry
    BY <1>0, IndexIs DEF AuditTypeOK
  <1>2. /\ i \in Nat \ {0} /\ online \in BOOLEAN
        /\ rows \in Seq(RowType) /\ Len(rows) \in Nat
    BY <1>0 DEF AuditTypeOK
  <1>3. CASE /\ UNCHANGED <<vault, online, i, answer, rows>>
             /\ at' \in InLoop => at \in InLoop
             /\ at' \in {"collect", "done"} => at' = at
    BY <1>3, SameRows DEF RowInv
  <1>4. CASE \E j \in Index : ThreadStep(j)
    <2>1. PICK j \in Index : ThreadStep(j)
      BY <1>4
    <2>2. /\ UNCHANGED <<vault, online, at, i, rows>>
          /\ \A k \in Index \ {j} : answer'[k] = answer[k]
          /\ thread[j] = "running"
      BY <1>0, <2>1 DEF ThreadStep, Answered, RateLimited, RequestFails, ThreadEnds, AuditTypeOK
    <2>3. \A k : (ScoreRow(k)' <=> ScoreRow(k)) /\ (LoopRow(k)' <=> LoopRow(k))
      BY <2>2 DEF ScoreRow, LoopRow, IsStale, Age
    <2>4. CASE at \in {"collect", "done"}
      <3>1. \A k \in 1..Len(rows) : k \in Index /\ FinalRow(k)
        BY <1>1, <2>4 DEF RowInv
      <3>2. at = "collect" => \A k \in Index : k < i => k # j
        BY <2>2 DEF ThreadInv
      <3>3. at = "done" => FALSE
        BY <2>2 DEF ThreadInv, Ended
      <3>4. \A k \in 1..Len(rows) : FinalRow(k)'
        BY <2>2, <2>4, <3>1, <3>2, <3>3 DEF FinalRow, SharedWith, Index
      <3> QED
        BY <2>2, <2>3, <2>4, <3>4 DEF RowInv, InLoop
    <2>5. CASE at \notin {"collect", "done"}
      BY <2>2, <2>3, <2>5 DEF RowInv
    <2> QED
      BY <2>4, <2>5
  <1>5. CASE UNCHANGED audit
    BY <1>3, <1>5 DEF audit
  <1>6. CASE EvaluateEntry \/ ScoreThrows \/ Acquire \/ SpawnThrows \/ Leave
    <2>1. UNCHANGED <<vault, online, i, answer, rows>>
      BY <1>6 DEF EvaluateEntry, ScoreThrows, Acquire, SpawnThrows, Leave, request
    <2>2. /\ at' \in InLoop => at \in InLoop
          /\ at' \notin {"collect", "done"}
      BY <1>6 DEF EvaluateEntry, ScoreThrows, Acquire, SpawnThrows, Leave, InLoop
    <2> QED
      BY <1>3, <2>1, <2>2
  <1>7. CASE Spawn
    <2>1. UNCHANGED <<vault, online, rows>> /\ at \in InLoop /\ at' = "entry"
      BY <1>7 DEF Spawn, InLoop
    <2>2. \A k : (ScoreRow(k)' <=> ScoreRow(k)) /\ (LoopRow(k)' <=> LoopRow(k))
      BY <2>1 DEF ScoreRow, LoopRow, IsStale, Age
    <2> QED
      BY <2>1, <2>2 DEF RowInv
  <1>8. CASE Scored
    <2>1. PICK garbage \in BOOLEAN :
            rows' = Append(rows, Row(outcome = "weak", IsStale(vault[i]),
                                     IF online THEN "none" ELSE "disabled", garbage))
      BY <1>8 DEF Scored
    <2> DEFINE r == Row(outcome = "weak", IsStale(vault[i]),
                        IF online THEN "none" ELSE "disabled", garbage)
    <2>2. /\ at = "scoring" /\ pc = "idle" /\ outcome \in {"weak", "strong"}
          /\ UNCHANGED <<vault, online>> /\ at' \in {"entry", "acquire"}
      BY <1>8 DEF Scored
    <2>3. i <= Len(vault) /\ Len(rows) = i - 1
      BY <2>2 DEF LoopInv
    <2>4. i \in Index /\ vault[i] \in Entry
      BY <1>1, <1>2, <2>3
    <2>5. (outcome = "weak") = (vault[i].len = 0 \/ vault[i].weak)
      <3>1. vault[i].len \in Nat /\ vault[i].weak \in BOOLEAN
        BY <2>4 DEF Entry
      <3>2. CASE vault[i].len = 0
        BY <2>2, <3>2 DEF ScoreInv
      <3>3. CASE vault[i].len > 0
        BY <2>2, <3>1, <3>3 DEF ScoreInv
      <3> QED
        BY <3>1, <3>2, <3>3
    <2>6. /\ r.weak = (outcome = "weak") /\ r.stale = IsStale(vault[i]) /\ r.with = {}
          /\ r.hibp = IF online THEN "none" ELSE "disabled"
      BY DEF Row
    <2> HIDE DEF r
    <2>7. Len(rows') = i /\ rows'[i] = r /\ \A k \in 1..Len(rows) : rows'[k] = rows[k]
      BY <1>2, <2>1, <2>3 DEF r
    <2>8. \A k \in 1..Len(rows') : k = i \/ k \in 1..Len(rows)
      BY <1>2, <2>3, <2>7
    <2>9. ASSUME NEW k \in 1..Len(rows') PROVE ScoreRow(k)' /\ LoopRow(k)'
      <3>1. CASE k = i
        BY <2>2, <2>5, <2>6, <2>7, <3>1 DEF ScoreRow, LoopRow, IsStale, Age
      <3>2. CASE k \in 1..Len(rows)
        <4>1. ScoreRow(k) /\ LoopRow(k) /\ rows'[k] = rows[k]
          BY <2>2, <2>7, <3>2 DEF RowInv, InLoop
        <4> QED
          BY <2>2, <4>1 DEF ScoreRow, LoopRow, IsStale, Age
      <3> QED
        BY <2>8, <3>1, <3>2
    <2> QED
      BY <2>2, <2>9 DEF RowInv
  <1>9. CASE FinalizeReuses
    <2>0. /\ at = "entry" /\ i \notin 1..Len(vault) /\ i' = 1 /\ UNCHANGED <<vault, online, answer>>
          /\ at' = IF online THEN "collect" ELSE "done"
          /\ rows' = [j \in Index |->
                       IF SharedWith(j) = {} THEN rows[j]
                       ELSE [rows[j] EXCEPT !.reused = TRUE, !.with = SharedWith(j)]]
      BY <1>1, <1>9 DEF FinalizeReuses, request
    <2>1. Len(rows) = Len(vault)
      <3>1. i = Len(vault) + 1
        <4>1. i \notin 1..Len(vault) /\ i <= Len(vault) + 1
          BY <2>0 DEF LoopInv
        <4> QED
          BY <1>1, <1>2, <4>1
      <3>2. Len(rows) = i - 1
        BY <2>0 DEF LoopInv
      <3> QED
        BY <1>1, <3>1, <3>2
    <2>2. Len(rows') = Len(vault)
      <3>1. DOMAIN rows' = 1..Len(vault)
        BY <1>1, <2>0
      <3>2. rows' \in Seq(RowType)'
        BY <1>0, MainStepTypes, <1>9 DEF MainStep, AuditTypeOK
      <3> QED
        BY <1>1, <3>1, <3>2
    <2>3. SharedWith(0)' = SharedWith(0) /\ \A k \in Index : SharedWith(k)' = SharedWith(k)
      BY <2>0 DEF SharedWith, Index
    <2>4. ASSUME NEW k \in 1..Len(rows')
          PROVE  ScoreRow(k)' /\ FinalRow(k)'
      <3>1. k \in Index /\ rows[k] \in RowType /\ ScoreRow(k) /\ LoopRow(k)
        <4>1. k \in 1..Len(rows) /\ k \in 1..Len(vault)
          BY <2>1, <2>2
        <4>2. rows[k] \in RowType /\ k \in Index
          BY <1>1, <1>2, <4>1
        <4>3. at \in InLoop
          BY <2>0 DEF InLoop
        <4> QED
          BY <4>1, <4>2, <4>3 DEF RowInv
      <3>2. /\ rows'[k].weak = rows[k].weak /\ rows'[k].stale = rows[k].stale
            /\ rows'[k].hibp = rows[k].hibp /\ rows'[k].with = SharedWith(k)
            /\ SharedWith(k) # {} => rows'[k].reused
        <4>1. CASE SharedWith(k) = {}
          BY <2>0, <3>1, <4>1 DEF LoopRow
        <4>2. CASE SharedWith(k) # {}
          <5>1. rows'[k] = [rows[k] EXCEPT !.reused = TRUE, !.with = SharedWith(k)]
            BY <2>0, <3>1, <4>2
          <5> QED
            BY <3>1, <5>1 DEF RowType
        <4> QED
          BY <4>1, <4>2
      <3>3. k \in Nat /\ ~(k < 1)
        BY <1>1, <2>2, <2>4
      <3>4. ScoreRow(k)'
        BY <2>0, <3>1, <3>2 DEF ScoreRow, IsStale, Age
      <3>5. FinalRow(k)'
        BY <2>0, <2>3, <3>1, <3>2, <3>3 DEF FinalRow, LoopRow
      <3> QED
        BY <3>4, <3>5
    <2>5. at' \notin InLoop /\ (at' = "done" => ~online')
      BY <2>0 DEF InLoop
    <2> QED
      BY <2>0, <2>2, <2>4, <2>5 DEF RowInv
  <1>10. CASE Collect
    <2>0. /\ at = "collect" /\ at' = at /\ i \in Index /\ thread[i] = "done" /\ i' = i + 1
          /\ UNCHANGED <<vault, online, answer>>
          /\ rows' = [rows EXCEPT ![i].hibp = answer[i]]
      BY <1>10 DEF Collect, request
    <2>1. online /\ Len(rows) = Len(vault) /\ \A k \in 1..Len(rows) : FinalRow(k)
      BY <2>0 DEF ThreadInv, RowInv
    <2>2. Len(rows') = Len(rows)
      BY <1>2, <2>0
    <2>3. ASSUME NEW k \in 1..Len(rows') PROVE ScoreRow(k)' /\ FinalRow(k)'
      <3>1. k \in Index /\ rows[k] \in RowType /\ ScoreRow(k) /\ FinalRow(k)
        BY <1>1, <1>2, <2>1, <2>2, <2>3 DEF RowInv
      <3>2. /\ rows'[k].weak = rows[k].weak /\ rows'[k].stale = rows[k].stale
            /\ rows'[k].with = rows[k].with /\ rows'[k].reused = rows[k].reused
            /\ rows'[k].hibp = IF k = i THEN answer[i] ELSE rows[k].hibp
        <4>1. rows' = [rows EXCEPT ![i] = [rows[i] EXCEPT !.hibp = answer[i]]]
          BY <2>0
        <4>2. k \in DOMAIN rows /\ i \in DOMAIN rows
          BY <1>1, <1>2, <2>0, <2>1, <3>1
        <4> QED
          BY <3>1, <4>1, <4>2 DEF RowType
      <3>3. ScoreRow(k)'
        BY <2>0, <3>1, <3>2 DEF ScoreRow, IsStale, Age
      <3>4. answer[i] # "none"
        BY <2>0 DEF AnswerInv
      <3>5. k < i' => k = i \/ k < i
        BY <1>1, <1>2, <2>0, <3>1
      <3>6. SharedWith(k)' = SharedWith(k)
        BY <2>0 DEF SharedWith, Index
      <3>7. FinalRow(k)'
        BY <2>0, <2>1, <3>1, <3>2, <3>4, <3>5, <3>6 DEF FinalRow
      <3> QED
        BY <3>3, <3>7
    <2> QED
      BY <2>0, <2>1, <2>2, <2>3 DEF RowInv, InLoop
  <1>11. CASE Return
    <2>1. /\ at = "collect" /\ at' = "done" /\ i \notin Index
          /\ UNCHANGED <<vault, online, i, answer, rows>>
      BY <1>11 DEF Return, request
    <2>2. i > Len(vault)
      BY <1>1, <1>2, <2>1
    <2> QED
      BY <2>1, <2>2, SameRows DEF RowInv, InLoop
  <1> QED
    BY <1>3, <1>4, <1>5, <1>6, <1>7, <1>8, <1>9, <1>10, <1>11
    DEF Next, MainStep, EvaluatorStep, DeadlinePasses, WorkerMoves, vars

LEMMA ReportInit ==
    Init => PipeInv /\ ScoreInv /\ AnswerInv /\ RowInv
  BY SizesAssumption DEF Init, EvalInit, PipeInv, ScoreInv, AnswerInv, RowInv

ReportInv ==
    /\ TypeOK /\ EvaluateCleansUp /\ LoopInv /\ ThreadInv
    /\ PipeInv /\ ScoreInv /\ AnswerInv /\ RowInv

LEMMA ReportInvHolds == Spec => []ReportInv
  <1>1. Init => ReportInv
    BY InitInvariants, ReportInit DEF ReportInv
  <1>2. ReportInv /\ [Next]_vars => ReportInv'
    BY StepInvariants, ThreadInvStep, ScoreStep, AnswerStep, RowStep DEF ReportInv
  <1> QED
    BY <1>1, <1>2, PTL DEF Spec

\* For any sizes of pipes and replies and any schedule of the two processes:
\* evaluate() returns a score only of the whole password.
THEOREM ScoresWhole == Spec => []ScoreOfWhole
  <1>1. ReportInv => ScoreOfWhole
    <2> SUFFICES ASSUME ReportInv, at = "scoring", pc = "idle",
                        outcome \in {"weak", "strong"}, vault[i].len > 0
                 PROVE  took = vault[i].len + 1
      BY DEF ScoreOfWhole
    <2>1. input = Password(vault[i]) /\ got = Reply
      BY DEF ReportInv, ScoreInv
    <2>2. put > 0
      BY <2>1, SizesAssumption DEF ReportInv, PipeInv, TypeOK, EvalTypeOK
    <2>3. took = input.len + 1
      BY <2>2 DEF ReportInv, PipeInv
    <2> QED
      BY <2>1, <2>3 DEF Password
  <1> QED
    BY <1>1, ReportInvHolds, PTL

\* For any vault: the report of an audit that ends says of each entry what is
\* true of it, whatever the worker and the breach service did.
THEOREM ReportsTrue == Spec => []ReportIsTrue
  <1>1. ReportInv => ReportIsTrue
    <2> SUFFICES ASSUME ReportInv, at = "done" PROVE ReportIsTrue
      BY DEF ReportIsTrue
    <2>0. AuditTypeOK
      BY TypeParts DEF ReportInv
    <2>1. /\ Len(vault) \in Nat /\ Index = 1..Len(vault) /\ vault \in Vaults
          /\ i \in Nat \ {0} /\ rows \in Seq(RowType)
          /\ answer \in [Index -> {"none", "pwned", "clean", "error"}]
      BY <2>0, IndexIs DEF AuditTypeOK
    <2>2. Len(rows) = Len(vault) /\ DOMAIN rows = Index
      BY <2>1 DEF ReportInv, RowInv
    <2>3. ASSUME NEW j \in Index
          PROVE  /\ rows[j].weak = (vault[j].len = 0 \/ vault[j].weak)
                 /\ rows[j].stale = IsStale(vault[j])
                 /\ rows[j].with = SharedWith(j)
                 /\ rows[j].with # {} => rows[j].reused
                 /\ rows[j].hibp \in IF online THEN {"pwned", "clean", "error"} ELSE {"disabled"}
                 /\ rows[j].hibp = "pwned" => vault[j].pwd \in Breached
                 /\ rows[j].hibp = "clean" => vault[j].pwd \notin Breached
      <3>1. ScoreRow(j) /\ FinalRow(j)
        BY <2>1, <2>2 DEF ReportInv, RowInv
      <3>2. online => j < i
        BY <2>1 DEF ReportInv, RowInv
      <3>3. online => rows[j].hibp = answer[j] /\ answer[j] # "none"
        BY <3>1, <3>2 DEF FinalRow
      <3>4. ~online => rows[j].hibp = "disabled"
        BY <3>1 DEF FinalRow
      <3>5. /\ answer[j] = "pwned" => vault[j].pwd \in Breached
            /\ answer[j] = "clean" => vault[j].pwd \notin Breached
        BY DEF ReportInv, AnswerInv
      <3>6. /\ rows[j].hibp \in IF online THEN {"pwned", "clean", "error"} ELSE {"disabled"}
            /\ rows[j].hibp = "pwned" => vault[j].pwd \in Breached
            /\ rows[j].hibp = "clean" => vault[j].pwd \notin Breached
        BY <2>1, <3>3, <3>4, <3>5
      <3>7. /\ rows[j].weak = (vault[j].len = 0 \/ vault[j].weak)
            /\ rows[j].stale = IsStale(vault[j])
            /\ rows[j].with = SharedWith(j)
            /\ rows[j].with # {} => rows[j].reused
        BY <3>1 DEF ScoreRow, FinalRow
      <3> QED
        BY <3>6, <3>7
    <2>4. ASSUME NEW j \in Index
          PROVE  /\ IsStale(vault[j]) = (vault[j].updated > 0
                      /\ (vault[j].updated > Now \/ vault[j].updated + Threshold < Now))
                 /\ SharedWith(j) = {k \in Index : k # j /\ vault[k].pwd = vault[j].pwd}
      BY <2>1, StaleIs DEF SharedWith
    <2> QED
      BY <2>2, <2>3, <2>4 DEF ReportIsTrue
  <1> QED
    BY <1>1, ReportInvHolds, PTL

===============================================================================
