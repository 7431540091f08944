----------------------------- MODULE EntropyWorker -----------------------------
(***************************************************************************)
(* EntropyEvaluator::evaluate (src/entropy_evaluator.cpp) and the worker   *)
(* process it forks (src/entropy_worker_main.cpp).  The caller feeds the   *)
(* password through one pipe and reads a score of fixed size from another, *)
(* under one overall deadline, while the worker may be slow, answer in     *)
(* part, fail, crash or hang.                                              *)
(*                                                                         *)
(* Bytes travel in units: the first unit of a request is the length field, *)
(* each other unit a part of the password; the last unit of a reply is     *)
(* is_weak.  kill(SIGKILL) and the waitpid() after it are one step: a      *)
(* killed process ends.                                                    *)
(***************************************************************************)
EXTENDS Naturals

CONSTANTS
    PipeRoom,     \* units a pipe holds
    Reply,        \* units of a reply (the 21 bytes)
    WorkerLimit   \* the longest password the worker accepts (4096 bytes)

ASSUME SizesAssumption ==
    PipeRoom \in Nat \ {0} /\ Reply \in Nat \ {0} /\ WorkerLimit \in Nat

VARIABLES
    pc,        \* where evaluate() is; "idle" outside of it
    input,     \* the password argument: its length and what zxcvbn says of it
    outcome,   \* what the last call returned: "none" until it has
    fds,       \* the ends of the pipes the caller has open
    sent, got, \* units written to the worker, units read from it
    revents,   \* what the last poll() reported
    blocked, pending,  \* SIGPIPE is blocked; one is pending
    expired,   \* the deadline of this call has passed
    child,     \* the worker process
    status,    \* its exit status while it is a zombie
    took, put  \* units the worker has read and written

signals == <<blocked, pending>>
worker == <<child, status, took, put>>
caller == <<pc, input, outcome, fds, sent, got, revents, signals>>
evalVars == <<caller, expired, worker>>

Outcomes == {"weak", "strong", "throw"}
Live == {"forked", "reading", "writing"}
Signalled == 128   \* stands for every status that is not an exit code

EvalInit ==
    /\ pc = "idle"
    /\ input = [len |-> 0, weak |-> TRUE]
    /\ outcome = "none"
    /\ fds = {}
    /\ sent = 0 /\ got = 0 /\ took = 0 /\ put = 0
    /\ revents = {}
    /\ blocked = FALSE /\ pending = FALSE
    /\ expired = FALSE
    /\ child = "none"
    /\ status = 0

-----------------------------------------------------------------------------
(* The call, up to the first poll(). *)

\* An empty password is weak; nothing is forked for it.
EvaluateEmpty(p) ==
    /\ pc = "idle"
    /\ p.len = 0
    /\ outcome' = "weak"
    /\ UNCHANGED <<pc, input, fds, sent, got, revents, signals, expired, worker>>

\* pipe() or fork() fails: what was opened is closed before the throw.
EvaluateCannotFork(p) ==
    /\ pc = "idle"
    /\ p.len > 0
    /\ outcome' = "throw"
    /\ UNCHANGED <<pc, input, fds, sent, got, revents, signals, expired, worker>>

\* Fork, close the worker's ends, block SIGPIPE, set the deadline.
EvaluateForks(p) ==
    /\ pc = "idle"
    /\ p.len > 0
    /\ pc' = "poll"
    /\ input' = p
    /\ fds' = {"in", "out"}
    /\ blocked' = TRUE
    /\ expired' = FALSE
    /\ child' = "forked"
    /\ sent' = 0 /\ got' = 0 /\ took' = 0 /\ put' = 0
    /\ UNCHANGED <<outcome, revents, pending, status>>

Evaluate(p) == EvaluateEmpty(p) \/ EvaluateCannotFork(p) \/ EvaluateForks(p)

-----------------------------------------------------------------------------
(* Leaving evaluate(). *)

\* ~SigpipeBlocker takes a SIGPIPE raised by a write (none was pending before:
\* no caller blocks it) and restores the mask; ~PipeCloser closes the pipes.
Unwind(o) ==
    /\ pc' = "idle"
    /\ outcome' = o
    /\ fds' = {}
    /\ blocked' = FALSE /\ pending' = FALSE
    /\ UNCHANGED <<input, sent, got, revents, expired>>

KillAndThrow ==
    /\ child' = "none"
    /\ Unwind("throw")
    /\ UNCHANGED <<status, took, put>>

-----------------------------------------------------------------------------
(* One round of the poll() loop: poll, then the write side, then the read  *)
(* side.                                                                   *)

InPipe == sent - took
OutPipe == put - got

\* What poll() reports: POLLOUT when the pipe has room, POLLERR when nobody
\* reads it any more, POLLIN for data or the end of the reply.
PollBits ==
    {b \in {"POLLOUT", "POLLERR", "POLLIN"} :
        \/ b = "POLLOUT" /\ "in" \in fds /\ InPipe < PipeRoom
        \/ b = "POLLERR" /\ "in" \in fds /\ child \notin Live
        \/ b = "POLLIN" /\ (OutPipe > 0 \/ child \notin Live)}

PollReturns ==
    /\ pc = "poll"
    /\ ~expired
    /\ PollBits # {}
    /\ revents' = PollBits
    /\ pc' = "write"
    /\ UNCHANGED <<input, outcome, fds, sent, got, signals, expired, worker>>

\* The deadline passes before a round or during poll().
PollTimesOut ==
    /\ pc = "poll"
    /\ expired
    /\ KillAndThrow

PollFails ==
    /\ pc = "poll"
    /\ KillAndThrow

\* write() takes what fits; the pipe is closed after the last unit.
WriteRequest ==
    /\ pc = "write"
    /\ "POLLOUT" \in revents
    /\ child \in Live
    /\ \E k \in 1..(input.len + 1 - sent) :
        /\ k <= PipeRoom - InPipe
        /\ sent' = sent + k
        /\ fds' = IF sent + k = input.len + 1 THEN fds \ {"in"} ELSE fds
    /\ pc' = "read"
    /\ UNCHANGED <<input, outcome, got, revents, signals, expired, worker>>

\* The reader is gone: a write raises SIGPIPE, which stays pending because it
\* is blocked; without room poll() said POLLERR only and nothing is written.
WriteBroken ==
    /\ pc = "write"
    /\ revents \cap {"POLLOUT", "POLLERR"} # {}
    /\ child \notin Live
    /\ pending' = (pending \/ "POLLOUT" \in revents)
    /\ fds' = fds \ {"in"}
    /\ pc' = "read"
    /\ UNCHANGED <<input, outcome, sent, got, revents, blocked, expired, worker>>

WriteSkipped ==
    /\ pc = "write"
    /\ revents \cap {"POLLOUT", "POLLERR"} = {}
    /\ pc' = "read"
    /\ UNCHANGED <<input, outcome, fds, sent, got, revents, signals, expired, worker>>

\* read() takes part of what there is; a whole reply ends the loop, and the
\* request pipe is closed if it still is open.
ReadReply ==
    /\ pc = "read"
    /\ "POLLIN" \in revents
    /\ \E k \in 1..OutPipe :
        /\ got' = got + k
        /\ pc' = IF got + k = Reply THEN "reap" ELSE "poll"
        /\ fds' = IF got + k = Reply THEN fds \ {"in"} ELSE fds
    /\ UNCHANGED <<input, outcome, sent, revents, signals, expired, worker>>

ReadEnd ==
    /\ pc = "read"
    /\ "POLLIN" \in revents
    /\ OutPipe = 0
    /\ child \notin Live
    /\ pc' = "reap"
    /\ fds' = fds \ {"in"}
    /\ UNCHANGED <<input, outcome, sent, got, revents, signals, expired, worker>>

ReadSkipped ==
    /\ pc = "read"
    /\ "POLLIN" \notin revents
    /\ pc' = "poll"
    /\ UNCHANGED <<input, outcome, fds, sent, got, revents, signals, expired, worker>>

-----------------------------------------------------------------------------
(* waitpid(WNOHANG) until the deadline. *)

\* is_weak is the last unit; a buffer that was not filled holds zeros.
Decode == IF got = Reply /\ input.weak THEN "weak" ELSE "strong"

Verdict == IF got = Reply /\ status = 0 THEN Decode ELSE "throw"

Reap ==
    /\ pc = "reap"
    /\ ~expired
    /\ child = "zombie"
    /\ child' = "none"
    /\ Unwind(Verdict)
    /\ UNCHANGED <<status, took, put>>

\* Mutant of ReapTimesOut: waitpid() without WNOHANG.
ReapBlocks ==
    /\ pc = "reap"
    /\ child = "zombie"
    /\ expired
    /\ KillAndThrow

ReapTimesOut ==
    /\ pc = "reap"
    /\ expired
    /\ KillAndThrow

\* What the caller does by itself.
EvalStep ==
    \/ PollReturns \/ PollTimesOut
    \/ WriteRequest \/ WriteBroken \/ WriteSkipped
    \/ ReadReply \/ ReadEnd \/ ReadSkipped
    \/ Reap \/ ReapTimesOut

\* The five seconds are over.
Expire ==
    /\ pc # "idle"
    /\ ~expired
    /\ expired' = TRUE
    /\ UNCHANGED <<caller, worker>>

-----------------------------------------------------------------------------
(* The worker process.  Its write_all() cannot fail: the caller keeps the  *)
(* other end open until the worker has been waited for.                    *)

WorkerExits(code) ==
    /\ child' = "zombie"
    /\ status' = code

\* dup2(), execl() or ZxcvbnInit() fails.
WorkerStartFails ==
    /\ child = "forked"
    /\ \E code \in {126, 127, 2} : WorkerExits(code)
    /\ UNCHANGED <<caller, expired, took, put>>

WorkerStarts ==
    /\ child = "forked"
    /\ child' = "reading"
    /\ UNCHANGED <<caller, expired, status, took, put>>

\* The length field, which the worker may refuse.
WorkerReadsLength ==
    /\ child = "reading"
    /\ took = 0
    /\ InPipe > 0
    /\ took' = 1
    /\ IF input.len > WorkerLimit THEN WorkerExits(3) ELSE UNCHANGED <<child, status>>
    /\ UNCHANGED <<caller, expired, put>>

\* Mutant of WorkerReads: the length field is counted as a part of the password.
WorkerReadsShort ==
    /\ child = "reading"
    /\ took > 0
    /\ \E k \in 1..InPipe :
        /\ took' = took + k
        /\ child' = IF took + k >= input.len THEN "writing" ELSE "reading"
    /\ UNCHANGED <<caller, expired, status, put>>

\* The password; with the last unit of it the score is computed.
WorkerReads ==
    /\ child = "reading"
    /\ took > 0
    /\ \E k \in 1..InPipe :
        /\ took' = took + k
        /\ child' = IF took + k = input.len + 1 THEN "writing" ELSE "reading"
    /\ UNCHANGED <<caller, expired, status, put>>

\* The caller closed the pipe before the request was whole.
WorkerSeesEnd ==
    /\ child = "reading"
    /\ InPipe = 0
    /\ "in" \notin fds
    /\ WorkerExits(IF took = 0 THEN 3 ELSE 4)
    /\ UNCHANGED <<caller, expired, took, put>>

WorkerWrites ==
    /\ child = "writing"
    /\ \E k \in 1..(Reply - put) : put' = put + k
    /\ UNCHANGED <<caller, expired, child, status, took>>

WorkerFinishes ==
    /\ child = "writing"
    /\ put = Reply
    /\ WorkerExits(0)
    /\ UNCHANGED <<caller, expired, took, put>>

WorkerCrashes ==
    /\ child \in Live
    /\ WorkerExits(Signalled)
    /\ UNCHANGED <<caller, expired, took, put>>

WorkerStep ==
    \/ WorkerStartFails \/ WorkerStarts
    \/ WorkerReadsLength \/ WorkerReads \/ WorkerSeesEnd
    \/ WorkerWrites \/ WorkerFinishes \/ WorkerCrashes

-----------------------------------------------------------------------------
(* Properties of a call. *)

EvalTypeOK ==
    /\ pc \in {"idle", "poll", "write", "read", "reap"}
    /\ input \in [len : Nat, weak : BOOLEAN]
    /\ outcome \in Outcomes \cup {"none"}
    /\ fds \subseteq {"in", "out"}
    /\ sent \in Nat /\ got \in Nat /\ took \in Nat /\ put \in Nat
    /\ revents \subseteq {"POLLOUT", "POLLERR", "POLLIN"}
    /\ blocked \in BOOLEAN /\ pending \in BOOLEAN /\ expired \in BOOLEAN
    /\ child \in {"none", "zombie"} \cup Live
    /\ status \in Nat

\* Outside of evaluate(), however it was left, there is no worker process and
\* no zombie, no open pipe, and SIGPIPE is deliverable with none pending, so
\* that a worker that died early cannot take the process with it.
EvaluateCleansUp ==
    pc = "idle" => child = "none" /\ fds = {} /\ ~blocked /\ ~pending

===============================================================================
