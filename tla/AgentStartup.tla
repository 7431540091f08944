----------------------------- MODULE AgentStartup -----------------------------
(***************************************************************************)
(* How agents come and go: `duckpass agent start` (src/agent_command.cpp), *)
(* main() of the agent (src/daemon_main.cpp), and AgentServer::run() up to *)
(* its loop with the clean-up after it (src/agent_server.cpp).  Agents     *)
(* share nothing but the path of the socket.                               *)
(***************************************************************************)
EXTENDS Naturals

CONSTANTS
    Agents,     \* agent processes, each started once
    NoSocket,   \* nothing is at the path
    Stale,      \* the socket of an agent that was killed earlier is there
    MaxPolls,   \* how often a start command looks for the new agent (10)
    MaxSignals, \* bound on the signals and kills of a behaviour
    IoFaults    \* whether fork(), socket(), bind(), listen() and remove() may fail

ASSUME SocketAssumption == {NoSocket, Stale} \cap Agents = {} /\ NoSocket # Stale
ASSUME StartBounds == MaxPolls \in Nat \ {0} /\ MaxSignals \in Nat /\ IoFaults \in BOOLEAN

VARIABLES
    path,     \* whose socket is at the path
    pc,       \* the step each agent process is at
    stopping, \* its g_stop_requested, or running_ cleared by a STOP request
    why,      \* why it ended
    cmd,      \* the start command that launched it
    polls,    \* how often that command has looked
    signals,  \* signals and kills so far
    raced,    \* history: two AgentServer objects existed at the same time
    stuck     \* history: the sockets that a failed remove() has left at the path

vars == <<path, pc, stopping, why, cmd, polls, signals, raced, stuck>>
command == <<cmd, polls>>

\* The steps with an AgentServer object; those where its socket listens; those
\* with the signal handlers installed.
Serving == {"check", "remove", "bind", "listen", "handlers", "arm", "serving", "cleanup", "leave"}
Listening == {"handlers", "arm", "serving"}
Handling == {"arm", "serving", "cleanup", "leave"}
Alive == {"main"} \cup Serving

Init ==
    /\ path \in {NoSocket, Stale}
    /\ pc = [a \in Agents |-> "none"]
    /\ stopping = [a \in Agents |-> FALSE]
    /\ why = [a \in Agents |-> "none"]
    /\ cmd = [a \in Agents |-> "none"]
    /\ polls = [a \in Agents |-> 0]
    /\ signals = 0
    /\ raced = FALSE
    /\ stuck = {}

Goto(a, step) == pc' = [pc EXCEPT ![a] = step]
Ends(a, reason) == Goto(a, "ended") /\ why' = [why EXCEPT ![a] = reason]
Leaves(a, reason) == Goto(a, "leave") /\ why' = [why EXCEPT ![a] = reason]

\* is_agent_available() is true only if a listening agent answers; a busy one
\* may fail to in time.
Answered == path \in Agents /\ pc[path] \in Listening

\* Whatever is at the path is removed; an error of remove() is ignored.
Removes ==
    \/ path' = NoSocket /\ UNCHANGED stuck
    \/ /\ IoFaults /\ path # NoSocket
       /\ stuck' = stuck \cup {path}
       /\ UNCHANGED path

-----------------------------------------------------------------------------
(* duckpass agent start. *)

\* An agent answers, or the process cannot be forked.
StartNotNeeded(a) ==
    /\ cmd[a] = "none"
    /\ Answered \/ IoFaults
    /\ cmd' = [cmd EXCEPT ![a] = "done"]
    /\ UNCHANGED <<path, pc, stopping, why, polls, signals, raced, stuck>>

\* Nobody answers: fork and exec.  main() asks again, so the time between the
\* command's question and its fork adds no behaviour.
StartLaunches(a) ==
    /\ cmd[a] = "none"
    /\ cmd' = [cmd EXCEPT ![a] = "wait"]
    /\ Goto(a, "main")
    /\ UNCHANGED <<path, stopping, why, polls, signals, raced, stuck>>

\* waitpid: the process failed, or its parent half returned after the fork.
StartWaits(a) ==
    /\ cmd[a] = "wait"
    /\ pc[a] # "main"
    /\ cmd' = [cmd EXCEPT ![a] = IF why[a] = "running" THEN "done" ELSE "poll"]
    /\ UNCHANGED <<path, pc, stopping, why, polls, signals, raced, stuck>>

\* Mutants of StartPolls: one try too many; the tries are not counted.
StartPollsOneMore(a) ==
    /\ cmd[a] = "poll"
    /\ \E ok \in BOOLEAN :
        /\ ok => Answered
        /\ polls' = [polls EXCEPT ![a] = @ + 1]
        /\ cmd' = [cmd EXCEPT ![a] = IF ok \/ polls[a] + 1 > MaxPolls THEN "done" ELSE "poll"]
    /\ UNCHANGED <<path, pc, stopping, why, signals, raced, stuck>>
StartPollsUncounted(a) ==
    /\ cmd[a] = "poll"
    /\ Answered
    /\ cmd' = [cmd EXCEPT ![a] = "done"]
    /\ UNCHANGED <<path, pc, stopping, why, polls, signals, raced, stuck>>

\* Look every 100 ms until an agent answers or the tries are used up.
StartPolls(a) ==
    /\ cmd[a] = "poll"
    /\ \E ok \in BOOLEAN :
        /\ ok => Answered
        /\ polls' = [polls EXCEPT ![a] = @ + 1]
        /\ cmd' = [cmd EXCEPT ![a] = IF ok \/ polls[a] + 1 >= MaxPolls THEN "done" ELSE "poll"]
    /\ UNCHANGED <<path, pc, stopping, why, signals, raced, stuck>>

StartCommand(a) == StartNotNeeded(a) \/ StartLaunches(a) \/ StartWaits(a) \/ StartPolls(a)

-----------------------------------------------------------------------------
(* main() and run(). *)

\* "Check if another agent is already running", or the fork fails.
MainRefuses(a) ==
    /\ pc[a] = "main"
    /\ Answered \/ IoFaults
    /\ Ends(a, "running")
    /\ UNCHANGED <<path, stopping, command, signals, raced, stuck>>

\* Nobody answers: daemonize and construct the AgentServer.
MainPasses(a) ==
    /\ pc[a] = "main"
    /\ Goto(a, "check")
    /\ raced' = (raced \/ \E b \in Agents : pc[b] \in Serving)
    /\ UNCHANGED <<path, stopping, why, command, signals, stuck>>

\* Mutant of RunChecks: a path that exists is taken for an agent.
RunTrustsPath(a) ==
    /\ pc[a] = "check"
    /\ IF path = NoSocket
       THEN Goto(a, "bind") /\ UNCHANGED why
       ELSE Leaves(a, "path")
    /\ UNCHANGED <<path, stopping, command, signals, raced, stuck>>

\* Something is at the path: either it answers, and run() returns, or it is
\* taken for stale.
RunChecks(a) ==
    /\ pc[a] = "check"
    /\ \/ path = NoSocket /\ Goto(a, "bind") /\ UNCHANGED why
       \/ Answered /\ Leaves(a, "path")
       \/ path # NoSocket /\ Goto(a, "remove") /\ UNCHANGED why
    /\ UNCHANGED <<path, stopping, command, signals, raced, stuck>>

RemoveStale(a) ==
    /\ pc[a] = "remove"
    /\ Removes
    /\ Goto(a, "bind")
    /\ UNCHANGED <<stopping, why, command, signals, raced>>

Bind(a) ==
    /\ pc[a] = "bind"
    /\ IF path = NoSocket
       THEN path' = a /\ Goto(a, "listen") /\ UNCHANGED why
       ELSE Leaves(a, "path") /\ UNCHANGED path
    /\ UNCHANGED <<stopping, command, signals, raced, stuck>>

SocketFails(a) ==
    /\ IoFaults
    /\ pc[a] = "bind"
    /\ Leaves(a, "error")
    /\ UNCHANGED <<path, stopping, command, signals, raced, stuck>>

\* Mutant of Listen: the stale path is removed after the bind.
ListenRemovesPath(a) ==
    /\ pc[a] = "listen"
    /\ path' = NoSocket
    /\ Goto(a, "handlers")
    /\ UNCHANGED <<stopping, why, command, signals, raced, stuck>>

Listen(a) ==
    /\ pc[a] = "listen"
    /\ Goto(a, "handlers")
    /\ UNCHANGED <<path, stopping, why, command, signals, raced, stuck>>

\* cleanup_socket() removes the path, and the destructor does so again.
ListenFails(a) ==
    /\ IoFaults
    /\ pc[a] = "listen"
    /\ Removes
    /\ Leaves(a, "error")
    /\ UNCHANGED <<stopping, command, signals, raced>>

InstallHandlers(a) ==
    /\ pc[a] = "handlers"
    /\ Goto(a, "arm")
    /\ UNCHANGED <<path, stopping, why, command, signals, raced, stuck>>

\* g_stop_requested = false: a signal since the handlers were installed is lost.
Arm(a) ==
    /\ pc[a] = "arm"
    /\ stopping' = [stopping EXCEPT ![a] = FALSE]
    /\ Goto(a, "serving")
    /\ UNCHANGED <<path, why, command, signals, raced, stuck>>

\* Mutants of LoopEnds: the process exits from its loop; the flag is looked at
\* only when a client connects.
LoopExits(a) ==
    /\ pc[a] = "serving"
    /\ stopping[a]
    /\ Ends(a, "stopped")
    /\ UNCHANGED <<path, stopping, command, signals, raced, stuck>>
LoopEndsOnRequest(a) ==
    /\ pc[a] = "serving"
    /\ stopping[a]
    /\ path = a
    /\ Goto(a, "cleanup")
    /\ why' = [why EXCEPT ![a] = "stopped"]
    /\ UNCHANGED <<path, stopping, command, signals, raced, stuck>>

LoopEnds(a) ==
    /\ pc[a] = "serving"
    /\ stopping[a]
    /\ Goto(a, "cleanup")
    /\ why' = [why EXCEPT ![a] = "stopped"]
    /\ UNCHANGED <<path, stopping, command, signals, raced, stuck>>

\* cleanup_socket() at the end of run(): whatever is at the path is removed.
CleanUp(a) ==
    /\ pc[a] = "cleanup"
    /\ Removes
    /\ Goto(a, "leave")
    /\ UNCHANGED <<stopping, why, command, signals, raced>>

\* ~AgentServer calls cleanup_socket() on every way out of main().
Leave(a) ==
    /\ pc[a] = "leave"
    /\ Removes
    /\ Goto(a, "ended")
    /\ UNCHANGED <<stopping, why, command, signals, raced>>

AgentStep(a) ==
    \/ MainRefuses(a) \/ MainPasses(a)
    \/ RunChecks(a) \/ RemoveStale(a)
    \/ Bind(a) \/ SocketFails(a) \/ Listen(a) \/ ListenFails(a)
    \/ InstallHandlers(a) \/ Arm(a)
    \/ LoopEnds(a) \/ CleanUp(a) \/ Leave(a)

-----------------------------------------------------------------------------
(* Signals, stop requests and kills. *)

\* SIGTERM or SIGINT: the handler sets the flag once it is installed.
Signal(a) ==
    /\ signals < MaxSignals
    /\ pc[a] \in Handling
    /\ signals' = signals + 1
    /\ stopping' = [stopping EXCEPT ![a] = TRUE]
    /\ UNCHANGED <<path, pc, why, command, raced, stuck>>

\* A signal before that, or SIGKILL at any time: nothing is cleaned up.
Kill(a) ==
    /\ signals < MaxSignals
    /\ pc[a] \in Alive
    /\ signals' = signals + 1
    /\ Ends(a, "killed")
    /\ UNCHANGED <<path, stopping, command, raced, stuck>>

\* A STOP request of a client that reaches this agent.
StopRequest(a) ==
    /\ pc[a] = "serving"
    /\ path = a
    /\ stopping' = [stopping EXCEPT ![a] = TRUE]
    /\ UNCHANGED <<path, pc, why, command, signals, raced, stuck>>

Next ==
    \E a \in Agents :
        \/ StartCommand(a) \/ AgentStep(a)
        \/ Signal(a) \/ Kill(a) \/ StopRequest(a)

\* Processes that can go on do; nobody has to start or stop an agent.
Fairness ==
    \A a \in Agents :
        WF_vars(AgentStep(a)) /\ WF_vars(StartWaits(a) \/ StartPolls(a))

Spec == Init /\ [][Next]_vars /\ Fairness

-----------------------------------------------------------------------------
(* Properties. *)

TypeOK ==
    /\ path \in Agents \cup {NoSocket, Stale}
    /\ pc \in [Agents -> {"none", "ended"} \cup Alive]
    /\ stopping \in [Agents -> BOOLEAN]
    /\ why \in [Agents -> {"none", "running", "path", "error", "stopped", "killed"}]
    /\ cmd \in [Agents -> {"none", "wait", "poll", "done"}]
    /\ polls \in [Agents -> 0..MaxPolls]
    /\ signals \in Nat
    /\ raced \in BOOLEAN
    /\ stuck \subseteq Agents \cup {Stale}

\* Unless two AgentServer objects overlapped, which main()'s check prevents
\* except while an agent starts, stops or is too busy to answer, an agent that
\* serves is the one clients reach, and it is the only one.
ServingIsReachable ==
    ~raced => \A a \in Agents : pc[a] \in Listening =>
        path = a /\ \A b \in Agents \ {a} : pc[b] \notin Serving

\* A socket left behind by a killed agent never keeps the next one from
\* starting: run() gives up because of the path only in such an overlap, or
\* where a remove() has failed.
StalePathIsReplaced == ~raced /\ stuck = {} => \A a \in Agents : why[a] # "path"

\* An agent that ended by itself has left no socket of its own, raced or not:
\* what is at the path belongs to a live agent or to a killed one, or could not
\* be removed.
OnlyKillsLeaveSockets ==
    path \in Agents => pc[path] # "ended" \/ why[path] = "killed" \/ path \in stuck

\* A serving agent that is told to stop, by a signal or a request, ends.
StopIsObeyed ==
    \A a \in Agents : stopping[a] /\ pc[a] = "serving" ~> pc[a] = "ended"

\* An agent that was launched gets to its loop or ends, and the command that
\* launched it returns.
StartSettles ==
    \A a \in Agents : cmd[a] = "wait" ~> cmd[a] = "done" /\ pc[a] \in {"serving", "ended"}

===============================================================================
