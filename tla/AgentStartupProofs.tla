--------------------------- MODULE AgentStartupProofs ---------------------------
(***************************************************************************)
(* Proofs about AgentStartup for any number of agents, polls and signals.  *)
(***************************************************************************)
EXTENDS AgentStartup, TLAPS

\* An agent that was not launched has not run, and the tries of a start command
\* that still looks are not used up.
CommandInv ==
    \A a \in Agents :
        /\ cmd[a] = "none" => pc[a] = "none"
        /\ cmd[a] \in {"none", "wait"} => polls[a] = 0
        /\ cmd[a] = "poll" => polls[a] < MaxPolls

TypeInv == TypeOK /\ CommandInv

\* A socket at the path belongs to an agent that has come as far as bind().
Bound == {"listen", "handlers", "arm", "serving", "cleanup", "leave", "ended"}
OwnerInv ==
    /\ path \in Agents => pc[path] \in Bound
    /\ OnlyKillsLeaveSockets

\* Without an overlap a server is alone and keeps the path while it listens; it
\* finds it free when it binds, unless a socket could not be removed.
Holding == {"listen"} \cup Listening
AloneInv ==
    ~raced =>
        /\ \A a, b \in Agents : pc[a] \in Serving /\ pc[b] \in Serving => a = b
        /\ \A a \in Agents : pc[a] = "bind" => path = NoSocket \/ stuck # {}
        /\ \A a \in Agents : pc[a] \in Holding => path = a
        /\ stuck = {} => \A a \in Agents : why[a] # "path"

-----------------------------------------------------------------------------
(* Types. *)

LEMMA TypeInit == Init => TypeInv
  <1> SUFFICES ASSUME Init PROVE TypeInv
    OBVIOUS
  <1>1. raced \in BOOLEAN
    BY DEF Init
  <1>2. TypeOK
    BY <1>1, StartBounds DEF Init, TypeOK
  <1>3. CommandInv
    BY StartBounds DEF Init, CommandInv
  <1> QED
    BY <1>2, <1>3 DEF TypeInv

LEMMA TypeStep == TypeInv /\ [Next]_vars => TypeInv'
  <1> SUFFICES ASSUME TypeInv, [Next]_vars PROVE TypeInv'
    OBVIOUS
  <1> USE StartBounds DEF TypeInv, TypeOK, CommandInv, Alive, Serving, command, Goto, Ends, Leaves
  <1>1. CASE UNCHANGED vars
    BY <1>1 DEF vars
  <1>2. ASSUME NEW a \in Agents, StartNotNeeded(a) PROVE TypeInv'
    BY <1>2 DEF StartNotNeeded
  <1>3. ASSUME NEW a \in Agents, StartLaunches(a) PROVE TypeInv'
    BY <1>3 DEF StartLaunches
  <1>4. ASSUME NEW a \in Agents, StartWaits(a) PROVE TypeInv'
    BY <1>4 DEF StartWaits
  <1>5. ASSUME NEW a \in Agents, StartPolls(a) PROVE TypeInv'
    BY <1>5 DEF StartPolls
  <1>6. ASSUME NEW a \in Agents, MainRefuses(a) PROVE TypeInv'
    BY <1>6 DEF MainRefuses
  <1>7. ASSUME NEW a \in Agents, MainPasses(a) PROVE TypeInv'
    BY <1>7 DEF MainPasses
  <1>8. ASSUME NEW a \in Agents, RunChecks(a) PROVE TypeInv'
    BY <1>8 DEF RunChecks
  <1>9. ASSUME NEW a \in Agents, RemoveStale(a) PROVE TypeInv'
    BY <1>9 DEF RemoveStale, Removes
  <1>10. ASSUME NEW a \in Agents, Bind(a) PROVE TypeInv'
    BY <1>10 DEF Bind
  <1>11. ASSUME NEW a \in Agents, SocketFails(a) PROVE TypeInv'
    BY <1>11 DEF SocketFails
  <1>12. ASSUME NEW a \in Agents, Listen(a) PROVE TypeInv'
    BY <1>12 DEF Listen
  <1>13. ASSUME NEW a \in Agents, ListenFails(a) PROVE TypeInv'
    BY <1>13 DEF ListenFails, Removes
  <1>14. ASSUME NEW a \in Agents, InstallHandlers(a) PROVE TypeInv'
    BY <1>14 DEF InstallHandlers
  <1>15. ASSUME NEW a \in Agents, Arm(a) PROVE TypeInv'
    BY <1>15 DEF Arm
  <1>16. ASSUME NEW a \in Agents, LoopEnds(a) PROVE TypeInv'
    BY <1>16 DEF LoopEnds
  <1>17. ASSUME NEW a \in Agents, CleanUp(a) PROVE TypeInv'
    BY <1>17 DEF CleanUp, Removes
  <1>18. ASSUME NEW a \in Agents, Leave(a) PROVE TypeInv'
    BY <1>18 DEF Leave, Removes
  <1>19. ASSUME NEW a \in Agents, Signal(a) PROVE TypeInv'
    BY <1>19 DEF Signal
  <1>20. ASSUME NEW a \in Agents, Kill(a) PROVE TypeInv'
    BY <1>20 DEF Kill
  <1>21. ASSUME NEW a \in Agents, StopRequest(a) PROVE TypeInv'
    BY <1>21 DEF StopRequest
  <1> QED
    BY <1>1, <1>2, <1>3, <1>4, <1>5, <1>6, <1>7, <1>8, <1>9, <1>10, <1>11, <1>12, <1>13,
       <1>14, <1>15, <1>16, <1>17, <1>18, <1>19, <1>20, <1>21
       DEF Next, StartCommand, AgentStep

\* Every reachable state is well typed: no start command looks more often than
\* it may.
THEOREM TypeCorrect == Spec => []TypeOK
  <1>1. TypeInv => TypeOK
    BY DEF TypeInv
  <1> QED
    BY <1>1, TypeInit, TypeStep, PTL DEF Spec

-----------------------------------------------------------------------------
(* Steps of the start commands, signals and stop requests leave the sockets *)
(* and the steps of the agents alone, but for a launch or a kill.           *)

\* The steps that change none of the variables of the invariants below.
LEMMA QuietSteps ==
    ASSUME NEW a \in Agents,
           \/ StartNotNeeded(a) \/ StartWaits(a) \/ StartPolls(a)
           \/ Signal(a) \/ StopRequest(a)
    PROVE  UNCHANGED <<path, pc, why, raced, stuck>>
  BY DEF StartNotNeeded, StartWaits, StartPolls, Signal, StopRequest

LEMMA OwnerInit == Init => OwnerInv
  BY SocketAssumption DEF Init, OwnerInv, OnlyKillsLeaveSockets

LEMMA OwnerStep == TypeInv /\ OwnerInv /\ [Next]_vars => OwnerInv'
  <1> SUFFICES ASSUME TypeInv, OwnerInv, [Next]_vars PROVE OwnerInv'
    OBVIOUS
  <1> USE SocketAssumption DEF TypeInv, TypeOK, OwnerInv, OnlyKillsLeaveSockets, Bound, Goto, Ends, Leaves
  <1>1. CASE UNCHANGED vars
    BY <1>1 DEF vars
  <1>2. ASSUME NEW a \in Agents,
               \/ StartNotNeeded(a) \/ StartWaits(a) \/ StartPolls(a)
               \/ Signal(a) \/ StopRequest(a)
        PROVE OwnerInv'
    BY <1>2, QuietSteps
  <1>3. ASSUME NEW a \in Agents, StartLaunches(a) PROVE OwnerInv'
    BY <1>3 DEF StartLaunches, CommandInv
  <1>6. ASSUME NEW a \in Agents, MainRefuses(a) PROVE OwnerInv'
    BY <1>6 DEF MainRefuses
  <1>7. ASSUME NEW a \in Agents, MainPasses(a) PROVE OwnerInv'
    BY <1>7 DEF MainPasses
  <1>8. ASSUME NEW a \in Agents, RunChecks(a) PROVE OwnerInv'
    BY <1>8 DEF RunChecks
  <1>9. ASSUME NEW a \in Agents, RemoveStale(a) PROVE OwnerInv'
    BY <1>9 DEF RemoveStale, Removes
  <1>10. ASSUME NEW a \in Agents, Bind(a) PROVE OwnerInv'
    BY <1>10 DEF Bind
  <1>11. ASSUME NEW a \in Agents, SocketFails(a) PROVE OwnerInv'
    BY <1>11 DEF SocketFails
  <1>12. ASSUME NEW a \in Agents, Listen(a) PROVE OwnerInv'
    BY <1>12 DEF Listen
  <1>13. ASSUME NEW a \in Agents, ListenFails(a) PROVE OwnerInv'
    BY <1>13 DEF ListenFails, Removes
  <1>14. ASSUME NEW a \in Agents, InstallHandlers(a) PROVE OwnerInv'
    BY <1>14 DEF InstallHandlers
  <1>15. ASSUME NEW a \in Agents, Arm(a) PROVE OwnerInv'
    BY <1>15 DEF Arm
  <1>16. ASSUME NEW a \in Agents, LoopEnds(a) PROVE OwnerInv'
    BY <1>16 DEF LoopEnds
  <1>17. ASSUME NEW a \in Agents, CleanUp(a) PROVE OwnerInv'
    BY <1>17 DEF CleanUp, Removes
  <1>18. ASSUME NEW a \in Agents, Leave(a) PROVE OwnerInv'
    BY <1>18 DEF Leave, Removes
  <1>20. ASSUME NEW a \in Agents, Kill(a) PROVE OwnerInv'
    BY <1>20 DEF Kill, Alive, Serving
  <1> QED
    BY <1>1, <1>2, <1>3, <1>6, <1>7, <1>8, <1>9, <1>10, <1>11, <1>12, <1>13,
       <1>14, <1>15, <1>16, <1>17, <1>18, <1>20
       DEF Next, StartCommand, AgentStep

\* An agent that ended by itself has left no socket of its own but one that could
\* not be removed, however many agents raced for the path: every way out of
\* main() goes through the destructor, which removes it.
THEOREM OnlyKillsLeave == Spec => []OnlyKillsLeaveSockets
  <1>1. OwnerInv => OnlyKillsLeaveSockets
    BY DEF OwnerInv
  <1> QED
    BY <1>1, TypeInit, TypeStep, OwnerInit, OwnerStep, PTL DEF Spec

-----------------------------------------------------------------------------
(* Without an overlap of two servers. *)

LEMMA AloneInit == Init => AloneInv
  BY DEF Init, AloneInv, Serving, Holding, Listening

LEMMA AloneStep == TypeInv /\ AloneInv /\ [Next]_vars => AloneInv'
  <1> SUFFICES ASSUME TypeInv, AloneInv, [Next]_vars PROVE AloneInv'
    OBVIOUS
  <1> USE SocketAssumption DEF TypeInv, TypeOK, AloneInv, Serving, Holding, Listening, Goto, Ends, Leaves
  <1>1. CASE UNCHANGED vars
    BY <1>1 DEF vars
  <1>2. ASSUME NEW a \in Agents,
               \/ StartNotNeeded(a) \/ StartWaits(a) \/ StartPolls(a)
               \/ Signal(a) \/ StopRequest(a)
        PROVE AloneInv'
    BY <1>2, QuietSteps
  <1>3. ASSUME NEW a \in Agents, StartLaunches(a) PROVE AloneInv'
    BY <1>3 DEF StartLaunches
  <1>4. ASSUME NEW a \in Agents, MainRefuses(a) PROVE AloneInv'
    BY <1>4 DEF MainRefuses
  <1>5. ASSUME NEW a \in Agents, MainPasses(a) PROVE AloneInv'
    BY <1>5 DEF MainPasses
  <1>6. ASSUME NEW a \in Agents, RunChecks(a) PROVE AloneInv'
    BY <1>6 DEF RunChecks, Answered
  <1>7. ASSUME NEW a \in Agents, RemoveStale(a) PROVE AloneInv'
    BY <1>7 DEF RemoveStale, Removes
  <1>8. ASSUME NEW a \in Agents, Bind(a) PROVE AloneInv'
    BY <1>8 DEF Bind
  <1>9. ASSUME NEW a \in Agents, SocketFails(a) PROVE AloneInv'
    BY <1>9 DEF SocketFails
  <1>10. ASSUME NEW a \in Agents, Listen(a) PROVE AloneInv'
    BY <1>10 DEF Listen
  <1>11. ASSUME NEW a \in Agents, ListenFails(a) PROVE AloneInv'
    BY <1>11 DEF ListenFails, Removes
  <1>12. ASSUME NEW a \in Agents, InstallHandlers(a) PROVE AloneInv'
    BY <1>12 DEF InstallHandlers
  <1>13. ASSUME NEW a \in Agents, Arm(a) PROVE AloneInv'
    BY <1>13 DEF Arm
  <1>14. ASSUME NEW a \in Agents, LoopEnds(a) PROVE AloneInv'
    BY <1>14 DEF LoopEnds
  <1>15. ASSUME NEW a \in Agents, CleanUp(a) PROVE AloneInv'
    BY <1>15 DEF CleanUp, Removes
  <1>16. ASSUME NEW a \in Agents, Leave(a) PROVE AloneInv'
    BY <1>16 DEF Leave, Removes
  <1>17. ASSUME NEW a \in Agents, Kill(a) PROVE AloneInv'
    BY <1>17 DEF Kill
  <1> QED
    BY <1>1, <1>2, <1>3, <1>4, <1>5, <1>6, <1>7, <1>8, <1>9, 
       <1>10, <1>11, <1>12, <1>13, <1>14, <1>15, <1>16, <1>17
       DEF Next, StartCommand, AgentStep

\* Unless two servers overlapped, a serving agent is the one at the path and the
\* only one.
THEOREM ServesAlone == Spec => []ServingIsReachable
  <1>1. AloneInv => ServingIsReachable
    BY DEF AloneInv, ServingIsReachable, Holding, Listening, Serving
  <1> QED
    BY <1>1, TypeInit, TypeStep, AloneInit, AloneStep, PTL DEF Spec

\* Unless two servers overlapped or a socket could not be removed, no agent gives
\* up because of what is at the path: the bind finds it free.
THEOREM StaleIsReplaced == Spec => []StalePathIsReplaced
  <1>1. AloneInv => StalePathIsReplaced
    BY DEF AloneInv, StalePathIsReplaced
  <1> QED
    BY <1>1, TypeInit, TypeStep, AloneInit, AloneStep, PTL DEF Spec

===============================================================================
