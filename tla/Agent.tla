-------------------------------- MODULE Agent --------------------------------
(***************************************************************************)
(* The session agent (src/agent_server.cpp) and the commands that use it.  *)
(* The agent serves one connection at a time from a backlog, keeps the     *)
(* unlocked VaultService between requests and drops it when it has been    *)
(* idle.  A command sends one request per connection and gives up after    *)
(* ClientTimeout seconds; the agent then still serves what was sent.       *)
(* Other processes write the vault file directly and lock the agent        *)
(* afterwards.                                                             *)
(*                                                                         *)
(* What a VaultService does with its entries is the subject of VaultStore. *)
(* Here a session is the password it was opened with and the number of     *)
(* direct writes before its file was read; answers that depend on entries  *)
(* are free.  Time passes in seconds, and only while the agent waits: for  *)
(* poll, for a packet, for a key derivation or for the file lock.          *)
(***************************************************************************)
EXTENDS Naturals, Sequences

CONSTANTS
    Clients,        \* processes that talk to the agent
    Commands,       \* the commands they run
    Passwords,      \* master passwords
    Locked,         \* the agent has no session
    NoConn,         \* the agent serves no connection
    NoPassword,     \* the request carries no password
    Backlog,        \* connections the kernel queues, 16 in listen()
    IdleTimeout,    \* idle_timeout_seconds_, 0 for never
    ClientTimeout,  \* SO_RCVTIMEO of a client, 2 s
    MaxEdits,       \* bound on the direct writes of a behaviour
    IoFaults        \* whether reading and writing the vault may fail

PollPeriod == 1   \* poll(..., 1000)
ReadPeriod == 1   \* 250 ms for each read of a packet, rounded up

Reads == {"get", "totp", "list"}
Data == Reads \cup {"add", "delete"}
Requests == Data \cup {"ping", "status", "unlock", "lock", "stop"}
AllCommands == Data \cup {"status", "unlock", "lock", "stop", "write", "desk"}
Replies == {"pong", "ok", "error", "refused", "closed",
            "locked", "unlocked", "entries", "empty"}

Session == [key : Passwords, seen : Nat]
Conn == [client : Clients, req : Requests, pw : Passwords \cup {NoPassword}, live : BOOLEAN]
Client == [cmd : AllCommands \cup {"none"}, req : Requests \cup {"fallback", "saving", "end"},
           sent : BOOLEAN, reply : Replies \cup {"none"}, age : 0..ClientTimeout,
           wrote : Nat, out : Replies \cup {"none"}]

ASSUME CommandsAssumption == Commands \subseteq AllCommands
ASSUME MarkersAssumption == Locked \notin Session /\ NoConn \notin Conn /\ NoPassword \notin Passwords
ASSUME BoundsAssumption ==
    /\ Backlog \in Nat \ {0}
    /\ IdleTimeout \in Nat
    /\ ClientTimeout \in Nat
    /\ MaxEdits \in Nat
    /\ IoFaults \in BOOLEAN

VARIABLES
    fileKey,   \* the password that opens the vault file
    edits,     \* direct writes of the vault file so far
    pc,        \* where the event loop stands
    stopping,  \* running_ is false or g_stop_requested is true
    session,   \* vault_service_
    loading,   \* the vault file as an UNLOCK in progress read it
    idle,      \* seconds since last_activity_
    wait,      \* seconds spent in the current poll or read
    queue,     \* connections not yet accepted
    cur,       \* the connection being served
    cl         \* the commands

vars == <<fileKey, edits, pc, stopping, session, loading, idle, wait, queue, cur, cl>>
file == <<fileKey, edits>>
agent == <<pc, stopping, session, loading, idle, wait>>

MaxIdle == IdleTimeout + PollPeriod + ReadPeriod

\* Command cmd before its request r, after direct write w, with result o.
Pending(cmd, r, w, o) ==
    [cmd |-> cmd, req |-> r, sent |-> FALSE, reply |-> "none", age |-> 0,
     wrote |-> w, out |-> o]

Init ==
    /\ fileKey \in Passwords
    /\ edits = 0
    /\ pc = "down"
    /\ stopping = FALSE
    /\ session = Locked
    /\ loading = Locked
    /\ idle = 0
    /\ wait = 0
    /\ queue = <<>>
    /\ cur = NoConn
    /\ cl = [c \in Clients |-> Pending("none", "end", 0, "none")]

-----------------------------------------------------------------------------
(* The event loop. *)

Start ==
    /\ pc = "down"
    /\ pc' = "loop"
    /\ UNCHANGED <<file, stopping, session, loading, idle, wait, queue, cur, cl>>

\* The session and its password are dropped; idle means nothing without one.
Purge == session' = Locked /\ idle' = 0

\* CheckIdle with > for >=.
CheckIdleLate ==
    /\ pc = "loop"
    /\ ~stopping
    /\ IF session # Locked /\ IdleTimeout # 0 /\ idle > IdleTimeout
       THEN Purge
       ELSE UNCHANGED <<session, idle>>
    /\ pc' = "poll"
    /\ UNCHANGED <<file, stopping, loading, wait, queue, cur, cl>>

\* CheckIdle made only when no connection waits.
CheckIdleWhenQuiet ==
    /\ pc = "loop"
    /\ ~stopping
    /\ IF session # Locked /\ IdleTimeout # 0 /\ idle >= IdleTimeout /\ queue = <<>>
       THEN Purge
       ELSE UNCHANGED <<session, idle>>
    /\ pc' = "poll"
    /\ UNCHANGED <<file, stopping, loading, wait, queue, cur, cl>>

\* CheckIdle in a loop that does not look at g_stop_requested.
CheckIdleUnstoppable ==
    /\ pc = "loop"
    /\ IF session # Locked /\ IdleTimeout # 0 /\ idle >= IdleTimeout
       THEN Purge
       ELSE UNCHANGED <<session, idle>>
    /\ pc' = "poll"
    /\ UNCHANGED <<file, stopping, loading, wait, queue, cur, cl>>

\* The top of the loop: check_idle_timeout, then poll.
CheckIdle ==
    /\ pc = "loop"
    /\ ~stopping
    /\ IF session # Locked /\ IdleTimeout # 0 /\ idle >= IdleTimeout
       THEN Purge
       ELSE UNCHANGED <<session, idle>>
    /\ pc' = "poll"
    /\ UNCHANGED <<file, stopping, loading, wait, queue, cur, cl>>

\* poll ends by its timeout.
PollReturns ==
    /\ pc = "poll"
    /\ queue = <<>>
    /\ wait = PollPeriod
    /\ pc' = "loop"
    /\ wait' = 0
    /\ UNCHANGED <<file, stopping, session, loading, idle, queue, cur, cl>>

\* A signal ends poll, unless it came before poll, behind the loop's condition.
PollInterrupted ==
    /\ pc = "poll"
    /\ stopping
    /\ pc' = "loop"
    /\ wait' = 0
    /\ UNCHANGED <<file, stopping, session, loading, idle, queue, cur, cl>>

Accept ==
    /\ pc = "poll"
    /\ queue # <<>>
    /\ cur' = Head(queue)
    /\ queue' = Tail(queue)
    /\ pc' = "read"
    /\ wait' = 0
    /\ UNCHANGED <<file, stopping, session, loading, idle, cl>>

ReadPacket ==
    /\ pc = "read"
    /\ pc' = "handle"
    /\ wait' = 0
    /\ UNCHANGED <<file, stopping, session, loading, idle, queue, cur, cl>>

\* Answer on a connection that the client's next request uses again.
AnswerOnSharedConnection(r) ==
    /\ cl' = [cl EXCEPT ![cur.client].reply = r]
    /\ cur' = NoConn
    /\ pc' = "loop"

\* write_packet and close: the client has the reply if it is still connected.
Answer(r) ==
    /\ cl' = IF cur.live THEN [cl EXCEPT ![cur.client].reply = r] ELSE cl
    /\ cur' = NoConn
    /\ pc' = "loop"

\* The packet does not arrive in time: the connection is closed.
ReadFails ==
    /\ pc = "read"
    /\ wait = ReadPeriod
    /\ Answer("closed")
    /\ wait' = 0
    /\ UNCHANGED <<file, stopping, session, loading, idle, queue>>

\* The loop ends: stop() and cleanup_socket(), which resets the backlog.
Exit ==
    /\ pc = "loop"
    /\ stopping
    /\ pc' = "down"
    /\ stopping' = FALSE
    /\ Purge
    /\ queue' = <<>>
    /\ cl' = [c \in Clients |->
                IF \E i \in DOMAIN queue : queue[i].client = c /\ queue[i].live
                THEN [cl[c] EXCEPT !.reply = "closed"]
                ELSE cl[c]]
    /\ UNCHANGED <<file, loading, wait, cur>>

\* SIGINT or SIGTERM.
Signal ==
    /\ pc # "down"
    /\ ~stopping
    /\ stopping' = TRUE
    /\ UNCHANGED <<file, pc, session, loading, idle, wait, queue, cur, cl>>

-----------------------------------------------------------------------------
(* handle_client. *)

Handling(reqs) == pc = "handle" /\ cur.req \in reqs

Ping ==
    /\ Handling({"ping"})
    /\ Answer("pong")
    /\ UNCHANGED <<file, stopping, session, loading, idle, wait, queue>>

Status ==
    /\ Handling({"status"})
    /\ Answer(IF session = Locked THEN "locked" ELSE "unlocked")
    /\ UNCHANGED <<file, stopping, session, loading, idle, wait, queue>>

Lock ==
    /\ Handling({"lock"})
    /\ Purge
    /\ Answer("ok")
    /\ UNCHANGED <<file, stopping, loading, wait, queue>>

Stop ==
    /\ Handling({"stop"})
    /\ stopping' = TRUE
    /\ Answer("ok")
    /\ UNCHANGED <<file, session, loading, idle, wait, queue>>

\* unlock: the file is read first, the key derivation takes its time.
BeginUnlock ==
    /\ Handling({"unlock"})
    /\ loading' = [key |-> fileKey, seen |-> edits]
    /\ pc' = "loading"
    /\ UNCHANGED <<file, stopping, session, idle, wait, queue, cur, cl>>

Unlock ==
    /\ pc = "loading"
    /\ cur.pw = loading.key
    /\ session' = loading
    /\ loading' = Locked
    /\ idle' = 0
    /\ Answer("ok")
    /\ UNCHANGED <<file, stopping, wait, queue>>

\* A wrong password, or no file to read: the session of before stays.
UnlockFails ==
    /\ pc = "loading"
    /\ IoFaults \/ cur.pw # loading.key
    /\ loading' = Locked
    /\ Answer("error")
    /\ UNCHANGED <<file, stopping, session, idle, wait, queue>>

Refuse ==
    /\ Handling(Data)
    /\ session = Locked
    /\ Answer("refused")
    /\ UNCHANGED <<file, stopping, session, loading, idle, wait, queue>>

\* GET_ENTRY, GET_TOTP and LIST_ENTRIES from the session's copy.
Read ==
    /\ Handling(Reads)
    /\ session # Locked
    /\ idle' = 0
    /\ \E r \in (IF cur.req = "list" THEN {"entries", "empty"} ELSE {"ok", "error"}) :
        Answer(r)
    /\ UNCHANGED <<file, stopping, session, loading, wait, queue>>

\* ADD_ENTRY and DELETE_ENTRY: rejected at once, or waiting for the file lock.
BeginSave ==
    /\ Handling(Data \ Reads)
    /\ session # Locked
    /\ idle' = 0
    /\ \/ Answer("error")
       \/ pc' = "saving" /\ UNCHANGED <<cur, cl>>
    /\ UNCHANGED <<file, stopping, session, loading, wait, queue>>

\* save() fails when the vault has another password than the session.
Save ==
    /\ pc = "saving"
    /\ \/ session.key = fileKey /\ Answer("ok")
       \/ (IoFaults \/ session.key # fileKey) /\ Answer("error")
    /\ UNCHANGED <<file, stopping, session, loading, idle, wait, queue>>

-----------------------------------------------------------------------------
(* The commands. *)

\* What a command does after request r got the result res: another request,
\* direct access to the vault, or nothing.
After(cmd, r, res) ==
    CASE r = "ping" /\ res # "pong" -> IF cmd \in Data THEN "fallback" ELSE "end"
      [] r = "ping" /\ cmd \in Data \cup {"status", "unlock"} -> "status"
      [] r = "ping" /\ cmd \in {"lock", "write"} -> "lock"
      [] r = "ping" /\ cmd = "stop" -> "stop"
      [] r = "status" /\ cmd \in Data -> IF res = "locked" THEN "unlock" ELSE cmd
      [] r = "status" /\ cmd = "unlock" -> IF res = "unlocked" THEN "end" ELSE "unlock"
      [] r = "unlock" /\ cmd \in Data /\ res = "ok" -> cmd
      [] OTHER -> "end"

\* What the list command prints when it is not given entries.
Shown(c, res) ==
    IF cl[c].cmd = "list" /\ cl[c].req = "list" /\ res # "entries" THEN "empty" ELSE res

\* Command c has the result of its request.
Advanced(c, res) ==
    LET r == After(cl[c].cmd, cl[c].req, res) IN
    Pending(cl[c].cmd, r, cl[c].wrote, IF r = "end" THEN Shown(c, res) ELSE "none")

\* A CLI command starts with a ping; the desktop sends any request on its own.
Run(c) ==
    /\ cl[c].req = "end"
    /\ \E cmd \in Commands \ {"write"} :
        \E r \in (IF cmd = "desk" THEN Requests \ {"stop"} ELSE {"ping"}) :
            cl' = [cl EXCEPT ![c] = Pending(cmd, r, 0, "none")]
    /\ UNCHANGED <<file, agent, queue, cur>>

\* The shell and the rekey command write the vault, then turn to the agent.
WriteDirectly(c) ==
    /\ cl[c].req = "end"
    /\ "write" \in Commands
    /\ edits < MaxEdits
    /\ edits' = edits + 1
    /\ fileKey' \in Passwords
    /\ cl' = [cl EXCEPT ![c] = Pending("write", "ping", edits + 1, "none")]
    /\ UNCHANGED <<agent, queue, cur>>

\* No agent: the command opens the vault itself.  A read ends; add and delete
\* fail, or change their copy and come to save() and its file lock.
Fallback(c) ==
    /\ cl[c].req = "fallback"
    /\ \E r \in {"end"} \cup (IF cl[c].cmd \in Reads THEN {} ELSE {"saving"}) :
        cl' = [cl EXCEPT ![c].req = r]
    /\ UNCHANGED <<file, agent, queue, cur>>

\* The file lock is granted: save() writes the vault or throws, and tells nobody.
FallbackSave(c) ==
    /\ cl[c].req = "saving"
    /\ edits' \in {edits, edits + 1} \cap 0..MaxEdits
    /\ cl' = [cl EXCEPT ![c].req = "end"]
    /\ UNCHANGED <<fileKey, agent, queue, cur>>

\* The two passwords typed for a new entry differ.
Cancel(c) ==
    /\ cl[c].cmd = "add"
    /\ cl[c].req = "add"
    /\ ~cl[c].sent
    /\ cl' = [cl EXCEPT ![c] = Advanced(c, "error")]
    /\ UNCHANGED <<file, agent, queue, cur>>

\* Send without a limit on the backlog.
SendUnlimited(c) ==
    /\ cl[c].req \in Requests
    /\ ~cl[c].sent
    /\ pc # "down"
    /\ \E pw \in (IF cl[c].req = "unlock" THEN Passwords ELSE {NoPassword}) :
        queue' = Append(queue, [client |-> c, req |-> cl[c].req, pw |-> pw,
                                live |-> cl[c].req # "stop"])
    /\ cl' = [cl EXCEPT ![c] = IF cl[c].req = "stop" THEN Advanced(c, "ok")
                               ELSE [@ EXCEPT !.sent = TRUE]]
    /\ UNCHANGED <<file, agent, cur>>

\* connect and write_packet.  stop_agent does not wait for the answer.
Send(c) ==
    /\ cl[c].req \in Requests
    /\ ~cl[c].sent
    /\ pc # "down"
    /\ Len(queue) < Backlog
    /\ \E pw \in (IF cl[c].req = "unlock" THEN Passwords ELSE {NoPassword}) :
        queue' = Append(queue, [client |-> c, req |-> cl[c].req, pw |-> pw,
                                live |-> cl[c].req # "stop"])
    /\ cl' = [cl EXCEPT ![c] = IF cl[c].req = "stop" THEN Advanced(c, "ok")
                               ELSE [@ EXCEPT !.sent = TRUE]]
    /\ UNCHANGED <<file, agent, cur>>

\* No socket, or a full backlog until the timeout, which the commands set before
\* they connect and the desktop sets afterwards: it waits.
ConnectFails(c) ==
    /\ cl[c].req \in Requests
    /\ ~cl[c].sent
    /\ pc = "down" \/ (Len(queue) = Backlog /\ cl[c].cmd # "desk")
    /\ cl' = [cl EXCEPT ![c] = Advanced(c, "closed")]
    /\ UNCHANGED <<file, agent, queue, cur>>

Receive(c) ==
    /\ cl[c].reply # "none"
    /\ cl' = [cl EXCEPT ![c] = Advanced(c, cl[c].reply)]
    /\ UNCHANGED <<file, agent, queue, cur>>

\* A connection of c that c has closed.
Abandoned(conn, c) == IF conn.client = c THEN [conn EXCEPT !.live = FALSE] ELSE conn

\* TimeOut without SO_RCVTIMEO: only a connection still in the backlog fails.
TimeOutInBacklog(c) ==
    /\ cl[c].sent
    /\ cl[c].reply = "none"
    /\ cl[c].age = ClientTimeout
    /\ \E i \in DOMAIN queue : queue[i].client = c /\ queue[i].live
    /\ cl' = [cl EXCEPT ![c] = Advanced(c, "closed")]
    /\ queue' = [i \in DOMAIN queue |-> Abandoned(queue[i], c)]
    /\ UNCHANGED <<file, agent, cur>>

\* read_packet gives up: the request stays with the agent.
TimeOut(c) ==
    /\ cl[c].sent
    /\ cl[c].reply = "none"
    /\ cl[c].age = ClientTimeout
    /\ cl' = [cl EXCEPT ![c] = Advanced(c, "closed")]
    /\ queue' = [i \in DOMAIN queue |-> Abandoned(queue[i], c)]
    /\ cur' = IF cur = NoConn THEN cur ELSE Abandoned(cur, c)
    /\ UNCHANGED <<file, agent>>

-----------------------------------------------------------------------------
\* The agent spends time only where it waits.
TimePasses ==
    \/ pc = "poll" /\ queue = <<>> /\ wait < PollPeriod
    \/ pc = "read" /\ wait < ReadPeriod
    \/ pc \in {"loading", "saving", "down"}

Tick ==
    /\ TimePasses
    /\ wait' = IF pc \in {"poll", "read"} THEN wait + 1 ELSE wait
    /\ idle' = IF session # Locked /\ idle <= MaxIdle THEN idle + 1 ELSE idle
    /\ cl' = [c \in Clients |->
                IF cl[c].sent /\ cl[c].age < ClientTimeout
                THEN [cl[c] EXCEPT !.age = @ + 1]
                ELSE cl[c]]
    /\ UNCHANGED <<file, pc, stopping, session, loading, queue, cur>>

Loop == CheckIdle \/ PollReturns \/ Accept \/ ReadPacket \/ ReadFails \/ Exit
Handle == Ping \/ Status \/ Lock \/ Stop \/ BeginUnlock \/ Refuse \/ Read \/ BeginSave
Finish == Unlock \/ UnlockFails \/ Save
Proceed(c) == Fallback(c) \/ Send(c) \/ ConnectFails(c) \/ Receive(c) \/ TimeOut(c)

Next ==
    \/ Start \/ Signal \/ Tick \/ PollInterrupted
    \/ Loop \/ Handle \/ Finish
    \/ \E c \in Clients :
        Run(c) \/ WriteDirectly(c) \/ Cancel(c) \/ Proceed(c) \/ FallbackSave(c)

Spec == Init /\ [][Next]_vars

\* Time passes, the agent's loop and the commands keep running.  Nothing is
\* assumed about who waits for the file lock, nor that a signal interrupts poll.
LoopFairness ==
    /\ SF_vars(Tick)
    /\ WF_vars(Loop \/ Handle)
    /\ \A c \in Clients : WF_vars(Proceed(c))

HungSpec == Spec /\ LoopFairness

\* As above, and the file lock is granted in the end.
FairSpec ==
    /\ Spec /\ LoopFairness
    /\ WF_vars(Finish)
    /\ \A c \in Clients : WF_vars(FallbackSave(c))

-----------------------------------------------------------------------------
(* Properties. *)

\* The variables hold values of their types.
TypeOK ==
    /\ fileKey \in Passwords
    /\ edits \in 0..MaxEdits
    /\ pc \in {"down", "loop", "poll", "read", "handle", "loading", "saving"}
    /\ stopping \in BOOLEAN
    /\ session \in Session \cup {Locked}
    /\ loading \in Session \cup {Locked}
    /\ idle \in 0..(MaxIdle + 1)
    /\ wait \in 0..1
    /\ queue \in Seq(Conn)
    /\ Len(queue) <= Backlog
    /\ cur \in Conn \cup {NoConn}
    /\ cl \in [Clients -> Client]

\* The auto-lock deadline is only looked at between requests, yet whatever
\* the clients send, no request finds a session that has been idle for longer
\* than the timeout, one poll and the reading of one packet.
ServedInTime ==
    pc = "handle" /\ session # Locked /\ IdleTimeout # 0 => idle < MaxIdle

\* The agent's session, and the one an UNLOCK is about to install, were read
\* from the vault file after the direct write of command c.
Fresh(c) ==
    /\ session # Locked => session.seen >= cl[c].wrote
    /\ pc = "loading" => loading.seen >= cl[c].wrote

\* When the shell or the rekey command is told that the agent is locked, the
\* password and entries of before its write are gone for good: neither a reply
\* to an earlier request nor an unlock in progress brings them back.
PurgedAfterLock ==
    \A c \in Clients :
        cl[c].cmd = "write" /\ cl[c].req = "end" /\ cl[c].out = "ok" => Fresh(c)

\* "Lock agent to purge old master keys and cache from memory": the agent has
\* nothing from before the write once the command has ended.
PurgedAfterWrite ==
    \A c \in Clients : cl[c].cmd = "write" /\ cl[c].req = "end" => Fresh(c)

\* A session that nobody uses is dropped, also while status requests keep the
\* agent busy.
IdleSessionEnds ==
    (session # Locked /\ idle > 0 /\ IdleTimeout # 0) ~> (session = Locked \/ idle = 0)

\* STOP or a signal ends the agent.
StopEnds == stopping ~> pc = "down"

\* Command c can only go on if somebody else does: it waits for the file lock
\* itself, or it is the desktop and connects to an agent that has filled its
\* backlog and serves nobody.
Blocked(c) ==
    \/ cl[c].req = "saving"
    \/ /\ cl[c].cmd = "desk" /\ cl[c].req # "end" /\ ~cl[c].sent
       /\ Len(queue) = Backlog
       /\ pc \in {"loading", "saving"}

\* An agent that waits for ever holds up nobody else: every command ends, whatever
\* request it is at, except for those that come to wait for the same lock and for
\* a desktop that cannot connect.
CommandsEnd ==
    \A c \in Clients : cl[c].req # "end" ~> (cl[c].req = "end" \/ []Blocked(c))

===============================================================================
