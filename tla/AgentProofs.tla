----------------------------- MODULE AgentProofs -----------------------------
(***************************************************************************)
(* Proofs about Agent, for any number of clients and passwords and any     *)
(* timeouts and bounds.                                                    *)
(***************************************************************************)
EXTENDS Agent, TLAPS

Reqs == Requests \cup {"fallback", "saving", "end"}

\* How long a session can have been idle, by the place in the loop: the check
\* at its top bounds it by the timeout, then poll and the reading of the packet
\* add at most their own waiting time.
IdleInv ==
    /\ pc \notin {"poll", "read"} => wait = 0
    /\ session # Locked /\ IdleTimeout # 0 =>
        /\ pc = "poll" => idle < IdleTimeout + wait
        /\ pc = "read" => idle < IdleTimeout + PollPeriod + wait
        /\ pc = "handle" => idle < MaxIdle

\* The connections and the commands they belong to: one that its client has
\* not closed carries the request the client is waiting for.
Matched(conn) ==
    conn.live => /\ cl[conn.client].sent
                 /\ cl[conn.client].reply = "none"
                 /\ cl[conn.client].req = conn.req

\* The connection being served fits the place in the loop, open connections
\* are matched, and no client has two of them.
ConnInv ==
    /\ \A c \in Clients : cl[c].reply # "none" => cl[c].sent
    /\ pc \in {"read", "handle", "loading", "saving"} <=> cur # NoConn
    /\ pc = "loading" => cur.req = "unlock"
    /\ pc = "saving" => cur.req \in Data \ Reads
    /\ cur # NoConn => Matched(cur)
    /\ \A i \in 1..Len(queue) :
        /\ Matched(queue[i])
        /\ cur # NoConn /\ cur.live /\ queue[i].live => cur.client # queue[i].client
        /\ \A j \in 1..Len(queue) :
            i # j /\ queue[i].live /\ queue[j].live => queue[i].client # queue[j].client

\* A command that writes directly knows what the agent told it: the ping can
\* bring no more than a pong, and once the lock request is answered with OK the
\* agent has nothing from before the write.
WriteInv ==
    \A c \in Clients :
        /\ cl[c].wrote <= edits
        /\ cl[c].cmd = "write" =>
            /\ cl[c].req \in {"ping", "lock", "end"}
            /\ cl[c].req = "ping" => cl[c].reply # "ok"
            /\ cl[c].req = "lock" /\ cl[c].reply = "ok" => Fresh(c)
            /\ cl[c].req = "end" => cl[c].reply = "none" /\ ~cl[c].sent
            /\ cl[c].req = "end" /\ cl[c].out = "ok" => Fresh(c)

AgentSteps == Start \/ Signal \/ Tick \/ PollInterrupted \/ Loop \/ Handle \/ Finish
ClientSteps(c) ==
    Run(c) \/ WriteDirectly(c) \/ Cancel(c) \/ Proceed(c) \/ FallbackSave(c)

-----------------------------------------------------------------------------
(* Type correctness. *)

\* A command knows what to do after every result of every request.
LEMMA AfterType ==
    ASSUME NEW cmd \in AllCommands \cup {"none"}, NEW r \in Reqs, NEW res \in Replies
    PROVE  After(cmd, r, res) \in Reqs
BY DEF After, Reqs, Requests, Data, Reads, AllCommands, Replies

LEMMA PendingType ==
    ASSUME NEW cmd \in AllCommands \cup {"none"}, NEW r \in Reqs, NEW w \in Nat,
           NEW o \in Replies \cup {"none"}
    PROVE  Pending(cmd, r, w, o) \in Client
BY BoundsAssumption DEF Pending, Client, Reqs

LEMMA AdvancedType ==
    ASSUME TypeOK, NEW c \in Clients, NEW res \in Replies
    PROVE  Advanced(c, res) \in Client
<1>1. cl[c] \in Client
  BY DEF TypeOK
<1>2. After(cl[c].cmd, cl[c].req, res) \in Reqs
  BY <1>1, AfterType DEF Client, Reqs
<1>3. Shown(c, res) \in Replies
  BY DEF Shown, Replies
<1> QED
  BY <1>1, <1>2, <1>3, PendingType DEF Advanced, Client, Reqs

\* A reply changes the client that it is for and frees the connection.
LEMMA AnswerType ==
    ASSUME TypeOK, NEW r \in Replies, Answer(r)
    PROVE  /\ cl' \in [Clients -> Client]
           /\ cur' \in Conn \cup {NoConn}
           /\ pc' = "loop"
<1>0. cl \in [Clients -> Client]
  BY DEF TypeOK
<1>1. ASSUME NEW x PROVE [cl EXCEPT ![x].reply = r] \in [Clients -> Client]
  <2>1. ASSUME NEW d \in Client PROVE [d EXCEPT !.reply = r] \in Client
    BY DEF Client
  <2>2. [cl EXCEPT ![x].reply = r] = [cl EXCEPT ![x] = [cl[x] EXCEPT !.reply = r]]
    OBVIOUS
  <2>3. x \in Clients => [cl[x] EXCEPT !.reply = r] \in Client
    BY <1>0, <2>1
  <2> QED
    BY <1>0, <2>2, <2>3
<1> QED
  BY <1>0, <1>1 DEF Answer, TypeOK

\* Closing a client's connections leaves a queue of connections.
LEMMA AbandonedType ==
    ASSUME TypeOK, NEW c \in Clients
    PROVE  /\ \A conn \in Conn : Abandoned(conn, c) \in Conn
           /\ [i \in DOMAIN queue |-> Abandoned(queue[i], c)] \in Seq(Conn)
           /\ Len([i \in DOMAIN queue |-> Abandoned(queue[i], c)]) = Len(queue)
<1>1. \A conn \in Conn : Abandoned(conn, c) \in Conn
  BY DEF Abandoned, Conn
<1>2. /\ queue \in Seq(Conn)
      /\ Len(queue) \in Nat
      /\ DOMAIN queue = 1..Len(queue)
      /\ \A i \in DOMAIN queue : queue[i] \in Conn
  BY DEF TypeOK
<1>3. [i \in DOMAIN queue |-> Abandoned(queue[i], c)] \in [1..Len(queue) -> Conn]
  BY <1>1, <1>2
<1> QED
  BY <1>1, <1>2, <1>3

LEMMA EmptyQueue == <<>> \in Seq(Conn) /\ Len(<<>>) <= Backlog
BY BoundsAssumption

LEMMA TypeInit == Init => TypeOK
<1> SUFFICES ASSUME Init PROVE TypeOK
  OBVIOUS
<1>1. cl \in [Clients -> Client]
  BY PendingType DEF Init, Reqs
<1>2. queue \in Seq(Conn) /\ Len(queue) <= Backlog
  BY EmptyQueue DEF Init
<1>3. /\ fileKey \in Passwords
      /\ edits = 0 /\ idle = 0 /\ wait = 0
      /\ pc = "down" /\ stopping \in BOOLEAN
      /\ session = Locked /\ loading = Locked /\ cur = NoConn
  BY DEF Init
<1> QED
  BY <1>1, <1>2, <1>3, BoundsAssumption DEF TypeOK, MaxIdle, PollPeriod, ReadPeriod

\* The steps of the agent.
LEMMA AgentType == TypeOK /\ AgentSteps => TypeOK'
<1> SUFFICES ASSUME TypeOK, AgentSteps
             PROVE  TypeOK'
  OBVIOUS
<1> USE BoundsAssumption DEF TypeOK, file, agent, MaxIdle, PollPeriod, ReadPeriod
<1>1. CASE Start
  BY <1>1 DEF Start
<1>2. CASE Signal
  BY <1>2 DEF Signal
<1>3. CASE Tick
  <2>1. cl' \in [Clients -> Client]
    <3>1. ASSUME NEW c \in Clients, cl[c].sent /\ cl[c].age < ClientTimeout
          PROVE  [cl[c] EXCEPT !.age = @ + 1] \in Client
      <4>1. cl[c].age + 1 \in 0..ClientTimeout
        BY <3>1 DEF Client
      <4> QED
        BY <4>1 DEF Client
    <3> QED
      BY <1>3, <3>1 DEF Tick
  <2> QED
    BY <1>3, <2>1 DEF Tick, TimePasses
<1>4. CASE CheckIdle
  BY <1>4 DEF CheckIdle, Purge
<1>5. CASE PollReturns
  BY <1>5 DEF PollReturns
<1>6. CASE Accept
  BY <1>6 DEF Accept
<1>7. CASE ReadPacket
  BY <1>7 DEF ReadPacket
<1>8. CASE ReadFails
  <2>1. PICK r \in Replies : Answer(r)
    BY <1>8 DEF ReadFails, Replies
  <2> QED
    BY <1>8, <2>1, AnswerType DEF ReadFails
<1>9. CASE Exit
  <2>1. cl' \in [Clients -> Client]
    <3>1. ASSUME NEW c \in Clients PROVE [cl[c] EXCEPT !.reply = "closed"] \in Client
      BY DEF Client, Replies
    <3> QED
      BY <1>9, <3>1 DEF Exit
  <2>2. queue' \in Seq(Conn) /\ Len(queue') <= Backlog
    BY <1>9, EmptyQueue DEF Exit
  <2>3. /\ UNCHANGED <<fileKey, edits, loading, wait, cur>>
        /\ pc' = "down" /\ stopping' \in BOOLEAN
        /\ session' = Locked /\ idle' = 0
    BY <1>9 DEF Exit, Purge
  <2> QED
    BY <2>1, <2>2, <2>3
<1>10. CASE Ping
  <2>1. PICK r \in Replies : Answer(r)
    BY <1>10 DEF Ping, Replies
  <2> QED
    BY <1>10, <2>1, AnswerType DEF Ping
<1>11. CASE Status
  <2>1. PICK r \in Replies : Answer(r)
    BY <1>11 DEF Status, Replies
  <2> QED
    BY <1>11, <2>1, AnswerType DEF Status
<1>12. CASE Lock
  <2>1. PICK r \in Replies : Answer(r)
    BY <1>12 DEF Lock, Replies
  <2> QED
    BY <1>12, <2>1, AnswerType DEF Lock, Purge
<1>13. CASE Stop
  <2>1. PICK r \in Replies : Answer(r)
    BY <1>13 DEF Stop, Replies
  <2> QED
    BY <1>13, <2>1, AnswerType DEF Stop
<1>14. CASE BeginUnlock
  BY <1>14 DEF BeginUnlock, Session
<1>15. CASE Refuse
  <2>1. PICK r \in Replies : Answer(r)
    BY <1>15 DEF Refuse, Replies
  <2> QED
    BY <1>15, <2>1, AnswerType DEF Refuse
<1>16. CASE Read
  <2>1. PICK r \in Replies : Answer(r)
    BY <1>16 DEF Read, Replies
  <2> QED
    BY <1>16, <2>1, AnswerType DEF Read
<1>17. CASE BeginSave
  <2>1. CASE Answer("error")
    BY <1>17, <2>1, AnswerType DEF BeginSave, Replies
  <2>2. CASE pc' = "saving" /\ UNCHANGED <<cur, cl>>
    BY <1>17, <2>2 DEF BeginSave
  <2> QED
    BY <1>17, <2>1, <2>2 DEF BeginSave
<1>18. CASE Unlock
  <2>1. PICK r \in Replies : Answer(r)
    BY <1>18 DEF Unlock, Replies
  <2> QED
    BY <1>18, <2>1, AnswerType DEF Unlock
<1>19. CASE UnlockFails
  <2>1. PICK r \in Replies : Answer(r)
    BY <1>19 DEF UnlockFails, Replies
  <2> QED
    BY <1>19, <2>1, AnswerType DEF UnlockFails
<1>20. CASE Save
  <2>1. PICK r \in Replies : Answer(r)
    BY <1>20 DEF Save, Replies
  <2> QED
    BY <1>20, <2>1, AnswerType DEF Save
<1>21. CASE PollInterrupted
  BY <1>21 DEF PollInterrupted
<1> QED
  BY <1>1, <1>2, <1>3, <1>4, <1>5, <1>6, <1>7, <1>8, <1>9, <1>10, <1>11, <1>12, <1>13, <1>14, <1>15, <1>16, <1>17, <1>18, <1>19, <1>20, <1>21
  DEF AgentSteps, Loop, Handle, Finish

\* The steps of the commands.
LEMMA ClientType ==
    ASSUME TypeOK, NEW c \in Clients,
           ClientSteps(c)
    PROVE  TypeOK'
<1> USE BoundsAssumption DEF TypeOK, file, agent
<1>1. CASE Run(c)
  <2>1. PICK cmd \in Commands, r \in Requests :
            cl' = [cl EXCEPT ![c] = Pending(cmd, r, 0, "none")]
    BY <1>1 DEF Run, Requests
  <2>2. Pending(cmd, r, 0, "none") \in Client
    BY CommandsAssumption, PendingType DEF Reqs
  <2> QED
    BY <1>1, <2>1, <2>2 DEF Run
<1>2. CASE WriteDirectly(c)
  <2>1. Pending("write", "ping", edits + 1, "none") \in Client
    <3>1. "write" \in AllCommands \cup {"none"} /\ "ping" \in Reqs
      BY DEF Reqs, Requests, AllCommands
    <3>2. edits + 1 \in Nat
      OBVIOUS
    <3> QED
      BY <3>1, <3>2, PendingType
  <2> QED
    BY <1>2, <2>1 DEF WriteDirectly
<1>3. CASE Cancel(c)
  BY <1>3, AdvancedType DEF Cancel, Replies
<1>4. CASE Fallback(c)
  <2>1. ASSUME NEW r \in {"end", "saving"} PROVE [cl[c] EXCEPT !.req = r] \in Client
    BY DEF Client
  <2> QED
    BY <1>4, <2>1 DEF Fallback
<1>5. CASE Send(c)
  <2>1. PICK pw \in Passwords \cup {NoPassword} :
            queue' = Append(queue, [client |-> c, req |-> cl[c].req, pw |-> pw,
                                    live |-> cl[c].req # "stop"])
    BY <1>5 DEF Send
  <2>2. [client |-> c, req |-> cl[c].req, pw |-> pw, live |-> cl[c].req # "stop"] \in Conn
    BY <1>5 DEF Send, Conn
  <2>3. queue' \in Seq(Conn) /\ Len(queue') <= Backlog
    BY <1>5, <2>1, <2>2 DEF Send
  <2>4. [cl[c] EXCEPT !.sent = TRUE] \in Client
    BY DEF Client
  <2>5. Advanced(c, "ok") \in Client
    BY AdvancedType DEF Replies
  <2> QED
    BY <1>5, <2>3, <2>4, <2>5 DEF Send
<1>6. CASE ConnectFails(c)
  BY <1>6, AdvancedType DEF ConnectFails, Replies
<1>7. CASE Receive(c)
  <2>1. cl[c].reply \in Replies
    BY <1>7 DEF Receive, Client
  <2> QED
    BY <1>7, <2>1, AdvancedType DEF Receive
<1>8. CASE TimeOut(c)
  <2>1. Advanced(c, "closed") \in Client
    BY AdvancedType DEF Replies
  <2> QED
    BY <1>8, <2>1, AbandonedType DEF TimeOut
<1>9. CASE FallbackSave(c)
  <2>1. [cl[c] EXCEPT !.req = "end"] \in Client
    BY DEF Client
  <2> QED
    BY <1>9, <2>1 DEF FallbackSave
<1> QED
  BY <1>1, <1>2, <1>3, <1>4, <1>5, <1>6, <1>7, <1>8, <1>9 DEF ClientSteps, Proceed

LEMMA TypeStep == TypeOK /\ [Next]_vars => TypeOK'
<1> SUFFICES ASSUME TypeOK, [Next]_vars PROVE TypeOK'
  OBVIOUS
<1>1. CASE UNCHANGED vars
  BY <1>1 DEF vars, TypeOK
<1> QED
  BY <1>1, AgentType, ClientType DEF Next, AgentSteps, ClientSteps

\* The agent and its commands stay within their types: in particular every
\* request and result leads a command somewhere, and the backlog has its limit.
THEOREM TypeCorrect == Spec => []TypeOK
BY TypeInit, TypeStep, PTL DEF Spec

-----------------------------------------------------------------------------
(* The auto-lock deadline. *)

LEMMA IdleStep == TypeOK /\ IdleInv /\ [Next]_vars => IdleInv'
<1> SUFFICES ASSUME TypeOK, IdleInv, [Next]_vars PROVE IdleInv'
  OBVIOUS
<1> USE BoundsAssumption DEF IdleInv, MaxIdle, PollPeriod, ReadPeriod
<1>0. idle \in Nat /\ wait \in 0..1 /\ IdleTimeout \in Nat
  BY DEF TypeOK
<1>1. CASE UNCHANGED <<pc, session, idle, wait>>
  BY <1>1
<1>2. CASE Start
  BY <1>2 DEF Start
<1>3. CASE Tick
  BY <1>0, <1>3 DEF Tick, TimePasses
<1>4. CASE CheckIdle
  BY <1>0, <1>4 DEF CheckIdle, Purge
<1>5. CASE PollReturns \/ PollInterrupted
  BY <1>5 DEF PollReturns, PollInterrupted
<1>6. CASE Accept
  BY <1>0, <1>6 DEF Accept
<1>7. CASE ReadPacket
  BY <1>0, <1>7 DEF ReadPacket
<1>8. CASE ReadFails
  BY <1>8 DEF ReadFails, Answer
<1>9. CASE Exit
  BY <1>9 DEF Exit
<1>10. CASE Handle
  BY <1>10 DEF Handle, Handling, Ping, Status, Lock, Stop, BeginUnlock, Refuse, Read,
               BeginSave, Answer
<1>11. CASE Finish
  BY <1>11 DEF Finish, Unlock, UnlockFails, Save, Answer
<1>12. CASE Signal \/ \E c \in Clients : ClientSteps(c)
  BY <1>1, <1>12 DEF Signal, ClientSteps, FallbackSave, Run, WriteDirectly, Cancel, Proceed, Fallback, Send,
                     ConnectFails, Receive, TimeOut, agent
<1> QED
  BY <1>1, <1>2, <1>3, <1>4, <1>5, <1>6, <1>7, <1>8, <1>9, <1>10, <1>11, <1>12
  DEF Next, ClientSteps, Loop, vars

\* Whatever the clients send and however often, check_idle_timeout at the top
\* of the loop is enough: no handler finds a session that has been idle for the
\* timeout, one poll and the reading of one packet.
THEOREM ServesInTime == Spec => []ServedInTime
<1>1. Init => IdleInv
  BY DEF Init, IdleInv
<1>2. IdleInv => ServedInTime
  BY DEF IdleInv, ServedInTime
<1> QED
  BY <1>1, <1>2, TypeCorrect, IdleStep, PTL DEF Spec

-----------------------------------------------------------------------------
(* Connections. *)

LEMMA QueueType ==
    ASSUME TypeOK
    PROVE  /\ Len(queue) \in Nat
           /\ DOMAIN queue = 1..Len(queue)
           /\ \A i \in 1..Len(queue) : queue[i] \in Conn
BY DEF TypeOK

\* A reply closes the connection being served and disturbs no other.
LEMMA AnswerConn ==
    ASSUME TypeOK, ConnInv, cur # NoConn, NEW r, Answer(r), queue' = queue
    PROVE  ConnInv'
<1>1. cur \in Conn /\ cl \in [Clients -> Client]
  BY DEF TypeOK
<1>2. ASSUME NEW i \in 1..Len(queue) PROVE Matched(queue[i])'
  BY <1>1, QueueType DEF Answer, ConnInv, Matched, Conn, Client
<1>3. ASSUME NEW c \in Clients PROVE cl'[c].reply # "none" => cl'[c].sent
  BY <1>1 DEF Answer, ConnInv, Matched, Conn, Client
<1> QED
  BY <1>2, <1>3 DEF Answer, ConnInv

\* A client without an open connection may change in any way.
LEMMA ClosedConn ==
    ASSUME TypeOK, ConnInv, NEW c \in Clients,
           ~(cl[c].sent /\ cl[c].reply = "none" /\ cl[c].req \in Requests),
           NEW x, x.reply # "none" => x.sent,
           cl' = [cl EXCEPT ![c] = x], UNCHANGED <<pc, queue, cur>>
    PROVE  ConnInv'
<1>1. cl \in [Clients -> Client] /\ cur \in Conn \cup {NoConn}
  BY DEF TypeOK
<1>2. ASSUME NEW conn \in Conn, Matched(conn) PROVE Matched(conn)'
  BY <1>1, <1>2 DEF Matched, Conn
<1>3. \A i \in 1..Len(queue) : Matched(queue[i])'
  BY <1>2, QueueType DEF ConnInv
<1>4. cur # NoConn => Matched(cur)'
  BY <1>1, <1>2 DEF ConnInv
<1>5. \A d \in Clients : cl'[d].reply # "none" => cl'[d].sent
  BY <1>1 DEF ConnInv
<1> QED
  BY <1>3, <1>4, <1>5 DEF ConnInv

LEMMA ConnAgentStep ==
    TypeOK /\ ConnInv /\ AgentSteps => ConnInv'
<1> SUFFICES ASSUME TypeOK, ConnInv, AgentSteps
             PROVE  ConnInv'
  OBVIOUS
<1>1. CASE Start \/ Signal \/ CheckIdle \/ PollReturns \/ PollInterrupted \/ ReadPacket
                \/ BeginUnlock
  BY <1>1 DEF Start, Signal, CheckIdle, PollReturns, PollInterrupted, ReadPacket, BeginUnlock, Handling,
              ConnInv, Matched
<1>2. CASE Tick
  <2>1. ASSUME NEW conn \in Conn, Matched(conn) PROVE Matched(conn)'
    BY <1>2, <2>1 DEF Tick, Matched, TypeOK, Conn, Client
  <2>2. UNCHANGED <<queue, cur, pc>>
    BY <1>2 DEF Tick
  <2>3. \A i \in 1..Len(queue) : Matched(queue[i])'
    BY <2>1, <2>2, QueueType DEF ConnInv, Matched
  <2>4. cur # NoConn => Matched(cur)'
    BY <2>1, <2>2 DEF ConnInv, TypeOK, Matched
  <2>5. \A c \in Clients : cl'[c].reply # "none" => cl'[c].sent
    BY <1>2 DEF Tick, ConnInv, TypeOK, Client
  <2> QED
    BY <2>2, <2>3, <2>4, <2>5 DEF ConnInv
<1>3. CASE Accept
  <2>1. /\ Len(queue) \in Nat \ {0}
        /\ cur' = queue[1]
        /\ Len(queue') = Len(queue) - 1
        /\ \A i \in 1..Len(queue') : queue'[i] = queue[i + 1]
    BY <1>3 DEF Accept, TypeOK
  <2>2. \A i \in 1..Len(queue') : i + 1 \in 1..Len(queue) /\ i + 1 # 1
    BY <2>1
  <2>3. cur' # NoConn
    BY <2>1, QueueType, MarkersAssumption
  <2>4. 1 \in 1..Len(queue)
    BY <2>1
  <2>5. Matched(cur)'
    BY <1>3, <2>1, <2>4 DEF Accept, ConnInv, Matched
  <2>6. ASSUME NEW i \in 1..Len(queue')
        PROVE  /\ Matched(queue[i])'
               /\ cur'.live /\ queue'[i].live => cur'.client # queue'[i].client
               /\ \A j \in 1..Len(queue') : i # j /\ queue'[i].live /\ queue'[j].live =>
                                                queue'[i].client # queue'[j].client
    <3>1. Matched(queue[i])'
      BY <1>3, <2>1, <2>2 DEF Accept, ConnInv, Matched
    <3>2. cur'.live /\ queue'[i].live => cur'.client # queue'[i].client
      BY <2>1, <2>2, <2>4 DEF ConnInv
    <3>3. ASSUME NEW j \in 1..Len(queue'), i # j
          PROVE  queue'[i].live /\ queue'[j].live => queue'[i].client # queue'[j].client
      <4>1. i + 1 # j + 1
        BY <2>1, <3>3
      <4> QED
        BY <2>1, <2>2, <4>1 DEF ConnInv
    <3> QED
      BY <3>1, <3>2, <3>3
  <2>7. pc' = "read" /\ cl' = cl
    BY <1>3 DEF Accept
  <2> QED
    BY <2>3, <2>5, <2>6, <2>7 DEF ConnInv
<1>4. CASE Exit
  <2>1. cur' = NoConn /\ pc' = "down" /\ Len(queue') = 0
    BY <1>4 DEF Exit, ConnInv
  <2>2. \A i \in 1..Len(queue) : queue[i].live => cl[queue[i].client].sent
    BY DEF ConnInv, Matched
  <2>3. \A c \in Clients : cl'[c].reply # "none" => cl'[c].sent
    BY <1>4, <2>2, QueueType DEF Exit, ConnInv, TypeOK, Client
  <2> QED
    BY <2>1, <2>3 DEF ConnInv
<1>5. CASE BeginSave /\ pc' = "saving" /\ UNCHANGED <<cur, cl>>
  BY <1>5 DEF BeginSave, Handling, ConnInv, Matched
<1>6. ASSUME \E r \in Replies : Answer(r), queue' = queue,
             pc \in {"read", "handle", "loading", "saving"}
      PROVE  ConnInv'
  BY <1>6, AnswerConn DEF ConnInv
<1>7. CASE ReadFails
  BY <1>6, <1>7 DEF ReadFails, Replies
<1>8. CASE Ping \/ Status \/ Lock \/ Stop \/ Refuse
  BY <1>6, <1>8 DEF Ping, Status, Lock, Stop, Refuse, Handling, Replies
<1>9. CASE Read
  BY <1>6, <1>9 DEF Read, Handling, Replies
<1>10. CASE BeginSave /\ Answer("error")
  BY <1>6, <1>10 DEF BeginSave, Handling, Replies
<1>11. CASE Finish
  BY <1>6, <1>11 DEF Finish, Unlock, UnlockFails, Save, Replies
<1> QED
  BY <1>1, <1>2, <1>3, <1>4, <1>5, <1>7, <1>8, <1>9, <1>10, <1>11
  DEF AgentSteps, Loop, Handle, BeginSave

LEMMA ConnClientStep ==
    ASSUME TypeOK, ConnInv, NEW c \in Clients,
           ClientSteps(c)
    PROVE  ConnInv'
<1>1. CASE Run(c) \/ WriteDirectly(c) \/ Cancel(c) \/ Fallback(c) \/ FallbackSave(c)
                \/ ConnectFails(c) \/ Receive(c)
  <2>1. ~(cl[c].sent /\ cl[c].reply = "none" /\ cl[c].req \in Requests)
    BY <1>1 DEF Run, WriteDirectly, Cancel, Fallback, FallbackSave, ConnectFails, Receive, Requests, Data, Reads
  <2>2. \E x : (x.reply # "none" => x.sent) /\ cl' = [cl EXCEPT ![c] = x]
    <3>1. ASSUME NEW cmd, NEW q, NEW w, NEW o PROVE Pending(cmd, q, w, o).reply = "none"
      BY DEF Pending
    <3>2. ASSUME NEW res PROVE Advanced(c, res).reply = "none"
      BY <3>1 DEF Advanced
    <3>3. CASE Run(c) \/ WriteDirectly(c)
      BY <3>1, <3>3 DEF Run, WriteDirectly
    <3>4. CASE Cancel(c) \/ ConnectFails(c) \/ Receive(c)
      BY <3>2, <3>4 DEF Cancel, ConnectFails, Receive
    <3>5. CASE Fallback(c) \/ FallbackSave(c)
      <4>1. PICK r : cl' = [cl EXCEPT ![c].req = r]
        BY <3>5 DEF Fallback, FallbackSave
      <4> DEFINE x == [cl[c] EXCEPT !.req = r]
      <4>2. x.reply # "none" => x.sent
        BY DEF ConnInv, TypeOK, Client
      <4>3. cl' = [cl EXCEPT ![c] = x]
        BY <4>1
      <4> QED
        BY <4>2, <4>3
    <3> QED
      BY <1>1, <3>3, <3>4, <3>5
  <2>3. UNCHANGED <<pc, queue, cur>>
    BY <1>1 DEF Run, WriteDirectly, Cancel, Fallback, FallbackSave, ConnectFails, Receive, agent
  <2> QED
    BY <2>1, <2>2, <2>3, ClosedConn
<1>2. CASE Send(c)
  <2> DEFINE n == Len(queue) + 1
  <2>1. PICK pw \in Passwords \cup {NoPassword} :
            queue' = Append(queue, [client |-> c, req |-> cl[c].req, pw |-> pw,
                                    live |-> cl[c].req # "stop"])
    BY <1>2 DEF Send
  <2> DEFINE new == [client |-> c, req |-> cl[c].req, pw |-> pw,
                     live |-> cl[c].req # "stop"]
  <2>2. /\ Len(queue') = n
        /\ \A i \in 1..Len(queue) : queue'[i] = queue[i]
        /\ queue'[n].client = c
        /\ queue'[n].req = cl[c].req
        /\ queue'[n].live => cl[c].req # "stop"
    <3>1. new.client = c /\ new.req = cl[c].req /\ (new.live => cl[c].req # "stop")
      OBVIOUS
    <3>2. new \in Conn
      BY <1>2 DEF Send, Conn
    <3>3. queue' = Append(queue, new) /\ queue \in Seq(Conn)
      BY <2>1 DEF TypeOK
    <3> HIDE DEF new
    <3>4. Len(queue') = n /\ queue'[n] = new /\ \A i \in 1..Len(queue) : queue'[i] = queue[i]
      BY <3>2, <3>3
    <3> QED
      BY <3>1, <3>4
  <2>3. UNCHANGED <<pc, cur>>
    BY <1>2 DEF Send, agent
  <2>4. ASSUME NEW conn \in Conn, Matched(conn), conn.live
        PROVE  conn.client # c /\ Matched(conn)'
    BY <1>2, <2>4 DEF Send, Matched, TypeOK, Conn
  <2>5. ASSUME NEW i, i = n PROVE Matched(queue[i])'
    <3>1. queue'[n].live => cl'[c] = [cl[c] EXCEPT !.sent = TRUE] /\ cl[c].reply = "none"
      BY <1>2, <2>2 DEF Send, TypeOK, ConnInv
    <3>2. cl[c] \in Client
      BY DEF TypeOK
    <3> QED
      BY <2>2, <2>5, <3>1, <3>2 DEF Matched, Client
  <2>6. cur # NoConn => Matched(cur)' /\ (cur.live => cur.client # c)
    BY <2>3, <2>4 DEF ConnInv, TypeOK, Matched
  <2>7. \A i \in 1..Len(queue) : Matched(queue[i])' /\ (queue[i].live => queue[i].client # c)
    BY <2>2, <2>4, QueueType DEF ConnInv, Matched
  <2>8. \A i \in 1..n : i \in 1..Len(queue) \/ i = n
    BY QueueType
  <2>9. \A d \in Clients : cl'[d].reply # "none" => cl'[d].sent
    BY <1>2 DEF Send, ConnInv, TypeOK, Client, Advanced, Pending
  <2>10. \A i \in 1..Len(queue) : cur # NoConn /\ cur.live /\ queue[i].live =>
                                    cur.client # queue[i].client
    BY DEF ConnInv
  <2>11. \A i, j \in 1..Len(queue) : i # j /\ queue[i].live /\ queue[j].live =>
                                    queue[i].client # queue[j].client
    BY DEF ConnInv
  <2>12. \A i \in 1..n :
            /\ Matched(queue[i])'
            /\ cur # NoConn /\ cur.live /\ queue'[i].live => cur.client # queue'[i].client
    BY <2>2, <2>5, <2>6, <2>7, <2>8, <2>10
  <2>13. \A i, j \in 1..n : i # j /\ queue'[i].live /\ queue'[j].live =>
                                    queue'[i].client # queue'[j].client
    BY <2>2, <2>7, <2>8, <2>11
  <2> QED
    BY <2>2, <2>3, <2>6, <2>9, <2>12, <2>13 DEF ConnInv
<1>3. CASE TimeOut(c)
  <2>1. /\ Len(queue') = Len(queue)
        /\ \A i \in 1..Len(queue) : queue'[i] = Abandoned(queue[i], c)
    BY <1>3, QueueType, AbandonedType DEF TimeOut
  <2>2. cur' = (IF cur = NoConn THEN NoConn ELSE Abandoned(cur, c)) /\ pc' = pc
    BY <1>3 DEF TimeOut, agent
  <2>3. ASSUME NEW conn \in Conn
        PROVE  /\ Abandoned(conn, c) \in Conn
               /\ Abandoned(conn, c).client = conn.client
               /\ Abandoned(conn, c).req = conn.req
               /\ Abandoned(conn, c).live => conn.live /\ conn.client # c
    BY DEF Abandoned, Conn
  <2>4. ASSUME NEW conn \in Conn, Matched(conn), NEW b, b = Abandoned(conn, c)
        PROVE  b.live => /\ cl'[b.client].sent
                         /\ cl'[b.client].reply = "none"
                         /\ cl'[b.client].req = b.req
    BY <1>3, <2>3, <2>4 DEF TimeOut, Matched, TypeOK, Conn
  <2>5. cur # NoConn => cur' # NoConn /\ cur' = Abandoned(cur, c) /\ Matched(cur)'
    BY <2>2, <2>3, <2>4, MarkersAssumption DEF ConnInv, TypeOK, Matched
  <2>6. \A i \in 1..Len(queue) : Matched(queue[i])'
    BY <2>1, <2>4, QueueType DEF ConnInv, Matched
  <2>7. cur = NoConn => cur' = NoConn
    BY <2>2
  <2>8. \A i \in 1..Len(queue) : cur' # NoConn /\ cur'.live /\ queue'[i].live =>
                                    cur'.client # queue'[i].client
    BY <2>1, <2>2, <2>3, <2>5, QueueType DEF ConnInv, TypeOK
  <2>9. \A i, j \in 1..Len(queue) : i # j /\ queue'[i].live /\ queue'[j].live =>
                                    queue'[i].client # queue'[j].client
    BY <2>1, <2>3, QueueType DEF ConnInv
  <2>10. cur # NoConn => cur'.req = cur.req
    BY <2>3, <2>5 DEF TypeOK
  <2>11. \A d \in Clients : cl'[d].reply # "none" => cl'[d].sent
    BY <1>3 DEF TimeOut, ConnInv, TypeOK, Advanced, Pending
  <2> QED
    BY <2>1, <2>2, <2>5, <2>6, <2>7, <2>8, <2>9, <2>10, <2>11 DEF ConnInv, Data, Reads
<1> QED
  BY <1>1, <1>2, <1>3 DEF ClientSteps, Proceed

LEMMA ConnCorrect == Spec => [](TypeOK /\ ConnInv)
<1>1. Init => ConnInv
  BY DEF Init, ConnInv, Pending
<1>2. TypeOK /\ ConnInv /\ [Next]_vars => ConnInv'
  <2> SUFFICES ASSUME TypeOK, ConnInv, [Next]_vars PROVE ConnInv'
    OBVIOUS
  <2>1. CASE UNCHANGED vars
    BY <2>1 DEF vars, ConnInv, Matched
  <2> QED
    BY <2>1, ConnAgentStep, ConnClientStep DEF Next, AgentSteps, ClientSteps
<1> QED
  BY <1>1, <1>2, TypeCorrect, PTL DEF Spec

-----------------------------------------------------------------------------
(* Direct writes. *)

\* A step of the agent that changes its session, or the file it is loading, to
\* something newer keeps it fresh for everyone.
AllStayFresh == \A c \in Clients : Fresh(c) => Fresh(c)'

\* A reply other than OK says nothing about the write; OK to a lock request
\* must mean that the agent is fresh, and OK never answers a ping.
LEMMA AnswerWrite ==
    ASSUME TypeOK, ConnInv, WriteInv, cur # NoConn, NEW r \in Replies, Answer(r),
           edits' = edits, AllStayFresh,
           r = "ok" => cur.req # "ping",
           r = "ok" /\ cur.req = "lock" => \A c \in Clients : Fresh(c)'
    PROVE  WriteInv'
<1> SUFFICES ASSUME NEW c \in Clients
             PROVE  /\ cl'[c].wrote <= edits'
                    /\ cl'[c].cmd = "write" =>
                        /\ cl'[c].req \in {"ping", "lock", "end"}
                        /\ cl'[c].req = "ping" => cl'[c].reply # "ok"
                        /\ cl'[c].req = "lock" /\ cl'[c].reply = "ok" => Fresh(c)'
                        /\ cl'[c].req = "end" => cl'[c].reply = "none" /\ ~cl'[c].sent
                        /\ cl'[c].req = "end" /\ cl'[c].out = "ok" => Fresh(c)'
  BY DEF WriteInv
<1>1. cur \in Conn /\ cl \in [Clients -> Client]
  BY DEF TypeOK
<1>2. CASE cl'[c] = cl[c]
  BY <1>2 DEF WriteInv, AllStayFresh
<1>3. CASE cl'[c] # cl[c]
  <2>1. c = cur.client /\ cur.live /\ cl'[c] = [cl[c] EXCEPT !.reply = r]
    BY <1>1, <1>3 DEF Answer
  <2>2. cl[c].req = cur.req /\ cur.req \in Requests
    BY <1>1, <2>1 DEF ConnInv, Matched, Conn
  <2>3. /\ cl'[c].cmd = cl[c].cmd /\ cl'[c].req = cl[c].req /\ cl'[c].wrote = cl[c].wrote
        /\ cl'[c].reply = r /\ cl[c].req # "end"
    BY <1>1, <2>1, <2>2 DEF Client, Requests, Data, Reads
  <2> QED
    BY <2>2, <2>3 DEF WriteInv
<1> QED
  BY <1>2, <1>3

LEMMA WriteAgentStep ==
    TypeOK /\ ConnInv /\ WriteInv /\ AgentSteps
        => WriteInv'
<1> SUFFICES ASSUME TypeOK, ConnInv, WriteInv,
                    AgentSteps
             PROVE  WriteInv'
  OBVIOUS
<1>1. CASE UNCHANGED <<edits, cl>> /\ AllStayFresh
  BY <1>1 DEF WriteInv, AllStayFresh
<1>2. CASE Start \/ Signal \/ PollReturns \/ PollInterrupted \/ Accept \/ ReadPacket
  BY <1>1, <1>2 DEF Start, Signal, PollReturns, PollInterrupted, Accept, ReadPacket,
                    AllStayFresh, Fresh, file
<1>3. CASE CheckIdle
  BY <1>1, <1>3 DEF CheckIdle, Purge, AllStayFresh, Fresh, file
<1>4. CASE BeginUnlock
  <2>1. ASSUME NEW c \in Clients, Fresh(c) PROVE Fresh(c)'
    <3>1. loading'.seen = edits /\ UNCHANGED <<session, cl>>
      BY <1>4 DEF BeginUnlock
    <3>2. edits \in Nat /\ cl[c].wrote \in Nat /\ cl[c].wrote <= edits
      BY DEF WriteInv, TypeOK, Client
    <3> QED
      BY <2>1, <3>1, <3>2 DEF Fresh
  <2> QED
    BY <1>1, <1>4, <2>1 DEF BeginUnlock, AllStayFresh, file
<1>5. CASE BeginSave /\ pc' = "saving" /\ UNCHANGED <<cur, cl>>
  BY <1>1, <1>5 DEF BeginSave, AllStayFresh, Fresh, file
<1>6. CASE Tick
  <2>1. ASSUME NEW c \in Clients
        PROVE  /\ cl'[c].cmd = cl[c].cmd /\ cl'[c].req = cl[c].req
               /\ cl'[c].wrote = cl[c].wrote /\ cl'[c].reply = cl[c].reply
               /\ cl'[c].out = cl[c].out /\ cl'[c].sent = cl[c].sent
    BY <1>6 DEF Tick, TypeOK, Client
  <2>2. UNCHANGED <<edits, session, loading, pc>>
    BY <1>6 DEF Tick, file
  <2> QED
    BY <2>1, <2>2 DEF WriteInv, Fresh
<1>7. CASE Exit
  <2>1. ASSUME NEW c \in Clients
        PROVE  /\ cl'[c].cmd = cl[c].cmd /\ cl'[c].req = cl[c].req
               /\ cl'[c].wrote = cl[c].wrote /\ cl'[c].out = cl[c].out
               /\ cl'[c].sent = cl[c].sent
               /\ cl'[c].reply = cl[c].reply \/ (cl'[c].reply = "closed" /\ cl[c].req # "end")
    <3>1. CASE cl'[c] = cl[c]
      BY <3>1
    <3>2. CASE cl'[c] # cl[c]
      <4>1. PICK i \in DOMAIN queue : queue[i].client = c /\ queue[i].live
        BY <1>7, <3>2 DEF Exit
      <4>2. cl[c].req \in Requests
        BY <4>1, QueueType DEF ConnInv, Matched, Conn
      <4>3. cl'[c] = [cl[c] EXCEPT !.reply = "closed"] /\ cl[c] \in Client
        BY <1>7, <3>2 DEF Exit, TypeOK
      <4> QED
        BY <4>2, <4>3 DEF Client, Requests, Data, Reads
    <3> QED
      BY <3>1, <3>2
  <2>2. edits' = edits /\ session' = Locked /\ pc' = "down"
    BY <1>7 DEF Exit, Purge, file
  <2> QED
    BY <2>1, <2>2 DEF WriteInv, Fresh
<1>8. ASSUME cl' \in [Clients -> Client], NEW r \in Replies, Answer(r), edits' = edits,
             pc \in {"read", "handle", "loading", "saving"},
             \/ session' = session
             \/ session' = Locked
             \/ pc = "loading" /\ session' = loading,
             r = "ok" => cur.req # "ping" /\ (cur.req = "lock" => session' = Locked)
      PROVE  WriteInv'
  <2>1. cur # NoConn /\ pc' = "loop"
    BY <1>8 DEF ConnInv, Answer
  <2>2. ASSUME NEW c \in Clients PROVE cl'[c].wrote = cl[c].wrote
    BY <1>8 DEF Answer, TypeOK, Client
  <2>3. AllStayFresh
    BY <1>8, <2>1, <2>2 DEF AllStayFresh, Fresh
  <2>4. r = "ok" /\ cur.req = "lock" => \A c \in Clients : Fresh(c)'
    BY <1>8, <2>1 DEF Fresh
  <2> QED
    BY <1>8, <2>1, <2>3, <2>4, AnswerWrite
<1> USE DEF file, Purge
<1>9. cl' \in [Clients -> Client]
  BY AgentType DEF TypeOK
<1>10. CASE ReadFails
  BY <1>8, <1>9, <1>10 DEF ReadFails, Replies
<1>11. CASE Ping
  BY <1>8, <1>9, <1>11 DEF Ping, Handling, Replies
<1>12. CASE Status
  BY <1>8, <1>9, <1>12 DEF Status, Handling, Replies
<1>13. CASE Lock
  BY <1>8, <1>9, <1>13 DEF Lock, Handling, Replies
<1>14. CASE Stop
  BY <1>8, <1>9, <1>14 DEF Stop, Handling, Replies
<1>15. CASE Refuse
  BY <1>8, <1>9, <1>15 DEF Refuse, Handling, Replies
<1>16. CASE Read
  BY <1>8, <1>9, <1>16 DEF Read, Handling, Replies, Reads
<1>17. CASE BeginSave /\ Answer("error")
  BY <1>8, <1>9, <1>17 DEF BeginSave, Handling, Replies
<1>18. CASE Unlock
  BY <1>8, <1>9, <1>18 DEF Unlock, ConnInv, Replies
<1>19. CASE UnlockFails
  BY <1>8, <1>9, <1>19 DEF UnlockFails, Replies
<1>20. CASE Save
  BY <1>8, <1>9, <1>20 DEF Save, ConnInv, Replies, Data, Reads
<1> QED
  BY <1>2, <1>3, <1>4, <1>5, <1>6, <1>7, <1>10, <1>11, <1>12, <1>13, <1>14, <1>15,
     <1>16, <1>17, <1>18, <1>19, <1>20
  DEF AgentSteps, Loop, Handle, Finish, BeginSave

\* What becomes of a direct write's ping and lock requests.
LEMMA AdvancedWrite ==
    ASSUME TypeOK, NEW c \in Clients, NEW res \in Replies
    PROVE  /\ Advanced(c, res).cmd = cl[c].cmd
           /\ Advanced(c, res).wrote = cl[c].wrote
           /\ Advanced(c, res).reply = "none" /\ ~Advanced(c, res).sent
           /\ cl[c].cmd = "write" /\ cl[c].req \in {"ping", "lock"} =>
                \/ cl[c].req = "ping" /\ Advanced(c, res).req = "lock"
                \/ Advanced(c, res).req = "end" /\ Advanced(c, res).out = res
BY DEF Advanced, Pending, After, Shown, Data, Reads

LEMMA WriteClientStep ==
    ASSUME TypeOK, ConnInv, WriteInv, NEW c \in Clients,
           ClientSteps(c)
    PROVE  WriteInv'
<1>1. UNCHANGED <<pc, session, loading>> /\ edits' \in Nat /\ edits \in Nat /\ edits <= edits'
  BY DEF ClientSteps, Run, WriteDirectly, Cancel, Proceed, Fallback, FallbackSave, Send,
         ConnectFails, Receive, TimeOut,
         agent, file, TypeOK
<1>2. \A d \in Clients \ {c} : cl'[d] = cl[d]
  BY DEF ClientSteps, Run, WriteDirectly, Cancel, Proceed, Fallback, FallbackSave, Send,
         ConnectFails, Receive, TimeOut,
         TypeOK
<1>3. cl[c] \in Client /\ cl \in [Clients -> Client]
  BY DEF TypeOK
<1>4. /\ cl[c].wrote \in Nat /\ cl[c].wrote <= edits
      /\ cl[c].cmd = "write" => cl[c].req \in {"ping", "lock", "end"}
  BY <1>3 DEF WriteInv, Client
<1>5. ASSUME cl'[c].wrote <= edits',
             cl'[c].cmd = "write" =>
                /\ cl'[c].req \in {"ping", "lock", "end"}
                /\ cl'[c].req = "ping" => cl'[c].reply # "ok"
                /\ cl'[c].req = "lock" /\ cl'[c].reply = "ok" => Fresh(c)'
                /\ cl'[c].req = "end" => cl'[c].reply = "none" /\ ~cl'[c].sent
                /\ cl'[c].req = "end" /\ cl'[c].out = "ok" => Fresh(c)'
      PROVE  WriteInv'
  <2>1. ASSUME NEW d \in Clients \ {c}
        PROVE  /\ cl'[d].wrote <= edits'
               /\ Fresh(d)' <=> Fresh(d)
    <3>1. cl[d].wrote \in Nat /\ cl[d].wrote <= edits
      BY DEF WriteInv, TypeOK, Client
    <3> QED
      BY <1>1, <1>2, <3>1 DEF Fresh
  <2> QED
    BY <1>2, <1>5, <2>1 DEF WriteInv
<1>6. ASSUME NEW res \in Replies, cl'[c] = Advanced(c, res),
             cl[c].cmd = "write" => cl[c].req # "end",
             cl[c].cmd = "write" /\ res = "ok" => cl[c].req = "lock" /\ Fresh(c)
      PROVE  WriteInv'
  <2>1. Fresh(c)' <=> Fresh(c)
    BY <1>1, <1>6, AdvancedWrite DEF Fresh
  <2>2. cl'[c].wrote <= edits'
    BY <1>1, <1>4, <1>6, AdvancedWrite
  <2> QED
    BY <1>4, <1>5, <1>6, <2>1, <2>2, AdvancedWrite
<1>7. CASE Run(c)
  <2>1. PICK cmd \in Commands \ {"write"}, q \in Requests :
            cl' = [cl EXCEPT ![c] = Pending(cmd, q, 0, "none")]
    BY <1>7 DEF Run, Requests
  <2>2. cl'[c].cmd # "write" /\ cl'[c].wrote = 0
    BY <1>3, <2>1 DEF Pending
  <2> QED
    BY <1>1, <1>5, <2>2
<1>8. CASE WriteDirectly(c)
  <2>1. /\ cl'[c].req = "ping" /\ cl'[c].reply = "none" /\ cl'[c].wrote = edits + 1
        /\ edits' = edits + 1
    BY <1>3, <1>8 DEF WriteDirectly, Pending
  <2> QED
    BY <1>1, <1>5, <2>1
<1>9. CASE Cancel(c)
  BY <1>3, <1>6, <1>9 DEF Cancel, Replies
<1>10. CASE Fallback(c) \/ FallbackSave(c)
  <2>1. cl'[c].cmd = cl[c].cmd /\ cl'[c].wrote = cl[c].wrote /\ cl[c].cmd # "write"
    BY <1>3, <1>4, <1>10 DEF Fallback, FallbackSave, Client
  <2> QED
    BY <1>1, <1>4, <1>5, <2>1
<1>11. CASE Send(c)
  <2>1. CASE cl[c].req = "stop"
    BY <1>3, <1>4, <1>6, <1>11, <2>1 DEF Send, Replies
  <2>2. CASE cl[c].req # "stop"
    <3>1. /\ cl'[c].cmd = cl[c].cmd /\ cl'[c].req = cl[c].req /\ cl'[c].wrote = cl[c].wrote
          /\ cl'[c].reply = cl[c].reply /\ cl'[c].out = cl[c].out /\ cl[c].req # "end"
      BY <1>3, <1>11, <2>2 DEF Send, Client, Requests, Data, Reads
    <3>2. Fresh(c)' <=> Fresh(c)
      BY <1>1, <3>1 DEF Fresh
    <3>3. cl'[c].wrote <= edits'
      BY <1>1, <1>4, <3>1
    <3> QED
      BY <1>5, <3>1, <3>2, <3>3 DEF WriteInv
  <2> QED
    BY <2>1, <2>2
<1>12. CASE ConnectFails(c)
  BY <1>3, <1>6, <1>12 DEF ConnectFails, Replies, Requests, Data, Reads
<1>13. CASE Receive(c)
  <2>1. cl[c].reply \in Replies
    BY <1>3, <1>13 DEF Receive, Client
  <2>2. cl'[c] = Advanced(c, cl[c].reply)
    BY <1>3, <1>13 DEF Receive
  <2>3. cl[c].cmd = "write" => cl[c].req # "end"
    BY <1>13 DEF Receive, WriteInv
  <2>4. cl[c].cmd = "write" /\ cl[c].reply = "ok" => cl[c].req = "lock" /\ Fresh(c)
    BY <2>3 DEF WriteInv
  <2> QED
    BY <1>6, <2>1, <2>2, <2>3, <2>4
<1>14. CASE TimeOut(c)
  <2>1. cl[c].cmd = "write" => cl[c].req # "end"
    BY <1>14 DEF TimeOut, WriteInv
  <2> QED
    BY <1>3, <1>6, <1>14, <2>1 DEF TimeOut, Replies
<1> QED
  BY <1>7, <1>8, <1>9, <1>10, <1>11, <1>12, <1>13, <1>14 DEF ClientSteps, Proceed

LEMMA WriteCorrect == Spec => []WriteInv
<1>1. Init => WriteInv
  <2> SUFFICES ASSUME Init PROVE WriteInv
    OBVIOUS
  <2>1. ASSUME NEW c \in Clients PROVE cl[c].cmd # "write" /\ cl[c].wrote <= edits
    <3>1. cl[c].cmd = "none" /\ cl[c].wrote = 0 /\ edits = 0
      BY DEF Init, Pending
    <3> QED
      BY <3>1
  <2> QED
    BY <2>1 DEF WriteInv
<1>2. TypeOK /\ ConnInv /\ WriteInv /\ [Next]_vars => WriteInv'
  <2> SUFFICES ASSUME TypeOK, ConnInv, WriteInv, [Next]_vars PROVE WriteInv'
    OBVIOUS
  <2>1. CASE UNCHANGED vars
    BY <2>1 DEF vars, WriteInv, Fresh
  <2> QED
    BY <2>1, WriteAgentStep, WriteClientStep DEF Next, AgentSteps, ClientSteps
<1> QED
  BY <1>1, <1>2, ConnCorrect, PTL DEF Spec

\* Once the shell or the rekey command has read OK for its lock request, the
\* agent holds nothing from before the write and installs nothing from before
\* it, with any number of clients that unlock, time out and try again.
THEOREM LockPurges == Spec => []PurgedAfterLock
<1>1. WriteInv => PurgedAfterLock
  BY DEF WriteInv, PurgedAfterLock
<1> QED
  BY <1>1, WriteCorrect, PTL

=============================================================================
