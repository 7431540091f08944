# DuckPass: TLA+ models, model checking and proofs

DuckPass is a local password manager: a command line tool and shell, a
background agent that keeps an unlocked vault behind a UNIX socket, and a
desktop application that talks to the agent.  All of them read and write one
encrypted file.  This directory models the parts whose correctness depends on
the order of events: processes that share the vault file, crashes and power
losses, an agent whose clients time out, agents that come and go, a worker
process under a deadline, and a user who types at a terminal that a signal may
interrupt.  TLC checks the models on small instances; TLAPS proves the central
properties for every value of the constants.

## 1. Inventory

### Components

| Component | State it keeps | Operations | What must hold |
|---|---|---|---|
| Vault sessions (`src/vault_service.cpp`) | `vault_`, `master_password_`, `deleted_services_`; on disk the vault, `.bak` and `.lock` | constructor, `add_entry`, `update_entry`, `delete_entry`, `save`, `rekey`, reads | saves of several processes do not lose each other's entries; a call that returns took effect; a session that missed a rekey never writes |
| Storage layer (`src/local_storage.cpp`) | files, the flock | `read_file`, `acquire_file_lock`, `write_file_atomic` | the vault is whole at every instant and after power loss; a returned write is durable; no temporary files stay behind |
| Vault file (`src/vault.cpp`) | the byte format | `serialize`, `deserialize`, `load_vault`, `save_vault` | reading gives back what was written; a wrong password or damaged file is rejected |
| init command (`src/init_command.cpp`) | none | check, prompt, save | an existing vault is not replaced |
| Agent (`src/agent_server.cpp`) | the unlocked `VaultService`, `last_activity_`, `running_`, the listening socket | the poll loop, idle check, ten request handlers | an idle agent locks itself; replies reflect the session; STOP and signals end it |
| Agent startup (`src/daemon_main.cpp`, `src/agent_command.cpp`) | the socket path | ping, fork, bind, cleanup | one agent per socket path; the path belongs to a live agent |
| IPC client (`src/ipc.cpp`) | none between calls | one connection per request, 2 s timeouts | a success reply means the request was done |
| CLI commands (`src/*_command.cpp`) | none between calls | through the agent if it answers a ping, directly otherwise; lock the agent after direct writes | the agent does not keep serving what was changed behind its back |
| Interactive shell (`src/shell_command.cpp`) | its session, the answers to its prompts, the names it completes | one command after the other, prompt by prompt | a command changes only what it names; entries are whole |
| Terminal input (`src/terminal_utils.cpp`) | the mode of the terminal, two guards, the signal handlers | read a line with completion, read a password | the mode is put back on every way out; the screen shows the line |
| Protected memory (`include/duckpass/secure_allocator.h`) | buffers of secrets | `append`, `assign`, `erase`, `pop_back` | what was deleted does not stay in memory |
| Export command (`src/export_command.cpp`) | none | CSV and JSON | a reader of the format gets the entries back |
| Entropy evaluator and worker (`src/entropy_evaluator.cpp`, `src/entropy_worker_main.cpp`) | a child process and two pipes | spawn, write, read, deadline, reap | ends within the deadline, leaves no zombie, survives SIGPIPE |
| Audit engine, HIBP client (`src/audit_engine.cpp`, `src/hibp_checker.cpp`) | threads of one audit, a semaphore | `run_audit`, `check_password` | one failing request does not spoil the report; no permit is lost; nothing outlives the call |
| TOTP, Base32, fuzzy search | none | pure functions | agree with their definitions |
| Clipboard (`src/clipboard_handler.cpp`, `services/clipboard.ts`) | the system clipboard, a timer | copy, clear later | the clear does not destroy newer contents, and does happen |
| Desktop dashboard and Tauri backend | React state, requests in flight | poll status, list, select, add, delete, lock | replies that come late do not show the wrong or a locked entry |
| Cryptography, configuration, vendored code | - | - | outside these models |

### Interactions

A *session* is one `VaultService` object.  Every CLI command that works
without the agent, every shell and the agent itself owns one, each in its own
process.  Sessions communicate only through the vault file, under an exclusive
`flock` on `<vault>.lock` that is taken by `save` and `rekey` and by nothing
else: loading the vault and the init command do not take it.  CLI commands and
the desktop send the agent one request per connection; the agent handles
requests one after the other in one thread.  The shell and `rekey` write the
file directly and then ask the agent to lock itself.

### What is hard here

The sessions interleave at every step between reading the file and replacing
it, and each works on a copy that others have made stale.  A save has several
steps, each of which may fail, and memory is changed before the first of them.
A power loss may undo any step that was not synced.  The agent's clients time
out while it works, and two agents may start on one path.  An evaluation talks
to a process that may hang or die at any byte, inside a loop whose threads wait
for a service that fails.  A guard of the terminal is several system calls, and a
signal may come between any two of them.  `PROJECT.json` lists these hazards at the lines where they
bite, with the properties that cover them.

## 2. Modules

| Module | Contents |
|---|---|
| `VaultStore` | sessions that share one vault file: load, mutate, lock, merge, stage the backup, rename, return, with I/O errors and crashes |
| `ReplicaStore` | what the sessions promise together: a last-writer-wins replicated store, with no locks, files or failures |
| `MCVaultStore` | symmetry for TLC, and `DistinctSpec`, `VaultStore` restricted to writes whose time stamps differ |
| `MCSessions` | `DistinctSpec` with the services that failed calls left in memory, and fairness |
| `VaultStoreProofs` | proofs about `VaultStore` and of the refinement of `ReplicaStore` |
| `AtomicWrite` | `write_file_atomic` and its two callers on a disk that loses unsynced data |
| `AtomicWriteProofs` | proofs about `AtomicWrite` |
| `Agent` | the agent's event loop and handlers, the CLI commands and the desktop as its clients, time and timeouts |
| `MCAgent` | symmetry for TLC |
| `AgentProofs` | proofs about `Agent` |
| `AgentStartup` | start commands and agents that share one socket path, signals, stops and kills |
| `AgentStartupProofs` | proofs about `AgentStartup` |
| `EntropyWorker` | `EntropyEvaluator::evaluate` and its worker, pipes, deadline and SIGPIPE |
| `Audit` | `run_audit` on top of `EntropyWorker`: the loop, the threads, the semaphore, the report |
| `MCAudit` | vaults to audit for TLC |
| `AuditProofs` | proofs about `Audit` and `EntropyWorker` |
| `SecureString` | the buffer of a secret, with the memory behind its text |
| `SecureStringProofs` | lemmas on `SecureString` |
| `Terminal` | the two guards call by call and the line editor key by key, on `SecureString` |
| `Shell` | the interactive shell on top of `Terminal` |
| `ShellProofs` | proofs about `Shell` and `Terminal` |
| `Formats` | the body of the vault file and the CSV and JSON exports, with their readers |
| `MCShell` | an instance of `Shell` for TLC, whose entries are also put through `Formats` |
| `FormatsProofs` | proofs about `Formats`, and about the entries of a shell session in it |

### VaultStore and the code

`mem[s]`, `key[s]` and `deleted[s]` are `vault_`, `master_password_` and
`deleted_services_`; `vault` is the file, reduced to the password that opens it
and its entries; `bakKey` is `.bak`, reduced to the password that opens it;
`lock` is the holder of the flock; `clock` is `std::time`.  An entry is a value
per field and its `last_updated`.  `call[s]` is the frame of the operation in
progress.

An operation is a chain of actions.  `AddEntry`, `UpdateEntry`, `DeleteEntry`
and `Rekey` are the code before the lock: checks against the session's own
copy, the time stamp, the change in memory.  `AcquireLock` is the blocking
`flock`; `MergeDisk` is `merge_disk_state_with_lock_held` and `MergeRejected`
its exception when the file no longer opens with the session's password;
`StageBackup` or `StageRekey` write `.bak`; `Rename` replaces the vault;
`Return` is the rest.  `IoFails` is any exception between: it releases the lock
and, as in the code, leaves memory changed.  `Close` and `Crash` end a process.
The load in the constructor is one step because a renamed file is read whole.
Arguments that the code rejects change nothing and are left out.

### AtomicWrite and the code

For each of the names `vault` and `bak`, `files` is what a reader sees and
`survive` the contents a power loss may leave.  Creating the temporary file,
writing and syncing it, truncating and filling `.bak`, renaming and syncing the
directory are steps; between any two the process may be killed (`Kill`) or the
machine may lose power (`PowerLoss`), and each step that the code checks may
throw (`Throw`).  A rename adds a possible content, a directory sync removes
the older ones, and what was written in place and not synced may be torn.  Two
errors are ignored by the code and remembered in history variables: a directory
sync that fails (`unsynced`), and a temporary file that cannot be removed after
an exception (`ThrowKeepsTemp`, counted in `kept`).  A
blob is a write number and the number of the rekey that set its password.

The two models meet at the rename: `VaultStore` takes from `AtomicWrite` that a
write either replaces the whole file or leaves it alone.

### Agent and the code

`pc` is the place in `AgentServer::run`: at the top of the loop, in `poll`,
reading a packet, in a handler, or in the two handlers that take time, UNLOCK
(the key derivation, after the file was read) and ADD or DELETE (waiting for the
vault's file lock).  `session` is `vault_service_`, reduced to its password and
to the number of direct writes made before its file was read; `idle` is the time
since `last_activity_`; `stopping` is `running_` and `g_stop_requested` together.
Each handler is one action, or two when it waits.  `queue` is the kernel's
backlog and `cur` the accepted connection.

`cl[c]` is a command: the request it is at, whether it is sent, the reply in the
socket and the seconds it has waited.  `After` is the flow of the commands: ping,
then status, then unlock if the agent is locked, then the request, or the
standalone fallback if the ping fails; ping and lock after a direct write by the
shell or `rekey`.  The desktop sends single requests.  A client that times out
closes its connection, but what it sent stays with the agent and is served later
(`TimeOut`, `Abandoned`).  The command line sets its timeouts before it connects,
and gives up on a full backlog (`ConnectFails`); the desktop sets them after, and
waits.  The standalone fallback of a read only reads the file; that of `add` and
`delete` also waits for the vault's file lock (`FallbackSave`), which a hung agent
may be waiting for as well.

`poll` returns for a connection or after its second (`PollReturns`); a signal
interrupts it if it arrives inside (`PollInterrupted`), and one that arrives
between the test of the flag and `poll` is noticed only when `poll` returns.

Time is counted in seconds and passes only while the agent waits; the code
between two waits takes no time.  The 250 ms limit on reading a packet is
rounded up to a second.  A client that sends a packet byte by byte, which the
limit on each read would not stop, is outside the model: the repository's clients
send a packet at once.  Malformed packets and foreign users are left out: they
are answered or dropped without a change of state.

`Agent` and `VaultStore` meet at the session: what ADD and DELETE do once they
have the lock is `VaultStore`, and `Agent` keeps only whether they succeed.

### AgentStartup and the code

Each agent process comes with the `duckpass agent start` that launches it:
`cmd[a]` and `polls[a]` are the command, `pc[a]` the place of the process in
`main` and `AgentServer::run`, `path` whose socket is at the path.  The checks
of `is_agent_available`, the removal of a stale socket, `bind`, `listen`, the
installation of the handlers, the clearing of `g_stop_requested`, the loop, the
clean-up after it and the destructor's are steps.  A signal ends a process
without handlers and sets a flag in one with them; a signal between
`InstallHandlers` and `Arm` is forgotten, as in the code.  The loop is one step
here: what happens in it is `Agent`.  The history variable `raced` records that
two server objects existed at once, which the code's check does not exclude, and
`stuck` the sockets that a `remove()` whose error the code ignores has left where
they were (`Removes`).

### EntropyWorker, Audit and the code

`evaluate()` is the chain fork, block SIGPIPE, poll, write or read according to
`revents`, reap, restore; `fds`, `blocked` and `pending` are what it must put
back.  Bytes are units: a pipe holds a few, and reads and writes move any number
of them, so short ones happen.  The worker reads, answers, exits with an error,
crashes or hangs; `expired` is the deadline.  A worker that cannot start (the
binary or the dictionary is missing) exits early; what zxcvbn says of a password
is given with the password.

`Audit` runs one evaluation at a time in its loop (`EvaluateEntry`, then
`EvalStep` until it returns or throws) while the threads of earlier entries
make their requests: an answer, a rate limit that is retried, or a failure.  An
exception in the loop unwinds through the destructors of the futures, which wait
for their threads.  `is_reused` is not initialised in the code, so a row starts
with either value.

### SecureString, Terminal, Shell and the code

A `SecureString` is its memory up to the highest place written and the number of
characters in use; each operation says what it writes and what it cleanses, in
the code's order, which matters where a buffer is assigned a part of itself
(`assign_own`).  `Terminal` has one action per key: a byte of a character,
Backspace, TAB, the parts of an escape sequence, Enter.  The line is edited in
bytes and the screen in columns: Backspace takes one byte from the line and
erases one column (`Erased`), which for a character of several bytes
(`HighBytes`) is all of it.  The history variable `split`
records that this has happened since the line was last drawn.  A line fits on
one row of the screen.  `term` is the mode of the terminal,
`rawActive` and `echoActive` the flags the signal handlers look at, `handler` and
`saved` the handlers installed.  The constructors and destructors of the guards
are one action per system call or assignment, and `Signal`, SIGINT or SIGTERM,
may come between any two.

`Shell` has one action per command and per answer.  The answers already given
are `args`; `entries` and `master` are the session, `services` the completions,
which are refreshed only after a save that returned.  A save that throws leaves
the entry in the session.  Commands that only print are one action.  The other
processes that write the same vault are `VaultStore`, the lock request after a
change is `Agent`.

### Formats and the code

`serialize` and `deserialize` follow `vault.cpp` byte by byte with the widths of
the code, including the fields that older files lack.  `write_csv_field` guards
formulas with an apostrophe and doubles quotes; `write_json_string` escapes.  The
readers of CSV and JSON strings are external: they follow RFC 4180 and RFC 8259.
The braces and names around the JSON strings (`write_json`) are left out.
`MCShell` writes and reads back whatever entries the shell comes to hold.

## 3. Runs

| Run | Checks | Shows |
|---|---|---|
| `faults` | `TypeOK`, `MergeStaysCurrent`, `CallTookEffect`, `CommitMerges`, `ImplementsReplicaStore` | two sessions, every operation, I/O failures, crashes, two passwords; refinement of the abstract store |
| `sessions` | `OthersUntouched`, `SaveReturns` | with distinct time stamps, an operation on one service changes no other, unless an earlier call stored an entry and threw; whoever waits for the lock returns or throws, also when holders die |
| `atomic` | `TypeOK`, `VaultAlwaysWhole`, `TempsAccounted`, `AckedWriteSurvives`, `BackupNeverBehindRekey` | atomicity always; a temporary file stays only where a process was killed or could not remove it; durability, and the order of the two writes of rekey, until a directory sync fails |
| `agent_purge` | `TypeOK`, `PurgedAfterLock` | unlocks that race direct writes, abandoned requests, stops, signals and restarts |
| `agent_idle` | `ServedInTime`, `IdleSessionEnds`, `StopEnds` | the auto-lock under steady requests; stop requests and signals |
| `agent_hung` | `CommandsEnd` | commands end although the agent hangs, but for those that wait for the same file lock themselves and for a desktop that cannot connect (`Blocked`) |
| `agents` | `TypeOK`, `ServingIsReachable`, `StalePathIsReplaced`, `OnlyKillsLeaveSockets`, `StopIsObeyed`, `StartSettles` | agents that start, stop, fail and are killed on one path; without an overlap of two servers the serving one is the one clients reach |
| `audit` | `TypeOK`, `PermitsBalanced`, `NothingLeftBehind`, `ScoreOfWhole`, `ReportIsTrue`, `EvaluationEnds`, `AuditEnds` | a worker and a service that fail in every way: nothing is left behind, every audit ends, the report is right |
| `shell` | `TypeOK`, `BufferClean`, `ScreenMatches`, `TerminalRestored`, `EntriesAreWhole`, `VaultReadsBack`, `ExportReadsBack`, `TabKeepsInput`, `OnlyTheNamedEntry` | a user at every prompt, characters of several bytes, failing saves and signals; the entries that result survive the vault file and the exports |

Three runs check what a comment or a document says and find that the code does
otherwise:

| Run | Statement | What happens |
|---|---|---|
| `deletions` | `DeletionsAreMerged`, `README.md:59` | the merge never removes: a deleted entry comes back from another session's memory |
| `agent_rekey` | `PurgedAfterWrite`, comment at `src/rekey_command.cpp:41` | the agent is busy with an unlock, the ping times out, the agent is not locked and installs the session it read before the rekey |
| `audit_reuse` | `ReusedMarkIsTrue`, `README.md:20` | `is_reused` (`include/duckpass/audit_engine.h:20`) has no initial value and is set only for entries that share a password |

Other disagreements were seen while modelling and have no run:

- Vault sessions.  Two updates in one second have equal time stamps, and each
  session writes its own copy back (`src/vault_service.cpp:27`; the test at
  `tests/vault_service_test.cpp:214` sleeps to avoid it, and `sessions` assumes
  distinct seconds).  `add_entry` looks for the service before the lock and not
  again after the merge (`docs/ipc-protocol.md:223`).  `update_entry` writes whole
  entries, so an update of one field restores an old value of another
  (`README.md:59`).
- Storage.  `README.md:58` calls the lock "fail-fast", but `flock` is called without
  `LOCK_NB` (`src/local_storage.cpp:133`): a call waits for as long as another
  process holds the lock, for ever if that one is suspended.  A failed directory sync is ignored (comment at
  `src/local_storage.cpp:212`).  So is a failed removal of the temporary file
  (`src/local_storage.cpp:150`), which `README.md:62` says the guard "ensures".  `save` copies `.bak` in place and does not sync it
  (`README.md:18`).
- Vault file.  A file of the oldest format, without time stamps, is misread when
  it has two entries or more (`src/vault.cpp:155`).
- Agent.  The comment at `src/ipc.cpp:194` gives the timeouts "to prevent client
  hanging if daemon stalls": the desktop's `connect` has none
  (`apps/desktop/src-tauri/src/ipc/client.rs:69`), and a standalone `add` or
  `delete` waits for the file lock (`src/local_storage.cpp:133`) that the stalled
  agent waits for.  `CommandsEnd` names both.  `list` reports an empty vault when the agent was locked in between,
  failed or timed out (`docs/ipc-protocol.md:916`).  Two agents that start together
  can both serve, one of them out of reach (`src/daemon_main.cpp:27`), and an agent
  that ends removes the path of another (`src/agent_server.cpp:94`).  A SIGTERM
  just before the loop is forgotten (`src/agent_server.cpp:208`).
- Terminal and shell.  A signal while a guard is set up leaves the terminal
  changed, although `include/duckpass/terminal_utils.h:15` promises restoration;
  `TerminalRestored` excludes those steps.  SIGQUIT has no handler, and at a
  password prompt leaves the echo off.  Backspace behind a character of several
  bytes clears it from the screen and leaves its first bytes in the line
  (`src/terminal_utils.cpp:163`).  The key Delete leaves a "~" in the line
  (`src/terminal_utils.cpp:171`).  A service that exists is asked for again, where
  the comment says "Go back to the main shell prompt"
  (`src/shell_command.cpp:224`).  At the end of the input the shell asks for ever.
  The shell's `rekey` asks for the current password and does not compare it.
- Export.  A field guarded with an apostrophe reads back with it;
  `ExportReadsBack` states it that way.

### Bounds

Two sessions suffice for every race in `VaultStore`: each is between a session
and the file as another session left it.  One service is enough where a
property speaks of a single entry; `sessions` and `deletions` have two, because
they say what an operation does to *other* services.  Two passwords give a rekey and a session that missed it.
`MaxClock` 3 allows an add and two later updates; `sessions`, without symmetry,
has 2.  In `AtomicWrite` four writes
and three kills or power losses allow an init, a save that makes a backup, a
rekey, and a save after each failure.  Sessions, services, values and passwords
are symmetric in the runs `faults` and `deletions`.  `AtomicWrite` stops when its writes are
used up, so its configurations do not check deadlock; `VaultStore` and `Agent`
never stop.

In `Agent` two clients give a request that another one interrupts; a client's
own abandoned requests add more connections than clients.  A backlog of one or
two is filled, and overflows into `ConnectFails` or a desktop that waits.  The timeouts are one or two
seconds, so that waiting for `poll`, a packet or a handler can exceed them or
not.  One direct write is enough for `PurgedAfterLock`, whose proof covers any
number.  The liveness runs have no symmetry.

`AgentStartup` has two agents, which is the smallest race, two polls and two
signals or kills; it starts with an empty path and with a stale socket.  Its
agents start once each, so it may stop, as may an audit and a shell.

`MCAudit` audits an empty vault, one with a shared password, an old and a future
stamp and a breached password, one that was never stamped, and one with an empty
password and one longer than the worker accepts.  A pipe holds two units and a reply has two, so both are
filled in parts; two permits for three entries make the loop wait; one retry; and
`Wrap` 16 for 2^64, with times up to 9.

In `MCShell` commands are words over two letters, so that a prefix of a line
stands for one command, for several or for none.  Command lines have up to four
characters, service names three (a letter with a space on each side), TOTP
secrets two (the shortest that decodes), other answers one, which is also enough
to leave them blank.  One command ends with a character of two bytes: completed,
deleted in part and completed again, it makes the screen differ from the line and
agree again.  Two commands may change
the vault, so that the second meets what the first one left.  Characters are
numbers below 16, among them all those that `Formats` treats specially; the widths
of integers are the code's, and one stamp needs more than 32 bits.

### Fairness

`FairSpec` assumes weak fairness of a session's own steps (a process that is
not killed keeps running) and strong fairness of `AcquireLock` (Linux wakes the
waiters of a flock in turn, so none is overtaken for ever).  Nothing is assumed
about users, crashes, I/O failures or the clock.

In `Agent`, time passes (strong fairness of `Tick`, because poll's timeout
enables it again and again), the loop and the handlers that do not wait run on,
and so do the commands; a prompt is answered in the end.  `FairSpec` adds that
UNLOCK, ADD and DELETE finish, which is what `SaveReturns` says of their file
lock.  `HungSpec` leaves that out, and with it the fallback's `FallbackSave`, which
waits for the same lock; `CommandsEnd` holds under it, with the commands that end
up waiting named in `Blocked`.  That a signal interrupts `poll` is never assumed.

In `AgentStartup` a process that can go on does, and a start command that waits or
polls goes on; nothing is assumed of users, signals or kills.  In `Audit` the main
thread and the evaluator run on, the deadline passes, and each thread's request
ends, which libcurl's timeouts guarantee; nothing is assumed of the worker.
`Shell` states no fairness: a user need not type.

## 4. Proofs

`VaultStoreProofs` proves, for any finite or infinite sets of sessions,
services, fields, values and passwords and any bounds, that `TypeOK`,
`MergeStaysCurrent` and `CallTookEffect` are invariants, that every step
satisfies `CommitMerges`, and that `VaultStore` implements `ReplicaStore`.
None of the properties is inductive alone.  The strengthening `IndInv` adds:
a session between lock and return is the lock's holder; a running session has a
password; the frame of the call agrees with memory (the entry that `add` or
`update` stamped is there until the merge, the service that `delete` removed is
in `deleted`), and after the merge the copy covers the file.  The lemmas on
`Merge` (its type, that the result covers the disk, that it keeps what was
deleted away, that merging again changes nothing) carry the steps `MergeDisk`
and `Rename`; the last one is what makes the rename a `Push` of `ReplicaStore`,
which joins and writes in one step.

`OthersSurvive` is about `SessionsSpec`, where no service is stamped twice in one
second, and sessions that delete nothing (`deletions` shows why): a rename changes
no service but those its session called an operation on, now or in a call that
threw.  `OthersInv` compares copies.  `SameInv`: two copies of a service with one
stamp are equal, wherever they are.  `OwnInv`: what a session holds on nobody's
account is what the file has or had, so the merge lets the file win.  Both are
needed at `MergeDisk`, and `SameInv` only holds because a stamp is new when it is
given.

`AtomicWriteProofs` proves `TypeOK`, `TempsAccounted` and
`VaultAlwaysWhole` without assumptions on the disk, from `WholeInv`: the
temporary file is synced whenever the code reaches the rename, and the current
content is among those that may survive.  As long as `unsynced` is false,
`CountInv` (everything that may survive is at least the last acknowledged write)
gives `AckedWriteSurvives`, and `KeyInv` (while a rekey writes the vault, `.bak`
can only be the new blob) gives `BackupNeverBehindRekey`.

`AgentProofs` proves `TypeOK`, `ServedInTime` and `PurgedAfterLock` for any
number of clients and passwords and for all timeouts.  `IdleInv` bounds the idle
time at each place of the loop by the timeout and the waiting since the check.
For `PurgedAfterLock`, `ConnInv` says that a connection its client has not closed
carries the request the client is waiting for, and that no client has two: so a
late reply is never taken for the reply to a later request.  `WriteInv` then
follows a direct write through its ping and its lock request.

`AgentStartupProofs` proves `TypeOK`, `OnlyKillsLeaveSockets`,
`ServingIsReachable` and `StalePathIsReplaced` for any number of agents, polls
and signals.  `CommandInv` says that an agent that was not launched has not run;
`OwnerInv` that a socket at the path belongs to an agent that has come as far as
`bind`; `AloneInv` that, as long as no two servers overlapped, a server is alone
and keeps the path while it listens, and finds it free when it binds unless a
socket could not be removed.

`AuditProofs` proves `TypeOK`, `NothingLeftBehind`, `ScoreOfWhole`, `ReportIsTrue` and
`PermitsBalanced` for any vaults, sizes, permits and retries.  `LoopInv` ties the
rows written to the place in the loop, `ThreadInv` the threads started or waited
for.  `ScoresWhole` and `ReportsTrue` follow the data: by `PipeInv` the worker
answers only what it has read whole, by `ScoreInv` a score that was returned is
the one of the current entry's password, by `AnswerInv` each thread's answer is
its entry's, and `RowInv` says what each row holds in the loop, and behind it,
where reuse is marked and the answers are collected.
`ReportsTrue` needs `ClockAssumption`: time stamps and the clock are below 2^63, as
`time()` returns them, so that the unsigned difference to a stamp in the future
is always beyond the threshold.
`PermitsBalanced` equates the permits that are out with the cardinality of
the set of running threads; each step that takes or gives one adds or removes one
element of a finite set.

`ShellProofs` proves `TerminalRestored`, `BufferClean`, `ScreenMatches`,
`TabKeepsInput`, `TypeOK` and `OnlyTheNamedEntry` for any keys, commands, line
lengths and stored entries.  `ModeInv` says, at each place of a guard, what the
guard has done so far.  `LineInv` (the line is a clean buffer whose text is on the
screen unless a character was split) rests on the lemmas of `SecureStringProofs`, one per operation: what its
text is afterwards, and that the memory behind the text is zero.  `SessionInv`
with `ArgsInv` says how many answers there are at each prompt, and that between
its prompts `edit` names an entry the session has and `add` one it has not.
`EntersWhole` proves `EntriesAreWhole` for a vault that was whole when it was
opened.  `AnswersInv` says which answers are trimmed and not empty at the prompts
that follow them; the lemmas under it say that `trim_secure`, two erases computed
from counts of spaces, leaves a text without spaces at its ends, and that such a
text is one that `Trim` does not change.

`FormatsProofs` proves of the formats, for texts and lists of any length:

- `LoadingReadsSaved`: entries with different names, whose lengths fit in 32 bits
  and stamps in 64, load as they were saved, in their order, and only a missing
  stamp is set;
- `ExportsRead`: the CSV and JSON exports read back field by field, whatever
  characters the fields hold;
- `SessionLoads` and `SessionExports`: the same of the entries of a shell session,
  after any commands and answers, from `SessionInv` and `EntriesFinite`.
  `VaultReadsBack` is proved where `LengthsFit`, because `write_uint32` gets a length
  cast to 32 bits without a check.

The readers are functions defined by recursion.  `NumberInduction` is induction
over the natural numbers with the property given as a set, from which
`RecursionUpTo` shows that such a definition has a solution.  `Holds(t, o, w)` says
that the text `t` has `w` at offset `o`; each reader has one lemma per piece of its
format (a digit, a length, a field, a character, a row), of the form "if the
reader is at `o` and `t` holds the piece there, it is behind the piece afterwards
and has read it", and `Joins` takes these through a sequence of pieces.

The assumptions are those named in the modules: the markers (`NoEntry`, `Free`,
`NoFile`, `Stale`, ...) differ from ordinary values, the bounds are numbers, and
texts are sequences of numbers.

The characters of the formats are numbers and the special ones differ from each
other (`CsvAssumption`, `JsonAssumption`); a byte has at least two values
(`BaseAssumption`).  A vault has finitely many entries (`StoredAssumption`), and
a generated password is not empty (`GenerateAssumption`).

Only model-checked: the liveness properties `SaveReturns`, `IdleSessionEnds`,
`StopEnds`, `CommandsEnd`, `EvaluationEnds`, `AuditEnds`, `StopIsObeyed` and
`StartSettles`, because liveness is outside the prover's reach.  Every other
property of a passing run is stated by a theorem.

## 5. Not modelled

The models assume that a blob opens with exactly the password it was written
with, and that the clock does not go back.  Left out, and why:

- *Cryptography, TOTP*: calls into OpenSSL and Argon2; what they compute is
  outside a model checker's reach.  `Shell` asks only whether a secret decodes.
- *Fuzzy search, strength meter, printed text*: values for display.
- *init command*: its write is in `AtomicWrite`; that it takes no lock, so that two
  of them or an init and a restored file can replace each other, is listed as a
  hazard, and no property of the shared file could hold of it.
- *Clipboard*: the delayed clear is a shell process (sleep, then the clipboard
  tool) that nothing in the program observes.
- *Desktop dashboard*: React state in TypeScript.  Its requests are the client
  `desk` of `Agent`; the order of its replies is listed as a hazard.
- *Packets*: `Agent` has requests and replies, not their bytes.
- *Terminal*: input from a pipe, where no mode is changed and no key interpreted;
  lines longer than a row; signals other than SIGINT and SIGTERM.
- *Export*: its prompts, the file it writes and the punctuation of the JSON
  objects; fields, rows and strings are in `Formats`.
- *Protected memory*: the masking of `ProtectedString` and the allocator's
  `mlock`, which no other part can observe.
- *Vendored code*.

A next step would be the dashboard's requests in flight, as a client of `Agent`
with several replies outstanding, and a vault session on top of `Shell`, so that
what the shell shows and what other processes write meet in one model.
