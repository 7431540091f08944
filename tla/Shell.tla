---------------------------------- MODULE Shell ----------------------------------
(***************************************************************************)
(* The interactive shell (src/shell_command.cpp) on top of Terminal: it    *)
(* reads a command, asks for what the command needs, prompt by prompt, and *)
(* changes the vault of its session.                                       *)
(*                                                                         *)
(* A save() or rekey() of the session (VaultStore) either returns or       *)
(* throws; writes of other processes and the lock request to the agent     *)
(* after a change (Agent) are not part of this module.                     *)
(***************************************************************************)
EXTENDS Terminal

CONSTANTS
    Add, Delete, Edit, Update, Rekey, Exit, \* the commands that do more than print
    OtherCommands,  \* the other words of base_cmds
    Generate,       \* the password that asks for a generated one, "g"
    Generated,      \* what generate_password returns for it
    Base32,         \* the characters of a TOTP secret
    Separators,     \* what may stand between them: a space, '-', '='
    Stored, Master, \* the vault at the start, services to fields, and its password
    MaxChanges      \* bound on the commands that may change the vault

VARIABLES
    args,      \* the answers to the prompts of the current command
    entries,   \* the entries of the session: services to fields
    services,  \* the names offered for completion
    master,    \* the master password of the vault
    changes    \* commands so far that may change the vault

session == <<args, entries, services, master, changes>>
vars == <<termVars, session>>

Commands == {Add, Delete, Edit, Update, Rekey, Exit} \cup OtherCommands
Fields == [username : Seq(Nat), password : Seq(Nat), totp : Seq(Nat)]
Prompts == Hidden \cup {"command", "service", "username", "totp", "new username", "new totp"}

ASSUME PromptsAssumption ==
    {"master", "password", "new password", "current", "new", "again"} \subseteq Hidden
ASSUME TextsAssumption ==
    /\ \A p \in Prompts : Keys[p] \subseteq Nat
    /\ Commands \subseteq Seq(Nat)
    /\ Generated \in Seq(Nat) /\ Master \in Seq(Nat)
    /\ Stored \in [DOMAIN Stored -> Fields] /\ DOMAIN Stored \subseteq Seq(Nat)
ASSUME StoredAssumption == IsFiniteSet(DOMAIN Stored)
ASSUME GenerateAssumption == Generate # <<>> /\ Generated # <<>>
ASSUME MaxChangesAssumption == MaxChanges \in Nat

Init ==
    /\ TermInit("master")
    /\ args = <<>>
    /\ entries = Stored
    /\ services = {}
    /\ master = Master
    /\ changes = 0

\* Only the command prompt completes anything.
Reads ==
    /\ IF prompt = "command" THEN Key(Commands, services) ELSE Key({}, {})
    /\ UNCHANGED session

\* The next prompt, with a new line; or no further one.
Ask(p) ==
    /\ prompt' = p
    /\ Goto("ask")
    /\ buf' = Fresh(<<>>)
    /\ shown' = <<>> /\ split' = FALSE
    /\ esc' = 0
    /\ UNCHANGED <<proc, term, guards>>

Quit ==
    /\ proc' = "ended"
    /\ UNCHANGED <<prompt, step, term, guards, line>>

\* A line was read at prompt p.
Got(p) == At("line") /\ prompt = p

-----------------------------------------------------------------------------
(* Trimming. *)

Words(t) == {i \in DOMAIN t : t[i] # Space}
Leading(t) == Cardinality({i \in DOMAIN t : \A j \in 1..i : t[j] = Space})
Trailing(t) == Cardinality({i \in DOMAIN t : \A j \in i..Len(t) : t[j] = Space})

\* Mutant of trim_secure: the spaces at the end stay.
TrimFrontOnly(s) == erase(s, 1, Leading(Text(s)))

\* trim_secure: two erases.
trim_secure(s) ==
    LET front == erase(s, 1, Leading(Text(s)))
    IN  erase(front, front.size - Trailing(Text(front)) + 1, front.size)

\* The same on a view, as the loop does with its input and with arguments.
TrimLeft(t) == SubSeq(t, Leading(t) + 1, Len(t))
Trim(t) == SubSeq(t, Leading(t) + 1, IF Words(t) = {} THEN 0 ELSE Len(t) - Trailing(t))

-----------------------------------------------------------------------------
(* The start, and the commands without prompts of their own. *)

\* The vault opens with its password; otherwise, or if it cannot be read, the
\* shell returns.
Open ==
    /\ Got("master")
    /\ Text(buf) = master
    /\ services' = DOMAIN entries
    /\ Ask("command")
    /\ UNCHANGED <<args, entries, master, changes>>

OpenFails ==
    /\ Got("master")
    /\ Quit
    /\ UNCHANGED session

Command == Trim(Text(buf))
IsCall(c) == StartsWith(Command, Append(c, Space))
Argument(c) == TrimLeft(SubSeq(Command, Len(c) + 2, Len(Command)))

ExitCommand ==
    /\ Got("command")
    /\ Command = Exit
    /\ Quit
    /\ UNCHANGED session

\* Everything else only prints: list, get, otp, generate, audit, clear, help,
\* a command without its argument, an unknown one or a blank line.
OtherCommand ==
    /\ Got("command")
    /\ Command \notin {Add, Rekey, Exit}
    /\ ~IsCall(Delete) /\ ~IsCall(Edit) /\ ~IsCall(Update)
    /\ Ask("command")
    /\ UNCHANGED session

Changes == changes < MaxChanges /\ changes' = changes + 1

\* delete_entry: unknown, deleted, or gone from the session although save()
\* threw; then the completions are not refreshed.
DeleteCommand ==
    /\ Got("command")
    /\ IsCall(Delete)
    /\ Changes
    /\ entries' = [s \in DOMAIN entries \ {Argument(Delete)} |-> entries[s]]
    /\ services' \in {services, DOMAIN entries'}
    /\ Argument(Delete) \notin DOMAIN entries => services' = services
    /\ Ask("command")
    /\ UNCHANGED <<args, master>>

-----------------------------------------------------------------------------
(* add: service, username, password, secret. *)

AddCommand ==
    /\ Got("command")
    /\ Command = Add
    /\ Changes
    /\ args' = <<>>
    /\ Ask("service")
    /\ UNCHANGED <<entries, services, master>>

\* Take the answer and go on, or ask again.
Answered(s, valid, again, next) ==
    /\ args' = IF valid THEN Append(args, s) ELSE args
    /\ Ask(IF valid THEN next ELSE again)
    /\ UNCHANGED <<entries, services, master, changes>>

GotService ==
    /\ Got("service")
    /\ LET s == trim_secure(buf)
       IN  Answered(s, s.size > 0 /\ Text(s) \notin DOMAIN entries, "service", "username")

GotUsername ==
    /\ Got("username")
    /\ LET s == trim_secure(buf) IN Answered(s, s.size > 0, "username", "password")

GotPassword ==
    /\ Got("password")
    /\ Answered(buf, buf.size > 0, "password", "totp")

\* decode_base32 does not throw, or there is no secret: five bits a character
\* make a byte of two.
IsBase32(t) ==
    \/ t = <<>>
    \/ /\ \A i \in DOMAIN t : t[i] \in Base32 \cup Separators
       /\ Cardinality({i \in DOMAIN t : t[i] \in Base32}) >= 2

\* add_entry: an invalid secret changes nothing; if save() throws, the entry
\* stays in the session and the completions are not refreshed.
AddEntry ==
    /\ Got("totp")
    /\ LET secret == Text(trim_secure(buf))
           name == Text(args[1])
           fields == [username |-> Text(args[2]), password |-> Text(args[3]), totp |-> secret]
       IN  IF IsBase32(secret)
           THEN /\ entries' = [s \in DOMAIN entries \cup {name} |->
                                IF s = name THEN fields ELSE entries[s]]
                /\ services' \in {services, DOMAIN entries'}
           ELSE UNCHANGED <<entries, services>>
    /\ args' = <<>>
    /\ Ask("command")
    /\ UNCHANGED <<master, changes>>

-----------------------------------------------------------------------------
(* edit: username, password, secret; a blank answer keeps the field. *)

EditCommand ==
    /\ Got("command")
    /\ Changes
    /\ \E c \in {Edit, Update} :
        /\ IsCall(c)
        /\ IF Argument(c) \in DOMAIN entries
           THEN args' = <<Fresh(Argument(c))>> /\ Ask("new username")
           ELSE UNCHANGED args /\ Ask("command")
    /\ UNCHANGED <<entries, services, master>>

GotNewUsername ==
    /\ Got("new username")
    /\ Answered(trim_secure(buf), TRUE, "", "new password")

GotNewPassword ==
    /\ Got("new password")
    /\ Answered(buf, TRUE, "", "new totp")

OrKept(new, old) == IF new = <<>> THEN old ELSE new

\* Mutant of Password: only a missing password is kept, not an empty one.
PasswordAsTyped(typed, old) == IF typed = Generate THEN Generated ELSE typed

Password(typed, old) == IF typed = Generate THEN Generated ELSE OrKept(typed, old)

\* update_entry: an invalid secret throws before anything is changed; save()
\* may throw, but the session has the new fields either way.
UpdateEntry ==
    /\ Got("new totp")
    /\ LET secret == Text(trim_secure(buf))
           name == Text(args[1])
       IN  entries' = IF ~IsBase32(secret) THEN entries
                      ELSE [entries EXCEPT ![name] =
                             [username |-> OrKept(Text(args[2]), @.username),
                              password |-> Password(Text(args[3]), @.password),
                              totp |-> OrKept(secret, @.totp)]]
    /\ args' = <<>>
    /\ Ask("command")
    /\ UNCHANGED <<services, master, changes>>

-----------------------------------------------------------------------------
(* rekey: the current password (which nothing looks at), the new one twice. *)

RekeyCommand ==
    /\ Got("command")
    /\ Command = Rekey
    /\ Changes
    /\ args' = <<>>
    /\ Ask("current")
    /\ UNCHANGED <<entries, services, master>>

GotCurrent == Got("current") /\ Answered(buf, TRUE, "", "new")
GotNew == Got("new") /\ Answered(buf, TRUE, "", "again")

\* Different or empty ones cancel; rekey() may throw.
GotAgain ==
    /\ Got("again")
    /\ LET new == Text(args[2])
       IN  master' \in IF Text(buf) = new /\ new # <<>> THEN {master, new} ELSE {master}
    /\ args' = <<>>
    /\ Ask("command")
    /\ UNCHANGED <<entries, services, changes>>

ShellStep ==
    \/ Open \/ OpenFails \/ ExitCommand \/ OtherCommand \/ DeleteCommand
    \/ AddCommand \/ GotService \/ GotUsername \/ GotPassword \/ AddEntry
    \/ EditCommand \/ GotNewUsername \/ GotNewPassword \/ UpdateEntry
    \/ RekeyCommand \/ GotCurrent \/ GotNew \/ GotAgain

Guards == GuardStep /\ UNCHANGED session
Signalled == Signal /\ UNCHANGED session

Next == Reads \/ Guards \/ ShellStep \/ Signalled

Spec == Init /\ [][Next]_vars

-----------------------------------------------------------------------------
(* Properties. *)

Steps == {"ask", "raw", "flagged", "hide", "hidden", "read", "leave", "restored", "unhook", "line"}

TypeOK ==
    /\ proc \in {"running", "ended", "killed"}
    /\ prompt \in Prompts
    /\ step \in Steps
    /\ term \in {"cooked", "raw", "noecho"}
    /\ rawActive \in BOOLEAN /\ echoActive \in BOOLEAN
    /\ handler \in {"default", "raw", "echo"} /\ saved \in {"default", "raw", "echo"}
    /\ buf \in Str
    /\ shown \in Seq(Nat) /\ split \in BOOLEAN
    /\ esc \in 0..2
    /\ args \in Seq(Str)
    /\ \A s \in DOMAIN entries : s \in Seq(Nat) /\ entries[s] \in Fields
    /\ \A s \in services : s \in Seq(Nat)
    /\ master \in Seq(Nat)
    /\ changes \in 0..MaxChanges

\* No character that was deleted, trimmed or replaced stays in the memory of a
\* line or of an answer kept while the other prompts are served, and each ends
\* with its NUL.
BufferClean == Clean(buf) /\ \A i \in DOMAIN args : Clean(args[i])

\* TAB never loses what was typed: the line is unchanged or continued with the
\* rest of a command or service, although the completed text is assembled in
\* the buffer it is taken from.
TabKeepsInput ==
    [][Tab(Commands, services) => StartsWith(Text(buf'), Text(buf))]_vars

\* What the screen shows behind the prompt is the line, through completion,
\* backspaces and escape sequences, unless a Backspace has split a character of
\* several bytes; from then on the two may differ, until a completion draws the
\* line again.  Of a password the screen never shows anything.
ScreenMatches == IF IsHidden THEN shown = <<>> ELSE split \/ shown = Text(buf)

\* The terminal changes its mode only for a prompt: between prompts and at the
\* end it is as it was, a password is read with echo off, and a signal leaves a
\* changed terminal behind only while a guard is being set up.
TerminalRestored ==
    /\ step \in {"ask", "line"} \/ proc = "ended" => term = "cooked" /\ ~rawActive /\ ~echoActive
    /\ At("read") => term = IF IsHidden THEN "noecho" ELSE "raw"
    /\ proc = "killed" /\ step \notin {"raw", "flagged", "hidden"} => term = "cooked"

\* A name and a username without spaces around them, and a password.
Whole(s, fields) ==
    /\ s # <<>> /\ Trim(s) = s
    /\ fields.username # <<>> /\ Trim(fields.username) = fields.username
    /\ fields.password # <<>>
    /\ IsBase32(fields.totp)

\* Every entry was entered whole, whichever prompts were answered blank and
\* repeated.
EntriesAreWhole == \A s \in DOMAIN entries : Whole(s, entries[s])

\* A command changes only the entry it names: add changes none that the session
\* had, delete removes one at most, and edit keeps every field that was left
\* blank.
OnlyTheNamedEntry ==
    [][entries' # entries =>
        \E name \in DOMAIN entries \cup DOMAIN entries' :
            /\ \A s \in (DOMAIN entries \cup DOMAIN entries') \ {name} :
                s \in DOMAIN entries /\ s \in DOMAIN entries' /\ entries'[s] = entries[s]
            /\ name \in DOMAIN entries /\ name \in DOMAIN entries' =>
                /\ prompt = "new totp" /\ Text(args[1]) = name
                /\ Text(args[2]) = <<>> => entries'[name].username = entries[name].username
                /\ Text(args[3]) = <<>> => entries'[name].password = entries[name].password
                /\ Words(Text(buf)) = {} => entries'[name].totp = entries[name].totp]_vars

===============================================================================
