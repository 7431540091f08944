-------------------------------- MODULE Terminal --------------------------------
(***************************************************************************)
(* Reading a line or a password (src/terminal_utils.cpp), key by key, with *)
(* the two guards that change the mode of the terminal and put it back:    *)
(* TerminalModeGuard and EchoOffGuard.  A guard is a few system calls, and *)
(* a signal may arrive between any two of them.  Standard input is a       *)
(* terminal, and a line fits on one row of it.                             *)
(*                                                                         *)
(* The line is edited byte by byte and the screen column by column: they   *)
(* agree for the characters of one byte, and a Backspace behind any other  *)
(* character takes one of its bytes from the line and the whole character  *)
(* from the screen.                                                        *)
(***************************************************************************)
EXTENDS SecureString, FiniteSets

CONSTANTS
    Space,     \* the character that separates words
    Hidden,    \* the prompts of read_password
    Completes, \* the commands whose argument is completed: "get" and "delete"
    Keys,      \* the bytes typed at each prompt
    HighBytes, \* the bytes that characters of several bytes are made of
    MaxLen     \* bound on the length of the lines typed at each prompt

VARIABLES
    proc,       \* "running", "ended", or "killed" by a signal
    prompt,     \* the prompt of the line being read
    step,       \* how far the call is: "ask" before it, "line" after it
    term,       \* the mode of the terminal
    rawActive, echoActive,   \* is_raw_mode_active and active_ of the guards
    handler,    \* the signal handler installed
    saved,      \* the one EchoOffGuard has replaced
    buf,        \* the line
    shown,      \* what is on the screen behind the prompt
    split,      \* history: since the line was drawn, a Backspace took one byte
                \* of a character of several
    esc         \* keys of an escape sequence still to come

guards == <<rawActive, echoActive, handler, saved>>
line == <<buf, shown, split, esc>>
termVars == <<proc, prompt, step, term, guards, line>>

TermInit(p) ==
    /\ proc = "running"
    /\ prompt = p
    /\ step = "ask"
    /\ term = "cooked"
    /\ rawActive = FALSE /\ echoActive = FALSE
    /\ handler = "default" /\ saved = "default"
    /\ buf = Fresh(<<>>)
    /\ shown = <<>> /\ split = FALSE
    /\ esc = 0

At(s) == proc = "running" /\ step = s
Goto(s) == step' = s
IsHidden == prompt \in Hidden

-----------------------------------------------------------------------------
(* The constructors of the guards. *)

SetRaw ==
    /\ At("ask") /\ ~IsHidden
    /\ term' = "raw"
    /\ Goto("raw")
    /\ UNCHANGED <<proc, prompt, guards, line>>

\* Mutant of RawFlag: the flag is not set.
RawFlagForgotten ==
    /\ At("raw")
    /\ Goto("flagged")
    /\ UNCHANGED <<proc, prompt, term, guards, line>>

RawFlag ==
    /\ At("raw")
    /\ rawActive' = TRUE
    /\ Goto("flagged")
    /\ UNCHANGED <<proc, prompt, term, echoActive, handler, saved, line>>

\* std::signal: the handlers stay installed when the guard is gone.
RawHandlers ==
    /\ At("flagged")
    /\ handler' = "raw"
    /\ Goto("read")
    /\ UNCHANGED <<proc, prompt, term, rawActive, echoActive, saved, line>>

EchoFlag ==
    /\ At("ask") /\ IsHidden
    /\ echoActive' = TRUE
    /\ Goto("hide")
    /\ UNCHANGED <<proc, prompt, term, rawActive, handler, saved, line>>

EchoOff ==
    /\ At("hide")
    /\ term' = "noecho"
    /\ Goto("hidden")
    /\ UNCHANGED <<proc, prompt, guards, line>>

EchoHandlers ==
    /\ At("hidden")
    /\ handler' = "echo"
    /\ saved' = handler
    /\ Goto("read")
    /\ UNCHANGED <<proc, prompt, term, rawActive, echoActive, line>>

-----------------------------------------------------------------------------
(* Keys. *)

\* A byte of a character: a password takes it silently, a line echoes it.
Type(ch) ==
    /\ At("read") /\ esc = 0
    /\ buf.size < MaxLen[prompt]
    /\ buf' = push_back(buf, ch)
    /\ shown' = IF IsHidden THEN shown ELSE Append(shown, ch)
    /\ UNCHANGED <<proc, prompt, step, term, guards, split, esc>>

\* What erasing a column may leave of the bytes on the screen: the column is
\* that of the last byte, or of all the bytes of the last character.  With none
\* left a column of the prompt goes.
Erased(s) ==
    IF s = <<>> THEN {<<>>}
    ELSE {SubSeq(s, 1, n) : n \in
            {m \in 0..(Len(s) - 1) :
                m = Len(s) - 1 \/ \A i \in (m + 1)..Len(s) : s[i] \in HighBytes}}

Backspace ==
    /\ At("read") /\ esc = 0
    /\ buf.size > 0
    /\ buf' = pop_back(buf)
    /\ IF IsHidden THEN UNCHANGED <<shown, split>>
       ELSE /\ shown' \in Erased(shown)
            /\ split' = (split \/ Text(buf)[buf.size] \in HighBytes)
    /\ UNCHANGED <<proc, prompt, step, term, guards, esc>>

\* Positions of the first space, and of the first other character from k on:
\* at most one each.
FirstSpace(t) == {i \in DOMAIN t : t[i] = Space /\ \A j \in 1..(i - 1) : t[j] # Space}
FirstWordFrom(t, k) ==
    {i \in k..Len(t) : t[i] # Space /\ \A j \in k..(i - 1) : t[j] = Space}

\* How much of the line is kept, and the words that may replace the rest:
\* commands for the first word, services behind "get " and "delete ".
Completion(t, commands, services) ==
    IF FirstSpace(t) = {} THEN [kept |-> 0, words |-> commands]
    ELSE LET sp == CHOOSE i \in FirstSpace(t) : TRUE
             arg == FirstWordFrom(t, sp)
         IN  [kept |-> IF arg = {} THEN Len(t) ELSE (CHOOSE i \in arg : TRUE) - 1,
              words |-> IF SubSeq(t, 1, sp - 1) \in Completes THEN services ELSE {}]

StartsWith(w, t) == Len(w) >= Len(t) /\ SubSeq(w, 1, Len(t)) = t

\* Mutant of Tab: the line is drawn as it was before the completion.
TabDrawsFirst(commands, services) ==
    /\ At("read") /\ esc = 0 /\ ~IsHidden
    /\ LET t == Text(buf)
           c == Completion(t, commands, services)
           matches == {w \in c.words : StartsWith(w, SubSeq(t, c.kept + 1, Len(t)))}
       IN  /\ buf' = IF Cardinality(matches) = 1
                     THEN append(assign_own(buf, c.kept), CHOOSE w \in matches : TRUE)
                     ELSE buf
           /\ IF matches = {} THEN UNCHANGED <<shown, split>>
                              ELSE shown' = t /\ split' = FALSE
    /\ UNCHANGED <<proc, prompt, step, term, guards, esc>>

\* A unique match replaces the word; several are listed; either way the line is
\* drawn again.  Without one nothing happens.
Tab(commands, services) ==
    /\ At("read") /\ esc = 0 /\ ~IsHidden
    /\ LET t == Text(buf)
           c == Completion(t, commands, services)
           matches == {w \in c.words : StartsWith(w, SubSeq(t, c.kept + 1, Len(t)))}
       IN  /\ buf' = IF Cardinality(matches) = 1
                     THEN append(assign_own(buf, c.kept), CHOOSE w \in matches : TRUE)
                     ELSE buf
           /\ IF matches = {} THEN UNCHANGED <<shown, split>>
                              ELSE shown' = Text(buf') /\ split' = FALSE
    /\ UNCHANGED <<proc, prompt, step, term, guards, esc>>

\* Mutant of Escape: one key too many is ignored.
EscapeThree ==
    /\ At("read") /\ esc = 0 /\ ~IsHidden
    /\ esc' = 3
    /\ UNCHANGED <<proc, prompt, step, term, guards, buf, shown, split>>

\* An escape character: the two keys after it are read and ignored.
Escape ==
    /\ At("read") /\ esc = 0 /\ ~IsHidden
    /\ esc' = 2
    /\ UNCHANGED <<proc, prompt, step, term, guards, buf, shown, split>>

Swallow ==
    /\ At("read") /\ esc > 0
    /\ esc' = esc - 1
    /\ UNCHANGED <<proc, prompt, step, term, guards, buf, shown, split>>

\* Enter, or the end of the input, also within an escape sequence.
EndLine ==
    /\ At("read")
    /\ Goto("leave")
    /\ UNCHANGED <<proc, prompt, term, guards, line>>

Key(commands, services) ==
    \/ \E ch \in Keys[prompt] : Type(ch)
    \/ Backspace \/ Tab(commands, services)
    \/ Escape \/ Swallow \/ EndLine

-----------------------------------------------------------------------------
(* The destructors of the guards, and signals. *)

\* tcsetattr with the saved mode, if the guard is active.
RestoreMode ==
    /\ At("leave")
    /\ term' = IF IF IsHidden THEN echoActive ELSE rawActive THEN "cooked" ELSE term
    /\ Goto("restored")
    /\ UNCHANGED <<proc, prompt, guards, line>>

RestoreFlag ==
    /\ At("restored")
    /\ IF IsHidden THEN echoActive' = FALSE /\ Goto("unhook") /\ UNCHANGED rawActive
                   ELSE rawActive' = FALSE /\ Goto("line") /\ UNCHANGED echoActive
    /\ UNCHANGED <<proc, prompt, term, handler, saved, line>>

RestoreHandlers ==
    /\ At("unhook")
    /\ handler' = saved
    /\ Goto("line")
    /\ UNCHANGED <<proc, prompt, term, rawActive, echoActive, saved, line>>

GuardStep ==
    \/ SetRaw \/ RawFlag \/ RawHandlers
    \/ EchoFlag \/ EchoOff \/ EchoHandlers
    \/ RestoreMode \/ RestoreFlag \/ RestoreHandlers

\* SIGINT or SIGTERM: the handler restores what its own guard has changed, and
\* the process ends.
Signal ==
    /\ proc = "running"
    /\ proc' = "killed"
    /\ term' = IF \/ handler = "raw" /\ rawActive
                  \/ handler = "echo" /\ echoActive
               THEN "cooked" ELSE term
    /\ UNCHANGED <<prompt, step, guards, line>>

===============================================================================
