------------------------------- MODULE ShellProofs -------------------------------
(***************************************************************************)
(* Proofs about Shell, for any alphabet, any commands, any vault and lines *)
(* of any length.                                                          *)
(***************************************************************************)
EXTENDS Shell, SecureStringProofs, FiniteSetTheorems

-----------------------------------------------------------------------------
(* The terminal. *)

\* At each place of a guard, what it has done so far.  A signal changes nothing
\* but the terminal, so all of it but the mode also holds afterwards.
ModeInv ==
    /\ step \in {"ask", "line"} => term = "cooked" /\ ~rawActive /\ ~echoActive
    /\ proc # "running" => step = "line" \/ proc = "killed"
    /\ step = "raw" => ~IsHidden /\ ~rawActive /\ ~echoActive
    /\ step = "flagged" => ~IsHidden /\ rawActive /\ ~echoActive
    /\ step = "hide" => IsHidden /\ echoActive /\ ~rawActive /\ term = "cooked"
    /\ step = "hidden" => IsHidden /\ echoActive /\ ~rawActive
    /\ step \in {"read", "leave"} =>
         IF IsHidden THEN echoActive /\ ~rawActive /\ handler = "echo"
                     ELSE rawActive /\ ~echoActive /\ handler = "raw"
    /\ step = "restored" => /\ term = "cooked"
                            /\ IF IsHidden THEN ~rawActive ELSE ~echoActive
    /\ step = "unhook" => term = "cooked" /\ ~rawActive /\ ~echoActive
    /\ proc = "running" =>
         /\ step \in {"raw", "flagged"} => term = "raw"
         /\ step = "hidden" => term = "noecho"
         /\ step \in {"read", "leave"} => term = IF IsHidden THEN "noecho" ELSE "raw"
    /\ proc = "killed" /\ step \notin {"raw", "flagged", "hidden"} => term = "cooked"
    /\ step \in Steps

LEMMA ModeGuards == ModeInv /\ GuardStep => ModeInv'
  <1> SUFFICES ASSUME ModeInv, GuardStep PROVE ModeInv'
    OBVIOUS
  <1> USE DEF ModeInv, At, Goto, IsHidden, Steps, guards
  <1>1. CASE SetRaw
    BY <1>1 DEF SetRaw
  <1>2. CASE RawFlag
    BY <1>2 DEF RawFlag
  <1>3. CASE RawHandlers
    BY <1>3 DEF RawHandlers
  <1>4. CASE EchoFlag
    BY <1>4 DEF EchoFlag
  <1>5. CASE EchoOff
    BY <1>5 DEF EchoOff
  <1>6. CASE EchoHandlers
    BY <1>6 DEF EchoHandlers
  <1>7. CASE RestoreMode
    BY <1>7 DEF RestoreMode
  <1>8. CASE RestoreFlag
    BY <1>8 DEF RestoreFlag
  <1>9. CASE RestoreHandlers
    BY <1>9 DEF RestoreHandlers
  <1> QED
    BY <1>1, <1>2, <1>3, <1>4, <1>5, <1>6, <1>7, <1>8, <1>9 DEF GuardStep

\* A key leaves the guards alone, and ends the line at most.
LEMMA KeyFrame ==
    ASSUME NEW c, NEW s, Key(c, s)
    PROVE  /\ UNCHANGED <<proc, prompt, term, rawActive, echoActive, handler, saved>>
           /\ At("read") /\ step' \in {"read", "leave"}
  BY DEF Key, Type, Backspace, Tab, Escape, Swallow, EndLine, At, Goto, guards

\* A step of the shell is taken behind a line, and leads to the next prompt or
\* to the end.
LEMMA ShellFrame ==
    ASSUME ShellStep
    PROVE  /\ UNCHANGED <<term, rawActive, echoActive, handler, saved>>
           /\ At("line")
           /\ \/ proc' = proc /\ step' = "ask"
              \/ proc' = "ended" /\ step' = step /\ prompt' = prompt
  <1> USE DEF Got, Ask, Goto, At, Quit, Answered, guards
  <1>1. CASE Open \/ OpenFails \/ ExitCommand \/ OtherCommand \/ DeleteCommand
    BY <1>1 DEF Open, OpenFails, ExitCommand, OtherCommand, DeleteCommand
  <1>2. CASE AddCommand \/ GotService \/ GotUsername \/ GotPassword \/ AddEntry
    BY <1>2 DEF AddCommand, GotService, GotUsername, GotPassword, AddEntry
  <1>3. CASE EditCommand \/ GotNewUsername \/ GotNewPassword \/ UpdateEntry
    BY <1>3 DEF EditCommand, GotNewUsername, GotNewPassword, UpdateEntry
  <1>4. CASE RekeyCommand \/ GotCurrent \/ GotNew \/ GotAgain
    BY <1>4 DEF RekeyCommand, GotCurrent, GotNew, GotAgain
  <1> QED
    BY <1>1, <1>2, <1>3, <1>4 DEF ShellStep

LEMMA ModeStep == ModeInv /\ [Next]_vars => ModeInv'
  <1> SUFFICES ASSUME ModeInv, [Next]_vars PROVE ModeInv'
    OBVIOUS
  <1>1. CASE Reads
    <2>1. /\ UNCHANGED <<proc, prompt, term, rawActive, echoActive, handler, saved>>
          /\ At("read") /\ step' \in {"read", "leave"}
      BY <1>1, KeyFrame DEF Reads
    <2> QED
      BY <2>1 DEF ModeInv, At, IsHidden, Steps
  <1>2. CASE Guards
    BY <1>2, ModeGuards DEF Guards
  <1>3. CASE ShellStep
    <2>1. /\ UNCHANGED <<term, rawActive, echoActive, handler, saved>>
          /\ At("line")
          /\ \/ proc' = proc /\ step' = "ask"
             \/ proc' = "ended" /\ step' = step /\ prompt' = prompt
      BY <1>3, ShellFrame
    <2> QED
      BY <2>1 DEF ModeInv, At, IsHidden, Steps
  <1>4. CASE Signalled
    BY <1>4 DEF Signalled, Signal, ModeInv, IsHidden, Steps, guards
  <1>5. CASE UNCHANGED vars
    BY <1>5 DEF vars, termVars, guards, ModeInv, IsHidden, Steps
  <1> QED
    BY <1>1, <1>2, <1>3, <1>4, <1>5 DEF Next

\* Whatever is typed and wherever a signal arrives, the mode of the terminal is
\* changed only while a line is read, and is put back but for the windows named
\* in TerminalRestored.
THEOREM Restored == Spec => []TerminalRestored
  <1>1. Init => ModeInv
    BY DEF Init, TermInit, ModeInv, IsHidden, Steps
  <1>2. ModeInv => TerminalRestored
    BY DEF ModeInv, TerminalRestored, At
  <1> QED
    BY <1>1, <1>2, ModeStep, PTL DEF Spec

-----------------------------------------------------------------------------
(* The line: its memory, its text and the screen. *)

LineInv ==
    /\ buf \in Str /\ Clean(buf)
    /\ shown \in Seq(Nat) /\ split \in BOOLEAN /\ ScreenMatches
    /\ esc \in 0..2

LEMMA PrefixCount ==
    ASSUME NEW t \in Seq(Nat)
    PROVE  /\ Leading(t) \in Nat /\ Leading(t) <= Len(t)
           /\ Trailing(t) \in Nat /\ Trailing(t) <= Len(t)
  <1>1. Len(t) \in Nat /\ DOMAIN t = 1..Len(t)
    OBVIOUS
  <1>2. IsFiniteSet(1..Len(t)) /\ Cardinality(1..Len(t)) = Len(t)
    <2>1. Cardinality(1..Len(t)) = IF 1 > Len(t) THEN 0 ELSE Len(t) - 1 + 1
      BY <1>1, FS_Interval
    <2>2. IsFiniteSet(1..Len(t))
      BY <1>1, FS_Interval
    <2> QED
      BY <1>1, <2>1, <2>2
  <1>3. ASSUME NEW T \in SUBSET (1..Len(t)) PROVE Cardinality(T) \in Nat /\ Cardinality(T) <= Len(t)
    BY <1>2, FS_Subset, FS_CardinalityType
  <1> QED
    BY <1>1, <1>3 DEF Leading, Trailing

LEMMA TrimFacts ==
    ASSUME NEW s \in Str, Clean(s)
    PROVE  trim_secure(s) \in Str /\ Clean(trim_secure(s))
  <1> DEFINE front == erase(s, 1, Leading(Text(s)))
             back == Trailing(Text(front))
  <1>1. Text(s) \in Seq(Nat) /\ Len(Text(s)) = s.size /\ s.size \in Nat
    BY TextFacts
  <1>2. Leading(Text(s)) \in Nat /\ Leading(Text(s)) <= s.size
    BY <1>1, PrefixCount
  <1>3. front \in Str /\ Clean(front)
    <2>1. 1 \in Nat \ {0}
      OBVIOUS
    <2> QED
      BY <1>2, <2>1, EraseFacts
  <1>4. trim_secure(s) = erase(front, front.size - back + 1, front.size)
    BY DEF trim_secure
  <1> HIDE DEF front
  <1>5. Text(front) \in Seq(Nat) /\ Len(Text(front)) = front.size /\ front.size \in Nat
    BY <1>3, TextFacts
  <1>6. back \in Nat /\ back <= front.size
    BY <1>5, PrefixCount
  <1> HIDE DEF back
  <1>7. front.size - back + 1 \in Nat \ {0} /\ front.size <= front.size
    BY <1>5, <1>6
  <1> QED
    BY <1>3, <1>4, <1>5, <1>7, EraseFacts

\* A completion keeps at most the line, and offers texts.
LEMMA CompletionFacts ==
    ASSUME NEW t \in Seq(Nat), NEW c \in SUBSET Seq(Nat), NEW s \in SUBSET Seq(Nat)
    PROVE  /\ Completion(t, c, s).kept \in Nat /\ Completion(t, c, s).kept <= Len(t)
           /\ Completion(t, c, s).words \subseteq Seq(Nat)
  <1>0. Len(t) \in Nat
    OBVIOUS
  <1>1. CASE FirstSpace(t) = {}
    BY <1>0, <1>1 DEF Completion
  <1>2. CASE FirstSpace(t) # {}
    <2> DEFINE sp == CHOOSE i \in FirstSpace(t) : TRUE
               arg == FirstWordFrom(t, sp)
               first == CHOOSE i \in arg : TRUE
               k == IF arg = {} THEN Len(t) ELSE first - 1
               w == IF SubSeq(t, 1, sp - 1) \in Completes THEN s ELSE {}
    <2>1. sp \in FirstSpace(t)
      BY <1>2
    <2>2. Completion(t, c, s) = [kept |-> k, words |-> w]
      BY <1>2 DEF Completion
    <2> HIDE DEF sp
    <2>3. sp \in 1..Len(t)
      BY <2>1 DEF FirstSpace
    <2>4. arg \subseteq sp..Len(t)
      BY DEF FirstWordFrom
    <2>5. arg # {} => first \in arg
      OBVIOUS
    <2> HIDE DEF arg, first
    <2>6. k \in Nat /\ k <= Len(t)
      <3>1. CASE arg = {}
        BY <1>0, <3>1
      <3>2. CASE arg # {}
        <4>1. first \in sp..Len(t)
          BY <2>4, <2>5, <3>2
        <4>2. first \in Nat /\ first >= 1 /\ first <= Len(t)
          BY <1>0, <2>3, <4>1
        <4>3. k = first - 1
          BY <3>2
        <4> QED
          BY <1>0, <4>2, <4>3
      <3> QED
        BY <3>1, <3>2
    <2>7. w \subseteq Seq(Nat)
      OBVIOUS
    <2> HIDE DEF k, w
    <2> QED
      BY <2>2, <2>6, <2>7
  <1> QED
    BY <1>1, <1>2

\* The part of a line that is kept, with a word that continues the rest.
LEMMA Continues ==
    ASSUME NEW t \in Seq(Nat), NEW k \in Nat, k <= Len(t), NEW w \in Seq(Nat),
           StartsWith(w, SubSeq(t, k + 1, Len(t)))
    PROVE  StartsWith(SubSeq(t, 1, k) \o w, t)
  <1> DEFINE f == SubSeq(t, 1, k)
             r == SubSeq(t, k + 1, Len(t))
             x == f \o w
             p == SubSeq(w, 1, Len(r))
             y == SubSeq(x, 1, Len(t))
  <1>0. Len(t) \in Nat /\ Len(w) \in Nat
    OBVIOUS
  <1>1. f \in Seq(Nat) /\ Len(f) = k /\ \A j \in 1..k : f[j] = t[j]
    BY AtFront
  <1>2. /\ r \in Seq(Nat) /\ Len(r) = Len(t) - k
        /\ \A j \in 1..(Len(t) - k) : r[j] = t[k + j]
    <2>1. k + 1 \in Nat \ {0} /\ Len(t) <= Len(t)
      BY <1>0
    <2>2. /\ r \in Seq(Nat) /\ Len(r) = IF k + 1 <= Len(t) THEN Len(t) - (k + 1) + 1 ELSE 0
          /\ \A j \in 1..(Len(t) - (k + 1) + 1) : r[j] = t[(k + 1) + j - 1]
      BY <1>0, <2>1, AtEnd
    <2> HIDE DEF r
    <2>3. Len(t) - (k + 1) + 1 = Len(t) - k
      BY <1>0
    <2>4. Len(r) = Len(t) - k
      BY <1>0, <2>2
    <2>5. ASSUME NEW j \in 1..(Len(t) - k) PROVE r[j] = t[k + j]
      <3>1. (k + 1) + j - 1 = k + j
        BY <1>0
      <3> QED
        BY <2>2, <2>3, <3>1
    <2> QED
      BY <2>2, <2>4, <2>5
  <1>3. Len(w) >= Len(r) /\ p = r
    BY DEF StartsWith
  <1> HIDE DEF f, r
  <1>4. p \in Seq(Nat) /\ Len(p) = Len(r) /\ \A j \in 1..Len(r) : p[j] = w[j]
    <2>1. Len(r) \in Nat /\ Len(r) <= Len(w)
      BY <1>0, <1>2, <1>3
    <2> QED
      BY <2>1, AtFront
  <1> HIDE DEF p
  <1>5. \A j \in 1..(Len(t) - k) : w[j] = t[k + j]
    BY <1>2, <1>3, <1>4
  <1>6. /\ x \in Seq(Nat) /\ Len(x) = Len(f) + Len(w)
        /\ \A j \in 1..(Len(f) + Len(w)) : x[j] = IF j <= Len(f) THEN f[j] ELSE w[j - Len(f)]
    <2>1. f \in Seq(Nat)
      BY <1>1
    <2> QED
      BY <2>1, ConcatProperties
  <1> HIDE DEF x
  <1>7. Len(f) = k /\ Len(x) = k + Len(w) /\ Len(x) >= Len(t)
    <2>1. Len(f) = k /\ Len(x) = k + Len(w) /\ Len(r) = Len(t) - k /\ Len(w) >= Len(r)
      BY <1>1, <1>2, <1>3, <1>6
    <2> QED
      BY <1>0, <2>1
  <1>8. y \in Seq(Nat) /\ Len(y) = Len(t) /\ \A j \in 1..Len(t) : y[j] = x[j]
    <2>1. x \in Seq(Nat) /\ Len(t) <= Len(x)
      BY <1>0, <1>6, <1>7
    <2> QED
      BY <1>0, <2>1, AtFront
  <1> HIDE DEF y
  <1>9. ASSUME NEW j \in 1..Len(t) PROVE x[j] = t[j]
    <2>1. j \in Nat /\ j >= 1 /\ j <= Len(t) /\ j \in 1..(Len(f) + Len(w))
      BY <1>0, <1>7
    <2>2. x[j] = IF j <= k THEN f[j] ELSE w[j - k]
      BY <1>6, <1>7, <2>1
    <2>3. CASE j <= k
      BY <1>1, <2>1, <2>2, <2>3
    <2>4. CASE ~(j <= k)
      <3>1. j - k \in 1..(Len(t) - k) /\ k + (j - k) = j
        BY <1>0, <2>1, <2>4
      <3> QED
        BY <1>5, <2>2, <2>4, <3>1
    <2> QED
      BY <2>3, <2>4
  <1>10. y = t
    <2>1. \A j \in 1..Len(y) : y[j] = t[j]
      BY <1>8, <1>9
    <2>2. y \in Seq(Nat) /\ Len(y) = Len(t)
      BY <1>8
    <2> QED
      BY <2>1, <2>2, SeqEqual
  <1>11. Len(x) >= Len(t) /\ y = t
    BY <1>7, <1>10
  <1> QED
    BY <1>11 DEF StartsWith, y, x, f

\* Erasing a column takes one byte of the screen, unless the last one belongs to
\* a character of several.
LEMMA ErasedFacts ==
    ASSUME NEW t \in Seq(Nat), NEW u \in Erased(t)
    PROVE  /\ u \in Seq(Nat)
           /\ Len(t) > 0 /\ t[Len(t)] \notin HighBytes => u = SubSeq(t, 1, Len(t) - 1)
  <1>1. CASE t = <<>>
    BY <1>1 DEF Erased
  <1>2. CASE t # <<>>
    <2>1. PICK n \in 0..(Len(t) - 1) :
            /\ u = SubSeq(t, 1, n)
            /\ n = Len(t) - 1 \/ \A i \in (n + 1)..Len(t) : t[i] \in HighBytes
      BY <1>2 DEF Erased
    <2>2. n \in Nat /\ n <= Len(t)
      OBVIOUS
    <2>3. u \in Seq(Nat)
      BY <2>1, <2>2, AtFront
    <2>4. Len(t) \in (n + 1)..Len(t)
      BY <2>2
    <2> QED
      BY <2>1, <2>3, <2>4
  <1> QED
    BY <1>1, <1>2

\* An empty screen is right for a password.
LEMMA HiddenScreen ==
    ASSUME shown' = <<>>, IsHidden' PROVE ScreenMatches' /\ shown' \in Seq(Nat)
  BY DEF ScreenMatches

\* A key other than TAB.
LEMMA PlainKeys ==
    ASSUME LineInv, prompt \in Prompts,
           (\E ch \in Keys[prompt] : Type(ch)) \/ Backspace \/ Escape \/ Swallow \/ EndLine
    PROVE  LineInv'
  <1>1. Text(buf) \in Seq(Nat) /\ Len(Text(buf)) = buf.size /\ buf.size \in Nat
    BY TextFacts DEF LineInv
  <1>2. ASSUME NEW ch \in Keys[prompt], Type(ch) PROVE LineInv'
    <2>1. ch \in Nat /\ <<ch>> \in Seq(Nat)
      BY TextsAssumption
    <2>2. /\ buf' = append(buf, <<ch>>) /\ prompt' = prompt /\ esc' = esc /\ split' = split
          /\ shown' = IF IsHidden THEN shown ELSE Append(shown, ch)
      BY <1>2 DEF Type, push_back
    <2>3. buf' \in Str /\ Clean(buf') /\ Text(buf') = Text(buf) \o <<ch>>
      BY <2>1, <2>2, AppendFacts DEF LineInv
    <2>4. Append(Text(buf), ch) = Text(buf) \o <<ch>> /\ Append(Text(buf), ch) \in Seq(Nat)
      BY <1>1, <2>1, AppendIsConcat, AppendProperties
    <2>5. CASE IsHidden
      <3>1. shown' = <<>> /\ IsHidden'
        BY <2>2, <2>5 DEF LineInv, ScreenMatches, IsHidden
      <3>2. ScreenMatches' /\ shown' \in Seq(Nat) /\ split' \in BOOLEAN
        BY <2>2, <3>1, HiddenScreen DEF LineInv
      <3> QED
        BY <2>2, <2>3, <3>2 DEF LineInv
    <2>6. CASE ~IsHidden
      <3>1. shown' = Append(shown, ch) /\ shown' \in Seq(Nat) /\ ~IsHidden'
        BY <2>1, <2>2, <2>6, AppendProperties DEF LineInv, IsHidden
      <3>2. split' \/ shown' = Text(buf)'
        <4>1. split \/ shown = Text(buf)
          BY <2>6 DEF LineInv, ScreenMatches
        <4>2. Text(buf)' = Text(buf')
          BY DEF Text
        <4> QED
          BY <2>2, <2>3, <2>4, <3>1, <4>1, <4>2
      <3> QED
        BY <2>2, <2>3, <3>1, <3>2 DEF LineInv, ScreenMatches
    <2> QED
      BY <2>5, <2>6
  <1>3. CASE Backspace
    <2>1. /\ buf' = pop_back(buf) /\ prompt' = prompt /\ esc' = esc /\ buf.size > 0
          /\ IF IsHidden THEN shown' = shown /\ split' = split
             ELSE /\ shown' \in Erased(shown)
                  /\ split' = (split \/ Text(buf)[buf.size] \in HighBytes)
      BY <1>3 DEF Backspace
    <2>2. buf' \in Str /\ Clean(buf') /\ Text(buf') = SubSeq(Text(buf), 1, Len(Text(buf)) - 1)
      BY <2>1, PopFacts DEF LineInv
    <2>3. Text(buf') \in Seq(Nat) /\ Text(buf)' = Text(buf')
      BY <2>2, TextFacts DEF Text
    <2>4. CASE IsHidden
      <3>1. shown' = <<>> /\ IsHidden'
        BY <2>1, <2>4 DEF LineInv, ScreenMatches, IsHidden
      <3>2. ScreenMatches' /\ shown' \in Seq(Nat) /\ split' \in BOOLEAN
        BY <2>1, <2>4, <3>1, HiddenScreen DEF LineInv
      <3> QED
        BY <2>1, <2>2, <3>2 DEF LineInv
    <2>5. CASE ~IsHidden
      <3>1. shown \in Seq(Nat) /\ (split \/ shown = Text(buf))
        BY <2>5 DEF LineInv, ScreenMatches
      <3>2. shown' \in Seq(Nat)
        BY <2>1, <2>5, <3>1, ErasedFacts
      <3>3. split' \/ shown' = Text(buf)'
        <4>1. SUFFICES ASSUME ~split' PROVE shown' = Text(buf')
          BY <2>3
        <4>2. ~split /\ Text(buf)[buf.size] \notin HighBytes
          BY <2>1, <2>5, <4>1
        <4>3. shown = Text(buf) /\ Len(shown) > 0 /\ shown[Len(shown)] \notin HighBytes
          BY <1>1, <2>1, <3>1, <4>2
        <4> QED
          BY <2>1, <2>2, <2>5, <3>1, <4>3, ErasedFacts
      <3>4. split' \in BOOLEAN /\ ~IsHidden'
        BY <2>1, <2>5 DEF IsHidden, LineInv
      <3> QED
        BY <2>1, <2>2, <3>2, <3>3, <3>4 DEF LineInv, ScreenMatches
    <2> QED
      BY <2>4, <2>5
  <1>4. CASE Escape \/ Swallow \/ EndLine
    <2>1. UNCHANGED <<buf, shown, split, prompt>> /\ esc' \in 0..2
      BY <1>4 DEF Escape, Swallow, EndLine, LineInv, line
    <2> QED
      BY <2>1 DEF LineInv, ScreenMatches, IsHidden, Text
  <1> QED
    BY <1>2, <1>3, <1>4

LEMMA TabFacts ==
    ASSUME LineInv, NEW c \in SUBSET Seq(Nat), NEW s \in SUBSET Seq(Nat), Tab(c, s)
    PROVE  LineInv' /\ StartsWith(Text(buf'), Text(buf))
  <1> DEFINE t == Text(buf)
             k == Completion(t, c, s).kept
             matches == {w \in Completion(t, c, s).words :
                            StartsWith(w, SubSeq(t, k + 1, Len(t)))}
             one == CHOOSE w \in matches : TRUE
  <1>1. /\ buf' = IF Cardinality(matches) = 1 THEN append(assign_own(buf, k), one) ELSE buf
        /\ IF matches = {} THEN shown' = shown /\ split' = split
                           ELSE shown' = Text(buf') /\ split' = FALSE
        /\ prompt' = prompt /\ esc' = esc /\ ~IsHidden
    BY DEF Tab
  <1>2. /\ buf \in Str /\ Clean(buf) /\ esc \in 0..2
        /\ shown \in Seq(Nat) /\ split \in BOOLEAN /\ (split \/ shown = t)
    BY <1>1 DEF LineInv, ScreenMatches
  <1>3. t \in Seq(Nat) /\ Len(t) = buf.size /\ buf.size \in Nat
    BY <1>2, TextFacts
  <1>4. k \in Nat /\ k <= Len(t) /\ matches \subseteq Seq(Nat)
    BY <1>3, CompletionFacts
  <1>5. matches # {} => one \in matches
    OBVIOUS
  <1>6. \A w \in matches : StartsWith(w, SubSeq(t, k + 1, Len(t)))
    OBVIOUS
  <1>7. ~IsHidden' /\ Text(buf)' = Text(buf')
    BY <1>1 DEF IsHidden, Text
  <1> HIDE DEF k, matches, one, t
  <1>8. CASE matches = {}
    <2>1. buf' = buf /\ shown' = shown /\ split' = split
      BY <1>1, <1>8, FS_EmptySet
    <2>2. StartsWith(t, t)
      <3>1. SubSeq(t, 1, Len(t)) = t /\ Len(t) >= Len(t)
        BY <1>3, SubSeqFull
      <3> QED
        BY <3>1 DEF StartsWith
    <2>3. Text(buf') = t
      BY <2>1 DEF t
    <2>4. split' \/ shown' = Text(buf')
      BY <1>2, <2>1, <2>3
    <2>5. buf' \in Str /\ Clean(buf') /\ shown' \in Seq(Nat) /\ split' \in BOOLEAN
      BY <1>2, <1>3, <2>1
    <2>6. LineInv'
      BY <1>1, <1>2, <1>7, <2>4, <2>5 DEF LineInv, ScreenMatches
    <2> QED
      BY <2>2, <2>3, <2>6 DEF t
  <1>9. CASE matches # {} /\ Cardinality(matches) # 1
    <2>1. buf' = buf
      BY <1>1, <1>9
    <2>2. StartsWith(t, t)
      <3>1. SubSeq(t, 1, Len(t)) = t /\ Len(t) >= Len(t)
        BY <1>3, SubSeqFull
      <3> QED
        BY <3>1 DEF StartsWith
    <2>3. Text(buf') = t
      BY <2>1 DEF t
    <2>4. shown' = Text(buf') /\ split' = FALSE
      BY <1>1, <1>9
    <2>5. buf' \in Str /\ Clean(buf') /\ shown' \in Seq(Nat)
      BY <1>2, <1>3, <2>1, <2>3, <2>4
    <2>6. LineInv'
      BY <1>1, <1>2, <1>7, <2>4, <2>5 DEF LineInv, ScreenMatches
    <2> QED
      BY <2>2, <2>3, <2>6 DEF t
  <1>10. CASE matches # {} /\ Cardinality(matches) = 1
    <2> DEFINE own == assign_own(buf, k)
    <2>0. one \in Seq(Nat) /\ StartsWith(one, SubSeq(t, k + 1, Len(t)))
      BY <1>4, <1>5, <1>6, <1>10
    <2>1. buf' = append(own, one)
      BY <1>1, <1>10
    <2>2. k <= buf.size
      BY <1>3, <1>4
    <2>3. own \in Str /\ Clean(own) /\ Text(own) = SubSeq(t, 1, k)
      BY <1>2, <1>4, <2>2, AssignOwnFacts DEF t
    <2> HIDE DEF own
    <2>4. buf' \in Str /\ Clean(buf') /\ Text(buf') = SubSeq(t, 1, k) \o one
      BY <2>0, <2>1, <2>3, AppendFacts
    <2>5. StartsWith(SubSeq(t, 1, k) \o one, t)
      BY <1>3, <1>4, <2>0, Continues
    <2>6. shown' = Text(buf') /\ split' = FALSE
      BY <1>1, <1>10
    <2>7. shown' \in Seq(Nat)
      BY <2>4, <2>6, TextFacts
    <2>8. LineInv'
      BY <1>1, <1>2, <1>7, <2>4, <2>6, <2>7 DEF LineInv, ScreenMatches
    <2> QED
      BY <2>4, <2>5, <2>8 DEF t
  <1> QED
    BY <1>8, <1>9, <1>10

-----------------------------------------------------------------------------
(* The session: the answers kept from prompt to prompt, and the entries. *)

EntriesType == entries \in [DOMAIN entries -> Fields] /\ DOMAIN entries \subseteq Seq(Nat)
ServicesType == \A s \in services : s \in Seq(Nat)

\* How many answers there are at each prompt, that edit names an entry, and add
\* none.
ArgsInv ==
    /\ prompt \in {"service", "current"} => args = <<>>
    /\ prompt \in {"username", "new username", "new"} => Len(args) = 1
    /\ prompt \in {"password", "new password", "again"} => Len(args) = 2
    /\ prompt \in {"totp", "new totp"} => Len(args) = 3
    /\ prompt \in {"new username", "new password", "new totp"} => Text(args[1]) \in DOMAIN entries
    /\ prompt \in {"username", "password", "totp"} => Text(args[1]) \notin DOMAIN entries

SessionInv ==
    /\ prompt \in Prompts
    /\ args \in Seq(Str) /\ \A j \in DOMAIN args : Clean(args[j])
    /\ EntriesType
    /\ ServicesType
    /\ master \in Seq(Nat)
    /\ changes \in 0..MaxChanges
    /\ ArgsInv

\* A new prompt starts with an empty line.
LEMMA AskLine == ASSUME NEW p, Ask(p) PROVE LineInv'
  <1>1. buf' = Fresh(<<>>) /\ shown' = <<>> /\ split' = FALSE /\ esc' = 0
    BY DEF Ask
  <1>2. Fresh(<<>>) \in Str /\ Clean(Fresh(<<>>)) /\ Text(Fresh(<<>>)) = <<>>
    <2>1. <<>> \in Seq(Nat)
      OBVIOUS
    <2> QED
      BY <2>1, FreshFacts
  <1>3. Text(buf)' = <<>>
    BY <1>1, <1>2 DEF Text
  <1>4. ScreenMatches' /\ shown' \in Seq(Nat) /\ split' \in BOOLEAN
    <2>1. ScreenMatches'
      <3>1. shown' = Text(buf)'
        BY <1>1, <1>3
      <3> QED
        BY <1>1, <3>1 DEF ScreenMatches
    <2>2. shown' \in Seq(Nat)
      BY <1>1
    <2>3. split' \in BOOLEAN
      BY <1>1
    <2> QED
      BY <2>1, <2>2, <2>3
  <1> QED
    BY <1>1, <1>2, <1>4 DEF LineInv

LEMMA ShellLine == ASSUME LineInv, ShellStep PROVE LineInv'
  <1>1. CASE \E p : Ask(p)
    BY <1>1, AskLine
  <1>2. CASE Quit
    BY <1>2 DEF Quit, line, LineInv, ScreenMatches, IsHidden, Text
  <1>3. CASE Open \/ OpenFails \/ ExitCommand \/ OtherCommand \/ DeleteCommand
    BY <1>1, <1>2, <1>3 DEF Open, OpenFails, ExitCommand, OtherCommand, DeleteCommand
  <1>4. CASE AddCommand \/ AddEntry \/ EditCommand \/ UpdateEntry \/ RekeyCommand \/ GotAgain
    BY <1>1, <1>4 DEF AddCommand, AddEntry, EditCommand, UpdateEntry, RekeyCommand, GotAgain
  <1>5. ASSUME NEW s, NEW v, NEW q, NEW n, Answered(s, v, q, n) PROVE \E p : Ask(p)
    BY <1>5 DEF Answered
  <1>6. CASE GotService \/ GotUsername \/ GotPassword
    BY <1>1, <1>5, <1>6 DEF GotService, GotUsername, GotPassword
  <1>7. CASE GotNewUsername \/ GotNewPassword \/ GotCurrent \/ GotNew
    BY <1>1, <1>5, <1>7 DEF GotNewUsername, GotNewPassword, GotCurrent, GotNew
  <1> QED
    BY <1>3, <1>4, <1>6, <1>7 DEF ShellStep

\* An answer that was taken, or a question that is asked again.
LEMMA AnsweredArgs ==
    ASSUME SessionInv, NEW s \in Str, Clean(s), NEW v \in BOOLEAN, NEW q, NEW n, Answered(s, v, q, n)
    PROVE  /\ args' \in Seq(Str) /\ \A j \in DOMAIN args' : Clean(args'[j])
           /\ v => /\ prompt' = n /\ Len(args') = Len(args) + 1
                   /\ Len(args) > 0 => args'[1] = args[1]
                   /\ Len(args) = 0 => args'[1] = s
                   /\ args'[Len(args) + 1] = s
                   /\ \A j \in 1..Len(args) : args'[j] = args[j]
           /\ ~v => prompt' = q /\ args' = args
           /\ UNCHANGED <<entries, services, master, changes>>
  <1>1. /\ args' = IF v THEN Append(args, s) ELSE args
        /\ prompt' = IF v THEN n ELSE q
        /\ UNCHANGED <<entries, services, master, changes>>
    BY DEF Answered, Ask
  <1>2. args \in Seq(Str) /\ \A j \in DOMAIN args : Clean(args[j])
    BY DEF SessionInv
  <1>3. CASE v
    <2>1. /\ args' = Append(args, s) /\ args' \in Seq(Str) /\ Len(args') = Len(args) + 1
          /\ DOMAIN args' = 1..(Len(args) + 1) /\ args'[Len(args) + 1] = s
          /\ \A j \in 1..Len(args) : args'[j] = args[j]
      BY <1>1, <1>2, <1>3, AppendProperties
    <2>2. Len(args) \in Nat /\ DOMAIN args = 1..Len(args)
      BY <1>2
    <2>3. ASSUME NEW j \in DOMAIN args' PROVE Clean(args'[j])
      <3>1. j \in 1..Len(args) \/ j = Len(args) + 1
        BY <2>1, <2>2
      <3> QED
        BY <1>2, <2>1, <2>2, <3>1
    <2>4. Len(args) > 0 => args'[1] = args[1]
      BY <2>1, <2>2
    <2>5. Len(args) = 0 => args'[1] = s
      BY <2>1, <2>2
    <2> QED
      BY <1>1, <1>3, <2>1, <2>3, <2>4, <2>5
  <1>4. CASE ~v
    BY <1>1, <1>2, <1>4
  <1> QED
    BY <1>3, <1>4

LEMMA NextPrompts ==
    {"master", "command", "service", "username", "password", "totp", "new username",
     "new password", "new totp", "current", "new", "again"} \subseteq Prompts
  BY PromptsAssumption DEF Prompts

\* The commands at the first two prompts.
LEMMA CommandSession ==
    ASSUME SessionInv,
           \/ Open \/ OpenFails \/ ExitCommand \/ OtherCommand \/ DeleteCommand
           \/ AddCommand \/ RekeyCommand
    PROVE  SessionInv'
  <1>0. EntriesType /\ ServicesType /\ changes \in 0..MaxChanges
    BY DEF SessionInv
  <1>a. Changes => changes' \in 0..MaxChanges
    BY <1>0, MaxChangesAssumption DEF Changes
  <1>b. "command" \in Prompts /\ "service" \in Prompts /\ "current" \in Prompts
    BY NextPrompts
  <1>1. CASE Open
    <2>1. UNCHANGED <<args, entries, master, changes>> /\ services' = DOMAIN entries /\ prompt' = "command"
      BY <1>1 DEF Open, Ask
    <2>2. EntriesType' /\ ServicesType'
      BY <1>0, <2>1 DEF EntriesType, ServicesType
    <2> QED
      BY <1>b, <2>1, <2>2 DEF SessionInv, ArgsInv
  <1>2. CASE OpenFails \/ ExitCommand
    <2>1. UNCHANGED <<args, entries, services, master, changes, prompt>>
      BY <1>2 DEF OpenFails, ExitCommand, Quit, session
    <2> QED
      BY <2>1 DEF SessionInv, ArgsInv, EntriesType, ServicesType, Text
  <1>3. CASE OtherCommand
    <2>1. UNCHANGED <<args, entries, services, master, changes>> /\ prompt' = "command"
      BY <1>3 DEF OtherCommand, Ask, session
    <2> QED
      BY <1>b, <2>1 DEF SessionInv, ArgsInv, EntriesType, ServicesType
  <1>4. CASE DeleteCommand
    <2>1. /\ entries' = [s \in DOMAIN entries \ {Argument(Delete)} |-> entries[s]]
          /\ services' \in {services, DOMAIN entries'}
          /\ UNCHANGED <<args, master>> /\ prompt' = "command" /\ Changes
      BY <1>4 DEF DeleteCommand, Ask
    <2>2. EntriesType' /\ ServicesType'
      BY <1>0, <2>1 DEF EntriesType, ServicesType
    <2> QED
      BY <1>a, <1>b, <2>1, <2>2 DEF SessionInv, ArgsInv
  <1>5. CASE AddCommand \/ RekeyCommand
    <2>1. UNCHANGED <<entries, services, master>> /\ args' = <<>> /\ prompt' \in {"service", "current"} /\ Changes
      BY <1>5 DEF AddCommand, RekeyCommand, Ask
    <2>2. <<>> \in Seq(Str) /\ DOMAIN <<>> = {}
      OBVIOUS
    <2>3. EntriesType' /\ ServicesType'
      BY <1>0, <2>1 DEF EntriesType, ServicesType
    <2> QED
      BY <1>a, <1>b, <2>1, <2>2, <2>3 DEF SessionInv, ArgsInv
  <1> QED
    BY <1>1, <1>2, <1>3, <1>4, <1>5

\* The arguments of Answered: "" where no prompt is repeated.
MaybePrompts == Prompts \cup {""}

\* The prompts whose answer is only kept.
LEMMA AnswerSession ==
    ASSUME LineInv, SessionInv,
           \/ GotService \/ GotUsername \/ GotPassword
           \/ GotNewUsername \/ GotNewPassword \/ GotCurrent \/ GotNew
    PROVE  SessionInv'
  <1>0. buf \in Str /\ Clean(buf) /\ trim_secure(buf) \in Str /\ Clean(trim_secure(buf))
    BY TrimFacts DEF LineInv
  <1>p. {"", "service", "username", "password", "totp", "new password", "new totp", "new", "again"}
            \subseteq MaybePrompts
    BY NextPrompts DEF MaybePrompts
  <1>1. PICK s \in Str, v \in BOOLEAN, q \in MaybePrompts, n \in MaybePrompts :
          /\ Clean(s) /\ Answered(s, v, q, n)
          /\ \/ /\ prompt = "service" /\ q = "service" /\ n = "username"
                /\ v => Text(s) \notin DOMAIN entries
             \/ prompt = "username" /\ q = "username" /\ n = "password"
             \/ prompt = "password" /\ q = "password" /\ n = "totp"
             \/ prompt = "new username" /\ v /\ n = "new password"
             \/ prompt = "new password" /\ v /\ n = "new totp"
             \/ prompt = "current" /\ v /\ n = "new"
             \/ prompt = "new" /\ v /\ n = "again"
    <2>1. CASE GotService
      BY <1>0, <1>p, <2>1 DEF GotService, Got
    <2>2. CASE GotUsername
      <3>1. /\ prompt = "username"
            /\ Answered(trim_secure(buf), trim_secure(buf).size > 0, "username", "password")
        BY <2>2 DEF GotUsername, Got
      <3>2. (trim_secure(buf).size > 0) \in BOOLEAN
        BY <1>0 DEF Str
      <3> QED
        BY <1>0, <1>p, <3>1, <3>2
    <2>3. CASE GotPassword
      <3>1. prompt = "password" /\ Answered(buf, buf.size > 0, "password", "totp")
        BY <2>3 DEF GotPassword, Got
      <3>2. (buf.size > 0) \in BOOLEAN
        BY <1>0 DEF Str
      <3> QED
        BY <1>0, <1>p, <3>1, <3>2
    <2>4. CASE GotNewUsername
      BY <1>0, <1>p, <2>4 DEF GotNewUsername, Got
    <2>5. CASE GotNewPassword
      BY <1>0, <1>p, <2>5 DEF GotNewPassword, Got
    <2>6. CASE GotCurrent \/ GotNew
      BY <1>0, <1>p, <2>6 DEF GotCurrent, GotNew, Got
    <2> QED
      BY <2>1, <2>2, <2>3, <2>4, <2>5, <2>6
  <1>2. /\ args' \in Seq(Str) /\ \A j \in DOMAIN args' : Clean(args'[j])
        /\ v => /\ prompt' = n /\ Len(args') = Len(args) + 1
                /\ Len(args) > 0 => args'[1] = args[1]
                /\ Len(args) = 0 => args'[1] = s
        /\ ~v => prompt' = q /\ args' = args
        /\ UNCHANGED <<entries, services, master, changes>>
    BY <1>1, AnsweredArgs
  <1>3. prompt' \in Prompts
    <2>1. prompt' \in {"service", "username", "password", "totp", "new password", "new totp", "new", "again"}
      BY <1>1, <1>2
    <2> QED
      BY <2>1, NextPrompts
  <1>4. EntriesType' /\ ServicesType'
    BY <1>2 DEF SessionInv, EntriesType, ServicesType
  <1>5. ArgsInv'
    <2>1. CASE ~v
      <3>1. prompt' = prompt /\ args' = args /\ entries' = entries
        BY <1>1, <1>2, <2>1
      <3> QED
        BY <3>1 DEF SessionInv, ArgsInv, Text
    <2>2. CASE v /\ prompt = "service"
      <3>1. Len(args) = 0 /\ prompt' = "username" /\ Text(s) \notin DOMAIN entries
        BY <1>1, <1>2, <2>2 DEF SessionInv, ArgsInv
      <3>2. Len(args') = 1 /\ args'[1] = s /\ entries' = entries
        <4>0. Len(args) = 0 /\ 0 + 1 = 1
          BY <3>1
        <4> QED
          BY <1>2, <2>2, <4>0
      <3> QED
        BY <3>1, <3>2 DEF ArgsInv, Text
    <2>3. CASE v /\ prompt \in {"current", "new"}
      <3>1. CASE prompt = "current"
        <4>1. Len(args) = 0 /\ prompt' = "new"
          BY <1>1, <1>2, <2>3, <3>1 DEF SessionInv, ArgsInv
        <4>2. Len(args') = 1
          BY <1>2, <2>3, <4>1
        <4> QED
          BY <4>1, <4>2 DEF ArgsInv
      <3>2. CASE prompt = "new"
        <4>1. Len(args) = 1 /\ prompt' = "again"
          BY <1>1, <1>2, <2>3, <3>2 DEF SessionInv, ArgsInv
        <4>2. Len(args') = 2
          BY <1>2, <2>3, <4>1
        <4> QED
          BY <4>1, <4>2 DEF ArgsInv
      <3> QED
        BY <2>3, <3>1, <3>2
    <2>4. CASE v /\ prompt \in {"username", "password"}
      <3>1. Text(args[1]) \notin DOMAIN entries /\ Len(args) \in {1, 2}
        BY <2>4 DEF SessionInv, ArgsInv
      <3>2. args'[1] = args[1] /\ entries' = entries
        <4>1. Len(args) \in {1, 2}
          BY <3>1
        <4>2. Len(args) > 0
          BY <4>1
        <4> QED
          BY <1>2, <2>4, <4>2
      <3>3. CASE prompt = "username"
        <4>1. Len(args) = 1 /\ prompt' = "password"
          BY <1>1, <1>2, <2>4, <3>3 DEF SessionInv, ArgsInv
        <4>2. Len(args') = 2
          BY <1>2, <2>4, <4>1
        <4> QED
          BY <3>1, <3>2, <4>1, <4>2 DEF ArgsInv, Text
      <3>4. CASE prompt = "password"
        <4>1. Len(args) = 2 /\ prompt' = "totp"
          BY <1>1, <1>2, <2>4, <3>4 DEF SessionInv, ArgsInv
        <4>2. Len(args') = 3
          BY <1>2, <2>4, <4>1
        <4> QED
          BY <3>1, <3>2, <4>1, <4>2 DEF ArgsInv, Text
      <3> QED
        BY <2>4, <3>3, <3>4
    <2>5. CASE v /\ prompt = "new username"
      <3>1. Len(args) = 1 /\ prompt' = "new password" /\ Text(args[1]) \in DOMAIN entries
        BY <1>1, <1>2, <2>5 DEF SessionInv, ArgsInv
      <3>2. Len(args') = 2 /\ args'[1] = args[1] /\ entries' = entries
        <4>0. Len(args) = 1
          BY <3>1
        <4>1. Len(args) > 0 /\ 1 + 1 = 2
          BY <4>0
        <4> QED
          BY <1>2, <2>5, <3>1, <4>1
      <3> QED
        BY <3>1, <3>2 DEF ArgsInv, Text
    <2>6. CASE v /\ prompt = "new password"
      <3>1. Len(args) = 2 /\ prompt' = "new totp" /\ Text(args[1]) \in DOMAIN entries
        BY <1>1, <1>2, <2>6 DEF SessionInv, ArgsInv
      <3>2. Len(args') = 3 /\ args'[1] = args[1] /\ entries' = entries
        <4>0. Len(args) = 2
          BY <3>1
        <4>1. Len(args) > 0 /\ 2 + 1 = 3
          BY <4>0
        <4> QED
          BY <1>2, <2>6, <3>1, <4>1
      <3> QED
        BY <3>1, <3>2 DEF ArgsInv, Text
    <2> QED
      BY <1>1, <2>1, <2>2, <2>3, <2>4, <2>5, <2>6
  <1> QED
    BY <1>2, <1>3, <1>4, <1>5 DEF SessionInv

\* The command edit, up to its first prompt.
LEMMA EditSession == ASSUME LineInv, SessionInv, EditCommand PROVE SessionInv'
  <1>0. EntriesType /\ ServicesType /\ changes \in 0..MaxChanges
    BY DEF SessionInv
  <1>1. changes' \in 0..MaxChanges
    <2>1. changes < MaxChanges /\ changes' = changes + 1
      BY DEF EditCommand, Changes
    <2> QED
      BY <1>0, <2>1, MaxChangesAssumption
  <1>2. "command" \in Prompts /\ "new username" \in Prompts
    BY NextPrompts
  <1>3. UNCHANGED <<entries, services, master>>
    BY DEF EditCommand
  <1>4. EntriesType' /\ ServicesType'
    BY <1>0, <1>3 DEF EntriesType, ServicesType
  <1> DEFINE Edits(x) == IF x \in DOMAIN entries
                         THEN args' = <<Fresh(x)>> /\ prompt' = "new username"
                         ELSE args' = args /\ prompt' = "command"
  <1>a. PICK c \in {Edit, Update} : Edits(Argument(c))
    BY DEF EditCommand, Ask
  <1> DEFINE a == Argument(c)
  <1>5. CASE a \in DOMAIN entries
    <2>1. args' = <<Fresh(a)>> /\ prompt' = "new username"
      BY <1>a, <1>5
    <2>2. a \in DOMAIN entries /\ a \in Seq(Nat)
      BY <1>0, <1>5 DEF EntriesType
    <2> HIDE DEF a
    <2>3. Fresh(a) \in Str /\ Clean(Fresh(a)) /\ Text(Fresh(a)) = a
      BY <2>2, FreshFacts
    <2>4. /\ args' \in Seq(Str) /\ Len(args') = 1 /\ DOMAIN args' = {1} /\ args'[1] = Fresh(a)
      <3>1. \A x \in Str : <<x>> \in Seq(Str) /\ Len(<<x>>) = 1 /\ DOMAIN <<x>> = {1} /\ <<x>>[1] = x
        OBVIOUS
      <3> QED
        BY <2>1, <2>3, <3>1
    <2>5. Text(args[1])' = a
      BY <2>3, <2>4 DEF Text
    <2>6. ArgsInv'
      BY <1>3, <2>1, <2>2, <2>4, <2>5 DEF ArgsInv
    <2>7. \A j \in DOMAIN args' : Clean(args'[j])
      BY <2>3, <2>4
    <2> QED
      BY <1>1, <1>2, <1>3, <1>4, <2>1, <2>4, <2>6, <2>7 DEF SessionInv
  <1>6. CASE a \notin DOMAIN entries
    <2>1. args' = args /\ prompt' = "command"
      BY <1>a, <1>6
    <2> QED
      BY <1>1, <1>2, <1>3, <1>4, <2>1 DEF SessionInv, ArgsInv
  <1> QED
    BY <1>5, <1>6

\* The answers are texts.
LEMMA ArgText ==
    ASSUME SessionInv, NEW j \in Nat \ {0}, j <= Len(args)
    PROVE  Text(args[j]) \in Seq(Nat)
  <1>1. args \in Seq(Str) /\ \A k \in DOMAIN args : Clean(args[k])
    BY DEF SessionInv
  <1>2. j \in DOMAIN args /\ args[j] \in Str
    BY <1>1
  <1> QED
    BY <1>1, <1>2, TextFacts

\* The last prompt of add.
LEMMA AddSession == ASSUME LineInv, SessionInv, AddEntry PROVE SessionInv'
  <1> DEFINE secret == Text(trim_secure(buf))
             name == Text(args[1])
             fields == [username |-> Text(args[2]), password |-> Text(args[3]), totp |-> secret]
  <1>0. EntriesType /\ ServicesType
    BY DEF SessionInv
  <1>1. /\ IF IsBase32(secret)
           THEN /\ entries' = [s \in DOMAIN entries \cup {name} |->
                                IF s = name THEN fields ELSE entries[s]]
                /\ services' \in {services, DOMAIN entries'}
           ELSE UNCHANGED <<entries, services>>
        /\ args' = <<>> /\ prompt' = "command" /\ UNCHANGED <<master, changes>>
    BY DEF AddEntry, Ask
  <1>2. Len(args) = 3
    BY DEF AddEntry, Got, SessionInv, ArgsInv
  <1>3. secret \in Seq(Nat)
    BY TrimFacts, TextFacts DEF LineInv
  <1>4. name \in Seq(Nat) /\ Text(args[2]) \in Seq(Nat) /\ Text(args[3]) \in Seq(Nat)
    <2>1. 1 <= Len(args) /\ 2 <= Len(args) /\ 3 <= Len(args)
      BY <1>2
    <2> QED
      BY <2>1, ArgText
  <1>5. fields \in Fields
    BY <1>3, <1>4 DEF Fields
  <1> HIDE DEF fields, name, secret
  <1>6. EntriesType' /\ ServicesType'
    <2>1. CASE IsBase32(secret)
      <3>1. /\ entries' = [s \in DOMAIN entries \cup {name} |->
                            IF s = name THEN fields ELSE entries[s]]
            /\ services' \in {services, DOMAIN entries'}
        BY <1>1, <2>1
      <3>2. EntriesType'
        BY <1>0, <1>4, <1>5, <3>1 DEF EntriesType
      <3>3. DOMAIN entries' \subseteq Seq(Nat)
        BY <3>2 DEF EntriesType
      <3> QED
        BY <1>0, <3>1, <3>2, <3>3 DEF ServicesType
    <2>2. CASE ~IsBase32(secret)
      BY <1>0, <1>1, <2>2 DEF EntriesType, ServicesType
    <2> QED
      BY <2>1, <2>2
  <1>7. <<>> \in Seq(Str) /\ DOMAIN <<>> = {}
    OBVIOUS
  <1>8. "command" \in Prompts
    BY NextPrompts
  <1> QED
    BY <1>1, <1>6, <1>7, <1>8 DEF SessionInv, ArgsInv

\* The last prompt of edit.
LEMMA UpdateSession == ASSUME LineInv, SessionInv, UpdateEntry PROVE SessionInv'
  <1> DEFINE secret == Text(trim_secure(buf))
             name == Text(args[1])
             old == entries[name]
             new == [username |-> OrKept(Text(args[2]), old.username),
                     password |-> Password(Text(args[3]), old.password),
                     totp |-> OrKept(secret, old.totp)]
  <1>0. EntriesType /\ ServicesType
    BY DEF SessionInv
  <1>2. Len(args) = 3 /\ name \in DOMAIN entries
    BY DEF UpdateEntry, Got, SessionInv, ArgsInv
  <1>1. /\ entries' = IF ~IsBase32(secret) THEN entries ELSE [entries EXCEPT ![name] = new]
        /\ args' = <<>> /\ prompt' = "command" /\ UNCHANGED <<services, master, changes>>
    BY DEF UpdateEntry, Ask
  <1>3. secret \in Seq(Nat)
    BY TrimFacts, TextFacts DEF LineInv
  <1>4. Text(args[2]) \in Seq(Nat) /\ Text(args[3]) \in Seq(Nat)
    <2>1. 2 <= Len(args) /\ 3 <= Len(args)
      BY <1>2
    <2> QED
      BY <2>1, ArgText
  <1>5. old.username \in Seq(Nat) /\ old.password \in Seq(Nat) /\ old.totp \in Seq(Nat)
    BY <1>0, <1>2 DEF EntriesType, Fields
  <1>6. new \in Fields
    BY <1>3, <1>4, <1>5, TextsAssumption DEF Fields, OrKept, Password
  <1> HIDE DEF new, name, secret
  <1>7. EntriesType' /\ ServicesType'
    <2>1. EntriesType'
      BY <1>0, <1>1, <1>2, <1>6 DEF EntriesType
    <2> QED
      BY <1>0, <1>1, <2>1 DEF ServicesType
  <1>8. <<>> \in Seq(Str) /\ DOMAIN <<>> = {}
    OBVIOUS
  <1>9. "command" \in Prompts
    BY NextPrompts
  <1> QED
    BY <1>1, <1>7, <1>8, <1>9 DEF SessionInv, ArgsInv

\* The last prompt of rekey.
LEMMA RekeySession == ASSUME LineInv, SessionInv, GotAgain PROVE SessionInv'
  <1>0. EntriesType /\ ServicesType /\ master \in Seq(Nat)
    BY DEF SessionInv
  <1>1. /\ master' \in {master, Text(args[2])}
        /\ args' = <<>> /\ prompt' = "command" /\ UNCHANGED <<entries, services, changes>>
    BY DEF GotAgain, Ask
  <1>2. Len(args) = 2
    BY DEF GotAgain, Got, SessionInv, ArgsInv
  <1>3. Text(args[2]) \in Seq(Nat)
    <2>1. 2 <= Len(args)
      BY <1>2
    <2> QED
      BY <2>1, ArgText
  <1>4. EntriesType' /\ ServicesType'
    BY <1>0, <1>1 DEF EntriesType, ServicesType
  <1>5. <<>> \in Seq(Str) /\ DOMAIN <<>> = {}
    OBVIOUS
  <1>6. "command" \in Prompts
    BY NextPrompts
  <1> QED
    BY <1>0, <1>1, <1>3, <1>4, <1>5, <1>6 DEF SessionInv, ArgsInv

-----------------------------------------------------------------------------
(* Putting it together. *)

\* A completion at the command prompt offers texts.
LEMMA CompletionsAreTexts ==
    ASSUME SessionInv
    PROVE  Commands \in SUBSET Seq(Nat) /\ services \in SUBSET Seq(Nat)
  BY TextsAssumption DEF SessionInv, ServicesType

LEMMA SessionUnchanged ==
    ASSUME SessionInv, UNCHANGED <<prompt, args, entries, services, master, changes>>
    PROVE  SessionInv'
  BY DEF SessionInv, ArgsInv, EntriesType, ServicesType, Text

LEMMA LineUnchanged ==
    ASSUME LineInv, UNCHANGED <<prompt, buf, shown, split, esc>>
    PROVE  LineInv'
  BY DEF LineInv, ScreenMatches, IsHidden, Text

LEMMA LineStep == LineInv /\ SessionInv /\ [Next]_vars => LineInv' /\ SessionInv'
  <1> SUFFICES ASSUME LineInv, SessionInv, [Next]_vars PROVE LineInv' /\ SessionInv'
    OBVIOUS
  <1>1. CASE Reads
    <2>1. PICK c \in SUBSET Seq(Nat), s \in SUBSET Seq(Nat) : Key(c, s)
      BY <1>1, CompletionsAreTexts DEF Reads
    <2>2. prompt' = prompt
      BY <2>1, KeyFrame
    <2>3. UNCHANGED <<args, entries, services, master, changes>>
      BY <1>1 DEF Reads, session
    <2>4. prompt \in Prompts
      BY DEF SessionInv
    <2>5. LineInv'
      BY <2>1, <2>4, PlainKeys, TabFacts DEF Key
    <2> QED
      BY <2>2, <2>3, <2>5, SessionUnchanged
  <1>2. CASE Guards
    <2>1. UNCHANGED <<prompt, buf, shown, split, esc>>
      BY <1>2 DEF Guards, GuardStep, SetRaw, RawFlag, RawHandlers, EchoFlag, EchoOff,
                  EchoHandlers, RestoreMode, RestoreFlag, RestoreHandlers, line
    <2>2. UNCHANGED <<args, entries, services, master, changes>>
      BY <1>2 DEF Guards, session
    <2> QED
      BY <2>1, <2>2, LineUnchanged, SessionUnchanged
  <1>3. CASE ShellStep
    <2>1. LineInv'
      BY <1>3, ShellLine
    <2>2. SessionInv'
      BY <1>3, CommandSession, AnswerSession, EditSession, AddSession, UpdateSession, RekeySession
      DEF ShellStep
    <2> QED
      BY <2>1, <2>2
  <1>4. CASE Signalled \/ UNCHANGED vars
    <2>1. UNCHANGED <<prompt, buf, shown, split, esc, args, entries, services, master, changes>>
      BY <1>4 DEF Signalled, Signal, vars, termVars, line, session
    <2> QED
      BY <2>1, LineUnchanged, SessionUnchanged
  <1> QED
    BY <1>1, <1>2, <1>3, <1>4 DEF Next

LEMMA LineInit == Init => LineInv /\ SessionInv
  <1> SUFFICES ASSUME Init PROVE LineInv /\ SessionInv
    OBVIOUS
  <1>1. <<>> \in Seq(Nat) /\ <<>> \in Seq(Str) /\ DOMAIN <<>> = {}
    OBVIOUS
  <1>2. Fresh(<<>>) \in Str /\ Clean(Fresh(<<>>)) /\ Text(Fresh(<<>>)) = <<>>
    BY <1>1, FreshFacts
  <1>3. LineInv
    <2>1. buf = Fresh(<<>>) /\ shown = <<>> /\ split = FALSE /\ esc = 0
      BY DEF Init, TermInit
    <2>2. Text(buf) = <<>>
      BY <1>2, <2>1
    <2>3. ScreenMatches
      BY <2>1, <2>2 DEF ScreenMatches
    <2>4. split \in BOOLEAN
      BY <2>1
    <2>5. buf \in Str /\ Clean(buf) /\ shown \in Seq(Nat) /\ esc \in 0..2
      BY <1>1, <1>2, <2>1
    <2> QED
      BY <2>3, <2>4, <2>5 DEF LineInv
  <1>4. "master" \in Prompts /\ prompt = "master"
    BY NextPrompts DEF Init, TermInit
  <1>5. EntriesType /\ ServicesType
    BY TextsAssumption DEF Init, EntriesType, ServicesType
  <1>6. SessionInv
    BY <1>1, <1>4, <1>5, TextsAssumption, MaxChangesAssumption DEF Init, SessionInv, ArgsInv
  <1> QED
    BY <1>3, <1>6

\* No character that was deleted, trimmed or replaced stays in the memory of a
\* line or a kept answer, whatever keys are pressed and for lines of any length.
THEOREM BuffersAreClean == Spec => []BufferClean
  <1>1. LineInv /\ SessionInv => BufferClean
    BY DEF LineInv, SessionInv, BufferClean
  <1> QED
    BY <1>1, LineInit, LineStep, PTL DEF Spec

\* The screen shows the line as long as no character of several bytes was split,
\* and nothing of a password, for any bytes and lines of any length, and any
\* commands and services to complete.
THEOREM ScreenIsLine == Spec => []ScreenMatches
  <1>1. LineInv => ScreenMatches
    BY DEF LineInv
  <1> QED
    BY <1>1, LineInit, LineStep, PTL DEF Spec

\* TAB keeps what was typed, for any commands and services.
THEOREM TabKeeps == Spec => TabKeepsInput
  <1>1. LineInv /\ SessionInv /\ [Next]_vars
          => [Tab(Commands, services) => StartsWith(Text(buf'), Text(buf))]_vars
    BY CompletionsAreTexts, TabFacts
  <1> QED
    BY <1>1, LineInit, LineStep, PTL DEF Spec, TabKeepsInput

-----------------------------------------------------------------------------
(* The type invariant. *)

ModeType ==
    /\ proc \in {"running", "ended", "killed"}
    /\ step \in Steps
    /\ term \in {"cooked", "raw", "noecho"}
    /\ rawActive \in BOOLEAN
    /\ echoActive \in BOOLEAN
    /\ handler \in {"default", "raw", "echo"} /\ saved \in {"default", "raw", "echo"}

LEMMA ModeTypeStep == ModeType /\ [Next]_vars => ModeType'
  <1> SUFFICES ASSUME ModeType, [Next]_vars PROVE ModeType'
    OBVIOUS
  <1>1. CASE Reads
    <2>1. /\ UNCHANGED <<proc, prompt, term, rawActive, echoActive, handler, saved>>
          /\ step' \in {"read", "leave"}
      BY <1>1, KeyFrame DEF Reads
    <2> QED
      BY <2>1 DEF ModeType, Steps
  <1>2. CASE Guards
    BY <1>2 DEF Guards, GuardStep, SetRaw, RawFlag, RawHandlers, EchoFlag, EchoOff,
                EchoHandlers, RestoreMode, RestoreFlag, RestoreHandlers, guards, Goto,
                ModeType, Steps
  <1>3. CASE ShellStep
    <2>1. /\ UNCHANGED <<term, rawActive, echoActive, handler, saved>>
          /\ proc' \in {proc, "ended"} /\ step' \in {"ask", step}
      BY <1>3, ShellFrame
    <2> QED
      BY <2>1 DEF ModeType, Steps
  <1>4. CASE Signalled
    BY <1>4 DEF Signalled, Signal, guards, ModeType, Steps
  <1>5. CASE UNCHANGED vars
    BY <1>5 DEF vars, termVars, guards, ModeType, Steps
  <1> QED
    BY <1>1, <1>2, <1>3, <1>4, <1>5 DEF Next

\* The variables of the shell keep their types: in particular every answer that a
\* command takes was given, and edit is asked to change an entry that exists.
THEOREM TypeCorrect == Spec => []TypeOK
  <1>1. Init => ModeType
    BY DEF Init, TermInit, ModeType, Steps
  <1>2. ModeType /\ LineInv /\ SessionInv => TypeOK
    BY DEF ModeType, LineInv, SessionInv, EntriesType, ServicesType, TypeOK
  <1> QED
    BY <1>1, <1>2, ModeTypeStep, LineInit, LineStep, PTL DEF Spec

-----------------------------------------------------------------------------
(* What a command changes. *)

LEMMA BlankIsEmpty ==
    ASSUME NEW s \in Str, Clean(s), Words(Text(s)) = {}
    PROVE  Text(trim_secure(s)) = <<>>
  <1> DEFINE t == Text(s)
             front == erase(s, 1, Leading(t))
             back == Trailing(Text(front))
  <1>1. t \in Seq(Nat) /\ Len(t) = s.size /\ s.size \in Nat
    BY TextFacts
  <1>2. {i \in DOMAIN t : \A j \in 1..i : t[j] = Space} = 1..s.size
    <2>1. DOMAIN t = 1..s.size
      BY <1>1
    <2>2. \A i \in DOMAIN t : t[i] = Space
      BY DEF Words
    <2> HIDE DEF t
    <2>3. ASSUME NEW i \in 1..s.size, NEW j \in 1..i PROVE j \in 1..s.size
      BY <1>1
    <2> QED
      BY <2>1, <2>2, <2>3
  <1>3. Leading(t) = s.size
    <2>1. ASSUME NEW n \in Nat PROVE Cardinality(1..n) = n
      <3>1. Cardinality(1..n) = IF 1 > n THEN 0 ELSE n - 1 + 1
        BY FS_Interval
      <3> QED
        BY <3>1
    <2>2. Cardinality(1..s.size) = s.size
      BY <1>1, <2>1
    <2> QED
      BY <1>2, <2>2 DEF Leading
  <1>4. front = erase(s, 1, s.size)
    BY <1>3
  <1>5. trim_secure(s) = erase(front, front.size - back + 1, front.size)
    BY DEF trim_secure
  <1> HIDE DEF t, front
  <1>6. front \in Str /\ Clean(front) /\ front.size = 0
    <2>1. 1 \in Nat \ {0} /\ s.size <= s.size
      BY <1>1
    <2>2. /\ front \in Str /\ Clean(front)
          /\ 1 <= s.size => front.size = (1 - 1) + (s.size - s.size)
      BY <1>1, <1>4, <2>1, EraseFacts
    <2>3. CASE 1 <= s.size
      BY <1>1, <2>2, <2>3
    <2>4. CASE ~(1 <= s.size)
      <3>1. s.size = 0
        BY <1>1, <2>4
      <3>2. front = s
        BY <1>4, <3>1 DEF erase
      <3> QED
        BY <2>2, <3>1, <3>2
    <2> QED
      BY <2>2, <2>3, <2>4
  <1>7. Text(front) \in Seq(Nat) /\ Len(Text(front)) = 0
    BY <1>6, TextFacts
  <1>8. back = 0
    <2>1. back \in Nat /\ back <= Len(Text(front))
      BY <1>7, PrefixCount
    <2> QED
      BY <1>7, <2>1
  <1>9. trim_secure(s) = front
    BY <1>5, <1>6, <1>8 DEF erase
  <1> QED
    BY <1>7, <1>9

\* What one step may do to the entries.
ChangesOneEntry ==
    entries' # entries =>
        \E name \in DOMAIN entries \cup DOMAIN entries' :
            /\ \A s \in (DOMAIN entries \cup DOMAIN entries') \ {name} :
                s \in DOMAIN entries /\ s \in DOMAIN entries' /\ entries'[s] = entries[s]
            /\ name \in DOMAIN entries /\ name \in DOMAIN entries' =>
                /\ prompt = "new totp" /\ Text(args[1]) = name
                /\ Text(args[2]) = <<>> => entries'[name].username = entries[name].username
                /\ Text(args[3]) = <<>> => entries'[name].password = entries[name].password
                /\ Words(Text(buf)) = {} => entries'[name].totp = entries[name].totp

LEMMA DeleteChanges == ASSUME SessionInv, DeleteCommand PROVE ChangesOneEntry
  <1> DEFINE a == Argument(Delete)
  <1>0. entries \in [DOMAIN entries -> Fields]
    BY DEF SessionInv, EntriesType
  <1>1. entries' = [s \in DOMAIN entries \ {a} |-> entries[s]]
    BY DEF DeleteCommand
  <1> HIDE DEF a
  <1>2. CASE a \in DOMAIN entries
    BY <1>1, <1>2 DEF ChangesOneEntry
  <1>3. CASE a \notin DOMAIN entries
    <2>1. DOMAIN entries \ {a} = DOMAIN entries
      BY <1>3
    <2>2. entries' = entries
      BY <1>0, <1>1, <2>1
    <2> QED
      BY <2>2 DEF ChangesOneEntry
  <1> QED
    BY <1>2, <1>3

LEMMA AddChanges == ASSUME SessionInv, AddEntry PROVE ChangesOneEntry
  <1> DEFINE secret == Text(trim_secure(buf))
             name == Text(args[1])
             fields == [username |-> Text(args[2]), password |-> Text(args[3]), totp |-> secret]
  <1>1. \/ entries' = [s \in DOMAIN entries \cup {name} |-> IF s = name THEN fields ELSE entries[s]]
        \/ entries' = entries
    BY DEF AddEntry
  <1>2. name \notin DOMAIN entries
    BY DEF AddEntry, Got, SessionInv, ArgsInv
  <1> HIDE DEF name, fields
  <1> QED
    BY <1>1, <1>2 DEF ChangesOneEntry

LEMMA UpdateChanges == ASSUME LineInv, SessionInv, UpdateEntry PROVE ChangesOneEntry
  <1> DEFINE secret == Text(trim_secure(buf))
             name == Text(args[1])
             old == entries[name]
             new == [username |-> OrKept(Text(args[2]), old.username),
                     password |-> Password(Text(args[3]), old.password),
                     totp |-> OrKept(secret, old.totp)]
  <1>1. entries' = entries \/ entries' = [entries EXCEPT ![name] = new]
    BY DEF UpdateEntry
  <1>2. prompt = "new totp" /\ name \in DOMAIN entries
    BY DEF UpdateEntry, Got, SessionInv, ArgsInv
  <1>3. Text(args[2]) = <<>> => new.username = entries[name].username
    BY DEF OrKept
  <1>4. Text(args[3]) = <<>> => new.password = entries[name].password
    BY GenerateAssumption DEF OrKept, Password
  <1>5. Words(Text(buf)) = {} => new.totp = entries[name].totp
    <2>1. Words(Text(buf)) = {} => secret = <<>>
      BY BlankIsEmpty DEF LineInv
    <2> QED
      BY <2>1 DEF OrKept
  <1> HIDE DEF new
  <1>6. CASE entries' = entries
    BY <1>6 DEF ChangesOneEntry
  <1>7. CASE entries' = [entries EXCEPT ![name] = new]
    <2>1. /\ DOMAIN entries' = DOMAIN entries /\ entries'[name] = new
          /\ \A s \in DOMAIN entries \ {name} : entries'[s] = entries[s]
      BY <1>2, <1>7
    <2> HIDE DEF name
    <2>2. Text(args[1]) = name
      BY DEF name
    <2> QED
      BY <1>2, <1>3, <1>4, <1>5, <2>1, <2>2 DEF ChangesOneEntry
  <1> QED
    BY <1>1, <1>6, <1>7

LEMMA StepChangesOne == LineInv /\ SessionInv /\ [Next]_vars => [ChangesOneEntry]_vars
  <1> SUFFICES ASSUME LineInv, SessionInv, Next PROVE ChangesOneEntry
    OBVIOUS
  <1>1. CASE entries' = entries
    BY <1>1 DEF ChangesOneEntry
  <1>2. CASE DeleteCommand \/ AddEntry \/ UpdateEntry
    BY <1>2, DeleteChanges, AddChanges, UpdateChanges
  <1>3. CASE Reads \/ Guards \/ Signalled
    BY <1>1, <1>3 DEF Reads, Guards, Signalled, session
  <1>4. CASE Open \/ OpenFails \/ ExitCommand \/ OtherCommand \/ AddCommand \/ EditCommand
    BY <1>1, <1>4 DEF Open, OpenFails, ExitCommand, OtherCommand, AddCommand, EditCommand, session
  <1>5. CASE GotService \/ GotUsername \/ GotPassword \/ GotNewUsername \/ GotNewPassword
    BY <1>1, <1>5 DEF GotService, GotUsername, GotPassword, GotNewUsername, GotNewPassword, Answered
  <1>6. CASE RekeyCommand \/ GotCurrent \/ GotNew \/ GotAgain
    BY <1>1, <1>6 DEF RekeyCommand, GotCurrent, GotNew, GotAgain, Answered
  <1> QED
    BY <1>2, <1>3, <1>4, <1>5, <1>6 DEF Next, ShellStep

\* A command changes only the entry it names, and edit keeps the fields whose
\* prompts were answered blank, for any vault and answers of any length.
THEOREM ChangesTheNamed == Spec => OnlyTheNamedEntry
  <1>1. LineInv /\ SessionInv /\ [Next]_vars => [ChangesOneEntry]_vars
    BY StepChangesOne
  <1> QED
    BY <1>1, LineInit, LineStep, PTL DEF Spec, OnlyTheNamedEntry, ChangesOneEntry

-----------------------------------------------------------------------------
(* Trimmed texts. *)

Trimmed(t) == Len(t) = 0 \/ (t[1] # Space /\ t[Len(t)] # Space)

LEMMA CountTo == ASSUME NEW n \in Nat PROVE Cardinality(1..n) = n
  <1>1. Cardinality(1..n) = IF 1 > n THEN 0 ELSE n - 1 + 1
    BY FS_Interval
  <1> QED
    BY <1>1

LEMMA CountFromTo ==
    ASSUME NEW k \in Nat, NEW n \in Nat, k <= n PROVE Cardinality(k..n) = n - k + 1
  <1>1. Cardinality(k..n) = IF k > n THEN 0 ELSE n - k + 1
    BY FS_Interval
  <1> QED
    BY <1>1

\* The character behind the leading spaces is none.
LEMMA LeadingFacts ==
    ASSUME NEW t \in Seq(Nat), Leading(t) < Len(t)
    PROVE  t[Leading(t) + 1] # Space
  <1> DEFINE n == Len(t)
             P == {i \in DOMAIN t : \A j \in 1..i : t[j] = Space}
             rest == (1..n) \ P
  <1>1. n \in Nat /\ DOMAIN t = 1..n /\ Leading(t) = Cardinality(P)
    BY DEF Leading
  <1> HIDE DEF n
  <1>2. rest # {}
    <2> SUFFICES ASSUME rest = {} PROVE FALSE
      OBVIOUS
    <2>1. P = 1..n
      BY <1>1
    <2>2. Leading(t) = n
      BY <1>1, <2>1, CountTo
    <2> QED
      BY <1>1, <2>2 DEF n
  <1>3. rest \subseteq Nat
    BY <1>1
  <1>4. PICK k \in rest : \A x \in rest : k <= x
    <2> HIDE DEF rest
    <2> QED
      BY <1>2, <1>3, LeastNumber
  <1>5. k \in 1..n /\ k \in Nat /\ k >= 1 /\ k - 1 \in Nat
    BY <1>1, <1>4
  <1>6. ASSUME NEW j \in 1..(k - 1) PROVE j \in P
    <2>1. j \in 1..n /\ ~(k <= j)
      BY <1>1, <1>5
    <2> QED
      BY <1>4, <2>1
  <1>7. PICK m \in 1..k : t[m] # Space
    BY <1>1, <1>4, <1>5
  <1>8. m = k
    <2> SUFFICES ASSUME m # k PROVE FALSE
      OBVIOUS
    <2>1. m \in 1..(k - 1) /\ m \in 1..m
      BY <1>5
    <2> QED
      BY <1>6, <1>7, <2>1
  <1>9. P = 1..(k - 1)
    <2>1. ASSUME NEW j \in P PROVE j \in 1..(k - 1)
      <3>1. j \in 1..n /\ \A x \in 1..j : t[x] = Space
        BY <1>1
      <3>2. ~(k <= j)
        <4>1. k <= j => k \in 1..j
          BY <1>1, <1>5, <3>1
        <4> QED
          BY <1>7, <1>8, <3>1, <4>1
      <3> QED
        BY <1>1, <1>5, <3>1, <3>2
    <2> QED
      BY <1>6, <2>1
  <1>10. Leading(t) = k - 1
    BY <1>1, <1>5, <1>9, CountTo
  <1> QED
    BY <1>5, <1>7, <1>8, <1>10

\* The character before the trailing spaces is none.
LEMMA TrailingFacts ==
    ASSUME NEW t \in Seq(Nat), Trailing(t) < Len(t)
    PROVE  t[Len(t) - Trailing(t)] # Space
  <1> DEFINE n == Len(t)
             Q == {i \in DOMAIN t : \A j \in i..n : t[j] = Space}
  <1>1. n \in Nat /\ DOMAIN t = 1..n /\ Trailing(t) = Cardinality(Q) /\ Trailing(t) < n
    BY DEF Trailing
  <1> HIDE DEF n
  <1>2. CASE Q = {}
    <2>1. Trailing(t) = 0
      BY <1>1, <1>2, FS_EmptySet
    <2>2. n \in 1..n /\ n - 0 = n
      BY <1>1, <2>1
    <2>3. PICK j \in n..n : t[j] # Space
      BY <1>1, <1>2, <2>2
    <2>4. j = n
      BY <1>1
    <2> QED
      BY <2>1, <2>2, <2>3, <2>4 DEF n
  <1>3. CASE Q # {}
    <2>1. Q \subseteq Nat
      BY <1>1
    <2>2. PICK k \in Q : \A x \in Q : k <= x
      <3> HIDE DEF Q
      <3> QED
        BY <1>3, <2>1, LeastNumber
    <2>3. k \in 1..n /\ \A j \in k..n : t[j] = Space
      BY <1>1, <2>2
    <2>4. Q = k..n
      <3>1. ASSUME NEW j \in k..n PROVE j \in Q
        <4>1. j \in 1..n /\ \A x \in j..n : x \in k..n
          BY <1>1, <2>3
        <4> QED
          BY <1>1, <2>3, <4>1
      <3>2. ASSUME NEW j \in Q PROVE j \in k..n
        <4>1. k <= j /\ j \in 1..n
          BY <1>1, <2>2
        <4> QED
          BY <1>1, <2>3, <4>1
      <3> QED
        BY <3>1, <3>2
    <2>5. Trailing(t) = n - k + 1
      <3>1. k \in Nat /\ k <= n
        BY <1>1, <2>3
      <3> QED
        BY <1>1, <2>4, <3>1, CountFromTo
    <2> HIDE DEF Q
    <2>6. k - 1 \in 1..n /\ n - Trailing(t) = k - 1 /\ ~(k <= k - 1)
      BY <1>1, <2>3, <2>5
    <2>7. k - 1 \notin Q
      BY <2>2, <2>6
    <2>8. PICK j \in (k - 1)..n : t[j] # Space
      BY <1>1, <2>6, <2>7 DEF Q
    <2>9. j = k - 1
      <3>1. j = k - 1 \/ j \in k..n
        BY <1>1, <2>3
      <3> QED
        BY <2>3, <2>8, <3>1
    <2> QED
      BY <2>6, <2>8, <2>9 DEF n
  <1> QED
    BY <1>2, <1>3

\* trim_secure leaves no space at either end.
LEMMA TrimTrims ==
    ASSUME NEW s \in Str, Clean(s)
    PROVE  Trimmed(Text(trim_secure(s)))
  <1> DEFINE t == Text(s)
             k == Leading(t)
             front == erase(s, 1, k)
             f == Text(front)
             back == Trailing(f)
             last == erase(front, front.size - back + 1, front.size)
             r == Text(last)
  <1>1. t \in Seq(Nat) /\ Len(t) = s.size /\ s.size \in Nat
    BY TextFacts
  <1>2. k \in Nat /\ k <= s.size
    BY <1>1, PrefixCount
  <1>3. trim_secure(s) = last
    BY DEF trim_secure
  <1>4. k < s.size => t[k + 1] # Space
    BY <1>1, LeadingFacts
  <1> HIDE DEF k
  <1>5. /\ front \in Str /\ Clean(front)
        /\ 1 <= k => front.size = (1 - 1) + (s.size - k)
        /\ \A j \in 1..front.size : f[j] = IF 1 > k \/ j < 1 THEN t[j] ELSE t[j + (k - 1 + 1)]
    <2>1. 1 \in Nat \ {0}
      OBVIOUS
    <2> QED
      BY <1>2, <2>1, EraseFacts
  <1>6. 1 > k => front = s
    BY DEF erase
  <1> HIDE DEF t, front
  <1>7. f \in Seq(Nat) /\ Len(f) = front.size /\ front.size \in Nat
    BY <1>5, TextFacts
  <1>8. front.size > 0 => f[1] # Space
    <2> SUFFICES ASSUME front.size > 0 PROVE f[1] # Space
      OBVIOUS
    <2>1. 1 \in 1..front.size
      BY <1>7
    <2>2. CASE 1 > k
      <3>1. k = 0 /\ front.size = s.size
        BY <1>2, <1>6, <2>2
      <3>2. f[1] = t[1]
        BY <1>5, <2>1, <2>2
      <3> QED
        BY <1>2, <1>4, <3>1, <3>2
    <2>3. CASE ~(1 > k)
      <3>1. f[1] = t[1 + (k - 1 + 1)] /\ 1 + (k - 1 + 1) = k + 1
        BY <1>2, <1>5, <2>1, <2>3
      <3>2. k < s.size
        BY <1>1, <1>2, <1>5, <2>3
      <3> QED
        BY <1>4, <3>1, <3>2
    <2> QED
      BY <2>2, <2>3
  <1>9. back \in Nat /\ back <= front.size
    BY <1>7, PrefixCount
  <1>10. back < front.size => f[front.size - back] # Space
    BY <1>7, TrailingFacts
  <1> HIDE DEF back
  <1> DEFINE p == front.size - back + 1
  <1>11. p \in Nat \ {0} /\ front.size <= front.size /\ front.size \in Nat
    BY <1>7, <1>9
  <1>12. /\ last \in Str /\ Clean(last)
         /\ p <= front.size => last.size = (p - 1) + (front.size - front.size)
         /\ \A j \in 1..last.size :
              r[j] = IF p > front.size \/ j < p THEN f[j] ELSE f[j + (front.size - p + 1)]
    BY <1>5, <1>11, EraseFacts
  <1>13. p > front.size => last = front
    BY DEF erase
  <1> HIDE DEF last, f
  <1>14. last.size = front.size - back
    <2>1. CASE p > front.size
      BY <1>7, <1>9, <1>13, <2>1
    <2>2. CASE ~(p > front.size)
      BY <1>7, <1>9, <1>12, <2>2
    <2> QED
      BY <2>1, <2>2
  <1>15. ASSUME NEW j \in 1..last.size PROVE r[j] = f[j]
    <2>1. p > front.size \/ j < p
      BY <1>7, <1>9, <1>14
    <2> QED
      BY <1>12, <2>1
  <1>16. Len(r) = last.size /\ last.size \in Nat
    BY <1>12, TextFacts
  <1> HIDE DEF r, p
  <1>17. CASE last.size = 0
    BY <1>3, <1>16, <1>17 DEF Trimmed, r
  <1>18. CASE last.size # 0
    <2>1. 1 \in 1..last.size /\ last.size \in 1..last.size
      BY <1>16, <1>18
    <2>2. front.size > 0 /\ back < front.size
      BY <1>7, <1>9, <1>14, <1>16, <1>18
    <2>3. r[1] # Space /\ r[last.size] # Space
      BY <1>8, <1>10, <1>14, <1>15, <2>1, <2>2
    <2> QED
      BY <1>3, <1>16, <2>3 DEF Trimmed, r
  <1> QED
    BY <1>17, <1>18

\* The trimming of the loop leaves a trimmed text alone.
LEMMA TrimmedStays ==
    ASSUME NEW t \in Seq(Nat), Trimmed(t)
    PROVE  Trim(t) = t
  <1>0. Len(t) \in Nat /\ DOMAIN t = 1..Len(t)
    OBVIOUS
  <1>1. CASE Len(t) = 0
    <2>1. t = <<>> /\ Words(t) = {}
      BY <1>0, <1>1 DEF Words
    <2>2. Leading(t) \in Nat
      BY PrefixCount
    <2>3. SubSeq(t, Leading(t) + 1, 0) = <<>>
      BY <2>1, <2>2
    <2> QED
      BY <2>1, <2>3 DEF Trim
  <1>2. CASE Len(t) # 0
    <2>1. 1 \in 1..Len(t) /\ Len(t) \in 1..Len(t)
      BY <1>0, <1>2
    <2>2. t[1] # Space /\ t[Len(t)] # Space
      BY <1>2 DEF Trimmed
    <2>3. Leading(t) = 0
      <3>1. ASSUME NEW i \in DOMAIN t PROVE 1 \in 1..i
        BY <1>0
      <3>2. {i \in DOMAIN t : \A j \in 1..i : t[j] = Space} = {}
        BY <2>2, <3>1
      <3> QED
        BY <3>2, FS_EmptySet DEF Leading
    <2>4. Trailing(t) = 0
      <3>1. ASSUME NEW i \in DOMAIN t PROVE Len(t) \in i..Len(t)
        BY <1>0
      <3>2. {i \in DOMAIN t : \A j \in i..Len(t) : t[j] = Space} = {}
        BY <2>2, <3>1
      <3> QED
        BY <3>2, FS_EmptySet DEF Trailing
    <2>5. Words(t) # {}
      BY <1>0, <2>1, <2>2 DEF Words
    <2>6. Trim(t) = SubSeq(t, 1, Len(t))
      BY <1>0, <2>3, <2>4, <2>5 DEF Trim
    <2>7. SubSeq(t, 1, Len(t)) = t
      OBVIOUS
    <2> QED
      BY <2>6, <2>7
  <1> QED
    BY <1>1, <1>2

-----------------------------------------------------------------------------
(* Entries are entered whole. *)

NonEmpty(t) == Len(t) > 0

\* What has been asked for until it was right, by the prompt that follows.
AnswersInv ==
    /\ prompt \in {"username", "password", "totp"} =>
           NonEmpty(Text(args[1])) /\ Trimmed(Text(args[1]))
    /\ prompt \in {"password", "totp"} => NonEmpty(Text(args[2])) /\ Trimmed(Text(args[2]))
    /\ prompt = "totp" => NonEmpty(Text(args[3]))
    /\ prompt = "new password" \/ prompt = "new totp" => Trimmed(Text(args[2]))

\* An answer that was taken, with the ones before it.
LEMMA AnsweredTexts ==
    ASSUME SessionInv, NEW s \in Str, Clean(s), NEW v \in BOOLEAN, NEW q, NEW n, Answered(s, v, q, n)
    PROVE  /\ v => /\ prompt' = n
                   /\ Len(args) = 0 => Text(args'[1]) = Text(s)
                   /\ Len(args) = 1 => Text(args'[1]) = Text(args[1]) /\ Text(args'[2]) = Text(s)
                   /\ Len(args) = 2 => /\ Text(args'[1]) = Text(args[1])
                                       /\ Text(args'[2]) = Text(args[2])
                                       /\ Text(args'[3]) = Text(s)
           /\ ~v => prompt' = q /\ args' = args
  <1>1. CASE ~v
    BY <1>1, AnsweredArgs
  <1>2. CASE v
    <2>1. /\ prompt' = n /\ args'[Len(args) + 1] = s
          /\ \A j \in 1..Len(args) : args'[j] = args[j]
      BY <1>2, AnsweredArgs
    <2>2. CASE Len(args) = 0
      BY <1>2, <2>1, <2>2
    <2>3. CASE Len(args) = 1
      <3>1. args'[2] = s /\ args'[1] = args[1]
        BY <2>1, <2>3
      <3> QED
        BY <1>2, <2>1, <2>3, <3>1
    <2>4. CASE Len(args) = 2
      <3>1. args'[3] = s /\ args'[1] = args[1] /\ args'[2] = args[2]
        BY <2>1, <2>4
      <3> QED
        BY <1>2, <2>1, <2>4, <3>1
    <2> QED
      BY <1>2, <2>1, <2>2, <2>3, <2>4
  <1> QED
    BY <1>1, <1>2

LEMMA SizeIs ==
    ASSUME NEW s \in Str, Clean(s)
    PROVE  s.size > 0 <=> NonEmpty(Text(s))
  BY TextFacts DEF NonEmpty

\* A prompt of add or edit whose answer is kept.
LEMMA AnswersKept ==
    ASSUME LineInv, SessionInv, AnswersInv,
           \/ GotService \/ GotUsername \/ GotPassword
           \/ GotNewUsername \/ GotNewPassword \/ GotCurrent \/ GotNew
    PROVE  AnswersInv'
  <1> DEFINE x == trim_secure(buf)
  <1>0. /\ buf \in Str /\ Clean(buf) /\ x \in Str /\ Clean(x) /\ Trimmed(Text(x))
        /\ (x.size > 0) \in BOOLEAN /\ (buf.size > 0) \in BOOLEAN
        /\ x.size > 0 <=> NonEmpty(Text(x))
        /\ buf.size > 0 <=> NonEmpty(Text(buf))
    BY TrimFacts, TrimTrims, SizeIs DEF LineInv
  <1>1. CASE GotService
    <2>1. /\ prompt = "service" /\ Len(args) = 0
          /\ Answered(x, x.size > 0 /\ Text(x) \notin DOMAIN entries, "service", "username")
      BY <1>1 DEF GotService, Got, SessionInv, ArgsInv
    <2> DEFINE v == x.size > 0 /\ Text(x) \notin DOMAIN entries
    <2>2. v \in BOOLEAN /\ (v => NonEmpty(Text(x)))
      BY <1>0
    <2> HIDE DEF x, v
    <2>3. CASE v
      <3>1. prompt' = "username" /\ Text(args'[1]) = Text(x)
        BY <1>0, <2>1, <2>2, <2>3, AnsweredTexts DEF v
      <3> QED
        BY <1>0, <2>2, <2>3, <3>1 DEF AnswersInv, Text
    <2>4. CASE ~v
      <3>1. prompt' = "service"
        BY <1>0, <2>1, <2>2, <2>4, AnsweredTexts DEF v
      <3> QED
        BY <3>1 DEF AnswersInv
    <2> QED
      BY <2>3, <2>4
  <1>2. CASE GotUsername
    <2>1. /\ prompt = "username" /\ Len(args) = 1
          /\ Answered(x, x.size > 0, "username", "password")
      BY <1>2 DEF GotUsername, Got, SessionInv, ArgsInv
    <2>2. NonEmpty(Text(args[1])) /\ Trimmed(Text(args[1]))
      BY <2>1 DEF AnswersInv
    <2> HIDE DEF x
    <2>3. CASE x.size > 0
      <3>1. prompt' = "password" /\ Text(args'[2]) = Text(x) /\ Text(args'[1]) = Text(args[1])
        BY <1>0, <2>1, <2>3, AnsweredTexts
      <3> QED
        BY <1>0, <2>2, <2>3, <3>1 DEF AnswersInv, Text
    <2>4. CASE ~(x.size > 0)
      <3>1. prompt' = "username" /\ args' = args
        BY <1>0, <2>1, <2>4, AnsweredTexts
      <3> QED
        BY <2>2, <3>1 DEF AnswersInv, Text
    <2> QED
      BY <2>3, <2>4
  <1>3. CASE GotPassword
    <2>1. /\ prompt = "password" /\ Len(args) = 2
          /\ Answered(buf, buf.size > 0, "password", "totp")
      BY <1>3 DEF GotPassword, Got, SessionInv, ArgsInv
    <2>2. /\ NonEmpty(Text(args[1])) /\ Trimmed(Text(args[1]))
          /\ NonEmpty(Text(args[2])) /\ Trimmed(Text(args[2]))
      BY <2>1 DEF AnswersInv
    <2>3. CASE buf.size > 0
      <3>1. /\ prompt' = "totp" /\ Text(args'[3]) = Text(buf)
            /\ Text(args'[1]) = Text(args[1]) /\ Text(args'[2]) = Text(args[2])
        BY <1>0, <2>1, <2>3, AnsweredTexts
      <3> QED
        BY <1>0, <2>2, <2>3, <3>1 DEF AnswersInv, Text
    <2>4. CASE ~(buf.size > 0)
      <3>1. prompt' = "password" /\ args' = args
        BY <1>0, <2>1, <2>4, AnsweredTexts
      <3> QED
        BY <2>2, <3>1 DEF AnswersInv, Text
    <2> QED
      BY <2>3, <2>4
  <1>4. CASE GotNewUsername
    <2>1. /\ prompt = "new username" /\ Len(args) = 1 /\ Answered(x, TRUE, "", "new password")
      BY <1>4 DEF GotNewUsername, Got, SessionInv, ArgsInv
    <2> HIDE DEF x
    <2>2. prompt' = "new password" /\ Text(args'[2]) = Text(x)
      BY <1>0, <2>1, AnsweredTexts
    <2> QED
      BY <1>0, <2>2 DEF AnswersInv, Text
  <1>5. CASE GotNewPassword
    <2>1. /\ prompt = "new password" /\ Len(args) = 2 /\ Answered(buf, TRUE, "", "new totp")
      BY <1>5 DEF GotNewPassword, Got, SessionInv, ArgsInv
    <2>2. prompt' = "new totp" /\ Text(args'[2]) = Text(args[2])
      BY <1>0, <2>1, AnsweredTexts
    <2> QED
      BY <2>1, <2>2 DEF AnswersInv, Text
  <1>6. CASE GotCurrent \/ GotNew
    <2>1. prompt' \in {"new", "again"}
      BY <1>6 DEF GotCurrent, GotNew, Answered, Ask
    <2> QED
      BY <2>1 DEF AnswersInv
  <1> QED
    BY <1>1, <1>2, <1>3, <1>4, <1>5, <1>6

LEMMA AnswersStep == LineInv /\ SessionInv /\ AnswersInv /\ [Next]_vars => AnswersInv'
  <1> SUFFICES ASSUME LineInv, SessionInv, AnswersInv, [Next]_vars PROVE AnswersInv'
    OBVIOUS
  <1>1. CASE UNCHANGED <<prompt, args>>
    BY <1>1 DEF AnswersInv, Text
  <1>2. CASE prompt' \in {"command", "service", "current", "new username"}
    BY <1>2 DEF AnswersInv
  <1>3. CASE Reads
    <2>1. prompt' = prompt
      BY <1>3, KeyFrame DEF Reads
    <2>2. args' = args
      BY <1>3 DEF Reads, session
    <2> QED
      BY <1>1, <2>1, <2>2
  <1>4. CASE Guards
    <2>1. prompt' = prompt
      BY <1>4 DEF Guards, GuardStep, SetRaw, RawFlag, RawHandlers, EchoFlag, EchoOff,
                  EchoHandlers, RestoreMode, RestoreFlag, RestoreHandlers
    <2>2. args' = args
      BY <1>4 DEF Guards, session
    <2> QED
      BY <1>1, <2>1, <2>2
  <1>5. CASE Signalled \/ UNCHANGED vars \/ OpenFails \/ ExitCommand
    BY <1>1, <1>5 DEF Signalled, Signal, vars, termVars, session, OpenFails, ExitCommand, Quit
  <1>6. CASE Open \/ OtherCommand \/ DeleteCommand \/ AddCommand \/ RekeyCommand
    BY <1>2, <1>6 DEF Open, OtherCommand, DeleteCommand, AddCommand, RekeyCommand, Ask
  <1>7. CASE EditCommand
    BY <1>2, <1>7 DEF EditCommand, Ask
  <1>8. CASE AddEntry \/ UpdateEntry \/ GotAgain
    BY <1>2, <1>8 DEF AddEntry, UpdateEntry, GotAgain, Ask
  <1>9. CASE \/ GotService \/ GotUsername \/ GotPassword
             \/ GotNewUsername \/ GotNewPassword \/ GotCurrent \/ GotNew
    BY <1>9, AnswersKept
  <1> QED
    BY <1>3, <1>4, <1>5, <1>6, <1>7, <1>8, <1>9 DEF Next, ShellStep

LEMMA WholeText ==
    ASSUME NEW t \in Seq(Nat), Trimmed(t)
    PROVE  Trim(t) = t /\ (NonEmpty(t) => t # <<>>)
  BY TrimmedStays DEF NonEmpty

LEMMA AddIsWhole ==
    ASSUME LineInv, SessionInv, AnswersInv, EntriesAreWhole, AddEntry
    PROVE  EntriesAreWhole'
  <1> DEFINE secret == Text(trim_secure(buf))
             name == Text(args[1])
             fields == [username |-> Text(args[2]), password |-> Text(args[3]), totp |-> secret]
  <1>1. IF IsBase32(secret)
        THEN entries' = [s \in DOMAIN entries \cup {name} |->
                          IF s = name THEN fields ELSE entries[s]]
        ELSE entries' = entries
    BY DEF AddEntry
  <1>2. Len(args) = 3 /\ prompt = "totp"
    BY DEF AddEntry, Got, SessionInv, ArgsInv
  <1>3. /\ NonEmpty(name) /\ Trimmed(name)
        /\ NonEmpty(Text(args[2])) /\ Trimmed(Text(args[2])) /\ NonEmpty(Text(args[3]))
    BY <1>2 DEF AnswersInv
  <1>4. name \in Seq(Nat) /\ Text(args[2]) \in Seq(Nat) /\ Text(args[3]) \in Seq(Nat)
    <2>1. 1 <= Len(args) /\ 2 <= Len(args) /\ 3 <= Len(args)
      BY <1>2
    <2> QED
      BY <2>1, ArgText
  <1>5. Text(args[3]) # <<>>
    BY <1>3, <1>4 DEF NonEmpty
  <1>6. IsBase32(secret) => Whole(name, fields)
    BY <1>3, <1>4, <1>5, WholeText DEF Whole
  <1> HIDE DEF name, fields, secret
  <1>7. CASE IsBase32(secret)
    BY <1>1, <1>6, <1>7 DEF EntriesAreWhole
  <1>8. CASE ~IsBase32(secret)
    BY <1>1, <1>8 DEF EntriesAreWhole
  <1> QED
    BY <1>7, <1>8

LEMMA UpdateIsWhole ==
    ASSUME LineInv, SessionInv, AnswersInv, EntriesAreWhole, UpdateEntry
    PROVE  EntriesAreWhole'
  <1> DEFINE secret == Text(trim_secure(buf))
             name == Text(args[1])
             old == entries[name]
             new == [username |-> OrKept(Text(args[2]), old.username),
                     password |-> Password(Text(args[3]), old.password),
                     totp |-> OrKept(secret, old.totp)]
  <1>1. entries' = IF ~IsBase32(secret) THEN entries ELSE [entries EXCEPT ![name] = new]
    BY DEF UpdateEntry
  <1>2. Len(args) = 3 /\ prompt = "new totp" /\ name \in DOMAIN entries
    BY DEF UpdateEntry, Got, SessionInv, ArgsInv
  <1>3. Trimmed(Text(args[2]))
    BY <1>2 DEF AnswersInv
  <1>4. Text(args[2]) \in Seq(Nat)
    <2>0. Len(args) = 3
      BY <1>2
    <2>1. 2 <= Len(args)
      BY <2>0
    <2> QED
      BY <2>1, ArgText
  <1>5. Whole(name, old)
    BY <1>2 DEF EntriesAreWhole
  <1>6. new.username # <<>> /\ Trim(new.username) = new.username
    BY <1>3, <1>4, <1>5, WholeText DEF OrKept, Whole
  <1>7. new.password # <<>>
    BY <1>5, GenerateAssumption DEF OrKept, Password, Whole
  <1>8. IsBase32(secret) => IsBase32(new.totp)
    BY <1>5 DEF OrKept, Whole
  <1>9. IsBase32(secret) => Whole(name, new)
    BY <1>5, <1>6, <1>7, <1>8 DEF Whole
  <1> HIDE DEF name, new, secret
  <1>10. CASE IsBase32(secret)
    BY <1>1, <1>2, <1>9, <1>10 DEF EntriesAreWhole
  <1>11. CASE ~IsBase32(secret)
    BY <1>1, <1>11 DEF EntriesAreWhole
  <1> QED
    BY <1>10, <1>11

LEMMA WholeStep ==
    LineInv /\ SessionInv /\ AnswersInv /\ EntriesAreWhole /\ [Next]_vars => EntriesAreWhole'
  <1> SUFFICES ASSUME LineInv, SessionInv, AnswersInv, EntriesAreWhole, [Next]_vars
               PROVE  EntriesAreWhole'
    OBVIOUS
  <1>1. CASE entries' = entries
    BY <1>1 DEF EntriesAreWhole
  <1>2. CASE DeleteCommand
    <2>1. PICK gone \in {Argument(Delete)} : entries' = [s \in DOMAIN entries \ {gone} |-> entries[s]]
      BY <1>2 DEF DeleteCommand
    <2> QED
      BY <2>1 DEF EntriesAreWhole
  <1>3. CASE AddEntry
    BY <1>3, AddIsWhole
  <1>4. CASE UpdateEntry
    BY <1>4, UpdateIsWhole
  <1>5. CASE Reads \/ Guards \/ Signalled
    BY <1>1, <1>5 DEF Reads, Guards, Signalled, session
  <1>6. CASE Open \/ OpenFails \/ ExitCommand \/ OtherCommand \/ AddCommand \/ EditCommand
    BY <1>1, <1>6 DEF Open, OpenFails, ExitCommand, OtherCommand, AddCommand, EditCommand, session
  <1>7. CASE GotService \/ GotUsername \/ GotPassword \/ GotNewUsername \/ GotNewPassword
    BY <1>1, <1>7 DEF GotService, GotUsername, GotPassword, GotNewUsername, GotNewPassword, Answered
  <1>8. CASE RekeyCommand \/ GotCurrent \/ GotNew \/ GotAgain
    BY <1>1, <1>8 DEF RekeyCommand, GotCurrent, GotNew, GotAgain, Answered
  <1>9. CASE UNCHANGED vars
    BY <1>1, <1>9 DEF vars, session
  <1> QED
    BY <1>2, <1>3, <1>4, <1>5, <1>6, <1>7, <1>8, <1>9 DEF Next, ShellStep

\* In a vault whose entries were whole when the shell opened it, they are whole
\* after any commands and answers: no prompt that was left blank, repeated or
\* answered with spaces makes an entry without a name, a username or a password.
THEOREM EntersWhole ==
    ASSUME \A s \in DOMAIN Stored : Whole(s, Stored[s])
    PROVE  Spec => []EntriesAreWhole
  <1>1. Init => AnswersInv /\ EntriesAreWhole
    BY DEF Init, TermInit, AnswersInv, EntriesAreWhole
  <1> QED
    BY <1>1, AnswersStep, WholeStep, LineInit, LineStep, PTL DEF Spec

===============================================================================
