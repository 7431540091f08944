--------------------------------- MODULE Formats ---------------------------------
(***************************************************************************)
(* The formats in which entries leave the program, as functions on         *)
(* sequences of characters: the body of the vault file (src/vault.cpp) and *)
(* the CSV and JSON exports (src/export_command.cpp), with readers for     *)
(* each: the program's own for the vault, and for the exports what RFC     *)
(* 4180 and RFC 8259 say of quoted fields and strings.                     *)
(*                                                                         *)
(* A character is a number below Base.  Base is the number of values of a  *)
(* byte (256); the widths of the integers are the code's.                  *)
(***************************************************************************)
EXTENDS Integers, Sequences, SequencesExt

CONSTANTS
    Base,
    Quote, Comma, Newline, Apostrophe, Backslash,  \* characters with a meaning
    Formula,     \* leading characters a spreadsheet takes for a formula
    Named,       \* control characters to the letter of their JSON escape
    Controls,    \* the characters below 0x20
    LetterU      \* the letter of an escape by number

ASSUME BaseAssumption == Base \in Nat /\ Base > 1
ASSUME CsvAssumption ==
    /\ {Quote, Comma, Newline, Apostrophe} \subseteq Nat
    /\ Quote \notin {Comma, Newline, Apostrophe} /\ Comma # Newline
ASSUME JsonAssumption ==
    /\ {Backslash, LetterU} \subseteq Nat
    /\ Quote # Backslash /\ LetterU \notin {Quote, Backslash}
    /\ DOMAIN Named \subseteq Controls /\ Controls \subseteq Nat
    /\ {Quote, Backslash} \cap Controls = {}
    /\ \A c \in DOMAIN Named :
        /\ Named[c] \in Nat \ {Quote, Backslash, LetterU}
        /\ \A d \in DOMAIN Named : Named[c] = Named[d] => c = d

-----------------------------------------------------------------------------
(* The vault file. *)

\* What a byte counts for at each place; no integer is wider than 8 bytes.
Weight[k \in 0..8] == IF k = 0 THEN 1 ELSE Base * Weight[k - 1]

\* Little-endian: write_uint32 and write_uint64.
WriteUint(v, width) == [i \in 1..width |-> (v \div Weight[i - 1]) % Base]

WriteString(t) == WriteUint(Len(t), 4) \o t

\* Mutant of WriteEntry: the stamp is written as 32 bits.
WriteEntryShortStamp(e) ==
    WriteString(e.service) \o WriteString(e.username) \o WriteString(e.password)
        \o WriteUint(e.updated, 4) \o WriteString(e.totp)

WriteEntry(e) ==
    WriteString(e.service) \o WriteString(e.username) \o WriteString(e.password)
        \o WriteUint(e.updated, 8) \o WriteString(e.totp)

serialize(es) ==
    WriteUint(Len(es), 4) \o FlattenSeq([i \in DOMAIN es |-> WriteEntry(es[i])])

\* A reader is at an offset of the bytes, or has thrown; val is what it read last.
Malformed == [ok |-> FALSE, offset |-> 0, val |-> <<>>]
Fits(bytes, r, n) == r.ok /\ r.offset + n <= Len(bytes)

ReadUint(bytes, r, width) ==
    LET digits[k \in 0..width] ==
            IF k = 0 THEN 0 ELSE digits[k - 1] + bytes[r.offset + k] * Weight[k - 1]
    IN  IF Fits(bytes, r, width)
        THEN [ok |-> TRUE, offset |-> r.offset + width, val |-> digits[width]]
        ELSE Malformed

ReadString(bytes, r) ==
    LET n == ReadUint(bytes, r, 4)
    IN  IF n.ok /\ Fits(bytes, n, n.val)
        THEN [ok |-> TRUE, offset |-> n.offset + n.val,
              val |-> SubSeq(bytes, n.offset + 1, n.offset + n.val)]
        ELSE Malformed

\* An older file may end before the time stamp or the secret.
ReadEntry(bytes, r, version) ==
    LET service == ReadString(bytes, r)
        username == ReadString(bytes, service)
        password == ReadString(bytes, username)
        stamp == IF Fits(bytes, password, 8) THEN ReadUint(bytes, password, 8)
                 ELSE [password EXCEPT !.val = 0]
        totp == IF version >= 3 /\ Fits(bytes, stamp, 4) THEN ReadString(bytes, stamp)
                ELSE [stamp EXCEPT !.val = <<>>]
    IN  IF ~totp.ok THEN Malformed
        ELSE [ok |-> TRUE, offset |-> totp.offset,
              val |-> [service |-> service.val, username |-> username.val,
                       password |-> password.val, updated |-> stamp.val, totp |-> totp.val]]

\* Vault::add_entry: stamp an entry without a time, replace one of the same name.
add_entry(es, e, now) ==
    LET stamped == IF e.updated = 0 THEN [e EXCEPT !.updated = now] ELSE e
        same == {i \in DOMAIN es : es[i].service = e.service}
    IN  IF same = {} THEN Append(es, stamped)
        ELSE [i \in DOMAIN es |-> IF i \in same THEN stamped ELSE es[i]]

\* One turn of the loop: st is the reader and the entries so far.
LoadEntry(bytes, st, version, now) ==
    LET r == IF st.reader.ok THEN ReadEntry(bytes, st.reader, version) ELSE Malformed
    IN  [reader |-> r, es |-> IF r.ok THEN add_entry(st.es, r.val, now) ELSE <<>>]

deserialize(bytes, version, now) ==
    LET count == ReadUint(bytes, [ok |-> TRUE, offset |-> 0, val |-> 0], 4)
        loaded[k \in 0..count.val] ==
            IF k = 0 THEN [reader |-> count, es |-> <<>>]
            ELSE LoadEntry(bytes, loaded[k - 1], version, now)
    IN  IF bytes = <<>> THEN [ok |-> TRUE, es |-> <<>>]
        ELSE IF ~count.ok THEN [ok |-> FALSE, es |-> <<>>]
        ELSE [ok |-> loaded[count.val].reader.ok, es |-> loaded[count.val].es]

-----------------------------------------------------------------------------
(* The exports. *)

Fields4(e) == <<e.service, e.username, e.password, e.totp>>

\* A leading formula character gets an apostrophe in front.
Guarded(t) == IF t # <<>> /\ t[1] \in Formula THEN <<Apostrophe>> \o t ELSE t
Doubled(c) == IF c = Quote THEN <<Quote, Quote>> ELSE <<c>>

\* Mutant of write_csv_field: quotes are not doubled.
CsvFieldPlain(t) == <<Quote>> \o Guarded(t) \o <<Quote>>

write_csv_field(t) == <<Quote>> \o FlattenSeq([i \in DOMAIN Guarded(t) |-> Doubled(Guarded(t)[i])]) \o <<Quote>>

\* The rows, behind the header line.
CsvCell(t, end) == write_csv_field(t) \o <<end>>
CsvRow(e) ==
    CsvCell(e.service, Comma) \o CsvCell(e.username, Comma)
        \o CsvCell(e.password, Comma) \o CsvCell(e.totp, Newline)

write_csv(es) == FlattenSeq([i \in DOMAIN es |-> CsvRow(es[i])])

\* RFC 4180: inside quotes everything is text but a quote, which ends the field
\* unless another one follows.
CsvChar(st, c) ==
    CASE st.mode = "in" /\ c = Quote -> [st EXCEPT !.mode = "quote"]
      [] st.mode = "in" /\ c # Quote -> [st EXCEPT !.field = Append(@, c)]
      [] st.mode = "quote" /\ c = Quote -> [st EXCEPT !.mode = "in", !.field = Append(@, c)]
      [] st.mode = "out" /\ c = Quote -> [st EXCEPT !.mode = "in"]
      [] st.mode = "quote" /\ c = Comma ->
            [st EXCEPT !.mode = "out", !.field = <<>>, !.row = Append(@, st.field)]
      [] st.mode = "quote" /\ c = Newline ->
            [st EXCEPT !.mode = "out", !.field = <<>>, !.row = <<>>,
                       !.rows = Append(@, Append(st.row, st.field))]
      [] OTHER -> [st EXCEPT !.mode = "bad"]

\* What no export holds: a row without fields, a character that is none.
NotCsv == << <<>> >>
NotJson == <<2 * Base>>

ReadCsv(t) ==
    LET after[k \in 0..Len(t)] ==
            IF k = 0 THEN [mode |-> "out", field |-> <<>>, row |-> <<>>, rows |-> <<>>]
            ELSE CsvChar(after[k - 1], t[k])
    IN  IF after[Len(t)].mode = "out" THEN after[Len(t)].rows ELSE NotCsv

\* \u and the number of a control character, here as one digit behind Base.
JsonChar(c) ==
    CASE c \in {Quote, Backslash} -> <<Backslash, c>>
      [] c \in DOMAIN Named -> <<Backslash, Named[c]>>
      [] c \in Controls \ DOMAIN Named -> <<Backslash, LetterU, Base + c>>
      [] OTHER -> <<c>>

write_json_string(t) == <<Quote>> \o FlattenSeq([i \in DOMAIN t |-> JsonChar(t[i])]) \o <<Quote>>

\* RFC 8259: a string has no bare quote, backslash or control character.
JsonStep(st, c) ==
    CASE st.mode = "start" /\ c = Quote -> [st EXCEPT !.mode = "text"]
      [] st.mode = "text" /\ c = Backslash -> [st EXCEPT !.mode = "escape"]
      [] st.mode = "text" /\ c = Quote -> [st EXCEPT !.mode = "end"]
      [] st.mode = "text" /\ c \notin Controls \cup {Quote, Backslash} ->
            [st EXCEPT !.text = Append(@, c)]
      [] st.mode = "escape" /\ c \in {Quote, Backslash} ->
            [st EXCEPT !.mode = "text", !.text = Append(@, c)]
      [] st.mode = "escape" /\ \E k \in DOMAIN Named : Named[k] = c ->
            [st EXCEPT !.mode = "text",
                       !.text = Append(@, CHOOSE k \in DOMAIN Named : Named[k] = c)]
      [] st.mode = "escape" /\ c = LetterU -> [st EXCEPT !.mode = "number"]
      [] st.mode = "number" -> [st EXCEPT !.mode = "text", !.text = Append(@, c - Base)]
      [] OTHER -> [st EXCEPT !.mode = "bad"]

ReadJsonString(t) ==
    LET after[k \in 0..Len(t)] ==
            IF k = 0 THEN [mode |-> "start", text |-> <<>>] ELSE JsonStep(after[k - 1], t[k])
    IN  IF after[Len(t)].mode = "end" THEN after[Len(t)].text ELSE NotJson

-----------------------------------------------------------------------------
(* What makes them correct, for a list of entries. *)

\* Loading a vault gives the entries that were saved, in their order, with
\* those that had no time stamp stamped now.
LoadReadsSave(es, now) ==
    deserialize(serialize(es), 3, now) =
        [ok |-> TRUE,
         es |-> [i \in DOMAIN es |->
                  IF es[i].updated = 0 THEN [es[i] EXCEPT !.updated = now] ELSE es[i]]]

\* An export has one row of four fields for each entry, whatever characters
\* they hold, and each reads back as it is, or in CSV with its apostrophe.
ExportsReadBack(es) ==
    /\ ReadCsv(write_csv(es)) =
        [i \in DOMAIN es |-> [k \in 1..4 |-> Guarded(Fields4(es[i])[k])]]
    /\ \A i \in DOMAIN es : \A k \in 1..4 :
        ReadJsonString(write_json_string(Fields4(es[i])[k])) = Fields4(es[i])[k]

===============================================================================
