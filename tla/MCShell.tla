--------------------------------- MODULE MCShell ---------------------------------
(***************************************************************************)
(* An instance of Shell for TLC: the commands are words over two letters,  *)
(* chosen so that a prefix may stand for one command, for several or none. *)
(* The entries that are in the session are also written in every format    *)
(* and read back.                                                          *)
(***************************************************************************)
EXTENDS Shell, Formats, TLC

tab == 1
ctrl == 2
a == 5
b == 6
equals == 8
high == 12

MCHidden == {"master", "password", "new password", "current", "new", "again"}
MCAdd == <<a, a>>
MCDelete == <<a, b>>
MCEdit == <<b, b>>
MCUpdate == <<a>>
MCRekey == <<a, b, a>>
MCExit == <<b>>
MCOther == {<<b, a, high, high>>}
MCCompletes == {MCDelete} \cup MCOther
MCGenerate == <<a>>
MCGenerated == <<equals, Quote>>
MCMaster == <<a>>
MCStored == <<b>> :> [username |-> <<a, Quote>>, password |-> <<tab, ctrl>>, totp |-> <<>>]

MCKeys == [p \in Prompts |->
    CASE p = "command" -> {Space, a, b}
      [] p \in {"service", "username"} -> {Space, a}
      [] p = "password" -> {Quote}
      [] p \in {"new username", "totp", "new totp"} -> {Space, b}
      [] OTHER -> {a}]
MCMaxLen == [p \in Prompts |->
    CASE p = "command" -> 4
      [] p = "service" -> 3
      [] p \in {"totp", "new totp"} -> 2
      [] OTHER -> 1]

MCNamed == tab :> a

-----------------------------------------------------------------------------
(* The entries as the vault lists them, with time stamps: the first has none, *)
(* the second needs more than 32 bits.                                        *)

Now == 7
Stamp(i) == IF i = 1 THEN 0 ELSE 7 * Weight[4] + i

EntryList ==
    LET names == CHOOSE names \in [1..Cardinality(DOMAIN entries) -> DOMAIN entries] :
                    \A i, j \in DOMAIN names : i # j => names[i] # names[j]
    IN  [i \in DOMAIN names |->
          [service |-> names[i], username |-> entries[names[i]].username,
           password |-> entries[names[i]].password, totp |-> entries[names[i]].totp,
           updated |-> Stamp(i)]]

\* The state in which the session's entries are looked at.
Idle == At("ask") /\ prompt = "command"

\* Whatever was entered at the prompts, the vault that is saved loads as it was.
VaultReadsBack == Idle => LoadReadsSave(EntryList, Now)

\* Whatever was entered at the prompts, the exports keep rows and fields apart.
ExportReadsBack == Idle => ExportsReadBack(EntryList)

===============================================================================
