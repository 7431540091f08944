-------------------------------- MODULE MCAudit --------------------------------
(***************************************************************************)
(* Instances of Audit for TLC.                                             *)
(***************************************************************************)
EXTENDS Audit

MCEntry(pwd, len, weak, updated) ==
    [pwd |-> pwd, len |-> len, weak |-> weak, updated |-> updated]

\* Two entries with one password, one of them old, and one from the future; one
\* that was never stamped; an empty password and one too long for the worker.
MCVaults ==
    {<<>>,
     <<MCEntry("p", 1, TRUE, 3), MCEntry("q", 2, FALSE, 9), MCEntry("p", 1, TRUE, 8)>>,
     <<MCEntry("s", 2, TRUE, 0)>>,
     <<MCEntry("", 0, FALSE, 0), MCEntry("r", 3, TRUE, 4)>>}

===============================================================================
