------------------------------- MODULE MCSetup -------------------------------
(* Two processes, each pair of commands that meet in a file, on a store     *)
(* that is empty or lists one profile.                                      *)
EXTENDS Setup, TLC

CONSTANTS p1, p2, c1, c2, g1

MCProcs   == {p1, p2}
MCClients == {c1, c2}
MCOGs     == {g1}

Command(kind, names, interactive, validate) ==
  [kind |-> kind, names |-> names, interactive |-> interactive, validate |-> validate]

Advanced == Command("setup", <<"operator", "ro">>, TRUE, TRUE)
Quick    == Command("setup", <<"operator">>, TRUE, TRUE)
Scripted == Command("setup", <<"operator">>, FALSE, TRUE)
Unattended == Command("setup", <<"operator">>, FALSE, FALSE)
Add(n)   == Command("add", <<n>>, TRUE, FALSE)
Use(n)   == Command("use", <<n>>, TRUE, FALSE)
Group    == Command("og", <<"ro">>, FALSE, FALSE)
Refused(kind) == Command(kind, <<"operator">>, FALSE, FALSE)

MCRuns == {(p1 :> r[1]) @@ (p2 :> r[2]) : r \in {
  <<Advanced, Refused("add")>>, <<Scripted, Add("ro")>>, <<Unattended, Group>>, <<Unattended, Use("operator")>>,
  <<Quick, Use("ro")>>, <<Add("operator"), Add("ro")>>, <<Add("ro"), Refused("use")>>}}

MCFound == {Nobody, [operator |-> c1]}
=============================================================================
