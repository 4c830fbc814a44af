----------------------------- MODULE MCSpecSync -----------------------------
(* Two sections.  The documents of the first have one operationId for       *)
(* several paths and methods, those of the second a dangerous name and an   *)
(* endpoint without tags and operationId.                                   *)
EXTENDS SpecSync, TLC

CONSTANTS s1, s2

MCSections == {s1, s2}

Find(method, path, param) ==
  [section |-> s1, tag |-> "devices", segment |-> "devices", stem |-> "find",
   method |-> method, path |-> path, param |-> param]

Get == Find("GET", 1, None)
Del == Find("DELETE", 1, None)
ById == Find("GET", 2, "byid")
AlsoById == Find("GET", 3, "byid")
AgainById == Find("GET", 4, "byid")

Wipe(method) == [section |-> s2, tag |-> "devices", segment |-> "devices", stem |-> "wipe",
                 method |-> method, path |-> 1, param |-> "byid"]
Plain == [section |-> s2, tag |-> None, segment |-> "bulk", stem |-> None,
          method |-> "POST", path |-> 2, param |-> ""]

Small == {Get}
Large == {Get, ById, AlsoById, AgainById}
Usual == {Wipe("POST"), Plain}

MCCatalog == (s1 :> {Small, {Del}, {Get, Del}, Large}) @@
             (s2 :> {{}, Usual, {Wipe("GET")}})
MCCommitted == {(s1 :> Small) @@ (s2 :> Usual), (s1 :> Large) @@ (s2 :> {})}

WipeName == OpName({Wipe("POST")}, Wipe("POST"))

(* An older document: it knows the destructive command under its name. *)
MCEmbedded == Parsed(buildPolicyYAML(extractOps({Get, Del})) \cup
                     {Block(WipeName, Destructive, "plain")})

MCPinned == {<<WipeName, "POST">>}

MCOverrides == {Entry("write", Absent, NoThreshold)}
=============================================================================
