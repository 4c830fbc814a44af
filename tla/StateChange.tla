---------------------------- MODULE StateChange ----------------------------
(***************************************************************************)
(* Invocations of generated commands, each a process of its own: runOp,    *)
(* executeRead and runStateChangingOp (cmd/ws1/sections.go) with what they *)
(* call: buildAPIClient, captureSnapshotsFor, approval.Run, Client.Do and  *)
(* writeAuditRow.  They share the tenant's resources, which also change    *)
(* behind their back, the active-profile file, and the audit log.          *)
(* executeRead is step 5 of runStateChangingOp, and is modelled as such.   *)
(*                                                                         *)
(* approval.Run is the promise of module Decision, which module Approval   *)
(* implements.  A resource is its version: a GET returns the version, and  *)
(* FreshnessCheck compares two of them; a change that only adds fields,    *)
(* which FreshnessCheck ignores, is no new version.                        *)
(***************************************************************************)
EXTENDS Policy, AuditChain

CONSTANTS
  None, Gone,     \* no snapshot; a resource that was removed
  Empty,          \* a snapshot without a body
  Invocations,    \* processes
  Resources,
  Commands,       \* command lines: see CommandOK
  PolicyFiles,    \* what loadActivePolicy may find: one or two candidates
  Configured,     \* profiles that have credentials in profiles.yaml
  MaxVersion,     \* bound: changes of one resource
  MaxSwitches     \* bound: `ws1 profile use` by the user

CommandOK(c) ==
  /\ c.resource \in Resources
  /\ c.override \in Profiles \cup {Absent}  \* --profile
  /\ {c.dryRun,                         \* --dry-run
      c.dispatcher, c.dangerous,        \* path shape, command name on the list
      c.snapshot,                       \* findSnapshotOp finds a GET
      c.mutates} \subseteq BOOLEAN      \* the HTTP method is not GET

FilesOK(f) ==
  /\ DOMAIN f \in {1..1, 1..2}
  /\ \A n \in DOMAIN f : f[n] \in {Missing, Malformed} \/ IsDocument(f[n])

ASSUME StateChangeAssumption ==
  /\ IsDocument(Embedded) /\ \A f \in PolicyFiles : FilesOK(f)
  /\ \A c \in Commands : CommandOK(c)
  /\ Configured \subseteq Profiles
  /\ None \notin Nat /\ Gone \notin Nat /\ Empty \notin Nat
  /\ None # Gone /\ None # Empty /\ Gone # Empty
  /\ MaxVersion \in Nat /\ MaxSwitches \in Nat

VARIABLES
  version,      \* version[r]: the resource on the tenant, or Gone
  active,       \* the active-profile file: a profile, or Absent while rewritten
  switchTo,     \* the profile being written to that file, or Absent
  switches,
  log,          \* audit.log
  files,        \* the policy files on this machine
  pc, cmd,      \* where invocation i is, and its command line
  entry,        \* its policy entry, escalated
  creds,        \* the profile the API client signs in as
  profile,      \* the profile whose capabilities were checked
  seen,         \* the snapshot: a version, Empty or None
  said,         \* what the user said in the browser, or "none"
  verdict,      \* the Outcome approval.Run returned, or "none"
  recheck,      \* the second snapshot
  wire,         \* the request in flight, from the server's side
  tries,        \* requests sent by Client.Do for the operation
  applied,      \* history: times the tenant carried out the operation
  tail,         \* what tailOne read
  code          \* the envelope's code once emitted, "none" before

envVars   == <<version, active, switchTo, switches, files>>
localVars == <<cmd, entry, creds, profile>>
askVars   == <<seen, said, verdict, recheck>>
callVars  == <<wire, tries, applied>>
auditVars == <<log, tail>>
vars == <<envVars, localVars, askVars, callVars, auditVars, pc, code>>

Steps == {"idle", "capability", "snapshot", "approval", "recheck",
          "send", "wait", "backoff", "tail", "append", "done", "crashed"}
Codes == {"none", "OK", "INTERNAL_ERROR", "NETWORK_ERROR", "RATE_LIMITED",
          "AUTH_INSUFFICIENT_FOR_OP", "IDENTIFIER_NOT_FOUND",
          "APPROVAL_DENIED", "APPROVAL_TIMEOUT", "STALE_RESOURCE"}

Each(v) == [i \in Invocations |-> v]

Init ==
  /\ version = [r \in Resources |-> 0]
  /\ active \in Profiles /\ switchTo = Absent /\ switches = 0
  /\ log = <<>>
  /\ files \in PolicyFiles
  /\ pc = Each("idle") /\ cmd \in [Invocations -> Commands]
  /\ entry = Each(Blank) /\ creds = Each(Absent) /\ profile = Each(Absent)
  /\ seen = Each(None) /\ said = Each("none")
  /\ verdict = Each("none") /\ recheck = Each(None)
  /\ wire = Each("none") /\ tries = Each(0) /\ applied = Each(0)
  /\ tail = Each(Genesis)
  /\ code = Each("none")
-----------------------------------------------------------------------------
(* The helpers the handlers are written with. *)
Go(i, from, to) == pc[i] = from /\ pc' = [pc EXCEPT ![i] = to] /\ UNCHANGED code

(* emitAndExit: the envelope is printed and the process ends. *)
Emit(i, from, c) ==
  /\ pc[i] = from
  /\ pc' = [pc EXCEPT ![i] = "done"]
  /\ code' = [code EXCEPT ![i] = c]

(* The profile of this invocation: --profile, or the active one just read. *)
ProfileOf(i) == IF cmd[i].override # Absent THEN cmd[i].override ELSE active

EntryOf(i) ==
  Escalate(cmd[i].dispatcher, cmd[i].dangerous,
           Classify(loadActivePolicy(files), cmd[i].op))

(* targetCountFor: a generated command's arguments are never lists. *)
TargetCount == 1

NeedsApproval(i) == RequiresApproval(entry[i], TargetCount)

Resource(i) == version[cmd[i].resource]
-----------------------------------------------------------------------------
(* runOp: buildAPIClient fails on an unreadable active profile or one       *)
(* without credentials.                                                     *)
LaunchFails(i) ==
  /\ \/ active = Absent /\ Emit(i, "idle", "INTERNAL_ERROR")
     \/ /\ active # Absent /\ ProfileOf(i) \notin Configured
        /\ Emit(i, "idle", "AUTH_INSUFFICIENT_FOR_OP")
  /\ UNCHANGED <<envVars, localVars, askVars, callVars, auditVars>>

(* runOp: a client for the profile; classify, and route.  A read is sent    *)
(* as it is, a class that is none of the three goes nowhere.                *)
Launch(i) ==
  /\ active # Absent /\ ProfileOf(i) \in Configured
  /\ creds' = [creds EXCEPT ![i] = ProfileOf(i)]
  /\ entry' = [entry EXCEPT ![i] = EntryOf(i)]
  /\ CASE EntryOf(i).class = "read" -> Go(i, "idle", "send")
       [] EntryOf(i).class \in {"write", "destructive"} -> Go(i, "idle", "capability")
       [] OTHER -> Emit(i, "idle", "INTERNAL_ERROR")
  /\ UNCHANGED <<envVars, cmd, profile, askVars, callVars, auditVars>>

(* Step 1.  The active profile is read again; an error leaves none.      *)
CheckCapability(i) ==
  /\ profile' = [profile EXCEPT ![i] = ProfileOf(i)]
  /\ IF Can(ProfileOf(i), entry[i].class)
     THEN Go(i, "capability", "snapshot")
     ELSE Emit(i, "capability", "AUTH_INSUFFICIENT_FOR_OP")
  /\ UNCHANGED <<envVars, cmd, entry, creds, askVars, callVars, auditVars>>

(* Where step 2 leads: a dry run ends with its envelope, a call that needs  *)
(* approval asks, any other is sent.                                        *)
AfterSnapshot(i) ==
  IF cmd[i].dryRun THEN Emit(i, "snapshot", "OK")
  ELSE IF NeedsApproval(i) THEN Go(i, "snapshot", "approval")
  ELSE Go(i, "snapshot", "send")

(* Step 2.  captureSnapshotsFor: no GET to derive, or the resource as it    *)
(* is, or a 200 without a body.                                             *)
Fetched(i) == IF Resource(i) = Gone THEN {} ELSE {Resource(i), Empty}

Snapshot(i) ==
  /\ \E v \in IF cmd[i].snapshot THEN Fetched(i) ELSE {None} :
       seen' = [seen EXCEPT ![i] = v]
  /\ AfterSnapshot(i)
  /\ UNCHANGED <<envVars, localVars, said, verdict, recheck, callVars, auditVars>>

(* Step 2 fails: a 404, any other error, a body that does not parse. *)
SnapshotFails(i) ==
  /\ cmd[i].snapshot
  /\ Emit(i, "snapshot", "IDENTIFIER_NOT_FOUND")
  /\ UNCHANGED <<envVars, localVars, askVars, callVars, auditVars>>
-----------------------------------------------------------------------------
(* Step 3.  approval.Run: Decision!Say and Decision!Settle. *)
UserSays(i, o) ==
  /\ pc[i] = "approval" /\ said[i] = "none"
  /\ said' = [said EXCEPT ![i] = o]
  /\ UNCHANGED <<envVars, localVars, seen, verdict, recheck, callVars, auditVars, pc, code>>

Settle(i, o) ==
  /\ o \in {said[i], "timeout"} \ {"none"}
  /\ verdict' = [verdict EXCEPT ![i] = o]
  /\ UNCHANGED <<envVars, localVars, seen, said, recheck, callVars, auditVars>>

(* Mutant: an approval is taken without a second look at the resource. *)
MutApproved(i) == Go(i, "approval", "send") /\ Settle(i, "approved")

Approved(i) ==
  /\ Go(i, "approval", IF seen[i] = None THEN "send" ELSE "recheck")
  /\ Settle(i, "approved")

Denied(i) == Emit(i, "approval", "APPROVAL_DENIED") /\ Settle(i, "denied")

(* Mutant: nobody's answer is waited for without end. *)
MutTimedOut(i) ==
  said[i] # "none" /\ Emit(i, "approval", "APPROVAL_TIMEOUT") /\ Settle(i, "timeout")

TimedOut(i) == Emit(i, "approval", "APPROVAL_TIMEOUT") /\ Settle(i, "timeout")

(* Begin finds no port: Run returns an error, and no verdict. *)
ApprovalFails(i) ==
  /\ said[i] = "none"
  /\ Emit(i, "approval", "INTERNAL_ERROR")
  /\ UNCHANGED <<envVars, localVars, askVars, callVars, auditVars>>

(* FreshnessCheck: only the fields of the first snapshot are compared, so a *)
(* first snapshot without a body matches anything.                          *)
Same(before, now) == before = Empty \/ before = now

(* Step 4.  The re-fetch matches the snapshot ... *)
RecheckFresh(i) ==
  /\ \E v \in Fetched(i) :
       /\ Same(seen[i], v)
       /\ recheck' = [recheck EXCEPT ![i] = v]
  /\ Go(i, "recheck", "send")
  /\ UNCHANGED <<envVars, localVars, seen, said, verdict, callVars, auditVars>>

(* ... or it fails, or it shows a drift. *)
RecheckStale(i) ==
  /\ Emit(i, "recheck", "STALE_RESOURCE")
  /\ UNCHANGED <<envVars, localVars, askVars, callVars, auditVars>>
-----------------------------------------------------------------------------
(* Step 5.  Client.Do: the request leaves, first or second time. *)
Send(i) ==
  /\ pc[i] \in {"send", "backoff"}
  /\ Go(i, pc[i], "wait")
  /\ wire' = [wire EXCEPT ![i] = "request"]
  /\ tries' = [tries EXCEPT ![i] = @ + 1]
  /\ UNCHANGED <<envVars, localVars, askVars, applied, auditVars>>

(* Nothing leaves: no URL, no token, no connection. *)
SendFails(i) ==
  /\ pc[i] \in {"send", "backoff"}
  /\ Emit(i, pc[i], "NETWORK_ERROR")
  /\ UNCHANGED <<envVars, localVars, askVars, callVars, auditVars>>

(* The tenant carries the operation out, also when the process that asked   *)
(* has given up or died.                                                    *)
ServerApplies(i) ==
  /\ wire[i] = "request" /\ Resource(i) # Gone
  /\ wire' = [wire EXCEPT ![i] = "applied"]
  /\ applied' = [applied EXCEPT ![i] = @ + 1]
  /\ IF cmd[i].mutates
     THEN \E v \in {Resource(i) + 1, Gone} :
            version' = [version EXCEPT ![cmd[i].resource] = v]
     ELSE UNCHANGED version
  /\ UNCHANGED <<active, switchTo, switches, files, localVars, askVars, tries,
                 auditVars, pc, code>>

(* The tenant turns it down, or asks to slow down. *)
ServerRefuses(i) ==
  /\ wire[i] = "request"
  /\ \E w \in {"refused", "limited"} : wire' = [wire EXCEPT ![i] = w]
  /\ UNCHANGED <<envVars, localVars, askVars, tries, applied,
                 auditVars, pc, code>>

(* The answer reads well: a success status and a body that parses.  A read  *)
(* ends with its envelope, a change goes on to the audit.                   *)
Accepted(i) ==
  /\ wire[i] = "applied"
  /\ IF entry[i].class = "read" THEN Emit(i, "wait", "OK") ELSE Go(i, "wait", "tail")
  /\ UNCHANGED <<envVars, localVars, askVars, callVars, auditVars>>

(* The answer to an operation that was carried out does not read well: an   *)
(* error status, or a body that does not parse.  No audit row is written.   *)
Garbled(i) ==
  /\ wire[i] = "applied"
  /\ Emit(i, "wait", "INTERNAL_ERROR")
  /\ UNCHANGED <<envVars, localVars, askVars, callVars, auditVars>>

(* Mutant: a refusal is audited like a success. *)
MutRefused(i) ==
  /\ wire[i] = "refused"
  /\ Go(i, "wait", "tail")
  /\ UNCHANGED <<envVars, localVars, askVars, callVars, auditVars>>

(* httpErrorEnvelope. *)
Refused(i) ==
  /\ wire[i] = "refused"
  /\ \E c \in {"AUTH_INSUFFICIENT_FOR_OP", "IDENTIFIER_NOT_FOUND", "INTERNAL_ERROR"} :
       Emit(i, "wait", c)
  /\ UNCHANGED <<envVars, localVars, askVars, callVars, auditVars>>

(* Mutant: a second 429 is waited out as well. *)
MutLimited(i) ==
  /\ wire[i] = "limited"
  /\ IF tries[i] <= 2 THEN Go(i, "wait", "backoff") ELSE Emit(i, "wait", "RATE_LIMITED")
  /\ UNCHANGED <<envVars, localVars, askVars, callVars, auditVars>>

(* A first 429 is waited out, a second one is reported. *)
Limited(i) ==
  /\ wire[i] = "limited"
  /\ IF tries[i] = 1 THEN Go(i, "wait", "backoff") ELSE Emit(i, "wait", "RATE_LIMITED")
  /\ UNCHANGED <<envVars, localVars, askVars, callVars, auditVars>>

(* Mutant: a call that got no answer is made again. *)
MutNoAnswer(i) ==
  /\ wire[i] # "none"
  /\ IF tries[i] = 1 THEN Go(i, "wait", "backoff") ELSE Emit(i, "wait", "NETWORK_ERROR")
  /\ UNCHANGED <<envVars, localVars, askVars, callVars, auditVars>>

(* The connection breaks or the client's 30 seconds pass: the request may   *)
(* not have arrived yet, and any answer is lost.                            *)
NoAnswer(i) ==
  /\ wire[i] # "none"
  /\ Emit(i, "wait", "NETWORK_ERROR")
  /\ UNCHANGED <<envVars, localVars, askVars, callVars, auditVars>>
-----------------------------------------------------------------------------
(* Step 6.  writeAuditRow: read the last row, then append. *)
ReadTail(i) ==
  /\ Go(i, "tail", "append")
  /\ tail' = [tail EXCEPT ![i] = Tip(log)]
  /\ UNCHANGED <<envVars, localVars, askVars, callVars, log>>

RowOf(i) == [by |-> i, profile |-> profile[i], approved |-> verdict[i] = "approved"]

(* Steps 6 and 7.  The row is on disk before the envelope is printed. *)
AppendRow(i) ==
  /\ Emit(i, "append", "OK")
  /\ log' = Append(log, NextRow(tail[i], RowOf(i)))
  /\ UNCHANGED <<envVars, localVars, askVars, callVars, tail>>

(* A failure to audit is a warning on stderr. *)
AuditFails(i) ==
  /\ pc[i] \in {"tail", "append"}
  /\ Emit(i, pc[i], "OK")
  /\ UNCHANGED <<envVars, localVars, askVars, callVars, auditVars>>

(* The process is killed: nothing is printed, what it sent is still under   *)
(* way.                                                                     *)
Crash(i) ==
  /\ pc[i] \notin {"idle", "done", "crashed"}
  /\ pc' = [pc EXCEPT ![i] = "crashed"]
  /\ UNCHANGED <<envVars, localVars, askVars, callVars, auditVars, code>>
-----------------------------------------------------------------------------
(* Someone else changes or removes the resource. *)
Drift(r) ==
  /\ version[r] # Gone /\ version[r] < MaxVersion
  /\ \E v \in {version[r] + 1, Gone} : version' = [version EXCEPT ![r] = v]
  /\ UNCHANGED <<active, switchTo, switches, files, localVars, askVars,
                 callVars, auditVars, pc, code>>

(* SwitchActive, from a terminal, to a profile that is configured:          *)
(* os.WriteFile truncates the file and then writes it.                      *)
SwitchBegins(p) ==
  /\ switches < MaxSwitches /\ switchTo = Absent /\ p \in Configured
  /\ switchTo' = p /\ active' = Absent /\ switches' = switches + 1
  /\ UNCHANGED <<version, files, localVars, askVars, callVars, auditVars, pc, code>>

SwitchEnds ==
  /\ switchTo # Absent
  /\ active' = switchTo /\ switchTo' = Absent
  /\ UNCHANGED <<version, switches, files, localVars, askVars, callVars,
                 auditVars, pc, code>>

Finished == (\A i \in Invocations : pc[i] \in {"done", "crashed"}) /\ UNCHANGED vars

(* The steps invocation i takes when it is not killed.  Some step of Advance *)
(* always comes: the failure of Begin is nothing to rely on.                *)
Advance(i) ==
  \/ LaunchFails(i) \/ Launch(i) \/ CheckCapability(i)
  \/ Snapshot(i) \/ SnapshotFails(i)
  \/ Approved(i) \/ Denied(i) \/ TimedOut(i)
  \/ RecheckFresh(i) \/ RecheckStale(i)
  \/ Send(i) \/ SendFails(i)
  \/ Accepted(i) \/ Garbled(i) \/ Refused(i) \/ Limited(i) \/ NoAnswer(i)
  \/ ReadTail(i) \/ AppendRow(i) \/ AuditFails(i)

Progress(i) == Advance(i) \/ ApprovalFails(i)

Server(i) == ServerApplies(i) \/ ServerRefuses(i)

Next ==
  \/ \E i \in Invocations :
       \/ Progress(i) \/ Server(i) \/ Crash(i)
       \/ \E o \in {"approved", "denied"} : UserSays(i, o)
  \/ \E r \in Resources : Drift(r)
  \/ \E p \in Profiles : SwitchBegins(p)
  \/ SwitchEnds \/ Finished

(* A process runs until it ends or is killed: every wait in it is bounded,  *)
(* by the approval timer, the HTTP client's timeout or the retry's.         *)
Spec == Init /\ [][Next]_vars /\ \A i \in Invocations : WF_vars(Advance(i))
-----------------------------------------------------------------------------
Verdicts == {"none", "approved", "denied", "timeout"}
Snaps    == Nat \cup {None, Empty}
RowWhats == [by : Invocations, profile : Profiles \cup {Absent}, approved : BOOLEAN]
LogRows  == RowsOver(Nat \ {0}, RowWhats)

EnvOK ==
  /\ version \in [Resources -> Nat \cup {Gone}]
  /\ active \in Profiles \cup {Absent} /\ switchTo \in Profiles \cup {Absent}
  /\ switches \in 0..MaxSwitches
  /\ files \in PolicyFiles

StepOK == pc \in [Invocations -> Steps] /\ code \in [Invocations -> Codes]

LocalOK ==
  /\ cmd \in [Invocations -> Commands]
  /\ entry \in [Invocations -> Entries]
  /\ creds \in [Invocations -> Profiles \cup {Absent}]
  /\ profile \in [Invocations -> Profiles \cup {Absent}]

AskOK ==
  /\ seen \in [Invocations -> Snaps] /\ recheck \in [Invocations -> Snaps]
  /\ said \in [Invocations -> {"none", "approved", "denied"}]
  /\ verdict \in [Invocations -> Verdicts]

CallOK ==
  /\ wire \in [Invocations -> {"none", "request", "applied", "refused", "limited"}]
  /\ tries \in [Invocations -> 0..2]
  /\ applied \in [Invocations -> Nat]

AuditOK == log \in Seq(LogRows) /\ tail \in [Invocations -> LogRows \cup {Genesis}]

TypeOK == EnvOK /\ StepOK /\ LocalOK /\ AskOK /\ CallOK /\ AuditOK

(* The document in force, found by hand: the first candidate that is not    *)
(* malformed, or the embedded one where that file or all of them are        *)
(* missing.                                                                 *)
First(n) == files[n] # Malformed /\ \A m \in DOMAIN files : m < n => files[m] = Malformed

InForce ==
  IF \E n \in DOMAIN files : First(n) /\ files[n] # Missing
  THEN files[CHOOSE n \in DOMAIN files : First(n)]
  ELSE Embedded

IsRead(c) == c.op \in DOMAIN InForce.entries /\ InForce.entries[c.op].class = "read"
Wipes(c)  == c.dispatcher /\ c.dangerous

(* A command that must ask: one the policy or its own arguments make        *)
(* destructive, one that always asks, one the policy does not know unless   *)
(* __default__ makes it a write that does not ask, one that reaches more    *)
(* than its threshold of targets.                                           *)
MustAsk(c) ==
  \/ Wipes(c)
  \/ /\ c.op \notin DOMAIN InForce.entries
     /\ \/ InForce.default.class \in {Absent, "destructive"}
        \/ InForce.default.class = "write" /\ InForce.default.approval \in {Absent, "always_required"}
  \/ /\ c.op \in DOMAIN InForce.entries /\ ~IsRead(c)
     /\ LET e == InForce.entries[c.op]
        IN \/ e.class = "destructive" \/ e.approval = "always_required"
           \/ 0 \in e.threshold

(* No operation that must ask is carried out before the user clicked        *)
(* Approve for that very invocation and approval.Run returned it, wherever  *)
(* the requirement comes from: the entry, the fail-closed default, a        *)
(* threshold or the command name sent through a dispatcher.                 *)
ApprovedBeforeApplied ==
  \A i \in Invocations : applied[i] > 0 /\ MustAsk(cmd[i]) =>
                             said[i] = "approved" /\ verdict[i] = "approved"

(* The user is not asked about what does not need it: no read, no dry run,  *)
(* no plain write opens an approval page.                                   *)
AskedOnlyWhenNeeded ==
  \A i \in Invocations :
    pc[i] = "approval" \/ verdict[i] # "none" => MustAsk(cmd[i]) /\ ~cmd[i].dryRun

(* An operation that was approved on a snapshot is sent only if a second    *)
(* fetch, made after the approval, showed the same; also when another       *)
(* invocation was approved on the same snapshot and went first.             *)
FreshWhenSent ==
  \A i \in Invocations :
    verdict[i] = "approved" /\ wire[i] # "none" /\ seen[i] \in Nat => recheck[i] = seen[i]

(* The read-only profile changes nothing, unless the user switched profiles *)
(* while the command ran: the client signs in as the profile that was       *)
(* active at the start, its capability is that of the one active later.     *)
ReadOnlyChangesNothing ==
  \A i \in Invocations :
    applied[i] > 0 /\ creds[i] = "ro" /\ switches = 0 => entry[i].class = "read"

(* A row of the audit log stands for one operation that was carried out,    *)
(* no operation has two, and the row says truly whether it was approved.    *)
RowsTellTheTruth ==
  \A n \in DOMAIN log :
    LET row == log[n].what IN
      /\ applied[row.by] = 1
      /\ row.approved = MustAsk(cmd[row.by])
      /\ switches = 0 => row.profile = creds[row.by]
      /\ \A m \in DOMAIN log : log[m].what.by = row.by => m = n

(* Every invocation ends, whatever the user, the tenant and the policy do.  *)
Terminates == \A i \in Invocations : <>(pc[i] \in {"done", "crashed"})

(* Each invocation keeps the promise of GatedCall. *)
Told(i) == IF code[i] = "OK" /\ cmd[i].dryRun /\ entry[i].class # "read"
           THEN "dry run" ELSE code[i]

Promise(i) == INSTANCE GatedCall WITH
  Nothing <- "none", Success <- "OK",
  Unknown <- {"INTERNAL_ERROR", "NETWORK_ERROR"},
  Untouched <- {"dry run", "RATE_LIMITED", "AUTH_INSUFFICIENT_FOR_OP", "STALE_RESOURCE",
                "IDENTIFIER_NOT_FOUND", "APPROVAL_DENIED", "APPROVAL_TIMEOUT"},
  needs <- MustAsk(cmd[i]), consent <- verdict[i] = "approved",
  applied <- applied[i], told <- Told(i)

(* Every step is, for each invocation, a step of GatedCall or none at all:  *)
(* in particular a refusal reported to the agent means that the tenant was  *)
(* left alone and stays so, and "ok" that the operation was carried out.    *)
KeepsPromise ==
  /\ \A i \in Invocations : Promise(i)!Init
  /\ [][\A i \in Invocations : [Promise(i)!Next]_(Promise(i)!vars)]_vars

(* README.md: "Every state-changing call appends a JSONL row".              *)
EveryChangeIsAudited ==
  \A i \in Invocations :
    pc[i] = "done" /\ applied[i] > 0 /\ entry[i].class # "read" =>
      \E n \in DOMAIN log : log[n].what.by = i
=============================================================================
