-------------------------------- MODULE Setup --------------------------------
(***************************************************************************)
(* Processes that configure the agent: ws1 setup (RunSetup), profile add,  *)
(* profile use, og use and og clear (cmd/ws1), on one configuration store. *)
(* The prompts are the user's, or standard input's: what is typed is any   *)
(* client id with a right or a wrong secret.  The token endpoint refuses a *)
(* wrong secret, and may fail on a right one.                              *)
(*                                                                         *)
(* Tenant, region and URLs are one with the client id.  The list of groups *)
(* and the smoke test only read; the audit row of setup is module          *)
(* AuditLog's business.                                                    *)
(***************************************************************************)
EXTENDS ConfigStore, Naturals, Sequences

CONSTANTS Procs,
          Runs,       \* which processes run which commands: see CommandOK
          Found,      \* what profiles.yaml may hold at first
          MaxFaults   \* bound: kills, full disks, locked keychains

maxAttempts == 3

CommandOK(c) ==
  /\ c.kind \in {"setup", "add", "use", "og"}
  /\ c.names \in Seq(Names) /\ c.names # <<>>   \* setup may list several
  /\ \A i, j \in DOMAIN c.names : c.names[i] = c.names[j] => i = j
  /\ {c.interactive, c.validate} \subseteq BOOLEAN
  /\ c.kind \in {"add", "use"} => Len(c.names) = 1

ASSUME SetupAssumption ==
  /\ \A r \in Runs : DOMAIN r = Procs /\ \A p \in Procs : CommandOK(r[p])
  /\ Found \subseteq PartialFunctions(Names, Clients) /\ Clients # {}
  /\ {Unset, Truncated, "torn"} \cap Names = {} /\ Unset \notin OGs
  /\ CutId \notin Clients
  /\ MaxFaults \in Nat

VARIABLES
  cmd,      \* cmd[p]: the command line of process p
  pc,       \* where it is
  todo,     \* the profiles it has yet to configure, the current one first
  typed,    \* the credentials it works with: a client id, and its secret
  doc,      \* the profiles it is about to write
  attempt,  \* of maxAttempts, for the current profile
  pick,     \* the group it was given
  ended,    \* how it ended: "ok", "refused", "failed" or "exhausted"
  saved,    \* history: the profiles as SaveProfile was called, call by call
  overlap,  \* history: a SaveProfile began while another was at work
  torn,     \* history: a SaveProfile was cut short in its write
  half,     \* history: accounts of profiles a process wrote, in whole or in
            \* part, and did not come to store the secret of
  alone,    \* history: alone[p]: no other process has run beside p
  faults

procVars == <<cmd, todo, typed, doc, attempt, pick>>
history  == <<saved, overlap, torn, half, alone, faults>>
vars == <<files, procVars, pc, ended, history>>

Steps == {"start", "ask", "load", "truncate", "write", "secret", "validate", "og",
          "emptyOG", "putOG", "check", "emptyActive", "putActive", "ended"}
Typed == {t \in [client : ClientIds, right : BOOLEAN] : t.right => t.client \in Clients}

Init ==
  /\ profiles \in Found
  /\ secrets = [a \in {<<n, profiles[n]>> : n \in DOMAIN profiles} |-> TRUE]
  /\ active \in DOMAIN profiles \cup {Unset} /\ og \in OGs \cup {Unset}
  /\ cmd \in Runs
  /\ pc = [p \in Procs |-> "start"] /\ ended = [p \in Procs |-> "no"]
  /\ todo = [p \in Procs |-> cmd[p].names]
  /\ typed = [p \in Procs |-> CHOOSE t \in Typed : TRUE]
  /\ doc = [p \in Procs |-> Nobody]
  /\ attempt = [p \in Procs |-> 1] /\ pick = [p \in Procs |-> Unset]
  /\ saved = profiles /\ overlap = FALSE /\ torn = FALSE /\ half = {}
  /\ alone = [p \in Procs |-> TRUE] /\ faults = 0
-----------------------------------------------------------------------------
Name(p) == Head(todo[p])
Account(p) == <<Name(p), typed[p].client>>

Go(p, from, to) == pc[p] = from /\ pc' = [pc EXCEPT ![p] = to] /\ UNCHANGED ended

(* emitAndExit. *)
End(p, from, how) ==
  /\ pc[p] = from
  /\ pc' = [pc EXCEPT ![p] = "ended"]
  /\ ended' = [ended EXCEPT ![p] = how]

Running(p) == pc[p] \notin {"start", "ended"}

WantsTerminal(p) == cmd[p].kind \in {"add", "use"} /\ ~cmd[p].interactive

(* The command starts. *)
Start(p) ==
  /\ ~WantsTerminal(p)
  /\ Go(p, "start", CASE cmd[p].kind \in {"setup", "add"} -> "ask"
                       [] cmd[p].kind = "use" -> "check"
                       [] cmd[p].kind = "og" -> "og")
  /\ alone' = [q \in Procs |-> alone[q] /\ (IF q = p THEN \A r \in Procs : ~Running(r)
                                                     ELSE ~Running(q))]
  /\ UNCHANGED <<files, procVars, saved, overlap, torn, half, faults>>

(* Profile add and profile use want a terminal; setup and profile add want  *)
(* their flags, a region and names that exist.                              *)
Refuse(p) ==
  /\ WantsTerminal(p) \/ cmd[p].kind \in {"setup", "add"}
  /\ End(p, "start", "refused")
  /\ UNCHANGED <<files, procVars, history>>

Offered(p) == Clients \cup {profiles[n] : n \in {Name(p)} \cap DOMAIN profiles}

(* Mutant: a retry stores the new secret, but keeps the profile as it was.  *)
MutAsk(p, t) ==
  /\ Go(p, "ask", IF attempt[p] = 1 THEN "load" ELSE "secret")
  /\ t.client \in Offered(p)
  /\ typed' = [typed EXCEPT ![p] = t]
  /\ UNCHANGED <<files, cmd, todo, doc, attempt, pick, history>>

(* Client id and secret: flags, typed, or the client id that is there       *)
(* (preFillFromExisting), which a cut write may have left short of its end. *)
Ask(p, t) ==
  /\ Go(p, "ask", "load") /\ t.client \in Offered(p)
  /\ typed' = [typed EXCEPT ![p] = t]
  /\ UNCHANGED <<files, cmd, todo, doc, attempt, pick, history>>

(* Standard input ends. *)
AskFails(p) ==
  /\ cmd[p].kind = "setup" /\ pc[p] \in {"ask", "og"}
  /\ End(p, pc[p], "failed")
  /\ UNCHANGED <<files, procVars, history>>
-----------------------------------------------------------------------------
(* Mutant: the profile is written without those that are there.             *)
MutLoad(p) ==
  /\ Readable /\ Go(p, "load", "truncate")
  /\ doc' = [doc EXCEPT ![p] = Upsert(Nobody, Name(p), typed[p].client)]
  /\ overlap' = (overlap \/ \E q \in Procs : pc[q] \in {"truncate", "write"})
  /\ UNCHANGED <<files, cmd, todo, typed, attempt, pick, saved, torn, half, alone, faults>>

(* SaveProfile: read ... *)
Load(p) ==
  /\ Readable /\ Go(p, "load", "truncate")
  /\ doc' = [doc EXCEPT ![p] = Upsert(profiles, Name(p), typed[p].client)]
  /\ overlap' = (overlap \/ \E q \in Procs : pc[q] \in {"truncate", "write"})
  /\ UNCHANGED <<files, cmd, todo, typed, attempt, pick, saved, torn, half, alone, faults>>

LoadFails(p) ==
  /\ ~Readable /\ End(p, "load", "failed")
  /\ UNCHANGED <<files, procVars, history>>

(* ... and write. *)
Truncate(p) ==
  /\ Go(p, "truncate", "write") /\ TruncateProfiles
  /\ UNCHANGED <<procVars, history>>

(* Mutant: a retry saves the profile, but not the new secret.               *)
MutWrite(p) ==
  /\ Go(p, "write", IF attempt[p] = 1 THEN "secret" ELSE "validate") /\ WriteProfiles(doc[p])
  /\ saved' = Upsert(saved, Name(p), typed[p].client)
  /\ UNCHANGED <<procVars, overlap, torn, half, alone, faults>>

Write(p) ==
  /\ Go(p, "write", "secret") /\ WriteProfiles(doc[p])
  /\ saved' = Upsert(saved, Name(p), typed[p].client)
  /\ UNCHANGED <<procVars, overlap, torn, half, alone, faults>>

Fault == faults < MaxFaults /\ faults' = faults + 1

(* The disk is full, and the process gives up before it stores a secret.    *)
WriteCut(p) ==
  /\ Fault /\ End(p, "write", "failed") /\ CutProfiles(doc[p])
  /\ torn' = TRUE /\ half' = half \cup {Account(p)}
  /\ UNCHANGED <<procVars, saved, overlap, alone>>

(* What follows a profile that is configured: the next one, or the group.   *)
Configure(p, from) ==
  /\ todo' = [todo EXCEPT ![p] = Tail(@)]
  /\ attempt' = [attempt EXCEPT ![p] = 1]
  /\ Go(p, from, IF Len(todo[p]) = 1 THEN "og" ELSE "ask")
  /\ UNCHANGED <<cmd, typed, doc, pick>>

(* SaveClientSecret, the end of profile add. *)
SaveSecret(p) ==
  /\ pc[p] = "secret"
  /\ StoreSecret(Name(p), typed[p].client, typed[p].right)
  /\ IF cmd[p].kind = "add" THEN End(p, "secret", "ok") /\ UNCHANGED procVars
     ELSE IF cmd[p].validate THEN Go(p, "secret", "validate") /\ UNCHANGED procVars
     ELSE Configure(p, "secret")
  /\ UNCHANGED history

SecretFails(p) ==
  /\ Fault /\ End(p, "secret", "failed") /\ SpoilSecret(Name(p), typed[p].client)
  /\ half' = half \cup {Account(p)}
  /\ UNCHANGED <<procVars, saved, overlap, torn, alone>>

(* The token endpoint, asked with the secret the keychain holds now.        *)
TokenIssued(p) ==
  /\ pc[p] = "validate" /\ secrets[Account(p)]
  /\ Configure(p, "validate")
  /\ UNCHANGED <<files, history>>

(* Mutant: attempts are not counted. *)
MutTokenRefused(p) ==
  /\ Go(p, "validate", "ask")
  /\ UNCHANGED <<files, procVars, history>>

(* Mutant: one attempt too many. *)
MutLastAttempt(p) ==
  /\ IF attempt[p] <= maxAttempts THEN Go(p, "validate", "ask") ELSE End(p, "validate", "exhausted")
  /\ attempt' = [attempt EXCEPT ![p] = @ + 1]
  /\ UNCHANGED <<files, cmd, todo, typed, doc, pick, history>>

TokenRefused(p) ==
  /\ IF attempt[p] < maxAttempts THEN Go(p, "validate", "ask") ELSE End(p, "validate", "exhausted")
  /\ attempt' = [attempt EXCEPT ![p] = IF @ < maxAttempts THEN @ + 1 ELSE @]
  /\ UNCHANGED <<files, cmd, todo, typed, doc, pick, history>>
-----------------------------------------------------------------------------
(* pickOG, the argument of og use, or og clear: no id clears the group.     *)
PickOG(p, g) ==
  /\ Go(p, "og", IF g = Unset THEN "putOG" ELSE "emptyOG")
  /\ pick' = [pick EXCEPT ![p] = g]
  /\ UNCHANGED <<files, cmd, todo, typed, doc, attempt, history>>

(* SetOG: an emptied file reads as no group. *)
EmptyOG(p) ==
  /\ Go(p, "emptyOG", "putOG") /\ PutOG(Unset)
  /\ UNCHANGED <<procVars, history>>

(* Mutant: setup makes its choice the active profile in any case.           *)
MutSetOG(p) ==
  /\ PutOG(pick[p])
  /\ IF cmd[p].kind = "setup" THEN Go(p, "putOG", "check") ELSE End(p, "putOG", "ok")
  /\ UNCHANGED <<procVars, history>>

(* Setup goes on to the active profile only at a terminal. *)
SetOG(p) ==
  /\ PutOG(pick[p])
  /\ IF cmd[p].kind = "setup" /\ cmd[p].interactive
     THEN Go(p, "putOG", "check") ELSE End(p, "putOG", "ok")
  /\ UNCHANGED <<procVars, history>>

(* selectActiveProfile, of the profiles this run has configured. *)
Preferred(names) ==
  LET listed(n) == \E i \in DOMAIN names : names[i] = n
  IN IF listed("ro") THEN "ro" ELSE IF listed("operator") THEN "operator" ELSE names[1]

(* Mutant: any valid name can be made active. *)
MutCheck(p) == Go(p, "check", "emptyActive") /\ UNCHANGED <<files, procVars, history>>

(* SwitchActive: the profile must be configured ... *)
Check(p) ==
  /\ IF Configured(Preferred(cmd[p].names))
     THEN Go(p, "check", "emptyActive") ELSE End(p, "check", "failed")
  /\ UNCHANGED <<files, procVars, history>>

(* ... and SetActive: an emptied file names no valid profile. *)
EmptyActive(p) ==
  /\ Go(p, "emptyActive", "putActive") /\ PutActive(Truncated)
  /\ UNCHANGED <<procVars, history>>

SetActive(p) ==
  /\ End(p, "putActive", "ok") /\ PutActive(Preferred(cmd[p].names))
  /\ UNCHANGED <<procVars, history>>

(* The process is killed.  What it has written stays. *)
Kill(p) ==
  /\ Running(p) /\ Fault
  /\ End(p, pc[p], "failed")
  /\ torn' = (torn \/ pc[p] = "write")
  /\ IF pc[p] = "secret"
     THEN SpoilSecret(Name(p), typed[p].client) /\ half' = half \cup {Account(p)}
     ELSE UNCHANGED <<files, half>>
  /\ UNCHANGED <<procVars, saved, overlap, alone>>

(* The steps that wait for nobody. *)
Works(p) ==
  \/ Load(p) \/ LoadFails(p) \/ Truncate(p) \/ Write(p) \/ SaveSecret(p)
  \/ TokenIssued(p) \/ TokenRefused(p)
  \/ EmptyOG(p) \/ SetOG(p) \/ Check(p) \/ EmptyActive(p) \/ SetActive(p)

(* The user types, and chooses. *)
Answers(p) == (\E t \in Typed : Ask(p, t)) \/ \E g \in OGs \cup {Unset} : PickOG(p, g)

Finished == (\A p \in Procs : pc[p] = "ended") /\ UNCHANGED vars

Next ==
  \/ \E p \in Procs : Start(p) \/ Refuse(p) \/ Answers(p) \/ AskFails(p) \/ Works(p) \/ WriteCut(p)
                        \/ SecretFails(p) \/ Kill(p)
  \/ Finished

(* Nothing but the user can keep a process waiting: the token request has   *)
(* a timeout.                                                               *)
Spec == Init /\ [][Next]_vars /\ \A p \in Procs : WF_vars(Start(p) \/ Refuse(p) \/ Works(p))
-----------------------------------------------------------------------------
TypeOK ==
  /\ StoreOK
  /\ cmd \in Runs /\ pc \in [Procs -> Steps]
  /\ todo \in [Procs -> Seq(Names)]
  /\ typed \in [Procs -> Typed]
  /\ doc \in [Procs -> PartialFunctions(Names, ClientIds)]
  /\ attempt \in [Procs -> 1..maxAttempts]
  /\ pick \in [Procs -> OGs \cup {Unset}]
  /\ ended \in [Procs -> {"no", "ok", "refused", "failed", "exhausted"}]
  /\ saved \in PartialFunctions(Names, ClientIds)
  /\ overlap \in BOOLEAN /\ torn \in BOOLEAN
  /\ half \subseteq Accounts
  /\ alone \in [Procs -> BOOLEAN] /\ faults \in 0..MaxFaults

Writing == \E p \in Procs : pc[p] = "write"

(* profiles.yaml holds what was saved, profile by profile, whatever calls   *)
(* failed or were killed, unless two calls overlapped or one was cut short  *)
(* in the very write.                                                       *)
SavesAreKept == ~overlap /\ ~torn /\ ~Writing => profiles = saved

(* A profile without a secret is the work of a process that is still at it, *)
(* or that gave up while it wrote the profile or the secret, or its client  *)
(* id was cut short in such a write (SaveProfile, SaveClientSecret): nobody *)
(* else's profile loses its secret, also when processes overlap and save    *)
(* what a cut write has left.                                               *)
SecretBehindProfile ==
  Readable =>
    \A n \in DOMAIN profiles :
      LET a == <<n, profiles[n]>> IN
        \/ a \in DOMAIN secrets \cup half
        \/ \E p \in Procs : pc[p] = "secret" /\ a = Account(p)
        \/ torn /\ profiles[n] = CutId

(* The active profile is one that is configured, unless profiles were lost. *)
ActiveIsConfigured ==
  ~overlap /\ ~torn /\ ~Writing /\ active \in Names => Configured(active)

(* Only a process at a terminal changes the active profile. *)
OnlyTerminalSwitches ==
  [][active' # active => \E p \in Procs : pc'[p] # pc[p] /\ cmd[p].interactive]_vars

(* When setup reports success, and ran alone, every profile it was asked    *)
(* for is there with a secret the token endpoint accepts, however many      *)
(* attempts it took, and group and active profile are those chosen.         *)
SetupLeavesItUsable ==
  [][\A p \in Procs :
       cmd[p].kind = "setup" /\ ended[p] = "no" /\ ended'[p] = "ok" /\ alone[p] =>
         /\ \A i \in DOMAIN cmd[p].names :
              LET n == cmd[p].names[i] IN
                /\ Configured(n)'
                /\ cmd[p].validate => secrets'[<<n, profiles'[n]>>]
         /\ og' = pick[p]
         /\ cmd[p].interactive => active' = Preferred(cmd[p].names)]_vars

(* A command ends when the user answers, however often the endpoint refuses *)
(* what is typed.                                                           *)
EndsWhenAnswered ==
  (\A p \in Procs : WF_vars(Answers(p))) => \A p \in Procs : <>(pc[p] = "ended")

(* setup.go: "configureOneProfile prompts for one profile's credentials,    *)
(* validates them, persists them": what was refused is not what is kept.    *)
ValidatedBeforeKept ==
  \A p \in Procs :
    ended[p] = "exhausted" /\ alone[p] /\ Configured(Name(p)) =>
      secrets[<<Name(p), profiles[Name(p)]>>]
=============================================================================
