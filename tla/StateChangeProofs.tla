------------------------- MODULE StateChangeProofs -------------------------
(***************************************************************************)
(* StateChange for any invocations, commands and policy documents: nothing *)
(* that must ask is carried out unapproved, and nothing approved is sent   *)
(* on a snapshot that a second look did not confirm.                       *)
(***************************************************************************)
EXTENDS StateChange, TLAPS

(* loadActivePolicy finds the document that is in force.                    *)
LEMMA FindsPolicyInForce ==
  ASSUME files \in PolicyFiles
  PROVE  loadActivePolicy(files) = InForce /\ IsDocument(InForce)
<1> DEFINE good == {n \in DOMAIN files : Load(files[n]) # Malformed}
<1>1. IsDocument(Embedded) /\ FilesOK(files)
  BY StateChangeAssumption
<1>2. Missing # Malformed /\ \A d : IsDocument(d) => d # Malformed /\ d # Missing
  BY DEF Missing, Malformed, IsDocument
<1>3. \A n \in DOMAIN files : Load(files[n]) = Malformed <=> files[n] = Malformed
  BY <1>1, <1>2 DEF Load
<1>4. DOMAIN files = {1} \/ DOMAIN files = {1, 2}
  BY <1>1 DEF FilesOK
<1>5. CASE good = {}
  <2>1. \A n \in DOMAIN files : files[n] = Malformed
    BY <1>5, <1>3
  <2> QED
    BY <2>1, <1>5, <1>1 DEF loadActivePolicy, InForce, First
<1>6. CASE good # {}
  <2>1. PICK k \in good : \A m \in good : k <= m
    BY <1>4, <1>6
  <2>2. k \in DOMAIN files /\ First(k)
    BY <2>1, <1>3, <1>4 DEF First
  <2>3. \A n \in DOMAIN files : First(n) => n = k
    BY <2>2, <1>4 DEF First
  <2>4. (CHOOSE n \in DOMAIN files : First(n)) = k
    BY <2>2, <2>3
  <2>5. (CHOOSE n \in good : \A m \in good : n <= m) = k
    <3>1. \A n \in good : (\A m \in good : n <= m) => n = k
      BY <2>1, <1>4
    <3> QED
      BY <2>1, <3>1
  <2>6. loadActivePolicy(files) = Load(files[k])
    BY <2>5, <1>6 DEF loadActivePolicy
  <2>7. InForce = IF files[k] = Missing THEN Embedded ELSE files[k]
    <3>1. (\E n \in DOMAIN files : First(n) /\ files[n] # Missing) <=> files[k] # Missing
      BY <2>2, <2>3
    <3> QED
      BY <3>1, <2>4 DEF InForce
  <2>8. files[k] = Missing \/ IsDocument(files[k])
    BY <2>1, <2>2, <1>1, <1>3 DEF FilesOK
  <2> QED
    BY <2>6, <2>7, <2>8, <1>1 DEF Load
<1> QED
  BY <1>5, <1>6

(* The entry of a command line is one the documents can hold.               *)
LEMMA EntryTyped ==
  ASSUME files \in PolicyFiles, NEW i \in Invocations
  PROVE  EntryOf(i) \in Entries
<1> DEFINE e == Classify(InForce, cmd[i].op)
<1>1. IsDocument(InForce) /\ loadActivePolicy(files) = InForce
  BY FindsPolicyInForce
<1>2. builtinDefault \in Entries
  BY DEF builtinDefault, Entry, Entries, Classes, Approvals, NoThreshold
<1>3. DefaultOf(InForce) \in Entries
  BY <1>1, <1>2 DEF DefaultOf, IsDocument, Entry, Entries, NoThreshold
<1>4. e \in Entries
  BY <1>1, <1>3 DEF Classify, IsDocument
<1>5. Escalate(cmd[i].dispatcher, cmd[i].dangerous, e) \in Entries
  BY <1>4 DEF Escalate, Entry, Entries, Classes, Approvals
<1> QED
  BY <1>1, <1>5 DEF EntryOf

(* What __default__ leaves out is the built-in default's: fail closed.      *)
LEMMA DefaultMerged ==
  ASSUME NEW doc
  PROVE  /\ DefaultOf(doc).class = IF doc.default.class = Absent THEN "destructive"
                                                           ELSE doc.default.class
         /\ DefaultOf(doc).approval = IF doc.default.approval = Absent THEN "always_required"
                                                                 ELSE doc.default.approval
BY DEF DefaultOf, builtinDefault, Entry

(* A command that must ask is neither routed as a read nor let through      *)
(* without approval.                                                        *)
LEMMA MustAskIsAsked ==
  ASSUME files \in PolicyFiles, NEW i \in Invocations, MustAsk(cmd[i])
  PROVE  EntryOf(i).class # "read" /\ RequiresApproval(EntryOf(i), TargetCount)
<1> DEFINE c == cmd[i]
           e == Classify(InForce, c.op)
<1>1. EntryOf(i) = Escalate(c.dispatcher, c.dangerous, e)
  BY FindsPolicyInForce DEF EntryOf
<1>2. CASE Wipes(c)
  BY <1>1, <1>2 DEF Wipes, Escalate, Entry, RequiresApproval, IsDestructive
<1>3. CASE ~Wipes(c)
  <2>1. EntryOf(i) = e
    BY <1>1, <1>3 DEF Wipes, Escalate
  <2>2. CASE c.op \notin DOMAIN InForce.entries
    <3>1. \/ InForce.default.class \in {Absent, "destructive"}
          \/ InForce.default.class = "write" /\ InForce.default.approval \in {Absent, "always_required"}
      BY <2>2, <1>3 DEF MustAsk
    <3>2. /\ e.class = IF InForce.default.class = Absent THEN "destructive" ELSE InForce.default.class
          /\ e.approval = IF InForce.default.approval = Absent THEN "always_required"
                                                           ELSE InForce.default.approval
      BY <2>2, DefaultMerged DEF Classify
    <3>3. e.class # "read" /\ (e.class = "destructive" \/ e.approval = "always_required")
      BY <3>1, <3>2
    <3> QED
      BY <2>1, <3>3 DEF RequiresApproval, IsDestructive
  <2>3. CASE c.op \in DOMAIN InForce.entries
    <3>1. e = InForce.entries[c.op]
      BY <2>3 DEF Classify
    <3>2. e.class # "read" /\ (e.class = "destructive" \/ e.approval = "always_required"
                               \/ 0 \in e.threshold)
      BY <2>3, <3>1, <1>3 DEF MustAsk, IsRead
    <3> QED
      BY <2>1, <3>2 DEF RequiresApproval, IsDestructive, TargetCount
  <2> QED
    BY <2>2, <2>3
<1> QED
  BY <1>2, <1>3
-----------------------------------------------------------------------------
(* Type correctness needs one fact about the retry: the request is counted  *)
(* once before the backoff and not at all before step 5.                    *)
BeforeSend == {"idle", "capability", "snapshot", "approval", "recheck", "send"}

Counted == \A i \in Invocations : /\ pc[i] \in BeforeSend => tries[i] = 0
                                  /\ pc[i] = "backoff" => tries[i] = 1

(* No step touches the command lines or the policy files.                   *)
LEMMA InputsStay == [Next]_vars => cmd' = cmd /\ files' = files
<1> SUFFICES ASSUME [Next]_vars PROVE cmd' = cmd /\ files' = files
  OBVIOUS
<1> USE DEF envVars, localVars, askVars, callVars, auditVars
<1>1. ASSUME NEW i \in Invocations, Progress(i) PROVE cmd' = cmd /\ files' = files
  BY <1>1 DEF Progress, Advance, LaunchFails, Launch, CheckCapability, Snapshot, SnapshotFails, Approved,
              Denied, TimedOut, Settle, ApprovalFails, RecheckFresh, RecheckStale, Send,
              SendFails, Accepted, Garbled, Refused, Limited, NoAnswer, ReadTail, AppendRow,
              AuditFails
<1>2. ASSUME NEW i \in Invocations, Server(i) \/ Crash(i) PROVE cmd' = cmd /\ files' = files
  BY <1>2 DEF Server, ServerApplies, ServerRefuses, Crash
<1>3. ASSUME NEW i \in Invocations, NEW o, UserSays(i, o) PROVE cmd' = cmd /\ files' = files
  BY <1>3 DEF UserSays
<1>4. ASSUME NEW r \in Resources, Drift(r) PROVE cmd' = cmd /\ files' = files
  BY <1>4 DEF Drift
<1>5. ASSUME NEW p \in Profiles, SwitchBegins(p) PROVE cmd' = cmd /\ files' = files
  BY <1>5 DEF SwitchBegins
<1>6. CASE SwitchEnds \/ Finished \/ UNCHANGED vars
  BY <1>6 DEF SwitchEnds, Finished, vars
<1> QED
  BY <1>1, <1>2, <1>3, <1>4, <1>5, <1>6 DEF Next

(* The types of what an invocation is given from outside.                   *)
LEMMA InputsTyped ==
  ASSUME TypeOK, NEW i \in Invocations
  PROVE  /\ ProfileOf(i) \in Profiles \cup {Absent}
         /\ EntryOf(i) \in Entries
         /\ cmd[i].resource \in Resources
<1>1. CommandOK(cmd[i])
  BY StateChangeAssumption DEF TypeOK, LocalOK
<1>2. EntryOf(i) \in Entries
  BY EntryTyped DEF TypeOK, EnvOK
<1> QED
  BY <1>1, <1>2 DEF CommandOK, ProfileOf, TypeOK, EnvOK

(* The row Append makes of a tail, here for the rows of this module.        *)
LEMMA RowTyped ==
  ASSUME TypeOK, NEW i \in Invocations
  PROVE  NextRow(tail[i], RowOf(i)) \in LogRows
<1>1. RowOf(i) \in RowWhats
  BY DEF TypeOK, LocalOK, RowOf, RowWhats
<1>2. CASE tail[i] = Genesis
  BY <1>1, <1>2 DEF NextRow, Row, LogRows, RowsOver
<1>3. CASE tail[i] # Genesis
  <2>1. tail[i] \in LogRows
    BY <1>3 DEF TypeOK, AuditOK
  <2>2. tail[i].seq \in Nat \ {0} /\ tail[i].what \in RowWhats
    BY <2>1 DEF LogRows, RowsOver
  <2>3. HashOf(tail[i]) \in [seq : Nat \ {0}, what : RowWhats]
    BY <2>2 DEF HashOf
  <2> QED
    BY <1>1, <1>3, <2>2, <2>3 DEF NextRow, Row, LogRows, RowsOver
<1> QED
  BY <1>2, <1>3

(* A step that leaves a group of variables alone keeps its types.           *)
LEMMA GroupsStay ==
  ASSUME TypeOK
  PROVE  /\ UNCHANGED envVars => EnvOK'
         /\ UNCHANGED localVars => LocalOK'
         /\ UNCHANGED askVars => AskOK'
         /\ UNCHANGED callVars => CallOK'
         /\ UNCHANGED auditVars => AuditOK'
<1> USE DEF TypeOK
<1>1. UNCHANGED envVars => EnvOK'
  BY DEF EnvOK, envVars
<1>2. UNCHANGED localVars => LocalOK'
  BY DEF LocalOK, localVars
<1>3. UNCHANGED askVars => AskOK'
  BY DEF AskOK, askVars
<1>4. UNCHANGED callVars => CallOK'
  BY DEF CallOK, callVars
<1>5. UNCHANGED auditVars => AuditOK'
  BY DEF AuditOK, auditVars
<1> QED
  BY <1>1, <1>2, <1>3, <1>4, <1>5

(* Going on and ending keep theirs.                                         *)
LEMMA StepsTyped ==
  ASSUME StepOK, NEW i \in Invocations, NEW from,
         \/ \E to \in Steps : Go(i, from, to)
         \/ \E c \in Codes : Emit(i, from, c)
  PROVE  StepOK'
BY DEF StepOK, Go, Emit, Steps

(* The steps of an invocation up to the approval keep the types.            *)
LEMMA AskingKeepsTypes ==
  ASSUME TypeOK, NEW i \in Invocations,
         \/ LaunchFails(i) \/ Launch(i) \/ CheckCapability(i)
         \/ Snapshot(i) \/ SnapshotFails(i) \/ Approved(i) \/ Denied(i) \/ TimedOut(i)
         \/ ApprovalFails(i) \/ RecheckFresh(i) \/ RecheckStale(i)
  PROVE  TypeOK'
<1> USE GroupsStay, StepsTyped DEF TypeOK
<1>0. /\ {"capability", "snapshot", "approval", "recheck", "send"} \subseteq Steps
      /\ {"OK", "INTERNAL_ERROR", "AUTH_INSUFFICIENT_FOR_OP", "IDENTIFIER_NOT_FOUND",
          "APPROVAL_DENIED", "APPROVAL_TIMEOUT", "STALE_RESOURCE"} \subseteq Codes
  BY DEF Steps, Codes
<1>1. CASE LaunchFails(i)
  BY <1>0, <1>1 DEF LaunchFails
<1>2. CASE Launch(i)
  <2>1. LocalOK'
    BY <1>2, InputsTyped DEF Launch, LocalOK
  <2>2. StepOK'
    BY <1>0, <1>2 DEF Launch
  <2> QED
    BY <1>2, <2>1, <2>2 DEF Launch
<1>3. CASE CheckCapability(i)
  <2>1. LocalOK'
    BY <1>3, InputsTyped DEF CheckCapability, LocalOK
  <2>2. StepOK'
    BY <1>0, <1>3 DEF CheckCapability
  <2> QED
    BY <1>3, <2>1, <2>2 DEF CheckCapability
<1>4. Fetched(i) \subseteq Snaps
  BY InputsTyped DEF Fetched, Resource, Snaps, EnvOK
<1>5. CASE Snapshot(i)
  <2>1. AskOK'
    BY <1>5, <1>4 DEF Snapshot, AskOK, Snaps
  <2>2. StepOK'
    BY <1>0, <1>5 DEF Snapshot, AfterSnapshot
  <2> QED
    BY <1>5, <2>1, <2>2 DEF Snapshot
<1>6. CASE SnapshotFails(i) \/ ApprovalFails(i) \/ RecheckStale(i)
  BY <1>0, <1>6 DEF SnapshotFails, ApprovalFails, RecheckStale
<1>7. CASE Approved(i) \/ Denied(i) \/ TimedOut(i)
  <2>1. AskOK'
    BY <1>7 DEF Approved, Denied, TimedOut, Settle, AskOK, Verdicts
  <2>2. StepOK'
    BY <1>0, <1>7 DEF Approved, Denied, TimedOut
  <2> QED
    BY <1>7, <2>1, <2>2 DEF Approved, Denied, TimedOut, Settle
<1>8. CASE RecheckFresh(i)
  <2>1. AskOK'
    BY <1>8, <1>4 DEF RecheckFresh, AskOK
  <2>2. StepOK'
    BY <1>0, <1>8 DEF RecheckFresh
  <2> QED
    BY <1>8, <2>1, <2>2 DEF RecheckFresh
<1> QED
  BY <1>1, <1>2, <1>3, <1>5, <1>6, <1>7, <1>8

(* So do the request, the answer and the audit.                             *)
LEMMA CallingKeepsTypes ==
  ASSUME TypeOK, Counted, NEW i \in Invocations,
         \/ Send(i) \/ SendFails(i) \/ Accepted(i) \/ Garbled(i) \/ Refused(i) \/ Limited(i)
         \/ NoAnswer(i) \/ ReadTail(i) \/ AppendRow(i) \/ AuditFails(i)
  PROVE  TypeOK'
<1> USE GroupsStay, StepsTyped DEF TypeOK
<1>0. /\ {"wait", "backoff", "tail", "append"} \subseteq Steps
      /\ {"OK", "INTERNAL_ERROR", "NETWORK_ERROR", "RATE_LIMITED", "AUTH_INSUFFICIENT_FOR_OP",
          "IDENTIFIER_NOT_FOUND"} \subseteq Codes
  BY DEF Steps, Codes
<1>1. CASE Send(i)
  <2>1. tries[i] \in 0..1
    BY <1>1 DEF Send, Counted, BeforeSend
  <2>2. CallOK'
    BY <1>1, <2>1 DEF Send, CallOK
  <2>3. StepOK'
    BY <1>0, <1>1 DEF Send
  <2> QED
    BY <1>1, <2>2, <2>3 DEF Send
<1>2. CASE SendFails(i) \/ Garbled(i) \/ Refused(i) \/ NoAnswer(i) \/ AuditFails(i)
  BY <1>0, <1>2 DEF SendFails, Garbled, Refused, NoAnswer, AuditFails
<1>3. CASE Accepted(i) \/ Limited(i)
  BY <1>0, <1>3 DEF Accepted, Limited
<1>4. CASE ReadTail(i)
  <2>1. Tip(log) \in LogRows \cup {Genesis}
    BY DEF Tip, AuditOK
  <2>2. AuditOK'
    BY <1>4, <2>1 DEF ReadTail, AuditOK
  <2>3. StepOK'
    BY <1>0, <1>4 DEF ReadTail
  <2> QED
    BY <1>4, <2>2, <2>3 DEF ReadTail
<1>5. CASE AppendRow(i)
  <2>1. AuditOK'
    BY <1>5, RowTyped DEF AppendRow, AuditOK
  <2>2. StepOK'
    BY <1>0, <1>5 DEF AppendRow
  <2> QED
    BY <1>5, <2>1, <2>2 DEF AppendRow
<1> QED
  BY <1>1, <1>2, <1>3, <1>4, <1>5

(* So do the user, the tenant and whoever else is about.                    *)
LEMMA OthersKeepTypes ==
  ASSUME TypeOK,
         \/ \E i \in Invocations : \/ Server(i) \/ Crash(i)
                                    \/ \E o \in {"approved", "denied"} : UserSays(i, o)
         \/ \E r \in Resources : Drift(r)
         \/ \E p \in Profiles : SwitchBegins(p)
         \/ SwitchEnds \/ Finished \/ UNCHANGED vars
  PROVE  TypeOK'
<1> USE GroupsStay DEF TypeOK
<1>1. ASSUME NEW i \in Invocations, ServerApplies(i) PROVE TypeOK'
  <2>1. Resource(i) \in Nat
    BY <1>1, InputsTyped DEF ServerApplies, Resource, EnvOK
  <2>2. EnvOK'
    <3>1. version' \in [Resources -> Nat \cup {Gone}]
      BY <1>1, <2>1, InputsTyped DEF ServerApplies, Resource, EnvOK
    <3> QED
      BY <1>1, <3>1 DEF ServerApplies, EnvOK
  <2>3. CallOK'
    BY <1>1 DEF ServerApplies, CallOK
  <2> QED
    BY <1>1, <2>2, <2>3 DEF ServerApplies, StepOK, localVars, askVars, auditVars
<1>2. ASSUME NEW i \in Invocations, ServerRefuses(i) PROVE TypeOK'
  <2>1. CallOK'
    BY <1>2 DEF ServerRefuses, CallOK
  <2> QED
    BY <1>2, <2>1 DEF ServerRefuses, StepOK
<1>3. ASSUME NEW i \in Invocations, Crash(i) PROVE TypeOK'
  <2>1. StepOK'
    BY <1>3 DEF Crash, StepOK, Steps
  <2> QED
    BY <1>3, <2>1 DEF Crash
<1>4. ASSUME NEW i \in Invocations, NEW o \in {"approved", "denied"}, UserSays(i, o) PROVE TypeOK'
  <2>1. AskOK'
    BY <1>4 DEF UserSays, AskOK
  <2> QED
    BY <1>4, <2>1 DEF UserSays, StepOK
<1>5. ASSUME NEW r \in Resources, Drift(r) PROVE TypeOK'
  <2>1. EnvOK'
    <3>1. version' \in [Resources -> Nat \cup {Gone}]
      BY <1>5 DEF Drift, EnvOK
    <3> QED
      BY <1>5, <3>1 DEF Drift, EnvOK
  <2> QED
    BY <1>5, <2>1 DEF Drift, StepOK
<1>6. ASSUME NEW p \in Profiles, SwitchBegins(p) PROVE TypeOK'
  <2>1. EnvOK'
    <3>1. switches' \in 0..MaxSwitches
      BY <1>6, StateChangeAssumption DEF SwitchBegins, EnvOK
    <3> QED
      BY <1>6, <3>1 DEF SwitchBegins, EnvOK
  <2> QED
    BY <1>6, <2>1 DEF SwitchBegins, StepOK
<1>7. CASE SwitchEnds
  <2>1. EnvOK'
    BY <1>7 DEF SwitchEnds, EnvOK
  <2> QED
    BY <1>7, <2>1 DEF SwitchEnds, StepOK
<1>8. CASE Finished \/ UNCHANGED vars
  BY <1>8 DEF Finished, vars, StepOK
<1> QED
  BY <1>1, <1>2, <1>3, <1>4, <1>5, <1>6, <1>7, <1>8 DEF Server

(* The retry is counted.                                                    *)
LEMMA CountingStays ==
  ASSUME TypeOK, Counted, [Next]_vars
  PROVE  Counted'
<1> USE DEF Counted, BeforeSend, Go, Emit, callVars
<1>1. pc \in [Invocations -> Steps] /\ tries \in [Invocations -> 0..2]
  BY DEF TypeOK, StepOK, CallOK
<1>2. ASSUME NEW i \in Invocations,
             \/ LaunchFails(i) \/ Launch(i) \/ CheckCapability(i)
             \/ Snapshot(i) \/ SnapshotFails(i) \/ Approved(i) \/ Denied(i) \/ TimedOut(i)
             \/ ApprovalFails(i) \/ RecheckFresh(i) \/ RecheckStale(i)
      PROVE  Counted'
  BY <1>1, <1>2 DEF LaunchFails, Launch, CheckCapability, Snapshot, AfterSnapshot, SnapshotFails,
                    Approved, Denied, TimedOut, Settle, ApprovalFails, RecheckFresh, RecheckStale
<1>3. ASSUME NEW i \in Invocations,
             \/ Send(i) \/ SendFails(i) \/ Accepted(i) \/ Garbled(i) \/ Refused(i) \/ Limited(i)
             \/ NoAnswer(i) \/ ReadTail(i) \/ AppendRow(i) \/ AuditFails(i)
      PROVE  Counted'
  BY <1>1, <1>3 DEF Send, SendFails, Accepted, Garbled, Refused, Limited, NoAnswer, ReadTail,
                    AppendRow, AuditFails
<1>4. ASSUME NEW i \in Invocations, Crash(i) PROVE Counted'
  BY <1>1, <1>4 DEF Crash
<1>5. CASE UNCHANGED <<pc, tries>>
  BY <1>5
<1>6. \/ \E i \in Invocations : Progress(i) \/ Crash(i)
      \/ UNCHANGED <<pc, tries>>
  BY DEF Next, Server, ServerApplies, ServerRefuses, UserSays, Drift, SwitchBegins, SwitchEnds,
         Finished, vars
<1> QED
  BY <1>2, <1>3, <1>4, <1>5, <1>6 DEF Progress, Advance

(* Type correctness of invocations, tenant and files.                       *)
THEOREM TypeCorrect == Spec => []TypeOK
<1>1. Init => TypeOK /\ Counted
  <2> SUFFICES ASSUME Init PROVE TypeOK /\ Counted
    OBVIOUS
  <2>1. EnvOK
    <3>1. version \in [Resources -> Nat \cup {Gone}]
      BY DEF Init
    <3>2. switches \in 0..MaxSwitches
      BY StateChangeAssumption DEF Init
    <3> QED
      BY <3>1, <3>2 DEF Init, EnvOK
  <2>2. StepOK
    BY DEF Init, StepOK, Each, Steps, Codes
  <2>3. LocalOK
    BY DEF Init, LocalOK, Each, Blank, Entry, Entries, Classes, Approvals, NoThreshold
  <2>4. AskOK
    BY DEF Init, AskOK, Each, Snaps, Verdicts
  <2>5. CallOK
    <3>1. tries \in [Invocations -> 0..2] /\ applied \in [Invocations -> Nat]
      BY DEF Init, Each
    <3> QED
      BY <3>1 DEF Init, CallOK, Each
  <2>6. AuditOK
    <3>1. log \in Seq(LogRows)
      BY DEF Init
    <3> QED
      BY <3>1 DEF Init, AuditOK, Each
  <2>7. Counted
    BY DEF Init, Counted, Each
  <2> QED
    BY <2>1, <2>2, <2>3, <2>4, <2>5, <2>6, <2>7 DEF TypeOK
<1>2. TypeOK /\ Counted /\ [Next]_vars => TypeOK' /\ Counted'
  <2> SUFFICES ASSUME TypeOK, Counted, [Next]_vars PROVE TypeOK'
    BY CountingStays
  <2>1. CASE \E i \in Invocations : Progress(i)
    BY <2>1, AskingKeepsTypes, CallingKeepsTypes DEF Progress, Advance
  <2>2. CASE ~\E i \in Invocations : Progress(i)
    BY <2>2, OthersKeepTypes DEF Next
  <2> QED
    BY <2>1, <2>2
<1> QED
  BY <1>1, <1>2, PTL DEF Spec
-----------------------------------------------------------------------------
(* The strengthening.  Between the verdict and the moment the tenant acts   *)
(* lie several steps of this process and any number of others, a crash      *)
(* among them: what is proved is that whatever is under way - a step that   *)
(* leads to the request, the request on the wire, the operation itself -    *)
(* carries its clearance with it.                                           *)
Asking(i) == pc[i] \in {"idle", "capability", "snapshot", "approval", "recheck"}
Sending(i) == pc[i] \in {"send", "wait", "backoff", "tail", "append"}
UnderWay(i) == Sending(i) \/ wire[i] # "none" \/ applied[i] > 0

(* Nothing is under way before step 5, and no verdict before step 3.        *)
NotYet(i) ==
  /\ Asking(i) => wire[i] = "none" /\ applied[i] = 0
  /\ pc[i] \in {"idle", "capability", "snapshot", "approval"} => verdict[i] = "none"

(* The entry that decides is the one the policy has for this command line.  *)
Classified(i) ==
  /\ pc[i] \in {"capability", "snapshot", "approval", "recheck"} => entry[i] = EntryOf(i)
  /\ pc[i] = "recheck" => said[i] = "approved" /\ verdict[i] = "approved" /\ seen[i] # None

Cleared(i) ==
  UnderWay(i) =>
    /\ MustAsk(cmd[i]) => said[i] = "approved" /\ verdict[i] = "approved"
    /\ verdict[i] = "approved" /\ seen[i] # None => Same(seen[i], recheck[i])

IInv == \A i \in Invocations : NotYet(i) /\ Classified(i) /\ Cleared(i)

(* What a step of one invocation leaves of the others.                      *)
Untouched(j) ==
  /\ pc'[j] = pc[j] /\ entry'[j] = entry[j]
  /\ creds'[j] = creds[j] /\ profile'[j] = profile[j]
  /\ seen'[j] = seen[j] /\ said'[j] = said[j] /\ verdict'[j] = verdict[j]
  /\ recheck'[j] = recheck[j] /\ wire'[j] = wire[j] /\ applied'[j] = applied[j]

(* What the policy makes of a command line does not change.                 *)
LEMMA PolicyStays ==
  ASSUME [Next]_vars, NEW j \in Invocations
  PROVE  EntryOf(j)' = EntryOf(j) /\ MustAsk(cmd[j])' = MustAsk(cmd[j])
<1>1. cmd' = cmd /\ files' = files
  BY InputsStay
<1>2. EntryOf(j)' = EntryOf(j)
  BY <1>1 DEF EntryOf
<1>3. InForce' = InForce
  BY <1>1 DEF InForce, First
<1>4. MustAsk(cmd[j])' = MustAsk(cmd[j])
  BY <1>1, <1>3 DEF MustAsk, IsRead, Wipes
<1> QED
  BY <1>2, <1>4

(* An invocation that a step does not touch keeps its part of IInv.         *)
LEMMA UntouchedKeep ==
  ASSUME [Next]_vars, NEW j \in Invocations, Untouched(j),
         NotYet(j), Classified(j), Cleared(j)
  PROVE  NotYet(j)' /\ Classified(j)' /\ Cleared(j)'
<1> USE PolicyStays DEF Untouched, Asking, Sending, UnderWay
<1>1. NotYet(j)'
  BY DEF NotYet
<1>2. Classified(j)'
  BY DEF Classified
<1>3. Cleared(j)'
  BY DEF Cleared, Same
<1> QED
  BY <1>1, <1>2, <1>3

(* The steps up to the approval, and the approval.                          *)
LEMMA AskingKeepsIInv ==
  ASSUME TypeOK, [Next]_vars, NEW i \in Invocations,
         NotYet(i), Classified(i), Cleared(i),
         \/ LaunchFails(i) \/ Launch(i) \/ CheckCapability(i)
         \/ Snapshot(i) \/ SnapshotFails(i) \/ Approved(i) \/ Denied(i) \/ TimedOut(i)
         \/ ApprovalFails(i) \/ RecheckFresh(i) \/ RecheckStale(i)
  PROVE  NotYet(i)' /\ Classified(i)' /\ Cleared(i)'
<1> USE PolicyStays DEF Go, Emit, NotYet, Classified, Cleared, Asking, Sending, UnderWay
<1>0. /\ pc \in [Invocations -> Steps] /\ entry \in [Invocations -> Entries]
      /\ seen \in [Invocations -> Snaps] /\ recheck \in [Invocations -> Snaps]
      /\ verdict \in [Invocations -> Verdicts]
      /\ files \in PolicyFiles
  BY DEF TypeOK, EnvOK, StepOK, LocalOK, AskOK
<1>1. CASE LaunchFails(i)
  BY <1>0, <1>1 DEF LaunchFails, askVars, callVars
<1>2. CASE Launch(i)
  <2>1. MustAsk(cmd[i]) => EntryOf(i).class # "read"
    BY <1>0, MustAskIsAsked
  <2> QED
    BY <1>0, <1>2, <2>1 DEF Launch, askVars, callVars
<1>3. CASE CheckCapability(i)
  BY <1>0, <1>3 DEF CheckCapability, askVars, callVars
<1>4. CASE Snapshot(i)
  <2>1. MustAsk(cmd[i]) => NeedsApproval(i)
    BY <1>0, <1>4, MustAskIsAsked DEF Snapshot, AfterSnapshot, NeedsApproval
  <2> QED
    BY <1>0, <1>4, <2>1 DEF Snapshot, AfterSnapshot, localVars, callVars
<1>5. CASE SnapshotFails(i) \/ ApprovalFails(i) \/ RecheckStale(i)
  BY <1>0, <1>5 DEF SnapshotFails, ApprovalFails, RecheckStale, localVars, askVars, callVars
<1>6. CASE Approved(i)
  BY <1>0, <1>6 DEF Approved, Settle, localVars, callVars
<1>7. CASE Denied(i) \/ TimedOut(i)
  BY <1>0, <1>7 DEF Denied, TimedOut, Settle, localVars, callVars
<1>8. CASE RecheckFresh(i)
  BY <1>0, <1>8 DEF RecheckFresh, localVars, callVars
<1> QED
  BY <1>1, <1>2, <1>3, <1>4, <1>5, <1>6, <1>7, <1>8

(* The steps from the request on, the tenant's, the user's and a crash.     *)
LEMMA CallingKeepsIInv ==
  ASSUME TypeOK, [Next]_vars, NEW i \in Invocations,
         NotYet(i), Classified(i), Cleared(i),
         \/ Send(i) \/ SendFails(i) \/ Accepted(i) \/ Garbled(i) \/ Refused(i) \/ Limited(i)
         \/ NoAnswer(i) \/ ReadTail(i) \/ AppendRow(i) \/ AuditFails(i)
         \/ ServerApplies(i) \/ ServerRefuses(i) \/ Crash(i)
         \/ \E o \in {"approved", "denied"} : UserSays(i, o)
  PROVE  NotYet(i)' /\ Classified(i)' /\ Cleared(i)'
<1> USE PolicyStays DEF Go, Emit, NotYet, Classified, Cleared, Asking, Sending, UnderWay
<1>0. /\ pc \in [Invocations -> Steps] /\ wire \in [Invocations -> {"none", "request", "applied", "refused", "limited"}]
      /\ applied \in [Invocations -> Nat]
      /\ said \in [Invocations -> {"none", "approved", "denied"}]
  BY DEF TypeOK, StepOK, AskOK, CallOK
<1>1. CASE Send(i)
  BY <1>0, <1>1 DEF Send, localVars, askVars
<1>2. CASE SendFails(i) \/ Garbled(i) \/ Refused(i) \/ NoAnswer(i) \/ AuditFails(i)
  BY <1>0, <1>2 DEF SendFails, Garbled, Refused, NoAnswer, AuditFails, localVars, askVars, callVars
<1>3. CASE Accepted(i) \/ Limited(i)
  BY <1>0, <1>3 DEF Accepted, Limited, localVars, askVars, callVars
<1>4. CASE ReadTail(i) \/ AppendRow(i)
  BY <1>0, <1>4 DEF ReadTail, AppendRow, localVars, askVars, callVars
<1>5. CASE ServerApplies(i)
  BY <1>0, <1>5 DEF ServerApplies, localVars, askVars
<1>6. CASE ServerRefuses(i)
  BY <1>0, <1>6 DEF ServerRefuses, localVars, askVars
<1>7. CASE Crash(i)
  BY <1>0, <1>7 DEF Crash, localVars, askVars, callVars
<1>8. ASSUME NEW o \in {"approved", "denied"}, UserSays(i, o)
      PROVE  NotYet(i)' /\ Classified(i)' /\ Cleared(i)'
  BY <1>0, <1>8 DEF UserSays, localVars, callVars
<1> QED
  BY <1>1, <1>2, <1>3, <1>4, <1>5, <1>6, <1>7, <1>8

(* A step of one invocation touches no other.                               *)
LEMMA StepsAreLocal ==
  ASSUME TypeOK, NEW i \in Invocations, NEW j \in Invocations, j # i,
         \/ Progress(i) \/ Server(i) \/ Crash(i)
         \/ \E o \in {"approved", "denied"} : UserSays(i, o)
  PROVE  Untouched(j)
<1> USE DEF TypeOK, StepOK, LocalOK, AskOK, CallOK, Go, Emit, Untouched, localVars, askVars, callVars
<1>1. CASE LaunchFails(i) \/ Launch(i) \/ CheckCapability(i)
  BY <1>1 DEF LaunchFails, Launch, CheckCapability
<1>2. CASE Snapshot(i) \/ SnapshotFails(i) \/ ApprovalFails(i)
  BY <1>2 DEF Snapshot, AfterSnapshot, SnapshotFails, ApprovalFails
<1>3. CASE Approved(i) \/ Denied(i) \/ TimedOut(i)
  BY <1>3 DEF Approved, Denied, TimedOut, Settle
<1>4. CASE RecheckFresh(i) \/ RecheckStale(i)
  BY <1>4 DEF RecheckFresh, RecheckStale
<1>5. CASE Send(i) \/ SendFails(i) \/ Accepted(i) \/ Garbled(i)
  BY <1>5 DEF Send, SendFails, Accepted, Garbled
<1>6. CASE Refused(i) \/ Limited(i) \/ NoAnswer(i)
  BY <1>6 DEF Refused, Limited, NoAnswer
<1>7. CASE ReadTail(i) \/ AppendRow(i) \/ AuditFails(i) \/ Crash(i)
  BY <1>7 DEF ReadTail, AppendRow, AuditFails, Crash
<1>8. CASE ServerApplies(i) \/ ServerRefuses(i)
  BY <1>8 DEF ServerApplies, ServerRefuses
<1>9. ASSUME NEW o \in {"approved", "denied"}, UserSays(i, o) PROVE Untouched(j)
  BY <1>9 DEF UserSays
<1> QED
  BY <1>1, <1>2, <1>3, <1>4, <1>5, <1>6, <1>7, <1>8, <1>9 DEF Progress, Advance, Server

(* Nor does what happens around them.                                       *)
LEMMA SurroundingsAreElsewhere ==
  ASSUME NEW j \in Invocations,
         \/ \E r \in Resources : Drift(r)
         \/ \E p \in Profiles : SwitchBegins(p)
         \/ SwitchEnds \/ Finished \/ UNCHANGED vars
  PROVE  Untouched(j)
BY DEF Drift, SwitchBegins, SwitchEnds, Finished, vars, Untouched, localVars, askVars, callVars

(* The inductive invariant.                                                 *)
THEOREM Invariance == Spec => []IInv
<1>1. Init => IInv
  BY DEF Init, IInv, NotYet, Classified, Cleared, UnderWay, Sending, Asking, Each
<1>2. TypeOK /\ IInv /\ [Next]_vars => IInv'
  <2> SUFFICES ASSUME TypeOK, IInv, [Next]_vars, NEW j \in Invocations
               PROVE  NotYet(j)' /\ Classified(j)' /\ Cleared(j)'
    BY DEF IInv
  <2>1. NotYet(j) /\ Classified(j) /\ Cleared(j)
    BY DEF IInv
  <2>2. ASSUME NEW i \in Invocations,
               \/ Progress(i) \/ Server(i) \/ Crash(i)
               \/ \E o \in {"approved", "denied"} : UserSays(i, o)
        PROVE  NotYet(j)' /\ Classified(j)' /\ Cleared(j)'
    <3>1. CASE j = i
      BY <2>1, <2>2, <3>1, AskingKeepsIInv, CallingKeepsIInv DEF Progress, Advance, Server
    <3>2. CASE j # i
      BY <2>1, <2>2, <3>2, StepsAreLocal, UntouchedKeep
    <3> QED
      BY <3>1, <3>2
  <2>3. CASE \/ \E r \in Resources : Drift(r)
             \/ \E p \in Profiles : SwitchBegins(p)
             \/ SwitchEnds \/ Finished \/ UNCHANGED vars
    BY <2>1, <2>3, SurroundingsAreElsewhere, UntouchedKeep
  <2> QED
    BY <2>2, <2>3 DEF Next
<1> QED
  BY <1>1, <1>2, TypeCorrect, PTL DEF Spec

(* Whatever the policy, the commands and the number of invocations: what    *)
(* must ask is not carried out before its own user approved.                *)
THEOREM NothingUnapproved == Spec => []ApprovedBeforeApplied
<1>1. IInv => ApprovedBeforeApplied
  BY DEF IInv, Cleared, UnderWay, ApprovedBeforeApplied
<1> QED
  BY <1>1, Invariance, PTL

(* And nothing approved on a snapshot leaves without a second look.         *)
THEOREM NothingStale == Spec => []FreshWhenSent
<1>1. IInv => FreshWhenSent
  BY StateChangeAssumption DEF IInv, Cleared, UnderWay, Same, FreshWhenSent
<1> QED
  BY <1>1, Invariance, PTL
-----------------------------------------------------------------------------
(* A second strengthening, for what is asked, who signs in and what the     *)
(* audit log tells.  It leans on the first for the entry in force.          *)

(* Only what must ask is asked about.                                       *)
Asked(i) ==
  /\ pc[i] \in {"capability", "snapshot", "approval", "recheck"}
       => entry[i].class \in {"write", "destructive"}
  /\ pc[i] = "approval" \/ verdict[i] # "none" => MustAsk(cmd[i]) /\ ~cmd[i].dryRun

(* The tenant has carried the operation out once when the wire says so, and *)
(* the audit is reached by no other way.                                    *)
Once(i) ==
  /\ applied[i] = IF wire[i] = "applied" THEN 1 ELSE 0
  /\ pc[i] = "send" => wire[i] = "none"
  /\ pc[i] = "backoff" => wire[i] = "limited"
  /\ pc[i] \in {"tail", "append"} => wire[i] = "applied" /\ entry[i].class # "read"

(* While no profile was switched, the client signs in as the profile whose  *)
(* capability let the operation pass.                                       *)
Signed(i) ==
  switches = 0 =>
    /\ pc[i] \in {"capability", "snapshot", "approval", "recheck"} => creds[i] = ProfileOf(i)
    /\ pc[i] \in {"snapshot", "approval", "recheck"} \/ UnderWay(i) =>
         entry[i].class = "read" \/ (Can(creds[i], entry[i].class) /\ profile[i] = creds[i])

JInv(i) == Asked(i) /\ Once(i) /\ Signed(i)

SwitchInv == switches = 0 => switchTo = Absent

(* A command that is routed to an approval and gets there must ask.         *)
LEMMA OnlyMustAskIsAsked ==
  ASSUME files \in PolicyFiles, NEW i \in Invocations,
         EntryOf(i).class \in {"write", "destructive"},
         RequiresApproval(EntryOf(i), TargetCount)
  PROVE  MustAsk(cmd[i])
<1> DEFINE c == cmd[i]
           e == Classify(InForce, c.op)
<1>0. SUFFICES ASSUME ~Wipes(c) PROVE MustAsk(c)
  BY DEF MustAsk
<1>1. EntryOf(i) = e
  BY <1>0, FindsPolicyInForce DEF EntryOf, Wipes, Escalate
<1>2. e \in Entries
  BY <1>1, EntryTyped
<1>3. e.class = "destructive" \/ e.approval = "always_required" \/ 0 \in e.threshold
  <2>1. \A t \in e.threshold : t \in Nat
    BY <1>2 DEF Entries
  <2>2. ASSUME NEW t \in e.threshold, TargetCount > t PROVE t = 0
    BY <2>1, <2>2 DEF TargetCount
  <2> QED
    BY <1>1, <2>2 DEF RequiresApproval, IsDestructive
<1>4. CASE c.op \in DOMAIN InForce.entries
  <2>1. e = InForce.entries[c.op]
    BY <1>4 DEF Classify
  <2>2. ~IsRead(c)
    BY <1>1, <2>1 DEF IsRead
  <2> QED
    BY <1>3, <1>4, <2>1, <2>2 DEF MustAsk
<1>5. CASE c.op \notin DOMAIN InForce.entries
  <2>1. e = DefaultOf(InForce)
    BY <1>5 DEF Classify
  <2>2. /\ e.class = IF InForce.default.class = Absent THEN "destructive" ELSE InForce.default.class
        /\ e.approval = IF InForce.default.approval = Absent THEN "always_required"
                                                         ELSE InForce.default.approval
    BY <2>1, DefaultMerged
  <2>3. e.threshold = {}
    BY <2>1 DEF DefaultOf, Entry, NoThreshold
  <2>4. e.class = "destructive" \/ e.approval = "always_required"
    BY <1>3, <2>3
  <2>5. e.class \in {"write", "destructive"}
    BY <1>1
  <2> QED
    BY <1>5, <2>2, <2>4, <2>5 DEF MustAsk
<1> QED
  BY <1>4, <1>5

(* Until a switch begins, the active profile is what it was.                *)
LEMMA SwitchesCount ==
  ASSUME TypeOK, SwitchInv, [Next]_vars
  PROVE  /\ SwitchInv'
         /\ switches' = 0 => switches = 0 /\ active' = active
<1>1. switches \in Nat
  BY StateChangeAssumption DEF TypeOK, EnvOK
<1>2. CASE UNCHANGED <<active, switchTo, switches>>
  BY <1>2 DEF SwitchInv
<1>3. ASSUME NEW p \in Profiles, SwitchBegins(p)
      PROVE  SwitchInv' /\ switches' # 0
  BY <1>1, <1>3 DEF SwitchBegins, SwitchInv
<1>4. CASE SwitchEnds
  BY <1>4 DEF SwitchEnds, SwitchInv
<1>5. ASSUME NEW i \in Invocations, Progress(i)
      PROVE  UNCHANGED <<active, switchTo, switches>>
  BY <1>5 DEF Progress, Advance, LaunchFails, Launch, CheckCapability, Snapshot, SnapshotFails,
              Approved, Denied, TimedOut, Settle, ApprovalFails, RecheckFresh, RecheckStale,
              Send, SendFails, Accepted, Garbled, Refused, Limited, NoAnswer, ReadTail,
              AppendRow, AuditFails, envVars
<1>6. ASSUME NEW i \in Invocations, Server(i) \/ Crash(i)
      PROVE  UNCHANGED <<active, switchTo, switches>>
  BY <1>6 DEF Server, ServerApplies, ServerRefuses, Crash, envVars
<1>7. ASSUME NEW i \in Invocations, NEW o, UserSays(i, o)
      PROVE  UNCHANGED <<active, switchTo, switches>>
  BY <1>7 DEF UserSays, envVars
<1>8. ASSUME NEW r \in Resources, Drift(r)
      PROVE  UNCHANGED <<active, switchTo, switches>>
  BY <1>8 DEF Drift
<1>9. CASE Finished \/ UNCHANGED vars
  BY <1>2, <1>9 DEF Finished, vars, envVars
<1> QED
  BY <1>2, <1>3, <1>4, <1>5, <1>6, <1>7, <1>8, <1>9 DEF Next

LEMMA UntouchedKeepJInv ==
  ASSUME TypeOK, SwitchInv, [Next]_vars, NEW j \in Invocations, Untouched(j), JInv(j)
  PROVE  JInv(j)'
<1> USE PolicyStays DEF Untouched, JInv, Sending, UnderWay
<1>1. cmd'[j] = cmd[j] /\ (switches' = 0 => switches = 0 /\ active' = active)
  BY InputsStay, SwitchesCount
<1>2. Asked(j)'
  BY <1>1 DEF Asked
<1>3. Once(j)'
  BY DEF Once
<1>4. Signed(j)'
  BY <1>1 DEF Signed, ProfileOf
<1> QED
  BY <1>2, <1>3, <1>4

LEMMA AskingKeepsJInv ==
  ASSUME TypeOK, SwitchInv, [Next]_vars, NEW i \in Invocations,
         NotYet(i), Classified(i), JInv(i),
         \/ LaunchFails(i) \/ Launch(i) \/ CheckCapability(i)
         \/ Snapshot(i) \/ SnapshotFails(i) \/ Approved(i) \/ Denied(i) \/ TimedOut(i)
         \/ ApprovalFails(i) \/ RecheckFresh(i) \/ RecheckStale(i)
  PROVE  JInv(i)'
<1> USE PolicyStays DEF Go, Emit, NotYet, Classified, JInv, Asked, Once, Signed, Asking, Sending, UnderWay
<1>0. /\ pc \in [Invocations -> Steps] /\ entry \in [Invocations -> Entries]
      /\ creds \in [Invocations -> Profiles \cup {Absent}]
      /\ profile \in [Invocations -> Profiles \cup {Absent}]
      /\ verdict \in [Invocations -> Verdicts] /\ files \in PolicyFiles
  BY DEF TypeOK, EnvOK, StepOK, LocalOK, AskOK
<1>a. cmd'[i] = cmd[i] /\ (switches' = 0 => switches = 0 /\ active' = active)
  BY InputsStay, SwitchesCount
<1>b. switches' = 0 => ProfileOf(i)' = ProfileOf(i)
  BY <1>a DEF ProfileOf
<1>1. CASE LaunchFails(i)
  BY <1>0, <1>a, <1>1 DEF LaunchFails, localVars, askVars, callVars
<1>2. CASE Launch(i)
  BY <1>0, <1>a, <1>b, <1>2 DEF Launch, askVars, callVars
<1>3. CASE CheckCapability(i)
  BY <1>0, <1>a, <1>b, <1>3 DEF CheckCapability, askVars, callVars
<1>4. CASE Snapshot(i)
  <2>1. NeedsApproval(i) => MustAsk(cmd[i])
    BY <1>0, <1>4, OnlyMustAskIsAsked DEF Snapshot, AfterSnapshot, NeedsApproval
  <2> QED
    BY <1>0, <1>a, <1>b, <1>4, <2>1 DEF Snapshot, AfterSnapshot, localVars, callVars
<1>5. CASE SnapshotFails(i) \/ ApprovalFails(i) \/ RecheckStale(i)
  BY <1>0, <1>a, <1>b, <1>5 DEF SnapshotFails, ApprovalFails, RecheckStale, localVars, askVars, callVars
<1>6. CASE Approved(i)
  BY <1>0, <1>a, <1>b, <1>6 DEF Approved, Settle, localVars, callVars
<1>7. CASE Denied(i) \/ TimedOut(i)
  BY <1>0, <1>a, <1>b, <1>7 DEF Denied, TimedOut, Settle, localVars, callVars
<1>8. CASE RecheckFresh(i)
  BY <1>0, <1>a, <1>b, <1>8 DEF RecheckFresh, localVars, callVars
<1> QED
  BY <1>1, <1>2, <1>3, <1>4, <1>5, <1>6, <1>7, <1>8

LEMMA CallingKeepsJInv ==
  ASSUME TypeOK, SwitchInv, [Next]_vars, NEW i \in Invocations,
         NotYet(i), Classified(i), JInv(i),
         \/ Send(i) \/ SendFails(i) \/ Accepted(i) \/ Garbled(i) \/ Refused(i) \/ Limited(i)
         \/ NoAnswer(i) \/ ReadTail(i) \/ AppendRow(i) \/ AuditFails(i)
         \/ ServerApplies(i) \/ ServerRefuses(i) \/ Crash(i)
         \/ \E o \in {"approved", "denied"} : UserSays(i, o)
  PROVE  JInv(i)'
<1> USE PolicyStays DEF Go, Emit, NotYet, JInv, Asked, Once, Signed, Asking, Sending, UnderWay
<1>0. /\ pc \in [Invocations -> Steps] /\ wire \in [Invocations -> {"none", "request", "applied", "refused", "limited"}]
      /\ applied \in [Invocations -> Nat]
  BY DEF TypeOK, StepOK, CallOK
<1>a. cmd'[i] = cmd[i] /\ (switches' = 0 => switches = 0 /\ active' = active)
  BY InputsStay, SwitchesCount
<1>b. switches' = 0 => ProfileOf(i)' = ProfileOf(i)
  BY <1>a DEF ProfileOf
<1>1. CASE Send(i)
  BY <1>0, <1>a, <1>b, <1>1 DEF Send, localVars, askVars
<1>2. CASE SendFails(i) \/ Garbled(i) \/ Refused(i) \/ NoAnswer(i) \/ AuditFails(i)
  BY <1>0, <1>a, <1>b, <1>2 DEF SendFails, Garbled, Refused, NoAnswer, AuditFails, localVars, askVars, callVars
<1>3. CASE Accepted(i) \/ Limited(i)
  BY <1>0, <1>a, <1>b, <1>3 DEF Accepted, Limited, localVars, askVars, callVars
<1>4. CASE ReadTail(i) \/ AppendRow(i)
  BY <1>0, <1>a, <1>b, <1>4 DEF ReadTail, AppendRow, localVars, askVars, callVars
<1>5. CASE ServerApplies(i)
  BY <1>0, <1>a, <1>b, <1>5 DEF ServerApplies, localVars, askVars
<1>6. CASE ServerRefuses(i)
  BY <1>0, <1>a, <1>b, <1>6 DEF ServerRefuses, localVars, askVars
<1>7. CASE Crash(i)
  BY <1>0, <1>a, <1>b, <1>7 DEF Crash, localVars, askVars, callVars
<1>8. ASSUME NEW o \in {"approved", "denied"}, UserSays(i, o)
      PROVE  JInv(i)'
  BY <1>0, <1>a, <1>b, <1>8 DEF UserSays, localVars, callVars
<1> QED
  BY <1>1, <1>2, <1>3, <1>4, <1>5, <1>6, <1>7, <1>8

(* What a row of the audit log says of the invocation that wrote it.        *)
RowTrue(row) ==
  /\ row.by \in Invocations /\ pc[row.by] = "done"
  /\ wire[row.by] = "applied" /\ applied[row.by] = 1
  /\ row.approved = MustAsk(cmd[row.by])
  /\ switches = 0 => row.profile = creds[row.by]

RowInv ==
  /\ \A n \in DOMAIN log : RowTrue(log[n].what)
  /\ \A m, n \in DOMAIN log : log[m].what.by = log[n].what.by => m = n

(* An invocation that is done after its operation was carried out stays so. *)
LEMMA DoneStays ==
  ASSUME TypeOK, [Next]_vars, NEW j \in Invocations, pc[j] = "done", wire[j] = "applied"
  PROVE  pc'[j] = "done" /\ wire'[j] = "applied" /\ applied'[j] = applied[j] /\ creds'[j] = creds[j]
<1>1. ASSUME NEW i \in Invocations, j # i,
             \/ Progress(i) \/ Server(i) \/ Crash(i)
             \/ \E o \in {"approved", "denied"} : UserSays(i, o)
      PROVE  Untouched(j)
  BY <1>1, StepsAreLocal
<1>2. ~Progress(j)
  BY DEF Progress, Advance, LaunchFails, Launch, CheckCapability, Snapshot, AfterSnapshot, SnapshotFails,
         Approved, Denied, TimedOut, ApprovalFails, RecheckFresh, RecheckStale, Send, SendFails,
         Accepted, Garbled, Refused, Limited, NoAnswer, ReadTail, AppendRow, AuditFails, Go, Emit
<1>3. ~Server(j) /\ ~Crash(j) /\ \A o : ~UserSays(j, o)
  BY DEF Server, ServerApplies, ServerRefuses, Crash, UserSays
<1>4. CASE \/ \E r \in Resources : Drift(r)
           \/ \E p \in Profiles : SwitchBegins(p)
           \/ SwitchEnds \/ Finished \/ UNCHANGED vars
  BY <1>4, SurroundingsAreElsewhere DEF Untouched
<1> QED
  BY <1>1, <1>2, <1>3, <1>4 DEF Next, Untouched

(* Only AppendRow writes to the log.                                        *)
LEMMA LogStays ==
  ASSUME [Next]_vars, \A i \in Invocations : ~AppendRow(i)
  PROVE  log' = log
<1> USE DEF auditVars
<1>1. ASSUME NEW i \in Invocations, Progress(i) PROVE log' = log
  BY <1>1 DEF Progress, Advance, LaunchFails, Launch, CheckCapability, Snapshot, SnapshotFails, Approved,
              Denied, TimedOut, Settle, ApprovalFails, RecheckFresh, RecheckStale, Send,
              SendFails, Accepted, Garbled, Refused, Limited, NoAnswer, ReadTail, AuditFails
<1>2. ASSUME NEW i \in Invocations, Server(i) \/ Crash(i) PROVE log' = log
  BY <1>2 DEF Server, ServerApplies, ServerRefuses, Crash
<1>3. ASSUME NEW i \in Invocations, NEW o, UserSays(i, o) PROVE log' = log
  BY <1>3 DEF UserSays
<1>4. ASSUME NEW r \in Resources, Drift(r) PROVE log' = log
  BY <1>4 DEF Drift
<1>5. ASSUME NEW p \in Profiles, SwitchBegins(p) PROVE log' = log
  BY <1>5 DEF SwitchBegins
<1>6. CASE SwitchEnds \/ Finished \/ UNCHANGED vars
  BY <1>6 DEF SwitchEnds, Finished, vars
<1> QED
  BY <1>1, <1>2, <1>3, <1>4, <1>5, <1>6 DEF Next

LEMMA RowsStay ==
  ASSUME TypeOK, SwitchInv, [Next]_vars, NEW row, RowTrue(row)
  PROVE  RowTrue(row)'
<1>1. /\ pc'[row.by] = "done" /\ wire'[row.by] = "applied"
      /\ applied'[row.by] = applied[row.by] /\ creds'[row.by] = creds[row.by]
  BY DoneStays DEF RowTrue
<1>2. MustAsk(cmd[row.by])' = MustAsk(cmd[row.by])
  BY PolicyStays DEF RowTrue
<1>3. switches' = 0 => switches = 0
  BY SwitchesCount
<1> QED
  BY <1>1, <1>2, <1>3 DEF RowTrue

(* The row that AppendRow writes is true, and the first of its invocation.  *)
LEMMA NewRowIsTrue ==
  ASSUME TypeOK, SwitchInv, [Next]_vars, NEW i \in Invocations, AppendRow(i),
         Cleared(i), JInv(i)
  PROVE  RowTrue(RowOf(i))'
<1>1. pc[i] = "append" /\ pc'[i] = "done" /\ UNCHANGED <<localVars, askVars, callVars>>
  BY DEF AppendRow, Emit, TypeOK, StepOK
<1>2. wire[i] = "applied" /\ applied[i] = 1 /\ entry[i].class # "read"
  BY <1>1 DEF JInv, Once
<1>3. (verdict[i] = "approved") <=> MustAsk(cmd[i])
  BY <1>1, <1>2 DEF JInv, Asked, Cleared, UnderWay, Sending
<1>4. switches = 0 => profile[i] = creds[i]
  BY <1>1, <1>2 DEF JInv, Signed, UnderWay
<1>5. MustAsk(cmd[i])' = MustAsk(cmd[i]) /\ (switches' = 0 => switches = 0)
  BY PolicyStays, SwitchesCount
<1>6. MustAsk(cmd[i]) \in BOOLEAN
  BY DEF MustAsk
<1>7. (verdict[i] = "approved") = MustAsk(cmd[i])
  BY <1>3, <1>6
<1> QED
  BY <1>1, <1>2, <1>4, <1>5, <1>7 DEF RowTrue, RowOf, localVars, askVars, callVars

LEMMA RowsKept ==
  ASSUME TypeOK, SwitchInv, RowInv, [Next]_vars,
         \A i \in Invocations : Cleared(i) /\ JInv(i)
  PROVE  RowInv'
<1>1. CASE \A i \in Invocations : ~AppendRow(i)
  <2>1. log' = log
    BY <1>1, LogStays
  <2>2. \A row : RowTrue(row) => RowTrue(row)'
    BY RowsStay
  <2> QED
    BY <2>1, <2>2 DEF RowInv, RowTrue
<1>2. ASSUME NEW i \in Invocations, AppendRow(i)
      PROVE  RowInv'
  <2> DEFINE new == NextRow(tail[i], RowOf(i))
  <2>1. log' = Append(log, new) /\ pc[i] = "append" /\ log \in Seq(LogRows)
    BY <1>2 DEF AppendRow, Emit, TypeOK, AuditOK
  <2>2. new.what = RowOf(i) /\ RowOf(i).by = i
    BY DEF NextRow, Row, RowOf
  <2>3. UNCHANGED <<profile, verdict>> /\ RowOf(i)' = RowOf(i)
    BY <1>2 DEF AppendRow, RowOf, localVars, askVars
  <2>4. RowTrue(RowOf(i))'
    BY <1>2, NewRowIsTrue
  <2> HIDE DEF new
  <2>5. /\ DOMAIN log' = 1..Len(log) + 1 /\ DOMAIN log = 1..Len(log) /\ Len(log) \in Nat
        /\ \A n \in 1..Len(log) : log'[n] = log[n]
        /\ log'[Len(log) + 1] = new
    BY <2>1
  <2>6. \A n \in DOMAIN log : RowTrue(log[n].what)' /\ log[n].what.by # i
    BY <2>1, RowsStay DEF RowInv, RowTrue
  <2>7. ASSUME NEW n \in DOMAIN log' PROVE RowTrue(log[n].what)'
    <3>1. CASE n \in DOMAIN log
      <4>1. log'[n] = log[n]
        BY <2>5, <3>1
      <4> QED
        BY <4>1, <2>6, <3>1 DEF RowTrue
    <3>2. CASE n \notin DOMAIN log
      <4>1. log'[n].what = RowOf(i)
        BY <2>2, <2>5, <2>7, <3>2
      <4> QED
        BY <4>1, <2>3, <2>4 DEF RowTrue
    <3> QED
      BY <3>1, <3>2
  <2>8. ASSUME NEW m \in DOMAIN log', NEW n \in DOMAIN log', log'[m].what.by = log'[n].what.by
        PROVE  m = n
    <3>1. CASE m \in DOMAIN log /\ n \in DOMAIN log
      BY <2>5, <2>8, <3>1 DEF RowInv
    <3>2. CASE ~(m \in DOMAIN log /\ n \in DOMAIN log)
      BY <2>2, <2>5, <2>6, <2>8, <3>2
    <3> QED
      BY <3>1, <3>2
  <2> QED
    BY <2>7, <2>8 DEF RowInv
<1> QED
  BY <1>1, <1>2

THEOREM SecondInvariance == Spec => [](SwitchInv /\ RowInv /\ \A i \in Invocations : JInv(i))
<1> DEFINE J == SwitchInv /\ RowInv /\ \A i \in Invocations : JInv(i)
<1>1. Init => J
  <2>1. Init => log = <<>> /\ DOMAIN log = {}
    BY DEF Init
  <2> QED
    BY <2>1 DEF Init, SwitchInv, RowInv, JInv, Asked, Once, Signed, UnderWay, Sending, Each
<1>2. TypeOK /\ IInv /\ J /\ [Next]_vars => J'
  <2> SUFFICES ASSUME TypeOK, IInv, J, [Next]_vars PROVE J'
    OBVIOUS
  <2>1. SwitchInv'
    BY SwitchesCount
  <2>2. RowInv'
    BY RowsKept DEF IInv
  <2>3. ASSUME NEW j \in Invocations PROVE JInv(j)'
    <3>1. NotYet(j) /\ Classified(j) /\ JInv(j)
      BY DEF IInv
    <3>2. ASSUME NEW i \in Invocations,
                 \/ Progress(i) \/ Server(i) \/ Crash(i)
                 \/ \E o \in {"approved", "denied"} : UserSays(i, o)
          PROVE  JInv(j)'
      <4>1. CASE j = i
        BY <3>1, <3>2, <4>1, AskingKeepsJInv, CallingKeepsJInv DEF Progress, Advance, Server
      <4>2. CASE j # i
        BY <3>1, <3>2, <4>2, StepsAreLocal, UntouchedKeepJInv
      <4> QED
        BY <4>1, <4>2
    <3>3. CASE \/ \E r \in Resources : Drift(r)
               \/ \E p \in Profiles : SwitchBegins(p)
               \/ SwitchEnds \/ Finished \/ UNCHANGED vars
      BY <3>1, <3>3, SurroundingsAreElsewhere, UntouchedKeepJInv
    <3> QED
      BY <3>2, <3>3 DEF Next
  <2> QED
    BY <2>1, <2>2, <2>3
<1> HIDE DEF J
<1>3. Spec => []J
  BY <1>1, <1>2, TypeCorrect, Invariance, PTL DEF Spec
<1> QED
  BY <1>3 DEF J

(* No read, no dry run and no plain write opens an approval page, under any *)
(* policy.                                                                  *)
THEOREM NothingAskedInVain == Spec => []AskedOnlyWhenNeeded
<1>1. (\A i \in Invocations : JInv(i)) => AskedOnlyWhenNeeded
  BY DEF JInv, Asked, AskedOnlyWhenNeeded
<1> QED
  BY <1>1, SecondInvariance, PTL

(* While nobody switches profiles a read-only client changes nothing.       *)
THEOREM ReadersOnlyRead == Spec => []ReadOnlyChangesNothing
<1>1. (\A i \in Invocations : JInv(i)) => ReadOnlyChangesNothing
  BY DEF JInv, Signed, UnderWay, ReadOnlyChangesNothing, Can, Capability
<1> QED
  BY <1>1, SecondInvariance, PTL

(* Every row of the audit log is true, and no operation has two.            *)
THEOREM RowsAreTrue == Spec => []RowsTellTheTruth
<1>1. RowInv => RowsTellTheTruth
  BY DEF RowInv, RowTrue, RowsTellTheTruth
<1> QED
  BY <1>1, SecondInvariance, PTL
=============================================================================
