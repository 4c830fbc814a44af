------------------------ MODULE StateChangeRefinement ------------------------
(***************************************************************************)
(* StateChange implements GatedCall, invocation by invocation: what holds  *)
(* of the promise there holds of runOp here, for any policy, any number of *)
(* invocations and whatever the tenant, the user and the network do.       *)
(***************************************************************************)
EXTENDS StateChangeProofs

(* What a caller may be told before the tenant has decided.                 *)
Uncertain == {"none", "INTERNAL_ERROR", "NETWORK_ERROR"}

(* The third strengthening: nothing is told before the end, a dry run never *)
(* gets to its request, and while a request is on its way nothing certain   *)
(* was told.                                                                *)
Silent(i) == pc[i] # "done" => code[i] = "none"
NotDry(i) == Sending(i) => entry[i].class = "read" \/ ~cmd[i].dryRun
Open(i)   == wire[i] = "request" => Told(i) \in Uncertain

KInv(i) == Silent(i) /\ NotDry(i) /\ Open(i)

(* All that is known of invocation i when it takes a step.                  *)
Known(i) == NotYet(i) /\ Classified(i) /\ Cleared(i) /\ Asked(i) /\ Once(i) /\ KInv(i)

Kept(i) == Promise(i)!Next \/ UNCHANGED Promise(i)!vars

(* What a step must be to be none of GatedCall's.                           *)
LEMMA Stutters ==
  ASSUME NEW i \in Invocations, [Next]_vars,
         (verdict'[i] = "approved") <=> (verdict[i] = "approved"),
         applied'[i] = applied[i], Told(i)' = Told(i)
  PROVE  Kept(i)
<1>1. MustAsk(cmd[i])' = MustAsk(cmd[i])
  BY PolicyStays
<1> QED
  BY <1>1 DEF Kept, Promise!vars

(* What it must be to tell the caller something.                            *)
LEMMA Tells ==
  ASSUME NEW i \in Invocations, [Next]_vars, NEW t,
         t \in Codes \ {"none"} \/ t = "dry run",
         (verdict'[i] = "approved") <=> (verdict[i] = "approved"),
         applied'[i] = applied[i], Told(i) = "none", Told(i)' = t,
         t = "OK" => applied[i] = 1,
         t \notin {"OK", "INTERNAL_ERROR", "NETWORK_ERROR"} => applied[i] = 0
  PROVE  Kept(i)
<1>1. MustAsk(cmd[i])' = MustAsk(cmd[i])
  BY PolicyStays
<1>2. Promise(i)!Tell(t)
  BY <1>1 DEF Promise!Tell
<1> QED
  BY <1>2 DEF Kept, Promise!Next, Codes

(* The steps of an invocation up to its request.                            *)
LEMMA AskingIsPromised ==
  ASSUME TypeOK, [Next]_vars, NEW i \in Invocations, Known(i),
         \/ LaunchFails(i) \/ Launch(i) \/ CheckCapability(i)
         \/ Snapshot(i) \/ SnapshotFails(i) \/ Approved(i) \/ Denied(i) \/ TimedOut(i)
         \/ ApprovalFails(i) \/ RecheckFresh(i) \/ RecheckStale(i)
  PROVE  Kept(i) /\ KInv(i)'
<1> USE DEF Go, Emit, Known, KInv, Silent, NotDry, Open, Told, Uncertain, Asking, Sending, UnderWay
<1>0. /\ pc \in [Invocations -> Steps] /\ code \in [Invocations -> Codes]
      /\ entry \in [Invocations -> Entries] /\ verdict \in [Invocations -> Verdicts]
  BY DEF TypeOK, StepOK, LocalOK, AskOK
<1>a. cmd' = cmd
  BY InputsStay
<1>b. pc[i] \in {"idle", "capability", "snapshot", "approval", "recheck"}
  BY DEF LaunchFails, Launch, CheckCapability, Snapshot, AfterSnapshot, SnapshotFails,
         Approved, Denied, TimedOut, ApprovalFails, RecheckFresh, RecheckStale
<1>c. wire[i] = "none" /\ applied[i] = 0 /\ code[i] = "none"
  BY <1>b DEF NotYet
<1>1. CASE LaunchFails(i)
  BY <1>0, <1>a, <1>c, <1>1, Tells DEF LaunchFails, Codes, localVars, askVars, callVars
<1>2. CASE Launch(i)
  <2>1. CASE EntryOf(i).class = "read" \/ EntryOf(i).class \in {"write", "destructive"}
    BY <1>0, <1>a, <1>c, <1>2, <2>1, Stutters DEF Launch, askVars, callVars
  <2>2. CASE ~ (EntryOf(i).class = "read" \/ EntryOf(i).class \in {"write", "destructive"})
    BY <1>0, <1>a, <1>c, <1>2, <2>2, Tells DEF Launch, Codes, askVars, callVars
  <2> QED
    BY <2>1, <2>2
<1>3. CASE CheckCapability(i)
  <2>1. CASE Can(ProfileOf(i), entry[i].class)
    BY <1>0, <1>a, <1>c, <1>3, <2>1, Stutters DEF CheckCapability, askVars, callVars
  <2>2. CASE ~Can(ProfileOf(i), entry[i].class)
    BY <1>0, <1>a, <1>c, <1>3, <2>2, Tells DEF CheckCapability, Codes, askVars, callVars
  <2> QED
    BY <2>1, <2>2
<1>4. CASE Snapshot(i)
  <2>1. CASE cmd[i].dryRun
    <3>1. entry[i].class # "read"
      BY <1>4, <2>1 DEF Snapshot, AfterSnapshot, Asked
    <3>2. /\ pc'[i] = "done" /\ code'[i] = "OK" /\ UNCHANGED <<verdict, localVars, callVars>>
      BY <1>0, <1>4, <2>1 DEF Snapshot, AfterSnapshot
    <3>3. Told(i) = "none" /\ Told(i)' = "dry run"
      BY <1>a, <1>c, <2>1, <3>1, <3>2 DEF localVars
    <3>4. Kept(i)
      BY <1>c, <3>2, <3>3, Tells DEF callVars
    <3>5. KInv(i)'
      BY <1>c, <3>2 DEF callVars
    <3> QED
      BY <3>4, <3>5
  <2>2. CASE ~cmd[i].dryRun
    BY <1>0, <1>a, <1>c, <1>4, <2>2, Stutters DEF Snapshot, AfterSnapshot, localVars, callVars
  <2> QED
    BY <2>1, <2>2
<1>5. CASE SnapshotFails(i) \/ ApprovalFails(i) \/ RecheckStale(i)
  BY <1>0, <1>a, <1>c, <1>5, Tells
     DEF SnapshotFails, ApprovalFails, RecheckStale, Codes, localVars, askVars, callVars
<1>6. CASE Approved(i)
  <2>1. verdict[i] = "none" /\ verdict'[i] = "approved" /\ ~cmd[i].dryRun
    BY <1>0, <1>6 DEF Approved, Settle, NotYet, Asked
  <2>2. MustAsk(cmd[i])' = MustAsk(cmd[i])
    BY PolicyStays
  <2>3. Promise(i)!Consent
    BY <1>0, <1>a, <1>c, <1>6, <2>1, <2>2 DEF Approved, Settle, localVars, callVars, Promise!Consent
  <2>4. KInv(i)'
    BY <1>0, <1>a, <1>c, <1>6, <2>1 DEF Approved, Settle, localVars, callVars
  <2> QED
    BY <2>3, <2>4 DEF Kept, Promise!Next
<1>7. CASE Denied(i) \/ TimedOut(i)
  <2>1. verdict[i] = "none" /\ verdict'[i] \in {"denied", "timeout"}
    BY <1>0, <1>7 DEF Denied, TimedOut, Settle, NotYet
  <2> QED
    BY <1>0, <1>a, <1>c, <1>7, <2>1, Tells DEF Denied, TimedOut, Settle, Codes, localVars, callVars
<1>8. CASE RecheckFresh(i)
  <2>1. ~cmd[i].dryRun
    BY <1>8 DEF RecheckFresh, Classified, Asked
  <2> QED
    BY <1>0, <1>a, <1>c, <1>8, <2>1, Stutters DEF RecheckFresh, localVars, callVars
<1> QED
  BY <1>1, <1>2, <1>3, <1>4, <1>5, <1>6, <1>7, <1>8

(* The steps from the request on, the tenant's, the user's and a crash.     *)
LEMMA CallingIsPromised ==
  ASSUME TypeOK, [Next]_vars, NEW i \in Invocations, Known(i),
         \/ Send(i) \/ SendFails(i) \/ Accepted(i) \/ Garbled(i) \/ Refused(i) \/ Limited(i)
         \/ NoAnswer(i) \/ ReadTail(i) \/ AppendRow(i) \/ AuditFails(i)
         \/ ServerApplies(i) \/ ServerRefuses(i) \/ Crash(i)
         \/ \E o \in {"approved", "denied"} : UserSays(i, o)
  PROVE  Kept(i) /\ KInv(i)'
<1> USE DEF Go, Emit, Known, KInv, Silent, NotDry, Open, Told, Uncertain, Sending
<1>0. /\ pc \in [Invocations -> Steps] /\ code \in [Invocations -> Codes]
      /\ wire \in [Invocations -> {"none", "request", "applied", "refused", "limited"}]
      /\ applied \in [Invocations -> Nat]
  BY DEF TypeOK, StepOK, CallOK
<1>a. cmd' = cmd
  BY InputsStay
<1>b. applied[i] = IF wire[i] = "applied" THEN 1 ELSE 0
  BY DEF Once
<1>1. CASE Send(i)
  BY <1>0, <1>a, <1>1, Stutters DEF Send, localVars, askVars
<1>2. CASE SendFails(i) \/ NoAnswer(i)
  BY <1>0, <1>a, <1>2, Tells DEF SendFails, NoAnswer, Codes, localVars, askVars, callVars
<1>3. CASE Garbled(i) \/ Refused(i)
  BY <1>0, <1>a, <1>b, <1>3, Tells DEF Garbled, Refused, Codes, localVars, askVars, callVars
<1>4. CASE Accepted(i)
  <2>1. CASE entry[i].class = "read"
    BY <1>0, <1>a, <1>b, <1>4, <2>1, Tells DEF Accepted, Codes, localVars, askVars, callVars
  <2>2. CASE entry[i].class # "read"
    BY <1>0, <1>a, <1>4, <2>2, Stutters DEF Accepted, localVars, askVars, callVars
  <2> QED
    BY <2>1, <2>2
<1>5. CASE Limited(i)
  <2>1. CASE tries[i] = 1
    BY <1>0, <1>a, <1>5, <2>1, Stutters DEF Limited, localVars, askVars, callVars
  <2>2. CASE tries[i] # 1
    BY <1>0, <1>a, <1>b, <1>5, <2>2, Tells DEF Limited, Codes, localVars, askVars, callVars
  <2> QED
    BY <2>1, <2>2
<1>6. CASE ReadTail(i)
  BY <1>0, <1>a, <1>6, Stutters DEF ReadTail, localVars, askVars, callVars
<1>7. CASE AppendRow(i) \/ AuditFails(i)
  <2>1. pc[i] \in {"tail", "append"} /\ wire[i] = "applied" /\ entry[i].class # "read"
    BY <1>7 DEF AppendRow, AuditFails, Once
  <2> QED
    BY <1>0, <1>a, <1>b, <1>7, <2>1, Tells DEF AppendRow, AuditFails, Codes, localVars, askVars, callVars
<1>8. CASE ServerApplies(i)
  <2>1. /\ wire[i] = "request" /\ applied[i] = 0 /\ applied'[i] = 1
        /\ Told(i) \in Uncertain /\ Told(i)' = Told(i) /\ verdict' = verdict
    BY <1>0, <1>a, <1>b, <1>8 DEF ServerApplies, localVars, askVars
  <2>2. MustAsk(cmd[i]) => verdict[i] = "approved"
    BY <2>1 DEF Cleared, UnderWay
  <2>3. MustAsk(cmd[i])' = MustAsk(cmd[i])
    BY PolicyStays
  <2>4. Promise(i)!Apply
    BY <2>1, <2>2, <2>3 DEF Promise!Apply
  <2>5. KInv(i)'
    BY <1>0, <1>a, <1>8 DEF ServerApplies, localVars
  <2> QED
    BY <2>4, <2>5 DEF Kept, Promise!Next
<1>9. CASE ServerRefuses(i)
  BY <1>0, <1>a, <1>9, Stutters DEF ServerRefuses, localVars, askVars
<1>10. CASE Crash(i)
  BY <1>0, <1>a, <1>10, Stutters DEF Crash, Steps, localVars, askVars, callVars
<1>11. ASSUME NEW o \in {"approved", "denied"}, UserSays(i, o)
       PROVE  Kept(i) /\ KInv(i)'
  BY <1>0, <1>a, <1>11, Stutters DEF UserSays, localVars, callVars
<1> QED
  BY <1>1, <1>2, <1>3, <1>4, <1>5, <1>6, <1>7, <1>8, <1>9, <1>10, <1>11

(* An invocation that no other's step reaches takes none of GatedCall's.    *)
LEMMA UntouchedIsPromised ==
  ASSUME [Next]_vars, NEW j \in Invocations, Untouched(j), code'[j] = code[j], KInv(j)
  PROVE  Kept(j) /\ KInv(j)'
<1>1. cmd'[j] = cmd[j]
  BY InputsStay
<1>2. Told(j)' = Told(j)
  BY <1>1 DEF Untouched, Told
<1>3. Kept(j)
  BY <1>2, Stutters DEF Untouched
<1>4. KInv(j)'
  BY <1>1, <1>2 DEF Untouched, KInv, Silent, NotDry, Open, Sending
<1> QED
  BY <1>3, <1>4

(* What an invocation was told is its own.                                  *)
LEMMA CodesAreLocal ==
  ASSUME TypeOK, NEW i \in Invocations, NEW j \in Invocations, j # i,
         \/ Progress(i) \/ Server(i) \/ Crash(i)
         \/ \E o \in {"approved", "denied"} : UserSays(i, o)
  PROVE  code'[j] = code[j]
<1> USE DEF Go, Emit
<1>0. code \in [Invocations -> Codes]
  BY DEF TypeOK, StepOK
<1>1. CASE Progress(i)
  BY <1>0, <1>1 DEF Progress, Advance, LaunchFails, Launch, CheckCapability, Snapshot, AfterSnapshot,
     SnapshotFails, Approved, Denied, TimedOut, ApprovalFails, RecheckFresh, RecheckStale, Send, SendFails,
     Accepted, Garbled, Refused, Limited, NoAnswer, ReadTail, AppendRow, AuditFails
<1>2. CASE Server(i) \/ Crash(i) \/ \E o \in {"approved", "denied"} : UserSays(i, o)
  BY <1>2 DEF Server, ServerApplies, ServerRefuses, Crash, UserSays
<1> QED
  BY <1>1, <1>2

(* Every step, of whomever, is for each invocation a step of GatedCall or   *)
(* none.                                                                    *)
LEMMA EachStepIsPromised ==
  ASSUME TypeOK, IInv, [Next]_vars, NEW j \in Invocations, Asked(j), Once(j), KInv(j)
  PROVE  Kept(j) /\ KInv(j)'
<1>1. Known(j)
  BY DEF Known, IInv
<1>2. ASSUME NEW i \in Invocations,
             \/ Progress(i) \/ Server(i) \/ Crash(i)
             \/ \E o \in {"approved", "denied"} : UserSays(i, o)
      PROVE  Kept(j) /\ KInv(j)'
  <2>1. CASE j = i
    BY <1>1, <1>2, <2>1, AskingIsPromised, CallingIsPromised DEF Progress, Advance, Server
  <2>2. CASE j # i
    BY <1>2, <2>2, StepsAreLocal, CodesAreLocal, UntouchedIsPromised
  <2> QED
    BY <2>1, <2>2
<1>3. CASE \/ \E r \in Resources : Drift(r)
           \/ \E p \in Profiles : SwitchBegins(p)
           \/ SwitchEnds \/ Finished \/ UNCHANGED vars
  <2>1. code' = code
    BY <1>3 DEF Drift, SwitchBegins, SwitchEnds, Finished, vars
  <2> QED
    BY <1>3, <2>1, SurroundingsAreElsewhere, UntouchedIsPromised
<1> QED
  BY <1>2, <1>3 DEF Next

(* The third invariant.                                                     *)
THEOREM ThirdInvariance == Spec => []\A i \in Invocations : KInv(i)
<1> DEFINE K == \A i \in Invocations : KInv(i)
           J == SwitchInv /\ RowInv /\ \A i \in Invocations : JInv(i)
<1>1. Init => K
  BY DEF Init, KInv, Silent, NotDry, Open, Sending, Each
<1>2. TypeOK /\ IInv /\ J /\ K /\ [Next]_vars => K'
  BY EachStepIsPromised DEF JInv
<1> HIDE DEF J, K
<1>3. Spec => []J
  BY SecondInvariance DEF J
<1>4. Spec => []K
  BY <1>1, <1>2, <1>3, TypeCorrect, Invariance, PTL DEF Spec
<1> QED
  BY <1>4 DEF K

(* Each invocation keeps the promise of GatedCall (KeepsPromise): at most   *)
(* once, never without the approval it needs, and what the agent is told of *)
(* it is true and stays so.                                                 *)
THEOREM Implements == Spec => KeepsPromise
<1> DEFINE J == SwitchInv /\ RowInv /\ \A i \in Invocations : JInv(i)
           K == \A i \in Invocations : KInv(i)
           Step == \A i \in Invocations : [Promise(i)!Next]_(Promise(i)!vars)
<1>1. Init => \A i \in Invocations : Promise(i)!Init
  <2> SUFFICES ASSUME Init, NEW i \in Invocations PROVE Promise(i)!Init
    OBVIOUS
  <2>1. code[i] = "none" /\ verdict[i] = "none" /\ applied[i] = 0
    BY DEF Init, Each
  <2>2. MustAsk(cmd[i]) \in BOOLEAN
    BY DEF MustAsk
  <2> QED
    BY <2>1, <2>2 DEF Promise!Init, Told
<1>2. TypeOK /\ IInv /\ J /\ K /\ [Next]_vars => [Step]_vars
  BY EachStepIsPromised DEF JInv, Kept
<1>3. Spec => []J
  BY SecondInvariance
<1>4. Spec => []K
  BY ThirdInvariance
<1>5. KeepsPromise <=> (\A i \in Invocations : Promise(i)!Init) /\ [][Step]_vars
  BY DEF KeepsPromise
<1> HIDE DEF J, K, Step
<1> QED
  BY <1>1, <1>2, <1>3, <1>4, <1>5, TypeCorrect, Invariance, PTL DEF Spec
-----------------------------------------------------------------------------
(* What runOp knows of approval.Run is module Decision, which Approval      *)
(* implements: an invocation that asks neither forges an answer nor asks    *)
(* twice.                                                                   *)
Ask(i) == INSTANCE Decision WITH
  Said <- {"approved", "denied"}, GivenUp <- {"timeout"}, Nothing <- "none",
  said <- said[i], verdict <- verdict[i]

LEMMA EachStepDecides ==
  ASSUME TypeOK, IInv, [Next]_vars, NEW j \in Invocations
  PROVE  [Ask(j)!Next]_(Ask(j)!vars)
<1>0. said \in [Invocations -> {"none", "approved", "denied"}] /\ verdict \in [Invocations -> Verdicts]
  BY DEF TypeOK, AskOK
<1>1. ASSUME said'[j] = said[j], verdict'[j] = verdict[j] PROVE [Ask(j)!Next]_(Ask(j)!vars)
  BY <1>1 DEF Ask!vars
<1>2. ASSUME NEW o \in {"approved", "denied", "timeout"}, pc[j] = "approval", Settle(j, o)
      PROVE  Ask(j)!Next
  <2>1. verdict[j] = "none" /\ verdict'[j] = o /\ said'[j] = said[j]
    BY <1>0, <1>2 DEF Settle, IInv, NotYet
  <2>2. o \in {"approved", "denied"} => o = said[j]
    BY <1>2 DEF Settle
  <2>3. Ask(j)!Settle(o)
    BY <2>1, <2>2 DEF Ask!Settle
  <2> QED
    BY <2>3 DEF Ask!Next
<1>3. ASSUME NEW o \in {"approved", "denied"}, UserSays(j, o) PROVE Ask(j)!Next
  <2>1. Ask(j)!Say(o)
    BY <1>0, <1>3 DEF UserSays, Ask!Say
  <2> QED
    BY <2>1 DEF Ask!Next
<1>4. CASE Approved(j) \/ Denied(j) \/ TimedOut(j)
  BY <1>2, <1>4 DEF Approved, Denied, TimedOut, Go, Emit
<1>5. CASE Progress(j) /\ ~ (Approved(j) \/ Denied(j) \/ TimedOut(j))
  <2>1. UNCHANGED <<said, verdict>>
    BY <1>5 DEF Progress, Advance, LaunchFails, Launch, CheckCapability, Snapshot, SnapshotFails,
       ApprovalFails, RecheckFresh, RecheckStale, Send, SendFails, Accepted, Garbled, Refused, Limited,
       NoAnswer, ReadTail, AppendRow, AuditFails, askVars
  <2> QED
    BY <1>1, <2>1
<1>6. CASE Server(j) \/ Crash(j)
  <2>1. UNCHANGED <<said, verdict>>
    BY <1>6 DEF Server, ServerApplies, ServerRefuses, Crash, askVars
  <2> QED
    BY <1>1, <2>1
<1>7. CASE Untouched(j)
  BY <1>1, <1>7 DEF Untouched
<1> QED
  BY <1>3, <1>4, <1>5, <1>6, <1>7, StepsAreLocal, SurroundingsAreElsewhere DEF Next

(* Each invocation, seen through what its user said and the verdict it was  *)
(* given, is a behaviour of Decision.                                       *)
THEOREM AsksDecide == Spec => \A i \in Invocations : Ask(i)!Spec
<1> SUFFICES ASSUME NEW i \in Invocations PROVE Spec => Ask(i)!Spec
  OBVIOUS
<1>1. Init => Ask(i)!Init
  BY DEF Init, Each, Ask!Init
<1>2. TypeOK /\ IInv /\ [Next]_vars => [Ask(i)!Next]_(Ask(i)!vars)
  BY EachStepDecides
<1> QED
  BY <1>1, <1>2, TypeCorrect, Invariance, PTL DEF Spec, Ask!Spec
-----------------------------------------------------------------------------
(* How many steps an invocation has left, its retry included.               *)
Place == [idle |-> 11, capability |-> 10, snapshot |-> 9, approval |-> 8, recheck |-> 7,
          send |-> 6, wait |-> 7, backoff |-> 4, tail |-> 2, append |-> 1,
          done |-> 0, crashed |-> 0]
Left(i) == Place[pc[i]] - (IF pc[i] = "wait" THEN 2 * tries[i] ELSE 0)

Waiting(i) == pc[i] = "wait" => tries[i] \in {1, 2}

LEMMA LeftTyped ==
  ASSUME TypeOK, NEW i \in Invocations, Waiting(i)
  PROVE  /\ Left(i) \in 0..11
         /\ pc[i] \notin {"done", "crashed"} => Left(i) > 0
<1>1. pc[i] \in Steps
  BY DEF TypeOK, StepOK
<1> QED
  BY <1>1 DEF Left, Place, Waiting, Steps

LEMMA EachStepIsCounted ==
  ASSUME TypeOK, Counted, [Next]_vars, NEW i \in Invocations, Waiting(i)
  PROVE  /\ Waiting(i)'
         /\ pc'[i] # pc[i] => Left(i)' < Left(i)
<1>1. /\ pc \in [Invocations -> Steps] /\ tries \in [Invocations -> 0..2]
      /\ pc[i] \in BeforeSend => tries[i] = 0
      /\ pc[i] = "backoff" => tries[i] = 1
  BY DEF TypeOK, StepOK, CallOK, Counted
<1> USE DEF Go, Emit, Waiting, Left, Place, BeforeSend, callVars
<1>2. CASE \/ LaunchFails(i) \/ Launch(i) \/ CheckCapability(i)
           \/ Snapshot(i) \/ SnapshotFails(i) \/ Approved(i) \/ Denied(i) \/ TimedOut(i)
           \/ ApprovalFails(i) \/ RecheckFresh(i) \/ RecheckStale(i)
  BY <1>1, <1>2 DEF LaunchFails, Launch, CheckCapability, Snapshot, AfterSnapshot, SnapshotFails,
                    Approved, Denied, TimedOut, Settle, ApprovalFails, RecheckFresh, RecheckStale
<1>3. CASE Send(i) \/ SendFails(i) \/ Accepted(i) \/ Garbled(i)
  BY <1>1, <1>3 DEF Send, SendFails, Accepted, Garbled
<1>4. CASE Refused(i) \/ Limited(i) \/ NoAnswer(i)
  BY <1>1, <1>4 DEF Refused, Limited, NoAnswer
<1>5. CASE ReadTail(i) \/ AppendRow(i) \/ AuditFails(i)
  BY <1>1, <1>5 DEF ReadTail, AppendRow, AuditFails
<1>6. CASE Crash(i)
  <2>1. pc[i] \notin {"done", "crashed"} /\ pc'[i] = "crashed"
    BY <1>1, <1>6 DEF Crash
  <2>2. Left(i) > 0
    BY <2>1, LeftTyped
  <2> QED
    BY <2>1, <2>2
<1>7. CASE UNCHANGED <<pc, tries>>
  BY <1>7
<1>8. ASSUME NEW j \in Invocations, j # i, Progress(j) \/ Crash(j)
      PROVE  pc'[i] = pc[i] /\ tries'[i] = tries[i]
  <2>1. pc'[i] = pc[i]
    BY <1>8, StepsAreLocal DEF Untouched
  <2>2. tries'[i] = tries[i]
    BY <1>1, <1>8 DEF Progress, Advance, LaunchFails, Launch, CheckCapability, Snapshot, SnapshotFails,
       Approved, Denied, TimedOut, Settle, ApprovalFails, RecheckFresh, RecheckStale, Send, SendFails,
       Accepted, Garbled, Refused, Limited, NoAnswer, ReadTail, AppendRow, AuditFails, Crash
  <2> QED
    BY <2>1, <2>2
<1>9. \/ \E j \in Invocations : Progress(j) \/ Crash(j)
      \/ UNCHANGED <<pc, tries>>
  BY DEF Next, Server, ServerApplies, ServerRefuses, UserSays, Drift, SwitchBegins, SwitchEnds,
         Finished, vars
<1>10. CASE Progress(i) \/ Crash(i)
  BY <1>2, <1>3, <1>4, <1>5, <1>6, <1>10 DEF Progress, Advance
<1>11. CASE pc'[i] = pc[i] /\ tries'[i] = tries[i]
  BY <1>11
<1> QED
  BY <1>7, <1>8, <1>9, <1>10, <1>11

(* Whatever a step does that moves an invocation on, it has fewer left:     *)
(* none is repeated, and the one retry is the last.                         *)
THEOREM StepsRunOut ==
  Spec => /\ [](\A i \in Invocations : Left(i) \in 0..11)
          /\ [][\A i \in Invocations : pc'[i] # pc[i] => Left(i)' < Left(i)]_vars
<1> DEFINE W == Counted /\ \A i \in Invocations : Waiting(i)
           Down == \A i \in Invocations : pc'[i] # pc[i] => Left(i)' < Left(i)
           Few == \A i \in Invocations : Left(i) \in 0..11
<1>1. Init => W
  BY DEF Init, Each, Counted, Waiting
<1>2. TypeOK /\ W /\ [Next]_vars => W' /\ [Down]_vars
  BY CountingStays, EachStepIsCounted
<1>3. TypeOK /\ W => Few
  BY LeftTyped
<1> HIDE DEF W, Down, Few
<1>4. Spec => []Few /\ [][Down]_vars
  BY <1>1, <1>2, <1>3, TypeCorrect, PTL DEF Spec
<1> QED
  BY <1>4 DEF Down, Few
=============================================================================
