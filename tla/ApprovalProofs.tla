--------------------------- MODULE ApprovalProofs ---------------------------
(***************************************************************************)
(* Approval for any set of tabs and any number of requests: the verdict,   *)
(* the page and the listener are as the runs of MCApproval check them, and *)
(* the server implements Decision.                                         *)
(***************************************************************************)
EXTENDS Approval, TLAPS

(* The strengthening: once something is decided it is the first click, and  *)
(* every place the decision was copied to - outcome, a reloaded page - is   *)
(* that click.  Nothing in the properties says that decision itself never   *)
(* changes again, which is what makes them hold after the next click.       *)
Recorded == IF decided THEN clicks # <<>> /\ decision = clicks[1] ELSE clicks = <<>>

Acted == outcome \in Clicked => decided /\ outcome = decision

Told == \A t \in Tabs : shown[t].from = "page" => decided /\ shown[t].word = decision

Closed == phase \in {"draining", "returned", "exited"} => ~listening

(* No verdict before the caller has stopped waiting for one. *)
Unsettled == phase \in {"idle", "failed", "begun", "waiting"} => outcome = "none"

IInv == TypeOK /\ Recorded /\ Acted /\ Told /\ Closed /\ Unsettled
-----------------------------------------------------------------------------
(* What every handler puts on a page is a screen.                           *)
LEMMA ScreensShown ==
  /\ {Blank, Form, NotAllowed} \subseteq Screens
  /\ \A via \in {"page", "click"}, w \in Clicked : Word(via, w) \in Screens
BY DEF Screens, Blank, Form, NotAllowed, Word, Clicked

(* A click keeps the types, whatever signal makes of it.                    *)
LEMMA ClickKeepsTypes ==
  ASSUME TypeOK, NEW t \in Tabs, NEW route, NEW word \in Clicked, HandleClick(t, route, word)
  PROVE  TypeOK'
<1>1. shown' \in [Tabs -> Screens]
  BY ScreensShown DEF TypeOK, HandleClick, Respond
<1>2. clicks' \in Seq(Clicked)
  BY DEF TypeOK, HandleClick
<1>3. decided' \in BOOLEAN /\ decision' \in Clicked
  BY DEF TypeOK, HandleClick, Signal
<1>4. request' \in [Tabs -> Routes \cup {"none"}]
  BY DEF TypeOK, HandleClick, Respond
<1> QED
  BY <1>1, <1>2, <1>3, <1>4 DEF TypeOK, HandleClick, Respond, callerVars

(* The initial state has its types.                                         *)
LEMMA InitTypes == Init => TypeOK
<1> SUFFICES ASSUME Init PROVE TypeOK
  OBVIOUS
<1>1. shown \in [Tabs -> Screens]
  BY ScreensShown DEF Init
<1>2. clicks \in Seq(Clicked)
  BY DEF Init
<1>3. request \in [Tabs -> Routes \cup {"none"}] /\ sent \in [Tabs -> 0..MaxRequests]
  BY ApprovalAssumption DEF Init
<1> QED
  BY <1>1, <1>2, <1>3 DEF Init, TypeOK, Phases, Clicked, Outcomes

(* Type correctness of the server, its handlers and the waiting goroutine.  *)
THEOREM TypeCorrect == Spec => []TypeOK
<1>1. TypeOK /\ [Next]_vars => TypeOK'
  <2> SUFFICES ASSUME TypeOK, [Next]_vars PROVE TypeOK'
    OBVIOUS
  <2> USE ApprovalAssumption DEF TypeOK, Phases, Clicked, Outcomes, Routes, Screens,
                                 serverVars, tabVars, callerVars
  <2>1. ASSUME NEW targets \in 0..1, NEW bound \in BOOLEAN, Begin(targets, bound)
        PROVE  TypeOK'
    BY <2>1 DEF Begin
  <2>2. ASSUME NEW t \in Tabs, NEW r \in Routes, Connect(t, r) PROVE TypeOK'
    BY <2>2 DEF Connect
  <2>3. ASSUME NEW t \in Tabs, HandleApprove(t) PROVE TypeOK'
    BY <2>3, ClickKeepsTypes DEF HandleApprove
  <2>4. ASSUME NEW t \in Tabs, HandleDeny(t) PROVE TypeOK'
    BY <2>4, ClickKeepsTypes DEF HandleDeny
  <2>5. ASSUME NEW t \in Tabs, RejectMethod(t) PROVE TypeOK'
    BY <2>5 DEF RejectMethod, Respond, NotAllowed
  <2>6. ASSUME NEW t \in Tabs, HandlePage(t) PROVE TypeOK'
    BY <2>6 DEF HandlePage, Respond, Word, Form
  <2>7. CASE EnterWait \/ TimerFires \/ CancelContext \/ Wake
    BY <2>7 DEF EnterWait, TimerFires, CancelContext, Wake, WakeOnDone, WakeOnTimer,
                WakeOnContext, WakeWith
  <2>8. CASE Cancel \/ CloseListener \/ ShutdownReturns \/ Exit
    BY <2>8 DEF Cancel, CloseListener, ShutdownReturns, Exit
  <2>9. CASE Done \/ UNCHANGED vars
    BY <2>9 DEF Done, vars
  <2> QED
    BY <2>1, <2>2, <2>3, <2>4, <2>5, <2>6, <2>7, <2>8, <2>9 DEF Next, Handle
<1> QED
  BY <1>1, InitTypes, PTL DEF Spec

(* A click, first or not, leaves the record and its copies in agreement.    *)
LEMMA ClickKeepsIInv ==
  ASSUME IInv, NEW t \in Tabs, NEW route, NEW word \in Clicked, HandleClick(t, route, word)
  PROVE  Recorded' /\ Acted' /\ Told' /\ Closed' /\ Unsettled'
<1> USE DEF IInv, TypeOK, HandleClick, Respond, callerVars
<1>1. clicks' # <<>> /\ (clicks # <<>> => clicks'[1] = clicks[1])
                     /\ (clicks = <<>> => clicks'[1] = word)
  OBVIOUS
<1>2. Recorded'
  BY <1>1 DEF Recorded, Signal
<1>3. decided => decided' /\ decision' = decision
  BY DEF Signal
<1>4. Acted'
  BY <1>3 DEF Acted
<1>5. Told'
  <2> SUFFICES ASSUME NEW u \in Tabs, shown'[u].from = "page"
               PROVE  decided' /\ shown'[u].word = decision'
    BY DEF Told
  <2>1. CASE u = t
    BY <2>1 DEF Word
  <2>2. CASE u # t
    BY <2>2, <1>3 DEF Told
  <2> QED
    BY <2>1, <2>2
<1> QED
  BY <1>2, <1>4, <1>5 DEF Closed, Unsettled

(* The inductive invariant.                                                 *)
THEOREM Invariance == Spec => []IInv
<1>1. Init => IInv
  <2> SUFFICES ASSUME Init PROVE IInv
    OBVIOUS
  <2>1. TypeOK
    BY InitTypes
  <2> QED
    BY <2>1 DEF Init, IInv, Recorded, Acted, Told, Closed, Unsettled, Clicked, Blank
<1>2. IInv /\ TypeOK' /\ [Next]_vars => IInv'
  <2> SUFFICES ASSUME IInv, TypeOK', [Next]_vars
               PROVE  Recorded' /\ Acted' /\ Told' /\ Closed' /\ Unsettled'
    BY DEF IInv
  <2> USE DEF IInv, TypeOK, Recorded, Acted, Told, Closed, Unsettled, Clicked,
              serverVars, tabVars, callerVars
  <2>1. ASSUME NEW targets \in 0..1, NEW bound \in BOOLEAN, Begin(targets, bound)
        PROVE  Recorded' /\ Acted' /\ Told' /\ Closed' /\ Unsettled'
    BY <2>1 DEF Begin
  <2>2. ASSUME NEW t \in Tabs, NEW r \in Routes, Connect(t, r)
        PROVE  Recorded' /\ Acted' /\ Told' /\ Closed' /\ Unsettled'
    BY <2>2 DEF Connect
  <2>3. ASSUME NEW t \in Tabs, HandleApprove(t) \/ HandleDeny(t)
        PROVE  Recorded' /\ Acted' /\ Told' /\ Closed' /\ Unsettled'
    <3>1. CASE HandleApprove(t)
      BY <3>1, ClickKeepsIInv DEF HandleApprove
    <3>2. CASE HandleDeny(t)
      BY <3>2, ClickKeepsIInv DEF HandleDeny
    <3> QED
      BY <2>3, <3>1, <3>2
  <2>4. ASSUME NEW t \in Tabs, RejectMethod(t)
        PROVE  Recorded' /\ Acted' /\ Told' /\ Closed' /\ Unsettled'
    BY <2>4 DEF RejectMethod, Respond, NotAllowed
  <2>5. ASSUME NEW t \in Tabs, HandlePage(t)
        PROVE  Recorded' /\ Acted' /\ Told' /\ Closed' /\ Unsettled'
    BY <2>5 DEF HandlePage, Respond, Word, Form
  <2>6. CASE EnterWait \/ TimerFires \/ CancelContext
    BY <2>6 DEF EnterWait, TimerFires, CancelContext
  <2>7. CASE Wake
    BY <2>7 DEF Wake, WakeOnDone, WakeOnTimer, WakeOnContext, WakeWith
  <2>8. CASE Cancel \/ CloseListener \/ ShutdownReturns \/ Exit
    BY <2>8 DEF Cancel, CloseListener, ShutdownReturns, Exit
  <2>9. CASE Done \/ UNCHANGED vars
    BY <2>9 DEF Done, vars
  <2> QED
    BY <2>1, <2>2, <2>3, <2>4, <2>5, <2>6, <2>7, <2>8, <2>9 DEF Next, Handle
<1> QED
  BY <1>1, <1>2, TypeCorrect, PTL DEF Spec

(* The verdict the caller acts on is the first click that was handled.      *)
THEOREM VerdictIsFirstClick == Spec => []FirstClickWins
<1>1. IInv => FirstClickWins
  BY DEF IInv, Recorded, Acted, FirstClickWins
<1> QED
  BY <1>1, Invariance, PTL

(* A reloaded page tells that same click.                                   *)
THEOREM ReloadIsFirstClick == Spec => []ReloadTellsTheDecision
<1>1. IInv => ReloadTellsTheDecision
  BY DEF IInv, Recorded, Told, ReloadTellsTheDecision
<1> QED
  BY <1>1, Invariance, PTL

(* Once Wait has returned the listener accepts no connection.               *)
THEOREM ClosedOnReturn == Spec => []ClosedBeforeReturn
<1>1. IInv => ClosedBeforeReturn
  BY DEF IInv, Closed, ClosedBeforeReturn
<1> QED
  BY <1>1, Invariance, PTL

(* Whoever waits has a timer running, and whoever is past the select has an *)
(* outcome.                                                                 *)
Timed ==
  /\ phase \in {"idle", "begun"} => timer = "unset"
  /\ phase = "waiting" => timer \in {"armed", "fired"}
  /\ phase \in {"closing", "draining"} /\ timer # "unset" => outcome # "none"

(* Wait is never without a way out that needs neither the user nor the      *)
(* caller's context, and never leaves its select empty-handed: with the     *)
(* scheduling that WaitReturns assumes, this is why it returns an outcome.  *)
THEOREM WaitIsTimed == Spec => []Timed
<1>1. Init => Timed
  BY DEF Init, Timed
<1>2. TypeOK /\ Timed /\ [Next]_vars => Timed'
  <2> SUFFICES ASSUME TypeOK, Timed, [Next]_vars PROVE Timed'
    OBVIOUS
  <2> USE DEF Timed, TypeOK, callerVars, tabVars, serverVars
  <2>1. ASSUME NEW targets, NEW bound, Begin(targets, bound) PROVE Timed'
    BY <2>1 DEF Begin
  <2>2. ASSUME UNCHANGED callerVars PROVE Timed'
    BY <2>2
  <2>3. ASSUME NEW t \in Tabs, (\E r \in Routes : Connect(t, r)) \/ Handle(t) PROVE Timed'
    BY <2>2, <2>3 DEF Connect, Handle, HandleApprove, HandleDeny, HandleClick, RejectMethod,
       HandlePage, Respond
  <2>4. CASE EnterWait \/ TimerFires \/ CancelContext
    BY <2>4 DEF EnterWait, TimerFires, CancelContext
  <2>5. CASE Wake
    BY <2>5 DEF Wake, WakeOnDone, WakeOnTimer, WakeOnContext, WakeWith, Clicked
  <2>6. CASE Cancel \/ CloseListener \/ ShutdownReturns \/ Exit
    BY <2>6 DEF Cancel, CloseListener, ShutdownReturns, Exit
  <2>7. CASE Done \/ UNCHANGED vars
    BY <2>2, <2>7 DEF Done, vars
  <2> QED
    BY <2>1, <2>3, <2>4, <2>5, <2>6, <2>7 DEF Next
<1> QED
  BY <1>1, <1>2, TypeCorrect, PTL DEF Spec
-----------------------------------------------------------------------------
(* The server implements Decision: every step says what the user said, or   *)
(* settles the verdict on it or on giving up, or changes neither.           *)
THEOREM Implements == Spec => KeepsPromise
<1>1. Init => Promise!Init
  BY DEF Init, Promise!Init
<1>2. IInv /\ IInv' /\ [Next]_vars => [Promise!Next]_(Promise!vars)
  <2> SUFFICES ASSUME IInv, IInv', [Next]_vars
               PROVE  Promise!Next \/ UNCHANGED Promise!vars
    OBVIOUS
  <2> USE DEF IInv, TypeOK, Clicked, Promise!vars, serverVars, callerVars, tabVars
  <2>1. ASSUME NEW t \in Tabs, NEW route, NEW word \in Clicked, HandleClick(t, route, word)
        PROVE  Promise!Next \/ UNCHANGED Promise!vars
    <3>1. CASE decided
      BY <2>1, <3>1 DEF HandleClick, Signal, Respond
    <3>2. CASE ~decided
      <4>1. Promise!Say(word)
        BY <2>1, <3>2 DEF HandleClick, Signal, Respond, Promise!Say
      <4> QED
        BY <4>1 DEF Promise!Next
    <3> QED
      BY <3>1, <3>2
  <2>2. CASE Wake
    <3>1. WakeOnDone => Promise!Settle(decision)
      BY DEF WakeOnDone, WakeWith, Promise!Settle, Unsettled
    <3>2. WakeOnTimer => Promise!Settle("timeout")
      BY DEF WakeOnTimer, WakeWith, Promise!Settle, Unsettled
    <3>3. WakeOnContext => Promise!Settle("aborted")
      BY DEF WakeOnContext, WakeWith, Promise!Settle, Unsettled
    <3> QED
      BY <2>2, <3>1, <3>2, <3>3 DEF Wake, Promise!Next
  <2>3. CASE Next /\ ~Wake /\ ~(\E t \in Tabs : HandleApprove(t) \/ HandleDeny(t))
    <3>1. UNCHANGED <<decided, decision, outcome>>
      BY <2>3 DEF Next, Handle, Begin, Connect, RejectMethod, HandlePage, Respond, EnterWait,
                  TimerFires, CancelContext, Cancel, CloseListener, ShutdownReturns, Exit,
                  Done, vars
    <3> QED
      BY <3>1
  <2>4. CASE UNCHANGED vars
    BY <2>4 DEF vars
  <2> QED
    BY <2>1, <2>2, <2>3, <2>4 DEF HandleApprove, HandleDeny
<1> QED
  BY <1>1, <1>2, Invariance, PTL DEF Spec, KeepsPromise, Promise!Spec
=============================================================================
