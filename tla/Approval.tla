------------------------------ MODULE Approval ------------------------------
(***************************************************************************)
(* One browser-approval request (internal/approval): the HTTP server that  *)
(* Begin starts, the goroutines that run its handlers, the goroutine that  *)
(* calls Wait, and the browser tabs that talk to the server.               *)
(*                                                                         *)
(* signal holds server.mu and nothing reads decision without it, so the    *)
(* three assignments of signal are one step.  done is closed in that same  *)
(* step: "done is closed" is decided.  A handler is two steps of a tab:    *)
(* the server accepts the request (Connect), its goroutine runs later.     *)
(***************************************************************************)
EXTENDS Naturals, Sequences

CONSTANTS Tabs,        \* browser tabs (or scripts) that can reach the URL
          MaxRequests  \* bound: requests one tab sends

ASSUME ApprovalAssumption == MaxRequests \in Nat

VARIABLES
  phase,      \* where the goroutine that calls Begin and Wait is
  decided,    \* server.decided, and whether server.done is closed
  decision,   \* server.decision: its Go zero value is OutcomeApproved
  outcome,    \* Result.Outcome, once the select in Wait has picked a case
  timer,      \* the timer Wait creates: "unset", "armed" or "fired"
  cancelled,  \* the caller's context is done
  listening,  \* the listener still accepts connections
  request,    \* request[t]: what tab t has in flight
  shown,      \* shown[t]: what the last response to tab t displays
  sent,       \* sent[t]: requests tab t has made
  clicks      \* history: the approve and deny requests, as handled

vars == <<phase, decided, decision, outcome, timer, cancelled, listening,
          request, shown, sent, clicks>>

serverVars == <<decided, decision, clicks>>
tabVars    == <<request, shown, sent>>
callerVars == <<phase, outcome, timer, cancelled, listening>>

Phases   == {"idle", "failed", "begun", "waiting", "closing", "draining",
             "returned", "exited"}
Clicked  == {"approved", "denied"}
Outcomes == Clicked \cup {"timeout", "aborted"}
Routes   == {"page", "approve", "deny", "badMethod"}
Screens  == [from : {"nothing", "form", "405"}, word : {"none"}]
              \cup [from : {"page", "click"}, word : Clicked]
Blank    == [from |-> "nothing", word |-> "none"]
Form     == [from |-> "form",    word |-> "none"]
NotAllowed == [from |-> "405",   word |-> "none"]
Word(via, w) == [from |-> via, word |-> w]

Init ==
  /\ phase = "idle"
  /\ decided = FALSE /\ decision = "approved"
  /\ outcome = "none" /\ timer = "unset" /\ cancelled = FALSE
  /\ listening = FALSE
  /\ request = [t \in Tabs |-> "none"]
  /\ shown = [t \in Tabs |-> Blank]
  /\ sent = [t \in Tabs |-> 0]
  /\ clicks = <<>>
-----------------------------------------------------------------------------
(* Begin(req): no targets, or no port to bind, and there is no server. *)
Begin(targets, bound) ==
  /\ phase = "idle"
  /\ IF targets = 0 \/ ~bound
     THEN phase' = "failed" /\ UNCHANGED listening
     ELSE phase' = "begun" /\ listening' = TRUE
  /\ UNCHANGED <<serverVars, tabVars, outcome, timer, cancelled>>

(* A tab's request is accepted; its handler goroutine has not run yet. *)
Connect(t, r) ==
  /\ listening
  /\ request[t] = "none" /\ sent[t] < MaxRequests
  /\ request' = [request EXCEPT ![t] = r]
  /\ sent' = [sent EXCEPT ![t] = @ + 1]
  /\ UNCHANGED <<callerVars, serverVars, shown>>

(* The response reaches tab t. *)
Respond(t, screen) ==
  /\ request' = [request EXCEPT ![t] = "none"]
  /\ shown' = [shown EXCEPT ![t] = screen]
  /\ UNCHANGED <<callerVars, sent>>

(* Mutant: without the test of decided, the last click wins. *)
MutSignal(o) == decided' = TRUE /\ decision' = o

(* signal(o): the first decision is recorded, every later one is ignored. *)
Signal(o) ==
  IF decided THEN UNCHANGED <<decided, decision>>
             ELSE decided' = TRUE /\ decision' = o

Running == phase \notin {"idle", "failed", "exited"}

(* handleApprove and handleDeny: the word on the page is the handler's own, *)
(* whatever signal did with it.                                             *)
HandleClick(t, route, word) ==
  /\ Running
  /\ request[t] = route
  /\ Signal(word)
  /\ clicks' = Append(clicks, word)
  /\ Respond(t, Word("click", word))

HandleApprove(t) == HandleClick(t, "approve", "approved")
HandleDeny(t)    == HandleClick(t, "deny", "denied")

(* Mutant: the 405 answer is sent, but the request is not refused. *)
MutRejectMethod(t) ==
  /\ Running /\ request[t] = "badMethod"
  /\ Signal("approved")
  /\ Respond(t, NotAllowed) /\ UNCHANGED clicks

(* The method test at the top of both handlers. *)
RejectMethod(t) ==
  /\ Running
  /\ request[t] = "badMethod"
  /\ Respond(t, NotAllowed)
  /\ UNCHANGED serverVars

(* Mutant: the page reads decision without asking whether there is one. *)
MutHandlePage(t) ==
  /\ Running /\ request[t] = "page"
  /\ Respond(t, Word("page", decision))
  /\ UNCHANGED serverVars

(* handleApprovalPage: the form, or the decision once there is one. *)
HandlePage(t) ==
  /\ Running
  /\ request[t] = "page"
  /\ Respond(t, IF decided THEN Word("page", decision) ELSE Form)
  /\ UNCHANGED serverVars

Handle(t) == HandleApprove(t) \/ HandleDeny(t) \/ RejectMethod(t) \/ HandlePage(t)
-----------------------------------------------------------------------------
(* Mutant: Wait creates no timer. *)
MutEnterWait ==
  /\ phase = "begun" /\ phase' = "waiting"
  /\ UNCHANGED <<serverVars, tabVars, outcome, timer, cancelled, listening>>

(* Wait, called by the goroutine that called Begin: the timer starts. *)
EnterWait ==
  /\ phase = "begun"
  /\ phase' = "waiting" /\ timer' = "armed"
  /\ UNCHANGED <<serverVars, tabVars, outcome, cancelled, listening>>

TimerFires ==
  /\ timer = "armed"
  /\ timer' = "fired"
  /\ UNCHANGED <<serverVars, tabVars, phase, outcome, cancelled, listening>>

(* The caller of Wait gives up.  Run passes context.Background(), which     *)
(* never does; the package's interface allows it.                           *)
CancelContext ==
  /\ phase \in {"begun", "waiting"} /\ ~cancelled
  /\ cancelled' = TRUE
  /\ UNCHANGED <<serverVars, tabVars, phase, outcome, timer, listening>>

(* The select of Wait.  Several cases may be ready: Go picks any of them.  *)
WakeWith(ready, o) ==
  /\ phase = "waiting" /\ ready
  /\ outcome' = o
  /\ phase' = "closing"
  /\ UNCHANGED <<serverVars, tabVars, timer, cancelled, listening>>

(* Mutant: every case of the select reads the decision. *)
MutWakeOnTimer == WakeWith(timer = "fired", decision)

WakeOnDone    == WakeWith(decided, decision)
WakeOnTimer   == WakeWith(timer = "fired", "timeout")
WakeOnContext == WakeWith(cancelled, "aborted")

(* Pending.Cancel: tear down with no verdict. *)
Cancel ==
  /\ phase = "begun"
  /\ phase' = "closing"
  /\ UNCHANGED <<serverVars, tabVars, outcome, timer, cancelled, listening>>

(* Mutant: Wait returns without Shutdown. *)
MutCloseListener ==
  /\ phase = "closing" /\ phase' = "draining"
  /\ UNCHANGED <<serverVars, tabVars, outcome, timer, cancelled, listening>>

(* http.Server.Shutdown: the listener closes at once ... *)
CloseListener ==
  /\ phase = "closing"
  /\ phase' = "draining" /\ listening' = FALSE
  /\ UNCHANGED <<serverVars, tabVars, outcome, timer, cancelled>>

(* ... and Shutdown returns when the handlers have, or after two seconds    *)
(* with some of them still to run.  Wait stops its timer as it returns.     *)
ShutdownReturns ==
  /\ phase = "draining"
  /\ phase' = "returned" /\ timer' = "unset"
  /\ UNCHANGED <<serverVars, tabVars, outcome, cancelled, listening>>

(* The process ends, and with it every handler that has not answered. *)
Exit ==
  /\ phase = "returned"
  /\ phase' = "exited"
  /\ request' = [t \in Tabs |-> "none"]
  /\ UNCHANGED <<serverVars, shown, sent, outcome, timer, cancelled, listening>>

Done == phase \in {"failed", "exited"} /\ UNCHANGED vars

Wake == WakeOnDone \/ WakeOnTimer \/ WakeOnContext

Next ==
  \/ \E targets \in 0..1, bound \in BOOLEAN : Begin(targets, bound)
  \/ \E t \in Tabs : (\E r \in Routes : Connect(t, r)) \/ Handle(t)
  \/ EnterWait \/ TimerFires \/ CancelContext \/ Wake
  \/ Cancel \/ CloseListener \/ ShutdownReturns \/ Exit
  \/ Done

(* Begin and Wait are consecutive statements of one goroutine, the timer    *)
(* and the two-second limit of shutdown are the runtime's, and the process  *)
(* ends some time after Wait returned.  net/http runs every handler it has  *)
(* accepted while the process lives.  Nothing makes a user click.           *)
Fairness ==
  /\ WF_vars(EnterWait) /\ WF_vars(TimerFires) /\ WF_vars(Wake)
  /\ WF_vars(CloseListener) /\ WF_vars(ShutdownReturns) /\ WF_vars(Exit)
  /\ \A t \in Tabs : WF_vars(Handle(t))

Spec == Init /\ [][Next]_vars /\ Fairness
-----------------------------------------------------------------------------
TypeOK ==
  /\ phase \in Phases
  /\ decided \in BOOLEAN
  /\ decision \in Clicked
  /\ outcome \in Outcomes \cup {"none"}
  /\ timer \in {"unset", "armed", "fired"}
  /\ cancelled \in BOOLEAN
  /\ listening \in BOOLEAN
  /\ request \in [Tabs -> Routes \cup {"none"}]
  /\ shown \in [Tabs -> Screens]
  /\ sent \in [Tabs -> 0..MaxRequests]
  /\ clicks \in Seq(Clicked)

(* The verdict the caller acts on is the first click that was handled: no   *)
(* second click, no click handled after Wait chose, no zero value of        *)
(* decision and no expired timer ever turns into "approved" or "denied".    *)
FirstClickWins ==
  outcome \in Clicked => clicks # <<>> /\ outcome = clicks[1]

(* A tab that reloads the approval page after the decision is told that     *)
(* decision and no other, in whatever order later clicks were handled.      *)
ReloadTellsTheDecision ==
  \A t \in Tabs : shown[t].from = "page" =>
                    clicks # <<>> /\ shown[t].word = clicks[1]

(* Once Wait has returned no tab can open a request any more: what is still *)
(* in flight then was accepted before.                                      *)
ClosedBeforeReturn == phase \in {"returned", "exited"} => ~listening

(* Wait returns: whatever the user, the tabs and the context do, the caller *)
(* is not left waiting, and it is given an outcome.                         *)
WaitReturns ==
  phase = "waiting" ~> (phase \in {"returned", "exited"} /\ outcome # "none")

(* The server and its handlers keep the promise of Decision. *)
Promise == INSTANCE Decision WITH
  Said <- Clicked, GivenUp <- {"timeout", "aborted"}, Nothing <- "none",
  said <- IF decided THEN decision ELSE "none",
  verdict <- outcome

(* Every step of the server is a step of Decision, or none at all. *)
KeepsPromise == Promise!Spec
=============================================================================
