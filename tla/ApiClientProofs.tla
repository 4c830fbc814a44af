--------------------------- MODULE ApiClientProofs ---------------------------
(***************************************************************************)
(* The API client for every timeout, margin, cap, token life and header:   *)
(* the margin of Expired is enough because it is twice the timeout.        *)
(***************************************************************************)
EXTENDS ApiClient, TLAPS

InFlight == {"fetch", "issued", "wait", "arrived"}

(* No request outlasts its timeout, and no wait its timer. *)
InTime ==
  /\ since <= now /\ began <= now
  /\ pc \in InFlight => now - since <= Timeout
  /\ pc = "backoff" => now - since <= wait

(* A token expires at most one timeout earlier than its age tells.          *)
Ages(t) == t.obtained <= now /\ t.expires >= t.obtained + t.life - Timeout

(* What is left of a token when it is sent is enough for the request.       *)
Lasting ==
  /\ Ages(cached)
  /\ pc = "issued" => issued.expires >= since + issued.life
  /\ pc = "wait" /\ using.life >= 2 * Timeout => using.expires >= since + Timeout

(* When the n-th token can have been asked for, at the latest. *)
Spent(n) == IF n = 0 THEN 0 ELSE 2 * Timeout + MaxWait

(* Where the time of a call went: each place adds one timeout or one wait.  *)
Budget ==
  /\ pc = "idle" => tries = 0
  /\ pc \in {"token", "fetch", "issued"} => tries \in 0..1
  /\ pc = "token" => now - began <= Spent(tries)
  /\ pc \in {"fetch", "issued"} => since - began <= Spent(tries)
  /\ pc \in {"wait", "arrived"} => tries \in 1..2 /\ since - began <= Spent(tries - 1) + Timeout
  /\ pc = "backoff" => tries = 1 /\ since - began <= 2 * Timeout

AtLeast == IF asked > MaxWait THEN MaxWait ELSE asked

(* The wait is as long as the tenant asked for, or the cap; of a number that *)
(* overflows nothing is known.                                              *)
Patient ==
  asked \in Nat =>
    /\ pc = "backoff" => since = limited /\ wait >= AtLeast
    /\ pc = "token" /\ tries = 1 => now - limited >= AtLeast
    /\ pc \in {"fetch", "issued"} /\ tries = 1 => since - limited >= AtLeast
    /\ pc \in {"wait", "arrived"} /\ tries = 2 => since - limited >= AtLeast

IInv == TypeOK /\ InTime /\ Lasting /\ Budget /\ Patient /\ ValidOnArrival
-----------------------------------------------------------------------------
(* A wait is no longer than the cap, and where a header says a number that  *)
(* a Duration holds it is that number or the cap.                           *)
LEMMA WaitsBounded ==
  ASSUME NEW h \in Asked
  PROVE  /\ RetryWaits(h) \subseteq 0..MaxWait
         /\ h \in Nat => \A w \in RetryWaits(h) : w >= (IF h > MaxWait THEN MaxWait ELSE h)
<1>1. CASE h = Overflow \/ h = NoHeader
  BY <1>1, ApiClientAssumption DEF RetryWaits
<1>2. CASE h \in Nat
  BY <1>2, ApiClientAssumption DEF RetryWaits
<1> QED
  BY <1>1, <1>2, ApiClientAssumption

LEMMA NilTyped == Nil \in Tokens
  BY DEF Nil, Tokens

(* Type correctness.                                                        *)
LEMMA StepTypes == TypeOK /\ Budget /\ [Next]_vars => TypeOK'
<1> SUFFICES ASSUME TypeOK, Budget, [Next]_vars PROVE TypeOK'
  OBVIOUS
<1> USE ApiClientAssumption DEF TypeOK, Places, tokenVars, retryVars
<1>1. CASE Tick
  BY <1>1 DEF Tick
<1>2. CASE Do
  BY <1>2 DEF Do
<1>3. ASSUME Return PROVE TypeOK'
  BY <1>3, NilTyped DEF Return
<1>4. CASE UseCached
  BY <1>4 DEF UseCached, Depart, Budget
<1>5. CASE Fetch
  BY <1>5 DEF Fetch
<1>6. ASSUME NEW l \in Lives, Issue(l) PROVE TypeOK'
  <2>1. now \in Nat /\ now + l \in Nat
    OBVIOUS
  <2>2. [life |-> l, obtained |-> now, expires |-> now + l] \in Tokens
    BY <2>1 DEF Tokens
  <2> QED
    BY <1>6, <2>2 DEF Issue
<1>7. CASE Obtain
  <2>1. [issued EXCEPT !.obtained = now] \in Tokens
    BY DEF Tokens
  <2> QED
    BY <1>7, <2>1, NilTyped DEF Obtain, Depart, Budget
<1>8. CASE Arrive
  BY <1>8 DEF Arrive
<1>9. ASSUME NEW h \in Asked, Limited(h) PROVE TypeOK'
  BY <1>9, WaitsBounded DEF Limited
<1>10. CASE Retry
  BY <1>10 DEF Retry
<1>11. CASE UNCHANGED vars
  BY <1>11 DEF vars
<1> QED
  BY <1>1, <1>2, <1>3, <1>4, <1>5, <1>6, <1>7, <1>8, <1>9, <1>10, <1>11
     DEF Next, Refuse, Fail, Answer

LEMMA InitIInv == Init => IInv
<1> SUFFICES ASSUME Init PROVE IInv
  OBVIOUS
<1> USE ApiClientAssumption DEF Init
<1>1. TypeOK
  BY NilTyped DEF TypeOK, Places
<1>2. InTime /\ Budget /\ Patient /\ ValidOnArrival
  BY DEF InTime, InFlight, Budget, Patient, ValidOnArrival
<1>3. Lasting
  BY DEF Lasting, Ages, Nil
<1> QED
  BY <1>1, <1>2, <1>3 DEF IInv

(* The numbers of the state, for the arithmetic below.                      *)
LEMMA Numbers ==
  ASSUME TypeOK
  PROVE  /\ now \in Nat /\ since \in Nat /\ began \in Nat /\ limited \in Nat
         /\ wait \in Nat /\ wait <= MaxWait
         /\ Timeout \in Nat /\ Margin \in Nat /\ MaxWait \in Nat /\ Margin >= 2 * Timeout
         /\ \A t \in {cached, using, issued} :
              t.life \in Nat /\ t.obtained \in Nat /\ t.expires \in Nat
<1>1. \A t \in Tokens : t.life \in Nat /\ t.obtained \in Nat /\ t.expires \in Nat
  <2>1. \A l \in Lives \cup {0} : l \in Nat
    BY ApiClientAssumption
  <2> QED
    BY <2>1 DEF Tokens
<1>2. now \in Nat /\ since \in Nat /\ began \in Nat /\ limited \in Nat
  BY DEF TypeOK
<1>3. wait \in Nat /\ wait <= MaxWait
  BY ApiClientAssumption DEF TypeOK
<1>4. cached \in Tokens /\ using \in Tokens /\ issued \in Tokens
  BY DEF TypeOK
<1> QED
  BY <1>1, <1>2, <1>3, <1>4, ApiClientAssumption

(* Every step keeps the accounts of time.                                   *)
LEMMA StepIInv == IInv /\ [Next]_vars => IInv'
<1> SUFFICES ASSUME IInv, [Next]_vars PROVE IInv'
  OBVIOUS
<1> DEFINE Accounts == InTime /\ Lasting /\ Budget /\ Patient /\ ValidOnArrival
<1>1. TypeOK /\ TypeOK' /\ Accounts
  BY StepTypes DEF IInv
<1> USE <1>1, Numbers DEF InTime, InFlight, Lasting, Ages, Budget, Patient, AtLeast, Spent,
                          ValidOnArrival, tokenVars, retryVars
<1>2. ASSUME Tick PROVE Accounts'
  BY <1>2 DEF Tick, TypeOK, Places
<1>3. ASSUME Do PROVE Accounts'
  BY <1>3 DEF Do
<1>4. ASSUME Return PROVE Accounts'
  BY <1>4 DEF Return, Nil
<1>5. ASSUME UseCached PROVE Accounts'
  BY <1>5 DEF UseCached, Depart, Expired
<1>6. ASSUME Fetch PROVE Accounts'
  BY <1>6 DEF Fetch
<1>7. ASSUME NEW l \in Lives, Issue(l) PROVE Accounts'
  BY <1>7, ApiClientAssumption DEF Issue
<1>8. ASSUME Obtain PROVE Accounts'
  BY <1>8 DEF Obtain, Depart, TypeOK, Tokens
<1>9. ASSUME Arrive PROVE Accounts'
  <2>1. using.life >= 2 * Timeout => now <= using.expires
    BY <1>9 DEF Arrive
  <2>2. using.life >= 2 * Timeout => good'
    BY <1>9, <2>1 DEF Arrive
  <2>3. (InTime /\ Lasting /\ Budget /\ Patient)'
    BY <1>9 DEF Arrive
  <2> QED
    BY <1>9, <2>2, <2>3 DEF Arrive
<1>10. ASSUME NEW h \in Asked, Limited(h) PROVE Accounts'
  <2>1. /\ wait' \in Nat /\ wait' >= 0
        /\ h \in Nat => wait' >= (IF h > MaxWait THEN MaxWait ELSE h)
    BY <1>10, WaitsBounded, ApiClientAssumption DEF Limited
  <2> QED
    BY <1>10, <2>1 DEF Limited
<1>11. ASSUME Retry PROVE Accounts'
  BY <1>11 DEF Retry
<1>12. ASSUME UNCHANGED vars PROVE Accounts'
  BY <1>12 DEF vars
<1> QED
  BY <1>2, <1>3, <1>4, <1>5, <1>6, <1>7, <1>8, <1>9, <1>10, <1>11, <1>12
     DEF Next, Refuse, Fail, Answer, IInv

LEMMA Inductive == Spec => []IInv
  BY InitIInv, StepIInv, PTL DEF Spec
-----------------------------------------------------------------------------
(* Type correctness of the client.                                          *)
THEOREM TypeCorrect == Spec => []TypeOK
<1>1. IInv => TypeOK
  BY DEF IInv
<1> QED
  BY Inductive, <1>1, PTL

(* A margin of two timeouts is enough: no request arrives with a token that *)
(* has expired, unless the endpoint issues tokens that two requests outlive. *)
THEOREM TokensAreValid == Spec => []ValidOnArrival
<1>1. IInv => ValidOnArrival
  BY DEF IInv
<1> QED
  BY Inductive, <1>1, PTL

(* Every call of Do is over after four timeouts and one capped wait.        *)
THEOREM CallsAreBounded == Spec => []DoIsBounded
<1>1. IInv => DoIsBounded
  <2> SUFFICES ASSUME IInv, pc # "idle" PROVE now - began <= 4 * Timeout + MaxWait
    BY DEF DoIsBounded
  <2>1. pc \in Places /\ TypeOK
    BY DEF IInv, TypeOK
  <2> QED
    BY <2>1, Numbers DEF IInv, InTime, InFlight, Budget, Spent, Places
<1> QED
  BY Inductive, <1>1, PTL

(* A request turned down with a 429 is not sent again too early, when the   *)
(* number of seconds it names is one that a Duration holds.                 *)
THEOREM RetriesArePatient == Spec => []HonoursRetryAfter
<1>1. IInv => HonoursRetryAfter
  BY DEF IInv, Patient, AtLeast, HonoursRetryAfter
<1> QED
  BY Inductive, <1>1, PTL
=============================================================================
