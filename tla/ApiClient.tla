------------------------------ MODULE ApiClient ------------------------------
(***************************************************************************)
(* One process's API client: Client.Do (internal/api/client.go) over       *)
(* OAuthClient.Token (internal/auth/oauth.go), in time.  A process makes   *)
(* its calls one after the other, with any time between them: the user     *)
(* reads an approval page between two of them.  The mutex of the token     *)
(* cache is therefore never contended, and is left out.                    *)
(*                                                                         *)
(* Time passes while the process waits for an answer, a timer or the user, *)
(* and not while it computes.  The tenant and the process count the same   *)
(* seconds, from clocks that need not agree.  WS1_MOCK_TOKEN, a token that *)
(* tests bring along, is left out.                                         *)
(***************************************************************************)
EXTENDS Integers

CONSTANTS
  Timeout,   \* of an HTTP client, for the token and for the call: 30 s
  Margin,    \* of Expired: 60 s
  MaxWait,   \* MaxRetryAfterWait: 30 s
  Backoff,   \* where Retry-After says nothing: 2 s
  Lives,     \* expires_in of the tokens the endpoint issues
  Asked,     \* Retry-After headers: seconds, NoHeader, Overflow
  NoHeader,  \* none, or one that is not a number
  Overflow,  \* a number of seconds that no Duration holds, 2^63 ns or more
  MaxTime    \* bound: seconds

ASSUME ApiClientAssumption ==
  /\ {Timeout, MaxTime} \subseteq Nat
  /\ Margin \in Nat \ {0} /\ Margin >= 2 * Timeout
  /\ MaxWait \in Nat \ {0} /\ Backoff \in 1..MaxWait
  /\ Lives \subseteq Nat
  /\ Asked \subseteq Nat \cup {NoHeader, Overflow}
  /\ NoHeader \notin Nat /\ Overflow \notin Nat

VARIABLES
  now,
  pc,        \* where Do is, "idle" outside
  since,     \* when the request or the wait it is in began
  began,     \* when Do was called
  tries,     \* requests sent by this Do
  cached,    \* the token in memory
  using,     \* the token of the request under way
  issued,    \* the token on its way from the endpoint
  wait,      \* how long a 429 is waited out
  asked,     \* history: Retry-After of that 429
  limited,   \* history: when it came
  good       \* history: the token was valid when the request arrived

tokenVars == <<cached, using, issued>>
retryVars == <<wait, asked, limited>>
vars == <<now, pc, since, began, tries, tokenVars, retryVars, good>>

Places == {"idle", "token", "fetch", "issued", "wait", "arrived", "backoff"}
Tokens == [life : Lives \cup {0}, obtained : Nat, expires : Nat]

(* No token, or an answer without one: it has always expired. *)
Nil == [life |-> 0, obtained |-> 0, expires |-> 0]

Init ==
  /\ now = 0 /\ pc = "idle" /\ since = 0 /\ began = 0 /\ tries = 0
  /\ cached = Nil /\ using = Nil /\ issued = Nil
  /\ wait = Backoff /\ asked = NoHeader /\ limited = 0
  /\ good = TRUE
-----------------------------------------------------------------------------
(* A request can take as long as its client's timeout, a wait as long as it *)
(* was set to, and the user as long as the user likes.                      *)
Tick ==
  /\ now < MaxTime
  /\ pc \in {"fetch", "issued", "wait", "arrived"} => now - since < Timeout
  /\ pc = "backoff" => now - since < wait
  /\ pc # "token"
  /\ now' = now + 1
  /\ UNCHANGED <<pc, since, began, tries, tokenVars, retryVars, good>>

(* Do: the first doOnce. *)
Do ==
  /\ pc = "idle"
  /\ pc' = "token" /\ began' = now
  /\ UNCHANGED <<now, since, tries, tokenVars, retryVars, good>>

(* Do returns: all that is left of it is the token in memory. *)
Return ==
  /\ pc' = "idle" /\ since' = 0 /\ began' = 0 /\ tries' = 0
  /\ using' = Nil /\ issued' = Nil
  /\ wait' = Backoff /\ asked' = NoHeader /\ limited' = 0 /\ good' = TRUE
  /\ UNCHANGED <<now, cached>>

(* An unknown operation, a path parameter that is missing, no secret in the *)
(* keychain.                                                                *)
Refuse == pc = "token" /\ Return

(* Mutant: a token is used until it expires. *)
MutExpired(t) == now > t.obtained + t.life

Expired(t) == now > t.obtained + t.life - Margin

Depart(t) == pc' = "wait" /\ since' = now /\ tries' = tries + 1 /\ using' = t

(* Token: the one in memory, as long as it is good for the margin ... *)
UseCached ==
  /\ pc = "token" /\ ~Expired(cached)
  /\ Depart(cached)
  /\ UNCHANGED <<now, began, cached, issued, retryVars, good>>

(* ... or a new one. *)
Fetch ==
  /\ pc = "token" /\ Expired(cached)
  /\ pc' = "fetch" /\ since' = now
  /\ UNCHANGED <<now, began, tries, tokenVars, retryVars, good>>

(* The endpoint issues a token. *)
Issue(l) ==
  /\ pc = "fetch" /\ pc' = "issued"
  /\ issued' = [life |-> l, obtained |-> now, expires |-> now + l]
  /\ UNCHANGED <<now, since, began, tries, cached, using, retryVars, good>>

(* fetchToken: its age is counted from the arrival of the answer.           *)
Obtain ==
  /\ pc = "issued"
  /\ cached' = [issued EXCEPT !.obtained = now]
  /\ Depart([issued EXCEPT !.obtained = now])
  /\ issued' = Nil
  /\ UNCHANGED <<now, began, retryVars, good>>

(* The request for a token, or for the operation, fails or times out.       *)
Fail == pc \in {"fetch", "issued", "wait", "arrived"} /\ Return

(* The request arrives at the tenant, which looks at its token. *)
Arrive ==
  /\ pc = "wait" /\ pc' = "arrived"
  /\ good' = (now <= using.expires)
  /\ UNCHANGED <<now, since, began, tries, tokenVars, retryVars>>

(* Any answer but a first 429 is the caller's: a second 429, a 401 for a    *)
(* token that is no longer valid.                                           *)
Answer == pc = "arrived" /\ Return

(* Mutant: Retry-After is not capped. *)
MutRetryWaits(h) ==
  IF h = Overflow THEN 0..MaxWait ELSE IF h = NoHeader \/ h = 0 THEN {Backoff} ELSE {h}

(* Mutant: Retry-After is not read. *)
MutUnread(h) == {Backoff}

(* retryAfterDuration and the bounds of Do.  The product of a number of     *)
(* seconds that no Duration holds is what is left of it modulo 2^64 ns: one *)
(* that is not positive is the backoff, a great one the cap, and any in     *)
(* between is waited out, a fraction of a second (0 here) too.              *)
RetryWaits(h) ==
  IF h = Overflow THEN 0..MaxWait
  ELSE IF h = NoHeader \/ h = 0 THEN {Backoff}
  ELSE IF h > MaxWait THEN {MaxWait} ELSE {h}

(* A first 429 is waited out, whatever became of the token. *)
Limited(h) ==
  /\ pc = "arrived" /\ tries = 1
  /\ wait' \in RetryWaits(h)
  /\ pc' = "backoff" /\ since' = now /\ asked' = h /\ limited' = now
  /\ UNCHANGED <<now, began, tries, tokenVars, good>>

(* The second doOnce, with a token of its own. *)
Retry ==
  /\ pc = "backoff" /\ now - since >= wait
  /\ pc' = "token"
  /\ UNCHANGED <<now, since, began, tries, tokenVars, retryVars, good>>

Next ==
  \/ Tick \/ Do \/ Refuse \/ UseCached \/ Fetch \/ (\E l \in Lives : Issue(l)) \/ Obtain
  \/ Fail \/ Arrive \/ Answer \/ (\E h \in Asked : Limited(h)) \/ Retry

Spec == Init /\ [][Next]_vars
-----------------------------------------------------------------------------
TypeOK ==
  /\ {now, since, began, limited} \subseteq Nat
  /\ pc \in Places /\ tries \in 0..2
  /\ cached \in Tokens /\ using \in Tokens /\ issued \in Tokens
  /\ wait \in 0..MaxWait /\ asked \in Asked \cup {NoHeader}
  /\ good \in BOOLEAN

(* Unless the endpoint issues tokens that two requests outlive, no request  *)
(* arrives with a token that has expired: however long the token was on its *)
(* way, how long it lay in memory while the user was asked, how long the    *)
(* request took, and also after a 429 was waited out.                       *)
ValidOnArrival == pc = "arrived" /\ using.life >= 2 * Timeout => good

(* A call of Do is over after two tokens, two requests and one wait at the  *)
(* latest, whatever Retry-After says.                                       *)
DoIsBounded == pc # "idle" => now - began <= 4 * Timeout + MaxWait

(* A second request, after a 429 whose Retry-After is a number of seconds   *)
(* that a Duration holds, is not sent before that time or the cap.  Of a    *)
(* greater number, Overflow, nothing is promised: the product of            *)
(* retryAfterDuration wraps, and 18446744074 s come out as 0.29 s.          *)
HonoursRetryAfter ==
  pc \in {"wait", "arrived"} /\ tries = 2 /\ asked \in Nat =>
    since - limited >= (IF asked > MaxWait THEN MaxWait ELSE asked)
=============================================================================
