----------------------------- MODULE GatedCall -----------------------------
(***************************************************************************)
(* What a generated command promises to whoever runs it, with no policy,   *)
(* no browser and no network in sight: the operation is carried out at     *)
(* most once; where consent is needed, not before it was given; and what   *)
(* the caller is told of it is true, then and later.                       *)
(***************************************************************************)

CONSTANTS Nothing,    \* the caller has not been told anything
          Success,    \* the operation was carried out
          Untouched,  \* it was not and will not be
          Unknown     \* neither is promised

VARIABLES needs,      \* the call needs consent
          consent,    \* it has been given
          applied,    \* how often the operation was carried out
          told

vars == <<needs, consent, applied, told>>

Init ==
  /\ needs \in BOOLEAN
  /\ consent = FALSE
  /\ applied = 0
  /\ told = Nothing

Consent ==
  /\ told = Nothing /\ applied = 0
  /\ consent' = TRUE
  /\ UNCHANGED <<needs, applied, told>>

(* A caller that was told nothing certain may still see it carried out. *)
Apply ==
  /\ applied = 0
  /\ needs => consent
  /\ told \in Unknown \cup {Nothing}
  /\ applied' = 1
  /\ UNCHANGED <<needs, consent, told>>

Tell(t) ==
  /\ told = Nothing
  /\ t = Success => applied = 1
  /\ t \in Untouched => applied = 0
  /\ told' = t
  /\ UNCHANGED <<needs, consent, applied>>

Next ==
  \/ Consent \/ Apply
  \/ \E t \in Untouched \cup Unknown \cup {Success} : Tell(t)

Spec == Init /\ [][Next]_vars
=============================================================================
