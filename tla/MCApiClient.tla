----------------------------- MODULE MCApiClient -----------------------------
(* Tokens that outlive a call, the margin, and neither; headers below and   *)
(* above the cap.                                                           *)
EXTENDS ApiClient

MCLives == {0, 3, 4, 7}
MCAsked == {0, 2, 5, NoHeader, Overflow}
=============================================================================
