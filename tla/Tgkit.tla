------------------------------- MODULE Tgkit -------------------------------
(* The two parts of tgkit that have behaviour over time: the payments, as  *)
(* Payments has them, and the authentication of Mini Apps, as A.  They     *)
(* share nothing.                                                          *)
EXTENDS Payments

CONSTANTS Bots, Users, MaxAge, FutureSkew, Skews, Start, MaxTime, MaxIssued   \* of A

VARIABLES now, skew, issued, last, first   \* of A

A == INSTANCE MiniApp

(* The properties of the Mini App. *)
AcceptedIsAuthentic == A!AcceptedIsAuthentic
AuthenticIsAccepted == A!AuthenticIsAccepted
=============================================================================
