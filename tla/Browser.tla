------------------------------ MODULE Browser -------------------------------
(***************************************************************************)
(* One browser, and the people who use it.                                 *)
(***************************************************************************)
EXTENDS Naturals, FiniteSets, Principals

CONSTANTS
    Members,     \* the users who sign in at this browser
    MaxPending   \* bounds the calls of one kind under way at once

ASSUME MemberAssumption == Members # {} /\ Members \subseteq Users
ASSUME PendingAssumption == MaxPending \in Nat
=============================================================================
