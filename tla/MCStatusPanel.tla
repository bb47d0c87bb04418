---------------------------- MODULE MCStatusPanel ----------------------------
(* Instances of StatusPanel: a press of a button under way, a run of another    *)
(* client, two polls.                                                           *)
EXTENDS StatusPanel

CONSTANTS q1, o1, p1, p2, r1
=============================================================================
