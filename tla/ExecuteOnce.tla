---------------------------- MODULE ExecuteOnce ----------------------------
(***************************************************************************)
(* What the `executions` table promises, with nothing said about how: each *)
(* draft is settled at most once, with one outcome, and its money moves in *)
(* that same step or never.  MockExecutor (transactions, crashes, a write  *)
(* lock) and PaymentGateway (requests, freezes, releases) both implement   *)
(* this specification.                                                     *)
(***************************************************************************)
EXTENDS Naturals

CONSTANTS Drafts,   \* draft ids
          Legs      \* Legs[d]: how many legs the plan of draft d has

VARIABLES outcome,  \* outcome[d]: the draft's one recorded outcome, or "NONE"
          moved     \* moved[d]: how many of its legs moved money

vars == <<outcome, moved>>

CLOSED_OUTCOMES == {"DECLINED", "CANCELLED"}
Ran             == {"EXECUTED", "FAILED"}
Outcomes        == Ran \cup CLOSED_OUTCOMES

\* The legs that may have moved when a draft settles with outcome o: all of
\* them, a proper prefix, or none.
Moves(d, o) ==
    CASE o = "EXECUTED" -> {Legs[d]}
      [] o = "FAILED"   -> {k \in 0 .. Legs[d] : k < Legs[d]}
      [] OTHER          -> {0}

Init == /\ outcome = [d \in Drafts |-> "NONE"]
        /\ moved   = [d \in Drafts |-> 0]

Settle(d) ==
    /\ outcome[d] = "NONE"
    /\ \E o \in Outcomes :
          /\ outcome' = [outcome EXCEPT ![d] = o]
          /\ \E k \in Moves(d, o) : moved' = [moved EXCEPT ![d] = k]

Next == \E d \in Drafts : Settle(d)

Spec == Init /\ [][Next]_vars
=============================================================================
