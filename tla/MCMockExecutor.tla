--------------------------- MODULE MCMockExecutor ---------------------------
(* Three plans that compete for one user's two accounts: a transfer, a plan  *)
(* of two legs whose second leg needs the money its first brought in, and an *)
(* own transfer whose target belongs to somebody else.                       *)
EXTENDS MockExecutor

MCOwner   == [a \in Accounts |-> IF a = "other" THEN "bob" ELSE "alice"]
MCOpening == [a \in Accounts |-> CASE a = "current" -> 10 [] a = "savings" -> 2
                                   [] OTHER -> 0]

Transfer(a, n)  == [type |-> "TRANSFER", source |-> a, to |-> a, amount |-> n]
Between(a, b, n) == [type |-> "OWN_TRANSFER", source |-> a, to |-> b, amount |-> n]

MCPlan == [d \in Drafts |->
             CASE d = "d1" -> <<Transfer("current", 6)>>
               [] d = "d2" -> <<Between("current", "savings", 5),
                                Transfer("savings", 6)>>
               [] OTHER    -> <<Transfer("savings", 2),
                                Between("current", "other", 1)>>]
=============================================================================
