---------------------------- MODULE MockExecutor ----------------------------
(***************************************************************************)
(* backend/gateway/executor.py: execution on the ledger.  Several workers  *)
(* (request threads and the release loop) call execute() and close(), each *)
(* on its own SQLite connection.  The first write of either is the claim,  *)
(* an INSERT of the draft id into `executions` (PRIMARY KEY), which takes  *)
(* SQLite's write lock; everything up to the commit is one transaction,    *)
(* and a crash rolls it back.                                              *)
(***************************************************************************)
EXTENDS Integers, Sequences, FiniteSetsExt

CONSTANTS Workers,     \* callers of the executor
          Drafts,      \* payment drafts
          Accounts,    \* rows of `accounts`
          Owner,       \* Owner[a]: accounts.user_id
          Opening,     \* Opening[a]: the balance at the start, in cents
          Plan         \* Plan[d]: the legs of the draft's plan, in order

NoDraft == "no draft"

Leg == [type : {"TRANSFER", "OWN_TRANSFER"}, source : Accounts,
        to : Accounts, amount : Nat \ {0}]

ASSUME LedgerAssumption ==
    /\ NoDraft \notin Drafts
    /\ "nobody" \notin Workers
    /\ Opening \in [Accounts -> Nat]
    /\ Plan \in [Drafts -> Seq(Leg)]
    /\ \A d \in Drafts : Len(Plan[d]) > 0

\* The rows of `accounts`, and the drafts of a process, are finitely many.
ASSUME RowsAssumption == IsFiniteSet(Accounts) /\ IsFiniteSet(Drafts)

VARIABLES
    executions,   \* executions[d]: the committed outcome of draft d, or "NONE"
    balance,      \* committed account balances
    history,      \* history[d]: committed transaction_history rows of draft d
    superseded,   \* drafts whose payee has a newer destination than they signed
    calls,        \* calls[w]: the call worker w is in
    tx            \* the one open write transaction

vars == <<executions, balance, history, superseded, calls, tx>>

CLOSED_OUTCOMES == {"DECLINED", "CANCELLED"}
Outcomes        == {"EXECUTED", "FAILED"} \cup CLOSED_OUTCOMES

Idle == [op |-> "idle", draft |-> NoDraft]
Ops  == {"execute"} \cup CLOSED_OUTCOMES          \* close() takes the outcome

\* A transaction works on its own copy of the rows it changes.  `next` is the
\* leg it runs next; "claimed" until the destination has been re-read.
NoTx == [owner |-> "nobody", draft |-> NoDraft, stage |-> "none", next |-> 0,
         aborted |-> FALSE, balance |-> <<>>]

Begun(w, d) == [owner |-> w, draft |-> d, stage |-> "claimed", next |-> 1,
                aborted |-> FALSE, balance |-> balance]

Init == /\ executions = [d \in Drafts |-> "NONE"]
        /\ balance    = Opening
        /\ history    = [d \in Drafts |-> 0]
        /\ superseded = {}
        /\ calls      = [w \in Workers |-> Idle]
        /\ tx         = NoTx

Return(w) == calls' = [calls EXCEPT ![w] = Idle]

-----------------------------------------------------------------------------
\* A worker enters execute() or close().
Call(w, d, op) ==
    /\ calls[w] = Idle
    /\ calls' = [calls EXCEPT ![w] = [op |-> op, draft |-> d]]
    /\ UNCHANGED <<executions, balance, history, superseded, tx>>

\* _claim: the INSERT takes the write lock, or meets the row that is there.
ClaimWinsAgain(w) ==                     \* mutant: `executions` has no primary key
    /\ calls[w] # Idle
    /\ tx = NoTx
    /\ tx' = Begun(w, calls[w].draft)
    /\ UNCHANGED <<executions, balance, history, superseded, calls>>

ClaimWins(w) ==
    /\ calls[w] # Idle
    /\ tx = NoTx
    /\ executions[calls[w].draft] = "NONE"
    /\ tx' = Begun(w, calls[w].draft)
    /\ UNCHANGED <<executions, balance, history, superseded, calls>>

ClaimLoses(w) ==                                     \* raise AlreadyExecuted
    /\ calls[w] # Idle
    /\ tx = NoTx
    /\ executions[calls[w].draft] # "NONE"
    /\ Return(w)
    /\ UNCHANGED <<executions, balance, history, superseded, tx>>

\* Another connection holds the write lock past SQLite's busy timeout.
LockTimeout(w) ==
    /\ calls[w] # Idle
    /\ tx.owner \notin {"nobody", w}
    /\ Return(w)
    /\ UNCHANGED <<executions, balance, history, superseded, tx>>

\* close(): record the outcome under the claim and commit.
CommitClose(w) ==
    /\ tx.owner = w
    /\ calls[w].op \in CLOSED_OUTCOMES
    /\ executions' = [executions EXCEPT ![tx.draft] = calls[w].op]
    /\ tx' = NoTx
    /\ Return(w)
    /\ UNCHANGED <<balance, history, superseded>>

\* execute(): destinations.superseded, asked again under the claim's lock.
DestinationChanged(w) ==
    /\ tx.owner = w
    /\ calls[w].op = "execute"
    /\ tx.stage = "claimed"
    /\ tx.draft \in superseded
    /\ tx' = NoTx                                    \* conn.rollback()
    /\ Return(w)
    /\ UNCHANGED <<executions, balance, history, superseded>>

DestinationTrusted(w) ==                 \* mutant: not asked again under the lock
    /\ tx.owner = w
    /\ calls[w].op = "execute"
    /\ tx.stage = "claimed"
    /\ tx' = [tx EXCEPT !.stage = "legs"]
    /\ UNCHANGED <<executions, balance, history, superseded, calls>>

DestinationHolds(w) ==
    /\ tx.owner = w
    /\ calls[w].op = "execute"
    /\ tx.stage = "claimed"
    /\ tx.draft \notin superseded
    /\ tx' = [tx EXCEPT !.stage = "legs"]
    /\ UNCHANGED <<executions, balance, history, superseded, calls>>

\* What a leg needs: funds, and for an OWN_TRANSFER two of one user's accounts.
LegCanRun(leg) ==
    /\ tx.balance[leg.source] >= leg.amount
    /\ leg.type = "OWN_TRANSFER" =>
          leg.source # leg.to /\ Owner[leg.source] = Owner[leg.to]

AfterDebit(leg) ==                       \* mutant: an own transfer is not credited
    [a \in Accounts |-> IF a = leg.source THEN tx.balance[a] - leg.amount
                                          ELSE tx.balance[a]]

\* _debit, and _credit for an OWN_TRANSFER.
AfterLeg(leg) ==
    [a \in Accounts |->
        CASE a = leg.source                              -> tx.balance[a] - leg.amount
          [] a = leg.to /\ leg.type = "OWN_TRANSFER"
             /\ a # leg.source                           -> tx.balance[a] + leg.amount
          [] OTHER                                       -> tx.balance[a]]

InLegs(w) ==
    /\ tx.owner = w
    /\ tx.stage = "legs"
    /\ ~tx.aborted
    /\ tx.next <= Len(Plan[tx.draft])

RunLeg(w) ==
    /\ InLegs(w)
    /\ LegCanRun(Plan[tx.draft][tx.next])
    /\ tx' = [tx EXCEPT !.balance = AfterLeg(Plan[tx.draft][tx.next]),
                        !.next = @ + 1]
    /\ UNCHANGED <<executions, balance, history, superseded, calls>>

\* The first leg that fails aborts the rest; the legs before it stand.
FailLeg(w) ==
    /\ InLegs(w)
    /\ ~LegCanRun(Plan[tx.draft][tx.next])
    /\ tx' = [tx EXCEPT !.aborted = TRUE]
    /\ UNCHANGED <<executions, balance, history, superseded, calls>>

\* _record and commit: claim, balances, history and outcome together.
NoLegLeft    == tx.next > Len(Plan[tx.draft])                 \* mutant: FAILED never commits
PlanOver     == tx.aborted \/ tx.next > Len(Plan[tx.draft])
AlwaysPaid   == "EXECUTED"                                    \* mutant: status forgotten
PlanOutcome  == IF tx.aborted THEN "FAILED" ELSE "EXECUTED"
LegsRun      == tx.next - 1

CommitExecute(w) ==
    /\ tx.owner = w
    /\ tx.stage = "legs"
    /\ PlanOver
    /\ executions' = [executions EXCEPT ![tx.draft] = PlanOutcome]
    /\ balance' = tx.balance
    /\ history' = [history EXCEPT ![tx.draft] = @ + LegsRun]
    /\ tx' = NoTx
    /\ Return(w)
    /\ UNCHANGED superseded

\* A signed contact change commits a new number for the payee of draft d.  It
\* is a write transaction too, so it waits for the lock.
ChangeNumber(d) ==
    /\ tx = NoTx
    /\ superseded' = superseded \cup {d}
    /\ UNCHANGED <<executions, balance, history, calls, tx>>

\* The process dies: SQLite rolls the open transaction back.
Crash ==
    /\ calls' = [w \in Workers |-> Idle]
    /\ tx' = NoTx
    /\ UNCHANGED <<executions, balance, history, superseded>>

Step(w) ==
    \/ ClaimWins(w) \/ ClaimLoses(w) \/ LockTimeout(w)
    \/ CommitClose(w)
    \/ DestinationChanged(w) \/ DestinationHolds(w)
    \/ RunLeg(w) \/ FailLeg(w) \/ CommitExecute(w)

Next ==
    \/ \E w \in Workers : Step(w)
    \/ \E w \in Workers, d \in Drafts, op \in Ops : Call(w, d, op)
    \/ \E d \in Drafts : ChangeNumber(d)
    \/ Crash

Spec == Init /\ [][Next]_vars

\* A call, once made, runs to its end: threads are scheduled, and SQLite's busy
\* timeout bounds the wait for the lock.  New calls and crashes are not fair.
FairSpec == Spec /\ \A w \in Workers : WF_vars(Step(w))

-----------------------------------------------------------------------------
Call_ == [op : {"execute", "DECLINED", "CANCELLED"}, draft : Drafts] \cup {Idle}

Tx_ == [owner : Workers, draft : Drafts, stage : {"claimed", "legs"},
        next : Nat \ {0}, aborted : BOOLEAN, balance : [Accounts -> Int]]
       \cup {NoTx}

\* Types of the ledger's rows, the callers and the open transaction.
TypeOK ==
    /\ executions \in [Drafts -> Outcomes \cup {"NONE"}]
    /\ balance \in [Accounts -> Int]
    /\ history \in [Drafts -> Nat]
    /\ superseded \subseteq Drafts
    /\ calls \in [Workers -> Call_]
    /\ tx \in Tx_

\* No account is ever overdrawn, in the ledger or inside a transaction, however
\* many plans race for the same money (_debit's check is under the lock).
NeverOverdrawn ==
    /\ \A a \in Accounts : balance[a] >= 0
    /\ tx # NoTx => \A a \in Accounts : tx.balance[a] >= 0

\* The recorded outcome says exactly how much of the plan moved: an EXECUTED
\* draft has a history row for every leg, a FAILED one for a proper prefix, and
\* a declined, cancelled or unsettled one for none.
OutcomeTellsHistory ==
    \A d \in Drafts :
        /\ executions[d] = "EXECUTED" => history[d] = Len(Plan[d])
        /\ executions[d] = "FAILED" => history[d] < Len(Plan[d])
        /\ executions[d] \in CLOSED_OUTCOMES \cup {"NONE"} => history[d] = 0

\* Cents paid out of the bank by the first n legs of a plan.
PaidOut(plan, n) ==
    MapThenSumSet(LAMBDA i : plan[i].amount,
        {i \in 1 .. n : i <= Len(plan) /\ plan[i].type = "TRANSFER"})

\* Money is neither made nor lost: at every commit point the balances and what
\* the history says was paid out add up to the opening balances.
MoneyConserved ==
    MapThenSumSet(LAMBDA a : balance[a], Accounts)
      + MapThenSumSet(LAMBDA d : PaidOut(Plan[d], history[d]), Drafts)
    = MapThenSumSet(LAMBDA a : Opening[a], Accounts)

\* A draft whose payee got a new number before its transaction claimed it is
\* never paid: the check under the lock closes the window the gateway's leaves.
PaysSignedDestination ==
    [][\A d \in Drafts : history'[d] # history[d] => d \notin superseded]_vars

\* Every call returns: no execute() or close() waits for ever on the lock.
CallsReturn == \A w \in Workers : calls[w] # Idle ~> calls[w] = Idle

\* The refinement: committed rows are the abstract state, commits its steps.
Once == INSTANCE ExecuteOnce WITH outcome <- executions, moved <- history,
                                  Legs <- [d \in Drafts |-> Len(Plan[d])]

\* The transactional executor settles each draft at most once, its money moving
\* in the settling commit or never.
SettlesOnce == Once!Spec
=============================================================================
