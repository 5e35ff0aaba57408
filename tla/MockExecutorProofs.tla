------------------------- MODULE MockExecutorProofs -------------------------
(***************************************************************************)
(* Proofs about MockExecutor, for every set of workers, drafts and         *)
(* accounts and every plan: one inductive invariant, and from it what the  *)
(* outcome says of the history, that no account is overdrawn, that a paid  *)
(* destination is the signed one, that money is neither made nor lost, and *)
(* that the executor implements ExecuteOnce.                               *)
(***************************************************************************)
EXTENDS MockExecutor, SumTheorems, TLAPS

\* While a transaction is open its draft is unsettled in the committed rows,
\* its owner is in the call that opened it, a leg has run only under a current
\* destination, and an abort left a leg unrun.
TxSound ==
    tx # NoTx =>
        /\ calls[tx.owner] # Idle
        /\ calls[tx.owner].draft = tx.draft
        /\ executions[tx.draft] = "NONE"
        /\ tx.next <= Len(Plan[tx.draft]) + 1
        /\ tx.aborted => tx.next <= Len(Plan[tx.draft])
        /\ tx.stage = "legs" => /\ tx.draft \notin superseded
                                /\ calls[tx.owner].op = "execute"

IInv == TypeOK /\ OutcomeTellsHistory /\ TxSound

\* The declared types of constants, as facts about one draft's plan.
LEMMA PlanType ==
    ASSUME NEW d \in Drafts
    PROVE  /\ Plan[d] \in Seq(Leg)
           /\ Len(Plan[d]) \in Nat
           /\ Len(Plan[d]) > 0
  BY LedgerAssumption

\* NoTx is told from every open transaction by its owner.
LEMMA OpenTx ==
    ASSUME TypeOK, NEW w \in Workers, tx.owner = w
    PROVE  /\ tx # NoTx
           /\ tx \in [owner : Workers, draft : Drafts, stage : {"claimed", "legs"},
                      next : Nat \ {0}, aborted : BOOLEAN, balance : [Accounts -> Int]]
  BY LedgerAssumption DEF TypeOK, Tx_, NoTx

\* Init establishes the inductive invariant.
LEMMA InitIInv == Init => IInv
  BY LedgerAssumption
  DEF Init, IInv, TypeOK, OutcomeTellsHistory, TxSound, Call_, Tx_, Outcomes,
      CLOSED_OUTCOMES

\* Every step keeps the inductive invariant.
LEMMA NextIInv == IInv /\ [Next]_vars => IInv'
<1> SUFFICES ASSUME IInv, [Next]_vars PROVE IInv'
  OBVIOUS
<1> USE DEF IInv
<1>1. ASSUME NEW w \in Workers, NEW d \in Drafts, NEW op \in Ops, Call(w, d, op)
      PROVE  IInv'
  <2>1. TypeOK'
    BY <1>1 DEF Call, TypeOK, Call_, Ops, CLOSED_OUTCOMES
  <2>2. OutcomeTellsHistory'
    BY <1>1 DEF Call, OutcomeTellsHistory
  <2>3. TxSound'
    BY <1>1, LedgerAssumption DEF Call, TxSound, TypeOK, Tx_, NoTx
  <2> QED BY <2>1, <2>2, <2>3
<1>2. ASSUME NEW w \in Workers, ClaimWins(w)
      PROVE  IInv'
  <2>0. /\ calls[w] \in [op : {"execute", "DECLINED", "CANCELLED"}, draft : Drafts]
        /\ calls[w].draft \in Drafts
    BY <1>2 DEF ClaimWins, TypeOK, Call_
  <2>1. TypeOK'
    BY <1>2, <2>0 DEF ClaimWins, TypeOK, Tx_, Begun
  <2>2. OutcomeTellsHistory'
    BY <1>2 DEF ClaimWins, OutcomeTellsHistory
  <2>3. TxSound'
    BY <1>2, <2>0, PlanType DEF ClaimWins, TxSound, Begun
  <2> QED BY <2>1, <2>2, <2>3
<1>3. ASSUME NEW w \in Workers, ClaimLoses(w) \/ LockTimeout(w)
      PROVE  IInv'
  <2>1. TypeOK'
    BY <1>3 DEF ClaimLoses, LockTimeout, Return, TypeOK, Call_
  <2>2. OutcomeTellsHistory'
    BY <1>3 DEF ClaimLoses, LockTimeout, OutcomeTellsHistory
  <2>3. TxSound'
    BY <1>3 DEF ClaimLoses, LockTimeout, Return, TxSound, TypeOK, Tx_, NoTx
  <2> QED BY <2>1, <2>2, <2>3
<1>4. ASSUME NEW w \in Workers, CommitClose(w)
      PROVE  IInv'
  <2>0. tx # NoTx /\ tx.draft \in Drafts
    BY <1>4, OpenTx DEF CommitClose
  <2>1. TypeOK'
    BY <1>4, <2>0 DEF CommitClose, Return, TypeOK, Call_, Tx_, Outcomes
  <2>2. OutcomeTellsHistory'
    BY <1>4, <2>0 DEF CommitClose, OutcomeTellsHistory, TxSound, TypeOK,
                       CLOSED_OUTCOMES
  <2>3. TxSound'
    BY <1>4 DEF CommitClose, TxSound
  <2> QED BY <2>1, <2>2, <2>3
<1>5. ASSUME NEW w \in Workers, DestinationChanged(w)
      PROVE  IInv'
  BY <1>5 DEF DestinationChanged, Return, TypeOK, Call_, Tx_, OutcomeTellsHistory,
              TxSound
<1>6. ASSUME NEW w \in Workers, DestinationHolds(w)
      PROVE  IInv'
  <2>0. tx # NoTx /\ tx' # NoTx
    BY <1>6, OpenTx DEF DestinationHolds, NoTx
  <2>1. TypeOK'
    BY <1>6, OpenTx DEF DestinationHolds, TypeOK, Tx_
  <2>2. OutcomeTellsHistory'
    BY <1>6 DEF DestinationHolds, OutcomeTellsHistory
  <2>3. TxSound'
    BY <1>6, <2>0, OpenTx DEF DestinationHolds, TxSound
  <2> QED BY <2>1, <2>2, <2>3
<1>7. ASSUME NEW w \in Workers, RunLeg(w)
      PROVE  IInv'
  <2>a. /\ tx # NoTx
        /\ tx \in [owner : Workers, draft : Drafts, stage : {"claimed", "legs"},
                   next : Nat \ {0}, aborted : BOOLEAN, balance : [Accounts -> Int]]
    BY <1>7, OpenTx DEF RunLeg, InLegs
  <2>b. tx' # NoTx
    BY <1>7, <2>a, LedgerAssumption DEF RunLeg, InLegs, NoTx
  <2>0. /\ tx # NoTx /\ tx' # NoTx
        /\ tx.draft \in Drafts /\ tx.next \in 1 .. Len(Plan[tx.draft])
    BY <1>7, <2>a, <2>b, PlanType DEF RunLeg, InLegs
  <2>1. AfterLeg(Plan[tx.draft][tx.next]) \in [Accounts -> Int]
    <3> DEFINE leg == Plan[tx.draft][tx.next]
    <3>1. leg \in Leg
      BY <2>0, PlanType
    <3>2. leg.amount \in Int /\ tx.balance \in [Accounts -> Int]
      BY <1>7, <3>1, OpenTx DEF Leg, RunLeg, InLegs
    <3> QED BY <3>2 DEF AfterLeg
  <2>2. TypeOK'
    <3>1. tx.next + 1 \in Nat \ {0}
      BY <2>0
    <3>2. tx' = [tx EXCEPT !.balance = AfterLeg(Plan[tx.draft][tx.next]),
                           !.next = tx.next + 1]
      BY <1>7 DEF RunLeg
    <3>3. tx' \in [owner : Workers, draft : Drafts, stage : {"claimed", "legs"},
                   next : Nat \ {0}, aborted : BOOLEAN, balance : [Accounts -> Int]]
      BY <2>a, <2>1, <3>1, <3>2
    <3> QED BY <1>7, <3>3 DEF RunLeg, TypeOK, Tx_
  <2>3. OutcomeTellsHistory'
    BY <1>7 DEF RunLeg, OutcomeTellsHistory
  <2>4. TxSound'
    BY <1>7, <2>0, OpenTx, PlanType DEF RunLeg, InLegs, TxSound
  <2> QED BY <2>2, <2>3, <2>4
<1>8. ASSUME NEW w \in Workers, FailLeg(w)
      PROVE  IInv'
  <2>0. tx # NoTx /\ tx' # NoTx
    BY <1>8, OpenTx DEF FailLeg, InLegs, NoTx
  <2>1. TypeOK'
    BY <1>8, OpenTx DEF FailLeg, InLegs, TypeOK, Tx_
  <2>2. OutcomeTellsHistory'
    BY <1>8 DEF FailLeg, OutcomeTellsHistory
  <2>3. TxSound'
    BY <1>8, <2>0, OpenTx DEF FailLeg, InLegs, TxSound
  <2> QED BY <2>1, <2>2, <2>3
<1>9. ASSUME NEW w \in Workers, CommitExecute(w)
      PROVE  IInv'
  <2>0. /\ tx # NoTx /\ tx.draft \in Drafts /\ tx.next \in Nat \ {0}
        /\ tx.balance \in [Accounts -> Int]
    BY <1>9, OpenTx DEF CommitExecute, PlanOver, PlanOutcome, LegsRun
  <2>1. /\ executions[tx.draft] = "NONE" /\ history[tx.draft] = 0
        /\ tx.next <= Len(Plan[tx.draft]) + 1
        /\ tx.aborted => tx.next <= Len(Plan[tx.draft])
    BY <2>0 DEF TxSound, OutcomeTellsHistory
  <2>2. TypeOK'
    BY <1>9, <2>0 DEF CommitExecute, PlanOver, PlanOutcome, LegsRun, Return, TypeOK, Call_, Tx_, Outcomes
  <2>3. OutcomeTellsHistory'
    <3>1. ASSUME NEW d \in Drafts, d # tx.draft
          PROVE  executions'[d] = executions[d] /\ history'[d] = history[d]
      BY <1>9, <3>1 DEF CommitExecute, PlanOver, PlanOutcome, LegsRun, TypeOK
    <3>2. /\ executions'[tx.draft] = IF tx.aborted THEN "FAILED" ELSE "EXECUTED"
          /\ history'[tx.draft] = tx.next - 1
      BY <1>9, <2>0, <2>1 DEF CommitExecute, PlanOver, PlanOutcome, LegsRun, TypeOK
    <3>3. IF tx.aborted THEN history'[tx.draft] < Len(Plan[tx.draft])
                        ELSE history'[tx.draft] = Len(Plan[tx.draft])
      BY <1>9, <2>0, <2>1, <3>2, PlanType DEF CommitExecute, PlanOver, PlanOutcome, LegsRun
    <3> QED BY <3>1, <3>2, <3>3 DEF OutcomeTellsHistory, CLOSED_OUTCOMES
  <2>4. TxSound'
    BY <1>9 DEF CommitExecute, PlanOver, PlanOutcome, LegsRun, TxSound
  <2> QED BY <2>2, <2>3, <2>4
<1>10. ASSUME NEW d \in Drafts, ChangeNumber(d)
       PROVE  IInv'
  BY <1>10 DEF ChangeNumber, TypeOK, OutcomeTellsHistory, TxSound
<1>11. CASE Crash
  BY <1>11 DEF Crash, TypeOK, Call_, Tx_, OutcomeTellsHistory, TxSound
<1>12. CASE UNCHANGED vars
  BY <1>12 DEF vars, TypeOK, OutcomeTellsHistory, TxSound
<1> QED
  BY <1>1, <1>2, <1>3, <1>4, <1>5, <1>6, <1>7, <1>8, <1>9, <1>10, <1>11, <1>12
  DEF Next, Step

-----------------------------------------------------------------------------
\* The inductive invariant holds in every reachable state.
LEMMA Invariance == Spec => []IInv
  BY InitIInv, NextIInv, PTL DEF Spec

\* The recorded outcome tells exactly how many legs moved money, in every
\* reachable state, for any plans, workers and accounts.
THEOREM OutcomeTheorem == Spec => []OutcomeTellsHistory
<1>1. IInv => OutcomeTellsHistory
  BY DEF IInv
<1> QED BY Invariance, <1>1, PTL

\* Types of the ledger in every reachable state.
THEOREM TypeTheorem == Spec => []TypeOK
<1>1. IInv => TypeOK
  BY DEF IInv
<1> QED BY Invariance, <1>1, PTL

\* No account is overdrawn, however many plans race for the same balance.
THEOREM OverdraftTheorem == Spec => []NeverOverdrawn
<1>1. Init => NeverOverdrawn
  BY LedgerAssumption DEF Init, NeverOverdrawn
<1>2. IInv /\ NeverOverdrawn /\ [Next]_vars => NeverOverdrawn'
  <2> SUFFICES ASSUME IInv, NeverOverdrawn, [Next]_vars PROVE NeverOverdrawn'
    OBVIOUS
  <2> USE DEF IInv
  <2>1. ASSUME NEW w \in Workers, ClaimWins(w)
        PROVE  NeverOverdrawn'
    BY <2>1 DEF ClaimWins, Begun, NeverOverdrawn
  <2>2. ASSUME NEW w \in Workers, RunLeg(w)
        PROVE  NeverOverdrawn'
    <3> DEFINE leg == Plan[tx.draft][tx.next]
    <3>1. /\ tx # NoTx /\ tx.draft \in Drafts /\ tx.next \in 1 .. Len(Plan[tx.draft])
          /\ tx \in [owner : Workers, draft : Drafts, stage : {"claimed", "legs"},
                     next : Nat \ {0}, aborted : BOOLEAN, balance : [Accounts -> Int]]
      BY <2>2, OpenTx, PlanType DEF RunLeg, InLegs
    <3>2. leg \in Leg
      BY <3>1, PlanType
    <3>3. /\ leg.amount \in Nat /\ tx.balance[leg.source] >= leg.amount
          /\ tx.balance \in [Accounts -> Int]
      BY <2>2, <3>1, <3>2 DEF RunLeg, LegCanRun, Leg
    <3>4. ASSUME NEW a \in Accounts
          PROVE  AfterLeg(leg)[a] >= 0
      <4>1. tx.balance[a] \in Int /\ tx.balance[a] >= 0
        BY <3>1, <3>3 DEF NeverOverdrawn
      <4> HIDE DEF leg
      <4>2. CASE a = leg.source
        <5>1. AfterLeg(leg)[a] = tx.balance[a] - leg.amount
          BY <4>2 DEF AfterLeg
        <5> QED BY <3>3, <4>1, <4>2, <5>1
      <4>3. CASE a # leg.source
        BY <3>3, <4>1, <4>3 DEF AfterLeg
      <4> QED BY <4>2, <4>3
    <3>5. tx' = [tx EXCEPT !.balance = AfterLeg(leg), !.next = tx.next + 1]
          /\ balance' = balance
      BY <2>2 DEF RunLeg
    <3>6. tx'.balance = AfterLeg(leg)
      BY <3>1, <3>5
    <3> QED BY <3>4, <3>5, <3>6 DEF NeverOverdrawn
  <2>3. ASSUME NEW w \in Workers, CommitExecute(w)
        PROVE  NeverOverdrawn'
    BY <2>3, OpenTx DEF CommitExecute, PlanOver, PlanOutcome, LegsRun, NeverOverdrawn
  <2>4. ASSUME NEW w \in Workers, DestinationHolds(w) \/ FailLeg(w)
        PROVE  NeverOverdrawn'
    <3>1. tx # NoTx /\ tx'.balance = tx.balance /\ balance' = balance
      BY <2>4, OpenTx DEF DestinationHolds, FailLeg, InLegs
    <3> QED BY <3>1 DEF NeverOverdrawn
  <2>5. ASSUME tx' \in {tx, NoTx}, balance' = balance
        PROVE  NeverOverdrawn'
    BY <2>5 DEF NeverOverdrawn
  <2> QED
    BY <2>1, <2>2, <2>3, <2>4, <2>5
    DEF Next, Step, Call, ClaimLoses, LockTimeout, CommitClose, DestinationChanged,
        ChangeNumber, Crash, vars
<1> QED BY <1>1, <1>2, Invariance, PTL DEF Spec

\* No step pays a draft whose destination was superseded before it.
THEOREM DestinationTheorem == Spec => PaysSignedDestination
<1>1. IInv /\ [Next]_vars =>
         [\A d \in Drafts : history'[d] # history[d] => d \notin superseded]_vars
  <2> SUFFICES ASSUME IInv, Next, NEW d \in Drafts, history'[d] # history[d]
               PROVE  d \notin superseded
    OBVIOUS
  <2>1. PICK w \in Workers : CommitExecute(w)
    BY DEF Next, Step, Call, ClaimWins, ClaimLoses, LockTimeout, CommitClose,
           DestinationChanged, DestinationHolds, RunLeg, FailLeg, ChangeNumber, Crash
  <2>2. d = tx.draft
    BY <2>1 DEF CommitExecute, PlanOver, PlanOutcome, LegsRun, IInv, TypeOK
  <2>3. tx # NoTx /\ tx.stage = "legs"
    BY <2>1, OpenTx DEF CommitExecute, PlanOver, PlanOutcome, LegsRun, IInv
  <2> QED BY <2>2, <2>3 DEF IInv, TxSound
<1> QED BY Invariance, <1>1, PTL DEF Spec, PaysSignedDestination

\* The executor implements ExecuteOnce: a commit is the draft's one settlement,
\* every other step leaves the committed rows of every draft alone.
THEOREM SettlesOnceTheorem == Spec => SettlesOnce
<1> DEFINE legs == [d \in Drafts |-> Len(Plan[d])]
<1>1. Init => Once!Init
  BY DEF Init, Once!Init
<1>2. IInv /\ [Next]_vars => [Once!Next]_(Once!vars)
  <2> SUFFICES ASSUME IInv, [Next]_vars PROVE [Once!Next]_(Once!vars)
    OBVIOUS
  <2>1. ASSUME NEW w \in Workers, CommitClose(w)
        PROVE  Once!Next
    <3>0. tx # NoTx /\ tx.draft \in Drafts
      BY <2>1, OpenTx DEF CommitClose, IInv
    <3>1. executions[tx.draft] = "NONE" /\ history[tx.draft] = 0
      BY <3>0 DEF IInv, TxSound, OutcomeTellsHistory
    <3>2. /\ calls[w].op \in {"DECLINED", "CANCELLED"}
          /\ executions' = [executions EXCEPT ![tx.draft] = calls[w].op]
          /\ history' = history
      BY <2>1 DEF CommitClose, CLOSED_OUTCOMES
    <3>3. history' = [history EXCEPT ![tx.draft] = 0]
      BY <3>1, <3>2 DEF IInv, TypeOK
    <3>4. Once!Settle(tx.draft)
      BY <3>1, <3>2, <3>3
      DEF Once!Settle, Once!Outcomes, Once!Ran, Once!CLOSED_OUTCOMES, Once!Moves
    <3> QED BY <3>0, <3>4 DEF Once!Next
  <2>2. ASSUME NEW w \in Workers, CommitExecute(w)
        PROVE  Once!Next
    <3>0. /\ tx # NoTx /\ tx.draft \in Drafts /\ tx.next \in Nat \ {0}
          /\ tx.aborted \in BOOLEAN
      BY <2>2, OpenTx DEF CommitExecute, PlanOver, PlanOutcome, LegsRun, IInv
    <3>1. /\ executions[tx.draft] = "NONE" /\ history[tx.draft] = 0
          /\ tx.next <= Len(Plan[tx.draft]) + 1
          /\ tx.aborted => tx.next <= Len(Plan[tx.draft])
      BY <3>0 DEF IInv, TxSound, OutcomeTellsHistory
    <3>a. history' = [history EXCEPT ![tx.draft] = history[tx.draft] + tx.next - 1]
      BY <2>2 DEF CommitExecute, PlanOver, PlanOutcome, LegsRun
    <3>b. history[tx.draft] + tx.next - 1 = tx.next - 1
      BY <3>0, <3>1
    <3>2. history' = [history EXCEPT ![tx.draft] = tx.next - 1]
      BY <3>a, <3>b, Zenon
    <3>3. legs[tx.draft] = Len(Plan[tx.draft]) /\ Len(Plan[tx.draft]) \in Nat
      BY <3>0, PlanType
    <3>4. CASE tx.aborted
      <4>1. tx.next - 1 \in Once!Moves(tx.draft, "FAILED")
        BY <3>0, <3>1, <3>3, <3>4 DEF Once!Moves
      <4>2. executions' = [executions EXCEPT ![tx.draft] = "FAILED"]
        BY <2>2, <3>4 DEF CommitExecute, PlanOver, PlanOutcome, LegsRun
      <4>3. Once!Settle(tx.draft)
        BY <3>1, <3>2, <4>1, <4>2 DEF Once!Settle, Once!Outcomes, Once!Ran
      <4> QED BY <3>0, <4>3 DEF Once!Next
    <3>5. CASE ~tx.aborted
      <4>1. tx.next - 1 \in Once!Moves(tx.draft, "EXECUTED")
        BY <2>2, <3>0, <3>1, <3>3, <3>5 DEF Once!Moves, CommitExecute, PlanOver, PlanOutcome, LegsRun
      <4>2. executions' = [executions EXCEPT ![tx.draft] = "EXECUTED"]
        BY <2>2, <3>5 DEF CommitExecute, PlanOver, PlanOutcome, LegsRun
      <4>3. Once!Settle(tx.draft)
        BY <3>1, <3>2, <4>1, <4>2 DEF Once!Settle, Once!Outcomes, Once!Ran
      <4> QED BY <3>0, <4>3 DEF Once!Next
    <3> QED BY <3>4, <3>5
  <2>3. CASE UNCHANGED <<executions, history>>
    BY <2>3 DEF Once!vars
  <2> QED
    BY <2>1, <2>2, <2>3
    DEF Next, Step, Call, ClaimWins, ClaimLoses, LockTimeout, DestinationChanged,
        DestinationHolds, RunLeg, FailLeg, ChangeNumber, Crash, vars
<1> QED BY <1>1, <1>2, Invariance, PTL DEF Spec, SettlesOnce, Once!Spec

-----------------------------------------------------------------------------
\* What the first n legs of a plan pay out of the bank, as a sum over its legs.
PaidLegs(plan, n) == {i \in 1 .. n : i <= Len(plan) /\ plan[i].type = "TRANSFER"}
Amount(plan)      == [i \in DOMAIN plan |-> plan[i].amount]

LEMMA PlanSeq ==
    ASSUME NEW plan \in Seq(Leg), NEW n \in Nat
    PROVE  /\ IsFiniteSet(PaidLegs(plan, n)) /\ PaidLegs(plan, n) \subseteq DOMAIN plan
           /\ \A i \in DOMAIN plan : plan[i] \in Leg /\ Amount(plan)[i] \in Nat
                                     /\ Amount(plan)[i] = plan[i].amount
<1>1. IsFiniteSet(1 .. n) /\ PaidLegs(plan, n) \subseteq 1 .. n
  <2>1. IsFiniteSet(1 .. n)
    <3>1. 1 \in Int /\ n \in Int
      OBVIOUS
    <3> QED BY <3>1, FS_Interval
  <2>2. PaidLegs(plan, n) \subseteq 1 .. n
    BY DEF PaidLegs
  <2> QED BY <2>1, <2>2
<1>2. IsFiniteSet(PaidLegs(plan, n))
  BY <1>1, FS_Subset
<1>3. PaidLegs(plan, n) \subseteq DOMAIN plan
  BY DEF PaidLegs
<1>4. ASSUME NEW i \in DOMAIN plan
      PROVE  plan[i] \in Leg /\ Amount(plan)[i] \in Nat /\ Amount(plan)[i] = plan[i].amount
  <2>1. plan[i] \in Leg
    OBVIOUS
  <2>2. plan[i].amount \in Nat
    BY <2>1 DEF Leg
  <2> QED BY <2>1, <2>2 DEF Amount
<1> QED BY <1>2, <1>3, <1>4

LEMMA PaidOutSum ==
    ASSUME NEW plan \in Seq(Leg), NEW n \in Nat
    PROVE  PaidOut(plan, n) = SumOver(Amount(plan), PaidLegs(plan, n))
<1> DEFINE T == PaidLegs(plan, n)
           Runs(g) == g = [s \in SUBSET T |-> IF s = {} THEN 0
                              ELSE plan[CHOOSE x \in s : TRUE].amount + g[s \ {CHOOSE x \in s : TRUE}]]
           iter[s \in SUBSET T] == IF s = {} THEN 0
                                   ELSE LET x == CHOOSE x \in s : TRUE
                                        IN plan[x].amount + iter[s \ {x}]
<1>1. PaidOut(plan, n) = iter[T]
  BY DEF PaidOut, MapThenSumSet, MapThenFoldSet, PaidLegs
<1>2. iter = CHOOSE g : Runs(g)
  OBVIOUS
<1> HIDE DEF iter
<1>3. ASSUME NEW g PROVE SumsUp(g, Amount(plan), T) <=> Runs(g)
  <2>1. \A s \in SUBSET T : s # {} =>
          Amount(plan)[CHOOSE x \in s : TRUE] = plan[CHOOSE x \in s : TRUE].amount
    <3>1. \A s \in SUBSET T : s # {} => (CHOOSE x \in s : TRUE) \in s
      OBVIOUS
    <3> HIDE DEF T
    <3>2. T \subseteq DOMAIN plan
      BY PlanSeq DEF T
    <3> QED BY <3>1, <3>2 DEF Amount
  <2> HIDE DEF T
  <2>2. [s \in SUBSET T |-> IF s = {} THEN 0 ELSE
              plan[CHOOSE x \in s : TRUE].amount + g[s \ {CHOOSE x \in s : TRUE}]]
        = [s \in SUBSET T |-> IF s = {} THEN 0 ELSE
              Amount(plan)[CHOOSE x \in s : TRUE] + g[s \ {CHOOSE x \in s : TRUE}]]
    BY <2>1
  <2> QED BY <2>2 DEF SumsUp
<1>4. SumsUp(iter, Amount(plan), T)
  <2>1. IsFiniteSet(T)
    BY PlanSeq
  <2>2. PICK g : SumsUp(g, Amount(plan), T)
    BY <2>1, SumExists
  <2>3. Runs(g)
    BY <1>3, <2>2
  <2> HIDE DEF Runs, T
  <2>4. Runs(iter)
    BY <1>2, <2>3
  <2> QED BY <1>3, <2>4
<1>5. /\ IsFiniteSet(T) /\ \A i \in T : Amount(plan)[i] \in Int
  BY PlanSeq
<1> HIDE DEF T
<1>6. PICK h : SumsUp(h, Amount(plan), T) /\ SumOver(Amount(plan), T) = h[T]
  BY <1>5, SumIs
<1>7. h[T] = iter[T]
  BY <1>4, <1>5, <1>6, SumsAgree
<1> QED BY <1>1, <1>6, <1>7 DEF T

LEMMA PaidOutStep ==
    ASSUME NEW plan \in Seq(Leg), NEW n \in Nat
    PROVE  /\ PaidOut(plan, n) \in Nat /\ PaidOut(plan, 0) = 0
           /\ n + 1 <= Len(plan) =>
                PaidOut(plan, n + 1) = PaidOut(plan, n)
                    + (IF plan[n + 1].type = "TRANSFER" THEN plan[n + 1].amount ELSE 0)
<1>1. PaidOut(plan, n) \in Nat
  BY PaidOutSum, PlanSeq, SumNat
<1>2. PaidOut(plan, 0) = 0
  <2>1. PaidLegs(plan, 0) = {}
    BY DEF PaidLegs
  <2> QED BY <2>1, PaidOutSum, SumEmpty
<1>3. ASSUME n + 1 <= Len(plan)
      PROVE  PaidOut(plan, n + 1) = PaidOut(plan, n)
                    + (IF plan[n + 1].type = "TRANSFER" THEN plan[n + 1].amount ELSE 0)
  <2> DEFINE T == PaidLegs(plan, n)
  <2>0. n + 1 \in Nat /\ n + 1 \in DOMAIN plan
    BY <1>3
  <2>1. /\ PaidOut(plan, n) = SumOver(Amount(plan), T)
        /\ PaidOut(plan, n + 1) = SumOver(Amount(plan), PaidLegs(plan, n + 1))
    BY <2>0, PaidOutSum
  <2>2. CASE plan[n + 1].type = "TRANSFER"
    <3>1. PaidLegs(plan, n + 1) = T \cup {n + 1} /\ n + 1 \notin T
      BY <1>3, <2>2 DEF PaidLegs
    <3>2. IsFiniteSet(T) /\ \A i \in T \cup {n + 1} : Amount(plan)[i] \in Int
      BY <2>0, PlanSeq
    <3> HIDE DEF T
    <3>3. SumOver(Amount(plan), T \cup {n + 1}) = Amount(plan)[n + 1] + SumOver(Amount(plan), T)
      BY <3>1, <3>2, SumAdd
    <3>4. Amount(plan)[n + 1] = plan[n + 1].amount /\ Amount(plan)[n + 1] \in Nat
      BY <2>0, PlanSeq
    <3>5. PaidOut(plan, n + 1) = Amount(plan)[n + 1] + PaidOut(plan, n)
      BY <2>1, <3>1, <3>3
    <3> QED BY <1>1, <2>2, <3>4, <3>5
  <2>3. CASE plan[n + 1].type # "TRANSFER"
    <3>1. PaidLegs(plan, n + 1) = T
      BY <1>3, <2>3 DEF PaidLegs
    <3> QED BY <1>1, <2>1, <2>3, <3>1
  <2> QED BY <2>2, <2>3
<1> QED BY <1>1, <1>2, <1>3

\* What all drafts paid out, as a sum over the drafts.
Paid(h)    == [d \in Drafts |-> PaidOut(Plan[d], h[d])]
AllPaid(h) == MapThenSumSet(LAMBDA d : PaidOut(Plan[d], h[d]), Drafts)

LEMMA PaidType ==
    ASSUME NEW h \in [Drafts -> Nat]
    PROVE  \A d \in Drafts : Paid(h)[d] = PaidOut(Plan[d], h[d]) /\ Paid(h)[d] \in Nat
<1>1. ASSUME NEW d \in Drafts PROVE PaidOut(Plan[d], h[d]) \in Nat
  <2>1. Plan[d] \in Seq(Leg) /\ h[d] \in Nat
    BY PlanType
  <2> QED BY <2>1, PaidOutStep
<1> QED BY <1>1 DEF Paid

LEMMA AllPaidSum ==
    ASSUME NEW h \in [Drafts -> Nat]
    PROVE  AllPaid(h) = SumOver(Paid(h), Drafts)
<1> DEFINE Runs(g) == g = [s \in SUBSET Drafts |-> IF s = {} THEN 0
                              ELSE PaidOut(Plan[CHOOSE x \in s : TRUE], h[CHOOSE x \in s : TRUE])
                                     + g[s \ {CHOOSE x \in s : TRUE}]]
           iter[s \in SUBSET Drafts] == IF s = {} THEN 0
                                   ELSE LET x == CHOOSE x \in s : TRUE
                                        IN PaidOut(Plan[x], h[x]) + iter[s \ {x}]
<1>1. AllPaid(h) = iter[Drafts]
  BY DEF AllPaid, MapThenSumSet, MapThenFoldSet
<1>2. iter = CHOOSE g : Runs(g)
  OBVIOUS
<1> HIDE DEF iter
<1>3. ASSUME NEW g PROVE SumsUp(g, Paid(h), Drafts) <=> Runs(g)
  <2>1. \A s \in SUBSET Drafts : s # {} => (CHOOSE x \in s : TRUE) \in s
    OBVIOUS
  <2>2. [s \in SUBSET Drafts |-> IF s = {} THEN 0 ELSE
              PaidOut(Plan[CHOOSE x \in s : TRUE], h[CHOOSE x \in s : TRUE])
                + g[s \ {CHOOSE x \in s : TRUE}]]
        = [s \in SUBSET Drafts |-> IF s = {} THEN 0 ELSE
              Paid(h)[CHOOSE x \in s : TRUE] + g[s \ {CHOOSE x \in s : TRUE}]]
    BY <2>1, PaidType
  <2> QED BY <2>2 DEF SumsUp
<1>4. SumsUp(iter, Paid(h), Drafts)
  <2>1. PICK g : SumsUp(g, Paid(h), Drafts)
    BY RowsAssumption, SumExists
  <2>2. Runs(g)
    BY <1>3, <2>1
  <2> HIDE DEF Runs
  <2>3. Runs(iter)
    BY <1>2, <2>2
  <2> QED BY <1>3, <2>3
<1>5. IsFiniteSet(Drafts) /\ \A d \in Drafts : Paid(h)[d] \in Int
  BY RowsAssumption, PaidType
<1>6. PICK g : SumsUp(g, Paid(h), Drafts) /\ SumOver(Paid(h), Drafts) = g[Drafts]
  BY <1>5, SumIs
<1>7. g[Drafts] = iter[Drafts]
  BY <1>4, <1>5, <1>6, SumsAgree
<1> QED BY <1>1, <1>6, <1>7

\* The transaction's copy of the balances is short of the committed ones by what
\* its legs have paid out so far.
TxConserves ==
    tx # NoTx =>
        SumOver(tx.balance, Accounts) + PaidOut(Plan[tx.draft], tx.next - 1)
            = SumOver(balance, Accounts)

Conserved(b, h) == SumOver(b, Accounts) + SumOver(Paid(h), Drafts) = SumOver(Opening, Accounts)

LEMMA ConservedIs ==
    /\ TypeOK => (MoneyConserved <=> Conserved(balance, history))
    /\ TypeOK' => (MoneyConserved' <=> Conserved(balance', history'))
<1>1. MoneyConserved <=> SumOver(balance, Accounts) + AllPaid(history) = SumOver(Opening, Accounts)
  BY DEF MoneyConserved, SumOver, AllPaid
<1>2. MoneyConserved' <=> SumOver(balance', Accounts) + AllPaid(history') = SumOver(Opening, Accounts)
  BY DEF MoneyConserved, SumOver, AllPaid, MapThenSumSet, MapThenFoldSet
<1>3. TypeOK => AllPaid(history) = SumOver(Paid(history), Drafts)
  BY AllPaidSum DEF TypeOK
<1>4. TypeOK' => AllPaid(history') = SumOver(Paid(history'), Drafts)
  BY AllPaidSum DEF TypeOK
<1> QED BY <1>1, <1>2, <1>3, <1>4 DEF Conserved

\* A leg that runs moves its amount out of the bank or between two accounts.
LEMMA LegConserves ==
    ASSUME NEW leg \in Leg, tx.balance \in [Accounts -> Int], LegCanRun(leg)
    PROVE  SumOver(AfterLeg(leg), Accounts)
             + (IF leg.type = "TRANSFER" THEN leg.amount ELSE 0) = SumOver(tx.balance, Accounts)
<1>1. /\ leg.source \in Accounts /\ leg.to \in Accounts /\ leg.amount \in Nat
      /\ leg.type \in {"TRANSFER", "OWN_TRANSFER"}
  BY DEF Leg
<1>2. PICK old : old = tx.balance
  OBVIOUS
<1>3. \A a \in Accounts : old[a] \in Int
  BY <1>2
<1>4. SumOver(old, Accounts) \in Int
  BY <1>3, RowsAssumption, SumType
<1>5. CASE leg.type = "TRANSFER"
  <2>1. PICK new : new = AfterLeg(leg)
    OBVIOUS
  <2>2. /\ new[leg.source] = old[leg.source] - leg.amount
        /\ \A a \in Accounts : a # leg.source => new[a] = old[a]
    BY <1>1, <1>2, <1>5, <2>1 DEF AfterLeg
  <2>3. \A a \in Accounts : new[a] \in Int
    BY <1>1, <1>3, <2>2
  <2>4. SumOver(new, Accounts) = SumOver(old, Accounts) + new[leg.source] - old[leg.source]
    BY <1>1, <1>3, <2>2, <2>3, RowsAssumption, SumChanges
  <2>5. old[leg.source] \in Int
    BY <1>1, <1>3
  <2> QED BY <1>1, <1>2, <1>4, <1>5, <2>1, <2>2, <2>4, <2>5
<1>6. CASE leg.type = "OWN_TRANSFER"
  <2>0. leg.source # leg.to
    BY <1>6 DEF LegCanRun
  <2>1. PICK new : new = AfterLeg(leg)
    OBVIOUS
  <2>2. PICK mid : mid = [a \in Accounts |-> IF a = leg.source THEN old[a] - leg.amount ELSE old[a]]
    OBVIOUS
  <2>3. /\ mid[leg.source] = old[leg.source] - leg.amount
        /\ \A a \in Accounts : a # leg.source => mid[a] = old[a]
    BY <1>1, <2>2
  <2>4. /\ new[leg.to] = mid[leg.to] + leg.amount
        /\ \A a \in Accounts : a # leg.to => new[a] = mid[a]
    BY <1>1, <1>2, <1>6, <2>0, <2>1, <2>2 DEF AfterLeg
  <2>5. \A a \in Accounts : mid[a] \in Int
    BY <1>1, <1>3, <2>3
  <2>6. \A a \in Accounts : new[a] \in Int
    BY <1>1, <2>4, <2>5
  <2>7. SumOver(mid, Accounts) = SumOver(old, Accounts) + mid[leg.source] - old[leg.source]
    BY <1>1, <1>3, <2>3, <2>5, RowsAssumption, SumChanges
  <2>8. SumOver(new, Accounts) = SumOver(mid, Accounts) + new[leg.to] - mid[leg.to]
    BY <1>1, <2>4, <2>5, <2>6, RowsAssumption, SumChanges
  <2>9. old[leg.source] \in Int /\ mid[leg.to] \in Int
    BY <1>1, <1>3, <2>5
  <2> QED BY <1>1, <1>2, <1>4, <1>6, <2>1, <2>3, <2>4, <2>7, <2>8, <2>9
<1> QED BY <1>1, <1>5, <1>6

Kept == Conserved(balance, history) /\ TxConserves

\* A draft that settles adds to what was paid out what its legs paid.
LEMMA Settled ==
    ASSUME NEW h \in [Drafts -> Nat], NEW d \in Drafts, NEW n \in Nat, h[d] = 0
    PROVE  SumOver(Paid([h EXCEPT ![d] = @ + n]), Drafts)
             = SumOver(Paid(h), Drafts) + PaidOut(Plan[d], n)
<1>1. PICK k : k = [h EXCEPT ![d] = @ + n]
  OBVIOUS
<1>2. k \in [Drafts -> Nat] /\ k[d] = n /\ \A c \in Drafts : c # d => k[c] = h[c]
  BY <1>1
<1>3. \A c \in Drafts : /\ Paid(h)[c] \in Nat /\ Paid(k)[c] \in Nat
                        /\ Paid(h)[c] = PaidOut(Plan[c], h[c])
                        /\ Paid(k)[c] = PaidOut(Plan[c], k[c])
  BY <1>2, PaidType
<1>4. \A c \in Drafts : c # d => Paid(k)[c] = Paid(h)[c]
  BY <1>2, <1>3
<1>5. Paid(h)[d] = 0
  BY <1>3, PlanType, PaidOutStep
<1>6. PICK by : by = Paid(h)
  OBVIOUS
<1>7. PICK at : at = Paid(k)
  OBVIOUS
<1>8. SumOver(at, Drafts) = SumOver(by, Drafts) + at[d] - by[d]
  <2>1. \A c \in Drafts : by[c] \in Int /\ at[c] \in Int
    BY <1>3, <1>6, <1>7
  <2>2. \A c \in Drafts : c # d => at[c] = by[c]
    BY <1>4, <1>6, <1>7
  <2> QED BY <2>1, <2>2, RowsAssumption, SumChanges
<1>9. SumOver(by, Drafts) \in Int
  BY <1>3, <1>6, RowsAssumption, SumType
<1>10. at[d] = PaidOut(Plan[d], n) /\ at[d] \in Nat /\ by[d] = 0
  BY <1>2, <1>3, <1>5, <1>6, <1>7
<1> QED BY <1>1, <1>6, <1>7, <1>8, <1>9, <1>10

\* The sums that are compared are integers.
LEMMA SumsAreInts ==
    ASSUME TypeOK
    PROVE  /\ SumOver(balance, Accounts) \in Int /\ SumOver(Paid(history), Drafts) \in Nat
           /\ tx # NoTx => /\ SumOver(tx.balance, Accounts) \in Int
                           /\ tx.draft \in Drafts /\ tx.next \in Nat \ {0}
                           /\ PaidOut(Plan[tx.draft], tx.next - 1) \in Nat
                           /\ tx.balance \in [Accounts -> Int]
<1>1. SumOver(balance, Accounts) \in Int
  BY RowsAssumption, SumType DEF TypeOK
<1>2. SumOver(Paid(history), Drafts) \in Nat
  BY RowsAssumption, PaidType, SumNat DEF TypeOK
<1>3. ASSUME tx # NoTx
      PROVE  /\ SumOver(tx.balance, Accounts) \in Int
             /\ tx.draft \in Drafts /\ tx.next \in Nat \ {0}
             /\ PaidOut(Plan[tx.draft], tx.next - 1) \in Nat
             /\ tx.balance \in [Accounts -> Int]
  <2>1. /\ tx.balance \in [Accounts -> Int]
        /\ tx.draft \in Drafts /\ tx.next \in Nat \ {0}
    BY <1>3 DEF TypeOK, Tx_
  <2>2. PICK b : b = tx.balance
    OBVIOUS
  <2>3. SumOver(b, Accounts) \in Int
    BY <2>1, <2>2, RowsAssumption, SumType
  <2>4. tx.next - 1 \in Nat
    BY <2>1
  <2>5. PaidOut(Plan[tx.draft], tx.next - 1) \in Nat
    BY <2>1, <2>4, PlanType, PaidOutStep
  <2> QED BY <2>1, <2>2, <2>3, <2>5
<1> QED BY <1>1, <1>2, <1>3

LEMMA InitKept == Init => Kept
<1> SUFFICES ASSUME Init PROVE Kept
  OBVIOUS
<1>1. balance = Opening /\ tx = NoTx
  BY DEF Init
<1>2. history \in [Drafts -> Nat] /\ \A d \in Drafts : history[d] = 0
  BY DEF Init
<1>3. \A d \in Drafts : Paid(history)[d] = PaidOut(Plan[d], history[d])
  BY <1>2, PaidType
<1>4. \A d \in Drafts : Paid(history)[d] = 0
  BY <1>2, <1>3, PlanType, PaidOutStep
<1>5. SumOver(Paid(history), Drafts) = 0
  <2> DEFINE F == {s \in SUBSET Drafts : SumOver(Paid(history), s) = 0}
  <2>1. {} \in F
    BY SumEmpty
  <2>2. ASSUME NEW s \in SUBSET Drafts, NEW x \in Drafts \ s, s \in F PROVE s \cup {x} \in F
    <3>1. PICK by : by = Paid(history)
      OBVIOUS
    <3>2. IsFiniteSet(s) /\ \A c \in s \cup {x} : by[c] \in Int
      BY <1>4, <3>1, RowsAssumption, FS_Subset
    <3>3. SumOver(by, s \cup {x}) = by[x] + SumOver(by, s)
      BY <3>2, SumAdd
    <3> QED BY <1>4, <2>2, <3>1, <3>3
  <2> HIDE DEF F
  <2>3. Drafts \in F
    BY <2>1, <2>2, RowsAssumption, SetInduction
  <2> QED BY <2>3 DEF F
<1>6. SumOver(Opening, Accounts) \in Int
  BY LedgerAssumption, RowsAssumption, SumType
<1> QED BY <1>1, <1>5, <1>6 DEF Kept, Conserved, TxConserves

LEMMA NextKept == IInv /\ IInv' /\ Kept /\ [Next]_vars => Kept'
<1> SUFFICES ASSUME IInv, IInv', Kept, [Next]_vars PROVE Kept'
  OBVIOUS
<1>0. TypeOK /\ OutcomeTellsHistory /\ TxSound
  BY DEF IInv
<1>a. ASSUME UNCHANGED <<balance, history>>, tx' = NoTx \/ UNCHANGED tx PROVE Kept'
  BY <1>a DEF Kept, Conserved, TxConserves
<1>1. ASSUME NEW w \in Workers, NEW d \in Drafts, NEW op \in Ops, Call(w, d, op) PROVE Kept'
  BY <1>1, <1>a DEF Call
<1>2. ASSUME NEW w \in Workers, ClaimWins(w) PROVE Kept'
  <2>1. /\ tx'.balance = balance /\ tx'.next = 1 /\ tx'.draft = calls[w].draft
        /\ UNCHANGED <<balance, history>>
    BY <1>2 DEF ClaimWins, Begun
  <2>2. calls[w].draft \in Drafts
    BY <1>0, <1>2 DEF ClaimWins, TypeOK, Call_
  <2>3. PaidOut(Plan[calls[w].draft], 0) = 0
    BY <2>2, PlanType, PaidOutStep
  <2>4. SumOver(balance, Accounts) \in Int
    BY <1>0, SumsAreInts
  <2> QED BY <2>1, <2>3, <2>4 DEF Kept, Conserved, TxConserves
<1>3. ASSUME NEW w \in Workers, ClaimLoses(w) \/ LockTimeout(w) PROVE Kept'
  BY <1>3, <1>a DEF ClaimLoses, LockTimeout
<1>4. ASSUME NEW w \in Workers, CommitClose(w) \/ DestinationChanged(w) PROVE Kept'
  BY <1>4, <1>a DEF CommitClose, DestinationChanged
<1>5. ASSUME NEW w \in Workers, DestinationHolds(w) \/ FailLeg(w) PROVE Kept'
  <2>1. tx # NoTx
    BY <1>0, <1>5, OpenTx DEF DestinationHolds, FailLeg, InLegs
  <2>2. /\ tx'.balance = tx.balance /\ tx'.next = tx.next /\ tx'.draft = tx.draft
        /\ UNCHANGED <<balance, history>>
    BY <1>0, <1>5, <2>1, OpenTx DEF DestinationHolds, FailLeg, InLegs
  <2> QED BY <2>1, <2>2 DEF Kept, Conserved, TxConserves
<1>6. ASSUME NEW w \in Workers, RunLeg(w) PROVE Kept'
  <2> DEFINE leg == Plan[tx.draft][tx.next]
  <2>0. /\ tx # NoTx
        /\ tx \in [owner : Workers, draft : Drafts, stage : {"claimed", "legs"},
                   next : Nat \ {0}, aborted : BOOLEAN, balance : [Accounts -> Int]]
    BY <1>0, <1>6, OpenTx DEF RunLeg, InLegs
  <2>1. /\ tx'.balance = AfterLeg(leg) /\ tx'.next = tx.next + 1 /\ tx'.draft = tx.draft
        /\ UNCHANGED <<balance, history>>
    BY <1>6, <2>0 DEF RunLeg
  <2>2. tx.draft \in Drafts /\ tx.next \in Nat \ {0} /\ tx.next <= Len(Plan[tx.draft])
    BY <1>6, <2>0 DEF RunLeg, InLegs
  <2>3. PICK plan : plan = Plan[tx.draft]
    OBVIOUS
  <2>4. plan \in Seq(Leg) /\ Len(plan) \in Nat
    BY <2>2, <2>3, PlanType
  <2>5. leg \in Leg /\ leg.amount \in Nat
    <3>1. tx.next \in 1 .. Len(plan)
      BY <2>2, <2>3, <2>4
    <3>2. plan[tx.next] \in Leg
      BY <2>4, <3>1
    <3>3. leg \in Leg
      BY <2>3, <3>2
    <3> HIDE DEF leg
    <3> QED BY <3>3 DEF Leg
  <2>6. tx.balance \in [Accounts -> Int]
    BY <2>0
  <2>7. PICK old : old = tx.balance
    OBVIOUS
  <2>8. PICK new : new = AfterLeg(leg)
    OBVIOUS
  <2>9. SumOver(new, Accounts) + (IF leg.type = "TRANSFER" THEN leg.amount ELSE 0)
          = SumOver(old, Accounts)
    <3>1. LegCanRun(leg)
      BY <1>6 DEF RunLeg
    <3> HIDE DEF leg
    <3> QED BY <2>5, <2>6, <2>7, <2>8, <3>1, LegConserves
  <2>10. PICK n \in Nat : n = tx.next - 1
    BY <2>2
  <2>11. PaidOut(plan, n + 1) = PaidOut(plan, n)
            + (IF plan[n + 1].type = "TRANSFER" THEN plan[n + 1].amount ELSE 0)
    <3>1. n + 1 <= Len(plan)
      BY <2>2, <2>3, <2>10
    <3> QED BY <2>4, <3>1, PaidOutStep
  <2>12. n + 1 = tx.next /\ leg = plan[n + 1]
    BY <2>2, <2>3, <2>10
  <2>13. SumOver(old, Accounts) + PaidOut(plan, n) = SumOver(balance, Accounts)
    BY <2>0, <2>3, <2>7, <2>10 DEF Kept, TxConserves
  <2>14. /\ SumOver(old, Accounts) \in Int /\ PaidOut(plan, n) \in Nat
         /\ SumOver(balance, Accounts) \in Int
    BY <1>0, <2>0, <2>3, <2>7, <2>10, SumsAreInts
  <2>15. \A a \in Accounts : new[a] \in Int
    BY <2>5, <2>6, <2>8 DEF AfterLeg
  <2>16. SumOver(new, Accounts) \in Int
    BY <2>15, RowsAssumption, SumType
  <2>17. PICK out : out = (IF leg.type = "TRANSFER" THEN leg.amount ELSE 0)
    OBVIOUS
  <2>18. out \in Nat
    BY <2>5, <2>17
  <2>19. SumOver(new, Accounts) + PaidOut(plan, n + 1) = SumOver(balance, Accounts)
    <3>1. PaidOut(plan, n + 1) = PaidOut(plan, n) + out
      BY <2>11, <2>12, <2>17
    <3>2. SumOver(new, Accounts) + out = SumOver(old, Accounts)
      BY <2>9, <2>17
    <3> HIDE DEF leg
    <3> QED BY <2>13, <2>14, <2>16, <2>18, <3>1, <3>2
  <2>20. tx'.next - 1 = n + 1 /\ tx'.balance = new /\ Plan[tx'.draft] = plan
    BY <2>1, <2>2, <2>3, <2>8, <2>12
  <2>21. SumOver(tx'.balance, Accounts) + PaidOut(Plan[tx'.draft], tx'.next - 1)
            = SumOver(balance', Accounts)
    BY <2>1, <2>19, <2>20
  <2>22. Conserved(balance, history)'
    BY <2>1 DEF Kept, Conserved
  <2> QED BY <2>21, <2>22 DEF Kept, TxConserves
<1>7. ASSUME NEW w \in Workers, CommitExecute(w) PROVE Kept'
  <2>0. tx # NoTx
    BY <1>0, <1>7, OpenTx DEF CommitExecute
  <2>1. /\ tx' = NoTx /\ balance' = tx.balance
        /\ history' = [history EXCEPT ![tx.draft] = @ + (tx.next - 1)]
    BY <1>7 DEF CommitExecute, LegsRun
  <2>2. PICK n \in Nat : n = tx.next - 1
    BY <1>0, <2>0, SumsAreInts
  <2>3. PICK d \in Drafts : d = tx.draft
    BY <1>0, <2>0, SumsAreInts
  <2>4. history[d] = 0 /\ history \in [Drafts -> Nat]
    BY <1>0, <2>0, <2>3 DEF TxSound, OutcomeTellsHistory, TypeOK
  <2>5. SumOver(Paid([history EXCEPT ![d] = @ + n]), Drafts)
             = SumOver(Paid(history), Drafts) + PaidOut(Plan[d], n)
    BY <2>4, Settled
  <2>6. SumOver(Paid(history'), Drafts) = SumOver(Paid(history), Drafts) + PaidOut(Plan[d], n)
    BY <2>1, <2>2, <2>3, <2>5
  <2>7. SumOver(balance', Accounts) + PaidOut(Plan[d], n) = SumOver(balance, Accounts)
    BY <2>0, <2>1, <2>2, <2>3 DEF Kept, TxConserves
  <2>8. /\ SumOver(tx.balance, Accounts) \in Int /\ SumOver(balance, Accounts) \in Int
        /\ SumOver(Paid(history), Drafts) \in Nat /\ PaidOut(Plan[d], n) \in Nat
    BY <1>0, <2>0, <2>2, <2>3, SumsAreInts
  <2>9. SumOver(balance', Accounts) \in Int
    BY <2>1, <2>8
  <2>10. SumOver(balance, Accounts) + SumOver(Paid(history), Drafts) = SumOver(Opening, Accounts)
    BY DEF Kept, Conserved
  <2>11. SumOver(balance', Accounts) + SumOver(Paid(history'), Drafts) = SumOver(Opening, Accounts)
    BY <2>6, <2>7, <2>8, <2>9, <2>10
  <2> QED BY <2>1, <2>11 DEF Kept, Conserved, TxConserves
<1>8. ASSUME NEW d \in Drafts, ChangeNumber(d) PROVE Kept'
  BY <1>8, <1>a DEF ChangeNumber
<1>9. ASSUME Crash PROVE Kept'
  BY <1>9, <1>a DEF Crash
<1>10. ASSUME UNCHANGED vars PROVE Kept'
  BY <1>10, <1>a DEF vars
<1> QED BY <1>1, <1>2, <1>3, <1>4, <1>5, <1>6, <1>7, <1>8, <1>9, <1>10 DEF Next, Step

\* Money is neither made nor lost: at every commit point the balances and what
\* the history says was paid out of the bank add up to the opening balances,
\* whatever transactions were rolled back, aborted or crashed on the way.
THEOREM MoneyTheorem == Spec => []MoneyConserved
<1>1. IInv /\ Kept => MoneyConserved
  BY ConservedIs DEF IInv, Kept
<1>2. Init => IInv /\ Kept
  BY InitIInv, InitKept
<1>3. IInv /\ Kept /\ [Next]_vars => (IInv /\ Kept)'
  BY NextIInv, NextKept
<1> QED BY <1>1, <1>2, <1>3, PTL DEF Spec
=============================================================================
