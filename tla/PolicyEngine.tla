---------------------------- MODULE PolicyEngine ----------------------------
(* The policy engine, backend/policy/engine.py, over what                    *)
(* backend/policy/context.py fetches for it.  Pure: a plan and a context go  *)
(* in, a verdict per leg comes out.  A leg is                                *)
(*   [type, source, payee, amount, version]                                  *)
(* and a row of transaction_history is [payee, type, amount, at, version].   *)
(* The reasons are left out: they say in words what the rule's name says.    *)
EXTENDS Integers, Sequences, FiniteSets, SequencesExt, FiniteSetsExt

CONSTANTS PerTransaction, Daily,         \* the limits table, in cents; 0: none
          VelocityCount, VelocityWindow  \* transfers, and seconds

ASSUME LimitsAssumption ==
  /\ PerTransaction \in Nat /\ Daily \in Nat
  /\ VelocityCount \in Nat /\ VelocityWindow \in Nat

AnomalyMultiple == 10
DaySeconds      == 86400
StartOfDay(now) == now - (now % DaySeconds)          \* UTC midnight

Decisions == <<"ALLOW", "REQUIRE_EXTRA_CONFIRMATION", "BLOCK">>
Severity(decision) == CHOOSE i \in DOMAIN Decisions : Decisions[i] = decision

IsTransfer(leg) == leg.type = "TRANSFER"

\* What the rows since t moved, and how many there are.
Moved(rows)            == [i \in DOMAIN rows |-> rows[i].amount]
RowsSince(history, t)  == {i \in DOMAIN history : history[i].at >= t}
SpentSince(history, t) == SumFunctionOnSet(Moved(history), RowsSince(history, t))
CountSince(history, t) == Cardinality(RowsSince(history, t))

\* The integer median: the lower middle averaged with the upper, rounded down.
MedianCents(amounts) ==
  LET s   == SortSeq(amounts, <)
      mid == Len(s) \div 2
  IN IF Len(s) % 2 = 1 THEN s[mid + 1] ELSE (s[mid] + s[mid + 1]) \div 2

\* load_context() with the clock read inside it: the user's row, the rows of
\* history, the holds not yet over and the payees whose number is reported.
PolicyContext(user, history, holds, reported, now) ==
  [user |-> user, history |-> history, now |-> now, reported |-> reported,
   holds |-> [p \in {q \in DOMAIN holds : holds[q] > now} |-> holds[p]]]

---------------------------------------------------------------------------
(* The rules.  Each says whether it has something to say.                    *)

CheckKyc(leg, ctx) == ~ctx.user.verified

CheckEligibility(leg, ctx) == leg.type = "BUY_EQUITY" /\ ~ctx.user.eligible

CheckReportedNumber(leg, ctx) == IsTransfer(leg) /\ leg.payee \in ctx.reported

CheckNewContactHold(leg, ctx) ==
  /\ IsTransfer(leg)
  /\ leg.payee \in DOMAIN ctx.holds
  /\ ctx.now < ctx.holds[leg.payee]

CheckPerTransaction(leg, ctx) == PerTransaction # 0 /\ leg.amount > PerTransaction

CheckDaily(leg, ctx, running) == Daily # 0 /\ running + leg.amount > Daily

CheckVelocity(leg, ctx, recent) ==
  IsTransfer(leg) /\ VelocityCount # 0 /\ recent >= VelocityCount

CheckAnomaly(leg, ctx) ==
  /\ IsTransfer(leg)
  /\ LET paid == SelectSeq(ctx.history, LAMBDA h : h.payee = leg.payee)
         amounts == [i \in DOMAIN paid |-> paid[i].amount]
     IN \/ amounts = <<>>
        \/ LET median == MedianCents(amounts)
           IN median > 0 /\ leg.amount >= median * AnomalyMultiple

\* One leg's verdict: the first rule with something to say, in this order.
VerdictOn(leg, ctx, running, recent) ==
  LET Verdict(name, decision) == [rule |-> name, decision |-> decision]
  IN IF CheckKyc(leg, ctx) THEN Verdict("kyc", "BLOCK")
     ELSE IF CheckEligibility(leg, ctx) THEN Verdict("investment_eligibility", "BLOCK")
     ELSE IF CheckReportedNumber(leg, ctx) THEN Verdict("reported_number", "BLOCK")
     ELSE IF CheckNewContactHold(leg, ctx) THEN Verdict("new_contact_hold", "BLOCK")
     ELSE IF CheckPerTransaction(leg, ctx) THEN Verdict("per_transaction", "BLOCK")
     ELSE IF CheckDaily(leg, ctx, running) THEN Verdict("daily", "BLOCK")
     ELSE IF CheckVelocity(leg, ctx, recent) THEN Verdict("velocity", "BLOCK")
     ELSE IF CheckAnomaly(leg, ctx) THEN Verdict("anomaly", "REQUIRE_EXTRA_CONFIRMATION")
     ELSE Verdict("ok", "ALLOW")

---------------------------------------------------------------------------
(* The engine.                                                               *)

\* What a mutant of the engine forgets: that the earlier legs of the plan
\* count towards the limits.
EachLegAlone(plan, ctx) ==
  [i \in DOMAIN plan |->
     VerdictOn(plan[i], ctx,
       SpentSince(ctx.history, StartOfDay(ctx.now)),
       CountSince(ctx.history, ctx.now - VelocityWindow))]

\* evaluate(): every leg in plan order.  A leg that is not blocked counts
\* towards the day's total and, if a transfer, the velocity of the next ones.
Verdicts(plan, ctx) ==
  LET today  == SpentSince(ctx.history, StartOfDay(ctx.now))
      recent == CountSince(ctx.history, ctx.now - VelocityWindow)
      verdict[i \in DOMAIN plan] ==
        LET ran == {j \in DOMAIN plan : j < i /\ verdict[j].decision # "BLOCK"}
        IN VerdictOn(plan[i], ctx, today + SumFunctionOnSet(Moved(plan), ran),
                     recent + Cardinality({j \in ran : IsTransfer(plan[j])}))
  IN verdict

\* The worst verdict in the plan; ALLOW for an empty one.
PolicyDecision(plan, ctx) ==
  LET verdicts == Verdicts(plan, ctx)
  IN Decisions[Max({1} \union {Severity(verdicts[i].decision) : i \in DOMAIN verdicts})]
=============================================================================
