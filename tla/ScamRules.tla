------------------------------ MODULE ScamRules ------------------------------
(* The scam score, backend/policy/scam.py: facts from the ledger, words from *)
(* the user, two thresholds.  Pure, like the code.                           *)
(*                                                                           *)
(* Points are in TENTHS, as to_audit() writes them (4.7 is 47); cents, and   *)
(* seconds, are as in the code.  A text is abstracted to what the regular    *)
(* expressions find in it:                                                   *)
(*   [phrases : the phrase rules it matches,                                 *)
(*    urgent  : how often each urgency word occurs (a sequence of counts),   *)
(*    shout, exclaim : an urgency word in capitals, and "!!"]                *)
(* and a reply to the questions also says whether it holds a yes or a no and *)
(* a word that is a reason.  An attempt row is [draft, payee, amount,        *)
(* outcome, asked, status, updated]; a destination is [version, changed],    *)
(* changed = 0 when it never was.                                            *)
EXTENDS Integers, Sequences, FiniteSets, SequencesExt, FiniteSetsExt

LOCAL INSTANCE TLC        \* SortSeq

Hour == 3600
Day  == 24 * Hour

Weights ==
  [FIRST_PAYMENT_TO_DESTINATION |-> 20, RECENT_DESTINATION_CHANGE |-> 50,
   LARGE_FIRST_PAYMENT |-> 30, BALANCE_DRAIN |-> 30, LARGE_SHARE |-> 20,
   LARGE_AMOUNT |-> 20, ABOVE_USUAL_MAX |-> 20, ABOVE_PAYEE_MAX |-> 20,
   RAPID_MULTI_DESTINATION |-> 40, RECENT_CREDENTIAL_CHANGE |-> 40,
   FREEZE_TURNED_OFF |-> 40, UNUSUAL_HOUR |-> 10, DORMANT_ACCOUNT_WAKE |-> 20,
   RETRY_AFTER_STOPPED |-> 30, SMALLER_AFTER_STOPPED |-> 30,
   REPEATED_STOPPED_ATTEMPTS |-> 30, SPLIT_PAYMENTS |-> 30,
   ESCALATING_AMOUNTS |-> 20, WARNINGS_IGNORED |-> 20]

AmountCodes == {"LARGE_FIRST_PAYMENT", "BALANCE_DRAIN", "LARGE_SHARE",
                "LARGE_AMOUNT", "ABOVE_USUAL_MAX", "ABOVE_PAYEE_MAX"}
AmountMax == 50

LargeFirstCents   == 100000
DrainPercent      == 80
LargeSharePercent == 50
LargeAmountCents  == 500000
UsualMaxFactor    == 3
UsualWindow       == 90 * Day
PayeeMaxFactor    == 3
RapidWindow       == Hour \div 2
RapidCount        == 3
NewContactPoints  == 30
RecentChange      == Day              \* settings.recent_change_hours
Cooling           == 12 * Hour        \* settings.credential_cooling_hours
FreezeRecent      == Day
Dormant           == 90 * Day
AttemptWindow     == Day
Week              == 7 * Day
SplitTotalCents   == 100000
SgtOffset         == 8 * Hour
SmallPaymentCents == 50000
AnswerTries       == 3
ReleaseDelaySeconds == 60

---------------------------------------------------------------------------
(* Outcomes and what they make the user do.                                  *)

Outcomes == <<"ALLOW", "WARN", "DELAY", "HOLD", "HOLD_STEP_UP", "BLOCK">>
\* "None" is an outcome never assessed: it ranks as ALLOW does.
Rank(outcome) == IF outcome = "None" THEN 1
                 ELSE CHOOSE i \in DOMAIN Outcomes : Outcomes[i] = outcome

LatestOutcome(a, b) == b                                   \* mutant: the floor forgotten
Stricter(a, b)    == IF a # "None" /\ Rank(a) > Rank(b) THEN a ELSE b
NeedsHold(o)      == o \in {"HOLD", "HOLD_STEP_UP"}
ReleaseDelay(o)   == IF o \in {"DELAY", "HOLD", "HOLD_STEP_UP"}
                     THEN ReleaseDelaySeconds ELSE 0

\* The score now demands what the draft, as the user saw it, never arranged.
RosePastDrafted(drafted, fresh) ==
  /\ drafted # "None"
  /\ NeedsHold(fresh) \/ fresh = "BLOCK"
  /\ Rank(fresh) > Rank(drafted)

NeverAsksLate(fresh, asked) == FALSE        \* mutant: a fact that came later is not asked about
AsksUnasked(fresh, asked) == fresh.asks /\ ~asked

\* Each code counts once, at its highest weight; the amount facts together at
\* most AmountMax.
PointsByCode(facts) ==
  [c \in {facts[i].code : i \in DOMAIN facts} |->
     Max({facts[i].points : i \in {j \in DOMAIN facts : facts[j].code = c}})]
FactsPoints(facts) ==
  LET by == PointsByCode(facts)
      Sum(codes) == MapThenSumSet(LAMBDA c : by[c], codes)
  IN Sum(DOMAIN by \ AmountCodes) + Min({AmountMax, Sum(DOMAIN by \intersect AmountCodes)})

AskFrom(words, small) == IF words >= 20 THEN 30 ELSE IF small THEN 50 ELSE 40

DecideByWords(facts, words, never, small) ==      \* mutant: calm words pass any facts
  IF never \/ facts >= 100 THEN "BLOCK"
  ELSE IF facts < AskFrom(words, small) THEN "ALLOW"
  ELSE IF words >= 60 THEN "BLOCK"
  ELSE IF words >= 40 THEN "HOLD_STEP_UP"
  ELSE IF words >= 20 THEN "DELAY" ELSE "ALLOW"
\* decide(): the outcome of the two thresholds.
Decide(facts, words, never, small) ==
  IF never \/ facts >= 100 THEN "BLOCK"
  ELSE IF facts < AskFrom(words, small) THEN "ALLOW"
  ELSE IF words >= 60 THEN "BLOCK"
  ELSE IF words >= 40 \/ facts >= 70 THEN "HOLD_STEP_UP"
  ELSE IF words >= 20 THEN "DELAY" ELSE "ALLOW"

---------------------------------------------------------------------------
(* The words.                                                                *)

NeverRules == {"official_orders", "investigation", "safe_account", "credentials",
               "hide_from_bank", "mule"}

\* In hundredths, as the points of a category are.
Categories ==
  <<[official_orders |-> 400, investigation |-> 400, bank_orders |-> 400],
    [safe_account |-> 400], [credentials |-> 400],
    [hide_from_bank |-> 400, secrecy |-> 300], [mule |-> 300],
    [investment |-> 250], [job_task |-> 250], [new_number |-> 250, online_contact |-> 250],
    [upfront_fee |-> 200, parcel_refund |-> 50], [directed |-> 200],
    [instruction_override |-> 200], [no_answer |-> 400]>>
Pressure == 10

\* The advisory phrases; every other one adds risk and shows a warning.
InfoPhrases == {"urgency", "parcel_refund"}

UrgentPoints == <<75, 56, 42, 32, 24, 18>>      \* 0.75 * 0.75^k, to two digits
\* 0.8^k to four digits: finer than the tenth the total is rounded to.
CategoryFactor == <<10000, 8000, 6400, 5120, 4096, 3277, 2621, 2097, 1678, 1342, 1074, 859>>

PressurePoints(text, directed) ==
  LET PerWord(count) == FoldLeft(+, 0, SubSeq(UrgentPoints, 1, count))
  IN Min({300, directed + FoldLeft(LAMBDA sum, n : sum + PerWord(n), 0, text.urgent)
                 + (IF text.shout THEN 100 ELSE 0) + (IF text.exclaim THEN 50 ELSE 0)})

\* word_score(): each category its strongest phrase, urgency added to the
\* pressure one; strongest first at 100 %, 80 %, 64 %...; at most 8 points.
WordScore(text, unanswered) ==
  LET codes == text.phrases \union (IF unanswered THEN {"no_answer"} ELSE {})
      Best(i) == Max({0} \union {Categories[i][c] : c \in codes \intersect DOMAIN Categories[i]})
      points == [i \in DOMAIN Categories |->
                   IF i = Pressure THEN PressurePoints(text, Best(i)) ELSE Best(i)]
      sorted == SortSeq(SelectSeq(points, LAMBDA p : p > 0), >)
      total  == MapThenSumSet(LAMBDA k : sorted[k] * CategoryFactor[k], DOMAIN sorted)
  IN [points   |-> Min({80, (total + 50000) \div 100000}),
      pressure |-> points[Pressure],
      never    |-> codes \intersect NeverRules # {}]

\* The purpose is scored with the request: what is found in either is found.
JoinTexts(a, b) == [phrases |-> a.phrases \union b.phrases, urgent |-> a.urgent \o b.urgent,
                    shout |-> a.shout \/ b.shout, exclaim |-> a.exclaim \/ b.exclaim]

\* unanswered(): an open question needs a reason, the others a yes or a no.
Unanswered(questions, reply) ==
  SelectSeq(questions, LAMBDA q : IF q.ask = "yesno" THEN ~reply.yesno ELSE ~reply.reason)

---------------------------------------------------------------------------
(* The facts.                                                                *)

Transfers(history) == SelectSeq(history, LAMBDA h : h.type = "TRANSFER")
Since(rows, t)     == SelectSeq(rows, LAMBDA h : h.at >= t)
Amounts(rows)      == {rows[i].amount : i \in DOMAIN rows}
Times(rows)        == {rows[i].at : i \in DOMAIN rows}
ToPayee(rows, payee) == SelectSeq(rows, LAMBDA h : h.payee = payee)
InOrder(rows)      == SortSeq(rows, LAMBDA a, b : a.at < b.at)
Total(rows)        == MapThenSumSet(LAMBDA i : rows[i].amount, DOMAIN rows)

PaidBefore(history, h) ==
  \E g \in ToSet(history) : g.payee = h.payee /\ g.version = h.version /\ g.at < h.at

\* An attempt that met friction and did not go ahead.
Stopped(a) == /\ a.status = "STOPPED"
              /\ a.asked \/ a.outcome \in {"DELAY", "HOLD", "HOLD_STEP_UP", "BLOCK"}

RecentStopped(ctx) ==
  {a \in ctx.attempts : Stopped(a) /\ a.updated >= ctx.now - AttemptWindow}

\* A fact that holds, with the kind of question it prompts.
FactIf(holds, code, points, ask) ==
  IF holds THEN <<[code |-> code, points |-> points, ask |-> ask]>> ELSE <<>>
Fact(holds, code, ask) == FactIf(holds, code, Weights[code], ask)

NeverPaid(ctx, leg) ==
  \A h \in ToSet(ctx.history) :
    h.type = "TRANSFER" => h.payee # leg.payee \/ h.version # leg.version
TransferLegs(plan) == {i \in DOMAIN plan : plan[i].type = "TRANSFER"}

\* The transfer legs that are the first to a destination never paid before.
NewHere(plan, ctx) ==
  {i \in TransferLegs(plan) :
     /\ NeverPaid(ctx, plan[i])
     /\ \A j \in TransferLegs(plan) :
          j < i => <<plan[j].payee, plan[j].version>> # <<plan[i].payee, plan[i].version>>}

\* The plan's transfers out of leg i's account, before it.
SentBefore(plan, i) ==
  MapThenSumSet(LAMBDA j : plan[j].amount,
    {j \in TransferLegs(plan) : j < i /\ plan[j].source = plan[i].source})

AmountFacts(plan, ctx, i) ==
  LET leg     == plan[i]
      balance == ctx.balances[leg.source]
      before  == SentBefore(plan, i)
      sent    == before + leg.amount
      Crosses(percent) == /\ balance > 0
                          /\ before * 100 < balance * percent
                          /\ balance * percent <= sent * 100
      history == Transfers(ctx.history)
      usual   == Amounts(Since(history, ctx.now - UsualWindow))
      toPayee == Amounts(ToPayee(history, leg.payee))
  IN Fact(Crosses(DrainPercent), "BALANCE_DRAIN", "open")
     \o Fact(/\ Crosses(LargeSharePercent)
             /\ sent * 100 < balance * DrainPercent, "LARGE_SHARE", "open")
     \o Fact(leg.amount >= LargeAmountCents, "LARGE_AMOUNT", "open")
     \o Fact(usual # {} /\ leg.amount > UsualMaxFactor * Max(usual \union {0}),
             "ABOVE_USUAL_MAX", "open")
     \o Fact(toPayee # {} /\ leg.amount > PayeeMaxFactor * Max(toPayee \union {0}),
             "ABOVE_PAYEE_MAX", "open")

PayeeFacts(plan, ctx, i) ==
  LET leg    == plan[i]
      dest   == ctx.dests[leg.payee]
      recent == dest.changed # 0 /\ ctx.now - dest.changed < RecentChange
  IN Fact(i \in NewHere(plan, ctx), "FIRST_PAYMENT_TO_DESTINATION", "open")
     \o Fact(i \in NewHere(plan, ctx) /\ leg.amount >= LargeFirstCents,
             "LARGE_FIRST_PAYMENT", "open")
     \o FactIf(recent /\ dest.version = 1, "RECENT_DESTINATION_CHANGE",
               NewContactPoints, "open")
     \o Fact(recent /\ dest.version # 1, "RECENT_DESTINATION_CHANGE", "yesno")

Increasing(seq) == \A k \in 1 .. Len(seq) - 1 : seq[k] < seq[k + 1]

PayeeHistoryFacts(plan, ctx, i) ==
  LET leg     == plan[i]
      toPayee == ToPayee(Transfers(ctx.history), leg.payee)
      day     == Since(toPayee, ctx.now - AttemptWindow)
      inDay   == leg.amount + Total(day)
      week    == InOrder(Since(toPayee, ctx.now - Week))
      rising  == Append([k \in DOMAIN week |-> week[k].amount], leg.amount)
      mine    == {a \in RecentStopped(ctx) : a.payee = leg.payee}
  IN Fact(/\ day # <<>> /\ Len(day) = Len(toPayee)      \* first paid in the last day
          /\ inDay >= SplitTotalCents, "SPLIT_PAYMENTS", "yesno")
     \o Fact(Len(rising) >= 3 /\ Increasing(rising), "ESCALATING_AMOUNTS", "yesno")
     \o Fact(mine # {}, "RETRY_AFTER_STOPPED", "open")
     \o Fact(\E a \in mine : a.amount > leg.amount, "SMALLER_AFTER_STOPPED", "yesno")

AccountFacts(plan, ctx) ==
  LET history   == Transfers(ctx.history)
      newHere   == {<<plan[i].payee, plan[i].version>> : i \in NewHere(plan, ctx)}
      recentNew == {<<h.payee, h.version>> : h \in
                      {g \in ToSet(Since(history, ctx.now - RapidWindow)) :
                         ~PaidBefore(history, g)}}
  IN Fact(newHere # {} /\ Cardinality(recentNew \union newHere) >= RapidCount,
          "RAPID_MULTI_DESTINATION", "yesno")
     \o Fact(/\ Cardinality(ctx.creds) > 1
             /\ ctx.now - Max(ctx.creds) < Cooling, "RECENT_CREDENTIAL_CHANGE", "yesno")
     \o Fact(/\ ctx.freezeReleased # 0
             /\ ctx.now - ctx.freezeReleased < FreezeRecent, "FREEZE_TURNED_OFF", "yesno")
     \o Fact(/\ TransferLegs(plan) # {}
             /\ (ctx.askedAt + SgtOffset) % Day < 5 * Hour, "UNUSUAL_HOUR", "yesno")
     \o Fact(/\ newHere # {} /\ history # <<>>
             /\ Since(history, ctx.now - Dormant) = <<>>, "DORMANT_ACCOUNT_WAKE", "open")

AttemptFacts(ctx) ==
  LET stopped    == Cardinality({a.draft : a \in RecentStopped(ctx)})
      warnedSent == {a.draft : a \in {b \in ctx.attempts :
                       /\ b.status = "SENT" /\ b.updated >= ctx.now - Week
                       /\ b.outcome \in {"WARN", "DELAY", "HOLD", "HOLD_STEP_UP"}}}
  IN FactIf(stopped >= 2, "REPEATED_STOPPED_ATTEMPTS", 10 * Min({3, stopped}), "yesno")
     \o Fact(Cardinality(warnedSent) >= 2, "WARNINGS_IGNORED", "none")

PlanFacts(plan, ctx) == AccountFacts(plan, ctx) \o AttemptFacts(ctx)

LegFacts(plan, ctx, i) ==
  IF plan[i].type # "TRANSFER" THEN <<>>
  ELSE AmountFacts(plan, ctx, i) \o PayeeFacts(plan, ctx, i) \o PayeeHistoryFacts(plan, ctx, i)

Facts(plan, ctx) ==
  FlattenSeq([i \in DOMAIN plan |-> LegFacts(plan, ctx, i)]) \o PlanFacts(plan, ctx)

---------------------------------------------------------------------------
(* The assessment.                                                           *)

\* The question of the highest-scoring fact, and of one that ties with it
\* about something else; one a bare "no" cannot answer; and the call question.
Questions(facts) ==
  LET askable == SelectSeq(facts, LAMBDA f : f.ask # "none")
      Kind(f) == IF f.code \in AmountCodes THEN "amount" ELSE f.code
      most    == Max({0} \union {askable[i].points : i \in DOMAIN askable})
      Pick(top, f) == IF f.points = most /\ \A k \in DOMAIN top : top[k].about # Kind(f)
                      THEN Append(top, [about |-> Kind(f), ask |-> f.ask]) ELSE top
      all     == FoldLeft(Pick, <<>>, askable)
      picked  == SubSeq(all, 1, Min({2, Len(all)}))
      purpose == [about |-> "purpose", ask |-> "open"]
      call    == [about |-> "call", ask |-> "yesno"]
  IN picked \o (IF \A k \in DOMAIN picked : picked[k].ask = "yesno" THEN <<purpose>> ELSE <<>>)
            \o <<call>>

PlanTotal(plan) == MapThenSumSet(LAMBDA i : plan[i].amount, TransferLegs(plan))

\* assess(), from the facts and the words on.
Weigh(plan, phrases, facts, words) ==
  LET codes   == {facts[i].code : i \in DOMAIN facts}
      score   == FactsPoints(facts)
      small   == PlanTotal(plan) < SmallPaymentCents /\ codes \intersect AmountCodes = {}
      line    == AskFrom(words.points, small)
      weighed == score >= line \/ words.never
      counted == IF weighed THEN words.points ELSE 0
      decided == Decide(score, counted, words.never, small)
      warned  == \/ codes \ {"UNUSUAL_HOUR", "WARNINGS_IGNORED"} # {}
                 \/ phrases \ InfoPhrases # {}
                 \/ weighed /\ words.pressure >= 200
      asks    == line <= score /\ score < 100 /\ ~words.never /\ decided # "BLOCK"
  IN [facts |-> score, words |-> counted, codes |-> codes, asks |-> asks,
      outcome   |-> IF decided = "ALLOW" /\ warned THEN "WARN" ELSE decided,
      questions |-> IF asks THEN Questions(facts) ELSE <<>>]

Assess(plan, ctx) ==
  Weigh(plan, ctx.text.phrases, Facts(plan, ctx), WordScore(ctx.text, ctx.unanswered))
=============================================================================
