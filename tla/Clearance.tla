------------------------------ MODULE Clearance ------------------------------
(* What a payment goes through before money moves, with the real scores: the *)
(* draft pipeline's policy and scam checks (main.py), the answers to its     *)
(* questions, the gateway's own re-check of both, the wait after signing and *)
(* the ledger rows that later scores read.  One user, several drafts.        *)
(*                                                                           *)
(* PaymentGateway has the same path with the verdicts left open and every    *)
(* interleaving inside it; here the verdicts are computed (PolicyEngine,     *)
(* ScamRules) and the path is coarse: drafting is one step, the gateway's    *)
(* checks are one step, the executor's transaction another.                  *)
EXTENDS PolicyEngine

CONSTANTS Drafts, Payees, Accounts,
          Requests,          \* the plans that can be asked for, without versions
          Texts, Replies,    \* the user's words: see ScamRules
          Start, Past,       \* the time it is at first, and history until then
          Balance, AddedAt,  \* of each account; when each payee was added
          HoldSeconds,       \* main._hold_seconds()
          Ticks,             \* how far the clock can jump
          MaxChanges,        \* bound: account events (a number, a passkey, an unfreeze)
          MaxEvents,         \* bound: those and the clock's jumps together
          SerialPayments     \* one payment at a time between policy and debit

NoPayee == "no payee"

\* A leg that is asked for, in cents; only a transfer has a payee.  (A move
\* between the user's own accounts is left to MockExecutor.)
Leg_ ==
  [type : {"TRANSFER"}, source : Accounts, payee : Payees, amount : Nat \ {0}] \union
  [type : {"BUY_EQUITY", "PAY_BILL"}, source : Accounts, payee : {NoPayee}, amount : Nat \ {0}]

\* A row of transaction_history that is there at first.
Row_ == [payee : Payees \union {NoPayee}, type : {"TRANSFER", "OWN_TRANSFER", "BUY_EQUITY", "PAY_BILL"},
         amount : Nat \ {0}, at : 0 .. Start, version : Nat]

ASSUME ClearanceAssumption ==
  /\ Start \in Nat \ {0} /\ Ticks \subseteq Nat /\ HoldSeconds \in Nat
  /\ MaxChanges \in Nat /\ MaxEvents \in Nat
  /\ IsFiniteSet(Drafts) /\ Requests \subseteq Seq(Leg_) \ {<<>>} /\ Past \in Seq(Row_)

VARIABLES now, ticks, changes, history, balances, dests, creds, freezeReleased,
          attempts, drafts
vars == <<now, ticks, changes, history, balances, dests, creds, freezeReleased,
          attempts, drafts>>

Scam == INSTANCE ScamRules

AuthWindow == 300                                  \* MAX_AUTH_WINDOW_S
User == [verified |-> TRUE, eligible |-> TRUE]

Blank == [status |-> "none", plan |-> <<>>, text |-> {},
          questions |-> <<>>, tries |-> 0, purpose |-> FALSE, unanswered |-> FALSE,
          floor |-> "None", started |-> 0, created |-> 0, heldUntil |-> 0,
          code |-> "none", signedAt |-> 0, releaseAt |-> 0, paidAt |-> 0]

\* A draft that ended: nothing of it is read again (what a paid one was given
\* is kept for ShownIsServed).
Closed(status) == [Blank EXCEPT !.status = status]

Init ==
  /\ now = Start /\ ticks = 0 /\ changes = 0
  /\ history = Past
  /\ balances = Balance
  /\ dests = [p \in Payees |-> [version |-> 1, changed |-> AddedAt[p]]]
  /\ creds = {Start - 30 * Scam!Day}
  /\ freezeReleased = 0
  /\ attempts = {}
  /\ drafts = [d \in Drafts |-> Blank]

---------------------------------------------------------------------------
(* What the two engines are shown.                                           *)

\* The resolver binds each transfer to its payee's destination as it is now.
Bind(request) ==
  [i \in DOMAIN request |->
     [type |-> request[i].type, source |-> request[i].source, payee |-> request[i].payee,
      amount |-> request[i].amount,
      version |-> IF IsTransfer(request[i]) THEN dests[request[i].payee].version ELSE 0]]

Ruling(plan) ==
  PolicyDecision(plan, PolicyContext(User, history, <<>>, {}, now))

\* reassess(): this draft's own rows are no earlier attempt, and the hour is
\* the one the plan was made at.
Rescore(d, dr) ==
  Scam!Assess(dr.plan,
    [now |-> now, dests |-> dests, history |-> history, balances |-> balances,
     creds |-> creds, freezeReleased |-> freezeReleased, askedAt |-> dr.created,
     attempts |-> {a \in attempts : a.draft # d /\ a.updated >= now - Scam!Week},
     text |-> dr.text, unanswered |-> dr.unanswered])

\* attempts.record(): the rows of the draft's transfers, replaced; a draft that
\* was asked stays asked.
Record(d, plan, outcome, asked, status) ==
  LET old == {a \in attempts : a.draft = d}
  IN (attempts \ old) \union
     {[draft |-> d, leg |-> i, payee |-> plan[i].payee, amount |-> plan[i].amount,
       outcome |-> outcome, status |-> status, updated |-> now,
       asked |-> asked \/ \E a \in old : a.leg = i /\ a.asked] :
        i \in {j \in DOMAIN plan : IsTransfer(plan[j])}}

Mark(d, status) ==
  {IF a.draft = d /\ a.status = "OPEN" THEN [a EXCEPT !.status = status, !.updated = now]
   ELSE a : a \in attempts}

---------------------------------------------------------------------------
(* The draft pipeline (main.py): policy, then the score, then what they ask. *)

Screened(d, dr, ruling, fresh) ==
  LET outcome == Scam!Stricter(dr.floor, fresh.outcome)
      asking  == ~dr.purpose /\ fresh.asks /\ outcome # "BLOCK"
      status  == IF outcome = "BLOCK" THEN "blocked" ELSE IF asking THEN "asking" ELSE "ready"
      coded   == ruling = "REQUIRE_EXTRA_CONFIRMATION" \/ outcome = "HOLD_STEP_UP"
  IN IF ruling = "BLOCK"
     THEN /\ drafts' = [drafts EXCEPT ![d] = Closed("blocked")]
          /\ UNCHANGED attempts
     ELSE /\ attempts' = Record(d, dr.plan, outcome, asking \/ dr.purpose,
                                IF outcome = "BLOCK" THEN "STOPPED" ELSE "OPEN")
          /\ drafts' = [drafts EXCEPT ![d] = IF status = "blocked" THEN Closed("blocked") ELSE
               [dr EXCEPT !.status = status, !.floor = outcome,
                          !.questions = IF asking THEN fresh.questions ELSE <<>>,
                          !.heldUntil = IF status = "ready" /\ Scam!NeedsHold(outcome)
                                        THEN now + HoldSeconds ELSE 0,
                          !.code = IF status = "ready" /\ coded THEN "sent" ELSE "none"]]

Pipeline(d, given) ==
  \E dr \in {[given EXCEPT !.plan = Bind(given.plan), !.created = now, !.questions = <<>>]} :
    Screened(d, dr, Ruling(dr.plan), Rescore(d, dr))

Ledger == <<now, ticks, changes, history, balances, dests, creds, freezeReleased>>

Ask(d) ==
  /\ drafts[d].status = "none"
  /\ \E request \in Requests, text \in Texts :
       Pipeline(d, [Blank EXCEPT !.plan = request, !.text = text, !.started = now])
  /\ UNCHANGED Ledger

\* A request that needs a question before it has a payee, in never-rule words:
\* stopped before it is asked, and remembered without a payee.
StopBeforeAsking(d) ==
  /\ drafts[d].status = "none"
  /\ \E request \in Requests, text \in Texts :
       /\ text.phrases \intersect Scam!NeverRules # {}
       /\ drafts' = [drafts EXCEPT ![d] = Closed("blocked")]
       /\ attempts' = Record(d, [i \in DOMAIN request |-> [request[i] EXCEPT !.payee = NoPayee]],
                             "BLOCK", FALSE, "STOPPED")
  /\ UNCHANGED Ledger

ReAsks(missing, tries, reply) ==
  /\ missing # <<>>
  /\ tries < Scam!AnswerTries
  /\ Scam!WordScore(reply, FALSE).points = 0

\* answer_purpose(): what it leaves unanswered is asked again, unless it has
\* said enough or the tries are over; then everything said is scored.
Answer(d) ==
  LET dr == drafts[d]
  IN /\ dr.status = "asking"
     /\ now - dr.started <= AuthWindow
     /\ \E reply \in Replies :
          LET missing == Scam!Unanswered(dr.questions, reply)
              tries   == dr.tries + 1
          IN IF ReAsks(missing, tries, reply)
             THEN /\ drafts' = [drafts EXCEPT ![d].questions = missing, ![d].tries = tries]
                  /\ UNCHANGED attempts
             ELSE Pipeline(d, [dr EXCEPT !.text = Scam!JoinTexts(dr.text, reply),
                                         !.tries = tries, !.purpose = TRUE,
                                         !.unanswered = /\ missing # <<>>
                                                         /\ tries >= Scam!AnswerTries])
     /\ UNCHANGED Ledger

ConfirmCode(d) ==
  /\ drafts[d].status = "ready" /\ drafts[d].code = "sent"
  /\ now <= drafts[d].created + AuthWindow
  /\ drafts' = [drafts EXCEPT ![d].code = "confirmed"]
  /\ UNCHANGED <<Ledger, attempts>>

Open == {"asking", "ready", "checked", "scheduled", "releasing"}

\* Declined or cancelled, at any time before the executor's transaction.
Cancel(d) ==
  /\ drafts[d].status \in Open
  /\ drafts' = [drafts EXCEPT ![d] = Closed("cancelled")]
  /\ attempts' = Mark(d, "STOPPED")
  /\ UNCHANGED Ledger

---------------------------------------------------------------------------
(* The gateway.                                                              *)

\* With SerialPayments no payment's checks begin while another is between its
\* policy check and its debit; the code has no such lock.
Paying     == {d \in Drafts : drafts[d].status \in {"checked", "releasing"}}
MayProceed == SerialPayments => Paying = {}

DestinationsHold(plan) ==
  \A i \in DOMAIN plan : IsTransfer(plan[i]) => plan[i].version = dests[plan[i].payee].version

ScamAllowsByScore(d, fresh, outcome) ==     \* mutant: the draft's own outcome forgotten
  LET dr == drafts[d]
  IN /\ fresh.outcome # "BLOCK"
     /\ ~Scam!AsksUnasked(fresh, dr.purpose)
     /\ Scam!NeedsHold(fresh.outcome) => dr.heldUntil # 0
     /\ now >= dr.heldUntil
     /\ fresh.outcome = "HOLD_STEP_UP" => dr.code = "confirmed"
\* _scam_protection(): the score, re-run, must ask for nothing the draft did
\* not arrange, and what the draft arranged must be served.
ScamAllows(d, fresh, outcome) ==
  LET dr == drafts[d]
  IN /\ outcome # "BLOCK"
     /\ ~Scam!RosePastDrafted(dr.floor, fresh.outcome)
     /\ ~Scam!AsksUnasked(fresh, dr.purpose)
     /\ Scam!NeedsHold(outcome) => dr.heldUntil # 0
     /\ now >= dr.heldUntil
     /\ outcome = "HOLD_STEP_UP" => dr.code = "confirmed"

PolicyAllows(d) ==
  \E ruling \in {Ruling(drafts[d].plan)} :
     /\ ruling # "BLOCK"
     /\ ruling = "REQUIRE_EXTRA_CONFIRMATION" => drafts[d].code = "confirmed"

\* A refusal changes nothing here; a signed payment that passes is paid next,
\* or waits if it failed threshold 2.
Submit(d) ==
  /\ drafts[d].status = "ready" /\ MayProceed
  /\ now <= drafts[d].created + AuthWindow
  /\ DestinationsHold(drafts[d].plan)
  /\ PolicyAllows(d)
  /\ \E fresh \in {Rescore(d, drafts[d])} :
     LET outcome == Scam!Stricter(drafts[d].floor, fresh.outcome)
         wait    == Scam!ReleaseDelay(outcome)
     IN /\ ScamAllows(d, fresh, outcome)
        /\ drafts' = [drafts EXCEPT ![d].status = IF wait > 0 THEN "scheduled" ELSE "checked",
                                    ![d].signedAt = now,
                                    ![d].releaseAt = IF wait > 0 THEN now + wait ELSE 0]
  /\ UNCHANGED <<Ledger, attempts>>

\* release_due(): the wait is over, and policy is asked once more.
Release(d) ==
  /\ drafts[d].status = "scheduled" /\ now >= drafts[d].releaseAt
  /\ MayProceed
  /\ IF Ruling(drafts[d].plan) = "BLOCK"
     THEN /\ drafts' = [drafts EXCEPT ![d] = Closed("cancelled")]
          /\ attempts' = Mark(d, "STOPPED")
     ELSE /\ drafts' = [drafts EXCEPT ![d].status = "releasing"]
          /\ UNCHANGED attempts
  /\ UNCHANGED Ledger

\* What the first k legs take out of an account, and how many are paid: in
\* order, up to the first the balance cannot cover.
OutOf(plan, k, account) ==
  SumFunctionOnSet(Moved(plan), {j \in DOMAIN plan : j <= k /\ plan[j].source = account})
Covered(plan) ==
  Max({0} \union {k \in DOMAIN plan : \A a \in Accounts : OutOf(plan, k, a) <= balances[a]})

PaidRow(leg) == [payee |-> leg.payee, type |-> leg.type, amount |-> leg.amount,
                 at |-> now, version |-> leg.version]

\* The executor's transaction.  A failed leg is recorded like a paid one: the
\* attempt is SENT.
Pay(d) ==
  /\ drafts[d].status \in {"checked", "releasing"}
  /\ DestinationsHold(drafts[d].plan)
  /\ LET plan == drafts[d].plan
         paid == Covered(plan)
     IN /\ history' = history \o [j \in 1 .. paid |-> PaidRow(plan[j])]
        /\ balances' = [a \in Accounts |-> balances[a] - OutOf(plan, paid, a)]
  /\ drafts' = [drafts EXCEPT ![d] = [Closed("executed") EXCEPT !.code = drafts[d].code,
                                         !.signedAt = drafts[d].signedAt, !.paidAt = now]]
  /\ attempts' = Mark(d, "SENT")
  /\ UNCHANGED <<now, ticks, changes, dests, creds, freezeReleased>>

\* A number changed since the check: refused, or cancelled if it was waiting.
Superseded(d) ==
  /\ drafts[d].status \in {"checked", "releasing"}
  /\ ~DestinationsHold(drafts[d].plan)
  /\ IF drafts[d].status = "checked"
     THEN drafts' = [drafts EXCEPT ![d].status = "ready"] /\ UNCHANGED attempts
     ELSE /\ drafts' = [drafts EXCEPT ![d] = Closed("cancelled")]
          /\ attempts' = Mark(d, "STOPPED")
  /\ UNCHANGED Ledger

---------------------------------------------------------------------------
(* What else happens on the account.                                         *)

AccountEvent == /\ changes < MaxChanges /\ ticks + changes < MaxEvents
                /\ changes' = changes + 1

ChangeNumber(p) ==
  /\ AccountEvent
  /\ dests' = [dests EXCEPT ![p] = [version |-> @.version + 1, changed |-> now]]
  /\ UNCHANGED <<now, ticks, history, balances, creds, freezeReleased, attempts, drafts>>

AddPasskey ==
  /\ AccountEvent
  /\ creds' = creds \union {now}
  /\ UNCHANGED <<now, ticks, history, balances, dests, freezeReleased, attempts, drafts>>

\* Frozen and unfrozen again: every open draft is cancelled on the way.
Unfreeze ==
  /\ AccountEvent
  /\ Paying = {}
  /\ freezeReleased' = now
  /\ drafts' = [d \in Drafts |-> IF drafts[d].status \in Open
                                 THEN Closed("cancelled") ELSE drafts[d]]
  /\ attempts' = {IF a.status = "OPEN" THEN [a EXCEPT !.status = "STOPPED", !.updated = now]
                  ELSE a : a \in attempts}
  /\ UNCHANGED <<now, ticks, history, balances, dests, creds>>

Tick ==
  /\ ticks + changes < MaxEvents
  /\ ticks' = ticks + 1
  /\ \E s \in Ticks : now' = now + s
  /\ UNCHANGED <<changes, history, balances, dests, creds, freezeReleased, attempts, drafts>>

Next ==
  \/ \E d \in Drafts : \/ Ask(d) \/ StopBeforeAsking(d) \/ Answer(d) \/ ConfirmCode(d)
                       \/ Cancel(d) \/ Submit(d) \/ Release(d) \/ Pay(d) \/ Superseded(d)
  \/ \E p \in Payees : ChangeNumber(p)
  \/ AddPasskey \/ Unfreeze \/ Tick

Spec == Init /\ [][Next]_vars

---------------------------------------------------------------------------
(* Properties.                                                               *)

\* The types of the state.
TypeOK ==
  /\ now \in Nat /\ ticks \in 0 .. MaxEvents /\ changes \in 0 .. MaxChanges
  /\ \A p \in Payees : dests[p].version \in 1 .. 1 + MaxChanges
  /\ \A a \in attempts : /\ a.draft \in Drafts
                         /\ a.status \in {"OPEN", "SENT", "STOPPED"}
                         /\ a.outcome \in ToSet(Scam!Outcomes)
  /\ \A d \in Drafts : /\ drafts[d].status \in {"none", "blocked", "cancelled", "executed"}
                                               \union Open
                       /\ drafts[d].tries \in 0 .. Scam!AnswerTries

\* README: 50,000 dollars a day, and no more than 5 transfers in 10 minutes.
\* What moves on one UTC day never exceeds the daily limit, and no transfer is
\* one too many for the window that ends with it - over every leg of every
\* payment, the delayed ones too.
OnDayOf(i) == {j \in DOMAIN history : StartOfDay(history[j].at) = StartOfDay(history[i].at)}
SentUpTo(i) == {j \in RowsSince(history, history[i].at - VelocityWindow) :
                  j <= i /\ IsTransfer(history[j])}
WithinLimits ==
  \A i \in DOMAIN history : i > Len(Past) =>
    /\ Daily # 0 => SumFunctionOnSet(Moved(history), OnDayOf(i)) <= Daily
    /\ VelocityCount # 0 /\ IsTransfer(history[i]) => Cardinality(SentUpTo(i)) <= VelocityCount

\* Money is debited while no other payment is between its check and its debit.
DebitsAlone == history' # history => \A d, e \in Paying : d = e

\* A signed payment passes the gateway's checks.
Passes(d) == drafts[d].status = "ready" /\ drafts'[d].status \in {"checked", "scheduled"}

FirstToNewNumber(leg) ==
  LET dest == dests[leg.payee]
  IN /\ dest.version > 1 /\ now - dest.changed < Scam!Day
     /\ \A i \in DOMAIN history : history[i].payee # leg.payee \/ history[i].version # dest.version

\* scam.py: a changed number with a first payment to it reaches the line where
\* the payment fails "however calm the answer".  So no such payment passes
\* without its hold served, its phone code given and a wait before it is sent.
ChangedNumberNeverPlain ==
  [][\A d \in Drafts : \A i \in DOMAIN drafts[d].plan :
       Passes(d) /\ IsTransfer(drafts[d].plan[i]) /\ FirstToNewNumber(drafts[d].plan[i])
         => /\ drafts[d].heldUntil \in 1 .. now
            /\ drafts[d].code = "confirmed"
            /\ drafts'[d].status = "scheduled"]_vars

\* Trying again with less after a stopped payment is asked about: no draft
\* passes unasked while a bigger payment to the same payee was stopped in the
\* last day, also when it was stopped after this one was drafted.
SmallerRetryAsked ==
  [][\A d \in Drafts : \A i \in DOMAIN drafts[d].plan :
       Passes(d) /\ (\E a \in attempts :
                       /\ a.draft # d /\ a.payee = drafts[d].plan[i].payee
                       /\ IsTransfer(drafts[d].plan[i]) /\ a.amount > drafts[d].plan[i].amount
                       /\ Scam!Stopped(a) /\ a.updated >= now - Scam!AttemptWindow)
         => drafts[d].purpose]_vars

\* attempts.py: "the outcome only ever rises, and a draft that was asked stays
\* asked", and a finished attempt stays as it ended, whatever the scores of
\* later runs and whoever closes the draft afterwards.
AttemptsOnlyRise ==
  [][\A a \in attempts : \E b \in attempts' :
       /\ b.draft = a.draft /\ b.leg = a.leg
       /\ Scam!Rank(b.outcome) >= Scam!Rank(a.outcome)
       /\ a.asked => b.asked
       /\ a.status # "OPEN" => b = a]_vars

\* What the user was shown is what was served: a paid draft that was ever
\* scored as needing them had its phone code and its wait, even when a later
\* run of the pipeline scored it lower.
ShownIsServed ==
  \A d \in Drafts : \A a \in attempts :
    drafts[d].status = "executed" /\ a.draft = d
      => /\ a.outcome = "HOLD_STEP_UP" => drafts[d].code = "confirmed"
         /\ drafts[d].paidAt >= drafts[d].signedAt + Scam!ReleaseDelay(a.outcome)
=============================================================================
