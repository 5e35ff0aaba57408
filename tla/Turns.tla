--------------------------------- MODULE Turns ---------------------------------
(* One draft from the words to the card (main.py: create_draft, _pipeline,     *)
(* answer_clarification): any plan the parser may return is resolved, asked    *)
(* about, resolved again with the answers, and validated.  Every request runs  *)
(* on a thread of its own; the resolver and the validator each open their own  *)
(* connection, so contacts, balances and answers can change between them.      *)
EXTENDS Resolver, Validator

CONSTANTS Said,          \* what can be asked for, each [clauses, wants, plan, plans]:
                         \* the words, the payments they mean (a set of [clause, kinds,
                         \* who, source, amounts, counts], with the clause that asks for
                         \* each), the plan that says exactly that, and every plan the
                         \* parser may return instead
          Threads, Balance,
          AtFirst,       \* the contacts there are at first
          Elsewhere,     \* what another draft of the user may debit: account |-> cents
          MaxLegs,       \* bound: the legs of a plan
          Stray,         \* answers a client may send that nothing asked for
          MaxEvents      \* bound: debits, contact changes and stray answers

\* A plan has the shape the parser's schema gives it, and what competes for a
\* payment is in cents.
Leg_(leg) ==
  /\ leg = [kind |-> leg.kind, source |-> leg.source, target |-> leg.target, amount |-> leg.amount]
  /\ leg.kind \in {"TRANSFER", "PAY_BILL", "BUY_EQUITY"}
  /\ leg.amount.form \in {"literal", "shares", "symbolic"}
  /\ leg.amount.n \in Int
ASSUME PlansAssumption ==
  \A said \in DOMAIN Said : \A plan \in Said[said].plans :
    /\ plan \in Seq(Range(plan)) /\ Len(plan) <= MaxLegs /\ WellFormed(plan)
    /\ \A i \in DOMAIN plan : Leg_(plan[i])
    /\ \A i \in DOMAIN Competing(plan, Said[said].clauses) :
         Competing(plan, Said[said].clauses)[i] \subseteq Nat
ASSUME TablesAssumption ==
  /\ Balance \in [DOMAIN Accounts -> Nat] /\ AtFirst \subseteq DOMAIN Contacts
  /\ \A a \in DOMAIN Elsewhere : a \in DOMAIN Accounts /\ Elsewhere[a] \in Nat
  /\ \A t \in DOMAIN Equities : Equities[t].price \in Nat \ {0}
  /\ NoRow \notin DOMAIN Contacts \union DOMAIN Billers \union DOMAIN Equities \union DOMAIN Accounts
  /\ MaxLegs \in Nat /\ MaxEvents \in Nat

VARIABLES balances,      \* of the accounts
          live,          \* the contacts that are not removed
          draft,         \* the stored draft
          frozen,        \* the draft is in the freeze set
          given,         \* every answer so far: [field, choice, asked, guess]: whether it
                         \* was offered, for a mention that matched nobody or for one it did
          requests,      \* what each thread holds of its request
          events
vars == <<balances, live, draft, frozen, given, requests, events>>

Fields == {Field(i, what) : i \in 1 .. MaxLegs, what \in {"source_account", "target", "ticker", "amount"}}
NoDraft == [status |-> "none", said |-> 0, plan |-> <<>>, answers |-> [f \in Fields |-> Unanswered],
            question |-> NoQuestion, legs |-> <<>>, current |-> FALSE]
Idle == [at |-> "idle", legs |-> <<>>, froze |-> FALSE, current |-> FALSE]
WordsAtFirst == <<Head(Said[draft.said].clauses)>>      \* mutant: what follows is not kept
Words == Said[draft.said].clauses

Init ==
  /\ balances = Balance /\ live = AtFirst
  /\ draft = NoDraft /\ frozen = FALSE /\ given = {}
  /\ requests = [r \in Threads |-> Idle]
  /\ events = 0

---------------------------------------------------------------------------
(* What is asked back.                                                       *)

\* contact_name(): "this new account" names no one.
NamesNoOne(mention) ==
  LET words == SelectSeq(mention, LAMBDA w : w \notin {"my", "our", "the", "a", "an"})
  IN words = <<>> \/
     /\ Last(words) \in {"account", "accounts", "acct", "number", "numbers", "bank", "person",
                         "people", "someone", "somebody", "them", "him", "her", "it", "recipient",
                         "recipients", "beneficiary", "payee", "payees", "contact", "contacts"}
     /\ Range(Front(words)) \subseteq {"new", "other", "another", "different", "bank", "his", "her",
                                       "their", "that", "this", "these", "those"}

\* Somebody new may be added, or a contact picked after all; words that name no
\* one get no contacts to tap.
Put(question) ==
  IF question.kind = "payee" /\ question.unknown # <<>> /\ NamesNoOne(question.unknown)
  THEN [question EXCEPT !.choices = {}] ELSE question
OffersNewContact(question) ==
  question.kind = "payee" /\ question.unknown # <<>> /\ ~NamesNoOne(question.unknown)

\* The same ledger, contacts and answers since it was resolved: not any more.
Outdated == [r \in Threads |-> [requests[r] EXCEPT !.current = FALSE]]

---------------------------------------------------------------------------
(* Requests.                                                                 *)

Runs(r) == requests' = [Outdated EXCEPT ![r] = [Idle EXCEPT !.at = "resolve"]]

Ask(r) ==
  /\ draft.status = "none"
  /\ \E said \in DOMAIN Said : \E plan \in Said[said].plans :
       draft' = [NoDraft EXCEPT !.status = "new", !.said = said, !.plan = plan]
  /\ Runs(r)
  /\ UNCHANGED <<balances, live, frozen, given, events>>

Answer(r, field, choice) ==
  /\ requests[r].at = "idle"
  /\ draft.status \notin {"none", "new", "blocked"}
  /\ draft' = [draft EXCEPT !.answers[field] = choice, !.current = FALSE]
  /\ LET offered == draft.question.field = field /\ choice \in draft.question.choices
     IN given' = given \union {[field |-> field, choice |-> choice, asked |-> offered,
                                guess |-> offered /\ draft.question.unknown # <<>>]}
  /\ Runs(r)
  /\ UNCHANGED <<balances, live, frozen>>

AnswerOffered(r) ==
  /\ draft.status = "clarify"
  /\ \E choice \in draft.question.choices : Answer(r, draft.question.field, choice)
  /\ UNCHANGED events

AnswerStray(r) ==
  /\ events < MaxEvents /\ events' = events + 1
  /\ \E stray \in Stray : Answer(r, stray.field, stray.choice)

\* resolve() on its connection, then the policy: a question ends the request,
\* and so does a refusal (PolicyEngine; here, any verdict).
Blocks(r) ==
  /\ draft' = [draft EXCEPT !.status = "blocked", !.legs = <<>>, !.question = NoQuestion]
  /\ requests' = [requests EXCEPT ![r] = Idle]

ResolveStep(r) ==
  /\ requests[r].at = "resolve"
  /\ \E sim \in {Resolve(draft.plan, Competing(draft.plan, Words), draft.answers, live, balances)} :
        IF sim.asks # NoQuestion
        THEN /\ draft' = [draft EXCEPT !.status = "clarify", !.legs = <<>>,
                                       !.question = Put(sim.asks)]
             /\ requests' = [requests EXCEPT ![r] = Idle]
        ELSE \/ /\ requests' = [requests EXCEPT ![r] =
                     [at |-> "validate", legs |-> sim.legs, froze |-> FALSE, current |-> TRUE]]
                /\ draft' = [draft EXCEPT !.question = NoQuestion]
             \/ Blocks(r)
  /\ UNCHANGED <<balances, live, frozen, given, events>>

Freezes(r) ==
  Frozen(draft.plan, Words, requests[r].legs, Competing(draft.plan, Words),
         [i \in 1 .. MaxLegs |-> draft.answers[Field(i, "amount")].cents], balances)

ValidateStepForgets(r) ==                        \* mutant: a frozen draft is not put in the set
  /\ requests[r].at = "validate"
  /\ \E froze \in {Freezes(r)} : requests' = [requests EXCEPT ![r].at = "publish", ![r].froze = froze]
  /\ UNCHANGED <<balances, live, draft, frozen, given, events>>
\* validate(): the verdict goes to the freeze set first; the draft hears later.
ValidateStep(r) ==
  /\ requests[r].at = "validate"
  /\ \E froze \in {Freezes(r)} :
       /\ frozen' = (frozen \/ froze)
       /\ requests' = [requests EXCEPT ![r].at = "publish", ![r].froze = froze]
  /\ UNCHANGED <<balances, live, draft, given, events>>

\* The card, or (ScamRules; here, any verdict) a refusal by the scam score.
Publish(r) ==
  /\ requests[r].at = "publish"
  /\ \/ /\ draft' = [draft EXCEPT !.status = IF requests[r].froze THEN "frozen" ELSE "ready",
                                  !.legs = requests[r].legs, !.current = requests[r].current]
        /\ requests' = [requests EXCEPT ![r] = Idle]
     \/ ~requests[r].froze /\ Blocks(r)
  /\ UNCHANGED <<balances, live, frozen, given, events>>

---------------------------------------------------------------------------
(* What changes under it: another draft is paid, a contact added or removed. *)

Changes ==
  /\ draft.status \notin {"none", "blocked"}      \* while the draft is in play
  /\ events < MaxEvents /\ events' = events + 1
  /\ requests' = Outdated
  /\ draft' = [draft EXCEPT !.current = FALSE]
  /\ UNCHANGED <<frozen, given>>

PayElsewhere ==
  /\ Changes
  /\ \E a \in DOMAIN Elsewhere :
       /\ balances[a] >= Elsewhere[a]
       /\ balances' = [balances EXCEPT ![a] = @ - Elsewhere[a]]
  /\ UNCHANGED live

RemoveContact ==
  /\ Changes
  /\ \E p \in live : live' = live \ {p}
  /\ UNCHANGED balances

\* The offered new contact, added and signed for (SignedChanges), while the
\* question that offered it stays as it is.
AddOffered ==
  /\ draft.status = "clarify" /\ OffersNewContact(draft.question)
  /\ Changes
  /\ \E p \in DOMAIN Contacts \ (live \union AtFirst) :    \* a row of its own
       /\ Normalize(Contacts[p].nickname) = Normalize(draft.question.unknown)
       /\ live' = live \union {p}
  /\ UNCHANGED balances

Serve(r) == ResolveStep(r) \/ ValidateStep(r) \/ Publish(r)
Next ==
  \/ \E r \in Threads : Ask(r) \/ AnswerOffered(r) \/ AnswerStray(r) \/ Serve(r)
  \/ PayElsewhere \/ RemoveContact \/ AddOffered

Spec == Init /\ [][Next]_vars

---------------------------------------------------------------------------
Statuses == {"none", "new", "clarify", "blocked", "frozen", "ready"}

\* Every ready card has a leg for each of the plan's, every question about one
\* of the plan's fields, and only a draft in the freeze set is shown frozen.
TypeOK ==
  /\ draft.status \in Statuses /\ frozen \in BOOLEAN /\ events \in 0 .. MaxEvents
  /\ live \subseteq DOMAIN Contacts
  /\ \A a \in DOMAIN Accounts : balances[a] \in Nat
  /\ draft.status = "ready" => Len(draft.legs) = Len(draft.plan) /\ Len(draft.plan) > 0
  /\ draft.status = "frozen" => frozen
  /\ draft.status = "clarify" => draft.question.field \in Fields \union {NoField}
  /\ \A r \in Threads : requests[r].at \in {"idle", "resolve", "validate", "publish"}

\* The payee, the account and the amount of a leg were said of one payment, or
\* the user picked them: a payee for a name that is nobody's among the contacts
\* there were all along, an amount of those said when they compete.
Picked(i, row) ==
  /\ Called(draft.plan[i], AtFirst \intersect live) = {}
  /\ \E g \in given : g.field = TargetField(i, draft.plan[i].kind) /\ g.choice.row = row
Chose(i, cents) == \E g \in given : g.field = Field(i, "amount") /\ g.choice.cents = cents

\* Whole shares only are bought for a figure; an account of the user's own is
\* called by its name, never picked.
Spending(leg, cents) ==
  IF leg.kind = "BUY_EQUITY"
  THEN (cents \div Equities[leg.target].price) * Equities[leg.target].price ELSE cents
Means(want, leg, picked) ==
  /\ leg.kind \in want.kinds
  /\ leg.target \in want.who \/ (picked /\ leg.kind # "OWN_TRANSFER")
  /\ want.source # "any" => Accounts[leg.source] = want.source
\* Of one clause the words do not tell which figure is whose: "pay mom 50 and john
\* 20" also lets mom = 20, john = 50 through, a known limit of the check
\* (validator/__init__.py:760).
SameClause(wants, want) == {other \in wants : other.clause = want.clause}
AmountsBeside(wants, want) == UNION {other.amounts : other \in SameClause(wants, want)}
CountsBeside(wants, want)  == UNION {other.counts : other \in SameClause(wants, want)}
SaidFor(want, i, said, leg) ==
  CASE said.form = "literal"  ->
         \/ /\ said.n \in AmountsBeside(Said[draft.said].wants, want)
            /\ leg.amount = Spending(leg, said.n)
         \/ \E c \in extract_literal_cents[Transcript(Words)] :
              Chose(i, c) /\ leg.amount = Spending(leg, c)
    [] said.form = "shares"   ->
         /\ leg.shares \in CountsBeside(Said[draft.said].wants, want)
         /\ leg.amount = leg.shares * Equities[leg.target].price
    [] said.form = "symbolic" -> TRUE

\* Whatever plan the parser returns and whatever is answered, a card that can be
\* signed pays, for every leg, somebody the words name for a payment, from the
\* account they name for it, an amount said in the clause that asks for it, or
\* what the user picked when asked: no invented figure, and no figure of another
\* clause's payment (validator/__init__.py:326, 420, 484).  Of payments asked for
\* in one clause the figures may be swapped (validator/__init__.py:760), and
\* each leg is judged by itself: that every payment is paid, once, is not said.
SaidTogether ==
  draft.status = "ready" =>
    \A i \in DOMAIN draft.legs : \E want \in Said[draft.said].wants :
      /\ Means(want, draft.legs[i], Picked(i, draft.legs[i].target))
      /\ SaidFor(want, i, draft.plan[i].amount, draft.legs[i])

\* An amount that was said two ways is only ever the one the user answered:
\* "50 no wait 500" (validator/__init__.py:390).  A plan with more legs than
\* payments were asked for can pay both figures, and is outside this.
NeverGuesses ==
  draft.status = "ready" /\ Len(draft.plan) <= Cardinality(Said[draft.said].wants) =>
    \A i \in DOMAIN draft.legs : \A want \in Said[draft.said].wants :
      (/\ Means(want, draft.legs[i], Picked(i, draft.legs[i].target))
       /\ Cardinality(want.amounts) > 1 /\ draft.plan[i].amount.form = "literal") =>
        \E c \in want.amounts : Chose(i, c) /\ draft.legs[i].amount = Spending(draft.legs[i], c)

\* A plan that says what the user said is never frozen, as long as nothing
\* changed between the two readings and nobody answered what was not asked or
\* tapped a contact for a name that is nobody's ("a false freeze on a correct
\* plan is worse", validator/__init__.py).
NoFalseFreeze ==
  draft.status = "frozen" /\ draft.current /\ (\A g \in given : g.asked /\ ~g.guess) =>
    draft.plan # Said[draft.said].plan

\* "Every mention question is answerable in one round-trip" (README.md:479,
\* tests/test_resolver.py:137): a plan that says what the user said is not frozen
\* when every answer was one of those offered.
AnswerableInOneRound ==
  draft.status = "frozen" /\ draft.current /\ (\A g \in given : g.asked) =>
    draft.plan # Said[draft.said].plan

\* The two computations of "half of it" and "whatever is left" agree on the
\* same ledger, for every plan (resolver/__init__.py:417, amounts.py:409).
RecomputeAgrees ==
  \A r \in Threads : requests[r].at = "validate" /\ requests[r].current =>
    RecomputeSymbolic(draft.plan, requests[r].legs, balances)
      = [i \in DOMAIN draft.plan |-> requests[r].legs[i].amount]

\* A ready plan runs to its end on the ledger it was resolved on: no leg fails
\* for want of money after earlier legs debited (resolver/__init__.py:486).
RunsThrough(legs, ledger) ==
  LET paid(leg, a)  == IF a = leg.source THEN leg.amount ELSE 0
      moved(leg, a) == IF leg.kind = "OWN_TRANSFER" /\ a = leg.target THEN leg.amount ELSE 0
      left[i \in 0 .. Len(legs)] ==
        IF i = 0 THEN ledger
        ELSE [a \in DOMAIN ledger |-> left[i - 1][a] - paid(legs[i], a) + moved(legs[i], a)]
  IN \A i \in 1 .. Len(legs) : left[i - 1][legs[i].source] >= legs[i].amount
PlanRuns ==
  draft.status = "ready" /\ draft.current => RunsThrough(draft.legs, balances)

\* What the user tapped is taken: a question never comes back with the recorded
\* answer still among its choices, so tapping always gets on (the code once asked
\* a 0-match question for ever, resolver/__init__.py:560).
NeverAsksAgain ==
  draft.status = "clarify" /\ draft.question.choices # {} /\ (\A r \in Threads : requests[r].at # "resolve") =>
    draft.answers[draft.question.field] \notin draft.question.choices
=============================================================================
