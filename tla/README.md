# Verification of DCTA

DCTA is a banking assistant: a sentence ("send Mum 300 dollars") becomes a draft,
the draft is resolved, cleared by policy, scored for scams and validated, shown as a
card, signed by the user, and executed on a ledger. A language model proposes; the
code decides, and nothing executes without a signature over exactly what the card
showed (or, for recurring bills, a mandate signed once).

This directory holds TLA+ modules of that code, the TLC runs that check them, and
TLAPS proofs. Paths below are relative to the repository. `PROJECT.json` lists the
components, the runs, a mutant of the code for every checked property, the source
lines of every definition, the hazards and the disagreements found.

    tlc -config GatewaySign.cfg MCPaymentGateway.tla     # one run
    tlapm ClearanceProofs.tla                            # one proof module

## 1. The system

### Components

| Component | State | Operations | What makes it correct |
|---|---|---|---|
| Executor and ledger (`backend/gateway/executor.py`, `backend/data/db.py`) | SQLite: `executions`, `accounts`, `transaction_history`, destinations | `execute`, `close`, `create_mandate`, contact changes; each one transaction whose first write is a claim on a primary key | a draft settles once; outcome, history and balances agree; no overdraft; the payee paid is the payee signed |
| Gateway (`backend/gateway/gateway.py`) | none of its own; reads every store | `submit`, `release_due`, `submit_mandate`, `run_mandate_occurrence`, contact submissions | every check is made on what is executed, in an order that leaves no gap |
| Draft store (`backend/drafts.py`) | in memory: status, payload, scam floor, five-minute expiry | `put`, `get`, `executable`, `set_status`, `open_ids` | only the payload last offered can be signed |
| Pipeline (`backend/main.py`) | the conversation of one draft | `create_draft`, `answer_clarification`, `answer_purpose`, `_pipeline` | safeguards exist before the card can be signed |
| Nonces and phone codes (`backend/gateway/nonce.py`, `stepup.py`) | in memory, lock-free | issue, consume, revoke; issue, confirm, `is_confirmed` | single use; bound to a draft, and to a payload |
| Safety tables (`backend/policy/safety.py`, `attempts.py`) | SQLite: `safety_holds`, `delayed_payments`, `kill_switch`, `scam_attempts` | create, cancel and release a hold; schedule, claim and settle a delayed payment; engage, release | a hold is for the payload it was made for; a delayed payment runs or is cancelled |
| Kill switch (`backend/main.py`) | one row, one process-wide lock | freeze (engage, revoke nonces, cancel what is open), unfreeze | once confirmed, no payment executes |
| Recurring bills (`backend/recurring/`) | SQLite: mandates, occurrences | enrol, `run_due`, approve, pause, resume, cancel | no double payment, no missed answer, automatic only after the agreed approvals |
| Audit log (`backend/audit/`) | SQLite: hash-chained rows | append, verify, tamper demo | a changed row is found, an unchanged log verifies |
| Policy engine (`backend/policy/engine.py`) | none; reads history and limits | a ruling over a plan | limits exact at their boundaries; the strictest ruling wins |
| Scam scoring (`backend/policy/scam.py`, `attempts.py`) | the attempt rows; the draft's floor | facts, points, questions, thresholds | what was shown is served; what happened since is met when the draft is signed |
| Resolver (`backend/resolver/__init__.py`) | none; one connection per run | mentions to rows, questions, simulated balances | asks instead of guessing; every question can be answered; the plan runs to its end |
| Validator (`backend/validator/`) | the freeze set | the words read again against the resolved plan | the amount shown is the amount said; a correct plan is not frozen |
| Recurring terms and dates (`parse.py`, `terms.py`, `schedule.py`) | none | validation, due dates and windows | windows never overlap; month ends and leap days |
| Contacts and destinations (`backend/data/destinations.py`, `billers.py`, `policy/new_contact.py`) | SQLite | add, change, remove; cooling-off for new payees | a signature is for the destination it named |
| Web page (`frontend/*.js`) | the page's view of one conversation | requests, polling, signing | a late answer never replaces a newer one |
| Agent, speech, WebAuthn, narration, seed data, red-team driver, deployment | | | not modelled: see section 7 |

### How they interact

Request threads (FastAPI's thread pool), a *release loop* that wakes every two
seconds, and a *recurring loop* that wakes every ten share the stores. In-memory
stores have no lock that spans two operations and vanish on a restart; SQLite rows
survive, and each connection's write transaction is serialised by SQLite. The one
process-wide lock, `_kill_switch_lock`, serialises freezing and unfreezing, and is
not taken by payments. `run_due` can also be called from a cron endpoint or script,
so two workers may process one occurrence.

A payment's route: `_pipeline` records an attempt, writes the draft's floor, makes
the hold, issues a phone code, and only then stores the payload as `ready`; the page
waits for the hold, fetches a nonce, signs, submits; `Gateway.submit` burns the
nonce, reads what the ledger already says, asks the draft store whether *this*
payload is executable, then the kill switch, the destination, a fresh scam score, the
hold and phone code, policy, and either schedules a delayed run or calls the
executor. Decline, cancel, freeze and unfreeze settle the same draft through
`executor.close`, which competes for the same claim.

### What is hard here

Every one of those reads can be stale by the time it is used; a second answer can
re-make the card while the first is being signed; a delayed payment outlives the
draft it came from; a freeze walks a list of drafts while payments run; the server
may restart anywhere; a statement on the ledger may raise. `PROJECT.json` lists each
such hazard at its line, with the properties that would catch it.

## 2. The modules

    ExecuteOnce  <-- implemented by --  MockExecutor      (transactions, leg by leg)
         ^                                   ^ its transactions are single steps in
         |-------------- implemented by --  PaymentGateway    (one user's payments)
         |-------------- implemented by --  RecurringMandate  (one bill)

    PolicyEngine, ScamRules    <-- used by --  Clearance      (payments with real verdicts)
    NewContact, Schedule       <-- used by --  SignedChanges  (contacts, arrangements)
    Amounts <- Reading <- Resolver, Validator  <-- used by --  Turns  (words to card)
                     what the words allow:  Utterances  <-- about --
    AuditLog                                             (appended to by everything)

`MC*.tla` instantiate them for TLC; `*Proofs.tla` hold the theorems. A definition
whose comment starts with *mutant* is a plausible mistake in the definition that
follows it; no action uses it.

**`ExecuteOnce`** says what the `executions` table promises and nothing about how: a
draft settles at most once, with one outcome, and its money moves in that step or never.

**`MockExecutor`** is `executor.py` with its transactions open: the claim
(`ClaimWins`, `ClaimLoses`), the destination asked again under the claim's lock, the
legs one by one with their balance checks, the abort at the first failing leg, the
commit, the rollback of a crash, and SQLite's lock timeout. `tx` is the one open
write transaction with its private copy of the balances; `calls` is what each thread
is executing or closing. A destination change is a write transaction of its own.

**`PaymentGateway`** is one user's payments from draft to debit, with one action per
access to a shared store, so that threads interleave between any two of them.
`requests[r]` is a thread's local state (`at` names where in the handler it is);
`drafts`, `nonces`, `codes` and `lock` are lost on `Restart`, the ledger's variables
are not. A payload is the number of the pipeline run that built it, since all any
check asks of a payload is whether it is the same one. What the resolver, policy, the
validator and the scam rules say is any verdict of the constants `Verdicts` and
`Scores`, drawn again at every point where the code asks again; `Clearance` and
`Turns` compute them. `told`, `shown`, `served` and `freezeTold` record what users
were told and have done; no action reads them. The executor's transaction is one step
here, which `MockExecutor` justifies. `SerialAnswers` says whether the page waits for
an answer before it sends the next one for the same draft (it does; nothing in the
server enforces it).

Every look of `issue_nonce`, of `submit` and of `_close_draft` at a store is a step of
its own, and so are a nonce's test and its burning, the floor's read and write, and the
record of an attempt. What is still merged, and why it hides no order that matters:

* `StopRest`, `RowFollows` and `Respond` are the rows that follow a settled draft: its
  hold, its delayed payment, its attempt and its status. Each is an UPDATE that asks for
  its own row only, and what may run is decided by the executions row before them.
* `CheckScore` reads the floor and scores; the score may come out as anything, whenever
  the facts are read. `CheckSafeguards` is the hold, the code and the policy verdict,
  which may be any as well. A code entered, or a hold ended, between the two looks is
  missed; either way both were served for the payload that goes on.
* `CheckFreeze` is the switch and the destination, which `MockExecutor` asks again under
  the claim. `AskNonce` begins with the freeze set. The refusals of `issue_nonce` for
  a destination, a reported number or a fresh score are nonces nobody asks for.
* `IssueCode` reads the floor the same request wrote a few steps before. `EngageFreeze`
  is the lock and the row it guards; `CancelHolds` is the end of a freeze, with its
  answer and the lock's release: nothing another thread reads changes in between.

`_stop_for_never_rule` ends a draft as a BLOCK does and has no action of its own. An
exception in the walk over the open drafts skips that draft (`CloseFails`), elsewhere
it ends the request (`Raises`); `Faults` names the operations that may meet one.

**`PolicyEngine`** is every rule of `policy/engine.py` and the walk over the plan that
adds each leg to the history the next one is judged by. **`ScamRules`** is
`policy/scam.py`: each fact with its points and cap, the word score, the questions and
which are unanswered, the two thresholds. A text is the set of phrase classes the
regular expressions find in it, the urgent phrases in order, and whether it shouts.
Both are operators over their arguments, in cents and seconds.

**`Clearance`** runs both over a changing account: drafting, the answers, the phone
code, the gateway's re-check, the wait, the debit and what becomes of the attempt
rows, with changed numbers, new passkeys, an unfreeze and the clock between any two
steps. It is coarse where `PaymentGateway` is fine (a pipeline run is one step, the
gateway's checks another), and exact where that one is open. Between the gateway's
check and the executor's transaction other drafts may act: `SerialPayments` forbids
it, which the code does not (section 4). A draft that ended keeps nothing but its
status, since the code reads nothing else of it.

**`RecurringMandate`** is one bill: the mandate row, its occurrences with their
execution keys, any number of `run_due` workers, request threads for enrolment,
approval and freezing, and the user's pause, resume and cancel. Every transaction is
one step. A worker keeps the list and the time it began with, as the code does, so
both may be stale; `ReadOccurrence`, `CheckBiller`, `CheckSwitchAndRules` and
`PayUnattended` are the reads of `run_mandate_occurrence` and the executor's last
check under the lock. Dates are instants 1, 2, 3, ...: occurrence `o` is due at
`2o - 1` and can be approved until `2o`, which is all the code asks of its windows
(`Schedule` is the calendar that yields them). A signature passes through
`PassGateway`, which stands for every check that `PaymentGateway` details.

**`NewContact`** is `policy/new_contact.py` and `policy/contacts.py`: the score of a
contact to be added, the model's reading of the words capped and merged with the
rules, what it takes to change a number. **`Schedule`** is `recurring/schedule.py`:
a date is a month count and a day; monthly dates clamp to the month's length and never
drift. **`SignedChanges`** is everything a signature writes besides a payment: contact
edits and additions and recurring arrangements, from the request over the resolver's
questions, the form and its checks, the phone code and the nonce, to the executor's
three transactions, with removals, a changed biller and the clock between. `consume`
and `confirm` are two steps each, the test and the write (`Submit`/`Check`,
`Guess`/`GuessEnds`), as in the lock-free code. The write `rec.attempts += 1` is one
step: the server runs on CPython 3.11 or later (README.md:57;
`deploy/render/Dockerfile` takes 3.12), which changes threads at calls and backward
jumps only, and there is none between the load and the store of that line.
`compare_digest`, between the test and the write, is a call. On an interpreter without
that guarantee an increment could be lost, and the bound of `GuessesBounded` with it. `proven` records the payloads whose
code was entered; nothing reads it.

**`Amounts`** is `validator/amounts.py`: a word list becomes figures, share counts and
symbolic words, spoken numbers included. **`Reading`** is how both sides pair clauses
with payments and which amounts compete for one. **`Resolver`** finds accounts,
payees, billers and shares for the mentions, asks at most one question, and works
symbolic amounts out over the balances that earlier legs leave; **`Validator`** reads
the words again and decides the freeze. **`Turns`** composes them: an utterance with
*any* plan of a set is resolved, asked about, answered, resolved again and validated
by two threads, each reading the draft, the contacts and the balances when it gets to
them. An utterance's `wants` is what the words mean, written by hand for each of the
fifteen, against which a signable card is judged.

**`Utterances`** says what the words alone allow, with no thread and no time: a
*reading* of a leg is what it might come to on some ledger, with some of the contacts
left and some answer given. Its three conditions on the constants (`OnlyWhatIsSaid`,
`SaidTwiceCompetes`, `RightPlanIsSaid`) compare every reading of every plan of an
utterance with its `wants`. `MCTurns` has TLC evaluate them for its fifteen, and the
proofs take them as hypotheses (section 5).

**`AuditLog`** is `append` as its two statements, edits made directly in the database
(the tamper demo's `_raw_update_payload`), `verify_entries` and `simulate_tamper`.
SHA-256 is taken to be injective.

## 3. The runs

| Run | Question | Bounds | Distinct states |
|---|---|---|---|
| `MockExecutor` | Do the ledger's rows agree whatever interleaves? `OutcomeTellsHistory`, `MoneyConserved`, `PaysSignedDestination`, `SettlesOnce`, `CallsReturn` | 2 workers, 3 drafts, 3 accounts | about 92 000 |
| `GatewaySign` | Was what ran offered, and did it serve the safeguards of its own card? `ExecutesOnlyOffered`, `SafeguardsServed` | 1 draft, 2 requests, 2 payloads, 2 nonces | about 1 800 000 |
| `GatewayFaults` | Do answers stay true, and does a freeze let in no new payment, through restarts, expiry and exceptions anywhere? `NothingSentIsTrue`, `ReleaseSentIsTrue`, `FreezeDrains` | 1 draft, 2 requests, 1 payload | about 2 000 000 |
| `GatewayLive` | Do delayed payments settle, does a freeze finish, and does it stop money? `ScheduledSettles`, `FreezeFinishes`, `FreezeStopsMoney` | as above, with a second caller of `release_due`; exceptions in freezes and unfreezes; no cancelling | about 160 000 |
| `Clearance` | With computed verdicts: do limits hold, is what was shown served, does a fact that arises late still count? `WithinLimits`, `ShownIsServed`, `ChangedNumberNeverPlain`, `SmallerRetryAsked`, `AttemptsOnlyRise` | 2 drafts, 3 plans, 2 texts, 3 replies, 1 account event, 2 events with the clock's jumps | about 175 000 |
| `SignedChanges` | One outcome per signature, all edits or none, a code for this payload only? `OneOutcome`, `AllOrNone`, `ContactsSound`, `CodeForThisPayload`, `GuessesBounded`, `DatesFollowStart` | 2 drafts, 2 threads, 7 requests, 6 forms, 1 guess per code, 1 event | about 1 450 000 |
| `Turns` | Whatever plan the parser returns, does a signable card say what was said, clause by clause? `SaidTogether`, `NeverGuesses`, `NoFalseFreeze`, `RecomputeAgrees`, `PlanRuns`, `NeverAsksAgain`, `TypeOK` | 15 utterances with their plans, 2 threads, 1 event | about 902 000 |
| `RecurringWorkers` | Do executions, occurrences and counters agree with two workers and the user racing? `TypeOK`, `BooksAgree`, `AutoNeedsApprovals`, `NotPaidStaysTrue`, `SettlesOnce`, `FreezeDrains` | 2 occurrences, 1 supervised approval, 5 instants | about 1 800 000 |
| `RecurringLive` | Does every occurrence end, through a failed run or a restart? `EveryOccurrenceEnds` | same, one fault, delayed releases | about 430 000 |
| `AuditThreads` | Is an edit found, wherever threads append? `EditsAreFound`, `BreakStays` | 2 writers, 3 rows, 2 edits | about 1 800 |
| `LimitsRaced`, `OfferedFrozen` | one statement of the documentation each, refuted (section 4) | | |

`NeverOverdrawn`, `DemoBreaksThere` and the `TypeOK` of every module with variables
are proved for every value of the constants, and most have no run of their own.

**Why the bounds are enough.** Drafts interact only through balances (`MockExecutor`
has three drafts competing for two accounts, one of several legs whose second needs
the money its first brought in), through the history that limits and scores are
computed from (`Clearance` has two), and through the kill switch, which treats them
one by one; so the gateway runs have one draft and two requests besides the release
loop: every race named in the hazards is between two threads about one draft, and the
third is there to change what the two have read. Two payloads make "an older payload
of the same draft" possible, and two nonces let the draft be signed twice:
`GatewaySign` reaches a draft scheduled, answered again and signed again. The fault
runs keep one payload, because restarts and expiry multiply states and the payload
check is `GatewaySign`'s subject. `GatewayFaults` lets any operation's statements raise,
and drafts expire or be lost, before, in and after a freeze. `GatewayLive` has raises
where the kill-switch lock is held, each request of a freeze or an unfreeze being one
that can fail, inside the walk over the open drafts and outside it; it has none in the
release loop, where `ScheduledSettles` does not survive one (section 4).

`Clearance` starts a minute before midnight UTC with one payee paid twice before and
one added almost a day ago, so that a jump of 90 seconds ends the phone code's hold
(30 s), the wait after signing (60 s), the day and the payee's first day; its limits
are set so that two of the three plans together are one cent over the daily limit, that
one transfer makes the difference at the velocity count, and one plan has two legs
around a bill payment. One account event and
one jump are the least that let a fact arise between scoring, signing and release.

`SignedChanges` starts in December 2023 with a form whose monthly dates run over
30-day months and 29 February 2024, and others that are refused or cut short; two
edits of one change of which the second may fail; two additions that want one number;
one event is the least that moves a row under a signature. One guess per code makes
the race for the last guess reachable with two threads. `Turns` has the utterances the
validator's comments argue about ("50 no wait 500", "actually make it 500", the same
for shares, "half of it", "whatever is left", two payments in one clause with a figure each and with one figure too many, a share count, a room number among
the figures, a name that is nobody's), and for each one every plan of one or two legs
over its payees, sources and figures, in most of them with a figure never said; two
threads are a repeated answer racing the first.

In `RecurringMandate` one supervised approval (the program's usual number is 3; the
model has it as a constant) and two occurrences are the least for which an automatic
payment follows an approval; five instants reach past the last window. The audit log
needs three rows for an edited row with a neighbour on either side. Bounds are named:
`MaxPayload`, `Nonces`, `MaxTime`, `MaxFaults`, `MaxRows`, `MaxEdits`, `MaxChanges`,
`MaxEvents`, `MaxAttempts`, `MaxLegs`. All runs but `MockExecutor` switch the deadlock check off
because a bounded program stops: with no user left to act and every bound reached
there is nothing to do.

**Fairness.** `MockExecutor`: a call that has begun takes its steps (threads are
scheduled, and SQLite's busy timeout ends a wait for the lock); crashes and new calls
are not fair. `PaymentGateway`: a begun request goes on, the release loop claims what
is due (`_release_loop` wakes every two seconds and survives exceptions), and the
clock reaches `release_at`; exceptions are not fair, and a request they end has returned. `RecurringMandate`: the server's loop ticks (every ten
seconds), its runs go on, time passes, begun requests return. Nothing is ever assumed
of the user, of another worker, of a fault, or of strong fairness. `Clearance`,
`SignedChanges`, `Turns` and `AuditLog` are checked for safety only and state none.

## 4. Where the code and its own words disagree

Two have a run whose single property is the statement, and a counterexample.

* **`LimitsRaced`**: `submit()` judges the daily and velocity limits on the history it
  reads, and the executor's transaction does not ask again; two payments checked before
  either is debited exceed the limit together. `WithinLimits` holds when payments take
  turns (run `Clearance`), and README.md:43 states it without that condition.
* **`OfferedFrozen`**: for a name that matches nobody the code offers the contacts to
  tap; tapping one resolves, and then the validator freezes the draft, because the
  words do not carry that contact's name. README.md:479 says every mention question is
  answerable in one round-trip.

Five more are stated as definitions, each not true of the code as modelled, with no
run of its own:

* `PaymentGateway.ScheduledSettles` when a statement of a release raises: `claim_due_releases`
  commits RUNNING before anything runs; an exception in the loop leaves the row RUNNING,
  and only PENDING rows are claimed. (`GatewayLive` has exceptions in freezes and
  unfreezes only.)
* `PaymentGateway.WaitingCanBeCancelled`: a delayed payment whose draft has expired
  from memory (five minutes) or was lost in a restart cannot be cancelled: 404, and it
  will run.
* `PaymentGateway.FrozenNeverPaid`: the validator's freeze set is read when a nonce is
  issued and not by the gateway; a nonce from before the freeze signs a later card.
* `RecurringMandate.FreezeStopsMoney`: an automatic payment past its kill-switch check
  debits after the freeze was confirmed; the check under the lock does not read the
  switch. What holds instead is `FreezeDrains`: only threads that had passed the check
  debit, each once, and no thread joins them.
* `AuditLog.UneditedVerifies`: two threads that append after the same row make
  `verify_chain` report tampering where nobody tampered. It is proved for appends that
  come one at a time (`UneditedTheorem`), so nothing else can make it false.

Met while modelling, and stated here only.

*Payments.* Two answers sent at once can lower the scam floor (hence `SerialAnswers`);
a freeze that could not cancel one draft (`cancel_failed`) is answered with "the frozen
gateway refuses it anyway" (main.py:2039-2041), which is not so of a payment of it that
had passed the switch, nor of one in flight whose draft a restart or the sweep took off
the list: they can still debit, as `FreezeDrains` allows and bounds; a card
offered while an unfreeze walks its list stays signable; a second score at release
time that differs reports CANCELLED for the release; a FAILED execution marks its
attempt SENT; a draft whose memory entry expired is scored without its floor; a
delayed draft answered and signed again runs its first payload only.

*Recurring bills.* An automatic payment uses the time its run began with, so it may
debit shortly after its due day; an occurrence that fell due while its mandate was
paused is paid if the user resumes before the next tick.

*Contacts and codes.* Guesses in flight together each get compared before any is
counted, which is one guess more per extra request (`GuessesBounded` states the exact
bound); answering a ready draft again issues a new code with all its tries; a contact
edit, unlike an addition, does not ask whether the number is already another
contact's; the name-clash and many-new-contacts facts are judged when the contact is
drafted and not when it is signed.

*Words to card.* In one clause the figures of two payments may be swapped: "pay mom 50
and john 20" lets a plan with mom = 20 and john = 50 through, the KNOWN LIMIT of
validator/__init__.py:760-764, which `SaidTogether` therefore leaves open (the run has
that utterance, and the swapped card is reached). A spoken figure that runs into a share count is read short ("a
hundred and fifty dbs shares" gives 50); a plan that uses a symbolic amount, or the
wrong operation, where a figure was said passes the validator (README.md:589-594 says
so); a plan with two legs for "50 no wait 500", or with one payment repeated, passes
the checks, which are per leg; a payment the parser drops makes its clause a follow-up
of the other; "whatever is left to savings" may be taken from the joint account; a
question stays as it was asked, so a "Mom" tapped after a second Mom was added pays the
one named when the answer is read; a frozen draft that is answered again can show a
ready card, which stays unsignable because the freeze set is asked for its nonce.

## 5. The proofs

`tlapm` checks these for every value of the constants, under the named assumptions of
the modules, which TLC evaluates in every run: `LedgerAssumption` and `RowsAssumption`
(`MockExecutor`), `BoundAssumption` and `GatewayAssumption` (`PaymentGateway`),
`MandateAssumption`, `LogAssumption`, `ClearanceAssumption` and `LimitsAssumption`
(`Clearance` and its rules), `SignedAssumption` and `RequestsAssumption`
(`SignedChanges`), `PlansAssumption` and `TablesAssumption` (`Turns`). They say that
tables and thread pools are finite, that counts and times are natural numbers, and
what fields a row, a leg or a request has. Some theorems have a hypothesis of their
own, named where it is used and argued for below: `Orderly`, `SerialAppends` and the
three conditions of `Utterances`.

**`SumTheorems`** is about sums over finite sets, as the community modules fold them:
that such a sum exists and does not depend on the order, what it is with one element
more, that it grows with its terms and its set. The library's induction theorems take
a property as a parameter, which the provers cannot instantiate; here a property is
*the set of the elements that have it*, and `Induction` and `SetInduction` speak of
that set, so what a recursive function computes can be proved as well: `ApplyEdits`,
`Verdicts`, the weekly dates and the money sums are all handled that way.

**`MockExecutorProofs`.** One inductive invariant,
`IInv == TypeOK /\ OutcomeTellsHistory /\ TxSound`. `OutcomeTellsHistory` is not
inductive alone: that a commit records "all legs" or "a proper prefix" depends on
where the open transaction stands. `TxSound` says that: while a transaction is open
its draft is unsettled in the committed rows, its owner is inside the call that
opened it, no leg ran under a superseded destination, and an abort left a leg unrun.
From it follow `TypeTheorem`, `OutcomeTheorem`, `OverdraftTheorem` (a second,
independent induction on the balances), `DestinationTheorem` (an action property) and
`SettlesOnceTheorem`: initial states map to initial states of `ExecuteOnce`, a commit
maps to `Settle`, every other step to a stutter. `MoneyTheorem` adds `Kept`: the sum
over the accounts and what the history says was paid out make up the opening balances,
in the committed rows and in the open transaction's copy; each leg moves as much into
one sum as out of the other.

**`PaymentGatewayProofs`.** `Typed == TypeOK /\ Placed`: every stage of a handler at
which a draft is in hand has one, without which no step's types can be shown.
`SafeInv == Typed /\ Books /\ Claims /\ NothingSentIsTrue`: `Books` ties debits to
the recorded outcome, and `Claims` says that a thread between its claim and its
answer holds a closed outcome. `NothingSentIsTrue` is about an answer given three
steps after the claim it rests on, which is what `Claims` carries across. From it
`TypeTheorem`, `NothingSentTheorem`, and `SettlesOnceTheorem`, the refinement of
`ExecuteOnce`. The proofs have one case per action; the lemmas `WorkSafe`, `BeginSafe`
and `EnvironmentSafe` follow the three groups of the next-state relation.

Its second part starts from there. `OffersInv` says of every payload that is
signable, about to run, scheduled or run that it was offered: a ready draft's payload
was shown, a submit past `CheckDraft` and the release loop carry one that was, and a
thread that is about to report a release SENT has the ledger's word that it ran what
was scheduled. It gives `OfferedTheorem` and `ReleaseTheorem` for all constants.
`ServesInv` adds what the scam floor knows: the pipeline's payload is the newest and
not offered yet, no two pipelines work on one draft, the floor is at least every
score offered so far, a submit's fresh score is at least the offered one, and what is
scheduled or ran was served. `SafeguardsTheorem` follows under `Orderly`: the page
waits for an answer before it sends the next (`SerialAnswers`; `frontend/app.js`
disables a card's buttons on the first), and no draft expires. Both halves are needed:
a second pipeline can write a lower floor after a higher one, and a draft dropped from
memory between a submit's checks has no floor.

Its last part proves `FreezeDrains` (`DrainTheorem`), of every behaviour: restarts,
expiry, closes that fail, exceptions, second answers and blocks included. A thread is
`InFlight` from its look at the switch to its debit, and the release loop from its
last look at a row (`run row`). `FlightMoves` says how a step changes who is in
flight, one case per action; `FlightShrinks`, that while the switch is on none comes in;
`FlightLands`, that a debit is one payment's, of a thread that leaves the flight with it.
Only `Typed` is needed of the state. What the theorem does not say is that the payments
in flight are stopped: that a freeze which reports no failure stops them
(`FreezeStopsMoney`) is true where the draft of each is on the list the freeze walks,
and false after a restart, an expiry or a second answer (section 4), so it is left to
`GatewayLive`.

**`RecurringMandateProofs`.** `IInv == TypeOK /\ Placed /\ BooksAgree /\ Enrolled /\
OfferedFallen /\ SupervisedInOrder /\ AutoNeedsApprovals /\ \A t : Knows(t)`. What
threads remember matters most: `Knows` says that an occurrence someone has signed, or
was offered, is SCHEDULED no longer, and that what comes before a member of a worker's
list is on the list or has fallen due, however old the list is. `SupervisedInOrder` is
why an automatic payment has its approvals behind it: occurrences are asked for in the
order of their dates. Every step changes the books in one of five ways (`Effect`:
not at all, enrolment, a payment, a close, rows that move), so each invariant of the
books is shown against five cases, not thirty actions. From it `TypeTheorem`,
`BooksTheorem` (the counters are cardinalities, by `FiniteSetTheorems`),
`ApprovalsTheorem`, `NotPaidTheorem` (an action property) and `SettlesTheorem`, the
refinement of `ExecuteOnce`. `DrainsTheorem` (`FreezeDrains`, an action property) looks at
where each step puts its thread (`Puts`): into `PastSwitch` only through a check that
the engaged switch fails, and out of it with every debit (`OneDrains`).

**`AuditLogProofs`.** `IInv == TypeOK /\ HashesHold`: whatever a row says now, its
hash is that of what was appended. An edited row therefore breaks at its own number
whatever its neighbours do (`EditsTheorem`), an append reads one hash and disturbs no
earlier row (`BreakTheorem`), and the tamper demo's edit is one such
(`DemoTheorem`). `UneditedTheorem` is the other direction, a log that nobody edited
verifies, from `Chained`: every row links to the one before, and an append in flight
holds the last row's hash. A second append in flight would not, so its hypothesis is
`SerialAppends`. The least broken row is taken with the well-foundedness of the
natural numbers.

**`SignedChangesProofs`.** `IInv == Shapes /\ GuessesAllowed /\ CodesProven`.
`GuessesAllowed` counts the callers that have read a code and not yet written their
guess: attempts and callers in flight together stay within the bound, which is why
`GuessesBounded` (`GuessesTheorem`) has `Cardinality(Callers) - 1` in it. `CodesProven`
ties a confirmed challenge, and a caller that has passed the gateway's checks, to the
payload whose code was entered; it gives `CodeTheorem`.
`OneOutcomeTheorem` needs only that every write goes through a free executions row.
A second invariant, `Rest`, carries the shapes the first does not need and gives
`TypeTheorem`.

A third, `Resolved`, says what a payload on its way may hold, whoever carries it: a
change of contacts names rows of the table, each field of a row once, with a new value
that differs from the old (`EditsSound`); an arrangement has the terms its form asked
for. The rows it will be applied to may have moved since. `EditsApplied`, by induction
on the edits, says what the run of them leaves: either every row as it was, or every
edited field as asked, with a number's version one higher, and every other field and
row untouched (`Leaves`); `TableStep` carries that to each step of the system. From
them `ContactsTheorem` and `AllOrNoneTheorem`. For `DatesTheorem` the calendar itself is
opened: month lengths and leap years, that the day after a month's last is the next
month's first (`NextMonth`), that seven days on is seven days on across a month's end
(`WeekLater`), that a clamped monthly date is never in the wrong month and two
payments are never less than a week apart (`WeekBetween`), and how many fall before
an end date (`CountedUntil`).

**`ClearanceProofs`.** `IInv` is the counters and the shape of the rows, and for each
draft: the rows of an open draft are open, of the transfers of its plan, and no higher
than its floor; a draft that was signed had what its floor asks for arranged; a paid
one was served it. Of `ScamRules` this part uses only that a decision is one of the six
outcomes and their order. `RiseTheorem` follows because `Record` takes an outcome at
least as strict as the floor; `ShownIsServed` (`ServedTheorem`) is not inductive
without the middle part, since what a card once showed survives in the rows and the
floor only.

The second part opens the scam rules. A fact that a leg shows is among the facts of
its plan (`FactsHas`), and a group counts for at least its strongest fact
(`ScoreAtLeast`), so the score of a plan that shows a stopped larger attempt, or a
number changed since it was last paid, is known from below whatever else is said.
`Shown` carries what the drafts and rows hold of the plans, and `PassedAs` says what a
draft that passes the gateway was scored as and asked. `SmallerRetryTheorem` and
`ChangedNumberTheorem` follow.

The third part opens the policy engine. `AllowedFits`: a plan that it lets pass fits
what the rows leave of the daily limit and of the velocity window, all its legs
counted, though the engine judges them one after the other (`DecidesExists`, an
induction on the legs). `FitsLater`: it still does when the clock has moved on.
`GrownLimited`: paying a plan that fits, or only its first legs, keeps every day and
every window within the limits. `LimitInv` joins them: between its check and its debit
a payment fits as long as no other was debited meanwhile. `LimitsTheorem` is about every
behaviour of any number of payments at once, and says where the blame lies: a limit is
exceeded only in a behaviour in which money was debited while another payment stood
between its check and its debit (`DebitsAlone` names the steps that do not). Payments
that wait, are refused or are cancelled meanwhile do no harm. That no lock of the code
excludes such a debit is the finding `LimitsRaced`; the run `Clearance`, with
`SerialPayments`, has none.

**`TurnsProofs`.** What the words of a sentence come to is never opened: clauses,
mentions and figures may be any, and a plan any that the parser's schema lets through,
of any length. The work is in what a plan resolves to. `ResolveIs`, by induction on
the legs: either the resolver stops at a question that is `Fresh` (about a field of the
plan, with what was answered for that field not among its choices), or every leg was
paid out of the simulated ledger the legs before it left. `InOrder` puts those ledgers
in a row, and two lemmas walk along it: the plan runs on the real ledger
(`InOrderRuns`), and the validator, which recomputes the symbolic amounts from the
resolved legs in its own way, meets the same ledger at every leg and so the same
amounts (`InOrderRecomputes`). The inductive invariant `TInv` carries this across the
threads. `Again` is what the resolver would say now, and `Resolves(legs)` that it would
ask nothing and say these legs; whatever is marked current, in a thread between the
resolver and the card or on a signable card, `Resolves`. A debit elsewhere, a contact
added or removed and a new answer end that for every holder at once, a second answer
overtaking the first included. From it `TypeTheorem`, `RunsTheorem` (`PlanRuns`),
`RecomputeTheorem` and `AsksTheorem` (`NeverAsksAgain`).

Its second part carries what was *said*. The resolver and the validator read the draft
at two moments, between which contacts go, answers arrive and a second request runs,
and the card is judged later still, by the answers and contacts there are then. The
inductive invariant `VInv` keeps what each reading found in a form that outlives it:
`Came(legs)`, that every payee is one the mention calls among some contacts or was
picked for a name that is nobody's, and every source what the leg names;
`Checked(legs)`, that payee, account and figure passed the words, and that of competing
figures it is one the user gave. Both only mention answers given so far and contacts
that were there at first and are left, of which the first only grow and the second
only go (`LaterIs`), so no step takes them back. A thread past the resolver has the
first (`TakenCame`), one past the validator without a freeze both (`PassedChecked`),
and so has a signable card. `CardTheorem` states that of any words, plans and answers,
without a condition: every leg of a card that can be signed has a payee, an account and
a figure that passed the checks on the words. `ReadingsAre` then finds each such payment among the
readings of `Utterances`, and what that module asks of the words gives
`SaidTheorem` (`SaidTogether`, from `OnlyWhatIsSaid`) and `GuessTheorem`
(`NeverGuesses`, from `SaidTwiceCompetes`). `FreezeTheorem` (`NoFalseFreeze`, from
`RightPlanIsSaid`) goes the other way: what is frozen and current is what the resolver
would say now, and `PassesLeg` takes such a payment of the right plan through every
check; `Tapped` is there for it, which says that an answer offered for a mention that
is somebody's is somebody the mention calls.

These hypotheses are about word tables and meanings, so they are finite facts of each
utterance, which TLC evaluates; the theorems say that threads, answers, contacts and
ledgers add nothing to them.

**Only model-checked.** Liveness under fairness (`CallsReturn`, `ScheduledSettles`,
`FreezeFinishes`, `EveryOccurrenceEnds`) is out of the prover's reach, as is anything
that needs ENABLED. That the words of the fifteen utterances meet the conditions of
`Utterances` is evaluated by TLC: what a sequence of words comes to is computed by
recursion over it, and each sentence is a case of its own. Every safety property that a
passing run checks is a theorem as well, but `PaymentGateway.FreezeStopsMoney`, which
needs the faults left out that `GatewayLive` leaves out.

## 6. The plan

Done: the ledger, the gateway, recurring bills, the audit log, policy and scam rules
with `Clearance`, contacts and set-up with `SignedChanges`, words to card with `Turns`;
and a theorem for every safety property of them that a run checks but one (section 5). Left: the page's requests (polling, late answers), and the
chained set-up of a contact and its payment.

## 7. What is not modelled, and why

* The language-model providers, prompts, parsing of text into plans, speech
  recognition: text in and a plan out, from services outside the program. `Turns`
  takes any plan of a set; the stub parser is text processing.
* WebAuthn: a valid signature is the precondition of `Submit`; cryptography is not
  TLC's subject. The client may submit any payload ever built for a draft.
* Narration, answers, spelling, display, traces, seed data: wording, read-only views
  and constants.
* The red-team driver and deployment scripts: they exercise the program.
* Of the validator: the second model that audits a plan, the hash that binds the
  transcript, and the checks on asset classes that are recorded and stop nothing. Of
  the resolver: display texts.
* Amounts in `PaymentGateway` and `RecurringMandate`: there a debit is a count;
  balances and legs are `MockExecutor`'s and `Clearance`'s.
* The kill switch in `SignedChanges` (it stops every signature before the steps
  modelled there) and the purpose question in `Turns` (`Clearance`'s subject).
* The unfreeze code's rate limit, notifications, and the per-user scoping of rows (one
  user per instance).
* Of the numbers that are no amounts (`Amounts.NotMoney`): half of a written account
  number (the expression can take the first five digits of a longer one that a money
  word follows), and what two overlapping matches leave.
* An exception between two legs of the executor's transaction has no action of its own
  in `MockExecutor`: it rolls back as a `Crash` does, and the call ends.
* Hash collisions, and edits of the audit table that rewrite the hashes as well.
