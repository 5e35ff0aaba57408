--------------------------- MODULE SignedChanges ---------------------------
(* What a signature writes besides a payment: a contact's new name or        *)
(* number, a new contact, a recurring arrangement.  The drafts and their     *)
(* pipelines (main.py), the signing nonces and phone codes two requests can  *)
(* race for, the gateway's three other entry points and the executor's       *)
(* transactions under them, and the removal of a contact.                    *)
(*                                                                           *)
(* Payments, the kill switch and the safety holds are PaymentGateway's.      *)
EXTENDS Integers, Sequences, FiniteSets, SequencesExt

CONSTANTS Drafts, Callers,       \* drafts; request threads
          Reported, Overseas,    \* see NewContact
          Contacts,              \* the payees table at first
          Requests,              \* what can be asked for
          Forms,                 \* recurring set-up forms that can be sent
          AiReads,               \* the model's scam reads: a risk word or "unavailable"
          HoldMinutes,           \* settings.new_contact_hold_minutes
          MaxAttempts,           \* stepup.MAX_ATTEMPTS
          UtcOffset, Start, Ticks,
          MaxEvents              \* bound: clock jumps, second runs of a pipeline, declines,
                                 \* removals and changed references together

ASSUME SignedAssumption ==
  /\ IsFiniteSet(Callers) /\ MaxAttempts \in Nat \ {0} /\ MaxEvents \in Nat
  /\ Start \in Nat /\ Ticks \subseteq Nat

VARIABLES now, events, payees, billerVersion, drafts, challenges, nonces,
          executions, mandates, callers,
          proven                 \* history: the payloads whose code was entered
vars == <<now, events, payees, billerVersion, drafts, challenges, nonces, executions,
          mandates, callers, proven>>

New == INSTANCE NewContact
Cal == INSTANCE Schedule

IsRow(row) ==
  /\ row = [nickname |-> row.nickname, phone |-> row.phone, version |-> row.version,
            changed |-> row.changed, added |-> row.added, hold |-> row.hold,
            removed |-> row.removed]
  /\ row.version \in Nat
IsSequence(s) == s \in Seq(Range(s))
\* A request edits a contact's number or name. A form gives a count, an end date, both
\* or neither (form.gives); what it does not give is a number or a date nobody reads.
ASSUME RequestsAssumption ==
  /\ IsSequence(Contacts) /\ \A r \in DOMAIN Contacts : IsRow(Contacts[r])
  /\ \A request \in Requests : request.kind = "contact_edit" =>
       /\ IsSequence(request.edits)
       /\ \A i \in DOMAIN request.edits : request.edits[i].field \in {"phone", "nickname"}
  /\ \A form \in Forms : Cal!IsDate(form.start) /\ Cal!IsDate(form.end) /\ form.count \in Nat
  /\ UtcOffset \in Int

AuthWindow  == 300                     \* MAX_AUTH_WINDOW_S
NonceTtl    == 120
CodeTtl     == 300
MaxOccurrences == 60
MaxSpanDays    == 5 * 366
PerTransaction == 2000000              \* limits.per_transaction, in cents

NoPayload == [kind |-> "none"]
NoDraft   == [status |-> "none", request |-> [kind |-> "none"], answers |-> <<>>,
              payload |-> NoPayload, created |-> 0]
NoCode    == [payload |-> NoPayload, issued |-> 0, attempts |-> 0, confirmed |-> FALSE,
              used |-> FALSE, serial |-> 0]
NoNonce   == [issued |-> 0, used |-> TRUE]
Idle      == [pc |-> "idle"]

\* A draft that ended: the executions row answers for it, and nothing else of
\* it is read again.
Closed(status) == [NoDraft EXCEPT !.status = status]

Init ==
  /\ now = Start /\ events = 0
  /\ payees = Contacts
  /\ billerVersion = 1
  /\ drafts = [d \in Drafts |-> NoDraft]
  /\ challenges = [d \in Drafts |-> NoCode]
  /\ nonces = [d \in Drafts |-> NoNonce]
  /\ executions = [d \in Drafts |-> "none"]
  /\ mandates = {}
  /\ callers = [c \in Callers |-> Idle]
  /\ proven = {}

Event == events < MaxEvents /\ events' = events + 1

Live(r) == r \in DOMAIN payees /\ payees[r].removed = 0
LiveRows == {r \in DOMAIN payees : Live(r)}

---------------------------------------------------------------------------
(* resolver/contacts.py and policy: from a request to what would be signed.  *)

Clarify == [status |-> "clarify", payload |-> NoPayload]
Blocked == [status |-> "blocked", payload |-> NoPayload]
NoRow   == 0

\* _pick(): one contact of that name, or the answered one of those offered -
\* all of them when none has the name.
Pick(name, answer) ==
  LET matching == {r \in LiveRows : payees[r].nickname = name}
  IN IF Cardinality(matching) = 1 THEN CHOOSE r \in matching : TRUE
     ELSE IF answer \in (IF matching = {} THEN LiveRows ELSE matching) THEN answer
     ELSE NoRow

Stored(r, field) == IF field = "phone" THEN payees[r].phone ELSE payees[r].nickname

\* What was said must carry every new value, or the draft is frozen.
Validated(said) == IF said THEN "ready" ELSE "frozen"

\* resolve_contact_edit() and _contact_pipeline(): a question when nothing is to
\* change, for an unknown or ambiguous name, a value that changes nothing, or the
\* same field twice.
EditOutcome(request, answers) ==
  LET asked  == request.edits
      rows   == [i \in DOMAIN asked |-> Pick(asked[i].target, answers[i])]
      Unclear(i) == rows[i] = NoRow \/ Stored(rows[i], asked[i].field) = asked[i].new
      edits  == [i \in DOMAIN asked |->
                   [payee |-> rows[i], field |-> asked[i].field, new |-> asked[i].new,
                    old |-> Stored(rows[i], asked[i].field)]]
      Twice  == \E i, j \in DOMAIN asked : /\ i # j /\ rows[i] = rows[j]
                                           /\ asked[i].field = asked[j].field
  IN IF asked = <<>> \/ (\E i \in DOMAIN asked : Unclear(i)) \/ Twice THEN Clarify
     ELSE IF New!ChangeRefused(edits) THEN Blocked
     ELSE [status  |-> Validated(request.said),
           payload |-> [kind |-> "contact_edit", edits |-> edits, created |-> now]]

\* resolve_contact_add(): a number already saved is a question, not a contact.
AlreadySaved(phone) == \E r \in LiveRows : payees[r].phone = phone

\* _contact_add_pipeline(): the clash and the day's additions count removed
\* contacts too.
AddOutcome(request, ai) ==
  LET facts == [nickname |-> request.nickname, phone |-> request.phone,
                existing |-> ToSet(payees), words |-> request.words,
                recent |-> Cardinality({r \in DOMAIN payees : payees[r].added > now - 86400}),
                pending |-> request.pending, forPayment |-> request.forPayment]
      rung  == New!Decide(facts, ai)
  IN IF AlreadySaved(request.phone) THEN Clarify
     ELSE IF rung = "REFUSE" THEN Blocked
     ELSE [status  |-> Validated(request.said),
           payload |-> [kind |-> "contact_add", nickname |-> request.nickname,
                        phone |-> request.phone, safeguards |-> New!Safeguards(rung),
                        hold |-> IF rung = "HOLD" THEN HoldMinutes ELSE 0, created |-> now]]

\* terms.build(): how many payments the form asks for, 0 if it is wrong.
Occurrences(form) ==
  LET counted == CASE form.gives = {"count"} -> form.count
                   [] form.gives = {"end"} ->
                        Cal!CountUntil(form.frequency, form.start, form.end, MaxOccurrences)
                   [] OTHER -> 0                      \* neither, or one too many
      n       == IF counted \in 1 .. MaxOccurrences THEN counted ELSE 0
      due     == Cal!OccurrenceDates(form.frequency, form.start, n)
  IN IF n # 0 /\ Cal!DayNumber(due[n]) - Cal!DayNumber(due[1]) > MaxSpanDays THEN 0 ELSE n

FormOutcome(form) ==
  LET n   == Occurrences(form)
      due == Cal!OccurrenceDates(form.frequency, form.start, n)
  IN IF \/ form.amount > PerTransaction \/ form.auto = "missing"
        \/ Cal!DueAt(form.start) <= now
        \/ "end" \in form.gives /\ Cal!DayNumber(form.end) < Cal!DayNumber(form.start)
        \/ n = 0
     THEN Clarify
     ELSE [status  |-> "ready",
           payload |-> [kind |-> "mandate", form |-> form, ref |-> billerVersion,
                        count |-> n, until |-> Cal!ReviewUntil(due[n]), created |-> now]]

NeedsCode(payload) ==
  CASE payload.kind = "contact_edit" -> New!ChangeNeedsCode(payload.edits)
    [] payload.kind = "contact_add"  -> "PHONE_CODE" \in payload.safeguards
    [] OTHER -> FALSE

---------------------------------------------------------------------------
(* The pipelines and the phone code (main.py, stepup.py).                    *)

IssueKeeps(d, payload) ==          \* mutant: a confirmation carried to the next payload
  [challenges EXCEPT ![d] = [@ EXCEPT !.payload = payload, !.issued = now,
                                      !.serial = @ + 1]]
\* StepUpStore.issue(): a new code replaces the draft's last one.
Issue(d, payload) ==
  [challenges EXCEPT ![d] = [NoCode EXCEPT !.payload = payload, !.issued = now,
                                           !.serial = challenges[d].serial + 1]]

\* A pipeline's end: the draft, and a code if it needs one.
Arrives(d, dr, outcome) ==
  /\ drafts' = [drafts EXCEPT ![d] = [dr EXCEPT
       !.status = outcome.status, !.payload = outcome.payload]]
  /\ challenges' = IF outcome.status = "ready" /\ NeedsCode(outcome.payload)
                   THEN Issue(d, outcome.payload) ELSE challenges

Runs(d, dr) ==
  \/ dr.request.kind = "contact_edit" /\ Arrives(d, dr, EditOutcome(dr.request, dr.answers))
  \/ /\ dr.request.kind = "contact_add"
     /\ \E ai \in AiReads : Arrives(d, dr, AddOutcome(dr.request, ai))

\* create_draft(), and _recurring_setup_start() for a set-up.
Ask(d) ==
  /\ drafts[d].status = "none"
  /\ \E request \in Requests :
       LET dr == [NoDraft EXCEPT !.request = request, !.created = now, !.status = "clarify",
                    !.answers = IF request.kind = "contact_edit"
                                THEN [i \in DOMAIN request.edits |-> NoRow] ELSE <<>>]
       IN IF request.kind = "setup"
          THEN drafts' = [drafts EXCEPT ![d] = dr] /\ UNCHANGED challenges
          ELSE Runs(d, dr)
  /\ UNCHANGED <<now, events, payees, billerVersion, nonces, executions, mandates, callers, proven>>

\* Draft.is_expired(): never while its payload can still be signed.
Kept(d) ==
  \/ now - drafts[d].created <= AuthWindow
  \/ drafts[d].payload # NoPayload /\ now <= drafts[d].payload.created + AuthWindow

Final == {"declined", "executed"}

\* answer_clarification(): one answer, and the pipeline again in full.
Answer(d) ==
  /\ Event
  /\ drafts[d].status \notin Final \union {"none", "blocked"} /\ Kept(d)
  /\ \/ drafts[d].request.kind = "contact_add" /\ Runs(d, drafts[d])
     \/ /\ drafts[d].request.kind = "contact_edit"
        /\ \E i \in DOMAIN drafts[d].answers, r \in LiveRows :
             Runs(d, [drafts[d] EXCEPT !.answers[i] = r])
  /\ UNCHANGED <<now, payees, billerVersion, nonces, executions, mandates, callers, proven>>

\* recurring_setup(): the terms to sign, or the form again.
SendForm(d) ==
  /\ IF drafts[d].payload = NoPayload THEN UNCHANGED events ELSE Event
  /\ drafts[d].request.kind = "setup" /\ drafts[d].status \notin Final /\ Kept(d)
  /\ \E form \in Forms : Arrives(d, drafts[d], FormOutcome(form))
  /\ UNCHANGED <<now, payees, billerVersion, nonces, executions, mandates, callers, proven>>

\* _close_draft(): the executions row first, then the draft.
Decline(d) ==
  /\ Event
  /\ drafts[d].status # "none" /\ Kept(d)
  /\ executions[d] = "none"
  /\ executions' = [executions EXCEPT ![d] = "DECLINED"]
  /\ drafts' = [drafts EXCEPT ![d] = Closed("declined")]
  /\ nonces' = [nonces EXCEPT ![d] = NoNonce]
  /\ UNCHANGED <<now, payees, billerVersion, challenges, mandates, callers, proven>>

TriesLeftOneMore(code) == code.attempts <= MaxAttempts       \* mutant: off by one
TriesLeft(code) == code.attempts < MaxAttempts

\* confirm_draft() to the end of StepUpStore.confirm()'s checks: the record is
\* held from here on, whatever replaces it in the store.
Guess(c, d) ==
  LET code == challenges[d]
  IN /\ callers[c] = Idle
     /\ drafts[d].payload # NoPayload /\ Kept(d)
     /\ code.serial # 0 /\ ~code.used /\ ~code.confirmed
     /\ now - code.issued <= CodeTtl
     /\ TriesLeft(code)
     /\ \E right \in BOOLEAN :
          callers' = [callers EXCEPT ![c] = [pc |-> "guessed", draft |-> d, right |-> right,
                                             serial |-> code.serial]]
     /\ UNCHANGED <<now, events, payees, billerVersion, drafts, challenges, nonces, executions,
                    mandates, proven>>

\* Its write: attempts is incremented, or confirmed set, on that record. The increment
\* is one step: rec.attempts += 1 is a load, an addition and a store with no call and no
\* jump between them, and the interpreter the server runs (3.11 or later) changes
\* threads only at those. compare_digest() is a call, and lets another caller in.
GuessEnds(c) ==
  LET call == callers[c]
      held == challenges[call.draft].serial = call.serial
  IN /\ call.pc = "guessed"
     /\ challenges' = CASE ~held -> challenges
                        [] held /\ call.right ->
                             [challenges EXCEPT ![call.draft].confirmed = TRUE]
                        [] OTHER -> [challenges EXCEPT ![call.draft].attempts = @ + 1]
     /\ proven' = IF held /\ call.right
                  THEN proven \union {<<call.draft, challenges[call.draft].payload>>} ELSE proven
     /\ callers' = [callers EXCEPT ![c] = Idle]
     /\ UNCHANGED <<now, events, payees, billerVersion, drafts, nonces, executions, mandates>>

---------------------------------------------------------------------------
(* The gateway: submit_contact_change, submit_contact_add, submit_mandate.   *)

\* issue_nonce(): one signing challenge of a draft at a time is enough here;
\* a later one replaces it.
IssueNonce(d) ==
  /\ drafts[d].status = "ready" /\ Kept(d) /\ executions[d] = "none"
  /\ nonces[d].used \/ now > nonces[d].issued + NonceTtl
  /\ drafts[d].payload.kind = "contact_edit"
       => \A i \in DOMAIN drafts[d].payload.edits : Live(drafts[d].payload.edits[i].payee)
  /\ nonces' = [nonces EXCEPT ![d] = [issued |-> now, used |-> FALSE]]
  /\ UNCHANGED <<now, events, payees, billerVersion, drafts, challenges, executions, mandates,
                 callers, proven>>

\* The page sends the payload it shows: expiry, and NonceStore.consume() up to
\* its last check.
Submit(c, d) ==
  LET payload == drafts[d].payload
  IN /\ callers[c] = Idle
     /\ payload # NoPayload /\ now <= payload.created + AuthWindow
     /\ ~nonces[d].used /\ now - nonces[d].issued <= NonceTtl
     /\ callers' = [callers EXCEPT ![c] = [pc |-> "burning", draft |-> d, payload |-> payload]]
     /\ UNCHANGED <<now, events, payees, billerVersion, drafts, challenges, nonces, executions,
                    mandates, proven>>

\* StepUpStore.is_confirmed().
Confirmed(d, payload) ==
  LET code == challenges[d]
  IN /\ code.confirmed /\ ~code.used /\ now - code.issued <= CodeTtl
     /\ code.payload = payload

\* What each entry point asks before its executor call.
Passes(d, payload) ==
  /\ executions[d] = "none"
  /\ Kept(d) /\ drafts[d].status = "ready" /\ drafts[d].payload = payload    \* executable()
  /\ CASE payload.kind = "contact_edit" -> ~New!ChangeRefused(payload.edits)
       [] payload.kind = "contact_add"  -> ~New!AddRefused(payload.phone)
       [] OTHER -> payload.ref = billerVersion /\ Cal!DueAt(payload.form.start) > now
  /\ NeedsCode(payload) => Confirmed(d, payload)

\* _traced_gateway(): after a repeat of what ran, the draft follows the ledger.
Follows(d) ==
  IF executions[d] \in {"none", "DECLINED"} THEN drafts
  ELSE [drafts EXCEPT ![d] = Closed("executed")]

\* consume() marks the nonce used - a second request can be past its check -
\* and the entry point's own checks follow.
Check(c) ==
  LET d == callers[c].draft
  IN /\ callers[c].pc = "burning"
     /\ nonces' = [nonces EXCEPT ![d].used = TRUE]
     /\ drafts' = Follows(d)
     /\ callers' = [callers EXCEPT ![c] = IF Passes(d, callers[c].payload)
                                          THEN [@ EXCEPT !.pc = "cleared"] ELSE Idle]
     /\ UNCHANGED <<now, events, payees, billerVersion, challenges, executions, mandates, proven>>

---------------------------------------------------------------------------
(* The executor: one transaction each, under the claim on executions.        *)

ClaimableAgain(d) == executions[d] # "DECLINED"           \* mutant: INSERT OR REPLACE
Claimable(d) == executions[d] = "none"

\* One edit, conditional on the value the user saw; a new number is a new
\* destination.
EditsRow(row, e) == row.removed = 0 /\ (IF e.field = "phone" THEN row.phone ELSE row.nickname) = e.old
EditedSilently(row, e) ==                                 \* mutant: the number, not its version
  IF e.field = "phone" THEN [row EXCEPT !.phone = e.new] ELSE [row EXCEPT !.nickname = e.new]
Edited(row, e) ==
  IF e.field = "phone"
  THEN [row EXCEPT !.phone = e.new, !.version = @ + 1, !.changed = now]
  ELSE [row EXCEPT !.nickname = e.new]

ApplyEditsKept(edits) ==                                  \* mutant: no rollback to the savepoint
  LET run[i \in 0 .. Len(edits)] ==
        IF i = 0 THEN [rows |-> payees, failed |-> FALSE]
        ELSE LET e == edits[i]
             IN IF run[i - 1].failed \/ ~EditsRow(run[i - 1].rows[e.payee], e)
                THEN [run[i - 1] EXCEPT !.failed = TRUE]
                ELSE [run[i - 1] EXCEPT !.rows[e.payee] = Edited(@, e)]
  IN run[Len(edits)]
\* apply_contact_change(): all edits in order, or the savepoint's rows and FAILED.
ApplyEdits(edits) ==
  LET run[i \in 0 .. Len(edits)] ==
        IF i = 0 THEN [rows |-> payees, failed |-> FALSE]
        ELSE LET e == edits[i]
             IN IF run[i - 1].failed \/ ~EditsRow(run[i - 1].rows[e.payee], e)
                THEN [rows |-> payees, failed |-> TRUE]
                ELSE [run[i - 1] EXCEPT !.rows[e.payee] = Edited(@, e)]
  IN run[Len(edits)]

\* add_contact(): refused if the number was saved since the draft was made.
Taken(phone) == \E r \in LiveRows : payees[r].phone = phone
Added(payload) ==
  [nickname |-> payload.nickname, phone |-> payload.phone, version |-> 1, changed |-> now,
   added |-> now, hold |-> IF payload.hold > 0 THEN now + payload.hold * 60 ELSE 0,
   removed |-> 0]

RefHolds(payload) == payload.ref = billerVersion          \* billers.matches(), under the lock

\* The outcome is recorded with the writes; then the code is spent and the
\* draft follows the ledger.
Records(c, outcome) ==
  LET d == callers[c].draft
  IN /\ executions' = [executions EXCEPT ![d] = outcome]
     /\ challenges' = IF NeedsCode(callers[c].payload)
                      THEN [challenges EXCEPT ![d] = [NoCode EXCEPT !.used = TRUE]]
                      ELSE challenges
     /\ proven' = {p \in proven : p[1] # d}
     /\ drafts' = IF outcome = "FAILED" THEN drafts
                  ELSE [drafts EXCEPT ![d] = Closed("executed")]
Refused(d) ==
  /\ drafts' = Follows(d)
  /\ UNCHANGED <<payees, mandates, executions, challenges, proven>>

Edit(c, payload) ==
  LET run == ApplyEdits(payload.edits)
  IN /\ payees' = run.rows
     /\ Records(c, IF run.failed THEN "FAILED" ELSE "UPDATED")
     /\ UNCHANGED mandates

Add(c, payload) ==
  /\ payees' = IF Taken(payload.phone) THEN payees ELSE Append(payees, Added(payload))
  /\ Records(c, IF Taken(payload.phone) THEN "FAILED" ELSE "ADDED")
  /\ UNCHANGED mandates

\* create_mandate(): a changed reference gives the claim back.
Enroll(c, d, payload) ==
  IF RefHolds(payload)
  THEN /\ mandates' = mandates \union {[draft |-> d, terms |-> payload]}
       /\ Records(c, "CREATED")
       /\ UNCHANGED payees
  ELSE Refused(d)

Execute(c) ==
  LET d == callers[c].draft
      payload == callers[c].payload
  IN /\ callers[c].pc = "cleared"
     /\ IF Claimable(d)
        THEN CASE payload.kind = "contact_edit" -> Edit(c, payload)
               [] payload.kind = "contact_add"  -> Add(c, payload)
               [] OTHER -> Enroll(c, d, payload)
        ELSE Refused(d)
     /\ callers' = [callers EXCEPT ![c] = Idle]
     /\ UNCHANGED <<now, events, billerVersion, nonces>>

---------------------------------------------------------------------------
(* What else happens.                                                        *)

\* contacts_remove(): the row the card shows by name and number, if only one
\* looks like it.
RemoveContact(r) ==
  /\ Event
  /\ Live(r)
  /\ ~\E q \in LiveRows : q # r /\ payees[q].nickname = payees[r].nickname
                                /\ payees[q].phone = payees[r].phone
  /\ payees' = [payees EXCEPT ![r].removed = now]
  /\ UNCHANGED <<now, billerVersion, drafts, challenges, nonces, executions, mandates,
                 callers, proven>>

ChangeBiller ==
  /\ Event
  /\ billerVersion' = billerVersion + 1
  /\ UNCHANGED <<now, payees, drafts, challenges, nonces, executions, mandates, callers,
                 proven>>

Tick ==
  /\ Event
  /\ \E s \in Ticks : now' = now + s
  /\ UNCHANGED <<payees, billerVersion, drafts, challenges, nonces, executions, mandates, callers,
                 proven>>

Next ==
  \/ \E d \in Drafts : Ask(d) \/ Answer(d) \/ SendForm(d) \/ Decline(d) \/ IssueNonce(d)
  \/ \E c \in Callers : \/ \E d \in Drafts : Guess(c, d) \/ Submit(c, d)
                        \/ GuessEnds(c) \/ Check(c) \/ Execute(c)
  \/ \E r \in DOMAIN payees : RemoveContact(r)
  \/ ChangeBiller \/ Tick

Spec == Init /\ [][Next]_vars

---------------------------------------------------------------------------
(* Properties.                                                               *)

\* The types of the state.
TypeOK ==
  /\ now \in Nat /\ events \in 0 .. MaxEvents /\ billerVersion \in Nat \ {0}
  /\ executions \in [Drafts -> {"none", "UPDATED", "ADDED", "CREATED", "FAILED", "DECLINED"}]
  /\ \A d \in Drafts :
       /\ drafts[d].status \in {"none", "clarify", "ready", "frozen", "blocked"} \union Final
       /\ drafts[d].status = "ready" => drafts[d].payload # NoPayload
       /\ challenges[d].serial \in Nat /\ challenges[d].attempts \in Nat
       /\ challenges[d].confirmed \in BOOLEAN /\ challenges[d].used \in BOOLEAN
  /\ \A c \in Callers :
       /\ callers[c].pc \in {"idle", "guessed", "burning", "cleared"}
       /\ callers[c].pc # "idle" => callers[c].draft \in Drafts

\* stepup.py: "the third burns the challenge, so six digits cannot be walked".
\* The count is checked before the code is compared and written after, so each
\* further request in flight is worth one more guess at the same code, and no
\* interleaving is worth more.
GuessesBounded ==
  \A d \in Drafts : challenges[d].attempts <= MaxAttempts + Cardinality(Callers) - 1

\* One draft, one outcome: two requests with one nonce, a decline racing a
\* signature or a pipeline run again over a finished draft never give a second.
OneOutcome ==
  [][\A d \in Drafts : executions[d] # "none" =>
       /\ executions'[d] = executions[d]
       /\ \A m \in mandates' \ mandates : m.draft # d]_vars

\* "All edits or none": an UPDATED change replaced exactly the values the user
\* signed over and every new value is stored; a FAILED one wrote nothing, as its
\* answer says.
Shows(row, e) == IF e.field = "phone" THEN row.phone ELSE row.nickname
AllOrNone ==
  [][\A c \in Callers :
       /\ callers[c].pc = "cleared" /\ callers'[c] = Idle
       /\ callers[c].payload.kind = "contact_edit"
       => LET d == callers[c].draft
             edits == callers[c].payload.edits
         IN /\ executions[d] = "none" /\ executions'[d] = "UPDATED" =>
                 \A i \in DOMAIN edits : /\ Shows(payees[edits[i].payee], edits[i]) = edits[i].old
                                         /\ Shows(payees'[edits[i].payee], edits[i]) = edits[i].new
            /\ executions'[d] = "FAILED" => payees' = payees]_vars

\* A removed contact is out of every later change: its row keeps the name, the
\* number and the removal it had, whatever was drafted or signed before.
RemovedStaysPut ==
  \A r \in DOMAIN payees : payees[r].removed # 0 => payees'[r] = payees[r]

\* A payment is bound to a destination version, so a version must name one
\* number: a row's number changes exactly when its version rises, by one, and
\* the time of the change is recorded.
NumberHasVersion ==
  \A r \in DOMAIN payees :
    /\ (payees'[r].phone # payees[r].phone) <=> (payees'[r].version = payees[r].version + 1)
    /\ payees'[r].version # payees[r].version => payees'[r].changed = now

\* "Not a second name for an existing one": a new contact never shares its
\* number with another live contact at the moment it is added.
AddedNumberIsNew ==
  \A r \in DOMAIN payees' \ DOMAIN payees :
    \A q \in LiveRows : payees[q].phone # payees'[r].phone

\* What the rows of payees promise the payments bound to them holds over every
\* order of edits, additions and removals, though each was drafted and signed
\* over rows that another has changed since (executor.py:250-344).
ContactsSound == [][RemovedStaysPut /\ NumberHasVersion /\ AddedNumberIsNew]_vars

\* Where money goes changes only after the code sent for exactly that payload
\* was entered, though the draft may be resolved again, its code replaced and
\* the answer arrive late in between.
CodeForThisPayload ==
  [][\A c \in Callers :
       /\ callers[c].pc = "cleared" /\ callers'[c] = Idle /\ payees' # payees
       /\ NeedsCode(callers[c].payload)
       => <<callers[c].draft, callers[c].payload>> \in proven]_vars

\* "The day of the month they start on; shorter months use their last day": a
\* monthly arrangement falls due once in every month from its first to its
\* last, never drifting, a weekly one every seven days, each payment's review
\* window is over before the next is due, and none is after the end it was
\* given.
DatesFollowStart ==
  \A m \in mandates :
    LET form == m.terms.form
        due  == Cal!OccurrenceDates(form.frequency, form.start, m.terms.count)
    IN /\ \A i \in 1 .. m.terms.count :
            /\ Cal!IsDate(due[i])
            /\ form.frequency = "MONTHLY" =>
                 /\ due[i].month = form.start.month + i - 1
                 /\ due[i].day # form.start.day =>
                      due[i].day = Cal!DaysIn(due[i].month) /\ due[i].day < form.start.day
            /\ form.frequency = "WEEKLY" =>
                 Cal!DayNumber(due[i]) = Cal!DayNumber(form.start) + 7 * (i - 1)
            /\ i > 1 => Cal!ReviewUntil(due[i - 1]) < Cal!DueAt(due[i])
            /\ form.gives = {"end"} => Cal!DayNumber(due[i]) <= Cal!DayNumber(form.end)
       /\ Cal!ReviewUntil(due[m.terms.count]) = m.terms.until
=============================================================================
