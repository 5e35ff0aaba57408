--------------------------- MODULE PaymentGateway ---------------------------
(***************************************************************************)
(* One user's payments, from draft to debit: the draft pipeline, signing   *)
(* nonces, phone codes, safety holds, the gateway's checks, the delayed    *)
(* release of risky payments, decline and cancel, and the kill switch      *)
(* (backend/main.py, drafts.py, gateway/, policy/safety.py, attempts.py).  *)
(*                                                                         *)
(* Request threads and the release loop interleave between every two       *)
(* accesses to the stores they share.  The in-memory stores are lost on a  *)
(* restart; the ledger's tables are not.  The executor's transactions are  *)
(* single steps here: MockExecutor shows that they may be.                 *)
(*                                                                         *)
(* Data is abstracted to what the checks tell apart.  A payload is the     *)
(* number of the pipeline run that built it.  What the scam rules, policy, *)
(* the resolver and the validator say of it is any of their verdicts.      *)
(***************************************************************************)
EXTENDS Integers, FiniteSets

CONSTANTS Drafts,      \* draft ids
          Requests,    \* request threads
          Loop,        \* the release loop's thread
          Nonces,      \* nonces the store will ever issue (a bound)
          MaxPayload,  \* payloads one draft may be given (a bound)
          Scores,      \* outcomes the scam rules may reach
          Verdicts,    \* what resolving may end in: "resolved", "frozen",
                       \* "clarify" or "blocked"
          Ops,         \* operations the request threads perform in this run
          Faults,      \* what may go wrong: "restart", "expiry", and the
                       \* operations whose statements may raise
          SerialAnswers  \* does the page wait for one answer before the next?

ScamRank == [ALLOW |-> 0, WARN |-> 1, DELAY |-> 2, HOLD |-> 3,
             HOLD_STEP_UP |-> 4, BLOCK |-> 5]
Outcomes == {"ALLOW", "WARN", "DELAY", "HOLD", "HOLD_STEP_UP", "BLOCK"}

ASSUME BoundAssumption == MaxPayload \in Nat

ASSUME GatewayAssumption ==
    /\ Loop \notin Requests
    /\ "free" \notin Requests \cup {Loop}
    /\ Drafts \cap {"no draft", "unissued", "used"} = {}
    /\ "no nonce" \notin Nonces
    /\ Scores \subseteq Outcomes
    /\ Verdicts \subseteq {"resolved", "frozen", "clarify", "blocked"}
    /\ SerialAnswers \in BOOLEAN

Threads  == Requests \cup {Loop}
Payloads == 1 .. MaxPayload
NoDraft  == "no draft"
NoNonce  == "no nonce"

VARIABLES
    \* in memory
    drafts,      \* the draft store: status, current payload (0: none), scam floor
    built,       \* built[d]: pipeline runs begun for draft d, which number payloads
    nonces,      \* nonces[n]: the draft it is bound to, "unissued" or "used"
    codes,       \* the step-up store: the payload a phone code is for, its state
    lock,        \* _kill_switch_lock: its holder, or "free"
    requests,    \* what every thread is doing
    \* on the ledger
    executions,  \* executions[d]: the recorded outcome, and the payload that ran
    debits,      \* transaction_history: how often draft d was debited
    holds,       \* the safety hold on a draft
    releases,    \* delayed_payments: the scheduled run of a signed payment
    frozen,      \* kill_switch: engaged and not released
    attempts,    \* scam_attempts: how the draft's attempt ended
    freezeSet,   \* drafts the validator froze (kept in the audit chain)
    \* what users saw and did, kept to state properties with
    told,        \* told[d]: what decline and cancel answered about draft d
    shown,       \* shown[d][p]: the safeguard payload p was made signable with
    served,      \* <<"hold" or "code", d, p>>: safeguards the user has been through
    freezeTold   \* the freeze in force has been confirmed to the user

memory == <<drafts, built, nonces, codes, lock, requests>>
ledger == <<executions, debits, holds, releases, frozen, attempts,
            freezeSet>>
seen   == <<told, shown, served, freezeTold>>
vars   == <<memory, ledger, seen>>

CLOSED_OUTCOMES == {"DECLINED", "CANCELLED"}
Ran             == {"EXECUTED", "FAILED"}
FINAL_STATUSES  == {"executed", "declined", "cancelled"}
Absent          == {"new", "gone"}               \* not in the draft store

StatusOf(outcome) == IF outcome = "DECLINED" THEN "declined" ELSE "cancelled"

\* backend/policy/scam.py
stricter(a, b)          == IF ScamRank[a] > ScamRank[b] THEN a ELSE b
needs_hold(outcome)     == outcome \in {"HOLD", "HOLD_STEP_UP"}
release_delay(outcome)  == outcome \in {"DELAY", "HOLD", "HOLD_STEP_UP"}
rose_past_drafted(drafted, fresh) ==
    /\ needs_hold(fresh) \/ fresh = "BLOCK"
    /\ ScamRank[fresh] > ScamRank[drafted]

Idle == [op |-> "idle", at |-> "idle", draft |-> NoDraft, payload |-> 0,
         nonce |-> NoNonce, score |-> "ALLOW", todo |-> {}, failed |-> FALSE]

Init ==
    /\ drafts = [d \in Drafts |-> [status |-> "new", payload |-> 0, floor |-> "ALLOW"]]
    /\ built  = [d \in Drafts |-> 0]
    /\ nonces = [n \in Nonces |-> "unissued"]
    /\ codes  = [d \in Drafts |-> [payload |-> 0, state |-> "none"]]
    /\ lock   = "free"
    /\ requests   = [r \in Threads |-> Idle]
    /\ executions = [d \in Drafts |-> [outcome |-> "NONE", payload |-> 0]]
    /\ debits     = [d \in Drafts |-> 0]
    /\ holds      = [d \in Drafts |-> [status |-> "NONE", payload |-> 0, over |-> FALSE]]
    /\ releases   = [d \in Drafts |-> [status |-> "NONE", payload |-> 0, due |-> FALSE]]
    /\ frozen     = FALSE
    /\ attempts   = [d \in Drafts |-> "NONE"]
    /\ freezeSet  = {}
    /\ told       = [d \in Drafts |-> {}]
    /\ shown      = [d \in Drafts |-> [p \in Payloads |-> "never"]]
    /\ served     = {}
    /\ freezeTold = FALSE

-----------------------------------------------------------------------------
\* Control of one thread.
Begins(r, op, at, d, p) ==
    /\ op \in Ops
    /\ requests[r] = Idle
    /\ requests' = [requests EXCEPT ![r] = [Idle EXCEPT !.op = op, !.at = at,
                                                       !.draft = d, !.payload = p]]
At(r, at)     == requests[r].at = at
GoTo(r, at)   == requests' = [requests EXCEPT ![r].at = at]
Return(r)     == requests' = [requests EXCEPT ![r] = Idle]

\* Rows of the ledger and entries of the stores.
SetStatus(d, s) ==                    \* an entry the store dropped stays dropped
    drafts' = IF drafts[d].status \in Absent THEN drafts
              ELSE [drafts EXCEPT ![d].status = s]
Offers(d, p, s) ==                       \* the payload and the status together
    drafts' = IF drafts[d].status \in Absent THEN drafts
              ELSE [drafts EXCEPT ![d].payload = p, ![d].status = s]
Mark(d, s) ==                                                \* attempts.mark
    attempts' = IF attempts[d] = "OPEN" THEN [attempts EXCEPT ![d] = s] ELSE attempts
HoldMoves(d, to) ==                          \* cancel_hold, release_hold
    holds' = IF holds[d].status = "PENDING" THEN [holds EXCEPT ![d].status = to] ELSE holds
ReleaseMoves(d, from, to) ==                 \* set_release_status
    releases' = IF releases[d].status = from THEN [releases EXCEPT ![d].status = to]
                ELSE releases

is_confirmed(d, p) == codes[d] = [payload |-> p, state |-> "confirmed"]

\* The executor's transactions (see MockExecutor): one claim per draft.
Claimable(d) == executions[d].outcome = "NONE"
Executes(d, p, outcome) ==
    /\ executions' = [executions EXCEPT ![d] = [outcome |-> outcome, payload |-> p]]
    /\ debits' = IF outcome = "EXECUTED" THEN [debits EXCEPT ![d] = @ + 1] ELSE debits
Closes(d, p, outcome) ==
    executions' = [executions EXCEPT ![d] = [outcome |-> outcome, payload |-> p]]

-----------------------------------------------------------------------------
\* The pipeline: POST /api/draft, then /clarify and /purpose, each of which
\* resolves the draft again.
OthersPipelining(r, d) ==
    \E q \in Threads \ {r} : requests[q].op = "pipeline" /\ requests[q].draft = d

BeginPipeline(r, d) ==
    /\ drafts[d].status \notin FINAL_STATUSES \cup {"blocked", "gone"}
    /\ SerialAnswers => ~OthersPipelining(r, d)
    /\ built[d] < MaxPayload
    /\ built' = [built EXCEPT ![d] = @ + 1]
    /\ Begins(r, "pipeline", "resolve", d, built'[d])
    /\ drafts' = [drafts EXCEPT ![d].status = IF @ = "new" THEN "clarify" ELSE @]
    /\ UNCHANGED <<nonces, codes, lock, ledger, seen>>

\* A question about the request, or a policy block: no payload is kept.
ResolveStops(r) ==
    /\ At(r, "resolve")
    /\ \E s \in Verdicts \cap {"clarify", "blocked"} : Offers(requests[r].draft, 0, s)
    /\ Return(r)
    /\ UNCHANGED <<built, nonces, codes, lock, ledger, seen>>

\* Resolved, cleared by policy, and passed by the validator ...
Resolve(r) ==
    /\ At(r, "resolve")
    /\ "resolved" \in Verdicts
    /\ GoTo(r, "score")
    /\ UNCHANGED <<drafts, built, nonces, codes, lock, ledger, seen>>

\* ... or frozen by it: validate() records the draft in the freeze set.
Freezes(r) ==
    /\ At(r, "resolve")
    /\ "frozen" \in Verdicts
    /\ freezeSet' = freezeSet \cup {requests[r].draft}
    /\ GoTo(r, "freeze draft")
    /\ UNCHANGED <<drafts, built, nonces, codes, lock, executions, debits, holds,
                   releases, frozen, attempts, seen>>

OfferFrozen(r) ==
    /\ At(r, "freeze draft")
    /\ Offers(requests[r].draft, requests[r].payload, "frozen")
    /\ Return(r)
    /\ UNCHANGED <<built, nonces, codes, lock, ledger, seen>>

\* The scam score, and the draft's floor read to combine it with ...
Score(r) ==
    /\ At(r, "score")
    /\ \E s \in Scores :
          requests' = [requests EXCEPT ![r].at = "floor",
                         ![r].score = stricter(drafts[requests[r].draft].floor, s)]
    /\ UNCHANGED <<drafts, built, nonces, codes, lock, ledger, seen>>

\* ... and written back to the draft, which the request still holds if the store
\* has dropped it ...
WriteFloor(r) ==
    /\ At(r, "floor")
    /\ drafts' = [drafts EXCEPT ![requests[r].draft].floor = requests[r].score]
    /\ GoTo(r, "record")
    /\ UNCHANGED <<built, nonces, codes, lock, ledger, seen>>

\* ... attempts.record reopens the attempt, or stops it ...
RecordAttempt(r) ==
    /\ At(r, "record")
    /\ attempts' = [attempts EXCEPT ![requests[r].draft] =
                       IF requests[r].score = "BLOCK" THEN "STOPPED" ELSE "OPEN"]
    /\ GoTo(r, "weigh")
    /\ UNCHANGED <<drafts, built, nonces, codes, lock, executions, debits, holds, releases,
                   frozen, freezeSet, seen>>

\* ... and a BLOCK, or a question about the purpose, leaves nothing to sign.
StopOrAsk(r) ==
    /\ At(r, "weigh")
    /\ LET d == requests[r].draft  outcome == requests[r].score IN
       \/ /\ outcome # "BLOCK"
          /\ GoTo(r, IF needs_hold(outcome) THEN "hold" ELSE "code")
          /\ UNCHANGED drafts
       \/ /\ outcome = "BLOCK" \/ "clarify" \in Verdicts
          /\ Offers(d, 0, IF outcome = "BLOCK" THEN "blocked" ELSE "clarify")
          /\ Return(r)
    /\ UNCHANGED <<built, nonces, codes, lock, ledger, seen>>

\* safety.create_hold: another payload on the draft starts the wait again.
CreateHold(r) ==
    /\ At(r, "hold")
    /\ LET d == requests[r].draft  p == requests[r].payload IN
       holds' = IF holds[d].status = "NONE"
                   \/ (holds[d].status = "PENDING" /\ holds[d].payload # p)
                THEN [holds EXCEPT ![d] = [status |-> "PENDING", payload |-> p,
                                           over |-> FALSE]]
                ELSE holds
    /\ GoTo(r, "code")
    /\ UNCHANGED <<drafts, built, nonces, codes, lock, executions, debits, releases,
                   frozen, attempts, freezeSet, seen>>

\* The phone code: for a floor of HOLD_STEP_UP, or for a policy escalation.
IssueCode(r) ==
    /\ At(r, "code")
    /\ LET d == requests[r].draft IN
       \/ codes' = [codes EXCEPT ![d] = [payload |-> requests[r].payload, state |-> "sent"]]
       \/ /\ drafts[d].floor # "HOLD_STEP_UP"
          /\ UNCHANGED codes
    /\ GoTo(r, "offer")
    /\ UNCHANGED <<drafts, built, nonces, lock, ledger, seen>>

\* Only now does the draft take the payload and become signable.
OfferReady(r) ==
    /\ At(r, "offer")
    /\ LET d == requests[r].draft  p == requests[r].payload IN
       /\ Offers(d, p, "ready")
       /\ shown' = [shown EXCEPT ![d][p] = requests[r].score]
    /\ Return(r)
    /\ UNCHANGED <<built, nonces, codes, lock, ledger, told, served, freezeTold>>

-----------------------------------------------------------------------------
\* Signing challenges and phone codes.

Unissued == {n \in Nonces : nonces[n] = "unissued"}
Asking   == {r \in Requests : requests[r].op = "nonce"}

\* GET /api/auth/nonce: a draft the validator froze gets none ...
AskNonce(r, d) ==
    /\ Begins(r, "nonce", "nonce prior", d, 0)
    /\ Cardinality(Asking) < Cardinality(Unissued)          \* the bound on nonces
    /\ d \notin freezeSet
    /\ UNCHANGED <<drafts, built, nonces, codes, lock, ledger, seen>>

\* ... then one look after the other, and a refusal at the first that says no: at
\* the ledger, the draft, the kill switch and the hold, which is for this payload.
HoldAllows(d) ==
    holds[d].status # "NONE" =>
        /\ holds[d].status # "CANCELLED"
        /\ drafts[d].payload # 0 => holds[d].payload = drafts[d].payload
        /\ holds[d].status = "PENDING" => holds[d].over

Looks == {"nonce prior", "nonce draft", "nonce switch", "nonce hold"}
Passes(at, d) == CASE at = "nonce prior"  -> Claimable(d)
                   [] at = "nonce draft"  -> drafts[d].status = "ready"
                   [] at = "nonce switch" -> ~frozen
                   [] at = "nonce hold"   -> HoldAllows(d)
NextLook(at)  == CASE at = "nonce prior"  -> "nonce draft"
                   [] at = "nonce draft"  -> "nonce switch"
                   [] at = "nonce switch" -> "nonce hold"
                   [] at = "nonce hold"   -> "issue"

CheckNonce(r) ==
    /\ requests[r].at \in Looks
    /\ IF Passes(requests[r].at, requests[r].draft)
       THEN GoTo(r, NextLook(requests[r].at)) ELSE Return(r)
    /\ UNCHANGED <<drafts, built, nonces, codes, lock, ledger, seen>>

IssueNonce(r) ==
    /\ At(r, "issue")
    /\ \E n \in Unissued : nonces' = [nonces EXCEPT ![n] = requests[r].draft]
    /\ Return(r)
    /\ UNCHANGED <<drafts, built, codes, lock, ledger, seen>>

NonceExpires(n) ==                              \* TTL: from now on it is refused
    /\ nonces[n] \in Drafts
    /\ nonces' = [nonces EXCEPT ![n] = "used"]
    /\ UNCHANGED <<drafts, built, codes, lock, requests, ledger, seen>>

\* POST /api/drafts/{id}/confirm with the right code.
ConfirmCode(d) ==
    /\ "confirm" \in Ops
    /\ drafts[d].status \notin Absent /\ drafts[d].payload # 0
    /\ codes[d].state = "sent"
    /\ codes' = [codes EXCEPT ![d].state = "confirmed"]
    /\ served' = served \cup {<<"code", d, codes[d].payload>>}
    /\ UNCHANGED <<drafts, built, nonces, lock, requests, ledger, told, shown, freezeTold>>

CodeExpires(d) ==
    /\ codes[d].state \in {"sent", "confirmed"}
    /\ codes' = [codes EXCEPT ![d].state = "expired"]
    /\ UNCHANGED <<drafts, built, nonces, lock, requests, ledger, seen>>

-----------------------------------------------------------------------------
\* Gateway.submit, from the nonce on.  Anyone may send any payload of a draft.
\* NonceStore.consume tests the nonce ...
Submit(r, d, p, n) ==
    /\ "submit" \in Ops
    /\ requests[r] = Idle
    /\ nonces[n] = d
    /\ p <= built[d]
    /\ requests' = [requests EXCEPT ![r] = [Idle EXCEPT !.op = "submit", !.at = "burn",
                                              !.draft = d, !.payload = p, !.nonce = n]]
    /\ UNCHANGED <<drafts, built, nonces, codes, lock, ledger, seen>>

\* ... and then burns it, whatever comes next.
BurnNonce(r) ==
    /\ At(r, "burn")
    /\ nonces' = [nonces EXCEPT ![requests[r].nonce] = "used"]
    /\ requests' = [requests EXCEPT ![r].at = "prior", ![r].nonce = NoNonce]
    /\ UNCHANGED <<drafts, built, codes, lock, ledger, seen>>

\* 3b. What the ledger says of the draft already.
CheckPrior(r) ==
    /\ At(r, "prior")
    /\ LET outcome == executions[requests[r].draft].outcome IN
       CASE outcome = "NONE"             -> GoTo(r, "draft")
         [] outcome \in CLOSED_OUTCOMES  -> Return(r)
         [] outcome \in Ran              -> GoTo(r, "duplicate")
    /\ UNCHANGED <<drafts, built, nonces, codes, lock, ledger, seen>>

executableById(d, p) == drafts[d].status = "ready"  \* mutant: any payload of the draft

\* 3c. DraftStore.executable: a ready draft, and exactly its payload.
executable(d, p) == drafts[d].status = "ready" /\ drafts[d].payload = p

CheckDraft(r) ==
    /\ At(r, "draft")
    /\ IF executable(requests[r].draft, requests[r].payload)
       THEN GoTo(r, "kill switch") ELSE Return(r)
    /\ UNCHANGED <<drafts, built, nonces, codes, lock, ledger, seen>>

CheckFreezeSkips(r) ==                    \* mutant: the switch not asked
    /\ At(r, "kill switch")
    /\ GoTo(r, "score now")
    /\ UNCHANGED <<drafts, built, nonces, codes, lock, ledger, seen>>

\* 3d, 3e. The kill switch, and the signed destination (any verdict).
CheckFreeze(r) ==
    /\ At(r, "kill switch")
    /\ \/ ~frozen /\ GoTo(r, "score now")
       \/ Return(r)
    /\ UNCHANGED <<drafts, built, nonces, codes, lock, ledger, seen>>

\* 3f. The score again, refused too if it now asks what was never asked
\* (asks_unasked).  A draft the store has dropped has no floor any more.
CheckScore(r) ==
    /\ At(r, "score now")
    /\ LET d == requests[r].draft  kept == drafts[d].status \notin Absent IN
       \E fresh \in Scores, asks_unasked \in BOOLEAN :
          LET outcome == IF kept THEN stricter(drafts[d].floor, fresh) ELSE fresh IN
          IF outcome = "BLOCK" \/ asks_unasked
             \/ (kept /\ rose_past_drafted(drafts[d].floor, fresh))
          THEN Return(r)
          ELSE requests' = [requests EXCEPT ![r].at = "safeguards", ![r].score = outcome]
    /\ UNCHANGED <<drafts, built, nonces, codes, lock, ledger, seen>>

HoldServesEarly(d, p) ==                  \* mutant: the wait not compared
    holds[d].status # "CANCELLED" /\ holds[d].payload = p

\* The hold and the phone code the outcome asks for.
HoldServes(d, p) ==
    /\ holds[d].status # "CANCELLED"
    /\ holds[d].payload = p
    /\ holds[d].over

\* 4. Policy comes next, and may refuse whatever the safeguards say.
CheckSafeguards(r) ==
    /\ At(r, "safeguards")
    /\ LET d == requests[r].draft  p == requests[r].payload  outcome == requests[r].score IN
       \/ /\ IF holds[d].status = "NONE" THEN ~needs_hold(outcome) ELSE HoldServes(d, p)
          /\ outcome = "HOLD_STEP_UP" => is_confirmed(d, p)
          /\ GoTo(r, IF release_delay(outcome) THEN "schedule" ELSE "execute")
       \/ Return(r)
    /\ UNCHANGED <<drafts, built, nonces, codes, lock, ledger, seen>>

\* 4b. schedule_release: INSERT OR IGNORE, once per draft.
Schedule(r) ==
    /\ At(r, "schedule")
    /\ LET d == requests[r].draft IN
       releases' = IF releases[d].status # "NONE" THEN releases
                   ELSE [releases EXCEPT ![d] = [status |-> "PENDING", due |-> FALSE,
                                                 payload |-> requests[r].payload]]
    /\ GoTo(r, "scheduled")
    /\ UNCHANGED <<drafts, built, nonces, codes, lock, executions, debits, holds,
                   frozen, attempts, freezeSet, seen>>

\* 5. The executor runs the plan, or raises.
Execute(r) ==
    /\ At(r, "execute")
    /\ LET d == requests[r].draft IN
       /\ Claimable(d)
       /\ \E outcome \in Ran : Executes(d, requests[r].payload, outcome)
    /\ GoTo(r, "executed")
    /\ UNCHANGED <<drafts, built, nonces, codes, lock, holds, releases, frozen,
                   attempts, freezeSet, seen>>

ExecuteRaises(r) ==               \* AlreadyExecuted; DestinationChanged
    /\ At(r, "execute")
    /\ \/ executions[requests[r].draft].outcome \in Ran /\ GoTo(r, "duplicate")
       \/ executions[requests[r].draft].outcome \notin Ran /\ Return(r)
    /\ UNCHANGED <<drafts, built, nonces, codes, lock, ledger, seen>>

\* The code is spent, the hold done, the attempt marked; the draft follows.
Respond(r) ==
    /\ \E at \in {"scheduled", "executed", "duplicate"} : At(r, at)
    /\ LET d == requests[r].draft IN
       /\ SetStatus(d, IF At(r, "scheduled") THEN "scheduled" ELSE "executed")
       /\ IF At(r, "duplicate")
          THEN UNCHANGED <<codes, holds>>
          ELSE /\ codes' = [codes EXCEPT ![d].state = IF @ = "none" THEN @ ELSE "used"]
               /\ HoldMoves(d, "RELEASED")
       /\ IF At(r, "executed") THEN Mark(d, "SENT") ELSE UNCHANGED attempts
    /\ Return(r)
    /\ UNCHANGED <<built, nonces, lock, executions, debits, releases, frozen,
                   freezeSet, seen>>

-----------------------------------------------------------------------------
\* _close_draft, for decline, cancel, a freeze and an unfreeze.
OutcomeOf(r) == IF requests[r].op = "decline" THEN "DECLINED" ELSE "CANCELLED"

Close(r, d, op) ==                        \* POST .../decline and .../cancel
    /\ drafts[d].status # "new"            \* ids are unguessable
    /\ op \in {"decline", "cancel"}
    /\ Begins(r, op, "close", d, 0)
    /\ UNCHANGED <<drafts, built, nonces, codes, lock, ledger, seen>>

\* What a decline or cancel answers; a freeze counts and takes its next draft.
Answer(r, answer) ==
    IF requests[r].op \in {"decline", "cancel"}
    THEN Return(r) /\ told' = [told EXCEPT ![requests[r].draft] = @ \cup {answer}]
    ELSE GoTo(r, "closing") /\ UNCHANGED told

ReadToClose(r) ==
    /\ At(r, "close")
    /\ LET outcome == executions[requests[r].draft].outcome IN
       \/ outcome \in CLOSED_OUTCOMES /\ Answer(r, "nothing sent")
       \/ outcome \in Ran /\ Answer(r, "already sent")
       \/ outcome = "NONE" /\ GoTo(r, "find") /\ UNCHANGED told
    /\ UNCHANGED <<drafts, built, nonces, codes, lock, ledger, shown, served, freezeTold>>

FindToClose(r) ==
    /\ At(r, "find")
    /\ LET d == requests[r].draft IN
       \/ /\ drafts[d].status \in Absent
          /\ Answer(r, "no such draft")
       \/ /\ drafts[d].status \notin Absent
          /\ requests' = [requests EXCEPT ![r].at = "claim", ![r].payload = drafts[d].payload]
          /\ UNCHANGED told
    /\ UNCHANGED <<drafts, built, nonces, codes, lock, ledger, shown, served, freezeTold>>

\* executor.close, and the draft's status.
ClaimClose(r) ==
    /\ At(r, "claim")
    /\ LET d == requests[r].draft IN
       /\ Claimable(d)
       /\ Closes(d, requests[r].payload, OutcomeOf(r))
    /\ GoTo(r, "claimed")
    /\ UNCHANGED <<drafts, built, nonces, codes, lock, debits, holds, releases, frozen,
                   attempts, freezeSet, seen>>

ClaimCloseLosesQuietly(r) ==              \* mutant: AlreadyExecuted swallowed
    /\ At(r, "claim")
    /\ ~Claimable(requests[r].draft)
    /\ Answer(r, "nothing sent")
    /\ UNCHANGED <<drafts, built, nonces, codes, lock, ledger, shown, served, freezeTold>>

ClaimCloseLoses(r) ==                               \* except AlreadyExecuted
    /\ At(r, "claim")
    /\ ~Claimable(requests[r].draft)
    /\ Answer(r, "already sent")
    /\ UNCHANGED <<drafts, built, nonces, codes, lock, ledger, shown, served, freezeTold>>

MarkClosed(r) ==
    /\ At(r, "claimed")
    /\ SetStatus(requests[r].draft, StatusOf(OutcomeOf(r)))
    /\ GoTo(r, "stop rest")
    /\ UNCHANGED <<built, nonces, codes, lock, ledger, seen>>

\* The hold, the scheduled release and the attempt: none reads another's row.
StopRest(r) ==
    /\ At(r, "stop rest")
    /\ LET d == requests[r].draft IN
       /\ HoldMoves(d, "CANCELLED")
       /\ ReleaseMoves(d, "PENDING", "CANCELLED")
       /\ Mark(d, "STOPPED")
    /\ Answer(r, "nothing sent")
    /\ UNCHANGED <<drafts, built, nonces, codes, lock, executions, debits, frozen,
                   freezeSet, shown, served, freezeTold>>

\* _cancel_open_drafts catches what any of these raises: it counts a draft that
\* could not be cancelled, and goes on.
Cancelling == {"close", "find", "claim", "claimed", "stop rest"}
Walks(r)   == requests[r].op \in {"freeze", "unfreeze"} /\ requests[r].at \in Cancelling

CloseFails(r) ==
    /\ requests[r].op \in Faults
    /\ Walks(r)
    /\ requests' = [requests EXCEPT ![r].at = "closing", ![r].failed = TRUE]
    /\ UNCHANGED <<drafts, built, nonces, codes, lock, ledger, seen>>

-----------------------------------------------------------------------------
\* POST /api/killswitch, and its release with the code from the phone.
EngageFreeze(r) ==
    /\ lock = "free"
    /\ Begins(r, "freeze", "revoke", NoDraft, 0)
    /\ lock' = r
    /\ frozen' = TRUE
    /\ UNCHANGED <<drafts, built, nonces, codes, executions, debits, holds, releases,
                   attempts, freezeSet, seen>>

RevokeNonces(r) ==                      \* of the drafts still in the store
    /\ At(r, "revoke")
    /\ nonces' = [n \in Nonces |->
                     IF nonces[n] \in Drafts /\ drafts[nonces[n]].status \notin Absent
                     THEN "used" ELSE nonces[n]]
    /\ GoTo(r, "snapshot")
    /\ UNCHANGED <<drafts, built, codes, lock, ledger, seen>>

BeginUnfreeze(r) ==
    /\ frozen
    /\ lock = "free"
    /\ Begins(r, "unfreeze", "snapshot", NoDraft, 0)
    /\ lock' = r
    /\ UNCHANGED <<drafts, built, nonces, codes, ledger, seen>>

open_ids_ready == {d \in Drafts : drafts[d].status = "ready"}   \* mutant

\* _cancel_open_drafts: the open ids once, then one draft after the other.
open_ids == {d \in Drafts : drafts[d].status \in {"ready", "scheduled"}}

SnapshotOpen(r) ==
    /\ At(r, "snapshot")
    /\ requests' = [requests EXCEPT ![r].at = "closing", ![r].todo = open_ids]
    /\ UNCHANGED <<drafts, built, nonces, codes, lock, ledger, seen>>

CloseNextAgain(r) ==                      \* mutant: the draft stays on the list
    /\ At(r, "closing")
    /\ \E d \in requests[r].todo :
          requests' = [requests EXCEPT ![r].at = "close", ![r].draft = d]
    /\ UNCHANGED <<drafts, built, nonces, codes, lock, ledger, seen>>

CloseNext(r) ==
    /\ At(r, "closing")
    /\ \E d \in requests[r].todo :
          requests' = [requests EXCEPT ![r].at = "close", ![r].draft = d,
                                       ![r].todo = @ \ {d}]
    /\ UNCHANGED <<drafts, built, nonces, codes, lock, ledger, seen>>

\* Every pending hold of the user goes; a freeze is over, and answered: payments
\* are stopped, or so many could not be (cancel_failed).
CancelHolds(r) ==
    /\ At(r, "closing")
    /\ requests[r].todo = {}
    /\ holds' = [d \in Drafts |->
                    IF holds[d].status = "PENDING" THEN [holds[d] EXCEPT !.status = "CANCELLED"]
                                                   ELSE holds[d]]
    /\ \/ /\ requests[r].op = "freeze"
          /\ lock' = "free"
          /\ freezeTold' = (freezeTold \/ ~requests[r].failed)
          /\ Return(r)
       \/ /\ requests[r].op = "unfreeze"
          /\ GoTo(r, "lift")
          /\ UNCHANGED <<lock, freezeTold>>
    /\ UNCHANGED <<drafts, built, nonces, codes, executions, debits, releases, frozen,
                   attempts, freezeSet, told, shown, served>>

LiftFreeze(r) ==
    /\ At(r, "lift")
    /\ IF requests[r].failed                   \* 503: still signable, stay frozen
       THEN UNCHANGED <<frozen, freezeTold>>
       ELSE frozen' = FALSE /\ freezeTold' = FALSE
    /\ lock' = "free"
    /\ Return(r)
    /\ UNCHANGED <<drafts, built, nonces, codes, executions, debits, holds, releases,
                   attempts, freezeSet, told, shown, served>>

-----------------------------------------------------------------------------
\* release_due: by the release loop, or by GET /api/drafts/{id}/release.
DueReleases == {d \in Drafts : releases[d].status = "PENDING" /\ releases[d].due}

ClaimDue(r) ==
    /\ r = Loop \/ "release" \in Ops
    /\ requests[r] = Idle
    /\ DueReleases # {}
    /\ releases' = [d \in Drafts |->
                       IF d \in DueReleases THEN [releases[d] EXCEPT !.status = "RUNNING"]
                                            ELSE releases[d]]
    /\ requests' = [requests EXCEPT ![r] = [Idle EXCEPT !.op = "release", !.at = "rows",
                                                        !.todo = DueReleases]]
    /\ UNCHANGED <<drafts, built, nonces, codes, lock, executions, debits, holds, frozen,
                   attempts, freezeSet, seen>>

\* The freeze, and policy, are asked again.
RowCheck(r) ==
    /\ At(r, "rows")
    /\ \E d \in requests[r].todo, at \in {"run row", "stop row"} :
          /\ frozen => at = "stop row"
          /\ requests' = [requests EXCEPT ![r].at = at, ![r].draft = d,
                             ![r].payload = releases[d].payload, ![r].todo = @ \ {d}]
    /\ UNCHANGED <<drafts, built, nonces, codes, lock, ledger, seen>>

RowsDone(r) ==
    /\ At(r, "rows")
    /\ requests[r].todo = {}
    /\ Return(r)
    /\ UNCHANGED <<drafts, built, nonces, codes, lock, ledger, seen>>

RowExecute(r) ==
    /\ At(r, "run row")
    /\ LET d == requests[r].draft IN
       /\ Claimable(d)
       /\ \E outcome \in Ran : Executes(d, requests[r].payload, outcome)
    /\ GoTo(r, "row sent")
    /\ UNCHANGED <<drafts, built, nonces, codes, lock, holds, releases, frozen,
                   attempts, freezeSet, seen>>

RowExecuteSent(r) ==                      \* mutant: AlreadyExecuted taken for success
    /\ At(r, "run row")
    /\ \/ ~Claimable(requests[r].draft) /\ GoTo(r, "row sent")
       \/ Claimable(requests[r].draft) /\ GoTo(r, "stop row")
    /\ UNCHANGED <<drafts, built, nonces, codes, lock, ledger, seen>>

RowExecuteSkips(r) ==                     \* mutant: continue before the row is updated
    /\ At(r, "run row")
    /\ \/ ~Claimable(requests[r].draft) /\ GoTo(r, "rows")
       \/ Claimable(requests[r].draft) /\ GoTo(r, "stop row")
    /\ UNCHANGED <<drafts, built, nonces, codes, lock, ledger, seen>>

RowExecuteRaises(r) ==            \* AlreadyExecuted; DestinationChanged
    /\ At(r, "run row")
    /\ \/ ~Claimable(requests[r].draft) /\ GoTo(r, "row lost")
       \/ Claimable(requests[r].draft) /\ GoTo(r, "stop row")
    /\ UNCHANGED <<drafts, built, nonces, codes, lock, ledger, seen>>

RowStop(r) ==                     \* close(), its AlreadyExecuted ignored
    /\ At(r, "stop row")
    /\ LET d == requests[r].draft IN
       IF Claimable(d) THEN Closes(d, requests[r].payload, "CANCELLED")
                       ELSE UNCHANGED executions
    /\ GoTo(r, "row stopped")
    /\ UNCHANGED <<drafts, built, nonces, codes, lock, debits, holds, releases, frozen,
                   attempts, freezeSet, seen>>

\* The row, the attempt and (except after AlreadyExecuted) the draft follow.
RowFollows(r) ==
    /\ \E at \in {"row sent", "row lost", "row stopped"} : At(r, at)
    /\ LET d == requests[r].draft  sent == At(r, "row sent") IN
       /\ ReleaseMoves(d, "RUNNING", IF sent THEN "SENT" ELSE "CANCELLED")
       /\ Mark(d, IF sent THEN "SENT" ELSE "STOPPED")
       /\ IF At(r, "row lost") THEN UNCHANGED drafts
          ELSE SetStatus(d, IF sent THEN "executed" ELSE "cancelled")
    /\ GoTo(r, "rows")
    /\ UNCHANGED <<built, nonces, codes, lock, executions, debits, holds, frozen,
                   freezeSet, seen>>

-----------------------------------------------------------------------------
\* Time passes, drafts run out, the server restarts.
HoldElapses(d) ==
    /\ holds[d].status # "NONE" /\ ~holds[d].over
    /\ holds' = [holds EXCEPT ![d].over = TRUE]
    /\ served' = served \cup {<<"hold", d, holds[d].payload>>}
    /\ UNCHANGED <<memory, executions, debits, releases, frozen, attempts, freezeSet,
                   told, shown, freezeTold>>

ReleaseFallsDue(d) ==
    /\ releases[d].status = "PENDING" /\ ~releases[d].due
    /\ releases' = [releases EXCEPT ![d].due = TRUE]
    /\ UNCHANGED <<memory, executions, debits, holds, frozen, attempts, freezeSet, seen>>

\* DraftStore._sweep: five minutes from drafting, and from its last payload.
Sweep(d) ==
    /\ "expiry" \in Faults
    /\ drafts[d].status \notin Absent
    /\ drafts' = [drafts EXCEPT ![d].status = "gone"]
    /\ UNCHANGED <<built, nonces, codes, lock, requests, ledger, seen>>

Restart ==
    /\ "restart" \in Faults
    /\ drafts'   = [d \in Drafts |-> IF drafts[d].status = "new" THEN drafts[d]
                                     ELSE [drafts[d] EXCEPT !.status = "gone"]]
    /\ nonces'   = [n \in Nonces |-> IF nonces[n] = "unissued" THEN nonces[n] ELSE "used"]
    /\ codes'    = [d \in Drafts |-> [payload |-> 0, state |-> "none"]]
    /\ lock'     = "free"
    /\ requests' = [r \in Threads |-> Idle]
    /\ UNCHANGED <<built, ledger, seen>>

\* Any other statement on the ledger may raise ("database is locked"): the request
\* is a 500, the release loop logs it, and `with` lets go of the lock.
Raises(r) ==
    /\ requests[r] # Idle
    /\ ~Walks(r)
    /\ requests[r].op \in Faults
    /\ lock' = IF lock = r THEN "free" ELSE lock
    /\ Return(r)
    /\ UNCHANGED <<drafts, built, nonces, codes, ledger, seen>>

-----------------------------------------------------------------------------
\* A thread that has begun goes on; beginning is up to the user.
Work(r) ==
    \/ ResolveStops(r) \/ Resolve(r) \/ Freezes(r) \/ OfferFrozen(r)
    \/ Score(r) \/ WriteFloor(r) \/ RecordAttempt(r) \/ StopOrAsk(r)
    \/ CreateHold(r) \/ IssueCode(r) \/ OfferReady(r)
    \/ CheckNonce(r) \/ IssueNonce(r)
    \/ BurnNonce(r) \/ CheckPrior(r) \/ CheckDraft(r) \/ CheckFreeze(r) \/ CheckScore(r)
    \/ CheckSafeguards(r) \/ Schedule(r) \/ Execute(r) \/ ExecuteRaises(r) \/ Respond(r)
    \/ ReadToClose(r) \/ FindToClose(r) \/ ClaimClose(r) \/ ClaimCloseLoses(r)
    \/ MarkClosed(r) \/ StopRest(r) \/ CloseFails(r)
    \/ RevokeNonces(r) \/ SnapshotOpen(r) \/ CloseNext(r) \/ CancelHolds(r) \/ LiftFreeze(r)
    \/ RowCheck(r) \/ RowsDone(r) \/ RowExecute(r) \/ RowExecuteRaises(r) \/ RowStop(r)
    \/ RowFollows(r) \/ Raises(r)

Begin(r) ==
    \/ EngageFreeze(r) \/ BeginUnfreeze(r)
    \/ \E d \in Drafts :
          \/ BeginPipeline(r, d) \/ AskNonce(r, d)
          \/ \E p \in Payloads, n \in Nonces : Submit(r, d, p, n)
          \/ \E op \in {"decline", "cancel"} : Close(r, d, op)

Environment ==
    \/ \E n \in Nonces : NonceExpires(n)
    \/ \E d \in Drafts : \/ ConfirmCode(d) \/ CodeExpires(d) \/ HoldElapses(d)
                         \/ ReleaseFallsDue(d) \/ Sweep(d)
    \/ Restart

Next ==
    \/ \E r \in Threads : Work(r) \/ ClaimDue(r)
    \/ \E r \in Requests : Begin(r)
    \/ Environment

Spec == Init /\ [][Next]_vars

\* Threads are scheduled, the release loop wakes every two seconds, and the
\* clock reaches every release_at.  Nothing else is promised.
FairSpec ==
    /\ Spec
    /\ \A r \in Threads : WF_vars(Work(r))
    /\ WF_vars(ClaimDue(Loop))
    /\ \A d \in Drafts : WF_vars(ReleaseFallsDue(d))

-----------------------------------------------------------------------------
DraftStatuses == {"new", "clarify", "blocked", "frozen", "ready", "scheduled", "gone"}
                 \cup FINAL_STATUSES
Stages == {"idle", "resolve", "freeze draft", "score", "floor", "record", "weigh", "hold",
           "code", "offer", "nonce prior", "nonce draft", "nonce switch", "nonce hold",
           "issue", "burn", "prior", "draft", "kill switch", "score now", "safeguards", "schedule",
           "scheduled", "execute", "executed", "duplicate", "close", "find", "claim",
           "claimed", "stop rest", "revoke", "snapshot", "closing", "lift", "rows", "run row",
           "stop row", "row sent", "row lost", "row stopped"}
Operations == {"idle", "pipeline", "nonce", "submit", "decline", "cancel", "freeze",
               "unfreeze", "release"}

Sent       == 0 .. MaxPayload                       \* 0: no payload
Draft_     == [status : DraftStatuses, payload : Sent, floor : Outcomes]
Code_      == [payload : Sent, state : {"none", "sent", "confirmed", "expired", "used"}]
Request_   == [op : Operations, at : Stages, draft : Drafts \cup {NoDraft}, payload : Sent,
               nonce : Nonces \cup {NoNonce}, score : Outcomes, todo : SUBSET Drafts, failed : BOOLEAN]
Execution_ == [outcome : Ran \cup CLOSED_OUTCOMES \cup {"NONE"}, payload : Sent]
Hold_      == [status : {"NONE", "PENDING", "CANCELLED", "RELEASED"}, payload : Sent,
               over : BOOLEAN]
Release_   == [status : {"NONE", "PENDING", "RUNNING", "SENT", "CANCELLED"}, payload : Sent,
               due : BOOLEAN]
Answers    == {"nothing sent", "already sent", "no such draft"}

\* Types of the stores, the threads, the ledger's tables and the history.
TypeOK ==
    /\ drafts \in [Drafts -> Draft_]
    /\ built \in [Drafts -> Sent]
    /\ nonces \in [Nonces -> Drafts \cup {"unissued", "used"}]
    /\ codes \in [Drafts -> Code_]
    /\ lock \in Threads \cup {"free"}
    /\ requests \in [Threads -> Request_]
    /\ executions \in [Drafts -> Execution_]
    /\ debits \in [Drafts -> Nat]
    /\ holds \in [Drafts -> Hold_]
    /\ releases \in [Drafts -> Release_]
    /\ frozen \in BOOLEAN
    /\ attempts \in [Drafts -> {"NONE", "OPEN", "SENT", "STOPPED"}]
    /\ freezeSet \subseteq Drafts
    /\ told \in [Drafts -> SUBSET Answers]
    /\ shown \in [Drafts -> [Payloads -> Outcomes \cup {"never"}]]
    /\ served \subseteq {"hold", "code"} \X Drafts \X Sent
    /\ freezeTold \in BOOLEAN

\* The user is never told "nothing was sent" about money that was, or ever will
\* be (_close_draft): the answer is given under the claim it rests on.
NothingSentIsTrue ==
    \A d \in Drafts : "nothing sent" \in told[d] =>
        executions[d].outcome \in CLOSED_OUTCOMES /\ debits[d] = 0

\* Only a payload that the pipeline offered as ready ever runs, whatever a
\* client submits and whichever path runs it (executable, release_due).
ExecutesOnlyOffered ==
    \A d \in Drafts : executions[d].outcome \in Ran =>
        executions[d].payload # 0 /\ shown[d][executions[d].payload] # "never"

\* The safeguards a payload was offered with are the ones it went through: its
\* own hold ran out, its own phone code was entered, its release delay passed.
SafeguardsServed ==
    \A d \in Drafts : executions[d].outcome \in Ran =>
        LET p == executions[d].payload  outcome == shown[d][p] IN
        /\ needs_hold(outcome) => <<"hold", d, p>> \in served
        /\ outcome = "HOLD_STEP_UP" => <<"code", d, p>> \in served
        /\ release_delay(outcome) => releases[d].due /\ releases[d].payload = p

\* A release reported SENT ran, and ran the payload that was scheduled.
ReleaseSentIsTrue ==
    \A d \in Drafts : releases[d].status = "SENT" =>
        executions[d].outcome \in Ran /\ executions[d].payload = releases[d].payload

\* Once the freeze is confirmed to the user, with nothing it could not cancel, no
\* money moves until it is lifted.
FreezeStopsMoney == [][freezeTold => debits' = debits]_vars

\* From the first step of a freeze on, answered or not and whatever fails, only
\* threads that had already passed their look at the switch debit, each at most
\* once, and no thread joins them (gateway 3d, release_due, engage_kill_switch).
InFlight == {r \in Threads :
                requests[r].at \in {"score now", "safeguards", "execute", "run row"}}

FreezeDrains ==
    [][frozen /\ frozen' =>
          /\ InFlight' \subseteq InFlight
          /\ \A d \in Drafts : debits'[d] # debits[d] =>
                /\ debits'[d] = debits[d] + 1
                /\ \E r \in InFlight \ InFlight' : requests[r].draft = d]_vars

\* Every signed, scheduled payment is run or cancelled in the end (release_due).
ScheduledSettles ==
    \A d \in Drafts :
        releases[d].status = "PENDING" ~> releases[d].status \in {"SENT", "CANCELLED"}

\* Freezing and unfreezing always finish, and let go of the lock.
FreezeFinishes == lock # "free" ~> lock = "free"

\* The refinement: executions and debits are what ExecuteOnce promises.
Once == INSTANCE ExecuteOnce WITH
            outcome <- [d \in Drafts |-> executions[d].outcome],
            moved   <- debits,
            Legs    <- [d \in Drafts |-> 1]

\* Requests, freezes, restarts and the release loop settle a draft at most once.
SettlesOnce == Once!Spec

-----------------------------------------------------------------------------
\* What the documentation says and these runs refute.

\* gateway 4b: a scheduled payment can still be cancelled while it waits.
WaitingCanBeCancelled ==
    [][\A d \in Drafts : "no such draft" \in told'[d] \ told[d] =>
          releases[d].status # "PENDING" \/ ~Claimable(d)]_vars

\* issue_nonce: the gateway rejects any submission of a draft the validator froze.
FrozenNeverPaid == [][\A d \in freezeSet : debits'[d] = debits[d]]_vars
=============================================================================
