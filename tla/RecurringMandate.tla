-------------------------- MODULE RecurringMandate --------------------------
(***************************************************************************)
(* One recurring bill: a signed mandate, its occurrences, the workers that *)
(* run what has fallen due, and the user, who approves, declines, pauses,  *)
(* resumes, cancels and freezes (backend/recurring/, Gateway.submit_mandate *)
(* and run_mandate_occurrence, MockExecutor.execute and create_mandate).   *)
(*                                                                         *)
(* Every SQLite transaction is one step; what a worker or a request reads  *)
(* between transactions may be stale when it acts on it, and so may the    *)
(* time it was called with.  Signing is PaymentGateway's subject: here a   *)
(* signature is the gateway's check of the draft, of the kill switch, and  *)
(* of whatever else may refuse or delay the payment.                       *)
(***************************************************************************)
EXTENDS Integers, FiniteSets, FiniteSetsExt

CONSTANTS Workers,     \* threads and processes that call run_due
          Loop,        \* the server's own one, which also runs delayed releases
          Requests,    \* request threads of the server
          Count,       \* occurrence_count
          Supervised,  \* supervised_approvals
          AutoAfter,   \* auto_after_supervised
          MaxTime,     \* the last instant of the recurring clock (a bound)
          MaxFaults,   \* runs that fail or restarts there may be (a bound)
          Ops,         \* what the user does in this run
          World        \* what may change: "biller", "tamper"

ASSUME MandateAssumption ==
    /\ Loop \in Workers
    /\ Workers \cap Requests = {}
    /\ Count \in Nat \ {0} /\ Supervised \in Nat \ {0}
    /\ AutoAfter \in BOOLEAN
    /\ MaxTime \in Nat /\ MaxFaults \in Nat

Occs    == 1 .. Count
Threads == Workers \cup Requests

\* The windows of occurrence o: an instant is a due date's day, or the days
\* after it in which it can still be approved.  Windows never overlap.
DueAt(o)       == 2 * o - 1
AutoUntil(o)   == 2 * o - 1
ReviewUntil(o) == 2 * o
ValidUntil     == ReviewUntil(Count)

APPROVABLE == {"PENDING_APPROVAL", "NEEDS_REVIEW", "HELD"}
OPEN       == {"SCHEDULED"} \cup APPROVABLE
TERMINAL   == {"EXECUTED", "FAILED", "DECLINED", "EXPIRED", "MISSED", "SKIPPED",
               "CANCELLED"}

VARIABLES
    mandate,     \* the mandates row: status, mode, successes, paid
    occs,        \* occs[o]: the occurrence's status and phase
    executions,  \* executions[o]: the outcome recorded under its execution key
    debits,      \* debits[o]: how often it was debited
    authority,   \* authority[o]: what authorized its debit
    releases,    \* signed occurrences whose delayed run is still to come
    intact,      \* the stored terms still hash to what was signed
    billerSame,  \* the biller still has the reference the mandate signed
    frozen,      \* the kill switch
    clock,       \* the recurring clock
    offers,      \* offers[o]: the draft store's draft for it
    threads,     \* what every thread is doing
    faults       \* faults so far

rows  == <<mandate, occs, executions, debits, authority, releases>>
world == <<intact, billerSame, frozen>>
past  == <<clock, faults>>
vars  == <<rows, world, past, offers, threads>>

Idle == [at |-> "idle", occ |-> 0, now |-> 0, todo |-> {}, stop |-> "", suspend |-> FALSE]

Init ==
    /\ mandate = [status |-> "NONE", mode |-> "SUPERVISED", successes |-> 0, paid |-> 0]
    /\ occs = [o \in Occs |-> [status |-> "NONE", phase |-> "NONE"]]
    /\ executions = [o \in Occs |-> "NONE"]
    /\ debits = [o \in Occs |-> 0]
    /\ authority = [o \in Occs |-> "NONE"]
    /\ releases = {}
    /\ intact = TRUE /\ billerSame = TRUE /\ frozen = FALSE
    /\ clock = 0 /\ faults = 0
    /\ offers = [o \in Occs |-> "none"]
    /\ threads = [t \in Threads |-> Idle]

-----------------------------------------------------------------------------
\* Control of one thread, and conditional UPDATEs of the rows.
At(t, at)   == threads[t].at = at
GoTo(t, at) == threads' = [threads EXCEPT ![t].at = at]
Return(t)   == threads' = [threads EXCEPT ![t] = Idle]

\* A worker is done with one occurrence of its list.
NextDue(t)  == threads' = [threads EXCEPT ![t] = [Idle EXCEPT !.at = "due",
                              !.now = threads[t].now, !.todo = threads[t].todo]]

set_mandate(from, to) ==
    mandate' = IF mandate.status \in from THEN [mandate EXCEPT !.status = to] ELSE mandate
set_occurrence_always(o, from, to, phase) ==           \* mutant: an unconditional UPDATE
    occs' = [occs EXCEPT ![o] = [status |-> to, phase |-> phase]]
set_occurrence(o, from, to, phase) ==
    occs' = IF occs[o].status \in from
            THEN [occs EXCEPT ![o] = [status |-> to, phase |-> phase]] ELSE occs
suspend == set_mandate({"ACTIVE", "PAUSED"}, "SUSPENDED")

-----------------------------------------------------------------------------
\* Enrollment.  submit_mandate checks, then create_mandate checks the biller
\* again under the lock; the time is not looked at twice.
Enroll(r) ==
    /\ At(r, "idle") /\ mandate.status = "NONE"
    /\ ~frozen /\ billerSame /\ clock < DueAt(1)            \* _mandate_setup_refusal
    /\ GoTo(r, "create")
    /\ UNCHANGED <<rows, world, past, offers>>

CreateMandate(r) ==
    /\ At(r, "create")
    /\ IF mandate.status = "NONE" /\ billerSame
       THEN /\ mandate' = [mandate EXCEPT !.status = "ACTIVE"]
            /\ occs' = [o \in Occs |-> [status |-> "SCHEDULED", phase |-> "NONE"]]
       ELSE UNCHANGED <<mandate, occs>>
    /\ Return(r)
    /\ UNCHANGED <<executions, debits, authority, releases, world, past, offers>>

-----------------------------------------------------------------------------
\* The executor's transaction, shared by both authorities.
InWindow(o, now, until) == DueAt(o) <= now /\ now <= until

WithinTerms == mandate.paid < Count
AutoOn(m)   == m.mode = "AUTO" /\ AutoAfter /\ m.successes >= Supervised

OpenForApproval(o, now) == occs[o].status \in APPROVABLE /\ InWindow(o, now, ReviewUntil(o))
PaysItself(o, now) ==
    /\ occs[o] = [status |-> "SCHEDULED", phase |-> "AUTO"]
    /\ AutoOn(mandate) /\ InWindow(o, now, AutoUntil(o))

execution_refusal(o, by, now) ==                 \* is there a reason not to debit it?
    \/ ~intact \/ mandate.status # "ACTIVE" \/ ~WithinTerms \/ now > ValidUntil
    \/ ~billerSame
    \/ by = "SIGNATURE" /\ ~OpenForApproval(o, now)
    \/ by = "MANDATE" /\ ~PaysItself(o, now)

CountsAll(o, by) == by = "SIGNATURE"             \* mutant: a HELD payment counts too
Counts(o, by)    == by = "SIGNATURE" /\ occs[o].phase = "SUPERVISED"

\* record_execution: the outcome of the occurrence, and the mandate's counters.
Credited(o, by) ==
    LET successes == mandate.successes + (IF Counts(o, by) THEN 1 ELSE 0)
        paid      == mandate.paid + 1
    IN  [successes |-> successes, paid |-> paid,
         mode   |-> IF AutoAfter /\ successes >= Supervised THEN "AUTO" ELSE mandate.mode,
         status |-> IF paid >= Count THEN "COMPLETED" ELSE mandate.status]

record_attempt(o, by, outcome) ==                \* mutant: a failed attempt counts too
    set_occurrence(o, OPEN, outcome, occs[o].phase) /\ mandate' = Credited(o, by)
record_execution(o, by, outcome) ==
    /\ set_occurrence(o, OPEN, outcome, occs[o].phase)
    /\ mandate' = IF outcome = "FAILED" THEN mandate ELSE Credited(o, by)

DebitsAnyway(outcome) == 1                       \* mutant: a failed leg is not undone
DebitsOf(outcome) == IF outcome = "EXECUTED" THEN 1 ELSE 0

\* The draft is claimed, the mandate allows it, and the debit goes through or
\* fails: one commit.
Execute(o, by, now) ==
    /\ executions[o] = "NONE"
    /\ ~execution_refusal(o, by, now)
    /\ \E outcome \in {"EXECUTED", "FAILED"} :
          /\ executions' = [executions EXCEPT ![o] = outcome]
          /\ record_execution(o, by, outcome)
          /\ debits' = [debits EXCEPT ![o] = @ + DebitsOf(outcome)]
          /\ authority' = IF outcome = "EXECUTED" THEN [authority EXCEPT ![o] = by]
                          ELSE authority

\* MockExecutor.close: the same claim, and record_closed.
Close(o, outcome) ==
    IF executions[o] = "NONE"
    THEN /\ executions' = [executions EXCEPT ![o] = outcome]
         /\ set_occurrence(o, APPROVABLE, outcome, occs[o].phase)
    ELSE UNCHANGED <<executions, occs>>

-----------------------------------------------------------------------------
\* run_due.  The list and the time are read once, at the start.
DueNow == {o \in Occs : occs[o].status = "SCHEDULED" /\ DueAt(o) <= clock}

BeginRun(w) ==
    /\ At(w, "idle")
    /\ threads' = [threads EXCEPT ![w] = [Idle EXCEPT !.at = "due", !.now = clock,
           !.todo = IF mandate.status \in {"ACTIVE", "PAUSED", "SUSPENDED"}
                    THEN DueNow ELSE {}]]
    /\ UNCHANGED <<rows, world, past, offers>>

\* _fall_due's transaction, for the next occurrence of the list.
FallDue(w) ==
    LET o   == Min(threads[w].todo)
        now == threads[w].now
        becomes(status, phase) == set_occurrence(o, {"SCHEDULED"}, status, phase)
        kept == occs[o].phase
        auto == /\ occs[o].status = "SCHEDULED" /\ intact /\ mandate.status = "ACTIVE"
                /\ mandate.mode = "AUTO" /\ now <= AutoUntil(o)
    IN /\ At(w, "due") /\ threads[w].todo # {}
       /\ \/ occs[o].status # "SCHEDULED" /\ UNCHANGED <<mandate, occs>>
          \/ /\ occs[o].status = "SCHEDULED" /\ ~intact
             /\ becomes("SKIPPED", kept) /\ suspend
          \/ /\ occs[o].status = "SCHEDULED" /\ intact
             /\ UNCHANGED mandate
             /\ \/ mandate.status # "ACTIVE" /\ becomes("SKIPPED", kept)
                \/ /\ mandate.status = "ACTIVE" /\ mandate.mode = "AUTO"
                   /\ becomes(IF auto THEN "SCHEDULED" ELSE "MISSED", "AUTO")
                \/ /\ mandate.status = "ACTIVE" /\ mandate.mode # "AUTO"
                   /\ becomes(IF now > ReviewUntil(o) THEN "MISSED"
                              ELSE "PENDING_APPROVAL", "SUPERVISED")
       /\ threads' = [threads EXCEPT ![w].todo = @ \ {o}, ![w].occ = IF auto THEN o ELSE 0,
                                     ![w].at = IF auto THEN "automatic" ELSE "due"]
       /\ UNCHANGED <<executions, debits, authority, releases, world, past, offers>>

RanOutPending(o, now) ==                         \* mutant: held ones are forgotten
    occs[o].status = "PENDING_APPROVAL" /\ ReviewUntil(o) < now
RanOut(o, now) == occs[o].status \in APPROVABLE /\ ReviewUntil(o) < now

Expire(w) ==
    /\ At(w, "due") /\ threads[w].todo = {}
    /\ occs' = [o \in Occs |->
                  IF RanOut(o, threads[w].now)
                  THEN [occs[o] EXCEPT !.status = "EXPIRED"] ELSE occs[o]]
    /\ threads' = [threads EXCEPT ![w] = [Idle EXCEPT !.at = "complete"]]
    /\ UNCHANGED <<mandate, executions, debits, authority, releases, world, past, offers>>

Complete(w) ==
    /\ At(w, "complete")
    /\ IF \A o \in Occs : occs[o].status \notin OPEN
       THEN set_mandate({"ACTIVE", "PAUSED"}, "COMPLETED") ELSE UNCHANGED mandate
    /\ Return(w)
    /\ UNCHANGED <<occs, executions, debits, authority, releases, world, past, offers>>

\* run_mandate_occurrence.  Its first reads and the checks on them: nothing is
\* written in between, and all but the count of approvals is read again later.
StopWith(w, to, suspending) ==
    threads' = [threads EXCEPT ![w].at = "stop", ![w].stop = to, ![w].suspend = suspending]

ReadOccurrence(w) ==
    LET o == threads[w].occ IN
    /\ At(w, "automatic")
    /\ \/ executions[o] # "NONE" /\ NextDue(w)                             \* ALREADY
       \/ executions[o] = "NONE" /\ ~intact /\ StopWith(w, "HELD", TRUE)
       \/ /\ executions[o] = "NONE" /\ intact
          /\ IF mandate.status # "ACTIVE" \/ occs[o] # [status |-> "SCHEDULED", phase |-> "AUTO"]
             THEN NextDue(w)                                               \* NOT_RUNNABLE
             ELSE IF ~AutoOn(mandate) THEN StopWith(w, "NEEDS_REVIEW", FALSE)
             ELSE IF threads[w].now > AutoUntil(o) THEN StopWith(w, "MISSED", FALSE)
             ELSE IF ~WithinTerms THEN StopWith(w, "HELD", FALSE)
             ELSE GoTo(w, "biller")
    /\ UNCHANGED <<rows, world, past, offers>>

CheckBillerSwapped(w) ==                         \* mutant: status and code swapped
    /\ At(w, "biller")
    /\ IF billerSame THEN GoTo(w, "switch") ELSE StopWith(w, "BILLER_CHANGED", TRUE)
    /\ UNCHANGED <<rows, world, past, offers>>
CheckBiller(w) ==
    /\ At(w, "biller")
    /\ IF billerSame THEN GoTo(w, "switch") ELSE StopWith(w, "HELD", TRUE)
    /\ UNCHANGED <<rows, world, past, offers>>

\* The kill switch holds it; then KYC and policy may, an escalation or a scam
\* signal asks for the user, too little money fails it, or nothing is in the way.
CheckRules(w) ==                                 \* mutant: the switch is not asked
    /\ At(w, "switch")
    /\ \/ \E to \in {"HELD", "NEEDS_REVIEW", "FAILED"} : StopWith(w, to, FALSE)
       \/ GoTo(w, "pay")
    /\ UNCHANGED <<rows, world, past, offers>>
CheckSwitchAndRules(w) ==
    /\ At(w, "switch")
    /\ \/ StopWith(w, "HELD", FALSE)
       \/ ~frozen /\ \E to \in {"NEEDS_REVIEW", "FAILED"} : StopWith(w, to, FALSE)
       \/ ~frozen /\ GoTo(w, "pay")
    /\ UNCHANGED <<rows, world, past, offers>>

PayUnattended(w) ==
    LET o == threads[w].occ IN
    /\ At(w, "pay") /\ w \in Workers
    /\ \/ Execute(o, "MANDATE", threads[w].now) /\ NextDue(w)
       \/ /\ executions[o] # "NONE" /\ NextDue(w)
          /\ UNCHANGED <<mandate, occs, executions, debits, authority>>
       \/ /\ executions[o] = "NONE" /\ execution_refusal(o, "MANDATE", threads[w].now)
          /\ StopWith(w, "HELD", FALSE)
          /\ UNCHANGED <<mandate, occs, executions, debits, authority>>
    /\ UNCHANGED <<releases, world, past, offers>>

OccurrenceStop(w) ==
    /\ At(w, "stop")
    /\ set_occurrence(threads[w].occ, {"SCHEDULED"}, threads[w].stop, "AUTO")
    /\ IF threads[w].suspend THEN suspend ELSE UNCHANGED mandate
    /\ NextDue(w)
    /\ UNCHANGED <<executions, debits, authority, releases, world, past, offers>>

-----------------------------------------------------------------------------
\* The user approves an occurrence.  build_draft checks; the draft is offered
\* afterwards, and takes the place of the one offered before.
Review(r, o) ==
    /\ "review" \in Ops
    /\ At(r, "idle")
    /\ executions[o] = "NONE" /\ intact /\ mandate.status = "ACTIVE"
    /\ occs[o].status \in APPROVABLE
    /\ InWindow(o, clock, ReviewUntil(o)) /\ billerSame
    /\ threads' = [threads EXCEPT ![r].at = "put", ![r].occ = o]
    /\ UNCHANGED <<rows, world, past, offers>>

PutDraft(r) ==
    /\ At(r, "put")
    /\ offers' = [offers EXCEPT ![threads[r].occ] = "ready"]
    /\ Return(r)
    /\ UNCHANGED <<rows, world, past>>

\* Gateway.submit: the draft and the execution key, then the kill switch and
\* the other refusals, which may send it to its delayed run instead.
Sign(r, o) ==
    /\ At(r, "idle") /\ executions[o] = "NONE" /\ offers[o] = "ready"
    /\ threads' = [threads EXCEPT ![r].at = "signed", ![r].occ = o]
    /\ UNCHANGED <<rows, world, past, offers>>

PassGateway(r) ==
    LET o == threads[r].occ IN
    /\ At(r, "signed") /\ r \in Requests
    /\ \/ Return(r) /\ UNCHANGED <<releases, offers>>               \* refused, or frozen
       \/ ~frozen /\ GoTo(r, "when") /\ UNCHANGED <<releases, offers>>
       \/ /\ "delay" \in Ops /\ ~frozen /\ releases' = releases \cup {o}               \* schedule_release
          /\ offers' = [offers EXCEPT ![o] = "scheduled"]
          /\ Return(r)
    /\ UNCHANGED <<mandate, occs, executions, debits, authority, world, past>>

\* release_due claims a delayed run and asks for the kill switch again.
RunRelease(o) ==
    /\ At(Loop, "idle") /\ o \in releases
    /\ releases' = releases \ {o}
    /\ threads' = [threads EXCEPT ![Loop].at = IF frozen THEN "release stopped" ELSE "when",
                                  ![Loop].occ = o]
    /\ UNCHANGED <<mandate, occs, executions, debits, authority, world, past, offers>>

\* execute reads the clock, then waits for the write lock.
ReadClock(t) ==
    /\ At(t, "when")
    /\ threads' = [threads EXCEPT ![t].at = "pay signed", ![t].now = clock]
    /\ UNCHANGED <<rows, world, past, offers>>

PaySigned(t) ==
    LET o == threads[t].occ IN
    /\ At(t, "pay signed")
    /\ \/ /\ Execute(o, "SIGNATURE", threads[t].now)
          /\ offers' = [offers EXCEPT ![o] = "closed"]
          /\ Return(t)
       \/ /\ executions[o] # "NONE" \/ execution_refusal(o, "SIGNATURE", threads[t].now)
          /\ IF t = Loop /\ executions[o] = "NONE" THEN GoTo(t, "release stopped") ELSE Return(t)
          /\ UNCHANGED <<mandate, occs, executions, debits, authority, offers>>
    /\ UNCHANGED <<releases, world, past>>

StopRelease ==
    /\ At(Loop, "release stopped")
    /\ Close(threads[Loop].occ, "CANCELLED")
    /\ offers' = [offers EXCEPT ![threads[Loop].occ] = "closed"]
    /\ Return(Loop)
    /\ UNCHANGED <<mandate, debits, authority, releases, world, past>>

\* _close_draft, on a draft the store still has; one settled already stays as it is.
CloseDraft(o, outcome) ==
    /\ Close(o, outcome)
    /\ IF executions[o] = "NONE"
       THEN offers' = [offers EXCEPT ![o] = "closed"] /\ releases' = releases \ {o}
       ELSE UNCHANGED <<offers, releases>>

Decline(o, outcome) ==
    /\ "decline" \in Ops /\ offers[o] # "none"
    /\ CloseDraft(o, outcome)
    /\ UNCHANGED <<mandate, debits, authority, world, past, threads>>

\* Freezing engages the kill switch, then closes every draft that could still be
\* signed; unfreezing closes them first.  _kill_switch_lock is held throughout.
open_ids == {o \in Occs : offers[o] \in {"ready", "scheduled"}}

TakesSwitch(r, at) ==
    /\ "freeze" \in Ops /\ At(r, "idle")
    /\ \A q \in Requests : ~At(q, "freezing") /\ ~At(q, "unfreezing")
    /\ threads' = [threads EXCEPT ![r].at = at, ![r].todo = open_ids]

Freeze(r) ==
    /\ TakesSwitch(r, "freezing")
    /\ frozen' = TRUE
    /\ UNCHANGED <<rows, intact, billerSame, past, offers>>

BeginUnfreeze(r) ==
    /\ frozen /\ TakesSwitch(r, "unfreezing")
    /\ UNCHANGED <<rows, world, past, offers>>

CloseNext(r) ==
    /\ At(r, "freezing") \/ At(r, "unfreezing")
    /\ \E o \in threads[r].todo :
          /\ CloseDraft(o, "CANCELLED")
          /\ threads' = [threads EXCEPT ![r].todo = @ \ {o}]
    /\ UNCHANGED <<mandate, debits, authority, world, past>>

SwitchDone(r) ==
    /\ At(r, "freezing") \/ At(r, "unfreezing")
    /\ threads[r].todo = {}
    /\ frozen' = At(r, "freezing")
    /\ Return(r)
    /\ UNCHANGED <<rows, intact, billerSame, past, offers>>

-----------------------------------------------------------------------------
\* The user and the mandate: one transaction each.
Moves(from, to) ==
    /\ mandate.status \in from
    /\ set_mandate(from, to)
    /\ UNCHANGED <<executions, debits, authority, releases, world, past, offers, threads>>

Pause  == "pause" \in Ops /\ Moves({"ACTIVE"}, "PAUSED") /\ UNCHANGED occs
Resume == Moves({"PAUSED"}, "ACTIVE") /\ UNCHANGED occs
Cancel ==
    /\ "cancel" \in Ops
    /\ Moves({"ACTIVE", "PAUSED", "SUSPENDED"}, "CANCELLED")
    /\ occs' = [o \in Occs |-> IF occs[o].status \in OPEN
                               THEN [occs[o] EXCEPT !.status = "CANCELLED"] ELSE occs[o]]

-----------------------------------------------------------------------------
\* Time, the biller registry, and faults.
Tick ==
    /\ clock < MaxTime
    /\ clock' = clock + 1
    /\ UNCHANGED <<rows, world, faults, offers, threads>>

change_reference ==
    /\ "biller" \in World /\ billerSame
    /\ billerSame' = FALSE
    /\ UNCHANGED <<rows, intact, frozen, past, offers, threads>>

Tamper ==
    /\ "tamper" \in World /\ intact
    /\ intact' = FALSE
    /\ UNCHANGED <<rows, billerSame, frozen, past, offers, threads>>

Faulted == faults < MaxFaults /\ faults' = faults + 1 /\ UNCHANGED clock

\* Anything raised between two transactions ends the whole run.
RunFails(w) ==
    /\ ~At(w, "idle") /\ Faulted
    /\ Return(w)
    /\ UNCHANGED <<rows, world, offers>>

\* The server's threads and its draft store go; other workers run on.
ServerRestarts ==
    /\ Faulted
    /\ threads' = [t \in Threads |-> IF t \in Requests \cup {Loop} THEN Idle ELSE threads[t]]
    /\ offers' = [o \in Occs |-> "none"]
    /\ UNCHANGED <<rows, world>>

Step(w) ==
    \/ FallDue(w) \/ Expire(w) \/ Complete(w) \/ ReadOccurrence(w) \/ CheckBiller(w)
    \/ CheckSwitchAndRules(w) \/ PayUnattended(w) \/ OccurrenceStop(w)

Serve(r) ==
    \/ CreateMandate(r) \/ PutDraft(r) \/ PassGateway(r) \/ CloseNext(r) \/ SwitchDone(r)

Pays(t) == ReadClock(t) \/ PaySigned(t)

Release == StopRelease \/ \E o \in Occs : RunRelease(o)

Begin(r) == \/ Enroll(r) \/ Freeze(r) \/ BeginUnfreeze(r)
            \/ \E o \in Occs : Review(r, o) \/ Sign(r, o)

User == \/ Pause \/ Resume \/ Cancel
        \/ \E o \in Occs : \E outcome \in {"DECLINED", "CANCELLED"} : Decline(o, outcome)

Next ==
    \/ \E w \in Workers : BeginRun(w) \/ Step(w) \/ RunFails(w)
    \/ \E r \in Requests : Begin(r) \/ Serve(r)
    \/ \E t \in Threads : Pays(t)
    \/ Release \/ User \/ Tick \/ change_reference \/ Tamper \/ ServerRestarts

Spec == Init /\ [][Next]_vars

\* The server's loop ticks for ever and its runs go on; time passes; calls in
\* flight return.  Nothing is assumed of the user or of other workers.
Fairness ==
    /\ WF_vars(BeginRun(Loop)) /\ WF_vars(Step(Loop)) /\ WF_vars(Pays(Loop))
    /\ WF_vars(StopRelease) /\ WF_vars(Tick)
    /\ \A r \in Requests : WF_vars(Serve(r) \/ Pays(r))

FairSpec == Spec /\ Fairness

-----------------------------------------------------------------------------
Thread_ == [at : {"idle", "create", "due", "complete", "automatic", "biller", "switch",
                  "pay", "stop", "put", "signed", "when", "pay signed",
                  "release stopped", "freezing", "unfreezing"},
            occ : Occs \cup {0}, now : 0 .. MaxTime, todo : SUBSET Occs,
            stop : {"", "HELD", "NEEDS_REVIEW", "FAILED", "MISSED"}, suspend : BOOLEAN]

\* Types of the rows and of the threads' local state.
TypeOK ==
    /\ mandate \in [status : {"NONE", "ACTIVE", "PAUSED", "SUSPENDED", "CANCELLED", "COMPLETED"},
                    mode : {"SUPERVISED", "AUTO"}, successes : 0 .. Count, paid : 0 .. Count]
    /\ occs \in [Occs -> [status : {"NONE"} \cup OPEN \cup TERMINAL,
                          phase : {"NONE", "SUPERVISED", "AUTO"}]]
    /\ executions \in [Occs -> {"NONE", "EXECUTED", "FAILED", "DECLINED", "CANCELLED"}]
    /\ debits \in [Occs -> Nat]
    /\ authority \in [Occs -> {"NONE", "SIGNATURE", "MANDATE"}]
    /\ releases \subseteq Occs
    /\ intact \in BOOLEAN /\ billerSame \in BOOLEAN /\ frozen \in BOOLEAN
    /\ clock \in 0 .. MaxTime /\ faults \in 0 .. MaxFaults
    /\ offers \in [Occs -> {"none", "ready", "scheduled", "closed"}]
    /\ threads \in [Threads -> Thread_]

Paid   == {o \in Occs : occs[o].status = "EXECUTED"}
Signed == {o \in Paid : authority[o] = "SIGNATURE" /\ occs[o].phase = "SUPERVISED"}

\* The three books agree at every commit, whichever of workers, signatures,
\* declines, freezes and cancellations got there first: an occurrence reads
\* EXECUTED exactly when its key was executed and its money moved once; the
\* mandate's counters are what the occurrences say; and an arrangement that is
\* over has nothing left to pay.
BooksAgree ==
    /\ \A o \in Occs :
          /\ debits[o] = (IF o \in Paid THEN 1 ELSE 0)
          /\ executions[o] = "EXECUTED" <=> o \in Paid
          /\ executions[o] # "NONE" => occs[o].status \in TERMINAL
    /\ mandate.paid = Cardinality(Paid)
    /\ mandate.successes = Cardinality(Signed)
    /\ mandate.status \in {"CANCELLED", "COMPLETED"} =>
          \A o \in Occs : occs[o].status \notin OPEN

\* Money moves without a signature only after the user chose it and signed the
\* agreed number of supervised payments, each of an earlier occurrence: an
\* approval of a HELD payment, a declined or an expired one never counts.
AutoNeedsApprovals ==
    \A o \in Occs : authority[o] = "MANDATE" =>
        AutoAfter /\ Cardinality({p \in Signed : p < o}) >= Supervised

\* A notification that a payment will not be made (skipped, missed, expired,
\* declined, cancelled, failed) stays true: no stale run, late signature or
\* delayed release ever reopens the occurrence or debits it.
NotPaidStaysTrue ==
    [][\A o \in Occs : occs[o].status \in TERMINAL =>
          occs'[o].status = occs[o].status /\ debits'[o] = debits[o]]_vars

\* The execution key settles each occurrence at most once, whichever path.
Once == INSTANCE ExecuteOnce WITH Drafts <- Occs, Legs <- [o \in Occs |-> 1],
                                  outcome <- executions, moved <- debits
SettlesOnce == Once!Spec

\* No occurrence is left hanging: once enrolled, each of them is in time paid,
\* or ends without being paid, through failed runs and restarts.
EveryOccurrenceEnds ==
    \A o \in Occs : occs[o].status = "SCHEDULED" ~> occs[o].status \in TERMINAL

\* A thread past the kill-switch check will try its payment without asking again
\* (run_mandate_occurrence, submit and release_due ask once, before the executor's
\* lock).  While payments are frozen no thread gets past the check any more, and
\* every debit takes one that already was: a freeze lets through at most as many
\* payments as it found under way, whatever runs, releases and approvals follow.
PastSwitch == {t \in Threads : threads[t].at \in {"pay", "when", "pay signed"}}
FreezeDrains ==
    [][frozen => /\ PastSwitch' \subseteq PastSwitch
                 /\ debits' # debits => PastSwitch' # PastSwitch]_vars

\* The safety tables' promise, "while engaged, no outgoing payment executes",
\* from the moment the freeze is answered (data/db.py).
FreezeStopsMoney ==
    [][frozen /\ (\A r \in Requests : ~At(r, "freezing")) => debits' = debits]_vars
=============================================================================
