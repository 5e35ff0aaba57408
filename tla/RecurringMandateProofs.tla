----------------------- MODULE RecurringMandateProofs -----------------------
(***************************************************************************)
(* Proofs about RecurringMandate, for any workers, request threads, number *)
(* of occurrences and of supervised payments, clock, faults and changes of *)
(* the world: the three books agree, a debit without a signature has its   *)
(* approvals behind it, a payment reported not made is never made, the     *)
(* execution keys settle each occurrence once, and a freeze lets through   *)
(* only the payments that were under way.                                  *)
(*                                                                         *)
(* Every step of the model changes the books in one of five ways (Effect), *)
(* so each invariant of the books is shown against five cases instead of   *)
(* thirty actions; what the threads remember is then shown action by       *)
(* action from what those five ways leave true.                            *)
(***************************************************************************)
EXTENDS RecurringMandate, FiniteSetTheorems, TLAPS

-----------------------------------------------------------------------------
\* Where a thread has no occurrence in hand, and where it has a signed one or
\* one its user was offered.
OffOcc   == {"idle", "create", "due", "complete", "freezing", "unfreezing"}
SignedAt == {"put", "signed", "when", "pay signed", "release stopped"}

Placed ==
    \A t \in Threads :
        /\ threads[t].at \notin OffOcc => threads[t].occ \in Occs
        /\ threads[t].at = "stop" => threads[t].stop # ""

\* An occurrence that has fallen due, and been dealt with: it is SCHEDULED no
\* longer and never will be again.
Fallen(o) == occs[o].status \in APPROVABLE \cup TERMINAL

\* What a thread read earlier and still relies on.  A worker's list is in the
\* order of the due dates: what comes before a member is on it or has fallen.
Knows(t) ==
    /\ threads[t].at \in SignedAt => Fallen(threads[t].occ)
    /\ threads[t].at \in {"freezing", "unfreezing"} =>
          \A o \in threads[t].todo : Fallen(o)
    /\ threads[t].at \notin {"freezing", "unfreezing"} =>
          \A p \in threads[t].todo :
              /\ occs[p].status # "NONE"
              /\ \A o \in Occs : o < p =>
                    o \in threads[t].todo \/ Fallen(o) \/ mandate.mode = "AUTO"

OfferedFallen ==
    \A o \in Occs : /\ offers[o] # "none" => Fallen(o)
                    /\ o \in releases => Fallen(o)

Enrolled ==
    \A o \in Occs : mandate.status = "NONE" <=> occs[o].status = "NONE"

\* Supervised payments are asked for in the order of their due dates.
SupervisedInOrder ==
    \A p, o \in Occs : occs[p].phase = "SUPERVISED" /\ o < p => Fallen(o)

IInv ==
    /\ TypeOK /\ Placed /\ BooksAgree /\ Enrolled /\ OfferedFallen
    /\ SupervisedInOrder /\ AutoNeedsApprovals
    /\ \A t \in Threads : Knows(t)

-----------------------------------------------------------------------------
\* The type invariant by the part of the state it is about.
Phases     == {"NONE", "SUPERVISED", "AUTO"}
Statuses   == {"NONE"} \cup OPEN \cup TERMINAL
Mandate_   == [status : {"NONE", "ACTIVE", "PAUSED", "SUSPENDED", "CANCELLED", "COMPLETED"},
               mode : {"SUPERVISED", "AUTO"}, successes : 0 .. Count, paid : 0 .. Count]
BooksTyped ==
    /\ mandate \in Mandate_
    /\ occs \in [Occs -> [status : Statuses, phase : Phases]]
    /\ executions \in [Occs -> {"NONE", "EXECUTED", "FAILED", "DECLINED", "CANCELLED"}]
    /\ debits \in [Occs -> Nat]
    /\ authority \in [Occs -> {"NONE", "SIGNATURE", "MANDATE"}]
RestTyped ==
    /\ releases \subseteq Occs
    /\ intact \in BOOLEAN /\ billerSame \in BOOLEAN /\ frozen \in BOOLEAN
    /\ clock \in 0 .. MaxTime /\ faults \in 0 .. MaxFaults
    /\ offers \in [Occs -> {"none", "ready", "scheduled", "closed"}]
ThreadsTyped == threads \in [Threads -> Thread_]

LEMMA TypeParts == TypeOK <=> BooksTyped /\ RestTyped /\ ThreadsTyped
  BY DEF TypeOK, BooksTyped, RestTyped, ThreadsTyped, Mandate_, Statuses, Phases

LEMMA TypePartsNext == TypeOK' <=> BooksTyped' /\ RestTyped' /\ ThreadsTyped'
  BY DEF TypeOK, BooksTyped, RestTyped, ThreadsTyped, Mandate_, Statuses, Phases

\* The least occurrence of a worker's list is on it, and before all the others.
LEMMA MinOfNats ==
    ASSUME NEW S \in SUBSET Nat, S # {}
    PROVE  Min(S) \in S /\ \A y \in S : Min(S) =< y
<1>1. OpToRel(<, Nat) = {ss \in Nat \X Nat : ss[1] < ss[2]}
  BY DEF OpToRel
<1>2. PICK x \in S : \A y \in S : ~ (<<y, x>> \in OpToRel(<, Nat))
  BY NatLessThanWellFounded, WFMin, Zenon
<1>3. ASSUME NEW y \in S PROVE x =< y
  <2>1. x \in Nat /\ y \in Nat
    OBVIOUS
  <2>2. ~ (<<y, x>> \in {ss \in Nat \X Nat : ss[1] < ss[2]})
    BY <1>1, <1>2
  <2> QED BY <2>1, <2>2
<1> QED
  BY <1>3 DEF Min

LEMMA OccsAreNats == Occs \subseteq Nat /\ 0 \notin Occs
  BY MandateAssumption DEF Occs

LEMMA OccsFinite == IsFiniteSet(Occs) /\ Cardinality(Occs) = Count
<1>1. Count \in Nat /\ Count > 0
  BY MandateAssumption
<1>2. /\ IsFiniteSet(1 .. Count)
      /\ Cardinality(1 .. Count) = IF 1 > Count THEN 0 ELSE Count - 1 + 1
  BY <1>1, FS_Interval
<1> QED BY <1>1, <1>2 DEF Occs

-----------------------------------------------------------------------------
\* The five ways in which a step changes the books.
books == <<mandate, occs, executions, debits, authority>>

Enrolls ==
    /\ mandate.status = "NONE"
    /\ mandate' = [mandate EXCEPT !.status = "ACTIVE"]
    /\ occs' = [o \in Occs |-> [status |-> "SCHEDULED", phase |-> "NONE"]]
    /\ UNCHANGED <<executions, debits, authority>>

Pays_(o) == \E by \in {"SIGNATURE", "MANDATE"}, now \in Nat : Execute(o, by, now)

Closes(o) ==
    /\ Fallen(o)
    /\ \E outcome \in {"DECLINED", "CANCELLED"} : Close(o, outcome)
    /\ UNCHANGED <<mandate, debits, authority>>

\* An occurrence falls due, ends unpaid, or is left for its own day.
OccMoves(o) ==
    \/ occs'[o] = occs[o]
    \/ /\ occs[o].status \in OPEN
       /\ occs'[o].status \in (APPROVABLE \cup TERMINAL) \ {"EXECUTED"}
       /\ occs'[o].phase \in Phases
       /\ occs'[o].phase = "SUPERVISED" =>
             occs[o].phase = "SUPERVISED" \/ \A p \in Occs : p < o => Fallen(p)
    \/ /\ occs[o].status = "SCHEDULED"
       /\ occs'[o] = [status |-> "SCHEDULED", phase |-> "AUTO"]

MandateMoves ==
    \/ mandate' = mandate
    \/ /\ mandate.status \notin {"NONE", "CANCELLED", "COMPLETED"}
       /\ \E to \in {"ACTIVE", "PAUSED", "SUSPENDED"} :
             mandate' = [mandate EXCEPT !.status = to]
    \/ /\ mandate.status # "NONE"
       /\ \E to \in {"CANCELLED", "COMPLETED"} : mandate' = [mandate EXCEPT !.status = to]
       /\ \A o \in Occs : occs'[o].status \notin OPEN

RowsMove ==
    /\ occs' \in [Occs -> [status : Statuses, phase : Phases]]
    /\ \A o \in Occs : OccMoves(o)
    /\ MandateMoves
    /\ UNCHANGED <<executions, debits, authority>>

Effect ==
    \/ UNCHANGED books
    \/ Enrolls
    \/ \E o \in Occs : Pays_(o)
    \/ \E o \in Occs : Closes(o)
    \/ RowsMove


-----------------------------------------------------------------------------
\* Which way each action goes.  The bookkeeping of an action lies in the types
\* and in what its thread knows; Quiet steps do not touch the books.
LEMMA Statuses_ ==
    /\ "NONE" \notin OPEN \cup TERMINAL /\ "SCHEDULED" \notin APPROVABLE \cup TERMINAL
    /\ OPEN \cap TERMINAL = {} /\ APPROVABLE \subseteq OPEN
    /\ {"NONE"} \cup OPEN \cup TERMINAL = Statuses
    /\ \A s \in Statuses : s \in OPEN <=> s = "SCHEDULED" \/ s \in APPROVABLE
    /\ {"EXECUTED", "FAILED", "DECLINED", "EXPIRED", "MISSED", "SKIPPED", "CANCELLED"}
          = TERMINAL
    /\ {"PENDING_APPROVAL", "NEEDS_REVIEW", "HELD"} = APPROVABLE
  BY DEF OPEN, APPROVABLE, TERMINAL, Statuses

LEMMA QuietSteps ==
    ASSUME \/ \E t \in Threads : ReadClock(t)
           \/ \E w \in Workers : \/ BeginRun(w) \/ ReadOccurrence(w) \/ CheckBiller(w)
                                 \/ CheckSwitchAndRules(w) \/ RunFails(w)
           \/ \E r \in Requests : Begin(r) \/ PutDraft(r) \/ PassGateway(r) \/ SwitchDone(r)
           \/ (\E o \in Occs : RunRelease(o)) \/ Tick \/ change_reference \/ Tamper
           \/ ServerRestarts \/ UNCHANGED vars
    PROVE  UNCHANGED books
<1>1. \A t \in Threads : ReadClock(t) => UNCHANGED books
  BY DEF ReadClock, books, rows
<1>2. \A w \in Workers : BeginRun(w) \/ ReadOccurrence(w) \/ CheckBiller(w)
                            \/ CheckSwitchAndRules(w) \/ RunFails(w) => UNCHANGED books
  BY DEF BeginRun, ReadOccurrence, CheckBiller, CheckSwitchAndRules, RunFails, books, rows
<1>3. \A r \in Requests : Begin(r) => UNCHANGED books
  BY DEF Begin, Enroll, Freeze, BeginUnfreeze, Review, Sign, books, rows
<1>4. \A r \in Requests : PutDraft(r) \/ PassGateway(r) \/ SwitchDone(r) => UNCHANGED books
  BY DEF PutDraft, PassGateway, SwitchDone, books, rows
<1>5. (\E o \in Occs : RunRelease(o)) \/ Tick \/ change_reference \/ Tamper
         \/ ServerRestarts \/ UNCHANGED vars => UNCHANGED books
  BY DEF RunRelease, Tick, change_reference, Tamper, ServerRestarts, vars, books, rows
<1> QED BY <1>1, <1>2, <1>3, <1>4, <1>5

\* A conditional UPDATE of one occurrence is a move of it, and of it alone.
LEMMA SetMoves ==
    ASSUME BooksTyped, NEW o \in Occs, NEW to \in Statuses, NEW phase \in Phases,
           NEW from, set_occurrence(o, from, to, phase), from \subseteq OPEN,
           \/ /\ to \in (APPROVABLE \cup TERMINAL) \ {"EXECUTED"}
              /\ phase = "SUPERVISED" =>
                    occs[o].phase = "SUPERVISED" \/ \A p \in Occs : p < o => Fallen(p)
           \/ to = "SCHEDULED" /\ phase = "AUTO" /\ from = {"SCHEDULED"}
    PROVE  /\ occs' \in [Occs -> [status : Statuses, phase : Phases]]
           /\ \A p \in Occs : OccMoves(p)
           /\ \A p \in Occs \ {o} : occs'[p] = occs[p]
<1>t. occs \in [Occs -> [status : Statuses, phase : Phases]]
  BY DEF BooksTyped
<1>1. CASE occs[o].status \notin from
  <2>1. occs' = occs
    BY <1>1 DEF set_occurrence
  <2> QED BY <1>t, <2>1 DEF OccMoves
<1>2. CASE occs[o].status \in from
  <2> DEFINE new == [status |-> to, phase |-> phase]
  <2>1. new \in [status : Statuses, phase : Phases]
    OBVIOUS
  <2>2. new.status = to /\ new.phase = phase
    OBVIOUS
  <2>3. occs' = [occs EXCEPT ![o] = new]
    BY <1>2 DEF set_occurrence
  <2>4. to = "SCHEDULED" /\ phase = "AUTO" => new = [status |-> "SCHEDULED", phase |-> "AUTO"]
    OBVIOUS
  <2>5. from = {"SCHEDULED"} => occs[o].status = "SCHEDULED"
    BY <1>2
  <2> HIDE DEF new
  <2>6. occs'[o] = new /\ \A p \in Occs \ {o} : occs'[p] = occs[p]
    BY <1>t, <2>3
  <2>7. OccMoves(o)
    <3>1. occs[o].status \in OPEN
      BY <1>2
    <3> QED BY <2>2, <2>4, <2>5, <2>6, <3>1 DEF OccMoves
  <2>8. occs' \in [Occs -> [status : Statuses, phase : Phases]]
    BY <1>t, <2>1, <2>3
  <2> QED BY <2>6, <2>7, <2>8 DEF OccMoves
<1> QED BY <1>1, <1>2

\* A conditional UPDATE of the mandate's status is a move of the mandate.
LEMMA SuspendMoves ==
    ASSUME suspend PROVE MandateMoves
  BY DEF suspend, set_mandate, MandateMoves

LEMMA FallDueEffect ==
    ASSUME IInv, NEW w \in Workers, FallDue(w)
    PROVE  RowsMove
<1> DEFINE o == Min(threads[w].todo)
           now == threads[w].now
<1>1. w \in Threads /\ threads[w].at = "due" /\ threads[w].todo # {}
  BY DEF FallDue, At, Threads
<1>2. threads[w].todo \in SUBSET Nat /\ threads[w].todo \subseteq Occs
  <2>1. threads[w] \in Thread_
    BY <1>1 DEF IInv, TypeOK
  <2> QED BY <2>1, OccsAreNats DEF Thread_
<1>3. o \in Occs /\ \A y \in threads[w].todo : o =< y
  BY <1>1, <1>2, MinOfNats
<1>4. o \in threads[w].todo
  BY <1>1, <1>2, MinOfNats
<1>5. occs[o].status = "SCHEDULED" /\ mandate.mode # "AUTO" =>
         \A p \in Occs : p < o => Fallen(p)
  <2> SUFFICES ASSUME mandate.mode # "AUTO", NEW p \in Occs, p < o PROVE Fallen(p)
    OBVIOUS
  <2>1. p \notin threads[w].todo
    <3> SUFFICES ASSUME p \in threads[w].todo PROVE FALSE
      OBVIOUS
    <3>1. o =< p
      BY <1>3
    <3>2. o \in Nat /\ p \in Nat
      BY <1>3, OccsAreNats
    <3> QED BY <3>1, <3>2
  <2>2. Knows(w)
    BY <1>1 DEF IInv
  <2> QED BY <1>1, <1>4, <2>1, <2>2 DEF Knows
<1>6. UNCHANGED <<executions, debits, authority>>
  BY DEF FallDue
<1>b. BooksTyped
  BY TypeParts DEF IInv
<1>7. occs[o].phase \in Phases
  BY <1>3, <1>b DEF BooksTyped
<1>8. \/ occs[o].status # "SCHEDULED" /\ UNCHANGED <<mandate, occs>>
      \/ set_occurrence(o, {"SCHEDULED"}, "SKIPPED", occs[o].phase) /\ suspend
      \/ UNCHANGED mandate /\ set_occurrence(o, {"SCHEDULED"}, "SKIPPED", occs[o].phase)
      \/ UNCHANGED mandate /\ set_occurrence(o, {"SCHEDULED"}, "SCHEDULED", "AUTO")
      \/ UNCHANGED mandate /\ set_occurrence(o, {"SCHEDULED"}, "MISSED", "AUTO")
      \/ /\ UNCHANGED mandate /\ occs[o].status = "SCHEDULED" /\ mandate.mode # "AUTO"
         /\ \/ set_occurrence(o, {"SCHEDULED"}, "MISSED", "SUPERVISED")
            \/ set_occurrence(o, {"SCHEDULED"}, "PENDING_APPROVAL", "SUPERVISED")
  BY DEF FallDue
<1> HIDE DEF o
<1>s. {"SCHEDULED"} \subseteq OPEN /\ "MISSED" \in (APPROVABLE \cup TERMINAL) \ {"EXECUTED"}
        /\ "SKIPPED" \in (APPROVABLE \cup TERMINAL) \ {"EXECUTED"}
        /\ "PENDING_APPROVAL" \in (APPROVABLE \cup TERMINAL) \ {"EXECUTED"}
        /\ {"SCHEDULED", "MISSED", "SKIPPED", "PENDING_APPROVAL"} \subseteq Statuses
        /\ {"AUTO", "SUPERVISED"} \subseteq Phases
  BY DEF APPROVABLE, OPEN, TERMINAL, Statuses, Phases
<1>9. MandateMoves
  BY <1>8, SuspendMoves DEF MandateMoves
<1>10. /\ occs' \in [Occs -> [status : Statuses, phase : Phases]]
       /\ \A p \in Occs : OccMoves(p)
  <2>1. CASE UNCHANGED occs
    BY <1>b, <2>1 DEF OccMoves, BooksTyped
  <2>2. CASE set_occurrence(o, {"SCHEDULED"}, "SKIPPED", occs[o].phase)
    BY <1>3, <1>7, <1>b, <1>s, <2>2, SetMoves
  <2>3. CASE set_occurrence(o, {"SCHEDULED"}, "SCHEDULED", "AUTO")
    BY <1>3, <1>b, <1>s, <2>3, SetMoves
  <2>4. CASE set_occurrence(o, {"SCHEDULED"}, "MISSED", "AUTO")
    BY <1>3, <1>b, <1>s, <2>4, SetMoves
  <2>5. CASE /\ occs[o].status = "SCHEDULED" /\ mandate.mode # "AUTO"
             /\ \/ set_occurrence(o, {"SCHEDULED"}, "MISSED", "SUPERVISED")
                \/ set_occurrence(o, {"SCHEDULED"}, "PENDING_APPROVAL", "SUPERVISED")
    <3>1. \A p \in Occs : p < o => Fallen(p)
      BY <1>5, <2>5
    <3>2. CASE set_occurrence(o, {"SCHEDULED"}, "MISSED", "SUPERVISED")
      BY <1>3, <1>b, <1>s, <3>1, <3>2, SetMoves
    <3>3. CASE set_occurrence(o, {"SCHEDULED"}, "PENDING_APPROVAL", "SUPERVISED")
      BY <1>3, <1>b, <1>s, <3>1, <3>3, SetMoves
    <3> QED BY <2>5, <3>2, <3>3
  <2> QED BY <1>8, <2>1, <2>2, <2>3, <2>4, <2>5
<1> QED BY <1>6, <1>9, <1>10 DEF RowsMove

\* What has run out expires, whatever its phase.
LEMMA ExpireEffect ==
    ASSUME IInv, NEW w \in Workers, Expire(w)
    PROVE  RowsMove
<1>b. BooksTyped
  BY TypeParts DEF IInv
<1>t. occs \in [Occs -> [status : Statuses, phase : Phases]]
  BY <1>b DEF BooksTyped
<1>1. occs' = [o \in Occs |-> IF RanOut(o, threads[w].now)
                              THEN [occs[o] EXCEPT !.status = "EXPIRED"] ELSE occs[o]]
  BY DEF Expire
<1>2. ASSUME NEW o \in Occs
      PROVE  occs'[o] \in [status : Statuses, phase : Phases] /\ OccMoves(o)
  <2>1. CASE ~RanOut(o, threads[w].now)
    BY <1>1, <1>t, <2>1 DEF OccMoves
  <2>2. CASE RanOut(o, threads[w].now)
    <3>1. occs'[o] = [occs[o] EXCEPT !.status = "EXPIRED"]
      BY <1>1, <2>2
    <3>2. /\ occs'[o].status = "EXPIRED" /\ occs'[o].phase = occs[o].phase
          /\ occs[o].phase \in Phases
          /\ occs'[o] \in [status : Statuses, phase : Phases]
      BY <1>t, <3>1 DEF Statuses, TERMINAL
    <3>3. occs[o].status \in APPROVABLE
      BY <2>2 DEF RanOut
    <3>4. occs[o].status \in OPEN /\ "EXPIRED" \in (APPROVABLE \cup TERMINAL) \ {"EXECUTED"}
      BY <3>3 DEF OPEN, APPROVABLE, TERMINAL
    <3> QED BY <3>2, <3>4 DEF OccMoves
  <2> QED BY <2>1, <2>2
<1>3. occs' \in [Occs -> [status : Statuses, phase : Phases]]
  <2> DEFINE f(o) == IF RanOut(o, threads[w].now)
                     THEN [occs[o] EXCEPT !.status = "EXPIRED"] ELSE occs[o]
  <2>1. \A o \in Occs : f(o) \in [status : Statuses, phase : Phases]
    BY <1>1, <1>2
  <2>2. occs' = [o \in Occs |-> f(o)]
    BY <1>1
  <2> HIDE DEF f
  <2> QED BY <2>1, <2>2
<1>4. UNCHANGED <<mandate, executions, debits, authority>>
  BY DEF Expire
<1> QED BY <1>2, <1>3, <1>4 DEF RowsMove, MandateMoves

LEMMA CompleteEffect ==
    ASSUME IInv, NEW w \in Workers, Complete(w)
    PROVE  RowsMove
<1>b. BooksTyped
  BY TypeParts DEF IInv
<1>1. UNCHANGED <<occs, executions, debits, authority>>
  BY DEF Complete
<1>2. MandateMoves
  <2>1. CASE \A o \in Occs : occs[o].status \notin OPEN
    BY <1>1, <2>1 DEF Complete, set_mandate, MandateMoves
  <2>2. CASE ~ \A o \in Occs : occs[o].status \notin OPEN
    BY <2>2 DEF Complete, MandateMoves
  <2> QED BY <2>1, <2>2
<1> QED BY <1>1, <1>2, <1>b DEF RowsMove, OccMoves, BooksTyped

LEMMA OccurrenceStopEffect ==
    ASSUME IInv, NEW w \in Workers, OccurrenceStop(w)
    PROVE  RowsMove
<1> DEFINE o == threads[w].occ
           to == threads[w].stop
<1>b. BooksTyped
  BY TypeParts DEF IInv
<1>1. w \in Threads /\ threads[w].at = "stop"
  BY DEF OccurrenceStop, At, Threads
<1>2. o \in Occs /\ to # ""
  BY <1>1 DEF IInv, Placed, OffOcc
<1>3. to \in {"HELD", "NEEDS_REVIEW", "FAILED", "MISSED"}
  <2>1. threads[w] \in Thread_
    BY <1>1 DEF IInv, TypeOK
  <2> QED BY <1>2, <2>1 DEF Thread_
<1>4. set_occurrence(o, {"SCHEDULED"}, to, "AUTO")
  BY DEF OccurrenceStop
<1>5. UNCHANGED mandate \/ suspend
  BY DEF OccurrenceStop
<1>6. UNCHANGED <<executions, debits, authority>>
  BY DEF OccurrenceStop
<1> HIDE DEF o, to
<1>7. /\ to \in (APPROVABLE \cup TERMINAL) \ {"EXECUTED"} /\ to \in Statuses
      /\ {"SCHEDULED"} \subseteq OPEN /\ "AUTO" \in Phases
  BY <1>3 DEF APPROVABLE, TERMINAL, OPEN, Statuses, Phases
<1>8. /\ occs' \in [Occs -> [status : Statuses, phase : Phases]]
      /\ \A p \in Occs : OccMoves(p)
  BY <1>2, <1>4, <1>7, <1>b, SetMoves
<1>9. MandateMoves
  BY <1>5, SuspendMoves DEF MandateMoves
<1> QED BY <1>6, <1>8, <1>9 DEF RowsMove

LEMMA CancelEffect ==
    ASSUME IInv, Cancel
    PROVE  RowsMove
<1>b. BooksTyped
  BY TypeParts DEF IInv
<1>t. occs \in [Occs -> [status : Statuses, phase : Phases]]
  BY <1>b DEF BooksTyped
<1> DEFINE f(o) == IF occs[o].status \in OPEN
                   THEN [occs[o] EXCEPT !.status = "CANCELLED"] ELSE occs[o]
<1>1. occs' = [o \in Occs |-> f(o)]
  BY DEF Cancel
<1>2. ASSUME NEW o \in Occs
      PROVE  /\ f(o) \in [status : Statuses, phase : Phases]
             /\ f(o).status \notin OPEN
             /\ f(o) = occs[o] \/ /\ occs[o].status \in OPEN
                                  /\ f(o).status = "CANCELLED"
                                  /\ f(o).phase = occs[o].phase
                                  /\ occs[o].phase \in Phases
  <2>1. CASE occs[o].status \notin OPEN
    BY <1>t, <2>1
  <2>2. CASE occs[o].status \in OPEN
    <3>1. "CANCELLED" \in Statuses /\ "CANCELLED" \notin OPEN
      BY DEF Statuses, TERMINAL, OPEN, APPROVABLE
    <3> QED BY <1>t, <2>2, <3>1
  <2> QED BY <2>1, <2>2
<1> HIDE DEF f
<1>3. occs' \in [Occs -> [status : Statuses, phase : Phases]]
  BY <1>1, <1>2
<1>4. \A o \in Occs : occs'[o] = f(o)
  BY <1>1
<1>5. "CANCELLED" \in (APPROVABLE \cup TERMINAL) \ {"EXECUTED"}
  BY DEF TERMINAL
<1>6. \A o \in Occs : OccMoves(o)
  BY <1>2, <1>4, <1>5 DEF OccMoves
<1>7. MandateMoves
  <2>1. mandate.status \in {"ACTIVE", "PAUSED", "SUSPENDED"}
           /\ mandate' = [mandate EXCEPT !.status = "CANCELLED"]
    BY DEF Cancel, Moves, set_mandate
  <2> QED BY <1>2, <1>4, <2>1 DEF MandateMoves
<1>8. UNCHANGED <<executions, debits, authority>>
  BY DEF Cancel, Moves
<1> QED BY <1>3, <1>6, <1>7, <1>8 DEF RowsMove

LEMMA PauseEffect ==
    ASSUME IInv, Pause \/ Resume
    PROVE  RowsMove
<1>b. BooksTyped
  BY TypeParts DEF IInv
<1>1. UNCHANGED <<occs, executions, debits, authority>>
  BY DEF Pause, Resume, Moves
<1>2. MandateMoves
  <2>1. CASE Pause
    BY <2>1 DEF Pause, Moves, set_mandate, MandateMoves
  <2>2. CASE Resume
    BY <2>2 DEF Resume, Moves, set_mandate, MandateMoves
  <2> QED BY <2>1, <2>2
<1> QED BY <1>1, <1>2, <1>b DEF RowsMove, OccMoves, BooksTyped

\* The two that pay, and the three that close an unpaid occurrence.
LEMMA PayUnattendedEffect ==
    ASSUME IInv, NEW w \in Workers, PayUnattended(w)
    PROVE  UNCHANGED books \/ Pays_(threads[w].occ)
<1>1. w \in Threads
  BY DEF Threads
<1>2. threads[w].now \in Nat
  <2>1. threads[w] \in Thread_
    BY <1>1 DEF IInv, TypeOK
  <2>2. threads[w].now \in 0 .. MaxTime
    BY <2>1 DEF Thread_
  <2> QED BY <2>2
<1>3. \/ Execute(threads[w].occ, "MANDATE", threads[w].now)
      \/ UNCHANGED <<mandate, occs, executions, debits, authority>>
  BY DEF PayUnattended
<1> QED BY <1>2, <1>3 DEF Pays_, books

LEMMA PaySignedEffect ==
    ASSUME IInv, NEW t \in Threads, PaySigned(t)
    PROVE  UNCHANGED books \/ Pays_(threads[t].occ)
<1>2. threads[t].now \in Nat
  <2>1. threads[t] \in Thread_
    BY DEF IInv, TypeOK
  <2>2. threads[t].now \in 0 .. MaxTime
    BY <2>1 DEF Thread_
  <2> QED BY <2>2
<1>3. \/ Execute(threads[t].occ, "SIGNATURE", threads[t].now)
      \/ UNCHANGED <<mandate, occs, executions, debits, authority>>
  BY DEF PaySigned
<1> QED BY <1>2, <1>3 DEF Pays_, books

LEMMA LoopIsThread == Loop \in Threads
  BY MandateAssumption DEF Threads

\* A thread past its first read has an occurrence in hand.
LEMMA InHand ==
    ASSUME IInv, NEW t \in Threads, threads[t].at \notin OffOcc
    PROVE  threads[t].occ \in Occs
  BY DEF IInv, Placed

LEMMA NextEffect ==
    ASSUME IInv, [Next]_vars
    PROVE  Effect
<1>1. ASSUME NEW w \in Workers, BeginRun(w) \/ Step(w) \/ RunFails(w) PROVE Effect
  <2>1. CASE BeginRun(w) \/ ReadOccurrence(w) \/ CheckBiller(w) \/ CheckSwitchAndRules(w)
                \/ RunFails(w)
    BY <2>1, QuietSteps DEF Effect
  <2>2. CASE FallDue(w) \/ Expire(w) \/ Complete(w) \/ OccurrenceStop(w)
    BY <2>2, FallDueEffect, ExpireEffect, CompleteEffect, OccurrenceStopEffect DEF Effect
  <2>3. CASE PayUnattended(w)
    <3>1. threads[w].occ \in Occs
      <4>1. w \in Threads /\ threads[w].at \notin OffOcc
        BY <2>3 DEF PayUnattended, At, OffOcc, Threads
      <4> QED BY <4>1, InHand
    <3> QED BY <2>3, <3>1, PayUnattendedEffect DEF Effect
  <2> QED BY <1>1, <2>1, <2>2, <2>3 DEF Step
<1>2. ASSUME NEW r \in Requests, Begin(r) \/ Serve(r) PROVE Effect
  <2>r. r \in Threads
    BY DEF Threads
  <2>1. CASE Begin(r) \/ PutDraft(r) \/ PassGateway(r) \/ SwitchDone(r)
    BY <2>1, QuietSteps DEF Effect
  <2>2. CASE CreateMandate(r)
    BY <2>2 DEF CreateMandate, Effect, Enrolls, books
  <2>3. CASE CloseNext(r)
    <3>1. PICK o \in threads[r].todo : CloseDraft(o, "CANCELLED")
      BY <2>3 DEF CloseNext
    <3>2. Fallen(o)
      BY <2>3, <2>r DEF CloseNext, At, IInv, Knows
    <3>3. o \in Occs
      <4>1. threads[r] \in Thread_
        BY <2>r DEF IInv, TypeOK
      <4> QED BY <4>1 DEF Thread_
    <3>4. UNCHANGED <<mandate, debits, authority>>
      BY <2>3 DEF CloseNext
    <3> QED BY <3>1, <3>2, <3>3, <3>4 DEF CloseDraft, Closes, Effect
  <2> QED BY <1>2, <2>1, <2>2, <2>3 DEF Serve
<1>3. ASSUME NEW t \in Threads, Pays(t) PROVE Effect
  <2>1. CASE ReadClock(t)
    BY <2>1, QuietSteps DEF Effect
  <2>2. CASE PaySigned(t)
    <3>1. threads[t].occ \in Occs
      <4>1. threads[t].at \notin OffOcc
        BY <2>2 DEF PaySigned, At, OffOcc
      <4> QED BY <4>1, InHand
    <3> QED BY <2>2, <3>1, PaySignedEffect DEF Effect
  <2> QED BY <1>3, <2>1, <2>2 DEF Pays
<1>4. ASSUME Release PROVE Effect
  <2>1. CASE \E o \in Occs : RunRelease(o)
    BY <2>1, QuietSteps DEF Effect
  <2>2. CASE StopRelease
    <3>1. threads[Loop].at = "release stopped"
      BY <2>2 DEF StopRelease, At
    <3>2. Fallen(threads[Loop].occ) /\ threads[Loop].occ \in Occs
      BY <3>1, LoopIsThread, InHand DEF IInv, Knows, SignedAt, OffOcc
    <3> QED BY <2>2, <3>2 DEF StopRelease, Closes, Effect
  <2> QED BY <1>4, <2>1, <2>2 DEF Release
<1>5. ASSUME User PROVE Effect
  <2>1. CASE Pause \/ Resume \/ Cancel
    BY <2>1, PauseEffect, CancelEffect DEF Effect
  <2>2. CASE \E o \in Occs : \E outcome \in {"DECLINED", "CANCELLED"} : Decline(o, outcome)
    <3>1. PICK o \in Occs, outcome \in {"DECLINED", "CANCELLED"} : Decline(o, outcome)
      BY <2>2
    <3>2. Fallen(o)
      BY <3>1 DEF Decline, IInv, OfferedFallen
    <3> QED BY <3>1, <3>2 DEF Decline, CloseDraft, Closes, Effect
  <2> QED BY <1>5, <2>1, <2>2 DEF User
<1>6. CASE Tick \/ change_reference \/ Tamper \/ ServerRestarts \/ UNCHANGED vars
  BY <1>6, QuietSteps DEF Effect
<1> QED BY <1>1, <1>2, <1>3, <1>4, <1>5, <1>6 DEF Next

-----------------------------------------------------------------------------
\* What the executor's transaction does, once it has refused nothing.
Executes(o, by, outcome) ==
    /\ executions[o] = "NONE" /\ mandate.status = "ACTIVE" /\ mandate.paid < Count
    /\ occs[o].status \in OPEN
    /\ by = "SIGNATURE" => occs[o].status \in APPROVABLE
    /\ by = "MANDATE" => /\ occs[o].status = "SCHEDULED" /\ occs[o].phase = "AUTO"
                         /\ AutoOn(mandate)
    /\ executions' = [executions EXCEPT ![o] = outcome]
    /\ occs' = [occs EXCEPT ![o] = [status |-> outcome, phase |-> occs[o].phase]]
    /\ debits' = [debits EXCEPT ![o] = @ + DebitsOf(outcome)]
    /\ outcome = "FAILED" => mandate' = mandate /\ authority' = authority
    /\ outcome = "EXECUTED" =>
          mandate' = Credited(o, by) /\ authority' = [authority EXCEPT ![o] = by]

LEMMA ExecuteFacts ==
    ASSUME NEW o \in Occs, Pays_(o)
    PROVE  \E by \in {"SIGNATURE", "MANDATE"}, outcome \in {"EXECUTED", "FAILED"} :
              Executes(o, by, outcome)
<1>1. PICK by \in {"SIGNATURE", "MANDATE"}, now \in Nat : Execute(o, by, now)
  BY DEF Pays_
<1>2. ~execution_refusal(o, by, now) /\ executions[o] = "NONE"
  BY <1>1 DEF Execute
<1>3. mandate.status = "ACTIVE" /\ mandate.paid < Count
  BY <1>2 DEF execution_refusal, WithinTerms
<1>4. by = "SIGNATURE" => occs[o].status \in APPROVABLE
  BY <1>2 DEF execution_refusal, OpenForApproval
<1>5. by = "MANDATE" => occs[o] = [status |-> "SCHEDULED", phase |-> "AUTO"] /\ AutoOn(mandate)
  BY <1>2 DEF execution_refusal, PaysItself
<1>6. by = "MANDATE" => occs[o].status = "SCHEDULED" /\ occs[o].phase = "AUTO"
  BY <1>5
<1>7. occs[o].status \in OPEN
  BY <1>4, <1>6 DEF OPEN
<1>8. PICK outcome \in {"EXECUTED", "FAILED"} :
         /\ executions' = [executions EXCEPT ![o] = outcome]
         /\ record_execution(o, by, outcome)
         /\ debits' = [debits EXCEPT ![o] = @ + DebitsOf(outcome)]
         /\ authority' = IF outcome = "EXECUTED" THEN [authority EXCEPT ![o] = by]
                         ELSE authority
  BY <1>1 DEF Execute
<1>9. /\ occs' = [occs EXCEPT ![o] = [status |-> outcome, phase |-> occs[o].phase]]
      /\ mandate' = IF outcome = "FAILED" THEN mandate ELSE Credited(o, by)
  BY <1>7, <1>8 DEF record_execution, set_occurrence
<1>10. Executes(o, by, outcome)
  BY <1>2, <1>3, <1>4, <1>5, <1>6, <1>7, <1>8, <1>9 DEF Executes
<1> QED BY <1>10

\* The counters of the mandate after a payment, field by field.
LEMMA CreditedFields ==
    ASSUME NEW o \in Occs, NEW by
    PROVE  /\ Credited(o, by).paid = mandate.paid + 1
           /\ Credited(o, by).successes
                 = mandate.successes + (IF Counts(o, by) THEN 1 ELSE 0)
           /\ mandate.mode = "AUTO" => Credited(o, by).mode = "AUTO"
           /\ Credited(o, by).mode \in {"AUTO", mandate.mode}
           /\ Credited(o, by).status
                 = IF mandate.paid + 1 >= Count THEN "COMPLETED" ELSE mandate.status
           /\ DOMAIN Credited(o, by) = {"successes", "paid", "mode", "status"}
  BY DEF Credited

\* The occurrences after a step that pays or closes one of them.
LEMMA OneEnds ==
    ASSUME BooksTyped, NEW o \in Occs, NEW outcome \in Statuses,
           occs' = [occs EXCEPT ![o] = [status |-> outcome, phase |-> occs[o].phase]]
    PROVE  /\ occs' \in [Occs -> [status : Statuses, phase : Phases]]
           /\ occs'[o].status = outcome
           /\ \A p \in Occs : occs'[p].phase = occs[p].phase
           /\ \A p \in Occs \ {o} : occs'[p] = occs[p]
<1>t. occs \in [Occs -> [status : Statuses, phase : Phases]]
  BY DEF BooksTyped
<1> DEFINE new == [status |-> outcome, phase |-> occs[o].phase]
<1>1. /\ new.status = outcome /\ new.phase = occs[o].phase
      /\ new \in [status : Statuses, phase : Phases]
  BY <1>t
<1>2. occs' = [occs EXCEPT ![o] = new]
  OBVIOUS
<1> HIDE DEF new
<1>3. occs'[o] = new /\ \A p \in Occs \ {o} : occs'[p] = occs[p]
  BY <1>2, <1>t
<1>4. occs' \in [Occs -> [status : Statuses, phase : Phases]]
  BY <1>1, <1>2, <1>t
<1> QED BY <1>1, <1>3, <1>4

\* What a close does: nothing, or one occurrence that was waiting ends.
Closed(o) ==
    \E outcome \in {"DECLINED", "CANCELLED"} :
       /\ executions[o] = "NONE" /\ executions' = [executions EXCEPT ![o] = outcome]
       /\ \/ occs[o].status \notin APPROVABLE /\ occs' = occs
          \/ /\ occs[o].status \in APPROVABLE
             /\ occs' = [occs EXCEPT ![o] = [status |-> outcome, phase |-> occs[o].phase]]

LEMMA CloseFacts ==
    ASSUME NEW o \in Occs, Closes(o)
    PROVE  /\ Fallen(o) /\ UNCHANGED <<mandate, debits, authority>>
           /\ UNCHANGED <<executions, occs>> \/ Closed(o)
<1>1. PICK outcome \in {"DECLINED", "CANCELLED"} : Close(o, outcome)
  BY DEF Closes
<1>2. CASE executions[o] = "NONE"
  <2>1. /\ executions' = [executions EXCEPT ![o] = outcome]
        /\ set_occurrence(o, APPROVABLE, outcome, occs[o].phase)
    BY <1>1, <1>2 DEF Close
  <2> QED BY <1>2, <2>1 DEF Closed, Closes, set_occurrence
<1>3. CASE executions[o] # "NONE"
  BY <1>1, <1>3 DEF Close, Closes
<1> QED BY <1>2, <1>3

-----------------------------------------------------------------------------
\* What has fallen stays so, what is enrolled stays so, and automatic mode is
\* never left: all that a thread remembers between its transactions.
Persists ==
    /\ \A o \in Occs : Fallen(o) => Fallen(o)'
    /\ \A o \in Occs : occs[o].status # "NONE" => occs'[o].status # "NONE"
    /\ mandate.mode = "AUTO" => mandate'.mode = "AUTO"

LEMMA EffectPersists ==
    ASSUME IInv, Effect
    PROVE  Persists
<1>b. BooksTyped
  BY TypeParts DEF IInv
<1>s. /\ {"EXECUTED", "FAILED", "DECLINED", "CANCELLED"} \subseteq TERMINAL
      /\ TERMINAL \subseteq Statuses /\ "NONE" \notin APPROVABLE \cup TERMINAL
  BY DEF TERMINAL, Statuses, APPROVABLE
<1>1. CASE UNCHANGED books
  BY <1>1 DEF Persists, Fallen, books
<1>2. CASE Enrolls
  <2>1. \A o \in Occs : occs[o].status = "NONE"
    BY <1>2 DEF Enrolls, IInv, Enrolled
  <2>2. mandate'.mode = mandate.mode
    BY <1>2, <1>b DEF Enrolls, BooksTyped, Mandate_
  <2> QED BY <1>s, <2>1, <2>2 DEF Persists, Fallen
<1>3. ASSUME NEW o \in Occs, Pays_(o) PROVE Persists
  <2>1. PICK by \in {"SIGNATURE", "MANDATE"}, outcome \in {"EXECUTED", "FAILED"} :
           Executes(o, by, outcome)
    BY <1>3, ExecuteFacts
  <2>2. /\ occs'[o].status = outcome
        /\ \A p \in Occs \ {o} : occs'[p] = occs[p]
    BY <1>b, <1>s, <2>1, OneEnds DEF Executes
  <2>3. mandate.mode = "AUTO" => mandate'.mode = "AUTO"
    BY <2>1, CreditedFields DEF Executes
  <2>4. Fallen(o)' /\ occs'[o].status # "NONE"
    BY <1>s, <2>2 DEF Fallen
  <2>5. \A p \in Occs : p # o => occs'[p] = occs[p]
    BY <2>2
  <2> QED BY <2>3, <2>4, <2>5 DEF Persists, Fallen
<1>4. ASSUME NEW o \in Occs, Closes(o) PROVE Persists
  <2>1. UNCHANGED mandate
    BY <1>4, CloseFacts
  <2>2. CASE UNCHANGED occs
    BY <2>1, <2>2 DEF Persists, Fallen
  <2>3. CASE \E outcome \in {"DECLINED", "CANCELLED"} :
                occs' = [occs EXCEPT ![o] = [status |-> outcome, phase |-> occs[o].phase]]
    <3>1. PICK outcome \in {"DECLINED", "CANCELLED"} :
             occs' = [occs EXCEPT ![o] = [status |-> outcome, phase |-> occs[o].phase]]
      BY <2>3
    <3>2. /\ occs'[o].status = outcome
          /\ \A p \in Occs \ {o} : occs'[p] = occs[p]
      BY <1>b, <1>s, <3>1, OneEnds
    <3>3. Fallen(o)' /\ occs'[o].status # "NONE"
      BY <1>s, <3>2 DEF Fallen
    <3>4. \A p \in Occs : p # o => occs'[p] = occs[p]
      BY <3>2
    <3> QED BY <2>1, <3>3, <3>4 DEF Persists, Fallen
  <2> QED BY <1>4, <2>2, <2>3, CloseFacts DEF Closed
<1>5. CASE RowsMove
  <2>1. mandate'.mode = mandate.mode
    BY <1>5, <1>b DEF RowsMove, MandateMoves, BooksTyped, Mandate_
  <2>2. ASSUME NEW o \in Occs
        PROVE  /\ Fallen(o) => Fallen(o)'
               /\ occs[o].status # "NONE" => occs'[o].status # "NONE"
    <3>1. OccMoves(o)
      BY <1>5 DEF RowsMove
    <3>2. "SCHEDULED" \notin APPROVABLE \cup TERMINAL
      BY DEF APPROVABLE, TERMINAL
    <3>3. [status |-> "SCHEDULED", phase |-> "AUTO"].status = "SCHEDULED"
      OBVIOUS
    <3> QED BY <1>s, <3>1, <3>2, <3>3 DEF OccMoves, Fallen
  <2> QED BY <2>1, <2>2 DEF Persists
<1> QED BY <1>1, <1>2, <1>3, <1>4, <1>5 DEF Effect

-----------------------------------------------------------------------------
\* The types of the books, through each of the five.
LEMMA EffectTyped ==
    ASSUME IInv, Effect
    PROVE  BooksTyped'
<1>b. BooksTyped
  BY TypeParts DEF IInv
<1>s. /\ {"EXECUTED", "FAILED", "DECLINED", "CANCELLED"} \subseteq Statuses
      /\ "SCHEDULED" \in Statuses /\ "NONE" \in Phases
  BY DEF Statuses, TERMINAL, Phases, OPEN
<1>1. CASE UNCHANGED books
  BY <1>1, <1>b DEF BooksTyped, books
<1>2. CASE Enrolls
  <2>1. mandate' \in Mandate_
    BY <1>2, <1>b DEF Enrolls, BooksTyped, Mandate_
  <2>2. occs' \in [Occs -> [status : Statuses, phase : Phases]]
    BY <1>2, <1>s DEF Enrolls
  <2> QED BY <1>2, <1>b, <2>1, <2>2 DEF Enrolls, BooksTyped
<1>3. ASSUME NEW o \in Occs, Pays_(o) PROVE BooksTyped'
  <2>1. PICK by \in {"SIGNATURE", "MANDATE"}, outcome \in {"EXECUTED", "FAILED"} :
           Executes(o, by, outcome)
    BY <1>3, ExecuteFacts
  <2>2. occs' \in [Occs -> [status : Statuses, phase : Phases]]
    BY <1>b, <1>s, <2>1, OneEnds DEF Executes
  <2>3. mandate' \in Mandate_
    <3>1. CASE outcome = "FAILED"
      BY <1>b, <2>1, <3>1 DEF Executes, BooksTyped
    <3>2. CASE outcome = "EXECUTED"
      <4> DEFINE new == Credited(o, by)
      <4>1. mandate' = new
        BY <2>1, <3>2 DEF Executes
      <4>2. /\ mandate \in Mandate_ /\ mandate.paid < Count
            /\ mandate.paid = Cardinality(Paid) /\ mandate.successes = Cardinality(Signed)
        BY <1>b, <2>1 DEF IInv, BooksAgree, Executes, BooksTyped
      <4>3. mandate.successes =< mandate.paid
        <5>1. IsFiniteSet(Paid)
          BY OccsFinite, FS_Subset, Paid \in SUBSET Occs DEF Paid
        <5>2. Signed \in SUBSET Paid
          BY DEF Signed
        <5> QED BY <4>2, <5>1, <5>2, FS_Subset
      <4>4. Count \in Nat
        BY MandateAssumption
      <4>5. mandate.paid \in 0 .. Count /\ mandate.successes \in 0 .. Count
              /\ mandate.mode \in {"SUPERVISED", "AUTO"}
        BY <4>2 DEF Mandate_
      <4>6. new.paid \in 0 .. Count
        BY <4>2, <4>4, <4>5, CreditedFields
      <4>7. new.successes \in 0 .. Count
        <5>1. new.successes \in {mandate.successes, mandate.successes + 1}
          <6>1. mandate.successes + 0 = mandate.successes
            BY <4>5
          <6> QED BY <6>1, CreditedFields
        <5> QED BY <4>2, <4>3, <4>4, <4>5, <5>1
      <4>8. new.mode \in {"SUPERVISED", "AUTO"}
        BY <4>5, CreditedFields
      <4>9. new.status \in {"NONE", "ACTIVE", "PAUSED", "SUSPENDED", "CANCELLED", "COMPLETED"}
        BY <4>2, CreditedFields DEF Mandate_
      <4>10. new = [status |-> new.status, mode |-> new.mode,
                    successes |-> new.successes, paid |-> new.paid]
        BY DEF Credited
      <4> HIDE DEF new
      <4> QED BY <4>1, <4>6, <4>7, <4>8, <4>9, <4>10 DEF Mandate_
    <3> QED BY <3>1, <3>2
  <2>4. debits' \in [Occs -> Nat]
    <3>1. debits[o] + DebitsOf(outcome) \in Nat
      BY <1>b DEF BooksTyped, DebitsOf
    <3> QED BY <1>b, <2>1, <3>1 DEF Executes, BooksTyped
  <2>5. executions' \in [Occs -> {"NONE", "EXECUTED", "FAILED", "DECLINED", "CANCELLED"}]
    BY <1>b, <2>1 DEF Executes, BooksTyped
  <2>6. authority' \in [Occs -> {"NONE", "SIGNATURE", "MANDATE"}]
    BY <1>b, <2>1 DEF Executes, BooksTyped
  <2> QED BY <2>2, <2>3, <2>4, <2>5, <2>6 DEF BooksTyped
<1>4. ASSUME NEW o \in Occs, Closes(o) PROVE BooksTyped'
  <2>1. UNCHANGED <<mandate, debits, authority>>
    BY <1>4, CloseFacts
  <2>2. executions' \in [Occs -> {"NONE", "EXECUTED", "FAILED", "DECLINED", "CANCELLED"}]
    BY <1>4, <1>b, CloseFacts DEF Closed, BooksTyped
  <2>3. occs' \in [Occs -> [status : Statuses, phase : Phases]]
    <3>1. CASE UNCHANGED occs
      BY <1>b, <3>1 DEF BooksTyped
    <3>2. CASE \E outcome \in {"DECLINED", "CANCELLED"} :
                  occs' = [occs EXCEPT ![o] = [status |-> outcome, phase |-> occs[o].phase]]
      BY <1>b, <1>s, <3>2, OneEnds
    <3> QED BY <1>4, <3>1, <3>2, CloseFacts DEF Closed
  <2> QED BY <1>b, <2>1, <2>2, <2>3 DEF BooksTyped
<1>5. CASE RowsMove
  <2>1. mandate' \in Mandate_
    BY <1>5, <1>b DEF RowsMove, MandateMoves, BooksTyped, Mandate_
  <2> QED BY <1>5, <1>b, <2>1 DEF RowsMove, BooksTyped
<1> QED BY <1>1, <1>2, <1>3, <1>4, <1>5 DEF Effect

-----------------------------------------------------------------------------
\* A step that pays nothing leaves the paid and the signed as they are.
LEMMA SamePaid ==
    ASSUME IInv, authority' = authority,
           \A o \in Occs : occs'[o].status = "EXECUTED" <=> occs[o].status = "EXECUTED",
           \A o \in Occs : occs[o].status = "EXECUTED" => occs'[o].phase = occs[o].phase
    PROVE  Paid' = Paid /\ Signed' = Signed
<1>1. Paid' = Paid
  BY DEF Paid
<1>2. \A o \in Paid : occs'[o].phase = occs[o].phase
  BY DEF Paid
<1> QED BY <1>1, <1>2 DEF Signed

LEMMA SameApprovals ==
    ASSUME AutoNeedsApprovals, authority' = authority, Signed' = Signed
    PROVE  AutoNeedsApprovals'
  BY DEF AutoNeedsApprovals

\* The occurrence that has ended unpaid has no key that reads executed.
LEMMA ClosesPaid ==
    ASSUME IInv, NEW o \in Occs, Closes(o)
    PROVE  Paid' = Paid /\ Signed' = Signed
<1>b. BooksTyped
  BY TypeParts DEF IInv
<1>1. authority' = authority
  BY CloseFacts
<1>2. CASE UNCHANGED occs
  BY <1>1, <1>2, SamePaid
<1>3. CASE /\ occs[o].status \in APPROVABLE
           /\ \E outcome \in {"DECLINED", "CANCELLED"} :
                 occs' = [occs EXCEPT ![o] = [status |-> outcome, phase |-> occs[o].phase]]
  <2>1. PICK outcome \in {"DECLINED", "CANCELLED"} :
           occs' = [occs EXCEPT ![o] = [status |-> outcome, phase |-> occs[o].phase]]
    BY <1>3
  <2>2. outcome \in Statuses /\ occs[o].status # "EXECUTED"
    BY <1>3 DEF Statuses, TERMINAL, APPROVABLE
  <2>3. /\ occs'[o].status = outcome
        /\ \A p \in Occs : occs'[p].phase = occs[p].phase
        /\ \A p \in Occs \ {o} : occs'[p] = occs[p]
    BY <1>b, <2>1, <2>2, OneEnds
  <2>4. \A p \in Occs : occs'[p].status = "EXECUTED" <=> occs[p].status = "EXECUTED"
    BY <2>2, <2>3
  <2> QED BY <1>1, <2>3, <2>4, SamePaid
<1> QED BY <1>2, <1>3, CloseFacts DEF Closed

LEMMA RowsMovePaid ==
    ASSUME IInv, RowsMove
    PROVE  Paid' = Paid /\ Signed' = Signed
<1>1. ASSUME NEW o \in Occs
      PROVE  /\ occs'[o].status = "EXECUTED" <=> occs[o].status = "EXECUTED"
             /\ occs[o].status = "EXECUTED" => occs'[o].phase = occs[o].phase
  <2>1. OccMoves(o)
    BY DEF RowsMove
  <2>2. "EXECUTED" \notin OPEN /\ "EXECUTED" # "SCHEDULED"
    BY DEF OPEN, APPROVABLE
  <2>3. [status |-> "SCHEDULED", phase |-> "AUTO"].status = "SCHEDULED"
    OBVIOUS
  <2> QED BY <2>1, <2>2, <2>3 DEF OccMoves
<1> QED BY <1>1, SamePaid DEF RowsMove

LEMMA EnrollsPaid ==
    ASSUME IInv, Enrolls
    PROVE  Paid' = Paid /\ Signed' = Signed /\ Paid = {}
<1>1. \A o \in Occs : occs[o].status = "NONE" /\ occs'[o].status = "SCHEDULED"
  BY DEF Enrolls, IInv, Enrolled
<1> QED BY <1>1, SamePaid DEF Enrolls, Paid

\* A payment adds one occurrence to the paid; a signed one of the supervised
\* phase to the signed, and no other.
LEMMA ExecutesPaid ==
    ASSUME IInv, NEW o \in Occs, NEW by \in {"SIGNATURE", "MANDATE"},
           NEW outcome \in {"EXECUTED", "FAILED"}, Executes(o, by, outcome)
    PROVE  /\ o \notin Paid
           /\ outcome = "FAILED" => Paid' = Paid /\ Signed' = Signed
           /\ outcome = "EXECUTED" =>
                 /\ Paid' = Paid \cup {o}
                 /\ Signed' = IF Counts(o, by) THEN Signed \cup {o} ELSE Signed
<1>b. BooksTyped
  BY TypeParts DEF IInv
<1>1. o \notin Paid /\ o \notin Signed
  BY DEF IInv, BooksAgree, Executes, Signed
<1>2. outcome \in Statuses
  BY DEF Statuses, TERMINAL
<1>3. /\ occs'[o].status = outcome
      /\ \A p \in Occs : occs'[p].phase = occs[p].phase
      /\ \A p \in Occs \ {o} : occs'[p] = occs[p]
  BY <1>b, <1>2, OneEnds DEF Executes
<1>4. CASE outcome = "FAILED"
  <2>1. \A p \in Occs : occs'[p].status = "EXECUTED" <=> occs[p].status = "EXECUTED"
    BY <1>1, <1>3, <1>4 DEF Paid
  <2> QED BY <1>1, <1>3, <1>4, <2>1, SamePaid DEF Executes
<1>5. CASE outcome = "EXECUTED"
  <2>1. Paid' = Paid \cup {o}
    BY <1>3, <1>5 DEF Paid
  <2>2. authority'[o] = by /\ \A p \in Occs : p # o => authority'[p] = authority[p]
    BY <1>5, <1>b DEF Executes, BooksTyped
  <2>3. Counts(o, by) <=> authority'[o] = "SIGNATURE" /\ occs'[o].phase = "SUPERVISED"
    BY <1>3, <2>2 DEF Counts
  <2>4. ASSUME NEW p
        PROVE  p \in Signed' <=> p \in Signed \/ (p = o /\ Counts(o, by))
    <3>1. CASE p = o
      BY <1>1, <2>1, <2>3, <3>1 DEF Signed
    <3>2. CASE p # o
      <4>1. p \in Paid' <=> p \in Paid
        BY <2>1, <3>2
      <4>2. p \in Paid => p \in Occs
        BY DEF Paid
      <4> QED BY <1>3, <2>2, <3>2, <4>1, <4>2 DEF Signed
    <3> QED BY <3>1, <3>2
  <2> QED BY <1>1, <1>5, <2>1, <2>4
<1> QED BY <1>4, <1>5

LEMMA PaidFinite ==
    /\ IsFiniteSet(Paid) /\ IsFiniteSet(Signed)
    /\ Cardinality(Paid) \in Nat /\ Cardinality(Signed) \in Nat
<1>1. Paid \in SUBSET Occs /\ Signed \in SUBSET Occs
  BY DEF Paid, Signed
<1>2. IsFiniteSet(Paid) /\ IsFiniteSet(Signed)
  BY <1>1, OccsFinite, FS_Subset
<1> QED BY <1>2, FS_CardinalityType

-----------------------------------------------------------------------------
\* The books agree after each of the five.
AgreesAt(o) ==
    /\ debits[o] = (IF o \in Paid THEN 1 ELSE 0)
    /\ executions[o] = "EXECUTED" <=> o \in Paid
    /\ executions[o] # "NONE" => occs[o].status \in TERMINAL
Counted ==
    mandate.paid = Cardinality(Paid) /\ mandate.successes = Cardinality(Signed)
OverAndDone ==
    mandate.status \in {"CANCELLED", "COMPLETED"} => \A o \in Occs : occs[o].status \notin OPEN

LEMMA BooksParts ==
    /\ BooksAgree <=> (\A o \in Occs : AgreesAt(o)) /\ Counted /\ OverAndDone
    /\ BooksAgree' <=> (\A o \in Occs : AgreesAt(o)') /\ Counted' /\ OverAndDone'
  BY DEF BooksAgree, AgreesAt, Counted, OverAndDone

LEMMA EnrollsBooks ==
    ASSUME IInv, Enrolls
    PROVE  BooksAgree'
<1>b. BooksTyped
  BY TypeParts DEF IInv
<1>1. (\A o \in Occs : AgreesAt(o)) /\ Counted
  BY BooksParts DEF IInv
<1>2. Paid' = Paid /\ Signed' = Signed /\ Paid = {}
  BY EnrollsPaid
<1>3. \A o \in Occs : occs[o].status = "NONE"
  BY DEF Enrolls, IInv, Enrolled
<1>4. "NONE" \notin TERMINAL
  BY DEF TERMINAL
<1>5. UNCHANGED <<executions, debits>>
  BY DEF Enrolls
<1>6. \A o \in Occs : AgreesAt(o)'
  <2>1. \A o \in Occs : executions[o] = "NONE"
    BY <1>1, <1>3, <1>4 DEF AgreesAt
  <2> QED BY <1>1, <1>2, <1>5, <2>1 DEF AgreesAt
<1>7. /\ mandate'.paid = mandate.paid /\ mandate'.successes = mandate.successes
      /\ mandate'.status = "ACTIVE"
  BY <1>b DEF Enrolls, BooksTyped, Mandate_
<1>8. Counted'
  BY <1>1, <1>2, <1>7 DEF Counted
<1>9. OverAndDone'
  BY <1>7 DEF OverAndDone
<1> QED BY <1>6, <1>8, <1>9, BooksParts

LEMMA ExecutesBooks ==
    ASSUME IInv, NEW o \in Occs, NEW by \in {"SIGNATURE", "MANDATE"},
           NEW outcome \in {"EXECUTED", "FAILED"}, Executes(o, by, outcome)
    PROVE  BooksAgree'
<1>b. BooksTyped
  BY TypeParts DEF IInv
<1>1. (\A p \in Occs : AgreesAt(p)) /\ Counted /\ OverAndDone
  BY BooksParts DEF IInv
<1>p. /\ o \notin Paid
      /\ outcome = "FAILED" => Paid' = Paid /\ Signed' = Signed
      /\ outcome = "EXECUTED" =>
            /\ Paid' = Paid \cup {o}
            /\ Signed' = IF Counts(o, by) THEN Signed \cup {o} ELSE Signed
  BY ExecutesPaid
<1>2. outcome \in Statuses /\ outcome \in TERMINAL
  BY DEF Statuses, TERMINAL
<1>3. occs'[o].status = outcome /\ \A p \in Occs \ {o} : occs'[p] = occs[p]
  BY <1>b, <1>2, OneEnds DEF Executes
<1>4. ASSUME NEW p \in Occs
      PROVE  AgreesAt(p)'
  <2>1. AgreesAt(p)
    BY <1>1
  <2>2. CASE p # o
    <3>1. executions'[p] = executions[p] /\ debits'[p] = debits[p] /\ occs'[p] = occs[p]
      BY <1>3, <1>b, <2>2 DEF Executes, BooksTyped
    <3>2. p \in Paid' <=> p \in Paid
      BY <1>p, <2>2
    <3> QED BY <2>1, <3>1, <3>2 DEF AgreesAt
  <2>3. CASE p = o
    <3>1. executions'[o] = outcome /\ debits'[o] = debits[o] + DebitsOf(outcome)
      BY <1>b DEF Executes, BooksTyped
    <3>2. debits[o] = 0
      BY <1>1, <1>p DEF AgreesAt
    <3>3. debits'[o] = IF outcome = "EXECUTED" THEN 1 ELSE 0
      BY <3>1, <3>2 DEF DebitsOf
    <3>4. o \in Paid' <=> outcome = "EXECUTED"
      BY <1>p
    <3> QED BY <1>2, <1>3, <2>3, <3>1, <3>3, <3>4 DEF AgreesAt
  <2> QED BY <2>2, <2>3
<1>5. CASE outcome = "FAILED"
  <2>1. mandate' = mandate /\ mandate.status = "ACTIVE"
    BY <1>5 DEF Executes
  <2>2. Counted'
    BY <1>1, <1>p, <1>5, <2>1 DEF Counted
  <2>3. OverAndDone'
    BY <2>1 DEF OverAndDone
  <2> QED BY <1>4, <2>2, <2>3, BooksParts
<1>6. CASE outcome = "EXECUTED"
  <2>1. /\ mandate' = Credited(o, by) /\ mandate.status = "ACTIVE"
        /\ mandate.paid < Count
    BY <1>6 DEF Executes
  <2>2. /\ mandate'.paid = mandate.paid + 1
        /\ mandate'.successes = mandate.successes + (IF Counts(o, by) THEN 1 ELSE 0)
        /\ mandate'.status = IF mandate.paid + 1 >= Count THEN "COMPLETED" ELSE mandate.status
    BY <2>1, CreditedFields
  <2>3. Cardinality(Paid') = Cardinality(Paid) + 1
    BY <1>p, <1>6, PaidFinite, FS_AddElement
  <2>4. Cardinality(Signed') = Cardinality(Signed) + (IF Counts(o, by) THEN 1 ELSE 0)
    <3>1. o \notin Signed
      BY <1>p DEF Signed
    <3> QED BY <1>p, <1>6, <3>1, PaidFinite, FS_AddElement
  <2>5. Counted'
    <3>1. mandate'.paid = Cardinality(Paid')
      BY <1>1, <2>2, <2>3 DEF Counted
    <3>2. mandate'.successes = Cardinality(Signed')
      BY <1>1, <2>2, <2>4 DEF Counted
    <3> QED BY <3>1, <3>2 DEF Counted
  <2>6. OverAndDone'
    <3>1. CASE mandate.paid + 1 >= Count
      <4>1. Cardinality(Paid') = Count
        <5>1. Count \in Nat /\ mandate.paid = Cardinality(Paid) /\ Cardinality(Paid) \in Nat
          BY <1>1, MandateAssumption, PaidFinite DEF Counted
        <5> QED BY <2>1, <2>3, <3>1, <5>1
      <4>2. Paid' \in SUBSET Occs
        BY DEF Paid
      <4>3. Paid' = Occs
        BY <4>1, <4>2, OccsFinite, FS_Subset
      <4>4. \A p \in Occs : occs'[p].status = "EXECUTED"
        BY <4>3 DEF Paid
      <4>5. "EXECUTED" \notin OPEN
        BY DEF OPEN, APPROVABLE
      <4> QED BY <4>4, <4>5 DEF OverAndDone
    <3>2. CASE ~(mandate.paid + 1 >= Count)
      BY <2>1, <2>2, <3>2 DEF OverAndDone
    <3> QED BY <3>1, <3>2
  <2> QED BY <1>4, <2>5, <2>6, BooksParts
<1> QED BY <1>5, <1>6

LEMMA ClosesBooks ==
    ASSUME IInv, NEW o \in Occs, Closes(o)
    PROVE  BooksAgree'
<1>b. BooksTyped
  BY TypeParts DEF IInv
<1>1. (\A p \in Occs : AgreesAt(p)) /\ Counted /\ OverAndDone
  BY BooksParts DEF IInv
<1>2. Paid' = Paid /\ Signed' = Signed
  BY ClosesPaid
<1>3. UNCHANGED <<mandate, debits, authority>> /\ Fallen(o)
  BY CloseFacts
<1>c. Counted'
  BY <1>1, <1>2, <1>3 DEF Counted
<1>4. CASE UNCHANGED <<executions, occs>>
  <2>1. BooksAgree' <=> BooksAgree
    BY <1>2, <1>3, <1>4 DEF BooksAgree
  <2> QED BY <2>1 DEF IInv
<1>5. CASE Closed(o)
  <2>1. PICK outcome \in {"DECLINED", "CANCELLED"} :
           /\ executions[o] = "NONE" /\ executions' = [executions EXCEPT ![o] = outcome]
           /\ \/ occs[o].status \notin APPROVABLE /\ occs' = occs
              \/ /\ occs[o].status \in APPROVABLE
                 /\ occs' = [occs EXCEPT ![o] = [status |-> outcome, phase |-> occs[o].phase]]
    BY <1>5 DEF Closed
  <2>2. outcome \in Statuses /\ outcome \in TERMINAL /\ outcome # "EXECUTED"
          /\ outcome \notin OPEN
    BY DEF Statuses, TERMINAL, OPEN, APPROVABLE
  <2>3. /\ occs'[o].status \in TERMINAL /\ occs'[o].status \notin OPEN
        /\ \A p \in Occs : p # o => occs'[p] = occs[p]
    <3>1. CASE occs' = occs /\ occs[o].status \notin APPROVABLE
      <4>1. occs[o].status \in TERMINAL
        BY <1>3, <3>1 DEF Fallen
      <4> QED BY <3>1, <4>1 DEF TERMINAL, OPEN, APPROVABLE
    <3>2. CASE occs' = [occs EXCEPT ![o] = [status |-> outcome, phase |-> occs[o].phase]]
      <4>1. occs'[o].status = outcome /\ \A p \in Occs \ {o} : occs'[p] = occs[p]
        BY <1>b, <2>2, <3>2, OneEnds
      <4> QED BY <2>2, <4>1
    <3> QED BY <2>1, <3>1, <3>2
  <2>4. executions'[o] = outcome /\ \A p \in Occs : p # o => executions'[p] = executions[p]
    BY <1>b, <2>1 DEF BooksTyped
  <2>5. o \notin Paid
    BY <1>1, <2>1 DEF AgreesAt
  <2>6. \A p \in Occs : AgreesAt(p)'
    <3> SUFFICES ASSUME NEW p \in Occs PROVE AgreesAt(p)'
      OBVIOUS
    <3>1. CASE p = o
      BY <1>1, <1>2, <1>3, <2>2, <2>3, <2>4, <2>5, <3>1 DEF AgreesAt
    <3>2. CASE p # o
      BY <1>1, <1>2, <1>3, <2>3, <2>4, <3>2 DEF AgreesAt
    <3> QED BY <3>1, <3>2
  <2>7. OverAndDone'
    BY <1>1, <1>3, <2>3 DEF OverAndDone
  <2> QED BY <1>c, <2>6, <2>7, BooksParts
<1> QED BY <1>4, <1>5, CloseFacts

LEMMA RowsMoveBooks ==
    ASSUME IInv, RowsMove
    PROVE  BooksAgree'
<1>b. BooksTyped
  BY TypeParts DEF IInv
<1>1. (\A p \in Occs : AgreesAt(p)) /\ Counted /\ OverAndDone
  BY BooksParts DEF IInv
<1>2. Paid' = Paid /\ Signed' = Signed
  BY RowsMovePaid
<1>3. UNCHANGED <<executions, debits>>
  BY DEF RowsMove
<1>4. mandate'.paid = mandate.paid /\ mandate'.successes = mandate.successes
  BY <1>b DEF RowsMove, MandateMoves, BooksTyped, Mandate_
<1>c. Counted'
  BY <1>1, <1>2, <1>4 DEF Counted
<1>5. ASSUME NEW p \in Occs
      PROVE  /\ occs[p].status \in TERMINAL => occs'[p] = occs[p]
             /\ occs'[p].status \in OPEN => occs[p].status \in OPEN
  <2>1. OccMoves(p)
    BY DEF RowsMove
  <2>2. OPEN \cap TERMINAL = {} /\ "SCHEDULED" \in OPEN
    BY DEF OPEN, TERMINAL, APPROVABLE
  <2> QED BY <2>1, <2>2 DEF OccMoves
<1>6. \A p \in Occs : AgreesAt(p)'
  BY <1>1, <1>2, <1>3, <1>5 DEF AgreesAt
<1>7. OverAndDone'
  <2>1. CASE mandate' = mandate
    BY <1>1, <1>5, <2>1 DEF OverAndDone
  <2>2. CASE \E to \in {"ACTIVE", "PAUSED", "SUSPENDED"} :
                mandate' = [mandate EXCEPT !.status = to]
    <3>1. mandate'.status \in {"ACTIVE", "PAUSED", "SUSPENDED"}
      BY <1>b, <2>2 DEF BooksTyped, Mandate_
    <3> QED BY <3>1 DEF OverAndDone
  <2>3. CASE \A o \in Occs : occs'[o].status \notin OPEN
    BY <2>3 DEF OverAndDone
  <2> QED BY <2>1, <2>2, <2>3 DEF RowsMove, MandateMoves
<1> QED BY <1>6, <1>7, <1>c, BooksParts

LEMMA EffectBooks ==
    ASSUME IInv, Effect
    PROVE  BooksAgree'
<1>1. CASE UNCHANGED books
  <2>1. BooksAgree' <=> BooksAgree
    BY <1>1 DEF BooksAgree, Paid, Signed, books
  <2> QED BY <2>1 DEF IInv
<1>2. ASSUME NEW o \in Occs, Pays_(o) PROVE BooksAgree'
  BY <1>2, ExecuteFacts, ExecutesBooks
<1> QED BY <1>1, <1>2, EnrollsBooks, ClosesBooks, RowsMoveBooks DEF Effect

-----------------------------------------------------------------------------
\* One way to see a payment or a close: one occurrence ends, or none changes.
OneEnded ==
    \/ UNCHANGED occs
    \/ \E o \in Occs, outcome \in TERMINAL :
          /\ occs[o].status \in OPEN
          /\ occs' = [occs EXCEPT ![o] = [status |-> outcome, phase |-> occs[o].phase]]

LEMMA PaysOneEnds ==
    ASSUME NEW o \in Occs, Pays_(o)
    PROVE  OneEnded
<1>1. "EXECUTED" \in TERMINAL /\ "FAILED" \in TERMINAL
  BY DEF TERMINAL
<1>2. PICK by \in {"SIGNATURE", "MANDATE"}, outcome \in {"EXECUTED", "FAILED"} :
         Executes(o, by, outcome)
  BY ExecuteFacts
<1> QED BY <1>1, <1>2 DEF OneEnded, Executes

LEMMA ClosesOneEnds ==
    ASSUME NEW o \in Occs, Closes(o)
    PROVE  OneEnded
<1>1. "DECLINED" \in TERMINAL /\ "CANCELLED" \in TERMINAL /\ APPROVABLE \subseteq OPEN
  BY DEF TERMINAL, OPEN
<1> QED BY <1>1, CloseFacts DEF OneEnded, Closed

LEMMA OneEndedKeeps ==
    ASSUME IInv, OneEnded
    PROVE  /\ \A p \in Occs : occs'[p].phase = occs[p].phase
           /\ \A p \in Occs : occs'[p].status = "NONE" <=> occs[p].status = "NONE"
           /\ \A p \in Occs : occs[p].status \in TERMINAL => occs'[p] = occs[p]
<1>1. CASE UNCHANGED occs
  BY <1>1
<1>2. ASSUME NEW o \in Occs, NEW outcome \in TERMINAL, occs[o].status \in OPEN,
             occs' = [occs EXCEPT ![o] = [status |-> outcome, phase |-> occs[o].phase]]
      PROVE  /\ \A p \in Occs : occs'[p].phase = occs[p].phase
             /\ \A p \in Occs : occs'[p].status = "NONE" <=> occs[p].status = "NONE"
             /\ \A p \in Occs : occs[p].status \in TERMINAL => occs'[p] = occs[p]
  <2>1. BooksTyped
    BY TypeParts DEF IInv
  <2>2. outcome \in Statuses
    BY DEF Statuses
  <2>3. /\ occs'[o].status = outcome
        /\ \A p \in Occs : occs'[p].phase = occs[p].phase
        /\ \A p \in Occs \ {o} : occs'[p] = occs[p]
    BY <1>2, <2>1, <2>2, OneEnds
  <2>4. "NONE" \notin OPEN \cup TERMINAL /\ OPEN \cap TERMINAL = {}
    BY DEF OPEN, TERMINAL, APPROVABLE
  <2>5. outcome # "NONE" /\ occs[o].status # "NONE" /\ occs[o].status \notin TERMINAL
    BY <1>2, <2>4
  <2>6. \A p \in Occs : p # o => occs'[p] = occs[p]
    BY <2>3
  <2> QED BY <2>3, <2>5, <2>6
<1> QED BY <1>1, <1>2 DEF OneEnded

\* The mandate is there from the step on that creates its occurrences.
LEMMA EffectEnrolled ==
    ASSUME IInv, Effect
    PROVE  Enrolled'
<1>b. BooksTyped
  BY TypeParts DEF IInv
<1>e. \A o \in Occs : mandate.status = "NONE" <=> occs[o].status = "NONE"
  BY DEF IInv, Enrolled
<1>1. CASE UNCHANGED books
  BY <1>1, <1>e DEF Enrolled, books
<1>2. CASE Enrolls
  <2>1. mandate'.status = "ACTIVE"
    BY <1>2, <1>b DEF Enrolls, BooksTyped, Mandate_
  <2>2. \A o \in Occs : occs'[o].status = "SCHEDULED"
    BY <1>2 DEF Enrolls
  <2> QED BY <2>1, <2>2 DEF Enrolled
<1>3. ASSUME NEW o \in Occs, Pays_(o) PROVE Enrolled'
  <2>1. PICK by \in {"SIGNATURE", "MANDATE"}, outcome \in {"EXECUTED", "FAILED"} :
           Executes(o, by, outcome)
    BY <1>3, ExecuteFacts
  <2>2. mandate.status = "ACTIVE" /\ mandate'.status # "NONE"
    BY <2>1, CreditedFields DEF Executes
  <2> QED BY <1>3, <1>e, <2>2, PaysOneEnds, OneEndedKeeps DEF Enrolled
<1>4. ASSUME NEW o \in Occs, Closes(o) PROVE Enrolled'
  BY <1>4, <1>e, CloseFacts, ClosesOneEnds, OneEndedKeeps DEF Enrolled
<1>5. CASE RowsMove
  <2>1. mandate'.status = "NONE" <=> mandate.status = "NONE"
    BY <1>5, <1>b DEF RowsMove, MandateMoves, BooksTyped, Mandate_
  <2>2. ASSUME NEW o \in Occs PROVE occs'[o].status = "NONE" <=> occs[o].status = "NONE"
    <3>1. OccMoves(o)
      BY <1>5 DEF RowsMove
    <3>2. "NONE" \notin OPEN \cup APPROVABLE \cup TERMINAL
      BY DEF OPEN, APPROVABLE, TERMINAL
    <3>3. [status |-> "SCHEDULED", phase |-> "AUTO"].status = "SCHEDULED"
      OBVIOUS
    <3> QED BY <3>1, <3>2, <3>3 DEF OccMoves
  <2> QED BY <1>e, <2>1, <2>2 DEF Enrolled
<1> QED BY <1>1, <1>2, <1>3, <1>4, <1>5 DEF Effect

\* Only a worker makes an occurrence supervised, the next of its list, when
\* all before it have fallen.
LEMMA EffectInOrder ==
    ASSUME IInv, Effect
    PROVE  SupervisedInOrder'
<1>p. \A o \in Occs : Fallen(o) => Fallen(o)'
  BY EffectPersists DEF Persists
<1>s. \A p, o \in Occs : occs[p].phase = "SUPERVISED" /\ o < p => Fallen(o)
  BY DEF IInv, SupervisedInOrder
<1>1. CASE \A p \in Occs : occs'[p].phase = occs[p].phase
  BY <1>1, <1>p, <1>s DEF SupervisedInOrder
<1>2. CASE UNCHANGED books
  BY <1>1, <1>2 DEF books
<1>3. CASE Enrolls
  <2>1. \A o \in Occs : occs'[o].phase = "NONE"
    BY <1>3 DEF Enrolls
  <2> QED BY <2>1 DEF SupervisedInOrder
<1>4. ASSUME NEW o \in Occs, Pays_(o) \/ Closes(o) PROVE SupervisedInOrder'
  BY <1>1, <1>4, PaysOneEnds, ClosesOneEnds, OneEndedKeeps
<1>5. CASE RowsMove
  <2> SUFFICES ASSUME NEW p \in Occs, NEW o \in Occs,
                      occs'[p].phase = "SUPERVISED", o < p
               PROVE  Fallen(o)'
    BY DEF SupervisedInOrder
  <2>1. OccMoves(p)
    BY <1>5 DEF RowsMove
  <2>2. [status |-> "SCHEDULED", phase |-> "AUTO"].phase = "AUTO"
    OBVIOUS
  <2>3. occs[p].phase = "SUPERVISED" \/ \A q \in Occs : q < p => Fallen(q)
    BY <2>1, <2>2 DEF OccMoves
  <2> QED BY <1>p, <1>s, <2>3
<1> QED BY <1>2, <1>3, <1>4, <1>5 DEF Effect

\* The approvals that count toward the automatic payment of occurrence o.
LEMMA SignedBefore ==
    ASSUME NEW o, NEW S, IsFiniteSet(S), NEW T, IsFiniteSet(T), S \subseteq T
    PROVE  Cardinality({p \in S : p < o}) =< Cardinality({p \in T : p < o})
<1>1. {p \in T : p < o} \in SUBSET T
  OBVIOUS
<1>2. IsFiniteSet({p \in T : p < o})
  BY <1>1, FS_Subset
<1>3. {p \in S : p < o} \in SUBSET {p \in T : p < o}
  OBVIOUS
<1> QED BY <1>2, <1>3, FS_Subset

LEMMA EffectApprovals ==
    ASSUME IInv, Effect
    PROVE  AutoNeedsApprovals'
<1>b. BooksTyped
  BY TypeParts DEF IInv
<1>a. AutoNeedsApprovals
  BY DEF IInv
<1>1. CASE UNCHANGED books
  BY <1>1, <1>a DEF AutoNeedsApprovals, Paid, Signed, books
<1>2. CASE Enrolls
  BY <1>2, <1>a, EnrollsPaid, SameApprovals DEF Enrolls
<1>3. ASSUME NEW o \in Occs, Pays_(o) PROVE AutoNeedsApprovals'
  <2>1. PICK by \in {"SIGNATURE", "MANDATE"}, outcome \in {"EXECUTED", "FAILED"} :
           Executes(o, by, outcome)
    BY <1>3, ExecuteFacts
  <2>2. /\ o \notin Paid
        /\ outcome = "FAILED" => Paid' = Paid /\ Signed' = Signed
        /\ outcome = "EXECUTED" =>
              /\ Paid' = Paid \cup {o}
              /\ Signed' = IF Counts(o, by) THEN Signed \cup {o} ELSE Signed
    BY <2>1, ExecutesPaid
  <2>3. CASE outcome = "FAILED"
    BY <1>a, <2>1, <2>2, <2>3, SameApprovals DEF Executes
  <2>4. CASE outcome = "EXECUTED"
    <3>1. Signed \subseteq Signed' /\ IsFiniteSet(Signed')
      <4>1. IsFiniteSet(Signed \cup {o})
        BY PaidFinite, FS_AddElement
      <4> QED BY <2>2, <2>4, <4>1, PaidFinite
    <3>2. authority'[o] = by /\ \A p \in Occs : p # o => authority'[p] = authority[p]
      BY <1>b, <2>1, <2>4 DEF Executes, BooksTyped
    <3>3. ASSUME NEW q \in Occs, Cardinality({p \in Signed : p < q}) >= Supervised
          PROVE  Cardinality({p \in Signed' : p < q}) >= Supervised
      <4> DEFINE old == {p \in Signed : p < q}
                 new == {p \in Signed' : p < q}
      <4>1. Cardinality(old) =< Cardinality(new)
        BY <3>1, PaidFinite, SignedBefore
      <4>2. Cardinality(old) \in Nat /\ Cardinality(new) \in Nat
        <5>1. old \in SUBSET Signed /\ new \in SUBSET Signed'
          OBVIOUS
        <5>2. IsFiniteSet(old) /\ IsFiniteSet(new)
          BY <3>1, <5>1, PaidFinite, FS_Subset
        <5> QED BY <5>2, FS_CardinalityType
      <4>3. Cardinality(old) >= Supervised /\ Supervised \in Nat
        BY <3>3, MandateAssumption
      <4> HIDE DEF old, new
      <4>4. Cardinality(new) >= Supervised
        BY <4>1, <4>2, <4>3
      <4> QED BY <4>4 DEF new
    <3>4. ASSUME NEW q \in Occs, authority'[q] = "MANDATE"
          PROVE  AutoAfter /\ Cardinality({p \in Signed' : p < q}) >= Supervised
      <4>1. CASE q # o
        <5>1. authority[q] = "MANDATE"
          BY <3>2, <3>4, <4>1
        <5>2. AutoAfter /\ Cardinality({p \in Signed : p < q}) >= Supervised
          BY <1>a, <5>1 DEF AutoNeedsApprovals
        <5> QED BY <3>3, <5>2
      <4>2. CASE q = o
        <5>1. by = "MANDATE"
          BY <3>2, <3>4, <4>2
        <5>2. occs[o].status = "SCHEDULED" /\ AutoAfter /\ mandate.successes >= Supervised
          BY <2>1, <5>1 DEF Executes, AutoOn
        <5>3. ASSUME NEW p \in Signed PROVE p < o
          <6>1. p \in Occs /\ p \in Paid /\ occs[p].phase = "SUPERVISED"
            BY <5>3 DEF Signed, Paid
          <6>2. p # o
            BY <2>2, <6>1
          <6>3. ~(o < p)
            <7>1. ~Fallen(o)
              BY <5>2 DEF Fallen, APPROVABLE, TERMINAL
            <7> QED BY <6>1, <7>1 DEF IInv, SupervisedInOrder
          <6>4. o \in Nat /\ p \in Nat
            BY <6>1, OccsAreNats
          <6> QED BY <6>2, <6>3, <6>4
        <5>4. {p \in Signed : p < o} = Signed
          BY <5>3
        <5>5. Cardinality({p \in Signed : p < o}) >= Supervised
          <6>1. mandate.successes = Cardinality(Signed)
            BY DEF IInv, BooksAgree
          <6> QED BY <5>2, <5>4, <6>1
        <5> QED BY <3>3, <4>2, <5>2, <5>5
      <4> QED BY <4>1, <4>2
    <3> QED BY <3>4 DEF AutoNeedsApprovals
  <2> QED BY <2>3, <2>4
<1>4. ASSUME NEW o \in Occs, Closes(o) PROVE AutoNeedsApprovals'
  BY <1>4, <1>a, CloseFacts, ClosesPaid, SameApprovals
<1>5. CASE RowsMove
  BY <1>5, <1>a, RowsMovePaid, SameApprovals DEF RowsMove
<1> QED BY <1>1, <1>2, <1>3, <1>4, <1>5 DEF Effect

-----------------------------------------------------------------------------
\* What a thread's own record says is true: typed, placed, and what it relies
\* on still holds.
Sound(th) ==
    /\ th \in Thread_
    /\ th.at \notin OffOcc => th.occ \in Occs
    /\ th.at = "stop" => th.stop # ""
    /\ th.at \in SignedAt => Fallen(th.occ)
    /\ th.at \in {"freezing", "unfreezing"} => \A o \in th.todo : Fallen(o)
    /\ th.at \notin {"freezing", "unfreezing"} =>
          \A p \in th.todo :
              /\ occs[p].status # "NONE"
              /\ \A o \in Occs : o < p => o \in th.todo \/ Fallen(o) \/ mandate.mode = "AUTO"

AllSound == ThreadsTyped /\ \A t \in Threads : Sound(threads[t])

LEMMA SoundParts ==
    /\ AllSound <=> ThreadsTyped /\ Placed /\ \A t \in Threads : Knows(t)
    /\ AllSound' <=> ThreadsTyped' /\ Placed' /\ \A t \in Threads : Knows(t)'
  BY DEF AllSound, ThreadsTyped, Placed, Knows, Sound

LEMMA SoundNow == ASSUME IInv PROVE AllSound
  BY SoundParts, TypeParts DEF IInv

\* A record stays sound while its thread waits.
LEMMA SoundStays ==
    ASSUME NEW th, Sound(th), Persists
    PROVE  Sound(th)'
<1>1. th \in Thread_ /\ th.todo \subseteq Occs
  BY DEF Sound, Thread_
<1>2. SignedAt \cap OffOcc = {}
  BY DEF SignedAt, OffOcc
<1>3. th.at \in SignedAt => Fallen(th.occ)'
  BY <1>2 DEF Sound, Persists
<1>4. th.at \in {"freezing", "unfreezing"} => \A o \in th.todo : Fallen(o)'
  BY <1>1 DEF Sound, Persists
<1>5. th.at \notin {"freezing", "unfreezing"} =>
          \A p \in th.todo :
              /\ occs'[p].status # "NONE"
              /\ \A o \in Occs : o < p => o \in th.todo \/ Fallen(o)' \/ mandate'.mode = "AUTO"
  BY <1>1 DEF Sound, Persists
<1> QED BY <1>1, <1>3, <1>4, <1>5 DEF Sound

LEMMA SoundIdle ==
    Sound(Idle) /\ Sound(Idle)'
<1>1. /\ Idle.at = "idle" /\ Idle.occ = 0 /\ Idle.now = 0 /\ Idle.todo = {}
      /\ Idle.stop = "" /\ Idle.suspend = FALSE
  BY DEF Idle
<1>2. Idle \in Thread_
  <2>1. 0 \in 0 .. MaxTime
    BY MandateAssumption
  <2> QED BY <2>1 DEF Idle, Thread_
<1> QED BY <1>1, <1>2 DEF Sound, OffOcc, SignedAt

\* One thread moves on, and the others wait.
LEMMA PutThread ==
    ASSUME AllSound, Persists, NEW t \in Threads, NEW new, Sound(new)',
           threads' = [threads EXCEPT ![t] = new]
    PROVE  AllSound'
<1>1. new \in Thread_
  BY DEF Sound
<1>2. ThreadsTyped'
  BY <1>1 DEF AllSound, ThreadsTyped
<1>3. threads'[t] = new /\ \A q \in Threads : q # t => threads'[q] = threads[q]
  BY DEF AllSound, ThreadsTyped
<1>4. ASSUME NEW q \in Threads PROVE Sound(threads[q])'
  <2>1. CASE q = t
    BY <1>3, <2>1 DEF Sound, Fallen
  <2>2. CASE q # t
    <3>1. PICK th : th = threads[q] /\ threads'[q] = th
      BY <1>3, <2>2
    <3>2. Sound(th)
      BY <3>1 DEF AllSound
    <3>3. Sound(th)'
      BY <3>2, SoundStays
    <3> QED BY <3>1, <3>3 DEF Sound, Fallen
  <2> QED BY <2>1, <2>2
<1> QED BY <1>2, <1>4 DEF AllSound

\* The common moves of a thread.
LEMMA Returns ==
    ASSUME AllSound, Persists, NEW t \in Threads, Return(t)
    PROVE  AllSound'
<1>1. Sound(Idle)'
  BY SoundIdle
<1> QED BY <1>1, PutThread DEF Return

LEMMA GoesTo ==
    ASSUME AllSound, Persists, NEW t \in Threads,
           NEW at \in {"create", "biller", "switch", "pay", "when", "release stopped"},
           GoTo(t, at), threads[t].at \notin {"freezing", "unfreezing"},
           at # "create" => threads[t].occ \in Occs,
           at \in SignedAt => threads[t].at \in SignedAt
    PROVE  AllSound'
<1>1. PICK th : th = threads[t]
  OBVIOUS
<1>2. Sound(th)
  BY <1>1 DEF AllSound
<1>3. PICK new : new = [th EXCEPT !.at = at]
  OBVIOUS
<1>4. threads' = [threads EXCEPT ![t] = new]
  BY <1>1, <1>3 DEF GoTo
<1>5. /\ new \in Thread_ /\ new.at = at /\ new.occ = th.occ /\ new.todo = th.todo
  <2>1. th \in Thread_
    BY <1>2 DEF Sound
  <2> QED BY <1>3, <2>1 DEF Thread_
<1>6. Sound(th)'
  BY <1>2, SoundStays
<1>7. at \notin {"freezing", "unfreezing", "stop"} /\ (at \notin OffOcc => at # "create")
  BY DEF OffOcc
<1>8. Sound(new)'
  BY <1>1, <1>5, <1>6, <1>7 DEF Sound
<1> QED BY <1>4, <1>8, PutThread

LEMMA GoesOn ==
    ASSUME AllSound, Persists, NEW t \in Threads, NextDue(t),
           threads[t].at \notin {"freezing", "unfreezing"}
    PROVE  AllSound'
<1>1. PICK th : th = threads[t]
  OBVIOUS
<1>2. Sound(th)
  BY <1>1 DEF AllSound
<1>3. PICK new : new = [Idle EXCEPT !.at = "due", !.now = th.now, !.todo = th.todo]
  OBVIOUS
<1>4. threads' = [threads EXCEPT ![t] = new]
  BY <1>1, <1>3 DEF NextDue
<1>5. new \in Thread_ /\ new.at = "due" /\ new.todo = th.todo
  <2>1. th \in Thread_
    BY <1>2 DEF Sound
  <2> QED BY <1>3, <2>1 DEF Thread_, Idle
<1>6. Sound(th)'
  BY <1>2, SoundStays
<1>7. Sound(new)'
  BY <1>1, <1>5, <1>6 DEF Sound, OffOcc, SignedAt
<1> QED BY <1>4, <1>7, PutThread

LEMMA GoesToStop ==
    ASSUME AllSound, Persists, NEW t \in Threads,
           NEW to \in {"HELD", "NEEDS_REVIEW", "FAILED", "MISSED"}, NEW s \in BOOLEAN,
           StopWith(t, to, s), threads[t].at \notin {"freezing", "unfreezing"},
           threads[t].occ \in Occs
    PROVE  AllSound'
<1>1. PICK th : th = threads[t]
  OBVIOUS
<1>2. Sound(th)
  BY <1>1 DEF AllSound
<1>3. PICK new : new = [th EXCEPT !.at = "stop", !.stop = to, !.suspend = s]
  OBVIOUS
<1>4. threads' = [threads EXCEPT ![t] = new]
  BY <1>1, <1>3 DEF StopWith, AllSound, ThreadsTyped
<1>5. /\ new \in Thread_ /\ new.at = "stop" /\ new.occ = th.occ /\ new.todo = th.todo
      /\ new.stop = to
  <2>1. th \in Thread_
    BY <1>2 DEF Sound
  <2> QED BY <1>3, <2>1 DEF Thread_
<1>6. Sound(th)'
  BY <1>2, SoundStays
<1>7. Sound(new)'
  BY <1>1, <1>5, <1>6 DEF Sound, SignedAt
<1> QED BY <1>4, <1>7, PutThread

-----------------------------------------------------------------------------
\* The workers' actions on their own record.
LEMMA BeginRunSound ==
    ASSUME IInv, Persists, NEW w \in Workers, BeginRun(w)
    PROVE  AllSound'
<1>w. w \in Threads /\ AllSound
  BY SoundNow DEF Threads
<1> DEFINE list == IF mandate.status \in {"ACTIVE", "PAUSED", "SUSPENDED"} THEN DueNow ELSE {}
<1>1. PICK new : new = [Idle EXCEPT !.at = "due", !.now = clock, !.todo = list]
  OBVIOUS
<1>2. threads' = [threads EXCEPT ![w] = new]
  BY <1>1 DEF BeginRun
<1>3. list \subseteq Occs /\ clock \in 0 .. MaxTime
  BY DEF DueNow, IInv, TypeOK
<1>4. \A p \in list : occs[p].status = "SCHEDULED" /\ DueAt(p) =< clock
  BY DEF DueNow
<1>5. \A o \in Occs : occs[o].status = "SCHEDULED" /\ DueAt(o) =< clock /\ list # {}
                         => o \in list
  BY DEF DueNow
<1>6. list # {} => mandate.status # "NONE"
  OBVIOUS
<1> HIDE DEF list
<1>7. new \in Thread_ /\ new.at = "due" /\ new.todo = list
  BY <1>1, <1>3 DEF Thread_, Idle
<1>8. ASSUME NEW p \in list, NEW o \in Occs, o < p, o \notin list
      PROVE  Fallen(o)
  <2>1. p \in Occs /\ p \in Nat /\ o \in Nat /\ clock \in Nat
    BY <1>3, OccsAreNats
  <2>2. DueAt(o) =< DueAt(p)
    BY <1>8, <2>1 DEF DueAt
  <2>3. DueAt(p) =< clock
    BY <1>4
  <2>4. DueAt(o) \in Int /\ DueAt(p) \in Int
    BY <2>1 DEF DueAt
  <2>5. DueAt(o) =< clock
    BY <2>1, <2>2, <2>3, <2>4
  <2>6. occs[o].status # "SCHEDULED"
    BY <1>5, <1>8, <2>5
  <2>7. occs[o].status # "NONE"
    BY <1>6, <1>8 DEF IInv, Enrolled
  <2>8. occs[o].status \in {"NONE"} \cup OPEN \cup TERMINAL
    BY DEF IInv, TypeOK
  <2> QED BY <2>6, <2>7, <2>8 DEF Fallen, OPEN
<1>9. Sound(new)
  BY <1>4, <1>7, <1>8 DEF Sound, OffOcc, SignedAt
<1>10. Sound(new)'
  BY <1>9, SoundStays
<1> QED BY <1>2, <1>10, <1>w, PutThread

LEMMA FallDueSound ==
    ASSUME IInv, Persists, NEW w \in Workers, FallDue(w)
    PROVE  AllSound'
<1>w. w \in Threads /\ AllSound
  BY SoundNow DEF Threads
<1>1. PICK th : th = threads[w]
  OBVIOUS
<1>2. Sound(th) /\ th \in Thread_ /\ th.at = "due" /\ th.todo # {}
  BY <1>1, <1>w DEF AllSound, Sound, FallDue, At
<1>3. PICK o : o = Min(th.todo)
  OBVIOUS
<1>4. o \in th.todo /\ o \in Occs
  <2>1. th.todo \subseteq Occs
    BY <1>2 DEF Thread_
  <2>2. th.todo \in SUBSET Nat
    BY <2>1, OccsAreNats
  <2> QED BY <1>2, <1>3, <2>1, <2>2, MinOfNats
<1>5. PICK auto \in BOOLEAN :
         /\ auto = (/\ occs[o].status = "SCHEDULED" /\ intact /\ mandate.status = "ACTIVE"
                    /\ mandate.mode = "AUTO" /\ th.now <= AutoUntil(o))
  OBVIOUS
<1>6. PICK new : new = [th EXCEPT !.todo = @ \ {o}, !.occ = IF auto THEN o ELSE 0,
                                  !.at = IF auto THEN "automatic" ELSE "due"]
  OBVIOUS
<1>7. threads' = [threads EXCEPT ![w] = new]
  <2>1. threads' = [threads EXCEPT ![w].todo = @ \ {o}, ![w].occ = IF auto THEN o ELSE 0,
                                   ![w].at = IF auto THEN "automatic" ELSE "due"]
    BY <1>1, <1>3, <1>5 DEF FallDue
  <2> QED BY <1>1, <1>6, <1>w, <2>1 DEF AllSound, ThreadsTyped
<1>8. /\ new \in Thread_ /\ new.at = IF auto THEN "automatic" ELSE "due"
      /\ new.occ = IF auto THEN o ELSE 0
      /\ new.todo = th.todo \ {o}
  BY <1>2, <1>4, <1>6 DEF Thread_
<1>9. Sound(th)'
  BY <1>2, SoundStays
<1>10. Fallen(o)' \/ mandate'.mode = "AUTO"
  <2>1. \/ occs[o].status # "SCHEDULED" \/ mandate.mode = "AUTO"
        \/ set_occurrence(o, {"SCHEDULED"}, "SKIPPED", occs[o].phase)
        \/ set_occurrence(o, {"SCHEDULED"}, "MISSED", "SUPERVISED")
        \/ set_occurrence(o, {"SCHEDULED"}, "PENDING_APPROVAL", "SUPERVISED")
    BY <1>1, <1>3 DEF FallDue
  <2>2. CASE mandate.mode = "AUTO"
    BY <2>2 DEF Persists
  <2>3. CASE occs[o].status # "SCHEDULED"
    <3>1. Fallen(o)
      <4>1. occs[o].status \in {"NONE"} \cup OPEN \cup TERMINAL
        BY <1>4 DEF IInv, TypeOK
      <4>2. occs[o].status # "NONE"
        BY <1>2, <1>4 DEF Sound
      <4> QED BY <2>3, <4>1, <4>2 DEF Fallen, OPEN
    <3> QED BY <1>4, <3>1 DEF Persists
  <2>4. ASSUME occs[o].status = "SCHEDULED",
               NEW to \in {"SKIPPED", "MISSED", "PENDING_APPROVAL"}, NEW phase,
               set_occurrence(o, {"SCHEDULED"}, to, phase)
        PROVE  Fallen(o)'
    <3>1. occs' = [occs EXCEPT ![o] = [status |-> to, phase |-> phase]]
      BY <2>4 DEF set_occurrence
    <3>2. occs'[o].status = to
      BY <1>4, <3>1 DEF IInv, TypeOK
    <3>3. to \in APPROVABLE \cup TERMINAL
      BY DEF APPROVABLE, TERMINAL
    <3> QED BY <3>2, <3>3 DEF Fallen
  <2> QED BY <2>1, <2>2, <2>3, <2>4
<1>11. Sound(new)'
  BY <1>2, <1>4, <1>8, <1>9, <1>10 DEF Sound, OffOcc, SignedAt
<1> QED BY <1>7, <1>11, <1>w, PutThread

LEMMA ExpireSound ==
    ASSUME IInv, Persists, NEW w \in Workers, Expire(w)
    PROVE  AllSound'
<1>1. PICK new : new = [Idle EXCEPT !.at = "complete"]
  OBVIOUS
<1>2. threads' = [threads EXCEPT ![w] = new] /\ w \in Threads
  BY <1>1 DEF Expire, Threads
<1>3. Idle \in Thread_
  BY SoundIdle DEF Sound
<1>4. new \in Thread_ /\ new.at = "complete" /\ new.todo = {}
  BY <1>1, <1>3 DEF Thread_, Idle
<1>5. Sound(new)'
  BY <1>4 DEF Sound, OffOcc, SignedAt
<1> QED BY <1>2, <1>5, SoundNow, PutThread

LEMMA WorkerSound ==
    ASSUME IInv, Persists, NEW w \in Workers, Step(w) \/ BeginRun(w) \/ RunFails(w)
    PROVE  AllSound'
<1>w. w \in Threads /\ AllSound
  BY SoundNow DEF Threads
<1>o. threads[w].at \notin OffOcc => threads[w].occ \in Occs
  BY <1>w, InHand
<1>f. \A at : At(w, at) => threads[w].at = at
  BY DEF At
<1>1. CASE FallDue(w) \/ BeginRun(w) \/ Expire(w)
  BY <1>1, FallDueSound, BeginRunSound, ExpireSound
<1>2. CASE Complete(w) \/ RunFails(w)
  BY <1>2, <1>w, Returns DEF Complete, RunFails
<1>3. CASE OccurrenceStop(w)
  BY <1>3, <1>w, <1>f, GoesOn DEF OccurrenceStop
<1>4. CASE ReadOccurrence(w)
  <2>1. threads[w].at = "automatic" /\ threads[w].occ \in Occs
    BY <1>4, <1>f, <1>o DEF ReadOccurrence, OffOcc
  <2>2. \/ NextDue(w) \/ GoTo(w, "biller") \/ StopWith(w, "HELD", TRUE)
        \/ StopWith(w, "NEEDS_REVIEW", FALSE) \/ StopWith(w, "MISSED", FALSE)
        \/ StopWith(w, "HELD", FALSE)
    BY <1>4 DEF ReadOccurrence
  <2> QED BY <1>w, <2>1, <2>2, GoesOn, GoesTo, GoesToStop DEF SignedAt
<1>5. CASE CheckBiller(w)
  <2>1. threads[w].at = "biller" /\ threads[w].occ \in Occs
    BY <1>5, <1>f, <1>o DEF CheckBiller, OffOcc
  <2>2. GoTo(w, "switch") \/ StopWith(w, "HELD", TRUE)
    BY <1>5 DEF CheckBiller
  <2> QED BY <1>w, <2>1, <2>2, GoesTo, GoesToStop DEF SignedAt
<1>6. CASE CheckSwitchAndRules(w)
  <2>1. threads[w].at = "switch" /\ threads[w].occ \in Occs
    BY <1>6, <1>f, <1>o DEF CheckSwitchAndRules, OffOcc
  <2>2. \/ GoTo(w, "pay") \/ StopWith(w, "HELD", FALSE)
        \/ StopWith(w, "NEEDS_REVIEW", FALSE) \/ StopWith(w, "FAILED", FALSE)
    BY <1>6 DEF CheckSwitchAndRules
  <2> QED BY <1>w, <2>1, <2>2, GoesTo, GoesToStop DEF SignedAt
<1>7. CASE PayUnattended(w)
  <2>1. threads[w].at = "pay" /\ threads[w].occ \in Occs
    BY <1>7, <1>f, <1>o DEF PayUnattended, OffOcc
  <2>2. NextDue(w) \/ StopWith(w, "HELD", FALSE)
    BY <1>7 DEF PayUnattended
  <2> QED BY <1>w, <2>1, <2>2, GoesOn, GoesToStop
<1> QED BY <1>1, <1>2, <1>3, <1>4, <1>5, <1>6, <1>7 DEF Step

-----------------------------------------------------------------------------
\* The requests' actions, the signed payment's, and the world's.
LEMMA TakesInHand ==
    ASSUME AllSound, Persists, NEW t \in Threads, NEW o \in Occs, Fallen(o),
           NEW at \in {"put", "signed", "when", "release stopped"},
           threads[t].at \notin {"freezing", "unfreezing"},
           threads' = [threads EXCEPT ![t].at = at, ![t].occ = o]
    PROVE  AllSound'
<1>1. PICK th : th = threads[t]
  OBVIOUS
<1>2. Sound(th) /\ th \in Thread_
  BY <1>1 DEF AllSound, Sound
<1>3. PICK new : new = [th EXCEPT !.at = at, !.occ = o]
  OBVIOUS
<1>4. threads' = [threads EXCEPT ![t] = new]
  BY <1>1, <1>3 DEF AllSound, ThreadsTyped
<1>5. new \in Thread_ /\ new.at = at /\ new.occ = o /\ new.todo = th.todo
  BY <1>2, <1>3 DEF Thread_
<1>6. Sound(th)' /\ Fallen(o)'
  BY <1>2, SoundStays DEF Persists
<1>7. Sound(new)'
  BY <1>1, <1>5, <1>6 DEF Sound
<1> QED BY <1>4, <1>7, PutThread

LEMMA TakesSwitchSound ==
    ASSUME IInv, Persists, NEW r \in Requests, NEW at \in {"freezing", "unfreezing"},
           TakesSwitch(r, at)
    PROVE  AllSound'
<1>w. r \in Threads /\ AllSound
  BY SoundNow DEF Threads
<1>1. PICK th : th = threads[r]
  OBVIOUS
<1>2. Sound(th) /\ th \in Thread_
  BY <1>1, <1>w DEF AllSound, Sound
<1>3. PICK list : list = open_ids
  OBVIOUS
<1>4. list \subseteq Occs /\ \A o \in list : Fallen(o)
  BY <1>3 DEF open_ids, IInv, OfferedFallen
<1>5. PICK new : new = [th EXCEPT !.at = at, !.todo = list]
  OBVIOUS
<1>6. threads' = [threads EXCEPT ![r] = new]
  <2>1. threads' = [threads EXCEPT ![r].at = at, ![r].todo = list]
    BY <1>3 DEF TakesSwitch
  <2> QED BY <1>1, <1>5, <1>w, <2>1 DEF AllSound, ThreadsTyped
<1>7. new \in Thread_ /\ new.at = at /\ new.todo = list
  BY <1>2, <1>4, <1>5 DEF Thread_
<1>8. \A o \in list : Fallen(o)'
  BY <1>4 DEF Persists
<1>9. Sound(new)'
  BY <1>7, <1>8 DEF Sound, OffOcc, SignedAt
<1> QED BY <1>6, <1>9, <1>w, PutThread

LEMMA CloseNextSound ==
    ASSUME IInv, Persists, NEW r \in Requests, CloseNext(r)
    PROVE  AllSound'
<1>w. r \in Threads /\ AllSound
  BY SoundNow DEF Threads
<1>1. PICK th : th = threads[r]
  OBVIOUS
<1>2. Sound(th) /\ th \in Thread_ /\ th.at \in {"freezing", "unfreezing"}
  BY <1>1, <1>w DEF AllSound, Sound, CloseNext, At
<1>3. PICK o \in th.todo : threads' = [threads EXCEPT ![r].todo = @ \ {o}]
  BY <1>1 DEF CloseNext
<1>4. PICK new : new = [th EXCEPT !.todo = @ \ {o}]
  OBVIOUS
<1>5. threads' = [threads EXCEPT ![r] = new]
  BY <1>1, <1>3, <1>4, <1>w DEF AllSound, ThreadsTyped
<1>6. new \in Thread_ /\ new.at = th.at /\ new.todo = th.todo \ {o}
  BY <1>2, <1>4 DEF Thread_
<1>7. Sound(th)'
  BY <1>2, SoundStays
<1>8. Sound(new)'
  BY <1>2, <1>6, <1>7 DEF Sound, OffOcc, SignedAt
<1> QED BY <1>5, <1>8, <1>w, PutThread

LEMMA RequestSound ==
    ASSUME IInv, Persists, NEW r \in Requests, Begin(r) \/ Serve(r)
    PROVE  AllSound'
<1>w. r \in Threads /\ AllSound
  BY SoundNow DEF Threads
<1>o. threads[r].at \notin OffOcc => threads[r].occ \in Occs
  BY <1>w, InHand
<1>f. \A at : At(r, at) => threads[r].at = at
  BY DEF At
<1>1. CASE Freeze(r) \/ BeginUnfreeze(r)
  BY <1>1, TakesSwitchSound DEF Freeze, BeginUnfreeze
<1>2. CASE Enroll(r)
  BY <1>2, <1>w, <1>f, GoesTo DEF Enroll, SignedAt
<1>3. ASSUME NEW o \in Occs, Review(r, o) \/ Sign(r, o) PROVE AllSound'
  <2>1. threads[r].at = "idle"
    BY <1>3, <1>f DEF Review, Sign
  <2>2. CASE Review(r, o)
    <3>1. Fallen(o)
      BY <2>2 DEF Review, Fallen
    <3> QED BY <1>w, <2>1, <2>2, <3>1, TakesInHand DEF Review
  <2>3. CASE Sign(r, o)
    <3>1. Fallen(o)
      BY <2>3 DEF Sign, IInv, OfferedFallen
    <3> QED BY <1>w, <2>1, <2>3, <3>1, TakesInHand DEF Sign
  <2> QED BY <1>3, <2>2, <2>3
<1>4. CASE CreateMandate(r) \/ PutDraft(r) \/ SwitchDone(r)
  BY <1>4, <1>w, Returns DEF CreateMandate, PutDraft, SwitchDone
<1>5. CASE PassGateway(r)
  <2>1. threads[r].at = "signed" /\ threads[r].occ \in Occs
    BY <1>5, <1>f, <1>o DEF PassGateway, OffOcc
  <2>2. Return(r) \/ GoTo(r, "when")
    BY <1>5 DEF PassGateway
  <2> QED BY <1>w, <2>1, <2>2, Returns, GoesTo DEF SignedAt
<1>6. CASE CloseNext(r)
  BY <1>6, CloseNextSound
<1> QED BY <1>1, <1>2, <1>3, <1>4, <1>5, <1>6 DEF Begin, Serve

LEMMA PaysSound ==
    ASSUME IInv, Persists, NEW t \in Threads, Pays(t)
    PROVE  AllSound'
<1>w. AllSound
  BY SoundNow
<1>1. CASE ReadClock(t)
  <2>1. PICK th : th = threads[t]
    OBVIOUS
  <2>2. Sound(th) /\ th \in Thread_ /\ th.at = "when"
    BY <1>1, <1>w, <2>1 DEF AllSound, Sound, ReadClock, At
  <2>3. PICK new : new = [th EXCEPT !.at = "pay signed", !.now = clock]
    OBVIOUS
  <2>4. threads' = [threads EXCEPT ![t] = new]
    BY <1>1, <1>w, <2>1, <2>3 DEF ReadClock, AllSound, ThreadsTyped
  <2>5. clock \in 0 .. MaxTime
    BY DEF IInv, TypeOK
  <2>6. new \in Thread_ /\ new.at = "pay signed" /\ new.occ = th.occ /\ new.todo = th.todo
    BY <2>2, <2>3, <2>5 DEF Thread_
  <2>7. Sound(th)'
    BY <2>2, SoundStays
  <2>8. Sound(new)'
    BY <2>2, <2>6, <2>7 DEF Sound, OffOcc, SignedAt
  <2> QED BY <1>w, <2>4, <2>8, PutThread
<1>2. CASE PaySigned(t)
  <2>1. threads[t].at = "pay signed"
    BY <1>2 DEF PaySigned, At
  <2>2. threads[t].occ \in Occs
    BY <2>1, InHand DEF OffOcc
  <2>3. Return(t) \/ GoTo(t, "release stopped")
    BY <1>2 DEF PaySigned
  <2> QED BY <1>w, <2>1, <2>2, <2>3, Returns, GoesTo DEF SignedAt
<1> QED BY <1>1, <1>2 DEF Pays

LEMMA ReleaseSound ==
    ASSUME IInv, Persists, Release
    PROVE  AllSound'
<1>w. AllSound /\ Loop \in Threads
  BY SoundNow, LoopIsThread
<1>1. CASE StopRelease
  BY <1>1, <1>w, Returns DEF StopRelease
<1>2. ASSUME NEW o \in Occs, RunRelease(o) PROVE AllSound'
  <2>1. Fallen(o) /\ threads[Loop].at = "idle"
    BY <1>2 DEF RunRelease, IInv, OfferedFallen, At
  <2>2. PICK at \in {"when", "release stopped"} :
           threads' = [threads EXCEPT ![Loop].at = at, ![Loop].occ = o]
    <3> DEFINE at == IF frozen THEN "release stopped" ELSE "when"
    <3>1. at \in {"when", "release stopped"}
      OBVIOUS
    <3>2. threads' = [threads EXCEPT ![Loop].at = at, ![Loop].occ = o]
      BY <1>2 DEF RunRelease
    <3> HIDE DEF at
    <3> QED BY <3>1, <3>2
  <2> QED BY <1>w, <2>1, <2>2, TakesInHand
<1> QED BY <1>1, <1>2 DEF Release

\* A thread that does nothing, and the server's that lose what they had.
LEMMA WaitsOrStops ==
    ASSUME AllSound, Persists, NEW Lost \in SUBSET Threads,
           threads' = [t \in Threads |-> IF t \in Lost THEN Idle ELSE threads[t]]
    PROVE  AllSound'
<1>1. ASSUME NEW t \in Threads PROVE Sound(threads[t])' /\ threads'[t] \in Thread_
  <2>1. CASE t \in Lost
    <3>1. threads'[t] = Idle
      BY <2>1
    <3>2. PICK th : th = Idle
      OBVIOUS
    <3>3. threads'[t] = th /\ Sound(th)'
      BY <3>1, <3>2, SoundIdle
    <3> QED BY <3>3 DEF Sound, Fallen
  <2>2. CASE t \notin Lost
    <3>1. PICK th : th = threads[t] /\ threads'[t] = th
      BY <2>2
    <3>2. Sound(th)'
      BY <3>1, SoundStays DEF AllSound
    <3> QED BY <3>1, <3>2 DEF Sound, Fallen
  <2> QED BY <2>1, <2>2
<1>2. ThreadsTyped'
  <2>1. threads' = [t \in Threads |-> threads'[t]]
    OBVIOUS
  <2> QED BY <1>1, <2>1 DEF ThreadsTyped
<1> QED BY <1>1, <1>2 DEF AllSound

LEMMA OthersSound ==
    ASSUME IInv, Persists,
           \/ User \/ Tick \/ change_reference \/ Tamper \/ ServerRestarts \/ UNCHANGED vars
    PROVE  AllSound'
<1>w. AllSound
  BY SoundNow
<1>1. CASE UNCHANGED threads
  <2>1. PICK Lost \in SUBSET Threads : Lost = {}
    OBVIOUS
  <2>2. threads' = [t \in Threads |-> IF t \in Lost THEN Idle ELSE threads[t]]
    <3>1. threads = [t \in Threads |-> threads[t]]
      BY <1>w DEF AllSound, ThreadsTyped
    <3> QED BY <1>1, <2>1, <3>1
  <2> QED BY <1>w, <2>2, WaitsOrStops
<1>2. CASE ServerRestarts
  <2>1. Requests \cup {Loop} \in SUBSET Threads
    BY LoopIsThread DEF Threads
  <2>2. threads' = [t \in Threads |-> IF t \in Requests \cup {Loop} THEN Idle ELSE threads[t]]
    BY <1>2 DEF ServerRestarts
  <2> QED BY <1>w, <2>1, <2>2, WaitsOrStops
<1>3. CASE User
  BY <1>1, <1>3 DEF User, Pause, Resume, Cancel, Moves, Decline
<1>4. CASE Tick \/ change_reference \/ Tamper \/ UNCHANGED vars
  BY <1>1, <1>4 DEF Tick, change_reference, Tamper, vars
<1> QED BY <1>2, <1>3, <1>4

LEMMA NextSound ==
    ASSUME IInv, Persists, [Next]_vars
    PROVE  AllSound'
  BY WorkerSound, RequestSound, PaysSound, ReleaseSound, OthersSound DEF Next

-----------------------------------------------------------------------------
\* What is offered or waits for its delayed run has fallen due.  A step that
\* leaves the draft store and the releases alone, or loses some of them:
OffersKept ==
    /\ \A o \in Occs : offers'[o] # "none" => offers[o] # "none" \/ Fallen(o)
    /\ \A o \in releases' : o \in releases \/ Fallen(o)

LEMMA KeptFallen ==
    ASSUME IInv, Persists, OffersKept
    PROVE  OfferedFallen'
  BY DEF IInv, OfferedFallen, OffersKept, Persists

LEMMA SameOffers ==
    ASSUME RestTyped, UNCHANGED <<releases, world, past, offers>>
    PROVE  RestTyped' /\ OffersKept
  BY DEF RestTyped, world, past, OffersKept

\* One offer changes, for an occurrence that has fallen.
LEMMA OneOffer ==
    ASSUME RestTyped, NEW o \in Occs, Fallen(o), NEW to \in {"ready", "scheduled", "closed"},
           offers' = [offers EXCEPT ![o] = to], UNCHANGED <<world, past>>,
           releases' \in {releases, releases \cup {o}, releases \ {o}}
    PROVE  RestTyped' /\ OffersKept
<1>1. RestTyped'
  BY DEF RestTyped, world, past
<1>2. \A p \in Occs : p # o => offers'[p] = offers[p]
  BY DEF RestTyped
<1> QED BY <1>1, <1>2 DEF OffersKept

LEMMA ClosesOffers ==
    ASSUME RestTyped, NEW o \in Occs, Fallen(o), NEW outcome, CloseDraft(o, outcome),
           UNCHANGED <<world, past>>
    PROVE  RestTyped' /\ OffersKept
<1>1. CASE executions[o] = "NONE"
  <2>1. offers' = [offers EXCEPT ![o] = "closed"] /\ releases' = releases \ {o}
    BY <1>1 DEF CloseDraft
  <2> QED BY <2>1, OneOffer
<1>2. CASE executions[o] # "NONE"
  <2>1. UNCHANGED <<offers, releases>>
    BY <1>2 DEF CloseDraft
  <2> QED BY <2>1, SameOffers
<1> QED BY <1>1, <1>2

LEMMA RequestRest ==
    ASSUME IInv, NEW r \in Requests, Begin(r) \/ Serve(r)
    PROVE  RestTyped' /\ OffersKept
<1>r. RestTyped /\ r \in Threads
  BY TypeParts DEF IInv, Threads
<1>k. threads[r].at \in SignedAt => threads[r].occ \in Occs /\ Fallen(threads[r].occ)
  BY <1>r, InHand DEF IInv, Knows, SignedAt, OffOcc
<1>1. CASE Enroll(r) \/ BeginUnfreeze(r) \/ \E o \in Occs : Review(r, o) \/ Sign(r, o)
  BY <1>1, <1>r, SameOffers DEF Enroll, BeginUnfreeze, Review, Sign, rows
<1>2. CASE Freeze(r) \/ SwitchDone(r)
  <2>1. UNCHANGED <<releases, intact, billerSame, past, offers>>
    BY <1>2 DEF Freeze, SwitchDone, rows
  <2>2. frozen' \in BOOLEAN
    <3>1. frozen' = TRUE \/ frozen' = (threads[r].at = "freezing")
      BY <1>2 DEF Freeze, SwitchDone, At
    <3>2. (threads[r].at = "freezing") \in BOOLEAN
      OBVIOUS
    <3> QED BY <3>1, <3>2
  <2> QED BY <1>r, <2>1, <2>2 DEF RestTyped, past, OffersKept
<1>3. CASE CreateMandate(r)
  BY <1>3, <1>r, SameOffers DEF CreateMandate
<1>4. CASE PutDraft(r)
  <2>1. threads[r].occ \in Occs /\ Fallen(threads[r].occ)
    BY <1>4, <1>k DEF PutDraft, At, SignedAt
  <2>2. /\ offers' = [offers EXCEPT ![threads[r].occ] = "ready"]
        /\ UNCHANGED <<releases, world, past>>
    BY <1>4 DEF PutDraft, rows
  <2> QED BY <1>r, <2>1, <2>2, OneOffer
<1>5. CASE PassGateway(r)
  <2>1. threads[r].occ \in Occs /\ Fallen(threads[r].occ)
    BY <1>5, <1>k DEF PassGateway, At, SignedAt
  <2>2. /\ UNCHANGED <<world, past>>
        /\ \/ UNCHANGED <<releases, offers>>
           \/ /\ releases' = releases \cup {threads[r].occ}
              /\ offers' = [offers EXCEPT ![threads[r].occ] = "scheduled"]
    BY <1>5 DEF PassGateway
  <2> QED BY <1>r, <2>1, <2>2, SameOffers, OneOffer
<1>6. CASE CloseNext(r)
  <2>1. PICK o \in threads[r].todo : CloseDraft(o, "CANCELLED")
    BY <1>6 DEF CloseNext
  <2>2. Fallen(o)
    BY <1>6, <1>r DEF CloseNext, At, IInv, Knows
  <2>3. o \in Occs
    <3>1. threads[r] \in Thread_
      BY <1>r DEF IInv, TypeOK
    <3> QED BY <3>1 DEF Thread_
  <2> QED BY <1>6, <1>r, <2>1, <2>2, <2>3, ClosesOffers DEF CloseNext
<1> QED BY <1>1, <1>2, <1>3, <1>4, <1>5, <1>6 DEF Begin, Serve

LEMMA NextRest ==
    ASSUME IInv, [Next]_vars
    PROVE  RestTyped' /\ OffersKept
<1>r. RestTyped
  BY TypeParts DEF IInv
<1>f. ASSUME Faulted PROVE clock' = clock /\ faults' \in 0 .. MaxFaults
  <2>1. faults \in 0 .. MaxFaults /\ faults' = faults + 1 /\ faults < MaxFaults
    BY <1>f, <1>r DEF Faulted, RestTyped
  <2> QED BY <1>f, <2>1, MandateAssumption DEF Faulted
<1>1. ASSUME NEW w \in Workers, BeginRun(w) \/ Step(w) PROVE RestTyped' /\ OffersKept
  <2>1. UNCHANGED <<releases, world, past, offers>>
    BY <1>1 DEF BeginRun, Step, FallDue, Expire, Complete, ReadOccurrence, CheckBiller,
                CheckSwitchAndRules, PayUnattended, OccurrenceStop, rows
  <2> QED BY <1>r, <2>1, SameOffers
<1>2. ASSUME NEW w \in Workers, RunFails(w) PROVE RestTyped' /\ OffersKept
  <2>1. UNCHANGED <<releases, world, offers>> /\ Faulted
    BY <1>2 DEF RunFails, rows
  <2> QED BY <1>r, <1>f, <2>1 DEF RestTyped, world, OffersKept
<1>3. ASSUME NEW t \in Threads, Pays(t) PROVE RestTyped' /\ OffersKept
  <2>1. CASE ReadClock(t)
    BY <1>r, <2>1, SameOffers DEF ReadClock, rows
  <2>2. CASE PaySigned(t)
    <3>1. threads[t].at = "pay signed"
      BY <2>2 DEF PaySigned, At
    <3>2. threads[t].occ \in Occs /\ Fallen(threads[t].occ)
      BY <3>1, InHand DEF IInv, Knows, SignedAt, OffOcc
    <3>3. /\ UNCHANGED <<releases, world, past>>
          /\ offers' = offers \/ offers' = [offers EXCEPT ![threads[t].occ] = "closed"]
      BY <2>2 DEF PaySigned
    <3> QED BY <1>r, <3>2, <3>3, SameOffers, OneOffer
  <2> QED BY <1>3, <2>1, <2>2 DEF Pays
<1>4. CASE StopRelease
  <2>1. threads[Loop].at = "release stopped"
    BY <1>4 DEF StopRelease, At
  <2>2. threads[Loop].occ \in Occs /\ Fallen(threads[Loop].occ)
    BY <2>1, LoopIsThread, InHand DEF IInv, Knows, SignedAt, OffOcc
  <2> QED BY <1>4, <1>r, <2>2, OneOffer DEF StopRelease
<1>5. ASSUME NEW o \in Occs, RunRelease(o) PROVE RestTyped' /\ OffersKept
  BY <1>5, <1>r DEF RunRelease, RestTyped, world, past, OffersKept
<1>6. CASE Pause \/ Resume \/ Cancel
  BY <1>6, <1>r, SameOffers DEF Pause, Resume, Cancel, Moves
<1>7. ASSUME NEW o \in Occs, NEW outcome, Decline(o, outcome) PROVE RestTyped' /\ OffersKept
  <2>1. Fallen(o)
    BY <1>7 DEF Decline, IInv, OfferedFallen
  <2> QED BY <1>7, <1>r, <2>1, ClosesOffers DEF Decline
<1>8. CASE Tick
  <2>1. clock' \in 0 .. MaxTime
    <3>1. clock \in 0 .. MaxTime /\ clock' = clock + 1 /\ clock < MaxTime
      BY <1>8, <1>r DEF Tick, RestTyped
    <3> QED BY <3>1, MandateAssumption
  <2>2. UNCHANGED <<releases, world, faults, offers>>
    BY <1>8 DEF Tick, rows
  <2> QED BY <1>r, <2>1, <2>2 DEF RestTyped, world, OffersKept
<1>9. CASE change_reference \/ Tamper
  BY <1>9, <1>r DEF change_reference, Tamper, rows, RestTyped, past, OffersKept
<1>10. CASE ServerRestarts
  <2>1. /\ offers' = [o \in Occs |-> "none"] /\ UNCHANGED <<releases, world>> /\ Faulted
    BY <1>10 DEF ServerRestarts, rows
  <2> QED BY <1>r, <1>f, <2>1 DEF RestTyped, world, OffersKept
<1>11. CASE UNCHANGED vars
  BY <1>11, <1>r, SameOffers DEF vars, rows
<1> QED BY <1>1, <1>2, <1>3, <1>4, <1>5, <1>6, <1>7, <1>8, <1>9, <1>10, <1>11, RequestRest
        DEF Next, Release, User

-----------------------------------------------------------------------------
\* The invariant.
LEMMA InitIInv == Init => IInv
<1> SUFFICES ASSUME Init PROVE IInv
  OBVIOUS
<1>m. /\ mandate.status = "NONE" /\ mandate.mode = "SUPERVISED"
      /\ mandate.successes = 0 /\ mandate.paid = 0
  BY DEF Init
<1>o. \A o \in Occs : occs[o].status = "NONE" /\ occs[o].phase = "NONE"
  BY DEF Init
<1>t. \A t \in Threads : threads[t] = Idle
  BY DEF Init
<1>p. Paid = {} /\ Signed = {}
  BY <1>o DEF Paid, Signed
<1>1. TypeOK
  <2>1. BooksTyped
    <3>1. 0 \in 0 .. Count
      BY MandateAssumption
    <3>2. mandate \in Mandate_
      BY <3>1 DEF Init, Mandate_
    <3> QED BY <3>2 DEF Init, BooksTyped, Statuses, Phases
  <2>2. RestTyped
    <3>1. 0 \in 0 .. MaxTime /\ 0 \in 0 .. MaxFaults
      BY MandateAssumption
    <3> QED BY <3>1 DEF Init, RestTyped
  <2>3. ThreadsTyped
    BY SoundIdle DEF Init, ThreadsTyped, Sound
  <2> QED BY <2>1, <2>2, <2>3, TypeParts
<1>2. Placed /\ \A t \in Threads : Knows(t)
  <2>1. AllSound
    BY <1>t, SoundIdle DEF AllSound, Init, ThreadsTyped, Sound
  <2> QED BY <2>1, SoundParts
<1>3. BooksAgree
  <2>1. Cardinality({}) = 0
    BY FS_EmptySet
  <2> QED BY <1>m, <1>p, <2>1 DEF BooksAgree, Init
<1>4. Enrolled /\ OfferedFallen /\ SupervisedInOrder
  BY <1>m, <1>o DEF Init, Enrolled, OfferedFallen, SupervisedInOrder
<1>5. AutoNeedsApprovals
  BY DEF Init, AutoNeedsApprovals
<1> QED BY <1>1, <1>2, <1>3, <1>4, <1>5 DEF IInv

LEMMA NextIInv == IInv /\ [Next]_vars => IInv'
<1> SUFFICES ASSUME IInv, [Next]_vars PROVE IInv'
  OBVIOUS
<1>1. Effect
  BY NextEffect
<1>2. Persists
  BY <1>1, EffectPersists
<1>3. BooksTyped' /\ BooksAgree' /\ Enrolled' /\ SupervisedInOrder' /\ AutoNeedsApprovals'
  BY <1>1, EffectTyped, EffectBooks, EffectEnrolled, EffectInOrder, EffectApprovals
<1>4. AllSound'
  BY <1>2, NextSound
<1>5. RestTyped' /\ OfferedFallen'
  BY <1>2, NextRest, KeptFallen
<1>6. TypeOK'
  BY <1>3, <1>4, <1>5, TypePartsNext, SoundParts
<1> QED BY <1>3, <1>4, <1>5, <1>6, SoundParts DEF IInv

\* The inductive invariant holds of every behaviour: the rows agree with one
\* another, and with what each thread remembers of them.
THEOREM Invariance == Spec => []IInv
  BY InitIInv, NextIInv, PTL DEF Spec

-----------------------------------------------------------------------------
\* The rows and the threads' records are of their types, for any constants.
THEOREM TypeTheorem == Spec => []TypeOK
<1>1. IInv => TypeOK
  BY DEF IInv
<1> QED BY <1>1, Invariance, PTL

\* The occurrence, its execution key, its debit and the mandate's counters say
\* the same after every transaction of any number of workers and requests: no
\* worker with an old list, late signature or close in between makes a payment
\* twice, uncounts one or leaves one open on an arrangement that is over.
THEOREM BooksTheorem == Spec => []BooksAgree
<1>1. IInv => BooksAgree
  BY DEF IInv
<1> QED BY <1>1, Invariance, PTL

\* A debit on the mandate's authority alone has the agreed number of signed
\* supervised payments of earlier occurrences behind it.  It rests on the order
\* in which _fall_due asks (SupervisedInOrder), which no test looks at.
THEOREM ApprovalsTheorem == Spec => []AutoNeedsApprovals
<1>1. IInv => AutoNeedsApprovals
  BY DEF IInv
<1> QED BY <1>1, Invariance, PTL

-----------------------------------------------------------------------------
\* An occurrence that has ended is not reopened, and its money does not move.
LEMMA EffectEnds ==
    ASSUME IInv, Effect, NEW o \in Occs, occs[o].status \in TERMINAL
    PROVE  occs'[o].status = occs[o].status /\ debits'[o] = debits[o]
<1>s. OPEN \cap TERMINAL = {} /\ "SCHEDULED" \in OPEN /\ "NONE" \notin TERMINAL
  BY DEF OPEN, TERMINAL, APPROVABLE
<1>1. CASE UNCHANGED books
  BY <1>1 DEF books
<1>2. CASE Enrolls
  <2>1. occs[o].status = "NONE"
    BY <1>2 DEF Enrolls, IInv, Enrolled
  <2> QED BY <1>s, <2>1
<1>3. ASSUME NEW p \in Occs, Pays_(p)
      PROVE  occs'[o].status = occs[o].status /\ debits'[o] = debits[o]
  <2>1. PICK by \in {"SIGNATURE", "MANDATE"}, outcome \in {"EXECUTED", "FAILED"} :
           Executes(p, by, outcome)
    BY <1>3, ExecuteFacts
  <2>2. o # p
    BY <1>s, <2>1 DEF Executes
  <2>3. debits'[o] = debits[o]
    BY <2>1, <2>2 DEF Executes, IInv, TypeOK
  <2>4. occs'[o] = occs[o]
    BY <1>3, PaysOneEnds, OneEndedKeeps
  <2> QED BY <2>3, <2>4
<1>4. ASSUME NEW p \in Occs, Closes(p)
      PROVE  occs'[o].status = occs[o].status /\ debits'[o] = debits[o]
  BY <1>4, CloseFacts, ClosesOneEnds, OneEndedKeeps
<1>5. CASE RowsMove
  <2>1. OccMoves(o) /\ debits' = debits
    BY <1>5 DEF RowsMove
  <2> QED BY <1>s, <2>1 DEF OccMoves
<1> QED BY <1>1, <1>2, <1>3, <1>4, <1>5 DEF Effect

\* What the user is told of an occurrence that was skipped, missed, expired,
\* declined, cancelled or failed stays true, for any workers with old lists,
\* late signatures and delayed releases (store.set_occurrence's conditions).
THEOREM NotPaidTheorem == Spec => NotPaidStaysTrue
<1>1. IInv /\ [Next]_vars =>
         [\A o \in Occs : occs[o].status \in TERMINAL =>
             occs'[o].status = occs[o].status /\ debits'[o] = debits[o]]_vars
  BY NextEffect, EffectEnds
<1> QED BY <1>1, Invariance, PTL DEF Spec, NotPaidStaysTrue

-----------------------------------------------------------------------------
\* Every effect settles one execution key, or none.
LEMMA EffectSettles ==
    ASSUME IInv, Effect
    PROVE  [Once!Next]_(Once!vars)
<1>1. CASE UNCHANGED <<executions, debits>>
  BY <1>1 DEF Once!vars
<1>2. ASSUME NEW o \in Occs, Pays_(o) PROVE Once!Settle(o)
  <2>1. PICK by \in {"SIGNATURE", "MANDATE"}, outcome \in {"EXECUTED", "FAILED"} :
           Executes(o, by, outcome)
    BY <1>2, ExecuteFacts
  <2>2. debits[o] = 0
    BY <2>1, ExecutesPaid DEF IInv, BooksAgree
  <2>3. debits' = [debits EXCEPT ![o] = DebitsOf(outcome)]
    BY <2>1, <2>2 DEF Executes, DebitsOf
  <2>4. outcome \in Once!Outcomes
    BY DEF Once!Outcomes, Once!Ran
  <2>5. DebitsOf(outcome) \in Once!Moves(o, outcome)
    <3>1. [p \in Occs |-> 1][o] = 1
      OBVIOUS
    <3>2. CASE outcome = "EXECUTED"
      BY <3>1, <3>2 DEF Once!Moves, DebitsOf
    <3>3. CASE outcome = "FAILED"
      BY <3>1, <3>3 DEF Once!Moves, DebitsOf
    <3> QED BY <3>2, <3>3
  <2> QED BY <2>1, <2>3, <2>4, <2>5 DEF Executes, Once!Settle
<1>3. ASSUME NEW o \in Occs, Closed(o), debits' = debits PROVE Once!Settle(o)
  <2>1. PICK outcome \in {"DECLINED", "CANCELLED"} :
           executions[o] = "NONE" /\ executions' = [executions EXCEPT ![o] = outcome]
    BY <1>3 DEF Closed
  <2>2. debits[o] = 0
    BY <2>1 DEF IInv, BooksAgree
  <2>3. debits' = [debits EXCEPT ![o] = 0]
    BY <1>3, <2>2 DEF IInv, TypeOK
  <2>4. outcome \in Once!Outcomes
    BY DEF Once!Outcomes, Once!CLOSED_OUTCOMES
  <2>5. 0 \in Once!Moves(o, outcome)
    BY DEF Once!Moves
  <2> QED BY <2>1, <2>3, <2>4, <2>5 DEF Once!Settle
<1>4. ASSUME NEW o \in Occs, Closes(o) PROVE [Once!Next]_(Once!vars)
  BY <1>1, <1>3, <1>4, CloseFacts DEF Once!Next
<1>5. CASE UNCHANGED books \/ Enrolls \/ RowsMove
  BY <1>1, <1>5 DEF books, Enrolls, RowsMove
<1> QED BY <1>2, <1>4, <1>5 DEF Effect, Once!Next

\* Workers, signatures, releases, declines and freezes together settle each
\* occurrence once: the recurring payments implement ExecuteOnce.
THEOREM SettlesTheorem == Spec => SettlesOnce
<1>1. Init => Once!Init
  BY DEF Init, Once!Init
<1>2. IInv /\ [Next]_vars => [Once!Next]_(Once!vars)
  BY NextEffect, EffectSettles
<1> QED BY <1>1, <1>2, Invariance, PTL DEF Spec, SettlesOnce, Once!Spec

-----------------------------------------------------------------------------
\* What one thread's move leaves of the threads past the kill-switch check.
Puts(t, at) ==
    /\ threads'[t].at = at
    /\ \A q \in Threads \ {t} : threads'[q] = threads[q]

LEMMA PutsOne ==
    ASSUME ThreadsTyped, NEW t \in Threads, NEW new, threads' = [threads EXCEPT ![t] = new]
    PROVE  Puts(t, new.at)
  BY DEF ThreadsTyped, Puts

LEMMA PutsWhere ==
    ASSUME ThreadsTyped, NEW t \in Threads
    PROVE  /\ Return(t) => Puts(t, "idle")
           /\ \A at : GoTo(t, at) => Puts(t, at)
           /\ NextDue(t) => Puts(t, "due")
           /\ \A to, s : StopWith(t, to, s) => Puts(t, "stop")
<1>1. PICK th : th = threads[t] /\ th \in Thread_
  BY DEF ThreadsTyped
<1>2. Return(t) => Puts(t, "idle")
  <2>1. Idle.at = "idle"
    BY DEF Idle
  <2> QED BY <2>1, PutsOne DEF Return
<1>3. ASSUME NEW at, GoTo(t, at) PROVE Puts(t, at)
  <2>1. PICK new : new = [th EXCEPT !.at = at]
    OBVIOUS
  <2>2. threads' = [threads EXCEPT ![t] = new]
    BY <1>1, <1>3, <2>1 DEF GoTo
  <2>3. new.at = at
    BY <1>1, <2>1 DEF Thread_
  <2> QED BY <2>2, <2>3, PutsOne
<1>4. NextDue(t) => Puts(t, "due")
  <2>1. PICK new : new = [Idle EXCEPT !.at = "due", !.now = th.now, !.todo = th.todo]
    OBVIOUS
  <2>2. new.at = "due"
    BY <2>1 DEF Idle
  <2> QED BY <1>1, <2>1, <2>2, PutsOne DEF NextDue
<1>5. ASSUME NEW to, NEW s, StopWith(t, to, s) PROVE Puts(t, "stop")
  <2>1. PICK new : new = [th EXCEPT !.at = "stop", !.stop = to, !.suspend = s]
    OBVIOUS
  <2>2. threads' = [threads EXCEPT ![t] = new]
    BY <1>1, <1>5, <2>1 DEF StopWith, ThreadsTyped
  <2>3. new.at = "stop"
    BY <1>1, <2>1 DEF Thread_
  <2> QED BY <2>2, <2>3, PutsOne
<1> QED BY <1>2, <1>3, <1>4, <1>5

\* The same of the moves that also take an occurrence, a list or the time.
LEMMA PutsAndTakes ==
    ASSUME ThreadsTyped, NEW t \in Threads, NEW at, NEW x, NEW y
    PROVE  /\ threads' = [threads EXCEPT ![t].at = at, ![t].occ = x] => Puts(t, at)
           /\ threads' = [threads EXCEPT ![t].at = at, ![t].todo = x] => Puts(t, at)
           /\ threads' = [threads EXCEPT ![t].at = at, ![t].now = x] => Puts(t, at)
           /\ threads' = [threads EXCEPT ![t].todo = x, ![t].occ = y, ![t].at = at] => Puts(t, at)
           /\ threads' = [threads EXCEPT ![t].todo = x] => Puts(t, threads[t].at)
<1>1. PICK th : th = threads[t] /\ th \in Thread_
  BY DEF ThreadsTyped
<1>2. PICK new : new = [th EXCEPT !.at = at, !.occ = x]
  OBVIOUS
<1>3. threads' = [threads EXCEPT ![t].at = at, ![t].occ = x] => Puts(t, at)
  <2>1. new.at = at
    BY <1>1, <1>2 DEF Thread_
  <2>2. threads' = [threads EXCEPT ![t].at = at, ![t].occ = x]
           => threads' = [threads EXCEPT ![t] = new]
    BY <1>1, <1>2 DEF ThreadsTyped
  <2> QED BY <2>1, <2>2, PutsOne
<1>4. PICK listed : listed = [th EXCEPT !.at = at, !.todo = x]
  OBVIOUS
<1>5. threads' = [threads EXCEPT ![t].at = at, ![t].todo = x] => Puts(t, at)
  <2>1. listed.at = at
    BY <1>1, <1>4 DEF Thread_
  <2>2. threads' = [threads EXCEPT ![t].at = at, ![t].todo = x]
           => threads' = [threads EXCEPT ![t] = listed]
    BY <1>1, <1>4 DEF ThreadsTyped
  <2> QED BY <2>1, <2>2, PutsOne
<1>6. PICK timed : timed = [th EXCEPT !.at = at, !.now = x]
  OBVIOUS
<1>7. threads' = [threads EXCEPT ![t].at = at, ![t].now = x] => Puts(t, at)
  <2>1. timed.at = at
    BY <1>1, <1>6 DEF Thread_
  <2>2. threads' = [threads EXCEPT ![t].at = at, ![t].now = x]
           => threads' = [threads EXCEPT ![t] = timed]
    BY <1>1, <1>6 DEF ThreadsTyped
  <2> QED BY <2>1, <2>2, PutsOne
<1>8. PICK due : due = [th EXCEPT !.todo = x, !.occ = y, !.at = at]
  OBVIOUS
<1>9. threads' = [threads EXCEPT ![t].todo = x, ![t].occ = y, ![t].at = at] => Puts(t, at)
  <2>1. due.at = at
    BY <1>1, <1>8 DEF Thread_
  <2>2. threads' = [threads EXCEPT ![t].todo = x, ![t].occ = y, ![t].at = at]
           => threads' = [threads EXCEPT ![t] = due]
    BY <1>1, <1>8 DEF ThreadsTyped
  <2> QED BY <2>1, <2>2, PutsOne
<1>10. PICK fewer : fewer = [th EXCEPT !.todo = x]
  OBVIOUS
<1>11. threads' = [threads EXCEPT ![t].todo = x] => Puts(t, threads[t].at)
  <2>1. fewer.at = threads[t].at
    BY <1>1, <1>10 DEF Thread_
  <2>2. threads' = [threads EXCEPT ![t].todo = x] => threads' = [threads EXCEPT ![t] = fewer]
    BY <1>1, <1>10 DEF ThreadsTyped
  <2> QED BY <2>1, <2>2, PutsOne
<1> QED BY <1>3, <1>5, <1>7, <1>9, <1>11

\* A step of one thread that was past the check, or does not get past it.
Drains ==
    /\ PastSwitch' \subseteq PastSwitch
    /\ debits' # debits => PastSwitch' # PastSwitch

LEMMA OneDrains ==
    ASSUME NEW t \in Threads, NEW at, Puts(t, at),
           at \in {"pay", "when", "pay signed"} => t \in PastSwitch,
           debits' # debits => t \in PastSwitch /\ at \notin {"pay", "when", "pay signed"}
    PROVE  Drains
<1>1. t \in PastSwitch' <=> at \in {"pay", "when", "pay signed"}
  BY DEF Puts, PastSwitch
<1>2. \A q \in Threads \ {t} : q \in PastSwitch' <=> q \in PastSwitch
  BY DEF Puts, PastSwitch
<1>3. PastSwitch \subseteq Threads /\ PastSwitch' \subseteq Threads
  BY DEF PastSwitch
<1> QED BY <1>1, <1>2, <1>3 DEF Drains

LEMMA WorkerDrains ==
    ASSUME IInv, frozen, NEW w \in Workers, Step(w) \/ BeginRun(w) \/ RunFails(w)
    PROVE  Drains
<1>w. w \in Threads /\ ThreadsTyped
  BY TypeParts DEF IInv, Threads
<1>1. CASE FallDue(w)
  <2>1. PICK x, y, at : /\ threads' = [threads EXCEPT ![w].todo = x, ![w].occ = y, ![w].at = at]
                        /\ at \in {"automatic", "due"}
    <3> DEFINE o == Min(threads[w].todo)
               auto == /\ occs[o].status = "SCHEDULED" /\ intact /\ mandate.status = "ACTIVE"
                       /\ mandate.mode = "AUTO" /\ threads[w].now <= AutoUntil(o)
    <3>1. threads' = [threads EXCEPT ![w].todo = threads[w].todo \ {o},
                                     ![w].occ = IF auto THEN o ELSE 0,
                                     ![w].at = IF auto THEN "automatic" ELSE "due"]
      BY <1>1, <1>w DEF FallDue, ThreadsTyped
    <3>2. (IF auto THEN "automatic" ELSE "due") \in {"automatic", "due"}
      OBVIOUS
    <3> HIDE DEF o, auto
    <3> QED BY <3>1, <3>2
  <2>2. Puts(w, at)
    BY <1>w, <2>1, PutsAndTakes
  <2>3. debits' = debits
    BY <1>1 DEF FallDue
  <2> QED BY <1>w, <2>1, <2>2, <2>3, OneDrains
<1>2. CASE BeginRun(w)
  <2>1. PICK list : list = IF mandate.status \in {"ACTIVE", "PAUSED", "SUSPENDED"} THEN DueNow ELSE {}
    OBVIOUS
  <2>2. PICK new : new = [Idle EXCEPT !.at = "due", !.now = clock, !.todo = list]
    OBVIOUS
  <2>3. threads' = [threads EXCEPT ![w] = new] /\ debits' = debits
    BY <1>2, <2>1, <2>2 DEF BeginRun, rows
  <2>4. new.at = "due"
    BY <2>2 DEF Idle
  <2> QED BY <1>w, <2>3, <2>4, PutsOne, OneDrains
<1>e. CASE Expire(w)
  <2>1. PICK new : new = [Idle EXCEPT !.at = "complete"]
    OBVIOUS
  <2>2. threads' = [threads EXCEPT ![w] = new] /\ debits' = debits
    BY <1>e, <2>1 DEF Expire
  <2>3. new.at = "complete"
    BY <2>1 DEF Idle
  <2> QED BY <1>w, <2>2, <2>3, PutsOne, OneDrains
<1>3. CASE Complete(w) \/ RunFails(w)
  <2>1. Return(w) /\ debits' = debits
    BY <1>3 DEF Complete, RunFails, rows
  <2> QED BY <1>w, <2>1, PutsWhere, OneDrains
<1>4. CASE OccurrenceStop(w)
  <2>1. NextDue(w) /\ debits' = debits
    BY <1>4 DEF OccurrenceStop
  <2> QED BY <1>w, <2>1, PutsWhere, OneDrains
<1>5. CASE ReadOccurrence(w) \/ CheckBiller(w) \/ CheckSwitchAndRules(w)
  <2>1. debits' = debits
    BY <1>5 DEF ReadOccurrence, CheckBiller, CheckSwitchAndRules, rows
  <2>2. \/ NextDue(w) \/ GoTo(w, "biller") \/ GoTo(w, "switch")
        \/ \E to, s : StopWith(w, to, s)
    BY <1>5 DEF ReadOccurrence, CheckBiller, CheckSwitchAndRules
  <2>3. Puts(w, "due") \/ Puts(w, "biller") \/ Puts(w, "switch") \/ Puts(w, "stop")
    BY <1>w, <2>2, PutsWhere
  <2> QED BY <1>w, <2>1, <2>3, OneDrains
<1>6. CASE PayUnattended(w)
  <2>1. w \in PastSwitch
    BY <1>6, <1>w DEF PayUnattended, At, PastSwitch
  <2>2. NextDue(w) \/ StopWith(w, "HELD", FALSE)
    BY <1>6 DEF PayUnattended
  <2>3. Puts(w, "due") \/ Puts(w, "stop")
    BY <1>w, <2>2, PutsWhere
  <2> QED BY <1>w, <2>1, <2>3, OneDrains
<1> QED BY <1>1, <1>2, <1>e, <1>3, <1>4, <1>5, <1>6 DEF Step

LEMMA RequestDrains ==
    ASSUME IInv, frozen, NEW r \in Requests, Begin(r) \/ Serve(r)
    PROVE  Drains
<1>w. r \in Threads /\ ThreadsTyped
  BY TypeParts DEF IInv, Threads
<1>d. debits' = debits
  BY DEF Begin, Serve, Enroll, Freeze, BeginUnfreeze, Review, Sign, CreateMandate, PutDraft,
         PassGateway, CloseNext, SwitchDone, rows
<1>1. CASE Freeze(r) \/ BeginUnfreeze(r)
  <2>1. PICK at \in {"freezing", "unfreezing"} :
           threads' = [threads EXCEPT ![r].at = at, ![r].todo = open_ids]
    BY <1>1 DEF Freeze, BeginUnfreeze, TakesSwitch
  <2>2. Puts(r, at)
    BY <1>w, <2>1, PutsAndTakes
  <2> QED BY <1>w, <1>d, <2>2, OneDrains
<1>2. CASE Enroll(r)
  BY <1>2 DEF Enroll
<1>3. ASSUME NEW o \in Occs, Review(r, o) \/ Sign(r, o) PROVE Drains
  <2>1. PICK at \in {"put", "signed"} : threads' = [threads EXCEPT ![r].at = at, ![r].occ = o]
    BY <1>3 DEF Review, Sign
  <2>2. Puts(r, at)
    BY <1>w, <2>1, PutsAndTakes
  <2> QED BY <1>w, <1>d, <2>2, OneDrains
<1>4. CASE CreateMandate(r) \/ PutDraft(r) \/ SwitchDone(r) \/ PassGateway(r)
  <2>1. Return(r)
    BY <1>4 DEF CreateMandate, PutDraft, SwitchDone, PassGateway
  <2> QED BY <1>w, <1>d, <2>1, PutsWhere, OneDrains
<1>5. CASE CloseNext(r)
  <2>1. PICK o : threads' = [threads EXCEPT ![r].todo = threads[r].todo \ {o}]
    BY <1>5, <1>w DEF CloseNext, ThreadsTyped
  <2>2. Puts(r, threads[r].at)
    BY <1>w, <2>1, PutsAndTakes
  <2>3. threads[r].at \in {"freezing", "unfreezing"}
    BY <1>5 DEF CloseNext, At
  <2> QED BY <1>w, <1>d, <2>2, <2>3, OneDrains
<1> QED BY <1>1, <1>2, <1>3, <1>4, <1>5 DEF Begin, Serve

LEMMA PaysDrains ==
    ASSUME IInv, NEW t \in Threads, Pays(t)
    PROVE  Drains
<1>w. ThreadsTyped
  BY TypeParts DEF IInv
<1>t. t \in PastSwitch
  BY DEF Pays, ReadClock, PaySigned, At, PastSwitch
<1>1. CASE ReadClock(t)
  <2>1. threads' = [threads EXCEPT ![t].at = "pay signed", ![t].now = clock] /\ debits' = debits
    BY <1>1 DEF ReadClock, rows
  <2>2. Puts(t, "pay signed")
    BY <1>w, <2>1, PutsAndTakes
  <2> QED BY <1>t, <2>1, <2>2, OneDrains
<1>2. CASE PaySigned(t)
  <2>1. Return(t) \/ GoTo(t, "release stopped")
    BY <1>2 DEF PaySigned
  <2>2. Puts(t, "idle") \/ Puts(t, "release stopped")
    BY <1>w, <2>1, PutsWhere
  <2> QED BY <1>t, <2>2, OneDrains
<1> QED BY <1>1, <1>2 DEF Pays

LEMMA ReleaseDrains ==
    ASSUME IInv, frozen, Release
    PROVE  Drains
<1>w. Loop \in Threads /\ ThreadsTyped
  BY LoopIsThread, TypeParts DEF IInv
<1>1. CASE StopRelease
  <2>1. Return(Loop) /\ debits' = debits
    BY <1>1 DEF StopRelease
  <2> QED BY <1>w, <2>1, PutsWhere, OneDrains
<1>2. ASSUME NEW o \in Occs, RunRelease(o) PROVE Drains
  <2>1. /\ threads' = [threads EXCEPT ![Loop].at = "release stopped", ![Loop].occ = o]
        /\ debits' = debits
    BY <1>2 DEF RunRelease
  <2>2. Puts(Loop, "release stopped")
    BY <1>w, <2>1, PutsAndTakes
  <2> QED BY <1>w, <2>1, <2>2, OneDrains
<1> QED BY <1>1, <1>2 DEF Release

LEMMA OthersDrain ==
    ASSUME IInv, User \/ Tick \/ change_reference \/ Tamper \/ ServerRestarts \/ UNCHANGED vars
    PROVE  Drains
<1>1. debits' = debits
  BY DEF User, Pause, Resume, Cancel, Moves, Decline, CloseDraft, Tick, change_reference, Tamper,
         ServerRestarts, rows, vars
<1>2. CASE UNCHANGED threads
  BY <1>1, <1>2 DEF Drains, PastSwitch
<1>3. CASE ServerRestarts
  <2>1. \A t \in Threads : threads'[t] = Idle \/ threads'[t] = threads[t]
    BY <1>3 DEF ServerRestarts
  <2>2. Idle.at = "idle"
    BY DEF Idle
  <2> QED BY <1>1, <2>1, <2>2 DEF Drains, PastSwitch
<1>4. CASE User
  BY <1>2, <1>4 DEF User, Pause, Resume, Cancel, Moves, Decline
<1>5. CASE Tick \/ change_reference \/ Tamper \/ UNCHANGED vars
  BY <1>2, <1>5 DEF Tick, change_reference, Tamper, vars
<1> QED BY <1>3, <1>4, <1>5

\* However many workers run what has fallen due, and whatever was signed and delayed:
\* once the kill switch is engaged, only a thread that had passed its check before
\* debits, and each of them once.
THEOREM DrainsTheorem == Spec => FreezeDrains
<1>1. IInv /\ [Next]_vars =>
         [frozen => /\ PastSwitch' \subseteq PastSwitch
                    /\ debits' # debits => PastSwitch' # PastSwitch]_vars
  BY WorkerDrains, RequestDrains, PaysDrains, ReleaseDrains, OthersDrain DEF Next, Drains
<1> QED BY <1>1, Invariance, PTL DEF Spec, FreezeDrains
=============================================================================
