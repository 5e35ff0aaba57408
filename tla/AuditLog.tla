------------------------------ MODULE AuditLog ------------------------------
(***************************************************************************)
(* backend/audit: the hash-chained log every component appends to.  An     *)
(* append reads the last row's hash and inserts its own row: two           *)
(* statements, and only the second takes SQLite's write lock, so request   *)
(* threads and the release loop can come between them.                     *)
(*                                                                         *)
(* A row's content stands for its type, payload and time.  SHA-256 is      *)
(* taken to be injective: a hash is the list of the contents it covers.    *)
(***************************************************************************)
EXTENDS Integers, Sequences, FiniteSetsExt

CONSTANTS Writers,      \* threads that append
          Contents,     \* what they append
          MaxRows,      \* rows the log may grow to (a bound)
          MaxEdits      \* direct edits of the database (a bound)

ASSUME LogAssumption == MaxRows \in Nat /\ MaxEdits \in Nat

VARIABLES
    log,        \* audit_log, oldest row first
    appends,    \* appends[w]: what writer w is doing
    appended,   \* the contents as they were appended
    edits       \* how many edits were made

vars == <<log, appends, appended, edits>>

GENESIS_HASH == <<>>
entry_hash(prev, content) == Append(prev, content)

Idle == [at |-> "idle"]

Init ==
    /\ log      = <<>>
    /\ appends  = [w \in Writers |-> Idle]
    /\ appended = <<>>
    /\ edits    = 0

\* SELECT hash FROM audit_log ORDER BY id DESC LIMIT 1
LastHash == IF log = <<>> THEN GENESIS_HASH ELSE log[Len(log)].hash

ReadLast(w, content) ==
    /\ appends[w] = Idle
    /\ Len(log) < MaxRows
    /\ appends' = [appends EXCEPT ![w] = [at |-> "insert", content |-> content,
                                          prev |-> LastHash]]
    /\ UNCHANGED <<log, appended, edits>>

Insert(w) ==
    /\ appends[w] # Idle
    /\ Len(log) < MaxRows
    /\ LET prev == appends[w].prev  content == appends[w].content IN
       /\ log' = Append(log, [prev |-> prev, content |-> content,
                              hash |-> entry_hash(prev, content)])
       /\ appended' = Append(appended, content)
    /\ appends' = [appends EXCEPT ![w] = Idle]
    /\ UNCHANGED edits

\* The INSERT fails ("database is locked"), or the server stops.
Fails(w) ==
    /\ appends[w] # Idle
    /\ appends' = [appends EXCEPT ![w] = Idle]
    /\ UNCHANGED <<log, appended, edits>>

\* One row's content changed in the database, its hash left alone.
_raw_update_payload(i, content) ==
    /\ edits < MaxEdits
    /\ log[i].content # content
    /\ log' = [log EXCEPT ![i].content = content]
    /\ edits' = edits + 1
    /\ UNCHANGED <<appends, appended>>

Next ==
    \/ \E w \in Writers : Insert(w) \/ Fails(w) \/ \E content \in Contents : ReadLast(w, content)
    \/ \E i \in 1 .. Len(log), content \in Contents : _raw_update_payload(i, content)

Spec == Init /\ [][Next]_vars

-----------------------------------------------------------------------------
\* verify_entries: the first row that breaks the chain, counted from 0; -1: none.
LinkOnly(rows, i) ==                    \* mutant: content not hashed again
    rows[i].prev # IF i = 1 THEN GENESIS_HASH ELSE rows[i - 1].hash

Breaks(rows, i) ==
    \/ entry_hash(rows[i].prev, rows[i].content) # rows[i].hash
    \/ rows[i].prev # IF i = 1 THEN GENESIS_HASH ELSE rows[i - 1].hash

BreakAtLast(rows) ==                    \* mutant: the scan does not stop at a break
    LET broken == {i \in 1 .. Len(rows) : Breaks(rows, i)}
    IN  IF broken = {} THEN -1 ELSE Max(broken) - 1

BreakAt(rows) ==
    LET broken == {i \in 1 .. Len(rows) : Breaks(rows, i)}
    IN  IF broken = {} THEN -1 ELSE Min(broken) - 1

\* simulate_tamper: the break reported in a copy with row i's content changed.
simulate_tamper(i, content) == BreakAt([log EXCEPT ![i].content = content])

-----------------------------------------------------------------------------
\* Types of the log, the appends under way and the history.
Row == [prev : Seq(Contents), content : Contents, hash : Seq(Contents)]

TypeOK ==
    /\ log \in Seq(Row)
    /\ appends \in [Writers -> {Idle} \cup
                       [at : {"insert"}, content : Contents, prev : Seq(Contents)]]
    /\ appended \in Seq(Contents)
    /\ edits \in 0 .. MaxEdits

Edited == {i \in 1 .. Len(log) : log[i].content # appended[i]}

\* An edit is never hidden: verify_chain stops at the edited row, or before it,
\* however many threads append and whatever is appended afterwards.
EditsAreFound == \A i \in Edited : BreakAt(log) \in 0 .. i - 1

\* The log nobody edited verifies: true while appends come one at a time, which
\* nothing in the code sees to (audit/log.py:94).
SerialAppends == \A w, v \in Writers : appends[w] # Idle /\ appends[v] # Idle => w = v
UneditedVerifies == edits = 0 => BreakAt(log) = -1

\* The tamper demo points at the row it changed, whenever the live log is sound
\* (simulate_tamper's broken_id).
DemoBreaksThere ==
    BreakAt(log) = -1 =>
        \A i \in 1 .. Len(log), content \in Contents :
            content # log[i].content => simulate_tamper(i, content) = i - 1

\* Where verify_chain has found a break it stays: no later append mends it.
BreakStays ==
    [][BreakAt(log) # -1 /\ edits' = edits => BreakAt(log') = BreakAt(log)]_vars
=============================================================================
