---------------------------- MODULE AuditLogProofs ----------------------------
(***************************************************************************)
(* Proofs about AuditLog, for any writers, contents, length of the log and *)
(* number of edits: an edited row is found, a break stays where it is, and *)
(* a log nobody edited verifies as long as no two appends overlap.         *)
(***************************************************************************)
EXTENDS AuditLog, TLAPS, WellFoundedInduction, SequenceTheorems

\* A row's hash covers what was appended, whatever its content is now.
HashesHold ==
    /\ Len(appended) = Len(log)
    /\ \A i \in 1 .. Len(log) : log[i].hash = Append(log[i].prev, appended[i])

IInv == TypeOK /\ HashesHold

Broken(rows) == {i \in 1 .. Len(rows) : Breaks(rows, i)}

\* A nonempty set of row numbers has a least member, and Min is it.
LEMMA MinOfNats ==
    ASSUME NEW S \in SUBSET Nat, S # {}
    PROVE  /\ Min(S) \in S
           /\ \A y \in S : Min(S) =< y
<1>1. OpToRel(<, Nat) = {ss \in Nat \X Nat : ss[1] < ss[2]}
  BY DEF OpToRel
<1>2. PICK x \in S : \A y \in S : ~ (<<y, x>> \in OpToRel(<, Nat))
  BY NatLessThanWellFounded, WFMin, Zenon
<1>3. ASSUME NEW y \in S PROVE x =< y
  <2>1. x \in Nat /\ y \in Nat
    OBVIOUS
  <2>2. ~ (<<y, x>> \in {ss \in Nat \X Nat : ss[1] < ss[2]})
    BY <1>1, <1>2
  <2> QED BY <2>1, <2>2
<1> QED
  BY <1>3 DEF Min

\* The number that is least in a set is its Min.
LEMMA MinIs ==
    ASSUME NEW S \in SUBSET Nat, NEW x \in S, \A y \in S : x =< y
    PROVE  Min(S) = x
<1>1. Min(S) \in S /\ Min(S) =< x /\ x =< Min(S)
  BY MinOfNats
<1>2. Min(S) \in Nat /\ x \in Nat
  BY <1>1
<1> QED BY <1>1, <1>2

\* Init establishes the inductive invariant.
LEMMA InitIInv == Init => IInv
  BY LogAssumption DEF Init, IInv, TypeOK, HashesHold

\* Every step keeps the inductive invariant.
LEMMA NextIInv == IInv /\ [Next]_vars => IInv'
<1> SUFFICES ASSUME IInv, [Next]_vars PROVE IInv'
  OBVIOUS
<1> USE DEF IInv
<1>t. log \in Seq(Row) /\ Len(log) \in Nat
  BY DEF TypeOK
<1>1. ASSUME NEW w \in Writers, NEW content \in Contents, ReadLast(w, content)
      PROVE  IInv'
  <2>1. LastHash \in Seq(Contents)
    <3>1. CASE log = <<>>
      BY <3>1 DEF LastHash, GENESIS_HASH
    <3>2. CASE log # <<>>
      <4>1. log[Len(log)] \in Row
        BY <3>2, <1>t
      <4> QED BY <3>2, <4>1 DEF LastHash, Row
    <3> QED BY <3>1, <3>2
  <2>2. TypeOK'
    BY <1>1, <2>1 DEF ReadLast, TypeOK
  <2> QED
    BY <1>1, <2>2 DEF ReadLast, HashesHold
<1>2. ASSUME NEW w \in Writers, Insert(w)
      PROVE  IInv'
  <2> DEFINE row == [prev |-> appends[w].prev, content |-> appends[w].content,
                     hash |-> entry_hash(appends[w].prev, appends[w].content)]
  <2>1. appends[w].content \in Contents /\ appends[w].prev \in Seq(Contents)
    BY <1>2 DEF Insert, TypeOK
  <2>2. row \in Row /\ row.hash = Append(row.prev, row.content)
    BY <2>1 DEF Row, entry_hash
  <2>3. log' = Append(log, row) /\ appended' = Append(appended, row.content)
    BY <1>2 DEF Insert
  <2> HIDE DEF row
  <2>4. TypeOK'
    BY <1>2, <2>1, <2>2, <2>3 DEF Insert, TypeOK, Row
  <2>5. HashesHold'
    <3>1. /\ Len(log') = Len(log) + 1 /\ log'[Len(log) + 1] = row
          /\ \A i \in 1 .. Len(log) : log'[i] = log[i]
      BY <2>2, <2>3, <1>t, AppendProperties
    <3>2. /\ Len(appended') = Len(log) + 1 /\ appended'[Len(log) + 1] = row.content
          /\ \A i \in 1 .. Len(log) : appended'[i] = appended[i]
      <4>1. appended \in Seq(Contents) /\ Len(appended) = Len(log) /\ row.content \in Contents
        BY <2>2 DEF TypeOK, HashesHold, Row
      <4> QED BY <4>1, <2>3, AppendProperties
    <3> QED
      BY <3>1, <3>2, <2>2, <1>t DEF HashesHold
  <2> QED BY <2>4, <2>5
<1>3. ASSUME NEW w \in Writers, Fails(w)
      PROVE  IInv'
  BY <1>3 DEF Fails, TypeOK, HashesHold
<1>4. ASSUME NEW i \in 1 .. Len(log), NEW content \in Contents,
             _raw_update_payload(i, content)
      PROVE  IInv'
  <2>1. log' = [log EXCEPT ![i] = [log[i] EXCEPT !.content = content]]
    BY <1>4 DEF _raw_update_payload
  <2>2. log[i] \in Row
    BY <1>t
  <2>3. [log[i] EXCEPT !.content = content] \in Row
    BY <2>2 DEF Row
  <2>4. TypeOK'
    BY <1>4, <2>1, <2>3, LogAssumption DEF _raw_update_payload, TypeOK
  <2>5. Len(log') = Len(log)
        /\ \A j \in 1 .. Len(log) : log'[j].hash = log[j].hash /\ log'[j].prev = log[j].prev
    BY <1>t, <2>1, <2>2 DEF Row
  <2>6. HashesHold'
    BY <1>4, <2>5 DEF _raw_update_payload, HashesHold
  <2> QED BY <2>4, <2>6
<1>5. CASE UNCHANGED vars
  BY <1>5 DEF vars, TypeOK, HashesHold
<1> QED
  BY <1>1, <1>2, <1>3, <1>4, <1>5 DEF Next

\* Every reachable state of the log is well typed (audit/log.py).
THEOREM TypeTheorem == Spec => []TypeOK
<1>1. IInv => TypeOK
  BY DEF IInv
<1> QED
  BY InitIInv, NextIInv, <1>1, PTL DEF Spec

\* verify_chain stops at an edited row or before it, for any number of threads
\* and whatever they append in which order (audit/log.py:156-195).
THEOREM EditsTheorem == Spec => []EditsAreFound
<1>1. IInv => EditsAreFound
  <2> SUFFICES ASSUME IInv, NEW i \in Edited PROVE BreakAt(log) \in 0 .. i - 1
    BY DEF EditsAreFound
  <2>1. /\ Len(log) \in Nat /\ i \in 1 .. Len(log)
        /\ log[i].prev \in Seq(Contents) /\ log[i].content \in Contents
        /\ appended[i] \in Contents /\ log[i].content # appended[i]
        /\ log[i].hash = Append(log[i].prev, appended[i])
    <3>1. Len(log) \in Nat /\ i \in 1 .. Len(log) /\ log[i].content # appended[i]
      BY DEF Edited, IInv, TypeOK
    <3>2. log[i] \in Row
      BY <3>1 DEF IInv, TypeOK
    <3>3. Len(appended) = Len(log) /\ log[i].hash = Append(log[i].prev, appended[i])
      BY <3>1 DEF IInv, HashesHold
    <3>4. appended[i] \in Contents
      BY <3>1, <3>3 DEF IInv, TypeOK
    <3> QED
      BY <3>1, <3>2, <3>3, <3>4 DEF Row
  <2>2. Append(log[i].prev, log[i].content) # Append(log[i].prev, appended[i])
    BY <2>1, AppendInjective
  <2>3. i \in Broken(log)
    BY <2>1, <2>2 DEF Broken, Breaks, entry_hash
  <2>4. Broken(log) \in SUBSET Nat /\ Broken(log) \subseteq 1 .. Len(log)
    BY <2>1 DEF Broken
  <2>5. Min(Broken(log)) \in 1 .. i
    BY <2>1, <2>3, <2>4, MinOfNats
  <2>6. BreakAt(log) = Min(Broken(log)) - 1
    BY <2>3 DEF BreakAt, Broken
  <2> QED
    BY <2>1, <2>5, <2>6
<1> QED
  BY InitIInv, NextIInv, <1>1, PTL DEF Spec

\* While the live log verifies, the tamper demo reports the very row it
\* changed in its copy (audit/log.py, simulate_tamper's broken_id).
THEOREM DemoTheorem == Spec => []DemoBreaksThere
<1>1. IInv => DemoBreaksThere
  <2> SUFFICES ASSUME IInv, BreakAt(log) = -1,
                      NEW i \in 1 .. Len(log), NEW content \in Contents,
                      content # log[i].content
               PROVE  simulate_tamper(i, content) = i - 1
    BY DEF DemoBreaksThere
  <2> DEFINE rows == [log EXCEPT ![i].content = content]
  <2>t. log \in Seq(Row) /\ Len(log) \in Nat /\ log[i] \in Row
    BY DEF IInv, TypeOK
  <2>1. Broken(log) = {}
    <3>1. SUFFICES ASSUME Broken(log) # {} PROVE FALSE
      OBVIOUS
    <3>2. Broken(log) \in SUBSET Nat /\ \A j \in Broken(log) : j >= 1
      BY <2>t DEF Broken
    <3>3. Min(Broken(log)) \in Nat /\ Min(Broken(log)) >= 1
      BY <3>1, <3>2, MinOfNats
    <3>4. BreakAt(log) = Min(Broken(log)) - 1
      BY <3>1 DEF BreakAt, Broken
    <3> QED BY <3>3, <3>4
  <2>2. /\ Len(rows) = Len(log)
        /\ \A j \in 1 .. Len(log) : rows[j].prev = log[j].prev /\ rows[j].hash = log[j].hash
        /\ \A j \in 1 .. Len(log) : j # i => rows[j].content = log[j].content
        /\ rows[i].content = content
    BY <2>t DEF Row
  <2> HIDE DEF rows
  <2>3. \A j \in 1 .. Len(log) : ~ Breaks(log, j)
    BY <2>1 DEF Broken
  <2>4. \A j \in 1 .. Len(log) : j # i => ~ Breaks(rows, j)
    <3> TAKE j \in 1 .. Len(log)
    <3> HAVE j # i
    <3>1. j # 1 => j - 1 \in 1 .. Len(log)
      BY <2>t
    <3>2. ~ Breaks(log, j)
      BY <2>3
    <3> QED BY <3>1, <3>2, <2>2, <2>t DEF Breaks, entry_hash
  <2>5. Breaks(rows, i)
    <3>1. log[i].hash = Append(log[i].prev, log[i].content)
      BY <2>3 DEF Breaks, entry_hash
    <3>2. Append(log[i].prev, content) # Append(log[i].prev, log[i].content)
      BY <2>t, AppendInjective DEF Row
    <3> QED BY <3>1, <3>2, <2>2 DEF Breaks, entry_hash
  <2>6. Broken(rows) = {i}
    BY <2>2, <2>4, <2>5 DEF Broken
  <2>7. Min(Broken(rows)) = i
    BY <2>6, MinIs
  <2>8. simulate_tamper(i, content) = Min(Broken(rows)) - 1
    BY <2>6 DEF simulate_tamper, BreakAt, Broken, rows
  <2> QED BY <2>7, <2>8
<1> QED
  BY InitIInv, NextIInv, <1>1, PTL DEF Spec

\* A break that verify_chain reports stays the one it reports, until the
\* database is edited again (audit/log.py:156-195).
THEOREM BreakTheorem == Spec => BreakStays
<1>1. IInv /\ [Next]_vars => [BreakAt(log) # -1 /\ edits' = edits => BreakAt(log') = BreakAt(log)]_vars
  <2> SUFFICES ASSUME IInv, Next, BreakAt(log) # -1, edits' = edits
               PROVE  BreakAt(log') = BreakAt(log)
    BY DEF vars
  <2>t. log \in Seq(Row) /\ Len(log) \in Nat /\ edits \in Nat
    BY LogAssumption DEF IInv, TypeOK
  <2>1. ASSUME NEW w \in Writers, Insert(w)
        PROVE  BreakAt(log') = BreakAt(log)
    <3> DEFINE row == [prev |-> appends[w].prev, content |-> appends[w].content,
                       hash |-> entry_hash(appends[w].prev, appends[w].content)]
    <3>1. row \in Row
      <4>1. appends[w].content \in Contents /\ appends[w].prev \in Seq(Contents)
        BY <2>1 DEF Insert, IInv, TypeOK
      <4> QED BY <4>1 DEF Row, entry_hash
    <3>2. log' = Append(log, row)
      BY <2>1 DEF Insert
    <3> HIDE DEF row
    <3>3. /\ Len(log') = Len(log) + 1
          /\ \A i \in 1 .. Len(log) : log'[i] = log[i]
      BY <3>1, <3>2, <2>t
    <3>4. ASSUME NEW i \in 1 .. Len(log)
          PROVE  Breaks(log', i) <=> Breaks(log, i)
      <4>1. log'[i] = log[i]
        BY <3>3
      <4>2. i # 1 => log'[i - 1] = log[i - 1]
        BY <3>3, <2>t
      <4> QED BY <4>1, <4>2 DEF Breaks
    <3>5. /\ Broken(log) # {} /\ Broken(log) \in SUBSET Nat
          /\ BreakAt(log) = Min(Broken(log)) - 1
      BY <2>t DEF BreakAt, Broken
    <3>6. /\ Min(Broken(log)) \in Broken(log')
          /\ \A y \in Broken(log') : Min(Broken(log)) =< y
          /\ Broken(log') \in SUBSET Nat
      <4>1. Min(Broken(log)) \in 1 .. Len(log) /\ Breaks(log, Min(Broken(log)))
        BY <3>5, MinOfNats DEF Broken
      <4>2. \A y \in Broken(log) : Min(Broken(log)) =< y
        BY <3>5, MinOfNats
      <4>3. Broken(log') = {i \in 1 .. Len(log) + 1 : Breaks(log', i)}
        BY <3>3 DEF Broken
      <4>4. Min(Broken(log)) \in Broken(log')
        BY <4>1, <4>3, <3>4, <2>t
      <4>5. ASSUME NEW y \in Broken(log') PROVE Min(Broken(log)) =< y
        <5>1. y \in 1 .. Len(log) + 1 /\ Breaks(log', y)
          BY <4>3
        <5>2. CASE y \in 1 .. Len(log)
          BY <5>1, <5>2, <3>4, <4>2 DEF Broken
        <5> QED
          BY <5>1, <5>2, <4>1, <2>t
      <4>6. Broken(log') \in SUBSET Nat
        BY <4>3
      <4> QED
        BY <4>4, <4>5, <4>6
    <3>7. Min(Broken(log')) = Min(Broken(log))
      BY <3>6, MinIs
    <3> QED
      BY <3>5, <3>6, <3>7 DEF BreakAt, Broken
  <2>2. ASSUME NEW w \in Writers, Fails(w) \/ \E content \in Contents : ReadLast(w, content)
        PROVE  BreakAt(log') = BreakAt(log)
    BY <2>2 DEF Fails, ReadLast
  <2>3. ASSUME NEW i \in 1 .. Len(log), NEW content \in Contents,
               _raw_update_payload(i, content)
        PROVE  FALSE
    BY <2>3, <2>t DEF _raw_update_payload
  <2> QED
    BY <2>1, <2>2, <2>3 DEF Next
<1> QED
  BY InitIInv, NextIInv, <1>1, PTL DEF Spec, BreakStays

\* While appends come one at a time the chain is whole, and the append under way
\* knows the last row's hash.
Chained ==
    /\ \A i \in 1 .. Len(log) : ~ Breaks(log, i)
    /\ \A w \in Writers : appends[w] # Idle => appends[w].prev = LastHash

LEMMA ChainGrows ==
    ASSUME IInv, SerialAppends, Chained, NEW w \in Writers, Insert(w)
    PROVE  Chained'
<1> DEFINE row == [prev |-> appends[w].prev, content |-> appends[w].content,
                   hash |-> entry_hash(appends[w].prev, appends[w].content)]
           n == Len(log)
<1>1. log \in Seq(Row) /\ n \in Nat
  BY DEF IInv, TypeOK
<1>2. appends[w] # Idle /\ log' = Append(log, row) /\ appends' = [appends EXCEPT ![w] = Idle]
  BY DEF Insert
<1>3. row \in Row /\ row.prev = LastHash /\ row.hash = entry_hash(row.prev, row.content)
  <2>1. appends[w].content \in Contents /\ appends[w].prev \in Seq(Contents)
    BY <1>2 DEF IInv, TypeOK
  <2>2. appends[w].prev = LastHash
    BY <1>2 DEF Chained
  <2> QED BY <2>1, <2>2 DEF Row, entry_hash
<1> HIDE DEF row
<1>4. /\ Len(log') = n + 1 /\ log'[n + 1] = row
      /\ \A i \in 1 .. n : log'[i] = log[i]
  BY <1>1, <1>2, <1>3, AppendProperties
<1>5. ASSUME NEW i \in 1 .. n PROVE ~ Breaks(log', i)
  <2>1. log'[i] = log[i] /\ (i # 1 => log'[i - 1] = log[i - 1])
    BY <1>1, <1>4
  <2>2. ~ Breaks(log, i)
    BY DEF Chained
  <2> QED BY <2>1, <2>2 DEF Breaks
<1>6. ~ Breaks(log', n + 1)
  <2>1. CASE n = 0
    <3>1. LastHash = GENESIS_HASH
      BY <1>1, <2>1 DEF LastHash
    <3> QED BY <1>3, <1>4, <2>1, <3>1 DEF Breaks
  <2>2. CASE n # 0
    <3>1. n \in 1 .. n /\ (n + 1) - 1 = n /\ n + 1 # 1
      BY <1>1, <2>2
    <3>2. LastHash = log[n].hash /\ log'[n] = log[n]
      BY <1>1, <1>4, <2>2, <3>1 DEF LastHash
    <3> QED BY <1>3, <1>4, <3>1, <3>2 DEF Breaks
  <2> QED BY <2>1, <2>2
<1>7. \A v \in Writers : appends'[v] = Idle
  <2> TAKE v \in Writers
  <2>1. v # w => appends[v] = Idle
    BY <1>2 DEF SerialAppends
  <2> QED BY <1>2, <2>1 DEF IInv, TypeOK
<1>8. \A i \in 1 .. Len(log') : ~ Breaks(log', i)
  BY <1>1, <1>4, <1>5, <1>6
<1> QED BY <1>7, <1>8 DEF Chained

LEMMA ChainStays ==
    ASSUME IInv, Chained, log' = log,
           \A v \in Writers : appends'[v] \in {Idle, appends[v]} \/ appends'[v].prev = LastHash
    PROVE  Chained'
<1>1. LastHash' = LastHash
  BY DEF LastHash
<1>2. \A i \in 1 .. Len(log') : ~ Breaks(log', i)
  BY DEF Chained
<1>3. \A v \in Writers : appends'[v] # Idle => appends'[v].prev = LastHash'
  BY <1>1 DEF Chained
<1> QED BY <1>2, <1>3 DEF Chained

\* The log that nobody edited verifies as long as no two appends overlap
\* (audit/log.py:156-195): only their overlap makes it report tampering.
THEOREM UneditedTheorem == Spec /\ []SerialAppends => []UneditedVerifies
<1> DEFINE Unedited == edits = 0 => Chained
<1>1. Init => IInv /\ Unedited
  <2> SUFFICES ASSUME Init PROVE Chained
    BY InitIInv
  <2>1. Len(log) = 0 /\ \A w \in Writers : appends[w] = Idle
    BY DEF Init
  <2> QED BY <2>1 DEF Chained
<1>2. IInv /\ Unedited /\ SerialAppends /\ [Next]_vars => IInv' /\ Unedited'
  <2> SUFFICES ASSUME IInv, Unedited, SerialAppends, [Next]_vars, edits' = 0 PROVE Chained'
    BY NextIInv
  <2>t. appends \in [Writers -> {Idle} \cup
                       [at : {"insert"}, content : Contents, prev : Seq(Contents)]] /\ edits \in Nat
    BY LogAssumption DEF IInv, TypeOK
  <2>1. ASSUME NEW w \in Writers, Insert(w) PROVE Chained'
    BY <2>1, ChainGrows DEF Insert
  <2>2. ASSUME NEW w \in Writers, NEW content \in Contents, ReadLast(w, content) PROVE Chained'
    <3>1. log' = log /\ edits = 0
      BY <2>2 DEF ReadLast
    <3>2. \A v \in Writers : appends'[v] \in {Idle, appends[v]} \/ appends'[v].prev = LastHash
      BY <2>2, <2>t DEF ReadLast
    <3> QED BY <3>1, <3>2, ChainStays
  <2>3. ASSUME NEW w \in Writers, Fails(w) PROVE Chained'
    <3>1. log' = log /\ edits = 0
      BY <2>3 DEF Fails
    <3>2. \A v \in Writers : appends'[v] \in {Idle, appends[v]}
      BY <2>3, <2>t DEF Fails
    <3> QED BY <3>1, <3>2, ChainStays
  <2>4. ASSUME NEW i \in 1 .. Len(log), NEW content \in Contents, _raw_update_payload(i, content)
        PROVE  FALSE
    BY <2>4, <2>t DEF _raw_update_payload
  <2>5. CASE UNCHANGED vars
    BY <2>5, ChainStays DEF vars
  <2> QED BY <2>1, <2>2, <2>3, <2>4, <2>5 DEF Next
<1>3. Unedited => UneditedVerifies
  BY DEF Chained, UneditedVerifies, BreakAt
<1> HIDE DEF Unedited
<1> QED BY <1>1, <1>2, <1>3, PTL DEF Spec
=============================================================================
