------------------------------- MODULE Reading -------------------------------
(* Which clause belongs to which payment, and which amounts compete for one   *)
(* (validator/__init__.py).  The parser's plan is a sequence of legs          *)
(* [kind, source, target, amount]: mentions are the user's words, an amount   *)
(* is [form, n, after, op].  The resolver asks by this reading and the        *)
(* validator freezes by it; the rows are the ledger both look things up in.   *)
EXTENDS Amounts

CONSTANTS Contacts,     \* every payee row there can be: id |-> [nickname, legal]
          Accounts,     \* id |-> its type
          Billers,      \* id |-> its name
          Equities      \* ticker |-> [price, names]: a name is a sequence of words

Literal(cents)    == [form |-> "literal", n |-> cents, after |-> 0, op |-> "ALL"]
SharesOf(n)       == [form |-> "shares", n |-> n, after |-> 0, op |-> "ALL"]
Symbolic(leg, op) == [form |-> "symbolic", n |-> 0, after |-> leg, op |-> op]

Transcript(u) ==
  FoldLeft(LAMBDA said, clause : IF said = <<>> THEN clause ELSE said \o <<"then">> \o clause,
           <<>>, u)

\* IntentPlan: a symbolic amount refers to an earlier leg, shares only buy shares.
WellFormed(plan) ==
  \A i \in DOMAIN plan :
    /\ plan[i].amount.form = "symbolic" => plan[i].amount.after \in 1 .. i - 1
    /\ plan[i].amount.form = "shares" => plan[i].kind = "BUY_EQUITY"

\* _mentions(): an empty name is in no clause.
Mentions(c, name) == name # <<>> /\ Says(c, name)

Whole == 0                                 \* no clause of its own: the transcript

\* Clauses with an amount or somebody's name; the rest is filler.
ClausesOf(plan, u) ==
  SelectSeq(u, LAMBDA c : extract_literal_cents[c] # {}
                          \/ \E i \in DOMAIN plan : Mentions(c, plan[i].target))

\* A leg takes the clause that names its recipient, when exactly one does;
\* the legs left over take the remaining clauses in order.
MatchClauses(plan, clauses) ==
  LET hits(i) == {k \in DOMAIN clauses : Mentions(clauses[k], plan[i].target)}
      named   == {i \in DOMAIN plan : Cardinality(hits(i)) = 1}
      owner(i) == CHOOSE k \in hits(i) : TRUE
      remaining == SelectSeq([k \in DOMAIN clauses |-> k],
                             LAMBDA k : \A i \in named : owner(i) # k)
      turn(i) == Cardinality({j \in 1 .. i : j \notin named})
  IN [clauses |-> clauses,
      ids |-> [i \in DOMAIN plan |->
                 IF i \in named THEN owner(i)
                 ELSE IF turn(i) \in DOMAIN remaining THEN remaining[turn(i)] ELSE Whole]]

LegClause(match, u, i) ==
  IF match.ids[i] = Whole THEN Transcript(u) ELSE match.clauses[match.ids[i]]

\* The amounts said in an owned clause, and in those that follow it up: a clause
\* with an amount and nobody's name belongs to the one before it.
SaidOf(match, o) ==
  LET owned   == Range(match.ids) \ {Whole}
      host(k) == IF \E h \in owned : h < k THEN Max({h \in owned : h < k}) ELSE Min(owned)
  IN FoldLeft(LAMBDA sum, k : IF k = o \/ (k \notin owned /\ host(k) = o)
                              THEN sum \o money_occurrences[match.clauses[k]] ELSE sum,
              <<>>, [k \in DOMAIN match.clauses |-> k])

\* What competes for each leg: [leg -> amounts to choose from], where no
\* amounts means that the words cannot tell, and that it is to be said again.
Rivals(plan, match, all) ==
  LET literal == {i \in DOMAIN plan : plan[i].amount.form = "literal"}
      words(o) == IF o = Whole THEN all ELSE SaidOf(match, o)
      group(o) == {i \in literal : match.ids[i] = o}
      rivals(o) == /\ Len(words(o)) > Cardinality(group(o))
                   /\ Cardinality(Range(words(o))) > 1
      legs    == IF Len(all) <= Cardinality(literal) THEN {}
                 ELSE {i \in literal : rivals(match.ids[i])}
  IN [i \in legs |->
        IF match.ids[i] # Whole /\ Cardinality(group(match.ids[i])) = 1
        THEN Range(words(match.ids[i])) ELSE {}]
Competing(plan, u) ==
  Rivals(plan, MatchClauses(plan, ClausesOf(plan, u)), money_occurrences[Transcript(u)])
=============================================================================
