------------------------------- MODULE Amounts -------------------------------
(* Which numbers a clause says are money (validator/amounts.py).  A clause is *)
(* a sequence of words: a written number is one word ("50"), and so are the   *)
(* dollar sign and a written reference ("123-456").  The functions below are  *)
(* over the clauses that are ever said, as _scan's cache is.                  *)
EXTENDS Integers, Sequences, FiniteSets, SequencesExt

CONSTANTS Clauses,      \* every clause, and every whole transcript, that is said
          Figures,      \* what a written number says, in cents: "50" |-> 5000
          References    \* written numbers shaped like a reference

Ones == [one |-> 1, two |-> 2, three |-> 3, four |-> 4, five |-> 5, six |-> 6, seven |-> 7,
         eight |-> 8, nine |-> 9, ten |-> 10, eleven |-> 11, twelve |-> 12, thirteen |-> 13,
         fourteen |-> 14, fifteen |-> 15, sixteen |-> 16, seventeen |-> 17, eighteen |-> 18,
         nineteen |-> 19]
Tens == [twenty |-> 20, thirty |-> 30, forty |-> 40, fifty |-> 50, sixty |-> 60,
         seventy |-> 70, eighty |-> 80, ninety |-> 90]
Multipliers == [k |-> 1000, grand |-> 1000, thousand |-> 1000, hundred |-> 100]
Small       == DOMAIN Ones \union DOMAIN Tens
NumberVocab == Small \union {"hundred", "thousand"}
Articles    == {"a", "an"}
DollarUnits == {"dollar", "dollars", "bucks", "buck"}
CentUnits   == {"cent", "cents"}
Money       == DollarUnits \union CentUnits \union {"k", "grand"}
Currency    == {"$", "sgd", "usd"}

NotMoneyUnits == {"shares", "share", "pm", "am", "percent", "times", "day", "days", "week",
                  "weeks", "month", "months", "year", "years", "hour", "hours", "minute",
                  "minutes", "oclock"}
Determiners == {"the", "that", "this", "which", "each", "every", "another", "any",
                "either", "neither", "no", "other"}
Connectors  == {"to", "from", "for", "and", "then", "or", "not", "no", "into", "via",
                "please", "now", "today", "tomorrow", "tonight", "later", "instead", "only",
                "each", "back", "sorry", "actually", "wait", "ok", "okay", "i", "out",
                "right", "asap", "thanks", "at", "on", "by", "with", "because", "since",
                "as", "so", "but", "uh", "um", "hmm", "er", "erm", "like", "well"}
Corrections == {"no", "not", "actually", "sorry", "wait", "mean", "instead", "rather",
                "make", "uh", "um", "hmm", "oops"}
CorrectionWords == {<<"no">>, <<"not">>, <<"actually">>, <<"sorry">>, <<"wait">>,
                    <<"i", "mean">>, <<"make", "it">>, <<"instead">>, <<"rather">>,
                    <<"oops">>, <<"scratch", "that">>, <<"change", "it">>,
                    <<"change", "that">>, <<"change", "it", "to">>, <<"change", "that", "to">>}

At(ws, i)   == IF i \in DOMAIN ws THEN ws[i] ELSE ""
Written(w)  == w \in DOMAIN Figures
Alphabetic(w) == w # "" /\ w # "$" /\ ~Written(w) /\ w \notin References
StartsOf(ws, words) == {i \in 1 .. Len(ws) - Len(words) + 1 : SubSeq(ws, i, i + Len(words) - 1) = words}
Says(ws, words) == StartsOf(ws, words) # {}

---------------------------------------------------------------------------
(* Numbers that are not amounts.  A label's mask never takes a number that a *)
(* money word follows: the rest of it would be read as a different amount.   *)

AccountWords == {"account", "acct", "acc", "a/c"}
NumberMarks  == {"no", "number", "num", "#"}
Labels  == {"room", "unit", "apt", "apartment", "flat", "block", "blk", "floor", "level",
            "suite", "invoice", "ref", "reference"}
Digits  == {"zero", "oh", "one", "two", "three", "four", "five", "six", "seven", "eight",
            "nine"}
Counted == NotMoneyUnits \union {"hr", "hrs", "min", "mins", "%"}
Months  == {"january", "february", "march", "april", "may", "june", "july", "august",
            "september", "october", "november", "december", "jan", "feb", "mar", "apr",
            "jun", "jul", "aug", "sep", "sept", "oct", "nov", "dec"}
KeepsAmount == DOMAIN Multipliers \union DollarUnits \union CentUnits \union {"sgd"}

\* Written numbers of at least so many digits: "100" says 10000 cents.
Digital(least) == {w \in DOMAIN Figures : Figures[w] >= 10 ^ (least + 1)}

\* _NOT_MONEY: the words i .. j are a number that is no amount, with its label or unit.
NotMoney(ws, i, j) ==
  LET number(k) == Written(At(ws, k))
      next  == At(ws, j + 1)
      first == IF At(ws, i + 1) \in NumberMarks THEN i + 2 ELSE i + 1     \* past the label
      Runs(words, least) == j - first + 1 >= least /\ \A k \in first .. j : ws[k] \in words
      date  == SelectSeq(SubSeq(ws, i + 1, j - 1), LAMBDA w : w \notin {"the", "of"})
  IN \/ i = j /\ ws[i] \in References
     \/ i = j /\ ws[i] \in Digital(7) /\ At(ws, i - 1) # "$"
        /\ next \notin (DollarUnits \union CentUnits \union {"sgd"})
     \/ ws[i] \in AccountWords /\ next \notin KeepsAmount
        /\ (Runs(Digital(5), 1) \/ Runs(Digital(3), 2) \/ Runs(Digits, 3))
     \/ ws[i] \in Labels /\ first = j /\ number(j) /\ next \notin KeepsAmount
     \/ ws[i] = "#" /\ j = i + 1 /\ number(j) /\ next \notin KeepsAmount
     \/ number(i) /\ j = i + 1 /\ At(ws, j) \in Counted
     \/ ws[i] = "on" /\ ws[j] \in Months /\ Len(date) = 1
        /\ Written(date[1]) /\ date[1] \notin Digital(3)

Masked(ws, k) == \E i \in 1 .. k : \E j \in k .. Len(ws) : NotMoney(ws, i, j)

Heard(ws) ==
  LET kept == SelectSeq([i \in DOMAIN ws |-> i], LAMBDA i : ~Masked(ws, i))
  IN [n \in DOMAIN kept |-> ws[kept[n]]]

---------------------------------------------------------------------------
(* Amounts: [cents, first, last, marked, unit], positions in what is heard.  *)

Amount(cents, first, last, marked, unit) ==
  [cents |-> cents, first |-> first, last |-> last, marked |-> marked, unit |-> unit]

UnitOf(w) == IF w \in CentUnits THEN "cents" ELSE IF w \in DollarUnits THEN "dollars" ELSE ""

DollarsAndCents(ws, i) ==                          \* "50 dollars and 25 cents"
  /\ Written(ws[i]) /\ At(ws, i + 1) \in DollarUnits /\ At(ws, i + 2) = "and"
  /\ Written(At(ws, i + 3)) /\ Figures[ws[i + 3]] < 10000 /\ At(ws, i + 4) \in CentUnits
Multiplied(ws, i) == Written(ws[i]) /\ At(ws, i + 1) \in DOMAIN Multipliers

\* The words a pattern consumed: "5 grand" is $5,000, and never also $5.
Consumed(ws) ==
  UNION {i .. i + 4 : i \in {j \in DOMAIN ws : DollarsAndCents(ws, j)}} \union
  UNION {i .. i + 1 : i \in {j \in DOMAIN ws : Multiplied(ws, j)}}

WrittenAmounts(ws) ==
  LET both  == {i \in DOMAIN ws : DollarsAndCents(ws, i)}
      times == {i \in DOMAIN ws : Multiplied(ws, i)}
      plain == {i \in DOMAIN ws : Written(ws[i]) /\ i \notin Consumed(ws)}
      cents(i) == IF At(ws, i + 1) \in CentUnits THEN Figures[ws[i]] \div 100 ELSE Figures[ws[i]]
      unit(i)  == UnitOf(At(ws, i + 1))
  IN {Amount(Figures[ws[i]] + Figures[ws[i + 3]] \div 100, i, i + 4, TRUE, "dollars") : i \in both}
     \union
     {Amount(Figures[ws[i]] * Multipliers[ws[i + 1]], i, i + 1, TRUE, "dollars") : i \in times}
     \union
     {Amount(cents(i), i, IF unit(i) = "" THEN i ELSE i + 1,
             unit(i) # "" \/ At(ws, i - 1) \in Currency, unit(i)) : i \in plain}

WordsToInt(run) ==
  LET add(sum, w) ==
        CASE w \in DOMAIN Ones -> [sum EXCEPT !.now = @ + Ones[w]]
          [] w \in DOMAIN Tens -> [sum EXCEPT !.now = @ + Tens[w]]
          [] w \in Articles    -> [sum EXCEPT !.now = IF @ = 0 THEN 1 ELSE @]
          [] w = "hundred"     -> [sum EXCEPT !.now = (IF @ = 0 THEN 1 ELSE @) * 100]
          [] w = "thousand"    -> [total |-> sum.total + (IF sum.now = 0 THEN 1 ELSE sum.now) * 1000,
                                   now |-> 0]
      ends == FoldLeft(add, [total |-> 0, now |-> 0], run)
  IN ends.total + ends.now

\* The words that are left to be read as numbers: their positions.
Unread(ws) ==
  SelectSeq([i \in DOMAIN ws |-> i], LAMBDA i : Alphabetic(ws[i]) /\ i \notin Consumed(ws))

\* Runs of number words at those, led by "a" or joined by "and" after a hundred.  A lone
\* "one" is a pronoun after a determiner ("the blue one"): kept apart.
SpokenAmounts(ws, pos) ==
  LET w(k)     == IF k \in DOMAIN pos THEN ws[pos[k]] ELSE ""
      joins(k) == w(k) = "and" /\ w(k - 1) \in {"hundred", "thousand"} /\ w(k + 1) \in Small
      leads(k) == w(k) \in Articles /\ w(k + 1) \in {"hundred", "thousand", "grand"}
      word(k)  == w(k) \in NumberVocab \/ joins(k)
      starts   == {k \in DOMAIN pos : leads(k) \/ (w(k) \in NumberVocab /\ ~word(k - 1) /\ ~leads(k - 1))}
      after(k) == CHOOSE j \in k + 1 .. Len(pos) + 1 :
                    ~word(j) /\ \A h \in k + 1 .. j - 1 : word(h)
      run(k)   == SelectSeq([n \in 1 .. after(k) - k |-> w(k + n - 1)], LAMBDA x : x # "and")
      unit(k)  == w(after(k))
      cents(k) == CASE unit(k) \in {"k", "grand"} -> WordsToInt(run(k)) * 100000
                    [] unit(k) \in CentUnits      -> WordsToInt(run(k))
                    [] OTHER                      -> WordsToInt(run(k)) * 100
      amount(k) == Amount(cents(k), pos[k], pos[IF unit(k) \in Money THEN after(k) ELSE after(k) - 1],
                          unit(k) \in Money \/ At(ws, pos[k] - 1) \in Currency,
                          IF unit(k) \in {"k", "grand"} THEN "dollars" ELSE UnitOf(unit(k)))
      pronoun(k) == /\ run(k) = <<"one">> /\ unit(k) \notin (Money \union Connectors)
                    /\ {w(k - 1), w(k - 2)} \intersect Determiners # {}
      money == {k \in starts : unit(k) \notin NotMoneyUnits}
  IN [amounts  |-> {amount(k) : k \in {j \in money : ~pronoun(j)}},
      pronouns |-> {amount(k) : k \in {j \in money : pronoun(j)}}]

\* "fifty dollars 25 cents" is one amount.
MergeCents(ws, found) ==
  LET merge(out, a) ==
        IF /\ out # <<>> /\ Last(out).unit = "dollars" /\ a.unit = "cents" /\ a.cents < 100
           /\ SubSeq(ws, Last(out).last + 1, a.first - 1) \in {<<>>, <<"and">>}
        THEN Append(Front(out), Amount(Last(out).cents + a.cents, Last(out).first, a.last, TRUE, "dollars"))
        ELSE Append(out, a)
  IN FoldLeft(merge, <<>>, found)

\* A pronoun counts only where nothing else is an amount.
Scanned(ws, written, spoken) ==
  LET all == IF written = {} /\ spoken.amounts = {} THEN spoken.pronouns
             ELSE written \union spoken.amounts
  IN [text |-> ws,
      amounts |-> MergeCents(ws, SetToSortSeq(all, LAMBDA a, b : a.first < b.first))]
ScanText(ws) == Scanned(ws, WrittenAmounts(ws), SpokenAmounts(ws, Unread(ws)))
Scan == [c \in Clauses |-> ScanText(Heard(c))]

extract_literal_cents == [c \in Clauses |-> {a.cents : a \in Range(Scan[c].amounts)}]

---------------------------------------------------------------------------
(* Which of them could be rivals for one payment.                            *)

ReadsAsMoney(ws, a) ==
  \/ a.marked
  \/ At(ws, a.last + 1) \in {"", "$"} \/ At(ws, a.last + 1) \in Connectors
  \/ At(ws, a.first - 1) \in Corrections

\* A correction, then at most two words, then an amount.
Corrected(ws, found) ==
  \E a \in Range(found), p \in CorrectionWords : \E i \in StartsOf(ws, p) :
    LET gap == SubSeq(ws, i + Len(p), a.first - 1)
    IN /\ i + Len(p) <= a.first
       /\ Len(gap) <= 2 /\ \A n \in DOMAIN gap : Alphabetic(gap[n])

Occurrences(scan) ==
  LET ws   == scan.text
      said == IF Corrected(ws, scan.amounts) THEN scan.amounts
              ELSE SelectSeq(scan.amounts, LAMBDA a : ReadsAsMoney(ws, a))
  IN [n \in DOMAIN said |-> said[n].cents]
money_occurrences == [c \in Clauses |-> Occurrences(Scan[c])]

---------------------------------------------------------------------------
(* Numbers of shares: a count at most three words before "shares".           *)

share_counts ==
  [c \in Clauses |->
     LET ends   == {i \in DOMAIN c : c[i] \in {"share", "shares", "stock", "stocks"}}
         heard(s) == SelectSeq([i \in 1 .. s - 1 |-> i], LAMBDA i : c[i] # "$")
         near(s)  == LET h == heard(s) IN SubSeq(h, IF Len(h) > 3 THEN Len(h) - 2 ELSE 1, Len(h))
         word(i, j) == c[j] \in Small \union {"hundred"} \/ (c[j] \in Articles /\ j = i)
         \* the words of a count that starts at i, up to the share word
         count(s, i) == LET stop == CHOOSE j \in i .. s :
                                      (j = s \/ ~word(i, j)) /\ \A h \in i .. j - 1 : word(i, h)
                        IN SubSeq(c, i, stop - 1)
         says(s, i) ==
           IF At(c, i - 1) = "$" \/ c[i + 1] \in (Money \union {"sgd"}) THEN {}
           ELSE IF Written(c[i]) THEN IF Figures[c[i]] % 100 = 0 THEN {Figures[c[i]] \div 100} ELSE {}
           ELSE LET run == count(s, i)
                IN IF run = <<>> \/ (run \in {<<"a">>, <<"an">>} /\ i # s - 1) THEN {}
                   ELSE {WordsToInt(run)}
     IN UNION {UNION {says(s, i) : i \in Range(near(s))} : s \in ends} \ {0}]
=============================================================================
