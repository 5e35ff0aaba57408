------------------------------- MODULE MCTurns -------------------------------
(* What is said and what a parser may make of it: the plan that says it, and  *)
(* every plan with a payee, an account or a figure of its own.                *)
EXTENDS Utterances

MCFigures == [w \in {"3", "20", "25", "30", "50", "100", "204", "500"} |->
                CASE w = "3" -> 300 [] w = "20" -> 2000 [] w = "25" -> 2500 [] w = "30" -> 3000
                  [] w = "50" -> 5000 [] w = "100" -> 10000 [] w = "204" -> 20400 [] w = "500" -> 50000]
MCReferences == {"123-456"}
MCContacts == [mom   |-> [nickname |-> <<"mom">>,  legal |-> <<"jane", "tan">>],
               john1 |-> [nickname |-> <<"john">>, legal |-> <<"john", "doe">>],
               john2 |-> [nickname |-> <<"john">>, legal |-> <<"john", "smith">>],
               sis   |-> [nickname |-> <<"sis">>,  legal |-> <<"amy", "tan">>]]
MCAccounts == [sav |-> "savings", joi |-> "joint", set |-> "settlement"]
MCBillers  == [citygas |-> <<"citygas">>]
MCEquities == [D05  |-> [price |-> 4580,  names |-> {<<"dbs">>, <<"d05">>}],
               AAPL |-> [price |-> 24150, names |-> {<<"apple">>, <<"aapl">>}]]
MCBalance   == [sav |-> 150000, joi |-> 70000, set |-> 30000]
MCElsewhere == [sav |-> 70000, joi |-> 40000]
MCAtFirst   == {"mom", "john1", "john2"}
MCStray     == {[field |-> Field(1, "target"), choice |-> Choice("mom")],
                [field |-> Field(1, "source_account"), choice |-> Choice("set")],
                [field |-> Field(2, "amount"), choice |-> Chosen(99900)]}

Default == <<"default">>
Leg(kind, source, target, amount) ==
  [kind |-> kind, source |-> source, target |-> target, amount |-> amount]
Pay(target, cents)  == Leg("TRANSFER", Default, target, Literal(cents))
Want(clause, kind, who, source, amounts, counts) ==
  [clause |-> clause, kinds |-> {kind}, who |-> who, source |-> source,
   amounts |-> amounts, counts |-> counts]
Paid(clause, who, amounts) == Want(clause, "TRANSFER", who, "any", amounts, {})
Johns == {"john1", "john2"}
Mom  == <<"mom">>
John == <<"john">>
Dbs  == <<"dbs">>

\* Every plan of one or two legs of the kinds, payees, sources and amounts given.
Plans(legs, targets, sources, amounts) ==
  LET leg(i) == {Leg(kt[1], s, kt[2], a) : kt \in targets, s \in sources,
                 a \in amounts \union (IF i = 1 THEN {} ELSE {Symbolic(1, "ALL"), Symbolic(1, "HALF")})}
      one == {<<a>> : a \in leg(1)}
      two == IF legs = 1 THEN {} ELSE {<<a, b>> : a \in leg(1), b \in leg(2)}
  IN {p \in one \union two : WellFormed(p)}
Literals(cents) == {Literal(c) : c \in cents}
Transfers(mentions) == {<<"TRANSFER", m>> : m \in mentions}
Utterance(clauses, wants, plan, plans) ==
  [clauses |-> clauses, wants |-> wants, plan |-> plan, plans |-> {plan} \union plans]

Two == Utterance(
  <<<<"hello">>, <<"pay", "mom", "50">>, <<"pay", "john", "500">>>>,
  {Paid(2, {"mom"}, {5000}), Paid(3, Johns, {50000})},
  <<Pay(Mom, 5000), Pay(John, 50000)>>,
  Plans(2, Transfers({Mom, John}), {Default}, Literals({5000, 50000})) \union
  Plans(1, Transfers({Mom, John, <<"bob">>}), {Default}, Literals({5000, 99900})) \union
  {<<Pay(<<"bob">>, 50000), Pay(Mom, 5000)>>})

NoWait == Utterance(
  <<<<"okay">>, <<"50", "to", "mom", "no", "wait", "500">>>>,
  {Paid(2, {"mom"}, {5000, 50000})},
  <<Pay(Mom, 50000)>>,
  Plans(2, Transfers({Mom}), {Default}, Literals({5000, 50000, 99900})))

MakeIt == Utterance(
  <<<<"pay", "john", "50">>, <<"actually", "make", "it", "500">>>>,
  {Paid(1, Johns, {5000, 50000})},
  <<Pay(John, 50000)>>,
  Plans(1, Transfers({John, <<"john", "smith">>}), {Default}, Literals({5000, 50000, 99900})))

Shared == Utterance(
  <<<<"pay", "mom", "20", "and", "john", "20", "wait", "30", "from", "spending">>>>,
  {Want(1, "TRANSFER", {"mom"}, "joint", {2000, 3000}, {}),
   Want(1, "TRANSFER", Johns, "joint", {2000, 3000}, {})},
  <<Leg("TRANSFER", <<"spending">>, Mom, Literal(2000)),
    Leg("TRANSFER", <<"spending">>, John, Literal(3000))>>,
  Plans(2, Transfers({Mom, John}), {Default}, Literals({2000, 3000})) \union
  Plans(1, Transfers({Mom, John}), {Default, <<"spending">>}, Literals({2000, 3000})))

\* Two payments and their figures in one clause: the swapped plans go through.
Pair == Utterance(
  <<<<"pay", "mom", "50", "and", "john", "20">>>>,
  {Paid(1, {"mom"}, {5000}), Paid(1, Johns, {2000})},
  <<Pay(Mom, 5000), Pay(John, 2000)>>,
  Plans(2, Transfers({Mom, John}), {Default}, Literals({5000, 2000, 7000})))

Half == Utterance(
  <<<<"move", "a", "grand", "to", "my", "joint", "account">>, <<"buy", "dbs", "with", "half", "of", "it">>>>,
  {Want(1, "OWN_TRANSFER", {"joi"}, "any", {100000}, {}),
   Want(2, "BUY_EQUITY", {"D05"}, "joint", {}, {})},
  <<Leg("TRANSFER", Default, <<"my", "joint", "account">>, Literal(100000)),
    Leg("BUY_EQUITY", Default, Dbs, Symbolic(1, "HALF"))>>,
  Plans(2, {<<"TRANSFER", <<"joint">>>>, <<"TRANSFER", <<"savings">>>>, <<"BUY_EQUITY", Dbs>>},
        {Default}, Literals({100000, 50000}) \union {SharesOf(3)}))

Rest == Utterance(
  <<<<"send", "a", "hundred", "and", "fifty", "to", "john", "doe", "for", "room", "204">>,
    <<"whatever", "is", "left", "to", "joint">>>>,
  {Paid(1, {"john1"}, {15000}), Want(2, "OWN_TRANSFER", {"joi"}, "any", {}, {})},
  <<Pay(<<"john", "doe">>, 15000), Leg("TRANSFER", Default, <<"joint">>, Symbolic(1, "ALL"))>>,
  Plans(2, Transfers({<<"john", "doe">>, <<"joint">>}), {Default}, Literals({15000, 20400, 5000})))

Shares == Utterance(
  <<<<"buy", "3", "dbs", "shares">>, <<"pay", "mom", "two", "hundred">>>>,
  {Want(1, "BUY_EQUITY", {"D05"}, "any", {}, {3}), Paid(2, {"mom"}, {20000})},
  <<Leg("BUY_EQUITY", Default, Dbs, SharesOf(3)), Pay(Mom, 20000)>>,
  Plans(2, {<<"BUY_EQUITY", Dbs>>, <<"TRANSFER", Mom>>}, {Default},
        {SharesOf(3), SharesOf(2)} \union Literals({300, 20000})))

Invest == Utterance(
  <<<<"invest", "500", "in", "apple">>>>,
  {Want(1, "BUY_EQUITY", {"AAPL"}, "any", {50000}, {})},
  <<Leg("BUY_EQUITY", Default, <<"apple">>, Literal(50000))>>,
  Plans(1, {<<"BUY_EQUITY", <<"apple">>>>, <<"BUY_EQUITY", Dbs>>}, {Default, <<"my", "savings">>},
        Literals({50000, 10000}) \union {SharesOf(2)}))

Rethink == Utterance(
  <<<<"invest", "100", "no", "wait", "50", "in", "dbs">>>>,
  {Want(1, "BUY_EQUITY", {"D05"}, "any", {5000, 10000}, {})},
  <<Leg("BUY_EQUITY", Default, Dbs, Literal(5000))>>,
  Plans(1, {<<"BUY_EQUITY", Dbs>>}, {Default}, Literals({5000, 10000, 50000})))

Sis == Utterance(
  <<<<"pay", "sis", "50">>>>, {Paid(1, {"sis"}, {5000})}, <<Pay(<<"sis">>, 5000)>>,
  Plans(1, Transfers({<<"sis">>, Mom}), {Default}, Literals({5000, 99900})))

NewAccount == Utterance(
  <<<<"pay", "this", "new", "account", "50">>>>, {Paid(1, {}, {5000})},
  <<Pay(<<"this", "new", "account">>, 5000)>>, {<<>>})

OwnCard == Utterance(
  <<<<"use", "my", "spending", "account", "and", "pay", "mom", "50", "dollars", "and", "25", "cents">>>>,
  {Want(1, "TRANSFER", {"mom"}, "joint", {5025}, {})},
  <<Leg("TRANSFER", <<"my", "spending", "account">>, Mom, Literal(5025))>>,
  Plans(1, Transfers({Mom}), {Default, <<"spending">>, <<"savings">>}, Literals({5025, 5000, 2500})))

Foo == Utterance(
  <<<<"from", "foo", "account", "pay", "citygas", "bill", "50">>>>,
  {Want(1, "PAY_BILL", {"citygas"}, "any", {5000}, {})},
  <<Leg("PAY_BILL", <<"foo", "account">>, <<"citygas">>, Literal(5000))>>,
  Plans(1, {<<"PAY_BILL", <<"citygas">>>>, <<"PAY_BILL", <<"water">>>>, <<"TRANSFER", <<"citygas">>>>},
        {Default, <<"foo", "account">>}, Literals({5000, 50000})))

Itself == Utterance(
  <<<<"move", "100", "to", "savings">>>>,
  {Want(1, "OWN_TRANSFER", {"sav"}, "any", {10000}, {})},
  <<Leg("TRANSFER", Default, <<"savings">>, Literal(10000))>>,
  Plans(1, Transfers({<<"savings">>, <<"joint">>}), {Default, <<"savings">>}, Literals({10000, 99900})))

MCSaid == [two |-> Two, nowait |-> NoWait, makeit |-> MakeIt, shared |-> Shared, pair |-> Pair, half |-> Half,
           rest |-> Rest, shares |-> Shares, invest |-> Invest, rethink |-> Rethink, sis |-> Sis,
           newaccount |-> NewAccount,
           owncard |-> OwnCard, foo |-> Foo, itself |-> Itself]
\* What the words allow is what they say, of these utterances.
ASSUME MCOnlyWhatIsSaid   == OnlyWhatIsSaid
ASSUME MCSaidTwiceCompetes == SaidTwiceCompetes
ASSUME MCRightPlanIsSaid  == RightPlanIsSaid

MCSymmetry == Permutations(Threads)
MCClauses == UNION {Range(u.clauses) \union {Transcript(u.clauses)} : u \in Range(MCSaid)}
=============================================================================
