--------------------------- MODULE MCSignedChanges ---------------------------
EXTENDS SignedChanges, TLC
CONSTANTS d1, d2, c1, c2, Mom, Bob, Ann, n1, n2, n3, bad, abroad

MCSymmetry == Permutations(Callers) \union Permutations(Drafts)
MCStart == 19700 * 86400                           \* 9 December 2023
Row(name, phone) == [nickname |-> name, phone |-> phone, version |-> 1, changed |-> 0,
                     added |-> 0, hold |-> 0, removed |-> 0]
MCContacts == <<Row(Mom, n1), Row(Bob, n2)>>

EditOf(name, field, new) == [target |-> name, field |-> field, new |-> new]
EditRequest(edits, said) == [kind |-> "contact_edit", edits |-> edits, said |-> said]
AddRequest(name, phone, words, pending, for, said) ==
  [kind |-> "contact_add", nickname |-> name, phone |-> phone, words |-> words,
   pending |-> pending, forPayment |-> for, said |-> said]
MCRequests ==
  {EditRequest(<<EditOf(Mom, "phone", n3)>>, TRUE),
   EditRequest(<<EditOf(Bob, "nickname", Mom), EditOf(Mom, "phone", n3)>>, TRUE),
   EditRequest(<<EditOf(Bob, "phone", bad)>>, TRUE),
   AddRequest(Ann, n3, {}, 0, FALSE, TRUE),
   AddRequest(Mom, n3, {"words_urgency"}, 150000, TRUE, TRUE),
   AddRequest(Ann, abroad, {"words_secrecy"}, 0, TRUE, FALSE),
   [kind |-> "setup"]}

Date(y, m, d) == [month |-> 12 * y + m - 1, day |-> d]
FormOf(frequency, start, gives, count, end, auto) ==
  [frequency |-> frequency, start |-> start, gives |-> gives, count |-> count, end |-> end,
   auto |-> auto, amount |-> 8500]
MCForms ==
  {FormOf("MONTHLY", Date(2023, 12, 31), {"count"}, 15, Date(2023, 12, 31), "yes"),
   FormOf("WEEKLY", Date(2024, 2, 27), {"end"}, 0, Date(2024, 3, 12), "no"),
   FormOf("MONTHLY", Date(2024, 1, 30), {"count"}, 61, Date(2024, 1, 30), "no"),
   FormOf("WEEKLY", Date(2024, 1, 30), {"count", "end"}, 3, Date(2024, 1, 30), "no"),
   FormOf("WEEKLY", Date(2024, 1, 30), {}, 3, Date(2024, 3, 30), "no"),
   FormOf("WEEKLY", Date(2024, 1, 30), {"count"}, 3, Date(2024, 3, 30), "missing")}
==============================================================================
