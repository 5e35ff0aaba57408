SPECIFICATION Spec
CONSTANTS
  d1 = d1  d2 = d2  c1 = c1  c2 = c2
  Mom = Mom  Bob = Bob  Ann = Ann
  n1 = n1  n2 = n2  n3 = n3  bad = bad  abroad = abroad
  Drafts = {d1, d2}
  Callers = {c1, c2}
  Reported = {bad}
  Overseas = {abroad}
  Contacts <- MCContacts
  Requests <- MCRequests
  Forms <- MCForms
  AiReads = {"low", "high", "unavailable"}
  HoldMinutes = 720
  UtcOffset = 28800
  Start <- MCStart
  Ticks = {200}
  MaxEvents = 1
  MaxAttempts = 1
INVARIANTS GuessesBounded DatesFollowStart
PROPERTIES OneOutcome AllOrNone ContactsSound CodeForThisPayload
SYMMETRY MCSymmetry
CHECK_DEADLOCK FALSE
