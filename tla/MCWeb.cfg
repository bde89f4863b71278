SPECIFICATION SuiteSpec
CONSTANTS
    Suite = {"pipeline", "users", "loans", "powers", "accounts", "pages", "multipart", "edge",
             "amortization", "birthdays"}
    t1 = t1
    t2 = t2
    Requests <- AllRequests
    MaxEdits = 1
INVARIANTS NothingFallsBetweenPages ReachedByRight HeadersPassed FormsStayGood
    ArrivesWholeOrNotAtAll AnsweredOnce InstalmentsAgree BirthdaysAnnounced
CHECK_DEADLOCK FALSE
