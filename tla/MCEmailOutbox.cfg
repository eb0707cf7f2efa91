SPECIFICATION FairSpec
CONSTANTS
    d1 = d1
    d2 = d2
    reminder = reminder
    notice = notice
    guest = guest
    NoMail = NoMail
    Mails = {reminder, notice}
    Reminders = {reminder}
    Keyed = {notice}
    Exempt = {notice}
    Sources <- BothOrNone
    Recipient <- OneGuest
    Dispatchers = {d1, d2}
    MaxAttempts = 2
    MaxEdits = 1
    MaxRequeues = 1
    MaxRestores = 1
INVARIANTS
    TypeOK
    OneSender
    SentWasAccepted
    SentWhenWanted
PROPERTIES
    RowsSpec
    SettledKept
    MailSettles
CHECK_DEADLOCK FALSE
