SPECIFICATION Spec
CONSTANTS
    lid = lid
    pn = pn
    m1 = m1
    m2 = m2
    Chats <- MCChats
    PhoneOf <- MCPhoneOf
    Msgs <- OneMsg
    RawChat <- LidRaw
    Ts <- OneTs
    NoChat = NoChat
    MaxChats = 1
    MaxUnread = 1
    MaxStarts = 2
    MaxJobs = 1
    MaxDeletes = 0
    Own = {}
INVARIANTS MessagesAreListed
CHECK_DEADLOCK FALSE
