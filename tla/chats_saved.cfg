SPECIFICATION Spec
CONSTANTS
    lid = lid
    pn = pn
    m1 = m1
    m2 = m2
    Chats <- OneChat
    PhoneOf <- NoLids
    Msgs <- MCMsgs
    RawChat <- AllPn
    Ts <- MCTs
    NoChat = NoChat
    MaxChats = 1
    MaxUnread = 2
    MaxStarts = 2
    MaxJobs = 1
    MaxDeletes = 1
    Own = {}
 
PROPERTIES TimestampsGetSaved
CHECK_DEADLOCK FALSE
