SPECIFICATION FairSpec
CONSTANTS
    a1 = a1
    a2 = a2
    q1 = q1
    q2 = q2
    m1 = m1
    m2 = m2
    Addresses <- MCAddresses
    Unspecified = Unspecified
    Queries <- MCQueries
    Messages <- MCMessages
    NULL = NULL
    NumValues = 4
    Failures = {"query", "answer", "append", "send"}
INVARIANT TypeOK StateFollowsRole DetachedForgets NoMessageIsLost
PROPERTY AddressStays SentMessagesStay AttachedResolves
