SPECIFICATION Spec
CONSTANTS
    a1 = a1
    a2 = a2
    q1 = q1
    q2 = q2
    m1 = m1
    m2 = m2
    Addresses <- MCOneAddress
    Unspecified = Unspecified
    Queries <- MCQueries
    Messages <- MCOneMessage
    NULL = NULL
    NumValues = 1
    Failures = {}
INVARIANT AddressesAreWhole
