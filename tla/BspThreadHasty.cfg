SPECIFICATION Spec
CONSTANTS
    NumToggles = 4
    MaxExpiries = 2
    Patient = FALSE
INVARIANT QuietShowsRole
