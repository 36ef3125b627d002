SPECIFICATION Spec
CONSTANTS
    NumToggles = 4
    MaxExpiries = 2
    Patient = TRUE
INVARIANT TypeOK BlinkingIsTimed QuietShowsRole
PROPERTY RoleIsShown
