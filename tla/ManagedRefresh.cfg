SPECIFICATION Spec
CONSTANTS
    Shops = {1, 2}
    Admins = {a1, a2}
    Poller = Poller
    Free = Free
    MaxChanges = 3
INVARIANT TypeOK
PROPERTIES AloneIsExact ManagesOnlyWhatIsWanted TableFollows
CHECK_DEADLOCK FALSE
