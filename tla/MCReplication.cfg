SPECIFICATION Spec
CONSTANTS
    leader = leader
    other = other
    r1 = r1
    r2 = r2
    Nodes <- MCNodes
    Setups <- MCSetups
    Master <- MCMaster
    Registrars = {r1, r2}
    Addresses <- MCAddresses
    Writer = leader
    Script <- MCScript
    BufferSize = 1
    Budgets <- MCBudgets
    Oversized = {}
INVARIANTS
    TypeOK
    FollowersHoldAPrefix
PROPERTIES
    OnlyTheUnreachableAreDropped
    ClientsAreServed
CHECK_DEADLOCK FALSE
