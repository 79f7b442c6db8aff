CONSTANTS
    server = server
    seed_user = seed_user
    newcomer = newcomer
    oldtimer = oldtimer
    Scripts <- MIGRATIONS
    Migrators = {server, seed_user}
    Learners = {newcomer, oldtimer}
    MaxStarts = 3
SPECIFICATION Spec
INVARIANTS
    AllOrNothing
CHECK_DEADLOCK FALSE
