\* Every hook ends or watches its context.
SPECIFICATION Spec
CONSTANTS
    server = server
    consumer = consumer
    worker = worker
    mongo = mongo
    Hooks = {server, consumer, worker, mongo}
    Priority <- HookPriority
    Stubborn = {}
INVARIANTS
    TypeOK
    PriorityOrder
    GroupsStartTogether
    NothingSkipped
PROPERTY ShutdownCompletes
CHECK_DEADLOCK FALSE
