\* The consumer's hook does not watch its context.
SPECIFICATION Spec
CONSTANTS
    server = server
    consumer = consumer
    worker = worker
    mongo = mongo
    Hooks = {server, consumer, worker, mongo}
    Priority <- HookPriority
    Stubborn = {consumer}
PROPERTY ShutdownCompletes
CHECK_DEADLOCK FALSE
