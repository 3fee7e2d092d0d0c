SPECIFICATION Spec
CONSTANTS
    Generations = 2
    Modules = 2
    Request = {r1, r2}
    MaxFailures = 1
CHECK_DEADLOCK FALSE
INVARIANTS TeardownWaitsForRequests HandOver LeasesComeBack
PROPERTIES DrainedBeforeAnswer RetirementCompletes
