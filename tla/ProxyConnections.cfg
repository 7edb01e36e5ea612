SPECIFICATION Spec
CONSTANTS
    Slots = {r1, r2}
    Browsers = {b1, b2}
    Flows = {f1, f2}
    ApiKeyFlows = {f2}
    owner = owner
    app = app
    node = node
    Agents = {owner, app, node}
    Admitted = {owner, app}
    MaxSkew = 2
    Retention = 4
    ConsentTime = 4
    StateTime = 4
    HandoffTime = 2
    CapabilityTime = 6
    IdleTime = 20
    Starting <- Scenarios
    None = none
SYMMETRY Symmetry
CHECK_DEADLOCK FALSE
INVARIANTS OneConnectionPerConsent CompletedByApprover AcceptedOnce ForwardedWhileAllowed
