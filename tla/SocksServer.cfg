SPECIFICATION FairSpec
CONSTANTS
    Clients = {w, c}
    Watched = w
    AuthChanges = {nil}
    HandlerChanges = {h1, both}
    Nils = {nil}
    Authenticating = {both}
    Initial = init
CHECK_DEADLOCK FALSE
INVARIANTS
    NoneStranded
    Released
PROPERTIES
    ChangeInForce
    ChangeReturns
    AcceptedServed
    HandlerReturns
    EndsTogether
    HelpersEnd
