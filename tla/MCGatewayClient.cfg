CONSTANTS
    c1 = c1
    Call = {c1}
    MaxGeneration = 3
    TopBackoff = 1
SPECIFICATION FairSpec
INVARIANTS ConnectOwed PendingOnLiveSocket OneConnection NeverStranded
PROPERTIES ImplementsSession PromisesSettle Redials
