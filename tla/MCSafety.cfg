CONSTANT
    CallId = {c1, c2}
SPECIFICATION Spec
SYMMETRY Symmetry
INVARIANTS
    TypeOK
    NoLegWithoutConnection
    ReconnectScheduled
    WaitIsSupervised
    ClearedTogether
    HandleHasLeg
    AnswerOrder
    HoldInStep
PROPERTIES
    MscNotForgotten
    SubscriberNotForgotten
    FollowsLifecycle
