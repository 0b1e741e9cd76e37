CONSTANTS
    Subscriber <- Subscribers
    Dialled <- Numbers0
    NumberSize = 4
    ImsiSize = 16
SPECIFICATION Spec
INVARIANTS
    ShownAsDialled
    IdentityReachesCaller
