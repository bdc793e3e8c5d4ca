CONSTANT QueueSize = 4
SPECIFICATION Spec
INVARIANT TypeOK
INVARIANT NoSharing
INVARIANT NoLeak
INVARIANT NullOnlyWhenAllHeld
PROPERTY ImplementsAbstractPool
