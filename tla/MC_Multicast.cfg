\* Ordered delivery, refinement of AtomicMulticast and progress through
\* null messages in a two-member shard where both members send; the
\* persistence and verified frontiers and the waiter in a persistent
\* two-member shard;
\* termination of the latency benchmark under each sender layout.
CONSTANTS
    junk = junk

SPECIFICATION Spec

INVARIANT TypeOK
INVARIANT DeliveredIntact
INVARIANT DeliveredOnlyStable
INVARIANT FrontierPersisted
INVARIANT VerifiedFrontierSound
INVARIANT DoneMeansAllDelivered
PROPERTY ImplementsAtomicMulticast
PROPERTY SentIsDelivered
PROPERTY WaitReturns
PROPERTY AllLeave

\* The model stops once every sender has sent MaxIndex messages and all of
\* them are delivered, persisted and pushed: the shard is idle, waiting for
\* sends.  The benchmark ends once every node has left.
CHECK_DEADLOCK FALSE
