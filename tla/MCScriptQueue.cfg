\* Three scripts, enqueued in every order and at every moment of each
\* other's run, whose children may hang until they are killed.
CONSTANTS
    t1 = t1
    t2 = t2
    t3 = t3
    Tasks = {t1, t2, t3}
SPECIFICATION FairQueueSpec
INVARIANTS
    OneRunAtATime
    QueueSound
    VerdictsAreHonest
PROPERTIES
    ServesInOrder
    EveryTaskAnswered
\* Nothing is left to do once every script has been answered.
CHECK_DEADLOCK FALSE
