SPECIFICATION FairSpec
CONSTANTS
    m1 = m1
    m2 = m2
    m3 = m3
    data = data
    candidates = candidates
    Message = {m1, m2, m3}
    Queue = {data, candidates}
    QueueOf <- MCQueueOf
    MaxRetries = 2
    MaxDisturbances = 2
INVARIANTS
    EffectOnce
    EscalationEarned
PROPERTY Recovers
CHECK_DEADLOCK FALSE
