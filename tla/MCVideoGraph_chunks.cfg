SPECIFICATION BothSpec
CONSTANTS
    r1 = r1  r2 = r2  c1 = c1  c2 = c2  t1 = t1  t2 = t2  t3 = t3
    w1 = w1  w2 = w2  v1 = v1  v2 = v2
    Workers = {w1}
    Scanners = {s1}
    Revisions = {r1, r2}
    Versions = {v1}
    Chunks = {c1, c2}
    Texts = {t1, t2, t3}
    WorkerVersion <- MCWorkerVersion
    TextOf <- MCTextOf
    Grounded <- MCGroundedLoose
    None = None  NotCreated = NotCreated  Deleted = Deleted
    Budget <- ChunkBudget
    MaxAttempts = 2
INVARIANTS ProjectionGrounded
PROPERTIES PublishedChunksKept
