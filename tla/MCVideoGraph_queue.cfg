SPECIFICATION BothSpec
CONSTANTS
    r1 = r1  r2 = r2  c1 = c1  c2 = c2  t1 = t1  t2 = t2  t3 = t3
    w1 = w1  w2 = w2  v1 = v1  v2 = v2
    Workers = {w1, w2}
    Scanners = {s1}
    Revisions = {r1, r2}
    Versions = {v1}
    Chunks = {c1}
    Texts = {t1, t3}
    WorkerVersion <- MCWorkerVersion
    TextOf <- MCTextOf1
    Grounded <- MCGrounded
    None = None  NotCreated = NotCreated  Deleted = Deleted
    Budget <- QueueBudget
    MaxAttempts = 2
SYMMETRY Symmetry
INVARIANTS QueueIsSound UnchangedIsServed
PROPERTIES ServesPromise
