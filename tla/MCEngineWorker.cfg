SPECIFICATION Spec
CONSTANT MaxJobs = 4
INVARIANTS ExactlyOnceInOrder SyncedMeansComplete
PROPERTIES CallsReturn RefinesSerialWorker
