--------------------------- MODULE MCEngineWorker ---------------------------
EXTENDS EngineWorker

=============================================================================
