--------------------------- MODULE BlockingQueueMC ---------------------------
EXTENDS BlockingQueue
=============================================================================
