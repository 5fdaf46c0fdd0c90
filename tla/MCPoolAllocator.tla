--------------------------- MODULE MCPoolAllocator ---------------------------
\* Four blocks of three bytes; callers release every address from one block
\* before the buffer to one block past it, aligned or not.
EXTENDS PoolAllocator

MCOffsets == -3 .. 15
=============================================================================
