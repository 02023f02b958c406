---------------------------- MODULE MCLoopThread ----------------------------
EXTENDS LoopThread
=============================================================================
