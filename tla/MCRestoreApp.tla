---------------------------- MODULE MCRestoreApp ----------------------------
EXTENDS RestoreApp
CONSTANTS face, blank
MCRequests == 1..MaxCalls
=============================================================================
