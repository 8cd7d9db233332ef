---------------------------- MODULE MCSpiffsFlash ----------------------------
EXTENDS SpiffsFlashInv
=============================================================================
