-------------------------- MODULE MCSpiffsPowerLoss --------------------------
EXTENDS SpiffsPowerLoss
=============================================================================
