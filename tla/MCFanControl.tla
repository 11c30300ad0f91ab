---------------------------- MODULE MCFanControl ----------------------------
EXTENDS FanControl
=============================================================================
