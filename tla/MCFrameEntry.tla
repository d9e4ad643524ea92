---------------------------- MODULE MCFrameEntry ----------------------------
EXTENDS FrameEntry
=============================================================================
