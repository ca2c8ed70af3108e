--------------------------- MODULE MCFramedPulse ---------------------------
EXTENDS FramedPulseProperties
=============================================================================
