--------------------------- MODULE MCSampledLevel ---------------------------
EXTENDS SampledLevel
=============================================================================
