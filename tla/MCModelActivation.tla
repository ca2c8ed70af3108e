-------------------------- MODULE MCModelActivation --------------------------
EXTENDS ModelActivationProperties
=============================================================================
