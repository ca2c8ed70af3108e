------------------------ MODULE MCControllerRunner ------------------------
EXTENDS ControllerRunnerProperties
===========================================================================
