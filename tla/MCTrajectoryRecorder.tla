----------------------- MODULE MCTrajectoryRecorder -----------------------
EXTENDS TrajectoryRecorderProperties
===========================================================================
