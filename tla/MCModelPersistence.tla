------------------------ MODULE MCModelPersistence ------------------------
EXTENDS ModelPersistenceProperties
===========================================================================
