------------------------------ MODULE MCRelease -------------------------------
EXTENDS Release

MCKnown == <<8, 10>>
=============================================================================
