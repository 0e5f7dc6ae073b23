---------------------------- MODULE MCGrubGenerate ----------------------------
EXTENDS GrubGenerate
=============================================================================
