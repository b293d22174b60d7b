------------------------------ MODULE MCResult ------------------------------
EXTENDS PathResult, MCNodePath
=============================================================================
