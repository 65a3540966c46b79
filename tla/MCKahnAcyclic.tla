--------------------------- MODULE MCKahnAcyclic ---------------------------
EXTENDS KahnAcyclic

AllGraphs == [Nodes -> SUBSET Nodes]

=============================================================================
