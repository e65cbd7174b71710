------------------------------ MODULE MCTables ------------------------------
EXTENDS Tables
CONSTANTS k1, k2
MCKeys == {k1, k2}
MCStudied == AllTables
=============================================================================
