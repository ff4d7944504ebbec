------------------------------ MODULE MCAtPort ------------------------------
EXTENDS AtPort
=============================================================================
