------------------------------ MODULE MCNotify ------------------------------
EXTENDS Notify

CONSTANTS n1

OrderlyOnes == {n1}
=============================================================================
