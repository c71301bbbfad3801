--------------------------- MODULE MCCapPartition ---------------------------
EXTENDS CapPartition

MCKinds == {"response_create", "stream"}
MCStartupCaps == [response_create |-> 0, stream |-> 5]
MCDashboardCaps == [response_create |-> 2, stream |-> 4]
=============================================================================
