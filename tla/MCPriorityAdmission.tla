------------------------ MODULE MCPriorityAdmission ------------------------
\* Three operations at two priorities, enough contended acquisitions for a
\* task to be cancelled, to ask again and to leave a dead entry behind it.
EXTENDS PriorityAdmission

PriorityValues == 0..1
=============================================================================
