------------------------------ MODULE MCVmTask ------------------------------
\* Two tasks, as siblings or a chain.
EXTENDS VmTask

CONSTANTS t1, t2

MCTask == {t1, t2}
=============================================================================
