------------------------------- MODULE MCSetup -------------------------------
EXTENDS Setup

=============================================================================
