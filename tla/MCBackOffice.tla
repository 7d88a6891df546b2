---------------------------- MODULE MCBackOffice ----------------------------
EXTENDS BackOffice
=============================================================================
