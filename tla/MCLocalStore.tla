---------------------------- MODULE MCLocalStore ----------------------------
\* A command line and a server over one data directory.
EXTENDS LocalStore
=============================================================================
