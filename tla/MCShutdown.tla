----------------------------- MODULE MCShutdown -----------------------------
\* Shutdown with two plugins.
EXTENDS Shutdown
=============================================================================
