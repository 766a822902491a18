------------------------------ MODULE MCLifecycle ------------------------------
\* The instance of Lifecycle for TLC: every application in every environment.
EXTENDS Lifecycle
===============================================================================
