------------------------------ MODULE MCDispatch ------------------------------
\* The constants of Dispatch get their values in the configurations.
EXTENDS Dispatch
=============================================================================
