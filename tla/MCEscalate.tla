------------------------------ MODULE MCEscalate ------------------------------
\* Nothing is down, a middle rung is down, only the ungated top is up.
EXTENDS Escalate

MCOutages == {{}, {2}, {1, 2}}
=============================================================================
