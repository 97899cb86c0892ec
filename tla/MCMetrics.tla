------------------------------ MODULE MCMetrics -------------------------------
EXTENDS Metrics
=============================================================================
