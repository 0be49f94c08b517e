-------------------------- MODULE MCMeasurementPanics --------------------------
EXTENDS Measurement, TLC
=============================================================================
