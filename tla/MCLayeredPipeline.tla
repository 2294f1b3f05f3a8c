-------------------------- MODULE MCLayeredPipeline --------------------------
EXTENDS LayeredPipeline
=============================================================================
