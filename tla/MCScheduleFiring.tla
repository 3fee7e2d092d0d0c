--------------------------- MODULE MCScheduleFiring ---------------------------
EXTENDS ScheduleFiring
===============================================================================
