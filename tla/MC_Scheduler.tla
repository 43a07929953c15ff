----------------------------- MODULE MC_Scheduler -----------------------------
\* The runs of Scheduler need no model values: ids and instants are numbers.
EXTENDS Scheduler
=============================================================================
