---------------------- MODULE MC_NotificationGenerator ----------------------
\* Model-checking instance of NotificationGenerator: four notified blocks,
\* two inspectors per block, up to two failing database calls and one
\* restart of the inspection loop.
EXTENDS NotificationGenerator

MCInspectors == 1..2
=============================================================================
