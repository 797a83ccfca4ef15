----------------------------- MODULE MCLogTransfer -----------------------------
\* Two logs on a vehicle of ArduPilot, one of them longer than a chunk, and two on another
\* vehicle, one of them empty.
EXTENDS LogTransfer
CONSTANTS copter, px4

MCLogs == [v \in Vehicles |-> IF v = copter THEN << 3, 1 >> ELSE << 0, 2 >>]
================================================================================
