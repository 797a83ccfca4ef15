---------------------------- MODULE MCEventTransfer ----------------------------
\* A report with one check, and an event for another station in the middle of it.
EXTENDS EventTransfer

MCScript == << "arming", "check", "elsewhere", "health" >>
================================================================================
