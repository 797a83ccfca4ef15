----------------------------- MODULE MCPlanTransfer -----------------------------
EXTENDS PlanTransfer

Item(s, c, p) == [seq |-> s, command |-> c, param1 |-> p]
OneItem == <<Item(0, "WAYPOINT", 0)>>
HomeAndTwo == <<Item(0, "WAYPOINT", 0), Item(1, "WAYPOINT", 1), Item(2, "DO_JUMP", 1)>>
HomePlans == {OneItem, HomeAndTwo}
MCEmpty == Item(0, "WAYPOINT", 9)
AllFailures ==
  {<<"None", 0>>, <<"FinalAckError", 0>>, <<"FinalAckEarly", 1>>,
   <<"ReadErrorAck", 1>>, <<"WriteErrorAck", 1>>} \cup
  ({"ReadIncorrectSequence", "WriteIncorrectSequence"} \X {0, 1})
================================================================================
