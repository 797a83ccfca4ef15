---------------------------- MODULE MCPlanManagerOpen ----------------------------
EXTENDS PlanManagerOpen

Item(s, c, p) == [seq |-> s, command |-> c, param1 |-> p]

MCPlans ==
  { <<>>, <<Item(0, "WAYPOINT", 0), Item(1, "WAYPOINT", 0), Item(2, "DO_JUMP", 1)>> }

MCMessages ==
  {MissionCountMsg(n, "MISSION") : n \in 0 .. 2}
    \cup {MissionCountMsg(3, "FENCE"), MissionRequestMsg(0, "FENCE"),
          MissionAckMsg("ACCEPTED", "FENCE")}
    \cup {MissionItemMsg(Item(i, "WAYPOINT", 0), t) : i \in 0 .. 2, t \in {"MISSION", "FENCE"}}
    \cup {MissionItemMsg(Item(1, "DO_JUMP", 0), "MISSION")}
    \cup {MissionRequestMsg(i, "MISSION") : i \in 0 .. 2}
    \cup {MissionAckMsg(r, "MISSION") : r \in MavMissionResult}
================================================================================
