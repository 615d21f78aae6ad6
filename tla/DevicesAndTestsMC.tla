------------------------- MODULE DevicesAndTestsMC --------------------------
(* The two parts of the system that take everything of a block registry away *)
(* (hideEverything): the start-up of the agent, and the daemon that cleans up *)
(* after tests.  They share no state, so that an instance of each is explored *)
(* while the other has not begun.                                            *)
EXTENDS BlockDevicesMC, TestStateManagerMC

NoJobYet == begun = 0
NoTestYet == manager = "up" /\ \A c \in Conns : socket[c] = "new"

Init == DevicesInit /\ ManagerInit

Next ==
  \/ DevicesNext /\ NoTestYet /\ UNCHANGED managerVars
  \/ ManagerNext /\ NoJobYet /\ UNCHANGED devicesVars

(* What has not begun has no step that fairness asks for.                    *)
Spec == Init /\ [][Next]_<<devicesVars, managerVars>> /\ DevicesFairness /\ ManagerFairness
=============================================================================
