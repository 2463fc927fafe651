--------------------------- MODULE MCControlPlane ---------------------------
(* ControlPlane for TLC: one client mutes and looks, one does the rest. *)
EXTENDS ControlPlane

CONSTANTS Muter, Other

MCClients == {Muter, Other}

MCSends == [c \in MCClients |->
              IF c = Muter THEN {"mute", "status"} ELSE {"unmute", "other"}]

=============================================================================
