---------------------------- MODULE MCProvdDaemon ----------------------------
(* Instances of ProvdDaemon for TLC. *)
EXTENDS ProvdDaemon

CONSTANTS r1, r2, r3, r4  \* a launch with the right password, one with a wrong
                          \* one, a request for another service, and one for a
                          \* service that provd does not have

MCFits == {<<r1, r1>>, <<r1, r2>>}
MCMethodOf == [r \in Requests |->
                 CASE r \in Launches -> <<"gdm", "LaunchDesktopSession">>
                   [] r = r3 -> <<"user", "CreateUser">>
                   [] r = r4 -> <<"pro", "ProStatus">>]
==============================================================================
