---------------------------- MODULE MCStateHandler ----------------------------
(* Instances of StateHandler for TLC. *)
EXTENDS StateHandler

\* The messages on the screen, the notifications and the copy of the device
\* settings share no variable but the signals of NetworkManager, which they do
\* not write: they are explored one at a time, each with all inputs.
OneAtATime ==
    \/ OsdInit /\ NoticeInit
    \/ OsdInit /\ DeviceInit
    \/ NoticeInit /\ DeviceInit
=============================================================================
