---------------------------------- MODULE Osd ----------------------------------
(***************************************************************************)
(* The messages on the screen about WLAN and airplane mode                 *)
(* (session/networkstatehandler.cpp).  Airplane mode blocks WLAN, so that  *)
(* its daemon signals two properties, in either order and one shortly      *)
(* after the other; of these only airplane mode is to be shown.            *)
(*                                                                         *)
(* Time goes in ticks while something waits for it; what is due is done    *)
(* before the next tick, in any order.                                     *)
(***************************************************************************)
EXTENDS Integers

CONSTANTS Delay,    \* ticks a WLAN message waits: the interval, less 50 ms, in the code
          Reset,    \* ticks without WLAN messages after airplane mode: the interval
          Skew      \* ticks between the two signals of the daemon

ASSUME OsdAssumption ==
    /\ Delay \in Nat /\ Reset \in Nat /\ Skew \in Nat
    /\ Skew < Delay /\ Delay < Reset

Off == -1
Kinds == {"Enabled", "WifiEnabled"}

VARIABLES
    airplane,       \* airplane mode, at the daemon
    wlan,           \* WLAN is blocked, at the daemon
    unsent,         \* signals of the last switch of airplane mode to come
    due,            \* ticks until they must
    delayTimer,     \* m_delayShowWifiOSD: ticks left, or Off
    resetTimer,     \* m_resetWifiOSDEnableTimer
    osdEnable,      \* m_wifiOSDEnable
    wifiEnabled,    \* m_wifiEnabled: WLAN is blocked, when it was last kept
    heard           \* history: the last WifiEnabled signal, and who caused it

daemonVars == <<airplane, wlan, unsent, due>>
handlerVars == <<delayTimer, resetTimer, osdEnable, wifiEnabled>>
osdVars == <<daemonVars, handlerVars, heard>>

\* No message on WLAN waits while they are off, and they are off until the timer ends.
OsdTypeOK ==
    /\ airplane \in BOOLEAN /\ wlan \in BOOLEAN
    /\ unsent \subseteq Kinds /\ due \in 0 .. Skew
    /\ delayTimer \in Off .. Delay /\ resetTimer \in Off .. Reset
    /\ osdEnable \in BOOLEAN /\ wifiEnabled \in BOOLEAN
    /\ heard \in [blocked : BOOLEAN, cause : {"user", "airplane"}]
    /\ osdEnable <=> resetTimer = Off
    /\ delayTimer # Off => osdEnable

OsdInit ==
    /\ airplane \in BOOLEAN /\ wlan = airplane
    /\ unsent = {} /\ due = 0
    /\ delayTimer = Off /\ resetTimer = Off
    /\ osdEnable = TRUE /\ wifiEnabled = TRUE
    /\ heard = [blocked |-> wlan, cause |-> "user"]

-----------------------------------------------------------------------------
\* onAirplaneModeWifiEnabledChanged: nothing just after airplane mode.
OnAirplaneModeWifiEnabledChanged(blocked) ==
    /\ delayTimer' = IF osdEnable THEN Delay ELSE Off
    /\ wifiEnabled' = IF osdEnable THEN blocked ELSE wifiEnabled
    /\ UNCHANGED <<resetTimer, osdEnable>>

OnAirplaneModeEnabledChanged_KeepsDelay ==      \* the WLAN message is not stopped
    /\ osdEnable' = FALSE
    /\ resetTimer' = Reset
    /\ UNCHANGED <<delayTimer, wifiEnabled>>

OnAirplaneModeEnabledChanged_KeepsReset ==      \* a timer that runs is not started anew
    /\ osdEnable' = FALSE
    /\ delayTimer' = Off
    /\ resetTimer' = IF resetTimer = Off THEN Reset ELSE resetTimer
    /\ UNCHANGED wifiEnabled

\* onAirplaneModeEnabledChanged: airplane mode is shown.
OnAirplaneModeEnabledChanged ==
    /\ osdEnable' = FALSE
    /\ delayTimer' = Off
    /\ resetTimer' = Reset
    /\ UNCHANGED wifiEnabled

-----------------------------------------------------------------------------
\* The user switches WLAN.
SwitchWlan ==
    /\ unsent = {}
    /\ wlan' = ~wlan
    /\ heard' = [blocked |-> wlan', cause |-> "user"]
    /\ OnAirplaneModeWifiEnabledChanged(wlan')
    /\ UNCHANGED <<airplane, unsent, due>>

\* The user switches airplane mode; the daemon tells of it, and of WLAN if that
\* changes.
SwitchAirplane ==
    /\ unsent = {}
    /\ airplane' = ~airplane /\ wlan' = airplane'
    /\ unsent' = IF wlan' = wlan THEN {"Enabled"} ELSE Kinds
    /\ due' = Skew
    /\ UNCHANGED <<handlerVars, heard>>

\* onAirplaneModePropertiesChanged, for one property or both: Enabled comes first.
Signal(changed) ==
    /\ changed # {} /\ changed \subseteq unsent
    /\ unsent' = unsent \ changed
    /\ heard' = IF "WifiEnabled" \in changed THEN [blocked |-> wlan, cause |-> "airplane"]
                ELSE heard
    /\ IF "Enabled" \in changed
       THEN OnAirplaneModeEnabledChanged ELSE OnAirplaneModeWifiEnabledChanged(wlan)
    /\ UNCHANGED <<airplane, wlan, due>>

\* delayShowWifiOSD
DelayShowWifiOSD ==
    /\ delayTimer = 0 /\ delayTimer' = Off
    /\ UNCHANGED <<daemonVars, resetTimer, osdEnable, wifiEnabled, heard>>

\* resetWifiOSDEnable
ResetWifiOSDEnable ==
    /\ resetTimer = 0 /\ resetTimer' = Off
    /\ osdEnable' = TRUE
    /\ UNCHANGED <<daemonVars, delayTimer, wifiEnabled, heard>>

Earlier(timer) == IF timer = Off THEN Off ELSE timer - 1

Tick ==
    /\ delayTimer # 0 /\ resetTimer # 0 /\ (unsent # {} => due > 0)
    /\ delayTimer # Off \/ resetTimer # Off \/ unsent # {}
    /\ delayTimer' = Earlier(delayTimer) /\ resetTimer' = Earlier(resetTimer)
    /\ due' = IF due > 0 THEN due - 1 ELSE 0
    /\ UNCHANGED <<airplane, wlan, unsent, osdEnable, wifiEnabled, heard>>

\* What happens without the user.
OsdStep ==
    \/ \E changed \in SUBSET Kinds : Signal(changed)
    \/ DelayShowWifiOSD \/ ResetWifiOSDEnable \/ Tick

-----------------------------------------------------------------------------
\* WLAN is shown only when the user has switched it and nothing else, and as it was
\* last: of the two signals of airplane mode, that of WLAN is never shown, in
\* whichever order they come and however often the mode is switched.
AirplaneHidesWlan ==
    [][DelayShowWifiOSD /\ osdEnable =>
         heard = [blocked |-> wifiEnabled, cause |-> "user"]]_osdVars

=============================================================================
