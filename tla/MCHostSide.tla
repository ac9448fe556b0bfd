------------------------------ MODULE MCHostSide ------------------------------
(* What runs on a monitored host, or against one host, checked in one run:    *)
(* `part` says which of the parts, which share no state, moves.               *)
EXTENDS SensorChannel, ProbeLauncher, HiddenState, DriftBaseline

VARIABLE part

others(p) ==
    /\ p # "channel" => UNCHANGED channelVars
    /\ p # "launcher" => UNCHANGED launcherVars
    /\ p # "hidden" => UNCHANGED hiddenVars
    /\ p # "drift" => UNCHANGED driftVars

Init ==
    /\ part \in {"channel", "launcher", "hidden", "drift"}
    /\ ChannelInit /\ LauncherInit /\ HiddenStateInit /\ DriftInit
    /\ part # "channel" => followed
    /\ part # "launcher" => login = "root"
    /\ part # "hidden" => proc = [p \in DOMAIN proc |-> "none"] /\ mods = [m \in DOMAIN mods |-> {}]
    /\ part # "drift" => state = {}

Next ==
    /\ UNCHANGED part
    /\ \/ part = "channel" /\ ChannelNext
       \/ part = "launcher" /\ LauncherNext
       \/ part = "hidden" /\ HiddenStateNext
       \/ part = "drift" /\ DriftNext
    /\ others(part)

Spec ==
    /\ Init /\ [][Next]_<<part, channelVars, launcherVars, hiddenVars, driftVars>>
    /\ part = "channel" => ChannelFairness

\* However the server fails, the sensor's events are settled.
ChannelSettles == part = "channel" => EveryEventSettles
=============================================================================
