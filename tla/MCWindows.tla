------------------------------ MODULE MCWindows ------------------------------
(***************************************************************************)
(* Small instances of what lives by time windows, for TLC.  The run has    *)
(* parts, which share nothing: state channels with their disputes, the     *)
(* timelock with its delays, in days, and the backend's monitoring with    *)
(* the cooldown of its alerts.                                             *)
(***************************************************************************)
EXTENDS StateChannel, Timelock, Monitoring, TLC

CONSTANTS alice, bob, crate, r1, none, s1, s2, s3, pause_main

VARIABLE part

Config(signers, threshold, min_delay, max_delay, grace) ==
  [signers |-> signers, threshold |-> threshold,
   min_delay |-> min_delay, max_delay |-> max_delay, grace |-> grace]

\* Two valid configurations and, for each check of validate_config, one that
\* fails it alone.
SomeConfigs ==
  { Config({s1, s2}, 2, 1, 2, 1), Config({s1, s2, s3}, 2, 1, 1, 2),
    Config({}, 0, 1, 2, 1), Config({s1}, 2, 1, 2, 1), Config({s1, s2}, 0, 1, 2, 1),
    Config({s1, s2}, 1, 0, 2, 1), Config({s1, s2}, 1, 1, 4, 1),
    Config({s1, s2}, 1, 2, 1, 1), Config({s1, s2}, 1, 1, 2, 0),
    Config({s1, s2}, 1, 1, 2, 4) }

\* For the other parts the channels' clock has run out: of the part that stands
\* still no fair action is enabled.
MCInit ==
  /\ TimelockInit /\ MonitorInit
  /\ \/ part = "channels" /\ Init
     \/ /\ part \in {"timelock", "monitoring"}
        /\ initialized = FALSE /\ main_paused = FALSE /\ now = MaxTime
        /\ channels = <<>> /\ signed = <<>> /\ product_channels = [p \in Product |-> <<>>]

MCNext ==
  /\ \/ part = "channels" /\ Next
     \/ part = "timelock" /\ TimelockNext
     \/ part = "monitoring" /\ MonitorNext
  /\ part # "channels" => UNCHANGED vars
  /\ part # "timelock" => UNCHANGED tl_vars
  /\ part # "monitoring" => UNCHANGED monitorVars
  /\ UNCHANGED part

MCSpec == MCInit /\ [][MCNext]_<<vars, tl_vars, monitorVars, part>> /\ Fairness
==============================================================================
