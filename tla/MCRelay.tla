------------------------------ MODULE MCRelay ------------------------------
(***************************************************************************)
(* Instances of Relay for TLC.                                             *)
(***************************************************************************)
EXTENDS Relay

MCLaunch(mode, retries, force) ==
    [given |-> {"KAFKA_BROKERS", "KAFKA_TOPICS", "HOOK_RELAY_OUTPUT_TOPIC"},
     topics |-> 1, security_protocol |-> "plaintext", tls |-> {},
     max_retries |-> retries, force |-> force, mode |-> mode]

\* Both modes, and no retries, which only --force allows.
MCLaunches ==
    {MCLaunch("envelope", 2, FALSE), MCLaunch("raw", 0, TRUE),
     MCLaunch("raw", 0, FALSE)}

============================================================================
