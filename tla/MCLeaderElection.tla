-------------------------- MODULE MCLeaderElection --------------------------
(* Small instances of the election.                                        *)
EXTENDS LeaderElection

==============================================================================
