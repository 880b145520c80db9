----------------------------- MODULE MCCampaigns -----------------------------
(* A small instance of Campaigns for TLC. *)
EXTENDS Campaigns, TLC

\* default_build.go numbers the workers of a process, so the first worker of every
\* replica has this id.
FirstWorker == [w \in Workers |-> "zhicore-notification:campaign-shard:1"]
=============================================================================
