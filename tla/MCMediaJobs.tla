---------------------------- MODULE MCMediaJobs ----------------------------
(* TLC instances of MediaJobs: which worker image knows which kinds, and   *)
(* which queue a job's kind goes to.                                       *)
EXTENDS MediaJobs, TLC

CONSTANTS w1, w2

\* Publishing under faults: two jobs of one queue; worker w2 runs an image that
\* is behind and has no queue for job 1's kind.
MixedImage == (w1 :> {1, 2}) @@ (w2 :> {2})
OneQueue == [j \in Jobs |-> "transcribe"]

\* A redelivered job while the publish loop is between its ticks: with a delivery
\* open nobody waits for, job 1 is not due, so redeliveries and a second
\* publication of every job do not multiply.
OneFaultyJob == (\E r \in runs : ~r.awaited) => ~due[1]

\* Backlog: jobs 1 and 2 are burn-ins and fill the claim limit of 2.
BacklogImage == [w \in Workers |-> {3}]
BacklogQueue == 1 :> "burn-subtitles" @@ 2 :> "burn-subtitles" @@ 3 :> "probe-media"
=============================================================================
