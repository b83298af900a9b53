---------------------------- MODULE MCJobBuffers ----------------------------
(***************************************************************************)
(* JobBuffers for TLC, with the conversions of JobData between the jobs    *)
(* and what Redis stores.  Jobs are ordered and stay apart; the buffers    *)
(* are alike and so are the calls of flush(), so TLC may exchange them.    *)
(***************************************************************************)
EXTENDS JobBuffers, JobData

Alike == Permutations(Flushes) \cup Permutations(Buffers)

\* Which data the jobs have does not change what happens to them, so it is not in
\* the state: the properties below speak of all data at once, and it is enough to
\* look at them in the first step that adds a job.
FirstAdd == Add(1) /\ places = <<>> /\ \A f \in Flushes : flushing[f] = "idle"

\* Job.ensureDataIsSerializable: the data of the job is that of the client, copied.
DataIsCopied == [][FirstAdd => CopyIsFaithful]_vars

\* RedisJobBufStore: the job that flush() returns is the job that add() was given.
JobSurvivesBuffer == [][FirstAdd /\ store = "redis" => BufferedJobIsSame]_vars

=============================================================================
