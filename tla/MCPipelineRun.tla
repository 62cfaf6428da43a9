---------------------------- MODULE MCPipelineRun ----------------------------
EXTENDS PipelineRun, TLC

At(s, c, t) == [status |-> s, conclusion |-> c, completedAt |-> t]

\* A run that is only run once.
RunOnce == << At("waiting", None, 0), At("in_progress", None, 0),
              At("completed", "failure", 3) >>

\* A run that fails and is run again under the same id: GitHub keeps the id.
RunAgain == << At("queued", None, 0), At("completed", "failure", 2),
               At("in_progress", None, 0), At("completed", "success", 4) >>

\* The job slots are interchangeable.
SlotSymmetry == Permutations(Workers)
=============================================================================
