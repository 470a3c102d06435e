------------------------------- MODULE Workflow -------------------------------
(* The pipeline_states row of one resume and the two statements that write it *)
(* (src/shared/workflow/workflow.go).  A row is [state, retries]; no row yet  *)
(* is state "none".  last_event_id and last_error are left out.               *)
EXTENDS Integers

CONSTANT FailureLimit    \* maxRetries: 3 in every call of MarkFailure

ASSUME WorkflowAssumption == FailureLimit \in Nat \ {0}

States == {"none", "uploaded", "parsed", "processed", "matched", "recommended",
           "failed", "dead_letter"}

NoPipelineRow == [state |-> "none", retries |-> 0]

\* INSERT ... ON CONFLICT DO UPDATE: any state replaces any other, and
\* retry_count keeps counting over the life of the resume.
UpsertState(row, s) == [row EXCEPT !.state = s]

\* Mutant of MarkFailure: the failure before the last is already the last.
MarkFailureEager(row) ==
    [state |-> IF row.retries + 2 >= FailureLimit THEN "dead_letter" ELSE "failed", retries |-> row.retries + 1]

\* The INSERT arm stores 'failed' with retry_count 1 without looking at the limit.
MarkFailure(row) ==
    IF row.state = "none"
    THEN [state |-> "failed", retries |-> 1]
    ELSE [state   |-> IF row.retries + 1 >= FailureLimit THEN "dead_letter" ELSE "failed",
          retries |-> row.retries + 1]
===============================================================================
