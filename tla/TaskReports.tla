---------------------------- MODULE TaskReports ----------------------------
(***************************************************************************)
(* Progress reports (internal/engine/tasks.go): a worker that holds a task *)
(* reports on it, and the engine writes beside the note how many events    *)
(* the worker has in the journal on the task's record.  Counts are kept as *)
(* "none" and "some", which is what a reader of the report looks at.       *)
(***************************************************************************)
EXTENDS Tasks

VARIABLES
  worked,   \* tasks on whose record the actor has an event in the journal
  since,    \* those where it has one since it took the task
  report    \* the last report: who, on what, and what stands beside it

reportVars == <<live, stored, phase, at, missed, told, cut, unheard,
                worked, since, report>>

NoReport == [by |-> Nobody, facts |-> FALSE, backed |-> FALSE]

ReportsInit ==
  /\ Init
  /\ worked = [c \in Actor |-> {}] /\ since = [c \in Actor |-> {}]
  /\ report = NoReport

(* A step of the pool; an actor that takes a task starts a new account. *)
TaskStep ==
  /\ Next
  /\ since' = [c \in Actor |-> {t \in since[c] : told'[c][t] <= told[c][t]}]
  /\ UNCHANGED <<worked, report>>

(* The actor creates, updates or moves the record of task t. *)
Work(c, t) ==
  /\ worked' = [worked EXCEPT ![c] = @ \cup {t}]
  /\ since' = [since EXCEPT ![c] = @ \cup {t}]
  /\ UNCHANGED <<vars, report>>

(* countActorEvents: the actor's events on the record, in all the journal. *)
CountActorEvents(c, t) == t \in worked[c]

(* ReportProgress.  The lease is not looked at.                            *)
ReportProgress(c, t) ==
  /\ live[t].status = "taken" /\ live[t].by = c
  /\ report' = [by |-> c, facts |-> CountActorEvents(c, t),
                backed |-> t \in since[c]]
  /\ UNCHANGED <<vars, worked, since>>

ReportsNext ==
  \/ TaskStep
  \/ \E c \in Actor, t \in Task : Work(c, t) \/ ReportProgress(c, t)

ReportsSpec == ReportsInit /\ [][ReportsNext]_reportVars

-----------------------------------------------------------------------------
(* "A report with no backing events is flagged" (MCP-CONTRACT-v0.md): the  *)
(* payload counts what the actor produced "since taking it" (tasks.go), so *)
(* a worker that did nothing for the task shows no facts.  False, see the  *)
(* run task_reports.                                                       *)
UnbackedReportsAreFlagged == report.facts => report.backed
=============================================================================
