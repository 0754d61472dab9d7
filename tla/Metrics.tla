------------------------------ MODULE Metrics ------------------------------
(***************************************************************************)
(* What a run has cost, from the job row to the decision of the lifecycle  *)
(* policy: the metrics handler (internal/metrics), the statements that     *)
(* store its sums (postgres/metrics.go, version_metrics.go,                *)
(* agent_state.go) and the lifecycle resolver (internal/scheduler), for    *)
(* the runs of one workflow.                                               *)
(*                                                                         *)
(* A run that has ended is torn down by its worker session, by the         *)
(* scheduler's sweep, or by both at once (Runners); each is a sequence of  *)
(* statements (CompleteRequest, FailRequest) that may stop after any of    *)
(* them.  Module Scheduler has the same teardown over the columns this     *)
(* module leaves out.  The next run may start while a teardown of this one *)
(* is still under way, if another has resolved it and deleted its job.     *)
(*                                                                         *)
(*   row     the workflow row: versions, window, policy and state          *)
(*   totals  workflow_version_metrics: for every configured version the    *)
(*           sums of its epochs, the last of them the current one          *)
(*   agent   agent_state: the history of every agent known                 *)
(*   job     the job row with the metrics its operations added up          *)
(*   task    the teardowns in progress and what they have read             *)
(*   audit   the policy_action events: the run each names and, as history, *)
(*           the current_version it resolved                               *)
(*   ledger  history: the metrics of the runs, in the order written, each  *)
(*           with the current_version it was written under                 *)
(*   overtaken  history: the runs with a teardown that had not come to its *)
(*           write when the next run started                               *)
(***************************************************************************)
EXTENDS PolicyEngine, FiniteSets, FiniteSetsExt, Functions

CONSTANTS
    Runners,         \* goroutines that tear runs down
    ConfigVersions,  \* values of current_workflow_version
    FirstConfigs,    \* those a workflow is created with
    Policies,        \* lifecycle policies: sequences of rules
    OtherPolicies,   \* policies the engine is asked about besides
    Pasts,           \* windows of runs that may have gone before
    OperationMetrics,\* what one operation of a run may report
    MaxRuns,         \* bound on the number of runs
    MaxOperations,   \* bound on the operations of a run
    MaxWindow,       \* domain.MaxLifecycleWindow
    MaxFaults,       \* bound on crashes and failed statements
    MaxConfigs       \* bound on changes of the configuration

VARIABLES
    row, totals, agent, job, task, audit, ledger, overtaken, faults, configs

limits == <<overtaken, faults, configs>>

vars == <<row, totals, agent, job, task, audit, ledger, limits>>

-----------------------------------------------------------------------------
NoMetrics == [agents |-> <<>>, workflow |-> [num_failures |-> 0]]

NoJob == [version |-> 0, status |-> "none", operations |-> 0,
          metrics |-> NoMetrics]

\* A row startNewMetricsEpoch inserts, or the handler starts from.
FreshTotal == [runs |-> 0, sum |-> <<>>]

IdleTask ==
    [pc |-> "idle", version |-> 0, failing |-> FALSE, metrics |-> NoMetrics,
     read |-> <<>>, epoch |-> 0, total |-> FreshTotal, history |-> <<>>]

Init ==
    /\ \E c \in FirstConfigs, p \in Policies :
         row = [current |-> 0, resolved |-> 0, emitted |-> 0, window |-> <<>>,
                config |-> c, state |-> "active", interrupted |-> FALSE,
                policy |-> p]
    /\ totals = [c \in ConfigVersions |-> <<>>]
    /\ agent = <<>>
    /\ job = NoJob
    /\ task = [r \in Runners |-> IdleTask]
    /\ audit = <<>> /\ ledger = <<>> /\ overtaken = {}
    /\ faults = 0 /\ configs = 0

-----------------------------------------------------------------------------
(* The run and its operator.                                               *)

\* The places of a teardown up to the write of the metrics of its run.
BeforeEmit ==
    {"claim", "apply", "job_metrics", "get", "version_metrics",
     "agent_states", "emit"}

Held == {r \in Runners : task[r].pc \in BeforeEmit}

StartRun ==
    /\ job = NoJob
    /\ row.state = "active" /\ row.resolved = row.current
    /\ row.current < MaxRuns
    /\ job' = [NoJob EXCEPT !.version = row.current + 1, !.status = "running"]
    /\ overtaken' = overtaken \cup {task[r].version : r \in Held}
    /\ UNCHANGED <<row, totals, agent, task, audit, ledger, faults, configs>>

\* Agent by agent, metric by metric: summed where both have it, carried over
\* where only one has.
MergeAgentMetrics(op, sofar) ==
    [a \in DOMAIN op \cup DOMAIN sofar |->
       IF a \notin DOMAIN sofar THEN op[a]
       ELSE IF a \notin DOMAIN op THEN sofar[a]
       ELSE AddMetrics(sofar[a], op[a])]

MergeWorkflowMetrics(op, sofar) == AddMetrics(sofar, op)

MergeMetrics(op, sofar) ==
    [agents |-> MergeAgentMetrics(op.agents, sofar.agents),
     workflow |-> MergeWorkflowMetrics(op.workflow, sofar.workflow)]

\* An operation ends; the run goes on, completes or fails.
EndOperation(m, status) ==
    /\ job.status = "running" /\ job.operations < MaxOperations
    /\ status = "running" => job.operations + 1 < MaxOperations
    /\ job' = [job EXCEPT !.operations = @ + 1, !.status = status,
                          !.metrics = MergeMetrics(m, @)]
    /\ UNCHANGED <<row, totals, agent, task, audit, ledger, limits>>

\* The worker is lost with the operation in flight.
MarkOrphanedJobsFailed ==
    /\ job.status = "running"
    /\ job' = [job EXCEPT !.status = "failed"]
    /\ UNCHANGED <<row, totals, agent, task, audit, ledger, limits>>

StartNewMetricsEpoch(t, c) == [t EXCEPT ![c] = Append(@, FreshTotal)]

\* UpdateConfig, within the one transaction.
UpdateConfig(c) ==
    /\ configs < MaxConfigs /\ c # row.config
    /\ row' = [row EXCEPT !.config = c]
    /\ totals' = StartNewMetricsEpoch(totals, c)
    /\ configs' = configs + 1
    /\ UNCHANGED <<agent, job, task, audit, ledger, overtaken, faults>>

\* TryActivateWorkflow on the request that paused it, and ExpireCooldowns.
Reactivate ==
    /\ row.state \in {"paused", "cooldown"}
    /\ row' = [row EXCEPT !.state = "active"]
    /\ UNCHANGED <<totals, agent, job, task, audit, ledger, limits>>

ResolveInterruptedWorkflow ==
    /\ row.interrupted
    /\ row' = [row EXCEPT !.state = "active", !.resolved = row.current,
                          !.interrupted = FALSE]
    /\ UNCHANGED <<totals, agent, job, task, audit, ledger, limits>>

-----------------------------------------------------------------------------
(* The teardown: CompleteRequest, and the end of FailRequest.              *)

Goto(r, pc) == task' = [task EXCEPT ![r].pc = pc]

Finish(r) == task' = [task EXCEPT ![r] = IdleTask]

\* From here to its end a teardown needs no more than its version.
Closing(r, pc) ==
    task' = [task EXCEPT ![r] = [IdleTask EXCEPT !.pc = pc,
                                                 !.version = task[r].version]]

\* The session that ended the run, or a sweep that found it ended.
Begin(r) ==
    /\ task[r].pc = "idle"
    /\ job.status \in {"completed", "failed", "terminal_failed"}
    /\ LET failing == job.status # "completed" IN
         task' = [task EXCEPT ![r] =
                    [IdleTask EXCEPT !.version = job.version,
                                     !.pc = IF failing THEN "claim" ELSE "apply",
                                     !.failing = failing]]
    /\ UNCHANGED <<row, totals, agent, job, audit, ledger, limits>>

\* The attempts of the run are used up: see module Scheduler for the rest.
ClaimFailedJob(r) ==
    /\ task[r].pc = "claim"
    /\ IF job.version = task[r].version
       THEN job' = [job EXCEPT !.status = "terminal_failed"] /\ Goto(r, "apply")
       ELSE UNCHANGED job /\ Finish(r)
    /\ UNCHANGED <<row, totals, agent, audit, ledger, limits>>

ApplyMatches(r) == row.current < task[r].version

ApplyCompletedJob(r) ==
    /\ task[r].pc = "apply" /\ ~task[r].failing
    /\ row' = IF ApplyMatches(r)
              THEN [row EXCEPT !.current = task[r].version] ELSE row
    /\ Goto(r, "job_metrics")
    /\ UNCHANGED <<totals, agent, job, audit, ledger, limits>>

\* Only the failer that applies the failure goes on to record its metrics.
ApplyFailedJob(r) ==
    /\ task[r].pc = "apply" /\ task[r].failing
    /\ row' = IF ApplyMatches(r)
              THEN [row EXCEPT !.current = task[r].version,
                               !.interrupted = TRUE, !.state = "disabled"]
              ELSE row
    /\ IF ApplyMatches(r) THEN Goto(r, "job_metrics") ELSE Closing(r, "delete")
    /\ UNCHANGED <<totals, agent, job, audit, ledger, limits>>

\* Keyed on the request: empty when the job is gone.  A failer has nothing to
\* record when the job reports nothing.
GetJobMetrics(r) ==
    /\ task[r].pc = "job_metrics"
    /\ LET m == IF job.version = task[r].version THEN job.metrics
                                                 ELSE NoMetrics
       IN  IF task[r].failing /\ m = NoMetrics
           THEN Closing(r, "delete")
           ELSE task' = [task EXCEPT ![r].metrics = m, ![r].pc = "get"]
    /\ UNCHANGED <<row, totals, agent, job, audit, ledger, limits>>

GetWorkflow(r) ==
    /\ task[r].pc = "get"
    /\ task' = [task EXCEPT
                  ![r].read = [current |-> row.current, config |-> row.config,
                               window |-> row.window, state |-> row.state,
                               policy |-> row.policy],
                  ![r].pc = "version_metrics"]
    /\ UNCHANGED <<row, totals, agent, job, audit, ledger, limits>>

\* The latest epoch of the version read, or a first one of its own.
GetCurrentVersionMetrics(r) ==
    /\ task[r].pc = "version_metrics"
    /\ LET epochs == totals[task[r].read.config] IN
         task' = [task EXCEPT
                    ![r].epoch = IF epochs = <<>> THEN 1 ELSE Len(epochs),
                    ![r].total = IF epochs = <<>> THEN FreshTotal
                                                  ELSE Last(epochs),
                    ![r].pc = "agent_states"]
    /\ UNCHANGED <<row, totals, agent, job, audit, ledger, limits>>

\* Mutation: a failure to read the histories passes for nothing to record.
AgentStatesFailIgnored(r) ==
    /\ task[r].pc = "agent_states"
    /\ \E pc \in {"emit", "resolve"} :
         task' = [task EXCEPT ![r].history = agent, ![r].pc = pc]
    /\ UNCHANGED <<row, totals, agent, job, audit, ledger, limits>>

GetAgentStates(r) ==
    /\ task[r].pc = "agent_states"
    /\ task' = [task EXCEPT ![r].history = agent, ![r].pc = "emit"]
    /\ UNCHANGED <<row, totals, agent, job, audit, ledger, limits>>

\* tokens_used, failures and calls_per_tool of an agent stay with the agent.
RollsUp(m) ==
    m \in {"cost", "num_llm_calls", "latency", "approval_rejections"}
          \cup ToolMetrics

\* The run as HandleAgentMetrics sums it up: over its agents, and with the
\* metrics of the workflow itself.
RunSnapshot(metrics) ==
    FoldFunction(LAMBDA m, sum : AddMetrics(sum, RestrictDomain(m, RollsUp)),
                 metrics.workflow, metrics.agents)

Snapshot(v, m) == [run |-> v, seen |-> m]

\* Mutation: the window is not cut to its maximum.
WindowUncut(t) ==
    Append(t.read.window, Snapshot(t.version, RunSnapshot(t.metrics)))

\* The window, the totals and the histories as they are with the run added.
WindowWith(t) ==
    LastN(Append(t.read.window, Snapshot(t.version, RunSnapshot(t.metrics))),
          MaxWindow)

TotalWith(t) ==
    [runs |-> t.total.runs + 1,
     sum |-> AddMetrics(t.total.sum, RunSnapshot(t.metrics))]

HistoryWith(t, a) ==
    LastN(Append(IF a \in DOMAIN t.history THEN t.history[a] ELSE <<>>,
                 Snapshot(t.version, t.metrics.agents[a])), MaxWindow)

\* The completer goes on with its own sums, stored or not.
Emitted(r, t) ==
    IF t.failing THEN Closing(r, "delete")
    ELSE task' = [task EXCEPT ![r] =
                    [IdleTask EXCEPT !.pc = "resolve", !.version = t.version,
                                     !.read = [t.read EXCEPT !.window = WindowWith(t)],
                                     !.epoch = t.epoch, !.total = TotalWith(t)]]

\* The rows EmitMetrics upserts, all or none of them.
StoreEmission(t) ==
    /\ row' = [row EXCEPT !.emitted = t.read.current,
                          !.window = WindowWith(t)]
    /\ totals' = [totals EXCEPT ![t.read.config] =
                    [e \in 1 .. IF Len(@) < t.epoch THEN t.epoch ELSE Len(@) |->
                       IF e = t.epoch THEN TotalWith(t) ELSE @[e]]]
    /\ agent' = [a \in DOMAIN agent \cup DOMAIN t.metrics.agents |->
                   IF a \in DOMAIN t.metrics.agents THEN HistoryWith(t, a)
                                                    ELSE agent[a]]
    /\ ledger' = Append(ledger, [run |-> t.version, under |-> t.read.current,
                                 metrics |-> t.metrics])

\* Mutation: no gate, a repeated teardown is counted again.
EmitUngated(r) ==
    /\ task[r].pc = "emit"
    /\ StoreEmission(task[r])
    /\ Emitted(r, task[r])
    /\ UNCHANGED <<job, audit, limits>>

\* Mutation: the totals are written whether or not the gate is open.
EmitTotalsUngated(r) ==
    /\ task[r].pc = "emit"
    /\ IF row.emitted < task[r].read.current
       THEN StoreEmission(task[r])
       ELSE /\ totals' = [totals EXCEPT ![task[r].read.config] =
                            [e \in DOMAIN @ |-> IF e = task[r].epoch
                                                THEN TotalWith(task[r])
                                                ELSE @[e]]]
            /\ UNCHANGED <<row, agent, ledger>>
    /\ Emitted(r, task[r])
    /\ UNCHANGED <<job, audit, limits>>

EmitMetrics(r) ==
    /\ task[r].pc = "emit"
    /\ IF row.emitted < task[r].read.current
       THEN StoreEmission(task[r])
       ELSE UNCHANGED <<row, totals, agent, ledger>>
    /\ Emitted(r, task[r])
    /\ UNCHANGED <<job, audit, limits>>

-----------------------------------------------------------------------------
(* ResolveLifecyclePolicy.                                                 *)

Seen(window) == [i \in DOMAIN window |-> window[i].seen]

Goal(t) == ResolvePolicy(t.read.policy, Seen(t.read.window), t.total.sum)

\* Mutation: a version already resolved is resolved again.
ResolveAgainMatches(t) == row.state \notin {"disabled", "suspended"}

ResolutionMatches(t) ==
    /\ row.resolved < t.read.current
    /\ row.state \notin {"disabled", "suspended"}

\* The audit follows a resolution that moved the workflow.
Resolved(r, moved) ==
    task' = [task EXCEPT ![r] =
               [IdleTask EXCEPT !.pc = IF moved THEN "audit" ELSE "delete",
                                !.version = task[r].version,
                                !.read = IF moved THEN task[r].read.current
                                                  ELSE <<>>]]

TryApplyVersionResolution(r) ==
    LET t == task[r]  target == Goal(t).target IN
    /\ t.pc = "resolve" /\ Goal(t).action = "set_version"
    /\ IF ResolutionMatches(t) /\ row.config = t.read.config
       THEN /\ row' = [row EXCEPT !.resolved = t.read.current,
                                  !.config = target]
            /\ totals' = IF target # t.read.config
                         THEN StartNewMetricsEpoch(totals, target) ELSE totals
            /\ Resolved(r, target # t.read.config)
       ELSE UNCHANGED <<row, totals>> /\ Resolved(r, FALSE)
    /\ UNCHANGED <<agent, job, audit, ledger, limits>>

GoalState(t) ==
    CASE Goal(t).action = "cooldown" -> "cooldown"
      [] Goal(t).action = "pause"    -> "paused"
      [] OTHER                       -> t.read.state

TryApplyStateResolution(r) ==
    LET t == task[r] IN
    /\ t.pc = "resolve" /\ Goal(t).action # "set_version"
    /\ IF ResolutionMatches(t)
       THEN /\ row' = [row EXCEPT !.resolved = t.read.current,
                                  !.state = GoalState(t)]
            /\ Resolved(r, GoalState(t) # t.read.state)
       ELSE UNCHANGED row /\ Resolved(r, FALSE)
    /\ UNCHANGED <<totals, agent, job, audit, ledger, limits>>

RecordPolicyAction(r) ==
    /\ task[r].pc = "audit"
    /\ audit' = Append(audit, [run |-> task[r].version, under |-> task[r].read])
    /\ Closing(r, "delete")
    /\ UNCHANGED <<row, totals, agent, job, ledger, limits>>

\* The request row, which is marked last, is left to module Scheduler.
DeleteTerminalJob(r) ==
    /\ task[r].pc = "delete"
    /\ job' = IF job.version = task[r].version
                 /\ job.status \in {"completed", "failed", "terminal_failed"}
              THEN NoJob ELSE job
    /\ Finish(r)
    /\ UNCHANGED <<row, totals, agent, audit, ledger, limits>>

-----------------------------------------------------------------------------
\* The process dies, or a statement fails and the teardown returns.
Abort(r) ==
    /\ task[r].pc # "idle" /\ faults < MaxFaults
    /\ Finish(r)
    /\ faults' = faults + 1
    /\ UNCHANGED <<row, totals, agent, job, audit, ledger, overtaken, configs>>

\* A statement fails where the code logs it and goes on: recording the metrics
\* of an interrupted run, and appending the audit event.
BestEffortFails(r) ==
    /\ faults < MaxFaults
    /\ \/ task[r].failing /\ task[r].pc \in BeforeEmit \ {"claim", "apply"}
       \/ task[r].pc = "audit"
    /\ Closing(r, "delete")
    /\ faults' = faults + 1
    /\ UNCHANGED <<row, totals, agent, job, audit, ledger, overtaken, configs>>

Step(r) ==
    \/ ClaimFailedJob(r)
    \/ ApplyCompletedJob(r)
    \/ ApplyFailedJob(r)
    \/ GetJobMetrics(r)
    \/ GetWorkflow(r)
    \/ GetCurrentVersionMetrics(r)
    \/ GetAgentStates(r)
    \/ EmitMetrics(r)
    \/ TryApplyVersionResolution(r)
    \/ TryApplyStateResolution(r)
    \/ RecordPolicyAction(r)
    \/ DeleteTerminalJob(r)

Next ==
    \/ StartRun
    \/ \E m \in OperationMetrics, s \in {"running", "completed", "failed"} :
         EndOperation(m, s)
    \/ MarkOrphanedJobsFailed
    \/ \E c \in ConfigVersions : UpdateConfig(c)
    \/ Reactivate
    \/ ResolveInterruptedWorkflow
    \/ \E r \in Runners : Begin(r) \/ Step(r) \/ Abort(r) \/ BestEffortFails(r)

Spec == Init /\ [][Next]_vars

-----------------------------------------------------------------------------
(* Properties.                                                             *)

\* Type correctness of the rows.
MetricsTypeOK ==
    /\ row.current \in 0 .. MaxRuns /\ row.resolved \in 0 .. row.current
    /\ row.emitted \in 0 .. row.current
    /\ row.config \in ConfigVersions
    /\ Len(row.window) <= MaxWindow
    /\ \A r \in Runners : task[r].version \in 0 .. MaxRuns

\* However many teardowns a run has and wherever they stop, metrics are written
\* at most once under a version and in the order of the versions, which is what
\* the gate of EmitMetrics compares, and a run's own are written under its own
\* version, so once, unless a teardown of it was overtaken by the next run.
RunsCountedOnce ==
    \A i \in DOMAIN ledger :
      /\ ledger[i].run = ledger[i].under \/ ledger[i].run \in overtaken
      /\ \A j \in DOMAIN ledger : i < j => ledger[i].under < ledger[j].under

\* The same without the exception.  Known not to hold: a teardown held up until
\* the next run is applied reads that one's current_version, writes its own run
\* a second time and closes the gate for the next (scheduler.go:460, 468).
EveryRunCountedOnce ==
    \A i, j \in DOMAIN ledger : i < j => ledger[i].run < ledger[j].run

LedgerWindow ==
    [i \in DOMAIN ledger |->
       Snapshot(ledger[i].run, RunSnapshot(ledger[i].metrics))]

AllTotals ==
    UNION {{<<c, e>> : e \in DOMAIN totals[c]} : c \in ConfigVersions}

SumOverTotals(m) ==
    MapThenSumSet(LAMBDA ce : VersionTotal(totals[ce[1]][ce[2]].sum, m),
                  AllTotals)

RunsOf(a) ==
    SelectSeq(ledger, LAMBDA l : a \in DOMAIN l.metrics.agents)

\* As long as no teardown was overtaken by the next run, the three tables tell
\* the same story.  The rolling window is the last runs
\* of the ledger; the version totals, over all versions and epochs, add up to
\* what its runs emitted, although each is read, added to and written back
\* with no lock held and the configured version may change in between; and an
\* agent's history is the latest of the runs it took part in.
TablesAgree ==
    overtaken = {} =>
      /\ row.window = LastN(LedgerWindow, MaxWindow)
      /\ MapThenSumSet(LAMBDA ce : totals[ce[1]][ce[2]].runs, AllTotals)
           = Len(ledger)
      /\ \A m \in Metrics :
           SumOverTotals(m) = FoldLeft(LAMBDA sum, s :
                                         sum + VersionTotal(s.seen, m),
                                       0, LedgerWindow)
      /\ \A a \in DOMAIN agent :
           LET mine == RunsOf(a) IN
             agent[a] = [i \in DOMAIN agent[a] |->
                           LET l == mine[Len(mine) - Len(agent[a]) + i] IN
                             Snapshot(l.run, l.metrics.agents[a])]

\* The policy is not resolved for a completed run before its metrics are
\* stored: a resolution that ran ahead would close the version without them.
ResolvedAfterEmitted ==
    [][row'.resolved # row.resolved /\ ~row.interrupted
         => row.emitted >= row'.resolved]_vars

\* A version's resolution is reported at most once to have moved the workflow,
\* and in the name of the run that ended with it, unless a teardown of the run
\* named was overtaken by the next run.
PolicyActionAuditedOnce ==
    \A i \in DOMAIN audit :
      /\ audit[i].run = audit[i].under \/ audit[i].run \in overtaken
      /\ \A j \in DOMAIN audit : audit[i].under = audit[j].under => i = j

\* The rules that fire, said without the engine's loop and folds: the latest
\* run has the metric, and its sum over the runs that have it and have fewer
\* than Window such runs after them reaches the threshold.
Fires(rule, window, total) ==
    LET have == {i \in DOMAIN window : rule.metric \in DOMAIN window[i]}
        latest == {i \in have :
                      Cardinality({j \in have : j > i}) < rule.window}
    IN  /\ Len(window) \in have
        /\ IF rule.action = "set_version"
           THEN IF rule.metric \in DOMAIN total
                THEN total[rule.metric] >= rule.threshold
                ELSE rule.metric \notin ToolMetrics /\ rule.threshold = 0
           ELSE MapThenSumSet(LAMBDA i : window[i][rule.metric], latest)
                  >= rule.threshold

\* The engine's choice is the first of the strongest rules that fire, for the
\* runs of this workflow, whichever runs went before them and also under the
\* policies it does not have.
EngineMeetsReference ==
    \A r \in Runners, p \in Policies \cup OtherPolicies, past \in Pasts :
      task[r].pc = "resolve" =>
        LET w == past \o Seen(task[r].read.window)
            t == task[r].total.sum
            firing == {i \in DOMAIN p : Fires(p[i], w, t)}
            goal == ResolvePolicy(p, w, t)
            strength == [set_version |-> 1, cooldown |-> 2, pause |-> 3]
        IN  IF firing = {} THEN goal.action = "none"
            ELSE \E i \in firing :
                   /\ goal.action = p[i].action /\ goal.target = p[i].target
                   /\ \A j \in firing :
                        \/ strength[p[j].action] < strength[p[i].action]
                        \/ strength[p[j].action] = strength[p[i].action] /\ i <= j

\* What decides the policy is what is stored: the window and the totals a
\* resolution is about to be applied on are those of the workflow's rows.
\* Known not to hold: a completion that is tried again adds its run to what it
\* reads a second time, for the decision only (scheduler.go:430, 468).
DecidesOnWhatIsStored ==
    \A r \in Runners :
      LET t == task[r] IN
      t.pc = "resolve" /\ ResolutionMatches(t) =>
        /\ t.read.window = row.window
        /\ t.total = totals[t.read.config][t.epoch]
=============================================================================
