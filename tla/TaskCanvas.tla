------------------------------ MODULE TaskCanvas ------------------------------
(***************************************************************************)
(* One execution of a published TaskCanvas workflow.  Any number of         *)
(* concurrent AdvanceExecution calls (the reconciliation loop of every      *)
(* producer, and StartExecution requests) drive the execution and its node  *)
(* rows in Postgres, while QueueFlow and EventForge work on what they       *)
(* dispatched and a client may cancel.                                      *)
(*                                                                          *)
(* The grain is one SQL statement, one transaction or one dispatch.  The    *)
(* order in which a pass visits the nodes is left open.  Attempt counts,    *)
(* outputs and error texts are left out: an update that only copies an      *)
(* attempt count is no step here.  Failures are guarded by Fault(k):        *)
(*   dispatch  DispatchWorkflowTask/Webhook returns no task or delivery     *)
(*   reply     the same, although the task or delivery was inserted         *)
(*   abandon   a call returns an error or the process dies: the pass ends   *)
(*   skip      the same, after a node was claimed in order to be skipped    *)
(*   slow      a live caller takes longer than the 30 s claim lease         *)
(*   retry     a failed task or delivery is retried by hand                 *)
(*   delete    a finished QueueFlow task is soft-deleted                    *)
(***************************************************************************)
EXTENDS Naturals, FiniteSets

CONSTANTS Node, Kind,    \* the nodes of the published version and their types
          Branch,        \* its edges <<from, to>>, each with its branch
          Advancer,      \* concurrent AdvanceExecution calls
          None,
          Faults, MaxFaults

FaultKinds == {"dispatch", "reply", "abandon", "skip", "slow", "retry", "delete"}

Edge == DOMAIN Branch

External == {"task", "webhook"}

Sources(n) == {m \in Node : <<m, n>> \in Edge}

(* A published version passed ValidateWorkflowDefinition: no edge leads to  *)
(* a trigger, every other node has a dependency, and whatever nodes are     *)
(* done there is one left that waits for no other.  (ValidExactly of        *)
(* WorkflowValidation: what is accepted is Publishable and Schedulable.)    *)
ASSUME TaskCanvasAssumption ==
  /\ Kind \in [Node -> {"trigger", "condition", "delay"} \cup External]
  /\ Edge \subseteq Node \X Node
  /\ Branch \in [Edge -> {"any", "true", "false"}]
  /\ \A e \in Edge : Kind[e[2]] # "trigger"
  /\ \A n \in Node : Kind[n] # "trigger" => Sources(n) # {}
  /\ \A D \in (SUBSET Node) \ {Node} : \E n \in Node \ D : Sources(n) \subseteq D
  /\ None \notin Node
  /\ Faults \subseteq FaultKinds
  /\ MaxFaults \in Nat

VARIABLES exec,      \* Postgres: workflow_executions.status
          node,      \* Postgres: workflow_node_executions
          work,      \* what each node dispatched, or the timer of a delay
          verdict,   \* what each condition evaluates to on the input
          adv,       \* the AdvanceExecution calls
          faults

vars == <<exec, node, work, verdict, adv, faults>>

ExecActive == {"pending", "running"}
ExecTerminal == {"succeeded", "failed", "cancelled"}

Open == {"pending", "queued", "running"}
Closed == {"succeeded", "failed", "skipped", "cancelled"}

(* link: none, or stale (no task, delivery or due time, and the last update *)
(* was 30 s ago), or linked.                                                *)
NodeRow == [status : Open \cup Closed, link : {"none", "stale", "linked"}]

Fresh == [status |-> "pending", link |-> "none"]

WorkState == {"absent", "pending", "processing", "completed", "failed", "deleted"}

(* snap: the node rows last read; todo: nodes this pass has yet to look at; *)
(* cur: the node being executed or updated, which is to become next if its  *)
(* status still is expect; from: the caller to return to.                   *)
Pass == [pc : {"idle", "mark", "list", "again", "reconcile", "schedule",
               "execute", "write", "fail"},
         snap : [Node -> NodeRow], todo : SUBSET Node, cur : Node \cup {None},
         expect : Open, next : Open \cup Closed,
         from : {"loop", "reconcile", "recover", "schedule"}, changed : BOOLEAN]

Idle == [pc |-> "idle", snap |-> [n \in Node |-> Fresh], todo |-> {}, cur |-> None,
         expect |-> "pending", next |-> "pending", from |-> "loop", changed |-> FALSE]

TypeOK ==
  /\ exec \in {"absent"} \cup ExecActive \cup ExecTerminal
  /\ node \in [Node -> NodeRow]
  /\ work \in [Node -> WorkState]
  /\ verdict \in [Node -> {"true", "false", "error"}]
  /\ adv \in [Advancer -> Pass]
  /\ faults \in 0..MaxFaults

Init ==
  /\ exec = "absent"
  /\ node = [n \in Node |-> Fresh]
  /\ work = [n \in Node |-> "absent"]
  /\ verdict \in {f \in [Node -> {"true", "false", "error"}] :
                    \A n \in Node : Kind[n] # "condition" => f[n] = "true"}
  /\ adv = [a \in Advancer |-> Idle]
  /\ faults = 0

Fault(k) == k \in Faults /\ faults < MaxFaults /\ faults' = faults + 1
-----------------------------------------------------------------------------
(* Node readiness, on the rows s.                                           *)

Resolved(n, s) == \A m \in Sources(n) : s[m].status \in {"succeeded", "skipped"}

(* Mutant: the label of a branch is ignored.                                *)
ActiveAny(m, n, s) == s[m].status = "succeeded"

Active(m, n, s) ==
  /\ s[m].status = "succeeded"
  /\ \/ Kind[m] # "condition"
     \/ Branch[<<m, n>>] \in {"any", verdict[m]}

Selected(n, s) == \E m \in Sources(n) : Active(m, n, s)

(* Mutant: one finished dependency is enough.                               *)
RunnableEarly(n, s) ==
  Kind[n] = "trigger" \/ \E m \in Sources(n) : s[m].status = "succeeded"

Runnable(n, s) ==
  \/ Kind[n] = "trigger"
  \/ Sources(n) # {} /\ Resolved(n, s) /\ Selected(n, s)

(* Mutant: only a node behind skipped ones is skipped.                      *)
ShouldSkipLate(n, s) ==
  /\ Kind[n] # "trigger" /\ Sources(n) # {}
  /\ \A m \in Sources(n) : s[m].status = "skipped"

ShouldSkip(n, s) ==
  Kind[n] # "trigger" /\ Sources(n) # {} /\ Resolved(n, s) /\ ~Selected(n, s)
-----------------------------------------------------------------------------
(* The statements on the execution and its nodes.                           *)

(* Mutant: a node that is being executed is not closed.                     *)
ClosedWaiting == [n \in Node |-> IF node[n].status \in {"pending", "queued"}
                                THEN [node[n] EXCEPT !.status = "cancelled"] ELSE node[n]]

(* The node update of FinalizeWorkflowExecution and CancelWorkflowExecution. *)
ClosedNodes == [n \in Node |-> IF node[n].status \in Open
                               THEN [node[n] EXCEPT !.status = "cancelled"] ELSE node[n]]

(* Mutant: the execution is written whatever its status.                    *)
CASExecBlind(expected, s) == s

(* UpdateWorkflowExecution, and the first statement of                      *)
(* FinalizeWorkflowExecution.                                               *)
CASExec(expected, s) == IF exec \in expected THEN s ELSE exec

(* UpdateWorkflowNodeExecution.                                             *)
CAS(n, expect, r) == IF node[n].status = expect THEN r ELSE node[n]
-----------------------------------------------------------------------------
Start ==
  /\ exec = "absent"
  /\ exec' = "pending"
  /\ UNCHANGED <<node, work, verdict, adv, faults>>

Cancel ==
  /\ exec \in ExecActive
  /\ exec' = "cancelled"
  /\ node' = ClosedNodes
  /\ UNCHANGED <<work, verdict, adv, faults>>

(* AdvanceExecution: read the execution; mark a pending one as running.     *)
Begin(a) ==
  /\ adv[a].pc = "idle"
  /\ exec \in ExecActive
  /\ adv' = [adv EXCEPT ![a] = [Idle EXCEPT !.pc = IF exec = "pending" THEN "mark" ELSE "list"]]
  /\ UNCHANGED <<exec, node, work, verdict, faults>>

Mark(a) ==
  /\ adv[a].pc = "mark"
  /\ exec' = CASExec({"pending"}, "running")
  /\ adv' = [adv EXCEPT ![a] = [adv[a] EXCEPT !.pc = "list"]]
  /\ UNCHANGED <<node, work, verdict, faults>>

(* An iteration of the loop reads the nodes.  The loop has a limit, which   *)
(* is left open: it may end after any iteration that made progress.         *)
List(a) ==
  /\ adv[a].pc \in {"list", "again"}
  /\ adv' = [adv EXCEPT ![a] = [Idle EXCEPT
               !.pc = "reconcile", !.snap = node,
               !.todo = {n \in Node : node[n].status \in {"queued", "running"}}]]
  /\ UNCHANGED <<exec, node, work, verdict, faults>>

LoopEnd(a) ==
  /\ adv[a].pc = "again"
  /\ adv' = [adv EXCEPT ![a] = Idle]
  /\ UNCHANGED <<exec, node, work, verdict, faults>>

(* Mutant: work in progress counts as done.                                 *)
ObservedEarly(n) == CASE work[n] \in {"processing", "completed"} -> "succeeded"
                      [] work[n] = "failed" -> "failed"
                      [] OTHER -> "queued"

(* The node status that mirrors a task or delivery, or a delay's timer.     *)
Observed(n) == CASE work[n] = "completed" -> "succeeded"
                 [] work[n] = "failed" -> "failed"
                 [] work[n] = "processing" -> "running"
                 [] OTHER -> "queued"

(* reconcileExternalNodes, one node.  A linked node is compared with its    *)
(* task, delivery or timer; a claim that went stale is executed again; a    *)
(* task that was deleted is no longer found.                                *)
Reconcile(a, n) ==
  LET p == adv[a]
      r == p.snap[n]
      left == [p EXCEPT !.todo = @ \ {n}]
  IN
  /\ p.pc = "reconcile"
  /\ n \in p.todo
  /\ adv' = [adv EXCEPT ![a] =
       CASE r.link = "linked" /\ work[n] # "deleted" /\ Observed(n) # r.status ->
              [left EXCEPT !.pc = "write", !.cur = n, !.expect = r.status,
                           !.next = Observed(n), !.from = "reconcile"]
         [] r.link = "stale" ->
              [left EXCEPT !.pc = "execute", !.cur = n, !.from = "recover"]
         [] OTHER -> left]
  /\ UNCHANGED <<exec, node, work, verdict, faults>>

(* All nodes are seen.  If nothing changed the nodes are read again, to     *)
(* find a failed one or the ones that can be claimed.                       *)
Settle(a) ==
  /\ adv[a].pc = "reconcile"
  /\ adv[a].todo = {}
  /\ adv' = [adv EXCEPT ![a] =
       IF adv[a].changed THEN [Idle EXCEPT !.pc = "again"]
       ELSE IF \E n \in Node : node[n].status = "failed" THEN [Idle EXCEPT !.pc = "fail"]
       ELSE [Idle EXCEPT !.pc = "schedule", !.snap = node,
                         !.todo = {n \in Node : /\ node[n].status = "pending"
                                                /\ (Runnable(n, node) \/ ShouldSkip(n, node))}]]
  /\ UNCHANGED <<exec, node, work, verdict, faults>>

(* scheduleRunnableNodes: claim the next node that is ready, until a claim  *)
(* is won.                                                                  *)
Schedule(a, n) ==
  LET p == adv[a] IN
  /\ p.pc = "schedule"
  /\ n \in p.todo
  /\ node' = [node EXCEPT ![n] = CAS(n, "pending", [status |-> "running", link |-> "none"])]
  /\ adv' = [adv EXCEPT ![a] =
       IF node[n].status # "pending" THEN [p EXCEPT !.todo = @ \ {n}]
       ELSE IF ShouldSkip(n, p.snap)
       THEN [p EXCEPT !.pc = "write", !.cur = n, !.expect = "running",
                      !.next = "skipped", !.from = "schedule"]
       ELSE [p EXCEPT !.pc = "execute", !.cur = n, !.from = "schedule"]]
  /\ UNCHANGED <<exec, work, verdict, faults>>

(* A dispatch finds the task or delivery again if there is one: its key is  *)
(* derived from the execution and the node.                                 *)
Dispatched(n) == [work EXCEPT ![n] = IF @ = "absent" THEN "pending" ELSE @]

(* DispatchWorkflowTask and DispatchWorkflowWebhook: the node is queued, or *)
(* it failed since no task or delivery was returned.  The endpoint is       *)
(* checked even if the delivery exists already.                             *)
Dispatch(n, s) ==
  \/ s = "queued" /\ work' = Dispatched(n) /\ UNCHANGED faults
  \/ s = "failed" /\ work' = work /\ Fault("dispatch")
  \/ s = "failed" /\ work' = Dispatched(n) /\ Fault("reply")

(* The status executeClaimedNode gives to a node it does not dispatch.      *)
Evaluated(n) == CASE Kind[n] = "delay" -> "queued"
                  [] Kind[n] = "condition" /\ verdict[n] = "error" -> "failed"
                  [] OTHER -> "succeeded"

(* executeClaimedNode up to its update.                                     *)
Execute(a) ==
  LET n == adv[a].cur IN
  /\ adv[a].pc = "execute"
  /\ \E s \in {"queued", "failed", "succeeded"} :
       /\ IF Kind[n] \in External THEN Dispatch(n, s)
          ELSE s = Evaluated(n) /\ UNCHANGED <<work, faults>>
       /\ adv' = [adv EXCEPT ![a] = [adv[a] EXCEPT !.pc = "write",
                                                   !.expect = "running", !.next = s]]
  /\ UNCHANGED <<exec, node, verdict>>

(* Where a pass goes on after updateNode.                                   *)
Returned(p, won) ==
  CASE p.from = "reconcile" -> [p EXCEPT !.pc = "reconcile", !.cur = None,
                                         !.changed = @ \/ won]
    [] p.next = "failed" -> [p EXCEPT !.pc = "fail"]
    [] p.from = "recover" -> [p EXCEPT !.pc = "reconcile", !.cur = None, !.changed = TRUE]
    [] OTHER -> [Idle EXCEPT !.pc = "again"]

(* updateNode writes the pass's own copy of the row, link included.         *)
Write(a) ==
  LET p == adv[a]
      n == p.cur
      won == node[n].status = p.expect
      linked == p.from = "reconcile" \/ p.next = "queued"
  IN
  /\ p.pc = "write"
  /\ node' = [node EXCEPT ![n] = CAS(n, p.expect,
                [status |-> p.next, link |-> IF linked THEN "linked" ELSE "none"])]
  /\ work' = IF won /\ Kind[n] = "delay" /\ p.next = "queued"
             THEN [work EXCEPT ![n] = "pending"] ELSE work
  /\ adv' = [adv EXCEPT ![a] = Returned(p, won)]
  /\ UNCHANGED <<exec, verdict, faults>>

(* failExecution.                                                           *)
FailExecution(a) ==
  LET p == adv[a] IN
  /\ p.pc = "fail"
  /\ exec' = CASExec(ExecActive, "failed")
  /\ node' = IF exec \in ExecActive THEN ClosedNodes ELSE node
  /\ adv' = [adv EXCEPT ![a] =
       CASE p.from = "loop" -> Idle
         [] p.from = "recover" -> [p EXCEPT !.pc = "reconcile", !.cur = None, !.changed = TRUE]
         [] OTHER -> [Idle EXCEPT !.pc = "again"]]
  /\ UNCHANGED <<work, verdict, faults>>

(* Mutant: skipped nodes do not count as done.                              *)
CompleteAll(s) == \A n \in Node : s[n].status = "succeeded"

Complete(s) == \A n \in Node : s[n].status \in {"succeeded", "skipped"}

(* finalizeExecutionIfComplete; touchRunningExecution changes no status.    *)
Finalize(a) ==
  /\ adv[a].pc = "schedule"
  /\ adv[a].todo = {}
  /\ exec' = IF Complete(adv[a].snap) THEN CASExec(ExecActive, "succeeded") ELSE exec
  /\ adv' = [adv EXCEPT ![a] = Idle]
  /\ UNCHANGED <<node, work, verdict, faults>>

(* An error return, or the death of the process, at any point.              *)
Abandon(a) ==
  /\ adv[a].pc # "idle"
  /\ Fault(IF adv[a].pc = "write" /\ adv[a].next = "skipped" THEN "skip" ELSE "abandon")
  /\ adv' = [adv EXCEPT ![a] = Idle]
  /\ UNCHANGED <<exec, node, work, verdict>>
-----------------------------------------------------------------------------
(* QueueFlow and EventForge, as far as a node can see them, and time.       *)

Work(n, from, to) == /\ work[n] = from
                     /\ work' = [work EXCEPT ![n] = to]
                     /\ UNCHANGED <<exec, node, verdict, adv>>

WorkStarts(n) == Kind[n] \in External /\ Work(n, "pending", "processing") /\ UNCHANGED faults

WorkEnds(n) == /\ Kind[n] \in External
               /\ Work(n, "processing", "completed") \/ Work(n, "processing", "failed")
               /\ UNCHANGED faults

(* A retry is scheduled, or a lease expired.                                *)
WorkRetries(n) == Kind[n] \in External /\ Work(n, "processing", "pending") /\ UNCHANGED faults

(* A waiting QueueFlow task is cancelled.                                   *)
WorkCancelled(n) == Kind[n] = "task" /\ Work(n, "pending", "failed") /\ UNCHANGED faults

WorkRevived(n) == Kind[n] \in External /\ Work(n, "failed", "pending") /\ Fault("retry")

WorkDeleted(n) == /\ Kind[n] = "task"
                  /\ Work(n, "completed", "deleted") \/ Work(n, "failed", "deleted")
                  /\ Fault("delete")

DelayDue(n) == Kind[n] = "delay" /\ Work(n, "pending", "completed") /\ UNCHANGED faults

Claims(a, n) == /\ adv[a].cur = n
                /\ adv[a].from = "schedule"
                /\ adv[a].pc \in {"execute", "write"}

(* 30 s after the claim of a node that is still not linked.  Unless calls   *)
(* are slow the pass that claimed it is gone by then.                       *)
ClaimExpires(n) ==
  /\ node[n] = [status |-> "running", link |-> "none"]
  /\ IF \E a \in Advancer : Claims(a, n) THEN Fault("slow") ELSE UNCHANGED faults
  /\ node' = [node EXCEPT ![n] = [node[n] EXCEPT !.link = "stale"]]
  /\ UNCHANGED <<exec, work, verdict, adv>>
-----------------------------------------------------------------------------
Advance(a) ==
  \/ Begin(a) \/ Mark(a) \/ List(a) \/ LoopEnd(a) \/ Settle(a) \/ Execute(a)
  \/ Write(a) \/ FailExecution(a) \/ Finalize(a)
  \/ \E n \in Node : Reconcile(a, n) \/ Schedule(a, n)

Next ==
  \/ Start \/ Cancel
  \/ \E a \in Advancer : Advance(a) \/ Abandon(a)
  \/ \E n \in Node : \/ WorkStarts(n) \/ WorkEnds(n) \/ WorkRetries(n) \/ WorkCancelled(n)
                     \/ WorkRevived(n) \/ WorkDeleted(n) \/ DelayDue(n) \/ ClaimExpires(n)

Spec == Init /\ [][Next]_vars

(* The reconciliation loop runs until the producer stops, tasks and         *)
(* deliveries are retried a bounded number of times, and time passes.       *)
Fairness ==
  /\ \A a \in Advancer : WF_vars(Advance(a))
  /\ \A n \in Node : /\ WF_vars(WorkStarts(n)) /\ SF_vars(WorkEnds(n))
                      /\ WF_vars(DelayDue(n)) /\ WF_vars(ClaimExpires(n))

FairSpec == Spec /\ Fairness
-----------------------------------------------------------------------------
(* FinalizeWorkflowExecution and CancelWorkflowExecution close the          *)
(* execution and its nodes together: a finished execution has no open node, *)
(* not even through the late update of a pass that started before, and it   *)
(* succeeded only if all its nodes did or were skipped.                     *)
TerminalClosed ==
  /\ exec \in ExecTerminal => \A n \in Node : node[n].status \in Closed
  /\ exec = "succeeded" => Complete(node)

(* No node is claimed before all its dependencies succeeded or were skipped *)
(* (workflowNodeReadiness), although it is decided on rows read earlier.    *)
DependencyOrder ==
  \A n \in Node : node[n].status \notin {"pending", "cancelled"} => Resolved(n, node)

(* A node succeeds only when its task, delivery or delay did, whatever      *)
(* passes overlap (reconcileExternalNodes).                                 *)
SucceededIsTrue ==
  \A n \in Node :
    node[n].status = "succeeded" /\ Kind[n] \in External \cup {"delay"} =>
      work[n] \in {"completed", "deleted"}

(* docs/taskcanvas.md:642 "Nodes on unselected branches become `skipped`":  *)
(* no task, delivery or delay is started for a node with no active edge.    *)
BranchRespected ==
  \A n \in Node : work[n] # "absent" =>
    \E m \in Node : /\ <<m, n>> \in Edge
                    /\ node[m].status = "succeeded"
                    /\ Kind[m] = "condition" => Branch[<<m, n>>] \in {"any", verdict[m]}

(* An execution that has not ended has something to go on with, whichever   *)
(* passes died: AdvanceExecution (workflow_execution_service.go:446) can    *)
(* finish it, fail it, claim a node or take over a stale claim, or a task,  *)
(* delivery or timer is still to come.  Only a node whose task was deleted  *)
(* waits for nothing.                                                       *)
NeverStuck ==
  exec \in ExecActive =>
    \/ Complete(node)
    \/ \E n \in Node :
         \/ node[n].status = "failed"
         \/ node[n].status = "pending" /\ (Runnable(n, node) \/ ShouldSkip(n, node))
         \/ node[n].status = "running" /\ node[n].link # "linked"
         \/ /\ node[n].status \in {"queued", "running"} /\ node[n].link = "linked"
            /\ work[n] # "absent"

(* A finished execution, and a finished node, never change their status.    *)
ExecutionFinal ==
  [][/\ exec \in ExecTerminal => exec' = exec
     /\ \A n \in Node : node[n].status \in Closed => node'[n].status = node[n].status]_vars

(* docs/taskcanvas.md:790: a node "becomes terminal only when the           *)
(* underlying work succeeds or fails terminally".                           *)
MirrorsWork ==
  [][\A n \in Node :
       /\ Kind[n] \in External
       /\ node[n].status \in Open /\ node'[n].status \in {"succeeded", "failed"}
       => work[n] \in {"absent", "completed", "failed", "deleted"}]_vars

(* docs/taskcanvas.md:624: the reconciliation loop "observes external       *)
(* QueueFlow tasks and EventForge deliveries, advances dependencies, and    *)
(* finalizes the execution": every execution that was started ends.         *)
EventuallyFinished == exec = "pending" ~> exec \in ExecTerminal
=============================================================================
