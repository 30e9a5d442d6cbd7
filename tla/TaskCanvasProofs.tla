--------------------------- MODULE TaskCanvasProofs ---------------------------
(***************************************************************************)
(* Proofs about TaskCanvas, for any workflow graph and any number of       *)
(* concurrent passes, and for any failures but in the last two parts,      *)
(* which say what failures they leave out.                                 *)
(***************************************************************************)
EXTENDS TaskCanvas, TLAPS

Done == {"completed", "deleted"}

(* The statuses a delay has once its due time is set.                      *)
Settled == {"queued"} \cup Closed

Waits(n) == Kind[n] \in External \cup {"delay"}

Untouched == {"pending", "cancelled"}

(* What a pass p is about to write is true of the rows nd and the work wk. *)
WriteInv(p, nd, wk) ==
  /\ p.expect \in {"queued", "running"}
  /\ p.next = "queued" => p.expect = "running"
  /\ Kind[p.cur] = "delay" => p.next \in Settled
  /\ p.next = "succeeded" /\ Waits(p.cur) =>
       /\ wk[p.cur] \in Done
       /\ Kind[p.cur] = "delay" => nd[p.cur].status \in Settled

(* What a pass p knows of the rows nd and the work wk: what it saw closed  *)
(* is as it saw it, what it is about to claim is ready, and what it is     *)
(* about to record is true.                                                *)
PassInv(p, nd, wk) ==
  /\ p \in Pass
  /\ p.pc \in {"execute", "write"} => p.cur \in Node
  /\ p.pc = "write" => WriteInv(p, nd, wk)
  /\ p.pc = "reconcile" \/ p.from \in {"reconcile", "recover"} =>
       \A n \in p.todo : p.snap[n].status \in {"queued", "running"}
  /\ p.pc = "schedule" => \A n \in p.todo : Resolved(n, p.snap)
  /\ \A n \in Node : p.snap[n].status \in Closed => nd[n].status = p.snap[n].status
  /\ \A n \in Node : Kind[n] = "delay" =>
       /\ p.snap[n].status \in Settled => nd[n].status \in Settled
       /\ p.snap[n].link = "linked" => p.snap[n].status \in Settled

(* A delay is linked to its timer when it is queued, and not before.       *)
DelayRows(nd, wk) ==
  \A n \in Node : Kind[n] = "delay" =>
    /\ wk[n] \in {"absent", "pending", "completed"}
    /\ nd[n].link = "linked" => nd[n].status \in Settled

(* The inductive invariant.                                                *)
IInv ==
  /\ TypeOK
  /\ \A a \in Advancer : PassInv(adv[a], node, work)
  /\ DelayRows(node, work)
  /\ TerminalClosed
  /\ DependencyOrder
  /\ SucceededIsTrue

(* What a step may do to the node rows nd, given the work wk.              *)
NodeStep(nd, wk, nd2) ==
  /\ nd2 \in [Node -> NodeRow]
  /\ \A n \in Node : nd[n].status \in Closed => nd2[n].status = nd[n].status
  /\ \A n \in Node : Kind[n] = "delay" =>
       /\ nd[n].status \in Settled => nd2[n].status \in Settled
       /\ nd2[n].link = "linked" => nd2[n].status \in Settled
  /\ \A n \in Node : nd[n].status \in Untouched /\ nd2[n].status \notin Untouched =>
       Resolved(n, nd)
  /\ \A n \in Node : /\ nd2[n].status = "succeeded" /\ nd[n].status # "succeeded"
                     /\ Waits(n)
                     => /\ wk[n] \in Done
                        /\ Kind[n] = "delay" => nd[n].status \in Settled

(* What a step may do to the work wk, given the node rows nd.              *)
WorkStep(nd, wk, wk2) ==
  /\ wk2 \in [Node -> WorkState]
  /\ \A n \in Node : wk[n] \in Done /\ (Kind[n] = "delay" => nd[n].status \in Settled) =>
       wk2[n] \in Done
  /\ \A n \in Node : Kind[n] = "delay" => wk2[n] \in {"absent", "pending", "completed"}

(* What a step may do to the execution.                                    *)
ExecStep ==
  /\ exec' \in {"absent"} \cup ExecActive \cup ExecTerminal
  /\ exec \in ExecTerminal => exec' = exec
  /\ exec \notin ExecTerminal /\ exec' \in ExecTerminal =>
       /\ \A n \in Node : node'[n].status \in Closed
       /\ exec' = "succeeded" => Complete(node')

(* What is finished stays as it is.                                        *)
FinalStep ==
  /\ exec \in ExecTerminal => exec' = exec
  /\ \A n \in Node : node[n].status \in Closed => node'[n].status = node[n].status

-----------------------------------------------------------------------------
(* What a pass knows survives the steps of everyone else.                  *)
LEMMA Keeps ==
  ASSUME NEW p, NEW nd, NEW wk, NEW nd2, NEW wk2,
         PassInv(p, nd, wk), NodeStep(nd, wk, nd2), WorkStep(nd, wk, wk2)
  PROVE  PassInv(p, nd2, wk2)
<1>1. \A n \in Node : p.snap[n].status \in Closed => nd2[n].status = p.snap[n].status
  BY Zenon DEF PassInv, NodeStep
<1>2. \A n \in Node : Kind[n] = "delay" =>
        /\ p.snap[n].status \in Settled => nd2[n].status \in Settled
        /\ p.snap[n].link = "linked" => p.snap[n].status \in Settled
  BY Zenon DEF PassInv, NodeStep
<1>3. ASSUME p.pc = "write", p.next = "succeeded", Waits(p.cur)
      PROVE  /\ wk2[p.cur] \in Done
             /\ Kind[p.cur] = "delay" => nd2[p.cur].status \in Settled
  <2>1. p.cur \in Node
    BY <1>3 DEF PassInv
  <2>2. wk[p.cur] \in Done /\ (Kind[p.cur] = "delay" => nd[p.cur].status \in Settled)
    BY Zenon, <1>3 DEF PassInv, WriteInv
  <2> QED BY Zenon, <2>1, <2>2 DEF NodeStep, WorkStep
<1>4. p.pc = "write" => WriteInv(p, nd2, wk2)
  BY Zenon, <1>3 DEF PassInv, WriteInv
<1> QED BY Zenon, <1>1, <1>2, <1>4 DEF PassInv

(* A step that leaves the node rows or the work alone.                     *)
LEMMA Still ==
  ASSUME NEW nd \in [Node -> NodeRow], NEW wk \in [Node -> WorkState], DelayRows(nd, wk)
  PROVE  NodeStep(nd, wk, nd) /\ WorkStep(nd, wk, wk)
  BY Zenon DEF NodeStep, WorkStep, DelayRows

(* The parts of a step make up a step of the invariant.                    *)
LEMMA Assemble ==
  ASSUME IInv, NodeStep(node, work, node'), WorkStep(node, work, work'), ExecStep,
         adv' \in [Advancer -> Pass], verdict' = verdict, faults' \in 0..MaxFaults,
         \A a \in Advancer : adv'[a] = adv[a] \/ PassInv(adv'[a], node', work')
  PROVE  IInv' /\ FinalStep
<1>1. TypeOK'
  BY Zenon DEF IInv, TypeOK, NodeStep, WorkStep, ExecStep
<1>2. \A a \in Advancer : PassInv(adv'[a], node', work')
  BY Zenon, Keeps DEF IInv
<1>3. DelayRows(node', work')
  BY Zenon DEF DelayRows, NodeStep, WorkStep
<1>4. TerminalClosed'
  <2>1. CASE exec \notin ExecTerminal
    BY <2>1 DEF ExecStep, TerminalClosed, ExecTerminal
  <2>2. CASE exec \in ExecTerminal
    <3>1. exec' = exec /\ \A n \in Node : node'[n].status = node[n].status
      BY Zenon, <2>2 DEF IInv, ExecStep, TerminalClosed, NodeStep
    <3> QED BY Zenon, <3>1 DEF IInv, TerminalClosed, Complete
  <2> QED BY <2>1, <2>2
<1>5. DependencyOrder'
  <2> SUFFICES ASSUME NEW n \in Node, node'[n].status \notin Untouched
               PROVE  Resolved(n, node')
    BY Zenon DEF DependencyOrder, Untouched
  <2>1. Resolved(n, node)
    BY Zenon DEF IInv, DependencyOrder, NodeStep, Untouched
  <2> QED BY <2>1 DEF Resolved, Sources, NodeStep, Closed
<1>6. SucceededIsTrue'
  <2> SUFFICES ASSUME NEW n \in Node, node'[n].status = "succeeded", Waits(n)
               PROVE  work'[n] \in Done
    BY Zenon DEF SucceededIsTrue, Waits, Done
  <2>1. CASE node[n].status = "succeeded"
    BY <2>1 DEF IInv, SucceededIsTrue, Waits, Done, WorkStep, Settled, Closed
  <2>2. CASE node[n].status # "succeeded"
    <3>1. work[n] \in Done /\ (Kind[n] = "delay" => node[n].status \in Settled)
      BY Zenon, <2>2 DEF NodeStep
    <3> QED BY Zenon, <3>1 DEF WorkStep
  <2> QED BY <2>1, <2>2
<1>7. FinalStep
  BY Zenon DEF FinalStep, ExecStep, NodeStep
<1> QED BY <1>1, <1>2, <1>3, <1>4, <1>5, <1>6, <1>7, Zenon DEF IInv
-----------------------------------------------------------------------------
(* A pass that starts, ends or goes on to its next iteration.              *)
LEMMA IdleInv ==
  ASSUME NEW x \in {"idle", "mark", "list", "again", "fail"}, NEW nd, NEW wk
  PROVE  PassInv([Idle EXCEPT !.pc = x], nd, wk)
<1> DEFINE q == [Idle EXCEPT !.pc = x]
<1>1. q.pc = x /\ q.snap = [n \in Node |-> Fresh] /\ q.todo = {} /\ q.from = "loop"
  BY DEF Idle
<1>2. q \in Pass
  <2>1. Idle \in Pass
    BY DEF Idle, Pass, Fresh, NodeRow, Open
  <2> QED BY Zenon, <2>1 DEF Pass
<1> HIDE DEF q
<1>3. PassInv(q, nd, wk)
  BY <1>1, <1>2 DEF PassInv, Fresh, Closed, Settled
<1> QED BY <1>3 DEF q

(* A pass that has read the node rows.                                     *)
LEMMA ReadInv ==
  ASSUME NEW nd \in [Node -> NodeRow], NEW wk, DelayRows(nd, wk),
         NEW x \in {"reconcile", "schedule"}, NEW todo \in SUBSET Node,
         x = "reconcile" => \A n \in todo : nd[n].status \in {"queued", "running"},
         x = "schedule" => \A n \in todo : Resolved(n, nd)
  PROVE  PassInv([Idle EXCEPT !.pc = x, !.snap = nd, !.todo = todo], nd, wk)
<1> DEFINE q == [Idle EXCEPT !.pc = x, !.snap = nd, !.todo = todo]
<1>1. q.pc = x /\ q.snap = nd /\ q.todo = todo /\ q.from = "loop"
  BY DEF Idle
<1>2. q \in Pass
  <2>1. Idle \in Pass
    BY DEF Idle, Pass, Fresh, NodeRow, Open
  <2> QED BY Zenon, <2>1 DEF Pass
<1> HIDE DEF q
<1>3. \A n \in Node : Kind[n] = "delay" =>
        (q.snap[n].link = "linked" => q.snap[n].status \in Settled)
  BY Zenon, <1>1 DEF DelayRows
<1>4. PassInv(q, nd, wk)
  BY <1>1, <1>2, <1>3 DEF PassInv
<1> QED BY <1>4 DEF q

(* Only the pass that moves changes.                                       *)
LEMMA OnePass ==
  ASSUME adv \in [Advancer -> Pass], NEW a \in Advancer, NEW q,
         adv' = [adv EXCEPT ![a] = q], PassInv(q, node', work')
  PROVE  /\ adv' \in [Advancer -> Pass]
         /\ \A b \in Advancer : adv'[b] = adv[b] \/ PassInv(adv'[b], node', work')
<1>1. q \in Pass
  BY DEF PassInv
<1> QED BY Zenon, <1>1

(* FinalizeWorkflowExecution and CancelWorkflowExecution close every node. *)
LEMMA CloseAll ==
  ASSUME TypeOK, DelayRows(node, work)
  PROVE  /\ NodeStep(node, work, ClosedNodes)
         /\ \A n \in Node : ClosedNodes[n].status \in Closed
<1> DEFINE c == ClosedNodes
<1>1. \A n \in Node : /\ c[n] \in NodeRow
                      /\ c[n].link = node[n].link
                      /\ c[n].status = IF node[n].status \in Open THEN "cancelled"
                                       ELSE node[n].status
  BY DEF ClosedNodes, TypeOK, NodeRow, Closed
<1>2. c \in [Node -> NodeRow]
  BY <1>1 DEF ClosedNodes
<1>3. \A n \in Node : node[n].status \in Open \cup Closed
  BY DEF TypeOK, NodeRow
<1> HIDE DEF c
<1>4. NodeStep(node, work, c)
  BY <1>1, <1>2, <1>3 DEF NodeStep, Untouched, DelayRows, Settled, Open, Closed
<1> QED BY <1>1, <1>3, <1>4 DEF c, Open, Closed

(* The fault budget.                                                       *)
LEMMA Budget ==
  ASSUME faults \in 0..MaxFaults, NEW k, Fault(k) \/ UNCHANGED faults
  PROVE  faults' \in 0..MaxFaults
  BY TaskCanvasAssumption DEF Fault
-----------------------------------------------------------------------------
(* Starting and cancelling an execution.                                   *)
LEMMA ClientSteps ==
  ASSUME IInv, Start \/ Cancel
  PROVE  IInv' /\ FinalStep
<1>0. TypeOK /\ DelayRows(node, work)
  BY DEF IInv
<1>1. CASE Start
  <2>1. NodeStep(node, work, node') /\ WorkStep(node, work, work')
    BY Zenon, <1>0, <1>1, Still DEF Start, TypeOK
  <2>2. ExecStep
    BY <1>1 DEF Start, ExecStep, ExecTerminal, ExecActive
  <2> QED BY Zenon, <1>0, <1>1, <2>1, <2>2, Assemble DEF Start, TypeOK
<1>2. CASE Cancel
  <2>1. NodeStep(node, work, node') /\ WorkStep(node, work, work')
    BY Zenon, <1>0, <1>2, Still, CloseAll DEF Cancel, TypeOK
  <2>2. \A n \in Node : node'[n].status \in Closed
    BY Zenon, <1>0, <1>2, CloseAll DEF Cancel
  <2>3. ExecStep
    BY <1>2, <2>2 DEF Cancel, ExecStep, ExecTerminal, ExecActive
  <2> QED BY Zenon, <1>0, <1>2, <2>1, <2>3, Assemble DEF Cancel, TypeOK
<1> QED BY <1>1, <1>2

(* QueueFlow and EventForge at work, a delay that is due, a claim that     *)
(* goes stale.                                                             *)
LEMMA OutsideSteps ==
  ASSUME IInv, NEW n \in Node,
         \/ WorkStarts(n) \/ WorkEnds(n) \/ WorkRetries(n) \/ WorkCancelled(n)
         \/ WorkRevived(n) \/ WorkDeleted(n) \/ DelayDue(n) \/ ClaimExpires(n)
  PROVE  IInv' /\ FinalStep
<1>0. TypeOK /\ DelayRows(node, work)
  BY DEF IInv
<1>1. ExecStep /\ adv' = adv /\ verdict' = verdict
  BY <1>0 DEF ExecStep, TypeOK, WorkStarts, WorkEnds, WorkRetries, WorkCancelled, WorkRevived,
              WorkDeleted, DelayDue, ClaimExpires, Work
<1>2. \E k : Fault(k) \/ UNCHANGED faults
  BY Zenon DEF WorkStarts, WorkEnds, WorkRetries, WorkCancelled, WorkRevived,
               WorkDeleted, DelayDue, ClaimExpires
<1>3. faults' \in 0..MaxFaults
  BY <1>0, <1>2, Budget DEF TypeOK
<1>4. CASE ClaimExpires(n)
  <2> DEFINE r == [node[n] EXCEPT !.link = "stale"]
  <2>1. node[n].status = "running" /\ r \in NodeRow /\ r.status = "running" /\ r.link = "stale"
    BY <1>0, <1>4 DEF ClaimExpires, TypeOK, NodeRow
  <2>2. node' = [node EXCEPT ![n] = r] /\ work' = work
    BY <1>4 DEF ClaimExpires
  <2> HIDE DEF r
  <2>3. NodeStep(node, work, node')
    BY <1>0, <2>1, <2>2 DEF TypeOK, NodeStep, DelayRows, Settled, Closed, Untouched
  <2>4. WorkStep(node, work, work')
    BY Zenon, <1>0, <2>2, Still DEF TypeOK
  <2> QED BY Zenon, <1>0, <1>1, <1>3, <2>3, <2>4, Assemble DEF TypeOK
<1>5. CASE \/ WorkStarts(n) \/ WorkEnds(n) \/ WorkRetries(n) \/ WorkCancelled(n)
           \/ WorkRevived(n) \/ WorkDeleted(n) \/ DelayDue(n)
  <2>1. PICK from \in WorkState, to \in WorkState :
          /\ Work(n, from, to)
          /\ from \in Done => to \in Done
          /\ Kind[n] = "delay" => to = "completed"
    BY <1>5 DEF WorkStarts, WorkEnds, WorkRetries, WorkCancelled, WorkRevived, WorkDeleted,
                DelayDue, WorkState, Done, External
  <2>2. NodeStep(node, work, node')
    BY Zenon, <1>0, <2>1, Still DEF TypeOK, Work
  <2>3. WorkStep(node, work, work')
    BY <1>0, <2>1 DEF TypeOK, Work, WorkStep, DelayRows
  <2> QED BY Zenon, <1>0, <1>1, <1>3, <2>2, <2>3, Assemble DEF TypeOK
<1> QED BY <1>4, <1>5

(* A step of one pass that leaves nodes and work alone.                    *)
LEMMA QuietPass ==
  ASSUME IInv, NEW a \in Advancer, NEW q, adv' = [adv EXCEPT ![a] = q],
         PassInv(q, node, work), UNCHANGED <<node, work, verdict>>, ExecStep,
         faults' \in 0..MaxFaults
  PROVE  IInv' /\ FinalStep
<1>0. TypeOK /\ DelayRows(node, work)
  BY DEF IInv
<1>1. NodeStep(node, work, node') /\ WorkStep(node, work, work')
  BY Zenon, <1>0, Still DEF TypeOK
<1>2. PassInv(q, node', work')
  BY Zenon
<1>3. /\ adv' \in [Advancer -> Pass]
      /\ \A b \in Advancer : adv'[b] = adv[b] \/ PassInv(adv'[b], node', work')
  BY Zenon, <1>0, <1>2, OnePass DEF TypeOK
<1> QED BY Zenon, <1>1, <1>3, Assemble

(* Reading the execution and the nodes, and the end of a pass.             *)
LEMMA ReadSteps ==
  ASSUME IInv, NEW a \in Advancer,
         Begin(a) \/ Mark(a) \/ List(a) \/ LoopEnd(a) \/ Settle(a) \/ Finalize(a) \/ Abandon(a)
  PROVE  IInv' /\ FinalStep
<1>0. TypeOK /\ DelayRows(node, work) /\ adv[a] \in Pass /\ PassInv(adv[a], node, work)
  BY DEF IInv, TypeOK
<1>1. faults' \in 0..MaxFaults
  <2>1. \E k : Fault(k) \/ UNCHANGED faults
    BY Zenon DEF Begin, Mark, List, LoopEnd, Settle, Finalize, Abandon
  <2> QED BY <1>0, <2>1, Budget DEF TypeOK
<1>2. Idle = [Idle EXCEPT !.pc = "idle"]
  <2>1. Idle.pc = "idle"
    BY DEF Idle
  <2> QED BY Zenon, <2>1 DEF Idle
<1>3. PassInv(Idle, node, work)
  BY <1>2, IdleInv
<1>4. exec' = exec => ExecStep
  BY <1>0 DEF ExecStep, TypeOK
<1>5. CASE Begin(a)
  <2>1. PICK x \in {"mark", "list"} : adv' = [adv EXCEPT ![a] = [Idle EXCEPT !.pc = x]]
    BY Zenon, <1>5 DEF Begin
  <2>2. PassInv([Idle EXCEPT !.pc = x], node, work)
    BY IdleInv
  <2> QED BY Zenon, <1>1, <1>4, <1>5, <2>1, <2>2, QuietPass DEF Begin
<1>6. CASE Mark(a)
  <2> DEFINE q == [adv[a] EXCEPT !.pc = "list"]
  <2>1. q \in Pass
    BY Zenon, <1>0 DEF Pass
  <2>2. /\ q.pc = "list" /\ q.snap = adv[a].snap /\ q.todo = adv[a].todo
        /\ q.from = adv[a].from
    BY <1>0 DEF Pass
  <2>3. adv' = [adv EXCEPT ![a] = q]
    BY ZenonT(60), <1>6 DEF Mark
  <2> HIDE DEF q
  <2>4. PassInv(q, node, work)
    BY <1>0, <2>1, <2>2 DEF PassInv
  <2>5. ExecStep
    BY <1>0, <1>6 DEF Mark, CASExec, ExecStep, ExecTerminal, ExecActive, TypeOK
  <2> QED BY Zenon, <1>1, <1>6, <2>3, <2>4, <2>5, QuietPass DEF Mark
<1>7. CASE List(a)
  <2> DEFINE todo == {n \in Node : node[n].status \in {"queued", "running"}}
  <2>1. adv' = [adv EXCEPT ![a] = [Idle EXCEPT !.pc = "reconcile", !.snap = node,
                                               !.todo = todo]]
    BY ZenonT(30), <1>7 DEF List
  <2>2. PassInv([Idle EXCEPT !.pc = "reconcile", !.snap = node, !.todo = todo], node, work)
    BY Zenon, <1>0, ReadInv DEF TypeOK
  <2> QED BY Zenon, <1>1, <1>4, <1>7, <2>1, <2>2, QuietPass DEF List
<1>8. CASE LoopEnd(a) \/ Abandon(a)
  BY Zenon, <1>1, <1>3, <1>4, <1>8, QuietPass DEF LoopEnd, Abandon
<1>9. CASE Settle(a)
  <2> DEFINE todo == {n \in Node : /\ node[n].status = "pending"
                                   /\ (Runnable(n, node) \/ ShouldSkip(n, node))}
             q == [Idle EXCEPT !.pc = "schedule", !.snap = node, !.todo = todo]
  <2>1. PICK p : /\ adv' = [adv EXCEPT ![a] = p]
                 /\ p \in {[Idle EXCEPT !.pc = "again"], [Idle EXCEPT !.pc = "fail"], q}
    BY Zenon, <1>9 DEF Settle
  <2>2. \A n \in todo : Resolved(n, node)
    <3>1. \A n \in Node : Kind[n] = "trigger" => Sources(n) = {}
      <4> SUFFICES ASSUME NEW n \in Node, NEW m \in Node, <<m, n>> \in Edge
                   PROVE  Kind[n] # "trigger"
        BY Zenon DEF Sources
      <4>1. \A e \in Edge : Kind[e[2]] # "trigger"
        BY Zenon, TaskCanvasAssumption
      <4>2. <<m, n>>[2] = n
        OBVIOUS
      <4> QED BY Zenon, <4>1, <4>2
    <3> QED BY <3>1 DEF Runnable, ShouldSkip, Resolved
  <2>3. PassInv(q, node, work)
    BY Zenon, <1>0, <2>2, ReadInv DEF TypeOK
  <2>4. /\ PassInv([Idle EXCEPT !.pc = "again"], node, work)
        /\ PassInv([Idle EXCEPT !.pc = "fail"], node, work)
    BY IdleInv
  <2> HIDE DEF q
  <2>5. PassInv(p, node, work)
    BY Zenon, <2>1, <2>3, <2>4
  <2> QED BY Zenon, <1>1, <1>4, <1>9, <2>1, <2>5, QuietPass DEF Settle
<1>10. CASE Finalize(a)
  <2>1. Complete(adv[a].snap) => Complete(node) /\ \A n \in Node : node[n].status \in Closed
    BY <1>0 DEF Complete, PassInv, Closed
  <2>2. node' = node /\ (Complete(node) => Complete(node'))
    BY Zenon, <1>10 DEF Finalize
  <2>3. ExecStep
    BY <1>0, <1>10, <2>1, <2>2 DEF Finalize, CASExec, ExecStep, ExecTerminal, ExecActive, TypeOK
  <2> QED BY Zenon, <1>1, <1>3, <1>10, <2>3, QuietPass DEF Finalize
<1> QED BY <1>5, <1>6, <1>7, <1>8, <1>9, <1>10
-----------------------------------------------------------------------------
(* A pass that goes on with the rows it read.                              *)
LEMMA Moves ==
  ASSUME NEW p, NEW q \in Pass, NEW nd, NEW wk, PassInv(p, nd, wk),
         q.snap = p.snap, q.todo \subseteq p.todo,
         q.pc = "reconcile" \/ q.from \in {"reconcile", "recover"} =>
           p.pc = "reconcile" \/ p.from \in {"reconcile", "recover"},
         q.pc = "schedule" => p.pc = "schedule",
         q.pc \in {"execute", "write"} => q.cur \in Node,
         q.pc = "write" => WriteInv(q, nd, wk)
  PROVE  PassInv(q, nd, wk)
  BY Zenon DEF PassInv

(* reconcileExternalNodes keeps the invariant.                             *)
LEMMA ReconcileStep ==
  ASSUME IInv, NEW a \in Advancer, NEW n \in Node, Reconcile(a, n)
  PROVE  IInv' /\ FinalStep
<1> DEFINE p == adv[a]
           r == p.snap[n]
           left == [p EXCEPT !.todo = @ \ {n}]
           w == [left EXCEPT !.pc = "write", !.cur = n, !.expect = r.status,
                             !.next = Observed(n), !.from = "reconcile"]
           x == [left EXCEPT !.pc = "execute", !.cur = n, !.from = "recover"]
<1>0. TypeOK /\ DelayRows(node, work) /\ p \in Pass /\ PassInv(p, node, work)
  BY DEF IInv, TypeOK
<1>1. p.pc = "reconcile" /\ r.status \in {"queued", "running"} /\ r \in NodeRow
  BY <1>0 DEF Reconcile, PassInv, Pass
<1>2. ExecStep /\ faults' \in 0..MaxFaults
  BY <1>0 DEF Reconcile, ExecStep, TypeOK
<1>3. left \in Pass /\ left.snap = p.snap /\ left.todo = p.todo \ {n} /\ left.pc = p.pc
      /\ left.from = p.from
  <2>1. p.todo \ {n} \in SUBSET Node
    BY <1>0 DEF Pass
  <2> QED BY Zenon, <1>0, <2>1 DEF Pass
<1> HIDE DEF left
<1>4. PassInv(left, node, work)
  BY <1>0, <1>1, <1>3, Moves
<1>5. PassInv(x, node, work)
  <2>1. x \in Pass
    BY Zenon, <1>3 DEF Pass
  <2>2. x.snap = p.snap /\ x.todo \subseteq p.todo /\ x.pc = "execute" /\ x.cur = n
    BY <1>3 DEF Pass
  <2> HIDE DEF x
  <2> QED BY <1>0, <1>1, <2>1, <2>2, Moves
<1>6. ASSUME r.link = "linked", Observed(n) # r.status
      PROVE  PassInv(w, node, work)
  <2>1. Observed(n) \in {"queued", "running", "succeeded", "failed"}
    BY DEF Observed
  <2>2. w \in Pass
    BY ZenonT(30), <1>1, <1>3, <2>1 DEF Pass, Open, Closed
  <2>3. /\ w.snap = p.snap /\ w.todo \subseteq p.todo /\ w.pc = "write" /\ w.cur = n
        /\ w.expect = r.status /\ w.next = Observed(n)
    BY <1>3 DEF Pass
  <2>4. Observed(n) = "succeeded" => work[n] \in Done
    BY DEF Observed, Done
  <2>5. Kind[n] = "delay" => Observed(n) \in Settled /\ node[n].status \in Settled
    BY <1>0, <1>6 DEF DelayRows, Observed, Settled, Closed, PassInv
  <2> HIDE DEF w
  <2>6. WriteInv(w, node, work)
    BY <1>1, <1>6, <2>3, <2>4, <2>5 DEF WriteInv
  <2> QED BY <1>0, <1>1, <2>2, <2>3, <2>6, Moves
<1>7. PICK q : /\ adv' = [adv EXCEPT ![a] = q]
               /\ \/ q = w /\ r.link = "linked" /\ Observed(n) # r.status
                  \/ q = x
                  \/ q = left
  <2> DEFINE c == CASE r.link = "linked" /\ work[n] # "deleted" /\ Observed(n) # r.status -> w
                    [] r.link = "stale" -> x
                    [] OTHER -> left
  <2>1. adv' = [adv EXCEPT ![a] = c]
    BY Zenon DEF Reconcile, left
  <2> HIDE DEF w, x
  <2>2. \/ c = w /\ r.link = "linked" /\ Observed(n) # r.status
        \/ c = x
        \/ c = left
    OBVIOUS
  <2> QED BY Zenon, <2>1, <2>2
<1> HIDE DEF w, x
<1>8. PassInv(q, node, work)
  BY <1>4, <1>5, <1>6, <1>7
<1> QED BY Zenon, <1>2, <1>7, <1>8, QuietPass DEF Reconcile

(* A step of one pass that changes nodes or work.                          *)
LEMMA ActivePass ==
  ASSUME IInv, NEW a \in Advancer, NEW q, adv' = [adv EXCEPT ![a] = q],
         NodeStep(node, work, node'), WorkStep(node, work, work'),
         PassInv(q, node', work'), verdict' = verdict, ExecStep, faults' \in 0..MaxFaults
  PROVE  IInv' /\ FinalStep
<1>1. /\ adv' \in [Advancer -> Pass]
      /\ \A b \in Advancer : adv'[b] = adv[b] \/ PassInv(adv'[b], node', work')
  BY Zenon, OnePass DEF IInv, TypeOK
<1> QED BY Zenon, <1>1, Assemble

(* scheduleRunnableNodes keeps the invariant.                              *)
LEMMA ScheduleStep ==
  ASSUME IInv, NEW a \in Advancer, NEW n \in Node, Schedule(a, n)
  PROVE  IInv' /\ FinalStep
<1> DEFINE p == adv[a]
           claimed == [status |-> "running", link |-> "none"]
           left == [p EXCEPT !.todo = @ \ {n}]
           w == [p EXCEPT !.pc = "write", !.cur = n, !.expect = "running",
                          !.next = "skipped", !.from = "schedule"]
           x == [p EXCEPT !.pc = "execute", !.cur = n, !.from = "schedule"]
<1>0. TypeOK /\ DelayRows(node, work) /\ p \in Pass /\ PassInv(p, node, work)
  BY DEF IInv, TypeOK
<1>1. p.pc = "schedule" /\ Resolved(n, p.snap)
  BY <1>0 DEF Schedule, PassInv
<1>2. ExecStep /\ faults' \in 0..MaxFaults
  BY <1>0 DEF Schedule, ExecStep, TypeOK
<1>3. Resolved(n, node)
  BY <1>0, <1>1 DEF Resolved, Sources, PassInv, Closed
<1>4. NodeStep(node, work, node')
  <2>1. claimed \in NodeRow /\ claimed.status = "running" /\ claimed.link = "none"
    BY DEF NodeRow, Open
  <2>2. node' = [node EXCEPT ![n] = IF node[n].status = "pending" THEN claimed ELSE node[n]]
    BY Zenon DEF Schedule, CAS
  <2> HIDE DEF claimed
  <2> QED BY <1>0, <1>3, <2>1, <2>2
          DEF TypeOK, NodeStep, DelayRows, Settled, Closed, Untouched
<1>5. WorkStep(node, work, work')
  BY Zenon, <1>0, Still DEF Schedule, TypeOK
<1>6. PassInv(p, node', work')
  BY <1>0, <1>4, <1>5, Keeps
<1>7. PassInv(left, node', work')
  <2>1. p.todo \ {n} \in SUBSET Node
    BY <1>0 DEF Pass
  <2>2. /\ left \in Pass /\ left.snap = p.snap /\ left.todo = p.todo \ {n}
        /\ left.pc = p.pc /\ left.from = p.from
    BY Zenon, <1>0, <2>1 DEF Pass
  <2> HIDE DEF left
  <2> QED BY <1>1, <1>6, <2>2, Moves
<1>8. PassInv(w, node', work')
  <2>1. w \in Pass
    BY ZenonT(30), <1>0 DEF Pass, Open, Closed
  <2>2. /\ w.snap = p.snap /\ w.todo = p.todo /\ w.pc = "write" /\ w.cur = n
        /\ w.expect = "running" /\ w.next = "skipped" /\ w.from = "schedule"
    BY <1>0 DEF Pass
  <2> HIDE DEF w
  <2>3. WriteInv(w, node', work')
    BY <2>2 DEF WriteInv, Settled, Closed
  <2> QED BY <1>6, <2>1, <2>2, <2>3, Moves
<1>9. PassInv(x, node', work')
  <2>1. x \in Pass
    BY ZenonT(30), <1>0 DEF Pass
  <2>2. x.snap = p.snap /\ x.todo = p.todo /\ x.pc = "execute" /\ x.cur = n /\ x.from = "schedule"
    BY <1>0 DEF Pass
  <2> HIDE DEF x
  <2> QED BY <1>6, <2>1, <2>2, Moves
<1>10. PICK q : adv' = [adv EXCEPT ![a] = q] /\ q \in {left, w, x}
  BY Zenon DEF Schedule
<1> HIDE DEF left, w, x
<1>11. PassInv(q, node', work')
  BY <1>7, <1>8, <1>9, <1>10
<1> QED BY Zenon, <1>2, <1>4, <1>5, <1>10, <1>11, ActivePass DEF Schedule

(* executeClaimedNode, up to its update, keeps the invariant.              *)
LEMMA ExecuteStep ==
  ASSUME IInv, NEW a \in Advancer, Execute(a)
  PROVE  IInv' /\ FinalStep
<1> DEFINE p == adv[a]
           n == p.cur
<1>0. TypeOK /\ DelayRows(node, work) /\ p \in Pass /\ PassInv(p, node, work)
  BY DEF IInv, TypeOK
<1>1. p.pc = "execute" /\ n \in Node
  BY <1>0 DEF Execute, PassInv
<1>2. PICK s \in {"queued", "failed", "succeeded"} :
        /\ IF Kind[n] \in External THEN Dispatch(n, s)
           ELSE s = Evaluated(n) /\ UNCHANGED <<work, faults>>
        /\ adv' = [adv EXCEPT ![a] = [p EXCEPT !.pc = "write",
                                               !.expect = "running", !.next = s]]
  BY Zenon DEF Execute
<1>3. ExecStep /\ node' = node /\ verdict' = verdict
  BY <1>0 DEF Execute, ExecStep, TypeOK
<1>4. faults' \in 0..MaxFaults
  <2>1. \E k : Fault(k) \/ UNCHANGED faults
    BY Zenon, <1>2 DEF Dispatch
  <2> QED BY <1>0, <2>1, Budget DEF TypeOK
<1>5. Kind[n] = "delay" => s = "queued"
  BY <1>2 DEF External, Evaluated
<1>6. s = "succeeded" => ~Waits(n)
  BY <1>2, TaskCanvasAssumption, <1>1 DEF Dispatch, Evaluated, Waits, External
<1>7. work' = work \/ (Kind[n] \in External /\ work' = Dispatched(n))
  BY Zenon, <1>2 DEF Dispatch
<1>8. NodeStep(node, work, node')
  BY Zenon, <1>0, <1>3, Still DEF TypeOK
<1>9. WorkStep(node, work, work')
  <2>1. CASE work' = work
    BY Zenon, <1>0, <2>1, Still DEF TypeOK
  <2>2. CASE Kind[n] \in External /\ work' = Dispatched(n)
    BY <1>0, <1>1, <2>2 DEF TypeOK, WorkStep, WorkState, Dispatched, Done, DelayRows, External
  <2> QED BY <1>7, <2>1, <2>2
<1>10. PassInv(p, node', work')
  BY <1>0, <1>8, <1>9, Keeps
<1> DEFINE q == [p EXCEPT !.pc = "write", !.expect = "running", !.next = s]
<1>11. q \in Pass
  BY ZenonT(30), <1>0 DEF Pass, Open, Closed
<1>12. /\ q.snap = p.snap /\ q.todo = p.todo /\ q.pc = "write" /\ q.cur = n
       /\ q.expect = "running" /\ q.next = s /\ q.from = p.from
  BY <1>0 DEF Pass
<1>13. adv' = [adv EXCEPT ![a] = q]
  BY <1>2
<1> HIDE DEF q
<1>14. WriteInv(q, node', work')
  BY <1>5, <1>6, <1>12 DEF WriteInv, Settled
<1>15. PassInv(q, node', work')
  BY <1>1, <1>10, <1>11, <1>12, <1>14, Moves
<1> QED BY Zenon, <1>3, <1>4, <1>8, <1>9, <1>13, <1>15, ActivePass

(* Where a pass goes on after updateNode it knows what it knew.            *)
LEMMA ReturnedInv ==
  ASSUME NEW p, NEW won \in BOOLEAN, NEW nd, NEW wk, PassInv(p, nd, wk)
  PROVE  PassInv(Returned(p, won), nd, wk)
<1> DEFINE b == p.changed \/ won
           q1 == [p EXCEPT !.pc = "reconcile", !.cur = None, !.changed = b]
           q2 == [p EXCEPT !.pc = "fail"]
           q3 == [p EXCEPT !.pc = "reconcile", !.cur = None, !.changed = TRUE]
           q4 == [Idle EXCEPT !.pc = "again"]
<1>0. p \in Pass
  BY DEF PassInv
<1>1. ASSUME p.from = "reconcile" PROVE PassInv(q1, nd, wk)
  <2>1. b \in BOOLEAN
    BY Zenon
  <2>2. q1 \in Pass
    BY ZenonT(30), <1>0, <2>1 DEF Pass
  <2>3. q1.snap = p.snap /\ q1.todo = p.todo /\ q1.pc = "reconcile" /\ q1.from = p.from
    BY <1>0 DEF Pass
  <2> HIDE DEF q1
  <2> QED BY <1>1, <2>2, <2>3, Moves
<1>2. PassInv(q2, nd, wk)
  <2>1. q2 \in Pass
    BY ZenonT(30), <1>0 DEF Pass
  <2>2. q2.snap = p.snap /\ q2.todo = p.todo /\ q2.pc = "fail" /\ q2.from = p.from
    BY <1>0 DEF Pass
  <2> HIDE DEF q2
  <2> QED BY <2>1, <2>2, Moves
<1>3. ASSUME p.from = "recover" PROVE PassInv(q3, nd, wk)
  <2>1. q3 \in Pass
    BY ZenonT(30), <1>0 DEF Pass
  <2>2. q3.snap = p.snap /\ q3.todo = p.todo /\ q3.pc = "reconcile" /\ q3.from = p.from
    BY <1>0 DEF Pass
  <2> HIDE DEF q3
  <2> QED BY <1>3, <2>1, <2>2, Moves
<1>4. PassInv(q4, nd, wk)
  BY IdleInv
<1>5. Returned(p, won) = CASE p.from = "reconcile" -> q1
                           [] p.next = "failed" -> q2
                           [] p.from = "recover" -> q3
                           [] OTHER -> q4
  BY Zenon DEF Returned
<1> HIDE DEF q1, q2, q3, q4
<1>6. \/ Returned(p, won) = q1 /\ p.from = "reconcile"
      \/ Returned(p, won) = q2
      \/ Returned(p, won) = q3 /\ p.from = "recover"
      \/ Returned(p, won) = q4
  BY <1>5
<1> QED BY <1>1, <1>2, <1>3, <1>4, <1>6

(* updateNode keeps the invariant.                                         *)
LEMMA WriteStep ==
  ASSUME IInv, NEW a \in Advancer, Write(a)
  PROVE  IInv' /\ FinalStep
<1> DEFINE p == adv[a]
           n == p.cur
           won == node[n].status = p.expect
           linked == p.from = "reconcile" \/ p.next = "queued"
           r == [status |-> p.next, link |-> IF linked THEN "linked" ELSE "none"]
<1>0. TypeOK /\ DelayRows(node, work) /\ p \in Pass /\ PassInv(p, node, work)
  BY DEF IInv, TypeOK
<1>1. p.pc = "write" /\ n \in Node /\ WriteInv(p, node, work)
  BY ZenonT(60), <1>0 DEF Write, PassInv
<1>2. ExecStep /\ faults' \in 0..MaxFaults /\ verdict' = verdict
  BY ZenonT(60), <1>0 DEF Write, ExecStep, TypeOK
<1>3. r \in NodeRow /\ r.status = p.next
  BY <1>0 DEF Pass, NodeRow
<1>4. /\ node' = [node EXCEPT ![n] = IF won THEN r ELSE node[n]]
      /\ work' = IF won /\ Kind[n] = "delay" /\ p.next = "queued"
                 THEN [work EXCEPT ![n] = "pending"] ELSE work
      /\ adv' = [adv EXCEPT ![a] = Returned(p, won)]
  BY Zenon DEF Write, CAS
<1> HIDE DEF r
<1>5. NodeStep(node, work, node')
  <2>1. CASE ~won
    <3>1. node' = node
      BY ZenonT(60), <1>0, <1>1, <1>4, <2>1 DEF TypeOK
    <3> QED BY Zenon, <1>0, <3>1, Still DEF TypeOK
  <2>2. CASE won
    <3>1. /\ node' = [node EXCEPT ![n] = r]
          /\ node[n].status \in {"queued", "running"}
          /\ Kind[n] = "delay" => p.next \in Settled
          /\ p.next = "succeeded" /\ Waits(n) =>
               /\ work[n] \in Done
               /\ Kind[n] = "delay" => node[n].status \in Settled
      BY Zenon, <1>1, <1>4, <2>2 DEF WriteInv
    <3> QED BY <1>0, <1>1, <1>3, <3>1
            DEF TypeOK, NodeStep, DelayRows, Closed, Untouched
  <2> QED BY <2>1, <2>2
<1>6. WorkStep(node, work, work')
  <2>1. CASE won /\ Kind[n] = "delay" /\ p.next = "queued"
    <3>1. node[n].status = "running" /\ work' = [work EXCEPT ![n] = "pending"]
      BY <1>1, <1>4, <2>1 DEF WriteInv
    <3> QED BY ZenonT(60), <1>0, <1>1, <2>1, <3>1
            DEF TypeOK, WorkStep, WorkState, DelayRows, Settled, Closed
  <2>2. CASE ~(won /\ Kind[n] = "delay" /\ p.next = "queued")
    BY Zenon, <1>0, <1>4, <2>2, Still DEF TypeOK
  <2> QED BY <2>1, <2>2
<1>7. PassInv(p, node', work')
  BY <1>0, <1>5, <1>6, Keeps
<1>8. PassInv(Returned(p, won), node', work')
  <2>1. won \in BOOLEAN
    BY Zenon
  <2> QED BY Zenon, <1>7, <2>1, ReturnedInv
<1> QED BY Zenon, <1>2, <1>4, <1>5, <1>6, <1>8, ActivePass

(* failExecution keeps the invariant.                                      *)
LEMMA FailStep ==
  ASSUME IInv, NEW a \in Advancer, FailExecution(a)
  PROVE  IInv' /\ FinalStep
<1> DEFINE p == adv[a]
           q3 == [p EXCEPT !.pc = "reconcile", !.cur = None, !.changed = TRUE]
           q4 == [Idle EXCEPT !.pc = "again"]
<1>0. TypeOK /\ DelayRows(node, work) /\ p \in Pass /\ PassInv(p, node, work)
  BY DEF IInv, TypeOK
<1>1. NodeStep(node, work, node')
  <2>1. node' = node \/ node' = ClosedNodes
    BY Zenon DEF FailExecution
  <2> QED BY Zenon, <1>0, <2>1, Still, CloseAll DEF TypeOK
<1>2. WorkStep(node, work, work')
  BY Zenon, <1>0, Still DEF FailExecution, TypeOK
<1>3. ExecStep
  <2>1. exec \in ExecActive => \A n \in Node : node'[n].status \in Closed
    BY Zenon, <1>0, CloseAll DEF FailExecution
  <2> QED BY <1>0, <2>1
          DEF FailExecution, CASExec, ExecStep, ExecTerminal, ExecActive, TypeOK
<1>4. PassInv(p, node', work')
  BY <1>0, <1>1, <1>2, Keeps
<1>5. ASSUME p.from = "recover" PROVE PassInv(q3, node', work')
  <2>1. q3 \in Pass
    BY ZenonT(30), <1>0 DEF Pass
  <2>2. q3.snap = p.snap /\ q3.todo = p.todo /\ q3.pc = "reconcile" /\ q3.from = p.from
    BY <1>0 DEF Pass
  <2> HIDE DEF q3
  <2> QED BY <1>4, <1>5, <2>1, <2>2, Moves
<1>6. PassInv(q4, node', work') /\ PassInv(Idle, node', work')
  <2>1. Idle.pc = "idle"
    BY DEF Idle
  <2>2. Idle = [Idle EXCEPT !.pc = "idle"]
    BY Zenon, <2>1 DEF Idle
  <2> QED BY <2>2, IdleInv
<1>7. PICK q : /\ adv' = [adv EXCEPT ![a] = q]
               /\ q = Idle \/ (p.from = "recover" /\ q = q3) \/ q = q4
  <2> DEFINE c == CASE p.from = "loop" -> Idle
                    [] p.from = "recover" -> q3
                    [] OTHER -> q4
  <2>1. adv' = [adv EXCEPT ![a] = c]
    BY Zenon DEF FailExecution
  <2> HIDE DEF q3, q4
  <2>2. c = Idle \/ (p.from = "recover" /\ c = q3) \/ c = q4
    OBVIOUS
  <2> QED BY Zenon, <2>1, <2>2
<1> HIDE DEF q3, q4
<1>8. PassInv(q, node', work')
  BY Zenon, <1>5, <1>6, <1>7
<1>9. verdict' = verdict /\ faults' \in 0..MaxFaults
  BY <1>0 DEF FailExecution, TypeOK
<1> QED BY Zenon, <1>1, <1>2, <1>3, <1>7, <1>8, <1>9, ActivePass
-----------------------------------------------------------------------------
(* The invariant holds at the start: every row is fresh and no pass runs.  *)
LEMMA InitInv == Init => IInv
<1> SUFFICES ASSUME Init PROVE IInv
  OBVIOUS
<1>1. Idle.pc = "idle"
  BY DEF Idle
<1>2. Idle = [Idle EXCEPT !.pc = "idle"]
  BY Zenon, <1>1 DEF Idle
<1>3. PassInv(Idle, node, work)
  BY <1>2, IdleInv
<1>4. \A a \in Advancer : PassInv(adv[a], node, work)
  BY Zenon, <1>3 DEF Init
<1>5. Idle \in Pass
  BY <1>3 DEF PassInv
<1>6. TypeOK
  BY <1>5, TaskCanvasAssumption DEF Init, TypeOK, Fresh, NodeRow, Open, WorkState
<1>7. \A n \in Node : node[n].status = "pending" /\ node[n].link = "none" /\ work[n] = "absent"
  BY DEF Init, Fresh
<1>8. DelayRows(node, work) /\ TerminalClosed /\ DependencyOrder /\ SucceededIsTrue
  BY <1>7 DEF Init, DelayRows, TerminalClosed, DependencyOrder, SucceededIsTrue, ExecTerminal
<1> QED BY <1>4, <1>6, <1>8 DEF IInv

(* Every step of the system keeps the invariant, and what is finished.     *)
LEMMA StepInv ==
  ASSUME IInv, [Next]_vars
  PROVE  IInv' /\ FinalStep
<1>1. CASE UNCHANGED vars
  BY Zenon, <1>1 DEF vars, IInv, TypeOK, TerminalClosed, Complete, DependencyOrder,
                     SucceededIsTrue, FinalStep, Resolved, Sources
<1>2. CASE Start \/ Cancel
  BY Zenon, <1>2, ClientSteps
<1>3. ASSUME NEW a \in Advancer, Advance(a) \/ Abandon(a)
      PROVE  IInv' /\ FinalStep
  BY Zenon, <1>3, ReadSteps, ReconcileStep, ScheduleStep, ExecuteStep, WriteStep, FailStep
     DEF Advance
<1>4. ASSUME NEW n \in Node,
             \/ WorkStarts(n) \/ WorkEnds(n) \/ WorkRetries(n) \/ WorkCancelled(n)
             \/ WorkRevived(n) \/ WorkDeleted(n) \/ DelayDue(n) \/ ClaimExpires(n)
      PROVE  IInv' /\ FinalStep
  BY Zenon, <1>4, OutsideSteps
<1> QED BY Zenon, <1>1, <1>2, <1>3, <1>4 DEF Next

(* The inductive invariant holds throughout.                               *)
THEOREM IInvHolds == Spec => []IInv
  BY InitInv, StepInv, PTL DEF Spec

(* Every variable keeps its type, for any graph and any failures.          *)
THEOREM TypeCorrect == Spec => []TypeOK
<1>1. IInv => TypeOK
  BY DEF IInv
<1> QED BY <1>1, IInvHolds, PTL

(* FinalizeWorkflowExecution and CancelWorkflowExecution leave no open     *)
(* node behind, and no late update of a pass opens one.                    *)
THEOREM TerminalClosedHolds == Spec => []TerminalClosed
<1>1. IInv => TerminalClosed
  BY DEF IInv
<1> QED BY <1>1, IInvHolds, PTL

(* workflowNodeReadiness, although it sees old rows, lets no node start    *)
(* before its dependencies are done.                                       *)
THEOREM DependencyOrderHolds == Spec => []DependencyOrder
<1>1. IInv => DependencyOrder
  BY DEF IInv
<1> QED BY <1>1, IInvHolds, PTL

(* reconcileExternalNodes records success only for work that succeeded.    *)
THEOREM SucceededIsTrueHolds == Spec => []SucceededIsTrue
<1>1. IInv => SucceededIsTrue
  BY DEF IInv
<1> QED BY <1>1, IInvHolds, PTL

(* The status checks of UpdateWorkflowExecution and                        *)
(* UpdateWorkflowNodeExecution make every final status final.              *)
THEOREM ExecutionFinalHolds == Spec => ExecutionFinal
<1>1. IInv /\ [Next]_vars =>
        [/\ exec \in ExecTerminal => exec' = exec
         /\ \A n \in Node : node[n].status \in Closed => node'[n].status = node[n].status]_vars
  BY Zenon, StepInv DEF FinalStep
<1> QED BY <1>1, IInvHolds, PTL DEF Spec, ExecutionFinal
-----------------------------------------------------------------------------
(* No task of an unselected node is started, unless a claim that was made   *)
(* in order to skip the node expires: its caller is dead or too slow.       *)
Prompt == Faults \cap {"skip", "slow"} = {}

(* A node that may be started: one that waits for work has an active edge.  *)
Chosen(n, nd) == Waits(n) => Selected(n, nd)

(* The pass p has claimed n and is about to record that it is skipped.      *)
Skips(p, n) ==
  p.cur = n /\ p.from = "schedule" /\ p.pc = "write" /\ p.next = "skipped"

(* A pass executes chosen nodes only, and records other results than a skip *)
(* for chosen nodes only.                                                   *)
BranchPass(p, nd) ==
  /\ p.pc = "execute" => Chosen(p.cur, nd)
  /\ p.pc = "write" =>
       /\ p.next = "skipped" => p.expect = "running" /\ p.from = "schedule"
       /\ p.next # "skipped" => Chosen(p.cur, nd)
       /\ p.from # "reconcile" => p.next # "running"
  /\ p.pc = "schedule" => \A n \in p.todo : Runnable(n, p.snap) \/ ShouldSkip(n, p.snap)
  /\ \A n \in Node : p.snap[n].link # "none" => Chosen(n, nd)

(* Work, links and stale claims belong to chosen nodes; a claimed node is   *)
(* chosen or about to be skipped.                                           *)
BranchInv ==
  /\ \A a \in Advancer : BranchPass(adv[a], node)
  /\ \A n \in Node : work[n] # "absent" => Selected(n, node)
  /\ \A n \in Node : node[n].link # "none" => Chosen(n, node)
  /\ \A n \in Node : node[n].status = "running" /\ node[n].link = "none" =>
       Chosen(n, node) \/ \E a \in Advancer : Skips(adv[a], n)

(* An active edge stays active: its source has succeeded for good.          *)
LEMMA SelectedStays ==
  ASSUME FinalStep
  PROVE  \A n \in Node : /\ Selected(n, node) => Selected(n, node')
                         /\ Chosen(n, node) => Chosen(n, node')
<1>1. \A m \in Node : node[m].status = "succeeded" => node'[m].status = "succeeded"
  BY DEF FinalStep, Closed
<1>2. \A n \in Node : Selected(n, node) => Selected(n, node')
  BY <1>1 DEF Selected, Active, Sources
<1> QED BY Zenon, <1>2 DEF Chosen

(* The parts of a step make up a step of the invariant.                     *)
LEMMA BranchAssemble ==
  ASSUME IInv, BranchInv, FinalStep, verdict' = verdict,
         \A a \in Advancer : adv'[a] = adv[a] \/ BranchPass(adv'[a], node'),
         \A n \in Node : work'[n] # "absent" => work[n] # "absent" \/ Selected(n, node'),
         \A n \in Node : node'[n].link # "none" => node[n].link # "none" \/ Chosen(n, node'),
         \A n \in Node : node'[n].status = "running" /\ node'[n].link = "none" =>
           \/ Chosen(n, node')
           \/ \E a \in Advancer : Skips(adv'[a], n)
           \/ /\ node[n].status = "running" /\ node[n].link = "none"
              /\ \A a \in Advancer : Skips(adv[a], n) => adv'[a] = adv[a]
  PROVE  BranchInv'
<1>1. \A n \in Node : /\ Selected(n, node) => Selected(n, node')
                      /\ Chosen(n, node) => Chosen(n, node')
  BY SelectedStays
<1>2. \A a \in Advancer : BranchPass(adv[a], node')
  <2> SUFFICES ASSUME NEW a \in Advancer
               PROVE  BranchPass(adv[a], node')
    OBVIOUS
  <2>1. BranchPass(adv[a], node)
    BY ZenonT(60) DEF BranchInv
  <2>2. adv[a].pc \in {"execute", "write"} => adv[a].cur \in Node
    BY DEF IInv, PassInv
  <2> QED BY Zenon, <1>1, <2>1, <2>2 DEF BranchPass
<1>3. \A a \in Advancer : BranchPass(adv'[a], node')
  BY Zenon, <1>2
<1>4. \A n \in Node : work'[n] # "absent" => Selected(n, node')
  BY Zenon, <1>1 DEF BranchInv
<1>5. \A n \in Node : node'[n].link # "none" => Chosen(n, node')
  BY Zenon, <1>1 DEF BranchInv
<1>6. \A n \in Node : node'[n].status = "running" /\ node'[n].link = "none" =>
        Chosen(n, node') \/ \E a \in Advancer : Skips(adv'[a], n)
  BY Zenon, <1>1 DEF BranchInv
<1>7. \A n : /\ Selected(n, node)' <=> Selected(n, node')
             /\ Chosen(n, node)' <=> Chosen(n, node')
  BY Zenon DEF Selected, Active, Chosen
<1>8. ASSUME NEW a \in Advancer
      PROVE  BranchPass(adv[a], node)' <=> BranchPass(adv'[a], node')
  <2>1. \A n : Selected(n, adv[a].snap)' <=> Selected(n, adv'[a].snap)
    BY Zenon DEF Selected, Active
  <2>2. \A n : /\ Runnable(n, adv[a].snap)' <=> Runnable(n, adv'[a].snap)
               /\ ShouldSkip(n, adv[a].snap)' <=> ShouldSkip(n, adv'[a].snap)
    BY Zenon, <2>1 DEF Runnable, ShouldSkip
  <2> QED BY Zenon, <1>7, <2>2 DEF BranchPass
<1> QED BY Zenon, <1>3, <1>4, <1>5, <1>6, <1>7, <1>8 DEF BranchInv, Skips

(* A pass that starts, ends or goes on to its next iteration.               *)
LEMMA BranchIdle ==
  ASSUME NEW x \in {"idle", "mark", "list", "again", "fail"}, NEW nd
  PROVE  BranchPass([Idle EXCEPT !.pc = x], nd) /\ BranchPass(Idle, nd)
  BY DEF BranchPass, Idle, Fresh

(* A pass that goes on with the rows it read, and claims nothing yet.       *)
LEMMA BranchMoves ==
  ASSUME NEW p, NEW q, NEW nd, BranchPass(p, nd), q.snap = p.snap,
         \/ q.pc \in {"list", "reconcile", "fail"}
         \/ q.pc = "schedule" /\ p.pc = "schedule" /\ q.todo \subseteq p.todo
  PROVE  BranchPass(q, nd)
  BY DEF BranchPass

(* A step of one pass that leaves nodes and work alone, and does not give   *)
(* up a skip.                                                               *)
LEMMA BranchQuiet ==
  ASSUME IInv, BranchInv, FinalStep, NEW a \in Advancer, NEW q,
         adv' = [adv EXCEPT ![a] = q], BranchPass(q, node),
         UNCHANGED <<node, work, verdict>>, \A n \in Node : ~Skips(adv[a], n)
  PROVE  BranchInv'
<1>1. \A b \in Advancer : /\ b = a => adv'[b] = q
                          /\ b # a => adv'[b] = adv[b]
  BY DEF IInv, TypeOK
<1>2. node' = node /\ work' = work /\ verdict' = verdict
  OBVIOUS
<1>3. \A b \in Advancer : adv'[b] = adv[b] \/ BranchPass(adv'[b], node')
  BY Zenon, <1>1, <1>2
<1>4. \A n \in Node : \A b \in Advancer : Skips(adv[b], n) => adv'[b] = adv[b]
  BY Zenon, <1>1
<1> QED BY Zenon, <1>2, <1>3, <1>4, BranchAssemble

(* Steps outside the passes.                                                *)
LEMMA BranchOutside ==
  ASSUME IInv, BranchInv, FinalStep, Prompt,
         \/ Start \/ Cancel
         \/ \E n \in Node : \/ WorkStarts(n) \/ WorkEnds(n) \/ WorkRetries(n)
                            \/ WorkCancelled(n) \/ WorkRevived(n) \/ WorkDeleted(n)
                            \/ DelayDue(n) \/ ClaimExpires(n)
  PROVE  BranchInv'
<1>0. TypeOK
  BY DEF IInv
<1>1. adv' = adv /\ verdict' = verdict
  BY DEF Start, Cancel, WorkStarts, WorkEnds, WorkRetries, WorkCancelled, WorkRevived,
         WorkDeleted, DelayDue, ClaimExpires, Work
<1>2. CASE node' = node
  <2>1. \A n \in Node : work'[n] # "absent" => work[n] # "absent"
    BY <1>0, <1>2 DEF TypeOK, Start, Cancel, WorkStarts, WorkEnds, WorkRetries, WorkCancelled,
                 WorkRevived, WorkDeleted, DelayDue, ClaimExpires, Work
  <2> QED BY Zenon, <1>1, <1>2, <2>1, BranchAssemble
<1>3. CASE Cancel
  <2>1. work' = work /\ node' = ClosedNodes
    BY <1>3 DEF Cancel
  <2>2. \A n \in Node : node'[n].link = node[n].link /\ node'[n].status \in Closed
    BY <1>0, <2>1 DEF TypeOK, ClosedNodes, NodeRow, Closed
  <2>3. \A n \in Node : node'[n].status # "running"
    BY <2>2 DEF Closed
  <2> QED BY Zenon, <1>1, <2>1, <2>2, <2>3, BranchAssemble
<1>4. ASSUME NEW n \in Node, ClaimExpires(n)
      PROVE  BranchInv'
  <2>1. /\ work' = work /\ node[n].status = "running" /\ node[n].link = "none"
        /\ \A m \in Node : m # n => node'[m] = node[m]
        /\ node'[n].status = node[n].status /\ node'[n].link = "stale"
    BY <1>0, <1>4 DEF ClaimExpires, TypeOK, NodeRow
  <2>2. ~\E a \in Advancer : Claims(a, n)
    BY <1>4 DEF ClaimExpires, Fault, Prompt
  <2>3. Chosen(n, node)
    BY ZenonT(60), <2>1, <2>2 DEF BranchInv, Skips, Claims
  <2>4. Chosen(n, node')
    BY Zenon, <2>3, SelectedStays
  <2>5. \A m \in Node : node'[m].link # "none" => node[m].link # "none" \/ Chosen(m, node')
    BY Zenon, <2>1, <2>4
  <2>6. \A m \in Node : node'[m].status = "running" /\ node'[m].link = "none" =>
          node[m].status = "running" /\ node[m].link = "none"
    BY <2>1
  <2> QED BY Zenon, <1>1, <2>1, <2>5, <2>6, BranchAssemble
<1> QED BY Zenon, <1>2, <1>3, <1>4
        DEF Start, WorkStarts, WorkEnds, WorkRetries, WorkCancelled, WorkRevived,
            WorkDeleted, DelayDue, Work

(* Reading the execution and the nodes, failing it, and the end of a pass.  *)
LEMMA BranchRead ==
  ASSUME IInv, BranchInv, FinalStep, Prompt, NEW a \in Advancer,
         \/ Begin(a) \/ Mark(a) \/ List(a) \/ LoopEnd(a) \/ Settle(a) \/ Finalize(a)
         \/ Abandon(a)
  PROVE  BranchInv'
<1> DEFINE p == adv[a]
<1>0. p \in Pass /\ PassInv(p, node, work) /\ BranchPass(p, node)
  BY DEF IInv, TypeOK, BranchInv
<1>1. UNCHANGED <<node, work, verdict>>
  BY DEF Begin, Mark, List, LoopEnd, Settle, Finalize, Abandon
<1>2. \A n \in Node : ~Skips(p, n)
  BY ZenonT(60) DEF Skips, Begin, Mark, List, LoopEnd, Settle, Finalize, Abandon, Fault, Prompt
<1>3. \A n \in Node : node[n].link # "none" => Chosen(n, node)
  BY DEF BranchInv
<1>4. CASE Begin(a) \/ LoopEnd(a) \/ Finalize(a) \/ Abandon(a)
  <2>1. PICK q : /\ adv' = [adv EXCEPT ![a] = q]
                 /\ q = Idle \/ \E x \in {"mark", "list"} : q = [Idle EXCEPT !.pc = x]
    BY Zenon, <1>4 DEF Begin, LoopEnd, Finalize, Abandon
  <2>2. BranchPass(q, node)
    <3>1. CASE q = Idle
      BY Zenon, <3>1, BranchIdle
    <3>2. ASSUME NEW x \in {"mark", "list"}, q = [Idle EXCEPT !.pc = x]
          PROVE  BranchPass(q, node)
      <4>1. x \in {"idle", "mark", "list", "again", "fail"}
        BY Zenon
      <4> QED BY Zenon, <3>2, <4>1, BranchIdle
    <3> QED BY Zenon, <2>1, <3>1, <3>2
  <2> QED BY Zenon, <1>1, <1>2, <2>1, <2>2, BranchQuiet
<1>5. CASE Mark(a)
  <2> DEFINE q == [p EXCEPT !.pc = "list"]
  <2>1. q.pc = "list" /\ q.snap = p.snap /\ adv' = [adv EXCEPT ![a] = q]
    BY <1>0, <1>5 DEF Mark, Pass
  <2> HIDE DEF q
  <2>2. BranchPass(q, node)
    BY Zenon, <1>0, <2>1, BranchMoves
  <2> QED BY Zenon, <1>1, <1>2, <2>1, <2>2, BranchQuiet
<1>6. CASE List(a)
  <2> DEFINE todo == {n \in Node : node[n].status \in {"queued", "running"}}
             q == [Idle EXCEPT !.pc = "reconcile", !.snap = node, !.todo = todo]
  <2>1. adv' = [adv EXCEPT ![a] = q]
    BY ZenonT(30), <1>6 DEF List
  <2>2. q.pc = "reconcile" /\ q.snap = node
    BY DEF Idle
  <2> HIDE DEF q
  <2>3. BranchPass(q, node)
    BY <1>3, <2>2 DEF BranchPass
  <2> QED BY Zenon, <1>1, <1>2, <2>1, <2>3, BranchQuiet
<1>7. CASE Settle(a)
  <2> DEFINE todo == {n \in Node : /\ node[n].status = "pending"
                                   /\ (Runnable(n, node) \/ ShouldSkip(n, node))}
             q == [Idle EXCEPT !.pc = "schedule", !.snap = node, !.todo = todo]
  <2>1. PICK r : /\ adv' = [adv EXCEPT ![a] = r]
                 /\ r \in {[Idle EXCEPT !.pc = "again"], [Idle EXCEPT !.pc = "fail"], q}
    BY Zenon, <1>7 DEF Settle
  <2>2. q.pc = "schedule" /\ q.snap = node /\ q.todo = todo
    BY DEF Idle
  <2>3. \A n \in todo : Runnable(n, node) \/ ShouldSkip(n, node)
    OBVIOUS
  <2> HIDE DEF q, todo
  <2>4. BranchPass(q, node)
    BY <1>3, <2>2, <2>3 DEF BranchPass
  <2>5. BranchPass(r, node)
    BY Zenon, <2>1, <2>4, BranchIdle
  <2> QED BY Zenon, <1>1, <1>2, <2>1, <2>5, BranchQuiet
<1> QED BY <1>4, <1>5, <1>6, <1>7

(* reconcileExternalNodes looks at rows with a link, which are chosen.      *)
LEMMA BranchReconcile ==
  ASSUME IInv, BranchInv, FinalStep, NEW a \in Advancer, NEW n \in Node, Reconcile(a, n)
  PROVE  BranchInv'
<1> DEFINE p == adv[a]
           r == p.snap[n]
           left == [p EXCEPT !.todo = @ \ {n}]
           w == [left EXCEPT !.pc = "write", !.cur = n, !.expect = r.status,
                             !.next = Observed(n), !.from = "reconcile"]
           x == [left EXCEPT !.pc = "execute", !.cur = n, !.from = "recover"]
           c == CASE r.link = "linked" /\ work[n] # "deleted" /\ Observed(n) # r.status -> w
                  [] r.link = "stale" -> x
                  [] OTHER -> left
<1>0. p \in Pass /\ BranchPass(p, node)
  BY DEF IInv, TypeOK, BranchInv
<1>1. p.pc = "reconcile" /\ UNCHANGED <<node, work, verdict>>
  BY DEF Reconcile
<1>2. \A m \in Node : ~Skips(p, m)
  BY <1>1 DEF Skips
<1>3. left \in Pass /\ left.snap = p.snap /\ left.pc = "reconcile"
  <2>1. p.todo \ {n} \in SUBSET Node
    BY <1>0 DEF Pass
  <2> QED BY Zenon, <1>0, <1>1, <2>1 DEF Pass
<1>4. adv' = [adv EXCEPT ![a] = c]
  BY Zenon DEF Reconcile
<1> HIDE DEF left
<1>5. BranchPass(left, node)
  BY Zenon, <1>0, <1>3, BranchMoves
<1>6. ASSUME r.link # "none" PROVE BranchPass(w, node) /\ BranchPass(x, node)
  <2>1. Chosen(n, node)
    BY Zenon, <1>0, <1>6 DEF BranchPass
  <2>2. /\ w.snap = p.snap /\ w.pc = "write" /\ w.cur = n /\ w.next = Observed(n)
        /\ w.from = "reconcile"
        /\ x.snap = p.snap /\ x.pc = "execute" /\ x.cur = n
    BY <1>3 DEF Pass
  <2>3. Observed(n) # "skipped"
    BY DEF Observed
  <2> HIDE DEF w, x
  <2> QED BY <1>0, <2>1, <2>2, <2>3 DEF BranchPass
<1> HIDE DEF w, x
<1>7. \/ c = w /\ r.link = "linked"
      \/ c = x /\ r.link = "stale"
      \/ c = left
  OBVIOUS
<1> HIDE DEF c
<1>8. r.link = "linked" \/ r.link = "stale" => r.link # "none"
  OBVIOUS
<1>9. BranchPass(c, node)
  BY Zenon, <1>5, <1>6, <1>7, <1>8
<1> QED BY Zenon, <1>1, <1>2, <1>4, <1>9, BranchQuiet

(* A step of one pass that moves only the row of n.                         *)
LEMMA BranchActive ==
  ASSUME IInv, BranchInv, FinalStep, NEW a \in Advancer, NEW n \in Node, NEW q,
         adv' = [adv EXCEPT ![a] = q], BranchPass(q, node'), verdict' = verdict,
         \A m \in Node : m # n => node'[m] = node[m] /\ ~Skips(adv[a], m),
         work'[n] # "absent" => work[n] # "absent" \/ Selected(n, node'),
         \A m \in Node : m # n => work'[m] = work[m],
         node'[n].link # "none" => node[n].link # "none" \/ Chosen(n, node'),
         node'[n].status = "running" /\ node'[n].link = "none" =>
           \/ Chosen(n, node')
           \/ Skips(q, n)
           \/ node'[n] = node[n] /\ ~Skips(adv[a], n)
  PROVE  BranchInv'
<1>1. \A b \in Advancer : /\ b = a => adv'[b] = q
                          /\ b # a => adv'[b] = adv[b]
  BY DEF IInv, TypeOK
<1>2. \A b \in Advancer : adv'[b] = adv[b] \/ BranchPass(adv'[b], node')
  BY Zenon, <1>1
<1>3. \A m \in Node : ~Skips(adv[a], m) =>
        \A b \in Advancer : Skips(adv[b], m) => adv'[b] = adv[b]
  BY Zenon, <1>1
<1>4. Skips(q, n) => \E b \in Advancer : Skips(adv'[b], n)
  BY Zenon, <1>1
<1>5. \A m \in Node : node'[m].status = "running" /\ node'[m].link = "none" =>
        \/ Chosen(m, node')
        \/ \E b \in Advancer : Skips(adv'[b], m)
        \/ /\ node[m].status = "running" /\ node[m].link = "none"
           /\ \A b \in Advancer : Skips(adv[b], m) => adv'[b] = adv[b]
  BY Zenon, <1>3, <1>4
<1>6. \A m \in Node : work'[m] # "absent" => work[m] # "absent" \/ Selected(m, node')
  BY Zenon
<1>7. \A m \in Node : node'[m].link # "none" => node[m].link # "none" \/ Chosen(m, node')
  BY Zenon
<1> QED BY Zenon, <1>2, <1>5, <1>6, <1>7, BranchAssemble

(* scheduleRunnableNodes decides on rows that still hold where it matters.  *)
LEMMA BranchSchedule ==
  ASSUME IInv, BranchInv, FinalStep, NEW a \in Advancer, NEW n \in Node, Schedule(a, n)
  PROVE  BranchInv'
<1> DEFINE p == adv[a]
           left == [p EXCEPT !.todo = @ \ {n}]
           w == [p EXCEPT !.pc = "write", !.cur = n, !.expect = "running",
                          !.next = "skipped", !.from = "schedule"]
           x == [p EXCEPT !.pc = "execute", !.cur = n, !.from = "schedule"]
<1>0. TypeOK /\ p \in Pass /\ PassInv(p, node, work) /\ BranchPass(p, node)
  BY DEF IInv, TypeOK, BranchInv
<1>1. /\ p.pc = "schedule" /\ n \in p.todo /\ work' = work /\ verdict' = verdict
      /\ Runnable(n, p.snap) \/ ShouldSkip(n, p.snap)
  BY <1>0 DEF Schedule, BranchPass
<1>2. /\ \A m \in Node : m # n => node'[m] = node[m]
      /\ node'[n] = IF node[n].status = "pending"
                    THEN [status |-> "running", link |-> "none"] ELSE node[n]
  BY ZenonT(60), <1>0 DEF Schedule, CAS, TypeOK
<1>3. \A m \in Node : ~Skips(p, m)
  BY <1>1 DEF Skips
<1>4. \A m \in Node : p.snap[m].link # "none" => Chosen(m, node')
  BY Zenon, <1>0, SelectedStays DEF BranchPass
<1>5. Runnable(n, p.snap) => Chosen(n, node')
  <2>1. ASSUME Selected(n, p.snap) PROVE Selected(n, node)
    <3>1. \A m \in Node : p.snap[m].status = "succeeded" => node[m].status = "succeeded"
      BY <1>0 DEF PassInv, Closed
    <3> QED BY ZenonT(60), <2>1, <3>1 DEF Selected, Active, Sources
  <2>2. Runnable(n, p.snap) => Chosen(n, node)
    BY ZenonT(60), <2>1 DEF Runnable, Chosen, Waits, External
  <2> QED BY Zenon, <2>2, SelectedStays
<1>6. BranchPass(left, node')
  <2>1. left.snap = p.snap /\ left.pc = p.pc /\ left.todo \subseteq p.todo
    BY ZenonT(60), <1>0 DEF Pass
  <2> HIDE DEF left
  <2> QED BY <1>0, <1>1, <1>4, <2>1 DEF BranchPass
<1>7. BranchPass(w, node') /\ Skips(w, n)
  <2>1. /\ w.snap = p.snap /\ w.pc = "write" /\ w.cur = n /\ w.expect = "running"
        /\ w.next = "skipped" /\ w.from = "schedule"
    BY ZenonT(60), <1>0 DEF Pass
  <2> HIDE DEF w
  <2> QED BY <1>4, <2>1 DEF BranchPass, Skips
<1>8. Runnable(n, p.snap) => BranchPass(x, node')
  <2>1. x.snap = p.snap /\ x.pc = "execute" /\ x.cur = n
    BY <1>0 DEF Pass
  <2> HIDE DEF x
  <2> QED BY <1>4, <1>5, <2>1 DEF BranchPass
<1>9. PICK q : /\ adv' = [adv EXCEPT ![a] = q]
               /\ \/ q = left /\ node[n].status # "pending"
                  \/ q = w
                  \/ q = x /\ ~ShouldSkip(n, p.snap)
  BY Zenon DEF Schedule
<1> HIDE DEF left, w, x
<1>10. BranchPass(q, node')
  BY Zenon, <1>1, <1>6, <1>7, <1>8, <1>9
<1>11. Chosen(n, node') \/ Skips(q, n) \/ node'[n] = node[n]
  BY Zenon, <1>1, <1>2, <1>5, <1>7, <1>9
<1>12. node'[n].link # "none" => node[n].link # "none"
  BY <1>2
<1> QED BY Zenon, <1>1, <1>2, <1>3, <1>9, <1>10, <1>11, <1>12, BranchActive

(* executeClaimedNode dispatches chosen nodes.                              *)
LEMMA BranchExecute ==
  ASSUME IInv, BranchInv, FinalStep, NEW a \in Advancer, Execute(a)
  PROVE  BranchInv'
<1> DEFINE p == adv[a]
           n == p.cur
<1>0. TypeOK /\ p \in Pass /\ PassInv(p, node, work) /\ BranchPass(p, node)
  BY DEF IInv, TypeOK, BranchInv
<1>1. p.pc = "execute" /\ n \in Node /\ node' = node /\ verdict' = verdict
  BY <1>0 DEF Execute, PassInv
<1>2. PICK s \in {"queued", "failed", "succeeded"} :
        /\ IF Kind[n] \in External THEN Dispatch(n, s)
           ELSE s = Evaluated(n) /\ UNCHANGED <<work, faults>>
        /\ adv' = [adv EXCEPT ![a] = [p EXCEPT !.pc = "write",
                                               !.expect = "running", !.next = s]]
  BY Zenon DEF Execute
<1>3. Chosen(n, node)
  BY Zenon, <1>0, <1>1 DEF BranchPass
<1>4. work' = work \/ (Kind[n] \in External /\ work' = Dispatched(n))
  BY Zenon, <1>2 DEF Dispatch
<1>5. /\ \A m \in Node : m # n => work'[m] = work[m]
      /\ work'[n] = work[n] \/ Selected(n, node')
  BY <1>0, <1>1, <1>3, <1>4 DEF TypeOK, Dispatched, Chosen, Waits
<1> DEFINE q == [p EXCEPT !.pc = "write", !.expect = "running", !.next = s]
<1>6. q.snap = p.snap /\ q.pc = "write" /\ q.cur = n /\ q.next = s
  BY <1>0 DEF Pass
<1>7. adv' = [adv EXCEPT ![a] = q]
  BY ZenonT(60), <1>2
<1> HIDE DEF q
<1>8. BranchPass(q, node')
  BY ZenonT(60), <1>0, <1>1, <1>3, <1>6 DEF BranchPass
<1>9. \A m \in Node : ~Skips(p, m)
  BY <1>1 DEF Skips
<1> HIDE DEF n
<1> QED BY ZenonT(60), <1>1, <1>5, <1>7, <1>8, <1>9, BranchActive

(* updateNode links chosen nodes only, and carries out every skip.          *)
LEMMA BranchWrite ==
  ASSUME IInv, BranchInv, FinalStep, NEW a \in Advancer, Write(a)
  PROVE  BranchInv'
<1> DEFINE p == adv[a]
           n == p.cur
           won == node[n].status = p.expect
           linked == p.from = "reconcile" \/ p.next = "queued"
           r == [status |-> p.next, link |-> IF linked THEN "linked" ELSE "none"]
           q == Returned(p, won)
<1>0. TypeOK /\ p \in Pass /\ PassInv(p, node, work) /\ BranchPass(p, node)
  BY DEF IInv, TypeOK, BranchInv
<1>1. p.pc = "write" /\ n \in Node /\ verdict' = verdict
  BY <1>0 DEF Write, PassInv
<1>2. /\ node' = [node EXCEPT ![n] = IF won THEN r ELSE node[n]]
      /\ work' = IF won /\ Kind[n] = "delay" /\ p.next = "queued"
                 THEN [work EXCEPT ![n] = "pending"] ELSE work
      /\ adv' = [adv EXCEPT ![a] = q]
  BY Zenon DEF Write, CAS
<1>3. /\ p.next = "skipped" => p.expect = "running" /\ p.from = "schedule"
      /\ p.next # "skipped" => Chosen(n, node')
      /\ p.from # "reconcile" => p.next # "running"
  BY Zenon, <1>0, <1>1, SelectedStays DEF BranchPass
<1>4. /\ \A m \in Node : m # n => node'[m] = node[m] /\ work'[m] = work[m]
      /\ won => node'[n].status = p.next
                /\ node'[n].link = IF linked THEN "linked" ELSE "none"
      /\ ~won => node'[n] = node[n]
  BY <1>0, <1>1, <1>2 DEF TypeOK
<1>5. \A m \in Node : m # n => ~Skips(p, m)
  BY ZenonT(60) DEF Skips
<1>6. work'[n] # "absent" => work[n] # "absent" \/ Selected(n, node')
  BY ZenonT(60), <1>2, <1>3 DEF Chosen, Waits
<1>7. node'[n].link # "none" => node[n].link # "none" \/ Chosen(n, node')
  BY ZenonT(60), <1>3, <1>4
<1>8. node'[n].status = "running" /\ node'[n].link = "none" =>
        node'[n] = node[n] /\ ~Skips(p, n)
  BY <1>3, <1>4 DEF Skips
<1>9. BranchPass(q, node')
  <2> DEFINE q1 == [p EXCEPT !.pc = "reconcile", !.cur = None, !.changed = @ \/ won]
             q2 == [p EXCEPT !.pc = "fail"]
             q3 == [p EXCEPT !.pc = "reconcile", !.cur = None, !.changed = TRUE]
             q4 == [Idle EXCEPT !.pc = "again"]
  <2>1. q = CASE p.from = "reconcile" -> q1
              [] p.next = "failed" -> q2
              [] p.from = "recover" -> q3
              [] OTHER -> q4
    BY Zenon DEF Returned
  <2>2. /\ q1.snap = p.snap /\ q1.pc = "reconcile"
        /\ q2.snap = p.snap /\ q2.pc = "fail"
        /\ q3.snap = p.snap /\ q3.pc = "reconcile"
    BY <1>0 DEF Pass
  <2>3. \A m \in Node : p.snap[m].link # "none" => Chosen(m, node')
    BY Zenon, <1>0, SelectedStays DEF BranchPass
  <2>4. BranchPass(q4, node')
    BY Zenon, BranchIdle
  <2> HIDE DEF q, q1, q2, q3, q4
  <2>5. q \in {q1, q2, q3, q4}
    BY ZenonT(60), <2>1
  <2>6. BranchPass(q1, node') /\ BranchPass(q2, node') /\ BranchPass(q3, node')
    BY <2>2, <2>3 DEF BranchPass
  <2> QED BY Zenon, <2>4, <2>5, <2>6
<1> HIDE DEF n, q
<1> QED BY ZenonT(60), <1>1, <1>2, <1>4, <1>5, <1>6, <1>7, <1>8, <1>9, BranchActive

(* failExecution closes all nodes, or none.                                 *)
LEMMA BranchFail ==
  ASSUME IInv, BranchInv, FinalStep, NEW a \in Advancer, FailExecution(a)
  PROVE  BranchInv'
<1> DEFINE p == adv[a]
           q3 == [p EXCEPT !.pc = "reconcile", !.cur = None, !.changed = TRUE]
           q4 == [Idle EXCEPT !.pc = "again"]
           c == CASE p.from = "loop" -> Idle
                  [] p.from = "recover" -> q3
                  [] OTHER -> q4
<1>0. TypeOK /\ p \in Pass /\ BranchPass(p, node)
  BY DEF IInv, TypeOK, BranchInv
<1>1. p.pc = "fail" /\ verdict' = verdict /\ work' = work
  BY DEF FailExecution
<1>2. adv' = [adv EXCEPT ![a] = c]
  BY Zenon DEF FailExecution
<1>3. \A n \in Node : /\ node'[n].link = node[n].link
                      /\ node'[n].status = "running" => node[n].status = "running"
  BY <1>0 DEF FailExecution, TypeOK, ClosedNodes, NodeRow
<1>4. \A m \in Node : ~Skips(p, m)
  BY <1>1 DEF Skips
<1>5. BranchPass(c, node')
  <2>1. q3.snap = p.snap /\ q3.pc = "reconcile"
    BY <1>0 DEF Pass
  <2>2. \A m \in Node : p.snap[m].link # "none" => Chosen(m, node')
    BY Zenon, <1>0, SelectedStays DEF BranchPass
  <2>3. BranchPass(q4, node') /\ BranchPass(Idle, node')
    BY Zenon, BranchIdle
  <2> HIDE DEF q3, q4
  <2>4. c \in {Idle, q3, q4}
    BY ZenonT(60)
  <2>5. BranchPass(q3, node')
    BY <2>1, <2>2 DEF BranchPass
  <2> HIDE DEF c
  <2> QED BY Zenon, <2>3, <2>4, <2>5
<1> HIDE DEF c
<1>6. \A b \in Advancer : /\ b = a => adv'[b] = c
                          /\ b # a => adv'[b] = adv[b]
  BY <1>0, <1>2 DEF TypeOK
<1>7. \A b \in Advancer : adv'[b] = adv[b] \/ BranchPass(adv'[b], node')
  BY Zenon, <1>5, <1>6
<1>8. \A n \in Node : \A b \in Advancer : Skips(adv[b], n) => adv'[b] = adv[b]
  BY Zenon, <1>4, <1>6
<1> QED BY Zenon, <1>1, <1>3, <1>7, <1>8, BranchAssemble

(* docs/taskcanvas.md:642, for any workflow graph and any number of passes: *)
(* no task, delivery or delay of a node on an unselected branch is started, *)
(* if a pass that claims a node to skip it does so within the lease of the  *)
(* claim.                                                                   *)
THEOREM BranchRespectedHolds == Prompt => (Spec => []BranchRespected)
<1> SUFFICES ASSUME Prompt PROVE Spec => []BranchRespected
  OBVIOUS
<1>1. Init => BranchInv
  <2> SUFFICES ASSUME Init PROVE BranchInv
    OBVIOUS
  <2>1. \A n \in Node : node[n].status = "pending" /\ node[n].link = "none" /\ work[n] = "absent"
    BY DEF Init, Fresh
  <2>2. \A a \in Advancer : BranchPass(adv[a], node)
    BY Zenon, BranchIdle DEF Init
  <2> QED BY <2>1, <2>2 DEF BranchInv
<1>2. IInv /\ BranchInv /\ [Next]_vars => BranchInv'
  <2> SUFFICES ASSUME IInv, BranchInv, [Next]_vars PROVE BranchInv'
    OBVIOUS
  <2>1. FinalStep
    BY StepInv
  <2>2. CASE UNCHANGED vars
    BY Zenon, <2>1, <2>2, BranchAssemble DEF vars
  <2>3. ASSUME NEW a \in Advancer, Advance(a) \/ Abandon(a) PROVE BranchInv'
    BY Zenon, <2>1, <2>3, BranchRead, BranchReconcile, BranchSchedule, BranchExecute,
       BranchWrite, BranchFail DEF Advance
  <2> QED BY Zenon, <2>1, <2>2, <2>3, BranchOutside DEF Next
<1>3. BranchInv => BranchRespected
  BY ZenonT(60), TaskCanvasAssumption DEF BranchInv, BranchRespected, Selected, Active, Sources
<1> QED BY <1>1, <1>2, <1>3, IInvHolds, PTL DEF Spec
-----------------------------------------------------------------------------
(* A node becomes terminal only with its work, unless a dispatch fails or   *)
(* somebody retries work that the node has recorded as failed.              *)
Answered == Faults \cap {"dispatch", "reply", "retry"} = {}

Over == {"completed", "failed", "deleted"}

(* The pass p is about to end a node that has work outside of TaskCanvas.   *)
Ends(p) == p.pc = "write" /\ p.next \in {"succeeded", "failed"} /\ Kind[p.cur] \in External

MirrorInv == \A a \in Advancer : Ends(adv[a]) => work[adv[a].cur] \in Over

(* Work that is over stays over.                                            *)
LEMMA OverStays ==
  ASSUME IInv, Answered, Next
  PROVE  \A n \in Node : Kind[n] \in External /\ work[n] \in Over => work'[n] \in Over
<1>0. TypeOK
  BY DEF IInv
<1>1. CASE work' = work
  BY ZenonT(60), <1>1
<1>2. ASSUME NEW m \in Node,
             \/ WorkStarts(m) \/ WorkEnds(m) \/ WorkRetries(m) \/ WorkCancelled(m)
             \/ WorkRevived(m) \/ WorkDeleted(m) \/ DelayDue(m)
      PROVE  \A n \in Node : Kind[n] \in External /\ work[n] \in Over => work'[n] \in Over
  BY ZenonT(60), <1>0, <1>2 DEF TypeOK, WorkStarts, WorkEnds, WorkRetries, WorkCancelled, WorkRevived,
                    WorkDeleted, DelayDue, Work, Fault, Answered, Over, External
<1>3. ASSUME NEW a \in Advancer, Write(a)
      PROVE  \A n \in Node : Kind[n] \in External /\ work[n] \in Over => work'[n] \in Over
  <2>1. work' = work \/ (Kind[adv[a].cur] = "delay" /\ work' = [work EXCEPT ![adv[a].cur] = "pending"])
    BY Zenon, <1>3 DEF Write
  <2> QED BY <1>0, <2>1 DEF TypeOK, External
<1>4. ASSUME NEW a \in Advancer, Execute(a)
      PROVE  \A n \in Node : Kind[n] \in External /\ work[n] \in Over => work'[n] \in Over
  <2>1. work' = work \/ work' = Dispatched(adv[a].cur)
    BY Zenon, <1>4 DEF Execute, Dispatch
  <2> QED BY <1>0, <2>1 DEF TypeOK, Dispatched, Over
<1>5. \/ work' = work
      \/ \E m \in Node : \/ WorkStarts(m) \/ WorkEnds(m) \/ WorkRetries(m) \/ WorkCancelled(m)
                         \/ WorkRevived(m) \/ WorkDeleted(m) \/ DelayDue(m)
      \/ \E a \in Advancer : Write(a) \/ Execute(a)
  BY ZenonT(60) DEF Next, Advance, Start, Cancel, Begin, Mark, List, LoopEnd, Settle, Reconcile,
               Schedule, FailExecution, Finalize, Abandon, ClaimExpires
<1> QED BY Zenon, <1>1, <1>2, <1>3, <1>4, <1>5

(* A pass that comes to its update of a node ends it for a reason: the work *)
(* it has observed, since no dispatch fails.                                *)
LEMMA MirrorPass ==
  ASSUME IInv, Answered, Next, NEW a \in Advancer, Ends(adv'[a]), adv'[a] # adv[a]
  PROVE  adv'[a].cur \in Node /\ work[adv'[a].cur] \in Over
<1> DEFINE p == adv[a]
           q == adv'[a]
<1>0. TypeOK /\ p \in Pass /\ PassInv(p, node, work)
  BY DEF IInv, TypeOK
<1>1. ASSUME NEW n \in Node, Reconcile(a, n)
      PROVE  q.cur \in Node /\ work[q.cur] \in Over
  <2> DEFINE left == [p EXCEPT !.todo = @ \ {n}]
             r == p.snap[n]
             w == [left EXCEPT !.pc = "write", !.cur = n, !.expect = r.status,
                               !.next = Observed(n), !.from = "reconcile"]
             x == [left EXCEPT !.pc = "execute", !.cur = n, !.from = "recover"]
             c == CASE r.link = "linked" /\ work[n] # "deleted" /\ Observed(n) # r.status -> w
                    [] r.link = "stale" -> x
                    [] OTHER -> left
  <2>1. adv' = [adv EXCEPT ![a] = c]
    BY Zenon, <1>1 DEF Reconcile
  <2>2. q = c
    BY <1>0, <2>1 DEF TypeOK
  <2>3. left \in Pass /\ left.pc = "reconcile"
    <3>1. p.todo \ {n} \in SUBSET Node /\ p.pc = "reconcile"
      BY <1>0, <1>1 DEF Pass, Reconcile
    <3> QED BY Zenon, <1>0, <3>1 DEF Pass
  <2> HIDE DEF left
  <2>4. x.pc = "execute" /\ w.cur = n /\ w.next = Observed(n)
    BY <2>3 DEF Pass
  <2> HIDE DEF w, x
  <2>5. c \in {w, x, left}
    OBVIOUS
  <2> HIDE DEF c
  <2>6. q = w
    BY <2>2, <2>3, <2>4, <2>5 DEF Ends
  <2> QED BY <2>4, <2>6 DEF Ends, Observed, Over
<1>2. ASSUME NEW n \in Node, Schedule(a, n)
      PROVE  FALSE
  <2> DEFINE left == [p EXCEPT !.todo = @ \ {n}]
             w == [p EXCEPT !.pc = "write", !.cur = n, !.expect = "running",
                            !.next = "skipped", !.from = "schedule"]
             x == [p EXCEPT !.pc = "execute", !.cur = n, !.from = "schedule"]
  <2>1. \E c \in {left, w, x} : adv' = [adv EXCEPT ![a] = c]
    BY Zenon, <1>2 DEF Schedule
  <2>2. q \in {left, w, x}
    BY <1>0, <2>1 DEF TypeOK
  <2>3. left.pc = "schedule" /\ w.next = "skipped" /\ x.pc = "execute"
    BY <1>0, <1>2 DEF Pass, Schedule
  <2> HIDE DEF left, w, x
  <2> QED BY <2>2, <2>3 DEF Ends
<1>3. ASSUME Execute(a) PROVE FALSE
  <2>1. PICK s \in {"queued", "failed", "succeeded"} :
          /\ Kind[p.cur] \in External => Dispatch(p.cur, s)
          /\ adv' = [adv EXCEPT ![a] = [p EXCEPT !.pc = "write",
                                                 !.expect = "running", !.next = s]]
    BY Zenon, <1>3 DEF Execute
  <2>2. q.cur = p.cur /\ q.next = s
    BY <1>0, <2>1 DEF TypeOK, Pass
  <2>3. s = "queued"
    BY <2>1, <2>2 DEF Ends, Dispatch, Fault, Answered
  <2> QED BY <2>2, <2>3 DEF Ends
<1>4. ASSUME \/ Begin(a) \/ Mark(a) \/ List(a) \/ LoopEnd(a) \/ Settle(a) \/ FailExecution(a)
             \/ Finalize(a) \/ Abandon(a) \/ Write(a)
      PROVE  FALSE
  <2>1. /\ Idle.pc = "idle"
        /\ \A x : [Idle EXCEPT !.pc = x].pc = x
    BY DEF Idle
  <2>2. /\ \A x : [p EXCEPT !.pc = x].pc = x
        /\ \A x, m, c : [p EXCEPT !.pc = x, !.cur = m, !.changed = c].pc = x
    BY <1>0 DEF Pass
  <2>3. PICK c : /\ adv' = [adv EXCEPT ![a] = c]
                 /\ c.pc \in {"idle", "mark", "list", "again", "reconcile", "schedule", "fail"}
    <3>1. CASE LoopEnd(a) \/ Finalize(a) \/ Abandon(a)
      <4>1. adv' = [adv EXCEPT ![a] = Idle]
        BY Zenon, <3>1 DEF LoopEnd, Finalize, Abandon
      <4> QED BY ZenonT(60), <2>1, <4>1
    <3>2. CASE Mark(a)
      <4> DEFINE c == [p EXCEPT !.pc = "list"]
      <4>1. adv' = [adv EXCEPT ![a] = c]
        BY <3>2 DEF Mark
      <4>2. c.pc = "list"
        BY <2>2
      <4> HIDE DEF c
      <4> QED BY ZenonT(60), <4>1, <4>2
    <3>3. CASE Begin(a)
      <4>1. PICK x \in {"mark", "list"} : adv' = [adv EXCEPT ![a] = [Idle EXCEPT !.pc = x]]
        BY Zenon, <3>3 DEF Begin
      <4>2. [Idle EXCEPT !.pc = x].pc = x
        BY <2>1
      <4> QED BY Zenon, <4>1, <4>2
    <3>4. CASE List(a)
      <4> DEFINE todo == {n \in Node : node[n].status \in {"queued", "running"}}
                 c == [Idle EXCEPT !.pc = "reconcile", !.snap = node, !.todo = todo]
      <4>1. adv' = [adv EXCEPT ![a] = c]
        BY ZenonT(30), <3>4 DEF List
      <4>2. c.pc = "reconcile"
        BY DEF Idle
      <4> HIDE DEF c
      <4> QED BY ZenonT(60), <4>1, <4>2
    <3>5. CASE Settle(a)
      <4> DEFINE todo == {n \in Node : /\ node[n].status = "pending"
                                       /\ (Runnable(n, node) \/ ShouldSkip(n, node))}
                 d == [Idle EXCEPT !.pc = "schedule", !.snap = node, !.todo = todo]
                 d1 == [Idle EXCEPT !.pc = "again"]
                 d2 == [Idle EXCEPT !.pc = "fail"]
      <4>1. PICK c \in {d1, d2, d} : adv' = [adv EXCEPT ![a] = c]
        BY Zenon, <3>5 DEF Settle
      <4>2. d.pc = "schedule" /\ d1.pc = "again" /\ d2.pc = "fail"
        BY DEF Idle
      <4> HIDE DEF d, d1, d2
      <4> QED BY ZenonT(60), <4>1, <4>2
    <3>6. CASE FailExecution(a)
      <4> DEFINE c == CASE p.from = "loop" -> Idle
                        [] p.from = "recover" -> [p EXCEPT !.pc = "reconcile", !.cur = None,
                                                           !.changed = TRUE]
                        [] OTHER -> [Idle EXCEPT !.pc = "again"]
      <4>1. adv' = [adv EXCEPT ![a] = c]
        BY Zenon, <3>6 DEF FailExecution
      <4>2. c.pc \in {"idle", "again", "reconcile"}
        BY <2>1, <2>2
      <4> QED BY Zenon, <4>1, <4>2
    <3>7. CASE Write(a)
      <4> DEFINE won == node[p.cur].status = p.expect
      <4>1. adv' = [adv EXCEPT ![a] = Returned(p, won)]
        BY Zenon, <3>7 DEF Write
      <4>2. Returned(p, won).pc \in {"again", "reconcile", "fail"}
        BY <2>1, <2>2 DEF Returned
      <4> QED BY Zenon, <4>1, <4>2
    <3> QED BY Zenon, <1>4, <3>1, <3>2, <3>3, <3>4, <3>5, <3>6, <3>7
  <2>4. q = c
    BY <1>0, <2>3 DEF TypeOK
  <2> QED BY <2>3, <2>4 DEF Ends
<1>5. ASSUME NEW b \in Advancer, Advance(b) \/ Abandon(b) PROVE a = b
  <2>1. \E c : adv' = [adv EXCEPT ![b] = c]
    BY Zenon, <1>5 DEF Advance, Begin, Mark, List, LoopEnd, Settle, Execute, Write,
                       FailExecution, Finalize, Reconcile, Schedule, Abandon
  <2> QED BY <1>0, <2>1 DEF TypeOK
<1>6. \E b \in Advancer : Advance(b) \/ Abandon(b)
  BY Zenon DEF Next, Start, Cancel, WorkStarts, WorkEnds, WorkRetries, WorkCancelled,
               WorkRevived, WorkDeleted, DelayDue, ClaimExpires, Work
<1> QED BY Zenon, <1>1, <1>2, <1>3, <1>4, <1>5, <1>6 DEF Advance

(* Only updateNode makes an open node succeed or fail.                      *)
LEMMA Ending ==
  ASSUME IInv, MirrorInv, Next, NEW n \in Node, Kind[n] \in External,
         node[n].status \in Open, node'[n].status \in {"succeeded", "failed"}
  PROVE  work[n] \in Over
<1>0. TypeOK
  BY DEF IInv
<1>1. node' # node /\ node' # ClosedNodes
  BY <1>0 DEF TypeOK, ClosedNodes, NodeRow, Open
<1>2. ASSUME NEW a \in Advancer, NEW m \in Node, Schedule(a, m) PROVE FALSE
  <2> DEFINE r == [status |-> "running", link |-> "none"]
  <2>1. node' = [node EXCEPT ![m] = IF node[m].status = "pending" THEN r ELSE node[m]]
    BY Zenon, <1>2 DEF Schedule, CAS
  <2>2. r.status = "running"
    OBVIOUS
  <2> HIDE DEF r
  <2>3. node'[n].status = node[n].status \/ node'[n].status = "running"
    BY <1>0, <2>1, <2>2 DEF TypeOK
  <2> QED BY <2>3 DEF Open
<1>3. ~\E m \in Node : ClaimExpires(m)
  BY <1>0 DEF ClaimExpires, TypeOK, NodeRow, Open
<1>4. PICK a \in Advancer : Write(a)
  BY ZenonT(60), <1>1, <1>2, <1>3 DEF Next, Advance, Start, Cancel, Begin, Mark, List, LoopEnd,
       Settle, Reconcile, Execute, FailExecution, Finalize, Abandon, WorkStarts, WorkEnds,
       WorkRetries, WorkCancelled, WorkRevived, WorkDeleted, DelayDue, Work
<1>5. adv[a].pc = "write" /\ adv[a].cur = n /\ node'[n].status = adv[a].next
  BY <1>0, <1>4 DEF Write, CAS, TypeOK, Open
<1> QED BY <1>5 DEF MirrorInv, Ends

(* docs/taskcanvas.md:790, for any workflow graph and any number of passes: *)
(* a node becomes terminal only when its task or delivery is, if dispatches *)
(* do not fail and nobody retries failed work by hand.                      *)
THEOREM MirrorsWorkHolds == Answered => (Spec => MirrorsWork)
<1> SUFFICES ASSUME Answered PROVE Spec => MirrorsWork
  OBVIOUS
<1>1. Init => MirrorInv
  BY DEF Init, MirrorInv, Ends, Idle
<1>2. IInv /\ MirrorInv /\ [Next]_vars => MirrorInv'
  <2> SUFFICES ASSUME IInv, MirrorInv, [Next]_vars, NEW a \in Advancer, Ends(adv'[a])
               PROVE  work'[adv'[a].cur] \in Over
    BY Zenon DEF MirrorInv, Ends
  <2>1. CASE UNCHANGED vars
    BY Zenon, <2>1 DEF vars, MirrorInv, Ends
  <2>2. CASE Next
    <3>1. adv'[a].cur \in Node /\ Kind[adv'[a].cur] \in External /\ work[adv'[a].cur] \in Over
      <4>1. CASE adv'[a] = adv[a]
        <5>1. Ends(adv[a]) /\ adv[a].cur \in Node
          BY ZenonT(60), <4>1 DEF Ends, IInv, PassInv
        <5> QED BY ZenonT(60), <4>1, <5>1 DEF MirrorInv, Ends
      <4>2. CASE adv'[a] # adv[a]
        BY ZenonT(60), <2>2, <4>2, MirrorPass DEF Ends
      <4> QED BY <4>1, <4>2
    <3> QED BY Zenon, <2>2, <3>1, OverStays
  <2> QED BY <2>1, <2>2
<1>3. IInv /\ MirrorInv /\ [Next]_vars =>
        [\A n \in Node :
           /\ Kind[n] \in External
           /\ node[n].status \in Open /\ node'[n].status \in {"succeeded", "failed"}
           => work[n] \in {"absent", "completed", "failed", "deleted"}]_vars
  <2> SUFFICES ASSUME IInv, MirrorInv, Next, NEW n \in Node, Kind[n] \in External,
                      node[n].status \in Open, node'[n].status \in {"succeeded", "failed"}
               PROVE  work[n] \in {"absent", "completed", "failed", "deleted"}
    BY Zenon
  <2>1. work[n] \in Over
    BY Ending
  <2> QED BY <2>1 DEF Over
<1> QED BY <1>1, <1>2, <1>3, IInvHolds, PTL DEF Spec, MirrorsWork
-----------------------------------------------------------------------------
(* What a pass has linked, or is about to link, has its task, delivery or   *)
(* timer: wk is the work.  It never cancels a node by itself.               *)
LinkPass(p, wk) ==
  /\ p.pc = "execute" => p.from # "reconcile"
  /\ p.pc = "write" =>
       /\ p.next # "cancelled"
       /\ p.from = "reconcile" => wk[p.cur] # "absent"
       /\ p.next = "queued" /\ Kind[p.cur] # "delay" => wk[p.cur] # "absent"
  /\ \A n \in Node : p.snap[n].link = "linked" => wk[n] # "absent"

(* A node that waits is linked to work that was started, and an execution   *)
(* that has not ended has no cancelled node.                                *)
LinkInv ==
  /\ \A a \in Advancer : LinkPass(adv[a], work)
  /\ \A n \in Node : node[n].link = "linked" => work[n] # "absent"
  /\ \A n \in Node : node[n].status = "queued" => node[n].link = "linked"
  /\ exec \notin ExecTerminal => \A n \in Node : node[n].status # "cancelled"

(* The parts of a step make up a step of the invariant.                     *)
LEMMA LinkAssemble ==
  ASSUME IInv, LinkInv, FinalStep,
         \A n \in Node : work[n] # "absent" => work'[n] # "absent",
         \A a \in Advancer : adv'[a] = adv[a] \/ LinkPass(adv'[a], work'),
         \A n \in Node : node'[n].link = "linked" => node[n].link = "linked" \/ work'[n] # "absent",
         \A n \in Node : node'[n].status = "queued" =>
           node'[n].link = "linked" \/ node'[n] = node[n],
         \A n \in Node : node'[n].status = "cancelled" =>
           node[n].status = "cancelled" \/ exec' \in ExecTerminal
  PROVE  LinkInv'
<1>1. \A a \in Advancer : LinkPass(adv[a], work')
  <2> SUFFICES ASSUME NEW a \in Advancer
               PROVE  LinkPass(adv[a], work')
    OBVIOUS
  <2>1. LinkPass(adv[a], work)
    BY Zenon DEF LinkInv
  <2>2. adv[a].pc = "write" => adv[a].cur \in Node
    BY Zenon DEF IInv, PassInv
  <2> QED BY Zenon, <2>1, <2>2 DEF LinkPass
<1>2. \A a \in Advancer : LinkPass(adv'[a], work')
  BY Zenon, <1>1
<1>3. \A n \in Node : node'[n].link = "linked" => work'[n] # "absent"
  BY Zenon DEF LinkInv
<1>4. \A n \in Node : node'[n].status = "queued" => node'[n].link = "linked"
  BY Zenon DEF LinkInv
<1>5. exec' \notin ExecTerminal => \A n \in Node : node'[n].status # "cancelled"
  BY Zenon DEF LinkInv, FinalStep
<1> QED BY Zenon, <1>2, <1>3, <1>4, <1>5 DEF LinkInv

(* A pass that starts, ends or goes on to its next iteration.               *)
LEMMA LinkIdle ==
  ASSUME NEW x \in {"idle", "mark", "list", "again", "fail"}, NEW wk
  PROVE  LinkPass([Idle EXCEPT !.pc = x], wk) /\ LinkPass(Idle, wk)
  BY DEF LinkPass, Idle, Fresh

(* A pass that goes on with the rows it read, or with rows it just read.    *)
LEMMA LinkMoves ==
  ASSUME NEW p, NEW q, NEW wk, LinkPass(p, wk), q.snap = p.snap,
         q.pc \notin {"execute", "write"}
  PROVE  LinkPass(q, wk)
  BY Zenon DEF LinkPass

(* A step of one pass that leaves nodes and work alone.                     *)
LEMMA LinkQuiet ==
  ASSUME IInv, LinkInv, FinalStep, NEW a \in Advancer, NEW q,
         adv' = [adv EXCEPT ![a] = q], LinkPass(q, work), UNCHANGED <<node, work>>
  PROVE  LinkInv'
<1>1. node' = node /\ work' = work
  OBVIOUS
<1>2. \A b \in Advancer : adv'[b] = adv[b] \/ LinkPass(adv'[b], work')
  BY Zenon, <1>1 DEF IInv, TypeOK
<1> QED BY Zenon, <1>1, <1>2, LinkAssemble

(* Steps outside the passes.                                                *)
LEMMA LinkOutside ==
  ASSUME IInv, LinkInv, FinalStep,
         \/ Start \/ Cancel
         \/ \E n \in Node : \/ WorkStarts(n) \/ WorkEnds(n) \/ WorkRetries(n)
                            \/ WorkCancelled(n) \/ WorkRevived(n) \/ WorkDeleted(n)
                            \/ DelayDue(n) \/ ClaimExpires(n)
  PROVE  LinkInv'
<1>0. node \in [Node -> NodeRow] /\ work \in [Node -> WorkState]
  BY DEF IInv, TypeOK
<1>1. adv' = adv
  BY Zenon DEF Start, Cancel, WorkStarts, WorkEnds, WorkRetries, WorkCancelled, WorkRevived,
               WorkDeleted, DelayDue, ClaimExpires, Work
<1>2. ASSUME NEW n \in Node, NEW from, NEW to, Work(n, from, to), to # "absent"
      PROVE  LinkInv'
  <2>1. node' = node /\ work' = [work EXCEPT ![n] = to]
    BY Zenon, <1>2 DEF Work
  <2>2. \A m \in Node : work[m] # "absent" => work'[m] # "absent"
    BY Zenon, <1>0, <1>2, <2>1
  <2> QED BY Zenon, <1>1, <2>1, <2>2, LinkAssemble
<1>3. CASE Start
  BY Zenon, <1>1, <1>3, LinkAssemble DEF Start
<1>4. CASE Cancel
  <2>1. work' = work /\ node' = ClosedNodes /\ exec' \in ExecTerminal
    BY <1>4 DEF Cancel, ExecTerminal
  <2>2. \A n \in Node : node'[n].link = node[n].link /\ node'[n].status # "queued"
    BY <1>0, <2>1 DEF ClosedNodes, NodeRow, Open
  <2> QED BY Zenon, <1>1, <2>1, <2>2, LinkAssemble
<1>5. ASSUME NEW n \in Node, ClaimExpires(n)
      PROVE  LinkInv'
  <2>1. /\ work' = work
        /\ \A m \in Node : m # n => node'[m] = node[m]
        /\ node'[n].status = "running" /\ node'[n].link = "stale"
    BY <1>0, <1>5 DEF ClaimExpires, NodeRow
  <2>2. \A m \in Node : /\ node'[m].link = "linked" => node[m].link = "linked"
                        /\ node'[m].status = "queued" => node'[m] = node[m]
                        /\ node'[m].status = "cancelled" => node[m].status = "cancelled"
    BY <2>1
  <2> QED BY Zenon, <1>1, <2>1, <2>2, LinkAssemble
<1>6. ASSUME NEW n \in Node,
             \/ WorkStarts(n) \/ WorkEnds(n) \/ WorkRetries(n) \/ WorkCancelled(n)
             \/ WorkRevived(n) \/ WorkDeleted(n) \/ DelayDue(n)
      PROVE  LinkInv'
  <2>1. \E to \in {"pending", "processing", "completed", "failed", "deleted"} :
          \E from : Work(n, from, to)
    BY Zenon, <1>6 DEF WorkStarts, WorkEnds, WorkRetries, WorkCancelled, WorkRevived,
                       WorkDeleted, DelayDue
  <2>2. \A to \in {"pending", "processing", "completed", "failed", "deleted"} : to # "absent"
    OBVIOUS
  <2> QED BY Zenon, <1>2, <2>1, <2>2
<1> QED BY Zenon, <1>3, <1>4, <1>5, <1>6

(* Reading the execution and the nodes, and the end of a pass.              *)
LEMMA LinkRead ==
  ASSUME IInv, LinkInv, FinalStep, NEW a \in Advancer,
         \/ Begin(a) \/ Mark(a) \/ List(a) \/ LoopEnd(a) \/ Settle(a) \/ Finalize(a)
         \/ Abandon(a)
  PROVE  LinkInv'
<1> DEFINE p == adv[a]
<1>0. p \in Pass /\ LinkPass(p, work)
  BY DEF IInv, TypeOK, LinkInv
<1>1. UNCHANGED <<node, work>>
  BY Zenon DEF Begin, Mark, List, LoopEnd, Settle, Finalize, Abandon
<1>2. ASSUME NEW todo, NEW x \in {"reconcile", "schedule"}
      PROVE  LinkPass([Idle EXCEPT !.pc = x, !.snap = node, !.todo = todo], work)
  <2> DEFINE q == [Idle EXCEPT !.pc = x, !.snap = node, !.todo = todo]
  <2>1. q.pc = x /\ q.snap = node /\ x \notin {"execute", "write"}
    BY DEF Idle
  <2> HIDE DEF q
  <2>2. LinkPass(q, work)
    BY Zenon, <2>1 DEF LinkPass, LinkInv
  <2> QED BY <2>2 DEF q
<1>3. PICK q : /\ adv' = [adv EXCEPT ![a] = q]
               /\ LinkPass(q, work)
  <2>1. CASE Begin(a) \/ LoopEnd(a) \/ Finalize(a) \/ Abandon(a)
    <3>1. PICK q : /\ adv' = [adv EXCEPT ![a] = q]
                   /\ q = Idle \/ \E x \in {"mark", "list"} : q = [Idle EXCEPT !.pc = x]
      BY Zenon, <2>1 DEF Begin, LoopEnd, Finalize, Abandon
    <3>2. \A x \in {"mark", "list"} : x \in {"idle", "mark", "list", "again", "fail"}
      OBVIOUS
    <3> QED BY Zenon, <3>1, <3>2, LinkIdle
  <2>2. CASE Mark(a)
    <3> DEFINE q == [p EXCEPT !.pc = "list"]
    <3>1. q.pc = "list" /\ q.snap = p.snap /\ adv' = [adv EXCEPT ![a] = q]
      BY <1>0, <2>2 DEF Mark, Pass
    <3> HIDE DEF q
    <3>2. q.pc \notin {"execute", "write"}
      BY <3>1
    <3> QED BY Zenon, <1>0, <3>1, <3>2, LinkMoves
  <2>3. CASE List(a)
    BY Zenon, <1>2, <2>3 DEF List
  <2>4. CASE Settle(a)
    BY Zenon, <1>2, <2>4, LinkIdle DEF Settle
  <2> QED BY <2>1, <2>2, <2>3, <2>4
<1> QED BY Zenon, <1>1, <1>3, LinkQuiet

(* reconcileExternalNodes follows a link, or takes over a stale claim.      *)
LEMMA LinkReconcile ==
  ASSUME IInv, LinkInv, FinalStep, NEW a \in Advancer, NEW n \in Node, Reconcile(a, n)
  PROVE  LinkInv'
<1> DEFINE p == adv[a]
           r == p.snap[n]
           left == [p EXCEPT !.todo = @ \ {n}]
           w == [left EXCEPT !.pc = "write", !.cur = n, !.expect = r.status,
                             !.next = Observed(n), !.from = "reconcile"]
           x == [left EXCEPT !.pc = "execute", !.cur = n, !.from = "recover"]
<1>0. p \in Pass /\ LinkPass(p, work) /\ p.pc = "reconcile"
  BY DEF IInv, TypeOK, LinkInv, Reconcile
<1>1. left.pc = "reconcile" /\ left.snap = p.snap
  BY <1>0 DEF Pass
<1>2. /\ w.pc = "write" /\ w.snap = p.snap /\ w.cur = n /\ w.next = Observed(n)
      /\ w.from = "reconcile"
  BY <1>0 DEF Pass
<1>3. x.pc = "execute" /\ x.snap = p.snap /\ x.from = "recover"
  BY <1>0 DEF Pass
<1>4. PICK q : /\ adv' = [adv EXCEPT ![a] = q]
               /\ \/ q = w /\ r.link = "linked"
                  \/ q = x
                  \/ q = left
  <2> DEFINE c == CASE r.link = "linked" /\ work[n] # "deleted" /\ Observed(n) # r.status -> w
                    [] r.link = "stale" -> x
                    [] OTHER -> left
  <2>1. adv' = [adv EXCEPT ![a] = c]
    BY Zenon DEF Reconcile
  <2> HIDE DEF w, x, left
  <2>2. (c = w /\ r.link = "linked") \/ c = x \/ c = left
    OBVIOUS
  <2> QED BY Zenon, <2>1, <2>2
<1> HIDE DEF w, x, left
<1>5. LinkPass(left, work)
  BY ZenonT(60), <1>0, <1>1, LinkMoves
<1>6. LinkPass(x, work)
  BY ZenonT(60), <1>0, <1>3 DEF LinkPass
<1>7. r.link = "linked" => LinkPass(w, work)
  <2>1. Observed(n) # "cancelled"
    BY DEF Observed
  <2> QED BY <1>0, <1>2, <2>1 DEF LinkPass
<1>8. LinkPass(q, work)
  BY Zenon, <1>4, <1>5, <1>6, <1>7
<1> QED BY Zenon, <1>4, <1>8, LinkQuiet DEF Reconcile

(* scheduleRunnableNodes claims a node without a link.                      *)
LEMMA LinkSchedule ==
  ASSUME IInv, LinkInv, FinalStep, NEW a \in Advancer, NEW n \in Node, Schedule(a, n)
  PROVE  LinkInv'
<1> DEFINE p == adv[a]
           claimed == [status |-> "running", link |-> "none"]
           left == [p EXCEPT !.todo = @ \ {n}]
           w == [p EXCEPT !.pc = "write", !.cur = n, !.expect = "running",
                          !.next = "skipped", !.from = "schedule"]
           x == [p EXCEPT !.pc = "execute", !.cur = n, !.from = "schedule"]
<1>0. p \in Pass /\ LinkPass(p, work) /\ p.pc = "schedule" /\ work' = work
  BY DEF IInv, TypeOK, LinkInv, Schedule
<1>1. left.pc = "schedule" /\ left.snap = p.snap
  BY <1>0 DEF Pass
<1>2. w.pc = "write" /\ w.snap = p.snap /\ w.next = "skipped" /\ w.from = "schedule"
  BY <1>0 DEF Pass
<1>3. x.pc = "execute" /\ x.snap = p.snap /\ x.from = "schedule"
  BY <1>0 DEF Pass
<1>4. PICK q : adv' = [adv EXCEPT ![a] = q] /\ q \in {left, w, x}
  BY Zenon DEF Schedule
<1> HIDE DEF left, w, x
<1>5. LinkPass(left, work) /\ LinkPass(w, work) /\ LinkPass(x, work)
  BY <1>0, <1>1, <1>2, <1>3 DEF LinkPass
<1>6. \A b \in Advancer : adv'[b] = adv[b] \/ LinkPass(adv'[b], work')
  BY Zenon, <1>0, <1>4, <1>5 DEF IInv, TypeOK
<1>7. \A m \in Node : node'[m] = node[m] \/ node'[m] = claimed
  BY Zenon DEF Schedule, CAS, IInv, TypeOK
<1>8. claimed.status = "running" /\ claimed.link = "none"
  OBVIOUS
<1> HIDE DEF claimed
<1>9. \A m \in Node : /\ node'[m].link = "linked" => node[m].link = "linked"
                      /\ node'[m].status = "queued" => node'[m] = node[m]
                      /\ node'[m].status = "cancelled" => node[m].status = "cancelled"
  BY <1>7, <1>8
<1> QED BY Zenon, <1>0, <1>6, <1>9, LinkAssemble

(* executeClaimedNode dispatches before it queues.                          *)
LEMMA LinkExecute ==
  ASSUME IInv, LinkInv, FinalStep, NEW a \in Advancer, Execute(a)
  PROVE  LinkInv'
<1> DEFINE p == adv[a]
           n == p.cur
<1>0. /\ p \in Pass /\ LinkPass(p, work) /\ p.pc = "execute" /\ node' = node
      /\ work \in [Node -> WorkState]
  BY ZenonT(60) DEF IInv, TypeOK, LinkInv, Execute
<1>1. n \in Node
  BY <1>0 DEF IInv, PassInv
<1>2. PICK s \in {"queued", "failed", "succeeded"} :
        /\ IF Kind[n] \in External THEN Dispatch(n, s)
           ELSE s = Evaluated(n) /\ UNCHANGED <<work, faults>>
        /\ adv' = [adv EXCEPT ![a] = [p EXCEPT !.pc = "write",
                                               !.expect = "running", !.next = s]]
  BY Zenon DEF Execute
<1> DEFINE q == [p EXCEPT !.pc = "write", !.expect = "running", !.next = s]
<1>3. /\ q.snap = p.snap /\ q.pc = "write" /\ q.cur = n /\ q.next = s /\ q.from = p.from
      /\ adv' = [adv EXCEPT ![a] = q]
  BY <1>0, <1>2 DEF Pass
<1> HIDE DEF q
<1>4. work' = work \/ work' = Dispatched(n)
  BY Zenon, <1>2 DEF Dispatch
<1>5. Dispatched(n)[n] # "absent" /\ \A m \in Node : work[m] # "absent" => Dispatched(n)[m] # "absent"
  BY <1>0, <1>1 DEF Dispatched
<1>6. \A m \in Node : work[m] # "absent" => work'[m] # "absent"
  BY Zenon, <1>4, <1>5
<1>7. s = "queued" /\ Kind[n] # "delay" => work'[n] # "absent"
  <2>1. CASE Kind[n] \in External
    <3>1. s = "queued" => work' = Dispatched(n)
      BY <1>2, <2>1 DEF Dispatch
    <3> QED BY Zenon, <1>5, <3>1
  <2>2. CASE Kind[n] \notin External
    BY ZenonT(60), <1>2, <2>2 DEF Evaluated
  <2> QED BY <2>1, <2>2
<1>8. LinkPass(q, work')
  <2>1. p.from # "reconcile" /\ s # "cancelled"
    BY <1>0 DEF LinkPass
  <2>2. \A m \in Node : p.snap[m].link = "linked" => work'[m] # "absent"
    BY Zenon, <1>0, <1>6 DEF LinkPass
  <2> QED BY <1>3, <1>7, <2>1, <2>2 DEF LinkPass
<1>9. \A b \in Advancer : adv'[b] = adv[b] \/ LinkPass(adv'[b], work')
  BY Zenon, <1>3, <1>8 DEF IInv, TypeOK
<1> QED BY Zenon, <1>0, <1>6, <1>9, LinkAssemble

(* updateNode links a node to work that was started, and starts the timer   *)
(* of a delay as it links it.                                               *)
LEMMA LinkWrite ==
  ASSUME IInv, LinkInv, FinalStep, NEW a \in Advancer, Write(a)
  PROVE  LinkInv'
<1> DEFINE p == adv[a]
           n == p.cur
           won == node[n].status = p.expect
           linked == p.from = "reconcile" \/ p.next = "queued"
           r == [status |-> p.next, link |-> IF linked THEN "linked" ELSE "none"]
<1>0. /\ p \in Pass /\ LinkPass(p, work) /\ p.pc = "write" /\ n \in Node
      /\ work \in [Node -> WorkState] /\ node \in [Node -> NodeRow]
  BY ZenonT(60) DEF IInv, TypeOK, LinkInv, Write, PassInv
<1>1. /\ node' = [node EXCEPT ![n] = IF won THEN r ELSE node[n]]
      /\ work' = IF won /\ Kind[n] = "delay" /\ p.next = "queued"
                 THEN [work EXCEPT ![n] = "pending"] ELSE work
      /\ adv' = [adv EXCEPT ![a] = Returned(p, won)]
  BY Zenon DEF Write, CAS
<1>2. r.status = p.next /\ r.link = IF linked THEN "linked" ELSE "none"
  BY ZenonT(60)
<1>3. p.next # "cancelled"
  BY ZenonT(60), <1>0 DEF LinkPass
<1> HIDE DEF r
<1>4. \A m \in Node : work[m] # "absent" => work'[m] # "absent"
  BY <1>0, <1>1
<1>5. \A m \in Node : m # n => node'[m] = node[m]
  BY Zenon, <1>0, <1>1
<1>6. ~won => node'[n] = node[n]
  BY Zenon, <1>0, <1>1
<1>7. won => node'[n] = r
  BY Zenon, <1>0, <1>1
<1>8. won /\ linked => work'[n] # "absent"
  <2>1. CASE Kind[n] = "delay" /\ p.next = "queued"
    <3>1. won => work' = [work EXCEPT ![n] = "pending"]
      BY Zenon, <1>1, <2>1
    <3> QED BY <1>0, <3>1
  <2>2. CASE ~(Kind[n] = "delay" /\ p.next = "queued")
    <3>1. linked => work[n] # "absent"
      BY Zenon, <1>0, <2>2 DEF LinkPass
    <3> QED BY Zenon, <1>0, <1>4, <3>1
  <2> QED BY ZenonT(60), <2>1, <2>2
<1>9. r.status = "queued" => r.link = "linked"
  BY <1>2
<1>10. r.link = "linked" => linked
  BY <1>2
<1> HIDE DEF won, linked
<1>11. \A m \in Node :
         /\ node'[m].link = "linked" => node[m].link = "linked" \/ work'[m] # "absent"
         /\ node'[m].status = "queued" => node'[m].link = "linked" \/ node'[m] = node[m]
         /\ node'[m].status = "cancelled" => node[m].status = "cancelled"
  BY Zenon, <1>2, <1>3, <1>5, <1>6, <1>7, <1>8, <1>9, <1>10
<1>12. LinkPass(p, work')
  BY Zenon, <1>0, <1>4 DEF LinkPass
<1>13. LinkPass(Returned(p, won), work')
  <2> DEFINE b == p.changed \/ won
             q1 == [p EXCEPT !.pc = "reconcile", !.cur = None, !.changed = b]
             q2 == [p EXCEPT !.pc = "fail"]
             q3 == [p EXCEPT !.pc = "reconcile", !.cur = None, !.changed = TRUE]
             q4 == [Idle EXCEPT !.pc = "again"]
  <2>1. /\ q1.pc = "reconcile" /\ q1.snap = p.snap
        /\ q2.pc = "fail" /\ q2.snap = p.snap
        /\ q3.pc = "reconcile" /\ q3.snap = p.snap
    BY <1>0 DEF Pass
  <2>2. Returned(p, won) = CASE p.from = "reconcile" -> q1
                             [] p.next = "failed" -> q2
                             [] p.from = "recover" -> q3
                             [] OTHER -> q4
    BY Zenon DEF Returned
  <2>3. LinkPass(q4, work')
    BY Zenon, LinkIdle
  <2> HIDE DEF q1, q2, q3, q4
  <2>4. LinkPass(q1, work') /\ LinkPass(q2, work') /\ LinkPass(q3, work')
    BY <1>12, <2>1, LinkMoves
  <2>5. Returned(p, won) \in {q1, q2, q3, q4}
    BY <2>2
  <2> QED BY Zenon, <2>3, <2>4, <2>5
<1>14. \A c \in Advancer : adv'[c] = adv[c] \/ LinkPass(adv'[c], work')
  BY Zenon, <1>1, <1>13 DEF IInv, TypeOK
<1> QED BY Zenon, <1>4, <1>11, <1>14, LinkAssemble

(* failExecution cancels the open nodes of an execution that it ends.       *)
LEMMA LinkFail ==
  ASSUME IInv, LinkInv, FinalStep, NEW a \in Advancer, FailExecution(a)
  PROVE  LinkInv'
<1> DEFINE p == adv[a]
           q3 == [p EXCEPT !.pc = "reconcile", !.cur = None, !.changed = TRUE]
           q4 == [Idle EXCEPT !.pc = "again"]
<1>0. p \in Pass /\ LinkPass(p, work) /\ work' = work /\ node \in [Node -> NodeRow]
  BY DEF IInv, TypeOK, LinkInv, FailExecution
<1>1. LinkPass(q3, work)
  <2>1. q3.pc = "reconcile" /\ q3.snap = p.snap
    BY <1>0 DEF Pass
  <2> HIDE DEF q3
  <2> QED BY <1>0, <2>1, LinkMoves
<1>2. LinkPass(q4, work) /\ LinkPass(Idle, work)
  BY Zenon, LinkIdle
<1>3. PICK q : adv' = [adv EXCEPT ![a] = q] /\ q \in {Idle, q3, q4}
  <2> DEFINE c == CASE p.from = "loop" -> Idle
                    [] p.from = "recover" -> q3
                    [] OTHER -> q4
  <2>1. adv' = [adv EXCEPT ![a] = c]
    BY Zenon DEF FailExecution
  <2> HIDE DEF q3, q4
  <2>2. c \in {Idle, q3, q4}
    OBVIOUS
  <2> QED BY Zenon, <2>1, <2>2
<1> HIDE DEF q3, q4
<1>4. \A b \in Advancer : adv'[b] = adv[b] \/ LinkPass(adv'[b], work')
  BY Zenon, <1>0, <1>1, <1>2, <1>3 DEF IInv, TypeOK
<1>5. node' = node \/ (node' = ClosedNodes /\ exec' = "failed")
  BY Zenon DEF FailExecution, CASExec
<1>6. \A m \in Node : ClosedNodes[m].link = node[m].link /\ ClosedNodes[m].status # "queued"
  BY <1>0 DEF ClosedNodes, NodeRow, Open
<1>7. "failed" \in ExecTerminal
  BY DEF ExecTerminal
<1>8. \A m \in Node :
        /\ node'[m].link = node[m].link
        /\ node'[m].status = "queued" => node'[m] = node[m]
        /\ node'[m].status = "cancelled" => node[m].status = "cancelled" \/ exec' \in ExecTerminal
  BY Zenon, <1>5, <1>6, <1>7
<1> QED BY Zenon, <1>0, <1>4, <1>8, LinkAssemble

(* An execution that has not ended can be driven on, or one of its nodes is *)
(* linked to a task, delivery or timer that was started: no pass that dies  *)
(* (TaskCanvasAssumption aside, nothing is assumed of the faults), lost     *)
(* reply or unselected branch leaves AdvanceExecution with nothing to do.   *)
(* A linked task that is then deleted is the one thing not excluded.        *)
THEOREM NeverStuckHolds == Spec => []NeverStuck
<1>1. Init => LinkInv
  <2> SUFFICES ASSUME Init PROVE LinkInv
    OBVIOUS
  <2>1. \A n \in Node : node[n].status = "pending" /\ node[n].link = "none"
    BY DEF Init, Fresh
  <2>2. \A a \in Advancer : LinkPass(adv[a], work)
    BY Zenon, LinkIdle DEF Init
  <2> QED BY <2>1, <2>2 DEF LinkInv
<1>2. IInv /\ LinkInv /\ [Next]_vars => LinkInv'
  <2> SUFFICES ASSUME IInv, LinkInv, [Next]_vars PROVE LinkInv'
    OBVIOUS
  <2>1. FinalStep
    BY Zenon, StepInv
  <2>2. CASE UNCHANGED vars
    BY Zenon, <2>1, <2>2, LinkAssemble DEF vars
  <2>3. CASE Next
    BY Zenon, <2>1, <2>3, LinkOutside, LinkRead, LinkReconcile, LinkSchedule, LinkExecute,
       LinkWrite, LinkFail DEF Next, Advance
  <2> QED BY <2>2, <2>3
<1>3. IInv /\ LinkInv => NeverStuck
  <2> SUFFICES ASSUME IInv, LinkInv, exec \in ExecActive, ~Complete(node)
               PROVE  \E n \in Node :
                        \/ node[n].status = "failed"
                        \/ /\ node[n].status = "pending"
                           /\ Runnable(n, node) \/ ShouldSkip(n, node)
                        \/ node[n].status = "running" /\ node[n].link # "linked"
                        \/ /\ node[n].status \in {"queued", "running"}
                           /\ node[n].link = "linked" /\ work[n] # "absent"
    BY Zenon DEF NeverStuck
  <2> DEFINE D == {n \in Node : node[n].status \in {"succeeded", "skipped"}}
  <2>1. D \in (SUBSET Node) \ {Node}
    BY Zenon DEF Complete
  <2>2. PICK n \in Node \ D : Sources(n) \subseteq D
    BY Zenon, <2>1, TaskCanvasAssumption
  <2>3. Resolved(n, node)
    BY Zenon, <2>2 DEF Resolved
  <2>4. Kind[n] # "trigger" => Sources(n) # {}
    BY Zenon, TaskCanvasAssumption
  <2>5. Runnable(n, node) \/ ShouldSkip(n, node)
    BY Zenon, <2>3, <2>4 DEF Runnable, ShouldSkip
  <2>6. node[n].status \in {"pending", "queued", "running", "failed"}
    <3>1. node[n].status \in Open \cup Closed
      BY DEF IInv, TypeOK, NodeRow
    <3>2. node[n].status # "cancelled"
      BY DEF LinkInv, ExecActive, ExecTerminal
    <3> QED BY <2>2, <3>1, <3>2 DEF Open, Closed
  <2>7. /\ node[n].status = "queued" => node[n].link = "linked"
        /\ node[n].link = "linked" => work[n] # "absent"
    BY Zenon DEF LinkInv
  <2> HIDE DEF D
  <2> QED BY <2>5, <2>6, <2>7
<1> QED BY <1>1, <1>2, <1>3, IInvHolds, PTL DEF Spec
=============================================================================
