-------------------------- MODULE WorkflowValidation --------------------------
(***************************************************************************)
(* The two filters a TaskCanvas definition passes: parseWorkflowDefinition,  *)
(* before it is stored, and ValidateWorkflowDefinition, before it is         *)
(* published.  The nodes and edges of the request are taken as the parser    *)
(* meets them.  The searches take nodes and edges in any order, and errors   *)
(* are kept without their paths, so the order of the two lists is left out.  *)
(* Names, positions and lengths are data.  A task stands for webhooks and    *)
(* delays too: the validator tells them apart by their configs only.         *)
(***************************************************************************)
EXTENDS Naturals, Sequences, FiniteSets

CONSTANTS NodeId, EdgeId,
          Condition,   \* what edge conditions hold: null, an object with or
          None         \* without a boolean branch, or another JSON value

ASSUME ValidationAssumption ==
  /\ Condition \subseteq {"null", "branch", "object", "other"}
  /\ None \notin NodeId

VARIABLES nodes, edges,  \* definition.Nodes and definition.Edges
          pc,
          errors,        \* the codes of validationErrors
          queue, reachable,
          state, stack, hasCycle

vars == <<nodes, edges, pc, errors, queue, reachable, state, stack, hasCycle>>

(* Whether a config parses is asked of every node but triggers; here tasks  *)
(* stand for all of them.                                                   *)
Node == [id : NodeId, type : {"task"}, config : {"good", "bad"}]
        \cup [id : NodeId, type : {"trigger", "condition"}, config : {"good"}]
Edge == [id : EdgeId, from : NodeId, to : NodeId, condition : Condition]

Ids == {n.id : n \in nodes}
Triggers == {n.id : n \in {m \in nodes : m.type = "trigger"}}
Conditions == {n.id : n \in {m \in nodes : m.type = "condition"}}

(* A frame of the recursive visit: a node, and the targets left to look at. *)
Frame == [id : NodeId, todo : SUBSET NodeId]

Codes == {"missing_trigger", "missing_action", "invalid_node_config",
          "invalid_edge_reference", "self_loop", "duplicate_edge",
          "unsupported_config_shape", "invalid_condition_branch",
          "trigger_has_incoming_edge", "orphan_node", "unreachable_node",
          "cycle_detected"}

(* Types; what is stored has unique ids and no dangling edge.               *)
TypeOK ==
  /\ nodes \subseteq Node /\ \A m, n \in nodes : m.id = n.id => m = n
  /\ edges \subseteq Edge /\ \A e, f \in edges : e.id = f.id => e = f
  /\ \A e \in edges : {e.from, e.to} \subseteq Ids
  /\ pc \in {"nodes", "edges", "rejected", "reach", "cycle", "done"}
  /\ errors \subseteq Codes \ {"invalid_edge_reference"}
  /\ queue \subseteq reachable /\ reachable \subseteq Ids
  /\ state \in [NodeId -> {"unvisited", "visiting", "visited"}]
  /\ stack \in Seq(Frame)
  /\ hasCycle \in BOOLEAN

Init ==
  /\ nodes = {} /\ edges = {} /\ pc = "nodes" /\ errors = {}
  /\ queue = {} /\ reachable = {}
  /\ state = [n \in NodeId |-> "unvisited"] /\ stack = <<>> /\ hasCycle = FALSE
-----------------------------------------------------------------------------
(* parseWorkflowDefinition.                                                 *)

Reject == pc' = "rejected" /\ nodes' = {} /\ edges' = {}

ParseNode ==
  /\ pc = "nodes"
  /\ \E n \in Node :
       IF n.id \in Ids THEN Reject
                       ELSE nodes' = nodes \cup {n} /\ UNCHANGED <<edges, pc>>
  /\ UNCHANGED <<errors, queue, reachable, state, stack, hasCycle>>

Accepted(e) == e.id \notin {f.id : f \in edges} /\ {e.from, e.to} \subseteq Ids

ParseEdge ==
  /\ pc \in {"nodes", "edges"}
  /\ \E e \in Edge :
       IF Accepted(e) THEN edges' = edges \cup {e} /\ pc' = "edges" /\ UNCHANGED nodes
                      ELSE Reject
  /\ UNCHANGED <<errors, queue, reachable, state, stack, hasCycle>>
-----------------------------------------------------------------------------
(* ValidateWorkflowDefinition.                                              *)

Adjacent(n) == {e.to : e \in {f \in edges : f.from = n}} \cap Ids

When(broken, code) == IF broken THEN {code} ELSE {}

NodeErrors ==
  When(Triggers = {}, "missing_trigger")
  \cup When(Ids = Triggers, "missing_action")
  \cup When(\E n \in nodes : n.type # "trigger" /\ n.config = "bad", "invalid_node_config")

(* Mutant: any object will do.                                              *)
IsBranchObject(condition) == condition # "other"

(* parseWorkflowBranch: no condition, or one with a boolean branch.         *)
IsBranch(condition) == condition \in {"null", "branch"}

EdgeErrors ==
  UNION {When({e.from, e.to} \cap Ids # {e.from, e.to}, "invalid_edge_reference")
         \cup When(e.from = e.to, "self_loop")
         \cup When(\E f \in edges : f # e /\ f.from = e.from /\ f.to = e.to, "duplicate_edge")
         \cup When(e.condition = "other", "unsupported_config_shape")
         \cup When(e.from \in Conditions /\ ~IsBranch(e.condition), "invalid_condition_branch")
         : e \in edges}

(* incoming and degree count the edges between existing nodes.              *)
DegreeErrors ==
  LET E == {e \in edges : {e.from, e.to} \subseteq Ids} IN
  When(\E e \in E : e.to \in Triggers, "trigger_has_incoming_edge")
  \cup When(\E n \in Ids : \A e \in E : n \notin {e.from, e.to}, "orphan_node")

CheckElements ==
  /\ pc \in {"nodes", "edges"}
  /\ errors' = NodeErrors \cup EdgeErrors \cup DegreeErrors
  /\ reachable' = Triggers /\ queue' = Triggers
  /\ pc' = "reach"
  /\ UNCHANGED <<nodes, edges, state, stack, hasCycle>>

(* Mutant: nodes that were reached before are queued again.                 *)
FoundAgain(n) == Adjacent(n)

Found(n) == Adjacent(n) \ reachable

Reach ==
  /\ pc = "reach"
  /\ \E current \in queue :
       /\ reachable' = reachable \cup Found(current)
       /\ queue' = (queue \ {current}) \cup Found(current)
  /\ UNCHANGED <<nodes, edges, pc, errors, state, stack, hasCycle>>

Reached ==
  /\ pc = "reach"
  /\ queue = {}
  /\ errors' = errors \cup When(Ids \ (Triggers \cup reachable) # {}, "unreachable_node")
  /\ pc' = "cycle"
  /\ UNCHANGED <<nodes, edges, queue, reachable, state, stack, hasCycle>>

(* visit(n); it returns at once when a cycle is known.                      *)
Visit(n, below) ==
  IF hasCycle
  THEN stack' = below /\ UNCHANGED state
  ELSE /\ stack' = <<[id |-> n, todo |-> Adjacent(n)]>> \o below
       /\ state' = [state EXCEPT ![n] = "visiting"]

VisitRoot ==
  /\ pc = "cycle" /\ stack = <<>> /\ ~hasCycle
  /\ \E n \in Ids : state[n] = "unvisited" /\ Visit(n, <<>>)
  /\ UNCHANGED <<nodes, edges, pc, errors, queue, reachable, hasCycle>>

(* Mutant: any node met before closes a cycle.                              *)
ClosesCycleAny(n) == state[n] # "unvisited"

ClosesCycle(n) == state[n] = "visiting"

VisitTarget ==
  /\ pc = "cycle" /\ stack # <<>>
  /\ LET top == Head(stack)
         Rest(n) == <<[top EXCEPT !.todo = @ \ {n}]>> \o Tail(stack)
     IN  \E n \in top.todo :
           CASE ClosesCycle(n) -> /\ hasCycle' = TRUE
                                  /\ stack' = Tail(stack)
                                  /\ UNCHANGED state
             [] ~ClosesCycle(n) /\ state[n] = "unvisited" ->
                  Visit(n, Rest(n)) /\ UNCHANGED hasCycle
             [] OTHER -> stack' = Rest(n) /\ UNCHANGED <<state, hasCycle>>
  /\ UNCHANGED <<nodes, edges, pc, errors, queue, reachable>>

VisitReturn ==
  /\ pc = "cycle" /\ stack # <<>>
  /\ Head(stack).todo = {}
  /\ state' = [state EXCEPT ![Head(stack).id] = "visited"]
  /\ stack' = Tail(stack)
  /\ UNCHANGED <<nodes, edges, pc, errors, queue, reachable, hasCycle>>

Visited ==
  /\ pc = "cycle" /\ stack = <<>>
  /\ hasCycle \/ \A n \in Ids : state[n] # "unvisited"
  /\ errors' = errors \cup When(hasCycle, "cycle_detected")
  /\ pc' = "done"
  /\ UNCHANGED <<nodes, edges, queue, reachable, state, stack, hasCycle>>

Returned == pc \in {"rejected", "done"} /\ UNCHANGED vars

Next == \/ ParseNode \/ ParseEdge \/ CheckElements \/ Reach \/ Reached
        \/ VisitRoot \/ VisitTarget \/ VisitReturn \/ Visited \/ Returned

Spec == Init /\ [][Next]_vars
-----------------------------------------------------------------------------
(* What the searches are to find, without a search: the smallest set that   *)
(* contains the triggers and is closed under edges, and the absence of a    *)
(* set of nodes that each lead to another one of the set.                   *)
Successors(S) == {e.to : e \in {f \in edges : f.from \in S}}

Closed(S) == Successors(S) \subseteq S

FromTriggers ==
  {n \in Ids : \A S \in SUBSET Ids : Triggers \subseteq S /\ Closed(S) => n \in S}

Acyclic == \A S \in SUBSET Ids : S # {} => \E n \in S : Successors({n}) \cap S = {}

(* The breadth-first search of ValidateWorkflowDefinition                   *)
(* (workflow_validation.go:148) reports an unreachable node exactly if some *)
(* node is out of reach of the triggers, and its depth-first search (:180)  *)
(* a cycle exactly if there is one, in whatever order they visit nodes.     *)
SearchesExact ==
  pc = "done" => /\ "unreachable_node" \in errors <=> FromTriggers # Ids
                 /\ "cycle_detected" \in errors <=> ~Acyclic

(* What docs/taskcanvas.md:531 lists for a publishable graph.               *)
Publishable ==
  /\ Triggers # {} /\ Triggers # Ids
  /\ \A e \in edges : e.to \notin Triggers
  /\ FromTriggers = Ids /\ Acyclic
  /\ \A n \in Ids : \E e \in edges : n \in {e.from, e.to}
  /\ \A e, f \in edges : e.from = f.from /\ e.to = f.to => e = f
  /\ \A n \in nodes : n.type = "trigger" \/ n.config = "good"
  /\ \A e \in edges : \/ e.condition \in {"null", "branch"}
                      \/ e.condition = "object" /\ e.from \notin Conditions

(* AdvanceExecution starts a node when all its predecessors are done:       *)
(* whatever part of the graph is done, there is a node to start next, and   *)
(* one that waits for nothing is a trigger.                                 *)
Schedulable ==
  \A D \in (SUBSET Ids) \ {Ids} :
    \E n \in Ids \ D : /\ \A e \in edges : e.to = n => e.from \in D
                       /\ (\A e \in edges : e.to # n) => n \in Triggers

(* ValidateWorkflowDefinition accepts a stored definition exactly if it is  *)
(* publishable as documented, no execution of what it accepts gets stuck    *)
(* in AdvanceExecution (workflow_execution_service.go:446), and what the    *)
(* parser let through (workflow_service.go:238) has no dangling edge.       *)
ValidExactly == pc = "done" => /\ errors = {} <=> Publishable
                               /\ errors = {} => Schedulable
                               /\ "invalid_edge_reference" \notin errors

Unfound == IF pc = "reach" THEN Ids \ reachable
                           ELSE {n \in Ids : state[n] = "unvisited"}

Pending == IF pc = "reach" THEN {<<0, n>> : n \in queue}
           ELSE {p \in (DOMAIN stack) \X (NodeId \cup {None}) :
                   p[2] = None \/ p[2] \in stack[p[1]].todo}

Advances ==
  pc \in {"reach", "cycle"} =>
    \/ pc' # pc /\ pc' \in {"cycle", "done"}
    \/ Cardinality(Unfound') < Cardinality(Unfound)
    \/ Unfound' = Unfound /\ Cardinality(Pending') < Cardinality(Pending)

(* Both searches (workflow_validation.go:160 and :188) terminate on every   *)
(* graph, cyclic or not: each of their steps leaves fewer nodes to find, or *)
(* as many and less to look at.                                             *)
SearchesTerminate == [][Advances]_vars
=============================================================================
