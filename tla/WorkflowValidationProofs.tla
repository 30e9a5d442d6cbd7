----------------------- MODULE WorkflowValidationProofs -----------------------
(***************************************************************************)
(* Both searches of ValidateWorkflowDefinition are exact, for any graph, and *)
(* terminate.                                                                *)
(*                                                                           *)
(* The breadth-first search keeps reachable between the triggers and every   *)
(* closed set with the triggers, and closed but for the queue.  The          *)
(* depth-first search keeps the nodes it visits on a path, which a closing   *)
(* edge makes a cycle, and the visited ones closed and free of cycles.       *)
(* With them the validator accepts exactly the publishable graphs.  That     *)
(* those can be scheduled, and that the searches come to an end, rests on    *)
(* the number of nodes being finite.                                         *)
(***************************************************************************)
EXTENDS WorkflowValidation, FiniteSetTheorems, TLAPS

Looping(S) == S # {} /\ \A n \in S : Adjacent(n) \cap S # {}

ReachInv ==
  /\ Triggers \subseteq reachable
  /\ \A n \in reachable \ queue : Adjacent(n) \subseteq reachable
  /\ \A S \in SUBSET Ids :
       Triggers \subseteq S /\ (\A n \in S : Adjacent(n) \subseteq S) => reachable \subseteq S

(* The frames of s, from the innermost call outwards, are a path of nodes   *)
(* being visited; targets that a frame is done with are visited, or are the *)
(* call above it.                                                           *)
PathInv(s, st) ==
  /\ \A i \in DOMAIN s : st[s[i].id] = "visiting" /\ s[i].todo \subseteq Adjacent(s[i].id)
  /\ \A n \in NodeId : st[n] = "visiting" => \E i \in DOMAIN s : s[i].id = n
  /\ \A i, j \in DOMAIN s : s[i].id = s[j].id => i = j
  /\ \A i \in DOMAIN s : i > 1 => s[i - 1].id \in Adjacent(s[i].id)
  /\ \A i \in DOMAIN s : \A m \in Adjacent(s[i].id) \ s[i].todo :
       st[m] = "visited" \/ (i > 1 /\ m = s[i - 1].id)

(* Visited nodes lead to visited nodes only, and not in circles.            *)
VisitedInv(st) ==
  /\ \A n \in NodeId : st[n] # "unvisited" => n \in Ids
  /\ \A n \in NodeId : st[n] = "visited" => \A m \in Adjacent(n) : st[m] = "visited"
  /\ \A S \in SUBSET NodeId : (\A n \in S : st[n] = "visited") => ~Looping(S)

CycleInv == IF hasCycle THEN \E S \in SUBSET Ids : Looping(S)
                        ELSE PathInv(stack, state) /\ VisitedInv(state)

IInv ==
  /\ TypeOK
  /\ pc \in {"nodes", "edges", "rejected"} =>
       queue = {} /\ reachable = {} /\ errors = {}
  /\ pc \notin {"cycle", "done"} =>
       ~hasCycle /\ stack = <<>> /\ \A n \in NodeId : state[n] = "unvisited"
  /\ pc \in {"reach", "cycle", "done"} => ReachInv
  /\ pc = "reach" => "unreachable_node" \notin errors
  /\ pc \in {"reach", "cycle"} => "cycle_detected" \notin errors
  /\ pc \in {"cycle", "done"} =>
       /\ queue = {} /\ CycleInv
       /\ "unreachable_node" \in errors <=> ~(Ids \subseteq reachable)
  /\ pc = "done" =>
       /\ "cycle_detected" \in errors <=> hasCycle
       /\ ~hasCycle => \A n \in Ids : state[n] = "visited"
-----------------------------------------------------------------------------
(* A frame put on a stack.                                                  *)
LEMMA Push ==
  ASSUME NEW T, NEW x \in T, NEW s \in Seq(T), NEW t, t = <<x>> \o s
  PROVE  /\ t \in Seq(T) /\ Len(s) \in Nat /\ Len(t) = Len(s) + 1 /\ t[1] = x
         /\ DOMAIN t = 1..(Len(s) + 1) /\ DOMAIN s = 1..Len(s)
         /\ \A i \in 1..Len(s) : t[i + 1] = s[i]
  OBVIOUS

(* What a sequence is left with when its head is taken off.                  *)
LEMMA Pop ==
  ASSUME NEW T, NEW s \in Seq(T), s # <<>>
  PROVE  /\ Len(s) \in Nat \ {0} /\ DOMAIN s = 1..Len(s)
         /\ Head(s) = s[1] /\ Head(s) \in T
         /\ Tail(s) \in Seq(T) /\ DOMAIN Tail(s) = 1..(Len(s) - 1)
         /\ \A i \in 1..(Len(s) - 1) : Tail(s)[i] = s[i + 1]
  OBVIOUS

(* Edges lead from nodes to nodes.                                          *)
LEMMA Graph ==
  ASSUME TypeOK
  PROVE  /\ Ids \subseteq NodeId /\ Triggers \subseteq Ids
         /\ \A n : Adjacent(n) \subseteq Ids /\ Successors({n}) = Adjacent(n)
         /\ \A S \in SUBSET Ids : Closed(S) <=> \A n \in S : Adjacent(n) \subseteq S
  <1>1. Ids \subseteq NodeId /\ Triggers \subseteq Ids  BY DEF TypeOK, Ids, Triggers, Node
  <1>2. \A n : Adjacent(n) \subseteq Ids  BY DEF Adjacent
  <1>3. \A n : Successors({n}) = Adjacent(n)  BY DEF TypeOK, Successors, Adjacent
  <1>4. ASSUME NEW S \in SUBSET Ids
        PROVE  Closed(S) <=> \A n \in S : Adjacent(n) \subseteq S
    BY DEF TypeOK, Closed, Successors, Adjacent
  <1> QED  BY <1>1, <1>2, <1>3, <1>4

(* What the invariants say after a step that leaves the definition alone.   *)
LEMMA SameGraph ==
  ASSUME UNCHANGED <<nodes, edges>>
  PROVE  /\ Ids' = Ids /\ Triggers' = Triggers
         /\ \A n : Adjacent(n)' = Adjacent(n)
         /\ ReachInv' <=>
              /\ Triggers \subseteq reachable'
              /\ \A n \in reachable' \ queue' : Adjacent(n) \subseteq reachable'
              /\ \A S \in SUBSET Ids :
                   Triggers \subseteq S /\ (\A n \in S : Adjacent(n) \subseteq S)
                     => reachable' \subseteq S
         /\ CycleInv' <=> IF hasCycle' THEN \E S \in SUBSET Ids : Looping(S)
                          ELSE PathInv(stack', state') /\ VisitedInv(state')
  <1>1. Ids' = Ids /\ Triggers' = Triggers  BY DEF Ids, Triggers
  <1>2. \A n : Adjacent(n)' = Adjacent(n)  BY <1>1 DEF Adjacent
  <1>3. \A S : Looping(S)' = Looping(S)  BY <1>2 DEF Looping
  <1>4. PathInv(stack, state)' = PathInv(stack', state')  BY <1>1 DEF PathInv, Adjacent
  <1>5. VisitedInv(state)' = VisitedInv(state')  BY <1>1 DEF VisitedInv, Looping, Adjacent
  <1>6. CycleInv' <=> IF hasCycle' THEN \E S \in SUBSET Ids : Looping(S)
                      ELSE PathInv(stack', state') /\ VisitedInv(state')
    BY <1>1, <1>3, <1>4, <1>5 DEF CycleInv
  <1> QED  BY <1>1, <1>2, <1>6 DEF ReachInv
-----------------------------------------------------------------------------
States == {"unvisited", "visiting", "visited"}

(* visit(n), called by the top frame of s, or for a root: t has a frame     *)
(* more than s, and n is no longer to do in the frame below.                *)
Pushed(L, s, t, n) ==
  /\ L \in Nat /\ DOMAIN s = 1..L /\ DOMAIN t = 1..(L + 1)
  /\ \A i \in 1..L : s[i].id \in NodeId
  /\ L > 0 => n \in Adjacent(s[1].id)
  /\ t[1].id = n /\ t[1].todo = Adjacent(n)
  /\ \A i \in 1..L : /\ t[i + 1].id = s[i].id
                     /\ t[i + 1].todo \subseteq s[i].todo
                     /\ s[i].todo \ {n} \subseteq t[i + 1].todo
                     /\ i > 1 => t[i + 1].todo = s[i].todo

(* The calls are still on a path.                                           *)
LEMMA PushPath ==
  ASSUME TypeOK, NEW L, NEW s, NEW t, NEW n \in Ids, Pushed(L, s, t, n),
         NEW st \in [NodeId -> States], PathInv(s, st), st[n] = "unvisited"
  PROVE  PathInv(t, [st EXCEPT ![n] = "visiting"])
  <1> USE DEF Pushed
  <1> DEFINE u == [st EXCEPT ![n] = "visiting"]
  <1>0. n \in NodeId /\ Adjacent(n) \subseteq NodeId  BY Graph, Zenon
  <1>4. \A i \in 1..(L + 1) : i = 1 \/ \E j \in 1..L : i = j + 1
    <2> SUFFICES ASSUME NEW i \in 1..(L + 1), i # 1 PROVE \E j \in 1..L : i = j + 1  OBVIOUS
    <2>1. i - 1 \in 1..L /\ i = (i - 1) + 1  OBVIOUS
    <2> QED  BY <2>1
  <1>7. /\ u \in [NodeId -> States] /\ u[n] = "visiting"
        /\ \A m \in NodeId : m # n => u[m] = st[m]
    BY <1>0 DEF States
  <1>8. \A j \in 1..L : s[j].id \in NodeId /\ s[j].id # n /\ st[s[j].id] = "visiting"
    BY Zenon DEF PathInv
  <1> HIDE DEF u
  <1>9. \A i \in DOMAIN t : u[t[i].id] = "visiting" /\ t[i].todo \subseteq Adjacent(t[i].id)
    <2> SUFFICES ASSUME NEW i \in 1..(L + 1)
                 PROVE  u[t[i].id] = "visiting" /\ t[i].todo \subseteq Adjacent(t[i].id)
      OBVIOUS
    <2>1. CASE i = 1  BY <1>7, <2>1
    <2>2. CASE i # 1
      <3>1. PICK j \in 1..L : i = j + 1  BY <1>4, <2>2
      <3>2. u[s[j].id] = "visiting"  BY <1>7, <1>8
      <3>3. s[j].todo \subseteq Adjacent(s[j].id)  BY Zenon DEF PathInv
      <3> QED  BY <3>1, <3>2, <3>3
    <2> QED  BY <2>1, <2>2
  <1>10. \A m \in NodeId : u[m] = "visiting" => \E i \in DOMAIN t : t[i].id = m
    <2> SUFFICES ASSUME NEW m \in NodeId, u[m] = "visiting" PROVE \E i \in DOMAIN t : t[i].id = m
      OBVIOUS
    <2>1. CASE m = n  BY <2>1
    <2>2. CASE m # n
      <3>1. PICK j \in 1..L : s[j].id = m  BY <1>7, <2>2 DEF PathInv
      <3>2. j + 1 \in DOMAIN t /\ t[j + 1].id = m  BY <3>1
      <3> QED  BY <3>2, Zenon
    <2> QED  BY <2>1, <2>2
  <1>11. \A i, j \in DOMAIN t : t[i].id = t[j].id => i = j
    <2> SUFFICES ASSUME NEW i \in DOMAIN t, NEW j \in DOMAIN t, t[i].id = t[j].id PROVE i = j
      OBVIOUS
    <2>1. i \in 1..(L + 1) /\ j \in 1..(L + 1)  OBVIOUS
    <2>2. CASE i = 1 \/ j = 1
      <3>1. \A k \in 1..(L + 1) : k # 1 => t[k].id # n
        <4> SUFFICES ASSUME NEW k \in 1..(L + 1), k # 1 PROVE t[k].id # n  OBVIOUS
        <4>1. PICK l \in 1..L : k = l + 1  BY <1>4
        <4> QED  BY <1>8, <4>1, Zenon
      <3> QED  BY <2>1, <2>2, <3>1
    <2>3. CASE i # 1 /\ j # 1
      <3>1. PICK a \in 1..L, b \in 1..L : i = a + 1 /\ j = b + 1  BY <1>4, <2>1, <2>3, Zenon
      <3>2. s[a].id = s[b].id  BY <3>1
      <3>3. a = b  BY <3>2, Zenon DEF PathInv
      <3> QED  BY <3>1, <3>3
    <2> QED  BY <2>2, <2>3
  <1>12. \A i \in DOMAIN t : i > 1 => t[i - 1].id \in Adjacent(t[i].id)
    <2> SUFFICES ASSUME NEW i \in DOMAIN t, i > 1 PROVE t[i - 1].id \in Adjacent(t[i].id)
      OBVIOUS
    <2>0. i \in 1..(L + 1) /\ i # 1  OBVIOUS
    <2>1. PICK j \in 1..L : i = j + 1  BY <1>4, <2>0, Zenon
    <2>2. CASE j = 1
      <3>1. L > 0 /\ t[i].id = s[1].id  BY <2>1, <2>2
      <3> QED  BY <2>1, <2>2, <3>1
    <2>3. CASE j > 1
      <3>1. j - 1 \in 1..L /\ i - 1 = (j - 1) + 1  BY <2>1, <2>3
      <3>2. t[i - 1].id = s[j - 1].id /\ t[i].id = s[j].id  BY <2>1, <3>1
      <3> QED  BY <2>3, <3>2, Zenon DEF PathInv
    <2> QED  BY <2>2, <2>3
  <1>13. \A i \in DOMAIN t : \A m \in Adjacent(t[i].id) \ t[i].todo :
           u[m] = "visited" \/ (i > 1 /\ m = t[i - 1].id)
    <2> SUFFICES ASSUME NEW i \in DOMAIN t, NEW m \in Adjacent(t[i].id) \ t[i].todo
                 PROVE  u[m] = "visited" \/ (i > 1 /\ m = t[i - 1].id)
      OBVIOUS
    <2>0. m \in NodeId  BY Graph, Zenon
    <2>1. i # 1  OBVIOUS
    <2>2. PICK j \in 1..L : i = j + 1  BY <1>4, <2>1, Zenon
    <2>3. m \in Adjacent(s[j].id)  BY <2>2
    <2>4. CASE m \notin s[j].todo
      <3>1. st[m] = "visited" \/ (j > 1 /\ m = s[j - 1].id)  BY <2>3, <2>4, ZenonT(60) DEF PathInv
      <3>2. CASE st[m] = "visited"  BY <1>7, <2>0, <3>2
      <3>3. CASE j > 1 /\ m = s[j - 1].id
        <4>1. j - 1 \in 1..L /\ i - 1 = (j - 1) + 1 /\ i > 1  BY <2>2, <3>3
        <4> QED  BY <3>3, <4>1
      <3> QED  BY <3>1, <3>2, <3>3
    <2>5. CASE m \in s[j].todo
      <3>1. j = 1 /\ m = n  BY <2>2, <2>5
      <3> QED  BY <2>2, <3>1
    <2> QED  BY <2>4, <2>5
  <1> QED  BY <1>9, <1>10, <1>11, <1>12, <1>13 DEF PathInv, u

(* A call that starts adds nothing to the visited nodes.                    *)
LEMMA PushVisited ==
  ASSUME TypeOK, NEW st \in [NodeId -> States], VisitedInv(st),
         NEW n \in Ids, st[n] = "unvisited"
  PROVE  VisitedInv([st EXCEPT ![n] = "visiting"])
  <1> DEFINE u == [st EXCEPT ![n] = "visiting"]
  <1>1. n \in NodeId /\ \A m : Adjacent(m) \subseteq NodeId  BY Graph, Zenon
  <1>2. u[n] = "visiting" /\ \A m \in NodeId : m # n => u[m] = st[m]  BY <1>1 DEF States
  <1>3. \A m \in NodeId : u[m] = "visited" <=> st[m] = "visited"  BY <1>1, <1>2
  <1> HIDE DEF u
  <1>4. \A m \in NodeId : u[m] # "unvisited" => m \in Ids  BY <1>2 DEF VisitedInv
  <1>5. \A m \in NodeId : u[m] = "visited" => \A k \in Adjacent(m) : u[k] = "visited"
    BY <1>1, <1>3 DEF VisitedInv
  <1>6. \A S \in SUBSET NodeId : (\A m \in S : u[m] = "visited") => ~Looping(S)
    BY <1>3 DEF VisitedInv
  <1> QED  BY <1>4, <1>5, <1>6 DEF VisitedInv, u

(* The top frame passes over a target that was visited.                     *)
LEMMA SkipPath ==
  ASSUME TypeOK, NEW L \in Nat, NEW s, DOMAIN s = 1..L, NEW t, DOMAIN t = 1..L,
         NEW st \in [NodeId -> States], PathInv(s, st), NEW n, st[n] = "visited",
         \A i \in 1..L : /\ t[i].id = s[i].id
                         /\ t[i].todo \subseteq s[i].todo
                         /\ s[i].todo \ {n} \subseteq t[i].todo
  PROVE  PathInv(t, st)
  <1>1. \A i \in 1..L : st[t[i].id] = "visiting" /\ t[i].todo \subseteq Adjacent(t[i].id)
    <2> SUFFICES ASSUME NEW i \in 1..L
                 PROVE  st[t[i].id] = "visiting" /\ t[i].todo \subseteq Adjacent(t[i].id)
      OBVIOUS
    <2>1. st[s[i].id] = "visiting" /\ s[i].todo \subseteq Adjacent(s[i].id)  BY DEF PathInv
    <2> QED  BY <2>1
  <1>2. \A m \in NodeId : st[m] = "visiting" => \E i \in 1..L : t[i].id = m
    <2> SUFFICES ASSUME NEW m \in NodeId, st[m] = "visiting" PROVE \E i \in 1..L : t[i].id = m
      OBVIOUS
    <2>1. PICK i \in 1..L : s[i].id = m  BY DEF PathInv
    <2> QED  BY <2>1
  <1>3. \A i, j \in 1..L : t[i].id = t[j].id => i = j
    <2> SUFFICES ASSUME NEW i \in 1..L, NEW j \in 1..L, t[i].id = t[j].id PROVE i = j
      OBVIOUS
    <2>1. s[i].id = s[j].id  OBVIOUS
    <2> QED  BY <2>1 DEF PathInv
  <1>4. \A i \in 1..L : i > 1 => t[i - 1].id \in Adjacent(t[i].id)
    <2> SUFFICES ASSUME NEW i \in 1..L, i > 1 PROVE t[i - 1].id \in Adjacent(t[i].id)
      OBVIOUS
    <2>1. i - 1 \in 1..L  OBVIOUS
    <2>2. s[i - 1].id \in Adjacent(s[i].id)  BY DEF PathInv
    <2> QED  BY <2>1, <2>2
  <1>5. \A i \in 1..L : \A m \in Adjacent(t[i].id) \ t[i].todo :
          st[m] = "visited" \/ (i > 1 /\ m = t[i - 1].id)
    <2> SUFFICES ASSUME NEW i \in 1..L, NEW m \in Adjacent(t[i].id), m \notin t[i].todo, m # n
                 PROVE  st[m] = "visited" \/ (i > 1 /\ m = t[i - 1].id)
      OBVIOUS
    <2>1. m \in Adjacent(s[i].id) \ s[i].todo  OBVIOUS
    <2>2. st[m] = "visited" \/ (i > 1 /\ m = s[i - 1].id)  BY <2>1 DEF PathInv
    <2>3. i > 1 => i - 1 \in 1..L  OBVIOUS
    <2> QED  BY <2>2, <2>3
  <1> QED  BY ZenonT(60), <1>1, <1>2, <1>3, <1>4, <1>5 DEF PathInv

(* The top call returns, all its targets visited.                           *)
LEMMA PopPath ==
  ASSUME TypeOK, NEW L \in Nat, NEW s, DOMAIN s = 1..(L + 1), NEW t, DOMAIN t = 1..L,
         \A i \in 1..(L + 1) : s[i].id \in NodeId,
         \A i \in 1..L : t[i] = s[i + 1],
         NEW st \in [NodeId -> States], PathInv(s, st), s[1].todo = {}
  PROVE  /\ \A m \in Adjacent(s[1].id) : st[m] = "visited"
         /\ PathInv(t, [st EXCEPT ![s[1].id] = "visited"])
  <1> DEFINE n == s[1].id
             u == [st EXCEPT ![n] = "visited"]
  <1>1. n \in NodeId /\ st[n] = "visiting" /\ \A m \in Adjacent(n) : st[m] = "visited"
    <2>1. 1 \in 1..(L + 1) /\ ~(1 > 1)  OBVIOUS
    <2> QED  BY <2>1 DEF PathInv
  <1>2. u[n] = "visited" /\ \A m \in NodeId : m # n => u[m] = st[m]  BY <1>1 DEF States
  <1>3. \A i \in 1..L : /\ i + 1 \in 1..(L + 1) /\ s[i + 1].id \in NodeId
                        /\ s[i + 1].id # n
    <2> SUFFICES ASSUME NEW i \in 1..L
                 PROVE  i + 1 \in 1..(L + 1) /\ s[i + 1].id # s[1].id
      OBVIOUS
    <2>1. i + 1 \in 1..(L + 1) /\ 1 \in 1..(L + 1) /\ i + 1 # 1  OBVIOUS
    <2> QED  BY <2>1 DEF PathInv
  <1> HIDE DEF n, u
  <1>4. \A i \in 1..L : u[t[i].id] = "visiting" /\ t[i].todo \subseteq Adjacent(t[i].id)
    <2> SUFFICES ASSUME NEW i \in 1..L
                 PROVE  u[t[i].id] = "visiting" /\ t[i].todo \subseteq Adjacent(t[i].id)
      OBVIOUS
    <2>1. st[s[i + 1].id] = "visiting" /\ s[i + 1].todo \subseteq Adjacent(s[i + 1].id)
      BY <1>3, Zenon DEF PathInv
    <2> QED  BY <1>2, <1>3, <2>1
  <1>5. \A m \in NodeId : u[m] = "visiting" => \E i \in 1..L : t[i].id = m
    <2> SUFFICES ASSUME NEW m \in NodeId, u[m] = "visiting" PROVE \E i \in 1..L : t[i].id = m
      OBVIOUS
    <2>1. m # n /\ st[m] = "visiting"  BY <1>2
    <2>2. PICK i \in 1..(L + 1) : s[i].id = m  BY <2>1 DEF PathInv
    <2>3. i # 1  BY <2>1, <2>2 DEF n
    <2>4. i - 1 \in 1..L /\ i = (i - 1) + 1  BY <2>3
    <2>5. t[i - 1].id = m  BY <2>2, <2>4
    <2> QED  BY <2>4, <2>5
  <1>6. \A i, j \in 1..L : t[i].id = t[j].id => i = j
    <2> SUFFICES ASSUME NEW i \in 1..L, NEW j \in 1..L, t[i].id = t[j].id PROVE i = j
      OBVIOUS
    <2>1. s[i + 1].id = s[j + 1].id  OBVIOUS
    <2>2. i + 1 = j + 1  BY <1>3, <2>1, Zenon DEF PathInv
    <2> QED  BY <2>2
  <1>7. \A i \in 1..L : i > 1 => t[i - 1].id \in Adjacent(t[i].id)
    <2> SUFFICES ASSUME NEW i \in 1..L, i > 1 PROVE t[i - 1].id \in Adjacent(t[i].id)
      OBVIOUS
    <2>1. i - 1 \in 1..L /\ (i - 1) + 1 = i /\ (i + 1) - 1 = i /\ i + 1 > 1  OBVIOUS
    <2>2. s[(i + 1) - 1].id \in Adjacent(s[i + 1].id)  BY <1>3, <2>1, Zenon DEF PathInv
    <2>3. t[i - 1] = s[i]  BY <2>1
    <2> QED  BY <2>1, <2>2, <2>3
  <1>8. \A i \in 1..L : \A m \in Adjacent(t[i].id) \ t[i].todo :
          u[m] = "visited" \/ (i > 1 /\ m = t[i - 1].id)
    <2> SUFFICES ASSUME NEW i \in 1..L, NEW m \in Adjacent(t[i].id) \ t[i].todo
                 PROVE  u[m] = "visited" \/ (i > 1 /\ m = t[i - 1].id)
      OBVIOUS
    <2>0. m \in NodeId  BY Graph, Zenon
    <2>1. m \in Adjacent(s[i + 1].id) \ s[i + 1].todo  OBVIOUS
    <2>2. st[m] = "visited" \/ m = s[(i + 1) - 1].id  BY <1>3, <2>1, Zenon DEF PathInv
    <2>3. (i + 1) - 1 = i  OBVIOUS
    <2>4. CASE st[m] = "visited"  BY ZenonT(60), <1>1, <1>2, <2>0, <2>4
    <2>5. CASE m = s[i].id /\ i = 1  BY <1>2, <2>5 DEF n
    <2>6. CASE m = s[i].id /\ i # 1
      <3>1. i > 1 /\ i - 1 \in 1..L /\ (i - 1) + 1 = i  BY <2>6
      <3>2. t[i - 1] = s[i]  BY <3>1
      <3> QED  BY <2>6, <3>1, <3>2
    <2> QED  BY <2>2, <2>3, <2>4, <2>5, <2>6
  <1>9. PathInv(t, u)  BY <1>4, <1>5, <1>6, <1>7, <1>8, Zenon DEF PathInv
  <1> QED  BY <1>1, <1>9 DEF n, u

(* A node that leads to visited nodes only closes no circle among them.     *)
LEMMA PopVisited ==
  ASSUME TypeOK, NEW st \in [NodeId -> States], VisitedInv(st),
         NEW n \in NodeId, st[n] = "visiting", \A m \in Adjacent(n) : st[m] = "visited"
  PROVE  VisitedInv([st EXCEPT ![n] = "visited"])
  <1> DEFINE u == [st EXCEPT ![n] = "visited"]
  <1>1. u[n] = "visited" /\ \A m \in NodeId : m # n => u[m] = st[m]  BY DEF States
  <1>2. \A m : Adjacent(m) \subseteq NodeId  BY Graph, Zenon
  <1>3. \A m \in NodeId : st[m] = "visited" => u[m] = "visited"  BY <1>1
  <1> HIDE DEF u
  <1>4. \A m \in NodeId : u[m] # "unvisited" => m \in Ids  BY <1>1 DEF VisitedInv
  <1>5. \A m \in NodeId : u[m] = "visited" => \A k \in Adjacent(m) : u[k] = "visited"
    BY <1>1, <1>2, <1>3 DEF VisitedInv
  <1>6. ASSUME NEW S \in SUBSET NodeId, \A m \in S : u[m] = "visited", Looping(S)
        PROVE  FALSE
    <2> DEFINE R == S \ {n}
    <2>1. \A m \in R : st[m] = "visited"  BY <1>1, <1>6
    <2>2. \A m \in R : Adjacent(m) \cap R # {}
      BY <1>6, <2>1 DEF Looping, VisitedInv
    <2>3. R # {}  BY <1>6 DEF Looping
    <2> HIDE DEF R
    <2>4. Looping(R)  BY <2>2, <2>3 DEF Looping
    <2>5. R \in SUBSET NodeId  BY DEF R
    <2> QED  BY <2>1, <2>4, <2>5 DEF VisitedInv
  <1> QED  BY <1>4, <1>5, <1>6 DEF VisitedInv, u

(* An edge from the top frame to a node being visited: the frames down to   *)
(* that node's are a cycle.                                                 *)
LEMMA Closing ==
  ASSUME NEW L \in Nat, NEW s, DOMAIN s = 1..L, \A i \in 1..L : s[i].id \in NodeId, L > 0,
         NEW st \in [NodeId -> States], PathInv(s, st), VisitedInv(st),
         NEW n \in NodeId, n \in s[1].todo, st[n] = "visiting"
  PROVE  \E S \in SUBSET Ids : Looping(S)
  <1>1. PICK k \in 1..L : s[k].id = n  BY DEF PathInv
  <1> DEFINE S == {s[i].id : i \in 1..k}
  <1>2. \A i \in 1..k : i \in 1..L  OBVIOUS
  <1>3. S \in SUBSET Ids
    <2> SUFFICES ASSUME NEW i \in 1..k PROVE s[i].id \in Ids  OBVIOUS
    <2>1. s[i].id \in NodeId /\ st[s[i].id] = "visiting"  BY ZenonT(60), <1>2 DEF PathInv
    <2> QED  BY <2>1 DEF VisitedInv
  <1>4. S # {}
    <2>1. k \in 1..k  OBVIOUS
    <2>2. s[k].id \in S  BY <2>1
    <2> QED  BY <2>2, Zenon
  <1>5. \A i \in 1..k : Adjacent(s[i].id) \cap S # {}
    <2> SUFFICES ASSUME NEW i \in 1..k PROVE \E m \in S : m \in Adjacent(s[i].id)
      BY Zenon
    <2>1. CASE i = 1
      <3>1. n \in Adjacent(s[1].id)
        <4>1. 1 \in 1..L  OBVIOUS
        <4> QED  BY <4>1 DEF PathInv
      <3>2. k \in 1..k  OBVIOUS
      <3> QED  BY ZenonT(60), <1>1, <2>1, <3>1, <3>2
    <2>2. CASE i # 1
      <3>1. i - 1 \in 1..k /\ i > 1  BY <2>2
      <3>2. s[i - 1].id \in Adjacent(s[i].id)  BY <1>2, <3>1, Zenon DEF PathInv
      <3> QED  BY <3>1, <3>2
    <2> QED  BY <2>1, <2>2
  <1>6. Looping(S)  BY <1>4, <1>5, Zenon DEF Looping
  <1> QED  BY <1>3, <1>6
-----------------------------------------------------------------------------
(* The empty request, nothing searched yet.                                 *)
THEOREM InitIInv == Init => IInv
  <1> SUFFICES ASSUME Init PROVE IInv  OBVIOUS
  <1>1. nodes = {} /\ edges = {} /\ Ids = {}  BY DEF Init, Ids
  <1>2. <<>> \in Seq(Frame)  OBVIOUS
  <1>3. state \in [NodeId -> {"unvisited", "visiting", "visited"}]  BY DEF Init
  <1>4. TypeOK  BY <1>1, <1>2, <1>3, Zenon DEF Init, TypeOK
  <1> QED  BY <1>4 DEF Init, IInv

(* parseWorkflowDefinition takes a node or an edge, or rejects the request. *)
LEMMA ParseStep ==
  ASSUME IInv, ParseNode \/ ParseEdge
  PROVE  IInv'
  <1> USE DEF IInv
  <1>1. TypeOK'
    <2>1. CASE ParseNode
      <3>1. PICK n \in Node : IF n.id \in Ids THEN Reject
                              ELSE nodes' = nodes \cup {n} /\ UNCHANGED <<edges, pc>>
        BY <2>1 DEF ParseNode
      <3>2. CASE n.id \in Ids
        BY ZenonT(60), <2>1, <3>1, <3>2 DEF ParseNode, Reject, TypeOK, Ids
      <3>3. CASE n.id \notin Ids
        <4>1. /\ nodes' \subseteq Node /\ Ids' = Ids \cup {n.id}
              /\ \A k, m \in nodes' : k.id = m.id => k = m
          BY <3>1, <3>3 DEF TypeOK, Ids
        <4> QED  BY ZenonT(60), <2>1, <3>1, <3>3, <4>1 DEF ParseNode, TypeOK
      <3> QED  BY <3>2, <3>3
    <2>2. CASE ParseEdge
      <3>1. PICK e \in Edge :
              IF Accepted(e) THEN edges' = edges \cup {e} /\ pc' = "edges" /\ UNCHANGED nodes
                             ELSE Reject
        BY <2>2 DEF ParseEdge
      <3>2. CASE Accepted(e)
        <4>1. Ids' = Ids  BY <3>1, <3>2 DEF Ids
        <4>2. /\ edges' \subseteq Edge
              /\ \A f, g \in edges' : f.id = g.id => f = g
              /\ \A f \in edges' : {f.from, f.to} \subseteq Ids
          BY <3>1, <3>2 DEF TypeOK, Accepted
        <4> QED  BY ZenonT(60), <2>2, <3>1, <3>2, <4>1, <4>2 DEF ParseEdge, TypeOK
      <3>3. CASE ~Accepted(e)
        BY ZenonT(60), <2>2, <3>1, <3>3 DEF ParseEdge, Reject, TypeOK, Ids
      <3> QED  BY <3>2, <3>3
    <2> QED  BY <2>1, <2>2
  <1>2. pc' \in {"nodes", "edges", "rejected"} /\ pc \in {"nodes", "edges"}
    BY DEF ParseNode, ParseEdge, Reject
  <1>3. UNCHANGED <<errors, queue, reachable, state, stack, hasCycle>>
    BY DEF ParseNode, ParseEdge
  <1> QED  BY <1>1, <1>2, <1>3

(* The checks before the searches, which then start from the triggers.      *)
LEMMA CheckStep ==
  ASSUME IInv, CheckElements
  PROVE  IInv'
  <1>1. Ids' = Ids /\ Triggers' = Triggers  BY DEF CheckElements, Ids, Triggers
  <1>2. /\ pc \in {"nodes", "edges"} /\ pc' = "reach"
        /\ reachable' = Triggers /\ queue' = Triggers
        /\ UNCHANGED <<nodes, edges, state, stack, hasCycle>>
    BY DEF CheckElements
  <1>3. errors' \subseteq Codes \ {"invalid_edge_reference", "unreachable_node", "cycle_detected"}
    <2>1. errors' = NodeErrors \cup EdgeErrors \cup DegreeErrors  BY DEF CheckElements
    <2>2. NodeErrors \subseteq {"missing_trigger", "missing_action", "invalid_node_config"}
      BY DEF NodeErrors, When
    <2>3. DegreeErrors \subseteq {"trigger_has_incoming_edge", "orphan_node"}
      BY DEF DegreeErrors, When
    <2>4. EdgeErrors \subseteq {"self_loop", "duplicate_edge", "unsupported_config_shape",
                                "invalid_condition_branch"}
      <3> SUFFICES ASSUME NEW e \in edges
                   PROVE  When({e.from, e.to} \cap Ids # {e.from, e.to},
                               "invalid_edge_reference") = {}
        BY DEF EdgeErrors, When
      <3>1. {e.from, e.to} \subseteq Ids  BY DEF IInv, TypeOK
      <3>2. {e.from, e.to} \cap Ids = {e.from, e.to}  BY <3>1
      <3> QED  BY <3>2 DEF When
    <2> QED  BY <2>1, <2>2, <2>3, <2>4 DEF Codes
  <1>4. Triggers \subseteq Ids  BY Graph DEF IInv
  <1>5. TypeOK'  BY ZenonT(60), <1>1, <1>2, <1>3, <1>4 DEF IInv, TypeOK
  <1>6. ReachInv'  BY <1>2, SameGraph
  <1> QED  BY <1>2, <1>3, <1>5, <1>6 DEF IInv

(* The breadth-first search takes a node off its queue.                     *)
LEMMA ReachStep ==
  ASSUME IInv, Reach
  PROVE  IInv'
  <1>0. TypeOK /\ ReachInv  BY DEF IInv, Reach
  <1>1. PICK c \in queue : /\ reachable' = reachable \cup Found(c)
                           /\ queue' = (queue \ {c}) \cup Found(c)
    BY DEF Reach
  <1>2. pc = "reach" /\ UNCHANGED <<nodes, edges, pc, errors, state, stack, hasCycle>>
    BY DEF Reach
  <1>3. Ids' = Ids  BY <1>2 DEF Ids
  <1>4. /\ c \in reachable /\ reachable \subseteq Ids /\ queue \subseteq reachable
        /\ Found(c) = Adjacent(c) \ reachable /\ Adjacent(c) \subseteq Ids
    BY <1>0, Graph, Zenon DEF TypeOK, Found
  <1>5. TypeOK'
    <2>1. queue' \subseteq reachable' /\ reachable' \subseteq Ids  BY <1>1, <1>4
    <2> QED  BY <1>0, <1>2, <1>3, <2>1 DEF TypeOK
  <1>6. ReachInv'
    <2>1. Triggers \subseteq reachable'  BY <1>0, <1>1 DEF ReachInv
    <2>2. \A n \in reachable' \ queue' : Adjacent(n) \subseteq reachable'
      <3> SUFFICES ASSUME NEW n \in reachable' \ queue' PROVE Adjacent(n) \subseteq reachable'
        OBVIOUS
      <3>1. CASE n = c  BY <1>1, <1>4, <3>1
      <3>2. CASE n # c
        <4>1. n \in reachable \ queue  BY <1>1, <3>2
        <4> QED  BY <1>0, <1>1, <4>1 DEF ReachInv
      <3> QED  BY <3>1, <3>2
    <2>3. ASSUME NEW S \in SUBSET Ids, Triggers \subseteq S, \A n \in S : Adjacent(n) \subseteq S
          PROVE  reachable' \subseteq S
      <3>1. reachable \subseteq S  BY <1>0, <2>3 DEF ReachInv
      <3> QED  BY <1>1, <1>4, <2>3, <3>1
    <2> QED  BY <1>2, <2>1, <2>2, <2>3, SameGraph
  <1> QED  BY <1>2, <1>5, <1>6 DEF IInv

(* The queue is empty: what is not reachable is reported.                   *)
LEMMA ReachedStep ==
  ASSUME IInv, Reached
  PROVE  IInv'
  <1>1. /\ pc = "reach" /\ pc' = "cycle" /\ queue = {}
        /\ errors' = errors \cup When(Ids \ (Triggers \cup reachable) # {}, "unreachable_node")
        /\ UNCHANGED <<nodes, edges, queue, reachable, state, stack, hasCycle>>
    BY DEF Reached
  <1>2. /\ TypeOK /\ ReachInv /\ "unreachable_node" \notin errors /\ "cycle_detected" \notin errors
        /\ ~hasCycle /\ stack = <<>> /\ \A n \in NodeId : state[n] = "unvisited"
    BY <1>1 DEF IInv
  <1>3. Ids' = Ids /\ Triggers \subseteq reachable  BY ZenonT(60), <1>1, <1>2 DEF Ids, ReachInv
  <1>4. TypeOK'
    <2>1. errors' \subseteq Codes \ {"invalid_edge_reference"}
      BY <1>1, <1>2 DEF TypeOK, When, Codes
    <2> QED  BY ZenonT(60), <1>1, <1>2, <1>3, <2>1 DEF TypeOK
  <1>5. "unreachable_node" \in errors' <=> ~(Ids \subseteq reachable)
    BY <1>1, <1>2, <1>3 DEF When
  <1>6. "cycle_detected" \notin errors'  BY <1>1, <1>2 DEF When
  <1>7. ReachInv'  BY <1>1, <1>2, SameGraph DEF ReachInv
  <1>8. CycleInv'
    <2>1. DOMAIN stack = {}  BY <1>2
    <2>2. PathInv(stack, state)  BY <1>2, <2>1 DEF PathInv
    <2>3. VisitedInv(state)
      <3>1. \A S \in SUBSET NodeId : (\A n \in S : state[n] = "visited") => ~Looping(S)
        BY <1>2 DEF Looping
      <3> QED  BY <1>2, <3>1 DEF VisitedInv
    <2> QED  BY <1>1, <1>2, <2>2, <2>3, SameGraph
  <1> QED  BY ZenonT(60), <1>1, <1>3, <1>4, <1>5, <1>6, <1>7, <1>8 DEF IInv

(* A step of the depth-first search.                                        *)
LEMMA SearchStep ==
  ASSUME IInv, pc = "cycle", UNCHANGED <<nodes, edges, pc, errors, queue, reachable>>,
         stack' \in Seq(Frame), state' \in [NodeId -> States], hasCycle' \in BOOLEAN,
         IF hasCycle' THEN \E S \in SUBSET Ids : Looping(S)
                      ELSE PathInv(stack', state') /\ VisitedInv(state')
  PROVE  IInv'
  <1>1. Ids' = Ids  BY ZenonT(60) DEF Ids
  <1>2. TypeOK'  BY <1>1 DEF IInv, TypeOK, States
  <1>3. ReachInv' /\ CycleInv'  BY ZenonT(60), SameGraph DEF IInv, ReachInv
  <1> QED  BY <1>1, <1>2, <1>3 DEF IInv

(* visit is called for a root.                                              *)
LEMMA RootStep ==
  ASSUME IInv, VisitRoot
  PROVE  IInv'
  <1>1. PICK n \in Ids : state[n] = "unvisited" /\ Visit(n, <<>>)  BY DEF VisitRoot
  <1>2. /\ pc = "cycle" /\ stack = <<>> /\ ~hasCycle
        /\ UNCHANGED <<nodes, edges, pc, errors, queue, reachable, hasCycle>>
    BY DEF VisitRoot
  <1>3. TypeOK /\ PathInv(stack, state) /\ VisitedInv(state)  BY <1>2 DEF IInv, CycleInv
  <1>4. n \in NodeId /\ Adjacent(n) \subseteq NodeId  BY <1>3, Graph, Zenon
  <1> DEFINE x == [id |-> n, todo |-> Adjacent(n)]
  <1>5. x \in Frame /\ stack' = <<x>> \o stack /\ state' = [state EXCEPT ![n] = "visiting"]
    BY ZenonT(60), <1>1, <1>2, <1>4 DEF Visit, Frame
  <1>6. /\ stack' \in Seq(Frame) /\ stack'[1] = x /\ DOMAIN stack' = 1..(0 + 1)
        /\ DOMAIN stack = 1..0
    BY SMTT(30), <1>2, <1>3, <1>5 DEF TypeOK
  <1>7. state \in [NodeId -> States] /\ state' \in [NodeId -> States]
    BY <1>3, <1>4, <1>5 DEF TypeOK, States
  <1>8. PathInv(stack', state')
    <2>1. stack'[1].id = n /\ stack'[1].todo = Adjacent(n)  BY <1>6
    <2>2. /\ 0 \in Nat /\ ~(0 > 0)
          /\ \A i \in 1..0 : FALSE
      OBVIOUS
    <2>3. Pushed(0, stack, stack', n)  BY <1>6, <2>1, <2>2, Zenon DEF Pushed
    <2> QED  BY <1>1, <1>3, <1>5, <1>7, <2>3, PushPath, Zenon
  <1>9. VisitedInv(state')  BY <1>1, <1>3, <1>5, <1>7, PushVisited, Zenon
  <1> QED  BY ZenonT(60), <1>2, <1>3, <1>6, <1>7, <1>8, <1>9, SearchStep DEF TypeOK

(* The top call looks at a target: it closes a cycle, is visited, or was.   *)
LEMMA TargetStep ==
  ASSUME IInv, VisitTarget
  PROVE  IInv'
  <1>1. /\ pc = "cycle" /\ stack # <<>>
        /\ UNCHANGED <<nodes, edges, pc, errors, queue, reachable>>
    BY ZenonT(60) DEF VisitTarget
  <1>2. /\ TypeOK /\ stack \in Seq(Frame) /\ state \in [NodeId -> States]
        /\ hasCycle \in BOOLEAN /\ CycleInv
    BY <1>1 DEF IInv, TypeOK, States
  <1> DEFINE top == Head(stack)
             K == Len(stack) - 1
  <1>3. /\ K \in Nat /\ Len(stack) = K + 1 /\ DOMAIN stack = 1..(K + 1)
        /\ top = stack[1] /\ top \in Frame /\ Tail(stack) \in Seq(Frame)
        /\ DOMAIN Tail(stack) = 1..K /\ Len(Tail(stack)) = K
        /\ \A i \in 1..K : Tail(stack)[i] = stack[i + 1]
    BY <1>1, <1>2, Pop
  <1> HIDE DEF K
  <1>4. \A i \in 1..(K + 1) : stack[i] \in Frame /\ stack[i].id \in NodeId
    <2>1. \A i \in 1..(K + 1) : stack[i] \in Frame  BY <1>2, <1>3
    <2> QED  BY <2>1 DEF Frame
  <1>5. PICK n \in top.todo :
          CASE ClosesCycle(n) -> hasCycle' = TRUE /\ stack' = Tail(stack) /\ UNCHANGED state
            [] ~ClosesCycle(n) /\ state[n] = "unvisited" ->
                 /\ Visit(n, <<[top EXCEPT !.todo = @ \ {n}]>> \o Tail(stack))
                 /\ UNCHANGED hasCycle
            [] OTHER -> /\ stack' = <<[top EXCEPT !.todo = @ \ {n}]>> \o Tail(stack)
                        /\ UNCHANGED <<state, hasCycle>>
    BY Zenon DEF VisitTarget
  <1> DEFINE y == [top EXCEPT !.todo = @ \ {n}]
             r == <<y>> \o Tail(stack)
  <1>6. n \in NodeId /\ y \in Frame /\ y.id = top.id /\ y.todo = top.todo \ {n}
    BY <1>3 DEF Frame
  <1>7. /\ r \in Seq(Frame) /\ Len(r) = K + 1 /\ DOMAIN r = 1..(K + 1) /\ r[1] = y
        /\ \A i \in 1..K : r[i + 1] = stack[i + 1]
    <2>1. r = <<y>> \o Tail(stack)  OBVIOUS
    <2> HIDE DEF r, y, top
    <2>2. /\ r \in Seq(Frame) /\ Len(r) = Len(Tail(stack)) + 1 /\ r[1] = y
          /\ DOMAIN r = 1..(Len(Tail(stack)) + 1)
          /\ \A i \in 1..Len(Tail(stack)) : r[i + 1] = Tail(stack)[i]
      BY <1>3, <1>6, <2>1, Push
    <2> QED  BY <1>3, <2>2
  <1> HIDE DEF r, y, top
  <1>8. \A i \in 1..(K + 1) : /\ r[i].id = stack[i].id
                              /\ r[i].todo \subseteq stack[i].todo
                              /\ stack[i].todo \ {n} \subseteq r[i].todo
                              /\ i > 1 => r[i].todo = stack[i].todo
    <2> SUFFICES ASSUME NEW i \in 1..(K + 1)
                 PROVE  \/ i = 1 /\ r[i] = y /\ stack[i] = top
                        \/ r[i] = stack[i] /\ i # 1
      BY <1>6
    <2>1. CASE i = 1  BY ZenonT(60), <1>3, <1>7, <2>1
    <2>2. CASE i # 1
      <3>1. i - 1 \in 1..K /\ (i - 1) + 1 = i  BY <1>3, <2>2
      <3> QED  BY ZenonT(60), <1>7, <2>2, <3>1
    <2> QED  BY ZenonT(60), <2>1, <2>2
  <1>9. CASE ClosesCycle(n)
    <2>1. hasCycle' = TRUE /\ stack' = Tail(stack) /\ UNCHANGED state  BY <1>5, <1>9
    <2>2. \E S \in SUBSET Ids : Looping(S)
      <3>1. CASE hasCycle  BY ZenonT(60), <1>2, <3>1 DEF CycleInv
      <3>2. CASE ~hasCycle
        <4>1. PathInv(stack, state) /\ VisitedInv(state)  BY <1>2, <3>2 DEF CycleInv
        <4>2. /\ K + 1 \in Nat /\ K + 1 > 0 /\ n \in stack[1].todo
              /\ \A i \in 1..(K + 1) : stack[i].id \in NodeId
          BY <1>3, <1>4
        <4>3. state[n] = "visiting"  BY <1>9 DEF ClosesCycle
        <4> QED  BY ZenonT(60), <1>2, <1>3, <1>6, <4>1, <4>2, <4>3, Closing
      <3> QED  BY <3>1, <3>2
    <2> QED  BY ZenonT(60), <1>1, <1>2, <1>3, <2>1, <2>2, SearchStep
  <1>10. CASE ~ClosesCycle(n) /\ state[n] = "unvisited"
    <2>1. Visit(n, r) /\ UNCHANGED hasCycle  BY ZenonT(60), <1>5, <1>10 DEF r, y
    <2>2. CASE hasCycle
      <3>1. stack' = r /\ UNCHANGED state  BY ZenonT(60), <2>1, <2>2 DEF Visit
      <3>2. \E S \in SUBSET Ids : Looping(S)  BY <1>2, <2>2 DEF CycleInv
      <3> QED  BY ZenonT(60), <1>1, <1>2, <1>7, <2>1, <2>2, <3>1, <3>2, SearchStep
    <2>3. CASE ~hasCycle
      <3>0. PathInv(stack, state) /\ VisitedInv(state)  BY <1>2, <2>3 DEF CycleInv
      <3>1. n \in Adjacent(stack[1].id)
        <4>1. 1 \in 1..(K + 1)  BY <1>3
        <4> QED  BY ZenonT(60), <1>3, <3>0, <4>1 DEF PathInv
      <3>2. n \in Ids /\ Adjacent(n) \subseteq NodeId  BY <1>2, <3>1, Graph, Zenon
      <3> DEFINE x == [id |-> n, todo |-> Adjacent(n)]
      <3>3. /\ x \in Frame /\ x.id = n /\ x.todo = Adjacent(n)
            /\ stack' = <<x>> \o r /\ state' = [state EXCEPT ![n] = "visiting"]
        BY ZenonT(60), <1>6, <2>1, <2>3, <3>2 DEF Visit, Frame
      <3> HIDE DEF x
      <3>4. /\ stack' \in Seq(Frame) /\ stack'[1] = x /\ DOMAIN stack' = 1..((K + 1) + 1)
            /\ \A i \in 1..(K + 1) : stack'[i + 1] = r[i]
        <4>1. /\ stack' \in Seq(Frame) /\ stack'[1] = x /\ DOMAIN stack' = 1..(Len(r) + 1)
              /\ \A i \in 1..Len(r) : stack'[i + 1] = r[i]
          BY <1>7, <3>3, Push
        <4> QED  BY ZenonT(60), <1>7, <4>1
      <3>5. state' \in [NodeId -> States]  BY <1>2, <1>6, <3>3 DEF States
      <3>6. PathInv(stack', state')
        <4>1. K + 1 \in Nat /\ stack'[1].id = n /\ stack'[1].todo = Adjacent(n)
          BY <1>3, <3>3, <3>4
        <4>2. \A i \in 1..(K + 1) : /\ stack'[i + 1].id = stack[i].id
                                    /\ stack'[i + 1].todo \subseteq stack[i].todo
                                    /\ stack[i].todo \ {n} \subseteq stack'[i + 1].todo
                                    /\ i > 1 => stack'[i + 1].todo = stack[i].todo
          BY <1>8, <3>4, Zenon
        <4>3. \A i \in 1..(K + 1) : stack[i].id \in NodeId  BY <1>4
        <4>4. Pushed(K + 1, stack, stack', n)
          BY <1>3, <3>1, <3>4, <4>1, <4>2, <4>3, Zenon DEF Pushed
        <4>5. state[n] = "unvisited"  BY <1>10
        <4> QED  BY <1>2, <3>0, <3>2, <3>3, <4>4, <4>5, PushPath, Zenon
      <3>7. VisitedInv(state')  BY <1>2, <1>10, <3>0, <3>2, <3>3, PushVisited, Zenon
      <3> QED  BY ZenonT(60), <1>1, <1>2, <2>1, <2>3, <3>4, <3>5, <3>6, <3>7, SearchStep
    <2> QED  BY <2>2, <2>3
  <1>11. CASE ~ClosesCycle(n) /\ state[n] # "unvisited"
    <2>1. stack' = r /\ UNCHANGED <<state, hasCycle>>  BY <1>5, <1>11, Zenon DEF r, y
    <2>2. state[n] = "visited"  BY ZenonT(60), <1>2, <1>6, <1>11 DEF ClosesCycle, States
    <2>3. CASE hasCycle
      <3>1. \E S \in SUBSET Ids : Looping(S)  BY <1>2, <2>3 DEF CycleInv
      <3> QED  BY ZenonT(60), <1>1, <1>2, <1>7, <2>1, <2>3, <3>1, SearchStep
    <2>4. CASE ~hasCycle
      <3>0. PathInv(stack, state) /\ VisitedInv(state)  BY <1>2, <2>4 DEF CycleInv
      <3>1. K + 1 \in Nat  BY SMTT(30), <1>3
      <3>2. PathInv(r, state)  BY SMTT(30), <1>2, <1>3, <1>7, <1>8, <2>2, <3>0, <3>1, SkipPath
      <3> QED  BY ZenonT(60), <1>1, <1>2, <1>7, <2>1, <2>4, <3>0, <3>2, SearchStep
    <2> QED  BY <2>3, <2>4
  <1> QED  BY <1>9, <1>10, <1>11

(* The top call returns.                                                    *)
LEMMA ReturnStep ==
  ASSUME IInv, VisitReturn
  PROVE  IInv'
  <1>1. /\ pc = "cycle" /\ stack # <<>> /\ Head(stack).todo = {}
        /\ state' = [state EXCEPT ![Head(stack).id] = "visited"] /\ stack' = Tail(stack)
        /\ UNCHANGED <<nodes, edges, pc, errors, queue, reachable, hasCycle>>
    BY ZenonT(60) DEF VisitReturn
  <1>2. /\ TypeOK /\ stack \in Seq(Frame) /\ state \in [NodeId -> States]
        /\ hasCycle \in BOOLEAN /\ CycleInv
    BY <1>1 DEF IInv, TypeOK, States
  <1> DEFINE K == Len(stack) - 1
  <1>3. /\ K \in Nat /\ DOMAIN stack = 1..(K + 1) /\ Head(stack) = stack[1]
        /\ stack' \in Seq(Frame) /\ DOMAIN stack' = 1..K
        /\ \A i \in 1..K : stack'[i] = stack[i + 1]
    BY <1>1, <1>2, Pop
  <1> HIDE DEF K
  <1>4. \A i \in 1..(K + 1) : stack[i].id \in NodeId
    <2>1. \A i \in 1..(K + 1) : stack[i] \in Frame  BY <1>2, <1>3
    <2> QED  BY <2>1 DEF Frame
  <1>5. 1 \in 1..(K + 1) /\ stack[1].id \in NodeId  BY <1>3, <1>4
  <1>6. state' \in [NodeId -> States]  BY ZenonT(60), <1>1, <1>2, <1>3, <1>5 DEF States
  <1>7. CASE hasCycle
    <2>1. \E S \in SUBSET Ids : Looping(S)  BY ZenonT(60), <1>2, <1>7 DEF CycleInv
    <2> QED  BY ZenonT(60), <1>1, <1>2, <1>3, <1>6, <1>7, <2>1, SearchStep
  <1>8. CASE ~hasCycle
    <2>0. PathInv(stack, state) /\ VisitedInv(state)  BY ZenonT(60), <1>2, <1>8 DEF CycleInv
    <2>1. state[stack[1].id] = "visiting"  BY <1>3, <1>5, <2>0 DEF PathInv
    <2> DEFINE t == stack'
    <2> HIDE DEF t
    <2>2. /\ TypeOK /\ K \in Nat /\ DOMAIN stack = 1..(K + 1) /\ DOMAIN t = 1..K
          /\ \A i \in 1..K : t[i] = stack[i + 1]
          /\ state \in [NodeId -> States] /\ stack[1].todo = {}
      BY <1>1, <1>2, <1>3 DEF t
    <2>3. /\ \A m \in Adjacent(stack[1].id) : state[m] = "visited"
          /\ PathInv(t, [state EXCEPT ![stack[1].id] = "visited"])
      BY <1>4, <2>0, <2>2, PopPath, ZenonT(30)
    <2>4. VisitedInv([state EXCEPT ![stack[1].id] = "visited"])
      BY <1>5, <2>0, <2>1, <2>2, <2>3, PopVisited, ZenonT(30)
    <2>5. PathInv(stack', state') /\ VisitedInv(state')  BY <1>1, <1>3, <2>3, <2>4, Zenon DEF t
    <2> QED  BY <1>1, <1>2, <1>3, <1>6, <1>8, <2>5, SearchStep
  <1> QED  BY <1>7, <1>8

(* All roots are visited, or a cycle is known.                              *)
LEMMA VisitedStep ==
  ASSUME IInv, Visited
  PROVE  IInv'
  <1>1. /\ pc = "cycle" /\ pc' = "done" /\ stack = <<>>
        /\ hasCycle \/ \A n \in Ids : state[n] # "unvisited"
        /\ errors' = errors \cup When(hasCycle, "cycle_detected")
        /\ UNCHANGED <<nodes, edges, queue, reachable, state, stack, hasCycle>>
    BY DEF Visited
  <1>2. /\ TypeOK /\ ReachInv /\ CycleInv /\ queue = {} /\ "cycle_detected" \notin errors
        /\ "unreachable_node" \in errors <=> ~(Ids \subseteq reachable)
    BY ZenonT(60), <1>1 DEF IInv
  <1>3. Ids' = Ids  BY ZenonT(60), <1>1 DEF Ids
  <1>4. TypeOK'
    <2>1. errors' \subseteq Codes \ {"invalid_edge_reference"}
      BY ZenonT(60), <1>1, <1>2 DEF TypeOK, When, Codes
    <2> QED  BY ZenonT(60), <1>1, <1>2, <1>3, <2>1 DEF TypeOK
  <1>5. ReachInv' /\ CycleInv'  BY <1>1, <1>2, SameGraph DEF ReachInv, CycleInv
  <1>6. /\ "cycle_detected" \in errors' <=> hasCycle
        /\ "unreachable_node" \in errors' <=> ~(Ids \subseteq reachable)
    BY <1>1, <1>2 DEF When
  <1>7. ASSUME ~hasCycle, NEW n \in Ids PROVE state[n] = "visited"
    <2>1. DOMAIN stack = {}  BY <1>1
    <2>2. PathInv(stack, state)  BY <1>2, <1>7 DEF CycleInv
    <2>3. n \in NodeId  BY ZenonT(60), <1>2, Graph
    <2>4. state[n] # "visiting"  BY ZenonT(60), <2>1, <2>2, <2>3 DEF PathInv
    <2> QED  BY ZenonT(60), <1>1, <1>2, <1>7, <2>3, <2>4 DEF TypeOK
  <1> QED  BY ZenonT(60), <1>1, <1>2, <1>3, <1>4, <1>5, <1>6, <1>7 DEF IInv

(* Nothing happens.                                                         *)
LEMMA StutterStep ==
  ASSUME IInv, UNCHANGED vars
  PROVE  IInv'
  <1>1. UNCHANGED <<nodes, edges, pc, errors, queue, reachable, state, stack, hasCycle>>
    BY DEF vars
  <1>2. Ids' = Ids  BY ZenonT(60), <1>1 DEF Ids
  <1>3. TypeOK'  BY ZenonT(60), <1>1, <1>2 DEF IInv, TypeOK
  <1>4. ReachInv' <=> ReachInv  BY <1>1, SameGraph DEF ReachInv
  <1>5. CycleInv' <=> CycleInv  BY <1>1, SameGraph DEF CycleInv
  <1> QED  BY ZenonT(60), <1>1, <1>2, <1>3, <1>4, <1>5 DEF IInv

(* No step of the parser or of either search breaks the invariant.          *)
THEOREM StepIInv == IInv /\ [Next]_vars => IInv'
  <1> SUFFICES ASSUME IInv, [Next]_vars PROVE IInv'  OBVIOUS
  <1>1. CASE ParseNode \/ ParseEdge  BY <1>1, ParseStep
  <1>2. CASE CheckElements  BY <1>2, CheckStep
  <1>3. CASE Reach  BY ZenonT(60), <1>3, ReachStep
  <1>4. CASE Reached  BY <1>4, ReachedStep
  <1>5. CASE VisitRoot  BY <1>5, RootStep
  <1>6. CASE VisitTarget  BY <1>6, TargetStep
  <1>7. CASE VisitReturn  BY <1>7, ReturnStep
  <1>8. CASE Visited  BY <1>8, VisitedStep
  <1>9. CASE Returned \/ UNCHANGED vars  BY <1>9, StutterStep DEF Returned
  <1> QED  BY ZenonT(60), <1>1, <1>2, <1>3, <1>4, <1>5, <1>6, <1>7, <1>8, <1>9 DEF Next

(* The invariant holds of every run of parseWorkflowDefinition and          *)
(* ValidateWorkflowDefinition, on any set of nodes and edges.               *)
THEOREM IInvHolds == Spec => []IInv
  <1>1. Init => IInv  BY InitIInv
  <1>2. IInv /\ [Next]_vars => IInv'  BY StepIInv
  <1> QED  BY <1>1, <1>2, PTL DEF Spec

(* Types; parseWorkflowDefinition lets no duplicate id and no dangling edge *)
(* through to the validator, which thus never reports one.                  *)
THEOREM TypeCorrect == Spec => []TypeOK
  <1>1. IInv => TypeOK  BY DEF IInv
  <1> QED  BY <1>1, IInvHolds, PTL

(* The breadth-first and the depth-first search of                          *)
(* ValidateWorkflowDefinition report an unreachable node and a cycle        *)
(* exactly if there is one, on any graph and in any order of the visits.    *)
THEOREM SearchesExactHolds == Spec => []SearchesExact
  <1>1. ASSUME IInv PROVE SearchesExact
    <2> SUFFICES ASSUME pc = "done"
                 PROVE  /\ "unreachable_node" \in errors <=> FromTriggers # Ids
                        /\ "cycle_detected" \in errors <=> ~Acyclic
      BY DEF SearchesExact
    <2>1. /\ TypeOK /\ ReachInv /\ queue = {} /\ CycleInv
          /\ "unreachable_node" \in errors <=> ~(Ids \subseteq reachable)
          /\ "cycle_detected" \in errors <=> hasCycle
          /\ ~hasCycle => \A n \in Ids : state[n] = "visited"
      BY <1>1 DEF IInv
    <2>2. FromTriggers = reachable
      <3>1. \A S \in SUBSET Ids : Triggers \subseteq S /\ Closed(S) => reachable \subseteq S
        BY <2>1, Graph DEF ReachInv
      <3>2. reachable \in SUBSET Ids /\ Triggers \subseteq reachable /\ Closed(reachable)
        <4>1. reachable \in SUBSET Ids  BY <2>1 DEF TypeOK
        <4>2. \A n \in reachable : Adjacent(n) \subseteq reachable  BY <2>1 DEF ReachInv
        <4>3. Closed(reachable)  BY <2>1, <4>1, <4>2, Graph
        <4> QED  BY <2>1, <4>1, <4>3 DEF ReachInv
      <3>3. reachable \subseteq FromTriggers  BY <3>1, <3>2 DEF FromTriggers
      <3>4. FromTriggers \subseteq reachable  BY <3>2 DEF FromTriggers
      <3> QED  BY <3>3, <3>4
    <2>3. reachable \subseteq Ids  BY <2>1 DEF TypeOK
    <2>4. Acyclic <=> \A S \in SUBSET Ids : ~Looping(S)
      <3>1. \A n : Successors({n}) = Adjacent(n)  BY <2>1, Graph
      <3> QED  BY <3>1, Zenon DEF Acyclic, Looping
    <2>5. hasCycle <=> ~Acyclic
      <3>1. CASE hasCycle  BY <2>1, <2>4, <3>1 DEF CycleInv
      <3>2. CASE ~hasCycle
        <4>1. VisitedInv(state)  BY <2>1, <3>2 DEF CycleInv
        <4>2. \A S \in SUBSET Ids : S \in SUBSET NodeId /\ \A n \in S : state[n] = "visited"
          BY <2>1, <3>2, Graph
        <4>3. \A S \in SUBSET Ids : ~Looping(S)  BY <4>1, <4>2 DEF VisitedInv
        <4> QED  BY <2>4, <3>2, <4>3
      <3> QED  BY <3>1, <3>2
    <2> QED  BY <2>1, <2>2, <2>3, <2>5
  <1> QED  BY <1>1, IInvHolds, PTL
-----------------------------------------------------------------------------
(* What the checks of the elements found is kept while the searches add     *)
(* their own codes, and a definition is a finite list of nodes.             *)
Searched == {"unreachable_node", "cycle_detected"}

CheckInv ==
  /\ IsFiniteSet(Ids)
  /\ pc \in {"reach", "cycle", "done"} =>
       errors \ Searched = NodeErrors \cup EdgeErrors \cup DegreeErrors

(* The checks of the elements have codes of their own.                      *)
LEMMA ElementCodes ==
  (NodeErrors \cup EdgeErrors \cup DegreeErrors) \cap Searched = {}
  <1>1. NodeErrors \cap Searched = {}  BY DEF NodeErrors, When, Searched
  <1>2. EdgeErrors \cap Searched = {}  BY DEF EdgeErrors, When, Searched
  <1>3. DegreeErrors \cap Searched = {}  BY DEF DegreeErrors, When, Searched
  <1> QED  BY <1>1, <1>2, <1>3

(* Parsing adds one node at a time, and the searches only their codes.      *)
LEMMA CheckInvStep == CheckInv /\ [Next]_vars => CheckInv'
  <1> SUFFICES ASSUME CheckInv, [Next]_vars PROVE CheckInv'  OBVIOUS
  <1>1. CASE ParseNode \/ ParseEdge
    <2>1. pc' \in {"nodes", "edges", "rejected"}
      BY <1>1 DEF ParseNode, ParseEdge, Reject
    <2>2. \/ nodes' = nodes \/ nodes' = {} \/ \E n : nodes' = nodes \cup {n}
      BY <1>1 DEF ParseNode, ParseEdge, Reject
    <2>3. \/ Ids' = Ids \/ Ids' = {} \/ \E x : Ids' = Ids \cup {x}
      <3>1. ASSUME NEW n, nodes' = nodes \cup {n} PROVE Ids' = Ids \cup {n.id}
        BY <3>1 DEF Ids
      <3> QED  BY ZenonT(60), <2>2, <3>1 DEF Ids
    <2>4. IsFiniteSet(Ids')
      <3>1. IsFiniteSet(Ids)  BY DEF CheckInv
      <3>2. IsFiniteSet({})  BY FS_EmptySet
      <3>3. ASSUME NEW x PROVE IsFiniteSet(Ids \cup {x})  BY <3>1, FS_AddElement
      <3> QED  BY Zenon, <2>3, <3>1, <3>2, <3>3
    <2> QED  BY <2>1, <2>4 DEF CheckInv
  <1>2. CASE ~(ParseNode \/ ParseEdge)
    <2>1. nodes' = nodes /\ edges' = edges
      BY <1>2 DEF Next, CheckElements, Reach, Reached, VisitRoot, VisitTarget, VisitReturn,
                  Visited, Returned, vars
    <2>2. /\ Ids' = Ids /\ NodeErrors' = NodeErrors
          /\ EdgeErrors' = EdgeErrors /\ DegreeErrors' = DegreeErrors
      <3>1. Ids' = Ids /\ Triggers' = Triggers /\ Conditions' = Conditions
        BY <2>1 DEF Ids, Triggers, Conditions
      <3>2. NodeErrors' = NodeErrors  BY ZenonT(60), <2>1, <3>1 DEF NodeErrors
      <3>3. EdgeErrors' = EdgeErrors  BY <2>1, <3>1 DEF EdgeErrors
      <3>4. DegreeErrors' = DegreeErrors  BY <2>1, <3>1 DEF DegreeErrors
      <3> QED  BY <3>1, <3>2, <3>3, <3>4
    <2>3. CASE CheckElements
      <3>1. errors' = NodeErrors \cup EdgeErrors \cup DegreeErrors
        BY <2>3 DEF CheckElements
      <3> QED  BY <2>2, <3>1, ElementCodes DEF CheckInv
    <2>4. CASE ~CheckElements
      <3>1. /\ pc' \in {"reach", "cycle", "done"} => pc \in {"reach", "cycle", "done"}
            /\ errors' \ Searched = errors \ Searched
        BY <1>2, <2>4 DEF Next, Reach, Reached, VisitRoot, VisitTarget, VisitReturn,
                          Visited, Returned, vars, When, Searched
      <3> QED  BY <2>2, <3>1 DEF CheckInv
    <2> QED  BY <2>3, <2>4
  <1> QED  BY <1>1, <1>2

(* What the checks of the elements found, on every run.                     *)
LEMMA CheckInvHolds == Spec => []CheckInv
  <1>1. Init => CheckInv
    <2> SUFFICES ASSUME Init PROVE CheckInv  OBVIOUS
    <2>1. Ids = {} /\ pc = "nodes"  BY DEF Init, Ids
    <2> QED  BY <2>1, FS_EmptySet DEF CheckInv
  <1> QED  BY <1>1, CheckInvStep, PTL DEF Spec

(* Every set of natural numbers has a smallest element.                     *)
LEMMA Smallest ==
  ASSUME NEW C, C \subseteq Nat, C # {}
  PROVE  \E x \in C : \A y \in C : x <= y
  <1> DEFINE R == OpToRel(<, Nat)
  <1>1. IsWellFoundedOn(R, Nat)  BY NatLessThanWellFounded
  <1>2. \A x, y \in Nat : x < y => <<x, y>> \in R  BY DEF OpToRel
  <1> HIDE DEF R
  <1>3. PICK x \in C : \A y \in C : ~(<<y, x>> \in R)  BY ZenonT(60), <1>1, WFMin
  <1>4. \A y \in C : ~(y < x)  BY ZenonT(60), <1>2, <1>3
  <1> QED  BY <1>4

(* Nodes that each have a predecessor among them contain a cycle: a         *)
(* smallest such set has no node that leads out of it, which could go.      *)
LEMMA Backwards ==
  ASSUME TypeOK, IsFiniteSet(Ids), NEW S \in SUBSET Ids, S # {},
         \A n \in S : \E m \in S : n \in Adjacent(m)
  PROVE  \E T \in SUBSET Ids : Looping(T)
  <1> DEFINE Led(T) == T # {} /\ \A n \in T : \E m \in T : n \in Adjacent(m)
             C == {Cardinality(T) : T \in {U \in SUBSET Ids : Led(U)}}
  <1>1. \A T \in SUBSET Ids : IsFiniteSet(T) /\ Cardinality(T) \in Nat
    BY FS_Subset, FS_CardinalityType
  <1>2. C \subseteq Nat /\ Cardinality(S) \in C  BY <1>1
  <1>3. PICK x \in C : \A y \in C : x <= y
    <2> HIDE DEF C
    <2> QED  BY ZenonT(60), <1>2, Smallest
  <1>4. PICK T \in SUBSET Ids : Led(T) /\ Cardinality(T) = x  BY ZenonT(60), <1>3
  <1>5. ASSUME NEW n \in T, Adjacent(n) \cap T = {} PROVE FALSE
    <2>1. Led(T \ {n})
      <3>1. PICK m \in T : n \in Adjacent(m)  BY <1>4
      <3>2. m \in T \ {n}  BY <1>5, <3>1
      <3>3. \A k \in T \ {n} : \E j \in T \ {n} : k \in Adjacent(j)  BY <1>4, <1>5
      <3> QED  BY <3>2, <3>3
    <2>2. Cardinality(T \ {n}) \in C  BY ZenonT(60), <2>1
    <2>3. Cardinality(T \ {n}) = Cardinality(T) - 1  BY <1>1, FS_RemoveElement
    <2>4. Cardinality(T) <= Cardinality(T \ {n})  BY ZenonT(60), <1>3, <1>4, <2>2
    <2> QED  BY <1>1, <2>3, <2>4
  <1>6. Looping(T)  BY <1>4, <1>5 DEF Looping
  <1> QED  BY <1>6

(* A finite graph without cycles, all of which the triggers reach, always   *)
(* has a node to start next, and one that waits for nothing is a trigger.   *)
LEMMA AcyclicSchedulable ==
  ASSUME TypeOK, IsFiniteSet(Ids), \A S \in SUBSET Ids : ~Looping(S), FromTriggers = Ids
  PROVE  Schedulable
  <1> SUFFICES ASSUME NEW D \in (SUBSET Ids) \ {Ids}
               PROVE  \E n \in Ids \ D : /\ \A e \in edges : e.to = n => e.from \in D
                                         /\ (\A e \in edges : e.to # n) => n \in Triggers
    BY DEF Schedulable
  <1>1. PICK n \in Ids \ D : \A m \in Ids \ D : n \notin Adjacent(m)
    <2> DEFINE S == Ids \ D
    <2>1. S \in SUBSET Ids /\ S # {}
      <3>1. D \subseteq Ids /\ D # Ids  OBVIOUS
      <3> QED  BY <3>1
    <2> HIDE DEF S
    <2>2. ~\A n \in S : \E m \in S : n \in Adjacent(m)  BY <2>1, Backwards, Zenon
    <2> QED  BY <2>2 DEF S
  <1>2. \A e \in edges : e.to = n => e.from \in D
    BY <1>1 DEF TypeOK, Adjacent
  <1>3. ASSUME \A e \in edges : e.to # n, n \notin Triggers PROVE FALSE
    <2> DEFINE S == Ids \ {n}
    <2>1. Triggers \subseteq S  BY ZenonT(60), <1>3, Graph
    <2>2. Closed(S)  BY <1>3 DEF TypeOK, Closed, Successors
    <2>3. n \in S  BY ZenonT(60), <2>1, <2>2 DEF FromTriggers
    <2> QED  BY <2>3
  <1> QED  BY ZenonT(60), <1>1, <1>2, <1>3

(* The checks of the elements pass exactly if the conditions of             *)
(* Publishable that concern single nodes and edges hold, but for the loops  *)
(* of one edge, which are cycles.                                           *)
LEMMA ElementsExact ==
  ASSUME TypeOK
  PROVE  NodeErrors \cup EdgeErrors \cup DegreeErrors = {} <=>
           /\ Triggers # {} /\ Triggers # Ids
           /\ \A e \in edges : e.to \notin Triggers
           /\ \A n \in Ids : \E e \in edges : n \in {e.from, e.to}
           /\ \A e, f \in edges : e.from = f.from /\ e.to = f.to => e = f
           /\ \A n \in nodes : n.type = "trigger" \/ n.config = "good"
           /\ \A e \in edges : \/ e.condition \in {"null", "branch"}
                               \/ e.condition = "object" /\ e.from \notin Conditions
           /\ \A e \in edges : e.from # e.to
  <1>1. NodeErrors = {} <=> /\ Triggers # {} /\ Triggers # Ids
                            /\ \A n \in nodes : n.type = "trigger" \/ n.config = "good"
    BY DEF NodeErrors, When, TypeOK, Node
  <1>2. DegreeErrors = {} <=> /\ \A e \in edges : e.to \notin Triggers
                              /\ \A n \in Ids : \E e \in edges : n \in {e.from, e.to}
    BY DEF DegreeErrors, When, TypeOK
  <1>3. \A e \in edges : e.condition \in {"null", "branch", "object", "other"}
    BY ZenonT(60), ValidationAssumption DEF TypeOK, Edge
  <1>4. EdgeErrors = {} <=>
          \A e \in edges :
            /\ {e.from, e.to} \cap Ids = {e.from, e.to}
            /\ e.from # e.to
            /\ ~\E f \in edges : f # e /\ f.from = e.from /\ f.to = e.to
            /\ e.condition # "other"
            /\ ~(e.from \in Conditions /\ ~IsBranch(e.condition))
    <2> DEFINE Of(e) ==
                 When({e.from, e.to} \cap Ids # {e.from, e.to}, "invalid_edge_reference")
                 \cup When(e.from = e.to, "self_loop")
                 \cup When(\E f \in edges : f # e /\ f.from = e.from /\ f.to = e.to,
                           "duplicate_edge")
                 \cup When(e.condition = "other", "unsupported_config_shape")
                 \cup When(e.from \in Conditions /\ ~IsBranch(e.condition),
                           "invalid_condition_branch")
    <2>1. EdgeErrors = UNION {Of(e) : e \in edges}  BY DEF EdgeErrors
    <2>2. ASSUME NEW e \in edges
          PROVE  Of(e) = {} <=>
                   /\ {e.from, e.to} \cap Ids = {e.from, e.to}
                   /\ e.from # e.to
                   /\ ~\E f \in edges : f # e /\ f.from = e.from /\ f.to = e.to
                   /\ e.condition # "other"
                   /\ ~(e.from \in Conditions /\ ~IsBranch(e.condition))
      <3>1. \A b, c : When(b, c) = {} <=> ~b  BY DEF When
      <3> QED  BY <3>1, ZenonT(60)
    <2> HIDE DEF Of
    <2>3. EdgeErrors = {} <=> \A e \in edges : Of(e) = {}  BY <2>1
    <2> QED  BY ZenonT(60), <2>2, <2>3
  <1>5. \A e \in edges : {e.from, e.to} \cap Ids = {e.from, e.to}  BY DEF TypeOK
  <1> QED  BY ZenonT(60), <1>1, <1>2, <1>3, <1>4, <1>5 DEF IsBranch

(* ValidateWorkflowDefinition accepts a stored definition of any size       *)
(* exactly if it is publishable as documented, and AdvanceExecution never   *)
(* gets stuck in one that it accepts.                                       *)
THEOREM ValidExactlyHolds == Spec => []ValidExactly
  <1>1. ASSUME IInv, CheckInv, SearchesExact PROVE ValidExactly
    <2> SUFFICES ASSUME pc = "done"
                 PROVE  /\ errors = {} <=> Publishable
                        /\ errors = {} => Schedulable
                        /\ "invalid_edge_reference" \notin errors
      BY ZenonT(60) DEF ValidExactly
    <2>1. TypeOK /\ IsFiniteSet(Ids)  BY <1>1 DEF IInv, CheckInv
    <2>2. errors = {} <=> /\ NodeErrors \cup EdgeErrors \cup DegreeErrors = {}
                          /\ "unreachable_node" \notin errors
                          /\ "cycle_detected" \notin errors
      BY <1>1 DEF CheckInv, Searched
    <2>3. /\ "unreachable_node" \notin errors <=> FromTriggers = Ids
          /\ "cycle_detected" \notin errors <=> Acyclic
      BY ZenonT(60), <1>1 DEF SearchesExact
    <2>4. Acyclic <=> \A S \in SUBSET Ids : ~Looping(S)
      <3>1. \A n : Successors({n}) = Adjacent(n)  BY <2>1, Graph
      <3> QED  BY <3>1, Zenon DEF Acyclic, Looping
    <2>5. Acyclic => \A e \in edges : e.from # e.to
      <3> SUFFICES ASSUME NEW e \in edges, e.from = e.to PROVE Looping({e.from})
        <4>1. \A e \in edges : {e.from} \in SUBSET Ids  BY ZenonT(60), <2>1 DEF TypeOK
        <4> QED  BY Zenon, <2>4, <4>1
      <3>1. e.from \in Adjacent(e.from)  BY <2>1 DEF TypeOK, Adjacent
      <3> QED  BY <3>1 DEF Looping
    <2>6. errors = {} <=> Publishable
      BY ZenonT(60), <2>1, <2>2, <2>3, <2>5, ElementsExact DEF Publishable
    <2>7. errors = {} => Schedulable
      BY ZenonT(60), <2>1, <2>2, <2>3, <2>4, AcyclicSchedulable
    <2>8. "invalid_edge_reference" \notin errors
      BY Zenon, <2>1 DEF TypeOK
    <2> QED  BY <2>6, <2>7, <2>8
  <1> QED  BY <1>1, IInvHolds, CheckInvHolds, SearchesExactHolds, PTL
-----------------------------------------------------------------------------
(* The calls have nodes of the definition left to look at, also when a      *)
(* cycle is known.                                                          *)
TodoInv == \A i \in DOMAIN stack : stack[i].todo \subseteq Ids

(* The frame that looks at a target, and the ones below it.                 *)
LEMMA TopFrame ==
  ASSUME TypeOK, stack # <<>>, NEW n \in Head(stack).todo,
         NEW rest, rest = <<[Head(stack) EXCEPT !.todo = @ \ {n}]>> \o Tail(stack)
  PROVE  /\ Len(stack) \in Nat \ {0} /\ DOMAIN stack = 1..Len(stack) /\ Head(stack) = stack[1]
         /\ rest \in Seq(Frame) /\ DOMAIN rest = 1..Len(stack)
         /\ rest[1].todo = stack[1].todo \ {n}
         /\ \A i \in 2..Len(stack) : rest[i] = stack[i]
  <1> DEFINE x == [Head(stack) EXCEPT !.todo = @ \ {n}]
             K == Len(stack) - 1
  <1>1. /\ K \in Nat /\ Len(stack) = K + 1 /\ DOMAIN stack = 1..(K + 1)
        /\ Head(stack) = stack[1] /\ Head(stack) \in Frame
        /\ Tail(stack) \in Seq(Frame) /\ DOMAIN Tail(stack) = 1..K
        /\ \A i \in 1..K : Tail(stack)[i] = stack[i + 1]
    BY Pop DEF TypeOK
  <1>2. x \in Frame /\ x.todo = stack[1].todo \ {n}  BY ZenonT(60), <1>1 DEF Frame
  <1> HIDE DEF x, K
  <1>3. Len(Tail(stack)) = K  BY <1>1
  <1>4. /\ rest \in Seq(Frame) /\ rest[1] = x /\ DOMAIN rest = 1..(K + 1)
        /\ \A i \in 1..K : rest[i + 1] = Tail(stack)[i]
    BY SMTT(30), <1>1, <1>2, <1>3, Push DEF x
  <1>5. \A i \in 2..(K + 1) : rest[i] = stack[i]
    <2> SUFFICES ASSUME NEW i \in 2..(K + 1) PROVE rest[i] = stack[i]  BY Zenon
    <2>1. i - 1 \in 1..K /\ (i - 1) + 1 = i  BY <1>1
    <2> QED  BY <1>1, <1>4, <2>1
  <1> QED  BY SMTT(30), <1>1, <1>2, <1>4, <1>5

(* No step leaves a call something else to look at.                         *)
LEMMA TodoStep == IInv /\ TodoInv /\ [Next]_vars => TodoInv'
  <1> SUFFICES ASSUME IInv, TodoInv, [Next]_vars PROVE TodoInv'  BY ZenonT(60)
  <1>0. TypeOK /\ stack \in Seq(Frame)  BY ZenonT(60) DEF IInv, TypeOK
  <1>1. CASE ParseNode \/ ParseEdge
    <2>1. stack' = <<>>  BY ZenonT(60), <1>1 DEF IInv, ParseNode, ParseEdge
    <2> QED  BY SMTT(30), <2>1 DEF TodoInv
  <1>2. CASE UNCHANGED <<nodes, stack>>  BY <1>2 DEF TodoInv, Ids
  <1>3. ASSUME nodes' = nodes, NEW n \in Ids, NEW below \in Seq(Frame), Visit(n, below),
               \A i \in DOMAIN below : below[i].todo \subseteq Ids
        PROVE  TodoInv'
    <2>1. Ids' = Ids  BY ZenonT(60), <1>3 DEF Ids
    <2>2. CASE hasCycle  BY ZenonT(60), <1>3, <2>1, <2>2 DEF Visit, TodoInv
    <2>3. CASE ~hasCycle
      <3> DEFINE x == [id |-> n, todo |-> Adjacent(n)]
      <3>1. x \in Frame /\ x.todo \subseteq Ids  BY ZenonT(60), <1>0, Graph DEF Frame
      <3>2. stack' = <<x>> \o below  BY ZenonT(60), <1>3, <2>3 DEF Visit
      <3> HIDE DEF x
      <3>3. /\ Len(below) \in Nat /\ DOMAIN below = 1..Len(below)
            /\ DOMAIN stack' = 1..(Len(below) + 1) /\ stack'[1] = x
            /\ \A i \in 1..Len(below) : stack'[i + 1] = below[i]
        BY <1>3, <3>1, <3>2, Push
      <3>4. ASSUME NEW i \in DOMAIN stack' PROVE stack'[i].todo \subseteq Ids
        <4>1. CASE i = 1  BY ZenonT(60), <3>1, <3>3, <4>1
        <4>2. CASE i # 1
          <5>1. i - 1 \in 1..Len(below) /\ (i - 1) + 1 = i  BY <3>3, <4>2
          <5> QED  BY ZenonT(60), <1>3, <3>3, <5>1
        <4> QED  BY ZenonT(60), <4>1, <4>2
      <3> QED  BY <2>1, <3>4 DEF TodoInv
    <2> QED  BY <2>2, <2>3
  <1>4. CASE VisitRoot
    <2>1. nodes' = nodes /\ \E n \in Ids : Visit(n, <<>>)  BY <1>4 DEF VisitRoot
    <2>2. <<>> \in Seq(Frame) /\ \A i \in DOMAIN <<>> : <<>>[i].todo \subseteq Ids  OBVIOUS
    <2> QED  BY ZenonT(60), <1>3, <2>1, <2>2
  <1>5. ASSUME stack # <<>>, nodes' = nodes, stack' = Tail(stack)  PROVE TodoInv'
    <2>1. Ids' = Ids  BY <1>5 DEF Ids
    <2>2. \A i \in DOMAIN Tail(stack) : i + 1 \in DOMAIN stack /\ Tail(stack)[i] = stack[i + 1]
      BY SMTT(30), <1>0, <1>5, Pop
    <2> QED  BY ZenonT(60), <1>5, <2>1, <2>2 DEF TodoInv
  <1>6. CASE VisitTarget
    <2>1. PICK n \in Head(stack).todo :
            LET rest == <<[Head(stack) EXCEPT !.todo = @ \ {n}]>> \o Tail(stack)
            IN  stack' = Tail(stack) \/ Visit(n, rest) \/ stack' = rest
      BY ZenonT(60), <1>6 DEF VisitTarget
    <2>2. stack # <<>> /\ nodes' = nodes  BY <1>6 DEF VisitTarget
    <2> DEFINE rest == <<[Head(stack) EXCEPT !.todo = @ \ {n}]>> \o Tail(stack)
    <2>3. /\ DOMAIN stack = 1..Len(stack) /\ Len(stack) \in Nat \ {0} /\ Head(stack) = stack[1]
          /\ rest \in Seq(Frame) /\ DOMAIN rest = 1..Len(stack)
          /\ rest[1].todo = stack[1].todo \ {n}
          /\ \A i \in 2..Len(stack) : rest[i] = stack[i]
      BY ZenonT(60), <1>0, <2>2, TopFrame
    <2>4. stack' = Tail(stack) \/ Visit(n, rest) \/ stack' = rest  BY ZenonT(60), <2>1
    <2> HIDE DEF rest
    <2>5. \A i \in DOMAIN rest : rest[i].todo \subseteq Ids
      <3> SUFFICES ASSUME NEW i \in DOMAIN rest PROVE rest[i].todo \subseteq Ids  OBVIOUS
      <3>1. i = 1 \/ i \in 2..Len(stack)  BY <2>3
      <3> QED  BY ZenonT(60), <2>3, <3>1 DEF TodoInv
    <2>6. n \in Ids
      <3>1. 1 \in DOMAIN stack  BY <2>3
      <3> QED  BY ZenonT(60), <2>3, <3>1 DEF TodoInv
    <2>7. CASE stack' = rest
      <3>1. Ids' = Ids  BY <2>2 DEF Ids
      <3> QED  BY ZenonT(60), <2>5, <2>7, <3>1 DEF TodoInv
    <2> QED  BY ZenonT(60), <1>3, <1>5, <2>2, <2>3, <2>4, <2>5, <2>6, <2>7
  <1>7. CASE VisitReturn  BY ZenonT(60), <1>5, <1>7 DEF VisitReturn
  <1> QED
    BY Zenon, <1>1, <1>2, <1>4, <1>6, <1>7
    DEF Next, vars, CheckElements, Reach, Reached, Visited, Returned

(* The calls that are open have what they have left to look at, and a place *)
(* of their own: what is pending is finite.                                 *)
LEMMA PendingFinite ==
  ASSUME IInv, TodoInv, CheckInv
  PROVE  /\ IsFiniteSet(Pending) /\ Cardinality(Pending) \in Nat
         /\ IsFiniteSet(Unfound) /\ Cardinality(Unfound) \in Nat
  <1>0. IsFiniteSet(Ids) /\ queue \subseteq Ids /\ stack \in Seq(Frame)
    BY DEF IInv, TypeOK, CheckInv
  <1>1. IsFiniteSet(Unfound)
    <2>1. Unfound \in SUBSET Ids  BY Zenon DEF Unfound
    <2> QED  BY Zenon, <1>0, <2>1, FS_Subset
  <1>2. CASE pc = "reach"
    <2>1. IsFiniteSet({0}) /\ IsFiniteSet({0} \X Ids)
      BY Zenon, <1>0, FS_Singleton, FS_Product
    <2>2. Pending \in SUBSET ({0} \X Ids)  BY <1>0, <1>2 DEF Pending
    <2> QED  BY Zenon, <1>1, <2>1, <2>2, FS_Subset, FS_CardinalityType
  <1>3. CASE pc # "reach"
    <2>1. Len(stack) \in Nat /\ DOMAIN stack = 1..Len(stack)  BY <1>0
    <2>2. IsFiniteSet(1..Len(stack)) /\ IsFiniteSet(Ids \cup {None})
      <3>1. 1 \in Int /\ Len(stack) \in Int  BY <2>1
      <3> QED  BY Zenon, <1>0, <3>1, FS_Interval, FS_AddElement
    <2>3. IsFiniteSet((DOMAIN stack) \X (Ids \cup {None}))  BY Zenon, <2>1, <2>2, FS_Product
    <2>4. Pending \in SUBSET ((DOMAIN stack) \X (Ids \cup {None}))
      BY Zenon, <1>3 DEF Pending, TodoInv
    <2> QED  BY Zenon, <1>1, <2>3, <2>4, FS_Subset, FS_CardinalityType
  <1> QED  BY ZenonT(60), <1>2, <1>3

(* A part of a finite set has fewer elements.                               *)
LEMMA Fewer ==
  ASSUME NEW S, NEW T, IsFiniteSet(S), T \subseteq S, NEW x \in S, x \notin T
  PROVE  Cardinality(T) < Cardinality(S)
  <1>1. IsFiniteSet(T) /\ Cardinality(T) <= Cardinality(S) /\ Cardinality(S) # Cardinality(T)
    BY Zenon, FS_Subset
  <1>2. Cardinality(S) \in Nat /\ Cardinality(T) \in Nat  BY Zenon, <1>1, FS_CardinalityType
  <1> QED  BY <1>1, <1>2

(* A call returns: the calls left have one place less.                      *)
LEMMA FewerPending ==
  ASSUME IInv, TodoInv, CheckInv, pc = "cycle", pc' = pc, stack # <<>>, stack' = Tail(stack)
  PROVE  Cardinality(Pending') < Cardinality(Pending)
  <1> DEFINE f == [p \in Pending' |-> <<p[1] + 1, p[2]>>]
  <1>1. /\ Len(stack) \in Nat \ {0} /\ DOMAIN stack = 1..Len(stack)
        /\ DOMAIN stack' = 1..(Len(stack) - 1)
        /\ \A i \in 1..(Len(stack) - 1) : stack'[i] = stack[i + 1]
    BY Pop DEF IInv, TypeOK
  <1>2. ASSUME NEW p \in Pending'
        PROVE  /\ p[1] \in 1..(Len(stack) - 1) /\ p = <<p[1], p[2]>>
               /\ <<p[1] + 1, p[2]>> \in Pending
    <2>1. /\ p \in (DOMAIN stack') \X (NodeId \cup {None})
          /\ p[2] = None \/ p[2] \in stack'[p[1]].todo
      BY Zenon, <1>2 DEF Pending
    <2>2. /\ p[1] \in 1..(Len(stack) - 1) /\ p[2] \in NodeId \cup {None}
          /\ p = <<p[1], p[2]>> /\ p[1] + 1 \in 1..Len(stack)
      BY <1>1, <2>1
    <2>3. p[2] = None \/ p[2] \in stack[p[1] + 1].todo  BY Zenon, <1>1, <2>1, <2>2
    <2> DEFINE q == <<p[1] + 1, p[2]>>
    <2>4. q \in (DOMAIN stack) \X (NodeId \cup {None}) /\ q[1] = p[1] + 1 /\ q[2] = p[2]
      BY <1>1, <2>2
    <2> HIDE DEF q
    <2>5. q \in Pending  BY Zenon, <2>3, <2>4 DEF Pending
    <2> QED  BY <2>2, <2>5 DEF q
  <1>3. f \in Injection(Pending', Pending)
    <2>1. f \in [Pending' -> Pending]  BY <1>2
    <2>2. ASSUME NEW a \in Pending', NEW b \in Pending', f[a] = f[b]  PROVE a = b
      <3>1. a[1] + 1 = b[1] + 1 /\ a[2] = b[2]  BY <2>2
      <3>2. a[1] \in 1..(Len(stack) - 1) /\ b[1] \in 1..(Len(stack) - 1)  BY Zenon, <1>2
      <3>3. a[1] = b[1]  BY <1>1, <3>1, <3>2
      <3> QED  BY Zenon, <1>2, <3>1, <3>3
    <2> HIDE DEF f
    <2> QED  BY <2>1, <2>2, Zenon DEF Injection, IsInjective
  <1>4. <<1, None>> \in Pending
    <2> DEFINE q == <<1, None>>
    <2>1. q \in (DOMAIN stack) \X (NodeId \cup {None}) /\ q[2] = None  BY <1>1
    <2> HIDE DEF q
    <2>2. q \in Pending  BY Zenon, <2>1 DEF Pending
    <2> QED  BY <2>2 DEF q
  <1>5. ASSUME NEW a \in Pending' PROVE f[a] # <<1, None>>
    <2>1. f[a] = <<a[1] + 1, a[2]>> /\ a[1] \in 1..(Len(stack) - 1)  BY <1>2
    <2> QED  BY <1>1, <2>1
  <1> HIDE DEF f
  <1>6. f \notin Surjection(Pending', Pending)  BY Zenon, <1>4, <1>5 DEF Surjection
  <1>7. IsFiniteSet(Pending) /\ Cardinality(Pending) \in Nat  BY Zenon, PendingFinite
  <1>8. /\ IsFiniteSet(Pending') /\ Cardinality(Pending') <= Cardinality(Pending)
        /\ Cardinality(Pending') # Cardinality(Pending)
    BY Zenon, <1>3, <1>6, <1>7, FS_Injection
  <1>9. Cardinality(Pending') \in Nat  BY Zenon, <1>8, FS_CardinalityType
  <1> QED  BY SMTT(30), <1>7, <1>8, <1>9

(* A target that was looked at is no longer pending.                        *)
LEMMA TargetDone ==
  ASSUME IInv, TodoInv, CheckInv, pc = "cycle", pc' = pc, stack # <<>>,
         NEW n \in Head(stack).todo,
         stack' = <<[Head(stack) EXCEPT !.todo = @ \ {n}]>> \o Tail(stack)
  PROVE  Cardinality(Pending') < Cardinality(Pending)
  <1> DEFINE q == <<1, n>>
  <1>0. TypeOK  BY DEF IInv
  <1>1. /\ Len(stack) \in Nat \ {0} /\ DOMAIN stack = 1..Len(stack) /\ Head(stack) = stack[1]
        /\ DOMAIN stack' = 1..Len(stack) /\ stack'[1].todo = stack[1].todo \ {n}
        /\ \A i \in 2..Len(stack) : stack'[i] = stack[i]
    BY ZenonT(60), <1>0, TopFrame
  <1>2. stack[1] \in Frame /\ 1 \in DOMAIN stack /\ n \in NodeId
    <2>1. 1 \in DOMAIN stack  BY SMTT(30), <1>1
    <2>2. stack[1] \in Frame  BY SMTT(30), <1>0, <2>1 DEF TypeOK
    <2> QED  BY ZenonT(60), <1>1, <2>1, <2>2 DEF Frame
  <1>3. q \in (DOMAIN stack) \X (NodeId \cup {None}) /\ q[1] = 1 /\ q[2] = n  BY <1>2
  <1>4. q \in Pending  BY Zenon, <1>1, <1>3 DEF Pending
  <1>5. n # None  BY Zenon, <1>2, ValidationAssumption
  <1>6. q \notin Pending'  BY Zenon, <1>1, <1>3, <1>5 DEF Pending
  <1>7. Pending' \subseteq Pending
    <2> SUFFICES ASSUME NEW p \in Pending' PROVE p \in Pending  BY Zenon
    <2>1. /\ p \in (DOMAIN stack') \X (NodeId \cup {None})
          /\ p[2] = None \/ p[2] \in stack'[p[1]].todo
      BY Zenon DEF Pending
    <2>2. p \in (DOMAIN stack) \X (NodeId \cup {None}) /\ p[1] \in 1..Len(stack)
      BY ZenonT(60), <1>1, <2>1
    <2>3. p[1] = 1 \/ p[1] \in 2..Len(stack)  BY <1>1, <2>2
    <2>4. stack'[p[1]].todo \subseteq stack[p[1]].todo
      <3>1. CASE p[1] = 1  BY Zenon, <1>1, <3>1
      <3>2. CASE p[1] \in 2..Len(stack)  BY Zenon, <1>1, <3>2
      <3> QED  BY Zenon, <2>3, <3>1, <3>2
    <2> QED  BY Zenon, <2>1, <2>2, <2>4 DEF Pending
  <1>8. IsFiniteSet(Pending)  BY Zenon, PendingFinite
  <1> HIDE DEF q
  <1> QED  BY Zenon, <1>4, <1>6, <1>7, <1>8, Fewer

(* Each step of a search finds a node, or has less to look at.              *)
LEMMA SearchAdvances == IInv /\ TodoInv /\ CheckInv /\ Next => Advances
  <1> SUFFICES ASSUME IInv, TodoInv, CheckInv, Next, pc \in {"reach", "cycle"}
               PROVE  Advances
    BY Zenon DEF Advances
  <1>0. IsFiniteSet(Unfound) /\ IsFiniteSet(Pending) /\ TypeOK
    BY Zenon, PendingFinite DEF IInv
  <1>1. CASE Reach
    <2>1. PICK current \in queue : /\ reachable' = reachable \cup Found(current)
                                   /\ queue' = (queue \ {current}) \cup Found(current)
      BY Zenon, <1>1 DEF Reach
    <2>2. pc = "reach" /\ pc' = "reach" /\ nodes' = nodes  BY Zenon, <1>1 DEF Reach
    <2>3. Ids' = Ids  BY Zenon, <2>2 DEF Ids
    <2>4. Unfound = Ids \ reachable /\ Unfound' = Ids \ reachable'
      BY Zenon, <2>2, <2>3 DEF Unfound
    <2>5. CASE Found(current) = {}
      <3>1. Unfound' = Unfound  BY ZenonT(60), <2>1, <2>4, <2>5
      <3>2. /\ Pending = {<<0, n>> : n \in queue} /\ Pending' = {<<0, n>> : n \in queue'}
            /\ queue' = queue \ {current}
        BY ZenonT(60), <2>1, <2>2, <2>5 DEF Pending
      <3>3. /\ <<0, current>> \in Pending /\ <<0, current>> \notin Pending'
            /\ Pending' \subseteq Pending
        BY <3>2
      <3>4. Cardinality(Pending') < Cardinality(Pending)  BY Zenon, <1>0, <3>3, Fewer
      <3> QED  BY Zenon, <3>1, <3>4 DEF Advances
    <2>6. CASE Found(current) # {}
      <3>1. PICK n : n \in Found(current)  BY ZenonT(60), <2>6
      <3>2. n \in Unfound /\ n \notin Unfound' /\ Unfound' \subseteq Unfound
        BY ZenonT(60), <2>1, <2>4, <3>1 DEF Found, Adjacent
      <3>3. Cardinality(Unfound') < Cardinality(Unfound)  BY Zenon, <1>0, <3>2, Fewer
      <3> QED  BY Zenon, <3>3 DEF Advances
    <2> QED  BY <2>5, <2>6
  <1>2. CASE Reached \/ Visited  BY <1>2 DEF Reached, Visited, Advances
  <1>3. ASSUME pc = "cycle", pc' = pc, nodes' = nodes, NEW n \in Ids, state[n] = "unvisited",
               state' = [state EXCEPT ![n] = "visiting"]
        PROVE  Advances
    <2>1. Ids' = Ids  BY Zenon, <1>3 DEF Ids
    <2>2. n \in NodeId /\ state \in [NodeId -> States]
      BY <1>0, Graph, Zenon DEF TypeOK, States
    <2>3. state'[n] = "visiting" /\ \A m \in NodeId : m # n => state'[m] = state[m]
      BY ZenonT(60), <1>3, <2>2
    <2>4. /\ Unfound = {m \in Ids : state[m] = "unvisited"}
          /\ Unfound' = {m \in Ids : state'[m] = "unvisited"}
      BY ZenonT(60), <1>3, <2>1 DEF Unfound
    <2>5. Ids \subseteq NodeId  BY Zenon, <1>0, Graph
    <2>6. n \in Unfound /\ n \notin Unfound' /\ Unfound' \subseteq Unfound
      BY ZenonT(60), <1>3, <2>3, <2>4, <2>5
    <2>7. Cardinality(Unfound') < Cardinality(Unfound)  BY Zenon, <1>0, <2>6, Fewer
    <2> QED  BY Zenon, <2>7 DEF Advances
  <1>4. CASE VisitRoot  BY Zenon, <1>3, <1>4 DEF VisitRoot, Visit
  <1>5. ASSUME pc = "cycle", pc' = pc, nodes' = nodes, state' = state,
               Cardinality(Pending') < Cardinality(Pending)
        PROVE  Advances
    <2>1. Unfound' = Unfound  BY <1>5 DEF Unfound, Ids
    <2> QED  BY Zenon, <1>5, <2>1 DEF Advances
  <1>6. CASE VisitTarget
    <2>0. pc = "cycle" /\ stack # <<>> /\ pc' = pc /\ nodes' = nodes
      BY Zenon, <1>6 DEF VisitTarget
    <2>1. PICK n \in Head(stack).todo :
            LET rest == <<[Head(stack) EXCEPT !.todo = @ \ {n}]>> \o Tail(stack)
            IN  \/ stack' = Tail(stack) /\ state' = state
                \/ state[n] = "unvisited" /\ Visit(n, rest)
                \/ stack' = rest /\ state' = state
      BY ZenonT(60), <1>6 DEF VisitTarget
    <2>2. n \in Ids
      <3>1. Head(stack) = stack[1] /\ 1 \in DOMAIN stack  BY <1>0, <2>0, Pop DEF TypeOK
      <3> QED  BY Zenon, <3>1 DEF TodoInv
    <2> DEFINE rest == <<[Head(stack) EXCEPT !.todo = @ \ {n}]>> \o Tail(stack)
    <2>3. CASE stack' = Tail(stack) /\ state' = state  BY Zenon, <1>5, <2>0, <2>3, FewerPending
    <2>4. CASE stack' = rest /\ state' = state  BY ZenonT(60), <1>5, <2>0, <2>4, TargetDone
    <2>5. CASE /\ state[n] = "unvisited" /\ ~hasCycle
               /\ state' = [state EXCEPT ![n] = "visiting"]
      BY ZenonT(60), <1>3, <2>0, <2>2, <2>5
    <2>6. \/ stack' = Tail(stack) /\ state' = state
          \/ stack' = rest /\ state' = state
          \/ state[n] = "unvisited" /\ ~hasCycle /\ state' = [state EXCEPT ![n] = "visiting"]
      BY ZenonT(60), <2>1 DEF Visit
    <2> QED  BY Zenon, <2>3, <2>4, <2>5, <2>6
  <1>7. CASE VisitReturn
    <2>0. pc = "cycle" /\ pc' = pc /\ nodes' = nodes /\ stack # <<>> /\ stack' = Tail(stack)
      BY Zenon, <1>7 DEF VisitReturn
    <2>1. Cardinality(Pending') < Cardinality(Pending)  BY Zenon, <2>0, FewerPending
    <2>2. Unfound' \subseteq Unfound
      <3>1. Ids' = Ids /\ Ids \subseteq NodeId  BY Zenon, <1>0, <2>0, Graph DEF Ids
      <3>2. /\ state \in [NodeId -> States]
            /\ state' = [state EXCEPT ![Head(stack).id] = "visited"]
        BY Zenon, <1>0, <1>7 DEF VisitReturn, TypeOK, States
      <3>3. \A m \in NodeId : state'[m] = "unvisited" => state[m] = "unvisited"  BY <3>2
      <3> QED  BY <2>0, <3>1, <3>3 DEF Unfound
    <2>3. CASE Unfound' = Unfound  BY Zenon, <2>1, <2>3 DEF Advances
    <2>4. CASE Unfound' # Unfound
      <3>1. PICK x : x \in Unfound /\ x \notin Unfound'  BY <2>2, <2>4
      <3>2. Cardinality(Unfound') < Cardinality(Unfound)  BY Zenon, <1>0, <2>2, <3>1, Fewer
      <3> QED  BY Zenon, <3>2 DEF Advances
    <2> QED  BY <2>3, <2>4
  <1>8. ~(ParseNode \/ ParseEdge \/ CheckElements \/ Returned)
    BY DEF ParseNode, ParseEdge, CheckElements, Returned
  <1> QED  BY Zenon, <1>1, <1>2, <1>4, <1>6, <1>7, <1>8 DEF Next

(* Both searches of ValidateWorkflowDefinition terminate, on any graph.     *)
THEOREM SearchesTerminateHolds == Spec => SearchesTerminate
  <1>1. Init => TodoInv  BY DEF Init, TodoInv
  <1>2. IInv /\ TodoInv /\ CheckInv /\ [Next]_vars => [Advances]_vars
    BY Zenon, SearchAdvances
  <1> QED  BY <1>1, <1>2, TodoStep, IInvHolds, CheckInvHolds, PTL DEF Spec, SearchesTerminate
=============================================================================
